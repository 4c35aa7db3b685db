----------------------------- MODULE HintHelpers ----------------------------
(***************************************************************************)
(* HintHelpers.getRedemptionHints: the view a redeemer calls first, which  *)
(* walks the list as redeemCollateral will and predicts where it starts,   *)
(* the nominal ratio of the CDP it redeems in part, and how much it can    *)
(* redeem.  Both walks read the ledger of EbtcProtocol.                    *)
(***************************************************************************)
EXTENDS EbtcProtocol

-----------------------------------------------------------------------------
\* A CDP as the synced views of CdpManager report it
Viewed(id) == SyncedCdp(id, SyncedGlobal.feeIndex)

\* The position of the CDP with the lowest ratio at or above MCR, the first
\* from the tail; 0, for the empty id, when there is none.
FirstRedemptionHint ==
  LET healthy == {i \in 1 .. Len(sortedCdps) : ICR(Viewed(sortedCdps[i])) >= MCR}
  IN IF healthy = {} THEN 0 ELSE Max(healthy)

\* The walk: what remains to be redeemed, the collateral and the ratio that the
\* CDP redeemed in part is left with, whether the walk ended there, and whether
\* the view reverted.
NothingHinted(debt) ==
  [remaining |-> debt, partialColl |-> 0, partialNICR |-> 0, ended |-> FALSE, ok |-> TRUE]

\* Mutant: the collateral drawn is not taken from the CDP.
HintPartialUndrawn(h, cdp) ==
  IF GetPooledEthByShares(cdp.coll - CollDrawn(h.remaining)) < MIN_NET_STETH_BALANCE
  THEN [h EXCEPT !.ended = TRUE]
  ELSE [h EXCEPT !.ended = TRUE, !.remaining = 0, !.partialColl = cdp.coll,
                 !.partialNICR = ComputeNominalCR(cdp.coll, cdp.debt - h.remaining)]

\* A CDP that owes more than remains: it is redeemed in part when it keeps the
\* least collateral, its debt is not looked at; _calculateCdpStateAfterPartialRedemption.
HintPartial(h, cdp) ==
  LET collLeft == cdp.coll - CollDrawn(h.remaining)
  IN IF collLeft < 0 THEN [h EXCEPT !.ok = FALSE, !.ended = TRUE]
     ELSE IF GetPooledEthByShares(collLeft) < MIN_NET_STETH_BALANCE
     THEN [h EXCEPT !.ended = TRUE]
     ELSE [h EXCEPT !.ended = TRUE, !.remaining = 0, !.partialColl = collLeft,
                    !.partialNICR = ComputeNominalCR(collLeft, cdp.debt - h.remaining)]

HintStep(h, cdp) ==
  IF h.ended \/ h.remaining = 0 THEN h
  ELSE IF cdp.debt > h.remaining THEN HintPartial(h, cdp)
  ELSE [h EXCEPT !.remaining = @ - cdp.debt]

HintsAfter(debt, first) ==
  LET after[n \in 0 .. first] ==
        IF n = 0 THEN NothingHinted(debt)
        ELSE LET h == after[n - 1] IN HintStep(h, Viewed(sortedCdps[first - n + 1]))
  IN after

\* How many CDPs a walk from `first' to the head visits at most
WalkLength(first, maxIterations) ==
  IF maxIterations = 0 THEN first ELSE Lesser(maxIterations, first)

HintsFrom(debt, first, h) ==
  [first |-> first, partialNICR |-> h.partialNICR, truncatedAmount |-> debt - h.remaining,
   partialColl |-> h.partialColl, ok |-> h.ok]

GetRedemptionHintsFrom(debt, first, maxIterations) ==
  HintsFrom(debt, first, HintsAfter(debt, first)[WalkLength(first, maxIterations)])

GetRedemptionHints(debt, maxIterations) ==
  GetRedemptionHintsFrom(debt, FirstRedemptionHint, maxIterations)

-----------------------------------------------------------------------------
(* Redeeming at once what the hints say, from where they say.              *)

RedeemedAsHinted(hints, maxIterations) ==
  RedeemedAfter(hints.truncatedAmount, hints.first, SyncedGlobal, TRUE)
    [WalkLength(hints.first, maxIterations)]

\* The hints agree with what became of the redemption, `r'.
HintsHold(hints, r) ==
  /\ ValidFirstRedemption(hints.first, SyncedGlobal)
  /\ r.partly # NoCdp =>
       /\ hints.partialColl = r.partly.coll
       /\ hints.partialNICR = ComputeNominalCR(r.partly.coll, r.partly.debt)
  /\ hints.partialColl = 0 => r.partly = NoCdp /\ ~r.cancelled

HintsLeadTheWay(hints, maxIterations) ==
  hints.ok /\ hints.first > 0 => HintsHold(hints, RedeemedAsHinted(hints, maxIterations))

\* Followed at once, the hints lead where they say: the position is one that
\* redeemCollateral accepts, the CDP redeemed in part is left with the hinted
\* collateral, at the hinted ratio, and when none is hinted there is none: no CDP
\* is redeemed in part, and none is tried in vain.  The walks share no code, and
\* the redemption syncs each CDP it visits.
HintsMatchTheRedemption ==
  \A debt \in RedemptionDebts, maxIterations \in MaxIterations :
    HintsLeadTheWay(GetRedemptionHints(debt, maxIterations), maxIterations)

=============================================================================
