# A TLA+ model of the eBTC protocol

eBTC is a collateralised crypto asset on Ethereum: borrowers lock stETH in
*collateralised debt positions* (CDPs) and mint eBTC against it. This
directory holds a TLA+ model of the contracts in `src/packages/contracts/contracts/`
(written `C/` below), TLC configurations that check it on small instances, and
theorems about it that TLAPS proves for every value of the constants.

    tlc -config MCLiquidation.cfg MCHelpers.tla     # section 4 lists the runs
    tlapm EbtcProofs.tla

Contents: 1 the system, 2 the modules, 3 how the model relates to the code,
4 the properties and the runs, 5 what disagrees with the documents,
6 the proofs, 7 what is not modelled, 8 what is left.

## 1. The system

### Components

| Component | State it keeps | Operations | What makes it correct |
|---|---|---|---|
| `CdpManagerStorage` | CDPs, stakes and their snapshots, fee and redistribution indices with their remainders, grace period | global sync of the staking-reward split, per-CDP sync, stake update, closing, grace period | pending fees and debt are applied once; stakes add up to their total; the grace period follows the mode |
| `LiquidationLibrary` (reached by `delegatecall` from `CdpManager`) | that of `CdpManager` | `liquidate`, `partiallyLiquidate`, `batchLiquidateCdps` | only what may be liquidated is; bad debt is passed on in full; never the last CDP |
| `CdpManager` | base rate, last redemption, governed parameters | `redeemCollateral`, sync, setters, and the half of each borrower operation that changes a CDP | redemption at face value, in order, sparing CDPs below MCR; setters do not reprice the past |
| `BorrowerOperations` | position-manager approvals and permit nonces, flash-loan fee | open, adjust, close, claim surplus, approvals and permits, `flashLoan` of eBTC | ratio checks hold of what is stored; tokens and debt change alike; one-time approvals work once |
| `SortedCdps` | doubly linked list by nominal ratio, nonce for ids | `insert`, `remove`, `batchRemove`, `reInsert`, `findInsertPosition`, paged views | both link directions describe one sequence; a position is found from any hint; pages miss nobody |
| `ActivePool` | collateral of the system, its debt, the fee recipient's part, flash-loan fee | transfers, fee claim, `flashLoan` of stETH, debt up and down, TWAP update | owns at least what it accounts for, loans included |
| `CollSurplusPool` | surplus by owner and in total | credit, claim | every claim can be paid |
| `EBTCToken` | balances, supply, allowances, nonces | mint, burn, transfer, `transferFrom`, `permit` | supply = debt of the system; a permit takes effect once |
| `TwapWeightedObserver` | weighted accumulator of the debt | `update`, `observe` | every second weighs once; a change does not count in its own block; its failure stops nothing |
| `PriceFeed` | state machine over Chainlink and a fallback, last price | `fetchPrice`, setters | never answers with the price of an oracle it distrusts; trusts again in the end |
| `EbtcFeed`, adapters | primary and secondary oracle, last good price | `fetchPrice`, setters | always answers, with a price that is trusted now or was served last |
| `Governor`, `RolesAuthority`, `Auth*` | roles, capabilities, their registers, owner | grant, revoke, make public, burn | the registers list what is granted; a burned capability never returns |
| `HintHelpers`, sequencers, `MultiCdpGetter` | none | views that plan a redemption or a batch liquidation, or list CDPs | what they plan can be carried out at once |
| Periphery | none the protocol reads | leverage macros, smart account, deployer, fee recipient | |

### How they interact

A borrower calls `BorrowerOperations`, which syncs and prices, checks the
ratios, and then calls `CdpManager` (the CDP), `SortedCdps` (its place),
`EBTCToken` (mint or burn), `ActivePool` (debt and collateral) and the
collateral token. Liquidators and redeemers call `CdpManager`, which
changes the same ledger and credits `CollSurplusPool`. Every change of the
debt tells the observer, and redemptions ask it for the smoothed debt.
Everyone reads the price from `EbtcFeed`, which asks `PriceFeed` or an
adapter, and the share rate from stETH. `Governor` decides who may call a
setter. Nothing runs by itself: whatever is due after a rebase or a
change of price is settled by the transaction that comes next.

### What is hard in it

* **Lazy accounting.** A rebase changes the worth of every share at once; the
  protocol takes its split globally at the next call, and from each CDP when
  that CDP is touched, through an index per unit of stake. Bad debt is spread
  through a second index. Both carry remainders, both are floored, and the
  stakes they divide by change with every operation.
* **Order.** Transactions interleave freely with each other, with rebases and
  with price changes. Inside one transaction a batch changes the mode it is
  judged by, a redemption moves from CDP to CDP and may stop half way, and the
  sorted list is brought up to date after the loop. The ratios by which the
  list is sorted drift while the ids stay where they are.
* **Modes and time.** Recovery Mode changes what is allowed, and a grace
  period that runs from the first transaction to *notice* it delays
  liquidations. The base rate decays in whole minutes.
* **Rounding.** Shares, stETH, debt in BTC and ratios are converted into each
  other, floored each time; the boundaries LICR < MCR < CCR sit on top.
* **Callbacks.** Two flash loans hand control to a borrower in the middle of a
  transaction, and neither is `nonReentrant`.
* **Oracles.** Two feeds and a fallback jump, freeze, fail and recover in any
  order; calls to an oracle may revert or run out of gas half way.
* **Permits.** What an owner signed arrives late, twice, out of order or never.

`PROJECT.json` lists each of these at its line under `hazards`, with the
properties that would notice it going wrong.

## 2. The modules

    EbtcBase               constants, ratios, share conversion
      EbtcStorage          VARIABLES, TypeOK, Init, views
        CdpManagerStorage  the syncs, stakes, closing, grace period, list and token helpers
          BorrowerOperations   OpenCdp AdjustCdp CloseCdp ClaimSurplus... SetPositionManager...
          LiquidationLibrary   Liquidate PartiallyLiquidate BatchLiquidateCdps
          CdpManager           RedeemCollateral, base rate, six setters
            EbtcProtocol       the three together, token transfer, fee claim, sync,
                               and the environment: Rebase SetPrice Tick;  Next, Spec
              EbtcProperties   what the protocol promises
                MCEbtc         a bound on the length of behaviours, symmetry
                EbtcProofs     types, supply and debt, the synced views (with SumLemmas)
              FlashLoans       both lenders over the protocol, split at the callback
                FlashLoanProperties   (with EbtcProperties) what loans keep
                  MCFlashLoans
              HintHelpers, LiquidationSequencer     views over the protocol's state
                MCHelpers      (with MCEbtc)
                BooksProofs    (with EbtcProofs and FlashLoanProperties) books, batches,
                               redemptions, loans, hints and sequencers

    CdpSequence            what SortedCdps promises: a sequence
      SortedCdps           nodes, links, the search; implements CdpSequence
        CdpViews           the paged views over the list, and MultiCdpGetter
          SortedCdpsProofs (with SumLemmas)

    PriceFeed              the five states, the feeds as environment
      EbtcFeed             primary, secondary and last good price over PriceFeed
      PriceFeedProperties
        PriceFeedProofs    (with EbtcFeed)

    TwapWeightedObserver   the observer and the three contracts that use it
      TwapProperties
        TwapProofs         (with SumLemmas)
    Delegation             allowances, position managers, permits of both
      MCDelegation
        DelegationProofs
    RolesAuthority         Governor's tables and who may change them
      RolesProperties
        MCRoles
        RolesProofs

    SumLemmas              induction over an interval, sums over finite sets

The contracts of the ledger share state, so their modules share one set of
variables (`EbtcStorage`) and each component module states its operations as
actions over it. `CdpManager` and `BorrowerOperations` split one borrower
operation between them by calls; in the model the operation is one action of
`BorrowerOperations` and includes the effect of those calls (`UpdatedCdp`, `ClosedCdp`,
`RestakedTotal`, `ListInsert`, ...).

The other groups have state of their own and meet the ledger in a few values,
which is where the models are cut: the ledger's list is the sequence that
`SortedCdps` is shown to implement; its price is any of a few values, whatever
`EbtcFeed` answered; the smoothed debt that a redemption charges is an input
that `TwapWeightedObserver` would answer; an approval lets a manager act, and
`Delegation` says how it came about; a setter may be called at any moment, and
`RolesAuthority` says by whom. Flash loans can reach the whole ledger from
the callback, so `FlashLoans` composes with it and is not cut.

Helpers follow the functions of the code. Those that *compute* return a record
(`SyncedGlobal`, `SyncedCdp`, `LiquidationValues`); those that *assign* are
actions over a few variables (`SyncFeeIndices`, `Mint`, `Burn`, `DecreaseSystemDebt`).
Loops are folds: `BatchAfter` over the ids of a batch, `RedeemedAfter` over the list from
the first CDP redeemed towards the head, `HintsAfter` over the same list in the view,
`DecPowAfter` over the halvings of an exponent, `Descent` and `Ascent` along the links.
They are recursive functions, not RECURSIVE operators, so that
the provers can reason about them.

Definitions named as mutated forms (each is marked `Mutant:` in its comment, and is used by no
action) are what a plausible bug would make of the definition that follows
them. `PROJECT.json` pairs each property of each run with one, under which TLC finds the
property violated: evidence that the run can see it fail.

## 3. How the model relates to the code

* **One transaction is one step**, except around a callback. The EVM runs
  transactions one at a time; a revert undoes everything. So a handler is an action,
  a `require` a conjunct of its guard, and a revert is a disabled step. A flash loan is two
  steps, up to the callback and after it; between them every action of the protocol may
  happen, a second loan included, up to `MaxDepth`. The code's `ReentrancyGuard` need not
  appear: `flashLoan` is not guarded, and a guarded function calls nobody
  who could call back.
* **Numbers.** Fixed-point numbers are naturals and every division floors, as in
  Solidity. `DECIMAL_PRECISION` is the code's 1e18. Subtractions which
  Solidity checks are guards where the code could revert; `TypeOK`, proved,
  says none goes below zero elsewhere. Overflow of 256 bits is out of scope: the values
  are many orders of magnitude away from it. The 128 bits of the observer and the
  infinite allowance of `EBTCToken` are within reach, and are constants
  (`MAX_UINT128`, `MAX_UINT256`) which the runs make small.
* **Storage.** One variable per storage slot the accounting reads. The mappings
  `cdpStEthFeePerUnitIndex` and `cdpDebtRedistributionIndex` are the fields `feeIndex`
  and `debtIndex` of the CDP's record.
* **The list**, for the ledger, is the sequence of ids from head to tail. An insertion takes
  its position from the input (`k`, standing for the hints) and requires what
  `_validInsertPosition` requires. `SortedCdps` has the nodes and links, and
  follows any pair of hints, absurd ones too, to such a position; it is checked
  to implement the sequence (`ImplementsSequence`). There the
  ratios are a variable that moves freely between any two calls, because in
  the ledger they move with every redistribution and every fee.
  Ids are handed out in order, standing for owner, block and nonce.
* **Hints of a redemption.** `first` is any position the check in `_isValidFirstRedemptionHint`
  accepts, or the one the walk from the tail finds; `hintMatches` says whether the caller's nominal ratio
  is the one computed. `HintHelpers` computes both as the view does.
* **stETH** is outside `src/`: a share rate that moves between a few values,
  conversions that floor, and the shares each pool holds. Borrowers
  are assumed to own the stETH they send.
* **Oracles.** A round is an answer and an age; `NoAnswer` stands for a call
  that reverts, an answer that is not positive and a round of id zero, which the code treats alike.
  Ages are cut at `MaxAge`, just past the timeouts. A call of `EbtcFeed` to
  an oracle either returns or is undone as a whole; which is an input, because gas is.
* **The debt TWAP** read by a redemption of the ledger is an input (`TwapObservations`), or the current debt.
* **Price, rate, time** move in steps of their own, so any other transaction can come between.
* **Permits.** Signing is a step off chain; a digest binds a permit to a nonce, and
  is modelled by the equality it enforces.
* **Left out as data**: events, names, versions, signatures, sizes of arrays
  that only cost gas.

Bounds, all named: `MaxCdps` ids are issued; `MaxTime` is the last timestamp; a batch has at
most `MaxBatch` ids; loans nest `MaxDepth` deep; `MaxNonce` is the last nonce of a permit;
`MaxAge` the oldest round told apart; `MaxSteps` and `MaxCalls` cut behaviours in the MC modules; the
sets `OpenDebts`, `Prices`, ... are the inputs there are. `Init` and `Next` mention no other.

## 4. Properties and runs

| Run | Module | Inputs chosen for | Properties | States |
|---|---|---|---|---|
| `Borrowing` | `MCEbtc` | opening, every kind of adjustment, closing and redemption, by owners and managers; prices 90 and 100 cross CCR; rewards and slashing; every setter; a smoothed debt below the current one; a minute of two seconds, so that half of one can pass | `TypeOK` `BalancesAddUp` `BooksAreKept` `GracePeriodFollowsTheMode` `NoBorrowerBecomesLiquidatable` `DecayedRateIsSteady` `SyncedViewsAreStable` | 293 k |
| `Liquidation` | `MCHelpers` | 3 CDPs, prices and a rebase on either side of every threshold, a clock that lets the grace period end, partial amounts, batches of 2 | `BooksAreKept` `SequencedBatchLiquidates` `SequencersAgreeOnceSynced` `OnlyDustIsLost` `NeverEmptiedAgain` `LiquidationNeedsCause` `LiquidatedInTurn` `LiquidationNeverLowersTCR` | 163 k |
| `Redemption` | `MCHelpers` | amounts that end inside one CDP, span several or would take them all (35, 80, 90); iteration limit; a price at which some CDPs fall below MCR; pending fees and redistributed debt | `BooksAreKept` `HintsMatchTheRedemption` `NeverEmptiedAgain` `RedemptionIsAtFaceValue` `RedemptionSparesUnhealthyCdps` | 79 k |
| `FlashLoans` | `MCFlashLoans` | loans of both kinds, nested two deep, small and as large as the collateral; in the callback anything, a rebase included | `SupplyIsDebtAndLoans` `PoolAndLoansAreSolvent` | 288 k |
| `PriceFeed` | `PriceFeedProperties` | answers that agree and that jump by half, no answer, stale, zero and future timestamps, either feed for stETH/ETH | `SuspicionIsRemembered` `PricesAreTrusted` | 466 k |
| `EbtcFeed` | `EbtcFeed` | `PriceFeed` and an adapter in either role, calls that fail, prices that come and go; fair | `ServedPriceIsTrustedOrLast` `ServesChainlinkAgain` `SurvivesWithoutFallback` | 192 k |
| `SortedCdps` | `CdpViews` | a list of up to 4 of 5 ids, so that it fills; every pair of hints; ratios that drift | `LinksAreConsistent` `InsertPositionIsFound` `ImplementsSequence` `ViewsMatchTheList` | 9 k |
| `DebtObserver` | `TwapProperties` | a period of 3 seconds, 14 for the largest accumulator, so that it overflows | `TrackedValueIsTheDebt` `AverageIsTimeWeighted` `ObservedDebtIsSteadyWithinABlock` | 625 k |
| `Delegation` | `MCDelegation` | limited and unlimited allowances; permits of either contract, with a deadline that may pass | `SpentWithinAllowance` `OneTimeMeansOnce` `PermitsTakeEffectInOrder` | 822 k |
| `Roles` | `MCRoles` | an owner and two others, two roles, capabilities over two targets, one with two functions; Governor governs itself | `RegistersAreComplete` `BurnedForGood` | 183 k |
| `CdpPages`, `RedemptionTCR` | `CdpViews`, `MCEbtc` | section 5 | | |

### The properties

Each is stated in words above its definition.

* *Books* (`EbtcProperties`): `BalancesAddUp`, that the balances are the supply, and `BooksAreKept`, one
  invariant of several named parts: the supply is the debt of the system, the stakes add up to their total,
  every debt reaches the minimum, the list holds the active CDPs once each, the pool owns what it
  accounts for, and every surplus can be claimed. Each part relates the ledgers of two contracts, or a total to its parts.
* *Lazy accounting*: `OnlyDustIsLost` defines, without rounding, what all CDPs owe and own
  once both indices are applied and compares it with the totals of the
  system. Each transaction may lose under a unit per CDP it touches, and may gain
  nothing, except that a fee which reaches a CDP's collateral is left untaken by the code (section 6,
  `CollTheorem`), which no state of the `Liquidation` run meets. `SyncedViewsAreStable` says that a CDP no transaction touches
  is worth the same before and after, whoever syncs first.
* *What may be taken*: `LiquidationNeedsCause` judges each id of a batch by the mode before the batch, and
  `LiquidatedInTurn` by the mode and the ratio that the ids before it leave behind, which may end Recovery Mode half way.
  `RedemptionSparesUnhealthyCdps` says that no CDP below MCR has debt taken off it, whether it is closed
  or redeemed in part; `RedemptionIsAtFaceValue`, what an owner of several CDPs may lose;
  `NeverEmptiedAgain`, that a CDP is left, after a batch and after a redemption whose closed CDPs leave the list in one
  `batchRemove`. The two about redemptions are written as the contrapositive, `[][~P => ~RedemptionAction]_vars`: TLC then
  looks for a redemption only behind the few steps that break `P`.
* *What may be brought about*: `NoBorrowerBecomesLiquidatable` by its own transaction; `LiquidationNeverLowersTCR`
  (L-12 of `src/packages/contracts/specs/PROPERTIES.md`), with the
  condition under which the code keeps it: the file lists L-12 as not
  holding in general, and with redistribution below MCR it does not.
  `GracePeriodFollowsTheMode`. `DecayedRateIsSteady`: no transaction, a redemption included, loses the seconds
  left over towards the next minute, and only one that touches a CDP moves the decayed base rate.
* *Views that plan* (`HintHelpers`, `LiquidationSequencer`): in every state, what the view answers is carried out
  on paper by the operators of the real operation, which share no code with it.
* *Callbacks* (`FlashLoanProperties`): while loans are open, supply is debt and loans, and what is in the pool together with
  what was lent covers every claim on it; once they have returned, both hold without the loans.
* *Oracles*: `SuspicionIsRemembered` keeps a record, beside the state machine, of what the fetches so far have seen of
  Chainlink, and the status must not forget it. `PricesAreTrusted` judges what any fetch would
  return from the rounds alone, and says when a fetch may revert: only if the fallback in use answers well and its timeout
  cannot be read (section 5). `ServedPriceIsTrustedOrLast` says it of the two contracts together.
* *List*: the links in both directions are one sequence; every search ends at a valid position; every view, whole or in pages
  of any length, agrees with that sequence for every owner.
* *Time-weighted debt* (`TwapProperties`): a record of the debt second by second stands beside the
  observer, and the accumulator must equal its sum.
* *Delegation, roles*: records of what was granted, signed and burned stand beside the contracts.

The type invariant of the ledger, `TypeOK`, is a property of its own because it is proved; those of the other
modules are the first conjunct of their main invariant (`LinksAreConsistent`, `TrackedValueIsTheDebt`,
`SpentWithinAllowance`, `RegistersAreComplete`, `SuspicionIsRemembered`, `SupplyIsDebtAndLoans`).

`GracePeriodFollowsTheMode` and `NoBorrowerBecomesLiquidatable` allow for two units of stETH in the ratio of the system,
and `LiquidationNeverLowersTCR` for one per CDP, whose part of the fee is rounded on its own: at the model's scale
a unit of rounding moves a ratio by a whole step, so the exact statements are
false for rounding alone.

### Bounds

The runs of the ledger have two accounts, symmetric where no account is named, because every
hazard found needs at most an owner and someone else; two or three CDPs, because a batch, a redemption
across CDPs and a redistribution need one to take, one to take or skip, and one to
stay. `DECIMAL_PRECISION` is 100, so that ratios such as 103, 110 and 125 keep two
digits, products of three amounts stay inside TLC's 32-bit integers,
and rounding happens in nearly every step: an error of one unit is 1%, not 1e-18.
Amounts are chosen around the thresholds: at a debt of 80 and 100 stETH a CDP is
exactly at CCR at price 100, above MCR at 90 and below LICR at 80 or 70. Behaviours
have up to 6 or 7 steps: opening takes two or three, a change of price, rate or time one or two,
which leaves two or three transactions that act on the state reached; longer runs of the same actions only repeat
these phases. `FlashLoans` also has 6: a CDP, two loans, a callback, two returns.

The other runs have no bound on the length of behaviours but time, nonces and, in `Delegation`, the five calls that a
grant, a permit and their use need. In `PriceFeed` Chainlink has two answers, of which the
fallback's one agrees with the first and not with the second, and which are further apart than the largest change between
rounds, since every comparison is between two prices; the feeds'
timeouts are zero and ages 0 or 1, fresh or stale. `EbtcFeed` fixes the stETH/ETH
feed and leaves odd timestamps to `PriceFeed`. It has one answer of Chainlink and one of the fallback, which agree: with
a second answer of Chainlink the temporal properties are out of reach of a run of minutes. So no round of that run deviates,
and of the two verdicts that `ServesChainlinkAgain` names, "live" and "deviating", it exercises the first; how the
status takes a deviating round is for the `PriceFeed` run. `Delegation` has one owner: what two owners' nonces
could do to each other, in two contracts that keep them by owner, is left to the proof (`PermitsTheorem`, for any set of
owners). In the
list, four nodes are the fewest with a batch in the middle, that is with a node on either side, and
two ratios are enough for a list that is out of order.

**Deadlock** is checked in every run. A behaviour that reached `MaxSteps` or `MaxCalls` stutters; in the other runs
something may always be called, if only a view that writes, as `observe` does.

**Fairness and liveness.** The ledger assumes no fairness, and claims no liveness: nobody is
obliged to call a contract. The price is different: `fetchPrice` is public
and part of every operation that needs a price, so `FairFeedSpec` has weak fairness of `ServePrice`, and of
nothing else: oracles fail and recover and governance acts, or does not, as they please.
Under it, `ServesChainlinkAgain` and `SurvivesWithoutFallback` say that a Chainlink that is healthy from some point on is what the protocol
is served from, again and again, whatever was distrusted before.

## 5. Where documents and code disagree

Two runs each check a sentence of the repository that the code does not keep.
Neither depends on rounding.

* `RedemptionTCR` / R-07, "TCR should not decrease after redemptions" (`src/packages/contracts/specs/PROPERTIES.md:118`).
  When CDPs below MCR are skipped, the first one redeemed may be stronger than the system. Closing it
  releases its surplus, and the ratio of the rest is lower.
* `CdpPages` / "return EITHER the found Cdps [...] OR empty array with current lastly-visited CDP as the startNode for next
  pagination" (`C/SortedCdps.sol:298`). A page of `getAllCdpsOf` without CDPs of the owner is sized by a count
  of zero, and `_getCdpsOf` returns early, with the empty id for the next start (`C/SortedCdps.sol:307`). That is also
  the answer at the end of the list, and a caller who pages stops before the owner's CDPs further up.

Met while modelling, and not kept as runs:

* BO-09, "Borrower can not open a CDP that is immediately liquidatable"
  (`C/TestContracts/invariants/PropertiesDescriptions.sol:75`): `_openCdp` checks the
  ratio of the stETH that was sent (`C/BorrowerOperations.sol:473`) and stores the floor of it in shares, which
  is worth up to a unit less. `NoBorrowerBecomesLiquidatable` allows for that unit.
* GENERAL-11, "The TCR pre-computed (TCRNotified) is the same as the one after all calls"
  (`specs/PROPERTIES.md:85`): `_getNewTCRFromCdpChange` floors two balances apart; afterwards one is floored.
  `GracePeriodFollowsTheMode` allows for it.
* LS-01, "The Liquidation Sequencer produces the same output as the SyncedLiquidationSequencer"
  (`specs/PROPERTIES.md:94`): the latter takes the mode from collateral as last accounted for
  (`C/SyncedLiquidationSequencer.sol:49`), so the two may differ while a fee is pending. `SequencersAgreeOnceSynced`
  is the statement without one.
* PF-01, "The price feed must never revert" (`specs/PROPERTIES.md:230`,
  `C/TestContracts/invariants/PropertiesDescriptions.sol:160`; asserted in
  `C/TestContracts/invariants/echidna/EchidnaPriceFeedTester.sol:251`): `_fallbackIsFrozen` calls
  `fallbackCaller.fallbackTimeout()` outside any `try` (`C/PriceFeed.sol:556`), after a response that was good. When
  that call reverts, `fetchPrice` reverts. The tester provides for it (`setFallbackTimeoutRevert`, line 118). In the model such a
  fetch has no outcome (`FallbackVerdict = "unreadable"`), `PricesAreTrusted` says that this is the only way to revert, and
  `ServedPriceIsTrustedOrLast` that the protocol is served nevertheless: `EbtcFeed` takes the call for a failed
  one and goes on to its secondary oracle or the last good price.
* "Reverts if the index exceeds the number of active Cdps owned by the given owner" (`C/SortedCdps.sol:136`):
  `cdpOfOwnerByIndex` drops the second answer of `_cdpOfOwnerByIndex`, which says whether a CDP was found, and returns
  whatever comes with it, the empty id at the end of the list. `ViewsMatchTheList` speaks of the pair: it says that a CDP
  is found exactly when the index is within the owner's, and is then the right one.
* `specs/PriceFeed.tree` is behind `PriceFeed.sol`. Its CASE 4 lacks the branch for a Chainlink price that changed
  by more than the maximum (`C/PriceFeed.sol:335`). Its CASE 5 compares the two oracles before it looks at the change
  between rounds; the code looks at the change first (`C/PriceFeed.sol:392`). In CASE 1 its line 9 sends a fallback that is
  "frozen or working" to the last good price, and line 10 repeats "working". The model follows the code.
* `PriceFeed` says it "stores the last good price" (`C/PriceFeed.sol:136`); `_storePrice` (line 622) only emits an event, and
  `lastGoodPrice` is never written. The last good price that counts is that of `EbtcFeed`.
* `README.md:334` says that the hinted amount leaves a CDP no less than the minimum debt; `HintHelpers.sol:99` looks
  at its collateral only. `redeemCollateral` then cancels the last step, and `HintsMatchTheRedemption` holds
  because such a hint comes with a collateral and a ratio.

The items which `PROPERTIES.md` itself marks as not holding (L-12, L-15, SL-05) are no findings.

## 6. Proofs

Every leaf is checked by TLAPS (SMT, Zenon, and LS4 for the temporal steps). Each theorem holds
for every value of the constants, and states a property that a run also checks. Of `OnlyDustIsLost`, `DebtTheorem` and
`DebtCoverTheorem` state the half that holds in general, and `CollTheorem`, `OnlyDustTheorem` and `CollCoverTheorem` the rest
under a condition that is named below.

Two tools carry them. The loops are functions on an interval of naturals; a lemma unfolds each
(`DecPowAfterUnfolds`, `BatchAfterUnfolds`, `RedeemedAfterUnfolds`), and `IntervalInduction`
(`SumLemmas`), itself proved from the well-foundedness of the naturals, carries a statement about
the loop's record from one pass to the next. And `SumLemmas` shows of the community modules'
`SumFunctionOnSet`, over any finite set, that it is the fold it claims to be, whatever order the fold
takes its elements in: what it is when an element joins, when one value changes, and that sums add.

### The ledger

`EbtcProofs`:

* **`TypeCorrect`**: `Spec => []TypeOK`. For any accounts, any number of CDPs, any
  inputs, batches and redemptions of any length. The content is in the
  subtractions: the types are naturals, so the theorem says no path underflows
  where the model has no guard. `TypeOK` alone is not inductive: the debt a CDP has pending is
  `stake * (systemDebtRedistributionIndex - debtIndex) \div DECIMAL_PRECISION`, and that is a
  natural only while no CDP is ahead of the index. The invariant is
  `TypeOK /\ IndicesAreReached`, where `IndicesAreReached` says so for every CDP.
  (The fee index needs no such part: `getAccumulatedFeeSplitApplied` compares the two first.)
  There is a lemma per action, under it a step per group of variables.
* **`ViewsTheorem`**: `Spec => SyncedViewsAreStable`. Every step either accounts for the share rate in full or
  leaves alone everything a later account of it reads (`SyncsOrWaits`). In the first case the global
  record computed afterwards is the one computed before, in the second because nothing it reads moved.

`BooksProofs`, over the invariant `LedgerInv`: `TypeOK`, `IndicesAreReached`,
`CdpBooks` (each CDP is *proper*, that is, one that is not active has no debt, no stake and no reward and an
active one has its minimum debt and an owner; the stakes add up; the list holds the active CDPs once each),
`SurplusIsClaimable` and `BalancesAddUp`. They are kept together and not one by one: a closing takes the CDP's stake
off the total only because it is active, and which CDPs are active is known from the list it walks.

* **`BooksTheorem`**: `Spec => []BooksAreKept`, and **`BalancesTheorem`**: `Spec => []BalancesAddUp`. That supply stays in step with debt (`SupplyStep`, in `EbtcProofs`)
  covers a redemption, which burns its total in one go after a loop in which it touched several CDPs, and a liquidation,
  which burns only what it does not redistribute. Solvency of the active pool is kept as a margin that never becomes negative
  (`PoolMargin`, what the pool holds less what it owes): each step leaves the margin or adds to it. Inside a batch the
  books are those of values of the loop (`IsKeptBatch`); inside a redemption `IsKeptLoop` adds that the CDPs closed are the
  last ones from the first redeemed towards the head, which is the stretch of the list cut out at the end by
  one `batchRemove`.
* **`NeverEmptyTheorem`**, **`CauseTheorem`**: `NeverEmptiedAgain` and `LiquidationNeedsCause`. The loops leave
  one CDP behind (`IsJustBatch`, `IsJustLoop`). `batchLiquidateCdps` judges the later ids by the mode after
  the earlier ones; `IsJustBatch` says that a batch still counting on Recovery Mode has been in it from its start,
  so that the cause it finds for an id was a cause before it.
* **`DecayTheorem`**: `Spec => DecayedRateIsSteady`. Whoever moves the clock of the base rate moves it by whole minutes, so that
  the remainder of the time passed is the same before and after (`ClockRunsOn`, from `RemainderOfDivision`), by setters and by
  redemptions alike (`RedemptionKeepsTheClock`). A redemption is told from a setter by the CDPs it touches, and the loop leaves such a
  mark whenever it draws collateral (`LeavesAMark`).
* **`FaceValueTheorem`**: `Spec => RedemptionIsAtFaceValue`. Each pass draws collateral worth no more than the debt it cancels;
  over the loop, what the CDPs of one owner lose, less the surplus credited to that owner,
  is covered by what they repay (`IsFaceValueLoop`), although one owner may have several CDPs
  and the loop visits only some.
* **`DebtTheorem`**: `Spec => [][DebtLosesOnlyDust]_vars`, the debt half of `OnlyDustIsLost`, and **`DebtCoverTheorem`**:
  `Spec => [](DebtDust >= 0)`, that the CDPs never owe more than the system's total. What all CDPs owe, unrounded, is linear
  in the redistribution index with the total of stakes for its slope (`SumIsLinear`), so a transaction is taken in two
  parts. First it settles CDPs at the old index: each one it changes is up to date afterwards (`IsSettled`), and owes
  less by what is repaid of it and by less than a unit that is rounded away (`DebtMoves`). Then a liquidation may move the index
  (`DustShared`): the division leaves exactly its remainder in `lastEBTCDebtErrorRedistribution`, and
  the CDPs that still have a stake take on the rest. The loops of batches and redemptions keep the first part
  (`BatchIsSettled`, `LoopIsSettled`).
* **`CollTheorem`**, **`OnlyDustTheorem`**, **`CollCoverTheorem`**: the collateral half, and with it the whole of `OnlyDustIsLost` and
  `CollDust >= 0`, in the behaviours in which every step has `TouchedFeesFit`: no fee due on a CDP that the step touches
  reaches the CDP's collateral. The hypothesis is needed, because `getAccumulatedFeeSplitApplied` leaves such a fee untaken
  although the rest of the system has given it up, and the loss is then the whole fee; every step of the `Liquidation` run
  satisfies it, with fees pending. Here the index moves first: `SyncMovesTheClaims` says that the sync takes off
  the total, with the remainder kept in the index error, what it takes off all claims. Then each CDP that
  is changed has been charged (`IsCharged`) and loses less than a unit to the division (`FeeLosesDust`), so that a transaction is
  accounted for (`CollIsAccounted`) once the total drops by what the CDPs give up beyond their fees. The loops keep this as
  `IsDrawnBatch` and `IsDrawnLoop`. It needs one more part of the inductive invariant (`IsProper`): an active CDP has a
  positive fee index, without which the code would skip its fee, and an inactive one has no collateral.
* **`FlashSupplyTheorem`**, **`FlashPoolTheorem`**: `FlashSpec => []SupplyIsDebtAndLoans` and
  `FlashSpec => []PoolAndLoansAreSolvent`, for loans nested to any depth. The invariant `FlashInv` is that of
  the ledger with what is out on loan added to both sides: supply less debt is the eBTC lent,
  and the margin of the pool is no lower than what was lent out of it. Between loans every lemma of the
  ledger applies, because none of them needs the margin, or the difference of supply and debt, to have a particular
  value: they say that it is kept.
* **`SequencersTheorem`**: `Spec => []SequencersAgreeOnceSynced`. Both sequencers judge a CDP by the same ratio when no fee is
  pending. One of them stops at the first CDP that may not be liquidated; the other looks at all `n`. Up to where the first
  stops they collect the same ids, by induction along the tail of the list; beyond it, only ratios that are no lower
  follow (`RatiosFall`, which the property has for a premise), so the second finds none.
* **`HintsTheorem`**: `Spec => []HintsMatchTheRedemption`. The walk of `getRedemptionHints` and the loop of `redeemCollateral` are
  taken one CDP at a time: `HintStep` gives the three ways a CDP can go (redeemed whole, in part, or left because
  too little would remain), and `IsFollowed` says that the loop has then done the same with the same remaining amount. Both
  walks end at one place, known from the first (`WalkLeaves`), and an induction along them carries `IsFollowed` there.

### The list

`SortedCdpsProofs`. `Represents(list, s)` says that head, tail, size and links are those of the
sequence `s`, and that all other nodes are blank. The invariant `SortedInv` says that the list represents the
sequence read off its links.

* **`LinksTheorem`**: `Spec => []LinksAreConsistent`.
* **`SearchTheorem`**: `Spec => []InsertPositionIsFound`. From any two hints, in a list whose ratios need not be in order: the three
  searches each stop at a place where the ratio fits (`FitsAt`), the descent from the head because the end
  of the list accepts any ratio that no earlier place did.
* **`SequenceTheorem`**: `Spec => ImplementsSequence`, the refinement of `CdpSequence`. Each operation on
  the links is shown to put one id into the sequence, or cut a stretch out of it (`Put`, `Cut`, `Relinked`,
  `CutLinks`), and that to be a step of the abstract specification.
* **`ViewsListTheorem`**: `Spec => []ViewsMatchTheList`. A walk that has `a` ids behind it passes the next ones of the list
  read backwards (`WalkIs`). Over that stretch, what it collects of an owner is what a walk over all of it would have gained
  (`StretchCounts`), so page `j` counts the difference of two places of one whole walk (`RightPage`), and the
  pages add up to its end, which the caller reaches in no more turns than there are CDPs (`AllPagesAreRight`).

### The others

* `TwapProofs`. **`TrackedTheorem`**: `WatchedSpec => []TrackedValueIsTheDebt`, with `TypeOK` a part of it, so neither the
  accumulator nor an average leaves its 128 bits. An average is a difference divided by a time, and the difference
  is no natural by its type: the invariant adds `ObservedIsAccrued`, that what was observed is part of what was accrued.
  **`SteadyTheorem`**: `WatchedSpec => ObservedDebtIsSteadyWithinABlock`. `CallEffect` reduces the five calls to three effects
  on the observer (left alone, debt tracked, observation made), and `LatestIsSteady` says that none
  of them changes what has been accrued by now.
  **`AverageTheorem`**: `WatchedSpec => []AverageIsTimeWeighted`, from `EverySecondIsAccrued`: what was accrued since the last
  observation is the sum of the record kept second by second. A tick adds any number of seconds, so the step is
  an induction of its own.
* `DelegationProofs`. **`SpentTheorem`**, **`OneTimeTheorem`**, **`PermitsTheorem`**, the three properties of the run,
  for any number of calls. Allowances, managers and permits have an invariant each; every call keeps
  one of them by a lemma on the pair it is about and leaves the other two alone, except a
  permit, which uses up a nonce and changes one of the others. The permits' invariant is their property with types: that
  every used nonce is below the contract's is what puts the next permit after all earlier ones.
* `RolesProofs`. **`RegistersTheorem`**: `RolesSpec => []RegistersAreComplete`. The property speaks of the views; the invariant,
  `TypeOK /\ RegistersAreExact`, of single entries of the three registers. A function leaves its
  target's register with the last role that had it, and a target leaves with its last function.
  **`BurnedTheorem`**: `RolesSpec => []BurnedForGood`, from the invariant `BurnedIsFlagged`: what was burned keeps its flag.
* `PriceFeedProofs`. **`SuspicionTheorem`**: `WatchedSpec => []SuspicionIsRemembered`. The property is inductive as it
  stands. `CondemnedIsUntrusted` takes a fetch that condemns Chainlink through the five states,
  `SuspicionIsKept` one that does not vindicate it through the two that distrust it.
  **`PricesTheorem`**: `WatchedSpec => []PricesAreTrusted`. `PricesHaveAnOrigin` goes through the outcomes of a fetch once and says which oracle,
  in which condition, each price is from (`Origin`); `FetchReturns`, that there is an outcome unless a timeout is unreadable.
  **`ServedTheorem`**: `ServedPriceIsTrustedOrLast` of `EbtcFeed`, from `FeedInv`: the last good
  price is a price, and the one that was served, if one was.

### From what

Assumptions, all named and evaluated by TLC in the runs: `ScaleAssumption`, `ThresholdAssumption`, `MinimumAssumption`
(`EbtcBase`), `InputAssumption` (`EbtcStorage`) and the one for the inputs of each component of the ledger;
`FlashLoanAssumption`, `SortedCdpsAssumption`, `ObserverAssumption`, `DelegationAssumption`,
`RolesAuthorityAssumption`, `PriceFeedAssumption`, `EbtcFeedAssumption`.
They say that amounts are naturals, rates, periods and prices are positive, and that
parameters are in the ranges their setters enforce. `AccountAssumption` says that there are finitely many accounts, as there
are addresses; sums of balances need it.

### Only model-checked, and why

* `GracePeriodFollowsTheMode` and `NoBorrowerBecomesLiquidatable` compare a ratio computed from parts with one
  computed from the stored total. They allow for two units, which is right at the share rates of the run, and the
  error grows with the rate: as stated they are not true for all constants.
* `LiquidationNeverLowersTCR` has an error of the same kind per CDP.
* `RedemptionSparesUnhealthyCdps`: the walk stops at the first CDP at or above MCR, and that none above it is
  below MCR needs a sorted list. Fees and redistribution keep the order only up to rounding.
* `LiquidatedInTurn`: the order in which a batch took its CDPs would have to be carried through the loop beside
  `IsJustBatch`, with the sums of what was taken; not done.
* The collateral half of `OnlyDustIsLost` without `TouchedFeesFit` (see `CollTheorem`): as the code skips a fee that reaches the
  CDP's collateral, it is not true for all rates and amounts.
* `SequencedBatchLiquidates`: in Recovery Mode a batch takes what it has sent from the system's collateral, and where a fee was
  left untaken the CDPs together may hold more than that. The batch then reverts for want of it. `CollCoverTheorem` leaves the
  remainder in the index error: that it never exceeds what the CDPs outside the batch claim is not proved.
* `ServesChainlinkAgain`, `SurvivesWithoutFallback`: liveness under fairness, which with ENABLED is beyond the provers here. So is
  induction over data through the library's induction theorems, which take an operator as a parameter (hence the first-order
  `IntervalInduction`, applied to a set of indices), and RECURSIVE operators, of which there are none.

## 7. Not modelled, and why

* The leverage macros and `FeeRecipient`: they call the entry points that are modelled here in every order, and outside
  exchanges whose behaviour is not in the repository. `SimplifiedDiamondLike` (the smart account) forwards calls by
  selector. `EBTCDeployer` creates contracts at fixed addresses.
* `getApproxHint`: a random search whose answer `SortedCdps` takes as any other hint.
* `ReentrancyGuard`: see section 3.
* The governance timelock: an OpenZeppelin contract outside the repository. An authority of `Governor` other than
  `Governor` itself, and the names of roles, are left out with it.
* Minting and burning of eBTC by further accounts that governance may authorise, which parts supply from debt by design.
* `sweepToken`: moves tokens the system does not account for.
* Inside `PriceFeed`, the decimals of the feeds, which the constructor fixes. `ChronicleAdapter` is one of the adapters of which only the answer matters.
* `ChainlinkAdapter`, which keeps no state: it divides the answers of two feeds (ETH/USD by BTC/USD), takes the older of their
  timestamps, and answers for two round ids of its own, the latest round and the one before it. `PriceFeed` is checked against a feed whose two
  rounds take any of the answers and ages, or fail, which covers what the adapter can answer. Its arithmetic,
  and that the previous rounds of the two feeds need not belong together, are not modelled.
* A flash loan's stETH outside the protocol: a receiver that cannot pay it back is one whose transaction reverts.

## 8. What is left

To model: the observer composed with the ledger, so that the debt which prices a redemption is the
observer's own; `EbtcLedger`, an abstract specification (who owes, who owns, what is pooled) which `EbtcProtocol` implements
up to dust.

To prove: `SequencedBatchLiquidates` under `TouchedFeesFit`, with a bound on the index error; `LiquidationNeverLowersTCR` for
one liquidation, up to the rounding of the CDP's collateral.
