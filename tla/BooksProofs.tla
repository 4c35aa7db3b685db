----------------------------- MODULE BooksProofs -----------------------------
(***************************************************************************)
(* Machine-checked proofs that the books of the contracts agree.           *)
(***************************************************************************)
EXTENDS EbtcProofs, FlashLoanProperties, SequenceTheorems, HintHelpers, LiquidationSequencer

(* --- Sums over the CDPs and over the accounts -------------------------- *)

LEMMA CdpIdsAreFinite == IsFiniteSet(CdpIds)
  BY FS_Interval, InputAssumption DEF CdpIds

LEMMA CdpSumIsNat ==
  ASSUME NEW f \in [CdpIds -> Nat]
  PROVE  SumOverCdps(f) \in Nat /\ \A id \in CdpIds : f[id] <= SumOverCdps(f)
<1>1. \A id \in CdpIds : f[id] \in Nat
  OBVIOUS
<1> QED
  BY <1>1, CdpIdsAreFinite, SumOfNats DEF SumOverCdps

LEMMA CdpSumChanges ==
  ASSUME NEW f \in [CdpIds -> Int], NEW g \in [CdpIds -> Int], NEW id \in CdpIds,
         \A i \in CdpIds \ {id} : g[i] = f[i]
  PROVE  SumOverCdps(g) = SumOverCdps(f) - f[id] + g[id]
<1>1. \A i \in CdpIds : f[i] \in Int /\ g[i] \in Int
  OBVIOUS
<1> QED
  BY <1>1, CdpIdsAreFinite, SumChangedAt DEF SumOverCdps

LEMMA UserSumIsNat ==
  ASSUME NEW f \in [Users -> Nat]
  PROVE  SumOverUsers(f) \in Nat /\ \A u \in Users : f[u] <= SumOverUsers(f)
<1>1. \A u \in Users : f[u] \in Nat
  OBVIOUS
<1> QED
  BY <1>1, AccountAssumption, SumOfNats DEF SumOverUsers

LEMMA UserSumChanges ==
  ASSUME NEW f \in [Users -> Int], NEW u \in Users, NEW v \in Int
  PROVE  SumOverUsers([f EXCEPT ![u] = v]) = SumOverUsers(f) - f[u] + v
<1> DEFINE g == [f EXCEPT ![u] = v]
<1>1. \A i \in Users : f[i] \in Int /\ g[i] \in Int
  OBVIOUS
<1>2. \A i \in Users \ {u} : f[i] = g[i]
  OBVIOUS
<1>3. g[u] = v
  OBVIOUS
<1> HIDE DEF g
<1>4. SumFunctionOnSet(g, Users) = SumFunctionOnSet(f, Users) - f[u] + g[u]
  BY <1>1, <1>2, AccountAssumption, SumChangedAt
<1> QED
  BY <1>3, <1>4 DEF SumOverUsers, g

(* --- Members of a list ------------------------------------------------- *)

LEMMA MembersInserted ==
  ASSUME NEW S, NEW list \in Seq(S), IsInjective(list), NEW k \in 0 .. Len(list),
         NEW e \in S, e \notin ToSet(list)
  PROVE  /\ IsInjective(ListInsert(list, k, e))
         /\ ToSet(ListInsert(list, k, e)) = ToSet(list) \cup {e}
<1> DEFINE new == ListInsert(list, k, e)
<1>1. /\ new \in Seq(S) /\ Len(new) = Len(list) + 1
      /\ \A i \in 1 .. Len(new) :
           new[i] = IF i <= k THEN list[i] ELSE IF i = k + 1 THEN e ELSE list[i - 1]
  <2> DEFINE p == SubSeq(list, 1, k)
             q == SubSeq(list, k + 1, Len(list))
  <2>1. p \in Seq(S) /\ Len(p) = k /\ \A i \in 1 .. k : p[i] = list[i]
    OBVIOUS
  <2>2. q \in Seq(S) /\ Len(q) = Len(list) - k
        /\ \A i \in 1 .. Len(list) - k : q[i] = list[i + k]
    OBVIOUS
  <2>3. new = p \o <<e>> \o q
    <3>1. (k + 1) - 1 = k
      OBVIOUS
    <3> QED
      BY <3>1 DEF ListInsert, InsertAt
  <2> HIDE DEF p, q, new
  <2>4. p \o <<e>> \in Seq(S) /\ Len(p \o <<e>>) = k + 1 /\ (p \o <<e>>)[k + 1] = e
        /\ \A i \in 1 .. k : (p \o <<e>>)[i] = list[i]
    BY <2>1
  <2> DEFINE pe == p \o <<e>>
  <2> HIDE DEF pe
  <2>0. pe \in Seq(S) /\ new = pe \o q /\ Len(pe) = k + 1
    BY <2>3, <2>4 DEF pe
  <2>5. new \in Seq(S) /\ Len(new) = Len(list) + 1
    <3>1. new \in Seq(S) /\ Len(new) = Len(pe) + Len(q)
      BY <2>0, <2>2, ConcatProperties
    <3> QED
      BY <2>0, <2>2, <3>1
  <2>6. ASSUME NEW i \in 1 .. Len(new)
        PROVE  new[i] = IF i <= k THEN list[i] ELSE IF i = k + 1 THEN e ELSE list[i - 1]
    <3>0. new[i] = IF i <= k + 1 THEN pe[i] ELSE q[i - (k + 1)]
      <4>1. \A j \in 1 .. Len(pe) + Len(q) :
              new[j] = IF j <= Len(pe) THEN pe[j] ELSE q[j - Len(pe)]
        BY <2>0, <2>2, ConcatProperties
      <4> QED
        <5>1. i \in 1 .. Len(pe) + Len(q)
          BY <2>0, <2>2, <2>5
        <5>2. new[i] = IF i <= Len(pe) THEN pe[i] ELSE q[i - Len(pe)]
          BY <4>1, <5>1
        <5>3. Len(pe) = k + 1
          BY <2>0
        <5> QED
          BY <5>2, <5>3
    <3>1. CASE i <= k + 1
      BY <3>0, <3>1, <2>4, <2>5 DEF pe
    <3>2. CASE i > k + 1
      <4>1. new[i] = q[i - (k + 1)]
        BY <3>0, <3>2, <2>5
      <4>2. i - (k + 1) \in 1 .. Len(list) - k /\ (i - (k + 1)) + k = i - 1
        BY <3>2, <2>5
      <4>3. q[i - (k + 1)] = list[i - 1]
        BY <2>2, <4>2
      <4> QED
        BY <3>2, <4>1, <4>3
    <3> QED
      BY <3>1, <3>2, <2>5
  <2> QED
    BY <2>5, <2>6
<1>2. DOMAIN list = 1 .. Len(list) /\ Len(list) \in Nat
  OBVIOUS
<1>3. DOMAIN new = 1 .. Len(list) + 1
  BY <1>1
<1> HIDE DEF new
<1>4. \A i \in 1 .. Len(list) : list[i] # e
  BY <1>2 DEF ToSet
<1>5. ASSUME NEW i \in DOMAIN new, NEW j \in DOMAIN new, new[i] = new[j] PROVE i = j
  <2>1. \A a, b \in 1 .. Len(list) : list[a] = list[b] => a = b
    BY <1>2 DEF IsInjective
  <2>2. ASSUME NEW m \in 1 .. Len(list) + 1
        PROVE  \/ m = k + 1 /\ new[m] = e
               \/ m <= k /\ m \in 1 .. Len(list) /\ new[m] = list[m]
               \/ m > k + 1 /\ m - 1 \in 1 .. Len(list) /\ new[m] = list[m - 1]
    <3>1. new[m] = IF m <= k THEN list[m] ELSE IF m = k + 1 THEN e ELSE list[m - 1]
      BY <1>1
    <3>2. CASE m <= k
      BY <3>1, <3>2, <1>2
    <3>3. CASE m = k + 1
      BY <3>1, <3>3, <1>2
    <3>4. CASE m > k + 1
      BY <3>1, <3>4, <1>2
    <3> QED
      BY <3>2, <3>3, <3>4, <1>2
  <2>3. i \in Int /\ j \in Int
    BY <1>2, <1>3
  <2>4. CASE i = k + 1 \/ j = k + 1
    BY <2>2, <2>4, <1>3, <1>4, <1>5
  <2>5. CASE i # k + 1 /\ j # k + 1
    <3>1. PICK a \in 1 .. Len(list) : new[i] = list[a] /\ a = (IF i <= k THEN i ELSE i - 1)
      <4>1. CASE i <= k
        BY <4>1, <2>2, <2>3, <2>5, <1>3
      <4>2. CASE i > k
        <5>1. i - 1 \in 1 .. Len(list) /\ new[i] = list[i - 1]
          BY <4>2, <2>2, <2>3, <2>5, <1>3
        <5> QED
          BY <4>2, <5>1, <2>3
      <4> QED
        BY <4>1, <4>2, <2>3
    <3>2. PICK b \in 1 .. Len(list) : new[j] = list[b] /\ b = (IF j <= k THEN j ELSE j - 1)
      <4>1. CASE j <= k
        BY <4>1, <2>2, <2>3, <2>5, <1>3
      <4>2. CASE j > k
        <5>1. j - 1 \in 1 .. Len(list) /\ new[j] = list[j - 1]
          BY <4>2, <2>2, <2>3, <2>5, <1>3
        <5> QED
          BY <4>2, <5>1, <2>3
      <4> QED
        BY <4>1, <4>2, <2>3
    <3>3. a = b
      BY <2>1, <3>1, <3>2, <1>5
    <3> QED
      BY <2>3, <2>5, <3>1, <3>2, <3>3
  <2> QED
    BY <2>4, <2>5
<1>6. ASSUME NEW i \in DOMAIN new PROVE new[i] = e \/ \E j \in DOMAIN list : new[i] = list[j]
  <2>1. new[i] = IF i <= k THEN list[i] ELSE IF i = k + 1 THEN e ELSE list[i - 1]
    BY <1>1, <1>3
  <2>2. CASE i <= k
    BY <2>1, <2>2, <1>2, <1>3
  <2>3. CASE i = k + 1
    BY <2>1, <2>3, <1>2, <1>3
  <2>4. CASE i > k + 1
    <3>1. i - 1 \in DOMAIN list /\ new[i] = list[i - 1]
      BY <2>1, <2>4, <1>2, <1>3
    <3> QED
      BY <3>1
  <2> QED
    BY <2>2, <2>3, <2>4, <1>2, <1>3
<1>7. new[k + 1] = e /\ k + 1 \in DOMAIN new
  BY <1>1, <1>3
<1>8. ASSUME NEW j \in DOMAIN list PROVE \E i \in DOMAIN new : new[i] = list[j]
  <2>1. CASE j <= k
    BY <2>1, <1>1, <1>2, <1>3
  <2>2. CASE j > k
    <3>1. j + 1 \in DOMAIN new /\ new[j + 1] = list[j]
      BY <2>2, <1>1, <1>2, <1>3
    <3> QED
      BY <3>1
  <2> QED
    BY <2>1, <2>2, <1>2
<1>9. IsInjective(new)
  BY <1>5 DEF IsInjective
<1>10. ToSet(new) = ToSet(list) \cup {e}
  BY <1>6, <1>7, <1>8 DEF ToSet
<1> QED
  BY <1>9, <1>10 DEF new

\* What is left of a list without the places from `first' to `last'
LEMMA MembersCut ==
  ASSUME NEW S, NEW list \in Seq(S), IsInjective(list),
         NEW a \in Nat, NEW b \in Nat, a <= b, b <= Len(list)
  PROVE  LET cut == SubSeq(list, 1, a) \o SubSeq(list, b + 1, Len(list))
         IN /\ IsInjective(cut)
            /\ ToSet(cut) = ToSet(list) \ {list[i] : i \in a + 1 .. b}
<1> DEFINE cut == SubSeq(list, 1, a) \o SubSeq(list, b + 1, Len(list))
           d == b - a
<1>0. Len(list) \in Nat /\ DOMAIN list = 1 .. Len(list) /\ d \in Nat
  OBVIOUS
<1>1. /\ cut \in Seq(S) /\ Len(cut) = Len(list) - d
      /\ \A i \in 1 .. Len(cut) : cut[i] = IF i <= a THEN list[i] ELSE list[i + d]
  <2> DEFINE p == SubSeq(list, 1, a)
             q == SubSeq(list, b + 1, Len(list))
  <2>1. p \in Seq(S) /\ Len(p) = a /\ \A i \in 1 .. a : p[i] = list[i]
    OBVIOUS
  <2>2. q \in Seq(S) /\ Len(q) = Len(list) - b
        /\ \A i \in 1 .. Len(list) - b : q[i] = list[i + b]
    OBVIOUS
  <2>3. cut = p \o q
    OBVIOUS
  <2> HIDE DEF p, q, cut
  <2>4. cut \in Seq(S) /\ Len(cut) = Len(list) - d
    <3>1. cut \in Seq(S) /\ Len(cut) = Len(p) + Len(q)
      BY <2>1, <2>2, <2>3, ConcatProperties
    <3> QED
      BY <2>1, <2>2, <3>1, <1>0
  <2>5. ASSUME NEW i \in 1 .. Len(cut)
        PROVE  cut[i] = IF i <= a THEN list[i] ELSE list[i + d]
    <3>0. cut[i] = IF i <= a THEN p[i] ELSE q[i - a]
      <4>1. \A j \in 1 .. Len(p) + Len(q) :
              cut[j] = IF j <= Len(p) THEN p[j] ELSE q[j - Len(p)]
        BY <2>1, <2>2, <2>3, ConcatProperties
      <4> QED
        BY <2>1, <2>2, <2>4, <4>1, <1>0
    <3>1. CASE i <= a
      BY <3>0, <3>1, <2>1, <2>4
    <3>2. CASE i > a
      <4>1. cut[i] = q[i - a]
        BY <3>0, <3>2, <2>4
      <4>2. i - a \in 1 .. Len(list) - b /\ (i - a) + b = i + d
        BY <3>2, <2>4
      <4>3. q[i - a] = list[i + d]
        BY <2>2, <4>2
      <4> QED
        BY <3>2, <4>1, <4>3
    <3> QED
      BY <3>1, <3>2
  <2> QED
    BY <2>4, <2>5
<1> HIDE DEF cut
<1>2. DOMAIN cut = 1 .. Len(list) - d
  BY <1>1
<1>3. \A i, j \in 1 .. Len(list) : list[i] = list[j] => i = j
  BY <1>0 DEF IsInjective
<1> DEFINE place == [i \in DOMAIN cut |-> IF i <= a THEN i ELSE i + d]
<1>9. ASSUME NEW i \in DOMAIN cut
      PROVE  /\ place[i] \in 1 .. Len(list) /\ place[i] \notin a + 1 .. b
             /\ cut[i] = list[place[i]]
  <2>1. i \in 1 .. Len(list) - d /\ b = a + d
    BY <1>2
  <2>2. CASE i <= a
    BY <2>1, <2>2, <1>0, <1>1
  <2>3. CASE i > a
    <3>1. place[i] = i + d
      BY <2>1, <2>3, <1>0
    <3>2. i + d \in 1 .. Len(list) /\ i + d \notin a + 1 .. b
      BY <2>1, <2>3, <1>0
    <3>3. cut[i] = list[i + d]
      <4>1. i \in 1 .. Len(cut) /\ ~(i <= a)
        BY <2>1, <2>3, <1>0, <1>1
      <4> HIDE DEF place
      <4>2. cut[i] = IF i <= a THEN list[i] ELSE list[i + d]
        BY <4>1, <1>1
      <4> QED
        BY <4>1, <4>2
    <3> HIDE DEF place
    <3> QED
      BY <3>1, <3>2, <3>3
  <2> QED
    BY <2>1, <2>2, <2>3
<1>4. ASSUME NEW i \in DOMAIN cut, NEW j \in DOMAIN cut, cut[i] = cut[j] PROVE i = j
  <2>1. place[i] = place[j]
    <3> HIDE DEF place
    <3> QED
      BY <1>3, <1>9, <1>4
  <2>2. i \in 1 .. Len(list) - d /\ j \in 1 .. Len(list) - d
    BY <1>2
  <2> QED
    BY <2>1, <2>2, <1>0
<1>5. ASSUME NEW i \in DOMAIN cut
      PROVE  cut[i] \in ToSet(list) /\ cut[i] \notin {list[j] : j \in a + 1 .. b}
  <2> HIDE DEF place
  <2>1. \A j \in a + 1 .. b : j \in 1 .. Len(list) /\ j # place[i]
    BY <1>0, <1>9
  <2>2. \A j \in a + 1 .. b : list[j] # list[place[i]]
    BY <2>1, <1>3, <1>9
  <2> QED
    BY <2>2, <1>0, <1>9 DEF ToSet
<1>6. ASSUME NEW m \in 1 .. Len(list), m \notin a + 1 .. b
      PROVE  \E i \in DOMAIN cut : cut[i] = list[m]
  <2>1. CASE m <= a
    BY <2>1, <1>0, <1>1, <1>2
  <2>2. CASE m > b
    <3>1. m - d \in DOMAIN cut /\ cut[m - d] = list[m]
      BY <2>2, <1>0, <1>1, <1>2
    <3> QED
      BY <3>1
  <2> QED
    BY <2>1, <2>2, <1>6
<1>7. IsInjective(cut)
  BY <1>4 DEF IsInjective
<1>8. ToSet(cut) = ToSet(list) \ {list[i] : i \in a + 1 .. b}
  <2>1. \A x \in ToSet(cut) : x \in ToSet(list) /\ x \notin {list[i] : i \in a + 1 .. b}
    BY <1>5 DEF ToSet
  <2>2. \A x \in ToSet(list) : x \notin {list[i] : i \in a + 1 .. b} => x \in ToSet(cut)
    BY <1>6, <1>0 DEF ToSet
  <2> QED
    BY <2>1, <2>2
<1> QED
  BY <1>7, <1>8 DEF cut

LEMMA MembersWithout ==
  ASSUME NEW S, NEW list \in Seq(S), IsInjective(list), NEW e, ListContains(list, e)
  PROVE  /\ IsInjective(ListWithout(list, e))
         /\ ToSet(ListWithout(list, e)) = ToSet(list) \ {e}
         /\ Len(ListWithout(list, e)) = Len(list) - 1
<1> DEFINE at == CHOOSE i \in 1 .. Len(list) : list[i] = e
<1>1. at \in 1 .. Len(list) /\ list[at] = e
  BY DEF ListContains
<1>2. ListWithout(list, e) = SubSeq(list, 1, at - 1) \o SubSeq(list, at + 1, Len(list))
  BY DEF ListWithout, RemoveAt
<1> HIDE DEF at
<1>3. at - 1 \in Nat /\ at \in Nat /\ at - 1 <= at /\ at <= Len(list) /\ (at - 1) + 1 .. at = {at}
  BY <1>1
<1>4. {list[i] : i \in (at - 1) + 1 .. at} = {e}
  BY <1>1, <1>3
<1>5. Len(ListWithout(list, e)) = Len(list) - 1
  <2> DEFINE p == SubSeq(list, 1, at - 1)
             q == SubSeq(list, at + 1, Len(list))
  <2>1. p \in Seq(S) /\ Len(p) = at - 1 /\ q \in Seq(S) /\ Len(q) = Len(list) - at
    BY <1>1
  <2>2. ListWithout(list, e) = p \o q
    BY <1>2
  <2> HIDE DEF p, q
  <2>3. Len(p \o q) = Len(p) + Len(q)
    BY <2>1, ConcatProperties
  <2>4. Len(list) \in Nat
    OBVIOUS
  <2> QED
    BY <1>1, <2>1, <2>2, <2>3, <2>4
<1>6. LET cut == SubSeq(list, 1, at - 1) \o SubSeq(list, at + 1, Len(list))
      IN /\ IsInjective(cut)
         /\ ToSet(cut) = ToSet(list) \ {list[i] : i \in (at - 1) + 1 .. at}
  BY <1>3, MembersCut
<1> QED
  BY <1>2, <1>4, <1>5, <1>6

(* --- The books of the CDPs --------------------------------------------- *)

StakesOf(C) == [id \in CdpIds |-> C[id].stake]
RewardsOf(C) == [id \in CdpIds |-> C[id].liquidatorRewardShares]
ActiveIn(C) == {id \in CdpIds : C[id].status = "active"}

\* An active CDP has an owner, enough debt and a fee index; any other has no
\* stake, no reward, no debt and no collateral left.
IsProper(cdp) ==
  IF cdp.status = "active"
  THEN cdp.owner \in Users /\ cdp.debt >= MIN_CHANGE /\ cdp.feeIndex > 0
  ELSE cdp.stake = 0 /\ cdp.liquidatorRewardShares = 0 /\ cdp.debt = 0 /\ cdp.coll = 0

CdpsAreProper(C) ==
  C \in [CdpIds -> CdpRecords] /\ \A id \in CdpIds : IsProper(C[id])

ListHolds(C, list) ==
  list \in Seq(CdpIds) /\ IsInjective(list) /\ ToSet(list) = ActiveIn(C)

\* The books of the CDPs C, as a transaction leaves them or as they are inside
\* of a batch, where they are values of the loop
CdpBooks(C, stakes, list) ==
  CdpsAreProper(C) /\ stakes = SumOverCdps(StakesOf(C)) /\ ListHolds(C, list)

LEMMA RecordFields ==
  ASSUME NEW cdp \in CdpRecords
  PROVE  /\ cdp.stake \in Nat /\ cdp.liquidatorRewardShares \in Nat
         /\ cdp.coll \in Nat /\ cdp.debt \in Nat /\ cdp.status \in Statuses
  BY DEF CdpRecords

LEMMA SumsOfCdps ==
  ASSUME NEW C \in [CdpIds -> CdpRecords]
  PROVE  /\ SumOverCdps(StakesOf(C)) \in Nat /\ SumOverCdps(RewardsOf(C)) \in Nat
         /\ \A id \in CdpIds : C[id].stake <= SumOverCdps(StakesOf(C))
<1>1. StakesOf(C) \in [CdpIds -> Nat]
  BY RecordFields DEF StakesOf
<1>2. RewardsOf(C) \in [CdpIds -> Nat]
  BY RecordFields DEF RewardsOf
<1>3. \A id \in CdpIds : StakesOf(C)[id] = C[id].stake
  BY DEF StakesOf
<1> HIDE DEF StakesOf
<1> QED
  BY <1>1, <1>2, <1>3, CdpSumIsNat

\* D is C with `new' in place of the CDP `id'.
Replaces(D, C, id, new) ==
  /\ D \in [CdpIds -> CdpRecords] /\ D[id] = new
  /\ \A i \in CdpIds : i # id => D[i] = C[i]

LEMMA ExceptReplaces ==
  ASSUME NEW C \in [CdpIds -> CdpRecords], NEW id \in CdpIds, NEW new \in CdpRecords
  PROVE  Replaces([C EXCEPT ![id] = new], C, id, new)
  BY DEF Replaces

LEMMA SumsOfChanged ==
  ASSUME NEW C \in [CdpIds -> CdpRecords], NEW id \in CdpIds, NEW new \in CdpRecords,
         NEW D, Replaces(D, C, id, new)
  PROVE  /\ SumOverCdps(StakesOf(D)) = SumOverCdps(StakesOf(C)) - C[id].stake + new.stake
         /\ SumOverCdps(RewardsOf(D)) = SumOverCdps(RewardsOf(C))
              - C[id].liquidatorRewardShares + new.liquidatorRewardShares
<1>1. D \in [CdpIds -> CdpRecords] /\ D[id] = new /\ \A i \in CdpIds : i # id => D[i] = C[i]
  BY DEF Replaces
<1>2. /\ StakesOf(C) \in [CdpIds -> Int] /\ StakesOf(D) \in [CdpIds -> Int]
      /\ RewardsOf(C) \in [CdpIds -> Int] /\ RewardsOf(D) \in [CdpIds -> Int]
  <2>1. \A E \in [CdpIds -> CdpRecords] : \A i \in CdpIds :
          E[i].stake \in Int /\ E[i].liquidatorRewardShares \in Int
    BY RecordFields
  <2> QED
    BY <1>1, <2>1 DEF StakesOf, RewardsOf
<1>3. /\ \A i \in CdpIds \ {id} : StakesOf(D)[i] = StakesOf(C)[i]
      /\ \A i \in CdpIds \ {id} : RewardsOf(D)[i] = RewardsOf(C)[i]
      /\ StakesOf(C)[id] = C[id].stake /\ StakesOf(D)[id] = new.stake
      /\ RewardsOf(C)[id] = C[id].liquidatorRewardShares
      /\ RewardsOf(D)[id] = new.liquidatorRewardShares
  BY <1>1 DEF StakesOf, RewardsOf
<1> HIDE DEF StakesOf, RewardsOf
<1>4. SumOverCdps(StakesOf(D)) = SumOverCdps(StakesOf(C)) - C[id].stake + new.stake
  BY <1>2, <1>3, CdpSumChanges
<1>5. SumOverCdps(RewardsOf(D)) = SumOverCdps(RewardsOf(C))
        - C[id].liquidatorRewardShares + new.liquidatorRewardShares
  BY <1>2, <1>3, CdpSumChanges
<1> QED
  BY <1>1, <1>4, <1>5

LEMMA ProperChanged ==
  ASSUME NEW C, CdpsAreProper(C), NEW id \in CdpIds, NEW new \in CdpRecords, IsProper(new),
         NEW D, Replaces(D, C, id, new)
  PROVE  CdpsAreProper(D)
  BY DEF CdpsAreProper, Replaces

LEMMA ListMembers ==
  ASSUME NEW C, NEW list, ListHolds(C, list), NEW id \in CdpIds
  PROVE  /\ C[id].status = "active" <=> ListContains(list, id)
         /\ C[id].status = "active" <=> id \in ToSet(list)
<1>1. C[id].status = "active" <=> id \in ToSet(list)
  BY DEF ListHolds, ActiveIn
<1>2. DOMAIN list = 1 .. Len(list)
  BY DEF ListHolds
<1>3. id \in ToSet(list) <=> ListContains(list, id)
  BY <1>2 DEF ToSet, ListContains
<1> QED
  BY <1>1, <1>3

LEMMA BooksOpened ==
  ASSUME NEW C, NEW stakes, NEW list, CdpBooks(C, stakes, list),
         NEW id \in CdpIds, C[id].status # "active", NEW k \in 0 .. Len(list),
         NEW new \in CdpRecords, IsProper(new), new.status = "active",
         NEW D, Replaces(D, C, id, new)
  PROVE  /\ CdpBooks(D, stakes + new.stake, ListInsert(list, k, id))
         /\ SumOverCdps(RewardsOf(D))
              = SumOverCdps(RewardsOf(C)) + new.liquidatorRewardShares
<1>1. /\ D \in [CdpIds -> CdpRecords] /\ D[id] = new
      /\ \A i \in CdpIds : i # id => D[i] = C[i]
      /\ SumOverCdps(StakesOf(D)) = SumOverCdps(StakesOf(C)) - C[id].stake + new.stake
      /\ SumOverCdps(RewardsOf(D)) = SumOverCdps(RewardsOf(C))
           - C[id].liquidatorRewardShares + new.liquidatorRewardShares
  <2>1. C \in [CdpIds -> CdpRecords]
    BY DEF CdpBooks, CdpsAreProper
  <2> QED
    BY <2>1, SumsOfChanged DEF Replaces
<1>2. C[id].stake = 0 /\ C[id].liquidatorRewardShares = 0
  BY DEF CdpBooks, CdpsAreProper, IsProper
<1>3. CdpsAreProper(D)
  BY ProperChanged DEF CdpBooks
<1>4. /\ SumOverCdps(StakesOf(C)) \in Nat /\ SumOverCdps(RewardsOf(C)) \in Nat
      /\ new.stake \in Nat /\ new.liquidatorRewardShares \in Nat
  BY SumsOfCdps, RecordFields DEF CdpBooks, CdpsAreProper
<1>5. /\ stakes + new.stake = SumOverCdps(StakesOf(D))
      /\ SumOverCdps(RewardsOf(D)) = SumOverCdps(RewardsOf(C)) + new.liquidatorRewardShares
  BY <1>1, <1>2, <1>4 DEF CdpBooks
<1>6. ListHolds(D, ListInsert(list, k, id))
  <2>1. list \in Seq(CdpIds) /\ IsInjective(list) /\ id \notin ToSet(list)
    BY ListMembers DEF CdpBooks, ListHolds
  <2>2. /\ IsInjective(ListInsert(list, k, id))
        /\ ToSet(ListInsert(list, k, id)) = ToSet(list) \cup {id}
    BY <2>1, MembersInserted
  <2>3. ListInsert(list, k, id) \in Seq(CdpIds)
    BY <2>1, InsertType
  <2>4. ActiveIn(D) = ActiveIn(C) \cup {id}
    BY <1>1 DEF ActiveIn
  <2> QED
    BY <2>2, <2>3, <2>4 DEF CdpBooks, ListHolds
<1> QED
  BY <1>3, <1>5, <1>6 DEF CdpBooks

LEMMA BooksClosed ==
  ASSUME NEW C, NEW stakes, NEW list, CdpBooks(C, stakes, list),
         NEW id \in CdpIds, C[id].status = "active",
         NEW new \in CdpRecords, IsProper(new), new.status # "active",
         NEW D, Replaces(D, C, id, new)
  PROVE  /\ CdpBooks(D, stakes - C[id].stake, ListWithout(list, id))
         /\ SumOverCdps(RewardsOf(D))
              = SumOverCdps(RewardsOf(C)) - C[id].liquidatorRewardShares
<1>1. /\ D \in [CdpIds -> CdpRecords] /\ D[id] = new
      /\ \A i \in CdpIds : i # id => D[i] = C[i]
      /\ SumOverCdps(StakesOf(D)) = SumOverCdps(StakesOf(C)) - C[id].stake + new.stake
      /\ SumOverCdps(RewardsOf(D)) = SumOverCdps(RewardsOf(C))
           - C[id].liquidatorRewardShares + new.liquidatorRewardShares
  <2>1. C \in [CdpIds -> CdpRecords]
    BY DEF CdpBooks, CdpsAreProper
  <2> QED
    BY <2>1, SumsOfChanged DEF Replaces
<1>2. new.stake = 0 /\ new.liquidatorRewardShares = 0
  BY DEF IsProper
<1>3. CdpsAreProper(D)
  BY ProperChanged DEF CdpBooks
<1>4. /\ SumOverCdps(StakesOf(C)) \in Nat /\ SumOverCdps(RewardsOf(C)) \in Nat
      /\ C[id].stake \in Nat /\ C[id].liquidatorRewardShares \in Nat
  BY SumsOfCdps, RecordFields DEF CdpBooks, CdpsAreProper
<1>5. /\ stakes - C[id].stake = SumOverCdps(StakesOf(D))
      /\ SumOverCdps(RewardsOf(D)) = SumOverCdps(RewardsOf(C)) - C[id].liquidatorRewardShares
  BY <1>1, <1>2, <1>4 DEF CdpBooks
<1>6. ListHolds(D, ListWithout(list, id))
  <2>1. list \in Seq(CdpIds) /\ IsInjective(list) /\ ListContains(list, id)
    BY ListMembers DEF CdpBooks, ListHolds
  <2>2. /\ IsInjective(ListWithout(list, id))
        /\ ToSet(ListWithout(list, id)) = ToSet(list) \ {id}
    BY <2>1, MembersWithout
  <2>3. ListWithout(list, id) \in Seq(CdpIds)
    BY <2>1, WithoutType
  <2>4. ActiveIn(D) = ActiveIn(C) \ {id}
    BY <1>1 DEF ActiveIn
  <2> QED
    BY <2>2, <2>3, <2>4 DEF CdpBooks, ListHolds
<1> QED
  BY <1>3, <1>5, <1>6 DEF CdpBooks

LEMMA BooksUpdated ==
  ASSUME NEW C, NEW stakes, NEW list, CdpBooks(C, stakes, list),
         NEW id \in CdpIds, C[id].status = "active",
         NEW new \in CdpRecords, IsProper(new), new.status = "active",
         NEW k \in 0 .. Len(list) - 1,
         NEW D, Replaces(D, C, id, new)
  PROVE  /\ CdpBooks(D, stakes - C[id].stake + new.stake,
                     ListInsert(ListWithout(list, id), k, id))
         /\ SumOverCdps(RewardsOf(D)) = SumOverCdps(RewardsOf(C))
              - C[id].liquidatorRewardShares + new.liquidatorRewardShares
<1> DEFINE rest == ListWithout(list, id)
<1>1. /\ D \in [CdpIds -> CdpRecords] /\ D[id] = new
      /\ \A i \in CdpIds : i # id => D[i] = C[i]
      /\ SumOverCdps(StakesOf(D)) = SumOverCdps(StakesOf(C)) - C[id].stake + new.stake
      /\ SumOverCdps(RewardsOf(D)) = SumOverCdps(RewardsOf(C))
           - C[id].liquidatorRewardShares + new.liquidatorRewardShares
  <2>1. C \in [CdpIds -> CdpRecords]
    BY DEF CdpBooks, CdpsAreProper
  <2> QED
    BY <2>1, SumsOfChanged DEF Replaces
<1>2. CdpsAreProper(D)
  BY ProperChanged DEF CdpBooks
<1>3. stakes - C[id].stake + new.stake = SumOverCdps(StakesOf(D))
  BY <1>1 DEF CdpBooks
<1>4. ListHolds(D, ListInsert(rest, k, id))
  <2>1. list \in Seq(CdpIds) /\ IsInjective(list) /\ ListContains(list, id)
    BY ListMembers DEF CdpBooks, ListHolds
  <2>2. /\ IsInjective(rest) /\ ToSet(rest) = ToSet(list) \ {id}
        /\ Len(rest) = Len(list) - 1 /\ rest \in Seq(CdpIds)
    BY <2>1, MembersWithout, WithoutType
  <2> HIDE DEF rest
  <2>3. id \notin ToSet(rest) /\ k \in 0 .. Len(rest)
    BY <2>2
  <2>4. /\ IsInjective(ListInsert(rest, k, id))
        /\ ToSet(ListInsert(rest, k, id)) = ToSet(rest) \cup {id}
    BY <2>2, <2>3, MembersInserted
  <2>5. ListInsert(rest, k, id) \in Seq(CdpIds)
    BY <2>2, <2>3, InsertType
  <2>6. ActiveIn(D) = ActiveIn(C) /\ id \in ActiveIn(C)
    BY <1>1 DEF ActiveIn
  <2> QED
    BY <2>2, <2>4, <2>5, <2>6 DEF CdpBooks, ListHolds
<1> QED
  BY <1>1, <1>2, <1>3, <1>4 DEF CdpBooks

(* --- The books of the protocol ----------------------------------------- *)

RewardsKept == SumOverCdps(RewardsOf(Cdps))

\* What the active pool holds above what it owes
PoolMargin == activePoolShares - systemCollShares - feeRecipientCollShares - RewardsKept

\* All of these together are kept by every action, and none of them alone.
LedgerInv ==
  /\ TypeOK /\ IndicesAreReached
  /\ CdpBooks(Cdps, totalStakes, sortedCdps)
  /\ SurplusIsClaimable
  /\ BalancesAddUp

\* The supply moves with the debt, and the balances with the supply.
TokensKept ==
  /\ BalancesAddUp'
  /\ eBTCSupply' - systemDebt' = eBTCSupply - systemDebt

\* What an action does to the books, other than to keep the types
BooksKept ==
  /\ CdpBooks(Cdps', totalStakes', sortedCdps')
  /\ SurplusIsClaimable'
  /\ TokensKept
  /\ PoolMargin' >= PoolMargin

LEMMA FloorsAddUp ==
  ASSUME NEW x \in Nat, NEW y \in Nat, NEW d \in Nat \ {0}
  PROVE  x \div d + y \div d <= (x + y) \div d
  OBVIOUS

LEMMA SharesAddUp ==
  ASSUME EnvTypeOK, NEW a \in Nat, NEW b \in Nat
  PROVE  GetSharesByPooledEth(a) + GetSharesByPooledEth(b) <= GetSharesByPooledEth(a + b)
<1>1. ethPerShare \in Nat \ {0} /\ DECIMAL_PRECISION \in Nat
  BY RatesArePositive, ScaleAssumption
<1>2. a * DECIMAL_PRECISION \in Nat /\ b * DECIMAL_PRECISION \in Nat
  BY <1>1, ProductIsNat
<1>3. (a + b) * DECIMAL_PRECISION = a * DECIMAL_PRECISION + b * DECIMAL_PRECISION
  BY <1>1
<1> QED
  BY <1>1, <1>2, <1>3, FloorsAddUp DEF GetSharesByPooledEth, SharesOf

\* The fee that the globals pass on stays in the pool, the recipient's.
LEMMA FeeStaysInThePool ==
  ASSUME TypeOK, SyncGlobalSucceeds
  PROVE  /\ SyncedGlobal \in GlobalRecords
         /\ SyncedGlobal.systemCollShares + SyncedGlobal.feeRecipientCollShares
              = systemCollShares + feeRecipientCollShares
<1>1. SyncedGlobal \in GlobalRecords
  BY SyncedGlobalType
<1>2. systemCollShares \in Nat /\ feeRecipientCollShares \in Nat
  BY DEF TypeOK, PoolTypeOK
<1>3. FeeIsDue => FeeUponStakingReward.feeTaken \in Nat
  BY FeeIsNat
<1> QED
  BY <1>1, <1>2, <1>3 DEF SyncedGlobal

\* Syncing an active CDP changes what it owes and owns, and nothing else.
LEMMA SyncedFields ==
  ASSUME TypeOK, IndicesAreReached, CdpsAreProper(Cdps),
         NEW id \in CdpIds, IsActive(id), NEW feeIndex \in Nat \ {0}
  PROVE  LET cdp == SyncedCdp(id, feeIndex)
         IN /\ cdp \in CdpRecords /\ IsProper(cdp) /\ cdp.feeIndex > 0
            /\ cdp.status = "active" /\ cdp.owner \in Users /\ cdp.owner = Cdps[id].owner
            /\ cdp.stake = Cdps[id].stake
            /\ cdp.liquidatorRewardShares = Cdps[id].liquidatorRewardShares
            /\ cdp.debt >= MIN_CHANGE
<1>1. SyncedCdp(id, feeIndex) \in CdpRecords
  BY SyncedCdpType
<1>2. Cdps[id] \in CdpRecords
  BY DEF TypeOK, CdpTypeOK
<1>3. PendingDebt(Cdps[id]) \in Nat /\ Cdps[id].debt \in Nat
  BY <1>2, PendingIsNat, RecordFields DEF TypeOK, IndicesAreReached
<1>4. Cdps[id].owner \in Users /\ Cdps[id].debt >= MIN_CHANGE /\ Cdps[id].status = "active"
  BY DEF CdpsAreProper, IsProper, IsActive
<1>5. Cdps[id].debt + PendingDebt(Cdps[id]) >= MIN_CHANGE
  BY <1>3, <1>4, MinimumAssumption
<1> QED
  BY <1>1, <1>4, <1>5 DEF SyncedCdp, IsProper

LEMMA ClosedFields ==
  ASSUME NEW cdp \in CdpRecords, NEW closedStatus \in Statuses \ {"active"}
  PROVE  LET closed == ClosedCdp(cdp, closedStatus)
         IN /\ closed \in CdpRecords /\ IsProper(closed) /\ closed.status # "active"
            /\ closed.stake = 0 /\ closed.liquidatorRewardShares = 0
<1>1. ClosedCdp(cdp, closedStatus) \in CdpRecords
  BY ClosedCdpType
<1> QED
  BY <1>1 DEF ClosedCdp, NoCdp, IsProper

LEMMA MintAddsUp ==
  ASSUME TypeOK, BalancesAddUp, NEW account \in Users, NEW amount \in Nat, Mint(account, amount)
  PROVE  BalancesAddUp'
<1>1. eBTCBalance \in [Users -> Int] /\ eBTCBalance[account] \in Nat /\ eBTCSupply \in Nat
  BY DEF TypeOK, TokenTypeOK
<1>2. eBTCBalance[account] + amount \in Int
  BY <1>1
<1>3. SumOverUsers([eBTCBalance EXCEPT ![account] = eBTCBalance[account] + amount])
        = SumOverUsers(eBTCBalance) - eBTCBalance[account] + (eBTCBalance[account] + amount)
  BY <1>1, <1>2, UserSumChanges
<1> QED
  BY <1>1, <1>3 DEF BalancesAddUp, Mint

LEMMA MintBalances ==
  ASSUME TypeOK, BalancesAddUp, NEW account \in Users, NEW amount \in Nat,
         WithdrawDebt(account, amount)
  PROVE  TokensKept
<1>1. BalancesAddUp'
  BY MintAddsUp DEF WithdrawDebt
<1>2. eBTCSupply \in Nat /\ systemDebt \in Nat
  BY DEF TypeOK, TokenTypeOK, PoolTypeOK
<1> QED
  BY <1>1, <1>2 DEF TokensKept, WithdrawDebt, Mint, IncreaseSystemDebt

LEMMA BurnBalances ==
  ASSUME TypeOK, BalancesAddUp, NEW account \in Users, NEW amount \in Nat,
         RepayDebt(account, amount)
  PROVE  TokensKept
<1>1. /\ eBTCBalance \in [Users -> Int] /\ eBTCBalance[account] \in Nat
      /\ eBTCSupply \in Nat /\ systemDebt \in Nat
  BY DEF TypeOK, TokenTypeOK, PoolTypeOK
<1>2. eBTCBalance[account] - amount \in Int
  BY <1>1
<1>3. SumOverUsers([eBTCBalance EXCEPT ![account] = eBTCBalance[account] - amount])
        = SumOverUsers(eBTCBalance) - eBTCBalance[account] + (eBTCBalance[account] - amount)
  BY <1>1, <1>2, UserSumChanges
<1>4. BalancesAddUp'
  BY <1>1, <1>3 DEF BalancesAddUp, RepayDebt, Burn
<1> QED
  BY <1>1, <1>4 DEF TokensKept, RepayDebt, Burn, DecreaseSystemDebt

LEMMA BalancesUntouched ==
  ASSUME LedgerInv, UNCHANGED <<tokenVars, systemDebt>> PROVE TokensKept
<1>1. BalancesAddUp'
  BY DEF LedgerInv, BalancesAddUp, tokenVars
<1>2. eBTCSupply \in Int /\ systemDebt \in Int
  BY DEF LedgerInv, TypeOK, TokenTypeOK, PoolTypeOK
<1> QED
  BY <1>1, <1>2 DEF TokensKept, tokenVars

LEMMA SurplusUntouched ==
  ASSUME SurplusIsClaimable, UNCHANGED surplusVars PROVE SurplusIsClaimable'
  BY DEF SurplusIsClaimable, surplusVars

LEMMA MarginIsInt ==
  ASSUME TypeOK
  PROVE  /\ activePoolShares \in Nat /\ systemCollShares \in Nat
         /\ feeRecipientCollShares \in Nat /\ RewardsKept \in Nat
  BY SumsOfCdps DEF TypeOK, PoolTypeOK, CdpTypeOK, RewardsKept

(* --- Borrowers --------------------------------------------------------- *)

LEMMA OpenCdpBooks ==
  ASSUME LedgerInv,
         NEW sender \in Users, NEW borrower \in Users, NEW debt \in Nat,
         NEW stEthBalance \in Nat, NEW k, OpenCdp(sender, borrower, debt, stEthBalance, k)
  PROVE  BooksKept
<1> DEFINE g == SyncedGlobal
           net == stEthBalance - LIQUIDATOR_REWARD
           collShares == GetSharesByPooledEth(net)
           reward == GetSharesByPooledEth(LIQUIDATOR_REWARD)
           received == GetSharesByPooledEth(stEthBalance)
           stake == ComputeNewStake(collShares, g.stakesSnapshot, g.collSnapshot)
           cdp == [status |-> "active", owner |-> borrower, coll |-> collShares, debt |-> debt,
                   stake |-> stake, liquidatorRewardShares |-> reward,
                   debtIndex |-> systemDebtRedistributionIndex, feeIndex |-> g.feeIndex]
<1>0. TypeOK /\ EnvTypeOK
  BY DEF LedgerInv, TypeOK
<1>1. /\ g \in GlobalRecords
      /\ g.systemCollShares + g.feeRecipientCollShares
           = systemCollShares + feeRecipientCollShares
  BY <1>0, FeeStaysInThePool DEF OpenCdp, SyncFeeIndices
<1>2. net \in Nat /\ LIQUIDATOR_REWARD \in Nat /\ net + LIQUIDATOR_REWARD = stEthBalance
  BY MinimumAssumption DEF OpenCdp
<1>3. collShares \in Nat /\ reward \in Nat /\ received \in Nat
  BY <1>0, <1>2, GetSharesIsNat
<1>4. collShares + reward <= received
  BY <1>0, <1>2, SharesAddUp
<1>5. stake \in Nat
  BY <1>1, <1>3, StakeIsNat DEF GlobalRecords
<1>6. nextCdpNonce \in CdpIds
  BY <1>0, InputAssumption DEF OpenCdp, TypeOK, ListTypeOK, CdpIds
<1>7. systemDebtRedistributionIndex \in Nat
  BY <1>0 DEF TypeOK, RedistributionTypeOK
<1>8. cdp \in CdpRecords
  BY <1>1, <1>3, <1>5, <1>7 DEF CdpRecords, Statuses, GlobalRecords
<1>9. IsProper(cdp) /\ cdp.status = "active"
  BY <1>1 DEF OpenCdp, DebtIsEnough, IsProper, GlobalRecords
<1>10. cdp.stake = stake /\ cdp.liquidatorRewardShares = reward
  OBVIOUS
<1>11. /\ Cdps' = [Cdps EXCEPT ![nextCdpNonce] = cdp]
       /\ totalStakes' = totalStakes + stake
       /\ sortedCdps' = ListInsert(sortedCdps, k, nextCdpNonce)
       /\ Cdps[nextCdpNonce].status # "active"
       /\ k \in 0 .. Len(sortedCdps)
       /\ WithdrawDebt(sender, debt)
       /\ UNCHANGED surplusVars
  BY DEF OpenCdp, ValidInsertPosition
<1>12. /\ activePoolShares' = activePoolShares + received
       /\ systemCollShares' = g.systemCollShares + collShares
       /\ feeRecipientCollShares' = g.feeRecipientCollShares
  BY DEF OpenCdp
<1> HIDE DEF cdp, g, stake, reward, collShares, received
<1>13. Replaces(Cdps', Cdps, nextCdpNonce, cdp)
  BY <1>0, <1>6, <1>8, <1>11, ExceptReplaces DEF TypeOK, CdpTypeOK
<1>14. /\ CdpBooks(Cdps', totalStakes + cdp.stake, ListInsert(sortedCdps, k, nextCdpNonce))
       /\ SumOverCdps(RewardsOf(Cdps'))
            = SumOverCdps(RewardsOf(Cdps)) + cdp.liquidatorRewardShares
  BY <1>6, <1>8, <1>9, <1>11, <1>13, BooksOpened DEF LedgerInv
<1>15. CdpBooks(Cdps', totalStakes', sortedCdps')
  BY <1>10, <1>11, <1>14
<1>16. SurplusIsClaimable'
  BY <1>11, SurplusUntouched DEF LedgerInv
<1>17. TokensKept
  BY <1>0, <1>11, MintBalances DEF LedgerInv
<1>18. PoolMargin' >= PoolMargin
  <2>1. RewardsKept' = RewardsKept + reward
    BY <1>10, <1>14 DEF RewardsKept
  <2>2. /\ activePoolShares \in Nat /\ systemCollShares \in Nat
        /\ feeRecipientCollShares \in Nat /\ RewardsKept \in Nat
    BY <1>0, MarginIsInt
  <2>3. g.systemCollShares \in Nat /\ g.feeRecipientCollShares \in Nat
    BY <1>1 DEF GlobalRecords
  <2> QED
    BY <1>1, <1>3, <1>4, <1>12, <2>1, <2>2, <2>3 DEF PoolMargin
<1> QED
  BY <1>15, <1>16, <1>17, <1>18 DEF BooksKept

LEMMA AdjustCdpBooks ==
  ASSUME LedgerInv,
         NEW sender \in Users, NEW id \in CdpIds, NEW stEthIncrease \in Nat,
         NEW stEthDecrease \in Nat, NEW debtChange \in Nat, NEW isDebtIncrease \in BOOLEAN,
         NEW k \in Int, k <= Len(sortedCdps) - 1,
         AdjustCdp(sender, id, stEthIncrease, stEthDecrease, debtChange, isDebtIncrease, k)
  PROVE  BooksKept
<1> DEFINE g == SyncedGlobal
           cdp == SyncedCdp(id, g.feeIndex)
           shares == GetSharesByPooledEth(stEthIncrease + stEthDecrease)
           sharesChange == IF stEthIncrease # 0 THEN shares ELSE -shares
           signedDebt == IF isDebtIncrease THEN debtChange ELSE -debtChange
           coll == cdp.coll + sharesChange
           debt == cdp.debt + signedDebt
           newStake == ComputeNewStake(coll, g.stakesSnapshot, g.collSnapshot)
           newCdp == UpdatedCdp(cdp, coll, debt, newStake)
           rest == ListWithout(sortedCdps, id)
<1>0. TypeOK /\ EnvTypeOK /\ IndicesAreReached /\ CdpsAreProper(Cdps)
  BY DEF LedgerInv, TypeOK, CdpBooks
<1>1. /\ g \in GlobalRecords
      /\ g.systemCollShares + g.feeRecipientCollShares
           = systemCollShares + feeRecipientCollShares
  BY <1>0, FeeStaysInThePool DEF AdjustCdp, AdjustSynced, SyncFeeIndices
<1>2. IsActive(id)
  BY DEF AdjustCdp, AdjustSynced
<1>3. /\ cdp \in CdpRecords /\ cdp.status = "active" /\ cdp.owner \in Users
      /\ cdp.stake = Cdps[id].stake
      /\ cdp.liquidatorRewardShares = Cdps[id].liquidatorRewardShares /\ cdp.feeIndex > 0
  BY <1>0, <1>1, <1>2, SyncedFields DEF GlobalRecords
<1>4. cdp.coll \in Nat /\ cdp.debt \in Nat /\ cdp.stake \in Nat
  BY <1>3, RecordFields
<1>5. stEthIncrease + stEthDecrease \in Nat
  OBVIOUS
<1>6. shares \in Nat
  BY <1>0, <1>5, GetSharesIsNat
<1>7. sharesChange \in Int /\ signedDebt \in Int
  BY <1>6
<1>8. newCdp.coll = coll /\ newCdp.debt = debt
  BY <1>3 DEF UpdatedCdp, CdpRecords
<1>9. newCdp.coll >= 0 /\ newCdp.debt >= MIN_CHANGE
  BY DEF AdjustCdp, AdjustSynced, DebtIsEnough
<1>10. coll \in Nat /\ debt \in Nat /\ debt >= MIN_CHANGE
  BY <1>4, <1>7, <1>8, <1>9, MinimumAssumption, SMTT(30)
<1>11. newStake \in Nat
  BY <1>1, <1>10, StakeIsNat DEF GlobalRecords
<1>12. /\ Cdps' = [Cdps EXCEPT ![id] = newCdp]
       /\ totalStakes' = totalStakes + newStake - cdp.stake
       /\ sortedCdps' = ListInsert(rest, k, id)
       /\ k >= 0
       /\ UNCHANGED surplusVars
  BY SMTT(30) DEF AdjustCdp, AdjustSynced, RestakedTotal, ValidInsertPosition
<1>13. /\ systemCollShares' = g.systemCollShares + sharesChange
       /\ activePoolShares' = activePoolShares + sharesChange
       /\ feeRecipientCollShares' = g.feeRecipientCollShares
  BY DEF AdjustCdp, AdjustSynced
<1>14. TokensKept
  <2>1. CASE isDebtIncrease
    <3>1. WithdrawDebt(sender, debtChange)
      BY <2>1 DEF AdjustCdp, AdjustSynced
    <3> QED
      BY <3>1, <1>0, MintBalances DEF LedgerInv
  <2>2. CASE ~isDebtIncrease
    <3>1. RepayDebt(sender, debtChange)
      BY <2>2 DEF AdjustCdp, AdjustSynced
    <3> QED
      BY <3>1, <1>0, BurnBalances DEF LedgerInv
  <2> QED
    BY <2>1, <2>2
<1> HIDE DEF g, cdp, coll, debt, newStake, sharesChange
<1>15. /\ newCdp \in CdpRecords /\ newCdp.status = "active" /\ newCdp.owner \in Users
       /\ newCdp.stake = newStake /\ newCdp.debt = debt
       /\ newCdp.liquidatorRewardShares = cdp.liquidatorRewardShares
       /\ newCdp.feeIndex = cdp.feeIndex
  BY <1>3, <1>10, <1>11 DEF UpdatedCdp, CdpRecords
<1> HIDE DEF newCdp
<1>16. IsProper(newCdp)
  BY <1>3, <1>10, <1>15 DEF IsProper
<1>17. Replaces(Cdps', Cdps, id, newCdp)
  BY <1>0, <1>12, <1>15, ExceptReplaces DEF TypeOK, CdpTypeOK
<1>18. k \in 0 .. Len(sortedCdps) - 1
  BY <1>12
<1>19. /\ CdpBooks(Cdps', totalStakes - Cdps[id].stake + newCdp.stake, ListInsert(rest, k, id))
       /\ SumOverCdps(RewardsOf(Cdps')) = SumOverCdps(RewardsOf(Cdps))
            - Cdps[id].liquidatorRewardShares + newCdp.liquidatorRewardShares
  BY <1>2, <1>15, <1>16, <1>17, <1>18, BooksUpdated DEF LedgerInv, IsActive
<1>20. CdpBooks(Cdps', totalStakes', sortedCdps')
  <2>1. totalStakes' = totalStakes - Cdps[id].stake + newCdp.stake
    BY <1>0, <1>3, <1>4, <1>11, <1>12, <1>15 DEF TypeOK, StakeTypeOK
  <2> QED
    BY <2>1, <1>12, <1>19
<1>21. SurplusIsClaimable'
  BY <1>12, SurplusUntouched DEF LedgerInv
<1>22. PoolMargin' >= PoolMargin
  <2>1. cdp.liquidatorRewardShares \in Nat
    BY <1>3, RecordFields
  <2>2. /\ activePoolShares \in Nat /\ systemCollShares \in Nat
        /\ feeRecipientCollShares \in Nat /\ RewardsKept \in Nat
    BY <1>0, MarginIsInt
  <2>3. RewardsKept' = RewardsKept
    BY <2>1, <2>2, <1>3, <1>15, <1>19 DEF RewardsKept
  <2>4. g.systemCollShares \in Nat /\ g.feeRecipientCollShares \in Nat
    BY <1>1 DEF GlobalRecords
  <2>5. sharesChange \in Int
    BY <1>7
  <2>6. /\ activePoolShares' - systemCollShares' = activePoolShares - g.systemCollShares
        /\ feeRecipientCollShares' = g.feeRecipientCollShares
    BY <1>13, <2>2, <2>4, <2>5
  <2> QED
    BY <1>1, <2>2, <2>3, <2>4, <2>6, SMTT(30) DEF PoolMargin
<1> QED
  BY <1>14, <1>20, <1>21, <1>22 DEF BooksKept

LEMMA CloseCdpBooks ==
  ASSUME LedgerInv, NEW sender \in Users, NEW id \in CdpIds, CloseCdp(sender, id)
  PROVE  BooksKept
<1> DEFINE g == SyncedGlobal
           cdp == SyncedCdp(id, g.feeIndex)
           closed == ClosedCdp(cdp, "closedByOwner")
<1>0. TypeOK /\ IndicesAreReached /\ CdpsAreProper(Cdps)
  BY DEF LedgerInv, CdpBooks
<1>1. /\ g \in GlobalRecords
      /\ g.systemCollShares + g.feeRecipientCollShares
           = systemCollShares + feeRecipientCollShares
  BY <1>0, FeeStaysInThePool DEF CloseCdp, SyncFeeIndices
<1>2. IsActive(id)
  BY DEF CloseCdp
<1>3. /\ cdp \in CdpRecords /\ cdp.stake = Cdps[id].stake
      /\ cdp.liquidatorRewardShares = Cdps[id].liquidatorRewardShares
  BY <1>0, <1>1, <1>2, SyncedFields DEF GlobalRecords
<1>4. cdp.coll \in Nat /\ cdp.debt \in Nat /\ cdp.liquidatorRewardShares \in Nat
  BY <1>3, RecordFields
<1>5. /\ closed \in CdpRecords /\ IsProper(closed) /\ closed.status # "active"
  BY <1>3, ClosedFields DEF Statuses
<1>6. /\ Cdps' = [Cdps EXCEPT ![id] = closed]
      /\ totalStakes' = totalStakes - cdp.stake
      /\ sortedCdps' = ListWithout(sortedCdps, id)
      /\ RepayDebt(sender, cdp.debt)
      /\ UNCHANGED surplusVars
  BY DEF CloseCdp
<1>7. /\ systemCollShares' = g.systemCollShares - cdp.coll
      /\ activePoolShares' = activePoolShares - (cdp.coll + cdp.liquidatorRewardShares)
      /\ feeRecipientCollShares' = g.feeRecipientCollShares
  BY DEF CloseCdp
<1> HIDE DEF g, cdp, closed
<1>8. Replaces(Cdps', Cdps, id, closed)
  BY <1>0, <1>5, <1>6, ExceptReplaces DEF TypeOK, CdpTypeOK
<1>9. /\ CdpBooks(Cdps', totalStakes - Cdps[id].stake, ListWithout(sortedCdps, id))
      /\ SumOverCdps(RewardsOf(Cdps'))
           = SumOverCdps(RewardsOf(Cdps)) - Cdps[id].liquidatorRewardShares
  BY <1>2, <1>5, <1>8, BooksClosed DEF LedgerInv, IsActive
<1>10. CdpBooks(Cdps', totalStakes', sortedCdps')
  BY <1>3, <1>6, <1>9
<1>11. SurplusIsClaimable'
  BY <1>6, SurplusUntouched DEF LedgerInv
<1>12. TokensKept
  BY <1>0, <1>4, <1>6, BurnBalances DEF LedgerInv
<1>13. PoolMargin' >= PoolMargin
  <2>1. RewardsKept' = RewardsKept - cdp.liquidatorRewardShares
    BY <1>3, <1>9 DEF RewardsKept
  <2>2. /\ activePoolShares \in Nat /\ systemCollShares \in Nat
        /\ feeRecipientCollShares \in Nat /\ RewardsKept \in Nat
    BY <1>0, MarginIsInt
  <2>3. g.systemCollShares \in Nat /\ g.feeRecipientCollShares \in Nat
    BY <1>1 DEF GlobalRecords
  <2> QED
    BY <1>1, <1>4, <1>7, <2>1, <2>2, <2>3 DEF PoolMargin
<1> QED
  BY <1>10, <1>11, <1>12, <1>13 DEF BooksKept

LEMMA ClaimSurplusBooks ==
  ASSUME LedgerInv, NEW account \in Users, ClaimSurplusCollShares(account)
  PROVE  BooksKept
<1> DEFINE claimable == surplusCollShares[account]
<1>1. TypeOK /\ surplusCollShares \in [Users -> Int] /\ claimable \in Nat
      /\ totalSurplusCollShares \in Nat /\ collSurplusPoolShares \in Nat
  BY DEF LedgerInv, TypeOK, SurplusTypeOK
<1>2. SumOverUsers([surplusCollShares EXCEPT ![account] = 0])
        = SumOverUsers(surplusCollShares) - surplusCollShares[account] + 0
  <2>1. surplusCollShares \in [Users -> Int] /\ 0 \in Int
    BY <1>1
  <2> QED
    BY <2>1, UserSumChanges
<1>3. SurplusIsClaimable'
  BY <1>1, <1>2 DEF ClaimSurplusCollShares, LedgerInv, SurplusIsClaimable
<1>4. UNCHANGED <<Cdps, stakeVars, listVars, poolVars, activePoolShares, tokenVars>>
  BY DEF ClaimSurplusCollShares
<1>5. CdpBooks(Cdps', totalStakes', sortedCdps') /\ TokensKept
  BY <1>4, BalancesUntouched DEF LedgerInv, stakeVars, listVars, poolVars
<1>6. PoolMargin' = PoolMargin /\ PoolMargin \in Int
  BY <1>1, <1>4, MarginIsInt DEF PoolMargin, RewardsKept, poolVars
<1> QED
  BY <1>3, <1>5, <1>6 DEF BooksKept

\* A step that moves nothing but, perhaps, the rest of the storage
LEMMA UntouchedBooks ==
  ASSUME LedgerInv,
         UNCHANGED <<Cdps, totalStakes, sortedCdps, poolVars, activePoolShares, surplusVars>>,
         TokensKept
  PROVE  BooksKept
<1>1. CdpBooks(Cdps', totalStakes', sortedCdps') /\ SurplusIsClaimable'
  BY SurplusUntouched DEF LedgerInv
<1>2. PoolMargin' = PoolMargin /\ PoolMargin \in Int
  BY MarginIsInt DEF LedgerInv, PoolMargin, RewardsKept, poolVars
<1> QED
  BY <1>1, <1>2 DEF BooksKept

LEMMA BorrowerBooks ==
  ASSUME LedgerInv, BorrowerAction PROVE BooksKept
<1>1. ASSUME NEW sender \in Users, NEW borrower \in Users, NEW debt \in OpenDebts,
             NEW stEthBalance \in OpenStEthBalances, NEW k \in 0 .. Len(sortedCdps),
             OpenCdp(sender, borrower, debt, stEthBalance, k)
      PROVE  BooksKept
  <2>1. debt \in Nat /\ stEthBalance \in Nat
    BY BorrowerInputAssumption
  <2> QED
    BY <2>1, <1>1, OpenCdpBooks
<1>2. ASSUME NEW sender \in Users, NEW id \in CdpIds, NEW stEthIncrease \in CollChanges \cup {0},
             NEW stEthDecrease \in CollChanges \cup {0}, NEW debtChange \in DebtChanges \cup {0},
             NEW isDebtIncrease \in BOOLEAN, NEW k \in 0 .. Len(sortedCdps) - 1,
             AdjustCdp(sender, id, stEthIncrease, stEthDecrease, debtChange, isDebtIncrease, k)
      PROVE  BooksKept
  <2>1. stEthIncrease \in Nat /\ stEthDecrease \in Nat /\ debtChange \in Nat
    BY BorrowerInputAssumption
  <2>2. k \in Int /\ k <= Len(sortedCdps) - 1
    OBVIOUS
  <2> QED
    BY <2>1, <2>2, <1>2, AdjustCdpBooks
<1>3. ASSUME NEW borrower \in Users, NEW manager \in Users, NEW approval \in GrantedApprovals,
             SetPositionManagerApproval(borrower, manager, approval)
      PROVE  BooksKept
  <2>1. UNCHANGED <<Cdps, totalStakes, sortedCdps, poolVars, activePoolShares, surplusVars>>
        /\ UNCHANGED tokenVars
    BY <1>3 DEF SetPositionManagerApproval, stakeVars, listVars
  <2> QED
    BY <2>1, UntouchedBooks, BalancesUntouched DEF poolVars
<1> QED
  BY <1>1, <1>2, <1>3, CloseCdpBooks, ClaimSurplusBooks DEF BorrowerAction

(* --- Accounts, governance and the environment -------------------------- *)

LEMMA TransferBooks ==
  ASSUME LedgerInv, NEW sender \in Users, NEW recipient \in Users, NEW amount \in Nat,
         sender # recipient, Transfer(sender, recipient, amount)
  PROVE  BooksKept
<1> DEFINE paid == [eBTCBalance EXCEPT ![sender] = eBTCBalance[sender] - amount]
           after == [paid EXCEPT ![recipient] = paid[recipient] + amount]
<1>1. /\ eBTCBalance \in [Users -> Int] /\ eBTCBalance[sender] \in Nat
      /\ eBTCBalance[recipient] \in Nat /\ eBTCSupply \in Nat
  BY DEF LedgerInv, TypeOK, TokenTypeOK
<1>2. /\ eBTCBalance[sender] - amount \in Int
      /\ paid \in [Users -> Int] /\ paid[recipient] = eBTCBalance[recipient]
      /\ paid[recipient] + amount \in Int
  BY <1>1
<1>3. SumOverUsers(paid)
        = SumOverUsers(eBTCBalance) - eBTCBalance[sender] + (eBTCBalance[sender] - amount)
  BY <1>1, <1>2, UserSumChanges
<1>4. eBTCBalance' = after
  BY <1>1, <1>2 DEF Transfer
<1> HIDE DEF paid
<1>5. SumOverUsers(after) = SumOverUsers(paid) - paid[recipient] + (paid[recipient] + amount)
  BY <1>2, UserSumChanges
<1> HIDE DEF after
<1>6. eBTCSupply' = eBTCSupply
  BY DEF Transfer
<1>7. SumOverUsers(eBTCBalance) = eBTCSupply
  BY DEF LedgerInv, BalancesAddUp
<1>9. UNCHANGED <<Cdps, totalStakes, sortedCdps, poolVars, activePoolShares, surplusVars>>
  BY DEF Transfer, stakeVars, listVars
<1>8. TokensKept
  <2>1. BalancesAddUp'
    BY <1>1, <1>2, <1>3, <1>4, <1>5, <1>6, <1>7 DEF BalancesAddUp
  <2>2. systemDebt' = systemDebt /\ systemDebt \in Int
    BY <1>9 DEF poolVars, LedgerInv, TypeOK, PoolTypeOK
  <2> QED
    BY <1>1, <1>6, <2>1, <2>2 DEF TokensKept
<1> QED
  BY <1>8, <1>9, UntouchedBooks

\* The globals are synced, and what is the recipient's may be claimed.
LEMMA SyncedBooks ==
  ASSUME LedgerInv, NEW shares \in Nat,
         SyncFeeIndices(SyncedGlobal), systemCollShares' = SyncedGlobal.systemCollShares,
         feeRecipientCollShares' = SyncedGlobal.feeRecipientCollShares - shares,
         activePoolShares' = activePoolShares - shares,
         UNCHANGED <<Cdps, totalStakes, sortedCdps, systemDebt, surplusVars, tokenVars>>
  PROVE  BooksKept
<1>1. CdpBooks(Cdps', totalStakes', sortedCdps') /\ SurplusIsClaimable' /\ TokensKept
  BY SurplusUntouched, BalancesUntouched DEF LedgerInv
<1>2. /\ SyncedGlobal \in GlobalRecords
      /\ SyncedGlobal.systemCollShares + SyncedGlobal.feeRecipientCollShares
           = systemCollShares + feeRecipientCollShares
  BY FeeStaysInThePool DEF LedgerInv, SyncFeeIndices
<1>3. systemCollShares' = SyncedGlobal.systemCollShares
  OBVIOUS
<1>4. /\ activePoolShares \in Nat /\ systemCollShares \in Nat
      /\ feeRecipientCollShares \in Nat /\ RewardsKept \in Nat
  BY MarginIsInt DEF LedgerInv
<1>5. SyncedGlobal.systemCollShares \in Nat /\ SyncedGlobal.feeRecipientCollShares \in Nat
  BY <1>2 DEF GlobalRecords
<1>6. RewardsKept' = RewardsKept
  BY DEF RewardsKept
<1>7. PoolMargin' >= PoolMargin
  BY <1>2, <1>3, <1>4, <1>5, <1>6 DEF PoolMargin
<1> QED
  BY <1>1, <1>7 DEF BooksKept

LEMMA SettingBooks ==
  ASSUME LedgerInv, SyncBeforeSetting PROVE BooksKept
<1>1. SyncedGlobal \in GlobalRecords
  BY FeeStaysInThePool DEF LedgerInv, SyncBeforeSetting, SyncGlobalAccountingAndGracePeriod,
                           SyncFeeIndices
<1>2. activePoolShares \in Nat /\ SyncedGlobal.feeRecipientCollShares \in Nat
  BY <1>1, MarginIsInt DEF LedgerInv, GlobalRecords
<1>3. /\ feeRecipientCollShares' = SyncedGlobal.feeRecipientCollShares - 0
      /\ activePoolShares' = activePoolShares - 0
  BY <1>2 DEF SyncBeforeSetting
<1>4. /\ SyncFeeIndices(SyncedGlobal) /\ systemCollShares' = SyncedGlobal.systemCollShares
      /\ UNCHANGED <<Cdps, totalStakes, sortedCdps, systemDebt, surplusVars, tokenVars>>
  BY DEF SyncBeforeSetting, SyncGlobalAccountingAndGracePeriod, listVars
<1> QED
  BY <1>3, <1>4, SyncedBooks

LEMMA AccountBooks ==
  ASSUME LedgerInv, AccountAction PROVE BooksKept
<1>1. ASSUME NEW sender \in Users, NEW recipient \in Users, NEW amount \in TransferAmounts,
             sender # recipient, Transfer(sender, recipient, amount)
      PROVE  BooksKept
  BY <1>1, TransferBooks, ProtocolInputAssumption
<1>2. ASSUME NEW shares \in FeeClaims, ClaimFeeRecipientCollShares(shares)
      PROVE  BooksKept
  <2>1. shares \in Nat
    BY ProtocolInputAssumption
  <2> QED
    BY <2>1, <1>2, SyncedBooks
       DEF ClaimFeeRecipientCollShares, SyncGlobalAccountingAndGracePeriod, listVars
<1>3. CASE Sync
  BY <1>3, SettingBooks DEF Sync
<1> QED
  BY <1>1, <1>2, <1>3 DEF AccountAction

LEMMA GovernanceBooks ==
  ASSUME LedgerInv, GovernanceAction PROVE BooksKept
<1>1. SyncBeforeSetting
  BY DEF GovernanceAction, SetStakingRewardSplit, SetGracePeriod, SetRedemptionFeeFloor,
         SetMinuteDecayFactor, SetBeta, SetRedemptionsPaused
<1> QED
  BY <1>1, SettingBooks

LEMMA EnvironmentBooks ==
  ASSUME LedgerInv, UNCHANGED protocolVars PROVE BooksKept
<1>1. /\ UNCHANGED <<Cdps, totalStakes, sortedCdps, poolVars, activePoolShares, surplusVars>>
      /\ UNCHANGED tokenVars
  BY DEF protocolVars, stakeVars, listVars
<1> QED
  BY <1>1, UntouchedBooks, BalancesUntouched DEF poolVars

(* --- Liquidation ------------------------------------------------------- *)

LEMMA CreditedSum ==
  ASSUME NEW surplusOf \in [Users -> Nat], NEW owner \in Users, NEW shares \in Nat
  PROVE  SumOverUsers(SurplusCredited(surplusOf, owner, shares))
           = SumOverUsers(surplusOf) + shares
<1>1. surplusOf \in [Users -> Int] /\ surplusOf[owner] \in Nat
      /\ surplusOf[owner] + shares \in Int
  OBVIOUS
<1>2. SumOverUsers([surplusOf EXCEPT ![owner] = surplusOf[owner] + shares])
        = SumOverUsers(surplusOf) - surplusOf[owner] + (surplusOf[owner] + shares)
  BY <1>1, UserSumChanges
<1>3. SumOverUsers(surplusOf) \in Nat
  BY UserSumIsNat
<1> QED
  BY <1>1, <1>2, <1>3 DEF SurplusCredited

\* The pools pay out what the CDPs gave up, and nothing else.
LEMMA FinalizeBooks ==
  ASSUME LedgerInv, NEW liquidator \in Users, NEW v, IsLiquidation(v), NEW stakes,
         FinalizeLiquidation(liquidator, SyncedGlobal, v, stakes),
         CdpBooks(Cdps', totalStakes', sortedCdps'),
         SumOverUsers(surplusCollShares') = SumOverUsers(surplusCollShares) + v.surplus,
         RewardsKept' = RewardsKept - v.reward
  PROVE  BooksKept
<1> DEFINE g == SyncedGlobal
<1>0. TypeOK
  BY DEF LedgerInv
<1>1. /\ g \in GlobalRecords
      /\ g.systemCollShares + g.feeRecipientCollShares
           = systemCollShares + feeRecipientCollShares
  BY <1>0, FeeStaysInThePool DEF FinalizeLiquidation, SyncFeeIndices
<1>2. /\ v.debtToBurn \in Nat /\ v.collToSend \in Nat /\ v.reward \in Nat /\ v.surplus \in Nat
  BY DEF IsLiquidation
<1>3. /\ systemCollShares' = g.systemCollShares - v.collToSend - v.surplus
      /\ activePoolShares' = activePoolShares - (v.collToSend + v.surplus + v.reward)
      /\ feeRecipientCollShares' = g.feeRecipientCollShares
      /\ totalSurplusCollShares' = totalSurplusCollShares + v.surplus
      /\ collSurplusPoolShares' = collSurplusPoolShares + v.surplus
      /\ RepayDebt(liquidator, v.debtToBurn)
  BY DEF FinalizeLiquidation, RepayDebt
<1>4. totalSurplusCollShares \in Nat /\ collSurplusPoolShares \in Nat
  BY <1>0 DEF TypeOK, SurplusTypeOK
<1>5. SurplusIsClaimable'
  BY <1>2, <1>3, <1>4 DEF LedgerInv, SurplusIsClaimable
<1>6. TokensKept
  BY <1>0, <1>2, <1>3, BurnBalances DEF LedgerInv
<1>7. PoolMargin' >= PoolMargin
  <2>1. /\ activePoolShares \in Nat /\ systemCollShares \in Nat
        /\ feeRecipientCollShares \in Nat /\ RewardsKept \in Nat
    BY <1>0, MarginIsInt
  <2>2. g.systemCollShares \in Nat /\ g.feeRecipientCollShares \in Nat
    BY <1>1 DEF GlobalRecords
  <2> HIDE DEF g
  <2> QED
    BY <1>1, <1>2, <1>3, <2>1, <2>2 DEF PoolMargin
<1> QED
  BY <1>5, <1>6, <1>7 DEF BooksKept

LEMMA LiquidateBooks ==
  ASSUME LedgerInv, NEW liquidator \in Users, NEW id \in CdpIds, Liquidate(liquidator, id)
  PROVE  BooksKept
<1> DEFINE g == SyncedGlobal
           cdp == SyncedCdp(id, g.feeIndex)
           v == LiquidationValues(cdp)
           closed == ClosedCdp(cdp, "closedByLiquidation")
<1>0. TypeOK /\ IndicesAreReached /\ CdpsAreProper(Cdps)
  BY DEF LedgerInv, CdpBooks
<1>1. IsActive(id) /\ LiquidateInFull(liquidator, id, g, cdp)
  BY DEF Liquidate
<1>2. FinalizeLiquidation(liquidator, g, v, totalStakes - cdp.stake)
  BY <1>1 DEF LiquidateInFull
<1>3. g \in GlobalRecords
  BY <1>0, <1>2, FeeStaysInThePool DEF FinalizeLiquidation, SyncFeeIndices
<1>4. /\ cdp \in CdpRecords /\ cdp.owner \in Users /\ cdp.stake = Cdps[id].stake
      /\ cdp.liquidatorRewardShares = Cdps[id].liquidatorRewardShares
  BY <1>0, <1>1, <1>3, SyncedFields DEF GlobalRecords
<1>5. IsLiquidation(v) /\ v.surplus \in Nat /\ v.reward = cdp.liquidatorRewardShares
  <2>1. IsLiquidation(v)
    BY <1>0, <1>4, LiquidationValuesType DEF TypeOK
  <2> QED
    BY <2>1 DEF IsLiquidation, LiquidationValues
<1>6. /\ Cdps' = [Cdps EXCEPT ![id] = closed]
      /\ totalStakes' = totalStakes - cdp.stake
      /\ sortedCdps' = ListWithout(sortedCdps, id)
      /\ surplusCollShares' = SurplusCredited(surplusCollShares, cdp.owner, v.surplus)
  BY <1>1 DEF LiquidateInFull
<1>7. /\ closed \in CdpRecords /\ IsProper(closed) /\ closed.status # "active"
  BY <1>4, ClosedFields DEF Statuses
<1> HIDE DEF cdp, v, closed
<1>8. Replaces(Cdps', Cdps, id, closed)
  BY <1>0, <1>6, <1>7, ExceptReplaces DEF TypeOK, CdpTypeOK
<1>9. /\ CdpBooks(Cdps', totalStakes - Cdps[id].stake, ListWithout(sortedCdps, id))
      /\ SumOverCdps(RewardsOf(Cdps'))
           = SumOverCdps(RewardsOf(Cdps)) - Cdps[id].liquidatorRewardShares
  BY <1>1, <1>7, <1>8, BooksClosed DEF LedgerInv, IsActive
<1>10. CdpBooks(Cdps', totalStakes', sortedCdps') /\ RewardsKept' = RewardsKept - v.reward
  BY <1>4, <1>5, <1>6, <1>9 DEF RewardsKept
<1>11. SumOverUsers(surplusCollShares') = SumOverUsers(surplusCollShares) + v.surplus
  BY <1>0, <1>4, <1>5, <1>6, CreditedSum DEF TypeOK, SurplusTypeOK
<1> QED
  BY <1>2, <1>5, <1>10, <1>11, FinalizeBooks

LEMMA PartiallyLiquidateBooks ==
  ASSUME LedgerInv, NEW liquidator \in Users, NEW id \in CdpIds,
         NEW partialDebt \in Nat, NEW k \in Int, k <= Len(sortedCdps) - 1,
         PartiallyLiquidate(liquidator, id, partialDebt, k)
  PROVE  BooksKept
<1> DEFINE g == SyncedGlobal
           cdp == SyncedCdp(id, g.feeIndex)
           partialColl == GetSharesByPooledEth(IncentiveColl(ICR(cdp), partialDebt))
           coll == cdp.coll - partialColl
           debt == cdp.debt - partialDebt
           newStake == ComputeNewStake(coll, g.stakesSnapshot, g.collSnapshot)
           newCdp == UpdatedCdp(cdp, coll, debt, newStake)
           stakes == RestakedTotal(totalStakes, cdp, newStake)
           v == [debtToBurn |-> partialDebt, collToSend |-> partialColl,
                 debtToRedistribute |-> 0, reward |-> 0, surplus |-> 0]
           rest == ListWithout(sortedCdps, id)
<1>0. TypeOK /\ EnvTypeOK /\ IndicesAreReached /\ CdpsAreProper(Cdps)
  BY DEF LedgerInv, CdpBooks, TypeOK
<1>1. IsActive(id) /\ LiquidateInPart(liquidator, id, g, cdp, partialDebt, partialColl, k)
  BY DEF PartiallyLiquidate
<1>2. FinalizeLiquidation(liquidator, g, v, stakes)
  BY <1>1 DEF LiquidateInPart
<1>3. g \in GlobalRecords
  BY <1>0, <1>2, FeeStaysInThePool DEF FinalizeLiquidation, SyncFeeIndices
<1>4. /\ cdp \in CdpRecords /\ cdp.status = "active" /\ cdp.owner \in Users
      /\ cdp.stake = Cdps[id].stake
      /\ cdp.liquidatorRewardShares = Cdps[id].liquidatorRewardShares /\ cdp.feeIndex > 0
  BY <1>0, <1>1, <1>3, SyncedFields DEF GlobalRecords
<1>5. /\ cdp.coll \in Nat /\ cdp.debt \in Nat /\ cdp.stake \in Nat
      /\ cdp.liquidatorRewardShares \in Nat
  BY <1>4, RecordFields
<1>6. ICR(cdp) \in Nat
  BY <1>0, <1>4, ICRIsNat
<1>7. partialColl \in Nat
  BY <1>0, <1>6, IncentiveIsNat
<1>8. coll \in Nat /\ debt \in Nat /\ debt >= MIN_CHANGE
  <2>1. partialColl < cdp.coll
    BY DEF PartiallyLiquidate
  <2>2. newCdp.debt = debt
    BY <1>4 DEF UpdatedCdp, CdpRecords
  <2>3. newCdp.debt >= MIN_CHANGE
    BY <1>1 DEF LiquidateInPart, DebtIsEnough
  <2> QED
    BY <2>1, <2>2, <2>3, <1>5, <1>7, MinimumAssumption, SMTT(30)
<1>9. newStake \in Nat
  BY <1>3, <1>8, StakeIsNat DEF GlobalRecords
<1>10. /\ Cdps' = [Cdps EXCEPT ![id] = newCdp]
       /\ totalStakes' = totalStakes + newStake - cdp.stake
       /\ sortedCdps' = ListInsert(rest, k, id)
       /\ k >= 0
       /\ surplusCollShares' = surplusCollShares
  BY <1>1 DEF LiquidateInPart, RestakedTotal, ValidInsertPosition
<1>11. IsLiquidation(v) /\ v.surplus = 0 /\ v.reward = 0
  BY <1>7 DEF IsLiquidation
<1> HIDE DEF cdp, coll, debt, newStake, v, stakes
<1>12. /\ newCdp \in CdpRecords /\ newCdp.status = "active" /\ newCdp.owner \in Users
       /\ newCdp.stake = newStake /\ newCdp.debt = debt
       /\ newCdp.liquidatorRewardShares = cdp.liquidatorRewardShares
       /\ newCdp.feeIndex = cdp.feeIndex
  BY <1>4, <1>8, <1>9 DEF UpdatedCdp, CdpRecords
<1> HIDE DEF newCdp
<1>13. IsProper(newCdp)
  BY <1>4, <1>8, <1>12 DEF IsProper
<1>14. Replaces(Cdps', Cdps, id, newCdp)
  BY <1>0, <1>10, <1>12, ExceptReplaces DEF TypeOK, CdpTypeOK
<1>15. k \in 0 .. Len(sortedCdps) - 1
  BY <1>10
<1>16. /\ CdpBooks(Cdps', totalStakes - Cdps[id].stake + newCdp.stake, ListInsert(rest, k, id))
       /\ SumOverCdps(RewardsOf(Cdps')) = SumOverCdps(RewardsOf(Cdps))
            - Cdps[id].liquidatorRewardShares + newCdp.liquidatorRewardShares
  BY <1>1, <1>12, <1>13, <1>14, <1>15, BooksUpdated DEF LedgerInv, IsActive
<1>17. CdpBooks(Cdps', totalStakes', sortedCdps')
  <2>1. totalStakes' = totalStakes - Cdps[id].stake + newCdp.stake
    BY <1>0, <1>4, <1>5, <1>9, <1>10, <1>12 DEF TypeOK, StakeTypeOK
  <2> QED
    BY <2>1, <1>10, <1>16
<1>18. RewardsKept \in Nat
  BY <1>0, MarginIsInt
<1>19. RewardsKept' = RewardsKept - v.reward
  BY <1>4, <1>5, <1>11, <1>12, <1>16, <1>18 DEF RewardsKept
<1>20. SumOverUsers(surplusCollShares) \in Nat
  BY <1>0, UserSumIsNat DEF TypeOK, SurplusTypeOK
<1>21. SumOverUsers(surplusCollShares') = SumOverUsers(surplusCollShares) + v.surplus
  BY <1>10, <1>11, <1>20
<1> QED
  BY <1>2, <1>11, <1>17, <1>19, <1>21, FinalizeBooks

\* The books of a batch in the making: a CDP that is still active is as it was
\* before the batch, and the others have handed over what they held.
IsKeptBatch(b) ==
  b.ok => /\ CdpBooks(b.Cdps, b.stakes, b.list)
          /\ \A i \in CdpIds : b.Cdps[i].status = "active" => b.Cdps[i] = Cdps[i]
          /\ SumOverUsers(b.surplusOf) = SumOverUsers(surplusCollShares) + b.surplus
          /\ SumOverCdps(RewardsOf(b.Cdps)) = RewardsKept - b.reward

LEMMA BatchStepBooks ==
  ASSUME TypeOK, IndicesAreReached, CdpsAreProper(Cdps), NEW g \in GlobalRecords,
         NEW id \in CdpIds, NEW b, IsBatch(b), IsKeptBatch(b)
  PROVE  IsKeptBatch(BatchStep(b, id, g))
<1> DEFINE cdp == SyncedCdp(id, g.feeIndex)
           tcr == TCR(g.systemCollShares - b.collToSend - b.surplus, systemDebt - b.debtToBurn)
           v == LiquidationValues(cdp)
           closed == ClosedCdp(cdp, "closedByLiquidation")
           taken == /\ b.Cdps[id].status = "active"
                    /\ \/ ICR(cdp) < MCR
                       \/ ~b.normalMode /\ CanLiquidateRecoveryMode(ICR(cdp), tcr)
           after == BatchStep(b, id, g)
<1>1. CASE ~taken
  BY <1>1 DEF BatchStep
<1>2. CASE taken
  <2> SUFFICES ASSUME after.ok
               PROVE  /\ CdpBooks(after.Cdps, after.stakes, after.list)
                      /\ \A i \in CdpIds :
                           after.Cdps[i].status = "active" => after.Cdps[i] = Cdps[i]
                      /\ SumOverUsers(after.surplusOf)
                           = SumOverUsers(surplusCollShares) + after.surplus
                      /\ SumOverCdps(RewardsOf(after.Cdps)) = RewardsKept - after.reward
    BY DEF IsKeptBatch
  <2>1. /\ after.Cdps = [b.Cdps EXCEPT ![id] = closed]
        /\ after.list = ListWithout(b.list, id)
        /\ after.stakes = b.stakes - cdp.stake
        /\ after.surplusOf = SurplusCredited(b.surplusOf, cdp.owner, v.surplus)
        /\ after.ok => b.ok
        /\ after.reward = b.reward + v.reward
        /\ after.surplus = b.surplus + v.surplus
    BY <1>2 DEF BatchStep
  <2>2. /\ b.ok /\ b.Cdps \in [CdpIds -> CdpRecords] /\ b.surplusOf \in [Users -> Nat]
        /\ b.surplus \in Nat /\ b.reward \in Nat
    BY <2>1 DEF IsBatch, IsLiquidation
  <2>3. /\ CdpBooks(b.Cdps, b.stakes, b.list)
        /\ \A i \in CdpIds : b.Cdps[i].status = "active" => b.Cdps[i] = Cdps[i]
        /\ SumOverUsers(b.surplusOf) = SumOverUsers(surplusCollShares) + b.surplus
        /\ SumOverCdps(RewardsOf(b.Cdps)) = RewardsKept - b.reward
    BY <2>2 DEF IsKeptBatch
  <2>4. b.Cdps[id].status = "active" /\ b.Cdps[id] = Cdps[id] /\ IsActive(id)
    BY <1>2, <2>3 DEF IsActive
  <2>5. /\ cdp \in CdpRecords /\ cdp.owner \in Users /\ cdp.stake = b.Cdps[id].stake
        /\ cdp.liquidatorRewardShares = b.Cdps[id].liquidatorRewardShares
    BY <2>4, SyncedFields DEF GlobalRecords
  <2>6. v.surplus \in Nat /\ v.reward = cdp.liquidatorRewardShares /\ v.reward \in Nat
    <3>1. IsLiquidation(v)
      BY <2>5, LiquidationValuesType DEF TypeOK
    <3> QED
      BY <3>1 DEF IsLiquidation, LiquidationValues
  <2>7. closed \in CdpRecords /\ IsProper(closed) /\ closed.status # "active"
    BY <2>5, ClosedFields DEF Statuses
  <2> HIDE DEF after, v, closed, cdp, tcr, taken
  <2>8. Replaces(after.Cdps, b.Cdps, id, closed)
    BY <2>1, <2>2, <2>7, ExceptReplaces
  <2>9. /\ CdpBooks(after.Cdps, b.stakes - b.Cdps[id].stake, ListWithout(b.list, id))
        /\ SumOverCdps(RewardsOf(after.Cdps))
             = SumOverCdps(RewardsOf(b.Cdps)) - b.Cdps[id].liquidatorRewardShares
    BY <2>3, <2>4, <2>7, <2>8, BooksClosed
  <2>10. CdpBooks(after.Cdps, after.stakes, after.list)
    BY <2>1, <2>5, <2>9
  <2>11. \A i \in CdpIds : after.Cdps[i].status = "active" => after.Cdps[i] = Cdps[i]
    BY <2>3, <2>7, <2>8 DEF Replaces
  <2>12. SumOverUsers(after.surplusOf) = SumOverUsers(surplusCollShares) + after.surplus
    <3>1. SumOverUsers(SurplusCredited(b.surplusOf, cdp.owner, v.surplus))
            = SumOverUsers(b.surplusOf) + v.surplus
      BY <2>2, <2>5, <2>6, CreditedSum
    <3>2. SumOverUsers(surplusCollShares) \in Nat
      BY UserSumIsNat DEF TypeOK, SurplusTypeOK
    <3> QED
      BY <3>1, <3>2, <2>1, <2>2, <2>3, <2>6
  <2>13. SumOverCdps(RewardsOf(after.Cdps)) = RewardsKept - after.reward
    <3>1. RewardsKept \in Nat
      BY MarginIsInt
    <3> QED
      BY <3>1, <2>1, <2>2, <2>3, <2>5, <2>6, <2>9
  <2> QED
    BY <2>10, <2>11, <2>12, <2>13
<1> QED
  BY <1>1, <1>2

LEMMA BatchAfterBooks ==
  ASSUME LedgerInv, NEW ids \in Seq(CdpIds), NEW g \in GlobalRecords
  PROVE  \A n \in 0 .. Len(ids) :
           IsBatch(BatchAfter(ids, g)[n]) /\ IsKeptBatch(BatchAfter(ids, g)[n])
<1> DEFINE after == BatchAfter(ids, g)
           N == Len(ids)
           T == {n \in 0 .. N : IsBatch(after[n]) /\ IsKeptBatch(after[n])}
<1>0. /\ TypeOK /\ IndicesAreReached /\ CdpsAreProper(Cdps)
      /\ CdpBooks(Cdps, totalStakes, sortedCdps)
  BY DEF LedgerInv, CdpBooks
<1>1. after[0] = EmptyBatch(g)
  BY BatchAfterUnfolds
<1>2. IsBatch(EmptyBatch(g))
  BY <1>0 DEF IsBatch, EmptyBatch, IsLiquidation, IndicesAreReached, TypeOK, CdpTypeOK, ListTypeOK,
         StakeTypeOK, SurplusTypeOK
<1>3. IsKeptBatch(EmptyBatch(g))
  <2>1. SumOverUsers(surplusCollShares) \in Nat /\ RewardsKept \in Nat
    BY <1>0, UserSumIsNat, MarginIsInt DEF TypeOK, SurplusTypeOK
  <2> QED
    BY <2>1, <1>0 DEF IsKeptBatch, EmptyBatch, RewardsKept
<1>4. ASSUME NEW n \in 1 .. N PROVE after[n] = BatchStep(after[n - 1], ids[n], g) /\ ids[n] \in CdpIds
  BY BatchAfterUnfolds
<1>5. N \in Nat
  OBVIOUS
<1> HIDE DEF after, N
<1>6. ASSUME NEW n \in 1 .. N, n - 1 \in T PROVE n \in T
  <2>1. IsBatch(after[n - 1]) /\ IsKeptBatch(after[n - 1])
    BY <1>6
  <2>2. IsBatch(after[n])
    BY <2>1, <1>0, <1>4, BatchStepType
  <2>3. IsKeptBatch(after[n])
    BY <2>1, <1>0, <1>4, BatchStepBooks
  <2> QED
    BY <2>2, <2>3
<1>7. 0 \in T
  BY <1>1, <1>2, <1>3, <1>5
<1>8. \A n \in 0 .. N : n \in T
  <2> HIDE DEF T
  <2> QED
    BY <1>5, <1>6, <1>7, IntervalInduction
<1> QED
  BY <1>8 DEF after, N

LEMMA BatchLiquidateBooks ==
  ASSUME LedgerInv, NEW ids \in Seq(CdpIds), BatchLiquidateCdps(ids)
  PROVE  BooksKept
<1> DEFINE g == SyncedGlobal
           b == BatchAfter(ids, g)[Len(ids)]
<1>0. PICK liquidator \in Users : FinalizeLiquidation(liquidator, g, b, b.stakes)
  BY DEF BatchLiquidateCdps
<1>1. /\ b.ok /\ totalStakes' = b.stakes /\ Cdps' = b.Cdps /\ sortedCdps' = b.list
      /\ surplusCollShares' = b.surplusOf
  BY DEF BatchLiquidateCdps
<1>2. g \in GlobalRecords
  BY <1>0, FeeStaysInThePool DEF FinalizeLiquidation, SyncFeeIndices, LedgerInv
<1>3. IsBatch(b) /\ IsKeptBatch(b)
  <2>1. Len(ids) \in 0 .. Len(ids)
    OBVIOUS
  <2> QED
    BY <1>2, <2>1, BatchAfterBooks
<1> HIDE DEF b
<1>4. /\ IsLiquidation(b)
      /\ CdpBooks(b.Cdps, b.stakes, b.list)
      /\ SumOverUsers(b.surplusOf) = SumOverUsers(surplusCollShares) + b.surplus
      /\ SumOverCdps(RewardsOf(b.Cdps)) = RewardsKept - b.reward
  BY <1>1, <1>3 DEF IsBatch, IsKeptBatch
<1>5. RewardsKept' = RewardsKept - b.reward
  BY <1>1, <1>4 DEF RewardsKept
<1> QED
  BY <1>0, <1>1, <1>4, <1>5, FinalizeBooks

LEMMA LiquidationBooks ==
  ASSUME LedgerInv, LiquidationAction PROVE BooksKept
<1>1. \/ \E liquidator \in Users, id \in CdpIds : Liquidate(liquidator, id)
      \/ \E liquidator \in Users, id \in CdpIds, partialDebt \in PartialAmounts,
            k \in 0 .. Len(sortedCdps) - 1 : PartiallyLiquidate(liquidator, id, partialDebt, k)
      \/ \E ids \in BoundedSeq(CdpIds, MaxBatch) : BatchLiquidateCdps(ids)
  BY DEF LiquidationAction
<1>2. ASSUME NEW liquidator \in Users, NEW id \in CdpIds, NEW partialDebt \in PartialAmounts,
             NEW k \in 0 .. Len(sortedCdps) - 1,
             PartiallyLiquidate(liquidator, id, partialDebt, k)
      PROVE  BooksKept
  <2>1. partialDebt \in Nat /\ k \in Int /\ k <= Len(sortedCdps) - 1
    BY LiquidationInputAssumption
  <2> QED
    BY <2>1, <1>2, PartiallyLiquidateBooks
<1> QED
  BY <1>1, <1>2, BatchInputType, LiquidateBooks, BatchLiquidateBooks

(* --- Redemption -------------------------------------------------------- *)

\* The CDPs at the last `closed' places that end at `first'
LastVisited(first, closed) == {sortedCdps[i] : i \in first - closed + 1 .. first}

\* The books of a redemption after n CDPs, from the place `first' upwards: those
\* that are closed come first, those not reached are as they were, and as long as
\* the loop goes on, every CDP it has seen is closed.
IsKeptLoop(r, first, n) ==
  r.ok => /\ CdpsAreProper(r.Cdps)
          /\ r.stakes = SumOverCdps(StakesOf(r.Cdps))
          /\ SumOverUsers(r.surplusOf)
               = SumOverUsers(surplusCollShares) + r.surplus + r.reward
          /\ SumOverCdps(RewardsOf(r.Cdps)) = RewardsKept - r.reward
          /\ ActiveIn(r.Cdps) = ActiveIn(Cdps) \ LastVisited(first, r.closed)
          /\ \A i \in 1 .. first - n : r.Cdps[sortedCdps[i]] = Cdps[sortedCdps[i]]
          /\ r.remaining # 0 /\ ~r.cancelled => r.closed = n

LEMMA PlaceFacts ==
  ASSUME LedgerInv, NEW i \in 1 .. Len(sortedCdps)
  PROVE  /\ sortedCdps[i] \in CdpIds /\ IsActive(sortedCdps[i])
         /\ \A j \in 1 .. Len(sortedCdps) : sortedCdps[j] = sortedCdps[i] => j = i
<1>1. ListHolds(Cdps, sortedCdps)
  BY DEF LedgerInv, CdpBooks
<1>2. sortedCdps \in Seq(CdpIds) /\ IsInjective(sortedCdps)
  BY <1>1 DEF ListHolds
<1>3. DOMAIN sortedCdps = 1 .. Len(sortedCdps)
  BY <1>2
<1>4. sortedCdps[i] \in CdpIds
  BY <1>2
<1>5. \A j \in 1 .. Len(sortedCdps) : sortedCdps[j] = sortedCdps[i] => j = i
  BY <1>2, <1>3 DEF IsInjective
<1>6. sortedCdps[i] \in ToSet(sortedCdps)
  BY <1>3 DEF ToSet
<1>7. IsActive(sortedCdps[i])
  BY <1>1, <1>6 DEF ListHolds, ActiveIn, IsActive
<1> QED
  BY <1>4, <1>5, <1>7

LEMMA RedeemStepBooks ==
  ASSUME LedgerInv, NEW g \in GlobalRecords, NEW debt \in Nat,
         NEW first \in 1 .. Len(sortedCdps), NEW n \in Nat, n < first,
         NEW r, IsRedeemed(r, debt, n), IsKeptLoop(r, first, n), NEW hintMatches
  PROVE  IsKeptLoop(RedeemFromCdp(r, sortedCdps[first - n], g, hintMatches), first, n + 1)
<1> DEFINE id == sortedCdps[first - n]
           cdp == SyncedCdp(id, g.feeIndex)
           debtToRedeem == Lesser(r.remaining, cdp.debt)
           drawn == CollDrawn(debtToRedeem)
           newDebt == cdp.debt - debtToRedeem
           newColl == cdp.coll - drawn
           isPartial == /\ hintMatches
                        /\ GetPooledEthByShares(newColl) >= MIN_NET_STETH_BALANCE
                        /\ DebtIsEnough(newDebt)
           collLeft == IF isPartial THEN newColl ELSE cdp.coll
           debtLeft == IF isPartial THEN newDebt ELSE cdp.debt
           newStake == ComputeNewStake(collLeft, g.stakesSnapshot, g.collSnapshot)
           restaked == UpdatedCdp(cdp, collLeft, debtLeft, newStake)
           closedCdp == ClosedCdp(cdp, "closedByRedemption")
           reward == cdp.liquidatorRewardShares
           after == RedeemFromCdp(r, id, g, hintMatches)
           done == r.remaining = 0 \/ r.cancelled
<1>0. TypeOK /\ IndicesAreReached /\ CdpsAreProper(Cdps) /\ EnvTypeOK
  BY DEF LedgerInv, CdpBooks, TypeOK
<1>1. CASE done
  <2>1. after = r
    BY <1>1 DEF RedeemFromCdp
  <2>2. \A i \in 1 .. first - (n + 1) : i \in 1 .. first - n
    OBVIOUS
  <2>3. IsKeptLoop(r, first, n + 1)
    BY <1>1, <2>2 DEF IsKeptLoop
  <2> QED
    BY <2>1, <2>3
<1>2. CASE ~done
  <2> SUFFICES ASSUME after.ok
               PROVE  IsKeptLoop(after, first, n + 1)
    BY DEF IsKeptLoop
  <2>1. r.ok /\ newColl >= 0
    BY <1>2 DEF RedeemFromCdp
  <2>2. /\ r.Cdps \in [CdpIds -> CdpRecords]
        /\ r.stakes \in Nat /\ r.surplusOf \in [Users -> Nat]
        /\ r.remaining \in Nat /\ r.surplus \in Nat /\ r.reward \in Nat
    BY <2>1 DEF IsRedeemed
  <2>3. /\ CdpsAreProper(r.Cdps)
        /\ r.stakes = SumOverCdps(StakesOf(r.Cdps))
        /\ SumOverUsers(r.surplusOf) = SumOverUsers(surplusCollShares) + r.surplus + r.reward
        /\ SumOverCdps(RewardsOf(r.Cdps)) = RewardsKept - r.reward
        /\ ActiveIn(r.Cdps) = ActiveIn(Cdps) \ LastVisited(first, r.closed)
        /\ \A i \in 1 .. first - n : r.Cdps[sortedCdps[i]] = Cdps[sortedCdps[i]]
        /\ r.closed = n
    BY <1>2, <2>1 DEF IsKeptLoop
  <2>4. first - n \in 1 .. Len(sortedCdps) /\ first - n \in 1 .. first - n
    OBVIOUS
  <2>5. /\ id \in CdpIds /\ IsActive(id)
        /\ \A j \in 1 .. Len(sortedCdps) : sortedCdps[j] = id => j = first - n
    BY <2>4, PlaceFacts
  <2>6. r.Cdps[id] = Cdps[id]
    BY <2>3, <2>4
  <2>7. /\ cdp \in CdpRecords /\ cdp.status = "active" /\ cdp.owner \in Users
        /\ cdp.stake = Cdps[id].stake /\ reward = Cdps[id].liquidatorRewardShares
        /\ cdp.debt >= MIN_CHANGE /\ cdp.feeIndex > 0
    BY <1>0, <2>5, SyncedFields DEF GlobalRecords
  <2>8. /\ cdp.coll \in Nat /\ cdp.debt \in Nat /\ cdp.stake \in Nat /\ reward \in Nat
    BY <2>7, RecordFields
  <2>9. debtToRedeem \in Nat /\ debtToRedeem <= cdp.debt
    BY <2>2, <2>8, LesserIsNat
  <2>10. drawn \in Nat
    BY <1>0, <2>9, DrawnIsNat
  <2>11. newColl \in Nat /\ newDebt \in Nat
    BY <2>1, <2>8, <2>9, <2>10
  <2>12. SumOverUsers(surplusCollShares) \in Nat /\ RewardsKept \in Nat
    BY <1>0, UserSumIsNat, MarginIsInt DEF TypeOK, SurplusTypeOK
  <2>13. \A i \in 1 .. first - (n + 1) :
           /\ i \in 1 .. first - n /\ sortedCdps[i] \in CdpIds /\ sortedCdps[i] # id
    <3>1. \A i \in 1 .. first - (n + 1) :
            i \in 1 .. first - n /\ i \in 1 .. Len(sortedCdps) /\ i # first - n
      OBVIOUS
    <3> HIDE DEF id
    <3> QED
      BY <3>1, <2>5, PlaceFacts
  <2>14. CASE newDebt = 0
    <3>1. /\ after.Cdps = [r.Cdps EXCEPT ![id] = closedCdp]
          /\ after.stakes = r.stakes - cdp.stake
          /\ after.surplusOf = SurplusCredited(r.surplusOf, cdp.owner, newColl + reward)
          /\ after.surplus = r.surplus + newColl
          /\ after.reward = r.reward + reward
          /\ after.closed = r.closed + 1
      BY <1>2, <2>14 DEF RedeemFromCdp
    <3>2. /\ closedCdp \in CdpRecords /\ IsProper(closedCdp) /\ closedCdp.status # "active"
          /\ closedCdp.stake = 0 /\ closedCdp.liquidatorRewardShares = 0
      BY <2>7, ClosedFields DEF Statuses
    <3> HIDE DEF after, closedCdp, newColl, newDebt, drawn, debtToRedeem, cdp
    <3>3. Replaces(after.Cdps, r.Cdps, id, closedCdp)
      <4>1. r.Cdps \in [CdpIds -> CdpRecords] /\ id \in CdpIds /\ closedCdp \in CdpRecords
        BY <2>2, <2>5, <3>2
      <4>2. Replaces([r.Cdps EXCEPT ![id] = closedCdp], r.Cdps, id, closedCdp)
        BY <4>1, ExceptReplaces
      <4>3. after.Cdps = [r.Cdps EXCEPT ![id] = closedCdp]
        BY <3>1
      <4> QED
        BY <4>2, <4>3
    <3>4. CdpsAreProper(after.Cdps)
      BY <2>3, <2>5, <3>2, <3>3, ProperChanged
    <3>5. /\ SumOverCdps(StakesOf(after.Cdps))
               = SumOverCdps(StakesOf(r.Cdps)) - r.Cdps[id].stake + closedCdp.stake
          /\ SumOverCdps(RewardsOf(after.Cdps)) = SumOverCdps(RewardsOf(r.Cdps))
               - r.Cdps[id].liquidatorRewardShares + closedCdp.liquidatorRewardShares
      <4>1. r.Cdps \in [CdpIds -> CdpRecords] /\ id \in CdpIds /\ closedCdp \in CdpRecords
        BY <2>2, <2>5, <3>2
      <4> QED
        BY <4>1, <3>3, SumsOfChanged
    <3>6. after.stakes = SumOverCdps(StakesOf(after.Cdps))
      BY <2>2, <2>3, <2>6, <2>7, <2>8, <3>1, <3>2, <3>5, SMTT(30)
    <3>7. SumOverCdps(RewardsOf(after.Cdps)) = RewardsKept - after.reward
      <4>1. /\ SumOverCdps(RewardsOf(r.Cdps)) = RewardsKept - r.reward
            /\ r.reward \in Nat /\ reward \in Nat /\ RewardsKept \in Nat
        BY <2>2, <2>3, <2>8, <2>12
      <4>2. SumOverCdps(RewardsOf(after.Cdps)) = SumOverCdps(RewardsOf(r.Cdps)) - reward + 0
        BY <2>6, <2>7, <3>2, <3>5
      <4>3. after.reward = r.reward + reward
        BY <3>1
      <4> QED
        BY <4>1, <4>2, <4>3
    <3>8. SumOverUsers(after.surplusOf)
            = SumOverUsers(surplusCollShares) + after.surplus + after.reward
      <4>1. newColl + reward \in Nat
        BY <2>8, <2>11
      <4>2. SumOverUsers(after.surplusOf) = SumOverUsers(r.surplusOf) + (newColl + reward)
        BY <4>1, <2>2, <2>7, <3>1, CreditedSum
      <4>3. SumOverUsers(r.surplusOf)
              = SumOverUsers(surplusCollShares) + r.surplus + r.reward
        BY <2>3
      <4>4. after.surplus = r.surplus + newColl /\ after.reward = r.reward + reward
        BY <3>1
      <4>5. /\ r.surplus \in Nat /\ r.reward \in Nat /\ newColl \in Nat /\ reward \in Nat
            /\ SumOverUsers(surplusCollShares) \in Nat
        BY <2>2, <2>8, <2>11, <2>12
      <4> QED
        BY <4>2, <4>3, <4>4, <4>5, SMTT(30)
    <3>9. ActiveIn(after.Cdps) = ActiveIn(Cdps) \ LastVisited(first, after.closed)
      <4>1. ActiveIn(after.Cdps) = ActiveIn(r.Cdps) \ {id}
        BY <2>5, <3>2, <3>3 DEF ActiveIn, Replaces
      <4>2. LastVisited(first, n + 1) = LastVisited(first, n) \cup {id}
        <5>1. first - (n + 1) + 1 = first - n
          OBVIOUS
        <5>2. first - n .. first = {first - n} \cup (first - n + 1 .. first)
          OBVIOUS
        <5> QED
          BY <5>1, <5>2 DEF LastVisited, id
      <4> QED
        BY <4>1, <4>2, <2>3, <3>1
    <3>10. \A i \in 1 .. first - (n + 1) : after.Cdps[sortedCdps[i]] = Cdps[sortedCdps[i]]
      BY <2>3, <2>13, <3>3 DEF Replaces
    <3>11. after.closed = n + 1
      BY <2>3, <3>1
    <3> QED
      BY <3>4, <3>6, <3>7, <3>8, <3>9, <3>10, <3>11 DEF IsKeptLoop
  <2>15. CASE newDebt # 0
    <3>1. /\ after.Cdps = [r.Cdps EXCEPT ![id] = restaked]
          /\ after.stakes = r.stakes + restaked.stake - cdp.stake
          /\ after.surplusOf = r.surplusOf
          /\ after.surplus = r.surplus /\ after.reward = r.reward
          /\ after.closed = r.closed
          /\ after.remaining = 0 \/ after.cancelled
      BY <1>2, <2>15 DEF RedeemFromCdp, RestakedTotal
    <3>2. collLeft \in Nat /\ debtLeft \in Nat /\ debtLeft >= MIN_CHANGE
      BY <2>7, <2>8, <2>11 DEF DebtIsEnough
    <3>3. newStake \in Nat
      BY <3>2, StakeIsNat DEF GlobalRecords
    <3> HIDE DEF cdp, collLeft, debtLeft, newStake, after
    <3>4. /\ restaked \in CdpRecords /\ restaked.status = "active" /\ restaked.owner \in Users
          /\ restaked.stake = newStake /\ restaked.debt = debtLeft
          /\ restaked.liquidatorRewardShares = reward /\ restaked.feeIndex = cdp.feeIndex
      BY <2>7, <3>2, <3>3 DEF UpdatedCdp, CdpRecords
    <3> HIDE DEF restaked
    <3>5. IsProper(restaked)
      BY <2>7, <3>2, <3>4 DEF IsProper
    <3>6. Replaces(after.Cdps, r.Cdps, id, restaked)
      <4>1. r.Cdps \in [CdpIds -> CdpRecords] /\ id \in CdpIds /\ restaked \in CdpRecords
        BY <2>2, <2>5, <3>4
      <4>2. Replaces([r.Cdps EXCEPT ![id] = restaked], r.Cdps, id, restaked)
        BY <4>1, ExceptReplaces
      <4>3. after.Cdps = [r.Cdps EXCEPT ![id] = restaked]
        BY <3>1
      <4> QED
        BY <4>2, <4>3
    <3>7. CdpsAreProper(after.Cdps)
      BY <2>3, <2>5, <3>4, <3>5, <3>6, ProperChanged
    <3>8. /\ SumOverCdps(StakesOf(after.Cdps))
               = SumOverCdps(StakesOf(r.Cdps)) - r.Cdps[id].stake + restaked.stake
          /\ SumOverCdps(RewardsOf(after.Cdps)) = SumOverCdps(RewardsOf(r.Cdps))
               - r.Cdps[id].liquidatorRewardShares + restaked.liquidatorRewardShares
      <4>1. r.Cdps \in [CdpIds -> CdpRecords] /\ id \in CdpIds /\ restaked \in CdpRecords
        BY <2>2, <2>5, <3>4
      <4> QED
        BY <4>1, <3>6, SumsOfChanged
    <3>9. after.stakes = SumOverCdps(StakesOf(after.Cdps))
      BY <2>2, <2>3, <2>6, <2>7, <2>8, <3>1, <3>3, <3>4, <3>8, SMTT(30)
    <3>10. SumOverCdps(RewardsOf(after.Cdps)) = RewardsKept - after.reward
      <4>1. /\ SumOverCdps(RewardsOf(r.Cdps)) = RewardsKept - r.reward
            /\ r.reward \in Nat /\ reward \in Nat /\ RewardsKept \in Nat
        BY <2>2, <2>3, <2>8, <2>12
      <4>2. SumOverCdps(RewardsOf(after.Cdps))
              = SumOverCdps(RewardsOf(r.Cdps)) - reward + reward
        BY <2>6, <2>7, <3>4, <3>8
      <4>3. after.reward = r.reward
        BY <3>1
      <4> QED
        BY <4>1, <4>2, <4>3
    <3>11. ActiveIn(after.Cdps) = ActiveIn(r.Cdps)
      <4>1. r.Cdps[id].status = "active"
        BY <2>5, <2>6 DEF IsActive
      <4> QED
        BY <4>1, <2>5, <3>4, <3>6 DEF ActiveIn, Replaces
    <3>12. \A i \in 1 .. first - (n + 1) : after.Cdps[sortedCdps[i]] = Cdps[sortedCdps[i]]
      BY <2>3, <2>13, <3>6 DEF Replaces
    <3>13. /\ SumOverUsers(after.surplusOf)
                = SumOverUsers(surplusCollShares) + after.surplus + after.reward
           /\ ActiveIn(after.Cdps) = ActiveIn(Cdps) \ LastVisited(first, after.closed)
      BY <2>3, <3>1, <3>11
    <3>14. ~(after.remaining # 0 /\ ~after.cancelled)
      BY <3>1
    <3> QED
      BY <3>7, <3>9, <3>10, <3>12, <3>13, <3>14 DEF IsKeptLoop
  <2> QED
    BY <2>14, <2>15
<1> QED
  BY <1>1, <1>2

LEMMA RedeemedAfterBooks ==
  ASSUME LedgerInv, NEW g \in GlobalRecords, NEW debt \in Nat,
         NEW first \in 1 .. Len(sortedCdps), NEW hintMatches
  PROVE  \A n \in 0 .. first :
           IsKeptLoop(RedeemedAfter(debt, first, g, hintMatches)[n], first, n)
<1> DEFINE after == RedeemedAfter(debt, first, g, hintMatches)
           T == {n \in 0 .. first : IsKeptLoop(after[n], first, n)}
<1>0. /\ TypeOK /\ IndicesAreReached /\ CdpBooks(Cdps, totalStakes, sortedCdps)
      /\ first \in Nat /\ first <= Len(sortedCdps)
  BY DEF LedgerInv, TypeOK, ListTypeOK
<1>1. IsLoop(after, debt, first, g, hintMatches)
  BY <1>0, RedeemedAfterUnfolds
<1>2. \A n \in 0 .. first : IsRedeemed(after[n], debt, n)
  BY <1>0, RedeemedAfterType
<1> HIDE DEF after
<1>3. 0 \in T
  <2>1. LastVisited(first, 0) = {}
    BY DEF LastVisited
  <2>2. SumOverUsers(surplusCollShares) \in Nat /\ RewardsKept \in Nat
    BY <1>0, UserSumIsNat, MarginIsInt DEF TypeOK, SurplusTypeOK
  <2>3. IsKeptLoop(NothingRedeemed(debt), first, 0)
    BY <1>0, <2>1, <2>2 DEF IsKeptLoop, NothingRedeemed, CdpBooks, RewardsKept
  <2> QED
    BY <1>1, <2>3 DEF IsLoop
<1>4. ASSUME NEW n \in 1 .. first, n - 1 \in T PROVE n \in T
  <2> DEFINE m == n - 1
  <2>1. m \in Nat /\ m < first /\ m + 1 = n /\ first - n + 1 = first - m /\ m \in 0 .. first
    OBVIOUS
  <2>2. IsKeptLoop(after[m], first, m) /\ IsRedeemed(after[m], debt, m)
    BY <1>2, <1>4, <2>1
  <2>3. after[n] = RedeemFromCdp(after[m], sortedCdps[first - m], g, hintMatches)
    BY <1>1, <2>1 DEF IsLoop
  <2> HIDE DEF m
  <2>4. IsKeptLoop(after[n], first, m + 1)
    BY <2>1, <2>2, <2>3, RedeemStepBooks
  <2> QED
    BY <2>1, <2>4
<1>5. \A n \in 0 .. first : n \in T
  <2> HIDE DEF T
  <2> QED
    BY <1>0, <1>3, <1>4, IntervalInduction
<1> QED
  BY <1>5 DEF after

\* The list that redeemCollateral leaves holds the CDPs that it left open.
LEMMA ListAfterRedemptionHolds ==
  ASSUME LedgerInv, NEW first \in 1 .. Len(sortedCdps), NEW closed \in 0 .. first,
         NEW C, ActiveIn(C) = ActiveIn(Cdps) \ LastVisited(first, closed)
  PROVE  LET left == ListAfterRedemption(first, closed)
             at == sortedCdps[first - closed]
         IN /\ ListHolds(C, left) /\ Len(left) = Len(sortedCdps) - closed
            /\ closed < first =>
                 \A k \in 0 .. Len(left) - 1 : ListHolds(C, ListInsert(ListWithout(left, at), k, at))
<1> DEFINE left == ListAfterRedemption(first, closed)
           at == sortedCdps[first - closed]
<1>1. /\ sortedCdps \in Seq(CdpIds) /\ IsInjective(sortedCdps)
      /\ ToSet(sortedCdps) = ActiveIn(Cdps)
  BY DEF LedgerInv, CdpBooks, ListHolds
<1>2. first - closed \in Nat /\ first \in Nat /\ first - closed <= first /\ first <= Len(sortedCdps)
  OBVIOUS
<1>3. left \in Seq(CdpIds) /\ (closed < first => ListContains(left, at))
  BY <1>1, LeftType
<1>4. LET cut == SubSeq(sortedCdps, 1, first - closed)
                   \o SubSeq(sortedCdps, first + 1, Len(sortedCdps))
      IN /\ IsInjective(cut)
         /\ ToSet(cut) = ToSet(sortedCdps) \ {sortedCdps[i] : i \in first - closed + 1 .. first}
  BY <1>1, <1>2, MembersCut
<1>5. IsInjective(left) /\ ToSet(left) = ActiveIn(C)
  BY <1>1, <1>4 DEF ListAfterRedemption, LastVisited
<1>6. ListHolds(C, left)
  BY <1>3, <1>5 DEF ListHolds
<1>7. Len(left) = Len(sortedCdps) - closed
  <2> DEFINE p == SubSeq(sortedCdps, 1, first - closed)
             q == SubSeq(sortedCdps, first + 1, Len(sortedCdps))
  <2>1. p \in Seq(CdpIds) /\ Len(p) = first - closed
        /\ q \in Seq(CdpIds) /\ Len(q) = Len(sortedCdps) - first
    BY <1>1, <1>2
  <2>2. left = p \o q
    BY DEF ListAfterRedemption
  <2> HIDE DEF p, q, left
  <2>3. Len(p \o q) = Len(p) + Len(q)
    BY <2>1, ConcatProperties
  <2>4. Len(sortedCdps) \in Nat
    BY <1>1
  <2> QED
    BY <1>2, <2>1, <2>2, <2>3, <2>4
<1> HIDE DEF left
<1>8. ASSUME closed < first, NEW k \in 0 .. Len(left) - 1
      PROVE  ListHolds(C, ListInsert(ListWithout(left, at), k, at))
  <2> DEFINE rest == ListWithout(left, at)
  <2>1. at \in CdpIds /\ at \in ToSet(left)
    <3>1. first - closed \in 1 .. Len(sortedCdps)
      BY <1>8
    <3>2. at \in CdpIds
      BY <1>1, <3>1
    <3>3. ListContains(left, at)
      BY <1>3, <1>8
    <3> QED
      BY <3>2, <3>3, <1>6, ListMembers
  <2>2. /\ IsInjective(rest) /\ ToSet(rest) = ToSet(left) \ {at} /\ Len(rest) = Len(left) - 1
        /\ rest \in Seq(CdpIds)
    BY <1>3, <1>5, <1>8, MembersWithout, WithoutType
  <2> HIDE DEF rest
  <2>3. k \in 0 .. Len(rest) /\ at \notin ToSet(rest)
    BY <1>8, <2>2
  <2>4. /\ IsInjective(ListInsert(rest, k, at))
        /\ ToSet(ListInsert(rest, k, at)) = ToSet(rest) \cup {at}
    BY <2>1, <2>2, <2>3, MembersInserted
  <2>5. ListInsert(rest, k, at) \in Seq(CdpIds)
    BY <2>1, <2>2, <2>3, InsertType
  <2>6. ToSet(ListInsert(rest, k, at)) = ActiveIn(C)
    BY <1>5, <2>1, <2>2, <2>4
  <2> QED
    BY <2>4, <2>5, <2>6 DEF ListHolds, rest
<1> QED
  BY <1>6, <1>7, <1>8 DEF left

LEMMA RedeemCollateralBooks ==
  ASSUME LedgerInv, NEW redeemer \in Users, NEW debt \in Nat,
         NEW first \in 1 .. Len(sortedCdps), NEW maxIterations \in Nat, NEW hintMatches,
         NEW twapDebt \in Nat, NEW k,
         RedeemCollateral(redeemer, debt, first, maxIterations, hintMatches, twapDebt, k)
  PROVE  BooksKept
<1> DEFINE g == SyncedGlobal
           steps == IF maxIterations = 0 THEN first ELSE Lesser(maxIterations, first)
           r == RedeemedAfter(debt, first, g, hintMatches)[steps]
           redeemed == debt - r.remaining
           rate == BaseRateAfterRedemption(r.drawn, twapDebt)
           fee == RedemptionFee(rate, r.drawn)
           out == SharesPaidOut(r, fee)
           at == sortedCdps[first - r.closed]
           left == ListAfterRedemption(first, r.closed)
           rest == ListWithout(left, at)
<1>0. TypeOK /\ IndicesAreReached /\ sortedCdps \in Seq(CdpIds)
      /\ first \in Nat /\ first <= Len(sortedCdps)
  BY DEF LedgerInv, TypeOK, ListTypeOK
<1>1. /\ g \in GlobalRecords
      /\ g.systemCollShares + g.feeRecipientCollShares
           = systemCollShares + feeRecipientCollShares
  BY <1>0, FeeStaysInThePool DEF RedeemCollateral, RedeemSynced, SyncFeeIndices
<1>2. steps \in 0 .. first
  BY <1>0, LesserIsNat
<1>3. r.ok
  BY DEF RedeemCollateral, RedeemSynced
<1>4. IsRedeemed(r, debt, steps) /\ IsKeptLoop(r, first, steps)
  BY <1>0, <1>1, <1>2, RedeemedAfterType, RedeemedAfterBooks
<1>5. /\ Cdps' = r.Cdps /\ totalStakes' = r.stakes /\ surplusCollShares' = r.surplusOf
      /\ totalSurplusCollShares' = totalSurplusCollShares + r.surplus + r.reward
      /\ collSurplusPoolShares' = collSurplusPoolShares + r.surplus + r.reward
  BY DEF RedeemCollateral, RedeemSynced
<1>6. /\ twapDebt > 0 /\ beta > 0 /\ fee < r.drawn
      /\ systemCollShares' = g.systemCollShares - r.drawn - r.surplus
      /\ feeRecipientCollShares' = g.feeRecipientCollShares + fee
      /\ activePoolShares' = activePoolShares - out
      /\ RepayDebt(redeemer, redeemed)
  BY DEF RedeemCollateral, RedeemSynced, RepayDebt
<1>7. /\ r.partly = NoCdp => sortedCdps' = left
      /\ r.partly # NoCdp => /\ \E nicr : ValidInsertPosition(rest, k, nicr, g.feeIndex)
                             /\ sortedCdps' = ListInsert(rest, k, at)
  BY DEF RedeemCollateral, RedeemSynced
<1> HIDE DEF r, g, steps
<1>8. /\ r.remaining \in 0 .. debt /\ r.drawn \in Nat
      /\ r.surplus \in Nat /\ r.reward \in Nat
      /\ r.closed \in 0 .. first /\ (r.partly # NoCdp => r.closed < first)
  <2>1. /\ r.remaining \in 0 .. debt /\ r.drawn \in Nat
        /\ r.surplus \in Nat /\ r.reward \in Nat
        /\ r.closed \in 0 .. steps /\ (r.partly # NoCdp => r.closed < steps)
    BY <1>3, <1>4 DEF IsRedeemed
  <2> QED
    BY <1>0, <1>2, <2>1
<1>9. /\ CdpsAreProper(r.Cdps) /\ r.stakes = SumOverCdps(StakesOf(r.Cdps))
      /\ SumOverUsers(r.surplusOf) = SumOverUsers(surplusCollShares) + r.surplus + r.reward
      /\ SumOverCdps(RewardsOf(r.Cdps)) = RewardsKept - r.reward
      /\ ActiveIn(r.Cdps) = ActiveIn(Cdps) \ LastVisited(first, r.closed)
  BY <1>3, <1>4 DEF IsKeptLoop
<1>10. CdpBooks(Cdps', totalStakes', sortedCdps')
  <2>1. /\ ListHolds(r.Cdps, left) /\ Len(left) = Len(sortedCdps) - r.closed
        /\ r.closed < first =>
             \A j \in 0 .. Len(left) - 1 : ListHolds(r.Cdps, ListInsert(rest, j, at))
    BY <1>8, <1>9, ListAfterRedemptionHolds
  <2>2. left \in Seq(CdpIds) /\ (r.closed < first => ListContains(left, at))
    <3>1. first - r.closed \in Nat
      BY <1>0, <1>8
    <3> QED
      BY <1>0, <1>8, LeftType
  <2> HIDE DEF left, at
  <2>3. ASSUME r.partly # NoCdp PROVE k \in 0 .. Len(left) - 1
    <3>1. Len(rest) = Len(left) - 1
      BY <2>1, <2>2, <2>3, <1>8, MembersWithout DEF ListHolds
    <3>2. k \in 0 .. Len(rest)
      BY <1>7, <2>3 DEF ValidInsertPosition
    <3> QED
      BY <3>1, <3>2
  <2>4. ListHolds(r.Cdps, sortedCdps')
    BY <1>7, <1>8, <2>1, <2>3
  <2> QED
    BY <1>5, <1>9, <2>4 DEF CdpBooks
<1>11. totalSurplusCollShares \in Nat /\ collSurplusPoolShares \in Nat
  BY <1>0 DEF TypeOK, SurplusTypeOK
<1>12. SurplusIsClaimable'
  <2>1. /\ collSurplusPoolShares >= totalSurplusCollShares
        /\ totalSurplusCollShares = SumOverUsers(surplusCollShares)
    BY DEF LedgerInv, SurplusIsClaimable
  <2>2. collSurplusPoolShares' >= totalSurplusCollShares'
    BY <1>5, <1>8, <1>11, <2>1, SMTT(30)
  <2>3. totalSurplusCollShares' = SumOverUsers(surplusCollShares')
    BY <1>5, <1>8, <1>9, <1>11, <2>1
  <2> QED
    BY <2>2, <2>3 DEF SurplusIsClaimable
<1>13. TokensKept
  <2>1. redeemed \in Nat
    BY <1>8
  <2> HIDE DEF redeemed
  <2> QED
    BY <2>1, <1>0, <1>6, BurnBalances DEF LedgerInv
<1>14. fee \in Nat
  <2>1. twapDebt \in Nat \ {0} /\ beta # 0
    BY <1>6
  <2> QED
    BY <1>0, <1>8, <2>1, RateIsNat
<1>15. PoolMargin' >= PoolMargin
  <2>1. out = r.drawn - fee + r.surplus + r.reward
    BY DEF SharesPaidOut
  <2> HIDE DEF out, fee
  <2>2. /\ activePoolShares \in Nat /\ systemCollShares \in Nat
        /\ feeRecipientCollShares \in Nat /\ RewardsKept \in Nat
    BY <1>0, MarginIsInt
  <2>3. g.systemCollShares \in Nat /\ g.feeRecipientCollShares \in Nat
    BY <1>1 DEF GlobalRecords
  <2>4. RewardsKept' = RewardsKept - r.reward
    BY <1>5, <1>9 DEF RewardsKept
  <2>5. /\ r.drawn \in Nat /\ fee \in Nat /\ r.surplus \in Nat /\ r.reward \in Nat
    BY <1>8, <1>14
  <2>6. /\ systemCollShares' = g.systemCollShares - r.drawn - r.surplus
        /\ feeRecipientCollShares' = g.feeRecipientCollShares + fee
        /\ activePoolShares' = activePoolShares - (r.drawn - fee + r.surplus + r.reward)
    BY <1>6, <2>1
  <2>7. PoolMargin' = activePoolShares' - systemCollShares' - feeRecipientCollShares' - RewardsKept'
    BY DEF PoolMargin
  <2> HIDE DEF PoolMargin
  <2>8. activePoolShares - (r.drawn - fee + r.surplus + r.reward)
          - (g.systemCollShares - r.drawn - r.surplus) - (g.feeRecipientCollShares + fee)
          - (RewardsKept - r.reward)
            = activePoolShares - systemCollShares - feeRecipientCollShares - RewardsKept
    <3>1. g.systemCollShares + g.feeRecipientCollShares
            = systemCollShares + feeRecipientCollShares
      BY <1>1
    <3> DEFINE synced == g.systemCollShares
               claim == g.feeRecipientCollShares
               drawn == r.drawn
               surplus == r.surplus
               reward == r.reward
    <3>2. /\ synced \in Nat /\ claim \in Nat /\ drawn \in Nat /\ surplus \in Nat
          /\ reward \in Nat /\ fee \in Nat
          /\ synced + claim = systemCollShares + feeRecipientCollShares
      BY <2>3, <2>5, <3>1
    <3> HIDE DEF synced, claim, drawn, surplus, reward
    <3>3. activePoolShares - (drawn - fee + surplus + reward) - (synced - drawn - surplus)
            - (claim + fee) - (RewardsKept - reward)
              = activePoolShares - systemCollShares - feeRecipientCollShares - RewardsKept
      <4> HIDE DEF RewardsKept
      <4> QED
        BY <2>2, <3>2
    <3> QED
      BY <3>3 DEF synced, claim, drawn, surplus, reward
  <2>9. PoolMargin' = activePoolShares - systemCollShares - feeRecipientCollShares - RewardsKept
    BY <2>4, <2>6, <2>7, <2>8
  <2> QED
    BY <2>2, <2>9 DEF PoolMargin
<1> QED
  BY <1>10, <1>12, <1>13, <1>15 DEF BooksKept

LEMMA RedemptionBooks ==
  ASSUME LedgerInv, RedemptionAction PROVE BooksKept
<1>1. PICK redeemer \in Users, debt \in RedemptionDebts, first \in 1 .. Len(sortedCdps),
           maxIterations \in MaxIterations, hintMatches \in BOOLEAN,
           twapDebt \in {systemDebt} \cup {Lesser(o, systemDebt) : o \in TwapObservations},
           k \in 0 .. Len(sortedCdps) - 1 :
           RedeemCollateral(redeemer, debt, first, maxIterations, hintMatches, twapDebt, k)
  BY DEF RedemptionAction
<1>2. debt \in Nat /\ maxIterations \in Nat
  BY RedemptionInputAssumption
<1>3. twapDebt \in Nat
  BY LesserIsNat, RedemptionInputAssumption DEF LedgerInv, TypeOK, PoolTypeOK
<1> QED
  BY <1>1, <1>2, <1>3, RedeemCollateralBooks

(* --- The theorems ------------------------------------------------------ *)

LEMMA StepBooks ==
  ASSUME LedgerInv, [Next]_vars PROVE BooksKept
<1>1. CASE EnvironmentAction
  <2>1. UNCHANGED protocolVars
    BY <1>1 DEF EnvironmentAction, Rebase, SetPrice, Tick
  <2> QED
    BY <2>1, EnvironmentBooks
<1>2. CASE UNCHANGED vars
  <2>1. UNCHANGED protocolVars
    BY <1>2 DEF vars, protocolVars, surplusVars
  <2> QED
    BY <2>1, EnvironmentBooks
<1> QED
  BY <1>1, <1>2, BorrowerBooks, LiquidationBooks, RedemptionBooks, GovernanceBooks,
     AccountBooks DEF Next

LEMMA InitBooks == Init => LedgerInv /\ PoolMargin >= 0
<1> SUFFICES ASSUME Init PROVE LedgerInv /\ PoolMargin >= 0
  OBVIOUS
<1>1. TypeOK /\ IndicesAreReached
  BY InitType
<1>2. \A id \in CdpIds : Cdps[id] = NoCdp
  BY DEF Init
<1>3. CdpsAreProper(Cdps)
  BY <1>1, <1>2 DEF CdpsAreProper, IsProper, NoCdp, TypeOK, CdpTypeOK
<1>4. SumOverCdps(StakesOf(Cdps)) = 0 /\ SumOverCdps(RewardsOf(Cdps)) = 0
  <2>1. \A id \in CdpIds : StakesOf(Cdps)[id] = 0 /\ RewardsOf(Cdps)[id] = 0
    BY <1>2 DEF StakesOf, RewardsOf, NoCdp
  <2> HIDE DEF StakesOf, RewardsOf
  <2> QED
    BY <2>1, CdpIdsAreFinite, SumOfZeros DEF SumOverCdps
<1>5. ListHolds(Cdps, sortedCdps)
  <2>1. sortedCdps = <<>>
    BY DEF Init
  <2>2. ActiveIn(Cdps) = {}
    BY <1>2 DEF ActiveIn, NoCdp
  <2>3. IsInjective(sortedCdps) /\ ToSet(sortedCdps) = {} /\ sortedCdps \in Seq(CdpIds)
    BY <2>1 DEF IsInjective, ToSet
  <2> QED
    BY <2>2, <2>3 DEF ListHolds
<1>6. SumOverUsers(eBTCBalance) = 0 /\ SumOverUsers(surplusCollShares) = 0
  <2>1. \A u \in Users : eBTCBalance[u] = 0 /\ surplusCollShares[u] = 0
    BY DEF Init
  <2> QED
    BY <2>1, AccountAssumption, SumOfZeros DEF SumOverUsers
<1>7. /\ totalStakes = 0 /\ eBTCSupply = 0 /\ totalSurplusCollShares = 0
      /\ collSurplusPoolShares = 0 /\ activePoolShares = 0 /\ systemCollShares = 0
      /\ feeRecipientCollShares = 0
  BY DEF Init
<1> QED
  BY <1>1, <1>3, <1>4, <1>5, <1>6, <1>7
     DEF LedgerInv, CdpBooks, SurplusIsClaimable, BalancesAddUp, PoolMargin, RewardsKept

LEMMA MarginsAreInts ==
  ASSUME TypeOK, TypeOK' PROVE PoolMargin \in Int /\ PoolMargin' \in Int
<1>1. /\ activePoolShares' \in Nat /\ systemCollShares' \in Nat
      /\ feeRecipientCollShares' \in Nat /\ Cdps' \in [CdpIds -> CdpRecords]
  BY DEF TypeOK, PoolTypeOK, CdpTypeOK
<1>2. RewardsKept' \in Nat
  BY <1>1, SumsOfCdps DEF RewardsKept
<1> QED
  BY <1>1, <1>2, MarginIsInt DEF PoolMargin

LEMMA BooksAreInvariant ==
  /\ Init => LedgerInv /\ PoolMargin >= 0
  /\ LedgerInv /\ PoolMargin >= 0 /\ [Next]_vars => LedgerInv' /\ PoolMargin' >= 0
<1>1. ASSUME LedgerInv, PoolMargin >= 0, [Next]_vars
      PROVE  LedgerInv' /\ PoolMargin' >= 0
  <2>1. TypeOK' /\ IndicesAreReached'
    BY <1>1, StepType DEF LedgerInv
  <2>2. BooksKept
    BY <1>1, StepBooks
  <2>3. LedgerInv'
    BY <2>1, <2>2 DEF LedgerInv, BooksKept, TokensKept
  <2>4. PoolMargin \in Int /\ PoolMargin' \in Int
    BY <1>1, <2>1, MarginsAreInts DEF LedgerInv
  <2>5. PoolMargin' >= PoolMargin
    BY <2>2 DEF BooksKept
  <2> QED
    BY <1>1, <2>3, <2>4, <2>5
<1> QED
  BY <1>1, InitBooks

\* What the invariant says of a state, in the words of EbtcProperties
LEMMA BooksFromLedger ==
  ASSUME LedgerInv, PoolMargin >= 0
  PROVE  /\ StakesAddUp /\ BalancesAddUp /\ DebtsReachTheMinimum /\ ListHoldsActiveCdps
         /\ ActivePoolIsSolvent /\ SurplusIsClaimable
<1>1. StakesAddUp
  BY DEF LedgerInv, CdpBooks, StakesAddUp, StakesOf
<1>2. DebtsReachTheMinimum
  BY DEF LedgerInv, CdpBooks, CdpsAreProper, IsProper, DebtsReachTheMinimum, ActiveCdps, IsActive
<1>3. ListHoldsActiveCdps
  BY DEF LedgerInv, CdpBooks, ListHolds, ListHoldsActiveCdps, ActiveIn, ActiveCdps, IsActive
<1>4. ActivePoolIsSolvent
  <2>1. /\ activePoolShares \in Nat /\ systemCollShares \in Nat
        /\ feeRecipientCollShares \in Nat /\ RewardsKept \in Nat
    BY MarginIsInt DEF LedgerInv
  <2>2. activePoolShares >= systemCollShares + feeRecipientCollShares + RewardsKept
    <3> HIDE DEF RewardsKept
    <3> QED
      BY <2>1 DEF PoolMargin
  <2> QED
    BY <2>2 DEF ActivePoolIsSolvent, RewardsKept, RewardsOf
<1> QED
  BY <1>1, <1>2, <1>3, <1>4 DEF LedgerInv

(* After every transaction the books of the contracts agree: the stakes of   *)
(* the CDPs add up to the total by which CdpManager divides fees and bad     *)
(* debt, whatever was opened, adjusted, closed, liquidated alone or in a     *)
(* batch, or redeemed; the sorted list holds exactly the active CDPs, each   *)
(* of them once; no CDP is left with dust debt; the active pool can pay the  *)
(* borrowers, the fee recipient and every liquidator's reward at once; and   *)
(* the surplus pool can pay every owner.                                     *)
THEOREM BooksTheorem == Spec => []BooksAreKept
<1> DEFINE IInv == LedgerInv /\ PoolMargin >= 0 /\ SupplyIsSystemDebt
<1>1. Init => IInv
  BY InitBooks DEF Init, SupplyIsSystemDebt
<1>2. IInv /\ [Next]_vars => IInv'
  BY BooksAreInvariant, SupplyStep
<1>3. IInv => BooksAreKept
  BY BooksFromLedger DEF BooksAreKept
<1> QED
  BY <1>1, <1>2, <1>3, PTL DEF Spec

(* Every eBTC in circulation is in the balance of some account: a mint, a    *)
(* burn and a transfer move the balances and the supply alike.               *)
THEOREM BalancesTheorem == Spec => []BalancesAddUp
<1> DEFINE IInv == LedgerInv /\ PoolMargin >= 0
<1>1. Init => IInv
  BY InitBooks
<1>2. IInv /\ [Next]_vars => IInv'
  BY BooksAreInvariant
<1>3. IInv => BalancesAddUp
  BY DEF LedgerInv
<1> QED
  BY <1>1, <1>2, <1>3, PTL DEF Spec

(* --- What a step never does -------------------------------------------- *)

LEMMA RemainsListed ==
  ASSUME BooksKept, NEW id \in CdpIds, Cdps'[id].status = "active"
  PROVE  sortedCdps' # <<>>
<1>1. ListHolds(Cdps', sortedCdps')
  BY DEF BooksKept, CdpBooks
<1>2. id \in ToSet(sortedCdps')
  BY <1>1, ListMembers
<1>3. ToSet(<<>>) = {}
  BY DEF ToSet
<1> QED
  BY <1>2, <1>3

LEMMA OneIsLeft ==
  ASSUME NEW C, NEW list, ListHolds(C, list), MoreThanOneCdp(list), NEW id, ListContains(list, id)
  PROVE  ListWithout(list, id) # <<>>
<1>1. list \in Seq(CdpIds) /\ IsInjective(list)
  BY DEF ListHolds
<1>2. Len(ListWithout(list, id)) = Len(list) - 1
  BY <1>1, MembersWithout
<1>3. Len(list) \in Nat /\ Len(list) > 1
  BY <1>1 DEF MoreThanOneCdp
<1>4. Len(ListWithout(list, id)) # 0
  BY <1>2, <1>3
<1>5. Len(<<>>) = 0
  OBVIOUS
<1> QED
  BY <1>4, <1>5

\* Why a CDP may be liquidated
HasCause(id) ==
  \/ ICR(Synced(id)) < MCR
  \/ IsRecoveryMode(SyncedTCR) /\ ICR(Synced(id)) < CCR /\ RecoveryModeGracePeriodPassed

\* A batch in the making leaves a CDP behind and has taken none without a cause;
\* as long as it counts on Recovery Mode the system has never left it.
IsJustBatch(b) ==
  b.ok => /\ sortedCdps # <<>> => b.list # <<>>
          /\ ~b.normalMode =>
               /\ IsRecoveryMode(SyncedTCR)
               /\ IsRecoveryMode(TCR(SyncedGlobal.systemCollShares - b.collToSend - b.surplus,
                                     systemDebt - b.debtToBurn))
          /\ \A i \in CdpIds : b.Cdps[i] # Cdps[i] => HasCause(i)

LEMMA TCRIsInt ==
  ASSUME TypeOK, NEW coll \in Int, NEW debt \in Int PROVE TCR(coll, debt) \in Int
<1>1. /\ ethPerShare \in Nat /\ price \in Nat /\ DECIMAL_PRECISION \in Nat \ {0}
      /\ MAX_TCR \in Int
  BY RatesArePositive, ScaleAssumption, ThresholdAssumption DEF TypeOK
<1>2. ASSUME NEW x \in Int, NEW y \in Int, NEW d \in Nat \ {0} PROVE (x * y) \div d \in Int
  <2>1. x * y \in Int
    OBVIOUS
  <2> QED
    BY <2>1
<1>3. GetPooledEthByShares(coll) \in Int
  BY <1>1, <1>2 DEF GetPooledEthByShares, PooledEth
<1>4. debt > 0 => debt \in Nat \ {0}
  OBVIOUS
<1> QED
  BY <1>1, <1>2, <1>3, <1>4 DEF TCR, ComputeCR

LEMMA CauseInRecoveryMode ==
  ASSUME TypeOK, IndicesAreReached, NEW id \in CdpIds, SyncedGlobal \in GlobalRecords,
         NEW tcr \in Int, ICR(Synced(id)) <= tcr, IsRecoveryMode(tcr)
  PROVE  ICR(Synced(id)) < CCR
<1>1. ICR(Synced(id)) \in Nat
  <2>1. Synced(id) \in CdpRecords
    BY SyncedCdpType DEF Synced, GlobalRecords
  <2> QED
    BY <2>1, ICRIsNat DEF TypeOK
<1>2. CCR \in Nat /\ tcr < CCR
  BY ThresholdAssumption DEF IsRecoveryMode
<1> QED
  BY <1>1, <1>2

LEMMA BatchStepIsJust ==
  ASSUME TypeOK, IndicesAreReached, SyncedGlobal \in GlobalRecords,
         NEW id \in CdpIds, NEW b, IsBatch(b), IsKeptBatch(b), IsJustBatch(b)
  PROVE  IsJustBatch(BatchStep(b, id, SyncedGlobal))
<1> DEFINE g == SyncedGlobal
           cdp == SyncedCdp(id, g.feeIndex)
           tcr == TCR(g.systemCollShares - b.collToSend - b.surplus, systemDebt - b.debtToBurn)
           taken == /\ b.Cdps[id].status = "active"
                    /\ \/ ICR(cdp) < MCR
                       \/ ~b.normalMode /\ CanLiquidateRecoveryMode(ICR(cdp), tcr)
           after == BatchStep(b, id, g)
<1>1. CASE ~taken
  BY <1>1 DEF BatchStep
<1>2. CASE taken
  <2> SUFFICES ASSUME after.ok
               PROVE  /\ after.list # <<>>
                      /\ ~after.normalMode =>
                           /\ IsRecoveryMode(SyncedTCR)
                           /\ IsRecoveryMode(TCR(g.systemCollShares - after.collToSend
                                                   - after.surplus,
                                                 systemDebt - after.debtToBurn))
                      /\ \A i \in CdpIds : after.Cdps[i] # Cdps[i] => HasCause(i)
    BY DEF IsJustBatch
  <2>1. /\ b.ok /\ MoreThanOneCdp(b.list) /\ ListContains(b.list, id)
        /\ after.list = ListWithout(b.list, id)
        /\ after.Cdps = [b.Cdps EXCEPT ![id] = ClosedCdp(cdp, "closedByLiquidation")]
    BY <1>2 DEF BatchStep
  <2>2. ~after.normalMode =>
          /\ ~b.normalMode
          /\ IsRecoveryMode(TCR(g.systemCollShares - after.collToSend - after.surplus,
                                systemDebt - after.debtToBurn))
    BY <1>2 DEF BatchStep, BackToNormalMode
  <2>3. /\ ~b.normalMode => IsRecoveryMode(SyncedTCR) /\ IsRecoveryMode(tcr)
        /\ \A i \in CdpIds : b.Cdps[i] # Cdps[i] => HasCause(i)
    BY <2>1 DEF IsJustBatch
  <2>4. HasCause(id)
    <3>1. CASE ICR(cdp) < MCR
      BY <3>1 DEF HasCause, Synced
    <3>2. CASE ~b.normalMode /\ CanLiquidateRecoveryMode(ICR(cdp), tcr)
      <4>1. ICR(cdp) <= tcr /\ RecoveryModeGracePeriodPassed
        BY <3>2 DEF CanLiquidateRecoveryMode
      <4>2. tcr \in Int
        <5>1. /\ g.systemCollShares \in Nat /\ systemDebt \in Nat
              /\ b.collToSend \in Nat /\ b.surplus \in Nat /\ b.debtToBurn \in Nat
          BY <2>1 DEF GlobalRecords, IsBatch, IsLiquidation, TypeOK, PoolTypeOK
        <5>2. g.systemCollShares - b.collToSend - b.surplus \in Int
              /\ systemDebt - b.debtToBurn \in Int
          BY <5>1
        <5> QED
          BY <5>2, TCRIsInt
      <4> HIDE DEF tcr
      <4>3. ICR(Synced(id)) < CCR
        BY <2>3, <3>2, <4>1, <4>2, CauseInRecoveryMode DEF Synced
      <4> QED
        BY <2>3, <3>2, <4>1, <4>3 DEF HasCause
    <3> QED
      BY <1>2, <3>1, <3>2
  <2>5. after.list # <<>>
    BY <2>1, OneIsLeft DEF IsKeptBatch, CdpBooks
  <2>6. b.Cdps \in [CdpIds -> CdpRecords]
    BY <2>1 DEF IsBatch
  <2> HIDE DEF after
  <2>7. \A i \in CdpIds : after.Cdps[i] # Cdps[i] => HasCause(i)
    BY <2>1, <2>3, <2>4, <2>6
  <2> QED
    BY <2>2, <2>3, <2>5, <2>7
<1> QED
  BY <1>1, <1>2

LEMMA BatchIsJust ==
  ASSUME LedgerInv, NEW ids \in Seq(CdpIds), SyncedGlobal \in GlobalRecords
  PROVE  IsJustBatch(BatchAfter(ids, SyncedGlobal)[Len(ids)])
<1> DEFINE g == SyncedGlobal
           after == BatchAfter(ids, g)
           N == Len(ids)
           T == {n \in 0 .. N : IsJustBatch(after[n])}
<1>0. TypeOK /\ IndicesAreReached /\ N \in Nat /\ g.systemCollShares \in Nat /\ systemDebt \in Nat
  BY DEF LedgerInv, GlobalRecords, TypeOK, PoolTypeOK
<1>1. after[0] = EmptyBatch(g)
  BY BatchAfterUnfolds
<1>2. \A n \in 0 .. N : IsBatch(after[n]) /\ IsKeptBatch(after[n])
  BY BatchAfterBooks
<1>3. ASSUME NEW n \in 1 .. N PROVE after[n] = BatchStep(after[n - 1], ids[n], g) /\ ids[n] \in CdpIds
  BY BatchAfterUnfolds
<1>4. IsJustBatch(EmptyBatch(g))
  <2> DEFINE e == EmptyBatch(g)
  <2>1. /\ e.list = sortedCdps /\ e.Cdps = Cdps
        /\ e.collToSend = 0 /\ e.surplus = 0 /\ e.debtToBurn = 0
        /\ e.normalMode = ~IsRecoveryMode(SyncedTCR)
    BY DEF EmptyBatch, SyncedTCR
  <2>2. g.systemCollShares - 0 - 0 = g.systemCollShares /\ systemDebt - 0 = systemDebt
    BY <1>0
  <2> HIDE DEF e
  <2>3. TCR(g.systemCollShares - e.collToSend - e.surplus, systemDebt - e.debtToBurn) = SyncedTCR
    BY <2>1, <2>2 DEF SyncedTCR
  <2>4. IsJustBatch(e)
    BY <2>1, <2>3 DEF IsJustBatch
  <2> QED
    BY <2>4 DEF e
<1> HIDE DEF after, N
<1>5. 0 \in T
  BY <1>0, <1>1, <1>4
<1>6. ASSUME NEW n \in 1 .. N, n - 1 \in T PROVE n \in T
  <2>1. n - 1 \in 0 .. N
    BY <1>0
  <2>2. IsBatch(after[n - 1]) /\ IsKeptBatch(after[n - 1]) /\ IsJustBatch(after[n - 1])
    BY <1>2, <1>6, <2>1
  <2> QED
    BY <1>0, <1>3, <2>2, BatchStepIsJust
<1>7. N \in T
  <2> HIDE DEF T
  <2>1. \A n \in 0 .. N : n \in T
    BY <1>0, <1>5, <1>6, IntervalInduction
  <2> QED
    BY <1>0, <2>1
<1> QED
  BY <1>7 DEF after, N

\* A redemption in the making closes a CDP only where another remains, and it
\* liquidates none.
IsJustLoop(r) ==
  r.ok => /\ r.closed > 0 => MoreThanOneCdp(sortedCdps)
          /\ \A i \in CdpIds : r.Cdps[i] # Cdps[i] => r.Cdps[i].status # "closedByLiquidation"

LEMMA RedeemStepIsJust ==
  ASSUME LedgerInv, NEW g \in GlobalRecords, NEW debt \in Nat, NEW i \in 1 .. Len(sortedCdps),
         NEW n, NEW r, IsRedeemed(r, debt, n), IsJustLoop(r), NEW hintMatches
  PROVE  IsJustLoop(RedeemFromCdp(r, sortedCdps[i], g, hintMatches))
<1> DEFINE id == sortedCdps[i]
           cdp == SyncedCdp(id, g.feeIndex)
           after == RedeemFromCdp(r, id, g, hintMatches)
           done == r.remaining = 0 \/ r.cancelled
<1>1. CASE done
  BY <1>1 DEF RedeemFromCdp
<1>2. CASE ~done
  <2> SUFFICES ASSUME after.ok
               PROVE  /\ after.closed > 0 => MoreThanOneCdp(sortedCdps)
                      /\ \A j \in CdpIds : after.Cdps[j] # Cdps[j]
                                             => after.Cdps[j].status # "closedByLiquidation"
    BY DEF IsJustLoop
  <2>1. /\ r.ok
        /\ \/ MoreThanOneCdp(sortedCdps)
           \/ after.closed = r.closed
        /\ \E new : /\ after.Cdps = [r.Cdps EXCEPT ![id] = new]
                    /\ \/ new = ClosedCdp(cdp, "closedByRedemption")
                       \/ \E coll, owed, stake : new = UpdatedCdp(cdp, coll, owed, stake)
    <3> DEFINE debtToRedeem == Lesser(r.remaining, cdp.debt)
               newDebt == cdp.debt - debtToRedeem
               newColl == cdp.coll - CollDrawn(debtToRedeem)
               isPartial == /\ hintMatches
                            /\ GetPooledEthByShares(newColl) >= MIN_NET_STETH_BALANCE
                            /\ DebtIsEnough(newDebt)
               collLeft == IF isPartial THEN newColl ELSE cdp.coll
               debtLeft == IF isPartial THEN newDebt ELSE cdp.debt
               newStake == ComputeNewStake(collLeft, g.stakesSnapshot, g.collSnapshot)
               restaked == UpdatedCdp(cdp, collLeft, debtLeft, newStake)
    <3>1. CASE newDebt = 0
      <4>1. /\ r.ok /\ MoreThanOneCdp(sortedCdps)
            /\ after.Cdps = [r.Cdps EXCEPT ![id] = ClosedCdp(cdp, "closedByRedemption")]
        BY <1>2, <3>1 DEF RedeemFromCdp
      <4> QED
        BY <4>1
    <3>2. CASE newDebt # 0
      <4>1. /\ r.ok /\ after.closed = r.closed
            /\ after.Cdps = [r.Cdps EXCEPT ![id] = restaked]
        BY <1>2, <3>2 DEF RedeemFromCdp
      <4> HIDE DEF after, collLeft, debtLeft, newStake, cdp, id
      <4>2. \E coll, owed, stake : restaked = UpdatedCdp(cdp, coll, owed, stake)
        OBVIOUS
      <4> HIDE DEF restaked
      <4> QED
        BY <4>1, <4>2
    <3> QED
      BY <3>1, <3>2
  <2>2. /\ r.Cdps \in [CdpIds -> CdpRecords]
        /\ r.closed > 0 => MoreThanOneCdp(sortedCdps)
        /\ \A j \in CdpIds : r.Cdps[j] # Cdps[j] => r.Cdps[j].status # "closedByLiquidation"
    BY <2>1 DEF IsRedeemed, IsJustLoop
  <2>3. id \in CdpIds /\ IsActive(id)
    BY PlaceFacts
  <2>4. cdp.status = "active"
    BY <2>3 DEF SyncedCdp, IsActive
  <2>5. PICK new : /\ after.Cdps = [r.Cdps EXCEPT ![id] = new]
                   /\ \/ new = ClosedCdp(cdp, "closedByRedemption")
                      \/ \E coll, owed, stake : new = UpdatedCdp(cdp, coll, owed, stake)
    BY <2>1
  <2>6. new.status # "closedByLiquidation"
    <3>1. CASE new = ClosedCdp(cdp, "closedByRedemption")
      BY <3>1 DEF ClosedCdp, NoCdp
    <3>2. CASE \E coll, owed, stake : new = UpdatedCdp(cdp, coll, owed, stake)
      BY <2>4, <3>2 DEF UpdatedCdp, SyncedCdp
    <3> QED
      BY <2>5, <3>1, <3>2
  <2> HIDE DEF after, cdp, id
  <2> QED
    BY <2>1, <2>2, <2>3, <2>5, <2>6
<1> QED
  BY <1>1, <1>2

LEMMA RedemptionIsJust ==
  ASSUME LedgerInv, NEW g \in GlobalRecords, NEW debt \in Nat,
         NEW first \in 1 .. Len(sortedCdps), NEW hintMatches
  PROVE  \A n \in 0 .. first : IsJustLoop(RedeemedAfter(debt, first, g, hintMatches)[n])
<1> DEFINE after == RedeemedAfter(debt, first, g, hintMatches)
           T == {n \in 0 .. first : IsJustLoop(after[n])}
<1>0. /\ TypeOK /\ IndicesAreReached /\ first \in Nat /\ first <= Len(sortedCdps)
      /\ Len(sortedCdps) \in Nat
  BY DEF LedgerInv, TypeOK, ListTypeOK
<1>1. IsLoop(after, debt, first, g, hintMatches)
  BY <1>0, RedeemedAfterUnfolds
<1>2. \A n \in 0 .. first : IsRedeemed(after[n], debt, n)
  BY <1>0, RedeemedAfterType
<1> HIDE DEF after
<1>3. 0 \in T
  <2>1. IsJustLoop(NothingRedeemed(debt))
    BY DEF IsJustLoop, NothingRedeemed
  <2> QED
    BY <1>0, <1>1, <2>1 DEF IsLoop
<1>4. ASSUME NEW n \in 1 .. first, n - 1 \in T PROVE n \in T
  <2>1. n - 1 \in 0 .. first /\ first - n + 1 \in 1 .. Len(sortedCdps)
    BY <1>0
  <2>2. IsRedeemed(after[n - 1], debt, n - 1) /\ IsJustLoop(after[n - 1])
    BY <1>2, <1>4, <2>1
  <2>3. after[n] = RedeemFromCdp(after[n - 1], sortedCdps[first - n + 1], g, hintMatches)
    BY <1>1 DEF IsLoop
  <2>4. IsJustLoop(after[n])
    BY <2>1, <2>2, <2>3, RedeemStepIsJust
  <2> QED
    BY <2>4
<1>5. \A n \in 0 .. first : n \in T
  <2> HIDE DEF T
  <2> QED
    BY <1>0, <1>3, <1>4, IntervalInduction
<1> QED
  BY <1>5 DEF after

\* Both promises at once, as a step keeps them
JustStep ==
  /\ sortedCdps # <<>> => sortedCdps' # <<>>
  /\ \A id \in Closed("closedByLiquidation") : HasCause(id)

LEMMA UpdateIsJust ==
  ASSUME LedgerInv, BooksKept, NEW id \in CdpIds, NEW new,
         Cdps' = [Cdps EXCEPT ![id] = new], new.status = "active"
  PROVE  JustStep
<1>1. Cdps \in [CdpIds -> CdpRecords]
  BY DEF LedgerInv, TypeOK, CdpTypeOK
<1>2. Cdps'[id] = new /\ \A i \in CdpIds : i # id => Cdps'[i] = Cdps[i]
  BY <1>1
<1>3. sortedCdps' # <<>>
  BY <1>2, RemainsListed
<1>4. Closed("closedByLiquidation") = {}
  BY <1>2 DEF Closed, Touched
<1> QED
  BY <1>3, <1>4 DEF JustStep

LEMMA BorrowerIsJust ==
  ASSUME LedgerInv, BorrowerAction PROVE JustStep
<1>0. BooksKept /\ Cdps \in [CdpIds -> CdpRecords]
  BY BorrowerBooks DEF LedgerInv, TypeOK, CdpTypeOK
<1>1. ASSUME NEW sender, NEW borrower, NEW debt, NEW stEthBalance, NEW k,
             OpenCdp(sender, borrower, debt, stEthBalance, k)
      PROVE  JustStep
  <2> DEFINE g == SyncedGlobal
             collShares == GetSharesByPooledEth(stEthBalance - LIQUIDATOR_REWARD)
             new == [status |-> "active", owner |-> borrower, coll |-> collShares,
                     debt |-> debt,
                     stake |-> ComputeNewStake(collShares, g.stakesSnapshot, g.collSnapshot),
                     liquidatorRewardShares |-> GetSharesByPooledEth(LIQUIDATOR_REWARD),
                     debtIndex |-> systemDebtRedistributionIndex, feeIndex |-> g.feeIndex]
  <2>1. Cdps' = [Cdps EXCEPT ![nextCdpNonce] = new] /\ new.status = "active"
    BY <1>1 DEF OpenCdp
  <2>2. nextCdpNonce \in CdpIds
    BY <1>1 DEF OpenCdp, CdpIds, LedgerInv, TypeOK, ListTypeOK
  <2> HIDE DEF new
  <2> QED
    BY <1>0, <2>1, <2>2, UpdateIsJust
<1>2. ASSUME NEW sender, NEW id \in CdpIds, NEW stEthIncrease, NEW stEthDecrease,
             NEW debtChange, NEW isDebtIncrease, NEW k,
             AdjustCdp(sender, id, stEthIncrease, stEthDecrease, debtChange, isDebtIncrease, k)
      PROVE  JustStep
  <2>1. PICK coll, debt, stake :
           /\ Cdps' = [Cdps EXCEPT ![id] = UpdatedCdp(SyncedCdp(id, SyncedGlobal.feeIndex),
                                                      coll, debt, stake)]
           /\ IsActive(id)
    BY <1>2 DEF AdjustCdp, AdjustSynced
  <2>2. UpdatedCdp(SyncedCdp(id, SyncedGlobal.feeIndex), coll, debt, stake).status = "active"
    BY <2>1 DEF UpdatedCdp, SyncedCdp, IsActive
  <2> QED
    BY <1>0, <2>1, <2>2, UpdateIsJust
<1>3. ASSUME NEW sender, NEW id \in CdpIds, CloseCdp(sender, id) PROVE JustStep
  <2>1. /\ MoreThanOneCdp(sortedCdps) /\ ListContains(sortedCdps, id)
        /\ sortedCdps' = ListWithout(sortedCdps, id)
        /\ Cdps' = [Cdps EXCEPT ![id] =
                      ClosedCdp(SyncedCdp(id, SyncedGlobal.feeIndex), "closedByOwner")]
    BY <1>3 DEF CloseCdp
  <2>2. sortedCdps' # <<>>
    BY <2>1, OneIsLeft DEF LedgerInv, CdpBooks
  <2>3. \A i \in CdpIds : Cdps'[i] = Cdps[i] \/ Cdps'[i].status = "closedByOwner"
    BY <1>0, <2>1 DEF ClosedCdp, NoCdp
  <2> QED
    BY <2>2, <2>3 DEF JustStep, Closed, Touched
<1>4. ASSUME UNCHANGED <<Cdps, listVars>> PROVE JustStep
  BY <1>4 DEF JustStep, Closed, Touched, listVars
<1>5. ASSUME NEW account, ClaimSurplusCollShares(account) PROVE JustStep
  BY <1>4, <1>5 DEF ClaimSurplusCollShares
<1>6. ASSUME NEW borrower, NEW manager, NEW approval,
             SetPositionManagerApproval(borrower, manager, approval)
      PROVE  JustStep
  BY <1>4, <1>6 DEF SetPositionManagerApproval
<1> QED
  BY <1>1, <1>2, <1>3, <1>5, <1>6 DEF BorrowerAction

LEMMA LiquidateIsJust ==
  ASSUME LedgerInv, NEW liquidator, NEW id \in CdpIds, Liquidate(liquidator, id)
  PROVE  JustStep
<1> DEFINE cdp == Synced(id)
<1>1. /\ Liquidatable(cdp, SyncedTCR) /\ MoreThanOneCdp(sortedCdps)
      /\ ListContains(sortedCdps, id) /\ sortedCdps' = ListWithout(sortedCdps, id)
      /\ Cdps' = [Cdps EXCEPT ![id] = ClosedCdp(cdp, "closedByLiquidation")]
      /\ SyncGlobalSucceeds
  BY DEF Liquidate, LiquidateInFull, FinalizeLiquidation, SyncFeeIndices, SyncedTCR, Synced
<1>2. sortedCdps' # <<>>
  BY <1>1, OneIsLeft DEF LedgerInv, CdpBooks
<1>3. TypeOK /\ IndicesAreReached /\ SyncedGlobal \in GlobalRecords
  BY <1>1, SyncedGlobalType DEF LedgerInv
<1>4. HasCause(id)
  <2>1. CASE ICR(cdp) < MCR
    BY <2>1 DEF HasCause
  <2>2. CASE ~(ICR(cdp) < MCR)
    <3>1. ICR(cdp) >= MCR
      <4>1. cdp \in CdpRecords
        BY <1>3, SyncedCdpType DEF Synced, GlobalRecords
      <4>2. ICR(cdp) \in Nat /\ MCR \in Nat
        BY <1>3, <4>1, ICRIsNat, ThresholdAssumption DEF TypeOK
      <4> QED
        BY <2>2, <4>2
    <3>2. /\ ICR(cdp) <= SyncedTCR /\ IsRecoveryMode(SyncedTCR)
          /\ RecoveryModeGracePeriodPassed
      BY <1>1, <2>2, <3>1 DEF Liquidatable, BelowLiqThreshold
    <3>3. SyncedTCR \in Int
      <4>1. SyncedGlobal.systemCollShares \in Int /\ systemDebt \in Int
        BY <1>3 DEF GlobalRecords, TypeOK, PoolTypeOK
      <4> QED
        BY <1>3, <4>1, TCRIsInt DEF SyncedTCR
    <3>4. ICR(cdp) < CCR
      BY <1>3, <3>2, <3>3, CauseInRecoveryMode
    <3> QED
      BY <3>2, <3>4 DEF HasCause
  <2> QED
    BY <2>1, <2>2
<1>5. \A i \in CdpIds : i # id => Cdps'[i] = Cdps[i]
  BY <1>1, <1>3 DEF TypeOK, CdpTypeOK
<1> QED
  BY <1>2, <1>4, <1>5 DEF JustStep, Closed, Touched

LEMMA LiquidationIsJust ==
  ASSUME LedgerInv, LiquidationAction PROVE JustStep
<1>0. BooksKept
  BY LiquidationBooks
<1>1. ASSUME NEW liquidator, NEW id \in CdpIds, NEW partialDebt, NEW k,
             PartiallyLiquidate(liquidator, id, partialDebt, k)
      PROVE  JustStep
  <2>1. PICK coll, debt, stake :
           /\ Cdps' = [Cdps EXCEPT ![id] = UpdatedCdp(SyncedCdp(id, SyncedGlobal.feeIndex),
                                                      coll, debt, stake)]
           /\ IsActive(id)
    BY <1>1 DEF PartiallyLiquidate, LiquidateInPart
  <2>2. UpdatedCdp(SyncedCdp(id, SyncedGlobal.feeIndex), coll, debt, stake).status = "active"
    BY <2>1 DEF UpdatedCdp, SyncedCdp, IsActive
  <2> QED
    BY <1>0, <2>1, <2>2, UpdateIsJust
<1>2. ASSUME NEW ids \in Seq(CdpIds), BatchLiquidateCdps(ids) PROVE JustStep
  <2> DEFINE b == BatchAfter(ids, SyncedGlobal)[Len(ids)]
  <2>1. b.ok /\ Cdps' = b.Cdps /\ sortedCdps' = b.list /\ SyncGlobalSucceeds
    BY <1>2 DEF BatchLiquidateCdps, FinalizeLiquidation, SyncFeeIndices
  <2>2. IsJustBatch(b)
    BY <2>1, SyncedGlobalType, BatchIsJust DEF LedgerInv
  <2> HIDE DEF b
  <2> QED
    BY <2>1, <2>2 DEF IsJustBatch, JustStep, Closed, Touched
<1> QED
  BY <1>1, <1>2, LiquidateIsJust, BatchInputType DEF LiquidationAction

LEMMA RedemptionActionIsJust ==
  ASSUME LedgerInv, RedemptionAction PROVE JustStep
<1>1. PICK redeemer \in Users, debt \in RedemptionDebts, first \in 1 .. Len(sortedCdps),
           maxIterations \in MaxIterations, hintMatches \in BOOLEAN,
           twapDebt \in {systemDebt} \cup {Lesser(o, systemDebt) : o \in TwapObservations},
           k \in 0 .. Len(sortedCdps) - 1 :
           RedeemCollateral(redeemer, debt, first, maxIterations, hintMatches, twapDebt, k)
  BY DEF RedemptionAction
<1> DEFINE g == SyncedGlobal
           steps == IF maxIterations = 0 THEN first ELSE Lesser(maxIterations, first)
           r == RedeemedAfter(debt, first, g, hintMatches)[steps]
           left == ListAfterRedemption(first, r.closed)
           at == sortedCdps[first - r.closed]
           rest == ListWithout(left, at)
<1>2. /\ r.ok /\ Cdps' = r.Cdps /\ SyncGlobalSucceeds
      /\ BatchLeavesACdp(r.closed, left)
      /\ r.partly = NoCdp => sortedCdps' = left
  BY <1>1 DEF RedeemCollateral, RedeemSynced, SyncFeeIndices
<1>3. r.partly # NoCdp => /\ k \in 0 .. Len(rest)
                          /\ sortedCdps' = ListInsert(rest, k, at)
  BY <1>1 DEF RedeemCollateral, RedeemSynced, ValidInsertPosition
<1>4. /\ debt \in Nat /\ maxIterations \in Nat /\ g \in GlobalRecords
      /\ sortedCdps \in Seq(CdpIds) /\ TypeOK /\ IndicesAreReached
      /\ first \in Nat /\ first <= Len(sortedCdps)
  BY <1>2, RedemptionInputAssumption, SyncedGlobalType DEF LedgerInv, TypeOK, ListTypeOK
<1>5. steps \in 0 .. first
  BY <1>4, LesserIsNat
<1>6. IsJustLoop(r) /\ IsRedeemed(r, debt, steps) /\ IsKeptLoop(r, first, steps)
  BY <1>4, <1>5, RedemptionIsJust, RedeemedAfterType, RedeemedAfterBooks
<1> HIDE DEF r, g, steps
<1>7. /\ r.closed \in 0 .. first /\ (r.partly # NoCdp => r.closed < first)
  <2>1. r.closed \in 0 .. steps /\ (r.partly # NoCdp => r.closed < steps)
    BY <1>2, <1>6 DEF IsRedeemed
  <2> QED
    BY <1>4, <1>5, <2>1
<1>8. ListHolds(r.Cdps, left) /\ Len(left) = Len(sortedCdps) - r.closed
      /\ left \in Seq(CdpIds) /\ (r.closed < first => ListContains(left, at))
  <2>1. ActiveIn(r.Cdps) = ActiveIn(Cdps) \ LastVisited(first, r.closed)
    BY <1>2, <1>6 DEF IsKeptLoop
  <2>2. ListHolds(r.Cdps, left) /\ Len(left) = Len(sortedCdps) - r.closed
    BY <1>7, <2>1, ListAfterRedemptionHolds
  <2>3. first - r.closed \in Nat
    BY <1>4, <1>7
  <2> QED
    BY <1>4, <1>7, <2>2, <2>3, LeftType
<1> HIDE DEF left, at
<1>9. ASSUME sortedCdps # <<>> PROVE sortedCdps' # <<>>
  <2>0. BooksKept
    BY RedemptionBooks
  <2>1. CASE r.partly = NoCdp /\ r.closed > 1
    BY <1>2, <2>1 DEF BatchLeavesACdp
  <2>2. CASE r.partly = NoCdp /\ ~(r.closed > 1)
    <3>1. r.closed \in 0 .. 1 /\ (r.closed = 1 => Len(sortedCdps) > 1)
      BY <1>2, <1>6, <1>7, <2>2 DEF IsJustLoop, MoreThanOneCdp
    <3>2. Len(sortedCdps) \in Nat /\ Len(sortedCdps) >= first /\ first \in 1 .. Len(sortedCdps)
      BY <1>4
    <3>3. Len(left) # 0
      BY <1>8, <3>1, <3>2
    <3>4. Len(<<>>) = 0
      OBVIOUS
    <3> QED
      BY <1>2, <2>2, <3>3, <3>4
  <2>3. CASE r.partly # NoCdp
    <3>1. sortedCdps' = ListInsert(rest, k, at) /\ k \in 0 .. Len(rest)
      BY <1>3, <2>3
    <3>2. left \in Seq(CdpIds) /\ IsInjective(left) /\ ListContains(left, at)
      BY <1>7, <1>8, <2>3 DEF ListHolds
    <3>3. at \in CdpIds
      BY <3>2 DEF ListContains
    <3>4. /\ rest \in Seq(CdpIds) /\ IsInjective(rest) /\ ToSet(rest) = ToSet(left) \ {at}
      BY <3>2, MembersWithout, WithoutType
    <3> HIDE DEF rest
    <3>5. at \in ToSet(sortedCdps')
      BY <3>1, <3>3, <3>4, MembersInserted
    <3>6. ToSet(<<>>) = {}
      BY DEF ToSet
    <3> QED
      BY <3>5, <3>6
  <2> QED
    BY <2>1, <2>2, <2>3
<1>10. \A i \in CdpIds : Cdps'[i] # Cdps[i] => Cdps'[i].status # "closedByLiquidation"
  BY <1>2, <1>6 DEF IsJustLoop
<1> QED
  BY <1>9, <1>10 DEF JustStep, Closed, Touched

LEMMA StepIsJust ==
  ASSUME LedgerInv, [Next]_vars PROVE JustStep
<1>1. ASSUME UNCHANGED <<Cdps, listVars>> PROVE JustStep
  BY <1>1 DEF JustStep, Closed, Touched, listVars
<1>2. CASE GovernanceAction
  <2>1. SyncBeforeSetting
    BY <1>2 DEF GovernanceAction, SetStakingRewardSplit, SetGracePeriod, SetRedemptionFeeFloor,
                SetMinuteDecayFactor, SetBeta, SetRedemptionsPaused
  <2> QED
    BY <1>1, <2>1 DEF SyncBeforeSetting
<1>3. CASE AccountAction
  <2>1. UNCHANGED <<Cdps, listVars>>
    BY <1>3 DEF AccountAction, Transfer, ClaimFeeRecipientCollShares, Sync, SyncBeforeSetting
  <2> QED
    BY <1>1, <2>1
<1>4. CASE EnvironmentAction \/ UNCHANGED vars
  <2>1. UNCHANGED <<Cdps, listVars>>
    BY <1>4 DEF EnvironmentAction, Rebase, SetPrice, Tick, protocolVars, vars
  <2> QED
    BY <1>1, <2>1
<1> QED
  BY <1>2, <1>3, <1>4, BorrowerIsJust, LiquidationIsJust, RedemptionActionIsJust DEF Next

(* Once a CDP was opened there is always one: closeCdp, a liquidation, every *)
(* step of a batch and every close of a redemption leave another behind, and *)
(* so does the batchRemove at the end of a redemption.                       *)
THEOREM NeverEmptyTheorem == Spec => NeverEmptiedAgain
<1> DEFINE IInv == LedgerInv /\ PoolMargin >= 0
<1>1. Init => IInv
  BY InitBooks
<1>2. IInv /\ [Next]_vars => IInv'
  BY BooksAreInvariant
<1>3. IInv /\ [Next]_vars => [sortedCdps # <<>> => sortedCdps' # <<>>]_vars
  BY StepIsJust DEF JustStep
<1> QED
  BY <1>1, <1>2, <1>3, PTL DEF Spec, NeverEmptiedAgain

(* A CDP is liquidated only below MCR, or below CCR while the system is in   *)
(* Recovery Mode and the grace period has passed: alone or anywhere in a     *)
(* batch, whose loop carries the mode and the ratio from one CDP to the next *)
(* without reading the storage again.                                        *)
THEOREM CauseTheorem == Spec => LiquidationNeedsCause
<1> DEFINE IInv == LedgerInv /\ PoolMargin >= 0
           Caused == \A id \in Closed("closedByLiquidation") :
                       \/ ICR(Synced(id)) < MCR
                       \/ /\ IsRecoveryMode(SyncedTCR) /\ ICR(Synced(id)) < CCR
                          /\ RecoveryModeGracePeriodPassed
<1>1. Init => IInv
  BY InitBooks
<1>2. IInv /\ [Next]_vars => IInv'
  BY BooksAreInvariant
<1>3. IInv /\ [Next]_vars => [Caused]_vars
  BY StepIsJust DEF JustStep, HasCause
<1> QED
  BY <1>1, <1>2, <1>3, PTL DEF Spec, LiquidationNeedsCause

(* --- Flash loans ------------------------------------------------------- *)

\* A sum over the places of a sequence, as a value is added at its end
LEMMA SumUpToLast ==
  ASSUME NEW n \in Nat, NEW f, NEW g, NEW v \in Int,
         \A i \in 1 .. n : f[i] \in Int /\ g[i] = f[i], g[n + 1] = v
  PROVE  /\ SumFunctionOnSet(f, 1 .. n) \in Int
         /\ SumFunctionOnSet(g, 1 .. n + 1) = SumFunctionOnSet(f, 1 .. n) + v
<1> DEFINE S == 1 .. n + 1
<1>1. IsFiniteSet(S) /\ IsFiniteSet(1 .. n)
  BY FS_Interval
<1>2. /\ n + 1 \in S /\ S \ {n + 1} = 1 .. n
      /\ \A i \in S : i \in 1 .. n \/ i = n + 1
  OBVIOUS
<1>3. \A i \in S : g[i] \in Int
  BY <1>2
<1> HIDE DEF S
<1>4. SumFunctionOnSet(f, 1 .. n) \in Int
  BY <1>1, SumIsInt
<1>5. SumFunctionOnSet(g, S) = g[n + 1] + SumFunctionOnSet(g, S \ {n + 1})
  BY <1>1, <1>2, <1>3, SumWithout
<1>6. SumFunctionOnSet(g, 1 .. n) = SumFunctionOnSet(f, 1 .. n)
  BY <1>1, SumsAgree
<1>7. SumFunctionOnSet(g, S) = SumFunctionOnSet(f, 1 .. n) + v
  <2> DEFINE sum == SumFunctionOnSet(f, 1 .. n)
  <2>1. sum \in Int /\ SumFunctionOnSet(g, S) = v + sum
    BY <1>2, <1>4, <1>5, <1>6
  <2> HIDE DEF sum
  <2>2. v + sum = sum + v
    BY <2>1
  <2> QED
    BY <2>1, <2>2 DEF sum
<1> QED
  BY <1>4, <1>7 DEF S

EbtcOn(stack) == [i \in DOMAIN stack |-> EbtcOf(stack[i])]
SharesOn(stack) == [i \in DOMAIN stack |-> SharesLentOn(stack[i])]

EbtcLentIn(stack) == SumFunctionOnSet(EbtcOn(stack), DOMAIN stack)
SharesLentIn(stack) == SumFunctionOnSet(SharesOn(stack), DOMAIN stack)

LEMMA LoanFields ==
  ASSUME NEW loan \in Loans
  PROVE  /\ loan.lender \in Lenders /\ loan.receiver \in Users
         /\ loan.amount \in Nat /\ loan.fee \in Nat /\ loan.oldRate \in Nat \ {0}
         /\ EbtcOf(loan) \in Nat /\ SharesLentOn(loan) \in Nat
<1>1. /\ loan.lender \in Lenders /\ loan.receiver \in Users
      /\ loan.amount \in Nat /\ loan.fee \in Nat /\ loan.oldRate \in Nat \ {0}
  BY InputAssumption DEF Loans
<1>2. SharesOf(loan.amount, loan.oldRate) \in Nat
  BY <1>1, SharesIsNat
<1> QED
  BY <1>1, <1>2 DEF EbtcOf, SharesLentOn

LEMMA LoanAdded ==
  ASSUME NEW stack \in Seq(Loans), NEW loan \in Loans
  PROVE  /\ Append(stack, loan) \in Seq(Loans)
         /\ EbtcLentIn(stack) \in Int /\ SharesLentIn(stack) \in Int
         /\ EbtcLentIn(Append(stack, loan)) = EbtcLentIn(stack) + EbtcOf(loan)
         /\ SharesLentIn(Append(stack, loan)) = SharesLentIn(stack) + SharesLentOn(loan)
<1> DEFINE after == Append(stack, loan)
           n == Len(stack)
<1>1. /\ n \in Nat /\ DOMAIN stack = 1 .. n /\ DOMAIN after = 1 .. n + 1
      /\ \A i \in 1 .. n : stack[i] \in Loans /\ after[i] = stack[i]
      /\ after[n + 1] = loan /\ after \in Seq(Loans)
  OBVIOUS
<1>2. EbtcOf(loan) \in Int /\ SharesLentOn(loan) \in Int
  BY LoanFields
<1>3. \A i \in 1 .. n : EbtcOf(stack[i]) \in Int /\ SharesLentOn(stack[i]) \in Int
  BY <1>1, LoanFields
<1> HIDE DEF after, n
<1>4. n + 1 \in 1 .. n + 1 /\ \A i \in 1 .. n : i \in 1 .. n + 1
  BY <1>1
<1> DEFINE f == EbtcOn(stack)
           g == EbtcOn(after)
           p == SharesOn(stack)
           q == SharesOn(after)
<1>5. /\ \A i \in 1 .. n : f[i] \in Int /\ g[i] = f[i]
      /\ g[n + 1] = EbtcOf(loan)
  BY <1>1, <1>3, <1>4 DEF EbtcOn
<1>6. /\ \A i \in 1 .. n : p[i] \in Int /\ q[i] = p[i]
      /\ q[n + 1] = SharesLentOn(loan)
  BY <1>1, <1>3, <1>4 DEF SharesOn
<1> HIDE DEF f, g, p, q
<1>7. /\ SumFunctionOnSet(f, 1 .. n) \in Int
      /\ SumFunctionOnSet(g, 1 .. n + 1) = SumFunctionOnSet(f, 1 .. n) + EbtcOf(loan)
  BY <1>1, <1>2, <1>5, SumUpToLast, SMTT(30)
<1>8. /\ SumFunctionOnSet(p, 1 .. n) \in Int
      /\ SumFunctionOnSet(q, 1 .. n + 1) = SumFunctionOnSet(p, 1 .. n) + SharesLentOn(loan)
  BY <1>1, <1>2, <1>6, SumUpToLast
<1> QED
  BY <1>1, <1>7, <1>8 DEF f, g, p, q, after, EbtcLentIn, SharesLentIn

LEMMA PrefixFacts ==
  ASSUME NEW S, NEW list \in Seq(S), NEW a \in Nat, a <= Len(list)
  PROVE  /\ SubSeq(list, 1, a) \in Seq(S) /\ Len(SubSeq(list, 1, a)) = a
         /\ \A i \in 1 .. a : SubSeq(list, 1, a)[i] = list[i]
  OBVIOUS

\* The innermost loan is on top of the others.
LEMMA LoanOnTop ==
  ASSUME NEW stack \in Seq(Loans), stack # <<>>
  PROVE  /\ Front(stack) \in Seq(Loans) /\ Last(stack) \in Loans
         /\ stack = Append(Front(stack), Last(stack))
<1>1. /\ Len(stack) \in Nat \ {0} /\ Last(stack) = stack[Len(stack)]
      /\ Front(stack) = SubSeq(stack, 1, Len(stack) - 1)
  BY DEF Last, Front
<1>2. Last(stack) \in Loans
  BY <1>1
<1>3. Len(stack) - 1 \in 0 .. Len(stack)
  BY <1>1
<1> DEFINE m == Len(stack) - 1
           front == SubSeq(stack, 1, m)
<1>4. /\ front \in Seq(Loans) /\ Len(front) = m /\ \A i \in 1 .. m : front[i] = stack[i]
  <2>1. m \in Nat /\ m <= Len(stack)
    BY <1>1
  <2> HIDE DEF m
  <2> QED
    BY <2>1, PrefixFacts
<1>5. m \in Nat /\ m + 1 = Len(stack)
  BY <1>1
<1> HIDE DEF front, m
<1> DEFINE top == Append(front, Last(stack))
<1>6. /\ top \in Seq(Loans) /\ Len(top) = m + 1
      /\ \A i \in 1 .. m : top[i] = front[i]
      /\ top[m + 1] = Last(stack)
  BY <1>2, <1>4, <1>5
<1> HIDE DEF top
<1>7. \A i \in 1 .. Len(stack) : i \in 1 .. m \/ i = m + 1
  BY <1>5
<1>8. \A i \in 1 .. Len(stack) : top[i] = stack[i]
  BY <1>1, <1>4, <1>5, <1>6, <1>7
<1>9. top = stack
  BY <1>5, <1>6, <1>8, SeqEqual
<1> QED
  BY <1>1, <1>2, <1>4, <1>9 DEF front, m, top

LEMMA LentInCalls == EbtcLent = EbtcLentIn(calls) /\ SharesLent = SharesLentIn(calls)
  BY DEF EbtcLent, SharesLent, EbtcLentIn, SharesLentIn, EbtcOn, SharesOn

LEMMA LentAfterCalls == EbtcLent' = EbtcLentIn(calls') /\ SharesLent' = SharesLentIn(calls')
  BY DEF EbtcLent, SharesLent, EbtcLentIn, SharesLentIn, EbtcOn, SharesOn

LEMMA CallsGrow ==
  ASSUME calls \in Seq(Loans), NEW loan \in Loans, calls' = Append(calls, loan)
  PROVE  /\ calls' \in Seq(Loans) /\ EbtcLent \in Int /\ SharesLent \in Int
         /\ EbtcLent' = EbtcLent + EbtcOf(loan)
         /\ SharesLent' = SharesLent + SharesLentOn(loan)
  BY LoanAdded, LentInCalls, LentAfterCalls

LEMMA CallsShrink ==
  ASSUME calls \in Seq(Loans), calls # <<>>, calls' = Front(calls)
  PROVE  /\ calls' \in Seq(Loans) /\ Last(calls) \in Loans
         /\ EbtcLent' \in Int /\ SharesLent' \in Int
         /\ EbtcLent = EbtcLent' + EbtcOf(Last(calls))
         /\ SharesLent = SharesLent' + SharesLentOn(Last(calls))
<1> DEFINE stack == calls'
<1>1. stack \in Seq(Loans) /\ Last(calls) \in Loans /\ calls = Append(stack, Last(calls))
  BY LoanOnTop
<1>2. /\ EbtcLent = EbtcLentIn(calls) /\ SharesLent = SharesLentIn(calls)
      /\ EbtcLent' = EbtcLentIn(stack) /\ SharesLent' = SharesLentIn(stack)
  BY LentInCalls, LentAfterCalls
<1> DEFINE top == Last(calls)
<1> HIDE DEF stack, top
<1>3. stack \in Seq(Loans) /\ top \in Loans /\ calls = Append(stack, top)
  BY <1>1 DEF top
<1>4. /\ EbtcLentIn(stack) \in Int /\ SharesLentIn(stack) \in Int
      /\ EbtcLentIn(calls) = EbtcLentIn(stack) + EbtcOf(top)
      /\ SharesLentIn(calls) = SharesLentIn(stack) + SharesLentOn(top)
  BY <1>3, LoanAdded
<1> QED
  BY <1>1, <1>2, <1>4 DEF top, stack

LEMMA LentIsInt ==
  ASSUME calls \in Seq(Loans) PROVE EbtcLent \in Int /\ SharesLent \in Int
<1>1. DOMAIN calls = 1 .. Len(calls) /\ Len(calls) \in Nat
      /\ \A i \in DOMAIN calls : calls[i] \in Loans
  OBVIOUS
<1>2. IsFiniteSet(DOMAIN calls)
  BY <1>1, FS_Interval
<1> DEFINE f == EbtcOn(calls)
           p == SharesOn(calls)
<1>3. \A i \in DOMAIN calls : f[i] \in Int /\ p[i] \in Int
  BY <1>1, LoanFields DEF EbtcOn, SharesOn
<1> HIDE DEF f, p
<1>4. SumFunctionOnSet(f, DOMAIN calls) \in Int /\ SumFunctionOnSet(p, DOMAIN calls) \in Int
  BY <1>2, <1>3, SumIsInt
<1> QED
  BY <1>4, LentInCalls DEF f, p, EbtcLentIn, SharesLentIn

\* The ledger, and what the open loans are to bring back to it
FlashInv ==
  /\ LedgerInv /\ FlashTypeOK
  /\ eBTCSupply - systemDebt = EbtcLent
  /\ PoolMargin >= -SharesLent

\* A step of the protocol, in a transaction of its own or in a callback
LEMMA LoansUntouched ==
  ASSUME FlashInv, TypeOK', IndicesAreReached', BooksKept, UNCHANGED calls,
         feeBps' \in [Lenders -> 0 .. MAX_FEE_BPS], flashLoansPaused' \in [Lenders -> BOOLEAN]
  PROVE  FlashInv'
<1>1. LedgerInv'
  BY DEF LedgerInv, BooksKept, TokensKept
<1>2. FlashTypeOK'
  BY DEF FlashInv, FlashTypeOK
<1>0. EbtcLent \in Int /\ SharesLent \in Int
  BY LentIsInt DEF FlashInv, FlashTypeOK
<1>3. EbtcLent' = EbtcLent /\ SharesLent' = SharesLent
  BY DEF EbtcLent, SharesLent
<1>4. eBTCSupply' - systemDebt' = EbtcLent'
  <2>1. /\ eBTCSupply' - systemDebt' = eBTCSupply - systemDebt
        /\ eBTCSupply - systemDebt = EbtcLent
    BY DEF BooksKept, TokensKept, FlashInv
  <2> QED
    BY <1>3, <2>1
<1>5. PoolMargin' >= -SharesLent'
  <2>1. PoolMargin \in Int /\ PoolMargin' \in Int
    BY MarginsAreInts DEF FlashInv, LedgerInv
  <2>2. PoolMargin' >= PoolMargin /\ PoolMargin >= -SharesLent
    BY DEF BooksKept, FlashInv
  <2> QED
    BY <1>0, <1>3, <2>1, <2>2
<1> QED
  BY <1>1, <1>2, <1>4, <1>5 DEF FlashInv

LEMMA ProtocolStepInFlash ==
  ASSUME FlashInv, [Next]_vars, UNCHANGED flashVars PROVE FlashInv'
<1>1. LedgerInv /\ TypeOK /\ IndicesAreReached
  BY DEF FlashInv, LedgerInv
<1>2. TypeOK' /\ IndicesAreReached' /\ BooksKept
  BY <1>1, StepType, StepBooks
<1>3. /\ feeBps' \in [Lenders -> 0 .. MAX_FEE_BPS]
      /\ flashLoansPaused' \in [Lenders -> BOOLEAN] /\ calls' = calls
  BY DEF FlashInv, FlashTypeOK, flashVars, lenderVars
<1> QED
  BY <1>2, <1>3, LoansUntouched

\* A lender syncs, as CdpManager does before it sets a parameter; the grace
\* period is ActivePool's alone.
LEMMA LenderSync ==
  ASSUME FlashInv, NEW lender \in Lenders, SyncOf(lender), UNCHANGED <<governanceVars, baseRateVars>>
  PROVE  TypeOK' /\ IndicesAreReached' /\ BooksKept
<1>0. LedgerInv /\ TypeOK /\ IndicesAreReached
  BY DEF FlashInv, LedgerInv
<1>1. CASE lender = "ActivePool"
  <2>1. Next
    BY <1>1 DEF SyncOf, Next, AccountAction, Sync
  <2> QED
    BY <1>0, <2>1, StepType, StepBooks
<1>2. CASE lender # "ActivePool"
  <2> DEFINE g == SyncedGlobal
  <2>1. /\ SyncFeeIndices(g)
        /\ totalStakesSnapshot' = g.stakesSnapshot
        /\ totalCollateralSnapshot' = g.collSnapshot
        /\ systemCollShares' = g.systemCollShares
        /\ feeRecipientCollShares' = g.feeRecipientCollShares
        /\ UNCHANGED <<Cdps, totalStakes, redistributionVars, listVars, systemDebt,
                       surplusVars, tokenVars, positionManagers, activePoolShares, envVars,
                       lastGracePeriodStartTimestamp>>
    BY <1>2 DEF SyncOf
  <2>2. FeeIndexTypeOK' /\ g \in GlobalRecords
    BY <1>0, <2>1, SyncFeeIndicesType
  <2>3. /\ g.stakesSnapshot \in Nat /\ g.collSnapshot \in Nat /\ g.systemCollShares \in Nat
        /\ g.feeRecipientCollShares \in Nat
    BY <2>2 DEF GlobalRecords
  <2> HIDE DEF g
  <2>4. StakeTypeOK' /\ PoolTypeOK' /\ GraceTypeOK'
    BY <1>0, <2>1, <2>3 DEF TypeOK, StakeTypeOK, PoolTypeOK, GraceTypeOK
  <2>5. CdpTypeOK' /\ IndicesAreReached' /\ RedistributionTypeOK'
    BY <1>0, <2>1 DEF TypeOK, CdpTypeOK, IndicesAreReached, RedistributionTypeOK,
                      redistributionVars
  <2>6. ListTypeOK' /\ SurplusTypeOK' /\ TokenTypeOK' /\ ApprovalTypeOK' /\ EnvTypeOK'
    BY <1>0, <2>1 DEF TypeOK, ListTypeOK, SurplusTypeOK, TokenTypeOK, ApprovalTypeOK, EnvTypeOK,
                      listVars, surplusVars, tokenVars, envVars
  <2>7. GovernanceTypeOK' /\ BaseRateTypeOK'
    BY <1>0 DEF TypeOK, GovernanceTypeOK, BaseRateTypeOK, governanceVars, baseRateVars
  <2>8. TypeOK' /\ IndicesAreReached'
    BY <2>2, <2>4, <2>5, <2>6, <2>7 DEF TypeOK
  <2>9. BooksKept
    <3>1. activePoolShares \in Nat
      BY <1>0, MarginIsInt
    <3>2. /\ feeRecipientCollShares' = g.feeRecipientCollShares - 0
          /\ activePoolShares' = activePoolShares - 0
      BY <2>1, <2>3, <3>1
    <3>3. /\ SyncFeeIndices(SyncedGlobal) /\ systemCollShares' = SyncedGlobal.systemCollShares
          /\ feeRecipientCollShares' = SyncedGlobal.feeRecipientCollShares - 0
          /\ UNCHANGED <<Cdps, totalStakes, sortedCdps, systemDebt, surplusVars, tokenVars>>
      BY <2>1, <3>2 DEF g, listVars
    <3> QED
      BY <1>0, <3>2, <3>3, SyncedBooks
  <2> QED
    BY <2>8, <2>9
<1> QED
  BY <1>1, <1>2

LEMMA LenderGovernanceInFlash ==
  ASSUME FlashInv, LenderGovernance PROVE FlashInv'
<1>0. /\ feeBps \in [Lenders -> 0 .. MAX_FEE_BPS] /\ flashLoansPaused \in [Lenders -> BOOLEAN]
      /\ MAX_FEE_BPS \in Nat
  BY FlashLoanAssumption DEF FlashInv, FlashTypeOK
<1>1. ASSUME NEW lender \in Lenders, NEW newFee \in FlashFees, SetFeeBps(lender, newFee)
      PROVE  FlashInv'
  <2>1. newFee \in 0 .. MAX_FEE_BPS
    BY <1>0, <1>1, FlashLoanAssumption DEF SetFeeBps
  <2>2. /\ feeBps' \in [Lenders -> 0 .. MAX_FEE_BPS]
        /\ flashLoansPaused' \in [Lenders -> BOOLEAN] /\ UNCHANGED calls
    BY <1>0, <1>1, <2>1 DEF SetFeeBps
  <2> QED
    BY <1>1, <2>2, LenderSync, LoansUntouched DEF SetFeeBps
<1>2. ASSUME NEW lender \in Lenders, NEW paused \in BOOLEAN, SetFlashLoansPaused(lender, paused)
      PROVE  FlashInv'
  <2>1. /\ feeBps' \in [Lenders -> 0 .. MAX_FEE_BPS]
        /\ flashLoansPaused' \in [Lenders -> BOOLEAN] /\ UNCHANGED calls
    BY <1>0, <1>2 DEF SetFlashLoansPaused
  <2> QED
    BY <1>2, <2>1, LenderSync, LoansUntouched DEF SetFlashLoansPaused
<1> QED
  BY <1>1, <1>2 DEF LenderGovernance

\* The two halves of a loan move the balances or the pool, and nothing else.
LEMMA LoanLedger ==
  ASSUME FlashInv, UNCHANGED <<accountingVars, lenderVars>>, TokenTypeOK',
         activePoolShares' \in Nat, BalancesAddUp', calls' \in Seq(Loans)
  PROVE  /\ LedgerInv' /\ FlashTypeOK' /\ systemDebt' = systemDebt
         /\ systemDebt \in Nat /\ eBTCSupply \in Nat /\ activePoolShares \in Nat
         /\ PoolMargin \in Int
         /\ \A change \in Int : activePoolShares' = activePoolShares + change
                                  => PoolMargin' = PoolMargin + change
<1>0. LedgerInv /\ TypeOK /\ IndicesAreReached
  BY DEF FlashInv, LedgerInv
<1>1. CdpTypeOK' /\ IndicesAreReached' /\ RedistributionTypeOK'
  BY <1>0 DEF accountingVars, TypeOK, CdpTypeOK, IndicesAreReached, RedistributionTypeOK,
              redistributionVars
<1>2. /\ StakeTypeOK' /\ FeeIndexTypeOK' /\ GraceTypeOK' /\ ListTypeOK' /\ PoolTypeOK'
      /\ SurplusTypeOK' /\ ApprovalTypeOK' /\ EnvTypeOK'
  BY <1>0 DEF accountingVars, TypeOK, StakeTypeOK, FeeIndexTypeOK, GraceTypeOK, ListTypeOK,
              PoolTypeOK, SurplusTypeOK, ApprovalTypeOK, EnvTypeOK, stakeVars, feeIndexVars,
              listVars, poolVars, surplusVars, envVars
<1>3. GovernanceTypeOK' /\ BaseRateTypeOK'
  BY <1>0 DEF accountingVars, TypeOK, GovernanceTypeOK, BaseRateTypeOK, governanceVars,
              baseRateVars
<1>4. TypeOK'
  BY <1>1, <1>2, <1>3 DEF TypeOK
<1>5. /\ UNCHANGED <<Cdps, totalStakes, sortedCdps, surplusVars>>
      /\ UNCHANGED <<systemDebt, systemCollShares, feeRecipientCollShares>>
  BY DEF accountingVars, stakeVars, listVars, poolVars
<1>6. LedgerInv'
  BY <1>0, <1>1, <1>4, <1>5, SurplusUntouched DEF LedgerInv
<1>7. FlashTypeOK'
  BY <1>4 DEF FlashInv, FlashTypeOK, lenderVars
<1>8. /\ activePoolShares \in Nat /\ systemCollShares \in Nat
      /\ feeRecipientCollShares \in Nat /\ RewardsKept \in Nat
  BY <1>0, MarginIsInt
<1>9. RewardsKept' = RewardsKept
  BY <1>5 DEF RewardsKept
<1>10. PoolMargin \in Int
  BY <1>8 DEF PoolMargin
<1>11. ASSUME NEW change \in Int, activePoolShares' = activePoolShares + change
       PROVE  PoolMargin' = PoolMargin + change
  <2>1. PoolMargin' = activePoolShares' - systemCollShares - feeRecipientCollShares - RewardsKept
    BY <1>5, <1>9 DEF PoolMargin
  <2> QED
    BY <1>8, <1>11, <2>1 DEF PoolMargin
<1> QED
  BY <1>0, <1>5, <1>6, <1>7, <1>8, <1>10, <1>11 DEF TypeOK, PoolTypeOK, TokenTypeOK

LEMMA FeeOfLoanIsNat ==
  ASSUME FlashTypeOK, NEW lender \in Lenders, NEW amount \in Nat
  PROVE  FlashFee(lender, amount) \in Nat
<1>1. feeBps[lender] \in Nat /\ MAX_BPS \in Nat \ {0}
  BY FlashLoanAssumption DEF FlashTypeOK
<1>2. amount * feeBps[lender] \in Nat
  BY <1>1, ProductIsNat
<1> QED
  BY <1>1, <1>2, DivIsNat DEF FlashFee

LEMMA CalledFacts ==
  ASSUME FlashInv, NEW lender \in Lenders, NEW receiver \in Users, NEW amount \in Nat,
         Called(lender, receiver, amount)
  PROVE  /\ calls' \in Seq(Loans)
         /\ EbtcLent \in Int /\ SharesLent \in Int
         /\ lender = "BorrowerOperations" => /\ EbtcLent' = EbtcLent + amount
                                             /\ SharesLent' = SharesLent
         /\ lender = "ActivePool" => /\ EbtcLent' = EbtcLent
                                     /\ SharesLent' = SharesLent + GetSharesByPooledEth(amount)
<1> DEFINE loan == [lender |-> lender, receiver |-> receiver, amount |-> amount,
                    fee |-> FlashFee(lender, amount), oldRate |-> ethPerShare]
<1>1. calls \in Seq(Loans) /\ FlashTypeOK /\ ethPerShare \in EthPerShares
  BY DEF FlashInv, FlashTypeOK, TypeOK, EnvTypeOK
<1>2. loan \in Loans
  BY <1>1, FeeOfLoanIsNat DEF Loans
<1>3. /\ loan.lender = lender /\ loan.amount = amount /\ loan.oldRate = ethPerShare
      /\ calls' = Append(calls, loan)
  BY DEF Called
<1> HIDE DEF loan
<1>4. /\ calls' \in Seq(Loans) /\ EbtcLent \in Int /\ SharesLent \in Int
      /\ EbtcLent' = EbtcLent + EbtcOf(loan)
      /\ SharesLent' = SharesLent + SharesLentOn(loan)
  BY <1>1, <1>2, <1>3, CallsGrow
<1>5. CASE lender = "BorrowerOperations"
  <2>1. EbtcOf(loan) = amount /\ SharesLentOn(loan) = 0
    BY <1>3, <1>5 DEF EbtcOf, SharesLentOn
  <2> QED
    BY <1>4, <1>5, <2>1
<1>6. CASE lender = "ActivePool"
  <2>1. EbtcOf(loan) = 0 /\ SharesLentOn(loan) = GetSharesByPooledEth(amount)
    BY <1>3, <1>6 DEF EbtcOf, SharesLentOn, GetSharesByPooledEth
  <2> QED
    BY <1>4, <1>6, <2>1
<1> QED
  BY <1>4, <1>5, <1>6 DEF Lenders

LEMMA EbtcLoanInFlash ==
  ASSUME FlashInv, NEW receiver \in Users, NEW amount \in Nat, EbtcFlashLoan(receiver, amount)
  PROVE  FlashInv'
<1>0. TypeOK /\ BalancesAddUp
  BY DEF FlashInv, LedgerInv
<1>1. /\ Mint(receiver, amount) /\ Called("BorrowerOperations", receiver, amount)
      /\ UNCHANGED <<accountingVars, lenderVars>> /\ activePoolShares' = activePoolShares
  BY DEF EbtcFlashLoan
<1>2. /\ calls' \in Seq(Loans) /\ EbtcLent \in Int /\ SharesLent \in Int
      /\ EbtcLent' = EbtcLent + amount /\ SharesLent' = SharesLent
  BY <1>1, CalledFacts DEF Lenders
<1>3. TokenTypeOK' /\ BalancesAddUp' /\ activePoolShares \in Nat
  <2>1. TokenTypeOK /\ activePoolShares \in Nat
    BY <1>0 DEF TypeOK, PoolTypeOK
  <2>2. TokenTypeOK'
    BY <1>1, <2>1 DEF TokenTypeOK, Mint
  <2>3. BalancesAddUp'
    BY <1>0, <1>1, <2>1, MintAddsUp
  <2> QED
    BY <2>1, <2>2, <2>3
<1>4. /\ LedgerInv' /\ FlashTypeOK' /\ systemDebt' = systemDebt
      /\ systemDebt \in Nat /\ eBTCSupply \in Nat /\ PoolMargin \in Int
      /\ \A change \in Int : activePoolShares' = activePoolShares + change
                               => PoolMargin' = PoolMargin + change
  BY <1>1, <1>2, <1>3, LoanLedger
<1>5. PoolMargin' = PoolMargin + 0
  <2>1. 0 \in Int /\ activePoolShares' = activePoolShares + 0
    BY <1>1, <1>3
  <2> QED
    BY <1>4, <2>1
<1>6. eBTCSupply' = eBTCSupply + amount
  BY <1>1 DEF Mint
<1>7. eBTCSupply - systemDebt = EbtcLent /\ PoolMargin >= -SharesLent
  BY DEF FlashInv
<1>8. eBTCSupply' - systemDebt' = EbtcLent'
  BY <1>2, <1>4, <1>6, <1>7
<1>9. PoolMargin' >= -SharesLent'
  BY <1>2, <1>4, <1>5, <1>7
<1> QED
  BY <1>4, <1>8, <1>9 DEF FlashInv

\* Loan and fee leave the borrower, and the fee is all that is left of them.
LEMMA RepaymentAddsUp ==
  ASSUME TypeOK, BalancesAddUp, NEW receiver \in Users, NEW amount \in Nat, NEW fee \in Nat,
         EbtcRepayment(receiver, amount, fee)
  PROVE  /\ TokenTypeOK' /\ BalancesAddUp'
         /\ eBTCSupply' = eBTCSupply - amount
<1> DEFINE paid == [eBTCBalance EXCEPT ![receiver] = eBTCBalance[receiver] - (amount + fee)]
           after == [paid EXCEPT ![FeeRecipient] = paid[FeeRecipient] + fee]
<1>0. FeeRecipient \in Users
  BY FlashLoanAssumption
<1>1. /\ eBTCBalance \in [Users -> Nat] /\ eBTCBalance[receiver] \in Nat /\ eBTCSupply \in Nat
      /\ eBTCBalance[receiver] >= amount + fee /\ eBTCSupply >= amount
      /\ eBTCSupply' = eBTCSupply - amount
  BY DEF TypeOK, TokenTypeOK, EbtcRepayment
<1>2. eBTCBalance[receiver] - (amount + fee) \in Nat
  BY <1>1
<1>3. paid \in [Users -> Nat] /\ paid[FeeRecipient] \in Nat
  BY <1>0, <1>1, <1>2
<1>4. eBTCBalance' = after
  BY <1>0, <1>1, <1>3 DEF EbtcRepayment
<1>5. SumOverUsers(paid)
        = SumOverUsers(eBTCBalance) - eBTCBalance[receiver]
            + (eBTCBalance[receiver] - (amount + fee))
  <2>1. eBTCBalance \in [Users -> Int] /\ eBTCBalance[receiver] - (amount + fee) \in Int
    BY <1>1, <1>2
  <2> QED
    BY <2>1, UserSumChanges
<1> HIDE DEF paid
<1>6. paid[FeeRecipient] + fee \in Nat
  BY <1>3
<1>7. SumOverUsers(after) = SumOverUsers(paid) - paid[FeeRecipient] + (paid[FeeRecipient] + fee)
  <2>1. paid \in [Users -> Int] /\ paid[FeeRecipient] + fee \in Int
    BY <1>3, <1>6
  <2> QED
    BY <1>0, <2>1, UserSumChanges
<1>8. after \in [Users -> Nat]
  BY <1>3, <1>6
<1> HIDE DEF after
<1>9. SumOverUsers(eBTCBalance) = eBTCSupply
  BY DEF BalancesAddUp
<1>10. SumOverUsers(after) = eBTCSupply - amount
  <2> DEFINE had == eBTCBalance[receiver]
             has == paid[FeeRecipient]
             sum == SumOverUsers(paid)
  <2>1. /\ had \in Nat /\ has \in Nat /\ eBTCSupply \in Nat
        /\ sum = eBTCSupply - had + (had - (amount + fee))
        /\ SumOverUsers(after) = sum - has + (has + fee)
    BY <1>1, <1>3, <1>5, <1>7, <1>9
  <2> HIDE DEF had, has, sum
  <2>2. sum = eBTCSupply - (amount + fee) /\ sum \in Int
    BY <2>1
  <2> QED
    BY <2>1, <2>2
<1>11. BalancesAddUp'
  BY <1>1, <1>4, <1>10 DEF BalancesAddUp
<1>12. TokenTypeOK'
  BY <1>1, <1>4, <1>8 DEF TokenTypeOK
<1> QED
  BY <1>1, <1>11, <1>12

LEMMA EbtcReturnInFlash ==
  ASSUME FlashInv, EbtcFlashLoanReturns PROVE FlashInv'
<1> DEFINE loan == Last(calls)
<1>0. TypeOK /\ BalancesAddUp /\ calls \in Seq(Loans)
  BY DEF FlashInv, LedgerInv, FlashTypeOK
<1>1. /\ calls # <<>> /\ loan.lender = "BorrowerOperations" /\ calls' = Front(calls)
      /\ EbtcRepayment(loan.receiver, loan.amount, loan.fee)
      /\ UNCHANGED <<accountingVars, lenderVars>> /\ activePoolShares' = activePoolShares
  BY DEF EbtcFlashLoanReturns, Returns
<1>2. /\ calls' \in Seq(Loans) /\ loan \in Loans
      /\ EbtcLent' \in Int /\ SharesLent' \in Int
      /\ EbtcLent = EbtcLent' + EbtcOf(loan)
      /\ SharesLent = SharesLent' + SharesLentOn(loan)
  BY <1>0, <1>1, CallsShrink
<1> HIDE DEF loan
<1>3. loan.receiver \in Users /\ loan.amount \in Nat /\ loan.fee \in Nat
  BY <1>2, LoanFields
<1>4. EbtcOf(loan) = loan.amount /\ SharesLentOn(loan) = 0
  BY <1>1 DEF EbtcOf, SharesLentOn
<1>5. TokenTypeOK' /\ BalancesAddUp' /\ eBTCSupply' = eBTCSupply - loan.amount
  BY <1>0, <1>1, <1>3, RepaymentAddsUp
<1>6. activePoolShares \in Nat
  BY <1>0 DEF TypeOK, PoolTypeOK
<1>7. /\ LedgerInv' /\ FlashTypeOK' /\ systemDebt' = systemDebt
      /\ systemDebt \in Nat /\ eBTCSupply \in Nat /\ PoolMargin \in Int
      /\ \A change \in Int : activePoolShares' = activePoolShares + change
                               => PoolMargin' = PoolMargin + change
  BY <1>1, <1>2, <1>5, <1>6, LoanLedger
<1>8. PoolMargin' = PoolMargin + 0
  <2>1. 0 \in Int /\ activePoolShares' = activePoolShares + 0
    BY <1>1, <1>6
  <2> QED
    BY <1>7, <2>1
<1>9. eBTCSupply - systemDebt = EbtcLent /\ PoolMargin >= -SharesLent
  BY DEF FlashInv
<1>10. eBTCSupply' - systemDebt' = EbtcLent'
  <2> DEFINE amount == loan.amount
             lent == EbtcLent'
  <2>1. /\ amount \in Nat /\ lent \in Int /\ eBTCSupply \in Nat /\ systemDebt \in Nat
        /\ eBTCSupply - systemDebt = lent + amount
        /\ eBTCSupply' = eBTCSupply - amount /\ systemDebt' = systemDebt
    BY <1>2, <1>3, <1>4, <1>5, <1>7, <1>9
  <2> HIDE DEF amount, lent
  <2>2. eBTCSupply - amount - systemDebt = lent
    BY <2>1
  <2> QED
    BY <2>1, <2>2 DEF lent
<1>11. PoolMargin' >= -SharesLent'
  <2> DEFINE left == SharesLent'
  <2>1. left \in Int /\ SharesLent = left + 0
    BY <1>2, <1>4
  <2> HIDE DEF left
  <2>2. PoolMargin >= -left
    BY <1>9, <2>1
  <2> QED
    BY <1>7, <1>8, <2>2 DEF left
<1> QED
  BY <1>7, <1>10, <1>11 DEF FlashInv

\* The pool's balance is the limit of a loan: its shares are worth no more.
LEMMA SharesOfLoanAreHeld ==
  ASSUME EnvTypeOK, NEW shares \in Nat, NEW amount \in Nat,
         amount <= GetPooledEthByShares(shares)
  PROVE  GetSharesByPooledEth(amount) \in 0 .. shares
<1> DEFINE worth == shares * ethPerShare
           scaled == amount * DECIMAL_PRECISION
<1>1. ethPerShare \in Nat \ {0} /\ DECIMAL_PRECISION \in Nat \ {0}
  BY RatesArePositive, ScaleAssumption
<1>2. worth \in Nat /\ scaled \in Nat
  BY <1>1, ProductIsNat
<1>3. amount <= worth \div DECIMAL_PRECISION
  BY DEF GetPooledEthByShares, PooledEth
<1> HIDE DEF worth
<1>4. (worth \div DECIMAL_PRECISION) * DECIMAL_PRECISION <= worth
      /\ worth \div DECIMAL_PRECISION \in Nat
  BY <1>1, <1>2, DivBound, DivIsNat
<1>5. scaled <= (worth \div DECIMAL_PRECISION) * DECIMAL_PRECISION
  <2> DEFINE q == worth \div DECIMAL_PRECISION
  <2>1. q \in Nat /\ amount <= q
    BY <1>3, <1>4
  <2> HIDE DEF q
  <2>2. PICK rest \in Nat : q = amount + rest
    <3>1. q - amount \in Nat /\ q = amount + (q - amount)
      BY <2>1
    <3> QED
      BY <3>1
  <2>3. q * DECIMAL_PRECISION = amount * DECIMAL_PRECISION + rest * DECIMAL_PRECISION
    BY <1>1, <2>1, <2>2
  <2>4. rest * DECIMAL_PRECISION \in Nat /\ amount * DECIMAL_PRECISION \in Nat
    BY <1>1, <2>2, ProductIsNat
  <2> QED
    BY <2>3, <2>4 DEF q
<1>6. scaled <= worth
  <2> DEFINE floor == (worth \div DECIMAL_PRECISION) * DECIMAL_PRECISION
  <2>1. floor \in Nat /\ scaled <= floor /\ floor <= worth
    BY <1>1, <1>4, <1>5, ProductIsNat
  <2> HIDE DEF floor, scaled
  <2> QED
    BY <1>2, <2>1
<1>7. scaled \div ethPerShare <= shares /\ scaled \div ethPerShare \in Nat
  <2>1. scaled \div ethPerShare \in Nat
    BY <1>1, <1>2, DivIsNat
  <2>2. (scaled \div ethPerShare) * ethPerShare <= scaled
    BY <1>1, <1>2, DivBound
  <2>3. (scaled \div ethPerShare) * ethPerShare <= shares * ethPerShare
    <3> DEFINE floor == (scaled \div ethPerShare) * ethPerShare
    <3>1. floor \in Nat
      BY <1>1, <2>1, ProductIsNat
    <3> HIDE DEF floor, scaled
    <3>2. floor <= worth
      BY <1>2, <1>6, <2>2, <3>1 DEF floor
    <3> QED
      BY <3>2 DEF floor, worth
  <2> DEFINE q == scaled \div ethPerShare
  <2> HIDE DEF q, scaled
  <2>4. q \in Nat /\ q * ethPerShare <= shares * ethPerShare
    BY <2>1, <2>3 DEF q
  <2>5. q <= shares
    <3> SUFFICES ASSUME q > shares PROVE FALSE
      BY <2>4
    <3>1. PICK more \in Nat \ {0} : q = shares + more
      <4>1. q - shares \in Nat \ {0} /\ q = shares + (q - shares)
        BY <2>4
      <4> QED
        BY <4>1
    <3>2. q * ethPerShare = shares * ethPerShare + more * ethPerShare
      BY <1>1, <3>1
    <3>3. more * ethPerShare \in Nat \ {0} /\ shares * ethPerShare \in Nat
      BY <1>1, <3>1
    <3> QED
      BY <2>4, <3>2, <3>3
  <2> QED
    BY <2>1, <2>5 DEF q
<1>8. GetSharesByPooledEth(amount) = scaled \div ethPerShare
  BY DEF GetSharesByPooledEth, SharesOf
<1> QED
  BY <1>7, <1>8

LEMMA CollLoanInFlash ==
  ASSUME FlashInv, NEW receiver \in Users, NEW amount \in Nat, CollFlashLoan(receiver, amount)
  PROVE  FlashInv'
<1> DEFINE shares == GetSharesByPooledEth(amount)
<1>0. TypeOK /\ EnvTypeOK /\ activePoolShares \in Nat
  BY DEF FlashInv, LedgerInv, TypeOK, PoolTypeOK
<1>1. /\ amount <= GetPooledEthByShares(activePoolShares)
      /\ activePoolShares' = activePoolShares - shares
      /\ Called("ActivePool", receiver, amount)
      /\ UNCHANGED <<accountingVars, lenderVars>> /\ UNCHANGED tokenVars
  BY DEF CollFlashLoan
<1>2. shares \in 0 .. activePoolShares
  BY <1>0, <1>1, SharesOfLoanAreHeld
<1>3. /\ calls' \in Seq(Loans) /\ EbtcLent \in Int /\ SharesLent \in Int
      /\ EbtcLent' = EbtcLent /\ SharesLent' = SharesLent + shares
  BY <1>1, CalledFacts DEF Lenders
<1> HIDE DEF shares
<1>4. activePoolShares' \in Nat
  BY <1>0, <1>1, <1>2
<1>5. TokenTypeOK' /\ BalancesAddUp' /\ eBTCSupply' = eBTCSupply
  BY <1>0, <1>1 DEF FlashInv, LedgerInv, TypeOK, TokenTypeOK, BalancesAddUp, tokenVars
<1>6. /\ LedgerInv' /\ FlashTypeOK' /\ systemDebt' = systemDebt /\ PoolMargin \in Int
      /\ \A change \in Int : activePoolShares' = activePoolShares + change
                               => PoolMargin' = PoolMargin + change
  BY <1>1, <1>3, <1>4, <1>5, LoanLedger
<1>7. PoolMargin' = PoolMargin - shares
  <2>1. -shares \in Int /\ activePoolShares' = activePoolShares + (-shares)
    BY <1>0, <1>1, <1>2
  <2>2. PoolMargin' = PoolMargin + (-shares)
    BY <1>6, <2>1
  <2> QED
    BY <1>2, <1>6, <2>2
<1>8. eBTCSupply - systemDebt = EbtcLent /\ PoolMargin >= -SharesLent
  BY DEF FlashInv
<1>9. eBTCSupply' - systemDebt' = EbtcLent'
  BY <1>3, <1>5, <1>6, <1>8
<1>10. PoolMargin' >= -SharesLent'
  BY <1>2, <1>3, <1>6, <1>7, <1>8
<1> QED
  BY <1>6, <1>9, <1>10 DEF FlashInv

LEMMA CollReturnInFlash ==
  ASSUME FlashInv, CollFlashLoanReturns PROVE FlashInv'
<1> DEFINE loan == Last(calls)
           lent == GetSharesByPooledEth(loan.amount)
           kept == GetSharesByPooledEth(loan.fee)
           received == GetSharesByPooledEth(loan.amount + loan.fee)
<1>0. TypeOK /\ EnvTypeOK /\ activePoolShares \in Nat /\ calls \in Seq(Loans)
  BY DEF FlashInv, LedgerInv, TypeOK, PoolTypeOK, FlashTypeOK
<1>1. /\ calls # <<>> /\ loan.lender = "ActivePool" /\ calls' = Front(calls)
      /\ ethPerShare = loan.oldRate
      /\ activePoolShares' = activePoolShares + received - kept
      /\ UNCHANGED <<accountingVars, lenderVars>> /\ UNCHANGED tokenVars
  BY DEF CollFlashLoanReturns, Returns, PoolIsMadeWhole, SharesAfterRepayment
<1>2. /\ calls' \in Seq(Loans) /\ loan \in Loans
      /\ EbtcLent' \in Int /\ SharesLent' \in Int
      /\ EbtcLent = EbtcLent' + EbtcOf(loan)
      /\ SharesLent = SharesLent' + SharesLentOn(loan)
  BY <1>0, <1>1, CallsShrink
<1> HIDE DEF loan
<1>3. loan.amount \in Nat /\ loan.fee \in Nat
  BY <1>2, LoanFields
<1>4. EbtcOf(loan) = 0 /\ SharesLentOn(loan) = lent
  BY <1>1 DEF EbtcOf, SharesLentOn, GetSharesByPooledEth
<1>5. lent \in Nat /\ kept \in Nat /\ received \in Nat /\ lent + kept <= received
  <2>1. loan.amount + loan.fee \in Nat
    BY <1>3
  <2>2. received \in Nat
    BY <1>0, <2>1, GetSharesIsNat
  <2> QED
    BY <1>0, <1>3, <2>2, GetSharesIsNat, SharesAddUp
<1> HIDE DEF lent, kept, received
<1>6. activePoolShares' \in Nat
  BY <1>0, <1>1, <1>5
<1>7. TokenTypeOK' /\ BalancesAddUp' /\ eBTCSupply' = eBTCSupply
  BY <1>0, <1>1 DEF FlashInv, LedgerInv, TypeOK, TokenTypeOK, BalancesAddUp, tokenVars
<1>8. /\ LedgerInv' /\ FlashTypeOK' /\ systemDebt' = systemDebt /\ PoolMargin \in Int
      /\ \A change \in Int : activePoolShares' = activePoolShares + change
                               => PoolMargin' = PoolMargin + change
  BY <1>1, <1>2, <1>6, <1>7, LoanLedger
<1>9. PoolMargin' = PoolMargin + (received - kept)
  <2>1. received - kept \in Int /\ activePoolShares' = activePoolShares + (received - kept)
    BY <1>0, <1>1, <1>5
  <2> QED
    BY <1>8, <2>1
<1>10. eBTCSupply - systemDebt = EbtcLent /\ PoolMargin >= -SharesLent
  BY DEF FlashInv
<1>11. EbtcLent' = EbtcLent /\ SharesLent = SharesLent' + lent
  <2> DEFINE still == EbtcLent'
  <2>1. still \in Int /\ EbtcLent = still + 0
    BY <1>2, <1>4
  <2> HIDE DEF still
  <2>2. EbtcLent = still
    BY <2>1
  <2> QED
    BY <1>2, <1>4, <2>2 DEF still
<1>12. eBTCSupply' - systemDebt' = EbtcLent'
  BY <1>7, <1>8, <1>10, <1>11
<1>13. PoolMargin' >= -SharesLent'
  <2> DEFINE left == SharesLent'
  <2>1. left \in Int /\ PoolMargin >= -(left + lent)
    BY <1>2, <1>10, <1>11
  <2> HIDE DEF left
  <2>2. PoolMargin + (received - kept) >= -left
    BY <1>5, <1>8, <2>1
  <2> QED
    BY <1>9, <2>2 DEF left
<1> QED
  BY <1>8, <1>12, <1>13 DEF FlashInv

LEMMA FlashStep ==
  ASSUME FlashInv, [FlashNext]_<<vars, flashVars>> PROVE FlashInv'
<1>1. CASE FlashLoanAction
  <2>1. FlashAmounts \subseteq Nat
    BY FlashLoanAssumption
  <2> QED
    BY <1>1, <2>1, EbtcLoanInFlash, CollLoanInFlash, EbtcReturnInFlash, CollReturnInFlash
       DEF FlashLoanAction
<1>2. CASE (ProtocolCall \/ Surroundings) /\ UNCHANGED flashVars
  <2>1. Next
    BY <1>2 DEF ProtocolCall, Surroundings, Next, EnvironmentAction
  <2> QED
    BY <1>2, <2>1, ProtocolStepInFlash
<1>3. CASE UNCHANGED <<vars, flashVars>>
  BY <1>3, ProtocolStepInFlash
<1> QED
  BY <1>1, <1>2, <1>3, LenderGovernanceInFlash DEF FlashNext

LEMMA FlashIsInvariant == FlashSpec => []FlashInv
<1>1. FlashInit => FlashInv
  <2> SUFFICES ASSUME FlashInit PROVE FlashInv
    OBVIOUS
  <2>1. LedgerInv /\ PoolMargin >= 0 /\ TypeOK
    BY InitBooks DEF FlashInit, LedgerInv
  <2>2. calls = <<>> /\ DOMAIN calls = {}
    BY DEF FlashInit
  <2>3. EbtcLent = 0 /\ SharesLent = 0
    BY <2>2, SumOfNone DEF EbtcLent, SharesLent
  <2>4. FlashTypeOK
    BY <2>1, FlashLoanAssumption DEF FlashInit, FlashTypeOK
  <2>5. eBTCSupply - systemDebt = 0
    BY DEF FlashInit, Init
  <2> QED
    BY <2>1, <2>3, <2>4, <2>5 DEF FlashInv
<1>2. FlashInv /\ [FlashNext]_<<vars, flashVars>> => FlashInv'
  BY FlashStep
<1> QED
  BY <1>1, <1>2, PTL DEF FlashSpec

(* While flash loans are out, nested or not, and whatever their callbacks    *)
(* call, the eBTC in circulation is the debt of the system and the loans     *)
(* still to be burnt, and all of it is in someone's balance: flashLoan needs *)
(* no reentrancy guard for the token's sake.                                 *)
THEOREM FlashSupplyTheorem == FlashSpec => []SupplyIsDebtAndLoans
<1>1. FlashInv => SupplyIsDebtAndLoans
  <2> SUFFICES ASSUME FlashInv PROVE SupplyIsDebtAndLoans
    OBVIOUS
  <2>1. FlashTypeOK /\ BalancesAddUp /\ eBTCSupply - systemDebt = EbtcLent
    BY DEF FlashInv, LedgerInv
  <2>2. eBTCSupply \in Int /\ systemDebt \in Int
    BY <2>1 DEF FlashTypeOK, TypeOK, TokenTypeOK, PoolTypeOK
  <2>3. eBTCSupply = systemDebt + EbtcLent
    BY <2>1, <2>2
  <2> QED
    BY <2>1, <2>3 DEF SupplyIsDebtAndLoans
<1> QED
  BY <1>1, FlashIsInvariant, PTL

(* The active pool and the collateral lent out of it always cover what is    *)
(* owed to borrowers, to the fee recipient and to liquidators, though the    *)
(* callback may claim, close or redeem, and though a loan's own checks look  *)
(* at the borrowers' collateral alone: the loan's shares come back in full   *)
(* because the share rate may not move while it is out.                      *)
THEOREM FlashPoolTheorem == FlashSpec => []PoolAndLoansAreSolvent
<1>1. FlashInv => PoolAndLoansAreSolvent
  <2> SUFFICES ASSUME FlashInv PROVE PoolAndLoansAreSolvent
    OBVIOUS
  <2>1. /\ activePoolShares \in Nat /\ systemCollShares \in Nat
        /\ feeRecipientCollShares \in Nat /\ RewardsKept \in Nat
    BY MarginIsInt DEF FlashInv, LedgerInv
  <2>2. SharesLent \in Int
    BY LentIsInt DEF FlashInv, FlashTypeOK
  <2>3. activePoolShares - systemCollShares - feeRecipientCollShares - RewardsKept
          >= -SharesLent
    BY DEF FlashInv, PoolMargin
  <2>4. activePoolShares + SharesLent
          >= systemCollShares + feeRecipientCollShares + RewardsKept
    BY <2>1, <2>2, <2>3
  <2> QED
    BY <2>4 DEF PoolAndLoansAreSolvent, RewardsKept, RewardsOf
<1> QED
  BY <1>1, FlashIsInvariant, PTL

(* --- The base rate ----------------------------------------------------- *)

\* A redemption in the making that has drawn collateral has changed a CDP.
LeavesAMark(r) == r.ok /\ r.drawn > 0 => \E i \in CdpIds : r.Cdps[i] # Cdps[i]

LEMMA RedeemStepLeavesAMark ==
  ASSUME LedgerInv, NEW g \in GlobalRecords, NEW debt \in Nat,
         NEW first \in 1 .. Len(sortedCdps), NEW n \in Nat, n < first,
         NEW r, IsRedeemed(r, debt, n), IsKeptLoop(r, first, n), LeavesAMark(r), NEW hintMatches
  PROVE  LeavesAMark(RedeemFromCdp(r, sortedCdps[first - n], g, hintMatches))
<1> DEFINE id == sortedCdps[first - n]
           cdp == SyncedCdp(id, g.feeIndex)
           debtToRedeem == Lesser(r.remaining, cdp.debt)
           drawn == CollDrawn(debtToRedeem)
           newDebt == cdp.debt - debtToRedeem
           newColl == cdp.coll - drawn
           isPartial == /\ hintMatches
                        /\ GetPooledEthByShares(newColl) >= MIN_NET_STETH_BALANCE
                        /\ DebtIsEnough(newDebt)
           collLeft == IF isPartial THEN newColl ELSE cdp.coll
           debtLeft == IF isPartial THEN newDebt ELSE cdp.debt
           newStake == ComputeNewStake(collLeft, g.stakesSnapshot, g.collSnapshot)
           restaked == UpdatedCdp(cdp, collLeft, debtLeft, newStake)
           closedCdp == ClosedCdp(cdp, "closedByRedemption")
           after == RedeemFromCdp(r, id, g, hintMatches)
<1>0. TypeOK /\ IndicesAreReached /\ CdpsAreProper(Cdps)
  BY DEF LedgerInv, CdpBooks
<1>1. CASE r.remaining = 0 \/ r.cancelled
  BY <1>1 DEF RedeemFromCdp
<1>2. CASE ~(r.remaining = 0 \/ r.cancelled)
  <2> SUFFICES ASSUME after.ok, after.drawn > 0
               PROVE  \E i \in CdpIds : after.Cdps[i] # Cdps[i]
    BY DEF LeavesAMark
  <2>1. r.ok
    BY <1>2 DEF RedeemFromCdp
  <2>2. /\ r.Cdps \in [CdpIds -> CdpRecords] /\ r.remaining \in Nat /\ r.remaining # 0
    BY <1>2, <2>1 DEF IsRedeemed
  <2>3. first - n \in 1 .. Len(sortedCdps) /\ first - n \in 1 .. first - n
    BY <1>0 DEF TypeOK, ListTypeOK
  <2>4. id \in CdpIds /\ IsActive(id) /\ r.Cdps[id] = Cdps[id]
    BY <2>1, <2>3, PlaceFacts DEF IsKeptLoop
  <2>5. cdp.debt \in Nat /\ Cdps[id] \in CdpRecords
    <3>1. cdp \in CdpRecords
      BY <1>0, <2>4, SyncedFields DEF GlobalRecords
    <3> QED
      BY <1>0, <2>4, <3>1, RecordFields DEF TypeOK, CdpTypeOK
  <2>6. CASE newDebt = 0
    <3>1. after.Cdps = [r.Cdps EXCEPT ![id] = closedCdp]
      BY <1>2, <2>6 DEF RedeemFromCdp
    <3>2. closedCdp.status = "closedByRedemption" /\ Cdps[id].status = "active"
      BY <2>4 DEF ClosedCdp, NoCdp, IsActive
    <3> HIDE DEF after, closedCdp, id
    <3>3. after.Cdps[id] = closedCdp
      BY <2>2, <2>4, <3>1
    <3> QED
      BY <2>4, <3>2, <3>3
  <2>7. CASE newDebt # 0 /\ isPartial
    <3>1. after.Cdps = [r.Cdps EXCEPT ![id] = restaked]
      BY <1>2, <2>7 DEF RedeemFromCdp
    <3>2. debtToRedeem = r.remaining
      BY <2>2, <2>5, <2>7 DEF Lesser
    <3>3. restaked.debt < cdp.debt
      <4>1. restaked.debt = newDebt
        BY <2>7 DEF UpdatedCdp
      <4> QED
        BY <2>2, <2>5, <3>2, <4>1
    <3>4. restaked.debtIndex = systemDebtRedistributionIndex
      BY DEF UpdatedCdp, SyncedCdp
    <3>5. Cdps[id].debtIndex = systemDebtRedistributionIndex => cdp.debt = Cdps[id].debt
      <4> SUFFICES ASSUME Cdps[id].debtIndex = systemDebtRedistributionIndex
                   PROVE  cdp.debt = Cdps[id].debt
        OBVIOUS
      <4>1. cdp.debt = Cdps[id].debt + PendingDebt(Cdps[id])
        BY DEF SyncedCdp
      <4>2. /\ systemDebtRedistributionIndex \in Int
            /\ Cdps[id].stake \in Int /\ Cdps[id].debt \in Int
        BY <1>0, <2>5, RecordFields DEF TypeOK, RedistributionTypeOK
      <4>3. Cdps[id].stake * (systemDebtRedistributionIndex - Cdps[id].debtIndex) = 0
        BY <4>2
      <4>4. PendingDebt(Cdps[id]) = 0
        BY <4>3, ScaleAssumption DEF PendingDebt
      <4> QED
        BY <4>1, <4>2, <4>4
    <3> HIDE DEF after, restaked, id, cdp
    <3>6. after.Cdps[id] = restaked
      BY <2>2, <2>4, <3>1
    <3>7. restaked # Cdps[id]
      BY <2>5, <3>3, <3>4, <3>5
    <3> QED
      BY <2>4, <3>6, <3>7
  <2>8. CASE newDebt # 0 /\ ~isPartial
    <3>1. after.Cdps = [r.Cdps EXCEPT ![id] = restaked] /\ after.drawn = r.drawn
      BY <1>2, <2>8 DEF RedeemFromCdp
    <3>2. PICK i \in CdpIds : r.Cdps[i] # Cdps[i]
      BY <2>1, <3>1 DEF LeavesAMark
    <3> HIDE DEF after, restaked, id
    <3>3. after.Cdps[i] = r.Cdps[i]
      BY <2>2, <2>4, <3>1, <3>2
    <3> QED
      BY <3>2, <3>3
  <2> QED
    BY <2>6, <2>7, <2>8
<1> QED
  BY <1>1, <1>2

LEMMA RedemptionLeavesAMark ==
  ASSUME LedgerInv, NEW g \in GlobalRecords, NEW debt \in Nat,
         NEW first \in 1 .. Len(sortedCdps), NEW hintMatches
  PROVE  \A n \in 0 .. first : LeavesAMark(RedeemedAfter(debt, first, g, hintMatches)[n])
<1> DEFINE after == RedeemedAfter(debt, first, g, hintMatches)
           T == {n \in 0 .. first : LeavesAMark(after[n])}
<1>0. /\ TypeOK /\ IndicesAreReached /\ first \in Nat /\ first <= Len(sortedCdps)
      /\ Len(sortedCdps) \in Nat
  BY DEF LedgerInv, TypeOK, ListTypeOK
<1>1. IsLoop(after, debt, first, g, hintMatches)
  BY <1>0, RedeemedAfterUnfolds
<1>2. \A n \in 0 .. first : IsRedeemed(after[n], debt, n) /\ IsKeptLoop(after[n], first, n)
  BY <1>0, RedeemedAfterType, RedeemedAfterBooks
<1> HIDE DEF after
<1>3. 0 \in T
  <2>1. LeavesAMark(NothingRedeemed(debt))
    BY DEF LeavesAMark, NothingRedeemed
  <2> QED
    BY <1>0, <1>1, <2>1 DEF IsLoop
<1>4. ASSUME NEW n \in 1 .. first, n - 1 \in T PROVE n \in T
  <2> DEFINE m == n - 1
  <2>1. m \in Nat /\ m < first /\ m \in 0 .. first /\ first - n + 1 = first - m
    BY <1>0
  <2>2. IsRedeemed(after[m], debt, m) /\ IsKeptLoop(after[m], first, m) /\ LeavesAMark(after[m])
    BY <1>2, <1>4, <2>1
  <2>3. after[n] = RedeemFromCdp(after[m], sortedCdps[first - m], g, hintMatches)
    BY <1>1, <2>1 DEF IsLoop
  <2> HIDE DEF m
  <2>4. LeavesAMark(after[n])
    BY <2>1, <2>2, <2>3, RedeemStepLeavesAMark
  <2> QED
    BY <2>4
<1>5. \A n \in 0 .. first : n \in T
  <2> HIDE DEF T
  <2> QED
    BY <1>0, <1>3, <1>4, IntervalInduction
<1> QED
  BY <1>5 DEF after

LEMMA RedemptionTouches ==
  ASSUME LedgerInv, RedemptionAction PROVE Touched # {}
<1>1. PICK redeemer \in Users, debt \in RedemptionDebts, first \in 1 .. Len(sortedCdps),
           maxIterations \in MaxIterations, hintMatches \in BOOLEAN,
           twapDebt \in {systemDebt} \cup {Lesser(o, systemDebt) : o \in TwapObservations},
           k \in 0 .. Len(sortedCdps) - 1 :
           RedeemCollateral(redeemer, debt, first, maxIterations, hintMatches, twapDebt, k)
  BY DEF RedemptionAction
<1> DEFINE g == SyncedGlobal
           steps == IF maxIterations = 0 THEN first ELSE Lesser(maxIterations, first)
           r == RedeemedAfter(debt, first, g, hintMatches)[steps]
<1>2. r.ok /\ r.drawn > 0 /\ Cdps' = r.Cdps /\ SyncGlobalSucceeds
  BY <1>1 DEF RedeemCollateral, RedeemSynced, SyncFeeIndices
<1>3. /\ debt \in Nat /\ maxIterations \in Nat /\ g \in GlobalRecords
      /\ TypeOK /\ IndicesAreReached /\ first \in Nat
  BY <1>2, RedemptionInputAssumption, SyncedGlobalType DEF LedgerInv, TypeOK, ListTypeOK
<1>4. steps \in 0 .. first
  <2>1. Lesser(maxIterations, first) \in Nat /\ Lesser(maxIterations, first) <= first
    BY <1>3, LesserIsNat
  <2> QED
    BY <1>3, <2>1
<1>5. LeavesAMark(r)
  BY <1>3, <1>4, RedemptionLeavesAMark
<1> QED
  BY <1>2, <1>5 DEF LeavesAMark, Touched

RateIsSteady ==
  now' = now =>
    /\ SecondsLeftOver' = SecondsLeftOver
    /\ Touched = {} =>
         Decayed(baseRate', minuteDecayFactor', MinutesPassedSinceLastRedemption')
           = DecayedBaseRate

LEMMA RemainderOfDivision ==
  ASSUME NEW n \in Nat, NEW d \in Nat \ {0} PROVE (n - (n \div d) * d) % d = n % d
<1> DEFINE rest == n % d
<1>1. rest \in 0 .. d - 1 /\ n - (n \div d) * d = rest
  OBVIOUS
<1> HIDE DEF rest
<1>2. rest % d = rest
  BY <1>1
<1> QED
  BY <1>1, <1>2 DEF rest

\* Whole minutes are taken off the clock, and so the rest stays on it.
LEMMA ClockRunsOn ==
  ASSUME TypeOK, UpdateLastRedemptionTimestamp, now' = now PROVE SecondsLeftOver' = SecondsLeftOver
<1> DEFINE last == lastRedemptionTimestamp
           minute == SECONDS_IN_ONE_MINUTE
           m == MinutesPassedSinceLastRedemption
<1>1. now \in Nat /\ last \in Nat /\ minute \in Nat \ {0}
  BY InputAssumption DEF TypeOK, EnvTypeOK, BaseRateTypeOK
<1>2. lastRedemptionTimestamp' = last + m * minute
  BY DEF UpdateLastRedemptionTimestamp
<1>3. CASE now > last
  <2> DEFINE d == now - last
             used == (d \div minute) * minute
  <2>1. d \in Nat /\ m = d \div minute
    BY <1>1, <1>3 DEF MinutesPassedSinceLastRedemption
  <2> HIDE DEF d
  <2>2. used \in Int /\ lastRedemptionTimestamp' = last + used
    BY <1>1, <1>2, <2>1, DivIsNat, ProductIsNat
  <2>3. (d - used) % minute = d % minute
    BY <1>1, <2>1, RemainderOfDivision
  <2> HIDE DEF used, m
  <2>4. now' - lastRedemptionTimestamp' = d - used
    BY <1>1, <2>2 DEF d
  <2> QED
    BY <2>3, <2>4 DEF SecondsLeftOver, d
<1>4. CASE ~(now > last)
  <2>1. m = 0
    BY <1>4 DEF MinutesPassedSinceLastRedemption
  <2>2. lastRedemptionTimestamp' = last
    BY <1>1, <1>2, <2>1
  <2> QED
    BY <2>2 DEF SecondsLeftOver
<1> QED
  BY <1>3, <1>4

\* What a redemption does to the clock
LEMMA RedemptionKeepsTheClock == RedemptionAction => UpdateLastRedemptionTimestamp
<1> SUFFICES ASSUME NEW redeemer, NEW debt, NEW first, NEW maxIterations, NEW hintMatches,
                    NEW twapDebt, NEW k,
                    RedeemCollateral(redeemer, debt, first, maxIterations, hintMatches, twapDebt, k)
             PROVE  UpdateLastRedemptionTimestamp
  BY DEF RedemptionAction
<1> QED
  BY DEF RedeemCollateral, RedeemSynced

LEMMA RestOfDivision ==
  ASSUME NEW n \in Nat, NEW d \in Nat \ {0} PROVE (n - (n \div d) * d) \div d = 0
<1>1. n - (n \div d) * d \in 0 .. d - 1
  OBVIOUS
<1> QED
  BY <1>1

LEMMA DecayIsSteady ==
  ASSUME TypeOK, DecayBaseRate, now' = now
  PROVE  Decayed(baseRate', minuteDecayFactor', MinutesPassedSinceLastRedemption')
           = DecayedBaseRate
<1> DEFINE last == lastRedemptionTimestamp
           minute == SECONDS_IN_ONE_MINUTE
           m == MinutesPassedSinceLastRedemption
<1>1. now \in Nat /\ last \in Nat /\ minute \in Nat \ {0}
  BY InputAssumption DEF TypeOK, EnvTypeOK, BaseRateTypeOK
<1>2. lastRedemptionTimestamp' = last + m * minute
  BY DEF DecayBaseRate, UpdateLastRedemptionTimestamp
<1>3. MinutesPassedSinceLastRedemption' = 0
  <2>1. CASE now > last
    <3> DEFINE d == now - last
    <3>1. d \in Nat /\ m = d \div minute
      BY <1>1, <2>1 DEF MinutesPassedSinceLastRedemption
    <3> HIDE DEF d
    <3>2. d \div minute \in Int /\ (d \div minute) * minute \in Int
      BY <1>1, <3>1, DivIsNat, ProductIsNat
    <3>3. lastRedemptionTimestamp' = last + (d \div minute) * minute
      BY <1>2, <3>1
    <3> DEFINE used == (d \div minute) * minute
    <3>4. (d - used) \div minute = 0
      BY <1>1, <3>1, RestOfDivision
    <3> HIDE DEF used, m
    <3>5. now' - lastRedemptionTimestamp' = d - used
      BY <1>1, <3>2, <3>3 DEF d, used
    <3> QED
      BY <3>4, <3>5 DEF MinutesPassedSinceLastRedemption
  <2>2. CASE ~(now > last)
    <3>1. m = 0
      BY <2>2 DEF MinutesPassedSinceLastRedemption
    <3>2. lastRedemptionTimestamp' = last
      BY <1>1, <1>2, <3>1
    <3> QED
      BY <2>2, <3>2 DEF MinutesPassedSinceLastRedemption
  <2> QED
    BY <2>1, <2>2
<1>4. baseRate' = DecayedBaseRate /\ DecayedBaseRate \in Nat
  BY DecayedBaseRateIsNat DEF DecayBaseRate
<1>5. DecPow(minuteDecayFactor', 0) = DECIMAL_PRECISION
  BY DEF DecPow
<1>6. \A rate \in Nat : (rate * DECIMAL_PRECISION) \div DECIMAL_PRECISION = rate
  BY ScaleAssumption
<1> QED
  BY <1>3, <1>4, <1>5, <1>6 DEF Decayed

\* Only a redemption and the setters move the base rate.
LEMMA RateMovesBy ==
  ASSUME [Next]_vars
  PROVE  UNCHANGED <<governanceVars, baseRateVars>> \/ RedemptionAction \/ GovernanceAction
<1> DEFINE Unmoved == UNCHANGED <<governanceVars, baseRateVars>>
<1>1. CASE BorrowerAction
  <2>1. ASSUME NEW sender, NEW borrower, NEW debt, NEW stEthBalance, NEW k,
               OpenCdp(sender, borrower, debt, stEthBalance, k)
        PROVE  Unmoved
    BY <2>1 DEF OpenCdp
  <2>2. ASSUME NEW sender, NEW id, NEW stEthIncrease, NEW stEthDecrease, NEW debtChange,
               NEW isDebtIncrease, NEW k,
               AdjustCdp(sender, id, stEthIncrease, stEthDecrease, debtChange, isDebtIncrease, k)
        PROVE  Unmoved
    BY <2>2 DEF AdjustCdp, AdjustSynced
  <2>3. ASSUME NEW sender, NEW id, CloseCdp(sender, id) PROVE Unmoved
    BY <2>3 DEF CloseCdp
  <2>4. ASSUME NEW account, ClaimSurplusCollShares(account) PROVE Unmoved
    BY <2>4 DEF ClaimSurplusCollShares
  <2>5. ASSUME NEW borrower, NEW manager, NEW approval,
               SetPositionManagerApproval(borrower, manager, approval)
        PROVE  Unmoved
    BY <2>5 DEF SetPositionManagerApproval
  <2> HIDE DEF Unmoved
  <2>6. Unmoved
    BY <1>1, <2>1, <2>2, <2>3, <2>4, <2>5 DEF BorrowerAction
  <2> QED
    BY <2>6 DEF Unmoved
<1>2. CASE LiquidationAction
  <2>1. ASSUME NEW liquidator, NEW v, NEW stakes,
               FinalizeLiquidation(liquidator, SyncedGlobal, v, stakes)
        PROVE  Unmoved
    BY <2>1 DEF FinalizeLiquidation
  <2> HIDE DEF Unmoved
  <2>2. ASSUME NEW liquidator, NEW id, Liquidate(liquidator, id) PROVE Unmoved
    BY <2>1, <2>2 DEF Liquidate, LiquidateInFull
  <2>3. ASSUME NEW liquidator, NEW id, NEW partialDebt, NEW k,
               PartiallyLiquidate(liquidator, id, partialDebt, k)
        PROVE  Unmoved
    BY <2>1, <2>3 DEF PartiallyLiquidate, LiquidateInPart
  <2>4. ASSUME NEW ids, BatchLiquidateCdps(ids) PROVE Unmoved
    BY <2>1, <2>4 DEF BatchLiquidateCdps
  <2>5. Unmoved
    BY <1>2, <2>2, <2>3, <2>4 DEF LiquidationAction
  <2> QED
    BY <2>5 DEF Unmoved
<1>3. CASE AccountAction \/ EnvironmentAction \/ UNCHANGED vars
  <2>1. Unmoved
    BY <1>3 DEF AccountAction, Transfer, ClaimFeeRecipientCollShares, Sync, EnvironmentAction,
                Rebase, SetPrice, Tick, protocolVars, vars
  <2> QED
    BY <2>1
<1> QED
  BY <1>1, <1>2, <1>3 DEF Next

LEMMA StepRateIsSteady ==
  ASSUME LedgerInv, [Next]_vars PROVE RateIsSteady
<1>0. TypeOK
  BY DEF LedgerInv
<1>1. ASSUME UNCHANGED <<baseRateVars, minuteDecayFactor>> PROVE RateIsSteady
  <2>1. UNCHANGED <<baseRate, lastRedemptionTimestamp, minuteDecayFactor>>
    BY <1>1 DEF baseRateVars
  <2>2. now' = now => MinutesPassedSinceLastRedemption' = MinutesPassedSinceLastRedemption
    BY <2>1 DEF MinutesPassedSinceLastRedemption
  <2>3. now' = now => SecondsLeftOver' = SecondsLeftOver
    BY <2>1 DEF SecondsLeftOver
  <2> QED
    BY <2>1, <2>2, <2>3 DEF RateIsSteady, DecayedBaseRate
<1>2. CASE UNCHANGED <<governanceVars, baseRateVars>>
  <2>1. UNCHANGED <<baseRateVars, minuteDecayFactor>>
    BY <1>2 DEF governanceVars
  <2> QED
    BY <1>1, <2>1
<1>3. CASE RedemptionAction
  BY <1>0, <1>3, RedemptionTouches, RedemptionKeepsTheClock, ClockRunsOn DEF RateIsSteady
<1>4. CASE GovernanceAction
  <2>1. UNCHANGED <<baseRateVars, minuteDecayFactor>> \/ DecayBaseRate
    BY <1>4 DEF GovernanceAction, SetStakingRewardSplit, SetGracePeriod, SetRedemptionFeeFloor,
                SetMinuteDecayFactor, SetBeta, SetRedemptionsPaused
  <2> QED
    BY <1>0, <1>1, <2>1, DecayIsSteady, ClockRunsOn DEF RateIsSteady, DecayBaseRate
<1> QED
  BY <1>2, <1>3, <1>4, RateMovesBy

(* Setting a parameter does not change the base rate as decayed to the       *)
(* present: the setters that could reprice the past settle it first at the   *)
(* old factor, using up whole minutes only, and the others leave it alone.   *)
(* Nor does anything else that redeems no CDP; and a redemption that draws   *)
(* collateral always changes one.  The seconds that make up no minute stay   *)
(* on the clock through all of them, redemptions included.                   *)
THEOREM DecayTheorem == Spec => DecayedRateIsSteady
<1> DEFINE IInv == LedgerInv /\ PoolMargin >= 0
           Steady == now' = now =>
             /\ SecondsLeftOver' = SecondsLeftOver
             /\ Touched = {} =>
                  Decayed(baseRate', minuteDecayFactor', MinutesPassedSinceLastRedemption')
                    = DecayedBaseRate
<1>1. Init => IInv
  BY InitBooks
<1>2. IInv /\ [Next]_vars => IInv'
  BY BooksAreInvariant
<1>3. IInv /\ [Next]_vars => [Steady]_vars
  BY StepRateIsSteady DEF RateIsSteady
<1> QED
  BY <1>1, <1>2, <1>3, PTL DEF Spec, DecayedRateIsSteady

(* --- Redemption at face value ------------------------------------------ *)

\* What the CDPs of u lose and repay on the way from Cdps to C
LostBy(u, C, feeIndex) ==
  [id \in CdpIds |->
     IF C[id] # Cdps[id] /\ Cdps[id].owner = u
     THEN (SyncedCdp(id, feeIndex).coll + SyncedCdp(id, feeIndex).liquidatorRewardShares)
            - (C[id].coll + C[id].liquidatorRewardShares)
     ELSE 0]

RepaidBy(u, C, feeIndex) ==
  [id \in CdpIds |->
     IF C[id] # Cdps[id] /\ Cdps[id].owner = u
     THEN SyncedCdp(id, feeIndex).debt - C[id].debt
     ELSE 0]

\* Collateral `shares' is worth no more than `debt'.
IsCovered(shares, debt) ==
  shares * ethPerShare * price <= debt * DECIMAL_PRECISION * DECIMAL_PRECISION

IsAtFaceValue(u, C, surplusOf, feeIndex) ==
  IsCovered(SumOverCdps(LostBy(u, C, feeIndex)) - (surplusOf[u] - surplusCollShares[u]),
            SumOverCdps(RepaidBy(u, C, feeIndex)))

LEMMA DrawnIsCovered ==
  ASSUME EnvTypeOK, NEW debt \in Nat PROVE IsCovered(CollDrawn(debt), debt)
<1> DEFINE D == DECIMAL_PRECISION
           rate == ethPerShare
           p == price
           worth == (debt * D) \div p
           shares == (worth * D) \div rate
<1>1. D \in Nat \ {0} /\ rate \in Nat \ {0} /\ p \in Nat \ {0}
  BY ScaleAssumption, RatesArePositive
<1>2. debt * D \in Nat /\ worth \in Nat /\ worth * p <= debt * D
  BY <1>1, ProductIsNat, DivIsNat, DivBound
<1>3. CollDrawn(debt) = shares
  BY DEF CollDrawn, GetSharesByPooledEth, SharesOf
<1> HIDE DEF worth
<1>4. worth * D \in Nat /\ shares \in Nat /\ shares * rate <= worth * D
  BY <1>1, <1>2, ProductIsNat, DivIsNat, DivBound
<1> HIDE DEF shares, D, rate, p
<1>5. \A a, b, c \in Nat : a <= b => a * c <= b * c
  OBVIOUS
<1>6. shares * rate \in Nat /\ debt * D \in Nat /\ worth * p \in Nat
  BY <1>1, <1>2, <1>4, ProductIsNat
<1>7. (shares * rate) * p <= (worth * D) * p
  BY <1>1, <1>4, <1>5, <1>6
<1>8. (worth * D) * p = (worth * p) * D
  BY <1>1, <1>2
<1>9. (worth * p) * D <= (debt * D) * D
  BY <1>1, <1>2, <1>5, <1>6
<1>10. /\ (shares * rate) * p \in Nat /\ (worth * p) * D \in Nat /\ (debt * D) * D \in Nat
  BY <1>1, <1>6, ProductIsNat
<1>11. (shares * rate) * p <= (debt * D) * D
  BY <1>7, <1>8, <1>9, <1>10
<1> QED
  BY <1>3, <1>11 DEF IsCovered, D, rate, p

LEMMA CoversAddUp ==
  ASSUME EnvTypeOK, NEW a \in Int, NEW b \in Int, NEW c \in Int, NEW d \in Int,
         IsCovered(a, b), IsCovered(c, d)
  PROVE  IsCovered(a + c, b + d)
<1> DEFINE D == DECIMAL_PRECISION
           rate == ethPerShare
           p == price
<1>1. D \in Int /\ rate \in Int /\ p \in Int
  BY ScaleAssumption, RatesArePositive
<1>2. /\ a * rate * p <= b * D * D
      /\ c * rate * p <= d * D * D
  BY DEF IsCovered
<1> HIDE DEF D, rate, p
<1>3. /\ (a + c) * rate * p = a * rate * p + c * rate * p
      /\ (b + d) * D * D = b * D * D + d * D * D
  BY <1>1
<1>4. \A x, y \in Int : x * y \in Int
  OBVIOUS
<1>5. /\ a * rate * p \in Int /\ c * rate * p \in Int /\ b * D * D \in Int /\ d * D * D \in Int
  BY <1>1, <1>4
<1>6. (a + c) * rate * p <= (b + d) * D * D
  BY <1>2, <1>3, <1>5
<1> QED
  BY <1>6 DEF IsCovered, D, rate, p

LEMMA CoverOfNothing ==
  ASSUME EnvTypeOK PROVE IsCovered(0, 0)
<1>1. ethPerShare \in Int /\ price \in Int /\ DECIMAL_PRECISION \in Int
  BY ScaleAssumption, RatesArePositive
<1> QED
  BY <1>1 DEF IsCovered

LEMMA LostAndRepaidAreInts ==
  ASSUME TypeOK, IndicesAreReached, NEW feeIndex \in Nat, NEW u, NEW C \in [CdpIds -> CdpRecords]
  PROVE  /\ LostBy(u, C, feeIndex) \in [CdpIds -> Int]
         /\ RepaidBy(u, C, feeIndex) \in [CdpIds -> Int]
<1>1. ASSUME NEW id \in CdpIds
      PROVE  /\ SyncedCdp(id, feeIndex).coll \in Nat /\ SyncedCdp(id, feeIndex).debt \in Nat
             /\ SyncedCdp(id, feeIndex).liquidatorRewardShares \in Nat
             /\ C[id].coll \in Nat /\ C[id].debt \in Nat /\ C[id].liquidatorRewardShares \in Nat
  <2>1. SyncedCdp(id, feeIndex) \in CdpRecords /\ C[id] \in CdpRecords
    BY SyncedCdpType
  <2> QED
    BY <2>1, RecordFields
<1> QED
  BY <1>1 DEF LostBy, RepaidBy

\* One CDP becomes `new', and its owner is credited the surplus.
IsFairTo(u, id, new, surplusOf, credited, feeIndex) ==
  /\ new = Cdps[id] \/ Cdps[id].owner # u => credited[u] = surplusOf[u]
  /\ new # Cdps[id] /\ Cdps[id].owner = u =>
       IsCovered((SyncedCdp(id, feeIndex).coll + SyncedCdp(id, feeIndex).liquidatorRewardShares)
                   - (new.coll + new.liquidatorRewardShares) - (credited[u] - surplusOf[u]),
                 SyncedCdp(id, feeIndex).debt - new.debt)

\* The loop changes one CDP, not changed before, and by it the sums of its owner.
LEMMA FaceValueChanged ==
  ASSUME TypeOK, IndicesAreReached, NEW feeIndex \in Nat, NEW u \in Users,
         NEW C \in [CdpIds -> CdpRecords], NEW id \in CdpIds, NEW new \in CdpRecords,
         NEW D, Replaces(D, C, id, new), C[id] = Cdps[id],
         NEW surplusOf \in [Users -> Nat], NEW credited \in [Users -> Nat],
         IsAtFaceValue(u, C, surplusOf, feeIndex),
         IsFairTo(u, id, new, surplusOf, credited, feeIndex)
  PROVE  IsAtFaceValue(u, D, credited, feeIndex)
<1> DEFINE lost == LostBy(u, C, feeIndex)
           lost2 == LostBy(u, D, feeIndex)
           repaid == RepaidBy(u, C, feeIndex)
           repaid2 == RepaidBy(u, D, feeIndex)
           dLost == (SyncedCdp(id, feeIndex).coll + SyncedCdp(id, feeIndex).liquidatorRewardShares)
                      - (new.coll + new.liquidatorRewardShares)
           dRepaid == SyncedCdp(id, feeIndex).debt - new.debt
<1>1. D \in [CdpIds -> CdpRecords] /\ D[id] = new /\ \A i \in CdpIds : i # id => D[i] = C[i]
  BY DEF Replaces
<1>2. /\ lost \in [CdpIds -> Int] /\ lost2 \in [CdpIds -> Int]
      /\ repaid \in [CdpIds -> Int] /\ repaid2 \in [CdpIds -> Int]
  BY <1>1, LostAndRepaidAreInts
<1>3. /\ \A i \in CdpIds \ {id} : lost2[i] = lost[i]
      /\ \A i \in CdpIds \ {id} : repaid2[i] = repaid[i]
  BY <1>1 DEF LostBy, RepaidBy
<1>4. lost[id] = 0 /\ repaid[id] = 0
  BY DEF LostBy, RepaidBy
<1>5. /\ ~(new # Cdps[id] /\ Cdps[id].owner = u) => lost2[id] = 0 /\ repaid2[id] = 0
      /\ new # Cdps[id] /\ Cdps[id].owner = u => lost2[id] = dLost /\ repaid2[id] = dRepaid
  BY <1>1 DEF LostBy, RepaidBy
<1> HIDE DEF lost, lost2, repaid, repaid2
<1>6. /\ SumOverCdps(lost2) = SumOverCdps(lost) - lost[id] + lost2[id]
      /\ SumOverCdps(repaid2) = SumOverCdps(repaid) - repaid[id] + repaid2[id]
  BY <1>2, <1>3, CdpSumChanges
<1>7. SumOverCdps(lost) \in Int /\ SumOverCdps(repaid) \in Int
  <2>1. \A f \in [CdpIds -> Int] : SumOverCdps(f) \in Int
    <3> SUFFICES ASSUME NEW f \in [CdpIds -> Int] PROVE SumOverCdps(f) \in Int
      OBVIOUS
    <3>1. \A i \in CdpIds : f[i] \in Int
      OBVIOUS
    <3> QED
      BY <3>1, CdpIdsAreFinite, SumIsInt DEF SumOverCdps
  <2> QED
    BY <1>2, <2>1
<1>8. /\ surplusOf[u] \in Int /\ credited[u] \in Int /\ surplusCollShares[u] \in Int
      /\ lost2[id] \in Int /\ repaid2[id] \in Int
  BY <1>2 DEF TypeOK, SurplusTypeOK
<1>9. EnvTypeOK
  BY DEF TypeOK
<1> DEFINE a == SumOverCdps(lost) - (surplusOf[u] - surplusCollShares[u])
           b == SumOverCdps(repaid)
           c == lost2[id] - (credited[u] - surplusOf[u])
           d == repaid2[id]
<1>10. IsCovered(a, b)
  BY DEF IsAtFaceValue, lost, repaid
<1>11. IsCovered(c, d)
  <2>1. CASE new # Cdps[id] /\ Cdps[id].owner = u
    BY <1>5, <2>1 DEF IsFairTo
  <2>2. CASE ~(new # Cdps[id] /\ Cdps[id].owner = u)
    <3>1. credited[u] = surplusOf[u] /\ lost2[id] = 0 /\ repaid2[id] = 0
      BY <1>5, <2>2 DEF IsFairTo
    <3>2. c = 0 /\ d = 0
      BY <1>8, <3>1
    <3> HIDE DEF c, d
    <3> QED
      BY <1>9, <3>2, CoverOfNothing
  <2> QED
    BY <2>1, <2>2
<1>12. a \in Int /\ b \in Int /\ c \in Int /\ d \in Int
  BY <1>7, <1>8
<1>13. /\ SumOverCdps(lost2) - (credited[u] - surplusCollShares[u]) = a + c
       /\ SumOverCdps(repaid2) = b + d
  <2>1. SumOverCdps(lost2) = SumOverCdps(lost) - 0 + lost2[id]
    BY <1>4, <1>6
  <2>2. SumOverCdps(repaid2) = SumOverCdps(repaid) - 0 + repaid2[id]
    BY <1>4, <1>6
  <2> QED
    BY <1>7, <1>8, <2>1, <2>2
<1> HIDE DEF a, b, c, d
<1>14. IsCovered(a + c, b + d)
  BY <1>9, <1>10, <1>11, <1>12, CoversAddUp
<1> QED
  BY <1>13, <1>14 DEF IsAtFaceValue, lost2, repaid2

IsFaceValueLoop(r, feeIndex) ==
  r.ok => \A u \in Users : IsAtFaceValue(u, r.Cdps, r.surplusOf, feeIndex)

LEMMA RedeemStepIsAtFaceValue ==
  ASSUME LedgerInv, NEW g \in GlobalRecords, NEW debt \in Nat,
         NEW first \in 1 .. Len(sortedCdps), NEW n \in Nat, n < first,
         NEW r, IsRedeemed(r, debt, n), IsKeptLoop(r, first, n), IsFaceValueLoop(r, g.feeIndex),
         NEW hintMatches
  PROVE  IsFaceValueLoop(RedeemFromCdp(r, sortedCdps[first - n], g, hintMatches), g.feeIndex)
<1> DEFINE id == sortedCdps[first - n]
           cdp == SyncedCdp(id, g.feeIndex)
           debtToRedeem == Lesser(r.remaining, cdp.debt)
           drawn == CollDrawn(debtToRedeem)
           newDebt == cdp.debt - debtToRedeem
           newColl == cdp.coll - drawn
           isPartial == /\ hintMatches
                        /\ GetPooledEthByShares(newColl) >= MIN_NET_STETH_BALANCE
                        /\ DebtIsEnough(newDebt)
           collLeft == IF isPartial THEN newColl ELSE cdp.coll
           debtLeft == IF isPartial THEN newDebt ELSE cdp.debt
           newStake == ComputeNewStake(collLeft, g.stakesSnapshot, g.collSnapshot)
           restaked == UpdatedCdp(cdp, collLeft, debtLeft, newStake)
           closedCdp == ClosedCdp(cdp, "closedByRedemption")
           reward == cdp.liquidatorRewardShares
           after == RedeemFromCdp(r, id, g, hintMatches)
<1>0. TypeOK /\ IndicesAreReached /\ CdpsAreProper(Cdps) /\ EnvTypeOK
  BY DEF LedgerInv, CdpBooks, TypeOK
<1>1. CASE r.remaining = 0 \/ r.cancelled
  BY <1>1 DEF RedeemFromCdp
<1>2. CASE ~(r.remaining = 0 \/ r.cancelled)
  <2> SUFFICES ASSUME after.ok, NEW u \in Users
               PROVE  IsAtFaceValue(u, after.Cdps, after.surplusOf, g.feeIndex)
    BY DEF IsFaceValueLoop
  <2>1. r.ok /\ newColl >= 0
    BY <1>2 DEF RedeemFromCdp
  <2>2. /\ r.Cdps \in [CdpIds -> CdpRecords] /\ r.surplusOf \in [Users -> Nat]
        /\ r.remaining \in Nat
    BY <2>1 DEF IsRedeemed
  <2>3. first - n \in 1 .. Len(sortedCdps) /\ first - n \in 1 .. first - n
    BY <1>0 DEF TypeOK, ListTypeOK
  <2>4. id \in CdpIds /\ IsActive(id) /\ r.Cdps[id] = Cdps[id]
    BY <2>1, <2>3, PlaceFacts DEF IsKeptLoop
  <2>5. /\ cdp \in CdpRecords /\ cdp.status = "active" /\ cdp.owner \in Users
        /\ cdp.owner = Cdps[id].owner /\ g.feeIndex \in Nat
    BY <1>0, <2>4, SyncedFields DEF GlobalRecords
  <2>6. cdp.coll \in Nat /\ cdp.debt \in Nat /\ cdp.stake \in Nat /\ reward \in Nat
    BY <2>5, RecordFields
  <2>7. debtToRedeem \in Nat /\ drawn \in Nat /\ debtToRedeem <= cdp.debt
    BY <1>0, <2>2, <2>6, LesserIsNat, DrawnIsNat
  <2>8. newColl \in Nat /\ newDebt \in Nat
    BY <2>1, <2>6, <2>7, SMTT(30)
  <2>9. IsAtFaceValue(u, r.Cdps, r.surplusOf, g.feeIndex)
    BY <2>1 DEF IsFaceValueLoop
  <2>10. IsCovered(drawn, debtToRedeem)
    BY <1>0, <2>7, DrawnIsCovered
  <2>11. CASE newDebt = 0
    <3>1. /\ after.Cdps = [r.Cdps EXCEPT ![id] = closedCdp]
          /\ after.surplusOf = SurplusCredited(r.surplusOf, cdp.owner, newColl + reward)
      BY <1>2, <2>11 DEF RedeemFromCdp
    <3>2. /\ closedCdp \in CdpRecords /\ closedCdp.coll = 0 /\ closedCdp.debt = 0
          /\ closedCdp.liquidatorRewardShares = 0
      BY <2>5, ClosedCdpType DEF Statuses, ClosedCdp, NoCdp
    <3>3. /\ (cdp.coll + reward) - (0 + 0) - (newColl + reward) = drawn
          /\ cdp.debt - 0 = debtToRedeem
      BY <2>6, <2>7, <2>11, SMTT(30)
    <3> DEFINE credited == after.surplusOf
               dLost == (cdp.coll + reward) - (closedCdp.coll + closedCdp.liquidatorRewardShares)
               dRepaid == cdp.debt - closedCdp.debt
    <3>4. newColl + reward \in Nat
      BY <2>6, <2>8
    <3>5. /\ credited \in [Users -> Nat]
          /\ \A v \in Users : v # cdp.owner => credited[v] = r.surplusOf[v]
          /\ credited[cdp.owner] = r.surplusOf[cdp.owner] + (newColl + reward)
      BY <2>2, <2>5, <3>1, <3>4, SMTT(30) DEF SurplusCredited
    <3>6. closedCdp # Cdps[id]
      <4>1. closedCdp.status = "closedByRedemption" /\ Cdps[id].status = "active"
        BY <2>4 DEF ClosedCdp, NoCdp, IsActive
      <4> HIDE DEF closedCdp, id
      <4> QED
        BY <4>1
    <3>7. ASSUME Cdps[id].owner = u
          PROVE  IsCovered(dLost - (credited[u] - r.surplusOf[u]), dRepaid)
      <4>1. /\ dLost = (cdp.coll + reward) - (0 + 0) /\ dRepaid = cdp.debt - 0
        BY <3>2
      <4>2. credited[u] - r.surplusOf[u] = newColl + reward
        <5>1. r.surplusOf[u] \in Int /\ newColl + reward \in Int
          BY <2>2, <3>4
        <5> HIDE DEF credited, newColl, reward, cdp
        <5> QED
          BY <2>5, <3>5, <3>7, <5>1
      <4>3. dLost - (credited[u] - r.surplusOf[u]) = drawn /\ dRepaid = debtToRedeem
        <5> HIDE DEF dLost, dRepaid, credited, newColl, drawn, debtToRedeem, reward, cdp
        <5> QED
          BY <3>3, <4>1, <4>2
      <4> QED
        BY <2>10, <4>3
    <3>8. Cdps[id].owner # u => credited[u] = r.surplusOf[u]
      BY <2>5, <3>5
    <3> HIDE DEF after, closedCdp, credited, newColl, newDebt, drawn, debtToRedeem, id
    <3>9. Replaces(after.Cdps, r.Cdps, id, closedCdp)
      <4>1. r.Cdps \in [CdpIds -> CdpRecords] /\ id \in CdpIds /\ closedCdp \in CdpRecords
        BY <2>2, <2>4, <3>2
      <4>2. Replaces([r.Cdps EXCEPT ![id] = closedCdp], r.Cdps, id, closedCdp)
        BY <4>1, ExceptReplaces
      <4>3. after.Cdps = [r.Cdps EXCEPT ![id] = closedCdp]
        BY <3>1
      <4> QED
        BY <4>2, <4>3
    <3>10. /\ closedCdp = Cdps[id] \/ Cdps[id].owner # u => credited[u] = r.surplusOf[u]
           /\ closedCdp # Cdps[id] /\ Cdps[id].owner = u =>
                IsCovered(dLost - (credited[u] - r.surplusOf[u]), dRepaid)
      BY <3>6, <3>7, <3>8
    <3>11. IsFairTo(u, id, closedCdp, r.surplusOf, credited, g.feeIndex)
      BY <3>10 DEF IsFairTo
    <3>12. credited \in [Users -> Nat] /\ closedCdp \in CdpRecords
      BY <3>2, <3>5
    <3> HIDE DEF cdp, reward
    <3>13. IsAtFaceValue(u, after.Cdps, credited, g.feeIndex)
      BY <1>0, <2>2, <2>4, <2>5, <2>9, <3>9, <3>11, <3>12, FaceValueChanged
    <3> QED
      BY <3>13 DEF credited
  <2>12. CASE newDebt # 0
    <3>1. after.Cdps = [r.Cdps EXCEPT ![id] = restaked] /\ after.surplusOf = r.surplusOf
      BY <1>2, <2>12 DEF RedeemFromCdp
    <3>2. newStake \in Nat /\ collLeft \in Nat /\ debtLeft \in Nat
      BY <2>6, <2>8, StakeIsNat DEF GlobalRecords
    <3>3. IsCovered(cdp.coll - collLeft, cdp.debt - debtLeft)
      <4>1. CASE isPartial
        <5>1. cdp.coll - collLeft = drawn /\ cdp.debt - debtLeft = debtToRedeem
          BY <2>6, <2>7, <4>1
        <5> QED
          BY <2>10, <5>1
      <4>2. CASE ~isPartial
        <5>1. cdp.coll - collLeft = 0 /\ cdp.debt - debtLeft = 0
          BY <2>6, <4>2
        <5> QED
          BY <1>0, <5>1, CoverOfNothing
      <4> QED
        BY <4>1, <4>2
    <3> HIDE DEF cdp, collLeft, debtLeft, newStake, after
    <3>4. /\ restaked \in CdpRecords /\ restaked.coll = collLeft /\ restaked.debt = debtLeft
          /\ restaked.liquidatorRewardShares = reward
      BY <2>5, <3>2 DEF UpdatedCdp, CdpRecords
    <3> HIDE DEF restaked, id, reward
    <3>5. Replaces(after.Cdps, r.Cdps, id, restaked)
      <4>1. r.Cdps \in [CdpIds -> CdpRecords] /\ id \in CdpIds /\ restaked \in CdpRecords
        BY <2>2, <2>4, <3>4
      <4>2. Replaces([r.Cdps EXCEPT ![id] = restaked], r.Cdps, id, restaked)
        BY <4>1, ExceptReplaces
      <4>3. after.Cdps = [r.Cdps EXCEPT ![id] = restaked]
        BY <3>1
      <4> QED
        BY <4>2, <4>3
    <3>6. /\ (cdp.coll + reward) - (restaked.coll + restaked.liquidatorRewardShares)
               - (r.surplusOf[u] - r.surplusOf[u]) = cdp.coll - collLeft
          /\ cdp.debt - restaked.debt = cdp.debt - debtLeft
      <4>1. r.surplusOf[u] \in Int
        BY <2>2
      <4> QED
        BY <2>6, <3>2, <3>4, <4>1, SMTT(30)
    <3>7. IsCovered((cdp.coll + reward) - (restaked.coll + restaked.liquidatorRewardShares)
                      - (r.surplusOf[u] - r.surplusOf[u]),
                    cdp.debt - restaked.debt)
      BY <3>3, <3>6
    <3>8. IsFairTo(u, id, restaked, r.surplusOf, r.surplusOf, g.feeIndex)
      BY <3>7 DEF IsFairTo, cdp, reward
    <3>9. IsAtFaceValue(u, after.Cdps, r.surplusOf, g.feeIndex)
      BY <1>0, <2>2, <2>4, <2>5, <2>9, <3>4, <3>5, <3>8, FaceValueChanged
    <3> QED
      BY <3>1, <3>9
  <2> QED
    BY <2>11, <2>12
<1> QED
  BY <1>1, <1>2

LEMMA NothingIsAtFaceValue ==
  ASSUME LedgerInv, NEW feeIndex \in Nat, NEW debt
  PROVE  IsFaceValueLoop(NothingRedeemed(debt), feeIndex)
<1> SUFFICES ASSUME NEW u \in Users
             PROVE  IsAtFaceValue(u, Cdps, surplusCollShares, feeIndex)
  BY DEF IsFaceValueLoop, NothingRedeemed
<1>1. TypeOK /\ EnvTypeOK
  BY DEF LedgerInv, TypeOK
<1> DEFINE lost == LostBy(u, Cdps, feeIndex)
           repaid == RepaidBy(u, Cdps, feeIndex)
<1>2. /\ \A i \in CdpIds : lost[i] = 0
      /\ \A i \in CdpIds : repaid[i] = 0
  BY DEF LostBy, RepaidBy
<1> HIDE DEF lost, repaid
<1>3. SumOverCdps(lost) = 0 /\ SumOverCdps(repaid) = 0
  BY <1>2, CdpIdsAreFinite, SumOfZeros DEF SumOverCdps
<1>4. surplusCollShares[u] - surplusCollShares[u] = 0
  BY <1>1 DEF TypeOK, SurplusTypeOK
<1>5. 0 - 0 = 0
  OBVIOUS
<1> QED
  BY <1>1, <1>3, <1>4, <1>5, CoverOfNothing DEF IsAtFaceValue, lost, repaid

LEMMA LoopIsAtFaceValue ==
  ASSUME LedgerInv, NEW g \in GlobalRecords, NEW debt \in Nat,
         NEW first \in 1 .. Len(sortedCdps), NEW hintMatches
  PROVE  \A n \in 0 .. first :
           IsFaceValueLoop(RedeemedAfter(debt, first, g, hintMatches)[n], g.feeIndex)
<1> DEFINE after == RedeemedAfter(debt, first, g, hintMatches)
           T == {n \in 0 .. first : IsFaceValueLoop(after[n], g.feeIndex)}
<1>0. /\ TypeOK /\ IndicesAreReached /\ first \in Nat /\ first <= Len(sortedCdps)
      /\ Len(sortedCdps) \in Nat /\ g.feeIndex \in Nat
  BY DEF LedgerInv, TypeOK, ListTypeOK, GlobalRecords
<1>1. IsLoop(after, debt, first, g, hintMatches)
  BY <1>0, RedeemedAfterUnfolds
<1>2. \A n \in 0 .. first : IsRedeemed(after[n], debt, n) /\ IsKeptLoop(after[n], first, n)
  BY <1>0, RedeemedAfterType, RedeemedAfterBooks
<1> HIDE DEF after
<1>3. 0 \in T
  BY <1>0, <1>1, NothingIsAtFaceValue DEF IsLoop
<1>4. ASSUME NEW n \in 1 .. first, n - 1 \in T PROVE n \in T
  <2> DEFINE m == n - 1
  <2>1. m \in Nat /\ m < first /\ m \in 0 .. first /\ first - n + 1 = first - m
    BY <1>0
  <2>2. /\ IsRedeemed(after[m], debt, m) /\ IsKeptLoop(after[m], first, m)
        /\ IsFaceValueLoop(after[m], g.feeIndex)
    BY <1>2, <1>4, <2>1
  <2>3. after[n] = RedeemFromCdp(after[m], sortedCdps[first - m], g, hintMatches)
    BY <1>1, <2>1 DEF IsLoop
  <2> HIDE DEF m
  <2>4. IsFaceValueLoop(after[n], g.feeIndex)
    BY <2>1, <2>2, <2>3, RedeemStepIsAtFaceValue
  <2> QED
    BY <2>4
<1>5. \A n \in 0 .. first : n \in T
  <2> HIDE DEF T
  <2> QED
    BY <1>0, <1>3, <1>4, IntervalInduction
<1> QED
  BY <1>5 DEF after

FaceValueStep ==
  \A u \in Users : IsAtFaceValue(u, Cdps', surplusCollShares', SyncedGlobal.feeIndex)

LEMMA RedemptionActionIsAtFaceValue ==
  ASSUME LedgerInv, RedemptionAction PROVE FaceValueStep
<1>1. PICK redeemer \in Users, debt \in RedemptionDebts, first \in 1 .. Len(sortedCdps),
           maxIterations \in MaxIterations, hintMatches \in BOOLEAN,
           twapDebt \in {systemDebt} \cup {Lesser(o, systemDebt) : o \in TwapObservations},
           k \in 0 .. Len(sortedCdps) - 1 :
           RedeemCollateral(redeemer, debt, first, maxIterations, hintMatches, twapDebt, k)
  BY DEF RedemptionAction
<1> DEFINE g == SyncedGlobal
           steps == IF maxIterations = 0 THEN first ELSE Lesser(maxIterations, first)
           r == RedeemedAfter(debt, first, g, hintMatches)[steps]
<1>2. /\ r.ok /\ Cdps' = r.Cdps /\ surplusCollShares' = r.surplusOf /\ SyncGlobalSucceeds
  BY <1>1 DEF RedeemCollateral, RedeemSynced, SyncFeeIndices
<1>3. /\ debt \in Nat /\ maxIterations \in Nat /\ g \in GlobalRecords
      /\ TypeOK /\ IndicesAreReached /\ first \in Nat
  BY <1>2, RedemptionInputAssumption, SyncedGlobalType DEF LedgerInv, TypeOK, ListTypeOK
<1>4. steps \in 0 .. first
  <2>1. Lesser(maxIterations, first) \in Nat /\ Lesser(maxIterations, first) <= first
    BY <1>3, LesserIsNat
  <2> QED
    BY <1>3, <2>1
<1>5. IsFaceValueLoop(r, g.feeIndex)
  BY <1>3, <1>4, LoopIsAtFaceValue
<1> HIDE DEF r, g
<1> QED
  BY <1>2, <1>5 DEF IsFaceValueLoop, FaceValueStep, g

(* A redemption takes no more of any owner's collateral than it takes debt   *)
(* off it, at the price: summed over all CDPs of the owner which the loop    *)
(* visits, closed, reduced or merely synced, less the surplus credited.      *)
THEOREM FaceValueTheorem == Spec => RedemptionIsAtFaceValue
<1> DEFINE IInv == LedgerInv /\ PoolMargin >= 0
           Fair == ~RedeemsAtFaceValue => ~RedemptionAction
<1>1. Init => IInv
  BY InitBooks
<1>2. IInv /\ [Next]_vars => IInv'
  BY BooksAreInvariant
<1>3. IInv /\ [Next]_vars => [Fair]_vars
  <2> SUFFICES ASSUME FaceValueStep PROVE RedeemsAtFaceValue
    BY RedemptionActionIsAtFaceValue
  <2> DEFINE f == SyncedGlobal.feeIndex
  <2>1. ASSUME NEW u, NEW id \in CdpIds
        PROVE  id \in {i \in Touched : Cdps[i].owner = u}
                 <=> Cdps'[id] # Cdps[id] /\ Cdps[id].owner = u
    BY DEF Touched
  <2>2. ASSUME NEW u \in Users
        PROVE  /\ LostBy(u, Cdps', f)
                    = [id \in CdpIds |-> IF id \in {i \in Touched : Cdps[i].owner = u}
                         THEN (Synced(id).coll + Synced(id).liquidatorRewardShares)
                                - (Cdps'[id].coll + Cdps'[id].liquidatorRewardShares)
                         ELSE 0]
               /\ RepaidBy(u, Cdps', f)
                    = [id \in CdpIds |-> IF id \in {i \in Touched : Cdps[i].owner = u}
                         THEN Synced(id).debt - Cdps'[id].debt ELSE 0]
    BY <2>1 DEF LostBy, RepaidBy, Synced
  <2> QED
    BY <2>2 DEF FaceValueStep, IsAtFaceValue, IsCovered, RedeemsAtFaceValue
<1> QED
  BY <1>1, <1>2, <1>3, PTL DEF Spec, RedemptionIsAtFaceValue

(* --- Nothing but dust is lost ------------------------------------------ *)

\* The debt of a CDP with what is pending of it, as a sync would store it
DueDebt(cdp) == cdp.debt + PendingDebt(cdp)

\* The CDP was synced in this state, or has no stake that debt could pend on.
IsUpToDate(cdp) == cdp.debtIndex = systemDebtRedistributionIndex \/ cdp.stake = 0

\* On the way from Cdps to C, CDPs are left alone or brought up to date.
IsSettled(C) == \A id \in CdpIds : C[id] = Cdps[id] \/ IsUpToDate(C[id])

\* What is repaid of the CDPs on that way (less than nothing: borrowed), and
\* what of the debt pending is lost to rounding, scaled
RepaidIn(C) ==
  [id \in CdpIds |-> IF C[id] # Cdps[id] THEN DueDebt(Cdps[id]) - C[id].debt ELSE 0]

RoundedIn(C) ==
  [id \in CdpIds |->
     IF C[id] # Cdps[id]
     THEN ScaledDebt(Cdps[id]) - DueDebt(Cdps[id]) * DECIMAL_PRECISION ELSE 0]

OwedIn(C) == [id \in CdpIds |-> ScaledDebt(C[id])]
ChangedIn(C) == {id \in CdpIds : C[id] # Cdps[id]}

LEMMA DueDebtFacts ==
  ASSUME TypeOK, IndicesAreReached, NEW id \in CdpIds
  PROVE  /\ DueDebt(Cdps[id]) \in Nat /\ ScaledDebt(Cdps[id]) \in Nat
         /\ ScaledDebt(Cdps[id]) - DueDebt(Cdps[id]) * DECIMAL_PRECISION \in 0 .. DECIMAL_PRECISION
         /\ IsUpToDate(Cdps[id]) => DueDebt(Cdps[id]) = Cdps[id].debt
<1> DEFINE cdp == Cdps[id]
           behind == systemDebtRedistributionIndex - cdp.debtIndex
           pending == cdp.stake * behind
           D == DECIMAL_PRECISION
<1>1. cdp \in CdpRecords /\ cdp.stake \in Nat /\ cdp.debt \in Nat /\ cdp.debtIndex \in Nat
  BY DEF TypeOK, CdpTypeOK, CdpRecords
<1>2. systemDebtRedistributionIndex \in Nat /\ D \in Nat \ {0}
  BY ScaleAssumption DEF TypeOK, RedistributionTypeOK
<1>3. behind \in Nat
  BY <1>1, <1>2 DEF IndicesAreReached
<1>4. pending \in Nat
  BY <1>1, <1>3, ProductIsNat
<1>5. /\ DueDebt(cdp) = cdp.debt + pending \div D
      /\ ScaledDebt(cdp) = cdp.debt * D + pending
  BY DEF DueDebt, PendingDebt, ScaledDebt
<1>6. IsUpToDate(cdp) => pending = 0
  BY <1>1, <1>2, <1>3 DEF IsUpToDate
<1> HIDE DEF cdp, pending, D
<1>7. pending \div D \in Nat /\ pending - (pending \div D) * D \in 0 .. D
  BY <1>2, <1>4
<1>8. cdp.debt * D \in Nat
  BY <1>1, <1>2, ProductIsNat
<1>9. (cdp.debt + pending \div D) * D = cdp.debt * D + (pending \div D) * D
  BY <1>1, <1>2, <1>7
<1>10. (pending \div D) * D \in Nat
  BY <1>2, <1>7, ProductIsNat
<1>11. ScaledDebt(cdp) - DueDebt(cdp) * D = pending - (pending \div D) * D
  BY <1>4, <1>5, <1>8, <1>9, <1>10
<1>12. DueDebt(cdp) \in Nat /\ ScaledDebt(cdp) \in Nat
  BY <1>1, <1>4, <1>5, <1>7, <1>8
<1>13. IsUpToDate(cdp) => DueDebt(cdp) = cdp.debt
  BY <1>1, <1>2, <1>5, <1>6
<1> QED
  BY <1>7, <1>11, <1>12, <1>13 DEF cdp, D

\* What a CDP that is up to date owes is its debt.
LEMMA UpToDateOwes ==
  ASSUME TypeOK, NEW cdp \in CdpRecords, IsUpToDate(cdp)
  PROVE  ScaledDebt(cdp) = cdp.debt * DECIMAL_PRECISION
<1>1. cdp.stake \in Nat /\ cdp.debt \in Nat /\ cdp.debtIndex \in Nat
  BY DEF CdpRecords
<1>2. systemDebtRedistributionIndex \in Nat /\ DECIMAL_PRECISION \in Nat
  BY ScaleAssumption DEF TypeOK, RedistributionTypeOK
<1>3. cdp.debt * DECIMAL_PRECISION \in Nat
  BY <1>1, <1>2, ProductIsNat
<1>4. cdp.stake * (systemDebtRedistributionIndex - cdp.debtIndex) = 0
  BY <1>1, <1>2 DEF IsUpToDate
<1> QED
  BY <1>3, <1>4 DEF ScaledDebt

LEMMA DebtMoves ==
  ASSUME TypeOK, IndicesAreReached, NEW C \in [CdpIds -> CdpRecords], IsSettled(C)
  PROVE  /\ SumOverCdps(OwedIn(C)) \in Int /\ SumOverCdps(RepaidIn(C)) \in Int
         /\ SumOverCdps(OwedIn(Cdps)) - SumOverCdps(OwedIn(C))
               - DECIMAL_PRECISION * SumOverCdps(RepaidIn(C))
              \in 0 .. Cardinality(ChangedIn(C)) * DECIMAL_PRECISION
<1> DEFINE D == DECIMAL_PRECISION
           before == OwedIn(Cdps)
           after == OwedIn(C)
           repaid == RepaidIn(C)
           rounded == RoundedIn(C)
           most == [id \in CdpIds |-> after[id] + D * repaid[id]]
<1>0. D \in Nat \ {0} /\ IsFiniteSet(CdpIds)
  BY ScaleAssumption, CdpIdsAreFinite
<1>1. ASSUME NEW id \in CdpIds
      PROVE  /\ after[id] \in Int /\ repaid[id] \in Int /\ rounded[id] \in 0 .. D
             /\ before[id] = most[id] + 1 * rounded[id]
             /\ id \notin ChangedIn(C) => rounded[id] = 0
  <2> DEFINE old == Cdps[id]
             new == C[id]
  <2>1. /\ DueDebt(old) \in Nat /\ ScaledDebt(old) \in Nat
        /\ ScaledDebt(old) - DueDebt(old) * D \in 0 .. D
    BY DueDebtFacts
  <2>2. /\ after[id] = ScaledDebt(new) /\ before[id] = ScaledDebt(old)
        /\ most[id] = after[id] + D * repaid[id]
    BY DEF OwedIn
  <2>3. new \in CdpRecords /\ new.debt \in Nat
    BY RecordFields
  <2>4. CASE new = old
    <3>1. repaid[id] = 0 /\ rounded[id] = 0
      BY <2>4 DEF RepaidIn, RoundedIn
    <3> HIDE DEF after, before, repaid, rounded, most, new, old
    <3>2. D * 0 = 0 /\ 1 * 0 = 0
      BY <1>0
    <3> QED
      BY <1>0, <2>1, <2>2, <2>4, <3>1, <3>2
  <2>5. CASE new # old
    <3>1. repaid[id] = DueDebt(old) - new.debt /\ rounded[id] = ScaledDebt(old) - DueDebt(old) * D
      BY <2>5 DEF RepaidIn, RoundedIn
    <3>2. ScaledDebt(new) = new.debt * D
      BY <2>3, <2>5, UpToDateOwes DEF IsSettled
    <3>3. id \in ChangedIn(C)
      BY <2>5 DEF ChangedIn
    <3> HIDE DEF after, before, repaid, rounded, most, new, old, D
    <3>4. new.debt * D \in Nat /\ DueDebt(old) * D \in Nat
      BY <1>0, <2>1, <2>3, ProductIsNat
    <3>5. D * (DueDebt(old) - new.debt) = DueDebt(old) * D - new.debt * D
      BY <1>0, <2>1, <2>3
    <3>6. most[id] = DueDebt(old) * D
      BY <2>2, <3>1, <3>2, <3>4, <3>5
    <3>7. before[id] = most[id] + 1 * rounded[id]
      BY <2>1, <2>2, <3>1, <3>4, <3>6
    <3> QED
      BY <2>1, <2>2, <2>3, <3>1, <3>2, <3>3, <3>4, <3>7
  <2> QED
    BY <2>4, <2>5
<1>2. \A id \in CdpIds : most[id] \in Int
  <2>1. \A x, y \in Int : x + D * y \in Int
    BY <1>0
  <2> HIDE DEF after, repaid, D
  <2> QED
    BY <1>1, <2>1
<1> HIDE DEF before, after, repaid, rounded, D
<1>3. \A id \in CdpIds : most[id] = after[id] + D * repaid[id]
  OBVIOUS
<1> HIDE DEF most
<1>4. SumFunctionOnSet(before, CdpIds)
        = SumFunctionOnSet(most, CdpIds) + 1 * SumFunctionOnSet(rounded, CdpIds)
  <2>1. \A id \in CdpIds : /\ most[id] \in Int /\ rounded[id] \in Int
                           /\ before[id] = most[id] + 1 * rounded[id]
    BY <1>1, <1>2
  <2> QED
    BY <1>0, <2>1, SumIsLinear
<1>5. SumFunctionOnSet(most, CdpIds)
        = SumFunctionOnSet(after, CdpIds) + D * SumFunctionOnSet(repaid, CdpIds)
  <2>1. D \in Int
    BY <1>0
  <2> QED
    BY <1>0, <1>1, <1>3, <2>1, SumIsLinear
<1>6. SumFunctionOnSet(rounded, CdpIds) \in 0 .. Cardinality(ChangedIn(C)) * D
  <2>1. ChangedIn(C) \in SUBSET CdpIds
    BY DEF ChangedIn
  <2> QED
    BY <1>0, <1>1, <2>1, SumOfSmall
<1>7. SumFunctionOnSet(after, CdpIds) \in Int /\ SumFunctionOnSet(repaid, CdpIds) \in Int
  BY <1>0, <1>1, SumIsInt
<1> DEFINE a == SumOverCdps(after)
           p == SumOverCdps(repaid)
           r == SumOverCdps(rounded)
<1>8. /\ SumOverCdps(before) = (a + D * p) + 1 * r /\ a \in Int /\ p \in Int
      /\ r \in 0 .. Cardinality(ChangedIn(C)) * D
  BY <1>4, <1>5, <1>6, <1>7 DEF SumOverCdps
<1> HIDE DEF a, p, r
<1>9. D * p \in Int /\ r \in Int
  BY <1>0, <1>8
<1>10. SumOverCdps(before) - a - D * p = r
  BY <1>8, <1>9
<1> QED
  BY <1>8, <1>10 DEF before, after, repaid, D, a, p

\* What the CDPs owe, as a function of the state
Owed == OwedIn(Cdps)

LEMMA DustIsWhatIsNotOwed ==
  /\ DebtDust = systemDebt * DECIMAL_PRECISION - lastEBTCDebtErrorRedistribution
                  - SumOverCdps(Owed)
  /\ DebtDust' = systemDebt' * DECIMAL_PRECISION - lastEBTCDebtErrorRedistribution'
                   - SumOverCdps(Owed')
  BY DEF DebtDust, Owed, OwedIn

\* The CDPs are settled, and then owe `shared' more by a move of the index.
LEMMA DustMoves ==
  ASSUME TypeOK, IndicesAreReached, Cdps' \in [CdpIds -> CdpRecords], IsSettled(Cdps'),
         systemDebt' \in Int, lastEBTCDebtErrorRedistribution' \in Int, NEW shared \in Int,
         SumOverCdps(Owed') = SumOverCdps(OwedIn(Cdps')) + shared,
         systemDebt' * DECIMAL_PRECISION - lastEBTCDebtErrorRedistribution' - shared
           = systemDebt * DECIMAL_PRECISION - lastEBTCDebtErrorRedistribution
               - DECIMAL_PRECISION * SumOverCdps(RepaidIn(Cdps'))
  PROVE  DebtLosesOnlyDust
<1> DEFINE D == DECIMAL_PRECISION
           before == systemDebt * D - lastEBTCDebtErrorRedistribution
           after == systemDebt' * D - lastEBTCDebtErrorRedistribution'
           owed == SumOverCdps(OwedIn(Cdps))
           owing == SumOverCdps(OwedIn(Cdps'))
           repaid == D * SumOverCdps(RepaidIn(Cdps'))
           most == Cardinality(ChangedIn(Cdps')) * D
<1>1. D \in Nat
  BY ScaleAssumption
<1>2. systemDebt \in Int /\ lastEBTCDebtErrorRedistribution \in Int
  BY DEF TypeOK, PoolTypeOK, RedistributionTypeOK
<1>3. \A x \in Int : x * D \in Int /\ D * x \in Int
  BY <1>1
<1>4. before \in Int /\ after \in Int
  BY <1>2, <1>3
<1>5. /\ owing \in Int /\ SumOverCdps(RepaidIn(Cdps')) \in Int
      /\ owed - owing - repaid \in 0 .. most
  BY DebtMoves
<1>6. owed \in Int
  <2>1. IsSettled(Cdps) /\ Cdps \in [CdpIds -> CdpRecords]
    BY DEF IsSettled, TypeOK, CdpTypeOK
  <2> QED
    BY <2>1, DebtMoves
<1>7. repaid \in Int
  BY <1>3, <1>5
<1>8. after - shared = before - repaid
  OBVIOUS
<1>9. DebtDust = before - owed /\ DebtDust' = after - (owing + shared)
  BY DustIsWhatIsNotOwed DEF Owed
<1>10. ChangedIn(Cdps') = Touched
  BY DEF ChangedIn, Touched
<1> HIDE DEF before, after, owed, owing, repaid, most
<1>11. DebtDust' - DebtDust = owed - owing - repaid
  BY <1>4, <1>5, <1>6, <1>7, <1>8, <1>9
<1>12. DebtDust' - DebtDust \in 0 .. most
  BY <1>5, <1>11
<1> QED
  BY <1>10, <1>12 DEF DebtLosesOnlyDust, most

\* What is repaid leaves the system's debt, and nothing is redistributed.
LEMMA DustKept ==
  ASSUME TypeOK, IndicesAreReached, Cdps' \in [CdpIds -> CdpRecords], IsSettled(Cdps'),
         UNCHANGED redistributionVars,
         systemDebt' = systemDebt - SumOverCdps(RepaidIn(Cdps'))
  PROVE  DebtLosesOnlyDust
<1> DEFINE D == DECIMAL_PRECISION
           repaid == SumOverCdps(RepaidIn(Cdps'))
           error == lastEBTCDebtErrorRedistribution
<1>1. D \in Nat /\ systemDebt \in Int /\ error \in Int /\ error' = error
  BY ScaleAssumption DEF TypeOK, PoolTypeOK, RedistributionTypeOK, redistributionVars
<1>2. SumOverCdps(OwedIn(Cdps')) \in Int /\ repaid \in Int
  BY DebtMoves
<1>3. SumOverCdps(Owed') = SumOverCdps(OwedIn(Cdps')) + 0
  <2>1. Owed' = OwedIn(Cdps')
    BY DEF Owed, OwedIn, ScaledDebt, redistributionVars
  <2> QED
    BY <2>1, <1>2
<1> HIDE DEF repaid, D
<1>4. systemDebt' = systemDebt - repaid
  BY DEF repaid
<1>5. systemDebt' \in Int /\ systemDebt' * D = systemDebt * D - D * repaid
  BY <1>1, <1>2, <1>4
<1>6. systemDebt' * D \in Int /\ systemDebt * D \in Int /\ D * repaid \in Int
  BY <1>1, <1>2, <1>5
<1>7. systemDebt' * D - error' - 0 = systemDebt * D - error - D * repaid
  BY <1>1, <1>5, <1>6
<1> QED
  BY <1>1, <1>3, <1>5, <1>7, DustMoves DEF repaid, D

LEMMA QuotientAndRest ==
  ASSUME NEW n \in Int, NEW d \in Int, d > 0 PROVE n % d = n - (n \div d) * d
  OBVIOUS

LEMMA DivisionFacts ==
  ASSUME NEW n \in Int, NEW d \in Int, n >= 0, d > 0
  PROVE  /\ n \div d \in Nat /\ (n \div d) * d \in Nat /\ n % d \in Nat
         /\ (n \div d) * d + (n % d) = n
<1>1. n \div d \in Nat /\ n % d \in Nat
  OBVIOUS
<1>2. (n \div d) * d \in Nat
  <2>1. d \in Nat
    OBVIOUS
  <2> QED
    BY <1>1, <2>1, ProductIsNat
<1>3. n % d = n - (n \div d) * d
  BY QuotientAndRest
<1>4. (n \div d) * d + (n % d) = n
  BY <1>1, <1>2, <1>3
<1> QED
  BY <1>1, <1>2, <1>4

\* The bad debt is passed on through the index, with what it could not share out
\* before, and the rest is kept for the next time.
LEMMA DustShared ==
  ASSUME TypeOK, IndicesAreReached, Cdps' \in [CdpIds -> CdpRecords], IsSettled(Cdps'),
         NEW burnt \in Int, NEW bad \in Nat, NEW stakes \in Nat \ {0},
         stakes = SumOverCdps(StakesOf(Cdps')),
         systemDebtRedistributionIndex' = systemDebtRedistributionIndex
           + (bad * DECIMAL_PRECISION + lastEBTCDebtErrorRedistribution) \div stakes,
         lastEBTCDebtErrorRedistribution'
           = (bad * DECIMAL_PRECISION + lastEBTCDebtErrorRedistribution) % stakes,
         systemDebt' = systemDebt - burnt,
         SumOverCdps(RepaidIn(Cdps')) = burnt + bad
  PROVE  DebtLosesOnlyDust
<1> DEFINE D == DECIMAL_PRECISION
           I == systemDebtRedistributionIndex
           error == lastEBTCDebtErrorRedistribution
           scaled == bad * D + error
           rise == scaled \div stakes
           shared == rise * stakes
           repaid == SumOverCdps(RepaidIn(Cdps'))
           owing == OwedIn(Cdps')
<1>1. D \in Nat /\ systemDebt \in Int /\ error \in Nat /\ I \in Nat
  BY ScaleAssumption DEF TypeOK, PoolTypeOK, RedistributionTypeOK
<1>2. scaled \in Nat
  BY <1>1, ProductIsNat
<1>3. I' = I + rise /\ error' = scaled % stakes
  OBVIOUS
<1>4. rise \in Nat /\ shared \in Nat /\ error' \in Nat /\ shared + error' = scaled
  <2> HIDE DEF scaled
  <2>1. scaled \in Int /\ scaled >= 0 /\ stakes \in Int /\ stakes > 0
    BY <1>2
  <2> QED
    BY <1>3, <2>1, DivisionFacts
<1>5. SumOverCdps(Owed') = SumOverCdps(owing) + rise * SumOverCdps(StakesOf(Cdps'))
  <2>1. \A id \in CdpIds : /\ Cdps'[id].stake \in Nat /\ Cdps'[id].debt \in Nat
                           /\ Cdps'[id].debtIndex \in Nat
    <3>1. \A id \in CdpIds : Cdps'[id] \in CdpRecords
      OBVIOUS
    <3> QED
      BY <3>1 DEF CdpRecords
  <2>2. ASSUME NEW id \in CdpIds
        PROVE  /\ owing[id] \in Int /\ StakesOf(Cdps')[id] \in Int
               /\ Owed'[id] = owing[id] + rise * StakesOf(Cdps')[id]
    <3> DEFINE s == Cdps'[id].stake
               d == Cdps'[id].debt
               i == Cdps'[id].debtIndex
    <3>1. /\ owing[id] = d * D + s * (I - i) /\ StakesOf(Cdps')[id] = s
          /\ Owed'[id] = d * D + s * (I' - i)
      BY DEF Owed, OwedIn, ScaledDebt, StakesOf
    <3>2. s \in Nat /\ d \in Nat /\ i \in Nat
      BY <2>1
    <3> HIDE DEF s, d, i, owing, rise, D, I
    <3>3. s * (I' - i) = s * (I - i) + rise * s
      BY <1>1, <1>3, <1>4, <3>2
    <3>4. d * D \in Int /\ s * (I - i) \in Int /\ rise * s \in Int
      BY <1>1, <1>4, <3>2
    <3> QED
      BY <3>1, <3>2, <3>3, <3>4
  <2> DEFINE stakesOf == StakesOf(Cdps')
             owed == Owed'
  <2>3. \A id \in CdpIds : /\ owing[id] \in Int /\ stakesOf[id] \in Int
                           /\ owed[id] = owing[id] + rise * stakesOf[id]
    BY <2>2
  <2> HIDE DEF owing, rise, stakesOf, owed
  <2>4. SumFunctionOnSet(owed, CdpIds)
          = SumFunctionOnSet(owing, CdpIds) + rise * SumFunctionOnSet(stakesOf, CdpIds)
    <3>1. rise \in Int /\ IsFiniteSet(CdpIds)
      BY <1>4, CdpIdsAreFinite
    <3> QED
      BY <2>3, <3>1, SumIsLinear
  <2> QED
    BY <2>4 DEF SumOverCdps, owed, stakesOf
<1>6. SumOverCdps(Owed') = SumOverCdps(OwedIn(Cdps')) + shared
  BY <1>5
<1>7. repaid = burnt + bad /\ systemDebt' = systemDebt - burnt
  OBVIOUS
<1>8. scaled = bad * D + error
  OBVIOUS
<1> HIDE DEF D, scaled, shared, repaid
<1>9. systemDebt' \in Int /\ systemDebt' * D = systemDebt * D - burnt * D
  BY <1>1, <1>7
<1>10. D * repaid = burnt * D + bad * D
  BY <1>1, <1>7
<1>11. /\ systemDebt' * D \in Int /\ systemDebt * D \in Int /\ burnt * D \in Int
       /\ bad * D \in Int /\ D * repaid \in Int
  BY <1>1, <1>7, <1>9
<1>12. systemDebt' * D - error' - shared = systemDebt * D - error - D * repaid
  BY <1>1, <1>4, <1>8, <1>9, <1>10, <1>11
<1>13. shared \in Int /\ error' \in Int
  BY <1>4
<1> QED
  BY <1>6, <1>9, <1>12, <1>13, DustMoves DEF repaid, D

LEMMA NothingRepaid ==
  ASSUME TypeOK
  PROVE  IsSettled(Cdps) /\ SumOverCdps(RepaidIn(Cdps)) = 0
<1>1. \A id \in CdpIds : RepaidIn(Cdps)[id] = 0
  BY DEF RepaidIn
<1>2. SumOverCdps(RepaidIn(Cdps)) = 0
  BY <1>1, CdpIdsAreFinite, SumOfZeros DEF SumOverCdps
<1> QED
  BY <1>2 DEF IsSettled

\* One more CDP is brought up to date, and repaid.
LEMMA RepaidChanges ==
  ASSUME TypeOK, IndicesAreReached, NEW C \in [CdpIds -> CdpRecords], IsSettled(C),
         NEW id \in CdpIds, C[id] = Cdps[id],
         NEW new \in CdpRecords, IsUpToDate(new), NEW D, Replaces(D, C, id, new)
  PROVE  /\ IsSettled(D)
         /\ SumOverCdps(RepaidIn(C)) \in Int /\ DueDebt(Cdps[id]) \in Nat
         /\ SumOverCdps(RepaidIn(D))
              = SumOverCdps(RepaidIn(C)) + (DueDebt(Cdps[id]) - new.debt)
<1>1. D \in [CdpIds -> CdpRecords] /\ D[id] = new /\ \A i \in CdpIds : i # id => D[i] = C[i]
  BY DEF Replaces
<1>2. IsSettled(D)
  BY <1>1 DEF IsSettled
<1>3. /\ \A i \in CdpIds : DueDebt(Cdps[i]) \in Nat
      /\ IsUpToDate(Cdps[id]) => DueDebt(Cdps[id]) = Cdps[id].debt
  BY DueDebtFacts
<1>4. \A E \in [CdpIds -> CdpRecords] : RepaidIn(E) \in [CdpIds -> Int]
  <2> SUFFICES ASSUME NEW E \in [CdpIds -> CdpRecords], NEW i \in CdpIds
               PROVE  DueDebt(Cdps[i]) - E[i].debt \in Int
    BY DEF RepaidIn
  <2>1. E[i].debt \in Nat
    BY RecordFields
  <2> QED
    BY <1>3, <2>1
<1>5. \A i \in CdpIds \ {id} : RepaidIn(D)[i] = RepaidIn(C)[i]
  BY <1>1 DEF RepaidIn
<1>6. RepaidIn(C)[id] = 0
  BY DEF RepaidIn
<1>7. RepaidIn(D)[id] = DueDebt(Cdps[id]) - new.debt
  <2>1. CASE new # Cdps[id]
    BY <1>1, <2>1 DEF RepaidIn
  <2>2. CASE new = Cdps[id]
    <3>1. RepaidIn(D)[id] = 0
      BY <1>1, <2>2 DEF RepaidIn
    <3>2. DueDebt(Cdps[id]) = new.debt /\ new.debt \in Nat
      BY <1>3, <2>2, RecordFields
    <3> QED
      BY <3>1, <3>2
  <2> QED
    BY <2>1, <2>2
<1> DEFINE f == RepaidIn(C)
           h == RepaidIn(D)
<1>8. f \in [CdpIds -> Int] /\ h \in [CdpIds -> Int]
  BY <1>1, <1>4
<1> HIDE DEF f, h
<1>9. SumOverCdps(h) = SumOverCdps(f) - f[id] + h[id]
  BY <1>5, <1>8, CdpSumChanges DEF f, h
<1>10. SumOverCdps(f) \in Int
  BY <1>8, CdpIdsAreFinite, SumIsInt DEF SumOverCdps
<1>11. f[id] = 0 /\ h[id] = DueDebt(Cdps[id]) - new.debt /\ h[id] \in Int
  BY <1>6, <1>7, <1>8 DEF f, h
<1>12. SumOverCdps(h) = SumOverCdps(f) + (DueDebt(Cdps[id]) - new.debt)
  BY <1>9, <1>10, <1>11
<1> QED
  BY <1>2, <1>3, <1>10, <1>12 DEF f, h

\* A sync stores the debt that is due, and a CDP that is closed owes nothing.
LEMMA SyncIsUpToDate ==
  ASSUME NEW id, NEW feeIndex
  PROVE  /\ SyncedCdp(id, feeIndex).debt = DueDebt(Cdps[id])
         /\ SyncedCdp(id, feeIndex).debtIndex = systemDebtRedistributionIndex
  BY DEF SyncedCdp, DueDebt

LEMMA ClosedIsUpToDate ==
  ASSUME NEW cdp, NEW closedStatus
  PROVE  IsUpToDate(ClosedCdp(cdp, closedStatus)) /\ ClosedCdp(cdp, closedStatus).debt = 0
  BY DEF ClosedCdp, NoCdp, IsUpToDate

LEMMA UpdatedIsUpToDate ==
  ASSUME NEW id, NEW feeIndex, SyncedCdp(id, feeIndex) \in CdpRecords,
         NEW coll, NEW debt, NEW stake
  PROVE  /\ IsUpToDate(UpdatedCdp(SyncedCdp(id, feeIndex), coll, debt, stake))
         /\ UpdatedCdp(SyncedCdp(id, feeIndex), coll, debt, stake).debt = debt
<1> DEFINE cdp == SyncedCdp(id, feeIndex)
<1>1. cdp.debtIndex = systemDebtRedistributionIndex /\ cdp \in CdpRecords
  BY SyncIsUpToDate
<1> HIDE DEF cdp
<1>2. /\ UpdatedCdp(cdp, coll, debt, stake).debtIndex = cdp.debtIndex
      /\ UpdatedCdp(cdp, coll, debt, stake).debt = debt
  BY <1>1 DEF UpdatedCdp, CdpRecords
<1> QED
  BY <1>1, <1>2 DEF IsUpToDate, cdp

\* The steps of one borrower
LEMMA OneRepays ==
  ASSUME TypeOK, IndicesAreReached, NEW id \in CdpIds, NEW new \in CdpRecords, IsUpToDate(new),
         Cdps' = [Cdps EXCEPT ![id] = new], UNCHANGED redistributionVars,
         systemDebt' = systemDebt - (DueDebt(Cdps[id]) - new.debt)
  PROVE  DebtLosesOnlyDust
<1>1. Cdps \in [CdpIds -> CdpRecords]
  BY DEF TypeOK, CdpTypeOK
<1>2. Replaces(Cdps', Cdps, id, new)
  BY <1>1, ExceptReplaces
<1>3. IsSettled(Cdps) /\ SumOverCdps(RepaidIn(Cdps)) = 0
  BY NothingRepaid
<1>4. /\ IsSettled(Cdps') /\ DueDebt(Cdps[id]) \in Nat
      /\ SumOverCdps(RepaidIn(Cdps')) = 0 + (DueDebt(Cdps[id]) - new.debt)
  BY <1>1, <1>2, <1>3, RepaidChanges
<1>5. SumOverCdps(RepaidIn(Cdps')) = DueDebt(Cdps[id]) - new.debt
  BY <1>4, RecordFields
<1>6. Cdps' \in [CdpIds -> CdpRecords]
  BY <1>2 DEF Replaces
<1> QED
  BY <1>4, <1>5, <1>6, DustKept

\* The steps that move neither a CDP nor a debt
LEMMA NobodyRepays ==
  ASSUME TypeOK, IndicesAreReached, UNCHANGED <<Cdps, redistributionVars, systemDebt>>
  PROVE  DebtLosesOnlyDust
<1>1. Cdps' \in [CdpIds -> CdpRecords] /\ systemDebt \in Int
  BY DEF TypeOK, CdpTypeOK, PoolTypeOK
<1>2. IsSettled(Cdps') /\ SumOverCdps(RepaidIn(Cdps')) = 0
  <2>1. Cdps' = Cdps
    OBVIOUS
  <2> QED
    BY <2>1, NothingRepaid
<1>3. systemDebt' = systemDebt - 0
  BY <1>1
<1> QED
  BY <1>1, <1>2, <1>3, DustKept

LEMMA OpenCdpDebt ==
  ASSUME LedgerInv,
         NEW sender \in Users, NEW borrower \in Users, NEW debt \in Nat,
         NEW stEthBalance \in Nat, NEW k, OpenCdp(sender, borrower, debt, stEthBalance, k),
         Cdps' \in [CdpIds -> CdpRecords]
  PROVE  DebtLosesOnlyDust
<1> DEFINE new == Cdps'[nextCdpNonce]
           id == nextCdpNonce
<1>1. TypeOK /\ IndicesAreReached /\ CdpsAreProper(Cdps)
  BY DEF LedgerInv, CdpBooks
<1>2. id \in CdpIds
  BY <1>1, InputAssumption DEF OpenCdp, TypeOK, ListTypeOK, CdpIds
<1>3. /\ new.debt = debt /\ new.debtIndex = systemDebtRedistributionIndex
      /\ Cdps' = [Cdps EXCEPT ![id] = new]
  BY <1>1, <1>2 DEF OpenCdp, TypeOK, CdpTypeOK
<1>4. new \in CdpRecords /\ IsUpToDate(new)
  BY <1>2, <1>3 DEF IsUpToDate
<1>5. Cdps[id].stake = 0 /\ Cdps[id].debt = 0
  <2>1. Cdps[id].status = "nonExistent"
    BY DEF OpenCdp
  <2> QED
    BY <1>1, <1>2, <2>1 DEF CdpsAreProper, IsProper
<1>6. DueDebt(Cdps[id]) = 0
  BY <1>1, <1>2, <1>5, DueDebtFacts DEF IsUpToDate
<1>7. /\ systemDebt' = systemDebt + debt /\ systemDebt \in Int
      /\ UNCHANGED redistributionVars
  BY <1>1 DEF OpenCdp, WithdrawDebt, IncreaseSystemDebt, TypeOK, PoolTypeOK
<1> HIDE DEF new, id
<1>8. systemDebt' = systemDebt - (DueDebt(Cdps[id]) - new.debt)
  BY <1>3, <1>6, <1>7
<1> QED
  BY <1>1, <1>2, <1>3, <1>4, <1>7, <1>8, OneRepays

LEMMA AdjustCdpDebt ==
  ASSUME LedgerInv,
         NEW sender \in Users, NEW id \in CdpIds, NEW stEthIncrease \in Nat,
         NEW stEthDecrease \in Nat, NEW debtChange \in Nat, NEW isDebtIncrease \in BOOLEAN,
         NEW k,
         AdjustCdp(sender, id, stEthIncrease, stEthDecrease, debtChange, isDebtIncrease, k),
         Cdps' \in [CdpIds -> CdpRecords]
  PROVE  DebtLosesOnlyDust
<1> DEFINE g == SyncedGlobal
           cdp == SyncedCdp(id, g.feeIndex)
           shares == GetSharesByPooledEth(stEthIncrease + stEthDecrease)
           sharesChange == IF stEthIncrease # 0 THEN shares ELSE -shares
           signedDebt == IF isDebtIncrease THEN debtChange ELSE -debtChange
           coll == cdp.coll + sharesChange
           debt == cdp.debt + signedDebt
           stake == ComputeNewStake(coll, g.stakesSnapshot, g.collSnapshot)
           new == UpdatedCdp(cdp, coll, debt, stake)
<1>1. TypeOK /\ IndicesAreReached /\ CdpsAreProper(Cdps)
  BY DEF LedgerInv, CdpBooks
<1>2. IsActive(id)
  BY DEF AdjustCdp, AdjustSynced
<1>3. g \in GlobalRecords
  BY <1>1, FeeStaysInThePool DEF AdjustCdp, AdjustSynced, SyncFeeIndices
<1>4. cdp \in CdpRecords
  BY <1>1, <1>2, <1>3, SyncedFields DEF GlobalRecords
<1>5. cdp.debt = DueDebt(Cdps[id]) /\ IsUpToDate(new) /\ new.debt = debt
  BY <1>4, SyncIsUpToDate, UpdatedIsUpToDate
<1>6. Cdps' = [Cdps EXCEPT ![id] = new] /\ UNCHANGED redistributionVars
  <2>1. AdjustSynced(sender, id, stEthIncrease, stEthDecrease, debtChange, isDebtIncrease, k, g, cdp)
    BY DEF AdjustCdp
  <2> HIDE DEF g, cdp
  <2>2. Cdps' = [Cdps EXCEPT ![id] = new]
    BY <2>1, SMTT(30) DEF AdjustSynced
  <2>3. UNCHANGED redistributionVars
    BY <2>1, SMTT(30) DEF AdjustSynced
  <2> QED
    BY <2>2, <2>3
<1>7. systemDebt \in Int /\ signedDebt \in Int /\ cdp.debt \in Int
  BY <1>1, <1>4, RecordFields DEF TypeOK, PoolTypeOK
<1>8. systemDebt' = systemDebt + signedDebt
  <2>1. CASE isDebtIncrease
    <3>1. WithdrawDebt(sender, debtChange)
      BY <2>1 DEF AdjustCdp, AdjustSynced
    <3> QED
      BY <2>1, <3>1 DEF WithdrawDebt, IncreaseSystemDebt
  <2>2. CASE ~isDebtIncrease
    <3>1. RepayDebt(sender, debtChange)
      BY <2>2 DEF AdjustCdp, AdjustSynced
    <3>2. systemDebt' = systemDebt - debtChange
      BY <3>1 DEF RepayDebt, DecreaseSystemDebt
    <3> QED
      BY <1>7, <2>2, <3>2
  <2> QED
    BY <2>1, <2>2
<1> HIDE DEF g, cdp, coll, stake, new, signedDebt
<1>9. new \in CdpRecords
  <2>1. Cdps'[id] \in CdpRecords
    OBVIOUS
  <2>2. Cdps'[id] = new
    BY <1>1, <1>6 DEF TypeOK, CdpTypeOK
  <2> QED
    BY <2>1, <2>2
<1>10. systemDebt' = systemDebt - (DueDebt(Cdps[id]) - new.debt)
  <2>1. new.debt = DueDebt(Cdps[id]) + signedDebt /\ DueDebt(Cdps[id]) \in Int
    BY <1>5, <1>7
  <2> QED
    BY <1>7, <1>8, <2>1
<1> QED
  BY <1>1, <1>5, <1>6, <1>9, <1>10, OneRepays

LEMMA CloseCdpDebt ==
  ASSUME LedgerInv, NEW sender \in Users, NEW id \in CdpIds, CloseCdp(sender, id)
  PROVE  DebtLosesOnlyDust
<1> DEFINE cdp == SyncedCdp(id, SyncedGlobal.feeIndex)
           new == ClosedCdp(cdp, "closedByOwner")
<1>1. TypeOK /\ IndicesAreReached /\ CdpsAreProper(Cdps)
  BY DEF LedgerInv, CdpBooks
<1>2. SyncedGlobal \in GlobalRecords /\ IsActive(id)
  BY <1>1, FeeStaysInThePool DEF CloseCdp, SyncFeeIndices
<1>3. cdp \in CdpRecords
  BY <1>1, <1>2, SyncedFields DEF GlobalRecords
<1>4. new \in CdpRecords
  BY <1>3, ClosedFields DEF Statuses
<1>5. IsUpToDate(new) /\ new.debt = 0 /\ cdp.debt = DueDebt(Cdps[id])
  BY ClosedIsUpToDate, SyncIsUpToDate
<1>6. /\ Cdps' = [Cdps EXCEPT ![id] = new] /\ UNCHANGED redistributionVars
      /\ RepayDebt(sender, cdp.debt)
  BY DEF CloseCdp
<1>7. systemDebt' = systemDebt - cdp.debt /\ cdp.debt \in Int
  BY <1>3, <1>6, RecordFields DEF RepayDebt, DecreaseSystemDebt
<1> HIDE DEF cdp, new
<1>8. systemDebt' = systemDebt - (DueDebt(Cdps[id]) - new.debt)
  BY <1>5, <1>7
<1> QED
  BY <1>1, <1>4, <1>5, <1>6, <1>8, OneRepays

LEMMA PartialLiquidationDebt ==
  ASSUME LedgerInv, NEW liquidator \in Users, NEW id \in CdpIds,
         NEW partialDebt \in Nat, NEW k, PartiallyLiquidate(liquidator, id, partialDebt, k),
         Cdps' \in [CdpIds -> CdpRecords]
  PROVE  DebtLosesOnlyDust
<1> DEFINE g == SyncedGlobal
           cdp == SyncedCdp(id, g.feeIndex)
           partialColl == GetSharesByPooledEth(IncentiveColl(ICR(cdp), partialDebt))
           coll == cdp.coll - partialColl
           debt == cdp.debt - partialDebt
           stake == ComputeNewStake(coll, g.stakesSnapshot, g.collSnapshot)
           new == UpdatedCdp(cdp, coll, debt, stake)
           stakes == RestakedTotal(totalStakes, cdp, stake)
           v == [debtToBurn |-> partialDebt, collToSend |-> partialColl,
                 debtToRedistribute |-> 0, reward |-> 0, surplus |-> 0]
<1>1. TypeOK /\ IndicesAreReached /\ CdpsAreProper(Cdps)
  BY DEF LedgerInv, CdpBooks
<1>2. IsActive(id) /\ LiquidateInPart(liquidator, id, g, cdp, partialDebt, partialColl, k)
  BY DEF PartiallyLiquidate
<1>3. FinalizeLiquidation(liquidator, g, v, stakes)
  BY <1>2 DEF LiquidateInPart
<1>4. g \in GlobalRecords
  BY <1>1, <1>3, FeeStaysInThePool DEF FinalizeLiquidation, SyncFeeIndices
<1>5. cdp \in CdpRecords
  BY <1>1, <1>2, <1>4, SyncedFields DEF GlobalRecords
<1>6. cdp.debt = DueDebt(Cdps[id]) /\ IsUpToDate(new) /\ new.debt = debt
  BY <1>5, SyncIsUpToDate, UpdatedIsUpToDate
<1>7. Cdps' = [Cdps EXCEPT ![id] = new]
  BY <1>2 DEF LiquidateInPart
<1>8. /\ v.debtToBurn = partialDebt /\ v.debtToRedistribute = 0
      /\ systemDebt \in Int /\ cdp.debt \in Int
  BY <1>1, <1>5, RecordFields DEF TypeOK, PoolTypeOK
<1> HIDE DEF g, cdp, coll, stake, new, v, stakes
<1>9. systemDebt' = systemDebt - partialDebt /\ UNCHANGED redistributionVars
  BY <1>3, <1>8 DEF FinalizeLiquidation, DecreaseSystemDebt
<1>10. new \in CdpRecords
  <2>1. Cdps'[id] \in CdpRecords
    OBVIOUS
  <2>2. Cdps'[id] = new
    BY <1>1, <1>7 DEF TypeOK, CdpTypeOK
  <2> QED
    BY <2>1, <2>2
<1>11. systemDebt' = systemDebt - (DueDebt(Cdps[id]) - new.debt)
  BY <1>6, <1>8, <1>9
<1> QED
  BY <1>1, <1>6, <1>7, <1>9, <1>10, <1>11, OneRepays

\* What the liquidated CDPs owed is burnt or passed on.
LEMMA FinalizeDebt ==
  ASSUME TypeOK, IndicesAreReached, BooksKept,
         NEW liquidator, NEW v, v.debtToBurn \in Nat, v.debtToRedistribute \in Nat, NEW stakes,
         FinalizeLiquidation(liquidator, SyncedGlobal, v, stakes), totalStakes' = stakes,
         IsSettled(Cdps'),
         SumOverCdps(RepaidIn(Cdps')) = v.debtToBurn + v.debtToRedistribute
  PROVE  DebtLosesOnlyDust
<1> DEFINE burnt == v.debtToBurn
           bad == v.debtToRedistribute
<1>1. /\ Cdps' \in [CdpIds -> CdpRecords]
      /\ stakes = SumOverCdps(StakesOf(Cdps'))
  BY DEF BooksKept, CdpBooks, CdpsAreProper
<1>2. stakes \in Nat
  BY <1>1, SumsOfCdps
<1>3. systemDebt' = systemDebt - burnt
  BY DEF FinalizeLiquidation, DecreaseSystemDebt
<1>4. CASE bad > 0
  <2>1. /\ stakes > 0
        /\ systemDebtRedistributionIndex' = systemDebtRedistributionIndex
             + (bad * DECIMAL_PRECISION + lastEBTCDebtErrorRedistribution) \div stakes
        /\ lastEBTCDebtErrorRedistribution'
             = (bad * DECIMAL_PRECISION + lastEBTCDebtErrorRedistribution) % stakes
    BY <1>4 DEF FinalizeLiquidation
  <2>2. stakes \in Nat \ {0} /\ burnt \in Int /\ bad \in Nat
    BY <1>2, <2>1
  <2>3. SumOverCdps(RepaidIn(Cdps')) = burnt + bad
    OBVIOUS
  <2> HIDE DEF burnt, bad
  <2> QED
    BY <1>1, <1>3, <2>1, <2>2, <2>3, DustShared
<1>5. CASE ~(bad > 0)
  <2>1. UNCHANGED redistributionVars
    BY <1>5 DEF FinalizeLiquidation
  <2>2. SumOverCdps(RepaidIn(Cdps')) = burnt
    BY <1>5
  <2> QED
    BY <1>1, <1>3, <2>1, <2>2, DustKept
<1> QED
  BY <1>4, <1>5

LEMMA LiquidationTakesTheDebt ==
  ASSUME EnvTypeOK, NEW cdp \in CdpRecords
  PROVE  LET v == LiquidationValues(cdp)
         IN /\ v.debtToBurn \in Nat /\ v.debtToRedistribute \in Nat
            /\ v.debtToBurn + v.debtToRedistribute = cdp.debt
<1> DEFINE v == LiquidationValues(cdp)
           bad == BadDebt(ICR(cdp), cdp)
<1>1. v.debtToBurn = cdp.debt - bad /\ v.debtToRedistribute = bad /\ cdp.debt \in Nat
  BY RecordFields DEF LiquidationValues
<1>2. v.debtToBurn \in Nat /\ v.debtToRedistribute \in Nat
  BY LiquidationValuesType DEF IsLiquidation
<1> HIDE DEF v, bad
<1> QED
  BY <1>1, <1>2 DEF v

LEMMA LiquidateDebt ==
  ASSUME LedgerInv, BooksKept, NEW liquidator, NEW id \in CdpIds, Liquidate(liquidator, id)
  PROVE  DebtLosesOnlyDust
<1> DEFINE g == SyncedGlobal
           cdp == SyncedCdp(id, g.feeIndex)
           v == LiquidationValues(cdp)
           new == ClosedCdp(cdp, "closedByLiquidation")
<1>1. TypeOK /\ IndicesAreReached /\ CdpsAreProper(Cdps) /\ EnvTypeOK
  BY DEF LedgerInv, CdpBooks, TypeOK
<1>2. IsActive(id) /\ LiquidateInFull(liquidator, id, g, cdp)
  BY DEF Liquidate
<1>3. /\ FinalizeLiquidation(liquidator, g, v, totalStakes - cdp.stake)
      /\ totalStakes' = totalStakes - cdp.stake
      /\ Cdps' = [Cdps EXCEPT ![id] = new]
  BY <1>2 DEF LiquidateInFull
<1>4. g \in GlobalRecords
  BY <1>1, <1>3, FeeStaysInThePool DEF FinalizeLiquidation, SyncFeeIndices
<1>5. cdp \in CdpRecords
  BY <1>1, <1>2, <1>4, SyncedFields DEF GlobalRecords
<1>6. new \in CdpRecords
  BY <1>5, ClosedFields DEF Statuses
<1>7. IsUpToDate(new) /\ new.debt = 0 /\ cdp.debt = DueDebt(Cdps[id])
  BY ClosedIsUpToDate, SyncIsUpToDate
<1>8. /\ v.debtToBurn \in Nat /\ v.debtToRedistribute \in Nat
      /\ v.debtToBurn + v.debtToRedistribute = cdp.debt
  BY <1>1, <1>5, LiquidationTakesTheDebt
<1> HIDE DEF cdp, v, new
<1>9. Replaces(Cdps', Cdps, id, new) /\ Cdps \in [CdpIds -> CdpRecords]
  BY <1>1, <1>3, <1>6, ExceptReplaces DEF TypeOK, CdpTypeOK
<1>10. IsSettled(Cdps) /\ SumOverCdps(RepaidIn(Cdps)) = 0
  BY <1>1, NothingRepaid
<1>11. /\ IsSettled(Cdps') /\ DueDebt(Cdps[id]) \in Nat
       /\ SumOverCdps(RepaidIn(Cdps')) = 0 + (DueDebt(Cdps[id]) - new.debt)
  BY <1>1, <1>6, <1>7, <1>9, <1>10, RepaidChanges
<1>12. SumOverCdps(RepaidIn(Cdps')) = v.debtToBurn + v.debtToRedistribute
  BY <1>7, <1>8, <1>11
<1> QED
  BY <1>1, <1>3, <1>8, <1>11, <1>12, FinalizeDebt

\* A batch in the making has taken off the CDPs what it will burn or pass on.
IsSettledBatch(b) ==
  b.ok => /\ IsSettled(b.Cdps)
          /\ SumOverCdps(RepaidIn(b.Cdps)) = b.debtToBurn + b.debtToRedistribute

LEMMA BatchStepSettles ==
  ASSUME TypeOK, IndicesAreReached, CdpsAreProper(Cdps), NEW g \in GlobalRecords,
         NEW id \in CdpIds, NEW b, IsBatch(b), IsKeptBatch(b), IsSettledBatch(b)
  PROVE  IsSettledBatch(BatchStep(b, id, g))
<1> DEFINE cdp == SyncedCdp(id, g.feeIndex)
           tcr == TCR(g.systemCollShares - b.collToSend - b.surplus, systemDebt - b.debtToBurn)
           v == LiquidationValues(cdp)
           new == ClosedCdp(cdp, "closedByLiquidation")
           taken == /\ b.Cdps[id].status = "active"
                    /\ \/ ICR(cdp) < MCR
                       \/ ~b.normalMode /\ CanLiquidateRecoveryMode(ICR(cdp), tcr)
           after == BatchStep(b, id, g)
<1>1. CASE ~taken
  BY <1>1 DEF BatchStep
<1>2. CASE taken
  <2> SUFFICES ASSUME after.ok
               PROVE  /\ IsSettled(after.Cdps)
                      /\ SumOverCdps(RepaidIn(after.Cdps))
                           = after.debtToBurn + after.debtToRedistribute
    BY DEF IsSettledBatch
  <2>1. /\ after.Cdps = [b.Cdps EXCEPT ![id] = new]
        /\ after.debtToBurn = b.debtToBurn + v.debtToBurn
        /\ after.debtToRedistribute = b.debtToRedistribute + v.debtToRedistribute
        /\ after.ok => b.ok
    BY <1>2 DEF BatchStep
  <2>2. /\ b.ok /\ b.Cdps \in [CdpIds -> CdpRecords]
        /\ b.debtToBurn \in Nat /\ b.debtToRedistribute \in Nat
    BY <2>1 DEF IsBatch, IsLiquidation
  <2>3. /\ b.Cdps[id].status = "active" => b.Cdps[id] = Cdps[id]
        /\ IsSettled(b.Cdps)
        /\ SumOverCdps(RepaidIn(b.Cdps)) = b.debtToBurn + b.debtToRedistribute
    BY <2>2 DEF IsKeptBatch, IsSettledBatch
  <2>4. b.Cdps[id] = Cdps[id] /\ IsActive(id)
    BY <1>2, <2>3 DEF IsActive
  <2>5. cdp \in CdpRecords
    BY <2>4, SyncedFields DEF GlobalRecords
  <2>6. /\ v.debtToBurn \in Nat /\ v.debtToRedistribute \in Nat
        /\ v.debtToBurn + v.debtToRedistribute = cdp.debt
    BY <2>5, LiquidationTakesTheDebt DEF TypeOK
  <2>7. /\ new \in CdpRecords /\ IsUpToDate(new) /\ new.debt = 0
        /\ cdp.debt = DueDebt(Cdps[id])
    BY <2>5, ClosedFields, ClosedIsUpToDate, SyncIsUpToDate DEF Statuses
  <2> HIDE DEF after, v, new, cdp, tcr, taken
  <2>8. Replaces(after.Cdps, b.Cdps, id, new)
    BY <2>1, <2>2, <2>7, ExceptReplaces
  <2>9. /\ IsSettled(after.Cdps)
        /\ SumOverCdps(RepaidIn(after.Cdps))
             = SumOverCdps(RepaidIn(b.Cdps)) + (DueDebt(Cdps[id]) - new.debt)
    BY <2>2, <2>3, <2>4, <2>7, <2>8, RepaidChanges
  <2>10. DueDebt(Cdps[id]) - new.debt = v.debtToBurn + v.debtToRedistribute
    BY <2>6, <2>7
  <2>11. SumOverCdps(RepaidIn(after.Cdps)) = after.debtToBurn + after.debtToRedistribute
    BY <2>1, <2>2, <2>3, <2>6, <2>9, <2>10
  <2> QED
    BY <2>9, <2>11
<1> QED
  BY <1>1, <1>2

LEMMA BatchIsSettled ==
  ASSUME LedgerInv, NEW ids \in Seq(CdpIds), NEW g \in GlobalRecords
  PROVE  IsSettledBatch(BatchAfter(ids, g)[Len(ids)])
<1> DEFINE after == BatchAfter(ids, g)
           N == Len(ids)
           T == {n \in 0 .. N : IsSettledBatch(after[n])}
<1>0. TypeOK /\ IndicesAreReached /\ CdpsAreProper(Cdps) /\ N \in Nat
  BY DEF LedgerInv, CdpBooks
<1>1. after[0] = EmptyBatch(g)
  BY BatchAfterUnfolds
<1>2. \A n \in 0 .. N : IsBatch(after[n]) /\ IsKeptBatch(after[n])
  BY BatchAfterBooks
<1>3. ASSUME NEW n \in 1 .. N PROVE after[n] = BatchStep(after[n - 1], ids[n], g) /\ ids[n] \in CdpIds
  BY BatchAfterUnfolds
<1>4. IsSettledBatch(EmptyBatch(g))
  <2>1. IsSettled(Cdps) /\ SumOverCdps(RepaidIn(Cdps)) = 0 /\ 0 + 0 = 0
    BY <1>0, NothingRepaid
  <2> QED
    BY <2>1 DEF IsSettledBatch, EmptyBatch
<1> HIDE DEF after, N
<1>5. 0 \in T
  BY <1>0, <1>1, <1>4
<1>6. ASSUME NEW n \in 1 .. N, n - 1 \in T PROVE n \in T
  <2>1. n - 1 \in 0 .. N
    BY <1>0
  <2>2. IsBatch(after[n - 1]) /\ IsKeptBatch(after[n - 1]) /\ IsSettledBatch(after[n - 1])
    BY <1>2, <1>6, <2>1
  <2> QED
    BY <1>0, <1>3, <2>2, BatchStepSettles
<1>7. N \in T
  <2> HIDE DEF T
  <2>1. \A n \in 0 .. N : n \in T
    BY <1>0, <1>5, <1>6, IntervalInduction
  <2> QED
    BY <1>0, <2>1
<1> QED
  BY <1>7 DEF after, N

LEMMA BatchLiquidateDebt ==
  ASSUME LedgerInv, BooksKept, NEW ids \in Seq(CdpIds), BatchLiquidateCdps(ids)
  PROVE  DebtLosesOnlyDust
<1> DEFINE g == SyncedGlobal
           b == BatchAfter(ids, g)[Len(ids)]
<1>0. PICK liquidator \in Users : FinalizeLiquidation(liquidator, g, b, b.stakes)
  BY DEF BatchLiquidateCdps
<1>1. b.ok /\ totalStakes' = b.stakes /\ Cdps' = b.Cdps
  BY DEF BatchLiquidateCdps
<1>2. TypeOK /\ IndicesAreReached /\ g \in GlobalRecords
  BY <1>0, FeeStaysInThePool DEF FinalizeLiquidation, SyncFeeIndices, LedgerInv
<1>3. IsBatch(b) /\ IsSettledBatch(b)
  <2>1. Len(ids) \in 0 .. Len(ids)
    OBVIOUS
  <2> QED
    BY <1>2, <2>1, BatchAfterBooks, BatchIsSettled
<1> HIDE DEF b
<1>4. /\ b.debtToBurn \in Nat /\ b.debtToRedistribute \in Nat
      /\ IsSettled(Cdps')
      /\ SumOverCdps(RepaidIn(Cdps')) = b.debtToBurn + b.debtToRedistribute
  BY <1>1, <1>3 DEF IsBatch, IsSettledBatch, IsLiquidation
<1> QED
  BY <1>0, <1>1, <1>2, <1>4, FinalizeDebt

\* A redemption in the making has taken off the CDPs what it has used up of the
\* debt offered.
IsSettledLoop(r, debt) ==
  r.ok => IsSettled(r.Cdps) /\ SumOverCdps(RepaidIn(r.Cdps)) = debt - r.remaining

LEMMA RedeemStepSettles ==
  ASSUME LedgerInv, NEW g \in GlobalRecords, NEW debt \in Nat,
         NEW first \in 1 .. Len(sortedCdps), NEW n \in Nat, n < first,
         NEW r, IsRedeemed(r, debt, n), IsKeptLoop(r, first, n), IsSettledLoop(r, debt),
         NEW hintMatches,
         IsRedeemed(RedeemFromCdp(r, sortedCdps[first - n], g, hintMatches), debt, n + 1)
  PROVE  IsSettledLoop(RedeemFromCdp(r, sortedCdps[first - n], g, hintMatches), debt)
<1> DEFINE id == sortedCdps[first - n]
           cdp == SyncedCdp(id, g.feeIndex)
           debtToRedeem == Lesser(r.remaining, cdp.debt)
           drawn == CollDrawn(debtToRedeem)
           newDebt == cdp.debt - debtToRedeem
           newColl == cdp.coll - drawn
           isPartial == /\ hintMatches
                        /\ GetPooledEthByShares(newColl) >= MIN_NET_STETH_BALANCE
                        /\ DebtIsEnough(newDebt)
           collLeft == IF isPartial THEN newColl ELSE cdp.coll
           debtLeft == IF isPartial THEN newDebt ELSE cdp.debt
           newStake == ComputeNewStake(collLeft, g.stakesSnapshot, g.collSnapshot)
           restaked == UpdatedCdp(cdp, collLeft, debtLeft, newStake)
           closedCdp == ClosedCdp(cdp, "closedByRedemption")
           after == RedeemFromCdp(r, id, g, hintMatches)
<1>0. TypeOK /\ IndicesAreReached /\ CdpsAreProper(Cdps)
  BY DEF LedgerInv, CdpBooks
<1>1. CASE r.remaining = 0 \/ r.cancelled
  BY <1>1 DEF RedeemFromCdp
<1>2. CASE ~(r.remaining = 0 \/ r.cancelled)
  <2> SUFFICES ASSUME after.ok
               PROVE  IsSettled(after.Cdps) /\ SumOverCdps(RepaidIn(after.Cdps)) = debt - after.remaining
    BY DEF IsSettledLoop
  <2>1. r.ok
    BY <1>2 DEF RedeemFromCdp
  <2>2. r.Cdps \in [CdpIds -> CdpRecords] /\ r.remaining \in 0 .. debt
    BY <2>1 DEF IsRedeemed
  <2>3. first - n \in 1 .. Len(sortedCdps) /\ first - n \in 1 .. first - n
    BY <1>0 DEF TypeOK, ListTypeOK
  <2>4. id \in CdpIds /\ IsActive(id) /\ r.Cdps[id] = Cdps[id]
    BY <2>1, <2>3, PlaceFacts DEF IsKeptLoop
  <2>5. cdp \in CdpRecords /\ cdp.debt \in Nat /\ cdp.debt = DueDebt(Cdps[id])
    BY <1>0, <2>4, SyncedFields, RecordFields, SyncIsUpToDate DEF GlobalRecords
  <2>6. /\ debtToRedeem \in Nat
        /\ newDebt # 0 => debtToRedeem = r.remaining
        /\ newDebt = 0 => debtToRedeem = cdp.debt
    BY <2>2, <2>5 DEF Lesser
  <2>7. /\ IsSettled(r.Cdps) /\ SumOverCdps(RepaidIn(r.Cdps)) = debt - r.remaining
        /\ after.Cdps \in [CdpIds -> CdpRecords]
    BY <2>1 DEF IsSettledLoop, IsRedeemed
  <2>8. CASE newDebt = 0
    <3>1. /\ after.Cdps = [r.Cdps EXCEPT ![id] = closedCdp]
          /\ after.remaining = r.remaining - debtToRedeem
      BY <1>2, <2>8 DEF RedeemFromCdp
    <3>2. /\ closedCdp \in CdpRecords /\ closedCdp.debt = 0 /\ IsUpToDate(closedCdp)
      BY <2>5, ClosedCdpType, ClosedIsUpToDate DEF Statuses
    <3> HIDE DEF after, closedCdp, cdp, id
    <3>3. Replaces(after.Cdps, r.Cdps, id, closedCdp)
      BY <2>2, <2>4, <3>1, <3>2, ExceptReplaces
    <3>4. /\ IsSettled(after.Cdps)
          /\ SumOverCdps(RepaidIn(after.Cdps))
               = SumOverCdps(RepaidIn(r.Cdps)) + (DueDebt(Cdps[id]) - closedCdp.debt)
      BY <1>0, <2>2, <2>4, <2>7, <3>2, <3>3, RepaidChanges
    <3>5. DueDebt(Cdps[id]) - closedCdp.debt = debtToRedeem
      BY <2>5, <2>6, <2>8, <3>2
    <3> HIDE DEF debtToRedeem
    <3>6. SumOverCdps(RepaidIn(after.Cdps)) = debt - after.remaining
      BY <2>2, <2>6, <2>7, <3>1, <3>4, <3>5
    <3> QED
      BY <3>4, <3>6
  <2>9. CASE newDebt # 0
    <3>1. /\ after.Cdps = [r.Cdps EXCEPT ![id] = restaked]
          /\ after.remaining = IF isPartial THEN 0 ELSE r.remaining
      BY <1>2, <2>9 DEF RedeemFromCdp
    <3>2. IsUpToDate(restaked) /\ restaked.debt = debtLeft
      BY <2>5, UpdatedIsUpToDate
    <3> HIDE DEF after, restaked, cdp, id, isPartial
    <3>3. restaked \in CdpRecords
      <4>1. after.Cdps[id] = restaked
        BY <2>2, <2>4, <3>1
      <4> QED
        BY <2>4, <2>7, <4>1
    <3>4. Replaces(after.Cdps, r.Cdps, id, restaked)
      BY <2>2, <2>4, <3>1, <3>3, ExceptReplaces
    <3>5. /\ IsSettled(after.Cdps)
          /\ SumOverCdps(RepaidIn(after.Cdps))
               = SumOverCdps(RepaidIn(r.Cdps)) + (DueDebt(Cdps[id]) - restaked.debt)
      BY <1>0, <2>2, <2>4, <2>7, <3>2, <3>3, <3>4, RepaidChanges
    <3>6. DueDebt(Cdps[id]) - restaked.debt = r.remaining - after.remaining
      <4>1. CASE isPartial
        <5>1. debtLeft = cdp.debt - r.remaining /\ after.remaining = 0
          BY <2>6, <2>9, <3>1, <4>1
        <5> HIDE DEF debtLeft
        <5> QED
          BY <2>2, <2>5, <3>2, <5>1
      <4>2. CASE ~isPartial
        <5>1. debtLeft = cdp.debt /\ after.remaining = r.remaining
          BY <3>1, <4>2
        <5> HIDE DEF debtLeft
        <5> QED
          BY <2>2, <2>5, <3>2, <5>1
      <4> QED
        BY <4>1, <4>2
    <3>7. after.remaining \in Int
      BY <2>2, <3>1
    <3>8. SumOverCdps(RepaidIn(after.Cdps)) = debt - after.remaining
      BY <2>2, <2>7, <3>5, <3>6, <3>7
    <3> QED
      BY <3>5, <3>8
  <2> QED
    BY <2>8, <2>9
<1> QED
  BY <1>1, <1>2

LEMMA LoopIsSettled ==
  ASSUME LedgerInv, NEW g \in GlobalRecords, NEW debt \in Nat,
         NEW first \in 1 .. Len(sortedCdps), NEW hintMatches
  PROVE  \A n \in 0 .. first :
           /\ IsRedeemed(RedeemedAfter(debt, first, g, hintMatches)[n], debt, n)
           /\ IsSettledLoop(RedeemedAfter(debt, first, g, hintMatches)[n], debt)
<1> DEFINE after == RedeemedAfter(debt, first, g, hintMatches)
           T == {n \in 0 .. first : IsSettledLoop(after[n], debt)}
<1>0. /\ TypeOK /\ IndicesAreReached /\ first \in Nat /\ first <= Len(sortedCdps)
      /\ Len(sortedCdps) \in Nat
  BY DEF LedgerInv, TypeOK, ListTypeOK
<1>1. IsLoop(after, debt, first, g, hintMatches)
  BY <1>0, RedeemedAfterUnfolds
<1>2. \A n \in 0 .. first : IsRedeemed(after[n], debt, n) /\ IsKeptLoop(after[n], first, n)
  BY <1>0, RedeemedAfterType, RedeemedAfterBooks
<1> HIDE DEF after
<1>3. 0 \in T
  <2>1. IsSettled(Cdps) /\ SumOverCdps(RepaidIn(Cdps)) = 0 /\ debt - debt = 0
    BY <1>0, NothingRepaid
  <2>2. IsSettledLoop(NothingRedeemed(debt), debt)
    BY <2>1 DEF IsSettledLoop, NothingRedeemed
  <2> QED
    BY <1>0, <1>1, <2>2 DEF IsLoop
<1>4. ASSUME NEW n \in 1 .. first, n - 1 \in T PROVE n \in T
  <2> DEFINE m == n - 1
  <2>1. /\ m \in Nat /\ m < first /\ m \in 0 .. first /\ first - n + 1 = first - m
        /\ n = m + 1 /\ n \in 0 .. first
    BY <1>0
  <2>2. /\ IsRedeemed(after[m], debt, m) /\ IsKeptLoop(after[m], first, m)
        /\ IsSettledLoop(after[m], debt)
    BY <1>2, <1>4, <2>1
  <2>3. after[n] = RedeemFromCdp(after[m], sortedCdps[first - m], g, hintMatches)
    BY <1>1, <2>1 DEF IsLoop
  <2>4. IsRedeemed(after[n], debt, m + 1)
    BY <1>2, <2>1
  <2> HIDE DEF m
  <2>5. IsSettledLoop(after[n], debt)
    BY <2>1, <2>2, <2>3, <2>4, RedeemStepSettles
  <2> QED
    BY <2>5
<1>5. \A n \in 0 .. first : n \in T
  <2> HIDE DEF T
  <2> QED
    BY <1>0, <1>3, <1>4, IntervalInduction
<1> QED
  BY <1>2, <1>5 DEF after

LEMMA RedemptionDebt ==
  ASSUME LedgerInv, RedemptionAction PROVE DebtLosesOnlyDust
<1>1. PICK redeemer \in Users, debt \in RedemptionDebts, first \in 1 .. Len(sortedCdps),
           maxIterations \in MaxIterations, hintMatches \in BOOLEAN,
           twapDebt \in {systemDebt} \cup {Lesser(o, systemDebt) : o \in TwapObservations},
           k \in 0 .. Len(sortedCdps) - 1 :
           RedeemCollateral(redeemer, debt, first, maxIterations, hintMatches, twapDebt, k)
  BY DEF RedemptionAction
<1> DEFINE g == SyncedGlobal
           steps == IF maxIterations = 0 THEN first ELSE Lesser(maxIterations, first)
           r == RedeemedAfter(debt, first, g, hintMatches)[steps]
<1>2. /\ r.ok /\ Cdps' = r.Cdps /\ SyncGlobalSucceeds
      /\ DecreaseSystemDebt(debt - r.remaining) /\ UNCHANGED redistributionVars
  BY <1>1 DEF RedeemCollateral, RedeemSynced, SyncFeeIndices
<1>3. /\ debt \in Nat /\ maxIterations \in Nat /\ g \in GlobalRecords
      /\ TypeOK /\ IndicesAreReached /\ first \in Nat
  BY <1>2, RedemptionInputAssumption, SyncedGlobalType DEF LedgerInv, TypeOK, ListTypeOK
<1>4. steps \in 0 .. first
  <2>1. Lesser(maxIterations, first) \in Nat /\ Lesser(maxIterations, first) <= first
    BY <1>3, LesserIsNat
  <2> QED
    BY <1>3, <2>1
<1>5. IsRedeemed(r, debt, steps) /\ IsSettledLoop(r, debt)
  BY <1>3, <1>4, LoopIsSettled
<1> HIDE DEF r, g
<1>6. /\ Cdps' \in [CdpIds -> CdpRecords] /\ IsSettled(Cdps')
      /\ SumOverCdps(RepaidIn(Cdps')) = debt - r.remaining
  BY <1>2, <1>5 DEF IsRedeemed, IsSettledLoop
<1>7. systemDebt' = systemDebt - SumOverCdps(RepaidIn(Cdps'))
  BY <1>2, <1>6 DEF DecreaseSystemDebt
<1> QED
  BY <1>2, <1>3, <1>6, <1>7, DustKept

LEMMA BorrowerDebt ==
  ASSUME LedgerInv, BooksKept, BorrowerAction PROVE DebtLosesOnlyDust
<1>0. TypeOK /\ IndicesAreReached /\ Cdps' \in [CdpIds -> CdpRecords]
  BY DEF LedgerInv, BooksKept, CdpBooks, CdpsAreProper
<1>1. ASSUME NEW sender \in Users, NEW borrower \in Users, NEW debt \in OpenDebts,
             NEW stEthBalance \in OpenStEthBalances, NEW k \in 0 .. Len(sortedCdps),
             OpenCdp(sender, borrower, debt, stEthBalance, k)
      PROVE  DebtLosesOnlyDust
  <2>1. debt \in Nat /\ stEthBalance \in Nat
    BY BorrowerInputAssumption
  <2> QED
    BY <1>0, <1>1, <2>1, OpenCdpDebt
<1>2. ASSUME NEW sender \in Users, NEW id \in CdpIds, NEW stEthIncrease \in CollChanges \cup {0},
             NEW stEthDecrease \in CollChanges \cup {0}, NEW debtChange \in DebtChanges \cup {0},
             NEW isDebtIncrease \in BOOLEAN, NEW k \in 0 .. Len(sortedCdps) - 1,
             AdjustCdp(sender, id, stEthIncrease, stEthDecrease, debtChange, isDebtIncrease, k)
      PROVE  DebtLosesOnlyDust
  <2>1. stEthIncrease \in Nat /\ stEthDecrease \in Nat /\ debtChange \in Nat
    BY BorrowerInputAssumption
  <2> QED
    BY <1>0, <1>2, <2>1, AdjustCdpDebt
<1>3. ASSUME NEW account \in Users, ClaimSurplusCollShares(account) PROVE DebtLosesOnlyDust
  <2>1. UNCHANGED <<Cdps, redistributionVars, systemDebt>>
    BY <1>3 DEF ClaimSurplusCollShares, poolVars
  <2> QED
    BY <1>0, <2>1, NobodyRepays
<1>4. ASSUME NEW borrower \in Users, NEW manager \in Users, NEW approval \in GrantedApprovals,
             SetPositionManagerApproval(borrower, manager, approval)
      PROVE  DebtLosesOnlyDust
  <2>1. UNCHANGED <<Cdps, redistributionVars, systemDebt>>
    BY <1>4 DEF SetPositionManagerApproval, poolVars
  <2> QED
    BY <1>0, <2>1, NobodyRepays
<1> QED
  BY <1>1, <1>2, <1>3, <1>4, CloseCdpDebt DEF BorrowerAction

LEMMA LiquidationDebt ==
  ASSUME LedgerInv, BooksKept, LiquidationAction PROVE DebtLosesOnlyDust
<1>1. \/ \E liquidator \in Users, id \in CdpIds : Liquidate(liquidator, id)
      \/ \E liquidator \in Users, id \in CdpIds, partialDebt \in PartialAmounts,
            k \in 0 .. Len(sortedCdps) - 1 : PartiallyLiquidate(liquidator, id, partialDebt, k)
      \/ \E ids \in BoundedSeq(CdpIds, MaxBatch) : BatchLiquidateCdps(ids)
  BY DEF LiquidationAction
<1>2. ASSUME NEW liquidator \in Users, NEW id \in CdpIds, NEW partialDebt \in PartialAmounts,
             NEW k \in 0 .. Len(sortedCdps) - 1,
             PartiallyLiquidate(liquidator, id, partialDebt, k)
      PROVE  DebtLosesOnlyDust
  <2>1. partialDebt \in Nat /\ Cdps' \in [CdpIds -> CdpRecords]
    BY LiquidationInputAssumption DEF BooksKept, CdpBooks, CdpsAreProper
  <2> QED
    BY <2>1, <1>2, PartialLiquidationDebt
<1> QED
  BY <1>1, <1>2, BatchInputType, LiquidateDebt, BatchLiquidateDebt

LEMMA StepDebt ==
  ASSUME LedgerInv, [Next]_vars PROVE DebtLosesOnlyDust
<1>0. TypeOK /\ IndicesAreReached /\ BooksKept
  BY StepBooks DEF LedgerInv
<1>1. CASE UNCHANGED <<Cdps, redistributionVars, systemDebt>>
  BY <1>0, <1>1, NobodyRepays
<1>2. ASSUME EnvironmentAction \/ UNCHANGED vars
      PROVE  UNCHANGED <<Cdps, redistributionVars, systemDebt>>
  <2>1. ASSUME EnvironmentAction PROVE UNCHANGED protocolVars
    BY <2>1 DEF EnvironmentAction, Rebase, SetPrice, Tick
  <2>2. ASSUME UNCHANGED vars PROVE UNCHANGED protocolVars
    BY <2>2 DEF vars, protocolVars, surplusVars
  <2> QED
    BY <1>2, <2>1, <2>2 DEF protocolVars, poolVars
<1>3. ASSUME GovernanceAction PROVE UNCHANGED <<Cdps, redistributionVars, systemDebt>>
  <2>1. SyncBeforeSetting
    BY <1>3 DEF GovernanceAction, SetStakingRewardSplit, SetGracePeriod, SetRedemptionFeeFloor,
                SetMinuteDecayFactor, SetBeta, SetRedemptionsPaused
  <2> QED
    BY <2>1 DEF SyncBeforeSetting
<1>4. ASSUME AccountAction PROVE UNCHANGED <<Cdps, redistributionVars, systemDebt>>
  <2>1. ASSUME NEW sender, NEW recipient, NEW amount, Transfer(sender, recipient, amount)
        PROVE  UNCHANGED <<Cdps, redistributionVars, systemDebt>>
    BY <2>1 DEF Transfer, poolVars
  <2>2. ASSUME NEW shares, ClaimFeeRecipientCollShares(shares)
        PROVE  UNCHANGED <<Cdps, redistributionVars, systemDebt>>
    BY <2>2 DEF ClaimFeeRecipientCollShares
  <2>3. ASSUME Sync PROVE UNCHANGED <<Cdps, redistributionVars, systemDebt>>
    BY <2>3 DEF Sync, SyncBeforeSetting
  <2> QED
    BY <1>4, <2>1, <2>2, <2>3 DEF AccountAction
<1> QED
  BY <1>0, <1>1, <1>2, <1>3, <1>4, BorrowerDebt, LiquidationDebt, RedemptionDebt DEF Next

(* No transaction loses more of the CDPs' debt to rounding than a unit for   *)
(* each CDP it touches, and none creates any: the debt half of               *)
(* OnlyDustIsLost.  Bad debt that a liquidation shares out through the       *)
(* index, what each CDP takes on when it is next synced, and what is repaid, *)
(* redeemed, liquidated or burnt meanwhile, in any order, all of it is in    *)
(* the system's total.                                                       *)
THEOREM DebtTheorem == Spec => [][DebtLosesOnlyDust]_vars
<1> DEFINE IInv == LedgerInv /\ PoolMargin >= 0
<1>1. Init => IInv
  BY InitBooks
<1>2. IInv /\ [Next]_vars => IInv'
  BY BooksAreInvariant
<1>3. IInv /\ [Next]_vars => [DebtLosesOnlyDust]_vars
  BY StepDebt
<1> QED
  BY <1>1, <1>2, <1>3, PTL DEF Spec

\* What the CDPs owe after a step is an integer.
LEMMA OwedIsInt ==
  ASSUME TypeOK' PROVE SumOverCdps(Owed') \in Int
<1>1. \A id \in CdpIds : Owed'[id] \in Int
  <2> SUFFICES ASSUME NEW id \in CdpIds PROVE Owed'[id] \in Int
    OBVIOUS
  <2> DEFINE cdp == Cdps'[id]
             behind == systemDebtRedistributionIndex' - cdp.debtIndex
             scaled == cdp.debt * DECIMAL_PRECISION
             pending == cdp.stake * behind
  <2>1. cdp \in CdpRecords
    BY DEF TypeOK, CdpTypeOK
  <2>2. cdp.stake \in Int /\ cdp.debt \in Int /\ behind \in Int
    BY <2>1 DEF CdpRecords, TypeOK, RedistributionTypeOK
  <2>3. Owed'[id] = scaled + pending
    BY DEF Owed, OwedIn, ScaledDebt
  <2> HIDE DEF cdp, behind
  <2>4. scaled \in Int /\ pending \in Int
    BY <2>2, ScaleAssumption
  <2> QED
    BY <2>3, <2>4
<1> HIDE DEF Owed
<1> QED
  BY <1>1, CdpIdsAreFinite, SumIsInt DEF SumOverCdps

(* The CDPs never owe more than the debt of the system, pending debt         *)
(* included: the dust of all roundings stays with the system's total.        *)
THEOREM DebtCoverTheorem == Spec => [](DebtDust >= 0)
<1> DEFINE IInv == LedgerInv /\ PoolMargin >= 0
           Covered == DebtDust \in Nat
<1>1. Init => IInv /\ Covered
  <2> SUFFICES ASSUME Init PROVE Covered
    BY InitBooks
  <2>1. \A id \in CdpIds : Owed[id] = 0
    <3> SUFFICES ASSUME NEW id \in CdpIds PROVE Owed[id] = 0
      OBVIOUS
    <3>1. Cdps[id].stake = 0 /\ Cdps[id].debt = 0 /\ Cdps[id].debtIndex = 0
      BY DEF Init, NoCdp
    <3>2. Owed[id] = 0 * DECIMAL_PRECISION + 0 * (systemDebtRedistributionIndex - 0)
      BY <3>1 DEF Owed, OwedIn, ScaledDebt
    <3> QED
      BY <3>2, ScaleAssumption DEF Init
  <2>2. SumOverCdps(Owed) = 0
    BY <2>1, CdpIdsAreFinite, SumOfZeros DEF SumOverCdps
  <2>3. 0 * DECIMAL_PRECISION - 0 - 0 = 0
    BY ScaleAssumption
  <2>4. DebtDust = 0
    BY <2>2, <2>3, DustIsWhatIsNotOwed DEF Init
  <2> QED
    BY <2>4
<1>2. IInv /\ Covered /\ [Next]_vars => IInv' /\ Covered'
  <2> SUFFICES ASSUME LedgerInv, Covered, [Next]_vars, LedgerInv' PROVE Covered'
    BY BooksAreInvariant
  <2> DEFINE most == Cardinality(Touched) * DECIMAL_PRECISION
  <2>1. DebtDust' - DebtDust \in 0 .. most
    BY StepDebt DEF DebtLosesOnlyDust
  <2>2. DebtDust' \in Int
    <3>1. SumOverCdps(Owed') \in Int
      BY OwedIsInt DEF LedgerInv
    <3>2. /\ systemDebt' \in Int /\ lastEBTCDebtErrorRedistribution' \in Int
          /\ DECIMAL_PRECISION \in Int
      BY ScaleAssumption DEF LedgerInv, TypeOK, PoolTypeOK, RedistributionTypeOK
    <3>3. systemDebt' * DECIMAL_PRECISION \in Int
      BY <3>2
    <3> QED
      BY <3>1, <3>2, <3>3, DustIsWhatIsNotOwed
  <2> HIDE DEF most
  <2>3. DebtDust' - DebtDust >= 0 /\ DebtDust \in Nat
    BY <2>1
  <2>4. DebtDust' \in Nat
    <3> DEFINE before == DebtDust
               after == DebtDust'
    <3>1. after \in Int /\ before \in Nat /\ after - before >= 0
      BY <2>2, <2>3
    <3> HIDE DEF before, after
    <3>2. after \in Nat
      BY <3>1
    <3> QED
      BY <3>2 DEF after
  <2> QED
    BY <2>4
<1>3. IInv /\ Covered => DebtDust >= 0
  BY DEF DebtDust
<1> QED
  BY <1>1, <1>2, <1>3, PTL DEF Spec

(* --- The collateral keeps up with what the CDPs claim ------------------ *)

\* What a CDP owns once an index is applied, unrounded and scaled
ClaimAt(cdp, feeIndex) ==
  cdp.coll * DECIMAL_PRECISION - cdp.stake * (feeIndex - cdp.feeIndex)

\* The CDP has paid its fees up to the index, or has no stake to pay them by.
IsCharged(cdp, feeIndex) == cdp.feeIndex = feeIndex \/ cdp.stake = 0

\* The fee that is due on a CDP does not reach its collateral.
FeeFits(cdp, feeIndex) ==
  \/ cdp.stake * (feeIndex - cdp.feeIndex) = 0
  \/ cdp.stake * (feeIndex - cdp.feeIndex) < cdp.coll * DECIMAL_PRECISION

\* On the way from Cdps to C, CDPs are left alone or charged.
IsChargedOrLeft(C, feeIndex) ==
  \A id \in CdpIds : C[id] = Cdps[id] \/ IsCharged(C[id], feeIndex)

\* What the CDPs give up on that way beyond their fees (less than nothing: what
\* they receive), and what the fees lose of theirs to rounding, scaled
DrawnIn(C, feeIndex) ==
  [id \in CdpIds |->
     IF C[id] # Cdps[id] THEN CollAfterFeeSplit(Cdps[id], feeIndex) - C[id].coll ELSE 0]

LostIn(C, feeIndex) ==
  [id \in CdpIds |->
     IF C[id] # Cdps[id]
     THEN ClaimAt(Cdps[id], feeIndex)
            - CollAfterFeeSplit(Cdps[id], feeIndex) * DECIMAL_PRECISION
     ELSE 0]

ClaimsIn(C, feeIndex) == [id \in CdpIds |-> ClaimAt(C[id], feeIndex)]

LEMMA ClaimIsInt ==
  ASSUME NEW cdp \in CdpRecords, NEW feeIndex \in Nat
  PROVE  /\ cdp.coll * DECIMAL_PRECISION \in Nat
         /\ cdp.stake * (feeIndex - cdp.feeIndex) \in Int
         /\ ClaimAt(cdp, feeIndex) \in Int
<1>1. cdp.coll \in Nat /\ cdp.stake \in Nat /\ feeIndex - cdp.feeIndex \in Int
  BY DEF CdpRecords
<1>2. cdp.coll * DECIMAL_PRECISION \in Nat
  BY <1>1, ScaleAssumption, ProductIsNat
<1>3. \A x, y \in Int : x * y \in Int
  OBVIOUS
<1>4. cdp.stake * (feeIndex - cdp.feeIndex) \in Int
  BY <1>1, <1>3
<1> QED
  BY <1>2, <1>4 DEF ClaimAt

\* A CDP that is charged claims its collateral, and a sync takes nothing off it.
LEMMA ChargedClaim ==
  ASSUME NEW cdp \in CdpRecords, NEW feeIndex \in Nat, IsCharged(cdp, feeIndex)
  PROVE  /\ ClaimAt(cdp, feeIndex) = cdp.coll * DECIMAL_PRECISION
         /\ CollAfterFeeSplit(cdp, feeIndex) = cdp.coll
<1> DEFINE D == DECIMAL_PRECISION
           scaled == cdp.coll * D
           fee == cdp.stake * (feeIndex - cdp.feeIndex)
<1>1. cdp.coll \in Nat /\ cdp.stake \in Nat /\ cdp.feeIndex \in Nat /\ D \in Nat \ {0}
  BY ScaleAssumption DEF CdpRecords
<1>2. fee = 0
  BY <1>1 DEF IsCharged
<1>3. scaled \in Nat
  BY ClaimIsInt
<1>4. ClaimAt(cdp, feeIndex) = scaled - fee
  BY DEF ClaimAt
<1>5. CollAfterFeeSplit(cdp, feeIndex)
        = IF cdp.feeIndex > 0 /\ scaled > fee THEN (scaled - fee) \div D ELSE cdp.coll
  BY DEF CollAfterFeeSplit
<1>6. \A n \in Nat, d \in Nat \ {0} : (n * d) \div d = n
  OBVIOUS
<1>7. scaled \div D = cdp.coll
  BY <1>1, <1>6
<1> HIDE DEF scaled, fee, D
<1>8. scaled - fee = scaled
  BY <1>2, <1>3
<1> QED
  BY <1>4, <1>5, <1>7, <1>8 DEF scaled, D

\* A sync loses less than a unit of a CDP's claim, if the fee fits.
LEMMA FeeLosesDust ==
  ASSUME NEW cdp \in CdpRecords, IsProper(cdp), NEW feeIndex \in Nat, FeeFits(cdp, feeIndex)
  PROVE  ClaimAt(cdp, feeIndex) - CollAfterFeeSplit(cdp, feeIndex) * DECIMAL_PRECISION
           \in 0 .. DECIMAL_PRECISION
<1> DEFINE D == DECIMAL_PRECISION
           scaled == cdp.coll * D
           fee == cdp.stake * (feeIndex - cdp.feeIndex)
           due == CollAfterFeeSplit(cdp, feeIndex)
           claim == ClaimAt(cdp, feeIndex)
<1>1. cdp.coll \in Nat /\ cdp.stake \in Nat /\ cdp.feeIndex \in Nat /\ D \in Nat \ {0}
  BY ScaleAssumption DEF CdpRecords
<1>2. scaled \in Nat /\ fee \in Int
  BY ClaimIsInt
<1>3. claim = scaled - fee
  BY DEF ClaimAt
<1>4. due = IF cdp.feeIndex > 0 /\ scaled > fee THEN (scaled - fee) \div D ELSE cdp.coll
  BY DEF CollAfterFeeSplit
<1>5. cdp.feeIndex > 0 \/ fee = 0
  <2>1. cdp.feeIndex > 0 \/ cdp.stake = 0
    BY DEF IsProper
  <2> QED
    BY <1>1, <2>1
<1>6. fee = 0 \/ fee < scaled
  BY DEF FeeFits
<1>7. CASE cdp.feeIndex > 0 /\ scaled > fee
  <2> HIDE DEF scaled, fee, D, due, claim
  <2>1. scaled - fee \in Int /\ scaled - fee >= 0 /\ D \in Int /\ D > 0
    BY <1>1, <1>2, <1>7
  <2>2. due = (scaled - fee) \div D
    BY <1>4, <1>7
  <2>3. claim % D = claim - due * D
    BY <1>3, <2>1, <2>2, QuotientAndRest
  <2>4. claim % D \in 0 .. D
    BY <1>1, <1>3, <2>1
  <2> QED
    BY <2>3, <2>4 DEF D, due, claim
<1>8. CASE ~(cdp.feeIndex > 0 /\ scaled > fee)
  <2>1. due = cdp.coll
    BY <1>4, <1>8
  <2>2. due * D = scaled
    BY <2>1
  <2> HIDE DEF scaled, fee, D, due, claim
  <2>3. fee = 0
    BY <1>1, <1>2, <1>5, <1>6, <1>8
  <2>4. claim - due * D = 0
    BY <1>2, <1>3, <2>2, <2>3
  <2>5. 0 \in 0 .. D
    BY <1>1
  <2> QED
    BY <2>4, <2>5 DEF D, due, claim
<1> QED
  BY <1>7, <1>8

LEMMA CollMoves ==
  ASSUME TypeOK, CdpsAreProper(Cdps), NEW feeIndex \in Nat,
         NEW C \in [CdpIds -> CdpRecords], IsChargedOrLeft(C, feeIndex),
         \A id \in ChangedIn(C) : FeeFits(Cdps[id], feeIndex)
  PROVE  /\ SumOverCdps(ClaimsIn(C, feeIndex)) \in Int
         /\ SumOverCdps(DrawnIn(C, feeIndex)) \in Int
         /\ SumOverCdps(ClaimsIn(Cdps, feeIndex)) - SumOverCdps(ClaimsIn(C, feeIndex))
               - DECIMAL_PRECISION * SumOverCdps(DrawnIn(C, feeIndex))
              \in 0 .. Cardinality(ChangedIn(C)) * DECIMAL_PRECISION
<1> DEFINE D == DECIMAL_PRECISION
           before == ClaimsIn(Cdps, feeIndex)
           after == ClaimsIn(C, feeIndex)
           drawn == DrawnIn(C, feeIndex)
           lost == LostIn(C, feeIndex)
           most == [id \in CdpIds |-> after[id] + D * drawn[id]]
<1>0. D \in Nat \ {0} /\ IsFiniteSet(CdpIds)
  BY ScaleAssumption, CdpIdsAreFinite
<1>1. ASSUME NEW id \in CdpIds
      PROVE  /\ after[id] \in Int /\ drawn[id] \in Int /\ lost[id] \in 0 .. D
             /\ before[id] = most[id] + 1 * lost[id]
             /\ id \notin ChangedIn(C) => lost[id] = 0
  <2> DEFINE old == Cdps[id]
             new == C[id]
             due == CollAfterFeeSplit(old, feeIndex)
  <2>0. old \in CdpRecords /\ new \in CdpRecords /\ IsProper(old)
    BY DEF CdpsAreProper
  <2>1. due \in Nat /\ ClaimAt(old, feeIndex) \in Int /\ ClaimAt(new, feeIndex) \in Int
    BY <2>0, CollAfterFeeIsNat, ClaimIsInt
  <2>2. /\ after[id] = ClaimAt(new, feeIndex) /\ before[id] = ClaimAt(old, feeIndex)
        /\ most[id] = after[id] + D * drawn[id]
    BY DEF ClaimsIn
  <2>3. new.coll \in Nat
    BY <2>0, RecordFields
  <2>4. CASE new = old
    <3>1. drawn[id] = 0 /\ lost[id] = 0
      BY <2>4 DEF DrawnIn, LostIn
    <3> HIDE DEF after, before, drawn, lost, most, new, old
    <3>2. D * 0 = 0 /\ 1 * 0 = 0
      BY <1>0
    <3> QED
      BY <1>0, <2>1, <2>2, <2>4, <3>1, <3>2
  <2>5. CASE new # old
    <3>1. drawn[id] = due - new.coll /\ lost[id] = ClaimAt(old, feeIndex) - due * D
      BY <2>5 DEF DrawnIn, LostIn
    <3>2. ClaimAt(new, feeIndex) = new.coll * D
      BY <2>0, <2>5, ChargedClaim DEF IsChargedOrLeft
    <3>3. id \in ChangedIn(C)
      BY <2>5 DEF ChangedIn
    <3>4. ClaimAt(old, feeIndex) - due * D \in 0 .. D
      BY <2>0, <3>3, FeeLosesDust
    <3> HIDE DEF after, before, drawn, lost, most, new, old, D, due
    <3>5. new.coll * D \in Nat /\ due * D \in Nat
      BY <1>0, <2>1, <2>3, ProductIsNat
    <3>6. D * (due - new.coll) = due * D - new.coll * D
      BY <1>0, <2>1, <2>3
    <3>7. most[id] = due * D
      BY <2>2, <3>1, <3>2, <3>5, <3>6
    <3>8. before[id] = most[id] + 1 * lost[id]
      BY <2>1, <2>2, <3>1, <3>5, <3>7
    <3> QED
      BY <2>1, <2>2, <2>3, <3>1, <3>3, <3>4, <3>8
  <2> QED
    BY <2>4, <2>5
<1>2. \A id \in CdpIds : most[id] \in Int
  <2>1. \A x, y \in Int : x + D * y \in Int
    BY <1>0
  <2> HIDE DEF after, drawn, D
  <2> QED
    BY <1>1, <2>1
<1> HIDE DEF before, after, drawn, lost, D
<1>3. \A id \in CdpIds : most[id] = after[id] + D * drawn[id]
  OBVIOUS
<1> HIDE DEF most
<1>4. SumFunctionOnSet(before, CdpIds)
        = SumFunctionOnSet(most, CdpIds) + 1 * SumFunctionOnSet(lost, CdpIds)
  <2>1. \A id \in CdpIds : /\ most[id] \in Int /\ lost[id] \in Int
                           /\ before[id] = most[id] + 1 * lost[id]
    BY <1>1, <1>2
  <2> QED
    BY <1>0, <2>1, SumIsLinear
<1>5. SumFunctionOnSet(most, CdpIds)
        = SumFunctionOnSet(after, CdpIds) + D * SumFunctionOnSet(drawn, CdpIds)
  <2>1. D \in Int
    BY <1>0
  <2> QED
    BY <1>0, <1>1, <1>3, <2>1, SumIsLinear
<1>6. SumFunctionOnSet(lost, CdpIds) \in 0 .. Cardinality(ChangedIn(C)) * D
  <2>1. ChangedIn(C) \in SUBSET CdpIds
    BY DEF ChangedIn
  <2> QED
    BY <1>0, <1>1, <2>1, SumOfSmall
<1>7. SumFunctionOnSet(after, CdpIds) \in Int /\ SumFunctionOnSet(drawn, CdpIds) \in Int
  BY <1>0, <1>1, SumIsInt
<1> DEFINE a == SumOverCdps(after)
           p == SumOverCdps(drawn)
           r == SumOverCdps(lost)
<1>8. /\ SumOverCdps(before) = (a + D * p) + 1 * r /\ a \in Int /\ p \in Int
      /\ r \in 0 .. Cardinality(ChangedIn(C)) * D
  BY <1>4, <1>5, <1>6, <1>7 DEF SumOverCdps
<1> HIDE DEF a, p, r
<1>9. D * p \in Int /\ r \in Int
  BY <1>0, <1>8
<1>10. SumOverCdps(before) - a - D * p = r
  BY <1>8, <1>9
<1> QED
  BY <1>8, <1>10 DEF before, after, drawn, D, a, p

\* A sync of the globals moves the collateral by the fee that the CDPs owe by it:
\* what the totals hold above the CDPs' claims is the same before and after.
LEMMA SyncMovesTheClaims ==
  ASSUME TypeOK, totalStakes = SumOverCdps(StakesOf(Cdps)), SyncGlobalSucceeds
  PROVE  /\ SyncedGlobal \in GlobalRecords
         /\ SumOverCdps(ClaimsIn(Cdps, SyncedGlobal.feeIndex)) \in Int
         /\ CollDust = SyncedGlobal.systemCollShares * DECIMAL_PRECISION + SyncedGlobal.feeError
                         - SumOverCdps(ClaimsIn(Cdps, SyncedGlobal.feeIndex))
<1> DEFINE g == SyncedGlobal
           D == DECIMAL_PRECISION
           I == systemStEthFeePerUnitIndex
           error == systemStEthFeePerUnitIndexError
           S == systemCollShares
           now0 == ClaimsIn(Cdps, I)
           then == ClaimsIn(Cdps, g.feeIndex)
           stakes == StakesOf(Cdps)
<1>1. g \in GlobalRecords
  BY SyncedGlobalType
<1>2. /\ D \in Nat \ {0} /\ I \in Nat /\ error \in Nat /\ S \in Nat /\ totalStakes \in Nat
      /\ IsFiniteSet(CdpIds) /\ g.feeIndex \in Nat
      /\ \A id \in CdpIds : Cdps[id] \in CdpRecords
  BY <1>1, ScaleAssumption, CdpIdsAreFinite
     DEF TypeOK, FeeIndexTypeOK, PoolTypeOK, StakeTypeOK, CdpTypeOK, GlobalRecords
<1>3. CollDust = S * D + error - SumOverCdps(now0)
  BY DEF CollDust, ScaledColl, ClaimsIn, ClaimAt
<1>4. \A id \in CdpIds : now0[id] \in Int /\ then[id] \in Int /\ stakes[id] \in Int
  BY <1>2, ClaimIsInt DEF ClaimsIn, StakesOf, CdpRecords
<1>5. SumOverCdps(now0) \in Int /\ SumOverCdps(then) \in Int
  <2> HIDE DEF now0, then
  <2> QED
    BY <1>2, <1>4, SumIsInt DEF SumOverCdps
<1>6. S * D + error - SumOverCdps(now0) = g.systemCollShares * D + g.feeError - SumOverCdps(then)
  <2>1. CASE ~FeeIsDue
    <3>1. g.feeIndex = I /\ g.systemCollShares = S /\ g.feeError = error
      BY <2>1 DEF SyncedGlobal
    <3> QED
      BY <3>1
  <2>2. CASE FeeIsDue
    <3> DEFINE taken == FeeUponStakingReward.feeTaken
               rise == FeeUponStakingReward.perUnit
               rest == FeeUponStakingReward.error
               scaled == taken * D + error
    <3>1. g.feeIndex = I + rise /\ g.systemCollShares = S - taken /\ g.feeError = rest
      BY <2>2 DEF SyncedGlobal
    <3>2. taken \in Nat /\ rise \in Nat /\ rest \in Nat
      BY <2>2, FeeIsNat
    <3>3. totalStakes > 0
      BY <2>2 DEF FeeIsDue
    <3>4. rise = scaled \div totalStakes /\ rest = scaled % totalStakes
      BY DEF FeeUponStakingReward
    <3>5. scaled \in Nat
      BY <1>2, <3>2, ProductIsNat
    <3> HIDE DEF g, D, I, error, S, taken, rise, rest, now0, then, stakes
    <3>6. rise * totalStakes + rest = scaled /\ rise * totalStakes \in Nat
      <4> HIDE DEF scaled
      <4>1. scaled \in Int /\ scaled >= 0 /\ totalStakes \in Int
        BY <1>2, <3>5
      <4> QED
        BY <3>3, <3>4, <4>1, DivisionFacts
    <3>7. ASSUME NEW id \in CdpIds PROVE now0[id] = then[id] + rise * stakes[id]
      <4> DEFINE cdp == Cdps[id]
                 s == cdp.stake
                 i == cdp.feeIndex
                 c == cdp.coll * D
      <4>1. /\ now0[id] = c - s * (I - i) /\ then[id] = c - s * (g.feeIndex - i)
            /\ stakes[id] = s
        BY DEF now0, then, stakes, ClaimsIn, ClaimAt, StakesOf, D
      <4>2. s \in Nat /\ i \in Nat /\ c \in Nat
        BY <1>2, ClaimIsInt DEF CdpRecords, D
      <4> HIDE DEF s, i, c
      <4>3. s * (g.feeIndex - i) = s * (I - i) + rise * s
        BY <1>2, <3>1, <3>2, <4>2
      <4>4. s * (I - i) \in Int /\ rise * s \in Int
        BY <1>2, <3>2, <4>2
      <4> QED
        BY <4>1, <4>2, <4>3, <4>4
    <3>8. SumFunctionOnSet(now0, CdpIds)
            = SumFunctionOnSet(then, CdpIds) + rise * SumFunctionOnSet(stakes, CdpIds)
      <4>1. /\ rise \in Int
            /\ \A id \in CdpIds : /\ then[id] \in Int /\ stakes[id] \in Int
                                  /\ now0[id] = then[id] + rise * stakes[id]
        BY <1>4, <3>2, <3>7
      <4> QED
        BY <1>2, <4>1, SumIsLinear
    <3>9. SumOverCdps(now0) = SumOverCdps(then) + rise * totalStakes
      BY <3>8 DEF SumOverCdps, stakes
    <3>10. (S - taken) * D = S * D - taken * D /\ S * D \in Int /\ taken * D \in Int
      BY <1>2, <3>2
    <3> QED
      BY <1>2, <1>5, <3>1, <3>2, <3>6, <3>9, <3>10
  <2> QED
    BY <2>1, <2>2
<1> QED
  BY <1>1, <1>3, <1>5, <1>6

\* What a transaction does to the collateral: it syncs the globals, charges the
\* CDPs it touches, and adds to the system's collateral, or takes off it, what
\* those receive or give up beyond their fees.
CollIsAccounted ==
  /\ SyncFeeIndices(SyncedGlobal)
  /\ IsChargedOrLeft(Cdps', SyncedGlobal.feeIndex)
  /\ systemCollShares' = SyncedGlobal.systemCollShares
                           - SumOverCdps(DrawnIn(Cdps', SyncedGlobal.feeIndex))

\* No fee due on a CDP that the step touches reaches its collateral.
TouchedFeesFit == \A id \in Touched : FeeFits(Cdps[id], SyncedGlobal.feeIndex)

LEMMA AccountedLosesDust ==
  ASSUME LedgerInv, Cdps' \in [CdpIds -> CdpRecords], CollIsAccounted, TouchedFeesFit
  PROVE  CollLosesOnlyDust
<1> DEFINE g == SyncedGlobal
           F == g.feeIndex
           D == DECIMAL_PRECISION
           S == g.systemCollShares
           error == g.feeError
           before == SumOverCdps(ClaimsIn(Cdps, F))
           after == SumOverCdps(ClaimsIn(Cdps', F))
           drawn == SumOverCdps(DrawnIn(Cdps', F))
           most == Cardinality(ChangedIn(Cdps')) * D
<1>1. TypeOK /\ CdpsAreProper(Cdps) /\ totalStakes = SumOverCdps(StakesOf(Cdps))
  BY DEF LedgerInv, CdpBooks
<1>2. ChangedIn(Cdps') = Touched
  BY DEF ChangedIn, Touched
<1>3. g \in GlobalRecords /\ before \in Int /\ CollDust = S * D + error - before
  BY <1>1, SyncMovesTheClaims DEF CollIsAccounted, SyncFeeIndices
<1>4. F \in Nat /\ S \in Nat /\ error \in Nat /\ D \in Nat
  BY <1>3, ScaleAssumption DEF GlobalRecords
<1>5. /\ after \in Int /\ drawn \in Int /\ before - after - D * drawn \in 0 .. most
  BY <1>1, <1>2, <1>4, CollMoves DEF CollIsAccounted, TouchedFeesFit
<1>6. CollDust' = (S - drawn) * D + error - after
  <2>1. /\ systemStEthFeePerUnitIndex' = F /\ systemStEthFeePerUnitIndexError' = error
        /\ systemCollShares' = S - drawn
    BY DEF CollIsAccounted, SyncFeeIndices
  <2>2. ClaimsIn(Cdps', F)
          = [id \in CdpIds |-> Cdps'[id].coll * DECIMAL_PRECISION
               - Cdps'[id].stake * (systemStEthFeePerUnitIndex' - Cdps'[id].feeIndex)]
    BY <2>1 DEF ClaimsIn, ClaimAt
  <2> QED
    BY <2>1, <2>2 DEF CollDust, ScaledColl
<1> HIDE DEF g, F, D, S, error, before, after, drawn, most
<1>7. (S - drawn) * D = S * D - D * drawn /\ S * D \in Int /\ D * drawn \in Int
  BY <1>4, <1>5
<1>8. CollDust' - CollDust = before - after - D * drawn
  BY <1>3, <1>4, <1>5, <1>6, <1>7
<1>9. CollDust' - CollDust \in 0 .. most
  BY <1>5, <1>8
<1> QED
  BY <1>2, <1>9 DEF CollLosesOnlyDust, most, D

LEMMA NothingDrawn ==
  ASSUME TypeOK, NEW feeIndex
  PROVE  IsChargedOrLeft(Cdps, feeIndex) /\ SumOverCdps(DrawnIn(Cdps, feeIndex)) = 0
<1>1. \A id \in CdpIds : DrawnIn(Cdps, feeIndex)[id] = 0
  BY DEF DrawnIn
<1>2. SumOverCdps(DrawnIn(Cdps, feeIndex)) = 0
  BY <1>1, CdpIdsAreFinite, SumOfZeros DEF SumOverCdps
<1> QED
  BY <1>2 DEF IsChargedOrLeft

\* One more CDP is charged, and gives up collateral.
LEMMA DrawnChanges ==
  ASSUME TypeOK, NEW feeIndex \in Nat,
         NEW C \in [CdpIds -> CdpRecords], IsChargedOrLeft(C, feeIndex),
         NEW id \in CdpIds, C[id] = Cdps[id],
         NEW new \in CdpRecords, IsCharged(new, feeIndex), NEW D, Replaces(D, C, id, new)
  PROVE  /\ IsChargedOrLeft(D, feeIndex)
         /\ SumOverCdps(DrawnIn(C, feeIndex)) \in Int
         /\ CollAfterFeeSplit(Cdps[id], feeIndex) \in Nat
         /\ SumOverCdps(DrawnIn(D, feeIndex))
              = SumOverCdps(DrawnIn(C, feeIndex))
                  + (CollAfterFeeSplit(Cdps[id], feeIndex) - new.coll)
<1> DEFINE Due(i) == CollAfterFeeSplit(Cdps[i], feeIndex)
<1>1. D \in [CdpIds -> CdpRecords] /\ D[id] = new /\ \A i \in CdpIds : i # id => D[i] = C[i]
  BY DEF Replaces
<1>2. IsChargedOrLeft(D, feeIndex)
  BY <1>1 DEF IsChargedOrLeft
<1>3. \A i \in CdpIds : Due(i) \in Nat /\ Cdps[i] \in CdpRecords
  BY CollAfterFeeIsNat DEF TypeOK, CdpTypeOK
<1>4. \A E \in [CdpIds -> CdpRecords] : DrawnIn(E, feeIndex) \in [CdpIds -> Int]
  <2> SUFFICES ASSUME NEW E \in [CdpIds -> CdpRecords], NEW i \in CdpIds
               PROVE  Due(i) - E[i].coll \in Int
    BY DEF DrawnIn
  <2>1. E[i].coll \in Nat
    BY RecordFields
  <2> QED
    BY <1>3, <2>1
<1>5. \A i \in CdpIds \ {id} : DrawnIn(D, feeIndex)[i] = DrawnIn(C, feeIndex)[i]
  BY <1>1 DEF DrawnIn
<1>6. DrawnIn(C, feeIndex)[id] = 0
  BY DEF DrawnIn
<1>7. DrawnIn(D, feeIndex)[id] = Due(id) - new.coll
  <2>1. CASE new # Cdps[id]
    BY <1>1, <2>1 DEF DrawnIn
  <2>2. CASE new = Cdps[id]
    <3>1. DrawnIn(D, feeIndex)[id] = 0
      BY <1>1, <2>2 DEF DrawnIn
    <3>2. Due(id) = new.coll /\ new.coll \in Nat
      BY <2>2, ChargedClaim, RecordFields
    <3> QED
      BY <3>1, <3>2
  <2> QED
    BY <2>1, <2>2
<1> DEFINE f == DrawnIn(C, feeIndex)
           h == DrawnIn(D, feeIndex)
<1>8. f \in [CdpIds -> Int] /\ h \in [CdpIds -> Int]
  BY <1>1, <1>4
<1> HIDE DEF f, h
<1>9. SumOverCdps(h) = SumOverCdps(f) - f[id] + h[id]
  BY <1>5, <1>8, CdpSumChanges DEF f, h
<1>10. SumOverCdps(f) \in Int
  BY <1>8, CdpIdsAreFinite, SumIsInt DEF SumOverCdps
<1>11. f[id] = 0 /\ h[id] = Due(id) - new.coll /\ h[id] \in Int
  BY <1>6, <1>7, <1>8 DEF f, h
<1>12. SumOverCdps(h) = SumOverCdps(f) + (Due(id) - new.coll)
  BY <1>9, <1>10, <1>11
<1> QED
  BY <1>2, <1>3, <1>10, <1>12 DEF f, h

\* A sync charges a CDP, and a CDP that is closed has nothing left to charge.
LEMMA SyncCharges ==
  ASSUME NEW id, NEW feeIndex
  PROVE  /\ SyncedCdp(id, feeIndex).coll = CollAfterFeeSplit(Cdps[id], feeIndex)
         /\ SyncedCdp(id, feeIndex).feeIndex = feeIndex
  BY DEF SyncedCdp

LEMMA ClosedIsCharged ==
  ASSUME NEW cdp, NEW closedStatus, NEW feeIndex
  PROVE  IsCharged(ClosedCdp(cdp, closedStatus), feeIndex) /\ ClosedCdp(cdp, closedStatus).coll = 0
  BY DEF ClosedCdp, NoCdp, IsCharged

LEMMA UpdatedIsCharged ==
  ASSUME NEW id, NEW feeIndex, SyncedCdp(id, feeIndex) \in CdpRecords,
         NEW coll, NEW debt, NEW stake
  PROVE  /\ IsCharged(UpdatedCdp(SyncedCdp(id, feeIndex), coll, debt, stake), feeIndex)
         /\ UpdatedCdp(SyncedCdp(id, feeIndex), coll, debt, stake).coll = coll
<1> DEFINE cdp == SyncedCdp(id, feeIndex)
<1>1. cdp.feeIndex = feeIndex /\ cdp \in CdpRecords
  BY SyncCharges
<1> HIDE DEF cdp
<1>2. /\ UpdatedCdp(cdp, coll, debt, stake).feeIndex = cdp.feeIndex
      /\ UpdatedCdp(cdp, coll, debt, stake).coll = coll
  BY <1>1 DEF UpdatedCdp, CdpRecords
<1> QED
  BY <1>1, <1>2 DEF IsCharged, cdp

\* The steps of one borrower
LEMMA OneDraws ==
  ASSUME TypeOK, SyncFeeIndices(SyncedGlobal), NEW id \in CdpIds,
         NEW new \in CdpRecords, IsCharged(new, SyncedGlobal.feeIndex),
         Cdps' = [Cdps EXCEPT ![id] = new],
         systemCollShares' = SyncedGlobal.systemCollShares
           - (CollAfterFeeSplit(Cdps[id], SyncedGlobal.feeIndex) - new.coll)
  PROVE  CollIsAccounted
<1> DEFINE F == SyncedGlobal.feeIndex
<1>1. Cdps \in [CdpIds -> CdpRecords]
  BY DEF TypeOK, CdpTypeOK
<1>2. Replaces(Cdps', Cdps, id, new)
  BY <1>1, ExceptReplaces
<1>3. IsChargedOrLeft(Cdps, F) /\ SumOverCdps(DrawnIn(Cdps, F)) = 0
  BY NothingDrawn
<1>4. F \in Nat /\ IsCharged(new, F)
  BY FeeStaysInThePool DEF SyncFeeIndices, GlobalRecords
<1> HIDE DEF F
<1>5. /\ IsChargedOrLeft(Cdps', F) /\ CollAfterFeeSplit(Cdps[id], F) \in Nat
      /\ SumOverCdps(DrawnIn(Cdps', F)) = 0 + (CollAfterFeeSplit(Cdps[id], F) - new.coll)
  BY <1>1, <1>2, <1>3, <1>4, DrawnChanges
<1>6. SumOverCdps(DrawnIn(Cdps', F)) = CollAfterFeeSplit(Cdps[id], F) - new.coll
  BY <1>5, RecordFields
<1> QED
  BY <1>5, <1>6 DEF CollIsAccounted, F

\* The steps that sync the globals alone
LEMMA OnlySyncs ==
  ASSUME TypeOK, SyncFeeIndices(SyncedGlobal), UNCHANGED Cdps,
         systemCollShares' = SyncedGlobal.systemCollShares
  PROVE  CollIsAccounted
<1> DEFINE F == SyncedGlobal.feeIndex
<1>1. SyncedGlobal.systemCollShares \in Nat
  BY FeeStaysInThePool DEF SyncFeeIndices, GlobalRecords
<1>2. IsChargedOrLeft(Cdps', F) /\ SumOverCdps(DrawnIn(Cdps', F)) = 0
  BY NothingDrawn
<1> QED
  BY <1>1, <1>2 DEF CollIsAccounted

\* The steps that move neither a CDP nor collateral
LEMMA NobodyDraws ==
  ASSUME LedgerInv,
         UNCHANGED <<Cdps, systemCollShares, systemStEthFeePerUnitIndex,
                     systemStEthFeePerUnitIndexError>>
  PROVE  CollLosesOnlyDust
<1>1. CollDust' = CollDust
  BY DEF CollDust, ScaledColl
<1>2. CollDust \in Int
  <2> DEFINE claims == ClaimsIn(Cdps, systemStEthFeePerUnitIndex)
  <2>1. \A id \in CdpIds : claims[id] \in Int
    BY ClaimIsInt DEF ClaimsIn, LedgerInv, TypeOK, CdpTypeOK, FeeIndexTypeOK
  <2>2. SumOverCdps(claims) \in Int
    <3> HIDE DEF claims
    <3> QED
      BY <2>1, CdpIdsAreFinite, SumIsInt DEF SumOverCdps
  <2>3. CollDust = systemCollShares * DECIMAL_PRECISION + systemStEthFeePerUnitIndexError
                     - SumOverCdps(claims)
    BY DEF CollDust, ScaledColl, ClaimsIn, ClaimAt
  <2>4. /\ systemCollShares \in Nat /\ systemStEthFeePerUnitIndexError \in Nat
        /\ DECIMAL_PRECISION \in Nat
    BY ScaleAssumption DEF LedgerInv, TypeOK, PoolTypeOK, FeeIndexTypeOK
  <2>5. systemCollShares * DECIMAL_PRECISION \in Nat
    BY <2>4, ProductIsNat
  <2> HIDE DEF claims
  <2> QED
    BY <2>2, <2>3, <2>4, <2>5
<1>3. Touched = {}
  BY DEF Touched
<1>4. Cardinality(Touched) * DECIMAL_PRECISION = 0
  BY <1>3, ScaleAssumption, FS_EmptySet
<1>5. CollDust' - CollDust = 0
  BY <1>1, <1>2
<1> QED
  BY <1>4, <1>5 DEF CollLosesOnlyDust

LEMMA OpenCdpColl ==
  ASSUME LedgerInv,
         NEW sender \in Users, NEW borrower \in Users, NEW debt \in Nat,
         NEW stEthBalance \in Nat, NEW k, OpenCdp(sender, borrower, debt, stEthBalance, k),
         Cdps' \in [CdpIds -> CdpRecords]
  PROVE  CollIsAccounted
<1> DEFINE g == SyncedGlobal
           F == g.feeIndex
           id == nextCdpNonce
           new == Cdps'[nextCdpNonce]
           received == GetSharesByPooledEth(stEthBalance - LIQUIDATOR_REWARD)
<1>1. TypeOK /\ CdpsAreProper(Cdps) /\ SyncFeeIndices(g)
  BY DEF LedgerInv, CdpBooks, OpenCdp
<1>2. id \in CdpIds
  BY <1>1, InputAssumption DEF OpenCdp, TypeOK, ListTypeOK, CdpIds
<1>3. /\ new.coll = received /\ new.feeIndex = F
      /\ Cdps' = [Cdps EXCEPT ![id] = new]
      /\ systemCollShares' = g.systemCollShares + received
  BY <1>1, <1>2 DEF OpenCdp, TypeOK, CdpTypeOK
<1>4. new \in CdpRecords /\ new.coll \in Nat
  BY <1>2, RecordFields
<1>5. F \in Nat /\ g.systemCollShares \in Nat
  BY <1>1, FeeStaysInThePool DEF SyncFeeIndices, GlobalRecords
<1>6. Cdps[id].stake = 0 /\ Cdps[id].coll = 0 /\ Cdps[id] \in CdpRecords
  <2>1. Cdps[id].status = "nonExistent"
    BY DEF OpenCdp
  <2> QED
    BY <1>1, <1>2, <2>1 DEF CdpsAreProper, IsProper
<1> HIDE DEF new, id, g, F, received
<1>7. CollAfterFeeSplit(Cdps[id], F) = 0
  BY <1>5, <1>6, ChargedClaim DEF IsCharged
<1>8. IsCharged(new, F)
  BY <1>3 DEF IsCharged
<1>9. systemCollShares' = g.systemCollShares - (CollAfterFeeSplit(Cdps[id], F) - new.coll)
  BY <1>3, <1>4, <1>5, <1>7
<1> QED
  BY <1>1, <1>2, <1>3, <1>4, <1>8, <1>9, OneDraws DEF g, F

LEMMA AdjustCdpColl ==
  ASSUME LedgerInv,
         NEW sender \in Users, NEW id \in CdpIds, NEW stEthIncrease \in Nat,
         NEW stEthDecrease \in Nat, NEW debtChange \in Nat, NEW isDebtIncrease \in BOOLEAN,
         NEW k,
         AdjustCdp(sender, id, stEthIncrease, stEthDecrease, debtChange, isDebtIncrease, k),
         Cdps' \in [CdpIds -> CdpRecords]
  PROVE  CollIsAccounted
<1> DEFINE g == SyncedGlobal
           F == g.feeIndex
           cdp == SyncedCdp(id, g.feeIndex)
           shares == GetSharesByPooledEth(stEthIncrease + stEthDecrease)
           sharesChange == IF stEthIncrease # 0 THEN shares ELSE -shares
           signedDebt == IF isDebtIncrease THEN debtChange ELSE -debtChange
           coll == cdp.coll + sharesChange
           debt == cdp.debt + signedDebt
           stake == ComputeNewStake(coll, g.stakesSnapshot, g.collSnapshot)
           new == UpdatedCdp(cdp, coll, debt, stake)
<1>1. TypeOK /\ EnvTypeOK /\ IndicesAreReached /\ CdpsAreProper(Cdps) /\ SyncFeeIndices(g)
  BY DEF LedgerInv, CdpBooks, TypeOK, AdjustCdp, AdjustSynced
<1>2. IsActive(id)
  BY DEF AdjustCdp, AdjustSynced
<1>3. g \in GlobalRecords /\ F \in Nat /\ g.systemCollShares \in Nat
  BY <1>1, FeeStaysInThePool DEF SyncFeeIndices, GlobalRecords
<1>4. cdp \in CdpRecords
  BY <1>1, <1>2, <1>3, SyncedFields DEF GlobalRecords
<1>5. cdp.coll = CollAfterFeeSplit(Cdps[id], F) /\ IsCharged(new, F) /\ new.coll = coll
  BY <1>4, SyncCharges, UpdatedIsCharged
<1>6. /\ Cdps' = [Cdps EXCEPT ![id] = new]
      /\ systemCollShares' = g.systemCollShares + sharesChange
  <2>1. AdjustSynced(sender, id, stEthIncrease, stEthDecrease, debtChange, isDebtIncrease, k, g, cdp)
    BY DEF AdjustCdp
  <2> HIDE DEF g, cdp
  <2>2. Cdps' = [Cdps EXCEPT ![id] = new]
    BY <2>1, SMTT(30) DEF AdjustSynced
  <2>3. systemCollShares' = g.systemCollShares + sharesChange
    BY <2>1, SMTT(30) DEF AdjustSynced
  <2> QED
    BY <2>2, <2>3
<1>7. sharesChange \in Int /\ cdp.coll \in Int
  <2>1. shares \in Nat
    BY <1>1, GetSharesIsNat
  <2> QED
    BY <1>4, <2>1, RecordFields
<1> HIDE DEF g, F, cdp, debt, stake, new, sharesChange
<1>8. new \in CdpRecords
  <2>1. Cdps'[id] \in CdpRecords
    OBVIOUS
  <2>2. Cdps'[id] = new
    BY <1>1, <1>6 DEF TypeOK, CdpTypeOK
  <2> QED
    BY <2>1, <2>2
<1>9. systemCollShares' = g.systemCollShares - (CollAfterFeeSplit(Cdps[id], F) - new.coll)
  <2>1. /\ new.coll = CollAfterFeeSplit(Cdps[id], F) + sharesChange
        /\ CollAfterFeeSplit(Cdps[id], F) \in Int
    BY <1>5, <1>7
  <2> QED
    BY <1>3, <1>6, <1>7, <2>1
<1> QED
  BY <1>1, <1>5, <1>6, <1>8, <1>9, OneDraws DEF g, F

LEMMA CloseCdpColl ==
  ASSUME LedgerInv, NEW sender \in Users, NEW id \in CdpIds, CloseCdp(sender, id)
  PROVE  CollIsAccounted
<1> DEFINE g == SyncedGlobal
           F == g.feeIndex
           cdp == SyncedCdp(id, g.feeIndex)
           new == ClosedCdp(cdp, "closedByOwner")
<1>1. TypeOK /\ IndicesAreReached /\ CdpsAreProper(Cdps) /\ SyncFeeIndices(g)
  BY DEF LedgerInv, CdpBooks, CloseCdp
<1>2. g \in GlobalRecords /\ g.systemCollShares \in Nat /\ IsActive(id)
  BY <1>1, FeeStaysInThePool DEF CloseCdp, SyncFeeIndices, GlobalRecords
<1>3. cdp \in CdpRecords
  BY <1>1, <1>2, SyncedFields DEF GlobalRecords
<1>4. new \in CdpRecords
  BY <1>3, ClosedFields DEF Statuses
<1>5. IsCharged(new, F) /\ new.coll = 0 /\ cdp.coll = CollAfterFeeSplit(Cdps[id], F)
  BY ClosedIsCharged, SyncCharges
<1>6. Cdps' = [Cdps EXCEPT ![id] = new] /\ systemCollShares' = g.systemCollShares - cdp.coll
  BY DEF CloseCdp
<1>7. cdp.coll \in Int
  BY <1>3, RecordFields
<1> HIDE DEF g, F, cdp, new
<1>8. systemCollShares' = g.systemCollShares - (CollAfterFeeSplit(Cdps[id], F) - new.coll)
  BY <1>2, <1>5, <1>6, <1>7
<1> QED
  BY <1>1, <1>4, <1>5, <1>6, <1>8, OneDraws DEF g, F

\* What the liquidated CDPs owned is sent to the liquidator or set aside.
LEMMA FinalizeColl ==
  ASSUME TypeOK, NEW liquidator, NEW v, v.collToSend \in Nat, v.surplus \in Nat, NEW stakes,
         FinalizeLiquidation(liquidator, SyncedGlobal, v, stakes),
         IsChargedOrLeft(Cdps', SyncedGlobal.feeIndex),
         SumOverCdps(DrawnIn(Cdps', SyncedGlobal.feeIndex)) = v.collToSend + v.surplus
  PROVE  CollIsAccounted
<1> DEFINE g == SyncedGlobal
           sent == v.collToSend
           kept == v.surplus
<1>1. SyncFeeIndices(g) /\ systemCollShares' = g.systemCollShares - sent - kept
  BY DEF FinalizeLiquidation
<1>2. g.systemCollShares \in Nat /\ sent \in Nat /\ kept \in Nat
  BY <1>1, FeeStaysInThePool DEF SyncFeeIndices, GlobalRecords
<1> HIDE DEF sent, kept
<1>3. systemCollShares' = g.systemCollShares - (sent + kept)
  BY <1>1, <1>2
<1> QED
  BY <1>1, <1>3 DEF CollIsAccounted, sent, kept

LEMMA PartialLiquidationColl ==
  ASSUME LedgerInv, NEW liquidator \in Users, NEW id \in CdpIds,
         NEW partialDebt \in Nat, NEW k, PartiallyLiquidate(liquidator, id, partialDebt, k),
         Cdps' \in [CdpIds -> CdpRecords]
  PROVE  CollIsAccounted
<1> DEFINE g == SyncedGlobal
           F == g.feeIndex
           cdp == SyncedCdp(id, g.feeIndex)
           partialColl == GetSharesByPooledEth(IncentiveColl(ICR(cdp), partialDebt))
           coll == cdp.coll - partialColl
           debt == cdp.debt - partialDebt
           stake == ComputeNewStake(coll, g.stakesSnapshot, g.collSnapshot)
           new == UpdatedCdp(cdp, coll, debt, stake)
           stakes == RestakedTotal(totalStakes, cdp, stake)
           v == [debtToBurn |-> partialDebt, collToSend |-> partialColl,
                 debtToRedistribute |-> 0, reward |-> 0, surplus |-> 0]
<1>1. TypeOK /\ EnvTypeOK /\ IndicesAreReached /\ CdpsAreProper(Cdps)
  BY DEF LedgerInv, CdpBooks, TypeOK
<1>2. IsActive(id) /\ LiquidateInPart(liquidator, id, g, cdp, partialDebt, partialColl, k)
  BY DEF PartiallyLiquidate
<1>3. FinalizeLiquidation(liquidator, g, v, stakes)
  BY <1>2 DEF LiquidateInPart
<1>4. g \in GlobalRecords /\ SyncFeeIndices(g) /\ g.systemCollShares \in Nat
  BY <1>1, <1>3, FeeStaysInThePool DEF FinalizeLiquidation, SyncFeeIndices, GlobalRecords
<1>5. cdp \in CdpRecords
  BY <1>1, <1>2, <1>4, SyncedFields DEF GlobalRecords
<1>6. cdp.coll = CollAfterFeeSplit(Cdps[id], F) /\ IsCharged(new, F) /\ new.coll = coll
  BY <1>5, SyncCharges, UpdatedIsCharged
<1>7. Cdps' = [Cdps EXCEPT ![id] = new]
  BY <1>2 DEF LiquidateInPart
<1>8. partialColl \in Nat /\ cdp.coll \in Nat
  <2>1. ICR(cdp) \in Nat
    BY <1>1, <1>5, ICRIsNat
  <2> QED
    BY <1>1, <1>5, <2>1, IncentiveIsNat, RecordFields
<1>9. v.collToSend = partialColl /\ v.surplus = 0
  OBVIOUS
<1> HIDE DEF g, F, cdp, stake, debt, new, v, stakes, partialColl
<1>10. systemCollShares' = g.systemCollShares - partialColl
  <2>1. systemCollShares' = g.systemCollShares - partialColl - 0
    BY <1>3, <1>9 DEF FinalizeLiquidation
  <2> QED
    BY <1>4, <1>8, <2>1
<1>11. new \in CdpRecords
  <2>1. Cdps'[id] \in CdpRecords
    OBVIOUS
  <2>2. Cdps'[id] = new
    BY <1>1, <1>7 DEF TypeOK, CdpTypeOK
  <2> QED
    BY <2>1, <2>2
<1>12. systemCollShares' = g.systemCollShares - (CollAfterFeeSplit(Cdps[id], F) - new.coll)
  BY <1>4, <1>6, <1>8, <1>10
<1> QED
  BY <1>1, <1>4, <1>6, <1>7, <1>11, <1>12, OneDraws DEF g, F

LEMMA LiquidationTakesTheColl ==
  ASSUME EnvTypeOK, NEW cdp \in CdpRecords
  PROVE  LET v == LiquidationValues(cdp)
         IN /\ v.collToSend \in Nat /\ v.surplus \in Nat
            /\ v.collToSend + v.surplus = cdp.coll
<1> DEFINE v == LiquidationValues(cdp)
<1>1. v.collToSend = cdp.coll - v.surplus /\ cdp.coll \in Nat
  BY RecordFields DEF LiquidationValues
<1>2. v.collToSend \in Nat /\ v.surplus \in Nat
  BY LiquidationValuesType DEF IsLiquidation
<1> HIDE DEF v
<1> QED
  BY <1>1, <1>2 DEF v

LEMMA LiquidateColl ==
  ASSUME LedgerInv, NEW liquidator, NEW id \in CdpIds, Liquidate(liquidator, id)
  PROVE  CollIsAccounted
<1> DEFINE g == SyncedGlobal
           F == g.feeIndex
           cdp == SyncedCdp(id, g.feeIndex)
           v == LiquidationValues(cdp)
           new == ClosedCdp(cdp, "closedByLiquidation")
<1>1. TypeOK /\ IndicesAreReached /\ CdpsAreProper(Cdps) /\ EnvTypeOK
  BY DEF LedgerInv, CdpBooks, TypeOK
<1>2. IsActive(id) /\ LiquidateInFull(liquidator, id, g, cdp)
  BY DEF Liquidate
<1>3. /\ FinalizeLiquidation(liquidator, g, v, totalStakes - cdp.stake)
      /\ Cdps' = [Cdps EXCEPT ![id] = new]
  BY <1>2 DEF LiquidateInFull
<1>4. g \in GlobalRecords /\ F \in Nat
  BY <1>1, <1>3, FeeStaysInThePool DEF FinalizeLiquidation, SyncFeeIndices, GlobalRecords
<1>5. cdp \in CdpRecords
  BY <1>1, <1>2, <1>4, SyncedFields DEF GlobalRecords
<1>6. new \in CdpRecords
  BY <1>5, ClosedFields DEF Statuses
<1>7. IsCharged(new, F) /\ new.coll = 0 /\ cdp.coll = CollAfterFeeSplit(Cdps[id], F)
  BY ClosedIsCharged, SyncCharges
<1>8. /\ v.collToSend \in Nat /\ v.surplus \in Nat
      /\ v.collToSend + v.surplus = cdp.coll
  BY <1>1, <1>5, LiquidationTakesTheColl
<1>9. Replaces(Cdps', Cdps, id, new) /\ Cdps \in [CdpIds -> CdpRecords]
  BY <1>1, <1>3, <1>6, ExceptReplaces DEF TypeOK, CdpTypeOK
<1>10. IsChargedOrLeft(Cdps, F) /\ SumOverCdps(DrawnIn(Cdps, F)) = 0
  BY <1>1, NothingDrawn
<1> HIDE DEF cdp, v, new, F
<1>11. /\ IsChargedOrLeft(Cdps', F) /\ CollAfterFeeSplit(Cdps[id], F) \in Nat
       /\ SumOverCdps(DrawnIn(Cdps', F)) = 0 + (CollAfterFeeSplit(Cdps[id], F) - new.coll)
  BY <1>1, <1>4, <1>6, <1>7, <1>9, <1>10, DrawnChanges
<1>12. SumOverCdps(DrawnIn(Cdps', F)) = v.collToSend + v.surplus
  BY <1>7, <1>8, <1>11
<1> QED
  BY <1>1, <1>3, <1>8, <1>11, <1>12, FinalizeColl DEF F

\* A batch in the making has taken off the CDPs what it will send and set aside.
IsDrawnBatch(b, feeIndex) ==
  b.ok => /\ IsChargedOrLeft(b.Cdps, feeIndex)
          /\ SumOverCdps(DrawnIn(b.Cdps, feeIndex)) = b.collToSend + b.surplus

LEMMA BatchStepDraws ==
  ASSUME TypeOK, IndicesAreReached, CdpsAreProper(Cdps), NEW g \in GlobalRecords,
         NEW id \in CdpIds, NEW b, IsBatch(b), IsKeptBatch(b), IsDrawnBatch(b, g.feeIndex)
  PROVE  IsDrawnBatch(BatchStep(b, id, g), g.feeIndex)
<1> DEFINE F == g.feeIndex
           cdp == SyncedCdp(id, g.feeIndex)
           tcr == TCR(g.systemCollShares - b.collToSend - b.surplus, systemDebt - b.debtToBurn)
           v == LiquidationValues(cdp)
           new == ClosedCdp(cdp, "closedByLiquidation")
           taken == /\ b.Cdps[id].status = "active"
                    /\ \/ ICR(cdp) < MCR
                       \/ ~b.normalMode /\ CanLiquidateRecoveryMode(ICR(cdp), tcr)
           after == BatchStep(b, id, g)
<1>1. CASE ~taken
  BY <1>1 DEF BatchStep
<1>2. CASE taken
  <2> SUFFICES ASSUME after.ok
               PROVE  /\ IsChargedOrLeft(after.Cdps, F)
                      /\ SumOverCdps(DrawnIn(after.Cdps, F)) = after.collToSend + after.surplus
    BY DEF IsDrawnBatch
  <2>1. /\ after.Cdps = [b.Cdps EXCEPT ![id] = new]
        /\ after.collToSend = b.collToSend + v.collToSend
        /\ after.surplus = b.surplus + v.surplus
        /\ after.ok => b.ok
    BY <1>2 DEF BatchStep
  <2>2. /\ b.ok /\ b.Cdps \in [CdpIds -> CdpRecords]
        /\ b.collToSend \in Nat /\ b.surplus \in Nat
    BY <2>1 DEF IsBatch, IsLiquidation
  <2>3. /\ b.Cdps[id].status = "active" => b.Cdps[id] = Cdps[id]
        /\ IsChargedOrLeft(b.Cdps, F)
        /\ SumOverCdps(DrawnIn(b.Cdps, F)) = b.collToSend + b.surplus
    BY <2>2 DEF IsKeptBatch, IsDrawnBatch
  <2>4. b.Cdps[id] = Cdps[id] /\ IsActive(id)
    BY <1>2, <2>3 DEF IsActive
  <2>5. cdp \in CdpRecords /\ F \in Nat
    BY <2>4, SyncedFields DEF GlobalRecords
  <2>6. /\ v.collToSend \in Nat /\ v.surplus \in Nat
        /\ v.collToSend + v.surplus = cdp.coll
    BY <2>5, LiquidationTakesTheColl DEF TypeOK
  <2>7. /\ new \in CdpRecords /\ IsCharged(new, F) /\ new.coll = 0
        /\ cdp.coll = CollAfterFeeSplit(Cdps[id], F)
    BY <2>5, ClosedFields, ClosedIsCharged, SyncCharges DEF Statuses
  <2> HIDE DEF after, v, new, cdp, tcr, taken, F
  <2>8. Replaces(after.Cdps, b.Cdps, id, new)
    BY <2>1, <2>2, <2>7, ExceptReplaces
  <2>9. /\ IsChargedOrLeft(after.Cdps, F)
        /\ SumOverCdps(DrawnIn(after.Cdps, F))
             = SumOverCdps(DrawnIn(b.Cdps, F)) + (CollAfterFeeSplit(Cdps[id], F) - new.coll)
    BY <2>2, <2>3, <2>4, <2>5, <2>7, <2>8, DrawnChanges
  <2>10. CollAfterFeeSplit(Cdps[id], F) - new.coll = v.collToSend + v.surplus
    BY <2>6, <2>7
  <2>11. SumOverCdps(DrawnIn(after.Cdps, F)) = after.collToSend + after.surplus
    BY <2>1, <2>2, <2>3, <2>6, <2>9, <2>10
  <2> QED
    BY <2>9, <2>11
<1> QED
  BY <1>1, <1>2

LEMMA BatchIsDrawn ==
  ASSUME LedgerInv, NEW ids \in Seq(CdpIds), NEW g \in GlobalRecords
  PROVE  IsDrawnBatch(BatchAfter(ids, g)[Len(ids)], g.feeIndex)
<1> DEFINE after == BatchAfter(ids, g)
           N == Len(ids)
           T == {n \in 0 .. N : IsDrawnBatch(after[n], g.feeIndex)}
<1>0. TypeOK /\ IndicesAreReached /\ CdpsAreProper(Cdps) /\ N \in Nat
  BY DEF LedgerInv, CdpBooks
<1>1. after[0] = EmptyBatch(g)
  BY BatchAfterUnfolds
<1>2. \A n \in 0 .. N : IsBatch(after[n]) /\ IsKeptBatch(after[n])
  BY BatchAfterBooks
<1>3. ASSUME NEW n \in 1 .. N PROVE after[n] = BatchStep(after[n - 1], ids[n], g) /\ ids[n] \in CdpIds
  BY BatchAfterUnfolds
<1>4. IsDrawnBatch(EmptyBatch(g), g.feeIndex)
  <2>1. /\ IsChargedOrLeft(Cdps, g.feeIndex)
        /\ SumOverCdps(DrawnIn(Cdps, g.feeIndex)) = 0 /\ 0 + 0 = 0
    BY <1>0, NothingDrawn
  <2> QED
    BY <2>1 DEF IsDrawnBatch, EmptyBatch
<1> HIDE DEF after, N
<1>5. 0 \in T
  BY <1>0, <1>1, <1>4
<1>6. ASSUME NEW n \in 1 .. N, n - 1 \in T PROVE n \in T
  <2>1. n - 1 \in 0 .. N
    BY <1>0
  <2>2. /\ IsBatch(after[n - 1]) /\ IsKeptBatch(after[n - 1])
        /\ IsDrawnBatch(after[n - 1], g.feeIndex)
    BY <1>2, <1>6, <2>1
  <2> QED
    BY <1>0, <1>3, <2>2, BatchStepDraws
<1>7. N \in T
  <2> HIDE DEF T
  <2>1. \A n \in 0 .. N : n \in T
    BY <1>0, <1>5, <1>6, IntervalInduction
  <2> QED
    BY <1>0, <2>1
<1> QED
  BY <1>7 DEF after, N

LEMMA BatchLiquidateColl ==
  ASSUME LedgerInv, NEW ids \in Seq(CdpIds), BatchLiquidateCdps(ids)
  PROVE  CollIsAccounted
<1> DEFINE g == SyncedGlobal
           b == BatchAfter(ids, g)[Len(ids)]
<1>0. PICK liquidator \in Users : FinalizeLiquidation(liquidator, g, b, b.stakes)
  BY DEF BatchLiquidateCdps
<1>1. b.ok /\ Cdps' = b.Cdps
  BY DEF BatchLiquidateCdps
<1>2. TypeOK /\ g \in GlobalRecords
  BY <1>0, FeeStaysInThePool DEF FinalizeLiquidation, SyncFeeIndices, LedgerInv
<1>3. IsBatch(b) /\ IsDrawnBatch(b, g.feeIndex)
  <2>1. Len(ids) \in 0 .. Len(ids)
    OBVIOUS
  <2> QED
    BY <1>2, <2>1, BatchAfterBooks, BatchIsDrawn
<1> HIDE DEF b
<1>4. /\ b.collToSend \in Nat /\ b.surplus \in Nat
      /\ IsChargedOrLeft(Cdps', g.feeIndex)
      /\ SumOverCdps(DrawnIn(Cdps', g.feeIndex)) = b.collToSend + b.surplus
  BY <1>1, <1>3 DEF IsBatch, IsDrawnBatch, IsLiquidation
<1> QED
  BY <1>0, <1>2, <1>4, FinalizeColl

\* A redemption in the making has taken off the CDPs what it draws for the
\* redeemer and what it sets aside for the owners.
IsDrawnLoop(r, feeIndex) ==
  r.ok => /\ IsChargedOrLeft(r.Cdps, feeIndex)
          /\ SumOverCdps(DrawnIn(r.Cdps, feeIndex)) = r.drawn + r.surplus

LEMMA RedeemStepDraws ==
  ASSUME LedgerInv, NEW g \in GlobalRecords, NEW debt \in Nat,
         NEW first \in 1 .. Len(sortedCdps), NEW n \in Nat, n < first,
         NEW r, IsRedeemed(r, debt, n), IsKeptLoop(r, first, n), IsDrawnLoop(r, g.feeIndex),
         NEW hintMatches,
         IsRedeemed(RedeemFromCdp(r, sortedCdps[first - n], g, hintMatches), debt, n + 1)
  PROVE  IsDrawnLoop(RedeemFromCdp(r, sortedCdps[first - n], g, hintMatches), g.feeIndex)
<1> DEFINE id == sortedCdps[first - n]
           F == g.feeIndex
           cdp == SyncedCdp(id, g.feeIndex)
           debtToRedeem == Lesser(r.remaining, cdp.debt)
           drawn == CollDrawn(debtToRedeem)
           newDebt == cdp.debt - debtToRedeem
           newColl == cdp.coll - drawn
           isPartial == /\ hintMatches
                        /\ GetPooledEthByShares(newColl) >= MIN_NET_STETH_BALANCE
                        /\ DebtIsEnough(newDebt)
           collLeft == IF isPartial THEN newColl ELSE cdp.coll
           debtLeft == IF isPartial THEN newDebt ELSE cdp.debt
           newStake == ComputeNewStake(collLeft, g.stakesSnapshot, g.collSnapshot)
           restaked == UpdatedCdp(cdp, collLeft, debtLeft, newStake)
           closedCdp == ClosedCdp(cdp, "closedByRedemption")
           after == RedeemFromCdp(r, id, g, hintMatches)
<1>0. TypeOK /\ IndicesAreReached /\ CdpsAreProper(Cdps) /\ EnvTypeOK
  BY DEF LedgerInv, CdpBooks, TypeOK
<1>1. CASE r.remaining = 0 \/ r.cancelled
  BY <1>1 DEF RedeemFromCdp
<1>2. CASE ~(r.remaining = 0 \/ r.cancelled)
  <2> SUFFICES ASSUME after.ok
               PROVE  /\ IsChargedOrLeft(after.Cdps, F)
                      /\ SumOverCdps(DrawnIn(after.Cdps, F)) = after.drawn + after.surplus
    BY DEF IsDrawnLoop
  <2>1. r.ok
    BY <1>2 DEF RedeemFromCdp
  <2>2. /\ r.Cdps \in [CdpIds -> CdpRecords] /\ r.remaining \in Nat
        /\ r.drawn \in Nat /\ r.surplus \in Nat
    <3>1. /\ r.Cdps \in [CdpIds -> CdpRecords] /\ r.remaining \in 0 .. debt
          /\ r.drawn \in Nat /\ r.surplus \in Nat
      BY <2>1 DEF IsRedeemed
    <3>2. \A x \in 0 .. debt : x \in Nat
      OBVIOUS
    <3> QED
      BY <3>1, <3>2
  <2>3. first - n \in 1 .. Len(sortedCdps) /\ first - n \in 1 .. first - n
    BY <1>0 DEF TypeOK, ListTypeOK
  <2>4. id \in CdpIds /\ IsActive(id) /\ r.Cdps[id] = Cdps[id]
    BY <2>1, <2>3, PlaceFacts DEF IsKeptLoop
  <2>5. cdp \in CdpRecords /\ F \in Nat
    BY <1>0, <2>4, SyncedFields DEF GlobalRecords
  <2>6. /\ cdp.coll \in Nat /\ cdp.debt \in Nat /\ cdp.coll = CollAfterFeeSplit(Cdps[id], F)
    BY <2>5, RecordFields, SyncCharges
  <2>7. drawn \in Nat
    <3>1. debtToRedeem \in Nat
      BY <2>2, <2>6, LesserIsNat
    <3> QED
      BY <1>0, <3>1, DrawnIsNat
  <2>8. /\ IsChargedOrLeft(r.Cdps, F) /\ SumOverCdps(DrawnIn(r.Cdps, F)) = r.drawn + r.surplus
        /\ after.Cdps \in [CdpIds -> CdpRecords]
    BY <2>1 DEF IsDrawnLoop, IsRedeemed
  <2>9. CASE newDebt = 0
    <3>1. /\ after.Cdps = [r.Cdps EXCEPT ![id] = closedCdp]
          /\ after.drawn = r.drawn + drawn /\ after.surplus = r.surplus + newColl
      BY <1>2, <2>9 DEF RedeemFromCdp
    <3>2. closedCdp \in CdpRecords /\ closedCdp.coll = 0 /\ IsCharged(closedCdp, F)
      BY <2>5, ClosedCdpType, ClosedIsCharged DEF Statuses
    <3> HIDE DEF after, closedCdp, cdp, id, F, drawn
    <3>3. Replaces(after.Cdps, r.Cdps, id, closedCdp)
      BY <2>2, <2>4, <3>1, <3>2, ExceptReplaces
    <3>4. /\ IsChargedOrLeft(after.Cdps, F)
          /\ SumOverCdps(DrawnIn(after.Cdps, F))
               = SumOverCdps(DrawnIn(r.Cdps, F))
                   + (CollAfterFeeSplit(Cdps[id], F) - closedCdp.coll)
      BY <1>0, <2>2, <2>4, <2>5, <2>8, <3>2, <3>3, DrawnChanges
    <3>5. SumOverCdps(DrawnIn(after.Cdps, F)) = after.drawn + after.surplus
      BY <2>2, <2>6, <2>7, <2>8, <3>1, <3>2, <3>4
    <3> QED
      BY <3>4, <3>5
  <2>10. CASE newDebt # 0
    <3>1. /\ after.Cdps = [r.Cdps EXCEPT ![id] = restaked]
          /\ after.drawn = IF isPartial THEN r.drawn + drawn ELSE r.drawn
          /\ after.surplus = r.surplus
      BY <1>2, <2>10 DEF RedeemFromCdp
    <3>2. IsCharged(restaked, F) /\ restaked.coll = collLeft
      BY <2>5, UpdatedIsCharged
    <3> HIDE DEF after, restaked, cdp, id, isPartial, F, drawn
    <3>3. restaked \in CdpRecords
      <4>1. after.Cdps[id] = restaked
        BY <2>2, <2>4, <3>1
      <4> QED
        BY <2>4, <2>8, <4>1
    <3>4. Replaces(after.Cdps, r.Cdps, id, restaked)
      BY <2>2, <2>4, <3>1, <3>3, ExceptReplaces
    <3>5. /\ IsChargedOrLeft(after.Cdps, F)
          /\ SumOverCdps(DrawnIn(after.Cdps, F))
               = SumOverCdps(DrawnIn(r.Cdps, F))
                   + (CollAfterFeeSplit(Cdps[id], F) - restaked.coll)
      BY <1>0, <2>2, <2>4, <2>5, <2>8, <3>2, <3>3, <3>4, DrawnChanges
    <3>6. CollAfterFeeSplit(Cdps[id], F) - restaked.coll = after.drawn - r.drawn
      <4>1. CASE isPartial
        BY <2>2, <2>6, <2>7, <3>1, <3>2, <4>1
      <4>2. CASE ~isPartial
        BY <2>2, <2>6, <3>1, <3>2, <4>2
      <4> QED
        BY <4>1, <4>2
    <3>7. after.drawn \in Int
      BY <2>2, <2>7, <3>1
    <3>8. SumOverCdps(DrawnIn(after.Cdps, F)) = after.drawn + after.surplus
      BY <2>2, <2>8, <3>1, <3>5, <3>6, <3>7
    <3> QED
      BY <3>5, <3>8
  <2> QED
    BY <2>9, <2>10
<1> QED
  BY <1>1, <1>2

LEMMA LoopIsDrawn ==
  ASSUME LedgerInv, NEW g \in GlobalRecords, NEW debt \in Nat,
         NEW first \in 1 .. Len(sortedCdps), NEW hintMatches
  PROVE  \A n \in 0 .. first :
           /\ IsRedeemed(RedeemedAfter(debt, first, g, hintMatches)[n], debt, n)
           /\ IsDrawnLoop(RedeemedAfter(debt, first, g, hintMatches)[n], g.feeIndex)
<1> DEFINE after == RedeemedAfter(debt, first, g, hintMatches)
           T == {n \in 0 .. first : IsDrawnLoop(after[n], g.feeIndex)}
<1>0. /\ TypeOK /\ first \in Nat /\ first <= Len(sortedCdps) /\ Len(sortedCdps) \in Nat
  BY DEF LedgerInv, TypeOK, ListTypeOK
<1>1. IsLoop(after, debt, first, g, hintMatches)
  BY <1>0, RedeemedAfterUnfolds
<1>2. \A n \in 0 .. first : IsRedeemed(after[n], debt, n) /\ IsKeptLoop(after[n], first, n)
  BY <1>0, RedeemedAfterType, RedeemedAfterBooks DEF LedgerInv
<1> HIDE DEF after
<1>3. 0 \in T
  <2>1. /\ IsChargedOrLeft(Cdps, g.feeIndex)
        /\ SumOverCdps(DrawnIn(Cdps, g.feeIndex)) = 0 /\ 0 + 0 = 0
    BY <1>0, NothingDrawn
  <2>2. IsDrawnLoop(NothingRedeemed(debt), g.feeIndex)
    BY <2>1 DEF IsDrawnLoop, NothingRedeemed
  <2> QED
    BY <1>0, <1>1, <2>2 DEF IsLoop
<1>4. ASSUME NEW n \in 1 .. first, n - 1 \in T PROVE n \in T
  <2> DEFINE m == n - 1
  <2>1. /\ m \in Nat /\ m < first /\ m \in 0 .. first /\ first - n + 1 = first - m
        /\ n = m + 1 /\ n \in 0 .. first
    BY <1>0
  <2>2. /\ IsRedeemed(after[m], debt, m) /\ IsKeptLoop(after[m], first, m)
        /\ IsDrawnLoop(after[m], g.feeIndex)
    BY <1>2, <1>4, <2>1
  <2>3. after[n] = RedeemFromCdp(after[m], sortedCdps[first - m], g, hintMatches)
    BY <1>1, <2>1 DEF IsLoop
  <2>4. IsRedeemed(after[n], debt, m + 1)
    BY <1>2, <2>1
  <2> HIDE DEF m
  <2>5. IsDrawnLoop(after[n], g.feeIndex)
    BY <2>1, <2>2, <2>3, <2>4, RedeemStepDraws
  <2> QED
    BY <2>5
<1>5. \A n \in 0 .. first : n \in T
  <2> HIDE DEF T
  <2> QED
    BY <1>0, <1>3, <1>4, IntervalInduction
<1> QED
  BY <1>2, <1>5 DEF after

LEMMA RedemptionColl ==
  ASSUME LedgerInv, RedemptionAction PROVE CollIsAccounted
<1>1. PICK redeemer \in Users, debt \in RedemptionDebts, first \in 1 .. Len(sortedCdps),
           maxIterations \in MaxIterations, hintMatches \in BOOLEAN,
           twapDebt \in {systemDebt} \cup {Lesser(o, systemDebt) : o \in TwapObservations},
           k \in 0 .. Len(sortedCdps) - 1 :
           RedeemCollateral(redeemer, debt, first, maxIterations, hintMatches, twapDebt, k)
  BY DEF RedemptionAction
<1> DEFINE g == SyncedGlobal
           steps == IF maxIterations = 0 THEN first ELSE Lesser(maxIterations, first)
           r == RedeemedAfter(debt, first, g, hintMatches)[steps]
<1>2. /\ r.ok /\ Cdps' = r.Cdps /\ SyncFeeIndices(g)
      /\ systemCollShares' = g.systemCollShares - r.drawn - r.surplus
  BY <1>1 DEF RedeemCollateral, RedeemSynced
<1>3. /\ debt \in Nat /\ maxIterations \in Nat /\ g \in GlobalRecords
      /\ TypeOK /\ first \in Nat /\ g.systemCollShares \in Nat
  BY <1>2, RedemptionInputAssumption, SyncedGlobalType
     DEF LedgerInv, TypeOK, ListTypeOK, SyncFeeIndices, GlobalRecords
<1>4. steps \in 0 .. first
  <2>1. Lesser(maxIterations, first) \in Nat /\ Lesser(maxIterations, first) <= first
    BY <1>3, LesserIsNat
  <2> QED
    BY <1>3, <2>1
<1>5. IsRedeemed(r, debt, steps) /\ IsDrawnLoop(r, g.feeIndex)
  BY <1>3, <1>4, LoopIsDrawn
<1> HIDE DEF r
<1>6. /\ IsChargedOrLeft(Cdps', g.feeIndex) /\ r.drawn \in Nat /\ r.surplus \in Nat
      /\ SumOverCdps(DrawnIn(Cdps', g.feeIndex)) = r.drawn + r.surplus
  BY <1>2, <1>5 DEF IsRedeemed, IsDrawnLoop
<1>7. systemCollShares' = g.systemCollShares - (r.drawn + r.surplus)
  BY <1>2, <1>3, <1>6
<1> QED
  BY <1>2, <1>6, <1>7 DEF CollIsAccounted

LEMMA BorrowerColl ==
  ASSUME LedgerInv, BooksKept, TouchedFeesFit, BorrowerAction PROVE CollLosesOnlyDust
<1>0. Cdps' \in [CdpIds -> CdpRecords]
  BY DEF BooksKept, CdpBooks, CdpsAreProper
<1>1. ASSUME NEW sender \in Users, NEW borrower \in Users, NEW debt \in OpenDebts,
             NEW stEthBalance \in OpenStEthBalances, NEW k \in 0 .. Len(sortedCdps),
             OpenCdp(sender, borrower, debt, stEthBalance, k)
      PROVE  CollLosesOnlyDust
  <2>1. debt \in Nat /\ stEthBalance \in Nat
    BY BorrowerInputAssumption
  <2>2. CollIsAccounted
    BY <1>0, <1>1, <2>1, OpenCdpColl
  <2> QED
    BY <1>0, <2>2, AccountedLosesDust
<1>2. ASSUME NEW sender \in Users, NEW id \in CdpIds, NEW stEthIncrease \in CollChanges \cup {0},
             NEW stEthDecrease \in CollChanges \cup {0}, NEW debtChange \in DebtChanges \cup {0},
             NEW isDebtIncrease \in BOOLEAN, NEW k \in 0 .. Len(sortedCdps) - 1,
             AdjustCdp(sender, id, stEthIncrease, stEthDecrease, debtChange, isDebtIncrease, k)
      PROVE  CollLosesOnlyDust
  <2>1. stEthIncrease \in Nat /\ stEthDecrease \in Nat /\ debtChange \in Nat
    BY BorrowerInputAssumption
  <2>2. CollIsAccounted
    BY <1>0, <1>2, <2>1, AdjustCdpColl
  <2> QED
    BY <1>0, <2>2, AccountedLosesDust
<1>3. ASSUME NEW sender \in Users, NEW id \in CdpIds, CloseCdp(sender, id)
      PROVE  CollLosesOnlyDust
  BY <1>0, <1>3, CloseCdpColl, AccountedLosesDust
<1>4. ASSUME NEW account \in Users, ClaimSurplusCollShares(account) PROVE CollLosesOnlyDust
  <2>1. UNCHANGED <<Cdps, systemCollShares, systemStEthFeePerUnitIndex,
                    systemStEthFeePerUnitIndexError>>
    BY <1>4 DEF ClaimSurplusCollShares, poolVars, feeIndexVars
  <2> QED
    BY <2>1, NobodyDraws
<1>5. ASSUME NEW borrower \in Users, NEW manager \in Users, NEW approval \in GrantedApprovals,
             SetPositionManagerApproval(borrower, manager, approval)
      PROVE  CollLosesOnlyDust
  <2>1. UNCHANGED <<Cdps, systemCollShares, systemStEthFeePerUnitIndex,
                    systemStEthFeePerUnitIndexError>>
    BY <1>5 DEF SetPositionManagerApproval, poolVars, feeIndexVars
  <2> QED
    BY <2>1, NobodyDraws
<1> QED
  BY <1>1, <1>2, <1>3, <1>4, <1>5 DEF BorrowerAction

LEMMA LiquidationColl ==
  ASSUME LedgerInv, BooksKept, TouchedFeesFit, LiquidationAction PROVE CollLosesOnlyDust
<1>0. Cdps' \in [CdpIds -> CdpRecords]
  BY DEF BooksKept, CdpBooks, CdpsAreProper
<1>1. \/ \E liquidator \in Users, id \in CdpIds : Liquidate(liquidator, id)
      \/ \E liquidator \in Users, id \in CdpIds, partialDebt \in PartialAmounts,
            k \in 0 .. Len(sortedCdps) - 1 : PartiallyLiquidate(liquidator, id, partialDebt, k)
      \/ \E ids \in BoundedSeq(CdpIds, MaxBatch) : BatchLiquidateCdps(ids)
  BY DEF LiquidationAction
<1>2. ASSUME NEW liquidator \in Users, NEW id \in CdpIds, NEW partialDebt \in PartialAmounts,
             NEW k \in 0 .. Len(sortedCdps) - 1,
             PartiallyLiquidate(liquidator, id, partialDebt, k)
      PROVE  CollIsAccounted
  <2>1. partialDebt \in Nat
    BY LiquidationInputAssumption
  <2> QED
    BY <1>0, <1>2, <2>1, PartialLiquidationColl
<1>3. CollIsAccounted
  BY <1>1, <1>2, BatchInputType, LiquidateColl, BatchLiquidateColl
<1> QED
  BY <1>0, <1>3, AccountedLosesDust

\* The calls that only sync the globals
LEMMA SyncingColl ==
  ASSUME LedgerInv, TouchedFeesFit,
         SyncGlobalAccountingAndGracePeriod(SyncedGlobal), UNCHANGED Cdps
  PROVE  CollLosesOnlyDust
<1>1. TypeOK /\ Cdps' \in [CdpIds -> CdpRecords]
  BY DEF LedgerInv, TypeOK, CdpTypeOK
<1>2. SyncFeeIndices(SyncedGlobal) /\ systemCollShares' = SyncedGlobal.systemCollShares
  BY DEF SyncGlobalAccountingAndGracePeriod
<1>3. CollIsAccounted
  BY <1>1, <1>2, OnlySyncs
<1> QED
  BY <1>1, <1>3, AccountedLosesDust

LEMMA StepColl ==
  ASSUME LedgerInv, [Next]_vars, TouchedFeesFit PROVE CollLosesOnlyDust
<1>0. BooksKept /\ Cdps' \in [CdpIds -> CdpRecords]
  BY StepBooks DEF LedgerInv, BooksKept, CdpBooks, CdpsAreProper
<1>1. CASE UNCHANGED <<Cdps, systemCollShares, systemStEthFeePerUnitIndex,
                       systemStEthFeePerUnitIndexError>>
  BY <1>1, NobodyDraws
<1>2. CASE EnvironmentAction \/ UNCHANGED vars
  <2>1. ASSUME EnvironmentAction PROVE UNCHANGED protocolVars
    BY <2>1 DEF EnvironmentAction, Rebase, SetPrice, Tick
  <2>2. ASSUME UNCHANGED vars PROVE UNCHANGED protocolVars
    BY <2>2 DEF vars, protocolVars, surplusVars
  <2>3. UNCHANGED protocolVars
    BY <1>2, <2>1, <2>2
  <2> QED
    BY <1>1, <2>3 DEF protocolVars, poolVars, feeIndexVars
<1>3. CASE GovernanceAction
  <2>1. SyncBeforeSetting
    BY <1>3 DEF GovernanceAction, SetStakingRewardSplit, SetGracePeriod, SetRedemptionFeeFloor,
                SetMinuteDecayFactor, SetBeta, SetRedemptionsPaused
  <2> QED
    BY <2>1, SyncingColl DEF SyncBeforeSetting
<1>4. CASE AccountAction
  <2>1. ASSUME NEW sender, NEW recipient, NEW amount, Transfer(sender, recipient, amount)
        PROVE  CollLosesOnlyDust
    BY <1>1, <2>1 DEF Transfer, poolVars, feeIndexVars
  <2>2. ASSUME NEW shares, ClaimFeeRecipientCollShares(shares)
        PROVE  CollLosesOnlyDust
    BY <2>2, SyncingColl DEF ClaimFeeRecipientCollShares
  <2>3. ASSUME Sync PROVE CollLosesOnlyDust
    BY <2>3, SyncingColl DEF Sync, SyncBeforeSetting
  <2> QED
    BY <1>4, <2>1, <2>2, <2>3 DEF AccountAction
<1>5. CASE RedemptionAction
  BY <1>0, <1>5, RedemptionColl, AccountedLosesDust
<1> QED
  BY <1>0, <1>2, <1>3, <1>4, <1>5, BorrowerColl, LiquidationColl DEF Next

(* No transaction loses more of the CDPs' collateral to rounding than a unit *)
(* for each CDP it touches, and none gives away any, as long as no fee due   *)
(* on a touched CDP reaches its collateral (the code does not take such a    *)
(* fee at all, so the whole of it goes missing: no bound in dust holds).     *)
(* The fees that a sync takes off the system's total, what each CDP pays     *)
(* when it is next touched, and what is withdrawn, seized, redeemed or left  *)
(* as a surplus meanwhile, in any order, all of it is in that total.         *)
THEOREM CollTheorem == Spec => [][TouchedFeesFit => CollLosesOnlyDust]_vars
<1> DEFINE IInv == LedgerInv /\ PoolMargin >= 0
<1>1. Init => IInv
  BY InitBooks
<1>2. IInv /\ [Next]_vars => IInv'
  BY BooksAreInvariant
<1>3. IInv /\ [Next]_vars => [TouchedFeesFit => CollLosesOnlyDust]_vars
  BY StepColl
<1> QED
  BY <1>1, <1>2, <1>3, PTL DEF Spec

(* The whole of OnlyDustIsLost, its debt half and its collateral half, in    *)
(* every behaviour in which no fee due on a touched CDP reaches its          *)
(* collateral.                                                               *)
THEOREM OnlyDustTheorem == Spec /\ [][TouchedFeesFit]_vars => OnlyDustIsLost
<1>1. [TouchedFeesFit]_vars /\ [TouchedFeesFit => CollLosesOnlyDust]_vars /\ [DebtLosesOnlyDust]_vars
        => [DebtLosesOnlyDust /\ CollLosesOnlyDust]_vars
  OBVIOUS
<1> QED
  BY <1>1, DebtTheorem, CollTheorem, PTL DEF OnlyDustIsLost

\* The dust in the collateral is an integer after a step.
LEMMA CollDustStaysInt ==
  ASSUME TypeOK' PROVE CollDust' \in Int
<1> DEFINE claims == ClaimsIn(Cdps', systemStEthFeePerUnitIndex')
<1>1. \A id \in CdpIds : claims[id] \in Int
  BY ClaimIsInt DEF ClaimsIn, TypeOK, CdpTypeOK, FeeIndexTypeOK
<1>2. SumOverCdps(claims) \in Int
  <2> HIDE DEF claims
  <2> QED
    BY <1>1, CdpIdsAreFinite, SumIsInt DEF SumOverCdps
<1>3. CollDust' = systemCollShares' * DECIMAL_PRECISION + systemStEthFeePerUnitIndexError'
                    - SumOverCdps(claims)
  <2>1. [id \in CdpIds |-> ScaledColl(Cdps[id])]' = claims
    BY DEF ScaledColl, ClaimsIn, ClaimAt
  <2> QED
    BY <2>1 DEF CollDust, SumOverCdps
<1>4. /\ systemCollShares' \in Nat /\ systemStEthFeePerUnitIndexError' \in Nat
      /\ DECIMAL_PRECISION \in Nat
  BY ScaleAssumption DEF TypeOK, PoolTypeOK, FeeIndexTypeOK
<1>5. systemCollShares' * DECIMAL_PRECISION \in Nat
  BY <1>4, ProductIsNat
<1> HIDE DEF claims
<1> QED
  BY <1>2, <1>3, <1>4, <1>5

(* In those behaviours the CDPs never claim more collateral than the system  *)
(* holds for them, the fees they have yet to pay taken off: the dust of all  *)
(* roundings stays with the system's total.                                  *)
THEOREM CollCoverTheorem == Spec /\ [][TouchedFeesFit]_vars => [](CollDust >= 0)
<1> DEFINE IInv == LedgerInv /\ PoolMargin >= 0
           Covered == CollDust \in Nat
<1>1. Init => IInv /\ Covered
  <2> SUFFICES ASSUME Init PROVE Covered
    BY InitBooks
  <2> DEFINE claims == [id \in CdpIds |-> ScaledColl(Cdps[id])]
  <2>1. \A id \in CdpIds : claims[id] = 0
    <3> SUFFICES ASSUME NEW id \in CdpIds PROVE claims[id] = 0
      OBVIOUS
    <3>1. Cdps[id].stake = 0 /\ Cdps[id].coll = 0 /\ Cdps[id].feeIndex = 0
      BY DEF Init, NoCdp
    <3>2. claims[id] = 0 * DECIMAL_PRECISION - 0 * (systemStEthFeePerUnitIndex - 0)
      BY <3>1 DEF ScaledColl
    <3>3. systemStEthFeePerUnitIndex \in Nat
      BY InitBooks DEF LedgerInv, TypeOK, FeeIndexTypeOK
    <3> QED
      BY <3>2, <3>3, ScaleAssumption
  <2>2. SumOverCdps(claims) = 0
    <3> HIDE DEF claims
    <3> QED
      BY <2>1, CdpIdsAreFinite, SumOfZeros DEF SumOverCdps
  <2>3. 0 * DECIMAL_PRECISION + 0 - 0 = 0
    BY ScaleAssumption
  <2>4. CollDust = 0
    BY <2>2, <2>3 DEF CollDust, Init
  <2> QED
    BY <2>4
<1>2. IInv /\ Covered /\ [Next]_vars /\ [TouchedFeesFit]_vars => IInv' /\ Covered'
  <2> SUFFICES ASSUME LedgerInv, Covered, [Next]_vars, [TouchedFeesFit]_vars, LedgerInv'
               PROVE  Covered'
    BY BooksAreInvariant
  <2> DEFINE most == Cardinality(Touched) * DECIMAL_PRECISION
  <2>1. CASE UNCHANGED vars
    <3>1. UNCHANGED <<Cdps, systemCollShares, systemStEthFeePerUnitIndex,
                      systemStEthFeePerUnitIndexError>>
      BY <2>1 DEF vars, poolVars, feeIndexVars
    <3> QED
      BY <3>1 DEF CollDust, ScaledColl
  <2>2. CASE TouchedFeesFit
    <3>1. CollDust' - CollDust \in 0 .. most
      BY <2>2, StepColl DEF CollLosesOnlyDust
    <3>2. CollDust' \in Int
      BY CollDustStaysInt DEF LedgerInv
    <3> HIDE DEF most
    <3>3. CollDust' - CollDust >= 0 /\ CollDust \in Nat
      BY <3>1
    <3> DEFINE before == CollDust
               after == CollDust'
    <3>4. after \in Int /\ before \in Nat /\ after - before >= 0
      BY <3>2, <3>3
    <3> HIDE DEF before, after
    <3>5. after \in Nat
      BY <3>4
    <3> QED
      BY <3>5 DEF after
  <2> QED
    BY <2>1, <2>2
<1>3. IInv /\ Covered => CollDust >= 0
  BY DEF CollDust
<1> QED
  BY <1>1, <1>2, <1>3, PTL DEF Spec

(* --- The sequencers ---------------------------------------------------- *)

LEMMA LiquidatableAmongUnfolds ==
  ASSUME NEW recovery, NEW N \in Nat
  PROVE  LiquidatableAmong(recovery, N) =
           [i \in 0 .. N |->
              IF i = 0 THEN <<>>
              ELSE LET id == sortedCdps[Len(sortedCdps) - i + 1]
                   IN IF IsActive(id) /\ CanLiquidateInCurrentMode(recovery, ViewedICR(id))
                      THEN <<id>> \o LiquidatableAmong(recovery, N)[i - 1]
                      ELSE LiquidatableAmong(recovery, N)[i - 1]]
<1> DEFINE Id(i) == sortedCdps[Len(sortedCdps) - i + 1]
           Takes(i) == IsActive(Id(i)) /\ CanLiquidateInCurrentMode(recovery, ViewedICR(Id(i)))
           Pass(s, i) == IF Takes(i) THEN <<Id(i)>> \o s ELSE s
           Solves(f, m) == f = [i \in 0 .. m |-> IF i = 0 THEN <<>> ELSE Pass(f[i - 1], i)]
           T == {m \in 0 .. N : \E f : Solves(f, m)}
<1> HIDE DEF Pass
<1>1. Solves([i \in 0 .. 0 |-> <<>>], 0)
  OBVIOUS
<1>2. ASSUME NEW m \in 1 .. N, m - 1 \in T PROVE m \in T
  <2>1. PICK f : Solves(f, m - 1)
    BY <1>2
  <2> DEFINE h == [i \in 0 .. m |-> IF i = m THEN Pass(f[m - 1], m) ELSE f[i]]
             hh == [i \in 0 .. m |-> IF i = 0 THEN <<>> ELSE Pass(h[i - 1], i)]
  <2>2. \A i \in 0 .. m : h[i] = hh[i]
    BY <2>1
  <2>3. Solves(h, m)
    <3> HIDE DEF hh
    <3> QED
      BY <2>2 DEF hh
  <2> HIDE DEF Solves, h
  <2> QED
    BY <2>3
<1>3. 0 \in T
  <2> HIDE DEF Solves
  <2> QED
    BY <1>1
<1>4. N \in T
  <2> HIDE DEF T
  <2> QED
    <3>1. \A n \in 0 .. N : n \in T
      BY <1>2, <1>3, IntervalInduction
    <3>2. N \in 0 .. N
      OBVIOUS
    <3> QED
      BY <3>1, <3>2
<1> QED
  BY <1>4 DEF LiquidatableAmong, Pass

LEMMA MaxOfInterval ==
  ASSUME NEW m \in Nat PROVE Max(0 .. m) = m
<1>1. m \in 0 .. m /\ \A x \in 0 .. m : m >= x
  OBVIOUS
<1>2. \A y \in 0 .. m : (\A x \in 0 .. m : y >= x) => y = m
  BY <1>1
<1> QED
  BY <1>1, <1>2 DEF Max

LEMMA TailGrows ==
  ASSUME NEW i \in 1 .. Len(sortedCdps), sortedCdps \in Seq(CdpIds)
  PROVE  TailOf(i) = <<sortedCdps[Len(sortedCdps) - i + 1]>> \o TailOf(i - 1)
<1> DEFINE L == Len(sortedCdps)
           long == TailOf(i)
           short == TailOf(i - 1)
           first == <<sortedCdps[L - i + 1]>>
<1>1. L \in Nat
  OBVIOUS
<1>2. /\ L - i + 1 \in 1 .. L + 1 /\ L \in 0 .. L
      /\ L - (i - 1) + 1 \in 1 .. L + 1
  BY <1>1
<1>3. /\ long \in Seq(CdpIds) /\ Len(long) = i
      /\ \A j \in 1 .. i : long[j] = sortedCdps[L - i + j]
  BY <1>1, <1>2, SubSeqProperties DEF TailOf
<1>4. /\ short \in Seq(CdpIds) /\ Len(short) = i - 1
      /\ \A j \in 1 .. i - 1 : short[j] = sortedCdps[L - (i - 1) + j]
  BY <1>1, <1>2, SubSeqProperties DEF TailOf
<1>5. first \in Seq(CdpIds) /\ Len(first) = 1 /\ first[1] = sortedCdps[L - i + 1]
  BY <1>1
<1> HIDE DEF long, short, first, L
<1>6. /\ first \o short \in Seq(CdpIds) /\ Len(first \o short) = Len(first) + Len(short)
      /\ \A j \in 1 .. Len(first) + Len(short) :
           (first \o short)[j] = IF j <= Len(first) THEN first[j] ELSE short[j - Len(first)]
  <2>1. first \in Seq(CdpIds) /\ short \in Seq(CdpIds)
    BY <1>4, <1>5
  <2> QED
    BY <2>1, ConcatProperties, Zenon
<1>7. ASSUME NEW j \in 1 .. i PROVE long[j] = (first \o short)[j]
  <2>1. (first \o short)[j] = IF j <= 1 THEN first[j] ELSE short[j - 1]
    BY <1>4, <1>5, <1>6
  <2>2. CASE j = 1
    BY <2>1, <2>2, <1>3, <1>5 DEF L
  <2>3. CASE j # 1
    <3>1. j - 1 \in 1 .. i - 1 /\ L - (i - 1) + (j - 1) = L - i + j
      BY <2>3, <1>1 DEF L
    <3> QED
      BY <2>1, <2>3, <3>1, <1>3, <1>4
  <2> QED
    BY <2>2, <2>3
<1>8. Len(first \o short) = i
  BY <1>4, <1>5, <1>6
<1> QED
  BY <1>3, <1>6, <1>7, <1>8, SeqEqual DEF long, short, first, L

\* The list hands its ids over, and the ratios of two neighbours compare.
LEMMA SequencersAgreeIn ==
  ASSUME TypeOK, IndicesAreReached, ListHoldsActiveCdps, ~FeeIsDue, RatiosFall,
         NEW n \in 1 .. MaxCdps
  PROVE  SequenceLiqToBatchLiq(n) = SyncedSequenceLiqToBatchLiq(n)
<1> DEFINE L == Len(sortedCdps)
           W == Weakest(n)
           Id(i) == sortedCdps[L - i + 1]
           Weak(i) == BelowLiqThreshold(ViewedICR(Id(i)), TCROnceSynced)
           recovery == IsRecoveryMode(TCR(systemCollShares, systemDebt))
           S == LiquidatableAmong(recovery, W)
           Taken == {m \in 0 .. W : \A i \in 1 .. m : Weak(i)}
<1>1. sortedCdps \in Seq(CdpIds) /\ L \in Nat
  BY DEF TypeOK, ListTypeOK
<1>2. W \in 0 .. L
  BY <1>1, InputAssumption DEF Weakest, Lesser
<1>3. TCROnceSynced = TCR(systemCollShares, systemDebt)
  BY DEF TCROnceSynced, SyncedGlobal
<1>4. \A id \in CdpIds : ViewedICR(id) \in Nat
  <2>1. SyncedGlobal.feeIndex \in Nat
    BY SyncedGlobalType DEF SyncGlobalSucceeds, GlobalRecords
  <2>2. EnvTypeOK
    BY DEF TypeOK
  <2> QED
    BY <2>1, <2>2, SyncedCdpType, ICRIsNat DEF ViewedICR
<1>5. TCROnceSynced \in Int /\ MCR \in Int
  <2>1. systemCollShares \in Int /\ systemDebt \in Int
    BY DEF TypeOK, PoolTypeOK
  <2> QED
    BY <1>3, <2>1, TCRIsInt, ThresholdAssumption
<1>6. ASSUME NEW i \in 1 .. W PROVE Id(i) \in CdpIds /\ IsActive(Id(i))
  <2>1. L - i + 1 \in 1 .. L
    BY <1>1, <1>2
  <2>2. Id(i) \in CdpIds /\ Id(i) \in ToSet(sortedCdps)
    BY <1>1, <2>1 DEF ToSet
  <2> QED
    BY <2>2 DEF ListHoldsActiveCdps, ActiveCdps
<1>7. ASSUME NEW i \in 1 .. W - 1, Weak(i + 1) PROVE Weak(i)
  <2> DEFINE k == L - (i + 1) + 1
  <2>1. k \in 1 .. L - 1 /\ k + 1 = L - i + 1
    BY <1>1, <1>2
  <2>2. ViewedICR(Id(i + 1)) >= ViewedICR(Id(i))
    <3> HIDE DEF k
    <3>1. ViewedICR(sortedCdps[k]) >= ViewedICR(sortedCdps[k + 1])
      BY <2>1 DEF RatiosFall
    <3>2. Id(i + 1) = sortedCdps[k] /\ Id(i) = sortedCdps[k + 1]
      BY <2>1 DEF k
    <3> HIDE DEF Id
    <3> QED
      BY <3>1, <3>2
  <2>3. ViewedICR(Id(i + 1)) \in Nat /\ ViewedICR(Id(i)) \in Nat
    <3>1. i \in 1 .. W /\ i + 1 \in 1 .. W
      BY <1>1, <1>2
    <3>2. Id(i + 1) \in CdpIds /\ Id(i) \in CdpIds
      <4> HIDE DEF Id, W
      <4> QED
        BY <3>1, <1>6
    <3> QED
      BY <3>2, <1>4
  <2> QED
    BY <1>5, <1>7, <2>2, <2>3 DEF BelowLiqThreshold
<1>8. S = [j \in 0 .. W |->
             IF j = 0 THEN <<>>
             ELSE IF IsActive(Id(j)) /\ CanLiquidateInCurrentMode(recovery, ViewedICR(Id(j)))
                  THEN <<Id(j)>> \o S[j - 1] ELSE S[j - 1]]
  <2>1. W \in Nat
    BY <1>1, <1>2
  <2> HIDE DEF W, recovery
  <2> QED
    BY <2>1, LiquidatableAmongUnfolds
<1>9. ASSUME NEW i \in 1 .. W
      PROVE  /\ Weak(i) => S[i] = <<Id(i)>> \o S[i - 1]
             /\ ~Weak(i) => S[i] = S[i - 1]
  <2>1. S[i] = IF IsActive(Id(i)) /\ CanLiquidateInCurrentMode(recovery, ViewedICR(Id(i)))
               THEN <<Id(i)>> \o S[i - 1] ELSE S[i - 1]
    <3>1. i \in 0 .. W /\ i # 0
      BY <1>1, <1>2
    <3> HIDE DEF S, W, Id, recovery
    <3> QED
      BY <1>8, <3>1
  <2>2. CanLiquidateInCurrentMode(recovery, ViewedICR(Id(i))) <=> Weak(i)
    BY <1>3 DEF CanLiquidateInCurrentMode, BelowLiqThreshold
  <2>3. IsActive(Id(i))
    BY <1>6
  <2>4. CASE Weak(i)
    BY <2>1, <2>2, <2>3, <2>4, Zenon
  <2>5. CASE ~Weak(i)
    BY <2>1, <2>2, <2>5, Zenon
  <2> QED
    BY <2>4, <2>5
<1>10. S[0] = <<>>
  <2>1. 0 \in 0 .. W
    BY <1>1, <1>2
  <2> HIDE DEF S, W, Id, recovery
  <2> QED
    BY <1>8, <2>1
<1>11. TailOf(0) = <<>>
  BY <1>1, SubSeqEmpty DEF TailOf
<1>12. \A i \in 1 .. W : TailOf(i) = <<Id(i)>> \o TailOf(i - 1)
  BY <1>1, <1>2, TailGrows
<1>13. SyncedSequenceLiqToBatchLiq(n) = S[W] /\ SequenceLiqToBatchLiq(n) = TailOf(Max(Taken))
  BY DEF SyncedSequenceLiqToBatchLiq, SequenceLiqToBatchLiq
<1> HIDE DEF W, S, Weak, Id, L
<1> DEFINE Agrees(i, m) == /\ S[i] = TailOf(m) /\ \A j \in 1 .. m : Weak(j)
                           /\ m < i => ~Weak(m + 1) /\ ~Weak(i)
           T == {i \in 0 .. W : \E m \in 0 .. i : Agrees(i, m)}
<1>14. 0 \in T
  <2>1. Agrees(0, 0)
    BY <1>10, <1>11
  <2> QED
    BY <2>1, <1>2
<1>15. ASSUME NEW i \in 1 .. W, i - 1 \in T PROVE i \in T
  <2>1. PICK m \in 0 .. i - 1 : Agrees(i - 1, m)
    BY <1>15
  <2>2. CASE m = i - 1 /\ Weak(i)
    <3>1. S[i] = TailOf(i)
      BY <2>1, <2>2, <1>9, <1>12
    <3>2. \A j \in 1 .. i : Weak(j)
      BY <2>1, <2>2
    <3> QED
      BY <3>1, <3>2
  <2>3. CASE m = i - 1 /\ ~Weak(i)
    <3>1. S[i] = TailOf(m)
      BY <2>1, <2>3, <1>9
    <3>2. m + 1 = i
      BY <2>3
    <3> QED
      BY <2>1, <2>3, <3>1, <3>2
  <2>4. CASE m # i - 1
    <3>1. i - 1 \in 1 .. W - 1 /\ m < i - 1
      BY <2>4, <1>2
    <3>2. ~Weak(i - 1) /\ ~Weak(m + 1)
      BY <2>1, <3>1
    <3>3. (i - 1) + 1 = i
      OBVIOUS
    <3>4. ~Weak(i)
      BY <3>1, <3>2, <3>3, <1>7
    <3>5. S[i] = TailOf(m) /\ m < i /\ m \in 0 .. i
      <4>1. S[i] = S[i - 1]
        BY <3>4, <1>9
      <4>2. S[i - 1] = TailOf(m)
        BY <2>1
      <4> QED
        BY <4>1, <4>2, <3>1
    <3>6. Agrees(i, m)
      BY <2>1, <3>2, <3>4, <3>5
    <3> QED
      BY <3>5, <3>6, <1>15
  <2> QED
    BY <2>2, <2>3, <2>4
<1>16. W \in T
  <2>1. W \in Nat /\ W \in 0 .. W
    BY <1>2, <1>1 DEF L
  <2> HIDE DEF T
  <2>2. \A i \in 0 .. W : i \in T
    BY <2>1, <1>14, <1>15, IntervalInduction
  <2> QED
    BY <2>1, <2>2
<1>17. PICK m \in 0 .. W : Agrees(W, m)
  BY <1>16
<1>18. Taken = 0 .. m
  <2>1. ASSUME NEW k \in 0 .. W, \A j \in 1 .. k : Weak(j) PROVE k <= m
    <3>1. CASE m = W
      BY <3>1
    <3>2. CASE m < W
      <4>1. ~Weak(m + 1)
        BY <1>17, <3>2
      <4> QED
        BY <2>1, <4>1
    <3> QED
      BY <3>1, <3>2, <1>1, <1>2
  <2>2. ASSUME NEW k \in 0 .. m PROVE k \in 0 .. W /\ \A j \in 1 .. k : Weak(j)
    BY <1>17, <1>1, <1>2
  <2>3. m \in Nat /\ W \in Nat
    BY <1>1, <1>2
  <2>4. Taken \subseteq 0 .. m
    BY <2>1, <2>3
  <2>5. 0 .. m \subseteq Taken
    BY <2>2, <2>3
  <2> HIDE DEF Taken
  <2> QED
    BY <2>4, <2>5
<1>19. Max(Taken) = m
  <2>1. m \in Nat
    BY <1>1, <1>2
  <2> QED
    BY <1>18, <2>1, MaxOfInterval
<1> QED
  BY <1>13, <1>17, <1>19

(* Once the pending fee is written, the two sequencers of liquidations give  *)
(* the same ids, for any number of CDPs looked at: LiquidationSequencer      *)
(* stops at the first CDP that cannot be liquidated, and beyond it, where    *)
(* the ratios do not fall again, SyncedLiquidationSequencer takes none.      *)
THEOREM SequencersTheorem == Spec => []SequencersAgreeOnceSynced
<1> DEFINE IInv == LedgerInv /\ PoolMargin >= 0
<1>1. Init => IInv
  BY InitBooks
<1>2. IInv /\ [Next]_vars => IInv'
  BY BooksAreInvariant
<1>3. IInv => SequencersAgreeOnceSynced
  BY BooksFromLedger, SequencersAgreeIn DEF LedgerInv, SequencersAgreeOnceSynced
<1> QED
  BY <1>1, <1>2, <1>3, PTL DEF Spec

(* --- The hints of a redemption ----------------------------------------- *)

HintRecords ==
  [remaining : Nat, partialColl : Nat, partialNICR : Nat, ended : BOOLEAN, ok : BOOLEAN]

\* The four moves of the walk: past a CDP redeemed in full, to the end where the
\* view reverts, where no CDP is redeemed in part, and where one is
HintPast(h, debt) == [h EXCEPT !.remaining = @ - debt]
HintFailed(h) == [h EXCEPT !.ok = FALSE, !.ended = TRUE]
HintAtEnd(h) == [h EXCEPT !.ended = TRUE]
HintInPart(h, c, q) ==
  [h EXCEPT !.ended = TRUE, !.remaining = 0, !.partialColl = c, !.partialNICR = q]

LEMMA PastFields ==
  ASSUME NEW h \in HintRecords, NEW debt, h.remaining - debt \in Nat
  PROVE  /\ HintPast(h, debt) \in HintRecords
         /\ HintPast(h, debt).remaining = h.remaining - debt
         /\ HintPast(h, debt).ended = h.ended
         /\ HintPast(h, debt).partialColl = h.partialColl /\ HintPast(h, debt).ok = h.ok
  BY DEF HintRecords, HintPast

LEMMA FailedFields ==
  ASSUME NEW h \in HintRecords
  PROVE  /\ HintFailed(h) \in HintRecords /\ HintFailed(h).remaining = h.remaining
         /\ HintFailed(h).ok = FALSE
  BY DEF HintRecords, HintFailed

LEMMA AtEndFields ==
  ASSUME NEW h \in HintRecords
  PROVE  /\ HintAtEnd(h) \in HintRecords /\ HintAtEnd(h).remaining = h.remaining
         /\ HintAtEnd(h).ended = TRUE /\ HintAtEnd(h).partialColl = h.partialColl
         /\ HintAtEnd(h).ok = h.ok
  BY DEF HintRecords, HintAtEnd

\* Where the walk from `h' is when it ends with a CDP redeemed in part
EndsInPart(next, h, c, q) ==
  /\ next.remaining = 0 /\ next.ended = TRUE /\ next.partialColl = c /\ next.partialNICR = q
  /\ next.ok = h.ok

LEMMA InPartFields ==
  ASSUME NEW h \in HintRecords, NEW c \in Nat, NEW q \in Nat
  PROVE  HintInPart(h, c, q) \in HintRecords /\ EndsInPart(HintInPart(h, c, q), h, c, q)
  BY DEF HintRecords, HintInPart, EndsInPart

LEMMA FeeIndexIsNat ==
  ASSUME TypeOK PROVE SyncedGlobal.feeIndex \in Nat
<1>1. systemStEthFeePerUnitIndex \in Nat
  BY DEF TypeOK, FeeIndexTypeOK
<1>2. CASE FeeIsDue
  <2>1. FeeUponStakingReward.perUnit \in Nat
    BY <1>2, FeeIsNat
  <2> QED
    BY <1>1, <1>2, <2>1 DEF SyncedGlobal
<1>3. CASE ~FeeIsDue
  BY <1>1, <1>3 DEF SyncedGlobal
<1> QED
  BY <1>2, <1>3

LEMMA ViewedIsCdp ==
  ASSUME TypeOK, IndicesAreReached, NEW id \in CdpIds
  PROVE  Viewed(id) \in CdpRecords /\ ICR(Viewed(id)) \in Nat
<1>1. Viewed(id) \in CdpRecords
  BY FeeIndexIsNat, SyncedCdpType DEF Viewed
<1> QED
  BY <1>1, ICRIsNat DEF TypeOK

LEMMA NominalCRIsNat ==
  ASSUME NEW coll \in Nat, NEW debt \in Nat PROVE ComputeNominalCR(coll, debt) \in Nat
<1>1. coll * NICR_PRECISION \in Nat
  BY ScaleAssumption, ProductIsNat
<1> QED
  BY <1>1, DivIsNat, ThresholdAssumption DEF ComputeNominalCR

\* What a step of the walk does, by its cases
LEMMA HintStepCases ==
  ASSUME TypeOK, IndicesAreReached, NEW id \in CdpIds, NEW h \in HintRecords,
         NEW cdp, cdp = Viewed(id), NEW next, next = HintStep(h, cdp)
  PROVE  \/ (h.ended \/ h.remaining = 0) /\ next = h
         \/ /\ ~h.ended /\ h.remaining > 0 /\ cdp.debt <= h.remaining
            /\ next = HintPast(h, cdp.debt)
         \/ /\ ~h.ended /\ h.remaining > 0 /\ cdp.debt > h.remaining
            /\ next = HintFailed(h)
         \/ /\ ~h.ended /\ h.remaining > 0 /\ cdp.debt > h.remaining
            /\ next = HintAtEnd(h)
         \/ /\ ~h.ended /\ h.remaining > 0 /\ cdp.debt > h.remaining
            /\ cdp.coll - CollDrawn(h.remaining) \in Nat \ {0}
            /\ GetPooledEthByShares(cdp.coll - CollDrawn(h.remaining)) >= MIN_NET_STETH_BALANCE
            /\ next = HintInPart(h, cdp.coll - CollDrawn(h.remaining), ComputeNominalCR(cdp.coll - CollDrawn(h.remaining), cdp.debt - h.remaining))
<1> DEFINE collLeft == cdp.coll - CollDrawn(h.remaining)
<1>1. h.remaining \in Nat /\ h.ended \in BOOLEAN
  BY DEF HintRecords
<1>2. cdp.coll \in Nat /\ cdp.debt \in Nat
  BY ViewedIsCdp DEF CdpRecords
<1>3. CollDrawn(h.remaining) \in Nat
  BY <1>1, DrawnIsNat DEF TypeOK
<1>4. collLeft \in Int
  BY <1>2, <1>3
<1>5. CASE h.ended \/ h.remaining = 0
  BY <1>5 DEF HintStep
<1>6. CASE ~(h.ended \/ h.remaining = 0) /\ ~(cdp.debt > h.remaining)
  BY <1>1, <1>2, <1>6 DEF HintStep, HintPast
<1>7. CASE ~(h.ended \/ h.remaining = 0) /\ cdp.debt > h.remaining
  <2>1. ~h.ended /\ h.remaining > 0 /\ next = HintPartial(h, cdp)
    BY <1>1, <1>7 DEF HintStep
  <2>2. CASE collLeft < 0
    BY <1>7, <2>1, <2>2 DEF HintPartial, HintFailed
  <2>3. CASE collLeft >= 0 /\ GetPooledEthByShares(collLeft) < MIN_NET_STETH_BALANCE
    BY <1>4, <1>7, <2>1, <2>3 DEF HintPartial, HintAtEnd
  <2>4. CASE collLeft >= 0 /\ ~(GetPooledEthByShares(collLeft) < MIN_NET_STETH_BALANCE)
    <3>1. collLeft \in Nat
      BY <1>4, <2>4
    <3>2. GetPooledEthByShares(collLeft) \in Nat /\ MIN_NET_STETH_BALANCE \in Nat \ {0}
      BY <3>1, GetPooledIsNat, MinimumAssumption DEF TypeOK
    <3>3. GetPooledEthByShares(0) = 0
      BY RatesArePositive, ScaleAssumption DEF TypeOK, GetPooledEthByShares, PooledEth
    <3>4. collLeft # 0
      BY <3>2, <3>3, <2>4
    <3>5. GetPooledEthByShares(collLeft) >= MIN_NET_STETH_BALANCE
      BY <3>2, <2>4
    <3>6. next = HintInPart(h, collLeft, ComputeNominalCR(collLeft, cdp.debt - h.remaining))
      BY <1>4, <2>1, <2>4 DEF HintPartial, HintInPart
    <3> QED
      BY <1>7, <2>1, <3>1, <3>4, <3>5, <3>6
  <2> QED
    BY <1>4, <2>2, <2>3, <2>4
<1> QED
  BY <1>5, <1>6, <1>7

\* The walk leaves no more to redeem than before, and nothing moves at its end.
LEMMA HintStepType ==
  ASSUME TypeOK, IndicesAreReached, NEW id \in CdpIds, NEW h \in HintRecords
  PROVE  /\ HintStep(h, Viewed(id)) \in HintRecords
         /\ HintStep(h, Viewed(id)).remaining <= h.remaining
         /\ h.ended => HintStep(h, Viewed(id)) = h
         /\ HintStep(h, Viewed(id)).ok = TRUE => h.ok = TRUE
<1> DEFINE cdp == Viewed(id)
           next == HintStep(h, cdp)
           collLeft == cdp.coll - CollDrawn(h.remaining)
<1>1. h.remaining \in Nat /\ cdp.debt \in Nat
  BY ViewedIsCdp DEF HintRecords, CdpRecords
<1>2. cdp.debt > h.remaining /\ collLeft \in Nat
        => ComputeNominalCR(collLeft, cdp.debt - h.remaining) \in Nat
  <2> SUFFICES ASSUME cdp.debt > h.remaining, collLeft \in Nat
               PROVE  ComputeNominalCR(collLeft, cdp.debt - h.remaining) \in Nat
    OBVIOUS
  <2>1. cdp.debt - h.remaining \in Nat
    BY <1>1
  <2> QED
    BY <2>1, NominalCRIsNat
<1> SUFFICES /\ next \in HintRecords /\ next.remaining <= h.remaining
             /\ h.ended => next = h
             /\ next.ok = TRUE => h.ok = TRUE
  OBVIOUS
<1> HIDE DEF cdp, collLeft, next
<1>3. h.remaining <= h.remaining /\ 0 <= h.remaining
  BY <1>1
<1>4. CASE next = h
  BY <1>3, <1>4
<1>5. CASE ~h.ended /\ cdp.debt <= h.remaining /\ next = HintPast(h, cdp.debt)
  <2>1. h.remaining - cdp.debt \in Nat /\ h.remaining - cdp.debt <= h.remaining
    BY <1>1, <1>5
  <2> QED
    BY <1>5, <2>1, PastFields
<1>6. CASE ~h.ended /\ next = HintFailed(h)
  BY <1>1, <1>3, <1>6, FailedFields
<1>7. CASE ~h.ended /\ next = HintAtEnd(h)
  BY <1>1, <1>3, <1>7, AtEndFields
<1>8. CASE /\ ~h.ended /\ cdp.debt > h.remaining /\ collLeft \in Nat
           /\ next = HintInPart(h, collLeft, ComputeNominalCR(collLeft, cdp.debt - h.remaining))
  <2> DEFINE ratio == ComputeNominalCR(collLeft, cdp.debt - h.remaining)
  <2>1. ratio \in Nat /\ collLeft \in Nat /\ next = HintInPart(h, collLeft, ratio)
    BY <1>2, <1>8
  <2> HIDE DEF ratio
  <2>2. ratio \in Nat /\ collLeft \in Nat
    BY <2>1
  <2>3. HintInPart(h, collLeft, ratio) \in HintRecords
        /\ EndsInPart(HintInPart(h, collLeft, ratio), h, collLeft, ratio)
    BY <2>2, InPartFields
  <2>4. next \in HintRecords /\ next.remaining = 0 /\ next.ok = h.ok
    <3>1. next \in HintRecords /\ EndsInPart(next, h, collLeft, ratio)
      BY <2>1, <2>3
    <3> QED
      BY <3>1 DEF EndsInPart
  <2> QED
    BY <1>3, <1>8, <2>4
<1>9. \/ next = h
      \/ /\ ~h.ended /\ cdp.debt <= h.remaining
         /\ next = HintPast(h, cdp.debt)
      \/ ~h.ended /\ next = HintFailed(h)
      \/ ~h.ended /\ next = HintAtEnd(h)
      \/ /\ ~h.ended /\ cdp.debt > h.remaining /\ collLeft \in Nat
         /\ next = HintInPart(h, collLeft, ComputeNominalCR(collLeft, cdp.debt - h.remaining))
  <2>1. cdp = Viewed(id) /\ next = HintStep(h, cdp) /\ collLeft = cdp.coll - CollDrawn(h.remaining)
    BY DEF cdp, collLeft, next
  <2> QED
    BY <2>1, HintStepCases
<1> QED
  BY <1>4, <1>5, <1>6, <1>7, <1>8, <1>9

\* The redemption `r' follows the walk `h', which will leave `left' at its end.
IsFollowed(h, r, left) ==
  /\ ~h.ended => /\ h.partialColl = 0 /\ r.remaining = h.remaining - left
                 /\ r.partly = NoCdp /\ r.cancelled = FALSE
  /\ h.ended /\ h.partialColl = 0 => /\ r.remaining = 0
                                     /\ r.partly = NoCdp /\ r.cancelled = FALSE
  /\ h.ended /\ h.partialColl # 0 =>
       \/ /\ r.remaining = 0 /\ r.partly.coll = h.partialColl
          /\ h.partialNICR = ComputeNominalCR(r.partly.coll, r.partly.debt)
       \/ r.cancelled = TRUE /\ r.partly = NoCdp

\* Nothing more than `left' remains when the walk that is at `h' ends.
LeavesAtEnd(h, left) ==
  /\ h.ok = TRUE /\ left <= h.remaining
  /\ h.ended => left = h.remaining

LEMMA DifferencesCommute ==
  ASSUME NEW a \in Int, NEW b \in Int, NEW c \in Int PROVE (a - b) - c = (a - c) - b
  OBVIOUS

LEMMA StepIsFollowed ==
  ASSUME TypeOK, IndicesAreReached, NEW id \in CdpIds, NEW h \in HintRecords, NEW r,
         NEW left \in Nat, IsFollowed(h, r, left),
         NEW next, next = HintStep(h, Viewed(id)), LeavesAtEnd(next, left),
         NEW then, then = RedeemFromCdp(r, id, SyncedGlobal, TRUE)
  PROVE  IsFollowed(next, then, left)
<1> DEFINE g == SyncedGlobal
           cdp == Viewed(id)
           debtToRedeem == Lesser(r.remaining, cdp.debt)
           drawn == CollDrawn(debtToRedeem)
           newDebt == cdp.debt - debtToRedeem
           newColl == cdp.coll - drawn
           isPartial == /\ GetPooledEthByShares(newColl) >= MIN_NET_STETH_BALANCE
                        /\ DebtIsEnough(newDebt)
           stake == ComputeNewStake(newColl, g.stakesSnapshot, g.collSnapshot)
<1>1. cdp \in CdpRecords /\ cdp.coll \in Nat /\ cdp.debt \in Nat
  BY ViewedIsCdp, RecordFields
<1>2. h.remaining \in Nat /\ h.ended \in BOOLEAN
  BY DEF HintRecords
<1>0. next.ok = TRUE /\ left <= next.remaining /\ (next.ended = TRUE => left = next.remaining)
  BY DEF LeavesAtEnd
<1>3. r.remaining = 0 \/ r.cancelled = TRUE => then = r
  BY DEF RedeemFromCdp
<1>4. ~(r.remaining = 0 \/ r.cancelled = TRUE) /\ r.cancelled = FALSE /\ newDebt = 0
        => /\ then.remaining = r.remaining - debtToRedeem
           /\ then.partly = r.partly /\ then.cancelled = FALSE
  BY DEF RedeemFromCdp, Viewed
<1>5. ~(r.remaining = 0 \/ r.cancelled = TRUE) /\ r.cancelled = FALSE /\ newDebt # 0
        => IF isPartial
           THEN then.remaining = 0 /\ then.partly = UpdatedCdp(cdp, newColl, newDebt, stake)
           ELSE then.partly = NoCdp /\ then.cancelled = TRUE
  <2>1. CASE isPartial
    BY <2>1 DEF RedeemFromCdp, Viewed
  <2>2. CASE ~isPartial
    BY <2>2 DEF RedeemFromCdp, Viewed
  <2> QED
    BY <2>1, <2>2
<1> HIDE DEF cdp, debtToRedeem, drawn, newDebt, newColl, isPartial, stake, g
<1>6. CASE (h.ended \/ h.remaining = 0) /\ next = h
  <2>1. r.remaining = 0 \/ r.cancelled = TRUE
    BY <1>0, <1>2, <1>6 DEF IsFollowed
  <2> QED
    BY <1>3, <1>6, <2>1
<1>7. CASE /\ ~h.ended /\ h.remaining > 0 /\ cdp.debt <= h.remaining
           /\ next = HintPast(h, cdp.debt)
  <2>1. /\ next.remaining = h.remaining - cdp.debt /\ next.ended = h.ended
        /\ next.partialColl = h.partialColl
    BY <1>1, <1>2, <1>7, PastFields
  <2>2. /\ r.remaining = h.remaining - left /\ r.partly = NoCdp /\ r.cancelled = FALSE
        /\ h.partialColl = 0
    BY <1>7 DEF IsFollowed
  <2>3. r.remaining >= cdp.debt
    BY <1>0, <1>1, <1>2, <2>1, <2>2
  <2>4. CASE r.remaining = 0
    <3>1. cdp.debt = 0 /\ then = r
      <4>1. then = r
        BY <1>3, <2>4
      <4>2. 0 >= cdp.debt
        BY <2>3, <2>4
      <4>3. cdp.debt \in Nat
        BY <1>1
      <4>4. cdp.debt = 0
        BY <4>2, <4>3
      <4> QED
        BY <4>1, <4>4
    <3>2. next.remaining = h.remaining
      BY <1>2, <2>1, <3>1
    <3> QED
      BY <1>7, <2>1, <2>2, <3>1, <3>2 DEF IsFollowed
  <2>5. CASE r.remaining # 0
    <3>1. debtToRedeem = cdp.debt /\ newDebt = 0
      BY <1>1, <1>2, <2>2, <2>3 DEF Lesser, debtToRedeem, newDebt
    <3>2. then.remaining = r.remaining - cdp.debt /\ then.partly = NoCdp /\ then.cancelled = FALSE
      BY <1>4, <2>2, <2>5, <3>1
    <3>3. then.remaining = next.remaining - left
      <4>1. then.remaining = (h.remaining - left) - cdp.debt
        BY <2>2, <3>2
      <4>2. next.remaining = h.remaining - cdp.debt
        BY <2>1
      <4>3. (h.remaining - left) - cdp.debt = (h.remaining - cdp.debt) - left
        <5>1. h.remaining \in Int /\ left \in Int /\ cdp.debt \in Int
          BY <1>1, <1>2
        <5> QED
          BY <5>1, DifferencesCommute
      <4> QED
        BY <4>1, <4>2, <4>3
    <3> QED
      BY <1>7, <2>1, <2>2, <3>2, <3>3 DEF IsFollowed
  <2> QED
    BY <2>4, <2>5
<1>8. CASE next = HintFailed(h)
  BY <1>0, <1>8, FailedFields
<1>9. CASE ~h.ended /\ h.remaining > 0 /\ next = HintAtEnd(h)
  <2>1. next.remaining = h.remaining /\ next.ended = TRUE /\ next.partialColl = h.partialColl
    BY <1>9, AtEndFields
  <2>2. /\ r.remaining = h.remaining - left /\ r.partly = NoCdp /\ r.cancelled = FALSE
        /\ h.partialColl = 0
    BY <1>9 DEF IsFollowed
  <2>3. r.remaining = 0
    BY <1>0, <1>2, <2>1, <2>2
  <2> QED
    BY <1>3, <2>1, <2>2, <2>3 DEF IsFollowed
<1>10. CASE /\ ~h.ended /\ h.remaining > 0 /\ cdp.debt > h.remaining
            /\ cdp.coll - CollDrawn(h.remaining) \in Nat \ {0}
            /\ GetPooledEthByShares(cdp.coll - CollDrawn(h.remaining)) >= MIN_NET_STETH_BALANCE
            /\ next = HintInPart(h, cdp.coll - CollDrawn(h.remaining), ComputeNominalCR(cdp.coll - CollDrawn(h.remaining), cdp.debt - h.remaining))
  <2> DEFINE collLeft == cdp.coll - CollDrawn(h.remaining)
             ratio == ComputeNominalCR(collLeft, cdp.debt - h.remaining)
  <2>1. /\ next.remaining = 0 /\ next.ended = TRUE /\ next.partialColl = collLeft
        /\ next.partialNICR = ratio
    <3>1. collLeft \in Nat
      BY <1>10
    <3>2. ratio \in Nat
      <4>1. cdp.debt - h.remaining \in Nat
        BY <1>1, <1>2, <1>10
      <4> QED
        BY <3>1, <4>1, NominalCRIsNat
    <3>3. next = HintInPart(h, collLeft, ratio)
      BY <1>10
    <3> HIDE DEF collLeft, ratio
    <3> QED
      <4>1. EndsInPart(HintInPart(h, collLeft, ratio), h, collLeft, ratio)
        BY <3>1, <3>2, InPartFields
      <4>2. EndsInPart(next, h, collLeft, ratio)
        BY <3>3, <4>1
      <4> QED
        BY <4>2 DEF EndsInPart
  <2>2. /\ r.remaining = h.remaining - left /\ r.partly = NoCdp /\ r.cancelled = FALSE
    BY <1>10 DEF IsFollowed
  <2>3. left = 0 /\ r.remaining = h.remaining
    BY <1>0, <1>2, <2>1, <2>2
  <2>4. debtToRedeem = h.remaining
    BY <1>1, <1>2, <1>10, <2>3 DEF Lesser, debtToRedeem
  <2>5. newColl = collLeft /\ newDebt = cdp.debt - h.remaining /\ newDebt # 0
    BY <1>1, <1>2, <1>10, <2>4 DEF newColl, newDebt, drawn
  <2>6. IF isPartial
        THEN then.remaining = 0 /\ then.partly = UpdatedCdp(cdp, newColl, newDebt, stake)
        ELSE then.partly = NoCdp /\ then.cancelled = TRUE
    <3>1. ~(r.remaining = 0 \/ r.cancelled = TRUE)
      BY <1>2, <1>10, <2>2, <2>3
    <3> QED
      BY <1>5, <2>2, <2>5, <3>1
  <2>7. collLeft # 0
    BY <1>10
  <2> HIDE DEF collLeft, ratio
  <2>8. CASE isPartial
    <3>1. then.remaining = 0 /\ then.partly = UpdatedCdp(cdp, newColl, newDebt, stake)
      BY <2>6, <2>8
    <3>2. then.partly.coll = newColl /\ then.partly.debt = newDebt
      BY <1>1, <3>1 DEF UpdatedCdp, CdpRecords
    <3>3. next.partialNICR = ComputeNominalCR(then.partly.coll, then.partly.debt)
      BY <2>1, <2>5, <3>2 DEF ratio
    <3> QED
      BY <2>1, <2>5, <2>7, <3>1, <3>2, <3>3 DEF IsFollowed
  <2>9. CASE ~isPartial
    BY <2>1, <2>6, <2>7, <2>9 DEF IsFollowed
  <2> QED
    BY <2>8, <2>9
<1>11. \/ (h.ended \/ h.remaining = 0) /\ next = h
       \/ /\ ~h.ended /\ h.remaining > 0 /\ cdp.debt <= h.remaining
          /\ next = HintPast(h, cdp.debt)
       \/ next = HintFailed(h)
       \/ ~h.ended /\ h.remaining > 0 /\ next = HintAtEnd(h)
       \/ /\ ~h.ended /\ h.remaining > 0 /\ cdp.debt > h.remaining
          /\ cdp.coll - CollDrawn(h.remaining) \in Nat \ {0}
          /\ GetPooledEthByShares(cdp.coll - CollDrawn(h.remaining)) >= MIN_NET_STETH_BALANCE
          /\ next = HintInPart(h, cdp.coll - CollDrawn(h.remaining), ComputeNominalCR(cdp.coll - CollDrawn(h.remaining), cdp.debt - h.remaining))
  <2>1. cdp = Viewed(id) /\ next = HintStep(h, cdp)
    BY DEF cdp
  <2> QED
    BY <2>1, HintStepCases
<1> QED
  BY <1>6, <1>7, <1>8, <1>9, <1>10, <1>11
\* `after' is where the walk of the view is after 0, 1, ... CDPs.
IsWalk(after, debt, first) ==
  /\ after[0] = NothingHinted(debt)
  /\ \A n \in 1 .. first : after[n] = HintStep(after[n - 1], Viewed(sortedCdps[first - n + 1]))

LEMMA HintsAfterUnfolds ==
  ASSUME NEW debt, NEW first \in Nat
  PROVE  IsWalk(HintsAfter(debt, first), debt, first)
<1> DEFINE Hint(h, n) == HintStep(h, Viewed(sortedCdps[first - n + 1]))
           Solves(f, m) == f = [n \in 0 .. m |-> IF n = 0 THEN NothingHinted(debt)
                                                 ELSE Hint(f[n - 1], n)]
           T == {m \in 0 .. first : \E f : Solves(f, m)}
<1> HIDE DEF Hint
<1>1. Solves([n \in 0 .. 0 |-> NothingHinted(debt)], 0)
  OBVIOUS
<1>2. ASSUME NEW m \in 1 .. first, m - 1 \in T PROVE m \in T
  <2>1. PICK f : Solves(f, m - 1)
    BY <1>2
  <2> DEFINE h == [n \in 0 .. m |-> IF n = m THEN Hint(f[m - 1], m) ELSE f[n]]
             hh == [n \in 0 .. m |-> IF n = 0 THEN NothingHinted(debt)
                                     ELSE Hint(h[n - 1], n)]
  <2>2. \A n \in 0 .. m : h[n] = hh[n]
    BY <2>1
  <2>3. Solves(h, m)
    <3> HIDE DEF hh
    <3> QED
      BY <2>2 DEF hh
  <2> HIDE DEF Solves, h
  <2> QED
    BY <2>3
<1>3. 0 \in T
  <2> HIDE DEF Solves
  <2> QED
    BY <1>1
<1>4. first \in T
  <2> HIDE DEF T
  <2>1. \A n \in 0 .. first : n \in T
    BY <1>2, <1>3, IntervalInduction
  <2>2. first \in 0 .. first
    OBVIOUS
  <2> QED
    BY <2>1, <2>2
<1> DEFINE after == HintsAfter(debt, first)
<1>5. Solves(after, first)
  BY <1>4 DEF HintsAfter, Hint
<1> HIDE DEF after
<1>6. after[0] = NothingHinted(debt)
  BY <1>5
<1>7. ASSUME NEW n \in 1 .. first PROVE after[n] = Hint(after[n - 1], n)
  BY <1>5
<1> QED
  BY <1>6, <1>7 DEF after, Hint, IsWalk

LEMMA WalkType ==
  ASSUME TypeOK, IndicesAreReached, NEW debt \in Nat, NEW first \in 1 .. Len(sortedCdps),
         NEW after, IsWalk(after, debt, first)
  PROVE  \A n \in 0 .. first : after[n] \in HintRecords
<1> DEFINE T == {n \in 0 .. first : after[n] \in HintRecords}
<1>0. sortedCdps \in Seq(CdpIds) /\ first \in Nat
  BY DEF TypeOK, ListTypeOK
<1>1. 0 \in T
  <2>1. NothingHinted(debt) \in HintRecords
    BY DEF NothingHinted, HintRecords
  <2> QED
    BY <1>0, <2>1 DEF IsWalk
<1>2. ASSUME NEW n \in 1 .. first, n - 1 \in T PROVE n \in T
  <2> DEFINE id == sortedCdps[first - n + 1]
             m == n - 1
  <2>1. id \in CdpIds
    <3>1. first - n + 1 \in 1 .. Len(sortedCdps)
      BY <1>0
    <3> QED
      BY <1>0, <3>1
  <2>2. after[n] = HintStep(after[m], Viewed(id)) /\ after[m] \in HintRecords
    BY <1>2 DEF IsWalk
  <2> HIDE DEF id, m
  <2>3. after[n] \in HintRecords
    BY <2>1, <2>2, HintStepType
  <2> QED
    BY <1>0, <2>3
<1> HIDE DEF T
<1>3. \A n \in 0 .. first : n \in T
  BY <1>0, <1>1, <1>2, IntervalInduction
<1> QED
  BY <1>3 DEF T

\* Every place of the walk leaves at least what its last place leaves, and the
\* walk that ended has left it.
LEMMA WalkLeaves ==
  ASSUME TypeOK, IndicesAreReached, NEW debt \in Nat, NEW first \in 1 .. Len(sortedCdps),
         NEW after, IsWalk(after, debt, first), NEW N \in 0 .. first, after[N].ok = TRUE
  PROVE  \A n \in 0 .. N : LeavesAtEnd(after[n], after[N].remaining)
<1> DEFINE left == after[N].remaining
           T == {k \in 0 .. N : LeavesAtEnd(after[N - k], left)}
<1>0. sortedCdps \in Seq(CdpIds) /\ first \in Nat /\ N \in Nat /\ N <= first
  BY DEF TypeOK, ListTypeOK
<1>1. \A n \in 0 .. first : after[n] \in HintRecords /\ after[n].remaining \in Nat
  <2>1. \A n \in 0 .. first : after[n] \in HintRecords
    BY WalkType
  <2> QED
    BY <2>1 DEF HintRecords
<1>2. 0 \in T
  <2>1. left \in Nat /\ N - 0 = N
    BY <1>0, <1>1
  <2>2. left <= left
    BY <2>1
  <2>3. LeavesAtEnd(after[N], left)
    BY <2>2 DEF LeavesAtEnd
  <2> QED
    BY <1>0, <2>1, <2>3
<1>3. ASSUME NEW k \in 1 .. N, k - 1 \in T PROVE k \in T
  <2> DEFINE m == N - k
             n == N - (k - 1)
             id == sortedCdps[first - n + 1]
             h == after[m]
  <2>1. n \in 1 .. first /\ n - 1 = m /\ m \in 0 .. first
    BY <1>0
  <2>2. id \in CdpIds
    <3>1. first - n + 1 \in 1 .. Len(sortedCdps)
      BY <1>0
    <3> QED
      BY <1>0, <3>1
  <2>3. LeavesAtEnd(after[n], left)
    BY <1>3
  <2> HIDE DEF m, n, id
  <2>4. after[n] = HintStep(h, Viewed(id)) /\ h \in HintRecords /\ after[n].remaining \in Nat
        /\ h.remaining \in Nat
    <3>1. after[n] = HintStep(after[n - 1], Viewed(sortedCdps[first - n + 1]))
      BY <2>1 DEF IsWalk
    <3> QED
      BY <3>1, <2>1, <1>1 DEF id
  <2> HIDE DEF h
  <2>5. /\ after[n].remaining <= h.remaining
        /\ h.ended => after[n] = h
        /\ after[n].ok = TRUE => h.ok = TRUE
    BY <2>2, <2>4, HintStepType
  <2>6. left \in Nat
    BY <1>0, <1>1
  <2>7. LeavesAtEnd(h, left)
    <3> HIDE DEF left
    <3> QED
      BY <2>3, <2>4, <2>5, <2>6 DEF LeavesAtEnd
  <2> QED
    BY <2>7 DEF m, h
<1> HIDE DEF T
<1>4. \A k \in 0 .. N : k \in T
  BY <1>0, <1>2, <1>3, IntervalInduction
<1>5. ASSUME NEW n \in 0 .. N PROVE LeavesAtEnd(after[n], left)
  <2>1. N - n \in 0 .. N /\ N - (N - n) = n
    BY <1>0
  <2> QED
    BY <2>1, <1>4 DEF T
<1> QED
  BY <1>5

LEMMA WalkIsFollowed ==
  ASSUME TypeOK, IndicesAreReached, NEW debt \in Nat, NEW first \in 1 .. Len(sortedCdps),
         NEW after, IsWalk(after, debt, first), NEW N \in 0 .. first, after[N].ok = TRUE,
         NEW left, left = after[N].remaining,
         NEW redeemed, IsLoop(redeemed, debt - left, first, SyncedGlobal, TRUE)
  PROVE  IsFollowed(after[N], redeemed[N], left)
<1> DEFINE T == {n \in 0 .. N : IsFollowed(after[n], redeemed[n], left)}
<1>0. sortedCdps \in Seq(CdpIds) /\ first \in Nat /\ N \in Nat /\ N <= first
  BY DEF TypeOK, ListTypeOK
<1>1. \A n \in 0 .. first : after[n] \in HintRecords
  BY WalkType
<1>2. left \in Nat
  BY <1>1 DEF HintRecords
<1>3. \A n \in 0 .. N : LeavesAtEnd(after[n], left)
  BY WalkLeaves
<1>4. 0 \in T
  <2>1. IsFollowed(NothingHinted(debt), NothingRedeemed(debt - left), left)
    BY DEF IsFollowed, NothingHinted, NothingRedeemed
  <2>2. after[0] = NothingHinted(debt) /\ redeemed[0] = NothingRedeemed(debt - left)
    BY DEF IsWalk, IsLoop
  <2> QED
    BY <1>0, <2>1, <2>2
<1>5. ASSUME NEW n \in 1 .. N, n - 1 \in T PROVE n \in T
  <2> DEFINE id == sortedCdps[first - n + 1]
             m == n - 1
  <2>1. id \in CdpIds
    <3>1. first - n + 1 \in 1 .. Len(sortedCdps)
      BY <1>0
    <3> QED
      BY <1>0, <3>1
  <2>2. n \in 1 .. first /\ n \in 0 .. N /\ m \in 0 .. first
    BY <1>0
  <2>3. after[n] = HintStep(after[m], Viewed(id))
    BY <2>2 DEF IsWalk
  <2>4. redeemed[n] = RedeemFromCdp(redeemed[m], id, SyncedGlobal, TRUE)
    BY <2>2 DEF IsLoop
  <2>5. IsFollowed(after[m], redeemed[m], left)
    BY <1>5
  <2> HIDE DEF id, m
  <2>6. LeavesAtEnd(after[n], left) /\ after[m] \in HintRecords
    BY <1>1, <1>3, <2>2
  <2>7. IsFollowed(after[n], redeemed[n], left)
    BY <1>2, <2>1, <2>3, <2>4, <2>5, <2>6, StepIsFollowed
  <2> QED
    BY <2>2, <2>7
<1> HIDE DEF T
<1>6. \A n \in 0 .. N : n \in T
  BY <1>0, <1>4, <1>5, IntervalInduction
<1> QED
  BY <1>0, <1>6 DEF T

LEMMA LastOfSome ==
  ASSUME NEW L \in Nat, NEW S \in SUBSET (1 .. L), S # {}
  PROVE  Max(S) \in S /\ \A x \in S : Max(S) >= x
<1> DEFINE HasLast(n) == \E m \in S : \A x \in S : x <= n => m >= x
           T == {n \in 0 .. L : HasLast(n)}
<1>1. 0 \in T
  <2>1. PICK m : m \in S
    OBVIOUS
  <2>2. \A x \in S : x <= 0 => m >= x
    OBVIOUS
  <2>3. HasLast(0)
    BY <2>1, <2>2
  <2>4. 0 \in 0 .. L
    OBVIOUS
  <2> HIDE DEF HasLast
  <2> QED
    BY <2>3, <2>4
<1>2. ASSUME NEW n \in 1 .. L, n - 1 \in T PROVE n \in T
  <2>1. PICK m \in S : \A x \in S : x <= n - 1 => m >= x
    BY <1>2
  <2>2. \A x \in S : x <= n => x <= n - 1 \/ x = n
    OBVIOUS
  <2>3. CASE n \in S /\ n > m
    <3>1. \A x \in S : x <= n => n >= x
      OBVIOUS
    <3> QED
      BY <2>3, <3>1
  <2>4. CASE n \notin S
    <3>1. \A x \in S : x <= n => m >= x
      BY <2>1, <2>2, <2>4
    <3> QED
      BY <3>1
  <2>5. CASE ~(n > m)
    <3>1. m >= n
      BY <2>5
    <3>2. \A x \in S : x <= n => m >= x
      BY <2>1, <2>2, <3>1
    <3> QED
      BY <3>2
  <2> QED
    BY <2>3, <2>4, <2>5
<1>3. L \in T
  <2> HIDE DEF T
  <2>1. \A n \in 0 .. L : n \in T
    BY <1>1, <1>2, IntervalInduction
  <2> QED
    BY <2>1
<1>4. \E m \in S : \A x \in S : m >= x
  BY <1>3
<1> QED
  BY <1>4 DEF Max

LEMMA HintsLead ==
  ASSUME TypeOK, IndicesAreReached, NEW debt \in Nat, NEW maxIterations \in Nat
  PROVE  HintsLeadTheWay(GetRedemptionHints(debt, maxIterations), maxIterations)
<1> DEFINE first == FirstRedemptionHint
           N == WalkLength(first, maxIterations)
           after == HintsAfter(debt, first)
           h == after[N]
           left == h.remaining
           hints == HintsFrom(debt, first, h)
           redeemed == RedeemedAfter(debt - left, first, SyncedGlobal, TRUE)
           r == redeemed[N]
           L == Len(sortedCdps)
           healthy == {i \in 1 .. L : ICR(Viewed(sortedCdps[i])) >= MCR}
<1>0. sortedCdps \in Seq(CdpIds) /\ L \in Nat
  BY DEF TypeOK, ListTypeOK
<1>1. GetRedemptionHints(debt, maxIterations) = hints
  BY DEF GetRedemptionHints, GetRedemptionHintsFrom
<1>2. /\ hints.first = first /\ hints.partialColl = h.partialColl /\ hints.ok = h.ok
      /\ hints.partialNICR = h.partialNICR /\ hints.truncatedAmount = debt - left
  BY DEF HintsFrom
<1>3. RedeemedAsHinted(hints, maxIterations) = r
  <2> HIDE DEF h, first
  <2> QED
    BY <1>2 DEF RedeemedAsHinted
<1> SUFFICES ASSUME h.ok = TRUE, first > 0 PROVE HintsHold(hints, r)
  <2> HIDE DEF h, first, hints, r
  <2>1. HintsLeadTheWay(hints, maxIterations) <=> (hints.ok /\ hints.first > 0 => HintsHold(hints, r))
    BY <1>3 DEF HintsLeadTheWay
  <2> QED
    BY <1>1, <1>2, <2>1
<1>4. healthy # {} /\ first = Max(healthy)
  BY DEF FirstRedemptionHint
<1>5. first \in healthy /\ \A i \in healthy : first >= i
  <2>1. healthy \in SUBSET (1 .. L)
    OBVIOUS
  <2> HIDE DEF healthy, first, L
  <2> QED
    BY <1>0, <1>4, <2>1, LastOfSome
<1>6. first \in 1 .. L /\ first \in Nat
  <2> HIDE DEF first
  <2> QED
    BY <1>0, <1>5
<1>7. ValidFirstRedemption(first, SyncedGlobal)
  <2>1. ICR(Viewed(sortedCdps[first])) >= MCR
    <3> HIDE DEF first
    <3> QED
      BY <1>5
  <2>2. first < L => ICR(Viewed(sortedCdps[first + 1])) < MCR
    <3> HIDE DEF first
    <3> SUFFICES ASSUME first < L PROVE ICR(Viewed(sortedCdps[first + 1])) < MCR
      OBVIOUS
    <3>1. first + 1 \in 1 .. L /\ ~(first >= first + 1)
      BY <1>0, <1>6
    <3>2. ~(ICR(Viewed(sortedCdps[first + 1])) >= MCR)
      BY <1>5, <3>1
    <3>3. ICR(Viewed(sortedCdps[first + 1])) \in Nat /\ MCR \in Nat
      <4>1. sortedCdps[first + 1] \in CdpIds
        BY <1>0, <3>1
      <4> QED
        BY <4>1, ViewedIsCdp, ThresholdAssumption
    <3> QED
      BY <3>2, <3>3
  <2> HIDE DEF first
  <2> QED
    BY <2>1, <2>2 DEF ValidFirstRedemption, Viewed
<1>8. N \in 0 .. first
  <2> HIDE DEF first
  <2> QED
    BY <1>6 DEF WalkLength, Lesser
<1>9. IsWalk(after, debt, first) /\ IsLoop(redeemed, debt - left, first, SyncedGlobal, TRUE)
  BY <1>6, HintsAfterUnfolds, RedeemedAfterUnfolds
<1> HIDE DEF first, N, after, redeemed
<1>10. IsFollowed(h, r, left)
  BY <1>6, <1>8, <1>9, WalkIsFollowed
<1>11. h \in HintRecords
  BY <1>6, <1>8, <1>9, WalkType
<1>12. h.ended \in BOOLEAN
  BY <1>11 DEF HintRecords
<1> HIDE DEF h, r, left, hints
<1>13. r.partly # NoCdp => /\ h.partialColl = r.partly.coll
                           /\ h.partialNICR = ComputeNominalCR(r.partly.coll, r.partly.debt)
  BY <1>10, <1>12 DEF IsFollowed
<1>14. h.partialColl = 0 => r.partly = NoCdp /\ r.cancelled = FALSE
  BY <1>10, <1>12 DEF IsFollowed
<1> QED
  BY <1>2, <1>7, <1>13, <1>14 DEF HintsHold

(* Followed at once, in any reachable state, the hints of a redemption lead  *)
(* where they say: getRedemptionHints and redeemCollateral walk the list     *)
(* apart, the one on a view, the other syncing each CDP, and end with the    *)
(* same CDP in part, at the same collateral and ratio.                       *)
THEOREM HintsTheorem == Spec => []HintsMatchTheRedemption
<1> DEFINE IInv == LedgerInv /\ PoolMargin >= 0
<1>1. Init => IInv
  BY InitBooks
<1>2. IInv /\ [Next]_vars => IInv'
  BY BooksAreInvariant
<1>3. IInv => HintsMatchTheRedemption
  <2>1. RedemptionDebts \subseteq Nat /\ MaxIterations \subseteq Nat
    BY RedemptionInputAssumption
  <2>2. LedgerInv => TypeOK /\ IndicesAreReached
    BY DEF LedgerInv
  <2> QED
    BY <2>1, <2>2, HintsLead DEF HintsMatchTheRedemption
<1> QED
  BY <1>1, <1>2, <1>3, PTL DEF Spec

=============================================================================
