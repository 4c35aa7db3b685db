----------------------------- MODULE TwapProofs -----------------------------
(***************************************************************************)
(* That the observer follows the debt and that a transaction cannot move   *)
(* what is observed in its own block, for any period and any width of the  *)
(* accumulator.                                                            *)
(***************************************************************************)
EXTENDS TwapProperties, SumLemmas, SequenceTheorems, TLAPS

(* --- Arithmetic -------------------------------------------------------- *)

LEMMA ProductIsNat == ASSUME NEW a \in Nat, NEW b \in Nat PROVE a * b \in Nat
  OBVIOUS

LEMMA TimesZero == ASSUME NEW a \in Nat PROVE a * 0 = 0
  OBVIOUS

LEMMA ProductGrows ==
  ASSUME NEW a \in Nat, NEW b \in Nat, NEW c \in Nat PROVE a * b <= a * (b + c)
<1>1. a * (b + c) = a * b + a * c
  OBVIOUS
<1>2. a * c \in Nat /\ a * b \in Nat
  BY ProductIsNat
<1> QED
  BY <1>1, <1>2

LEMMA QuotientIsSmaller ==
  ASSUME NEW n \in Nat, NEW d \in Nat \ {0} PROVE n \div d \in 0 .. n
  OBVIOUS

(* --- The accumulator --------------------------------------------------- *)

(* What was observed is part of what has been accrued by now.                *)
ObservedIsAccrued == data.observerCumuVal <= LatestAccumulator

TwapInvariant == TrackedValueIsTheDebt /\ ObservedIsAccrued

LEMMA TypesOfData ==
  ASSUME TypeOK
  PROVE  /\ systemDebt \in Nat /\ valueToTrack \in Nat /\ now \in Nat
         /\ data.observerCumuVal \in 0 .. MAX_UINT128 /\ data.accumulator \in 0 .. MAX_UINT128
         /\ data.lastObserved \in 0 .. now /\ data.lastAccrued \in 0 .. now
         /\ data.lastObservedAverage \in 0 .. MAX_UINT128
  BY ObserverAssumption DEF TypeOK

LEMMA LatestIsNat == ASSUME TypeOK PROVE LatestAccumulator \in Nat
<1>1. now - data.lastAccrued \in Nat /\ valueToTrack \in Nat /\ data.accumulator \in Nat
  BY ObserverAssumption DEF TypeOK
<1> QED
  BY <1>1, ProductIsNat DEF LatestAccumulator

(* Accruing, and then tracking another value, changes nothing in this block. *)
LEMMA AccrualIsExact ==
  ASSUME TypeOK, now' = now, data'.accumulator = LatestAccumulator, data'.lastAccrued = now,
         valueToTrack' \in Nat
  PROVE  LatestAccumulator' = LatestAccumulator
<1>1. LatestAccumulator' = data'.accumulator + valueToTrack' * (now' - data'.lastAccrued)
  BY DEF LatestAccumulator
<1>2. now' - data'.lastAccrued = 0
  BY TypesOfData
<1>3. valueToTrack' * 0 = 0
  BY TimesZero
<1> QED
  BY <1>1, <1>2, <1>3, LatestIsNat

LEMMA AverageIsBounded ==
  ASSUME TypeOK, ObservedIsAccrued, AccumulatorFits, UpdateIsDue(data)
  PROVE  UpdatedAverage(data) \in 0 .. MAX_UINT128
<1>1. now - data.lastObserved \in Nat \ {0}
  BY TypesOfData, ObserverAssumption DEF UpdateIsDue
<1>2. LatestAccumulator - data.observerCumuVal \in 0 .. MAX_UINT128
  BY TypesOfData, LatestIsNat, ObserverAssumption DEF ObservedIsAccrued, AccumulatorFits
<1>3. UpdatedAverage(data) \in 0 .. (LatestAccumulator - data.observerCumuVal)
  BY <1>1, <1>2, QuotientIsSmaller DEF UpdatedAverage
<1> QED
  BY <1>2, <1>3, ObserverAssumption

(* --- What a call does to the observer ---------------------------------- *)

(* The data once the debt was accrued, and observed where that was due.      *)
Tracked ==
  [observerCumuVal |-> IF UpdateIsDue(data) THEN LatestAccumulator ELSE data.observerCumuVal,
   accumulator |-> LatestAccumulator,
   lastObserved |-> IF UpdateIsDue(data) THEN now ELSE data.lastObserved,
   lastAccrued |-> now,
   lastObservedAverage |-> IF UpdateIsDue(data) THEN UpdatedAverage(data)
                           ELSE data.lastObservedAverage]

(* A call either leaves the observer alone, and gives it up if it changes    *)
(* the debt, or tracks the new debt, or makes an observation that was due.   *)
ObserverIsLeft ==
  /\ UNCHANGED <<data, valueToTrack>>
  /\ twapDisabled => twapDisabled'
  /\ twapDisabled' \/ UNCHANGED systemDebt

DebtIsTracked ==
  /\ AccumulatorFits /\ UNCHANGED twapDisabled
  /\ data' = Tracked /\ valueToTrack' = systemDebt'

ObservationIsMade ==
  /\ AccumulatorFits /\ UpdateIsDue(data)
  /\ data' = Updated(data)
  /\ UNCHANGED <<valueToTrack, twapDisabled, systemDebt>>

LEMMA TrackedByEither ==
  ASSUME TypeOK
  PROVE  /\ UpdatedIfDue(Accrued(data)) = Tracked
         /\ UpdatedIfDue(Accrued(UpdatedIfDue(data))) = Tracked
<1> DEFINE Fields == [observerCumuVal: 0 .. MAX_UINT128, accumulator: 0 .. MAX_UINT128,
                      lastObserved: 0 .. now, lastAccrued: 0 .. now,
                      lastObservedAverage: 0 .. MAX_UINT128]
<1>1. data \in Fields /\ now \in Nat
  BY TypesOfData DEF TypeOK
<1>2. CASE UpdateIsDue(data)
  <2>1. ~ (now >= now + PERIOD)
    BY <1>1, ObserverAssumption
  <2>2. UpdatedIfDue(Accrued(data)) = Tracked
    BY <1>1, <1>2 DEF UpdatedIfDue, Updated, Accrued, UpdateIsDue, UpdatedAverage, Tracked
  <2>3. UpdatedIfDue(Accrued(UpdatedIfDue(data))) = Tracked
    BY <1>1, <1>2, <2>1
       DEF UpdatedIfDue, Updated, Accrued, UpdateIsDue, UpdatedAverage, Tracked
  <2> QED
    BY <2>2, <2>3
<1>3. CASE ~UpdateIsDue(data)
  BY <1>1, <1>3 DEF UpdatedIfDue, Accrued, UpdateIsDue, Tracked
<1> QED
  BY <1>2, <1>3

LEMMA NotDueYet ==
  ASSUME TypeOK, now = data.lastObserved PROVE UpdatedIfDue(data) = data
  BY TypesOfData, ObserverAssumption DEF UpdatedIfDue, UpdateIsDue

LEMMA CallEffect ==
  ASSUME TypeOK, Call
  PROVE  /\ now' = now /\ systemDebt' \in 0 .. MAX_UINT128 /\ twapDisabled' \in BOOLEAN
         /\ ObserverIsLeft \/ DebtIsTracked \/ ObservationIsMade
<1>1. twapDisabled \in BOOLEAN /\ systemDebt \in 0 .. MAX_UINT128 /\ MAX_UINT128 \in Nat
  BY ObserverAssumption DEF TypeOK
<1>2. ASSUME NEW debt, NEW d, TrackDebt(debt, d), systemDebt' = debt,
             \/ d = data
             \/ d = UpdatedIfDue(data) /\ ~twapDisabled
                  /\ (~AccumulatorFits => now = data.lastObserved)
      PROVE  twapDisabled' \in BOOLEAN /\ (ObserverIsLeft \/ DebtIsTracked)
  <2>1. CASE twapDisabled
    BY <2>1, <1>1, <1>2 DEF TrackDebt, ObserverIsLeft
  <2>2. CASE ~twapDisabled /\ AccumulatorFits
    BY <2>2, <1>1, <1>2, TrackedByEither DEF TrackDebt, DebtIsTracked
  <2>3. CASE ~twapDisabled /\ ~AccumulatorFits
    <3>1. data' = d /\ twapDisabled' = TRUE /\ UNCHANGED valueToTrack
      BY <2>3, <1>2 DEF TrackDebt
    <3>2. d = data
      BY <2>3, <1>2, NotDueYet
    <3> QED
      BY <3>1, <3>2 DEF ObserverIsLeft
  <2> QED
    BY <2>1, <2>2, <2>3
<1>3. ASSUME NEW amount \in Amounts, IncreaseSystemDebt(amount)
      PROVE  /\ now' = now /\ systemDebt' \in 0 .. MAX_UINT128 /\ twapDisabled' \in BOOLEAN
             /\ ObserverIsLeft \/ DebtIsTracked
  BY <1>1, <1>2, <1>3, ObserverAssumption DEF IncreaseSystemDebt
<1>4. ASSUME NEW amount \in Amounts, DecreaseSystemDebt(amount)
      PROVE  /\ now' = now /\ systemDebt' \in 0 .. MAX_UINT128 /\ twapDisabled' \in BOOLEAN
             /\ ObserverIsLeft \/ DebtIsTracked
  BY <1>1, <1>2, <1>4, ObserverAssumption DEF DecreaseSystemDebt
<1>5. ASSUME NEW amount \in Amounts, RedeemCollateral(amount)
      PROVE  /\ now' = now /\ systemDebt' \in 0 .. MAX_UINT128 /\ twapDisabled' \in BOOLEAN
             /\ ObserverIsLeft \/ DebtIsTracked
  <2> DEFINE d == IF ObserverIsUsed THEN DataAfterObserve ELSE data
  <2>1. /\ systemDebt >= amount /\ TrackDebt(systemDebt - amount, d)
        /\ systemDebt' = systemDebt - amount /\ now' = now
    BY <1>5 DEF RedeemCollateral
  <2>2. \/ d = data
        \/ d = UpdatedIfDue(data) /\ ~twapDisabled /\ (~AccumulatorFits => now = data.lastObserved)
    BY DEF ObserverIsUsed, DataAfterObserve, ObserveSucceeds
  <2> HIDE DEF d
  <2> QED
    BY <1>1, <1>2, <2>1, <2>2, ObserverAssumption
<1>6. CASE Update
  BY <1>1, <1>6 DEF Update, ObservationIsMade
<1>7. CASE Observe
  <2>1. CASE UpdateIsDue(data)
    <3>1. AccumulatorFits
      BY <1>7, <2>1, TypesOfData, ObserverAssumption DEF Observe, ObserveSucceeds, UpdateIsDue
    <3> QED
      BY <1>1, <1>7, <2>1, <3>1 DEF Observe, DataAfterObserve, UpdatedIfDue, ObservationIsMade
  <2>2. CASE ~UpdateIsDue(data)
    BY <1>1, <1>7, <2>2 DEF Observe, DataAfterObserve, UpdatedIfDue, ObserverIsLeft
  <2> QED
    BY <2>1, <2>2
<1> QED
  BY <1>3, <1>4, <1>5, <1>6, <1>7 DEF Call

(* --- The invariant ----------------------------------------------------- *)

(* A call accrues until now what it accrues, and adds nothing of this block. *)
LEMMA LatestIsSteady ==
  ASSUME TypeOK, now' = now, systemDebt' \in 0 .. MAX_UINT128,
         ObserverIsLeft \/ DebtIsTracked \/ ObservationIsMade
  PROVE  LatestAccumulator' = LatestAccumulator
<1>1. CASE ObserverIsLeft
  BY <1>1 DEF ObserverIsLeft, LatestAccumulator
<1>2. CASE DebtIsTracked
  <2>1. data'.accumulator = LatestAccumulator /\ data'.lastAccrued = now
    BY <1>2 DEF DebtIsTracked, Tracked
  <2>2. valueToTrack' \in Nat
    BY <1>2, ObserverAssumption DEF DebtIsTracked
  <2> QED
    BY <2>1, <2>2, AccrualIsExact
<1>3. CASE ObservationIsMade
  <2>1. data'.accumulator = data.accumulator /\ data'.lastAccrued = data.lastAccrued
    BY <1>3 DEF ObservationIsMade, Updated, TypeOK
  <2> QED
    BY <1>3, <2>1 DEF ObservationIsMade, LatestAccumulator
<1> QED
  BY <1>1, <1>2, <1>3

LEMMA CallKeepsInvariant ==
  ASSUME TwapInvariant, Call PROVE TwapInvariant'
<1>1. TypeOK /\ (~twapDisabled => valueToTrack = systemDebt) /\ ObservedIsAccrued
  BY DEF TwapInvariant, TrackedValueIsTheDebt
<1>2. /\ now' = now /\ systemDebt' \in 0 .. MAX_UINT128 /\ twapDisabled' \in BOOLEAN
      /\ ObserverIsLeft \/ DebtIsTracked \/ ObservationIsMade
  BY <1>1, CallEffect
<1>3. LatestAccumulator' = LatestAccumulator
  BY <1>1, <1>2, LatestIsSteady
<1>4. LatestAccumulator \in Nat
  BY <1>1, LatestIsNat
<1> DEFINE Fields == [observerCumuVal: 0 .. MAX_UINT128, accumulator: 0 .. MAX_UINT128,
                      lastObserved: 0 .. now, lastAccrued: 0 .. now,
                      lastObservedAverage: 0 .. MAX_UINT128]
<1>5. data \in Fields /\ now \in Nat /\ now \in 0 .. MaxTime
      /\ valueToTrack \in 0 .. MAX_UINT128 /\ MAX_UINT128 \in Nat
  BY <1>1, TypesOfData, ObserverAssumption DEF TypeOK
<1>6. UpdateIsDue(data) /\ AccumulatorFits => UpdatedAverage(data) \in 0 .. MAX_UINT128
  BY <1>1, AverageIsBounded
<1>7. AccumulatorFits => LatestAccumulator \in 0 .. MAX_UINT128
  BY <1>4, <1>5 DEF AccumulatorFits
<1>8. CASE ObserverIsLeft
  <2>1. TypeOK'
    BY <1>2, <1>5, <1>8 DEF ObserverIsLeft, TypeOK
  <2> QED
    BY <2>1, <1>1, <1>3, <1>8 DEF ObserverIsLeft, TwapInvariant, TrackedValueIsTheDebt,
                                  ObservedIsAccrued
<1>9. CASE DebtIsTracked
  <2>1. data' \in Fields
    BY <1>5, <1>6, <1>7, <1>9 DEF DebtIsTracked, Tracked
  <2>2. data'.observerCumuVal <= LatestAccumulator
    BY <1>1, <1>4, <1>9 DEF DebtIsTracked, Tracked, ObservedIsAccrued
  <2>3. TypeOK'
    BY <1>2, <1>5, <1>9, <2>1 DEF DebtIsTracked, TypeOK
  <2> QED
    BY <1>3, <1>9, <2>2, <2>3 DEF DebtIsTracked, TwapInvariant, TrackedValueIsTheDebt,
                                  ObservedIsAccrued
<1>10. CASE ObservationIsMade
  <2>1. data' \in Fields
    <3>1. UpdatedAverage(data) \in 0 .. MAX_UINT128 /\ LatestAccumulator \in 0 .. MAX_UINT128
      BY <1>6, <1>7, <1>10 DEF ObservationIsMade
    <3>2. now \in 0 .. now
      BY <1>5
    <3>3. data' = [data EXCEPT !.lastObservedAverage = UpdatedAverage(data),
                               !.observerCumuVal = LatestAccumulator, !.lastObserved = now]
      BY <1>10 DEF ObservationIsMade, Updated
    <3> QED
      BY <1>5, <3>1, <3>2, <3>3
  <2>2. data'.observerCumuVal = LatestAccumulator
    BY <1>5, <1>10 DEF ObservationIsMade, Updated
  <2>3. TypeOK'
    BY <1>2, <1>5, <1>10, <2>1 DEF ObservationIsMade, TypeOK
  <2> QED
    BY <1>1, <1>3, <1>4, <1>10, <2>2, <2>3 DEF ObservationIsMade, TwapInvariant,
                                  TrackedValueIsTheDebt, ObservedIsAccrued
<1> QED
  BY <1>2, <1>8, <1>9, <1>10

LEMMA TickKeepsInvariant ==
  ASSUME TwapInvariant, NEW seconds \in TimeSteps, Tick(seconds) PROVE TwapInvariant'
<1>1. TypeOK /\ (~twapDisabled => valueToTrack = systemDebt) /\ ObservedIsAccrued
  BY DEF TwapInvariant, TrackedValueIsTheDebt
<1>2. /\ now' = now + seconds /\ now' <= MaxTime /\ seconds \in Nat
      /\ UNCHANGED <<systemDebt, data, valueToTrack, twapDisabled>>
  BY ObserverAssumption DEF Tick, observerVars
<1>3. now \in Nat /\ now - data.lastAccrued \in Nat /\ valueToTrack \in Nat
      /\ data.accumulator \in Nat /\ data.observerCumuVal \in Nat
  BY <1>1, TypesOfData, ObserverAssumption
<1>4. TypeOK'
  BY <1>1, <1>2, <1>3, ObserverAssumption DEF TypeOK
<1>5. /\ LatestAccumulator \in Nat /\ LatestAccumulator' \in Nat
      /\ LatestAccumulator <= LatestAccumulator'
  <2>1. now' - data.lastAccrued = (now - data.lastAccrued) + seconds
    BY <1>1, <1>2, <1>3, TypesOfData, ObserverAssumption
  <2>2. valueToTrack * (now - data.lastAccrued)
          <= valueToTrack * ((now - data.lastAccrued) + seconds)
    BY <1>2, <1>3, ProductGrows
  <2>3. valueToTrack * (now - data.lastAccrued) \in Nat
        /\ valueToTrack * ((now - data.lastAccrued) + seconds) \in Nat
    BY <1>2, <1>3, ProductIsNat
  <2> DEFINE before == valueToTrack * (now - data.lastAccrued)
             after == valueToTrack * ((now - data.lastAccrued) + seconds)
  <2>4. LatestAccumulator = data.accumulator + before
        /\ LatestAccumulator' = data.accumulator + after
    BY <1>2, <2>1 DEF LatestAccumulator
  <2> HIDE DEF before, after
  <2> QED
    BY <1>3, <2>2, <2>3, <2>4 DEF before, after
<1>6. ObservedIsAccrued'
  BY <1>1, <1>2, <1>3, <1>5 DEF ObservedIsAccrued
<1> QED
  BY <1>1, <1>2, <1>4, <1>6 DEF TwapInvariant, TrackedValueIsTheDebt

LEMMA InitialInvariant == ASSUME Init PROVE TwapInvariant
<1>1. TypeOK
  <2>1. 0 \in 0 .. MAX_UINT128 /\ 0 \in 0 .. MaxTime /\ 0 \in 0 .. 0
    BY ObserverAssumption
  <2>2. data \in [observerCumuVal: 0 .. MAX_UINT128, accumulator: 0 .. MAX_UINT128,
                  lastObserved: 0 .. 0, lastAccrued: 0 .. 0,
                  lastObservedAverage: 0 .. MAX_UINT128]
    BY <2>1 DEF Init
  <2> QED
    BY <2>1, <2>2 DEF Init, TypeOK
<1>2. LatestAccumulator \in Nat /\ data.observerCumuVal = 0
  BY <1>1, LatestIsNat DEF Init
<1> QED
  BY <1>1, <1>2 DEF Init, TwapInvariant, TrackedValueIsTheDebt, ObservedIsAccrued

LEMMA InvariantIsKept ==
  ASSUME TwapInvariant, [WatchedCall \/ WatchedTick]_watched PROVE TwapInvariant'
<1>1. CASE WatchedCall
  BY <1>1, CallKeepsInvariant DEF WatchedCall
<1>2. CASE WatchedTick
  BY <1>2, TickKeepsInvariant DEF WatchedTick
<1>3. CASE UNCHANGED watched
  BY <1>3 DEF watched, vars, observerVars, TwapInvariant, TrackedValueIsTheDebt, TypeOK,
              ObservedIsAccrued, LatestAccumulator
<1> QED
  BY <1>1, <1>2, <1>3

(* Until the observer is given up it follows the debt, and neither an        *)
(* average nor the accumulator leaves its width: the revert that gives it up *)
(* comes first.  The invariant adds that what was observed is part of what   *)
(* has been accrued, without which an average might be negative.             *)
THEOREM TrackedTheorem == WatchedSpec => []TrackedValueIsTheDebt
<1>1. WatchedInit => TwapInvariant
  BY InitialInvariant DEF WatchedInit
<1>2. TwapInvariant /\ [WatchedCall \/ WatchedTick]_watched => TwapInvariant'
  BY InvariantIsKept
<1>3. TwapInvariant => TrackedValueIsTheDebt
  BY DEF TwapInvariant
<1> QED
  BY <1>1, <1>2, <1>3, PTL DEF WatchedSpec

(* --- Within a block ---------------------------------------------------- *)

LEMMA ObservedIsSteady ==
  ASSUME TypeOK, now' = now, ~twapDisabled', ObserveSucceeds, systemDebt' \in 0 .. MAX_UINT128,
         ObserverIsLeft \/ DebtIsTracked \/ ObservationIsMade
  PROVE  ObserveSucceeds' /\ Observed' = Observed
<1>1. LatestAccumulator' = LatestAccumulator
  BY LatestIsSteady
<1>2. CASE ObserverIsLeft
  BY <1>1, <1>2 DEF ObserverIsLeft, ObserveSucceeds, AccumulatorFits, Observed, UpdateIsDue,
                    UpdatedAverage, WeightedMean
<1>3. CASE (DebtIsTracked \/ ObservationIsMade) /\ UpdateIsDue(data)
  <2>1. /\ data'.lastObserved = now /\ data'.lastObservedAverage = UpdatedAverage(data)
        /\ AccumulatorFits
    <3>1. CASE DebtIsTracked
      BY <1>3, <3>1 DEF DebtIsTracked, Tracked
    <3>2. CASE ObservationIsMade
      <4>1. AccumulatorFits /\ data' = Updated(data)
        BY <3>2 DEF ObservationIsMade
      <4>2. DOMAIN data = {"observerCumuVal", "accumulator", "lastObserved", "lastAccrued",
                           "lastObservedAverage"}
        BY DEF TypeOK
      <4>3. data'.lastObserved = now /\ data'.lastObservedAverage = UpdatedAverage(data)
        BY <4>1, <4>2 DEF Updated
      <4> QED
        BY <4>1, <4>3
    <3> QED
      BY <1>3, <3>1, <3>2
  <2>2. now - data.lastObserved # 0
    BY <1>3, TypesOfData, ObserverAssumption DEF UpdateIsDue
  <2>3. Observed = UpdatedAverage(data)
    BY <1>3, <2>2 DEF Observed
  <2>4. Observed' = UpdatedAverage(data)
    BY <2>1, TypesOfData DEF Observed
  <2> QED
    BY <1>1, <2>1, <2>3, <2>4 DEF ObserveSucceeds, AccumulatorFits
<1>4. CASE DebtIsTracked /\ ~UpdateIsDue(data)
  <2>1. /\ data'.lastObserved = data.lastObserved
        /\ data'.lastObservedAverage = data.lastObservedAverage
        /\ data'.observerCumuVal = data.observerCumuVal
        /\ AccumulatorFits
    BY <1>4 DEF DebtIsTracked, Tracked
  <2>2. UpdatedAverage(data)' = UpdatedAverage(data) /\ UpdateIsDue(data)' = UpdateIsDue(data)
    BY <1>1, <2>1 DEF UpdatedAverage, UpdateIsDue
  <2> QED
    BY <1>1, <2>1, <2>2 DEF Observed, WeightedMean, ObserveSucceeds, AccumulatorFits
<1> QED
  BY <1>2, <1>3, <1>4 DEF ObservationIsMade

(* No transaction moves what a redemption of the same block is priced by,    *)
(* whatever it borrows and repays.  What an observation would answer is      *)
(* a function of what has been accrued by now, and accruing again in the     *)
(* same second adds nothing.                                                 *)
THEOREM SteadyTheorem == WatchedSpec => ObservedDebtIsSteadyWithinABlock
<1> DEFINE Steady ==
      now' = now /\ ~twapDisabled' /\ ObserveSucceeds => ObserveSucceeds' /\ Observed' = Observed
<1>1. TwapInvariant /\ [WatchedCall \/ WatchedTick]_watched => [Steady]_watched
  <2> SUFFICES ASSUME TwapInvariant, WatchedCall \/ WatchedTick PROVE Steady
    OBVIOUS
  <2>1. TypeOK
    BY DEF TwapInvariant, TrackedValueIsTheDebt
  <2>2. CASE WatchedCall
    BY <2>1, <2>2, CallEffect, ObservedIsSteady DEF WatchedCall
  <2>3. CASE WatchedTick
    BY <2>1, <2>3, TypesOfData, ObserverAssumption DEF WatchedTick, Tick
  <2> QED
    BY <2>2, <2>3
<1>2. WatchedInit => TwapInvariant
  BY InitialInvariant DEF WatchedInit
<1>3. TwapInvariant /\ [WatchedCall \/ WatchedTick]_watched => TwapInvariant'
  BY InvariantIsKept
<1> QED
  BY <1>1, <1>2, <1>3, PTL DEF WatchedSpec, ObservedDebtIsSteadyWithinABlock

(* --- The average, second by second ------------------------------------- *)

\* The record has an entry for every second until the observer is given up, and
\* what was accrued since the last observation is their sum.
EverySecondIsAccrued ==
  /\ held \in Seq(Nat)
  /\ ~twapDisabled =>
       /\ Len(held) = now
       /\ LatestAccumulator - data.observerCumuVal = HeldBetween(data.lastObserved, now)

AccrualInvariant == TwapInvariant /\ EverySecondIsAccrued

LEMMA HeldIsInt ==
  ASSUME TypeOK, held \in Seq(Nat), Len(held) = now
  PROVE  /\ HeldBetween(data.lastObserved, now) \in Int
         /\ HeldBetween(now, now) = 0
         /\ \A i \in data.lastObserved + 1 .. now : held[i] \in Int
<1>1. data.lastObserved \in Nat /\ now \in Nat
  BY TypesOfData
<1>2. \A i \in data.lastObserved + 1 .. now : held[i] \in Int
  BY <1>1
<1>3. IsFiniteSet(data.lastObserved + 1 .. now)
  BY <1>1, FS_Interval
<1>4. now + 1 .. now = {}
  BY <1>1
<1> QED
  BY <1>2, <1>3, <1>4, SumIsInt, SumOfNone DEF HeldBetween

\* Each second in which the debt stays as it is adds it once.
LEMMA SumOfSeconds ==
  ASSUME TypeOK, held \in Seq(Nat), Len(held) = now, NEW seconds \in Nat, NEW f,
         \A i \in 1 .. now : f[i] = held[i],
         \A i \in now + 1 .. now + seconds : f[i] = systemDebt
  PROVE  SumFunctionOnSet(f, data.lastObserved + 1 .. now + seconds)
           = HeldBetween(data.lastObserved, now) + systemDebt * seconds
<1> DEFINE a == data.lastObserved
           b == now
           v == systemDebt
<1>1. /\ a \in Nat /\ b \in Nat /\ a <= b /\ v \in Int
      /\ \A i \in a + 1 .. b : f[i] \in Int /\ f[i] = held[i]
      /\ \A i \in b + 1 .. b + seconds : f[i] = v
  <2>1. /\ a \in Nat /\ b \in Nat /\ a <= b /\ v \in Int
    BY TypesOfData
  <2>2. \A i \in a + 1 .. b : f[i] = held[i] /\ held[i] \in Int
    BY <2>1, HeldIsInt
  <2> QED
    BY <2>1, <2>2
<1>2. SumFunctionOnSet(f, a + 1 .. b) = HeldBetween(a, b)
  <2>1. IsFiniteSet(a + 1 .. b)
    BY <1>1, FS_Interval
  <2> QED
    BY <1>1, <2>1, SumsAgree DEF HeldBetween
<1> HIDE DEF a, b, v
<1> DEFINE S(n) == SumFunctionOnSet(f, a + 1 .. b + n)
           T == {n \in Nat : n <= seconds => S(n) = S(0) + v * n}
<1>3. ASSUME NEW n \in 0 .. seconds
      PROVE  IsFiniteSet(a + 1 .. b + n) /\ \A i \in a + 1 .. b + n : f[i] \in Int
  <2>1. a + 1 \in Int /\ b + n \in Int
    BY <1>1
  <2>2. IsFiniteSet(a + 1 .. b + n)
    BY <2>1, FS_Interval
  <2>3. ASSUME NEW i \in a + 1 .. b + n PROVE f[i] \in Int
    <3>1. i \in a + 1 .. b \/ i \in b + 1 .. b + seconds
      BY <1>1
    <3> QED
      BY <1>1, <3>1
  <2> QED
    BY <2>2, <2>3
<1>4. ASSUME NEW n \in 0 .. seconds PROVE S(n) \in Int
  BY <1>1, <1>3, SumIsInt
<1>5. 0 \in T
  <2>1. S(0) \in Int
    <3>1. 0 \in 0 .. seconds
      BY <1>1
    <3> HIDE DEF S
    <3> QED
      BY <1>4, <3>1
  <2> HIDE DEF S
  <2> QED
    BY <1>1, <2>1
<1>6. ASSUME NEW n \in 1 .. seconds, n - 1 \in T PROVE n \in T
  <2>1. b + n \in a + 1 .. b + n /\ b + n \in b + 1 .. b + seconds
        /\ n - 1 \in 0 .. seconds /\ n \in 0 .. seconds
    BY <1>1
  <2>2. (a + 1 .. b + n) \ {b + n} = a + 1 .. b + (n - 1)
    BY <1>1
  <2>3. S(n) = f[b + n] + S(n - 1)
    <3> DEFINE Q == a + 1 .. b + n
    <3>1. IsFiniteSet(Q) /\ (\A i \in Q : f[i] \in Int) /\ b + n \in Q
      BY <1>1, <1>3, <2>1
    <3>2. Q \ {b + n} = a + 1 .. b + (n - 1)
      BY <2>2
    <3>3. SumFunctionOnSet(f, Q) = f[b + n] + SumFunctionOnSet(f, Q \ {b + n})
      <4> HIDE DEF Q
      <4> QED
        BY <3>1, SumWithout
    <3> QED
      BY <3>2, <3>3
  <2>4. f[b + n] = v
    BY <1>1, <2>1
  <2>5. S(n - 1) = S(0) + v * (n - 1)
    BY <1>6
  <2>6. v * (n - 1) = v * n - v /\ v * n \in Int
    BY <1>1
  <2>7. S(0) \in Int /\ S(n - 1) \in Int
    <3>1. 0 \in 0 .. seconds /\ n - 1 \in 0 .. seconds
      BY <1>1
    <3> HIDE DEF S
    <3> QED
      BY <1>4, <3>1
  <2> HIDE DEF S
  <2> QED
    BY <2>3, <1>1, <2>4, <2>5, <2>6, <2>7
<1>7. \A n \in 0 .. seconds : n \in T
  <2> HIDE DEF T
  <2> QED
    BY <1>5, <1>6, IntervalInduction
<1>8. S(seconds) = S(0) + v * seconds
  BY <1>7
<1>9. b + 0 = b
  BY <1>1
<1> QED
  BY <1>2, <1>8, <1>9 DEF a, b, v

LEMMA CallKeepsAccrual ==
  ASSUME AccrualInvariant, WatchedCall PROVE EverySecondIsAccrued'
<1>1. TypeOK /\ held \in Seq(Nat) /\ held' = held
  BY DEF AccrualInvariant, TwapInvariant, TrackedValueIsTheDebt, EverySecondIsAccrued,
         WatchedCall
<1>2. /\ now' = now /\ systemDebt' \in 0 .. MAX_UINT128 /\ twapDisabled' \in BOOLEAN
      /\ ObserverIsLeft \/ DebtIsTracked \/ ObservationIsMade
  BY <1>1, CallEffect DEF WatchedCall
<1>3. LatestAccumulator' = LatestAccumulator /\ LatestAccumulator \in Int
  BY <1>1, <1>2, LatestIsSteady, LatestIsNat
<1> SUFFICES ASSUME ~twapDisabled'
             PROVE  /\ Len(held) = now
                    /\ LatestAccumulator - data'.observerCumuVal
                         = HeldBetween(data'.lastObserved, now)
  BY <1>1, <1>2, <1>3 DEF EverySecondIsAccrued, HeldBetween
<1>4. ~twapDisabled
  BY <1>2 DEF ObserverIsLeft, DebtIsTracked, ObservationIsMade
<1>5. /\ Len(held) = now
      /\ LatestAccumulator - data.observerCumuVal = HeldBetween(data.lastObserved, now)
  BY <1>4 DEF AccrualInvariant, EverySecondIsAccrued
<1>6. \/ /\ data'.observerCumuVal = data.observerCumuVal
         /\ data'.lastObserved = data.lastObserved
      \/ data'.observerCumuVal = LatestAccumulator /\ data'.lastObserved = now
  <2>1. CASE ObserverIsLeft
    BY <2>1 DEF ObserverIsLeft
  <2>2. CASE DebtIsTracked
    BY <2>2 DEF DebtIsTracked, Tracked
  <2>3. CASE ObservationIsMade
    <3>1. DOMAIN data = {"observerCumuVal", "accumulator", "lastObserved", "lastAccrued",
                         "lastObservedAverage"}
      BY <1>1 DEF TypeOK
    <3> QED
      BY <2>3, <3>1 DEF ObservationIsMade, Updated
  <2> QED
    BY <1>2, <2>1, <2>2, <2>3
<1>7. HeldBetween(now, now) = 0
  BY <1>1, <1>5, HeldIsInt
<1> QED
  BY <1>3, <1>5, <1>6, <1>7

LEMMA TickKeepsAccrual ==
  ASSUME AccrualInvariant, WatchedTick PROVE EverySecondIsAccrued'
<1>1. TypeOK /\ held \in Seq(Nat) /\ (~twapDisabled => valueToTrack = systemDebt)
  BY DEF AccrualInvariant, TwapInvariant, TrackedValueIsTheDebt, EverySecondIsAccrued
<1>2. PICK seconds \in TimeSteps :
        /\ Tick(seconds)
        /\ held' = IF twapDisabled THEN held ELSE held \o [i \in 1 .. seconds |-> systemDebt]
  BY DEF WatchedTick
<1>3. /\ now' = now + seconds /\ seconds \in Nat /\ systemDebt \in Nat
      /\ UNCHANGED <<data, valueToTrack, twapDisabled>>
  BY <1>1, <1>2, TypesOfData, ObserverAssumption DEF Tick, observerVars
<1>4. CASE twapDisabled
  BY <1>1, <1>2, <1>3, <1>4 DEF EverySecondIsAccrued
<1>5. CASE ~twapDisabled
  <2> DEFINE more == [i \in 1 .. seconds |-> systemDebt]
  <2>1. /\ Len(held) = now
        /\ LatestAccumulator - data.observerCumuVal = HeldBetween(data.lastObserved, now)
    BY <1>5 DEF AccrualInvariant, EverySecondIsAccrued
  <2>2. more \in Seq(Nat) /\ Len(more) = seconds /\ \A i \in 1 .. seconds : more[i] = systemDebt
    BY <1>3
  <2>3. held' = held \o more
    BY <1>2, <1>5
  <2> HIDE DEF more
  <2>4. /\ held' \in Seq(Nat) /\ Len(held') = now + seconds
        /\ \A i \in 1 .. now : held'[i] = held[i]
        /\ \A i \in now + 1 .. now + seconds : held'[i] = systemDebt
    <3>1. now \in Nat /\ Len(held) = now
      BY <1>1, <2>1, TypesOfData
    <3>2. /\ held' \in Seq(Nat) /\ Len(held') = Len(held) + Len(more)
          /\ \A i \in 1 .. Len(held) + Len(more) :
               held'[i] = IF i <= Len(held) THEN held[i] ELSE more[i - Len(held)]
      BY <1>1, <2>2, <2>3, ConcatProperties
    <3>3. \A i \in now + 1 .. now + seconds : held'[i] = systemDebt
      <4> SUFFICES ASSUME NEW i \in now + 1 .. now + seconds PROVE held'[i] = systemDebt
        OBVIOUS
      <4>1. i - now \in 1 .. seconds /\ i \in 1 .. now + seconds /\ ~(i <= now)
        BY <1>3, <3>1
      <4> QED
        BY <2>2, <3>1, <3>2, <4>1
    <3>4. \A i \in 1 .. now : held'[i] = held[i]
      BY <1>3, <2>2, <3>1, <3>2
    <3> QED
      BY <2>2, <3>1, <3>2, <3>3, <3>4
  <2>5. /\ data.lastObserved \in Nat /\ now \in Nat /\ data.lastObserved <= now
        /\ systemDebt \in Int /\ valueToTrack \in Nat
    BY <1>1, TypesOfData
  <2>6. SumFunctionOnSet(held', data.lastObserved + 1 .. now + seconds)
          = HeldBetween(data.lastObserved, now) + systemDebt * seconds
    <3> DEFINE record == held'
    <3>1. /\ \A i \in 1 .. now : record[i] = held[i]
          /\ \A i \in now + 1 .. now + seconds : record[i] = systemDebt
      BY <2>4
    <3> HIDE DEF record
    <3>2. SumFunctionOnSet(record, data.lastObserved + 1 .. now + seconds)
            = HeldBetween(data.lastObserved, now) + systemDebt * seconds
      BY <1>1, <1>3, <2>1, <3>1, SumOfSeconds
    <3> QED
      BY <3>2 DEF record
  <2>7. LatestAccumulator' = LatestAccumulator + systemDebt * seconds
    <3>1. /\ data.lastAccrued \in Nat /\ data.accumulator \in Nat
      BY <1>1, TypesOfData, ObserverAssumption
    <3>2. now' - data.lastAccrued = (now - data.lastAccrued) + seconds
      BY <1>3, <2>5, <3>1
    <3>3. valueToTrack = systemDebt
      BY <1>1, <1>5
    <3> DEFINE passed == now - data.lastAccrued
    <3>4. passed \in Int
      BY <2>5, <3>1
    <3>5. LatestAccumulator = data.accumulator + systemDebt * passed
          /\ LatestAccumulator' = data.accumulator + systemDebt * (passed + seconds)
      BY <1>3, <3>2, <3>3 DEF LatestAccumulator
    <3> HIDE DEF passed
    <3>6. systemDebt * (passed + seconds) = systemDebt * passed + systemDebt * seconds
          /\ systemDebt * passed \in Int /\ systemDebt * seconds \in Int
      BY <1>3, <2>5, <3>4
    <3> DEFINE before == systemDebt * passed
               added == systemDebt * seconds
               total == systemDebt * (passed + seconds)
    <3>7. before \in Int /\ added \in Int /\ total = before + added
          /\ LatestAccumulator = data.accumulator + before
          /\ LatestAccumulator' = data.accumulator + total
      BY <3>5, <3>6
    <3> HIDE DEF before, added, total
    <3>8. LatestAccumulator' = LatestAccumulator + added
      BY <3>1, <3>7
    <3> QED
      BY <3>8 DEF added
  <2>8. LatestAccumulator' - data.observerCumuVal = HeldBetween(data.lastObserved, now) + systemDebt * seconds
    <3>1. LatestAccumulator \in Int /\ data.observerCumuVal \in Int
      BY <1>1, LatestIsNat, TypesOfData, ObserverAssumption
    <3>2. systemDebt * seconds \in Int
      BY <1>3
    <3> DEFINE added == systemDebt * seconds
    <3>3. added \in Int /\ LatestAccumulator' = LatestAccumulator + added
      BY <2>7, <3>2
    <3> HIDE DEF added
    <3>4. LatestAccumulator' - data.observerCumuVal = HeldBetween(data.lastObserved, now) + added
      BY <2>1, <3>1, <3>3
    <3> QED
      BY <3>4 DEF added
  <2>9. HeldBetween(data.lastObserved, now)'
           = HeldBetween(data.lastObserved, now) + systemDebt * seconds
    BY <1>3, <2>6 DEF HeldBetween
  <2> QED
    BY <1>3, <2>4, <2>8, <2>9 DEF EverySecondIsAccrued
<1> QED
  BY <1>4, <1>5

LEMMA InitialAccrual == ASSUME WatchedInit PROVE AccrualInvariant
<1>1. TwapInvariant
  BY InitialInvariant DEF WatchedInit
<1>2. held = <<>> /\ now = 0 /\ data.lastObserved = 0 /\ data.observerCumuVal = 0
      /\ data.accumulator = 0 /\ data.lastAccrued = 0 /\ valueToTrack = 0
  BY DEF WatchedInit, Init
<1>3. LatestAccumulator = 0
  BY <1>2 DEF LatestAccumulator
<1>4. held \in Seq(Nat) /\ Len(held) = now
  BY <1>2
<1>5. HeldBetween(now, now) = 0
  BY <1>1, <1>4, HeldIsInt DEF TwapInvariant, TrackedValueIsTheDebt
<1> QED
  BY <1>1, <1>2, <1>3, <1>4, <1>5 DEF AccrualInvariant, EverySecondIsAccrued

(* The average an observation makes is that of the debt second by second     *)
(* since the one before: no second is missed and none is counted twice,      *)
(* however changes of the debt, updates and redemptions fall between the     *)
(* ticks of the clock.  The argument is an induction over the seconds of a   *)
(* tick, within the induction over the steps.                                *)
THEOREM AverageTheorem == WatchedSpec => []AverageIsTimeWeighted
<1>1. WatchedInit => AccrualInvariant
  BY InitialAccrual
<1>2. AccrualInvariant /\ [WatchedCall \/ WatchedTick]_watched => AccrualInvariant'
  <2> SUFFICES ASSUME AccrualInvariant, [WatchedCall \/ WatchedTick]_watched
               PROVE  AccrualInvariant'
    OBVIOUS
  <2>1. TwapInvariant'
    BY InvariantIsKept DEF AccrualInvariant
  <2>2. CASE WatchedCall
    BY <2>1, <2>2, CallKeepsAccrual DEF AccrualInvariant
  <2>3. CASE WatchedTick
    BY <2>1, <2>3, TickKeepsAccrual DEF AccrualInvariant
  <2>4. CASE UNCHANGED watched
    BY <2>1, <2>4 DEF AccrualInvariant, EverySecondIsAccrued, watched, vars, observerVars,
                      LatestAccumulator, HeldBetween
  <2> QED
    BY <2>2, <2>3, <2>4
<1>3. AccrualInvariant => AverageIsTimeWeighted
  BY DEF AccrualInvariant, EverySecondIsAccrued, AverageIsTimeWeighted
<1> QED
  BY <1>1, <1>2, <1>3, PTL DEF WatchedSpec

=============================================================================
