------------------------ MODULE TwapWeightedObserver ------------------------
(***************************************************************************)
(* Dependencies/TwapWeightedObserver.sol, as ActivePool.sol uses it to     *)
(* smooth the debt of the system over a week, and CdpManager.sol to charge *)
(* redemptions by the smoothed debt.                                       *)
(*                                                                         *)
(* The arithmetic of the observer is checked, in 128 bits.  ActivePool     *)
(* catches the revert and gives the observer up, for good, rather than     *)
(* have every change of the debt revert.                                   *)
(***************************************************************************)
EXTENDS Integers, Sequences

CONSTANTS
  PERIOD,          \* 7 days
  MAX_UINT128,     \* what the accumulator and the debt may reach
  Amounts,         \* inputs: how much the debt grows and shrinks by
  TimeSteps,       \* how far the block timestamp may move at once
  MaxTime          \* bound: the last block timestamp

ASSUME ObserverAssumption ==
  /\ PERIOD \in Nat \ {0} /\ MAX_UINT128 \in Nat /\ MaxTime \in Nat
  /\ Amounts \subseteq Nat \ {0} /\ TimeSteps \subseteq Nat \ {0}

VARIABLES
  systemDebt,      \* ActivePool
  data,            \* the PackedData of the observer
  valueToTrack,
  twapDisabled,
  now

observerVars == <<data, valueToTrack, twapDisabled>>
vars == <<systemDebt, observerVars, now>>

TypeOK ==
  /\ systemDebt \in 0 .. MAX_UINT128 /\ valueToTrack \in 0 .. MAX_UINT128
  /\ data \in [observerCumuVal: 0 .. MAX_UINT128, accumulator: 0 .. MAX_UINT128,
               lastObserved: 0 .. now, lastAccrued: 0 .. now,
               lastObservedAverage: 0 .. MAX_UINT128]
  /\ twapDisabled \in BOOLEAN
  /\ now \in 0 .. MaxTime

\* ActivePool deploys the observer with an initial value of zero.
Init ==
  /\ systemDebt = 0
  /\ data = [observerCumuVal |-> 0, accumulator |-> 0, lastObserved |-> 0,
             lastAccrued |-> 0, lastObservedAverage |-> 0]
  /\ valueToTrack = 0 /\ twapDisabled = FALSE /\ now = 0

-----------------------------------------------------------------------------
(* The observer.                                                           *)

\* getLatestAccumulator, which reverts beyond 128 bits
LatestAccumulator == data.accumulator + valueToTrack * (now - data.lastAccrued)

AccumulatorFits == LatestAccumulator <= MAX_UINT128

\* Mutant: what was accrued is not marked as accrued.
AccruedAgain(d) == [d EXCEPT !.accumulator = LatestAccumulator]

\* _setValue, up to the new value: the old one is accrued until now.
Accrued(d) == [d EXCEPT !.accumulator = LatestAccumulator, !.lastAccrued = now]

\* _calcUpdatedAvg
UpdatedAverage(d) == (LatestAccumulator - d.observerCumuVal) \div (now - d.lastObserved)

\* _checkUpdatePeriod
UpdateIsDue(d) == now >= d.lastObserved + PERIOD

\* _update
Updated(d) ==
  [d EXCEPT !.lastObservedAverage = UpdatedAverage(d),
            !.observerCumuVal = LatestAccumulator,
            !.lastObserved = now]

\* The data after update
UpdatedIfDue(d) == IF UpdateIsDue(d) THEN Updated(d) ELSE d

\* Mutant: a change is weighed at once, with the time since the last observation.
WeightedMeanOfTracked(average, weight) ==
  (data.lastObservedAverage * (PERIOD - weight) + valueToTrack * weight) \div PERIOD

\* The last average, giving way to the present one as the period runs out
WeightedMean(average, weight) ==
  (data.lastObservedAverage * (PERIOD - weight) + average * weight) \div PERIOD

\* What observe returns, when it does not revert
Observed ==
  LET futureWeight == now - data.lastObserved
  IN IF futureWeight = 0 THEN data.lastObservedAverage
     ELSE IF UpdateIsDue(data) THEN UpdatedAverage(data)
     ELSE WeightedMean(UpdatedAverage(data), futureWeight)

\* observe reverts only where it looks at the accumulator.
ObserveSucceeds == now = data.lastObserved \/ AccumulatorFits

\* What observe writes
DataAfterObserve == UpdatedIfDue(data)

-----------------------------------------------------------------------------
(* ActivePool.                                                             *)

\* Mutant: the tracked value lags one change behind.
TrackDebtLate(debt, d) ==
  IF twapDisabled THEN data' = d /\ UNCHANGED <<valueToTrack, twapDisabled>>
  ELSE IF AccumulatorFits
  THEN /\ data' = UpdatedIfDue(Accrued(d))
       /\ valueToTrack' = systemDebt
       /\ UNCHANGED twapDisabled
  ELSE data' = d /\ twapDisabled' = TRUE /\ UNCHANGED valueToTrack

\* The new debt is tracked from now on, by setValueAndUpdate on `d', the data
\* so far; when that reverts the observer is given up and keeps its data.
TrackDebt(debt, d) ==
  IF twapDisabled THEN data' = d /\ UNCHANGED <<valueToTrack, twapDisabled>>
  ELSE IF AccumulatorFits
  THEN /\ data' = UpdatedIfDue(Accrued(d))
       /\ valueToTrack' = debt
       /\ UNCHANGED twapDisabled
  ELSE data' = d /\ twapDisabled' = TRUE /\ UNCHANGED valueToTrack

\* The safe cast to 128 bits comes first.
IncreaseSystemDebt(amount) ==
  /\ systemDebt + amount <= MAX_UINT128
  /\ TrackDebt(systemDebt + amount, data)
  /\ systemDebt' = systemDebt + amount
  /\ UNCHANGED now

DecreaseSystemDebt(amount) ==
  /\ systemDebt >= amount
  /\ TrackDebt(systemDebt - amount, data)
  /\ systemDebt' = systemDebt - amount
  /\ UNCHANGED now

-----------------------------------------------------------------------------
(* CdpManager.redeemCollateral: the debt that prices the redemption.       *)

ObserverIsUsed == ~twapDisabled /\ ObserveSucceeds

TwapSystemDebtAtStart ==
  IF ObserverIsUsed /\ Observed < systemDebt THEN Observed ELSE systemDebt

\* The observation at the start of a redemption, then the decrease of the debt;
\* a redemption divides by the debt it observed.
RedeemCollateral(amount) ==
  /\ systemDebt >= amount
  /\ TwapSystemDebtAtStart > 0
  /\ TrackDebt(systemDebt - amount, IF ObserverIsUsed THEN DataAfterObserve ELSE data)
  /\ systemDebt' = systemDebt - amount
  /\ UNCHANGED now

\* update and observe, which anyone may call
Update ==
  /\ AccumulatorFits
  /\ UpdateIsDue(data)
  /\ data' = Updated(data)
  /\ UNCHANGED <<systemDebt, valueToTrack, twapDisabled, now>>

Observe ==
  /\ ObserveSucceeds
  /\ data' = DataAfterObserve
  /\ UNCHANGED <<systemDebt, valueToTrack, twapDisabled, now>>

Tick(seconds) ==
  /\ now + seconds <= MaxTime                        \* bound on the time
  /\ now' = now + seconds
  /\ UNCHANGED <<systemDebt, observerVars>>

-----------------------------------------------------------------------------
Call ==
  \/ \E amount \in Amounts :
        \/ IncreaseSystemDebt(amount)
        \/ DecreaseSystemDebt(amount)
        \/ RedeemCollateral(amount)
  \/ Update
  \/ Observe

Next == Call \/ \E seconds \in TimeSteps : Tick(seconds)

Spec == Init /\ [][Next]_vars

=============================================================================
