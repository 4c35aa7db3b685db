--------------------------- MODULE TwapProperties ---------------------------
(***************************************************************************)
(* What the observed debt must be, against a record of the debt that was   *)
(* owed in every second since the deployment.                              *)
(***************************************************************************)
EXTENDS TwapWeightedObserver, Functions

VARIABLE held   \* held[i]: the debt during second i, while the observer is used

watched == <<vars, held>>

WatchedInit == Init /\ held = <<>>

WatchedCall == Call /\ UNCHANGED held

WatchedTick ==
  \E seconds \in TimeSteps :
    /\ Tick(seconds)
    /\ held' = IF twapDisabled THEN held ELSE held \o [i \in 1 .. seconds |-> systemDebt]

WatchedSpec == WatchedInit /\ [][WatchedCall \/ WatchedTick]_watched

-----------------------------------------------------------------------------
\* The debt over the seconds i with first < i <= last, one unit per second
HeldBetween(first, last) == SumFunctionOnSet(held, first + 1 .. last)

\* The observer follows the debt of the system until it is given up.
TrackedValueIsTheDebt ==
  /\ TypeOK
  /\ ~twapDisabled => valueToTrack = systemDebt

\* The average since the last observation, from which the next is made, is that
\* of the debt second by second: no second is missed or counted twice, however
\* changes, updates and redemptions are interleaved.
AverageIsTimeWeighted ==
  ~twapDisabled /\ AccumulatorFits =>
    LatestAccumulator - data.observerCumuVal = HeldBetween(data.lastObserved, now)

\* What a transaction does to the debt, be it with a flash loan, has no effect
\* on what a redemption in the same block observes: "changes in same block have
\* no impact, as no time has expired".
ObservedDebtIsSteadyWithinABlock ==
  [][now' = now /\ ~twapDisabled' /\ ObserveSucceeds => ObserveSucceeds' /\ Observed' = Observed]_watched

=============================================================================
