------------------------ MODULE PriceFeedProperties ------------------------
(***************************************************************************)
(* What PriceFeed promises.  The history variable chainlinkSuspect says    *)
(* that some fetch saw Chainlink break, or jump with no live fallback to   *)
(* confirm the jump, and that no fetch has vindicated Chainlink since: by  *)
(* a live fallback that agrees with it, or, when no fallback is set, by    *)
(* two good, fresh rounds that differ by no more than the maximum.         *)
(***************************************************************************)
EXTENDS PriceFeed

VARIABLE chainlinkSuspect

watched == <<vars, chainlinkSuspect>>

FetchCondemns == \/ ChainlinkVerdict = "broken"
                 \/ ChainlinkVerdict = "deviating" /\ FallbackVerdict # "agrees"

FetchVindicates == \/ ChainlinkVerdict \in {"live", "deviating"} /\ FallbackVerdict = "agrees"
                   \/ ChainlinkVerdict = "live" /\ fallbackCaller = NoCaller

SuspectAfterFetch == FetchCondemns \/ (chainlinkSuspect /\ ~FetchVindicates)

WatchedFetch ==
  /\ \E outcome \in FetchOutcomes(status) : FetchPrice(outcome)
  /\ chainlinkSuspect' = SuspectAfterFetch

WatchedInit == Init /\ chainlinkSuspect = FALSE

WatchedNext ==
  \/ WatchedFetch
  \/ (Governance \/ Environment) /\ UNCHANGED chainlinkSuspect

WatchedSpec == WatchedInit /\ [][WatchedNext]_watched

-----------------------------------------------------------------------------

\* The status remembers that Chainlink is suspect through every later fetch,
\* change of fallback and recovery of a feed: a suspect Chainlink is never the
\* source of prices again before it is vindicated.
\* (PriceFeed.fetchPrice: the five cases.)
SuspicionIsRemembered ==
  /\ TypeOK
  /\ chainlinkSuspect => status \in {"usingFallbackChainlinkUntrusted", "bothOraclesUntrusted"}

\* Whatever the state and the order of failures before it, a fetch that returns
\* returns the price of an oracle whose data is valid and fresh at that moment,
\* and the price of a Chainlink that is suspect or has jumped only if a fresh
\* fallback is within the maximum difference; else it returns INVALID_PRICE.  And
\* it returns, whatever the oracles do, unless the response of the fallback in use
\* is good and the call that reads its timeout reverts.
\* (PriceFeed.fetchPrice and the helpers that judge a response.)
PricesAreTrusted ==
  /\ FetchOutcomes(status) = {} => FallbackVerdict = "unreadable"
  /\ \A outcome \in FetchOutcomes(status) :
       \/ outcome.price = INVALID_PRICE
       \/ outcome.price = FallbackPrice /\ FallbackIsFresh
       \/ /\ outcome.price = ChainlinkPrice /\ ChainlinkIsFresh /\ ~SuspectAfterFetch
          /\ ChainlinkPriceChangeAboveMax => FallbackIsFresh /\ BothOraclesSimilarPrice

=============================================================================
