-------------------------- MODULE PriceFeedProofs --------------------------
(***************************************************************************)
(* That the five states remember a suspect Chainlink and that the prices   *)
(* PriceFeed and, over it, EbtcFeed answer are trusted ones, for any       *)
(* feeds, adapters, timeouts and maxima of deviation and difference.       *)
(***************************************************************************)
EXTENDS PriceFeedProperties, EbtcFeed, TLAPS

(* --- Types of what the oracles publish --------------------------------- *)

Feed == [current : Round, previous : Round]

FallbackResponses == [answer : Nat, age : NoTimestamp .. MaxAge, timeoutAnswers : BOOLEAN]

LEMMA AgesOfRounds ==
  /\ MaxAge \in Nat
  /\ {NoTimestamp, FutureTimestamp, 0} \subseteq NoTimestamp .. MaxAge
  BY PriceFeedAssumption DEF NoTimestamp, FutureTimestamp

LEMMA NewRoundsAreRounds ==
  ASSUME NEW answers, answers \subseteq Nat PROVE NewRounds(answers) \subseteq Round
<1>1. NoRound \in Round
  BY AgesOfRounds DEF NoRound, Round, NoAnswer
<1>2. NewRoundAges \subseteq NoTimestamp .. MaxAge
  BY AgesOfRounds DEF NewRoundAges
<1> QED
  BY <1>1, <1>2 DEF NewRounds, Round

LEMMA RoundsAfterAreFeeds ==
  ASSUME NEW feed \in Feed, NEW answers, answers \subseteq Nat
  PROVE  RoundsAfter(feed, answers) \subseteq Feed
<1>1. NoRound \in Round /\ feed.current \in Round /\ feed.previous \in Round
  BY AgesOfRounds DEF Feed, NoRound, Round, NoAnswer
<1> QED
  BY <1>1, NewRoundsAreRounds DEF RoundsAfter, Feed

LEMMA AgesGrowWithinBound ==
  ASSUME NEW age \in NoTimestamp .. MaxAge, age # NoTimestamp
  PROVE  Smaller(age + 1, MaxAge) \in NoTimestamp .. MaxAge
  BY AgesOfRounds DEF Smaller, NoTimestamp

LEMMA AgedRoundIsRound == ASSUME NEW round \in Round PROVE Aged(round) \in Round
<1>1. round.age # NoTimestamp => Smaller(round.age + 1, MaxAge) \in NoTimestamp .. MaxAge
  BY AgesGrowWithinBound DEF Round
<1> QED
  BY <1>1 DEF Aged, Round

LEMMA AgedResponseIsResponse ==
  ASSUME NEW response \in FallbackResponses PROVE Aged(response) \in FallbackResponses
<1>1. response.age # NoTimestamp
        => Smaller(response.age + 1, MaxAge) \in NoTimestamp .. MaxAge
  BY AgesGrowWithinBound DEF FallbackResponses
<1> QED
  BY <1>1 DEF Aged, FallbackResponses

LEMMA ResponsesAreTyped == Responses \subseteq FallbackResponses /\ NoResponse \in FallbackResponses
<1>1. NoResponse \in FallbackResponses
  BY AgesOfRounds DEF NoResponse, FallbackResponses, NoAnswer
<1>2. NewRoundAges \subseteq NoTimestamp .. MaxAge /\ FallbackAnswers \subseteq Nat
  BY AgesOfRounds, PriceFeedAssumption DEF NewRoundAges
<1> QED
  BY <1>1, <1>2 DEF Responses, FallbackResponses

LEMMA DeployedTypes == ASSUME Deployed, status \in Statuses PROVE TypeOK
<1>1. EthBtcAnswers \subseteq Nat /\ StEthEthAnswers \subseteq Nat
  BY PriceFeedAssumption
<1>2. ethBtcFeed \in Feed /\ stEthEthFeed \in Feed
  BY <1>1, NewRoundsAreRounds DEF Deployed, Feed
<1>3. fallback \in [FallbackCallers -> FallbackResponses]
  BY ResponsesAreTyped DEF Deployed
<1> QED
  BY <1>2, <1>3 DEF Deployed, TypeOK, Feed, FallbackResponses

LEMMA InitialTypes == ASSUME Init PROVE TypeOK
  BY DeployedTypes DEF Init, Statuses

(* The environment publishes rounds and lets them age, and nothing else.     *)
LEMMA EnvironmentKeepsTypes ==
  ASSUME TypeOK, Environment PROVE TypeOK' /\ UNCHANGED status
<1>1. /\ ethBtcFeed \in Feed /\ stEthEthFeed \in Feed
      /\ fallback \in [FallbackCallers -> FallbackResponses]
  BY DEF TypeOK, Feed, FallbackResponses
<1>2. EthBtcAnswers \subseteq Nat /\ StEthEthAnswers \subseteq Nat
  BY PriceFeedAssumption
<1>3. /\ UNCHANGED storage
      /\ ethBtcFeed' \in Feed /\ stEthEthFeed' \in Feed
      /\ fallback' \in [FallbackCallers -> FallbackResponses]
  <2>1. CASE EthBtcRound
    BY <1>1, <1>2, <2>1, RoundsAfterAreFeeds DEF EthBtcRound
  <2>2. CASE StEthEthRound
    BY <1>1, <1>2, <2>2, RoundsAfterAreFeeds DEF StEthEthRound
  <2>3. CASE FallbackUpdates
    BY <1>1, <2>3, ResponsesAreTyped DEF FallbackUpdates
  <2>4. CASE TimePasses
    <3>1. ASSUME NEW feed \in Feed PROVE AgedFeed(feed) \in Feed
      BY <3>1, AgedRoundIsRound DEF AgedFeed, Feed
    <3> QED
      BY <1>1, <2>4, <3>1, AgedResponseIsResponse DEF TimePasses
  <2> QED
    BY <2>1, <2>2, <2>3, <2>4 DEF Environment
<1> QED
  BY <1>3 DEF TypeOK, storage, Feed, FallbackResponses

LEMMA GovernanceKeepsTypes ==
  ASSUME TypeOK, Governance PROVE TypeOK' /\ UNCHANGED status
  BY DEF Governance, SetCollateralFeedSource, SetFallbackCaller, oracles, TypeOK

(* --- The states of the machine ----------------------------------------- *)

Untrusting == {"usingFallbackChainlinkUntrusted", "bothOraclesUntrusted"}

(* A fetch that condemns Chainlink leads to a state that does not trust it,  *)
(* from each of the five.                                                    *)
LEMMA CondemnedIsUntrusted ==
  ASSUME NEW outcome, Decides(status, ChainlinkVerdict, FallbackVerdict, outcome), FetchCondemns
  PROVE  outcome.status \in Untrusting
<1>1. CASE status = "chainlinkWorking"
  BY <1>1 DEF Decides, FetchCondemns, WhileChainlinkWorking, Outcome, Untrusting
<1>2. CASE status = "usingFallbackChainlinkUntrusted"
  BY <1>2 DEF Decides, FetchCondemns, WhileUsingFallback, Outcome, Untrusting
<1>3. CASE status = "bothOraclesUntrusted"
  BY <1>3 DEF Decides, FetchCondemns, WhileBothUntrusted, Outcome, Untrusting
<1>4. CASE status = "usingFallbackChainlinkFrozen"
  BY <1>4 DEF Decides, FetchCondemns, WhileChainlinkFrozen, Outcome, Untrusting
<1>5. CASE status = "usingChainlinkFallbackUntrusted"
  BY <1>5 DEF Decides, FetchCondemns, WhileFallbackUntrusted, Outcome, Untrusting
<1> QED
  BY <1>1, <1>2, <1>3, <1>4, <1>5 DEF Decides

(* The two states that do not trust it are left only when it is vindicated.  *)
LEMMA SuspicionIsKept ==
  ASSUME NEW outcome, Decides(status, ChainlinkVerdict, FallbackVerdict, outcome),
         status \in Untrusting, ~FetchVindicates
  PROVE  outcome.status \in Untrusting
<1>1. CASE status = "usingFallbackChainlinkUntrusted"
  BY <1>1 DEF Decides, FetchVindicates, WhileUsingFallback, Outcome, Untrusting
<1>2. CASE status = "bothOraclesUntrusted"
  BY <1>2 DEF Decides, FetchVindicates, WhileBothUntrusted, Outcome, Untrusting
<1> QED
  BY <1>1, <1>2 DEF Untrusting

LEMMA OutcomesAreDecided ==
  ASSUME NEW outcome \in FetchOutcomes(status)
  PROVE  /\ outcome.status \in Statuses
         /\ Decides(status, ChainlinkVerdict, FallbackVerdict, outcome)
  BY DEF FetchOutcomes

LEMMA FetchKeepsSuspicion ==
  ASSUME SuspicionIsRemembered, WatchedFetch PROVE SuspicionIsRemembered'
<1>1. PICK outcome \in FetchOutcomes(status) : FetchPrice(outcome)
  BY DEF WatchedFetch
<1>2. /\ outcome.status \in Statuses
      /\ Decides(status, ChainlinkVerdict, FallbackVerdict, outcome)
  BY <1>1, OutcomesAreDecided
<1>3. TypeOK'
  BY <1>1, <1>2 DEF FetchPrice, oracles, TypeOK, SuspicionIsRemembered
<1>4. ASSUME SuspectAfterFetch PROVE outcome.status \in Untrusting
  <2>1. chainlinkSuspect => status \in Untrusting
    BY DEF SuspicionIsRemembered, Untrusting
  <2>2. FetchCondemns \/ (chainlinkSuspect /\ ~FetchVindicates)
    BY <1>4 DEF SuspectAfterFetch
  <2> QED
    BY <1>2, <2>1, <2>2, CondemnedIsUntrusted, SuspicionIsKept
<1>5. status' = outcome.status /\ chainlinkSuspect' = SuspectAfterFetch
  BY <1>1 DEF FetchPrice, WatchedFetch
<1> QED
  BY <1>3, <1>4, <1>5 DEF SuspicionIsRemembered, Untrusting

(* Once a fetch saw Chainlink break or jump unconfirmed, no later fetch, no  *)
(* change of the fallback and no recovery of a feed makes it the source of   *)
(* prices before it is vindicated.  The states themselves are the memory:    *)
(* each of the five leads a condemned Chainlink to one of the two that do    *)
(* not trust it, and those two are left only by vindication.                 *)
THEOREM SuspicionTheorem == WatchedSpec => []SuspicionIsRemembered
<1>1. WatchedInit => SuspicionIsRemembered
  BY InitialTypes DEF WatchedInit, SuspicionIsRemembered
<1>2. SuspicionIsRemembered /\ [WatchedNext]_watched => SuspicionIsRemembered'
  <2> SUFFICES ASSUME SuspicionIsRemembered, [WatchedNext]_watched
               PROVE  SuspicionIsRemembered'
    OBVIOUS
  <2>1. CASE WatchedFetch
    BY <2>1, FetchKeepsSuspicion
  <2>2. CASE (Governance \/ Environment) /\ UNCHANGED chainlinkSuspect
    BY <2>2, GovernanceKeepsTypes, EnvironmentKeepsTypes DEF SuspicionIsRemembered
  <2>3. CASE UNCHANGED watched
    BY <2>3 DEF watched, vars, storage, oracles, SuspicionIsRemembered, TypeOK
  <2> QED
    BY <2>1, <2>2, <2>3 DEF WatchedNext
<1> QED
  BY <1>1, <1>2, PTL DEF WatchedSpec

(* --- The price of a fetch ---------------------------------------------- *)

LEMMA FallbackVerdictMeansFresh ==
  ASSUME TypeOK, FallbackVerdict \in {"agrees", "differs"}
  PROVE  FallbackIsFresh /\ (FallbackVerdict = "agrees" => BothOraclesSimilarPrice)
<1>1. /\ ~FallbackIsBroken /\ ~FallbackIsFrozen
      /\ FallbackVerdict = "agrees" => BothOraclesSimilarPrice
  BY DEF FallbackVerdict
<1>2. fallbackCaller # NoCaller
  BY <1>1 DEF FallbackIsBroken, FallbackResponseIsBroken, FallbackResponse, NoResponse
<1>3. fallback[fallbackCaller] \in FallbackResponses
  BY <1>2 DEF TypeOK, FallbackResponses
<1>4. GoodRound(fallback[fallbackCaller])
  <2>1. /\ fallback[fallbackCaller].answer # NoAnswer
        /\ fallback[fallbackCaller].age \notin {NoTimestamp, FutureTimestamp}
    BY <1>1, <1>2 DEF FallbackIsBroken, FallbackResponseIsBroken, FallbackResponse
  <2>2. /\ fallback[fallbackCaller].answer \in Nat
        /\ fallback[fallbackCaller].age \in NoTimestamp .. MaxAge
    BY <1>3 DEF FallbackResponses
  <2> QED
    BY <2>1, <2>2, AgesOfRounds DEF GoodRound, NoTimestamp, FutureTimestamp, NoAnswer
<1>5. fallback[fallbackCaller].age <= FALLBACK_TIMEOUT
  BY <1>1, <1>2, <1>3, PriceFeedAssumption
     DEF FallbackIsFrozen, FallbackResponse, FallbackResponses, NoTimestamp
<1> QED
  BY <1>1, <1>2, <1>4, <1>5 DEF FallbackIsFresh

LEMMA ChainlinkVerdictMeansFresh ==
  ASSUME TypeOK, ChainlinkVerdict \in {"live", "deviating"}
  PROVE  ChainlinkIsFresh /\ (ChainlinkPriceChangeAboveMax => ChainlinkVerdict = "deviating")
<1>1. /\ ~BadChainlinkResponse(CurrentResponse) /\ ~BadChainlinkResponse(PreviousResponse)
      /\ ~ChainlinkIsFrozen
      /\ ChainlinkPriceChangeAboveMax => ChainlinkVerdict = "deviating"
  BY DEF ChainlinkVerdict, ChainlinkIsBroken
<1>2. ethBtcFeed \in Feed /\ CollateralFeed \in Feed
  BY AgesOfRounds, PriceFeedAssumption
     DEF TypeOK, Feed, CollateralFeed, FixedAdapter, Round, NoTimestamp
<1>3. ASSUME NEW round \in Round, round.answer # NoAnswer,
             round.age \notin {NoTimestamp, FutureTimestamp}
      PROVE  GoodRound(round)
  BY <1>3 DEF Round, GoodRound, NoTimestamp, FutureTimestamp, NoAnswer
<1>4. ASSUME NEW first \in Round, NEW second \in Round,
             ~BadChainlinkResponse(ChainlinkResponse(first, second))
      PROVE  GoodRound(first) /\ GoodRound(second)
  BY <1>3, <1>4 DEF BadChainlinkResponse, ChainlinkResponse
<1>5. /\ GoodRound(ethBtcFeed.current) /\ GoodRound(CollateralFeed.current)
      /\ GoodRound(ethBtcFeed.previous) /\ GoodRound(CollateralFeed.previous)
  BY <1>1, <1>2, <1>4 DEF CurrentResponse, PreviousResponse, Feed
<1>6. /\ ethBtcFeed.current.age <= TIMEOUT_ETH_BTC_FEED
      /\ CollateralFeed.current.age <= TIMEOUT_STETH_ETH_FEED
  BY <1>1, <1>2, PriceFeedAssumption
     DEF ChainlinkIsFrozen, CurrentResponse, ChainlinkResponse, Feed, Round, NoTimestamp
<1> QED
  BY <1>1, <1>5, <1>6 DEF ChainlinkIsFresh

\* Where the prices of the five cases come from.
Origin(chainlink, fallbackIs, price) ==
  \/ price = INVALID_PRICE
  \/ price = FallbackPrice /\ fallbackIs \in {"agrees", "differs"}
  \/ price = ChainlinkPrice /\ chainlink = "deviating" /\ fallbackIs = "agrees"
  \/ /\ price = ChainlinkPrice /\ chainlink = "live"
     /\ \/ status \notin Untrusting
        \/ fallbackIs = "agrees"
        \/ fallbackCaller = NoCaller

LEMMA PricesHaveAnOrigin ==
  ASSUME NEW chainlink, NEW fallbackIs, NEW outcome,
         Decides(status, chainlink, fallbackIs, outcome)
  PROVE  Origin(chainlink, fallbackIs, outcome.price)
<1>1. CASE status = "chainlinkWorking" /\ WhileChainlinkWorking(chainlink, fallbackIs, outcome)
  BY <1>1 DEF WhileChainlinkWorking, Outcome, Origin, Untrusting
<1>2. CASE /\ status = "usingFallbackChainlinkUntrusted"
           /\ WhileUsingFallback(chainlink, fallbackIs, outcome)
  BY <1>2 DEF WhileUsingFallback, Outcome, Origin
<1>3. CASE status = "bothOraclesUntrusted" /\ WhileBothUntrusted(chainlink, fallbackIs, outcome)
  BY <1>3 DEF WhileBothUntrusted, Outcome, Origin
<1>4. CASE /\ status = "usingFallbackChainlinkFrozen"
           /\ WhileChainlinkFrozen(chainlink, fallbackIs, outcome)
  BY <1>4 DEF WhileChainlinkFrozen, Outcome, Origin, Untrusting
<1>5. CASE /\ status = "usingChainlinkFallbackUntrusted"
           /\ WhileFallbackUntrusted(chainlink, fallbackIs, outcome)
  BY <1>5 DEF WhileFallbackUntrusted, Outcome, Origin, Untrusting
<1> QED
  BY <1>1, <1>2, <1>3, <1>4, <1>5 DEF Decides

\* The five cases leave out no pair of verdicts but those with an unreadable
\* fallback.
LEMMA CasesAreComplete ==
  ASSUME NEW chainlink \in {"broken", "frozen", "deviating", "live"},
         NEW fallbackIs \in {"broken", "frozen", "agrees", "differs"},
         NEW from \in Statuses
  PROVE  \E newStatus \in Statuses, price \in {INVALID_PRICE, ChainlinkPrice, FallbackPrice} :
           Decides(from, chainlink, fallbackIs, Outcome(newStatus, price))
<1> USE DEF Statuses
<1>1. CASE from = "chainlinkWorking"
  BY <1>1 DEF Decides, WhileChainlinkWorking
<1>2. CASE from = "usingFallbackChainlinkUntrusted"
  BY <1>2 DEF Decides, WhileUsingFallback
<1>3. CASE from = "bothOraclesUntrusted"
  BY <1>3 DEF Decides, WhileBothUntrusted
<1>4. CASE from = "usingFallbackChainlinkFrozen"
  BY <1>4 DEF Decides, WhileChainlinkFrozen
<1>5. CASE from = "usingChainlinkFallbackUntrusted"
  BY <1>5 DEF Decides, WhileFallbackUntrusted
<1> QED
  BY <1>1, <1>2, <1>3, <1>4, <1>5

LEMMA FetchReturns ==
  ASSUME TypeOK, FallbackVerdict # "unreadable" PROVE FetchOutcomes(status) # {}
<1>1. ChainlinkVerdict \in {"broken", "frozen", "deviating", "live"}
  BY DEF ChainlinkVerdict
<1>2. FallbackVerdict \in {"broken", "frozen", "agrees", "differs"}
  BY DEF FallbackVerdict
<1>3. status \in Statuses
  BY DEF TypeOK
<1>4. PICK newStatus \in Statuses, price \in {INVALID_PRICE, ChainlinkPrice, FallbackPrice} :
        Decides(status, ChainlinkVerdict, FallbackVerdict, Outcome(newStatus, price))
  BY <1>1, <1>2, <1>3, CasesAreComplete
<1>5. Outcome(newStatus, price)
        \in [status : Statuses, price : {INVALID_PRICE, ChainlinkPrice, FallbackPrice}]
  BY DEF Outcome
<1> DEFINE decided(chainlink, fallbackIs) ==
             {outcome \in [status : Statuses,
                           price : {INVALID_PRICE, ChainlinkPrice, FallbackPrice}] :
                Decides(status, chainlink, fallbackIs, outcome)}
           now == decided(ChainlinkVerdict, FallbackVerdict)
           each == {decided(c, f) : c \in {ChainlinkVerdict}, f \in {FallbackVerdict}}
<1>6. FetchOutcomes(status) = UNION each
  BY DEF FetchOutcomes
<1>7. now \in each
  OBVIOUS
<1>8. Outcome(newStatus, price) \in now
  BY <1>4, <1>5
<1> HIDE DEF now, each
<1> QED
  BY <1>6, <1>7, <1>8

LEMMA SuspicionMakesPricesTrusted ==
  ASSUME SuspicionIsRemembered PROVE PricesAreTrusted
<1> SUFFICES ASSUME NEW outcome \in FetchOutcomes(status),
                    outcome.price # INVALID_PRICE,
                    ~(outcome.price = FallbackPrice /\ FallbackIsFresh)
             PROVE  /\ outcome.price = ChainlinkPrice /\ ChainlinkIsFresh /\ ~SuspectAfterFetch
                    /\ ChainlinkPriceChangeAboveMax => FallbackIsFresh /\ BothOraclesSimilarPrice
  BY FetchReturns DEF PricesAreTrusted, SuspicionIsRemembered
<1>1. TypeOK /\ Origin(ChainlinkVerdict, FallbackVerdict, outcome.price)
  BY OutcomesAreDecided, PricesHaveAnOrigin DEF SuspicionIsRemembered
<1>2. chainlinkSuspect => status \in Untrusting
  BY DEF SuspicionIsRemembered, Untrusting
<1>3. CASE outcome.price = ChainlinkPrice /\ ChainlinkVerdict = "deviating" /\ FallbackVerdict = "agrees"
  <2>1. ~SuspectAfterFetch
    BY <1>3 DEF SuspectAfterFetch, FetchCondemns, FetchVindicates
  <2> QED
    BY <1>1, <1>3, <2>1, FallbackVerdictMeansFresh, ChainlinkVerdictMeansFresh
<1>4. CASE /\ outcome.price = ChainlinkPrice /\ ChainlinkVerdict = "live"
           /\ \/ status \notin Untrusting
              \/ FallbackVerdict = "agrees"
              \/ fallbackCaller = NoCaller
  <2>1. ~SuspectAfterFetch
    BY <1>2, <1>4 DEF SuspectAfterFetch, FetchCondemns, FetchVindicates
  <2> QED
    BY <1>1, <1>4, <2>1, ChainlinkVerdictMeansFresh
<1> QED
  BY <1>1, <1>3, <1>4, FallbackVerdictMeansFresh DEF Origin

(* In every reachable state, whatever failed before and in whichever order,  *)
(* a fetch returns unless the fallback's timeout cannot be read, and what it *)
(* would return is the price of data valid and fresh at that moment, or      *)
(* INVALID_PRICE; a Chainlink that is suspect or has jumped is its source    *)
(* only with a fresh fallback within the maximum difference.  It rests on    *)
(* what the states remember: the price of a live Chainlink is taken without  *)
(* the fallback only in a state that no condemned Chainlink leads to.        *)
THEOREM PricesTheorem == WatchedSpec => []PricesAreTrusted
<1>1. SuspicionIsRemembered => PricesAreTrusted
  BY SuspicionMakesPricesTrusted
<1> QED
  BY <1>1, SuspicionTheorem, PTL

(* --- EbtcFeed over PriceFeed and the adapters --------------------------- *)

LEMMA FetchQuotes ==
  ASSUME TypeOK, NEW from, NEW outcome \in FetchOutcomes(from), outcome.price # INVALID_PRICE
  PROVE  \/ outcome.price = ChainlinkPrice /\ ChainlinkIsFresh
         \/ outcome.price = FallbackPrice /\ FallbackIsFresh
<1> DEFINE chainlink == ChainlinkVerdict
           fallbackIs == FallbackVerdict
<1>1. Decides(from, chainlink, fallbackIs, outcome)
  BY DEF FetchOutcomes
<1> HIDE DEF chainlink, fallbackIs
<1> DEFINE Source == \/ outcome.price = ChainlinkPrice /\ chainlink \in {"live", "deviating"}
                     \/ outcome.price = FallbackPrice /\ fallbackIs \in {"agrees", "differs"}
<1>2. Source
  <2>1. CASE WhileChainlinkWorking(chainlink, fallbackIs, outcome)
    BY <2>1 DEF WhileChainlinkWorking, Outcome
  <2>2. CASE WhileUsingFallback(chainlink, fallbackIs, outcome)
    BY <2>2 DEF WhileUsingFallback, Outcome
  <2>3. CASE WhileBothUntrusted(chainlink, fallbackIs, outcome)
    BY <2>3 DEF WhileBothUntrusted, Outcome
  <2>4. CASE WhileChainlinkFrozen(chainlink, fallbackIs, outcome)
    BY <2>4 DEF WhileChainlinkFrozen, Outcome
  <2>5. CASE WhileFallbackUntrusted(chainlink, fallbackIs, outcome)
    BY <2>5 DEF WhileFallbackUntrusted, Outcome
  <2> QED
    BY <1>1, <2>1, <2>2, <2>3, <2>4, <2>5 DEF Decides
<1> QED
  BY <1>2, FallbackVerdictMeansFresh, ChainlinkVerdictMeansFresh DEF chainlink, fallbackIs

LEMMA CallsKeepStatuses ==
  ASSUME NEW from \in Statuses, NEW oracle, NEW outcome \in CallOutcomes(oracle, from)
  PROVE  outcome.status \in Statuses
<1>1. CASE outcome \in FetchOutcomes(from)
  BY <1>1 DEF FetchOutcomes
<1> QED
  BY <1>1 DEF CallOutcomes, Outcome

LEMMA CallsAnswerQuotes ==
  ASSUME TypeOK, NEW from, NEW oracle \in Oracles, NEW outcome \in CallOutcomes(oracle, from),
         outcome.price # INVALID_PRICE
  PROVE  outcome.price \in Quotes(oracle)
<1>1. oracle \notin outage /\ oracle # UNSET_ADDRESS
  BY EbtcFeedAssumption DEF CallOutcomes
<1>2. CASE oracle = PriceFeedOracle
  <2>1. outcome \in FetchOutcomes(from) /\ oracle \notin Adapters
    BY <1>1, <1>2, EbtcFeedAssumption DEF CallOutcomes
  <2>2. \/ outcome.price = ChainlinkPrice /\ ChainlinkIsFresh
        \/ outcome.price = FallbackPrice /\ FallbackIsFresh
    BY <2>1, FetchQuotes
  <2> QED
    BY <1>1, <1>2, <2>1, <2>2 DEF Quotes
<1>3. CASE oracle # PriceFeedOracle
  <2>1. outcome.price = adapterPrice[oracle] /\ oracle \in Adapters
    BY <1>1, <1>3 DEF CallOutcomes, Outcome, Oracles
  <2> QED
    BY <1>1, <1>3, <2>1 DEF Quotes
<1> QED
  BY <1>2, <1>3

\* A call of the oracle, if there is one, that cannot fail
LEMMA TinfoilAnswers ==
  ASSUME TypeOK, NEW from \in Statuses, NEW oracle \in Oracles,
         NEW outcome \in TinfoilCall(oracle, from)
  PROVE  /\ outcome.status \in Statuses
         /\ outcome.price # INVALID_PRICE => outcome.price \in Quotes(oracle)
<1>1. CASE outcome \in CallOutcomes(oracle, from)
  BY <1>1, CallsKeepStatuses, CallsAnswerQuotes
<1>2. CASE outcome = Outcome(from, INVALID_PRICE)
  BY <1>2 DEF Outcome
<1> QED
  BY <1>1, <1>2 DEF TinfoilCall

\* The last good price is a price, and the one last served, if one was.
FeedInv ==
  /\ TypeOK
  /\ primaryOracle \in Oracles /\ secondaryOracle \in Oracles \cup {UNSET_ADDRESS}
  /\ feedLastGoodPrice # INVALID_PRICE
  /\ served \in {INVALID_PRICE, feedLastGoodPrice}

ServedWell ==
  /\ served' # INVALID_PRICE
  /\ served' \in Quotes(primaryOracle) \cup Quotes(secondaryOracle)
                  \cup {IF served # INVALID_PRICE THEN served ELSE feedLastGoodPrice}
  /\ primaryOracle \in Adapters /\ Quotes(primaryOracle) # {}
       => served' \in Quotes(primaryOracle)

LEMMA ServeKeepsFeed == ASSUME FeedInv, ServePrice PROVE FeedInv' /\ ServedWell
<1>1. /\ TypeOK /\ status \in Statuses /\ primaryOracle \in Oracles
      /\ secondaryOracle \in Oracles \cup {UNSET_ADDRESS}
      /\ feedLastGoodPrice # INVALID_PRICE /\ served \in {INVALID_PRICE, feedLastGoodPrice}
  BY DEF FeedInv, TypeOK
<1>2. PICK first \in TinfoilCall(primaryOracle, status) :
      \E second \in IF first.price # INVALID_PRICE THEN {first} ELSE SecondaryCall(first.status) :
        /\ status' = second.status
        /\ feedLastGoodPrice' = LastGoodPriceAfter(first.price, second.price)
        /\ served' = PriceToServe(first.price, second.price)
  BY DEF ServePrice
<1>3. PICK second \in IF first.price # INVALID_PRICE THEN {first} ELSE SecondaryCall(first.status) :
        /\ status' = second.status
        /\ feedLastGoodPrice' = LastGoodPriceAfter(first.price, second.price)
        /\ served' = PriceToServe(first.price, second.price)
  BY <1>2
<1>4. /\ first.status \in Statuses
      /\ first.price # INVALID_PRICE => first.price \in Quotes(primaryOracle)
  BY <1>1, TinfoilAnswers
<1>5. /\ second.status \in Statuses
      /\ first.price = INVALID_PRICE /\ second.price # INVALID_PRICE
           => second.price \in Quotes(secondaryOracle)
  <2>1. CASE second = first /\ first.price # INVALID_PRICE
    BY <1>4, <2>1
  <2>2. CASE second \in SecondaryCall(first.status) /\ secondaryOracle = UNSET_ADDRESS
    BY <1>4, <2>2 DEF SecondaryCall, Outcome
  <2>3. CASE second \in SecondaryCall(first.status) /\ secondaryOracle # UNSET_ADDRESS
    BY <1>1, <1>4, <2>3, TinfoilAnswers DEF SecondaryCall
  <2> QED
    BY <1>3, <2>1, <2>2, <2>3
<1>6. served' = feedLastGoodPrice' /\ served' # INVALID_PRICE
  BY <1>1, <1>3 DEF LastGoodPriceAfter, PriceToServe
<1>7. FeedInv'
  <2>1. UNCHANGED <<fallbackCaller, useDynamicFeed, oracles, primaryOracle, secondaryOracle>>
    BY DEF ServePrice
  <2>2. TypeOK'
    BY <1>1, <1>3, <1>5, <2>1 DEF TypeOK, oracles
  <2> QED
    BY <1>1, <1>6, <2>1, <2>2 DEF FeedInv
<1>8. served' \in Quotes(primaryOracle) \cup Quotes(secondaryOracle)
                   \cup {IF served # INVALID_PRICE THEN served ELSE feedLastGoodPrice}
  BY <1>1, <1>3, <1>4, <1>5 DEF PriceToServe
<1>9. ASSUME primaryOracle \in Adapters, Quotes(primaryOracle) # {}
      PROVE  served' \in Quotes(primaryOracle)
  <2>1. primaryOracle \notin outage \cup {UNSET_ADDRESS} /\ primaryOracle # PriceFeedOracle
    BY <1>9, EbtcFeedAssumption DEF Quotes
  <2>2. Quotes(primaryOracle) = {adapterPrice[primaryOracle]} \ {INVALID_PRICE}
    BY <1>9, <2>1 DEF Quotes
  <2> DEFINE answer == Outcome(status, adapterPrice[primaryOracle])
  <2>3. CallOutcomes(primaryOracle, status) = {answer}
    BY <2>1 DEF CallOutcomes
  <2>4. answer.price = adapterPrice[primaryOracle]
    BY DEF Outcome
  <2> HIDE DEF answer
  <2>5. {answer} # {}
    OBVIOUS
  <2>6. TinfoilCall(primaryOracle, status) = {answer}
    BY <2>3, <2>5 DEF TinfoilCall
  <2>7. first = answer
    BY <2>6
  <2> QED
    BY <1>3, <1>9, <2>2, <2>4, <2>7 DEF PriceToServe
<1> QED
  BY <1>6, <1>7, <1>8, <1>9 DEF ServedWell

LEMMA FeedInvInit == FeedInit => FeedInv
<1> SUFFICES ASSUME FeedInit PROVE FeedInv
  OBVIOUS
<1>1. PICK first \in CallOutcomes(primaryOracle, "chainlinkWorking") :
       /\ first.price # INVALID_PRICE
       /\ feedLastGoodPrice = first.price
       /\ \/ secondaryOracle = UNSET_ADDRESS /\ status = first.status
          \/ \E oracle \in Oracles : \E second \in CallOutcomes(oracle, first.status) :
               /\ secondaryOracle = IF second.price # INVALID_PRICE THEN oracle ELSE UNSET_ADDRESS
               /\ status = second.status
  BY DEF FeedInit
<1>2. first.status \in Statuses
  BY CallsKeepStatuses DEF Statuses
<1>3. status \in Statuses /\ secondaryOracle \in Oracles \cup {UNSET_ADDRESS}
  BY <1>1, <1>2, CallsKeepStatuses
<1>4. TypeOK
  BY <1>3, DeployedTypes DEF FeedInit
<1> QED
  BY <1>1, <1>3, <1>4 DEF FeedInv, FeedInit

LEMMA FeedInvStep == FeedInv /\ [FeedNext]_feedVars => FeedInv'
<1> SUFFICES ASSUME FeedInv, [FeedNext]_feedVars PROVE FeedInv'
  OBVIOUS
<1>1. TypeOK /\ status \in Statuses
  BY DEF FeedInv, TypeOK
<1>2. CASE ServePrice
  BY <1>2, ServeKeepsFeed
<1>3. CASE SetPrimaryOracle
  <2>1. status' \in Statuses /\ primaryOracle' \in Oracles
    BY <1>1, <1>3, CallsKeepStatuses DEF SetPrimaryOracle
  <2> QED
    BY <1>1, <1>3, <2>1 DEF SetPrimaryOracle, FeedInv, TypeOK, oracles
<1>4. CASE SetSecondaryOracle
  <2>1. status' \in Statuses /\ secondaryOracle' \in Oracles \cup {UNSET_ADDRESS}
    BY <1>1, <1>4, CallsKeepStatuses DEF SetSecondaryOracle
  <2> QED
    BY <1>1, <1>4, <2>1 DEF SetSecondaryOracle, FeedInv, TypeOK, oracles
<1>5. CASE PriceFeedStep
  <2>1. ASSUME NEW outcome \in CallOutcomes(PriceFeedOracle, status), FetchPrice(outcome)
        PROVE  TypeOK'
    <3>1. outcome.status \in Statuses
      BY <1>1, CallsKeepStatuses
    <3> QED
      BY <1>1, <2>1, <3>1 DEF FetchPrice, TypeOK, oracles
  <2>2. TypeOK'
    BY <1>1, <1>5, <2>1, GovernanceKeepsTypes, EnvironmentKeepsTypes DEF PriceFeedStep
  <2> QED
    BY <1>5, <2>2 DEF PriceFeedStep, feedStorage, FeedInv
<1>6. CASE UNCHANGED <<vars, feedStorage, served>>
  BY <1>6 DEF vars, storage, oracles, feedStorage, FeedInv, TypeOK
<1> QED
  BY <1>2, <1>3, <1>4, <1>5, <1>6 DEF FeedNext, AdapterUpdates, OutageChanges, feedVars

(* Through both contracts, for any adapters and any order of failures,       *)
(* outages and changes of oracles, EbtcFeed.fetchPrice answers a price that  *)
(* an oracle in use could rightly give at that moment, or else the last one  *)
(* it served: never INVALID_PRICE, and the primary's own while the primary   *)
(* is an adapter that works.  What makes the last price good is that it was  *)
(* served, or accepted by the constructor.                                   *)
THEOREM ServedTheorem == FairFeedSpec => ServedPriceIsTrustedOrLast
<1>1. FeedInv /\ [FeedNext]_feedVars => [ServePrice => ServedWell]_feedVars
  BY ServeKeepsFeed
<1>2. FeedInit => FeedInv
  BY FeedInvInit
<1> QED
  BY <1>1, <1>2, FeedInvStep, PTL DEF FairFeedSpec, FeedSpec, ServedPriceIsTrustedOrLast, ServedWell

=============================================================================
