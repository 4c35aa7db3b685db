----------------------------- MODULE PriceFeed -----------------------------
(***************************************************************************)
(* PriceFeed: the state machine that decides, at every fetch, whether the  *)
(* stETH/BTC price comes from Chainlink, from the fallback oracle or from  *)
(* nowhere.                                                                *)
(*                                                                         *)
(* A round of a Chainlink feed is a record of its answer and its age, the  *)
(* time since its timestamp.  The answer is NoAnswer when the call         *)
(* reverts, when the answer is not positive and when the round id is zero: *)
(* all three leave `success' false.  A response of a fallback oracle is of *)
(* the same form, with NoAnswer for a reverting call, for success = FALSE  *)
(* and for a zero answer.                                                  *)
(***************************************************************************)
EXTENDS Integers

CONSTANTS
  DECIMAL_PRECISION,
  DENOMINATOR, SCALED_DECIMAL,       \* fixed by the decimals of the two feeds
  FIXED_ANSWER,                      \* what FixedAdapter answers: one
  TIMEOUT_ETH_BTC_FEED, TIMEOUT_STETH_ETH_FEED, FALLBACK_TIMEOUT,
  MAX_PRICE_DEVIATION_FROM_PREVIOUS_ROUND,
  MAX_PRICE_DIFFERENCE_BETWEEN_ORACLES,
  FallbackCallers,                   \* contracts that may serve as fallback
  NoCaller,                          \* address(0)
  \* the environment
  EthBtcAnswers, StEthEthAnswers, FallbackAnswers,
  OddTimestamps,                     \* feeds may publish zero and future timestamps
  MaxAge                             \* older ages are alike

NoAnswer == 0
INVALID_PRICE == 0

\* A timestamp of zero, and one ahead of the block's.
NoTimestamp == -2
FutureTimestamp == -1

ASSUME PriceFeedAssumption ==
  /\ DECIMAL_PRECISION \in Nat \ {0}
  /\ DENOMINATOR \in Nat \ {0}
  /\ SCALED_DECIMAL \in Nat \ {0}
  /\ FIXED_ANSWER \in Nat \ {0}
  /\ {TIMEOUT_ETH_BTC_FEED, TIMEOUT_STETH_ETH_FEED, FALLBACK_TIMEOUT,
      MAX_PRICE_DEVIATION_FROM_PREVIOUS_ROUND,
      MAX_PRICE_DIFFERENCE_BETWEEN_ORACLES, MaxAge} \subseteq Nat
  /\ NoCaller \notin FallbackCallers
  /\ EthBtcAnswers \cup StEthEthAnswers \cup FallbackAnswers \subseteq Nat
  /\ OddTimestamps \in BOOLEAN
  /\ MaxAge > TIMEOUT_ETH_BTC_FEED
  /\ MaxAge > TIMEOUT_STETH_ETH_FEED
  /\ MaxAge > FALLBACK_TIMEOUT

VARIABLES
  status,            \* the state of the machine
  fallbackCaller,    \* the fallback oracle in use, NoCaller if none
  useDynamicFeed,    \* the stETH/ETH feed, or the fixed adapter
  ethBtcFeed, stEthEthFeed,   \* the current and the previous round of each
  fallback           \* what every fallback oracle answers now

storage == <<status, fallbackCaller, useDynamicFeed>>
oracles == <<ethBtcFeed, stEthEthFeed, fallback>>
vars == <<storage, oracles>>

Statuses == {"chainlinkWorking", "usingFallbackChainlinkUntrusted",
             "bothOraclesUntrusted", "usingFallbackChainlinkFrozen",
             "usingChainlinkFallbackUntrusted"}

-----------------------------------------------------------------------------
(* Reading Chainlink *)

Smaller(a, b) == IF a <= b THEN a ELSE b
Larger(a, b) == IF a <= b THEN b ELSE a

Round == [answer : Nat, age : NoTimestamp..MaxAge]
NoRound == [answer |-> NoAnswer, age |-> NoTimestamp]

\* FixedAdapter: both rounds exist and are never stale.
FixedAdapter == [current  |-> [answer |-> FIXED_ANSWER, age |-> 0],
                 previous |-> [answer |-> FIXED_ANSWER, age |-> 1]]

CollateralFeed == IF useDynamicFeed THEN stEthEthFeed ELSE FixedAdapter

FormatClAggregateAnswer(ethBtcAnswer, stEthEthAnswer) ==
  (SCALED_DECIMAL * ethBtcAnswer * stEthEthAnswer * DECIMAL_PRECISION) \div DENOMINATOR

\* A response is built from one round of each feed.
ChainlinkResponse(ethBtc, stEthEth) ==
  [success |-> ethBtc.answer # NoAnswer /\ stEthEth.answer # NoAnswer,
   answer  |-> FormatClAggregateAnswer(ethBtc.answer, stEthEth.answer),
   ethBtcAge |-> ethBtc.age, stEthEthAge |-> stEthEth.age]

CurrentResponse == ChainlinkResponse(ethBtcFeed.current, CollateralFeed.current)
PreviousResponse == ChainlinkResponse(ethBtcFeed.previous, CollateralFeed.previous)

\* Mutant: only the ETH/BTC feed's timestamp is looked at.
BadChainlinkResponseOneFeed(response) ==
  ~response.success \/ response.ethBtcAge \in {NoTimestamp, FutureTimestamp}

BadChainlinkResponse(response) ==
  \/ ~response.success
  \/ response.ethBtcAge \in {NoTimestamp, FutureTimestamp}
  \/ response.stEthEthAge \in {NoTimestamp, FutureTimestamp}

ChainlinkIsBroken == BadChainlinkResponse(CurrentResponse) \/ BadChainlinkResponse(PreviousResponse)

ChainlinkIsFrozen == \/ CurrentResponse.ethBtcAge > TIMEOUT_ETH_BTC_FEED
                     \/ CurrentResponse.stEthEthAge > TIMEOUT_STETH_ETH_FEED

ChainlinkPriceChangeAboveMax ==
  LET minPrice == Smaller(CurrentResponse.answer, PreviousResponse.answer)
      maxPrice == Larger(CurrentResponse.answer, PreviousResponse.answer)
  IN  /\ maxPrice > 0
      /\ ((maxPrice - minPrice) * DECIMAL_PRECISION) \div maxPrice
           > MAX_PRICE_DEVIATION_FROM_PREVIOUS_ROUND

\* What a fetch makes of Chainlink: broken before frozen before deviating.
ChainlinkVerdict ==
  IF ChainlinkIsBroken THEN "broken"
  ELSE IF ChainlinkIsFrozen THEN "frozen"
  ELSE IF ChainlinkPriceChangeAboveMax THEN "deviating" ELSE "live"

-----------------------------------------------------------------------------
(* Reading the fallback oracle *)

\* What the fallback oracle in use answers.
NoResponse == [answer |-> NoAnswer, age |-> NoTimestamp, timeoutAnswers |-> TRUE]

FallbackResponse == IF fallbackCaller = NoCaller THEN NoResponse ELSE fallback[fallbackCaller]

FallbackResponseIsBroken(response) ==
  response.answer = NoAnswer \/ response.age \in {NoTimestamp, FutureTimestamp}

FallbackIsBroken == FallbackResponseIsBroken(FallbackResponse)

FallbackIsFrozen == FallbackResponse.age > FALLBACK_TIMEOUT

BothOraclesSimilarPrice ==
  LET minPrice == Smaller(FallbackResponse.answer, CurrentResponse.answer)
      maxPrice == Larger(FallbackResponse.answer, CurrentResponse.answer)
  IN  \/ fallbackCaller = NoCaller
      \/ /\ minPrice # 0
         /\ ((maxPrice - minPrice) * DECIMAL_PRECISION) \div minPrice
              <= MAX_PRICE_DIFFERENCE_BETWEEN_ORACLES

\* The timeout is read from the fallback oracle, and only when its response is
\* not broken.  That call is not guarded: if it reverts, so does the fetch.  A
\* live fallback agrees or differs with Chainlink's current answer.
FallbackVerdict ==
  IF FallbackIsBroken THEN "broken"
  ELSE IF ~FallbackResponse.timeoutAnswers THEN "unreadable"
  ELSE IF FallbackIsFrozen THEN "frozen"
  ELSE IF BothOraclesSimilarPrice THEN "agrees" ELSE "differs"

-----------------------------------------------------------------------------
(* fetchPrice: for each state of the machine, the outcomes that follow from *)
(* what the fetch makes of Chainlink and of the fallback.                    *)

ChainlinkPrice == CurrentResponse.answer
FallbackPrice == FallbackResponse.answer

\* The new status and the price handed to the caller.
Outcome(newStatus, price) == [status |-> newStatus, price |-> price]

\* CASE 1
WhileChainlinkWorking(chainlink, fallbackIs, outcome) ==
  \/ /\ chainlink \in {"broken", "deviating"} /\ fallbackIs = "broken"
     /\ outcome = Outcome("bothOraclesUntrusted", INVALID_PRICE)
  \/ /\ chainlink \in {"broken", "deviating"} /\ fallbackIs = "frozen"
     /\ outcome = Outcome("usingFallbackChainlinkUntrusted", INVALID_PRICE)
  \/ /\ \/ chainlink = "broken" /\ fallbackIs \in {"agrees", "differs"}
        \/ chainlink = "deviating" /\ fallbackIs = "differs"
     /\ outcome = Outcome("usingFallbackChainlinkUntrusted", FallbackPrice)
  \/ /\ chainlink = "frozen" /\ fallbackIs = "broken"
     /\ outcome = Outcome("usingChainlinkFallbackUntrusted", INVALID_PRICE)
  \/ /\ chainlink = "frozen" /\ fallbackIs = "frozen"
     /\ outcome = Outcome("usingFallbackChainlinkFrozen", INVALID_PRICE)
  \/ /\ chainlink = "frozen" /\ fallbackIs \in {"agrees", "differs"}
     /\ outcome = Outcome("usingFallbackChainlinkFrozen", FallbackPrice)
  \/ /\ chainlink = "deviating" /\ fallbackIs = "agrees"
     /\ outcome = Outcome("chainlinkWorking", ChainlinkPrice)
  \/ /\ chainlink = "live" /\ fallbackIs = "broken"
     /\ outcome = Outcome("usingChainlinkFallbackUntrusted", ChainlinkPrice)
  \/ /\ chainlink = "live" /\ fallbackIs # "broken"
     /\ outcome = Outcome("chainlinkWorking", ChainlinkPrice)

\* Mutant: a fallback in use stays in use.
WhileUsingFallbackForGood(chainlink, fallbackIs, outcome) ==
  \/ fallbackIs = "broken" /\ outcome = Outcome("bothOraclesUntrusted", INVALID_PRICE)
  \/ fallbackIs = "frozen" /\ outcome = Outcome("usingFallbackChainlinkUntrusted", INVALID_PRICE)
  \/ /\ fallbackIs \in {"agrees", "differs"}
     /\ outcome = Outcome("usingFallbackChainlinkUntrusted", FallbackPrice)

\* CASE 2
WhileUsingFallback(chainlink, fallbackIs, outcome) ==
  \/ /\ fallbackIs = "broken"
     /\ outcome = Outcome("bothOraclesUntrusted", INVALID_PRICE)
  \/ /\ fallbackIs = "frozen"
     /\ outcome = Outcome("usingFallbackChainlinkUntrusted", INVALID_PRICE)
  \/ /\ fallbackIs = "agrees" /\ chainlink \in {"live", "deviating"}
     /\ outcome = Outcome("chainlinkWorking", ChainlinkPrice)
  \/ /\ \/ fallbackIs = "agrees" /\ chainlink \in {"broken", "frozen"}
        \/ fallbackIs = "differs"
     /\ outcome = Outcome("usingFallbackChainlinkUntrusted", FallbackPrice)

\* Mutant: without a fallback there is no way back.
WhileBothUntrustedForever(chainlink, fallbackIs, outcome) ==
  \/ /\ fallbackIs = "agrees" /\ chainlink \in {"live", "deviating"}
     /\ outcome = Outcome("chainlinkWorking", ChainlinkPrice)
  \/ /\ fallbackIs \in {"broken", "frozen", "differs"} \/ chainlink \in {"broken", "frozen"}
     /\ outcome = Outcome("bothOraclesUntrusted", INVALID_PRICE)

\* CASE 3
WhileBothUntrusted(chainlink, fallbackIs, outcome) ==
  \/ /\ fallbackCaller = NoCaller /\ chainlink = "live"
     /\ outcome = Outcome("usingChainlinkFallbackUntrusted", ChainlinkPrice)
  \/ /\ fallbackIs = "agrees" /\ chainlink \in {"live", "deviating"}
     /\ outcome = Outcome("chainlinkWorking", ChainlinkPrice)
  \/ /\ \/ fallbackCaller = NoCaller /\ chainlink # "live"
        \/ fallbackCaller # NoCaller /\ fallbackIs \in {"broken", "frozen", "differs"}
        \/ fallbackIs = "agrees" /\ chainlink \in {"broken", "frozen"}
     /\ outcome = Outcome("bothOraclesUntrusted", INVALID_PRICE)

\* CASE 4
WhileChainlinkFrozen(chainlink, fallbackIs, outcome) ==
  \/ /\ chainlink \in {"broken", "deviating"} /\ fallbackIs = "broken"
     /\ outcome = Outcome("bothOraclesUntrusted", INVALID_PRICE)
  \/ /\ chainlink \in {"broken", "deviating"} /\ fallbackIs = "frozen"
     /\ outcome = Outcome("usingFallbackChainlinkUntrusted", INVALID_PRICE)
  \/ /\ \/ chainlink \in {"broken", "deviating"} /\ fallbackIs \in {"agrees", "differs"}
        \/ chainlink = "live" /\ fallbackIs = "differs"
     /\ outcome = Outcome("usingFallbackChainlinkUntrusted", FallbackPrice)
  \/ /\ chainlink = "frozen" /\ fallbackIs = "broken"
     /\ outcome = Outcome("usingChainlinkFallbackUntrusted", INVALID_PRICE)
  \/ /\ chainlink \in {"frozen", "live"} /\ fallbackIs = "frozen"
     /\ outcome = Outcome("usingFallbackChainlinkFrozen", INVALID_PRICE)
  \/ /\ chainlink = "frozen" /\ fallbackIs \in {"agrees", "differs"}
     /\ outcome = Outcome("usingFallbackChainlinkFrozen", FallbackPrice)
  \/ /\ chainlink = "live" /\ fallbackIs = "broken"
     /\ outcome = Outcome("usingChainlinkFallbackUntrusted", ChainlinkPrice)
  \/ /\ chainlink = "live" /\ fallbackIs = "agrees"
     /\ outcome = Outcome("chainlinkWorking", ChainlinkPrice)

\* Mutant: a jump of the Chainlink price goes unnoticed without a fallback.
WhileFallbackUntrustedBlind(chainlink, fallbackIs, outcome) ==
  /\ chainlink \in {"live", "deviating"}
  /\ outcome = Outcome("usingChainlinkFallbackUntrusted", ChainlinkPrice)

\* CASE 5
WhileFallbackUntrusted(chainlink, fallbackIs, outcome) ==
  \/ /\ chainlink \in {"broken", "deviating"}
     /\ outcome = Outcome("bothOraclesUntrusted", INVALID_PRICE)
  \/ /\ chainlink = "frozen"
     /\ outcome = Outcome("usingChainlinkFallbackUntrusted", INVALID_PRICE)
  \/ /\ chainlink = "live" /\ fallbackIs = "agrees"
     /\ outcome = Outcome("chainlinkWorking", ChainlinkPrice)
  \/ /\ chainlink = "live" /\ fallbackIs \in {"broken", "frozen", "differs"}
     /\ outcome = Outcome("usingChainlinkFallbackUntrusted", ChainlinkPrice)

Decides(from, chainlink, fallbackIs, outcome) ==
  \/ from = "chainlinkWorking" /\ WhileChainlinkWorking(chainlink, fallbackIs, outcome)
  \/ from = "usingFallbackChainlinkUntrusted" /\ WhileUsingFallback(chainlink, fallbackIs, outcome)
  \/ from = "bothOraclesUntrusted" /\ WhileBothUntrusted(chainlink, fallbackIs, outcome)
  \/ from = "usingFallbackChainlinkFrozen" /\ WhileChainlinkFrozen(chainlink, fallbackIs, outcome)
  \/ from = "usingChainlinkFallbackUntrusted" /\ WhileFallbackUntrusted(chainlink, fallbackIs, outcome)

\* The one outcome of a fetch from a status; none if the fetch reverts.
FetchOutcomes(from) ==
  LET decided(chainlink, fallbackIs) ==
        {outcome \in [status : Statuses, price : {INVALID_PRICE, ChainlinkPrice, FallbackPrice}] :
           Decides(from, chainlink, fallbackIs, outcome)}
  IN  UNION {decided(c, f) : c \in {ChainlinkVerdict}, f \in {FallbackVerdict}}

\* The caller gets outcome.price.  _storePrice announces it in an event and writes
\* no storage: the slot lastGoodPrice is never written, and is left out.
FetchPrice(outcome) ==
  /\ outcome \in FetchOutcomes(status)
  /\ status' = outcome.status
  /\ UNCHANGED <<fallbackCaller, useDynamicFeed, oracles>>

-----------------------------------------------------------------------------
(* Governance *)

SetCollateralFeedSource ==
  /\ \E source \in BOOLEAN : useDynamicFeed' = source
  /\ UNCHANGED <<status, fallbackCaller, oracles>>

FallbackIsHealthy(response) ==
  /\ ~FallbackResponseIsBroken(response)
  /\ response.timeoutAnswers
  /\ response.age <= FALLBACK_TIMEOUT

\* A new fallback must be healthy; address(0) removes the fallback.
SetFallbackCaller ==
  /\ \E caller \in FallbackCallers \cup {NoCaller} :
       /\ caller # NoCaller => FallbackIsHealthy(fallback[caller])
       /\ fallbackCaller' = caller
  /\ UNCHANGED <<status, useDynamicFeed, oracles>>

-----------------------------------------------------------------------------
(* The oracles *)

\* The age of a round when it is published.
NewRoundAges == IF OddTimestamps THEN {NoTimestamp, FutureTimestamp, 0} ELSE {0}

NewRounds(answers) == [answer : answers \ {NoAnswer}, age : NewRoundAges] \cup {NoRound}

\* A round follows the current one; or the calls to the feed failed for a while
\* and the previous round is the one known before; or no earlier round exists.
RoundsAfter(feed, answers) ==
  [current : NewRounds(answers), previous : {feed.current, feed.previous, NoRound}]

EthBtcRound ==
  /\ ethBtcFeed' \in RoundsAfter(ethBtcFeed, EthBtcAnswers)
  /\ UNCHANGED <<storage, stEthEthFeed, fallback>>

StEthEthRound ==
  /\ stEthEthFeed' \in RoundsAfter(stEthEthFeed, StEthEthAnswers)
  /\ UNCHANGED <<storage, ethBtcFeed, fallback>>

Responses == [answer : FallbackAnswers \ {NoAnswer}, age : NewRoundAges,
              timeoutAnswers : BOOLEAN] \cup {NoResponse}

FallbackUpdates ==
  /\ \E caller \in FallbackCallers : \E response \in Responses :
       fallback' = [fallback EXCEPT ![caller] = response]
  /\ UNCHANGED <<storage, ethBtcFeed, stEthEthFeed>>

Aged(response) ==
  IF response.age = NoTimestamp THEN response
  ELSE [response EXCEPT !.age = Smaller(@ + 1, MaxAge)]

AgedFeed(feed) == [current |-> Aged(feed.current), previous |-> Aged(feed.previous)]

TimePasses ==
  /\ ethBtcFeed' = AgedFeed(ethBtcFeed)
  /\ stEthEthFeed' = AgedFeed(stEthEthFeed)
  /\ fallback' = [caller \in FallbackCallers |-> Aged(fallback[caller])]
  /\ UNCHANGED storage

Environment == EthBtcRound \/ StEthEthRound \/ FallbackUpdates \/ TimePasses

-----------------------------------------------------------------------------

\* The constructor insists on a working, current Chainlink; not on a fallback.
Deployed ==
  /\ ethBtcFeed \in [current : NewRounds(EthBtcAnswers), previous : NewRounds(EthBtcAnswers)]
  /\ stEthEthFeed \in [current : NewRounds(StEthEthAnswers), previous : NewRounds(StEthEthAnswers)]
  /\ fallback = [caller \in FallbackCallers |-> NoResponse]
  /\ fallbackCaller \in FallbackCallers \cup {NoCaller}
  /\ useDynamicFeed \in BOOLEAN
  /\ ~ChainlinkIsBroken
  /\ ~ChainlinkIsFrozen

Init == Deployed /\ status = "chainlinkWorking"

Governance == SetCollateralFeedSource \/ SetFallbackCaller

Next ==
  \/ \E outcome \in FetchOutcomes(status) : FetchPrice(outcome)
  \/ Governance
  \/ Environment

Spec == Init /\ [][Next]_vars

TypeOK ==
  /\ status \in Statuses
  /\ fallbackCaller \in FallbackCallers \cup {NoCaller}
  /\ useDynamicFeed \in BOOLEAN
  /\ ethBtcFeed \in [current : Round, previous : Round]
  /\ stEthEthFeed \in [current : Round, previous : Round]
  /\ fallback \in [FallbackCallers ->
                      [answer : Nat, age : NoTimestamp..MaxAge, timeoutAnswers : BOOLEAN]]

-----------------------------------------------------------------------------
(* Sound data, said of the feeds themselves and not of what fetchPrice makes *)
(* of them.                                                                  *)

GoodRound(round) == round.answer > 0 /\ round.age >= 0

\* Both rounds of both feeds are good and the current ones are not stale.
ChainlinkIsFresh ==
  /\ \A feed \in {ethBtcFeed, CollateralFeed} : GoodRound(feed.current) /\ GoodRound(feed.previous)
  /\ ethBtcFeed.current.age <= TIMEOUT_ETH_BTC_FEED
  /\ CollateralFeed.current.age <= TIMEOUT_STETH_ETH_FEED

FallbackIsFresh ==
  /\ fallbackCaller # NoCaller
  /\ GoodRound(fallback[fallbackCaller])
  /\ fallback[fallbackCaller].age <= FALLBACK_TIMEOUT

=============================================================================
