------------------------------ MODULE EbtcFeed ------------------------------
(***************************************************************************)
(* EbtcFeed: the price the protocol uses.  It asks the primary oracle,     *)
(* then the secondary, and keeps the last good price for when neither      *)
(* answers.  One of the oracles is the PriceFeed of this deployment; the   *)
(* others are adapters of which only the answer matters.                   *)
(***************************************************************************)
EXTENDS PriceFeed

CONSTANTS
  PriceFeedOracle,   \* the PriceFeed contract
  Adapters,          \* other contracts with a fetchPrice()
  UNSET_ADDRESS,
  AdapterPrices      \* what adapters answer; zero is no answer

Oracles == {PriceFeedOracle} \cup Adapters

ASSUME EbtcFeedAssumption ==
  /\ PriceFeedOracle \notin Adapters
  /\ UNSET_ADDRESS \notin Oracles
  /\ AdapterPrices \subseteq Nat

VARIABLES
  primaryOracle, secondaryOracle,
  feedLastGoodPrice,    \* EbtcFeed's storage slot lastGoodPrice
  served,               \* what EbtcFeed.fetchPrice last returned
  adapterPrice,         \* what every adapter answers now
  outage                \* oracles whose calls fail: they revert, burn their gas or answer with other than 32 bytes

feedStorage == <<primaryOracle, secondaryOracle, feedLastGoodPrice>>
feedVars == <<vars, feedStorage, served, adapterPrice, outage>>

\* Every outcome of a call of an oracle's fetchPrice, made when PriceFeed is in
\* status `from': its answer and the status PriceFeed is left in.  No outcome: the call reverts.
CallOutcomes(oracle, from) ==
  IF oracle \in outage THEN {}
  ELSE IF oracle = PriceFeedOracle THEN FetchOutcomes(from)
  ELSE {Outcome(from, adapterPrice[oracle])}

\* A call that fails leaves nothing behind and counts as no price.
TinfoilCall(oracle, from) ==
  IF CallOutcomes(oracle, from) = {} THEN {Outcome(from, INVALID_PRICE)}
                                     ELSE CallOutcomes(oracle, from)

\* The call of the secondary oracle, if there is one, after the primary failed.
SecondaryCall(from) ==
  IF secondaryOracle = UNSET_ADDRESS THEN {Outcome(from, INVALID_PRICE)}
                                     ELSE TinfoilCall(secondaryOracle, from)

LastGoodPriceAfter(first, second) ==
  IF first # INVALID_PRICE THEN first
  ELSE IF second # INVALID_PRICE THEN second ELSE feedLastGoodPrice

\* Mutant: without a price now, none is served.
PriceToServeNow(first, second) == IF first # INVALID_PRICE THEN first ELSE second

PriceToServe(first, second) ==
  IF first # INVALID_PRICE THEN first
  ELSE IF second # INVALID_PRICE THEN second ELSE feedLastGoodPrice

\* fetchPrice.
ServePrice ==
  /\ \E first \in TinfoilCall(primaryOracle, status) :
     \E second \in IF first.price # INVALID_PRICE THEN {first} ELSE SecondaryCall(first.status) :
       /\ status' = second.status
       /\ feedLastGoodPrice' = LastGoodPriceAfter(first.price, second.price)
       /\ served' = PriceToServe(first.price, second.price)
  /\ UNCHANGED <<fallbackCaller, useDynamicFeed, oracles,
                 primaryOracle, secondaryOracle, adapterPrice, outage>>

\* The new primary oracle must work: it is asked for a price, which is not kept.
SetPrimaryOracle ==
  /\ \E oracle \in Oracles : \E outcome \in CallOutcomes(oracle, status) :
       /\ outcome.price # INVALID_PRICE
       /\ primaryOracle' = oracle
       /\ status' = outcome.status
  /\ UNCHANGED <<fallbackCaller, useDynamicFeed, oracles,
                 secondaryOracle, feedLastGoodPrice, served, adapterPrice, outage>>

\* So must a new secondary oracle, unless it is removed.
SetSecondaryOracle ==
  /\ \/ /\ secondaryOracle' = UNSET_ADDRESS
        /\ status' = status
     \/ \E oracle \in Oracles : \E outcome \in CallOutcomes(oracle, status) :
          /\ outcome.price # INVALID_PRICE
          /\ secondaryOracle' = oracle
          /\ status' = outcome.status
  /\ UNCHANGED <<fallbackCaller, useDynamicFeed, oracles,
                 primaryOracle, feedLastGoodPrice, served, adapterPrice, outage>>

\* PriceFeed's own public functions, and its oracles.
PriceFeedStep ==
  /\ \/ \E outcome \in CallOutcomes(PriceFeedOracle, status) : FetchPrice(outcome)
     \/ Governance
     \/ Environment
  /\ UNCHANGED <<feedStorage, served, adapterPrice, outage>>

AdapterUpdates ==
  /\ \E adapter \in Adapters : \E price \in AdapterPrices :
       adapterPrice' = [adapterPrice EXCEPT ![adapter] = price]
  /\ UNCHANGED <<vars, feedStorage, served, outage>>

OutageChanges ==
  /\ \E oracle \in Oracles :
       outage' \in {outage \cup {oracle}, outage \ {oracle}}
  /\ UNCHANGED <<vars, feedStorage, served, adapterPrice>>

-----------------------------------------------------------------------------

\* The constructor insists on a price from the primary oracle, and keeps the
\* secondary, if one is given, only if it answers a price.
FeedInit ==
  /\ Deployed
  /\ outage = {}
  /\ adapterPrice \in [Adapters -> AdapterPrices]
  /\ served = INVALID_PRICE
  /\ primaryOracle \in Oracles
  /\ \E first \in CallOutcomes(primaryOracle, "chainlinkWorking") :
       /\ first.price # INVALID_PRICE
       /\ feedLastGoodPrice = first.price
       /\ \/ secondaryOracle = UNSET_ADDRESS /\ status = first.status
          \/ \E oracle \in Oracles : \E second \in CallOutcomes(oracle, first.status) :
               /\ secondaryOracle = IF second.price # INVALID_PRICE THEN oracle ELSE UNSET_ADDRESS
               /\ status = second.status

FeedNext ==
  \/ ServePrice
  \/ SetPrimaryOracle
  \/ SetSecondaryOracle
  \/ PriceFeedStep
  \/ AdapterUpdates
  \/ OutageChanges

FeedSpec == FeedInit /\ [][FeedNext]_feedVars

\* fetchPrice is public and part of every operation that needs a price, so
\* somebody keeps calling it; nothing is assumed of governance or the oracles.
FairFeedSpec == FeedSpec /\ WF_feedVars(ServePrice)

-----------------------------------------------------------------------------

\* The prices an oracle could rightly give now.
Quotes(oracle) ==
  IF oracle \in outage \cup {UNSET_ADDRESS} THEN {}
  ELSE IF oracle = PriceFeedOracle
    THEN {price \in {ChainlinkPrice} : ChainlinkIsFresh} \cup {price \in {FallbackPrice} : FallbackIsFresh}
  ELSE {adapterPrice[oracle]} \ {INVALID_PRICE}

\* Through both contracts, whatever failed before, the protocol is served a price
\* some oracle in use could rightly give now, or else the last one served, by
\* whichever oracle; never INVALID_PRICE, and never an old price while the primary is an adapter that works.
\* (EbtcFeed.fetchPrice over PriceFeed.fetchPrice.)
ServedPriceIsTrustedOrLast ==
  [][ServePrice =>
       /\ served' # INVALID_PRICE
       /\ served' \in Quotes(primaryOracle) \cup Quotes(secondaryOracle)
                       \cup {IF served # INVALID_PRICE THEN served ELSE feedLastGoodPrice}
       /\ primaryOracle \in Adapters /\ Quotes(primaryOracle) # {}
            => served' \in Quotes(primaryOracle)]_feedVars

\* Once PriceFeed is the primary oracle, answers, and sees Chainlink confirmed by
\* a live fallback, the protocol gets Chainlink's price again and again, however
\* many failed fetches, outages and changes of oracles came before.
\* (EbtcFeed.fetchPrice, PriceFeed.fetchPrice.)
ServesChainlinkAgain ==
  <>[](/\ primaryOracle = PriceFeedOracle /\ PriceFeedOracle \notin outage
       /\ ChainlinkVerdict \in {"live", "deviating"} /\ FallbackVerdict = "agrees")
    => []<>(served = ChainlinkPrice)

\* Without a fallback oracle, a Chainlink that stays healthy is served again and
\* again by a PriceFeed that answers, also after both oracles were distrusted.
\* (PriceFeed.fetchPrice: CASE 3 with no fallback caller, CASE 5.)
SurvivesWithoutFallback ==
  <>[](/\ primaryOracle = PriceFeedOracle /\ PriceFeedOracle \notin outage
       /\ fallbackCaller = NoCaller /\ ChainlinkVerdict = "live")
    => []<>(served = ChainlinkPrice)

=============================================================================
