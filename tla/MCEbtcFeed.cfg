SPECIFICATION FairFeedSpec
PROPERTIES
  ServedPriceIsTrustedOrLast
  ServesChainlinkAgain
  SurvivesWithoutFallback
CONSTANTS
  DECIMAL_PRECISION = 100
  DENOMINATOR = 10000
  SCALED_DECIMAL = 1
  FIXED_ANSWER = 100
  TIMEOUT_ETH_BTC_FEED = 0
  TIMEOUT_STETH_ETH_FEED = 0
  FALLBACK_TIMEOUT = 0
  MAX_PRICE_DEVIATION_FROM_PREVIOUS_ROUND = 50
  MAX_PRICE_DIFFERENCE_BETWEEN_ORACLES = 5
  FallbackCallers = {f1}
  NoCaller = NoCaller
  EthBtcAnswers = {0, 20}
  StEthEthAnswers = {}
  FallbackAnswers = {0, 21}
  OddTimestamps = FALSE
  MaxAge = 1
  PriceFeedOracle = PriceFeedOracle
  Adapters = {a1}
  UNSET_ADDRESS = UNSET_ADDRESS
  AdapterPrices = {0, 30}
