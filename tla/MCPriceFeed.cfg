SPECIFICATION WatchedSpec
INVARIANTS
  SuspicionIsRemembered
  PricesAreTrusted
CONSTANTS
  DECIMAL_PRECISION = 100
  DENOMINATOR = 10000
  SCALED_DECIMAL = 1
  FIXED_ANSWER = 100
  TIMEOUT_ETH_BTC_FEED = 0
  TIMEOUT_STETH_ETH_FEED = 0
  FALLBACK_TIMEOUT = 0
  MAX_PRICE_DEVIATION_FROM_PREVIOUS_ROUND = 50
  MAX_PRICE_DIFFERENCE_BETWEEN_ORACLES = 5
  FallbackCallers = {f1}
  NoCaller = NoCaller
  EthBtcAnswers = {20, 41}
  StEthEthAnswers = {100}
  FallbackAnswers = {21}
  OddTimestamps = TRUE
  MaxAge = 1
