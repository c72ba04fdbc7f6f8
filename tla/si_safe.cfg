SPECIFICATION FairSpec
CONSTANTS
  low = low
  high = high
  odd = odd
  cut = cut
  chat = chat
  h1 = h1
  h2 = h2
  c1 = c1
  c2 = c2
  Text <- Texts
  Price <- Prices
  Form <- Forms
  Id = {1, 2, 3, 4, 5}
  Handler <- Handlers
  Collector <- Collectors
  NoText = NoText
  NoRow = NoRow
  Nobody = Nobody
  Setting <- Safe
INVARIANTS TypeOK TradedOnce OneTradePerAlert NeverAlone
PROPERTY EveryCaptureRecorded
CHECK_DEADLOCK FALSE
