SPECIFICATION AllSpec
CONSTANTS
  Precision = 2
  Step = 5
  MinQty = 5
  MinNotional = 50
  Orders <- Orders5
  Entry = 1000
  Distance = 20
  Callback = 10
  Prices <- Market
  MaxMove = 6
  MaxFail = 1
  MaxManual = 1
  Symbol = {"BTC", "ETH"}
  Caller = {"caller"}
  Price = {1, 3}
  Qty = {1, 2}
  Leverage = {2}
  Initial = 4
  Scale = 7500
  FeeUnit = 3
  MaxTrade = 4
  MaxReset = 1
  Call = {"c1", "c2"}
  MaxClient = 3
  MaxBreak = 1
  MaxReject = 1
  MaxLogonFail = 1
  Held = {5, 10, 20}
  Percents = {33, 50, 100}
  Amounts = {7, 10}
  MaxRetries = 3
  MaxError = 1
  MaxOrder = 2
  MaxFault = 1
INVARIANTS TypesOK   
  AccountBalances  
PROPERTIES TrailingNeverLoosens OrdersFinish EndedStaysEnded
CHECK_DEADLOCK FALSE
