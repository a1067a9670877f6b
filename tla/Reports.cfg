SPECIFICATION Spec
CONSTANTS
  MonthStarts <- Months
  ZoneOffset = 8
  NoTime = NoTime
  OrderKey <- Keys
  Says <- Versions
  Uploads <- Batches
  Stocks <- TwoStocks
  Todays <- TwoDays
  Shops <- SomeShops
  Filters <- SomeFilters
  SKUDays <- SomeDays
  MaxWrites = 2
  o1 = o1
  o2 = o2
  o3 = o3
INVARIANTS
  EveryDatedRowIsShown
  FeesExplainTheBalance
  UnitsFollowTheSource
  DashboardAddsUp
  
