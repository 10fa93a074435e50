SPECIFICATION AnalystSpec
CONSTANTS
  a1 = a1
  a2 = a2
  rca = rca
  p1 = p1
  order = order
  payment = payment
  orderSvc = orderSvc
  paymentSvc = paymentSvc
  searchSvc = searchSvc
  pm = pm
  Searcher = {a1, a2}
  Call = {a1, a2, rca}
  Poster = {p1}
  Seeds <- MCSeeds
  Report = {pm}
  ReportOf <- MCReportOf
  ServiceOf <- MCServiceOf
  LengthOf <- MCLengthOf
  Service = {orderSvc, paymentSvc, searchSvc}
  Score = {0, 1}
  TopK = 3
  Budget = 2400
  Providers <- MCProviders
  MaxRetries = 2
  Tokens = {1}
INVARIANTS
  SeedingIsAtomic
  SearchFindsItsService
  FailoverInOrder
PROPERTY
  ImplementsModelCalls
CHECK_DEADLOCK FALSE
