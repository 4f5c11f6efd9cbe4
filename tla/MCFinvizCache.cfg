CONSTANTS
  Threads = {t1, t2}
  Symbols = {a, b}
  Nobody = nobody
  NoSymbol = none
  MaxRequests = 3
  MaxKeys = 1
SPECIFICATION Spec
CHECK_DEADLOCK FALSE
INVARIANT TypeOK
INVARIANT RowsOfCurrentKey
INVARIANT LabelNewerOnlyIfOvertaken
INVARIANT LookupsAgree
PROPERTY LastGoodKept
