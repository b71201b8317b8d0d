SPECIFICATION Spec
CONSTANTS
  NoTxn = NoTxn
  Article = art
  Comments = {}
  Media = {img1, img2}
  Content = {A, B}
  Empty = Empty
  Crawlers = {crawl1}
  Indexers = {idx1}
  Owners = {}
  BatchSize = 2
  MaxCrawls = 3
  MaxDenials = 0
INVARIANTS IndexedIsSearchable
SYMMETRY Symmetry
CHECK_DEADLOCK FALSE
