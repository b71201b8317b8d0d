SPECIFICATION Spec
CONSTANTS
  NoTxn = NoTxn
  Article = art
  Comments = {com}
  Media = {}
  Content = {A, B}
  Empty = Empty
  Crawlers = {crawl1, crawl2}
  Indexers = {idx1, idx2}
  Owners = {own}
  BatchSize = 1
  MaxCrawls = 2
  MaxDenials = 2
INVARIANTS TypeOK SingleActiveVersion IndexedIsSearchable ExcludedArticleHidden
PROPERTIES ReconcileRepairs
SYMMETRY Symmetry
CHECK_DEADLOCK FALSE
