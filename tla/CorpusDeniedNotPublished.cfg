SPECIFICATION Spec
CONSTANTS
  NoTxn = NoTxn
  Article = art
  Comments = {com}
  Media = {}
  Content = {A, B}
  Empty = Empty
  Crawlers = {crawl1}
  Indexers = {idx1}
  Owners = {own}
  BatchSize = 1
  MaxCrawls = 3
  MaxDenials = 1
INVARIANTS DeniedNotPublished
SYMMETRY Symmetry
CHECK_DEADLOCK FALSE
