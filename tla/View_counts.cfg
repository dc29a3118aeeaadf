CONSTANTS
  library_root = library_root
  author = author
  book = book
  boxed = boxed
  disc = disc
  series = series
  single = single
  Folders = {library_root, author, book, boxed, disc, series, single}
  Root = library_root
  Parent <- ParentOf
  Above <- AboveOf
SPECIFICATION Spec
INVARIANTS
  TypeOK
  NodesTellTruth
  CountsAreTrue
  SummaryAgrees
PROPERTIES
  CollapseLeadsSwap
