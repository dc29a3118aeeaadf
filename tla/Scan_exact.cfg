CONSTANTS
  library_root = library_root
  author = author
  book = book
  disc = disc
  hidden = hidden
  Folders = {library_root, author, book, disc, hidden}
  Root = library_root
  Parent <- ParentOf
  Above <- AboveOf
  Level <- LevelOf
  Audio = {author, book, hidden}
  Excluded = {hidden}
  MaxDepth = 2
  ReadCanFail = TRUE
SPECIFICATION Spec
INVARIANTS
  TypeOK
  SectionIsExact
  OmissionsCounted
PROPERTIES
  ViewSpec
