CONSTANTS
  MemSize <- FourPages
  page_size = 4096
  MetaSize = 32
  PageHeader = 64
  BlockHeader = 40
  StackDepth = 2
  Tids = {t1, t2}
  LibrarySizes <- LibraryAsks
  ThreadSizes <- ClientAsks
SYMMETRY ThreadSymmetry
SPECIFICATION Spec
CHECK_DEADLOCK FALSE
INVARIANTS TypeOK PagesTile BlocksTile LiveInOwnPage DataSpared RecursionBounded OverrunOnlyWhenFull
PROPERTIES PagesStayAssigned
