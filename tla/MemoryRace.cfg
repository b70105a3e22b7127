\* A system whose pages hold a stack (with pages of 4096 bytes the first
\* create never gets one), and three and a half of them.
CONSTANTS
  MemSize = 57344
  page_size = 16384
  MetaSize = 32
  PageHeader = 64
  BlockHeader = 40
  Tids = {t0, t1}
  main = t0
  StackSize = 8192
  LibrarySizes = {8, 8192}
  ThreadSizes = {400}
SPECIFICATION Spec
CHECK_DEADLOCK FALSE
INVARIANT OwnPages
