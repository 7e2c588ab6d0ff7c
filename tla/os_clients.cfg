CONSTANTS
  Hosts = {h1}
  Fds = {1}
  Slots = {1, 2}
  NoHost = NoHost
  NoFd = NoFd
  Clients = {1}
  Others = {2, 3}
  MaxObjs = 2
  MaxAttrs = 2
  MaxActive = 2
  Dir = Dir
  File = File
  Keys = {k1, k2}
  Inode = Inode
  Vals = {v1, v2}
  None = None
  CacheFds = {1}
  CacheSlots = {1, 2}
  MaxCalls = 2
SPECIFICATION MCSpec
INVARIANTS  ListingFaithful CoherentUnlessRaced
PROPERTIES OrphansClosed AbandonedBulkEnds StaleEntriesGo
CHECK_DEADLOCK FALSE
