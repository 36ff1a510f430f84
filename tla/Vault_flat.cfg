\* Two entities share one flat directory that people edit as well; closures panic,
\* disks fail and the process crashes.
SPECIFICATION FairSpec
CONSTANTS
  root = root
  tasks = tasks
  notes = notes
  a = a
  a2 = a2
  a3 = a3
  slug = slug
  Task = Task
  Note = Note
  title = title
  body = body
  c1 = c1
  c2 = c2
  c3 = c3
  NoDoc = NoDoc
  Broken = Broken
  Untyped = Untyped
  NoRequest = NoRequest
  NoIndex = NoIndex
  Foreign = Foreign
  Nobody = Nobody
  Root = root
  Dirs = {root}
  Ids <- ThreeIds
  Bases = {slug}
  Probe <- ProbeThree
  Types = {Task, Note}
  Edits = {title}
  Entities <- FlatPair
  Flat = TRUE
  Clients <- TwoClients
  IndexOn = TRUE
  Attached = {}
  DiskFaults = TRUE
  SilentFaults = {}
  Panics = TRUE
  MaxCalls = 2
  MaxCrashes = 1
  MaxHandEdits = 1
  HandSlots <- TypedHand
  HandTexts <- PlainText
PROPERTY OwnRecordsOnly
PROPERTY EveryCallReturns
