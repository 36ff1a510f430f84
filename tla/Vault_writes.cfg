\* Three clients write one entity directory; disks fail, closures panic.
SPECIFICATION Spec
CONSTANTS
  root = root
  tasks = tasks
  notes = notes
  a = a
  a2 = a2
  a3 = a3
  slug = slug
  Task = Task
  Note = Note
  title = title
  body = body
  c1 = c1
  c2 = c2
  c3 = c3
  NoDoc = NoDoc
  Broken = Broken
  Untyped = Untyped
  NoRequest = NoRequest
  NoIndex = NoIndex
  Foreign = Foreign
  Nobody = Nobody
  Root = root
  Dirs <- OneDir
  Ids <- ThreeIds
  Bases = {slug}
  Probe <- ProbeThree
  Types = {Task, Note}
  Edits = {title, body}
  Entities <- TaskView
  Flat = FALSE
  Clients <- ThreeClients
  IndexOn = TRUE
  Attached = {}
  DiskFaults = TRUE
  SilentFaults = {"record", "index", "walk"}
  Panics = TRUE
  MaxCalls = 3
  MaxCrashes = 0
  MaxHandEdits = 0
  HandSlots = {}
  HandTexts <- PlainText
SYMMETRY Symmetry
INVARIANT TypeOK
INVARIANT LockHeld
INVARIANT DraftFresh
INVARIANT IndexCurrentOrListed
PROPERTY Linearizable
