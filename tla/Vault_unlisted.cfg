\* An index.md that cannot be read back when its directory loses its last record.
SPECIFICATION Spec
CONSTANTS
  root = root
  tasks = tasks
  notes = notes
  a = a
  a2 = a2
  a3 = a3
  slug = slug
  Task = Task
  Note = Note
  title = title
  body = body
  c1 = c1
  c2 = c2
  c3 = c3
  NoDoc = NoDoc
  Broken = Broken
  Untyped = Untyped
  NoRequest = NoRequest
  NoIndex = NoIndex
  Foreign = Foreign
  Nobody = Nobody
  Root = root
  Dirs <- OneDir
  Ids <- ThreeIds
  Bases = {slug}
  Probe <- ProbeThree
  Types = {Task, Note}
  Edits = {}
  Entities <- TaskView
  Flat = FALSE
  Clients <- TwoClients
  IndexOn = TRUE
  Attached = {}
  DiskFaults = TRUE
  SilentFaults = {"index"}
  Panics = FALSE
  MaxCalls = 3
  MaxCrashes = 0
  MaxHandEdits = 0
  HandSlots = {}
  HandTexts <- PlainText
SYMMETRY Symmetry
PROPERTY StaleUntilRefreshed
