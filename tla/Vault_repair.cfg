\* Crashes between renames, hand edits and failing disks, then rebuilds.
SPECIFICATION Spec
CONSTANTS
  root = root
  tasks = tasks
  notes = notes
  a = a
  a2 = a2
  a3 = a3
  slug = slug
  Task = Task
  Note = Note
  title = title
  body = body
  c1 = c1
  c2 = c2
  c3 = c3
  NoDoc = NoDoc
  Broken = Broken
  Untyped = Untyped
  NoRequest = NoRequest
  NoIndex = NoIndex
  Foreign = Foreign
  Nobody = Nobody
  Root = root
  Dirs <- TwoDirs
  Ids = {a}
  Bases = {}
  Probe <- NoProbe
  Types = {Task, Note}
  Edits = {}
  Entities <- TwoViews
  Flat = FALSE
  Clients <- TwoClients
  IndexOn = TRUE
  Attached = {notes}
  DiskFaults = TRUE
  SilentFaults = {"record", "stat", "index", "walk"}
  Panics = FALSE
  MaxCalls = 3
  MaxCrashes = 1
  MaxHandEdits = 1
  HandSlots <- FewHand
  HandTexts <- AnyText
SYMMETRY Symmetry
PROPERTY RefreshedOrListed
PROPERTY RebuildRepairs
PROPERTY HandWrittenKept
