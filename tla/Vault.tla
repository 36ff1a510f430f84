------------------------------- MODULE Vault -------------------------------
(***************************************************************************)
(* crates/markdown-store: the clones of one VaultHandle used by concurrent *)
(* clients over one directory of record files.                             *)
(*                                                                         *)
(* Every write holds the handle's write lock from its first look at the    *)
(* disk to the last index it refreshes; reads take no lock.  A step is one *)
(* visible change of the disk: the rename that commits a record, the       *)
(* rename or removal of one index.md, or a decision taken on what was just *)
(* read.  Temporary files are hidden from every reader and left out.       *)
(*                                                                         *)
(* The disk can fail at every read and write (DiskFaults), also where the  *)
(* index upkeep takes a failure for an answer and goes on (SilentFaults);  *)
(* the mutation closure can fail or panic, the process can crash between   *)
(* any two steps, and people edit files while no write is under way (the   *)
(* documented single-owner stance).  MaxCalls, MaxCrashes and MaxHandEdits *)
(* bound the model.                                                        *)
(***************************************************************************)
EXTENDS Records

CONSTANTS
  Clients,          \* threads or tasks that share the handle
  IndexOn,          \* OkfPolicy::index
  Attached,         \* directories that also hold a log.md, which is no record
  DiskFaults,       \* whether an operation that reports its failure can fail
  SilentFaults,     \* which operations that swallow their failure can fail
  Panics,           \* whether a mutation closure can panic
  MaxCalls, MaxCrashes, MaxHandEdits,
  HandSlots,        \* what a hand edit leaves in a record file
  HandTexts,        \* what a hand edit leaves in an index.md
  NoIndex, Foreign, \* index.md missing; not of the store's shape
  Nobody

ASSUME VaultAssumption ==
  /\ Nobody \notin Clients
  /\ Attached \subseteq Dirs
  /\ SilentFaults \subseteq {"record", "stat", "index", "walk"}
  /\ MaxCalls \in Nat /\ MaxCrashes \in Nat /\ MaxHandEdits \in Nat
  /\ HandSlots \subseteq Slot

VARIABLES
  files,      \* directory |-> id |-> the record file
  index,      \* directory |-> its index.md
  stale,      \* VaultHandle::stale: directories whose refresh failed
  doubt,      \* history: directories whose last visit swallowed a failure
  lock,       \* who holds VaultHandle::write_guard
  poisoned,   \* whether a holder of the lock has panicked
  pc,         \* client |-> where it is in its call
  req,        \* client |-> the call it is making
  res,        \* client |-> its answer
  draft,      \* client |-> the record write it is about to commit
  todo,       \* client |-> directories whose index it has yet to visit
  page,       \* client |-> the index it has rendered and not yet written
  calls, crashes, hands   \* how much of each bound is used up

local == <<pc, req, res, draft, todo, page>>
disk  == <<files, index>>
spent == <<calls, crashes, hands>>
vars  == <<files, index, stale, doubt, lock, poisoned, local, spent>>

NoDraft == [id |-> NoDoc, slot |-> NoDoc]
Draft   == [id : Ids, slot : Doc \cup {NoDoc}] \cup {NoDraft}

(* An index.md of the store's shape: the records it links, under their     *)
(* `type`, the directories, and whether it links the directory's log.md.   *)
(* Only a person writes a link to a log.md.                                *)
Page    == [docs : [Ids -> Slot], subs : SUBSET (Dirs \ {Root}), log : BOOLEAN]
NoPage  == [dir |-> Root, body |-> NoIndex, failed |-> FALSE]
Render  == [dir : Dirs, body : Page \cup {NoIndex}, failed : BOOLEAN]

ASSUME IndexAssumption ==
  /\ NoIndex \notin Page /\ Foreign \notin Page /\ NoIndex # Foreign
  /\ HandTexts \subseteq Page \cup {NoIndex, Foreign}

-----------------------------------------------------------------------------
(* What an index.md should say.                                            *)

HasRecords(d) == \E i \in Ids : files[d][i] # NoDoc

Subdirs(d) == IF d = Root THEN {x \in Dirs \ {Root} : HasRecords(x)} ELSE {}

Holds(d) == HasRecords(d) \/ Subdirs(d) # {}

Listing(docs, subs) ==
  IF subs = {} /\ \A i \in Ids : docs[i] = NoDoc THEN NoIndex
  ELSE [docs |-> docs, subs |-> subs, log |-> FALSE]

(* The directory's own records and the subdirectories that hold some;      *)
(* nothing when there are none.  An unparseable record is listed like any  *)
(* other.                                                                  *)
Wanted(d) == Listing(files[d], Subdirs(d))

(* What `render_index` can return: a record that cannot be read is listed  *)
(* untyped, and a directory whose `exists` fails counts as missing.        *)
Unread(d) == IF "record" \in SilentFaults THEN SUBSET {i \in Ids : files[d][i] # NoDoc} ELSE {{}}
Seen(d)   == IF "stat" \in SilentFaults THEN SUBSET Subdirs(d) ELSE {Subdirs(d)}
Rendered(d) ==
  {Listing([i \in Ids |-> IF i \in unread THEN Broken ELSE files[d][i]], subs) :
     unread \in Unread(d), subs \in Seen(d)}
  \cup {none \in {NoIndex} : "stat" \in SilentFaults}

StoreShaped(d) == index[d] \notin {NoIndex, Foreign}

(* Mutant: one dangling link is enough.                                    *)
DanglesSome(d) ==
  \/ \E i \in Ids : index[d].docs[i] # NoDoc /\ files[d][i] = NoDoc
  \/ \E x \in index[d].subs : ~(d = Root /\ (HasRecords(x) \/ x \in Attached))
  \/ index[d].log /\ d \notin Attached

(* No link of an index of the store's shape resolves: the records and the  *)
(* log.md are gone, and so is every file but indexes in each directory.    *)
(* Entity directories lie below the root and have no subdirectories.       *)
Dangles(d) ==
  /\ \A i \in Ids : index[d].docs[i] # NoDoc => files[d][i] = NoDoc
  /\ \A x \in index[d].subs : ~(d = Root /\ (HasRecords(x) \/ x \in Attached))
  /\ index[d].log => d \notin Attached

Removable(d) == StoreShaped(d) /\ Dangles(d)

Current(d) == IF Holds(d) THEN index[d] = Wanted(d) ELSE ~Removable(d)

(* Mutant: the ancestors are forgotten.                                    *)
ChainShort(d) == {d}

(* The directory of a record and each ancestor up to the root.             *)
Chain(d) == {d, Root}

-----------------------------------------------------------------------------
Init ==
  /\ files = [d \in Dirs |-> [i \in Ids |-> NoDoc]]
  /\ index = [d \in Dirs |-> NoIndex]
  /\ stale = {}
  /\ doubt = {}
  /\ lock = Nobody
  /\ poisoned = FALSE
  /\ pc = [c \in Clients |-> "idle"]
  /\ req = [c \in Clients |-> NoRequest]
  /\ res = [c \in Clients |-> NoAnswer]
  /\ draft = [c \in Clients |-> NoDraft]
  /\ todo = [c \in Clients |-> {}]
  /\ page = [c \in Clients |-> NoPage]
  /\ calls = 0 /\ crashes = 0 /\ hands = 0

Go(c, from, to) == pc[c] = from /\ pc' = [pc EXCEPT ![c] = to]

Reply(c, status, val) == res' = [res EXCEPT ![c] = Answered(status, val)]

(* The guard of `lock()` is dropped when the call returns.                 *)
Unlock(c, from) == Go(c, from, "done") /\ lock' = Nobody

(* Mutant: a flag cleared on return in place of a guard dropped on unwind. *)
FinishKeepsLock(c, from, status, val) ==
  /\ Go(c, from, "done")
  /\ lock' = IF status = "panicked" THEN lock ELSE Nobody
  /\ Reply(c, status, val)
  /\ todo' = [todo EXCEPT ![c] = {}]
  /\ UNCHANGED <<files, index, stale, doubt, req, page, spent>>

(* A write that ends before it changed the disk.                           *)
Finish(c, from, status, val) ==
  /\ Unlock(c, from)
  /\ Reply(c, status, val)
  /\ todo' = [todo EXCEPT ![c] = {}]
  /\ UNCHANGED <<files, index, stale, doubt, req, page, spent>>

Slots(c) == files[req[c].ent.dir]

-----------------------------------------------------------------------------
(* The calls.                                                              *)

Call(c) ==
  /\ calls < MaxCalls
  /\ calls' = calls + 1
  /\ \E r \in Request :
       /\ req' = [req EXCEPT ![c] = r]
       /\ Go(c, "idle", IF r.op = "read" THEN "read" ELSE "wait")
  /\ Reply(c, "pending", NoDoc)
  /\ UNCHANGED <<disk, stale, doubt, lock, poisoned, draft, todo, page, crashes, hands>>

(* Mutants: each clone has a lock of its own; a poisoned lock is unwrapped *)
(* and ends the call.                                                      *)
AcquireOwn(c) ==
  /\ Go(c, "wait", "locked")
  /\ lock' = c
  /\ UNCHANGED <<disk, stale, doubt, poisoned, req, res, draft, todo, page, spent>>

AcquireUnwrap(c) ==
  \/ ~poisoned /\ lock = Nobody /\ AcquireOwn(c)
  \/ /\ poisoned /\ lock = Nobody
     /\ Go(c, "wait", "done")
     /\ Reply(c, "panicked", NoDoc)
     /\ UNCHANGED <<disk, stale, doubt, lock, poisoned, req, draft, todo, page, spent>>

(* `lock()`: a poisoned mutex is taken like any other.                     *)
Acquire(c) ==
  /\ Go(c, "wait", "locked")
  /\ lock = Nobody
  /\ lock' = c
  /\ UNCHANGED <<disk, stale, doubt, poisoned, req, res, draft, todo, page, spent>>

(* The lock holder has decided what to write, and to which file.           *)
Decide(c, id, slot) ==
  /\ Go(c, "locked", "commit")
  /\ draft' = [draft EXCEPT ![c] = [id |-> id, slot |-> slot]]
  /\ UNCHANGED <<disk, stale, doubt, lock, poisoned, req, res, todo, page, spent>>

Refuse(c, status) ==
  /\ Finish(c, "locked", status, NoDoc)
  /\ UNCHANGED <<poisoned, draft>>

(* A create under a given id: `taken`, then `write_new`.                   *)
Create(c) ==
  /\ req[c].op = "create"
  /\ \/ Slots(c)[req[c].id] = NoDoc /\ Decide(c, req[c].id, NewDoc(req[c].ent))
     \/ Slots(c)[req[c].id] # NoDoc /\ Refuse(c, "already_exists")

(* A create under an id derived from a field: `next_free_id`.              *)
Derive(c) ==
  /\ req[c].op = "derive"
  /\ FreeProbes(Slots(c), req[c].base) # {}
  /\ Decide(c, DerivedId(Slots(c), req[c].base), NewDoc(req[c].ent))

(* `EntityRecords::modify`: read, parse, admit, run the closure.  A clean  *)
(* document is not written and refreshes no index.                         *)
Modify(c) ==
  /\ req[c].op = "modify"
  /\ LET ent    == req[c].ent
         old    == Slots(c)[req[c].id]
         status == LookupStatus(ent, old) IN
       \/ status # "ok" /\ Refuse(c, status)
       \/ status = "ok" /\ Refuse(c, "refused")
       \/ /\ status = "ok"
          /\ Edited(ent, old, req[c].edit) = old
          /\ Refuse(c, "ok")
       \/ /\ status = "ok"
          /\ Edited(ent, old, req[c].edit) # old
          /\ Decide(c, req[c].id, Edited(ent, old, req[c].edit))
       \/ /\ status = "ok" /\ Panics
          /\ Finish(c, "locked", "panicked", NoDoc)
          /\ poisoned' = TRUE
          /\ UNCHANGED draft

Remove(c) ==
  /\ req[c].op = "remove"
  /\ LET status == RemoveStatus(req[c].ent, Slots(c)[req[c].id]) IN
       \/ status # "ok" /\ Refuse(c, status)
       \/ status = "ok" /\ Decide(c, req[c].id, NoDoc)

(* A look at the disk that fails: the file or directory cannot be read.    *)
(* The check of a create cannot fail, `is_file` takes an error for absence. *)
LookFails(c) ==
  /\ DiskFaults
  /\ req[c].op \in {"modify", "remove", "rebuild"}
  /\ Refuse(c, "io_error")

(* The rename or unlink.  From here on the call has succeeded, whatever    *)
(* becomes of the indexes.                                                 *)
Commit(c) ==
  /\ pc[c] = "commit"
  /\ files' = [files EXCEPT ![req[c].ent.dir] =
                 [@ EXCEPT ![draft[c].id] = draft[c].slot]]
  /\ Reply(c, "ok", IF req[c].op \in {"create", "derive"} THEN draft[c].id ELSE NoDoc)
  /\ draft' = [draft EXCEPT ![c] = NoDraft]
  /\ IF IndexOn
     THEN /\ Go(c, "commit", "render")
          /\ todo' = [todo EXCEPT ![c] = Chain(req[c].ent.dir)]
          /\ UNCHANGED lock
     ELSE Unlock(c, "commit") /\ UNCHANGED todo
  /\ UNCHANGED <<index, stale, doubt, poisoned, req, page, spent>>

(* Mutant: the error of the write is dropped.                              *)
CommitFailsSilently(c) ==
  /\ DiskFaults
  /\ Finish(c, "commit", "ok", NoDoc)
  /\ draft' = [draft EXCEPT ![c] = NoDraft]
  /\ UNCHANGED poisoned

CommitFails(c) ==
  /\ DiskFaults
  /\ Finish(c, "commit", "io_error", NoDoc)
  /\ draft' = [draft EXCEPT ![c] = NoDraft]
  /\ UNCHANGED poisoned

(* `read_opt`: one read of the file, without the lock.                     *)
Read(c) ==
  /\ Go(c, "read", "done")
  /\ LET slot   == Slots(c)[req[c].id]
         status == LookupStatus(req[c].ent, slot) IN
       \/ Reply(c, status, IF status = "ok" THEN slot ELSE NoDoc)
       \/ DiskFaults /\ Reply(c, "io_error", NoDoc)
  /\ UNCHANGED <<disk, stale, doubt, lock, poisoned, req, draft, todo, page, spent>>

Return(c) ==
  /\ Go(c, "done", "idle")
  /\ req' = [req EXCEPT ![c] = NoRequest]
  /\ res' = [res EXCEPT ![c] = NoAnswer]
  /\ UNCHANGED <<disk, stale, doubt, lock, poisoned, draft, todo, page, spent>>

-----------------------------------------------------------------------------
(* Index upkeep: `refresh_indexes` after a commit, and `rebuild_indexes`.  *)

Rebuilding(c) == req[c].op = "rebuild"

(* Mutant: only what is listed as stale is rebuilt.                        *)
RebuildScanStale(c) ==
  /\ Rebuilding(c)
  /\ LET dirs == {d \in stale : Holds(d)} IN
       /\ Go(c, "locked", IF dirs = {} THEN "sweep" ELSE "render")
       /\ todo' = [todo EXCEPT ![c] = dirs]
  /\ UNCHANGED <<disk, stale, doubt, lock, poisoned, req, res, draft, page, spent>>

(* Every directory that holds records at any depth; none of them when the  *)
(* root's `exists` fails.                                                  *)
RebuildScan(c) ==
  /\ Rebuilding(c)
  /\ LET held == {d \in Dirs : Holds(d)} IN
       \E dirs \in {held} \cup (IF "stat" \in SilentFaults THEN {{}} ELSE {}) :
         /\ Go(c, "locked", IF dirs = {} THEN "sweep" ELSE "render")
         /\ todo' = [todo EXCEPT ![c] = IF dirs = {} THEN {d \in Dirs : index[d] # NoIndex}
                                        ELSE dirs]
         /\ doubt' = doubt \cup (held \ dirs)
  /\ UNCHANGED <<disk, stale, lock, poisoned, req, res, draft, page, spent>>

(* A refresh climbs from the record's directory to the root; a rebuild     *)
(* visits directories in path order, the root first.                       *)
RenderIndex(c) ==
  /\ Go(c, "render", "index")
  /\ \E d \in todo[c] :
       /\ IF Rebuilding(c) THEN Root \in todo[c] => d = Root
                           ELSE d = Root => todo[c] = {Root}
       /\ \E body \in Rendered(d) :
            page' = [page EXCEPT ![c] = [dir |-> d, body |-> body, failed |-> body # Wanted(d)]]
       /\ todo' = [todo EXCEPT ![c] = @ \ {d}]
  /\ UNCHANGED <<disk, stale, doubt, lock, poisoned, req, res, draft, spent>>

(* The history of a visit that ends well.                                  *)
Visited(d, failed) == doubt' = IF failed THEN doubt \cup {d} ELSE doubt \ {d}

(* `remove_if_dangling`: an index.md of another shape or that still links  *)
(* something stays.  So does one that cannot be read back or whose linked  *)
(* directory cannot be walked, while a link whose `is_file` or `is_dir`    *)
(* fails counts as dangling; none of that is a failure of the visit.       *)
RemoveIfDangling(d, failed) ==
  \/ Removable(d) /\ index' = [index EXCEPT ![d] = NoIndex] /\ Visited(d, failed)
  \/ ~Removable(d) /\ UNCHANGED index /\ Visited(d, failed)
  \/ /\ \/ "index" \in SilentFaults /\ index[d] # NoIndex
        \/ "walk" \in SilentFaults /\ StoreShaped(d) /\ index[d].subs # {}
     /\ UNCHANGED index
     /\ Visited(d, TRUE)
  \/ /\ "stat" \in SilentFaults /\ StoreShaped(d)
     /\ index' = [index EXCEPT ![d] = NoIndex]
     /\ Visited(d, TRUE)

(* What follows the visit of one directory.                                *)
NextIndex(c) ==
  IF todo[c] # {}
  THEN Go(c, "index", "render") /\ UNCHANGED <<lock, todo>>
  ELSE IF Rebuilding(c)
  THEN /\ Go(c, "index", "sweep")
       /\ todo' = [todo EXCEPT ![c] = {d \in Dirs : index[d] # NoIndex /\ ~Holds(d)}]
       /\ UNCHANGED lock
  ELSE Unlock(c, "index") /\ UNCHANGED todo

SyncIndex(c) ==
  /\ pc[c] = "index"
  /\ LET d == page[c].dir IN
       /\ \/ /\ page[c].body # NoIndex
             /\ index' = [index EXCEPT ![d] = page[c].body]
             /\ Visited(d, page[c].failed)
          \/ page[c].body = NoIndex /\ RemoveIfDangling(d, page[c].failed)
       /\ stale' = stale \ {d}
  /\ NextIndex(c)
  /\ page' = [page EXCEPT ![c] = NoPage]
  /\ UNCHANGED <<files, poisoned, req, res, draft, spent>>

(* Mutant: a failed refresh is not noted.                                  *)
SyncIndexFailsSilently(c) ==
  /\ DiskFaults
  /\ pc[c] = "index"
  /\ ~Rebuilding(c)
  /\ NextIndex(c)
  /\ page' = [page EXCEPT ![c] = NoPage]
  /\ UNCHANGED <<disk, stale, doubt, poisoned, req, res, draft, spent>>

(* A failed refresh marks the directory and goes on to the next; a failed  *)
(* rebuild ends there.                                                     *)
SyncIndexFails(c) ==
  /\ DiskFaults
  /\ pc[c] = "index"
  /\ stale' = stale \cup {page[c].dir}
  /\ IF Rebuilding(c)
     THEN /\ Unlock(c, "index")
          /\ Reply(c, "io_error", NoDoc)
          /\ todo' = [todo EXCEPT ![c] = {}]
     ELSE NextIndex(c) /\ UNCHANGED res
  /\ page' = [page EXCEPT ![c] = NoPage]
  /\ UNCHANGED <<disk, doubt, poisoned, req, draft, spent>>

(* The index.md files of directories without records, or of every one when *)
(* the scan found none; no index.md is found when the root's `exists`      *)
(* fails.                                                                  *)
Sweep(c) ==
  /\ pc[c] = "sweep"
  /\ \/ \E d \in todo[c] :
          /\ RemoveIfDangling(d, Holds(d))
          /\ todo' = [todo EXCEPT ![c] = @ \ {d}]
     \/ /\ "stat" \in SilentFaults /\ todo[c] # {}
        /\ todo' = [todo EXCEPT ![c] = {}]
        /\ doubt' = doubt \cup todo[c]
        /\ UNCHANGED index
  /\ UNCHANGED <<files, stale, lock, poisoned, pc, req, res, draft, page, spent>>

(* The walk that lists them, or the removal of one, fails.                 *)
SweepFails(c) ==
  /\ DiskFaults
  /\ Finish(c, "sweep", "io_error", NoDoc)
  /\ UNCHANGED <<poisoned, draft>>

RebuildDone(c) ==
  /\ Unlock(c, "sweep")
  /\ todo[c] = {}
  /\ stale' = {}
  /\ Reply(c, "ok", NoDoc)
  /\ UNCHANGED <<disk, doubt, poisoned, req, draft, todo, page, spent>>

-----------------------------------------------------------------------------
(* The environment.                                                        *)

(* The process dies and the vault is opened again: the lock and the stale  *)
(* list live in memory, the files do not.  The history starts anew.        *)
Crash ==
  /\ crashes < MaxCrashes
  /\ crashes' = crashes + 1
  /\ stale' = {} /\ doubt' = {} /\ lock' = Nobody /\ poisoned' = FALSE
  /\ pc' = [c \in Clients |-> "idle"]
  /\ req' = [c \in Clients |-> NoRequest]
  /\ res' = [c \in Clients |-> NoAnswer]
  /\ draft' = [c \in Clients |-> NoDraft]
  /\ todo' = [c \in Clients |-> {}]
  /\ page' = [c \in Clients |-> NoPage]
  /\ UNCHANGED <<disk, calls, hands>>

(* A person edits, adds or deletes a record file or an index.md.           *)
HandEdit ==
  /\ hands < MaxHandEdits
  /\ hands' = hands + 1
  /\ lock = Nobody
  /\ \E d \in Dirs :
       \/ \E i \in Ids, slot \in HandSlots :
            /\ files' = [files EXCEPT ![d] = [@ EXCEPT ![i] = slot]]
            /\ UNCHANGED index
       \/ \E text \in HandTexts :
            /\ index' = [index EXCEPT ![d] = text]
            /\ UNCHANGED files
  /\ UNCHANGED <<stale, doubt, lock, poisoned, local, calls, crashes>>

(* Every call the bound allows has been made and answered.                 *)
Quiesce ==
  /\ calls = MaxCalls
  /\ \A c \in Clients : pc[c] = "idle"
  /\ UNCHANGED vars

Step(c) ==
  \/ Acquire(c)
  \/ pc[c] = "locked" /\ (Create(c) \/ Derive(c) \/ Modify(c) \/ Remove(c)
                          \/ RebuildScan(c) \/ LookFails(c))
  \/ Commit(c) \/ CommitFails(c) \/ Read(c) \/ Return(c)
  \/ RenderIndex(c) \/ SyncIndex(c) \/ SyncIndexFails(c)
  \/ Sweep(c) \/ SweepFails(c) \/ RebuildDone(c)

Next == (\E c \in Clients : Call(c) \/ Step(c)) \/ Crash \/ HandEdit \/ Quiesce

Spec == Init /\ [][Next]_vars

(* The scheduler runs every thread that can run.  Nothing more is assumed: *)
(* std's Mutex is not fair, callers need not call, disks need not fail.    *)
FairSpec == Spec /\ \A c \in Clients : WF_vars(Step(c))

-----------------------------------------------------------------------------
(* Properties.                                                             *)

Steps == {"idle", "wait", "locked", "commit", "render", "index", "sweep",
          "read", "done"}
Critical == {"locked", "commit", "render", "index", "sweep"}

(* Every variable has its type.                                            *)
TypeOK ==
  /\ files \in [Dirs -> [Ids -> Slot]]
  /\ index \in [Dirs -> Page \cup {NoIndex, Foreign}]
  /\ stale \in SUBSET Dirs
  /\ doubt \in SUBSET Dirs
  /\ lock \in Clients \cup {Nobody}
  /\ poisoned \in BOOLEAN
  /\ pc \in [Clients -> Steps]
  /\ req \in [Clients -> Request \cup {NoRequest}]
  /\ res \in [Clients -> Answer]
  /\ draft \in [Clients -> Draft]
  /\ todo \in [Clients -> SUBSET Dirs]
  /\ page \in [Clients -> Render]
  /\ calls \in 0..MaxCalls /\ crashes \in 0..MaxCrashes /\ hands \in 0..MaxHandEdits

(* The write lock is held by exactly the client inside a write, at every   *)
(* step of it, the index refresh included.                                 *)
LockHeld == \A c \in Clients : pc[c] \in Critical <=> lock = c

(* What a client's call, answer and draft look like at each of its steps.  *)
CallShape ==
  \A c \in Clients :
    /\ pc[c] = "idle" => res[c] = NoAnswer
    /\ pc[c] = "done" => res[c] \notin {NoAnswer, Pending}
    /\ pc[c] \in {"wait", "read", "locked", "commit", "sweep"} => res[c] = Pending
    /\ pc[c] \in {"wait", "locked"} => req[c] \in Request /\ req[c].op # "read"
    /\ pc[c] = "read" => req[c] \in LookupRequest /\ req[c].op = "read"
    /\ pc[c] = "commit" =>
         /\ req[c] \in CreateRequest \cup DeriveRequest \cup ModifyRequest \cup LookupRequest
         /\ req[c].op # "read"
         /\ draft[c] \in [id : Ids, slot : Doc \cup {NoDoc}]
    /\ pc[c] \in {"render", "index"} =>
         /\ req[c] \in Request
         /\ IF Rebuilding(c) THEN res[c] = Pending ELSE res[c] \notin {NoAnswer, Pending}
    /\ pc[c] = "sweep" => req[c] \in RebuildRequest

(* What a write is about to commit is what it would decide on now: a new   *)
(* record's file is still absent and its derived id still the first free   *)
(* one, an update is computed from the stored document, a removal still    *)
(* removes its own entity's record.                                        *)
Writes(c, id, slot) == draft[c] = [id |-> id, slot |-> slot]

Fresh(c) ==
  LET r   == req[c]
      old == Slots(c)[r.id] IN
    CASE r.op = "create" -> old = NoDoc /\ Writes(c, r.id, NewDoc(r.ent))
      [] r.op = "derive" -> /\ FreeProbes(Slots(c), r.base) # {}
                            /\ Writes(c, DerivedId(Slots(c), r.base), NewDoc(r.ent))
      [] r.op = "modify" -> /\ LookupStatus(r.ent, old) = "ok"
                            /\ Writes(c, r.id, Edited(r.ent, old, r.edit))
      [] r.op = "remove" -> RemoveStatus(r.ent, old) = "ok" /\ Writes(c, r.id, NoDoc)

DraftFresh == \A c \in Clients : pc[c] = "commit" => Fresh(c)

(* In a flat vault no call of one entity changes a record typed as another *)
(* entity's, whichever clients interleave.                                 *)
OwnRecordsOnly ==
  [][\A c \in Clients, i \in Ids :
       /\ Flat /\ pc[c] = "commit" /\ pc'[c] # "commit"
       /\ files[Root][i] \in Doc
       /\ files'[Root][i] # files[Root][i]
       => files[Root][i].type \in {Untyped, req[c].ent.type}]_vars

(* The records and directories an index names are those there are.         *)
Names(d) ==
  /\ StoreShaped(d)
  /\ index[d].subs = Subdirs(d)
  /\ \A i \in Ids : index[d].docs[i] = NoDoc <=> files[d][i] = NoDoc

(* A visit of a directory did what the failures it swallowed allow: its    *)
(* index is current unless there was one, and unless a `stat` can fail it  *)
(* names every record and directory even so.                               *)
Refreshed(d) ==
  /\ Current(d) \/ d \in doubt
  /\ "stat" \notin SilentFaults /\ Holds(d) => Names(d)

(* With no crash and no hand edit, whenever no write is under way the      *)
(* index of every directory is refreshed or listed by `stale_indexes`.     *)
IndexCurrentOrListed ==
  (IndexOn /\ crashes = 0 /\ hands = 0 /\ lock = Nobody) =>
    \A d \in Dirs : Refreshed(d) \/ d \in stale

(* "Each stays listed until a later real write in its directory, or        *)
(* rebuild_indexes, refreshes it": what leaves the stale list is current.  *)
StaleUntilRefreshed ==
  [][crashes' = crashes => \A d \in stale \ stale' : Current(d)']_vars

(* A write that ends leaves the indexes from its record's directory up to  *)
(* the root refreshed or listed, whatever crashes and hand edits came      *)
(* before.                                                                 *)
RefreshedOrListed ==
  [][\A c \in Clients :
       /\ pc[c] = "index" /\ pc'[c] = "done" /\ ~Rebuilding(c)
       => \A d \in {req[c].ent.dir, Root} : Refreshed(d)' \/ d \in stale']_vars

(* `rebuild_indexes` repairs: when it succeeds every index of the vault is *)
(* refreshed and none is listed stale, also after a crash or hand edits.   *)
RebuildRepairs ==
  [][\A c \in Clients :
       (pc[c] = "sweep" /\ res'[c].status = "ok")
       => stale' = {} /\ \A d \in Dirs : Refreshed(d)']_vars

(* An index of the store's shape that links a file which is no record.     *)
LinksFile(d) ==
  \/ index[d].log /\ d \in Attached
  \/ d = Root /\ index[d].subs \cap Attached # {}

(* An index.md a person wrote in a directory without records survives when *)
(* it has another shape than the store's, and when it links something that *)
(* is still there unless the `stat` of what it links failed.               *)
HandWrittenKept ==
  [][\A d \in Dirs :
       (~Holds(d) /\ hands' = hands) =>
         /\ index[d] = Foreign => index'[d] = Foreign
         /\ (StoreShaped(d) /\ LinksFile(d)) =>
              \/ index'[d] = index[d]
              \/ "stat" \in SilentFaults /\ d \in doubt']_vars

(* The vault keeps what RecordStore promises: every call takes effect at   *)
(* one instant between its invocation and its return.                      *)
RS == INSTANCE RecordStore WITH recs <- files, Hands <- MaxHandEdits > 0

Linearizable == RS!Spec

(* Every call returns: no one waits for ever, on a panicked holder, a      *)
(* failed refresh or a retried derivation.                                 *)
EveryCallReturns == \A c \in Clients : pc[c] # "idle" ~> pc[c] = "idle"
=============================================================================
