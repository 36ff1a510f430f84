---------------------------- MODULE SeaormItems ----------------------------
(***************************************************************************)
(* The store Ontogen generates over SeaORM, for the same entity: every     *)
(* write of a create or an update goes through one transaction, whose      *)
(* first statement is a write; everything it reads first runs before it    *)
(* opens, and the read-back after it committed.                            *)
(*                                                                         *)
(* A step is one SQL statement.  SQLite and the connection pool are        *)
(* modelled by what the store relies on: a statement outside a transaction *)
(* takes a free connection of the pool and sees the committed rows, a      *)
(* transaction keeps its connection, and the first write waits for the one *)
(* write lock.  MaxCalls bounds the model.                                 *)
(***************************************************************************)
EXTENDS ItemTree

CONSTANTS
  Clients,     \* callers that share the Store
  Sites,       \* the keys, connection pools and faults there may be
  Requests,    \* the calls made, by whether the key is required
  Stores,      \* the tables the callers may find, likewise
  MaxCalls

ASSUME SeaormAssumption ==
  /\ MaxCalls \in Nat
  /\ Sites \subseteq [required : BOOLEAN, pool : Nat \ {0}, faulty : BOOLEAN]
  /\ \A b \in BOOLEAN : Requests[b] \subseteq Request(b) /\ Stores[b] \subseteq Store(b)

VARIABLES
  rows,     \* id |-> the committed row's foreign key, or Absent
  required, \* whether the foreign key is required
  pool,     \* how many connections the pool has
  faulty,   \* whether a statement can fail and a call be dropped
  open,     \* the clients with an open transaction
  writer,   \* the one whose transaction holds the write lock, {} if none
  view,     \* the table as the writer's transaction sees it
  pc, req,
  id,       \* client |-> the record its call is about, or the id it probes
  row,      \* client |-> the foreign key of the row its update read
  todo,     \* client |-> ids still to check or to write
  found,    \* client |-> children its last `populate_relations` found
  written,  \* client |-> whether its write is committed
  sent,     \* client |-> whether it has sent its change event
  res,      \* client |-> how its call ended
  calls,
  \* what the properties compare with, and no action reads:
  before,   \* client |-> the table its call found
  apart,    \* client |-> whether no overlapping call shares a record with it
  excused   \* client |-> whether a fault or a concurrent delete hit it

db    == <<rows, open, writer, view>>
site  == <<required, pool, faulty>>
mine  == <<pc, req, id, row, todo, found, written, sent, res>>
ghost == <<before, apart, excused>>
vars  == <<db, site, mine, calls, ghost>>

Init ==
  /\ \E s \in Sites : required = s.required /\ pool = s.pool /\ faulty = s.faulty
  /\ rows \in Stores[required]
  /\ open = {} /\ writer = {} /\ view = Empty
  /\ pc = [c \in Clients |-> "idle"]
  /\ req = [c \in Clients |-> NoRequest]
  /\ id = [c \in Clients |-> Derived]
  /\ row = [c \in Clients |-> Absent]
  /\ todo = [c \in Clients |-> {}]
  /\ found = [c \in Clients |-> {}]
  /\ written = [c \in Clients |-> FALSE]
  /\ sent = [c \in Clients |-> FALSE]
  /\ res = [c \in Clients |-> "none"]
  /\ calls = 0
  /\ before = [c \in Clients |-> Empty]
  /\ apart = [c \in Clients |-> TRUE]
  /\ excused = [c \in Clients |-> FALSE]

Go(c, from, to) == pc[c] = from /\ pc' = [pc EXCEPT ![c] = to]

(* A statement on `self.db()` takes a connection no transaction keeps.     *)
Free == Cardinality(open) < pool

(* A write waits until no other transaction holds the write lock.          *)
CanWrite(c) == writer \subseteq {c}

-----------------------------------------------------------------------------
(* What the call of d can have read or can still read or write: its        *)
(* records in the table it found and in the table now, and the children it *)
(* has found.                                                              *)
Reach(d) == Touched(rows, req[d]) \cup Touched(before[d], req[d]) \cup found[d]

(* The open calls that share a record with a new call r of c.  An update   *)
(* that has read its row writes the whole of it: the parent it names then  *)
(* gets the child back, whoever has moved it meanwhile.                    *)
Crossed(c, r) ==
  {d \in Clients \ {c} :
     /\ pc[d] # "idle"
     /\ Touched(rows, r) \cap Reach(d) # {} \/ row[d] = r.id}

Call(c) ==
  /\ calls < MaxCalls
  /\ calls' = calls + 1
  /\ \E r \in Requests[required] :
       /\ Go(c, "idle", CASE r.op = "create" -> "check"
                          [] r.op = "get"    -> "load"
                          [] OTHER           -> "find")
       /\ req' = [req EXCEPT ![c] = r]
       /\ id' = [id EXCEPT ![c] = r.id]
       /\ todo' = [todo EXCEPT ![c] = IF r.op = "create" THEN r.children ELSE {}]
       /\ apart' = [d \in Clients |-> IF d = c THEN Crossed(c, r) = {}
                                      ELSE apart[d] /\ d \notin Crossed(c, r)]
  /\ before' = [before EXCEPT ![c] = rows]
  /\ UNCHANGED <<db, site, row, found, written, sent, res, excused>>

(* Dropped without a commit, a transaction rolls back.                     *)
Rollback(c) ==
  /\ open' = open \ {c}
  /\ writer' = writer \ {c}
  /\ view' = IF c \in writer THEN Empty ELSE view
  /\ UNCHANGED rows

(* An early return with an error.                                          *)
Refuse(c, from, status) ==
  /\ Go(c, from, "done")
  /\ res' = [res EXCEPT ![c] = status]
  /\ todo' = [todo EXCEPT ![c] = {}]
  /\ Rollback(c)
  /\ UNCHANGED <<site, req, id, row, found, written, sent, calls, ghost>>

-----------------------------------------------------------------------------
(* What a write reads, before its transaction opens.                       *)

(* The current row of an update, or the row to delete.                     *)
Find(c) ==
  /\ pc[c] = "find" /\ Free
  /\ \/ rows[id[c]] = Absent /\ Refuse(c, "find", "not_found")
     \/ /\ rows[id[c]] # Absent
        /\ Go(c, "find", IF req[c].op = "update" THEN "children" ELSE "remove")
        /\ row' = [row EXCEPT ![c] = rows[id[c]]]
        /\ UNCHANGED <<db, site, req, id, todo, found, written, sent, res, calls, ghost>>

(* `populate_relations` of the current row.                                *)
Populate(c) ==
  /\ Go(c, "children", "check") /\ Free
  /\ found' = [found EXCEPT ![c] = ChildrenOf(rows, id[c])]
  /\ todo' = [todo EXCEPT ![c] = req[c].children \ ChildrenOf(rows, id[c])]
  /\ UNCHANGED <<db, site, req, id, row, written, sent, res, calls, ghost>>

CheckSelf(c) == SelfListed(req[c]) /\ Refuse(c, "check", "parent_cycle")

CheckListed(c) ==
  /\ ~SelfListed(req[c])
  /\ Free
  /\ \E x \in todo[c] :
       \/ rows[x] = Absent /\ Refuse(c, "check", "child_not_found")
       \/ /\ rows[x] # Absent
          /\ pc[c] = "check"
          /\ todo' = [todo EXCEPT ![c] = @ \ {x}]
          /\ UNCHANGED <<db, site, pc, req, id, row, found, written, sent, res, calls, ghost>>

(* Mutant: an update that drops nothing.                                   *)
DroppedNone(c) == {}

Dropped(c) == IF req[c].op = "update" /\ req[c].lists THEN found[c] \ req[c].children ELSE {}

Checked(c) == pc[c] = "check" /\ todo[c] = {} /\ ~SelfListed(req[c])

CheckDropped(c) ==
  /\ Checked(c)
  /\ required /\ Dropped(c) # {}
  /\ Refuse(c, "check", "parent_required")

-----------------------------------------------------------------------------
(* The transaction.                                                        *)

Begin(c) ==
  /\ Checked(c) /\ ~(required /\ Dropped(c) # {})
  /\ Free
  /\ Go(c, "check", IF req[c].op = "create" THEN "insert" ELSE "update")
  /\ open' = open \cup {c}
  /\ id' = [id EXCEPT ![c] = IF @ = Derived THEN 1 ELSE @]
  /\ UNCHANGED <<rows, writer, view, site, req, row, todo, found, written, sent, res, calls, ghost>>

(* The table a statement of c's transaction sees.                          *)
Seen(c) == IF c \in writer THEN view ELSE rows

(* The record's row, and then every child's foreign key.                   *)
WriteRow(c, from, fk) ==
  /\ Go(c, from, "link")
  /\ writer' = {c}
  /\ view' = [Seen(c) EXCEPT ![id[c]] = fk]
  /\ todo' = [todo EXCEPT ![c] = req[c].children \cup Dropped(c)]
  /\ UNCHANGED <<rows, open, site, req, id, row, found, written, sent, res, calls, ghost>>

(* Mutant: a derived id is looked up, and only the free one inserted.      *)
InsertLookedUp(c) ==
  /\ pc[c] = "insert" /\ CanWrite(c)
  /\ \/ Seen(c)[id[c]] = Absent /\ WriteRow(c, "insert", req[c].parent)
     \/ /\ Seen(c)[id[c]] # Absent
        /\ \/ req[c].id # Derived /\ Refuse(c, "insert", "already_exists")
           \/ /\ req[c].id = Derived /\ id[c] < N
              /\ id' = [id EXCEPT ![c] = @ + 1]
              /\ UNCHANGED <<db, site, pc, req, row, todo, found, written, sent, res, calls,
                             ghost>>

(* `try_insert`: an id that is taken ends a create that gave it, and moves *)
(* a derived one on to the next candidate.  The failed insert has taken    *)
(* the write lock as well.                                                 *)
Insert(c) ==
  /\ pc[c] = "insert" /\ CanWrite(c)
  /\ \/ Seen(c)[id[c]] = Absent /\ WriteRow(c, "insert", req[c].parent)
     \/ /\ Seen(c)[id[c]] # Absent
        /\ \/ req[c].id # Derived /\ Refuse(c, "insert", "already_exists")
           \/ /\ req[c].id = Derived /\ id[c] < N
              /\ id' = [id EXCEPT ![c] = @ + 1]
              /\ writer' = {c}
              /\ view' = Seen(c)
              /\ UNCHANGED <<rows, open, site, pc, req, row, todo, found, written, sent, res,
                             calls, ghost>>

(* Mutant: a field the update does not name is overwritten as well.        *)
RowAll(c) == req[c].parent

(* `updates.apply(&mut current)` and `to_active_model`.                    *)
Row(c) == IF req[c].parent = Keep THEN row[c] ELSE req[c].parent

(* The whole row as it was read and changed; no row to update is an error. *)
Update(c) ==
  /\ pc[c] = "update" /\ CanWrite(c)
  /\ \/ Seen(c)[id[c]] = Absent /\ Refuse(c, "update", "failed")
     \/ Seen(c)[id[c]] # Absent /\ WriteRow(c, "update", Row(c))

Parent(c, x) == IF x \in req[c].children THEN id[c] ELSE NoParent

(* Mutant: `set_item_parent` goes through `self.db()`.                     *)
SetParentOutside(c, x) ==
  /\ pc[c] = "link"
  /\ rows' = [rows EXCEPT ![x] = IF @ = Absent THEN @ ELSE Parent(c, x)]
  /\ view' = [view EXCEPT ![x] = IF @ = Absent THEN @ ELSE Parent(c, x)]
  /\ todo' = [todo EXCEPT ![c] = @ \ {x}]
  /\ UNCHANGED <<open, writer, site, pc, req, id, row, found, written, sent, res, calls, ghost>>

(* An UPDATE of a row that is gone changes nothing and is no error.        *)
SetParent(c, x) ==
  /\ pc[c] = "link"
  /\ view' = [view EXCEPT ![x] = IF @ = Absent THEN @ ELSE Parent(c, x)]
  /\ todo' = [todo EXCEPT ![c] = @ \ {x}]
  /\ UNCHANGED <<rows, open, writer, site, pc, req, id, row, found, written, sent, res, calls,
                 ghost>>

Link(c) == \E x \in todo[c] : SetParent(c, x)

(* Mutant: the transaction is still in scope during the read-back.         *)
CommitKept(c) ==
  /\ todo[c] = {} /\ Go(c, "link", "load")
  /\ rows' = view
  /\ writer' = {} /\ view' = Empty
  /\ written' = [written EXCEPT ![c] = TRUE]
  /\ UNCHANGED <<open, site, req, id, row, todo, found, sent, res, calls, ghost>>

Commit(c) ==
  /\ todo[c] = {} /\ Go(c, "link", "load")
  /\ rows' = view
  /\ open' = open \ {c} /\ writer' = {} /\ view' = Empty
  /\ written' = [written EXCEPT ![c] = TRUE]
  /\ UNCHANGED <<site, req, id, row, todo, found, sent, res, calls, ghost>>

-----------------------------------------------------------------------------
(* `get_item`, and what follows a write.                                   *)

Load(c) ==
  /\ pc[c] = "load" /\ Free
  /\ \/ rows[id[c]] = Absent /\ Refuse(c, "load", "not_found")
     \/ /\ rows[id[c]] # Absent /\ Go(c, "load", "list")
        /\ UNCHANGED <<db, site, req, id, row, todo, found, written, sent, res, calls, ghost>>

(* A call that ends well after a write sends its change event.             *)
Emit(c, from) ==
  /\ Go(c, from, "done")
  /\ res' = [res EXCEPT ![c] = "ok"]
  /\ sent' = [sent EXCEPT ![c] = req[c].op # "get"]

List(c) ==
  /\ Free
  /\ Emit(c, "list")
  /\ found' = [found EXCEPT ![c] = ChildrenOf(rows, id[c])]
  /\ UNCHANGED <<db, site, req, id, row, todo, written, calls, ghost>>

(* The DELETE by id; a row that is gone by now is no error either.         *)
Remove(c) ==
  /\ Free /\ CanWrite(c)
  /\ Emit(c, "remove")
  /\ rows' = [rows EXCEPT ![id[c]] = Absent]
  /\ written' = [written EXCEPT ![c] = TRUE]
  /\ excused' = [d \in Clients |-> excused[d] \/ (d # c /\ pc[d] # "idle")]
  /\ UNCHANGED <<open, writer, view, site, req, id, row, todo, found, calls, before, apart>>

-----------------------------------------------------------------------------
(* A statement fails, the pool or the busy timeout gives up, or the server *)
(* drops the call's future at an await.                                    *)
Abort(c) ==
  /\ faulty
  /\ pc[c] \notin {"idle", "done"} /\ pc' = [pc EXCEPT ![c] = "done"]
  /\ res' = [res EXCEPT ![c] = "failed"]
  /\ todo' = [todo EXCEPT ![c] = {}]
  /\ excused' = [excused EXCEPT ![c] = TRUE]
  /\ Rollback(c)
  /\ UNCHANGED <<site, req, id, row, found, written, sent, calls, before, apart>>

Return(c) ==
  /\ Go(c, "done", "idle")
  /\ req' = [req EXCEPT ![c] = NoRequest]
  /\ id' = [id EXCEPT ![c] = Derived]
  /\ row' = [row EXCEPT ![c] = Absent]
  /\ found' = [found EXCEPT ![c] = {}]
  /\ written' = [written EXCEPT ![c] = FALSE]
  /\ sent' = [sent EXCEPT ![c] = FALSE]
  /\ res' = [res EXCEPT ![c] = "none"]
  /\ before' = [before EXCEPT ![c] = Empty]
  /\ apart' = [apart EXCEPT ![c] = TRUE]
  /\ excused' = [excused EXCEPT ![c] = FALSE]
  /\ UNCHANGED <<db, site, todo, calls>>

Quiesce ==
  /\ calls = MaxCalls
  /\ \A c \in Clients : pc[c] = "idle"
  /\ UNCHANGED vars

Step(c) ==
  \/ Find(c) \/ Populate(c)
  \/ CheckSelf(c) \/ CheckListed(c) \/ CheckDropped(c)
  \/ Begin(c) \/ Insert(c) \/ Update(c) \/ Link(c) \/ Commit(c)
  \/ Load(c) \/ List(c) \/ Remove(c) \/ Return(c)

Next == (\E c \in Clients : Call(c) \/ Step(c) \/ Abort(c)) \/ Quiesce

Spec == Init /\ [][Next]_vars

(* The runtime polls every call that can go on.                            *)
FairSpec == Spec /\ \A c \in Clients : WF_vars(Step(c))

-----------------------------------------------------------------------------
(* Properties.                                                             *)

Steps == {"idle", "find", "children", "check", "insert", "update", "link", "remove", "load",
          "list", "done"}

(* Every variable has its type, and the write lock belongs to an open      *)
(* transaction.                                                            *)
TypeOK ==
  /\ required \in BOOLEAN /\ pool \in Nat \ {0} /\ faulty \in BOOLEAN
  /\ rows \in Store(required) /\ view \in Store(required)
  /\ open \subseteq Clients /\ Cardinality(open) <= pool
  /\ writer \subseteq open
  /\ pc \in [Clients -> Steps]
  /\ req \in [Clients -> Request(required) \cup {NoRequest}]
  /\ id \in [Clients -> Ids \cup {Derived}]
  /\ row \in [Clients -> Record(required) \cup {Absent}]
  /\ todo \in [Clients -> SUBSET Ids]
  /\ found \in [Clients -> SUBSET Ids]
  /\ written \in [Clients -> BOOLEAN] /\ sent \in [Clients -> BOOLEAN]
  /\ res \in [Clients -> {"none", "ok", "failed", "not_found", "parent_cycle",
                          "child_not_found", "parent_required", "already_exists"}]
  /\ calls \in 0..MaxCalls
  /\ before \in [Clients -> Store(required)]
  /\ apart \in [Clients -> BOOLEAN] /\ excused \in [Clients -> BOOLEAN]

(* The committed table after the whole write of c's call: its record, and  *)
(* then the children it links and unlinks.                                 *)
Own(c) ==
  CASE req[c].op = "create" -> req[c].parent
    [] req[c].op = "update" -> Row(c)
    [] OTHER                -> Absent

Base(c) == [rows EXCEPT ![id[c]] = Own(c)]

Whole(c) ==
  [x \in Ids |-> IF x \in req[c].children \cup Dropped(c) /\ Base(c)[x] # Absent
                 THEN Parent(c, x) ELSE Base(c)[x]]

(* "Writes are all or nothing": whenever the committed rows change, they   *)
(* change by the record and every child of one call at once, on top of all *)
(* that other calls have committed by then.                                *)
AllOrNothing ==
  [][rows' # rows => \E c \in Clients : ~written[c] /\ written'[c] /\ rows' = Whole(c)]_vars

(* "Concurrent creates of the same title get base, base-2, base-3, ...     *)
(* with none skipped": when a derived id is committed, every earlier       *)
(* candidate is taken and it is not.                                       *)
NoneSkipped ==
  [][\A c \in Clients :
       pc[c] = "link" /\ pc'[c] = "load" /\ req[c].op = "create" /\ req[c].id = Derived
         => id[c] = FirstFree(rows)]_vars

(* What the steps of one call rely on: the call is the one its step is     *)
(* for, its record is known, and nothing is committed before its commit.   *)
CallShape(c) ==
  /\ pc[c] # "idle" => req[c] \in Request(required)
  /\ pc[c] \in {"children", "update"} => req[c].op = "update"
  /\ pc[c] = "insert" => req[c].op = "create"
  /\ pc[c] \in {"check", "link"} => req[c].op \in {"create", "update"}
  /\ pc[c] = "find" => req[c].op \in {"update", "delete"}
  /\ pc[c] = "remove" => req[c].op = "delete"
  /\ pc[c] = "check" /\ req[c].op = "create" => id[c] = req[c].id
  /\ pc[c] \notin {"idle", "check", "done"} => id[c] \in Ids
  /\ pc[c] \in {"check", "update", "link"} /\ req[c].op = "update" =>
       id[c] \in Ids /\ row[c] \in Record(required) /\ id[c] \notin found[c]
  /\ pc[c] = "children" => row[c] \in Record(required)
  /\ pc[c] \in {"insert", "update", "link"} /\ required => Dropped(c) = {}
  /\ pc[c] = "link" => todo[c] \subseteq req[c].children \cup Dropped(c)
  /\ written[c] => pc[c] \in {"load", "list", "done"}

(* Only the transaction that holds the write lock has written, and until   *)
(* its record is in, it sees the committed table.                          *)
WriterShape(c) ==
  /\ c \in writer => writer = {c} /\ pc[c] \in {"insert", "link"}
  /\ pc[c] \in {"insert", "update", "link"} => c \in open
  /\ pc[c] = "link" => c \in writer
  /\ pc[c] = "insert" /\ c \in writer => view = rows

(* The write so far: what is left to write is as it is committed.          *)
WriteSoFar(c) ==
  pc[c] = "link" =>
    view = [x \in Ids |-> IF x \in todo[c] THEN Base(c)[x] ELSE Whole(c)[x]]

(* Every candidate id before the one probed is taken.                      *)
ProbedSoFar(c) ==
  pc[c] \in {"insert", "link"} /\ req[c].op = "create" /\ req[c].id = Derived =>
    /\ \A i \in Ids : i < id[c] => rows[i] # Absent
    /\ c \in writer \/ id[c] = 1
    /\ pc[c] = "link" => rows[id[c]] = Absent

(* A call ends as it would alone, and leaves the records it touches so, as *)
(* long as no overlapping call shares one with it; if it was not committed *)
(* it has changed nothing.                                                 *)
ApartIsExact ==
  \A c \in Clients : pc[c] = "done" /\ apart[c] =>
    LET r     == req[c]
        i     == IF r.id = Derived THEN FirstFree(before[c]) ELSE r.id
        after == IF written[c] THEN Applied(before[c], r, i) ELSE before[c]
    IN /\ ~excused[c] => res[c] = Outcome(before[c], r, required)
       /\ \A x \in Touched(before[c], r) : rows[x] = after[x]
       /\ res[c] = "ok" /\ r.op # "delete" => found[c] = ChildrenOf(after, i)

(* Every call returns, whatever the size of the pool: none waits on        *)
(* `self.db()` for a connection that its own transaction keeps.            *)
EveryCallReturns == \A c \in Clients : pc[c] # "idle" ~> pc[c] = "idle"
=============================================================================
