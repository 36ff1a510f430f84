--------------------------- MODULE MarkdownItems ---------------------------
(***************************************************************************)
(* The store Ontogen generates over a markdown vault, for an entity that   *)
(* lists its own records in a `has_many` (Item.children, Node.contains):   *)
(* create, update, delete and get as concurrent callers interleave them.   *)
(*                                                                         *)
(* A step is one call of the vault, which takes effect at one instant      *)
(* (VaultProofs!VaultImplementsRecordStore); the steps of one store call   *)
(* share no lock and no transaction.  `read_all` is no single vault step:  *)
(* it lists the directory, then reads file by file.                        *)
(* MaxCalls bounds the model.                                              *)
(***************************************************************************)
EXTENDS ItemTree

CONSTANTS
  Clients,     \* callers that share the Store
  Sites,       \* the keys and faults there may be
  Requests,    \* the calls made, by whether the key is required
  Stores,      \* the stores the callers may find, likewise
  MaxCalls

ASSUME ItemsAssumption ==
  /\ MaxCalls \in Nat
  /\ Sites \subseteq [required : BOOLEAN, faulty : BOOLEAN]
  /\ \A b \in BOOLEAN : Requests[b] \subseteq Request(b) /\ Stores[b] \subseteq Store(b)

VARIABLES
  required, \* whether the foreign key is required
  faulty,   \* whether a call of the vault can fail
  store,    \* id |-> the record's foreign key, or Absent
  pc, req,
  id,       \* client |-> the record its call is about
  todo,     \* client |-> ids still to check, to link or to read
  dropped,  \* client |-> children it has to unlink
  found,    \* client |-> children its last `populate_relations` found
  written,  \* client |-> whether its record has been written or removed
  sent,     \* client |-> whether it has sent its change event
  res,      \* client |-> how its call ended
  calls,
  \* what the properties compare with, and no action reads:
  before,   \* client |-> the store its call found
  apart,    \* client |-> whether no overlapping call shares a record with it
  excused   \* client |-> whether the vault failed it or a record was deleted

site  == <<required, faulty>>
mine  == <<pc, req, id, todo, dropped, found, written, sent, res>>
ghost == <<before, apart, excused>>
vars  == <<site, store, mine, calls, ghost>>

Exists(i) == store[i] # Absent
Stored    == {i \in Ids : Exists(i)}

-----------------------------------------------------------------------------
Init ==
  /\ \E s \in Sites : required = s.required /\ faulty = s.faulty
  /\ store \in Stores[required]
  /\ pc = [c \in Clients |-> "idle"]
  /\ req = [c \in Clients |-> NoRequest]
  /\ id = [c \in Clients |-> Derived]
  /\ todo = [c \in Clients |-> {}]
  /\ dropped = [c \in Clients |-> {}]
  /\ found = [c \in Clients |-> {}]
  /\ written = [c \in Clients |-> FALSE]
  /\ sent = [c \in Clients |-> FALSE]
  /\ res = [c \in Clients |-> "none"]
  /\ calls = 0
  /\ before = [c \in Clients |-> Empty]
  /\ apart = [c \in Clients |-> TRUE]
  /\ excused = [c \in Clients |-> FALSE]

Go(c, from, to) == pc[c] \in from /\ pc' = [pc EXCEPT ![c] = to]

(* What the call of d can have read or can still read or write: its        *)
(* records in the store it found and in the store now, and the children it *)
(* has found.                                                              *)
Reach(d) == Touched(store, req[d]) \cup Touched(before[d], req[d]) \cup found[d]

(* The open calls that share a record with a new call r of c.              *)
Crossed(c, r) == {d \in Clients \ {c} : pc[d] # "idle" /\ Touched(store, r) \cap Reach(d) # {}}

Call(c) ==
  /\ calls < MaxCalls
  /\ calls' = calls + 1
  /\ \E r \in Requests[required] :
       /\ Go(c, {"idle"}, CASE r.op = "create" -> "check"
                            [] r.op = "delete" -> "remove"
                            [] OTHER           -> "load")
       /\ req' = [req EXCEPT ![c] = r]
       /\ id' = [id EXCEPT ![c] = r.id]
       /\ todo' = [todo EXCEPT ![c] = IF r.op = "create" THEN r.children ELSE {}]
       /\ apart' = [d \in Clients |-> IF d = c THEN Crossed(c, r) = {}
                                      ELSE apart[d] /\ d \notin Crossed(c, r)]
  /\ before' = [before EXCEPT ![c] = store]
  /\ UNCHANGED <<site, store, dropped, found, written, sent, res, excused>>

(* An early return with an error.                                          *)
Refuse(c, from, status) ==
  /\ Go(c, from, "done")
  /\ res' = [res EXCEPT ![c] = status]
  /\ todo' = [todo EXCEPT ![c] = {}]
  /\ dropped' = [dropped EXCEPT ![c] = {}]
  /\ UNCHANGED <<site, store, req, id, found, written, sent, calls, before, apart, excused>>

-----------------------------------------------------------------------------
(* The checks before the first write, in their order.                      *)

CheckSelf(c) == SelfListed(req[c]) /\ Refuse(c, {"check"}, "parent_cycle")

(* Mutant: the listed children are not looked up.                          *)
CheckListedBlind(c) ==
  /\ ~SelfListed(req[c])
  /\ pc[c] = "check" /\ todo[c] # {}
  /\ todo' = [todo EXCEPT ![c] = {}]
  /\ UNCHANGED <<site, store, pc, req, id, dropped, found, written, sent, res, calls, ghost>>

CheckListed(c) ==
  /\ ~SelfListed(req[c])
  /\ \E x \in todo[c] :
       \/ ~Exists(x) /\ Refuse(c, {"check"}, "child_not_found")
       \/ /\ Exists(x)
          /\ pc[c] = "check"
          /\ todo' = [todo EXCEPT ![c] = @ \ {x}]
          /\ UNCHANGED <<site, store, pc, req, id, dropped, found, written, sent, res, calls,
                         ghost>>

Checked(c) == pc[c] = "check" /\ todo[c] = {} /\ ~SelfListed(req[c])

CheckDropped(c) ==
  /\ Checked(c)
  /\ required /\ dropped[c] # {}
  /\ Refuse(c, {"check"}, "parent_required")

-----------------------------------------------------------------------------
(* The writes.                                                             *)

Write(c, i, fk) ==
  /\ Go(c, {"check"}, "link")
  /\ store' = [store EXCEPT ![i] = fk]
  /\ id' = [id EXCEPT ![c] = i]
  /\ written' = [written EXCEPT ![c] = TRUE]
  /\ todo' = [todo EXCEPT ![c] = req[c].children]
  /\ UNCHANGED <<site, req, dropped, found, sent, res, calls, ghost>>

(* `EntityRecords::create` under the given id, or the first free probe.    *)
WriteNew(c) ==
  /\ Checked(c) /\ req[c].op = "create"
  /\ \/ /\ id[c] # Derived
        /\ \/ ~Exists(id[c]) /\ Write(c, id[c], req[c].parent)
           \/ Exists(id[c]) /\ Refuse(c, {"check"}, "already_exists")
     \/ /\ id[c] = Derived
        /\ Stored # Ids
        /\ Write(c, FirstFree(store), req[c].parent)

(* The update's `modify` re-reads the record and sets only what it names.  *)
WriteUpdate(c) ==
  /\ Checked(c) /\ req[c].op = "update"
  /\ ~(required /\ dropped[c] # {})
  /\ \/ ~Exists(id[c]) /\ Refuse(c, {"check"}, "failed")
     \/ /\ Exists(id[c])
        /\ Write(c, id[c], IF req[c].parent = Keep THEN store[id[c]] ELSE req[c].parent)

(* Mutant: a child that is gone is answered like a failed check.           *)
SetParentChecks(c, x, fk) ==
  \/ ~Exists(x) /\ Refuse(c, {"link"}, "child_not_found")
  \/ /\ Exists(x) /\ pc[c] = "link"
     /\ store' = [store EXCEPT ![x] = fk]
     /\ todo' = [todo EXCEPT ![c] = @ \ {x}]
     /\ dropped' = [dropped EXCEPT ![c] = IF todo[c] = {} THEN @ \ {x} ELSE @]
     /\ UNCHANGED <<site, pc, req, id, found, written, sent, res, calls, ghost>>

(* `set_item_parent`, one child after the other.                           *)
SetParent(c, x, fk) ==
  \/ ~Exists(x) /\ Refuse(c, {"link"}, "failed")
  \/ /\ Exists(x) /\ pc[c] = "link"
     /\ store' = [store EXCEPT ![x] = fk]
     /\ todo' = [todo EXCEPT ![c] = @ \ {x}]
     /\ dropped' = [dropped EXCEPT ![c] = IF todo[c] = {} THEN @ \ {x} ELSE @]
     /\ UNCHANGED <<site, pc, req, id, found, written, sent, res, calls, ghost>>

Link(c) == \E x \in todo[c] : SetParent(c, x, id[c])

Unlink(c) == todo[c] = {} /\ \E x \in dropped[c] : SetParent(c, x, NoParent)

(* A call that ends well after its write sends its change event.           *)
Emit(c, from) ==
  /\ Go(c, from, "done")
  /\ res' = [res EXCEPT ![c] = "ok"]
  /\ sent' = [sent EXCEPT ![c] = req[c].op # "get"]

(* No record that names the deleted one is touched.                        *)
Remove(c) ==
  /\ pc[c] = "remove"
  /\ \/ ~Exists(id[c]) /\ Refuse(c, {"remove"}, "not_found")
     \/ /\ Exists(id[c]) /\ Emit(c, {"remove"})
        /\ store' = [store EXCEPT ![id[c]] = Absent]
        /\ written' = [written EXCEPT ![c] = TRUE]
        /\ excused' = [d \in Clients |-> excused[d] \/ (d # c /\ pc[d] # "idle")]
        /\ UNCHANGED <<site, req, id, todo, dropped, found, calls, before, apart>>

-----------------------------------------------------------------------------
(* `get_item`: the record, then its children.                              *)

Load(c) ==
  /\ pc[c] = "load" \/ (pc[c] = "link" /\ todo[c] = {} /\ dropped[c] = {})
  /\ \/ ~Exists(id[c]) /\ Refuse(c, {pc[c]}, "not_found")
     \/ /\ Exists(id[c]) /\ Go(c, {pc[c]}, "list")
        /\ UNCHANGED <<site, store, req, id, todo, dropped, found, written, sent, res, calls, ghost>>

List(c) ==
  /\ Go(c, {"list"}, "scan")
  /\ todo' = [todo EXCEPT ![c] = Stored]
  /\ found' = [found EXCEPT ![c] = {}]
  /\ UNCHANGED <<site, store, req, id, dropped, written, sent, res, calls, ghost>>

(* A listed file that is gone by the time it is read fails the whole call. *)
Scan(c) ==
  \E x \in todo[c] :
    /\ pc[c] = "scan"
    /\ \A y \in todo[c] : x <= y
    /\ \/ ~Exists(x) /\ Refuse(c, {"scan"}, "failed")
       \/ /\ Exists(x)
          /\ todo' = [todo EXCEPT ![c] = @ \ {x}]
          /\ found' = [found EXCEPT ![c] =
                         IF x # id[c] /\ store[x] = id[c] THEN @ \cup {x} ELSE @]
          /\ UNCHANGED <<site, store, pc, req, id, dropped, written, sent, res, calls, ghost>>

(* Mutant: an update that drops nothing.                                   *)
DroppedNone(c) == {}

(* `children_dropped` and the added children, from the stored list.        *)
Dropped(c) == IF req[c].lists THEN found[c] \ req[c].children ELSE {}

Added(c) == req[c].children \ found[c]

Scanned(c) ==
  /\ pc[c] = "scan" /\ todo[c] = {}
  /\ \/ /\ req[c].op = "update" /\ ~written[c]
        /\ Go(c, {"scan"}, "check")
        /\ todo' = [todo EXCEPT ![c] = Added(c)]
        /\ dropped' = [dropped EXCEPT ![c] = Dropped(c)]
        /\ UNCHANGED <<res, sent>>
     \/ /\ req[c].op = "get" \/ written[c]
        /\ Emit(c, {"scan"})
        /\ UNCHANGED <<todo, dropped>>
  /\ UNCHANGED <<site, store, req, id, found, written, calls, ghost>>

-----------------------------------------------------------------------------
(* A call of the vault fails.                                              *)
VaultFails(c) ==
  /\ faulty
  /\ Go(c, {"check", "link", "remove", "load", "list", "scan"}, "done")
  /\ res' = [res EXCEPT ![c] = "failed"]
  /\ todo' = [todo EXCEPT ![c] = {}]
  /\ dropped' = [dropped EXCEPT ![c] = {}]
  /\ excused' = [excused EXCEPT ![c] = TRUE]
  /\ UNCHANGED <<site, store, req, id, found, written, sent, calls, before, apart>>

Return(c) ==
  /\ Go(c, {"done"}, "idle")
  /\ req' = [req EXCEPT ![c] = NoRequest]
  /\ id' = [id EXCEPT ![c] = Derived]
  /\ found' = [found EXCEPT ![c] = {}]
  /\ written' = [written EXCEPT ![c] = FALSE]
  /\ sent' = [sent EXCEPT ![c] = FALSE]
  /\ res' = [res EXCEPT ![c] = "none"]
  /\ before' = [before EXCEPT ![c] = Empty]
  /\ apart' = [apart EXCEPT ![c] = TRUE]
  /\ excused' = [excused EXCEPT ![c] = FALSE]
  /\ UNCHANGED <<site, store, todo, dropped, calls>>

Quiesce ==
  /\ calls = MaxCalls
  /\ \A c \in Clients : pc[c] = "idle"
  /\ UNCHANGED vars

Step(c) ==
  \/ CheckSelf(c) \/ CheckListed(c) \/ CheckDropped(c)
  \/ WriteNew(c) \/ WriteUpdate(c) \/ Link(c) \/ Unlink(c) \/ Remove(c)
  \/ Load(c) \/ List(c) \/ Scan(c) \/ Scanned(c)
  \/ VaultFails(c) \/ Return(c)

Next == (\E c \in Clients : Call(c) \/ Step(c)) \/ Quiesce

Spec == Init /\ [][Next]_vars

-----------------------------------------------------------------------------
(* Properties.                                                             *)

Steps == {"idle", "check", "link", "remove", "load", "list", "scan", "done"}

Refusals == {"parent_cycle", "child_not_found", "parent_required", "already_exists"}

(* Every variable has its type.                                            *)
TypeOK ==
  /\ required \in BOOLEAN /\ faulty \in BOOLEAN
  /\ store \in Store(required)
  /\ pc \in [Clients -> Steps]
  /\ req \in [Clients -> Request(required) \cup {NoRequest}]
  /\ id \in [Clients -> Ids \cup {Derived}]
  /\ todo \in [Clients -> SUBSET Ids]
  /\ dropped \in [Clients -> SUBSET Ids]
  /\ found \in [Clients -> SUBSET Ids]
  /\ written \in [Clients -> BOOLEAN] /\ sent \in [Clients -> BOOLEAN]
  /\ res \in [Clients -> Refusals \cup {"none", "ok", "failed", "not_found"}]
  /\ calls \in 0..MaxCalls
  /\ before \in [Clients -> Store(required)]
  /\ apart \in [Clients -> BOOLEAN] /\ excused \in [Clients -> BOOLEAN]

(* Without transactions, a call still does exactly what it would do alone, *)
(* as long as no overlapping call shares a record with it: the records it  *)
(* touches, the children it answers and the error it ends with are those   *)
(* of one step on the store it found, however the steps of others fall     *)
(* between its own.                                                        *)
ApartIsExact ==
  \A c \in Clients : pc[c] = "done" /\ apart[c] =>
    LET r     == req[c]
        i     == IF r.id = Derived THEN FirstFree(before[c]) ELSE r.id
        after == IF res[c] = "ok" THEN Applied(before[c], r, i) ELSE before[c]
    IN /\ ~excused[c] => res[c] = Outcome(before[c], r, required)
       /\ res[c] = "ok" \/ ~excused[c] =>
            \A x \in Touched(before[c], r) : store[x] = after[x]
       /\ res[c] = "ok" /\ r.op # "delete" => found[c] = ChildrenOf(after, i)

(* "Every check above runs before the first write, so a refused write      *)
(* never does" leave some children changed, whatever is deleted meanwhile. *)
RefusedWritesNothing ==
  \A c \in Clients : res[c] \in Refusals => ~written[c]

(* "Only an I/O failure or a concurrent delete part-way can leave some     *)
(* children changed": any other call that has written its record goes on   *)
(* to link every child, to read back and to send its change event.         *)
AnnouncedUnlessFault ==
  \A c \in Clients :
    pc[c] = "done" /\ written[c] /\ ~excused[c] => sent[c] /\ res[c] = "ok"

(* "A record cannot be its own child": no list given under an id, however  *)
(* it interleaves with others and with deletes and re-creations, makes a   *)
(* record its own parent (under a required key, a root has to be; what a   *)
(* derived id can do is DerivedNotListed).                                 *)
NoSelfParent == required \/ \A i \in Ids : store[i] # i

(* "A derived id cannot be listed, since the checks run before it is       *)
(* derived."                                                               *)
DerivedNotListed ==
  \A c \in Clients :
    pc[c] = "link" /\ req[c].op = "create" /\ req[c].id = Derived =>
      id[c] \notin req[c].children

=============================================================================
