---------------------------- MODULE RecordStore ----------------------------
(***************************************************************************)
(* What the vault store promises its callers, one record at a time: every  *)
(* call takes effect at one instant between its invocation and its return, *)
(* on a plain map from ids to documents.  Creation never overwrites, a     *)
(* derived id is the first free one, an update is applied to the document  *)
(* current at that instant, and a failed call changes nothing.             *)
(*                                                                         *)
(* Index files, locks and faults of the disk do not appear: Vault is shown *)
(* to implement this module (property RS!Spec of the Vault runs).          *)
(***************************************************************************)
EXTENDS Records

CONSTANTS
  Clients,
  Hands     \* whether people edit the files of the vault as well

VARIABLES
  recs,   \* directory |-> id |-> the stored document
  req,    \* client |-> the call it is making
  res     \* client |-> its answer: none, pending, or final

vars == <<recs, req, res>>

Init ==
  /\ recs = [d \in Dirs |-> [i \in Ids |-> NoDoc]]
  /\ req = [c \in Clients |-> NoRequest]
  /\ res = [c \in Clients |-> NoAnswer]

Invoke(c, r) ==
  /\ res[c] = NoAnswer
  /\ req' = [req EXCEPT ![c] = r]
  /\ res' = [res EXCEPT ![c] = Pending]
  /\ UNCHANGED recs

Reply(c, status, val) ==
  /\ res' = [res EXCEPT ![c] = Answered(status, val)]
  /\ UNCHANGED req

Is(c, op) == res[c] = Pending /\ req[c].op = op

At(c) == recs[req[c].ent.dir]

Store(c, id, slot) ==
  recs' = [recs EXCEPT ![req[c].ent.dir] = [@ EXCEPT ![id] = slot]]

Create(c) ==
  /\ Is(c, "create")
  /\ \/ /\ At(c)[req[c].id] = NoDoc
        /\ Store(c, req[c].id, NewDoc(req[c].ent))
        /\ Reply(c, "ok", req[c].id)
     \/ /\ At(c)[req[c].id] # NoDoc
        /\ UNCHANGED recs
        /\ Reply(c, "already_exists", NoDoc)

Derive(c) ==
  /\ Is(c, "derive")
  /\ FreeProbes(At(c), req[c].base) # {}
  /\ LET id == DerivedId(At(c), req[c].base) IN
       /\ Store(c, id, NewDoc(req[c].ent))
       /\ Reply(c, "ok", id)

Modify(c) ==
  /\ Is(c, "modify")
  /\ LET slot   == At(c)[req[c].id]
         status == LookupStatus(req[c].ent, slot) IN
       \/ /\ status = "ok"
          /\ Store(c, req[c].id, Edited(req[c].ent, slot, req[c].edit))
          /\ Reply(c, "ok", NoDoc)
       \/ /\ status # "ok"
          /\ UNCHANGED recs
          /\ Reply(c, status, NoDoc)

Remove(c) ==
  /\ Is(c, "remove")
  /\ LET status == RemoveStatus(req[c].ent, At(c)[req[c].id]) IN
       \/ /\ status = "ok"
          /\ Store(c, req[c].id, NoDoc)
          /\ Reply(c, "ok", NoDoc)
       \/ /\ status # "ok"
          /\ UNCHANGED recs
          /\ Reply(c, status, NoDoc)

Read(c) ==
  /\ Is(c, "read")
  /\ LET slot   == At(c)[req[c].id]
         status == LookupStatus(req[c].ent, slot) IN
       Reply(c, status, IF status = "ok" THEN slot ELSE NoDoc)
  /\ UNCHANGED recs

(* A rebuild of the indexes, like every failure, leaves the records alone. *)
Rebuild(c) ==
  /\ Is(c, "rebuild")
  /\ Reply(c, "ok", NoDoc)
  /\ UNCHANGED recs

(* Only the closure of an update refuses or panics: no call suffers from   *)
(* the panic of another.                                                   *)
Fail(c) ==
  /\ res[c] = Pending
  /\ \/ Reply(c, "io_error", NoDoc)
     \/ Is(c, "modify") /\ \E status \in {"refused", "panicked"} : Reply(c, status, NoDoc)
  /\ UNCHANGED recs

Return(c) ==
  /\ res[c] \notin {NoAnswer, Pending}
  /\ req' = [req EXCEPT ![c] = NoRequest]
  /\ res' = [res EXCEPT ![c] = NoAnswer]
  /\ UNCHANGED recs

(* The process dies: calls in progress vanish, what was stored stays.      *)
Crash ==
  /\ req' = [c \in Clients |-> NoRequest]
  /\ res' = [c \in Clients |-> NoAnswer]
  /\ UNCHANGED recs

(* A person edits one file of the vault in an editor.                      *)
HandEdit ==
  /\ Hands
  /\ \E d \in Dirs, i \in Ids, slot \in Slot :
       recs' = [recs EXCEPT ![d] = [@ EXCEPT ![i] = slot]]
  /\ UNCHANGED <<req, res>>

Next ==
  \/ \E c \in Clients :
       \/ \E r \in Request : Invoke(c, r)
       \/ Create(c) \/ Derive(c) \/ Modify(c) \/ Remove(c)
       \/ Read(c) \/ Rebuild(c) \/ Fail(c) \/ Return(c)
  \/ Crash
  \/ HandEdit

Spec == Init /\ [][Next]_vars
=============================================================================
