------------------------------ MODULE ItemTree ------------------------------
(***************************************************************************)
(* An entity that lists its own records in a `has_many` (Item.children,    *)
(* Node.contains), as both generated stores see it: the calls, and what    *)
(* each of them does to a store, and ends with, when no other call         *)
(* interferes.  The two backends promise the same answers.                 *)
(*                                                                         *)
(* A record is abstracted to its foreign key, the one field other calls    *)
(* rewrite.  Ids are numbers in byte order, and an id is derived by the    *)
(* probes 1, 2, 3, ... of a single title.  `required` tells whether the    *)
(* key is a String or an Option<String>, which changes what is emitted.    *)
(***************************************************************************)
EXTENDS Naturals, FiniteSets

CONSTANT N     \* ids are 1..N

ASSUME TreeAssumption == N \in Nat \ {0}

Ids      == 1..N
NoParent == 0          \* the foreign key is None
Absent   == N + 1      \* no record file
Derived  == 0          \* no id given: the store derives one
Keep     == N + 2      \* a field an update leaves alone

Record(required) == IF required THEN Ids ELSE Ids \cup {NoParent}
Store(required)  == [Ids -> Record(required) \cup {Absent}]
Empty    == [i \in Ids |-> Absent]

(* `lists` tells whether an update sets the children (`Some`) at all.      *)
CreateRequest(required) ==
  [op : {"create"}, id : Ids \cup {Derived}, parent : Record(required),
   children : SUBSET Ids, lists : {TRUE}]
UpdateRequest(required) ==
  [op : {"update"}, id : Ids, parent : Record(required) \cup {Keep},
   children : SUBSET Ids, lists : {TRUE}]
  \cup [op : {"update"}, id : Ids, parent : Record(required) \cup {Keep},
        children : {{}}, lists : {FALSE}]
OtherRequest ==
  [op : {"get", "delete"}, id : Ids, parent : {Keep}, children : {{}}, lists : {FALSE}]
NoRequest == [op |-> "none"]

Request(required) == CreateRequest(required) \cup UpdateRequest(required) \cup OtherRequest

(* The first probe that is free.                                           *)
FirstFree(s) == CHOOSE i \in Ids : s[i] = Absent /\ \A j \in Ids : s[j] = Absent => i <= j

-----------------------------------------------------------------------------
(* What a call does to a store, and how it ends, when nothing interferes.  *)

(* Mutant: only a create is asked whether it lists itself.                 *)
SelfListedCreate(r) == r.op = "create" /\ r.id # Derived /\ r.id \in r.children

SelfListed(r) == r.op \in {"create", "update"} /\ r.id # Derived /\ r.id \in r.children

(* `populate_relations`: never the record itself.                          *)
ChildrenOf(s, i) == {x \in Ids \ {i} : s[x] = i}

(* The first reason there is, in the order the stores look for one.        *)
Outcome(s, r, required) ==
  IF r.op # "create" /\ s[r.id] = Absent           THEN "not_found"
  ELSE IF SelfListed(r)                            THEN "parent_cycle"
  ELSE IF \E x \in r.children : s[x] = Absent      THEN "child_not_found"
  ELSE IF /\ r.op = "update" /\ r.lists /\ required
          /\ ChildrenOf(s, r.id) \ r.children # {} THEN "parent_required"
  ELSE IF r.op = "create" /\ r.id # Derived /\ s[r.id] # Absent
                                                   THEN "already_exists"
  ELSE "ok"

(* The store after a call that ended ok, about record i.                   *)
Applied(s, r, i) ==
  [x \in Ids |->
     IF x = i THEN IF r.op = "delete"      THEN Absent
                   ELSE IF r.parent = Keep THEN s[x]
                   ELSE r.parent
     ELSE IF x \in r.children                  THEN i
     ELSE IF r.op = "update" /\ r.lists /\ s[x] = i THEN NoParent
     ELSE s[x]]

(* The records a call can read or write, other than to list the directory. *)
Touched(s, r) ==
  IF r.id = Derived THEN Ids
  ELSE ({r.id, r.parent} \cap Ids) \cup r.children \cup {x \in Ids : s[x] = r.id}
=============================================================================
