------------------------------ MODULE MCItems ------------------------------
(* Instances of MarkdownItems for TLC.                                     *)
EXTENDS MarkdownItems, TLC

CONSTANTS c1, c2

TwoClients == {c1, c2}

(* An optional key and calls under given ids of the records 1 to 3; a      *)
(* required key, derived ids and a vault that fails.                       *)
AllSites  == {[required |-> FALSE, faulty |-> FALSE], [required |-> TRUE, faulty |-> TRUE]}
OneSite   == {[required |-> FALSE, faulty |-> FALSE]}

(* Every call under a given id, with the record's own key set to nothing   *)
(* or left alone.  One list that names the record stands for all of them:  *)
(* they are refused alike.                                                 *)
GivenCalls ==
  {r \in Request(FALSE) : /\ r.id \in 1..3 /\ r.children \subseteq 1..3
                          /\ r.parent \in {NoParent, Keep}
                          /\ r.id \in r.children => r.children = {r.id}}

(* Creates under derived ids among deletes of the same records.            *)
DerivedCalls ==
  {r \in Request(FALSE) : /\ r.op \in {"create", "delete"} /\ r.op = "create" => r.id = Derived
                          /\ r.parent \in {NoParent, Keep}}

(* With a required key: record 1 is its own parent, records 2 and 3 may be *)
(* listed, and creates derive the ids 4 and 5 at the latest.               *)
RequiredCalls ==
  {r \in Request(TRUE) : /\ r.op = "create" <=> r.id = Derived
                         /\ r.id \in 0..3 /\ r.parent \in {1, Keep}
                         /\ r.children \subseteq {2, 3} /\ r.id \notin r.children}

(* Any records, each under record 1 or under none.                         *)
ShallowStores == {s \in Store(FALSE) : /\ s[1] # 1
                                       /\ \A i \in Ids : s[i] \in {NoParent, Absent, 1}
                                       /\ \A i \in Ids : i > 3 => s[i] = Absent}

RoomyStores == {s \in Store(FALSE) : \A i \in Ids : s[i] \in {NoParent, Absent} /\ s[3] = Absent}

RootedStores == {s \in Store(TRUE) : /\ s[1] = 1 /\ s[2] \in {1, 2} /\ s[3] \in {1, Absent}
                                     /\ s[4] = Absent /\ s[5] = Absent}

AllCalls  == [b \in BOOLEAN |-> IF b THEN RequiredCalls ELSE GivenCalls]
AllStores == [b \in BOOLEAN |-> IF b THEN RootedStores ELSE ShallowStores]

OneCalls  == [b \in BOOLEAN |-> IF b THEN {} ELSE DerivedCalls]
OneStores == [b \in BOOLEAN |-> IF b THEN {} ELSE RoomyStores]

Symmetry == Permutations(Clients)
=============================================================================
