----------------------------- MODULE MCSeaorm -----------------------------
(* Instances of SeaormItems for TLC.                                       *)
EXTENDS SeaormItems, TLC

CONSTANTS c1, c2

TwoClients == {c1, c2}

(* A pool of one or two connections; an optional key, and a required one   *)
(* with statements that fail.                                              *)
AllSites == [required : {FALSE}, pool : {1, 2}, faulty : {FALSE}]
            \cup [required : {TRUE}, pool : {1, 2}, faulty : {TRUE}]

Creates(ids, parent, lists) ==
  [op : {"create"}, id : ids, parent : {parent}, children : lists, lists : {TRUE}]

Updates(ids, parents, lists) ==
  [op : {"update"}, id : ids, parent : parents, children : lists, lists : {TRUE}]
  \cup [op : {"update"}, id : ids, parent : parents, children : {{}}, lists : {FALSE}]

Others(ops, ids) ==
  [op : ops, id : ids, parent : {Keep}, children : {{}}, lists : {FALSE}]

(* Creates under given ids, updates that list up to two records, deletes   *)
(* and reads; records 1 and 2 may be parents, record 4 is free.            *)
GivenCalls ==
  Creates({1, 4}, NoParent, {{}, {2}, {1, 2}})
  \cup Updates({1, 2}, {Keep, NoParent}, {{}, {3}, {2, 3}})
  \cup Others({"delete"}, 1..3) \cup Others({"get"}, {1})

Tables == {s \in Store(FALSE) : /\ s[1] \in {NoParent, Absent} /\ s[2] \in {NoParent, 1}
                                /\ s[3] \in {1, Absent} /\ \A i \in 4..N : s[i] = Absent
                                /\ s[1] = Absent => s[2] # 1 /\ s[3] # 1}

(* With a required key: creates under derived ids and updates of record 1, *)
(* its own parent, among deletes.                                          *)
RequiredCalls ==
  Creates({Derived}, 1, {{}, {2}})
  \cup Updates({1}, {Keep, 1}, SUBSET {2, 3})
  \cup Others({"delete"}, {2, 3})

RootedTables == {s \in Store(TRUE) : /\ s[1] = 1 /\ s[2] \in {1, Absent} /\ s[3] \in {2, Absent}
                                     /\ \A i \in 4..N : s[i] = Absent}

AllCalls  == [b \in BOOLEAN |-> IF b THEN RequiredCalls ELSE GivenCalls]
AllTables == [b \in BOOLEAN |-> IF b THEN RootedTables ELSE Tables]
=============================================================================
