--------------------------- MODULE SeaormProofs ---------------------------
(***************************************************************************)
(* Theorems about SeaormItems, for any number of clients, any set of calls *)
(* and tables, any pool and any bound on the calls.                        *)
(*                                                                         *)
(* The argument: who holds the write lock (WriterShape) is the only one    *)
(* whose step can change the committed rows under a transaction, so what   *)
(* its transaction sees stays the committed table plus the part of its     *)
(* write that is done (WriteSoFar), and the candidates it found taken stay *)
(* taken (ProbedSoFar).  Calls that are apart reach disjoint sets of       *)
(* records (Separate), so what one of them has read or written stays as it *)
(* was until it ends (Alone).                                              *)
(*                                                                         *)
(* A call that keeps a connection waits for the write lock only            *)
(* (InTransaction), so not everyone waits on everyone; and every step of a *)
(* call brings its return nearer (Left).                                   *)
(***************************************************************************)
EXTENDS SeaormItems, FiniteSetTheorems, TLAPS

-----------------------------------------------------------------------------
(* Lemmas about the data.                                                  *)

LEMMA RecordFacts ==
  /\ Ids \subseteq Record(required)
  /\ Absent \notin Record(required) /\ Keep \notin Record(required)
  /\ Absent \notin Ids /\ Derived \notin Ids /\ 1 \in Ids
  /\ required \/ NoParent \in Record(required)
  BY TreeAssumption DEF Record, Ids, Absent, Keep, Derived, NoParent

LEMMA RequestFacts ==
  ASSUME NEW r \in Request(required)
  PROVE  /\ r.op \in {"create", "update", "get", "delete"}
         /\ r.id \in Ids \cup {Derived} /\ r.parent \in Record(required) \cup {Keep}
         /\ r.children \in SUBSET Ids
         /\ r.op = "create" => r.parent \in Record(required)
         /\ r.op # "create" => r.id \in Ids
         /\ r.op \in {"get", "delete"} => r.children = {}
  BY DEF Request, CreateRequest, UpdateRequest, OtherRequest

LEMMA ChildrenType ==
  ASSUME NEW s, NEW i PROVE ChildrenOf(s, i) \in SUBSET Ids /\ i \notin ChildrenOf(s, i)
  BY DEF ChildrenOf

(* The pool with one connection more or less in use.                       *)
LEMMA OpenMore ==
  ASSUME NEW S, IsFiniteSet(S), NEW k \in Nat, Cardinality(S) < k, NEW c
  PROVE  IsFiniteSet(S \cup {c}) /\ Cardinality(S \cup {c}) <= k
<1>1. Cardinality(S) \in Nat
  BY FS_CardinalityType
<1>2. /\ IsFiniteSet(S \cup {c})
      /\ Cardinality(S \cup {c}) = IF c \in S THEN Cardinality(S) ELSE Cardinality(S) + 1
  BY FS_AddElement
<1>3. QED
  BY <1>1, <1>2

LEMMA OpenLess ==
  ASSUME NEW S, IsFiniteSet(S), NEW k \in Nat, Cardinality(S) <= k, NEW c
  PROVE  IsFiniteSet(S \ {c}) /\ Cardinality(S \ {c}) <= k
<1>1. Cardinality(S) \in Nat
  BY FS_CardinalityType
<1>2. /\ IsFiniteSet(S \ {c})
      /\ Cardinality(S \ {c}) = IF c \in S THEN Cardinality(S) - 1 ELSE Cardinality(S)
  BY FS_RemoveElement
<1>3. QED
  BY <1>1, <1>2

-----------------------------------------------------------------------------
(* The inductive invariant.                                                *)

Shape(c) == CallShape(c) /\ WriterShape(c) /\ WriteSoFar(c) /\ ProbedSoFar(c)

Inv == TypeOK /\ IsFiniteSet(open) /\ \A c \in Clients : Shape(c)

LEMMA InitInv == Init => Inv
<1> SUFFICES ASSUME Init PROVE Inv
  OBVIOUS
<1>1. TypeOK /\ IsFiniteSet(open)
  <2>1. IsFiniteSet(open) /\ Cardinality(open) = 0
    BY FS_EmptySet DEF Init
  <2>2. pool \in Nat /\ calls \in 0..MaxCalls
    BY SeaormAssumption DEF Init
  <2>3. Empty \in Store(required)
    BY DEF Empty, Store
  <2>4. QED
    BY <2>1, <2>2, <2>3, SeaormAssumption DEF Init, TypeOK, Steps
<1>2. \A c \in Clients : Shape(c)
  BY DEF Init, Shape, CallShape, WriterShape, WriteSoFar, ProbedSoFar
<1>3. QED
  BY <1>1, <1>2 DEF Inv


(* A client that takes no step keeps its shape, as long as its transaction *)
(* stays what it is and, if it holds the write lock, the rows stay too.    *)
LEMMA OtherKept ==
  ASSUME Inv, NEW c \in Clients, required' = required,
         pc'[c] = pc[c], req'[c] = req[c], id'[c] = id[c], row'[c] = row[c],
         todo'[c] = todo[c], found'[c] = found[c], written'[c] = written[c],
         c \in open => c \in open',
         c \notin writer => c \notin writer',
         c \in writer => writer' = writer /\ view' = view /\ rows' = rows
  PROVE  Shape(c)'
<1>1. Shape(c)
  BY DEF Inv
<1>2. CallShape(c)'
  BY <1>1 DEF Shape, CallShape, Dropped
<1>3. WriterShape(c)'
  BY <1>1 DEF Shape, WriterShape
<1>4. WriteSoFar(c)'
  <2>1. ASSUME pc[c] = "link" PROVE rows' = rows /\ view' = view
    BY <1>1, <2>1 DEF Shape, WriterShape
  <2>2. QED
    BY <1>1, <2>1 DEF Shape, WriteSoFar, Whole, Base, Own, Row, Dropped, Parent
<1>5. ProbedSoFar(c)'
  <2>1. CASE c \in writer
    BY <1>1, <2>1 DEF Shape, ProbedSoFar
  <2>2. CASE c \notin writer
    <3>1. pc[c] # "link"
      BY <1>1, <2>2 DEF Shape, WriterShape
    <3>2. \A i \in Ids : ~(i < 1)
      BY TreeAssumption DEF Ids
    <3>3. QED
      BY <1>1, <2>2, <3>1, <3>2 DEF Shape, ProbedSoFar
  <2>3. QED
    BY <2>1, <2>2
<1>6. QED
  BY <1>2, <1>3, <1>4, <1>5 DEF Shape

-----------------------------------------------------------------------------
(* Each action keeps the invariant.                                        *)

(* What is left to show once the types are: the shape of the one that took *)
(* the step.                                                               *)
LEMMA OneStep ==
  ASSUME Inv, NEW c \in Clients, TypeOK', IsFiniteSet(open'), Shape(c)', required' = required,
         \A d \in Clients \ {c} :
           /\ pc'[d] = pc[d] /\ req'[d] = req[d] /\ id'[d] = id[d] /\ row'[d] = row[d]
           /\ todo'[d] = todo[d] /\ found'[d] = found[d] /\ written'[d] = written[d]
           /\ d \in open => d \in open'
           /\ d \notin writer => d \notin writer'
           /\ d \in writer => writer' = writer /\ view' = view /\ rows' = rows
  PROVE  Inv'
<1>1. ASSUME NEW d \in Clients \ {c} PROVE Shape(d)'
  BY OtherKept
<1>2. QED
  BY <1>1 DEF Inv

LEMMA CallInv ==
  ASSUME Inv, NEW c \in Clients, Call(c) PROVE Inv'
<1>1. PICK r \in Requests[required] :
        /\ Go(c, "idle", CASE r.op = "create" -> "check"
                           [] r.op = "get"    -> "load"
                           [] OTHER           -> "find")
        /\ req' = [req EXCEPT ![c] = r]
        /\ id' = [id EXCEPT ![c] = r.id]
        /\ todo' = [todo EXCEPT ![c] = IF r.op = "create" THEN r.children ELSE {}]
        /\ apart' \in [Clients -> BOOLEAN]
  <2>1. ASSUME NEW r \in Requests[required],
               apart' = [d \in Clients |-> IF d = c THEN Crossed(c, r) = {}
                                           ELSE apart[d] /\ d \notin Crossed(c, r)]
        PROVE  apart' \in [Clients -> BOOLEAN]
    <3>1. apart \in [Clients -> BOOLEAN]
      BY DEF Inv, TypeOK, site
    <3>2. QED
      BY <2>1, <3>1, Zenon
  <2>2. QED
    BY <2>1 DEF Call, site
<1>2. r \in Request(required)
  BY SeaormAssumption DEF Inv, TypeOK, site
<1>3. TypeOK' /\ IsFiniteSet(open')
  <2>1. /\ pc' \in [Clients -> Steps]
        /\ req' \in [Clients -> Request(required) \cup {NoRequest}]
        /\ id' \in [Clients -> Ids \cup {Derived}]
        /\ todo' \in [Clients -> SUBSET Ids]
    BY <1>1, <1>2, RequestFacts DEF Inv, TypeOK, Go, Steps, site
  <2>2. calls' \in 0..MaxCalls /\ before' \in [Clients -> Store(required)]
    BY SeaormAssumption DEF Inv, TypeOK, Call, site
  <2>3. QED
    BY <1>1, <2>1, <2>2 DEF Inv, TypeOK, Call, db, site
<1>4. Shape(c)'
  <2>1. pc[c] = "idle" /\ ~written[c] /\ c \notin writer
    BY <1>1 DEF Inv, Shape, CallShape, WriterShape, Go, site
  <2>2. /\ pc'[c] \in {"check", "load", "find"}
        /\ pc'[c] = "check" <=> r.op = "create"
        /\ pc'[c] = "find" => r.op \in {"update", "delete"}
        /\ req'[c] = r /\ id'[c] = r.id
    BY <1>1, <1>2, RequestFacts DEF Go, Inv, TypeOK, site
  <2>3. CallShape(c)'
    BY <1>2, <2>1, <2>2, RequestFacts DEF CallShape, Call, site
  <2>4. QED
    BY <2>1, <2>2, <2>3 DEF Shape, WriterShape, WriteSoFar, ProbedSoFar, Call, db, site
<1>5. QED
  BY <1>1, <1>3, <1>4, OneStep DEF Inv, TypeOK, Call, db, Go, site

LEMMA OneWriter ==
  ASSUME Inv, NEW c \in Clients, c \in writer PROVE writer = {c}
  BY DEF Inv, Shape, WriterShape, site

LEMMA RollbackKeeps ==
  ASSUME Inv, NEW c \in Clients, Rollback(c), NEW d \in Clients \ {c}
  PROVE  /\ d \in open => d \in open'
         /\ d \notin writer => d \notin writer'
         /\ d \in writer => writer' = writer /\ view' = view /\ rows' = rows
<1>1. d \in writer => c \notin writer
  BY OneWriter
<1>2. QED
  BY <1>1 DEF Rollback, site

LEMMA RollbackType ==
  ASSUME Inv, NEW c \in Clients, Rollback(c)
  PROVE  /\ rows' \in Store(required) /\ view' \in Store(required)
         /\ open' \subseteq Clients /\ IsFiniteSet(open') /\ Cardinality(open') <= pool
         /\ writer' \subseteq open'
<1>1. Empty \in Store(required)
  BY DEF Empty, Store, site
<1>2. pool \in Nat
  BY SeaormAssumption DEF Inv, TypeOK, site
<1>3. IsFiniteSet(open') /\ Cardinality(open') <= pool
  BY <1>2, OpenLess DEF Inv, TypeOK, Rollback, site
<1>4. QED
  BY <1>1, <1>3 DEF Inv, TypeOK, Rollback, site

Refusals == {"failed", "not_found", "parent_cycle", "child_not_found", "parent_required",
             "already_exists"}

LEMMA RefuseInv ==
  ASSUME Inv, NEW c \in Clients, NEW from, from # "idle", NEW status \in Refusals,
         Refuse(c, from, status)
  PROVE  Inv'
<1>1. TypeOK' /\ IsFiniteSet(open')
  BY RollbackType DEF Inv, TypeOK, Refuse, Refusals, Go, Steps, ghost, site
<1>2. Shape(c)'
  <2>1. /\ pc'[c] = "done" /\ c \notin writer' /\ req'[c] = req[c] /\ pc[c] # "idle"
        /\ required' = required
    BY DEF Inv, TypeOK, Refuse, Go, Rollback, site
  <2>2. QED
    BY <2>1 DEF Inv, Shape, CallShape, WriterShape, WriteSoFar, ProbedSoFar, site
<1>3. QED
  BY <1>1, <1>2, RollbackKeeps, OneStep DEF Inv, TypeOK, Refuse, Go, site

LEMMA FindInv ==
  ASSUME Inv, NEW c \in Clients, Find(c) PROVE Inv'
<1>1. CASE Refuse(c, "find", "not_found")
  BY <1>1, RefuseInv DEF Refusals, site
<1>2. CASE ~Refuse(c, "find", "not_found")
  <2>1. /\ pc[c] = "find" /\ rows[id[c]] # Absent
        /\ pc' = [pc EXCEPT ![c] = IF req[c].op = "update" THEN "children" ELSE "remove"]
        /\ row' = [row EXCEPT ![c] = rows[id[c]]]
        /\ UNCHANGED <<db, site, req, id, todo, found, written, sent, res, calls, ghost>>
    BY <1>2 DEF Find, Go, site
  <2>2. id[c] \in Ids /\ req[c].op \in {"update", "delete"} /\ ~written[c] /\ c \notin writer
    BY <2>1 DEF Inv, Shape, CallShape, WriterShape, site
  <2>3. rows[id[c]] \in Record(required)
    BY <2>1, <2>2 DEF Inv, TypeOK, Store, site
  <2>4. TypeOK' /\ IsFiniteSet(open')
    BY <2>1, <2>3 DEF Inv, TypeOK, Steps, db, ghost, site
  <2>5. Shape(c)'
    BY <2>1, <2>2, <2>3
       DEF Inv, TypeOK, db, site, Shape, CallShape, WriterShape, WriteSoFar, ProbedSoFar
  <2>6. QED
    BY <2>1, <2>4, <2>5, OneStep DEF Inv, TypeOK, db, site
<1>3. QED
  BY <1>1, <1>2

LEMMA PopulateInv ==
  ASSUME Inv, NEW c \in Clients, Populate(c) PROVE Inv'
<1>1. TypeOK' /\ IsFiniteSet(open')
  <2>1. ChildrenOf(rows, id[c]) \in SUBSET Ids
    BY ChildrenType
  <2>2. req[c].children \in SUBSET Ids
    BY RequestFacts DEF Inv, Shape, CallShape, Populate, Go, site
  <2>3. QED
    BY <2>1, <2>2 DEF Inv, TypeOK, Steps, Populate, Go, db, ghost, site
<1>2. Shape(c)'
  <2>1. /\ pc[c] = "children" /\ pc'[c] = "check" /\ req'[c] = req[c] /\ req[c].op = "update"
        /\ id'[c] = id[c] /\ id[c] \in Ids /\ row'[c] = row[c] /\ row[c] \in Record(required)
        /\ found'[c] = ChildrenOf(rows, id[c]) /\ ~written[c] /\ req[c] \in Request(required)
    BY DEF Inv, TypeOK, Populate, Go, Shape, CallShape, site
  <2>2. id[c] \notin ChildrenOf(rows, id[c])
    BY ChildrenType
  <2>3. c \notin writer
    BY <2>1 DEF Inv, Shape, WriterShape, site
  <2>4. QED
    BY <2>1, <2>2, <2>3
       DEF Populate, db, site, Shape, CallShape, WriterShape, WriteSoFar, ProbedSoFar
<1>3. QED
  BY <1>1, <1>2, OneStep DEF Inv, TypeOK, Populate, Go, db, site

LEMMA CheckListedInv ==
  ASSUME Inv, NEW c \in Clients, CheckListed(c) PROVE Inv'
<1>1. CASE Refuse(c, "check", "child_not_found")
  BY <1>1, RefuseInv DEF Refusals, site
<1>2. CASE ~Refuse(c, "check", "child_not_found")
  <2>1. PICK x \in todo[c] :
          /\ pc[c] = "check"
          /\ todo' = [todo EXCEPT ![c] = @ \ {x}]
          /\ UNCHANGED <<db, site, pc, req, id, row, found, written, sent, res, calls, ghost>>
    BY <1>2 DEF CheckListed, site
  <2>2. TypeOK' /\ IsFiniteSet(open')
    BY <2>1 DEF Inv, TypeOK, db, ghost, site
  <2>3. Shape(c)'
    BY <2>1 DEF Inv, db, Shape, CallShape, WriterShape, WriteSoFar, ProbedSoFar, Dropped, site
  <2>4. QED
    BY <2>1, <2>2, <2>3, OneStep DEF Inv, TypeOK, db, site
<1>3. QED
  BY <1>1, <1>2

LEMMA BeginInv ==
  ASSUME Inv, NEW c \in Clients, Begin(c) PROVE Inv'
<1>1. /\ pc[c] = "check" /\ req[c] \in Request(required) /\ req[c].op \in {"create", "update"}
      /\ ~written[c] /\ c \notin writer
      /\ required => Dropped(c) = {}
  BY DEF Inv, Begin, Checked, Shape, CallShape, WriterShape, site
<1>2. /\ pc'[c] = IF req[c].op = "create" THEN "insert" ELSE "update"
      /\ id'[c] = IF id[c] = Derived THEN 1 ELSE id[c]
      /\ open' = open \cup {c}
  BY DEF Inv, TypeOK, Begin, Go, site
<1>3. id[c] \in Ids \cup {Derived}
  BY DEF Inv, TypeOK, site
<1>4. id'[c] \in Ids /\ (req[c].id = Derived /\ req[c].op = "create" => id'[c] = 1)
  BY <1>1, <1>2, <1>3, RecordFacts DEF Inv, Shape, CallShape, site
<1>5. TypeOK' /\ IsFiniteSet(open')
  <2>1. pool \in Nat
    BY SeaormAssumption DEF Inv, TypeOK, site
  <2>2. IsFiniteSet(open') /\ Cardinality(open') <= pool
    <3>1. IsFiniteSet(open) /\ Cardinality(open) < pool
      BY DEF Inv, Begin, Free
    <3>2. QED
      BY <1>2, <2>1, <3>1, OpenMore
  <2>3. id' \in [Clients -> Ids \cup {Derived}]
    BY <1>4 DEF Inv, TypeOK, Begin, site
  <2>4. QED
    BY <2>2, <2>3 DEF Inv, TypeOK, Steps, Begin, Go, ghost, site
<1>6. Shape(c)'
  <2>1. CallShape(c)'
    BY <1>1, <1>2, <1>4, RecordFacts DEF Inv, Shape, CallShape, Begin, Dropped, site
  <2>2. \A i \in Ids : ~(i < 1)
    BY DEF Ids, site
  <2>3. QED
    BY <1>1, <1>2, <1>4, <2>1, <2>2
       DEF Begin, Shape, WriterShape, WriteSoFar, ProbedSoFar, site
<1>7. QED
  BY <1>5, <1>6, OneStep DEF Inv, TypeOK, Begin, Go, site

(* The first write of a transaction, which has the write lock by then.     *)
LEMMA WriteRowInv ==
  ASSUME Inv, NEW c \in Clients, NEW from \in {"insert", "update"}, NEW fk \in Record(required),
         CanWrite(c), WriteRow(c, from, fk), fk = Own(c),
         Seen(c) = rows,
         from = "insert" => /\ rows[id[c]] = Absent
                            /\ req[c].id = Derived =>
                                 \A i \in Ids : i < id[c] => rows[i] # Absent
  PROVE  Inv'
<1>1. /\ pc[c] = from /\ pc'[c] = "link" /\ writer' = {c} /\ c \in open
      /\ view' = [rows EXCEPT ![id[c]] = Own(c)]
      /\ todo'[c] = req[c].children \cup Dropped(c)
      /\ req[c] \in Request(required) /\ id[c] \in Ids /\ ~written[c]
      /\ from = "insert" <=> req[c].op = "create"
      /\ req[c].op \in {"create", "update"}
  BY DEF Inv, TypeOK, WriteRow, Go, Shape, CallShape, WriterShape, site
<1>2. Dropped(c) \in SUBSET Ids /\ req[c].children \in SUBSET Ids
  BY <1>1, RequestFacts DEF Dropped, Inv, TypeOK, site
<1>3. TypeOK' /\ IsFiniteSet(open')
  <2>1. view' \in Store(required)
    BY <1>1 DEF Inv, TypeOK, Store, site
  <2>2. todo' \in [Clients -> SUBSET Ids]
    BY <1>2 DEF Inv, TypeOK, WriteRow, site
  <2>3. QED
    BY <1>1, <2>1, <2>2 DEF Inv, TypeOK, Steps, WriteRow, Go, ghost, site
<1>4. Shape(c)'
  <2>1. /\ rows' = rows /\ req' = req /\ id' = id /\ row' = row /\ found' = found
        /\ written' = written /\ open' = open /\ required' = required
    BY DEF WriteRow, site
  <2>2. CallShape(c)'
    BY <1>1, <2>1 DEF Inv, Shape, CallShape, Dropped, site
  <2>3. WriterShape(c)'
    BY <1>1, <2>1 DEF WriterShape, site
  <2>4. WriteSoFar(c)'
    <3>1. Base(c)' = Base(c) /\ Whole(c)' = Whole(c)
      BY <2>1 DEF Base, Whole, Own, Row, Dropped, Parent, site
    <3>2. view' = Base(c) /\ Base(c) \in [Ids -> Record(required) \cup {Absent}]
      BY <1>1 DEF Base, Inv, TypeOK, Store, site
    <3>3. \A x \in Ids \ todo'[c] : Whole(c)[x] = Base(c)[x]
      BY <1>1 DEF Whole, site
    <3>4. QED
      BY <3>1, <3>2, <3>3 DEF WriteSoFar, site
  <2>5. ProbedSoFar(c)'
    BY <1>1, <2>1 DEF ProbedSoFar, site
  <2>6. QED
    BY <2>2, <2>3, <2>4, <2>5 DEF Shape, site
<1>5. QED
  <2>1. \A d \in Clients \ {c} : d \notin writer
    BY DEF CanWrite, site
  <2>2. QED
    BY <1>1, <1>3, <1>4, <2>1, OneStep DEF Inv, TypeOK, WriteRow, Go, site

LEMMA InsertInv ==
  ASSUME Inv, NEW c \in Clients, Insert(c) PROVE Inv'
<1>1. /\ pc[c] = "insert" /\ CanWrite(c) /\ req[c] \in Request(required) /\ req[c].op = "create"
      /\ id[c] \in Ids /\ ~written[c] /\ c \in open
      /\ c \in writer => view = rows
  BY DEF Insert, Inv, Shape, CallShape, WriterShape, site
<1>2. Seen(c) = rows
  BY <1>1 DEF Seen, site
<1>3. req[c].id = Derived => /\ \A i \in Ids : i < id[c] => rows[i] # Absent
                             /\ c \in writer \/ id[c] = 1
  BY <1>1 DEF Inv, Shape, ProbedSoFar, site
<1>4. CASE Seen(c)[id[c]] = Absent /\ WriteRow(c, "insert", req[c].parent)
  <2>1. req[c].parent \in Record(required) /\ req[c].parent = Own(c)
    BY <1>1, RequestFacts DEF Own, site
  <2>2. QED
    BY <1>1, <1>2, <1>3, <1>4, <2>1, WriteRowInv
<1>5. CASE Refuse(c, "insert", "already_exists")
  BY <1>5, RefuseInv DEF Refusals, site
<1>6. CASE /\ Seen(c)[id[c]] # Absent
           /\ req[c].id = Derived /\ id[c] < N
           /\ id' = [id EXCEPT ![c] = @ + 1]
           /\ writer' = {c}
           /\ view' = Seen(c)
           /\ UNCHANGED <<rows, open, site, pc, req, row, todo, found, written, sent, res,
                          calls, ghost>>
  <2>1. id'[c] = id[c] + 1 /\ id[c] + 1 \in Ids
    BY <1>1, <1>6, TreeAssumption DEF Inv, TypeOK, Ids, site
  <2>2. TypeOK' /\ IsFiniteSet(open')
    BY <1>1, <1>2, <1>6, <2>1 DEF Inv, TypeOK, ghost, site
  <2>3. \A i \in Ids : i < id[c] + 1 => i < id[c] \/ i = id[c]
    BY <1>1 DEF Ids, site
  <2>4. Shape(c)'
    <3>1. CallShape(c)'
      BY <1>1, <1>6, <2>1 DEF Inv, Shape, CallShape, Dropped, site
    <3>2. WriterShape(c)'
      BY <1>1, <1>2, <1>6 DEF WriterShape, site
    <3>3. ProbedSoFar(c)'
      BY <1>1, <1>2, <1>3, <1>6, <2>1, <2>3 DEF ProbedSoFar, site
    <3>4. WriteSoFar(c)'
      BY <1>1, <1>6 DEF WriteSoFar, site
    <3>5. QED
      BY <3>1, <3>2, <3>3, <3>4 DEF Shape, site
  <2>5. \A d \in Clients \ {c} : d \notin writer
    BY <1>1 DEF CanWrite, site
  <2>6. QED
    BY <1>6, <2>2, <2>4, <2>5, OneStep DEF Inv, TypeOK, site
<1>7. QED
  BY <1>4, <1>5, <1>6 DEF Insert, site

LEMMA UpdateInv ==
  ASSUME Inv, NEW c \in Clients, Update(c) PROVE Inv'
<1>1. CASE Refuse(c, "update", "failed")
  BY <1>1, RefuseInv DEF Refusals, site
<1>2. CASE WriteRow(c, "update", Row(c))
  <2>1. /\ pc[c] = "update" /\ CanWrite(c) /\ req[c].op = "update" /\ req[c] \in Request(required)
        /\ row[c] \in Record(required) /\ c \notin writer
    BY DEF Update, Inv, Shape, CallShape, WriterShape, site
  <2>2. Row(c) \in Record(required) /\ Row(c) = Own(c) /\ Seen(c) = rows
    BY <2>1, RequestFacts DEF Row, Own, Seen, site
  <2>3. QED
    BY <1>2, <2>1, <2>2, WriteRowInv
<1>3. QED
  BY <1>1, <1>2 DEF Update, site

LEMMA LinkInv ==
  ASSUME Inv, NEW c \in Clients, Link(c) PROVE Inv'
<1>1. PICK x \in todo[c] : SetParent(c, x)
  BY DEF Link, site
<1>2. /\ pc[c] = "link" /\ id[c] \in Ids /\ c \in writer /\ c \in open
      /\ x \in req[c].children \cup Dropped(c) /\ x \in Ids
      /\ required => Dropped(c) = {}
  BY <1>1 DEF SetParent, Inv, TypeOK, Shape, CallShape, WriterShape, site
<1>3. Parent(c, x) \in Record(required)
  BY <1>2, RecordFacts DEF Parent, site
<1>4. TypeOK' /\ IsFiniteSet(open')
  <2>1. view' \in Store(required) /\ todo' \in [Clients -> SUBSET Ids]
    BY <1>1, <1>2, <1>3 DEF SetParent, Inv, TypeOK, Store, site
  <2>2. QED
    BY <1>1, <2>1 DEF SetParent, Inv, TypeOK, ghost, site
<1>5. Shape(c)'
  <2>1. /\ pc' = pc /\ rows' = rows /\ req' = req /\ id' = id /\ row' = row /\ found' = found
        /\ written' = written /\ open' = open /\ writer' = writer /\ required' = required
        /\ todo'[c] = todo[c] \ {x}
    BY <1>1 DEF SetParent, Inv, TypeOK, site
  <2>2. CallShape(c)' /\ WriterShape(c)' /\ ProbedSoFar(c)'
    BY <1>2, <2>1 DEF Inv, Shape, CallShape, WriterShape, ProbedSoFar, Dropped, site
  <2>3. WriteSoFar(c)'
    <3>1. Base(c)' = Base(c) /\ Whole(c)' = Whole(c)
      BY <2>1 DEF Base, Whole, Own, Row, Dropped, Parent, site
    <3>2. view = [y \in Ids |-> IF y \in todo[c] THEN Base(c)[y] ELSE Whole(c)[y]]
      BY <1>2 DEF Inv, Shape, WriteSoFar, site
    <3>3. view' = [view EXCEPT ![x] = IF view[x] = Absent THEN view[x] ELSE Parent(c, x)]
      BY <1>1 DEF SetParent, site
    <3>4. Whole(c)[x] = IF Base(c)[x] = Absent THEN Base(c)[x] ELSE Parent(c, x)
      BY <1>2 DEF Whole, site
    <3>5. view' = [y \in Ids |-> IF y \in todo'[c] THEN Base(c)[y] ELSE Whole(c)[y]]
      BY <1>2, <2>1, <3>2, <3>3, <3>4
    <3>6. QED
      BY <3>1, <3>5 DEF WriteSoFar, site
  <2>4. QED
    BY <2>2, <2>3 DEF Shape, site
<1>6. QED
  <2>1. \A d \in Clients \ {c} : d \notin writer
    BY <1>2, OneWriter
  <2>2. QED
    BY <1>1, <1>4, <1>5, <2>1, OneStep DEF SetParent, Inv, TypeOK, site

(* What a commit makes of the table.                                       *)
LEMMA CommitWhole ==
  ASSUME Inv, NEW c \in Clients, Commit(c) PROVE rows' = Whole(c)
<1>1. view = [x \in Ids |-> IF x \in todo[c] THEN Base(c)[x] ELSE Whole(c)[x]]
  BY DEF Inv, Shape, WriteSoFar, Commit, Go, site
<1>2. todo[c] = {} /\ rows' = view
  BY DEF Commit, site
<1>3. Whole(c) = [x \in Ids |-> Whole(c)[x]]
  BY DEF Whole, site
<1>4. QED
  BY <1>1, <1>2, <1>3

LEMMA CommitInv ==
  ASSUME Inv, NEW c \in Clients, Commit(c) PROVE Inv'
<1>1. /\ pc[c] = "link" /\ pc'[c] = "load" /\ c \in writer /\ req[c] \in Request(required)
      /\ id[c] \in Ids
  BY DEF Commit, Go, Inv, TypeOK, Shape, CallShape, WriterShape, site
<1>2. TypeOK' /\ IsFiniteSet(open')
  <2>1. pool \in Nat /\ Empty \in Store(required)
    BY SeaormAssumption DEF Inv, TypeOK, Empty, Store, site
  <2>2. IsFiniteSet(open') /\ Cardinality(open') <= pool
    BY <2>1, OpenLess DEF Inv, TypeOK, Commit, site
  <2>3. QED
    BY <2>1, <2>2 DEF Inv, TypeOK, Commit, Go, Steps, ghost, site
<1>3. Shape(c)'
  BY <1>1 DEF Commit, Shape, CallShape, WriterShape, WriteSoFar, ProbedSoFar, site
<1>4. \A d \in Clients \ {c} : d \notin writer
  BY <1>1, OneWriter
<1>5. QED
  BY <1>2, <1>3, <1>4, OneStep DEF Commit, Go, Inv, TypeOK, site

LEMMA LoadInv ==
  ASSUME Inv, NEW c \in Clients, Load(c) PROVE Inv'
<1>1. CASE Refuse(c, "load", "not_found")
  BY <1>1, RefuseInv DEF Refusals, site
<1>2. CASE /\ Go(c, "load", "list")
           /\ UNCHANGED <<db, site, req, id, row, todo, found, written, sent, res, calls, ghost>>
  <2>1. TypeOK' /\ IsFiniteSet(open')
    BY <1>2 DEF Inv, TypeOK, Steps, Go, db, ghost, site
  <2>2. Shape(c)'
    BY <1>2 DEF Go, db, Inv, TypeOK, Shape, CallShape, WriterShape, WriteSoFar, ProbedSoFar, site
  <2>3. QED
    BY <1>2, <2>1, <2>2, OneStep DEF Inv, TypeOK, Go, db, site
<1>3. QED
  BY <1>1, <1>2 DEF Load, site

LEMMA ListInv ==
  ASSUME Inv, NEW c \in Clients, List(c) PROVE Inv'
<1>1. TypeOK' /\ IsFiniteSet(open')
  BY ChildrenType DEF List, Emit, Inv, TypeOK, Steps, Go, db, ghost, site
<1>2. Shape(c)'
  BY DEF List, Emit, Go, db, site, Inv, TypeOK, Shape, CallShape, WriterShape, WriteSoFar,
         ProbedSoFar
<1>3. QED
  BY <1>1, <1>2, OneStep DEF List, Emit, Inv, TypeOK, Go, db, site

LEMMA RemoveInv ==
  ASSUME Inv, NEW c \in Clients, Remove(c) PROVE Inv'
<1>1. pc[c] = "remove" /\ c \notin writer /\ id[c] \in Ids /\ req[c] \in Request(required)
  BY DEF Remove, Emit, Go, Inv, Shape, CallShape, WriterShape, site
<1>2. writer = {}
  BY <1>1 DEF Remove, CanWrite, site
<1>3. TypeOK' /\ IsFiniteSet(open')
  <2>1. rows' \in Store(required)
    BY DEF Remove, Inv, TypeOK, Store, site
  <2>2. excused' \in [Clients -> BOOLEAN]
    BY Zenon DEF Remove, Inv, TypeOK, site
  <2>3. QED
    BY <2>1, <2>2 DEF Remove, Emit, Inv, TypeOK, Steps, Go, site
<1>4. Shape(c)'
  BY <1>1 DEF Remove, Emit, Go, Inv, TypeOK, Shape, CallShape, WriterShape, WriteSoFar,
              ProbedSoFar, site
<1>5. QED
  BY <1>2, <1>3, <1>4, OneStep DEF Remove, Emit, Inv, TypeOK, Go, site

LEMMA AbortInv ==
  ASSUME Inv, NEW c \in Clients, Abort(c) PROVE Inv'
<1>1. TypeOK' /\ IsFiniteSet(open')
  BY RollbackType DEF Abort, Inv, TypeOK, Steps, site
<1>2. Shape(c)'
  <2>1. /\ pc'[c] = "done" /\ c \notin writer' /\ req'[c] = req[c] /\ pc[c] # "idle"
        /\ required' = required
    BY DEF Inv, TypeOK, Abort, Rollback, site
  <2>2. QED
    BY <2>1 DEF Inv, Shape, CallShape, WriterShape, WriteSoFar, ProbedSoFar, site
<1>3. QED
  BY <1>1, <1>2, RollbackKeeps, OneStep DEF Abort, Inv, TypeOK, site

LEMMA ReturnInv ==
  ASSUME Inv, NEW c \in Clients, Return(c) PROVE Inv'
<1>1. TypeOK' /\ IsFiniteSet(open')
  <2>1. Empty \in Store(required)
    BY DEF Empty, Store, site
  <2>2. QED
    BY <2>1 DEF Return, Go, Inv, TypeOK, Steps, db, site
<1>2. Shape(c)'
  BY DEF Return, Go, db, Inv, TypeOK, Shape, CallShape, WriterShape, WriteSoFar, ProbedSoFar, site
<1>3. QED
  BY <1>1, <1>2, OneStep DEF Return, Go, Inv, TypeOK, db, site

LEMMA StepInv ==
  ASSUME Inv, NEW c \in Clients, Step(c) PROVE Inv'
<1>1. CheckSelf(c) \/ CheckDropped(c) => Inv'
  BY RefuseInv DEF CheckSelf, CheckDropped, Refusals, site
<1>2. QED
  BY <1>1, FindInv, PopulateInv, CheckListedInv, BeginInv, InsertInv, UpdateInv, LinkInv,
     CommitInv, LoadInv, ListInv, RemoveInv, ReturnInv DEF Step

LEMMA NextInv == Inv /\ [Next]_vars => Inv'
<1> SUFFICES ASSUME Inv, [Next]_vars PROVE Inv'
  OBVIOUS
<1>1. CASE UNCHANGED vars
  BY <1>1 DEF vars, db, mine, ghost, Inv, TypeOK, Shape, CallShape, WriterShape, WriteSoFar,
              ProbedSoFar, Whole, Base, Own, Row, Dropped, Parent, site
<1>2. ASSUME NEW c \in Clients, Call(c) \/ Step(c) \/ Abort(c) PROVE Inv'
  BY <1>2, CallInv, StepInv, AbortInv
<1>3. QED
  BY <1>1, <1>2 DEF Next, Quiesce, site

LEMMA InvAlways == Spec => []Inv
  BY InitInv, NextInv, PTL DEF Spec, site

-----------------------------------------------------------------------------
(* The theorems.                                                           *)

(* Every variable has its type, no more connections are kept than the pool *)
(* has, and the write lock belongs to an open transaction.                 *)
THEOREM TypeCorrect == Spec => []TypeOK
<1>1. Inv => TypeOK
  BY DEF Inv
<1>2. QED
  BY <1>1, InvAlways, PTL

(* The DELETE is the whole of a delete.                                    *)
LEMMA RemoveWhole ==
  ASSUME Inv, NEW c \in Clients, Remove(c) PROVE rows' = Whole(c)
<1>1. req[c].op = "delete" /\ req[c] \in Request(required)
  BY DEF Remove, Emit, Go, Inv, Shape, CallShape
<1>2. Dropped(c) = {} /\ req[c].children = {}
  BY <1>1, RequestFacts DEF Dropped
<1>3. rows' = Base(c) /\ Base(c) = [x \in Ids |-> Base(c)[x]]
  BY <1>1 DEF Remove, Base, Own, Inv, TypeOK, Store
<1>4. QED
  BY <1>2, <1>3 DEF Whole

(* Whoever changes the committed rows commits the whole of its own write.  *)
LEMMA WholeStep ==
  ASSUME Inv, [Next]_vars, rows' # rows
  PROVE  \E c \in Clients : ~written[c] /\ written'[c] /\ rows' = Whole(c)
<1>1. PICK c \in Clients : Call(c) \/ Step(c) \/ Abort(c)
  BY DEF Next, Quiesce, vars, db
<1>2. Commit(c) \/ Remove(c)
  BY <1>1 DEF Call, Abort, Step, Find, Populate, CheckSelf, CheckListed, CheckDropped, Begin,
              Insert, Update, Link, SetParent, WriteRow, Load, List, Return, Refuse, Rollback, db
<1>3. ~written[c] /\ written'[c]
  BY <1>2 DEF Commit, Remove, Emit, Go, Inv, TypeOK, Shape, CallShape
<1>4. QED
  BY <1>2, <1>3, CommitWhole, RemoveWhole

(* Writes are all or nothing: whenever the committed rows change, they     *)
(* change by the record and every child of one call at once.               *)
THEOREM WritesAllOrNothing == Spec => AllOrNothing
<1>1. Inv /\ [Next]_vars =>
        [rows' # rows => \E c \in Clients : ~written[c] /\ written'[c] /\ rows' = Whole(c)]_vars
  BY WholeStep
<1>2. QED
  BY <1>1, InvAlways, PTL DEF Spec, AllOrNothing

LEMMA ProbedIsFirstFree ==
  ASSUME NEW s \in Store(required), NEW i \in Ids, s[i] = Absent,
         \A j \in Ids : j < i => s[j] # Absent
  PROVE  i = FirstFree(s)
<1>1. \A k \in Ids : (s[k] = Absent /\ \A j \in Ids : s[j] = Absent => k <= j) <=> k = i
  BY TreeAssumption DEF Ids
<1>2. QED
  BY <1>1 DEF FirstFree

(* The id a create is about to commit is the first that is free.           *)
LEMMA FirstFreeStep ==
  ASSUME Inv, [Next]_vars, NEW c \in Clients,
         pc[c] = "link", pc'[c] = "load", req[c].op = "create", req[c].id = Derived
  PROVE  id[c] = FirstFree(rows)
<1>1. /\ rows[id[c]] = Absent
      /\ \A i \in Ids : i < id[c] => rows[i] # Absent
      /\ id[c] \in Ids /\ rows \in Store(required)
  BY DEF Inv, TypeOK, Shape, CallShape, ProbedSoFar
<1>2. QED
  BY <1>1, ProbedIsFirstFree

(* Concurrent creates of the same title get the candidate ids in order,    *)
(* none skipped, whatever commits or aborts between their probes.          *)
THEOREM CandidatesProbed == Spec => NoneSkipped
<1>1. Inv /\ [Next]_vars =>
        [\A c \in Clients :
           pc[c] = "link" /\ pc'[c] = "load" /\ req[c].op = "create" /\ req[c].id = Derived
             => id[c] = FirstFree(rows)]_vars
  BY FirstFreeStep
<1>2. QED
  BY <1>1, InvAlways, PTL DEF Spec, NoneSkipped

-----------------------------------------------------------------------------
(* Calls that share no record with another.                                *)

(* Neither of two calls can reach a record of the other, nor write the     *)
(* other's record back as the parent it read.                              *)
Apart(c, d) == Reach(c) \cap Reach(d) = {} /\ row[d] # req[c].id /\ row[c] # req[d].id

Separate ==
  \A c, d \in Clients :
    c # d /\ pc[c] # "idle" /\ pc[d] # "idle" /\ apart[c] => Apart(c, d)

IdShape(c) ==
  /\ pc[c] = "idle" => found[c] = {} /\ row[c] = Absent
  /\ pc[c] # "idle" /\ req[c].id # Derived => id[c] = req[c].id
  /\ pc[c] = "check" => todo[c] \subseteq req[c].children

(* What the call has to do with the table it found.                        *)
Target(c) == IF req[c].id = Derived THEN FirstFree(before[c]) ELSE req[c].id

Result(c) == IF written[c] THEN Applied(before[c], req[c], Target(c)) ELSE before[c]

Expected(c) == Outcome(before[c], req[c], required)

Mine(c) == Touched(before[c], req[c])

(* Its records are as it found or as it wrote them, and no other call has  *)
(* given its record a child.                                               *)
OnItsRecords(c) == \A x \in Mine(c) : rows[x] = Result(c)[x]

NoNewKids(c) == \A x \in Ids : rows[x] = req[c].id => x \in Mine(c)

(* What it has read, step by step, is the table it found.                  *)
KnownRow(c) ==
  pc[c] \in {"children", "check", "update", "link"} /\ req[c].op = "update" =>
    before[c][req[c].id] # Absent /\ row[c] = before[c][req[c].id]

KnownChildren(c) ==
  /\ pc[c] \in {"check", "update", "link"} /\ req[c].op = "update" =>
       found[c] = ChildrenOf(before[c], req[c].id)
  /\ pc[c] = "check" => \A x \in req[c].children \ todo[c] : before[c][x] # Absent

KnownOk(c) ==
  /\ pc[c] \in {"insert", "update", "link"} =>
       ~SelfListed(req[c]) /\ \A x \in req[c].children : before[c][x] # Absent
  /\ pc[c] = "link" =>
       /\ id[c] = Target(c)
       /\ req[c].op = "create" => before[c][id[c]] = Absent
  /\ pc[c] = "remove" => before[c][req[c].id] # Absent
  /\ pc[c] \in {"load", "list"} =>
       /\ id[c] = Target(c)
       /\ \/ req[c].op = "get" /\ ~written[c]
          \/ req[c].op \in {"create", "update"} /\ written[c] /\ Expected(c) = "ok"
  /\ pc[c] = "list" => Expected(c) = "ok"

KnownEnd(c) ==
  pc[c] = "done" =>
    /\ ~excused[c] => res[c] = Expected(c)
    /\ res[c] = "ok" /\ req[c].op # "delete" => found[c] = ChildrenOf(Result(c), Target(c))

Known(c) == KnownRow(c) /\ KnownChildren(c) /\ KnownOk(c) /\ KnownEnd(c)

Alone(c) == pc[c] # "idle" /\ apart[c] => OnItsRecords(c) /\ NoNewKids(c) /\ Known(c)

ApartInv == Separate /\ \A c \in Clients : IdShape(c) /\ Alone(c)

(* The records of a call.                                                  *)
LEMMA TouchedFacts ==
  ASSUME NEW s, NEW r \in Request(required)
  PROVE  /\ Touched(s, r) \subseteq Ids /\ Touched(s, r) # {}
         /\ r.id = Derived => Touched(s, r) = Ids
         /\ {r.id, r.parent} \cap Ids \subseteq Touched(s, r)
         /\ r.children \subseteq Touched(s, r)
         /\ \A x \in Ids : s[x] = r.id => x \in Touched(s, r)
<1>1. r.children \in SUBSET Ids /\ r.id \in Ids \cup {Derived}
  BY RequestFacts
<1>2. QED
  BY <1>1, RecordFacts DEF Touched

LEMMA ReachFacts ==
  ASSUME Inv, NEW c \in Clients, pc[c] # "idle"
  PROVE  /\ req[c] \in Request(required)
         /\ Reach(c) \subseteq Ids /\ Reach(c) # {}
         /\ req[c].id = Derived => Reach(c) = Ids
         /\ {req[c].id, req[c].parent} \cap Ids \subseteq Reach(c)
         /\ req[c].children \cup found[c] \cup Mine(c) \subseteq Reach(c)
         /\ \A x \in Ids : rows[x] = req[c].id => x \in Reach(c)
<1>1. req[c] \in Request(required) /\ found[c] \in SUBSET Ids
  BY DEF Inv, TypeOK, Shape, CallShape
<1>2. QED
  BY <1>1, TouchedFacts DEF Reach, Mine

(* An id outside what a call reaches is not the id of that call; one that  *)
(* derives its id is apart from no other.                                  *)
LEMMA ApartIds ==
  ASSUME Inv, NEW c \in Clients, NEW d \in Clients, pc[c] # "idle", pc[d] # "idle", Apart(c, d)
  PROVE  req[c].id \in Ids /\ req[d].id \in Ids
<1>1. /\ Reach(c) \cap Reach(d) = {} /\ Reach(c) \subseteq Ids /\ Reach(d) \subseteq Ids
      /\ Reach(c) # {} /\ Reach(d) # {}
      /\ req[c].id = Derived => Reach(c) = Ids
      /\ req[d].id = Derived => Reach(d) = Ids
  BY ReachFacts DEF Apart
<1>2. req[c].id # Derived /\ req[d].id # Derived
  BY <1>1
<1>3. QED
  BY <1>2, ReachFacts, RequestFacts

LEMMA ApartSymmetric ==
  ASSUME NEW c, NEW d, Apart(c, d) PROVE Apart(d, c)
  BY DEF Apart

-----------------------------------------------------------------------------
(* What a step of one call leaves to the others.                           *)

LEMMA Domains ==
  ASSUME Inv
  PROVE  /\ pc \in [Clients -> Steps] /\ DOMAIN req = Clients /\ DOMAIN id = Clients
         /\ DOMAIN row = Clients /\ DOMAIN todo = Clients /\ DOMAIN found = Clients
         /\ DOMAIN written = Clients /\ DOMAIN res = Clients /\ DOMAIN before = Clients
         /\ DOMAIN excused = Clients
  BY DEF Inv, TypeOK

Others(e) ==
  /\ required' = required
  /\ \A d \in Clients \ {e} :
       /\ pc'[d] = pc[d] /\ req'[d] = req[d] /\ id'[d] = id[d] /\ row'[d] = row[d]
       /\ todo'[d] = todo[d] /\ found'[d] = found[d] /\ written'[d] = written[d]
       /\ res'[d] = res[d] /\ before'[d] = before[d]
       /\ apart'[d] => apart[d]
       /\ excused[d] => excused'[d]

(* What a step leaves of its own call.                                     *)
Steady(e) ==
  /\ pc[e] # "idle" /\ pc'[e] # "idle"
  /\ req'[e] = req[e] /\ before'[e] = before[e] /\ apart'[e] = apart[e]
  /\ found'[e] \in {found[e], ChildrenOf(rows, id[e])}
  /\ row'[e] \in {row[e], rows[id[e]]}
  /\ req[e].id # Derived \/ req[e].op # "create" => id'[e] = id[e]

LEMMA RefuseFrame ==
  ASSUME Inv, NEW e \in Clients, NEW from, from # "idle", NEW status, Refuse(e, from, status)
  PROVE  Others(e) /\ Steady(e) /\ rows' = rows
BY Domains DEF Refuse, Go, Rollback, site, ghost, Others, Steady

LEMMA StepFrame ==
  ASSUME Inv, NEW e \in Clients, Step(e) \/ Abort(e), ~Return(e)
  PROVE  Others(e) /\ Steady(e) /\ (rows' # rows => Commit(e) \/ Remove(e))
<1>1. CASE Find(e)
  BY <1>1, RefuseFrame, Domains DEF Find, Go, db, site, ghost, Others, Steady
<1>2. CASE Populate(e)
  BY <1>2, Domains DEF Populate, Go, db, site, ghost, Others, Steady
<1>3. CASE CheckSelf(e) \/ CheckDropped(e)
  BY <1>3, RefuseFrame DEF CheckSelf, CheckDropped
<1>4. CASE CheckListed(e)
  BY <1>4, RefuseFrame, Domains DEF CheckListed, db, site, ghost, Others, Steady
<1>5. CASE Begin(e)
  <2>1. req[e].id # Derived \/ req[e].op # "create" => id'[e] = id[e]
    <3>1. /\ pc[e] = "check" /\ req[e] \in Request(required) /\ req[e].op \in {"create", "update"}
          /\ req[e].op = "create" => id[e] = req[e].id
          /\ req[e].op = "update" => id[e] \in Ids
      BY <1>5 DEF Begin, Checked, Inv, Shape, CallShape
    <3>2. id'[e] = IF id[e] = Derived THEN 1 ELSE id[e]
      BY <1>5 DEF Begin, Inv, TypeOK
    <3>3. QED
      BY <3>1, <3>2, RecordFacts
  <2>2. QED
    BY <1>5, <2>1, Domains DEF Begin, Go, db, site, ghost, Others, Steady
<1>6. CASE Insert(e)
  <2>1. CASE WriteRow(e, "insert", req[e].parent)
    BY <2>1, Domains DEF WriteRow, Go, site, ghost, Others, Steady
  <2>2. CASE Refuse(e, "insert", "already_exists")
    BY <2>2, RefuseFrame
  <2>3. CASE /\ req[e].id = Derived /\ id' = [id EXCEPT ![e] = @ + 1] /\ pc[e] = "insert"
             /\ UNCHANGED <<rows, open, site, pc, req, row, todo, found, written, sent, res,
                            calls, ghost>>
    <3>1. req[e].op = "create"
      BY <2>3 DEF Inv, Shape, CallShape
    <3>2. QED
      BY <2>3, <3>1, Domains DEF site, ghost, Others, Steady
  <2>4. QED
    BY <1>6, <2>1, <2>2, <2>3 DEF Insert
<1>7. CASE Update(e)
  BY <1>7, RefuseFrame, Domains DEF Update, WriteRow, Go, site, ghost, Others, Steady
<1>8. CASE Link(e)
  BY <1>8, Domains DEF Link, SetParent, site, ghost, Others, Steady
<1>9. CASE Commit(e)
  BY <1>9, Domains DEF Commit, Go, site, ghost, Others, Steady
<1>10. CASE Load(e)
  BY <1>10, RefuseFrame, Domains DEF Load, Go, db, site, ghost, Others, Steady
<1>11. CASE List(e)
  BY <1>11, Domains DEF List, Emit, Go, db, site, ghost, Others, Steady
<1>12. CASE Remove(e)
  BY <1>12, Domains DEF Remove, Emit, Go, site, Others, Steady
<1>13. CASE Abort(e)
  BY <1>13, Domains DEF Abort, Rollback, site, Others, Steady
<1>14. QED
  BY <1>1, <1>2, <1>3, <1>4, <1>5, <1>6, <1>7, <1>8, <1>9, <1>10, <1>11, <1>12, <1>13 DEF Step

LEMMA ReturnFrame ==
  ASSUME Inv, NEW e \in Clients, Return(e)
  PROVE  Others(e) /\ rows' = rows /\ pc'[e] = "idle" /\ found'[e] = {} /\ row'[e] = Absent
BY Domains DEF Return, Go, db, site, Others

(* A new call, and the calls it crosses.                                   *)
LEMMA CallFrame ==
  ASSUME Inv, NEW e \in Clients, Call(e)
  PROVE  /\ Others(e) /\ rows' = rows /\ pc[e] = "idle"
         /\ found'[e] = found[e] /\ row'[e] = row[e] /\ written'[e] = written[e]
         /\ before'[e] = rows
         /\ \E r \in Requests[required] :
              /\ req'[e] = r /\ id'[e] = r.id
              /\ pc'[e] = CASE r.op = "create" -> "check"
                            [] r.op = "get"    -> "load"
                            [] OTHER           -> "find"
              /\ todo'[e] = IF r.op = "create" THEN r.children ELSE {}
              /\ apart'[e] <=> Crossed(e, r) = {}
              /\ \A d \in Clients \ {e} : apart'[d] => d \notin Crossed(e, r)
<1>1. PICK r \in Requests[required] :
        /\ Go(e, "idle", CASE r.op = "create" -> "check"
                           [] r.op = "get"    -> "load"
                           [] OTHER           -> "find")
        /\ req' = [req EXCEPT ![e] = r]
        /\ id' = [id EXCEPT ![e] = r.id]
        /\ todo' = [todo EXCEPT ![e] = IF r.op = "create" THEN r.children ELSE {}]
        /\ apart' = [d \in Clients |-> IF d = e THEN Crossed(e, r) = {}
                                       ELSE apart[d] /\ d \notin Crossed(e, r)]
  BY DEF Call
<1>2. /\ apart'[e] <=> Crossed(e, r) = {}
      /\ \A d \in Clients \ {e} : apart'[d] => apart[d] /\ d \notin Crossed(e, r)
  BY <1>1, Zenon
<1>3. Others(e)
  BY <1>1, <1>2, Domains DEF Call, Go, db, site, Others
<1>4. /\ req'[e] = r /\ id'[e] = r.id
      /\ pc'[e] = CASE r.op = "create" -> "check"
                    [] r.op = "get"    -> "load"
                    [] OTHER           -> "find"
      /\ todo'[e] = IF r.op = "create" THEN r.children ELSE {}
      /\ rows' = rows /\ pc[e] = "idle"
      /\ found'[e] = found[e] /\ row'[e] = row[e] /\ written'[e] = written[e]
      /\ before'[e] = rows
  BY <1>1 DEF Call, Go, db, site, Inv, TypeOK
<1>5. QED
  BY <1>2, <1>3, <1>4

(* The rows a commit or a delete changes are among those the call reaches, *)
(* and name only what it reaches, no record or the parent it read.         *)
LEMMA Writes ==
  ASSUME Inv, NEW e \in Clients, IdShape(e), req[e].id \in Ids, Commit(e) \/ Remove(e),
         NEW y \in Ids, rows'[y] # rows[y]
  PROVE  /\ y \in Reach(e)
         /\ rows'[y] \in Reach(e) \cup {row[e], NoParent, Absent}
<1>1. /\ rows' = Whole(e) /\ rows \in Store(required) /\ pc[e] # "idle"
      /\ Commit(e) => req[e].op \in {"create", "update"}
      /\ Remove(e) => req[e].op = "delete"
  BY CommitWhole, RemoveWhole
     DEF Commit, Remove, Emit, Go, Inv, TypeOK, Shape, CallShape
<1>2. /\ id[e] = req[e].id /\ id[e] \in Ids
      /\ req[e] \in Request(required)
      /\ {req[e].id, req[e].parent} \cap Ids \subseteq Reach(e)
      /\ req[e].children \cup found[e] \subseteq Reach(e)
  BY <1>1, ReachFacts, RecordFacts DEF IdShape
<1>3. Dropped(e) \subseteq found[e]
  BY DEF Dropped
<1>4. rows'[y] = IF y \in req[e].children \cup Dropped(e) /\ Base(e)[y] # Absent
                 THEN Parent(e, y) ELSE Base(e)[y]
  BY <1>1 DEF Whole
<1>5. Base(e)[y] = IF y = id[e] THEN Own(e) ELSE rows[y]
  BY <1>1 DEF Base, Store
<1>6. Parent(e, y) \in {id[e], NoParent}
  BY DEF Parent
<1>7. Own(e) \in Reach(e) \cup {row[e], NoParent, Absent}
  <2>1. CASE req[e].op = "create" \/ (req[e].op = "update" /\ req[e].parent # Keep)
    <3>1. req[e].parent \in Record(required) /\ Own(e) = req[e].parent
      BY <1>2, <2>1, RequestFacts DEF Own, Row
    <3>2. QED
      BY <1>2, <3>1 DEF Record
  <2>2. CASE ~(req[e].op = "create" \/ (req[e].op = "update" /\ req[e].parent # Keep))
    BY <1>1, <2>2 DEF Own, Row
  <2>3. QED
    BY <2>1, <2>2
<1>8. QED
  BY <1>2, <1>3, <1>4, <1>5, <1>6, <1>7

(* A step of a call leaves what a call apart from it can reach.            *)
LEMMA Untouched ==
  ASSUME Inv, NEW e \in Clients, IdShape(e), Step(e) \/ Abort(e), NEW c \in Clients \ {e},
         pc[c] # "idle", pc[e] # "idle", Apart(c, e), NEW y \in Ids, rows'[y] # rows[y]
  PROVE  y \in Reach(e) /\ y \notin Reach(c) /\ rows'[y] # req[c].id
<1>1. req[c].id \in Ids /\ req[e].id \in Ids
  BY ApartIds
<1>2. Commit(e) \/ Remove(e)
  BY ReturnFrame, StepFrame
<1>3. y \in Reach(e) /\ rows'[y] \in Reach(e) \cup {row[e], NoParent, Absent}
  BY <1>1, <1>2, Writes
<1>4. req[c].id \in Reach(c)
  BY <1>1, ReachFacts
<1>5. NoParent \notin Ids
  BY DEF NoParent, Ids
<1>6. QED
  BY <1>1, <1>3, <1>4, <1>5, RecordFacts DEF Apart

(* What a call reaches grows by the rows that another call makes its       *)
(* children only.                                                          *)
LEMMA ReachStep ==
  ASSUME Inv, NEW e \in Clients, Others(e), NEW d \in Clients \ {e}, pc[d] # "idle",
         NEW z \in Reach(d)', z \notin Reach(d)
  PROVE  z \in Ids /\ rows'[z] # rows[z] /\ rows'[z] = req[d].id
<1>1. /\ Reach(d)' = Touched(rows', req[d]) \cup Touched(before[d], req[d]) \cup found[d]
      /\ Reach(d) = Touched(rows, req[d]) \cup Touched(before[d], req[d]) \cup found[d]
  BY DEF Reach, Others
<1>2. QED
  BY <1>1 DEF Touched

LEMMA OwnReach ==
  ASSUME Inv, NEW e \in Clients, IdShape(e), Step(e) \/ Abort(e), ~Return(e), pc[e] # "idle",
         req[e].id \in Ids
  PROVE  Reach(e)' \subseteq Reach(e)
<1>1. /\ req'[e] = req[e] /\ before'[e] = before[e]
      /\ found'[e] \in {found[e], ChildrenOf(rows, id[e])}
      /\ id[e] = req[e].id
      /\ rows' # rows => Commit(e) \/ Remove(e)
  BY StepFrame, RecordFacts DEF Steady, IdShape
<1>2. Reach(e)' = Touched(rows', req[e]) \cup Touched(before[e], req[e]) \cup found'[e]
  BY <1>1 DEF Reach
<1>3. found'[e] \subseteq Reach(e)
  BY <1>1, ReachFacts DEF ChildrenOf
<1>4. ASSUME NEW z \in Ids, rows'[z] = req[e].id PROVE z \in Reach(e)
  <2>1. CASE rows'[z] = rows[z]
    BY <1>4, <2>1, ReachFacts
  <2>2. CASE rows'[z] # rows[z]
    BY <1>1, <2>2, Writes
  <2>3. QED
    BY <2>1, <2>2
<1>5. Touched(rows', req[e]) \subseteq Reach(e)
  <2>1. req[e].id # Derived
    BY RecordFacts
  <2>2. QED
    BY <1>4, <2>1, ReachFacts DEF Touched
<1>6. QED
  BY <1>2, <1>3, <1>5 DEF Reach

(* The step keeps its own call apart from another.                         *)
LEMMA ApartStep ==
  ASSUME Inv, NEW e \in Clients, IdShape(e), Step(e) \/ Abort(e), ~Return(e),
         NEW d \in Clients \ {e}, pc[d] # "idle", Apart(d, e)
  PROVE  Apart(d, e)'
<1>1. Others(e) /\ Steady(e)
  BY StepFrame
<1>2. pc[e] # "idle" /\ req'[e] = req[e] /\ row'[e] \in {row[e], rows[id[e]]}
  BY <1>1 DEF Steady
<1>3. req'[d] = req[d] /\ row'[d] = row[d]
  BY <1>1 DEF Others
<1>4. req[d].id \in Ids /\ req[e].id \in Ids
  BY <1>2, ApartIds
<1>5. Reach(e)' \subseteq Reach(e)
  BY <1>2, <1>4, OwnReach
<1>6. ASSUME NEW z \in Reach(d)' PROVE z \notin Reach(e)
  <2>1. CASE z \in Reach(d)
    BY <2>1 DEF Apart
  <2>2. CASE z \notin Reach(d)
    <3>1. z \in Ids /\ rows'[z] # rows[z] /\ rows'[z] = req[d].id
      BY <1>1, <2>2, ReachStep
    <3>2. QED
      BY <1>2, <3>1, Untouched
  <2>3. QED
    BY <2>1, <2>2
<1>7. rows[id[e]] # req[d].id
  <2>1. id[e] = req[e].id /\ id[e] \in Reach(e)
    BY <1>2, <1>4, ReachFacts, RecordFacts DEF IdShape
  <2>2. QED
    BY <1>4, <2>1, ReachFacts DEF Apart
<1>8. QED
  BY <1>2, <1>3, <1>5, <1>6, <1>7 DEF Apart

LEMMA StepSeparate ==
  ASSUME Inv, ApartInv, NEW e \in Clients, Step(e) \/ Abort(e) PROVE Separate'
<1> SUFFICES ASSUME NEW c \in Clients, NEW d \in Clients, c # d,
                    pc'[c] # "idle", pc'[d] # "idle", apart'[c]
             PROVE  Apart(c, d)'
  BY DEF Separate
<1>1. /\ Others(e) /\ pc[e] # "idle"
      /\ Return(e) => pc'[e] = "idle"
      /\ ~Return(e) => Steady(e)
  <2>1. Return(e) => pc[e] # "idle"
    BY DEF Return, Go
  <2>2. QED
    BY <2>1, StepFrame, ReturnFrame DEF Steady
<1>2. pc[c] # "idle" /\ pc[d] # "idle" /\ apart[c]
  BY <1>1 DEF Others, Steady
<1>3. Apart(c, d) /\ (c # e => Apart(c, e)) /\ IdShape(e)
  BY <1>1, <1>2 DEF ApartInv, Separate
<1>4. CASE c # e /\ d # e
  <2>1. ASSUME NEW z \in Reach(c)' PROVE z \in Reach(c)
    <3>1. z \notin Reach(c) => z \in Ids /\ rows'[z] # rows[z] /\ rows'[z] = req[c].id
      BY <1>1, <1>2, <1>4, ReachStep
    <3>2. QED
      BY <1>1, <1>2, <1>3, <1>4, <3>1, Untouched
  <2>2. ASSUME NEW z \in Reach(d)' PROVE z \notin Reach(c)
    <3>1. CASE z \in Reach(d)
      BY <1>3, <3>1 DEF Apart
    <3>2. CASE z \notin Reach(d)
      <4>1. z \in Ids /\ rows'[z] # rows[z]
        BY <1>1, <1>2, <1>4, <3>2, ReachStep
      <4>2. QED
        BY <1>1, <1>2, <1>3, <1>4, <4>1, Untouched
    <3>3. QED
      BY <3>1, <3>2
  <2>3. /\ row'[c] = row[c] /\ row'[d] = row[d]
        /\ req'[c] = req[c] /\ req'[d] = req[d]
    BY <1>1, <1>4 DEF Others
  <2>4. QED
    BY <1>3, <2>1, <2>2, <2>3 DEF Apart
<1>5. CASE d = e
  BY <1>1, <1>2, <1>3, <1>5, ApartStep
<1>6. CASE c = e
  <2>1. Apart(d, e)
    BY <1>3, <1>6, ApartSymmetric
  <2>2. Apart(d, e)'
    BY <1>1, <1>2, <1>3, <1>6, <2>1, ApartStep
  <2>3. QED
    BY <1>6, <2>2 DEF Apart
<1>7. QED
  BY <1>4, <1>5, <1>6

LEMMA IdShapeStep ==
  ASSUME Inv, ApartInv, NEW e \in Clients, Call(e) \/ Step(e) \/ Abort(e), NEW c \in Clients
  PROVE  IdShape(c)'
<1>1. CASE c # e
  <2>1. Others(e)
    BY CallFrame, ReturnFrame, StepFrame
  <2>2. QED
    BY <1>1, <2>1 DEF Others, IdShape, ApartInv
<1>2. CASE c = e /\ Call(e)
  <2>1. /\ id'[e] = req'[e].id /\ pc'[e] # "idle"
        /\ pc'[e] = "check" => todo'[e] = req'[e].children
    BY <1>2, CallFrame
  <2>2. QED
    BY <1>2, <2>1 DEF IdShape
<1>3. CASE c = e /\ Return(e)
  BY <1>3, ReturnFrame DEF IdShape
<1>4. CASE c = e /\ ~Return(e) /\ (Step(e) \/ Abort(e))
  <2>1. Steady(e)
    BY <1>4, StepFrame
  <2>2. ASSUME pc'[e] = "check" PROVE todo'[e] \subseteq req[e].children
    <3>1. CASE pc[e] = "check"
      <4>1. todo'[e] \subseteq todo[e]
        BY <1>4, <2>2, <3>1, Domains
           DEF Step, Abort, Find, Populate, CheckSelf, CheckListed, CheckDropped, Begin, Insert,
               Update, Link, SetParent, WriteRow, Commit, Load, List, Emit, Remove, Refuse, Go
      <4>2. QED
        BY <3>1, <4>1 DEF ApartInv, IdShape
    <3>2. CASE pc[e] # "check"
      <4>1. Populate(e)
        BY <1>4, <2>2, <3>2, Domains
           DEF Step, Abort, Find, CheckSelf, CheckListed, CheckDropped, Checked, Begin, Insert,
               Update, Link, SetParent, WriteRow, Commit, Load, List, Emit, Remove, Refuse, Go
      <4>2. QED
        BY <4>1, Domains DEF Populate
    <3>3. QED
      BY <3>1, <3>2
  <2>3. QED
    BY <1>4, <2>1, <2>2 DEF Steady, IdShape, ApartInv
<1>5. QED
  BY <1>1, <1>2, <1>3, <1>4

LEMMA CallSeparate ==
  ASSUME Inv, ApartInv, NEW e \in Clients, Call(e) PROVE Separate'
<1>1. PICK r \in Requests[required] :
        /\ req'[e] = r
        /\ apart'[e] <=> Crossed(e, r) = {}
        /\ \A d \in Clients \ {e} : apart'[d] => d \notin Crossed(e, r)
  BY CallFrame
<1>2. /\ Others(e) /\ rows' = rows /\ before'[e] = rows
      /\ found'[e] = {} /\ row'[e] = Absent
  BY CallFrame DEF ApartInv, IdShape
<1>3. Reach(e)' = Touched(rows, r)
  BY <1>1, <1>2 DEF Reach
<1>4. ASSUME NEW d \in Clients \ {e}
      PROVE  /\ Reach(d)' = Reach(d) /\ row'[d] = row[d] /\ req'[d] = req[d] /\ pc'[d] = pc[d]
  BY <1>2 DEF Others, Reach
<1>5. ASSUME NEW d \in Clients \ {e}, pc[d] # "idle", d \notin Crossed(e, r)
      PROVE  Apart(d, e)'
  <2>1. Touched(rows, r) \cap Reach(d) = {} /\ row[d] # r.id
    BY <1>5 DEF Crossed
  <2>2. req[d].id # Absent
    <3>1. req[d].id \in Ids \cup {Derived}
      BY <1>5, ReachFacts, RequestFacts
    <3>2. QED
      BY <3>1, TreeAssumption DEF Absent, Derived, Ids
  <2>3. QED
    BY <1>1, <1>2, <1>3, <1>4, <2>1, <2>2 DEF Apart
<1> SUFFICES ASSUME NEW c \in Clients, NEW d \in Clients, c # d,
                    pc'[c] # "idle", pc'[d] # "idle", apart'[c]
             PROVE  Apart(c, d)'
  BY DEF Separate
<1>6. CASE d = e
  BY <1>1, <1>4, <1>5, <1>6
<1>7. CASE c = e
  <2>1. Apart(d, e)'
    BY <1>1, <1>4, <1>5, <1>7
  <2>2. QED
    BY <1>7, <2>1 DEF Apart
<1>8. CASE c # e /\ d # e
  <2>1. pc[c] # "idle" /\ pc[d] # "idle" /\ apart[c]
    BY <1>2, <1>4, <1>8 DEF Others
  <2>2. Apart(c, d)
    BY <2>1 DEF ApartInv, Separate
  <2>3. QED
    BY <1>4, <1>8, <2>2 DEF Apart
<1>9. QED
  BY <1>6, <1>7, <1>8

-----------------------------------------------------------------------------
(* What a call knows of the table it found.                                *)

(* The steps of other calls leave a call that is apart alone.              *)
LEMMA OtherAlone ==
  ASSUME Inv, NEW e \in Clients, Others(e), NEW c \in Clients \ {e}, Alone(c),
         pc[c] # "idle" /\ apart[c] =>
           \A y \in Ids : rows'[y] # rows[y] => y \notin Reach(c) /\ rows'[y] # req[c].id
  PROVE  Alone(c)'
<1> SUFFICES ASSUME pc'[c] # "idle", apart'[c] PROVE (OnItsRecords(c) /\ NoNewKids(c) /\ Known(c))'
  BY DEF Alone
<1>1. /\ required' = required
      /\ pc'[c] = pc[c] /\ req'[c] = req[c] /\ id'[c] = id[c] /\ row'[c] = row[c]
      /\ todo'[c] = todo[c] /\ found'[c] = found[c] /\ written'[c] = written[c]
      /\ res'[c] = res[c] /\ before'[c] = before[c]
      /\ apart[c] /\ (excused[c] => excused'[c]) /\ pc[c] # "idle"
  BY DEF Others
<1>2. OnItsRecords(c) /\ NoNewKids(c) /\ Known(c)
  BY <1>1 DEF Alone
<1>3. Mine(c)' = Mine(c) /\ Result(c)' = Result(c) /\ Target(c)' = Target(c)
      /\ Expected(c)' = Expected(c)
  BY <1>1 DEF Mine, Result, Target, Expected
<1>4. Mine(c) \subseteq Reach(c) /\ Reach(c) \subseteq Ids
  BY <1>1, ReachFacts
<1>5. \A y \in Ids : rows'[y] # rows[y] => y \notin Reach(c) /\ rows'[y] # req[c].id
  BY <1>1
<1>6. OnItsRecords(c)' /\ NoNewKids(c)'
  BY <1>1, <1>2, <1>3, <1>4, <1>5 DEF OnItsRecords, NoNewKids
<1>7. KnownRow(c)' /\ KnownChildren(c)'
  BY <1>1, <1>2 DEF Known, KnownRow, KnownChildren
<1>8. KnownOk(c)'
  BY <1>1, <1>2, <1>3 DEF Known, KnownOk
<1>9. KnownEnd(c)'
  BY <1>1, <1>2, <1>3 DEF Known, KnownEnd
<1>10. QED
  BY <1>6, <1>7, <1>8, <1>9 DEF Known

(* A call that is apart and has written nothing finds its records as they  *)
(* were when it began.                                                     *)
LEMMA Unwritten ==
  ASSUME Inv, NEW c \in Clients, pc[c] # "idle", OnItsRecords(c), NoNewKids(c), ~written[c]
  PROVE  /\ \A x \in Mine(c) : rows[x] = before[c][x]
         /\ req[c].id \in Ids => /\ rows[req[c].id] = before[c][req[c].id]
                                 /\ ChildrenOf(rows, req[c].id) = ChildrenOf(before[c], req[c].id)
         /\ req[c].id = Derived => rows = before[c]
         /\ \A x \in req[c].children : rows[x] = before[c][x]
<1>1. /\ req[c] \in Request(required)
      /\ rows \in Store(required) /\ before[c] \in Store(required)
  BY ReachFacts DEF Inv, TypeOK
<1>2. \A x \in Mine(c) : rows[x] = before[c][x]
  BY DEF OnItsRecords, Result
<1>3. /\ req[c].id = Derived => Mine(c) = Ids
      /\ {req[c].id, req[c].parent} \cap Ids \subseteq Mine(c)
      /\ req[c].children \subseteq Mine(c)
      /\ \A x \in Ids : before[c][x] = req[c].id => x \in Mine(c)
  BY <1>1, TouchedFacts DEF Mine
<1>4. ChildrenOf(rows, req[c].id) = ChildrenOf(before[c], req[c].id)
  BY <1>2, <1>3 DEF ChildrenOf, NoNewKids
<1>5. req[c].id = Derived => rows = before[c]
  BY <1>1, <1>2, <1>3 DEF Store
<1>6. QED
  BY <1>2, <1>3, <1>4, <1>5

(* A step that commits nothing leaves its call where it was in the table.  *)
LEMMA SameRows ==
  ASSUME NEW e \in Clients, Steady(e), Others(e), rows' = rows, written'[e] = written[e],
         OnItsRecords(e), NoNewKids(e)
  PROVE  /\ OnItsRecords(e)' /\ NoNewKids(e)'
         /\ Target(e)' = Target(e) /\ Result(e)' = Result(e) /\ Expected(e)' = Expected(e)
BY DEF Steady, Others, OnItsRecords, NoNewKids, Mine, Target, Result, Expected

LEMMA CallAlone ==
  ASSUME Inv, ApartInv, NEW e \in Clients, Call(e) PROVE Alone(e)'
<1>1. PICK r \in Requests[required] :
        /\ req'[e] = r /\ id'[e] = r.id
        /\ pc'[e] = CASE r.op = "create" -> "check"
                      [] r.op = "get"    -> "load"
                      [] OTHER           -> "find"
        /\ todo'[e] = IF r.op = "create" THEN r.children ELSE {}
  BY CallFrame
<1>2. /\ rows' = rows /\ before'[e] = rows /\ written'[e] = FALSE /\ required' = required
  BY CallFrame DEF Inv, TypeOK, Shape, CallShape, Others
<1>3. r \in Request(required)
  BY SeaormAssumption DEF Inv, TypeOK
<1>4. OnItsRecords(e)'
  BY <1>2 DEF OnItsRecords, Result
<1>5. NoNewKids(e)'
  BY <1>1, <1>2, <1>3, TouchedFacts DEF NoNewKids, Mine
<1>6. r.op \in {"create", "update", "get", "delete"} /\ (r.op # "create" => r.id \in Ids)
  BY <1>3, RequestFacts
<1>7. KnownRow(e)' /\ KnownChildren(e)'
  BY <1>1, <1>6 DEF KnownRow, KnownChildren
<1>8. KnownOk(e)'
  <2>1. pc'[e] = "load" => r.op = "get" /\ r.id # Derived
    BY <1>1, <1>6, RecordFacts
  <2>2. QED
    BY <1>1, <1>2, <1>6, <2>1 DEF KnownOk, Target
<1>9. KnownEnd(e)'
  BY <1>1, <1>6 DEF KnownEnd
<1>10. QED
  BY <1>4, <1>5, <1>7, <1>8, <1>9 DEF Alone, Known

(* A refusal is the one the table it found calls for.                      *)
LEMMA RefuseAlone ==
  ASSUME Inv, NEW e \in Clients, NEW from, from # "idle", NEW status, status # "ok",
         Refuse(e, from, status), apart[e], OnItsRecords(e), NoNewKids(e),
         ~excused[e] => status = Expected(e)
  PROVE  Alone(e)'
<1>1. Others(e) /\ Steady(e) /\ rows' = rows
  BY RefuseFrame
<1>2. written'[e] = written[e] /\ excused'[e] = excused[e] /\ pc'[e] = "done"
      /\ res'[e] = status
  BY DEF Refuse, Go, ghost, Inv, TypeOK
<1>3. OnItsRecords(e)' /\ NoNewKids(e)' /\ Expected(e)' = Expected(e)
  BY <1>1, <1>2, SameRows
<1>4. Known(e)'
  BY <1>2, <1>3 DEF Known, KnownRow, KnownChildren, KnownOk, KnownEnd
<1>5. QED
  BY <1>3, <1>4 DEF Alone

LEMMA FindAlone ==
  ASSUME Inv, NEW e \in Clients, Find(e), apart[e], IdShape(e), OnItsRecords(e), NoNewKids(e),
         Known(e)
  PROVE  Alone(e)'
<1>1. /\ pc[e] = "find" /\ ~written[e] /\ req[e].op \in {"update", "delete"}
      /\ req[e] \in Request(required)
  BY DEF Find, Inv, Shape, CallShape
<1>2. req[e].id \in Ids /\ id[e] = req[e].id
  BY <1>1, RequestFacts, RecordFacts DEF IdShape
<1>3. rows[id[e]] = before[e][req[e].id]
  BY <1>1, <1>2, Unwritten
<1>4. CASE rows[id[e]] = Absent /\ Refuse(e, "find", "not_found")
  <2>1. Expected(e) = "not_found"
    BY <1>1, <1>3, <1>4 DEF Expected, Outcome
  <2>2. QED
    BY <1>4, <2>1, RefuseAlone
<1>5. CASE /\ rows[id[e]] # Absent
           /\ Go(e, "find", IF req[e].op = "update" THEN "children" ELSE "remove")
           /\ row' = [row EXCEPT ![e] = rows[id[e]]]
           /\ UNCHANGED <<db, site, req, id, todo, found, written, sent, res, calls, ghost>>
  <2>1. Others(e) /\ Steady(e)
    BY StepFrame DEF Step, Return, Go, Find
  <2>2. /\ pc'[e] = IF req[e].op = "update" THEN "children" ELSE "remove"
        /\ row'[e] = rows[id[e]] /\ rows' = rows /\ req' = req /\ before' = before
        /\ written' = written
    BY <1>5, Domains DEF Go, db, ghost
  <2>3. OnItsRecords(e)' /\ NoNewKids(e)'
    BY <2>1, <2>2, SameRows
  <2>4. Known(e)'
    BY <1>1, <1>3, <1>5, <2>2 DEF Known, KnownRow, KnownChildren, KnownOk, KnownEnd
  <2>5. QED
    BY <2>3, <2>4 DEF Alone
<1>6. QED
  BY <1>4, <1>5 DEF Find

LEMMA PopulateAlone ==
  ASSUME Inv, NEW e \in Clients, Populate(e), apart[e], IdShape(e), OnItsRecords(e),
         NoNewKids(e), Known(e)
  PROVE  Alone(e)'
<1>1. /\ pc[e] = "children" /\ ~written[e] /\ req[e].op = "update" /\ id[e] \in Ids
      /\ req[e] \in Request(required)
  BY DEF Populate, Go, Inv, Shape, CallShape
<1>2. req[e].id \in Ids /\ id[e] = req[e].id
  BY <1>1, RequestFacts, RecordFacts DEF IdShape
<1>3. Others(e) /\ Steady(e)
  BY <1>1, StepFrame DEF Step, Return, Go
<1>4. /\ pc'[e] = "check" /\ row' = row /\ rows' = rows /\ req' = req /\ before' = before
      /\ written' = written
      /\ found'[e] = ChildrenOf(rows, id[e])
      /\ todo'[e] = req[e].children \ ChildrenOf(rows, id[e])
  BY Domains DEF Populate, Go, db, ghost
<1>5. OnItsRecords(e)' /\ NoNewKids(e)'
  BY <1>3, <1>4, SameRows
<1>6. KnownRow(e)'
  BY <1>1, <1>4 DEF Known, KnownRow
<1>7. KnownChildren(e)'
  <2>1. found'[e] = ChildrenOf(before[e], req[e].id)
    BY <1>1, <1>2, <1>4, Unwritten
  <2>2. \A x \in ChildrenOf(before[e], req[e].id) : before[e][x] # Absent
    BY <1>2, RecordFacts DEF ChildrenOf
  <2>3. \A x \in req[e].children \ todo'[e] : before[e][x] # Absent
    BY <1>4, <2>1, <2>2
  <2>4. QED
    BY <1>4, <2>1, <2>3 DEF KnownChildren
<1>8. KnownOk(e)' /\ KnownEnd(e)'
  BY <1>4 DEF KnownOk, KnownEnd
<1>9. QED
  BY <1>5, <1>6, <1>7, <1>8 DEF Alone, Known

LEMMA CheckAlone ==
  ASSUME Inv, NEW e \in Clients, CheckSelf(e) \/ CheckListed(e) \/ CheckDropped(e), pc[e] = "check",
         apart[e], IdShape(e), OnItsRecords(e), NoNewKids(e), Known(e)
  PROVE  Alone(e)'
<1>1. /\ ~written[e] /\ req[e].op \in {"create", "update"} /\ req[e] \in Request(required)
  BY DEF Inv, Shape, CallShape
<1>2. /\ req[e].op = "update" => /\ before[e][req[e].id] # Absent
                                 /\ found[e] = ChildrenOf(before[e], req[e].id)
      /\ \A x \in req[e].children \ todo[e] : before[e][x] # Absent
  BY DEF Known, KnownRow, KnownChildren
<1>3. CASE CheckSelf(e)
  <2>1. Expected(e) = "parent_cycle"
    BY <1>1, <1>2, <1>3 DEF CheckSelf, Expected, Outcome
  <2>2. QED
    BY <1>3, <2>1, RefuseAlone DEF CheckSelf
<1>4. CASE CheckDropped(e)
  <2>1. /\ ~SelfListed(req[e]) /\ todo[e] = {} /\ required
        /\ req[e].op = "update" /\ req[e].lists /\ found[e] \ req[e].children # {}
    BY <1>4 DEF CheckDropped, Checked, Dropped
  <2>2. Expected(e) = "parent_required"
    BY <1>2, <2>1 DEF Expected, Outcome
  <2>3. QED
    BY <1>4, <2>2, RefuseAlone DEF CheckDropped
<1>5. CASE CheckListed(e)
  <2>1. PICK x \in todo[e] :
          \/ rows[x] = Absent /\ Refuse(e, "check", "child_not_found")
          \/ /\ rows[x] # Absent
             /\ pc[e] = "check"
             /\ todo' = [todo EXCEPT ![e] = @ \ {x}]
             /\ UNCHANGED <<db, site, pc, req, id, row, found, written, sent, res, calls, ghost>>
    BY <1>5 DEF CheckListed
  <2>2. x \in req[e].children
    BY DEF IdShape
  <2>3. rows[x] = before[e][x]
    BY <1>1, <2>2, Unwritten
  <2>4. CASE rows[x] = Absent /\ Refuse(e, "check", "child_not_found")
    <3>1. Expected(e) = "child_not_found"
      BY <1>1, <1>2, <1>5, <2>2, <2>3, <2>4 DEF CheckListed, Expected, Outcome
    <3>2. QED
      BY <2>4, <3>1, RefuseAlone
  <2>5. CASE /\ rows[x] # Absent
             /\ todo' = [todo EXCEPT ![e] = @ \ {x}]
             /\ UNCHANGED <<db, site, pc, req, id, row, found, written, sent, res, calls, ghost>>
    <3>1. Others(e) /\ Steady(e)
      BY <1>5, StepFrame DEF Step, Return, Go
    <3>2. /\ pc' = pc /\ row' = row /\ rows' = rows /\ req' = req /\ before' = before
          /\ written' = written /\ found' = found /\ todo'[e] = todo[e] \ {x}
      BY <2>5, Domains DEF db, ghost
    <3>3. OnItsRecords(e)' /\ NoNewKids(e)'
      BY <3>1, <3>2, SameRows
    <3>4. Known(e)'
      BY <2>3, <2>5, <3>2 DEF Known, KnownRow, KnownChildren, KnownOk, KnownEnd
    <3>5. QED
      BY <3>3, <3>4 DEF Alone
  <2>6. QED
    BY <2>1, <2>4, <2>5
<1>6. QED
  BY <1>3, <1>4, <1>5

LEMMA BeginAlone ==
  ASSUME Inv, NEW e \in Clients, Begin(e), apart[e], IdShape(e), OnItsRecords(e), NoNewKids(e),
         Known(e)
  PROVE  Alone(e)'
<1>1. /\ pc[e] = "check" /\ ~SelfListed(req[e]) /\ todo[e] = {}
      /\ pc'[e] = IF req[e].op = "create" THEN "insert" ELSE "update"
      /\ rows' = rows /\ row' = row /\ req' = req /\ before' = before /\ written' = written
      /\ found' = found
  BY Domains DEF Begin, Checked, Go, ghost
<1>2. Others(e) /\ Steady(e)
  BY <1>1, StepFrame DEF Step, Return, Go
<1>3. OnItsRecords(e)' /\ NoNewKids(e)'
  BY <1>1, <1>2, SameRows
<1>4. Known(e)'
  BY <1>1 DEF Known, KnownRow, KnownChildren, KnownOk, KnownEnd
<1>5. QED
  BY <1>3, <1>4 DEF Alone

(* The first write of the transaction.                                     *)
LEMMA WriteRowAlone ==
  ASSUME Inv, NEW e \in Clients, Step(e), NEW from \in {"insert", "update"}, NEW fk,
         WriteRow(e, from, fk), apart[e], OnItsRecords(e), NoNewKids(e), Known(e),
         from = "update" <=> req[e].op = "update",
         id[e] = Target(e), req[e].op = "create" => before[e][id[e]] = Absent
  PROVE  Alone(e)'
<1>1. /\ pc[e] = from /\ pc'[e] = "link"
      /\ rows' = rows /\ row' = row /\ req' = req /\ before' = before /\ written' = written
      /\ found' = found /\ id' = id
  BY Domains DEF WriteRow, Go, ghost
<1>2. Others(e) /\ Steady(e)
  BY <1>1, StepFrame DEF Step, Return, Go
<1>3. OnItsRecords(e)' /\ NoNewKids(e)' /\ Target(e)' = Target(e)
  BY <1>1, <1>2, SameRows
<1>4. KnownRow(e)' /\ KnownChildren(e)' /\ KnownEnd(e)'
  BY <1>1 DEF Known, KnownRow, KnownChildren, KnownEnd
<1>5. KnownOk(e)'
  BY <1>1, <1>3 DEF Known, KnownOk
<1>6. QED
  BY <1>3, <1>4, <1>5 DEF Alone, Known

LEMMA InsertAlone ==
  ASSUME Inv, NEW e \in Clients, Insert(e), apart[e], IdShape(e), OnItsRecords(e),
         NoNewKids(e), Known(e)
  PROVE  Alone(e)'
<1>1. /\ pc[e] = "insert" /\ ~written[e] /\ req[e].op = "create" /\ id[e] \in Ids
      /\ req[e] \in Request(required) /\ rows \in Store(required)
      /\ req[e].id = Derived => \A i \in Ids : i < id[e] => rows[i] # Absent
  BY DEF Insert, Inv, TypeOK, Shape, CallShape, ProbedSoFar
<1>2. Seen(e) = rows
  BY <1>1 DEF Seen, Inv, Shape, WriterShape
<1>3. req[e].id # Derived => id[e] = req[e].id /\ rows[id[e]] = before[e][id[e]]
  BY <1>1, Unwritten DEF IdShape
<1>4. req[e].id = Derived => rows = before[e]
  BY <1>1, Unwritten
<1>5. CASE Seen(e)[id[e]] = Absent /\ WriteRow(e, "insert", req[e].parent)
  <2>1. id[e] = Target(e)
    <3>1. CASE req[e].id = Derived
      BY <1>1, <1>2, <1>4, <1>5, <3>1, ProbedIsFirstFree DEF Target
    <3>2. CASE req[e].id # Derived
      BY <1>3, <3>2 DEF Target
    <3>3. QED
      BY <3>1, <3>2
  <2>2. before[e][id[e]] = Absent
    BY <1>2, <1>3, <1>4, <1>5
  <2>3. QED
    BY <1>1, <1>5, <2>1, <2>2, WriteRowAlone DEF Step
<1>6. CASE Seen(e)[id[e]] # Absent /\ req[e].id # Derived /\ Refuse(e, "insert", "already_exists")
  <2>1. ~SelfListed(req[e]) /\ \A x \in req[e].children : before[e][x] # Absent
    BY <1>1 DEF Known, KnownOk
  <2>2. Expected(e) = "already_exists"
    BY <1>1, <1>2, <1>3, <1>6, <2>1 DEF Expected, Outcome
  <2>3. QED
    BY <1>6, <2>2, RefuseAlone
<1>7. CASE UNCHANGED <<rows, open, site, pc, req, row, todo, found, written, sent, res, calls,
                       ghost>>
  <2>1. Others(e) /\ Steady(e)
    BY <1>1, StepFrame DEF Step, Return, Go
  <2>2. /\ pc' = pc /\ rows' = rows /\ row' = row /\ req' = req /\ before' = before
        /\ written' = written /\ found' = found
    BY <1>7 DEF ghost
  <2>3. OnItsRecords(e)' /\ NoNewKids(e)'
    BY <2>1, <2>2, SameRows
  <2>4. Known(e)'
    BY <1>1, <2>2 DEF Known, KnownRow, KnownChildren, KnownOk, KnownEnd
  <2>5. QED
    BY <2>3, <2>4 DEF Alone
<1>8. QED
  BY <1>5, <1>6, <1>7 DEF Insert

(* The row of an update that is apart is still there.                      *)
LEMMA UpdateAlone ==
  ASSUME Inv, NEW e \in Clients, Update(e), apart[e], IdShape(e), OnItsRecords(e),
         NoNewKids(e), Known(e)
  PROVE  Alone(e)'
<1>1. /\ pc[e] = "update" /\ ~written[e] /\ req[e].op = "update" /\ id[e] \in Ids
      /\ req[e] \in Request(required) /\ e \notin writer
  BY DEF Update, Inv, Shape, CallShape, WriterShape
<1>2. req[e].id \in Ids /\ id[e] = req[e].id /\ req[e].id # Derived
  BY <1>1, RequestFacts, RecordFacts DEF IdShape
<1>3. Seen(e)[id[e]] = before[e][req[e].id] /\ before[e][req[e].id] # Absent
  BY <1>1, <1>2, Unwritten DEF Seen, Known, KnownRow
<1>4. WriteRow(e, "update", Row(e))
  BY <1>3 DEF Update
<1>5. QED
  BY <1>1, <1>2, <1>4, WriteRowAlone DEF Step, Target

LEMMA LinkAlone ==
  ASSUME Inv, NEW e \in Clients, Link(e), apart[e], OnItsRecords(e), NoNewKids(e), Known(e)
  PROVE  Alone(e)'
<1>1. /\ pc' = pc /\ rows' = rows /\ row' = row /\ req' = req /\ before' = before
      /\ written' = written /\ found' = found /\ id' = id /\ pc[e] = "link"
  BY DEF Link, SetParent, ghost
<1>2. Others(e) /\ Steady(e)
  BY <1>1, StepFrame DEF Step, Return, Go
<1>3. OnItsRecords(e)' /\ NoNewKids(e)' /\ Target(e)' = Target(e)
  BY <1>1, <1>2, SameRows
<1>4. KnownRow(e)' /\ KnownChildren(e)' /\ KnownEnd(e)'
  BY <1>1 DEF Known, KnownRow, KnownChildren, KnownEnd
<1>5. KnownOk(e)'
  BY <1>1, <1>3 DEF Known, KnownOk
<1>6. QED
  BY <1>3, <1>4, <1>5 DEF Alone, Known

(* What the call has found lets it end well.                               *)
LEMMA LinkOk ==
  ASSUME Inv, NEW e \in Clients, pc[e] = "link", IdShape(e), Known(e)
  PROVE  Expected(e) = "ok"
<1>1. /\ req[e].op \in {"create", "update"} /\ ~SelfListed(req[e])
      /\ \A x \in req[e].children : before[e][x] # Absent
      /\ id[e] = Target(e)
      /\ req[e].op = "create" => before[e][id[e]] = Absent
      /\ req[e].op = "update" => /\ before[e][req[e].id] # Absent
                                 /\ found[e] = ChildrenOf(before[e], req[e].id)
      /\ required => Dropped(e) = {}
  BY DEF Known, KnownOk, KnownRow, KnownChildren, Inv, Shape, CallShape
<1>2. req[e].op = "create" /\ req[e].id # Derived => before[e][req[e].id] = Absent
  BY <1>1 DEF Target
<1>3. QED
  BY <1>1, <1>2 DEF Expected, Outcome, Dropped

(* A commit leaves the records of a call that is apart as it would alone.  *)
LEMMA CommitAlone ==
  ASSUME Inv, NEW e \in Clients, Commit(e), apart[e], IdShape(e), OnItsRecords(e),
         NoNewKids(e), Known(e)
  PROVE  Alone(e)'
<1>1. /\ pc[e] = "link" /\ pc'[e] = "load" /\ rows' = Whole(e) /\ written'[e] /\ ~written[e]
      /\ req' = req /\ before' = before /\ id' = id /\ found' = found /\ row' = row
      /\ id[e] \in Ids /\ req[e] \in Request(required) /\ req[e].op \in {"create", "update"}
  BY Domains, CommitWhole DEF Commit, Go, ghost, Inv, TypeOK, Shape, CallShape
<1>2. Others(e)
  BY <1>1, StepFrame DEF Step, Return, Go
<1>3. /\ id[e] = Target(e) /\ ~SelfListed(req[e])
      /\ \A x \in req[e].children : before[e][x] # Absent
      /\ req[e].op = "create" => before[e][id[e]] = Absent
      /\ req[e].op = "update" => /\ before[e][req[e].id] # Absent
                                 /\ row[e] = before[e][req[e].id]
                                 /\ found[e] = ChildrenOf(before[e], req[e].id)
  BY <1>1 DEF Known, KnownRow, KnownChildren, KnownOk
<1>4. /\ Mine(e) \subseteq Ids /\ req[e].children \subseteq Mine(e)
      /\ req[e].id = Derived => Mine(e) = Ids
      /\ {req[e].id, req[e].parent} \cap Ids \subseteq Mine(e)
      /\ \A x \in Ids : before[e][x] = req[e].id => x \in Mine(e)
  BY <1>1, TouchedFacts DEF Mine
<1>5. /\ req[e].op = "update" => req[e].id \in Ids /\ id[e] = req[e].id
      /\ req[e].id # Derived => id[e] = req[e].id
  BY <1>1, RequestFacts, RecordFacts DEF IdShape
<1>6. id[e] \notin req[e].children
  <2>1. CASE req[e].id = Derived
    BY <1>1, <1>3, <1>5, <2>1, RecordFacts
  <2>2. CASE req[e].id # Derived
    BY <1>1, <1>3, <1>5, <2>2 DEF SelfListed
  <2>3. QED
    BY <2>1, <2>2
<1>7. /\ Dropped(e) = IF req[e].op = "update" /\ req[e].lists
                      THEN ChildrenOf(before[e], req[e].id) \ req[e].children ELSE {}
      /\ id[e] \notin Dropped(e) /\ Dropped(e) \subseteq Mine(e)
  BY <1>3, <1>4, <1>5 DEF Dropped, ChildrenOf
<1>8. \A x \in Ids : Base(e)[x] = IF x = id[e] THEN Own(e) ELSE rows[x]
  BY <1>1 DEF Base, Inv, TypeOK, Store
<1>9. ASSUME NEW x \in Ids
      PROVE  rows'[x] = IF x = id[e] THEN Own(e)
                        ELSE IF x \in req[e].children THEN (IF rows[x] = Absent THEN Absent ELSE id[e])
                        ELSE IF x \in Dropped(e) THEN (IF rows[x] = Absent THEN Absent ELSE NoParent)
                        ELSE rows[x]
  BY <1>1, <1>6, <1>7, <1>8 DEF Whole, Parent
<1>10. \A x \in Mine(e) : rows[x] = before[e][x]
  BY <1>1, Unwritten
<1>11. Result(e)' = Applied(before[e], req[e], id[e])
  BY <1>1, <1>3 DEF Result, Target
<1>12. Own(e) = IF req[e].parent = Keep THEN before[e][id[e]] ELSE req[e].parent
  BY <1>1, <1>3, <1>5, RequestFacts, RecordFacts DEF Own, Row
<1>13. ASSUME NEW x \in Mine(e) PROVE rows'[x] = Applied(before[e], req[e], id[e])[x]
  <2>1. rows[x] = before[e][x] /\ x \in Ids
    BY <1>4, <1>10
  <2>2. Applied(before[e], req[e], id[e])[x]
          = IF x = id[e] THEN Own(e)
            ELSE IF x \in req[e].children THEN id[e]
            ELSE IF req[e].op = "update" /\ req[e].lists /\ before[e][x] = id[e] THEN NoParent
            ELSE before[e][x]
    BY <1>1, <1>12, <2>1 DEF Applied
  <2>3. x \in Dropped(e) => before[e][x] # Absent
    BY <1>5, <1>7, RecordFacts DEF ChildrenOf
  <2>4. x # id[e] /\ x \notin req[e].children
          => (x \in Dropped(e) <=> req[e].op = "update" /\ req[e].lists /\ before[e][x] = id[e])
    BY <1>5, <1>7, <2>1 DEF ChildrenOf
  <2>5. QED
    BY <1>3, <1>9, <2>1, <2>2, <2>3, <2>4
<1>14. OnItsRecords(e)'
  BY <1>1, <1>11, <1>13 DEF OnItsRecords, Mine
<1>15. NoNewKids(e)'
  <2>1. ASSUME NEW x \in Ids, rows'[x] = req[e].id, x \notin Mine(e) PROVE FALSE
    <3>1. req[e].id \in Ids
      BY <1>4, <2>1, <1>1, RequestFacts
    <3>2. x # id[e] /\ x \notin req[e].children /\ x \notin Dropped(e)
      BY <1>4, <1>5, <1>7, <2>1, <3>1, RecordFacts
    <3>3. rows[x] = req[e].id
      BY <1>9, <2>1, <3>2
    <3>4. QED
      BY <2>1, <3>3 DEF NoNewKids
  <2>2. QED
    BY <1>1, <2>1 DEF NoNewKids, Mine
<1>16. Known(e)'
  <2>1. Expected(e)' = Expected(e) /\ Target(e)' = Target(e)
    BY <1>1, <1>2 DEF Expected, Target, Others
  <2>2. Expected(e) = "ok"
    BY <1>1, LinkOk
  <2>3. QED
    BY <1>1, <1>3, <2>1, <2>2 DEF Known, KnownRow, KnownChildren, KnownOk, KnownEnd
<1>17. QED
  BY <1>14, <1>15, <1>16 DEF Alone

LEMMA LoadAlone ==
  ASSUME Inv, NEW e \in Clients, Load(e), apart[e], IdShape(e), OnItsRecords(e), NoNewKids(e),
         Known(e)
  PROVE  Alone(e)'
<1>1. /\ pc[e] = "load" /\ id[e] \in Ids /\ req[e] \in Request(required)
      /\ id[e] = Target(e)
      /\ \/ req[e].op = "get" /\ ~written[e]
         \/ req[e].op \in {"create", "update"} /\ written[e] /\ Expected(e) = "ok"
  BY DEF Load, Refuse, Go, Inv, TypeOK, Shape, CallShape, Known, KnownOk
<1>2. req[e].op = "get" => rows[id[e]] = before[e][req[e].id] /\ id[e] = req[e].id
  <2>1. req[e].op = "get" => req[e].id \in Ids /\ id[e] = req[e].id
    BY <1>1, RequestFacts, RecordFacts DEF IdShape
  <2>2. QED
    BY <1>1, <2>1, Unwritten
<1>3. req[e].op # "get" => rows[id[e]] # Absent
  <2> SUFFICES ASSUME req[e].op # "get" PROVE rows[id[e]] # Absent
    OBVIOUS
  <2>1. written[e] /\ Expected(e) = "ok" /\ req[e].op \in {"create", "update"}
    BY <1>1
  <2>2. id[e] \in Mine(e)
    <3>1. CASE req[e].id = Derived
      BY <1>1, <3>1, TouchedFacts DEF Mine
    <3>2. CASE req[e].id # Derived
      BY <1>1, <3>2, TouchedFacts DEF Mine, IdShape
    <3>3. QED
      BY <3>1, <3>2
  <2>3. rows[id[e]] = IF req[e].parent = Keep THEN before[e][id[e]] ELSE req[e].parent
    BY <1>1, <2>1, <2>2 DEF OnItsRecords, Result, Applied
  <2>4. CASE req[e].parent # Keep
    BY <1>1, <2>3, <2>4, RequestFacts, RecordFacts
  <2>5. CASE req[e].parent = Keep
    <3>1. req[e].op = "update"
      BY <1>1, <2>1, <2>5, RequestFacts, RecordFacts
    <3>2. req[e].id \in Ids /\ id[e] = req[e].id
      BY <1>1, <3>1, RequestFacts, RecordFacts DEF IdShape
    <3>3. before[e][req[e].id] # Absent
      BY <2>1, <3>1 DEF Expected, Outcome
    <3>4. QED
      BY <2>3, <2>5, <3>2, <3>3
  <2>6. QED
    BY <2>4, <2>5
<1>4. CASE rows[id[e]] = Absent /\ Refuse(e, "load", "not_found")
  <2>1. Expected(e) = "not_found"
    BY <1>1, <1>2, <1>3, <1>4 DEF Expected, Outcome
  <2>2. QED
    BY <1>4, <2>1, RefuseAlone
<1>5. CASE /\ rows[id[e]] # Absent /\ Go(e, "load", "list")
           /\ UNCHANGED <<db, site, req, id, row, todo, found, written, sent, res, calls, ghost>>
  <2>1. Others(e) /\ Steady(e)
    BY <1>1, StepFrame DEF Step, Return, Go
  <2>2. /\ pc'[e] = "list" /\ rows' = rows /\ row' = row /\ req' = req /\ before' = before
        /\ written' = written /\ found' = found /\ id' = id
    BY <1>5, Domains DEF Go, db, ghost
  <2>3. /\ OnItsRecords(e)' /\ NoNewKids(e)'
        /\ Target(e)' = Target(e) /\ Expected(e)' = Expected(e)
    BY <2>1, <2>2, SameRows
  <2>4. Expected(e) = "ok"
    <3>1. CASE req[e].op = "get"
      <4>1. req[e].children = {}
        BY <1>1, <3>1, RequestFacts
      <4>2. QED
        BY <1>2, <1>5, <3>1, <4>1 DEF Expected, Outcome, SelfListed
    <3>2. CASE req[e].op # "get"
      BY <1>1, <3>2
    <3>3. QED
      BY <3>1, <3>2
  <2>5. Known(e)'
    BY <1>1, <2>2, <2>3, <2>4 DEF Known, KnownRow, KnownChildren, KnownOk, KnownEnd
  <2>6. QED
    BY <2>3, <2>5 DEF Alone
<1>6. QED
  BY <1>4, <1>5 DEF Load

LEMMA ListAlone ==
  ASSUME Inv, NEW e \in Clients, List(e), apart[e], IdShape(e), OnItsRecords(e), NoNewKids(e),
         Known(e)
  PROVE  Alone(e)'
<1>1. /\ pc[e] = "list" /\ id[e] \in Ids /\ req[e] \in Request(required)
      /\ id[e] = Target(e) /\ Expected(e) = "ok"
      /\ pc'[e] = "done" /\ rows' = rows /\ row' = row /\ req' = req /\ before' = before
      /\ written' = written /\ id' = id /\ res'[e] = "ok"
      /\ found'[e] = ChildrenOf(rows, id[e])
      /\ \/ req[e].op = "get" /\ ~written[e]
         \/ req[e].op \in {"create", "update"} /\ written[e]
  BY Domains DEF List, Emit, Go, db, ghost, Inv, TypeOK, Shape, CallShape, Known, KnownOk
<1>2. Others(e) /\ Steady(e)
  BY <1>1, StepFrame DEF Step, Return, Go
<1>3. /\ OnItsRecords(e)' /\ NoNewKids(e)'
      /\ Target(e)' = Target(e) /\ Expected(e)' = Expected(e) /\ Result(e)' = Result(e)
  BY <1>1, <1>2, SameRows
<1>4. ChildrenOf(rows, id[e]) = ChildrenOf(Result(e), id[e])
  <2>1. /\ Mine(e) \subseteq Ids /\ req[e].children \subseteq Mine(e)
        /\ req[e].id = Derived => Mine(e) = Ids
        /\ \A x \in Ids : before[e][x] = req[e].id => x \in Mine(e)
    BY <1>1, TouchedFacts DEF Mine
  <2>2. \A x \in Mine(e) : rows[x] = Result(e)[x]
    BY DEF OnItsRecords
  <2>3. CASE req[e].id = Derived
    BY <2>1, <2>2, <2>3 DEF ChildrenOf
  <2>4. CASE req[e].id # Derived
    <3>1. id[e] = req[e].id
      BY <1>1, <2>4 DEF IdShape
    <3>2. ASSUME NEW x \in Ids, x # id[e], Result(e)[x] = id[e] PROVE x \in Mine(e)
      <4>1. CASE ~written[e]
        BY <2>1, <3>1, <3>2, <4>1 DEF Result
      <4>2. CASE written[e]
        <5>1. Result(e)[x] = IF x \in req[e].children THEN id[e]
                             ELSE IF req[e].op = "update" /\ req[e].lists /\ before[e][x] = id[e]
                                  THEN NoParent ELSE before[e][x]
          BY <1>1, <3>2, <4>2 DEF Result, Applied
        <5>2. QED
          BY <2>1, <3>1, <3>2, <5>1
      <4>3. QED
        BY <4>1, <4>2
    <3>3. \A x \in Ids : rows[x] = id[e] => x \in Mine(e)
      BY <3>1 DEF NoNewKids
    <3>4. QED
      BY <2>2, <3>2, <3>3 DEF ChildrenOf
  <2>5. QED
    BY <2>3, <2>4
<1>5. Known(e)'
  BY <1>1, <1>3, <1>4 DEF Known, KnownRow, KnownChildren, KnownOk, KnownEnd
<1>6. QED
  BY <1>3, <1>5 DEF Alone

LEMMA RemoveAlone ==
  ASSUME Inv, NEW e \in Clients, Remove(e), apart[e], IdShape(e), OnItsRecords(e),
         NoNewKids(e), Known(e)
  PROVE  Alone(e)'
<1>1. /\ pc[e] = "remove" /\ id[e] \in Ids /\ req[e] \in Request(required)
      /\ req[e].op = "delete" /\ ~written[e] /\ written'[e]
      /\ pc'[e] = "done" /\ req' = req /\ before' = before /\ res'[e] = "ok"
      /\ rows' = [rows EXCEPT ![id[e]] = Absent]
      /\ before[e][req[e].id] # Absent /\ rows \in Store(required)
  BY Domains DEF Remove, Emit, Go, Inv, TypeOK, Shape, CallShape, Known, KnownOk
<1>2. /\ req[e].id \in Ids /\ id[e] = req[e].id /\ req[e].children = {}
      /\ req[e].id # Derived
  BY <1>1, RequestFacts, RecordFacts DEF IdShape
<1>3. Others(e)
  BY <1>1, StepFrame DEF Step, Return, Go
<1>4. Mine(e) \subseteq Ids /\ \A x \in Mine(e) : rows[x] = before[e][x]
  BY <1>1, TouchedFacts, Unwritten DEF Mine
<1>5. Result(e)' = Applied(before[e], req[e], req[e].id)
  BY <1>1, <1>2 DEF Result, Target
<1>6. OnItsRecords(e)'
  <2>1. ASSUME NEW x \in Mine(e) PROVE rows'[x] = Applied(before[e], req[e], req[e].id)[x]
    BY <1>1, <1>2, <1>4 DEF Applied, Store
  <2>2. QED
    BY <1>1, <1>5, <2>1 DEF OnItsRecords, Mine
<1>7. NoNewKids(e)'
  BY <1>1, <1>2, RecordFacts DEF NoNewKids, Mine, Store
<1>8. Expected(e)' = "ok"
  BY <1>1, <1>2, <1>3 DEF Expected, Outcome, SelfListed, Others
<1>9. Known(e)'
  BY <1>1, <1>8 DEF Known, KnownRow, KnownChildren, KnownOk, KnownEnd
<1>10. QED
  BY <1>6, <1>7, <1>9 DEF Alone

LEMMA AbortAlone ==
  ASSUME Inv, NEW e \in Clients, Abort(e), apart[e], OnItsRecords(e), NoNewKids(e)
  PROVE  Alone(e)'
<1>1. Others(e) /\ Steady(e)
  BY StepFrame DEF Abort, Return, Go
<1>2. /\ rows' = rows /\ written' = written /\ pc'[e] = "done" /\ res'[e] = "failed"
      /\ excused'[e]
  BY Domains DEF Abort, Rollback
<1>3. OnItsRecords(e)' /\ NoNewKids(e)'
  BY <1>1, <1>2, SameRows
<1>4. Known(e)'
  BY <1>2 DEF Known, KnownRow, KnownChildren, KnownOk, KnownEnd
<1>5. QED
  BY <1>3, <1>4 DEF Alone

LEMMA OwnAlone ==
  ASSUME Inv, ApartInv, NEW e \in Clients, Call(e) \/ Step(e) \/ Abort(e) PROVE Alone(e)'
<1>1. CASE Call(e)
  BY <1>1, CallAlone
<1>2. CASE Return(e)
  BY <1>2, ReturnFrame DEF Alone
<1>3. CASE (Step(e) \/ Abort(e)) /\ ~Return(e) /\ ~apart'[e]
  BY <1>3 DEF Alone
<1>4. CASE (Step(e) \/ Abort(e)) /\ ~Return(e) /\ apart'[e]
  <2>1. pc[e] # "idle" /\ apart[e]
    BY <1>4, StepFrame DEF Steady
  <2>2. OnItsRecords(e) /\ NoNewKids(e) /\ Known(e) /\ IdShape(e)
    BY <2>1 DEF ApartInv, Alone
  <2>3. CASE CheckSelf(e) \/ CheckListed(e) \/ CheckDropped(e)
    <3>1. pc[e] = "check"
      BY <2>3 DEF CheckSelf, CheckListed, CheckDropped, Checked, Refuse, Go
    <3>2. QED
      BY <2>1, <2>2, <2>3, <3>1, CheckAlone
  <2>4. QED
    BY <1>4, <2>1, <2>2, <2>3, FindAlone, PopulateAlone, BeginAlone, InsertAlone, UpdateAlone,
       LinkAlone, CommitAlone, LoadAlone, ListAlone, RemoveAlone, AbortAlone DEF Step
<1>5. QED
  BY <1>1, <1>2, <1>3, <1>4

LEMMA StepAlone ==
  ASSUME Inv, ApartInv, NEW e \in Clients, Call(e) \/ Step(e) \/ Abort(e), NEW c \in Clients
  PROVE  Alone(c)'
<1>1. CASE c = e
  BY <1>1, OwnAlone
<1>2. CASE c # e
  <2>1. Others(e) /\ (Call(e) => rows' = rows) /\ (Return(e) => rows' = rows)
    BY CallFrame, ReturnFrame, StepFrame
  <2>2. ASSUME pc[c] # "idle", apart[c], NEW y \in Ids, rows'[y] # rows[y]
        PROVE  y \notin Reach(c) /\ rows'[y] # req[c].id
    <3>1. (Step(e) \/ Abort(e)) /\ ~Return(e)
      BY <2>1, <2>2
    <3>2. pc[e] # "idle"
      BY <3>1, StepFrame DEF Steady
    <3>3. Apart(c, e) /\ IdShape(e)
      BY <1>2, <2>2, <3>2 DEF ApartInv, Separate
    <3>4. QED
      BY <1>2, <2>2, <3>1, <3>2, <3>3, Untouched
  <2>3. QED
    BY <1>2, <2>1, <2>2, OtherAlone DEF ApartInv
<1>3. QED
  BY <1>1, <1>2

LEMMA InitApart == Init => ApartInv
  BY DEF Init, ApartInv, Separate, IdShape, Alone

LEMMA NextApart == Inv /\ ApartInv /\ [Next]_vars => ApartInv'
<1> SUFFICES ASSUME Inv, ApartInv, [Next]_vars PROVE ApartInv'
  OBVIOUS
<1>1. CASE UNCHANGED vars
  BY <1>1 DEF vars, db, site, mine, ghost, ApartInv, Separate, Apart, Reach, IdShape, Alone,
              OnItsRecords, NoNewKids, Known, KnownRow, KnownChildren, KnownOk, KnownEnd, Mine,
              Result, Target, Expected
<1>2. ASSUME NEW e \in Clients, Call(e) \/ Step(e) \/ Abort(e) PROVE ApartInv'
  BY <1>2, IdShapeStep, CallSeparate, StepSeparate, StepAlone DEF ApartInv
<1>3. QED
  BY <1>1, <1>2 DEF Next, Quiesce

(* A call ends as it would alone, and leaves the records it touches so, as *)
(* long as no overlapping call shares one with it, however many calls are  *)
(* open and whatever they commit, refuse or abort in between.              *)
THEOREM ApartCallsExact == Spec => []ApartIsExact
<1>1. Inv /\ ApartInv => ApartIsExact
  BY DEF ApartInv, Alone, ApartIsExact, OnItsRecords, Known, KnownEnd, Mine, Result, Target,
         Expected
<1>2. Spec => []ApartInv
  BY InitApart, NextApart, InvAlways, PTL DEF Spec
<1>3. QED
  BY <1>1, <1>2, InvAlways, PTL

-----------------------------------------------------------------------------
(* The calls come to an end.                                               *)

(* A call keeps a connection only while its transaction is open, and then  *)
(* only waits for the write lock.                                          *)
InTransaction == \A c \in open : pc[c] \in {"insert", "update", "link"}

LEMMA RefuseCloses ==
  ASSUME Inv, InTransaction, NEW c \in Clients, NEW from, NEW status, Refuse(c, from, status)
  PROVE  InTransaction'
  BY DEF InTransaction, Refuse, Rollback, Go, Inv, TypeOK

LEMMA StepInTransaction ==
  ASSUME Inv, InTransaction, NEW e \in Clients, Call(e) \/ Step(e) \/ Abort(e)
  PROVE  InTransaction'
<1> DEFINE In == {"insert", "update", "link"}
<1>1. CASE Call(e)
  <2>1. Others(e) /\ pc[e] = "idle" /\ open' = open
    BY <1>1, CallFrame DEF Call, db
  <2>2. QED
    BY <2>1 DEF Others, InTransaction, Inv, TypeOK
<1>2. CASE Return(e)
  BY <1>2 DEF Return, Go, db, InTransaction, Inv, TypeOK
<1>3. CASE Abort(e)
  BY <1>3 DEF Abort, Rollback, InTransaction, Inv, TypeOK
<1>4. CASE \E from, status : Refuse(e, from, status)
  BY <1>4, RefuseCloses
<1>5. CASE Step(e) /\ ~Return(e) /\ ~\E from, status : Refuse(e, from, status)
  <2>1. \A d \in Clients \ {e} : pc'[d] = pc[d]
    BY <1>5, StepFrame DEF Others
  <2>2. (open' \subseteq open /\ (e \in open' => pc'[e] \in In))
        \/ (open' = open \cup {e} /\ pc'[e] \in In)
    <3>1. CASE Begin(e)
      BY <3>1 DEF Begin, Go, Inv, TypeOK
    <3>2. CASE Insert(e)
      BY <1>5, <3>2 DEF Insert, WriteRow, Go, Inv, TypeOK
    <3>3. CASE Update(e)
      BY <1>5, <3>3 DEF Update, WriteRow, Go, Inv, TypeOK
    <3>4. CASE Link(e)
      BY <3>4 DEF Link, SetParent
    <3>5. CASE Commit(e)
      BY <3>5 DEF Commit, Go, Inv, TypeOK
    <3>6. CASE Find(e) \/ Populate(e) \/ Load(e) \/ List(e) \/ CheckListed(e)
      <4>1. open' = open /\ pc[e] \in {"find", "children", "load", "list", "check"}
        BY <1>5, <3>6 DEF Find, Populate, Load, List, Emit, CheckListed, Go, db
      <4>2. QED
        BY <4>1 DEF InTransaction
    <3>7. CASE Remove(e)
      <4>1. open' = open /\ pc[e] = "remove"
        BY <3>7 DEF Remove, Emit, Go
      <4>2. QED
        BY <4>1 DEF InTransaction
    <3>8. QED
      BY <1>5, <3>1, <3>2, <3>3, <3>4, <3>5, <3>6, <3>7 DEF Step, CheckSelf, CheckDropped
  <2>3. \A d \in open : d \in Clients
    BY DEF Inv, TypeOK
  <2>4. ASSUME NEW d \in open' PROVE pc'[d] \in In
    <3>1. CASE d = e
      BY <2>2, <3>1
    <3>2. CASE d # e
      <4>1. d \in open /\ d \in Clients
        BY <2>2, <2>3, <3>2
      <4>2. QED
        BY <2>1, <3>2, <4>1 DEF InTransaction
    <3>3. QED
      BY <3>1, <3>2
  <2>5. QED
    BY <2>4 DEF InTransaction
<1>6. QED
  BY <1>1, <1>2, <1>3, <1>4, <1>5

LEMMA NextInTransaction == Inv /\ InTransaction /\ [Next]_vars => InTransaction'
<1> SUFFICES ASSUME Inv, InTransaction, [Next]_vars PROVE InTransaction'
  OBVIOUS
<1>1. CASE UNCHANGED vars
  <2>1. pc' = pc /\ open' = open
    BY <1>1 DEF vars, db, mine
  <2>2. QED
    BY <2>1 DEF InTransaction
<1>2. QED
  BY <1>1, StepInTransaction DEF Next, Quiesce

(* What the next step of the call of c waits for.                          *)
CanGo(c) ==
  \/ pc[c] \in {"find", "children", "load", "list"} /\ Free
  \/ /\ pc[c] = "check"
     /\ SelfListed(req[c]) \/ (Checked(c) /\ required /\ Dropped(c) # {}) \/ Free
  \/ /\ pc[c] = "insert" /\ CanWrite(c)
     /\ req[c].id # Derived \/ id[c] < N \/ Seen(c)[id[c]] = Absent
  \/ pc[c] = "update" /\ CanWrite(c)
  \/ pc[c] = "remove" /\ Free /\ CanWrite(c)
  \/ pc[c] \in {"link", "done"}

(* With a connection or with one for all: as long as there are ids, not    *)
(* everyone waits on everyone.  The holder of the write lock needs nothing *)
(* more; with no holder, an open transaction gets it; with none open, the  *)
(* pool has a connection for whoever asks.                                 *)
THEOREM NoneWaitsForAll ==
  Spec => []((\E c \in Clients : pc[c] # "idle") /\ (\E i \in Ids : rows[i] = Absent)
               => \E c \in Clients : CanGo(c))
<1>1. Inv /\ InTransaction =>
        ((\E c \in Clients : pc[c] # "idle") /\ (\E i \in Ids : rows[i] = Absent)
           => \E c \in Clients : CanGo(c))
  <2> SUFFICES ASSUME Inv, InTransaction, NEW c \in Clients, pc[c] # "idle",
                      NEW i \in Ids, rows[i] = Absent
               PROVE  \E d \in Clients : CanGo(d)
    OBVIOUS
  <2>1. ASSUME NEW d \in open, CanWrite(d) PROVE CanGo(d)
    <3>1. d \in Clients /\ pc[d] \in {"insert", "update", "link"}
      BY DEF InTransaction, Inv, TypeOK
    <3>2. CASE pc[d] = "insert"
      <4>1. CASE req[d].id = Derived /\ ~(id[d] < N)
        <5>1. /\ req[d].op = "create" /\ id[d] \in Ids
              /\ \A j \in Ids : j < id[d] => rows[j] # Absent
              /\ Seen(d) = rows
          BY <3>1, <3>2, <4>1 DEF Inv, Shape, CallShape, ProbedSoFar, WriterShape, Seen
        <5>2. i = id[d]
          <6>1. ~(i < id[d]) /\ i \in 1 .. N /\ id[d] \in 1 .. N
            BY <5>1 DEF Ids
          <6>2. QED
            BY <4>1, <6>1, TreeAssumption
        <5>3. QED
          BY <2>1, <3>2, <5>1, <5>2 DEF CanGo
      <4>2. QED
        BY <2>1, <3>2, <4>1 DEF CanGo
    <3>3. QED
      BY <2>1, <3>1, <3>2 DEF CanGo
  <2>2. CASE open # {}
    <3>1. PICK d \in open : writer \subseteq {d}
      <4>1. CASE writer = {}
        BY <2>2, <4>1
      <4>2. CASE writer # {}
        <5>1. PICK d \in writer : d \in open /\ d \in Clients
          BY <4>2 DEF Inv, TypeOK
        <5>2. QED
          BY <5>1, OneWriter
      <4>3. QED
        BY <4>1, <4>2
    <3>2. QED
      BY <2>1, <3>1 DEF CanWrite, Inv, TypeOK
  <2>3. CASE open = {}
    <3>1. Free /\ CanWrite(c)
      <4>1. Cardinality(open) = 0 /\ pool \in Nat \ {0} /\ writer = {}
        BY <2>3, FS_EmptySet DEF Inv, TypeOK
      <4>2. QED
        BY <4>1 DEF Free, CanWrite
    <3>2. pc[c] \notin {"insert", "link", "update"}
      BY <2>3 DEF Inv, Shape, WriterShape
    <3>3. pc[c] \in Steps
      BY DEF Inv, TypeOK
    <3>4. QED
      BY <3>1, <3>2, <3>3 DEF CanGo, Steps
  <2>4. QED
    BY <2>2, <2>3
<1>2. Init => InTransaction
  BY DEF Init, InTransaction
<1>3. QED
  BY <1>1, <1>2, NextInTransaction, InitInv, NextInv, PTL DEF Spec

(* How far a call is from its return: the step it has reached, and within  *)
(* one the records or candidates left.                                     *)
StepsLeft(s) ==
  IF s = "find" THEN 8 ELSE IF s = "children" THEN 7 ELSE IF s = "check" THEN 6
  ELSE IF s \in {"insert", "update"} THEN 5 ELSE IF s = "link" THEN 4
  ELSE IF s \in {"load", "remove"} THEN 3 ELSE IF s = "list" THEN 2
  ELSE IF s = "done" THEN 1 ELSE 0

Left(c) ==
  << StepsLeft(pc[c]), IF pc[c] = "insert" THEN N - id[c] ELSE Cardinality(todo[c]) >>

Nearer(a, b) == a[1] < b[1] \/ (a[1] = b[1] /\ a[2] < b[2])

LEMMA LeftCounts == ASSUME Inv, NEW c \in Clients PROVE Left(c) \in Nat \X Nat
<1>1. IsFiniteSet(Ids)
  BY FS_Interval, TreeAssumption DEF Ids
<1>2. Cardinality(todo[c]) \in Nat
  BY <1>1, FS_Subset, FS_CardinalityType DEF Inv, TypeOK
<1>3. pc[c] = "insert" => N - id[c] \in Nat
  BY TreeAssumption DEF Inv, Shape, CallShape, Ids
<1>4. StepsLeft(pc[c]) \in Nat
  BY DEF StepsLeft
<1>5. QED
  BY <1>2, <1>3, <1>4 DEF Left

(* One id less to check or to write.                                       *)
LEMMA OneLess ==
  ASSUME Inv, NEW c \in Clients, NEW x \in todo[c]
  PROVE  Cardinality(todo[c] \ {x}) < Cardinality(todo[c])
<1>1. IsFiniteSet(Ids)
  BY FS_Interval, TreeAssumption DEF Ids
<1>2. IsFiniteSet(todo[c])
  BY <1>1, FS_Subset DEF Inv, TypeOK
<1>3. Cardinality(todo[c]) \in Nat /\ Cardinality(todo[c] \ {x}) = Cardinality(todo[c]) - 1
  BY <1>2, FS_RemoveElement, FS_CardinalityType
<1>4. QED
  BY <1>3

LEMMA StepNearer ==
  ASSUME Inv, NEW c \in Clients, Step(c) \/ Abort(c)
  PROVE  Nearer(Left(c)', Left(c))
<1> DEFINE Sooner == StepsLeft(pc'[c]) < StepsLeft(pc[c])
<1>0. pc \in [Clients -> Steps] /\ todo \in [Clients -> SUBSET Ids] /\ DOMAIN id = Clients
  BY DEF Inv, TypeOK
<1>1. Sooner => Nearer(Left(c)', Left(c))
  BY DEF Nearer, Left
<1>2. ASSUME NEW from \in Steps \ {"idle", "done"}, NEW status, Refuse(c, from, status) PROVE Sooner
  BY <1>0, <1>2 DEF Refuse, Go, StepsLeft, Steps
<1>3. ASSUME NEW from, NEW to, Go(c, from, to), StepsLeft(to) < StepsLeft(from) PROVE Sooner
  BY <1>0, <1>3 DEF Go
<1>4. CASE Find(c)
  BY <1>1, <1>2, <1>3, <1>4 DEF Find, StepsLeft, Steps
<1>5. CASE Populate(c) \/ Begin(c) \/ Commit(c) \/ List(c) \/ Remove(c) \/ Return(c)
  BY <1>1, <1>3, <1>5 DEF Populate, Begin, Commit, List, Remove, Return, Emit, StepsLeft
<1>6. CASE CheckSelf(c) \/ CheckDropped(c)
  BY <1>1, <1>2, <1>6 DEF CheckSelf, CheckDropped, Steps
<1>7. CASE CheckListed(c)
  <2>1. CASE Refuse(c, "check", "child_not_found")
    BY <1>1, <1>2, <2>1 DEF Steps
  <2>2. CASE ~Refuse(c, "check", "child_not_found")
    <3>1. PICK x \in todo[c] :
            pc[c] = "check" /\ pc' = pc /\ todo' = [todo EXCEPT ![c] = @ \ {x}]
      BY <1>7, <2>2 DEF CheckListed
    <3>2. QED
      BY <1>0, <3>1, OneLess DEF Nearer, Left
  <2>3. QED
    BY <2>1, <2>2
<1>8. CASE Insert(c)
  <2>1. CASE Refuse(c, "insert", "already_exists")
    BY <1>1, <1>2, <2>1 DEF Steps
  <2>2. CASE WriteRow(c, "insert", req[c].parent)
    BY <1>1, <1>3, <2>2 DEF WriteRow, StepsLeft
  <2>3. CASE pc[c] = "insert" /\ pc' = pc /\ id' = [id EXCEPT ![c] = @ + 1]
    <3>1. id[c] \in Int /\ N \in Int
      BY <2>3, TreeAssumption DEF Inv, Shape, CallShape, Ids
    <3>2. QED
      BY <1>0, <2>3, <3>1 DEF Nearer, Left
  <2>4. QED
    BY <1>8, <2>1, <2>2, <2>3 DEF Insert
<1>9. CASE Update(c)
  BY <1>1, <1>2, <1>3, <1>9 DEF Update, WriteRow, StepsLeft, Steps
<1>10. CASE Link(c)
  <2>1. PICK x \in todo[c] :
          pc[c] = "link" /\ pc' = pc /\ todo' = [todo EXCEPT ![c] = @ \ {x}]
    BY <1>10 DEF Link, SetParent
  <2>2. QED
    BY <1>0, <2>1, OneLess DEF Nearer, Left
<1>11. CASE Load(c)
  BY <1>1, <1>2, <1>3, <1>11 DEF Load, StepsLeft, Steps
<1>12. CASE Abort(c)
  <2>1. pc[c] \in Steps \ {"idle", "done"} /\ pc'[c] = "done"
    BY <1>0, <1>12 DEF Abort
  <2>2. QED
    BY <1>1, <2>1 DEF StepsLeft, Steps
<1>13. QED
  BY <1>4, <1>5, <1>6, <1>7, <1>8, <1>9, <1>10, <1>11, <1>12 DEF Step

(* Each step of a call brings its return nearer, by an order without       *)
(* endless descent, and nothing another call does puts it off: no loop     *)
(* over children or candidates goes on for ever.                           *)
THEOREM CallsShrink ==
  Spec => [][\A c \in Clients :
               /\ Left(c) \in Nat \X Nat
               /\ Step(c) \/ Abort(c) => Nearer(Left(c)', Left(c))
               /\ Call(c) \/ Step(c) \/ Abort(c) => \A d \in Clients \ {c} : Left(d)' = Left(d)]_vars
<1>1. Inv => \A c \in Clients :
               /\ Left(c) \in Nat \X Nat
               /\ Step(c) \/ Abort(c) => Nearer(Left(c)', Left(c))
               /\ Call(c) \/ Step(c) \/ Abort(c) => \A d \in Clients \ {c} : Left(d)' = Left(d)
  <2> SUFFICES ASSUME Inv, NEW c \in Clients, Call(c) \/ Step(c) \/ Abort(c), NEW d \in Clients \ {c}
               PROVE  Left(d)' = Left(d)
    BY LeftCounts, StepNearer
  <2>1. Others(c)
    BY CallFrame, StepFrame, ReturnFrame
  <2>2. QED
    BY <2>1 DEF Others, Left
<1>2. QED
  BY <1>1, InitInv, NextInv, PTL DEF Spec
=============================================================================
