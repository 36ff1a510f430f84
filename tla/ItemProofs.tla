----------------------------- MODULE ItemProofs -----------------------------
(***************************************************************************)
(* Theorems about MarkdownItems, for any number of callers and calls, any  *)
(* tree of records and either kind of foreign key.                         *)
(*                                                                         *)
(* The argument, one caller at a time: which of its variables a step of    *)
(* its call leaves set (Shape), and that the records it has found or       *)
(* written stay there (Backed): only a delete takes records away, and a    *)
(* delete excuses every call under way.  Calls that are apart reach        *)
(* disjoint sets of records (Separate), so what one of them has read or    *)
(* written stays as it was until it ends (Alone).  What a call links has   *)
(* passed the check of its own list (NotItsOwn).                           *)
(***************************************************************************)
EXTENDS MarkdownItems, WellFoundedInduction, TLAPS

-----------------------------------------------------------------------------
(* The probes.                                                             *)

(* The first free id is an id, as long as one is free.                     *)
LEMMA FirstFreeType ==
  ASSUME NEW s, NEW i \in Ids, s[i] = Absent
  PROVE  FirstFree(s) \in Ids /\ s[FirstFree(s)] = Absent
<1> DEFINE free == {j \in Ids : s[j] = Absent}
           less == OpToRel(<, Nat)
<1>1. free \subseteq Nat /\ free # {}
  BY TreeAssumption DEF Ids
<1>2. \E n \in free : \A m \in free : n <= m
  <2>1. IsWellFoundedOn(less, Nat)
    BY NatLessThanWellFounded
  <2>2. \A x, y \in Nat : <<y, x>> \in less <=> y < x
    BY DEF OpToRel
  <2> HIDE DEF less, free
  <2>3. \E n \in free : \A m \in free : ~(<<m, n>> \in less)
    BY <1>1, <2>1, WFMin
  <2>4. PICK n \in free : \A m \in free : ~(<<m, n>> \in less)
    BY <2>3
  <2>5. \A m \in free : n <= m
    <3> TAKE m \in free
    <3>1. ~(<<m, n>> \in less) /\ m \in Nat /\ n \in Nat
      BY <1>1, <2>4
    <3>2. ~(m < n)
      BY <2>2, <3>1
    <3>3. QED
      BY <3>1, <3>2
  <2>6. QED
    BY <2>5
<1>3. \E n \in Ids : s[n] = Absent /\ \A j \in Ids : s[j] = Absent => n <= j
  BY <1>2
<1>4. QED
  BY <1>3 DEF FirstFree

-----------------------------------------------------------------------------
(* The variables of a call.                                                *)

Reads == {"load", "list", "scan"}

(* What the step a call has reached says about the caller's variables.     *)
Shape(c) ==
  /\ pc[c] # "idle" => req[c] \in Request(required)
  /\ pc[c] \in {"check", "link"} => req[c].op \in {"create", "update"}
  /\ pc[c] \in {"link", "remove"} \cup Reads => id[c] \in Ids
  /\ pc[c] = "check" /\ req[c].op = "update" => id[c] \in Ids
  /\ pc[c] \notin {"check", "link"} => dropped[c] = {}
  /\ (pc[c] = "check" /\ req[c].op = "create") \/ (pc[c] = "link" /\ required) => dropped[c] = {}
  /\ pc[c] = "link" => todo[c] \subseteq req[c].children
  /\ pc[c] \in {"idle", "check", "remove", "load"} => ~written[c]
  /\ pc[c] = "remove" => req[c].op = "delete"
  /\ written[c] => req[c].op # "get"
  /\ pc[c] # "done" => res[c] = "none"
  /\ res[c] \in Refusals => ~written[c]

(* What it has found or written is still there, unless it is excused.      *)
Backed(c) ==
  ~excused[c] =>
    /\ pc[c] = "check" => req[c].children \ todo[c] \subseteq Stored /\ dropped[c] \subseteq Stored
    /\ pc[c] = "link" => id[c] \in Stored /\ req[c].children \subseteq Stored
                         /\ dropped[c] \subseteq Stored
    /\ pc[c] = "scan" => todo[c] \subseteq Stored /\ found[c] \subseteq Stored
    /\ pc[c] = "done" /\ written[c] => sent[c] /\ res[c] = "ok"

IInv == TypeOK /\ \A c \in Clients : Shape(c) /\ Backed(c)

(* The fields of a request.                                                *)
LEMMA RequestFields ==
  ASSUME NEW b \in BOOLEAN, NEW r \in Request(b)
  PROVE  /\ r.op \in {"create", "update", "get", "delete"}
         /\ r.id \in Ids \cup {Derived} /\ r.children \in SUBSET Ids
         /\ r.op # "create" => r.id \in Ids
         /\ r.op \in {"create", "update"} => r.parent \in Record(b) \cup {Keep}
         /\ r.op = "create" => r.parent \in Record(b)
  BY DEF Request, CreateRequest, UpdateRequest, OtherRequest

(* A record is never mistaken for an absent one.                           *)
LEMMA RecordsExist ==
  \A b \in BOOLEAN : Absent \notin Record(b) /\ Ids \subseteq Record(b) /\ Keep \notin Record(b)
  BY TreeAssumption DEF Absent, Record, Ids, NoParent, Keep

LEMMA ItemsInit == Init => IInv
<1> SUFFICES ASSUME Init PROVE IInv
  OBVIOUS
<1>1. required \in BOOLEAN /\ faulty \in BOOLEAN
  BY ItemsAssumption DEF Init
<1>2. store \in Store(required)
  BY <1>1, ItemsAssumption DEF Init
<1>3. Empty \in Store(required)
  BY DEF Empty, Store
<1>4. calls \in 0 .. MaxCalls
  BY ItemsAssumption DEF Init
<1>5. TypeOK
  BY <1>1, <1>2, <1>3, <1>4 DEF Init, TypeOK, Steps
<1>6. ASSUME NEW c \in Clients PROVE Shape(c) /\ Backed(c)
  BY DEF Init, Shape, Backed, Reads, Refusals
<1>7. QED
  BY <1>5, <1>6 DEF IInv

-----------------------------------------------------------------------------
(* What a step does to the other callers.                                  *)

Undisturbed(d) ==
  /\ UNCHANGED <<required, pc[d], req[d], id[d], todo[d], dropped[d], found[d], written[d],
                 sent[d], res[d]>>
  /\ excused[d] => excused'[d]
  /\ pc[d] = "idle" \/ excused'[d] \/ Stored \subseteq Stored'

LEMMA Frame ==
  ASSUME NEW d \in Clients, Shape(d), Backed(d), Undisturbed(d), excused[d] \in BOOLEAN
  PROVE  Shape(d)' /\ Backed(d)'
<1>1. Shape(d)'
  BY DEF Undisturbed, Shape, Reads, Refusals
<1>2. Backed(d)'
  BY DEF Undisturbed, Backed
<1>3. QED
  BY <1>1, <1>2

(* Writing a key takes no record away.                                     *)
LEMMA StoredGrows ==
  ASSUME TypeOK, NEW i \in Ids, NEW fk \in Record(required), store' = [store EXCEPT ![i] = fk]
  PROVE  Stored \subseteq Stored' /\ i \in Stored' /\ store' \in Store(required)
<1>1. fk # Absent /\ fk \in Record(required) \cup {Absent}
  BY RecordsExist DEF TypeOK
<1>2. QED
  BY <1>1 DEF Stored, Exists, TypeOK, Store

(* An early return.                                                        *)
LEMMA Refused ==
  ASSUME TypeOK, NEW c \in Clients, Shape(c), NEW from, NEW status,
         Refuse(c, from, status), pc[c] # "idle",
         status \in Refusals \cup {"failed", "not_found"},
         written[c] => excused[c] /\ status \notin Refusals
  PROVE  /\ TypeOK' /\ Shape(c)' /\ Backed(c)'
         /\ \A d \in Clients \ {c} : Undisturbed(d)
<1>1. /\ pc' = [pc EXCEPT ![c] = "done"] /\ res' = [res EXCEPT ![c] = status]
      /\ todo' = [todo EXCEPT ![c] = {}] /\ dropped' = [dropped EXCEPT ![c] = {}]
      /\ UNCHANGED <<required, faulty, store, req, id, found, written, sent, calls, before, apart,
                     excused>>
  BY DEF Refuse, Go, site
<1>2. TypeOK'
  BY <1>1 DEF TypeOK, Steps
<1>3. /\ pc'[c] = "done" /\ res'[c] = status /\ todo'[c] = {} /\ dropped'[c] = {}
      /\ \A d \in Clients \ {c} : /\ pc'[d] = pc[d] /\ res'[d] = res[d]
                                  /\ todo'[d] = todo[d] /\ dropped'[d] = dropped[d]
  BY <1>1 DEF TypeOK
<1>4. Shape(c)'
  BY <1>1, <1>3 DEF Shape, Reads
<1>5. Backed(c)'
  BY <1>1, <1>3 DEF Backed
<1>6. ASSUME NEW d \in Clients \ {c} PROVE Undisturbed(d)
  BY <1>1, <1>3 DEF Undisturbed, Stored, Exists
<1>7. QED
  BY <1>2, <1>4, <1>5, <1>6

Kept(c) ==
  /\ TypeOK' /\ Shape(c)' /\ Backed(c)'
  /\ \A d \in Clients \ {c} : Undisturbed(d)

-----------------------------------------------------------------------------
(* The steps of a call.                                                    *)

LEMMA CallKeeps == ASSUME IInv, NEW c \in Clients, Call(c) PROVE Kept(c)
<1>1. TypeOK /\ Shape(c) /\ Backed(c)
  BY DEF IInv
<1>2. PICK r \in Requests[required] :
        /\ Go(c, {"idle"}, CASE r.op = "create" -> "check"
                             [] r.op = "delete" -> "remove"
                             [] OTHER           -> "load")
        /\ req' = [req EXCEPT ![c] = r]
        /\ id' = [id EXCEPT ![c] = r.id]
        /\ todo' = [todo EXCEPT ![c] = IF r.op = "create" THEN r.children ELSE {}]
        /\ apart' \in [Clients -> BOOLEAN]
  <2>1. ASSUME NEW r,
               apart' = [d \in Clients |-> IF d = c THEN Crossed(c, r) = {}
                                           ELSE apart[d] /\ d \notin Crossed(c, r)]
        PROVE  apart' \in [Clients -> BOOLEAN]
    <3>1. apart \in [Clients -> BOOLEAN]
      BY <1>1 DEF TypeOK
    <3>2. QED
      BY <2>1, <3>1, Zenon
  <2>2. QED
    BY <2>1 DEF Call
<1>3. /\ r \in Request(required)
      /\ r.op \in {"create", "update", "get", "delete"} /\ r.id \in Ids \cup {Derived}
      /\ r.children \in SUBSET Ids /\ (r.op # "create" => r.id \in Ids)
  <2>1. required \in BOOLEAN
    BY <1>1 DEF TypeOK
  <2>2. r \in Request(required)
    BY <2>1, ItemsAssumption
  <2>3. QED
    BY <2>1, <2>2, RequestFields
<1> DEFINE first == IF r.op = "create" THEN "check" ELSE IF r.op = "delete" THEN "remove" ELSE "load"
<1>4. first \in {"check", "remove", "load"} /\ pc[c] = "idle" /\ pc' = [pc EXCEPT ![c] = first]
  BY <1>2 DEF Go
<1>5. /\ UNCHANGED <<required, faulty, store, dropped, found, written, sent, res, excused>>
      /\ before' = [before EXCEPT ![c] = store]
      /\ calls < MaxCalls /\ calls' = calls + 1
  BY DEF Call, site
<1>6. TypeOK'
  <2>1. apart' \in [Clients -> BOOLEAN]
    BY <1>1, <1>2 DEF TypeOK
  <2>2. calls' \in 0 .. MaxCalls
    BY <1>1, <1>5, ItemsAssumption DEF TypeOK
  <2>3. id' \in [Clients -> Ids \cup {Derived}] /\ todo' \in [Clients -> SUBSET Ids]
    BY <1>1, <1>2, <1>3 DEF TypeOK
  <2>4. pc' \in [Clients -> Steps]
    BY <1>1, <1>4 DEF TypeOK, Steps
  <2>5. req' \in [Clients -> Request(required) \cup {NoRequest}]
    BY <1>1, <1>2, <1>3 DEF TypeOK
  <2>6. before' \in [Clients -> Store(required)]
    BY <1>1, <1>5 DEF TypeOK
  <2>7. QED
    BY <1>1, <1>5, <2>1, <2>2, <2>3, <2>4, <2>5, <2>6 DEF TypeOK
<1>7. /\ pc'[c] = first /\ req'[c] = r /\ id'[c] = r.id
      /\ todo'[c] = IF r.op = "create" THEN r.children ELSE {}
      /\ \A d \in Clients \ {c} : /\ pc'[d] = pc[d] /\ req'[d] = req[d]
                                  /\ id'[d] = id[d] /\ todo'[d] = todo[d]
  BY <1>1, <1>2, <1>4 DEF TypeOK
<1>8. Shape(c)'
  BY <1>1, <1>3, <1>4, <1>5, <1>7 DEF Shape, Reads, Refusals
<1>9. Backed(c)'
  BY <1>1, <1>3, <1>4, <1>5, <1>7 DEF Shape, Backed
<1>10. ASSUME NEW d \in Clients \ {c} PROVE Undisturbed(d)
  BY <1>5, <1>7 DEF Undisturbed, Stored, Exists
<1>11. QED
  BY <1>6, <1>8, <1>9, <1>10 DEF Kept

(* Every refusing check comes before the record is written.                *)
LEMMA RefusingChecks ==
  ASSUME IInv, NEW c \in Clients, CheckSelf(c) \/ CheckDropped(c) PROVE Kept(c)
<1>1. TypeOK /\ Shape(c)
  BY DEF IInv
<1>2. pc[c] = "check" /\ ~written[c]
  BY <1>1 DEF CheckSelf, CheckDropped, Refuse, Go, Shape
<1>3. \E status \in Refusals : Refuse(c, {"check"}, status)
  BY DEF CheckSelf, CheckDropped, Refusals
<1>4. QED
  BY <1>1, <1>2, <1>3, Refused DEF Kept

LEMMA CheckListedKeeps == ASSUME IInv, NEW c \in Clients, CheckListed(c) PROVE Kept(c)
<1>1. TypeOK /\ Shape(c) /\ Backed(c)
  BY DEF IInv
<1>2. PICK x \in todo[c] :
        \/ ~Exists(x) /\ Refuse(c, {"check"}, "child_not_found")
        \/ /\ Exists(x)
           /\ pc[c] = "check"
           /\ todo' = [todo EXCEPT ![c] = @ \ {x}]
           /\ UNCHANGED <<site, store, pc, req, id, dropped, found, written, sent, res, calls,
                          ghost>>
  BY DEF CheckListed
<1>3. CASE Refuse(c, {"check"}, "child_not_found")
  <2>1. pc[c] = "check" /\ ~written[c]
    BY <1>1, <1>3 DEF Refuse, Go, Shape
  <2>2. QED
    BY <1>1, <1>3, <2>1, Refused DEF Refusals, Kept
<1>4. CASE /\ Exists(x)
           /\ pc[c] = "check"
           /\ todo' = [todo EXCEPT ![c] = @ \ {x}]
           /\ UNCHANGED <<site, store, pc, req, id, dropped, found, written, sent, res, calls,
                          ghost>>
  <2>1. UNCHANGED <<required, faulty, store, pc, req, id, dropped, found, written, sent, res,
                    calls, before, apart, excused>>
    BY <1>4 DEF site, ghost
  <2>2. /\ todo'[c] = todo[c] \ {x} /\ x \in Stored /\ Stored' = Stored
        /\ \A d \in Clients \ {c} : todo'[d] = todo[d]
    BY <1>1, <1>4, <2>1 DEF TypeOK, Stored, Exists
  <2>3. TypeOK'
    BY <1>1, <1>4, <2>1 DEF TypeOK
  <2>4. Shape(c)'
    BY <1>1, <1>4, <2>1 DEF Shape, Reads
  <2>5. Backed(c)'
    BY <1>1, <1>4, <2>1, <2>2 DEF Backed
  <2>6. ASSUME NEW d \in Clients \ {c} PROVE Undisturbed(d)
    BY <2>1, <2>2 DEF Undisturbed
  <2>7. QED
    BY <2>3, <2>4, <2>5, <2>6 DEF Kept
<1>5. QED
  BY <1>2, <1>3, <1>4

(* The record is written once everything it lists was seen.                *)
LEMMA WriteKeeps ==
  ASSUME IInv, NEW c \in Clients, NEW i \in Ids, NEW fk \in Record(required), Write(c, i, fk),
         todo[c] = {}, required => dropped[c] = {}
  PROVE  Kept(c)
<1>1. TypeOK /\ Shape(c) /\ Backed(c)
  BY DEF IInv
<1>2. /\ pc[c] = "check" /\ pc' = [pc EXCEPT ![c] = "link"]
      /\ store' = [store EXCEPT ![i] = fk] /\ id' = [id EXCEPT ![c] = i]
      /\ written' = [written EXCEPT ![c] = TRUE] /\ todo' = [todo EXCEPT ![c] = req[c].children]
      /\ UNCHANGED <<required, faulty, req, dropped, found, sent, res, calls, before, apart,
                     excused>>
  BY DEF Write, Go, site, ghost
<1>3. Stored \subseteq Stored' /\ i \in Stored' /\ store' \in Store(required)
  BY <1>1, <1>2, StoredGrows
<1>4. /\ pc'[c] = "link" /\ id'[c] = i /\ written'[c] = TRUE /\ todo'[c] = req[c].children
      /\ \A d \in Clients \ {c} : /\ pc'[d] = pc[d] /\ id'[d] = id[d]
                                  /\ written'[d] = written[d] /\ todo'[d] = todo[d]
  BY <1>1, <1>2 DEF TypeOK
<1>5. /\ req[c].op \in {"create", "update"} /\ req[c].children \in SUBSET Ids
      /\ req[c] \in Request(required)
  <2>1. required \in BOOLEAN /\ req[c] \in Request(required)
    BY <1>1, <1>2 DEF TypeOK, Shape
  <2>2. QED
    BY <1>1, <1>2, <2>1, RequestFields DEF Shape
<1>6. TypeOK'
  BY <1>1, <1>2, <1>3, <1>5 DEF TypeOK, Steps
<1>7. Shape(c)'
  BY <1>1, <1>2, <1>4, <1>5 DEF Shape, Reads, Refusals
<1>8. Backed(c)'
  BY <1>1, <1>2, <1>3, <1>4 DEF Backed
<1>9. ASSUME NEW d \in Clients \ {c} PROVE Undisturbed(d)
  BY <1>2, <1>3, <1>4 DEF Undisturbed
<1>10. QED
  BY <1>6, <1>7, <1>8, <1>9 DEF Kept

LEMMA RefusedUnwritten ==
  ASSUME IInv, NEW c \in Clients, NEW status \in Refusals \cup {"failed"},
         Refuse(c, {"check"}, status)
  PROVE  Kept(c)
<1>1. TypeOK /\ Shape(c)
  BY DEF IInv
<1>2. pc[c] = "check" /\ ~written[c]
  BY <1>1 DEF Refuse, Go, Shape
<1>3. QED
  BY <1>1, <1>2, Refused DEF Kept

LEMMA WriteNewKeeps == ASSUME IInv, NEW c \in Clients, WriteNew(c) PROVE Kept(c)
<1>1. TypeOK /\ Shape(c)
  BY DEF IInv
<1>2. /\ pc[c] = "check" /\ req[c].op = "create" /\ todo[c] = {} /\ dropped[c] = {}
      /\ required \in BOOLEAN /\ req[c] \in Request(required)
  BY <1>1 DEF WriteNew, Checked, Shape, TypeOK
<1>3. req[c].parent \in Record(required) /\ id[c] \in Ids \cup {Derived}
  BY <1>1, <1>2, RequestFields DEF TypeOK
<1>4. CASE id[c] # Derived /\ ~Exists(id[c]) /\ Write(c, id[c], req[c].parent)
  BY <1>2, <1>3, <1>4, WriteKeeps
<1>5. CASE Refuse(c, {"check"}, "already_exists")
  BY <1>5, RefusedUnwritten DEF Refusals
<1>6. CASE Stored # Ids /\ Write(c, FirstFree(store), req[c].parent)
  <2>1. PICK i \in Ids : store[i] = Absent
    BY <1>6 DEF Stored, Exists
  <2>2. FirstFree(store) \in Ids
    BY <2>1, FirstFreeType
  <2>3. QED
    BY <1>2, <1>3, <1>6, <2>2, WriteKeeps
<1>7. QED
  BY <1>4, <1>5, <1>6 DEF WriteNew

LEMMA WriteUpdateKeeps == ASSUME IInv, NEW c \in Clients, WriteUpdate(c) PROVE Kept(c)
<1>1. TypeOK /\ Shape(c)
  BY DEF IInv
<1>2. /\ pc[c] = "check" /\ req[c].op = "update" /\ todo[c] = {} /\ id[c] \in Ids
      /\ required \in BOOLEAN /\ req[c] \in Request(required) /\ (required => dropped[c] = {})
  BY <1>1 DEF WriteUpdate, Checked, Shape, TypeOK
<1>3. req[c].parent \in Record(required) \cup {Keep}
  BY <1>2, RequestFields
<1>4. CASE Refuse(c, {"check"}, "failed")
  BY <1>4, RefusedUnwritten
<1> DEFINE fk == IF req[c].parent = Keep THEN store[id[c]] ELSE req[c].parent
<1>5. CASE Exists(id[c]) /\ Write(c, id[c], fk)
  <2>1. fk \in Record(required)
    BY <1>1, <1>2, <1>3, <1>5 DEF Exists, TypeOK, Store
  <2> HIDE DEF fk
  <2>2. QED
    BY <1>2, <1>5, <2>1, WriteKeeps
<1>6. QED
  BY <1>4, <1>5 DEF WriteUpdate

(* A child that was seen is only missing after a delete.                   *)
LEMMA SetParentKeeps ==
  ASSUME IInv, NEW c \in Clients, NEW x \in Ids, NEW fk \in Record(required),
         pc[c] = "link", x \in req[c].children \cup dropped[c], SetParent(c, x, fk)
  PROVE  Kept(c)
<1>1. TypeOK /\ Shape(c) /\ Backed(c)
  BY DEF IInv
<1>2. CASE ~Exists(x) /\ Refuse(c, {"link"}, "failed")
  <2>1. x \notin Stored /\ excused[c] \in BOOLEAN
    BY <1>1, <1>2 DEF Stored, TypeOK
  <2>2. excused[c]
    BY <1>1, <2>1 DEF Backed
  <2>3. "failed" \notin Refusals
    BY DEF Refusals
  <2>4. QED
    BY <1>1, <1>2, <2>2, <2>3, Refused DEF Kept
<1>3. CASE /\ store' = [store EXCEPT ![x] = fk]
           /\ todo' = [todo EXCEPT ![c] = @ \ {x}]
           /\ dropped' = [dropped EXCEPT ![c] = IF todo[c] = {} THEN @ \ {x} ELSE @]
           /\ UNCHANGED <<site, pc, req, id, found, written, sent, res, calls, ghost>>
  <2>1. UNCHANGED <<required, faulty, pc, req, id, found, written, sent, res, calls, before, apart,
                    excused>>
    BY <1>3 DEF site, ghost
  <2>2. Stored \subseteq Stored' /\ store' \in Store(required)
    BY <1>1, <1>3, StoredGrows
  <2>3. /\ todo'[c] \subseteq todo[c] /\ dropped'[c] \subseteq dropped[c]
        /\ \A d \in Clients \ {c} : todo'[d] = todo[d] /\ dropped'[d] = dropped[d]
    BY <1>1, <1>3 DEF TypeOK
  <2>4. TypeOK'
    BY <1>1, <1>3, <2>1, <2>2 DEF TypeOK
  <2>5. Shape(c)'
    BY <1>1, <2>1, <2>3 DEF Shape, Reads
  <2>6. Backed(c)'
    BY <1>1, <2>1, <2>2, <2>3 DEF Backed
  <2>7. ASSUME NEW d \in Clients \ {c} PROVE Undisturbed(d)
    BY <2>1, <2>2, <2>3 DEF Undisturbed
  <2>8. QED
    BY <2>4, <2>5, <2>6, <2>7 DEF Kept
<1>4. QED
  BY <1>2, <1>3 DEF SetParent

LEMMA LinkKeeps == ASSUME IInv, NEW c \in Clients, Link(c) \/ Unlink(c) PROVE Kept(c)
<1>1. TypeOK /\ Shape(c)
  BY DEF IInv
<1>2. pc[c] = "link"
  BY DEF Link, Unlink, SetParent, Refuse, Go
<1>3. /\ id[c] \in Ids /\ required \in BOOLEAN /\ todo[c] \in SUBSET Ids /\ dropped[c] \in SUBSET Ids
      /\ todo[c] \subseteq req[c].children /\ (required => dropped[c] = {})
  BY <1>1, <1>2 DEF Shape, TypeOK, Reads
<1>4. CASE Link(c)
  <2>1. PICK x \in todo[c] : SetParent(c, x, id[c])
    BY <1>4 DEF Link
  <2>2. id[c] \in Record(required)
    BY <1>3, RecordsExist
  <2>3. QED
    BY <1>2, <1>3, <2>1, <2>2, SetParentKeeps
<1>5. CASE Unlink(c)
  <2>1. PICK x \in dropped[c] : SetParent(c, x, NoParent)
    BY <1>5 DEF Unlink
  <2>2. NoParent \in Record(required)
    BY <1>3, <2>1 DEF Record
  <2>3. QED
    BY <1>2, <1>3, <2>1, <2>2, SetParentKeeps
<1>6. QED
  BY <1>4, <1>5

(* A delete excuses every other call under way.                            *)
LEMMA RemoveKeeps == ASSUME IInv, NEW c \in Clients, Remove(c) PROVE Kept(c)
<1>1. TypeOK /\ Shape(c)
  BY DEF IInv
<1>2. /\ pc[c] = "remove" /\ id[c] \in Ids /\ ~written[c] /\ req[c].op = "delete"
      /\ req[c] \in Request(required)
  BY <1>1 DEF Remove, Shape
<1>3. CASE Refuse(c, {"remove"}, "not_found")
  BY <1>1, <1>2, <1>3, Refused DEF Kept
<1>4. CASE /\ Exists(id[c]) /\ Emit(c, {"remove"})
           /\ store' = [store EXCEPT ![id[c]] = Absent]
           /\ written' = [written EXCEPT ![c] = TRUE]
           /\ excused' = [d \in Clients |-> excused[d] \/ (d # c /\ pc[d] # "idle")]
           /\ UNCHANGED <<site, req, id, todo, dropped, found, calls, before, apart>>
  <2>1. /\ pc' = [pc EXCEPT ![c] = "done"] /\ res' = [res EXCEPT ![c] = "ok"]
        /\ sent' = [sent EXCEPT ![c] = TRUE]
        /\ UNCHANGED <<required, faulty, req, id, todo, dropped, found, calls, before, apart>>
    BY <1>2, <1>4 DEF Emit, Go, site
  <2>2. store' \in Store(required)
    BY <1>1, <1>2, <1>4 DEF Store, TypeOK
  <2>3. /\ pc'[c] = "done" /\ res'[c] = "ok" /\ sent'[c] = TRUE /\ written'[c] = TRUE
        /\ \A d \in Clients \ {c} : /\ pc'[d] = pc[d] /\ res'[d] = res[d] /\ sent'[d] = sent[d]
                                    /\ written'[d] = written[d]
                                    /\ excused'[d] = (excused[d] \/ pc[d] # "idle")
    BY <1>1, <1>4, <2>1 DEF TypeOK
  <2>4. TypeOK'
    <3>1. excused' \in [Clients -> BOOLEAN]
      BY <1>4
    <3>2. QED
      BY <1>1, <1>4, <2>1, <2>2, <3>1 DEF TypeOK, Steps
  <2>5. Shape(c)'
    BY <1>1, <1>2, <2>1, <2>3 DEF Shape, Reads, Refusals
  <2>6. Backed(c)'
    BY <2>3 DEF Backed
  <2>7. ASSUME NEW d \in Clients \ {c} PROVE Undisturbed(d)
    <3>1. excused[d] \in BOOLEAN
      BY <1>1 DEF TypeOK
    <3>2. QED
      BY <2>1, <2>3, <3>1 DEF Undisturbed
  <2>8. QED
    BY <2>4, <2>5, <2>6, <2>7 DEF Kept
<1>5. QED
  BY <1>3, <1>4 DEF Remove

-----------------------------------------------------------------------------
(* Reading back.                                                           *)

LEMMA LoadKeeps == ASSUME IInv, NEW c \in Clients, Load(c) PROVE Kept(c)
<1>1. TypeOK /\ Shape(c) /\ Backed(c)
  BY DEF IInv
<1>2. /\ \/ pc[c] = "load"
         \/ pc[c] = "link" /\ todo[c] = {} /\ dropped[c] = {}
      /\ id[c] \in Ids /\ excused[c] \in BOOLEAN
  BY <1>1 DEF Load, Shape, Reads, TypeOK
<1>3. CASE ~Exists(id[c]) /\ Refuse(c, {pc[c]}, "not_found")
  <2>1. written[c] => excused[c]
    BY <1>1, <1>2, <1>3 DEF Shape, Backed, Stored
  <2>2. "not_found" \notin Refusals
    BY DEF Refusals
  <2>3. QED
    BY <1>1, <1>2, <1>3, <2>1, <2>2, Refused DEF Kept
<1>4. CASE /\ Go(c, {pc[c]}, "list")
           /\ UNCHANGED <<site, store, req, id, todo, dropped, found, written, sent, res, calls,
                          ghost>>
  <2>1. /\ pc' = [pc EXCEPT ![c] = "list"]
        /\ UNCHANGED <<required, faulty, store, req, id, todo, dropped, found, written, sent, res,
                       calls, before, apart, excused>>
    BY <1>4 DEF Go, site, ghost
  <2>2. pc'[c] = "list" /\ \A d \in Clients \ {c} : pc'[d] = pc[d]
    BY <1>1, <2>1 DEF TypeOK
  <2>3. TypeOK'
    BY <1>1, <2>1 DEF TypeOK, Steps
  <2>4. Shape(c)'
    BY <1>1, <1>2, <2>1, <2>2 DEF Shape, Reads
  <2>5. Backed(c)'
    BY <2>2 DEF Backed
  <2>6. ASSUME NEW d \in Clients \ {c} PROVE Undisturbed(d)
    BY <2>1, <2>2 DEF Undisturbed, Stored, Exists
  <2>7. QED
    BY <2>3, <2>4, <2>5, <2>6 DEF Kept
<1>5. QED
  BY <1>3, <1>4 DEF Load

LEMMA ListKeeps == ASSUME IInv, NEW c \in Clients, List(c) PROVE Kept(c)
<1>1. TypeOK /\ Shape(c)
  BY DEF IInv
<1>2. /\ pc[c] = "list" /\ pc' = [pc EXCEPT ![c] = "scan"]
      /\ todo' = [todo EXCEPT ![c] = Stored] /\ found' = [found EXCEPT ![c] = {}]
      /\ UNCHANGED <<required, faulty, store, req, id, dropped, written, sent, res, calls, before,
                     apart, excused>>
  BY DEF List, Go, site, ghost
<1>3. /\ pc'[c] = "scan" /\ todo'[c] = Stored /\ found'[c] = {} /\ Stored' = Stored
      /\ \A d \in Clients \ {c} : pc'[d] = pc[d] /\ todo'[d] = todo[d] /\ found'[d] = found[d]
  BY <1>1, <1>2 DEF TypeOK, Stored, Exists
<1>4. TypeOK'
  BY <1>1, <1>2 DEF TypeOK, Steps, Stored
<1>5. Shape(c)'
  BY <1>1, <1>2, <1>3 DEF Shape, Reads
<1>6. Backed(c)'
  BY <1>3 DEF Backed
<1>7. ASSUME NEW d \in Clients \ {c} PROVE Undisturbed(d)
  BY <1>2, <1>3 DEF Undisturbed
<1>8. QED
  BY <1>4, <1>5, <1>6, <1>7 DEF Kept

LEMMA ScanKeeps == ASSUME IInv, NEW c \in Clients, Scan(c) PROVE Kept(c)
<1>1. TypeOK /\ Shape(c) /\ Backed(c)
  BY DEF IInv
<1>2. PICK x \in todo[c] :
        /\ pc[c] = "scan"
        /\ \/ ~Exists(x) /\ Refuse(c, {"scan"}, "failed")
           \/ /\ Exists(x)
              /\ todo' = [todo EXCEPT ![c] = @ \ {x}]
              /\ found' = [found EXCEPT ![c] =
                             IF x # id[c] /\ store[x] = id[c] THEN @ \cup {x} ELSE @]
              /\ UNCHANGED <<site, store, pc, req, id, dropped, written, sent, res, calls, ghost>>
  BY DEF Scan
<1>3. x \in Ids /\ excused[c] \in BOOLEAN
  BY <1>1 DEF TypeOK
<1>4. CASE ~Exists(x) /\ Refuse(c, {"scan"}, "failed")
  <2>1. excused[c]
    BY <1>1, <1>2, <1>3, <1>4 DEF Backed, Stored
  <2>2. "failed" \notin Refusals
    BY DEF Refusals
  <2>3. QED
    BY <1>1, <1>2, <1>4, <2>1, <2>2, Refused DEF Kept
<1>5. CASE /\ Exists(x)
           /\ todo' = [todo EXCEPT ![c] = @ \ {x}]
           /\ found' = [found EXCEPT ![c] =
                          IF x # id[c] /\ store[x] = id[c] THEN @ \cup {x} ELSE @]
           /\ UNCHANGED <<site, store, pc, req, id, dropped, written, sent, res, calls, ghost>>
  <2>1. UNCHANGED <<required, faulty, store, pc, req, id, dropped, written, sent, res, calls,
                    before, apart, excused>>
    BY <1>5 DEF site, ghost
  <2>2. /\ todo'[c] \subseteq todo[c] /\ found'[c] \subseteq found[c] \cup {x}
        /\ Stored' = Stored /\ x \in Stored
        /\ \A d \in Clients \ {c} : todo'[d] = todo[d] /\ found'[d] = found[d]
    BY <1>1, <1>3, <1>5, <2>1 DEF TypeOK, Stored, Exists
  <2>3. TypeOK'
    BY <1>1, <1>3, <1>5, <2>1 DEF TypeOK
  <2>4. Shape(c)'
    BY <1>1, <1>2, <2>1 DEF Shape, Reads
  <2>5. Backed(c)'
    BY <1>1, <1>2, <2>1, <2>2 DEF Backed
  <2>6. ASSUME NEW d \in Clients \ {c} PROVE Undisturbed(d)
    BY <2>1, <2>2 DEF Undisturbed
  <2>7. QED
    BY <2>3, <2>4, <2>5, <2>6 DEF Kept
<1>6. QED
  BY <1>2, <1>4, <1>5

LEMMA ScannedKeeps == ASSUME IInv, NEW c \in Clients, Scanned(c) PROVE Kept(c)
<1>1. TypeOK /\ Shape(c) /\ Backed(c)
  BY DEF IInv
<1>2. /\ pc[c] = "scan" /\ id[c] \in Ids /\ req[c] \in Request(required) /\ dropped[c] = {}
      /\ required \in BOOLEAN /\ res[c] = "none"
      /\ UNCHANGED <<required, faulty, store, req, id, found, written, calls, before, apart,
                     excused>>
  BY <1>1 DEF Scanned, Shape, Reads, TypeOK, site, ghost
<1>3. Stored' = Stored
  BY <1>2 DEF Stored, Exists
<1>4. CASE /\ req[c].op = "update" /\ ~written[c]
           /\ Go(c, {"scan"}, "check")
           /\ todo' = [todo EXCEPT ![c] = Added(c)]
           /\ dropped' = [dropped EXCEPT ![c] = Dropped(c)]
           /\ UNCHANGED <<res, sent>>
  <2>1. /\ Added(c) \in SUBSET Ids /\ req[c].children \ Added(c) \subseteq found[c]
        /\ Dropped(c) \in SUBSET Ids /\ Dropped(c) \subseteq found[c]
    <3>1. req[c].children \in SUBSET Ids /\ found[c] \in SUBSET Ids
      BY <1>1, <1>2, RequestFields DEF TypeOK
    <3>2. QED
      BY <3>1 DEF Added, Dropped
  <2>2. /\ pc'[c] = "check" /\ todo'[c] = Added(c) /\ dropped'[c] = Dropped(c)
        /\ \A d \in Clients \ {c} : pc'[d] = pc[d] /\ todo'[d] = todo[d] /\ dropped'[d] = dropped[d]
    BY <1>1, <1>4 DEF TypeOK, Go
  <2>3. TypeOK'
    BY <1>1, <1>2, <1>4, <2>1 DEF TypeOK, Go, Steps
  <2>4. Shape(c)'
    BY <1>1, <1>2, <1>4, <2>2 DEF Shape, Reads
  <2>5. Backed(c)'
    BY <1>1, <1>2, <1>3, <2>1, <2>2 DEF Backed
  <2>6. ASSUME NEW d \in Clients \ {c} PROVE Undisturbed(d)
    BY <1>2, <1>3, <1>4, <2>2 DEF Undisturbed
  <2>7. QED
    BY <2>3, <2>4, <2>5, <2>6 DEF Kept
<1>5. CASE Emit(c, {"scan"}) /\ UNCHANGED <<todo, dropped>>
  <2>1. /\ pc' = [pc EXCEPT ![c] = "done"] /\ res' = [res EXCEPT ![c] = "ok"]
        /\ sent' = [sent EXCEPT ![c] = req[c].op # "get"]
    BY <1>5 DEF Emit, Go
  <2>2. /\ pc'[c] = "done" /\ res'[c] = "ok" /\ sent'[c] = (req[c].op # "get")
        /\ \A d \in Clients \ {c} : pc'[d] = pc[d] /\ res'[d] = res[d] /\ sent'[d] = sent[d]
    BY <1>1, <2>1 DEF TypeOK
  <2>3. TypeOK'
    <3>1. sent' \in [Clients -> BOOLEAN]
      BY <1>1, <2>1 DEF TypeOK
    <3>2. QED
      BY <1>1, <1>2, <1>5, <2>1, <3>1 DEF TypeOK, Steps
  <2>4. Shape(c)'
    BY <1>1, <1>2, <1>5, <2>2 DEF Shape, Reads, Refusals
  <2>5. Backed(c)'
    BY <1>1, <1>2, <2>2 DEF Shape, Backed
  <2>6. ASSUME NEW d \in Clients \ {c} PROVE Undisturbed(d)
    BY <1>2, <1>3, <1>5, <2>2 DEF Undisturbed
  <2>7. QED
    BY <2>3, <2>4, <2>5, <2>6 DEF Kept
<1>6. QED
  BY <1>4, <1>5 DEF Scanned

-----------------------------------------------------------------------------
(* Ends of a call.                                                         *)

LEMMA VaultFailsKeeps == ASSUME IInv, NEW c \in Clients, VaultFails(c) PROVE Kept(c)
<1>1. TypeOK /\ Shape(c)
  BY DEF IInv
<1>2. /\ pc[c] \notin {"idle", "done"} /\ pc' = [pc EXCEPT ![c] = "done"]
      /\ res' = [res EXCEPT ![c] = "failed"]
      /\ todo' = [todo EXCEPT ![c] = {}] /\ dropped' = [dropped EXCEPT ![c] = {}]
      /\ excused' = [excused EXCEPT ![c] = TRUE]
      /\ UNCHANGED <<required, faulty, store, req, id, found, written, sent, calls, before, apart>>
  BY DEF VaultFails, Go, site
<1>3. /\ pc'[c] = "done" /\ res'[c] = "failed" /\ todo'[c] = {} /\ dropped'[c] = {}
      /\ excused'[c] = TRUE
      /\ \A d \in Clients \ {c} : /\ pc'[d] = pc[d] /\ res'[d] = res[d] /\ todo'[d] = todo[d]
                                  /\ dropped'[d] = dropped[d] /\ excused'[d] = excused[d]
  BY <1>1, <1>2 DEF TypeOK
<1>4. TypeOK'
  BY <1>1, <1>2 DEF TypeOK, Steps
<1>5. Shape(c)'
  BY <1>1, <1>2, <1>3 DEF Shape, Reads, Refusals
<1>6. Backed(c)'
  BY <1>3 DEF Backed
<1>7. ASSUME NEW d \in Clients \ {c} PROVE Undisturbed(d)
  BY <1>2, <1>3 DEF Undisturbed, Stored, Exists
<1>8. QED
  BY <1>4, <1>5, <1>6, <1>7 DEF Kept

LEMMA ReturnKeeps == ASSUME IInv, NEW c \in Clients, Return(c) PROVE Kept(c)
<1>1. TypeOK /\ Shape(c)
  BY DEF IInv
<1>2. /\ pc[c] = "done" /\ pc' = [pc EXCEPT ![c] = "idle"]
      /\ req' = [req EXCEPT ![c] = NoRequest] /\ id' = [id EXCEPT ![c] = Derived]
      /\ found' = [found EXCEPT ![c] = {}] /\ written' = [written EXCEPT ![c] = FALSE]
      /\ sent' = [sent EXCEPT ![c] = FALSE] /\ res' = [res EXCEPT ![c] = "none"]
      /\ before' = [before EXCEPT ![c] = Empty] /\ apart' = [apart EXCEPT ![c] = TRUE]
      /\ excused' = [excused EXCEPT ![c] = FALSE]
      /\ UNCHANGED <<required, faulty, store, todo, dropped, calls>>
  BY DEF Return, Go, site
<1>3. /\ pc'[c] = "idle" /\ req'[c] = NoRequest /\ found'[c] = {} /\ written'[c] = FALSE
      /\ res'[c] = "none"
      /\ \A d \in Clients \ {c} :
           /\ pc'[d] = pc[d] /\ req'[d] = req[d] /\ id'[d] = id[d] /\ found'[d] = found[d]
           /\ written'[d] = written[d] /\ sent'[d] = sent[d] /\ res'[d] = res[d]
           /\ excused'[d] = excused[d]
  BY <1>1, <1>2 DEF TypeOK
<1>4. Empty \in Store(required)
  BY DEF Empty, Store
<1>5. TypeOK'
  BY <1>1, <1>2, <1>4 DEF TypeOK, Steps
<1>6. Shape(c)'
  BY <1>1, <1>2, <1>3 DEF Shape, Reads, Refusals
<1>7. Backed(c)'
  BY <1>3 DEF Backed
<1>8. ASSUME NEW d \in Clients \ {c} PROVE Undisturbed(d)
  BY <1>2, <1>3 DEF Undisturbed, Stored, Exists
<1>9. QED
  BY <1>5, <1>6, <1>7, <1>8 DEF Kept

LEMMA ItemsNext == IInv /\ [Next]_vars => IInv'
<1> SUFFICES ASSUME IInv, [Next]_vars PROVE IInv'
  OBVIOUS
<1>1. CASE UNCHANGED vars \/ Quiesce
  <2>1. UNCHANGED vars
    BY <1>1 DEF Quiesce
  <2>2. TypeOK'
    BY <2>1 DEF IInv, TypeOK, vars, site, mine, ghost
  <2>3. ASSUME NEW d \in Clients PROVE Undisturbed(d) /\ excused[d] \in BOOLEAN
    BY <2>1 DEF IInv, TypeOK, Undisturbed, vars, site, mine, ghost, Stored, Exists
  <2>4. QED
    BY <2>2, <2>3, Frame DEF IInv
<1>2. ASSUME NEW c \in Clients, Kept(c) PROVE IInv'
  <2>1. ASSUME NEW d \in Clients \ {c} PROVE Shape(d)' /\ Backed(d)'
    <3>1. excused[d] \in BOOLEAN
      BY DEF IInv, TypeOK
    <3>2. QED
      BY <1>2, <3>1, Frame DEF IInv, Kept
  <2>2. QED
    BY <1>2, <2>1 DEF IInv, Kept
<1>3. ASSUME NEW c \in Clients, Call(c) \/ Step(c) PROVE Kept(c)
  BY <1>3, CallKeeps, RefusingChecks, CheckListedKeeps, WriteNewKeeps, WriteUpdateKeeps, LinkKeeps,
     RemoveKeeps, LoadKeeps, ListKeeps, ScanKeeps, ScannedKeeps, VaultFailsKeeps, ReturnKeeps
  DEF Step
<1>4. QED
  BY <1>1, <1>2, <1>3 DEF Next

-----------------------------------------------------------------------------
(* The theorems.                                                           *)

LEMMA ItemsInvariant == Spec => []IInv
  BY ItemsInit, ItemsNext, PTL DEF Spec

(* Every variable of the markdown items has its type: no step leaves a     *)
(* record under a key that the entity's foreign key cannot hold.           *)
THEOREM TypeCorrect == Spec => []TypeOK
<1>1. IInv => TypeOK
  BY DEF IInv
<1>2. QED
  BY <1>1, ItemsInvariant, PTL

(* A write refused by one of its checks has written nothing, whatever the  *)
(* other callers do between its steps.                                     *)
THEOREM RefusalsAreClean == Spec => []RefusedWritesNothing
<1>1. IInv => RefusedWritesNothing
  BY DEF IInv, Shape, RefusedWritesNothing
<1>2. QED
  BY <1>1, ItemsInvariant, PTL

(* A call that has written its record ends well and sends its change event *)
(* unless the vault failed it or a record was deleted meanwhile.           *)
THEOREM WritesAreAnnounced == Spec => []AnnouncedUnlessFault
<1>1. IInv => AnnouncedUnlessFault
  BY DEF IInv, Backed, AnnouncedUnlessFault
<1>2. QED
  BY <1>1, ItemsInvariant, PTL

-----------------------------------------------------------------------------
(* Calls that share no record with another.                                *)

(* Neither of two calls can reach a record of the other.                   *)
Apart(c, d) == Reach(c) \cap Reach(d) = {}

Separate ==
  \A c, d \in Clients :
    c # d /\ pc[c] # "idle" /\ pc[d] # "idle" /\ apart[c] => Apart(c, d)

IdShape(c) ==
  /\ pc[c] = "idle" => found[c] = {}
  /\ pc[c] # "idle" /\ req[c].id # Derived => id[c] = req[c].id
  /\ pc[c] = "check" => todo[c] \subseteq req[c].children
  /\ pc[c] = "check" /\ req[c].op = "create" => id[c] = req[c].id
  /\ dropped[c] \subseteq found[c]

(* What the call has to do with the store it found.                        *)
Target(c) == IF req[c].id = Derived THEN FirstFree(before[c]) ELSE req[c].id

After(c) == Applied(before[c], req[c], Target(c))

Result(c) == IF written[c] THEN After(c) ELSE before[c]

Expected(c) == Outcome(before[c], req[c], required)

Mine(c) == Touched(before[c], req[c])

(* The children it has not linked or unlinked yet.                         *)
Unlinked(c) == IF pc[c] = "link" THEN todo[c] \cup dropped[c] ELSE {}

(* Its records are as it found or as it wrote them, unless a fault stopped *)
(* it part-way, and no other call has given its record a child.            *)
OnItsRecords(c) ==
  pc[c] # "done" \/ res[c] = "ok" \/ ~excused[c] =>
    \A x \in Mine(c) : store[x] = IF x \in Unlinked(c) THEN before[c][x] ELSE Result(c)[x]

NoNewKids(c) == \A x \in Ids : store[x] = req[c].id => x \in Mine(c)

(* What it has read, step by step, is the store it found.                  *)
KnownChildren(c) ==
  /\ pc[c] \in {"list", "scan", "check", "link"} /\ req[c].op # "create" =>
       before[c][req[c].id] # Absent
  /\ pc[c] \in {"check", "link"} /\ req[c].op = "update" =>
       /\ found[c] = ChildrenOf(before[c], req[c].id)
       /\ pc[c] = "check" => dropped[c] = Dropped(c)
       /\ dropped[c] \subseteq Dropped(c)
  /\ pc[c] = "link" /\ req[c].op = "create" => dropped[c] = {}
  /\ pc[c] = "check" => \A x \in req[c].children \ todo[c] : before[c][x] # Absent
  /\ pc[c] = "scan" =>
       /\ found[c] \subseteq ChildrenOf(Result(c), Target(c))
       /\ ChildrenOf(Result(c), Target(c)) \subseteq found[c] \cup todo[c]

KnownOk(c) ==
  /\ pc[c] = "link" => /\ ~SelfListed(req[c]) /\ written[c]
                       /\ \A x \in req[c].children : before[c][x] # Absent
                       /\ id[c] \notin todo[c] \cup dropped[c]
                       /\ After(c)[id[c]] # Absent
  /\ pc[c] \in {"link", "load", "list", "scan"} => id[c] = Target(c)
  /\ pc[c] \in {"load", "list", "scan"} =>
       req[c].op \in {"get", "update"} \/ (req[c].op = "create" /\ written[c])
  /\ pc[c] \in {"link", "list", "scan"} /\ written[c] => Expected(c) = "ok"

KnownEnd(c) ==
  pc[c] = "done" =>
    /\ ~excused[c] => res[c] = Expected(c)
    /\ res[c] = "ok" => written[c] \/ req[c].op = "get"
    /\ res[c] = "ok" /\ req[c].op # "delete" => found[c] = ChildrenOf(Result(c), Target(c))

Known(c) == KnownChildren(c) /\ KnownOk(c) /\ KnownEnd(c)

Alone(c) == pc[c] # "idle" /\ apart[c] => OnItsRecords(c) /\ NoNewKids(c) /\ Known(c)

ApartInv == Separate /\ \A c \in Clients : IdShape(c) /\ Alone(c)

LEMMA RequestFacts ==
  ASSUME TypeOK, NEW r \in Request(required)
  PROVE  /\ r.op \in {"create", "update", "get", "delete"}
         /\ r.id \in Ids \cup {Derived} /\ r.parent \in Record(required) \cup {Keep}
         /\ r.children \in SUBSET Ids
         /\ r.op = "create" => r.parent \in Record(required)
         /\ r.op # "create" => r.id \in Ids
         /\ r.op \in {"get", "delete"} => r.children = {} /\ r.parent = Keep
  BY DEF Request, CreateRequest, UpdateRequest, OtherRequest

LEMMA NumberFacts ==
  /\ Absent \notin Ids /\ Derived \notin Ids /\ NoParent \notin Ids
  /\ NoParent # Absent /\ Keep # Absent
  BY TreeAssumption DEF Ids, Absent, Keep, Derived, NoParent

(* The records of a call.                                                  *)
LEMMA TouchedFacts ==
  ASSUME TypeOK, NEW s, NEW r \in Request(required)
  PROVE  /\ Touched(s, r) \subseteq Ids /\ Touched(s, r) # {}
         /\ r.id = Derived => Touched(s, r) = Ids
         /\ {r.id, r.parent} \cap Ids \subseteq Touched(s, r)
         /\ r.children \subseteq Touched(s, r)
         /\ \A x \in Ids : s[x] = r.id => x \in Touched(s, r)
<1>1. r.children \in SUBSET Ids /\ r.id \in Ids \cup {Derived}
  BY RequestFacts
<1>2. Ids # {}
  BY TreeAssumption DEF Ids
<1>3. QED
  BY <1>1, <1>2 DEF Touched

LEMMA ReachFacts ==
  ASSUME TypeOK, NEW c \in Clients, Shape(c), pc[c] # "idle"
  PROVE  /\ req[c] \in Request(required)
         /\ Reach(c) \subseteq Ids /\ Reach(c) # {}
         /\ req[c].id = Derived => Reach(c) = Ids
         /\ {req[c].id, req[c].parent} \cap Ids \subseteq Reach(c)
         /\ req[c].children \cup found[c] \cup Mine(c) \subseteq Reach(c)
         /\ \A x \in Ids : store[x] = req[c].id => x \in Reach(c)
<1>1. req[c] \in Request(required) /\ found[c] \in SUBSET Ids
  BY DEF TypeOK, Shape
<1>2. QED
  BY <1>1, TouchedFacts DEF Reach, Mine

(* A call that derives its id is apart from no other.                      *)
LEMMA ApartIds ==
  ASSUME TypeOK, NEW c \in Clients, NEW d \in Clients, Shape(c), Shape(d),
         pc[c] # "idle", pc[d] # "idle", Apart(c, d)
  PROVE  req[c].id \in Ids /\ req[d].id \in Ids
<1>1. /\ Reach(c) \cap Reach(d) = {} /\ Reach(c) \subseteq Ids /\ Reach(d) \subseteq Ids
      /\ Reach(c) # {} /\ Reach(d) # {}
      /\ req[c].id = Derived => Reach(c) = Ids
      /\ req[d].id = Derived => Reach(d) = Ids
  BY ReachFacts DEF Apart
<1>2. req[c].id # Derived /\ req[d].id # Derived
  BY <1>1
<1>3. QED
  BY <1>2, ReachFacts, RequestFacts

-----------------------------------------------------------------------------
(* What a step of one call leaves to the others, and of its own call.      *)

Others(e) ==
  /\ required' = required
  /\ \A d \in Clients \ {e} :
       /\ pc'[d] = pc[d] /\ req'[d] = req[d] /\ id'[d] = id[d]
       /\ todo'[d] = todo[d] /\ dropped'[d] = dropped[d] /\ found'[d] = found[d]
       /\ written'[d] = written[d] /\ res'[d] = res[d] /\ before'[d] = before[d]
       /\ apart'[d] => apart[d]
       /\ excused[d] => excused'[d]

Steady(e) ==
  /\ required' = required
  /\ pc[e] # "idle" /\ pc'[e] # "idle"
  /\ req'[e] = req[e] /\ before'[e] = before[e] /\ apart'[e] = apart[e]
  /\ excused[e] => excused'[e]
  /\ \A x \in found'[e] : x \in found[e] \/ (x \in Ids /\ store[x] = id[e])
  /\ req[e].id # Derived \/ req[e].op # "create" => id'[e] = id[e]


LEMMA Domains ==
  ASSUME TypeOK
  PROVE  /\ pc \in [Clients -> Steps] /\ DOMAIN req = Clients /\ DOMAIN id = Clients
         /\ DOMAIN todo = Clients /\ DOMAIN dropped = Clients /\ DOMAIN found = Clients
         /\ DOMAIN written = Clients /\ DOMAIN res = Clients /\ DOMAIN before = Clients
         /\ DOMAIN excused = Clients
  BY DEF TypeOK

LEMMA RefuseFrame ==
  ASSUME TypeOK, NEW e \in Clients, NEW from, pc[e] # "idle", NEW status, Refuse(e, from, status)
  PROVE  Others(e) /\ Steady(e) /\ store' = store
  BY Domains DEF Refuse, Go, site, Others, Steady

LEMMA WriteFrame ==
  ASSUME TypeOK, NEW e \in Clients, NEW i, NEW fk, Write(e, i, fk),
         i = id[e] \/ (req[e].id = Derived /\ req[e].op = "create")
  PROVE  Others(e) /\ Steady(e) /\ store' = [store EXCEPT ![i] = fk]
  BY Domains DEF Write, Go, site, ghost, Others, Steady

LEMMA SetParentFrame ==
  ASSUME TypeOK, NEW e \in Clients, NEW x, NEW fk, pc[e] = "link", SetParent(e, x, fk)
  PROVE  Others(e) /\ Steady(e) /\ (store' # store => store' = [store EXCEPT ![x] = fk])
<1>1. CASE Refuse(e, {"link"}, "failed")
  BY <1>1, RefuseFrame
<1>2. CASE ~Refuse(e, {"link"}, "failed")
  BY <1>2, Domains DEF SetParent, site, ghost, Others, Steady
<1>3. QED
  BY <1>1, <1>2

LEMMA WriteNewFrame ==
  ASSUME TypeOK, NEW e \in Clients, Shape(e), IdShape(e), WriteNew(e)
  PROVE  /\ Others(e) /\ Steady(e)
         /\ store' # store /\ req[e].id # Derived =>
              id[e] = req[e].id /\ store' = [store EXCEPT ![id[e]] = req[e].parent]
<1>1. /\ pc[e] = "check" /\ req[e].op = "create" /\ id[e] = req[e].id
  BY DEF WriteNew, Checked, IdShape
<1>2. CASE id[e] # Derived /\ Write(e, id[e], req[e].parent)
  BY <1>1, <1>2, WriteFrame
<1>3. CASE Refuse(e, {"check"}, "already_exists")
  BY <1>1, <1>3, RefuseFrame
<1>4. CASE id[e] = Derived /\ Write(e, FirstFree(store), req[e].parent)
  BY <1>1, <1>4, WriteFrame
<1>5. QED
  BY <1>2, <1>3, <1>4 DEF WriteNew

LEMMA WriteUpdateFrame ==
  ASSUME TypeOK, NEW e \in Clients, Shape(e), WriteUpdate(e)
  PROVE  /\ Others(e) /\ Steady(e)
         /\ store' # store => /\ req[e].op = "update" /\ pc[e] = "check"
                              /\ store' = [store EXCEPT ![id[e]] =
                                   IF req[e].parent = Keep THEN store[id[e]] ELSE req[e].parent]
<1>1. pc[e] = "check" /\ req[e].op = "update"
  BY DEF WriteUpdate, Checked
<1>2. CASE Refuse(e, {"check"}, "failed")
  BY <1>1, <1>2, RefuseFrame
<1>3. CASE Write(e, id[e], IF req[e].parent = Keep THEN store[id[e]] ELSE req[e].parent)
  BY <1>1, <1>3, WriteFrame
<1>4. QED
  BY <1>2, <1>3 DEF WriteUpdate

LEMMA ReturnFrame ==
  ASSUME TypeOK, NEW e \in Clients, Return(e)
  PROVE  Others(e) /\ store' = store /\ pc'[e] = "idle" /\ found'[e] = {} /\ dropped'[e] = dropped[e]
  BY Domains DEF Return, Go, site, Others

LEMMA StepFrame ==
  ASSUME TypeOK, NEW e \in Clients, Shape(e), IdShape(e), Step(e), ~Return(e)
  PROVE  /\ Others(e) /\ Steady(e)
         /\ store' # store =>
              WriteNew(e) \/ WriteUpdate(e) \/ Link(e) \/ Unlink(e) \/ Remove(e)
<1>1. CASE CheckSelf(e) \/ CheckDropped(e)
  <2>1. pc[e] = "check"
    BY <1>1 DEF CheckSelf, CheckDropped, Refuse, Go
  <2>2. QED
    BY <1>1, <2>1, RefuseFrame DEF CheckSelf, CheckDropped
<1>2. CASE CheckListed(e)
  <2>1. CASE Refuse(e, {"check"}, "child_not_found")
    <3>1. pc[e] = "check"
      BY <2>1 DEF Refuse, Go
    <3>2. QED
      BY <2>1, <3>1, RefuseFrame
  <2>2. CASE ~Refuse(e, {"check"}, "child_not_found")
    BY <1>2, <2>2, Domains DEF CheckListed, site, ghost, Others, Steady
  <2>3. QED
    BY <2>1, <2>2
<1>3. CASE WriteNew(e)
  BY <1>3, WriteNewFrame
<1>4. CASE WriteUpdate(e)
  BY <1>4, WriteUpdateFrame
<1>5. CASE Link(e) \/ Unlink(e)
  <2>1. pc[e] = "link"
    BY <1>5 DEF Link, Unlink, SetParent, Refuse, Go
  <2>2. QED
    BY <1>5, <2>1, SetParentFrame DEF Link, Unlink
<1>6. CASE Remove(e)
  <2>1. CASE Refuse(e, {"remove"}, "not_found")
    BY <1>6, <2>1, RefuseFrame DEF Remove
  <2>2. CASE ~Refuse(e, {"remove"}, "not_found")
    <3>1. \A d \in Clients : excused[d] => excused'[d]
      BY <1>6, <2>2 DEF Remove
    <3>2. QED
      BY <1>6, <2>2, <3>1, Domains DEF Remove, Emit, Go, site, Others, Steady
  <2>3. QED
    BY <2>1, <2>2
<1>7. CASE Load(e)
  <2>1. CASE Refuse(e, {pc[e]}, "not_found")
    BY <1>7, <2>1, RefuseFrame DEF Load
  <2>2. CASE ~Refuse(e, {pc[e]}, "not_found")
    BY <1>7, <2>2, Domains DEF Load, Go, site, ghost, Others, Steady
  <2>3. QED
    BY <2>1, <2>2
<1>8. CASE List(e)
  BY <1>8, Domains DEF List, Go, site, ghost, Others, Steady
<1>9. CASE Scan(e)
  <2>1. CASE Refuse(e, {"scan"}, "failed")
    BY <1>9, <2>1, RefuseFrame DEF Scan
  <2>2. CASE ~Refuse(e, {"scan"}, "failed")
    <3>1. PICK x \in todo[e] :
            /\ pc[e] = "scan"
            /\ todo' = [todo EXCEPT ![e] = @ \ {x}]
            /\ found' = [found EXCEPT ![e] =
                           IF x # id[e] /\ store[x] = id[e] THEN @ \cup {x} ELSE @]
            /\ UNCHANGED <<site, store, pc, req, id, dropped, written, sent, res, calls, ghost>>
      BY <1>9, <2>2 DEF Scan
    <3>2. x \in Ids
      BY DEF TypeOK
    <3>3. Others(e) /\ store' = store
      BY <3>1, Domains DEF site, ghost, Others
    <3>4. Steady(e)
      BY <3>1, <3>2, Domains DEF site, ghost, Steady
    <3>5. QED
      BY <3>3, <3>4
  <2>3. QED
    BY <2>1, <2>2
<1>10. CASE Scanned(e)
  BY <1>10, Domains DEF Scanned, Emit, Go, site, ghost, Others, Steady
<1>11. CASE VaultFails(e)
  BY <1>11, Domains DEF VaultFails, Go, site, Others, Steady
<1>12. QED
  BY <1>1, <1>2, <1>3, <1>4, <1>5, <1>6, <1>7, <1>8, <1>9, <1>10, <1>11 DEF Step

(* A new call, and the calls it crosses.                                   *)
LEMMA CallFrame ==
  ASSUME TypeOK, NEW e \in Clients, Call(e)
  PROVE  /\ Others(e) /\ store' = store /\ pc[e] = "idle"
         /\ found'[e] = found[e] /\ dropped'[e] = dropped[e] /\ written'[e] = written[e]
         /\ before'[e] = store
         /\ \E r \in Requests[required] :
              /\ req'[e] = r /\ id'[e] = r.id
              /\ pc'[e] = IF r.op = "create" THEN "check"
                          ELSE IF r.op = "delete" THEN "remove" ELSE "load"
              /\ todo'[e] = IF r.op = "create" THEN r.children ELSE {}
              /\ apart'[e] <=> Crossed(e, r) = {}
              /\ \A d \in Clients \ {e} : apart'[d] => d \notin Crossed(e, r)
<1>1. PICK r \in Requests[required] :
        /\ Go(e, {"idle"}, CASE r.op = "create" -> "check"
                             [] r.op = "delete" -> "remove"
                             [] OTHER           -> "load")
        /\ req' = [req EXCEPT ![e] = r]
        /\ id' = [id EXCEPT ![e] = r.id]
        /\ todo' = [todo EXCEPT ![e] = IF r.op = "create" THEN r.children ELSE {}]
        /\ apart' = [d \in Clients |-> IF d = e THEN Crossed(e, r) = {}
                                       ELSE apart[d] /\ d \notin Crossed(e, r)]
  BY DEF Call
<1>2. /\ apart'[e] <=> Crossed(e, r) = {}
      /\ \A d \in Clients \ {e} : apart'[d] => apart[d] /\ d \notin Crossed(e, r)
  BY <1>1, Zenon
<1>3. Others(e)
  BY <1>1, <1>2, Domains DEF Call, Go, site, Others
<1>4. /\ req'[e] = r /\ id'[e] = r.id
      /\ pc'[e] = IF r.op = "create" THEN "check"
                  ELSE IF r.op = "delete" THEN "remove" ELSE "load"
      /\ todo'[e] = IF r.op = "create" THEN r.children ELSE {}
      /\ store' = store /\ pc[e] = "idle"
      /\ found'[e] = found[e] /\ dropped'[e] = dropped[e] /\ written'[e] = written[e]
      /\ before'[e] = store
  BY <1>1, Domains DEF Call, Go, site
<1>5. QED
  BY <1>2, <1>3, <1>4

(* The records a step changes are among those the call reaches, and name   *)
(* only what it reaches or no record.                                      *)
LEMMA Writes ==
  ASSUME IInv, NEW e \in Clients, IdShape(e), req[e].id \in Ids, Step(e),
         NEW y \in Ids, store'[y] # store[y]
  PROVE  /\ pc[e] # "idle" /\ y \in Reach(e)
         /\ store'[y] \in Reach(e) \cup {NoParent, Absent}
<1>1. TypeOK /\ Shape(e) /\ store \in [Ids -> Record(required) \cup {Absent}]
  BY DEF IInv, TypeOK, Store
<1>2. ~Return(e)
  BY <1>1, ReturnFrame
<1>3. pc[e] # "idle"
  BY <1>1, <1>2, StepFrame DEF Steady
<1>4. /\ id[e] = req[e].id /\ id[e] \in Reach(e) /\ req[e] \in Request(required)
      /\ req[e].children \cup found[e] \subseteq Reach(e)
      /\ req[e].parent \in Ids => req[e].parent \in Reach(e)
      /\ req[e].id # Derived
  BY <1>1, <1>3, ReachFacts, NumberFacts DEF IdShape
<1>5. req[e].parent \in Record(required) => req[e].parent \in Reach(e) \cup {NoParent, Absent}
  BY <1>4 DEF Record
<1>6. CASE WriteNew(e)
  <2>1. store' = [store EXCEPT ![id[e]] = req[e].parent] /\ req[e].op = "create"
    BY <1>1, <1>4, <1>6, WriteNewFrame DEF WriteNew
  <2>2. QED
    BY <1>1, <1>3, <1>4, <1>5, <2>1, RequestFacts
<1>7. CASE WriteUpdate(e)
  <2>1. store' = [store EXCEPT ![id[e]] =
                    IF req[e].parent = Keep THEN store[id[e]] ELSE req[e].parent]
    BY <1>1, <1>7, WriteUpdateFrame
  <2>2. y = id[e] /\ req[e].parent # Keep /\ store'[y] = req[e].parent
    BY <1>1, <2>1
  <2>3. QED
    BY <1>1, <1>3, <1>4, <1>5, <2>2, RequestFacts
<1>8. CASE Link(e) \/ Unlink(e)
  <2>1. pc[e] = "link" /\ todo[e] \subseteq req[e].children /\ dropped[e] \subseteq found[e]
    BY <1>1, <1>8 DEF Link, Unlink, SetParent, Refuse, Go, Shape, IdShape
  <2>2. \E x \in todo[e] \cup dropped[e] : \E fk \in {id[e], NoParent} :
          store' = [store EXCEPT ![x] = fk]
    BY <1>1, <1>8, <2>1, SetParentFrame DEF Link, Unlink
  <2>3. QED
    BY <1>1, <1>4, <2>1, <2>2
<1>9. CASE Remove(e)
  <2>1. store' = [store EXCEPT ![id[e]] = Absent]
    BY <1>9 DEF Remove, Refuse
  <2>2. QED
    BY <1>1, <1>3, <1>4, <2>1
<1>10. QED
  BY <1>1, <1>2, <1>3, <1>6, <1>7, <1>8, <1>9, StepFrame

(* A step of a call leaves what a call apart from it can reach.            *)
LEMMA Untouched ==
  ASSUME IInv, NEW e \in Clients, IdShape(e), Step(e), NEW c \in Clients \ {e},
         pc[c] # "idle", pc[e] # "idle", Apart(c, e), NEW y \in Ids, store'[y] # store[y]
  PROVE  y \in Reach(e) /\ y \notin Reach(c) /\ store'[y] # req[c].id
<1>1. TypeOK /\ Shape(c) /\ Shape(e)
  BY DEF IInv
<1>2. req[c].id \in Ids /\ req[e].id \in Ids
  BY <1>1, ApartIds
<1>3. y \in Reach(e) /\ store'[y] \in Reach(e) \cup {NoParent, Absent}
  BY <1>2, Writes
<1>4. req[c].id \in Reach(c)
  BY <1>1, <1>2, ReachFacts
<1>5. QED
  BY <1>2, <1>3, <1>4, NumberFacts DEF Apart

(* What a call reaches grows by the rows that another call makes its       *)
(* children only.                                                          *)
LEMMA ReachStep ==
  ASSUME NEW e \in Clients, Others(e), NEW d \in Clients \ {e}, pc[d] # "idle",
         NEW z \in Reach(d)', z \notin Reach(d)
  PROVE  z \in Ids /\ store'[z] # store[z] /\ store'[z] = req[d].id
<1>1. /\ Reach(d)' = Touched(store', req[d]) \cup Touched(before[d], req[d]) \cup found[d]
      /\ Reach(d) = Touched(store, req[d]) \cup Touched(before[d], req[d]) \cup found[d]
  BY DEF Reach, Others
<1>2. QED
  BY <1>1 DEF Touched

LEMMA OwnReach ==
  ASSUME IInv, NEW e \in Clients, IdShape(e), Step(e), ~Return(e), pc[e] # "idle",
         req[e].id \in Ids
  PROVE  Reach(e)' \subseteq Reach(e)
<1> TypeOK /\ Shape(e)
  BY DEF IInv
<1>1. /\ req'[e] = req[e] /\ before'[e] = before[e]
      /\ \A x \in found'[e] : x \in found[e] \/ (x \in Ids /\ store[x] = id[e])
      /\ id[e] = req[e].id
  BY StepFrame, NumberFacts DEF Steady, IdShape
<1>2. Reach(e)' = Touched(store', req[e]) \cup Touched(before[e], req[e]) \cup found'[e]
  BY <1>1 DEF Reach
<1>3. found'[e] \subseteq Reach(e)
  BY <1>1, ReachFacts
<1>4. ASSUME NEW z \in Ids, store'[z] = req[e].id PROVE z \in Reach(e)
  <2>1. CASE store'[z] = store[z]
    BY <1>4, <2>1, ReachFacts
  <2>2. CASE store'[z] # store[z]
    BY <2>2, Writes
  <2>3. QED
    BY <2>1, <2>2
<1>5. Touched(store', req[e]) \subseteq Reach(e)
  <2>1. req[e].id # Derived
    BY NumberFacts
  <2>2. QED
    BY <1>4, <2>1, ReachFacts DEF Touched
<1>6. QED
  BY <1>2, <1>3, <1>5 DEF Reach

(* The step keeps its own call apart from another.                         *)
LEMMA ApartStep ==
  ASSUME IInv, NEW e \in Clients, IdShape(e), Step(e), ~Return(e),
         NEW d \in Clients \ {e}, pc[d] # "idle", Apart(d, e)
  PROVE  Apart(d, e)'
<1> TypeOK /\ Shape(e) /\ Shape(d)
  BY DEF IInv
<1>1. Others(e) /\ pc[e] # "idle"
  BY StepFrame DEF Steady
<1>2. req[e].id \in Ids
  BY <1>1, ApartIds
<1>3. Reach(e)' \subseteq Reach(e)
  BY <1>1, <1>2, OwnReach
<1>4. ASSUME NEW z \in Reach(d)' PROVE z \notin Reach(e)
  <2>1. CASE z \in Reach(d)
    BY <2>1 DEF Apart
  <2>2. CASE z \notin Reach(d)
    <3>1. z \in Ids /\ store'[z] # store[z] /\ store'[z] = req[d].id
      BY <1>1, <2>2, ReachStep
    <3>2. QED
      BY <1>1, <3>1, Untouched
  <2>3. QED
    BY <2>1, <2>2
<1>5. QED
  BY <1>3, <1>4 DEF Apart

LEMMA StepSeparate ==
  ASSUME IInv, ApartInv, NEW e \in Clients, Step(e) PROVE Separate'
<1> SUFFICES ASSUME NEW c \in Clients, NEW d \in Clients, c # d,
                    pc'[c] # "idle", pc'[d] # "idle", apart'[c]
             PROVE  Apart(c, d)'
  BY DEF Separate
<1>1. /\ Others(e) /\ pc[e] # "idle" /\ IdShape(e)
      /\ Return(e) => pc'[e] = "idle"
      /\ ~Return(e) => Steady(e)
  <2>1. Return(e) => pc[e] # "idle"
    BY DEF Return, Go
  <2>2. TypeOK /\ Shape(e) /\ IdShape(e)
    BY DEF IInv, ApartInv
  <2>3. QED
    BY <2>1, <2>2, StepFrame, ReturnFrame DEF Steady
<1>2. pc[c] # "idle" /\ pc[d] # "idle" /\ apart[c]
  BY <1>1 DEF Others, Steady
<1>3. Apart(c, d) /\ (c # e => Apart(c, e))
  BY <1>1, <1>2 DEF ApartInv, Separate
<1>4. CASE c # e /\ d # e
  <2>1. ASSUME NEW z \in Reach(c)' PROVE z \in Reach(c)
    <3>1. z \notin Reach(c) => z \in Ids /\ store'[z] # store[z] /\ store'[z] = req[c].id
      BY <1>1, <1>2, <1>4, ReachStep
    <3>2. QED
      BY <1>1, <1>2, <1>3, <1>4, <3>1, Untouched
  <2>2. ASSUME NEW z \in Reach(d)' PROVE z \notin Reach(c)
    <3>1. CASE z \in Reach(d)
      BY <1>3, <3>1 DEF Apart
    <3>2. CASE z \notin Reach(d)
      <4>1. z \in Ids /\ store'[z] # store[z]
        BY <1>1, <1>2, <1>4, <3>2, ReachStep
      <4>2. QED
        BY <1>1, <1>2, <1>3, <1>4, <4>1, Untouched
    <3>3. QED
      BY <3>1, <3>2
  <2>3. QED
    BY <2>1, <2>2 DEF Apart
<1>5. CASE d = e
  BY <1>1, <1>2, <1>3, <1>5, ApartStep
<1>6. CASE c = e
  <2>1. Apart(d, e)
    BY <1>3, <1>6 DEF Apart
  <2>2. Apart(d, e)'
    BY <1>1, <1>2, <1>6, <2>1, ApartStep
  <2>3. QED
    BY <1>6, <2>2 DEF Apart
<1>7. QED
  BY <1>4, <1>5, <1>6

LEMMA CallSeparate ==
  ASSUME IInv, ApartInv, NEW e \in Clients, Call(e) PROVE Separate'
<1> TypeOK
  BY DEF IInv
<1>1. PICK r \in Requests[required] :
        /\ req'[e] = r
        /\ apart'[e] <=> Crossed(e, r) = {}
        /\ \A d \in Clients \ {e} : apart'[d] => d \notin Crossed(e, r)
  BY CallFrame
<1>2. Others(e) /\ store' = store /\ before'[e] = store /\ found'[e] = {}
  BY CallFrame DEF ApartInv, IdShape
<1>3. Reach(e)' = Touched(store, r)
  BY <1>1, <1>2 DEF Reach
<1>4. ASSUME NEW d \in Clients \ {e} PROVE Reach(d)' = Reach(d) /\ pc'[d] = pc[d]
  BY <1>2 DEF Others, Reach
<1>5. ASSUME NEW d \in Clients \ {e}, pc[d] # "idle", d \notin Crossed(e, r)
      PROVE  Apart(d, e)'
  BY <1>3, <1>4, <1>5 DEF Crossed, Apart
<1> SUFFICES ASSUME NEW c \in Clients, NEW d \in Clients, c # d,
                    pc'[c] # "idle", pc'[d] # "idle", apart'[c]
             PROVE  Apart(c, d)'
  BY DEF Separate
<1>6. CASE d = e
  BY <1>1, <1>4, <1>5, <1>6
<1>7. CASE c = e
  <2>1. Apart(d, e)'
    BY <1>1, <1>4, <1>5, <1>7
  <2>2. QED
    BY <1>7, <2>1 DEF Apart
<1>8. CASE c # e /\ d # e
  <2>1. pc[c] # "idle" /\ pc[d] # "idle" /\ apart[c]
    BY <1>2, <1>4, <1>8 DEF Others
  <2>2. Apart(c, d)
    BY <2>1 DEF ApartInv, Separate
  <2>3. QED
    BY <1>4, <1>8, <2>2 DEF Apart
<1>9. QED
  BY <1>6, <1>7, <1>8

LEMMA IdShapeStep ==
  ASSUME IInv, ApartInv, NEW e \in Clients, Call(e) \/ Step(e), NEW c \in Clients
  PROVE  IdShape(c)'
<1> TypeOK /\ Shape(c) /\ Shape(e) /\ IdShape(c) /\ IdShape(e)
  BY DEF IInv, ApartInv
<1>1. CASE c # e
  <2>1. Others(e)
    BY CallFrame, ReturnFrame, StepFrame
  <2>2. QED
    BY <1>1, <2>1 DEF Others, IdShape
<1>2. CASE c = e /\ Call(e)
  <2>1. /\ id'[e] = req'[e].id /\ pc'[e] # "idle"
        /\ pc'[e] = "check" => todo'[e] = req'[e].children
        /\ dropped'[e] = dropped[e] /\ pc[e] = "idle"
    BY <1>2, CallFrame
  <2>2. dropped[e] = {}
    BY <2>1 DEF Shape
  <2>3. QED
    BY <1>2, <2>1, <2>2 DEF IdShape
<1>3. CASE c = e /\ Return(e)
  <2>1. pc[e] = "done" /\ pc'[e] = "idle" /\ found'[e] = {} /\ dropped'[e] = dropped[e]
    BY <1>3, ReturnFrame DEF Return, Go
  <2>2. dropped[e] = {}
    BY <2>1 DEF Shape
  <2>3. QED
    BY <1>3, <2>1, <2>2 DEF IdShape
<1>4. CASE c = e /\ ~Return(e) /\ Step(e)
  <2>1. Steady(e)
    BY <1>4, StepFrame
  <2>2. /\ dropped'[e] \subseteq found'[e]
        /\ pc'[e] = "check" => todo'[e] \subseteq req[e].children
        /\ pc'[e] = "check" /\ req[e].op = "create" => id'[e] = req[e].id
    <3>1. CASE VaultFails(e)
      BY <3>1, Domains DEF VaultFails, Go
    <3>2. CASE CheckSelf(e) \/ CheckDropped(e)
      BY <3>2, Domains DEF CheckSelf, CheckDropped, Refuse, Go
    <3>3. CASE CheckListed(e)
      BY <3>3, Domains DEF CheckListed, Refuse, Go, IdShape
    <3>4. CASE WriteNew(e)
      BY <3>4, Domains DEF WriteNew, Write, Refuse, Go, IdShape
    <3>5. CASE WriteUpdate(e)
      BY <3>5, Domains DEF WriteUpdate, Write, Refuse, Go, IdShape
    <3>6. CASE Link(e) \/ Unlink(e)
      BY <3>6, Domains DEF Link, Unlink, SetParent, Refuse, Go, IdShape
    <3>7. CASE Remove(e)
      BY <3>7, Domains DEF Remove, Emit, Refuse, Go, IdShape
    <3>8. CASE Load(e)
      BY <3>8, Domains DEF Load, Refuse, Go, IdShape
    <3>9. CASE List(e)
      <4>1. dropped[e] = {}
        BY <3>9 DEF List, Go, Shape
      <4>2. QED
        BY <3>9, <4>1, Domains DEF List, Go, IdShape
    <3>10. CASE Scan(e)
      <4>1. dropped[e] = {}
        BY <3>10 DEF Scan, Shape
      <4>2. QED
        BY <3>10, <4>1, Domains DEF Scan, Refuse, Go, IdShape
    <3>11. CASE Scanned(e)
      BY <3>11, Domains DEF Scanned, Emit, Go, Added, Dropped, IdShape
    <3>12. QED
      BY <1>4, <3>1, <3>2, <3>3, <3>4, <3>5, <3>6, <3>7, <3>8, <3>9, <3>10, <3>11 DEF Step
  <2>3. QED
    BY <1>4, <2>1, <2>2 DEF Steady, IdShape
<1>5. QED
  BY <1>1, <1>2, <1>3, <1>4

-----------------------------------------------------------------------------
(* What a call knows of the store it found.                                *)

(* The steps of other calls leave a call that is apart alone.              *)
LEMMA OtherAlone ==
  ASSUME IInv, NEW e \in Clients, Others(e), NEW c \in Clients \ {e}, Alone(c),
         pc[c] # "idle" /\ apart[c] =>
           \A y \in Ids : store'[y] # store[y] => y \notin Reach(c) /\ store'[y] # req[c].id
  PROVE  Alone(c)'
<1> SUFFICES ASSUME pc'[c] # "idle", apart'[c]
             PROVE  (OnItsRecords(c) /\ NoNewKids(c) /\ Known(c))'
  BY DEF Alone
<1>1. /\ required' = required
      /\ pc'[c] = pc[c] /\ req'[c] = req[c] /\ id'[c] = id[c] /\ dropped'[c] = dropped[c]
      /\ todo'[c] = todo[c] /\ found'[c] = found[c] /\ written'[c] = written[c]
      /\ res'[c] = res[c] /\ before'[c] = before[c]
      /\ apart[c] /\ (excused[c] => excused'[c]) /\ pc[c] # "idle"
  BY DEF Others
<1>2. OnItsRecords(c) /\ NoNewKids(c) /\ Known(c)
  BY <1>1 DEF Alone
<1>3. /\ Mine(c)' = Mine(c) /\ Result(c)' = Result(c) /\ Target(c)' = Target(c)
      /\ Expected(c)' = Expected(c) /\ After(c)' = After(c) /\ Unlinked(c)' = Unlinked(c)
      /\ Dropped(c)' = Dropped(c)
  BY <1>1 DEF Mine, Result, Target, Expected, After, Unlinked, Dropped
<1>4. Mine(c) \subseteq Reach(c) /\ Reach(c) \subseteq Ids
  BY <1>1, ReachFacts DEF IInv
<1>5. \A y \in Ids : store'[y] # store[y] => y \notin Reach(c) /\ store'[y] # req[c].id
  BY <1>1
<1>6. OnItsRecords(c)' /\ NoNewKids(c)'
  BY <1>1, <1>2, <1>3, <1>4, <1>5 DEF OnItsRecords, NoNewKids
<1>7. KnownChildren(c)'
  BY <1>1, <1>2, <1>3 DEF Known, KnownChildren
<1>8. KnownOk(c)'
  BY <1>1, <1>2, <1>3 DEF Known, KnownOk
<1>9. KnownEnd(c)'
  BY <1>1, <1>2, <1>3 DEF Known, KnownEnd
<1>10. QED
  BY <1>6, <1>7, <1>8, <1>9 DEF Known

(* A call that is apart and has written nothing finds its records as they  *)
(* were when it began.                                                     *)
LEMMA Unwritten ==
  ASSUME TypeOK, NEW c \in Clients, Shape(c), pc[c] \notin {"idle", "done", "link"},
         OnItsRecords(c), NoNewKids(c), ~written[c]
  PROVE  /\ \A x \in Mine(c) : store[x] = before[c][x]
         /\ req[c].id \in Ids => store[req[c].id] = before[c][req[c].id]
         /\ req[c].id = Derived => store = before[c]
         /\ \A x \in req[c].children : store[x] = before[c][x]
<1>1. /\ req[c] \in Request(required)
      /\ store \in Store(required) /\ before[c] \in Store(required)
  BY DEF TypeOK, Shape
<1>2. \A x \in Mine(c) : store[x] = before[c][x]
  BY DEF OnItsRecords, Result, Unlinked
<1>3. /\ req[c].id = Derived => Mine(c) = Ids
      /\ {req[c].id, req[c].parent} \cap Ids \subseteq Mine(c)
      /\ req[c].children \subseteq Mine(c)
  BY <1>1, TouchedFacts DEF Mine
<1>4. req[c].id = Derived => store = before[c]
  BY <1>1, <1>2, <1>3 DEF Store
<1>5. QED
  BY <1>2, <1>3, <1>4

(* The children its record has are those it gave it, once it has linked    *)
(* them all.                                                               *)
LEMMA KidsAre ==
  ASSUME TypeOK, NEW c \in Clients, Shape(c), pc[c] \in {"list", "scan"},
         IdShape(c), OnItsRecords(c), NoNewKids(c), KnownOk(c)
  PROVE  ChildrenOf(store, id[c]) = ChildrenOf(Result(c), Target(c))
<1>1. req[c] \in Request(required) /\ id[c] = Target(c) /\ id[c] \in Ids
  BY DEF Shape, KnownOk, Reads
<1>2. /\ Mine(c) \subseteq Ids /\ req[c].children \subseteq Mine(c)
      /\ req[c].id = Derived => Mine(c) = Ids
      /\ \A x \in Ids : before[c][x] = req[c].id => x \in Mine(c)
  BY <1>1, TouchedFacts DEF Mine
<1>3. \A x \in Mine(c) : store[x] = Result(c)[x]
  BY DEF OnItsRecords, Unlinked
<1>4. CASE req[c].id = Derived
  BY <1>1, <1>2, <1>3, <1>4 DEF ChildrenOf
<1>5. CASE req[c].id # Derived
  <2>1. id[c] = req[c].id
    BY <1>5 DEF IdShape
  <2>2. ASSUME NEW x \in Ids, x # id[c], Result(c)[x] = id[c] PROVE x \in Mine(c)
    <3>1. CASE ~written[c]
      BY <1>2, <2>1, <2>2, <3>1 DEF Result
    <3>2. CASE written[c]
      <4>1. Result(c)[x] = IF x \in req[c].children THEN id[c]
                           ELSE IF req[c].op = "update" /\ req[c].lists /\ before[c][x] = id[c]
                                THEN NoParent ELSE before[c][x]
        BY <1>1, <2>2, <3>2 DEF Result, After, Applied
      <4>2. QED
        BY <1>2, <2>1, <2>2, <4>1
    <3>3. QED
      BY <3>1, <3>2
  <2>3. \A x \in Ids : store[x] = id[c] => x \in Mine(c)
    BY <2>1 DEF NoNewKids
  <2>4. QED
    BY <1>1, <1>3, <2>2, <2>3 DEF ChildrenOf
<1>6. QED
  BY <1>4, <1>5

(* A step that writes nothing leaves its call where it was in the store.   *)
LEMMA SameStore ==
  ASSUME NEW e \in Clients, Steady(e), store' = store, written'[e] = written[e],
         pc[e] # "done", Unlinked(e)' = Unlinked(e), OnItsRecords(e), NoNewKids(e)
  PROVE  /\ OnItsRecords(e)' /\ NoNewKids(e)'
         /\ Target(e)' = Target(e) /\ Result(e)' = Result(e) /\ Expected(e)' = Expected(e)
         /\ After(e)' = After(e)
BY DEF Steady, OnItsRecords, NoNewKids, Mine, Target, Result, Expected, After

LEMMA CallAlone ==
  ASSUME IInv, NEW e \in Clients, Call(e) PROVE Alone(e)'
<1> TypeOK /\ Shape(e)
  BY DEF IInv
<1>1. PICK r \in Requests[required] :
        /\ req'[e] = r /\ id'[e] = r.id
        /\ pc'[e] = IF r.op = "create" THEN "check"
                    ELSE IF r.op = "delete" THEN "remove" ELSE "load"
        /\ todo'[e] = IF r.op = "create" THEN r.children ELSE {}
  BY CallFrame
<1>2. /\ store' = store /\ before'[e] = store /\ required' = required
      /\ written'[e] = FALSE
  BY CallFrame DEF TypeOK, Shape, Others
<1>3. r \in Request(required)
  BY ItemsAssumption DEF TypeOK
<1>4. r.op \in {"create", "update", "get", "delete"} /\ (r.op # "create" => r.id \in Ids)
  BY <1>3, RequestFacts
<1>5. OnItsRecords(e)'
  BY <1>1, <1>2 DEF OnItsRecords, Result, Unlinked
<1>6. NoNewKids(e)'
  BY <1>1, <1>2, <1>3, TouchedFacts DEF NoNewKids, Mine
<1>7. KnownChildren(e)'
  BY <1>1, <1>4 DEF KnownChildren
<1>8. KnownOk(e)'
  <2>1. pc'[e] = "load" => r.op \in {"get", "update"} /\ r.id # Derived
    BY <1>1, <1>4, NumberFacts
  <2>2. QED
    BY <1>1, <1>2, <1>4, <2>1 DEF KnownOk, Target
<1>9. KnownEnd(e)'
  BY <1>1, <1>4 DEF KnownEnd
<1>10. QED
  BY <1>5, <1>6, <1>7, <1>8, <1>9 DEF Alone, Known

(* A refusal is the one the store it found calls for.                      *)
LEMMA RefuseAlone ==
  ASSUME TypeOK, NEW e \in Clients, NEW from, pc[e] \notin {"idle", "done"}, NEW status,
         status # "ok", Refuse(e, from, status), apart[e], Unlinked(e) = {},
         OnItsRecords(e), NoNewKids(e), ~excused[e] => status = Expected(e)
  PROVE  Alone(e)'
<1>1. Steady(e) /\ store' = store
  BY RefuseFrame
<1>2. written'[e] = written[e] /\ excused'[e] = excused[e] /\ pc'[e] = "done"
      /\ res'[e] = status
  BY Domains DEF Refuse, Go
<1>3. Unlinked(e)' = {}
  BY <1>2 DEF Unlinked
<1>4. OnItsRecords(e)' /\ NoNewKids(e)' /\ Expected(e)' = Expected(e)
  BY <1>1, <1>2, <1>3, SameStore
<1>5. Known(e)'
  BY <1>2, <1>4 DEF Known, KnownChildren, KnownOk, KnownEnd
<1>6. QED
  BY <1>4, <1>5 DEF Alone

-----------------------------------------------------------------------------
(* Each step of a call that is apart.                                      *)

Exact(c) == apart[c] /\ IdShape(c) /\ OnItsRecords(c) /\ NoNewKids(c) /\ Known(c)

LEMMA CheckAlone ==
  ASSUME IInv, NEW e \in Clients, Exact(e), pc[e] = "check",
         CheckSelf(e) \/ CheckListed(e) \/ CheckDropped(e)
  PROVE  Alone(e)'
<1> TypeOK /\ Shape(e)
  BY DEF IInv
<1>1. /\ ~written[e] /\ req[e].op \in {"create", "update"} /\ req[e] \in Request(required)
      /\ Unlinked(e) = {} /\ apart[e] /\ OnItsRecords(e) /\ NoNewKids(e)
  BY DEF Shape, Unlinked, Exact
<1>2. /\ req[e].op = "update" => /\ before[e][req[e].id] # Absent
                                 /\ found[e] = ChildrenOf(before[e], req[e].id)
                                 /\ dropped[e] = Dropped(e)
      /\ \A x \in req[e].children \ todo[e] : before[e][x] # Absent
      /\ todo[e] \subseteq req[e].children
      /\ req[e].op = "create" => dropped[e] = {}
  BY <1>1 DEF Exact, IdShape, Known, KnownChildren, Shape
<1>3. CASE CheckSelf(e)
  <2>1. Expected(e) = "parent_cycle"
    BY <1>1, <1>2, <1>3 DEF CheckSelf, Expected, Outcome
  <2>2. QED
    BY <1>1, <1>3, <2>1, RefuseAlone DEF CheckSelf
<1>4. CASE CheckDropped(e)
  <2>1. /\ ~SelfListed(req[e]) /\ todo[e] = {} /\ required
        /\ req[e].op = "update" /\ req[e].lists /\ found[e] \ req[e].children # {}
    BY <1>1, <1>2, <1>4 DEF CheckDropped, Checked, Dropped
  <2>2. Expected(e) = "parent_required"
    BY <1>2, <2>1 DEF Expected, Outcome
  <2>3. QED
    BY <1>1, <1>4, <2>2, RefuseAlone DEF CheckDropped
<1>5. CASE CheckListed(e)
  <2>1. PICK x \in todo[e] :
          \/ ~Exists(x) /\ Refuse(e, {"check"}, "child_not_found")
          \/ /\ Exists(x)
             /\ pc[e] = "check"
             /\ todo' = [todo EXCEPT ![e] = @ \ {x}]
             /\ UNCHANGED <<site, store, pc, req, id, dropped, found, written, sent, res, calls,
                            ghost>>
    BY <1>5 DEF CheckListed
  <2>2. store[x] = before[e][x]
    BY <1>1, <1>2, Unwritten
  <2>3. CASE ~Exists(x) /\ Refuse(e, {"check"}, "child_not_found")
    <3>1. Expected(e) = "child_not_found"
      BY <1>1, <1>2, <1>5, <2>2, <2>3 DEF CheckListed, Expected, Outcome, Exists
    <3>2. QED
      BY <1>1, <2>3, <3>1, RefuseAlone
  <2>4. CASE /\ Exists(x)
             /\ todo' = [todo EXCEPT ![e] = @ \ {x}]
             /\ UNCHANGED <<site, store, pc, req, id, dropped, found, written, sent, res, calls,
                            ghost>>
    <3>1. Steady(e)
      BY <1>5, StepFrame DEF Step, Return, Go, Exact
    <3>2. /\ pc' = pc /\ store' = store /\ req' = req /\ before' = before /\ dropped' = dropped
          /\ written' = written /\ found' = found /\ todo'[e] = todo[e] \ {x}
      BY <2>4, Domains DEF ghost
    <3>3. OnItsRecords(e)' /\ NoNewKids(e)'
      BY <1>1, <3>1, <3>2, SameStore DEF Unlinked
    <3>4. Known(e)'
      BY <2>2, <2>4, <3>2
         DEF Exact, Known, KnownChildren, KnownOk, KnownEnd, Dropped, Exists
    <3>5. QED
      BY <3>3, <3>4 DEF Alone
  <2>5. QED
    BY <2>1, <2>3, <2>4
<1>6. QED
  BY <1>3, <1>4, <1>5

(* The first write of a call leaves it to link what it lists.              *)
LEMMA WriteAlone ==
  ASSUME IInv, NEW e \in Clients, Exact(e), Step(e), NEW i \in Ids, NEW fk, Write(e, i, fk),
         ~SelfListed(req[e]), todo[e] = {}, i = Target(e), fk = After(e)[i], fk # Absent,
         i \notin req[e].children, i \notin dropped[e], Expected(e) = "ok"
  PROVE  Alone(e)'
<1> TypeOK /\ Shape(e)
  BY DEF IInv
<1>1. /\ pc[e] = "check" /\ pc'[e] = "link" /\ written'[e] /\ ~written[e]
      /\ todo'[e] = req[e].children /\ dropped' = dropped /\ found' = found /\ req' = req
      /\ before' = before /\ id'[e] = i /\ required' = required
      /\ store' = [store EXCEPT ![i] = fk]
      /\ req[e] \in Request(required) /\ req[e].op \in {"create", "update"}
      /\ store \in [Ids -> Record(required) \cup {Absent}]
  BY Domains DEF Write, Go, ghost, site, Shape, TypeOK, Store
<1>2. /\ Mine(e) \subseteq Ids /\ req[e].children \subseteq Mine(e)
      /\ req[e].id = Derived => Mine(e) = Ids
      /\ {req[e].id, req[e].parent} \cap Ids \subseteq Mine(e)
  BY <1>1, TouchedFacts DEF Mine
<1>3. /\ req[e].op = "update" => /\ before[e][req[e].id] # Absent
                                 /\ found[e] = ChildrenOf(before[e], req[e].id)
                                 /\ dropped[e] = Dropped(e) /\ i = req[e].id
      /\ \A x \in req[e].children : before[e][x] # Absent
      /\ req[e].op = "create" => dropped[e] = {}
  <2>1. req[e].op = "update" => req[e].id \in Ids /\ req[e].id # Derived
    BY <1>1, RequestFacts, NumberFacts
  <2>2. QED
    BY <1>1, <2>1 DEF Exact, Known, KnownChildren, Shape, Target
<1>4. \A x \in Mine(e) : store[x] = before[e][x]
  BY <1>1, Unwritten DEF Exact
<1>5. /\ Target(e)' = Target(e) /\ After(e)' = After(e) /\ Result(e)' = After(e)
      /\ Mine(e)' = Mine(e) /\ Expected(e)' = Expected(e) /\ Dropped(e)' = Dropped(e)
      /\ Unlinked(e)' = req[e].children \cup dropped[e]
  BY <1>1 DEF Target, After, Result, Mine, Expected, Dropped, Unlinked
<1>6. ASSUME NEW x \in Mine(e)
      PROVE  store'[x] = IF x \in req[e].children \cup dropped[e] THEN before[e][x] ELSE After(e)[x]
  <2>1. CASE x = i
    BY <1>1, <2>1
  <2>2. CASE x # i
    <3>1. store'[x] = before[e][x]
      BY <1>1, <1>4, <2>2
    <3>2. After(e)[x] = IF x \in req[e].children THEN i
                        ELSE IF req[e].op = "update" /\ req[e].lists /\ before[e][x] = i
                             THEN NoParent ELSE before[e][x]
      BY <1>2, <2>2 DEF After, Applied
    <3>3. req[e].op = "update" /\ req[e].lists /\ before[e][x] = i
            => x \in req[e].children \cup dropped[e]
      BY <1>2, <1>3, <2>2 DEF Dropped, ChildrenOf
    <3>4. QED
      BY <3>1, <3>2, <3>3
  <2>3. QED
    BY <2>1, <2>2
<1>7. OnItsRecords(e)'
  BY <1>1, <1>5, <1>6 DEF OnItsRecords
<1>8. NoNewKids(e)'
  <2>1. i \in Mine(e)
    BY <1>2 DEF Target
  <2>2. QED
    BY <1>1, <1>5, <2>1 DEF NoNewKids, Exact
<1>9. KnownChildren(e)'
  BY <1>1, <1>3, <1>5 DEF KnownChildren
<1>10. KnownOk(e)' /\ KnownEnd(e)'
  BY <1>1, <1>3, <1>5 DEF KnownOk, KnownEnd
<1>11. QED
  BY <1>7, <1>8, <1>9, <1>10 DEF Alone, Known

LEMMA WriteNewAlone ==
  ASSUME IInv, NEW e \in Clients, Exact(e), WriteNew(e) PROVE Alone(e)'
<1> TypeOK /\ Shape(e)
  BY DEF IInv
<1>1. /\ pc[e] = "check" /\ ~written[e] /\ req[e].op = "create" /\ req[e] \in Request(required)
      /\ todo[e] = {} /\ ~SelfListed(req[e]) /\ id[e] = req[e].id
      /\ dropped[e] = {} /\ Unlinked(e) = {}
      /\ apart[e] /\ OnItsRecords(e) /\ NoNewKids(e)
      /\ \A x \in req[e].children : before[e][x] # Absent
  BY DEF WriteNew, Checked, Shape, Unlinked, Exact, IdShape, Known, KnownChildren
<1>2. /\ req[e].parent \in Record(required) /\ req[e].parent # Absent /\ req[e].parent # Keep
      /\ req[e].id \in Ids \cup {Derived}
  BY <1>1, RequestFacts, RecordsExist DEF TypeOK
<1>3. ASSUME NEW i \in Ids PROVE Applied(before[e], req[e], i)[i] = req[e].parent
  BY <1>1, <1>2 DEF Applied
<1>4. CASE id[e] # Derived /\ ~Exists(id[e]) /\ Write(e, id[e], req[e].parent)
  <2>1. req[e].id \in Ids /\ before[e][req[e].id] = Absent
    BY <1>1, <1>2, <1>4, Unwritten DEF Exists
  <2>2. Target(e) = id[e] /\ id[e] \notin req[e].children
    BY <1>1, <1>4 DEF Target, SelfListed
  <2>3. Expected(e) = "ok"
    BY <1>1, <2>1 DEF Expected, Outcome
  <2>4. After(e)[id[e]] = req[e].parent
    BY <1>1, <1>3, <2>1, <2>2 DEF After
  <2>5. QED
    BY <1>1, <1>2, <1>4, <2>1, <2>2, <2>3, <2>4, WriteAlone DEF Step
<1>5. CASE id[e] # Derived /\ Exists(id[e]) /\ Refuse(e, {"check"}, "already_exists")
  <2>1. req[e].id \in Ids /\ before[e][req[e].id] # Absent
    BY <1>1, <1>2, <1>5, Unwritten DEF Exists
  <2>2. Expected(e) = "already_exists"
    BY <1>1, <1>5, <2>1 DEF Expected, Outcome
  <2>3. QED
    BY <1>1, <1>5, <2>2, RefuseAlone
<1>6. CASE id[e] = Derived /\ Stored # Ids /\ Write(e, FirstFree(store), req[e].parent)
  <2>1. store = before[e] /\ Target(e) = FirstFree(store)
    BY <1>1, <1>6, Unwritten DEF Target
  <2>2. PICK i \in Ids : store[i] = Absent
    BY <1>6 DEF Stored, Exists
  <2>3. FirstFree(store) \in Ids /\ store[FirstFree(store)] = Absent
    BY <2>2, FirstFreeType
  <2>4. FirstFree(store) \notin req[e].children
    BY <1>1, <2>1, <2>3
  <2>5. Expected(e) = "ok"
    BY <1>1, <1>6 DEF Expected, Outcome
  <2>6. After(e)[FirstFree(store)] = req[e].parent
    BY <1>3, <2>1, <2>3 DEF After
  <2>7. QED
    BY <1>1, <1>2, <1>6, <2>1, <2>3, <2>4, <2>5, <2>6, WriteAlone DEF Step
<1>7. QED
  BY <1>4, <1>5, <1>6 DEF WriteNew

LEMMA WriteUpdateAlone ==
  ASSUME IInv, NEW e \in Clients, Exact(e), WriteUpdate(e) PROVE Alone(e)'
<1> TypeOK /\ Shape(e)
  BY DEF IInv
<1>1. /\ pc[e] = "check" /\ ~written[e] /\ req[e].op = "update" /\ req[e] \in Request(required)
      /\ todo[e] = {} /\ ~SelfListed(req[e]) /\ (required => dropped[e] = {})
      /\ apart[e] /\ OnItsRecords(e) /\ NoNewKids(e)
      /\ \A x \in req[e].children : before[e][x] # Absent
      /\ before[e][req[e].id] # Absent /\ dropped[e] = Dropped(e)
      /\ found[e] = ChildrenOf(before[e], req[e].id)
  BY DEF WriteUpdate, Checked, Shape, Exact, Known, KnownChildren
<1>2. /\ req[e].id \in Ids /\ req[e].id # Derived /\ id[e] = req[e].id /\ Target(e) = req[e].id
      /\ req[e].parent \in Record(required) \cup {Keep}
  BY <1>1, RequestFacts, NumberFacts DEF Exact, IdShape, Target
<1>3. store[id[e]] = before[e][id[e]]
  BY <1>1, <1>2, Unwritten
<1> DEFINE fk == IF req[e].parent = Keep THEN store[id[e]] ELSE req[e].parent
<1>4. Write(e, id[e], fk)
  BY <1>1, <1>2, <1>3 DEF WriteUpdate, Exists
<1>5. fk = After(e)[id[e]]
  BY <1>1, <1>2, <1>3 DEF After, Applied
<1>6. fk # Absent
  BY <1>1, <1>2, <1>3, RecordsExist DEF TypeOK
<1>7. id[e] \notin req[e].children /\ id[e] \notin dropped[e]
  BY <1>1, <1>2 DEF SelfListed, Dropped, ChildrenOf
<1>8. Expected(e) = "ok"
  BY <1>1 DEF Expected, Outcome, Dropped
<1>9. QED
  <2> HIDE DEF fk
  <2>1. QED
    BY <1>1, <1>2, <1>4, <1>5, <1>6, <1>7, <1>8, WriteAlone DEF Step

LEMMA LinkAlone ==
  ASSUME IInv, NEW e \in Clients, Exact(e), Link(e) \/ Unlink(e) PROVE Alone(e)'
<1> TypeOK /\ Shape(e)
  BY DEF IInv
<1>1. PICK x \in todo[e] \cup dropped[e], fk \in {id[e], NoParent} :
        /\ SetParent(e, x, fk)
        /\ \/ x \in todo[e] /\ fk = id[e]
           \/ todo[e] = {} /\ x \in dropped[e] /\ fk = NoParent
  BY DEF Link, Unlink
<1>2. /\ pc[e] = "link" /\ apart[e] /\ req[e] \in Request(required) /\ written[e]
      /\ req[e].op \in {"create", "update"} /\ todo[e] \subseteq req[e].children
      /\ OnItsRecords(e) /\ NoNewKids(e) /\ Known(e) /\ x \in Ids
      /\ store \in [Ids -> Record(required) \cup {Absent}]
  BY <1>1 DEF SetParent, Refuse, Go, Shape, Exact, Known, KnownOk, TypeOK, Store
<1>3. /\ \A y \in req[e].children : before[e][y] # Absent
      /\ id[e] = Target(e) /\ id[e] \notin todo[e] \cup dropped[e]
      /\ req[e].op = "create" => dropped[e] = {}
      /\ req[e].op = "update" => /\ found[e] = ChildrenOf(before[e], req[e].id)
                                 /\ dropped[e] \subseteq Dropped(e)
  BY <1>2 DEF Known, KnownOk, KnownChildren
<1>4. ASSUME x \in dropped[e]
      PROVE  /\ req[e].op = "update" /\ req[e].lists /\ x \notin req[e].children
             /\ before[e][x] = req[e].id /\ req[e].id \in Ids /\ req[e].id = Target(e)
  <2>1. req[e].op = "update" /\ x \in Dropped(e)
    BY <1>2, <1>3, <1>4
  <2>2. req[e].id \in Ids /\ req[e].id # Derived
    BY <1>2, <2>1, RequestFacts, NumberFacts
  <2>3. QED
    BY <1>3, <2>1, <2>2 DEF Dropped, ChildrenOf, Target
<1>5. x \in Mine(e) /\ before[e][x] # Absent
  BY <1>1, <1>2, <1>3, <1>4, TouchedFacts, NumberFacts DEF Mine
<1>6. store[x] = before[e][x]
  BY <1>1, <1>2, <1>5 DEF OnItsRecords, Unlinked
<1>7. /\ pc' = pc /\ store' = [store EXCEPT ![x] = fk] /\ todo' = [todo EXCEPT ![e] = @ \ {x}]
      /\ dropped' = [dropped EXCEPT ![e] = IF todo[e] = {} THEN @ \ {x} ELSE @]
      /\ required' = required /\ req' = req /\ id' = id /\ found' = found /\ written' = written
      /\ before' = before /\ excused' = excused /\ res' = res
  BY <1>1, <1>5, <1>6 DEF SetParent, Exists, site, ghost
<1>8. /\ Target(e)' = Target(e) /\ After(e)' = After(e) /\ Result(e)' = Result(e)
      /\ Mine(e)' = Mine(e) /\ Expected(e)' = Expected(e) /\ Dropped(e)' = Dropped(e)
  BY <1>7 DEF Target, After, Result, Mine, Expected, Dropped
<1>9. Unlinked(e)' = Unlinked(e) \ {x}
  <2>1. x \in todo[e] => x \notin dropped[e]
    BY <1>2, <1>4
  <2>2. todo'[e] = todo[e] \ {x} /\ dropped'[e] = IF todo[e] = {} THEN dropped[e] \ {x} ELSE dropped[e]
    BY <1>7, Domains
  <2>3. QED
    BY <1>1, <1>2, <1>7, <2>1, <2>2 DEF Unlinked
<1>10. fk = After(e)[x]
  BY <1>1, <1>2, <1>3, <1>4 DEF After, Applied
<1>11. OnItsRecords(e)'
  <2>1. ASSUME NEW y \in Mine(e)
        PROVE  store'[y] = IF y \in Unlinked(e) \ {x} THEN before[e][y] ELSE After(e)[y]
    <3>1. store[y] = IF y \in Unlinked(e) THEN before[e][y] ELSE After(e)[y]
      BY <1>2 DEF OnItsRecords, Result
    <3>2. QED
      BY <1>2, <1>7, <1>10, <3>1
  <2>2. QED
    BY <1>2, <1>7, <1>8, <1>9, <2>1 DEF OnItsRecords, Result
<1>12. NoNewKids(e)'
  BY <1>2, <1>5, <1>7, <1>8 DEF NoNewKids
<1>13. dropped'[e] \subseteq dropped[e] /\ todo'[e] \subseteq todo[e]
  BY <1>7, Domains
<1>14. KnownChildren(e)' /\ KnownOk(e)' /\ KnownEnd(e)'
  BY <1>2, <1>3, <1>7, <1>8, <1>13 DEF Known, KnownChildren, KnownOk, KnownEnd
<1>15. QED
  BY <1>11, <1>12, <1>14 DEF Alone, Known

LEMMA LoadAlone ==
  ASSUME IInv, NEW e \in Clients, Exact(e), Load(e) PROVE Alone(e)'
<1> TypeOK /\ Shape(e)
  BY DEF IInv
<1>1. /\ pc[e] \in {"load", "link"} /\ apart[e] /\ req[e] \in Request(required)
      /\ OnItsRecords(e) /\ NoNewKids(e) /\ Known(e) /\ Unlinked(e) = {}
      /\ pc[e] = "link" => dropped[e] = {} /\ todo[e] = {}
      /\ id[e] = Target(e) /\ id[e] \in Ids
      /\ pc[e] = "load" => ~written[e] /\ req[e].op \in {"get", "update"}
      /\ pc[e] = "link" => written[e] /\ After(e)[id[e]] # Absent /\ Expected(e) = "ok"
                           /\ req[e].op \in {"create", "update"}
  BY DEF Load, Unlinked, Exact, Shape, Known, KnownOk, Reads
<1>2. pc[e] = "load" => req[e].id \in Ids /\ req[e].id = id[e]
  BY <1>1, RequestFacts, NumberFacts DEF Target
<1>3. pc[e] = "load" => store[id[e]] = before[e][req[e].id]
  BY <1>1, <1>2, Unwritten
<1>4. pc[e] = "link" => Exists(id[e])
  <2>1. id[e] \in Mine(e)
    BY <1>1, TouchedFacts DEF Target, Mine
  <2>2. QED
    BY <1>1, <2>1 DEF OnItsRecords, Result, Exists
<1>5. Others(e) /\ Steady(e) /\ store' = store
  BY StepFrame DEF Step, Load, Return, Refuse, Go, Exact
<1>6. CASE Exists(id[e]) /\ Go(e, {pc[e]}, "list")
        /\ UNCHANGED <<site, store, req, id, todo, dropped, found, written, sent, res, calls, ghost>>
  <2>1. pc'[e] = "list" /\ id' = id /\ written' = written /\ req' = req /\ before' = before
        /\ found' = found /\ dropped' = dropped /\ Unlinked(e)' = Unlinked(e)
    BY <1>1, <1>6, Domains DEF Go, ghost, Unlinked
  <2>2. /\ OnItsRecords(e)' /\ NoNewKids(e)' /\ Target(e)' = Target(e)
        /\ Expected(e)' = Expected(e)
    BY <1>1, <1>5, <2>1, SameStore
  <2>3. KnownChildren(e)'
    BY <1>1, <1>2, <1>3, <1>6, <2>1 DEF KnownChildren, Known, Exists
  <2>4. KnownOk(e)' /\ KnownEnd(e)'
    BY <1>1, <2>1, <2>2 DEF KnownOk, KnownEnd
  <2>5. QED
    BY <2>2, <2>3, <2>4 DEF Alone, Known
<1>7. CASE ~Exists(id[e]) /\ Refuse(e, {pc[e]}, "not_found")
  <2>1. pc[e] = "load" /\ before[e][req[e].id] = Absent
    BY <1>1, <1>3, <1>4, <1>7 DEF Exists
  <2>2. Expected(e) = "not_found"
    BY <1>1, <2>1 DEF Expected, Outcome
  <2>3. QED
    BY <1>1, <1>7, <2>1, <2>2, RefuseAlone
<1>8. QED
  BY <1>6, <1>7 DEF Load

LEMMA ListAlone ==
  ASSUME IInv, NEW e \in Clients, Exact(e), List(e) PROVE Alone(e)'
<1> TypeOK /\ Shape(e)
  BY DEF IInv
<1>1. /\ pc[e] = "list" /\ apart[e] /\ OnItsRecords(e) /\ NoNewKids(e) /\ Known(e)
      /\ IdShape(e) /\ Unlinked(e) = {} /\ id[e] \in Ids
  BY DEF List, Go, Unlinked, Exact, Shape, Reads
<1>2. /\ pc'[e] = "scan" /\ todo'[e] = Stored /\ found'[e] = {} /\ id' = id /\ store' = store
      /\ written' = written /\ req' = req /\ before' = before /\ dropped' = dropped
  BY Domains DEF List, Go, ghost
<1>3. Steady(e)
  BY <1>1, StepFrame DEF Step, Return, Go
<1>4. /\ OnItsRecords(e)' /\ NoNewKids(e)' /\ Target(e)' = Target(e)
      /\ Result(e)' = Result(e) /\ Expected(e)' = Expected(e)
  BY <1>1, <1>2, <1>3, SameStore DEF Unlinked
<1>5. ChildrenOf(Result(e), Target(e)) \subseteq Stored
  <2>1. ChildrenOf(store, id[e]) = ChildrenOf(Result(e), Target(e))
    BY <1>1, KidsAre DEF Known
  <2>2. QED
    BY <1>1, <2>1, NumberFacts DEF ChildrenOf, Stored, Exists
<1>6. KnownChildren(e)'
  BY <1>1, <1>2, <1>4, <1>5 DEF Known, KnownChildren
<1>7. KnownOk(e)' /\ KnownEnd(e)'
  BY <1>1, <1>2, <1>4 DEF Known, KnownOk, KnownEnd
<1>8. QED
  BY <1>4, <1>6, <1>7 DEF Alone, Known

LEMMA ScanAlone ==
  ASSUME IInv, NEW e \in Clients, Exact(e), Scan(e) PROVE Alone(e)'
<1> TypeOK /\ Shape(e) /\ Backed(e)
  BY DEF IInv
<1>1. PICK x \in todo[e] :
        /\ pc[e] = "scan"
        /\ \/ ~Exists(x) /\ Refuse(e, {"scan"}, "failed")
           \/ /\ Exists(x)
              /\ todo' = [todo EXCEPT ![e] = @ \ {x}]
              /\ found' = [found EXCEPT ![e] =
                             IF x # id[e] /\ store[x] = id[e] THEN @ \cup {x} ELSE @]
              /\ UNCHANGED <<site, store, pc, req, id, dropped, written, sent, res, calls, ghost>>
  BY DEF Scan
<1>2. /\ apart[e] /\ OnItsRecords(e) /\ NoNewKids(e) /\ Known(e) /\ IdShape(e)
      /\ Unlinked(e) = {} /\ x \in Ids
  BY <1>1 DEF Unlinked, Exact, TypeOK
<1>3. CASE ~Exists(x) /\ Refuse(e, {"scan"}, "failed")
  <2>1. excused[e]
    BY <1>1, <1>3 DEF Backed, Stored
  <2>2. QED
    BY <1>1, <1>2, <1>3, <2>1, RefuseAlone
<1>4. CASE /\ todo' = [todo EXCEPT ![e] = @ \ {x}]
           /\ found' = [found EXCEPT ![e] =
                          IF x # id[e] /\ store[x] = id[e] THEN @ \cup {x} ELSE @]
           /\ UNCHANGED <<site, store, pc, req, id, dropped, written, sent, res, calls, ghost>>
  <2>1. Steady(e)
    BY <1>1, <1>2, StepFrame DEF Step, Scan, Return, Go
  <2>2. /\ pc' = pc /\ store' = store /\ id' = id /\ req' = req /\ before' = before
        /\ dropped' = dropped /\ written' = written
        /\ todo'[e] = todo[e] \ {x}
        /\ found'[e] = IF x # id[e] /\ store[x] = id[e] THEN found[e] \cup {x} ELSE found[e]
    BY <1>4, Domains DEF ghost
  <2>3. /\ OnItsRecords(e)' /\ NoNewKids(e)' /\ Target(e)' = Target(e)
        /\ Result(e)' = Result(e) /\ Expected(e)' = Expected(e)
    BY <1>1, <1>2, <2>1, <2>2, SameStore DEF Unlinked
  <2>4. x \in ChildrenOf(Result(e), Target(e)) <=> x # id[e] /\ store[x] = id[e]
    <3>1. ChildrenOf(store, id[e]) = ChildrenOf(Result(e), Target(e))
      BY <1>1, <1>2, KidsAre DEF Known
    <3>2. QED
      BY <1>2, <3>1 DEF ChildrenOf
  <2>5. KnownChildren(e)'
    BY <1>1, <1>2, <2>2, <2>3, <2>4 DEF Known, KnownChildren
  <2>6. KnownOk(e)' /\ KnownEnd(e)'
    BY <1>1, <1>2, <2>2, <2>3 DEF Known, KnownOk, KnownEnd
  <2>7. QED
    BY <2>3, <2>5, <2>6 DEF Alone, Known
<1>5. QED
  BY <1>1, <1>3, <1>4

LEMMA ScannedAlone ==
  ASSUME IInv, NEW e \in Clients, Exact(e), Scanned(e) PROVE Alone(e)'
<1> TypeOK /\ Shape(e)
  BY DEF IInv
<1>1. /\ pc[e] = "scan" /\ todo[e] = {} /\ apart[e] /\ req[e] \in Request(required)
      /\ OnItsRecords(e) /\ NoNewKids(e) /\ Known(e) /\ Unlinked(e) = {}
      /\ store' = store /\ written' = written /\ req' = req /\ before' = before
      /\ found' = found
  BY DEF Scanned, Unlinked, Exact, Shape, ghost
<1>2. Steady(e)
  BY <1>1, StepFrame DEF Step, Return, Go, Exact
<1>3. found[e] = ChildrenOf(Result(e), Target(e))
  BY <1>1 DEF Known, KnownChildren
<1>4. Unlinked(e)' = {}
  BY Domains DEF Scanned, Emit, Go, Unlinked
<1>5. /\ OnItsRecords(e)' /\ NoNewKids(e)' /\ Target(e)' = Target(e)
      /\ Result(e)' = Result(e) /\ Expected(e)' = Expected(e)
  BY <1>1, <1>2, <1>4, SameStore
<1>6. CASE /\ req[e].op = "update" /\ ~written[e]
           /\ Go(e, {"scan"}, "check")
           /\ todo' = [todo EXCEPT ![e] = Added(e)]
           /\ dropped' = [dropped EXCEPT ![e] = Dropped(e)]
  <2>1. /\ pc'[e] = "check" /\ dropped'[e] = Dropped(e)
        /\ todo'[e] = req[e].children \ found[e]
    BY <1>6, Domains DEF Go, Added
  <2>2. req[e].id \in Ids /\ Target(e) = req[e].id /\ Result(e) = before[e]
    BY <1>1, <1>6, RequestFacts, NumberFacts DEF Target, Result
  <2>3. \A x \in req[e].children \ todo'[e] : before[e][x] # Absent
    BY <1>3, <2>1, <2>2, NumberFacts DEF ChildrenOf
  <2>4. Dropped(e)' = Dropped(e)
    BY <1>1 DEF Dropped
  <2>5. before[e][req[e].id] # Absent
    BY <1>1, <1>6 DEF Known, KnownChildren
  <2>6. KnownChildren(e)'
    BY <1>1, <1>3, <1>6, <2>1, <2>2, <2>3, <2>4, <2>5 DEF KnownChildren
  <2>7. KnownOk(e)' /\ KnownEnd(e)'
    BY <1>1, <1>6, <2>1 DEF KnownOk, KnownEnd
  <2>8. QED
    BY <1>5, <2>6, <2>7 DEF Alone, Known
<1>7. CASE (req[e].op = "get" \/ written[e]) /\ Emit(e, {"scan"})
  <2>1. pc'[e] = "done" /\ res'[e] = "ok"
    BY <1>7, Domains DEF Emit, Go
  <2>2. Expected(e) = "ok"
    <3>1. CASE written[e]
      BY <1>1, <3>1 DEF Known, KnownOk
    <3>2. CASE req[e].op = "get"
      <4>1. before[e][req[e].id] # Absent /\ req[e].children = {}
        BY <1>1, <3>2, RequestFacts DEF Known, KnownChildren
      <4>2. QED
        BY <3>2, <4>1 DEF Expected, Outcome, SelfListed
    <3>3. QED
      BY <1>7, <3>1, <3>2
  <2>3. Known(e)'
    BY <1>1, <1>3, <1>5, <1>7, <2>1, <2>2 DEF Known, KnownChildren, KnownOk, KnownEnd
  <2>4. QED
    BY <1>5, <2>3 DEF Alone
<1>8. QED
  BY <1>6, <1>7 DEF Scanned

LEMMA RemoveAlone ==
  ASSUME IInv, NEW e \in Clients, Exact(e), Remove(e) PROVE Alone(e)'
<1> TypeOK /\ Shape(e)
  BY DEF IInv
<1>1. /\ pc[e] = "remove" /\ id[e] \in Ids /\ req[e] \in Request(required)
      /\ req[e].op = "delete" /\ ~written[e] /\ apart[e] /\ OnItsRecords(e) /\ NoNewKids(e)
      /\ Unlinked(e) = {} /\ store \in [Ids -> Record(required) \cup {Absent}]
  BY DEF Remove, Shape, Exact, Unlinked, TypeOK, Store
<1>2. /\ req[e].id \in Ids /\ id[e] = req[e].id /\ req[e].children = {}
      /\ req[e].id # Derived
  BY <1>1, RequestFacts, NumberFacts DEF Exact, IdShape
<1>3. /\ \A x \in Mine(e) : store[x] = before[e][x]
      /\ store[id[e]] = before[e][req[e].id]
      /\ Mine(e) \subseteq Ids
  BY <1>1, <1>2, Unwritten, TouchedFacts DEF Mine
<1>4. CASE ~Exists(id[e]) /\ Refuse(e, {"remove"}, "not_found")
  <2>1. Expected(e) = "not_found"
    BY <1>1, <1>3, <1>4 DEF Expected, Outcome, Exists
  <2>2. QED
    BY <1>1, <1>4, <2>1, RefuseAlone
<1>5. CASE Exists(id[e]) /\ Emit(e, {"remove"})
           /\ store' = [store EXCEPT ![id[e]] = Absent]
           /\ written' = [written EXCEPT ![e] = TRUE]
           /\ UNCHANGED <<site, req, id, todo, dropped, found, calls, before, apart>>
  <2>1. /\ pc'[e] = "done" /\ res'[e] = "ok" /\ req' = req /\ before' = before
        /\ required' = required /\ written'[e]
    BY <1>5, Domains DEF Emit, Go, site
  <2>2. Result(e)' = Applied(before[e], req[e], req[e].id) /\ Unlinked(e)' = {}
    BY <1>2, <2>1 DEF Result, After, Target, Unlinked
  <2>3. OnItsRecords(e)'
    <3>1. ASSUME NEW x \in Mine(e) PROVE store'[x] = Applied(before[e], req[e], req[e].id)[x]
      BY <1>1, <1>2, <1>3, <1>5 DEF Applied
    <3>2. QED
      BY <2>1, <2>2, <3>1 DEF OnItsRecords, Mine
  <2>4. NoNewKids(e)'
    BY <1>1, <1>2, <1>5, <2>1, NumberFacts DEF NoNewKids, Mine
  <2>5. Expected(e)' = "ok"
    BY <1>1, <1>2, <1>3, <1>5, <2>1 DEF Expected, Outcome, SelfListed, Exists
  <2>6. Known(e)'
    BY <1>1, <2>1, <2>5 DEF Known, KnownChildren, KnownOk, KnownEnd
  <2>7. QED
    BY <2>3, <2>4, <2>6 DEF Alone
<1>6. QED
  BY <1>4, <1>5 DEF Remove

LEMMA VaultFailsAlone ==
  ASSUME IInv, NEW e \in Clients, Exact(e), VaultFails(e) PROVE Alone(e)'
<1> TypeOK
  BY DEF IInv
<1>1. /\ store' = store /\ req' = req /\ before' = before /\ pc'[e] = "done"
      /\ res'[e] = "failed" /\ excused'[e]
  BY Domains DEF VaultFails, Go
<1>2. OnItsRecords(e)' /\ NoNewKids(e)'
  BY <1>1 DEF OnItsRecords, NoNewKids, Mine, Exact
<1>3. Known(e)'
  BY <1>1 DEF Known, KnownChildren, KnownOk, KnownEnd
<1>4. QED
  BY <1>2, <1>3 DEF Alone

LEMMA OwnAlone ==
  ASSUME IInv, ApartInv, NEW e \in Clients, Call(e) \/ Step(e) PROVE Alone(e)'
<1> TypeOK /\ Shape(e) /\ IdShape(e)
  BY DEF IInv, ApartInv
<1>1. CASE Call(e)
  BY <1>1, CallAlone
<1>2. CASE Return(e)
  BY <1>2, ReturnFrame DEF Alone
<1>3. CASE Step(e) /\ ~Return(e) /\ ~apart'[e]
  BY <1>3 DEF Alone
<1>4. CASE Step(e) /\ ~Return(e) /\ apart'[e]
  <2>1. Exact(e)
    BY <1>4, StepFrame DEF Steady, ApartInv, Alone, Exact
  <2>2. CASE CheckSelf(e) \/ CheckListed(e) \/ CheckDropped(e)
    <3>1. pc[e] = "check"
      BY <2>2 DEF CheckSelf, CheckListed, CheckDropped, Checked, Refuse, Go
    <3>2. QED
      BY <2>1, <2>2, <3>1, CheckAlone
  <2>3. QED
    BY <1>4, <2>1, <2>2, WriteNewAlone, WriteUpdateAlone, LinkAlone, LoadAlone, ListAlone,
       ScanAlone, ScannedAlone, RemoveAlone, VaultFailsAlone DEF Step
<1>5. QED
  BY <1>1, <1>2, <1>3, <1>4

LEMMA StepAlone ==
  ASSUME IInv, ApartInv, NEW e \in Clients, Call(e) \/ Step(e), NEW c \in Clients
  PROVE  Alone(c)'
<1> TypeOK /\ Shape(e) /\ IdShape(e)
  BY DEF IInv, ApartInv
<1>1. CASE c = e
  BY <1>1, OwnAlone
<1>2. CASE c # e
  <2>1. Others(e) /\ (Call(e) => store' = store) /\ (Return(e) => store' = store)
    BY CallFrame, ReturnFrame, StepFrame
  <2>2. ASSUME pc[c] # "idle", apart[c], NEW y \in Ids, store'[y] # store[y]
        PROVE  y \notin Reach(c) /\ store'[y] # req[c].id
    <3>1. Step(e) /\ ~Return(e)
      BY <2>1, <2>2
    <3>2. pc[e] # "idle"
      BY <3>1, StepFrame DEF Steady
    <3>3. Apart(c, e)
      BY <1>2, <2>2, <3>2 DEF ApartInv, Separate
    <3>4. QED
      BY <1>2, <2>2, <3>1, <3>2, <3>3, Untouched
  <2>3. QED
    BY <1>2, <2>1, <2>2, OtherAlone DEF ApartInv
<1>3. QED
  BY <1>1, <1>2

LEMMA InitApart == Init => ApartInv
  BY DEF Init, ApartInv, Separate, IdShape, Alone

LEMMA NextApart == IInv /\ ApartInv /\ [Next]_vars => ApartInv'
<1> SUFFICES ASSUME IInv, ApartInv, [Next]_vars PROVE ApartInv'
  OBVIOUS
<1>1. CASE UNCHANGED vars
  <2>1. /\ required' = required /\ store' = store /\ pc' = pc /\ req' = req /\ id' = id
        /\ todo' = todo /\ dropped' = dropped /\ found' = found /\ written' = written
        /\ res' = res /\ before' = before /\ apart' = apart /\ excused' = excused
    BY <1>1 DEF vars, site, mine, ghost
  <2>2. Separate'
    BY <2>1 DEF ApartInv, Separate, Apart, Reach
  <2>3. ASSUME NEW c \in Clients PROVE IdShape(c)' /\ Alone(c)'
    <3>1. IdShape(c)'
      BY <2>1 DEF ApartInv, IdShape
    <3>2. OnItsRecords(c)' = OnItsRecords(c) /\ NoNewKids(c)' = NoNewKids(c)
      BY <2>1 DEF OnItsRecords, NoNewKids, Mine, Unlinked, Result, After, Target
    <3>3. Known(c)' = Known(c)
      BY <2>1 DEF Known, KnownChildren, KnownOk, KnownEnd, Dropped, Result, After, Target, Expected
    <3>4. QED
      BY <2>1, <3>1, <3>2, <3>3 DEF ApartInv, Alone
  <2>4. QED
    BY <2>2, <2>3 DEF ApartInv
<1>2. ASSUME NEW e \in Clients, Call(e) \/ Step(e) PROVE ApartInv'
  BY <1>2, IdShapeStep, CallSeparate, StepSeparate, StepAlone DEF ApartInv
<1>3. QED
  BY <1>1, <1>2 DEF Next, Quiesce

(* Without a transaction, a call that shares no record with an overlapping *)
(* one still ends as it would alone: the error it answers, the children it *)
(* answers and the records it leaves are those of one step on the store it *)
(* found, whatever the steps of any number of others do in between.        *)
THEOREM ApartCallsExact == Spec => []ApartIsExact
<1>1. IInv /\ ApartInv => ApartIsExact
  <2> SUFFICES ASSUME IInv, ApartInv, NEW c \in Clients, pc[c] = "done", apart[c]
      PROVE LET r     == req[c]
                after == IF res[c] = "ok" THEN Applied(before[c], r, Target(c)) ELSE before[c]
            IN /\ ~excused[c] => res[c] = Outcome(before[c], r, required)
               /\ res[c] = "ok" \/ ~excused[c] =>
                    \A x \in Touched(before[c], r) : store[x] = after[x]
               /\ res[c] = "ok" /\ r.op # "delete" => found[c] = ChildrenOf(after, Target(c))
    BY DEF ApartIsExact, Target
  <2>1. OnItsRecords(c) /\ KnownEnd(c) /\ Unlinked(c) = {}
    BY DEF ApartInv, Alone, Known, Unlinked
  <2>2. /\ TypeOK /\ Shape(c) /\ Backed(c) /\ req[c] \in Request(required)
        /\ before[c] \in [Ids -> Record(required) \cup {Absent}]
    BY DEF IInv, Shape, TypeOK, Store
  <2>3. res[c] # "ok" /\ ~excused[c] => Result(c) = before[c]
    BY <2>2 DEF Backed, Result
  <2>4. res[c] = "ok" /\ written[c] => Result(c) = After(c)
    BY DEF Result
  <2>5. ASSUME res[c] = "ok", ~written[c] PROVE Result(c) = After(c)
    <3>1. req[c].op = "get" /\ req[c].children = {} /\ req[c].parent = Keep
      BY <2>1, <2>2, <2>5, RequestFacts DEF KnownEnd
    <3>2. \A x \in Ids : Applied(before[c], req[c], Target(c))[x] = before[c][x]
      BY <3>1 DEF Applied
    <3>3. Applied(before[c], req[c], Target(c)) = before[c]
      BY <2>2, <3>2 DEF Applied
    <3>4. QED
      BY <2>5, <3>3 DEF Result, After
  <2>6. QED
    BY <2>1, <2>3, <2>4, <2>5 DEF OnItsRecords, KnownEnd, Mine, Expected, After
<1>2. Spec => []ApartInv
  BY ItemsInit, ItemsNext, InitApart, NextApart, ItemsInvariant, PTL DEF Spec
<1>3. QED
  BY <1>1, <1>2, ItemsInvariant, PTL

-----------------------------------------------------------------------------
(* A record that is its own parent.                                        *)

(* No call sets the key of its own record to that record, and a create     *)
(* that leaves its id to the store sets neither a key nor children (what   *)
(* else a derived id can do is DerivedNotListed).  The store a caller      *)
(* finds holds no such record yet.                                         *)
NoneNamesItself ==
  /\ \A r \in Requests[FALSE] :
       /\ r.id = Derived => r.parent = NoParent /\ r.children = {}
       /\ r.id # Derived => r.parent # r.id
  /\ \A s \in Stores[FALSE] : \A i \in Ids : s[i] # i

(* Once a call has written its record, its list does not hold it: the      *)
(* check comes before, and the links that follow are those of the list.    *)
NotItsOwn(c) ==
  /\ pc[c] # "idle" => req[c] \in Requests[FALSE]
  /\ pc[c] = "link" => id[c] \notin req[c].children

SelfFree == (\A i \in Ids : store[i] # i) /\ \A c \in Clients : NotItsOwn(c)

LEMMA NotItsOwnStep ==
  ASSUME IInv, ApartInv, NoneNamesItself, ~required, NEW e \in Clients, NotItsOwn(e),
         Call(e) \/ Step(e)
  PROVE  NotItsOwn(e)'
<1> TypeOK /\ Shape(e) /\ IdShape(e)
  BY DEF IInv, ApartInv
<1>0. required = FALSE
  BY DEF TypeOK
<1>1. CASE Call(e)
  <2>1. PICK r \in Requests[required] :
          /\ req'[e] = r
          /\ pc'[e] = IF r.op = "create" THEN "check"
                      ELSE IF r.op = "delete" THEN "remove" ELSE "load"
    BY <1>1, CallFrame
  <2>2. QED
    BY <1>0, <2>1 DEF NotItsOwn
<1>2. CASE Return(e)
  BY <1>2, ReturnFrame DEF NotItsOwn
<1>3. CASE Step(e) /\ ~Return(e)
  <2>1. Steady(e)
    BY <1>3, StepFrame
  <2>2. req'[e] \in Requests[FALSE]
    BY <2>1 DEF Steady, NotItsOwn
  <2>3. ASSUME pc'[e] = "link" PROVE id'[e] \notin req'[e].children
    <3>1. CASE pc[e] = "link"
      <4>1. req[e].op \in {"create", "update"} /\ req[e] \in Request(required)
        BY <3>1 DEF Shape
      <4>2. CASE Link(e) \/ Unlink(e)
        <5>1. id' = id
          BY <4>2, Zenon DEF Link, Unlink, SetParent, Refuse
        <5>2. QED
          BY <2>1, <3>1, <5>1 DEF Steady, NotItsOwn
      <4>3. CASE VaultFails(e)
        BY <2>3, <4>3, Domains DEF VaultFails, Go
      <4>4. CASE Load(e)
        BY <2>3, <3>1, <4>4, Domains DEF Load, Refuse, Go
      <4>5. QED
        BY <1>3, <3>1, <4>2, <4>3, <4>4 DEF Step, CheckSelf, CheckDropped, CheckListed, Checked,
             WriteNew, WriteUpdate, Remove, List, Scan, Scanned, Refuse, Go
    <3>2. CASE pc[e] # "link"
      <4>1. CASE WriteNew(e) \/ WriteUpdate(e)
        <5>1. /\ pc[e] = "check" /\ ~SelfListed(req[e]) /\ req[e].op \in {"create", "update"}
              /\ req[e] \in Requests[FALSE]
          BY <4>1 DEF WriteNew, WriteUpdate, Checked, NotItsOwn
        <5>2. CASE req[e].id = Derived
          BY <2>1, <5>1, <5>2 DEF NoneNamesItself, Steady
        <5>3. CASE req[e].id # Derived
          <6>1. id'[e] = req[e].id
            BY <2>1, <5>1, <5>3 DEF IdShape, Steady
          <6>2. QED
            BY <2>1, <5>1, <5>3, <6>1 DEF SelfListed, Steady
        <5>4. QED
          BY <5>2, <5>3
      <4>2. CASE CheckSelf(e) \/ CheckDropped(e) \/ CheckListed(e)
        BY <2>3, <3>2, <4>2, Domains DEF CheckSelf, CheckDropped, CheckListed, Refuse, Go
      <4>3. CASE Link(e) \/ Unlink(e)
        BY <3>2, <4>3 DEF Link, Unlink, SetParent, Refuse, Go
      <4>4. CASE Remove(e)
        BY <2>3, <3>2, <4>4, Domains DEF Remove, Emit, Refuse, Go
      <4>5. CASE Load(e) \/ List(e)
        BY <2>3, <3>2, <4>5, Domains DEF Load, List, Refuse, Go
      <4>6. CASE Scan(e)
        BY <2>3, <3>2, <4>6, Domains DEF Scan, Refuse, Go
      <4>7. CASE Scanned(e)
        BY <2>3, <3>2, <4>7, Domains DEF Scanned, Emit, Go
      <4>8. CASE VaultFails(e)
        BY <2>3, <4>8, Domains DEF VaultFails, Go
      <4>9. QED
        BY <1>3, <4>1, <4>2, <4>3, <4>4, <4>5, <4>6, <4>7, <4>8 DEF Step
    <3>3. QED
      BY <3>1, <3>2
  <2>4. QED
    BY <2>2, <2>3 DEF NotItsOwn
<1>4. QED
  BY <1>1, <1>2, <1>3

(* What a step writes to a record is never that record.                    *)
LEMMA WritesNotItself ==
  ASSUME IInv, ApartInv, NoneNamesItself, ~required, NEW e \in Clients, NotItsOwn(e), Step(e),
         NEW y \in Ids, store'[y] # store[y], store[y] # y
  PROVE  store'[y] # y
<1> TypeOK /\ Shape(e) /\ IdShape(e) /\ store \in [Ids -> Record(required) \cup {Absent}]
  BY DEF IInv, ApartInv, TypeOK, Store
<1>1. ~Return(e)
  BY ReturnFrame
<1>2. pc[e] # "idle" /\ req[e] \in Requests[FALSE]
  BY <1>1, StepFrame DEF Steady, NotItsOwn
<1>3. CASE WriteNew(e)
  <2>1. CASE req[e].id # Derived
    <3>1. id[e] = req[e].id /\ store' = [store EXCEPT ![id[e]] = req[e].parent]
      BY <1>3, <2>1, WriteNewFrame
    <3>2. QED
      BY <1>2, <2>1, <3>1 DEF NoneNamesItself
  <2>2. CASE req[e].id = Derived
    <3>1. req[e].parent = NoParent
      BY <1>2, <2>2 DEF NoneNamesItself
    <3>2. \E i : store' = [store EXCEPT ![i] = NoParent]
      BY <1>3, <3>1 DEF WriteNew, Write, Refuse
    <3>3. QED
      BY <3>2, NumberFacts
  <2>3. QED
    BY <2>1, <2>2
<1>4. CASE WriteUpdate(e)
  <2>1. /\ req[e].op = "update" /\ pc[e] = "check"
        /\ store' = [store EXCEPT ![id[e]] =
                       IF req[e].parent = Keep THEN store[id[e]] ELSE req[e].parent]
    BY <1>4, WriteUpdateFrame
  <2>2. y = id[e] /\ store'[y] = req[e].parent
    BY <2>1
  <2>3. req[e].id # Derived
    BY <2>1, RequestFacts, NumberFacts DEF Shape
  <2>4. QED
    BY <1>2, <2>2, <2>3 DEF NoneNamesItself, IdShape
<1>5. CASE Link(e)
  <2>1. PICK x \in todo[e] : SetParent(e, x, id[e])
    BY <1>5 DEF Link
  <2>2. pc[e] = "link"
    BY <2>1 DEF SetParent, Refuse, Go
  <2>3. store' = [store EXCEPT ![x] = id[e]]
    BY <2>1, <2>2, SetParentFrame
  <2>4. x # id[e]
    BY <2>2 DEF NotItsOwn, Shape
  <2>5. QED
    BY <2>3, <2>4
<1>6. CASE Unlink(e)
  <2>1. PICK x \in dropped[e] : SetParent(e, x, NoParent)
    BY <1>6 DEF Unlink
  <2>2. pc[e] = "link"
    BY <2>1 DEF SetParent, Refuse, Go
  <2>3. store' = [store EXCEPT ![x] = NoParent]
    BY <2>1, <2>2, SetParentFrame
  <2>4. QED
    BY <2>3, NumberFacts
<1>7. CASE Remove(e)
  <2>1. store' = [store EXCEPT ![id[e]] = Absent]
    BY <1>7 DEF Remove, Refuse
  <2>2. QED
    BY <2>1, NumberFacts
<1>8. QED
  BY <1>1, <1>3, <1>4, <1>5, <1>6, <1>7, StepFrame

LEMMA InitSelfFree == ASSUME NoneNamesItself PROVE Init => (required \/ SelfFree)
<1> SUFFICES ASSUME Init, ~required PROVE SelfFree
  OBVIOUS
<1>1. required = FALSE
  BY ItemsAssumption DEF Init
<1>2. \A i \in Ids : store[i] # i
  BY <1>1 DEF Init, NoneNamesItself
<1>3. QED
  BY <1>2 DEF Init, SelfFree, NotItsOwn

LEMMA NextSelfFree ==
  ASSUME NoneNamesItself
  PROVE  IInv /\ ApartInv /\ (required \/ SelfFree) /\ [Next]_vars => (required \/ SelfFree)'
<1> SUFFICES ASSUME IInv, ApartInv, required \/ SelfFree, [Next]_vars, ~required'
             PROVE SelfFree'
  OBVIOUS
<1>1. CASE UNCHANGED vars
  <2>1. required' = required /\ store' = store /\ pc' = pc /\ req' = req /\ id' = id
    BY <1>1 DEF vars, site, mine
  <2>2. QED
    BY <2>1 DEF SelfFree, NotItsOwn
<1>2. ASSUME NEW e \in Clients, Call(e) \/ Step(e) PROVE SelfFree'
  <2>1. TypeOK /\ Shape(e) /\ IdShape(e)
    BY DEF IInv, ApartInv
  <2>2. Others(e)
    BY <1>2, <2>1, CallFrame, ReturnFrame, StepFrame
  <2>3. ~required /\ SelfFree
    BY <2>2 DEF Others
  <2>4. ASSUME NEW c \in Clients PROVE NotItsOwn(c)'
    <3>1. CASE c = e
      BY <1>2, <2>3, <3>1, NotItsOwnStep DEF SelfFree
    <3>2. CASE c # e
      BY <2>2, <2>3, <3>2 DEF SelfFree, NotItsOwn, Others
    <3>3. QED
      BY <3>1, <3>2
  <2>5. ASSUME NEW y \in Ids PROVE store'[y] # y
    <3>1. CASE Call(e)
      BY <2>1, <2>3, <3>1, CallFrame DEF SelfFree
    <3>2. CASE Step(e)
      BY <2>3, <3>2, WritesNotItself DEF SelfFree
    <3>3. QED
      BY <1>2, <3>1, <3>2
  <2>6. QED
    BY <2>4, <2>5 DEF SelfFree
<1>3. QED
  BY <1>1, <1>2 DEF Next, Quiesce

(* As long as no call sets a record's own key to the record, no list given *)
(* under an id makes a record its own child: whatever other callers do     *)
(* between the check and the links, deletes and re-creations of the same   *)
(* records included.                                                       *)
THEOREM NoneItsOwnParent == ASSUME NoneNamesItself PROVE Spec => []NoSelfParent
<1>1. Spec => [](required \/ SelfFree)
  BY InitSelfFree, NextSelfFree, ItemsInit, ItemsNext, InitApart, NextApart, ItemsInvariant, PTL
     DEF Spec
<1>2. (required \/ SelfFree) => NoSelfParent
  BY DEF SelfFree, NoSelfParent
<1>3. QED
  BY <1>1, <1>2, PTL
=============================================================================
