---------------------------- MODULE VaultProofs ----------------------------
(***************************************************************************)
(* Theorems about Vault, for any number of clients, directories, ids and   *)
(* edits, and any bound on calls, crashes and hand edits.                  *)
(*                                                                         *)
(* The argument: types and the shape of a call (TypeOK, CallShape) and the *)
(* write lock (LockHeld) are inductive; they give that a decided write is  *)
(* never out of date (DraftFresh), and from that every commit is a step of *)
(* the abstract RecordStore.                                               *)
(***************************************************************************)
EXTENDS Vault, WellFoundedInduction, TLAPS

-----------------------------------------------------------------------------
(* Lemmas about the data.                                                  *)

LEMMA NewDocType == ASSUME NEW ent \in Entities PROVE NewDoc(ent) \in Doc
  BY RecordsAssumption DEF NewDoc, Doc

LEMMA EditedType ==
  ASSUME NEW ent \in Entities, NEW doc \in Doc, NEW edit \in Edits
  PROVE  Edited(ent, doc, edit) \in Doc
  BY RecordsAssumption DEF Edited, Doc

LEMMA LeastNatural ==
  ASSUME NEW S \in SUBSET Nat, S # {}
  PROVE  \E n \in S : \A m \in S : n <= m
<1> DEFINE R == {ss \in Nat \X Nat : ss[1] < ss[2]}
<1>1. IsWellFoundedOn(R, Nat)
  BY NatLessThanWellFounded DEF OpToRel
<1>2. PICK n \in S : \A m \in S : ~(<<m, n>> \in R)
  BY <1>1, WFMin
<1>3. ASSUME NEW m \in S PROVE n <= m
  <2>1. n \in Nat /\ m \in Nat
    OBVIOUS
  <2>2. m < n => <<m, n>> \in R
    BY <2>1
  <2>3. QED
    BY <1>2, <2>1, <2>2
<1>4. QED
  BY <1>3

(* A derived id is an id, and no file is stored under it.                  *)
LEMMA DerivedIdFree ==
  ASSUME NEW slots \in [Ids -> Slot], NEW base \in Bases,
         FreeProbes(slots, base) # {}
  PROVE  DerivedId(slots, base) \in Ids /\ slots[DerivedId(slots, base)] = NoDoc
<1> DEFINE F == FreeProbes(slots, base)
<1>1. Probe[base] \in Seq(Ids)
  BY RecordsAssumption
<1>2. F \in SUBSET Nat /\ F \subseteq DOMAIN Probe[base]
  BY <1>1 DEF FreeProbes
<1>3. PICK n \in F : \A m \in F : n <= m
  BY <1>2, LeastNatural
<1> DEFINE k == CHOOSE x \in F : \A m \in F : x <= m
<1>4. k \in F
  BY <1>3
<1>5. DerivedId(slots, base) = Probe[base][k]
  BY DEF DerivedId
<1>6. slots[Probe[base][k]] = NoDoc
  BY <1>4 DEF FreeProbes
<1>7. k \in DOMAIN Probe[base]
  BY <1>2, <1>4
<1> HIDE DEF k
<1>8. Probe[base][k] \in Ids
  BY <1>1, <1>7
<1>9. QED
  BY <1>5, <1>6, <1>8

LEMMA StatusType ==
  ASSUME NEW ent, NEW slot
  PROVE  /\ LookupStatus(ent, slot) \in {"not_found", "parse_error", "ok"}
         /\ RemoveStatus(ent, slot) \in {"not_found", "parse_error", "ok"}
  BY DEF LookupStatus, RemoveStatus

LEMMA FoundIsDoc ==
  ASSUME NEW ent, NEW slot \in Slot, LookupStatus(ent, slot) = "ok"
  PROVE  slot \in Doc /\ Admits(ent, slot)
  BY DEF LookupStatus, Slot

LEMMA AnswerType ==
  ASSUME NEW status \in Status, NEW val \in Ids \cup Slot
  PROVE  Answered(status, val) \in Answer
  BY DEF Answered, Answer

LEMMA AnswersDiffer ==
  ASSUME NEW status \in Status \ {"none", "pending"}, NEW val
  PROVE  Answered(status, val) \notin {NoAnswer, Pending}
  BY DEF Answered, NoAnswer, Pending

-----------------------------------------------------------------------------
(* Types and the shape of a call.                                          *)

Inv == TypeOK /\ CallShape

LEMMA SentinelTypes ==
  /\ NoDraft \in Draft /\ NoPage \in Render
  /\ NoAnswer \in Answer /\ Pending \in Answer /\ NoAnswer # Pending
  /\ NoDoc \in Slot /\ NoIndex \in Page \cup {NoIndex, Foreign}
  BY RecordsAssumption DEF NoDraft, Draft, NoPage, Render, NoAnswer, Pending,
     Answered, Answer, Status, Slot

LEMMA InitInv == Init => Inv
<1> SUFFICES ASSUME Init PROVE Inv
  OBVIOUS
<1>1. TypeOK
  <2>1. /\ files \in [Dirs -> [Ids -> Slot]]
        /\ index \in [Dirs -> Page \cup {NoIndex, Foreign}]
        /\ stale \in SUBSET Dirs /\ doubt \in SUBSET Dirs
        /\ lock \in Clients \cup {Nobody} /\ poisoned \in BOOLEAN
    BY SentinelTypes DEF Init
  <2>2. /\ pc \in [Clients -> Steps]
        /\ req \in [Clients -> Request \cup {NoRequest}]
        /\ res \in [Clients -> Answer]
    BY SentinelTypes DEF Init, Steps
  <2>3. /\ draft \in [Clients -> Draft]
        /\ todo \in [Clients -> SUBSET Dirs]
        /\ page \in [Clients -> Render]
    BY SentinelTypes DEF Init
  <2>4. calls \in 0..MaxCalls /\ crashes \in 0..MaxCrashes /\ hands \in 0..MaxHandEdits
    BY VaultAssumption DEF Init
  <2>5. QED
    BY <2>1, <2>2, <2>3, <2>4 DEF TypeOK
<1>2. CallShape
  BY DEF Init, CallShape
<1>3. QED
  BY <1>1, <1>2 DEF Inv

(* A directory's listing is nothing exactly when it holds nothing, and     *)
(* whatever is rendered is a listing of the store's shape or nothing.      *)
LEMMA ListingType ==
  ASSUME NEW docs \in [Ids -> Slot], NEW subs \in SUBSET (Dirs \ {Root})
  PROVE  /\ Listing(docs, subs) \in Page \cup {NoIndex}
         /\ Listing(docs, subs) = NoIndex <=> subs = {} /\ \A i \in Ids : docs[i] = NoDoc
         /\ Listing(docs, subs) # NoIndex =>
              Listing(docs, subs) = [docs |-> docs, subs |-> subs, log |-> FALSE]
<1>1. [docs |-> docs, subs |-> subs, log |-> FALSE] \in Page
  BY DEF Page
<1>2. QED
  BY <1>1, IndexAssumption DEF Listing

LEMMA RenderedShape ==
  ASSUME files \in [Dirs -> [Ids -> Slot]], NEW d \in Dirs, NEW body \in Rendered(d)
  PROVE  /\ body \in Page \cup {NoIndex}
         /\ Wanted(d) = NoIndex <=> ~Holds(d)
         /\ ~Holds(d) => body = NoIndex
         /\ "stat" \notin SilentFaults /\ Holds(d) =>
              /\ body # NoIndex /\ body.subs = Subdirs(d)
              /\ \A i \in Ids : body.docs[i] = NoDoc <=> files[d][i] = NoDoc
<1>1. Subdirs(d) \subseteq Dirs \ {Root} /\ files[d] \in [Ids -> Slot]
  BY DEF Subdirs
<1>2. Wanted(d) = NoIndex <=> ~Holds(d)
  BY <1>1, ListingType DEF Wanted, Holds, HasRecords
<1>3. CASE body = NoIndex /\ "stat" \in SilentFaults
  BY <1>2, <1>3
<1>4. ASSUME NEW unread \in SUBSET {i \in Ids : files[d][i] # NoDoc}, NEW subs \in SUBSET Subdirs(d),
             "stat" \notin SilentFaults => subs = Subdirs(d),
             body = Listing([i \in Ids |-> IF i \in unread THEN Broken ELSE files[d][i]], subs)
      PROVE  /\ body \in Page \cup {NoIndex}
             /\ ~Holds(d) => body = NoIndex
             /\ "stat" \notin SilentFaults /\ Holds(d) =>
                  /\ body # NoIndex /\ body.subs = Subdirs(d)
                  /\ \A i \in Ids : body.docs[i] = NoDoc <=> files[d][i] = NoDoc
  <2> DEFINE docs == [i \in Ids |-> IF i \in unread THEN Broken ELSE files[d][i]]
  <2>1. docs \in [Ids -> Slot] /\ subs \in SUBSET (Dirs \ {Root})
    BY <1>1 DEF Slot
  <2>2. \A i \in Ids : docs[i] = NoDoc <=> files[d][i] = NoDoc
    BY SentinelAssumption
  <2> HIDE DEF docs
  <2>3. body = Listing(docs, subs)
    BY <1>4 DEF docs
  <2>4. ~Holds(d) => subs = {} /\ \A i \in Ids : docs[i] = NoDoc
    BY <2>2 DEF Holds, HasRecords
  <2>5. "stat" \notin SilentFaults /\ Holds(d) => ~(subs = {} /\ \A i \in Ids : docs[i] = NoDoc)
    BY <1>4, <2>2 DEF Holds, HasRecords
  <2>6. body # NoIndex => body = [docs |-> docs, subs |-> subs, log |-> FALSE]
    BY <2>1, <2>3, ListingType
  <2>7. body \in Page \cup {NoIndex} /\ (~Holds(d) => body = NoIndex)
    BY <2>1, <2>3, <2>4, ListingType
  <2>8. ASSUME "stat" \notin SilentFaults, Holds(d)
        PROVE  /\ body # NoIndex /\ body.subs = Subdirs(d)
               /\ \A i \in Ids : body.docs[i] = NoDoc <=> files[d][i] = NoDoc
    <3>1. body # NoIndex
      BY <2>1, <2>3, <2>5, <2>8, ListingType
    <3>2. body.subs = subs /\ body.docs = docs
      BY <2>6, <3>1
    <3>3. QED
      BY <1>4, <2>2, <2>8, <3>1, <3>2
  <2>9. QED
    BY <2>7, <2>8
<1>5. CASE \E unread \in Unread(d), subs \in Seen(d) :
             body = Listing([i \in Ids |-> IF i \in unread THEN Broken ELSE files[d][i]], subs)
  <2>1. PICK unread \in SUBSET {i \in Ids : files[d][i] # NoDoc}, subs \in SUBSET Subdirs(d) :
          /\ "stat" \notin SilentFaults => subs = Subdirs(d)
          /\ body = Listing([i \in Ids |-> IF i \in unread THEN Broken ELSE files[d][i]], subs)
    BY <1>5 DEF Unread, Seen
  <2>2. QED
    BY <1>2, <1>4, <2>1
<1>6. \/ \E unread \in Unread(d), subs \in Seen(d) :
           body = Listing([i \in Ids |-> IF i \in unread THEN Broken ELSE files[d][i]], subs)
      \/ body = NoIndex /\ "stat" \in SilentFaults
  BY DEF Rendered
<1>7. QED
  BY <1>3, <1>5, <1>6

LEMMA CallInv ==
  ASSUME Inv, NEW c \in Clients, Call(c) PROVE Inv'
<1>1. PICK r \in Request : req' = [req EXCEPT ![c] = r]
                         /\ Go(c, "idle", IF r.op = "read" THEN "read" ELSE "wait")
  BY DEF Call
<1>2. r.op = "read" => r \in LookupRequest
  BY DEF Request, CreateRequest, DeriveRequest, ModifyRequest, LookupRequest, RebuildRequest
<1>3. TypeOK'
  BY <1>1, SentinelTypes, VaultAssumption
     DEF Inv, TypeOK, Call, Go, Reply, Pending, Steps, disk
<1>4. CallShape'
  BY <1>1, <1>2 DEF Inv, TypeOK, CallShape, Call, Go, Reply, Pending, Rebuilding
<1>5. QED
  BY <1>3, <1>4 DEF Inv

LEMMA RequestShape ==
  ASSUME NEW r \in Request
  PROVE  /\ r.op = "create" => r \in CreateRequest
         /\ r.op = "derive" => r \in DeriveRequest
         /\ r.op = "modify" => r \in ModifyRequest
         /\ r.op \in {"remove", "read"} => r \in LookupRequest
         /\ r.op = "rebuild" => r \in RebuildRequest
  BY DEF Request, CreateRequest, DeriveRequest, ModifyRequest, LookupRequest, RebuildRequest

LEMMA AcquireInv ==
  ASSUME Inv, NEW c \in Clients, Acquire(c) PROVE Inv'
<1>1. TypeOK'
  BY DEF Inv, TypeOK, Acquire, Go, Steps, disk, spent
<1>2. CallShape'
  BY DEF Inv, TypeOK, CallShape, Acquire, Go, Rebuilding
<1>3. QED
  BY <1>1, <1>2 DEF Inv

(* Ending a write before it changed the disk.                              *)
LEMMA FinishInv ==
  ASSUME Inv, NEW c \in Clients, NEW from, NEW status \in Status \ {"none", "pending"},
         Finish(c, from, status, NoDoc), poisoned' \in BOOLEAN,
         draft' \in {draft, [draft EXCEPT ![c] = NoDraft]}
  PROVE  Inv'
<1>1. TypeOK'
  <2>1. Answered(status, NoDoc) \in Answer
    BY AnswerType, SentinelTypes
  <2>2. QED
    BY <2>1, SentinelTypes DEF Inv, TypeOK, Finish, Unlock, Go, Reply, Steps, spent
<1>2. CallShape'
  <2>1. Answered(status, NoDoc) \notin {NoAnswer, Pending}
    BY AnswersDiffer
  <2>2. QED
    BY <2>1 DEF Inv, TypeOK, CallShape, Finish, Unlock, Go, Reply, Rebuilding
<1>3. QED
  BY <1>1, <1>2 DEF Inv

LEMMA RefuseInv ==
  ASSUME Inv, NEW c \in Clients, NEW status \in Status \ {"none", "pending"},
         Refuse(c, status)
  PROVE  Inv'
  BY FinishInv DEF Refuse, Inv, TypeOK

LEMMA DecideInv ==
  ASSUME Inv, NEW c \in Clients, NEW id \in Ids, NEW slot \in Doc \cup {NoDoc},
         req[c] \in CreateRequest \cup DeriveRequest \cup ModifyRequest \cup LookupRequest,
         req[c].op # "read", Decide(c, id, slot)
  PROVE  Inv'
<1>1. TypeOK'
  BY DEF Inv, TypeOK, Decide, Go, Steps, Draft, disk, spent
<1>2. CallShape'
  BY DEF Inv, TypeOK, CallShape, Decide, Go, Rebuilding
<1>3. QED
  BY <1>1, <1>2 DEF Inv

(* The record a client's request is about, and its directory.              *)
LEMMA RequestRange ==
  ASSUME Inv, NEW c \in Clients,
         req[c] \in CreateRequest \cup DeriveRequest \cup ModifyRequest \cup LookupRequest
  PROVE  /\ req[c].ent \in Entities /\ req[c].ent.dir \in Dirs
         /\ Slots(c) \in [Ids -> Slot]
         /\ req[c].op = "derive" => req[c].base \in Bases
         /\ req[c].op # "derive" => req[c].id \in Ids
         /\ req[c].op = "modify" => req[c].edit \in Edits
<1>1. req[c].ent \in Entities /\ req[c].ent.dir \in Dirs
  BY RecordsAssumption DEF CreateRequest, DeriveRequest, ModifyRequest, LookupRequest
<1>2. Slots(c) \in [Ids -> Slot]
  BY <1>1 DEF Slots, Inv, TypeOK
<1>3. QED
  BY <1>1, <1>2 DEF CreateRequest, DeriveRequest, ModifyRequest, LookupRequest

LEMMA LockedRequest ==
  ASSUME Inv, NEW c \in Clients, pc[c] = "locked", req[c].op # "rebuild"
  PROVE  req[c] \in CreateRequest \cup DeriveRequest \cup ModifyRequest \cup LookupRequest
  BY DEF Inv, CallShape, Request, RebuildRequest

LEMMA CreateInv ==
  ASSUME Inv, NEW c \in Clients, pc[c] = "locked", Create(c) PROVE Inv'
<1>1. req[c].op = "create" /\ req[c].op # "rebuild" /\ req[c].op # "read"
  BY DEF Create
<1>2. CASE Decide(c, req[c].id, NewDoc(req[c].ent))
  BY <1>1, <1>2, LockedRequest, RequestRange, NewDocType, DecideInv
<1>3. CASE Refuse(c, "already_exists")
  BY <1>3, RefuseInv DEF Status
<1>4. QED
  BY <1>2, <1>3 DEF Create

LEMMA DeriveInv ==
  ASSUME Inv, NEW c \in Clients, pc[c] = "locked", Derive(c) PROVE Inv'
<1>1. req[c].op = "derive" /\ req[c].op # "rebuild" /\ req[c].op # "read"
  BY DEF Derive
<1>2. /\ req[c] \in CreateRequest \cup DeriveRequest \cup ModifyRequest \cup LookupRequest
      /\ req[c].ent \in Entities /\ req[c].base \in Bases /\ Slots(c) \in [Ids -> Slot]
  BY <1>1, LockedRequest, RequestRange
<1>3. DerivedId(Slots(c), req[c].base) \in Ids
  BY <1>2, DerivedIdFree DEF Derive
<1>4. NewDoc(req[c].ent) \in Doc
  BY <1>2, NewDocType
<1>5. QED
  BY <1>1, <1>2, <1>3, <1>4, DecideInv DEF Derive

LEMMA ModifyInv ==
  ASSUME Inv, NEW c \in Clients, pc[c] = "locked", Modify(c) PROVE Inv'
<1> DEFINE ent == req[c].ent
           old == Slots(c)[req[c].id]
           status == LookupStatus(ent, old)
           new == Edited(ent, old, req[c].edit)
<1>1. req[c].op = "modify" /\ req[c].op # "rebuild" /\ req[c].op # "read"
  BY DEF Modify
<1>2. /\ req[c] \in CreateRequest \cup DeriveRequest \cup ModifyRequest \cup LookupRequest
      /\ ent \in Entities /\ req[c].id \in Ids /\ req[c].edit \in Edits /\ old \in Slot
  BY <1>1, LockedRequest, RequestRange
<1>3. CASE \E s \in {status, "refused", "ok"} : Refuse(c, s)
  BY <1>3, StatusType, RefuseInv DEF Status
<1>4. CASE status = "ok" /\ Decide(c, req[c].id, new)
  <2>1. new \in Doc
    BY <1>2, <1>4, FoundIsDoc, EditedType
  <2>2. QED
    BY <1>1, <1>2, <1>4, <2>1, DecideInv
<1>5. CASE Finish(c, "locked", "panicked", NoDoc) /\ poisoned' = TRUE /\ UNCHANGED draft
  BY <1>5, FinishInv DEF Status
<1>6. QED
  BY <1>3, <1>4, <1>5 DEF Modify

LEMMA RemoveInv ==
  ASSUME Inv, NEW c \in Clients, pc[c] = "locked", Remove(c) PROVE Inv'
<1> DEFINE status == RemoveStatus(req[c].ent, Slots(c)[req[c].id])
<1>1. req[c].op = "remove" /\ req[c].op # "rebuild" /\ req[c].op # "read"
  BY DEF Remove
<1>2. CASE Refuse(c, status)
  BY <1>2, StatusType, RefuseInv DEF Status
<1>3. CASE Decide(c, req[c].id, NoDoc)
  BY <1>1, <1>3, LockedRequest, RequestRange, DecideInv
<1>4. QED
  BY <1>2, <1>3 DEF Remove

LEMMA LookFailsInv ==
  ASSUME Inv, NEW c \in Clients, LookFails(c) PROVE Inv'
  BY RefuseInv DEF LookFails, Status

(* The id under which a write is about to commit.                          *)
LEMMA DraftRange ==
  ASSUME Inv, NEW c \in Clients, pc[c] = "commit"
  PROVE  /\ req[c].ent.dir \in Dirs
         /\ draft[c].id \in Ids /\ draft[c].slot \in Doc \cup {NoDoc}
  BY RequestRange DEF Inv, CallShape

LEMMA CommitInv ==
  ASSUME Inv, NEW c \in Clients, Commit(c) PROVE Inv'
<1> DEFINE val == IF req[c].op \in {"create", "derive"} THEN draft[c].id ELSE NoDoc
<1>1. /\ pc[c] = "commit" /\ req[c].ent.dir \in Dirs
      /\ draft[c].id \in Ids /\ draft[c].slot \in Slot
  BY DraftRange DEF Commit, Slot
<1>2. Answered("ok", val) \in Answer
  BY <1>1, AnswerType, SentinelTypes DEF Status
<1>3. Answered("ok", val) \notin {NoAnswer, Pending}
  BY AnswersDiffer DEF Status
<1>4. res' = [res EXCEPT ![c] = Answered("ok", val)]
  BY DEF Commit, Reply
<1> HIDE DEF val
<1>5. /\ files' \in [Dirs -> [Ids -> Slot]]
      /\ index' = index /\ stale' = stale /\ doubt' = doubt
      /\ lock' \in Clients \cup {Nobody} /\ poisoned' = poisoned
  BY <1>1 DEF Inv, TypeOK, Commit, Unlock
<1>6. \E to \in {"render", "done"} : pc' = [pc EXCEPT ![c] = to]
  BY DEF Commit, Unlock, Go
<1>7. /\ req' = req /\ page' = page /\ spent' = spent
      /\ draft' = [draft EXCEPT ![c] = NoDraft]
  BY DEF Commit
<1>8. todo' \in [Clients -> SUBSET Dirs]
  <2>1. Chain(req[c].ent.dir) \in SUBSET Dirs
    BY <1>1, RecordsAssumption DEF Chain
  <2>2. todo' \in {todo, [todo EXCEPT ![c] = Chain(req[c].ent.dir)]}
    BY DEF Commit
  <2>3. QED
    BY <2>1, <2>2 DEF Inv, TypeOK
<1>9. TypeOK'
  BY <1>2, <1>4, <1>5, <1>6, <1>7, <1>8, SentinelTypes DEF Inv, TypeOK, Steps, spent
<1>10. CallShape'
  <2>1. req[c] \in Request /\ ~Rebuilding(c)
    BY <1>1 DEF Inv, CallShape, Request, Rebuilding, CreateRequest, DeriveRequest, ModifyRequest, LookupRequest
  <2>2. QED
    BY <1>1, <1>3, <1>4, <1>6, <1>7, <2>1 DEF Inv, TypeOK, CallShape, Rebuilding
<1>11. QED
  BY <1>9, <1>10 DEF Inv

LEMMA CommitFailsInv ==
  ASSUME Inv, NEW c \in Clients, CommitFails(c) PROVE Inv'
  BY FinishInv DEF CommitFails, Status, Inv, TypeOK

LEMMA ReadInv ==
  ASSUME Inv, NEW c \in Clients, Read(c) PROVE Inv'
<1> DEFINE slot == Slots(c)[req[c].id]
           status == LookupStatus(req[c].ent, slot)
<1>1. pc[c] = "read" /\ req[c] \in LookupRequest /\ slot \in Slot
  <2>1. pc[c] = "read" /\ req[c] \in LookupRequest
    BY DEF Inv, CallShape, Read, Go
  <2>2. req[c].op # "derive"
    BY <2>1 DEF LookupRequest
  <2>3. QED
    BY <2>1, <2>2, RequestRange
<1>2. PICK s \in {"ok", "not_found", "parse_error", "io_error"}, v \in Slot :
        res' = [res EXCEPT ![c] = Answered(s, v)]
  BY <1>1, StatusType, SentinelTypes DEF Read, Reply
<1>3. Answered(s, v) \in Answer /\ Answered(s, v) \notin {NoAnswer, Pending}
  BY AnswerType, AnswersDiffer DEF Status
<1>4. TypeOK'
  BY <1>2, <1>3 DEF Inv, TypeOK, Read, Go, Steps, disk, spent
<1>5. CallShape'
  BY <1>2, <1>3 DEF Inv, TypeOK, CallShape, Read, Go, Rebuilding
<1>6. QED
  BY <1>4, <1>5 DEF Inv

LEMMA ReturnInv ==
  ASSUME Inv, NEW c \in Clients, Return(c) PROVE Inv'
<1>1. TypeOK'
  BY SentinelTypes DEF Inv, TypeOK, Return, Go, Steps, disk, spent
<1>2. CallShape'
  BY DEF Inv, TypeOK, CallShape, Return, Go, Rebuilding
<1>3. QED
  BY <1>1, <1>2 DEF Inv

LEMMA RebuildScanInv ==
  ASSUME Inv, NEW c \in Clients, RebuildScan(c) PROVE Inv'
<1>1. TypeOK'
  BY DEF Inv, TypeOK, RebuildScan, Go, Steps, disk, spent
<1>2. CallShape'
  <2>1. pc[c] = "locked" /\ req[c] \in Request /\ Rebuilding(c)
    BY DEF Inv, CallShape, RebuildScan, Go
  <2>2. req[c] \in RebuildRequest
    BY <2>1, RequestShape DEF Rebuilding
  <2>3. QED
    BY <2>1, <2>2 DEF Inv, TypeOK, CallShape, RebuildScan, Go, Rebuilding
<1>3. QED
  BY <1>1, <1>2 DEF Inv

(* What rendering one index does.                                          *)
LEMMA Rendering ==
  ASSUME Inv, NEW c \in Clients, RenderIndex(c)
  PROVE  \E d \in todo[c] : \E body \in Rendered(d) :
           /\ d \in Dirs /\ body \in Page \cup {NoIndex}
           /\ page' = [page EXCEPT ![c] = [dir |-> d, body |-> body, failed |-> body # Wanted(d)]]
           /\ todo' = [todo EXCEPT ![c] = @ \ {d}]
<1>1. PICK d \in todo[c] :
        /\ todo' = [todo EXCEPT ![c] = @ \ {d}]
        /\ \E body \in Rendered(d) :
             page' = [page EXCEPT ![c] = [dir |-> d, body |-> body, failed |-> body # Wanted(d)]]
  BY DEF RenderIndex
<1>2. PICK body \in Rendered(d) :
        page' = [page EXCEPT ![c] = [dir |-> d, body |-> body, failed |-> body # Wanted(d)]]
  BY <1>1
<1>3. d \in Dirs
  BY <1>1 DEF Inv, TypeOK
<1>4. body \in Page \cup {NoIndex}
  BY <1>3, RenderedShape DEF Inv, TypeOK
<1>5. QED
  BY <1>1, <1>2, <1>3, <1>4

LEMMA RenderIndexInv ==
  ASSUME Inv, NEW c \in Clients, RenderIndex(c) PROVE Inv'
<1>1. todo' \in [Clients -> SUBSET Dirs] /\ page' \in [Clients -> Render]
  <2>1. PICK d \in todo[c], body \in Page \cup {NoIndex}, failed \in BOOLEAN :
          /\ d \in Dirs
          /\ page' = [page EXCEPT ![c] = [dir |-> d, body |-> body, failed |-> failed]]
          /\ todo' = [todo EXCEPT ![c] = @ \ {d}]
    BY Rendering
  <2>2. [dir |-> d, body |-> body, failed |-> failed] \in Render
    BY <2>1 DEF Render
  <2>3. QED
    BY <2>1, <2>2 DEF Inv, TypeOK
<1>2. TypeOK'
  BY <1>1 DEF Inv, TypeOK, RenderIndex, Go, Steps, disk, spent
<1>3. CallShape'
  BY DEF Inv, TypeOK, CallShape, RenderIndex, Go, Rebuilding
<1>4. QED
  BY <1>2, <1>3 DEF Inv

(* Where the visit of one index leaves the client.                         *)
LEMMA NextIndexRange ==
  ASSUME Inv, NEW c \in Clients, NextIndex(c)
  PROVE  /\ pc[c] = "index"
         /\ \E to \in {"render", "sweep", "done"} :
              /\ pc' = [pc EXCEPT ![c] = to]
              /\ to = "sweep" => Rebuilding(c)
              /\ to = "done" => ~Rebuilding(c)
         /\ todo' \in [Clients -> SUBSET Dirs]
         /\ lock' \in {lock, Nobody}
  BY DEF Inv, TypeOK, NextIndex, Unlock, Go

LEMMA SyncIndexInv ==
  ASSUME Inv, NEW c \in Clients, SyncIndex(c) PROVE Inv'
<1>1. NextIndex(c)
  BY DEF SyncIndex
<1>2. index' \in [Dirs -> Page \cup {NoIndex, Foreign}] /\ doubt' \in SUBSET Dirs
  BY DEF Inv, TypeOK, SyncIndex, RemoveIfDangling, Visited, Render
<1>3. TypeOK'
  BY <1>1, <1>2, NextIndexRange, SentinelTypes DEF Inv, TypeOK, SyncIndex, Steps, spent
<1>4. CallShape'
  <2>1. Rebuilding(c) => req[c] \in RebuildRequest
    BY <1>1, NextIndexRange, RequestShape DEF Inv, CallShape, Rebuilding
  <2>2. QED
    BY <1>1, <2>1, NextIndexRange DEF Inv, TypeOK, CallShape, SyncIndex, Rebuilding
<1>5. QED
  BY <1>3, <1>4 DEF Inv

LEMMA SyncIndexFailsInv ==
  ASSUME Inv, NEW c \in Clients, SyncIndexFails(c) PROVE Inv'
<1> DEFINE failed == Answered("io_error", NoDoc)
<1>1. failed \in Answer /\ failed \notin {NoAnswer, Pending}
  BY AnswerType, AnswersDiffer, SentinelTypes DEF Status
<1> HIDE DEF failed
<1>2. stale' \in SUBSET Dirs /\ page' \in [Clients -> Render]
  BY SentinelTypes DEF Inv, TypeOK, SyncIndexFails, Render
<1>3. CASE Rebuilding(c)
  <2>1. /\ pc[c] = "index" /\ pc' = [pc EXCEPT ![c] = "done"]
        /\ lock' = Nobody /\ res' = [res EXCEPT ![c] = failed]
        /\ todo' = [todo EXCEPT ![c] = {}]
        /\ UNCHANGED <<disk, doubt, poisoned, req, draft, spent>>
    BY <1>3 DEF SyncIndexFails, Unlock, Go, Reply, failed
  <2>2. TypeOK'
    BY <1>1, <1>2, <2>1 DEF Inv, TypeOK, Steps, disk, spent
  <2>3. CallShape'
    BY <1>1, <2>1 DEF Inv, TypeOK, CallShape, Rebuilding
  <2>4. QED
    BY <2>2, <2>3 DEF Inv
<1>4. CASE ~Rebuilding(c)
  <2>1. NextIndex(c) /\ UNCHANGED <<res, disk, doubt, poisoned, req, draft, spent>>
    BY <1>4 DEF SyncIndexFails
  <2>2. TypeOK'
    BY <1>2, <2>1, NextIndexRange DEF Inv, TypeOK, Steps, disk, spent
  <2>3. CallShape'
    BY <1>4, <2>1, NextIndexRange DEF Inv, TypeOK, CallShape, Rebuilding
  <2>4. QED
    BY <2>2, <2>3 DEF Inv
<1>5. QED
  BY <1>3, <1>4

LEMMA SweepInv ==
  ASSUME Inv, NEW c \in Clients, Sweep(c) \/ SweepFails(c) PROVE Inv'
<1>1. CASE SweepFails(c)
  BY <1>1, FinishInv DEF SweepFails, Status, Inv, TypeOK
<1>2. CASE Sweep(c)
  <2>1. /\ index' \in [Dirs -> Page \cup {NoIndex, Foreign}]
        /\ todo' \in [Clients -> SUBSET Dirs] /\ doubt' \in SUBSET Dirs
    BY <1>2 DEF Sweep, RemoveIfDangling, Visited, Inv, TypeOK
  <2>2. TypeOK' /\ CallShape'
    BY <1>2, <2>1 DEF Sweep, Inv, TypeOK, CallShape, Rebuilding, spent
  <2>3. QED
    BY <2>2 DEF Inv
<1>3. QED
  BY <1>1, <1>2

LEMMA RebuildDoneInv ==
  ASSUME Inv, NEW c \in Clients, RebuildDone(c) PROVE Inv'
<1> DEFINE done == Answered("ok", NoDoc)
<1>1. done \in Answer /\ done \notin {NoAnswer, Pending}
  BY AnswerType, AnswersDiffer, SentinelTypes DEF Status
<1>2. res' = [res EXCEPT ![c] = done]
  BY DEF RebuildDone, Reply
<1> HIDE DEF done
<1>3. TypeOK'
  BY <1>1, <1>2 DEF Inv, TypeOK, RebuildDone, Unlock, Go, Steps, disk, spent
<1>4. CallShape'
  BY <1>1, <1>2 DEF Inv, TypeOK, CallShape, RebuildDone, Unlock, Go, Rebuilding
<1>5. QED
  BY <1>3, <1>4 DEF Inv

LEMMA CrashInv == ASSUME Inv, Crash PROVE Inv'
<1>1. TypeOK'
  <2>1. /\ pc' \in [Clients -> Steps] /\ req' \in [Clients -> Request \cup {NoRequest}]
        /\ res' \in [Clients -> Answer] /\ draft' \in [Clients -> Draft]
        /\ todo' \in [Clients -> SUBSET Dirs] /\ page' \in [Clients -> Render]
    BY SentinelTypes DEF Crash, Steps
  <2>2. crashes' \in 0..MaxCrashes
    BY VaultAssumption DEF Inv, TypeOK, Crash
  <2>3. QED
    BY <2>1, <2>2 DEF Inv, TypeOK, Crash, disk
<1>2. CallShape'
  BY DEF Crash, CallShape
<1>3. QED
  BY <1>1, <1>2 DEF Inv

LEMMA HandEditInv == ASSUME Inv, HandEdit PROVE Inv'
<1>1. files' \in [Dirs -> [Ids -> Slot]]
  <2>1. CASE UNCHANGED files
    BY <2>1 DEF Inv, TypeOK
  <2>2. ASSUME NEW d \in Dirs, NEW i \in Ids, NEW slot \in HandSlots,
               files' = [files EXCEPT ![d] = [@ EXCEPT ![i] = slot]]
        PROVE  files' \in [Dirs -> [Ids -> Slot]]
    BY <2>2, VaultAssumption DEF Inv, TypeOK
  <2>3. QED
    BY <2>1, <2>2 DEF HandEdit
<1>2. index' \in [Dirs -> Page \cup {NoIndex, Foreign}]
  BY IndexAssumption DEF Inv, TypeOK, HandEdit
<1>3. hands' \in 0..MaxHandEdits
  BY VaultAssumption DEF Inv, TypeOK, HandEdit
<1>4. TypeOK'
  BY <1>1, <1>2, <1>3 DEF Inv, TypeOK, HandEdit, local
<1>5. CallShape'
  BY DEF Inv, CallShape, HandEdit, local, Rebuilding
<1>6. QED
  BY <1>4, <1>5 DEF Inv

LEMMA StepInv ==
  ASSUME Inv, NEW c \in Clients, Step(c) PROVE Inv'
<1>1. CASE pc[c] = "locked" /\ (Create(c) \/ Derive(c) \/ Modify(c) \/ Remove(c)
                               \/ RebuildScan(c) \/ LookFails(c))
  BY <1>1, CreateInv, DeriveInv, ModifyInv, RemoveInv, RebuildScanInv, LookFailsInv
<1>2. CASE Acquire(c) \/ Commit(c) \/ CommitFails(c) \/ Read(c) \/ Return(c)
  BY <1>2, AcquireInv, CommitInv, CommitFailsInv, ReadInv, ReturnInv
<1>3. CASE RenderIndex(c) \/ SyncIndex(c) \/ SyncIndexFails(c)
           \/ Sweep(c) \/ SweepFails(c) \/ RebuildDone(c)
  BY <1>3, RenderIndexInv, SyncIndexInv, SyncIndexFailsInv, SweepInv, RebuildDoneInv
<1>4. QED
  BY <1>1, <1>2, <1>3 DEF Step

LEMMA NextInv == Inv /\ [Next]_vars => Inv'
<1> SUFFICES ASSUME Inv, [Next]_vars PROVE Inv'
  OBVIOUS
<1>1. CASE UNCHANGED vars
  BY <1>1 DEF Inv, TypeOK, CallShape, vars, local, spent, Rebuilding
<1>2. CASE Next
  BY <1>1, <1>2, CallInv, StepInv, CrashInv, HandEditInv DEF Next, Quiesce
<1>3. QED
  BY <1>1, <1>2

LEMMA InvInvariant == Spec => []Inv
  BY InitInv, NextInv, PTL DEF Spec

(* Every variable keeps its type, whatever calls, faults, crashes and      *)
(* hand edits come in whatever order.                                      *)
THEOREM TypeCorrect == Spec => []TypeOK
<1>1. Inv => TypeOK
  BY DEF Inv
<1>2. QED
  BY <1>1, InvInvariant, PTL

-----------------------------------------------------------------------------
(* The write lock.                                                         *)

(* How the lock moves: a client takes it when it is free and enters a      *)
(* write, keeps it while it stays in the write, and gives it back when it  *)
(* leaves.                                                                 *)
LockMoves(c) ==
  \E to \in Steps :
    /\ pc' = [pc EXCEPT ![c] = to]
    /\ \/ pc[c] \notin Critical /\ to \notin Critical /\ lock' = lock
       \/ pc[c] \notin Critical /\ to \in Critical /\ lock = Nobody /\ lock' = c
       \/ pc[c] \in Critical /\ to \in Critical /\ lock' = lock
       \/ pc[c] \in Critical /\ to \notin Critical /\ lock' = Nobody

LEMMA StepMovesLock ==
  ASSUME Inv, NEW c \in Clients, Call(c) \/ Step(c) PROVE LockMoves(c)
<1> USE DEF LockMoves, Steps, Critical, Go
<1>1. CASE Call(c)
  BY <1>1 DEF Call
<1>2. CASE Acquire(c)
  BY <1>2 DEF Acquire
<1>3. CASE Create(c) \/ Derive(c) \/ Modify(c) \/ Remove(c) \/ LookFails(c)
  BY <1>3 DEF Create, Derive, Modify, Remove, LookFails, Decide, Refuse, Finish, Unlock
<1>4. CASE Commit(c) \/ CommitFails(c)
  BY <1>4 DEF Commit, CommitFails, Finish, Unlock
<1>5. CASE Read(c) \/ Return(c)
  BY <1>5 DEF Read, Return
<1>6. CASE RebuildScan(c) \/ RenderIndex(c) \/ RebuildDone(c)
  BY <1>6 DEF RebuildScan, RenderIndex, RebuildDone, Unlock
<1>7. CASE SyncIndex(c) \/ SyncIndexFails(c)
  BY <1>7 DEF SyncIndex, SyncIndexFails, NextIndex, Unlock
<1>8. CASE Sweep(c) \/ SweepFails(c)
  <2>1. pc[c] = "sweep" /\ (UNCHANGED <<lock, pc>> \/ Unlock(c, "sweep"))
    BY <1>8 DEF Sweep, SweepFails, Finish, Unlock
  <2>2. pc = [pc EXCEPT ![c] = pc[c]]
    BY DEF Inv, TypeOK
  <2>3. QED
    BY <2>1, <2>2 DEF Unlock
<1>9. QED
  BY <1>1, <1>2, <1>3, <1>4, <1>5, <1>6, <1>7, <1>8 DEF Step

LEMMA NextLockHeld == Inv /\ LockHeld /\ [Next]_vars => LockHeld'
<1> SUFFICES ASSUME Inv, LockHeld, [Next]_vars PROVE LockHeld'
  OBVIOUS
<1>1. ASSUME NEW c \in Clients, LockMoves(c) PROVE LockHeld'
  BY <1>1, VaultAssumption DEF LockMoves, LockHeld, Inv, TypeOK
<1>2. CASE Crash
  BY <1>2, VaultAssumption DEF Crash, LockHeld, Critical
<1>3. CASE HandEdit \/ Quiesce \/ UNCHANGED vars
  BY <1>3 DEF HandEdit, Quiesce, vars, local, LockHeld
<1>4. QED
  BY <1>1, <1>2, <1>3, StepMovesLock DEF Next

(* The write lock is held through every step of a write and by the client  *)
(* in it alone, so two writes of one handle never overlap.                 *)
THEOREM LockCorrect == Spec => []LockHeld
<1>1. Init => LockHeld
  BY VaultAssumption DEF Init, LockHeld, Critical
<1>2. QED
  BY <1>1, InvInvariant, NextLockHeld, PTL DEF Spec

-----------------------------------------------------------------------------
(* A decided write is never out of date.                                   *)

(* A write decides on what the files say now.                              *)
LEMMA DecideFresh ==
  ASSUME Inv, NEW c \in Clients, pc[c] = "locked", pc'[c] = "commit",
         Create(c) \/ Derive(c) \/ Modify(c) \/ Remove(c)
  PROVE  Fresh(c)' /\ UNCHANGED files
<1>1. req[c].op # "rebuild" /\ req[c].op # "read"
  BY DEF Create, Derive, Modify, Remove
<1>2. /\ req[c] \in CreateRequest \cup DeriveRequest \cup ModifyRequest \cup LookupRequest
      /\ req[c].ent \in Entities /\ Slots(c) \in [Ids -> Slot]
      /\ req[c].op = "derive" => req[c].base \in Bases
      /\ req[c].op # "derive" => req[c].id \in Ids
  BY <1>1, LockedRequest, RequestRange
<1>3. \A status : ~Refuse(c, status)
  BY DEF Refuse, Finish, Unlock, Go, Inv, TypeOK
<1>4. ASSUME NEW id, NEW slot, Decide(c, id, slot)
      PROVE  Writes(c, id, slot)' /\ UNCHANGED files /\ req' = req
  BY <1>4 DEF Decide, Writes, disk, Inv, TypeOK
<1>5. CASE Create(c)
  <2>1. req[c].op = "create" /\ Slots(c)[req[c].id] = NoDoc
        /\ Decide(c, req[c].id, NewDoc(req[c].ent))
    BY <1>3, <1>5 DEF Create
  <2>2. QED
    BY <1>4, <2>1 DEF Fresh, Slots
<1>6. CASE Derive(c)
  <2>1. req[c].op = "derive" /\ FreeProbes(Slots(c), req[c].base) # {}
        /\ Decide(c, DerivedId(Slots(c), req[c].base), NewDoc(req[c].ent))
    BY <1>6 DEF Derive
  <2>2. QED
    BY <1>4, <2>1 DEF Fresh, Slots
<1>7. CASE Modify(c)
  <2> DEFINE old == Slots(c)[req[c].id]
             new == Edited(req[c].ent, old, req[c].edit)
  <2>1. req[c].op = "modify" /\ LookupStatus(req[c].ent, old) = "ok"
        /\ Decide(c, req[c].id, new)
    BY <1>3, <1>7 DEF Modify, Finish, Unlock, Go, Inv, TypeOK
  <2>2. QED
    BY <1>4, <2>1 DEF Fresh, Slots
<1>8. CASE Remove(c)
  <2>1. req[c].op = "remove" /\ RemoveStatus(req[c].ent, Slots(c)[req[c].id]) = "ok"
        /\ Decide(c, req[c].id, NoDoc)
    BY <1>3, <1>8 DEF Remove
  <2>2. QED
    BY <1>4, <2>1 DEF Fresh, Slots
<1>9. QED
  BY <1>5, <1>6, <1>7, <1>8

(* Only the client that holds the lock changes a record or the draft of a  *)
(* write that is about to commit.                                          *)
LEMMA OnlyHolderWrites ==
  ASSUME Inv, NEW c \in Clients, Call(c) \/ Step(c)
  PROVE  /\ \A x \in Clients \ {c} :
              /\ pc'[x] = pc[x] /\ req'[x] = req[x] /\ draft'[x] = draft[x]
         /\ pc[c] # "commit" => UNCHANGED files
         /\ pc'[c] = "commit" =>
              /\ pc[c] = "locked"
              /\ Create(c) \/ Derive(c) \/ Modify(c) \/ Remove(c)
<1> USE DEF Inv, TypeOK, Go
<1>1. CASE Call(c)
  BY <1>1 DEF Call, disk
<1>2. CASE Acquire(c) \/ Read(c) \/ Return(c)
  BY <1>2 DEF Acquire, Read, Return, disk
<1>3. CASE pc[c] = "locked" /\ (Create(c) \/ Derive(c) \/ Modify(c) \/ Remove(c))
  BY <1>3 DEF Create, Derive, Modify, Remove, Decide, Refuse, Finish, Unlock, disk
<1>4. CASE LookFails(c)
  BY <1>4 DEF LookFails, Refuse, Finish, Unlock
<1>5. CASE Commit(c) \/ CommitFails(c)
  BY <1>5 DEF Commit, CommitFails, Finish, Unlock
<1>6. CASE RebuildScan(c) \/ RenderIndex(c) \/ RebuildDone(c)
  BY <1>6 DEF RebuildScan, RenderIndex, RebuildDone, Unlock, disk
<1>7. CASE SyncIndex(c)
  BY <1>7 DEF SyncIndex, NextIndex, Unlock
<1>8. CASE SyncIndexFails(c)
  BY <1>8 DEF SyncIndexFails, NextIndex, Unlock, disk
<1>9. CASE Sweep(c) \/ SweepFails(c)
  BY <1>9 DEF Sweep, SweepFails, Finish, Unlock
<1>10. QED
  BY <1>1, <1>2, <1>3, <1>4, <1>5, <1>6, <1>7, <1>8, <1>9 DEF Step

LEMMA NextDraftFresh == Inv /\ LockHeld /\ DraftFresh /\ [Next]_vars => DraftFresh'
<1> SUFFICES ASSUME Inv, LockHeld, DraftFresh, [Next]_vars,
                    NEW x \in Clients, pc'[x] = "commit"
             PROVE  Fresh(x)'
  BY DEF DraftFresh
<1>1. ASSUME NEW c \in Clients, Call(c) \/ Step(c) PROVE Fresh(x)'
  <2>1. CASE x = c
    BY <1>1, <2>1, OnlyHolderWrites, DecideFresh
  <2>2. CASE x # c
    <3>1. pc[x] = "commit" /\ req'[x] = req[x] /\ draft'[x] = draft[x]
      BY <1>1, <2>2, OnlyHolderWrites
    <3>2. lock = x /\ lock # c
      BY <2>2, <3>1 DEF LockHeld, Critical
    <3>3. UNCHANGED files
      BY <1>1, <3>2, OnlyHolderWrites DEF LockHeld, Critical
    <3>4. Fresh(x)
      BY <3>1 DEF DraftFresh
    <3>5. QED
      BY <3>1, <3>3, <3>4 DEF Fresh, Slots, Writes
  <2>3. QED
    BY <2>1, <2>2
<1>2. CASE Crash
  BY <1>2 DEF Crash
<1>3. CASE HandEdit
  <2>1. lock = Nobody /\ pc[x] = "commit"
    BY <1>3 DEF HandEdit, local
  <2>2. lock = x
    BY <2>1 DEF LockHeld, Critical
  <2>3. QED
    BY <2>1, <2>2, VaultAssumption
<1>4. CASE Quiesce \/ UNCHANGED vars
  <2>1. /\ pc[x] = "commit" /\ req'[x] = req[x] /\ draft'[x] = draft[x]
        /\ UNCHANGED files
    BY <1>4 DEF Quiesce, vars, local
  <2>2. QED
    BY <2>1 DEF DraftFresh, Fresh, Slots, Writes
<1>5. QED
  BY <1>1, <1>2, <1>3, <1>4 DEF Next

(* Between the look a write takes at the disk and its rename, nothing it   *)
(* decided on changes: no record is created over another, no update is     *)
(* computed from a document that is no longer the stored one.              *)
THEOREM WritesFresh == Spec => []DraftFresh
<1>1. Init => DraftFresh
  BY DEF Init, DraftFresh
<1>2. QED
  BY <1>1, InvInvariant, LockCorrect, NextDraftFresh, PTL DEF Spec

-----------------------------------------------------------------------------
(* The vault implements RecordStore.                                       *)

LEMMA StatusDiffer ==
  /\ \A val : Answered("ok", val) \notin {NoAnswer, Pending}
  /\ NoAnswer # Pending
  BY DEF Answered, NoAnswer, Pending

(* What a finished write shows outside.                                    *)
LEMMA RefuseShows ==
  ASSUME Inv, NEW c \in Clients, NEW status, Refuse(c, status)
  PROVE  /\ pc[c] = "locked" /\ res[c] = Pending
         /\ res' = [res EXCEPT ![c] = Answered(status, NoDoc)]
         /\ UNCHANGED <<files, req>>
  BY DEF Refuse, Finish, Unlock, Go, Reply, Inv, CallShape

LEMMA DecideHidden ==
  ASSUME NEW c \in Clients, NEW id, NEW slot, Decide(c, id, slot)
  PROVE  UNCHANGED <<files, req, res>>
  BY DEF Decide, disk

(* RecordStore speaks of the same requests, documents and answers.         *)
LEMMA SameData ==
  /\ RS!NoAnswer = NoAnswer /\ RS!Pending = Pending
  /\ \A status, val : RS!Answered(status, val) = Answered(status, val)
  /\ RS!Request = Request /\ RS!Slot = Slot
  /\ \A ent : RS!NewDoc(ent) = NewDoc(ent)
  /\ \A ent, slot : RS!LookupStatus(ent, slot) = LookupStatus(ent, slot)
  /\ \A ent, slot : RS!RemoveStatus(ent, slot) = RemoveStatus(ent, slot)
  /\ \A ent, slot, edit : RS!Edited(ent, slot, edit) = Edited(ent, slot, edit)
  /\ \A slots, base : RS!FreeProbes(slots, base) = FreeProbes(slots, base)
  /\ \A slots, base : RS!DerivedId(slots, base) = DerivedId(slots, base)
<1>1. /\ RS!NoAnswer = NoAnswer /\ RS!Pending = Pending
      /\ \A status, val : RS!Answered(status, val) = Answered(status, val)
  BY DEF RS!NoAnswer, RS!Pending, RS!Answered, NoAnswer, Pending, Answered
<1>2. RS!Request = Request
  BY DEF RS!Request, RS!CreateRequest, RS!DeriveRequest, RS!ModifyRequest,
     RS!LookupRequest, RS!RebuildRequest, Request, CreateRequest, DeriveRequest,
     ModifyRequest, LookupRequest, RebuildRequest
<1>3. RS!Doc = Doc /\ RS!Slot = Slot
  BY DEF RS!Doc, RS!Slot, Doc, Slot
<1>4. \A ent : RS!NewDoc(ent) = NewDoc(ent)
  BY DEF RS!NewDoc, NewDoc
<1>5. \A ent, slot : RS!Admits(ent, slot) = Admits(ent, slot)
  BY DEF RS!Admits, Admits
<1>6. \A ent, slot : RS!LookupStatus(ent, slot) = LookupStatus(ent, slot)
  BY <1>3, <1>5 DEF RS!LookupStatus, LookupStatus
<1>7. \A ent, slot : RS!RemoveStatus(ent, slot) = RemoveStatus(ent, slot)
  BY <1>6 DEF RS!RemoveStatus, RemoveStatus
<1>8. \A ent, slot, edit : RS!Edited(ent, slot, edit) = Edited(ent, slot, edit)
  BY DEF RS!Edited, Edited
<1>9. \A slots, base : RS!FreeProbes(slots, base) = FreeProbes(slots, base)
  BY DEF RS!FreeProbes, FreeProbes
<1>10. \A slots, base : RS!DerivedId(slots, base) = DerivedId(slots, base)
  BY <1>9 DEF RS!DerivedId, DerivedId
<1>11. QED
  BY <1>1, <1>2, <1>3, <1>4, <1>6, <1>7, <1>8, <1>9, <1>10

LEMMA FailShown ==
  ASSUME NEW c \in Clients, NEW status \in {"io_error", "refused", "panicked"},
         status = "io_error" \/ req[c].op = "modify", res[c] = Pending, res' = [res EXCEPT ![c] = Answered(status, NoDoc)],
         UNCHANGED <<files, req>>
  PROVE  RS!Fail(c)
  BY SameData DEF RS!Fail, RS!Is, RS!Reply

LEMMA CallShown ==
  ASSUME Inv, NEW c \in Clients, Call(c)
  PROVE  \E r \in Request : RS!Invoke(c, r)
<1>1. res[c] = NoAnswer /\ UNCHANGED files
  BY DEF Call, Go, Inv, CallShape, disk
<1>2. PICK r \in Request : req' = [req EXCEPT ![c] = r]
  BY DEF Call
<1>3. res' = [res EXCEPT ![c] = Pending]
  BY DEF Call, Reply, Pending
<1>4. QED
  BY <1>1, <1>2, <1>3, SameData DEF RS!Invoke

LEMMA CreateShown ==
  ASSUME Inv, NEW c \in Clients, pc[c] = "locked", Create(c)
  PROVE  RS!Create(c) \/ UNCHANGED <<files, req, res>>
<1>1. CASE Slots(c)[req[c].id] # NoDoc /\ Refuse(c, "already_exists")
  BY <1>1, RefuseShows, SameData DEF Create, RS!Create, RS!Is, RS!At, RS!Reply, Slots
<1>2. CASE Decide(c, req[c].id, NewDoc(req[c].ent))
  BY <1>2, DecideHidden
<1>3. QED
  BY <1>1, <1>2 DEF Create

(* Writing back the document that is stored changes nothing.               *)
LEMMA CleanWrite ==
  ASSUME Inv, NEW d \in Dirs, NEW i \in Ids
  PROVE  files = [files EXCEPT ![d] = [@ EXCEPT ![i] = files[d][i]]]
  BY DEF Inv, TypeOK

LEMMA ModifyShown ==
  ASSUME Inv, NEW c \in Clients, pc[c] = "locked", Modify(c)
  PROVE  RS!Modify(c) \/ RS!Fail(c) \/ UNCHANGED <<files, req, res>>
<1> DEFINE ent == req[c].ent
           old == Slots(c)[req[c].id]
           status == LookupStatus(ent, old)
           new == Edited(ent, old, req[c].edit)
<1>1. /\ req[c].op = "modify" /\ res[c] = Pending
      /\ ent.dir \in Dirs /\ req[c].id \in Ids
  <2>1. req[c].op = "modify" /\ req[c].op # "rebuild" /\ req[c].op # "derive"
    BY DEF Modify
  <2>2. QED
    BY <2>1, LockedRequest, RequestRange DEF Inv, CallShape
<1>2. CASE status # "ok" /\ Refuse(c, status)
  BY <1>1, <1>2, RefuseShows, SameData DEF RS!Modify, RS!Is, RS!At, RS!Reply, Slots
<1>3. CASE Refuse(c, "refused")
  BY <1>1, <1>3, RefuseShows, FailShown
<1>4. CASE status = "ok" /\ new = old /\ Refuse(c, "ok")
  <2>1. files' = [files EXCEPT ![ent.dir] = [@ EXCEPT ![req[c].id] = new]]
    BY <1>1, <1>4, CleanWrite, RefuseShows DEF Slots
  <2>2. QED
    BY <1>1, <1>4, <2>1, RefuseShows, SameData
       DEF RS!Modify, RS!Is, RS!At, RS!Reply, RS!Store, Slots
<1>5. CASE Decide(c, req[c].id, new)
  BY <1>5, DecideHidden
<1>6. CASE Finish(c, "locked", "panicked", NoDoc)
  BY <1>1, <1>6, FailShown DEF Finish, Reply
<1>7. QED
  BY <1>2, <1>3, <1>4, <1>5, <1>6 DEF Modify

LEMMA RemoveShown ==
  ASSUME Inv, NEW c \in Clients, pc[c] = "locked", Remove(c)
  PROVE  RS!Remove(c) \/ UNCHANGED <<files, req, res>>
<1> DEFINE status == RemoveStatus(req[c].ent, Slots(c)[req[c].id])
<1>1. CASE status # "ok" /\ Refuse(c, status)
  BY <1>1, RefuseShows, SameData DEF Remove, RS!Remove, RS!Is, RS!At, RS!Reply, Slots
<1>2. CASE Decide(c, req[c].id, NoDoc)
  BY <1>2, DecideHidden
<1>3. QED
  BY <1>1, <1>2 DEF Remove

(* A commit is the step of RecordStore the write was decided as.           *)
LEMMA CommitShown ==
  ASSUME Inv, DraftFresh, NEW c \in Clients, Commit(c)
  PROVE  RS!Create(c) \/ RS!Derive(c) \/ RS!Modify(c) \/ RS!Remove(c)
<1>1. /\ pc[c] = "commit" /\ res[c] = Pending /\ req' = req
      /\ req[c] \in CreateRequest \cup DeriveRequest \cup ModifyRequest \cup LookupRequest
      /\ req[c].op # "read" /\ Fresh(c)
  BY DEF Commit, Inv, CallShape, DraftFresh
<1>2. /\ files' = [files EXCEPT ![req[c].ent.dir] = [@ EXCEPT ![draft[c].id] = draft[c].slot]]
      /\ res' = [res EXCEPT ![c] = Answered("ok",
                   IF req[c].op \in {"create", "derive"} THEN draft[c].id ELSE NoDoc)]
  BY DEF Commit, Reply
<1>3. CASE req[c].op = "create"
  <2>1. /\ Slots(c)[req[c].id] = NoDoc
        /\ draft[c].id = req[c].id /\ draft[c].slot = NewDoc(req[c].ent)
    BY <1>1, <1>3 DEF Fresh, Writes
  <2>2. QED
    BY <1>1, <1>2, <1>3, <2>1, SameData DEF RS!Create, RS!Is, RS!At, RS!Store, RS!Reply, Slots
<1>4. CASE req[c].op = "derive"
  <2>1. /\ FreeProbes(Slots(c), req[c].base) # {}
        /\ draft[c].id = DerivedId(Slots(c), req[c].base)
        /\ draft[c].slot = NewDoc(req[c].ent)
    BY <1>1, <1>4 DEF Fresh, Writes
  <2>2. QED
    BY <1>1, <1>2, <1>4, <2>1, SameData DEF RS!Derive, RS!Is, RS!At, RS!Store, RS!Reply, Slots
<1>5. CASE req[c].op = "modify"
  <2>1. /\ LookupStatus(req[c].ent, Slots(c)[req[c].id]) = "ok"
        /\ draft[c].id = req[c].id
        /\ draft[c].slot = Edited(req[c].ent, Slots(c)[req[c].id], req[c].edit)
    BY <1>1, <1>5 DEF Fresh, Writes
  <2>2. QED
    BY <1>1, <1>2, <1>5, <2>1, SameData DEF RS!Modify, RS!Is, RS!At, RS!Store, RS!Reply, Slots
<1>6. CASE req[c].op = "remove"
  <2>1. /\ RemoveStatus(req[c].ent, Slots(c)[req[c].id]) = "ok"
        /\ draft[c].id = req[c].id /\ draft[c].slot = NoDoc
    BY <1>1, <1>6 DEF Fresh, Writes
  <2>2. QED
    BY <1>1, <1>2, <1>6, <2>1, SameData DEF RS!Remove, RS!Is, RS!At, RS!Store, RS!Reply, Slots
<1>7. QED
  BY <1>1, <1>3, <1>4, <1>5, <1>6 DEF CreateRequest, DeriveRequest, ModifyRequest, LookupRequest

LEMMA ReadShown ==
  ASSUME Inv, NEW c \in Clients, Read(c)
  PROVE  RS!Read(c) \/ RS!Fail(c)
<1> DEFINE slot == Slots(c)[req[c].id]
           status == LookupStatus(req[c].ent, slot)
<1>1. res[c] = Pending /\ UNCHANGED <<files, req>> /\ req[c].op = "read"
  BY DEF Read, Go, Inv, CallShape, disk
<1>2. CASE Reply(c, "io_error", NoDoc)
  BY <1>1, <1>2, FailShown DEF Reply
<1>3. CASE Reply(c, status, IF status = "ok" THEN slot ELSE NoDoc)
  BY <1>1, <1>3, SameData DEF RS!Read, RS!Is, RS!At, RS!Reply, Reply, Slots
<1>4. QED
  BY <1>2, <1>3 DEF Read

LEMMA ReturnShown ==
  ASSUME Inv, NEW c \in Clients, Return(c)
  PROVE  RS!Return(c)
<1>1. res[c] \notin {NoAnswer, Pending} /\ UNCHANGED files
  BY DEF Return, Go, Inv, CallShape, disk
<1>2. QED
  BY <1>1, SameData DEF Return, RS!Return

(* Index upkeep changes no record and answers no call, but the end of a    *)
(* rebuild.                                                                *)
LEMMA UpkeepShown ==
  ASSUME Inv, NEW c \in Clients,
         Acquire(c) \/ RebuildScan(c) \/ RenderIndex(c) \/ SyncIndex(c)
           \/ SyncIndexFails(c)
           \/ Sweep(c) \/ SweepFails(c) \/ RebuildDone(c)
  PROVE  RS!Rebuild(c) \/ RS!Fail(c) \/ UNCHANGED <<files, req, res>>
<1>1. CASE Acquire(c) \/ RebuildScan(c) \/ RenderIndex(c) \/ SyncIndex(c)
  BY <1>1 DEF Acquire, RebuildScan, RenderIndex, SyncIndex, disk
<1>2. CASE SyncIndexFails(c)
  <2>1. CASE Rebuilding(c)
    BY <1>2, <2>1, FailShown DEF SyncIndexFails, Unlock, Go, Reply, Inv, CallShape, disk
  <2>2. CASE ~Rebuilding(c)
    BY <1>2, <2>2 DEF SyncIndexFails, disk
  <2>3. QED
    BY <2>1, <2>2
<1>3. CASE Sweep(c)
  BY <1>3 DEF Sweep
<1>4. CASE SweepFails(c)
  BY <1>4, FailShown DEF SweepFails, Finish, Unlock, Go, Reply, Inv, CallShape
<1>5. CASE RebuildDone(c)
  <2>1. res[c] = Pending /\ req[c] \in RebuildRequest /\ UNCHANGED <<files, req>>
    BY <1>5 DEF RebuildDone, Unlock, Go, Inv, CallShape, disk
  <2>2. QED
    BY <1>5, <2>1, SameData DEF RebuildDone, Reply, RebuildRequest, RS!Rebuild, RS!Is, RS!Reply
<1>6. QED
  BY <1>1, <1>2, <1>3, <1>4, <1>5

LEMMA StepShown ==
  ASSUME Inv, DraftFresh, NEW c \in Clients, Call(c) \/ Step(c)
  PROVE  RS!Next \/ UNCHANGED <<files, req, res>>
<1>1. CASE Call(c)
  BY <1>1, CallShown, SameData DEF RS!Next
<1>2. CASE pc[c] = "locked" /\ (Create(c) \/ Modify(c) \/ Remove(c))
  BY <1>2, CreateShown, ModifyShown, RemoveShown DEF RS!Next
<1>3. CASE Derive(c)
  BY <1>3, DecideHidden DEF Derive
<1>4. CASE pc[c] = "locked" /\ LookFails(c)
  <2>1. Refuse(c, "io_error")
    BY <1>4 DEF LookFails
  <2>2. QED
    BY <2>1, RefuseShows, FailShown DEF RS!Next
<1>5. CASE Commit(c)
  BY <1>5, CommitShown DEF RS!Next
<1>6. CASE CommitFails(c)
  BY <1>6, FailShown DEF CommitFails, Finish, Unlock, Go, Reply, Inv, CallShape, RS!Next
<1>7. CASE Read(c) \/ Return(c)
  BY <1>7, ReadShown, ReturnShown DEF RS!Next
<1>8. CASE Acquire(c) \/ RebuildScan(c) \/ RenderIndex(c) \/ SyncIndex(c)
           \/ SyncIndexFails(c)
           \/ Sweep(c) \/ SweepFails(c) \/ RebuildDone(c)
  BY <1>8, UpkeepShown DEF RS!Next
<1>9. QED
  BY <1>1, <1>2, <1>3, <1>4, <1>5, <1>6, <1>7, <1>8 DEF Step

LEMMA CrashShown == ASSUME Crash PROVE RS!Crash
  BY SameData DEF Crash, RS!Crash, disk

LEMMA HandEditShown ==
  ASSUME Inv, HandEdit PROVE RS!HandEdit \/ UNCHANGED <<files, req, res>>
<1>1. MaxHandEdits > 0 /\ UNCHANGED <<req, res>>
  BY VaultAssumption DEF Inv, TypeOK, HandEdit, local
<1>2. CASE UNCHANGED files
  BY <1>1, <1>2
<1>3. CASE \E d \in Dirs, i \in Ids, slot \in HandSlots :
             files' = [files EXCEPT ![d] = [@ EXCEPT ![i] = slot]]
  BY <1>1, <1>3, VaultAssumption, SameData DEF RS!HandEdit
<1>4. QED
  BY <1>2, <1>3 DEF HandEdit

LEMMA NextShown == Inv /\ DraftFresh /\ [Next]_vars => [RS!Next]_(RS!vars)
<1> SUFFICES ASSUME Inv, DraftFresh, [Next]_vars
             PROVE  RS!Next \/ UNCHANGED <<files, req, res>>
  BY DEF RS!vars
<1>1. CASE UNCHANGED vars \/ Quiesce
  BY <1>1 DEF vars, local, Quiesce
<1>2. CASE Crash \/ HandEdit
  BY <1>2, CrashShown, HandEditShown DEF RS!Next
<1>3. QED
  BY <1>1, <1>2, StepShown DEF Next

(* The store its callers see is atomic: every call takes effect at one     *)
(* instant between its invocation and its return, whatever clients         *)
(* interleave, disks fail and processes crash.                             *)
THEOREM VaultImplementsRecordStore == Spec => Linearizable
<1>1. Init => RS!Init
  BY SameData DEF Init, RS!Init
<1>2. QED
  BY <1>1, InvInvariant, WritesFresh, NextShown, PTL DEF Spec, Linearizable, RS!Spec

-----------------------------------------------------------------------------
(* Entities that share a directory keep to their own records.              *)

LEMMA AdmittedOnly ==
  ASSUME Flat, NEW ent, NEW slot \in Doc,
         LookupStatus(ent, slot) = "ok" \/ RemoveStatus(ent, slot) = "ok"
  PROVE  slot.type \in {Untyped, ent.type}
<1>1. slot # NoDoc /\ slot # Broken
  BY SentinelAssumption
<1>2. QED
  BY <1>1 DEF LookupStatus, RemoveStatus, Admits

LEMMA CommitOwn ==
  ASSUME Inv, DraftFresh, Flat, NEW c \in Clients, NEW i \in Ids, Commit(c),
         files[Root][i] \in Doc, files'[Root][i] # files[Root][i]
  PROVE  files[Root][i].type \in {Untyped, req[c].ent.type}
<1>1. /\ pc[c] = "commit" /\ Fresh(c)
      /\ req[c] \in CreateRequest \cup DeriveRequest \cup ModifyRequest \cup LookupRequest
      /\ req[c].op # "read"
  BY DEF Commit, Inv, CallShape, DraftFresh
<1>2. /\ req[c].ent.dir = Root /\ Slots(c) = files[Root] /\ Slots(c) \in [Ids -> Slot]
      /\ req[c].op = "derive" => req[c].base \in Bases
  BY <1>1, RequestRange, RecordsAssumption DEF Slots
<1>3. i = draft[c].id
  BY <1>2, DraftRange, <1>1 DEF Commit, Inv, TypeOK
<1>4. files[Root][i] # NoDoc
  BY SentinelAssumption
<1>5. req[c].op # "create"
  <2>1. SUFFICES ASSUME req[c].op = "create" PROVE FALSE
    OBVIOUS
  <2>2. Slots(c)[req[c].id] = NoDoc /\ draft[c].id = req[c].id
    BY <1>1, <2>1 DEF Fresh, Writes
  <2>3. QED
    BY <1>2, <1>3, <1>4, <2>2
<1>6. req[c].op # "derive"
  <2>1. SUFFICES ASSUME req[c].op = "derive" PROVE FALSE
    OBVIOUS
  <2>2. /\ FreeProbes(Slots(c), req[c].base) # {}
        /\ draft[c].id = DerivedId(Slots(c), req[c].base)
    BY <1>1, <2>1 DEF Fresh, Writes
  <2>3. QED
    BY <1>2, <1>3, <1>4, <2>1, <2>2, DerivedIdFree
<1>7. LookupStatus(req[c].ent, files[Root][i]) = "ok" \/ RemoveStatus(req[c].ent, files[Root][i]) = "ok"
  <2>1. CASE req[c].op = "modify"
    <3>1. LookupStatus(req[c].ent, Slots(c)[req[c].id]) = "ok" /\ draft[c].id = req[c].id
      BY <1>1, <2>1 DEF Fresh, Writes
    <3>2. QED
      BY <1>2, <1>3, <3>1
  <2>2. CASE req[c].op = "remove"
    <3>1. RemoveStatus(req[c].ent, Slots(c)[req[c].id]) = "ok" /\ draft[c].id = req[c].id
      BY <1>1, <2>2 DEF Fresh, Writes
    <3>2. QED
      BY <1>2, <1>3, <3>1
  <2>3. QED
    BY <1>1, <1>5, <1>6, <2>1, <2>2
       DEF CreateRequest, DeriveRequest, ModifyRequest, LookupRequest
<1>8. QED
  BY <1>7, AdmittedOnly

LEMMA NextOwn ==
  ASSUME Inv, DraftFresh, [Next]_vars, NEW c \in Clients, NEW i \in Ids,
         Flat, pc[c] = "commit", pc'[c] # "commit",
         files[Root][i] \in Doc, files'[Root][i] # files[Root][i]
  PROVE  files[Root][i].type \in {Untyped, req[c].ent.type}
<1>1. ~(UNCHANGED vars \/ Crash \/ Quiesce)
  BY DEF vars, Crash, Quiesce, disk
<1>2. ~HandEdit
  BY DEF HandEdit, local
<1>3. ASSUME NEW x \in Clients, x # c, Call(x) \/ Step(x) PROVE FALSE
  BY <1>3, OnlyHolderWrites
<1>4. CASE Call(c) \/ Step(c)
  <2>1. Commit(c) \/ CommitFails(c)
    BY <1>4 DEF Call, Step, Acquire, Read, Return, RenderIndex, SyncIndex, SyncIndexFails,
       Sweep, SweepFails, Finish, RebuildDone, Unlock, Go
  <2>2. ~CommitFails(c)
    BY DEF CommitFails, Finish
  <2>3. QED
    BY <2>1, <2>2, CommitOwn
<1>5. QED
  BY <1>1, <1>2, <1>3, <1>4 DEF Next

(* In a flat vault shared by several entities, a call of one entity never  *)
(* changes or removes a record typed as another's.                         *)
THEOREM OwnRecordsKept == Spec => OwnRecordsOnly
<1>1. Inv /\ DraftFresh /\ [Next]_vars =>
        [\A c \in Clients, i \in Ids :
           /\ Flat /\ pc[c] = "commit" /\ pc'[c] # "commit"
           /\ files[Root][i] \in Doc
           /\ files'[Root][i] # files[Root][i]
           => files[Root][i].type \in {Untyped, req[c].ent.type}]_vars
  BY NextOwn
<1>2. QED
  BY <1>1, InvInvariant, WritesFresh, PTL DEF Spec, OwnRecordsOnly
-----------------------------------------------------------------------------
(* The indexes.                                                            *)

Visiting(c)   == pc[c] \in {"render", "index"}
Refreshing(c) == Visiting(c) /\ ~Rebuilding(c)
Listed(d)     == Refreshed(d) \/ d \in stale

(* The directories a client has rendered or has yet to.                    *)
Unvisited(c) == todo[c] \cup (IF pc[c] = "index" THEN {page[c].dir} ELSE {})

RenderFresh(c) ==
  pc[c] = "index" =>
    /\ page[c].body \in Rendered(page[c].dir)
    /\ page[c].failed <=> page[c].body # Wanted(page[c].dir)

PagesInv == \A c \in Clients : RenderFresh(c)

(* Holding, rendering and being current depend on the files and the index. *)
LEMMA SameIndex ==
  ASSUME UNCHANGED files, NEW d
  PROVE  /\ Holds(d)' <=> Holds(d)
         /\ Wanted(d)' = Wanted(d) /\ Rendered(d)' = Rendered(d)
         /\ index'[d] = index[d] =>
              (Current(d)' <=> Current(d)) /\ (Names(d)' <=> Names(d))
<1>1. \A x : HasRecords(x)' <=> HasRecords(x)
  BY DEF HasRecords
<1>2. Subdirs(d)' = Subdirs(d)
  BY <1>1 DEF Subdirs
<1>3. (Holds(d)' <=> Holds(d)) /\ Wanted(d)' = Wanted(d) /\ Rendered(d)' = Rendered(d)
  BY <1>1, <1>2 DEF Holds, Wanted, Rendered, Unread, Seen
<1>4. index'[d] = index[d] => (Removable(d)' <=> Removable(d)) /\ (Names(d)' <=> Names(d))
  BY <1>1, <1>2 DEF Removable, StoreShaped, Dangles, Names
<1>5. QED
  BY <1>3, <1>4 DEF Current

(* Being refreshed also depends on what was swallowed: more of that keeps  *)
(* a directory refreshed.                                                  *)
LEMMA SameRefreshed ==
  ASSUME UNCHANGED files, NEW d, index'[d] = index[d], d \in doubt => d \in doubt'
  PROVE  /\ Refreshed(d) => Refreshed(d)'
         /\ (d \in doubt' => d \in doubt) => (Refreshed(d)' <=> Refreshed(d))
  BY SameIndex DEF Refreshed

LEMMA EmptyIsCurrent ==
  ASSUME NEW d, ~Holds(d), index[d] = NoIndex PROVE Current(d) /\ Refreshed(d)
  BY DEF Current, Removable, StoreShaped, Refreshed

(* What `remove_if_dangling` does to the index of a directory.             *)
LEMMA Removing ==
  ASSUME Inv, NEW d \in Dirs, NEW failed, RemoveIfDangling(d, failed), UNCHANGED files
  PROVE  /\ \A x \in Dirs \ {d} : index'[x] = index[x] /\ (x \in doubt' <=> x \in doubt)
         /\ failed => d \in doubt'
         /\ ~Holds(d) => Current(d)' \/ d \in doubt'
         /\ \/ index'[d] = index[d]
            \/ index'[d] = NoIndex /\ Removable(d)
            \/ index'[d] = NoIndex /\ StoreShaped(d) /\ "stat" \in SilentFaults /\ d \in doubt'
<1>1. /\ \A x \in Dirs \ {d} : index'[x] = index[x] /\ (x \in doubt' <=> x \in doubt)
      /\ failed => d \in doubt'
  BY DEF RemoveIfDangling, Visited, Inv, TypeOK
<1>2. CASE Removable(d) /\ index' = [index EXCEPT ![d] = NoIndex]
  <2>1. index'[d] = NoIndex
    BY <1>2 DEF Inv, TypeOK
  <2>2. ~Holds(d) => Current(d)'
    BY <2>1, SameIndex DEF Current, Removable, StoreShaped
  <2>3. QED
    BY <1>1, <1>2, <2>1, <2>2
<1>3. CASE ~Removable(d) /\ UNCHANGED index
  <2>1. ~Holds(d) => Current(d)'
    BY <1>3, SameIndex DEF Current
  <2>2. QED
    BY <1>1, <1>3, <2>1
<1>4. CASE UNCHANGED index /\ Visited(d, TRUE)
  BY <1>1, <1>4 DEF Visited
<1>5. CASE /\ "stat" \in SilentFaults /\ StoreShaped(d)
           /\ index' = [index EXCEPT ![d] = NoIndex] /\ Visited(d, TRUE)
  BY <1>1, <1>5 DEF Visited, Inv, TypeOK
<1>6. QED
  BY <1>2, <1>3, <1>4, <1>5 DEF RemoveIfDangling

(* A step leaves the other clients where they are, and the disk, unless it *)
(* is one of the lock holder's that touch a record or an index.            *)
LEMMA UpkeepSteps ==
  ASSUME Inv, NEW c \in Clients, Call(c) \/ Step(c)
  PROVE  /\ \A x \in Clients \ {c} : /\ pc'[x] = pc[x] /\ req'[x] = req[x] /\ res'[x] = res[x]
                                     /\ todo'[x] = todo[x] /\ page'[x] = page[x]
         /\ crashes' = crashes /\ hands' = hands
         /\ \/ /\ UNCHANGED <<files, index, stale, doubt>>
               /\ ~Visiting(c) /\ pc[c] # "sweep" /\ ~Visiting(c)' /\ pc'[c] # "sweep"
            \/ /\ pc[c] \in Critical
               /\ \/ Commit(c) \/ RebuildScan(c) \/ RenderIndex(c) \/ SyncIndex(c)
                  \/ SyncIndexFails(c) \/ Sweep(c) \/ SweepFails(c) \/ RebuildDone(c)
<1> USE DEF Inv, TypeOK, Go, Critical
<1>1. CASE Call(c)
  BY <1>1 DEF Call, Reply, disk, Visiting
<1>2. CASE Acquire(c) \/ Read(c) \/ Return(c)
  BY <1>2 DEF Acquire, Read, Return, Reply, disk, spent, Visiting
<1>3. CASE pc[c] = "locked" /\ (Create(c) \/ Derive(c) \/ Modify(c) \/ Remove(c) \/ LookFails(c))
  BY <1>3 DEF Create, Derive, Modify, Remove, LookFails, Decide, Refuse, Finish, Unlock, Reply,
     disk, spent, Visiting
<1>4. CASE CommitFails(c)
  BY <1>4 DEF CommitFails, Finish, Unlock, Reply, spent, Visiting
<1>5. CASE Commit(c)
  BY <1>5 DEF Commit, Unlock, Reply, spent
<1>6. CASE pc[c] = "locked" /\ RebuildScan(c)
  BY <1>6 DEF RebuildScan, disk, spent
<1>7. CASE RenderIndex(c)
  BY <1>7 DEF RenderIndex, disk, spent
<1>8. CASE SyncIndex(c)
  BY <1>8 DEF SyncIndex, NextIndex, Unlock, spent
<1>9. CASE SyncIndexFails(c)
  BY <1>9 DEF SyncIndexFails, NextIndex, Unlock, Reply, disk, spent
<1>10. CASE Sweep(c) \/ SweepFails(c) \/ RebuildDone(c)
  BY <1>10 DEF Sweep, SweepFails, RebuildDone, Finish, Unlock, Reply, disk, spent
<1>11. QED
  BY <1>1, <1>2, <1>3, <1>4, <1>5, <1>6, <1>7, <1>8, <1>9, <1>10 DEF Step

(* What bringing one directory up to date does: it is refreshed.           *)
LEMMA Synced ==
  ASSUME Inv, PagesInv, NEW c \in Clients, SyncIndex(c), NEW d, d = page[c].dir
  PROVE  /\ d \in Dirs /\ UNCHANGED files /\ stale' = stale \ {d}
         /\ \A x \in Dirs \ {d} : index'[x] = index[x] /\ (x \in doubt' <=> x \in doubt)
         /\ Refreshed(d)'
         /\ ~Holds(d) => RemoveIfDangling(d, page[c].failed)
<1> DEFINE body == page[c].body
           failed == page[c].failed
<1>1. /\ d \in Dirs /\ body \in Rendered(d) /\ (failed <=> body # Wanted(d))
      /\ body \in Page \cup {NoIndex}
  BY DEF Inv, TypeOK, Render, PagesInv, RenderFresh, SyncIndex
<1>2. UNCHANGED files /\ stale' = stale \ {d}
  BY DEF SyncIndex
<1>3. /\ Wanted(d) = NoIndex <=> ~Holds(d)
      /\ ~Holds(d) => body = NoIndex
      /\ "stat" \notin SilentFaults /\ Holds(d) =>
           /\ body # NoIndex /\ body.subs = Subdirs(d)
           /\ \A i \in Ids : body.docs[i] = NoDoc <=> files[d][i] = NoDoc
  BY <1>1, RenderedShape DEF Inv, TypeOK
<1>4. (Holds(d)' <=> Holds(d)) /\ Wanted(d)' = Wanted(d) /\ Subdirs(d)' = Subdirs(d)
  BY <1>2, SameIndex DEF Subdirs, HasRecords
<1> HIDE DEF body, failed
<1>5. \/ body # NoIndex /\ index' = [index EXCEPT ![d] = body] /\ Visited(d, failed)
      \/ body = NoIndex /\ RemoveIfDangling(d, failed)
  BY DEF SyncIndex, body, failed
<1>6. CASE body # NoIndex /\ index' = [index EXCEPT ![d] = body] /\ Visited(d, failed)
  <2>1. /\ index'[d] = body /\ Holds(d)
        /\ \A x \in Dirs \ {d} : index'[x] = index[x] /\ (x \in doubt' <=> x \in doubt)
        /\ failed => d \in doubt'
    BY <1>1, <1>3, <1>6 DEF Visited, Inv, TypeOK
  <2>2. ~failed => Current(d)'
    BY <1>1, <1>4, <2>1 DEF Current
  <2>3. "stat" \notin SilentFaults => Names(d)'
    <3>1. StoreShaped(d)'
      BY <1>1, <1>6, <2>1, IndexAssumption DEF StoreShaped
    <3>2. QED
      BY <1>2, <1>3, <1>4, <2>1, <3>1 DEF Names
  <2>4. QED
    BY <1>1, <1>2, <2>1, <2>2, <2>3 DEF Refreshed
<1>7. CASE body = NoIndex /\ RemoveIfDangling(d, failed)
  <2>1. /\ \A x \in Dirs \ {d} : index'[x] = index[x] /\ (x \in doubt' <=> x \in doubt)
        /\ failed => d \in doubt'
        /\ ~Holds(d) => Current(d)' \/ d \in doubt'
    BY <1>1, <1>2, <1>7, Removing
  <2>2. Holds(d) => failed /\ "stat" \in SilentFaults
    BY <1>1, <1>3, <1>7
  <2>3. Refreshed(d)'
    BY <1>4, <2>1, <2>2 DEF Refreshed
  <2>4. QED
    BY <1>1, <1>2, <1>7, <2>1, <2>3 DEF failed
<1>8. QED
  BY <1>5, <1>6, <1>7

(* What sweeping one directory does, and what a sweep that finds no index  *)
(* does.                                                                   *)
LEMMA Swept ==
  ASSUME Inv, NEW c \in Clients, Sweep(c)
  PROVE  /\ pc[c] = "sweep" /\ UNCHANGED <<files, stale, pc, req, res, page>>
         /\ \/ \E d \in todo[c] :
                 /\ d \in Dirs /\ todo' = [todo EXCEPT ![c] = @ \ {d}]
                 /\ RemoveIfDangling(d, Holds(d))
            \/ /\ "stat" \in SilentFaults /\ UNCHANGED index
               /\ todo' = [todo EXCEPT ![c] = {}]
               /\ doubt' = doubt \cup todo[c]
  BY DEF Sweep, Inv, TypeOK

(* A client that is at an index has rendered it from the records.          *)
LEMMA NextPages == Inv /\ LockHeld /\ PagesInv /\ [Next]_vars => PagesInv'
<1> SUFFICES ASSUME Inv, LockHeld, PagesInv, [Next]_vars PROVE PagesInv'
  OBVIOUS
<1>1. ASSUME NEW c \in Clients, Call(c) \/ Step(c) PROVE PagesInv'
  <2>1. ASSUME NEW x \in Clients, x # c PROVE RenderFresh(x)'
    <3>1. pc'[x] = pc[x] /\ page'[x] = page[x]
      BY <1>1, <2>1, UpkeepSteps
    <3>2. pc[x] = "index" => UNCHANGED files
      BY <1>1, <2>1, UpkeepSteps DEF LockHeld, Critical
    <3>3. QED
      BY <3>1, <3>2, SameIndex DEF PagesInv, RenderFresh
  <2>2. RenderFresh(c)'
    <3>1. SUFFICES ASSUME pc'[c] = "index"
                   PROVE  (/\ page[c].body \in Rendered(page[c].dir)
                           /\ page[c].failed <=> page[c].body # Wanted(page[c].dir))'
      BY DEF RenderFresh
    <3>2. RenderIndex(c)
      BY <1>1, <3>1, UpkeepSteps, NextIndexRange
         DEF Inv, TypeOK, Visiting, Commit, RebuildScan, SyncIndex, SyncIndexFails, Sweep, SweepFails,
             Finish, RebuildDone, Unlock, Go
    <3>3. PICK d \in todo[c] : \E body \in Rendered(d) :
            page' = [page EXCEPT ![c] = [dir |-> d, body |-> body, failed |-> body # Wanted(d)]]
      BY <3>2, Rendering
    <3>4. PICK body \in Rendered(d) :
            page' = [page EXCEPT ![c] = [dir |-> d, body |-> body, failed |-> body # Wanted(d)]]
      BY <3>3
    <3>5. page'[c] = [dir |-> d, body |-> body, failed |-> body # Wanted(d)]
      BY <3>4 DEF Inv, TypeOK
    <3>6. Wanted(d)' = Wanted(d) /\ Rendered(d)' = Rendered(d)
      BY <3>2, SameIndex DEF RenderIndex, disk
    <3>7. /\ page'[c].dir = d /\ page'[c].body = body
          /\ page'[c].failed = (body # Wanted(d))
      BY <3>5
    <3>8. QED
      BY <3>6, <3>7
  <2>3. QED
    BY <2>1, <2>2 DEF PagesInv
<1>2. CASE Crash
  BY <1>2 DEF Crash, PagesInv, RenderFresh
<1>3. CASE HandEdit
  BY <1>3, VaultAssumption DEF HandEdit, local, LockHeld, Critical, PagesInv, RenderFresh
<1>4. CASE Quiesce \/ UNCHANGED vars
  BY <1>4, SameIndex DEF Quiesce, vars, local, PagesInv, RenderFresh
<1>5. QED
  BY <1>1, <1>2, <1>3, <1>4 DEF Next

LEMMA PagesInvariant == Spec => []PagesInv
<1>1. Init => PagesInv
  BY DEF Init, PagesInv, RenderFresh
<1>2. QED
  BY <1>1, InvInvariant, LockCorrect, NextPages, PTL DEF Spec

(* No write and no rebuild replaces or removes an index a person wrote in  *)
(* a directory without records when it has another shape than the store's, *)
(* nor, unless the `stat` of the link fails, a list in the store's shape   *)
(* that links a file which is no record.                                   *)
THEOREM HandWrittenSurvive == Spec => HandWrittenKept
<1>1. ASSUME Inv, PagesInv, [Next]_vars, NEW d \in Dirs, ~Holds(d), hands' = hands
      PROVE  /\ index[d] = Foreign => index'[d] = Foreign
             /\ (StoreShaped(d) /\ LinksFile(d)) =>
                  \/ index'[d] = index[d]
                  \/ "stat" \in SilentFaults /\ (d \in doubt)'
  <2>1. /\ index[d] = Foreign => ~StoreShaped(d)
        /\ LinksFile(d) => ~Dangles(d)
    BY DEF StoreShaped, Dangles, LinksFile
  <2>2. ASSUME NEW x \in Dirs, NEW failed, RemoveIfDangling(x, failed), UNCHANGED files
        PROVE  \/ index'[d] = index[d]
               \/ StoreShaped(d) /\ Dangles(d)
               \/ StoreShaped(d) /\ "stat" \in SilentFaults /\ (d \in doubt)'
    BY <1>1, <2>2, Removing DEF Removable
  <2>3. ASSUME NEW c \in Clients, Call(c) \/ Step(c)
        PROVE  \/ index'[d] = index[d]
               \/ StoreShaped(d) /\ Dangles(d)
               \/ StoreShaped(d) /\ "stat" \in SilentFaults /\ (d \in doubt)'
    <3>1. UNCHANGED index \/ SyncIndex(c) \/ Sweep(c)
      BY <1>1, <2>3, UpkeepSteps DEF Commit, RebuildScan, RenderIndex, SyncIndexFails, SweepFails,
         Finish, RebuildDone, disk
    <3>2. CASE SyncIndex(c)
      <4>1. PICK x : x = page[c].dir
        OBVIOUS
      <4>2. CASE x = d
        BY <1>1, <2>2, <3>2, <4>1, <4>2, Synced
      <4>3. CASE x # d
        BY <1>1, <3>2, <4>1, <4>3, Synced
      <4>4. QED
        BY <4>2, <4>3
    <3>3. CASE Sweep(c)
      BY <1>1, <2>2, <3>3, Swept
    <3>4. QED
      BY <1>1, <3>1, <3>2, <3>3
  <2>4. ~HandEdit
    BY <1>1 DEF HandEdit, Inv, TypeOK
  <2>5. \/ index'[d] = index[d]
        \/ StoreShaped(d) /\ Dangles(d)
        \/ StoreShaped(d) /\ "stat" \in SilentFaults /\ (d \in doubt)'
    BY <1>1, <2>3, <2>4 DEF Next, Crash, Quiesce, vars, disk
  <2>6. QED
    BY <2>1, <2>5
<1>2. Inv /\ PagesInv /\ [Next]_vars =>
        [\A d \in Dirs :
           (~Holds(d) /\ hands' = hands) =>
             /\ index[d] = Foreign => index'[d] = Foreign
             /\ (StoreShaped(d) /\ LinksFile(d)) =>
                  \/ index'[d] = index[d]
                  \/ "stat" \in SilentFaults /\ d \in doubt']_vars
  BY <1>1
<1>3. QED
  BY <1>2, InvInvariant, PagesInvariant, PTL DEF Spec, HandWrittenKept
-----------------------------------------------------------------------------
(* What is current or listed.                                              *)

(* The directories a refresh has left behind are refreshed or listed;      *)
(* those a rebuild has left behind are refreshed.  A sweep has yet to      *)
(* visit a directory that holds records only when the scan missed it.      *)
ChainVisited(c) ==
  Refreshing(c) => \A d \in {req[c].ent.dir, Root} : d \in Unvisited(c) \/ Listed(d)

VaultVisited(c) ==
  /\ Visiting(c) /\ Rebuilding(c) =>
       \A d \in Dirs : IF Holds(d) THEN d \in Unvisited(c) \/ Refreshed(d) ELSE d \notin Unvisited(c)
  /\ pc[c] = "sweep" =>
       \A d \in Dirs : IF d \in todo[c] THEN Holds(d) => "stat" \in SilentFaults ELSE Refreshed(d)

AllVisited == \A c \in Clients : ChainVisited(c) /\ VaultVisited(c)

AllListed ==
  IndexOn /\ crashes = 0 /\ hands = 0 =>
    \A d \in Dirs : Listed(d) \/ \E c \in Clients : Refreshing(c) /\ d \in Unvisited(c)

(* Where the visit of one directory leaves the rest.                       *)
LEMMA NextUnvisited ==
  ASSUME Inv, NEW c \in Clients, NextIndex(c)
  PROVE  /\ pc[c] = "index"
         /\ todo[c] # {} => pc'[c] = "render" /\ todo'[c] = todo[c]
         /\ todo[c] = {} /\ Rebuilding(c) =>
              pc'[c] = "sweep" /\ todo'[c] = {d \in Dirs : index[d] # NoIndex /\ ~Holds(d)}
         /\ todo[c] = {} /\ ~Rebuilding(c) => pc'[c] = "done"
  BY DEF NextIndex, Go, Unlock, Inv, TypeOK

(* A refresh drops a directory only when it is refreshed or listed.        *)
LEMMA RefreshStep ==
  ASSUME Inv, PagesInv, NEW c \in Clients, Refreshing(c), Call(c) \/ Step(c),
         NEW x \in Dirs, x \in Unvisited(c) \/ Listed(x)
  PROVE  Listed(x)' \/ (Refreshing(c) /\ x \in Unvisited(c))'
<1>1. RenderIndex(c) \/ SyncIndex(c) \/ SyncIndexFails(c)
  BY UpkeepSteps DEF Refreshing, Visiting, Commit, RebuildScan, Sweep, SweepFails, RebuildDone,
     Finish, Unlock, Go
<1>2. CASE RenderIndex(c)
  <2>1. PICK d \in todo[c] :
          /\ \E body : page' = [page EXCEPT ![c] = [dir |-> d, body |-> body, failed |-> body # Wanted(d)]]
          /\ todo' = [todo EXCEPT ![c] = @ \ {d}]
    BY <1>2, Rendering
  <2>2. pc[c] = "render" /\ pc'[c] = "index" /\ page'[c].dir = d /\ todo'[c] = todo[c] \ {d}
        /\ UNCHANGED <<files, index, stale, doubt, req>>
    BY <1>2, <2>1 DEF RenderIndex, Go, disk, Inv, TypeOK
  <2>3. Refreshing(c)'
    BY <2>2 DEF Refreshing, Visiting, Rebuilding
  <2>4. x \in Unvisited(c) => x \in Unvisited(c)'
    BY <2>2 DEF Unvisited
  <2>5. Listed(x) => Listed(x)'
    BY <2>2, SameRefreshed DEF Listed
  <2>6. QED
    BY <2>3, <2>4, <2>5
<1>3. ASSUME NEW d, d = page[c].dir, pc[c] = "index", NextIndex(c), req' = req,
             x = d => Listed(x)', x # d /\ Listed(x) => Listed(x)'
      PROVE  Listed(x)' \/ (Refreshing(c) /\ x \in Unvisited(c))'
  <2>1. CASE x = d \/ Listed(x)
    BY <1>3, <2>1
  <2>2. CASE x \in todo[c]
    <3>1. pc'[c] = "render" /\ x \in todo'[c]
      BY <1>3, <2>2, NextUnvisited
    <3>2. QED
      BY <1>3, <3>1 DEF Refreshing, Visiting, Rebuilding, Unvisited
  <2>3. QED
    BY <1>3, <2>1, <2>2 DEF Unvisited
<1>4. CASE SyncIndex(c)
  <2>1. PICK d : d = page[c].dir
    OBVIOUS
  <2>2. x = d => Listed(x)'
    BY <1>4, <2>1, Synced DEF Listed
  <2>3. x # d /\ Listed(x) => Listed(x)'
    BY <1>4, <2>1, Synced, SameRefreshed DEF Listed
  <2>4. pc[c] = "index" /\ NextIndex(c) /\ req' = req
    BY <1>4 DEF SyncIndex
  <2>5. QED
    BY <1>3, <2>1, <2>2, <2>3, <2>4
<1>5. CASE SyncIndexFails(c)
  <2>1. PICK d : d = page[c].dir
    OBVIOUS
  <2>2. UNCHANGED <<files, index, doubt, req>> /\ stale' = stale \cup {d}
    BY <1>5, <2>1 DEF SyncIndexFails, disk
  <2>3. (x = d => Listed(x)') /\ (Listed(x) => Listed(x)')
    BY <2>2, SameRefreshed DEF Listed
  <2>4. pc[c] = "index" /\ NextIndex(c)
    BY <1>5 DEF SyncIndexFails, Refreshing
  <2>5. QED
    BY <1>3, <2>1, <2>2, <2>3, <2>4
<1>6. QED
  BY <1>1, <1>2, <1>4, <1>5

(* A rebuild leaves a directory behind only when it is refreshed, makes no *)
(* other one out of date, and has them all refreshed when it succeeds.     *)
Rebuilt(c) ==
  /\ VaultVisited(c)'
  /\ \A x \in Dirs : Listed(x) => Listed(x)'
  /\ pc[c] = "sweep" /\ res'[c].status = "ok" => stale' = {} /\ \A x \in Dirs : Refreshed(x)'

LEMMA RebuildSyncs ==
  ASSUME Inv, PagesInv, NEW c \in Clients, VaultVisited(c), Rebuilding(c), SyncIndex(c)
  PROVE  Rebuilt(c)
<1>1. PICK d : d = page[c].dir
  OBVIOUS
<1>2. d \in Dirs /\ pc[c] = "index" /\ NextIndex(c) /\ req' = req /\ Unvisited(c) = todo[c] \cup {d}
  BY <1>1, Synced DEF SyncIndex, Unvisited
<1>3. /\ \A x \in Dirs : Holds(x)' <=> Holds(x)
      /\ \A x \in Dirs \ {d} : index'[x] = index[x] /\ (Refreshed(x)' <=> Refreshed(x))
      /\ Refreshed(d)' /\ stale' = stale \ {d}
  BY <1>1, Synced, SameRefreshed, SameIndex
<1>4. \A x \in Dirs : IF Holds(x) THEN x \in todo[c] \/ Refreshed(x)' ELSE x # d /\ x \notin todo[c]
  BY <1>2, <1>3 DEF VaultVisited, Visiting
<1>5. VaultVisited(c)'
  <2>1. CASE todo[c] # {}
    <3>1. pc'[c] = "render" /\ todo'[c] = todo[c] /\ (Unvisited(c) = todo[c])'
      BY <1>2, <2>1, NextUnvisited DEF Unvisited
    <3>2. QED
      BY <1>3, <1>4, <3>1 DEF VaultVisited
  <2>2. CASE todo[c] = {}
    <3>1. pc'[c] = "sweep" /\ todo'[c] = {x \in Dirs : index[x] # NoIndex /\ ~Holds(x)}
      BY <1>2, <2>2, NextUnvisited
    <3>2. ASSUME NEW x \in Dirs, ~Holds(x), x \notin todo'[c] PROVE Refreshed(x)'
      BY <1>3, <1>4, <3>1, <3>2, EmptyIsCurrent
    <3>3. QED
      BY <1>3, <1>4, <2>2, <3>1, <3>2 DEF VaultVisited, Visiting
  <2>3. QED
    BY <2>1, <2>2
<1>6. QED
  BY <1>2, <1>3, <1>5 DEF Rebuilt, Listed

LEMMA RebuildSweeps ==
  ASSUME Inv, NEW c \in Clients, VaultVisited(c), Sweep(c)
  PROVE  Rebuilt(c)
<1>1. /\ pc[c] = "sweep" /\ pc'[c] = "sweep" /\ UNCHANGED <<files, stale>> /\ res'[c] = Pending
  BY Swept DEF Inv, CallShape
<1>2. \A x \in Dirs : (Holds(x)' <=> Holds(x)) /\ (x \in todo[c] /\ Holds(x) => "stat" \in SilentFaults)
  BY <1>1, SameIndex DEF VaultVisited
<1>3. res'[c].status # "ok"
  BY <1>1 DEF Pending, Answered
<1>4. CASE \E d \in todo[c] : /\ d \in Dirs /\ todo' = [todo EXCEPT ![c] = @ \ {d}]
                              /\ RemoveIfDangling(d, Holds(d))
  <2>1. PICK d \in todo[c] : /\ d \in Dirs /\ todo' = [todo EXCEPT ![c] = @ \ {d}]
                             /\ RemoveIfDangling(d, Holds(d))
    BY <1>4
  <2>2. todo'[c] = todo[c] \ {d}
    BY <2>1 DEF Inv, TypeOK
  <2>3. \A x \in Dirs \ {d} : Refreshed(x)' <=> Refreshed(x)
    BY <1>1, <2>1, Removing, SameRefreshed
  <2>4. Refreshed(d)'
    <3>1. /\ Holds(d) => d \in doubt'
          /\ ~Holds(d) => Current(d)' \/ d \in doubt'
      BY <1>1, <2>1, Removing
    <3>2. QED
      BY <1>2, <2>1, <3>1 DEF Refreshed
  <2>5. VaultVisited(c)'
    BY <1>1, <1>2, <2>1, <2>2, <2>3, <2>4 DEF VaultVisited, Visiting
  <2>6. QED
    BY <1>1, <1>3, <2>3, <2>4, <2>5 DEF Rebuilt, Listed
<1>5. CASE /\ "stat" \in SilentFaults /\ UNCHANGED index
           /\ todo' = [todo EXCEPT ![c] = {}] /\ doubt' = doubt \cup todo[c]
  <2>1. todo'[c] = {} /\ \A x \in todo[c] : x \in doubt'
    BY <1>5 DEF Inv, TypeOK
  <2>2. \A x \in Dirs : Refreshed(x) => Refreshed(x)'
    BY <1>1, <1>5, SameRefreshed
  <2>3. \A x \in Dirs : Refreshed(x)'
    BY <1>1, <1>5, <2>1, <2>2 DEF VaultVisited, Refreshed
  <2>4. QED
    BY <1>1, <1>3, <2>1, <2>3 DEF Rebuilt, VaultVisited, Visiting, Listed
<1>6. QED
  BY <1>4, <1>5, Swept

InRebuild(c) ==
  \/ Visiting(c) /\ Rebuilding(c)
  \/ pc[c] = "sweep"
  \/ RebuildScan(c) /\ pc[c] = "locked"

LEMMA RebuildStep ==
  ASSUME Inv, PagesInv, NEW c \in Clients, VaultVisited(c), InRebuild(c),
         Call(c) \/ Step(c)
  PROVE  Rebuilt(c)
<1>1. CASE RebuildScan(c) /\ pc[c] = "locked"
  <2> DEFINE held == {d \in Dirs : Holds(d)}
  <2>1. UNCHANGED <<files, index, stale, req>>
    BY <1>1 DEF RebuildScan, disk
  <2>2. PICK dirs \in {held} \cup (IF "stat" \in SilentFaults THEN {{}} ELSE {}) :
          /\ pc'[c] = IF dirs = {} THEN "sweep" ELSE "render"
          /\ todo'[c] = IF dirs = {} THEN {d \in Dirs : index[d] # NoIndex} ELSE dirs
          /\ doubt' = doubt \cup (held \ dirs)
    BY <1>1 DEF RebuildScan, Go, Inv, TypeOK
  <2>3. \A x \in Dirs : (Holds(x)' <=> Holds(x)) /\ (Refreshed(x) => Refreshed(x)')
    BY <2>1, <2>2, SameIndex, SameRefreshed
  <2>4. \A x \in Dirs : ~Holds(x) /\ index[x] = NoIndex => Refreshed(x)'
    BY <2>3, EmptyIsCurrent
  <2>5. VaultVisited(c)'
    <3>1. CASE dirs = {}
      <4>1. pc'[c] = "sweep" /\ \A x \in Dirs : x \in todo'[c] <=> index[x] # NoIndex
        BY <2>2, <3>1
      <4>2. \A x \in Dirs : Holds(x) => x \in doubt' /\ "stat" \in SilentFaults
        BY <2>2, <3>1
      <4>3. \A x \in Dirs : Holds(x) => Refreshed(x)'
        BY <4>2 DEF Refreshed
      <4>4. QED
        BY <2>3, <2>4, <4>1, <4>2, <4>3 DEF VaultVisited, Visiting
    <3>2. CASE dirs # {}
      <4>1. pc'[c] = "render" /\ dirs = held /\ todo'[c] = held
        BY <2>2, <3>2
      <4>2. QED
        BY <2>3, <4>1 DEF VaultVisited, Visiting, Unvisited
    <3>3. QED
      BY <3>1, <3>2
  <2>6. QED
    BY <1>1, <2>1, <2>3, <2>5 DEF Rebuilt, Listed
<1>2. CASE RenderIndex(c) /\ Rebuilding(c)
  <2>1. PICK d \in todo[c] :
          /\ \E body : page' = [page EXCEPT ![c] = [dir |-> d, body |-> body, failed |-> body # Wanted(d)]]
          /\ todo' = [todo EXCEPT ![c] = @ \ {d}]
    BY <1>2, Rendering
  <2>2. pc[c] = "render" /\ pc'[c] = "index" /\ page'[c].dir = d /\ todo'[c] = todo[c] \ {d}
        /\ UNCHANGED <<files, index, stale, doubt>>
    BY <1>2, <2>1 DEF RenderIndex, Go, disk, Inv, TypeOK
  <2>3. \A x : x \in Unvisited(c)' <=> x \in Unvisited(c)
    BY <2>2 DEF Unvisited
  <2>4. \A x \in Dirs : (Holds(x)' <=> Holds(x)) /\ (Refreshed(x)' <=> Refreshed(x))
    BY <2>2, SameIndex, SameRefreshed
  <2>5. VaultVisited(c)'
    BY <1>2, <2>2, <2>3, <2>4 DEF VaultVisited, Visiting
  <2>6. QED
    BY <2>2, <2>4, <2>5 DEF Rebuilt, Listed
<1>3. CASE SyncIndex(c) /\ Rebuilding(c)
  BY <1>3, RebuildSyncs
<1>4. CASE SyncIndexFails(c) /\ Rebuilding(c)
  <2>1. pc[c] = "index" /\ pc'[c] = "done" /\ UNCHANGED <<files, index, doubt>> /\ stale \subseteq stale'
    BY <1>4 DEF SyncIndexFails, Unlock, Go, disk, Inv, TypeOK
  <2>2. QED
    BY <2>1, SameRefreshed DEF Rebuilt, VaultVisited, Visiting, Listed
<1>5. CASE Sweep(c)
  BY <1>5, RebuildSweeps
<1>6. CASE SweepFails(c)
  <2>1. pc[c] = "sweep" /\ pc'[c] = "done" /\ UNCHANGED <<files, index, stale, doubt>>
        /\ res'[c].status = "io_error"
    BY <1>6 DEF SweepFails, Finish, Unlock, Go, Reply, Answered, Inv, TypeOK
  <2>2. QED
    BY <2>1, SameRefreshed DEF Rebuilt, VaultVisited, Visiting, Listed
<1>7. CASE RebuildDone(c)
  <2>1. pc[c] = "sweep" /\ pc'[c] = "done" /\ todo[c] = {} /\ stale' = {} /\ UNCHANGED <<files, index, doubt>>
    BY <1>7 DEF RebuildDone, Unlock, Go, disk, Inv, TypeOK
  <2>2. \A x \in Dirs : Refreshed(x)'
    BY <2>1, SameRefreshed DEF VaultVisited
  <2>3. QED
    BY <2>1, <2>2 DEF Rebuilt, VaultVisited, Visiting, Listed
<1>8. \/ ~Visiting(c) /\ pc[c] # "sweep"
      \/ RebuildScan(c) /\ pc[c] = "locked"
      \/ RenderIndex(c) \/ SyncIndex(c) \/ SyncIndexFails(c)
      \/ Sweep(c) \/ SweepFails(c) \/ RebuildDone(c)
  BY UpkeepSteps DEF Commit, Visiting, RebuildScan, Go
<1>9. RenderIndex(c) \/ SyncIndex(c) \/ SyncIndexFails(c) => Rebuilding(c)
  BY DEF InRebuild, RenderIndex, SyncIndex, SyncIndexFails, Go
<1>10. QED
  BY <1>1, <1>2, <1>3, <1>4, <1>5, <1>6, <1>7, <1>8, <1>9 DEF InRebuild

(* A commit puts every directory it can outdate on the way to the root.    *)
LEMMA CommitListed ==
  ASSUME Inv, PagesInv, NEW c \in Clients, Commit(c)
  PROVE  /\ ChainVisited(c)' /\ VaultVisited(c)'
         /\ IndexOn => \A x \in Dirs : Listed(x) => Listed(x)' \/ (Refreshing(c) /\ x \in Unvisited(c))'
<1> DEFINE dir == req[c].ent.dir
<1>1. pc[c] = "commit" /\ dir \in Dirs /\ ~Rebuilding(c)
  BY RequestRange DEF Commit, Inv, CallShape, Rebuilding, CreateRequest, DeriveRequest,
     ModifyRequest, LookupRequest
<1>2. /\ UNCHANGED <<index, stale, doubt, req>>
      /\ \A x \in Dirs \ {dir} : files'[x] = files[x]
  BY <1>1 DEF Commit, Inv, TypeOK
<1>3. IF IndexOn THEN pc'[c] = "render" /\ todo'[c] = {dir, Root} ELSE pc'[c] = "done"
  BY DEF Commit, Chain, Unlock, Go, Inv, TypeOK
<1> HIDE DEF dir
<1>4. ~Rebuilding(c)'
  BY <1>1, <1>2 DEF Rebuilding
<1>5. ChainVisited(c)' /\ VaultVisited(c)'
  BY <1>2, <1>3, <1>4 DEF ChainVisited, VaultVisited, Refreshing, Visiting, Unvisited, dir
<1>6. ASSUME NEW x \in Dirs, x # dir, x # Root PROVE Listed(x)' <=> Listed(x)
  <2>1. HasRecords(x)' <=> HasRecords(x)
    BY <1>2, <1>6 DEF HasRecords
  <2>2. (Holds(x)' <=> Holds(x)) /\ Wanted(x)' = Wanted(x) /\ Subdirs(x)' = Subdirs(x)
    BY <1>2, <1>6, <2>1 DEF Holds, Wanted, Subdirs
  <2>3. Removable(x)' <=> Removable(x)
    BY <1>2, <1>6 DEF Removable, StoreShaped, Dangles
  <2>4. Names(x)' <=> Names(x)
    BY <1>2, <1>6, <2>2 DEF Names, StoreShaped
  <2>5. QED
    BY <1>2, <2>2, <2>3, <2>4 DEF Listed, Refreshed, Current
<1>7. QED
  BY <1>3, <1>4, <1>5, <1>6 DEF Refreshing, Visiting, Unvisited

(* The client that is at an index holds the lock.                          *)
LEMMA OneVisits ==
  ASSUME LockHeld, NEW c \in Clients, NEW x \in Clients, Visiting(x) \/ pc[x] = "sweep",
         pc[c] \in Critical
  PROVE  x = c
  BY DEF LockHeld, Visiting, Critical

LEMMA StepVisited ==
  ASSUME Inv, LockHeld, PagesInv, AllVisited, AllListed,
         NEW c \in Clients, Call(c) \/ Step(c)
  PROVE  AllVisited' /\ AllListed'
<1>1. /\ \A x \in Clients \ {c} : /\ pc'[x] = pc[x] /\ req'[x] = req[x]
                                  /\ todo'[x] = todo[x] /\ page'[x] = page[x]
      /\ crashes' = crashes /\ hands' = hands
  BY UpkeepSteps
<1>2. CASE /\ UNCHANGED <<files, index, stale, doubt>>
           /\ ~Visiting(c) /\ pc[c] # "sweep" /\ ~Visiting(c)' /\ pc'[c] # "sweep"
  <2>1. \A d : (Listed(d)' <=> Listed(d)) /\ (Refreshed(d)' <=> Refreshed(d)) /\ (Holds(d)' <=> Holds(d))
    BY <1>2, SameIndex, SameRefreshed DEF Listed
  <2>2. ASSUME NEW x \in Clients, x # c
        PROVE  /\ Visiting(x)' <=> Visiting(x)
               /\ Refreshing(x)' <=> Refreshing(x)
               /\ Rebuilding(x)' <=> Rebuilding(x)
               /\ Unvisited(x)' = Unvisited(x)
    BY <1>1, <2>2 DEF Visiting, Refreshing, Rebuilding, Unvisited
  <2>3. ASSUME NEW x \in Clients PROVE (ChainVisited(x) /\ VaultVisited(x))'
    <3>1. CASE x = c
      BY <1>2, <3>1 DEF ChainVisited, VaultVisited, Refreshing
    <3>2. CASE x # c
      BY <1>1, <2>1, <2>2, <3>2 DEF AllVisited, ChainVisited, VaultVisited
    <3>3. QED
      BY <3>1, <3>2
  <2>4. ASSUME IndexOn, crashes = 0, hands = 0, NEW d \in Dirs
        PROVE  Listed(d)' \/ \E x \in Clients : (Refreshing(x) /\ d \in Unvisited(x))'
    <3>1. CASE Listed(d)
      BY <2>1, <3>1
    <3>2. CASE \E x \in Clients : Refreshing(x) /\ d \in Unvisited(x)
      <4>1. PICK x \in Clients : Refreshing(x) /\ d \in Unvisited(x)
        BY <3>2
      <4>2. x # c
        BY <1>2, <4>1 DEF Refreshing
      <4>3. QED
        BY <2>2, <4>1, <4>2
    <3>3. QED
      BY <2>4, <3>1, <3>2 DEF AllListed
  <2>5. AllVisited'
    BY <2>3 DEF AllVisited
  <2>6. AllListed'
    BY <1>1, <2>4 DEF AllListed
  <2>7. QED
    BY <2>5, <2>6
<1>3. CASE /\ pc[c] \in Critical
           /\ Commit(c) \/ Refreshing(c) \/ InRebuild(c)
  <2>1. ASSUME NEW x \in Clients, x # c PROVE (ChainVisited(x) /\ VaultVisited(x))'
    <3>1. ~Visiting(x)' /\ pc'[x] # "sweep"
      BY <1>1, <1>3, <2>1, OneVisits DEF Visiting
    <3>2. QED
      BY <3>1 DEF ChainVisited, VaultVisited, Refreshing
  <2>2. /\ ChainVisited(c)' /\ VaultVisited(c)'
        /\ IndexOn => \A d \in Dirs : Listed(d) \/ (Refreshing(c) /\ d \in Unvisited(c)) =>
                                        Listed(d)' \/ (Refreshing(c) /\ d \in Unvisited(c))'
    <3>1. CASE Commit(c)
      <4>1. ~Refreshing(c)
        BY <3>1 DEF Commit, Refreshing, Visiting
      <4>2. QED
        BY <3>1, <4>1, CommitListed
    <3>2. CASE Refreshing(c)
      <4>1. \A d \in Dirs : d \in Unvisited(c) \/ Listed(d) =>
                              Listed(d)' \/ (Refreshing(c) /\ d \in Unvisited(c))'
        BY <3>2, RefreshStep
      <4>2. req'[c] = req[c] /\ ~(Visiting(c) /\ Rebuilding(c))' /\ pc'[c] # "sweep"
        BY <3>2, UpkeepSteps, NextUnvisited DEF Refreshing, Visiting, Rebuilding, Commit, RebuildScan, RenderIndex,
           SyncIndex, SyncIndexFails, Sweep, SweepFails, RebuildDone, Finish, Unlock, Go, Inv, TypeOK
      <4>3. {req[c].ent.dir, Root} \subseteq Dirs
        BY <3>2, RecordsAssumption DEF Refreshing, Visiting, Rebuilding, Inv, CallShape, Request, CreateRequest,
           DeriveRequest, ModifyRequest, LookupRequest, RebuildRequest
      <4>4. ChainVisited(c)'
        BY <3>2, <4>1, <4>2, <4>3 DEF AllVisited, ChainVisited
      <4>5. VaultVisited(c)'
        BY <4>2 DEF VaultVisited
      <4>6. QED
        BY <4>1, <4>4, <4>5
    <3>3. CASE InRebuild(c)
      <4>1. Rebuilt(c)
        BY <3>3, RebuildStep DEF AllVisited
      <4>2. Rebuilding(c) /\ req'[c] = req[c]
        BY <3>3, UpkeepSteps DEF InRebuild, Visiting, Rebuilding, Commit, RebuildScan, RenderIndex, SyncIndex,
           SyncIndexFails, Sweep, SweepFails, RebuildDone, Finish, Inv, CallShape, RebuildRequest, Critical
      <4>3. ~Refreshing(c) /\ ~Refreshing(c)'
        BY <4>2 DEF Refreshing, Rebuilding
      <4>4. QED
        BY <4>1, <4>3 DEF Rebuilt, ChainVisited
    <3>4. QED
      BY <1>3, <3>1, <3>2, <3>3
  <2>3. ASSUME IndexOn, crashes = 0, hands = 0, NEW d \in Dirs
        PROVE  Listed(d)' \/ \E x \in Clients : (Refreshing(x) /\ d \in Unvisited(x))'
    <3>1. Listed(d) \/ (Refreshing(c) /\ d \in Unvisited(c))
      BY <1>3, <2>3, OneVisits DEF AllListed, Refreshing
    <3>2. QED
      BY <2>2, <2>3, <3>1
  <2>4. AllVisited'
    BY <2>1, <2>2 DEF AllVisited
  <2>5. AllListed'
    BY <1>1, <2>3 DEF AllListed
  <2>6. QED
    BY <2>4, <2>5
<1>4. QED
  <2>1. SyncIndex(c) \/ SyncIndexFails(c) \/ RenderIndex(c) => Refreshing(c) \/ InRebuild(c)
    <3>1. SyncIndex(c) \/ SyncIndexFails(c) \/ RenderIndex(c) => Visiting(c)
      BY DEF SyncIndex, SyncIndexFails, RenderIndex, Visiting, Go
    <3>2. QED
      BY <3>1 DEF Refreshing, InRebuild, Rebuilding
  <2>2. Sweep(c) \/ SweepFails(c) \/ RebuildDone(c) => InRebuild(c)
    <3>1. Sweep(c) \/ SweepFails(c) \/ RebuildDone(c) => pc[c] = "sweep"
      BY DEF Sweep, SweepFails, Finish, RebuildDone, Unlock, Go
    <3>2. QED
      BY <3>1 DEF InRebuild
  <2>3. RebuildScan(c) => InRebuild(c)
    BY DEF RebuildScan, Go, InRebuild
  <2>4. QED
    BY <1>2, <1>3, <2>1, <2>2, <2>3, UpkeepSteps

LEMMA NextVisited ==
  Inv /\ LockHeld /\ PagesInv /\ AllVisited /\ AllListed /\ [Next]_vars =>
    AllVisited' /\ AllListed'
<1> SUFFICES ASSUME Inv, LockHeld, PagesInv, AllVisited, AllListed, [Next]_vars
             PROVE  AllVisited' /\ AllListed'
  OBVIOUS
<1>1. ASSUME NEW c \in Clients, Call(c) \/ Step(c) PROVE AllVisited' /\ AllListed'
  BY <1>1, StepVisited
<1>2. CASE Crash
  <2>1. crashes' # 0
    BY <1>2, VaultAssumption DEF Crash, Inv, TypeOK
  <2>2. \A c \in Clients : pc'[c] = "idle"
    BY <1>2 DEF Crash
  <2>3. QED
    BY <2>1, <2>2 DEF AllVisited, AllListed, ChainVisited, VaultVisited, Refreshing, Visiting
<1>3. CASE HandEdit
  <2>1. hands' # 0
    BY <1>3, VaultAssumption DEF HandEdit, Inv, TypeOK
  <2>2. \A c \in Clients : pc'[c] \notin Critical
    BY <1>3, VaultAssumption DEF HandEdit, local, LockHeld
  <2>3. QED
    BY <2>1, <2>2 DEF AllVisited, AllListed, ChainVisited, VaultVisited, Refreshing, Visiting, Critical
<1>4. CASE Quiesce \/ UNCHANGED vars
  <2>1. UNCHANGED <<files, index, stale, doubt, pc, req, todo, page, crashes, hands>>
    BY <1>4 DEF Quiesce, vars, local, spent
  <2>2. \A d : (Listed(d)' <=> Listed(d)) /\ (Refreshed(d)' <=> Refreshed(d)) /\ (Holds(d)' <=> Holds(d))
    BY <2>1, SameIndex, SameRefreshed DEF Listed
  <2>3. \A c \in Clients : /\ Visiting(c)' <=> Visiting(c)
                           /\ Refreshing(c)' <=> Refreshing(c)
                           /\ Rebuilding(c)' <=> Rebuilding(c)
                           /\ Unvisited(c)' = Unvisited(c)
    BY <2>1 DEF Visiting, Refreshing, Rebuilding, Unvisited
  <2>4. AllVisited'
    BY <2>1, <2>2, <2>3 DEF AllVisited, ChainVisited, VaultVisited
  <2>5. AllListed'
    BY <2>1, <2>2, <2>3 DEF AllListed
  <2>6. QED
    BY <2>4, <2>5
<1>5. QED
  BY <1>1, <1>2, <1>3, <1>4 DEF Next

LEMMA InitVisited == Init => AllVisited /\ AllListed
<1> SUFFICES ASSUME Init PROVE AllVisited /\ AllListed
  OBVIOUS
<1>1. \A d \in Dirs : ~HasRecords(d)
  BY DEF Init, HasRecords
<1>2. \A d \in Dirs : ~Holds(d)
  BY <1>1 DEF Holds, Subdirs
<1>3. \A d \in Dirs : Refreshed(d)
  BY <1>2, EmptyIsCurrent DEF Init
<1>4. QED
  BY <1>3 DEF Init, AllVisited, AllListed, ChainVisited, VaultVisited, Refreshing, Visiting, Listed

LEMMA VisitedInvariant == Spec => [](AllVisited /\ AllListed)
<1>1. Inv /\ LockHeld /\ PagesInv /\ (AllVisited /\ AllListed) /\ [Next]_vars =>
        (AllVisited /\ AllListed)'
  BY NextVisited
<1>2. QED
  BY <1>1, InitVisited, InvInvariant, LockCorrect, PagesInvariant, PTL DEF Spec

(* With no crash and no hand edit, whenever no write is under way every    *)
(* index is current, or listed stale, or was last visited by a refresh     *)
(* that swallowed a failure, and then it still names what there is unless  *)
(* a `stat` can fail; whatever disk operations fail.                       *)
THEOREM IndexesListed == Spec => []IndexCurrentOrListed
<1>1. ASSUME LockHeld, AllListed PROVE IndexCurrentOrListed
  <2>1. lock = Nobody => \A c \in Clients : ~Refreshing(c)
    BY <1>1, VaultAssumption DEF LockHeld, Refreshing, Visiting, Critical
  <2>2. QED
    BY <1>1, <2>1 DEF AllListed, Listed, IndexCurrentOrListed
<1>2. LockHeld /\ AllListed => IndexCurrentOrListed
  BY <1>1
<1>3. QED
  BY <1>2, VisitedInvariant, LockCorrect, PTL

(* The refresh that ends a write leaves the indexes up to the root         *)
(* refreshed or listed, whatever crashes and hand edits came before.       *)
THEOREM RefreshesListed == Spec => RefreshedOrListed
<1>1. ASSUME Inv, PagesInv, AllVisited, [Next]_vars, NEW c \in Clients,
             pc[c] = "index", pc'[c] = "done", ~Rebuilding(c), NEW d \in {req[c].ent.dir, Root}
      PROVE  Refreshed(d)' \/ d \in stale'
  <2>1. Refreshing(c)
    BY <1>1 DEF Refreshing, Visiting
  <2>2. Call(c) \/ Step(c)
    <3>1. ASSUME NEW x \in Clients, x # c, Call(x) \/ Step(x) PROVE FALSE
      <4>1. pc'[c] = pc[c]
        BY <1>1, <3>1, UpkeepSteps
      <4>2. QED
        BY <1>1, <4>1
    <3>2. ~(Crash \/ HandEdit \/ Quiesce \/ UNCHANGED vars)
      BY <1>1 DEF Crash, HandEdit, Quiesce, vars, local
    <3>3. QED
      BY <1>1, <3>1, <3>2 DEF Next
  <2>3. d \in Dirs
    BY <1>1, RecordsAssumption DEF Inv, CallShape, Rebuilding, Request, CreateRequest,
       DeriveRequest, ModifyRequest, LookupRequest, RebuildRequest
  <2>4. d \in Unvisited(c) \/ Listed(d)
    BY <1>1, <2>1 DEF AllVisited, ChainVisited
  <2>5. pc[c] \in Critical /\ ~(Commit(c) \/ RebuildScan(c) \/ RenderIndex(c))
    BY <1>1 DEF Critical, Commit, RebuildScan, RenderIndex, Go
  <2>6. Listed(d)' \/ (Refreshing(c) /\ d \in Unvisited(c))'
    BY <1>1, <2>1, <2>2, <2>3, <2>4, RefreshStep
  <2>7. ~Refreshing(c)'
    BY <1>1 DEF Refreshing, Visiting
  <2>8. QED
    BY <2>6, <2>7 DEF Listed
<1>2. Inv /\ PagesInv /\ AllVisited /\ [Next]_vars =>
        [\A c \in Clients :
           /\ pc[c] = "index" /\ pc'[c] = "done" /\ ~Rebuilding(c)
           => \A d \in {req[c].ent.dir, Root} : Refreshed(d)' \/ d \in stale']_vars
  BY <1>1
<1>3. QED
  BY <1>2, VisitedInvariant, InvInvariant, PagesInvariant, PTL DEF Spec, RefreshedOrListed

(* What leaves the stale list, but for a crash, has been refreshed.        *)
LEMMA StaleLeaves ==
  ASSUME Inv, PagesInv, AllVisited, [Next]_vars, crashes' = crashes,
         NEW d \in stale, d \notin stale'
  PROVE  Refreshed(d)'
<1>1. d \in Dirs
  BY DEF Inv, TypeOK
<1>2. ~(Crash \/ HandEdit \/ Quiesce \/ UNCHANGED vars)
  BY VaultAssumption DEF Crash, HandEdit, Quiesce, vars, Inv, TypeOK
<1>3. PICK c \in Clients : Call(c) \/ Step(c)
  BY <1>2 DEF Next
<1>4. SyncIndex(c) \/ RebuildDone(c)
  BY <1>3, UpkeepSteps DEF Commit, RebuildScan, RenderIndex, SyncIndexFails, Sweep, SweepFails,
     Finish, disk
<1>5. CASE SyncIndex(c)
  <2>1. PICK x : x = page[c].dir
    OBVIOUS
  <2>2. QED
    BY <1>1, <1>5, <2>1, Synced
<1>6. CASE RebuildDone(c)
  <2>1. pc[c] = "sweep" /\ todo[c] = {} /\ UNCHANGED <<files, index, doubt>>
    BY <1>6 DEF RebuildDone, Unlock, Go, disk
  <2>2. Refreshed(d)
    BY <1>1, <2>1 DEF AllVisited, VaultVisited
  <2>3. QED
    BY <2>1, <2>2, SameRefreshed
<1>7. QED
  BY <1>4, <1>5, <1>6

(* Whatever disk operations fail, a directory leaves the stale list, but   *)
(* for a crash, only once its index is current or its visit has swallowed  *)
(* a failure.                                                              *)
THEOREM StaleLeavesVisited ==
  Spec => [][crashes' = crashes => \A d \in stale \ stale' : Refreshed(d)']_vars
<1>1. Inv /\ PagesInv /\ AllVisited /\ [Next]_vars =>
        [crashes' = crashes => \A d \in stale \ stale' : Refreshed(d)']_vars
  BY StaleLeaves
<1>2. QED
  BY <1>1, VisitedInvariant, InvInvariant, PagesInvariant, PTL DEF Spec

(* When no failure is swallowed there is no doubt.                         *)
LEMMA NoDoubtStep ==
  ASSUME SilentFaults = {}, Inv, LockHeld, PagesInv, AllVisited, doubt = {}, [Next]_vars
  PROVE  doubt' = {}
<1>1. ASSUME NEW d \in Dirs, NEW failed, RemoveIfDangling(d, failed), ~failed PROVE doubt' = {}
  BY <1>1 DEF RemoveIfDangling, Visited
<1>2. ASSUME NEW c \in Clients, Call(c) \/ Step(c) PROVE doubt' = {}
  <2>1. CASE UNCHANGED doubt
    BY <2>1
  <2>2. CASE SyncIndex(c)
    <3>1. PICK d : d = page[c].dir
      OBVIOUS
    <3>2. d \in Dirs /\ page[c].body \in Rendered(d) /\ (page[c].failed <=> page[c].body # Wanted(d))
      BY <2>2, <3>1 DEF PagesInv, RenderFresh, SyncIndex, Inv, TypeOK, Render
    <3>3. Rendered(d) = {Wanted(d)}
      <4>1. \A unread \in {{}} : [i \in Ids |-> IF i \in unread THEN Broken ELSE files[d][i]] = files[d]
        BY <3>2 DEF Inv, TypeOK
      <4>2. QED
        BY <4>1 DEF Rendered, Unread, Seen, Wanted
    <3>4. ~page[c].failed
      BY <3>2, <3>3
    <3>5. QED
      BY <1>1, <2>2, <3>1, <3>2, <3>4 DEF SyncIndex, Visited
  <2>3. CASE Sweep(c)
    <3>1. PICK d \in todo[c] : d \in Dirs /\ RemoveIfDangling(d, Holds(d))
      BY <2>3, Swept
    <3>2. ~Holds(d)
      BY <2>3, <3>1, Swept DEF AllVisited, VaultVisited
    <3>3. QED
      BY <1>1, <3>1, <3>2
  <2>4. CASE RebuildScan(c)
    BY <2>4 DEF RebuildScan
  <2>5. QED
    BY <1>2, <2>1, <2>2, <2>3, <2>4, UpkeepSteps
       DEF Commit, RenderIndex, SyncIndexFails, SweepFails, Finish, RebuildDone
<1>3. CASE Crash \/ HandEdit \/ Quiesce \/ UNCHANGED vars
  BY <1>3 DEF Crash, HandEdit, Quiesce, vars
<1>4. QED
  BY <1>2, <1>3 DEF Next

(* While no failure is swallowed, a directory leaves the stale list, but   *)
(* for a crash, only once its index is current.                            *)
THEOREM StaleLeavesRefreshed == ASSUME SilentFaults = {} PROVE Spec => StaleUntilRefreshed
<1>1. Init => doubt = {}
  BY DEF Init
<1>2. Inv /\ LockHeld /\ PagesInv /\ AllVisited /\ doubt = {} /\ [Next]_vars => (doubt = {})'
  BY NoDoubtStep
<1>3. Inv /\ LockHeld /\ PagesInv /\ AllVisited /\ doubt = {} /\ [Next]_vars =>
        [crashes' = crashes => \A d \in stale \ stale' : Current(d)']_vars
  <2>1. SUFFICES ASSUME Inv, LockHeld, PagesInv, AllVisited, doubt = {}, [Next]_vars,
                        crashes' = crashes, NEW d \in stale, d \notin stale'
                 PROVE  Current(d)'
    OBVIOUS
  <2>2. Refreshed(d)' /\ doubt' = {}
    BY <2>1, StaleLeaves, NoDoubtStep
  <2>3. QED
    BY <2>2 DEF Refreshed
<1>4. QED
  BY <1>1, <1>2, <1>3, VisitedInvariant, InvInvariant, LockCorrect, PagesInvariant, PTL
     DEF Spec, StaleUntilRefreshed

(* A `rebuild_indexes` that succeeds has refreshed every index of the      *)
(* vault and emptied the stale list, also after a crash or hand edits and  *)
(* whatever disk operations fail.                                          *)
THEOREM RebuildsRepair == Spec => RebuildRepairs
<1>1. ASSUME Inv, PagesInv, AllVisited, [Next]_vars, NEW c \in Clients,
             pc[c] = "sweep", res'[c].status = "ok"
      PROVE  stale' = {} /\ \A d \in Dirs : Refreshed(d)'
  <2>1. res[c].status # "ok" /\ NoAnswer.status # "ok"
    BY <1>1 DEF Inv, CallShape, Pending, NoAnswer, Answered
  <2>2. Call(c) \/ Step(c)
    <3>1. ASSUME NEW x \in Clients, x # c, Call(x) \/ Step(x) PROVE FALSE
      <4>1. res'[c] = res[c]
        BY <1>1, <3>1, UpkeepSteps
      <4>2. QED
        BY <1>1, <2>1, <4>1
    <3>2. ~(HandEdit \/ Quiesce \/ UNCHANGED vars)
      BY <1>1, <2>1 DEF HandEdit, Quiesce, vars, local
    <3>3. ~Crash
      BY <1>1, <2>1 DEF Crash
    <3>4. QED
      BY <1>1, <3>1, <3>2, <3>3 DEF Next
  <2>3. Rebuilt(c)
    BY <1>1, <2>2, RebuildStep DEF AllVisited, InRebuild
  <2>4. QED
    BY <1>1, <2>3 DEF Rebuilt
<1>2. Inv /\ PagesInv /\ AllVisited /\ [Next]_vars =>
        [\A c \in Clients :
           (pc[c] = "sweep" /\ res'[c].status = "ok")
           => stale' = {} /\ \A d \in Dirs : Refreshed(d)']_vars
  BY <1>1
<1>3. QED
  BY <1>2, VisitedInvariant, InvInvariant, PagesInvariant, PTL DEF Spec, RebuildRepairs
=============================================================================
