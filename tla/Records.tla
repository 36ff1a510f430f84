------------------------------ MODULE Records ------------------------------
(***************************************************************************)
(* The data of a markdown vault: record files, the requests a client of    *)
(* one `VaultHandle` can make and what each request does to a file.  The   *)
(* operators here are shared by RecordStore (what the store promises) and  *)
(* Vault (how crates/markdown-store keeps the promise).                    *)
(*                                                                         *)
(* A parsed document is abstracted to its OKF `type` and to the set of     *)
(* edits applied to it, which is what lost updates and foreign records     *)
(* are told apart by.  `Broken` is a file whose frontmatter does not       *)
(* parse, `NoDoc` a name with no file.                                     *)
(***************************************************************************)
EXTENDS Naturals, Sequences

CONSTANTS
  Root,       \* the vault's root directory
  Dirs,       \* the root and the entity directories directly below it
  Ids,        \* file stems: the ids records are stored under
  Bases,      \* slugs an id is derived from
  Probe,      \* base |-> the ids probed for it, in order (base, base-2, ...)
  Types,      \* OKF `type` values
  Edits,      \* field assignments an update can make
  Entities,   \* [dir, type] pairs: the EntityRecords views in use
  Flat,       \* VaultLayout::Flat rather than PerEntityDir
  NoDoc, Broken, Untyped,
  NoRequest

ASSUME RecordsAssumption ==
  /\ Root \in Dirs
  /\ Probe \in [Bases -> Seq(Ids)]
  /\ Entities \subseteq [dir : Dirs, type : Types]
  /\ Flat \in BOOLEAN
  /\ Flat => \A ent \in Entities : ent.dir = Root

Doc  == [type : Types \cup {Untyped}, edits : SUBSET Edits]
Slot == Doc \cup {Broken, NoDoc}

ASSUME SentinelAssumption ==
  /\ Broken \notin Doc /\ NoDoc \notin Doc /\ Broken # NoDoc
  /\ NoDoc \notin Ids
  /\ Untyped \notin Types

(* Mutant: the entity's two names swapped.                                 *)
NewDocSwapped(ent) == [type |-> ent.dir, edits |-> {}]

(* `EntityRecords::create` types the document before it is written.        *)
NewDoc(ent) == [type |-> ent.type, edits |-> {}]

(* `EntityRecords::admits`                                                 *)
Admits(ent, doc) == ~Flat \/ doc.type \in {Untyped, ent.type}

(* What the closure of `EntityRecords::modify` leaves behind: the edit     *)
(* applied and the type stamped, or the very same document when the edit   *)
(* changes nothing (a clean document is never stamped).                    *)
Edited(ent, doc, edit) ==
  IF edit \in doc.edits THEN doc
  ELSE [type |-> ent.type, edits |-> doc.edits \cup {edit}]

(* How a lookup of `slot` by `ent` ends, in the order the code decides:    *)
(* missing file, unparseable frontmatter, another entity's record.         *)
LookupStatus(ent, slot) ==
  CASE slot = NoDoc                          -> "not_found"
    [] slot = Broken                         -> "parse_error"
    [] slot \in Doc /\ ~Admits(ent, slot)    -> "not_found"
    [] OTHER                                 -> "ok"

(* Mutant: a removal that never asks whose the record is.                  *)
RemoveStatusBlind(ent, slot) == IF slot = NoDoc THEN "not_found" ELSE "ok"

(* `EntityRecords::remove` parses the file only in a flat vault.           *)
RemoveStatus(ent, slot) ==
  IF Flat THEN LookupStatus(ent, slot)
  ELSE IF slot = NoDoc THEN "not_found" ELSE "ok"

(* `next_free_id`: the first candidate no file is stored under.            *)
FreeProbes(slots, base) ==
  {n \in DOMAIN Probe[base] : slots[Probe[base][n]] = NoDoc}

DerivedId(slots, base) ==
  Probe[base][CHOOSE n \in FreeProbes(slots, base) :
                \A m \in FreeProbes(slots, base) : n <= m]

-----------------------------------------------------------------------------
CreateRequest  == [op : {"create"}, ent : Entities, id : Ids]
DeriveRequest  == [op : {"derive"}, ent : Entities, base : Bases]
ModifyRequest  == [op : {"modify"}, ent : Entities, id : Ids, edit : Edits]
LookupRequest  == [op : {"remove", "read"}, ent : Entities, id : Ids]
RebuildRequest == [op : {"rebuild"}]

Request == CreateRequest \cup DeriveRequest \cup ModifyRequest
           \cup LookupRequest \cup RebuildRequest

ASSUME NoRequestAssumption == NoRequest \notin Request

Status == {"none", "pending", "ok", "not_found", "already_exists",
           "parse_error", "refused", "io_error", "panicked"}

(* An answer: how the call ended, with the id a create chose or the        *)
(* document a read returned.                                               *)
Answer == [status : Status, val : Ids \cup Slot]

Answered(status, val) == [status |-> status, val |-> val]
NoAnswer == Answered("none", NoDoc)
Pending  == Answered("pending", NoDoc)
=============================================================================
