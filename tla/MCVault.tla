------------------------------ MODULE MCVault ------------------------------
(* Instances of Vault for TLC.                                             *)
EXTENDS Vault, TLC

CONSTANTS root, tasks, notes, a, a2, a3, slug, Task, Note, title, body, c1, c2, c3

OneDir  == {root, tasks}
TwoDirs == {root, tasks, notes}

ThreeIds == {a, a2, a3}

(* The probes of the one slug.  There are never fewer of them than calls   *)
(* that create, so the search always ends, as the unbounded one does.      *)
NoProbe    == [b \in {} |-> <<>>]
ProbeThree == (slug :> <<a, a2, a3>>)

TaskView == {[dir |-> tasks, type |-> Task]}
TwoViews == {[dir |-> tasks, type |-> Task], [dir |-> notes, type |-> Note]}
FlatPair == {[dir |-> root, type |-> Task], [dir |-> root, type |-> Note]}

TwoClients   == {c1, c2}
ThreeClients == {c1, c2, c3}

(* What a person leaves in a file: a record without a type or of another   *)
(* entity; nothing, or broken frontmatter.                                 *)
TypedHand == {[type |-> Untyped, edits |-> {}], [type |-> Note, edits |-> {}]}
FewHand == {NoDoc, Broken}

(* ... and in an index.md: nothing, another shape, or a list in the store's *)
(* shape of a record and the log.md, or of a directory.                    *)
Blank     == [i \in Ids |-> NoDoc]
LogList   == [docs |-> [Blank EXCEPT ![a] = Broken], subs |-> {}, log |-> TRUE]
DirList   == [docs |-> Blank, subs |-> {notes}, log |-> FALSE]
PlainText == {NoIndex, Foreign}
AnyText   == PlainText \cup {LogList, DirList}

Symmetry == Permutations(Clients)
=============================================================================
