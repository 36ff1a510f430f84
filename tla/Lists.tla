------------------------------- MODULE Lists -------------------------------
(***************************************************************************)
(* Lists read page by page while other clients write.  The server answers  *)
(* a list of a paginated entity with two reads of the store, the page and  *)
(* then the count (http.rs).  Three readers use it, one per behaviour:     *)
(*   "admin"      a list screen (useAdminEntity.ts): it asks again without *)
(*                waiting for the answers still in flight;                 *)
(*   "relations"  the walk over every page of a list (adminListAll.ts);    *)
(*   "api"        a client that follows links.next until it is null.       *)
(***************************************************************************)
EXTENDS Pages

CONSTANTS Sites,            \* who reads, the server's maxLimit, and the bounds: how many places
                            \* a list has, writes of them and calls of the screen
          Paged, Plain,     \* entities with and without pagination
          Unknown,          \* a route that names no entity
          Sizes,            \* page sizes a client asks for
          DefaultLimit,
          MaxOffset         \* the greatest page[offset], u32::MAX

ASSUME ListsAssumption ==
    /\ Sites \subseteq [screen : {"admin", "relations", "api"}, max : Nat \ {0},
                       room : Nat, writes : Nat, acts : Nat]
    /\ MaxOffset \in Nat /\ Sizes \subseteq Nat \ {0} /\ DefaultLimit \in Nat \ {0}
    /\ Paged \cap Plain = {} /\ Unknown \notin Paged \cup Plain

Entities == Paged \cup Plain
PageCap  == 1000

VARIABLES site,    \* one of Sites
          rows,    \* the places of each entity's records in its list, in the order it is sorted by
          asks,    \* the list requests in flight
          view,    \* the state of useAdminEntity
          walk,    \* the state of fetchAllItems, or of the client that follows links
          left     \* [writes, acts]: what the bounds leave
vars == <<site, rows, asks, view, walk, left>>

Ids     == 1 .. site.room                                 \* the places of a list
Room(e) == IF e \in Paged THEN Ids ELSE {i \in Ids : i = 1}   \* bound: one record where nothing is paged

(* torn is a history variable: a record was created between the two reads. *)
Ask(n, e, offset, limit) ==
    [n |-> n, entity |-> e, offset |-> offset, limit |-> limit, at |-> "sent",
     items |-> {}, total |-> 0, torn |-> FALSE]

NewView(e) ==
    [entity |-> e, page |-> 1, limit |-> DefaultLimit, total |-> 0, items |-> {},
     loading |-> FALSE, error |-> FALSE, asked |-> 0,
     shown |-> [entity |-> Unknown, offset |-> 0, limit |-> 0, torn |-> FALSE]]

(* The history of a walk, which no step reads: the rows of the list it has *)
(* read (seen), those there from its start that it has not (missing), how  *)
(* often it read a row again, and the writes under it.                     *)
NewWalk(e, limit, offset) ==
    [at |-> "going", entity |-> e, limit |-> limit, first |-> offset, pages |-> 0, most |-> 0,
     read |-> 0, seen |-> {}, missing |-> rows[e], again |-> 0, creates |-> 0, deletes |-> 0, moves |-> 0]

NoWalk == [at |-> "none", entity |-> Unknown, limit |-> DefaultLimit, first |-> 0, pages |-> 0, most |-> 0,
           read |-> 0, seen |-> {}, missing |-> {}, again |-> 0, creates |-> 0, deletes |-> 0, moves |-> 0]

Init ==
    /\ site \in Sites
    /\ rows \in {r \in [Entities -> SUBSET Ids] : \A e \in Entities : r[e] \subseteq Room(e)}
    /\ left = [writes |-> site.writes, acts |-> site.acts]
    /\ \/ /\ site.screen = "admin"
          /\ \E e \in Entities \cup {Unknown} : view = NewView(e)
          /\ walk = NoWalk /\ asks = {}
       \/ /\ site.screen = "relations"
          /\ view = NewView(Unknown)
          /\ \E e \in Entities : /\ walk = NewWalk(e, site.max, 0)
                                 /\ asks = {Ask(0, e, 0, site.max)}
       \/ /\ site.screen = "api"
          /\ view = NewView(Unknown)
          /\ \E e \in Paged, limit \in Sizes, offset \in 0 .. MaxOffset :
                /\ walk = NewWalk(e, limit, offset)
                /\ asks = {Ask(0, e, offset, limit)}

-----------------------------------------------------------------------------
(* The server. *)

Served(a) == Least(a.limit, site.max)     \* ontogen_page

Contents(a) == IF a.entity \in Paged THEN Page(rows[a.entity], a.offset, Served(a)) ELSE rows[a.entity]

(* An offset no request can name is refused before the list is read.       *)
List(a) ==
    /\ a.at = "sent" /\ (a.entity \in Paged => a.offset <= MaxOffset)
    /\ asks' = (asks \ {a}) \cup
         {[a EXCEPT !.at = IF a.entity \in Paged THEN "listed" ELSE "ready", !.items = Contents(a)]}
    /\ walk' = IF walk.at # "going" THEN walk
               ELSE [walk EXCEPT !.again = @ + Cardinality(Contents(a) \cap walk.seen),
                                 !.seen = @ \cup Contents(a), !.missing = @ \ Contents(a)]
    /\ UNCHANGED <<site, rows, view, left>>

Count(a) ==
    /\ a.at = "listed"
    /\ asks' = (asks \ {a}) \cup {[a EXCEPT !.at = "ready", !.total = Cardinality(rows[a.entity])]}
    /\ UNCHANGED <<site, rows, view, walk, left>>

Fail(a) ==
    /\ a.at \in {"sent", "listed"}
    /\ asks' = (asks \ {a}) \cup {[a EXCEPT !.at = "failed", !.items = {}]}
    /\ UNCHANGED <<site, rows, view, walk, left>>

Writes(e, records) ==
    /\ left.writes > 0
    /\ left' = [left EXCEPT !.writes = @ - 1]
    /\ rows' = [rows EXCEPT ![e] = records]
    /\ UNCHANGED <<site, view>>

Walks(e) == walk.at = "going" /\ walk.entity = e

Create(e, i) ==
    /\ i \notin rows[e]
    /\ Writes(e, rows[e] \cup {i})
    /\ asks' = {[a EXCEPT !.torn = @ \/ (a.entity = e /\ a.at = "listed")] : a \in asks}
    /\ walk' = IF Walks(e) THEN [walk EXCEPT !.creates = @ + 1] ELSE walk

Delete(e, i) ==
    /\ i \in rows[e]
    /\ Writes(e, rows[e] \ {i})
    /\ walk' = IF Walks(e)
                 THEN [walk EXCEPT !.deletes = @ + 1, !.seen = @ \ {i}, !.missing = @ \ {i}] ELSE walk
    /\ UNCHANGED asks

(* The row at place i once it is at place j. *)
Moved(i, j, places) == IF i \in places THEN (places \ {i}) \cup {j} ELSE places

(* An update of what the list is sorted by.  One that leaves the row where *)
(* it is in the list is no step here.                                      *)
Move(e, i, j) ==
    /\ i \in rows[e] /\ j \notin rows[e]
    /\ Writes(e, Moved(i, j, rows[e]))
    /\ walk' = IF Walks(e)
                 THEN [walk EXCEPT !.moves = @ + 1, !.seen = Moved(i, j, @), !.missing = Moved(i, j, @)]
                 ELSE walk
    /\ UNCHANGED asks

-----------------------------------------------------------------------------
(* The list screen. *)

(* fetchList from the state v, with the requests still in flight.  It does *)
(* nothing when the route names no entity.                                 *)
FetchList(v, inFlight) ==
    IF v.entity = Unknown
      THEN view' = v /\ asks' = inFlight
      ELSE /\ view' = [v EXCEPT !.asked = @ + 1, !.loading = TRUE, !.error = FALSE]
           /\ asks' = inFlight \cup
                {Ask(v.asked + 1, v.entity, (v.page - 1) * v.limit, v.limit)}

Acts(v) ==
    /\ site.screen = "admin" /\ left.acts > 0
    /\ left' = [left EXCEPT !.acts = @ - 1]
    /\ FetchList(v, asks)
    /\ UNCHANGED <<site, rows, walk>>

LastPage == TotalPages(view.total, view.limit)

Refresh        == Acts(view)
NextPage       == view.page < LastPage /\ Acts([view EXCEPT !.page = @ + 1])
PrevPage       == view.page > 1 /\ Acts([view EXCEPT !.page = @ - 1])
GoToPage(p)    == Acts([view EXCEPT !.page = Greatest(1, Least(p, LastPage))])

SetPageSize(s) == Acts([view EXCEPT !.limit = s, !.page = 1])

(* The route names another entity.  A request in flight keeps its number:  *)
(* it is outdated by the next one, which an unknown entity never sends.    *)
Switched(e) == [view EXCEPT !.entity = e, !.items = {}, !.error = FALSE, !.page = 1,
                            !.total = 0, !.limit = DefaultLimit]
Switch(e)   == e # view.entity /\ Acts(Switched(e))

(* Mutant: every answer lands. *)
LatestAny(a) == site.screen = "admin"

Latest(a) == site.screen = "admin" /\ a.n = view.asked

Drop(a) ==
    /\ site.screen = "admin" /\ a.at \in {"ready", "failed"} /\ ~Latest(a)
    /\ asks' = asks \ {a}
    /\ UNCHANGED <<site, rows, view, walk, left>>

(* Mutant: the page is left where it is when the total shrinks. *)
BeyondNever(a) == FALSE

Beyond(a) == a.entity \in Paged /\ view.page > TotalPages(a.total, view.limit)

Clamp(a) ==
    /\ a.at = "ready" /\ Latest(a) /\ Beyond(a)
    /\ FetchList([view EXCEPT !.page = TotalPages(a.total, view.limit)], asks \ {a})
    /\ UNCHANGED <<site, rows, walk, left>>

Show(a) ==
    /\ a.at = "ready" /\ Latest(a) /\ ~Beyond(a)
    /\ view' = [view EXCEPT !.items = a.items, !.loading = FALSE,
                            !.total = IF a.entity \in Paged THEN a.total ELSE @,
                            !.shown = [entity |-> a.entity, offset |-> a.offset,
                                       limit |-> a.limit, torn |-> a.torn]]
    /\ asks' = asks \ {a}
    /\ UNCHANGED <<site, rows, walk, left>>

(* Mutant: the error does not end the loading. *)
ShowErrorOnly(a) ==
    /\ a.at = "failed" /\ Latest(a)
    /\ view' = [view EXCEPT !.error = TRUE]
    /\ asks' = asks \ {a}
    /\ UNCHANGED <<site, rows, walk, left>>

ShowError(a) ==
    /\ a.at = "failed" /\ Latest(a)
    /\ view' = [view EXCEPT !.error = TRUE, !.loading = FALSE]
    /\ asks' = asks \ {a}
    /\ UNCHANGED <<site, rows, walk, left>>

-----------------------------------------------------------------------------
(* The walks over a whole list. *)

(* Mutant: no page more than the first total needs. *)
MostPagesExact(total) == Least(IF total > 0 THEN Ceiling(total, walk.limit) ELSE PageCap, PageCap)

(* The page ceiling, taken from the total of the first page. *)
MostPages(total) == Least(IF total > 0 THEN Ceiling(total, walk.limit) + 1 ELSE PageCap, PageCap)

(* What the walk keeps of an answer, going on from offset unless it is None. *)
Advance(a, most, offset, limit) ==
    /\ walk' = [walk EXCEPT !.read = @ + Cardinality(a.items), !.pages = @ + 1, !.most = most,
                            !.at = IF offset = None THEN "done" ELSE "going"]
    /\ asks' = (asks \ {a}) \cup
         (IF offset = None THEN {} ELSE {Ask(walk.pages + 1, a.entity, offset, limit)})
    /\ UNCHANGED <<site, rows, view, left>>

Collect(a) ==
    LET most  == IF walk.pages = 0 THEN MostPages(a.total) ELSE walk.most
        read  == walk.read + Cardinality(a.items)
        ended == \/ a.entity \in Plain
                 \/ Cardinality(a.items) < walk.limit
                 \/ read >= a.total
                 \/ walk.pages + 1 >= most
    IN  /\ site.screen = "relations" /\ a.at = "ready"
        /\ Advance(a, most, IF ended THEN None ELSE read, walk.limit)

Follow(a) ==
    /\ site.screen = "api" /\ a.at = "ready"
    /\ Advance(a, 0, NextOffset(a.offset, Served(a), a.total, MaxOffset), Served(a))

WalkFails(a) ==
    /\ site.screen \in {"relations", "api"} /\ a.at = "failed"
    /\ walk' = [walk EXCEPT !.at = "failed"]
    /\ asks' = asks \ {a}
    /\ UNCHANGED <<site, rows, view, left>>

-----------------------------------------------------------------------------
Answers(a) == \/ List(a) \/ Count(a) \/ Fail(a)
              \/ Drop(a) \/ Clamp(a) \/ Show(a) \/ ShowError(a)
              \/ Collect(a) \/ Follow(a) \/ WalkFails(a)

Next ==
    \/ \E a \in asks : Answers(a)
    \/ \E e \in Entities : \E i \in Room(e) :
            Create(e, i) \/ Delete(e, i) \/ \E j \in Room(e) : Move(e, i, j)
    \/ Refresh \/ NextPage \/ PrevPage
    \/ \E p \in 0 .. site.room + 1 : GoToPage(p)
    \/ \E s \in Sizes : SetPageSize(s)
    \/ \E e \in Entities \cup {Unknown} : Switch(e)

Spec == Init /\ [][Next]_vars

(* A request sent is served, and its answer delivered to the page that     *)
(* waits for it.  Nothing makes anybody write or click.                    *)
FairSpec == Spec /\ WF_vars(\E a \in asks : Answers(a))

-----------------------------------------------------------------------------
AskType == [n : Nat, entity : Entities, offset : Nat, limit : Nat \ {0},
            at : {"sent", "listed", "ready", "failed"}, items : SUBSET Ids, total : 0 .. site.room,
            torn : BOOLEAN]
ViewType == [entity : Entities \cup {Unknown}, page : Nat \ {0}, limit : Nat \ {0}, total : 0 .. site.room,
             items : SUBSET Ids, loading : BOOLEAN, error : BOOLEAN, asked : Nat,
             shown : [entity : Entities \cup {Unknown}, offset : Nat, limit : Nat, torn : BOOLEAN]]
WalkType == [at : {"none", "going", "done", "failed"}, entity : Entities \cup {Unknown}, limit : Nat \ {0},
             first : Nat, pages : Nat, most : Nat, read : Nat, seen : SUBSET Ids,
             missing : SUBSET Ids, again : Nat, creates : Nat, deletes : Nat, moves : Nat]

(* The variables have their types: no page before the first is asked for.  *)
TypeOK ==
    /\ site \in Sites
    /\ rows \in [Entities -> SUBSET Ids]
    /\ asks \subseteq AskType
    /\ view \in ViewType
    /\ walk \in WalkType
    /\ left \in [writes : 0 .. site.writes, acts : 0 .. site.acts]

(* A screen that is not loading and shows no error shows the page it says  *)
(* it shows, of the entity its route names: an answer overtaken by a later *)
(* request never lands, however the answers are ordered.                   *)
ShowsLatest ==
    view.asked > 0 /\ ~view.loading /\ ~view.error /\ view.entity \in Entities =>
        /\ view.shown.entity = view.entity
        /\ view.shown.offset = (view.page - 1) * view.limit
        /\ view.shown.limit = view.limit

(* The screen is never on a page beyond the total it displays: when rows   *)
(* were deleted elsewhere, fetchList goes back to the last page there is.  *)
PageInRange == view.page <= TotalPages(view.total, view.limit)

(* The screen stands on an empty page after the first, which has no        *)
(* controls to leave it, only when a record was created between the two    *)
(* reads of the answer it shows.                                           *)
NotStranded ==
    ~view.loading /\ ~view.error /\ view.entity \in Paged /\ view.page > 1 /\ view.items = {}
        => view.shown.torn

(* A walk that ended misses at most one of the rows that were there all    *)
(* along for each row that was deleted under it or moved in the list by an *)
(* update, the moved ones included, and none when nothing was: the ceiling *)
(* on its pages leaves room for as many creates as one page holds, as long *)
(* as PageCap pages hold the list.  For a client of links.next the first   *)
(* page is at offset 0 and every page of the list can be requested.        *)
Tolerated ==
    \/ /\ site.screen = "relations" /\ walk.creates <= walk.limit
       /\ site.room <= PageCap * walk.limit
    \/ /\ site.screen = "api" /\ walk.first = 0
       /\ LET limit == Least(walk.limit, site.max) IN site.room <= LastRequestable(limit, MaxOffset) + limit
MissesFew ==
    walk.at = "done" /\ Tolerated => Cardinality(walk.missing) <= walk.deletes + walk.moves

(* A walk reads a row again at most once for each row that was created     *)
(* under it or moved in the list by an update.                             *)
RepeatsFew == walk.again <= walk.creates + walk.moves

(* The links of an answer name pages a request can ask for.  On the grid   *)
(* of the pages from 0, last is the greatest page with a record, next and  *)
(* prev the neighbours with one; from beyond the end prev leads back to    *)
(* the last page, and prev and next of a page off the grid join it without *)
(* a gap.                                                                  *)
LinksNameThePages ==
    \A a \in {b \in asks : b.at = "ready" /\ b.entity \in Paged} :
        LET limit == Served(a)
            grid  == {g \in 0 .. MaxOffset : g % limit = 0}
            real  == {g \in grid : g < a.total}
            last  == LastOffset(limit, a.total, MaxOffset)
            prev  == PrevOffset(a.offset, limit, a.total, MaxOffset)
            next  == NextOffset(a.offset, limit, a.total, MaxOffset)
        IN  /\ {prev, next} \subseteq 0 .. MaxOffset \cup {None}
            /\ last \in {0} \cup real /\ \A g \in real : g <= last
            /\ prev = None <=> a.offset = 0
            /\ a.offset >= a.total /\ a.offset > 0 => prev = last /\ next = None
            /\ a.offset \in real =>
                  /\ next = None => a.offset = last
                  /\ next # None => next \in real /\ \A g \in real : g <= a.offset \/ g >= next
                  /\ prev # None => prev \in real /\ \A g \in real : g <= prev \/ g >= a.offset
            /\ a.offset < a.total /\ a.offset \notin grid =>
                  /\ next # None => next = a.offset + limit
                  /\ prev + limit >= a.offset

(* A screen that loads stops loading, also when what it asked for last     *)
(* fails or comes after an answer to what it asked for before.             *)
LoadingEnds == [](view.loading => <>~view.loading)
=============================================================================
