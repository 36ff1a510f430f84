# Formal models of Ontogen's runtime

Ontogen is a build-time code generator. `build.rs` parses annotated structs and emits persistence code, a CRUD store,
an API layer, server transports and TypeScript clients. What runs afterwards, and what can go wrong with concurrency,
failing disks, crashes and partly applied updates, is a small number of stateful parts: the markdown vault
(`crates/markdown-store`), the store code the generator emits for its two backends, the event subscriptions, and the
clients that read lists page by page. At build time the one algorithm that is more than a traversal decides which types
the TypeScript output declares, and in which order (`crates/ontogen-ts`). This directory models those parts in TLA+,
checks small instances with TLC and proves the central results with TLAPS.

## Inventory

| Component | State | Operations | What is hard about it |
| --- | --- | --- | --- |
| Vault writes (`crates/markdown-store/src/store.rs`, `fsops.rs`) | record files, the write lock, its poison flag | create (given or derived id), modify, remove, read | clones of one handle write concurrently; reads take no lock; a disk can fail at every step; a closure can panic; a crash between renames |
| OKF indexes (`store.rs`, `okf.rs`, `walk.rs`) | `index.md` per directory, the in-memory stale list | refresh after a write, `rebuild_indexes`, `stale_indexes` | record and indexes are separate renames; failed refreshes; hand-written files that must survive; repair after a crash |
| Vault listings (`store.rs`, `walk.rs`) | none of its own | `list_paths`, `list_ids`, `read_all`, `count` | walk and reads are separate steps without a lock; the cap |
| Exact names (`names.rs`) | one cached answer: does the filesystem alias names | `exact` before every use of an opened file | the check and the use are separate for readers |
| Ids and layout (`id.rs`, `layout.rs`) | none | slug, probe sequence, validation | truncation, reserved names, agreement of create and lookup rules |
| Documents (`frontmatter.rs`, `wikilink.rs`) | a parsed document and its dirty flag | parse, set, merge, render | lossless round trip, no-op detection |
| Generated store, markdown backend (`src/store`, emitted `crates/parity/markdown`) | records of several entities linked by foreign keys, an event channel | create, update, delete, list, get per entity | one call is many vault calls, each locked on its own; no rollback |
| Generated store, SeaORM backend (`src/store`, emitted `crates/parity/seaorm`) | tables, junction tables, a connection pool, an event channel | the same, in transactions | reads before the transaction; whole-row updates; busy database; pool of one |
| Events (`crates/ontogen-core/src/events.rs`, the SSE handler of `src/servers/generators/http.rs`) | a broadcast channel, a registry of tasks, a resume token per connection | spawn, cancel, forward, stream | lag, cancellation against a task that ends by itself, resuming |
| Generated TypeScript client (`src/clients/generators/transport.rs`) | a connection, a timer, the last id | connect, handle, reconnect, unsubscribe | frames lost with a connection, callbacks that unsubscribe |
| JSON:API pages (`crates/ontogen-jsonapi/src/links.rs`, list handlers of `http.rs`) | none (pure per request) | list, count, pagination links | a page and its total are two reads; boundaries; the greatest offset |
| JSON:API requests and documents (`include.rs`, `document.rs`, `query.rs`, `request.rs`, `error.rs`) | none | parsing, compound documents, errors | spellings, percent-encoding, duplicates |
| List order (`crates/ontogen-core/src/order.rs`, `src/store/gen_order.rs`) | none | sort keys, comparators, `ORDER BY` | the order must be total, whatever keys are named |
| Core, the rest (`crates/ontogen-core`) | none | id strategy, change events, `write_if_changed` | - |
| Generator (`src/`: schema, persistence, api, servers, clients, pipeline, resource) | one pass over a schema | parse, emit | mostly text; errors found at build time |
| TypeScript emission (`crates/ontogen-ts`) | a type pool, the `use`s of each module | collect, resolve, order, rename, emit | re-exports, types of one name, cyclic types, name collisions |
| Front-end layer (`packages/nuxt_admin_layer`) | what a list screen shows, its page, size and entity; requests in flight | fetch, page, resize, switch; read a whole list | answers overtake each other; rows come and go between requests |
| Pilots and fixtures (`crates/markdown-pilot`, `name-safety`, `parity`, `examples`, `tests`) | - | - | consumers of the parts above |

### How the parts interact

* A generated store calls the vault (markdown) or the database (SeaORM) once or several times per API call and then
  sends a change event on a broadcast channel. Nothing spans those calls in the markdown backend.
* Every clone of a `VaultHandle` shares one write lock, one stale list and one name probe. All writes go through
  `write_new`, `rewrite` and `delete`, which refresh the indexes before the lock is released. Readers share nothing but
  the files.
* Files are replaced by rename, so a reader sees an old or a new file. People edit the same files by hand.
* A change event reaches a webview through a task of the subscription registry, or a browser through an SSE stream;
  both read the broadcast channel and may fall behind it.
* A list handler asks the store for a page and then for the count. A list screen sends such requests without waiting for
  the answers to earlier ones; the relation tables and JSON:API clients walk over the pages one after the other.

### What makes each part correct

* Vault writes: every call takes effect at one instant between its invocation and its return, creation never
  overwrites, a derived id is the first free one, no update is lost, a failed call changes nothing, a panicked holder
  blocks no one.
* Indexes: after a write every index from the record up is current or listed, and a successful rebuild makes all of them
  current, where no failed read was swallowed on the way; beside no records an `index.md` that is not of the store's shape,
  or that links something still there, is not lost.
* Flat vaults: an entity never changes another entity's record.
* Listings: every record present throughout is listed, no record listed was absent throughout.
* Generated stores: a call that shares no record with an overlapping one does what it would do alone; a refused write
  has written nothing; a commit is all or nothing; a successful write is announced.
* Events: what a subscriber did not get is reported as lost exactly where it is missing; a subscription ends, once; a
  client that resumes loses nothing an event fn replays.
* Lists: the order is total; a screen at rest shows the page it says it shows; a walk over all pages misses at
  most a row for each delete under it and reads at most one again for each create, and either for each update that moves a
  row in the order of the list.
* TypeScript types: what the roots reach is declared, once, dependencies first; a name that its imports lead to a
  scanned type by is linked to that type and no other.

## Modules

| Module | What it is |
| --- | --- |
| `Records` | The data of a vault: documents abstracted to their type and the set of edits applied, requests, answers, what a lookup, an edit, a removal and a probe do. |
| `RecordStore` | The abstract specification of the vault: an atomic map from ids to documents. |
| `Vault` | The detailed model of `crates/markdown-store` writes and indexes, and its properties. It instantiates `RecordStore` (`RS`) with `recs <- files`. |
| `VaultProofs` | Theorems about `Vault`, checked by TLAPS. |
| `MCVault` | The constants of the TLC instances of `Vault`. |
| `ItemTree` | The data of the two generated stores: an entity with a foreign key to itself and a `has_many` of its own records, the calls on it, and what a call does when nothing interferes (`Outcome`, `Applied`). |
| `MarkdownItems`, `MCItems` | The generated store over a vault. It takes from `Vault` that one vault call is atomic, which `VaultProofs!VaultImplementsRecordStore` proves. |
| `ItemProofs` | Theorems about `MarkdownItems`. |
| `SeaormItems`, `MCSeaorm` | The generated store over SeaORM and SQLite. |
| `SeaormProofs` | Theorems about `SeaormItems`. |
| `Broadcast` | A tokio broadcast channel as far as the event code uses it, and `next_frame`. |
| `Subscriptions`, `SubscriptionProofs` | The registry of IPC subscriptions and its tasks, and theorems about it. EXTENDS `Broadcast`. |
| `SseClient`, `SseProofs` | One SSE subscription, server stream and generated TypeScript client, and theorems about it. EXTENDS `Broadcast`. |
| `Pages` | Pages of an ordered list and where the links of a page lead. |
| `Lists`, `MCLists`, `ListProofs` | The list handler and its three readers while rows come and go. EXTENDS `Pages`. |
| `SortOrder` | The order of two records by the keys of a request and the id, and that it is total. Operators and theorems only. |
| `Resolution` | Which type a Rust reference names, by the `use`s of the scanned modules. |
| `TypeOrder`, `MCTypes`, `TypeProofs` | The types the roots reach and the order of their declarations. EXTENDS `Resolution`. |

Definitions commented `Mutant:` are variants of the definition after them with one plausible bug. Nothing uses them; the
mutation check puts each in place of the right one and expects the property named with it in `PROJECT.json` to fail.
Variables under "what the properties compare with, and no action reads" are history variables.

### Vault

One client is one thread or task with a clone of the `VaultHandle`. `pc` goes `idle`, `wait` (for the write lock),
`locked`, `commit`, then `render`/`index` once per directory, `sweep` (rebuilds only), `done`.

| Model | Code (`crates/markdown-store/src`) |
| --- | --- |
| `files`, `index` | the record files and `index.md` files, as a reader sees them: temporary files are hidden from all readers |
| `lock`, `poisoned`, `stale` | `write_guard`, its poison flag, the set behind `stale_indexes` |
| `Create`, `Derive`, `Modify`, `Remove`, `Read` | `create_record`, `create_record_derived`, `EntityRecords::modify`, `remove`, `read_opt`; the early returns are the `Refuse` disjuncts, in the code's order (`LookupStatus`, `RemoveStatus`) |
| `Commit`, `CommitFails` | `fsops::write_atomic`, `write_new`, `remove`: one rename or unlink |
| `RenderIndex`, `SyncIndex`, `SyncIndexFails` | `refresh_indexes` and `sync_index`, directory by directory up to the root; rendering and renaming are separate steps |
| `RebuildScan`, `Sweep`, `SweepFails`, `RebuildDone` | `rebuild_indexes` |
| `Crash`, `HandEdit` | the process ends and the vault is opened again; a person edits a record or an index |

A refresh looks at the disk many times, and not every failure of a look is reported. `DiskFaults` stands for those that
are: the refresh fails and the directory goes on the stale list, a rebuild ends with the error. `SilentFaults` names those
the code takes for an answer:

| In `SilentFaults` | Code | What the model does |
| --- | --- | --- |
| `record` | `okf.rs:247`, `fsops::read(path).ok()` | `Rendered`: any records of the directory are listed untyped |
| `stat` | `walk.rs:96`, `:120`, `:161`, `dir.exists()`; `okf.rs:138`, `target.is_file()`; `walk::holds_non_index_file` | `Rendered`: subdirectories, or all there is, are missing; `RemoveIfDangling`: a link that resolves counts as dangling; `RebuildScan` and `Sweep` find nothing |
| `index` | `okf.rs:111`, `let Ok(Some(current)) = .. else { return Ok(()) }` | `RemoveIfDangling`: an index that cannot be read back stays |
| `walk` | `okf.rs:136`, `is_ok_and` | `RemoveIfDangling`: an index that links a directory which cannot be walked stays |

Each lets a refresh, or a whole rebuild, succeed with a wrong index. The history variable `doubt`, which no guard reads,
holds the directories whose last visit swallowed a failure that mattered. `Refreshed` is what the properties ask of a visit:
the index is current unless the directory is in `doubt`, and as long as no `stat` fails it names the right records and
directories even then. The same failed `is_file` in the check of a create (`fsops::exists`) takes a file for absent; that is
not modelled.

An `index.md` is missing, of another shape (`Foreign`), or of the store's shape: the records and directories it links and
whether it links the directory's `log.md`, which is a file but no record. A person may leave any of these (`HandTexts`).
`Dangles` decides by the links, and `LinksFile` is the case that has to be kept.

A hand edit happens only while no write is under way: the crate documents a single owner, and an editor that saves
between the read and the rename of one `modify` is overwritten by design. A panicking closure poisons the lock, which
later calls take all the same: `Linearizable` fails when a call ends on the poison (`AcquireUnwrap`), since `RecordStore` lets
only a modification panic, and `EveryCallReturns` fails when the lock is not released on the unwind (`FinishKeepsLock`).

### The generated stores

Both models are of the same entity, `Item` with `parent` and `children` (the shape of the pilots and the parity
crates): `rows`/`store` maps an id to the foreign key of its record, or to `Absent`. A behaviour belongs to one of
`Sites`: `required` is whether the foreign key is a `String` or an `Option`, which changes what is emitted, `faulty`
whether vault calls or statements can fail, `pool` the connections of the pool. `Derived` is a create that gives no id.

* `MarkdownItems`: a step is one vault call. `Call` takes the request; `CheckSelf`, `CheckListed`, `CheckDropped` are the
  checks before the first write (`store/linked_ids.rs`, `store/has_many.rs`); `WriteNew`/`WriteUpdate` the record;
  `Link`/`Unlink` one `set_item_parent` each; `Load`, `List`, `Scan`, `Scanned` are `get_item` with
  `populate_relations`, whose `read_all` lists the directory and then reads file by file; `VaultFails` is the `?` on any
  vault call.
* `SeaormItems`: a step is one SQL statement. `Find`, `Populate` and the checks run on the pool before `Begin`;
  `Insert`/`Update`, `SetParent` and `Commit` in the transaction; `Load` and `List` on the pool after it. `view` is the
  table as the one writer's transaction sees it. `Abort` is a failed statement, an exhausted pool or busy timeout, and a
  future dropped at an await: whichever it is, an open transaction rolls back.

`ApartIsExact` is the refinement statement of both: a call that shares no record with any overlapping call ends, writes
and answers exactly as one step of `Outcome`/`Applied` on the table it found. What two overlapping calls on the *same*
record leave behind depends on their order, and the store guide says so; the model claims nothing there but
`AllOrNothing`, `RefusedWritesNothing`, `AnnouncedUnlessFault`, `NoSelfParent` and `NoneSkipped`, which hold for any
calls.

### Events

Items are numbered as they are sent; a receiver is the number of the next item it takes; a frame covers a range of items
(an event one, a lag frame all that were dropped). `Subscriptions` has one action per critical section of `spawn` and
`cancel`, `forward` taking a frame, its three ends (`SendersClosed`, a failed send inside `Forward`, `Panic`) and
`Aborted`, the point where tokio stops a task that `abort` was called on: until then the task may still send. `SseClient`
has one action per callback of `subscribeSse` and per step of the server's stream; `Fail` breaks the connection with
whatever is on the wire, `OnErrorEvent` is the server's `event: error`, which a browser hands to `onerror` as well.

### Lists

One behaviour has one reader: `site.screen` says which. `rows` holds the places of an entity's records in the order its
list is sorted by, with free places between them: a create takes one, a delete frees one, and an update of a field the list
is sorted by moves its record to another (`Move`).

| Model | Code |
| --- | --- |
| `List`, `Count`, `Fail` | the list arm of `http.rs`: `list_*` of the page, `count_*`, an error from either |
| `Create`, `Delete`, `Move` | other clients of the API; an update that leaves the order as it is changes no place and is no step |
| `FetchList`, `Clamp`, `Show`, `ShowError`, `Drop` | `fetchList` of `useAdminEntity.ts`: the request, the step back to the last page, the answer, the `catch`, the answer that a newer request outdates (`fetchListRequestId`) |
| `Refresh`, `NextPage`, `PrevPage`, `GoToPage`, `SetPageSize`, `Switch` | the calls of the composable and its watcher on the route |
| `Collect`, `WalkFails` | `fetchAllItems` of `adminListAll.ts` with its page ceiling, as the relation tables call it |
| `Follow` | a client that follows `links.next` (`links.rs`) until it is null |

A page is one read of the store, which hides that `read_all` of a vault goes file by file (`MarkdownItems` has it). A
change of the route and the watcher it triggers are one step, as Vue runs the watcher before anything else. An unknown
route keeps the number of a request in flight, as the code does. `MaxOffset` stands for `u32::MAX`.

### Types

`TypeOrder` has one step per iteration of each loop: `Visit` pops the stack of `reachable_from`, `Reached` fills the in-edge sets, `Emit`
takes the head of the queue of `topo_order`, `CoEmit`
appends all that a cycle left, in alphabetical order. Its input is the dependency graph, which
`Resolution` derives from a pool of types and a use table; `BareIdent` is `resolve_bare_ident` and its fall-back to a
type of that name anywhere. `Origin` is the reference definition, the `use`s followed as Rust does. A pool never both
defines and imports one name in one module (rustc's E0255).

## Runs

| Run | Question | Bounds |
| --- | --- | --- |
| `vault_writes` | Are writes serial and made from fresh data, what can leave an index stale and unlisted, and is the store an atomic map? | 3 clients, 3 calls, 3 ids, 1 slug, root and one entity directory, faults, swallowed ones but for `stat`, panics |
| `vault_flat` | Can one entity damage another's records in a flat vault; does every call return? | 2 entities in one directory, 2 clients, 2 calls, a crash, a hand edit, faults, panics, fairness |
| `vault_repair` | Are indexes repaired after crashes and hand edits, and which hand-written ones survive? | root and 2 entity directories (one with a `log.md`), 1 id, 3 calls, a crash, a hand edit of a record or an index, all faults, swallowed ones included |
| `vault_unlisted` | Finding 1 below | as `vault_writes`, an unreadable `index.md` |
| `items_all` | Two overlapping calls of any kind: on any small tree under given ids; under a required key with derived ids and failing vault calls | 3 records under given ids, up to 3 of 5 ids stored at first under a required key |
| `items_derived` | Finding 2 | 3 ids |
| `seaorm_all` | The same two questions over a database: apart calls, atomic commits, candidate ids, no self-deadlock | 5 ids, pool of 1 or 2, statements that fail or are dropped, fairness |
| `subs_all` | Registry, gaps and termination of subscriptions | 2 subscriptions, 3 items, channel of 2, fairness |
| `subs_panic` | Finding 3 | the same |
| `sse_all` | Loss, resumption and unsubscribing over a failing connection | 5 items, channel of 2, 2 frames on the wire, 2 failures, item 4 unwritable, with and without replay, fairness |
| `lists_all` | What a screen shows when answers overtake each other; what a walk misses or repeats; where links lead | per site up to 6 places, 3 writes, 3 clicks, page sizes 1 to 3, `maxLimit` up to 3, greatest offset 4, one paginated and one plain entity, fairness |
| `types_all` | Reached, ordered, resolved and bound types; termination | every graph of up to 4 references among 4 types, 3 root lists; every pool of up to 3 types of 2 names in 3 modules of 2 crates with up to 2 `use`s |

Why the bounds are enough: every hazard in `PROJECT.json` is a matter of two calls (three, when a third has to take what
two raced for: derived ids and the vault lock) or of one call and one fault, and each run lets them overlap at every
step. Each call has at most one record and two children to write, so that a call can be interrupted before, between
and after its child writes. A directory chain of two (entity directory, root) has a first index, a last one, and a
sibling listed by the root. The channel of two items overflows on the third. A walk needs two pages to be disturbed
between and a third for its ceiling to matter. The smallest graphs that tell a cycle from what waits for it have three
types; the fourth waits for none. A `MaxCalls` bound ends the run; it is reached with every client idle (`Quiesce`), so
TLC's deadlock check stays on, but for `lists_all`, where a screen nobody touches rests and a finished walk is over, and
`types_all`, where the sort is done; `LoadingEnds` and `OrderEnds` say there that neither stops too early.

Fairness: `WF_vars(Step(c))` for each client of `Vault` and `SeaormItems`, that is, the scheduler runs every thread, and
the runtime polls every future, that can go on. Neither `std::sync::Mutex` nor SQLite's write lock is fair; the models
assume no fairness of them, and a call cannot be starved because the calls are finitely many. Calls, crashes, faults and
hand edits are never forced to happen. In `Subscriptions` a command once begun goes on and tasks are polled; in
`SseClient` the server answers, the browser delivers and timers fire, while items, failures and unsubscribing stay free.
`EveryItemHandled` needs that the connection fails finitely often, which `MaxFailures` gives. In `Lists` a request sent is
answered, if only by an error, and the answer delivered; nobody is forced to write or to click. In `TypeOrder` the loops
run on.

### Findings

Three runs are expected to fail; each shows a sentence of the documentation that the code does not keep.

1. `vault_unlisted`: an `index.md` that cannot be read back when its directory loses its last record leaves the stale
   list without having been refreshed (`okf.rs`, `remove_if_dangling`).
2. `items_derived`: a listed child deleted between the check of a create and its write frees its id, and the create can
   derive that very id and make the record its own parent.
3. `subs_panic`: a forwarding task that panics never removes its registry entry.

Other sentences the code does not keep to the letter, met while modelling and without a run of their own:

* `useAdminEntity.ts:79-82` says the clamp keeps the screen off empty pages. A create between the two reads of the answer
  still leaves it on one (`NotStranded` states the exception, `shown.torn`).
* `crates/ontogen-ts/src/order.rs:7-9` has the types of a cycle emitted at the topological level of the cycle;
  `topo_order` appends them, and everything that depends on them, at the end. `order.rs:19-22` says an import that points
  outside the pool resolves to nothing, and `:48` that the graph never mislinks; `terminal_resolution` (`resolve.rs:241-243`)
  then still takes a scanned type of that name. `BindsToItsType` and `ResolvesToDefinition` are about references that mean a
  scanned type; those that mean none are left out for this.
* The doc of `link_dangles` (`okf.rs:125-127`) has a link that cannot be checked count as resolving, so that doubt keeps the file.
  `!target.is_file()` is true also where the `stat` fails, and the index goes although its link resolves. `HandWrittenKept`
  excepts that.
* `stale_indexes` (`store.rs:593`) keeps a directory listed until it is refreshed. Besides finding 1, the swallowed failures
  above take one off the list with a wrong index.
* `site/src/content/docs/guides/typescript-bindings.mdx:195` and `:285` promise an `UnresolvedReference` for an unknown
  type; `emit.rs:371-375` renders the identifier. `:220` promises a hard `NameCollision` for types of one name; an
  ambiguous reference merely gets no edge, and what it would have reached is not declared (`BindsToItsType` and
  `ResolvesToDefinition` say what does hold).

## Proofs

The theorems hold for any number of clients, subscriptions and items, any ids, entities, tables, graphs and any bounds;
the assumptions are the named ones of the modules (`RecordsAssumption`, `SentinelAssumption`, `NoRequestAssumption`,
`VaultAssumption`, `IndexAssumption`, `TreeAssumption`, `SeaormAssumption`, `ResolutionAssumption`, `TypeOrderAssumption`, `SseAssumption`,
`ListsAssumption` and so on), which TLC evaluates in every run. The type invariants of `MarkdownItems`, `Subscriptions`,
`SseClient`, `Lists` and `TypeOrder` are proved, so no run repeats them.

**`VaultProofs`.** The inductive invariant is `TypeOK /\ CallShape`: what the request, answer and draft of a client are
at each step of its call. `LockHeld` is inductive relative to it, and `DraftFresh`
relative to both: only the lock holder changes
`files`, hand edits and crashes aside (an edit needs a free lock; a crash clears every draft), so what was decided on under
the lock is still what the disk says at the commit. `VaultImplementsRecordStore` maps `files` to `recs` and every step
of `Vault` to a step of `RecordStore` or a stutter: the commit (or the refusal) of a call is its instant, and
`DraftFresh` is what makes the draft equal to what the abstract operation would store. `OwnRecordsKept` follows from
`DraftFresh`: the slot a modify or remove is about to replace was admitted, and still is what it was.

The index theorems rest on what a client at its index has left to visit (`Unvisited`). `PagesInv` says that a rendered
page is one that rendering the directory can still return, marked if it is not what the directory wants (only the lock
holder changes files); and only the root's index lists subdirectories, so that a commit outdates no index but those on its
way to the root (`CommitListed`). `AllVisited` says that a refresh has left behind only refreshed or listed directories, and
a rebuild only refreshed ones, with everything it must sweep still to come; `AllListed` that, without crashes and hand
edits, every directory is refreshed, listed or still to be visited by the lock holder. `IndexesListed` is `AllListed` when
the lock is free, `RefreshesListed` and `RebuildsRepair` are `AllVisited` at the last step. All three hold for any
`SilentFaults`, because `Refreshed` says what such a failure may do. `StaleLeavesVisited` is the general form of finding 1,
and `StaleLeavesRefreshed` assumes `SilentFaults = {}`: then nothing is ever in `doubt` (`NoDoubtStep`) and
`StaleUntilRefreshed` holds, so swallowed failures are its only cause.

**`SeaormProofs`.** The inductive invariant is `Inv == TypeOK /\ IsFiniteSet(open) /\ \A c : Shape(c)`, per client the
conjunction of

* `CallShape`: which request a step belongs to, that the id is known, that nothing is committed before the commit, and
  that under a required key nothing is dropped once the transaction is open;
* `WriterShape`: the write lock has one holder, which is in its transaction, and until its record is in its view is the
  committed table;
* `WriteSoFar`: in `link`, the view is the committed table with the record and every child but those in `todo` written;
* `ProbedSoFar`: every candidate before the one probed is taken, and only the first is probed without the lock.

`OtherKept` is the heart of it: a client that takes no step keeps its shape as long as the rows do not change under a
holder of the lock, which `CanWrite` guarantees. `WritesAllOrNothing` is then `WriteSoFar` at `todo = {}`, and
`CandidatesProbed` is `ProbedSoFar` at the commit. The second is the reason the failed insert has to take the lock:
`InsertLookedUp`, which looks an id up first, breaks `ProbedSoFar`.

`ApartCallsExact` says the same of both stores by the same argument. `Reach(c)` is every record a call can have read or
can still read or write: what its request names, in the table it found and in the one there is now, and the children it
has found. `Separate`: as long as two calls are apart their reaches are disjoint, because a step writes only records of
its own reach, and to them only ids of its own reach (`Writes`). So what an apart call has seen is still so, and `Alone`
can follow it alone: the rows of its reach are those it found plus the part of its write that is done (`OnItsRecords`),
no other row names its record (`NoNewKids`), and its lists are those of the table it found (`Known`). At `done` that is
`ApartIsExact`. On SeaORM the own records of a call in `link` are rows of its `view`, which the commit makes the rows.
The proof corrected the model: `apart` had compared a new call only with what the open one's request names, so that with
three clients an update could write back a whole row it had read before another call changed its key, and so give that
key's record a child back that a third, newer call had not found. `Crossed` now counts whatever is in an open call's
reach.

Two theorems say how far a call of this store can be held up. `NoneWaitsForAll`: as long as there is a call under way and
an id is free, some call can take its next step (`CanGo` spells out what each step waits for), with one connection or
many. `InTransaction` is the invariant it needs: a call keeps a connection only in a transaction, and there only the
write lock stands in its way, which one of the open transactions gets. The free id is the model's bound: a create that
derives its id stops the model, not the code, when all `N` candidates are taken. `CallsShrink`: every step of a call
brings the return nearer by the step reached and the records or candidates left, and no step of another call puts it off.

**`ItemProofs`.** Per client `Shape`, what its request, its lists and its outcome are at each step, and `Backed`: once its
record is written, either the record is still there, or someone deleted it, or the vault failed the call. A write that
ends in error without either excuse would contradict `Backed`; a refusal comes from steps before the first write, where
`Shape` says nothing is written (`RefusalsAreClean`, `WritesAreAnnounced`). `ApartCallsExact` is as above; without a
transaction the part of the write that is done is in the store itself, so `OnItsRecords` leaves out what is still to be
linked or unlinked.

`NoneItsOwnParent` has a hypothesis, `NoneNamesItself`: no call sets a record's own key to the record itself, a create
that derives its id sets neither key nor children, and the store a caller finds has no such record. Without the first
half the code does what it is told; without the second, finding 2 makes a record its own parent. Every other call is
allowed. The invariant is `NotItsOwn`: the record a call is linking to is not in its list.

**`SubscriptionProofs`.** Per subscription `Entry`, where the task is in its life against its registry entry, and
`Gapless`, that the frames sent so far cover the items from the subscription to the receiver's position. The registry's
critical sections change one `Entry` each.

**`SseProofs`.** The frames on the wire are in order and start where the client stands (`InOrder`). `Covered` says that
what lies between the last id and the head of the wire is either on the wire or still in the server's stream; `Told`
that what lies before was handled, reported, or there to read at the last `onOpen`. `ResumeIsComplete` is `Covered`
across a reconnect under replay.

**`ListProofs`.** At most one request in flight carries the newest number, and it has the page, size and entity of the
view; the view loads exactly while there is one. `PageStaysInRange` needs in addition that a click or a clamp moves
within the total the view displays. `ScreenNotStranded` needs what an answer knows about itself: its items are empty only
where the count, taken later, had no row of that page, or a row was created between the two.

The walks (`WalkInv`) rest on the rank of a row, the number of rows before it. `ReadAgainFew`: of the rows read, those
that have not moved since (`G`) reach, with their greatest one, no further than the offset plus what creates and moves have
pushed back over it, and the rows read again are paid for out of the same sum; so a page repeats no more than is left of it.
`MissedFew`: the rows present throughout that the offset has passed unread (`Skipped`) are at most the deletes and moves,
each of which pulls one row before it; a short page, or one that reaches the total, has nothing after it. `Ceiled`: the
ceiling of pages that the first total sets leaves room for the rows there are, less what was created. A page adds what it
reads to the rows behind the offset and takes as much from those ahead (`FewAgainPage`, `SkippedPage`); a create or delete
moves at most one row across it, an update at most its own and one other (`FewAgainMove`, `SkippedMove`).
`AnswerLinksLead` is about `links.rs` alone: the offsets of the links are the neighbours on the grid
of multiples of the limit, cut at the greatest offset.

The proofs found three things about the model. A client of `links.next` asks only for offsets within `MaxOffset`, which
`List` now says of every request. The relation walk reads all rows only if `PageCap` pages hold them, which `Tolerated`
left out and no instance had reached. `lists_all` has a site with more rows than offsets that can be requested, so that
`last` and `next` are cut at the greatest one.

**`TypeProofs`.** `WalkReachesExactly`: while the stack is worked off, every edge of a visited type leads to a visited or a
stacked type, and every closed set with the roots contains both. `EveryTypeOnce`: queue, output and the types that still
wait for something are disjoint and together the visited ones. `DependenciesFirst`: `waiting` is what is left of the
dependencies after the output, so a type enters the queue only after all of them; a type that waits for no cycle has
left `waiting` when the queue runs dry, because what still waits then has a dependency that waits too.

`NamesResolveToDefinition` is about two recursive functions, the hops of `BareIdent` and those of `Origin`. The provers
cannot instantiate an induction theorem, but they can use `WFMin`, which takes a set: the set of the numbers at which a
claim fails has a least element, below which it holds. `LeastNumber` stands for induction in this way: both functions
exist, because each of their initial parts does (`ChainExists`, `PassesExist`); the chain of a name is the name and the
chain of what it points at (`ChainShift`); one that has arrived stays (`ChainStays`); and with as many hops as `Origin`
takes to arrive, `BareIdent` finds where it arrives (`FollowsChain`). `ReferencesBind` follows: what a reference of a declared
type means is what it resolves to, hence an edge of the graph; `ReachesExactly` and `EachOnce` put it in the output; and an
output that is not refused has no two types of one name. What the output writes for a reference is the reference's own
identifier (`emit.rs:371-375`), which for a type imported under another name is not the name it is declared by.

`LoopsShrink` and `LoopsGoOn` are why the walk and the sort end on every graph: each step leaves less to do, by phase,
types not visited or not put out, and length of the stack; and until the phase is `done` the guard of some step holds. A
step that queues types needs an alphabetical order of them, which every set has (`AlphabeticalExists`, by the least number
of types without one).

**`SortOrder`.** `OrderIsTotal` takes the least kept key in which two records differ, which exists because the id is kept
where it is named first. `RepeatsDecideNothing` shows that `effective` may drop repeated fields.

TLC checked the parts of the invariants that are not obvious as invariants of the runs before they were proved.

**Only model-checked:** the liveness properties (`EveryCallReturns` of both stores it is stated for, `SubscriptionsEnd`,
`EveryItemReported`, `EveryItemHandled`, `LoadingEnds`, `OrderEnds`), which are out of the prover's reach. Every other
property of a passing run is a theorem. Of `OrderEnds`, all but the step from `WF_vars(Next)` is proved (a measure that
decreases, a guard that holds); of `EveryCallReturns` on SeaORM, the measure and that not everyone waits, but not that
the fairness of each client makes its turn come.

## Not modelled

* The list cap, `many_to_many` tags and junction tables, hooks, and the integer and NaN checks of the generated stores.
  The requests given to TLC never name a record as its own `parent` under an optional key: the code accepts it, and
  `NoSelfParent` is about lists.
* Case-insensitive names and symlinks (`names.rs`): a name is a model value without spellings.
* `SQLITE_BUSY` from upgrading a read snapshot: the generated transactions write first, as the model does.
* `fetchById` of `useAdminEntity.ts`, which shares `loading` and `error` with `fetchList`, and the components around it.
* Paths of `use` declarations before `absolutize`; globs; reading Rust and rendering TypeScript.
* Parsing and rendering of documents, ids as text, JSON:API requests and documents, `ontogen-macros`, `write_if_changed`:
  pure functions on text.
* The webview side of an IPC channel; an event fn that replays an unwritable item forever.

Most lines of the repository are none of the above: code that emits text line by line (`src/`, most of `ontogen-ts`),
generated and checked-in fixtures of that output (`crates/name-safety`, `markdown-pilot`, `examples`), components that
lay out a page, and tests. What they do at run time is modelled once, from the generator that decides it; a model of
the emission itself would have nothing to check but the text. That bounds the share of lines the modules can stand for.

## Plan

Done: the vault and its refinement; the generated stores of both backends; events; lists, pages and their walks; the
order of lists; the resolution and the order of TypeScript types; proofs of the central safety properties of each.

Left, in order of what they would add:

1. Case-insensitive names: spellings as a two-level name in `Records`, and the reader's check after its read.
2. `many_to_many` links: junction tables on SeaORM, id lists in documents on markdown.
3. The list cap with a flat directory of several entities.
4. The include closure of compound documents (`include.rs`) against a reachability definition.
