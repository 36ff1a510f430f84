----------------------------- MODULE TypeOrder -----------------------------
(***************************************************************************)
(* The order in which ontogen-ts declares types (order.rs, and emit.rs     *)
(* around it): the types the roots reach, by a depth-first walk of the     *)
(* dependency graph, then Kahn's algorithm over them, what is left on or   *)
(* behind a cycle following in alphabetical order.  One step is one        *)
(* iteration of a loop.                                                    *)
(***************************************************************************)
EXTENDS Resolution, Sequences

CONSTANTS Place,     \* the alphabetical order of the keys
          Inputs     \* [crate, roots]: the sources scanned and the types asked for

ASSUME TypeOrderAssumption ==
    /\ Place \in [Keys -> Nat]
    /\ \A k, l \in Keys : Place[k] = Place[l] => k = l
    /\ \A i \in Inputs :
         /\ i.crate.pool \in SUBSET Keys
         /\ DOMAIN i.crate.uses \subseteq Keys \ i.crate.pool
         /\ \A k \in DOMAIN i.crate.uses : i.crate.uses[k] \in Targets
         /\ \A k \in i.crate.pool : i.crate.reads[k] \subseteq Targets \cup ({Bare} \X Names)
         /\ i.roots \in Seq(Keys)

VARIABLES input, graph, phase,
          stack, visited,            \* reachable_from
          waiting, queue, output     \* topo_order: in_edges, queue, output
vars == <<input, graph, phase, stack, visited, waiting, queue, output>>

Elements(s)      == {s[i] : i \in 1 .. Len(s)}
(* The one sequence of the elements of S in alphabetical order.            *)
Alphabetical(S)  == {s \in [1 .. Cardinality(S) -> S] :
                       /\ Elements(s) = S
                       /\ \A i, j \in 1 .. Len(s) : i < j => Place[s[i]] < Place[s[j]]}
Edges(node)      == IF node \in DOMAIN graph THEN graph[node] ELSE {}
Deps(node)       == (Edges(node) \cap visited) \ {node}

Init ==
    /\ input \in Inputs
    /\ graph = DependencyGraph(input.crate)
    /\ phase = "reach" /\ stack = input.roots /\ visited = {}
    /\ waiting = << >> /\ queue = << >> /\ output = << >>

(* Mutant: the walk breaks off, for going on, at a node it has visited.    *)
VisitBreaks ==
    LET node == stack[Len(stack)]
        rest == SubSeq(stack, 1, Len(stack) - 1)
    IN  /\ phase = "reach" /\ stack # << >>
        /\ visited' = visited \cup {node}
        /\ IF node \in visited THEN stack' = << >>
           ELSE \E s \in Alphabetical(Edges(node) \ visited') : stack' = rest \o s
        /\ UNCHANGED <<input, graph, phase, waiting, queue, output>>

(* One node popped off the stack, and its edges pushed when it is new.     *)
Visit ==
    LET node == stack[Len(stack)]
        rest == SubSeq(stack, 1, Len(stack) - 1)
    IN  /\ phase = "reach" /\ stack # << >>
        /\ visited' = visited \cup {node}
        /\ IF node \in visited THEN stack' = rest
           ELSE \E s \in Alphabetical(Edges(node) \ visited') : stack' = rest \o s
        /\ UNCHANGED <<input, graph, phase, waiting, queue, output>>

Reached ==
    /\ phase = "reach" /\ stack = << >>
    /\ phase' = "order"
    /\ waiting' = [node \in visited |-> Deps(node)]
    /\ queue' \in Alphabetical({node \in visited : Deps(node) = {}})
    /\ UNCHANGED <<input, graph, stack, visited, output>>

(* Mutant: a successor is queued by the first of its dependencies.         *)
EmitEager ==
    LET node  == Head(queue)
        freed == {s \in visited \ (Elements(queue) \cup Elements(output)) : node \in waiting[s]}
    IN  /\ phase = "order" /\ queue # << >>
        /\ output' = Append(output, node)
        /\ waiting' = [s \in visited |-> waiting[s] \ {node}]
        /\ \E s \in Alphabetical(freed) : queue' = Tail(queue) \o s
        /\ UNCHANGED <<input, graph, phase, stack, visited>>

(* The successors of the node at the head of the queue wait for it no more. *)
Emit ==
    LET node  == Head(queue)
        freed == {s \in visited : waiting[s] = {node}}
    IN  /\ phase = "order" /\ queue # << >>
        /\ output' = Append(output, node)
        /\ waiting' = [s \in visited |-> waiting[s] \ {node}]
        /\ \E s \in Alphabetical(freed) : queue' = Tail(queue) \o s
        /\ UNCHANGED <<input, graph, phase, stack, visited>>

(* Mutant: the members of a cycle are left out.                            *)
CoEmitNone ==
    /\ phase = "order" /\ queue = << >>
    /\ phase' = "done"
    /\ UNCHANGED <<input, graph, stack, visited, waiting, queue, output>>

(* Mutant: the sort waits for a cycle to end.                              *)
CoEmitAcyclic ==
    /\ phase = "order" /\ queue = << >> /\ Elements(output) = visited
    /\ phase' = "done"
    /\ UNCHANGED <<input, graph, stack, visited, waiting, queue, output>>

CoEmit ==
    /\ phase = "order" /\ queue = << >>
    /\ phase' = "done"
    /\ \E s \in Alphabetical(visited \ Elements(output)) : output' = output \o s
    /\ UNCHANGED <<input, graph, stack, visited, waiting, queue>>

Next == Visit \/ Reached \/ Emit \/ CoEmit
Spec == Init /\ [][Next]_vars
FairSpec == Spec /\ WF_vars(Next)     \* the loops run on

-----------------------------------------------------------------------------
(* emit_with_imports: the name a type is declared by, and what is refused. *)
Declared == {k \in visited : k \in input.crate.pool}

(* Mutant: two types of one name are both declared.                        *)
NameCollisionNone == FALSE

NameCollision == \E k, l \in Declared : k # l /\ input.crate.called[k] = input.crate.called[l]

Refused == Elements(input.roots) \ input.crate.pool # {} \/ NameCollision

-----------------------------------------------------------------------------
(* The variables have their types: what is on a queue was visited, and a  *)
(* type waits for visited ones only.                                       *)
TypeOK ==
    /\ graph \in [input.crate.pool -> SUBSET input.crate.pool]
    /\ phase \in {"reach", "order", "done"}
    /\ visited \subseteq Keys
    /\ stack \in Seq(Keys) /\ queue \in Seq(visited) /\ output \in Seq(visited)
    /\ phase # "reach" => waiting \in [visited -> SUBSET visited]

Closed(S) == \A node \in S : Edges(node) \subseteq S

(* The walk visits the roots, whatever a visited type depends on, and      *)
(* nothing else: what is declared is the least closed set of the roots.    *)
ReachesExactly ==
    phase # "reach" =>
        /\ Elements(input.roots) \subseteq visited /\ Closed(visited)
        /\ \A S \in SUBSET visited : Elements(input.roots) \subseteq S /\ Closed(S) => S = visited

(* The types that wait for no cycle: the least set that holds every type   *)
(* whose dependencies it holds.                                            *)
Grounded == {x \in visited :
               \A W \in SUBSET visited :
                  (\A y \in visited : Deps(y) \subseteq W => y \in W) => x \in W}

(* A type that waits for no cycle is declared after all it depends on.     *)
DepsFirst ==
    phase = "done" =>
        \A i \in 1 .. Len(output) : output[i] \in Grounded =>
            Deps(output[i]) \subseteq {output[j] : j \in 1 .. i - 1}

(* Every type reached is declared once, those of the cycles too.           *)
EachOnce ==
    phase = "done" =>
        /\ Elements(output) = visited
        /\ \A i, j \in 1 .. Len(output) : output[i] = output[j] => i = j

(* A name that some `use`s lead to a scanned type resolves to that type    *)
(* and no other, however many types share the name.                        *)
ResolvesToDefinition ==
    \A m \in Modules, name \in Names :
        Origin(input.crate, <<m, name>>) \in input.crate.pool =>
            Resolved(input.crate, m, <<Bare, name>>) = {Origin(input.crate, <<m, name>>)}

(* The type that a reference of k means: where the `use`s of its module    *)
(* lead, or what its path names.                                           *)
Meant(k, ref) == IF ref[1] = Bare THEN Origin(input.crate, <<k[1], ref[2]>>) ELSE ref

(* In an output that is not refused, whatever scanned type a declared one  *)
(* means by a reference is declared too, and no other is by its name.      *)
BindsToItsType ==
    phase = "done" /\ ~Refused =>
        \A k \in Declared : \A ref \in input.crate.reads[k] :
            LET d == Meant(k, ref)
            IN  d \in input.crate.pool =>
                    {x \in Elements(output) : input.crate.called[x] = input.crate.called[d]} = {d}

(* The walk and the sort end on every graph, cyclic or not.                *)
OrderEnds == <>(phase = "done")
=============================================================================
