----------------------------- MODULE Resolution -----------------------------
(***************************************************************************)
(* Which type a Rust reference names (resolve.rs).  The scanned sources    *)
(* are a crate c: c.pool is the set of the types found, each a pair        *)
(* <<module, name>>, and c.uses maps <<module, name>> to what a `use` of   *)
(* that module names so: the pair it points at, or <<Outside, name>> when  *)
(* its path starts at a crate that was not scanned.                        *)
(***************************************************************************)
EXTENDS Integers, FiniteSets

CONSTANTS Modules, Names,
          Root,       \* the scanned crate each module belongs to
          Outside, Bare,
          MaxHops     \* MAX_IMPORT_DEPTH

Keys    == Modules \X Names
Targets == Keys \cup ({Outside} \X Names)

ASSUME ResolutionAssumption ==
    /\ Outside \notin Modules /\ Bare \notin Modules /\ Outside # Bare
    /\ DOMAIN Root = Modules /\ MaxHops \in Nat
    /\ IsFiniteSet(Modules) /\ IsFiniteSet(Names)

(* terminal_resolution: the types of that name in the crate of m, or in    *)
(* any crate when its own has none.                                        *)
Terminal(c, m, name) ==
    LET matches == {k \in c.pool : k[2] = name}
        home    == {k \in matches : Root[k[1]] = Root[m]}
    IN  IF home = {} THEN matches ELSE home

(* Mutant: a re-export is not followed.                                    *)
BareIdentDirect(c) ==
    [hops \in 0 .. MaxHops |-> [key \in Keys |->
       IF key \notin DOMAIN c.uses
         THEN IF key \in c.pool THEN {key} ELSE Terminal(c, key[1], key[2])
         ELSE LET target == c.uses[key]
              IN  IF target \in c.pool THEN {target} ELSE Terminal(c, key[1], target[2])]]

(* resolve_bare_ident and resolve_import_target, as the set of the types   *)
(* they found: none is NotInPool, one Resolved, more Ambiguous.            *)
BareIdent(c) ==
    LET found[hops \in 0 .. MaxHops] ==
          [key \in Keys |->
             LET target   == c.uses[key]
                 reexport == IF hops = 0 THEN {} ELSE found[hops - 1][target]
             IN  IF key \notin DOMAIN c.uses
                   THEN IF key \in c.pool THEN {key} ELSE Terminal(c, key[1], key[2])
                 ELSE IF target \in c.pool THEN {target}
                 ELSE IF target[1] # Outside /\ reexport # {} THEN reexport
                 ELSE Terminal(c, key[1], target[2])]
    IN  found

(* resolve_reference: a reference written in module m is <<Bare, name>> or *)
(* a path already made absolute, which must be a type of the pool.         *)
Resolved(c, m, ref) ==
    IF ref[1] = Bare THEN BareIdent(c)[MaxHops][<<m, ref[2]>>] ELSE {ref} \cap c.pool

(* dependency_graph_with_imports: an edge for each unique resolution.      *)
DependencyGraph(c) ==
    [k \in c.pool |-> {d \in c.pool : \E ref \in c.reads[k] : Resolved(c, k[1], ref) = {d}}]

-----------------------------------------------------------------------------
(* What Rust means by a name: the `use`s followed to where they lead.      *)
Origin(c, key) ==
    LET follow(k) == IF k \in DOMAIN c.uses THEN c.uses[k] ELSE k
        at[n \in 0 .. MaxHops + 1] == IF n = 0 THEN key ELSE follow(at[n - 1])
    IN  at[MaxHops + 1]
=============================================================================
