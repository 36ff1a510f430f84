------------------------------ MODULE MCTypes ------------------------------
(* Instances of TypeOrder for TLC. *)
EXTENDS TypeOrder, TLC, FiniteSetsExt, SequencesExt

CONSTANTS a, b, ext, local, T, U, V, W

(* Two modules of the scanned crate and one of a sibling.                  *)
RootOf == (a :> local) @@ (b :> local) @@ (ext :> ext)

PlaceOf ==
    <<a, T>> :> 1 @@ <<a, U>> :> 2 @@ <<a, V>> :> 3 @@ <<a, W>> :> 4 @@
    <<b, T>> :> 5 @@ <<b, U>> :> 6 @@ <<b, V>> :> 7 @@ <<b, W>> :> 8 @@
    <<ext, T>> :> 9 @@ <<ext, U>> :> 10 @@ <<ext, V>> :> 11 @@ <<ext, W>> :> 12

NoUse == [k \in {} |-> <<Outside, T>>]

(* Four types of one module with any three references between them, or     *)
(* four that are not to themselves: every shape of cycle and of what waits *)
(* for it.                                                                 *)
Graphs == UNION {kSubset(n, Names \X Names) : n \in 0 .. 3}
            \cup kSubset(4, {p \in Names \X Names : p[1] # p[2]})
GraphCrate(g) ==
    [pool |-> {a} \X Names, uses |-> NoUse, called |-> [k \in {a} \X Names |-> k[2]],
     reads |-> [k \in {a} \X Names |-> {<<Bare, p[2]>> : p \in {q \in g : q[1] = k[2]}}]]
OrderInputs ==
    {[crate |-> GraphCrate(g), roots |-> r] :
        g \in Graphs, r \in {<< <<a, T>> >>, << <<a, T>>, <<a, U>> >>, << <<a, W>>, <<b, V>>, <<a, T>> >>}}

(* Up to three types of two names in three modules, and up to two `use`s   *)
(* of any target in the modules that do not define the name.               *)
TwoNames == Modules \X {T, U}
TwoTargets == TwoNames \cup ({Outside} \X {T, U})
Pools == UNION {kSubset(n, TwoNames) : n \in 1 .. 3}
UsesOf(pool) == UNION {[D -> TwoTargets] : D \in UNION {kSubset(n, TwoNames \ pool) : n \in 0 .. 2}}
PoolInputs(pool, reads, called, roots) ==
    {[crate |-> [pool |-> pool, uses |-> uses, called |-> called, reads |-> reads], roots |-> roots] :
        uses \in UsesOf(pool)}
UseInputs ==
    UNION {PoolInputs(pool, [k \in pool |-> {<<Bare, T>>, <<Bare, U>>}], [k \in pool |-> k[2]],
                      SetToSortSeq(pool \ {CHOOSE k \in pool : TRUE}, LAMBDA k, l : PlaceOf[k] < PlaceOf[l])) :
             pool \in Pools}

AllInputs == OrderInputs \cup UseInputs
=============================================================================
