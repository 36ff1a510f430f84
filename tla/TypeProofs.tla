---------------------------- MODULE TypeProofs ----------------------------
(***************************************************************************)
(* Theorems about TypeOrder, for any modules, names, sources and roots.    *)
(*                                                                         *)
(* The argument: what the walk has visited or stacked lies in every closed *)
(* set that holds the roots, and every edge of a visited node leads to a   *)
(* visited or stacked one (Walked); the queue and the output are the nodes *)
(* that wait for none, each once, and a node is in the output after all it *)
(* depends on (Sorted).                                                    *)
(*                                                                         *)
(* That the recursive functions of Resolution exist and agree is shown by  *)
(* the least number at which they would not (LeastNumber), and so is that  *)
(* every set of types has an alphabetical order, without which the loops   *)
(* could stop early.                                                       *)
(***************************************************************************)
EXTENDS TypeOrder, FiniteSetTheorems, SequenceTheorems, WellFoundedInduction, TLAPS

-----------------------------------------------------------------------------
(* Lemmas about sequences.                                                 *)

Distinct(s) == \A i, j \in 1 .. Len(s) : s[i] = s[j] => i = j

LEMMA ElementsOf ==
  ASSUME NEW S, NEW s \in Seq(S) PROVE Elements(s) \subseteq S
  BY DEF Elements

LEMMA ElementsEmpty == Elements(<< >>) = {}
  BY DEF Elements

LEMMA ElementsSeq ==
  ASSUME NEW S, NEW s \in Seq(S) PROVE s \in Seq(Elements(s))
<1>1. Len(s) \in Nat /\ s = [i \in 1 .. Len(s) |-> s[i]]
  OBVIOUS
<1>2. \A i \in 1 .. Len(s) : s[i] \in Elements(s)
  BY DEF Elements
<1>3. QED
  BY <1>1, <1>2

LEMMA ConcatElements ==
  ASSUME NEW S, NEW s \in Seq(S), NEW t \in Seq(S)
  PROVE  Elements(s \o t) = Elements(s) \cup Elements(t)
<1>1. /\ Len(s \o t) = Len(s) + Len(t)
      /\ \A i \in 1 .. Len(s) : (s \o t)[i] = s[i]
      /\ \A i \in 1 .. Len(t) : (s \o t)[Len(s) + i] = t[i]
  OBVIOUS
<1>2. ASSUME NEW x \in Elements(s \o t) PROVE x \in Elements(s) \cup Elements(t)
  <2>1. PICK i \in 1 .. Len(s \o t) : x = (s \o t)[i]
    BY DEF Elements
  <2>2. CASE i <= Len(s)
    BY <1>1, <2>1, <2>2 DEF Elements
  <2>3. CASE i > Len(s)
    <3>1. i - Len(s) \in 1 .. Len(t) /\ Len(s) + (i - Len(s)) = i
      BY <1>1, <2>3
    <3>2. x = t[i - Len(s)]
      BY <1>1, <2>1, <3>1
    <3>3. QED
      BY <3>1, <3>2 DEF Elements
  <2>4. QED
    BY <2>2, <2>3
<1>3. ASSUME NEW x \in Elements(s) PROVE x \in Elements(s \o t)
  BY <1>1 DEF Elements
<1>4. ASSUME NEW x \in Elements(t) PROVE x \in Elements(s \o t)
  <2>1. PICK i \in 1 .. Len(t) : x = t[i]
    BY DEF Elements
  <2>2. Len(s) + i \in 1 .. Len(s \o t) /\ x = (s \o t)[Len(s) + i]
    BY <1>1, <2>1
  <2>3. QED
    BY <2>2 DEF Elements
<1>5. QED
  BY <1>2, <1>3, <1>4

LEMMA ConcatDistinct ==
  ASSUME NEW S, NEW s \in Seq(S), NEW t \in Seq(S), Distinct(s), Distinct(t),
         Elements(s) \cap Elements(t) = {}
  PROVE  Distinct(s \o t)
<1> DEFINE st == s \o t
<1>1. /\ Len(st) = Len(s) + Len(t)
      /\ \A i \in 1 .. Len(s) : st[i] = s[i]
      /\ \A i \in 1 .. Len(t) : st[Len(s) + i] = t[i]
  OBVIOUS
<1>2. SUFFICES ASSUME NEW i \in 1 .. Len(st), NEW j \in 1 .. Len(st), st[i] = st[j] PROVE i = j
  BY DEF Distinct
<1> HIDE DEF st
<1>3. \A k \in 1 .. Len(st) :
        \/ k \in 1 .. Len(s) /\ st[k] = s[k]
        \/ k > Len(s) /\ k - Len(s) \in 1 .. Len(t) /\ st[k] = t[k - Len(s)]
  <2> SUFFICES ASSUME NEW k \in 1 .. Len(st), k > Len(s)
               PROVE  k - Len(s) \in 1 .. Len(t) /\ st[k] = t[k - Len(s)]
    BY <1>1
  <2>1. k - Len(s) \in 1 .. Len(t) /\ Len(s) + (k - Len(s)) = k
    BY <1>1
  <2>2. QED
    BY <1>1, <2>1
<1>4. \A k \in 1 .. Len(s), l \in 1 .. Len(t) : s[k] # t[l]
  BY DEF Elements
<1>5. CASE i <= Len(s)
  BY <1>2, <1>3, <1>4, <1>5 DEF Distinct
<1>6. CASE i > Len(s)
  <2>1. i - Len(s) \in 1 .. Len(t) /\ st[i] = t[i - Len(s)]
    BY <1>1, <1>3, <1>6
  <2>2. j > Len(s) /\ j - Len(s) \in 1 .. Len(t) /\ st[j] = t[j - Len(s)]
    BY <1>2, <1>3, <1>4, <2>1
  <2>3. i - Len(s) = j - Len(s)
    BY <1>2, <2>1, <2>2 DEF Distinct
  <2>4. QED
    BY <1>1, <2>3
<1>7. QED
  BY <1>5, <1>6

(* The last element of a sequence, and what is left.                       *)
LEMMA Popped ==
  ASSUME NEW S, NEW s \in Seq(S), s # << >>
  PROVE  LET rest == SubSeq(s, 1, Len(s) - 1)
         IN  /\ rest \in Seq(S) /\ s[Len(s)] \in S
             /\ Elements(s) = Elements(rest) \cup {s[Len(s)]}
<1> DEFINE rest == SubSeq(s, 1, Len(s) - 1)
<1>1. Len(s) \in Nat /\ Len(s) >= 1
  OBVIOUS
<1>2. rest \in Seq(S) /\ Len(rest) = Len(s) - 1 /\ \A i \in 1 .. Len(s) - 1 : rest[i] = s[i]
  <2>1. \A i \in 1 .. Len(s) - 1 : s[i] \in S
    BY <1>1
  <2>2. 1 \in Int /\ Len(s) - 1 \in Int /\ (Len(s) - 1) - 1 + 1 = Len(s) - 1
    BY <1>1
  <2>3. /\ rest \in Seq(S)
        /\ Len(rest) = IF 1 <= Len(s) - 1 THEN (Len(s) - 1) - 1 + 1 ELSE 0
        /\ \A i \in 1 .. (Len(s) - 1) - 1 + 1 : rest[i] = s[1 + i - 1]
    BY <2>1, <2>2, SubSeqProperties
  <2>4. \A i \in 1 .. Len(s) - 1 : 1 + i - 1 = i
    BY <1>1
  <2>5. QED
    BY <1>1, <2>2, <2>3, <2>4
<1>3. s[Len(s)] \in S
  BY <1>1
<1>4. Elements(s) = Elements(rest) \cup {s[Len(s)]}
  <2> HIDE DEF rest
  <2>1. 1 .. Len(s) = (1 .. Len(s) - 1) \cup {Len(s)}
    BY <1>1
  <2>2. QED
    BY <1>2, <2>1 DEF Elements
<1>5. QED
  BY <1>2, <1>3, <1>4

(* The first element of a sequence, and what is left.                      *)
LEMMA Dequeued ==
  ASSUME NEW S, NEW s \in Seq(S), s # << >>
  PROVE  /\ Head(s) \in S /\ Tail(s) \in Seq(S)
         /\ Elements(s) = {Head(s)} \cup Elements(Tail(s))
         /\ Distinct(s) => Distinct(Tail(s)) /\ Head(s) \notin Elements(Tail(s))
<1>1. /\ Len(s) \in Nat /\ Len(s) >= 1 /\ Head(s) = s[1]
      /\ Tail(s) \in Seq(S) /\ Len(Tail(s)) = Len(s) - 1
      /\ \A i \in 1 .. Len(s) - 1 : Tail(s)[i] = s[i + 1]
  OBVIOUS
<1>2. \A x : x \in Elements(s) <=> x = Head(s) \/ x \in Elements(Tail(s))
  <2> SUFFICES ASSUME NEW x PROVE x \in Elements(s) <=> x = Head(s) \/ x \in Elements(Tail(s))
    OBVIOUS
  <2>1. ASSUME NEW i \in 1 .. Len(s), x = s[i] PROVE x = Head(s) \/ x \in Elements(Tail(s))
    <3>1. CASE i = 1
      BY <1>1, <2>1, <3>1
    <3>2. CASE i # 1
      <4>1. i - 1 \in 1 .. Len(s) - 1 /\ (i - 1) + 1 = i
        BY <1>1, <3>2
      <4>2. x = Tail(s)[i - 1]
        BY <1>1, <2>1, <4>1
      <4>3. QED
        BY <1>1, <4>1, <4>2 DEF Elements
    <3>3. QED
      BY <3>1, <3>2
  <2>2. ASSUME NEW i \in 1 .. Len(Tail(s)), x = Tail(s)[i] PROVE x \in Elements(s)
    <3>1. i + 1 \in 1 .. Len(s) /\ x = s[i + 1]
      BY <1>1, <2>2
    <3>2. QED
      BY <3>1 DEF Elements
  <2>3. Head(s) \in Elements(s)
    BY <1>1 DEF Elements
  <2>4. QED
    BY <2>1, <2>2, <2>3 DEF Elements
<1>3. ASSUME Distinct(s) PROVE Distinct(Tail(s)) /\ Head(s) \notin Elements(Tail(s))
  <2>1. \A i \in 1 .. Len(s) - 1 : i + 1 \in 1 .. Len(s) /\ i + 1 # 1
    BY <1>1
  <2>2. ASSUME NEW i \in 1 .. Len(Tail(s)), NEW j \in 1 .. Len(Tail(s)), Tail(s)[i] = Tail(s)[j]
        PROVE  i = j
    BY <1>1, <1>3, <2>1, <2>2 DEF Distinct
  <2>3. ASSUME NEW i \in 1 .. Len(Tail(s)) PROVE Tail(s)[i] # Head(s)
    BY <1>1, <1>3, <2>1 DEF Distinct
  <2>4. QED
    BY <2>2, <2>3 DEF Distinct, Elements
<1>4. QED
  BY <1>1, <1>2, <1>3

LEMMA Enqueued ==
  ASSUME NEW S, NEW s \in Seq(S), NEW x \in S
  PROVE  /\ Append(s, x) \in Seq(S) /\ Elements(Append(s, x)) = Elements(s) \cup {x}
         /\ Distinct(s) /\ x \notin Elements(s) => Distinct(Append(s, x))
<1>1. Append(s, x) = s \o <<x>> /\ <<x>> \in Seq(S) /\ Len(<<x>>) = 1 /\ <<x>>[1] = x
  BY AppendIsConcat
<1>2. Elements(<<x>>) = {x} /\ Distinct(<<x>>)
  <2>1. 1 .. Len(<<x>>) = {1}
    BY <1>1
  <2>2. QED
    BY <1>1, <2>1 DEF Elements, Distinct
<1>3. Append(s, x) \in Seq(S)
  OBVIOUS
<1>4. QED
  <2>1. Elements(s \o <<x>>) = Elements(s) \cup {x}
    <3>1. \A t \in Seq(S) : Elements(s \o t) = Elements(s) \cup Elements(t)
      BY ConcatElements
    <3>2. <<x>> \in Seq(S)
      OBVIOUS
    <3>3. Elements(s \o <<x>>) = Elements(s) \cup Elements(<<x>>)
      BY <3>1, <3>2, Zenon
    <3>4. QED
      BY <1>2, <3>3
  <2>2. ASSUME Distinct(s), x \notin Elements(s) PROVE Distinct(s \o <<x>>)
    <3>1. Elements(s) \cap Elements(<<x>>) = {}
      BY <1>2, <2>2
    <3>2. QED
      BY <1>1, <1>2, <2>2, <3>1, ConcatDistinct
  <2>3. QED
    BY <1>1, <1>3, <2>1, <2>2

(* A finite set in alphabetical order, each element once.                  *)
LEMMA AlphabeticalIs ==
  ASSUME NEW S \in SUBSET Keys, NEW s \in Alphabetical(S)
  PROVE  s \in Seq(S) /\ Elements(s) = S /\ Distinct(s)
<1>1. IsFiniteSet(Keys)
  BY FS_Product, ResolutionAssumption DEF Keys
<1>2. IsFiniteSet(S) /\ Cardinality(S) \in Nat
  BY <1>1, FS_Subset, FS_CardinalityType
<1>3. s \in [1 .. Cardinality(S) -> S] /\ Elements(s) = S
      /\ \A i, j \in 1 .. Len(s) : i < j => Place[s[i]] < Place[s[j]]
  BY DEF Alphabetical
<1>4. s \in Seq(S)
  BY <1>2, <1>3
<1>5. ASSUME NEW i \in 1 .. Len(s), NEW j \in 1 .. Len(s), i < j PROVE s[i] # s[j]
  <2>1. s[i] \in Keys
    BY <1>4
  <2>2. Place[s[i]] \in Nat
    BY <2>1, TypeOrderAssumption
  <2>3. Place[s[i]] < Place[s[j]]
    BY <1>3, <1>5
  <2>4. QED
    BY <2>2, <2>3
<1>6. Distinct(s)
  <2>1. \A i, j \in 1 .. Len(s) : i < j \/ j < i \/ i = j
    BY <1>4
  <2>2. QED
    BY <1>5, <2>1 DEF Distinct
<1>7. QED
  BY <1>3, <1>4, <1>6

-----------------------------------------------------------------------------
(* The types.                                                              *)

IInv == TypeOK /\ input \in Inputs

LEMMA EdgesType ==
  ASSUME IInv, NEW node PROVE Edges(node) \in SUBSET Keys
<1>1. input.crate.pool \subseteq Keys
  BY TypeOrderAssumption DEF IInv
<1>2. node \in DOMAIN graph => graph[node] \subseteq input.crate.pool
  BY DEF IInv, TypeOK
<1>3. QED
  BY <1>1, <1>2 DEF Edges

LEMMA InitType == Init => IInv
<1> SUFFICES ASSUME Init PROVE IInv
  OBVIOUS
<1>1. graph \in [input.crate.pool -> SUBSET input.crate.pool]
  BY DEF Init, DependencyGraph
<1>2. stack \in Seq(Keys)
  BY TypeOrderAssumption DEF Init
<1>3. QED
  BY <1>1, <1>2 DEF Init, IInv, TypeOK

LEMMA VisitType == IInv /\ Visit => IInv'
<1> SUFFICES ASSUME IInv, Visit PROVE IInv'
  OBVIOUS
<1> DEFINE node == stack[Len(stack)]
           rest == SubSeq(stack, 1, Len(stack) - 1)
<1>1. stack \in Seq(Keys) /\ stack # << >> /\ visited \subseteq Keys
  BY DEF IInv, TypeOK, Visit
<1>2. rest \in Seq(Keys) /\ node \in Keys
  BY <1>1, Popped
<1>3. visited' = visited \cup {node} /\ visited' \subseteq Keys
  BY <1>1, <1>2 DEF Visit
<1>4. stack' \in Seq(Keys)
  <2>1. CASE node \in visited
    BY <1>2, <2>1 DEF Visit
  <2>2. CASE node \notin visited
    <3>1. PICK s \in Alphabetical(Edges(node) \ visited') : stack' = rest \o s
      BY <2>2 DEF Visit
    <3>2. s \in Seq(Edges(node) \ visited') /\ Edges(node) \ visited' \in SUBSET Keys
      BY EdgesType, AlphabeticalIs
    <3>3. s \in Seq(Keys)
      BY <3>2
    <3>4. QED
      BY <1>2, <3>1, <3>3
  <2>3. QED
    BY <2>1, <2>2
<1>5. queue' \in Seq(visited') /\ output' \in Seq(visited') /\ phase' = "reach"
  <2>1. \A s \in Seq(visited) : s \in Seq(visited \cup {node})
    OBVIOUS
  <2>2. QED
    BY <1>3, <2>1 DEF IInv, TypeOK, Visit
<1>6. QED
  BY <1>3, <1>4, <1>5 DEF IInv, TypeOK, Visit

LEMMA ReachedType == IInv /\ Reached => IInv'
<1> SUFFICES ASSUME IInv, Reached PROVE IInv'
  OBVIOUS
<1>1. visited \subseteq Keys
  BY DEF IInv, TypeOK
<1>2. waiting' \in [visited' -> SUBSET visited'] /\ visited' = visited /\ graph' = graph /\ phase' = "order"
  BY DEF Reached, Deps
<1>3. queue' \in Seq(visited')
  <2> DEFINE ready == {node \in visited : Deps(node) = {}}
  <2>1. queue' \in Alphabetical(ready) /\ ready \in SUBSET Keys
    BY <1>1 DEF Reached
  <2>2. queue' \in Seq(ready)
    BY <2>1, AlphabeticalIs
  <2>3. QED
    BY <1>2, <2>2
<1>4. QED
  BY <1>2, <1>3 DEF IInv, TypeOK, Reached

LEMMA EmitType == IInv /\ Emit => IInv'
<1> SUFFICES ASSUME IInv, Emit PROVE IInv'
  OBVIOUS
<1> DEFINE node  == Head(queue)
           freed == {s \in visited : waiting[s] = {node}}
<1>1. /\ queue \in Seq(visited) /\ queue # << >> /\ output \in Seq(visited) /\ visited \subseteq Keys
      /\ waiting \in [visited -> SUBSET visited]
  BY DEF IInv, TypeOK, Emit
<1>2. node \in visited /\ Tail(queue) \in Seq(visited)
  BY <1>1, Dequeued
<1>3. output' \in Seq(visited) /\ waiting' \in [visited -> SUBSET visited] /\ visited' = visited
  BY <1>1, <1>2 DEF Emit
<1>4. queue' \in Seq(visited)
  <2>1. PICK s \in Alphabetical(freed) : queue' = Tail(queue) \o s
    BY DEF Emit
  <2>2. freed \in SUBSET Keys
    BY <1>1
  <2>3. s \in Seq(freed)
    BY <2>2, AlphabeticalIs
  <2>4. s \in Seq(visited)
    BY <2>3
  <2>5. QED
    BY <1>2, <2>1, <2>4
<1>5. QED
  BY <1>3, <1>4 DEF IInv, TypeOK, Emit

LEMMA CoEmitType == IInv /\ CoEmit => IInv'
<1> SUFFICES ASSUME IInv, CoEmit PROVE IInv'
  OBVIOUS
<1>1. PICK s \in Alphabetical(visited \ Elements(output)) : output' = output \o s
  BY DEF CoEmit
<1>2. visited \ Elements(output) \in SUBSET Keys /\ output \in Seq(visited)
  BY DEF IInv, TypeOK
<1>3. s \in Seq(visited \ Elements(output))
  BY <1>2, AlphabeticalIs
<1>4. s \in Seq(visited)
  BY <1>3
<1>5. output' \in Seq(visited)
  BY <1>1, <1>2, <1>4
<1>6. QED
  BY <1>5 DEF IInv, TypeOK, CoEmit

LEMMA NextType == IInv /\ [Next]_vars => IInv'
<1> SUFFICES ASSUME IInv, [Next]_vars PROVE IInv'
  OBVIOUS
<1>1. CASE UNCHANGED vars
  BY <1>1 DEF vars, IInv, TypeOK
<1>2. CASE Next
  BY <1>2, VisitType, ReachedType, EmitType, CoEmitType DEF Next
<1>3. QED
  BY <1>1, <1>2

(* The variables of TypeOrder have their types, whatever the sources: an   *)
(* edge of the graph leads to a scanned type, and only visited types are   *)
(* queued and put out.                                                     *)
THEOREM TypeCorrect == Spec => []TypeOK
<1>1. IInv => TypeOK
  BY DEF IInv
<1>2. QED
  BY <1>1, InitType, NextType, PTL DEF Spec

-----------------------------------------------------------------------------
(* What is visited.                                                        *)

Pending == visited \cup Elements(stack)

Walked ==
  phase = "reach" =>
    /\ Elements(input.roots) \subseteq Pending
    /\ \A node \in visited : Edges(node) \subseteq Pending
    /\ \A S : Elements(input.roots) \subseteq S /\ Closed(S) => Pending \subseteq S

LEMMA InitWalked == Init => Walked /\ ReachesExactly
  BY DEF Init, Walked, Pending, ReachesExactly

(* One step of the walk replaces a pending node by itself and its edges.   *)
LEMMA VisitPending ==
  ASSUME IInv, Visit
  PROVE  LET node == stack[Len(stack)]
         IN  /\ node \in Pending
             /\ Pending' = IF node \in visited THEN Pending ELSE Pending \cup Edges(node)
<1> DEFINE node == stack[Len(stack)]
           rest == SubSeq(stack, 1, Len(stack) - 1)
<1>1. /\ rest \in Seq(Keys) /\ node \in Keys
      /\ Elements(stack) = Elements(rest) \cup {node}
  BY Popped DEF IInv, TypeOK, Visit
<1>2. visited' = visited \cup {node}
  BY DEF Visit
<1>3. CASE node \in visited
  <2>1. stack' = rest
    BY <1>3 DEF Visit
  <2>2. Pending' = visited' \cup Elements(rest)
    BY <2>1 DEF Pending, Elements
  <2>3. QED
    BY <1>1, <1>2, <1>3, <2>2 DEF Pending
<1>4. CASE node \notin visited
  <2>1. PICK s \in Alphabetical(Edges(node) \ visited') : stack' = rest \o s
    BY <1>4 DEF Visit
  <2>2. s \in Seq(Edges(node) \ visited') /\ Elements(s) = Edges(node) \ visited'
        /\ Edges(node) \ visited' \in SUBSET Keys
    BY EdgesType, AlphabeticalIs
  <2>3. s \in Seq(Keys)
    BY <2>2
  <2>4. Elements(rest \o s) = Elements(rest) \cup Elements(s)
    <3>1. \A t, u \in Seq(Keys) : Elements(t \o u) = Elements(t) \cup Elements(u)
      BY ConcatElements
    <3>2. QED
      BY <1>1, <2>3, <3>1, Zenon
  <2>5. Pending' = visited' \cup Elements(rest \o s)
    BY <2>1 DEF Pending, Elements
  <2>6. QED
    BY <1>1, <1>2, <1>4, <2>2, <2>4, <2>5 DEF Pending
<1>5. QED
  BY <1>1, <1>3, <1>4 DEF Pending

LEMMA VisitWalked == IInv /\ Walked /\ Visit => Walked' /\ ReachesExactly'
<1> SUFFICES ASSUME IInv, Walked, Visit PROVE Walked' /\ ReachesExactly'
  OBVIOUS
<1> DEFINE node == stack[Len(stack)]
<1>1. phase = "reach" /\ phase' = "reach" /\ input' = input /\ graph' = graph
      /\ visited' = visited \cup {node}
  BY DEF Visit
<1>2. \A n : Edges(n)' = Edges(n)
  BY <1>1 DEF Edges
<1>3. node \in Pending /\ Pending' = IF node \in visited THEN Pending ELSE Pending \cup Edges(node)
  BY VisitPending
<1>4. \A n \in visited' : Edges(n) \subseteq Pending'
  BY <1>1, <1>3 DEF Walked
<1>5. ASSUME NEW S, Elements(input.roots) \subseteq S, Closed(S) PROVE Pending' \subseteq S
  <2>1. Pending \subseteq S
    BY <1>1, <1>5 DEF Walked
  <2>2. Edges(node) \subseteq S
    BY <1>3, <1>5, <2>1 DEF Closed
  <2>3. QED
    BY <1>3, <2>1, <2>2
<1>6. Elements(input.roots)' = Elements(input.roots) /\ \A S : Closed(S)' <=> Closed(S)
  BY <1>1, <1>2 DEF Elements, Closed
<1>7. Elements(input.roots) \subseteq Pending'
  BY <1>1, <1>3 DEF Walked
<1>8. QED
  BY <1>1, <1>2, <1>4, <1>5, <1>6, <1>7 DEF Walked, ReachesExactly

LEMMA ReachedWalked == IInv /\ Walked /\ Reached => Walked' /\ ReachesExactly'
<1> SUFFICES ASSUME IInv, Walked, Reached PROVE Walked' /\ ReachesExactly'
  OBVIOUS
<1>1. /\ phase = "reach" /\ stack = << >> /\ phase' = "order"
      /\ input' = input /\ graph' = graph /\ visited' = visited
  BY DEF Reached
<1>2. Pending = visited
  BY <1>1, ElementsEmpty DEF Pending
<1>3. Elements(input.roots) \subseteq visited /\ Closed(visited)
  BY <1>1, <1>2 DEF Walked, Closed
<1>4. \A S \in SUBSET visited : Elements(input.roots) \subseteq S /\ Closed(S) => S = visited
  BY <1>1, <1>2 DEF Walked
<1>5. Elements(input.roots)' = Elements(input.roots) /\ \A S : Closed(S)' <=> Closed(S)
  BY <1>1 DEF Elements, Closed, Edges
<1>6. QED
  BY <1>1, <1>3, <1>4, <1>5 DEF Walked, ReachesExactly

(* The steps after the walk leave what it reached as it is.                *)
LEMMA AfterWalk ==
  ASSUME ReachesExactly, phase # "reach", phase' # "reach",
         input' = input, graph' = graph, visited' = visited
  PROVE  Walked' /\ ReachesExactly'
<1>1. Elements(input.roots)' = Elements(input.roots) /\ \A S : Closed(S)' <=> Closed(S)
  BY DEF Elements, Closed, Edges
<1>2. QED
  BY <1>1 DEF Walked, ReachesExactly

LEMMA NextWalked == IInv /\ Walked /\ ReachesExactly /\ [Next]_vars => Walked' /\ ReachesExactly'
<1> SUFFICES ASSUME IInv, Walked, ReachesExactly, [Next]_vars PROVE Walked' /\ ReachesExactly'
  OBVIOUS
<1>1. CASE UNCHANGED vars
  BY <1>1 DEF vars, Walked, ReachesExactly, Pending, Elements, Closed, Edges
<1>2. CASE Visit \/ Reached
  BY <1>2, VisitWalked, ReachedWalked
<1>3. CASE Emit \/ CoEmit
  BY <1>3, AfterWalk DEF Emit, CoEmit
<1>4. QED
  BY <1>1, <1>2, <1>3 DEF Next

(* The walk visits the roots, whatever a visited type depends on, and      *)
(* nothing else, whatever cycles the references make.                      *)
THEOREM WalkReachesExactly == Spec => []ReachesExactly
  BY InitType, NextType, InitWalked, NextWalked, PTL DEF Spec

-----------------------------------------------------------------------------
(* The order.                                                              *)

DepsBefore(s) == \A i \in 1 .. Len(s) : Deps(s[i]) \subseteq {s[j] : j \in 1 .. i - 1}

Sorted ==
  phase = "order" =>
    /\ waiting = [node \in visited |-> Deps(node) \ Elements(output)]
    /\ Elements(queue) \cup Elements(output) = {node \in visited : waiting[node] = {}}
    /\ Elements(queue) \cap Elements(output) = {}
    /\ Distinct(queue) /\ Distinct(output)
    /\ DepsBefore(output)

EmptyOutput == phase = "reach" => output = << >>

Ordered == Sorted /\ EmptyOutput /\ EachOnce /\ DepsFirst

LEMMA InitOrdered == Init => Ordered
  BY DEF Init, Ordered, Sorted, EmptyOutput, EachOnce, DepsFirst

LEMMA VisitOrdered == IInv /\ Ordered /\ Visit => Ordered'
  BY DEF Visit, Ordered, Sorted, EmptyOutput, EachOnce, DepsFirst

LEMMA ReachedOrdered == IInv /\ Ordered /\ Reached => Ordered'
<1> SUFFICES ASSUME IInv, Ordered, Reached PROVE Ordered'
  OBVIOUS
<1> DEFINE ready == {node \in visited : Deps(node) = {}}
<1>1. /\ phase' = "order" /\ graph' = graph /\ visited' = visited
      /\ waiting' = [node \in visited |-> Deps(node)]
      /\ queue' \in Alphabetical(ready) /\ output' = << >>
  BY DEF Reached, Ordered, EmptyOutput
<1>2. ready \in SUBSET Keys
  BY DEF IInv, TypeOK
<1>3. Elements(queue)' = ready /\ Distinct(queue)'
  BY <1>1, <1>2, AlphabeticalIs DEF Elements, Distinct
<1>4. Elements(output)' = {} /\ Distinct(output)' /\ DepsBefore(output)'
  BY <1>1 DEF Elements, Distinct, DepsBefore
<1>5. \A n : Deps(n)' = Deps(n)
  BY <1>1 DEF Deps, Edges
<1>6. waiting' = [node \in visited |-> Deps(node)' \ Elements(output)']
  BY <1>1, <1>4, <1>5
<1>7. {node \in visited : waiting'[node] = {}} = ready
  BY <1>1
<1>8. Sorted'
  BY <1>1, <1>3, <1>4, <1>6, <1>7 DEF Sorted
<1>9. QED
  BY <1>1, <1>8 DEF Ordered, EmptyOutput, EachOnce, DepsFirst

LEMMA EmitOrdered == IInv /\ Ordered /\ Emit => Ordered'
<1> SUFFICES ASSUME IInv, Ordered, Emit PROVE Ordered'
  OBVIOUS
<1> DEFINE node  == Head(queue)
           freed == {s \in visited : waiting[s] = {node}}
<1>1. /\ phase = "order" /\ phase' = "order" /\ graph' = graph /\ visited' = visited
      /\ output' = Append(output, node)
      /\ waiting' = [s \in visited |-> waiting[s] \ {node}]
      /\ queue \in Seq(visited) /\ queue # << >> /\ output \in Seq(visited) /\ visited \subseteq Keys
  BY DEF Emit, IInv, TypeOK
<1>2. /\ waiting = [n \in visited |-> Deps(n) \ Elements(output)]
      /\ Elements(queue) \cup Elements(output) = {n \in visited : waiting[n] = {}}
      /\ Elements(queue) \cap Elements(output) = {}
      /\ Distinct(queue) /\ Distinct(output) /\ DepsBefore(output)
  BY <1>1 DEF Ordered, Sorted
<1>3. /\ node \in visited /\ Tail(queue) \in Seq(visited)
      /\ Elements(queue) = {node} \cup Elements(Tail(queue))
      /\ Distinct(Tail(queue)) /\ node \notin Elements(Tail(queue))
  BY <1>1, <1>2, Dequeued
<1>4. node \notin Elements(output) /\ waiting[node] = {}
  BY <1>2, <1>3
<1>5. /\ Elements(Append(output, node)) = Elements(output) \cup {node}
      /\ Distinct(Append(output, node))
  BY <1>1, <1>2, <1>3, <1>4, Enqueued
<1>6. PICK s \in Alphabetical(freed) : queue' = Tail(queue) \o s
  BY DEF Emit
<1>7. s \in Seq(freed) /\ Elements(s) = freed /\ Distinct(s)
  <2>1. freed \in SUBSET Keys
    BY <1>1
  <2>2. QED
    BY <2>1, AlphabeticalIs
<1>8. s \in Seq(visited)
  BY <1>7
<1>9. freed \cap (Elements(queue) \cup Elements(output)) = {}
  BY <1>2
<1>10. /\ Elements(Tail(queue) \o s) = Elements(Tail(queue)) \cup freed
       /\ Distinct(Tail(queue) \o s)
  <2>1. Elements(Tail(queue)) \cap Elements(s) = {}
    BY <1>3, <1>7, <1>9
  <2>2. Elements(Tail(queue) \o s) = Elements(Tail(queue)) \cup Elements(s)
    <3>1. \A t, u \in Seq(visited) : Elements(t \o u) = Elements(t) \cup Elements(u)
      BY ConcatElements
    <3>2. QED
      BY <1>3, <1>8, <3>1, Zenon
  <2>3. Distinct(Tail(queue) \o s)
    BY <1>3, <1>7, <1>8, <2>1, ConcatDistinct, Zenon
  <2>4. QED
    BY <1>7, <2>2, <2>3
<1>11. /\ Elements(queue)' = Elements(Tail(queue)) \cup freed /\ Distinct(queue)'
       /\ Elements(output)' = Elements(output) \cup {node} /\ Distinct(output)'
  <2>1. /\ Elements(queue)' = Elements(queue') /\ (Distinct(queue)' <=> Distinct(queue'))
        /\ Elements(output)' = Elements(output') /\ (Distinct(output)' <=> Distinct(output'))
    BY DEF Elements, Distinct
  <2>2. QED
    BY <1>1, <1>5, <1>6, <1>10, <2>1
<1>12. \A n : Deps(n)' = Deps(n)
  BY <1>1 DEF Deps, Edges
<1>13. waiting' = [n \in visited |-> Deps(n)' \ Elements(output)']
  <2>1. \A n \in visited : waiting[n] \ {node} = Deps(n)' \ Elements(output)'
    BY <1>2, <1>11, <1>12
  <2>2. QED
    BY <1>1, <2>1
<1>14. {n \in visited : waiting'[n] = {}} = {n \in visited : waiting[n] = {}} \cup freed
  BY <1>1
<1>15. Elements(queue)' \cup Elements(output)' = {n \in visited : waiting'[n] = {}}
  BY <1>2, <1>3, <1>11, <1>14
<1>16. Elements(queue)' \cap Elements(output)' = {}
  BY <1>2, <1>3, <1>9, <1>11
<1>17. DepsBefore(output)'
  <2> DEFINE new == Append(output, node)
  <2>1. /\ Len(output) \in Nat /\ Len(new) = Len(output) + 1 /\ new[Len(output) + 1] = node
        /\ \A i \in 1 .. Len(output) : new[i] = output[i]
    BY <1>1, <1>3
  <2> HIDE DEF new
  <2>2. \A i \in 1 .. Len(new) : Deps(new[i]) \subseteq {new[j] : j \in 1 .. i - 1}
    <3> SUFFICES ASSUME NEW i \in 1 .. Len(new) PROVE Deps(new[i]) \subseteq {new[j] : j \in 1 .. i - 1}
      OBVIOUS
    <3>1. CASE i \in 1 .. Len(output)
      <4>1. \A j \in 1 .. i - 1 : j \in 1 .. Len(output) /\ new[j] = output[j]
        BY <2>1, <3>1
      <4>2. Deps(output[i]) \subseteq {output[j] : j \in 1 .. i - 1}
        BY <1>2, <3>1 DEF DepsBefore
      <4>3. {output[j] : j \in 1 .. i - 1} = {new[j] : j \in 1 .. i - 1}
        BY <4>1
      <4>4. new[i] = output[i]
        BY <2>1, <3>1
      <4>5. QED
        BY <4>2, <4>3, <4>4
    <3>2. CASE i = Len(output) + 1
      <4>1. new[i] = node /\ i - 1 = Len(output)
        BY <2>1, <3>2
      <4>2. Deps(node) \subseteq Elements(output)
        BY <1>2, <1>3, <1>4
      <4>3. Elements(output) = {new[j] : j \in 1 .. Len(output)}
        BY <2>1 DEF Elements
      <4>4. QED
        BY <4>1, <4>2, <4>3
    <3>3. QED
      BY <2>1, <3>1, <3>2
  <2>3. output' = new
    BY <1>1 DEF new
  <2>4. QED
    BY <1>12, <2>2, <2>3 DEF DepsBefore
<1>18. Sorted'
  BY <1>1, <1>11, <1>13, <1>15, <1>16, <1>17 DEF Sorted
<1>19. QED
  BY <1>1, <1>18 DEF Ordered, EmptyOutput, EachOnce, DepsFirst

LEMMA CoEmitOrdered == IInv /\ Ordered /\ CoEmit => Ordered'
<1> SUFFICES ASSUME IInv, Ordered, CoEmit PROVE Ordered'
  OBVIOUS
<1> DEFINE W == Elements(output)
<1>1. /\ phase = "order" /\ queue = << >> /\ phase' = "done" /\ graph' = graph /\ visited' = visited
      /\ output \in Seq(visited) /\ visited \subseteq Keys
  BY DEF CoEmit, IInv, TypeOK
<1>2. /\ waiting = [n \in visited |-> Deps(n) \ W]
      /\ W = {n \in visited : waiting[n] = {}}
      /\ Distinct(output) /\ DepsBefore(output)
  BY <1>1, ElementsEmpty DEF Ordered, Sorted
<1>3. PICK s \in Alphabetical(visited \ W) : output' = output \o s
  BY DEF CoEmit
<1>4. s \in Seq(visited \ W) /\ Elements(s) = visited \ W /\ Distinct(s)
  <2>1. visited \ W \in SUBSET Keys
    BY <1>1
  <2>2. QED
    BY <2>1, AlphabeticalIs
<1>5. s \in Seq(visited)
  BY <1>4
<1>6. /\ Elements(output \o s) = W \cup Elements(s) /\ Distinct(output \o s)
  <2>1. W \cap Elements(s) = {}
    BY <1>4
  <2>2. Elements(output \o s) = W \cup Elements(s)
    BY <1>1, <1>5, ConcatElements, Zenon
  <2>3. Distinct(output \o s)
    <3>1. \A t, u \in Seq(visited) :
            Distinct(t) /\ Distinct(u) /\ Elements(t) \cap Elements(u) = {} => Distinct(t \o u)
      BY ConcatDistinct
    <3>2. /\ output \in Seq(visited) /\ s \in Seq(visited) /\ Distinct(output) /\ Distinct(s)
          /\ Elements(output) \cap Elements(s) = {}
      BY <1>1, <1>2, <1>4, <1>5, <2>1
    <3>3. QED
      BY <3>1, <3>2, Zenon
  <2>4. QED
    BY <2>2, <2>3
<1>7. EachOnce'
  <2>1. W \cup Elements(s) = visited
    BY <1>2, <1>4
  <2>2. Elements(output)' = visited' /\ Distinct(output)'
    BY <1>1, <1>3, <1>6, <2>1 DEF Elements, Distinct
  <2>3. QED
    BY <2>2 DEF EachOnce, Distinct
<1>8. Grounded \subseteq W
  <2>1. ASSUME NEW y \in visited, Deps(y) \subseteq W PROVE y \in W
    <3>1. waiting[y] = Deps(y) \ W
      BY <1>2
    <3>2. waiting[y] = {}
      BY <2>1, <3>1
    <3>3. W = {n \in visited : waiting[n] = {}}
      BY <1>2
    <3>4. QED
      BY <2>1, <3>2, <3>3, Zenon
  <2>2. W \in SUBSET visited
    BY <1>2
  <2>3. QED
    BY <2>1, <2>2 DEF Grounded
<1>9. Grounded' = Grounded /\ \A n : Deps(n)' = Deps(n)
  BY <1>1 DEF Grounded, Deps, Edges
<1>10. DepsFirst'
  <2> DEFINE new == output \o s
  <2>1. /\ Len(output) \in Nat /\ Len(s) \in Nat /\ Len(new) = Len(output) + Len(s)
        /\ \A i \in 1 .. Len(output) : new[i] = output[i]
        /\ \A i \in 1 .. Len(s) : new[Len(output) + i] = s[i]
    BY <1>1, <1>5
  <2> HIDE DEF new
  <2>2. ASSUME NEW i \in 1 .. Len(new), new[i] \in Grounded
        PROVE  Deps(new[i]) \subseteq {new[j] : j \in 1 .. i - 1}
    <3>1. CASE i \in 1 .. Len(output)
      <4>1. \A j \in 1 .. i - 1 : new[j] = output[j]
        BY <2>1, <3>1
      <4>2. Deps(output[i]) \subseteq {output[j] : j \in 1 .. i - 1}
        BY <1>2, <3>1 DEF DepsBefore
      <4>3. new[i] = output[i]
        BY <2>1, <3>1
      <4>4. QED
        BY <4>1, <4>2, <4>3
    <3>2. CASE i \notin 1 .. Len(output)
      <4>1. i - Len(output) \in 1 .. Len(s) /\ Len(output) + (i - Len(output)) = i
        BY <2>1, <3>2
      <4>2. new[i] = s[i - Len(output)]
        BY <2>1, <4>1
      <4>3. new[i] \in Elements(s)
        BY <4>1, <4>2 DEF Elements
      <4>4. QED
        BY <1>4, <1>8, <2>2, <4>3
    <3>3. QED
      BY <3>1, <3>2
  <2>3. output' = new
    BY <1>3 DEF new
  <2>4. QED
    BY <1>9, <2>2, <2>3 DEF DepsFirst
<1>11. QED
  BY <1>1, <1>7, <1>10 DEF Ordered, Sorted, EmptyOutput

LEMMA NextOrdered == IInv /\ Ordered /\ [Next]_vars => Ordered'
<1> SUFFICES ASSUME IInv, Ordered, [Next]_vars PROVE Ordered'
  OBVIOUS
<1>1. CASE UNCHANGED vars
  <2>1. /\ phase' = phase /\ graph' = graph /\ visited' = visited /\ output' = output
        /\ waiting' = waiting /\ queue' = queue
    BY <1>1 DEF vars
  <2>2. /\ Elements(queue)' = Elements(queue) /\ Elements(output)' = Elements(output)
        /\ Distinct(queue)' <=> Distinct(queue)
        /\ Distinct(output)' <=> Distinct(output)
    BY <2>1 DEF Elements, Distinct
  <2>3. Grounded' = Grounded /\ \A n : Deps(n)' = Deps(n)
    BY <2>1 DEF Grounded, Deps, Edges
  <2>4. DepsBefore(output)' <=> DepsBefore(output)
    BY <2>1 DEF DepsBefore, Deps, Edges
  <2>5. Sorted'
    BY <2>1, <2>2, <2>3, <2>4 DEF Ordered, Sorted
  <2>6. EachOnce' /\ DepsFirst' /\ EmptyOutput'
    BY <2>1, <2>2, <2>3 DEF Ordered, EachOnce, DepsFirst, EmptyOutput
  <2>7. QED
    BY <2>5, <2>6 DEF Ordered
<1>2. CASE Next
  BY <1>2, VisitOrdered, ReachedOrdered, EmitOrdered, CoEmitOrdered DEF Next
<1>3. QED
  BY <1>1, <1>2

(* Every type reached is put out once, those on a cycle and behind one too. *)
THEOREM EveryTypeOnce == Spec => []EachOnce
<1>1. Ordered => EachOnce
  BY DEF Ordered
<1>2. QED
  BY <1>1, InitType, NextType, InitOrdered, NextOrdered, PTL DEF Spec

(* A type that waits for no cycle is put out after all it depends on.      *)
THEOREM DependenciesFirst == Spec => []DepsFirst
<1>1. Ordered => DepsFirst
  BY DEF Ordered
<1>2. QED
  BY <1>1, InitType, NextType, InitOrdered, NextOrdered, PTL DEF Spec

-----------------------------------------------------------------------------
(* What the names of the output mean.                                      *)

GraphOfInput == graph = DependencyGraph(input.crate)

LEMMA GraphKept == GraphOfInput /\ [Next]_vars => GraphOfInput'
<1> SUFFICES ASSUME GraphOfInput, [Next]_vars PROVE GraphOfInput'
  OBVIOUS
<1>1. input' = input /\ graph' = graph
  BY DEF Next, Visit, Reached, Emit, CoEmit, vars
<1>2. QED
  BY <1>1 DEF GraphOfInput

(* What roots of the pool reach is in the pool.                            *)
LEMMA ReachedScanned ==
  ASSUME IInv, ReachesExactly, phase = "done", ~Refused
  PROVE  Declared = visited
<1> DEFINE S == visited \cap input.crate.pool
<1>1. /\ Elements(input.roots) \subseteq visited /\ Closed(visited)
      /\ \A W \in SUBSET visited : Elements(input.roots) \subseteq W /\ Closed(W) => W = visited
  BY DEF ReachesExactly
<1>2. Elements(input.roots) \subseteq S
  BY <1>1 DEF Refused
<1>3. Closed(S)
  <2> SUFFICES ASSUME NEW node \in S PROVE Edges(node) \subseteq S
    BY DEF Closed
  <2>1. Edges(node) \subseteq visited
    BY <1>1 DEF Closed
  <2>2. Edges(node) \subseteq input.crate.pool
    BY DEF Edges, IInv, TypeOK
  <2>3. QED
    BY <2>1, <2>2
<1>4. S = visited
  BY <1>1, <1>2, <1>3
<1>5. QED
  BY <1>4 DEF Declared

-----------------------------------------------------------------------------
(* What a name resolves to.  The two definitions by recursion, the chain   *)
(* of `use`s and the passes of the resolution, are functions on 0 .. n:    *)
(* they exist because a least n without one leads to one.                  *)

LEMMA LeastNumber ==
  ASSUME NEW T \in SUBSET Nat, T # {}
  PROVE  \E n \in T : \A m \in T : n <= m
<1> DEFINE less == OpToRel(<, Nat)
<1>1. IsWellFoundedOn(less, Nat)
  BY NatLessThanWellFounded
<1>2. \A x, y \in Nat : <<y, x>> \in less <=> y < x
  BY DEF OpToRel
<1> HIDE DEF less
<1>3. PICK n \in T : \A m \in T : ~(<<m, n>> \in less)
  BY <1>1, WFMin
<1>4. \A m \in T : m \in Nat /\ n \in Nat /\ ~(m < n)
  BY <1>2, <1>3
<1>5. QED
  BY <1>4

Follow(c, k)      == IF k \in DOMAIN c.uses THEN c.uses[k] ELSE k
IsChain(c, k, f, n) == f = [i \in 0 .. n |-> IF i = 0 THEN k ELSE Follow(c, f[i - 1])]
Chain(c, k)       == CHOOSE f : IsChain(c, k, f, MaxHops + 1)

LEMMA ChainExists ==
  ASSUME NEW c, NEW k, NEW n \in Nat
  PROVE  \E f : IsChain(c, k, f, n)
<1> DEFINE Bad == {m \in Nat : ~\E f : IsChain(c, k, f, m)}
<1> SUFFICES ASSUME Bad # {} PROVE FALSE
  OBVIOUS
<1>1. PICK m \in Bad : \A l \in Bad : m <= l
  <2>1. Bad \in SUBSET Nat
    OBVIOUS
  <2> HIDE DEF Bad
  <2>2. QED
    BY <2>1, LeastNumber
<1>2. m \in Nat /\ ~\E f : IsChain(c, k, f, m)
  OBVIOUS
<1>3. CASE m = 0
  <2> DEFINE f == [i \in 0 .. 0 |-> k]
  <2>1. f = [i \in 0 .. 0 |-> IF i = 0 THEN k ELSE Follow(c, f[i - 1])]
    OBVIOUS
  <2>2. QED
    BY <1>2, <1>3, <2>1 DEF IsChain
<1>4. CASE m # 0
  <2>1. m - 1 \in Nat /\ ~(m <= m - 1)
    BY <1>2, <1>4
  <2>2. PICK g : IsChain(c, k, g, m - 1)
    BY <1>1, <2>1
  <2> DEFINE f == [i \in 0 .. m |-> IF i = m THEN Follow(c, g[m - 1]) ELSE g[i]]
  <2>3. g = [i \in 0 .. m - 1 |-> IF i = 0 THEN k ELSE Follow(c, g[i - 1])]
    BY <2>2 DEF IsChain
  <2>4. \A i \in 0 .. m - 1 : i \in 0 .. m /\ i # m /\ f[i] = g[i]
    BY <1>2
  <2>5. ASSUME NEW i \in 0 .. m PROVE f[i] = IF i = 0 THEN k ELSE Follow(c, f[i - 1])
    <3>1. CASE i = m
      <4>1. f[i] = Follow(c, g[m - 1]) /\ i # 0 /\ i - 1 \in 0 .. m - 1
        BY <1>2, <1>4, <3>1
      <4>2. f[i - 1] = g[m - 1]
        BY <2>4, <3>1, <4>1
      <4>3. QED
        BY <4>1, <4>2
    <3>2. CASE i # m /\ i # 0
      <4>1. i \in 0 .. m - 1 /\ i - 1 \in 0 .. m - 1
        BY <1>2, <3>2
      <4>2. f[i] = g[i] /\ f[i - 1] = g[i - 1]
        BY <2>4, <4>1
      <4>3. g[i] = Follow(c, g[i - 1])
        BY <2>3, <3>2, <4>1
      <4>4. QED
        BY <3>2, <4>2, <4>3
    <3>3. CASE i # m /\ i = 0
      <4>1. i \in 0 .. m - 1
        BY <1>2, <3>3
      <4>2. f[i] = g[i] /\ g[i] = k
        BY <2>3, <2>4, <3>3, <4>1
      <4>3. QED
        BY <3>3, <4>2
    <3>4. QED
      BY <3>1, <3>2, <3>3
  <2>6. f = [i \in 0 .. m |-> f[i]]
    OBVIOUS
  <2> HIDE DEF f
  <2>7. f = [i \in 0 .. m |-> IF i = 0 THEN k ELSE Follow(c, f[i - 1])]
    BY <2>5, <2>6
  <2>8. QED
    BY <1>2, <2>7 DEF IsChain
<1>5. QED
  BY <1>3, <1>4

LEMMA ChainIs ==
  ASSUME NEW c, NEW k
  PROVE  /\ MaxHops \in Nat /\ Origin(c, k) = Chain(c, k)[MaxHops + 1]
         /\ Chain(c, k)[0] = k
         /\ \A i \in 0 .. MaxHops : Chain(c, k)[i + 1] = Follow(c, Chain(c, k)[i])
<1>1. MaxHops \in Nat /\ MaxHops + 1 \in Nat
  BY ResolutionAssumption
<1>2. Origin(c, k) = Chain(c, k)[MaxHops + 1]
  BY DEF Origin, Chain, IsChain, Follow
<1>3. IsChain(c, k, Chain(c, k), MaxHops + 1)
  <2>1. \E f : IsChain(c, k, f, MaxHops + 1)
    BY <1>1, ChainExists
  <2>2. QED
    BY <2>1 DEF Chain
<1> DEFINE f == Chain(c, k)
<1> HIDE DEF f
<1>4. f = [i \in 0 .. MaxHops + 1 |-> IF i = 0 THEN k ELSE Follow(c, f[i - 1])]
  BY <1>3 DEF IsChain, f
<1>5. f[0] = k
  BY <1>1, <1>4
<1>6. ASSUME NEW i \in 0 .. MaxHops PROVE f[i + 1] = Follow(c, f[i])
  <2>1. i + 1 \in 0 .. MaxHops + 1 /\ i + 1 # 0 /\ (i + 1) - 1 = i
    BY <1>1
  <2>2. f[i + 1] = Follow(c, f[(i + 1) - 1])
    BY <1>4, <2>1
  <2>3. QED
    BY <2>1, <2>2
<1>7. QED
  BY <1>1, <1>2, <1>5, <1>6 DEF f

(* The chain of a name is the name and the chain of what it points at.     *)
LEMMA ChainShift ==
  ASSUME NEW c, NEW k, NEW n \in 0 .. MaxHops
  PROVE  Chain(c, k)[n + 1] = Chain(c, Follow(c, k))[n]
<1> DEFINE l == Follow(c, k)
           f == Chain(c, k)
           g == Chain(c, l)
           Bad == {i \in 0 .. MaxHops : f[i + 1] # g[i]}
<1>1. MaxHops \in Nat
  BY ResolutionAssumption
<1>2. f[0] = k /\ \A i \in 0 .. MaxHops : f[i + 1] = Follow(c, f[i])
  BY ChainIs
<1>3. g[0] = l /\ \A i \in 0 .. MaxHops : g[i + 1] = Follow(c, g[i])
  BY ChainIs
<1> HIDE DEF f, g
<1> SUFFICES ASSUME Bad # {} PROVE FALSE
  BY DEF f, g
<1>4. PICK m \in Bad : \A i \in Bad : m <= i
  <2>1. Bad \in SUBSET Nat
    BY <1>1
  <2> HIDE DEF Bad
  <2>2. QED
    BY <2>1, LeastNumber
<1>5. m \in 0 .. MaxHops /\ f[m + 1] # g[m] /\ f[m + 1] = Follow(c, f[m])
  BY <1>2
<1>6. m # 0
  BY <1>2, <1>3, <1>5
<1>7. m - 1 \in 0 .. MaxHops /\ (m - 1) + 1 = m /\ ~(m <= m - 1)
  BY <1>1, <1>5, <1>6
<1>8. f[m] = g[m - 1]
  BY <1>4, <1>7
<1>9. g[m] = Follow(c, g[m - 1])
  BY <1>3, <1>7
<1>10. QED
  BY <1>5, <1>8, <1>9

(* A name no `use` leads on from stays.                                    *)
LEMMA ChainStays ==
  ASSUME NEW c, NEW k, k \notin DOMAIN c.uses, NEW n \in 0 .. MaxHops + 1
  PROVE  Chain(c, k)[n] = k
<1> DEFINE f == Chain(c, k)
           Bad == {i \in 0 .. MaxHops + 1 : f[i] # k}
<1>1. MaxHops \in Nat
  BY ResolutionAssumption
<1>2. f[0] = k /\ \A i \in 0 .. MaxHops : f[i + 1] = Follow(c, f[i])
  BY ChainIs
<1> HIDE DEF f
<1> SUFFICES ASSUME Bad # {} PROVE FALSE
  BY DEF f
<1>3. PICK m \in Bad : \A i \in Bad : m <= i
  <2>1. Bad \in SUBSET Nat
    BY <1>1
  <2> HIDE DEF Bad
  <2>2. QED
    BY <2>1, LeastNumber
<1>4. m \in 0 .. MaxHops + 1 /\ f[m] # k /\ m # 0
  BY <1>2
<1>5. m - 1 \in 0 .. MaxHops /\ m - 1 \in 0 .. MaxHops + 1 /\ (m - 1) + 1 = m /\ ~(m <= m - 1)
  BY <1>1, <1>4
<1>6. f[m - 1] = k
  BY <1>3, <1>5
<1>7. f[m] = Follow(c, f[m - 1])
  BY <1>2, <1>5
<1>8. QED
  BY <1>4, <1>6, <1>7 DEF Follow

(* One pass of the resolution: what every name resolves to after one more  *)
(* re-export, from what it resolves to without.                            *)
Pass(c, hops, prev) ==
  [key \in Keys |->
     LET target   == c.uses[key]
         reexport == IF hops = 0 THEN {} ELSE prev[target]
     IN  IF key \notin DOMAIN c.uses
           THEN IF key \in c.pool THEN {key} ELSE Terminal(c, key[1], key[2])
         ELSE IF target \in c.pool THEN {target}
         ELSE IF target[1] # Outside /\ reexport # {} THEN reexport
         ELSE Terminal(c, key[1], target[2])]

Passes(c, f, n) == f = [h \in 0 .. n |-> Pass(c, h, f[h - 1])]

LEMMA PassesExist ==
  ASSUME NEW c, NEW n \in Nat
  PROVE  \E f : Passes(c, f, n)
<1> DEFINE Bad == {m \in Nat : ~\E f : Passes(c, f, m)}
<1> SUFFICES ASSUME Bad # {} PROVE FALSE
  OBVIOUS
<1>1. PICK m \in Bad : \A l \in Bad : m <= l
  <2>1. Bad \in SUBSET Nat
    OBVIOUS
  <2> HIDE DEF Bad
  <2>2. QED
    BY <2>1, LeastNumber
<1>2. m \in Nat /\ ~\E f : Passes(c, f, m)
  OBVIOUS
<1>3. CASE m = 0
  <2> DEFINE f == [h \in 0 .. 0 |-> Pass(c, 0, {})]
  <2>1. \A x, y : Pass(c, 0, x) = Pass(c, 0, y)
    BY DEF Pass
  <2>2. ASSUME NEW h \in 0 .. 0 PROVE f[h] = Pass(c, h, f[h - 1])
    <3>1. h = 0 /\ f[h] = Pass(c, 0, {})
      OBVIOUS
    <3> HIDE DEF f
    <3>2. QED
      BY <2>1, <3>1
  <2>3. f = [h \in 0 .. 0 |-> f[h]]
    OBVIOUS
  <2> HIDE DEF f
  <2>4. f = [h \in 0 .. 0 |-> Pass(c, h, f[h - 1])]
    BY <2>2, <2>3
  <2>5. QED
    BY <1>2, <1>3, <2>4 DEF Passes
<1>4. CASE m # 0
  <2>1. m - 1 \in Nat /\ ~(m <= m - 1)
    BY <1>2, <1>4
  <2>2. PICK g : Passes(c, g, m - 1)
    BY <1>1, <2>1
  <2> DEFINE f == [h \in 0 .. m |-> IF h = m THEN Pass(c, m, g[m - 1]) ELSE g[h]]
  <2>3. g = [h \in 0 .. m - 1 |-> Pass(c, h, g[h - 1])]
    BY <2>2 DEF Passes
  <2>4. \A h \in 0 .. m - 1 : h \in 0 .. m /\ h # m /\ f[h] = g[h]
    BY <1>2
  <2>5. f[m] = Pass(c, m, g[m - 1])
    BY <1>2
  <2>6. f = [h \in 0 .. m |-> f[h]]
    OBVIOUS
  <2>7. \A x, y : Pass(c, 0, x) = Pass(c, 0, y)
    BY DEF Pass
  <2> HIDE DEF f
  <2>8. ASSUME NEW h \in 0 .. m PROVE f[h] = Pass(c, h, f[h - 1])
    <3>1. CASE h = m
      <4>1. m - 1 \in 0 .. m - 1
        BY <1>2, <1>4
      <4>2. f[m - 1] = g[m - 1]
        BY <2>4, <4>1
      <4>3. QED
        BY <2>5, <3>1, <4>2
    <3>2. CASE h # m /\ h # 0
      <4>1. h \in 0 .. m - 1 /\ h - 1 \in 0 .. m - 1
        BY <1>2, <3>2
      <4>2. f[h] = g[h] /\ f[h - 1] = g[h - 1]
        BY <2>4, <4>1
      <4>3. g[h] = Pass(c, h, g[h - 1])
        BY <2>3, <4>1
      <4>4. QED
        BY <4>2, <4>3
    <3>3. CASE h # m /\ h = 0
      <4>1. h \in 0 .. m - 1
        BY <1>2, <3>3
      <4>2. f[h] = g[h] /\ g[h] = Pass(c, h, g[h - 1])
        BY <2>3, <2>4, <4>1
      <4>3. QED
        BY <2>7, <3>3, <4>2
    <3>4. QED
      BY <3>1, <3>2, <3>3
  <2>9. f = [h \in 0 .. m |-> Pass(c, h, f[h - 1])]
    BY <2>6, <2>8
  <2>10. QED
    BY <1>2, <2>9 DEF Passes
<1>5. QED
  BY <1>3, <1>4

LEMMA BareIdentIs ==
  ASSUME NEW c, NEW h \in 0 .. MaxHops
  PROVE  BareIdent(c)[h] = Pass(c, h, BareIdent(c)[h - 1])
<1> DEFINE f == BareIdent(c)
<1>1. f = CHOOSE g : Passes(c, g, MaxHops)
  BY DEF BareIdent, Passes, Pass
<1>2. \E g : Passes(c, g, MaxHops)
  BY PassesExist, ResolutionAssumption
<1> HIDE DEF f
<1>3. Passes(c, f, MaxHops)
  BY <1>1, <1>2
<1>4. f[h] = Pass(c, h, f[h - 1])
  BY <1>3 DEF Passes
<1>5. QED
  BY <1>4 DEF f

(* A chain that comes to a scanned type within the hops resolves to it.    *)
LEMMA FollowsChain ==
  ASSUME NEW c, c.pool \in SUBSET Keys, DOMAIN c.uses \subseteq Keys \ c.pool,
         \A k \in DOMAIN c.uses : c.uses[k] \in Targets,
         NEW n \in 0 .. MaxHops
  PROVE  \A k \in Keys : Chain(c, k)[n + 1] \in c.pool => BareIdent(c)[n][k] = {Chain(c, k)[n + 1]}
<1> DEFINE B == BareIdent(c)
           Good(h) == \A k \in Keys : Chain(c, k)[h + 1] \in c.pool => B[h][k] = {Chain(c, k)[h + 1]}
           Bad == {h \in 0 .. MaxHops : ~Good(h)}
<1>1. MaxHops \in Nat
  BY ResolutionAssumption
<1> SUFFICES ASSUME Bad # {} PROVE FALSE
  OBVIOUS
<1>2. PICK h \in Bad : \A i \in Bad : h <= i
  <2>1. Bad \in SUBSET Nat
    BY <1>1
  <2> HIDE DEF Bad
  <2>2. QED
    BY <2>1, LeastNumber
<1>3. h \in 0 .. MaxHops /\ ~Good(h)
  OBVIOUS
<1>4. PICK k \in Keys : Chain(c, k)[h + 1] \in c.pool /\ B[h][k] # {Chain(c, k)[h + 1]}
  BY <1>3
<1> DEFINE target == c.uses[k]
           end    == Chain(c, k)[h + 1]
<1>5. B[h] = Pass(c, h, B[h - 1])
  BY <1>3, BareIdentIs
<1> HIDE DEF B
<1>6. B[h][k] =
        IF k \notin DOMAIN c.uses
          THEN IF k \in c.pool THEN {k} ELSE Terminal(c, k[1], k[2])
        ELSE IF target \in c.pool THEN {target}
        ELSE IF target[1] # Outside /\ (IF h = 0 THEN {} ELSE B[h - 1][target]) # {}
               THEN IF h = 0 THEN {} ELSE B[h - 1][target]
        ELSE Terminal(c, k[1], target[2])
  BY <1>5 DEF Pass
<1>7. CASE k \notin DOMAIN c.uses
  <2>1. h + 1 \in 0 .. MaxHops + 1
    BY <1>1, <1>3
  <2>2. end = k
    BY <1>7, <2>1, ChainStays
  <2>3. QED
    BY <1>4, <1>6, <1>7, <2>2
<1>8. CASE k \in DOMAIN c.uses
  <2>1. Follow(c, k) = target /\ target \in Targets
    BY <1>8 DEF Follow
  <2>2. end = Chain(c, target)[h]
    BY <1>3, <2>1, ChainShift
  <2>3. h \in 0 .. MaxHops + 1
    BY <1>1, <1>3
  <2>4. CASE target \notin DOMAIN c.uses
    <3>1. end = target
      BY <2>2, <2>3, <2>4, ChainStays
    <3>2. QED
      BY <1>4, <1>6, <1>8, <3>1
  <2>5. CASE target \in DOMAIN c.uses
    <3>1. target \in Keys /\ target \notin c.pool /\ target[1] # Outside
      BY <2>5, ResolutionAssumption DEF Keys
    <3>2. h # 0
      <4>1. Chain(c, target)[0] = target
        BY ChainIs
      <4>2. QED
        BY <1>4, <2>2, <3>1, <4>1
    <3>3. h - 1 \in 0 .. MaxHops /\ (h - 1) + 1 = h /\ ~(h <= h - 1)
      BY <1>1, <1>3, <3>2
    <3>4. Good(h - 1)
      BY <1>2, <3>3
    <3>5. B[h - 1][target] = {end}
      BY <1>4, <2>2, <3>1, <3>3, <3>4
    <3>6. QED
      BY <1>4, <1>6, <1>8, <3>1, <3>2, <3>5
  <2>6. QED
    BY <2>4, <2>5
<1>9. QED
  BY <1>7, <1>8

LEMMA NamesResolve == IInv => ResolvesToDefinition
<1> SUFFICES ASSUME IInv, NEW m \in Modules, NEW name \in Names,
                    Origin(input.crate, <<m, name>>) \in input.crate.pool
             PROVE  Resolved(input.crate, m, <<Bare, name>>) = {Origin(input.crate, <<m, name>>)}
  BY DEF ResolvesToDefinition
<1> DEFINE c == input.crate
           k == <<m, name>>
<1>1. /\ c.pool \in SUBSET Keys /\ DOMAIN c.uses \subseteq Keys \ c.pool
      /\ \A l \in DOMAIN c.uses : c.uses[l] \in Targets
  BY TypeOrderAssumption DEF IInv
<1>2. k \in Keys
  BY DEF Keys
<1>3. MaxHops \in 0 .. MaxHops /\ Origin(c, k) = Chain(c, k)[MaxHops + 1]
  BY ChainIs
<1>4. Resolved(c, m, <<Bare, name>>) = BareIdent(c)[MaxHops][k]
  BY DEF Resolved
<1> HIDE DEF c, k
<1>5. BareIdent(c)[MaxHops][k] = {Chain(c, k)[MaxHops + 1]}
  <2>1. Chain(c, k)[MaxHops + 1] \in c.pool
    BY <1>3 DEF c, k
  <2>2. QED
    BY <1>1, <1>2, <1>3, <2>1, FollowsChain
<1>6. QED
  BY <1>3, <1>4, <1>5 DEF c, k

(* A name that `use`s lead to a scanned type resolves to that type and no  *)
(* other, however many types share the name, for any chains and any bound  *)
(* on the hops.                                                            *)
THEOREM NamesResolveToDefinition == Spec => []ResolvesToDefinition
  BY InitType, NextType, NamesResolve, PTL DEF Spec

LEMMA NamesBind ==
  ASSUME IInv, GraphOfInput, ReachesExactly, EachOnce
  PROVE  BindsToItsType
<1> SUFFICES ASSUME phase = "done", ~Refused,
                    NEW k \in Declared, NEW ref \in input.crate.reads[k],
                    Meant(k, ref) \in input.crate.pool
             PROVE  {x \in Elements(output) :
                        input.crate.called[x] = input.crate.called[Meant(k, ref)]} = {Meant(k, ref)}
  BY DEF BindsToItsType
<1> DEFINE d == Meant(k, ref)
<1>1. Elements(output) = visited /\ Declared = visited
  BY ReachedScanned DEF EachOnce
<1>2. k \in input.crate.pool /\ k \in visited /\ k[1] \in Modules
  <2>1. input.crate.pool \in SUBSET Keys
    BY TypeOrderAssumption DEF IInv
  <2>2. QED
    BY <2>1 DEF Declared, Keys
<1>3. Resolved(input.crate, k[1], ref) = {d}
  <2>1. CASE ref[1] = Bare
    <3>1. d = Origin(input.crate, <<k[1], ref[2]>>)
      BY <2>1 DEF Meant
    <3>2. ref[2] \in Names
      <4>1. ref \in Targets \cup ({Bare} \X Names)
        BY <1>2, TypeOrderAssumption DEF IInv
      <4>2. QED
        BY <4>1 DEF Targets, Keys
    <3>3. Resolved(input.crate, k[1], <<Bare, ref[2]>>) = {d}
      BY <1>2, <3>1, <3>2, NamesResolve DEF ResolvesToDefinition
    <3>4. Resolved(input.crate, k[1], ref) = Resolved(input.crate, k[1], <<Bare, ref[2]>>)
      BY <2>1 DEF Resolved
    <3>5. QED
      BY <3>3, <3>4
  <2>2. CASE ref[1] # Bare
    BY <2>2 DEF Meant, Resolved
  <2>3. QED
    BY <2>1, <2>2
<1> HIDE DEF d
<1>4. d \in graph[k] /\ k \in DOMAIN graph
  BY <1>2, <1>3 DEF GraphOfInput, DependencyGraph, d
<1>5. d \in visited
  BY <1>2, <1>4 DEF ReachesExactly, Closed, Edges
<1>6. ASSUME NEW x \in visited, input.crate.called[x] = input.crate.called[d] PROVE x = d
  BY <1>1, <1>5, <1>6 DEF Refused, NameCollision
<1>7. QED
  BY <1>1, <1>5, <1>6 DEF d

(* In an output that is not refused, whatever scanned type a declared one  *)
(* means by a reference is declared too, and no other is by its name.      *)
THEOREM ReferencesBind == Spec => []BindsToItsType
<1>1. Init => GraphOfInput
  BY DEF Init, GraphOfInput
<1>2. IInv /\ GraphOfInput /\ ReachesExactly /\ Ordered => BindsToItsType
  BY NamesBind DEF Ordered
<1>3. QED
  BY <1>1, <1>2, GraphKept, InitType, NextType, InitWalked, NextWalked, InitOrdered, NextOrdered,
     PTL DEF Spec

-----------------------------------------------------------------------------
(* The loops end.                                                          *)

(* Every set of types has an alphabetical order: the least number of types *)
(* without one would leave one when its first type is taken away.          *)
LEMMA AlphabeticalExists ==
  ASSUME NEW Z \in SUBSET Keys
  PROVE  Alphabetical(Z) # {}
<1> DEFINE Bad == {n \in Nat : \E S \in SUBSET Keys : Cardinality(S) = n /\ Alphabetical(S) = {}}
<1>1. IsFiniteSet(Keys)
  BY FS_Product, ResolutionAssumption DEF Keys
<1>2. \A S \in SUBSET Keys : IsFiniteSet(S) /\ Cardinality(S) \in Nat
  BY <1>1, FS_Subset, FS_CardinalityType
<1> SUFFICES ASSUME Bad # {} PROVE FALSE
  BY <1>2
<1>3. PICK n \in Bad : \A m \in Bad : n <= m
  <2>1. Bad \in SUBSET Nat
    OBVIOUS
  <2> HIDE DEF Bad
  <2>2. QED
    BY <2>1, LeastNumber
<1>4. PICK S \in SUBSET Keys : Cardinality(S) = n /\ Alphabetical(S) = {}
  OBVIOUS
<1>5. n \in Nat /\ IsFiniteSet(S)
  BY <1>2, <1>4
<1>6. CASE S = {}
  <2> DEFINE s == [i \in 1 .. 0 |-> 0]
  <2>1. Cardinality(S) = 0
    BY <1>6, FS_EmptySet
  <2>2. s \in [1 .. 0 -> {}] /\ s \in Seq(Nat) /\ Len(s) = 0
    OBVIOUS
  <2> HIDE DEF s
  <2>3. 1 .. Len(s) = {}
    BY <2>2
  <2>4. Elements(s) = {} /\ \A i, j \in 1 .. Len(s) : i < j => Place[s[i]] < Place[s[j]]
    BY <2>3 DEF Elements
  <2>5. s \in Alphabetical(S)
    BY <1>6, <2>1, <2>2, <2>4 DEF Alphabetical
  <2>6. QED
    BY <1>4, <2>5
<1>7. CASE S # {}
  <2>1. PICK x \in S : \A y \in S : y # x => Place[x] < Place[y]
    <3> DEFINE places == {Place[y] : y \in S}
    <3>1. \A y \in S : y \in Keys /\ Place[y] \in Nat
      BY TypeOrderAssumption
    <3>2. places \in SUBSET Nat /\ places # {}
      BY <1>7, <3>1
    <3>3. PICK p \in places : \A q \in places : p <= q
      <4> HIDE DEF places
      <4>1. QED
        BY <3>2, LeastNumber
    <3>4. PICK x \in S : p = Place[x]
      OBVIOUS
    <3>5. \A y \in S : y # x => Place[x] # Place[y]
      BY <3>1, TypeOrderAssumption
    <3>6. \A y \in S : Place[x] <= Place[y]
      BY <3>3, <3>4
    <3>7. QED
      BY <3>1, <3>5, <3>6
  <2> DEFINE R == S \ {x}
  <2>2. Cardinality(R) = n - 1 /\ n - 1 \in Nat
    <3>1. Cardinality(R) = Cardinality(S) - 1 /\ Cardinality(R) \in Nat
      BY <1>2, <1>5, FS_RemoveElement
    <3>2. QED
      BY <1>4, <3>1
  <2>3. PICK t : t \in Alphabetical(R)
    <3>1. R \in SUBSET Keys /\ ~(n <= n - 1)
      BY <1>5
    <3>2. n - 1 \notin Bad
      BY <1>3, <3>1
    <3>3. QED
      BY <2>2, <3>1, <3>2
  <2>4. /\ t \in [1 .. n - 1 -> R] /\ Len(t) = n - 1 /\ Elements(t) = R
        /\ \A i, j \in 1 .. n - 1 : i < j => Place[t[i]] < Place[t[j]]
    <3>1. t \in [1 .. n - 1 -> R] /\ Elements(t) = R
      BY <2>2, <2>3 DEF Alphabetical
    <3>2. t \in Seq(R) /\ Len(t) = n - 1
      BY <2>2, <3>1
    <3>3. QED
      BY <2>3, <3>1, <3>2 DEF Alphabetical
  <2> DEFINE s == [i \in 1 .. n |-> IF i = 1 THEN x ELSE t[i - 1]]
  <2>5. \A i \in 1 .. n : i # 1 => i - 1 \in 1 .. n - 1
    BY <1>5
  <2>6. s \in [1 .. n -> S]
    BY <2>4, <2>5
  <2>7. s \in Seq(S) /\ Len(s) = n
    BY <1>5, <2>6
  <2>8. s[1] = x /\ \A i \in 1 .. n : i # 1 => s[i] = t[i - 1]
    BY <2>2
  <2> HIDE DEF s
  <2>9. Elements(s) = S
    <3>1. \A i \in 1 .. n : s[i] \in S
      BY <2>6
    <3>2. ASSUME NEW y \in S PROVE \E i \in 1 .. n : s[i] = y
      <4>1. CASE y = x
        BY <2>2, <2>8, <4>1
      <4>2. CASE y # x
        <5>1. PICK i \in 1 .. n - 1 : t[i] = y
          BY <2>4, <4>2 DEF Elements
        <5>2. i + 1 \in 1 .. n /\ i + 1 # 1 /\ (i + 1) - 1 = i
          BY <2>2
        <5>3. QED
          BY <2>8, <5>1, <5>2
      <4>3. QED
        BY <4>1, <4>2
    <3>3. QED
      BY <2>7, <3>1, <3>2 DEF Elements
  <2>10. ASSUME NEW i \in 1 .. n, NEW j \in 1 .. n, i < j PROVE Place[s[i]] < Place[s[j]]
    <3>1. j # 1 /\ j - 1 \in 1 .. n - 1 /\ s[j] = t[j - 1]
      BY <2>5, <2>8, <2>10
    <3>2. CASE i = 1
      <4>1. t[j - 1] \in R
        BY <2>4, <3>1
      <4>2. QED
        BY <2>1, <2>8, <3>1, <3>2, <4>1
    <3>3. CASE i # 1
      <4>1. i - 1 \in 1 .. n - 1 /\ s[i] = t[i - 1] /\ i - 1 < j - 1
        BY <2>5, <2>8, <2>10, <3>3
      <4>2. QED
        BY <2>4, <3>1, <4>1
    <3>4. QED
      BY <3>2, <3>3
  <2>11. s \in Alphabetical(S)
    BY <1>4, <2>6, <2>7, <2>9, <2>10 DEF Alphabetical
  <2>12. QED
    BY <1>4, <2>11
<1>8. QED
  BY <1>6, <1>7

(* What is left to do: the phase, then the types not visited or not put    *)
(* out, then the length of the stack.                                      *)
Left ==
  << IF phase = "reach" THEN 2 ELSE IF phase = "order" THEN 1 ELSE 0,
     IF phase = "reach" THEN Cardinality(Keys \ visited) ELSE Cardinality(visited \ Elements(output)),
     IF phase = "reach" THEN Len(stack) ELSE 0 >>

(* The lexicographic order, in which there is no endless descent.          *)
Before(a, b) ==
  \/ a[1] < b[1]
  \/ a[1] = b[1] /\ a[2] < b[2]
  \/ a[1] = b[1] /\ a[2] = b[2] /\ a[3] < b[3]

Counts == Nat \X Nat \X Nat

(* The guard of the step that comes next.                                  *)
LoopGoesOn ==
  \/ /\ phase = "reach" /\ stack # << >>
     /\ \/ stack[Len(stack)] \in visited
        \/ Alphabetical(Edges(stack[Len(stack)]) \ (visited \cup {stack[Len(stack)]})) # {}
  \/ phase = "reach" /\ stack = << >> /\ Alphabetical({node \in visited : Deps(node) = {}}) # {}
  \/ /\ phase = "order" /\ queue # << >>
     /\ Alphabetical({s \in visited : waiting[s] = {Head(queue)}}) # {}
  \/ phase = "order" /\ queue = << >> /\ Alphabetical(visited \ Elements(output)) # {}

(* A set that loses an element is smaller.                                 *)
LEMMA FewerLeft ==
  ASSUME NEW S \in SUBSET Keys, NEW T \in SUBSET S, T # S
  PROVE  Cardinality(T) \in Nat /\ Cardinality(S) \in Nat /\ Cardinality(T) < Cardinality(S)
<1>1. IsFiniteSet(Keys)
  BY FS_Product, ResolutionAssumption DEF Keys
<1>2. IsFiniteSet(S)
  BY <1>1, FS_Subset
<1>3. IsFiniteSet(T) /\ Cardinality(T) <= Cardinality(S) /\ Cardinality(T) # Cardinality(S)
  BY <1>2, FS_Subset
<1>4. QED
  BY <1>2, <1>3, FS_CardinalityType

LEMMA LeftCounts == IInv => Left \in Counts
<1> SUFFICES ASSUME IInv PROVE Left \in Counts
  OBVIOUS
<1>1. IsFiniteSet(Keys)
  BY FS_Product, ResolutionAssumption DEF Keys
<1>2. Keys \ visited \in SUBSET Keys /\ visited \ Elements(output) \in SUBSET Keys
      /\ Len(stack) \in Nat
  BY DEF IInv, TypeOK
<1>3. \A S \in SUBSET Keys : Cardinality(S) \in Nat
  BY <1>1, FS_Subset, FS_CardinalityType
<1>4. QED
  BY <1>2, <1>3 DEF Left, Counts

LEMMA VisitCloser == IInv /\ Visit => Before(Left', Left)
<1> SUFFICES ASSUME IInv, Visit PROVE Before(Left', Left)
  OBVIOUS
<1> DEFINE node == stack[Len(stack)]
           rest == SubSeq(stack, 1, Len(stack) - 1)
<1>1. /\ stack \in Seq(Keys) /\ stack # << >> /\ visited \in SUBSET Keys
      /\ phase = "reach" /\ phase' = "reach" /\ visited' = visited \cup {node}
  BY DEF IInv, TypeOK, Visit
<1>2. node \in Keys
  BY <1>1, Popped
<1>3. CASE node \in visited
  <2>1. stack' = rest /\ visited' = visited
    BY <1>1, <1>3 DEF Visit
  <2>2. Len(rest) < Len(stack)
    BY <1>1
  <2>3. QED
    BY <1>1, <2>1, <2>2 DEF Left, Before
<1>4. CASE node \notin visited
  <2>1. Keys \ visited' \in SUBSET (Keys \ visited) /\ Keys \ visited' # Keys \ visited
    BY <1>1, <1>2, <1>4
  <2>2. Cardinality(Keys \ visited') < Cardinality(Keys \ visited)
    BY <2>1, FewerLeft
  <2>3. QED
    BY <1>1, <2>2 DEF Left, Before
<1>5. QED
  BY <1>3, <1>4

LEMMA EmitCloser == IInv /\ Ordered /\ Emit => Before(Left', Left)
<1> SUFFICES ASSUME IInv, Ordered, Emit PROVE Before(Left', Left)
  OBVIOUS
<1> DEFINE node == Head(queue)
<1>1. /\ phase = "order" /\ phase' = "order" /\ visited' = visited /\ visited \in SUBSET Keys
      /\ queue \in Seq(visited) /\ queue # << >> /\ output \in Seq(visited)
      /\ output' = Append(output, node)
  BY DEF Emit, IInv, TypeOK
<1>2. node \in visited /\ node \in Elements(queue)
  <2>1. node \in visited /\ Elements(queue) = {node} \cup Elements(Tail(queue))
    BY <1>1, Dequeued
  <2>2. QED
    BY <2>1
<1>3. node \notin Elements(output)
  BY <1>1, <1>2 DEF Ordered, Sorted
<1>4. Elements(output)' = Elements(output) \cup {node}
  <2>1. Elements(output)' = Elements(output')
    BY DEF Elements
  <2>2. Elements(Append(output, node)) = Elements(output) \cup {node}
    BY <1>1, <1>2, Enqueued
  <2>3. QED
    BY <1>1, <2>1, <2>2
<1>5. /\ visited \ Elements(output)' \in SUBSET (visited \ Elements(output))
      /\ visited \ Elements(output)' # visited \ Elements(output)
  BY <1>2, <1>3, <1>4
<1>6. Cardinality(visited \ Elements(output)') < Cardinality(visited \ Elements(output))
  BY <1>1, <1>5, FewerLeft
<1>7. QED
  BY <1>1, <1>6 DEF Left, Before

(* Every graph, cyclic or not, is worked off: each step of the loops       *)
(* leaves less to do, by an order without endless descent, so the build    *)
(* cannot hang in them.                                                    *)
THEOREM LoopsShrink == Spec => [][Before(Left', Left) /\ Left \in Counts /\ (Left \in Counts)']_vars
<1>1. IInv /\ Ordered /\ [Next]_vars => [Before(Left', Left)]_vars
  <2> SUFFICES ASSUME IInv, Ordered, Next PROVE Before(Left', Left)
    OBVIOUS
  <2>1. CASE Reached \/ CoEmit
    <3>1. \/ phase = "reach" /\ phase' = "order"
          \/ phase = "order" /\ phase' = "done"
      BY <2>1 DEF Reached, CoEmit
    <3>2. Left'[1] < Left[1]
      BY <3>1 DEF Left
    <3>3. QED
      BY <3>2 DEF Before
  <2>2. QED
    BY <2>1, VisitCloser, EmitCloser DEF Next
<1>2. QED
  BY <1>1, LeftCounts, InitType, NextType, InitOrdered, NextOrdered, PTL DEF Spec

(* The loops only stop when everything reached is put out: until then the  *)
(* next step is possible.                                                  *)
THEOREM LoopsGoOn == Spec => [](phase # "done" => LoopGoesOn)
<1>1. IInv => (phase # "done" => LoopGoesOn)
  <2> SUFFICES ASSUME IInv, phase # "done" PROVE LoopGoesOn
    OBVIOUS
  <2>1. visited \in SUBSET Keys /\ phase \in {"reach", "order"}
    BY DEF IInv, TypeOK
  <2>2. /\ {node \in visited : Deps(node) = {}} \in SUBSET Keys
        /\ {s \in visited : waiting[s] = {Head(queue)}} \in SUBSET Keys
        /\ visited \ Elements(output) \in SUBSET Keys
        /\ Edges(stack[Len(stack)]) \ (visited \cup {stack[Len(stack)]}) \in SUBSET Keys
    BY <2>1, EdgesType
  <2>3. QED
    BY <2>1, <2>2, AlphabeticalExists DEF LoopGoesOn
<1>2. QED
  BY <1>1, InitType, NextType, PTL DEF Spec
=============================================================================
