---------------------------- MODULE ListProofs ----------------------------
(***************************************************************************)
(* Theorems about Lists, for any entities, page sizes and bounds.          *)
(*                                                                         *)
(* The argument: no request in flight has a number above the screen's, and *)
(* the one that has its number asks for the page the screen is on          *)
(* (LatestAsksForView), whichever order the answers come in.               *)
(*                                                                         *)
(* A walk has at most one request out.  What it has read are the rows      *)
(* ranked below the offset it has come to, but for those that a create     *)
(* pushed back over it and a delete pulled before it (Walking); a row that *)
(* is there all along is read again or missed only when another row moved  *)
(* it across.                                                              *)
(***************************************************************************)
EXTENDS Lists, FiniteSetTheorems, WellFoundedInduction, TLAPS

-----------------------------------------------------------------------------
(* Lemmas about the pages.                                                 *)

LEMMA CeilingType ==
  ASSUME NEW total \in Nat, NEW limit \in Nat \ {0}
  PROVE  Ceiling(total, limit) \in Nat
<1>1. total + limit - 1 \in Nat
  OBVIOUS
<1>2. \A n \in Nat, d \in Nat \ {0} : n \div d \in Nat
  OBVIOUS
<1>3. QED
  BY <1>1, <1>2 DEF Ceiling

LEMMA TotalPagesType ==
  ASSUME NEW total \in Nat, NEW limit \in Nat \ {0}
  PROVE  TotalPages(total, limit) \in Nat \ {0}
  BY CeilingType DEF TotalPages, Greatest

LEMMA OffsetType ==
  ASSUME NEW page \in Nat \ {0}, NEW limit \in Nat \ {0}
  PROVE  (page - 1) * limit \in Nat
<1>1. page - 1 \in Nat
  OBVIOUS
<1>2. \A m, n \in Nat : m * n \in Nat
  OBVIOUS
<1>3. QED
  BY <1>1, <1>2

LEMMA NextOffsetType ==
  ASSUME NEW offset \in Nat, NEW limit \in Nat \ {0}, NEW total \in Nat, NEW max \in Nat
  PROVE  NextOffset(offset, limit, total, max) \in Nat \cup {None}
  BY DEF NextOffset

(* A set of records fits in the room there is for them.                    *)
LEMMA RecordsCount ==
  ASSUME NEW room \in Nat, NEW S \in SUBSET (1 .. room)
  PROVE  Cardinality(S) \in 0 .. room
<1>1. IsFiniteSet(1 .. room) /\ Cardinality(1 .. room) = room
  BY FS_Interval
<1>2. IsFiniteSet(S) /\ Cardinality(S) <= Cardinality(1 .. room)
  BY <1>1, FS_Subset
<1>3. Cardinality(S) \in Nat
  BY <1>2, FS_CardinalityType
<1>4. QED
  BY <1>1, <1>2, <1>3

(* A set of numbers has a least one, and if it is bounded a greatest.      *)
LEMMA LeastRecord ==
  ASSUME NEW T \in SUBSET Nat, T # {}
  PROVE  \E n \in T : \A m \in T : n <= m
<1> DEFINE less == OpToRel(<, Nat)
<1>1. IsWellFoundedOn(less, Nat)
  BY NatLessThanWellFounded
<1>2. \A x, y \in Nat : <<y, x>> \in less <=> y < x
  BY DEF OpToRel
<1> HIDE DEF less
<1>3. PICK n \in T : \A m \in T : ~(<<m, n>> \in less)
  BY <1>1, WFMin
<1>4. \A m \in T : n <= m
  <2> TAKE m \in T
  <2>1. m \in Nat /\ n \in Nat /\ ~(m < n)
    BY <1>2, <1>3
  <2>2. QED
    BY <2>1
<1>5. QED
  BY <1>4

LEMMA GreatestRecord ==
  ASSUME NEW room \in Nat, NEW T \in SUBSET (1 .. room), T # {}
  PROVE  \E n \in T : \A m \in T : m <= n
<1> DEFINE bounds == {n \in Nat : \A m \in T : m <= n}
<1>1. room \in bounds
  OBVIOUS
<1>2. bounds \in SUBSET Nat /\ bounds # {}
  BY <1>1
<1>3. PICK n \in bounds : \A k \in bounds : n <= k
  BY <1>2, LeastRecord
<1>4. n \in T
  <2> SUFFICES ASSUME n \notin T PROVE FALSE
    OBVIOUS
  <2>1. PICK x \in T : TRUE
    OBVIOUS
  <2>2. n - 1 \in bounds
    BY <2>1
  <2>3. QED
    BY <1>3, <2>2
<1>5. QED
  BY <1>4

(* Ranks.                                                                  *)
LEMMA Finite ==
  ASSUME NEW room \in Nat, NEW S \in SUBSET (1 .. room)
  PROVE  IsFiniteSet(S) /\ Cardinality(S) \in Nat
<1>1. IsFiniteSet(1 .. room)
  BY FS_Interval
<1>2. QED
  BY <1>1, FS_Subset, FS_CardinalityType

LEMMA Smaller ==
  ASSUME NEW room \in Nat, NEW S \in SUBSET (1 .. room), NEW T \in SUBSET S
  PROVE  Cardinality(T) <= Cardinality(S)
  BY Finite, FS_Subset

LEMMA RankType ==
  ASSUME NEW room \in Nat, NEW S \in SUBSET (1 .. room), NEW x
  PROVE  Rank(S, x) \in Nat
<1>1. {y \in S : y < x} \in SUBSET (1 .. room)
  OBVIOUS
<1>2. QED
  BY <1>1, Finite DEF Rank

LEMMA RankMonotone ==
  ASSUME NEW room \in Nat, NEW S \in SUBSET (1 .. room), NEW x \in S, NEW y \in S, x < y
  PROVE  Rank(S, x) < Rank(S, y)
<1> DEFINE lower == {z \in S : z < x}
           upper == {z \in S : z < y}
<1> \A z \in S : z \in Nat
  OBVIOUS
<1>1. lower \in SUBSET (1 .. room) /\ upper \in SUBSET (1 .. room) /\ x \notin lower
  <2>1. lower \subseteq S /\ upper \subseteq S /\ ~(x < x)
    OBVIOUS
  <2>2. QED
    BY <2>1
<1>2. lower \cup {x} \in SUBSET upper
  <2>1. \A z \in lower : z < y
    OBVIOUS
  <2>2. QED
    BY <2>1
<1>3. IsFiniteSet(lower) /\ Cardinality(lower) \in Nat /\ Cardinality(upper) \in Nat
  BY <1>1, Finite
<1> HIDE DEF lower, upper
<1>4. Cardinality(lower \cup {x}) = Cardinality(lower) + 1
  BY <1>1, <1>3, FS_AddElement
<1>5. Cardinality(lower \cup {x}) <= Cardinality(upper)
  BY <1>1, <1>2, Smaller
<1>6. Cardinality(lower) < Cardinality(upper)
  BY <1>3, <1>4, <1>5
<1>7. QED
  BY <1>6 DEF Rank, lower, upper

LEMMA RankWeak ==
  ASSUME NEW room \in Nat, NEW S \in SUBSET (1 .. room), NEW x \in S, NEW y \in S, x <= y
  PROVE  Rank(S, x) <= Rank(S, y)
<1>1. Rank(S, x) \in Nat /\ Rank(S, y) \in Nat
  BY RankType
<1>2. CASE x = y
  BY <1>1, <1>2
<1>3. CASE x < y
  <2>1. Rank(S, x) < Rank(S, y)
    BY <1>3, RankMonotone
  <2>2. QED
    BY <1>1, <2>1
<1>4. x = y \/ x < y
  <2>1. x \in Nat /\ y \in Nat
    OBVIOUS
  <2>2. QED
    BY <2>1
<1>5. QED
  BY <1>2, <1>3, <1>4

(* A record in the set ranks below its size.                               *)
LEMMA RankBelowSize ==
  ASSUME NEW room \in Nat, NEW S \in SUBSET (1 .. room), NEW x \in S
  PROVE  Rank(S, x) < Cardinality(S)
<1> DEFINE lower == {z \in S : z < x}
<1>1. lower \in SUBSET (1 .. room) /\ x \notin lower /\ lower \cup {x} \in SUBSET S
  <2>1. x \in Nat /\ ~(x < x) /\ lower \subseteq S
    <3>1. x \in Nat
      OBVIOUS
    <3>2. QED
      BY <3>1
  <2>2. QED
    BY <2>1
<1>2. IsFiniteSet(lower) /\ Cardinality(lower) \in Nat /\ Cardinality(S) \in Nat
  BY <1>1, Finite
<1> HIDE DEF lower
<1>3. Cardinality(lower \cup {x}) = Cardinality(lower) + 1
  BY <1>1, <1>2, FS_AddElement
<1>4. Cardinality(lower \cup {x}) <= Cardinality(S)
  BY <1>1, Smaller
<1>5. Cardinality(lower) < Cardinality(S)
  BY <1>2, <1>3, <1>4
<1>6. QED
  BY <1>5 DEF Rank, lower

(* At most o records rank below o.                                         *)
Lowest(S, o) == {y \in S : Rank(S, y) < o}

LEMMA FewLowest ==
  ASSUME NEW room \in Nat, NEW S \in SUBSET (1 .. room), NEW o \in Nat
  PROVE  /\ Lowest(S, o) \in SUBSET S
         /\ Cardinality(Lowest(S, o)) \in Nat /\ Cardinality(Lowest(S, o)) <= o
<1> DEFINE T == Lowest(S, o)
<1>1. T \in SUBSET S /\ T \in SUBSET (1 .. room)
  BY DEF Lowest
<1>2. IsFiniteSet(T) /\ Cardinality(T) \in Nat
  BY <1>1, Finite
<1>3. CASE T = {}
  <2>1. Cardinality(T) = 0
    BY <1>3, FS_EmptySet
  <2>2. QED
    BY <1>1, <2>1
<1>4. CASE T # {}
  <2>1. PICK m \in T : \A y \in T : y <= m
    BY <1>1, <1>4, GreatestRecord
  <2> DEFINE lower == {z \in S : z < m}
  <2>2. T \ {m} \in SUBSET lower /\ lower \in SUBSET (1 .. room) /\ m \in S
    <3>1. \A y \in T : y \in S /\ y \in Nat /\ m \in Nat
      BY <1>1
    <3>2. \A y \in T \ {m} : y < m
      BY <2>1, <3>1
    <3>3. QED
      BY <1>1, <2>1, <3>1, <3>2
  <2>3. Cardinality(lower) < o /\ Cardinality(lower) \in Nat
    BY <2>1, <2>2, Finite DEF Lowest, Rank
  <2> HIDE DEF lower, T
  <2>4. Cardinality(T \ {m}) = Cardinality(T) - 1
    BY <1>2, <2>1, FS_RemoveElement
  <2>5. Cardinality(T \ {m}) <= Cardinality(lower)
    BY <2>2, Smaller
  <2>6. Cardinality(T) <= o
    BY <1>2, <2>3, <2>4, <2>5
  <2>7. QED
    BY <1>1, <1>2, <2>6 DEF T
<1>5. QED
  BY <1>3, <1>4

(* Two sets together are no larger than their sizes together.              *)
LEMMA UnionSize ==
  ASSUME NEW room \in Nat, NEW S \in SUBSET (1 .. room), NEW T \in SUBSET (1 .. room),
         NEW U \in SUBSET (S \cup T)
  PROVE  Cardinality(U) <= Cardinality(S) + Cardinality(T)
<1>1. /\ IsFiniteSet(S) /\ Cardinality(S) \in Nat
      /\ IsFiniteSet(T) /\ Cardinality(T) \in Nat
      /\ Cardinality(S \cap T) \in Nat /\ Cardinality(U) \in Nat
  BY Finite
<1>2. Cardinality(S \cup T) = Cardinality(S) + Cardinality(T) - Cardinality(S \cap T)
  BY <1>1, FS_Union
<1>3. Cardinality(U) <= Cardinality(S \cup T)
  BY Smaller
<1>4. S \cup T \in SUBSET (1 .. room)
  OBVIOUS
<1>5. QED
  BY <1>1, <1>2, <1>3

LEMMA DisjointSize ==
  ASSUME NEW room \in Nat, NEW U \in SUBSET (1 .. room), NEW S \in SUBSET U, NEW T \in SUBSET U,
         S \cap T = {}
  PROVE  Cardinality(S) + Cardinality(T) <= Cardinality(U)
<1>1. /\ IsFiniteSet(S) /\ Cardinality(S) \in Nat
      /\ IsFiniteSet(T) /\ Cardinality(T) \in Nat
  BY Finite
<1>2. Cardinality(S \cup T) = Cardinality(S) + Cardinality(T) - 0
  BY <1>1, FS_Union, FS_EmptySet
<1>3. S \cup T \in SUBSET U
  OBVIOUS
<1>4. Cardinality(S \cup T) <= Cardinality(U)
  BY <1>3, Smaller
<1>5. QED
  BY <1>1, <1>2, <1>4

(* A page that is not full ends the list.                                  *)
LEMMA ShortPage ==
  ASSUME NEW room \in Nat, NEW S \in SUBSET (1 .. room), NEW o \in Nat, NEW l \in Nat,
         Cardinality(Page(S, o, l)) < l
  PROVE  Cardinality(S) <= o + Cardinality(Page(S, o, l))
<1> DEFINE P == Page(S, o, l)
           bad == {y \in S : Rank(S, y) >= o + l}
<1>1. P \in SUBSET (1 .. room) /\ Lowest(S, o) \in SUBSET (1 .. room)
  BY DEF Page, Lowest
<1>2. /\ Cardinality(Lowest(S, o)) \in Nat /\ Cardinality(Lowest(S, o)) <= o
      /\ Cardinality(P) \in Nat /\ Cardinality(P) < l /\ Cardinality(S) \in Nat
  BY <1>1, FewLowest, Finite
<1>3. ASSUME NEW U \in SUBSET S, \A y \in U : Rank(S, y) < o + l
      PROVE  Cardinality(U) <= o + Cardinality(P)
  <2>1. U \in SUBSET (Lowest(S, o) \cup P)
    <3>1. ASSUME NEW y \in U PROVE y \in Lowest(S, o) \/ y \in Page(S, o, l)
      <4>1. y \in S /\ Rank(S, y) \in Nat /\ Rank(S, y) < o + l
        BY <1>3, RankType
      <4>2. QED
        BY <4>1 DEF Lowest, Page
    <3>2. QED
      BY <3>1
  <2>2. Cardinality(U) \in Nat
    BY Finite
  <2> HIDE DEF P
  <2>3. Cardinality(U) <= Cardinality(Lowest(S, o)) + Cardinality(P)
    BY <1>1, <2>1, UnionSize
  <2>4. QED
    BY <1>2, <2>2, <2>3
<1>4. bad = {}
  <2> SUFFICES ASSUME bad # {} PROVE FALSE
    OBVIOUS
  <2>1. PICK z \in bad : \A y \in bad : z <= y
    <3>1. bad \subseteq S /\ S \subseteq Nat
      OBVIOUS
    <3>2. QED
      BY <3>1, LeastRecord
  <2> DEFINE lower == {y \in S : y < z}
  <2>2. \A y \in lower : Rank(S, y) < o + l
    <3> TAKE y \in lower
    <3>1. y \in S /\ z \in S /\ y < z /\ S \subseteq Nat /\ Rank(S, y) \in Nat
      BY RankType
    <3>2. ~(Rank(S, y) >= o + l)
      BY <2>1, <3>1
    <3>3. QED
      BY <3>1, <3>2
  <2>3. Cardinality(lower) <= o + Cardinality(P)
    BY <1>3, <2>2
  <2>4. Rank(S, z) = Cardinality(lower) /\ Rank(S, z) \in Nat /\ Rank(S, z) >= o + l
    BY <2>1, RankType DEF Rank
  <2> HIDE DEF P
  <2>5. QED
    BY <1>2, <2>3, <2>4
<1>5. \A y \in S : Rank(S, y) < o + l
  <2> TAKE y \in S
  <2>1. Rank(S, y) \in Nat /\ ~(Rank(S, y) >= o + l)
    BY <1>4, RankType
  <2>2. QED
    BY <2>1
<1>6. QED
  BY <1>3, <1>5

(* A page holds no more than was asked for.                                *)
LEMMA PageSize ==
  ASSUME NEW room \in Nat, NEW S \in SUBSET (1 .. room), NEW o \in Nat, NEW l \in Nat
  PROVE  /\ Page(S, o, l) \in SUBSET S
         /\ Cardinality(Page(S, o, l)) \in Nat /\ Cardinality(Page(S, o, l)) <= l
<1> DEFINE P == Page(S, o, l)
<1>1. P \in SUBSET S /\ P \in SUBSET (1 .. room)
  BY DEF Page
<1>2. Cardinality(P) \in Nat
  BY <1>1, Finite
<1>3. CASE P = {}
  BY <1>1, <1>3, FS_EmptySet
<1>4. CASE P # {}
  <2>1. PICK p \in P : \A y \in P : p <= y
    BY <1>1, <1>4, LeastRecord
  <2>2. PICK q \in P : \A y \in P : y <= q
    BY <1>1, <1>4, GreatestRecord
  <2> DEFINE before == {y \in S : y < p}
             upto   == {y \in S : y < q}
             rest   == P \ {q}
  <2>3. /\ before \in SUBSET upto /\ rest \in SUBSET upto /\ before \cap rest = {}
        /\ upto \in SUBSET (1 .. room) /\ P = rest \cup {q} /\ q \notin rest
    <3>1. \A y \in P : y \in S /\ y \in Nat /\ p \in Nat /\ q \in Nat
      BY <1>1
    <3>2. \A y \in rest : y < q /\ ~(y < p)
      BY <2>1, <2>2, <3>1
    <3>3. \A y \in S : y < p => y < q
      <4> TAKE y \in S
      <4>1. y \in Nat /\ p \in Nat /\ q \in Nat /\ p <= q
        BY <1>1, <2>1, <2>2
      <4>2. QED
        BY <4>1
    <3>4. QED
      BY <1>1, <2>2, <3>2, <3>3
  <2>4. Cardinality(before) = Rank(S, p) /\ Cardinality(upto) = Rank(S, q)
    BY DEF Rank
  <2>5. o <= Rank(S, p) /\ Rank(S, q) < o + l /\ Rank(S, p) \in Nat /\ Rank(S, q) \in Nat
    BY <1>1, <2>1, <2>2, RankType DEF Page
  <2>6. IsFiniteSet(rest) /\ Cardinality(rest) \in Nat
    BY <1>1, Finite
  <2> HIDE DEF before, upto, rest, P
  <2>7. Cardinality(before) + Cardinality(rest) <= Cardinality(upto)
    BY <2>3, DisjointSize
  <2>8. Cardinality(P) = Cardinality(rest) + 1
    BY <2>3, <2>6, FS_AddElement
  <2>9. Cardinality(P) <= l
    BY <1>2, <2>4, <2>5, <2>6, <2>7, <2>8
  <2>10. QED
    BY <1>1, <1>2, <2>9 DEF P
<1>5. QED
  BY <1>3, <1>4

-----------------------------------------------------------------------------
(* A walk that reads a set of records page by page while it changes.       *)

(* P is a page of S from rank o: nothing in or before it is left out but   *)
(* what ranks below o.                                                     *)
PageFrom(P, S, o) ==
  /\ P \subseteq S
  /\ \A x \in P : o <= Rank(S, x)
  /\ \A x \in P : \A y \in S \ P : y <= x => Rank(S, y) < o

LEMMA PageIsFrom ==
  ASSUME NEW room \in Nat, NEW S \in SUBSET (1 .. room), NEW o \in Nat, NEW l \in Nat
  PROVE  PageFrom(Page(S, o, l), S, o)
<1>1. ASSUME NEW x \in Page(S, o, l), NEW y \in S \ Page(S, o, l), y <= x PROVE Rank(S, y) < o
  <2>1. x \in S /\ Rank(S, x) < o + l /\ Rank(S, x) \in Nat /\ Rank(S, y) \in Nat
    BY RankType DEF Page
  <2>2. Rank(S, y) <= Rank(S, x)
    BY <1>1, <2>1, RankWeak
  <2>3. ~(o <= Rank(S, y))
    BY <2>1, <2>2 DEF Page
  <2>4. QED
    BY <2>1, <2>3
<1>2. QED
  BY <1>1 DEF PageFrom, Page

LEMMA WholeIsFrom ==
  ASSUME NEW room \in Nat, NEW S \in SUBSET (1 .. room) PROVE PageFrom(S, S, 0)
<1>1. \A x \in S : 0 <= Rank(S, x)
  <2> TAKE x \in S
  <2>1. Rank(S, x) \in Nat
    BY RankType
  <2>2. QED
    BY <2>1
<1>2. QED
  BY <1>1 DEF PageFrom

(* The records up to the greatest that was read.                           *)
Passed(S, G) == {y \in S : \E x \in G : y <= x}

(* What a page reads again lies between its offset and there.              *)
LEMMA ReadAgain ==
  ASSUME NEW room \in Nat, NEW S \in SUBSET (1 .. room), NEW G \in SUBSET (1 .. room),
         NEW o \in Nat, NEW P, PageFrom(P, S, o), P \cap G # {}
  PROVE  Cardinality(P \cap G) + o <= Cardinality(Passed(S, G))
<1> S \subseteq Nat /\ G \subseteq Nat /\ P \subseteq S
  BY DEF PageFrom
<1>1. PICK x \in P \cap G : \A y \in P \cap G : x <= y
  BY LeastRecord
<1> DEFINE lower == {y \in S : y < x}
           again == P \cap G
<1>2. Passed(S, G) \in SUBSET (1 .. room)
  BY DEF Passed
<1>3. lower \in SUBSET Passed(S, G)
  <2>1. \A y \in lower : y \in S /\ y <= x
    OBVIOUS
  <2>2. QED
    BY <1>1, <2>1 DEF Passed
<1>4. again \in SUBSET Passed(S, G)
  <2>1. \A y \in again : y \in S /\ y \in G /\ y <= y
    OBVIOUS
  <2>2. QED
    BY <2>1 DEF Passed
<1>5. lower \cap again = {}
  <2>1. \A y \in again : ~(y < x)
    BY <1>1
  <2>2. QED
    BY <2>1
<1>6. o <= Cardinality(lower)
  BY <1>1 DEF PageFrom, Rank
<1>7. /\ Cardinality(lower) \in Nat /\ Cardinality(again) \in Nat
      /\ Cardinality(Passed(S, G)) \in Nat
  BY <1>2, Finite
<1> HIDE DEF lower, again
<1>8. Cardinality(lower) + Cardinality(again) <= Cardinality(Passed(S, G))
  BY <1>2, <1>3, <1>4, <1>5, DisjointSize
<1>9. Cardinality(again) + o <= Cardinality(Passed(S, G))
  BY <1>6, <1>7, <1>8
<1>10. QED
  BY <1>9 DEF again

(* A page that goes beyond what was read passes no more than its end.      *)
LEMMA PassedOn ==
  ASSUME NEW room \in Nat, NEW S \in SUBSET (1 .. room), NEW G \in SUBSET (1 .. room),
         NEW o \in Nat, NEW P, PageFrom(P, S, o)
  PROVE  \/ Cardinality(Passed(S, G \cup P)) <= Cardinality(Passed(S, G))
         \/ Cardinality(Passed(S, G \cup P)) <= o + Cardinality(P)
<1> S \subseteq Nat /\ G \subseteq Nat /\ P \subseteq S /\ P \in SUBSET (1 .. room)
  BY DEF PageFrom
<1>1. Passed(S, G) \in SUBSET (1 .. room) /\ Passed(S, G \cup P) \in SUBSET (1 .. room)
  BY DEF Passed
<1>2. CASE P = {}
  <2>1. Passed(S, G \cup P) = Passed(S, G)
    BY <1>2
  <2>2. Cardinality(Passed(S, G)) \in Nat
    BY <1>1, Finite
  <2>3. QED
    BY <2>1, <2>2
<1>3. CASE P # {}
  <2>1. PICK p \in P : \A y \in P : y <= p
    BY <1>3, GreatestRecord
  <2>2. CASE \E g \in G : p <= g
    <3>1. PICK g \in G : p <= g
      BY <2>2
    <3>2. \A y \in S : \A x \in P : y <= x => y <= g
      <4> TAKE y \in S
      <4> TAKE x \in P
      <4>1. x <= p /\ p <= g /\ x \in Nat /\ y \in Nat /\ p \in Nat /\ g \in Nat
        BY <2>1, <3>1
      <4>2. QED
        BY <4>1
    <3>3. Passed(S, G \cup P) \in SUBSET Passed(S, G)
      BY <3>2 DEF Passed
    <3>4. QED
      BY <1>1, <3>3, Smaller
  <2>3. CASE \A g \in G : ~(p <= g)
    <3>1. \A y \in S : \A x \in G \cup P : y <= x => y <= p
      <4> TAKE y \in S
      <4> TAKE x \in G \cup P
      <4>1. x <= p
        <5>1. CASE x \in P
          BY <2>1, <5>1
        <5>2. CASE x \in G
          <6>1. x \in Nat /\ p \in Nat /\ ~(p <= x)
            BY <2>3, <5>2
          <6>2. QED
            BY <6>1
        <5>3. QED
          BY <5>1, <5>2
      <4>2. x \in Nat /\ y \in Nat /\ p \in Nat
        OBVIOUS
      <4>3. QED
        BY <4>1, <4>2
    <3>2. Passed(S, G \cup P) \in SUBSET (Lowest(S, o) \cup P)
      <4>1. ASSUME NEW y \in Passed(S, G \cup P), y \notin P PROVE y \in Lowest(S, o)
        <5>1. y \in S /\ y <= p
          BY <3>1 DEF Passed
        <5>2. Rank(S, y) < o
          BY <4>1, <5>1 DEF PageFrom
        <5>3. QED
          BY <5>1, <5>2 DEF Lowest
      <4>2. QED
        BY <4>1
    <3>3. /\ Lowest(S, o) \in SUBSET (1 .. room)
          /\ Cardinality(Lowest(S, o)) \in Nat /\ Cardinality(Lowest(S, o)) <= o
      BY FewLowest
    <3>4. Cardinality(Passed(S, G \cup P)) <= Cardinality(Lowest(S, o)) + Cardinality(P)
      BY <3>2, <3>3, UnionSize
    <3>5. Cardinality(P) \in Nat /\ Cardinality(Passed(S, G \cup P)) \in Nat
      BY <1>1, Finite
    <3>6. QED
      BY <3>3, <3>4, <3>5
  <2>4. QED
    BY <2>2, <2>3
<1>4. QED
  BY <1>2, <1>3

(* A walk that has read r records again, and the records G where they are, *)
(* and goes on at offset o: it has read no more than c again, and would    *)
(* not if it read everything up to G from there.                           *)
FewAgain(r, G, S, o, c) ==
  /\ r <= c
  /\ Cardinality(Passed(S, G)) - o + r <= c

LEMMA PassedSize ==
  ASSUME NEW room \in Nat, NEW S \in SUBSET (1 .. room), NEW G
  PROVE  /\ Passed(S, G) \in SUBSET (1 .. room) /\ IsFiniteSet(Passed(S, G))
         /\ Cardinality(Passed(S, G)) \in Nat
<1>1. Passed(S, G) \in SUBSET (1 .. room)
  BY DEF Passed
<1>2. QED
  BY <1>1, Finite

LEMMA FewAgainPage ==
  ASSUME NEW room \in Nat, NEW S \in SUBSET (1 .. room), NEW G \in SUBSET (1 .. room),
         NEW o \in Nat, NEW P, PageFrom(P, S, o), NEW r \in Nat, NEW c \in Nat,
         FewAgain(r, G, S, o, c)
  PROVE  FewAgain(r + Cardinality(P \cap G), G \cup P, S, o + Cardinality(P), c)
<1> P \subseteq S /\ P \in SUBSET (1 .. room)
  BY DEF PageFrom
<1> DEFINE again == Cardinality(P \cap G)
           was   == Cardinality(Passed(S, G))
           is    == Cardinality(Passed(S, G \cup P))
<1>1. Cardinality(P) \in Nat /\ again \in Nat /\ again <= Cardinality(P)
  BY Finite, Smaller
<1>2. was \in Nat /\ is \in Nat
  BY PassedSize
<1>3. is <= was \/ is <= o + Cardinality(P)
  BY PassedOn
<1>4. again = 0 \/ again + o <= was
  <2>1. P \cap G = {} => again = 0
    BY FS_EmptySet
  <2>2. QED
    BY <2>1, ReadAgain
<1>5. r <= c /\ was - o + r <= c
  BY DEF FewAgain
<1> HIDE DEF again, was, is
<1>6. r + again <= c /\ is - (o + Cardinality(P)) + (r + again) <= c
  BY <1>1, <1>2, <1>3, <1>4, <1>5
<1>7. QED
  BY <1>6 DEF FewAgain, is, again

LEMMA FewAgainCreate ==
  ASSUME NEW room \in Nat, NEW S \in SUBSET (1 .. room), NEW G \in SUBSET (1 .. room),
         NEW o \in Nat, NEW r \in Nat, NEW c \in Nat, NEW i \in 1 .. room,
         FewAgain(r, G, S, o, c)
  PROVE  FewAgain(r, G, S \cup {i}, o, c + 1)
<1> DEFINE was == Passed(S, G)
           is  == Passed(S \cup {i}, G)
<1>1. was \in SUBSET (1 .. room) /\ is \in SUBSET (1 .. room) /\ is \in SUBSET (was \cup {i})
  BY DEF Passed
<1>2. Cardinality(was) \in Nat /\ Cardinality(is) \in Nat
  BY <1>1, Finite
<1>3. Cardinality({i}) = 1 /\ {i} \in SUBSET (1 .. room)
  BY FS_Singleton
<1> HIDE DEF was, is
<1>4. Cardinality(is) <= Cardinality(was) + Cardinality({i})
  BY <1>1, <1>3, UnionSize
<1>5. r <= c /\ Cardinality(was) - o + r <= c
  BY DEF FewAgain, was
<1>6. r <= c + 1 /\ Cardinality(is) - o + r <= c + 1
  BY <1>2, <1>3, <1>4, <1>5
<1>7. QED
  BY <1>6 DEF FewAgain, is

LEMMA FewAgainLess ==
  ASSUME NEW room \in Nat, NEW S \in SUBSET (1 .. room), NEW G \in SUBSET (1 .. room),
         NEW o \in Nat, NEW r \in Nat, NEW c \in Nat, NEW T \in SUBSET S, NEW H \in SUBSET G,
         NEW p \in Nat, o <= p, FewAgain(r, G, S, o, c)
  PROVE  FewAgain(r, H, T, p, c)
<1> DEFINE was == Passed(S, G)
           is  == Passed(T, H)
<1>1. was \in SUBSET (1 .. room) /\ is \in SUBSET was
  BY DEF Passed
<1>2. Cardinality(was) \in Nat /\ Cardinality(is) \in Nat
  BY <1>1, Finite
<1> HIDE DEF was, is
<1>3. Cardinality(is) <= Cardinality(was)
  BY <1>1, Smaller
<1>4. r <= c /\ Cardinality(was) - o + r <= c
  BY DEF FewAgain, was
<1>5. r <= c /\ Cardinality(is) - p + r <= c
  BY <1>2, <1>3, <1>4
<1>6. QED
  BY <1>5 DEF FewAgain, is

(* A record it has read where it is, and that moves, may be read once more *)
(* but is no longer among those it has gone past.                          *)
LEMMA FewAgainMove ==
  ASSUME NEW room \in Nat, NEW S \in SUBSET (1 .. room), NEW G \in SUBSET S,
         NEW o \in Nat, NEW r \in Nat, NEW c \in Nat, NEW i \in G, NEW j \in 1 .. room,
         FewAgain(r, G, S, o, c)
  PROVE  FewAgain(r + 1, G \ {i}, (S \ {i}) \cup {j}, o, c + 1)
<1> DEFINE was  == Passed(S, G)
           rest == was \ {i}
           is   == Passed((S \ {i}) \cup {j}, G \ {i})
<1>1. was \in SUBSET (1 .. room) /\ is \in SUBSET (1 .. room) /\ is \in SUBSET (rest \cup {j})
  BY DEF Passed
<1>2. i \in was
  <2>1. i \in S /\ i <= i
    OBVIOUS
  <2>2. QED
    BY <2>1 DEF Passed
<1>3. IsFiniteSet(was) /\ Cardinality(was) \in Nat /\ Cardinality(is) \in Nat
  BY <1>1, Finite
<1>4. Cardinality({j}) = 1 /\ {j} \in SUBSET (1 .. room)
  BY FS_Singleton
<1> HIDE DEF was
<1>5. Cardinality(rest) = Cardinality(was) - 1 /\ rest \in SUBSET (1 .. room)
  BY <1>1, <1>2, <1>3, FS_RemoveElement
<1> HIDE DEF rest, is
<1>6. Cardinality(is) <= Cardinality(rest) + Cardinality({j})
  BY <1>1, <1>4, <1>5, UnionSize
<1>7. r <= c /\ Cardinality(was) - o + r <= c
  BY DEF FewAgain, was
<1>8. r + 1 <= c + 1 /\ Cardinality(is) - o + (r + 1) <= c + 1
  BY <1>3, <1>4, <1>5, <1>6, <1>7
<1>9. QED
  BY <1>8 DEF FewAgain, is

(* The records of T that the walk has gone past at offset o.               *)
Skipped(S, T, o) == {x \in T : Rank(S, x) < o}

LEMMA SkippedPage ==
  ASSUME NEW room \in Nat, NEW S \in SUBSET (1 .. room), NEW T \in SUBSET S,
         NEW o \in Nat, NEW l \in Nat
  PROVE  Cardinality(Skipped(S, T \ Page(S, o, l), o + l)) <= Cardinality(Skipped(S, T, o))
<1>1. Skipped(S, T \ Page(S, o, l), o + l) \in SUBSET Skipped(S, T, o)
  <2> SUFFICES ASSUME NEW x \in T, x \notin Page(S, o, l), Rank(S, x) < o + l
               PROVE  Rank(S, x) < o
    BY DEF Skipped
  <2>1. Rank(S, x) \in Nat /\ ~(o <= Rank(S, x))
    BY RankType DEF Page
  <2>2. QED
    BY <2>1
<1>2. Skipped(S, T, o) \in SUBSET (1 .. room)
  BY DEF Skipped
<1>3. QED
  BY <1>1, <1>2, Smaller

LEMMA SkippedCreate ==
  ASSUME NEW room \in Nat, NEW S \in SUBSET (1 .. room), NEW T \in SUBSET S,
         NEW o \in Nat, NEW i \in 1 .. room
  PROVE  Cardinality(Skipped(S \cup {i}, T, o)) <= Cardinality(Skipped(S, T, o))
<1>1. ASSUME NEW x \in T PROVE Rank(S, x) <= Rank(S \cup {i}, x)
  <2>1. /\ {y \in S : y < x} \in SUBSET {y \in S \cup {i} : y < x}
        /\ {y \in S \cup {i} : y < x} \in SUBSET (1 .. room)
    OBVIOUS
  <2>2. QED
    BY <2>1, Smaller DEF Rank
<1>2. Skipped(S \cup {i}, T, o) \in SUBSET Skipped(S, T, o)
  <2> SUFFICES ASSUME NEW x \in T, Rank(S \cup {i}, x) < o PROVE Rank(S, x) < o
    BY DEF Skipped
  <2>1. S \cup {i} \in SUBSET (1 .. room)
    OBVIOUS
  <2>2. Rank(S, x) \in Nat /\ Rank(S \cup {i}, x) \in Nat
    BY <2>1, RankType
  <2>3. QED
    BY <1>1, <2>2
<1>3. Skipped(S, T, o) \in SUBSET (1 .. room)
  BY DEF Skipped
<1>4. QED
  BY <1>2, <1>3, Smaller

LEMMA SkippedDelete ==
  ASSUME NEW room \in Nat, NEW S \in SUBSET (1 .. room), NEW T \in SUBSET S,
         NEW o \in Nat, NEW i \in S
  PROVE  Cardinality(Skipped(S \ {i}, T \ {i}, o)) <= Cardinality(Skipped(S, T, o)) + 1
<1> DEFINE was == Skipped(S, T, o)
           is  == Skipped(S \ {i}, T \ {i}, o)
<1>1. was \in SUBSET (1 .. room) /\ is \in SUBSET (1 .. room) /\ S \ {i} \in SUBSET (1 .. room)
  BY DEF Skipped
<1>2. IsFiniteSet(was) /\ Cardinality(was) \in Nat
  BY <1>1, Finite
<1>3. ASSUME NEW x \in is \ was PROVE x \in S /\ Rank(S, x) = o
  <2>1. x \in T /\ Rank(S \ {i}, x) < o /\ ~(Rank(S, x) < o)
    BY DEF Skipped
  <2> DEFINE lower == {y \in S : y < x}
             rest  == {y \in S \ {i} : y < x}
  <2>2. lower \in SUBSET (1 .. room) /\ rest \in SUBSET (1 .. room) /\ lower \in SUBSET (rest \cup {i})
    OBVIOUS
  <2>3. Cardinality({i}) = 1 /\ {i} \in SUBSET (1 .. room)
    BY FS_Singleton
  <2>4. /\ Rank(S, x) = Cardinality(lower) /\ Rank(S \ {i}, x) = Cardinality(rest)
        /\ Cardinality(lower) \in Nat /\ Cardinality(rest) \in Nat
    BY <2>2, Finite DEF Rank
  <2> HIDE DEF lower, rest
  <2>5. Cardinality(lower) <= Cardinality(rest) + Cardinality({i})
    BY <2>2, <2>3, UnionSize
  <2>6. QED
    BY <2>1, <2>3, <2>4, <2>5
<1>4. CASE is \subseteq was
  <2>1. Cardinality(is) <= Cardinality(was)
    BY <1>1, <1>4, Smaller
  <2>2. Cardinality(is) \in Nat
    BY <1>1, Finite
  <2>3. QED
    BY <1>2, <2>1, <2>2
<1>5. CASE ~(is \subseteq was)
  <2>1. PICK w \in is : w \notin was
    BY <1>5
  <2>2. \A x \in is \ was : x = w
    <3> TAKE x \in is \ was
    <3>1. x \in S /\ w \in S /\ Rank(S, x) = o /\ Rank(S, w) = o
      BY <1>3, <2>1
    <3>2. ~(x < w) /\ ~(w < x)
      <4>1. (x < w \/ w < x) => o < o
        BY <3>1, RankMonotone
      <4>2. QED
        BY <4>1
    <3>3. x \in Nat /\ w \in Nat
      BY <3>1
    <3>4. QED
      BY <3>2, <3>3
  <2>3. is \in SUBSET (was \cup {w}) /\ {w} \in SUBSET (1 .. room)
    BY <1>1, <2>1, <2>2
  <2>4. Cardinality({w}) = 1
    BY FS_Singleton
  <2> HIDE DEF was, is
  <2>5. Cardinality(is) <= Cardinality(was) + Cardinality({w})
    BY <1>1, <2>3, UnionSize
  <2>6. QED
    BY <2>4, <2>5 DEF was, is
<1>6. QED
  BY <1>4, <1>5

(* The record deleted was one of T: one more may be gone past, but not it. *)
LEMMA SkippedDrop ==
  ASSUME NEW room \in Nat, NEW S \in SUBSET (1 .. room), NEW T \in SUBSET S,
         NEW o \in Nat, NEW i \in T
  PROVE  Cardinality(Skipped(S \ {i}, T \ {i}, o)) <= Cardinality(Skipped(S, T, o))
<1> DEFINE was  == Skipped(S, T, o)
           is   == Skipped(S \ {i}, T \ {i}, o)
           rest == was \ {i}
<1>1. was \in SUBSET (1 .. room) /\ is \in SUBSET (1 .. room) /\ rest \in SUBSET (1 .. room)
  BY DEF Skipped
<1>2. IsFiniteSet(was) /\ Cardinality(was) \in Nat /\ Cardinality(is) \in Nat
  BY <1>1, Finite
<1>3. ASSUME NEW x \in is \ was PROVE x \in S /\ Rank(S, x) = o /\ i < x
  <2>1. x \in T /\ x # i /\ Rank(S \ {i}, x) < o /\ ~(Rank(S, x) < o)
    BY DEF Skipped
  <2> DEFINE lower == {y \in S : y < x}
             remain  == {y \in S \ {i} : y < x}
  <2>2. lower \in SUBSET (1 .. room) /\ remain \in SUBSET (1 .. room) /\ lower \in SUBSET (remain \cup {i})
    OBVIOUS
  <2>3. Cardinality({i}) = 1 /\ {i} \in SUBSET (1 .. room)
    BY FS_Singleton
  <2>4. /\ Rank(S, x) = Cardinality(lower) /\ Rank(S \ {i}, x) = Cardinality(remain)
        /\ Cardinality(lower) \in Nat /\ Cardinality(remain) \in Nat
    BY <2>2, Finite DEF Rank
  <2>5. ~(i < x) => lower = remain
    OBVIOUS
  <2> HIDE DEF lower, remain
  <2>6. Cardinality(lower) <= Cardinality(remain) + Cardinality({i})
    BY <2>2, <2>3, UnionSize
  <2>7. QED
    BY <2>1, <2>3, <2>4, <2>5, <2>6
<1>4. CASE is \subseteq was
  BY <1>1, <1>4, Smaller
<1>5. CASE ~(is \subseteq was)
  <2>1. PICK w \in is : w \notin was
    BY <1>5
  <2>2. \A x \in is \ was : x = w
    <3> TAKE x \in is \ was
    <3>1. x \in S /\ w \in S /\ Rank(S, x) = o /\ Rank(S, w) = o
      BY <1>3, <2>1
    <3>2. ~(x < w) /\ ~(w < x)
      <4>1. (x < w \/ w < x) => o < o
        BY <3>1, RankMonotone
      <4>2. QED
        BY <4>1
    <3>3. x \in Nat /\ w \in Nat
      BY <3>1
    <3>4. QED
      BY <3>2, <3>3
  <2>3. i \in was
    <3>1. w \in S /\ Rank(S, w) = o /\ i < w
      BY <1>3, <2>1
    <3>2. Rank(S, i) < o
      BY <3>1, RankMonotone
    <3>3. QED
      BY <3>2 DEF Skipped
  <2>4. is \in SUBSET (rest \cup {w}) /\ {w} \in SUBSET (1 .. room)
    <3>1. i \notin is
      BY DEF Skipped
    <3>2. QED
      BY <1>1, <2>1, <2>2, <3>1
  <2>5. Cardinality({w}) = 1
    BY FS_Singleton
  <2>6. Cardinality(rest) = Cardinality(was) - 1
    BY <1>2, <2>3, FS_RemoveElement
  <2> HIDE DEF was, is, rest
  <2>7. Cardinality(is) <= Cardinality(rest) + Cardinality({w})
    BY <1>1, <2>4, UnionSize
  <2>8. QED
    BY <1>2, <2>5, <2>6, <2>7 DEF was, is
<1>6. QED
  BY <1>4, <1>5

LEMMA SkippedMove ==
  ASSUME NEW room \in Nat, NEW S \in SUBSET (1 .. room), NEW T \in SUBSET S,
         NEW o \in Nat, NEW i \in S, NEW j \in (1 .. room) \ S
  PROVE  Cardinality(Skipped(Moved(i, j, S), Moved(i, j, T), o)) <= Cardinality(Skipped(S, T, o)) + 1
<1> DEFINE R    == S \ {i}
           U    == T \ {i}
           was  == Skipped(S, T, o)
           rest == Skipped(R, U, o)
           here == Skipped(R \cup {j}, U, o)
           is   == Skipped(R \cup {j}, Moved(i, j, T), o)
<1>1. R \in SUBSET (1 .. room) /\ U \in SUBSET R /\ R \cup {j} \in SUBSET (1 .. room)
  OBVIOUS
<1>2. Cardinality(here) <= Cardinality(rest)
  BY <1>1, SkippedCreate
<1>3. /\ was \in SUBSET (1 .. room) /\ rest \in SUBSET (1 .. room)
      /\ here \in SUBSET (1 .. room) /\ is \in SUBSET (here \cup {j}) /\ is \in SUBSET (1 .. room)
  BY DEF Skipped, Moved
<1>4. /\ Cardinality(was) \in Nat /\ Cardinality(rest) \in Nat
      /\ Cardinality(here) \in Nat /\ Cardinality(is) \in Nat
  BY <1>3, Finite
<1>5. Moved(i, j, S) = R \cup {j}
  BY DEF Moved
<1>6. CASE i \in T
  <2>1. Cardinality(rest) <= Cardinality(was)
    BY <1>6, SkippedDrop
  <2>2. Cardinality({j}) = 1 /\ {j} \in SUBSET (1 .. room)
    BY FS_Singleton
  <2> HIDE DEF was, rest, here, is
  <2>3. Cardinality(is) <= Cardinality(here) + Cardinality({j})
    BY <1>3, <2>2, UnionSize
  <2>4. Cardinality(is) <= Cardinality(was) + 1
    BY <1>2, <1>4, <2>1, <2>2, <2>3
  <2>5. QED
    BY <1>5, <2>4 DEF is, was
<1>7. CASE i \notin T
  <2>1. Cardinality(rest) <= Cardinality(was) + 1
    BY SkippedDelete
  <2>2. is = here
    BY <1>7 DEF Moved
  <2> HIDE DEF was, rest, here, is
  <2>3. Cardinality(is) <= Cardinality(was) + 1
    BY <1>2, <1>4, <2>1, <2>2
  <2>4. QED
    BY <1>5, <2>3 DEF is, was
<1>8. QED
  BY <1>6, <1>7

LEMMA SplitSize ==
  ASSUME NEW room \in Nat, NEW S \in SUBSET (1 .. room), NEW T \in SUBSET (1 .. room), S \cap T = {}
  PROVE  Cardinality(S \cup T) = Cardinality(S) + Cardinality(T)
<1>1. /\ IsFiniteSet(S) /\ IsFiniteSet(T) /\ Cardinality(S) \in Nat /\ Cardinality(T) \in Nat
  BY Finite
<1>2. Cardinality(S \cup T) = Cardinality(S) + Cardinality(T) - Cardinality(S \cap T)
  BY <1>1, FS_Union
<1>3. Cardinality(S \cap T) = 0
  BY FS_EmptySet
<1>4. QED
  BY <1>1, <1>2, <1>3

LEMMA MovedSize ==
  ASSUME NEW room \in Nat, NEW S \in SUBSET (1 .. room), NEW i \in 1 .. room, NEW j \in (1 .. room) \ S
  PROVE  /\ Moved(i, j, S) \in SUBSET (1 .. room)
         /\ Cardinality(Moved(i, j, S)) = Cardinality(S)
<1>1. Moved(i, j, S) \in SUBSET (1 .. room)
  BY DEF Moved
<1>2. CASE i \in S
  <2> DEFINE R == S \ {i}
  <2>1. IsFiniteSet(S) /\ Cardinality(S) \in Nat /\ R \in SUBSET (1 .. room) /\ j \notin R
    BY Finite
  <2>2. IsFiniteSet(R) /\ Cardinality(R) = Cardinality(S) - 1
    BY <1>2, <2>1, FS_RemoveElement
  <2>3. Moved(i, j, S) = R \cup {j}
    BY <1>2 DEF Moved
  <2> HIDE DEF R
  <2>4. Cardinality(R \cup {j}) = Cardinality(R) + 1
    BY <2>1, <2>2, FS_AddElement
  <2>5. QED
    BY <1>1, <2>1, <2>2, <2>3, <2>4
<1>3. CASE i \notin S
  BY <1>1, <1>3 DEF Moved
<1>4. QED
  BY <1>2, <1>3

(* At the end of the list, it has gone past them all.                      *)
LEMMA SkippedAll ==
  ASSUME NEW room \in Nat, NEW S \in SUBSET (1 .. room), NEW T \in SUBSET S,
         NEW o \in Nat, Cardinality(S) <= o
  PROVE  Skipped(S, T, o) = T
<1>1. ASSUME NEW x \in T PROVE Rank(S, x) < o
  <2>1. Rank(S, x) < Cardinality(S) /\ Rank(S, x) \in Nat /\ Cardinality(S) \in Nat
    BY RankBelowSize, RankType, Finite
  <2>2. QED
    BY <2>1
<1>2. QED
  BY <1>1 DEF Skipped

-----------------------------------------------------------------------------
(* The grid of the pages.                                                  *)

OnGrid(g, l) == \E k \in Nat : g = k * l

LEMMA Division ==
  ASSUME NEW n \in Nat, NEW l \in Nat \ {0}
  PROVE  /\ n \div l \in Nat /\ n % l \in Nat /\ n % l < l
         /\ n = (n \div l) * l + (n % l) /\ (n \div l) * l \in Nat
  OBVIOUS

LEMMA GridOrder ==
  ASSUME NEW l \in Nat \ {0}, NEW j \in Nat, NEW k \in Nat
  PROVE  /\ j * l \in Nat
         /\ j < k => j * l + l <= k * l
<1>1. \A m, n \in Nat : m * n \in Nat
  OBVIOUS
<1>2. ASSUME j < k PROVE j * l + l <= k * l
  <2>1. PICK d \in Nat : k = j + 1 + d
    <3>1. k - j - 1 \in Nat /\ k = j + 1 + (k - j - 1)
      BY <1>2
    <3>2. QED
      BY <3>1
  <2>2. k * l = j * l + l + d * l
    BY <2>1
  <2>3. j * l \in Nat /\ d * l \in Nat
    BY <1>1
  <2>4. QED
    BY <2>2, <2>3
<1>3. QED
  BY <1>1, <1>2

LEMMA GridGap ==
  ASSUME NEW l \in Nat \ {0}, NEW g, NEW h, OnGrid(g, l), OnGrid(h, l)
  PROVE  g \in Nat /\ h \in Nat /\ (g < h => g + l <= h)
<1>1. PICK j \in Nat : g = j * l
  BY DEF OnGrid
<1>2. PICK k \in Nat : h = k * l
  BY DEF OnGrid
<1>3. j * l \in Nat /\ k * l \in Nat /\ (j < k => j * l + l <= k * l) /\ (k < j => k * l + l <= j * l)
  BY GridOrder
<1>4. j < k \/ j = k \/ k < j
  OBVIOUS
<1> HIDE DEF OnGrid
<1>5. ASSUME g < h PROVE g + l <= h
  <2>1. CASE j < k
    BY <1>1, <1>2, <1>3, <2>1
  <2>2. CASE j = k
    <3>1. g = h
      BY <1>1, <1>2, <2>2
    <3>2. QED
      BY <1>1, <1>3, <1>5, <3>1
  <2>3. CASE k < j
    <3>1. h + l <= g /\ g \in Nat /\ h \in Nat
      BY <1>1, <1>2, <1>3, <2>3
    <3>2. QED
      BY <1>5, <3>1
  <2>4. QED
    BY <1>4, <2>1, <2>2, <2>3
<1>6. QED
  BY <1>1, <1>2, <1>3, <1>5

LEMMA GridStep ==
  ASSUME NEW l \in Nat \ {0}, NEW g, OnGrid(g, l)
  PROVE  /\ OnGrid(0, l) /\ OnGrid(g + l, l)
         /\ g > 0 => g - l \in Nat /\ OnGrid(g - l, l)
<1>1. PICK k \in Nat : g = k * l
  BY DEF OnGrid
<1>2. 0 = 0 * l /\ g + l = (k + 1) * l
  BY <1>1
<1>3. ASSUME g > 0 PROVE g - l \in Nat /\ OnGrid(g - l, l)
  <2>1. k > 0
    BY <1>1, <1>3
  <2>2. k - 1 \in Nat /\ g - l = (k - 1) * l
    BY <1>1, <2>1
  <2>3. (k - 1) * l \in Nat
    BY <2>2, GridOrder
  <2>4. QED
    BY <2>2, <2>3 DEF OnGrid
<1>4. OnGrid(0, l) /\ OnGrid(g + l, l)
  <2>1. k + 1 \in Nat /\ 0 \in Nat
    OBVIOUS
  <2>2. QED
    BY <1>2, <2>1 DEF OnGrid
<1>5. QED
  BY <1>3, <1>4

LEMMA GridDivision ==
  ASSUME NEW n \in Nat, NEW l \in Nat \ {0}
  PROVE  /\ OnGrid((n \div l) * l, l) /\ (n \div l) * l \in Nat
         /\ (n \div l) * l <= n /\ n < (n \div l) * l + l
         /\ n % l = 0 <=> OnGrid(n, l)
<1> DEFINE q == n \div l
           r == n % l
           m == q * l
<1>1. q \in Nat /\ r \in Nat /\ r < l /\ n = m + r /\ m \in Nat
  BY Division
<1>2. OnGrid(m, l)
  BY <1>1 DEF OnGrid
<1> HIDE DEF q, r, m
<1>3. m <= n /\ n < m + l
  BY <1>1
<1>4. ASSUME r = 0 PROVE OnGrid(n, l)
  BY <1>1, <1>2, <1>4
<1>5. ASSUME OnGrid(n, l) PROVE r = 0
  <2>1. m < n => m + l <= n
    BY <1>2, <1>5, GridGap
  <2>2. QED
    BY <1>1, <1>3, <2>1
<1>6. QED
  BY <1>1, <1>2, <1>3, <1>4, <1>5 DEF q, r, m

(* The links of a page that can be requested.                              *)
LEMMA LastIsReal ==
  ASSUME NEW l \in Nat \ {0}, NEW total \in Nat, NEW max \in Nat
  PROVE  LET last == LastOffset(l, total, max)
         IN  /\ last \in 0 .. max /\ OnGrid(last, l) /\ last <= LastRequestable(l, max)
             /\ total > 0 => last < total
             /\ total = 0 => last = 0
             /\ \A g \in 0 .. max : OnGrid(g, l) /\ g < total => g <= last
<1> DEFINE last == LastOffset(l, total, max)
           lr   == LastRequestable(l, max)
<1>1. OnGrid(lr, l) /\ lr \in Nat /\ lr <= max /\ max < lr + l
  BY GridDivision DEF LastRequestable
<1>2. CASE total = 0
  <2>1. last = 0 /\ OnGrid(0, l)
    BY <1>1, <1>2, GridStep DEF LastOffset
  <2>2. QED
    BY <1>1, <1>2, <2>1
<1>3. CASE total # 0
  <2> DEFINE full == ((total - 1) \div l) * l
  <2>1. OnGrid(full, l) /\ full \in Nat /\ full <= total - 1 /\ total - 1 < full + l
    <3>1. total - 1 \in Nat
      BY <1>3
    <3>2. QED
      BY <3>1, GridDivision
  <2>2. last = IF full <= lr THEN full ELSE lr
    BY <1>3 DEF LastOffset, Least
  <2> HIDE DEF full, last, lr
  <2>3. OnGrid(last, l) /\ last \in 0 .. max /\ last <= lr /\ last < total
    BY <1>1, <1>3, <2>1, <2>2
  <2>4. ASSUME NEW g \in 0 .. max, OnGrid(g, l), g < total PROVE g <= last
    <3>1. (full < g => full + l <= g) /\ (lr < g => lr + l <= g)
      BY <1>1, <2>1, <2>4, GridGap
    <3>2. g <= full /\ g <= lr
      BY <1>1, <2>1, <2>4, <3>1
    <3>3. QED
      BY <2>2, <3>2
  <2>5. QED
    BY <1>3, <2>3, <2>4 DEF last, lr
<1>4. QED
  BY <1>2, <1>3

LEMMA LinksLead ==
  ASSUME NEW o \in Nat, NEW l \in Nat \ {0}, NEW total \in Nat, NEW max \in Nat, o <= max
  PROVE  LET grid == {g \in 0 .. max : g % l = 0}
             real == {g \in grid : g < total}
             last == LastOffset(l, total, max)
             prev == PrevOffset(o, l, total, max)
             next == NextOffset(o, l, total, max)
         IN  /\ {prev, next} \subseteq 0 .. max \cup {None}
             /\ last \in {0} \cup real /\ \A g \in real : g <= last
             /\ prev = None <=> o = 0
             /\ o >= total /\ o > 0 => prev = last /\ next = None
             /\ o \in real =>
                   /\ next = None => o = last
                   /\ next # None => next \in real /\ \A g \in real : g <= o \/ g >= next
                   /\ prev # None => prev \in real /\ \A g \in real : g <= prev \/ g >= o
             /\ o < total /\ o \notin grid =>
                   /\ next # None => next = o + l
                   /\ prev + l >= o
<1> DEFINE grid == {g \in 0 .. max : g % l = 0}
           real == {g \in grid : g < total}
           last == LastOffset(l, total, max)
           prev == PrevOffset(o, l, total, max)
           next == NextOffset(o, l, total, max)
           lr   == LastRequestable(l, max)
<1>1. /\ last \in 0 .. max /\ OnGrid(last, l) /\ last <= lr
      /\ total > 0 => last < total
      /\ total = 0 => last = 0
      /\ \A g \in 0 .. max : OnGrid(g, l) /\ g < total => g <= last
  BY LastIsReal
<1>2. lr \in Nat /\ lr <= max
  BY GridDivision DEF LastRequestable
<1>3. \A g : g \in real <=> g \in 0 .. max /\ OnGrid(g, l) /\ g < total
  BY GridDivision
<1>4. 0 \in grid
  <2>1. 0 % l = 0
    BY <1>1, GridDivision, GridStep
  <2>2. QED
    BY <2>1
<1>5. prev = IF o = 0 THEN None ELSE IF o >= total THEN last
             ELSE IF o - l >= 0 THEN o - l ELSE 0
  BY DEF PrevOffset, Greatest
<1>6. next = IF o + l >= total \/ o + l > lr THEN None ELSE o + l
  BY DEF NextOffset
<1>7. None = -1
  BY DEF None
<1>8. o \in grid <=> OnGrid(o, l)
  <2>1. o \in 0 .. max
    OBVIOUS
  <2>2. o % l = 0 <=> OnGrid(o, l)
    BY GridDivision
  <2>3. QED
    BY <2>1, <2>2
<1>9. 0 <= last /\ last \in Nat
  BY <1>1
<1> HIDE DEF grid, real, last, prev, next, lr, None
<1>10. {prev, next} \subseteq 0 .. max \cup {None}
  BY <1>1, <1>2, <1>5, <1>6
<1>11. last \in {0} \cup real /\ \A g \in real : g <= last
  BY <1>1, <1>3
<1>12. prev = None <=> o = 0
  BY <1>5, <1>7, <1>9
<1>13. o >= total /\ o > 0 => prev = last /\ next = None
  BY <1>5, <1>6
<1>14. ASSUME o \in real
       PROVE  /\ next = None => o = last
              /\ next # None => next \in real /\ \A g \in real : g <= o \/ g >= next
              /\ prev # None => prev \in real /\ \A g \in real : g <= prev \/ g >= o
  <2>1. OnGrid(o, l) /\ o < total /\ o <= last /\ OnGrid(o + l, l)
    BY <1>1, <1>3, <1>14, GridStep
  <2>2. ASSUME next = None PROVE o = last
    <3>1. o < last => o + l <= last
      BY <1>1, <2>1, GridGap
    <3>2. o + l >= total \/ o + l > lr
      BY <1>6, <1>7, <2>2
    <3>3. total > 0
      BY <2>1
    <3>4. QED
      BY <1>1, <1>2, <1>9, <2>1, <3>1, <3>2, <3>3
  <2>3. ASSUME next # None PROVE next \in real /\ \A g \in real : g <= o \/ g >= next
    <3>1. next = o + l /\ next < total /\ next \in 0 .. max
      BY <1>2, <1>6, <2>3
    <3>2. ASSUME NEW g \in real PROVE g <= o \/ g >= next
      <4>1. OnGrid(g, l) /\ g \in Nat
        BY <1>3, <3>2
      <4>2. o < g => o + l <= g
        BY <2>1, <4>1, GridGap
      <4>3. QED
        BY <3>1, <4>1, <4>2
    <3>3. QED
      BY <1>3, <2>1, <3>1, <3>2
  <2>4. ASSUME prev # None PROVE prev \in real /\ \A g \in real : g <= prev \/ g >= o
    <3>1. o > 0
      BY <1>5, <2>4
    <3>2. o - l \in Nat /\ OnGrid(o - l, l)
      BY <2>1, <3>1, GridStep
    <3>3. prev = o - l
      BY <1>5, <2>1, <3>1, <3>2
    <3>4. prev \in real
      BY <1>3, <2>1, <3>2, <3>3
    <3>5. ASSUME NEW g \in real PROVE g <= prev \/ g >= o
      <4>1. OnGrid(g, l) /\ g \in Nat
        BY <1>3, <3>5
      <4>2. g < o => g + l <= o
        BY <2>1, <4>1, GridGap
      <4>3. QED
        BY <3>2, <3>3, <4>1, <4>2
    <3>6. QED
      BY <3>4, <3>5
  <2>5. QED
    BY <2>2, <2>3, <2>4
<1>15. ASSUME o < total, o \notin grid
       PROVE  (next # None => next = o + l) /\ prev + l >= o
  <2>1. o # 0
    BY <1>4, <1>15
  <2>2. QED
    BY <1>5, <1>6, <1>15, <2>1
<1>16. QED
  BY <1>10, <1>11, <1>12, <1>13, <1>14, <1>15 DEF grid, real, last, prev, next

-----------------------------------------------------------------------------
(* The types.                                                              *)

LEMMA AskTyped ==
  ASSUME NEW n \in Nat, NEW e \in Entities, NEW o \in Nat, NEW l \in Nat \ {0}, site \in Sites
  PROVE  Ask(n, e, o, l) \in AskType
  BY ListsAssumption DEF Ask, AskType

LEMMA FetchTyped ==
  ASSUME site \in Sites, NEW v \in ViewType, NEW inFlight \in SUBSET AskType, FetchList(v, inFlight)
  PROVE  view' \in ViewType /\ asks' \in SUBSET AskType
<1>1. CASE v.entity = Unknown
  BY <1>1 DEF FetchList
<1>2. CASE v.entity # Unknown
  <2>1. v.asked + 1 \in Nat /\ v.entity \in Entities /\ v.limit \in Nat \ {0}
    BY <1>2 DEF ViewType
  <2>2. (v.page - 1) * v.limit \in Nat
    BY OffsetType DEF ViewType
  <2>3. Ask(v.asked + 1, v.entity, (v.page - 1) * v.limit, v.limit) \in AskType
    BY <2>1, <2>2, AskTyped
  <2>4. view' \in ViewType
    BY <1>2, <2>1 DEF FetchList, ViewType
  <2>5. QED
    BY <1>2, <2>3, <2>4 DEF FetchList
<1>3. QED
  BY <1>1, <1>2

LEMMA InitType == Init => TypeOK
<1> SUFFICES ASSUME Init PROVE TypeOK
  OBVIOUS
<1> USE ListsAssumption
<1>1. site \in Sites /\ site.room \in Nat /\ site.max \in Nat \ {0} /\ site.writes \in Nat /\ site.acts \in Nat
  BY DEF Init
<1>2. rows \in [Entities -> SUBSET Ids]
  BY DEF Init
<1>3. left \in [writes : 0 .. site.writes, acts : 0 .. site.acts]
  BY <1>1 DEF Init
<1>4. \A e \in Entities \cup {Unknown} : NewView(e) \in ViewType
  BY <1>1 DEF NewView, ViewType
<1>5. \A e \in Entities, l \in Nat \ {0}, o \in Nat : NewWalk(e, l, o) \in WalkType
  BY <1>2 DEF NewWalk, WalkType
<1>6. NoWalk \in WalkType
  BY DEF NoWalk, WalkType
<1>7. \A e \in Entities, l \in Nat \ {0}, o \in Nat : Ask(0, e, o, l) \in AskType
  BY <1>1, AskTyped
<1>8. view \in ViewType /\ walk \in WalkType /\ asks \subseteq AskType
  BY <1>1, <1>4, <1>5, <1>6, <1>7 DEF Init, Entities
<1>9. QED
  BY <1>1, <1>2, <1>3, <1>8 DEF TypeOK

LEMMA AnswerType ==
  ASSUME TypeOK, NEW a \in asks, Answers(a) PROVE TypeOK'
<1> USE ListsAssumption
<1>1. site \in Sites /\ site.room \in Nat /\ site.max \in Nat \ {0} /\ a \in AskType /\ rows[a.entity] \in SUBSET Ids
  BY DEF TypeOK, AskType
<1>2. Cardinality(a.items) \in Nat
  BY <1>1, RecordsCount DEF AskType, Ids
<1>3. site' = site /\ rows' = rows /\ left' = left
  BY DEF Answers, List, Count, Fail, Drop, Clamp, Show, ShowError, Collect, Follow, WalkFails, Advance
<1>4. SUFFICES view' \in ViewType /\ walk' \in WalkType /\ asks' \subseteq AskType
  BY <1>3 DEF TypeOK, AskType, ViewType, WalkType, Ids
<1>5. CASE List(a)
  <2>1. Contents(a) \in SUBSET Ids
    BY <1>1 DEF Page, Contents
  <2>2. [a EXCEPT !.at = IF a.entity \in Paged THEN "listed" ELSE "ready",
                  !.items = Contents(a)] \in AskType
    BY <1>1, <2>1 DEF AskType
  <2>3. asks' \subseteq AskType /\ view' = view
    BY <1>5, <2>2 DEF List, TypeOK
  <2>4. walk' \in WalkType
    <3>1. Cardinality(Contents(a) \cap walk.seen) \in Nat
      <4>1. Contents(a) \cap walk.seen \in SUBSET (1 .. site.room)
        BY <2>1 DEF Ids
      <4>2. QED
        BY <1>1, <4>1, RecordsCount
    <3>2. CASE walk.at # "going"
      BY <1>5, <3>2 DEF List, TypeOK
    <3>3. CASE walk.at = "going"
      <4>1. walk' = [walk EXCEPT !.again = @ + Cardinality(Contents(a) \cap walk.seen),
                                 !.seen = @ \cup Contents(a), !.missing = @ \ Contents(a)]
        BY <1>5, <3>3 DEF List
      <4>2. /\ walk \in WalkType /\ walk.again + Cardinality(Contents(a) \cap walk.seen) \in Nat
            /\ walk.seen \cup Contents(a) \in SUBSET Ids
            /\ walk.missing \ Contents(a) \in SUBSET Ids
        BY <2>1, <3>1 DEF TypeOK, WalkType
      <4>3. QED
        BY <4>1, <4>2 DEF WalkType
    <3>4. QED
      BY <3>2, <3>3
  <2>5. QED
    BY <2>3, <2>4 DEF TypeOK
<1>6. CASE Count(a)
  <2>1. Cardinality(rows[a.entity]) \in 0 .. site.room
    BY <1>1, RecordsCount DEF Ids
  <2>2. QED
    BY <1>1, <1>6, <2>1 DEF Count, TypeOK, AskType
<1>7. CASE Fail(a) \/ Drop(a)
  BY <1>1, <1>7 DEF Fail, Drop, TypeOK, AskType
<1>8. CASE Clamp(a)
  <2>1. TotalPages(a.total, view.limit) \in Nat \ {0}
    BY <1>1, TotalPagesType DEF TypeOK, AskType, ViewType
  <2>2. [view EXCEPT !.page = TotalPages(a.total, view.limit)] \in ViewType
    BY <2>1 DEF TypeOK, ViewType
  <2>3. QED
    BY <1>1, <1>8, <2>2, FetchTyped DEF Clamp, TypeOK
<1>9. CASE Show(a)
  BY <1>1, <1>9 DEF Show, TypeOK, AskType, ViewType
<1>10. CASE ShowError(a)
  BY <1>1, <1>10 DEF ShowError, TypeOK, AskType, ViewType
<1>11. ASSUME NEW most \in Nat, NEW offset \in Nat \cup {None}, NEW limit \in Nat \ {0},
              Advance(a, most, offset, limit)
       PROVE  view' \in ViewType /\ walk' \in WalkType /\ asks' \subseteq AskType
  <2>1. walk' \in WalkType
    <3>1. /\ walk.read + Cardinality(a.items) \in Nat /\ walk.pages + 1 \in Nat
      BY <1>1, <1>2 DEF TypeOK, WalkType, AskType
    <3>2. QED
      BY <3>1, <1>11 DEF Advance, TypeOK, WalkType
  <2>2. offset # None => Ask(walk.pages + 1, a.entity, offset, limit) \in AskType
    <3>1. walk.pages + 1 \in Nat /\ a.entity \in Entities
      BY <1>1 DEF TypeOK, WalkType, AskType
    <3>2. QED
      BY <1>1, <3>1, AskTyped
  <2>3. QED
    BY <1>1, <1>11, <2>1, <2>2 DEF Advance, TypeOK
<1>12. CASE Collect(a)
  <2>1. MostPages(a.total) \in Nat
    <3>1. Ceiling(a.total, walk.limit) \in Nat
      BY <1>1, CeilingType DEF TypeOK, WalkType, AskType
    <3>2. QED
      BY <3>1 DEF MostPages, PageCap, Least
  <2>2. /\ walk.read + Cardinality(a.items) \in Nat /\ walk.limit \in Nat \ {0}
        /\ walk.most \in Nat
    BY <1>2 DEF TypeOK, WalkType
  <2>3. QED
    BY <1>11, <1>12, <2>1, <2>2 DEF Collect
<1>13. CASE Follow(a)
  <2>1. Served(a) \in Nat \ {0} /\ a.offset \in Nat /\ a.total \in Nat
    BY <1>1 DEF Served, Least, AskType
  <2>2. NextOffset(a.offset, Served(a), a.total, MaxOffset) \in Nat \cup {None}
    BY <2>1, NextOffsetType
  <2>3. QED
    BY <1>11, <1>13, <2>1, <2>2 DEF Follow
<1>14. CASE WalkFails(a)
  BY <1>14 DEF WalkFails, TypeOK, WalkType
<1>15. QED
  BY <1>5, <1>6, <1>7, <1>8, <1>9, <1>10, <1>12, <1>13, <1>14 DEF Answers

LEMMA WriteType ==
  ASSUME TypeOK, NEW e \in Entities, NEW i \in Room(e), NEW j \in Room(e),
         Create(e, i) \/ Delete(e, i) \/ Move(e, i, j)
  PROVE  TypeOK'
<1> USE ListsAssumption
<1>1. i \in Ids /\ j \in Ids /\ site' = site /\ view' = view /\ site \in Sites
  BY DEF Room, Create, Delete, Move, Writes, TypeOK
<1>2. rows' \in [Entities -> SUBSET Ids]
  BY <1>1 DEF Create, Delete, Move, Moved, Writes, TypeOK
<1>3. left' \in [writes : 0 .. site.writes, acts : 0 .. site.acts]
  BY <1>1 DEF Create, Delete, Move, Writes, TypeOK
<1>4. walk' \in WalkType
  <2>1. CASE Create(e, i)
    BY <2>1 DEF Create, TypeOK, WalkType
  <2>2. CASE Delete(e, i)
    <3>1. walk.deletes + 1 \in Nat /\ walk.seen \ {i} \in SUBSET Ids /\ walk.missing \ {i} \in SUBSET Ids
      BY DEF TypeOK, WalkType
    <3>2. QED
      BY <2>2, <3>1 DEF Delete, TypeOK, WalkType
  <2>3. CASE Move(e, i, j)
    <3>1. /\ walk.moves + 1 \in Nat /\ Moved(i, j, walk.seen) \in SUBSET Ids
          /\ Moved(i, j, walk.missing) \in SUBSET Ids
      BY <1>1 DEF TypeOK, WalkType, Moved
    <3>2. QED
      BY <2>3, <3>1 DEF Move, TypeOK, WalkType
  <2>4. QED
    BY <2>1, <2>2, <2>3
<1>5. asks' \subseteq AskType
  <2>1. \A b \in AskType : [b EXCEPT !.torn = @ \/ (b.entity = e /\ b.at = "listed")] \in AskType
    <3> SUFFICES ASSUME NEW b \in AskType
                 PROVE  [b EXCEPT !.torn = b.torn \/ (b.entity = e /\ b.at = "listed")] \in AskType
      OBVIOUS
    <3>1. b.torn \/ (b.entity = e /\ b.at = "listed") \in BOOLEAN
      BY DEF AskType
    <3>2. QED
      BY <3>1 DEF AskType
  <2>2. QED
    BY <2>1 DEF Create, Delete, Move, TypeOK
<1>6. QED
  BY <1>1, <1>2, <1>3, <1>4, <1>5 DEF TypeOK, AskType, ViewType, WalkType, Ids

LEMMA ActsType ==
  ASSUME TypeOK, NEW v \in ViewType, Acts(v) PROVE TypeOK'
<1> USE ListsAssumption
<1>1. site \in Sites /\ site' = site /\ rows' = rows /\ walk' = walk
  BY DEF TypeOK, Acts
<1>2. view' \in ViewType /\ asks' \in SUBSET AskType
  BY <1>1, FetchTyped DEF Acts, TypeOK
<1>3. left' \in [writes : 0 .. site.writes, acts : 0 .. site.acts]
  BY <1>1 DEF Acts, TypeOK
<1>4. QED
  BY <1>1, <1>2, <1>3 DEF TypeOK, AskType, ViewType, WalkType, Ids

LEMMA SwitchedType ==
  ASSUME site \in Sites, view \in ViewType, NEW e \in Entities \cup {Unknown}
  PROVE  /\ Switched(e) \in ViewType /\ Switched(e).asked = view.asked /\ Switched(e).page = 1
         /\ Switched(e).total = 0 /\ Switched(e).limit = DefaultLimit
<1>1. /\ {} \in SUBSET Ids /\ 1 \in Nat \ {0} /\ 0 \in 0 .. site.room /\ FALSE \in BOOLEAN
      /\ DefaultLimit \in Nat \ {0}
  BY ListsAssumption
<1>2. QED
  BY <1>1 DEF Switched, ViewType

LEMMA ScreenType ==
  ASSUME TypeOK,
         \/ Refresh \/ NextPage \/ PrevPage
         \/ \E p \in 0 .. site.room + 1 : GoToPage(p)
         \/ \E s \in Sizes : SetPageSize(s)
         \/ \E e \in Entities \cup {Unknown} : Switch(e)
  PROVE  TypeOK'
<1> USE ListsAssumption
<1>1. view \in ViewType /\ view.page \in Nat \ {0} /\ LastPage \in Nat \ {0} /\ site \in Sites
  BY TotalPagesType DEF TypeOK, ViewType, LastPage
<1>2. CASE Refresh
  BY <1>1, <1>2, ActsType DEF Refresh
<1>3. CASE NextPage
  <2>1. [view EXCEPT !.page = view.page + 1] \in ViewType
    BY <1>1 DEF ViewType
  <2>2. QED
    BY <1>3, <2>1, ActsType DEF NextPage
<1>4. CASE PrevPage
  <2>1. view.page > 1 => [view EXCEPT !.page = view.page - 1] \in ViewType
    BY <1>1 DEF ViewType
  <2>2. QED
    BY <1>4, <2>1, ActsType DEF PrevPage
<1>5. ASSUME NEW p \in 0 .. site.room + 1, GoToPage(p) PROVE TypeOK'
  <2>1. Greatest(1, Least(p, LastPage)) \in Nat \ {0}
    BY <1>1 DEF Greatest, Least
  <2>2. [view EXCEPT !.page = Greatest(1, Least(p, LastPage))] \in ViewType
    BY <1>1, <2>1 DEF ViewType
  <2>3. QED
    BY <1>5, <2>2, ActsType DEF GoToPage
<1>6. ASSUME NEW s \in Sizes, SetPageSize(s) PROVE TypeOK'
  <2>1. s \in Nat \ {0} /\ 1 \in Nat \ {0}
    OBVIOUS
  <2>2. [view EXCEPT !.limit = s, !.page = 1] \in ViewType
    BY <1>1, <2>1 DEF ViewType
  <2>3. QED
    BY <1>6, <2>2, ActsType DEF SetPageSize
<1>7. ASSUME NEW e \in Entities \cup {Unknown}, Switch(e) PROVE TypeOK'
  <2>1. Switched(e) \in ViewType
    BY <1>1, SwitchedType
  <2>2. QED
    BY <1>7, <2>1, ActsType DEF Switch
<1>8. QED
  BY <1>2, <1>3, <1>4, <1>5, <1>6, <1>7

LEMMA NextType == TypeOK /\ [Next]_vars => TypeOK'
<1> SUFFICES ASSUME TypeOK, [Next]_vars PROVE TypeOK'
  OBVIOUS
<1>1. CASE UNCHANGED vars
  BY <1>1 DEF vars, TypeOK, AskType, ViewType, WalkType, Ids
<1>2. CASE Next
  BY <1>2, AnswerType, WriteType, ScreenType DEF Next
<1>3. QED
  BY <1>1, <1>2

(* The variables of Lists have their types, whatever the entities, the     *)
(* page sizes and the bounds.                                              *)
THEOREM TypeCorrect == Spec => []TypeOK
  BY InitType, NextType, PTL DEF Spec

-----------------------------------------------------------------------------
(* The latest request is the one for the page the screen is on.            *)

LatestAsksForView ==
  site.screen = "admin" =>
    \A a \in asks :
      /\ a.n <= view.asked
      /\ a.n = view.asked /\ view.entity # Unknown =>
           /\ a.entity = view.entity /\ a.limit = view.limit
           /\ a.offset = (view.page - 1) * view.limit

(* The screens that are not a list screen keep an empty one.               *)
NoView == site.screen # "admin" => view = NewView(Unknown)

Inv == TypeOK /\ LatestAsksForView /\ NoView /\ ShowsLatest /\ PageInRange

LEMMA InitInv == Init => Inv
<1> SUFFICES ASSUME Init PROVE Inv
  OBVIOUS
<1>1. TypeOK
  BY InitType
<1>2. TotalPages(0, DefaultLimit) \in Nat \ {0}
  BY TotalPagesType, ListsAssumption
<1>3. view.page = 1 /\ view.total = 0 /\ view.limit = DefaultLimit /\ view.asked = 0
  BY DEF Init, NewView
<1>4. PageInRange /\ ShowsLatest
  BY <1>2, <1>3 DEF PageInRange, ShowsLatest
<1>5. LatestAsksForView
  BY DEF Init, LatestAsksForView
<1>6. NoView
  BY DEF Init, NoView
<1>7. QED
  BY <1>1, <1>4, <1>5, <1>6 DEF Inv

(* Whatever state fetchList starts from, on a list screen.                 *)
LEMMA FetchInv ==
  ASSUME TypeOK, site.screen = "admin", NEW v \in ViewType, NEW inFlight \in SUBSET asks,
         \A a \in asks : a.n <= v.asked,
         v.page <= TotalPages(v.total, v.limit),
         FetchList(v, inFlight), site' = site
  PROVE  LatestAsksForView' /\ NoView' /\ ShowsLatest' /\ PageInRange'
<1>1. inFlight \subseteq AskType /\ v.asked \in Nat /\ \A a \in inFlight : a.n \in Nat /\ a.n <= v.asked
  BY DEF TypeOK, AskType, ViewType
<1>2. CASE v.entity = Unknown
  <2>1. view' = v /\ asks' = inFlight
    BY <1>2 DEF FetchList
  <2>2. Unknown \notin Entities
    BY ListsAssumption DEF Entities
  <2>3. QED
    BY <1>1, <1>2, <2>1, <2>2 DEF LatestAsksForView, NoView, ShowsLatest, PageInRange
<1>3. CASE v.entity # Unknown
  <2> DEFINE new == Ask(v.asked + 1, v.entity, (v.page - 1) * v.limit, v.limit)
  <2>1. /\ view' = [v EXCEPT !.asked = v.asked + 1, !.loading = TRUE, !.error = FALSE]
        /\ asks' = inFlight \cup {new}
    BY <1>3 DEF FetchList
  <2>2. /\ view'.asked = v.asked + 1 /\ view'.loading /\ view'.entity = v.entity
        /\ view'.limit = v.limit /\ view'.page = v.page /\ view'.total = v.total
    BY <2>1 DEF ViewType
  <2>3. /\ new.n = v.asked + 1 /\ new.entity = v.entity
        /\ new.offset = (v.page - 1) * v.limit /\ new.limit = v.limit
    BY DEF Ask
  <2>4. LatestAsksForView'
    BY <1>1, <2>1, <2>2, <2>3 DEF LatestAsksForView
  <2>5. QED
    BY <2>2, <2>4 DEF NoView, ShowsLatest, PageInRange
<1>4. QED
  BY <1>2, <1>3

LEMMA ScreenInv ==
  ASSUME Inv, NEW v \in ViewType, v.asked = view.asked,
         v.page <= TotalPages(v.total, v.limit), Acts(v)
  PROVE  LatestAsksForView' /\ NoView' /\ ShowsLatest' /\ PageInRange'
  BY FetchInv DEF Inv, Acts, LatestAsksForView

LEMMA AnswerInv ==
  ASSUME Inv, NEW a \in asks, Answers(a)
  PROVE  LatestAsksForView' /\ NoView' /\ ShowsLatest' /\ PageInRange'
<1>1. site' = site /\ a \in AskType /\ view \in ViewType /\ asks \subseteq AskType
  BY DEF Inv, TypeOK, Answers, List, Count, Fail, Drop, Clamp, Show, ShowError, Collect, Follow,
         WalkFails, Advance
<1>2. CASE List(a) \/ Count(a) \/ Fail(a)
  <2>1. ASSUME NEW b, b.n = a.n, b.entity = a.entity, b.offset = a.offset, b.limit = a.limit,
               asks' = (asks \ {a}) \cup {b}, view' = view
        PROVE  LatestAsksForView' /\ NoView' /\ ShowsLatest' /\ PageInRange'
    BY <1>1, <2>1 DEF Inv, LatestAsksForView, NoView, ShowsLatest, PageInRange
  <2>2. CASE List(a)
    <3> DEFINE b == [a EXCEPT !.at = IF a.entity \in Paged THEN "listed" ELSE "ready",
                              !.items = Contents(a)]
    <3>1. asks' = (asks \ {a}) \cup {b} /\ view' = view
      BY <2>2 DEF List
    <3>2. b.n = a.n /\ b.entity = a.entity /\ b.offset = a.offset /\ b.limit = a.limit
      BY <1>1 DEF AskType
    <3>3. QED
      BY <2>1, <3>1, <3>2
  <2>3. CASE Count(a)
    <3> DEFINE b == [a EXCEPT !.at = "ready", !.total = Cardinality(rows[a.entity])]
    <3>1. asks' = (asks \ {a}) \cup {b} /\ view' = view
      BY <2>3 DEF Count
    <3>2. b.n = a.n /\ b.entity = a.entity /\ b.offset = a.offset /\ b.limit = a.limit
      BY <1>1 DEF AskType
    <3>3. QED
      BY <2>1, <3>1, <3>2
  <2>4. CASE Fail(a)
    <3> DEFINE b == [a EXCEPT !.at = "failed", !.items = {}]
    <3>1. asks' = (asks \ {a}) \cup {b} /\ view' = view
      BY <2>4 DEF Fail
    <3>2. b.n = a.n /\ b.entity = a.entity /\ b.offset = a.offset /\ b.limit = a.limit
      BY <1>1 DEF AskType
    <3>3. QED
      BY <2>1, <3>1, <3>2
  <2>5. QED
    BY <1>2, <2>2, <2>3, <2>4
<1>3. CASE Drop(a)
  BY <1>1, <1>3 DEF Drop, Inv, LatestAsksForView, NoView, ShowsLatest, PageInRange
<1>4. CASE Clamp(a)
  <2> DEFINE p == TotalPages(a.total, view.limit)
             v == [view EXCEPT !.page = p]
  <2>1. p \in Nat \ {0} /\ p <= view.page
    BY <1>1, <1>4, TotalPagesType DEF Clamp, Beyond, AskType, ViewType
  <2>2. /\ v \in ViewType /\ v.asked = view.asked /\ v.page = p
        /\ v.total = view.total /\ v.limit = view.limit
    BY <1>1, <2>1 DEF ViewType
  <2>3. TotalPages(view.total, view.limit) \in Nat /\ view.page <= TotalPages(view.total, view.limit)
        /\ view.page \in Nat
    BY <1>1, TotalPagesType DEF Inv, PageInRange, ViewType
  <2>4. v.page <= TotalPages(v.total, v.limit)
    BY <2>1, <2>2, <2>3
  <2>5. site.screen = "admin" /\ FetchList(v, asks \ {a})
    BY <1>4 DEF Clamp, Latest
  <2>6. \A b \in asks : b.n <= v.asked
    BY <2>2, <2>5 DEF Inv, LatestAsksForView
  <2>7. QED
    BY <1>1, <2>2, <2>4, <2>5, <2>6, FetchInv DEF Inv
<1>5. CASE Show(a)
  <2>1. /\ site.screen = "admin" /\ a.n = view.asked /\ ~Beyond(a) /\ asks' = asks \ {a}
        /\ view'.shown.entity = a.entity /\ view'.shown.offset = a.offset /\ view'.shown.limit = a.limit
        /\ view'.page = view.page /\ view'.limit = view.limit /\ view'.entity = view.entity
        /\ view'.asked = view.asked
        /\ view'.total = IF a.entity \in Paged THEN a.total ELSE view.total
    BY <1>1, <1>5 DEF Show, Latest, ViewType
  <2>2. view.entity # Unknown =>
          a.entity = view.entity /\ a.limit = view.limit /\ a.offset = (view.page - 1) * view.limit
    BY <2>1 DEF Inv, LatestAsksForView
  <2>3. Unknown \notin Entities
    BY ListsAssumption DEF Entities
  <2>4. ShowsLatest'
    BY <2>1, <2>2, <2>3 DEF ShowsLatest
  <2>5. PageInRange'
    <3>1. a.entity \in Paged => view.page <= TotalPages(a.total, view.limit)
      BY <1>1, <2>1, TotalPagesType DEF Beyond, AskType, ViewType
    <3>2. QED
      BY <2>1, <3>1 DEF Inv, PageInRange
  <2>6. LatestAsksForView' /\ NoView'
    BY <1>1, <2>1 DEF Inv, LatestAsksForView, NoView
  <2>7. QED
    BY <2>4, <2>5, <2>6
<1>6. CASE ShowError(a)
  <2>1. /\ site.screen = "admin" /\ asks' = asks \ {a} /\ view'.error
        /\ view'.page = view.page /\ view'.limit = view.limit /\ view'.entity = view.entity
        /\ view'.asked = view.asked /\ view'.total = view.total
    BY <1>1, <1>6 DEF ShowError, Latest, ViewType
  <2>2. QED
    BY <1>1, <2>1 DEF Inv, LatestAsksForView, NoView, ShowsLatest, PageInRange
<1>7. CASE Collect(a) \/ Follow(a) \/ WalkFails(a)
  <2>1. site.screen # "admin" /\ view' = view
    BY <1>7 DEF Collect, Follow, WalkFails, Advance
  <2>2. QED
    BY <1>1, <2>1 DEF Inv, LatestAsksForView, NoView, ShowsLatest, PageInRange
<1>8. QED
  BY <1>2, <1>3, <1>4, <1>5, <1>6, <1>7 DEF Answers

LEMMA WriteInv ==
  ASSUME Inv, NEW e \in Entities, NEW i \in Room(e), NEW j \in Room(e),
         Create(e, i) \/ Delete(e, i) \/ Move(e, i, j)
  PROVE  LatestAsksForView' /\ NoView' /\ ShowsLatest' /\ PageInRange'
<1>1. site' = site /\ view' = view /\ asks \subseteq AskType
  BY DEF Create, Delete, Move, Writes, Inv, TypeOK
<1>2. \A b \in asks' : \E a \in asks :
        b.n = a.n /\ b.entity = a.entity /\ b.offset = a.offset /\ b.limit = a.limit
  <2>1. CASE Delete(e, i) \/ Move(e, i, j)
    BY <2>1 DEF Delete, Move
  <2>2. CASE Create(e, i)
    BY <1>1, <2>2 DEF Create, AskType
  <2>3. QED
    BY <2>1, <2>2
<1>3. QED
  BY <1>1, <1>2 DEF Inv, LatestAsksForView, NoView, ShowsLatest, PageInRange

LEMMA ActInv ==
  ASSUME Inv,
         \/ Refresh \/ NextPage \/ PrevPage
         \/ \E p \in 0 .. site.room + 1 : GoToPage(p)
         \/ \E s \in Sizes : SetPageSize(s)
         \/ \E e \in Entities \cup {Unknown} : Switch(e)
  PROVE  LatestAsksForView' /\ NoView' /\ ShowsLatest' /\ PageInRange'
<1> USE ListsAssumption
<1>1. /\ view \in ViewType /\ view.page \in Nat \ {0} /\ LastPage \in Nat \ {0} /\ site \in Sites
      /\ LastPage = TotalPages(view.total, view.limit) /\ view.page <= LastPage
  BY TotalPagesType DEF Inv, TypeOK, PageInRange, ViewType, LastPage
<1>2. ASSUME NEW p \in Nat \ {0}, p <= LastPage, Acts([view EXCEPT !.page = p])
      PROVE  LatestAsksForView' /\ NoView' /\ ShowsLatest' /\ PageInRange'
  <2> DEFINE v == [view EXCEPT !.page = p]
  <2>1. /\ v \in ViewType /\ v.asked = view.asked /\ v.page = p
        /\ v.total = view.total /\ v.limit = view.limit
    BY <1>1, <1>2 DEF ViewType
  <2>2. QED
    BY <1>1, <1>2, <2>1, ScreenInv
<1>3. CASE Refresh
  BY <1>1, <1>3, ScreenInv DEF Refresh
<1>4. CASE NextPage
  <2>1. view.page + 1 \in Nat \ {0} /\ view.page + 1 <= LastPage
    BY <1>1, <1>4 DEF NextPage
  <2>2. QED
    BY <1>2, <1>4, <2>1 DEF NextPage
<1>5. CASE PrevPage
  <2>1. view.page - 1 \in Nat \ {0} /\ view.page - 1 <= LastPage
    BY <1>1, <1>5 DEF PrevPage
  <2>2. QED
    BY <1>2, <1>5, <2>1 DEF PrevPage
<1>6. ASSUME NEW p \in 0 .. site.room + 1, GoToPage(p)
      PROVE  LatestAsksForView' /\ NoView' /\ ShowsLatest' /\ PageInRange'
  <2>1. /\ Greatest(1, Least(p, LastPage)) \in Nat \ {0}
        /\ Greatest(1, Least(p, LastPage)) <= LastPage
    BY <1>1 DEF Greatest, Least
  <2>2. QED
    BY <1>2, <1>6, <2>1 DEF GoToPage
<1>7. ASSUME NEW s \in Sizes, SetPageSize(s)
      PROVE  LatestAsksForView' /\ NoView' /\ ShowsLatest' /\ PageInRange'
  <2> DEFINE v == [view EXCEPT !.limit = s, !.page = 1]
  <2>1. s \in Nat \ {0} /\ 1 \in Nat \ {0} /\ view.total \in Nat
    BY <1>1 DEF ViewType
  <2>2. v \in ViewType /\ v.asked = view.asked /\ v.page = 1 /\ v.total = view.total /\ v.limit = s
    BY <1>1, <2>1 DEF ViewType
  <2>3. v.page <= TotalPages(v.total, v.limit)
    BY <2>1, <2>2, TotalPagesType
  <2>4. QED
    BY <1>7, <2>2, <2>3, ScreenInv DEF SetPageSize
<1>8. ASSUME NEW e \in Entities \cup {Unknown}, Switch(e)
      PROVE  LatestAsksForView' /\ NoView' /\ ShowsLatest' /\ PageInRange'
  <2>1. /\ Switched(e) \in ViewType /\ Switched(e).asked = view.asked /\ Switched(e).page = 1
        /\ Switched(e).total = 0 /\ Switched(e).limit = DefaultLimit
    BY <1>1, SwitchedType
  <2>2. TotalPages(0, DefaultLimit) \in Nat \ {0}
    BY TotalPagesType
  <2>3. QED
    BY <1>8, <2>1, <2>2, ScreenInv DEF Switch
<1>9. QED
  BY <1>3, <1>4, <1>5, <1>6, <1>7, <1>8

LEMMA NextInv == Inv /\ [Next]_vars => Inv'
<1> SUFFICES ASSUME Inv, [Next]_vars PROVE Inv'
  OBVIOUS
<1>1. TypeOK'
  BY NextType DEF Inv
<1>2. CASE UNCHANGED vars
  BY <1>1, <1>2 DEF Inv, vars, LatestAsksForView, NoView, ShowsLatest, PageInRange
<1>3. CASE Next
  BY <1>1, <1>3, AnswerInv, WriteInv, ActInv DEF Next, Inv
<1>4. QED
  BY <1>2, <1>3

(* A settled list screen shows the page of the entity it says it shows,    *)
(* however many requests it had in flight and however they were answered.  *)
THEOREM LatestShown == Spec => []ShowsLatest
<1>1. Inv => ShowsLatest
  BY DEF Inv
<1>2. QED
  BY <1>1, InitInv, NextInv, PTL DEF Spec

(* The list screen is on no page beyond the total it displays.             *)
THEOREM PageStaysInRange == Spec => []PageInRange
<1>1. Inv => PageInRange
  BY DEF Inv
<1>2. QED
  BY <1>1, InitInv, NextInv, PTL DEF Spec

-----------------------------------------------------------------------------
(* What the requests in flight have read.                                  *)

AskShape(a) ==
  /\ a.at \in {"sent", "failed"} => a.items = {}
  /\ a.at = "listed" => a.entity \in Paged
  /\ a.at \in {"listed", "ready"} /\ a.entity \in Paged =>
       /\ a.offset <= MaxOffset
       /\ Cardinality(a.items) <= Served(a)

(* A page without a record is one beyond the list, unless it is torn.      *)
EmptyBeyond(a) ==
  a.entity \in Paged /\ ~a.torn /\ a.items = {} =>
    /\ a.at = "listed" => Cardinality(rows[a.entity]) <= a.offset
    /\ a.at = "ready" => a.total <= a.offset

Asked == \A a \in asks : AskShape(a) /\ EmptyBeyond(a)

(* A walk has one request in flight as long as it goes on.                 *)
OneAsk ==
  /\ site.screen = "admin" => walk = NoWalk
  /\ site.screen # "admin" /\ walk.at # "going" => asks = {}

WalkShape(a) ==
  /\ walk.at = "going" /\ asks = {a} /\ a.entity = walk.entity
  /\ a.entity \in Plain => a.offset = 0 /\ walk.read = 0
  /\ walk.seen \subseteq rows[a.entity] /\ walk.missing \subseteq rows[a.entity]
  /\ site.screen = "relations" =>
       /\ walk.limit = site.max /\ a.limit = site.max
       /\ a.offset = walk.read /\ walk.read = walk.pages * walk.limit
  /\ site.screen = "api" =>
       /\ a.entity \in Paged /\ Served(a) = Least(walk.limit, site.max)
       /\ walk.first = 0 => a.offset % Served(a) = 0

(* What may make it read a row again, and what may make it miss one.       *)
Shifts == walk.creates + walk.moves
Losses == walk.deletes + walk.moves

(* Of the rows it has read, G are where they were then.                    *)
ReadAgainFew(a) ==
  a.at # "failed" =>
    \E G \in SUBSET walk.seen :
      FewAgain(walk.again + Cardinality(walk.seen \ G), G, rows[a.entity],
               a.offset + Cardinality(a.items), Shifts)

(* The rows it has gone past unread are no more than were deleted or       *)
(* moved; all it has not read are, once a page was short or reached the    *)
(* total.                                                                  *)
Reached(a) == IF a.at = "sent" THEN a.offset ELSE a.offset + Served(a)

MissedFew(a) ==
  (site.screen = "relations" \/ walk.first = 0) /\ a.at # "failed" =>
    /\ Cardinality(Skipped(rows[a.entity], walk.missing, Reached(a))) <= Losses
    /\ a.at \in {"listed", "ready"} /\ Cardinality(a.items) < Served(a) =>
         Cardinality(walk.missing) <= Losses
    /\ a.at = "ready" /\ a.total <= Reached(a) => Cardinality(walk.missing) <= Losses
    /\ a.at = "ready" /\ a.entity \in Plain => walk.missing = {}

(* The ceiling on the pages leaves a page for what is created.             *)
Ceiled(a) ==
  site.screen = "relations" /\ a.entity \in Paged =>
    /\ walk.pages > 0 =>
         \/ walk.most >= PageCap
         \/ Cardinality(rows[a.entity]) + walk.limit <= walk.most * walk.limit + walk.creates
    /\ a.at = "ready" /\ walk.pages = 0 =>
         Cardinality(rows[a.entity]) <= a.total + walk.creates

Walking ==
  site.screen # "admin" =>
    \A a \in asks : WalkShape(a) /\ ReadAgainFew(a) /\ MissedFew(a) /\ Ceiled(a)

WalkInv == Asked /\ OneAsk /\ Walking /\ RepeatsFew /\ MissesFew

(* The types of a request and of what it is about.                         *)
LEMMA AskFacts ==
  ASSUME TypeOK, NEW a \in asks
  PROVE  /\ site.room \in Nat /\ site.max \in Nat \ {0} /\ MaxOffset \in Nat
         /\ a.entity \in Entities /\ a.offset \in Nat /\ a.limit \in Nat \ {0}
         /\ a.items \in SUBSET (1 .. site.room) /\ a.total \in 0 .. site.room
         /\ a.at \in {"sent", "listed", "ready", "failed"} /\ a.torn \in BOOLEAN
         /\ rows[a.entity] \in SUBSET (1 .. site.room)
         /\ Served(a) \in Nat \ {0}
<1>1. a \in AskType /\ site \in Sites /\ rows \in [Entities -> SUBSET Ids]
  BY DEF TypeOK
<1>2. site.room \in Nat /\ site.max \in Nat \ {0} /\ MaxOffset \in Nat
  BY <1>1, ListsAssumption
<1>3. a.limit \in Nat \ {0}
  BY <1>1 DEF AskType
<1>4. QED
  BY <1>1, <1>2, <1>3 DEF AskType, Ids, Served, Least

LEMMA WalkFacts ==
  ASSUME TypeOK
  PROVE  /\ walk.limit \in Nat \ {0} /\ walk.first \in Nat /\ walk.pages \in Nat
         /\ walk.most \in Nat /\ walk.read \in Nat /\ walk.creates \in Nat
         /\ walk.deletes \in Nat /\ walk.moves \in Nat /\ walk.again \in Nat
         /\ Shifts \in Nat /\ Losses \in Nat
         /\ walk.seen \in SUBSET (1 .. site.room) /\ walk.missing \in SUBSET (1 .. site.room)
  BY DEF TypeOK, WalkType, Ids, Shifts, Losses

(* A list screen has no walk.                                              *)
LEMMA NoWalkInv ==
  ASSUME site.screen = "admin", walk = NoWalk
  PROVE  OneAsk /\ Walking /\ RepeatsFew /\ MissesFew
  BY DEF NoWalk, OneAsk, Walking, RepeatsFew, MissesFew

LEMMA NewAsk ==
  ASSUME NEW n, NEW e, NEW o, NEW l
  PROVE  LET a == Ask(n, e, o, l) IN
         /\ a.entity = e /\ a.offset = o /\ a.limit = l /\ a.at = "sent" /\ a.items = {}
         /\ AskShape(a) /\ EmptyBeyond(a)
  BY DEF Ask, AskShape, EmptyBeyond

LEMMA InitWalk == Init => WalkInv
<1> SUFFICES ASSUME Init PROVE WalkInv
  OBVIOUS
<1>1. TypeOK
  BY InitType
<1>2. Asked
  <2>1. \A a \in asks : \E n, e, o, l : a = Ask(n, e, o, l)
    BY DEF Init
  <2>2. QED
    BY <2>1, NewAsk DEF Asked
<1>3. CASE site.screen = "admin"
  <2>1. walk = NoWalk
    BY <1>3 DEF Init
  <2>2. QED
    BY <1>2, <1>3, <2>1, NoWalkInv DEF WalkInv
<1>4. CASE site.screen # "admin"
  <2>1. PICK e \in Entities, limit \in Nat \ {0}, offset \in Nat :
          /\ walk = NewWalk(e, limit, offset) /\ asks = {Ask(0, e, offset, limit)}
          /\ site.screen = "relations" => limit = site.max /\ offset = 0
          /\ site.screen = "api" => e \in Paged
          /\ site.screen \in {"relations", "api"}
    <3>1. CASE site.screen = "relations"
      <4>1. site.max \in Nat \ {0} /\ 0 \in Nat
        BY <1>1, ListsAssumption DEF TypeOK
      <4>2. QED
        BY <3>1, <4>1 DEF Init
    <3>2. CASE site.screen = "api"
      <4>1. PICK e \in Paged, limit \in Sizes, offset \in 0 .. MaxOffset :
              walk = NewWalk(e, limit, offset) /\ asks = {Ask(0, e, offset, limit)}
        BY <3>2 DEF Init
      <4>2. e \in Entities /\ limit \in Nat \ {0} /\ offset \in Nat
        BY ListsAssumption DEF Entities
      <4>3. QED
        BY <3>2, <4>1, <4>2
    <3>3. site.screen \in {"admin", "relations", "api"}
      BY <1>1, ListsAssumption DEF TypeOK
    <3>4. QED
      BY <1>4, <3>1, <3>2, <3>3
  <2> DEFINE a == Ask(0, e, offset, limit)
  <2>2. /\ asks = {a} /\ a.entity = e /\ a.offset = offset /\ a.limit = limit
        /\ a.at = "sent" /\ a.items = {}
    BY <2>1, NewAsk
  <2>3. /\ walk.at = "going" /\ walk.entity = e /\ walk.limit = limit /\ walk.first = offset
        /\ walk.pages = 0 /\ walk.read = 0 /\ walk.seen = {} /\ walk.missing = rows[e]
        /\ walk.again = 0 /\ walk.creates = 0 /\ walk.deletes = 0 /\ walk.moves = 0
        /\ Shifts = 0 /\ Losses = 0
    BY <2>1 DEF NewWalk, Shifts, Losses
  <2> HIDE DEF a
  <2>4. /\ site.room \in Nat /\ rows[e] \in SUBSET (1 .. site.room) /\ Served(a) \in Nat \ {0}
    BY <1>1, <2>2, AskFacts
  <2>5. Cardinality({}) = 0
    BY FS_EmptySet
  <2>6. WalkShape(a)
    <3>1. 0 = 0 * limit
      OBVIOUS
    <3>2. e \in Plain => e \notin Paged
      BY ListsAssumption
    <3>3. site.screen = "api" => Served(a) = Least(walk.limit, site.max)
      BY <2>2, <2>3 DEF Served
    <3>4. 0 % Served(a) = 0
      BY <2>4, GridStep, GridDivision
    <3>5. walk.read = walk.pages * walk.limit
      BY <2>3, <3>1
    <3>6. a.entity \in Plain => a.offset = 0
      BY <2>1, <2>2, <3>2
    <3>7. walk.first = 0 => a.offset % Served(a) = 0
      BY <2>2, <2>3, <3>4
    <3>8. QED
      BY <2>1, <2>2, <2>3, <3>3, <3>5, <3>6, <3>7 DEF WalkShape
  <2>7. ReadAgainFew(a)
    <3>1. Passed(rows[e], {}) = {} /\ walk.seen \ {} = {} /\ {} \in SUBSET walk.seen
      BY <2>3 DEF Passed
    <3>2. FewAgain(walk.again + Cardinality(walk.seen \ {}), {}, rows[a.entity],
                   a.offset + Cardinality(a.items), Shifts)
      <4>1. FewAgain(0 + 0, {}, rows[e], offset + 0, 0)
        BY <2>5, <3>1 DEF FewAgain
      <4>2. QED
        BY <2>2, <2>3, <2>5, <3>1, <4>1
    <3>3. QED
      BY <3>1, <3>2 DEF ReadAgainFew
  <2>8. MissedFew(a)
    <3>1. offset = 0 => Skipped(rows[e], walk.missing, Reached(a)) = {}
      <4>1. ASSUME NEW x PROVE ~(Rank(rows[e], x) < 0)
        <5>1. Rank(rows[e], x) \in Nat
          BY <2>4, RankType
        <5>2. QED
          BY <5>1
      <4>2. QED
        BY <2>2, <4>1 DEF Skipped, Reached
    <3>2. site.screen = "relations" \/ walk.first = 0 => offset = 0
      BY <2>1, <2>3
    <3>3. QED
      BY <2>2, <2>3, <2>5, <3>1, <3>2 DEF MissedFew
  <2>9. Ceiled(a)
    BY <2>2, <2>3 DEF Ceiled
  <2>10. RepeatsFew /\ MissesFew /\ OneAsk
    BY <1>4, <2>3, <2>5 DEF RepeatsFew, MissesFew, OneAsk
  <2>11. QED
    BY <1>2, <2>2, <2>6, <2>7, <2>8, <2>9, <2>10 DEF WalkInv, Walking
<1>5. QED
  BY <1>3, <1>4

(* The requests a step leaves alone keep their shape.                      *)
LEMMA AskedKeeps ==
  ASSUME Asked, site' = site, rows' = rows, NEW x \in asks
  PROVE  AskShape(x)' /\ EmptyBeyond(x)'
  BY DEF Asked, AskShape, EmptyBeyond, Served

(* What an answer of the server to one request must keep.                  *)
LEMMA ServedWalk ==
  ASSUME WalkInv, NEW a \in asks, NEW b, asks' = (asks \ {a}) \cup {b},
         site' = site, rows' = rows, walk'.at = walk.at, RepeatsFew', MissesFew',
         site.screen = "admin" => walk' = walk,
         (AskShape(b) /\ EmptyBeyond(b))',
         site.screen # "admin" =>
           (WalkShape(b) /\ ReadAgainFew(b) /\ MissedFew(b) /\ Ceiled(b))'
  PROVE  WalkInv'
<1>1. Asked'
  BY AskedKeeps DEF WalkInv, Asked
<1>2. site.screen # "admin" => asks = {a} /\ walk.at = "going"
  BY DEF WalkInv, Walking, WalkShape
<1>3. OneAsk'
  BY <1>2 DEF WalkInv, OneAsk
<1>4. Walking'
  <2> SUFFICES ASSUME site.screen # "admin", NEW x \in asks'
               PROVE  (WalkShape(x) /\ ReadAgainFew(x) /\ MissedFew(x) /\ Ceiled(x))'
    BY DEF Walking
  <2>1. x = b
    BY <1>2
  <2>2. QED
    BY <2>1
<1>5. QED
  BY <1>1, <1>3, <1>4 DEF WalkInv

LEMMA AnswerWalk ==
  ASSUME WalkInv, NEW a \in asks, NEW b, asks' = (asks \ {a}) \cup {b},
         site' = site, rows' = rows, walk' = walk,
         (AskShape(b) /\ EmptyBeyond(b))',
         site.screen # "admin" =>
           (WalkShape(b) /\ ReadAgainFew(b) /\ MissedFew(b) /\ Ceiled(b))'
  PROVE  WalkInv'
<1>1. RepeatsFew' /\ MissesFew'
  BY DEF WalkInv, RepeatsFew, MissesFew, Tolerated
<1>2. QED
  BY <1>1, ServedWalk

LEMMA ListWalk ==
  ASSUME TypeOK, WalkInv, NEW a \in asks, List(a)
  PROVE  WalkInv'
<1> DEFINE S == rows[a.entity]
           l == Served(a)
           o == a.offset
<1>1. /\ site' = site /\ rows' = rows /\ a.at = "sent" /\ a.items = {}
      /\ a.entity \in Paged => o <= MaxOffset
  BY DEF List, WalkInv, Asked, AskShape
<1>2. /\ site.room \in Nat /\ S \in SUBSET (1 .. site.room) /\ l \in Nat \ {0} /\ o \in Nat
      /\ a.entity \in Entities /\ (a.entity \in Plain <=> a.entity \notin Paged)
  BY AskFacts, ListsAssumption DEF Entities
<1>3. Cardinality(Page(S, o, l)) \in Nat /\ Cardinality(Page(S, o, l)) <= l
      /\ Cardinality(S) \in Nat
  BY <1>2, PageSize, Finite
<1>4. PICK b : b = [a EXCEPT !.at = IF a.entity \in Paged THEN "listed" ELSE "ready",
                            !.items = Contents(a)]
  OBVIOUS
<1>40. asks' = (asks \ {a}) \cup {b}
  BY <1>4 DEF List
<1>41. /\ b.entity = a.entity /\ b.offset = o /\ b.limit = a.limit /\ b.torn = a.torn
       /\ b.total = a.total /\ b.items = Contents(a)
       /\ a.entity \in Paged => b.at = "listed" /\ b.items = Page(S, o, l)
       /\ a.entity \in Plain => b.at = "ready" /\ b.items = S
  <2>1. a \in AskType
    BY DEF TypeOK
  <2>2. QED
    BY <1>2, <1>4, <2>1 DEF AskType, Contents
<1>5. Served(b)' = l /\ rows'[b.entity] = S
  BY <1>1, <1>41 DEF Served
<1> HIDE DEF S, l, o
<1>6. AskShape(b)'
  BY <1>1, <1>2, <1>3, <1>41, <1>5 DEF AskShape
<1>7. EmptyBeyond(b)'
  <2>1. ASSUME a.entity \in Paged, b.items = {} PROVE Cardinality(S) <= o
    <3>1. Cardinality(Page(S, o, l)) = 0
      BY <1>41, <2>1, FS_EmptySet
    <3>2. l \in Nat /\ Cardinality(Page(S, o, l)) < l
      BY <1>2, <3>1
    <3>3. Cardinality(S) <= o + Cardinality(Page(S, o, l))
      BY <1>2, <3>2, ShortPage
    <3>4. QED
      BY <1>2, <1>3, <3>1, <3>3
  <2>2. QED
    BY <1>41, <1>5, <2>1 DEF EmptyBeyond
<1>8. ASSUME site.screen # "admin"
      PROVE  (WalkShape(b) /\ ReadAgainFew(b) /\ MissedFew(b) /\ Ceiled(b) /\ RepeatsFew)'
  <2>1. WalkShape(a) /\ ReadAgainFew(a) /\ MissedFew(a) /\ Ceiled(a)
    BY <1>8 DEF WalkInv, Walking
  <2> DEFINE P == b.items
             again == Cardinality(P \cap walk.seen)
             T == walk.missing
  <2>2. /\ walk.seen \in SUBSET (1 .. site.room) /\ walk.read \in Nat /\ walk.again \in Nat
        /\ Shifts \in Nat /\ Losses \in Nat /\ asks = {a} /\ walk.at = "going"
        /\ walk.seen \subseteq S /\ T \in SUBSET S
        /\ a.entity \in Plain => o = 0 /\ walk.read = 0
    BY <2>1, WalkFacts DEF WalkShape, S, o
  <2>3. /\ walk'.at = walk.at /\ walk'.entity = walk.entity /\ walk'.limit = walk.limit
        /\ walk'.first = walk.first /\ walk'.pages = walk.pages /\ walk'.most = walk.most
        /\ walk'.read = walk.read /\ walk'.creates = walk.creates
        /\ walk'.deletes = walk.deletes /\ walk'.moves = walk.moves
        /\ walk'.again = walk.again + again /\ walk'.seen = walk.seen \cup P
        /\ walk'.missing = T \ P /\ Shifts' = Shifts /\ Losses' = Losses
    <3>1. walk' = [walk EXCEPT !.again = @ + Cardinality(Contents(a) \cap walk.seen),
                               !.seen = @ \cup Contents(a), !.missing = @ \ Contents(a)]
      BY <2>2 DEF List
    <3>2. walk \in WalkType
      BY DEF TypeOK
    <3>3. QED
      BY <1>41, <3>1, <3>2 DEF WalkType, Shifts, Losses
  <2>4. PageFrom(P, S, o)
    <3>1. CASE a.entity \in Paged
      <4>1. l \in Nat /\ b.items = Page(S, o, l)
        BY <1>2, <1>41, <3>1
      <4>2. PageFrom(Page(S, o, l), S, o)
        BY <1>2, <4>1, PageIsFrom
      <4>3. QED
        BY <4>1, <4>2
    <3>2. CASE a.entity \in Plain
      <4>1. o = 0 /\ b.items = S
        BY <1>41, <2>2, <3>2
      <4>2. PageFrom(S, S, 0)
        BY <1>2, WholeIsFrom
      <4>3. QED
        BY <4>1, <4>2
    <3>3. QED
      BY <1>2, <3>1, <3>2
  <2>5. P \in SUBSET S /\ Cardinality(P) \in Nat
    BY <1>2, <2>4, Finite DEF PageFrom
  <2>6. Cardinality(a.items) = 0 /\ Reached(a) = o /\ Reached(b)' = o + l
    BY <1>1, <1>2, <1>41, <1>5, FS_EmptySet DEF Reached, o
  <2>7. WalkShape(b)'
    BY <1>1, <1>40, <1>41, <1>5, <2>1, <2>2, <2>3, <2>5 DEF WalkShape, l, S, o
  <2>8. PICK G \in SUBSET walk.seen :
          FewAgain(walk.again + Cardinality(walk.seen \ G), G, S, o, Shifts)
    <3>1. \E G \in SUBSET walk.seen :
            FewAgain(walk.again + Cardinality(walk.seen \ G), G, S, o + 0, Shifts)
      BY <1>1, <2>1, <2>6 DEF ReadAgainFew, S, o
    <3>2. o + 0 = o
      BY <1>2
    <3>3. QED
      BY <3>1, <3>2
  <2> DEFINE stray == walk.seen \ G
             r     == walk.again + Cardinality(stray)
             H     == G \cup P
  <2>9. /\ G \in SUBSET (1 .. site.room) /\ Cardinality(stray) \in Nat /\ r \in Nat
        /\ Cardinality(stray \ P) \in Nat
        /\ Cardinality(P \cap G) \in Nat /\ again \in Nat
        /\ again + Cardinality(stray \ P) = Cardinality(P \cap G) + Cardinality(stray)
    <3>1. /\ stray \in SUBSET (1 .. site.room) /\ stray \ P \in SUBSET (1 .. site.room)
          /\ stray \cap P \in SUBSET (1 .. site.room) /\ P \cap G \in SUBSET (1 .. site.room)
          /\ P \cap walk.seen \in SUBSET (1 .. site.room)
      BY <2>2, <2>8
    <3>2. /\ Cardinality(stray) \in Nat /\ Cardinality(stray \ P) \in Nat
          /\ Cardinality(stray \cap P) \in Nat /\ Cardinality(P \cap G) \in Nat /\ again \in Nat
      BY <1>2, <3>1, Finite
    <3>3. P \cap walk.seen = (P \cap G) \cup (stray \cap P) /\ (P \cap G) \cap (stray \cap P) = {}
      BY <2>8
    <3>4. stray = (stray \ P) \cup (stray \cap P) /\ (stray \ P) \cap (stray \cap P) = {}
      OBVIOUS
    <3> HIDE DEF stray
    <3>6. Cardinality(P \cap walk.seen) = Cardinality(P \cap G) + Cardinality(stray \cap P)
      <4> DEFINE X == P \cap G
                 Y == stray \cap P
      <4>0. X \in SUBSET (1 .. site.room) /\ Y \in SUBSET (1 .. site.room) /\ X \cap Y = {}
        BY <3>1, <3>3
      <4> HIDE DEF X, Y
      <4>1. Cardinality(X \cup Y) = Cardinality(X) + Cardinality(Y)
        BY <1>2, <4>0, SplitSize
      <4>2. QED
        BY <3>3, <4>1 DEF X, Y
    <3>7. Cardinality(stray) = Cardinality(stray \ P) + Cardinality(stray \cap P)
      <4> DEFINE X == stray \ P
                 Y == stray \cap P
      <4>0. X \in SUBSET (1 .. site.room) /\ Y \in SUBSET (1 .. site.room) /\ X \cap Y = {}
        BY <3>1, <3>4
      <4> HIDE DEF X, Y
      <4>1. Cardinality(X \cup Y) = Cardinality(X) + Cardinality(Y)
        BY <1>2, <4>0, SplitSize
      <4>2. QED
        BY <3>4, <4>1 DEF X, Y
    <3>8. r \in Nat
      BY <2>2, <3>2
    <3>9. QED
      BY <2>2, <2>8, <3>2, <3>6, <3>7, <3>8
  <2>10. FewAgain(walk'.again + Cardinality(walk'.seen \ H), H, S, o + Cardinality(P), Shifts)
    <3>1. FewAgain(r + Cardinality(P \cap G), H, S, o + Cardinality(P), Shifts)
      <4> HIDE DEF r
      <4>1. FewAgain(r, G, S, o, Shifts)
        BY <2>8 DEF r
      <4>2. QED
        BY <1>2, <2>2, <2>4, <2>9, <4>1, FewAgainPage
    <3>2. walk'.seen \ H = stray \ P
      BY <2>3
    <3>3. walk'.again + Cardinality(stray \ P) = r + Cardinality(P \cap G)
      <4> HIDE DEF stray, again
      <4>1. QED
        BY <2>2, <2>3, <2>9
    <3>4. QED
      BY <3>1, <3>2, <3>3
  <2> HIDE DEF stray, r, H, again, P, T
  <2>11. H \in SUBSET walk'.seen
    BY <2>3, <2>8 DEF H
  <2>12. ReadAgainFew(b)'
    BY <1>1, <1>41, <1>5, <2>3, <2>10, <2>11 DEF ReadAgainFew, P
  <2>13. RepeatsFew'
    <3>1. walk'.again + Cardinality(walk'.seen \ H) <= Shifts
      BY <2>10 DEF FewAgain
    <3>2. Cardinality(walk'.seen \ H) \in Nat /\ walk'.again \in Nat
      <4>1. walk'.seen \ H = stray \ P
        BY <2>3 DEF stray, H
      <4>2. walk'.again = walk.again + again /\ again \in Nat /\ walk.again \in Nat
        BY <2>2, <2>3, <2>9
      <4>3. walk'.again \in Nat
        BY <4>2
      <4>4. Cardinality(stray \ P) \in Nat
        BY <2>9
      <4>5. QED
        BY <4>1, <4>3, <4>4
    <3>3. walk'.again <= Shifts
      BY <2>2, <3>1, <3>2
    <3>4. QED
      BY <2>3, <3>3 DEF RepeatsFew, Shifts
  <2>14. MissedFew(b)'
    <3> SUFFICES ASSUME site.screen = "relations" \/ walk.first = 0
                 PROVE  /\ Cardinality(Skipped(S, T \ P, o + l)) <= Losses
                        /\ b.at \in {"listed", "ready"} /\ Cardinality(P) < l =>
                             Cardinality(T \ P) <= Losses
                        /\ b.at = "ready" => Cardinality(T \ P) <= Losses
                        /\ b.at = "ready" /\ b.entity \in Plain => T \ P = {}
      BY <1>1, <1>5, <2>3, <2>6 DEF MissedFew, P
    <3>1. Cardinality(Skipped(S, T, o)) <= Losses
      BY <1>1, <2>1, <2>6 DEF MissedFew, S, o, T
    <3>2. CASE a.entity \in Paged
      <4>0. P = Page(S, o, l)
        BY <1>41, <3>2 DEF P
      <4>1. Cardinality(Skipped(S, T \ P, o + l)) <= Cardinality(Skipped(S, T, o))
        BY <1>2, <2>2, <4>0, SkippedPage DEF T
      <4>2. /\ Skipped(S, T \ P, o + l) \in SUBSET (1 .. site.room)
            /\ Skipped(S, T, o) \in SUBSET (1 .. site.room)
        BY <1>2, <2>2 DEF Skipped, T
      <4>3. /\ Cardinality(Skipped(S, T \ P, o + l)) \in Nat
            /\ Cardinality(Skipped(S, T, o)) \in Nat
        BY <1>2, <4>2, Finite
      <4>4. Cardinality(Skipped(S, T \ P, o + l)) <= Losses
        BY <2>2, <3>1, <4>1, <4>3
      <4>5. ASSUME Cardinality(P) < l PROVE Cardinality(T \ P) <= Losses
        <5>1. Cardinality(S) <= o + Cardinality(P)
          BY <1>2, <4>0, <4>5, ShortPage
        <5>2. Cardinality(S) <= o + l
          BY <1>2, <1>3, <2>5, <4>5, <5>1 DEF P
        <5>3. Skipped(S, T \ P, o + l) = T \ P
          <6>1. T \ P \in SUBSET S /\ o + l \in Nat
            BY <1>2, <2>2 DEF T
          <6>2. QED
            BY <1>2, <5>2, <6>1, SkippedAll
        <5>4. QED
          BY <4>4, <5>3
      <4>6. b.at = "listed" /\ b.entity \notin Plain
        BY <1>2, <1>41, <3>2
      <4>7. QED
        BY <4>4, <4>5, <4>6
    <3>3. CASE a.entity \in Plain
      <4>1. T \ P = {} /\ Skipped(S, T \ P, o + l) = {}
        BY <1>41, <2>2, <3>3 DEF Skipped, T, P
      <4>2. Cardinality({}) <= Losses
        BY <2>2, FS_EmptySet
      <4>3. QED
        BY <4>1, <4>2
    <3>4. QED
      BY <1>2, <3>2, <3>3
  <2>15. Ceiled(b)'
    BY <1>1, <1>2, <1>41, <1>5, <2>1, <2>3 DEF Ceiled, S
  <2>16. QED
    BY <2>7, <2>12, <2>13, <2>14, <2>15
<1>9. walk'.at = walk.at /\ (site.screen = "admin" => walk' = walk)
  <2>1. site.screen = "admin" => walk.at # "going"
    BY DEF WalkInv, OneAsk, NoWalk
  <2>2. walk \in WalkType
    BY DEF TypeOK
  <2>3. QED
    BY <2>1, <2>2 DEF List, WalkType
<1>10. RepeatsFew' /\ MissesFew'
  <2>1. CASE site.screen = "admin"
    <3>1. walk'.at = "none"
      BY <1>9, <2>1 DEF WalkInv, OneAsk, NoWalk
    <3>2. QED
      BY <1>9, <2>1, <3>1 DEF WalkInv, RepeatsFew, MissesFew
  <2>2. CASE site.screen # "admin"
    <3>1. walk'.at = "going"
      BY <1>9, <2>2 DEF WalkInv, Walking, WalkShape
    <3>2. QED
      BY <1>8, <2>2, <3>1 DEF MissesFew
  <2>3. QED
    BY <2>1, <2>2
<1>11. QED
  BY <1>1, <1>40, <1>6, <1>7, <1>8, <1>9, <1>10, ServedWalk

LEMMA CountWalk ==
  ASSUME TypeOK, WalkInv, NEW a \in asks, Count(a)
  PROVE  WalkInv'
<1> DEFINE S == rows[a.entity]
           l == Served(a)
<1>0. PICK b : b = [a EXCEPT !.at = "ready", !.total = Cardinality(S)]
  OBVIOUS
<1>1. /\ site' = site /\ rows' = rows /\ walk' = walk /\ a.at = "listed"
      /\ asks' = (asks \ {a}) \cup {b}
  BY <1>0 DEF Count
<1>2. /\ site.room \in Nat /\ S \in SUBSET (1 .. site.room) /\ l \in Nat \ {0} /\ a.offset \in Nat
      /\ a.items \in SUBSET (1 .. site.room)
      /\ a.entity \in Entities /\ (a.entity \in Plain <=> a.entity \notin Paged)
  BY AskFacts, ListsAssumption DEF Entities
<1>3. /\ b.entity = a.entity /\ b.offset = a.offset /\ b.limit = a.limit /\ b.torn = a.torn
      /\ b.items = a.items /\ b.at = "ready" /\ b.total = Cardinality(S)
  <2>1. a \in AskType
    BY DEF TypeOK
  <2>2. QED
    BY <1>0, <2>1 DEF AskType
<1>4. AskShape(a) /\ EmptyBeyond(a) /\ a.entity \in Paged
  BY <1>1 DEF WalkInv, Asked, AskShape
<1>5. Served(b)' = l /\ rows'[b.entity] = S
  BY <1>1, <1>3 DEF Served
<1>6. AskShape(b)'
  BY <1>1, <1>3, <1>4, <1>5 DEF AskShape
<1>7. EmptyBeyond(b)'
  BY <1>1, <1>3, <1>4, <1>5 DEF EmptyBeyond
<1>8. ASSUME site.screen # "admin"
      PROVE  (WalkShape(b) /\ ReadAgainFew(b) /\ MissedFew(b) /\ Ceiled(b))'
  <2>1. WalkShape(a) /\ ReadAgainFew(a) /\ MissedFew(a)
    BY <1>8 DEF WalkInv, Walking
  <2>2. asks = {a} /\ walk.missing \in SUBSET S /\ Losses \in Nat /\ walk.creates \in Nat
    BY <2>1, WalkFacts DEF WalkShape
  <2>3. Shifts' = Shifts /\ Losses' = Losses
    BY <1>1 DEF Shifts, Losses
  <2>4. Reached(a) = a.offset + l /\ Reached(b)' = a.offset + l
    BY <1>1, <1>3, <1>5 DEF Reached
  <2> DEFINE T == walk.missing
  <2> HIDE DEF T, S, l
  <2>5. WalkShape(b)'
    BY <1>1, <1>3, <1>5, <2>1, <2>2 DEF WalkShape, S, l
  <2>6. ReadAgainFew(b)'
    BY <1>1, <1>3, <1>5, <2>1, <2>3 DEF ReadAgainFew, S
  <2>7. MissedFew(b)'
    <3> SUFFICES ASSUME site.screen = "relations" \/ walk.first = 0
                 PROVE  /\ Cardinality(Skipped(S, T, a.offset + l)) <= Losses
                        /\ Cardinality(a.items) < l => Cardinality(T) <= Losses
                        /\ Cardinality(S) <= a.offset + l => Cardinality(T) <= Losses
                        /\ b.entity \in Plain => T = {}
      BY <1>1, <1>3, <1>5, <2>3, <2>4 DEF MissedFew, T
    <3>1. /\ Cardinality(Skipped(S, T, a.offset + l)) <= Losses
          /\ Cardinality(a.items) < l => Cardinality(T) <= Losses
      BY <1>1, <2>1, <2>4 DEF MissedFew, S, T, l
    <3>2. ASSUME Cardinality(S) <= a.offset + l PROVE Cardinality(T) <= Losses
      <4>1. T \in SUBSET S /\ a.offset + l \in Nat
        BY <1>2, <2>2 DEF T
      <4>2. Skipped(S, T, a.offset + l) = T
        BY <1>2, <3>2, <4>1, SkippedAll
      <4>3. QED
        BY <3>1, <4>2
    <3>3. QED
      BY <1>2, <1>3, <1>4, <3>1, <3>2
  <2>8. Ceiled(b)'
    <3>1. Cardinality(S) \in Nat
      BY <1>2, Finite
    <3>2. Cardinality(S) <= b.total + walk.creates
      BY <1>3, <2>2, <3>1
    <3>3. Ceiled(a)
      BY <1>8 DEF WalkInv, Walking
    <3>4. QED
      BY <1>1, <1>3, <1>5, <3>2, <3>3 DEF Ceiled, S
  <2>9. QED
    BY <2>5, <2>6, <2>7, <2>8
<1>9. QED
  BY <1>1, <1>6, <1>7, <1>8, AnswerWalk

LEMMA FailWalk ==
  ASSUME TypeOK, WalkInv, NEW a \in asks, Fail(a)
  PROVE  WalkInv'
<1> DEFINE b == [a EXCEPT !.at = "failed", !.items = {}]
<1>1. /\ site' = site /\ rows' = rows /\ walk' = walk /\ asks' = (asks \ {a}) \cup {b}
  BY DEF Fail
<1>2. /\ b.entity = a.entity /\ b.offset = a.offset /\ b.limit = a.limit
      /\ b.items = {} /\ b.at = "failed"
  <2>1. a \in AskType
    BY DEF TypeOK
  <2>2. QED
    BY <2>1 DEF AskType
<1>3. Served(b)' = Served(a)
  BY <1>1, <1>2 DEF Served
<1> HIDE DEF b
<1>4. AskShape(b)' /\ EmptyBeyond(b)'
  BY <1>2 DEF AskShape, EmptyBeyond
<1>5. ASSUME site.screen # "admin"
      PROVE  (WalkShape(b) /\ ReadAgainFew(b) /\ MissedFew(b) /\ Ceiled(b))'
  <2>1. WalkShape(a) /\ Ceiled(a)
    BY <1>5 DEF WalkInv, Walking
  <2>2. asks = {a}
    BY <2>1 DEF WalkShape
  <2>3. WalkShape(b)'
    BY <1>1, <1>2, <1>3, <2>1, <2>2 DEF WalkShape
  <2>4. ReadAgainFew(b)' /\ MissedFew(b)'
    BY <1>2 DEF ReadAgainFew, MissedFew
  <2>5. Ceiled(b)'
    BY <1>1, <1>2, <2>1 DEF Ceiled
  <2>6. QED
    BY <2>3, <2>4, <2>5
<1>6. QED
  BY <1>1, <1>4, <1>5, AnswerWalk

LEMMA NoWalkKept ==
  ASSUME WalkInv, site.screen = "admin", site' = site, walk' = walk, Asked'
  PROVE  WalkInv'
<1>1. walk' = NoWalk /\ site'.screen = "admin"
  BY DEF WalkInv, OneAsk
<1>2. walk'.at = "none" /\ walk'.again = 0 /\ walk'.creates = 0 /\ walk'.moves = 0
  BY <1>1 DEF NoWalk
<1>3. QED
  BY <1>1, <1>2 DEF WalkInv, OneAsk, Walking, RepeatsFew, MissesFew

(* What a list screen asks for has read nothing.                           *)
LEMMA ScreenWalk ==
  ASSUME WalkInv, site.screen = "admin", site' = site, walk' = walk, rows' = rows,
         \A x \in asks' : x \in asks \/ \E n, e, o, l : x = Ask(n, e, o, l)
  PROVE  WalkInv'
<1>1. Asked'
  <2> SUFFICES ASSUME NEW x \in asks' PROVE AskShape(x)' /\ EmptyBeyond(x)'
    BY DEF Asked
  <2>1. CASE x \in asks
    BY <2>1, AskedKeeps DEF WalkInv
  <2>2. CASE \E n, e, o, l : x = Ask(n, e, o, l)
    <3>1. x.at = "sent" /\ x.items = {}
      BY <2>2, NewAsk
    <3>2. QED
      BY <3>1 DEF AskShape, EmptyBeyond
  <2>3. QED
    BY <2>1, <2>2
<1>2. QED
  BY <1>1, NoWalkKept

(* What a fetch of the screen leaves in flight.                            *)
LEMMA FetchAsks ==
  ASSUME NEW v, NEW inFlight, inFlight \subseteq asks, FetchList(v, inFlight)
  PROVE  \A x \in asks' : x \in asks \/ \E n, e, o, l : x = Ask(n, e, o, l)
  BY DEF FetchList

LEMMA ActsWalk ==
  ASSUME WalkInv, NEW v, Acts(v)
  PROVE  WalkInv'
<1>1. /\ site.screen = "admin" /\ site' = site /\ walk' = walk /\ rows' = rows
      /\ FetchList(v, asks)
  BY DEF Acts
<1>2. \A x \in asks' : x \in asks \/ \E n, e, o, l : x = Ask(n, e, o, l)
  BY <1>1, FetchAsks
<1>3. QED
  BY <1>1, <1>2, ScreenWalk

LEMMA ShownWalk ==
  ASSUME WalkInv, NEW a \in asks, Drop(a) \/ Clamp(a) \/ Show(a) \/ ShowError(a)
  PROVE  WalkInv'
<1>1. site.screen = "admin" /\ site' = site /\ walk' = walk /\ rows' = rows
  BY DEF Drop, Clamp, Show, ShowError, Latest
<1>2. CASE Clamp(a)
  <2>1. FetchList([view EXCEPT !.page = TotalPages(a.total, view.limit)], asks \ {a})
    BY <1>2 DEF Clamp
  <2>2. \A x \in asks' : x \in asks \/ \E n, e, o, l : x = Ask(n, e, o, l)
    BY <2>1, FetchAsks
  <2>3. QED
    BY <1>1, <2>2, ScreenWalk
<1>3. CASE Drop(a) \/ Show(a) \/ ShowError(a)
  <2>1. asks' = asks \ {a}
    BY <1>3 DEF Drop, Show, ShowError
  <2>2. QED
    BY <1>1, <2>1, ScreenWalk
<1>4. QED
  BY <1>2, <1>3

LEMMA WalkFailsWalk ==
  ASSUME TypeOK, WalkInv, NEW a \in asks, WalkFails(a)
  PROVE  WalkInv'
<1>1. /\ site.screen # "admin" /\ site' = site /\ rows' = rows /\ asks' = asks \ {a}
      /\ walk' = [walk EXCEPT !.at = "failed"]
  BY DEF WalkFails
<1>2. asks = {a}
  BY <1>1 DEF WalkInv, Walking, WalkShape
<1>3. asks' = {}
  BY <1>1, <1>2
<1>4. walk'.at = "failed" /\ walk'.again = walk.again /\ walk'.creates = walk.creates
      /\ walk'.moves = walk.moves
  BY <1>1 DEF TypeOK, WalkType
<1>5. QED
  BY <1>1, <1>3, <1>4
     DEF WalkInv, Asked, OneAsk, Walking, RepeatsFew, MissesFew

(* What a write of a list must keep of the walk over it.                   *)
SameAsk(x, a) ==
  /\ x.entity = a.entity /\ x.offset = a.offset /\ x.limit = a.limit
  /\ x.at = a.at /\ x.items = a.items /\ x.total = a.total

SameWalk ==
  /\ walk'.at = walk.at /\ walk'.entity = walk.entity /\ walk'.limit = walk.limit
  /\ walk'.first = walk.first /\ walk'.pages = walk.pages /\ walk'.most = walk.most
  /\ walk'.read = walk.read /\ walk'.again = walk.again
  /\ walk'.creates \in Nat /\ Shifts' \in Nat /\ Shifts <= Shifts'

KeepsAgain(S, R) ==
  \A G \in SUBSET walk.seen, o \in Nat :
    FewAgain(walk.again + Cardinality(walk.seen \ G), G, S, o, Shifts) =>
      \E H \in SUBSET walk'.seen :
        FewAgain(walk.again + Cardinality(walk'.seen \ H), H, R, o, Shifts')

KeepsMissing(S, R) ==
  /\ \A o \in Nat : Cardinality(Skipped(S, walk.missing, o)) <= Losses =>
                      Cardinality(Skipped(R, walk'.missing, o)) <= Losses'
  /\ Cardinality(walk.missing) <= Losses => Cardinality(walk'.missing) <= Losses'
  /\ walk.missing = {} => walk'.missing = {}

Keeps(S, R) ==
  /\ walk'.seen \subseteq R /\ walk'.missing \subseteq R
  /\ KeepsAgain(S, R) /\ KeepsMissing(S, R)
  /\ Cardinality(R) \in Nat /\ Cardinality(R) + walk.creates <= Cardinality(S) + walk'.creates

LEMMA WrittenWalk ==
  ASSUME TypeOK, WalkInv, NEW e \in Entities, NEW R, Asked',
         site' = site, rows' = [rows EXCEPT ![e] = R],
         \A x \in asks' : \E a \in asks : SameAsk(x, a),
         \A a : asks = {a} => \E x : asks' = {x},
         ~Walks(e) => walk' = walk,
         Walks(e) => SameWalk,
         Walks(e) /\ asks # {} => Keeps(rows[e], R)
  PROVE  WalkInv'
<1>1. site.screen = "admin" => walk.at = "none"
  BY DEF WalkInv, OneAsk, NoWalk
<1>2. CASE site.screen = "admin"
  <2>1. walk' = walk
    BY <1>1, <1>2 DEF Walks
  <2>2. QED
    BY <1>2, <2>1, NoWalkKept
<1>3. CASE site.screen # "admin" /\ walk.at # "going"
  <2>1. walk' = walk /\ asks = {}
    BY <1>3 DEF Walks, WalkInv, OneAsk
  <2>2. asks' = {}
    BY <2>1
  <2>3. QED
    BY <1>3, <2>1, <2>2 DEF WalkInv, OneAsk, Walking, RepeatsFew, MissesFew, Tolerated
<1>4. CASE site.screen # "admin" /\ walk.at = "going"
  <2>1. ~Walks(e) => SameWalk /\ walk' = walk /\ walk.entity # e
    <3> SUFFICES ASSUME ~Walks(e) PROVE SameWalk /\ walk' = walk /\ walk.entity # e
      OBVIOUS
    <3>1. walk' = walk /\ walk.entity # e
      BY <1>4 DEF Walks
    <3>2. Shifts' = Shifts
      BY <3>1 DEF Shifts
    <3>3. QED
      BY <3>1, <3>2, WalkFacts DEF SameWalk
  <2>2. SameWalk
    BY <2>1
  <2>3. OneAsk'
    BY <1>4, <2>2 DEF OneAsk, SameWalk
  <2>4. MissesFew'
    BY <1>4, <2>2 DEF MissesFew, SameWalk
  <2>5. RepeatsFew'
    <3>1. walk.again <= Shifts /\ walk.again \in Nat /\ Shifts \in Nat
      BY WalkFacts DEF WalkInv, RepeatsFew, Shifts
    <3>2. Shifts' \in Nat /\ Shifts <= Shifts'
      BY <2>2 DEF SameWalk
    <3>3. walk.again <= Shifts'
      BY <3>1, <3>2
    <3>4. QED
      BY <2>2, <3>3 DEF RepeatsFew, Shifts, SameWalk
  <2>6. Walking'
    <3> SUFFICES ASSUME NEW x \in asks'
                 PROVE  (WalkShape(x) /\ ReadAgainFew(x) /\ MissedFew(x) /\ Ceiled(x))'
      BY DEF Walking
    <3>1. PICK a \in asks : SameAsk(x, a)
      OBVIOUS
    <3>2. WalkShape(a) /\ ReadAgainFew(a) /\ MissedFew(a) /\ Ceiled(a)
      BY <1>4 DEF WalkInv, Walking
    <3>3. asks = {a} /\ a.entity = walk.entity
      BY <3>2 DEF WalkShape
    <3>4. x.entity = a.entity /\ x.offset = a.offset /\ x.at = a.at /\ x.items = a.items
      BY <3>1 DEF SameAsk
    <3> DEFINE S == rows[a.entity]
               Q == rows'[a.entity]
    <3>5. Walks(e) => a.entity = e /\ Q = R /\ S = rows[e]
      BY <3>3 DEF Walks, TypeOK
    <3>6. ~Walks(e) => Q = S
      BY <2>1, <3>3, AskFacts DEF TypeOK
    <3>7. /\ site.room \in Nat /\ S \in SUBSET (1 .. site.room) /\ a.offset \in Nat
          /\ Served(a) \in Nat \ {0} /\ Cardinality(a.items) \in Nat
          /\ Served(x)' = Served(a) /\ Reached(x)' = Reached(a) /\ Reached(a) \in Nat
      <4>1. Served(x)' = Served(a)
        BY <3>1 DEF SameAsk, Served
      <4>2. /\ site.room \in Nat /\ S \in SUBSET (1 .. site.room) /\ a.offset \in Nat
            /\ Served(a) \in Nat \ {0} /\ a.items \in SUBSET (1 .. site.room)
        BY AskFacts
      <4>3. Cardinality(a.items) \in Nat
        BY <4>2, Finite
      <4>4. Reached(x)' = Reached(a)
        BY <3>4, <4>1 DEF Reached
      <4>5. Reached(a) \in Nat
        BY <4>2 DEF Reached
      <4>6. QED
        BY <4>1, <4>2, <4>3, <4>4, <4>5
    <3>8. Cardinality(S) \in Nat
      BY <3>7, Finite
    <3>9. walk.creates \in Nat /\ walk.limit \in Nat /\ walk.most \in Nat /\ Shifts \in Nat
          /\ a.total \in Nat
      BY WalkFacts, AskFacts
    <3>10. Keeps(S, Q)
      <4>1. CASE Walks(e)
        BY <3>3, <3>5, <4>1
      <4>2. CASE ~Walks(e)
        <5>1. walk' = walk /\ Q = S
          BY <2>1, <3>6, <4>2
        <5>2. Shifts' = Shifts /\ Losses' = Losses
          BY <5>1 DEF Shifts, Losses
        <5>3. walk.seen \subseteq S /\ walk.missing \subseteq S
          BY <3>2 DEF WalkShape
        <5>4. KeepsAgain(S, Q) /\ KeepsMissing(S, Q)
          BY <5>1, <5>2 DEF KeepsAgain, KeepsMissing
        <5>5. QED
          BY <3>8, <3>9, <5>1, <5>3, <5>4 DEF Keeps
      <4>3. QED
        BY <4>1, <4>2
    <3>11. Q = rows'[x.entity]
      BY <3>4
    <3> HIDE DEF S, Q
    <3>12. asks' = {x}
      BY <3>3
    <3>13. WalkShape(x)'
      <4>1. walk'.seen \subseteq Q /\ walk'.missing \subseteq Q
        BY <3>10 DEF Keeps
      <4>2. QED
        BY <1>4, <2>2, <3>1, <3>2, <3>3, <3>7, <3>11, <3>12, <4>1 DEF WalkShape, SameAsk, SameWalk
    <3>14. ReadAgainFew(x)'
      <4> SUFFICES ASSUME a.at # "failed"
                   PROVE  \E H \in SUBSET walk'.seen :
                            FewAgain(walk.again + Cardinality(walk'.seen \ H), H, Q,
                                     a.offset + Cardinality(a.items), Shifts')
        BY <2>2, <3>4, <3>11 DEF ReadAgainFew, SameWalk
      <4>1. PICK G \in SUBSET walk.seen :
              FewAgain(walk.again + Cardinality(walk.seen \ G), G, S,
                       a.offset + Cardinality(a.items), Shifts)
        BY <3>2 DEF ReadAgainFew, S
      <4>2. a.offset + Cardinality(a.items) \in Nat
        BY <3>7
      <4>3. QED
        BY <3>10, <4>1, <4>2 DEF Keeps, KeepsAgain
    <3>15. MissedFew(x)'
      <4>1. KeepsMissing(S, Q)
        BY <3>10 DEF Keeps
      <4>2. x.total = a.total
        BY <3>1 DEF SameAsk
      <4>3. QED
        BY <2>2, <3>2, <3>4, <3>7, <3>11, <4>1, <4>2 DEF MissedFew, KeepsMissing, SameWalk, S
    <3>16. Ceiled(x)'
      <4>1. /\ walk'.creates \in Nat /\ Cardinality(Q) \in Nat
            /\ Cardinality(Q) + walk.creates <= Cardinality(S) + walk'.creates
        BY <2>2, <3>10 DEF Keeps, SameWalk
      <4> DEFINE m == walk.most * walk.limit
      <4>2. m \in Nat
        BY <3>9
      <4> HIDE DEF m
      <4>3. /\ Cardinality(S) + walk.limit <= m + walk.creates =>
                 Cardinality(Q) + walk.limit <= m + walk'.creates
            /\ Cardinality(S) <= a.total + walk.creates => Cardinality(Q) <= a.total + walk'.creates
        BY <3>8, <3>9, <4>1, <4>2
      <4>4. x.total = a.total
        BY <3>1 DEF SameAsk
      <4>5. QED
        BY <2>2, <3>2, <3>4, <3>11, <4>3, <4>4 DEF Ceiled, SameWalk, S, m
    <3>17. QED
      BY <3>13, <3>14, <3>15, <3>16
  <2>7. QED
    BY <2>3, <2>4, <2>5, <2>6 DEF WalkInv
<1>5. QED
  BY <1>2, <1>3, <1>4

(* The rows of the list a walk is over.                                    *)
LEMMA WalkRows ==
  ASSUME TypeOK, WalkInv, NEW e \in Entities, Walks(e), asks # {}
  PROVE  /\ site.room \in Nat /\ rows[e] \in SUBSET (1 .. site.room)
         /\ walk.seen \in SUBSET rows[e] /\ walk.missing \in SUBSET rows[e]
<1>1. PICK a \in asks : TRUE
  OBVIOUS
<1>2. site.screen # "admin"
  BY DEF WalkInv, OneAsk, NoWalk, Walks
<1>3. WalkShape(a)
  BY <1>1, <1>2 DEF WalkInv, Walking
<1>4. QED
  BY <1>1, <1>3, AskFacts DEF WalkShape, Walks

LEMMA CreateWalk ==
  ASSUME TypeOK, WalkInv, NEW e \in Entities, NEW i \in Room(e), Create(e, i)
  PROVE  WalkInv'
<1> DEFINE Torn(a) == [a EXCEPT !.torn = @ \/ (a.entity = e /\ a.at = "listed")]
           S == rows[e]
           R == S \cup {i}
<1>1. /\ site' = site /\ rows' = [rows EXCEPT ![e] = R] /\ i \notin S
      /\ asks' = {Torn(a) : a \in asks}
      /\ walk' = IF Walks(e) THEN [walk EXCEPT !.creates = @ + 1] ELSE walk
  BY DEF Create, Writes
<1>2. i \in 1 .. site.room
  BY DEF Room, Ids
<1>3. ASSUME Walks(e)
      PROVE  /\ SameWalk /\ walk'.seen = walk.seen /\ walk'.missing = walk.missing
             /\ walk'.creates = walk.creates + 1 /\ Shifts' = Shifts + 1 /\ Losses' = Losses
  BY <1>1, <1>3, WalkFacts DEF TypeOK, WalkType, SameWalk, Shifts, Losses
<1>4. ASSUME NEW x \in asks'
      PROVE  \E a \in asks : SameAsk(x, a) /\ (x.torn <=> (a.torn \/ (a.entity = e /\ a.at = "listed")))
  <2>1. PICK a \in asks : x = Torn(a)
    BY <1>1
  <2>2. a \in AskType
    BY DEF TypeOK
  <2>3. QED
    BY <2>1, <2>2 DEF AskType, SameAsk
<1>5. Asked'
  <2> SUFFICES ASSUME NEW x \in asks' PROVE AskShape(x)' /\ EmptyBeyond(x)'
    BY DEF Asked
  <2>1. PICK a \in asks : /\ SameAsk(x, a)
                          /\ x.torn <=> (a.torn \/ (a.entity = e /\ a.at = "listed"))
    BY <1>4
  <2>2. AskShape(a) /\ EmptyBeyond(a) /\ Served(x)' = Served(a)
    BY <1>1, <2>1 DEF WalkInv, Asked, Served, SameAsk
  <2>3. a.entity # e => rows'[a.entity] = rows[a.entity]
    BY <1>1, AskFacts DEF TypeOK
  <2>4. QED
    BY <1>1, <2>1, <2>2, <2>3 DEF AskShape, EmptyBeyond, SameAsk
<1>6. ASSUME Walks(e), asks # {} PROVE Keeps(S, R)
  <2>1. /\ site.room \in Nat /\ S \in SUBSET (1 .. site.room)
        /\ walk.seen \in SUBSET S /\ walk.missing \in SUBSET S
    BY <1>6, WalkRows
  <2>2. walk.again \in Nat /\ Shifts \in Nat /\ Losses \in Nat /\ walk.creates \in Nat
    BY WalkFacts
  <2>3. R \in SUBSET (1 .. site.room)
    BY <1>2, <2>1
  <2> HIDE DEF S
  <2>4. KeepsAgain(S, R)
    <3> SUFFICES ASSUME NEW G \in SUBSET walk.seen, NEW o \in Nat,
                        FewAgain(walk.again + Cardinality(walk.seen \ G), G, S, o, Shifts)
                 PROVE  FewAgain(walk.again + Cardinality(walk.seen \ G), G, R, o, Shifts + 1)
      BY <1>3, <1>6 DEF KeepsAgain
    <3>1. walk.seen \ G \in SUBSET (1 .. site.room) /\ G \in SUBSET (1 .. site.room)
      BY <2>1
    <3>2. walk.again + Cardinality(walk.seen \ G) \in Nat
      BY <2>1, <2>2, <3>1, Finite
    <3>3. QED
      BY <1>2, <2>1, <2>2, <3>1, <3>2, FewAgainCreate
  <2>5. KeepsMissing(S, R)
    <3>1. ASSUME NEW o \in Nat, Cardinality(Skipped(S, walk.missing, o)) <= Losses
          PROVE  Cardinality(Skipped(R, walk.missing, o)) <= Losses
      <4>1. Cardinality(Skipped(R, walk.missing, o)) <= Cardinality(Skipped(S, walk.missing, o))
        BY <1>2, <2>1, SkippedCreate
      <4>2. /\ Skipped(R, walk.missing, o) \in SUBSET (1 .. site.room)
            /\ Skipped(S, walk.missing, o) \in SUBSET (1 .. site.room)
        BY <2>1 DEF Skipped
      <4>3. /\ Cardinality(Skipped(R, walk.missing, o)) \in Nat
            /\ Cardinality(Skipped(S, walk.missing, o)) \in Nat
        BY <2>1, <4>2, Finite
      <4>4. QED
        BY <2>2, <3>1, <4>1, <4>3
    <3>2. QED
      BY <1>3, <1>6, <3>1 DEF KeepsMissing
  <2>6. /\ Cardinality(R) \in Nat /\ Cardinality(S) \in Nat
        /\ Cardinality(R) <= Cardinality(S) + 1
    <3>1. IsFiniteSet(S) /\ Cardinality(S) \in Nat
      BY <2>1, Finite
    <3>2. Cardinality(R) = (IF i \in S THEN Cardinality(S) ELSE Cardinality(S) + 1)
      BY <3>1, FS_AddElement
    <3>3. QED
      BY <3>1, <3>2
  <2>7. Cardinality(R) + walk.creates <= Cardinality(S) + walk'.creates
    <3>1. walk'.creates = walk.creates + 1
      BY <1>3, <1>6
    <3> HIDE DEF R
    <3>2. QED
      BY <2>2, <2>6, <3>1
  <2>8. walk'.seen \subseteq R /\ walk'.missing \subseteq R
    BY <1>3, <1>6, <2>1
  <2>9. QED
    BY <2>4, <2>5, <2>6, <2>7, <2>8 DEF Keeps
<1>7. \A a : asks = {a} => \E x : asks' = {x}
  <2> SUFFICES ASSUME NEW a, asks = {a} PROVE asks' = {Torn(a)}
    OBVIOUS
  <2>1. QED
    BY <1>1
<1>8. QED
  BY <1>1, <1>3, <1>4, <1>5, <1>6, <1>7, WrittenWalk

(* The requests in flight where nothing is created.                        *)
LEMMA AskedShrinks ==
  ASSUME TypeOK, Asked, NEW e \in Entities, NEW R \in SUBSET (1 .. site.room),
         site' = site, asks' = asks, rows' = [rows EXCEPT ![e] = R],
         Cardinality(R) <= Cardinality(rows[e])
  PROVE  Asked' /\ \A x \in asks' : \E a \in asks : SameAsk(x, a)
<1>1. \A x \in asks' : \E a \in asks : SameAsk(x, a)
  BY DEF SameAsk
<1>2. Asked'
  <2> SUFFICES ASSUME NEW a \in asks PROVE AskShape(a)' /\ EmptyBeyond(a)'
    BY DEF Asked
  <2>1. AskShape(a) /\ EmptyBeyond(a) /\ Served(a)' = Served(a) /\ a.offset \in Nat
    BY AskFacts DEF Asked, Served
  <2>2. /\ site.room \in Nat /\ rows[a.entity] \in SUBSET (1 .. site.room)
        /\ rows'[a.entity] \in SUBSET (1 .. site.room)
        /\ rows'[a.entity] = rows[a.entity] \/ (a.entity = e /\ rows'[a.entity] = R)
    BY AskFacts DEF TypeOK
  <2> DEFINE m == Cardinality(rows'[a.entity])
             n == Cardinality(rows[a.entity])
  <2>3. m \in Nat /\ n \in Nat
    BY <2>2, Finite
  <2>4. m <= n
    BY <2>2, <2>3
  <2> HIDE DEF m, n
  <2>5. n <= a.offset => m <= a.offset
    BY <2>1, <2>3, <2>4
  <2>6. QED
    BY <2>1, <2>5 DEF AskShape, EmptyBeyond, m, n
<1>3. QED
  BY <1>1, <1>2

LEMMA DeleteWalk ==
  ASSUME TypeOK, WalkInv, NEW e \in Entities, NEW i \in Room(e), Delete(e, i)
  PROVE  WalkInv'
<1> DEFINE S == rows[e]
           R == S \ {i}
<1>1. /\ site' = site /\ asks' = asks /\ rows' = [rows EXCEPT ![e] = R] /\ i \in S
      /\ walk' = IF Walks(e)
                   THEN [walk EXCEPT !.deletes = @ + 1, !.seen = @ \ {i}, !.missing = @ \ {i}] ELSE walk
  BY DEF Delete, Writes
<1>2. ASSUME Walks(e)
      PROVE  /\ SameWalk /\ walk'.seen = walk.seen \ {i} /\ walk'.missing = walk.missing \ {i}
             /\ walk'.creates = walk.creates /\ Shifts' = Shifts /\ Losses' = Losses + 1
  BY <1>1, <1>2, WalkFacts DEF TypeOK, WalkType, SameWalk, Shifts, Losses
<1>3. site.room \in Nat /\ S \in SUBSET (1 .. site.room) /\ R \in SUBSET S
  BY ListsAssumption DEF TypeOK, Ids
<1>4. /\ R \in SUBSET (1 .. site.room) /\ Cardinality(R) \in Nat /\ Cardinality(S) \in Nat
      /\ Cardinality(R) <= Cardinality(S)
  <2>1. R \in SUBSET (1 .. site.room)
    BY <1>3
  <2>2. QED
    BY <1>3, <2>1, Finite, Smaller
<1>5. Asked' /\ \A x \in asks' : \E a \in asks : SameAsk(x, a)
  BY <1>1, <1>4, AskedShrinks DEF WalkInv
<1>6. ASSUME Walks(e), asks # {} PROVE Keeps(S, R)
  <2>1. walk.seen \in SUBSET S /\ walk.missing \in SUBSET S
    BY <1>6, WalkRows
  <2>2. walk.again \in Nat /\ Shifts \in Nat /\ Losses \in Nat /\ walk.creates \in Nat
    BY WalkFacts
  <2>3. walk'.seen \subseteq R /\ walk'.missing \subseteq R
    BY <1>2, <1>6, <2>1
  <2> HIDE DEF S
  <2>4. KeepsAgain(S, R)
    <3> SUFFICES ASSUME NEW G \in SUBSET walk.seen, NEW o \in Nat,
                        FewAgain(walk.again + Cardinality(walk.seen \ G), G, S, o, Shifts)
                 PROVE  \E H \in SUBSET walk'.seen :
                          FewAgain(walk.again + Cardinality(walk'.seen \ H), H, R, o, Shifts)
      BY <1>2, <1>6 DEF KeepsAgain
    <3> DEFINE H == G \ {i}
               was == walk.seen \ G
               is  == walk'.seen \ H
    <3>1. H \in SUBSET walk'.seen /\ H \in SUBSET G /\ is \in SUBSET was
      BY <1>2, <1>6
    <3>2. was \in SUBSET (1 .. site.room) /\ is \in SUBSET (1 .. site.room) /\ G \in SUBSET (1 .. site.room)
      BY <1>3, <2>1, <3>1
    <3>3. /\ Cardinality(was) \in Nat /\ Cardinality(is) \in Nat /\ Cardinality(is) <= Cardinality(was)
      BY <1>3, <3>1, <3>2, Finite, Smaller
    <3> HIDE DEF H, is, was, R
    <3>4. FewAgain(walk.again + Cardinality(was), H, R, o, Shifts)
      <4> DEFINE r == walk.again + Cardinality(was)
      <4>1. r \in Nat /\ o <= o
        BY <2>2, <3>3
      <4>2. FewAgain(r, G, S, o, Shifts)
        BY DEF was
      <4> HIDE DEF r
      <4>3. FewAgain(r, H, R, o, Shifts)
        BY <1>3, <2>2, <3>1, <3>2, <4>1, <4>2, FewAgainLess
      <4>4. QED
        BY <4>3 DEF r
    <3>5. FewAgain(walk.again + Cardinality(is), H, R, o, Shifts)
      <4>1. Cardinality(Passed(R, H)) \in Nat
        BY <1>3, <1>4, PassedSize
      <4>2. QED
        BY <2>2, <3>3, <3>4, <4>1 DEF FewAgain
    <3>6. QED
      BY <3>1, <3>5 DEF is
  <2>5. KeepsMissing(S, R)
    <3> DEFINE T == walk.missing
               U == T \ {i}
    <3>1. ASSUME NEW o \in Nat, Cardinality(Skipped(S, T, o)) <= Losses
          PROVE  Cardinality(Skipped(R, U, o)) <= Losses + 1
      <4>1. Cardinality(Skipped(R, U, o)) <= Cardinality(Skipped(S, T, o)) + 1
        BY <1>1, <1>3, <2>1, SkippedDelete DEF S
      <4>2. /\ Skipped(R, U, o) \in SUBSET (1 .. site.room)
            /\ Skipped(S, T, o) \in SUBSET (1 .. site.room)
        BY <1>3, <2>1 DEF Skipped
      <4>3. Cardinality(Skipped(R, U, o)) \in Nat /\ Cardinality(Skipped(S, T, o)) \in Nat
        BY <1>3, <4>2, Finite
      <4>4. QED
        BY <2>2, <3>1, <4>1, <4>3
    <3>2. /\ Cardinality(T) \in Nat /\ Cardinality(U) \in Nat /\ Cardinality(U) <= Cardinality(T)
      <4>1. T \in SUBSET (1 .. site.room) /\ U \in SUBSET T /\ U \in SUBSET (1 .. site.room)
        BY <1>3, <2>1
      <4>2. QED
        BY <1>3, <4>1, Finite, Smaller
    <3>3. walk'.missing = U /\ Losses' = Losses + 1 /\ (T = {} => U = {})
      BY <1>2, <1>6
    <3> HIDE DEF U
    <3>4. Cardinality(T) <= Losses => Cardinality(U) <= Losses + 1
      BY <2>2, <3>2
    <3>5. QED
      BY <3>1, <3>3, <3>4 DEF KeepsMissing
  <2>6. Cardinality(R) + walk.creates <= Cardinality(S) + walk'.creates
    <3>1. walk'.creates = walk.creates
      BY <1>2, <1>6
    <3>2. QED
      BY <1>4, <2>2, <3>1 DEF S
  <2>7. QED
    BY <1>4, <2>3, <2>4, <2>5, <2>6 DEF Keeps
<1>7. QED
  BY <1>1, <1>2, <1>5, <1>6, WrittenWalk

LEMMA MoveWalk ==
  ASSUME TypeOK, WalkInv, NEW e \in Entities, NEW i \in Room(e), NEW j \in Room(e), Move(e, i, j)
  PROVE  WalkInv'
<1> DEFINE S == rows[e]
           R == Moved(i, j, S)
<1>1. /\ site' = site /\ asks' = asks /\ rows' = [rows EXCEPT ![e] = R] /\ i \in S /\ j \notin S
      /\ walk' = IF Walks(e)
                   THEN [walk EXCEPT !.moves = @ + 1, !.seen = Moved(i, j, @),
                                     !.missing = Moved(i, j, @)]
                   ELSE walk
  BY DEF Move, Writes
<1>2. ASSUME Walks(e)
      PROVE  /\ SameWalk /\ walk'.seen = Moved(i, j, walk.seen)
             /\ walk'.missing = Moved(i, j, walk.missing)
             /\ walk'.creates = walk.creates /\ Shifts' = Shifts + 1 /\ Losses' = Losses + 1
  BY <1>1, <1>2, WalkFacts DEF TypeOK, WalkType, SameWalk, Shifts, Losses
<1>3. /\ site.room \in Nat /\ S \in SUBSET (1 .. site.room) /\ i \in 1 .. site.room
      /\ j \in (1 .. site.room) \ S
  BY <1>1, ListsAssumption DEF TypeOK, Ids, Room
<1>4. /\ R \in SUBSET (1 .. site.room) /\ Cardinality(R) = Cardinality(S)
      /\ Cardinality(S) \in Nat
  BY <1>3, MovedSize, Finite
<1>5. Asked' /\ \A x \in asks' : \E a \in asks : SameAsk(x, a)
  <2>1. Cardinality(R) <= Cardinality(S)
    BY <1>4
  <2>2. QED
    BY <1>1, <1>4, <2>1, AskedShrinks DEF WalkInv
<1>6. ASSUME Walks(e), asks # {} PROVE Keeps(S, R)
  <2>1. walk.seen \in SUBSET S /\ walk.missing \in SUBSET S
    BY <1>6, WalkRows
  <2>2. walk.again \in Nat /\ Shifts \in Nat /\ Losses \in Nat /\ walk.creates \in Nat
    BY WalkFacts
  <2>3. walk'.seen \subseteq R /\ walk'.missing \subseteq R
    BY <1>1, <1>2, <1>6, <2>1 DEF Moved
  <2>4. R = (S \ {i}) \cup {j}
    BY <1>1 DEF Moved
  <2>5. KeepsAgain(S, R)
    <3> SUFFICES ASSUME NEW G \in SUBSET walk.seen, NEW o \in Nat,
                        FewAgain(walk.again + Cardinality(walk.seen \ G), G, S, o, Shifts)
                 PROVE  \E H \in SUBSET walk'.seen :
                          FewAgain(walk.again + Cardinality(walk'.seen \ H), H, R, o, Shifts + 1)
      BY <1>2, <1>6 DEF KeepsAgain
    <3> DEFINE stray == walk.seen \ G
               r == walk.again + Cardinality(stray)
               H == G \ {i}
    <3>1. /\ G \in SUBSET (1 .. site.room) /\ G \in SUBSET S /\ stray \in SUBSET (1 .. site.room)
          /\ i \notin stray \/ i \notin G
      BY <1>3, <2>1
    <3>2. IsFiniteSet(stray) /\ Cardinality(stray) \in Nat /\ r \in Nat
      <4>1. IsFiniteSet(stray) /\ Cardinality(stray) \in Nat
        BY <1>3, <3>1, Finite
      <4>2. QED
        BY <2>2, <4>1
    <3>3. FewAgain(r, G, S, o, Shifts)
      OBVIOUS
    <3>4. CASE i \in G
      <4>1. walk'.seen \ H = stray \cup {j} /\ j \notin stray /\ H \in SUBSET walk'.seen
        BY <1>1, <1>2, <1>6, <2>1, <3>4 DEF Moved
      <4> HIDE DEF stray
      <4>2. Cardinality(stray \cup {j}) = Cardinality(stray) + 1
        BY <3>2, <4>1, FS_AddElement
      <4>3. FewAgain(r + 1, H, R, o, Shifts + 1)
        <5>1. H = G \ {i}
          OBVIOUS
        <5> HIDE DEF r, S, R, H
        <5>2. QED
          BY <1>3, <2>2, <2>4, <3>1, <3>2, <3>3, <3>4, <5>1, FewAgainMove
      <4>4. walk.again + Cardinality(walk'.seen \ H) = r + 1
        <5>1. Cardinality(walk'.seen \ H) = Cardinality(stray) + 1
          BY <4>1, <4>2
        <5> HIDE DEF H
        <5>2. QED
          BY <2>2, <3>2, <5>1
      <4>5. QED
        BY <4>1, <4>3, <4>4
    <3>5. CASE i \notin G
      <4>1. G \in SUBSET walk'.seen /\ walk'.seen \ G = Moved(i, j, stray) /\ j \notin stray
        BY <1>1, <1>2, <1>6, <2>1, <3>5 DEF Moved
      <4> HIDE DEF stray
      <4>2. Cardinality(Moved(i, j, stray)) = Cardinality(stray)
        BY <1>3, <3>1, <4>1, MovedSize
      <4>3. FewAgain(r, G, S \ {i}, o, Shifts)
        <5> HIDE DEF r, S, R, H
        <5>1. S \ {i} \in SUBSET S /\ G \in SUBSET G /\ o <= o
          OBVIOUS
        <5>2. site.room \in Nat /\ S \in SUBSET (1 .. site.room) /\ G \in SUBSET (1 .. site.room)
          BY <1>3, <3>1
        <5>3. r \in Nat /\ Shifts \in Nat
          BY <2>2, <3>2
        <5>4. QED
          BY <3>3, <5>1, <5>2, <5>3, FewAgainLess
      <4>4. FewAgain(r, G, R, o, Shifts + 1)
        <5> HIDE DEF r, S, R, H
        <5>1. S \ {i} \in SUBSET (1 .. site.room)
          BY <1>3
        <5>2. QED
          BY <1>3, <2>2, <2>4, <3>1, <3>2, <4>3, <5>1, FewAgainCreate
      <4>5. walk.again + Cardinality(walk'.seen \ G) = r
        BY <4>1, <4>2
      <4>6. QED
        BY <4>1, <4>4, <4>5
    <3>6. QED
      BY <3>4, <3>5
  <2>6. KeepsMissing(S, R)
    <3> DEFINE T == walk.missing
               U == Moved(i, j, T)
    <3>1. ASSUME NEW o \in Nat, Cardinality(Skipped(S, T, o)) <= Losses
          PROVE  Cardinality(Skipped(R, U, o)) <= Losses + 1
      <4>1. Cardinality(Skipped(R, U, o)) <= Cardinality(Skipped(S, T, o)) + 1
        BY <1>1, <1>3, <2>1, SkippedMove
      <4>2. /\ Skipped(R, U, o) \in SUBSET (1 .. site.room)
            /\ Skipped(S, T, o) \in SUBSET (1 .. site.room)
        BY <1>3, <2>1 DEF Skipped, Moved
      <4>3. Cardinality(Skipped(R, U, o)) \in Nat /\ Cardinality(Skipped(S, T, o)) \in Nat
        BY <1>3, <4>2, Finite
      <4>4. QED
        BY <2>2, <3>1, <4>1, <4>3
    <3>2. Cardinality(T) \in Nat /\ Cardinality(U) = Cardinality(T)
      <4>1. T \in SUBSET (1 .. site.room) /\ j \notin T
        BY <1>1, <1>3, <2>1
      <4>2. QED
        BY <1>3, <4>1, Finite, MovedSize
    <3>3. walk'.missing = U /\ Losses' = Losses + 1 /\ (T = {} => U = {})
      BY <1>2, <1>6 DEF Moved
    <3> HIDE DEF U
    <3>4. Cardinality(T) <= Losses => Cardinality(U) <= Losses + 1
      BY <2>2, <3>2
    <3>5. QED
      BY <3>1, <3>3, <3>4 DEF KeepsMissing
  <2>7. Cardinality(R) + walk.creates <= Cardinality(S) + walk'.creates
    <3>1. walk'.creates = walk.creates
      BY <1>2, <1>6
    <3> HIDE DEF R, S
    <3>2. QED
      BY <1>4, <2>2, <3>1
  <2>8. QED
    BY <1>4, <2>3, <2>5, <2>6, <2>7 DEF Keeps
<1>7. QED
  BY <1>1, <1>2, <1>5, <1>6, WrittenWalk

(* The page ceiling.                                                       *)

LEMMA CeilingCovers ==
  ASSUME NEW total \in Nat, NEW limit \in Nat \ {0}
  PROVE  LET c == Ceiling(total, limit) IN
         /\ c \in Nat /\ c * limit \in Nat /\ total <= c * limit
         /\ c * limit < total + limit /\ (total > 0 => c > 0)
<1> DEFINE n == total + limit - 1
           c == n \div limit
           m == c * limit
           r == n % limit
<1>1. n \in Nat
  OBVIOUS
<1>2. c \in Nat /\ r \in Nat /\ r < limit /\ n = m + r /\ m \in Nat
  <2> HIDE DEF n
  <2>1. QED
    BY <1>1, Division
<1>3. c = Ceiling(total, limit)
  BY DEF Ceiling
<1>4. c = 0 => m = 0
  BY <1>2
<1> HIDE DEF c, m, r
<1>5. total <= m /\ m < total + limit
  BY <1>2
<1>6. total > 0 => c > 0
  BY <1>2, <1>4, <1>5
<1>7. QED
  BY <1>2, <1>3, <1>5, <1>6 DEF m

LEMMA NextMultiple ==
  ASSUME NEW c \in Nat, NEW l \in Nat PROVE (c + 1) * l = c * l + l
  OBVIOUS

LEMMA MostCovers ==
  ASSUME TypeOK, NEW total \in Nat, NEW size \in Nat, size <= total + walk.creates
  PROVE  /\ MostPages(total) \in Nat /\ MostPages(total) > 1
         /\ \/ MostPages(total) >= PageCap
            \/ size + walk.limit <= MostPages(total) * walk.limit + walk.creates
<1> DEFINE c == Ceiling(total, walk.limit)
           m == c * walk.limit
<1>1. walk.limit \in Nat \ {0} /\ walk.creates \in Nat
  BY WalkFacts
<1>2. c \in Nat /\ m \in Nat /\ total <= m /\ (total > 0 => c > 0)
  BY <1>1, CeilingCovers
<1>3. (c + 1) * walk.limit = m + walk.limit
  BY <1>1, <1>2, NextMultiple
<1>4. MostPages(total) = Least(IF total > 0 THEN c + 1 ELSE PageCap, PageCap)
  BY DEF MostPages
<1> HIDE DEF c, m
<1>5. MostPages(total) \in Nat /\ MostPages(total) > 1
  BY <1>2, <1>4 DEF Least, PageCap
<1>6. MostPages(total) >= PageCap \/ MostPages(total) = c + 1
  BY <1>2, <1>4 DEF Least, PageCap
<1>7. MostPages(total) = c + 1 =>
        size + walk.limit <= MostPages(total) * walk.limit + walk.creates
  <2>1. size + walk.limit <= (m + walk.limit) + walk.creates
    BY <1>1, <1>2
  <2>2. QED
    BY <1>3, <2>1
<1>8. QED
  BY <1>5, <1>6, <1>7

(* The ceiling a walk keeps covers what the list holds but for what was    *)
(* created.                                                                *)
Most(a) == IF walk.pages = 0 THEN MostPages(a.total) ELSE walk.most

LEMMA CollectCeiled ==
  ASSUME TypeOK, WalkInv, NEW a \in asks, Collect(a), a.entity \in Paged
  PROVE  /\ Most(a) \in Nat /\ (walk.pages = 0 => Most(a) > 1)
         /\ \/ Most(a) >= PageCap
            \/ Cardinality(rows[a.entity]) + walk.limit <= Most(a) * walk.limit + walk.creates
<1>1. site.screen = "relations" /\ a.at = "ready"
  BY DEF Collect
<1>2. Ceiled(a)
  BY <1>1 DEF WalkInv, Walking
<1>3. a.total \in Nat /\ Cardinality(rows[a.entity]) \in Nat
  <2>1. site.room \in Nat /\ a.total \in 0 .. site.room /\ rows[a.entity] \in SUBSET (1 .. site.room)
    BY AskFacts
  <2>2. Cardinality(rows[a.entity]) \in Nat
    BY <2>1, Finite
  <2>3. QED
    BY <2>1, <2>2
<1>4. walk.pages \in Nat /\ walk.most \in Nat
  BY WalkFacts
<1>5. CASE walk.pages = 0
  <2>1. Cardinality(rows[a.entity]) <= a.total + walk.creates
    BY <1>1, <1>2, <1>5 DEF Ceiled
  <2>2. QED
    BY <1>3, <1>5, <2>1, MostCovers DEF Most
<1>6. CASE walk.pages # 0
  <2>1. walk.pages > 0
    BY <1>4, <1>6
  <2>2. QED
    BY <1>1, <1>2, <1>4, <1>6, <2>1 DEF Ceiled, Most
<1>7. QED
  BY <1>5, <1>6

(* What a walk keeps of an answer, and what it goes on from.               *)
LEMMA AdvanceFacts ==
  ASSUME TypeOK, WalkInv, site.screen # "admin", NEW a \in asks, a.at = "ready",
         NEW most, NEW offset, NEW limit, Advance(a, most, offset, limit)
  PROVE  /\ site' = site /\ rows' = rows /\ asks = {a} /\ walk.at = "going"
         /\ asks' = IF offset = None THEN {} ELSE {Ask(walk.pages + 1, a.entity, offset, limit)}
         /\ walk'.at = IF offset = None THEN "done" ELSE "going"
         /\ walk'.entity = walk.entity /\ walk'.limit = walk.limit /\ walk'.first = walk.first
         /\ walk'.pages = walk.pages + 1 /\ walk'.most = most
         /\ walk'.read = walk.read + Cardinality(a.items) /\ walk'.seen = walk.seen
         /\ walk'.missing = walk.missing /\ walk'.again = walk.again
         /\ walk'.creates = walk.creates /\ walk'.deletes = walk.deletes
         /\ Shifts' = Shifts /\ Losses' = Losses
         /\ Asked' /\ OneAsk' /\ RepeatsFew'
<1>1. asks = {a} /\ walk.at = "going"
  BY DEF WalkInv, Walking, WalkShape
<1>2. /\ site' = site /\ rows' = rows
      /\ asks' = IF offset = None THEN {} ELSE {Ask(walk.pages + 1, a.entity, offset, limit)}
  BY <1>1 DEF Advance
<1>3. /\ walk'.at = IF offset = None THEN "done" ELSE "going"
      /\ walk'.entity = walk.entity /\ walk'.limit = walk.limit /\ walk'.first = walk.first
      /\ walk'.pages = walk.pages + 1 /\ walk'.most = most
      /\ walk'.read = walk.read + Cardinality(a.items) /\ walk'.seen = walk.seen
      /\ walk'.missing = walk.missing /\ walk'.again = walk.again
      /\ walk'.creates = walk.creates /\ walk'.deletes = walk.deletes
      /\ Shifts' = Shifts /\ Losses' = Losses
  BY DEF Advance, TypeOK, WalkType, Shifts, Losses
<1>4. Asked'
  <2> SUFFICES ASSUME NEW x \in asks' PROVE AskShape(x)' /\ EmptyBeyond(x)'
    BY DEF Asked
  <2>1. x = Ask(walk.pages + 1, a.entity, offset, limit)
    BY <1>2
  <2>2. x.at = "sent" /\ x.items = {}
    BY <2>1, NewAsk
  <2>3. QED
    BY <2>2 DEF AskShape, EmptyBeyond
<1>5. OneAsk'
  BY <1>2, <1>3 DEF OneAsk
<1>6. RepeatsFew'
  BY <1>3 DEF WalkInv, RepeatsFew, Shifts
<1>7. QED
  BY <1>1, <1>2, <1>3, <1>4, <1>5, <1>6

(* The walk is over once it misses no more than was deleted or moved.      *)
LEMMA WalkOver ==
  ASSUME TypeOK, WalkInv, site.screen # "admin", NEW a \in asks, a.at = "ready",
         NEW most, NEW limit, Advance(a, most, None, limit),
         Tolerated => Cardinality(walk.missing) <= Losses
  PROVE  WalkInv'
<1>1. /\ site' = site /\ asks' = {} /\ walk'.missing = walk.missing
      /\ walk'.limit = walk.limit /\ walk'.first = walk.first
      /\ walk'.creates = walk.creates /\ Losses' = Losses
      /\ Asked' /\ OneAsk' /\ RepeatsFew'
  BY AdvanceFacts
<1>2. Walking'
  BY <1>1 DEF Walking
<1>3. MissesFew'
  BY <1>1 DEF MissesFew, Tolerated, Losses
<1>4. QED
  BY <1>1, <1>2, <1>3 DEF WalkInv

(* The walk goes on where the page it read ends.                           *)
LEMMA WalkGoesOn ==
  ASSUME TypeOK, WalkInv, site.screen # "admin", NEW a \in asks, a.at = "ready",
         NEW most, NEW offset \in Nat, NEW limit, Advance(a, most, offset, limit),
         a.entity \in Paged, offset = a.offset + Served(a),
         Least(limit, site.max) = Served(a),
         site.screen = "relations" =>
           /\ limit = site.max
           /\ offset = walk.read + Cardinality(a.items)
           /\ offset = (walk.pages + 1) * walk.limit
           /\ \/ most >= PageCap
              \/ Cardinality(rows[a.entity]) + walk.limit <= most * walk.limit + walk.creates
  PROVE  WalkInv'
<1>1. offset # None
  BY DEF None
<1>2. PICK b : b = Ask(walk.pages + 1, a.entity, offset, limit)
  OBVIOUS
<1>3. /\ b.entity = a.entity /\ b.offset = offset /\ b.limit = limit /\ b.at = "sent" /\ b.items = {}
  BY <1>2, NewAsk
<1>4. /\ site' = site /\ rows' = rows /\ asks = {a} /\ walk.at = "going" /\ asks' = {b}
      /\ walk'.at = "going" /\ walk'.entity = walk.entity /\ walk'.limit = walk.limit
      /\ walk'.first = walk.first /\ walk'.pages = walk.pages + 1 /\ walk'.most = most
      /\ walk'.read = walk.read + Cardinality(a.items) /\ walk'.seen = walk.seen
      /\ walk'.missing = walk.missing /\ walk'.again = walk.again
      /\ walk'.creates = walk.creates /\ Shifts' = Shifts /\ Losses' = Losses
      /\ Asked' /\ OneAsk' /\ RepeatsFew'
  BY <1>1, <1>2, AdvanceFacts
<1>5. WalkShape(a) /\ ReadAgainFew(a) /\ MissedFew(a)
  BY DEF WalkInv, Walking
<1>6. /\ site.room \in Nat /\ rows[a.entity] \in SUBSET (1 .. site.room)
      /\ a.items \in SUBSET (1 .. site.room) /\ a.offset \in Nat /\ Served(a) \in Nat \ {0}
  BY AskFacts
<1>7. walk.read \in Nat /\ walk.again \in Nat /\ Shifts \in Nat /\ walk.seen \in SUBSET (1 .. site.room)
  BY WalkFacts
<1>8. Cardinality(a.items) \in Nat /\ Cardinality(a.items) <= Served(a) /\ a.entity \notin Plain
  <2>1. AskShape(a)
    BY DEF WalkInv, Asked
  <2>2. QED
    BY <1>6, <2>1, Finite, ListsAssumption DEF AskShape
<1>9. /\ Served(b)' = Served(a) /\ Reached(b)' = Reached(a) /\ Reached(a) = offset
      /\ Cardinality(b.items) = 0
  <2>1. Served(b)' = Served(a)
    BY <1>3, <1>4 DEF Served
  <2>2. QED
    BY <1>3, <2>1, FS_EmptySet DEF Reached
<1>10. WalkShape(b)'
  <2>1. ASSUME site.screen = "api", walk.first = 0 PROVE offset % Served(a) = 0
    <3> DEFINE l == Served(a)
    <3>1. l \in Nat \ {0} /\ a.offset \in Nat /\ offset = a.offset + l
      BY <1>6
    <3>2. a.offset % l = 0
      BY <1>5, <2>1 DEF WalkShape
    <3> HIDE DEF l
    <3>3. OnGrid(a.offset, l)
      BY <3>1, <3>2, GridDivision
    <3>4. OnGrid(offset, l)
      BY <3>1, <3>3, GridStep
    <3>5. offset % l = 0
      BY <3>1, <3>4, GridDivision
    <3>6. QED
      BY <3>5 DEF l
  <2>2. QED
    BY <1>3, <1>4, <1>5, <1>8, <1>9, <2>1 DEF WalkShape
<1>11. ReadAgainFew(b)'
  <2> DEFINE p == a.offset + Cardinality(a.items)
             S == rows[a.entity]
  <2>1. PICK G \in SUBSET walk.seen :
          FewAgain(walk.again + Cardinality(walk.seen \ G), G, S, p, Shifts)
    BY <1>5 DEF ReadAgainFew
  <2> DEFINE r == walk.again + Cardinality(walk.seen \ G)
  <2>2. p \in Nat /\ p <= offset /\ G \in SUBSET (1 .. site.room) /\ offset + 0 = offset
    BY <1>6, <1>7, <1>8
  <2>3. r \in Nat
    <3>1. walk.seen \ G \in SUBSET (1 .. site.room)
      BY <1>7
    <3>2. Cardinality(walk.seen \ G) \in Nat
      BY <1>6, <3>1, Finite
    <3>3. QED
      BY <1>7, <3>2
  <2>4. FewAgain(r, G, S, offset, Shifts)
    <3>1. S \in SUBSET (1 .. site.room) /\ S \in SUBSET S /\ G \in SUBSET G
      BY <1>6
    <3>2. FewAgain(r, G, S, p, Shifts)
      BY <2>1
    <3> HIDE DEF p, r, S
    <3>3. QED
      BY <1>6, <1>7, <2>2, <2>3, <3>1, <3>2, FewAgainLess
  <2>5. FewAgain(walk'.again + Cardinality(walk'.seen \ G), G, rows'[b.entity],
                 b.offset + Cardinality(b.items), Shifts')
    BY <1>3, <1>4, <1>9, <2>2, <2>4
  <2>6. G \in SUBSET walk'.seen
    BY <1>4
  <2>7. QED
    BY <2>5, <2>6 DEF ReadAgainFew
<1>12. MissedFew(b)'
  BY <1>3, <1>4, <1>5, <1>9 DEF MissedFew
<1>13. Ceiled(b)'
  BY <1>3, <1>4 DEF Ceiled
<1>14. Walking' /\ MissesFew'
  BY <1>4, <1>10, <1>11, <1>12, <1>13 DEF Walking, MissesFew
<1>15. QED
  BY <1>4, <1>14 DEF WalkInv

LEMMA CollectWalk ==
  ASSUME TypeOK, WalkInv, NEW a \in asks, Collect(a)
  PROVE  WalkInv'
<1> DEFINE S == rows[a.entity]
           c == Cardinality(a.items)
           l == walk.limit
           read == walk.read + c
           ended == \/ a.entity \in Plain
                    \/ c < l
                    \/ read >= a.total
                    \/ walk.pages + 1 >= Most(a)
<1>1. /\ site.screen = "relations" /\ site.screen # "admin" /\ a.at = "ready"
      /\ Advance(a, Most(a), IF ended THEN None ELSE read, walk.limit)
  BY DEF Collect, Most
<1>2. WalkShape(a) /\ MissedFew(a) /\ AskShape(a)
  BY <1>1 DEF WalkInv, Walking, Asked
<1>3. /\ walk.missing \subseteq S /\ l = site.max /\ a.limit = site.max /\ a.offset = walk.read
      /\ walk.read = walk.pages * l
  BY <1>1, <1>2 DEF WalkShape
<1>4. /\ site.room \in Nat /\ S \in SUBSET (1 .. site.room) /\ a.items \in SUBSET (1 .. site.room)
      /\ a.total \in 0 .. site.room /\ a.entity \in Entities
  BY AskFacts
<1>5. /\ l \in Nat \ {0} /\ walk.pages \in Nat /\ walk.read \in Nat /\ walk.creates \in Nat
      /\ Losses \in Nat
  BY WalkFacts
<1>6. Served(a) = l
  BY <1>3, <1>5 DEF Served, Least
<1>7. c \in Nat /\ Cardinality(S) \in Nat /\ Cardinality(S) <= site.room
  <2>1. Cardinality(S) \in 0 .. site.room
    BY <1>4, RecordsCount
  <2>2. c \in Nat
    BY <1>4, Finite
  <2>3. QED
    BY <1>4, <2>1, <2>2
<1>8. a.entity \in Paged => c <= l
  BY <1>1, <1>2, <1>6 DEF AskShape
<1>9. (walk.pages + 1) * l = walk.read + l
  BY <1>3, <1>5, NextMultiple
<1>10. a.entity \in Paged =>
        /\ Most(a) \in Nat /\ (walk.pages = 0 => Most(a) > 1)
        /\ \/ Most(a) >= PageCap
           \/ Cardinality(S) + l <= Most(a) * l + walk.creates
  BY CollectCeiled
<1>11. a.entity \in Plain \/ a.entity \in Paged
  BY <1>4 DEF Entities
<1>12. Reached(a) = walk.read + l /\ walk.missing \in SUBSET S
  BY <1>1, <1>3, <1>6 DEF Reached
<1>13. /\ Cardinality(Skipped(S, walk.missing, walk.read + l)) <= Losses
       /\ c < l => Cardinality(walk.missing) <= Losses
       /\ a.total <= walk.read + l => Cardinality(walk.missing) <= Losses
       /\ a.entity \in Plain => walk.missing = {}
  BY <1>1, <1>2, <1>6, <1>12 DEF MissedFew
<1> HIDE DEF S, c, l, read
<1>14. CASE ended
  <2> SUFFICES ASSUME Tolerated PROVE Cardinality(walk.missing) <= Losses
    BY <1>1, <1>14, WalkOver
  <2>1. walk.creates <= l /\ site.room <= PageCap * l
    BY <1>1 DEF Tolerated, l
  <2>2. CASE a.entity \in Plain
    BY <1>5, <1>13, <2>2, FS_EmptySet
  <2>3. CASE c < l
    BY <1>13, <2>3
  <2>4. CASE a.entity \in Paged /\ c >= l /\ read >= a.total
    <3>1. read = walk.read + l
      BY <1>5, <1>7, <1>8, <2>4 DEF read
    <3>2. QED
      BY <1>13, <2>4, <3>1
  <2>5. CASE a.entity \in Paged /\ walk.pages + 1 >= Most(a)
    <3> DEFINE n == walk.pages + 1
               m == Most(a)
               nl == n * l
               ml == m * l
    <3>1. n \in Nat /\ m \in Nat /\ n >= m /\ nl = walk.read + l
      BY <1>5, <1>9, <1>10, <2>5
    <3>2. ml \in Nat /\ ml <= nl
      <4> HIDE DEF n, m
      <4>1. m * l \in Nat /\ (m < n => m * l + l <= n * l) /\ n * l \in Nat
        BY <1>5, <3>1, GridOrder
      <4>2. m = n \/ m < n
        BY <3>1
      <4>3. QED
        BY <1>5, <4>1, <4>2
    <3>3. Cardinality(S) <= walk.read + l
      <4>1. CASE m >= PageCap
        <5>1. PageCap * l <= ml
          <6> HIDE DEF m
          <6>1. PageCap \in Nat
            BY DEF PageCap
          <6>2. PageCap * l \in Nat /\ (PageCap < m => PageCap * l + l <= m * l) /\ m * l \in Nat
            BY <1>5, <3>1, <6>1, GridOrder
          <6>3. PageCap = m \/ PageCap < m
            BY <3>1, <4>1, <6>1
          <6>4. QED
            BY <1>5, <6>2, <6>3
        <5>2. PageCap * l \in Nat
          BY <1>5 DEF PageCap
        <5> DEFINE pl == PageCap * l
        <5> HIDE DEF pl, ml, nl
        <5>3. pl \in Nat /\ pl <= ml /\ site.room <= pl
          BY <2>1, <5>1, <5>2 DEF pl, ml
        <5>4. QED
          BY <1>4, <1>5, <1>7, <3>1, <3>2, <5>3 DEF nl
      <4>2. CASE Cardinality(S) + l <= ml + walk.creates
        <5> HIDE DEF ml, nl
        <5>1. nl \in Nat /\ nl = walk.read + l
          BY <1>5, <3>1 DEF nl
        <5>2. QED
          BY <1>5, <1>7, <2>1, <3>2, <4>2, <5>1
      <4>3. QED
        BY <1>10, <2>5, <4>1, <4>2
    <3>4. Skipped(S, walk.missing, walk.read + l) = walk.missing
      <4>1. walk.read + l \in Nat
        BY <1>5
      <4>2. QED
        BY <1>4, <1>12, <3>3, <4>1, SkippedAll DEF S
    <3>5. QED
      BY <1>13, <3>4
  <2>6. QED
    <3>1. c < l \/ c >= l
      BY <1>5, <1>7
    <3>2. QED
      BY <1>11, <1>14, <2>2, <2>3, <2>4, <2>5, <3>1
<1>15. CASE ~ended
  <2>1. a.entity \in Paged /\ ~(c < l)
    BY <1>11, <1>15
  <2>2. c = l
    BY <1>5, <1>7, <1>8, <2>1
  <2>3. read \in Nat /\ read = walk.read + l
    BY <1>5, <2>2 DEF read
  <2>4. /\ read = a.offset + Served(a) /\ Least(l, site.max) = Served(a)
        /\ l = site.max /\ read = walk.read + Cardinality(a.items)
        /\ read = (walk.pages + 1) * l
    BY <1>3, <1>5, <1>6, <1>9, <2>3 DEF Least, l, read, c
  <2>5. Advance(a, Most(a), read, l)
    BY <1>1, <1>15 DEF l
  <2>6. QED
    BY <1>1, <1>10, <2>1, <2>3, <2>4, <2>5, WalkGoesOn DEF l, S
<1>16. QED
  BY <1>14, <1>15

LEMMA FollowWalk ==
  ASSUME TypeOK, WalkInv, NEW a \in asks, Follow(a)
  PROVE  WalkInv'
<1> DEFINE S == rows[a.entity]
           l == Served(a)
           next == NextOffset(a.offset, l, a.total, MaxOffset)
<1>1. /\ site.screen = "api" /\ site.screen # "admin" /\ site.screen # "relations" /\ a.at = "ready"
      /\ Advance(a, 0, next, l)
  BY DEF Follow
<1>2. WalkShape(a) /\ MissedFew(a)
  BY <1>1 DEF WalkInv, Walking
<1>3. /\ a.entity \in Paged /\ l = Least(walk.limit, site.max)
      /\ walk.first = 0 => a.offset % l = 0
  BY <1>1, <1>2 DEF WalkShape
<1>4. /\ site.room \in Nat /\ a.total \in 0 .. site.room /\ a.offset \in Nat /\ l \in Nat \ {0}
      /\ site.max \in Nat /\ MaxOffset \in Nat /\ a.limit \in Nat
  BY AskFacts
<1>5. CASE next = None
  <2> SUFFICES ASSUME Tolerated PROVE Cardinality(walk.missing) <= Losses
    BY <1>1, <1>5, WalkOver
  <2> DEFINE last == LastRequestable(l, MaxOffset)
  <2>1. walk.first = 0 /\ site.room <= last + l
    BY <1>1, <1>3 DEF Tolerated
  <2>2. OnGrid(a.offset, l) /\ OnGrid(last, l) /\ last \in Nat
    BY <1>3, <1>4, <2>1, GridDivision DEF LastRequestable
  <2>3. a.offset + l >= a.total \/ a.offset + l > last
    BY <1>4, <1>5 DEF NextOffset, None
  <2>4. a.offset < last => a.offset + l <= last
    BY <1>4, <2>2, GridGap
  <2> HIDE DEF last, l
  <2>5. a.total <= a.offset + l
    BY <1>4, <2>1, <2>2, <2>3, <2>4
  <2>6. QED
    BY <1>1, <1>2, <2>1, <2>5 DEF MissedFew, Reached, l
<1>6. CASE next # None
  <2>1. next \in Nat /\ next = a.offset + l
    BY <1>4, <1>6 DEF NextOffset
  <2>2. Least(l, site.max) = l
    BY <1>4 DEF Served, Least
  <2> HIDE DEF next
  <2>3. QED
    BY <1>1, <1>3, <2>1, <2>2, WalkGoesOn
<1>7. QED
  BY <1>5, <1>6

LEMMA NextWalk == TypeOK /\ WalkInv /\ [Next]_vars => WalkInv'
<1> SUFFICES ASSUME TypeOK, WalkInv, [Next]_vars PROVE WalkInv'
  OBVIOUS
<1>1. CASE \E a \in asks : Answers(a)
  BY <1>1, ListWalk, CountWalk, FailWalk, ShownWalk, CollectWalk, FollowWalk, WalkFailsWalk
     DEF Answers
<1>2. CASE \E e \in Entities : \E i \in Room(e) :
            Create(e, i) \/ Delete(e, i) \/ \E j \in Room(e) : Move(e, i, j)
  BY <1>2, CreateWalk, DeleteWalk, MoveWalk
<1>3. CASE Refresh \/ NextPage \/ PrevPage
  BY <1>3, ActsWalk DEF Refresh, NextPage, PrevPage
<1>4. CASE \E p \in 0 .. site.room + 1 : GoToPage(p)
  BY <1>4, ActsWalk DEF GoToPage
<1>5. CASE \E s \in Sizes : SetPageSize(s)
  BY <1>5, ActsWalk DEF SetPageSize
<1>6. CASE \E e \in Entities \cup {Unknown} : Switch(e)
  BY <1>6, ActsWalk DEF Switch
<1>7. CASE UNCHANGED vars
  <2>1. UNCHANGED <<site, rows, asks, walk>>
    BY <1>7 DEF vars
  <2>2. QED
    BY <2>1 DEF WalkInv, Asked, AskShape, EmptyBeyond, OneAsk, Walking, WalkShape, ReadAgainFew,
                MissedFew, Ceiled, Reached, Shifts, Losses, Served, RepeatsFew,
                MissesFew, Tolerated
<1>8. QED
  BY <1>1, <1>2, <1>3, <1>4, <1>5, <1>6, <1>7 DEF Next

(* A walk reads a row again at most once for each row created under it or  *)
(* moved in the list by an update, however the writes fall between its     *)
(* requests (adminListAll.ts, and a client that follows links.next).       *)
THEOREM WalkRepeatsFew == Spec => []RepeatsFew
<1>1. Init => TypeOK /\ WalkInv
  BY InitType, InitWalk
<1>2. TypeOK /\ WalkInv /\ [Next]_vars => (TypeOK /\ WalkInv)'
  BY NextType, NextWalk
<1>3. WalkInv => RepeatsFew
  BY DEF WalkInv
<1>4. QED
  BY <1>1, <1>2, <1>3, PTL DEF Spec

(* A walk that ended misses no more of the rows that were there all along  *)
(* than were deleted under it or moved in the list by an update.           *)
THEOREM WalkMissesFew == Spec => []MissesFew
<1>1. Init => TypeOK /\ WalkInv
  BY InitType, InitWalk
<1>2. TypeOK /\ WalkInv /\ [Next]_vars => (TypeOK /\ WalkInv)'
  BY NextType, NextWalk
<1>3. WalkInv => MissesFew
  BY DEF WalkInv
<1>4. QED
  BY <1>1, <1>2, <1>3, PTL DEF Spec

(* The links of every answer name pages a request can ask for.             *)
THEOREM AnswerLinksLead == Spec => []LinksNameThePages
<1>1. Init => TypeOK /\ WalkInv
  BY InitType, InitWalk
<1>2. TypeOK /\ WalkInv /\ [Next]_vars => (TypeOK /\ WalkInv)'
  BY NextType, NextWalk
<1>3. TypeOK /\ WalkInv => LinksNameThePages
  <2> SUFFICES ASSUME TypeOK, WalkInv PROVE LinksNameThePages
    OBVIOUS
  <2>1. ASSUME NEW a \in asks, a.at = "ready", a.entity \in Paged
        PROVE  /\ a.offset \in Nat /\ Served(a) \in Nat \ {0} /\ a.total \in Nat
               /\ MaxOffset \in Nat /\ a.offset <= MaxOffset
    <3>1. AskShape(a)
      BY DEF WalkInv, Asked
    <3>2. site.room \in Nat /\ a.total \in 0 .. site.room
      BY AskFacts
    <3>3. a.total \in Nat
      BY <3>2
    <3>4. QED
      BY <2>1, <3>1, <3>3, AskFacts DEF AskShape
  <2>2. QED
    BY <2>1, LinksLead DEF LinksNameThePages
<1>4. QED
  BY <1>1, <1>2, <1>3, PTL DEF Spec

-----------------------------------------------------------------------------
(* The list screen does not stand on an empty page.                        *)

(* Every page after the first that a total has begins below it.            *)
LEMMA PageBegins ==
  ASSUME NEW total \in Nat, NEW limit \in Nat \ {0}, NEW page \in Nat, page > 1,
         page <= TotalPages(total, limit)
  PROVE  (page - 1) * limit < total
<1> DEFINE c == Ceiling(total, limit)
           n == (page - 1) * limit
           m == c * limit
<1>1. c \in Nat /\ m \in Nat /\ m < total + limit
  BY CeilingCovers
<1>2. page <= c
  BY <1>1 DEF TotalPages, Greatest
<1>3. page - 1 \in Nat /\ page - 1 < c
  BY <1>1, <1>2
<1> HIDE DEF c
<1>4. n \in Nat /\ n + limit <= m
  BY <1>1, <1>3, GridOrder
<1> HIDE DEF n, m
<1>5. n < total
  BY <1>1, <1>4
<1>6. QED
  BY <1>5 DEF n

LEMMA FetchStands ==
  ASSUME NEW v \in ViewType, NEW inFlight, FetchList(v, inFlight)
  PROVE  NotStranded'
<1>1. CASE v.entity = Unknown
  <2>1. Unknown \notin Paged
    BY ListsAssumption
  <2>2. QED
    BY <1>1, <2>1 DEF FetchList, NotStranded
<1>2. CASE v.entity # Unknown
  <2>1. view'.loading
    BY <1>2 DEF FetchList, ViewType
  <2>2. QED
    BY <2>1 DEF NotStranded
<1>3. QED
  BY <1>1, <1>2

LEMMA ShowStands ==
  ASSUME Inv, Asked, NEW a \in asks, Show(a)
  PROVE  NotStranded'
<1>1. TypeOK /\ view \in ViewType /\ site.screen = "admin" /\ a.at = "ready" /\ a.n = view.asked
  BY DEF Inv, TypeOK, Show, Latest
<1>2. /\ view'.entity = view.entity /\ view'.page = view.page /\ view'.items = a.items
      /\ view'.shown.torn = a.torn
  BY <1>1 DEF Show, ViewType
<1> SUFFICES ASSUME view.entity \in Paged, view.page > 1, a.items = {}, ~a.torn PROVE FALSE
  BY <1>1, <1>2, AskFacts DEF NotStranded
<1>3. view.entity # Unknown
  BY ListsAssumption
<1>4. a.entity = view.entity /\ a.offset = (view.page - 1) * view.limit
  BY <1>1, <1>3 DEF Inv, LatestAsksForView
<1>5. a.total <= a.offset
  BY <1>1, <1>4 DEF Asked, EmptyBeyond
<1>6. site.room \in Nat /\ a.total \in 0 .. site.room
  BY <1>1, AskFacts
<1>7. a.total \in Nat /\ view.limit \in Nat \ {0} /\ view.page \in Nat
  BY <1>1, <1>6 DEF ViewType
<1>8. view.page <= TotalPages(a.total, view.limit)
  <2>1. ~(view.page > TotalPages(a.total, view.limit))
    BY <1>4 DEF Show, Beyond
  <2>2. TotalPages(a.total, view.limit) \in Nat
    BY <1>7, TotalPagesType
  <2>3. QED
    BY <1>7, <2>1, <2>2
<1>9. (view.page - 1) * view.limit < a.total
  BY <1>7, <1>8, PageBegins
<1>10. (view.page - 1) * view.limit \in Nat
  BY <1>1, OffsetType DEF ViewType
<1> DEFINE o == (view.page - 1) * view.limit
<1> HIDE DEF o
<1>11. o \in Nat /\ o < a.total /\ a.total <= o
  BY <1>4, <1>5, <1>9, <1>10 DEF o
<1>12. QED
  BY <1>7, <1>11

LEMMA NextStands ==
  ASSUME Inv, Asked, NotStranded, [Next]_vars
  PROVE  NotStranded'
<1>1. view \in ViewType /\ site \in Sites
  BY DEF Inv, TypeOK
<1>2. ASSUME view' = view PROVE NotStranded'
  BY <1>2 DEF NotStranded
<1>3. ASSUME NEW v \in ViewType, Acts(v) PROVE NotStranded'
  BY <1>3, FetchStands DEF Acts
<1>4. ASSUME NEW p \in Nat \ {0}, Acts([view EXCEPT !.page = p]) PROVE NotStranded'
  <2>1. [view EXCEPT !.page = p] \in ViewType
    BY <1>1 DEF ViewType
  <2>2. QED
    BY <1>3, <1>4, <2>1
<1>5. ASSUME NEW a \in asks, Answers(a) PROVE NotStranded'
  <2>1. CASE List(a) \/ Count(a) \/ Fail(a) \/ Drop(a) \/ Collect(a) \/ Follow(a) \/ WalkFails(a)
    BY <1>2, <2>1 DEF List, Count, Fail, Drop, Collect, Follow, WalkFails, Advance
  <2>2. CASE Clamp(a)
    <3> DEFINE v == [view EXCEPT !.page = TotalPages(a.total, view.limit)]
    <3>1. a.total \in Nat
      <4>1. site.room \in Nat /\ a.total \in 0 .. site.room
        BY AskFacts DEF Inv
      <4>2. QED
        BY <4>1
    <3>2. view.limit \in Nat \ {0}
      BY <1>1 DEF ViewType
    <3>3. TotalPages(a.total, view.limit) \in Nat \ {0}
      BY <3>1, <3>2, TotalPagesType
    <3>4. v \in ViewType
      BY <1>1, <3>3 DEF ViewType
    <3>5. FetchList(v, asks \ {a})
      BY <2>2 DEF Clamp
    <3> HIDE DEF v
    <3>6. QED
      BY <3>4, <3>5, FetchStands
  <2>3. CASE Show(a)
    BY <2>3, ShowStands
  <2>4. CASE ShowError(a)
    <3>1. view'.error
      BY <1>1, <2>4 DEF ShowError, ViewType
    <3>2. QED
      BY <3>1 DEF NotStranded
  <2>5. QED
    BY <1>5, <2>1, <2>2, <2>3, <2>4 DEF Answers
<1>6. LastPage \in Nat \ {0} /\ view.page \in Nat \ {0}
  <2>1. view.total \in Nat /\ view.limit \in Nat \ {0} /\ view.page \in Nat \ {0}
    BY <1>1, ListsAssumption DEF ViewType
  <2>2. QED
    BY <2>1, TotalPagesType DEF LastPage
<1>7. CASE Refresh \/ NextPage \/ PrevPage
  <2>1. view.page + 1 \in Nat \ {0} /\ (view.page > 1 => view.page - 1 \in Nat \ {0})
    BY <1>6
  <2>2. QED
    BY <1>1, <1>3, <1>4, <1>7, <2>1 DEF Refresh, NextPage, PrevPage
<1>8. ASSUME NEW p \in 0 .. site.room + 1, GoToPage(p) PROVE NotStranded'
  <2>1. site.room \in Nat
    BY <1>1, ListsAssumption
  <2>2. Greatest(1, Least(p, LastPage)) \in Nat \ {0}
    BY <1>6, <2>1 DEF Greatest, Least
  <2>3. QED
    BY <1>4, <1>8, <2>2 DEF GoToPage
<1>9. ASSUME NEW s \in Sizes, SetPageSize(s) PROVE NotStranded'
  <2>1. s \in Nat \ {0} /\ 1 \in Nat \ {0}
    BY ListsAssumption
  <2>2. [view EXCEPT !.limit = s, !.page = 1] \in ViewType
    BY <1>1, <2>1 DEF ViewType
  <2>3. QED
    BY <1>3, <1>9, <2>2 DEF SetPageSize
<1>10. ASSUME NEW e \in Entities \cup {Unknown}, Switch(e) PROVE NotStranded'
  BY <1>1, <1>3, <1>10, SwitchedType DEF Switch
<1>11. CASE \E e \in Entities : \E i \in Room(e) :
             Create(e, i) \/ Delete(e, i) \/ \E j \in Room(e) : Move(e, i, j)
  BY <1>2, <1>11 DEF Create, Delete, Move, Writes
<1>12. CASE UNCHANGED vars
  BY <1>2, <1>12 DEF vars
<1>13. QED
  BY <1>5, <1>7, <1>8, <1>9, <1>10, <1>11, <1>12 DEF Next

(* The screen stands on an empty page after the first only when a record   *)
(* was created between the two reads of the answer it shows.               *)
THEOREM ScreenNotStranded == Spec => []NotStranded
<1>1. Init => Inv /\ WalkInv /\ NotStranded
  <2>1. Init => NotStranded
    BY DEF Init, NewView, NotStranded
  <2>2. QED
    BY <2>1, InitInv, InitWalk
<1>2. Inv /\ WalkInv /\ NotStranded /\ [Next]_vars => (Inv /\ WalkInv /\ NotStranded)'
  <2>1. Inv => TypeOK
    BY DEF Inv
  <2>2. WalkInv => Asked
    BY DEF WalkInv
  <2>3. QED
    BY <2>1, <2>2, NextInv, NextWalk, NextStands
<1>3. QED
  BY <1>1, <1>2, PTL DEF Spec
=============================================================================
