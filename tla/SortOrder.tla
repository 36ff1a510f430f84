----------------------------- MODULE SortOrder -----------------------------
(***************************************************************************)
(* The order of the generated lists (ontogen-core's order.rs and the       *)
(* comparators the generator emits): the keys a request names, then the    *)
(* id.  A record is the function from its fields to the rank of their      *)
(* values; -0.0 and 0.0 have one rank, a missing value the lowest.         *)
(***************************************************************************)
EXTENDS Naturals, Sequences, WellFoundedInduction, TLAPS

OrderBy(F) == [field : F, direction : {"asc", "desc"}]
Record(F)  == [F -> Nat]

(* Direction::apply on the comparison of one field.                        *)
Less(key, a, b) ==
  IF key.direction = "asc" THEN a[key.field] < b[key.field] ELSE b[key.field] < a[key.field]

(* effective: the keys and then the id, each field where it comes first.   *)
WithId(order, id) == Append(order, [field |-> id, direction |-> "asc"])
Kept(keys)        == {n \in 1 .. Len(keys) : \A m \in 1 .. n - 1 : keys[m].field # keys[n].field}

(* The first of the given keys that tells a and b apart puts a before b.   *)
Decides(keys, positions, a, b) ==
  \E n \in positions : /\ Less(keys[n], a, b)
                       /\ \A m \in positions : m < n => a[keys[m].field] = b[keys[m].field]

(* sort_{plural} and order_{plural}_query put a before b.                  *)
Before(order, id, a, b) ==
  LET keys == WithId(order, id) IN Decides(keys, Kept(keys), a, b)

-----------------------------------------------------------------------------
(* A set of naturals that is not empty has a least element.                *)
LEMMA LeastNat ==
  ASSUME NEW T, T \subseteq Nat, T # {}
  PROVE  \E n \in T : \A m \in T : n <= m
<1> DEFINE less == OpToRel(<, Nat)
<1>1. IsWellFoundedOn(less, Nat)
  BY NatLessThanWellFounded
<1>2. \A x, y \in Nat : <<y, x>> \in less <=> y < x
  BY DEF OpToRel
<1> HIDE DEF less
<1>3. PICK n \in T : \A m \in T : ~(<<m, n>> \in less)
  BY <1>1, WFMin
<1>4. ASSUME NEW m \in T PROVE n <= m
  <2>1. m \in Nat /\ n \in Nat /\ ~(m < n)
    BY <1>2, <1>3
  <2>2. QED
    BY <2>1
<1>5. QED
  BY <1>4

LEMMA KeysType ==
  ASSUME NEW F, NEW id \in F, NEW order \in Seq(OrderBy(F))
  PROVE  LET keys == WithId(order, id)
         IN  /\ keys \in Seq(OrderBy(F)) /\ Len(keys) \in Nat
             /\ \E n \in 1 .. Len(keys) : keys[n].field = id
             /\ \A n \in 1 .. Len(keys) : keys[n].field \in F
<1> DEFINE last == [field |-> id, direction |-> "asc"]
           keys == Append(order, last)
<1>1. last \in OrderBy(F) /\ last.field = id
  BY DEF OrderBy
<1> HIDE DEF last
<1>2. keys \in Seq(OrderBy(F)) /\ Len(keys) = Len(order) + 1 /\ Len(order) \in Nat
      /\ keys[Len(order) + 1] = last
  BY <1>1
<1>3. \A n \in 1 .. Len(keys) : keys[n] \in OrderBy(F)
  BY <1>2
<1>4. \A n \in 1 .. Len(keys) : keys[n].field \in F
  BY <1>3 DEF OrderBy
<1>5. Len(order) + 1 \in 1 .. Len(keys)
  BY <1>2
<1>6. QED
  BY <1>1, <1>2, <1>4, <1>5 DEF WithId, last

(* A field that is named at all is kept where it is named first.           *)
LEMMA KeptFirst ==
  ASSUME NEW keys, Len(keys) \in Nat, NEW n \in 1 .. Len(keys)
  PROVE  \E m \in Kept(keys) : m <= n /\ keys[m].field = keys[n].field
<1> DEFINE T == {m \in 1 .. Len(keys) : keys[m].field = keys[n].field}
<1>1. T \subseteq Nat /\ n \in T
  OBVIOUS
<1>2. PICK m \in T : \A k \in T : m <= k
  BY <1>1, LeastNat
<1>3. m \in Kept(keys)
  BY <1>2 DEF Kept
<1>4. QED
  BY <1>1, <1>2, <1>3

-----------------------------------------------------------------------------
(* "The id tie-break makes the order total, so a page is well defined":    *)
(* whatever keys a request names, and however often, no two records of     *)
(* different ids are left in no order, and there is no going around.       *)
THEOREM OrderIsTotal ==
  ASSUME NEW F, NEW id \in F, NEW order \in Seq(OrderBy(F)),
         NEW rows \in SUBSET Record(F), \A a, b \in rows : a[id] = b[id] => a = b
  PROVE  /\ \A a \in rows : ~Before(order, id, a, a)
         /\ \A a, b \in rows : a # b => Before(order, id, a, b) \/ Before(order, id, b, a)
         /\ \A a, b, c \in rows :
              Before(order, id, a, b) /\ Before(order, id, b, c) => Before(order, id, a, c)
<1> DEFINE keys == WithId(order, id)
           kept == Kept(keys)
<1>1. /\ Len(keys) \in Nat
      /\ \E n \in 1 .. Len(keys) : keys[n].field = id
      /\ \A n \in 1 .. Len(keys) : keys[n].field \in F
  BY KeysType
<1>2. kept \subseteq 1 .. Len(keys) /\ kept \subseteq Nat
  BY <1>1 DEF Kept
<1>3. \E n \in kept : keys[n].field = id
  BY <1>1, KeptFirst
<1>4. \A a \in rows : \A n \in kept : a[keys[n].field] \in Nat
  BY <1>1, <1>2 DEF Record
<1>5. \A a, b : Before(order, id, a, b) <=> Decides(keys, kept, a, b)
  BY DEF Before
<1> HIDE DEF keys, kept
<1>6. ASSUME NEW a \in rows PROVE ~Decides(keys, kept, a, a)
  BY <1>4 DEF Decides, Less
<1>7. ASSUME NEW a \in rows, NEW b \in rows, a # b
      PROVE  Decides(keys, kept, a, b) \/ Decides(keys, kept, b, a)
  <2> DEFINE T == {n \in kept : a[keys[n].field] # b[keys[n].field]}
  <2>1. T \subseteq Nat /\ T # {}
    BY <1>2, <1>3, <1>7
  <2>2. PICK n \in T : \A m \in T : n <= m
    BY <2>1, LeastNat
  <2>3. n \in kept /\ a[keys[n].field] # b[keys[n].field]
    BY <2>2
  <2>4. ASSUME NEW m \in kept, m < n PROVE a[keys[m].field] = b[keys[m].field]
    BY <1>2, <2>2, <2>3, <2>4
  <2>5. Less(keys[n], a, b) \/ Less(keys[n], b, a)
    BY <1>4, <2>3 DEF Less
  <2>6. QED
    BY <2>3, <2>4, <2>5 DEF Decides
<1>8. ASSUME NEW a \in rows, NEW b \in rows, NEW c \in rows,
             Decides(keys, kept, a, b), Decides(keys, kept, b, c)
      PROVE  Decides(keys, kept, a, c)
  <2>1. PICK n \in kept : /\ Less(keys[n], a, b)
                          /\ \A m \in kept : m < n => a[keys[m].field] = b[keys[m].field]
    BY <1>8 DEF Decides
  <2>2. PICK k \in kept : /\ Less(keys[k], b, c)
                          /\ \A m \in kept : m < k => b[keys[m].field] = c[keys[m].field]
    BY <1>8 DEF Decides
  <2>3. n \in Nat /\ k \in Nat
    BY <1>2
  <2>4. CASE n < k
    <3>1. Less(keys[n], a, c)
      BY <1>4, <2>1, <2>2, <2>4 DEF Less
    <3>2. ASSUME NEW m \in kept, m < n PROVE a[keys[m].field] = c[keys[m].field]
      BY <1>2, <2>1, <2>2, <2>3, <2>4, <3>2
    <3>3. QED
      BY <3>1, <3>2 DEF Decides
  <2>5. CASE k < n
    <3>1. Less(keys[k], a, c)
      BY <1>4, <2>1, <2>2, <2>5 DEF Less
    <3>2. ASSUME NEW m \in kept, m < k PROVE a[keys[m].field] = c[keys[m].field]
      BY <1>2, <2>1, <2>2, <2>3, <2>5, <3>2
    <3>3. QED
      BY <3>1, <3>2 DEF Decides
  <2>6. CASE n = k
    <3>1. Less(keys[n], a, c)
      BY <1>4, <2>1, <2>2, <2>6 DEF Less
    <3>2. QED
      BY <2>1, <2>2, <2>6, <3>1 DEF Decides
  <2>7. QED
    BY <2>3, <2>4, <2>5, <2>6
<1>9. QED
  BY <1>5, <1>6, <1>7, <1>8

(* "Each field's first occurrence only": a key that repeats a field, in    *)
(* whichever direction, would not change the order if it were kept.        *)
THEOREM RepeatsDecideNothing ==
  ASSUME NEW F, NEW id \in F, NEW order \in Seq(OrderBy(F)), NEW a \in Record(F), NEW b \in Record(F)
  PROVE  LET keys == WithId(order, id)
         IN  Before(order, id, a, b) <=> Decides(keys, 1 .. Len(keys), a, b)
<1> DEFINE keys == WithId(order, id)
           kept == Kept(keys)
<1>1. Len(keys) \in Nat /\ \A n \in 1 .. Len(keys) : keys[n].field \in F
  BY KeysType
<1>2. kept \subseteq 1 .. Len(keys)
  BY DEF Kept
<1>3. \A n \in 1 .. Len(keys) : \E m \in kept : m <= n /\ keys[m].field = keys[n].field
  BY <1>1, KeptFirst
<1>4. \A n \in 1 .. Len(keys) : a[keys[n].field] \in Nat /\ b[keys[n].field] \in Nat
  BY <1>1 DEF Record
<1>5. Before(order, id, a, b) <=> Decides(keys, kept, a, b)
  BY DEF Before
<1> HIDE DEF keys, kept
<1>6. ASSUME Decides(keys, kept, a, b) PROVE Decides(keys, 1 .. Len(keys), a, b)
  <2>1. PICK n \in kept : /\ Less(keys[n], a, b)
                          /\ \A m \in kept : m < n => a[keys[m].field] = b[keys[m].field]
    BY <1>6 DEF Decides
  <2>2. ASSUME NEW m \in 1 .. Len(keys), m < n PROVE a[keys[m].field] = b[keys[m].field]
    <3>1. PICK k \in kept : k <= m /\ keys[k].field = keys[m].field
      BY <1>3
    <3>2. k < n
      BY <1>1, <1>2, <2>2, <3>1
    <3>3. QED
      BY <2>1, <3>1, <3>2
  <2>3. QED
    BY <1>2, <2>1, <2>2 DEF Decides
<1>7. ASSUME Decides(keys, 1 .. Len(keys), a, b) PROVE Decides(keys, kept, a, b)
  <2>1. PICK n \in 1 .. Len(keys) :
          /\ Less(keys[n], a, b)
          /\ \A m \in 1 .. Len(keys) : m < n => a[keys[m].field] = b[keys[m].field]
    BY <1>7 DEF Decides
  <2>2. a[keys[n].field] # b[keys[n].field]
    BY <1>4, <2>1 DEF Less
  <2>3. PICK k \in kept : k <= n /\ keys[k].field = keys[n].field
    BY <1>3
  <2>4. k = n
    BY <1>1, <1>2, <2>1, <2>2, <2>3
  <2>5. QED
    BY <1>2, <2>1, <2>3, <2>4 DEF Decides
<1>8. QED
  BY <1>5, <1>6, <1>7 DEF keys
=============================================================================
