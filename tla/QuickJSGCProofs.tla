--------------------------- MODULE QuickJSGCProofs ---------------------------
(***************************************************************************)
(* Theorems about QuickJSGC, for any number of objects and any references  *)
(* among them.                                                             *)
(***************************************************************************)
EXTENDS QuickJSGC, FiniteSetTheorems, TLAPS

-----------------------------------------------------------------------------
(* The inductive invariant.                                                *)

Referrers(o, S) == {p \in S : o \in edges[p]}

(* The objects whose references are in the counts: the collector takes     *)
(* those of all objects away, adds those of what survives, then the rest.  *)
Counted ==
  IF phase = "decref" THEN todo
  ELSE IF phase = "scan" THEN mem \ (todo \union tmp)
  ELSE IF phase = "restore" THEN mem \ todo
  ELSE mem

Counts ==
  \A o \in mem : ref_count[o] = roots[o] + Cardinality(Referrers(o, Counted))

Heap ==
  /\ \A o \in Objs \ mem : edges[o] = {} /\ roots[o] = 0
  /\ \A p \in Parts : edges[p] \subseteq Values
  /\ NoDanglingField

Types ==
  /\ mem \subseteq Objs /\ free_mark \subseteq mem /\ mark \subseteq mem
  /\ ref_count \in [Objs -> Nat]
  /\ edges \in [Objs -> SUBSET Objs]
  /\ weak \subseteq Values \X Values \X Values
  /\ roots \in [Objs -> 0..MaxRoots]
  /\ phase \in PhaseNames /\ collected \in BOOLEAN /\ kept \subseteq Objs

(* Where the objects are in each phase.                                    *)
AtRest == tmp = {} /\ todo = {} /\ \A o \in mem : o \notin mark /\ o \notin free_mark
Emptied == todo \union (zero \ Parts)

Phases ==
  /\ phase = "none" => AtRest /\ zero = {}
  /\ phase = "zero" => AtRest /\ zero \subseteq {o \in mem : ref_count[o] = 0}
  /\ phase = "decref" =>
       /\ zero = {} /\ todo \subseteq mem
       /\ tmp = {o \in mem \ todo : ref_count[o] = 0}
       /\ \A o \in mem : (o \in mark <=> o \notin todo) /\ o \notin free_mark
  /\ phase = "scan" =>
       /\ zero = {} /\ todo \subseteq mem \ tmp
       /\ tmp = {o \in mem : ref_count[o] = 0}
       /\ \A o \in mem : (o \in mark => o \in todo \union tmp) /\ o \notin free_mark
  /\ phase = "restore" =>
       /\ zero = {} /\ todo \subseteq tmp /\ tmp \subseteq mem
       /\ \A o \in mem : (o \in mark => o \in tmp) /\ o \notin free_mark
  /\ phase = "cycles" =>
       /\ tmp \subseteq mem /\ zero \subseteq mem /\ tmp \intersect zero = {}
       /\ todo \subseteq tmp \ Parts /\ \A o, p \in todo : o = p
       /\ \A o \in mem : (o \in mark => o \in tmp \union zero) /\ (o \in free_mark <=> o \in Emptied)
       /\ \A o \in Emptied : edges[o] = {}

Survivors == mem \ (tmp \union zero)

(* Once the scan is over, nothing that survives refers to what does not.   *)
Doomed ==
  phase \in {"restore", "cycles"} =>
    \A o \in tmp \union zero : roots[o] = 0 /\ \A p \in Survivors : o \notin edges[p]

(* No part that survives is left without a reference.                      *)
Held ==
  phase \in {"restore", "cycles"} =>
    \A o \in Survivors \intersect Parts : roots[o] # 0 \/ \E p \in Survivors : o \in edges[p]

(* What survives can be reached.                                           *)
Grounded ==
  phase \in {"scan", "restore"} =>
    \A S \in SUBSET Objs : Roots \subseteq S /\ Closed(S) => Survivors \subseteq S

Remembered ==
  /\ phase \in {"decref", "scan", "restore"} => kept = Reachable
  /\ phase = "cycles" => kept = Survivors
  /\ collected => phase = "none" /\ mem = kept

IInv == Types /\ Heap /\ Counts /\ Phases /\ Doomed /\ Held /\ Grounded /\ Remembered

-----------------------------------------------------------------------------
(* Counting.                                                               *)

LEMMA ReferrersFinite ==
  ASSUME Types, NEW o, NEW S \in SUBSET Objs
  PROVE  IsFiniteSet(Referrers(o, S)) /\ Cardinality(Referrers(o, S)) \in Nat
<1>1. IsFiniteSet(Objs)
  BY GCAssumption
<1>2. Referrers(o, S) \in SUBSET Objs
  BY DEF Referrers
<1>3. IsFiniteSet(Referrers(o, S))
  BY <1>1, <1>2, FS_Subset
<1>4. QED
  BY <1>3, FS_CardinalityType

LEMMA CountedIsSubset ==
  ASSUME Types, Phases
  PROVE  Counted \in SUBSET Objs
BY DEF Types, Phases, Counted, PhaseNames, AtRest

(* A count is zero when nothing that is counted refers to the object.      *)
LEMMA CountIsZero ==
  ASSUME Types, Phases, Counts, NEW o \in mem
  PROVE  ref_count[o] = 0 <=> roots[o] = 0 /\ \A p \in Counted : o \notin edges[p]
<1>1. /\ IsFiniteSet(Referrers(o, Counted)) /\ Cardinality(Referrers(o, Counted)) \in Nat
  BY CountedIsSubset, ReferrersFinite
<1>2. Cardinality(Referrers(o, Counted)) = 0 <=> Referrers(o, Counted) = {}
  BY <1>1, FS_EmptySet
<1>3. Referrers(o, Counted) = {} <=> \A p \in Counted : o \notin edges[p]
  BY DEF Referrers
<1>4. roots[o] \in Nat /\ ref_count[o] = roots[o] + Cardinality(Referrers(o, Counted))
  BY GCAssumption DEF Types, Counts
<1>5. QED
  BY <1>1, <1>2, <1>3, <1>4

LEMMA CountOneMore ==
  ASSUME NEW A, IsFiniteSet(A), NEW p, p \notin A
  PROVE  Cardinality(A \union {p}) = Cardinality(A) + 1
BY FS_AddElement

LEMMA CountOneLess ==
  ASSUME NEW A, IsFiniteSet(A), NEW p \in A
  PROVE  Cardinality(A \ {p}) = Cardinality(A) - 1
BY FS_RemoveElement

(* The references of an object are added to the counts, or taken away.     *)
LEMMA CountsUp ==
  ASSUME Types, Phases, Counts, NEW p \in Objs \ Counted,
         ref_count' = Plus(edges[p]), Counted' = Counted \union {p},
         mem' = mem, edges' = edges, roots' = roots
  PROVE  Counts'
<1> SUFFICES ASSUME NEW o \in mem
             PROVE  ref_count'[o] = roots[o] + Cardinality(Referrers(o, Counted)')
  BY DEF Counts
<1> DEFINE A == Referrers(o, Counted)
<1>1. Referrers(o, Counted)' = IF o \in edges[p] THEN A \union {p} ELSE A
  BY DEF Referrers
<1>2. IsFiniteSet(A) /\ p \notin A /\ Cardinality(A) \in Nat
  BY CountedIsSubset, ReferrersFinite DEF Referrers
<1>3. ref_count[o] = roots[o] + Cardinality(A) /\ roots[o] \in Nat /\ o \in Objs
  BY GCAssumption DEF Counts, Types
<1>4. ref_count'[o] = IF o \in edges[p] THEN ref_count[o] + 1 ELSE ref_count[o]
  BY <1>3 DEF Plus
<1> HIDE DEF A
<1>5. Cardinality(Referrers(o, Counted)') = IF o \in edges[p] THEN Cardinality(A) + 1 ELSE Cardinality(A)
  BY <1>1, <1>2, CountOneMore
<1>6. QED
  BY <1>2, <1>3, <1>4, <1>5

LEMMA CountsDown ==
  ASSUME Types, Phases, Counts, NEW p \in Counted,
         ref_count' = Minus(edges[p]), roots' = roots, mem' \subseteq mem,
         \A o \in mem' : Referrers(o, Counted)' = Referrers(o, Counted) \ {p}
  PROVE  Counts'
<1> SUFFICES ASSUME NEW o \in mem'
             PROVE  ref_count'[o] = roots[o] + Cardinality(Referrers(o, Counted)')
  BY DEF Counts
<1> DEFINE A == Referrers(o, Counted)
<1>1. Referrers(o, Counted)' = A \ {p}
  OBVIOUS
<1>2. IsFiniteSet(A) /\ Cardinality(A) \in Nat /\ (p \in A <=> o \in edges[p])
  BY CountedIsSubset, ReferrersFinite DEF Referrers
<1>3. ref_count[o] = roots[o] + Cardinality(A) /\ roots[o] \in Nat /\ o \in Objs
  BY GCAssumption DEF Counts, Types
<1>4. ref_count'[o] = IF o \in edges[p] THEN ref_count[o] - 1 ELSE ref_count[o]
  BY <1>3 DEF Minus
<1> HIDE DEF A
<1>5. Cardinality(A \ {p}) = IF p \in A THEN Cardinality(A) - 1 ELSE Cardinality(A)
  BY <1>2, FS_RemoveElement
<1>6. QED
  BY <1>1, <1>2, <1>3, <1>4, <1>5

LEMMA PlusIsNat ==
  ASSUME Types, NEW S
  PROVE  Plus(S) \in [Objs -> Nat]
BY DEF Types, Plus

LEMMA MinusIsNat ==
  ASSUME Types, Phases, Counts, Heap, NEW p \in Counted
  PROVE  Minus(edges[p]) \in [Objs -> Nat]
<1>1. p \in mem /\ edges[p] \subseteq mem
  BY DEF Heap, NoDanglingField, Counted, Phases
<1>2. \A o \in edges[p] : ref_count[o] # 0
  BY <1>1, CountIsZero
<1>3. QED
  BY <1>1, <1>2 DEF Minus, Types

LEMMA InitIInv == Init => IInv
<1> SUFFICES ASSUME Init PROVE IInv
  OBVIOUS
<1>1. Types
  <2>1. 0 \in 0..MaxRoots /\ 0 \in Nat
    BY GCAssumption
  <2>2. [o \in Objs |-> 0] \in [Objs -> 0..MaxRoots] /\ [o \in Objs |-> 0] \in [Objs -> Nat]
    BY <2>1
  <2>3. QED
    BY <2>2 DEF Init, Types, PhaseNames
<1>2. Heap
  BY GCAssumption DEF Init, Heap, NoDanglingField
<1>3. Counts /\ Phases /\ Doomed /\ Held /\ Grounded /\ Remembered
  BY DEF Init, Counts, Phases, AtRest, Doomed, Held, Grounded, Remembered
<1>4. QED
  BY <1>1, <1>2, <1>3 DEF IInv

-----------------------------------------------------------------------------
(* The program.                                                            *)

LEMMA ReachableIsIntact == IInv => ReachableStays
<1> SUFFICES ASSUME IInv PROVE ReachableStays
  OBVIOUS
<1> DEFINE S == IF phase = "cycles" THEN Survivors ELSE mem
<1>1. S \in SUBSET Objs /\ S \subseteq mem
  BY DEF IInv, Types, Survivors
<1>2. \A o \in S : o \notin free_mark
  BY DEF IInv, Types, Phases, AtRest, Survivors, Emptied, PhaseNames
<1>3. Roots \subseteq S
  <2>1. \A o \in Objs \ mem : roots[o] = 0
    BY DEF IInv, Heap
  <2>2. phase = "cycles" => \A o \in tmp \union zero : roots[o] = 0
    BY DEF IInv, Doomed
  <2>3. QED
    BY <2>1, <2>2 DEF Survivors, Roots
<1>4. Closed(S)
  BY DEF IInv, Heap, NoDanglingField, Doomed, Survivors, Closed
<1>5. Reachable \subseteq S
  BY <1>1, <1>3, <1>4 DEF Reachable
<1>6. QED
  BY <1>1, <1>2, <1>5 DEF ReachableStays, Intact

(* In the phase none everything in memory is intact and counted.           *)
LEMMA NewObjectKeeps ==
  ASSUME IInv, NEW o \in Objs, NewObject(o)
  PROVE  IInv'
<1>1. /\ phase = "none" /\ phase' = "none" /\ collected' = FALSE /\ kept' = {} /\ o \notin mem
      /\ mem' = mem \union {o} /\ edges' = edges /\ todo' = todo /\ tmp' = tmp /\ zero' = zero
      /\ UNCHANGED <<free_mark, mark, weak>>
      /\ edges[o] = {} /\ \A p \in mem : o \notin edges[p]
  BY DEF NewObject, InProgram, IInv, Heap, NoDanglingField, lists
<1>2. Types'
  <2>1. 1 \in 0..MaxRoots
    BY GCAssumption
  <2>2. roots' \in [Objs -> 0..MaxRoots] /\ ref_count' \in [Objs -> Nat]
    BY <2>1 DEF NewObject, IInv, Types
  <2>3. QED
    BY <1>1, <2>2 DEF NewObject, IInv, Types
<1>3. Heap'
  <2>1. roots' = [roots EXCEPT ![o] = 1]
    BY DEF NewObject
  <2>2. \A q \in Objs \ mem' : edges'[q] = {} /\ roots'[q] = 0
    BY <1>1, <2>1 DEF IInv, Heap, Types
  <2>3. NoDanglingField'
    BY <1>1 DEF IInv, Heap, NoDanglingField, Intact
  <2>4. QED
    BY <1>1, <2>2, <2>3 DEF IInv, Heap
<1>4. Counts'
  <2> SUFFICES ASSUME NEW q \in mem'
               PROVE  ref_count'[q] = roots'[q] + Cardinality(Referrers(q, Counted)')
    BY DEF Counts
  <2>1. Counted = mem /\ Counted' = mem'
    BY <1>1 DEF Counted
  <2>3. CASE q = o
    <3>1. Referrers(q, Counted)' = {}
      BY <1>1, <2>1, <2>3 DEF Referrers
    <3>2. ref_count'[o] = 1 /\ roots'[o] = 1
      BY <1>1 DEF NewObject, IInv, Types
    <3>3. QED
      BY <2>3, <3>1, <3>2, FS_EmptySet
  <2>4. CASE q # o
    <3>1. Referrers(q, Counted)' = Referrers(q, mem)
      BY <1>1, <2>1 DEF Referrers
    <3>2. ref_count'[q] = ref_count[q] /\ roots'[q] = roots[q] /\ q \in mem
      BY <1>1, <2>4 DEF NewObject, IInv, Types
    <3>3. QED
      BY <2>1, <3>1, <3>2 DEF IInv, Counts
  <2>5. QED
    BY <2>3, <2>4
<1>5. Phases'
  BY <1>1 DEF NewObject, IInv, Types, Phases, AtRest
<1>6. QED
  BY <1>1, <1>2, <1>3, <1>4, <1>5 DEF IInv, Doomed, Held, Grounded, Remembered

(* A reference from outside, or from a field, comes or goes.               *)
LEMMA DupKeeps ==
  ASSUME IInv, NEW o \in Objs, Dup(o)
  PROVE  IInv'
<1>1. /\ phase = "none" /\ phase' = "none" /\ collected' = FALSE /\ kept' = {}
      /\ o \in mem /\ mem' = mem /\ edges' = edges /\ UNCHANGED <<weak, tmp, zero, todo, mark, free_mark>>
      /\ roots' = [roots EXCEPT ![o] = @ + 1] /\ ref_count' = Plus({o}) /\ roots[o] < MaxRoots
  BY ReachableIsIntact DEF Dup, InProgram, ReachableStays, Intact, lists
<1>2. Types'
  <2>1. roots[o] + 1 \in 0..MaxRoots
    BY <1>1, GCAssumption DEF IInv, Types
  <2>2. roots' \in [Objs -> 0..MaxRoots]
    BY <1>1, <2>1 DEF IInv, Types
  <2>3. QED
    BY <1>1, <2>2, PlusIsNat DEF IInv, Types
<1>3. Heap'
  BY <1>1 DEF IInv, Heap, NoDanglingField, Intact, Types
<1>4. Counts'
  <2> SUFFICES ASSUME NEW q \in mem
               PROVE  ref_count'[q] = roots'[q] + Cardinality(Referrers(q, Counted)')
    BY <1>1 DEF Counts
  <2>1. Counted = mem /\ Counted' = mem
    BY <1>1 DEF Counted
  <2>2. Referrers(q, Counted)' = Referrers(q, Counted)
    BY <1>1, <2>1 DEF Referrers
  <2>3. /\ q \in Objs /\ roots[q] \in Nat /\ Cardinality(Referrers(q, Counted)) \in Nat
        /\ ref_count[q] = roots[q] + Cardinality(Referrers(q, Counted))
    BY CountedIsSubset, ReferrersFinite, GCAssumption DEF IInv, Types, Counts
  <2>4. ref_count'[q] = IF q = o THEN ref_count[q] + 1 ELSE ref_count[q]
    BY <1>1, <2>3 DEF Plus
  <2>5. roots'[q] = IF q = o THEN roots[q] + 1 ELSE roots[q]
    BY <1>1, <2>3 DEF IInv, Types
  <2>6. QED
    BY <2>2, <2>3, <2>4, <2>5
<1>5. Phases'
  BY <1>1 DEF IInv, Phases, AtRest
<1>6. QED
  BY <1>1, <1>2, <1>3, <1>4, <1>5 DEF IInv, Doomed, Held, Grounded, Remembered

LEMMA StoreKeeps ==
  ASSUME IInv, NEW p \in Objs, NEW o \in Objs, Store(p, o), {p, o} \cap Values # {},
         weak' \subseteq Values \X Values \X Values, \A w \in weak' : Intact(w[1])
  PROVE  IInv'
<1>1. /\ phase = "none" /\ phase' = "none" /\ collected' = FALSE /\ kept' = {}
      /\ p \in mem /\ o \in mem /\ mem' = mem /\ UNCHANGED <<tmp, zero, todo, mark, free_mark, roots>>
      /\ o \notin edges[p] /\ edges' = [edges EXCEPT ![p] = @ \union {o}] /\ ref_count' = Plus({o})
  BY ReachableIsIntact DEF Store, InProgram, ReachableStays, Intact, lists
<1>2. Types'
  <2>1. edges' \in [Objs -> SUBSET Objs]
    BY <1>1 DEF IInv, Types
  <2>2. QED
    BY <1>1, <2>1, PlusIsNat DEF IInv, Types
<1>3. Heap'
  <2>1. \A q \in Objs : edges'[q] = IF q = p THEN edges[q] \union {o} ELSE edges[q]
    BY <1>1 DEF IInv, Types
  <2>2. \A q \in Parts : edges'[q] \subseteq Values
    <3>1. p \in Parts => o \in Values
      BY DEF Values
    <3>2. (\A q \in Parts : edges[q] \subseteq Values) /\ Parts \subseteq Objs
      BY GCAssumption DEF IInv, Heap
    <3>3. QED
      BY <2>1, <3>1, <3>2
  <2>3. \A q \in mem : edges'[q] \subseteq mem
    BY <1>1, <2>1 DEF IInv, Heap, NoDanglingField, Types
  <2>4. \A q \in Objs \ mem : edges'[q] = {} /\ roots'[q] = 0
    BY <1>1, <2>1 DEF IInv, Heap
  <2>5. QED
    BY <1>1, <2>2, <2>3, <2>4 DEF Heap, NoDanglingField, Intact
<1>4. Counts'
  <2> SUFFICES ASSUME NEW q \in mem
               PROVE  ref_count'[q] = roots'[q] + Cardinality(Referrers(q, Counted)')
    BY <1>1 DEF Counts
  <2>1. Counted = mem /\ Counted' = mem
    BY <1>1 DEF Counted
  <2> DEFINE A == Referrers(q, Counted)
  <2>2. Referrers(q, Counted)' = IF q = o THEN A \union {p} ELSE A
    BY <1>1, <2>1 DEF Referrers, IInv, Types
  <2>a. IsFiniteSet(A) /\ Cardinality(A) \in Nat
    BY CountedIsSubset, ReferrersFinite DEF IInv
  <2>b. q = o => p \notin A
    BY <1>1 DEF Referrers
  <2>c. q \in Objs /\ roots[q] \in Nat
    BY GCAssumption DEF IInv, Types
  <2>3. /\ q \in Objs /\ roots[q] \in Nat /\ IsFiniteSet(A) /\ Cardinality(A) \in Nat
        /\ ref_count[q] = roots[q] + Cardinality(A) /\ (q = o => p \notin A)
    BY <2>a, <2>b, <2>c DEF IInv, Counts
  <2>4. ref_count'[q] = IF q = o THEN ref_count[q] + 1 ELSE ref_count[q]
    BY <1>1, <2>3 DEF Plus
  <2> HIDE DEF A
  <2>5. Cardinality(Referrers(q, Counted)') = IF q = o THEN Cardinality(A) + 1 ELSE Cardinality(A)
    BY <2>2, <2>3, CountOneMore
  <2>6. QED
    BY <1>1, <2>3, <2>4, <2>5
<1>5. Phases'
  BY <1>1 DEF IInv, Phases, AtRest
<1>6. QED
  BY <1>1, <1>2, <1>3, <1>4, <1>5 DEF IInv, Doomed, Held, Grounded, Remembered

LEMMA StoreFieldKeeps ==
  ASSUME IInv, NEW p \in Objs, NEW o \in Objs, StoreField(p, o)
  PROVE  IInv'
BY StoreKeeps DEF StoreField, IInv, Types, Heap, NoDanglingField, Intact

LEMMA SetWeakKeeps ==
  ASSUME IInv, NEW k \in Values, NEW m \in Values, NEW o \in Values, SetWeak(k, m, o)
  PROVE  IInv'
<1>1. Store(m, o) /\ k \in Reachable /\ weak' = weak \union {<<k, m, o>>}
  BY DEF SetWeak
<1>2. Intact(k)
  BY <1>1, ReachableIsIntact DEF ReachableStays
<1>3. weak' \subseteq Values \X Values \X Values /\ \A w \in weak' : Intact(w[1])
  BY <1>1, <1>2 DEF IInv, Types, Heap, NoDanglingField, Intact
<1>4. QED
  BY <1>1, <1>3, StoreKeeps DEF Values

(* A reference has been taken away, and the object waits to be freed if    *)
(* it was the last.                                                        *)
LEMMA FreeValueKeeps ==
  ASSUME IInv, NEW o \in mem, FreeValue(o), phase = "none", collected' = FALSE,
         UNCHANGED <<mem, free_mark, mark, tmp, todo>>, Types', Heap', Counts'
  PROVE  IInv'
<1>1. \/ phase' = "none" /\ zero' = zero
      \/ phase' = "zero" /\ zero' = {o} /\ ref_count'[o] = 0
  BY DEF FreeValue, Minus, IInv, Types
<1>2. Phases'
  BY <1>1 DEF IInv, Phases, AtRest
<1>3. QED
  BY <1>1, <1>2 DEF IInv, Doomed, Held, Grounded, Remembered

LEMMA PhaseTypes ==
  ASSUME Types, phase = "none", NEW o, FreeValue(o)
  PROVE  phase' \in PhaseNames /\ phase' \in {"none", "zero"}
BY DEF FreeValue, PhaseNames

LEMMA DropKeeps ==
  ASSUME IInv, NEW o \in Objs, Drop(o)
  PROVE  IInv'
<1>1. /\ phase = "none" /\ collected' = FALSE /\ kept' = {}
      /\ UNCHANGED <<mem, free_mark, mark, edges, weak, tmp, todo>>
      /\ roots[o] > 0 /\ roots' = [roots EXCEPT ![o] = @ - 1]
      /\ FreeValue(o) /\ ref_count' = Minus({o})
  BY DEF Drop, InProgram, FreeValue
<1>2. o \in mem
  BY <1>1 DEF IInv, Heap
<1>3. roots \in [Objs -> 0..MaxRoots] /\ ref_count \in [Objs -> Nat] /\ ref_count[o] > 0
  <2>1. roots \in [Objs -> 0..MaxRoots] /\ ref_count \in [Objs -> Nat]
    BY DEF IInv, Types
  <2>2. ref_count[o] # 0
    BY <1>1, <1>2, CountIsZero DEF IInv
  <2>3. QED
    BY <2>1, <2>2
<1>4. Types'
  <2>1. roots[o] - 1 \in 0..MaxRoots
    BY <1>1, <1>3, GCAssumption
  <2>2. roots' \in [Objs -> 0..MaxRoots]
    BY <1>1, <1>3, <2>1
  <2>3. ref_count' \in [Objs -> Nat]
    BY <1>1, <1>3 DEF Minus
  <2>4. QED
    BY <1>1, <2>2, <2>3, PhaseTypes DEF IInv, Types
<1>5. Heap'
  BY <1>1, <1>2 DEF IInv, Heap, NoDanglingField, Intact, Types
<1>6. Counts'
  <2> SUFFICES ASSUME NEW q \in mem
               PROVE  ref_count'[q] = roots'[q] + Cardinality(Referrers(q, Counted)')
    BY <1>1 DEF Counts
  <2>1. Counted = mem /\ Counted' = mem
    BY <1>1, PhaseTypes DEF Counted, IInv
  <2>2. Referrers(q, Counted)' = Referrers(q, Counted)
    BY <1>1, <2>1 DEF Referrers
  <2>3. /\ q \in Objs /\ roots[q] \in Nat /\ Cardinality(Referrers(q, Counted)) \in Nat
        /\ ref_count[q] = roots[q] + Cardinality(Referrers(q, Counted))
    BY CountedIsSubset, ReferrersFinite, GCAssumption DEF IInv, Types, Counts
  <2>4. ref_count'[q] = IF q = o THEN ref_count[q] - 1 ELSE ref_count[q]
    BY <1>1, <2>3 DEF Minus
  <2>5. roots'[q] = IF q = o THEN roots[q] - 1 ELSE roots[q]
    BY <1>1, <1>3, <2>3
  <2>6. QED
    BY <2>2, <2>3, <2>4, <2>5
<1>7. QED
  BY <1>1, <1>2, <1>4, <1>5, <1>6, FreeValueKeeps

LEMMA DeleteKeeps ==
  ASSUME IInv, NEW p \in Objs, NEW o \in Objs, Delete(p, o)
  PROVE  IInv'
<1>1. /\ phase = "none" /\ collected' = FALSE /\ kept' = {}
      /\ UNCHANGED <<mem, free_mark, mark, roots, tmp, todo>> /\ weak' \subseteq weak
      /\ p \in mem /\ o \in edges[p] /\ edges' = [edges EXCEPT ![p] = @ \ {o}]
      /\ FreeValue(o) /\ ref_count' = Minus({o})
  BY ReachableIsIntact DEF Delete, InProgram, FreeValue, ReachableStays, Intact
<1>2. o \in mem
  BY <1>1 DEF IInv, Heap, NoDanglingField, Intact
<1>3. ref_count \in [Objs -> Nat] /\ ref_count[o] > 0
  <2>1. ref_count \in [Objs -> Nat]
    BY DEF IInv, Types
  <2>2. ref_count[o] # 0
    BY <1>1, <1>2, CountIsZero DEF IInv, Counted
  <2>3. QED
    BY <2>1, <2>2
<1>4. Types'
  <2>1. edges' \in [Objs -> SUBSET Objs]
    BY <1>1 DEF IInv, Types
  <2>2. ref_count' \in [Objs -> Nat]
    BY <1>1, <1>3 DEF Minus
  <2>3. QED
    BY <1>1, <2>1, <2>2, PhaseTypes DEF IInv, Types
<1>5. Heap'
  <2>1. \A q \in Objs : edges'[q] \subseteq edges[q]
    BY <1>1 DEF IInv, Types
  <2>2. (\A q \in mem : edges'[q] \subseteq mem) /\ \A w \in weak' : Intact(w[1])
    BY <1>1, <2>1 DEF IInv, Heap, NoDanglingField, Types
  <2>3. \A q \in Objs \ mem : edges'[q] = {} /\ roots'[q] = 0
    BY <1>1, <2>1 DEF IInv, Heap
  <2>4. \A q \in Parts : edges'[q] \subseteq Values
    BY <2>1, GCAssumption DEF IInv, Heap
  <2>5. QED
    BY <1>1, <2>2, <2>3, <2>4 DEF Heap, NoDanglingField, Intact
<1>6. Counts'
  <2> SUFFICES ASSUME NEW q \in mem
               PROVE  ref_count'[q] = roots'[q] + Cardinality(Referrers(q, Counted)')
    BY <1>1 DEF Counts
  <2>1. Counted = mem /\ Counted' = mem
    BY <1>1, PhaseTypes DEF Counted, IInv
  <2> DEFINE A == Referrers(q, Counted)
  <2>2. Referrers(q, Counted)' = IF q = o THEN A \ {p} ELSE A
    BY <1>1, <2>1 DEF Referrers, IInv, Types
  <2>3. IsFiniteSet(A) /\ Cardinality(A) \in Nat
    BY CountedIsSubset, ReferrersFinite DEF IInv
  <2>4. q = o => p \in A
    BY <1>1, <2>1 DEF Referrers
  <2>5. q \in Objs /\ roots[q] \in Nat /\ ref_count[q] = roots[q] + Cardinality(A)
    BY GCAssumption DEF IInv, Types, Counts
  <2>6. ref_count'[q] = IF q = o THEN ref_count[q] - 1 ELSE ref_count[q]
    BY <1>1, <2>5 DEF Minus
  <2> HIDE DEF A
  <2>7. Cardinality(Referrers(q, Counted)') = IF q = o THEN Cardinality(A) - 1 ELSE Cardinality(A)
    BY <2>2, <2>3, <2>4, CountOneLess
  <2>8. QED
    BY <1>1, <2>3, <2>5, <2>6, <2>7
<1>7. QED
  BY <1>1, <1>2, <1>4, <1>5, <1>6, FreeValueKeeps

-----------------------------------------------------------------------------
(* Freeing what has no reference left.                                     *)

(* What freeing the fields of p and the records under its key changes.     *)
LEMMA FreeFieldsDoes ==
  ASSUME IInv, NEW p \in Objs, FreeFields(p)
  PROVE  /\ edges' \in [Objs -> SUBSET Objs] /\ edges'[p] = {}
         /\ \A q \in Objs : edges'[q] \subseteq edges[q]
         /\ \A q \in Objs \ {p} : \A o \in edges[q] \intersect Parts : o \in edges'[q]
         /\ weak' \subseteq weak /\ \A w \in weak' : w[1] # p
         /\ \A o \in Objs :
              ref_count'[o] = ref_count[o] - Cardinality({q \in Objs : o \in edges[q] \ edges'[q]})
<1>1. /\ edges' = [q \in Objs |-> edges[q] \ Lost(p)[q]]
      /\ weak' = {w \in weak : w[1] # p /\ w[2] # p}
      /\ ref_count' = [o \in Objs |-> ref_count[o] - Cardinality(Losers(p, o))]
  BY DEF FreeFields
<1>2. edges \in [Objs -> SUBSET Objs] /\ weak \subseteq Values \X Values \X Values
  BY DEF IInv, Types
<1>3. \A q \in Objs : Lost(p)[q] = IF q = p THEN edges[p] ELSE {o \in edges[q] : <<p, q, o>> \in weak}
  BY DEF Lost
<1>4. \A q \in Objs : edges'[q] = edges[q] \ Lost(p)[q] /\ Lost(p)[q] \subseteq edges[q]
  BY <1>1, <1>3
<1>5. ASSUME NEW q \in Objs \ {p}, NEW o \in edges[q] \intersect Parts PROVE o \in edges'[q]
  <2>1. o \notin Values
    BY DEF Values
  <2>2. <<p, q, o>> \notin weak
    BY <1>2, <2>1
  <2>3. QED
    BY <1>3, <1>4, <2>2
<1>6. ASSUME NEW o \in Objs PROVE Losers(p, o) = {q \in Objs : o \in edges[q] \ edges'[q]}
  BY <1>4 DEF Losers
<1>7. \A o \in Objs : ref_count'[o] = ref_count[o] - Cardinality(Losers(p, o))
  BY <1>1
<1>8. edges' \in [Objs -> SUBSET Objs] /\ edges'[p] = {}
  BY <1>1, <1>2, <1>3, <1>4
<1>9. weak' \subseteq weak /\ \A w \in weak' : w[1] # p
  BY <1>1
<1>10. QED
  BY <1>4, <1>5, <1>6, <1>7, <1>8, <1>9

(* The counts are those of the references that are left.                   *)
LEMMA FreeFieldsCounts ==
  ASSUME IInv, phase \in {"zero", "cycles"}, NEW p \in Objs, FreeFields(p)
  PROVE  /\ \A o \in mem : ref_count'[o] = roots[o] + Cardinality({q \in mem : o \in edges'[q]})
         /\ ref_count' \in [Objs -> Nat]
         /\ \A o \in Objs : ref_count'[o] <= ref_count[o]
<1>1. /\ Counted = mem /\ mem \subseteq Objs /\ ref_count \in [Objs -> Nat]
      /\ \A q \in Objs \ mem : edges[q] = {}
      /\ \A q \in mem : edges[q] \subseteq mem
      /\ \A q \in Objs : edges'[q] \subseteq edges[q]
  BY FreeFieldsDoes DEF Counted, IInv, Types, Heap, NoDanglingField, Intact
<1>2. ASSUME NEW o \in Objs
      PROVE  /\ o \in mem => ref_count'[o] = roots[o] + Cardinality({q \in mem : o \in edges'[q]})
             /\ ref_count'[o] \in Nat /\ ref_count'[o] <= ref_count[o]
  <2> DEFINE A == Referrers(o, mem)
  <2> DEFINE B == {q \in Objs : o \in edges[q] \ edges'[q]}
  <2> DEFINE C == {q \in mem : o \in edges'[q]}
  <2>1. C = A \ B /\ A \intersect B = B /\ A \subseteq Objs
    BY <1>1 DEF Referrers
  <2>2. IsFiniteSet(A) /\ Cardinality(A) \in Nat
    BY <1>1, ReferrersFinite DEF IInv
  <2>3. ref_count'[o] = ref_count[o] - Cardinality(B)
    BY FreeFieldsDoes
  <2>4. o \in mem => ref_count[o] = roots[o] + Cardinality(A) /\ roots[o] \in Nat
    BY <1>1, GCAssumption DEF IInv, Counts, Types
  <2>5. o \notin mem => A = {}
    BY <1>1 DEF Referrers
  <2> HIDE DEF A, B, C
  <2>6. IsFiniteSet(C) /\ Cardinality(C) = Cardinality(A) - Cardinality(B)
    <3>1. IsFiniteSet(A \ B) /\ Cardinality(A \ B) = Cardinality(A) - Cardinality(A \cap B)
      BY <2>2, FS_Difference
    <3>2. QED
      BY <2>1, <3>1
  <2>7. IsFiniteSet(B) /\ Cardinality(B) \in Nat /\ Cardinality(C) \in Nat
    <3>1. IsFiniteSet(B)
      BY <2>1, <2>2, FS_Intersection
    <3>2. QED
      BY <3>1, <2>6, FS_CardinalityType
  <2>8. CASE o \in mem
    <3>1. ref_count'[o] = roots[o] + Cardinality(C)
      BY <2>2, <2>3, <2>4, <2>6, <2>7, <2>8
    <3>2. ref_count'[o] \in Nat /\ ref_count'[o] <= ref_count[o]
      BY <2>2, <2>3, <2>4, <2>6, <2>7, <2>8
    <3>3. QED
      BY <3>1, <3>2 DEF C
  <2>9. CASE o \notin mem
    <3>1. B = {} /\ Cardinality(B) = 0
      BY <2>1, <2>5, <2>9, FS_EmptySet
    <3>2. QED
      BY <1>1, <2>3, <2>9, <3>1
  <2>10. QED
    BY <2>8, <2>9
<1>3. ref_count' \in [Objs -> Nat]
  <2>1. ref_count' = [o \in Objs |-> ref_count'[o]]
    BY DEF FreeFields
  <2>2. QED
    BY <1>2, <2>1
<1>4. QED
  BY <1>1, <1>2, <1>3

LEMMA FreedCounts ==
  ASSUME IInv, phase \in {"zero", "cycles"}, phase' = phase, NEW p \in Objs, FreeFields(p),
         roots' = roots, mem' \in {mem, mem \ {p}}
  PROVE  Counts'
<1> SUFFICES ASSUME NEW o \in mem'
             PROVE  ref_count'[o] = roots[o] + Cardinality(Referrers(o, Counted)')
  BY DEF Counts
<1>1. Counted' = mem' /\ edges'[p] = {} /\ o \in mem
  BY FreeFieldsDoes DEF Counted
<1>2. Referrers(o, Counted)' = {q \in mem : o \in edges'[q]}
  BY <1>1 DEF Referrers
<1>3. QED
  BY <1>1, <1>2, FreeFieldsCounts

(* Nothing refers to an object whose count has come to zero.               *)
LEMMA NoneLeft ==
  ASSUME IInv, phase \in {"zero", "cycles"}, NEW p \in mem, FreeFields(p), ref_count'[p] = 0
  PROVE  roots[p] = 0 /\ \A q \in mem : p \notin edges'[q]
<1> DEFINE C == {q \in mem : p \in edges'[q]}
<1>1. IsFiniteSet(C)
  <2>1. IsFiniteSet(Objs) /\ C \in SUBSET Objs
    BY GCAssumption DEF IInv, Types
  <2>2. QED
    BY <2>1, FS_Subset
<1>2. p \in Objs /\ roots[p] \in Nat
  BY GCAssumption DEF IInv, Types
<1>3. 0 = roots[p] + Cardinality(C)
  BY <1>2, FreeFieldsCounts
<1> HIDE DEF C
<1>4. Cardinality(C) \in Nat
  BY <1>1, FS_CardinalityType
<1>5. roots[p] = 0 /\ Cardinality(C) = 0
  BY <1>2, <1>3, <1>4
<1>6. C = {}
  BY <1>1, <1>5, FS_EmptySet
<1>7. QED
  BY <1>5, <1>6 DEF C

(* The heap stays whole when the fields of p are freed, and its memory is  *)
(* released if its count is zero.                                          *)
LEMMA FreedHeap ==
  ASSUME IInv, phase \in {"zero", "cycles"}, NEW p \in mem, FreeFields(p), roots' = roots,
         \/ mem' = mem /\ free_mark' = free_mark \union {p}
         \/ mem' = mem \ {p} /\ free_mark' = free_mark \ {p} /\ ref_count'[p] = 0
  PROVE  Heap'
<1>1. /\ p \in Objs /\ edges'[p] = {} /\ weak' \subseteq weak
      /\ \A q \in Objs : edges'[q] \subseteq edges[q]
      /\ \A w \in weak' : w[1] # p
  BY FreeFieldsDoes DEF IInv, Types
<1>2. mem' = mem \/ (roots[p] = 0 /\ \A q \in mem : p \notin edges'[q])
  BY NoneLeft
<1>3. \A o \in Objs \ mem' : edges'[o] = {} /\ roots'[o] = 0
  BY <1>1, <1>2 DEF IInv, Heap
<1>4. \A q \in Parts : edges'[q] \subseteq Values
  BY <1>1, GCAssumption DEF IInv, Heap
<1>5. \A q \in mem' : edges'[q] \subseteq mem'
  BY <1>1, <1>2 DEF IInv, Heap, NoDanglingField, Types
<1>6. \A w \in weak' : Intact(w[1])'
  BY <1>1 DEF IInv, Heap, NoDanglingField, Intact
<1>7. QED
  BY <1>3, <1>4, <1>5, <1>6 DEF Heap, NoDanglingField

LEMMA FreeZeroKeeps ==
  ASSUME IInv, NEW p \in Objs, FreeZero(p)
  PROVE  IInv'
<1>1. /\ phase = "zero" /\ phase' = "zero" /\ p \in zero /\ FreeFields(p)
      /\ zero' = (zero \ {p}) \union Orphans
      /\ mem' = mem \ {p} /\ free_mark' = free_mark \ {p} /\ mark' = mark \ {p}
      /\ UNCHANGED <<roots, tmp, todo, collected, kept>>
  BY DEF FreeZero, Release, history
<1>2. /\ zero \subseteq {o \in mem : ref_count[o] = 0} /\ tmp = {} /\ todo = {}
      /\ p \in mem /\ ref_count[p] = 0 /\ \A o \in mem : o \notin mark /\ o \notin free_mark
  BY <1>1 DEF IInv, Phases, AtRest
<1>3. /\ ref_count' \in [Objs -> Nat] /\ ref_count \in [Objs -> Nat] /\ mem \subseteq Objs
      /\ \A o \in Objs : ref_count'[o] <= ref_count[o]
  BY <1>1, FreeFieldsCounts DEF IInv, Types
<1>4. ref_count'[p] = 0
  BY <1>2, <1>3
<1>5. Types'
  BY <1>1, <1>3, FreeFieldsDoes DEF IInv, Types
<1>6. Counts' /\ Heap'
  BY <1>1, <1>2, <1>4, FreedCounts, FreedHeap
<1>7. Phases'
  <2>1. \A o \in zero : ref_count'[o] = 0
    BY <1>2, <1>3
  <2>2. p \notin Orphans /\ Orphans \subseteq mem /\ \A o \in Orphans : ref_count'[o] = 0
    BY <1>2 DEF Orphans
  <2>3. zero' \subseteq {o \in mem' : ref_count'[o] = 0}
    BY <1>1, <1>2, <2>1, <2>2
  <2>4. QED
    BY <1>1, <1>2, <2>3 DEF Phases, AtRest
<1>8. QED
  BY <1>1, <1>5, <1>6, <1>7 DEF IInv, Doomed, Held, Grounded, Remembered

LEMMA ZeroEndsKeeps ==
  ASSUME IInv, ZeroEnds
  PROVE  IInv'
<1>1. phase = "zero" /\ zero = {} /\ phase' = "none"
      /\ UNCHANGED <<mem, free_mark, edges, weak, roots, ref_count, mark, tmp, zero, todo, collected, kept>>
  BY DEF ZeroEnds, heap, lists, history
<1>2. Types' /\ Heap' /\ Counts'
  BY <1>1 DEF IInv, Types, Heap, NoDanglingField, Intact, Counts, Counted, Referrers, PhaseNames
<1>3. Phases'
  BY <1>1 DEF IInv, Phases, AtRest
<1>4. QED
  BY <1>1, <1>2, <1>3 DEF IInv, Doomed, Held, Grounded, Remembered

-----------------------------------------------------------------------------
(* The collector.                                                          *)

LEMMA RunGCKeeps ==
  ASSUME IInv, RunGC
  PROVE  IInv'
<1>1. /\ phase = "none" /\ phase' = "decref" /\ todo' = mem /\ collected' = FALSE /\ kept' = Reachable
      /\ UNCHANGED <<mem, free_mark, edges, weak, roots, ref_count, mark, tmp, zero>>
  BY DEF RunGC, heap, lists
<1>2. Types' /\ Heap' /\ Counts'
  <2>1. Reachable \subseteq Objs
    BY DEF Reachable
  <2>2. QED
    BY <1>1, <2>1 DEF IInv, Types, Heap, NoDanglingField, Intact, Counts, Counted, Referrers, PhaseNames
<1>3. Phases'
  BY <1>1 DEF IInv, Phases, AtRest
<1>4. QED
  BY <1>1, <1>2, <1>3 DEF IInv, Doomed, Held, Grounded, Remembered, Reachable, Roots, Closed

LEMMA SameReach ==
  ASSUME roots' = roots, edges' = edges
  PROVE  Reachable' = Reachable
BY DEF Reachable, Roots, Closed

LEMMA DecrefKeeps ==
  ASSUME IInv, NEW p \in Objs, Decref(p)
  PROVE  IInv'
<1>1. /\ phase = "decref" /\ phase' = "decref" /\ p \in todo
      /\ ref_count' = Minus(edges[p]) /\ mark' = mark \union {p}
      /\ tmp' = tmp \union Zeroed(p) /\ todo' = todo \ {p}
      /\ UNCHANGED <<mem, free_mark, edges, roots, zero, weak, collected, kept>>
  BY DEF Decref, heap, history
<1>2. /\ zero = {} /\ todo \subseteq mem /\ tmp = {o \in mem \ todo : ref_count[o] = 0}
      /\ \A o \in mem : (o \in mark <=> o \notin todo) /\ o \notin free_mark
  BY <1>1 DEF IInv, Phases
<1>3. Counted = todo /\ Counted' = todo'
  BY <1>1 DEF Counted
<1>4. Types'
  BY <1>1, <1>2, <1>3, MinusIsNat DEF IInv, Types
<1>5. Heap'
  BY <1>1 DEF IInv, Heap, NoDanglingField, Intact
<1>6. Counts'
  <2>1. \A o : Referrers(o, Counted)' = Referrers(o, Counted) \ {p}
    BY <1>1, <1>3 DEF Referrers
  <2>2. QED
    BY <1>1, <1>3, <2>1, CountsDown DEF IInv
<1>7. \A o \in Objs : ref_count'[o] = IF o \in edges[p] THEN ref_count[o] - 1 ELSE ref_count[o]
  BY <1>1 DEF Minus
<1>8. p \in mem /\ edges[p] \subseteq mem /\ mem \subseteq Objs
  BY <1>1, <1>2 DEF IInv, Heap, NoDanglingField, Types
<1>9. \A o \in edges[p] : ref_count[o] # 0
  BY <1>1, <1>3, <1>8, CountIsZero DEF IInv
<1>10. tmp' = {o \in mem \ todo' : ref_count'[o] = 0}
  <2>1. ASSUME NEW o \in mem PROVE o \in tmp' <=> o \notin todo' /\ ref_count'[o] = 0
    <3>1. CASE o = p
      BY <1>1, <1>2, <1>8, <3>1 DEF Zeroed
    <3>2. CASE o # p /\ o \in edges[p]
      BY <1>1, <1>2, <1>8, <1>9, <3>2 DEF Zeroed
    <3>3. CASE o # p /\ o \notin edges[p]
      BY <1>1, <1>2, <1>7, <1>8, <3>3 DEF Zeroed
    <3>4. QED
      BY <3>1, <3>2, <3>3
  <2>2. tmp' \subseteq mem
    BY <1>1, <1>2, <1>8 DEF Zeroed
  <2>3. QED
    BY <2>1, <2>2
<1>11. Phases'
  BY <1>1, <1>2, <1>8, <1>10 DEF Phases
<1>12. QED
  BY <1>1, <1>4, <1>5, <1>6, <1>11, SameReach DEF IInv, Doomed, Held, Grounded, Remembered

(* What has a reference from outside can be reached.                       *)
LEMMA DecrefEndsKeeps ==
  ASSUME IInv, DecrefEnds
  PROVE  IInv'
<1>1. /\ phase = "decref" /\ todo = {} /\ phase' = "scan" /\ todo' = mem \ tmp
      /\ UNCHANGED <<mem, free_mark, edges, roots, ref_count, mark, tmp, zero, weak, collected, kept>>
  BY DEF DecrefEnds, heap, lists, history
<1>2. /\ zero = {} /\ tmp = {o \in mem : ref_count[o] = 0}
      /\ \A o \in mem : o \in mark /\ o \notin free_mark
  BY <1>1 DEF IInv, Phases
<1>3. Counted = {} /\ Counted' = {}
  BY <1>1, <1>2 DEF Counted
<1>4. Types' /\ Heap' /\ Counts'
  BY <1>1, <1>3 DEF IInv, Types, Heap, NoDanglingField, Intact, Counts, Referrers, PhaseNames
<1>5. Phases'
  BY <1>1, <1>2 DEF Phases
<1>6. Grounded'
  <2>1. Survivors' = mem \ tmp
    BY <1>1, <1>2 DEF Survivors
  <2>2. \A o \in mem \ tmp : roots[o] # 0 /\ roots[o] \in Nat /\ o \in Objs
    BY <1>1, <1>2, <1>3, CountIsZero, GCAssumption DEF IInv, Types
  <2>3. mem \ tmp \subseteq Roots'
    BY <1>1, <2>2 DEF Roots
  <2>4. QED
    BY <2>1, <2>3 DEF Grounded
<1>7. QED
  BY <1>1, <1>4, <1>5, <1>6, SameReach DEF IInv, Doomed, Held, Remembered

LEMMA ScanKeeps ==
  ASSUME IInv, NEW p \in Objs, Scan(p)
  PROVE  IInv'
<1>1. /\ phase = "scan" /\ phase' = "scan" /\ p \in todo
      /\ ref_count' = Plus(edges[p]) /\ mark' = (mark \ {p}) \ Rescued(p)
      /\ tmp' = tmp \ Rescued(p) /\ todo' = (todo \ {p}) \union Rescued(p)
      /\ UNCHANGED <<mem, free_mark, edges, roots, zero, weak, collected, kept>>
  BY DEF Scan, Left, Unmarked, heap, history
<1>2. /\ zero = {} /\ todo \subseteq mem \ tmp /\ tmp = {o \in mem : ref_count[o] = 0}
      /\ \A o \in mem : (o \in mark => o \in todo \union tmp) /\ o \notin free_mark
  BY <1>1 DEF IInv, Phases
<1>3. p \in mem /\ p \notin tmp /\ edges[p] \subseteq mem /\ mem \subseteq Objs
  BY <1>1, <1>2 DEF IInv, Heap, NoDanglingField, Types
<1>4. Rescued(p) = edges[p] \intersect tmp
  BY <1>2, <1>3 DEF Rescued
<1>5. Counted = mem \ (todo \union tmp) /\ Counted' = Counted \union {p} /\ p \notin Counted
  BY <1>1, <1>3, <1>4 DEF Counted
<1>6. Counts'
  BY <1>1, <1>5, CountsUp DEF IInv
<1>7. Types'
  BY <1>1, PlusIsNat DEF IInv, Types
<1>8. Heap'
  BY <1>1 DEF IInv, Heap, NoDanglingField, Intact
<1>9. Phases'
  <2>1. \A o \in Objs : ref_count'[o] = IF o \in edges[p] THEN ref_count[o] + 1 ELSE ref_count[o]
    BY <1>1 DEF Plus
  <2>2. \A o \in Objs : ref_count[o] \in Nat
    BY DEF IInv, Types
  <2>3. tmp' = {o \in mem : ref_count'[o] = 0}
    BY <1>1, <1>2, <1>3, <1>4, <2>1, <2>2
  <2>4. todo' \subseteq mem \ tmp'
    BY <1>1, <1>2, <1>3, <1>4
  <2>5. \A o \in mem : o \in mark' => o \in todo' \union tmp'
    BY <1>1, <1>2
  <2>6. QED
    BY <1>1, <1>2, <2>3, <2>4, <2>5 DEF Phases
<1>10. Grounded'
  <2>1. Survivors = mem \ tmp /\ Survivors' = Survivors \union Rescued(p)
    BY <1>1, <1>2, <1>4 DEF Survivors
  <2>2. ASSUME NEW S \in SUBSET Objs, Roots \subseteq S, Closed(S)
        PROVE  Survivors' \subseteq S
    <3>1. Survivors \subseteq S
      BY <1>1, <2>2 DEF IInv, Grounded
    <3>2. edges[p] \subseteq S
      BY <1>3, <2>1, <2>2, <3>1 DEF Closed
    <3>3. QED
      BY <1>4, <2>1, <3>1, <3>2
  <2>3. QED
    BY <1>1, <2>2 DEF Grounded, Roots, Closed
<1>11. QED
  BY <1>1, <1>6, <1>7, <1>8, <1>9, <1>10, SameReach DEF IInv, Doomed, Held, Remembered

LEMMA ScanEndsKeeps ==
  ASSUME IInv, ScanEnds
  PROVE  IInv'
<1>1. /\ phase = "scan" /\ todo = {} /\ phase' = "restore" /\ todo' = tmp
      /\ UNCHANGED <<mem, free_mark, edges, roots, ref_count, mark, tmp, zero, weak, collected, kept>>
  BY DEF ScanEnds, heap, lists, history
<1>2. /\ zero = {} /\ tmp = {o \in mem : ref_count[o] = 0}
      /\ \A o \in mem : (o \in mark => o \in tmp) /\ o \notin free_mark
  BY <1>1 DEF IInv, Phases
<1>3. Counted = mem \ tmp /\ Counted' = mem \ tmp /\ Survivors = mem \ tmp /\ Survivors' = mem \ tmp
  BY <1>1, <1>2 DEF Counted, Survivors
<1>4. Types' /\ Heap' /\ Counts'
  BY <1>1, <1>3 DEF IInv, Types, Heap, NoDanglingField, Intact, Counts, Referrers, PhaseNames
<1>5. Phases'
  BY <1>1, <1>2 DEF Phases
<1>6. Doomed'
  <2>1. \A o \in tmp : roots[o] = 0 /\ \A q \in mem \ tmp : o \notin edges[q]
    BY <1>2, <1>3, CountIsZero DEF IInv
  <2>2. QED
    BY <1>1, <1>2, <1>3, <2>1 DEF Doomed
<1>7. Grounded'
  BY <1>1, <1>3 DEF IInv, Grounded, Roots, Closed
<1>8. Held'
  <2>1. ASSUME NEW o \in Survivors \intersect Parts
        PROVE  roots[o] # 0 \/ \E p \in Survivors : o \in edges[p]
    <3>1. o \in mem /\ ref_count[o] # 0
      BY <1>2, <1>3, <2>1
    <3>2. QED
      BY <1>3, <3>1, CountIsZero DEF IInv
  <2>2. QED
    BY <1>1, <1>3, <2>1 DEF Held
<1>9. QED
  BY <1>1, <1>4, <1>5, <1>6, <1>7, <1>8, SameReach DEF IInv, Remembered

LEMMA RestoreKeeps ==
  ASSUME IInv, NEW p \in Objs, Restore(p)
  PROVE  IInv'
<1>1. /\ phase = "restore" /\ phase' = "restore" /\ p \in todo
      /\ ref_count' = Plus(edges[p]) /\ todo' = todo \ {p}
      /\ UNCHANGED <<mem, free_mark, edges, roots, mark, tmp, zero, weak, collected, kept>>
  BY DEF Restore, heap, lists, history
<1>2. /\ zero = {} /\ todo \subseteq tmp /\ tmp \subseteq mem
      /\ \A o \in mem : (o \in mark => o \in tmp) /\ o \notin free_mark
  BY <1>1 DEF IInv, Phases
<1>3. Counted' = Counted \union {p} /\ p \notin Counted
  BY <1>1, <1>2 DEF Counted
<1>4. Counts'
  BY <1>1, <1>3, CountsUp DEF IInv
<1>5. Types' /\ Heap'
  BY <1>1, PlusIsNat DEF IInv, Types, Heap, NoDanglingField, Intact
<1>6. Phases'
  BY <1>1, <1>2 DEF Phases
<1>7. Doomed' /\ Held' /\ Grounded'
  BY <1>1 DEF IInv, Doomed, Held, Grounded, Survivors, Roots, Closed
<1>8. QED
  BY <1>1, <1>4, <1>5, <1>6, <1>7, SameReach DEF IInv, Remembered

LEMMA RestoreEndsKeeps ==
  ASSUME IInv, RestoreEnds
  PROVE  IInv'
<1>1. /\ phase = "restore" /\ todo = {} /\ phase' = "cycles"
      /\ UNCHANGED <<mem, free_mark, edges, roots, ref_count, mark, tmp, zero, todo, weak, collected, kept>>
  BY DEF RestoreEnds, heap, lists, history
<1>2. /\ zero = {} /\ tmp \subseteq mem
      /\ \A o \in mem : (o \in mark => o \in tmp) /\ o \notin free_mark
  BY <1>1 DEF IInv, Phases
<1>3. Counted = mem /\ Counted' = mem
  BY <1>1 DEF Counted
<1>4. Types' /\ Heap' /\ Counts'
  BY <1>1, <1>3 DEF IInv, Types, Heap, NoDanglingField, Intact, Counts, Referrers, PhaseNames
<1>5. Phases'
  BY <1>1, <1>2 DEF Phases, Emptied
<1>6. Doomed' /\ Held' /\ Grounded'
  BY <1>1 DEF IInv, Doomed, Held, Grounded, Survivors
<1>7. Survivors = Reachable
  <2>1. Survivors \in SUBSET Objs
    BY DEF Survivors, IInv, Types
  <2>2. Roots \subseteq Survivors /\ Closed(Survivors)
    BY <1>1 DEF IInv, Heap, NoDanglingField, Doomed, Survivors, Roots, Closed
  <2>3. \A S \in SUBSET Objs : Roots \subseteq S /\ Closed(S) => Survivors \subseteq S
    BY <1>1 DEF IInv, Grounded
  <2>4. QED
    BY <2>1, <2>2, <2>3 DEF Reachable
<1>8. Remembered'
  BY <1>1, <1>7 DEF IInv, Remembered, Survivors
<1>9. QED
  BY <1>4, <1>5, <1>6, <1>8 DEF IInv

(* The fields of one of the doomed are freed, and its memory or not yet.   *)
LEMMA DoomedKeeps ==
  ASSUME IInv, phase = "cycles", phase' = "cycles", NEW p \in tmp \union zero, FreeFields(p),
         UNCHANGED <<roots, collected, kept>>,
         \/ /\ p \in tmp /\ p \notin Parts /\ todo = {} /\ todo' = {p} /\ tmp' = tmp /\ zero' = zero
            /\ mem' = mem /\ mark' = mark /\ free_mark' = free_mark \union {p}
         \/ /\ p \in Parts /\ ref_count'[p] = 0
            /\ todo' = todo /\ tmp' = tmp \ {p} /\ zero' = zero \ {p}
            /\ mem' = mem \ {p} /\ mark' = mark \ {p} /\ free_mark' = free_mark \ {p}
  PROVE  IInv'
<1>1. /\ tmp \subseteq mem /\ zero \subseteq mem /\ tmp \intersect zero = {} /\ todo \subseteq tmp \ Parts
      /\ \A o \in mem : (o \in mark => o \in tmp \union zero) /\ (o \in free_mark <=> o \in Emptied)
      /\ \A o \in Emptied : edges[o] = {}
      /\ p \in mem /\ p \in Objs /\ mem \subseteq Objs /\ free_mark \subseteq mem /\ mark \subseteq mem
  BY DEF IInv, Phases, Types
<1>2. /\ edges' \in [Objs -> SUBSET Objs] /\ edges'[p] = {}
      /\ \A q \in Objs : edges'[q] \subseteq edges[q]
      /\ \A q \in Objs \ {p} : \A o \in edges[q] \intersect Parts : o \in edges'[q]
      /\ weak' \subseteq weak
  BY <1>1, FreeFieldsDoes
<1>3. Survivors' = Survivors /\ p \notin Survivors /\ Survivors \subseteq Objs
  BY <1>1 DEF Survivors
<1>4. Types'
  <2>1. ref_count' \in [Objs -> Nat]
    BY <1>1, FreeFieldsCounts
  <2>2. mem' \subseteq Objs /\ free_mark' \subseteq mem' /\ mark' \subseteq mem'
    BY <1>1
  <2>3. weak' \subseteq Values \X Values \X Values
    BY <1>2 DEF IInv, Types
  <2>4. QED
    BY <1>2, <2>1, <2>2, <2>3 DEF IInv, Types
<1>5. Counts' /\ Heap'
  BY <1>1, FreedCounts, FreedHeap
<1>6. Phases'
  <2>0. \A o, q \in todo' : o = q
    BY DEF IInv, Phases
  <2>1. /\ tmp' \subseteq mem' /\ zero' \subseteq mem' /\ tmp' \intersect zero' = {}
        /\ todo' \subseteq tmp' \ Parts
    BY <1>1
  <2>2. Emptied' = Emptied \/ Emptied' = Emptied \union {p}
    BY DEF Emptied
  <2>3. ASSUME NEW o \in mem'
        PROVE  (o \in mark' => o \in tmp' \union zero') /\ (o \in free_mark' <=> o \in Emptied')
    BY <1>1, <2>3 DEF Emptied
  <2>4. Emptied' \subseteq Objs /\ \A o \in Emptied' : edges'[o] = {}
    BY <1>1, <1>2, <2>2 DEF Emptied
  <2>5. QED
    BY <2>0, <2>1, <2>3, <2>4 DEF Phases
<1>7. Doomed'
  <2>1. \A o \in tmp \union zero : roots[o] = 0 /\ \A q \in Survivors : o \notin edges[q]
    BY DEF IInv, Doomed
  <2>2. tmp' \union zero' \subseteq tmp \union zero
    OBVIOUS
  <2>3. QED
    BY <1>2, <1>3, <2>1, <2>2 DEF Doomed
<1>8. Held'
  <2>1. \A o \in Survivors \intersect Parts : roots[o] # 0 \/ \E q \in Survivors : o \in edges[q]
    BY DEF IInv, Held
  <2>2. \A q \in Survivors : \A o \in edges[q] \intersect Parts : o \in edges'[q]
    BY <1>2, <1>3
  <2>3. QED
    BY <1>3, <2>1, <2>2 DEF Held
<1>9. Remembered'
  BY <1>3 DEF IInv, Remembered
<1>10. QED
  BY <1>4, <1>5, <1>6, <1>7, <1>8, <1>9 DEF IInv, Grounded

LEMMA FreeCycleKeeps ==
  ASSUME IInv, NEW p \in Objs, FreeCycle(p)
  PROVE  IInv'
<1>1. /\ phase = "cycles" /\ phase' = "cycles" /\ p \in tmp /\ p \notin Parts /\ FreeFields(p)
      /\ todo = {} /\ todo' = {p} /\ free_mark' = free_mark \union {p}
      /\ UNCHANGED <<mem, mark, tmp, zero, roots, collected, kept>>
  BY DEF FreeCycle, Takes, lists, history
<1>2. QED
  BY <1>1, DoomedKeeps

(* A part without a reference is one of the doomed.                        *)
LEMMA FreePartKeeps ==
  ASSUME IInv, NEW p \in Objs, FreePart(p)
  PROVE  IInv'
<1>1. /\ phase = "cycles" /\ phase' = "cycles" /\ p \in mem /\ p \in Parts /\ ref_count[p] = 0
      /\ FreeFields(p) /\ todo' = todo /\ tmp' = tmp \ {p} /\ zero' = zero \ {p}
      /\ mem' = mem \ {p} /\ mark' = mark \ {p} /\ free_mark' = free_mark \ {p}
      /\ UNCHANGED <<roots, collected, kept>>
  BY DEF FreePart, DeadParts, Release, history
<1>2. roots[p] = 0 /\ \A q \in mem : p \notin edges[q]
  BY <1>1, CountIsZero DEF IInv, Counted
<1>3. p \in tmp \union zero
  BY <1>1, <1>2 DEF IInv, Held, Survivors
<1>4. ref_count'[p] = 0
  <2>1. ref_count' \in [Objs -> Nat] /\ ref_count'[p] <= 0
    BY <1>1, FreeFieldsCounts
  <2>2. QED
    BY <2>1
<1>5. QED
  BY <1>1, <1>3, <1>4, DoomedKeeps

(* The memory of one whose fields are freed is released, or waits.         *)
LEMMA FreeCycleEndsKeeps ==
  ASSUME IInv, NEW p \in Objs, FreeCycleEnds(p)
  PROVE  IInv'
<1>1. /\ phase = "cycles" /\ phase' = "cycles" /\ p \in todo /\ tmp' = tmp \ {p} /\ todo' = {}
      /\ UNCHANGED <<ref_count, edges, weak, roots, collected, kept>>
      /\ \/ zero' = zero \union {p} /\ UNCHANGED <<mem, free_mark, mark>>
         \/ /\ ref_count[p] = 0 /\ zero' = zero
            /\ mem' = mem \ {p} /\ mark' = mark \ {p} /\ free_mark' = free_mark \ {p}
  BY DEF FreeCycleEnds, Waits, Release, history
<1>2. /\ tmp \subseteq mem /\ zero \subseteq mem /\ tmp \intersect zero = {} /\ todo \subseteq tmp \ Parts
      /\ \A o \in mem : (o \in mark => o \in tmp \union zero) /\ (o \in free_mark <=> o \in Emptied)
      /\ \A o \in Emptied : edges[o] = {}
      /\ p \in mem /\ p \in tmp /\ p \notin Parts /\ edges[p] = {} /\ p \in free_mark
      /\ mem \subseteq Objs /\ free_mark \subseteq mem /\ mark \subseteq mem
  BY <1>1 DEF IInv, Phases, Types, Emptied
<1>3. todo = {p}
  BY <1>1 DEF IInv, Phases
<1>4. Survivors' = Survivors
  BY <1>1, <1>2 DEF Survivors
<1>5. Types'
  BY <1>1, <1>2 DEF IInv, Types
<1>6. Counts'
  <2>1. Counted = mem /\ Counted' = mem'
    BY <1>1 DEF Counted
  <2>2. \A o : Referrers(o, Counted)' = Referrers(o, Counted)
    BY <1>1, <1>2, <2>1 DEF Referrers
  <2>3. mem' \subseteq mem
    BY <1>1
  <2>4. QED
    BY <1>1, <2>2, <2>3 DEF IInv, Counts
<1>7. Heap'
  <2>1. CASE UNCHANGED <<mem, free_mark, mark>>
    BY <1>1, <2>1 DEF IInv, Heap, NoDanglingField, Intact
  <2>2. CASE ref_count[p] = 0 /\ mem' = mem \ {p} /\ free_mark' = free_mark \ {p}
    <3>1. roots[p] = 0 /\ \A q \in mem : p \notin edges[q]
      BY <1>1, <1>2, <2>2, CountIsZero DEF IInv, Counted
    <3>2. \A o \in Objs \ mem' : edges'[o] = {} /\ roots'[o] = 0
      BY <1>1, <1>2, <2>2, <3>1 DEF IInv, Heap
    <3>3. \A q \in mem' : edges'[q] \subseteq mem'
      BY <1>1, <2>2, <3>1 DEF IInv, Heap, NoDanglingField
    <3>4. \A w \in weak : w[1] \in mem /\ w[1] \notin free_mark
      BY DEF IInv, Heap, NoDanglingField, Intact
    <3>5. \A w \in weak' : Intact(w[1])'
      BY <1>1, <1>2, <2>2, <3>4 DEF Intact
    <3>6. QED
      BY <1>1, <3>2, <3>3, <3>5 DEF IInv, Heap, NoDanglingField
  <2>3. QED
    BY <1>1, <2>1, <2>2
<1>8. Phases'
  <2>2. tmp' \subseteq mem' /\ zero' \subseteq mem' /\ tmp' \intersect zero' = {}
    BY <1>1, <1>2
  <2>3. Emptied' = Emptied \intersect mem'
    BY <1>1, <1>2, <1>3 DEF Emptied
  <2>4. ASSUME NEW o \in mem'
        PROVE  (o \in mark' => o \in tmp' \union zero') /\ (o \in free_mark' <=> o \in Emptied')
    BY <1>1, <1>2, <2>3, <2>4
  <2>5. \A o \in Emptied' : edges'[o] = {}
    BY <1>1, <1>2, <2>3
  <2>6. QED
    BY <1>1, <2>2, <2>4, <2>5 DEF Phases
<1>9. Doomed' /\ Held' /\ Remembered'
  <2>1. tmp' \union zero' \subseteq tmp \union zero
    BY <1>1, <1>2
  <2>2. Doomed'
    BY <1>1, <1>4, <2>1 DEF IInv, Doomed
  <2>3. QED
    BY <1>1, <1>4, <2>2 DEF IInv, Held, Remembered
<1>10. QED
  BY <1>1, <1>5, <1>6, <1>7, <1>8, <1>9 DEF IInv, Grounded

LEMMA SetAsideKeeps ==
  ASSUME IInv, NEW p \in Objs, SetAside(p)
  PROVE  IInv'
<1>1. /\ phase = "cycles" /\ phase' = "cycles" /\ p \in tmp /\ p \in Parts /\ todo = {}
      /\ tmp' = tmp \ {p} /\ zero' = zero \union {p}
      /\ UNCHANGED <<mem, free_mark, edges, weak, roots, ref_count, mark, todo, collected, kept>>
  BY DEF SetAside, Takes, heap, history
<1>2. Types' /\ Heap' /\ Counts'
  BY <1>1 DEF IInv, Types, Heap, NoDanglingField, Intact, Counts, Counted, Referrers
<1>3. Phases'
  BY <1>1 DEF IInv, Phases, Emptied
<1>4. Survivors' = Survivors
  BY <1>1 DEF Survivors
<1>5. Doomed' /\ Held' /\ Remembered'
  BY <1>1, <1>4 DEF IInv, Doomed, Held, Remembered
<1>6. QED
  BY <1>1, <1>2, <1>3, <1>5 DEF IInv, Grounded

(* Once every object is freed, so is every part that only they had.        *)
LEMMA NoPartIsLeft ==
  ASSUME IInv, phase = "cycles", tmp = {}, DeadParts = {}
  PROVE  zero \intersect Parts = {}
<1> SUFFICES ASSUME NEW o \in zero, o \in Parts PROVE FALSE
  OBVIOUS
<1>1. o \in mem /\ roots[o] = 0 /\ \A p \in Survivors : o \notin edges[p]
  BY DEF IInv, Phases, Doomed
<1>2. ref_count[o] # 0
  BY <1>1 DEF DeadParts
<1>3. PICK p \in mem : o \in edges[p]
  BY <1>1, <1>2, CountIsZero DEF IInv, Counted
<1>4. p \in zero
  BY <1>1, <1>3 DEF Survivors
<1>5. p \in Parts
  BY <1>3, <1>4 DEF IInv, Phases, Emptied
<1>6. QED
  BY <1>3, <1>5 DEF IInv, Heap, Values

LEMMA CyclesEndKeeps ==
  ASSUME IInv, CyclesEnd
  PROVE  IInv'
<1>1. /\ phase = "cycles" /\ tmp = {} /\ zero' = {} /\ phase' = "none" /\ collected' = TRUE
      /\ mem' = mem \ zero /\ free_mark' = free_mark \ zero /\ mark' = mark \ zero
      /\ UNCHANGED <<ref_count, edges, weak, roots, tmp, todo, kept>>
      /\ zero \intersect Parts = {}
  BY NoPartIsLeft DEF CyclesEnd, Release
<1>2. /\ todo = {} /\ zero \subseteq mem
      /\ \A o \in mem : (o \in mark => o \in zero) /\ (o \in free_mark <=> o \in zero)
      /\ \A o \in zero : edges[o] = {}
      /\ mem \subseteq Objs
  BY <1>1 DEF IInv, Phases, Types, Emptied
<1>3. mem' = Survivors /\ mem' \subseteq mem
  BY <1>1 DEF Survivors
<1>4. Types'
  BY <1>1 DEF IInv, Types, PhaseNames
<1>5. \A o \in zero : roots[o] = 0 /\ \A q \in Survivors : o \notin edges[q]
  BY <1>1 DEF IInv, Doomed
<1>6. Heap'
  <2>1. \A o \in Objs \ mem' : edges[o] = {} /\ roots[o] = 0
    BY <1>1, <1>2, <1>5 DEF IInv, Heap
  <2>2. \A q \in mem' : edges[q] \subseteq mem'
    BY <1>1, <1>3, <1>5 DEF IInv, Heap, NoDanglingField
  <2>3. \A w \in weak : w[1] \in mem /\ w[1] \notin free_mark
    BY DEF IInv, Heap, NoDanglingField, Intact
  <2>4. \A w \in weak' : Intact(w[1])'
    BY <1>1, <1>2, <2>3 DEF Intact
  <2>5. QED
    BY <1>1, <2>1, <2>2, <2>4 DEF IInv, Heap, NoDanglingField
<1>7. Counted = mem /\ Counted' = mem'
  BY <1>1 DEF Counted
<1>8. Counts'
  <2>1. \A o : Referrers(o, Counted)' = Referrers(o, Counted)
    BY <1>1, <1>2, <1>7 DEF Referrers
  <2>2. QED
    BY <1>1, <1>3, <2>1 DEF IInv, Counts
<1>9. Phases'
  BY <1>1, <1>2, <1>3 DEF Phases, AtRest
<1>10. Remembered'
  BY <1>1, <1>3 DEF IInv, Remembered
<1>11. QED
  BY <1>1, <1>4, <1>6, <1>8, <1>9, <1>10 DEF IInv, Doomed, Held, Grounded

-----------------------------------------------------------------------------
LEMMA NextIInv == IInv /\ [Next]_vars => IInv'
<1> SUFFICES ASSUME IInv, [Next]_vars PROVE IInv'
  OBVIOUS
<1>1. CASE Program
  BY <1>1, NewObjectKeeps, DupKeeps, DropKeeps, StoreFieldKeeps, DeleteKeeps, SetWeakKeeps DEF Program
<1>2. CASE Collector
  BY <1>2, RunGCKeeps, DecrefKeeps, DecrefEndsKeeps, ScanKeeps, ScanEndsKeeps, RestoreKeeps,
     RestoreEndsKeeps, FreePartKeeps, FreeCycleKeeps,
     FreeCycleEndsKeeps, SetAsideKeeps, CyclesEndKeeps DEF Collector
<1>3. CASE ZeroEnds
  BY <1>3, ZeroEndsKeeps
<1>4. CASE \E p \in Objs : FreeZero(p)
  BY <1>4, FreeZeroKeeps
<1>5. CASE UNCHANGED vars
  <2>1. UNCHANGED <<mem, free_mark, edges, weak, roots, ref_count, mark, tmp, zero, phase, todo, collected, kept>>
    BY <1>5 DEF vars, heap, lists, history
  <2>2. Types' /\ Heap' /\ Counts' /\ Phases'
    BY <2>1 DEF IInv, Types, Heap, NoDanglingField, Intact, Counts, Counted, Referrers, Phases, AtRest,
       Emptied
  <2>3. Doomed' /\ Held' /\ Grounded' /\ Remembered'
    BY <2>1, SameReach DEF IInv, Doomed, Held, Grounded, Remembered, Survivors, Roots, Closed
  <2>4. QED
    BY <2>2, <2>3 DEF IInv
<1>6. QED
  BY <1>1, <1>2, <1>3, <1>4, <1>5 DEF Next

LEMMA Inductive == Spec => []IInv
<1>1. QED
  BY InitIInv, NextIInv, PTL DEF Spec

(* The variables of QuickJSGC keep their types; no count goes below zero.  *)
THEOREM GCTypeCorrect == Spec => []TypeOK
<1>1. IInv => TypeOK
  BY DEF IInv, Types, Phases, AtRest, PhaseNames, TypeOK
<1>2. QED
  BY <1>1, Inductive, PTL

(* Whatever a program can reach is as it left it (JS_RunGC,                *)
(* free_zero_refcount), also half way through a collection.                *)
THEOREM ReachableIsNotFreed == Spec => []ReachableStays
<1>1. QED
  BY ReachableIsIntact, Inductive, PTL

(* An object's memory stays as long as a field refers to it                *)
(* (gc_free_cycles, free_object).                                          *)
THEOREM FieldsNeverDangle == Spec => []NoDanglingField
<1>1. IInv => NoDanglingField
  BY DEF IInv, Heap
<1>2. QED
  BY <1>1, Inductive, PTL

(* A collection leaves exactly what the program could reach when it began  *)
(* (JS_RunGC).                                                             *)
THEOREM CollectionIsComplete == Spec => []NoGarbageLeft
<1>1. IInv => NoGarbageLeft
  BY DEF IInv, Remembered, NoGarbageLeft
<1>2. QED
  BY <1>1, Inductive, PTL

(* Between collections each count is the number of references (gc_decref,  *)
(* gc_scan).                                                               *)
THEOREM CountsAreRight == Spec => []CountsAreRestored
<1>1. IInv => CountsAreRestored
  BY DEF IInv, Counts, Counted, Referrers, CountsAreRestored
<1>2. QED
  BY <1>1, Inductive, PTL

(* The assertions of the collector never fail (free_zero_refcount,         *)
(* gc_decref, gc_decref_child, gc_scan, gc_free_cycles).                   *)
THEOREM AssertionsNeverFail == Spec => []AssertionsHold
<1>1. ASSUME IInv, phase = "zero" PROVE \A p \in zero : ref_count[p] = 0
  BY <1>1 DEF IInv, Phases
<1>2. ASSUME IInv, phase = "decref"
      PROVE  \A p \in todo : p \notin mark /\ \A o \in edges[p] : ref_count[o] > 0
  <2>1. Counted = todo /\ todo \subseteq mem /\ \A p \in todo : p \notin mark
    BY <1>2 DEF Counted, IInv, Phases
  <2>2. ASSUME NEW p \in todo, NEW o \in edges[p] PROVE ref_count[o] > 0
    <3>1. o \in mem /\ o \in Objs
      BY <1>2, <2>1 DEF IInv, Heap, NoDanglingField, Types
    <3>2. ref_count[o] # 0
      BY <1>2, <2>1, <3>1, CountIsZero DEF IInv
    <3>3. QED
      BY <1>2, <3>1, <3>2 DEF IInv, Types
  <2>3. QED
    BY <2>1, <2>2
<1>3. ASSUME IInv, phase = "scan" PROVE \A p \in todo : ref_count[p] > 0
  BY <1>3 DEF IInv, Phases, Types
<1>4. IInv => AssertionsHold
  BY <1>1, <1>2, <1>3, NoPartIsLeft DEF AssertionsHold
<1>5. QED
  BY <1>4, Inductive, PTL
=============================================================================
