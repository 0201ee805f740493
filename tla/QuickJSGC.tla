------------------------------ MODULE QuickJSGC ------------------------------
(***************************************************************************)
(* How the engine frees objects (quickjs.c).  Each object counts the       *)
(* references to it and is freed with the last; the collector finds the    *)
(* cycles nothing else refers to by taking from each count the references  *)
(* that come from other objects.  Both run in pieces that see the heap     *)
(* half changed.  What the collector sees is of two kinds: the values of a *)
(* program (objects, function bytecode) and the parts they are made of     *)
(* (shapes, detached variables, async functions, contexts), which are      *)
(* freed at once with the last reference.  An object refers to another at  *)
(* most once, and a part to values only (a context's reference to one      *)
(* shape is left out).  A record of a WeakMap or WeakSet refers to its     *)
(* value and not to its key, and goes when either the key or the map does. *)
(* References from C code, from the stack, and from native objects without *)
(* a gc_mark function are one number for each object.                      *)
(***************************************************************************)
EXTENDS Naturals, FiniteSets

CONSTANTS
  Objs,     \* bound: the objects there is memory for
  Parts,    \* those that are not values
  MaxRoots, \* bound: references to one object from outside the heap
  MaxRefs,  \* bound: references among objects
  MaxWeak   \* bound: records of WeakMaps

ASSUME GCAssumption ==
  /\ IsFiniteSet(Objs) /\ Parts \subseteq Objs
  /\ MaxRoots \in Nat \ {0} /\ MaxRefs \in Nat /\ MaxWeak \in Nat

Values == Objs \ Parts

VARIABLES
  mem,       \* objects whose memory is allocated
  free_mark, \* those whose fields are freed
  ref_count,
  mark,      \* objects whose mark is 1
  edges,     \* [Objs -> the objects its fields refer to]
  weak,      \* <<k, m, o>>: o is the value of map m's record for key k
  roots,     \* [Objs -> references from outside the heap]
  tmp,       \* tmp_obj_list
  zero,      \* gc_zero_ref_count_list
  phase,     \* where the engine is
  todo,      \* what the pass over a list has before it
  collected, \* has a collection just ended?
  kept       \* what the program could reach when it began

heap == <<mem, free_mark, edges, weak, roots>>
lists == <<tmp, zero>>
history == <<collected, kept>>
vars == <<heap, ref_count, mark, lists, phase, todo, history>>

PhaseNames == {"none", "zero", "decref", "scan", "restore", "cycles"}

TypeOK ==
  /\ mem \subseteq Objs /\ free_mark \subseteq Objs /\ mark \subseteq Objs
  /\ ref_count \in [Objs -> Nat]
  /\ edges \in [Objs -> SUBSET Objs]
  /\ weak \subseteq Values \X Values \X Values
  /\ roots \in [Objs -> 0..MaxRoots]
  /\ tmp \subseteq mem /\ zero \subseteq mem /\ todo \subseteq mem
  /\ phase \in PhaseNames /\ collected \in BOOLEAN /\ kept \subseteq Objs

Init ==
  /\ mem = {} /\ free_mark = {} /\ mark = {}
  /\ ref_count = [o \in Objs |-> 0]
  /\ edges = [o \in Objs |-> {}]
  /\ roots = [o \in Objs |-> 0]
  /\ tmp = {} /\ zero = {} /\ todo = {} /\ weak = {}
  /\ phase = "none"
  /\ collected = FALSE /\ kept = {}

(* Counts with one more, or one less, for each of the objects S.           *)
Plus(S) == [o \in Objs |-> IF o \in S THEN ref_count[o] + 1 ELSE ref_count[o]]
Minus(S) == [o \in Objs |-> IF o \in S THEN ref_count[o] - 1 ELSE ref_count[o]]

-----------------------------------------------------------------------------
(* The program: it reaches an object from outside the heap, by way of      *)
(* fields.                                                                 *)

Roots == {o \in Objs : roots[o] > 0}
Closed(S) == \A o \in S : edges[o] \subseteq S

Reachable ==
  LET rooted == Roots
      closed == {S \in SUBSET Objs : rooted \subseteq S /\ Closed(S)}
  IN {o \in Objs : \A S \in closed : o \in S}

InProgram == phase = "none" /\ collected' = FALSE /\ kept' = {}

(* For the bound MaxRefs                                                   *)
References == {r \in mem \X mem : r[2] \in edges[r[1]]}

(* JS_NewObjectFromShape, add_gc_object                                    *)
NewObject(o) ==
  /\ InProgram /\ o \notin mem
  /\ mem' = mem \union {o}
  /\ ref_count' = [ref_count EXCEPT ![o] = 1]
  /\ roots' = [roots EXCEPT ![o] = 1]
  /\ UNCHANGED <<free_mark, mark, edges, weak, lists, phase, todo>>

(* JS_DupValue, into C code or into a field of another object              *)
Dup(o) ==
  /\ InProgram /\ roots[o] < MaxRoots /\ o \in Reachable
  /\ roots' = [roots EXCEPT ![o] = @ + 1]
  /\ ref_count' = Plus({o})
  /\ UNCHANGED <<mem, free_mark, mark, edges, weak, lists, phase, todo>>

(* A new reference to o in p                                               *)
Store(p, o) ==
  /\ InProgram /\ o \notin edges[p] /\ Cardinality(References) < MaxRefs
  /\ {p, o} \subseteq Reachable
  /\ edges' = [edges EXCEPT ![p] = @ \union {o}]
  /\ ref_count' = Plus({o})
  /\ UNCHANGED <<mem, free_mark, mark, roots, lists, phase, todo>>

(* Into a field; a part has values only.                                   *)
StoreField(p, o) == {p, o} \cap Values # {} /\ Store(p, o) /\ UNCHANGED weak

(* js_map_set: into a new record of the map m (one that the key has is     *)
(* deleted first).                                                         *)
SetWeak(k, m, o) ==
  /\ Cardinality(weak) < MaxWeak /\ \A q \in Objs : <<k, m, q>> \notin weak
  /\ Store(m, o) /\ k \in Reachable
  /\ weak' = weak \union {<<k, m, o>>}

(* JS_FreeValue: __JS_FreeValueRT frees an object with the last reference  *)
(* to it; free_zero_refcount is at work until its list is empty.           *)
FreeValue(o) ==
  /\ ref_count' = Minus({o})
  /\ IF ref_count[o] = 1
     THEN phase' = "zero" /\ zero' = {o}
     ELSE UNCHANGED <<phase, zero>>

Drop(o) ==
  /\ InProgram /\ roots[o] > 0
  /\ roots' = [roots EXCEPT ![o] = @ - 1]
  /\ FreeValue(o)
  /\ UNCHANGED <<mem, free_mark, mark, edges, weak, tmp, todo>>

Delete(p, o) ==
  /\ InProgram /\ o \in edges[p] /\ p \in Reachable
  /\ edges' = [edges EXCEPT ![p] = @ \ {o}]
  /\ weak' = {w \in weak : w[2] # p \/ w[3] # o}
  /\ FreeValue(o)
  /\ UNCHANGED <<mem, free_mark, mark, roots, tmp, todo>>

-----------------------------------------------------------------------------
(* free_object: the fields of an object are freed, then the records of     *)
(* WeakMaps that have it as their key (reset_weak_ref) and, when it is a   *)
(* map itself, its own (js_map_finalizer).                                 *)

Lost(p) ==
  [q \in Objs |-> IF q = p THEN edges[p] ELSE {o \in edges[q] : <<p, q, o>> \in weak}]

Losers(p, o) == {q \in Objs : o \in Lost(p)[q]}

FreeFields(p) ==
  /\ ref_count' = [o \in Objs |-> ref_count[o] - Cardinality(Losers(p, o))]
  /\ edges' = [q \in Objs |-> edges[q] \ Lost(p)[q]]
  /\ weak' = {w \in weak : w[1] # p /\ w[2] # p}

(* The memory of S is given back.                                          *)
Release(S) == mem' = mem \ S /\ free_mark' = free_mark \ S /\ mark' = mark \ S

(* Whose last reference has just gone                                      *)
Orphans == {o \in mem : ref_count[o] # 0 /\ ref_count'[o] = 0}

(* free_zero_refcount, in any order: so a part, which never waits in the   *)
(* list, may be freed next.                                                *)
FreeZero(p) ==
  /\ phase = "zero" /\ p \in zero
  /\ FreeFields(p)
  /\ zero' = (zero \ {p}) \union Orphans
  /\ Release({p})
  /\ UNCHANGED <<roots, tmp, phase, todo, history>>

ZeroEnds ==
  /\ phase = "zero" /\ zero = {}
  /\ phase' = "none"
  /\ UNCHANGED <<heap, ref_count, mark, lists, todo, history>>

-----------------------------------------------------------------------------
(* JS_RunGC: js_trigger_gc calls it before any allocation.                 *)

RunGC ==
  /\ phase = "none"
  /\ phase' = "decref" /\ todo' = mem
  /\ collected' = FALSE /\ kept' = Reachable
  /\ UNCHANGED <<heap, ref_count, mark, lists>>

(* Bug, for a mutant: an object is moved in its own turn or not at all.    *)
DecrefChildBug(p) == {o \in {p} : ref_count'[o] = 0}

(* gc_decref and gc_decref_child: an object is moved once its count is     *)
(* zero and its own references are taken away.                             *)
Zeroed(p) == {o \in (edges[p] \intersect mark) \union {p} : ref_count'[o] = 0}

Decref(p) ==
  /\ phase = "decref" /\ p \in todo
  /\ ref_count' = Minus(edges[p])
  /\ mark' = mark \union {p}
  /\ tmp' = tmp \union Zeroed(p)
  /\ todo' = todo \ {p}
  /\ UNCHANGED <<heap, zero, phase, history>>

DecrefEnds ==
  /\ phase = "decref" /\ todo = {}
  /\ phase' = "scan" /\ todo' = mem \ tmp
  /\ UNCHANGED <<heap, ref_count, mark, lists, history>>

(* gc_scan and gc_scan_incref_child: an object that is referred to after   *)
(* all goes back to the end of the list, which the pass has yet to reach.  *)
Rescued(p) == {o \in edges[p] : ref_count[o] = 0}

(* Bug, for a mutant: the object goes to the head of the list, which the   *)
(* pass has left behind.                                                   *)
LeftHeadBug(p) == todo \ {p}

Left(p) == (todo \ {p}) \union Rescued(p)

Unmarked(p) == (mark \ {p}) \ Rescued(p)

Scan(p) ==
  /\ phase = "scan" /\ p \in todo
  /\ ref_count' = Plus(edges[p])
  /\ mark' = Unmarked(p)
  /\ tmp' = tmp \ Rescued(p)
  /\ todo' = Left(p)
  /\ UNCHANGED <<heap, zero, phase, history>>

ScanEnds ==
  /\ phase = "scan" /\ todo = {}
  /\ phase' = "restore" /\ todo' = tmp
  /\ UNCHANGED <<heap, ref_count, mark, lists, history>>

(* Bug, for a mutant: the counts of what survives are not restored.        *)
RestoreSkipBug(p) ==
  /\ phase = "restore" /\ p \in todo
  /\ ref_count' = Plus(edges[p] \intersect tmp)
  /\ todo' = todo \ {p}
  /\ UNCHANGED <<heap, mark, lists, phase, history>>

(* gc_scan: "restore the refcount of the objects to be deleted"            *)
Restore(p) ==
  /\ phase = "restore" /\ p \in todo
  /\ ref_count' = Plus(edges[p])
  /\ todo' = todo \ {p}
  /\ UNCHANGED <<heap, mark, lists, phase, history>>

RestoreEnds ==
  /\ phase = "restore" /\ todo = {}
  /\ phase' = "cycles"
  /\ UNCHANGED <<heap, ref_count, mark, lists, todo, history>>

(* Bug, for a mutant: the memory of each object is released at once.       *)
WaitsNotBug(p) == FALSE

(* free_object: the memory of an object that others to be freed still      *)
(* refer to stays until the end.                                           *)
Waits(p) == ref_count[p] # 0

(* A part whose last reference has gone is freed before anything else is   *)
(* (js_free_shape, free_var_ref, js_async_function_free, JS_FreeContext).  *)
DeadParts == {p \in mem \intersect Parts : ref_count[p] = 0}

FreePart(p) ==
  /\ phase = "cycles" /\ p \in DeadParts
  /\ FreeFields(p)
  /\ tmp' = tmp \ {p} /\ zero' = zero \ {p} /\ Release({p})
  /\ UNCHANGED <<roots, phase, todo, history>>

(* gc_free_cycles takes the next of the list: todo is the object being     *)
(* freed.  A value is not freed because its last reference goes:           *)
(* __JS_FreeValueRT does nothing in this phase.                            *)
Takes(p) == phase = "cycles" /\ todo = {} /\ DeadParts = {} /\ p \in tmp

FreeCycle(p) ==
  /\ Takes(p) /\ p \notin Parts
  /\ FreeFields(p)
  /\ free_mark' = free_mark \union {p} /\ todo' = {p}
  /\ UNCHANGED <<mem, mark, lists, roots, phase, history>>

FreeCycleEnds(p) ==
  /\ phase = "cycles" /\ p \in todo /\ DeadParts = {}
  /\ tmp' = tmp \ {p} /\ todo' = {}
  /\ IF Waits(p)
     THEN zero' = zero \union {p} /\ UNCHANGED <<mem, free_mark, mark>>
     ELSE Release({p}) /\ UNCHANGED zero
  /\ UNCHANGED <<ref_count, edges, weak, roots, phase, history>>

(* A part is left to what refers to it.                                    *)
SetAside(p) ==
  /\ Takes(p) /\ p \in Parts
  /\ tmp' = tmp \ {p} /\ zero' = zero \union {p}
  /\ UNCHANGED <<heap, ref_count, mark, phase, todo, history>>

CyclesEnd ==
  /\ phase = "cycles" /\ DeadParts = {} /\ tmp = {}
  /\ Release(zero) /\ zero' = {}
  /\ phase' = "none" /\ collected' = TRUE
  /\ UNCHANGED <<ref_count, edges, weak, roots, tmp, todo, kept>>

-----------------------------------------------------------------------------
Program ==
  \/ \E o \in Objs : NewObject(o) \/ Dup(o) \/ Drop(o)
  \/ \E p, o \in Objs : StoreField(p, o) \/ Delete(p, o)
  \/ \E k, m, o \in Values : SetWeak(k, m, o)

Collector ==
  \/ RunGC \/ DecrefEnds \/ ScanEnds \/ RestoreEnds \/ CyclesEnd
  \/ \E p \in Objs :
       \/ Decref(p) \/ Scan(p) \/ Restore(p)
       \/ FreePart(p) \/ FreeCycle(p) \/ FreeCycleEnds(p) \/ SetAside(p)

Next == Program \/ Collector \/ ZeroEnds \/ \E p \in Objs : FreeZero(p)

Spec == Init /\ [][Next]_vars

-----------------------------------------------------------------------------
(* What a program relies on.                                               *)

Intact(o) == o \in mem /\ o \notin free_mark

(* Whatever the program can still reach is as it left it, also half way    *)
(* through a collection.                                                   *)
ReachableStays == \A o \in Reachable : Intact(o)

(* The memory of an object is there as long as a field of any other refers *)
(* to it: the engine will count that reference down (free_object keeps     *)
(* "zombies" on gc_zero_ref_count_list for this).  The key of a record,    *)
(* which nothing counts, has not been freed (reset_weak_ref and            *)
(* delete_weak_ref meet).                                                  *)
NoDanglingField ==
  /\ \A p \in mem : edges[p] \subseteq mem
  /\ \A w \in weak : Intact(w[1])

(* A collection leaves exactly what the program could reach when it began: *)
(* no cycle that nothing refers to survives, no part of one is forgotten.  *)
(* (The value of a record whose key was freed may be left without a        *)
(* reference, for the next collection.)                                    *)
NoGarbageLeft == collected => mem = kept

(* Between two runs of the collector each count is the number of           *)
(* references, although the collector has changed every one of them.       *)
CountsAreRestored ==
  phase = "none" =>
    \A o \in mem :
      ref_count[o] = roots[o] + Cardinality({p \in mem : o \in edges[p]})

(* The assertions in free_zero_refcount, gc_decref, gc_decref_child,       *)
(* gc_scan and gc_free_cycles.                                             *)
AssertionsHold ==
  /\ phase = "zero" => \A p \in zero : ref_count[p] = 0
  /\ phase = "decref" =>
       \A p \in todo : p \notin mark /\ \A o \in edges[p] : ref_count[o] > 0
  /\ phase = "scan" => \A p \in todo : ref_count[p] > 0
  /\ phase = "cycles" /\ tmp = {} /\ DeadParts = {} => zero \intersect Parts = {}
=============================================================================
