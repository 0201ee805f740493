------------------------ MODULE JSModuleLoaderProofs ------------------------
(***************************************************************************)
(* Theorems about JSModuleLoader, for any modules, any number of requests  *)
(* and jobs and any depth of activations.                                  *)
(***************************************************************************)
EXTENDS JSModuleLoader, SequenceTheorems, TLAPS

-----------------------------------------------------------------------------
(* The stack of activations.                                               *)

Going == {"waitRead", "waitNs", "run"}

(* Evaluations and passes have work of their own; every other activation   *)
(* is about a module.                                                      *)
Shape(f, n) ==
  /\ f.kind = "eval" => f.name \in Modules /\ f.todo \in Seq(Modules)
  /\ f.kind = "pass" => f.todo \in Seq(1..n)
  /\ f.kind \in {"eval", "pass"} <=> f.pc = "run"
  /\ f.kind \notin {"eval", "pass"} => f.name \in Modules
  /\ f.first => f.kind = "eval"

Shapes(st, n) == \A i \in 1..Len(st) : Shape(st[i], n)

(* What an activation has on top of it: an evaluation is in a require() it *)
(* has yet to get through, a pass in the evaluation of its next request.   *)
Link(f, g, rq) ==
  /\ f.pc \in Going
  /\ f.kind = "eval" => f.todo # <<>>
  /\ f.kind = "pass" => f.todo # <<>> /\ g.kind = "eval" /\ g.name = rq[Head(f.todo)].name

Links(st, rq) == \A i \in 1..Len(st) - 1 : Link(st[i], st[i + 1], rq)

(* There is room for the request the activation on top is about to make.   *)
Reserved(st, n) == \A i \in 1..Len(st) : st[i].pc \in {"source", "push", "copy"} => n < MaxReq

StackOK(st, rq) ==
  /\ st \in Seq(Frame)
  /\ Shapes(st, Len(rq)) /\ Links(st, rq) /\ Reserved(st, Len(rq))

(* The reader has a request at hand while it is about to store one.        *)
Base ==
  /\ TypeOK /\ Len(req) <= MaxReq /\ StackOK(stack, req)
  /\ reader = "store" => work # <<>>

LEMMA Constants ==
  /\ Files \subseteq Modules /\ CommonJS \subseteq Modules
  /\ None \notin Modules /\ Blank \notin Modules /\ Blank # None
  /\ Requires \in [Modules -> Seq(Modules)]
  /\ MaxReq \in Nat /\ MaxJobs \in Nat /\ MaxDepth \in Nat
BY LoaderAssumption DEF None, Blank

LEMMA ReqType ==
  ASSUME TypeOK
  PROVE  /\ req \in Seq(Request) /\ Len(req) \in Nat /\ DOMAIN req = 1..Len(req)
         /\ \A r \in 1..Len(req) : req[r] \in Request
BY LenProperties, ElementOfSeq DEF TypeOK

LEMMA TopIs ==
  ASSUME NEW st \in Seq(Frame), st # <<>>
  PROVE  /\ Len(st) \in Nat \ {0} /\ Last(st) = st[Len(st)] /\ Last(st) \in Frame
         /\ Front(st) \in Seq(Frame)
         /\ Len(Front(st)) = Len(st) - 1
         /\ \A i \in 1..Len(st) - 1 : Front(st)[i] = st[i] /\ st[i] \in Frame
<1>1. Len(st) \in Nat \ {0}
  BY EmptySeq
<1>2. \A i \in 1..Len(st) : st[i] \in Frame
  BY <1>1, ElementOfSeq
<1>3. Last(st) \in Frame /\ Last(st) = st[Len(st)]
  BY <1>1, <1>2 DEF Last
<1> DEFINE n == Len(st) - 1
<1>4. /\ SubSeq(st, 1, n) \in Seq(Frame)
      /\ Len(SubSeq(st, 1, n)) = n
      /\ \A i \in 1..n : SubSeq(st, 1, n)[i] = st[i]
  <2>1. n \in Nat /\ \A i \in 1..n : st[i] \in Frame
    BY <1>1, <1>2
  <2> HIDE DEF n
  <2>2. QED
    BY <2>1, SubSeqProperties
<1>5. QED
  BY <1>1, <1>2, <1>3, <1>4 DEF Front

(* A new activation on top.                                                *)
LEMMA PushOK ==
  ASSUME NEW st \in Seq(Frame), NEW rq, StackOK(st, rq), NEW f \in Frame, Shape(f, Len(rq)),
         f.pc \in {"source", "push", "copy"} => Len(rq) < MaxReq,
         st # <<>> => Link(Last(st), f, rq)
  PROVE  /\ StackOK(Append(st, f), rq)
         /\ Len(Append(st, f)) = Len(st) + 1
         /\ \A i \in 1..Len(st) : Append(st, f)[i] = st[i]
         /\ Append(st, f)[Len(st) + 1] = f
<1> DEFINE s == Append(st, f)
<1>1. /\ s \in Seq(Frame) /\ Len(s) = Len(st) + 1 /\ Len(st) \in Nat
      /\ \A i \in 1..Len(st) : s[i] = st[i]
      /\ s[Len(st) + 1] = f
  BY AppendProperties
<1> HIDE DEF s
<1>2. \A i \in 1..Len(s) : i \in 1..Len(st) \/ i = Len(st) + 1
  BY <1>1
<1>3. Shapes(s, Len(rq)) /\ Reserved(s, Len(rq))
  BY <1>1, <1>2 DEF StackOK, Shapes, Reserved
<1>4. ASSUME NEW i \in 1..Len(s) - 1 PROVE Link(s[i], s[i + 1], rq)
  <2>1. CASE i = Len(st)
    <3>1. st # <<>> /\ Last(st) = st[Len(st)]
      <4>1. Len(st) > 0
        BY <1>1, <2>1
      <4>2. QED
        BY <4>1, TopIs
    <3>2. s[i] = Last(st) /\ s[i + 1] = f
      BY <1>1, <2>1, <3>1
    <3>3. QED
      BY <3>1, <3>2
  <2>2. CASE i # Len(st)
    <3>1. i \in 1..Len(st) - 1 /\ i \in 1..Len(st) /\ i + 1 \in 1..Len(st)
      BY <1>1, <2>2
    <3>2. QED
      BY <1>1, <3>1 DEF StackOK, Links
  <2>3. QED
    BY <2>1, <2>2
<1>5. QED
  BY <1>1, <1>3, <1>4 DEF StackOK, Links, s

(* The requests only grow in number and keep their names.                  *)
Grows(rq, rq2) ==
  /\ rq \in Seq(Request) /\ rq2 \in Seq(Request) /\ Len(rq) <= Len(rq2)
  /\ \A r \in 1..Len(rq) : rq2[r].name = rq[r].name

LEMMA GrowsShape ==
  ASSUME NEW f, NEW n \in Nat, NEW m \in Nat, n <= m, Shape(f, n)
  PROVE  Shape(f, m)
<1>1. 1..n \subseteq 1..m
  OBVIOUS
<1>2. ASSUME f.todo \in Seq(1..n) PROVE f.todo \in Seq(1..m)
  BY <1>1, <1>2, SeqMonotonic
<1>3. QED
  BY <1>2 DEF Shape

LEMMA GrowsLink ==
  ASSUME NEW f, NEW g, NEW rq, NEW rq2, Grows(rq, rq2), Shape(f, Len(rq)), Link(f, g, rq)
  PROVE  Link(f, g, rq2)
<1>1. ASSUME f.kind = "pass" PROVE rq2[Head(f.todo)].name = rq[Head(f.todo)].name
  <2>1. f.todo \in Seq(1..Len(rq)) /\ f.todo # <<>>
    BY <1>1 DEF Shape, Link
  <2>2. Head(f.todo) \in 1..Len(rq)
    BY <2>1, HeadTailProperties
  <2>3. QED
    BY <2>2 DEF Grows
<1>2. QED
  BY <1>1 DEF Link

(* The same stack with other requests, none of which is about to be made.  *)
LEMMA SameOK ==
  ASSUME NEW st, NEW rq, NEW rq2, StackOK(st, rq), Grows(rq, rq2),
         Len(rq2) = Len(rq) \/ \A i \in 1..Len(st) : st[i].pc \notin {"source", "push", "copy"}
  PROVE  StackOK(st, rq2)
<1>1. Len(rq) \in Nat /\ Len(rq2) \in Nat /\ Len(rq) <= Len(rq2) /\ Len(st) \in Nat
  BY LenProperties DEF Grows, StackOK
<1>2. Shapes(st, Len(rq2))
  BY <1>1, GrowsShape DEF StackOK, Shapes
<1>3. Links(st, rq2)
  <2>1. \A i \in 1..Len(st) - 1 : i \in 1..Len(st)
    BY <1>1
  <2>2. QED
    BY <2>1, GrowsLink DEF StackOK, Links, Shapes
<1>4. Reserved(st, Len(rq2))
  BY DEF StackOK, Reserved
<1>5. QED
  BY <1>2, <1>3, <1>4 DEF StackOK

(* The activation on top goes on, as what it was.                          *)
LEMMA TopOK ==
  ASSUME NEW st, NEW rq, NEW rq2, StackOK(st, rq), Grows(rq, rq2), st # <<>>,
         NEW g \in Frame, Shape(g, Len(rq2)), g.kind = Last(st).kind, g.name = Last(st).name,
         g.pc \in {"source", "push", "copy"} => Len(rq2) < MaxReq
  PROVE  LET s == [st EXCEPT ![Len(st)] = g]
         IN  /\ StackOK(s, rq2) /\ Len(s) = Len(st)
             /\ \A i \in 1..Len(st) : s[i] = IF i = Len(st) THEN g ELSE st[i]
<1> DEFINE s == [st EXCEPT ![Len(st)] = g]
<1>1. /\ st \in Seq(Frame) /\ Len(st) \in Nat \ {0} /\ Last(st) = st[Len(st)]
      /\ Len(rq) \in Nat /\ Len(rq2) \in Nat /\ Len(rq) <= Len(rq2)
  BY TopIs, LenProperties DEF StackOK, Grows
<1>2. Len(st) \in 1..Len(st)
  BY <1>1
<1>3. /\ s \in Seq(Frame) /\ Len(s) = Len(st)
      /\ \A i \in 1..Len(st) : s[i] = IF i = Len(st) THEN g ELSE st[i]
  BY <1>1, <1>2, ExceptSeq
<1> HIDE DEF s
<1>4. \A i \in 1..Len(st) - 1 : i \in 1..Len(st) /\ i # Len(st) /\ i + 1 \in 1..Len(st) /\ s[i] = st[i]
  BY <1>1, <1>3
<1>5. Shapes(s, Len(rq2))
  <2>1. \A i \in 1..Len(st) : Shape(st[i], Len(rq2))
    BY <1>1, GrowsShape DEF StackOK, Shapes
  <2>2. QED
    BY <1>3, <2>1 DEF Shapes
<1>6. Links(s, rq2)
  <2> SUFFICES ASSUME NEW i \in 1..Len(st) - 1 PROVE Link(s[i], s[i + 1], rq2)
    BY <1>3 DEF Links
  <2>1. Link(st[i], st[i + 1], rq2)
    BY <1>4, GrowsLink DEF StackOK, Links, Shapes
  <2>2. s[i + 1].kind = st[i + 1].kind /\ s[i + 1].name = st[i + 1].name /\ s[i] = st[i]
    BY <1>1, <1>3, <1>4
  <2>3. QED
    BY <2>1, <2>2 DEF Link
<1>7. Reserved(s, Len(rq2))
  <2> SUFFICES ASSUME NEW i \in 1..Len(st), s[i].pc \in {"source", "push", "copy"} PROVE Len(rq2) < MaxReq
    BY <1>3 DEF Reserved
  <2>1. CASE i = Len(st)
    BY <1>3, <2>1
  <2>2. CASE i # Len(st)
    <3>1. i \in 1..Len(st) - 1
      BY <1>1, <2>2
    <3>2. st[i].pc \in Going /\ s[i] = st[i]
      BY <1>4, <3>1 DEF StackOK, Links, Link
    <3>3. QED
      BY <3>2 DEF Going
  <2>3. QED
    BY <2>1, <2>2
<1>8. QED
  BY <1>3, <1>5, <1>6, <1>7 DEF StackOK, s

(* What becomes of an activation when the one on top of it ends.  The      *)
(* others may at most lose their definition.                               *)
Keeps(f, g) ==
  g.kind = f.kind /\ g.name = f.name /\ g.pc = f.pc /\ g.first = f.first

GoesOn(f, g) ==
  /\ Keeps(f, g)
  /\ \/ g.todo = f.todo
     \/ f.kind = "eval" /\ g.todo = <<>>
     \/ f.todo # <<>> /\ f.kind \in {"eval", "pass"} /\ g.todo = Tail(f.todo)
  /\ g.failed => f.failed \/ f.todo # <<>>

Popped(st, s) ==
  /\ s \in Seq(Frame) /\ st # <<>> /\ Len(s) = Len(st) - 1
  /\ \A i \in 1..Len(s) : GoesOn(st[i], s[i])
  /\ \A i \in 1..Len(s) - 1 : s[i].todo = st[i].todo

LEMMA PopOK ==
  ASSUME NEW st, NEW rq, NEW rq2, StackOK(st, rq), Grows(rq, rq2), Len(rq2) = Len(rq),
         NEW s, Popped(st, s)
  PROVE  StackOK(s, rq2)
<1>1. /\ st \in Seq(Frame) /\ Len(st) \in Nat \ {0} /\ Len(s) = Len(st) - 1 /\ s \in Seq(Frame)
      /\ Len(rq) \in Nat
  BY TopIs, LenProperties DEF StackOK, Popped, Grows
<1>2. \A i \in 1..Len(s) : i \in 1..Len(st) /\ i \in 1..Len(st) - 1 /\ GoesOn(st[i], s[i])
                          /\ st[i].pc \in Going /\ Keeps(st[i], s[i])
  BY <1>1 DEF Popped, StackOK, Links, Link, GoesOn
<1>3. ASSUME NEW i \in 1..Len(s) PROVE Shape(s[i], Len(rq2))
  <2>1. Shape(st[i], Len(rq))
    BY <1>2 DEF StackOK, Shapes
  <2>2. ASSUME NEW S, st[i].todo \in Seq(S) PROVE s[i].todo \in Seq(S)
    BY <1>2, <2>2, HeadTailProperties, EmptySeq DEF GoesOn
  <2>3. QED
    BY <1>2, <2>1, <2>2 DEF Shape, Keeps
<1>4. ASSUME NEW i \in 1..Len(s) - 1 PROVE Link(s[i], s[i + 1], rq2)
  <2>1. i \in 1..Len(st) - 1 /\ i \in 1..Len(st) /\ i \in 1..Len(s) /\ i + 1 \in 1..Len(s)
    BY <1>1
  <2>2. Link(st[i], st[i + 1], rq2)
    BY <2>1, GrowsLink DEF StackOK, Links, Shapes
  <2>3. s[i].todo = st[i].todo
    BY DEF Popped
  <2>4. QED
    BY <1>2, <2>1, <2>2, <2>3 DEF Link, Keeps
<1>5. Reserved(s, Len(rq2))
  BY <1>2 DEF Reserved, Keeps, Going
<1>6. QED
  BY <1>1, <1>3, <1>4, <1>5 DEF StackOK, Shapes, Links

LEMMA TopFacts ==
  ASSUME Base, stack # <<>>
  PROVE  /\ Top \in Frame /\ Shape(Top, Len(req)) /\ Top = stack[Len(stack)]
         /\ Len(stack) \in Nat \ {0} /\ stack \in Seq(Frame)
<1>1. /\ Len(stack) \in Nat \ {0} /\ Last(stack) = stack[Len(stack)] /\ Last(stack) \in Frame
      /\ stack \in Seq(Frame)
  BY TopIs DEF Base, StackOK
<1>2. Len(stack) \in 1..Len(stack)
  BY <1>1
<1>3. QED
  BY <1>1, <1>2 DEF Base, StackOK, Shapes, Top

LEMMA SelfGrows ==
  ASSUME TypeOK PROVE Grows(req, req)
BY ReqType DEF Grows

(* The activation on top moves on in its work.                             *)
LEMMA GotoOK ==
  ASSUME Base, stack # <<>>, NEW rq, Grows(req, rq), Top.kind \notin {"eval", "pass"},
         NEW pc \in {"push", "give", "source", "waitRead", "fetch", "waitNs"},
         pc \in {"source", "push", "copy"} => Len(rq) < MaxReq
  PROVE  /\ StackOK(Goto(pc), rq) /\ Len(Goto(pc)) = Len(stack)
         /\ \A i \in 1..Len(stack) :
              Goto(pc)[i] = IF i = Len(stack) THEN [Top EXCEPT !.pc = pc] ELSE stack[i]
<1> DEFINE g == [Top EXCEPT !.pc = pc]
<1>1. Top \in Frame /\ Shape(Top, Len(req)) /\ Len(req) \in Nat /\ Len(rq) \in Nat /\ Len(req) <= Len(rq)
  BY TopFacts, LenProperties DEF Grows
<1>2. g \in Frame /\ g.kind = Top.kind /\ g.name = Top.name /\ g.pc = pc /\ g.todo = Top.todo /\ g.first = Top.first
  BY <1>1 DEF Frame
<1>3. Shape(g, Len(rq))
  BY <1>1, <1>2 DEF Shape
<1> HIDE DEF g
<1>4. StackOK(stack, req) /\ Top = Last(stack)
  BY DEF Base, Top
<1>5. /\ StackOK(SetTop(g), rq) /\ Len(SetTop(g)) = Len(stack)
      /\ \A i \in 1..Len(stack) : SetTop(g)[i] = IF i = Len(stack) THEN g ELSE stack[i]
  BY <1>2, <1>3, <1>4, TopOK DEF SetTop
<1>6. QED
  BY <1>5 DEF Goto, g

(* The activation on top ends.                                             *)
LEMMA FrontPops ==
  ASSUME NEW st \in Seq(Frame), st # <<>>
  PROVE  Popped(st, Front(st))
<1>1. /\ Len(st) \in Nat \ {0} /\ Front(st) \in Seq(Frame) /\ Len(Front(st)) = Len(st) - 1
      /\ \A i \in 1..Len(st) - 1 : Front(st)[i] = st[i]
  BY TopIs
<1>2. \A i \in 1..Len(Front(st)) - 1 : i \in 1..Len(st) - 1
  BY <1>1
<1>3. QED
  BY <1>1, <1>2 DEF Popped, GoesOn, Keeps

(* A require() returns or throws: the code that called it, if any, goes on *)
(* or is abandoned.                                                        *)
LEMMA ReturnedPops ==
  ASSUME Base, stack # <<>>, NEW threw \in BOOLEAN
  PROVE  /\ Popped(stack, Returned(threw))
         /\ \A i \in 1..Len(stack) - 1 : Returned(threw)[i].freed = stack[i].freed
<1> DEFINE below == Front(stack)
           caller == Last(below)
           g == IF threw THEN [caller EXCEPT !.failed = TRUE, !.todo = <<>>]
                ELSE [caller EXCEPT !.todo = Tail(@)]
<1>1. /\ stack \in Seq(Frame) /\ Len(stack) \in Nat \ {0} /\ below \in Seq(Frame)
      /\ Len(below) = Len(stack) - 1
      /\ \A i \in 1..Len(stack) - 1 : below[i] = stack[i]
      /\ Popped(stack, below)
  BY TopIs, FrontPops DEF Base, StackOK
<1>2. CASE below # <<>> /\ caller.kind = "eval"
  <2>1. /\ Len(below) \in Nat \ {0} /\ caller = below[Len(below)] /\ caller \in Frame
        /\ Len(below) \in 1..Len(below)
    BY <1>1, <1>2, TopIs
  <2>2. /\ Len(below) \in 1..Len(stack) - 1 /\ Len(below) \in 1..Len(stack)
        /\ caller = stack[Len(below)]
    BY <1>1, <2>1
  <2>3. caller.todo \in Seq(Modules) /\ caller.todo # <<>>
    BY <1>2, <2>2 DEF Base, StackOK, Shapes, Shape, Links, Link
  <2>4. Tail(caller.todo) \in Seq(Modules) /\ <<>> \in Seq(Modules)
    BY <2>3, HeadTailProperties, EmptySeq
  <2>5. g \in Frame /\ Keeps(caller, g) /\ GoesOn(caller, g) /\ g.freed = caller.freed
    BY <2>1, <2>3, <2>4, <1>2 DEF Frame, Keeps, GoesOn
  <2>6. Returned(threw) = [below EXCEPT ![Len(below)] = g]
    BY <1>2 DEF Returned
  <2> HIDE DEF g
  <2>7. /\ Returned(threw) \in Seq(Frame) /\ Len(Returned(threw)) = Len(below)
        /\ \A i \in 1..Len(below) : Returned(threw)[i] = IF i = Len(below) THEN g ELSE below[i]
    BY <1>1, <2>1, <2>5, <2>6, ExceptSeq
  <2>8. \A i \in 1..Len(below) - 1 : i \in 1..Len(below) /\ i # Len(below) /\ i \in 1..Len(stack) - 1
    BY <1>1
  <2>9. \A i \in 1..Len(below) : i \in 1..Len(stack) - 1 /\ (i = Len(below) \/ i \in 1..Len(below) - 1)
    BY <1>1
  <2>10. ASSUME NEW i \in 1..Len(below)
         PROVE  GoesOn(stack[i], Returned(threw)[i]) /\ Returned(threw)[i].freed = stack[i].freed
    <3>1. CASE i = Len(below)
      BY <2>2, <2>5, <2>7, <3>1
    <3>2. CASE i # Len(below)
      <4>1. Returned(threw)[i] = stack[i]
        BY <1>1, <2>7, <2>9, <3>2
      <4>2. QED
        BY <4>1 DEF GoesOn, Keeps
    <3>3. QED
      BY <3>1, <3>2
  <2>11. \A i \in 1..Len(below) - 1 : Returned(threw)[i].todo = stack[i].todo
    BY <1>1, <2>7, <2>8
  <2>12. QED
    BY <1>1, <2>7, <2>10, <2>11 DEF Popped
<1>3. CASE ~(below # <<>> /\ caller.kind = "eval")
  <2>1. Returned(threw) = below
    BY <1>3 DEF Returned
  <2>2. QED
    BY <1>1, <2>1
<1>4. QED
  BY <1>2, <1>3

(* An evaluation ends: what is below is left as it is, but for the         *)
(* definitions the engine frees.                                           *)
LEMMA EvalReturnsOK ==
  ASSUME NEW below \in Seq(Frame), EvalReturns(below)
  PROVE  /\ stack' \in Seq(Frame) /\ Len(stack') = Len(below)
         /\ \A i \in 1..Len(below) :
              /\ Keeps(below[i], stack'[i]) /\ stack'[i].todo = below[i].todo
              /\ stack'[i].failed = below[i].failed
              /\ stack'[i].freed => below[i].freed \/ FreesDefinitions
<1> DEFINE e(i) == IF EvaluatedBy(below[i]) THEN [below[i] EXCEPT !.freed = TRUE] ELSE below[i]
<1>1. Len(below) \in Nat /\ DOMAIN below = 1..Len(below) /\ \A i \in 1..Len(below) : below[i] \in Frame
  BY LenProperties, ElementOfSeq
<1>2. \A i \in 1..Len(below) : e(i) \in Frame
  BY <1>1 DEF Frame
<1>3. [i \in 1..Len(below) |-> e(i)] \in Seq(Frame) /\ Len([i \in 1..Len(below) |-> e(i)]) = Len(below)
  <2> HIDE DEF e
  <2>1. [i \in 1..Len(below) |-> e(i)] \in Seq(Frame)
    BY <1>1, <1>2, IsASeq
  <2>2. QED
    BY <1>1, <2>1, LenProperties
<1>4. CASE FreesDefinitions
  <2>1. stack' = [i \in 1..Len(below) |-> e(i)]
    BY <1>1, <1>4 DEF EvalReturns
  <2>2. \A i \in 1..Len(below) :
          /\ Keeps(below[i], e(i)) /\ e(i).todo = below[i].todo /\ e(i).failed = below[i].failed
    BY <1>1 DEF Frame, Keeps
  <2>3. \A i \in 1..Len(below) : stack'[i] = e(i)
    BY <2>1
  <2> HIDE DEF e
  <2>4. QED
    BY <1>3, <1>4, <2>1, <2>2, <2>3
<1>5. CASE ~FreesDefinitions
  <2>1. stack' = below
    BY <1>5 DEF EvalReturns
  <2>2. QED
    BY <1>1, <1>5, <2>1 DEF Keeps
<1>6. QED
  BY <1>4, <1>5

(* An evaluation a job started ends.                                       *)
LEMMA JobEndsPops ==
  ASSUME Base, JobEnds
  PROVE  /\ Popped(stack, stack')
         /\ \A i \in 1..Len(stack') : stack'[i].todo = stack[i].todo
<1>1. stack \in Seq(Frame) /\ stack # <<>>
  BY DEF Base, StackOK, JobEnds, At
<1>2. /\ Front(stack) \in Seq(Frame) /\ Len(Front(stack)) = Len(stack) - 1
      /\ \A i \in 1..Len(stack) - 1 : Front(stack)[i] = stack[i]
      /\ Len(stack) \in Nat \ {0}
  BY <1>1, TopIs
<1>3. EvalReturns(Front(stack))
  BY DEF JobEnds
<1>4. /\ stack' \in Seq(Frame) /\ Len(stack') = Len(stack) - 1
      /\ \A i \in 1..Len(stack') : /\ Keeps(stack[i], stack'[i]) /\ stack'[i].todo = stack[i].todo
                                    /\ stack'[i].failed = stack[i].failed
  BY <1>2, <1>3, EvalReturnsOK
<1>5. \A i \in 1..Len(stack') - 1 : i \in 1..Len(stack')
  BY <1>2, <1>4
<1>6. QED
  BY <1>1, <1>4, <1>5 DEF Popped, GoesOn

(* The evaluation on top belongs to the pass below it, and is that of its  *)
(* next request.                                                           *)
LEMMA PassBelow ==
  ASSUME Base, stack # <<>>, InPass
  PROVE  LET n == Len(stack) - 1
         IN  /\ n \in 1..Len(stack) - 1 /\ n \in 1..Len(stack) /\ n + 1 = Len(stack)
             /\ Last(Front(stack)) = stack[n] /\ stack[n] \in Frame
             /\ stack[n].kind = "pass" /\ stack[n].todo \in Seq(1..Len(req)) /\ stack[n].todo # <<>>
             /\ Head(stack[n].todo) \in 1..Len(req)
             /\ Top.kind = "eval" /\ Top.name = req[Head(stack[n].todo)].name
<1> DEFINE n == Len(stack) - 1
<1>1. /\ stack \in Seq(Frame) /\ Front(stack) \in Seq(Frame) /\ Len(Front(stack)) = n
      /\ \A i \in 1..n : Front(stack)[i] = stack[i] /\ stack[i] \in Frame
      /\ Len(stack) \in Nat \ {0} /\ Top = stack[Len(stack)]
  BY TopIs DEF Base, StackOK, Top
<1>2. n \in 1..Len(stack) - 1 /\ n \in 1..Len(stack) /\ n + 1 = Len(stack) /\ stack[n].kind = "pass"
  BY <1>1 DEF InPass
<1>3. Front(stack) # <<>> /\ Last(Front(stack)) = stack[n]
  <2>1. Front(stack) # <<>>
    BY <1>1, <1>2, EmptySeq
  <2>2. Last(Front(stack)) = Front(stack)[n]
    BY <1>1, <2>1, TopIs
  <2>3. QED
    BY <1>1, <1>2, <2>1, <2>2
<1>4. Shape(stack[n], Len(req)) /\ Link(stack[n], stack[n + 1], req)
  BY <1>2 DEF Base, StackOK, Shapes, Links
<1>5. /\ stack[n].todo \in Seq(1..Len(req)) /\ stack[n].todo # <<>>
      /\ Top.kind = "eval" /\ Top.name = req[Head(stack[n].todo)].name
  BY <1>1, <1>2, <1>4 DEF Shape, Link
<1>6. Head(stack[n].todo) \in 1..Len(req)
  BY <1>5, HeadTailProperties
<1>7. QED
  BY <1>1, <1>2, <1>3, <1>5, <1>6

(* An evaluation of a pass ends, and the pass goes on.                     *)
LEMMA PassEvalPops ==
  ASSUME Base, PassEvalEnds
  PROVE  /\ Popped(stack, stack')
         /\ stack'[Len(stack) - 1].todo = Tail(stack[Len(stack) - 1].todo)
<1> DEFINE n == Len(stack) - 1
           g == [stack[n] EXCEPT !.todo = Tail(@)]
           below == [Front(stack) EXCEPT ![n] = g]
<1>1. stack \in Seq(Frame) /\ stack # <<>> /\ InPass
  BY DEF Base, StackOK, PassEvalEnds, At
<1>2. /\ Front(stack) \in Seq(Frame) /\ Len(Front(stack)) = n /\ n \in 1..n
      /\ \A i \in 1..n : Front(stack)[i] = stack[i]
      /\ Len(stack) \in Nat \ {0}
  BY <1>1, TopIs, PassBelow
<1>3. /\ stack[n] \in Frame /\ stack[n].kind = "pass" /\ stack[n].todo \in Seq(1..Len(req))
      /\ stack[n].todo # <<>> /\ Last(Front(stack)) = stack[n]
  BY <1>1, PassBelow
<1>4. Tail(stack[n].todo) \in Seq(1..MaxReq)
  <2>1. Tail(stack[n].todo) \in Seq(1..Len(req))
    BY <1>3, HeadTailProperties
  <2>2. 1..Len(req) \subseteq 1..MaxReq
    BY ReqType, Constants DEF Base
  <2>3. QED
    BY <2>1, <2>2, SeqMonotonic
<1>5. g \in Frame /\ Keeps(stack[n], g) /\ g.todo = Tail(stack[n].todo) /\ g.failed = stack[n].failed
  BY <1>3, <1>4 DEF Frame, Keeps
<1>6. EvalReturns(below)
  <2>1. Front(stack)[n] = stack[n]
    BY <1>2
  <2>2. [Front(stack) EXCEPT ![n].todo = Tail(@)] = below
    BY <2>1
  <2>3. EvalReturns([Front(stack) EXCEPT ![Len(Front(stack))].todo = Tail(@)])
    BY DEF PassEvalEnds
  <2>4. QED
    BY <1>2, <2>2, <2>3
<1> HIDE DEF g
<1>7. /\ below \in Seq(Frame) /\ Len(below) = n
      /\ \A i \in 1..n : below[i] = IF i = n THEN g ELSE stack[i]
  BY <1>2, <1>5, ExceptSeq
<1> HIDE DEF below
<1>8. /\ stack' \in Seq(Frame) /\ Len(stack') = n
      /\ \A i \in 1..n : /\ Keeps(below[i], stack'[i]) /\ stack'[i].todo = below[i].todo
                          /\ stack'[i].failed = below[i].failed
  BY <1>6, <1>7, EvalReturnsOK
<1>9. \A i \in 1..n - 1 : i \in 1..n /\ i # n
  BY <1>2
<1>10. ASSUME NEW i \in 1..n PROVE GoesOn(stack[i], stack'[i])
  <2>1. CASE i = n
    BY <1>3, <1>5, <1>7, <1>8, <2>1 DEF GoesOn, Keeps
  <2>2. CASE i # n
    BY <1>7, <1>8, <2>2 DEF GoesOn, Keeps
  <2>3. QED
    BY <2>1, <2>2
<1>11. QED
  BY <1>1, <1>2, <1>5, <1>7, <1>8, <1>9, <1>10 DEF Popped

-----------------------------------------------------------------------------
(* The requests.                                                           *)

LEMMA AppendReq ==
  ASSUME TypeOK, NEW q \in Request
  PROVE  /\ Grows(req, Append(req, q)) /\ Len(Append(req, q)) = Len(req) + 1
         /\ \A r \in 1..Len(req) : Append(req, q)[r] = req[r]
         /\ Append(req, q)[Len(req) + 1] = q
<1>1. req \in Seq(Request) /\ Len(req) \in Nat
  BY ReqType
<1>2. /\ Append(req, q) \in Seq(Request) /\ Len(Append(req, q)) = Len(req) + 1
      /\ \A r \in 1..Len(req) : Append(req, q)[r] = req[r]
      /\ Append(req, q)[Len(req) + 1] = q
  BY <1>1, AppendProperties
<1>3. QED
  BY <1>1, <1>2 DEF Grows

LEMMA ExceptReq ==
  ASSUME TypeOK, NEW r \in 1..Len(req), NEW q \in Request, q.name = req[r].name
  PROVE  LET rq == [req EXCEPT ![r] = q]
         IN  /\ Grows(req, rq) /\ Len(rq) = Len(req)
             /\ \A k \in 1..Len(req) : rq[k] = IF k = r THEN q ELSE req[k]
<1> DEFINE rq == [req EXCEPT ![r] = q]
<1>1. req \in Seq(Request) /\ Len(req) \in Nat
  BY ReqType
<1>2. /\ rq \in Seq(Request) /\ Len(rq) = Len(req)
      /\ \A k \in 1..Len(req) : rq[k] = IF k = r THEN q ELSE req[k]
  BY <1>1, ExceptSeq
<1> HIDE DEF rq
<1>3. Grows(req, rq)
  BY <1>1, <1>2 DEF Grows
<1>4. QED
  BY <1>2, <1>3 DEF rq

(* The request numbers kept anywhere stay those of requests.               *)
LEMMA Widen ==
  ASSUME TypeOK, NEW rq, Grows(req, rq)
  PROVE  /\ DOMAIN rq = 1..Len(rq) /\ Len(rq) \in Nat
         /\ pending \in Seq(DOMAIN rq) /\ work \in Seq(DOMAIN rq) /\ evalQueue \in Seq(DOMAIN rq)
         /\ cache \in [Modules -> {0} \union DOMAIN rq]
<1>1. DOMAIN rq = 1..Len(rq) /\ Len(rq) \in Nat
  BY LenProperties DEF Grows
<1>2. DOMAIN req \subseteq DOMAIN rq
  BY <1>1, ReqType DEF Grows
<1>3. QED
  BY <1>1, <1>2, SeqMonotonic DEF TypeOK

(* What Base needs of a step besides the types of what it changes.         *)
LEMMA Restacked ==
  ASSUME StackOK(stack, req)
  PROVE  stack \in Seq(Frame) /\ \A i \in 1..Len(stack) - 1 : stack[i].pc \in {"waitRead", "waitNs", "run"}
BY DEF StackOK, Links, Link, Going

LEMMA InitBase == Init => Base
<1> SUFFICES ASSUME Init PROVE Base
  OBVIOUS
<1>1. /\ \A S : <<>> \in Seq(S) /\ Len(<<>>) = 0
      /\ MaxReq \in Nat
  BY EmptySeq, Constants
<1>2. StackOK(stack, req) /\ Len(req) <= MaxReq
  BY <1>1 DEF Init, StackOK, Shapes, Links, Reserved
<1>3. TypeOK
  BY <1>1, <1>2, Restacked DEF Init, TypeOK
<1>4. QED
  BY <1>2, <1>3 DEF Base, Init

(* A step that changes the stack alone.                                    *)
LEMMA StackStepBase ==
  ASSUME Base, UNCHANGED <<req, pending, rvars, cache, evalQueue, jobs, global, defs, uaf>>,
         ns' \in [Modules -> Modules \union {None, Blank}], StackOK(stack', req')
  PROVE  Base'
<1>1. stack' \in Seq(Frame) /\ \A i \in 1..Len(stack') - 1 : stack'[i].pc \in {"waitRead", "waitNs", "run"}
  BY DEF StackOK, Links, Link, Going
<1>2. QED
  BY <1>1 DEF Base, TypeOK, rvars

(* A new activation of the event loop or of a require() that waits.        *)
LEMMA TickPush ==
  ASSUME Base, Ticking, NEW f \in Frame, Shape(f, Len(req)),
         f.pc \in {"source", "push", "copy"} => Len(req) < MaxReq
  PROVE  /\ StackOK(Append(stack, f), req)
         /\ Len(Append(stack, f)) = Len(stack) + 1
         /\ \A i \in 1..Len(stack) : Append(stack, f)[i] = stack[i]
         /\ Append(stack, f)[Len(stack) + 1] = f
<1>1. ASSUME stack # <<>> PROVE Link(Last(stack), f, req)
  <2>1. Top.pc \in {"waitRead", "waitNs"} /\ Shape(Top, Len(req))
    BY <1>1, TopFacts DEF Ticking, Waiting
  <2>2. QED
    BY <2>1 DEF Shape, Link, Going, Top
<1>2. stack \in Seq(Frame) /\ StackOK(stack, req)
  BY DEF Base, StackOK
<1>3. QED
  BY <1>1, <1>2, PushOK

(* The activations an action puts on the stack.                            *)
LEMMA CallOK ==
  ASSUME NEW n, NEW kind \in {"register", "require", "import"}, NEW m \in Modules,
         NEW pc \in {"push", "source", "copy"}
  PROVE  Call(kind, m, pc) \in Frame /\ Shape(Call(kind, m, pc), n)
BY EmptySeq DEF Call, Frame, Shape

LEMMA EvaluationOK ==
  ASSUME NEW n, NEW m \in Modules
  PROVE  /\ Evaluation(m) \in Frame /\ Shape(Evaluation(m), n)
         /\ Evaluation(m).kind = "eval" /\ Evaluation(m).name = m /\ Evaluation(m).pc = "run"
         /\ Evaluation(m).todo = Requires[m] /\ ~Evaluation(m).freed /\ ~Evaluation(m).failed
         /\ Evaluation(m).first = (m \notin CommonJS /\ defs[m] = "none")
<1>1. Requires[m] \in Seq(Modules)
  BY Constants
<1> DEFINE b == m \notin CommonJS /\ defs[m] = "none"
<1>2. Evaluation(m) =
        [kind |-> "eval", name |-> m, pc |-> "run", todo |-> Requires[m], failed |-> FALSE,
         first |-> b, freed |-> FALSE]
  <2>1. Evaluation(m) = [Call("eval", m, "run") EXCEPT !.todo = Requires[m], !.first = b]
    BY Zenon DEF Evaluation
  <2>2. b \in BOOLEAN
    OBVIOUS
  <2> HIDE DEF b
  <2>3. QED
    BY <2>1, <2>2 DEF Call
<1>3. b \in BOOLEAN /\ (b => m \in Modules)
  OBVIOUS
<1> HIDE DEF b
<1>4. Evaluation(m) \in Frame
  BY <1>1, <1>2, <1>3 DEF Frame
<1>5. /\ Shape(Evaluation(m), n)
      /\ Evaluation(m).kind = "eval" /\ Evaluation(m).name = m /\ Evaluation(m).pc = "run"
      /\ Evaluation(m).todo = Requires[m] /\ ~Evaluation(m).freed /\ ~Evaluation(m).failed
      /\ Evaluation(m).first = b
  BY <1>1, <1>2, <1>4 DEF Shape
<1>6. QED
  BY <1>4, <1>5 DEF b

-----------------------------------------------------------------------------
(* Every step keeps Base.                                                  *)

LEMMA RegisterModuleBase ==
  ASSUME Base, NEW m \in Modules, RegisterModule(m) PROVE Base'
<1>1. Call("register", m, "push") \in Frame /\ Shape(Call("register", m, "push"), Len(req))
  BY CallOK
<1>2. Ticking /\ Len(req) < MaxReq /\ req' = req
  BY ReqType, Constants DEF Base, RegisterModule, Room
<1>3. StackOK(stack', req')
  BY <1>1, <1>2, TickPush DEF RegisterModule, Push
<1>4. QED
  BY <1>3, StackStepBase DEF RegisterModule, Base, TypeOK

LEMMA RequireBase ==
  ASSUME Base, NEW m \in Modules, Require(m) PROVE Base'
<1>1. Call("require", m, "source") \in Frame /\ Shape(Call("require", m, "source"), Len(req))
  BY CallOK
<1>2. Ticking /\ Len(req) < MaxReq /\ req' = req
  BY ReqType, Constants DEF Base, Require, Room
<1>3. StackOK(stack', req')
  BY <1>1, <1>2, TickPush DEF Require, Push
<1>4. QED
  BY <1>3, StackStepBase DEF Require, Base, TypeOK

LEMMA ImportUnreadBase ==
  ASSUME Base, NEW m \in Modules, ImportUnread(m) PROVE Base'
<1>1. Call("import", m, "push") \in Frame /\ Shape(Call("import", m, "push"), Len(req))
  BY CallOK
<1>2. Ticking /\ Len(req) < MaxReq /\ req' = req
  BY ReqType, Constants DEF Base, ImportUnread, Room
<1>3. StackOK(stack', req')
  BY <1>1, <1>2, TickPush DEF ImportUnread, Push
<1>4. QED
  BY <1>3, StackStepBase DEF ImportUnread, Base, TypeOK

LEMMA ImportLoadedBase ==
  ASSUME Base, NEW m \in Modules, ImportLoaded(m) PROVE Base'
<1>1. Call("import", m, "copy") \in Frame /\ Shape(Call("import", m, "copy"), Len(req))
  BY CallOK
<1>2. Ticking /\ Len(req) < MaxReq /\ req' = req
  BY ReqType, Constants DEF Base, ImportLoaded, Room
<1>3. StackOK(stack', req')
  BY <1>1, <1>2, TickPush DEF ImportLoaded, Push
<1>4. QED
  BY <1>3, StackStepBase DEF ImportLoaded, Base, TypeOK

(* The request an import makes of a source it has found, and the stack     *)
(* without it, on which nothing is about to make another.                  *)
LEMMA CopyReq ==
  ASSUME Base, CopySource
  PROVE  /\ \E q \in Request : /\ q.promise = "pending" /\ q.status \in {"loaded", "blank"}
                              /\ req' = Append(req, q)
         /\ Grows(req, req') /\ Len(req') = Len(req) + 1 /\ Len(req) < MaxReq
         /\ Popped(stack, stack') /\ StackOK(stack', req')
<1>1. stack # <<>> /\ Top.kind = "import" /\ Top.pc = "copy" /\ stack' = Front(stack)
  BY DEF CopySource, At
<1>2. /\ Len(stack) \in 1..Len(stack) /\ Top = stack[Len(stack)] /\ Top.name \in Modules
      /\ stack \in Seq(Frame)
  BY <1>1, TopFacts DEF Shape
<1>3. Len(req) < MaxReq
  BY <1>1, <1>2 DEF Base, StackOK, Reserved
<1> DEFINE q == [name |-> Top.name, promise |-> "pending",
                 status |-> IF Loaded(Top.name) THEN "loaded" ELSE "blank"]
<1>4. q \in Request /\ q.promise = "pending" /\ q.status \in {"loaded", "blank"} /\ req' = Append(req, q)
  BY <1>2 DEF CopySource, Request
<1> HIDE DEF q
<1>5. Grows(req, req') /\ Len(req') = Len(req) + 1
  BY <1>4, AppendReq DEF Base
<1>6. Popped(stack, stack')
  BY <1>1, <1>2, FrontPops
<1>7. StackOK(stack', req)
  BY <1>6, PopOK, SelfGrows DEF Base
<1>8. \A i \in 1..Len(stack') : stack'[i].pc \notin {"source", "push", "copy"}
  <2>1. \A i \in 1..Len(stack') : i \in 1..Len(stack) - 1 /\ stack'[i].pc = stack[i].pc
    BY <1>2, <1>6 DEF Popped, GoesOn, Keeps
  <2>2. QED
    BY <2>1 DEF Base, StackOK, Links, Link, Going
<1>9. StackOK(stack', req')
  BY <1>5, <1>7, <1>8, SameOK
<1>10. QED
  BY <1>3, <1>4, <1>5, <1>6, <1>9

LEMMA CopySourceBase ==
  ASSUME Base, CopySource PROVE Base'
<1>1. /\ Grows(req, req') /\ Len(req') = Len(req) + 1 /\ Len(req) < MaxReq
      /\ StackOK(stack', req')
  BY CopyReq
<1>2. /\ DOMAIN req' = 1..Len(req') /\ Len(req') \in Nat
      /\ pending \in Seq(DOMAIN req') /\ work \in Seq(DOMAIN req') /\ evalQueue \in Seq(DOMAIN req')
      /\ cache \in [Modules -> {0} \union DOMAIN req']
  BY <1>1, Widen DEF Base
<1>3. evalQueue' \in Seq(DOMAIN req')
  <2>1. Len(req) + 1 \in DOMAIN req'
    BY <1>1, <1>2
  <2>2. QED
    BY <1>2, <2>1, AppendProperties DEF CopySource
<1>4. Len(req') <= MaxReq
  BY <1>1, ReqType, Constants DEF Base
<1>5. TypeOK'
  <2>1. stack' \in Seq(Frame) /\ \A i \in 1..Len(stack') - 1 : stack'[i].pc \in {"waitRead", "waitNs", "run"}
    BY <1>1 DEF StackOK, Links, Link, Going
  <2>2. req' \in Seq(Request)
    BY <1>1 DEF Grows
  <2>3. QED
    BY <1>2, <1>3, <2>1, <2>2 DEF Base, TypeOK, CopySource, rvars
<1>6. QED
  BY <1>1, <1>4, <1>5 DEF Base, CopySource, rvars

LEMMA PushReadBase ==
  ASSUME Base, PushRead PROVE Base'
<1> DEFINE q == [name |-> Top.name, status |-> "queued",
                 promise |-> IF Top.kind = "import" THEN "pending" ELSE "none"]
<1>1. /\ stack # <<>> /\ Top.kind \in {"register", "require", "import"} /\ Top.pc = "push"
      /\ Top \in Frame /\ Shape(Top, Len(req)) /\ Len(req) < MaxReq
  <2>1. stack # <<>> /\ Top.kind \in {"register", "require", "import"} /\ Top.pc = "push"
    BY DEF PushRead, At
  <2>2. Len(stack) \in 1..Len(stack) /\ Top = stack[Len(stack)]
    BY <2>1, TopFacts
  <2>3. QED
    BY <2>1, <2>2, TopFacts DEF Base, StackOK, Reserved
<1>2. q \in Request /\ req' = Append(req, q)
  BY <1>1 DEF PushRead, Request, Shape
<1> HIDE DEF q
<1>3. Grows(req, req') /\ Len(req') = Len(req) + 1
  BY <1>2, AppendReq DEF Base
<1>4. /\ DOMAIN req' = 1..Len(req') /\ Len(req') \in Nat
      /\ pending \in Seq(DOMAIN req') /\ work \in Seq(DOMAIN req') /\ evalQueue \in Seq(DOMAIN req')
      /\ cache \in [Modules -> {0} \union DOMAIN req']
  BY <1>3, Widen DEF Base
<1>5. pending' \in Seq(DOMAIN req')
  <2>1. Len(req) + 1 \in DOMAIN req'
    BY <1>3, <1>4
  <2>2. QED
    BY <1>4, <2>1, AppendProperties DEF PushRead
<1>6. StackOK(stack', req') /\ Len(stack') = Len(stack)
      /\ \A i \in 1..Len(stack) : stack'[i] = IF i = Len(stack) THEN [Top EXCEPT !.pc = "give"] ELSE stack[i]
  BY <1>1, <1>3, GotoOK DEF PushRead
<1>7. Len(req') <= MaxReq
  BY <1>1, <1>3, ReqType, Constants DEF Base
<1>8. TypeOK'
  <2>1. stack' \in Seq(Frame) /\ \A i \in 1..Len(stack') - 1 : stack'[i].pc \in {"waitRead", "waitNs", "run"}
    BY <1>6 DEF StackOK, Links, Link, Going
  <2>2. req' \in Seq(Request)
    BY <1>3 DEF Grows
  <2>3. QED
    BY <1>4, <1>5, <2>1, <2>2 DEF Base, TypeOK, PushRead, rvars
<1>9. QED
  BY <1>6, <1>7, <1>8 DEF Base, PushRead, rvars

LEMMA GiveReadBase ==
  ASSUME Base, GiveRead PROVE Base'
<1>1. stack # <<>> /\ Top.kind \in {"register", "require", "import"} /\ req' = req /\ Grows(req, req)
  BY SelfGrows DEF GiveRead, At, Base
<1>2. StackOK(stack', req)
  <2>1. CASE Top.kind = "require"
    <3>1. \E pc \in {"fetch", "waitRead"} : stack' = Goto(pc)
      BY <2>1 DEF GiveRead
    <3>2. QED
      BY <1>1, <2>1, <3>1, GotoOK
  <2>2. CASE Top.kind # "require"
    <3>1. Popped(stack, stack') /\ StackOK(stack, req)
      BY <1>1, <2>2, FrontPops DEF GiveRead, Base, StackOK
    <3>2. QED
      BY <1>1, <3>1, PopOK
  <2>3. QED
    BY <2>1, <2>2
<1>3. stack' \in Seq(Frame) /\ \A i \in 1..Len(stack') - 1 : stack'[i].pc \in {"waitRead", "waitNs", "run"}
  BY <1>2 DEF StackOK, Links, Link, Going
<1>4. QED
  BY <1>1, <1>2, <1>3 DEF Base, TypeOK, GiveRead

LEMMA CheckSourceBase ==
  ASSUME Base, CheckSource PROVE Base'
<1>1. stack # <<>> /\ Top.kind = "require" /\ Top.pc = "source" /\ Grows(req, req) /\ req' = req
  BY SelfGrows DEF CheckSource, At, Base
<1>2. Len(req) < MaxReq
  <2>1. Len(stack) \in 1..Len(stack) /\ Top = stack[Len(stack)]
    BY <1>1, TopFacts
  <2>2. QED
    BY <1>1, <2>1 DEF Base, StackOK, Reserved
<1>3. \E pc \in {"fetch", "waitRead", "push"} : stack' = Goto(pc)
  BY DEF CheckSource
<1>4. StackOK(stack', req')
  BY <1>1, <1>2, <1>3, GotoOK
<1>5. QED
  BY <1>4, StackStepBase DEF CheckSource, Base, TypeOK

LEMMA ReadArrivedBase ==
  ASSUME Base, ReadArrived PROVE Base'
<1>1. stack # <<>> /\ Top.kind = "require" /\ Grows(req, req) /\ req' = req
  BY SelfGrows DEF ReadArrived, At, Base
<1>2. StackOK(stack', req')
  BY <1>1, GotoOK DEF ReadArrived
<1>3. QED
  BY <1>2, StackStepBase DEF ReadArrived, Base, TypeOK

(* A require() returns.                                                    *)
LEMMA ReturnedOK ==
  ASSUME Base, stack # <<>>, NEW threw \in BOOLEAN
  PROVE  StackOK(Returned(threw), req)
<1>1. Popped(stack, Returned(threw)) /\ StackOK(stack, req) /\ Grows(req, req)
  BY ReturnedPops, SelfGrows DEF Base
<1>2. QED
  BY <1>1, PopOK

LEMMA FetchBase ==
  ASSUME Base, Fetch PROVE Base'
<1>1. stack # <<>> /\ Top.kind = "require" /\ Top.name \in Modules /\ Grows(req, req) /\ req' = req
  <2>1. stack # <<>> /\ Top.kind = "require"
    BY DEF Fetch, At
  <2>2. QED
    BY <2>1, TopFacts, SelfGrows DEF Fetch, Base, Shape
<1>2. StackOK(stack', req')
  <2>1. StackOK(Goto("waitNs"), req) /\ StackOK(Returned(FALSE), req) /\ StackOK(Returned(TRUE), req)
    BY <1>1, GotoOK, ReturnedOK
  <2>2. stack' \in {Goto("waitNs"), Returned(FALSE), Returned(TRUE)}
    BY DEF Fetch
  <2>3. QED
    BY <1>1, <2>1, <2>2
<1>3. jobs' \in Seq(Modules)
  <2>1. jobs \in Seq(Modules) /\ (jobs' = jobs \/ jobs' = Append(jobs, Top.name))
    BY DEF Fetch, Base, TypeOK
  <2>2. QED
    BY <1>1, <2>1, AppendProperties
<1>4. stack' \in Seq(Frame) /\ \A i \in 1..Len(stack') - 1 : stack'[i].pc \in {"waitRead", "waitNs", "run"}
  BY <1>2 DEF StackOK, Links, Link, Going
<1>5. QED
  BY <1>1, <1>2, <1>3, <1>4 DEF Base, TypeOK, Fetch, rvars

LEMMA ReturnBase ==
  ASSUME Base, GotNamespace \/ Timeout PROVE Base'
<1>1. stack # <<>> /\ req' = req
  BY DEF GotNamespace, Timeout, Waiting, At
<1>2. \E threw \in BOOLEAN : stack' = Returned(threw)
  BY DEF GotNamespace, Timeout
<1>3. StackOK(stack', req')
  BY <1>1, <1>2, ReturnedOK
<1>4. QED
  BY <1>3, StackStepBase DEF GotNamespace, Timeout, Base, TypeOK

LEMMA StartEvalData ==
  ASSUME Base, NEW m \in Modules, NEW f, StartEval(m, f)
  PROVE  /\ global' \in Modules \union {None, Blank}
         /\ defs' \in [Modules -> {"none", "defined", "threw"}]
BY Constants DEF Base, TypeOK, StartEval

LEMMA EvalReturnsData ==
  ASSUME Base, NEW f, EvalReturns(f)
  PROVE  defs' \in [Modules -> {"none", "defined", "threw"}]
BY DEF EvalReturns, Base, TypeOK

LEMMA RunJobBase ==
  ASSUME Base, RunJob PROVE Base'
<1> DEFINE m == Head(jobs)
<1>1. m \in Modules /\ jobs' \in Seq(Modules) /\ Ticking /\ StartEval(m, stack) /\ req' = req
  BY HeadTailProperties DEF RunJob, Base, TypeOK
<1> HIDE DEF m
<1>2. /\ Evaluation(m) \in Frame /\ Shape(Evaluation(m), Len(req))
      /\ Evaluation(m).pc = "run"
  BY <1>1, EvaluationOK
<1>3. StackOK(stack', req')
  BY <1>1, <1>2, TickPush DEF StartEval
<1>4. /\ global' \in Modules \union {None, Blank}
      /\ defs' \in [Modules -> {"none", "defined", "threw"}]
  BY <1>1, StartEvalData
<1>5. stack' \in Seq(Frame) /\ \A i \in 1..Len(stack') - 1 : stack'[i].pc \in {"waitRead", "waitNs", "run"}
  BY <1>3 DEF StackOK, Links, Link, Going
<1>6. QED
  BY <1>1, <1>3, <1>4, <1>5 DEF Base, TypeOK, RunJob, rvars

LEMMA NestedRequireBase ==
  ASSUME Base, NestedRequire PROVE Base'
<1> DEFINE m == Head(Top.todo)
           g == [Top EXCEPT !.todo = Tail(@)]
<1>1. /\ stack # <<>> /\ Top.kind = "eval" /\ Top.pc = "run" /\ Top.todo # <<>> /\ req' = req
  BY DEF NestedRequire, At
<1>2. /\ Top \in Frame /\ Shape(Top, Len(req)) /\ Top = stack[Len(stack)] /\ Top = Last(stack)
      /\ StackOK(stack, req) /\ Grows(req, req) /\ stack \in Seq(Frame)
  BY <1>1, TopFacts, SelfGrows DEF Base, Top
<1>3. m \in Modules /\ Tail(Top.todo) \in Seq(Modules)
  BY <1>1, <1>2, HeadTailProperties DEF Shape
<1>4. g \in Frame /\ Shape(g, Len(req)) /\ g.kind = Top.kind /\ g.name = Top.name /\ g.pc = "run"
  BY <1>1, <1>2, <1>3 DEF Frame, Shape
<1>5. Call("require", m, "source") \in Frame /\ Shape(Call("require", m, "source"), Len(req))
  BY <1>3, CallOK
<1>6. StackOK(stack', req')
  <2>1. CASE ns[m] # None
    <3> HIDE DEF g
    <3>1. StackOK([stack EXCEPT ![Len(stack)] = g], req)
      BY <1>1, <1>2, <1>4, TopOK
    <3>2. QED
      BY <1>1, <2>1, <3>1 DEF NestedRequire, SetTop, g
  <2>2. CASE ns[m] = None
    <3> DEFINE f == Call("require", m, "source")
    <3>1. Link(Last(stack), f, req)
      BY <1>1, <1>2 DEF Link, Going
    <3>2. Len(req) < MaxReq
      BY <2>2 DEF NestedRequire, Room
    <3> HIDE DEF f
    <3>3. StackOK(Append(stack, f), req)
      BY <1>2, <1>5, <3>1, <3>2, PushOK DEF f
    <3>4. QED
      BY <1>1, <2>2, <3>3 DEF NestedRequire, Push, f
  <2>3. QED
    BY <2>1, <2>2
<1>7. QED
  BY <1>6, StackStepBase DEF NestedRequire, Base, TypeOK

LEMMA JobEndsBase ==
  ASSUME Base, JobEnds PROVE Base'
<1>1. Popped(stack, stack') /\ StackOK(stack, req) /\ Grows(req, req) /\ req' = req
  BY JobEndsPops, SelfGrows DEF Base, JobEnds
<1>2. StackOK(stack', req')
  BY <1>1, PopOK
<1>3. defs' \in [Modules -> {"none", "defined", "threw"}]
  BY EvalReturnsData DEF JobEnds
<1>4. stack # <<>> /\ Top.kind = "eval" /\ Shape(Top, Len(req)) /\ Top \in Frame
  BY TopFacts DEF JobEnds, At
<1>5. /\ Value \in Modules \union {None, Blank} /\ uaf' \in BOOLEAN
  BY <1>4 DEF Value, Shape, Base, TypeOK, JobEnds, Frame
<1>6. ns' \in [Modules -> Modules \union {None, Blank}]
  BY <1>5 DEF JobEnds, Base, TypeOK
<1>7. stack' \in Seq(Frame) /\ \A i \in 1..Len(stack') - 1 : stack'[i].pc \in {"waitRead", "waitNs", "run"}
  BY <1>2 DEF StackOK, Links, Link, Going
<1>8. QED
  BY <1>1, <1>2, <1>3, <1>5, <1>6, <1>7 DEF Base, TypeOK, JobEnds, rvars

LEMMA StartEvalPassBase ==
  ASSUME Base, StartEvalPass PROVE Base'
<1> DEFINE f == [Call("pass", None, "run") EXCEPT !.todo = evalQueue]
<1>1. evalQueue \in Seq(1..Len(req)) /\ evalQueue \in Seq(1..MaxReq) /\ req' = req
  <2>1. evalQueue \in Seq(1..Len(req)) /\ 1..Len(req) \subseteq 1..MaxReq
    BY ReqType, Constants DEF Base, TypeOK
  <2>2. QED
    BY <2>1, SeqMonotonic DEF StartEvalPass
<1>2. f \in Frame /\ Shape(f, Len(req)) /\ f.pc = "run"
  BY <1>1 DEF Call, Frame, Shape
<1> HIDE DEF f
<1>3. StackOK(stack', req')
  BY <1>1, <1>2, TickPush DEF StartEvalPass, Push, f
<1>4. QED
  BY <1>3, StackStepBase DEF StartEvalPass, Base, TypeOK

LEMMA PassNextBase ==
  ASSUME Base, PassNext PROVE Base'
<1> DEFINE r == Head(Top.todo)
           m == req[r].name
<1>1. /\ stack # <<>> /\ Top.kind = "pass" /\ Top.pc = "run" /\ Top.todo # <<>> /\ req' = req
      /\ StartEval(m, stack)
  BY DEF PassNext, At
<1>2. /\ Shape(Top, Len(req)) /\ Top = Last(stack) /\ stack \in Seq(Frame) /\ StackOK(stack, req)
  BY <1>1, TopFacts DEF Base, Top
<1>3. r \in 1..Len(req) /\ m \in Modules
  <2>1. r \in 1..Len(req)
    BY <1>1, <1>2, HeadTailProperties DEF Shape
  <2>2. QED
    BY <2>1, ReqType DEF Base, Request
<1>4. /\ Evaluation(m) \in Frame /\ Shape(Evaluation(m), Len(req))
      /\ Evaluation(m).pc = "run" /\ Evaluation(m).kind = "eval" /\ Evaluation(m).name = m
  BY <1>3, EvaluationOK
<1>5. Link(Last(stack), Evaluation(m), req)
  BY <1>1, <1>2, <1>4 DEF Link, Going
<1>6. StackOK(stack', req')
  <2> DEFINE f == Evaluation(m)
  <2> HIDE DEF f
  <2>1. StackOK(Append(stack, f), req)
    BY <1>2, <1>4, <1>5, PushOK DEF f
  <2>2. QED
    BY <1>1, <2>1 DEF StartEval, f
<1>7. /\ global' \in Modules \union {None, Blank}
      /\ defs' \in [Modules -> {"none", "defined", "threw"}]
  BY <1>1, <1>3, StartEvalData
<1>8. stack' \in Seq(Frame) /\ \A i \in 1..Len(stack') - 1 : stack'[i].pc \in {"waitRead", "waitNs", "run"}
  BY <1>6 DEF StackOK, Links, Link, Going
<1>9. QED
  BY <1>1, <1>6, <1>7, <1>8 DEF Base, TypeOK, PassNext, rvars

(* A request for an empty text is settled and deleted at once.             *)
BlankRequest == Head(Top.todo)

LEMMA BlankReq ==
  ASSUME Base, PassBlank
  PROVE  LET r == BlankRequest
             q == [req[r] EXCEPT !.status = "deleted", !.promise = "fulfilled"]
         IN  /\ r \in 1..Len(req) /\ req[r].name \in Modules /\ req[r].status = "blank"
             /\ q \in Request /\ q.name = req[r].name /\ q.status = "deleted"
             /\ req' = [req EXCEPT ![r] = q] /\ ns' = [ns EXCEPT ![req[r].name] = Blank]
             /\ Grows(req, req') /\ Len(req') = Len(req)
             /\ stack # <<>> /\ Top.kind = "pass" /\ Top.todo # <<>> /\ Top.todo \in Seq(1..Len(req))
             /\ StackOK(stack', req') /\ Len(stack') = Len(stack) /\ Len(stack) \in 1..Len(stack)
             /\ \A i \in 1..Len(stack) : i # Len(stack) => stack'[i] = stack[i]
             /\ stack'[Len(stack)].kind = "pass" /\ stack'[Len(stack)].todo = Tail(Top.todo)
             /\ Top = stack[Len(stack)]
<1> DEFINE r == BlankRequest
           q == [req[r] EXCEPT !.status = "deleted", !.promise = "fulfilled"]
           g == [Top EXCEPT !.todo = Tail(@)]
<1>1. /\ stack # <<>> /\ Top.kind = "pass" /\ Top.pc = "run" /\ Top.todo # <<>>
      /\ stack' = SetTop(g) /\ req[r].status = "blank"
      /\ req' = [req EXCEPT ![r].status = "deleted", ![r].promise = "fulfilled"]
      /\ ns' = [ns EXCEPT ![req[r].name] = Blank]
  BY DEF PassBlank, At, BlankRequest
<1>2. /\ Shape(Top, Len(req)) /\ Top \in Frame /\ Top = Last(stack) /\ StackOK(stack, req)
      /\ Len(stack) \in 1..Len(stack) /\ Top = stack[Len(stack)]
  BY <1>1, TopFacts DEF Base, Top
<1>3. Top.todo \in Seq(1..Len(req)) /\ r \in 1..Len(req) /\ Tail(Top.todo) \in Seq(1..Len(req))
  <2>1. Top.todo \in Seq(1..Len(req))
    BY <1>1, <1>2 DEF Shape
  <2>2. QED
    BY <1>1, <2>1, HeadTailProperties DEF BlankRequest
<1>4. /\ req[r] \in Request /\ q \in Request /\ q.name = req[r].name /\ q.status = "deleted"
      /\ req[r].name \in Modules /\ DOMAIN req = 1..Len(req)
  BY <1>3, ReqType DEF Base, Request
<1>5. req' = [req EXCEPT ![r] = q]
  BY <1>1, <1>3, <1>4
<1> HIDE DEF q, r
<1>6. Grows(req, req') /\ Len(req') = Len(req)
  BY <1>3, <1>4, <1>5, ExceptReq DEF Base
<1>7. /\ g \in Frame /\ Shape(g, Len(req')) /\ g.kind = "pass" /\ g.name = Top.name /\ g.pc = "run"
      /\ g.todo = Tail(Top.todo)
  <2>1. Tail(Top.todo) \in Seq(1..MaxReq)
    <3>1. 1..Len(req) \subseteq 1..MaxReq
      BY ReqType, Constants DEF Base
    <3>2. QED
      BY <1>3, <3>1, SeqMonotonic
  <2>2. QED
    BY <1>1, <1>2, <1>3, <1>6, <2>1 DEF Frame, Shape
<1> HIDE DEF g
<1>8. /\ StackOK(stack', req') /\ Len(stack') = Len(stack)
      /\ \A i \in 1..Len(stack) : stack'[i] = IF i = Len(stack) THEN g ELSE stack[i]
  <2>1. /\ g.kind = Last(stack).kind /\ g.name = Last(stack).name
        /\ g.pc \notin {"source", "push", "copy"}
    BY <1>1, <1>2, <1>7
  <2>2. stack' = [stack EXCEPT ![Len(stack)] = g]
    BY <1>1 DEF SetTop
  <2>3. /\ StackOK(stack, req) /\ stack # <<>> /\ Grows(req, req')
        /\ g \in Frame /\ Shape(g, Len(req'))
    BY <1>1, <1>2, <1>6, <1>7
  <2>4. /\ StackOK([stack EXCEPT ![Len(stack)] = g], req')
        /\ Len([stack EXCEPT ![Len(stack)] = g]) = Len(stack)
        /\ \A i \in 1..Len(stack) :
             [stack EXCEPT ![Len(stack)] = g][i] = IF i = Len(stack) THEN g ELSE stack[i]
    BY <2>1, <2>3, TopOK
  <2>5. QED
    BY <2>2, <2>4
<1>9. QED
  BY <1>1, <1>2, <1>3, <1>4, <1>5, <1>6, <1>7, <1>8 DEF q, r

LEMMA PassBlankBase ==
  ASSUME Base, PassBlank PROVE Base'
<1>1. /\ Grows(req, req') /\ Len(req') = Len(req) /\ StackOK(stack', req')
      /\ \E m \in Modules : ns' = [ns EXCEPT ![m] = Blank]
  BY BlankReq
<1>2. /\ DOMAIN req' = 1..Len(req')
      /\ pending \in Seq(DOMAIN req') /\ work \in Seq(DOMAIN req') /\ evalQueue \in Seq(DOMAIN req')
      /\ cache \in [Modules -> {0} \union DOMAIN req']
  BY <1>1, Widen DEF Base
<1>3. ns' \in [Modules -> Modules \union {None, Blank}]
  BY <1>1 DEF Base, TypeOK
<1>4. stack' \in Seq(Frame) /\ \A i \in 1..Len(stack') - 1 : stack'[i].pc \in {"waitRead", "waitNs", "run"}
  BY <1>1 DEF StackOK, Links, Link, Going
<1>5. req' \in Seq(Request)
  BY <1>1 DEF Grows
<1>6. QED
  BY <1>1, <1>2, <1>3, <1>4, <1>5 DEF Base, TypeOK, PassBlank, rvars

(* The request of the evaluation that ends is settled and deleted, or is   *)
(* used although it has been deleted.                                      *)
PassRequest == Head(Last(Front(stack)).todo)

LEMMA PassEvalReq ==
  ASSUME Base, PassEvalEnds
  PROVE  LET r == PassRequest
             q == [req[r] EXCEPT !.status = "deleted", !.promise = IF @ = "none" THEN @ ELSE Outcome]
         IN  /\ r \in 1..Len(req) /\ r = Head(stack[Len(stack) - 1].todo)
             /\ Top.name = req[r].name /\ Top.name \in Modules
             /\ q \in Request /\ q.name = req[r].name
             /\ \/ req' = [req EXCEPT ![r] = q] /\ uaf' = uaf /\ req[r].status # "deleted" /\ ~Top.freed
                   /\ ns' = IF Threw THEN ns ELSE [ns EXCEPT ![Top.name] = Value]
                \/ /\ req' = req /\ uaf' = TRUE /\ ns' = ns
                   /\ req[r].status = "deleted" \/ Top.freed
             /\ Grows(req, req') /\ Len(req') = Len(req)
<1> DEFINE r == PassRequest
           q == [req[r] EXCEPT !.status = "deleted", !.promise = IF @ = "none" THEN @ ELSE Outcome]
<1>1. /\ r \in 1..Len(req) /\ r = Head(stack[Len(stack) - 1].todo)
      /\ Top.name = req[r].name /\ Top.name \in Modules
  <2>1. stack # <<>> /\ InPass
    BY DEF PassEvalEnds, At
  <2>2. r \in 1..Len(req) /\ r = Head(stack[Len(stack) - 1].todo) /\ Top.name = req[r].name
    BY <2>1, PassBelow DEF PassRequest
  <2>3. QED
    BY <2>2, ReqType DEF Base, Request
<1>2. req[r] \in Request /\ Outcome \in {"fulfilled", "rejected"} /\ req \in Seq(Request)
      /\ DOMAIN req = 1..Len(req)
  BY <1>1, ReqType DEF Base, Outcome
<1>3. q \in Request /\ q.name = req[r].name
  BY <1>2 DEF Request
<1>4. CASE req[r].status = "deleted" \/ Top.freed
  <2>1. req' = req /\ uaf' = TRUE /\ ns' = ns
    BY <1>4 DEF PassEvalEnds, PassRequest
  <2>2. QED
    BY <1>1, <1>3, <1>4, <2>1, SelfGrows DEF Base
<1>5. CASE ~(req[r].status = "deleted" \/ Top.freed)
  <2>1. req' = [req EXCEPT ![r].status = "deleted", ![r].promise = IF @ = "none" THEN @ ELSE Outcome]
    BY <1>5 DEF PassEvalEnds, PassRequest
  <2>2. req' = [req EXCEPT ![r] = q]
    BY <1>1, <1>2, <2>1
  <2>3. uaf' = uaf /\ ns' = IF Threw THEN ns ELSE [ns EXCEPT ![Top.name] = Value]
    BY <1>5 DEF PassEvalEnds, PassRequest
  <2> HIDE DEF q
  <2>4. Grows(req, req') /\ Len(req') = Len(req)
    BY <1>1, <1>3, <2>2, ExceptReq DEF Base
  <2>5. QED
    BY <1>1, <1>3, <1>5, <2>2, <2>3, <2>4 DEF q
<1>6. QED
  BY <1>4, <1>5

LEMMA PassEvalEndsBase ==
  ASSUME Base, PassEvalEnds PROVE Base'
<1>1. /\ Grows(req, req') /\ Len(req') = Len(req) /\ Top.name \in Modules
      /\ uaf' \in BOOLEAN
      /\ ns' = ns \/ ns' = [ns EXCEPT ![Top.name] = Value]
  BY PassEvalReq DEF Base, TypeOK
<1>2. StackOK(stack', req')
  <2>1. Popped(stack, stack') /\ StackOK(stack, req)
    BY PassEvalPops DEF Base
  <2>2. QED
    BY <1>1, <2>1, PopOK
<1>3. defs' \in [Modules -> {"none", "defined", "threw"}]
  BY EvalReturnsData DEF PassEvalEnds
<1>4. ns' \in [Modules -> Modules \union {None, Blank}]
  BY <1>1 DEF Value, Base, TypeOK
<1>5. /\ DOMAIN req' = 1..Len(req')
      /\ pending \in Seq(DOMAIN req') /\ work \in Seq(DOMAIN req') /\ evalQueue \in Seq(DOMAIN req')
      /\ cache \in [Modules -> {0} \union DOMAIN req']
  BY <1>1, Widen DEF Base
<1>6. stack' \in Seq(Frame) /\ \A i \in 1..Len(stack') - 1 : stack'[i].pc \in {"waitRead", "waitNs", "run"}
  BY <1>2 DEF StackOK, Links, Link, Going
<1>7. req' \in Seq(Request)
  BY <1>1 DEF Grows
<1>8. QED
  BY <1>1, <1>2, <1>3, <1>4, <1>5, <1>6, <1>7 DEF Base, TypeOK, PassEvalEnds, rvars

LEMMA PassEndsBase ==
  ASSUME Base, PassEnds PROVE Base'
<1>1. stack # <<>> /\ StackOK(stack, req) /\ Grows(req, req) /\ req' = req
  BY SelfGrows DEF PassEnds, At, Base
<1>2. StackOK(stack', req')
  <2>1. Popped(stack, stack')
    BY <1>1, FrontPops DEF PassEnds, StackOK
  <2>2. QED
    BY <1>1, <2>1, PopOK
<1>3. stack' \in Seq(Frame) /\ \A i \in 1..Len(stack') - 1 : stack'[i].pc \in {"waitRead", "waitNs", "run"}
  BY <1>2 DEF StackOK, Links, Link, Going
<1>4. evalQueue' \in Seq(DOMAIN req') /\ uaf' \in BOOLEAN
  BY EmptySeq DEF PassEnds
<1>5. QED
  BY <1>1, <1>2, <1>3, <1>4 DEF Base, TypeOK, PassEnds, rvars

(* The reader marks the request it has read.                               *)
LEMMA ReadReq ==
  ASSUME Base, Read
  PROVE  /\ work # <<>> /\ Head(work) \in 1..Len(req)
         /\ Grows(req, req') /\ Len(req') = Len(req)
         /\ \E status \in {"loaded", "error"} :
              req' = [req EXCEPT ![Head(work)] = [req[Head(work)] EXCEPT !.status = status]]
         /\ \A r \in 1..Len(req) :
              /\ r # Head(work) => req'[r] = req[r]
              /\ req'[r].promise = req[r].promise /\ req'[r].name = req[r].name
         /\ req'[Head(work)].status \in {"loaded", "error"}
<1>1. work \in Seq(1..Len(req)) /\ work # <<>> /\ req \in Seq(Request) /\ DOMAIN req = 1..Len(req)
  BY ReqType DEF Base, TypeOK, Read
<1>2. Head(work) \in 1..Len(req) /\ req[Head(work)] \in Request
  BY <1>1, HeadTailProperties, ReqType DEF Base
<1>3. PICK status \in {"loaded", "error"} : req' = [req EXCEPT ![Head(work)].status = status]
  BY DEF Read
<1> DEFINE q == [req[Head(work)] EXCEPT !.status = status]
<1>4. q \in Request /\ q.name = req[Head(work)].name /\ q.promise = req[Head(work)].promise
      /\ q.status = status
  BY <1>2 DEF Request
<1>5. req' = [req EXCEPT ![Head(work)] = q]
  BY <1>1, <1>2, <1>3
<1> HIDE DEF q
<1>6. /\ Grows(req, req') /\ Len(req') = Len(req)
      /\ \A k \in 1..Len(req) : req'[k] = IF k = Head(work) THEN q ELSE req[k]
  BY <1>2, <1>4, <1>5, ExceptReq DEF Base
<1>7. \A r \in 1..Len(req) :
        /\ r # Head(work) => req'[r] = req[r]
        /\ req'[r].promise = req[r].promise /\ req'[r].name = req[r].name
  BY <1>4, <1>6
<1>8. QED
  BY <1>1, <1>2, <1>4, <1>5, <1>6, <1>7 DEF q

LEMMA ReaderBase ==
  ASSUME Base, ReaderStep PROVE Base'
<1> USE DEF Base
<1>1. CASE Take
  BY <1>1 DEF Take, TypeOK
<1>2. CASE Swap
  BY <1>2, EmptySeq DEF Swap, TypeOK
<1>3. CASE Read
  <2>1. Grows(req, req') /\ Len(req') = Len(req)
    BY <1>3, ReadReq
  <2>2. /\ DOMAIN req' = 1..Len(req')
        /\ pending \in Seq(DOMAIN req') /\ work \in Seq(DOMAIN req') /\ evalQueue \in Seq(DOMAIN req')
        /\ cache \in [Modules -> {0} \union DOMAIN req']
    BY <2>1, Widen
  <2>3. StackOK(stack, req')
    BY <2>1, SameOK
  <2>4. req' \in Seq(Request)
    BY <2>1 DEF Grows
  <2>5. QED
    BY <1>3, <2>1, <2>2, <2>3, <2>4 DEF Read, TypeOK
<1>4. CASE Store
  <2>1. work # <<>>
    BY <1>4 DEF Store
  <2>2. Head(work) \in DOMAIN req /\ Tail(work) \in Seq(DOMAIN req)
    BY <2>1, HeadTailProperties DEF TypeOK
  <2>3. QED
    BY <1>4, <2>2 DEF Store, TypeOK
<1>5. CASE BatchDone
  BY <1>5 DEF BatchDone, TypeOK
<1>6. QED
  BY <1>1, <1>2, <1>3, <1>4, <1>5 DEF ReaderStep

(* Every step.                                                             *)
LEMMA NextBase ==
  ASSUME Base, [Next]_vars PROVE Base'
<1>1. CASE Ask
  BY <1>1, RegisterModuleBase, RequireBase, ImportLoadedBase, ImportUnreadBase DEF Ask
<1>2. CASE JSTaskStep
  BY <1>2, PushReadBase, GiveReadBase, CopySourceBase, CheckSourceBase, ReadArrivedBase, FetchBase, ReturnBase,
     RunJobBase, NestedRequireBase, JobEndsBase, StartEvalPassBase, PassNextBase, PassBlankBase,
     PassEvalEndsBase, PassEndsBase DEF JSTaskStep
<1>3. CASE Timeout
  BY <1>3, ReturnBase
<1>4. CASE ReaderStep
  BY <1>4, ReaderBase
<1>5. CASE UNCHANGED vars
  BY <1>5 DEF Base, TypeOK, vars, rvars
<1>6. QED
  BY <1>1, <1>2, <1>3, <1>4, <1>5 DEF Next

LEMMA AlwaysBase == Spec => []Base
<1>1. Init => Base
  BY InitBase
<1>2. Base /\ [Next]_vars => Base'
  BY NextBase
<1>3. QED
  BY <1>1, <1>2, PTL DEF Spec

(* The variables keep their types, whatever is on the stack: the numbers   *)
(* in pending_, pending_eval_, cache_, the reader's batch and the passes   *)
(* are those of requests, and only an activation that waits or evaluates   *)
(* has another on top of it.                                               *)
THEOREM LoaderTypeCorrect == Spec => []TypeOK
<1>1. Base => TypeOK
  BY DEF Base
<1>2. QED
  BY <1>1, AlwaysBase, PTL

-----------------------------------------------------------------------------
(* The evaluations under way.                                              *)

(* A step begins the evaluation of m; a waiting require() or a pass is on  *)
(* top of the stack, or nothing is.                                        *)
Starts(m) ==
  /\ StartEval(m, stack) /\ (stack # <<>> => Top.kind # "eval") /\ ~uaf
  /\ UNCHANGED <<req, ns, uaf>>

(* It leaves the evaluation f as it is, or further.                        *)
Advances(f, g) ==
  /\ f.kind = "eval" /\ g.name = f.name /\ g.first = f.first
  /\ f.todo = <<>> => g.todo = <<>>
  /\ g.failed => f.failed \/ f.todo # <<>>

EvalsStay ==
  \A i \in 1..Len(stack') :
    stack'[i].kind = "eval" =>
      /\ i \in 1..Len(stack) /\ Advances(stack[i], stack'[i])
      /\ Len(stack') >= Len(stack) => stack'[i].freed = stack[i].freed

(* A pass goes on to its next request, or begins with those queued.        *)
PassesStay ==
  \A i \in 1..Len(stack') :
    stack'[i].kind = "pass" =>
      \/ /\ i \in 1..Len(stack) /\ stack[i].kind = "pass"
         /\ \/ stack'[i].todo = stack[i].todo
            \/ stack[i].todo # <<>> /\ stack'[i].todo = Tail(stack[i].todo)
      \/ stack'[i].todo = evalQueue

(* Only an empty text replaces the globals without an evaluation.          *)
GlobalStays == \/ global' = global
               \/ PassBlank /\ global' = Blank

LEMMA PoppedStay ==
  ASSUME Base, Popped(stack, stack')
  PROVE  EvalsStay /\ PassesStay
<1>1. Len(stack) \in Nat \ {0} /\ Len(stack') = Len(stack) - 1
  BY TopFacts DEF Popped
<1>2. QED
  BY <1>1 DEF Popped, GoesOn, Keeps, EvalsStay, Advances, PassesStay

LEMMA PushedStay ==
  ASSUME Base, NEW f \in Frame, f.kind # "eval",
         f.kind = "pass" => f.todo = evalQueue, stack' = Append(stack, f)
  PROVE  EvalsStay /\ PassesStay
<1>1. /\ Len(stack) \in Nat /\ Len(stack') = Len(stack) + 1
      /\ \A i \in 1..Len(stack) : stack'[i] = stack[i]
      /\ stack'[Len(stack) + 1] = f
  BY AppendProperties, LenProperties DEF Base, TypeOK
<1>2. QED
  BY <1>1 DEF EvalsStay, Advances, PassesStay

LEMMA GotoStays ==
  ASSUME Base, stack # <<>>, Top.kind \notin {"eval", "pass"},
         NEW pc \in {"give", "waitRead", "fetch", "waitNs", "push"}, stack' = Goto(pc)
  PROVE  EvalsStay /\ PassesStay
<1> DEFINE g == [Top EXCEPT !.pc = pc]
<1>1. /\ Top \in Frame /\ Len(stack) \in Nat \ {0} /\ stack \in Seq(Frame) /\ Len(stack) \in 1..Len(stack)
  BY TopFacts
<1>2. g \in Frame /\ g.kind = Top.kind
  BY <1>1 DEF Frame
<1> HIDE DEF g
<1>3. stack' = [stack EXCEPT ![Len(stack)] = g]
  BY DEF Goto, SetTop, g
<1>4. /\ Len(stack') = Len(stack)
      /\ \A i \in 1..Len(stack) : stack'[i] = IF i = Len(stack) THEN g ELSE stack[i]
  BY <1>1, <1>2, <1>3, ExceptSeq
<1>5. QED
  BY <1>2, <1>4 DEF EvalsStay, Advances, PassesStay

LEMMA SameStay == ASSUME stack' = stack PROVE EvalsStay /\ PassesStay
BY DEF EvalsStay, Advances, PassesStay

LEMMA RunJobStarts == ASSUME Base, RunJob PROVE \E m \in Modules : Starts(m)
<1>1. Head(jobs) \in Modules
  BY HeadTailProperties DEF RunJob, Base, TypeOK
<1>2. ASSUME stack # <<>> PROVE Top.kind # "eval"
  BY <1>2, TopFacts DEF RunJob, Ticking, Waiting, Shape
<1>3. Starts(Head(jobs))
  BY <1>2 DEF RunJob, Starts, Ticking
<1>4. QED
  BY <1>1, <1>3

LEMMA PassNextStarts == ASSUME Base, PassNext PROVE \E m \in Modules : Starts(m)
<1> DEFINE r == Head(Top.todo)
<1>1. stack # <<>> /\ Top.kind = "pass" /\ Top.todo # <<>> /\ Shape(Top, Len(req))
  BY TopFacts DEF PassNext, At
<1>2. r \in 1..Len(req)
  BY <1>1, HeadTailProperties DEF Shape
<1>3. req[r].name \in Modules
  BY <1>2, ReqType DEF Base, Request
<1>4. Starts(req[r].name)
  BY <1>1 DEF PassNext, Starts, At
<1>5. QED
  BY <1>3, <1>4

LEMMA Evals ==
  ASSUME Base, [Next]_vars
  PROVE  \/ \E m \in Modules : Starts(m)
         \/ EvalsStay /\ PassesStay /\ GlobalStays
<1>1. ASSUME Ask PROVE EvalsStay /\ PassesStay /\ global' = global
  <2> PICK m \in Modules : RegisterModule(m) \/ Require(m) \/ ImportLoaded(m) \/ ImportUnread(m)
    BY <1>1 DEF Ask
  <2>1. CASE RegisterModule(m)
    <3>1. Call("register", m, "push") \in Frame /\ Call("register", m, "push").kind = "register"
      BY CallOK DEF Call
    <3>2. QED
      BY <2>1, <3>1, PushedStay DEF RegisterModule, Push
  <2>2. CASE Require(m)
    <3>1. Call("require", m, "source") \in Frame /\ Call("require", m, "source").kind = "require"
      BY CallOK DEF Call
    <3>2. QED
      BY <2>2, <3>1, PushedStay DEF Require, Push
  <2>3. CASE ImportLoaded(m)
    <3>1. Call("import", m, "copy") \in Frame /\ Call("import", m, "copy").kind = "import"
      BY CallOK DEF Call
    <3>2. QED
      BY <2>3, <3>1, PushedStay DEF ImportLoaded, Push
  <2>4. CASE ImportUnread(m)
    <3>1. Call("import", m, "push") \in Frame /\ Call("import", m, "push").kind = "import"
      BY CallOK DEF Call
    <3>2. QED
      BY <2>4, <3>1, PushedStay DEF ImportUnread, Push
  <2>5. QED
    BY <2>1, <2>2, <2>3, <2>4
<1>2. ASSUME PushRead PROVE EvalsStay /\ PassesStay /\ global' = global
  BY <1>2, GotoStays DEF PushRead, At
<1>3. ASSUME GiveRead PROVE EvalsStay /\ PassesStay /\ global' = global
  <2>1. CASE Top.kind = "require"
    <3>1. \E pc \in {"fetch", "waitRead"} : stack' = Goto(pc)
      BY <1>3, <2>1 DEF GiveRead
    <3>2. QED
      BY <1>3, <2>1, <3>1, GotoStays DEF GiveRead, At
  <2>2. CASE Top.kind # "require"
    <3>1. Popped(stack, stack')
      BY <1>3, <2>2, FrontPops DEF GiveRead, At, Base, StackOK
    <3>2. QED
      BY <1>3, <3>1, PoppedStay DEF GiveRead
  <2>3. QED
    BY <2>1, <2>2
<1>4. ASSUME CheckSource \/ ReadArrived PROVE EvalsStay /\ PassesStay /\ global' = global
  <2>1. stack # <<>> /\ Top.kind = "require"
    BY <1>4 DEF CheckSource, ReadArrived, At
  <2>2. \E pc \in {"fetch", "waitRead", "push"} : stack' = Goto(pc)
    BY <1>4 DEF CheckSource, ReadArrived
  <2>3. QED
    BY <1>4, <2>1, <2>2, GotoStays DEF CheckSource, ReadArrived
<1>5. ASSUME Fetch \/ GotNamespace \/ Timeout PROVE EvalsStay /\ PassesStay /\ global' = global
  <2>1. stack # <<>>
    BY <1>5 DEF Fetch, GotNamespace, Timeout, At, Waiting
  <2>2. CASE \E threw \in BOOLEAN : stack' = Returned(threw)
    <3>1. Popped(stack, stack')
      BY <2>1, <2>2, ReturnedPops
    <3>2. QED
      BY <1>5, <3>1, PoppedStay DEF Fetch, GotNamespace, Timeout
  <2>3. CASE Fetch /\ stack' = Goto("waitNs")
    BY <2>1, <2>3, GotoStays DEF Fetch, At
  <2>4. QED
    BY <1>5, <2>2, <2>3 DEF Fetch, GotNamespace, Timeout
<1>6. ASSUME RunJob PROVE \E m \in Modules : Starts(m)
  BY <1>6, RunJobStarts
<1>7. ASSUME PassNext PROVE \E m \in Modules : Starts(m)
  BY <1>7, PassNextStarts
<1>8. ASSUME NestedRequire PROVE EvalsStay /\ PassesStay /\ global' = global
  <2>1. /\ stack # <<>> /\ Top.kind = "eval" /\ Top.todo # <<>>
        /\ Top \in Frame /\ Shape(Top, Len(req)) /\ Top = stack[Len(stack)]
        /\ Len(stack) \in Nat \ {0} /\ stack \in Seq(Frame) /\ Len(stack) \in 1..Len(stack)
    BY <1>8, TopFacts DEF NestedRequire, At
  <2>2. Head(Top.todo) \in Modules /\ Tail(Top.todo) \in Seq(Modules)
    BY <2>1, HeadTailProperties DEF Shape
  <2>3. CASE ns[Head(Top.todo)] # None
    <3> DEFINE g == [Top EXCEPT !.todo = Tail(@)]
    <3>1. g \in Frame /\ g.kind = "eval" /\ g.name = Top.name /\ g.first = Top.first
          /\ g.failed = Top.failed /\ g.freed = Top.freed
      BY <2>1, <2>2 DEF Frame
    <3> HIDE DEF g
    <3>2. stack' = [stack EXCEPT ![Len(stack)] = g] /\ global' = global
      BY <1>8, <2>3 DEF NestedRequire, SetTop, g
    <3>3. /\ Len(stack') = Len(stack)
          /\ \A i \in 1..Len(stack) : stack'[i] = IF i = Len(stack) THEN g ELSE stack[i]
      BY <2>1, <3>1, <3>2, ExceptSeq
    <3>4. QED
      BY <2>1, <3>1, <3>2, <3>3 DEF EvalsStay, Advances, PassesStay
  <2>4. CASE ns[Head(Top.todo)] = None
    <3> DEFINE f == Call("require", Head(Top.todo), "source")
    <3>1. f \in Frame /\ f.kind = "require"
      BY <2>2, CallOK DEF Call
    <3> HIDE DEF f
    <3>2. stack' = Append(stack, f) /\ global' = global
      BY <1>8, <2>4 DEF NestedRequire, Push, f
    <3>3. QED
      BY <3>1, <3>2, PushedStay
  <2>5. QED
    BY <2>3, <2>4
<1>9. ASSUME JobEnds PROVE EvalsStay /\ PassesStay /\ global' = global
  BY <1>9, JobEndsPops, PoppedStay DEF JobEnds
<1>10. ASSUME StartEvalPass PROVE EvalsStay /\ PassesStay /\ global' = global
  <2> DEFINE f == [Call("pass", None, "run") EXCEPT !.todo = evalQueue]
  <2>1. evalQueue \in Seq(1..MaxReq)
    <3>1. evalQueue \in Seq(1..Len(req)) /\ 1..Len(req) \subseteq 1..MaxReq
      BY ReqType, Constants DEF Base, TypeOK
    <3>2. QED
      BY <3>1, SeqMonotonic
  <2>2. f \in Frame /\ f.kind = "pass" /\ f.todo = evalQueue
    BY <2>1 DEF Call, Frame
  <2> HIDE DEF f
  <2>3. stack' = Append(stack, f) /\ global' = global
    BY <1>10 DEF StartEvalPass, Push, f
  <2>4. QED
    BY <2>2, <2>3, PushedStay
<1>11. ASSUME PassEvalEnds PROVE EvalsStay /\ PassesStay /\ global' = global
  BY <1>11, PassEvalPops, PoppedStay DEF PassEvalEnds
<1>12. ASSUME PassEnds PROVE EvalsStay /\ PassesStay /\ global' = global
  <2>1. Popped(stack, stack')
    BY <1>12, FrontPops DEF PassEnds, At, Base, StackOK
  <2>2. QED
    BY <1>12, <2>1, PoppedStay DEF PassEnds
<1>13. ASSUME ReaderStep \/ UNCHANGED vars PROVE EvalsStay /\ PassesStay /\ global' = global
  BY <1>13, SameStay DEF ReaderStep, Take, Swap, Read, Store, BatchDone, vars
<1>14. ASSUME CopySource PROVE EvalsStay /\ PassesStay /\ global' = global
  BY <1>14, CopyReq, PoppedStay DEF CopySource
<1>15. ASSUME PassBlank PROVE EvalsStay /\ PassesStay /\ global' = Blank
  <2>1. /\ Len(stack') = Len(stack) /\ Top.kind = "pass" /\ Top.todo # <<>> /\ Top = stack[Len(stack)]
        /\ \A i \in 1..Len(stack) : i # Len(stack) => stack'[i] = stack[i]
        /\ stack'[Len(stack)].kind = "pass" /\ stack'[Len(stack)].todo = Tail(Top.todo)
    BY <1>15, BlankReq
  <2>2. ASSUME NEW i \in 1..Len(stack'), i # Len(stack) PROVE i \in 1..Len(stack) /\ stack'[i] = stack[i]
    BY <2>1, <2>2
  <2>3. EvalsStay
    BY <2>1, <2>2 DEF EvalsStay, Advances
  <2>4. PassesStay
    BY <2>1, <2>2 DEF PassesStay
  <2>5. QED
    BY <1>15, <2>3, <2>4 DEF PassBlank
<1>16. QED
  BY <1>1, <1>2, <1>3, <1>4, <1>5, <1>6, <1>7, <1>8, <1>9, <1>10, <1>11, <1>12, <1>13, <1>14, <1>15
     DEF Next, JSTaskStep, GlobalStays

LEMMA Started ==
  ASSUME Base, NEW m \in Modules, Starts(m)
  PROVE  /\ Len(stack') = Len(stack) + 1 /\ Len(stack) \in Nat
         /\ \A i \in 1..Len(stack) : stack'[i] = stack[i]
         /\ stack'[Len(stack) + 1] = Evaluation(m)
         /\ Evaluation(m).kind = "eval" /\ Evaluation(m).name = m
         /\ Evaluation(m).todo = Requires[m] /\ ~Evaluation(m).freed /\ ~Evaluation(m).failed
         /\ Evaluation(m).first = (m \notin CommonJS /\ defs[m] = "none")
<1> DEFINE f == Evaluation(m)
<1>1. /\ f \in Frame /\ f.kind = "eval" /\ f.name = m /\ f.todo = Requires[m] /\ ~f.freed /\ ~f.failed
      /\ f.first = (m \notin CommonJS /\ defs[m] = "none")
  BY EvaluationOK
<1>2. stack' = Append(stack, f)
  BY DEF Starts, StartEval
<1> HIDE DEF f
<1>3. /\ Len(stack') = Len(stack) + 1 /\ Len(stack) \in Nat
      /\ \A i \in 1..Len(stack) : stack'[i] = stack[i]
      /\ stack'[Len(stack) + 1] = f
  BY <1>1, <1>2, AppendProperties, LenProperties DEF Base, TypeOK
<1>4. QED
  BY <1>1, <1>3 DEF f

(* A namespace is cached only at the end of an evaluation that did not     *)
(* throw, or is that of an empty text.                                     *)
NsStep ==
  \/ ns' = ns
  \/ \E m \in Modules : ns' = [ns EXCEPT ![m] = Blank]
  \/ /\ stack # <<>> /\ Top.kind = "eval" /\ Top.name \in Modules /\ ~Threw
     /\ ns' = [ns EXCEPT ![Top.name] = Value]

LEMMA NsSteps == ASSUME Base, [Next]_vars PROVE NsStep
<1>1. CASE JobEnds
  <2>1. stack # <<>> /\ Top.kind = "eval"
    BY <1>1 DEF JobEnds, At
  <2>2. Top.name \in Modules
    BY <2>1, TopFacts DEF Shape
  <2>3. QED
    BY <1>1, <2>1, <2>2 DEF JobEnds, NsStep
<1>2. CASE PassEvalEnds
  <2>1. stack # <<>> /\ Top.kind = "eval"
    BY <1>2 DEF PassEvalEnds, At
  <2>2. Top.name \in Modules
    BY <2>1, TopFacts DEF Shape
  <2>3. QED
    BY <1>2, <2>1, <2>2 DEF PassEvalEnds, NsStep
<1>3. CASE PassBlank
  BY <1>3, BlankReq DEF NsStep
<1>4. CASE ~JobEnds /\ ~PassEvalEnds /\ ~PassBlank
  BY <1>4 DEF Next, Ask, RegisterModule, Require, ImportLoaded, ImportUnread, JSTaskStep, PushRead, GiveRead,
     CopySource, CheckSource, ReadArrived, Fetch, GotNamespace, RunJob, NestedRequire, StartEvalPass, PassNext,
     PassEnds, Timeout, ReaderStep, Take, Swap, Read, Store, BatchDone, vars, NsStep
<1>5. QED
  BY <1>1, <1>2, <1>3, <1>4

(* A promise is settled only by a pass: at the end of the evaluation of    *)
(* its module, or at once if its text is empty.                            *)
ReqStep ==
  \/ /\ Grows(req, req')
     /\ \A r \in 1..Len(req') :
          \/ r \in 1..Len(req) /\ req'[r].promise = req[r].promise
          \/ req'[r].promise \in {"none", "pending"}
  \/ PassEvalEnds
  \/ PassBlank

LEMMA ReqSteps == ASSUME Base, [Next]_vars PROVE ReqStep
<1>1. CASE \E q \in Request : q.promise \in {"none", "pending"} /\ req' = Append(req, q)
  <2> PICK q \in Request : q.promise \in {"none", "pending"} /\ req' = Append(req, q)
    BY <1>1
  <2>1. /\ Grows(req, req') /\ Len(req') = Len(req) + 1
        /\ \A r \in 1..Len(req) : req'[r] = req[r]
        /\ req'[Len(req) + 1] = q /\ Len(req) \in Nat
    BY AppendReq, ReqType DEF Base
  <2>2. \A r \in 1..Len(req') : r \in 1..Len(req) \/ r = Len(req) + 1
    BY <2>1
  <2>3. QED
    BY <2>1, <2>2 DEF ReqStep
<1>2. CASE req' = req
  BY <1>2, SelfGrows DEF Base, ReqStep
<1>3. CASE Read
  <2>1. /\ Grows(req, req') /\ Len(req') = Len(req)
        /\ \A r \in 1..Len(req) : req'[r].promise = req[r].promise
    BY <1>3, ReadReq
  <2>2. QED
    BY <2>1 DEF ReqStep
<1>4. ASSUME PushRead PROVE \E q \in Request : q.promise \in {"none", "pending"} /\ req' = Append(req, q)
  <2> DEFINE q == [name |-> Top.name, status |-> "queued",
                   promise |-> IF Top.kind = "import" THEN "pending" ELSE "none"]
  <2>1. Top.name \in Modules
    BY <1>4, TopFacts DEF PushRead, At, Shape
  <2>2. q \in Request /\ q.promise \in {"none", "pending"}
    BY <2>1 DEF Request
  <2>3. QED
    BY <1>4, <2>2 DEF PushRead
<1>5. ASSUME CopySource
      PROVE  \E q \in Request : q.promise \in {"none", "pending"} /\ req' = Append(req, q)
  BY <1>5, CopyReq
<1>6. CASE PassEvalEnds \/ PassBlank
  BY <1>6 DEF ReqStep
<1>7. ASSUME ~PassEvalEnds, ~PassBlank, ~PushRead, ~Read, ~CopySource
      PROVE  req' = req
  BY <1>7 DEF Next, Ask, RegisterModule, Require, ImportLoaded, ImportUnread, JSTaskStep, GiveRead,
     CheckSource, ReadArrived, Fetch, GotNamespace, RunJob, NestedRequire, StartEvalPass, PassNext,
     JobEnds, PassEnds, Timeout, ReaderStep, Take, Swap, Store, BatchDone, vars
<1>8. QED
  BY <1>1, <1>2, <1>3, <1>4, <1>5, <1>6, <1>7

-----------------------------------------------------------------------------
(* Fulfilled promises.                                                     *)

(* While a CommonJS module is evaluated there is a global `module`.        *)
GlobalSet ==
  \A i \in 1..Len(stack) :
    stack[i].kind = "eval" /\ stack[i].name \in CommonJS => global # None

LEMMA NextGlobalSet == ASSUME Base, GlobalSet, [Next]_vars PROVE GlobalSet'
<1>1. CASE \E m \in Modules : Starts(m)
  <2> PICK m \in Modules : Starts(m)
    BY <1>1
  <2>1. global' = IF m \in CommonJS THEN m ELSE global
    BY DEF Starts, StartEval
  <2>2. \A i \in 1..Len(stack') : i \in 1..Len(stack) \/ i = Len(stack) + 1
    BY Started
  <2>3. QED
    BY <2>1, <2>2, Started, Constants DEF GlobalSet
<1>2. CASE EvalsStay /\ GlobalStays
  BY <1>2, Constants DEF EvalsStay, Advances, GlobalSet, GlobalStays
<1>3. QED
  BY <1>1, <1>2, Evals

(* What an evaluation gives is a module's namespace.                       *)
LEMMA ValueIs ==
  ASSUME Base, GlobalSet, stack # <<>>, Top.kind = "eval"
  PROVE  Value # None /\ Top.name \in Modules
<1>1. Len(stack) \in 1..Len(stack) /\ Top = stack[Len(stack)] /\ Shape(Top, Len(req))
  BY TopFacts
<1>2. QED
  BY <1>1, Constants DEF Value, GlobalSet, Shape

(* A cached namespace is never lost.                                       *)
LEMMA NsKept ==
  ASSUME Base, GlobalSet, [Next]_vars, NEW m \in Modules, ns[m] # None
  PROVE  ns'[m] # None
<1>1. CASE \E k \in Modules : ns' = [ns EXCEPT ![k] = Blank]
  BY <1>1, Constants DEF Base, TypeOK
<1>2. CASE stack # <<>> /\ Top.kind = "eval" /\ Top.name \in Modules /\ ns' = [ns EXCEPT ![Top.name] = Value]
  BY <1>2, ValueIs DEF Base, TypeOK
<1>3. QED
  BY <1>1, <1>2, NsSteps DEF NsStep

LEMMA NextFulfilled ==
  ASSUME Base, GlobalSet, FulfilledIsCached, [Next]_vars PROVE FulfilledIsCached'
<1>1. Base'
  BY NextBase
<1>2. ASSUME NEW m \in Modules, ns[m] # None PROVE ns'[m] # None
  BY <1>2, NsKept
<1>3. ASSUME NEW r \in DOMAIN req', req'[r].promise = "fulfilled" PROVE ns'[req'[r].name] # None
  <2>0. DOMAIN req' = 1..Len(req') /\ DOMAIN req = 1..Len(req)
        /\ \A k \in 1..Len(req) : req[k].name \in Modules
    BY <1>1, ReqType, LenProperties DEF Base, TypeOK, Request
  <2>1. CASE r \in 1..Len(req) /\ req'[r].promise = req[r].promise /\ Grows(req, req')
    BY <1>2, <1>3, <2>0, <2>1 DEF FulfilledIsCached, Grows
  <2>2. CASE PassEvalEnds
    <3> DEFINE k == PassRequest
               q == [req[k] EXCEPT !.status = "deleted", !.promise = IF @ = "none" THEN @ ELSE Outcome]
    <3>1. /\ k \in 1..Len(req) /\ Top.name = req[k].name /\ Top.name \in Modules
          /\ q \in Request /\ q.name = req[k].name
          /\ \/ req' = [req EXCEPT ![k] = q]
                /\ ns' = IF Threw THEN ns ELSE [ns EXCEPT ![Top.name] = Value]
             \/ req' = req
          /\ Grows(req, req') /\ Len(req') = Len(req)
      BY <2>2, PassEvalReq
    <3>2. CASE req' = req
      BY <1>2, <1>3, <2>0, <3>2 DEF FulfilledIsCached
    <3>3. CASE /\ req' = [req EXCEPT ![k] = q]
               /\ ns' = IF Threw THEN ns ELSE [ns EXCEPT ![Top.name] = Value]
      <4>1. r \in 1..Len(req) /\ req'[r].name = req[r].name
        BY <1>3, <2>0, <3>1 DEF Grows
      <4>2. CASE r = k
        <5>1. req'[r].promise = q.promise
          BY <2>0, <3>1, <3>3, <4>2
        <5>2. q.promise = IF req[k].promise = "none" THEN req[k].promise ELSE Outcome
          BY <2>0, <3>1, ReqType DEF Request, Base
        <5>3. ~Threw
          BY <1>3, <5>1, <5>2 DEF Outcome
        <5>4. ns'[Top.name] = Value
          BY <3>1, <3>3, <5>3 DEF Base, TypeOK
        <5>5. Value # None
          BY <2>2, ValueIs DEF PassEvalEnds, At
        <5>6. QED
          BY <3>1, <4>1, <4>2, <5>4, <5>5
      <4>3. CASE r # k
        <5> HIDE DEF q
        <5>1. req'[r] = req[r]
          BY <2>0, <3>3, <4>1, <4>3
        <5>2. QED
          BY <1>2, <1>3, <2>0, <4>1, <5>1 DEF FulfilledIsCached
      <4>4. QED
        BY <4>2, <4>3
    <3> HIDE DEF q
    <3>4. QED
      BY <3>1, <3>2, <3>3
  <2>3. CASE PassBlank
    <3> DEFINE k == BlankRequest
               q == [req[k] EXCEPT !.status = "deleted", !.promise = "fulfilled"]
    <3>1. /\ k \in 1..Len(req) /\ req[k].name \in Modules /\ q.name = req[k].name
          /\ req' = [req EXCEPT ![k] = q] /\ ns' = [ns EXCEPT ![req[k].name] = Blank]
          /\ Grows(req, req') /\ Len(req') = Len(req)
      BY <2>3, BlankReq
    <3> HIDE DEF q
    <3>2. r \in 1..Len(req) /\ req'[r].name = req[r].name
      BY <1>3, <2>0, <3>1 DEF Grows
    <3>3. CASE r = k
      BY <3>1, <3>2, <3>3, Constants DEF Base, TypeOK
    <3>4. CASE r # k
      <4>1. req'[r] = req[r]
        BY <2>0, <3>1, <3>2, <3>4
      <4>2. QED
        BY <1>2, <1>3, <2>0, <3>2, <4>1 DEF FulfilledIsCached
    <3>5. QED
      BY <3>3, <3>4
  <2>4. QED
    BY <1>3, <2>0, <2>1, <2>2, <2>3, ReqSteps DEF ReqStep
<1>4. QED
  BY <1>3 DEF FulfilledIsCached

(* A promise of importModule is fulfilled only when the module's namespace *)
(* is cached, whatever modules are loaded, by whom, and in what order      *)
(* their evaluations are nested; and a cached namespace is never lost.     *)
THEOREM FulfilledAreCached == Spec => []FulfilledIsCached
<1> DEFINE IInv == GlobalSet /\ FulfilledIsCached
<1>1. Init => IInv
  BY EmptySeq DEF Init, GlobalSet, FulfilledIsCached
<1>2. Base /\ IInv /\ [Next]_vars => IInv'
  BY NextGlobalSet, NextFulfilled
<1>3. QED
  BY <1>1, <1>2, AlwaysBase, PTL DEF Spec

-----------------------------------------------------------------------------
(* Namespaces.                                                             *)

(* The evaluation of a module that requires nothing has nothing to do.     *)
Leaves ==
  \A i \in 1..Len(stack) :
    stack[i].kind = "eval" /\ Requires[stack[i].name] = <<>> => stack[i].todo = <<>>

LEMMA NextLeaves == ASSUME Base, Leaves, [Next]_vars PROVE Leaves'
<1>1. CASE \E m \in Modules : Starts(m)
  <2> PICK m \in Modules : Starts(m)
    BY <1>1
  <2>1. \A i \in 1..Len(stack') : i \in 1..Len(stack) \/ i = Len(stack) + 1
    BY Started
  <2>2. QED
    BY <2>1, Started DEF Leaves
<1>2. CASE EvalsStay
  BY <1>2 DEF EvalsStay, Advances, Leaves
<1>3. QED
  BY <1>1, <1>2, Evals

LEMMA AlwaysLeaves == Spec => [](Base /\ Leaves)
<1>1. Init => Leaves
  BY EmptySeq DEF Init, Leaves
<1>2. Base /\ Leaves /\ [Next]_vars => Leaves'
  BY NextLeaves
<1>3. QED
  BY <1>1, <1>2, AlwaysBase, PTL DEF Spec

(* An evaluation that has something on top of it is of a module that       *)
(* requires another.                                                       *)
LEMMA CoveredRequires ==
  ASSUME Base, Leaves, NEW i \in 1..Len(stack) - 1, stack[i].kind = "eval"
  PROVE  Requires[stack[i].name] # <<>>
<1>1. i \in 1..Len(stack)
  BY LenProperties DEF Base, TypeOK
<1>2. stack[i].todo # <<>>
  BY DEF Base, StackOK, Links, Link
<1>3. QED
  BY <1>1, <1>2 DEF Leaves

(* The global `module` is that of a CommonJS module, and of the one being  *)
(* evaluated if that requires nothing.                                     *)
OwnGlobal ==
  /\ global \in CommonJS \union {None, Blank}
  /\ \A i \in 1..Len(stack) :
       stack[i].kind = "eval" /\ stack[i].name \in CommonJS /\ Requires[stack[i].name] = <<>> =>
         global = stack[i].name

LEMMA NextOwnGlobal ==
  ASSUME Base, Leaves, OwnGlobal, [Next]_vars PROVE OwnGlobal'
<1>1. ASSUME NEW i \in 1..Len(stack), stack[i].kind = "eval", Requires[stack[i].name] = <<>>
      PROVE  i = Len(stack) /\ Top.kind = "eval"
  <2>1. stack # <<>>
    BY EmptySeq
  <2>2. i \notin 1..Len(stack) - 1
    BY <1>1, CoveredRequires
  <2>3. QED
    BY <1>1, <2>1, <2>2, TopFacts
<1>2. CASE \E m \in Modules : Starts(m)
  <2> PICK m \in Modules : Starts(m)
    BY <1>2
  <2>1. global' = IF m \in CommonJS THEN m ELSE global
    BY DEF Starts, StartEval
  <2>2. \A i \in 1..Len(stack) : ~(stack[i].kind = "eval" /\ Requires[stack[i].name] = <<>>)
    BY <1>1, EmptySeq DEF Starts
  <2>3. \A i \in 1..Len(stack') : i \in 1..Len(stack) \/ i = Len(stack) + 1
    BY Started
  <2>4. QED
    BY <2>1, <2>2, <2>3, Started DEF OwnGlobal
<1>3. CASE EvalsStay /\ global' = global
  BY <1>3 DEF EvalsStay, Advances, OwnGlobal
<1>4. CASE EvalsStay /\ PassBlank /\ global' = Blank
  <2>1. Top.kind = "pass"
    BY <1>4 DEF PassBlank, At
  <2>2. QED
    BY <1>1, <1>4, <2>1 DEF EvalsStay, Advances, OwnGlobal
<1>5. QED
  BY <1>2, <1>3, <1>4, Evals DEF GlobalStays

LEMMA NextNamespace ==
  ASSUME Base, GlobalSet, OwnGlobal, MixedOnlyIfNested, [Next]_vars PROVE MixedOnlyIfNested'
<1> SUFFICES ASSUME NEW m \in Modules, ns'[m] \notin {m, None, Blank}
             PROVE  m \in CommonJS /\ Requires[m] # <<>> /\ ns'[m] \in CommonJS
  BY DEF MixedOnlyIfNested
<1>1. CASE ns'[m] = ns[m]
  BY <1>1 DEF MixedOnlyIfNested
<1>2. CASE \E k \in Modules : ns' = [ns EXCEPT ![k] = Blank]
  BY <1>1, <1>2 DEF Base, TypeOK
<1>3. CASE /\ stack # <<>> /\ Top.kind = "eval" /\ Top.name \in Modules
           /\ ns' = [ns EXCEPT ![Top.name] = Value]
  <2>1. CASE m # Top.name
    BY <1>1, <1>3, <2>1 DEF Base, TypeOK
  <2>2. CASE m = Top.name
    <3>1. ns'[m] = Value
      BY <1>3, <2>2 DEF Base, TypeOK
    <3>2. Len(stack) \in 1..Len(stack) /\ Top = stack[Len(stack)]
      BY <1>3, TopFacts
    <3>3. m \in CommonJS /\ Value = global
      BY <2>2, <3>1 DEF Value
    <3>4. Requires[m] # <<>>
      BY <1>3, <2>2, <3>1, <3>2, <3>3 DEF OwnGlobal
    <3>5. QED
      BY <3>1, <3>3, <3>4 DEF OwnGlobal
  <2>3. QED
    BY <2>1, <2>2
<1>4. QED
  BY <1>1, <1>2, <1>3, NsSteps DEF NsStep

(* A module is given the exports of another one only if both are CommonJS  *)
(* and it requires some module, whatever is loaded and however evaluations *)
(* are nested: only a require() lets another CommonJS module replace the   *)
(* globals in the middle of an evaluation.                                 *)
THEOREM OnlyNestedAreMixed == Spec => []MixedOnlyIfNested
<1> DEFINE IInv == GlobalSet /\ OwnGlobal /\ MixedOnlyIfNested
<1>1. Init => IInv
  BY EmptySeq DEF Init, GlobalSet, OwnGlobal, MixedOnlyIfNested
<1>2. Base /\ Leaves /\ IInv /\ [Next]_vars => IInv'
  BY NextGlobalSet, NextOwnGlobal, NextNamespace
<1>3. QED
  BY <1>1, <1>2, AlwaysLeaves, PTL DEF Spec

(* No CommonJS module requires another while there are several of them.    *)
LeafCommonJS == \A m, n \in CommonJS : m # n => Requires[m] = <<>>

(* require(m) and importModule(m) give the exports of m, if no CommonJS    *)
(* module requires another module while there are several of them.         *)
THEOREM NamespacesAreOwn ==
  ASSUME LeafCommonJS
  PROVE  Spec => []NamespaceIsOwn
<1>1. MixedOnlyIfNested => NamespaceIsOwn
  BY DEF MixedOnlyIfNested, NamespaceIsOwn, LeafCommonJS
<1>2. QED
  BY <1>1, OnlyNestedAreMixed, PTL

-----------------------------------------------------------------------------
(* Rejected promises.                                                      *)

(* A require() of a module throws only if the module has one.              *)
FailedRequires ==
  \A i \in 1..Len(stack) :
    stack[i].kind = "eval" /\ stack[i].failed => Requires[stack[i].name] # <<>>

LEMMA NextFailedRequires ==
  ASSUME Base, Leaves, FailedRequires, [Next]_vars PROVE FailedRequires'
<1>1. CASE \E m \in Modules : Starts(m)
  <2> PICK m \in Modules : Starts(m)
    BY <1>1
  <2>1. \A i \in 1..Len(stack') : i \in 1..Len(stack) \/ i = Len(stack) + 1
    BY Started
  <2>2. QED
    BY <2>1, Started DEF FailedRequires
<1>2. CASE EvalsStay
  BY <1>2 DEF EvalsStay, Advances, FailedRequires, Leaves
<1>3. QED
  BY <1>1, <1>2, Evals

(* The promise of a CommonJS module that is rejected is that of a module   *)
(* that throws, or that requires another.                                  *)
RejectedThrew ==
  \A r \in DOMAIN req :
    req[r].promise = "rejected" /\ req[r].name \in CommonJS =>
      req[r].name \in Throws \/ Requires[req[r].name] # <<>>

LEMMA NextRejectedThrew ==
  ASSUME Base, FailedRequires, RejectedThrew, [Next]_vars PROVE RejectedThrew'
<1>1. Base'
  BY NextBase
<1>2. ASSUME NEW r \in DOMAIN req', req'[r].promise = "rejected", req'[r].name \in CommonJS
      PROVE  req'[r].name \in Throws \/ Requires[req'[r].name] # <<>>
  <2>0. DOMAIN req' = 1..Len(req') /\ DOMAIN req = 1..Len(req)
    BY <1>1, ReqType, LenProperties DEF Base, TypeOK
  <2>1. CASE r \in 1..Len(req) /\ req'[r].promise = req[r].promise /\ Grows(req, req')
    BY <1>2, <2>0, <2>1 DEF RejectedThrew, Grows
  <2>2. CASE PassEvalEnds
    <3> DEFINE k == PassRequest
               q == [req[k] EXCEPT !.status = "deleted", !.promise = IF @ = "none" THEN @ ELSE Outcome]
    <3>1. /\ k \in 1..Len(req) /\ Top.name = req[k].name
          /\ q \in Request /\ q.name = req[k].name
          /\ req' = [req EXCEPT ![k] = q] \/ req' = req
          /\ Grows(req, req') /\ Len(req') = Len(req)
      BY <2>2, PassEvalReq
    <3>2. r \in 1..Len(req) /\ req'[r].name = req[r].name
      BY <1>2, <2>0, <3>1 DEF Grows
    <3>3. CASE req'[r] = req[r]
      BY <1>2, <2>0, <3>2, <3>3 DEF RejectedThrew
    <3>4. CASE r = k /\ req' = [req EXCEPT ![k] = q]
      <4>1. req'[r].promise = q.promise
        BY <2>0, <3>1, <3>4
      <4>2. q.promise = IF req[k].promise = "none" THEN req[k].promise ELSE Outcome
        BY <2>0, <3>1, ReqType DEF Request, Base
      <4>3. Threw /\ ~IsES
        BY <1>2, <3>1, <3>2, <3>4, <4>1, <4>2 DEF Outcome, IsES
      <4>4. BodyThrew
        BY <4>3 DEF Threw, NoNamespace
      <4>5. stack # <<>> /\ Top.kind = "eval"
        BY <2>2 DEF PassEvalEnds, At
      <4>6. Len(stack) \in 1..Len(stack) /\ Top = stack[Len(stack)]
        BY <4>5, TopFacts
      <4>7. QED
        BY <3>1, <3>2, <3>4, <4>4, <4>5, <4>6 DEF BodyThrew, FailedRequires
    <3>5. CASE r # k /\ req' = [req EXCEPT ![k] = q]
      <4> HIDE DEF q
      <4>1. req'[r] = req[r]
        BY <2>0, <3>2, <3>5
      <4>2. QED
        BY <3>3, <4>1
    <3> HIDE DEF q
    <3>6. QED
      BY <3>1, <3>3, <3>4, <3>5
  <2>3. CASE PassBlank
    <3> DEFINE k == BlankRequest
               q == [req[k] EXCEPT !.status = "deleted", !.promise = "fulfilled"]
    <3>1. /\ k \in 1..Len(req) /\ req[k] \in Request
          /\ req' = [req EXCEPT ![k] = q] /\ Grows(req, req') /\ Len(req') = Len(req)
      BY <2>3, BlankReq, ReqType DEF Base
    <3>2. q.promise = "fulfilled"
      BY <3>1 DEF Request
    <3> HIDE DEF q
    <3>3. r \in 1..Len(req) /\ req'[r].name = req[r].name
      BY <1>2, <2>0, <3>1 DEF Grows
    <3>4. r # k
      BY <1>2, <2>0, <3>1, <3>2
    <3>5. req'[r] = req[r]
      BY <2>0, <3>1, <3>3, <3>4
    <3>6. QED
      BY <1>2, <2>0, <3>3, <3>5 DEF RejectedThrew
  <2>4. QED
    BY <1>2, <2>0, <2>1, <2>2, <2>3, ReqSteps DEF ReqStep
<1>3. QED
  BY <1>2 DEF RejectedThrew

(* "ES dynamic import -- returns a Promise per spec": when all modules are *)
(* CommonJS, only the promise of a module that throws, or that requires    *)
(* another, is rejected.  (It does not hold of ES modules: the second      *)
(* import of one fails.)                                                   *)
THEOREM CommonJSRejectedOnlyIfThrew ==
  ASSUME CommonJS = Modules
  PROVE  Spec => []ImportRejectedOnlyIfThrew
<1> DEFINE IInv == FailedRequires /\ RejectedThrew
<1>1. Init => IInv
  BY EmptySeq DEF Init, FailedRequires, RejectedThrew
<1>2. Base /\ Leaves /\ IInv /\ [Next]_vars => IInv'
  BY NextFailedRequires, NextRejectedThrew
<1>3. Base /\ IInv => ImportRejectedOnlyIfThrew
  BY ReqType DEF RejectedThrew, ImportRejectedOnlyIfThrew, Base, Request
<1>4. QED
  BY <1>1, <1>2, <1>3, AlwaysLeaves, PTL DEF Spec

-----------------------------------------------------------------------------
(* The reader.                                                             *)

(* A wake-up stays pending until the reader takes it, and whoever has      *)
(* pushed a request goes on to give one.                                   *)
LEMMA NextNoLostRead == ASSUME Base, NoLostRead, [Next]_vars PROVE NoLostRead'
<1>1. CASE PushRead
  <2>1. /\ stack # <<>> /\ Top.kind \notin {"eval", "pass"} /\ Top.pc = "push" /\ stack' = Goto("give")
    BY <1>1 DEF PushRead, At
  <2>2. /\ Len(stack') = Len(stack) /\ Len(stack) \in 1..Len(stack) /\ Top \in Frame
        /\ stack'[Len(stack)] = [Top EXCEPT !.pc = "give"] /\ stack' # <<>>
    <3> DEFINE g == [Top EXCEPT !.pc = "give"]
    <3>1. Top \in Frame /\ Len(stack) \in 1..Len(stack) /\ stack \in Seq(Frame) /\ Len(stack) # 0
      BY <2>1, TopFacts
    <3>2. g \in Frame
      BY <3>1 DEF Frame
    <3> HIDE DEF g
    <3>3. stack' = [stack EXCEPT ![Len(stack)] = g]
      BY <2>1 DEF Goto, SetTop, g
    <3>4. /\ Len(stack') = Len(stack) /\ stack'[Len(stack)] = g
      BY <3>1, <3>2, <3>3, ExceptSeq
    <3>5. stack' # <<>>
      BY <3>1, <3>4, EmptySeq
    <3>6. QED
      BY <3>1, <3>4, <3>5 DEF g
  <2>3. Top'.pc = "give"
    BY <2>2 DEF Top, Last, Frame
  <2>4. QED
    BY <2>2, <2>3 DEF NoLostRead
<1>2. CASE GiveRead
  BY <1>2 DEF GiveRead, NoLostRead
<1>3. CASE ReaderStep
  BY <1>3 DEF ReaderStep, Take, Swap, Read, Store, BatchDone, NoLostRead, Top
<1>4. CASE UNCHANGED vars
  BY <1>4 DEF vars, rvars, NoLostRead, Top
<1>5. CASE ~(stack # <<>> /\ Top.pc = "give") /\ UNCHANGED <<pending, notify, reader>>
  BY <1>5 DEF NoLostRead
<1>6. CASE Ask
  <2>1. ~(stack # <<>> /\ Top.pc = "give")
    BY <1>6 DEF Ask, RegisterModule, Require, ImportLoaded, ImportUnread, Ticking, Waiting
  <2>2. QED
    BY <1>5, <1>6, <2>1 DEF Ask, RegisterModule, Require, ImportLoaded, ImportUnread, rvars
<1>7. CASE Timeout
  BY <1>5, <1>7 DEF Timeout, Waiting, rvars
<1>8. CASE JSTaskStep /\ ~PushRead /\ ~GiveRead
  <2>1. ~(stack # <<>> /\ Top.pc = "give")
    BY <1>8 DEF JSTaskStep, CopySource, CheckSource, ReadArrived, Fetch, GotNamespace, RunJob, NestedRequire,
       JobEnds, StartEvalPass, PassNext, PassBlank, PassEvalEnds, PassEnds, At, Ticking, Waiting
  <2>2. QED
    BY <1>5, <1>8, <2>1 DEF JSTaskStep, CopySource, CheckSource, ReadArrived, Fetch, GotNamespace, RunJob,
       NestedRequire, JobEnds, StartEvalPass, PassNext, PassBlank, PassEvalEnds, PassEnds, rvars
<1>9. QED
  BY <1>1, <1>2, <1>3, <1>4, <1>6, <1>7, <1>8 DEF Next

(* No request is forgotten by the reader, although the wake-ups of several *)
(* requests are one.                                                       *)
THEOREM NoReadIsLost == Spec => []NoLostRead
<1>1. Init => NoLostRead
  BY DEF Init, NoLostRead
<1>2. QED
  BY <1>1, NextNoLostRead, AlwaysBase, PTL DEF Spec

(* r is in the sequence s.                                                 *)
In(r, s) == \E i \in 1..Len(s) : s[i] = r

LEMMA InAppend ==
  ASSUME NEW S, NEW s \in Seq(S), NEW x \in S, NEW r
  PROVE  In(r, Append(s, x)) <=> In(r, s) \/ r = x
<1>1. /\ Len(Append(s, x)) = Len(s) + 1 /\ Len(s) \in Nat
      /\ \A i \in 1..Len(s) : Append(s, x)[i] = s[i]
      /\ Append(s, x)[Len(s) + 1] = x
  BY AppendProperties, LenProperties
<1>2. \A i \in 1..Len(Append(s, x)) : i \in 1..Len(s) \/ i = Len(s) + 1
  BY <1>1
<1>3. \A i \in 1..Len(s) + 1 : i \in 1..Len(Append(s, x))
  BY <1>1
<1>4. \A i \in 1..Len(s) : i \in 1..Len(s) + 1
  BY <1>1
<1>5. Len(s) + 1 \in 1..Len(s) + 1
  BY <1>1
<1>6. QED
  BY <1>1, <1>2, <1>3, <1>4, <1>5 DEF In

LEMMA InTail ==
  ASSUME NEW S, NEW s \in Seq(S), s # <<>>, NEW r
  PROVE  /\ In(r, Tail(s)) => In(r, s)
         /\ In(Head(s), s)
<1>1. /\ Len(Tail(s)) = Len(s) - 1 /\ Len(s) \in Nat \ {0}
      /\ \A i \in 1..Len(Tail(s)) : Tail(s)[i] = s[i + 1]
  BY HeadTailProperties, LenProperties, EmptySeq
<1>2. \A i \in 1..Len(Tail(s)) : i + 1 \in 1..Len(s)
  BY <1>1
<1>3. 1 \in 1..Len(s) /\ Head(s) = s[1]
  BY <1>1
<1>4. QED
  BY <1>1, <1>2, <1>3 DEF In

LEMMA InElement ==
  ASSUME NEW S, NEW s \in Seq(S), NEW r, In(r, s) PROVE r \in S
BY ElementOfSeq DEF In

LEMMA InNone == ASSUME NEW r PROVE ~In(r, <<>>)
BY EmptySeq DEF In

(* The requests of the reader, which become those of cache_, and those of  *)
(* the passes are different objects.                                       *)
Held(r) == In(r, pending) \/ In(r, work) \/ \E m \in Modules : cache[m] = r

ForPass(r) ==
  In(r, evalQueue) \/ \E i \in 1..Len(stack) : stack[i].kind = "pass" /\ In(r, stack[i].todo)

Apart == \A r \in 1..Len(req) : ~(Held(r) /\ ForPass(r))

(* r is the number of a request that importModule makes for a pass.        *)
NewForPass(r) ==
  r = Len(req) + 1 /\ Len(req') = Len(req) + 1 /\ UNCHANGED <<pending, work, cache>>

LEMMA ForPassStep ==
  ASSUME Base, [Next]_vars, NEW r, ForPass(r)'
  PROVE  ForPass(r) \/ NewForPass(r)
<1>0. evalQueue \in Seq(1..Len(req))
  BY ReqType DEF Base, TypeOK
<1>1. ASSUME NEW i \in 1..Len(stack'), stack'[i].kind = "pass", In(r, stack'[i].todo) PROVE ForPass(r)
  <2>1. CASE \E m \in Modules : Starts(m)
    <3> PICK m \in Modules : Starts(m)
      BY <2>1
    <3>1. i \in 1..Len(stack) /\ stack'[i] = stack[i]
      BY <1>1, Started
    <3>2. QED
      BY <1>1, <3>1 DEF ForPass
  <2>2. CASE PassesStay
    <3>1. CASE stack'[i].todo = evalQueue
      BY <1>1, <3>1 DEF ForPass
    <3>2. CASE /\ i \in 1..Len(stack) /\ stack[i].kind = "pass"
               /\ \/ stack'[i].todo = stack[i].todo
                  \/ stack[i].todo # <<>> /\ stack'[i].todo = Tail(stack[i].todo)
      <4>1. stack[i].todo \in Seq(1..Len(req))
        BY <3>2 DEF Base, StackOK, Shapes, Shape
      <4>2. In(r, stack[i].todo)
        BY <1>1, <3>2, <4>1, InTail
      <4>3. QED
        BY <3>2, <4>2 DEF ForPass
    <3>3. QED
      BY <1>1, <2>2, <3>1, <3>2 DEF PassesStay
  <2>3. QED
    BY <2>1, <2>2, Evals
<1>2. CASE In(r, evalQueue')
  <2>1. CASE evalQueue' = evalQueue
    BY <1>2, <2>1 DEF ForPass
  <2>2. ASSUME CopySource
        PROVE  ForPass(r) \/ NewForPass(r)
    <3>1. evalQueue' = Append(evalQueue, Len(req) + 1) /\ UNCHANGED <<pending, work, cache>>
      BY <2>2 DEF CopySource, rvars
    <3>2. Len(req') = Len(req) + 1 /\ Len(req) \in Nat
      BY <2>2, CopyReq, ReqType DEF Base
    <3>3. evalQueue \in Seq(Nat)
      <4>1. 1..Len(req) \subseteq Nat
        OBVIOUS
      <4>2. QED
        BY <1>0, <4>1, SeqMonotonic
    <3>4. In(r, evalQueue) \/ r = Len(req) + 1
      BY <1>2, <3>1, <3>2, <3>3, InAppend
    <3>5. QED
      BY <3>1, <3>2, <3>4 DEF ForPass, NewForPass
  <2>3. CASE PassEnds
    BY <1>2, <2>3, InNone DEF PassEnds
  <2>4. QED
    BY <2>1, <2>2, <2>3 DEF Next, Ask, RegisterModule, Require, ImportLoaded, ImportUnread, JSTaskStep, PushRead,
       GiveRead, CheckSource, ReadArrived, Fetch, GotNamespace, RunJob, NestedRequire, StartEvalPass, PassNext,
       PassBlank, JobEnds, PassEvalEnds, Timeout, ReaderStep, Take, Swap, Read, Store, BatchDone, vars
<1>3. QED
  BY <1>1, <1>2 DEF ForPass

LEMMA HeldStep ==
  ASSUME Base, [Next]_vars, NEW r \in Nat \ {0}, Held(r)'
  PROVE  \/ Held(r)
         \/ r = Len(req) + 1 /\ PushRead
<1>0. pending \in Seq(1..Len(req)) /\ work \in Seq(1..Len(req))
  BY ReqType DEF Base, TypeOK
<1>1. CASE UNCHANGED <<pending, work, cache>>
  BY <1>1 DEF Held
<1>2. CASE PushRead
  <2>1. pending \in Seq(Nat) /\ Len(req) + 1 \in Nat
    <3>1. 1..Len(req) \subseteq Nat
      OBVIOUS
    <3>2. QED
      BY <1>0, <3>1, SeqMonotonic, ReqType DEF Base
  <2>2. pending' = Append(pending, Len(req) + 1) /\ work' = work /\ cache' = cache
    BY <1>2 DEF PushRead, rvars
  <2>3. In(r, pending') => In(r, pending) \/ r = Len(req) + 1
    BY <2>1, <2>2, InAppend
  <2>4. QED
    BY <1>2, <2>2, <2>3 DEF Held
<1>3. CASE Swap
  BY <1>3, InNone DEF Swap, Held
<1>4. CASE Store
  <2>1. work # <<>>
    BY <1>4 DEF Store, Base
  <2>2. In(r, work') => In(r, work)
    BY <1>0, <1>4, <2>1, InTail DEF Store
  <2>3. In(Head(work), work)
    BY <1>0, <2>1, InTail
  <2>4. ASSUME NEW m \in Modules, cache'[m] = r PROVE Held(r)
    <3>1. cache'[m] = cache[m] \/ cache'[m] = Head(work)
      BY <1>4 DEF Store, Base, TypeOK
    <3>2. QED
      BY <2>3, <2>4, <3>1 DEF Held
  <2>5. QED
    BY <1>4, <2>2, <2>4 DEF Held, Store
<1>5. QED
  BY <1>1, <1>2, <1>3, <1>4 DEF Next, Ask, RegisterModule, Require, ImportLoaded, ImportUnread, JSTaskStep,
     GiveRead, CopySource, CheckSource, ReadArrived, Fetch, GotNamespace, RunJob, NestedRequire, StartEvalPass,
     PassNext, PassBlank, JobEnds, PassEvalEnds, PassEnds, Timeout, ReaderStep, Take, Read, BatchDone, vars, rvars

LEMMA NumbersAre ==
  ASSUME Base, NEW r, r # 0
  PROVE  /\ Held(r) => r \in 1..Len(req)
         /\ ForPass(r) => r \in 1..Len(req)
<1>1. pending \in Seq(1..Len(req)) /\ work \in Seq(1..Len(req)) /\ evalQueue \in Seq(1..Len(req))
      /\ \A m \in Modules : cache[m] \in {0} \union 1..Len(req)
  BY ReqType DEF Base, TypeOK
<1>2. \A i \in 1..Len(stack) : stack[i].kind = "pass" => stack[i].todo \in Seq(1..Len(req))
  BY DEF Base, StackOK, Shapes, Shape
<1>3. QED
  BY <1>1, <1>2, InElement DEF Held, ForPass

LEMMA NextApart == ASSUME Base, Apart, [Next]_vars PROVE Apart'
<1> SUFFICES ASSUME NEW r \in 1..Len(req'), Held(r)', ForPass(r)' PROVE FALSE
  BY DEF Apart
<1>1. Base' /\ Len(req) \in Nat /\ Len(req') \in Nat /\ r \in Nat \ {0}
  <2>1. Base' /\ Len(req) \in Nat
    BY NextBase, ReqType DEF Base
  <2>2. Len(req') \in Nat
    BY <2>1, LenProperties DEF Base, TypeOK
  <2>3. QED
    BY <2>1, <2>2
<1>2. CASE ForPass(r)
  <2>1. r \in 1..Len(req)
    BY <1>1, <1>2, NumbersAre
  <2>2. Held(r)
    BY <1>1, <2>1, HeldStep
  <2>3. QED
    BY <1>2, <2>1, <2>2 DEF Apart
<1>3. CASE NewForPass(r)
  <2>1. Held(r)
    BY <1>3 DEF Held, NewForPass
  <2>2. r \in 1..Len(req)
    BY <1>1, <2>1, NumbersAre
  <2>3. QED
    BY <1>1, <1>3, <2>2 DEF NewForPass
<1>4. QED
  BY <1>2, <1>3, ForPassStep

(* What becomes of the status of a request.                                *)
LEMMA StatusStep ==
  ASSUME Base, [Next]_vars, NEW r \in 1..Len(req)
  PROVE  /\ r \in 1..Len(req') /\ Grows(req, req')
         /\ \/ req'[r].status = req[r].status
            \/ Read /\ r = Head(work) /\ req'[r].status \in {"loaded", "error"}
            \/ PassEvalEnds /\ r = PassRequest /\ uaf' = uaf
            \/ PassBlank /\ r = BlankRequest
<1>1. CASE \E q \in Request : req' = Append(req, q)
  <2> PICK q \in Request : req' = Append(req, q)
    BY <1>1
  <2>1. /\ Grows(req, req') /\ Len(req') = Len(req) + 1 /\ Len(req) \in Nat
        /\ req'[r] = req[r]
    BY AppendReq, ReqType DEF Base
  <2>2. QED
    BY <2>1
<1>2. CASE req' = req
  BY <1>2, SelfGrows DEF Base
<1>3. CASE Read
  BY <1>3, ReadReq
<1>4. ASSUME PushRead PROVE \E q \in Request : req' = Append(req, q)
  <2> DEFINE q == [name |-> Top.name, status |-> "queued",
                   promise |-> IF Top.kind = "import" THEN "pending" ELSE "none"]
  <2>1. Top.name \in Modules
    BY <1>4, TopFacts DEF PushRead, At, Shape
  <2>2. q \in Request
    BY <2>1 DEF Request
  <2>3. QED
    BY <1>4, <2>2 DEF PushRead
<1>5. ASSUME CopySource PROVE \E q \in Request : req' = Append(req, q)
  BY <1>5, CopyReq
<1>6. CASE PassEvalEnds
  <2> DEFINE k == PassRequest
             q == [req[k] EXCEPT !.status = "deleted", !.promise = IF @ = "none" THEN @ ELSE Outcome]
  <2>1. /\ k \in 1..Len(req) /\ Grows(req, req') /\ Len(req') = Len(req)
        /\ \/ req' = [req EXCEPT ![k] = q] /\ uaf' = uaf
           \/ req' = req
    BY <1>6, PassEvalReq
  <2> HIDE DEF q
  <2>2. CASE req' = req
    BY <1>2, <2>2
  <2>3. CASE req' = [req EXCEPT ![k] = q] /\ uaf' = uaf
    <3>1. r # k => req'[r] = req[r]
      BY <2>1, <2>3, ReqType DEF Base
    <3>2. QED
      BY <1>6, <2>1, <2>3, <3>1
  <2>4. QED
    BY <2>1, <2>2, <2>3
<1>7. CASE PassBlank
  <2> DEFINE k == BlankRequest
             q == [req[k] EXCEPT !.status = "deleted", !.promise = "fulfilled"]
  <2>1. k \in 1..Len(req) /\ Grows(req, req') /\ Len(req') = Len(req) /\ req' = [req EXCEPT ![k] = q]
    BY <1>7, BlankReq
  <2> HIDE DEF q
  <2>2. r # k => req'[r] = req[r]
    BY <2>1, ReqType DEF Base
  <2>3. QED
    BY <1>7, <2>1, <2>2
<1>8. ASSUME ~PassEvalEnds, ~PassBlank, ~PushRead, ~Read, ~CopySource
      PROVE  req' = req
  BY <1>8 DEF Next, Ask, RegisterModule, Require, ImportLoaded, ImportUnread, JSTaskStep, GiveRead,
     CheckSource, ReadArrived, Fetch, GotNamespace, RunJob, NestedRequire, StartEvalPass, PassNext,
     JobEnds, PassEnds, Timeout, ReaderStep, Take, Swap, Store, BatchDone, vars
<1>9. QED
  BY <1>1, <1>2, <1>3, <1>4, <1>5, <1>6, <1>7, <1>8

LEMMA BlankRequestIs ==
  ASSUME Base, PassBlank
  PROVE  ForPass(BlankRequest) /\ BlankRequest \in 1..Len(req)
<1>1. /\ Len(stack) \in 1..Len(stack) /\ Top = stack[Len(stack)] /\ Top.kind = "pass"
      /\ Top.todo \in Seq(1..Len(req)) /\ Top.todo # <<>> /\ BlankRequest \in 1..Len(req)
  BY BlankReq
<1>2. In(BlankRequest, Top.todo)
  BY <1>1, InTail DEF BlankRequest
<1>3. QED
  BY <1>1, <1>2 DEF ForPass

LEMMA PassRequestIs ==
  ASSUME Base, PassEvalEnds
  PROVE  ForPass(PassRequest) /\ PassRequest \in 1..Len(req)
<1>1. stack # <<>> /\ InPass
  BY DEF PassEvalEnds, At
<1>2. LET n == Len(stack) - 1
      IN  /\ n \in 1..Len(stack) /\ stack[n].kind = "pass"
          /\ stack[n].todo \in Seq(1..Len(req)) /\ stack[n].todo # <<>>
          /\ PassRequest = Head(stack[n].todo)
  BY <1>1, PassBelow DEF PassRequest
<1>3. In(PassRequest, stack[Len(stack) - 1].todo)
  BY <1>2, InTail
<1>4. QED
  BY <1>2, <1>3, PassEvalReq DEF ForPass

(* What the reader has read it has taken out of pending_ before, and what  *)
(* is in cache_ has been read.                                             *)
Unread ==
  /\ \A r \in 1..Len(req) : In(r, pending) => req[r].status = "queued" /\ ~In(r, work)
  /\ reader \in {"take", "swap"} => work = <<>>
  /\ reader = "store" => req[Head(work)].status \in {"loaded", "error"}

CachedRead ==
  \A m \in Modules : cache[m] # 0 => req[cache[m]].status \in {"loaded", "error"}

LEMMA NextUnread == ASSUME Base, Apart, Unread, [Next]_vars PROVE Unread'
<1>0. /\ pending \in Seq(1..Len(req)) /\ work \in Seq(1..Len(req)) /\ Len(req) \in Nat
      /\ req \in Seq(Request)
  BY ReqType DEF Base, TypeOK
<1>1. ASSUME NEW r \in 1..Len(req), Held(r), ~(Read /\ r = Head(work))
      PROVE  req'[r].status = req[r].status
  <2>1. ~(PassEvalEnds /\ r = PassRequest) /\ ~(PassBlank /\ r = BlankRequest)
    BY <1>1, PassRequestIs, BlankRequestIs DEF Apart
  <2>2. QED
    BY <1>1, <2>1, StatusStep
<1>2. CASE UNCHANGED <<pending, reader, work>>
  <2>1. ASSUME NEW r \in 1..Len(req'), In(r, pending) PROVE req'[r].status = "queued" /\ ~In(r, work)
    <3>1. r \in 1..Len(req) /\ Held(r)
      BY <1>0, <2>1, InElement DEF Held
    <3>2. ~(Read /\ r = Head(work))
      BY <1>2 DEF Read
    <3>3. QED
      BY <1>1, <2>1, <3>1, <3>2 DEF Unread
  <2>2. ASSUME reader = "store" PROVE req'[Head(work)].status \in {"loaded", "error"}
    <3>1. work # <<>>
      BY <2>2 DEF Base
    <3>2. Head(work) \in 1..Len(req) /\ Held(Head(work))
      BY <1>0, <3>1, HeadTailProperties, InTail DEF Held
    <3>3. ~Read
      BY <2>2 DEF Read
    <3>4. QED
      BY <1>1, <2>2, <3>2, <3>3 DEF Unread
  <2>3. QED
    BY <1>2, <2>1, <2>2 DEF Unread
<1>3. CASE PushRead
  <2> DEFINE q == [name |-> Top.name, status |-> "queued",
                   promise |-> IF Top.kind = "import" THEN "pending" ELSE "none"]
  <2>1. q \in Request /\ q.status = "queued" /\ req' = Append(req, q)
        /\ pending' = Append(pending, Len(req) + 1) /\ reader' = reader /\ work' = work
    <3>1. Top.name \in Modules
      BY <1>3, TopFacts DEF PushRead, At, Shape
    <3>2. QED
      BY <1>3, <3>1 DEF PushRead, Request, rvars
  <2> HIDE DEF q
  <2>2. /\ Len(req') = Len(req) + 1
        /\ \A r \in 1..Len(req) : req'[r] = req[r]
        /\ req'[Len(req) + 1] = q
    BY <2>1, AppendReq DEF Base
  <2>3. \A r : In(r, pending') => In(r, pending) \/ r = Len(req) + 1
    <3>1. pending \in Seq(Nat) /\ Len(req) + 1 \in Nat
      <4>1. 1..Len(req) \subseteq Nat
        OBVIOUS
      <4>2. QED
        BY <1>0, <4>1, SeqMonotonic
    <3>2. QED
      BY <2>1, <3>1, InAppend
  <2>4. ~In(Len(req) + 1, work)
    BY <1>0, InElement
  <2>5. \A r : In(r, pending) => r \in 1..Len(req)
    BY <1>0, InElement
  <2>6. reader = "store" => Head(work) \in 1..Len(req)
    BY <1>0, HeadTailProperties DEF Base
  <2>7. QED
    BY <2>1, <2>2, <2>3, <2>4, <2>5, <2>6 DEF Unread
<1>4. CASE Swap
  BY <1>4, InNone DEF Swap, Unread
<1>5. CASE Read
  <2>1. /\ work # <<>> /\ Head(work) \in 1..Len(req) /\ Len(req') = Len(req)
        /\ \A r \in 1..Len(req) : r # Head(work) => req'[r] = req[r]
        /\ req'[Head(work)].status \in {"loaded", "error"}
    BY <1>5, ReadReq
  <2>2. In(Head(work), work)
    BY <1>0, <2>1, InTail
  <2>3. reader' = "store" /\ work' = work /\ pending' = pending
    BY <1>5 DEF Read
  <2>4. ASSUME NEW r \in 1..Len(req), In(r, pending)
        PROVE  req'[r].status = "queued" /\ ~In(r, work)
    <3>1. ~In(r, work) /\ req[r].status = "queued" /\ r # Head(work)
      BY <2>2, <2>4 DEF Unread
    <3>2. QED
      BY <2>1, <3>1
  <2>5. QED
    BY <2>1, <2>3, <2>4 DEF Unread
<1>6. CASE Store
  <2>1. work # <<>> /\ work' = Tail(work) /\ reader' = "read" /\ pending' = pending /\ req' = req
    BY <1>6 DEF Store, Base
  <2>2. \A r : In(r, work') => In(r, work)
    BY <1>0, <2>1, InTail
  <2>3. QED
    BY <2>1, <2>2 DEF Unread
<1>7. CASE Take \/ BatchDone
  BY <1>7 DEF Take, BatchDone, Unread
<1>8. QED
  BY <1>2, <1>3, <1>4, <1>5, <1>6, <1>7 DEF Next, Ask, RegisterModule, Require, ImportLoaded, ImportUnread,
     JSTaskStep, GiveRead, CopySource, CheckSource, ReadArrived, Fetch, GotNamespace, RunJob, NestedRequire,
     StartEvalPass, PassNext, PassBlank, JobEnds, PassEvalEnds, PassEnds, Timeout, ReaderStep, vars, rvars

LEMMA NextCachedRead == ASSUME Base, Apart, Unread, CachedRead, [Next]_vars PROVE CachedRead'
<1> SUFFICES ASSUME NEW m \in Modules, cache'[m] # 0 PROVE req'[cache'[m]].status \in {"loaded", "error"}
  BY DEF CachedRead
<1>1. CASE cache' = cache
  <2>1. cache[m] \in 1..Len(req) /\ Held(cache[m])
    BY <1>1, ReqType DEF Base, TypeOK, Held
  <2>2. ~(PassEvalEnds /\ cache[m] = PassRequest) /\ ~(PassBlank /\ cache[m] = BlankRequest)
    BY <2>1, PassRequestIs, BlankRequestIs DEF Apart
  <2>3. QED
    BY <1>1, <2>1, <2>2, StatusStep DEF CachedRead
<1>2. CASE Store
  <2>1. req' = req /\ req[Head(work)].status \in {"loaded", "error"}
    BY <1>2 DEF Store, Unread
  <2>2. cache'[m] = cache[m] \/ cache'[m] = Head(work)
    BY <1>2 DEF Store, Base, TypeOK
  <2>3. QED
    BY <2>1, <2>2 DEF CachedRead
<1>3. QED
  BY <1>1, <1>2 DEF Next, Ask, RegisterModule, Require, ImportLoaded, ImportUnread, JSTaskStep, PushRead,
     GiveRead, CopySource, CheckSource, ReadArrived, Fetch, GotNamespace, RunJob, NestedRequire, StartEvalPass,
     PassNext, PassBlank, JobEnds, PassEvalEnds, PassEnds, Timeout, ReaderStep, Take, Swap, Read, BatchDone, vars

ReaderInv == Apart /\ Unread /\ CachedRead

LEMMA AlwaysReader == Spec => [](Base /\ ReaderInv)
<1>1. Init => ReaderInv
  BY EmptySeq, InNone DEF Init, ReaderInv, Apart, Unread, CachedRead
<1>2. Base /\ ReaderInv /\ [Next]_vars => ReaderInv'
  BY NextApart, NextUnread, NextCachedRead DEF ReaderInv
<1>3. QED
  BY <1>1, <1>2, AlwaysBase, PTL DEF Spec

(* The first half of JSModuleLoader::loop never finds a request that has   *)
(* been read: the reader takes the requests out before it reads them.      *)
THEOREM NothingIsReady == Spec => []NothingReady
<1>1. Base /\ ReaderInv => NothingReady
  <2> SUFFICES ASSUME Base, ReaderInv, NEW i \in DOMAIN pending PROVE req[pending[i]].status = "queued"
    BY DEF NothingReady
  <2>1. i \in 1..Len(pending) /\ pending[i] \in 1..Len(req)
    BY ReqType, LenProperties, ElementOfSeq DEF Base, TypeOK
  <2>2. In(pending[i], pending)
    BY <2>1 DEF In
  <2>3. QED
    BY <2>1, <2>2 DEF ReaderInv, Unread
<1>2. QED
  BY <1>1, AlwaysReader, PTL

(* cache_ never holds a request that processPendingEval deletes, whatever  *)
(* is imported again and again from a source that is cached.               *)
THEOREM CacheStaysLive == Spec => []CacheIsLive
<1>1. Base /\ ReaderInv => CacheIsLive
  BY DEF ReaderInv, CachedRead, CacheIsLive, Done
<1>2. QED
  BY <1>1, AlwaysReader, PTL

-----------------------------------------------------------------------------
(* Programs whose modules require nothing.                                 *)

Flat == \A m \in Modules : Requires[m] = <<>>

(* An evaluation is then on top of the stack, and a pass on top of it or   *)
(* below the evaluation on top.                                            *)
LEMMA FlatStack ==
  ASSUME Flat, Base, Leaves, NEW i \in 1..Len(stack)
  PROVE  /\ stack[i].kind = "eval" => i = Len(stack) /\ stack[i].todo = <<>> /\ stack[i] = Top
         /\ stack[i].kind = "pass" /\ i # Len(stack) => i = Len(stack) - 1 /\ Top.kind = "eval" /\ InPass
<1>1. stack # <<>> /\ Len(stack) \in Nat /\ Top = stack[Len(stack)]
  BY EmptySeq, TopFacts
<1>2. ASSUME NEW j \in 1..Len(stack), stack[j].kind = "eval" PROVE j = Len(stack) /\ stack[j].todo = <<>>
  <2>1. stack[j].name \in Modules
    BY <1>2 DEF Base, StackOK, Shapes, Shape
  <2>2. Requires[stack[j].name] = <<>>
    BY <2>1 DEF Flat
  <2>3. j \notin 1..Len(stack) - 1
    BY <1>2, <2>2, CoveredRequires
  <2>4. QED
    BY <1>1, <1>2, <2>2, <2>3 DEF Leaves
<1>3. ASSUME stack[i].kind = "pass", i # Len(stack)
      PROVE  i = Len(stack) - 1 /\ Top.kind = "eval" /\ InPass
  <2>1. i \in 1..Len(stack) - 1 /\ i + 1 \in 1..Len(stack)
    BY <1>1, <1>3
  <2>2. stack[i + 1].kind = "eval"
    BY <1>3, <2>1 DEF Base, StackOK, Links, Link
  <2>3. i + 1 = Len(stack)
    BY <1>2, <2>1, <2>2
  <2>4. i = Len(stack) - 1 /\ Len(stack) > 1
    BY <1>1, <2>1, <2>3
  <2>5. QED
    BY <1>1, <1>3, <2>2, <2>3, <2>4 DEF InPass
<1>4. QED
  BY <1>1, <1>2, <1>3

(* A pass is then alone, and little else can happen while it goes on.      *)
LEMMA FlatPassSteps ==
  ASSUME Flat, Base, Leaves, [Next]_vars,
         NEW i \in 1..Len(stack), stack[i].kind = "pass"
  PROVE  /\ \A j \in 1..Len(stack) : stack[j].kind = "pass" => j = i
         /\ \/ PassNext /\ i = Len(stack)
            \/ PassBlank /\ i = Len(stack)
            \/ PassEnds /\ i = Len(stack)
            \/ PassEvalEnds /\ i = Len(stack) - 1
            \/ ReaderStep
            \/ UNCHANGED vars
<1>1. /\ stack # <<>> /\ Len(stack) \in Nat \ {0} /\ Top = stack[Len(stack)] /\ Len(stack) \in 1..Len(stack)
      /\ Shape(Top, Len(req))
  BY EmptySeq, TopFacts
<1>2. ASSUME NEW j \in 1..Len(stack), stack[j].kind = "pass"
      PROVE  \/ j = Len(stack) /\ Top.kind = "pass"
             \/ j = Len(stack) - 1 /\ Top.kind = "eval" /\ InPass
  BY <1>1, <1>2, FlatStack
<1>3. \A j \in 1..Len(stack) : stack[j].kind = "pass" => j = i
  BY <1>2
<1>4. Top.kind = "eval" => Top.todo = <<>>
  BY <1>1, FlatStack
<1>5. ~Ticking /\ ~Timeout
  BY <1>1, <1>2 DEF Ticking, Timeout, Waiting, Shape
<1>6. ~Ask /\ ~RunJob /\ ~StartEvalPass
  BY <1>5 DEF Ask, RegisterModule, Require, ImportLoaded, ImportUnread, RunJob, StartEvalPass
<1>7. ~PushRead /\ ~GiveRead /\ ~CopySource /\ ~CheckSource /\ ~ReadArrived /\ ~Fetch /\ ~GotNamespace
  BY <1>2 DEF PushRead, GiveRead, CopySource, CheckSource, ReadArrived, Fetch, GotNamespace, At
<1>8. ~NestedRequire /\ ~JobEnds
  BY <1>2, <1>4 DEF NestedRequire, JobEnds, At
<1>9. /\ PassNext \/ PassBlank \/ PassEnds => i = Len(stack)
      /\ PassEvalEnds => i = Len(stack) - 1
  BY <1>1, <1>2 DEF PassNext, PassBlank, PassEnds, PassEvalEnds, At
<1>10. QED
  BY <1>3, <1>5, <1>6, <1>7, <1>8, <1>9 DEF Next, JSTaskStep

(* The first n requests of pending_eval_ have been deleted, no others.     *)
DeletedUpTo(n) ==
  \A j \in 1..Len(evalQueue) : req[evalQueue[j]].status = "deleted" <=> j <= n

(* A pass that has t left to do.                                           *)
PassAt(t) ==
  /\ Len(t) <= Len(evalQueue)
  /\ \A j \in 1..Len(t) : t[j] = evalQueue[Len(evalQueue) - Len(t) + j]
  /\ DeletedUpTo(Len(evalQueue) - Len(t))

NoPass == \A i \in 1..Len(stack) : stack[i].kind # "pass"

QueueUnique == \A j, k \in 1..Len(evalQueue) : evalQueue[j] = evalQueue[k] => j = k

NothingFreed == \A i \in 1..Len(stack) : stack[i].kind = "eval" => ~stack[i].freed

FlatOK ==
  /\ QueueUnique
  /\ \A i \in 1..Len(stack) : stack[i].kind = "pass" => PassAt(stack[i].todo)
  /\ NoPass => DeletedUpTo(0)
  /\ NothingFreed
  /\ uaf = FALSE

LEMMA NextNothingFreed ==
  ASSUME Flat, Base, Leaves, NothingFreed, [Next]_vars PROVE NothingFreed'
<1>1. CASE \E m \in Modules : Starts(m)
  <2> PICK m \in Modules : Starts(m)
    BY <1>1
  <2>1. \A i \in 1..Len(stack') : i \in 1..Len(stack) \/ i = Len(stack) + 1
    BY Started
  <2>2. QED
    BY <2>1, Started DEF NothingFreed
<1>2. CASE EvalsStay
  <2> SUFFICES ASSUME NEW i \in 1..Len(stack'), stack'[i].kind = "eval" PROVE ~stack'[i].freed
    BY DEF NothingFreed
  <2>1. i \in 1..Len(stack) /\ stack[i].kind = "eval"
    BY <1>2 DEF EvalsStay, Advances
  <2>2. i = Len(stack)
    BY <2>1, FlatStack
  <2>3. Len(stack') \in Nat
    BY NextBase, LenProperties DEF Base, TypeOK
  <2>4. Len(stack') >= Len(stack)
    BY <2>2, <2>3
  <2>5. QED
    BY <1>2, <2>1, <2>4 DEF EvalsStay, NothingFreed
<1>3. QED
  BY <1>1, <1>2, Evals

(* Where the requests queued for a pass keep their status.                 *)
LEMMA QueueStatus ==
  ASSUME Base, Apart, [Next]_vars, ~PassEvalEnds, ~PassBlank, NEW j \in 1..Len(evalQueue)
  PROVE  req'[evalQueue[j]].status = req[evalQueue[j]].status /\ evalQueue[j] \in 1..Len(req)
<1>1. evalQueue[j] \in 1..Len(req) /\ ForPass(evalQueue[j])
  BY ReqType, ElementOfSeq DEF Base, TypeOK, ForPass, In
<1>2. Read => Held(Head(work))
  <2>1. work \in Seq(1..Len(req)) /\ (Read => work # <<>>)
    BY ReqType DEF Base, TypeOK, Read
  <2>2. QED
    BY <2>1, InTail DEF Held
<1>3. QED
  BY <1>1, <1>2, StatusStep DEF Apart

(* A pass goes on from one request to the next, or ends.                   *)
LEMMA FlatPass ==
  ASSUME Flat, Base, Leaves, Apart, FlatOK, [Next]_vars,
         NEW i \in 1..Len(stack), stack[i].kind = "pass"
  PROVE  FlatOK'
<1> DEFINE t == stack[i].todo
           n == Len(evalQueue)
           K == n - Len(t)
<1>1. /\ NothingFreed' /\ n \in Nat /\ Len(req) \in Nat /\ Len(stack) \in Nat
      /\ evalQueue \in Seq(1..Len(req)) /\ NothingFreed /\ QueueUnique /\ uaf = FALSE
  BY NextNothingFreed, LenProperties, ReqType DEF FlatOK, Base, TypeOK
<1>2. /\ PassAt(t) /\ t \in Seq(1..Len(req)) /\ Len(t) \in Nat /\ K \in Nat /\ DeletedUpTo(K)
      /\ stack # <<>> /\ Top = stack[Len(stack)] /\ Len(stack) \in 1..Len(stack)
  <2>1. PassAt(t)
    BY DEF FlatOK
  <2>2. t \in Seq(1..Len(req)) /\ Len(t) \in Nat
    <3>1. t \in Seq(1..Len(req))
      BY DEF Base, StackOK, Shapes, Shape
    <3>2. QED
      BY <3>1, LenProperties
  <2>3. K \in Nat /\ DeletedUpTo(K)
    BY <1>1, <2>1, <2>2 DEF PassAt
  <2>4. stack # <<>>
    BY EmptySeq
  <2>5. QED
    BY <2>1, <2>2, <2>3, <2>4, TopFacts
<1>3. \A j \in 1..Len(stack) : stack[j].kind = "pass" => j = i
  BY FlatPassSteps
<1> HIDE DEF n, K, t
<1>4. CASE /\ UNCHANGED <<evalQueue, uaf>>
           /\ \A j \in 1..n : req'[evalQueue[j]].status = req[evalQueue[j]].status
           /\ i \in 1..Len(stack') /\ stack'[i] = stack[i]
           /\ \A j \in 1..Len(stack') : stack'[j].kind = "pass" => j = i
  <2>1. PassAt(t) /\ PassAt(stack[i].todo)'
    BY <1>2, <1>4 DEF PassAt, DeletedUpTo, n, t
  <2>2. QED
    BY <1>1, <1>2, <1>4, <2>1 DEF FlatOK, QueueUnique, NoPass
<1>5. CASE ReaderStep \/ UNCHANGED vars
  <2>1. UNCHANGED <<evalQueue, stack, uaf>>
    BY <1>5 DEF ReaderStep, Take, Swap, Read, Store, BatchDone, vars
  <2>2. ~PassEvalEnds /\ ~PassBlank
    <3>1. ~PassEvalEnds
      BY <1>1, <2>1, PassEvalPops DEF Popped
    <3>2. ASSUME PassBlank PROVE FALSE
      <4>1. /\ stack' = stack /\ stack'[Len(stack)].todo = Tail(Top.todo) /\ Top = stack[Len(stack)]
            /\ Top.todo \in Seq(1..Len(req)) /\ Top.todo # <<>>
        BY <2>1, <3>2, BlankReq
      <4>2. Top.todo = Tail(Top.todo)
        BY <4>1
      <4> DEFINE todo == Top.todo
      <4>3. todo \in Seq(1..Len(req)) /\ todo # <<>> /\ todo = Tail(todo)
        BY <4>1, <4>2
      <4> HIDE DEF todo
      <4>4. Len(todo) = Len(todo) - 1 /\ Len(todo) \in Nat
        BY <4>3, HeadTailProperties, LenProperties
      <4>5. QED
        BY <4>4
    <3>3. QED
      BY <3>1, <3>2
  <2>3. QED
    BY <1>3, <1>4, <2>1, <2>2, QueueStatus DEF n
<1>6. CASE PassNext
  <2>1. UNCHANGED <<evalQueue, req, uaf>>
    BY <1>6 DEF PassNext
  <2> PICK m \in Modules : Starts(m)
    BY <1>6, PassNextStarts
  <2>2. \A j \in 1..Len(stack') : j \in 1..Len(stack) \/ j = Len(stack) + 1
    BY Started
  <2>3. \A j \in 1..Len(stack') : stack'[j].kind = "pass" => j = i
    BY <1>3, <2>2, Started
  <2>4. i \in 1..Len(stack') /\ stack'[i] = stack[i]
    BY <1>1, Started
  <2>5. QED
    BY <1>4, <2>1, <2>3, <2>4
<1>7. CASE PassEnds /\ i = Len(stack)
  <2>1. t = <<>>
    BY <1>2, <1>7 DEF PassEnds, t
  <2>2. \A j \in 1..n : req[evalQueue[j]].status = "deleted"
    BY <1>1, <1>2, <2>1, EmptySeq DEF DeletedUpTo, K, n
  <2>3. ~\E r \in ToSet(evalQueue) : req[r].status # "deleted"
    BY <1>1, <2>2, LenProperties DEF ToSet, n
  <2>4. uaf' = FALSE /\ evalQueue' = <<>> /\ stack' = Front(stack)
    BY <1>7, <2>3 DEF PassEnds
  <2>5. Len(stack') = Len(stack) - 1 /\ \A j \in 1..Len(stack') : stack'[j] = stack[j]
    BY <1>2, <2>4, TopIs DEF Base, TypeOK
  <2>6. ASSUME NEW j \in 1..Len(stack') PROVE stack'[j].kind # "pass"
    <3>1. j \in 1..Len(stack) /\ j # i
      BY <1>1, <1>7, <2>5
    <3>2. QED
      BY <1>3, <2>5, <3>1
  <2>7. DeletedUpTo(0)' /\ QueueUnique'
    BY <2>4, EmptySeq DEF DeletedUpTo, QueueUnique
  <2>8. QED
    BY <1>1, <2>4, <2>6, <2>7 DEF FlatOK
<1>8. ASSUME t # <<>>
      PROVE  /\ K + 1 \in 1..n /\ evalQueue[K + 1] = Head(t) /\ req[Head(t)].status # "deleted"
             /\ 1 \in 1..Len(t)
  <2>1. Len(t) \in Nat \ {0} /\ Head(t) = t[1] /\ Len(t) <= n
    BY <1>2, <1>8, EmptySeq DEF PassAt, n
  <2>2. K + 1 \in 1..n /\ 1 \in 1..Len(t)
    BY <1>1, <2>1 DEF K
  <2>3. t[1] = evalQueue[K + 1]
    BY <1>2, <2>2 DEF PassAt, K, n
  <2>4. ~(K + 1 <= K)
    BY <1>2
  <2>5. req[evalQueue[K + 1]].status # "deleted"
    BY <1>2, <2>2, <2>4 DEF DeletedUpTo, n
  <2>6. QED
    BY <2>1, <2>2, <2>3, <2>5
<1>9. ASSUME t # <<>>, NEW q, q.status = "deleted", req' = [req EXCEPT ![Head(t)] = q],
             uaf' = FALSE, evalQueue' = evalQueue, i \in 1..Len(stack'), stack'[i].todo = Tail(t),
             \A j \in 1..Len(stack') : stack'[j].kind = "pass" <=> j = i
      PROVE  FlatOK'
  <2> DEFINE r == Head(t)
  <2>1. K + 1 \in 1..n /\ evalQueue[K + 1] = r /\ 1 \in 1..Len(t)
    BY <1>8, <1>9
  <2>2. r \in 1..Len(req)
    BY <1>2, <1>9, HeadTailProperties
  <2>3. req' = [req EXCEPT ![r] = q]
    BY <1>9
  <2> HIDE DEF r
  <2>4. /\ Len(Tail(t)) = Len(t) - 1 /\ \A j \in 1..Len(t) - 1 : Tail(t)[j] = t[j + 1]
    BY <1>2, <1>9, HeadTailProperties
  <2>5. n - Len(Tail(t)) = K + 1
    <3>1. \A a, b \in Nat : a - (b - 1) = a - b + 1
      OBVIOUS
    <3>2. n - (Len(t) - 1) = K + 1
      BY <1>1, <1>2, <3>1 DEF K
    <3>3. QED
      BY <2>4, <3>2
  <2>6. ASSUME NEW j \in 1..n PROVE req'[evalQueue[j]].status = "deleted" <=> j <= K + 1
    <3>1. evalQueue[j] \in 1..Len(req)
      BY <1>1, ElementOfSeq DEF n
    <3>2. CASE j = K + 1
      BY <1>9, <2>1, <2>3, <3>1, <3>2, ReqType DEF Base
    <3>3. CASE j # K + 1
      <4>1. evalQueue[j] # r
        BY <1>1, <2>1, <3>3 DEF QueueUnique, n
      <4>2. req'[evalQueue[j]] = req[evalQueue[j]]
        BY <2>3, <3>1, <4>1, ReqType DEF Base
      <4>3. j <= K + 1 <=> j <= K
        BY <1>2, <3>3
      <4>4. QED
        BY <1>2, <4>2, <4>3 DEF DeletedUpTo, n
    <3>4. QED
      BY <3>2, <3>3
  <2>7. ASSUME NEW j \in 1..Len(Tail(t)) PROVE Tail(t)[j] = evalQueue[K + 1 + j]
    <3>1. j + 1 \in 1..Len(t) /\ K + (j + 1) = K + 1 + j
      BY <1>2, <2>4
    <3>2. Tail(t)[j] = t[j + 1]
      BY <2>4, <2>7
    <3>3. t[j + 1] = evalQueue[K + (j + 1)]
      BY <1>2, <3>1 DEF PassAt, K, n
    <3>4. QED
      BY <3>1, <3>2, <3>3
  <2>8. PassAt(stack[i].todo)'
    <3>1. Len(Tail(t)) <= n
      BY <1>1, <1>2, <2>4 DEF PassAt, n
    <3>2. QED
      BY <1>9, <2>5, <2>6, <2>7, <3>1 DEF PassAt, DeletedUpTo, n
  <2>9. QED
    BY <1>1, <1>9, <2>8 DEF FlatOK, QueueUnique, NoPass
<1>10. CASE PassEvalEnds /\ i = Len(stack) - 1
  <2> DEFINE r == PassRequest
             q == [req[r] EXCEPT !.status = "deleted", !.promise = IF @ = "none" THEN @ ELSE Outcome]
  <2>1. /\ r \in 1..Len(req) /\ r = Head(t) /\ q \in Request
        /\ \/ req' = [req EXCEPT ![r] = q] /\ uaf' = uaf
           \/ req[r].status = "deleted" \/ Top.freed
    BY <1>10, PassEvalReq DEF t
  <2>2. t # <<>>
    <3>1. InPass
      BY <1>10 DEF PassEvalEnds
    <3>2. QED
      BY <1>2, <1>10, <3>1, PassBelow DEF t
  <2>3. ~Top.freed
    BY <1>1, <1>2, <1>10 DEF PassEvalEnds, At, NothingFreed
  <2>4. req' = [req EXCEPT ![r] = q] /\ uaf' = FALSE
    BY <1>1, <1>8, <2>1, <2>2, <2>3
  <2>5. q.status = "deleted"
    BY <2>1, ReqType DEF Request, Base
  <2> HIDE DEF q, r
  <2>6. /\ evalQueue' = evalQueue
        /\ Popped(stack, stack') /\ stack'[i].todo = Tail(t) /\ Len(stack') = i
    BY <1>1, <1>10, PassEvalPops DEF PassEvalEnds, t, Popped
  <2>7. ASSUME NEW j \in 1..Len(stack') PROVE j \in 1..Len(stack) /\ stack'[j].kind = stack[j].kind
    <3>1. GoesOn(stack[j], stack'[j]) /\ Len(stack') = Len(stack) - 1
      BY <2>6 DEF Popped
    <3>2. QED
      BY <1>1, <2>6, <3>1 DEF GoesOn, Keeps
  <2>8. i \in 1..Len(stack')
    BY <2>6
  <2>9. \A j \in 1..Len(stack') : stack'[j].kind = "pass" <=> j = i
    BY <1>3, <2>7, <2>8
  <2>10. QED
    BY <1>9, <2>1, <2>2, <2>4, <2>5, <2>6, <2>8, <2>9
<1>11. CASE PassBlank /\ i = Len(stack)
  <2> DEFINE r == BlankRequest
             q == [req[r] EXCEPT !.status = "deleted", !.promise = "fulfilled"]
  <2>1. /\ r = Head(t) /\ q.status = "deleted" /\ req' = [req EXCEPT ![r] = q]
        /\ t # <<>> /\ Len(stack') = Len(stack)
        /\ \A j \in 1..Len(stack) : j # Len(stack) => stack'[j] = stack[j]
        /\ stack'[Len(stack)].kind = "pass" /\ stack'[Len(stack)].todo = Tail(Top.todo)
        /\ Top = stack[Len(stack)]
    BY <1>11, BlankReq DEF t, BlankRequest
  <2> HIDE DEF q, r
  <2>2. evalQueue' = evalQueue /\ uaf' = FALSE
    BY <1>1, <1>11 DEF PassBlank
  <2>3. /\ i \in 1..Len(stack') /\ stack'[i].todo = Tail(t)
        /\ \A j \in 1..Len(stack') : stack'[j].kind = "pass" <=> j = i
    BY <1>3, <1>11, <2>1 DEF t
  <2>4. QED
    BY <1>9, <2>1, <2>2, <2>3
<1>12. QED
  BY <1>5, <1>6, <1>7, <1>10, <1>11, FlatPassSteps

(* While there is no pass, only importModule adds to pending_eval_.        *)
LEMMA FlatNoPass ==
  ASSUME Flat, Base, Leaves, Apart, FlatOK, [Next]_vars, NoPass
  PROVE  FlatOK'
<1>1. /\ NothingFreed' /\ Len(evalQueue) \in Nat /\ Len(req) \in Nat /\ Len(stack) \in Nat
      /\ evalQueue \in Seq(1..Len(req)) /\ NothingFreed /\ QueueUnique /\ uaf = FALSE /\ DeletedUpTo(0)
  BY NextNothingFreed, LenProperties, ReqType DEF FlatOK, Base, TypeOK
<1>2. ~PassNext /\ ~PassBlank /\ ~PassEnds /\ ~PassEvalEnds
  <2>1. stack # <<>> => Len(stack) \in 1..Len(stack) /\ Top = stack[Len(stack)]
    BY TopFacts
  <2>2. stack # <<>> /\ InPass => FALSE
    BY PassBelow DEF NoPass
  <2>3. QED
    BY <2>1, <2>2 DEF NoPass, PassNext, PassBlank, PassEnds, PassEvalEnds, At
<1>3. uaf' = FALSE
  <2>1. CASE JobEnds
    <3>1. stack # <<>> /\ Top.kind = "eval" /\ uaf' = Top.freed /\ Top \in Frame
          /\ Len(stack) \in 1..Len(stack) /\ Top = stack[Len(stack)]
      BY <2>1, TopFacts DEF JobEnds, At
    <3>2. ~Top.freed /\ Top.freed \in BOOLEAN
      BY <1>1, <3>1 DEF NothingFreed, Frame
    <3>3. QED
      BY <3>1, <3>2
  <2>2. CASE ~JobEnds
    BY <1>1, <1>2, <2>2 DEF Next, Ask, RegisterModule, Require, ImportLoaded, ImportUnread, JSTaskStep, PushRead,
       GiveRead, CopySource, CheckSource, ReadArrived, Fetch, GotNamespace, RunJob, NestedRequire, StartEvalPass,
       Timeout, ReaderStep, Take, Swap, Read, Store, BatchDone, vars
  <2>3. QED
    BY <2>1, <2>2
<1>4. ASSUME NEW i \in 1..Len(stack'), stack'[i].kind = "pass" PROVE stack'[i].todo = evalQueue
  <2>1. CASE \E m \in Modules : Starts(m)
    <3> PICK m \in Modules : Starts(m)
      BY <2>1
    <3>1. i \in 1..Len(stack) /\ stack'[i] = stack[i]
      BY <1>4, Started
    <3>2. QED
      BY <1>4, <3>1 DEF NoPass
  <2>2. CASE PassesStay
    BY <1>4, <2>2 DEF PassesStay, NoPass
  <2>3. QED
    BY <2>1, <2>2, Evals
<1>5. CASE evalQueue' = evalQueue
  <2>1. DeletedUpTo(0)'
    BY <1>1, <1>2, <1>5, QueueStatus DEF DeletedUpTo
  <2>2. ASSUME NEW i \in 1..Len(stack'), stack'[i].kind = "pass" PROVE PassAt(stack[i].todo)'
    <3>1. Len(evalQueue) - Len(evalQueue) = 0
      BY <1>1
    <3>2. \A j \in 1..Len(evalQueue) : evalQueue[j] = evalQueue[0 + j]
      BY <1>1
    <3>3. QED
      BY <1>1, <1>4, <1>5, <2>1, <2>2, <3>1, <3>2 DEF PassAt
  <2>3. QED
    BY <1>1, <1>3, <1>5, <2>1, <2>2 DEF FlatOK, QueueUnique
<1>6. ASSUME CopySource PROVE FlatOK'
  <2> DEFINE n == Len(evalQueue)
             x == Len(req) + 1
  <2> PICK q \in Request : /\ q.promise = "pending" /\ q.status \in {"loaded", "blank"}
                           /\ req' = Append(req, q)
    BY <1>6, CopyReq
  <2>1. /\ q \in Request /\ q.status \in {"loaded", "blank"} /\ req' = Append(req, q)
        /\ evalQueue' = Append(evalQueue, x) /\ Popped(stack, stack')
    BY <1>6, CopyReq DEF CopySource
  <2>2. \A k \in 1..Len(req) : req'[k] = req[k]
    BY <2>1, AppendReq DEF Base
  <2>3. req'[x] = q
    BY <2>1, AppendReq DEF Base
  <2>4. evalQueue \in Seq(Nat) /\ x \in Nat /\ \A j \in 1..n : evalQueue[j] \in 1..Len(req) /\ evalQueue[j] # x
    <3>1. 1..Len(req) \subseteq Nat
      OBVIOUS
    <3>2. \A j \in 1..n : evalQueue[j] \in 1..Len(req)
      BY <1>1, ElementOfSeq
    <3>3. QED
      BY <1>1, <3>1, <3>2, SeqMonotonic
  <2>5. /\ Len(evalQueue') = n + 1 /\ evalQueue'[n + 1] = x
        /\ \A j \in 1..n : evalQueue'[j] = evalQueue[j]
    BY <2>1, <2>4, AppendProperties
  <2>6. \A j \in 1..Len(evalQueue') : j \in 1..n \/ j = n + 1
    BY <1>1, <2>5
  <2>7. QueueUnique'
    <3> SUFFICES ASSUME NEW j \in 1..Len(evalQueue'), NEW k \in 1..Len(evalQueue'), evalQueue'[j] = evalQueue'[k]
                 PROVE  j = k
      BY DEF QueueUnique
    <3>1. CASE j \in 1..n /\ k \in 1..n
      BY <1>1, <2>5, <3>1 DEF QueueUnique
    <3>2. CASE j \in 1..n /\ k = n + 1
      BY <2>4, <2>5, <3>2
    <3>3. CASE j = n + 1 /\ k \in 1..n
      BY <2>4, <2>5, <3>3
    <3>4. QED
      BY <2>6, <3>1, <3>2, <3>3
  <2>8. DeletedUpTo(0)'
    <3> SUFFICES ASSUME NEW j \in 1..Len(evalQueue') PROVE req'[evalQueue'[j]].status # "deleted" /\ ~(j <= 0)
      BY DEF DeletedUpTo
    <3>1. ~(j <= 0)
      BY <1>1, <2>5
    <3>2. CASE j \in 1..n
      BY <1>1, <2>2, <2>4, <2>5, <3>1, <3>2 DEF DeletedUpTo
    <3>3. CASE j = n + 1
      BY <2>1, <2>3, <2>5, <3>1, <3>3
    <3>4. QED
      BY <2>6, <3>2, <3>3
  <2>9. NoPass'
    <3>1. /\ Len(stack') = Len(stack) - 1
          /\ \A j \in 1..Len(stack') : stack'[j].kind = stack[j].kind
      BY <2>1 DEF Popped, GoesOn, Keeps
    <3>2. \A j \in 1..Len(stack') : j \in 1..Len(stack)
      BY <1>1, <3>1
    <3>3. QED
      BY <3>1, <3>2 DEF NoPass
  <2>10. QED
    BY <1>1, <1>3, <2>7, <2>8, <2>9 DEF FlatOK, NoPass
<1>7. evalQueue' = evalQueue \/ CopySource
  BY <1>2 DEF Next, Ask, RegisterModule, Require, ImportLoaded, ImportUnread, JSTaskStep, PushRead,
     GiveRead, CheckSource, ReadArrived, Fetch, GotNamespace, RunJob, NestedRequire, JobEnds,
     StartEvalPass, Timeout, ReaderStep, Take, Swap, Read, Store, BatchDone, vars
<1>8. QED
  BY <1>5, <1>6, <1>7

LEMMA AlwaysFlat == ASSUME Flat PROVE Spec => [](Base /\ Leaves /\ FlatOK)
<1>1. Init => FlatOK
  BY EmptySeq DEF Init, FlatOK, QueueUnique, DeletedUpTo, NothingFreed
<1>2. Base /\ Leaves /\ Apart /\ FlatOK /\ [Next]_vars => FlatOK'
  BY FlatPass, FlatNoPass DEF NoPass
<1>3. ReaderInv => Apart
  BY DEF ReaderInv
<1>4. QED
  BY <1>1, <1>2, <1>3, AlwaysLeaves, AlwaysReader, PTL DEF Spec

(* processPendingEval deletes a request once and never touches it again,   *)
(* pending_eval_ does not grow under a pass, and the engine frees no       *)
(* definition being evaluated, if no module requires another: only the     *)
(* require() of a module being evaluated re-enters them.                   *)
THEOREM FlatProgramsAreSafe ==
  ASSUME Flat
  PROVE  Spec => []NoUseAfterFree
<1>1. FlatOK => NoUseAfterFree
  BY DEF FlatOK, NoUseAfterFree
<1>2. QED
  BY <1>1, AlwaysFlat, PTL

(* The evaluation of m is on top of the stack and made its definition.     *)
EvaluatedFirst(m) == stack # <<>> /\ Top.kind = "eval" /\ Top.name = m /\ Top.first

(* The engine's definitions are those of modules evaluated, or being       *)
(* evaluated on top of the stack.                                          *)
DefsOK ==
  /\ \A m \in Modules : defs[m] = "threw" => m \in Throws
  /\ \A m \in Modules \ CommonJS :
       defs[m] = "defined" => ns[m] # None \/ EvaluatedFirst(m)
  /\ \A i \in 1..Len(stack) :
       stack[i].kind = "eval" => ~stack[i].failed /\ (stack[i].name \notin CommonJS => defs[stack[i].name] # "none")

LEMMA FlatEvalSteps ==
  ASSUME Flat, Base, Leaves, [Next]_vars, stack # <<>>, Top.kind = "eval"
  PROVE  JobEnds \/ PassEvalEnds \/ ReaderStep \/ UNCHANGED vars
<1>1. Shape(Top, Len(req)) /\ Len(stack) \in 1..Len(stack) /\ Top = stack[Len(stack)]
  BY TopFacts
<1>2. Top.todo = <<>> /\ Top.pc = "run"
  BY <1>1, FlatStack DEF Shape
<1>3. ~Ticking /\ ~Timeout
  BY <1>2 DEF Ticking, Timeout, Waiting
<1>4. QED
  BY <1>2, <1>3 DEF Next, Ask, RegisterModule, Require, ImportLoaded, ImportUnread, RunJob, StartEvalPass, JSTaskStep,
     PushRead, GiveRead, CopySource, CheckSource, ReadArrived, Fetch, GotNamespace, NestedRequire, PassNext,
     PassBlank, PassEnds, At

(* The end of an evaluation: only the module's own definition is touched.  *)
LEMMA FlatEnds ==
  ASSUME Flat, Base, Leaves, FlatOK, FlatOK', GlobalSet, JobEnds \/ PassEvalEnds
  PROVE  /\ stack # <<>> /\ Top.kind = "eval" /\ Top.name \in Modules /\ Value # None
         /\ ns' = IF Threw THEN ns ELSE [ns EXCEPT ![Top.name] = Value]
         /\ \A m \in Modules :
              defs'[m] = IF m = Top.name /\ Top.first /\ BodyThrew THEN "threw" ELSE defs[m]
         /\ \A i \in 1..Len(stack') : stack'[i].kind # "eval"
<1>1. stack # <<>> /\ Top.kind = "eval"
  BY DEF JobEnds, PassEvalEnds, At
<1>2. Value # None /\ Top.name \in Modules
  BY <1>1, ValueIs
<1>3. /\ stack \in Seq(Frame) /\ Len(stack) \in Nat \ {0} /\ Len(stack) \in 1..Len(stack) /\ Top = stack[Len(stack)]
      /\ \A i \in 1..Len(stack) - 1 : i \in 1..Len(stack) /\ i # Len(stack)
  BY <1>1, TopFacts
<1>4. \A i \in 1..Len(stack) - 1 : stack[i].kind # "eval" /\ ~stack[i].first
  BY <1>3, FlatStack DEF Base, StackOK, Shapes, Shape
<1>5. Popped(stack, stack')
  BY JobEndsPops, PassEvalPops
<1>6. \A i \in 1..Len(stack') : stack'[i].kind # "eval"
  BY <1>4, <1>5 DEF Popped, GoesOn, Keeps
<1>7. /\ Front(stack) \in Seq(Frame) /\ Len(Front(stack)) = Len(stack) - 1
      /\ \A i \in 1..Len(stack) - 1 : Front(stack)[i] = stack[i]
      /\ DOMAIN Front(stack) = 1..Len(stack) - 1
  BY <1>1, <1>3, TopIs, LenProperties
<1>8. ASSUME NEW below, EvalReturns(below), DOMAIN below = 1..Len(stack) - 1,
             \A i \in 1..Len(stack) - 1 : below[i].first = stack[i].first
      PROVE  \A m \in Modules :
               defs'[m] = IF m = Top.name /\ Top.first /\ BodyThrew THEN "threw" ELSE defs[m]
  <2>1. \A i \in DOMAIN below : ~below[i].first
    BY <1>4, <1>8
  <2>2. QED
    BY <1>8, <2>1 DEF EvalReturns
<1>9. CASE JobEnds
  <2>1. uaf' = FALSE /\ uaf' = Top.freed
    BY <1>9 DEF FlatOK, JobEnds
  <2>2. ns' = IF Threw THEN ns ELSE [ns EXCEPT ![Top.name] = Value]
    BY <1>9, <2>1 DEF JobEnds
  <2>3. EvalReturns(Front(stack))
    BY <1>9 DEF JobEnds
  <2>4. QED
    BY <1>1, <1>2, <1>6, <1>7, <1>8, <2>2, <2>3
<1>10. CASE PassEvalEnds
  <2>1. uaf' = FALSE
    BY DEF FlatOK
  <2>2. ns' = IF Threw THEN ns ELSE [ns EXCEPT ![Top.name] = Value]
    BY <1>10, <2>1, PassEvalReq
  <2> DEFINE n == Len(Front(stack))
             below == [Front(stack) EXCEPT ![n].todo = Tail(@)]
  <2>3. EvalReturns(below)
    BY <1>10 DEF PassEvalEnds
  <2>4. InPass
    BY <1>10 DEF PassEvalEnds
  <2>5. n \in 1..Len(stack) - 1 /\ stack[n] \in Frame
    BY <1>1, <1>7, <2>4, PassBelow
  <2>6. DOMAIN below = 1..Len(stack) - 1
    BY <1>7
  <2>7. \A i \in 1..Len(stack) - 1 : below[i].first = stack[i].first
    <3>1. [stack[n] EXCEPT !.todo = Tail(@)].first = stack[n].first
      BY <2>5 DEF Frame
    <3>2. QED
      BY <1>7, <2>5, <3>1
  <2> HIDE DEF below
  <2>8. QED
    BY <1>1, <1>2, <1>6, <1>8, <2>2, <2>3, <2>6, <2>7
<1>11. QED
  BY <1>9, <1>10

LEMMA NextDefs ==
  ASSUME Flat, Relative = {}, Base, Leaves, FlatOK, FlatOK', GlobalSet, DefsOK, [Next]_vars
  PROVE  DefsOK'
<1>0. Base' /\ defs \in [Modules -> {"none", "defined", "threw"}]
  BY NextBase DEF Base, TypeOK
<1>1. CASE \E m \in Modules : Starts(m)
  <2> PICK m \in Modules : Starts(m)
    BY <1>1
  <2>1. defs' = IF Evaluation(m).first THEN [defs EXCEPT ![m] = "defined"] ELSE defs
    BY DEF Starts, StartEval
  <2>2. /\ Evaluation(m).first = (m \notin CommonJS /\ defs[m] = "none")
        /\ Evaluation(m).kind = "eval" /\ Evaluation(m).name = m /\ ~Evaluation(m).failed
        /\ stack'[Len(stack) + 1] = Evaluation(m)
        /\ \A i \in 1..Len(stack) : stack'[i] = stack[i]
        /\ Len(stack') = Len(stack) + 1 /\ Len(stack) \in Nat
    BY Started
  <2>3. stack' # <<>> /\ Top' = Evaluation(m)
    <3>1. stack' # <<>>
      BY <2>2, EmptySeq
    <3>2. QED
      BY <2>2, <3>1 DEF Top, Last
  <2>4. ns' = ns /\ (stack # <<>> => Top.kind # "eval")
    BY DEF Starts
  <2>5. \A i \in 1..Len(stack') : i \in 1..Len(stack) \/ i = Len(stack) + 1
    BY <2>2
  <2>6. \A k \in Modules : defs'[k] = IF k = m /\ Evaluation(m).first THEN "defined" ELSE defs[k]
    BY <1>0, <2>1
  <2>7. \A k \in Modules : defs'[k] = "threw" => k \in Throws
    BY <2>6 DEF DefsOK
  <2>8. ASSUME NEW k \in Modules \ CommonJS, defs'[k] = "defined"
        PROVE  ns'[k] # None \/ EvaluatedFirst(k)'
    BY <2>2, <2>3, <2>4, <2>6, <2>8 DEF DefsOK, EvaluatedFirst
  <2>9. ASSUME NEW i \in 1..Len(stack'), stack'[i].kind = "eval"
        PROVE  ~stack'[i].failed /\ (stack'[i].name \notin CommonJS => defs'[stack'[i].name] # "none")
    <3>1. CASE i \in 1..Len(stack)
      <4>1. stack[i].name \in Modules
        BY <2>2, <2>9, <3>1 DEF Base, StackOK, Shapes, Shape
      <4>2. QED
        BY <2>2, <2>6, <2>9, <3>1, <4>1 DEF DefsOK
    <3>2. CASE i = Len(stack) + 1
      <4>1. stack'[i] = Evaluation(m)
        BY <2>2, <3>2
      <4>2. /\ Evaluation(m).name = m /\ ~Evaluation(m).failed
            /\ m \notin CommonJS => Evaluation(m).first \/ defs[m] # "none"
        BY <2>2
      <4>3. m \notin CommonJS => defs'[m] # "none"
        BY <2>6, <4>2
      <4>4. QED
        BY <4>1, <4>2, <4>3
    <3>3. QED
      BY <2>5, <3>1, <3>2
  <2>10. QED
    BY <2>7, <2>8, <2>9 DEF DefsOK
<1>2. CASE JobEnds \/ PassEvalEnds
  <2>1. /\ stack # <<>> /\ Top.kind = "eval" /\ Top.name \in Modules /\ Value # None
        /\ ns' = IF Threw THEN ns ELSE [ns EXCEPT ![Top.name] = Value]
        /\ \A m \in Modules :
             defs'[m] = IF m = Top.name /\ Top.first /\ BodyThrew THEN "threw" ELSE defs[m]
        /\ \A i \in 1..Len(stack') : stack'[i].kind # "eval"
    BY <1>2, FlatEnds
  <2>2. ~Top.failed
    BY <2>1, TopFacts DEF DefsOK
  <2>3. \A m \in Modules : defs'[m] = "threw" => m \in Throws
    BY <2>1, <2>2 DEF DefsOK, BodyThrew
  <2>4. ASSUME NEW m \in Modules \ CommonJS, defs'[m] = "defined" PROVE ns'[m] # None
    <3>1. defs[m] = "defined" /\ ~(m = Top.name /\ Top.first /\ BodyThrew)
      BY <2>1, <2>4
    <3>2. CASE ns[m] # None
      BY <2>1, <3>2 DEF Base, TypeOK
    <3>3. CASE Top.name = m /\ Top.first
      <4>1. ~Threw
        BY <3>1, <3>3 DEF Threw, NoNamespace
      <4>2. QED
        BY <2>1, <3>3, <4>1 DEF Base, TypeOK
    <3>4. QED
      BY <3>1, <3>2, <3>3 DEF DefsOK, EvaluatedFirst
  <2>5. QED
    BY <2>1, <2>3, <2>4 DEF DefsOK
<1>3. CASE /\ defs' = defs /\ \A m \in Modules : ns[m] # None => ns'[m] # None
           /\ EvalsStay /\ ~JobEnds /\ ~PassEvalEnds
  <2>1. ASSUME NEW m \in Modules \ CommonJS, defs'[m] = "defined"
        PROVE  ns'[m] # None \/ EvaluatedFirst(m)'
    <3>1. CASE stack # <<>> /\ Top.kind = "eval"
      <4>1. ReaderStep \/ UNCHANGED vars
        BY <1>3, <3>1, FlatEvalSteps
      <4>2. stack' = stack
        BY <4>1 DEF ReaderStep, Take, Swap, Read, Store, BatchDone, vars
      <4>3. Top' = Top
        BY <4>2 DEF Top
      <4>4. QED
        BY <1>3, <2>1, <4>2, <4>3 DEF DefsOK, EvaluatedFirst
    <3>2. CASE ~(stack # <<>> /\ Top.kind = "eval")
      BY <1>3, <2>1, <3>2 DEF DefsOK, EvaluatedFirst
    <3>3. QED
      BY <3>1, <3>2
  <2>2. ASSUME NEW i \in 1..Len(stack'), stack'[i].kind = "eval"
        PROVE  ~stack'[i].failed /\ (stack'[i].name \notin CommonJS => defs'[stack'[i].name] # "none")
    <3>1. i \in 1..Len(stack) /\ Advances(stack[i], stack'[i])
      BY <1>3, <2>2 DEF EvalsStay
    <3>2. stack[i].kind = "eval" /\ stack[i].todo = <<>>
      BY <3>1, FlatStack DEF Advances
    <3>3. QED
      BY <1>3, <3>1, <3>2 DEF Advances, DefsOK
  <2>3. QED
    BY <1>3, <2>1, <2>2 DEF DefsOK
<1>4. CASE ~JobEnds /\ ~PassEvalEnds /\ EvalsStay
  <2>1. CASE RunJob \/ PassNext
    <3>1. \E m \in Modules : Starts(m)
      BY <2>1, PassNextStarts, RunJobStarts
    <3>2. QED
      BY <1>1, <3>1
  <2>2. CASE ~RunJob /\ ~PassNext
    <3>1. defs' = defs
      BY <1>4, <2>2 DEF Next, Ask, RegisterModule, Require, ImportLoaded, ImportUnread, JSTaskStep,
         PushRead, GiveRead, CopySource, PassBlank, CheckSource, ReadArrived, Fetch, GotNamespace, NestedRequire,
         StartEvalPass, PassEnds, Timeout, ReaderStep, Take, Swap, Read, Store, BatchDone, vars
    <3>2. QED
      BY <1>3, <1>4, <3>1, NsKept
  <2>3. QED
    BY <2>1, <2>2
<1>5. QED
  BY <1>1, <1>2, <1>4, Evals

(* "blocks until loaded, returns module": once the code of a module has    *)
(* run without throwing, its namespace is cached, if no module requires    *)
(* another and no name is relative.  A second evaluation of an ES module   *)
(* gives no namespace, but the first then has.                             *)
THEOREM EvaluatedAreCached ==
  ASSUME Flat, Relative = {}
  PROVE  Spec => EvaluatedIsCached
<1> DEFINE IInv == Base /\ Leaves /\ FlatOK
           JInv == GlobalSet /\ DefsOK
           Step == \A m \in Modules :
                     Completes(m) /\ Len(stack') < Len(stack) /\ ~uaf' => ns'[m] # None
<1>1. Init => JInv
  BY EmptySeq DEF Init, GlobalSet, DefsOK
<1>2. IInv /\ IInv' /\ JInv /\ [Next]_vars => JInv'
  BY NextGlobalSet, NextDefs
<1>3. IInv /\ IInv' /\ JInv /\ [Next]_vars => [Step]_vars
  <2> SUFFICES ASSUME IInv, FlatOK', JInv, Next, NEW m \in Modules, Completes(m), Len(stack') < Len(stack)
               PROVE  ns'[m] # None
    OBVIOUS
  <2>1. stack # <<>> /\ Top.kind = "eval" /\ Top.name = m /\ ~BodyThrew
    BY DEF Completes, At
  <2>2. ~ReaderStep /\ ~UNCHANGED vars
    BY LenProperties DEF ReaderStep, Take, Swap, Read, Store, BatchDone, vars, Base, TypeOK
  <2>3. JobEnds \/ PassEvalEnds
    BY <2>1, <2>2, FlatEvalSteps
  <2>4. Value # None /\ ns' = IF Threw THEN ns ELSE [ns EXCEPT ![Top.name] = Value]
    BY <2>3, FlatEnds
  <2>5. CASE ~Threw
    BY <2>1, <2>4, <2>5 DEF Base, TypeOK
  <2>6. CASE Threw
    <3>1. m \notin CommonJS /\ ~Top.first
      BY <2>1, <2>6 DEF Threw, NoNamespace, IsES
    <3>2. Len(stack) \in 1..Len(stack) /\ Top = stack[Len(stack)]
      BY <2>1, TopFacts
    <3>3. defs[m] # "none" /\ defs[m] # "threw"
      BY <2>1, <3>1, <3>2 DEF DefsOK, BodyThrew
    <3>4. defs[m] = "defined"
      BY <3>3 DEF Base, TypeOK
    <3>5. ns[m] # None
      BY <3>1, <3>4 DEF DefsOK, EvaluatedFirst
    <3>6. QED
      BY <2>4, <2>6, <3>5
  <2>7. QED
    BY <2>5, <2>6
<1>4. Spec => []IInv
  BY AlwaysFlat
<1>5. QED
  BY <1>1, <1>2, <1>3, <1>4, PTL DEF Spec, EvaluatedIsCached
=============================================================================
