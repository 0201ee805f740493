---------------------------- MODULE JSTimerProofs ----------------------------
(***************************************************************************)
(* Theorems about JSTimer, for any clients, delays, bounds and depths.     *)
(***************************************************************************)
EXTENDS JSTimer, FiniteSetTheorems, SequenceTheorems, TLAPS

-----------------------------------------------------------------------------
(* The types.                                                              *)

LEMMA Constants ==
  /\ Wrap \in Nat /\ Wrap > 1 /\ Clients \subseteq Nat /\ Delays \subseteq 0..Wrap-1
  /\ Nohups \subseteq BOOLEAN
  /\ MaxId \in Nat /\ MaxClock \in Nat /\ StartClock \in 0..MaxClock
BY TimerAssumption

LEMMA SignedIsInt ==
  ASSUME NEW x \in Int
  PROVE  x % Wrap \in 0..Wrap-1 /\ Signed(x) \in Int
<1>1. x % Wrap \in 0..Wrap-1
  BY Constants
<1>2. QED
  BY <1>1, Constants DEF Signed

LEMMA TimerFields ==
  ASSUME NEW t \in Timer
  PROVE  /\ t.id \in 1..MaxId /\ t.timeout \in 0..Wrap-1 /\ t.interval \in Int /\ t.due \in Nat
         /\ t.out \in Clients \union {Serial} /\ t.owner \in Clients \union {0}
         /\ t.nohup \in Nohups
<1>1. \A d \in Delays : Signed(d) \in Int
  BY Constants, SignedIsInt
<1>2. QED
  BY <1>1 DEF Timer, NoInterval

LEMMA RearmType ==
  ASSUME NEW t \in Timer, NEW now \in Nat
  PROVE  Rearm(t, now) \subseteq Timer
<1>1. CASE t.interval >= 0
  <2>1. now + t.interval \in Nat
    BY <1>1, TimerFields
  <2>2. (now + t.interval) % Wrap \in 0..Wrap-1
    BY <2>1, SignedIsInt
  <2>3. [t EXCEPT !.timeout = (now + t.interval) % Wrap, !.due = now + t.interval] \in Timer
    BY <2>1, <2>2 DEF Timer
  <2>4. QED
    BY <1>1, <2>3 DEF Rearm
<1>2. CASE ~(t.interval >= 0)
  BY <1>2 DEF Rearm
<1>3. QED
  BY <1>1, <1>2

LEMMA TopType ==
  ASSUME TypeOK, stack # <<>>
  PROVE  /\ Len(stack) \in Nat \ {0} /\ Top \in Activation /\ Top = stack[Len(stack)]
         /\ Front(stack) \in Seq(Activation)
         /\ Len(Front(stack)) = Len(stack) - 1
         /\ \A i \in 1..Len(stack) - 1 : Front(stack)[i] = stack[i]
<1>1. stack \in Seq(Activation) /\ Len(stack) \in Nat \ {0}
  BY EmptySeq DEF TypeOK
<1>2. \A i \in 1..Len(stack) : stack[i] \in Activation
  BY <1>1, ElementOfSeq
<1>3. Top \in Activation /\ Top = stack[Len(stack)]
  BY <1>1, <1>2 DEF Top, Last
<1> DEFINE n == Len(stack) - 1
<1>4. /\ SubSeq(stack, 1, n) \in Seq(Activation)
      /\ Len(SubSeq(stack, 1, n)) = n
      /\ \A i \in 1..n : SubSeq(stack, 1, n)[i] = stack[i]
  <2>1. n \in Nat /\ \A i \in 1..n : stack[i] \in Activation
    BY <1>1, <1>2
  <2> HIDE DEF n
  <2>2. QED
    BY <2>1, SubSeqProperties
<1>5. QED
  BY <1>1, <1>3, <1>4 DEF Front

(* An activation on top of the stack, and another in the place of the top. *)
LEMMA PushedType ==
  ASSUME TypeOK, NEW a \in Activation
  PROVE  /\ Append(stack, a) \in Seq(Activation)
         /\ Len(Append(stack, a)) = Len(stack) + 1
         /\ \A i \in 1..Len(stack) : Append(stack, a)[i] = stack[i]
         /\ Append(stack, a)[Len(stack) + 1] = a
BY AppendProperties DEF TypeOK

LEMMA SetTopType ==
  ASSUME TypeOK, stack # <<>>, NEW a \in Activation
  PROVE  /\ SetTop(a) \in Seq(Activation)
         /\ Len(SetTop(a)) = Len(stack)
         /\ \A i \in 1..Len(stack) : SetTop(a)[i] = IF i = Len(stack) THEN a ELSE stack[i]
<1>1. stack \in Seq(Activation) /\ Len(stack) \in 1..Len(stack)
  BY TopType DEF TypeOK
<1>2. QED
  BY <1>1, ExceptSeq DEF SetTop

LEMMA TodoType ==
  ASSUME NEW st \in Seq(Activation), NEW i \in 1..Len(st)
  PROVE  /\ st[i] \in Activation /\ st[i].todo \in Seq(Timer) /\ Len(st[i].todo) \in Nat
         /\ DOMAIN st[i].todo = 1..Len(st[i].todo)
         /\ \A k \in 1..Len(st[i].todo) : st[i].todo[k] \in Timer
<1>1. st[i] \in Activation
  BY ElementOfSeq
<1>2. st[i].todo \in Seq(Timer)
  BY <1>1 DEF Activation
<1>3. QED
  BY <1>1, <1>2, LenProperties, ElementOfSeq

LEMMA NewActivation ==
  ASSUME TypeOK, NEW kind \in {Command, Job, Round}, NEW c \in Clients \union {Serial},
         NEW s \in Seq(Timer)
  PROVE  /\ [kind |-> kind, client |-> c, now |-> clock, todo |-> s, prev |-> activeOut,
             running |-> FALSE] \in Activation
<1>1. clock \in Nat
  BY Constants DEF TypeOK
<1>2. QED
  BY <1>1 DEF TypeOK, Activation

-----------------------------------------------------------------------------
(* The inductive invariant.                                                *)

(* Only rounds have timers, and a callback that runs is that of one.       *)
Shapes ==
  \A i \in 1..Len(stack) :
    /\ stack[i].kind # Round => stack[i].todo = <<>>
    /\ stack[i].running => stack[i].kind = Round /\ stack[i].todo # <<>>

(* An id names one timer, armed or at one place of one batch (UniqueIds),  *)
(* and was given out.                                                      *)
Places == UNION {{<<i, k>> : k \in 1..Len(stack[i].todo)} : i \in 1..Len(stack)}
At(q) == stack[q[1]].todo[q[2]]

IdsOK ==
  /\ \A t \in timers : t.id <= idCounter
  /\ \A q \in Places : At(q).id <= idCounter
  /\ \A t, u \in timers : t.id = u.id => t = u
  /\ \A q \in Places, t \in timers : t.id # At(q).id
  /\ \A q, r \in Places : At(q).id = At(r).id => q = r

HeldOK ==
  /\ \A t \in timers : t.id \in held
  /\ \A q \in Places : At(q).id \in held
  /\ \A id \in held : id \in cleared \/ (\E t \in timers : t.id = id)
                        \/ (\E q \in Places : At(q).id = id)

Missed(t) == t.owner \notin live \union {0} => t.id \in late \/ t.owner \in forgotten

SweptOK ==
  /\ \A t \in timers : Missed(t)
  /\ \A q \in Places : Missed(At(q))

IInv == TypeOK /\ Shapes /\ IdsOK /\ HeldOK /\ SweptOK

(* An id that names a timer after a step named one before it.              *)
Named(id) == (\E t \in timers : t.id = id) \/ (\E q \in Places : At(q).id = id)

OldIds == (\A u \in timers' : Named(u.id)) /\ (\A q \in Places' : Named(At(q)'.id))

LEMMA PlacesType ==
  ASSUME TypeOK, NEW q \in Places
  PROVE  /\ q[1] \in 1..Len(stack) /\ q[2] \in 1..Len(stack[q[1]].todo) /\ q = <<q[1], q[2]>>
         /\ At(q) \in Timer
<1>1. PICK i \in 1..Len(stack) : \E k \in 1..Len(stack[i].todo) : q = <<i, k>>
  BY DEF Places
<1>2. PICK k \in 1..Len(stack[i].todo) : q = <<i, k>>
  BY <1>1
<1>3. stack[i].todo[k] \in Timer
  BY TodoType DEF TypeOK
<1>4. QED
  BY <1>2, <1>3 DEF At

LEMMA PlacesTypeNext ==
  ASSUME TypeOK', NEW q \in Places'
  PROVE  q[1] \in Nat /\ q[2] \in Nat /\ q = <<q[1], q[2]>> /\ At(q)' \in Timer
<1>1. PICK i \in 1..Len(stack') : \E k \in 1..Len(stack'[i].todo) : q = <<i, k>>
  BY DEF Places
<1>2. PICK k \in 1..Len(stack'[i].todo) : q = <<i, k>>
  BY <1>1
<1>3. stack'[i].todo[k] \in Timer
  BY TodoType DEF TypeOK
<1>4. QED
  BY <1>2, <1>3 DEF At

LEMMA BatchedNext ==
  ASSUME TypeOK', NEW q \in Places'
  PROVE  At(q)' \in Batched'
<1>1. PICK i \in 1..Len(stack') : \E k \in 1..Len(stack'[i].todo) : q = <<i, k>>
  BY DEF Places
<1>2. PICK k \in 1..Len(stack'[i].todo) : q = <<i, k>>
  BY <1>1
<1>3. stack' \in Seq(Activation) /\ DOMAIN stack' = 1..Len(stack')
  BY LenProperties DEF TypeOK
<1>4. At(q)' = stack'[i].todo[k] /\ k \in DOMAIN stack'[i].todo
  BY <1>2, <1>3, TodoType DEF At
<1>5. QED
  BY <1>3, <1>4 DEF Batched, ToSet

(* The timers of the batches.                                              *)
LEMMA BatchedIs ==
  ASSUME TypeOK
  PROVE  Batched = {At(q) : q \in Places}
<1>1. stack \in Seq(Activation) /\ DOMAIN stack = 1..Len(stack)
  BY LenProperties DEF TypeOK
<1>2. \A i \in 1..Len(stack) : DOMAIN stack[i].todo = 1..Len(stack[i].todo)
  BY <1>1, TodoType
<1>3. \A t : t \in Batched <=> \E i \in 1..Len(stack) : \E k \in 1..Len(stack[i].todo) : t = stack[i].todo[k]
  BY <1>1, <1>2 DEF Batched, ToSet
<1>4. \A q \in Places : \E i \in 1..Len(stack) : \E k \in 1..Len(stack[i].todo) :
        At(q) = stack[i].todo[k]
  BY PlacesType DEF At
<1>5. \A i \in 1..Len(stack) : \A k \in 1..Len(stack[i].todo) :
        <<i, k>> \in Places /\ At(<<i, k>>) = stack[i].todo[k]
  BY DEF Places, At
<1>6. ASSUME NEW t \in Batched PROVE t \in {At(q) : q \in Places}
  <2> PICK i \in 1..Len(stack) : \E k \in 1..Len(stack[i].todo) : t = stack[i].todo[k]
    BY <1>3
  <2>1. PICK k \in 1..Len(stack[i].todo) : t = stack[i].todo[k]
    OBVIOUS
  <2>2. \E q \in Places : t = At(q)
    <3>1. <<i, k>> \in Places /\ t = At(<<i, k>>)
      BY <1>5, <2>1
    <3>2. QED
      BY <3>1
  <2>3. QED
    BY <2>2
<1>7. ASSUME NEW q \in Places PROVE At(q) \in Batched
  BY <1>3, <1>4
<1>8. QED
  BY <1>6, <1>7

LEMMA BatchedIsNext ==
  ASSUME TypeOK'
  PROVE  Batched' = {At(q)' : q \in Places'}
<1>1. stack' \in Seq(Activation) /\ DOMAIN stack' = 1..Len(stack')
  BY LenProperties DEF TypeOK
<1>2. \A i \in 1..Len(stack') : DOMAIN stack'[i].todo = 1..Len(stack'[i].todo)
  BY <1>1, TodoType
<1>3. \A t \in Batched' : \E i \in 1..Len(stack') : \E k \in 1..Len(stack'[i].todo) :
        t = stack'[i].todo[k]
  BY <1>1, <1>2 DEF Batched, ToSet
<1>4. \A i \in 1..Len(stack') : \A k \in 1..Len(stack'[i].todo) :
        <<i, k>> \in Places' /\ At(<<i, k>>)' = stack'[i].todo[k]
  BY DEF Places, At
<1>5. ASSUME NEW t \in Batched' PROVE \E q \in Places' : t = At(q)'
  <2>1. PICK i \in 1..Len(stack') : \E k \in 1..Len(stack'[i].todo) : t = stack'[i].todo[k]
    BY <1>3
  <2>2. PICK k \in 1..Len(stack'[i].todo) : t = stack'[i].todo[k]
    BY <2>1
  <2>3. <<i, k>> \in Places' /\ t = At(<<i, k>>)'
    BY <1>4, <2>2
  <2>4. QED
    BY <2>3
<1>6. QED
  BY <1>5, BatchedNext

LEMMA TimersFinite ==
  ASSUME TypeOK, \A t, u \in timers : t.id = u.id => t = u
  PROVE  IsFiniteSet(timers)
<1> DEFINE f == [t \in timers |-> t.id]
<1>1. f \in [timers -> 1..MaxId]
  BY TimerFields DEF TypeOK
<1>2. f \in Injection(timers, 1..MaxId)
  BY <1>1 DEF Injection, IsInjective
<1>3. IsFiniteSet(1..MaxId)
  BY Constants, FS_Interval
<1>4. QED
  BY <1>2, <1>3, FS_Injection

(* A batch has each timer that is due, once.                               *)
LEMMA BatchIs ==
  ASSUME TypeOK, \A t, u \in timers : t.id = u.id => t = u, NEW s \in Batches(clock)
  PROVE  /\ s \in Seq(Timer) /\ Len(s) \in Nat
         /\ \A k \in 1..Len(s) : s[k] \in Due(clock)
         /\ \A t \in Due(clock) : \E k \in 1..Len(s) : s[k] = t
         /\ \A k, l \in 1..Len(s) : s[k] = s[l] => k = l
<1> DEFINE D == Due(clock)
           n == Cardinality(D)
<1>1. D \subseteq timers /\ D \subseteq Timer /\ IsFiniteSet(D) /\ n \in Nat
  <2>1. D \in SUBSET timers
    BY DEF Due
  <2>2. QED
    BY <2>1, TimersFinite, FS_Subset, FS_CardinalityType DEF TypeOK
<1>2. s \in [1..n -> D] /\ \A i, j \in 1..n : i # j => s[i] # s[j]
  BY DEF Batches, SetToSeqs
<1> HIDE DEF D, n
<1>3. s \in Seq(Timer) /\ Len(s) = n
  <2>1. s \in [1..n -> Timer]
    BY <1>1, <1>2
  <2>2. s \in Seq(Timer)
    BY <1>1, <2>1, SeqDef
  <2>3. 1..n = 1..Len(s) /\ Len(s) \in Nat
    BY <2>1, <2>2, LenProperties
  <2>4. QED
    BY <1>1, <2>2, <2>3
<1>4. s \in Injection(1..n, D) /\ IsFiniteSet(1..n) /\ Cardinality(1..n) = n
  BY <1>1, <1>2, FS_Interval DEF Injection, IsInjective
<1>5. s \in Surjection(1..n, D)
  BY <1>1, <1>4, FS_Injection DEF n
<1>6. \A t \in D : \E k \in 1..n : s[k] = t
  BY <1>5 DEF Surjection
<1>7. QED
  BY <1>1, <1>2, <1>3, <1>6 DEF D

-----------------------------------------------------------------------------
(* What the steps do to the batches.                                       *)

(* The places are as before, and the timers there.                         *)
SamePlaces == Places' = Places /\ \A q \in Places : At(q)' = At(q)

LEMMA PushKeeps ==
  ASSUME TypeOK, Shapes, NEW a \in Activation, a.todo = <<>>, ~a.running, stack' = Append(stack, a)
  PROVE  stack' \in Seq(Activation) /\ Shapes' /\ SamePlaces
<1>1. /\ stack' \in Seq(Activation) /\ Len(stack') = Len(stack) + 1 /\ Len(stack) \in Nat
      /\ \A i \in 1..Len(stack) : stack'[i] = stack[i]
      /\ stack'[Len(stack) + 1] = a
  BY PushedType DEF TypeOK
<1>2. Shapes'
  BY <1>1 DEF Shapes
<1>3. Len(a.todo) = 0
  OBVIOUS
<1>4. Places' = Places
  BY <1>1, <1>3 DEF Places
<1>5. \A q \in Places : At(q)' = At(q)
  BY <1>1, PlacesType DEF At
<1>6. QED
  BY <1>1, <1>2, <1>4, <1>5 DEF SamePlaces

LEMMA PopKeeps ==
  ASSUME TypeOK, Shapes, stack # <<>>, Top.todo = <<>>, stack' = Front(stack)
  PROVE  stack' \in Seq(Activation) /\ Shapes' /\ SamePlaces
<1>1. /\ stack' \in Seq(Activation) /\ Len(stack') = Len(stack) - 1 /\ Len(stack) \in Nat \ {0}
      /\ \A i \in 1..Len(stack) - 1 : stack'[i] = stack[i]
      /\ Top = stack[Len(stack)]
  BY TopType
<1>2. Shapes'
  BY <1>1 DEF Shapes
<1>3. Len(stack[Len(stack)].todo) = 0
  BY <1>1
<1>4. \A q \in Places : q[1] # Len(stack)
  BY <1>3, PlacesType
<1>5. Places' = Places
  <2>1. Places' \subseteq Places
    BY <1>1 DEF Places
  <2>2. ASSUME NEW q \in Places PROVE q \in Places'
    <3>1. q[1] \in 1..Len(stack') /\ stack'[q[1]] = stack[q[1]]
      BY <1>1, <1>4, PlacesType
    <3>2. q[2] \in 1..Len(stack'[q[1]].todo) /\ q = <<q[1], q[2]>>
      BY <3>1, PlacesType
    <3>3. QED
      BY <3>1, <3>2 DEF Places
  <2>3. QED
    BY <2>1, <2>2
<1>6. \A q \in Places : At(q)' = At(q)
  BY <1>1, <1>4, PlacesType DEF At
<1>7. QED
  BY <1>1, <1>2, <1>5, <1>6 DEF SamePlaces

LEMMA RetopKeeps ==
  ASSUME TypeOK, Shapes, stack # <<>>, NEW a \in Activation, a.todo = Top.todo, a.kind = Top.kind,
         a.running => Top.kind = Round /\ Top.todo # <<>>, stack' = SetTop(a)
  PROVE  stack' \in Seq(Activation) /\ Shapes' /\ SamePlaces
<1>1. /\ stack' \in Seq(Activation) /\ Len(stack') = Len(stack) /\ Len(stack) \in Nat \ {0}
      /\ \A i \in 1..Len(stack) : stack'[i] = IF i = Len(stack) THEN a ELSE stack[i]
      /\ Top = stack[Len(stack)]
  BY TopType, SetTopType
<1>2. Shapes'
  BY <1>1 DEF Shapes
<1>3. \A i \in 1..Len(stack) : stack'[i].todo = stack[i].todo
  BY <1>1
<1>4. Places' = Places
  BY <1>1, <1>3 DEF Places
<1>5. \A q \in Places : At(q)' = At(q)
  BY <1>3, PlacesType DEF At
<1>6. QED
  BY <1>1, <1>2, <1>4, <1>5 DEF SamePlaces

LEMMA StayKeeps ==
  ASSUME TypeOK, Shapes, stack' = stack
  PROVE  stack' \in Seq(Activation) /\ Shapes' /\ SamePlaces
BY DEF TypeOK, Shapes, SamePlaces, Places, At

(* A step that leaves the timers where they are.                           *)
LEMMA QuietKeeps ==
  ASSUME IInv, SamePlaces, timers' = timers, idCounter' = idCounter, held' = held,
         cleared' = cleared, live' = live, late' = late,
         forgotten \subseteq forgotten'
  PROVE  IdsOK' /\ HeldOK' /\ SweptOK'
<1>1. IdsOK'
  BY DEF IInv, IdsOK, SamePlaces
<1>2. HeldOK'
  BY DEF IInv, HeldOK, SamePlaces
<1>3. SweptOK'
  BY DEF IInv, SweptOK, Missed, SamePlaces
<1>4. QED
  BY <1>1, <1>2, <1>3

-----------------------------------------------------------------------------
(* One lemma for each step.                                                *)

LEMMA InitIInv == Init => IInv
<1> SUFFICES ASSUME Init PROVE IInv
  OBVIOUS
<1>1. stack = <<>> /\ stack \in Seq(Activation) /\ Len(stack) = 0
  BY EmptySeq DEF Init
<1>2. TypeOK
  <2>1. idCounter \in 0..MaxId /\ clock \in StartClock..MaxClock
    BY Constants DEF Init
  <2>2. QED
    BY <1>1, <2>1 DEF Init, TypeOK, Serial
<1>3. Places = {}
  BY <1>1 DEF Places
<1>4. Shapes /\ IdsOK /\ HeldOK /\ SweptOK
  BY <1>1, <1>3 DEF Init, Shapes, IdsOK, HeldOK, SweptOK
<1>5. QED
  BY <1>2, <1>4 DEF IInv

LEMMA RegisterKeeps ==
  ASSUME IInv, NEW d \in Delays, NEW repeat \in BOOLEAN, NEW nohup \in Nohups,
         Register(d, repeat, nohup)
  PROVE  IInv'
<1> DEFINE id == idCounter + 1
           t == [id |-> id, timeout |-> (clock + d) % Wrap,
                 interval |-> IF repeat THEN Signed(d) ELSE NoInterval,
                 out |-> activeOut, owner |-> owner, nohup |-> nohup, due |-> clock + d]
<1>1. /\ id <= MaxId /\ timers' = timers \union {t} /\ idCounter' = id
      /\ held' = held \union {id}
      /\ late' = IF owner \in live \union {0} THEN late ELSE late \union {id}
      /\ UNCHANGED <<stack, activeOut, owner, live, forgotten, clock, cleared, ended>>
  BY DEF Register, FreshId
<1>2. TypeOK /\ Shapes /\ IdsOK /\ HeldOK /\ SweptOK
  BY DEF IInv
<1>3. id \in 1..MaxId /\ idCounter \in Nat
  BY <1>1, <1>2, Constants DEF TypeOK
<1>4. t \in Timer
  <2>1. clock \in Nat /\ d \in Nat /\ clock + d \in Nat
    BY <1>2, Constants DEF TypeOK
  <2>2. (clock + d) % Wrap \in 0..Wrap-1
    BY <2>1, SignedIsInt
  <2>3. (IF repeat THEN Signed(d) ELSE NoInterval) \in {NoInterval} \union {Signed(e) : e \in Delays}
    OBVIOUS
  <2>4. QED
    BY <1>2, <1>3, <2>1, <2>2, <2>3 DEF TypeOK, Timer
<1>5. t.id = id /\ t.owner = owner
  OBVIOUS
<1> HIDE DEF t
<1>6. stack' \in Seq(Activation) /\ Shapes' /\ SamePlaces
  BY <1>1, <1>2, StayKeeps
<1>7. TypeOK'
  BY <1>1, <1>2, <1>3, <1>4, <1>6 DEF TypeOK
<1>8. /\ \A u \in timers : u.id # id
      /\ \A q \in Places : At(q).id # id
  <2>1. \A u \in timers : u.id \in Int
    BY <1>2, TimerFields DEF TypeOK
  <2>2. \A q \in Places : At(q).id \in Int
    BY <1>2, PlacesType, TimerFields
  <2>3. QED
    BY <1>2, <1>3, <2>1, <2>2 DEF IdsOK
<1>9. IdsOK'
  <2>1. \A u \in timers' : u.id <= idCounter'
    <3>1. \A u \in timers : u.id <= idCounter /\ u.id \in Int
      BY <1>2, TimerFields DEF TypeOK, IdsOK
    <3>2. QED
      BY <1>1, <1>3, <1>5, <3>1
  <2>2. \A q \in Places : At(q).id <= idCounter'
    <3>1. \A q \in Places : At(q).id <= idCounter /\ At(q).id \in Int
      BY <1>2, PlacesType, TimerFields DEF IdsOK
    <3>2. QED
      BY <1>1, <1>3, <3>1
  <2>3. \A u, v \in timers' : u.id = v.id => u = v
    BY <1>1, <1>2, <1>5, <1>8 DEF IdsOK
  <2>4. \A q \in Places, u \in timers' : u.id # At(q).id
    BY <1>1, <1>2, <1>5, <1>8 DEF IdsOK
  <2>5. QED
    BY <1>2, <1>6, <2>1, <2>2, <2>3, <2>4 DEF IdsOK, SamePlaces
<1>10. HeldOK'
  <2>1. \A u \in timers' : u.id \in held'
    BY <1>1, <1>2, <1>5 DEF HeldOK
  <2>2. \A q \in Places : At(q).id \in held'
    BY <1>1, <1>2 DEF HeldOK
  <2>3. \A i \in held' : i \in cleared' \/ (\E u \in timers' : u.id = i)
                          \/ (\E q \in Places : At(q).id = i)
    BY <1>1, <1>2, <1>5 DEF HeldOK
  <2>4. QED
    BY <1>6, <2>1, <2>2, <2>3 DEF HeldOK, SamePlaces
<1>11. SweptOK'
  <2>1. \A u \in timers' : Missed(u)'
    BY <1>1, <1>2, <1>5 DEF SweptOK, Missed
  <2>2. \A q \in Places : At(q).owner \notin live' \union {0} =>
                            At(q).id \in late' \/ At(q).owner \in forgotten'
    BY <1>1, <1>2 DEF SweptOK, Missed
  <2>3. QED
    BY <1>6, <2>1, <2>2 DEF SweptOK, Missed, SamePlaces
<1>12. QED
  BY <1>6, <1>7, <1>9, <1>10, <1>11 DEF IInv

LEMMA ClearKeeps ==
  ASSUME IInv, NEW id \in 1..idCounter, Clear(id)
  PROVE  IInv'
<1>1. /\ timers' = {t \in timers : t.id # id} /\ cleared' = cleared \union {id}
      /\ UNCHANGED <<idCounter, stack, activeOut, owner, live, forgotten, clock, held, late, ended>>
  BY DEF Clear
<1>2. TypeOK /\ Shapes /\ IdsOK /\ HeldOK /\ SweptOK
  BY DEF IInv
<1>3. stack' \in Seq(Activation) /\ Shapes' /\ SamePlaces
  BY <1>1, <1>2, StayKeeps
<1>4. id \in 1..MaxId
  BY <1>2, Constants DEF TypeOK
<1>5. TypeOK'
  BY <1>1, <1>2, <1>3, <1>4 DEF TypeOK
<1>6. IdsOK'
  BY <1>1, <1>2, <1>3 DEF IdsOK, SamePlaces
<1>7. HeldOK'
  BY <1>1, <1>2, <1>3 DEF HeldOK, SamePlaces
<1>8. SweptOK'
  BY <1>1, <1>2, <1>3 DEF SweptOK, Missed, SamePlaces
<1>9. QED
  BY <1>3, <1>5, <1>6, <1>7, <1>8 DEF IInv

LEMMA EndKeeps ==
  ASSUME IInv, End
  PROVE  IInv'
<1>1. /\ stack = <<>> /\ held' = held \ {t.id : t \in timers} /\ timers' = {} /\ ended' = TRUE
      /\ UNCHANGED <<idCounter, stack, activeOut, owner, live, forgotten, clock, cleared, late>>
  BY DEF End
<1>2. TypeOK /\ Shapes /\ IdsOK /\ HeldOK /\ SweptOK
  BY DEF IInv
<1>3. stack' \in Seq(Activation) /\ Shapes' /\ SamePlaces
  BY <1>1, <1>2, StayKeeps
<1>4. TypeOK'
  BY <1>1, <1>2, <1>3 DEF TypeOK
<1>5. Places = {}
  BY <1>1, EmptySeq DEF Places
<1>6. IdsOK'
  BY <1>1, <1>2, <1>3, <1>5 DEF IdsOK, SamePlaces
<1>7. HeldOK'
  BY <1>1, <1>2, <1>3, <1>5 DEF HeldOK, SamePlaces
<1>8. SweptOK'
  BY <1>1, <1>2, <1>3, <1>5 DEF SweptOK, Missed, SamePlaces
<1>9. QED
  BY <1>3, <1>4, <1>6, <1>7, <1>8 DEF IInv

LEMMA SweepKeeps ==
  ASSUME IInv, NEW c \in Clients, Disconnect(c), c \in known
  PROVE  IInv'
<1> DEFINE D(t) == IF t.owner = c THEN [t EXCEPT !.out = Serial, !.owner = 0] ELSE t
<1>1. /\ c \in live /\ live' = live \ {c}
      /\ timers' = {D(t) : t \in timers \ Swept(c)}
      /\ held' = held \ {t.id : t \in Swept(c)}
      /\ late' = late \union {t.id : t \in {u \in Batched : u.owner = c}}
      /\ UNCHANGED <<idCounter, stack, activeOut, owner, forgotten, clock, cleared, ended>>
  BY DEF Disconnect, known
<1>2. TypeOK /\ Shapes /\ IdsOK /\ HeldOK /\ SweptOK
  BY DEF IInv
<1>3. stack' \in Seq(Activation) /\ Shapes' /\ SamePlaces
  BY <1>1, <1>2, StayKeeps
<1>4. \A t \in timers : /\ D(t) \in Timer /\ D(t).id = t.id
                        /\ D(t).owner = IF t.owner = c THEN 0 ELSE t.owner
  <2>1. ASSUME NEW t \in timers PROVE D(t) \in Timer /\ D(t).id = t.id
                                      /\ D(t).owner = IF t.owner = c THEN 0 ELSE t.owner
    <3>1. t \in Timer
      BY <1>2 DEF TypeOK
    <3>2. QED
      BY <3>1 DEF Timer, Serial
  <2>2. QED
    BY <2>1
<1> HIDE DEF D
<1>5. \A u \in timers' : \E t \in timers \ Swept(c) : u = D(t)
  BY <1>1
<1>6. Batched = {At(q) : q \in Places} /\ \A q \in Places : At(q) \in Timer
  BY <1>2, BatchedIs, PlacesType
<1>7. TypeOK'
  <2>1. timers' \subseteq Timer
    BY <1>1, <1>4
  <2>2. \A t \in {u \in Batched : u.owner = c} : t.id \in 1..MaxId
    BY <1>6, TimerFields
  <2>3. late' \subseteq 1..MaxId
    BY <1>1, <1>2, <2>2 DEF TypeOK
  <2>4. QED
    BY <1>1, <1>2, <1>3, <2>1, <2>3 DEF TypeOK
<1>8. IdsOK'
  <2>1. \A u \in timers' : u.id <= idCounter'
    BY <1>1, <1>2, <1>4, <1>5 DEF IdsOK
  <2>2. \A u, v \in timers' : u.id = v.id => u = v
    BY <1>2, <1>4, <1>5 DEF IdsOK
  <2>3. \A q \in Places, u \in timers' : u.id # At(q).id
    BY <1>2, <1>4, <1>5 DEF IdsOK
  <2>4. QED
    BY <1>1, <1>2, <1>3, <2>1, <2>2, <2>3 DEF IdsOK, SamePlaces
<1>9. HeldOK'
  <2>1. \A u \in timers' : u.id \in held'
    <3>1. ASSUME NEW t \in timers \ Swept(c) PROVE t.id \in held'
      <4>1. \A w \in Swept(c) : w.id # t.id
        BY <1>2 DEF IdsOK, Swept
      <4>2. QED
        BY <1>1, <1>2, <4>1 DEF HeldOK
    <3>2. QED
      BY <1>4, <1>5, <3>1
  <2>2. \A q \in Places : At(q).id \in held'
    <3>1. \A q \in Places, w \in Swept(c) : w.id # At(q).id
      BY <1>2 DEF IdsOK, Swept
    <3>2. QED
      BY <1>1, <1>2, <3>1 DEF HeldOK
  <2>3. ASSUME NEW i \in held', i \notin cleared', \A q \in Places : At(q).id # i
        PROVE  \E u \in timers' : u.id = i
    <3>1. PICK t \in timers : t.id = i
      BY <1>1, <1>2, <2>3 DEF HeldOK
    <3>2. t \notin Swept(c)
      BY <1>1, <2>3, <3>1
    <3>3. D(t) \in timers' /\ D(t).id = i
      BY <1>1, <1>4, <3>1, <3>2
    <3>4. QED
      BY <3>3
  <2>4. QED
    BY <1>3, <2>1, <2>2, <2>3 DEF HeldOK, SamePlaces
<1>10. SweptOK'
  <2>1. \A u \in timers' : Missed(u)'
    BY <1>1, <1>2, <1>4, <1>5 DEF SweptOK, Missed
  <2>2. \A q \in Places : At(q).owner \notin live' \union {0} =>
                            At(q).id \in late' \/ At(q).owner \in forgotten'
    BY <1>1, <1>2, <1>6 DEF SweptOK, Missed
  <2>3. QED
    BY <1>3, <2>1, <2>2 DEF SweptOK, Missed, SamePlaces
<1>11. QED
  BY <1>3, <1>7, <1>8, <1>9, <1>10 DEF IInv

(* Nothing is swept for a client that Telnet.stop() has forgotten.         *)
LEMMA DisconnectKeeps ==
  ASSUME IInv, NEW c \in Clients, Disconnect(c)
  PROVE  IInv'
<1>1. CASE c \in known
  BY <1>1, SweepKeeps
<1>2. CASE c \notin known
  <2>1. /\ c \in forgotten /\ live' = live \ {c}
        /\ UNCHANGED <<timers, held, late, idCounter, stack, activeOut, owner, forgotten, clock,
                       cleared, ended>>
    BY <1>2 DEF Disconnect, known
  <2>2. TypeOK /\ Shapes /\ IdsOK /\ HeldOK /\ SweptOK
    BY DEF IInv
  <2>3. stack' \in Seq(Activation) /\ Shapes' /\ SamePlaces
    BY <2>1, <2>2, StayKeeps
  <2>4. TypeOK'
    BY <2>1, <2>2 DEF TypeOK
  <2>5. IdsOK' /\ HeldOK'
    BY <2>1, <2>2, <2>3 DEF IdsOK, HeldOK, SamePlaces
  <2>6. SweptOK'
    BY <2>1, <2>2, <2>3 DEF SweptOK, Missed, SamePlaces
  <2>7. QED
    BY <2>3, <2>4, <2>5, <2>6 DEF IInv
<1>3. QED
  BY <1>1, <1>2

(* Commands, jobs, Telnet.stop() and the clock.                            *)
LEMMA QuietStep ==
  ASSUME IInv, stack' \in Seq(Activation), Shapes', SamePlaces,
         UNCHANGED <<timers, idCounter, held, cleared, live, late, ended>>,
         forgotten \subseteq forgotten', forgotten' \subseteq Clients,
         activeOut' \in Clients \union {Serial}, owner' \in Clients \union {0},
         clock' \in StartClock..MaxClock
  PROVE  IInv'
<1>1. TypeOK'
  BY DEF IInv, TypeOK
<1>2. QED
  BY <1>1, QuietKeeps DEF IInv

LEMMA CommandKeeps ==
  ASSUME IInv, \/ \E c \in Clients \union {Serial} : StartCommand(c)
               \/ Stop \/ StartJob \/ EndCommand \/ EndJob \/ EndRound \/ Advance
  PROVE  IInv' /\ SamePlaces /\ timers' = timers
<1>1. TypeOK /\ Shapes
  BY DEF IInv
<1>2. ASSUME NEW kind \in {Command, Job}, NEW c \in Clients \union {Serial},
             stack' = Activated(kind, c, <<>>)
      PROVE  stack' \in Seq(Activation) /\ Shapes' /\ SamePlaces
  <2> DEFINE a == [kind |-> kind, client |-> c, now |-> clock, todo |-> <<>>, prev |-> activeOut,
                   running |-> FALSE]
  <2>1. a \in Activation
    BY <1>1, EmptySeq, NewActivation
  <2>2. a.todo = <<>> /\ ~a.running /\ stack' = Append(stack, a)
    BY <1>2 DEF Activated
  <2> HIDE DEF a
  <2>3. QED
    BY <1>1, <2>1, <2>2, PushKeeps
<1>3. ASSUME stack # <<>>, Top.kind \in {Command, Job} \/ Top.todo = <<>>, stack' = Front(stack)
      PROVE  stack' \in Seq(Activation) /\ Shapes' /\ SamePlaces
  <2>1. Top.todo = <<>>
    BY <1>1, <1>3, TopType DEF Shapes, Command, Job, Round
  <2>2. QED
    BY <1>1, <1>3, <2>1, PopKeeps
<1>4. ASSUME NEW c \in Clients \union {Serial}, StartCommand(c)
      PROVE  IInv' /\ SamePlaces /\ timers' = timers
  <2>1. stack' \in Seq(Activation) /\ Shapes' /\ SamePlaces
    BY <1>2, <1>4 DEF StartCommand
  <2>2. QED
    BY <1>1, <1>4, <2>1, QuietStep DEF StartCommand, TypeOK, Serial
<1>5. CASE StartJob
  <2>1. stack' \in Seq(Activation) /\ Shapes' /\ SamePlaces
    BY <1>2, <1>5 DEF StartJob
  <2>2. QED
    BY <1>1, <1>5, <2>1, QuietStep DEF StartJob, TypeOK
<1>6. CASE EndCommand
  <2>1. stack' \in Seq(Activation) /\ Shapes' /\ SamePlaces
    BY <1>3, <1>6 DEF EndCommand
  <2>2. QED
    BY <1>1, <1>6, <2>1, QuietStep DEF EndCommand, TypeOK
<1>7. CASE EndJob
  <2>1. stack' \in Seq(Activation) /\ Shapes' /\ SamePlaces
    BY <1>3, <1>7 DEF EndJob
  <2>2. QED
    BY <1>1, <1>7, <2>1, QuietStep DEF EndJob, TypeOK
<1>8. CASE EndRound
  <2>1. stack' \in Seq(Activation) /\ Shapes' /\ SamePlaces
    BY <1>3, <1>8 DEF EndRound
  <2>2. QED
    BY <1>1, <1>8, <2>1, QuietStep DEF EndRound, TypeOK
<1>9. CASE Advance
  <2>1. stack' \in Seq(Activation) /\ Shapes' /\ SamePlaces
    BY <1>1, <1>9, StayKeeps DEF Advance
  <2>2. clock' \in StartClock..MaxClock
    BY <1>1, <1>9, Constants DEF Advance, TypeOK
  <2>3. QED
    BY <1>1, <1>9, <2>1, <2>2, QuietStep DEF Advance, TypeOK
<1>10. CASE Stop
  <2>1. stack' \in Seq(Activation) /\ Shapes' /\ SamePlaces
    BY <1>1, <1>10, StayKeeps DEF Stop
  <2>2. QED
    BY <1>1, <1>10, <2>1, QuietStep DEF Stop, TypeOK
<1>11. QED
  BY <1>4, <1>5, <1>6, <1>7, <1>8, <1>9, <1>10

LEMMA StartCallbackKeeps ==
  ASSUME IInv, StartCallback
  PROVE  IInv' /\ SamePlaces /\ timers' = timers
<1>1. TypeOK /\ Shapes
  BY DEF IInv
<1> DEFINE a == [Top EXCEPT !.running = TRUE, !.prev = activeOut]
<1>2. /\ stack # <<>> /\ Top.kind = Round /\ Top.todo # <<>>
      /\ stack' = SetTop(a) /\ activeOut' = Head(Top.todo).out
      /\ UNCHANGED <<timers, idCounter, owner, live, forgotten, clock, held, cleared, late, ended>>
  BY DEF StartCallback
<1>3. Top \in Activation
  BY <1>1, <1>2, TopType
<1>4. a \in Activation /\ a.todo = Top.todo /\ a.kind = Top.kind
  BY <1>1, <1>3 DEF Activation, TypeOK
<1> HIDE DEF a
<1>5. stack' \in Seq(Activation) /\ Shapes' /\ SamePlaces
  BY <1>1, <1>2, <1>4, RetopKeeps
<1>6. activeOut' \in Clients \union {Serial}
  <2>1. Top.todo \in Seq(Timer)
    BY <1>3 DEF Activation
  <2>2. Head(Top.todo) \in Timer
    BY <1>2, <2>1, HeadTailProperties
  <2>3. QED
    BY <1>2, <2>2, TimerFields
<1>7. QED
  BY <1>1, <1>2, <1>5, <1>6, QuietStep DEF TypeOK

(* The batch of a round takes from the armed timers those that are due.    *)
LEMMA StartRoundKeeps ==
  ASSUME IInv, StartRound
  PROVE  /\ IInv'
         /\ \A t \in timers : t \in timers' \/ t \in Batched'
         /\ \A q \in Places : q \in Places' /\ At(q)' = At(q)
         /\ OldIds
<1>1. TypeOK /\ Shapes /\ IdsOK /\ HeldOK /\ SweptOK
  BY DEF IInv
<1>2. PICK s \in Batches(clock) : stack' = Activated(Round, Serial, s)
  BY DEF StartRound
<1>3. /\ timers' = timers \ Due(clock)
      /\ UNCHANGED <<idCounter, activeOut, owner, live, forgotten, clock, held, cleared, late, ended>>
      /\ Due(clock) \subseteq timers /\ Due(clock) # {}
  BY DEF StartRound, Due
<1>4. /\ s \in Seq(Timer) /\ Len(s) \in Nat
      /\ \A k \in 1..Len(s) : s[k] \in Due(clock)
      /\ \A t \in Due(clock) : \E k \in 1..Len(s) : s[k] = t
      /\ \A k, l \in 1..Len(s) : s[k] = s[l] => k = l
  BY <1>1, BatchIs DEF IdsOK
<1> DEFINE a == [kind |-> Round, client |-> Serial, now |-> clock, todo |-> s, prev |-> activeOut,
                 running |-> FALSE]
<1>5. PICK n \in Nat : n = Len(stack) + 1
  BY <1>1, LenProperties DEF TypeOK
<1>6. a \in Activation /\ a.todo = s /\ a.kind = Round /\ ~a.running /\ stack' = Append(stack, a)
  <2>1. a \in Activation
    BY <1>1, <1>4, NewActivation
  <2>2. QED
    BY <1>2, <2>1 DEF Activated
<1> HIDE DEF a
<1>7. /\ stack' \in Seq(Activation) /\ Len(stack') = n /\ Len(stack) \in Nat
      /\ \A i \in 1..Len(stack) : stack'[i] = stack[i]
      /\ stack'[n] = a
  BY <1>1, <1>6, <1>5, PushedType DEF TypeOK
<1>8. TypeOK'
  BY <1>1, <1>3, <1>7 DEF TypeOK
<1>9. Shapes'
  BY <1>1, <1>6, <1>7 DEF Shapes
<1>10. ASSUME NEW q \in Places
      PROVE  q \in Places' /\ At(q)' = At(q)
  <2>1. q[1] \in 1..Len(stack) /\ q[2] \in 1..Len(stack[q[1]].todo) /\ q = <<q[1], q[2]>>
    BY <1>1, PlacesType
  <2>2. q[1] \in 1..Len(stack') /\ stack'[q[1]] = stack[q[1]]
    BY <1>7, <1>5, <2>1
  <2>3. QED
    BY <1>7, <2>1, <2>2 DEF Places, At
<1>11. ASSUME NEW k \in 1..Len(s)
       PROVE  <<n, k>> \in Places' /\ At(<<n, k>>)' = s[k]
  <2>1. n \in 1..Len(stack') /\ stack'[n].todo = s
    BY <1>6, <1>7, <1>5
  <2>2. <<n, k>> \in {<<n, l>> : l \in 1..Len(stack'[n].todo)}
    BY <2>1
  <2>3. <<n, k>> \in Places'
    BY <2>1, <2>2 DEF Places
  <2>4. At(<<n, k>>)' = s[k]
    BY <2>1 DEF At
  <2>5. QED
    BY <2>3, <2>4
<1>12. ASSUME NEW q \in Places'
       PROVE  q \in Places \/ \E k \in 1..Len(s) : q = <<n, k>>
  <2>1. PICK i \in 1..Len(stack') : \E k \in 1..Len(stack'[i].todo) : q = <<i, k>>
    BY DEF Places
  <2>2. CASE i = n
    BY <1>6, <1>7, <2>1, <2>2
  <2>3. CASE i # n
    BY <1>7, <1>5, <2>1, <2>3 DEF Places
  <2>4. QED
    BY <2>2, <2>3
<1>13. \A q \in Places' : \/ q \in Places /\ At(q)' = At(q)
                          \/ \E k \in 1..Len(s) : q = <<n, k>> /\ At(q)' = s[k] /\ s[k] \in Due(clock)
  <2>1. ASSUME NEW q \in Places', q \notin Places
        PROVE  \E k \in 1..Len(s) : q = <<n, k>> /\ At(q)' = s[k] /\ s[k] \in Due(clock)
    <3>1. PICK k \in 1..Len(s) : q = <<n, k>>
      BY <1>12, <2>1
    <3>2. At(q)' = At(<<n, k>>)'
      BY <3>1 DEF At
    <3>3. At(q)' = s[k]
      BY <1>11, <3>2
    <3>4. QED
      BY <1>4, <3>1, <3>3
  <2>2. QED
    BY <1>10, <2>1
<1>14. IdsOK'
  <2>1. \A t \in timers' : t.id <= idCounter'
    BY <1>1, <1>3 DEF IdsOK
  <2>2. \A q \in Places' : At(q)'.id <= idCounter'
    BY <1>1, <1>3, <1>13 DEF IdsOK
  <2>3. \A t, u \in timers' : t.id = u.id => t = u
    BY <1>1, <1>3 DEF IdsOK
  <2>4. \A q \in Places', t \in timers' : t.id # At(q)'.id
    BY <1>1, <1>3, <1>13 DEF IdsOK
  <2>5. ASSUME NEW q \in Places', NEW r \in Places', At(q)'.id = At(r)'.id
        PROVE  q = r
    <3>1. CASE q \in Places /\ r \in Places /\ At(q)' = At(q) /\ At(r)' = At(r)
      BY <1>1, <2>5, <3>1 DEF IdsOK
    <3>2. ASSUME NEW k \in 1..Len(s), NEW l \in 1..Len(s), q = <<n, k>>, r = <<n, l>>,
                 At(q)' = s[k], At(r)' = s[l], s[k] \in Due(clock), s[l] \in Due(clock)
          PROVE  q = r
      <4>1. s[k] = s[l]
        BY <1>1, <1>3, <2>5, <3>2 DEF IdsOK
      <4>2. QED
        BY <1>4, <3>2, <4>1
    <3>3. ASSUME NEW k \in 1..Len(s), s[k] \in Due(clock),
                 \/ q \in Places /\ At(q)' = At(q) /\ At(r)' = s[k]
                 \/ r \in Places /\ At(r)' = At(r) /\ At(q)' = s[k]
          PROVE  FALSE
      BY <1>1, <1>3, <2>5, <3>3 DEF IdsOK
    <3>4. QED
      BY <1>13, <3>1, <3>2, <3>3
  <2>6. QED
    BY <2>1, <2>2, <2>3, <2>4, <2>5 DEF IdsOK
<1>15. \A t \in timers : t \in timers' \/ \E q \in Places' : At(q)' = t
  <2>1. ASSUME NEW t \in Due(clock) PROVE \E q \in Places' : At(q)' = t
    <3>1. PICK k \in 1..Len(s) : s[k] = t
      BY <1>4
    <3>2. <<n, k>> \in Places' /\ At(<<n, k>>)' = t
      BY <1>11, <3>1
    <3>3. QED
      BY <3>2
  <2>2. QED
    BY <1>3, <2>1
<1>16. HeldOK'
  <2>1. \A t \in timers' : t.id \in held'
    BY <1>1, <1>3 DEF HeldOK
  <2>2. \A q \in Places' : At(q)'.id \in held'
    BY <1>1, <1>3, <1>13 DEF HeldOK
  <2>3. \A i \in held' : i \in cleared' \/ (\E t \in timers' : t.id = i)
                          \/ (\E q \in Places' : At(q)'.id = i)
    BY <1>1, <1>3, <1>10, <1>15 DEF HeldOK
  <2>4. QED
    BY <2>1, <2>2, <2>3 DEF HeldOK
<1>17. SweptOK'
  <2>1. \A t \in timers' : Missed(t)'
    BY <1>1, <1>3 DEF SweptOK, Missed
  <2>2. \A q \in Places' : At(q)'.owner \notin live' \union {0} =>
                             At(q)'.id \in late' \/ At(q)'.owner \in forgotten'
    BY <1>1, <1>3, <1>13 DEF SweptOK, Missed
  <2>3. QED
    BY <2>1, <2>2 DEF SweptOK, Missed
<1>18. IInv'
  BY <1>8, <1>9, <1>14, <1>16, <1>17 DEF IInv
<1>19. \A q \in Places' : At(q)' \in Batched'
  BY <1>8, BatchedNext
<1>20. OldIds
  BY <1>3, <1>13 DEF OldIds, Named
<1>21. QED
  BY <1>10, <1>15, <1>18, <1>19, <1>20

(* The callback of the first timer of the batch has returned.              *)
LEMMA EndCallbackKeeps ==
  ASSUME IInv, EndCallback
  PROVE  /\ IInv'
         /\ timers \subseteq timers'
         /\ \A q \in Places :
              \/ \E r \in Places' : At(r)' = At(q)
              \/ At(q).interval < 0
              \/ \E u \in timers' : u.id = At(q).id
         /\ OldIds
<1>1. TypeOK /\ Shapes /\ IdsOK /\ HeldOK /\ SweptOK
  BY DEF IInv
<1>2. PICK t : /\ t = Head(Top.todo)
               /\ stack' = SetTop([Top EXCEPT !.running = FALSE, !.todo = Tail(@)])
               /\ timers' = timers \union Rearm(t, Top.now)
               /\ held' = IF t.interval >= 0 THEN held ELSE held \ {t.id}
  BY DEF EndCallback
<1>3. /\ stack # <<>> /\ Top.running /\ activeOut' = Top.prev
      /\ UNCHANGED <<idCounter, owner, live, forgotten, clock, cleared, late, ended>>
  BY DEF EndCallback
<1>4. PICK n \in 1..Len(stack) : n = Len(stack)
  BY <1>1, <1>3, TopType
<1>5. /\ Top \in Activation /\ Top = stack[n] /\ Top.todo \in Seq(Timer) /\ Top.todo # <<>>
      /\ Top.now \in Nat /\ Top.prev \in Clients \union {Serial} /\ Top.kind = Round
  <2>1. Top \in Activation /\ Top = stack[n]
    BY <1>1, <1>3, <1>4, TopType
  <2>2. QED
    BY <1>1, <1>3, <2>1 DEF Activation, Shapes
<1> DEFINE a == [Top EXCEPT !.running = FALSE, !.todo = Tail(@)]
<1>6. /\ t \in Timer /\ t = stack[n].todo[1]
      /\ Tail(Top.todo) \in Seq(Timer) /\ Len(Top.todo) \in Nat \ {0}
      /\ Len(Tail(Top.todo)) = Len(Top.todo) - 1
      /\ \A k \in 1..Len(Top.todo) - 1 : Tail(Top.todo)[k] = Top.todo[k + 1]
  BY <1>2, <1>5, HeadTailProperties, EmptySeq, LenProperties, ElementOfSeq
<1>7. a \in Activation /\ a.todo = Tail(Top.todo) /\ a.kind = Round /\ ~a.running
  BY <1>5, <1>6 DEF Activation
<1>8. stack' = SetTop(a)
  BY <1>2
<1> HIDE DEF a
<1>9. /\ stack' \in Seq(Activation) /\ Len(stack') = Len(stack) /\ Len(stack) \in Nat
      /\ \A i \in 1..Len(stack) : i # n => stack'[i] = stack[i]
      /\ stack'[n] = a
  BY <1>1, <1>3, <1>4, <1>7, <1>8, SetTopType, LenProperties DEF TypeOK
<1>10. /\ Len(stack[n].todo) \in Nat \ {0} /\ Len(stack'[n].todo) = Len(stack[n].todo) - 1
      /\ \A k \in 1..Len(stack[n].todo) - 1 : stack'[n].todo[k] = stack[n].todo[k + 1]
  BY <1>5, <1>6, <1>7, <1>9
<1>11. TypeOK'
  <2>1. timers' \subseteq Timer
    BY <1>1, <1>2, <1>5, <1>6, RearmType DEF TypeOK
  <2>2. held' \subseteq 1..MaxId
    BY <1>1, <1>2 DEF TypeOK
  <2>3. QED
    BY <1>1, <1>3, <1>5, <1>9, <2>1, <2>2 DEF TypeOK
<1>12. Shapes'
  BY <1>1, <1>7, <1>9 DEF Shapes
(* A place holds the timer that was there, or behind it, before.           *)
<1>13. ASSUME NEW q \in Places'
       PROVE  \E r \in Places : /\ At(r) = At(q)' /\ r # <<n, 1>>
                                /\ r = IF q[1] = n THEN <<n, q[2] + 1>> ELSE q
  <2>1. PICK i \in 1..Len(stack') : \E k \in 1..Len(stack'[i].todo) : q = <<i, k>>
    BY DEF Places
  <2>2. PICK k \in 1..Len(stack'[i].todo) : q = <<i, k>>
    BY <2>1
  <2>3. At(q)' = stack'[i].todo[k]
    BY <2>2 DEF At
  <2>4. CASE i = n
    <3>1. k + 1 \in 1..Len(stack[n].todo) /\ k # 0 /\ At(q)' = stack[n].todo[k + 1]
      BY <1>10, <2>3, <2>4
    <3>2. <<n, k + 1>> \in {<<n, l>> : l \in 1..Len(stack[n].todo)}
      BY <3>1
    <3>3. <<n, k + 1>> \in Places /\ At(<<n, k + 1>>) = At(q)'
      BY <3>1, <3>2 DEF Places, At
    <3>4. k + 1 # 1
      BY <3>1, <1>6, <1>7, <1>9, <2>4
    <3>5. QED
      BY <2>2, <2>4, <3>3, <3>4
  <2>5. CASE i # n
    <3>1. stack'[i] = stack[i] /\ i \in 1..Len(stack)
      BY <1>9, <2>5
    <3>2. q \in Places /\ At(q) = At(q)'
      BY <2>2, <2>3, <3>1 DEF Places, At
    <3>3. QED
      BY <2>2, <2>5, <3>2
  <2>6. QED
    BY <2>4, <2>5
<1>14. ASSUME NEW r \in Places, r # <<n, 1>>
       PROVE  \E q \in Places' : At(q)' = At(r)
  <2>1. r[1] \in 1..Len(stack) /\ r[2] \in 1..Len(stack[r[1]].todo) /\ r = <<r[1], r[2]>>
    BY <1>1, PlacesType
  <2>2. CASE r[1] = n
    <3>1. PICK k \in 1..Len(stack'[n].todo) : r[2] = k + 1
      <4>1. r[2] \in 1..Len(stack[n].todo) /\ r[2] # 1
        BY <1>14, <2>1, <2>2
      <4>2. r[2] - 1 \in 1..Len(stack'[n].todo) /\ r[2] = (r[2] - 1) + 1
        BY <1>10, <4>1
      <4>3. QED
        BY <4>2
    <3>2. <<n, k>> \in {<<n, l>> : l \in 1..Len(stack'[n].todo)}
      OBVIOUS
    <3>3. <<n, k>> \in Places'
      BY <1>4, <1>9, <3>2 DEF Places
    <3>4. stack'[n].todo[k] = stack[n].todo[k + 1]
      BY <1>10
    <3>5. At(<<n, k>>)' = At(r)
      BY <2>2, <3>1, <3>4 DEF At
    <3>6. QED
      BY <3>3, <3>5
  <2>3. CASE r[1] # n
    <3>1. stack'[r[1]] = stack[r[1]]
      BY <1>9, <2>1, <2>3
    <3>2. r \in Places' /\ At(r)' = At(r)
      BY <1>9, <2>1, <3>1 DEF Places, At
    <3>3. QED
      BY <3>2
  <2>4. QED
    BY <2>2, <2>3
<1>15. <<n, 1>> \in Places /\ At(<<n, 1>>) = t
  <2>1. <<n, 1>> \in {<<n, l>> : l \in 1..Len(stack[n].todo)}
    BY <1>5, <1>6
  <2>2. QED
    BY <1>6, <2>1 DEF Places, At
(* What is armed again has the id and the owner of the timer that ran.     *)
<1>16. /\ \A u \in Rearm(t, Top.now) : u.id = t.id /\ u.owner = t.owner
       /\ \A u, v \in Rearm(t, Top.now) : u = v
       /\ t.interval >= 0 => \E u \in Rearm(t, Top.now) : u.id = t.id
       /\ t.interval \in Int
       /\ ~(t.interval >= 0) => Rearm(t, Top.now) = {}
  <2>1. t.interval \in Int
    BY <1>6, TimerFields
  <2>2. [t EXCEPT !.timeout = (Top.now + t.interval) % Wrap, !.due = Top.now + t.interval].id = t.id
    BY <1>6 DEF Timer
  <2>3. [t EXCEPT !.timeout = (Top.now + t.interval) % Wrap, !.due = Top.now + t.interval].owner = t.owner
    BY <1>6 DEF Timer
  <2>4. QED
    BY <2>1, <2>2, <2>3 DEF Rearm
<1>17. /\ \A u \in timers : u.id # t.id
       /\ \A r \in Places : r # <<n, 1>> => At(r).id # t.id
       /\ t.id <= idCounter /\ t.id \in held
       /\ Missed(t)
  BY <1>1, <1>15 DEF IdsOK, HeldOK, SweptOK
<1>18. IdsOK'
  <2>1. \A u \in timers' : u.id <= idCounter'
    BY <1>1, <1>2, <1>3, <1>16, <1>17 DEF IdsOK
  <2>2. \A q \in Places' : At(q)'.id <= idCounter'
    BY <1>1, <1>3, <1>13 DEF IdsOK
  <2>3. \A u, v \in timers' : u.id = v.id => u = v
    BY <1>1, <1>2, <1>16, <1>17 DEF IdsOK
  <2>4. \A q \in Places', u \in timers' : u.id # At(q)'.id
    BY <1>1, <1>2, <1>13, <1>16, <1>17 DEF IdsOK
  <2>5. ASSUME NEW q \in Places', NEW p \in Places', At(q)'.id = At(p)'.id
        PROVE  q = p
    <3>1. /\ q[1] \in Nat /\ q[2] \in Nat /\ q = <<q[1], q[2]>>
          /\ p[1] \in Nat /\ p[2] \in Nat /\ p = <<p[1], p[2]>>
      BY <1>11, PlacesTypeNext
    <3>2. (IF q[1] = n THEN <<n, q[2] + 1>> ELSE q) = (IF p[1] = n THEN <<n, p[2] + 1>> ELSE p)
      BY <1>1, <1>13, <2>5 DEF IdsOK
    <3>3. CASE q[1] = n /\ p[1] = n
      <4>1. q[2] + 1 = p[2] + 1
        BY <3>2, <3>3
      <4>2. q[2] = p[2]
        BY <3>1, <4>1
      <4>3. QED
        BY <3>1, <3>3, <4>2
    <3>4. CASE q[1] # n \/ p[1] # n
      BY <3>1, <3>2, <3>4
    <3>5. QED
      BY <3>3, <3>4
  <2>6. QED
    BY <2>1, <2>2, <2>3, <2>4, <2>5 DEF IdsOK
<1>19. HeldOK'
  <2>1. \A u \in timers' : u.id \in held'
    BY <1>1, <1>2, <1>16, <1>17 DEF HeldOK
  <2>2. \A q \in Places' : At(q)'.id \in held'
    BY <1>1, <1>2, <1>13, <1>17 DEF HeldOK
  <2>3. ASSUME NEW i \in held', i \notin cleared', \A u \in timers' : u.id # i
        PROVE  \E q \in Places' : At(q)'.id = i
    <3>1. PICK r \in Places : At(r).id = i
      BY <1>1, <1>2, <1>3, <2>3 DEF HeldOK
    <3>2. r # <<n, 1>>
      BY <1>2, <1>15, <1>16, <2>3, <3>1
    <3>3. QED
      BY <1>14, <3>1, <3>2
  <2>4. QED
    BY <2>1, <2>2, <2>3 DEF HeldOK
<1>20. SweptOK'
  <2>1. \A u \in timers' : Missed(u)'
    BY <1>1, <1>2, <1>3, <1>16, <1>17 DEF SweptOK, Missed
  <2>2. \A q \in Places' : At(q)'.owner \notin live' \union {0} =>
                             At(q)'.id \in late' \/ At(q)'.owner \in forgotten'
    BY <1>1, <1>3, <1>13 DEF SweptOK, Missed
  <2>3. QED
    BY <2>1, <2>2 DEF SweptOK, Missed
<1>21. IInv'
  BY <1>11, <1>12, <1>18, <1>19, <1>20 DEF IInv
<1>22. ASSUME NEW q \in Places
       PROVE  \/ \E r \in Places' : At(r)' = At(q)
              \/ At(q).interval < 0
              \/ \E u \in timers' : u.id = At(q).id
  <2>1. CASE q = <<n, 1>>
    BY <1>2, <1>15, <1>16, <2>1
  <2>2. QED
    BY <1>14, <2>1
<1>23. OldIds
  <2>1. \A u \in timers' : Named(u.id)
    BY <1>2, <1>15, <1>16 DEF Named
  <2>2. \A q \in Places' : Named(At(q)'.id)
    BY <1>13 DEF Named
  <2>3. QED
    BY <2>1, <2>2 DEF OldIds
<1>24. QED
  BY <1>2, <1>21, <1>22, <1>23

LEMMA NextIInv == IInv /\ [Next]_vars => IInv'
<1> SUFFICES ASSUME IInv, [Next]_vars PROVE IInv'
  OBVIOUS
<1>1. ASSUME NEW d \in Delays, NEW repeat \in BOOLEAN, NEW nohup \in Nohups,
             Register(d, repeat, nohup)
      PROVE  IInv'
  BY <1>1, RegisterKeeps
<1>2. ASSUME NEW id \in 1..idCounter, Clear(id) PROVE IInv'
  BY <1>2, ClearKeeps
<1>3. CASE \/ \E c \in Clients \union {Serial} : StartCommand(c)
           \/ Stop \/ StartJob \/ EndCommand \/ EndJob \/ EndRound \/ Advance
  BY <1>3, CommandKeeps
<1>4. CASE StartRound
  BY <1>4, StartRoundKeeps
<1>5. CASE StartCallback
  BY <1>5, StartCallbackKeeps
<1>6. CASE EndCallback
  BY <1>6, EndCallbackKeeps
<1>7. CASE End
  BY <1>7, EndKeeps
<1>8. ASSUME NEW c \in Clients, Disconnect(c) PROVE IInv'
  BY <1>8, DisconnectKeeps
<1>9. CASE UNCHANGED vars
  <2>1. stack' \in Seq(Activation) /\ Shapes' /\ SamePlaces
    BY <1>9, StayKeeps DEF IInv, vars
  <2>2. QED
    BY <1>9, <2>1, QuietStep DEF vars, IInv, TypeOK
<1>10. QED
  BY <1>1, <1>2, <1>3, <1>4, <1>5, <1>6, <1>7, <1>8, <1>9 DEF Next, JSReturns

LEMMA Inductive == Spec => []IInv
BY InitIInv, NextIInv, PTL DEF Spec

-----------------------------------------------------------------------------
(* The theorems.                                                           *)

(* JSTimer keeps its types: ids stay within the counter, every entry of    *)
(* the vector and of a batch is a timer some setTimeout registered.        *)
THEOREM TimerTypeCorrect == Spec => []TypeOK
<1>1. IInv => TypeOK
  BY DEF IInv
<1>2. QED
  BY <1>1, Inductive, PTL

(* An id names at most one timer, in the vector and in the batches of the  *)
(* nested ConsumeTimer calls together, however they interleave.            *)
THEOREM IdsAreUnique == Spec => []UniqueIds
<1>1. IInv => UniqueIds
  <2> SUFFICES ASSUME IInv PROVE UniqueIds
    OBVIOUS
  <2>1. stack \in Seq(Activation) /\ DOMAIN stack = 1..Len(stack)
    BY LenProperties DEF IInv, TypeOK
  <2>2. \A i \in DOMAIN stack : DOMAIN stack[i].todo = 1..Len(stack[i].todo)
    BY <2>1, TodoType
  <2>3. \A i \in DOMAIN stack : \A k \in DOMAIN stack[i].todo :
          <<i, k>> \in Places /\ At(<<i, k>>) = stack[i].todo[k]
    BY <2>1, <2>2 DEF Places, At
  <2>4. ASSUME NEW i \in DOMAIN stack, NEW k \in DOMAIN stack[i].todo
        PROVE  /\ \A t \in timers : t.id # stack[i].todo[k].id
               /\ \A j \in DOMAIN stack : \A l \in DOMAIN stack[j].todo :
                    stack[i].todo[k].id = stack[j].todo[l].id => i = j /\ k = l
    <3>1. <<i, k>> \in Places /\ At(<<i, k>>) = stack[i].todo[k]
      BY <2>3
    <3>2. ASSUME NEW j \in DOMAIN stack, NEW l \in DOMAIN stack[j].todo,
                 stack[i].todo[k].id = stack[j].todo[l].id
          PROVE  i = j /\ k = l
      <4>1. <<j, l>> \in Places /\ At(<<j, l>>) = stack[j].todo[l]
        BY <2>3
      <4>2. <<i, k>> = <<j, l>>
        BY <3>1, <3>2, <4>1 DEF IInv, IdsOK
      <4>3. QED
        BY <4>2
    <3>3. \A t \in timers : t.id # stack[i].todo[k].id
      BY <3>1 DEF IInv, IdsOK
    <3>4. QED
      BY <3>2, <3>3
  <2>5. QED
    BY <2>4 DEF UniqueIds, IInv, IdsOK
<1>2. QED
  BY <1>1, Inductive, PTL

(* The function of every armed timer and of every timer of a batch is      *)
(* referenced, and a referenced function is that of such a timer or of one *)
(* that clearTimeout dropped without freeing it.                           *)
THEOREM FunctionsAreHeld == Spec => []FunctionsHeld
<1>1. IInv => FunctionsHeld
  <2> SUFFICES ASSUME IInv PROVE FunctionsHeld
    OBVIOUS
  <2>1. Batched = {At(q) : q \in Places}
    BY BatchedIs DEF IInv
  <2>2. \A t \in All : t.id \in held
    BY <2>1 DEF All, IInv, HeldOK
  <2>3. \A id \in held : id \in cleared \/ \E t \in All : t.id = id
    BY <2>1 DEF All, IInv, HeldOK
  <2>4. QED
    BY <2>2, <2>3 DEF FunctionsHeld
<1>2. QED
  BY <1>1, Inductive, PTL

(* A client that disconnects leaves behind only timers that were in a      *)
(* batch at the time or were registered by its own command afterwards, or  *)
(* all of its timers when Telnet.stop() had dropped it before.             *)
THEOREM OnlyLateAreMissed == Spec => []SweepMisses
<1>1. IInv => SweepMisses
  <2> SUFFICES ASSUME IInv PROVE SweepMisses
    OBVIOUS
  <2>1. Batched = {At(q) : q \in Places}
    BY BatchedIs DEF IInv
  <2>2. QED
    BY <2>1 DEF SweepMisses, All, IInv, SweptOK, Missed
<1>2. QED
  BY <1>1, Inductive, PTL

(* How a step may take a timer away.                                       *)
LEMMA HowTimersLeave ==
  ASSUME IInv, [Next]_vars, NEW t \in All
  PROVE  \/ \E u \in All' : u.id = t.id
         \/ t.id \in cleared'
         \/ ended'
         \/ t \notin timers /\ t.interval < 0
         \/ t \in timers /\ ~t.nohup /\ t.owner \notin live' \union {0}
<1> DEFINE Kept == \E u \in All' : u.id = t.id
<1>1. IInv' /\ TypeOK /\ TypeOK' /\ Shapes
  BY NextIInv DEF IInv
<1>2. Batched = {At(q) : q \in Places} /\ timers \subseteq All /\ timers' \subseteq All'
  BY <1>1, BatchedIs DEF All
<1>3. \A q \in Places' : At(q)' \in All'
  BY <1>1, BatchedNext DEF All
<1>4. t \in timers \/ \E q \in Places : t = At(q)
  BY <1>2 DEF All
<1>5. ASSUME SamePlaces, t \in timers => \E u \in timers' : u.id = t.id
      PROVE  Kept
  <2>1. CASE t \in timers
    BY <1>2, <1>5, <2>1
  <2>2. ASSUME NEW q \in Places, t = At(q) PROVE Kept
    <3>1. At(q)' \in All' /\ At(q)' = t
      BY <1>3, <1>5, <2>2 DEF SamePlaces
    <3>2. QED
      BY <3>1
  <2>3. QED
    BY <1>4, <2>1, <2>2
<1>6. ASSUME stack' = stack PROVE SamePlaces
  BY <1>1, <1>6, StayKeeps
<1> HIDE DEF Kept
<1>7. ASSUME NEW d \in Delays, NEW repeat \in BOOLEAN, NEW nohup \in Nohups,
             Register(d, repeat, nohup)
      PROVE  Kept
  <2>1. timers \subseteq timers' /\ stack' = stack
    BY <1>7 DEF Register
  <2>2. QED
    BY <1>5, <1>6, <2>1
<1>8. ASSUME NEW id \in 1..idCounter, Clear(id)
      PROVE  Kept \/ t.id \in cleared'
  <2>1. timers' = {u \in timers : u.id # id} /\ id \in cleared' /\ stack' = stack
    BY <1>8 DEF Clear
  <2>2. CASE t.id = id
    BY <2>1, <2>2
  <2>3. CASE t.id # id
    BY <1>5, <1>6, <2>1, <2>3
  <2>4. QED
    BY <2>2, <2>3
<1>9. CASE \/ \E c \in Clients \union {Serial} : StartCommand(c)
           \/ Stop \/ StartJob \/ EndCommand \/ EndJob \/ EndRound \/ Advance
  <2>1. SamePlaces /\ timers' = timers
    BY <1>9, CommandKeeps
  <2>2. Kept
    BY <1>5, <2>1
  <2>3. QED
    BY <2>2 DEF Kept
<1>10. CASE StartCallback
  <2>1. SamePlaces /\ timers' = timers
    BY <1>10, StartCallbackKeeps
  <2>2. Kept
    BY <1>5, <2>1
  <2>3. QED
    BY <2>2 DEF Kept
<1>11. CASE StartRound
  <2>1. CASE t \in timers
    <3>1. t \in All'
      BY <1>11, <2>1, StartRoundKeeps DEF All
    <3>2. QED
      BY <3>1
  <2>2. ASSUME NEW q \in Places, t = At(q) PROVE t \in All'
    BY <1>3, <1>11, <2>2, StartRoundKeeps
  <2>3. QED
    BY <1>4, <2>1, <2>2
<1>12. CASE EndCallback
  <2>1. CASE t \in timers
    <3>1. t \in timers'
      BY <1>12, <2>1, EndCallbackKeeps
    <3>2. QED
      BY <1>2, <3>1
  <2>2. ASSUME NEW q \in Places, t = At(q)
        PROVE  (\E u \in All' : u.id = t.id) \/ (t.interval < 0 /\ t \notin timers)
    <3>1. t \notin timers
      BY <2>2 DEF IInv, IdsOK
    <3>2. \/ \E r \in Places' : At(r)' = t
          \/ t.interval < 0
          \/ \E u \in timers' : u.id = t.id
      BY <1>12, <2>2, EndCallbackKeeps
    <3>3. QED
      BY <1>2, <1>3, <3>1, <3>2
  <2>3. QED
    BY <1>4, <2>1, <2>2
<1>13. CASE End
  BY <1>13 DEF End
<1>14. ASSUME NEW c \in Clients, Disconnect(c)
       PROVE  Kept \/ (t \in timers /\ ~t.nohup /\ t.owner \notin live' \union {0})
  <2> DEFINE D(u) == IF u.owner = c THEN [u EXCEPT !.out = Serial, !.owner = 0] ELSE u
  <2>1. CASE c \notin known
    <3>1. timers' = timers /\ stack' = stack
      BY <1>14, <2>1 DEF Disconnect
    <3>2. QED
      BY <1>5, <1>6, <3>1
  <2>2. CASE c \in known
    <3>1. /\ stack' = stack /\ live' = live \ {c} /\ c # 0
          /\ timers' = {D(u) : u \in timers \ Swept(c)}
      BY <1>14, <2>2, TimerAssumption DEF Disconnect
    <3>2. t \in timers => D(t).id = t.id
      BY <1>1 DEF TypeOK, Timer
    <3> HIDE DEF D
    <3>3. CASE t \in Swept(c)
      BY <3>1, <3>3 DEF Swept
    <3>4. CASE t \notin Swept(c)
      <4>1. t \in timers => D(t) \in timers'
        BY <3>1, <3>4
      <4>2. t \in timers => \E u \in timers' : u.id = t.id
        BY <3>2, <4>1
      <4>3. QED
        BY <1>5, <1>6, <3>1, <4>2
    <3>5. QED
      BY <3>3, <3>4
  <2>3. QED
    BY <2>1, <2>2
<1>15. CASE UNCHANGED vars
  <2>1. stack' = stack /\ timers' = timers
    BY <1>15 DEF vars
  <2>2. Kept
    BY <1>5, <1>6, <2>1
  <2>3. QED
    BY <2>2 DEF Kept
<1>16. QED
  BY <1>7, <1>8, <1>9, <1>10, <1>11, <1>12, <1>13, <1>14, <1>15 DEF Next, JSReturns, Kept

(* A timer marked nohup outlives the client that set it: it goes only when *)
(* it has run, is cleared or the engine ends.                              *)
THEOREM NohupStays == Spec => NohupSurvives
<1> DEFINE P == \A t \in timers : t.nohup =>
                  \/ \E u \in All' : u.id = t.id
                  \/ t.id \in cleared'
                  \/ ended'
<1>1. IInv /\ [Next]_vars => P
  BY HowTimersLeave DEF All
<1>2. IInv /\ [Next]_vars => [P]_vars
  BY <1>1
<1>3. QED
  BY <1>2, Inductive, PTL DEF Spec, NohupSurvives

(* A repeating timer is armed or in a batch from its registration until it *)
(* is cleared, its client disconnects or the engine ends.                  *)
THEOREM IntervalsStay == Spec => IntervalKept
<1> DEFINE P == \A t \in All : t.interval >= 0 =>
                  \/ \E u \in All' : u.id = t.id
                  \/ t.id \in cleared'
                  \/ t.owner \notin live' \union {0}
                  \/ ended'
<1>1. IInv /\ [Next]_vars => P
  <2> SUFFICES ASSUME IInv, [Next]_vars, NEW t \in All, t.interval >= 0
               PROVE  \/ \E u \in All' : u.id = t.id
                      \/ t.id \in cleared'
                      \/ t.owner \notin live' \union {0}
                      \/ ended'
    OBVIOUS
  <2>1. t.interval \in Int
    <3>1. TypeOK /\ Batched = {At(q) : q \in Places} /\ \A q \in Places : At(q) \in Timer
      BY BatchedIs, PlacesType DEF IInv
    <3>2. QED
      BY <3>1, TimerFields DEF All, TypeOK
  <2>2. QED
    BY <2>1, HowTimersLeave
<1>2. IInv /\ [Next]_vars => [P]_vars
  BY <1>1
<1>3. QED
  BY <1>2, Inductive, PTL DEF Spec, IntervalKept

(* Only ids that were given out are cleared.                               *)
ClearedOK == cleared \subseteq 1..idCounter

LEMMA NextCleared == IInv /\ ClearedOK /\ [Next]_vars => ClearedOK'
<1> SUFFICES ASSUME IInv, ClearedOK, [Next]_vars PROVE ClearedOK'
  OBVIOUS
<1>1. idCounter \in Nat
  BY Constants DEF IInv, TypeOK
<1>2. ASSUME NEW d \in Delays, NEW repeat \in BOOLEAN, NEW nohup \in Nohups,
             Register(d, repeat, nohup)
      PROVE  ClearedOK'
  BY <1>1, <1>2 DEF Register, FreshId, ClearedOK
<1>3. ASSUME NEW id \in 1..idCounter, Clear(id) PROVE ClearedOK'
  BY <1>3 DEF Clear, ClearedOK
<1>4. ASSUME UNCHANGED <<cleared, idCounter>> PROVE ClearedOK'
  BY <1>4 DEF ClearedOK
<1>5. QED
  BY <1>2, <1>3, <1>4
     DEF Next, Stop, StartCommand, StartJob, StartRound, StartCallback, EndRound, JSReturns, EndCommand,
         EndJob, EndCallback, End, Disconnect, Advance, vars

(* No step but a registration brings an id into the table or the batches.  *)
LEMMA HowIdsCome ==
  ASSUME IInv, [Next]_vars,
         \A d \in Delays, repeat \in BOOLEAN, nohup \in Nohups : ~Register(d, repeat, nohup)
  PROVE  OldIds
<1>1. TypeOK /\ Shapes
  BY DEF IInv
<1>2. ASSUME SamePlaces, \A u \in timers' : \E t \in timers : t.id = u.id
      PROVE  OldIds
  BY <1>2 DEF OldIds, Named, SamePlaces
<1>3. ASSUME stack' = stack PROVE SamePlaces
  BY <1>1, <1>3, StayKeeps
<1>4. ASSUME NEW id \in 1..idCounter, Clear(id) PROVE OldIds
  BY <1>2, <1>3, <1>4 DEF Clear
<1>5. CASE \/ \E c \in Clients \union {Serial} : StartCommand(c)
           \/ Stop \/ StartJob \/ EndCommand \/ EndJob \/ EndRound \/ Advance
  BY <1>2, <1>5, CommandKeeps
<1>6. CASE StartCallback
  BY <1>2, <1>6, StartCallbackKeeps
<1>7. CASE StartRound
  BY <1>7, StartRoundKeeps
<1>8. CASE EndCallback
  BY <1>8, EndCallbackKeeps
<1>9. CASE End
  BY <1>2, <1>3, <1>9 DEF End
<1>10. ASSUME NEW c \in Clients, Disconnect(c) PROVE OldIds
  <2> DEFINE D(u) == IF u.owner = c THEN [u EXCEPT !.out = Serial, !.owner = 0] ELSE u
  <2>1. CASE c \notin known
    BY <1>2, <1>3, <1>10, <2>1 DEF Disconnect
  <2>2. CASE c \in known
    <3>1. stack' = stack /\ timers' = {D(u) : u \in timers \ Swept(c)}
      BY <1>10, <2>2 DEF Disconnect
    <3>2. \A u \in timers : D(u).id = u.id
      BY <1>1 DEF TypeOK, Timer
    <3> HIDE DEF D
    <3>3. \A u \in timers' : \E t \in timers : t.id = u.id
      BY <3>1, <3>2
    <3>4. QED
      BY <1>2, <1>3, <3>1, <3>3
  <2>3. QED
    BY <2>1, <2>2
<1>11. CASE UNCHANGED vars
  BY <1>2, <1>3, <1>11 DEF vars
<1>12. QED
  BY <1>4, <1>5, <1>6, <1>7, <1>8, <1>9, <1>10, <1>11 DEF Next, JSReturns

(* clearTimeout works on an armed timer: unless it was in the local vector *)
(* of a round, it is gone, and never comes back (RemoveTimer, id_counter). *)
THEOREM ClearedIsGone == Spec => ClearStopsArmed
<1> DEFINE Before(id) == IF id \in cleared THEN All ELSE Batched
           P == \A id \in cleared' : (\A t \in Before(id) : t.id # id) => \A t \in All' : t.id # id
<1>1. ASSUME IInv, ClearedOK, [Next]_vars PROVE P
  <2>1. TypeOK /\ IInv' /\ TypeOK'
    BY <1>1, NextIInv DEF IInv
  <2>2. Batched = {At(q) : q \in Places} /\ All = timers \union Batched
    BY <2>1, BatchedIs DEF All
  <2>3. \A t \in All' : t \in timers' \/ \E q \in Places' : t = At(q)'
    <3>1. Batched' = {At(q)' : q \in Places'}
      BY <2>1, BatchedIsNext
    <3>2. QED
      BY <3>1 DEF All
  <2>4. ASSUME NEW id \in cleared', \A t \in Before(id) : t.id # id, NEW t \in All', t.id = id
        PROVE  FALSE
    <3>1. ASSUME NEW d \in Delays, NEW repeat \in BOOLEAN, NEW nohup \in Nohups,
                 Register(d, repeat, nohup)
          PROVE  FALSE
      <4>1. /\ id \in cleared /\ id # FreshId /\ stack' = stack
            /\ \A u \in timers' : u \in timers \/ u.id = FreshId
        BY <1>1, <2>1, <2>4, <3>1, Constants DEF Register, ClearedOK, FreshId, TypeOK
      <4>2. Batched' = Batched
        BY <4>1 DEF Batched
      <4>3. t \in All
        BY <2>4, <4>1, <4>2 DEF All
      <4>4. QED
        BY <2>4, <4>1, <4>3
    <3>2. ASSUME Clear(id), id \notin cleared PROVE FALSE
      <4>1. stack' = stack /\ timers' = {u \in timers : u.id # id}
        BY <3>2 DEF Clear
      <4>2. Batched' = Batched
        BY <4>1 DEF Batched
      <4>3. QED
        BY <2>4, <3>2, <4>1, <4>2 DEF All
    <3>3. ASSUME id \in cleared,
                 \A d \in Delays, repeat \in BOOLEAN, nohup \in Nohups : ~Register(d, repeat, nohup)
          PROVE  FALSE
      <4>1. OldIds
        BY <1>1, <3>3, HowIdsCome
      <4>2. Named(id)
        BY <2>3, <2>4, <4>1 DEF OldIds
      <4>3. \E u \in All : u.id = id
        BY <2>2, <4>2 DEF Named
      <4>4. QED
        BY <2>4, <3>3, <4>3
    <3>4. id \in cleared \/ Clear(id)
      <4>1. ASSUME NEW i \in 1..idCounter, Clear(i), id \notin cleared PROVE i = id
        BY <2>4, <4>1 DEF Clear
      <4>2. ASSUME cleared' = cleared PROVE id \in cleared
        BY <2>4, <4>2
      <4>3. QED
        BY <1>1, <4>1, <4>2
           DEF Next, Register, Stop, StartCommand, StartJob, StartRound, StartCallback, EndRound,
               JSReturns, EndCommand, EndJob, EndCallback, End, Disconnect, Advance, vars
    <3>5. QED
      BY <3>1, <3>2, <3>3, <3>4
  <2>5. QED
    BY <2>4
<1>2. Init => ClearedOK
  BY DEF Init, ClearedOK
<1>3. IInv /\ ClearedOK /\ [Next]_vars => [P]_vars
  BY <1>1
<1>4. QED
  BY <1>2, <1>3, Inductive, NextCleared, PTL DEF Spec, ClearStopsArmed

-----------------------------------------------------------------------------
(* The times.                                                              *)

(* What the int32 arithmetic needs: no delay reaches half of the range of  *)
(* millis(), and the JS task is never later than that.                     *)
Horizon == 2 * MaxStall <= Wrap /\ \A d \in Delays : 2 * d < Wrap

LEMMA DivMod ==
  ASSUME NEW a \in Int, NEW w \in Nat \ {0}
  PROVE  a % w \in 0..w-1 /\ a \div w \in Int /\ a = w * (a \div w) + (a % w)
OBVIOUS

LEMMA Multiple ==
  ASSUME NEW w \in Nat \ {0}, NEW q \in Int
  PROVE  /\ w * q \in Int
         /\ q >= 1 => w * q >= w
         /\ q <= -2 => w * q <= -2 * w
         /\ q = 0 => w * q = 0
         /\ q = -1 => w * q = -w
OBVIOUS

LEMMA Distribute ==
  ASSUME NEW w \in Nat \ {0}, NEW q \in Int, NEW r \in Int
  PROVE  w * (q + r) = w * q + w * r
OBVIOUS

(* A number within half of the range survives the conversion to int32_t,   *)
(* whatever multiple of the range was lost on the way.                     *)
LEMMA SignedIsExact ==
  ASSUME NEW x \in Int, 2 * x < Wrap, -Wrap <= 2 * x, NEW q \in Int, NEW y \in Int,
         y = x + Wrap * q
  PROVE  Signed(y) = x
<1>1. Wrap \in Nat \ {0}
  BY Constants
<1> DEFINE r == y % Wrap
           p == y \div Wrap
           d == q - p
<1>2. r \in 0..Wrap-1 /\ p \in Int /\ y = Wrap * p + r
  BY <1>1, DivMod
<1> HIDE DEF r, p
<1>3. d \in Int /\ q = p + d
  BY <1>2
<1> HIDE DEF d
<1>4. /\ Wrap * p \in Int /\ Wrap * d \in Int
      /\ Wrap * q = Wrap * p + Wrap * d
  BY <1>1, <1>2, <1>3, Multiple, Distribute
<1>5. r = x + Wrap * d
  BY <1>1, <1>2, <1>4
<1>6. d = 0 \/ d = 1
  <2>1. /\ d >= 1 => Wrap * d >= Wrap
        /\ d <= -2 => Wrap * d <= -2 * Wrap
        /\ d = -1 => Wrap * d = -Wrap
    BY <1>1, <1>3, Multiple
  <2>2. ~(d <= -1)
    BY <1>1, <1>2, <1>3, <1>4, <1>5, <2>1
  <2>3. ASSUME d >= 2 PROVE FALSE
    <3>1. Wrap * (d - 1) >= Wrap /\ Wrap * (d - 1) \in Int
      BY <1>1, <1>3, <2>3, Multiple
    <3>2. Wrap * d = Wrap * (d - 1) + Wrap * 1
      BY <1>1, <1>3, Distribute
    <3>3. QED
      BY <1>1, <1>2, <1>4, <1>5, <3>1, <3>2
  <2>4. QED
    BY <1>3, <2>2, <2>3
<1>7. r = x \/ r = x + Wrap
  BY <1>1, <1>5, <1>6
<1>8. Signed(y) = IF 2 * r >= Wrap THEN r - Wrap ELSE r
  BY DEF Signed, r
<1>9. QED
  BY <1>1, <1>2, <1>7, <1>8

(* An armed timer expires at the time asked for, and that time is within   *)
(* half of the range.                                                      *)
ArmedAt(t, c) == t.timeout = t.due % Wrap /\ 2 * (t.due - c) < Wrap /\ c - t.due <= MaxStall

(* A round has the timers that were due when it started, in order.         *)
RoundAt(a, c) ==
  /\ a.now <= c /\ c - a.now <= MaxStall
  /\ \A k \in 1..Len(a.todo) : a.todo[k].due <= a.now + Eps
  /\ \A k, l \in 1..Len(a.todo) : k < l => a.todo[k].due <= a.todo[l].due

TimeInv ==
  /\ \A t \in timers : ArmedAt(t, clock)
  /\ \A i \in 1..Len(stack) : RoundAt(stack[i], clock)

LEMMA LeftIsExact ==
  ASSUME Horizon, NEW t \in Timer, NEW c \in Nat, ArmedAt(t, c)
  PROVE  Left(t, c) = t.due - c
<1>1. t.due \in Nat /\ Wrap \in Nat \ {0} /\ MaxStall \in Nat
  BY TimerFields, Constants, TimerAssumption
<1> DEFINE p == t.due \div Wrap
<1>2. p \in Int /\ t.due % Wrap \in Int /\ t.due = Wrap * p + (t.due % Wrap)
  <2>1. t.due \in Int
    BY <1>1
  <2>2. t.due % Wrap \in 0..Wrap-1 /\ p \in Int /\ t.due = Wrap * p + (t.due % Wrap)
    BY <1>1, <2>1, DivMod
  <2>3. QED
    BY <1>1, <2>2
<1> HIDE DEF p
<1>3. -p \in Int /\ Wrap * p \in Int /\ Wrap * (-p) = -(Wrap * p)
  <2>1. -p \in Int /\ Wrap * p \in Int /\ Wrap * (-p) \in Int
    BY <1>1, <1>2, Multiple
  <2>2. Wrap * (p + -p) = Wrap * p + Wrap * (-p)
    BY <1>1, <1>2, <2>1, Distribute
  <2>3. p + -p = 0 /\ Wrap * 0 = 0
    BY <1>1, <1>2
  <2>4. QED
    BY <2>1, <2>2, <2>3
<1>4. t.timeout = t.due % Wrap
  BY DEF ArmedAt
<1>5. /\ t.due - c \in Int /\ t.timeout - c \in Int
      /\ t.timeout - c = (t.due - c) + Wrap * (-p)
  BY <1>1, <1>2, <1>3, <1>4
<1>6. 2 * (t.due - c) < Wrap /\ -Wrap <= 2 * (t.due - c)
  BY <1>1 DEF ArmedAt, Horizon
<1>7. QED
  BY <1>3, <1>5, <1>6, SignedIsExact DEF Left

LEMMA IntervalIsDelay ==
  ASSUME Horizon, NEW t \in Timer, t.interval >= 0
  PROVE  t.interval \in Nat /\ 2 * t.interval < Wrap
<1>1. Wrap \in Nat \ {0}
  BY Constants
<1>2. ASSUME NEW d \in Delays PROVE Signed(d) = d /\ d \in Nat /\ 2 * d < Wrap
  <2>1. d \in Nat /\ d \in Int /\ 2 * d < Wrap /\ -Wrap <= 2 * d /\ d = d + Wrap * 0 /\ 0 \in Int
    BY <1>1, Constants DEF Horizon
  <2>2. QED
    BY <1>1, <2>1, SignedIsExact
<1>3. t.interval = NoInterval \/ \E d \in Delays : t.interval = Signed(d)
  BY DEF Timer
<1>4. QED
  BY <1>2, <1>3 DEF NoInterval

(* Armed again from the start of the round, not from the present.          *)
LEMMA RearmOnTime ==
  ASSUME Horizon, NEW t \in Timer, NEW now \in Nat, NEW c \in Nat, now <= c,
         c - now <= MaxStall, NEW u \in Rearm(t, now)
  PROVE  ArmedAt(u, c)
<1>1. t.interval >= 0 /\ u = [t EXCEPT !.timeout = (now + t.interval) % Wrap, !.due = now + t.interval]
  BY DEF Rearm
<1>2. t.interval \in Nat /\ 2 * t.interval < Wrap
  BY <1>1, IntervalIsDelay
<1>3. u.timeout = (now + t.interval) % Wrap /\ u.due = now + t.interval
  BY <1>1 DEF Timer
<1>4. MaxStall \in Nat /\ Wrap \in Nat
  BY TimerAssumption
<1>5. QED
  BY <1>2, <1>3, <1>4 DEF ArmedAt

(* A step that changes no time and no batch, and adds no timer.            *)
LEMMA StackOnTime ==
  ASSUME TypeOK, TimeInv, timers' \subseteq timers, clock' = clock,
         Len(stack') \in Nat, Len(stack) \in Nat,
         \A i \in 1..Len(stack') :
            RoundAt(stack'[i], clock) \/ (i \in 1..Len(stack) /\ stack'[i] = stack[i])
  PROVE  TimeInv'
<1>1. \A t \in timers' : ArmedAt(t, clock')
  BY DEF TimeInv
<1>2. \A i \in 1..Len(stack') : RoundAt(stack'[i], clock')
  BY DEF TimeInv
<1>3. QED
  BY <1>1, <1>2 DEF TimeInv

LEMMA RegisterOnTime ==
  ASSUME IInv, Horizon, TimeInv, NEW d \in Delays, NEW repeat \in BOOLEAN, NEW nohup \in Nohups,
         Register(d, repeat, nohup)
  PROVE  TimeInv'
<1> DEFINE t == [id |-> FreshId, timeout |-> (clock + d) % Wrap,
                 interval |-> IF repeat THEN Signed(d) ELSE NoInterval,
                 out |-> activeOut, owner |-> owner, nohup |-> nohup, due |-> clock + d]
<1>1. /\ timers' = timers \union {t}
      /\ t.timeout = (clock + d) % Wrap /\ t.due = clock + d
  BY DEF Register
<1> HIDE DEF t
<1>2. stack' = stack /\ clock' = clock /\ clock \in Nat /\ d \in Nat /\ MaxStall \in Nat
  BY TimerAssumption DEF Register, IInv, TypeOK
<1>3. ArmedAt(t, clock)
  BY <1>1, <1>2 DEF ArmedAt, Horizon
<1>4. \A u \in timers' : ArmedAt(u, clock')
  BY <1>1, <1>2, <1>3 DEF TimeInv
<1>5. \A i \in 1..Len(stack') : RoundAt(stack'[i], clock')
  BY <1>2 DEF TimeInv
<1>6. QED
  BY <1>4, <1>5 DEF TimeInv

(* The AsyncTCP task detaches a timer without touching its time.           *)
LEMMA DisconnectOnTime ==
  ASSUME IInv, TimeInv, NEW c \in Clients, Disconnect(c)
  PROVE  TimeInv'
<1>1. /\ \/ timers' = timers
         \/ timers' = {IF t.owner = c THEN [t EXCEPT !.out = Serial, !.owner = 0] ELSE t :
                         t \in timers \ Swept(c)}
      /\ stack' = stack /\ clock' = clock
  BY DEF Disconnect
<1>2. ASSUME NEW u \in timers' PROVE ArmedAt(u, clock')
  <2>1. PICK t \in timers : u = t \/ u = [t EXCEPT !.out = Serial, !.owner = 0]
    BY <1>1
  <2>2. t \in Timer
    BY DEF IInv, TypeOK
  <2>3. u.timeout = t.timeout /\ u.due = t.due
    BY <2>1, <2>2 DEF Timer
  <2>4. ArmedAt(t, clock)
    BY DEF TimeInv
  <2>5. QED
    BY <1>1, <2>3, <2>4 DEF ArmedAt
<1>3. \A i \in 1..Len(stack') : RoundAt(stack'[i], clock')
  BY <1>1 DEF TimeInv
<1>4. QED
  BY <1>2, <1>3 DEF TimeInv

(* The round takes what is due by the wrapped difference, in the order of  *)
(* the wrapped differences: LeftIsExact makes that the order of the times. *)
LEMMA StartRoundOnTime ==
  ASSUME IInv, Horizon, TimeInv, StartRound
  PROVE  TimeInv'
<1>1. PICK s \in Batches(clock) : stack' = Activated(Round, Serial, s)
  BY DEF StartRound
<1>2. timers' \subseteq timers /\ clock' = clock /\ clock \in Nat /\ MaxStall \in Nat
  BY Constants, TimerAssumption DEF StartRound, IInv, TypeOK
<1>3. TypeOK /\ \A t, u \in timers : t.id = u.id => t = u
  BY DEF IInv, IdsOK
<1>4. s \in Seq(Timer) /\ Len(s) \in Nat /\ DOMAIN s = 1..Len(s)
      /\ \A k \in 1..Len(s) : s[k] \in Due(clock)
  BY <1>3, BatchIs, LenProperties
<1>5. \A k, l \in 1..Len(s) : k < l => Left(s[k], clock) <= Left(s[l], clock)
  BY <1>4 DEF Batches
<1>6. ASSUME NEW k \in 1..Len(s)
      PROVE  /\ s[k].due \in Nat /\ Left(s[k], clock) = s[k].due - clock
             /\ s[k].due <= clock + Eps
  <2>1. s[k] \in timers /\ Left(s[k], clock) <= Eps
    BY <1>4 DEF Due
  <2>2. s[k] \in Timer /\ ArmedAt(s[k], clock)
    BY <1>3, <2>1 DEF TypeOK, TimeInv
  <2>3. Left(s[k], clock) = s[k].due - clock
    BY <1>2, <2>2, LeftIsExact
  <2>4. s[k].due \in Nat
    BY <2>2, TimerFields
  <2>5. QED
    BY <1>2, <2>1, <2>3, <2>4 DEF Eps
<1>7. \A k, l \in 1..Len(s) : k < l => s[k].due <= s[l].due
  BY <1>2, <1>5, <1>6
<1> DEFINE a == [kind |-> Round, client |-> Serial, now |-> clock, todo |-> s,
                 prev |-> activeOut, running |-> FALSE]
<1>8. RoundAt(a, clock)
  BY <1>2, <1>6, <1>7 DEF RoundAt
<1>9. a \in Activation /\ stack' = Append(stack, a)
  BY <1>1, <1>3, <1>4, NewActivation DEF Activated
<1> HIDE DEF a
<1>10. /\ Len(stack') = Len(stack) + 1 /\ Len(stack) \in Nat
       /\ \A i \in 1..Len(stack) : stack'[i] = stack[i]
       /\ stack'[Len(stack) + 1] = a
  BY <1>3, <1>9, PushedType, LenProperties DEF TypeOK
<1>11. \A i \in 1..Len(stack') : i \in 1..Len(stack) \/ i = Len(stack) + 1
  BY <1>10
<1>12. QED
  BY <1>2, <1>3, <1>8, <1>10, <1>11, StackOnTime

LEMMA EndCallbackOnTime ==
  ASSUME IInv, Horizon, TimeInv, EndCallback
  PROVE  TimeInv'
<1>1. TypeOK /\ Shapes /\ clock \in Nat /\ MaxStall \in Nat
  BY Constants, TimerAssumption DEF IInv, TypeOK
<1>2. PICK t : /\ t = Head(Top.todo)
               /\ stack' = SetTop([Top EXCEPT !.running = FALSE, !.todo = Tail(@)])
               /\ timers' = timers \union Rearm(t, Top.now)
  BY DEF EndCallback
<1>3. stack # <<>> /\ Top.running /\ clock' = clock
  BY DEF EndCallback
<1>4. PICK n \in 1..Len(stack) : n = Len(stack)
  BY <1>1, <1>3, TopType
<1>5. /\ Top \in Activation /\ Top = stack[n] /\ Top.todo \in Seq(Timer) /\ Top.todo # <<>>
      /\ Top.now \in Nat
  <2>1. Top \in Activation /\ Top = stack[n]
    BY <1>1, <1>3, <1>4, TopType
  <2>2. QED
    BY <1>1, <1>3, <2>1 DEF Activation, Shapes
<1> DEFINE a == [Top EXCEPT !.running = FALSE, !.todo = Tail(@)]
<1>6. /\ t \in Timer
      /\ Tail(Top.todo) \in Seq(Timer) /\ Len(Top.todo) \in Nat \ {0}
      /\ Len(Tail(Top.todo)) = Len(Top.todo) - 1
      /\ \A k \in 1..Len(Top.todo) - 1 : Tail(Top.todo)[k] = Top.todo[k + 1]
  BY <1>2, <1>5, HeadTailProperties, EmptySeq, LenProperties, ElementOfSeq
<1>7. a \in Activation /\ a.todo = Tail(Top.todo) /\ a.now = Top.now /\ stack' = SetTop(a)
  BY <1>2, <1>5, <1>6 DEF Activation
<1> HIDE DEF a
<1>8. RoundAt(Top, clock)
  BY <1>5 DEF TimeInv
<1>9. RoundAt(a, clock)
  <2>1. /\ \A k \in 1..Len(Top.todo) : Top.todo[k].due <= Top.now + Eps
        /\ \A k, l \in 1..Len(Top.todo) : k < l => Top.todo[k].due <= Top.todo[l].due
    BY <1>8 DEF RoundAt
  <2>2. \A k \in 1..Len(a.todo) : k + 1 \in 1..Len(Top.todo) /\ a.todo[k] = Top.todo[k + 1]
    BY <1>6, <1>7
  <2>3. ASSUME NEW k \in 1..Len(a.todo) PROVE a.todo[k].due <= a.now + Eps
    BY <1>7, <2>1, <2>2
  <2>4. ASSUME NEW k \in 1..Len(a.todo), NEW l \in 1..Len(a.todo), k < l
        PROVE  a.todo[k].due <= a.todo[l].due
    <3>1. k + 1 < l + 1
      BY <2>4
    <3>2. QED
      BY <2>1, <2>2, <3>1
  <2>5. QED
    BY <1>7, <1>8, <2>3, <2>4 DEF RoundAt
<1>10. \A u \in timers' : ArmedAt(u, clock')
  <2>1. \A u \in Rearm(t, Top.now) : ArmedAt(u, clock)
    BY <1>1, <1>5, <1>6, <1>8, RearmOnTime DEF RoundAt
  <2>2. QED
    BY <1>2, <1>3, <2>1 DEF TimeInv
<1>11. /\ Len(stack') = Len(stack)
       /\ \A i \in 1..Len(stack) : stack'[i] = IF i = Len(stack) THEN a ELSE stack[i]
  BY <1>1, <1>3, <1>7, SetTopType
<1>12. \A i \in 1..Len(stack') : RoundAt(stack'[i], clock')
  BY <1>3, <1>9, <1>11 DEF TimeInv
<1>13. QED
  BY <1>10, <1>12 DEF TimeInv

(* The guard of Advance is the bound on how late the JS task gets.         *)
LEMMA AdvanceOnTime ==
  ASSUME IInv, TimeInv, Advance
  PROVE  TimeInv'
<1>1. /\ timers' = timers /\ stack' = stack /\ clock' = clock + 1 /\ clock \in Nat
      /\ MaxStall \in Nat /\ Wrap \in Nat
      /\ stack \in Seq(Activation) /\ DOMAIN stack = 1..Len(stack)
  BY Constants, TimerAssumption, LenProperties DEF Advance, IInv, TypeOK
<1>2. ASSUME NEW t \in timers' PROVE ArmedAt(t, clock')
  <2>1. ArmedAt(t, clock) /\ clock - t.due < MaxStall
    BY <1>1 DEF Advance, TimeInv
  <2>2. t.due \in Nat
    BY <1>1, TimerFields DEF IInv, TypeOK
  <2>3. QED
    BY <1>1, <2>1, <2>2 DEF ArmedAt
<1>3. ASSUME NEW i \in 1..Len(stack') PROVE RoundAt(stack'[i], clock')
  <2>1. RoundAt(stack[i], clock) /\ clock - stack[i].now < MaxStall
    BY <1>1 DEF Advance, TimeInv
  <2>2. stack[i].now \in Nat
    BY <1>1, TodoType DEF Activation
  <2>3. QED
    BY <1>1, <2>1, <2>2 DEF RoundAt
<1>4. QED
  BY <1>2, <1>3 DEF TimeInv

(* Commands and jobs have no batch; the steps that end one drop its place. *)
LEMMA CommandOnTime ==
  ASSUME IInv, TimeInv,
         \/ \E c \in Clients \union {Serial} : StartCommand(c)
         \/ StartJob \/ EndCommand \/ EndJob \/ EndRound
  PROVE  TimeInv'
<1>1. TypeOK /\ clock \in Nat /\ MaxStall \in Nat /\ timers' = timers /\ clock' = clock
  BY Constants, TimerAssumption DEF IInv, TypeOK, StartCommand, StartJob, EndCommand, EndJob, EndRound
<1>2. ASSUME NEW kind \in {Command, Job}, NEW c \in Clients \union {Serial},
             stack' = Activated(kind, c, <<>>)
      PROVE  TimeInv'
  <2> DEFINE a == [kind |-> kind, client |-> c, now |-> clock, todo |-> <<>>,
                   prev |-> activeOut, running |-> FALSE]
  <2>1. RoundAt(a, clock)
    BY <1>1, EmptySeq DEF RoundAt
  <2>2. a \in Activation /\ stack' = Append(stack, a)
    BY <1>1, <1>2, NewActivation, EmptySeq DEF Activated
  <2> HIDE DEF a
  <2>3. /\ Len(stack') = Len(stack) + 1 /\ Len(stack) \in Nat
        /\ \A i \in 1..Len(stack) : stack'[i] = stack[i]
        /\ stack'[Len(stack) + 1] = a
    BY <1>1, <2>2, PushedType, LenProperties DEF TypeOK
  <2>4. \A i \in 1..Len(stack') : i \in 1..Len(stack) \/ i = Len(stack) + 1
    BY <2>3
  <2>5. QED
    BY <1>1, <2>1, <2>3, <2>4, StackOnTime
<1>3. ASSUME stack # <<>>, stack' = Front(stack) PROVE TimeInv'
  <2>1. /\ Len(stack') = Len(stack) - 1 /\ Len(stack) \in Nat \ {0}
        /\ \A i \in 1..Len(stack) - 1 : stack'[i] = stack[i]
    BY <1>1, <1>3, TopType
  <2>2. QED
    BY <1>1, <2>1, StackOnTime
<1>4. CASE \/ \E c \in Clients \union {Serial} : StartCommand(c)
           \/ StartJob
  BY <1>2, <1>4 DEF StartCommand, StartJob
<1>5. CASE EndCommand \/ EndJob \/ EndRound
  BY <1>3, <1>5 DEF EndCommand, EndJob, EndRound
<1>6. QED
  BY <1>4, <1>5

LEMMA StartCallbackOnTime ==
  ASSUME IInv, TimeInv, StartCallback
  PROVE  TimeInv'
<1>1. /\ TypeOK /\ stack # <<>> /\ timers' = timers /\ clock' = clock
      /\ stack' = SetTop([Top EXCEPT !.running = TRUE, !.prev = activeOut])
  BY DEF StartCallback, IInv
<1> DEFINE a == [Top EXCEPT !.running = TRUE, !.prev = activeOut]
<1>2. Top \in Activation /\ Top = stack[Len(stack)] /\ Len(stack) \in Nat \ {0}
  BY <1>1, TopType
<1>3. a \in Activation /\ a.todo = Top.todo /\ a.now = Top.now
  BY <1>1, <1>2 DEF TypeOK, Activation
<1>4. stack' = SetTop(a)
  BY <1>1
<1> HIDE DEF a
<1>5. RoundAt(a, clock)
  BY <1>2, <1>3 DEF TimeInv, RoundAt
<1>6. /\ Len(stack') = Len(stack)
      /\ \A i \in 1..Len(stack) : stack'[i] = IF i = Len(stack) THEN a ELSE stack[i]
  BY <1>1, <1>3, <1>4, SetTopType
<1>7. QED
  BY <1>1, <1>2, <1>5, <1>6, StackOnTime

LEMMA NextTimeInv == Horizon /\ IInv /\ TimeInv /\ [Next]_vars => TimeInv'
<1> SUFFICES ASSUME Horizon, IInv, TimeInv, [Next]_vars PROVE TimeInv'
  OBVIOUS
<1>1. TypeOK /\ Len(stack) \in Nat
  BY LenProperties DEF IInv, TypeOK
<1>2. ASSUME timers' \subseteq timers, clock' = clock, stack' = stack PROVE TimeInv'
  BY <1>1, <1>2, StackOnTime
<1>3. CASE (\E id \in 1..idCounter : Clear(id)) \/ Stop \/ End \/ UNCHANGED vars
  <2>1. timers' \subseteq timers /\ clock' = clock /\ stack' = stack
    BY <1>3 DEF Clear, Stop, End, vars
  <2>2. QED
    BY <1>2, <2>1
<1>4. QED
  BY <1>3, RegisterOnTime, CommandOnTime, StartRoundOnTime, StartCallbackOnTime, EndCallbackOnTime,
     DisconnectOnTime, AdvanceOnTime DEF Next, JSReturns

LEMMA TimesInductive == ASSUME Horizon PROVE Spec => [](IInv /\ TimeInv)
<1>1. Init => TimeInv
  BY EmptySeq DEF Init, TimeInv
<1>2. Horizon /\ IInv /\ TimeInv /\ [Next]_vars => TimeInv'
  BY NextTimeInv
<1>3. IInv /\ TimeInv /\ [Next]_vars => TimeInv'
  BY <1>2
<1>4. QED
  BY <1>1, <1>3, Inductive, PTL DEF Spec

(* No timer is called more than two milliseconds before its time, also     *)
(* when millis() wraps meanwhile, on a clock of any width, as long as no   *)
(* delay and no stall reaches half of the range.                           *)
THEOREM NeverEarly == ASSUME Horizon PROVE Spec => []NotEarly
<1>1. IInv /\ TimeInv => NotEarly
  <2> SUFFICES ASSUME IInv, TimeInv PROVE NotEarly
    OBVIOUS
  <2>1. stack \in Seq(Activation) /\ DOMAIN stack = 1..Len(stack)
    BY LenProperties DEF IInv, TypeOK
  <2>2. \A i \in DOMAIN stack : DOMAIN stack[i].todo = 1..Len(stack[i].todo)
    BY <2>1, TodoType
  <2>3. QED
    BY <2>1, <2>2 DEF NotEarly, TimeInv, RoundAt
<1>2. QED
  BY <1>1, TimesInductive, PTL

(* The callbacks of a round are called in the order of their unwrapped     *)
(* times, though ConsumeTimer sorts by wrapped differences, and stay so    *)
(* while nested rounds run.                                                *)
THEOREM RoundsAreInOrder == ASSUME Horizon PROVE Spec => []InOrder
<1>1. IInv /\ TimeInv => InOrder
  <2> SUFFICES ASSUME IInv, TimeInv PROVE InOrder
    OBVIOUS
  <2>1. stack \in Seq(Activation) /\ DOMAIN stack = 1..Len(stack)
    BY LenProperties DEF IInv, TypeOK
  <2>2. \A i \in DOMAIN stack : DOMAIN stack[i].todo = 1..Len(stack[i].todo)
    BY <2>1, TodoType
  <2>3. QED
    BY <2>1, <2>2 DEF InOrder, TimeInv, RoundAt
<1>2. QED
  BY <1>1, TimesInductive, PTL
=============================================================================
