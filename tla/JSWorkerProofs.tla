--------------------------- MODULE JSWorkerProofs ---------------------------
(***************************************************************************)
(* Theorems about JSWorker, for any entries and any number of modules, and *)
(* about JSI2C, one of those modules, for any number of calls and pins.    *)
(***************************************************************************)
EXTENDS JSWorker, JSI2C, FiniteSetTheorems, SequenceTheorems, WellFoundedInduction, TLAPS

(* Removing the i-th element of a sequence keeps the others in order.      *)
LEMMA RemoveAtProperties ==
  ASSUME NEW S, NEW s \in Seq(S), NEW i \in 1..Len(s)
  PROVE  /\ RemoveAt(s, i) \in Seq(S)
         /\ Len(RemoveAt(s, i)) = Len(s) - 1
         /\ \A k \in 1..Len(s) - 1 : RemoveAt(s, i)[k] = IF k < i THEN s[k] ELSE s[k + 1]
<1>1. /\ SubSeq(s, 1, i - 1) \in Seq(S)
      /\ Len(SubSeq(s, 1, i - 1)) = i - 1
      /\ \A k \in 1..i - 1 : SubSeq(s, 1, i - 1)[k] = s[k]
  <2>1. \A k \in 1..i - 1 : s[k] \in S
    OBVIOUS
  <2>2. QED
    BY <2>1
<1>2. /\ SubSeq(s, i + 1, Len(s)) \in Seq(S)
      /\ Len(SubSeq(s, i + 1, Len(s))) = Len(s) - i
      /\ \A k \in 1..Len(s) - i : SubSeq(s, i + 1, Len(s))[k] = s[k + i]
  OBVIOUS
<1> DEFINE a == SubSeq(s, 1, i - 1)
           b == SubSeq(s, i + 1, Len(s))
<1>3. /\ a \o b \in Seq(S)
      /\ Len(a \o b) = Len(s) - 1
      /\ \A k \in 1..Len(s) - 1 : (a \o b)[k] = IF k < i THEN s[k] ELSE s[k + 1]
  <2> HIDE DEF a, b
  <2>1. /\ a \o b \in Seq(S)
        /\ Len(a \o b) = Len(a) + Len(b)
        /\ \A k \in 1..Len(a) + Len(b) :
             (a \o b)[k] = IF k <= Len(a) THEN a[k] ELSE b[k - Len(a)]
    BY <1>1, <1>2, ConcatProperties DEF a, b
  <2>2. /\ Len(a) = i - 1 /\ Len(b) = Len(s) - i
        /\ \A k \in 1..i - 1 : a[k] = s[k]
        /\ \A k \in 1..Len(s) - i : b[k] = s[k + i]
    BY <1>1, <1>2 DEF a, b
  <2>3. ASSUME NEW k \in 1..Len(s) - 1
        PROVE  (a \o b)[k] = IF k < i THEN s[k] ELSE s[k + 1]
    <3>1. CASE k < i
      BY <2>1, <2>2, <3>1
    <3>2. CASE ~(k < i)
      <4>1. k - (i - 1) \in 1..Len(s) - i /\ (k - (i - 1)) + i = k + 1
        BY <3>2
      <4>2. b[k - (i - 1)] = s[k + 1]
        BY <2>2, <4>1
      <4>3. QED
        BY <2>1, <2>2, <3>2, <4>2
    <3>3. QED
      BY <3>1, <3>2
  <2>4. QED
    BY <2>1, <2>2, <2>3
<1>4. QED
  BY <1>3 DEF RemoveAt

(* The first element of a waiting line leaves it, whichever part holds it. *)
LEMMA HeadOfConcat ==
  ASSUME NEW S, NEW s \in Seq(S), NEW t \in Seq(S), s # <<>>
  PROVE  /\ s \o t # <<>>
         /\ Head(s \o t) = Head(s)
         /\ Tail(s \o t) = Tail(s) \o t
<1>1. /\ Len(s \o t) = Len(s) + Len(t)
      /\ Len(s) \in Nat \ {0}
      /\ s \o t # <<>>
      /\ Head(s \o t) = Head(s)
  OBVIOUS
<1>2. /\ Tail(s \o t) \in Seq(S)
      /\ Tail(s) \o t \in Seq(S)
      /\ Len(Tail(s \o t)) = Len(Tail(s) \o t)
      /\ \A i \in 1..Len(Tail(s \o t)) : Tail(s \o t)[i] = (Tail(s) \o t)[i]
  BY <1>1
<1>3. Tail(s \o t) = Tail(s) \o t
  BY <1>2, SeqEqual
<1>4. QED
  BY <1>1, <1>3

(* A call joins the end of the waiting line. *)
LEMMA AppendToConcat ==
  ASSUME NEW S, NEW s \in Seq(S), NEW t \in Seq(S), NEW x \in S
  PROVE  s \o Append(t, x) = Append(s \o t, x)
<1>1. /\ s \o Append(t, x) \in Seq(S)
      /\ Append(s \o t, x) \in Seq(S)
      /\ Len(s \o Append(t, x)) = Len(Append(s \o t, x))
      /\ \A i \in 1..Len(s \o Append(t, x)) :
           (s \o Append(t, x))[i] = Append(s \o t, x)[i]
  OBVIOUS
<1>2. QED
  BY <1>1, SeqEqual

-----------------------------------------------------------------------------
(* The constructors of JSWorker and the modules leave well-typed state.    *)
LEMMA InitTypeOK == Init => TypeOK
<1> SUFFICES ASSUME Init PROVE TypeOK
  OBVIOUS
<1>1. <<>> \in Seq(Entries)
  BY EmptySeq
<1>2. 1 \in Modules
  BY WorkerAssumption DEF WorkerAssumption, Modules
<1>3. /\ queue \in [Modules -> Seq(Entries)]
      /\ workQueue \in Seq(Entries)
      /\ work \in Seq(Entries)
  BY <1>1 DEF Init
<1>4. /\ item \in [Entries -> {"none", "undone", "done", "freed"}]
      /\ result \in [Entries -> {"unset", "ok", "error"}]
      /\ funcs \in [Entries -> {"none", "live", "freed"}]
      /\ promise \in [Entries -> {"none", "pending", "fulfilled", "rejected"}]
  BY DEF Init
<1>5. /\ pos \in Nat \ {0}
      /\ cur \in Modules
  BY <1>2 DEF Init
<1>6. /\ notify \in BOOLEAN
      /\ worker \in {"take", "swap", "run"}
      /\ js \in {"idle", "give", "scan", "ended"}
      /\ closing \subseteq Entries
      /\ uaf \in {"no", "item", "funcs"}
  BY Zenon DEF Init
<1>7. QED
  BY <1>3, <1>4, <1>5, <1>6, Zenon DEF TypeOK

(* Every step of either task keeps every variable in its type; the scan's  *)
(* position stays positive and its module stays one of the four.           *)
LEMMA NextTypeOK == TypeOK /\ [Next]_vars => TypeOK'
<1> SUFFICES ASSUME TypeOK, [Next]_vars PROVE TypeOK'
  OBVIOUS
<1> USE WorkerAssumption DEF WorkerAssumption, TypeOK, Modules
<1>1. ASSUME NEW e \in Entries, NEW m \in Modules, Submit(e, m) PROVE TypeOK'
  BY <1>1 DEF Submit
<1>2. CASE Give
  BY <1>2 DEF Give
<1>3. CASE StartLoop
  BY <1>3 DEF StartLoop, wvars, evars
<1>4. CASE SkipEntry
  BY <1>4 DEF SkipEntry, wvars, evars
<1>5. CASE SettleEntry
  <2>1. pos \in 1..Len(queue[cur])
    BY <1>5 DEF SettleEntry
  <2>2. RemoveAt(queue[cur], pos) \in Seq(Entries)
    BY <2>1, RemoveAtProperties
  <2>3. queue' \in [Modules -> Seq(Entries)]
    BY <2>2, <1>5 DEF SettleEntry
  <2>4. QED
    BY <2>3, <1>5 DEF SettleEntry, wvars
<1>6. CASE NextModule
  BY <1>6 DEF NextModule, wvars, evars
<1>7. CASE End
  <2>1. queue' \in [Modules -> Seq(Entries)]
    BY <1>7, EmptySeq DEF End
  <2> DEFINE ended == UNION {ToSet(queue[m]) : m \in EndModules}
  <2>2. /\ promise' \in [Entries -> {"none", "pending", "fulfilled", "rejected"}]
        /\ funcs' \in [Entries -> {"none", "live", "freed"}]
        /\ uaf' \in {"no", "item", "funcs"}
    <3>1. CASE \E e \in ended : funcs[e] = "freed"
      BY <1>7, <3>1 DEF End
    <3>2. CASE ~\E e \in ended : funcs[e] = "freed"
      <4>1. /\ promise' = [e \in Entries |-> IF e \in ended THEN "rejected" ELSE promise[e]]
            /\ funcs' = [e \in Entries |-> IF e \in ended THEN "freed" ELSE funcs[e]]
            /\ uaf' = uaf
        BY <1>7, <3>2 DEF End
      <4> HIDE DEF ended
      <4>2. QED
        BY <4>1
    <3>3. QED
      BY <3>1, <3>2
  <2>3. item' \in [Entries -> {"none", "undone", "done", "freed"}]
    <3>1. item' = [e \in Entries |-> IF e \in ended THEN "freed" ELSE item[e]]
      BY <1>7 DEF End
    <3> HIDE DEF ended
    <3>2. QED
      BY <3>1
  <2>4. QED
    BY <2>1, <2>2, <2>3, <1>7 DEF End, wvars
<1>8. CASE Take
  BY <1>8 DEF Take, jvars, evars
<1>9. CASE Swap
  BY <1>9 DEF Swap, jvars, evars
<1>10. ASSUME NEW o \in {"ok", "error"}, Process(o) PROVE TypeOK'
  <2>1. Head(work) \in Entries /\ Tail(work) \in Seq(Entries)
    BY <1>10, HeadTailProperties DEF Process
  <2>2. /\ item' \in [Entries -> {"none", "undone", "done", "freed"}]
        /\ result' \in [Entries -> {"unset", "ok", "error"}]
        /\ uaf' \in {"no", "item", "funcs"}
    <3>1. CASE item[Head(work)] = "freed"
      BY <2>1, <1>10, <3>1 DEF Process
    <3>2. CASE item[Head(work)] # "freed"
      <4>1. /\ item' = [item EXCEPT ![Head(work)] = "done"]
            /\ result' = [result EXCEPT ![Head(work)] = o]
            /\ uaf' = uaf
        BY <1>10, <3>2 DEF Process
      <4>2. QED
        BY <2>1, <4>1
    <3>3. QED
      BY <3>1, <3>2
  <2>3. QED
    BY <2>1, <2>2, <1>10 DEF Process, jvars
<1>11. CASE BatchDone
  BY <1>11 DEF BatchDone, jvars, evars
<1>12. CASE UNCHANGED vars
  BY <1>12 DEF vars, wvars, jvars, evars
<1>13. QED
  BY <1>1, <1>2, <1>3, <1>4, <1>5, <1>6, <1>7, <1>8, <1>9, <1>10, <1>11, <1>12
     DEF Next, JSTaskStep, WorkerStep

(* The state of both tasks always has its type: in particular the scan     *)
(* never leaves the modules, whatever the worker does meanwhile.           *)
THEOREM TypeCorrect == Spec => []TypeOK
  BY InitTypeOK, NextTypeOK, PTL DEF Spec

-----------------------------------------------------------------------------
(* No wake-up of the worker is lost, although give and take of the binary  *)
(* semaphore are not atomic with the push and the swap they announce.      *)
THEOREM WakeupKept == Spec => []NoLostWakeup
<1>1. Init => NoLostWakeup
  BY DEF Init, NoLostWakeup
<1>2. TypeOK /\ NoLostWakeup /\ [Next]_vars => NoLostWakeup'
  <2> SUFFICES ASSUME TypeOK, NoLostWakeup, [Next]_vars PROVE NoLostWakeup'
    OBVIOUS
  <2> USE DEF NoLostWakeup
  <2>1. ASSUME NEW e \in Entries, NEW m \in Modules, Submit(e, m) PROVE NoLostWakeup'
    BY <2>1, Zenon DEF Submit
  <2>2. CASE Give
    BY <2>2, Zenon DEF Give
  <2>3. CASE StartLoop \/ SkipEntry \/ SettleEntry \/ NextModule \/ End
    <3>1. js # "give" /\ UNCHANGED wvars
      BY <2>3, Zenon DEF StartLoop, SkipEntry, SettleEntry, NextModule, End
    <3>2. QED
      BY <3>1, Zenon DEF wvars
  <2>4. CASE Take
    BY <2>4, Zenon DEF Take
  <2>5. CASE Swap
    BY <2>5, Zenon DEF Swap
  <2>6. ASSUME NEW o \in {"ok", "error"}, Process(o) PROVE NoLostWakeup'
    BY <2>6, Zenon DEF Process, jvars
  <2>7. CASE BatchDone
    BY <2>7, Zenon DEF BatchDone, jvars
  <2>8. CASE UNCHANGED vars
    BY <2>8, Zenon DEF vars, wvars, jvars
  <2>9. QED
    BY <2>1, <2>2, <2>3, <2>4, <2>5, <2>6, <2>7, <2>8 DEF Next, JSTaskStep, WorkerStep
<1>3. QED
  BY <1>1, <1>2, TypeCorrect, PTL DEF Spec

-----------------------------------------------------------------------------
(* The waiting line of the worker: what is left of its batch, and behind   *)
(* it the work queue.                                                      *)
Line == work \o workQueue

(* Outside a batch the worker holds no entry. *)
BatchOnlyInRun == worker # "run" => work = <<>>

(* The first part of WorkOnce. *)
Distinct(s) == \A i, j \in 1..Len(s) : s[i] = s[j] => i = j

AllToDo(s, it) == \A i \in 1..Len(s) : it[s[i]] \in {"undone", "freed"}

(* WorkOnce in the two parts the proofs treat apart: the line holds no     *)
(* entry twice, and only entries that are not done.                        *)
LEMMA WorkOnceSplit == WorkOnce <=> Distinct(Line) /\ AllToDo(Line, item)
  BY Zenon DEF WorkOnce, Distinct, AllToDo, Line

(* Submitting an entry that is not in the line keeps the line distinct.    *)
LEMMA DistinctAppend ==
  ASSUME NEW S, NEW s \in Seq(S), NEW x \in S, Distinct(s),
         \A i \in 1..Len(s) : s[i] # x
  PROVE  Distinct(Append(s, x))
  BY AppendProperties DEF Distinct

(* Processing the first entry of the line keeps the line distinct, and     *)
(* the entry is not in what remains.                                       *)
LEMMA DistinctTail ==
  ASSUME NEW S, NEW s \in Seq(S), s # <<>>, Distinct(s)
  PROVE  /\ Distinct(Tail(s))
         /\ \A i \in 1..Len(Tail(s)) : Tail(s)[i] = s[i + 1] /\ Tail(s)[i] # Head(s)
<1>1. /\ Len(s) \in Nat \ {0}
      /\ Len(Tail(s)) = Len(s) - 1
      /\ Head(s) = s[1]
      /\ \A i \in 1..Len(Tail(s)) : Tail(s)[i] = s[i + 1]
  BY HeadTailProperties
<1>2. QED
  BY <1>1 DEF Distinct

-----------------------------------------------------------------------------
OnceInv == TypeOK /\ BatchOnlyInRun /\ WorkOnce

(* The inductive invariant of ProcessedOnce holds before any call.         *)
LEMMA InitOnceInv == Init => OnceInv
<1> SUFFICES ASSUME Init PROVE BatchOnlyInRun /\ Distinct(Line) /\ AllToDo(Line, item)
  BY WorkOnceSplit, InitTypeOK DEF OnceInv
<1>1. Line = <<>>
  BY ConcatEmptySeq, EmptySeq DEF Init, Line
<1>2. QED
  BY <1>1, EmptySeq DEF Init, BatchOnlyInRun, Distinct, AllToDo

(* Every step of either task keeps the inductive invariant: only submit    *)
(* lengthens the line, with a fresh item, and only the worker marks done.  *)
LEMMA NextOnceInv == OnceInv /\ [Next]_vars => OnceInv'
<1> SUFFICES ASSUME OnceInv, [Next]_vars
             PROVE  BatchOnlyInRun' /\ Distinct(Line') /\ AllToDo(Line', item')
  <2>1. WorkOnce' <=> Distinct(Line') /\ AllToDo(Line', item')
    BY Zenon DEF WorkOnce, Distinct, AllToDo, Line
  <2>2. QED
    BY <2>1, NextTypeOK DEF OnceInv
<1>1. /\ Line \in Seq(Entries)
      /\ work \in Seq(Entries)
      /\ workQueue \in Seq(Entries)
      /\ item \in [Entries -> {"none", "undone", "done", "freed"}]
  BY ConcatProperties DEF OnceInv, TypeOK, Line
<1>2. /\ Distinct(Line)
      /\ \A i \in 1..Len(Line) : Line[i] \in Entries /\ item[Line[i]] \in {"undone", "freed"}
  <2>1. Distinct(Line) /\ AllToDo(Line, item)
    BY WorkOnceSplit DEF OnceInv
  <2>2. QED
    BY <2>1, <1>1, ElementOfSeq DEF AllToDo
<1>3. BatchOnlyInRun
  BY DEF OnceInv
(* A step that leaves the line alone may change the item of an entry that  *)
(* is not waiting, and may free any.                                       *)
<1>4. ASSUME UNCHANGED <<work, workQueue, worker>>,
             \A e \in Entries : item[e] \in {"undone", "freed"} => item'[e] \in {item[e], "freed"}
      PROVE  BatchOnlyInRun' /\ Distinct(Line') /\ AllToDo(Line', item')
  <2>1. Line' = Line
    BY <1>4 DEF Line
  <2>2. AllToDo(Line', item')
    BY <1>2, <1>4, <2>1 DEF AllToDo
  <2>3. QED
    BY <2>1, <2>2, <1>2, <1>3, <1>4 DEF BatchOnlyInRun
<1>5. ASSUME NEW e \in Entries, NEW m \in Modules, Submit(e, m)
      PROVE  BatchOnlyInRun' /\ Distinct(Line') /\ AllToDo(Line', item')
  <2>1. /\ item[e] = "none"
        /\ item' = [item EXCEPT ![e] = "undone"]
        /\ Line' = Append(Line, e)
    BY <1>1, <1>5, AppendToConcat DEF Submit, Line
  <2>2. \A i \in 1..Len(Line) : Line[i] # e
    BY <1>2, <2>1
  <2>3. Distinct(Append(Line, e))
    BY <1>1, <1>2, <2>2, DistinctAppend
  <2>4. \A i \in 1..Len(Append(Line, e)) : item'[Append(Line, e)[i]] \in {"undone", "freed"}
    <3>1. /\ Len(Append(Line, e)) = Len(Line) + 1
          /\ \A i \in 1..Len(Line) : Append(Line, e)[i] = Line[i]
          /\ Append(Line, e)[Len(Line) + 1] = e
          /\ Len(Line) \in Nat
      BY <1>1, AppendProperties, LenProperties
    <3>2. item'[e] = "undone" /\ \A i \in 1..Len(Line) : item'[Line[i]] = item[Line[i]]
      BY <1>1, <1>2, <2>1, <2>2
    <3>3. QED
      BY <1>2, <3>1, <3>2
  <2>5. BatchOnlyInRun'
    BY <1>3, <1>5 DEF Submit, BatchOnlyInRun
  <2>6. QED
    BY <2>1, <2>3, <2>4, <2>5 DEF AllToDo
<1>6. CASE Give \/ StartLoop \/ SkipEntry \/ NextModule
  <2>1. UNCHANGED <<work, workQueue, worker, item>>
    BY <1>6, Zenon DEF Give, StartLoop, SkipEntry, NextModule, wvars, evars
  <2>2. QED
    BY <1>4, <2>1
<1>7. CASE SettleEntry
  <2>1. /\ UNCHANGED <<work, workQueue, worker>>
        /\ item[queue[cur][pos]] = "done"
        /\ item' = [item EXCEPT ![queue[cur][pos]] = "freed"]
    BY <1>7 DEF SettleEntry, wvars
  <2>2. QED
    BY <1>1, <1>4, <2>1
<1>8. CASE End
  <2> DEFINE ended == UNION {ToSet(queue[m]) : m \in EndModules}
  <2>1. /\ UNCHANGED <<work, workQueue, worker>>
        /\ item' = [e \in Entries |-> IF e \in ended THEN "freed" ELSE item[e]]
    BY <1>8 DEF End, wvars
  <2> HIDE DEF ended
  <2>2. QED
    BY <1>4, <2>1
<1>9. CASE Take
  <2>1. UNCHANGED <<work, workQueue, item>> /\ worker = "take"
    BY <1>9 DEF Take, evars
  <2>2. work = <<>> /\ Line' = Line
    BY <1>3, <2>1 DEF BatchOnlyInRun, Line
  <2>3. QED
    BY <1>2, <2>1, <2>2 DEF BatchOnlyInRun, AllToDo
<1>10. CASE Swap
  <2>1. /\ worker = "swap" /\ worker' = "run"
        /\ work' = workQueue /\ workQueue' = <<>> /\ item' = item
    BY <1>10 DEF Swap, evars
  <2>2. Line' = workQueue /\ Line = workQueue
    BY <1>1, <1>3, <2>1, ConcatEmptySeq DEF BatchOnlyInRun, Line
  <2>3. QED
    BY <1>2, <2>1, <2>2 DEF BatchOnlyInRun, AllToDo
<1>11. ASSUME NEW o \in {"ok", "error"}, Process(o)
       PROVE  BatchOnlyInRun' /\ Distinct(Line') /\ AllToDo(Line', item')
  <2>1. /\ worker = "run" /\ worker' = "run" /\ work # <<>>
        /\ work' = Tail(work) /\ workQueue' = workQueue
        /\ item' = item \/ item' = [item EXCEPT ![Head(work)] = "done"]
    BY <1>11 DEF Process
  <2>2. /\ Line # <<>> /\ Head(work) = Head(Line)
        /\ Line' = Tail(Line)
    BY <1>1, <2>1, HeadOfConcat DEF Line
  <2>3. /\ Distinct(Tail(Line))
        /\ \A i \in 1..Len(Tail(Line)) : Tail(Line)[i] = Line[i + 1] /\ Tail(Line)[i] # Head(Line)
        /\ Len(Tail(Line)) = Len(Line) - 1 /\ Len(Line) \in Nat
    BY <1>1, <1>2, <2>2, DistinctTail, HeadTailProperties, LenProperties
  <2>4. \A i \in 1..Len(Tail(Line)) : /\ Tail(Line)[i] \in Entries
                                      /\ item[Tail(Line)[i]] \in {"undone", "freed"}
    BY <1>2, <2>3
  <2>5. \A i \in 1..Len(Tail(Line)) : item'[Tail(Line)[i]] = item[Tail(Line)[i]]
    BY <1>1, <2>1, <2>2, <2>3, <2>4
  <2>6. QED
    BY <2>1, <2>2, <2>3, <2>4, <2>5 DEF BatchOnlyInRun, AllToDo
<1>12. CASE BatchDone
  <2>1. UNCHANGED <<work, workQueue, item>> /\ work = <<>>
    BY <1>12 DEF BatchDone, evars
  <2>2. Line' = Line
    BY <2>1 DEF Line
  <2>3. QED
    BY <1>2, <2>1, <2>2 DEF BatchOnlyInRun, AllToDo
<1>13. CASE UNCHANGED vars
  BY <1>4, <1>13 DEF vars, wvars, evars
<1>14. QED
  BY <1>5, <1>6, <1>7, <1>8, <1>9, <1>10, <1>11, <1>12, <1>13
     DEF Next, JSTaskStep, WorkerStep

(* Every entry goes through the worker once: it is in the batch or in the  *)
(* work queue, at one place, until it has been processed, and never again; *)
(* end() and close() at any moment included.                               *)
THEOREM ProcessedOnce == Spec => []WorkOnce
  BY InitOnceInv, NextOnceInv, PTL DEF Spec, OnceInv

-----------------------------------------------------------------------------
(* JSWorker implements PromiseService, and uses no freed memory, as long   *)
(* as the program calls neither end() nor close() (worker_end_uaf and      *)
(* worker_close_uaf show that it may when it does).                        *)


(* No entry is queued twice, in one module or in two. *)
QueuedOnce ==
  \A m, n \in Modules : \A i \in 1..Len(queue[m]), j \in 1..Len(queue[n]) :
    queue[m][i] = queue[n][j] => m = n /\ i = j

(* A queued entry has its functions, its promise and its item. *)
Alive(e) == funcs[e] = "live" /\ promise[e] = "pending" /\ item[e] \in {"undone", "done"}

QueuedAlive == \A m \in Modules : \A i \in 1..Len(queue[m]) : Alive(queue[m][i])

(* A pending promise has its entry in a queue. *)
PendingQueued ==
  \A e \in Entries : promise[e] = "pending" =>
    \E m \in Modules : \E i \in 1..Len(queue[m]) : queue[m][i] = e

(* A call that has not been made has neither item nor promise; one that    *)
(* has been done has its result.                                           *)
EntryInv ==
  \A e \in Entries :
    /\ item[e] = "none" <=> promise[e] = "none"
    /\ item[e] = "done" => result[e] # "unset"

LineUndone == \A i \in 1..Len(Line) : item[Line[i]] = "undone"

Quiet == closing = {} /\ uaf = "no" /\ js # "ended"

RefInv == OnceInv /\ QueuedOnce /\ QueuedAlive /\ PendingQueued /\ EntryInv /\ LineUndone /\ Quiet

-----------------------------------------------------------------------------
(* The invariant behind the refinement holds before any call.              *)
LEMMA InitRefInv == Init => RefInv
<1> SUFFICES ASSUME Init PROVE RefInv
  OBVIOUS
<1>1. OnceInv
  BY InitOnceInv
<1>2. QueuedOnce /\ QueuedAlive
  BY DEF Init, QueuedOnce, QueuedAlive
<1>3. PendingQueued /\ EntryInv
  BY DEF Init, PendingQueued, EntryInv
<1>4. LineUndone
  BY ConcatEmptySeq, EmptySeq DEF Init, LineUndone, Line
<1>5. Quiet
  BY DEF Init, Quiet
<1>6. QED
  BY <1>1, <1>2, <1>3, <1>4, <1>5 DEF RefInv

(* A step that touches neither the queues nor the entries nor the line. *)
LEMMA QuietStep ==
  ASSUME RefInv, OnceInv', UNCHANGED <<queue, item, funcs, promise, result, closing, uaf, Line>>,
         js' # "ended"
  PROVE  RefInv'
<1>1. QueuedOnce' /\ QueuedAlive'
  BY DEF RefInv, QueuedOnce, QueuedAlive, Alive, Modules
<1>2. PendingQueued' /\ EntryInv' /\ LineUndone' /\ Quiet'
  BY DEF RefInv, PendingQueued, EntryInv, LineUndone, Quiet, Modules
<1>3. QED
  BY <1>1, <1>2 DEF RefInv

(* A trampoline's submit keeps the invariant: the new entry is queued once, *)
(* alive, pending and undone.                                              *)
LEMMA SubmitStep ==
  ASSUME ~CanClose, RefInv, OnceInv', NEW e \in Entries, NEW m \in Modules, Submit(e, m)
  PROVE  /\ RefInv'
         /\ promise[e] = "none"
         /\ promise' = [promise EXCEPT ![e] = "pending"]
         /\ Line' = Append(Line, e)
         /\ result' = result
<1>1. /\ queue \in [Modules -> Seq(Entries)]
      /\ work \in Seq(Entries) /\ workQueue \in Seq(Entries)
      /\ item \in [Entries -> {"none", "undone", "done", "freed"}]
      /\ funcs \in [Entries -> {"none", "live", "freed"}]
      /\ promise \in [Entries -> {"none", "pending", "fulfilled", "rejected"}]
  BY DEF RefInv, OnceInv, TypeOK
<1>2. /\ item[e] = "none" /\ promise[e] = "none"
      /\ queue' = [queue EXCEPT ![m] = Append(@, e)]
      /\ item' = [item EXCEPT ![e] = "undone"]
      /\ funcs' = [funcs EXCEPT ![e] = "live"]
      /\ promise' = [promise EXCEPT ![e] = "pending"]
      /\ result' = result /\ closing' = closing /\ uaf' = uaf /\ js' = "give"
  BY DEF Submit, RefInv, EntryInv
<1>3. Line' = Append(Line, e) /\ Line \in Seq(Entries)
  BY <1>1, AppendToConcat, ConcatProperties DEF Submit, Line
<1>4. \A n \in Modules : \A i \in 1..Len(queue[n]) :
        queue[n][i] \in Entries /\ queue[n][i] # e /\ Alive(queue[n][i])
  BY <1>1, <1>2, ElementOfSeq DEF RefInv, QueuedAlive, Alive
<1>5. /\ \A n \in Modules : n # m => queue'[n] = queue[n]
      /\ Len(queue'[m]) = Len(queue[m]) + 1 /\ Len(queue[m]) \in Nat
      /\ \A i \in 1..Len(queue[m]) : queue'[m][i] = queue[m][i]
      /\ queue'[m][Len(queue[m]) + 1] = e
  BY <1>1, <1>2, AppendProperties, LenProperties
<1>6. \A n \in Modules : \A i \in 1..Len(queue'[n]) :
        \/ i \in 1..Len(queue[n]) /\ queue'[n][i] = queue[n][i]
        \/ n = m /\ i = Len(queue[m]) + 1 /\ queue'[n][i] = e
  <2> SUFFICES ASSUME NEW n \in Modules, NEW i \in 1..Len(queue'[n])
               PROVE  \/ i \in 1..Len(queue[n]) /\ queue'[n][i] = queue[n][i]
                      \/ n = m /\ i = Len(queue[m]) + 1 /\ queue'[n][i] = e
    OBVIOUS
  <2>1. CASE n = m
    BY <1>5, <2>1
  <2>2. CASE n # m
    BY <1>5, <2>2
  <2>3. QED
    BY <2>1, <2>2
<1>7. QueuedOnce'
  <2>1. QueuedOnce
    BY DEF RefInv
  <2> SUFFICES ASSUME NEW n \in Modules, NEW k \in Modules,
                      NEW i \in 1..Len(queue'[n]), NEW j \in 1..Len(queue'[k]),
                      queue'[n][i] = queue'[k][j]
               PROVE  n = k /\ i = j
    BY DEF QueuedOnce
  <2>2. CASE i \in 1..Len(queue[n]) /\ queue'[n][i] = queue[n][i]
             /\ j \in 1..Len(queue[k]) /\ queue'[k][j] = queue[k][j]
    <3>1. queue[n][i] = queue[k][j] /\ i \in 1..Len(queue[n]) /\ j \in 1..Len(queue[k])
      BY <2>2
    <3> HIDE <2>2
    <3>2. QED
      BY <2>1, <3>1 DEF QueuedOnce
  <2>3. CASE n = m /\ i = Len(queue[m]) + 1 /\ queue'[n][i] = e
             /\ k = m /\ j = Len(queue[m]) + 1 /\ queue'[k][j] = e
    BY <2>3
  <2>4. \/ i \in 1..Len(queue[n]) /\ queue'[n][i] = queue[n][i] /\ queue'[n][i] # e
        \/ n = m /\ i = Len(queue[m]) + 1 /\ queue'[n][i] = e
    BY <1>4, <1>6
  <2>5. \/ j \in 1..Len(queue[k]) /\ queue'[k][j] = queue[k][j] /\ queue'[k][j] # e
        \/ k = m /\ j = Len(queue[m]) + 1 /\ queue'[k][j] = e
    BY <1>4, <1>6
  <2>6. QED
    BY <2>2, <2>3, <2>4, <2>5
<1>8. \A x \in Entries : x # e => /\ item'[x] = item[x] /\ funcs'[x] = funcs[x]
                                  /\ promise'[x] = promise[x]
  BY <1>1, <1>2
<1>9. item'[e] = "undone" /\ funcs'[e] = "live" /\ promise'[e] = "pending"
  BY <1>1, <1>2
<1>10. QueuedAlive'
  <2> SUFFICES ASSUME NEW n \in Modules, NEW i \in 1..Len(queue'[n])
               PROVE  /\ funcs'[queue'[n][i]] = "live" /\ promise'[queue'[n][i]] = "pending"
                      /\ item'[queue'[n][i]] \in {"undone", "done"}
    BY DEF QueuedAlive, Alive, Modules
  <2>1. CASE i \in 1..Len(queue[n]) /\ queue'[n][i] = queue[n][i]
    BY <1>4, <1>8, <2>1 DEF Alive
  <2>2. CASE queue'[n][i] = e
    BY <1>9, <2>2
  <2>3. QED
    BY <1>6, <2>1, <2>2
<1>11. PendingQueued'
  <2> SUFFICES ASSUME NEW x \in Entries, promise'[x] = "pending"
               PROVE  \E n \in Modules : \E i \in 1..Len(queue'[n]) : queue'[n][i] = x
    BY DEF PendingQueued, Modules
  <2>1. CASE x = e
    BY <1>5, <2>1
  <2>2. CASE x # e
    <3>1. PICK n \in Modules : \E i \in 1..Len(queue[n]) : queue[n][i] = x
      BY <1>8, <2>2 DEF RefInv, PendingQueued
    <3>2. PICK i \in 1..Len(queue[n]) : queue[n][i] = x
      BY <3>1
    <3>3. i \in 1..Len(queue'[n]) /\ queue'[n][i] = x
      BY <1>5, <3>2
    <3>4. QED
      BY <3>3
  <2>3. QED
    BY <2>1, <2>2
<1>12. EntryInv'
  BY <1>2, <1>8, <1>9 DEF RefInv, EntryInv
<1>13. LineUndone'
  <2> DEFINE L == Append(Line, e)
  <2>1. /\ Len(L) = Len(Line) + 1 /\ Len(Line) \in Nat
        /\ \A i \in 1..Len(Line) : L[i] = Line[i]
        /\ L[Len(Line) + 1] = e
    BY <1>3, AppendProperties, LenProperties
  <2>2. \A i \in 1..Len(Line) : Line[i] \in Entries
    BY <1>3, ElementOfSeq
  <2> HIDE DEF L
  <2>3. \A i \in 1..Len(Line) : item[Line[i]] = "undone" /\ Line[i] # e
    BY <1>2 DEF RefInv, LineUndone
  <2>4. \A i \in 1..Len(L) : item'[L[i]] = "undone"
    <3> SUFFICES ASSUME NEW i \in 1..Len(L) PROVE item'[L[i]] = "undone"
      OBVIOUS
    <3>1. CASE i \in 1..Len(Line)
      BY <1>8, <2>1, <2>2, <2>3, <3>1
    <3>2. CASE i = Len(Line) + 1
      BY <1>9, <2>1, <3>2
    <3>3. QED
      BY <2>1, <3>1, <3>2
  <2>5. QED
    BY <1>3, <2>4 DEF LineUndone, L
<1>14. Quiet'
  BY <1>2 DEF RefInv, Quiet
<1>15. QED
  BY <1>2, <1>3, <1>7, <1>10, <1>11, <1>12, <1>13, <1>14 DEF RefInv

(* loop() settling a finished entry keeps the invariant: the entry leaves  *)
(* its module's queue and the other entries are not touched.               *)
LEMMA SettleStep ==
  ASSUME RefInv, OnceInv', SettleEntry, NEW e, e = queue[cur][pos]
  PROVE  /\ RefInv'
         /\ e \in Entries /\ promise[e] = "pending" /\ result[e] # "unset"
         /\ promise' = [promise EXCEPT ![e] =
                           IF result[e] = "ok" THEN "fulfilled" ELSE "rejected"]
         /\ UNCHANGED <<Line, result>>
<1>1. /\ queue \in [Modules -> Seq(Entries)] /\ cur \in Modules
      /\ pos \in 1..Len(queue[cur])
      /\ item \in [Entries -> {"none", "undone", "done", "freed"}]
      /\ funcs \in [Entries -> {"none", "live", "freed"}]
      /\ promise \in [Entries -> {"none", "pending", "fulfilled", "rejected"}]
  BY DEF RefInv, OnceInv, TypeOK, SettleEntry
<1>2. e \in Entries /\ Alive(e) /\ item[e] = "done" /\ result[e] # "unset"
  BY <1>1, ElementOfSeq DEF RefInv, QueuedAlive, EntryInv, SettleEntry
<1>3. /\ queue' = [queue EXCEPT ![cur] = RemoveAt(@, pos)]
      /\ promise' = [promise EXCEPT ![e] =
                        IF result[e] = "ok" THEN "fulfilled" ELSE "rejected"]
      /\ funcs' = [funcs EXCEPT ![e] = "freed"]
      /\ item' = [item EXCEPT ![e] = "freed"]
      /\ result' = result /\ closing' = closing /\ uaf' = uaf /\ js' = js
      /\ Line' = Line
  BY <1>2 DEF SettleEntry, Alive, wvars, Line
<1>4. \A x \in Entries : x # e => /\ item'[x] = item[x] /\ funcs'[x] = funcs[x]
                                  /\ promise'[x] = promise[x]
  BY <1>1, <1>3
<1>5. item'[e] = "freed" /\ promise'[e] \in {"fulfilled", "rejected"}
  BY <1>1, <1>2, <1>3
<1>6. /\ \A m \in Modules : m # cur => queue'[m] = queue[m]
      /\ Len(queue'[cur]) = Len(queue[cur]) - 1 /\ Len(queue[cur]) \in Nat
      /\ \A i \in 1..Len(queue'[cur]) :
           queue'[cur][i] = IF i < pos THEN queue[cur][i] ELSE queue[cur][i + 1]
  <2>1. queue[cur] \in Seq(Entries) /\ Len(queue[cur]) \in Nat
    BY <1>1, LenProperties
  <2>2. /\ queue'[cur] = RemoveAt(queue[cur], pos)
        /\ \A m \in Modules : m # cur => queue'[m] = queue[m]
    BY <1>1, <1>3
  <2>3. /\ Len(RemoveAt(queue[cur], pos)) = Len(queue[cur]) - 1
        /\ \A k \in 1..Len(queue[cur]) - 1 :
             RemoveAt(queue[cur], pos)[k] = IF k < pos THEN queue[cur][k] ELSE queue[cur][k + 1]
    BY <1>1, <2>1, RemoveAtProperties
  <2>4. QED
    BY <2>1, <2>2, <2>3
(* Where the entries left in the queues were before. *)
<1> DEFINE Was(m, i) == IF m # cur \/ i < pos THEN i ELSE i + 1
<1>7. \A m \in Modules : \A i \in 1..Len(queue'[m]) :
        /\ Was(m, i) \in 1..Len(queue[m])
        /\ queue'[m][i] = queue[m][Was(m, i)]
        /\ m = cur => Was(m, i) # pos
  <2> SUFFICES ASSUME NEW m \in Modules, NEW i \in 1..Len(queue'[m])
               PROVE  /\ Was(m, i) \in 1..Len(queue[m])
                      /\ queue'[m][i] = queue[m][Was(m, i)]
                      /\ m = cur => Was(m, i) # pos
    OBVIOUS
  <2>1. CASE m # cur
    BY <1>6, <2>1
  <2>2. CASE m = cur
    BY <1>1, <1>6, <2>2
  <2>3. QED
    BY <2>1, <2>2
<1>8. \A m, n \in Modules : \A i \in 1..Len(queue'[m]), j \in 1..Len(queue'[n]) :
        (m = n /\ Was(m, i) = Was(n, j)) => i = j
  <2> SUFFICES ASSUME NEW m \in Modules,
                      NEW i \in 1..Len(queue'[m]), NEW j \in 1..Len(queue'[m]),
                      Was(m, i) = Was(m, j)
               PROVE  i = j
    OBVIOUS
  <2>1. i \in Int /\ j \in Int /\ pos \in Int
    BY <1>1
  <2>2. QED
    BY <2>1
<1> HIDE DEF Was
<1>9. QueuedOnce'
  <2> SUFFICES ASSUME NEW m \in Modules, NEW n \in Modules,
                      NEW i \in 1..Len(queue'[m]), NEW j \in 1..Len(queue'[n]),
                      queue'[m][i] = queue'[n][j]
               PROVE  m = n /\ i = j
    BY DEF QueuedOnce, Modules
  <2>1. m = n /\ Was(m, i) = Was(n, j)
    <3>1. /\ Was(m, i) \in 1..Len(queue[m]) /\ Was(n, j) \in 1..Len(queue[n])
          /\ queue[m][Was(m, i)] = queue[n][Was(n, j)]
      BY <1>7
    <3>2. QED
      BY <3>1 DEF RefInv, QueuedOnce
  <2>2. QED
    BY <1>8, <2>1
<1>10. \A m \in Modules : \A i \in 1..Len(queue'[m]) :
         queue'[m][i] \in Entries /\ queue'[m][i] # e /\ Alive(queue[m][Was(m, i)])
  <2> SUFFICES ASSUME NEW m \in Modules, NEW i \in 1..Len(queue'[m])
               PROVE  /\ queue'[m][i] \in Entries /\ queue'[m][i] # e
                      /\ Alive(queue[m][Was(m, i)])
    OBVIOUS
  <2>1. queue[m][Was(m, i)] \in Entries /\ Alive(queue[m][Was(m, i)])
    BY <1>1, <1>7, ElementOfSeq DEF RefInv, QueuedAlive
  <2>2. queue[m][Was(m, i)] # queue[cur][pos]
    BY <1>1, <1>7 DEF RefInv, QueuedOnce
  <2>3. QED
    BY <1>7, <2>1, <2>2
<1>11. QueuedAlive'
  <2> SUFFICES ASSUME NEW m \in Modules, NEW i \in 1..Len(queue'[m])
               PROVE  /\ funcs'[queue'[m][i]] = "live" /\ promise'[queue'[m][i]] = "pending"
                      /\ item'[queue'[m][i]] \in {"undone", "done"}
    BY DEF QueuedAlive, Alive, Modules
  <2>1. PICK x : x = queue'[m][i]
    OBVIOUS
  <2>2. x \in Entries /\ x # e /\ Alive(x)
    BY <1>7, <1>10, <2>1
  <2>3. funcs'[x] = "live" /\ promise'[x] = "pending" /\ item'[x] \in {"undone", "done"}
    BY <1>4, <2>2 DEF Alive
  <2>4. QED
    BY <2>1, <2>3
<1>12. PendingQueued'
  <2> SUFFICES ASSUME NEW x \in Entries, promise'[x] = "pending"
               PROVE  \E m \in Modules : \E i \in 1..Len(queue'[m]) : queue'[m][i] = x
    BY DEF PendingQueued, Modules
  <2>1. x # e /\ promise[x] = "pending"
    BY <1>4, <1>5
  <2>2. PICK m \in Modules : \E i \in 1..Len(queue[m]) : queue[m][i] = x
    BY <2>1 DEF RefInv, PendingQueued
  <2>3. PICK i \in 1..Len(queue[m]) : queue[m][i] = x
    BY <2>2
  <2>4. CASE m # cur
    BY <1>6, <2>3, <2>4
  <2>5. CASE m = cur
    <3>1. i # pos
      BY <2>1, <2>3, <2>5
    <3>2. CASE i < pos
      <4>1. i \in 1..Len(queue'[cur]) /\ queue'[cur][i] = x
        BY <1>1, <1>6, <2>3, <2>5, <3>2
      <4>2. QED
        BY <1>1, <4>1
    <3>3. CASE i > pos
      <4>1. i - 1 \in 1..Len(queue'[cur]) /\ ~(i - 1 < pos) /\ (i - 1) + 1 = i
        BY <1>1, <1>6, <2>3, <2>5, <3>3
      <4>2. queue'[cur][i - 1] = x
        BY <1>6, <2>3, <2>5, <4>1
      <4>3. QED
        BY <1>1, <4>1, <4>2
    <3>4. QED
      BY <1>1, <2>5, <3>1, <3>2, <3>3
  <2>6. QED
    BY <2>4, <2>5
<1>13. EntryInv'
  BY <1>2, <1>3, <1>4, <1>5 DEF RefInv, EntryInv, Alive
<1>14. LineUndone'
  <2>1. \A i \in 1..Len(Line) : Line[i] \in Entries /\ item[Line[i]] = "undone"
    <3>1. Line \in Seq(Entries)
      BY ConcatProperties DEF RefInv, OnceInv, TypeOK, Line
    <3>2. QED
      BY <3>1, ElementOfSeq DEF RefInv, LineUndone
  <2>2. QED
    BY <1>2, <1>3, <1>4, <2>1 DEF LineUndone
<1>15. Quiet'
  BY <1>3 DEF RefInv, Quiet
<1>16. QED
  BY <1>2, <1>3, <1>9, <1>11, <1>12, <1>13, <1>14, <1>15 DEF RefInv, Alive

(* The worker finishing an item keeps the invariant: the item leaves the   *)
(* line as it becomes done, and its entry stays queued and alive.          *)
LEMMA ProcessStep ==
  ASSUME RefInv, OnceInv', NEW o \in {"ok", "error"}, Process(o)
  PROVE  /\ RefInv'
         /\ Line # <<>> /\ Line' = Tail(Line)
         /\ result' = [result EXCEPT ![Head(Line)] = o]
         /\ promise' = promise
<1> DEFINE e == Head(Line)
<1>1. /\ queue \in [Modules -> Seq(Entries)]
      /\ work \in Seq(Entries) /\ workQueue \in Seq(Entries)
      /\ item \in [Entries -> {"none", "undone", "done", "freed"}]
      /\ result \in [Entries -> {"unset", "ok", "error"}]
      /\ work # <<>>
  BY DEF RefInv, OnceInv, TypeOK, Process
<1>2. /\ Line \in Seq(Entries) /\ Line # <<>>
      /\ e = Head(work) /\ Tail(Line) = Tail(work) \o workQueue
  BY <1>1, HeadOfConcat, ConcatProperties DEF Line
<1>3. e \in Entries /\ item[e] = "undone"
  <2>1. 1 \in 1..Len(Line) /\ e = Line[1]
    BY <1>2, EmptySeq
  <2>2. QED
    BY <1>2, <2>1, ElementOfSeq DEF RefInv, LineUndone
<1>4. /\ item' = [item EXCEPT ![e] = "done"]
      /\ result' = [result EXCEPT ![e] = o]
      /\ Line' = Tail(Line)
      /\ UNCHANGED <<queue, funcs, promise, closing, uaf, js>>
  BY <1>2, <1>3 DEF Process, jvars, Line
<1>5. /\ item'[e] = "done" /\ result'[e] # "unset"
      /\ \A x \in Entries : x # e => item'[x] = item[x] /\ result'[x] = result[x]
  BY <1>1, <1>3, <1>4
<1> HIDE DEF e
<1>6. QueuedOnce' /\ PendingQueued'
  BY <1>4 DEF RefInv, QueuedOnce, PendingQueued, Modules
<1>7. QueuedAlive'
  <2> SUFFICES ASSUME NEW m \in Modules, NEW i \in 1..Len(queue[m])
               PROVE  item'[queue[m][i]] \in {"undone", "done"}
    BY <1>4 DEF RefInv, QueuedAlive, Alive, Modules
  <2>1. queue[m][i] \in Entries /\ item[queue[m][i]] \in {"undone", "done"}
    BY <1>1, ElementOfSeq DEF RefInv, QueuedAlive, Alive
  <2>2. QED
    BY <1>5, <2>1
<1>8. EntryInv'
  BY <1>3, <1>4, <1>5 DEF RefInv, EntryInv
<1>9. LineUndone'
  <2>1. Distinct(Line)
    BY WorkOnceSplit DEF RefInv, OnceInv
  <2>2. \A i \in 1..Len(Tail(Line)) : Tail(Line)[i] = Line[i + 1] /\ Tail(Line)[i] # e
    BY <1>2, <2>1, DistinctTail DEF e
  <2>3. Len(Tail(Line)) = Len(Line) - 1 /\ Len(Line) \in Nat
    BY <1>2, HeadTailProperties, LenProperties
  <2>4. \A i \in 1..Len(Tail(Line)) : Tail(Line)[i] \in Entries /\ item[Tail(Line)[i]] = "undone"
    <3>1. \A i \in 1..Len(Line) : Line[i] \in Entries /\ item[Line[i]] = "undone"
      BY <1>2, ElementOfSeq DEF RefInv, LineUndone
    <3>2. QED
      BY <2>2, <2>3, <3>1
  <2>5. \A i \in 1..Len(Tail(Line)) : item'[Tail(Line)[i]] = "undone"
    BY <1>5, <2>2, <2>4
  <2>6. QED
    BY <1>4, <2>5 DEF LineUndone
<1>10. Quiet'
  BY <1>4 DEF RefInv, Quiet
<1>11. QED
  BY <1>2, <1>4, <1>6, <1>7, <1>8, <1>9, <1>10 DEF RefInv, e

-----------------------------------------------------------------------------
(* The steps of either task that only move it along. *)
MoveOn == Give \/ StartLoop \/ SkipEntry \/ NextModule \/ Take \/ Swap \/ BatchDone

(* The steps that only move a task along keep the invariant: the line is   *)
(* the same before and after a swap.                                       *)
LEMMA MoveOnStep ==
  ASSUME RefInv, OnceInv', MoveOn \/ UNCHANGED vars
  PROVE  RefInv' /\ UNCHANGED <<Line, result, promise>>
<1>1. UNCHANGED <<queue, item, funcs, promise, result, closing, uaf>> /\ js' # "ended"
  <2>1. CASE Give
    BY <2>1 DEF Give, RefInv, Quiet
  <2>2. CASE StartLoop \/ SkipEntry \/ NextModule
    BY <2>2 DEF StartLoop, SkipEntry, NextModule, wvars, evars, RefInv, Quiet
  <2>3. CASE Take \/ Swap \/ BatchDone
    BY <2>3 DEF Take, Swap, BatchDone, jvars, evars, RefInv, Quiet
  <2>4. CASE UNCHANGED vars
    BY <2>4 DEF vars, jvars, evars, RefInv, Quiet
  <2>5. QED
    BY <2>1, <2>2, <2>3, <2>4 DEF MoveOn
<1>2. Line' = Line
  <2>1. CASE Swap
    <3>1. work = <<>> /\ work' = workQueue /\ workQueue' = <<>>
      BY <2>1 DEF Swap, RefInv, OnceInv, BatchOnlyInRun
    <3>2. workQueue \in Seq(Entries)
      BY DEF RefInv, OnceInv, TypeOK
    <3>3. QED
      BY <3>1, <3>2, ConcatEmptySeq DEF Line
  <2>2. CASE ~Swap
    <3>1. UNCHANGED <<work, workQueue>>
      BY <2>2, Zenon DEF MoveOn, Give, StartLoop, SkipEntry, NextModule, Take, BatchDone, wvars, vars
    <3>2. QED
      BY <3>1 DEF Line
  <2>3. QED
    BY <2>1, <2>2
<1>3. QED
  BY <1>1, <1>2, QuietStep

(* Without end() and close(), every step of either task keeps the invariant. *)
LEMMA NextRefInv ==
  ASSUME ~CanEnd, ~CanClose, RefInv, [Next]_vars
  PROVE  RefInv'
<1>1. OnceInv'
  BY NextOnceInv DEF RefInv
<1>2. ASSUME NEW e \in Entries, NEW m \in Modules, Submit(e, m) PROVE RefInv'
  BY <1>1, <1>2, SubmitStep
<1>3. CASE SettleEntry
  BY <1>1, <1>3, SettleStep
<1>4. ASSUME NEW o \in {"ok", "error"}, Process(o) PROVE RefInv'
  BY <1>1, <1>4, ProcessStep
<1>5. CASE MoveOn \/ UNCHANGED vars
  BY <1>1, <1>5, MoveOnStep
<1>6. ~End
  BY DEF End
<1>7. QED
  BY <1>2, <1>3, <1>4, <1>5, <1>6 DEF Next, JSTaskStep, WorkerStep, MoveOn

(* No task uses memory the other one has freed, as long as the program     *)
(* does not call end() or close(): the worker is done with an item before  *)
(* loop() frees it, and each entry's functions are called once.            *)
THEOREM MemorySafe ==
  ASSUME ~CanEnd, ~CanClose
  PROVE  Spec => []NoUseAfterFree
<1>1. RefInv /\ [Next]_vars => RefInv'
  BY NextRefInv
<1>2. RefInv => NoUseAfterFree
  BY DEF RefInv, Quiet, NoUseAfterFree
<1>3. QED
  BY <1>1, <1>2, InitRefInv, PTL DEF Spec

(* A promise is pending exactly as long as its entry is queued.            *)
THEOREM PendingAlwaysQueued ==
  ASSUME ~CanEnd, ~CanClose
  PROVE  Spec => []PendingIsQueued
<1>1. RefInv /\ [Next]_vars => RefInv'
  BY NextRefInv
<1>2. RefInv => PendingIsQueued
  <2> SUFFICES ASSUME RefInv, NEW e \in Entries
               PROVE  promise[e] = "pending" <=> \E m \in Modules : e \in ToSet(queue[m])
    BY DEF PendingIsQueued
  <2>1. \A m \in Modules : ToSet(queue[m]) = {queue[m][i] : i \in 1..Len(queue[m])}
    BY LenProperties DEF RefInv, OnceInv, TypeOK, ToSet
  <2>2. ASSUME promise[e] = "pending" PROVE \E m \in Modules : e \in ToSet(queue[m])
    <3>1. PICK m \in Modules : \E i \in 1..Len(queue[m]) : queue[m][i] = e
      BY <2>2 DEF RefInv, PendingQueued
    <3>2. QED
      BY <2>1, <3>1
  <2>3. ASSUME NEW m \in Modules, e \in ToSet(queue[m]) PROVE promise[e] = "pending"
    <3>1. PICK i \in 1..Len(queue[m]) : queue[m][i] = e
      BY <2>1, <2>3
    <3>2. QED
      BY <3>1 DEF RefInv, QueuedAlive, Alive
  <2>4. QED
    BY <2>2, <2>3
<1>3. QED
  BY <1>1, <1>2, InitRefInv, PTL DEF Spec

(* The peripherals of JSWorker are one first-come first-served server that *)
(* settles every promise with the outcome of its own operation: JSWorker   *)
(* implements the safety part of PromiseService.                           *)
THEOREM ImplementsService ==
  ASSUME ~CanEnd, ~CanClose
  PROVE  Spec => Service!Spec
<1>1. Init => Service!Init
  BY ConcatEmptySeq, EmptySeq DEF Init, Service!Init
<1>2. RefInv /\ [Next]_vars => RefInv'
  BY NextRefInv
<1>3. RefInv /\ [Next]_vars => [Service!Next]_(Service!svars)
  <2> SUFFICES ASSUME RefInv, [Next]_vars PROVE Service!Next \/ UNCHANGED Service!svars
    OBVIOUS
  <2>1. OnceInv'
    BY NextOnceInv DEF RefInv
  <2>2. ASSUME NEW e \in Entries, NEW m \in Modules, Submit(e, m) PROVE Service!Next
    BY <2>1, <2>2, SubmitStep DEF Service!Next, Service!Call, Line
  <2>3. CASE SettleEntry
    BY <2>1, <2>3, SettleStep DEF Service!Next, Service!Settle, Service!SettledBy, Line
  <2>4. ASSUME NEW o \in {"ok", "error"}, Process(o) PROVE Service!Next
    BY <2>1, <2>4, ProcessStep DEF Service!Next, Service!Serve, Line
  <2>5. CASE MoveOn \/ UNCHANGED vars
    BY <2>1, <2>5, MoveOnStep DEF Service!svars, Line
  <2>6. ~End
    BY DEF End
  <2>7. QED
    BY <2>2, <2>3, <2>4, <2>5, <2>6 DEF Next, JSTaskStep, WorkerStep, MoveOn
<1>4. QED
  BY <1>1, <1>2, <1>3, InitRefInv, PTL DEF Spec, Service!Spec

-----------------------------------------------------------------------------
(* end() and close().  Whatever a program calls, a pending promise has its *)
(* entry in a queue that still exists, until freed memory is used.         *)
Surviving == IF js = "ended" THEN Modules \ EndModules ELSE Modules

PendInv ==
  uaf = "no" =>
    \A e \in Entries : promise[e] = "pending" =>
      \E m \in Surviving : \E i \in 1..Len(queue[m]) : queue[m][i] = e

(* A step that leaves the queues and the promises, and does not end. *)
LEMMA StayPend ==
  ASSUME PendInv, UNCHANGED <<queue, promise>>, (js' = "ended") <=> (js = "ended"),
         uaf' = "no" => uaf = "no"
  PROVE  PendInv'
<1>1. Surviving' = Surviving
  BY DEF Surviving, Modules
<1>2. QED
  BY <1>1 DEF PendInv

LEMMA SubmitPend ==
  ASSUME TypeOK, PendInv, NEW e \in Entries, NEW m \in Modules, Submit(e, m)
  PROVE  PendInv'
<1>1. /\ queue \in [Modules -> Seq(Entries)] /\ uaf' = uaf
      /\ queue' = [queue EXCEPT ![m] = Append(@, e)]
      /\ promise' = [promise EXCEPT ![e] = "pending"]
      /\ promise \in [Entries -> {"none", "pending", "fulfilled", "rejected"}]
      /\ Surviving = Modules /\ Surviving' = Modules
  BY DEF TypeOK, Submit, Surviving, Modules
<1>2. /\ queue[m] \in Seq(Entries) /\ Len(queue[m]) \in Nat
      /\ Len(queue'[m]) = Len(queue[m]) + 1 /\ queue'[m][Len(queue[m]) + 1] = e
      /\ \A i \in 1..Len(queue[m]) : queue'[m][i] = queue[m][i]
  BY <1>1, AppendProperties, LenProperties
<1>3. SUFFICES ASSUME uaf = "no", NEW x \in Entries, promise'[x] = "pending"
               PROVE  \E n \in Modules : \E i \in 1..Len(queue'[n]) : queue'[n][i] = x
  BY <1>1 DEF PendInv
<1>4. CASE x = e
  <2>1. Len(queue[m]) + 1 \in 1..Len(queue'[m])
    BY <1>2
  <2>2. QED
    BY <1>2, <1>4, <2>1
<1>5. CASE x # e
  <2>1. PICK n \in Modules : \E i \in 1..Len(queue[n]) : queue[n][i] = x
    BY <1>1, <1>3, <1>5 DEF PendInv
  <2>2. PICK i \in 1..Len(queue[n]) : queue[n][i] = x
    BY <2>1
  <2>3. i \in 1..Len(queue'[n]) /\ queue'[n][i] = x
    <3>1. CASE n = m
      BY <1>2, <2>2, <3>1
    <3>2. CASE n # m
      BY <1>1, <2>2, <3>2
    <3>3. QED
      BY <3>1, <3>2
  <2>4. QED
    BY <2>3
<1>6. QED
  BY <1>4, <1>5

LEMMA SettlePend ==
  ASSUME TypeOK, PendInv, SettleEntry
  PROVE  PendInv'
<1> DEFINE e == queue[cur][pos]
           q == queue[cur]
<1>1. /\ queue \in [Modules -> Seq(Entries)] /\ cur \in Modules /\ q \in Seq(Entries)
      /\ pos \in 1..Len(q) /\ Len(q) \in Nat /\ e \in Entries
      /\ queue' = [queue EXCEPT ![cur] = RemoveAt(@, pos)]
      /\ Surviving = Modules /\ Surviving' = Modules
  BY LenProperties, ElementOfSeq DEF TypeOK, SettleEntry, Surviving, Modules
<1>2. /\ Len(queue'[cur]) = Len(q) - 1
      /\ \A k \in 1..Len(q) - 1 : queue'[cur][k] = IF k < pos THEN q[k] ELSE q[k + 1]
      /\ \A n \in Modules : n # cur => queue'[n] = queue[n]
  BY <1>1, RemoveAtProperties
<1>3. SUFFICES ASSUME uaf' = "no", NEW x \in Entries, promise'[x] = "pending"
               PROVE  \E n \in Modules : \E i \in 1..Len(queue'[n]) : queue'[n][i] = x
  BY <1>1 DEF PendInv
<1>4. uaf = "no" /\ promise' = [promise EXCEPT ![e] = IF result[e] = "ok" THEN "fulfilled" ELSE "rejected"]
  BY <1>3 DEF SettleEntry, Defined
<1>5. x # e /\ promise[x] = "pending"
  BY <1>1, <1>3, <1>4 DEF TypeOK
<1>6. PICK n \in Modules : \E i \in 1..Len(queue[n]) : queue[n][i] = x
  BY <1>1, <1>4, <1>5 DEF PendInv
<1>7. PICK i \in 1..Len(queue[n]) : queue[n][i] = x
  BY <1>6
<1>8. CASE n # cur
  BY <1>2, <1>7, <1>8
<1>9. CASE n = cur /\ i < pos
  <2>1. i \in 1..Len(q) - 1
    BY <1>1, <1>7, <1>9
  <2>2. QED
    BY <1>1, <1>2, <1>7, <1>9, <2>1
<1>10. CASE n = cur /\ i > pos
  <2>1. i - 1 \in 1..Len(q) - 1 /\ ~(i - 1 < pos) /\ (i - 1) + 1 = i
    BY <1>1, <1>7, <1>10
  <2>2. queue'[cur][i - 1] = x
    BY <1>2, <1>7, <1>10, <2>1
  <2>3. QED
    BY <1>1, <1>2, <2>1, <2>2
<1>11. n = cur => i # pos
  BY <1>5, <1>7
<1>12. QED
  BY <1>1, <1>7, <1>8, <1>9, <1>10, <1>11

LEMMA EndPend ==
  ASSUME TypeOK, PendInv, End
  PROVE  PendInv'
<1> DEFINE gone == UNION {ToSet(queue[m]) : m \in EndModules}
<1>1. /\ queue' = [m \in Modules |-> IF m \in EndModules THEN <<>> ELSE queue[m]]
      /\ Surviving = Modules /\ Surviving' = Modules \ EndModules /\ uaf = "no"
  BY DEF End, Surviving, Modules, Defined
<1>2. SUFFICES ASSUME uaf' = "no", NEW x \in Entries, promise'[x] = "pending"
               PROVE  \E n \in Modules \ EndModules : \E i \in 1..Len(queue'[n]) : queue'[n][i] = x
  BY <1>1 DEF PendInv
<1>3. promise' = [e \in Entries |-> IF e \in gone THEN "rejected" ELSE promise[e]]
  BY <1>2 DEF End
<1>4. x \notin gone /\ promise[x] = "pending"
  BY <1>2, <1>3
<1>5. PICK n \in Modules : \E i \in 1..Len(queue[n]) : queue[n][i] = x
  BY <1>1, <1>4 DEF PendInv
<1>6. ToSet(queue[n]) = {queue[n][i] : i \in 1..Len(queue[n])}
  BY LenProperties DEF TypeOK, ToSet
<1>7. n \notin EndModules
  BY <1>4, <1>5, <1>6
<1>8. queue'[n] = queue[n]
  BY <1>1, <1>7
<1>9. QED
  BY <1>5, <1>7, <1>8

LEMMA NextPend == TypeOK /\ PendInv /\ [Next]_vars => PendInv'
<1> SUFFICES ASSUME TypeOK, PendInv, [Next]_vars PROVE PendInv'
  OBVIOUS
<1>1. ASSUME NEW e \in Entries, NEW m \in Modules, Submit(e, m) PROVE PendInv'
  BY <1>1, SubmitPend
<1>2. CASE Give \/ StartLoop \/ SkipEntry \/ NextModule
  <2>1. UNCHANGED <<queue, promise, uaf>> /\ js # "ended" /\ js' # "ended"
    BY <1>2 DEF Give, StartLoop, SkipEntry, NextModule, evars
  <2>2. QED
    BY <2>1, StayPend
<1>3. CASE SettleEntry
  BY <1>3, SettlePend
<1>4. CASE End
  BY <1>4, EndPend
<1>5. CASE Take \/ Swap \/ BatchDone \/ UNCHANGED vars
  BY <1>5, StayPend DEF Take, Swap, BatchDone, vars, jvars, evars
<1>6. ASSUME NEW o \in {"ok", "error"}, Process(o) PROVE PendInv'
  BY <1>6, StayPend DEF Process, jvars, Defined
<1>7. QED
  BY <1>1, <1>2, <1>3, <1>4, <1>5, <1>6 DEF Next, JSTaskStep, WorkerStep

(* ESP32QuickJS::end rejects what I2C and SPI still have queued: after it  *)
(* only the promises of the file systems are pending, also in a program    *)
(* that calls close().                                                     *)
THEOREM EndLeavesFiles == Spec => []EndLeavesOnlyFiles
<1>1. Init => PendInv
  BY DEF Init, PendInv
<1>2. TypeOK /\ PendInv => EndLeavesOnlyFiles
  <2> SUFFICES ASSUME TypeOK, PendInv, js = "ended", uaf = "no",
                      NEW e \in Entries, promise[e] = "pending"
               PROVE  \E m \in Modules \ EndModules : e \in ToSet(queue[m])
    BY DEF EndLeavesOnlyFiles
  <2>1. PICK m \in Modules \ EndModules : \E i \in 1..Len(queue[m]) : queue[m][i] = e
    BY DEF PendInv, Surviving
  <2>2. ToSet(queue[m]) = {queue[m][i] : i \in 1..Len(queue[m])}
    BY LenProperties DEF TypeOK, ToSet
  <2>3. QED
    BY <2>1, <2>2
<1>3. QED
  BY <1>1, <1>2, InitTypeOK, NextTypeOK, NextPend, PTL DEF Spec
-----------------------------------------------------------------------------
(* PromiseService speaks of a program that calls neither end() nor         *)
(* close().  In every program, a queued entry has its promise pending, is  *)
(* queued once and has been submitted, as long as no freed memory is used. *)
QueuedPending ==
  uaf = "no" => \A m \in Modules : \A i \in 1..Len(queue[m]) : promise[queue[m][i]] = "pending"

QueuedMade == \A m \in Modules : \A i \in 1..Len(queue[m]) : item[queue[m][i]] # "none"

UnmadeHasNone == \A e \in Entries : item[e] = "none" => promise[e] = "none"

SettleInv == TypeOK /\ QueuedOnce /\ QueuedPending /\ QueuedMade /\ UnmadeHasNone

(* How the promises change in a step: SettledByOutcome without its box.    *)
SettlesRight ==
  \A e \in Entries :
    promise'[e] # promise[e] =>
      \/ promise[e] = "none" /\ promise'[e] = "pending"
      \/ /\ promise[e] = "pending" /\ item[e] = "done"
         /\ promise'[e] = IF result[e] = "ok" THEN "fulfilled" ELSE "rejected"
      \/ js' = "ended" /\ promise[e] = "pending" /\ promise'[e] = "rejected"

(* A step of the worker, or of the JS task between two entries. *)
LEMMA StaySettle ==
  ASSUME SettleInv, TypeOK', UNCHANGED <<queue, promise>>, uaf' = "no" => uaf = "no",
         \A e \in Entries : item'[e] = "none" => item[e] = "none"
  PROVE  SettleInv' /\ SettlesRight
<1>1. \A m \in Modules : \A i \in 1..Len(queue[m]) : queue[m][i] \in Entries
  BY ElementOfSeq DEF SettleInv, TypeOK
<1>2. QueuedOnce' /\ QueuedPending'
  BY DEF SettleInv, QueuedOnce, QueuedPending, Modules
<1>3. QueuedMade' /\ UnmadeHasNone'
  BY <1>1 DEF SettleInv, QueuedMade, UnmadeHasNone, Modules
<1>4. QED
  BY <1>2, <1>3 DEF SettleInv, SettlesRight

LEMMA SubmitSettle ==
  ASSUME SettleInv, TypeOK', NEW e \in Entries, NEW m \in Modules, Submit(e, m)
  PROVE  SettleInv' /\ SettlesRight
<1>1. /\ queue \in [Modules -> Seq(Entries)]
      /\ item \in [Entries -> {"none", "undone", "done", "freed"}]
      /\ promise \in [Entries -> {"none", "pending", "fulfilled", "rejected"}]
  BY DEF SettleInv, TypeOK
<1>2. /\ item[e] = "none" /\ promise[e] = "none" /\ uaf = "no"
      /\ queue' = [queue EXCEPT ![m] = Append(@, e)]
      /\ item' = [item EXCEPT ![e] = "undone"]
      /\ promise' = [promise EXCEPT ![e] = "pending"]
  BY DEF Submit, Defined, SettleInv, UnmadeHasNone
<1>3. \A n \in Modules : \A i \in 1..Len(queue[n]) :
        /\ queue[n][i] \in Entries /\ queue[n][i] # e
        /\ promise[queue[n][i]] = "pending" /\ item[queue[n][i]] # "none"
  BY <1>1, <1>2, ElementOfSeq DEF SettleInv, QueuedPending, QueuedMade
<1>4. /\ \A n \in Modules : n # m => queue'[n] = queue[n]
      /\ Len(queue'[m]) = Len(queue[m]) + 1 /\ Len(queue[m]) \in Nat
      /\ \A i \in 1..Len(queue[m]) : queue'[m][i] = queue[m][i]
      /\ queue'[m][Len(queue[m]) + 1] = e
  BY <1>1, <1>2, AppendProperties, LenProperties
<1>5. \A n \in Modules : \A i \in 1..Len(queue'[n]) :
        \/ i \in 1..Len(queue[n]) /\ queue'[n][i] = queue[n][i]
        \/ n = m /\ i = Len(queue[m]) + 1 /\ queue'[n][i] = e
  <2> SUFFICES ASSUME NEW n \in Modules, NEW i \in 1..Len(queue'[n])
               PROVE  \/ i \in 1..Len(queue[n]) /\ queue'[n][i] = queue[n][i]
                      \/ n = m /\ i = Len(queue[m]) + 1 /\ queue'[n][i] = e
    OBVIOUS
  <2>1. CASE n = m
    BY <1>4, <2>1
  <2>2. CASE n # m
    BY <1>4, <2>2
  <2>3. QED
    BY <2>1, <2>2
<1>6. QueuedOnce'
  <2> SUFFICES ASSUME NEW n \in Modules, NEW k \in Modules,
                      NEW i \in 1..Len(queue'[n]), NEW j \in 1..Len(queue'[k]),
                      queue'[n][i] = queue'[k][j]
               PROVE  n = k /\ i = j
    BY DEF QueuedOnce, Modules
  <2>1. \/ i \in 1..Len(queue[n]) /\ queue'[n][i] = queue[n][i] /\ queue'[n][i] # e
        \/ n = m /\ i = Len(queue[m]) + 1 /\ queue'[n][i] = e
    BY <1>3, <1>5
  <2>2. \/ j \in 1..Len(queue[k]) /\ queue'[k][j] = queue[k][j] /\ queue'[k][j] # e
        \/ k = m /\ j = Len(queue[m]) + 1 /\ queue'[k][j] = e
    BY <1>3, <1>5
  <2>3. CASE queue'[n][i] = e
    BY <2>1, <2>2, <2>3
  <2>4. CASE queue'[n][i] # e
    <3>1. /\ i \in 1..Len(queue[n]) /\ j \in 1..Len(queue[k])
          /\ queue[n][i] = queue[k][j]
      BY <2>1, <2>2, <2>4
    <3>2. QED
      BY <3>1 DEF SettleInv, QueuedOnce
  <2>5. QED
    BY <2>3, <2>4
<1>7. \A x \in Entries : x # e => item'[x] = item[x] /\ promise'[x] = promise[x]
  BY <1>1, <1>2
<1>8. item'[e] = "undone" /\ promise'[e] = "pending"
  BY <1>1, <1>2
<1>9. QueuedPending' /\ QueuedMade'
  <2> SUFFICES ASSUME NEW n \in Modules, NEW i \in 1..Len(queue'[n])
               PROVE  promise'[queue'[n][i]] = "pending" /\ item'[queue'[n][i]] # "none"
    BY DEF QueuedPending, QueuedMade, Modules
  <2>1. CASE i \in 1..Len(queue[n]) /\ queue'[n][i] = queue[n][i]
    BY <1>3, <1>7, <2>1
  <2>2. CASE queue'[n][i] = e
    BY <1>8, <2>2
  <2>3. QED
    BY <1>5, <2>1, <2>2
<1>10. UnmadeHasNone'
  BY <1>7, <1>8 DEF SettleInv, UnmadeHasNone
<1>11. SettlesRight
  BY <1>2, <1>7, <1>8 DEF SettlesRight
<1>12. QED
  BY <1>6, <1>9, <1>10, <1>11 DEF SettleInv

(* loop() settles an entry: the others of all queues keep their promises,  *)
(* since none of them is the same entry.                                   *)
LEMMA SettleSettle ==
  ASSUME SettleInv, TypeOK', SettleEntry
  PROVE  SettleInv' /\ SettlesRight
<1> DEFINE e == queue[cur][pos]
           o == IF result[e] = "ok" THEN "fulfilled" ELSE "rejected"
<1>1. /\ queue \in [Modules -> Seq(Entries)] /\ cur \in Modules
      /\ pos \in 1..Len(queue[cur]) /\ uaf = "no"
      /\ item \in [Entries -> {"none", "undone", "done", "freed"}]
      /\ promise \in [Entries -> {"none", "pending", "fulfilled", "rejected"}]
      /\ queue' = [queue EXCEPT ![cur] = RemoveAt(@, pos)]
      /\ item' = [item EXCEPT ![e] = "freed"]
  BY DEF SettleInv, TypeOK, SettleEntry, Defined
<1>2. e \in Entries /\ promise[e] = "pending" /\ item[e] = "done"
  BY <1>1, ElementOfSeq DEF SettleInv, QueuedPending, SettleEntry
<1>3. uaf' = "no" => promise' = [promise EXCEPT ![e] = o]
  BY DEF SettleEntry
<1>4. promise' = promise \/ promise' = [promise EXCEPT ![e] = o]
  BY DEF SettleEntry
<1> HIDE DEF e, o
<1>5. /\ \A m \in Modules : m # cur => queue'[m] = queue[m]
      /\ Len(queue'[cur]) = Len(queue[cur]) - 1 /\ Len(queue[cur]) \in Nat
      /\ \A i \in 1..Len(queue'[cur]) :
           queue'[cur][i] = IF i < pos THEN queue[cur][i] ELSE queue[cur][i + 1]
  <2>1. queue[cur] \in Seq(Entries) /\ Len(queue[cur]) \in Nat
    BY <1>1, LenProperties
  <2>2. /\ queue'[cur] = RemoveAt(queue[cur], pos)
        /\ \A m \in Modules : m # cur => queue'[m] = queue[m]
    BY <1>1
  <2>3. /\ Len(RemoveAt(queue[cur], pos)) = Len(queue[cur]) - 1
        /\ \A k \in 1..Len(queue[cur]) - 1 :
             RemoveAt(queue[cur], pos)[k] = IF k < pos THEN queue[cur][k] ELSE queue[cur][k + 1]
    BY <1>1, <2>1, RemoveAtProperties
  <2>4. QED
    BY <2>1, <2>2, <2>3
(* Where the entries left in the queues were before. *)
<1> DEFINE Was(m, i) == IF m # cur \/ i < pos THEN i ELSE i + 1
<1>6. \A m \in Modules : \A i \in 1..Len(queue'[m]) :
        /\ Was(m, i) \in 1..Len(queue[m])
        /\ queue'[m][i] = queue[m][Was(m, i)]
        /\ m = cur => Was(m, i) # pos
  <2> SUFFICES ASSUME NEW m \in Modules, NEW i \in 1..Len(queue'[m])
               PROVE  /\ Was(m, i) \in 1..Len(queue[m])
                      /\ queue'[m][i] = queue[m][Was(m, i)]
                      /\ m = cur => Was(m, i) # pos
    OBVIOUS
  <2>1. CASE m # cur
    BY <1>5, <2>1
  <2>2. CASE m = cur
    BY <1>1, <1>5, <2>2
  <2>3. QED
    BY <2>1, <2>2
<1>7. \A m \in Modules : \A i, j \in 1..Len(queue'[m]) : Was(m, i) = Was(m, j) => i = j
  <2> SUFFICES ASSUME NEW m \in Modules,
                      NEW i \in 1..Len(queue'[m]), NEW j \in 1..Len(queue'[m]),
                      Was(m, i) = Was(m, j)
               PROVE  i = j
    OBVIOUS
  <2>1. i \in Int /\ j \in Int /\ pos \in Int
    BY <1>1
  <2>2. QED
    BY <2>1
<1> HIDE DEF Was
<1>8. QueuedOnce'
  <2> SUFFICES ASSUME NEW m \in Modules, NEW n \in Modules,
                      NEW i \in 1..Len(queue'[m]), NEW j \in 1..Len(queue'[n]),
                      queue'[m][i] = queue'[n][j]
               PROVE  m = n /\ i = j
    BY DEF QueuedOnce, Modules
  <2>1. /\ Was(m, i) \in 1..Len(queue[m]) /\ Was(n, j) \in 1..Len(queue[n])
        /\ queue[m][Was(m, i)] = queue[n][Was(n, j)]
    BY <1>6
  <2>2. m = n /\ Was(m, i) = Was(n, j)
    BY <2>1 DEF SettleInv, QueuedOnce
  <2>3. QED
    BY <1>7, <2>2
<1>9. \A m \in Modules : \A i \in 1..Len(queue'[m]) :
        /\ queue'[m][i] \in Entries /\ queue'[m][i] # e
        /\ promise[queue'[m][i]] = "pending" /\ item[queue'[m][i]] # "none"
  <2> SUFFICES ASSUME NEW m \in Modules, NEW i \in 1..Len(queue'[m])
               PROVE  /\ queue'[m][i] \in Entries /\ queue'[m][i] # e
                      /\ promise[queue'[m][i]] = "pending" /\ item[queue'[m][i]] # "none"
    OBVIOUS
  <2>1. Was(m, i) \in 1..Len(queue[m]) /\ queue'[m][i] = queue[m][Was(m, i)]
    BY <1>6
  <2>2. /\ queue[m][Was(m, i)] \in Entries
        /\ promise[queue[m][Was(m, i)]] = "pending" /\ item[queue[m][Was(m, i)]] # "none"
    BY <1>1, <2>1, ElementOfSeq DEF SettleInv, QueuedPending, QueuedMade
  <2>3. queue[m][Was(m, i)] # queue[cur][pos]
    BY <1>1, <1>6, <2>1 DEF SettleInv, QueuedOnce
  <2>4. QED
    BY <2>1, <2>2, <2>3 DEF e
<1>10. \A x \in Entries : x # e => item'[x] = item[x] /\ promise'[x] = promise[x]
  BY <1>1, <1>4
<1>11. QueuedPending' /\ QueuedMade'
  BY <1>9, <1>10 DEF QueuedPending, QueuedMade, Modules
<1>12. UnmadeHasNone'
  BY <1>1, <1>2, <1>10 DEF SettleInv, UnmadeHasNone
<1>13. SettlesRight
  BY <1>1, <1>2, <1>4, <1>10 DEF SettlesRight, o
<1>14. QED
  BY <1>8, <1>11, <1>12, <1>13 DEF SettleInv

(* end() rejects only what I2C and SPI still have queued. *)
LEMMA EndSettle ==
  ASSUME SettleInv, TypeOK', End
  PROVE  SettleInv' /\ SettlesRight
<1> DEFINE gone == UNION {ToSet(queue[m]) : m \in EndModules}
<1>1. /\ queue \in [Modules -> Seq(Entries)] /\ uaf = "no" /\ js' = "ended"
      /\ item \in [Entries -> {"none", "undone", "done", "freed"}]
      /\ promise \in [Entries -> {"none", "pending", "fulfilled", "rejected"}]
      /\ queue' = [m \in Modules |-> IF m \in EndModules THEN <<>> ELSE queue[m]]
      /\ item' = [e \in Entries |-> IF e \in gone THEN "freed" ELSE item[e]]
  BY DEF SettleInv, TypeOK, End, Defined
<1>2. uaf' = "no" => promise' = [e \in Entries |-> IF e \in gone THEN "rejected" ELSE promise[e]]
  BY DEF End
<1>3. \/ promise' = promise
      \/ promise' = [e \in Entries |-> IF e \in gone THEN "rejected" ELSE promise[e]]
  BY DEF End
<1>4. \A m \in Modules : ToSet(queue[m]) = {queue[m][i] : i \in 1..Len(queue[m])}
  BY <1>1, LenProperties DEF ToSet
<1>5. \A x \in gone : \E m \in EndModules : m \in Modules /\ \E i \in 1..Len(queue[m]) : queue[m][i] = x
  BY <1>4, WorkerAssumption DEF WorkerAssumption, Modules
<1> HIDE DEF gone
<1>6. \A m \in Modules : \A i \in 1..Len(queue'[m]) :
        /\ m \notin EndModules /\ i \in 1..Len(queue[m]) /\ queue'[m][i] = queue[m][i]
  <2> SUFFICES ASSUME NEW m \in Modules, NEW i \in 1..Len(queue'[m])
               PROVE  m \notin EndModules /\ i \in 1..Len(queue[m]) /\ queue'[m][i] = queue[m][i]
    OBVIOUS
  <2>1. CASE m \in EndModules
    BY <1>1, <2>1
  <2>2. CASE m \notin EndModules
    BY <1>1, <2>2
  <2>3. QED
    BY <2>1, <2>2
<1>7. QueuedOnce'
  BY <1>6 DEF SettleInv, QueuedOnce, Modules
<1>8. \A m \in Modules : \A i \in 1..Len(queue'[m]) :
        queue'[m][i] \in Entries /\ queue'[m][i] \notin gone
  <2> SUFFICES ASSUME NEW m \in Modules, NEW i \in 1..Len(queue'[m]), queue'[m][i] \in gone
               PROVE  FALSE
    BY <1>1, <1>6, ElementOfSeq
  <2>1. PICK n \in EndModules : n \in Modules /\ \E j \in 1..Len(queue[n]) : queue[n][j] = queue'[m][i]
    BY <1>5
  <2>2. n = m
    BY <1>6, <2>1 DEF SettleInv, QueuedOnce
  <2>3. QED
    BY <1>6, <2>1, <2>2
<1>9. QueuedPending' /\ QueuedMade'
  <2>1. QueuedPending'
    BY <1>1, <1>2, <1>6, <1>8 DEF SettleInv, QueuedPending, Modules
  <2>2. QueuedMade'
    BY <1>1, <1>6, <1>8 DEF SettleInv, QueuedMade, Modules
  <2>3. QED
    BY <2>1, <2>2
<1>10. \A x \in gone : promise[x] = "pending"
  BY <1>1, <1>5 DEF SettleInv, QueuedPending
<1>11. UnmadeHasNone'
  BY <1>1, <1>3 DEF SettleInv, UnmadeHasNone
<1>12. SettlesRight
  BY <1>1, <1>3, <1>10 DEF SettlesRight
<1>13. QED
  BY <1>7, <1>9, <1>11, <1>12 DEF SettleInv

LEMMA NextSettle == SettleInv /\ [Next]_vars => SettleInv' /\ SettlesRight
<1> SUFFICES ASSUME SettleInv, [Next]_vars PROVE SettleInv' /\ SettlesRight
  OBVIOUS
<1>1. TypeOK'
  BY NextTypeOK DEF SettleInv
<1>2. ASSUME NEW e \in Entries, NEW m \in Modules, Submit(e, m) PROVE SettleInv' /\ SettlesRight
  BY <1>1, <1>2, SubmitSettle
<1>3. CASE Give \/ StartLoop \/ SkipEntry \/ NextModule
  BY <1>1, <1>3, StaySettle DEF Give, StartLoop, SkipEntry, NextModule, evars
<1>4. CASE Take \/ Swap \/ BatchDone \/ UNCHANGED vars
  BY <1>1, <1>4, StaySettle DEF Take, Swap, BatchDone, vars, jvars, evars
<1>5. ASSUME NEW o \in {"ok", "error"}, Process(o) PROVE SettleInv' /\ SettlesRight
  <2>1. UNCHANGED <<queue, promise>> /\ uaf = "no"
    BY <1>5 DEF Process, jvars, Defined
  <2>2. work # <<>> /\ work \in Seq(Entries) /\ item \in [Entries -> {"none", "undone", "done", "freed"}]
    BY <1>5 DEF Process, SettleInv, TypeOK
  <2>3. Head(work) \in Entries
    BY <2>2, HeadTailProperties
  <2>4. item' = item \/ item' = [item EXCEPT ![Head(work)] = "done"]
    BY <1>5 DEF Process
  <2>5. QED
    BY <1>1, <2>1, <2>2, <2>3, <2>4, StaySettle
<1>6. QED
  BY <1>1, <1>2, <1>3, <1>4, <1>5, SettleSettle, EndSettle DEF Next, JSTaskStep, WorkerStep

(* A promise is settled once, by loop() with the outcome the worker wrote  *)
(* and after it wrote it, or rejected by end(), whatever the program calls.*)
THEOREM SettledOnce == Spec => SettledByOutcome
<1>1. Init => SettleInv
  BY InitTypeOK DEF Init, SettleInv, QueuedOnce, QueuedPending, QueuedMade, UnmadeHasNone
<1>2. SettleInv /\ [Next]_vars => SettleInv'
  BY NextSettle
<1>3. SettleInv /\ [Next]_vars => [SettlesRight]_vars
  BY NextSettle
<1>4. Spec => [][SettlesRight]_vars
  BY <1>1, <1>2, <1>3, PTL DEF Spec
<1>5. QED
  BY <1>4 DEF SettledByOutcome, SettlesRight

-----------------------------------------------------------------------------
(***************************************************************************)
(* JSI2C, one of the modules whose operations the worker runs, for any     *)
(* number of calls and any pins.                                           *)
(***************************************************************************)

(* A nonempty set of numbers has a first one.                              *)
LEMMA FirstIsIn ==
  ASSUME NEW S \in SUBSET Nat, S # {}
  PROVE  First(S) \in S
<1> DEFINE R == OpToRel(<, Nat)
<1>1. IsWellFoundedOn(R, Nat)
  BY NatLessThanWellFounded
<1>2. \A j, i \in Nat : j < i => <<j, i>> \in R
  BY DEF OpToRel
<1> HIDE DEF R
<1>3. \E i \in S : \A j \in S : ~ (<<j, i>> \in R)
  BY <1>1, WFMin, Zenon
<1>4. PICK i \in S : \A j \in S : ~ (<<j, i>> \in R)
  BY <1>3
<1>5. ASSUME NEW j \in S PROVE i <= j
  <2>1. i \in Nat /\ j \in Nat
    OBVIOUS
  <2>2. ~(j < i)
    BY <1>2, <1>4, <2>1
  <2>3. QED
    BY <2>1, <2>2
<1>6. QED
  BY <1>5 DEF First

-----------------------------------------------------------------------------
(* The inductive invariant.                                                *)

Bus == [pins : Pins, installed : BOOLEAN]

(* The entries in the line of the worker are there once, and not done.     *)
LineOK ==
  \A i \in 1..Len(waiting) :
    /\ entry[waiting[i]].status = "waiting"
    /\ \A j \in 1..Len(waiting) : waiting[i] = waiting[j] => i = j

OpenHasPins == \A e \in Calls : entry[e].kind = "open" => entry[e].pins \in Pins

(* While the worker pushes a bus on the table the driver already runs on   *)
(* its pins, and the table has no other bus installed.                     *)
GrowOK ==
  growing =>
    /\ waiting # <<>> /\ entry[Head(waiting)].kind = "open"
    /\ InstalledBuses = {} /\ driver = entry[Head(waiting)].pins

I2CInv == I2CTypeOK /\ LineOK /\ OpenHasPins /\ GrowOK /\ OneBus /\ OpenGivesItsPins

LEMMA InitI2CInv ==
  ASSUME I2CInit
  PROVE  I2CInv
<1>1. buses = <<>> /\ waiting = <<>> /\ driver = None /\ growing = FALSE
      /\ entry = [e \in Calls |-> Unused]
  BY DEF I2CInit
<1>2. <<>> \in Seq(Bus) /\ <<>> \in Seq(Calls) /\ Len(<<>>) = 0
  OBVIOUS
<1>3. Unused \in EntryType
  <2>1. NoHandle \in Handles
    BY I2CAssumption, FS_CardinalityType DEF NoHandle, Handles
  <2>2. QED
    BY <2>1 DEF Unused, EntryType, NoHandle
<1>4. I2CTypeOK
  <2>1. entry \in [Calls -> EntryType]
    BY <1>1, <1>3
  <2>2. \A e \in Calls : entry[e].busHandle = 0
    BY <1>1 DEF Unused, NoHandle
  <2>3. Len(buses) = 0
    BY <1>1, <1>2
  <2>4. \A e \in Calls : entry[e].busHandle <= Len(buses)
    BY <2>2, <2>3
  <2>5. /\ buses \in Seq([pins : Pins, installed : BOOLEAN])
        /\ waiting \in Seq(Calls) /\ driver \in Pins \union {None} /\ growing \in BOOLEAN
    BY <1>1, <1>2 DEF Bus
  <2>6. QED
    BY <2>1, <2>4, <2>5 DEF I2CTypeOK
<1>5. LineOK /\ GrowOK /\ OneBus
  BY <1>1, <1>2 DEF LineOK, GrowOK, OneBus, InstalledBuses
<1>6. OpenHasPins /\ OpenGivesItsPins
  BY <1>1 DEF OpenHasPins, OpenGivesItsPins, Unused, None
<1>7. QED
  BY <1>4, <1>5, <1>6 DEF I2CInv

-----------------------------------------------------------------------------
(* The JS task.                                                            *)

LEMMA EnqueueI2CInv ==
  ASSUME I2CInv, NEW e \in Calls, NEW k \in Kinds, NEW p \in Pins \union {None},
         NEW h \in Handles, k = "open" => p \in Pins, Enqueue(e, k, p, h)
  PROVE  I2CInv'
<1> DEFINE n == [kind |-> k, pins |-> p, handle |-> h, status |-> "waiting",
                 busHandle |-> NoHandle, used |-> None]
<1>1. /\ entry[e].status = "none"
      /\ entry' = [entry EXCEPT ![e] = n]
      /\ waiting' = Append(waiting, e)
      /\ buses' = buses /\ driver' = driver /\ growing' = growing
  BY DEF Enqueue
<1>2. waiting \in Seq(Calls) /\ entry \in [Calls -> EntryType] /\ buses \in Seq(Bus)
  BY DEF I2CInv, I2CTypeOK, Bus
<1>3. n \in EntryType
  BY DEF EntryType, NoHandle
<1>4. \A f \in Calls : entry'[f] = IF f = e THEN n ELSE entry[f]
  BY <1>1, <1>2
<1>5. /\ waiting' \in Seq(Calls) /\ Len(waiting') = Len(waiting) + 1
      /\ \A i \in 1..Len(waiting) : waiting'[i] = waiting[i]
      /\ waiting'[Len(waiting) + 1] = e
  BY <1>1, <1>2, AppendProperties
<1>6. I2CTypeOK'
  <2>1. entry' \in [Calls -> EntryType]
    BY <1>1, <1>2, <1>3
  <2>2. \A f \in Calls : entry'[f].busHandle <= Len(buses')
    <3>1. \A f \in Calls : entry[f].busHandle <= Len(buses)
      BY DEF I2CInv, I2CTypeOK
    <3>2. n.busHandle = 0 /\ Len(buses) \in Nat
      BY <1>2 DEF NoHandle
    <3>3. QED
      BY <1>1, <1>4, <3>1, <3>2
  <2>3. QED
    BY <1>1, <1>5, <2>1, <2>2 DEF I2CInv, I2CTypeOK
<1>7. LineOK'
  <2>1. \A i \in 1..Len(waiting) : waiting[i] \in Calls /\ waiting[i] # e
    BY <1>1, <1>2 DEF I2CInv, LineOK
  <2>2. \A i \in 1..Len(waiting') : i \in 1..Len(waiting) \/ i = Len(waiting) + 1
    BY <1>2, <1>5
  <2>3. \A i \in 1..Len(waiting') : entry'[waiting'[i]].status = "waiting"
    BY <1>4, <1>5, <2>1, <2>2 DEF I2CInv, LineOK
  <2>4. \A i, j \in 1..Len(waiting') : waiting'[i] = waiting'[j] => i = j
    <3>1. \A i, j \in 1..Len(waiting) : waiting[i] = waiting[j] => i = j
      BY DEF I2CInv, LineOK
    <3>2. QED
      BY <1>5, <2>1, <2>2, <3>1
  <2>5. QED
    BY <2>3, <2>4 DEF LineOK
<1>8. OpenHasPins' /\ OpenGivesItsPins'
  BY <1>1, <1>4 DEF I2CInv, OpenHasPins, OpenGivesItsPins, NoHandle
<1>9. GrowOK'
  <2>1. ASSUME growing PROVE waiting # <<>> /\ Head(waiting) \in Calls /\ Head(waiting) # e
    BY <1>1, <1>2, <2>1 DEF I2CInv, GrowOK, LineOK
  <2>2. ASSUME growing PROVE waiting' # <<>> /\ Head(waiting') = Head(waiting)
    BY <1>1, <1>2, <1>5, <2>1, <2>2
  <2>3. InstalledBuses' = InstalledBuses
    BY <1>1 DEF InstalledBuses
  <2>4. QED
    BY <1>1, <1>4, <2>1, <2>2, <2>3 DEF I2CInv, GrowOK
<1>10. OneBus'
  BY <1>1 DEF I2CInv, OneBus, InstalledBuses
<1>11. QED
  BY <1>6, <1>7, <1>8, <1>9, <1>10 DEF I2CInv

LEMMA SettleI2CInv ==
  ASSUME I2CInv, NEW e \in Calls, Settle(e)
  PROVE  I2CInv'
<1>1. PICK s \in {"fulfilled", "rejected"} :
        entry' = [entry EXCEPT ![e] = [entry[e] EXCEPT !.status = s]]
  BY DEF Settle, Finish
<1>2. /\ entry[e].status # "waiting"
      /\ buses' = buses /\ driver' = driver /\ growing' = growing /\ waiting' = waiting
  BY DEF Settle
<1>3. waiting \in Seq(Calls) /\ entry \in [Calls -> EntryType] /\ entry[e] \in EntryType
  BY DEF I2CInv, I2CTypeOK
<1>4. [entry[e] EXCEPT !.status = s] \in EntryType
  BY <1>3 DEF EntryType
<1>5. \A f \in Calls : entry'[f] = IF f = e THEN [entry[e] EXCEPT !.status = s] ELSE entry[f]
  BY <1>1, <1>3
<1>6. \A f \in Calls : /\ entry'[f].kind = entry[f].kind /\ entry'[f].pins = entry[f].pins
                         /\ entry'[f].busHandle = entry[f].busHandle
  BY <1>3, <1>5 DEF EntryType
<1>7. I2CTypeOK'
  BY <1>1, <1>2, <1>3, <1>4, <1>6 DEF I2CInv, I2CTypeOK
<1>8. \A i \in 1..Len(waiting) : waiting[i] \in Calls /\ waiting[i] # e
  BY <1>2, <1>3 DEF I2CInv, LineOK
<1>9. LineOK'
  BY <1>2, <1>5, <1>8 DEF I2CInv, LineOK
<1>10. OpenHasPins' /\ OpenGivesItsPins' /\ OneBus'
  BY <1>2, <1>6 DEF I2CInv, OpenHasPins, OpenGivesItsPins, OneBus, InstalledBuses
<1>11. GrowOK'
  <2>1. growing => Head(waiting) \in Calls
    BY <1>3 DEF I2CInv, GrowOK
  <2>2. QED
    BY <1>2, <1>6, <2>1 DEF I2CInv, GrowOK, InstalledBuses
<1>12. QED
  BY <1>7, <1>9, <1>10, <1>11 DEF I2CInv

-----------------------------------------------------------------------------
(* The worker task: each of its steps but OpenInstall's first is through   *)
(* with the entry at the head of the line.                                 *)

LEMMA HeadDone ==
  ASSUME I2CInv, waiting # <<>>, NEW r \in EntryType, r.status # "waiting",
         entry' = [entry EXCEPT ![Head(waiting)] = r], waiting' = Tail(waiting)
  PROVE  /\ Head(waiting) \in Calls
         /\ waiting' \in Seq(Calls)
         /\ entry' \in [Calls -> EntryType]
         /\ \A f \in Calls : entry'[f] = IF f = Head(waiting) THEN r ELSE entry[f]
         /\ LineOK'
<1>1. waiting \in Seq(Calls) /\ entry \in [Calls -> EntryType]
  BY DEF I2CInv, I2CTypeOK
<1>2. /\ Head(waiting) \in Calls /\ waiting' \in Seq(Calls)
      /\ Len(waiting') = Len(waiting) - 1
      /\ \A i \in 1..Len(waiting') : waiting'[i] = waiting[i + 1]
      /\ Head(waiting) = waiting[1]
  BY <1>1, HeadTailProperties
<1>3. \A f \in Calls : entry'[f] = IF f = Head(waiting) THEN r ELSE entry[f]
  BY <1>1, <1>2
<1>4. Len(waiting) \in Nat /\ Len(waiting) >= 1
  BY <1>1, EmptySeq
<1>5. \A i \in 1..Len(waiting') : i + 1 \in 1..Len(waiting) /\ i + 1 # 1 /\ 1 \in 1..Len(waiting)
  BY <1>2, <1>4
<1>6. \A i \in 1..Len(waiting') : waiting'[i] \in Calls /\ waiting'[i] # Head(waiting)
  BY <1>1, <1>2, <1>5 DEF I2CInv, LineOK
<1>7. \A i \in 1..Len(waiting') : entry'[waiting'[i]].status = "waiting"
  BY <1>2, <1>3, <1>5, <1>6 DEF I2CInv, LineOK
<1>8. \A i, j \in 1..Len(waiting') : waiting'[i] = waiting'[j] => i = j
  <2> SUFFICES ASSUME NEW i \in 1..Len(waiting'), NEW j \in 1..Len(waiting'),
                      waiting'[i] = waiting'[j]
               PROVE  i = j
    OBVIOUS
  <2>1. i + 1 = j + 1
    BY <1>2, <1>5 DEF I2CInv, LineOK
  <2>2. QED
    BY <1>2, <1>4, <2>1
<1>9. QED
  BY <1>1, <1>2, <1>3, <1>7, <1>8 DEF LineOK

(* An entry that fails, or whose transfer is over, changes nothing else    *)
(* but a driver no bus of the table stands for.                            *)
LEMMA OnlyHeadDone ==
  ASSUME I2CInv, ~growing, waiting # <<>>, NEW r \in EntryType, r.status # "waiting",
         entry' = [entry EXCEPT ![Head(waiting)] = r], waiting' = Tail(waiting),
         r.kind = entry[Head(waiting)].kind, r.pins = entry[Head(waiting)].pins,
         r.busHandle = entry[Head(waiting)].busHandle,
         buses' = buses, growing' = growing,
         driver' = driver \/ (InstalledBuses = {} /\ driver' \in Pins)
  PROVE  I2CInv'
<1>1. /\ Head(waiting) \in Calls /\ waiting' \in Seq(Calls) /\ LineOK'
      /\ entry' \in [Calls -> EntryType]
      /\ \A f \in Calls : entry'[f] = IF f = Head(waiting) THEN r ELSE entry[f]
  BY HeadDone
<1>2. \A f \in Calls : /\ entry'[f].kind = entry[f].kind /\ entry'[f].pins = entry[f].pins
                         /\ entry'[f].busHandle = entry[f].busHandle
  BY <1>1
<1>3. I2CTypeOK'
  BY <1>1, <1>2 DEF I2CInv, I2CTypeOK
<1>4. OpenHasPins' /\ OpenGivesItsPins' /\ OneBus' /\ GrowOK'
  BY <1>2 DEF I2CInv, OpenHasPins, OpenGivesItsPins, OneBus, GrowOK, InstalledBuses
<1>5. QED
  BY <1>1, <1>3, <1>4 DEF I2CInv

LEMMA FinishI2CInv ==
  ASSUME I2CInv, ~growing, waiting # <<>>, NEW s \in {"ok", "error"},
         Finish(Head(waiting), s), waiting' = Tail(waiting),
         buses' = buses, growing' = growing,
         driver' = driver \/ (InstalledBuses = {} /\ driver' \in Pins)
  PROVE  I2CInv'
<1> DEFINE r == [entry[Head(waiting)] EXCEPT !.status = s]
<1>1. entry[Head(waiting)] \in EntryType
  <2>1. waiting \in Seq(Calls) /\ entry \in [Calls -> EntryType]
    BY DEF I2CInv, I2CTypeOK
  <2>2. QED
    BY <2>1, HeadTailProperties
<1>2. /\ r \in EntryType /\ r.status # "waiting"
      /\ r.kind = entry[Head(waiting)].kind /\ r.pins = entry[Head(waiting)].pins
      /\ r.busHandle = entry[Head(waiting)].busHandle
  BY <1>1 DEF EntryType
<1>3. entry' = [entry EXCEPT ![Head(waiting)] = r]
  BY DEF Finish
<1> HIDE DEF r
<1>4. QED
  BY <1>2, <1>3, OnlyHeadDone

LEMMA TransferI2CInv ==
  ASSUME I2CInv, Transfer
  PROVE  I2CInv'
<1> DEFINE e == Head(waiting)
<1>1. /\ waiting # <<>> /\ ~growing /\ waiting' = Tail(waiting)
      /\ buses' = buses /\ driver' = driver /\ growing' = growing
  BY DEF Transfer
<1>2. CASE InstalledBuses = {}
  BY <1>1, <1>2, FinishI2CInv DEF Transfer
<1>3. CASE InstalledBuses # {}
  <2> DEFINE u == buses[First(InstalledBuses)].pins
  <2>1. PICK s \in {"ok", "error"} :
          entry' = [entry EXCEPT ![e] = [entry[e] EXCEPT !.status = s, !.used = u]]
    BY <1>3 DEF Transfer
  <2> DEFINE r == [entry[e] EXCEPT !.status = s, !.used = u]
  <2>2. u \in Pins
    <3>1. buses \in Seq(Bus) /\ InstalledBuses \subseteq 1..Len(buses)
      BY DEF I2CInv, I2CTypeOK, Bus, InstalledBuses
    <3>2. First(InstalledBuses) \in 1..Len(buses)
      <4>1. InstalledBuses \in SUBSET Nat
        BY <3>1
      <4>2. QED
        BY <1>3, <3>1, <4>1, FirstIsIn
    <3>3. buses[First(InstalledBuses)] \in Bus
      BY <3>1, <3>2
    <3>4. QED
      BY <3>3 DEF Bus
  <2>3. entry[e] \in EntryType
    <3>1. waiting \in Seq(Calls) /\ entry \in [Calls -> EntryType]
      BY DEF I2CInv, I2CTypeOK
    <3>2. QED
      BY <1>1, <3>1, HeadTailProperties
  <2> HIDE DEF u
  <2>4. /\ r \in EntryType /\ r.status # "waiting" /\ r.kind = entry[e].kind
        /\ r.pins = entry[e].pins /\ r.busHandle = entry[e].busHandle
    BY <2>2, <2>3 DEF EntryType
  <2>5. entry' = [entry EXCEPT ![e] = r]
    BY <2>1
  <2> HIDE DEF r
  <2>6. QED
    BY <1>1, <2>4, <2>5, OnlyHeadDone
<1>4. QED
  BY <1>2, <1>3

(* OP_CLOSE: no bus is installed afterwards.                               *)
LEMMA CloseI2CInv ==
  ASSUME I2CInv, Close
  PROVE  I2CInv'
<1> DEFINE e == Head(waiting)
           h == entry[e].handle
<1>1. waiting # <<>> /\ ~growing /\ waiting' = Tail(waiting) /\ growing' = growing
  BY DEF Close
<1>2. CASE ~Installed(h)
  BY <1>1, <1>2, FinishI2CInv DEF Close
<1>3. CASE Installed(h)
  <2>1. PICK s \in {"ok", "error"} : Finish(e, s) /\ (driver' = None \/ driver' = driver)
    BY <1>3 DEF Close
  <2>2. buses' = [buses EXCEPT ![h] = [buses[h] EXCEPT !.installed = FALSE]]
    BY <1>3 DEF Close
  <2> DEFINE r == [entry[e] EXCEPT !.status = s]
  <2>3. /\ waiting \in Seq(Calls) /\ entry \in [Calls -> EntryType] /\ buses \in Seq(Bus)
        /\ h \in 1..Len(buses) /\ buses[h].installed
    BY <1>3 DEF I2CInv, I2CTypeOK, Bus, Installed
  <2>4. entry[e] \in EntryType
    BY <1>1, <2>3, HeadTailProperties
  <2>5. /\ r \in EntryType /\ r.status # "waiting" /\ r.kind = entry[e].kind
        /\ r.pins = entry[e].pins /\ r.busHandle = entry[e].busHandle
    BY <2>4 DEF EntryType
  <2>6. entry' = [entry EXCEPT ![e] = r]
    BY <2>1 DEF Finish
  <2> HIDE DEF r
  <2>7. /\ e \in Calls /\ waiting' \in Seq(Calls) /\ LineOK'
        /\ entry' \in [Calls -> EntryType]
        /\ \A f \in Calls : entry'[f] = IF f = e THEN r ELSE entry[f]
    BY <1>1, <2>5, <2>6, HeadDone
  <2>8. \A f \in Calls : /\ entry'[f].kind = entry[f].kind /\ entry'[f].pins = entry[f].pins
                           /\ entry'[f].busHandle = entry[f].busHandle
    BY <2>5, <2>7
  <2>9. buses[h] \in Bus
    BY <2>3
  <2>10. [buses[h] EXCEPT !.installed = FALSE] \in Bus
    BY <2>9 DEF Bus
  <2>11. /\ buses' \in Seq(Bus) /\ Len(buses') = Len(buses)
         /\ \A i \in 1..Len(buses) :
              buses'[i] = IF i = h THEN [buses[h] EXCEPT !.installed = FALSE] ELSE buses[i]
    BY <2>2, <2>3, <2>10, ExceptSeq
  <2>12. \A i \in 1..Len(buses) : buses'[i].pins = buses[i].pins
    BY <2>9, <2>11 DEF Bus
  <2>13. InstalledBuses' = {}
    <3>1. InstalledBuses = {h}
      BY <2>3 DEF I2CInv, OneBus, InstalledBuses
    <3>2. ~buses'[h].installed
      BY <2>3, <2>9, <2>11 DEF Bus
    <3>3. \A i \in 1..Len(buses) : ~buses'[i].installed
      BY <2>11, <3>1, <3>2 DEF InstalledBuses
    <3>4. QED
      BY <2>11, <3>3 DEF InstalledBuses
  <2>14. I2CTypeOK'
    <3>1. driver' \in Pins \union {None}
      BY <2>1 DEF I2CInv, I2CTypeOK
    <3>2. \A f \in Calls : entry'[f].busHandle <= Len(buses')
      BY <2>8, <2>11 DEF I2CInv, I2CTypeOK
    <3>3. QED
      BY <1>1, <2>7, <2>11, <3>1, <3>2 DEF I2CInv, I2CTypeOK, Bus
  <2>15. OpenGivesItsPins'
    <3>1. \A f \in Calls :
            entry[f].busHandle # NoHandle => entry[f].busHandle \in 1..Len(buses)
      BY <2>3 DEF I2CInv, I2CTypeOK, EntryType, NoHandle
    <3>2. QED
      BY <2>8, <2>12, <3>1 DEF I2CInv, OpenGivesItsPins
  <2>16. OpenHasPins' /\ GrowOK' /\ OneBus'
    BY <1>1, <2>8, <2>13 DEF I2CInv, OpenHasPins, GrowOK, OneBus
  <2>17. QED
    BY <2>7, <2>14, <2>15, <2>16 DEF I2CInv
<1>4. QED
  BY <1>2, <1>3

LEMMA OpenExistingI2CInv ==
  ASSUME I2CInv, OpenExisting
  PROVE  I2CInv'
<1> DEFINE e == Head(waiting)
           h == First(Same(entry[e].pins))
           r == [entry[e] EXCEPT !.status = "ok", !.busHandle = h]
<1>1. /\ waiting # <<>> /\ ~growing /\ waiting' = Tail(waiting)
      /\ buses' = buses /\ driver' = driver /\ growing' = growing
      /\ Same(entry[e].pins) # {}
  BY DEF OpenExisting
<1>2. entry' = [entry EXCEPT ![e] = r]
  BY DEF OpenExisting, FinishOpen
<1>3. waiting \in Seq(Calls) /\ entry \in [Calls -> EntryType] /\ buses \in Seq(Bus)
  BY DEF I2CInv, I2CTypeOK, Bus
<1>4. entry[e] \in EntryType
  BY <1>1, <1>3, HeadTailProperties
<1>5. h \in 1..Len(buses) /\ buses[h].pins = entry[e].pins
  <2>1. Same(entry[e].pins) \subseteq Nat /\ Same(entry[e].pins) \subseteq 1..Len(buses)
    BY <1>3 DEF Same
  <2>2. h \in Same(entry[e].pins)
    BY <1>1, <2>1, FirstIsIn
  <2>3. QED
    BY <2>2 DEF Same
<1> HIDE DEF h
<1>6. h \in Nat /\ h <= Len(buses)
  BY <1>3, <1>5
<1>7. /\ r \in EntryType /\ r.status # "waiting" /\ r.kind = entry[e].kind
      /\ r.pins = entry[e].pins /\ r.busHandle = h
  BY <1>4, <1>6 DEF EntryType
<1> HIDE DEF r
<1>8. /\ e \in Calls /\ waiting' \in Seq(Calls) /\ LineOK'
      /\ entry' \in [Calls -> EntryType]
      /\ \A f \in Calls : entry'[f] = IF f = e THEN r ELSE entry[f]
  BY <1>1, <1>2, <1>7, HeadDone
<1>9. I2CTypeOK'
  <2>1. \A f \in Calls : entry'[f].busHandle <= Len(buses')
    BY <1>1, <1>6, <1>7, <1>8 DEF I2CInv, I2CTypeOK
  <2>2. QED
    BY <1>1, <1>8, <2>1 DEF I2CInv, I2CTypeOK
<1>10. OpenGivesItsPins' /\ OpenHasPins' /\ OneBus' /\ GrowOK'
  BY <1>1, <1>5, <1>7, <1>8
     DEF I2CInv, OpenGivesItsPins, OpenHasPins, OneBus, GrowOK, InstalledBuses
<1>11. QED
  BY <1>8, <1>9, <1>10 DEF I2CInv

(* The driver is installed only when it is not: no bus is, then.           *)
LEMMA OpenInstallI2CInv ==
  ASSUME I2CInv, OpenInstall
  PROVE  I2CInv'
<1> DEFINE e == Head(waiting)
<1>1. waiting # <<>> /\ ~growing /\ buses' = buses /\ entry[e].kind = "open"
  BY DEF OpenInstall
<1>2. ASSUME driver = None PROVE InstalledBuses = {}
  <2> SUFFICES ASSUME NEW i \in InstalledBuses PROVE FALSE
    OBVIOUS
  <2>1. i \in 1..Len(buses) /\ driver = buses[i].pins
    BY DEF I2CInv, OneBus, InstalledBuses
  <2>2. buses \in Seq(Bus)
    BY DEF I2CInv, I2CTypeOK, Bus
  <2>3. buses[i] \in Bus
    BY <2>1, <2>2
  <2>4. QED
    BY <1>2, <2>1, <2>3, I2CAssumption DEF Bus
<1>3. CASE /\ Finish(e, "error") /\ waiting' = Tail(waiting) /\ growing' = growing
           /\ driver' = driver \/ (driver = None /\ driver' \in Pins)
  BY <1>1, <1>2, <1>3, FinishI2CInv
<1>4. CASE /\ driver = None /\ driver' = entry[e].pins /\ growing' = TRUE
           /\ UNCHANGED <<waiting, entry>>
  <2>1. waiting \in Seq(Calls) /\ e \in Calls
    BY <1>1, HeadTailProperties DEF I2CInv, I2CTypeOK
  <2>2. entry[e].pins \in Pins
    BY <1>1, <2>1 DEF I2CInv, OpenHasPins
  <2>3. InstalledBuses' = {}
    BY <1>1, <1>2, <1>4 DEF InstalledBuses
  <2>4. I2CTypeOK'
    BY <1>1, <1>4, <2>2 DEF I2CInv, I2CTypeOK
  <2>5. LineOK' /\ OpenHasPins' /\ OpenGivesItsPins'
    BY <1>1, <1>4 DEF I2CInv, LineOK, OpenHasPins, OpenGivesItsPins
  <2>6. GrowOK' /\ OneBus'
    BY <1>1, <1>4, <2>3 DEF GrowOK, OneBus
  <2>7. QED
    BY <2>4, <2>5, <2>6 DEF I2CInv
<1>5. QED
  BY <1>3, <1>4 DEF OpenInstall

LEMMA OpenPushedI2CInv ==
  ASSUME I2CInv, OpenPushed
  PROVE  I2CInv'
<1> DEFINE e == Head(waiting)
           h == Len(buses) + 1
           b == [pins |-> entry[e].pins, installed |-> TRUE]
           r == [entry[e] EXCEPT !.status = "ok", !.busHandle = h]
<1>1. /\ growing /\ waiting # <<>> /\ entry[e].kind = "open"
      /\ InstalledBuses = {} /\ driver = entry[e].pins
  BY DEF OpenPushed, I2CInv, GrowOK
<1>2. /\ buses' = Append(buses, b) /\ entry' = [entry EXCEPT ![e] = r]
      /\ waiting' = Tail(waiting) /\ growing' = FALSE /\ driver' = driver
  BY DEF OpenPushed, FinishOpen
<1>3. waiting \in Seq(Calls) /\ entry \in [Calls -> EntryType] /\ buses \in Seq(Bus)
  BY DEF I2CInv, I2CTypeOK, Bus
<1>4. e \in Calls /\ entry[e] \in EntryType
  BY <1>1, <1>3, HeadTailProperties
<1>5. h \in Nat /\ Len(buses) \in Nat
  BY <1>3
<1>6. b \in Bus
  BY <1>1, <1>4 DEF Bus, I2CInv, OpenHasPins
<1>7. /\ r \in EntryType /\ r.status # "waiting" /\ r.kind = entry[e].kind
      /\ r.pins = entry[e].pins /\ r.busHandle = h
  BY <1>4, <1>5 DEF EntryType
<1>8. b.pins = entry[e].pins /\ b.installed
  OBVIOUS
<1> HIDE DEF r, b
<1>9. /\ waiting' \in Seq(Calls) /\ LineOK'
      /\ entry' \in [Calls -> EntryType]
      /\ \A f \in Calls : entry'[f] = IF f = e THEN r ELSE entry[f]
  BY <1>1, <1>2, <1>7, HeadDone
<1>10. /\ buses' \in Seq(Bus) /\ Len(buses') = h
       /\ \A i \in 1..Len(buses) : buses'[i] = buses[i]
       /\ buses'[h] = b
  BY <1>2, <1>3, <1>6, AppendProperties
<1>11. I2CTypeOK'
  <2>1. \A f \in Calls : entry'[f].busHandle <= Len(buses')
    <3>1. \A f \in Calls : entry[f].busHandle \in Nat /\ entry[f].busHandle <= Len(buses)
      BY <1>3 DEF I2CInv, I2CTypeOK, EntryType
    <3>2. QED
      BY <1>5, <1>7, <1>9, <1>10, <3>1
  <2>2. QED
    BY <1>2, <1>9, <1>10, <2>1 DEF I2CInv, I2CTypeOK, Bus
<1>12. OpenGivesItsPins'
  <2>1. \A f \in Calls :
          entry[f].busHandle # NoHandle => entry[f].busHandle \in 1..Len(buses)
    BY <1>3 DEF I2CInv, I2CTypeOK, EntryType, NoHandle
  <2>2. QED
    BY <1>7, <1>8, <1>9, <1>10, <2>1 DEF I2CInv, OpenGivesItsPins
<1>13. InstalledBuses' = {h}
  <2>1. \A i \in 1..Len(buses) : ~buses'[i].installed
    BY <1>1, <1>10 DEF InstalledBuses
  <2>2. \A i \in 1..Len(buses') : i \in 1..Len(buses) \/ i = h
    BY <1>5, <1>10
  <2>3. h \in 1..Len(buses')
    BY <1>5, <1>10
  <2>4. QED
    BY <1>8, <1>10, <2>1, <2>2, <2>3 DEF InstalledBuses
<1>14. OneBus' /\ GrowOK' /\ OpenHasPins'
  BY <1>1, <1>2, <1>7, <1>8, <1>9, <1>10, <1>13 DEF I2CInv, OneBus, GrowOK, OpenHasPins
<1>15. QED
  BY <1>9, <1>11, <1>12, <1>14 DEF I2CInv

-----------------------------------------------------------------------------
LEMMA NextI2CInv ==
  ASSUME I2CInv, [I2CNext]_ivars
  PROVE  I2CInv'
<1>1. ASSUME NEW e \in Calls, NEW p \in Pins, JsOpen(e, p) PROVE I2CInv'
  <2>1. NoHandle \in Handles /\ "open" \in Kinds
    BY I2CAssumption, FS_CardinalityType DEF NoHandle, Handles, Kinds
  <2>2. QED
    BY <1>1, <2>1, EnqueueI2CInv DEF JsOpen
<1>2. ASSUME NEW e \in Calls, NEW h \in Handles, JsClose(e, h) \/ JsTransfer(e, h)
      PROVE  I2CInv'
  BY <1>2, EnqueueI2CInv DEF JsClose, JsTransfer, Kinds
<1>3. ASSUME NEW e \in Calls, Settle(e) PROVE I2CInv'
  BY <1>3, SettleI2CInv
<1>4. CASE UNCHANGED ivars
  BY <1>4
     DEF ivars, I2CInv, I2CTypeOK, LineOK, OpenHasPins, GrowOK, OneBus,
         OpenGivesItsPins, InstalledBuses
<1>5. ASSUME NEW h \in Handles, JsTransferThrows(h) PROVE I2CInv'
  BY <1>4, <1>5 DEF JsTransferThrows
<1>6. CASE EntryStep
  BY <1>6, OpenExistingI2CInv, OpenInstallI2CInv, OpenPushedI2CInv, CloseI2CInv, TransferI2CInv
     DEF EntryStep
<1>7. QED
  BY <1>1, <1>2, <1>3, <1>4, <1>5, <1>6 DEF I2CNext, ProgramStep

LEMMA I2CInductive == I2CSpec => []I2CInv
<1>1. I2CInit => I2CInv
  BY InitI2CInv
<1>2. I2CInv /\ [I2CNext]_ivars => I2CInv'
  BY NextI2CInv
<1>3. QED
  BY <1>1, <1>2, PTL DEF I2CSpec

(* The table, the line and the entries have their types.                   *)
THEOREM I2CTypeCorrect == I2CSpec => []I2CTypeOK
<1>1. I2CInv => I2CTypeOK
  BY DEF I2CInv
<1>2. QED
  BY <1>1, I2CInductive, PTL

(* There is one port: at most one bus of the table is installed, and the   *)
(* driver runs on its pins (JSI2C::processEntry).                          *)
THEOREM AtMostOneBus == I2CSpec => []OneBus
<1>1. I2CInv => OneBus
  BY DEF I2CInv
<1>2. QED
  BY <1>1, I2CInductive, PTL

(* open() resolves with a handle for the pins it was given (OP_OPEN).      *)
THEOREM OpenIsRight == I2CSpec => []OpenGivesItsPins
<1>1. I2CInv => OpenGivesItsPins
  BY DEF I2CInv
<1>2. QED
  BY <1>1, I2CInductive, PTL

(* No bus leaves the table or changes its pins, and a closed one stays so. *)
KeepBuses ==
  \A h \in 1..Len(buses) :
    /\ h <= Len(buses') /\ buses'[h].pins = buses[h].pins
    /\ ~buses[h].installed => ~buses'[h].installed

LEMMA NextKeepsBuses == I2CInv /\ [I2CNext]_ivars => KeepBuses
<1> SUFFICES ASSUME I2CInv, [I2CNext]_ivars PROVE KeepBuses
  OBVIOUS
<1>1. buses \in Seq(Bus) /\ Len(buses) \in Nat
  BY DEF I2CInv, I2CTypeOK, Bus
<1>2. CASE buses' = buses
  BY <1>1, <1>2 DEF KeepBuses
<1>3. CASE OpenPushed
  <2> DEFINE b == [pins |-> entry[Head(waiting)].pins, installed |-> TRUE]
  <2>1. Head(waiting) \in Calls
    BY <1>3, HeadTailProperties DEF OpenPushed, I2CInv, GrowOK, I2CTypeOK
  <2>2. entry[Head(waiting)].pins \in Pins
    BY <1>3, <2>1 DEF OpenPushed, I2CInv, GrowOK, OpenHasPins
  <2>3. b \in Bus
    BY <2>2 DEF Bus
  <2>4. buses' = Append(buses, b)
    BY <1>3 DEF OpenPushed
  <2> HIDE DEF b
  <2>5. Len(buses') = Len(buses) + 1 /\ \A h \in 1..Len(buses) : buses'[h] = buses[h]
    BY <1>1, <2>3, <2>4, AppendProperties
  <2>6. QED
    BY <1>1, <2>5 DEF KeepBuses
<1>4. ASSUME NEW k \in 1..Len(buses),
             buses' = [buses EXCEPT ![k] = [buses[k] EXCEPT !.installed = FALSE]]
      PROVE  KeepBuses
  <2>1. buses[k] \in Bus
    BY <1>1
  <2>2. [buses[k] EXCEPT !.installed = FALSE] \in Bus
    BY <2>1 DEF Bus
  <2>3. Len(buses') = Len(buses) /\ \A h \in 1..Len(buses) :
          buses'[h] = IF h = k THEN [buses[k] EXCEPT !.installed = FALSE] ELSE buses[h]
    BY <1>1, <1>4, <2>2, ExceptSeq
  <2>4. QED
    BY <1>1, <2>1, <2>3 DEF KeepBuses, Bus
<1>5. CASE Close
  BY <1>2, <1>4, <1>5 DEF Close, Installed
<1>6. CASE OpenExisting \/ OpenInstall \/ Transfer
  BY <1>2, <1>6 DEF OpenExisting, OpenInstall, Transfer
<1>7. CASE ProgramStep
  BY <1>2, <1>7
     DEF ProgramStep, JsOpen, JsClose, JsTransfer, JsTransferThrows,
         Enqueue, Settle, ivars
<1>8. QED
  BY <1>2, <1>3, <1>5, <1>6, <1>7 DEF I2CNext, EntryStep, ivars

(* A handle a program kept stands for the same pins for ever: the table    *)
(* only grows (buses.push_back, installed = false in OP_CLOSE).            *)
THEOREM HandlesKeep == I2CSpec => HandlesKeepTheirPins
<1>1. I2CInv /\ [I2CNext]_ivars => [KeepBuses]_ivars
  BY NextKeepsBuses
<1>2. I2CSpec => [][KeepBuses]_ivars
  BY <1>1, I2CInductive, PTL DEF I2CSpec
<1>3. [KeepBuses]_ivars =>
        [\A h \in 1..Len(buses) : h <= Len(buses') /\ buses'[h].pins = buses[h].pins]_ivars
  BY DEF KeepBuses
<1>4. QED
  BY <1>2, <1>3, PTL DEF HandlesKeepTheirPins

(* OP_CLOSE frees a slot for good: no later open() installs a bus there, so *)
(* a handle whose bus was closed is refused for ever.                       *)
THEOREM ClosedStays == I2CSpec => ClosedStaysClosed
<1>1. I2CInv /\ [I2CNext]_ivars => [KeepBuses]_ivars
  BY NextKeepsBuses
<1>2. I2CSpec => [][KeepBuses]_ivars
  BY <1>1, I2CInductive, PTL DEF I2CSpec
<1>3. [KeepBuses]_ivars =>
        [\A h \in 1..Len(buses) : ~buses[h].installed => ~buses'[h].installed]_ivars
  BY DEF KeepBuses
<1>4. QED
  BY <1>2, <1>3, PTL DEF ClosedStaysClosed
=============================================================================
