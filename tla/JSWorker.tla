------------------------------ MODULE JSWorker ------------------------------
(***************************************************************************)
(* class JSWorker (esp32/QuickJS.h) and the four peripheral modules that   *)
(* hand their blocking operations to it: two instances of JSFileSystem     *)
(* (littlefs, sd), JSI2C and JSSPI.  Two tasks run:                        *)
(*                                                                         *)
(*   - the JS task calls the trampolines (js_write, js_read, op, ...),     *)
(*     which create an Entry with a promise and a WorkItem and submit it,  *)
(*     and runs ESP32QuickJS::loop(), which scans the queue of each module *)
(*     in a fixed order for finished entries and settles their promises;   *)
(*   - the worker task takes a binary semaphore, swaps the work queue out  *)
(*     under the mutex and runs the batch.                                 *)
(*                                                                         *)
(* A step is what one task does between two accesses to state the other    *)
(* one shares.  What an operation does to its peripheral is abstracted to  *)
(* its outcome, "ok" or "error" (JSI2C.tla details one peripheral).        *)
(***************************************************************************)
EXTENDS Naturals, Sequences, SequencesExt

CONSTANTS
  Entries,    \* calls a program may make, each at most once
  NModules,   \* the modules are numbered 1..NModules in the order of loop()
  EndModules, \* those that ESP32QuickJS::end() ends, which own JSValues (I2C, SPI)
  CanEnd,     \* may the program call ESP32QuickJS::end()?
  CanClose    \* may the program call I2C.close / SPI.close?

ASSUME WorkerAssumption ==
  /\ NModules \in Nat \ {0}
  /\ EndModules \subseteq 1..NModules
  /\ CanEnd \in BOOLEAN
  /\ CanClose \in BOOLEAN

VARIABLES
  queue,      \* [1..NModules -> Seq(Entries)]: each module's vector of entries
  workQueue,  \* JSWorker::workQueue_
  notify,     \* the binary semaphore notify_
  work,       \* the worker's local batch, what is left of it
  worker,     \* where the worker task is: "take", "swap" or "run"
  js,         \* where the JS task is: "idle", "give", "scan" or "ended"
  cur,        \* the module being scanned, or submitted to
  pos,        \* the index the scan has reached in queue[cur]
  item,       \* [Entries -> "none" | "undone" | "done" | "freed"]: the WorkItem
  result,     \* [Entries -> "unset" | "ok" | "error"]: Entry::ok and ::result
  funcs,      \* [Entries -> "none" | "live" | "freed"]: Entry::resolving_funcs
  promise,    \* [Entries -> "none" | "pending" | "fulfilled" | "rejected"]
  closing,    \* the calls that are close() calls
  uaf         \* has freed memory been used: "no", "item" or "funcs"

wvars == <<workQueue, notify, work, worker>>
jvars == <<queue, js, cur, pos>>
evars == <<item, result, funcs, promise, closing, uaf>>
vars == <<wvars, jvars, evars>>

Modules == 1..NModules

(* The outcome after a use of freed memory is undefined: nothing is said   *)
(* of the program from there on.                                           *)
Defined == uaf = "no"

Init ==
  /\ queue = [m \in Modules |-> <<>>]
  /\ workQueue = <<>>
  /\ notify = FALSE
  /\ work = <<>>
  /\ worker = "take"
  /\ js = "idle"
  /\ cur = 1
  /\ pos = 1
  /\ item = [e \in Entries |-> "none"]
  /\ result = [e \in Entries |-> "unset"]
  /\ funcs = [e \in Entries |-> "none"]
  /\ promise = [e \in Entries |-> "none"]
  /\ closing = {}
  /\ uaf = "no"

-----------------------------------------------------------------------------
(* The JS task.                                                            *)

(* The body shared by the trampolines, up to the release of the mutex in   *)
(* JSWorker::submit: a new promise, entry and item, pushed on the module's *)
(* queue and on the work queue.                                            *)
Submit(e, m) ==
  /\ Defined /\ js = "idle"
  /\ item[e] = "none"
  /\ queue' = [queue EXCEPT ![m] = Append(@, e)]
  /\ item' = [item EXCEPT ![e] = "undone"]
  /\ funcs' = [funcs EXCEPT ![e] = "live"]
  /\ promise' = [promise EXCEPT ![e] = "pending"]
  /\ workQueue' = Append(workQueue, e)
  /\ js' = "give"
  /\ cur' = m
  /\ \/ closing' = closing
     \/ CanClose /\ m \in EndModules /\ closing' = closing \union {e}
  /\ UNCHANGED <<notify, work, worker, pos, result, uaf>>

(* The end of submit and of the trampoline: wake the worker; js_close then *)
(* frees the resolving functions of the entry it has just queued.          *)
Give ==
  LET e == Last(queue[cur])
  IN /\ Defined /\ js = "give"
     /\ notify' = TRUE
     /\ funcs' = IF e \in closing THEN [funcs EXCEPT ![e] = "freed"] ELSE funcs
     /\ js' = "idle"
     /\ UNCHANGED <<queue, workQueue, work, worker, cur, pos, item, result, promise,
                    closing, uaf>>

(* ESP32QuickJS::loop reaches the first of the four module loops.          *)
StartLoop ==
  /\ Defined /\ js = "idle"
  /\ js' = "scan"
  /\ cur' = 1
  /\ pos' = 1
  /\ UNCHANGED <<wvars, queue, evars>>

(* Plausible bugs of a module's loop(), for the mutants: the test of done  *)
(* dropped, the wrong entry erased, every promise resolved.                *)
SettleUnlessSkippedBug ==
  /\ Defined /\ js = "scan" /\ pos <= Len(queue[cur])
  /\ LET e == queue[cur][pos]
     IN /\ queue' = [queue EXCEPT ![cur] = RemoveAt(@, pos)]
        /\ promise' = [promise EXCEPT ![e] =
                          IF result[e] = "ok" THEN "fulfilled" ELSE "rejected"]
        /\ funcs' = [funcs EXCEPT ![e] = "freed"]
        /\ item' = [item EXCEPT ![e] = "freed"]
  /\ UNCHANGED <<wvars, js, cur, pos, result, closing, uaf>>

SettleErasesFirstBug ==
  /\ Defined /\ js = "scan" /\ pos <= Len(queue[cur])
  /\ LET e == queue[cur][pos]
     IN /\ item[e] = "done"
        /\ queue' = [queue EXCEPT ![cur] = Tail(@)]
        /\ promise' = [promise EXCEPT ![e] =
                          IF result[e] = "ok" THEN "fulfilled" ELSE "rejected"]
        /\ funcs' = [funcs EXCEPT ![e] = "freed"]
        /\ item' = [item EXCEPT ![e] = "freed"]
  /\ UNCHANGED <<wvars, js, cur, pos, result, closing, uaf>>

SettleAlwaysResolvesBug ==
  /\ Defined /\ js = "scan" /\ pos <= Len(queue[cur])
  /\ LET e == queue[cur][pos]
     IN /\ item[e] = "done"
        /\ queue' = [queue EXCEPT ![cur] = RemoveAt(@, pos)]
        /\ promise' = [promise EXCEPT ![e] = "fulfilled"]
        /\ funcs' = [funcs EXCEPT ![e] = "freed"]
        /\ item' = [item EXCEPT ![e] = "freed"]
  /\ UNCHANGED <<wvars, js, cur, pos, result, closing, uaf>>

(* One round of a module's loop(): an entry whose item is not done is      *)
(* passed over, a finished one is erased, its promise settled with its     *)
(* result, and the entry and its item are freed.                           *)
SkipEntry ==
  /\ Defined /\ js = "scan" /\ pos <= Len(queue[cur])
  /\ item[queue[cur][pos]] # "done"
  /\ pos' = pos + 1
  /\ UNCHANGED <<wvars, queue, js, cur, evars>>

SettleEntry ==
  /\ Defined /\ js = "scan" /\ pos <= Len(queue[cur])
  /\ LET e == queue[cur][pos]
     IN /\ item[e] = "done"
        /\ queue' = [queue EXCEPT ![cur] = RemoveAt(@, pos)]
        /\ IF funcs[e] = "freed"
           THEN uaf' = "funcs" /\ UNCHANGED <<promise, funcs>>
           ELSE /\ promise' = [promise EXCEPT ![e] =
                                 IF result[e] = "ok" THEN "fulfilled" ELSE "rejected"]
                /\ funcs' = [funcs EXCEPT ![e] = "freed"]
                /\ UNCHANGED uaf
        /\ item' = [item EXCEPT ![e] = "freed"]
  /\ UNCHANGED <<wvars, js, cur, pos, result, closing>>

(* Bug, for a mutant: the last module is not recognised. *)
NextModuleOffByOneBug ==
  /\ Defined /\ js = "scan" /\ pos > Len(queue[cur])
  /\ pos' = 1
  /\ IF cur <= NModules
     THEN cur' = cur + 1 /\ js' = js
     ELSE cur' = 1 /\ js' = "idle"
  /\ UNCHANGED <<wvars, queue, evars>>

(* A module's loop() is through its queue: the next one, or back to the    *)
(* rest of the tick.                                                       *)
NextModule ==
  /\ Defined /\ js = "scan" /\ pos > Len(queue[cur])
  /\ pos' = 1
  /\ IF cur < NModules
     THEN cur' = cur + 1 /\ js' = js
     ELSE cur' = 1 /\ js' = "idle"
  /\ UNCHANGED <<wvars, queue, evars>>

(* Bug, for a mutant: end() frees the entries without rejecting them. *)
EndForgetsPromisesBug ==
  LET ended == UNION {ToSet(queue[m]) : m \in EndModules}
  IN /\ Defined /\ js = "idle" /\ CanEnd
     /\ funcs' = [e \in Entries |-> IF e \in ended THEN "freed" ELSE funcs[e]]
     /\ item' = [e \in Entries |-> IF e \in ended THEN "freed" ELSE item[e]]
     /\ queue' = [m \in Modules |-> IF m \in EndModules THEN <<>> ELSE queue[m]]
     /\ js' = "ended"
     /\ UNCHANGED <<wvars, cur, pos, result, closing, promise, uaf>>

(* ESP32QuickJS::end(): i2c.end and spi.end reject what is still queued    *)
(* and free the entries and the items, done or not.  The file systems are  *)
(* not ended.                                                              *)
End ==
  LET ended == UNION {ToSet(queue[m]) : m \in EndModules}
  IN /\ Defined /\ js = "idle" /\ CanEnd
     /\ IF \E e \in ended : funcs[e] = "freed"
        THEN uaf' = "funcs" /\ UNCHANGED <<promise, funcs>>
        ELSE /\ promise' = [e \in Entries |-> IF e \in ended THEN "rejected" ELSE promise[e]]
             /\ funcs' = [e \in Entries |-> IF e \in ended THEN "freed" ELSE funcs[e]]
             /\ UNCHANGED uaf
     /\ item' = [e \in Entries |-> IF e \in ended THEN "freed" ELSE item[e]]
     /\ queue' = [m \in Modules |-> IF m \in EndModules THEN <<>> ELSE queue[m]]
     /\ js' = "ended"
     /\ UNCHANGED <<wvars, cur, pos, result, closing>>

-----------------------------------------------------------------------------
(* The worker task.                                                        *)

(* xSemaphoreTake(notify_, portMAX_DELAY) returns. *)
Take ==
  /\ Defined /\ worker = "take" /\ notify
  /\ notify' = FALSE
  /\ worker' = "swap"
  /\ UNCHANGED <<workQueue, work, jvars, evars>>

(* Bugs, for the mutants: one entry taken per wake-up; the queue copied    *)
(* instead of swapped.                                                     *)
SwapOneBug ==
  /\ Defined /\ worker = "swap"
  /\ work' = SubSeq(workQueue, 1, 1)
  /\ workQueue' = SubSeq(workQueue, 2, Len(workQueue))
  /\ worker' = "run"
  /\ UNCHANGED <<notify, jvars, evars>>

SwapCopiesBug ==
  /\ Defined /\ worker = "swap"
  /\ work' = workQueue
  /\ workQueue' = workQueue
  /\ worker' = "run"
  /\ UNCHANGED <<notify, jvars, evars>>

(* The whole queue is swapped out under the mutex. *)
Swap ==
  /\ Defined /\ worker = "swap"
  /\ work' = workQueue
  /\ workQueue' = <<>>
  /\ worker' = "run"
  /\ UNCHANGED <<notify, jvars, evars>>

(* Bug, for a mutant: the batch is taken from its back, as JSQueue does.   *)
ProcessLastBug(o) ==
  /\ Defined /\ worker = "run" /\ work # <<>>
  /\ result' = [result EXCEPT ![Last(work)] = o]
  /\ item' = [item EXCEPT ![Last(work)] = "done"]
  /\ work' = Front(work)
  /\ UNCHANGED <<workQueue, notify, worker, jvars, funcs, promise, closing, uaf>>

(* w->fn(w->entry); w->done = true;  on an item end() has freed this reads *)
(* and writes freed memory.                                                *)
Process(o) ==
  /\ Defined /\ worker = "run" /\ work # <<>>
  /\ LET e == Head(work)
     IN IF item[e] = "freed"
        THEN uaf' = "item" /\ UNCHANGED <<item, result>>
        ELSE /\ result' = [result EXCEPT ![e] = o]
             /\ item' = [item EXCEPT ![e] = "done"]
             /\ UNCHANGED uaf
  /\ work' = Tail(work)
  /\ UNCHANGED <<workQueue, notify, worker, jvars, funcs, promise, closing>>

(* The batch is finished: wait for the semaphore again. *)
BatchDone ==
  /\ Defined /\ worker = "run" /\ work = <<>>
  /\ worker' = "take"
  /\ UNCHANGED <<workQueue, notify, work, jvars, evars>>

-----------------------------------------------------------------------------
JSTaskStep == Give \/ StartLoop \/ SkipEntry \/ SettleEntry \/ NextModule

WorkerStep == Take \/ Swap \/ (\E o \in {"ok", "error"} : Process(o)) \/ BatchDone

Next ==
  \/ \E e \in Entries, m \in Modules : Submit(e, m)
  \/ JSTaskStep
  \/ End
  \/ WorkerStep

Spec == Init /\ [][Next]_vars

(* Both tasks are scheduled by FreeRTOS on a core of their own, and the JS *)
(* task runs loop() for ever; a blocking driver call returns (its timeouts *)
(* are finite).  Whether the program makes a call, or ends, is up to it.   *)
FairSpec == Spec /\ WF_vars(JSTaskStep) /\ WF_vars(WorkerStep)

-----------------------------------------------------------------------------
TypeOK ==
  /\ queue \in [Modules -> Seq(Entries)]
  /\ workQueue \in Seq(Entries)
  /\ notify \in BOOLEAN
  /\ work \in Seq(Entries)
  /\ worker \in {"take", "swap", "run"}
  /\ js \in {"idle", "give", "scan", "ended"}
  /\ cur \in Modules
  /\ pos \in Nat \ {0}
  /\ item \in [Entries -> {"none", "undone", "done", "freed"}]
  /\ result \in [Entries -> {"unset", "ok", "error"}]
  /\ funcs \in [Entries -> {"none", "live", "freed"}]
  /\ promise \in [Entries -> {"none", "pending", "fulfilled", "rejected"}]
  /\ closing \subseteq Entries
  /\ uaf \in {"no", "item", "funcs"}

(* No wake-up is lost although the semaphore is binary and several gives   *)
(* may collapse into one (submit, workerTask): while an entry is in the    *)
(* work queue, a give is pending, about to be made, or already consumed by *)
(* a worker that has yet to swap the queue.                                *)
NoLostWakeup ==
  workQueue # <<>> => notify \/ js = "give" \/ worker = "swap"

(* An item reaches the worker once: what is queued and what is left of the *)
(* batch never hold an entry twice, nor an entry already processed.  It is *)
(* what lets loop() free the item as soon as it sees done.                 *)
WorkOnce ==
  LET todo == work \o workQueue
  IN /\ \A i, j \in 1..Len(todo) : todo[i] = todo[j] => i = j
     /\ \A i \in 1..Len(todo) : item[todo[i]] \in {"undone", "freed"}

(* No task uses memory another one has freed: the worker never runs an     *)
(* item that has been freed, and loop() never calls a freed function.      *)
NoUseAfterFree == uaf = "no"

(* Every entry of a module's queue still has its promise to settle, and    *)
(* every pending promise of a live program has its entry in some queue:    *)
(* none is forgotten.                                                      *)
PendingIsQueued ==
  (js # "ended" /\ uaf = "no") =>
    \A e \in Entries :
      promise[e] = "pending" <=> \E m \in Modules : e \in ToSet(queue[m])

(* After end() no promise of I2C or SPI is left pending: what stays        *)
(* pending is in the queue of a file system, which end() does not end.     *)
EndLeavesOnlyFiles ==
  (js = "ended" /\ uaf = "no") =>
    \A e \in Entries :
      promise[e] = "pending" => \E m \in Modules \ EndModules : e \in ToSet(queue[m])

(* I2C.close and SPI.close return a promise (their comments: "-> Promise<  *)
(* void>"): once loop() is through with a close entry its promise is       *)
(* settled.                                                                *)
CloseSettles ==
  \A e \in closing : item[e] = "freed" => promise[e] # "pending"

(* A promise is settled at most once, and with the outcome the worker      *)
(* wrote, never from an entry the worker has not finished (loop), except   *)
(* that end() rejects what is left.                                        *)
SettledByOutcome ==
  [][\A e \in Entries :
       promise'[e] # promise[e] =>
         \/ promise[e] = "none" /\ promise'[e] = "pending"
         \/ /\ promise[e] = "pending" /\ item[e] = "done"
            /\ promise'[e] = IF result[e] = "ok" THEN "fulfilled" ELSE "rejected"
         \/ js' = "ended" /\ promise[e] = "pending" /\ promise'[e] = "rejected"]_vars

(* Every promise a running program is handed is eventually settled.        *)
EverySubmittedSettles ==
  \A e \in Entries : promise[e] = "pending" ~> promise[e] \in {"fulfilled", "rejected"}

(* The peripherals together are one first-come first-served server: the    *)
(* batch and the work queue are its waiting line.                          *)
Service == INSTANCE PromiseService
             WITH waiting <- work \o workQueue, outcome <- result

ServiceSpec == Service!FairSpec
=============================================================================
