--------------------------- MODULE PromiseService ---------------------------
(***************************************************************************)
(* What the promise-returning peripherals (I2C, SPI, LittleFS, SD) promise *)
(* a JavaScript program: a call returns a promise; the operations of all   *)
(* of them are carried out one at a time, in the order of the calls, by a  *)
(* single server; after its operation has run, and only then, a promise is *)
(* settled, once and for good, with the outcome of that operation.         *)
(*                                                                         *)
(* The module says nothing of tasks, semaphores or queues: JSWorker shows  *)
(* that the code implements it.                                            *)
(***************************************************************************)
EXTENDS Sequences

CONSTANT Entries   \* the calls a program may make, each at most once

VARIABLES
  waiting,   \* operations asked for and not yet carried out, in call order
  outcome,   \* [Entries -> "unset" | "ok" | "error"]: result of the operation
  promise    \* [Entries -> "none" | "pending" | "fulfilled" | "rejected"]

svars == <<waiting, outcome, promise>>

Settled == {"fulfilled", "rejected"}

SettledBy(o) == IF o = "ok" THEN "fulfilled" ELSE "rejected"

Init ==
  /\ waiting = <<>>
  /\ outcome = [e \in Entries |-> "unset"]
  /\ promise = [e \in Entries |-> "none"]

Call(e) ==
  /\ promise[e] = "none"
  /\ promise' = [promise EXCEPT ![e] = "pending"]
  /\ waiting' = Append(waiting, e)
  /\ UNCHANGED outcome

Serve(o) ==
  /\ waiting # <<>>
  /\ outcome' = [outcome EXCEPT ![Head(waiting)] = o]
  /\ waiting' = Tail(waiting)
  /\ UNCHANGED promise

Settle(e) ==
  /\ promise[e] = "pending"
  /\ outcome[e] # "unset"
  /\ promise' = [promise EXCEPT ![e] = SettledBy(outcome[e])]
  /\ UNCHANGED <<waiting, outcome>>

Next ==
  \/ \E e \in Entries : Call(e) \/ Settle(e)
  \/ \E o \in {"ok", "error"} : Serve(o)

Spec == Init /\ [][Next]_svars

FairSpec ==
  /\ Spec
  /\ WF_svars(\E o \in {"ok", "error"} : Serve(o))
  /\ \A e \in Entries : WF_svars(Settle(e))
=============================================================================
