------------------------------ MODULE JSTimer -------------------------------
(***************************************************************************)
(* class JSTimer (esp32/QuickJS.h) with the code that uses it:             *)
(* setTimeout, setInterval and clearTimeout, the commands of the Serial    *)
(* and telnet REPLs, the event loop, the nested event loop that            *)
(* JSBlockingGuard::tick runs while a require() waits, and                 *)
(* onTelnetDisconnect and Telnet.stop().                                   *)
(*                                                                         *)
(* The JS task has a stack of activations: REPL commands, jobs (the        *)
(* callbacks of settled promises) and rounds of ConsumeTimer.  JavaScript  *)
(* code runs when the top of the stack is a command, a job or a round      *)
(* inside a callback; while it runs it may set and clear timers and may    *)
(* wait (require), which starts nested activations.  The AsyncTCP task     *)
(* disconnects a client between any two steps (in the code without a lock; *)
(* the model takes each access to the vector as one step).                 *)
(*                                                                         *)
(* timers is a set: GetNextTimeout sorts the vector before every           *)
(* ConsumeTimer, so that its order never matters except that entries with  *)
(* equal times may come in any order (std::sort is not stable).            *)
(***************************************************************************)
EXTENDS Integers, Sequences, SequencesExt, FiniteSets

CONSTANTS
  Clients,    \* telnet connections (positive numbers); 0 is Serial
  Delays,     \* the delays a program passes to setTimeout and setInterval
  Nohups,     \* the values it passes as nohup
  Wrap,       \* millis() and the int32 arithmetic on it wrap at Wrap (2^32)
  StartClock, \* the time at which ESP32QuickJS::begin() runs
  MaxId,      \* bound: timers ever registered
  MaxClock,   \* bound: the time at which the clock stops
  MaxStall,   \* bound: how late the JS task gets (ms); the code needs 2^31
  MaxDepth,   \* bound: nesting of activations
  CanNest,    \* may JavaScript wait in a require()?
  CanDisconnect, \* may telnet clients disconnect?
  CanStop,    \* may the program call Telnet.stop()?
  CanEnd      \* may the program call ESP32QuickJS::end()?

ASSUME TimerAssumption ==
  /\ Clients \subseteq Nat \ {0}
  /\ Delays \subseteq 0..Wrap-1
  /\ Nohups \subseteq BOOLEAN
  /\ Wrap \in Nat /\ Wrap > 1
  /\ MaxId \in Nat /\ MaxClock \in Nat /\ MaxDepth \in Nat \ {0}
  /\ StartClock \in 0..MaxClock
  /\ MaxStall \in Nat
  /\ CanNest \in BOOLEAN /\ CanDisconnect \in BOOLEAN
  /\ CanStop \in BOOLEAN /\ CanEnd \in BOOLEAN

VARIABLES
  timers,     \* JSTimer::timers
  idCounter,  \* JSTimer::id_counter
  stack,      \* the activations of the JS task, innermost last
  activeOut,  \* activeOutputStream: the client it belongs to, 0 for Serial
  owner,      \* currentTelnetId, 0 for none
  live,       \* the telnet clients that are connected
  forgotten,  \* those Telnet.stop() has dropped from liveConnections, also once they left
  clock,      \* time in ms, unbounded; millis() is clock % Wrap
  held,       \* history: the timers whose function value is referenced
  cleared,    \* history: the timers clearTimeout was called on
  late,       \* history: timers in a round or registered for a client after it left
  ended       \* has ESP32QuickJS::end() run?

vars ==
  <<timers, idCounter, stack, activeOut, owner, live, forgotten, clock, held, cleared, late, ended>>

Serial == 0
Eps == 2
NoInterval == -1

(* int32_t arithmetic on wrapped times. *)
Signed(x) == LET y == x % Wrap IN IF 2 * y >= Wrap THEN y - Wrap ELSE y

(* How long a timer has still to run at time now: ent.timeout - now. *)
Left(t, now) == Signed(t.timeout - now)

Command == "command"
Job == "job"
Round == "round"

Top == Last(stack)

(* JavaScript code is running. *)
InJS == stack # <<>> /\ (Top.kind \in {Command, Job} \/ Top.running)

(* The timers in the local vectors of the rounds under way. *)
Batched == UNION {ToSet(stack[i].todo) : i \in DOMAIN stack}

All == timers \union Batched

(* The keys of liveConnections.                                            *)
known == live \ forgotten

Init ==
  /\ timers = {}
  /\ idCounter = 0
  /\ stack = <<>>
  /\ activeOut = Serial
  /\ owner = 0
  /\ live = Clients
  /\ forgotten = {}
  /\ clock = StartClock
  /\ held = {}
  /\ cleared = {}
  /\ late = {}
  /\ ended = FALSE

-----------------------------------------------------------------------------
(* JavaScript code on the JS task.                                         *)

(* Bugs, for the mutants: an id used again; the counter post-incremented.  *)
FreshIdReusedBug == 1 + Cardinality(timers)
FreshIdPostBug == idCounter

FreshId == idCounter + 1

(* setTimeout(f, d, nohup) and setInterval(f, d, nohup).  due is a history *)
(* field: the time asked for, without wrapping.                            *)
Register(d, repeat, nohup) ==
  LET id == FreshId
      t == [id |-> id, timeout |-> (clock + d) % Wrap,
            interval |-> IF repeat THEN Signed(d) ELSE NoInterval,
            out |-> activeOut, owner |-> owner, nohup |-> nohup, due |-> clock + d]
  IN /\ ~ended /\ InJS /\ id <= MaxId
     /\ timers' = timers \union {t}
     /\ idCounter' = id
     /\ held' = held \union {id}
     /\ late' = IF owner \in live \union {0} THEN late ELSE late \union {id}
     /\ UNCHANGED <<stack, activeOut, owner, live, forgotten, clock, cleared, ended>>

(* clearTimeout(id), clearInterval(id): RemoveTimer erases the entry from  *)
(* the vector, if it is there, and does not free its function.             *)
Clear(id) ==
  /\ ~ended /\ InJS
  /\ timers' = {t \in timers : t.id # id}
  /\ cleared' = cleared \union {id}
  /\ UNCHANGED <<idCounter, stack, activeOut, owner, live, forgotten, clock, held, late, ended>>

(* Telnet.stop(): liveConnections and the outputs are dropped, the clients *)
(* stay connected.  It is not started again in the model: a client that    *)
(* connects later has a new id.                                            *)
Stop ==
  /\ ~ended /\ InJS /\ CanStop
  /\ known # {}
  /\ forgotten' = forgotten \union live
  /\ UNCHANGED <<timers, idCounter, stack, activeOut, owner, live, clock, held, cleared, late, ended>>

(* An activation may start from loop(), and from tick() while JavaScript   *)
(* waits in a require().                                                   *)
MayStart == ~ended /\ (stack = <<>> \/ (CanNest /\ InJS /\ Len(stack) < MaxDepth))

Activated(kind, c, s) ==
  Append(stack, [kind |-> kind, client |-> c, now |-> clock, todo |-> s,
                 prev |-> activeOut, running |-> FALSE])

(* A REPL command starts: pumpSerial or handleClientInput.                 *)
StartCommand(c) ==
  /\ MayStart
  /\ c \in known \union {Serial}
  /\ stack' = Activated(Command, c, <<>>)
  /\ activeOut' = c
  /\ owner' = c
  /\ UNCHANGED <<timers, idCounter, live, forgotten, clock, held, cleared, late, ended>>

(* It returns: pumpSerial resets the output stream, handleClientInput      *)
(* leaves it; both reset the owner.                                        *)
EndCommand ==
  /\ ~ended /\ stack # <<>> /\ Top.kind = Command
  /\ stack' = Front(stack)
  /\ activeOut' = IF Top.client = Serial THEN Serial ELSE activeOut
  /\ owner' = 0
  /\ UNCHANGED <<timers, idCounter, live, forgotten, clock, held, cleared, late, ended>>

(* JS_ExecutePendingJob: a job runs with the output stream and the owner   *)
(* it finds.                                                               *)
StartJob ==
  /\ MayStart
  /\ stack' = Activated(Job, Serial, <<>>)
  /\ UNCHANGED <<timers, idCounter, activeOut, owner, live, forgotten, clock, held, cleared, late, ended>>

EndJob ==
  /\ ~ended /\ stack # <<>> /\ Top.kind = Job
  /\ stack' = Front(stack)
  /\ UNCHANGED <<timers, idCounter, activeOut, owner, live, forgotten, clock, held, cleared, late, ended>>

-----------------------------------------------------------------------------
(* ConsumeTimer, from loop() or from JSBlockingGuard::tick().              *)

(* Bug, for a mutant: times compared without regard to wrapping.           *)
DueNoWrapBug(now) == {t \in timers : t.timeout <= (now % Wrap) + Eps}

(* The timers ConsumeTimer moves to its local vector. *)
Due(now) == {t \in timers : Left(t, now) <= Eps}

(* Bug, for a mutant: the batch is run in any order. *)
UnsortedBug(now) == SetToSeqs(Due(now))

(* The orders they may be in: soonest first, ties in any order. *)
Batches(now) ==
  {s \in SetToSeqs(Due(now)) :
     \A i, j \in DOMAIN s : i < j => Left(s[i], now) <= Left(s[j], now)}

StartRound ==
  /\ MayStart
  /\ Due(clock) # {}
  /\ \E s \in Batches(clock) : stack' = Activated(Round, Serial, s)
  /\ timers' = timers \ Due(clock)
  /\ UNCHANGED <<idCounter, activeOut, owner, live, forgotten, clock, held, cleared, late, ended>>

SetTop(a) == [stack EXCEPT ![Len(stack)] = a]

(* The next callback of the round is called, with its own output stream.   *)
StartCallback ==
  /\ ~ended /\ stack # <<>> /\ Top.kind = Round /\ ~Top.running /\ Top.todo # <<>>
  /\ stack' = SetTop([Top EXCEPT !.running = TRUE, !.prev = activeOut])
  /\ activeOut' = Head(Top.todo).out
  /\ UNCHANGED <<timers, idCounter, owner, live, forgotten, clock, held, cleared, late, ended>>

(* Bug, for the mutants: a repeating timer is not armed again.             *)
RearmForgetsBug(t, now) == {}

(* What ConsumeTimer pushes back for a timer whose callback has returned. *)
Rearm(t, now) ==
  IF t.interval >= 0
  THEN {[t EXCEPT !.timeout = (now + t.interval) % Wrap, !.due = now + t.interval]}
  ELSE {}

(* Bug, for a mutant: a repeating timer runs again in the same round. *)
EndCallbackSameRoundBug ==
  /\ ~ended /\ stack # <<>> /\ Top.running
  /\ LET t == Head(Top.todo)
     IN /\ stack' = SetTop([Top EXCEPT !.running = FALSE,
                                      !.todo = Tail(@) \o SetToSeq(Rearm(t, Top.now))])
        /\ held' = IF t.interval >= 0 THEN held ELSE held \ {t.id}
  /\ activeOut' = Top.prev
  /\ UNCHANGED <<timers, idCounter, owner, live, forgotten, clock, cleared, late, ended>>

(* The callback returns: the stream is restored and the timer is armed     *)
(* again, counting from the start of the round, or its function freed.     *)
EndCallback ==
  /\ ~ended /\ stack # <<>> /\ Top.running
  /\ LET t == Head(Top.todo)
     IN /\ stack' = SetTop([Top EXCEPT !.running = FALSE, !.todo = Tail(@)])
        /\ timers' = timers \union Rearm(t, Top.now)
        /\ held' = IF t.interval >= 0 THEN held ELSE held \ {t.id}
  /\ activeOut' = Top.prev
  /\ UNCHANGED <<idCounter, owner, live, forgotten, clock, cleared, late, ended>>

EndRound ==
  /\ ~ended /\ stack # <<>> /\ Top.kind = Round /\ ~Top.running /\ Top.todo = <<>>
  /\ stack' = Front(stack)
  /\ UNCHANGED <<timers, idCounter, activeOut, owner, live, forgotten, clock, held, cleared, late, ended>>

(* ESP32QuickJS::end(): RemoveAll. *)
End ==
  /\ ~ended /\ stack = <<>> /\ CanEnd
  /\ held' = held \ {t.id : t \in timers}
  /\ timers' = {}
  /\ ended' = TRUE
  /\ UNCHANGED <<idCounter, stack, activeOut, owner, live, forgotten, clock, cleared, late>>

-----------------------------------------------------------------------------
(* The AsyncTCP task and the clock.                                        *)

(* Bug, for the mutants: the sweep takes the nohup timers too. *)
SweepTakesNohupBug(c) == {t \in timers : t.owner = c}

(* The timers RemoveTimersForOwner(c) erases. *)
Swept(c) == {t \in timers : t.owner = c /\ ~t.nohup}

(* Bug, for a mutant: the timers that survive keep their owner. *)
DisconnectKeepsOwnerBug(c) ==
  /\ ~ended /\ c \in known /\ CanDisconnect
  /\ live' = live \ {c}
  /\ timers' = {IF t.owner = c THEN [t EXCEPT !.out = Serial] ELSE t : t \in timers \ Swept(c)}
  /\ held' = held \ {t.id : t \in Swept(c)}
  /\ late' = late \union {t.id : t \in {u \in Batched : u.owner = c}}
  /\ UNCHANGED <<idCounter, stack, activeOut, owner, forgotten, clock, cleared, ended>>

(* onTelnetDisconnect: RemoveTimersForOwner drops the client's timers and  *)
(* detaches those marked nohup.  A client Telnet.stop() has forgotten has  *)
(* no id any more, and the handler returns at once.                        *)
Disconnect(c) ==
  /\ ~ended /\ c \in live /\ CanDisconnect
  /\ live' = live \ {c}
  /\ \/ /\ c \in known
        /\ timers' = {IF t.owner = c THEN [t EXCEPT !.out = Serial, !.owner = 0] ELSE t :
                        t \in timers \ Swept(c)}
        /\ held' = held \ {t.id : t \in Swept(c)}
        /\ late' = late \union {t.id : t \in {u \in Batched : u.owner = c}}
     \/ /\ c \notin known
        /\ UNCHANGED <<timers, held, late>>
  /\ UNCHANGED <<idCounter, stack, activeOut, owner, forgotten, clock, cleared, ended>>

(* Time passes, but the JS task is never MaxStall behind with a timer or   *)
(* inside a round.                                                         *)
Advance ==
  /\ ~ended /\ clock < MaxClock
  /\ \A t \in timers : clock - t.due < MaxStall
  /\ \A i \in DOMAIN stack : clock - stack[i].now < MaxStall
  /\ clock' = clock + 1
  /\ UNCHANGED <<timers, idCounter, stack, activeOut, owner, live, forgotten, held, cleared, late, ended>>

-----------------------------------------------------------------------------
JSReturns == EndCommand \/ EndJob \/ EndCallback

LoopStep == (stack = <<>> /\ StartRound) \/ StartCallback \/ EndRound

Next ==
  \/ \E d \in Delays, repeat \in BOOLEAN, nohup \in Nohups : Register(d, repeat, nohup)
  \/ \E id \in 1..idCounter : Clear(id)
  \/ \E c \in Clients \union {Serial} : StartCommand(c)
  \/ Stop
  \/ StartJob \/ StartRound \/ StartCallback \/ EndRound
  \/ JSReturns
  \/ End
  \/ \E c \in Clients : Disconnect(c)
  \/ Advance

Spec == Init /\ [][Next]_vars

(* The JS task runs loop() for ever; JavaScript code returns, at every     *)
(* depth (a require() that waits gives up after five seconds).             *)
FairSpec ==
  /\ Spec
  /\ WF_vars(LoopStep)
  /\ SF_vars(stack = <<>> /\ StartRound)
  /\ \A n \in 1..MaxDepth :
       SF_vars(Len(stack) = n /\ (JSReturns \/ StartCallback \/ EndRound))

-----------------------------------------------------------------------------
Timer ==
  [id : 1..MaxId, timeout : 0..Wrap-1, interval : {NoInterval} \union {Signed(d) : d \in Delays},
   out : Clients \union {Serial}, owner : Clients \union {0}, nohup : Nohups, due : Nat]

Activation ==
  [kind : {Command, Job, Round}, client : Clients \union {Serial}, now : Nat,
   todo : Seq(Timer), prev : Clients \union {Serial}, running : BOOLEAN]

TypeOK ==
  /\ timers \subseteq Timer
  /\ idCounter \in 0..MaxId
  /\ stack \in Seq(Activation)
  /\ activeOut \in Clients \union {Serial}
  /\ owner \in Clients \union {0}
  /\ live \subseteq Clients /\ forgotten \subseteq Clients
  /\ clock \in StartClock..MaxClock
  /\ held \subseteq 1..MaxId
  /\ cleared \subseteq 1..MaxId
  /\ late \subseteq 1..MaxId
  /\ ended \in BOOLEAN

(* Ids are unique: an id names at most one timer among the armed ones and  *)
(* those in the local vectors of the rounds under way, which is what       *)
(* clearTimeout(id) relies on.                                             *)
UniqueIds ==
  /\ \A t, u \in timers : t.id = u.id => t = u
  /\ \A i \in DOMAIN stack : \A k \in DOMAIN stack[i].todo :
       /\ \A t \in timers : t.id # stack[i].todo[k].id
       /\ \A j \in DOMAIN stack : \A l \in DOMAIN stack[j].todo :
            stack[i].todo[k].id = stack[j].todo[l].id => i = j /\ k = l

(* No timer runs more than the tolerance of ConsumeTimer early, also when  *)
(* millis() wraps between its registration and its time.                   *)
NotEarly ==
  \A i \in DOMAIN stack : \A k \in DOMAIN stack[i].todo :
    stack[i].todo[k].due <= stack[i].now + Eps

(* The callbacks of a round are called in the order of their times.        *)
InOrder ==
  \A i \in DOMAIN stack : \A k, l \in DOMAIN stack[i].todo :
    k < l => stack[i].todo[k].due <= stack[i].todo[l].due

(* clearTimeout works on an armed timer: unless it was in the local vector *)
(* of a round at the time, a cleared timer is gone, and a cleared timer    *)
(* that is gone never comes back, under any timer registered later.        *)
ClearStopsArmed ==
  [][\A id \in cleared' :
       (\A t \in (IF id \in cleared THEN All ELSE Batched) : t.id # id) =>
         \A t \in All' : t.id # id]_vars

(* clearTimeout(id) and clearInterval(id): once the clearing code has      *)
(* returned and the loop is idle again, a cleared timer is not armed.      *)
ClearedStaysCleared ==
  stack = <<>> => \A t \in timers : t.id \notin cleared

(* A function value is referenced exactly as long as its timer exists,     *)
(* except that clearTimeout drops the timer and keeps the reference: in    *)
(* particular no function of an armed timer or of a round is ever freed    *)
(* under it, by a disconnect or by end().                                  *)
FunctionsHeld ==
  /\ \A t \in All : t.id \in held
  /\ \A id \in held : id \in cleared \/ \E t \in All : t.id = id

(* After end() no function is referenced: JS_FreeRuntime asserts that no   *)
(* object is left (quickjs.c).                                             *)
NoLeakAtEnd == ended => held = {}

(* The disconnect of a client leaves no timer of its own behind, but in    *)
(* three cases: the timer was in the local vector of a round, a command of *)
(* the client was still running and registered it afterwards, or           *)
(* Telnet.stop() had forgotten the client.                                 *)
SweepMisses ==
  \A t \in All : t.owner \notin live \union {0} => t.id \in late \/ t.owner \in forgotten

(* "drop every timer scheduled by that client": when the loop is idle no   *)
(* timer belongs to a client that has left.                                *)
NoOrphans == stack = <<>> => \A t \in timers : t.owner \in live \union {0}

(* A timer marked nohup is not dropped: it leaves the system only by       *)
(* running out, by clearTimeout or by end().                               *)
NohupSurvives ==
  [][\A t \in timers : t.nohup =>
       \/ \E u \in All' : u.id = t.id
       \/ t.id \in cleared'
       \/ ended']_vars

(* While a command of a client runs JavaScript, timers it registers belong *)
(* to that client (handleClientInput tags the REPL as the current owner).  *)
CommandOwnsItsTimers ==
  (stack # <<>> /\ Top.kind = Command) => owner = Top.client

(* The stream a command leaves active for the callbacks it has set up may  *)
(* be stale ("a stale value is fine") but is not freed: no job runs with   *)
(* the output stream of a client that has left or is forgotten, which      *)
(* onTelnetDisconnect or Telnet.stop() has deleted.                        *)
JobsHaveAStream ==
  (stack # <<>> /\ Top.kind = Job) => activeOut \in known \union {Serial}

(* A repeating timer is never lost: from one moment to the next it stays   *)
(* armed or in a round unless it is cleared, its client disconnects or     *)
(* the engine ends.                                                        *)
IntervalKept ==
  [][\A t \in All : t.interval >= 0 =>
       \/ \E u \in All' : u.id = t.id
       \/ t.id \in cleared'
       \/ t.owner \notin live' \union {0}
       \/ ended']_vars

(* A timer whose time has come is run, or cleared, or swept away.          *)
Pending(id) == \E t \in timers : t.id = id /\ t.due <= clock
Called(id) ==
  \/ \E i \in DOMAIN stack : stack[i].running /\ Head(stack[i].todo).id = id
  \/ \A t \in All : t.id # id
DueIsCalled == \A id \in 1..MaxId : Pending(id) ~> Called(id)
=============================================================================
