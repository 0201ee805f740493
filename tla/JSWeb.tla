-------------------------------- MODULE JSWeb --------------------------------
(***************************************************************************)
(* The HTTP server of esp32/WebServer.h (express), the queue of operations *)
(* of esp32/JSQueue.cpp and the stash of handlers of esp32/JSStash.h.  A   *)
(* request is received on the AsyncTCP task, which may not run JavaScript: *)
(* for each middleware and for the route it queues an operation, and       *)
(* loopWebServer() runs the queue on the JS task.  loopWebServer() is      *)
(* called by loop() and again by JSBlockingGuard::tick() while a handler   *)
(* waits.  A request belongs to the library's connection and to each       *)
(* operation that captured it, and is freed by the last of them.           *)
(***************************************************************************)
EXTENDS Naturals, Sequences, FiniteSets

CONSTANTS
  Servers,    \* the express objects of the program
  Paths,
  Requests,
  Null,
  MaxStash,   \* bound: handlers registered
  MaxStatic,  \* bound: static routes registered
  MaxDepth    \* bound: handlers that run within one another

ASSUME WebAssumption ==
  /\ MaxStash \in Nat /\ MaxStatic \in Nat /\ MaxDepth \in Nat
  /\ IsFiniteSet(Requests)
  /\ Null \notin Requests

VARIABLES
  nextId,     \* JSStash: the handlers it holds are 1..nextId
  staticIds,  \* g_staticRouteIdCounter
  table,      \* g_routeHandlers: the ids in use, and the handler each stands for
  routes,     \* the library: [Servers -> Seq(handler)], in order of registration
  uses,       \* the library: [Servers -> Seq(stash id)], the middlewares
  listening,  \* the servers that accept requests
  ops,        \* g_pendingExecutions, last one on top: [req, id]
  stack,      \* the operations that run, innermost last
  draining,   \* is runPendingOps() what runs (or else JavaScript)?
  tcp,        \* the AsyncTCP task: the request it carries along the chain
  phase,      \* [Requests -> how far each is]
  refs,       \* [Requests -> owners of the object, the connection included]
  online,     \* requests whose connection is up
  kept,       \* requests whose wrapper the program has kept
  handled,    \* [Requests -> the handlers it was given to, in order]
  misuse      \* has a freed request been used?

registry == <<nextId, staticIds, table, routes, uses, listening>>
js == <<ops, stack, draining>>
requests == <<phase, refs, online, kept, handled, misuse>>
vars == <<registry, js, tcp, requests>>

StashIds == 1..MaxStash
Handlers == [kind : {"js"}, id : StashIds, path : Paths]
            \union [kind : {"static"}, id : 1..MaxStatic, path : Paths]
Ops == [req : Requests, id : StashIds]
PhaseNames == {"new", "chain", "paused", "answered"}

TypeOK ==
  /\ nextId \in 0..MaxStash /\ staticIds \in 0..MaxStatic
  /\ DOMAIN table \subseteq 1..(MaxStash + MaxStatic)
  /\ \A id \in DOMAIN table : table[id] \in Handlers
  /\ routes \in [Servers -> Seq(Handlers)]
  /\ uses \in [Servers -> Seq(StashIds)]
  /\ listening \subseteq Servers
  /\ ops \in Seq(Ops) /\ stack \in Seq(Ops) /\ draining \in BOOLEAN
  /\ tcp.req \in Requests \union {Null}
  /\ phase \in [Requests -> PhaseNames]
  /\ refs \in [Requests -> Nat]
  /\ online \subseteq Requests /\ kept \subseteq Requests
  /\ handled \in [Requests -> Seq(StashIds)]
  /\ misuse \in BOOLEAN

Idle == [req |-> Null]

Init ==
  /\ nextId = 0 /\ staticIds = 0
  /\ table = <<>>
  /\ routes = [s \in Servers |-> <<>>] /\ uses = [s \in Servers |-> <<>>]
  /\ listening = {}
  /\ ops = <<>> /\ stack = <<>> /\ draining = FALSE
  /\ tcp = Idle
  /\ phase = [r \in Requests |-> "new"]
  /\ refs = [r \in Requests |-> 0]
  /\ online = {} /\ kept = {}
  /\ handled = [r \in Requests |-> <<>>]
  /\ misuse = FALSE

-----------------------------------------------------------------------------
(* The JS task: what a program may call, between two runs of loop() or in  *)
(* a handler.                                                              *)

InProgram == ~draining

Seqs == INSTANCE SequencesExt

Put(id, handler) == [i \in DOMAIN table \union {id} |-> IF i = id THEN handler ELSE table[i]]

(* app.get, post, put, delete, patch, all: the handler goes to the stash,  *)
(* which never gives it back, and its id is the route's.                   *)
Route(s, p) ==
  LET id == nextId + 1
      handler == [kind |-> "js", id |-> id, path |-> p]
  IN /\ InProgram /\ nextId < MaxStash
     /\ nextId' = id
     /\ routes' = [routes EXCEPT ![s] = Append(@, handler)]
     /\ table' = Put(id, handler)
     /\ UNCHANGED <<staticIds, uses, listening, js, tcp, requests>>

(* app.serveStatic, serveSD: the id is that of a counter of their own.     *)
ServeStatic(s, p) ==
  LET id == staticIds + 1
      handler == [kind |-> "static", id |-> id, path |-> p]
  IN /\ InProgram /\ staticIds < MaxStatic
     /\ staticIds' = id
     /\ routes' = [routes EXCEPT ![s] = Append(@, handler)]
     /\ table' = Put(id, handler)
     /\ UNCHANGED <<nextId, uses, listening, js, tcp, requests>>

(* app.use with a path, which it does not look at.                         *)
Use(s) ==
  /\ InProgram /\ nextId < MaxStash
  /\ nextId' = nextId + 1
  /\ uses' = [uses EXCEPT ![s] = Append(@, nextId + 1)]
  /\ UNCHANGED <<staticIds, table, routes, listening, js, tcp, requests>>

(* Bug, for a mutant: the entry of a handler that is removed stays.        *)
RemoveKeepsEntryBug(s, id) ==
  /\ InProgram /\ id \in DOMAIN table
  /\ table' = table
  /\ routes' = [routes EXCEPT ![s] = Seqs!RemoveFirst(@, table[id])]
  /\ UNCHANGED <<nextId, staticIds, uses, listening, js, tcp, requests>>

(* app.remove: the entry goes whichever server the handler is on; the      *)
(* handler goes if it is on this one.                                      *)
Remove(s, id) ==
  /\ InProgram /\ id \in DOMAIN table
  /\ table' = [i \in DOMAIN table \ {id} |-> table[i]]
  /\ routes' = [routes EXCEPT ![s] = Seqs!RemoveFirst(@, table[id])]
  /\ UNCHANGED <<nextId, staticIds, uses, listening, js, tcp, requests>>

(* app.listen, app.close                                                   *)
Listen(s) ==
  /\ InProgram
  /\ \/ s \notin listening /\ listening' = listening \union {s}
     \/ s \in listening /\ listening' = listening \ {s}
  /\ UNCHANGED <<nextId, staticIds, table, routes, uses, js, tcp, requests>>

(* req.send, res.send, redirect: through the pointer in the wrapper.       *)
Answer(r) ==
  /\ misuse' = (misuse \/ refs[r] = 0)
  /\ phase' = [phase EXCEPT ![r] = "answered"]

Send ==
  /\ InProgram /\ stack # <<>>
  /\ Answer(stack[Len(stack)].req)
  /\ UNCHANGED <<registry, js, tcp, refs, online, kept, handled>>

(* The program has kept the wrapper and answers in a timer, after an await *)
SendLater(r) ==
  /\ InProgram /\ r \in kept
  /\ Answer(r)
  /\ kept' = kept \ {r}
  /\ UNCHANGED <<registry, js, tcp, refs, online, handled>>

-----------------------------------------------------------------------------
(* The JS task: the queue.                                                 *)

(* loopWebServer(), from loop() or from the tick() of a handler's wait     *)
LoopWebServer ==
  /\ ~draining /\ Len(stack) < MaxDepth
  /\ draining' = TRUE
  /\ UNCHANGED <<registry, ops, stack, tcp, requests>>

(* Bug, for a mutant: the operation is taken out after it has run.         *)
PopKeepsOpBug(queue) == queue

(* popAndExecutePendingOp() takes the last operation out and runs it.      *)
Pop(queue) == SubSeq(queue, 1, Len(queue) - 1)

Execute ==
  LET op == ops[Len(ops)]
  IN /\ draining /\ ops # <<>>
     /\ ops' = Pop(ops)
     /\ stack' = Append(stack, op)
     /\ draining' = FALSE
     /\ handled' = [handled EXCEPT ![op.req] = Append(@, op.id)]
     /\ misuse' = (misuse \/ refs[op.req] = 0)
     /\ UNCHANGED <<registry, tcp, phase, refs, online, kept>>

(* Bug, for a mutant: runPendingOps clears the queue once it has run it,   *)
(* with what was queued meanwhile.                                         *)
ReturnedClearsBug ==
  /\ ops' = <<>>
  /\ stack' = SubSeq(stack, 1, Len(stack) - 1)
  /\ draining' = TRUE

(* An operation returns, and with it its share of the request, also if the *)
(* program keeps the wrapper.                                              *)
Release(r) == [refs EXCEPT ![r] = @ - 1]

Returned ==
  /\ ops' = ops
  /\ stack' = SubSeq(stack, 1, Len(stack) - 1)
  /\ draining' = TRUE

HandlerReturns ==
  LET r == stack[Len(stack)].req
  IN /\ ~draining /\ stack # <<>>
     /\ Returned
     /\ refs' = Release(r)
     /\ kept' \in {kept, kept \union {r}}
     /\ UNCHANGED <<registry, tcp, phase, online, handled, misuse>>

(* runPendingOps() returns once the queue is empty.                        *)
QueueIsEmpty ==
  /\ draining /\ ops = <<>>
  /\ draining' = FALSE
  /\ UNCHANGED <<registry, ops, stack, tcp, requests>>

-----------------------------------------------------------------------------
(* The AsyncTCP task.                                                      *)

Receive(r, s, p) ==
  /\ tcp = Idle /\ s \in listening /\ phase[r] = "new"
  /\ tcp' = [req |-> r, server |-> s, path |-> p, next |-> 1]
  /\ phase' = [phase EXCEPT ![r] = "chain"]
  /\ refs' = [refs EXCEPT ![r] = 1]
  /\ online' = online \union {r}
  /\ UNCHANGED <<registry, js, kept, handled, misuse>>

(* Bug, for a mutant: an operation has the plain pointer of the request.   *)
PushRawPointerBug(r, id) ==
  /\ ops' = Append(ops, [req |-> r, id |-> id])
  /\ refs' = refs

(* pushPendingOp() of an operation that shares the request                 *)
Push(r, id) ==
  /\ ops' = Append(ops, [req |-> r, id |-> id])
  /\ refs' = [refs EXCEPT ![r] = @ + 1]

InChain == tcp # Idle /\ tcp.next <= Len(uses[tcp.server])

(* A middleware queues its handler and goes on along the chain.            *)
Middleware ==
  /\ InChain
  /\ Push(tcp.req, uses[tcp.server][tcp.next])
  /\ tcp' = [tcp EXCEPT !.next = @ + 1]
  /\ UNCHANGED <<registry, stack, draining, phase, online, kept, handled, misuse>>

(* The library takes the first handler for the path.                       *)
Matches(s, p, i) ==
  /\ routes[s][i].path = p
  /\ \A j \in 1..i-1 : routes[s][j].path # p

(* The end of the chain: the handler for the path, if any.  A route pauses *)
(* the request, unless a middleware has answered it by now, and queues its *)
(* handler; the library itself answers a static route, and a request that  *)
(* no handler is for.                                                      *)
EndOfChain ==
  LET r == tcp.req
      found == {i \in DOMAIN routes[tcp.server] : Matches(tcp.server, tcp.path, i)}
      handler(i) == routes[tcp.server][i]
  IN /\ tcp # Idle /\ ~InChain
     /\ tcp' = Idle
     /\ \/ \E i \in found :
             /\ handler(i).kind = "js"
             /\ Push(r, handler(i).id)
             /\ phase' = [phase EXCEPT ![r] = IF @ = "chain" THEN "paused" ELSE @]
        \/ /\ \A i \in found : handler(i).kind = "static"
           /\ phase' = [phase EXCEPT ![r] = "answered"]
           /\ UNCHANGED <<ops, refs>>
     /\ UNCHANGED <<registry, stack, draining, online, kept, handled, misuse>>

(* A connection ends: the client hangs up or has its answer.               *)
Disconnect(r) ==
  /\ tcp = Idle /\ r \in online
  /\ online' = online \ {r}
  /\ refs' = Release(r)
  /\ UNCHANGED <<registry, js, tcp, phase, kept, handled, misuse>>

(* A client comes back once its request is over (only in BusySpec).        *)
Reconnect(r) ==
  /\ phase[r] # "new" /\ refs[r] = 0 /\ r \notin kept
  /\ phase' = [phase EXCEPT ![r] = "new"]
  /\ handled' = [handled EXCEPT ![r] = <<>>]
  /\ UNCHANGED <<registry, js, tcp, refs, online, kept, misuse>>

-----------------------------------------------------------------------------
Program ==
  \/ \E s \in Servers, p \in Paths : Route(s, p) \/ ServeStatic(s, p)
  \/ \E s \in Servers : Use(s) \/ Listen(s)
  \/ \E s \in Servers, id \in 1..(MaxStash + MaxStatic) : Remove(s, id)
  \/ Send
  \/ \E r \in Requests : SendLater(r)

Queue == LoopWebServer \/ Execute \/ HandlerReturns \/ QueueIsEmpty

AsyncTCP ==
  \/ \E r \in Requests, s \in Servers, p \in Paths : Receive(r, s, p)
  \/ Middleware \/ EndOfChain
  \/ \E r \in Requests : Disconnect(r)

Next == Program \/ Queue \/ AsyncTCP

Spec == Init /\ [][Next]_vars

(* loop() runs again and again and a handler returns, also if it waits     *)
(* more than once before; the AsyncTCP task goes on along a chain.         *)
Fairness ==
  /\ WF_vars(stack = <<>> /\ LoopWebServer)
  /\ WF_vars(Execute \/ QueueIsEmpty)
  /\ \A d \in 1..MaxDepth : SF_vars(Len(stack) = d /\ HandlerReturns)
  /\ WF_vars(Middleware \/ EndOfChain)

FairSpec == Spec /\ Fairness

(* A server whose clients come back for ever.                              *)
BusySpec ==
  /\ Init /\ [][Next \/ \E r \in Requests : Reconnect(r)]_vars
  /\ Fairness

-----------------------------------------------------------------------------
(* What the queue and the server promise.                                  *)

(* A request is given to a handler once, also when the handler waits and   *)
(* so runs the queue its own operation came from                           *)
(* (popAndExecutePendingOp takes it out before it runs it).                *)
HandledOnce ==
  \A r \in Requests :
    \A i, j \in 1..Len(handled[r]) : handled[r][i] = handled[r][j] => i = j

Holders(r) ==
  Cardinality({i \in 1..Len(ops) : ops[i].req = r})
  + Cardinality({i \in 1..Len(stack) : stack[i].req = r})
  + (IF r \in online THEN 1 ELSE 0)

(* The object of a request is freed with its connection and with the last  *)
(* operation about it, no sooner and no later ("lives until the JS-thread  *)
(* lambda finishes").                                                      *)
RequestIsHeld == \A r \in Requests : refs[r] = Holders(r)

(* app.remove finds nothing but handlers some server has: the library      *)
(* freed the others (g_routeHandlers).                                     *)
TableIsLive ==
  \A id \in DOMAIN table :
    \E s \in Servers : \E i \in 1..Len(routes[s]) : routes[s][i] = table[id]

(* Each request that is queued for a handler is given to it in the end,    *)
(* whatever handlers run and wait meanwhile (runPendingOps), if no more    *)
(* than so many requests come: the queue takes the youngest first.         *)
EveryRequestIsGiven ==
  \A r \in Requests, id \in StashIds :
    (\E i \in 1..Len(ops) : ops[i] = [req |-> r, id |-> id])
      ~> (\E i \in 1..Len(handled[r]) : handled[r][i] = id)

-----------------------------------------------------------------------------
(* What does not hold of this code.                                        *)

(* "Returns the route id (same id-space as app.get/post/etc.) so the       *)
(* caller can later app.remove(id)": two routes never have one id.         *)
IdsAreUnique ==
  \A s, t \in Servers :
    \A i \in 1..Len(routes[s]), j \in 1..Len(routes[t]) :
      routes[s][i].id = routes[t][j].id => routes[s][i] = routes[t][j]

(* A program can still remove each of its routes.                          *)
RoutesCanBeRemoved ==
  \A s \in Servers : \A i \in 1..Len(routes[s]) :
    \E id \in DOMAIN table : table[id] = routes[s][i]

(* A request is given to its middlewares before it is given to its route.  *)
IsMiddleware(id) == \E s \in Servers : \E k \in 1..Len(uses[s]) : uses[s][k] = id

MiddlewareFirst ==
  \A r \in Requests : \A i, j \in 1..Len(handled[r]) :
    i < j /\ IsMiddleware(handled[r][j]) => IsMiddleware(handled[r][i])

(* A program that keeps the response uses no request that is freed.        *)
NoLateUse == ~misuse

=============================================================================
