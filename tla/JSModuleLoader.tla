--------------------------- MODULE JSModuleLoader ---------------------------
(***************************************************************************)
(* class JSModuleLoader (esp32/QuickJS.h): registerModule, require and     *)
(* importModule on the JS task, and the reader task that reads the files.  *)
(*                                                                         *)
(* The JS task has a stack of activations, innermost last.  While          *)
(* require() waits (JSBlockingGuard::wait) it ticks: it runs one queued    *)
(* job, whatever else may call JavaScript (timers, telnet commands, other  *)
(* peripherals), and processPendingEval; so that every activation but a    *)
(* waiting require() must finish first, and a waiting one may have others  *)
(* on top of it.  A step is what one task does between two accesses to     *)
(* the state the mutex protects.                                           *)
(*                                                                         *)
(* The text of a module is abstracted to the modules it requires, whether  *)
(* it is CommonJS, and whether it throws.  Static import statements (the   *)
(* engine's linker, loadStatic) are not modelled.                          *)
(***************************************************************************)
EXTENDS Naturals, Sequences, SequencesExt

CONSTANTS
  Modules,    \* module names
  Files,      \* those whose file exists (and is not empty)
  CommonJS,   \* those that are CommonJS (the others are ES modules)
  Relative,   \* those whose name begins with "./" or "../"
  Throws,     \* those whose evaluation throws
  Requires,   \* [Modules -> Seq(Modules)]: what each requires as it is evaluated
  MaxReq,     \* bound: LoadRequests ever created
  MaxJobs,    \* bound: evaluations queued as jobs
  MaxDepth    \* bound: activations on the JS stack

None == "none"     \* no module
Blank == "blank"   \* the exports of an empty text

ASSUME LoaderAssumption ==
  /\ Files \subseteq Modules /\ CommonJS \subseteq Modules /\ Throws \subseteq Modules
  /\ Relative \subseteq Modules
  /\ Requires \in [Modules -> Seq(Modules)]
  /\ MaxReq \in Nat /\ MaxJobs \in Nat /\ MaxDepth \in Nat
  /\ None \notin Modules /\ Blank \notin Modules

VARIABLES
  req,        \* the LoadRequests created so far, see Request
  pending,    \* pending_: requests for the reader
  notify,     \* the binary semaphore notify_
  reader,     \* where the reader task is: "take", "swap", "read" or "store"
  work,       \* the reader's local batch, what is left of it
  cache,      \* cache_: [Modules -> request number, or 0]
  evalQueue,  \* pending_eval_: requests whose source is loaded
  ns,         \* ns_cache_: [Modules -> the module whose exports it holds, None or Blank]
  jobs,       \* the engine's job queue: the modules to evaluate
  global,     \* the module whose `module` object is the global one, None or Blank
  defs,       \* [Modules -> "none" | "defined" | "threw"]: the first definition
              \* of that name the engine holds (JSContext::loaded_modules)
  stack,      \* the activations of the JS task
  uaf         \* has a deleted request, or an invalid iterator, been used?

rvars == <<notify, reader, work>>
vars == <<req, pending, rvars, cache, evalQueue, ns, jobs, global, defs, stack, uaf>>

Request ==
  [name : Modules, status : {"queued", "loaded", "error", "blank", "deleted"},
   promise : {"none", "pending", "fulfilled", "rejected"}]

Frame ==
  [kind : {"register", "require", "import", "eval", "pass"},
   name : Modules \union {None},
   pc : {"push", "give", "source", "waitRead", "fetch", "waitNs", "copy", "run"},
   todo : Seq(Modules) \union Seq(1..MaxReq),
   failed : BOOLEAN,   \* a require() of the module's code threw
   first : BOOLEAN,    \* the engine found no earlier definition of the name
   freed : BOOLEAN]    \* the engine has freed the definition being evaluated

(* An activation without work of its own. *)
Call(kind, m, pc) ==
  [kind |-> kind, name |-> m, pc |-> pc, todo |-> <<>>, failed |-> FALSE,
   first |-> FALSE, freed |-> FALSE]

Top == Last(stack)
At(kinds, pc) == ~uaf /\ stack # <<>> /\ Top.kind \in kinds /\ Top.pc = pc
Push(f) == Append(stack, f)
SetTop(f) == [stack EXCEPT ![Len(stack)] = f]
Goto(pc) == SetTop([Top EXCEPT !.pc = pc])

Waiting == stack # <<>> /\ Top.pc \in {"waitRead", "waitNs"}

(* loop() at the bottom of the stack, or tick() in a require() that waits. *)
Ticking == ~uaf /\ (stack = <<>> \/ Waiting) /\ Len(stack) < MaxDepth

Loaded(m) == cache[m] # 0 /\ req[cache[m]].status = "loaded"
Done(m) == cache[m] # 0 /\ req[cache[m]].status \in {"loaded", "error"}

(* There is room for another request.  (One about to be made is that of    *)
(* the activation on top, and nothing asks for another until it is made.)  *)
Room == Len(req) < MaxReq

(* There is room for another job, besides those about to be queued. *)
JobRoom ==
  Len(jobs) + Len(SelectSeq(stack, LAMBDA f : f.kind = "require" /\ f.pc # "waitNs")) < MaxJobs

Queued(m) == \E i \in DOMAIN pending : req[pending[i]].name = m

Init ==
  /\ req = <<>>
  /\ pending = <<>>
  /\ notify = FALSE
  /\ reader = "take"
  /\ work = <<>>
  /\ cache = [m \in Modules |-> 0]
  /\ evalQueue = <<>>
  /\ ns = [m \in Modules |-> None]
  /\ jobs = <<>>
  /\ global = None
  /\ defs = [m \in Modules |-> "none"]
  /\ stack = <<>>
  /\ uaf = FALSE

-----------------------------------------------------------------------------
(* Reading: queueRead and the end of queueAsyncLoad.                       *)

(* registerModule(m, path): queueRead, in one activation of its own.       *)
RegisterModule(m) ==
  /\ Ticking /\ Room
  /\ cache[m] = 0 /\ ~Queued(m)
  /\ stack' = Push(Call("register", m, "push"))
  /\ UNCHANGED <<req, pending, rvars, cache, evalQueue, ns, jobs, global, defs, uaf>>

(* A new request is pushed on pending_ under the mutex ...                 *)
PushRead ==
  /\ At({"register", "require", "import"}, "push")
  /\ req' = Append(req, [name |-> Top.name, status |-> "queued",
                         promise |-> IF Top.kind = "import" THEN "pending" ELSE "none"])
  /\ pending' = Append(pending, Len(req) + 1)
  /\ stack' = Goto("give")
  /\ UNCHANGED <<rvars, cache, evalQueue, ns, jobs, global, defs, uaf>>

(* ... and the reader is woken.  wait() looks at its condition before it   *)
(* ticks for the first time.                                               *)
GiveRead ==
  /\ At({"register", "require", "import"}, "give")
  /\ notify' = TRUE
  /\ stack' = IF Top.kind = "require" THEN Goto(IF Done(Top.name) THEN "fetch" ELSE "waitRead")
              ELSE Front(stack)
  /\ UNCHANGED <<req, pending, reader, work, cache, evalQueue, ns, jobs, global, defs, uaf>>

-----------------------------------------------------------------------------
(* requireSync.                                                            *)

(* A call from a command, a timer or other JavaScript code that loop() or  *)
(* tick() runs.  A cached namespace is returned at once, which changes     *)
(* nothing.                                                                *)
Require(m) ==
  /\ Ticking /\ Room /\ JobRoom
  /\ ns[m] = None
  /\ stack' = Push(Call("require", m, "source"))
  /\ UNCHANGED <<req, pending, rvars, cache, evalQueue, ns, jobs, global, defs, uaf>>

(* Is the source in the cache?  If not, queueRead skips a module already   *)
(* cached (as an error, for which wait() has nothing to wait) or pending.  *)
CheckSource ==
  /\ At({"require"}, "source")
  /\ stack' = Goto(IF cache[Top.name] # 0 THEN "fetch"
                   ELSE IF Queued(Top.name) THEN "waitRead" ELSE "push")
  /\ UNCHANGED <<req, pending, rvars, cache, evalQueue, ns, jobs, global, defs, uaf>>

ReadArrived ==
  /\ At({"require"}, "waitRead")
  /\ Done(Top.name)
  /\ stack' = Goto("fetch")
  /\ UNCHANGED <<req, pending, rvars, cache, evalQueue, ns, jobs, global, defs, uaf>>

(* What is left of the stack when the require() on top returns or throws:  *)
(* the code that called it goes on, or is abandoned.                       *)
Returned(threw) ==
  LET below == Front(stack)
      caller == Last(below)
  IN IF below # <<>> /\ caller.kind = "eval"
     THEN [below EXCEPT ![Len(below)] =
             IF threw THEN [caller EXCEPT !.failed = TRUE, !.todo = <<>>]
             ELSE [caller EXCEPT !.todo = Tail(@)]]
     ELSE below

(* With the source at hand a job that evaluates it is queued, also if the  *)
(* namespace has come meanwhile; a file that could not be read makes       *)
(* require() throw.                                                        *)
Fetch ==
  /\ At({"require"}, "fetch")
  /\ IF Loaded(Top.name)
     THEN /\ jobs' = Append(jobs, Top.name)
          /\ stack' = IF ns[Top.name] = None THEN Goto("waitNs") ELSE Returned(FALSE)
     ELSE UNCHANGED jobs /\ stack' = Returned(TRUE)
  /\ UNCHANGED <<req, pending, rvars, cache, evalQueue, ns, global, defs, uaf>>

GotNamespace ==
  /\ At({"require"}, "waitNs")
  /\ ns[Top.name] # None
  /\ stack' = Returned(FALSE)
  /\ UNCHANGED <<req, pending, rvars, cache, evalQueue, ns, jobs, global, defs, uaf>>

(* Bug, for a mutant: only the wait for the file has a time limit. *)
TimeoutReadOnlyBug ==
  /\ ~uaf /\ stack # <<>> /\ Top.pc = "waitRead"
  /\ stack' = Returned(TRUE)
  /\ UNCHANGED <<req, pending, rvars, cache, evalQueue, ns, jobs, global, defs, uaf>>

(* Five seconds have passed when tick() returns: wait() gives up without   *)
(* looking at its condition again.                                         *)
Timeout ==
  /\ ~uaf /\ Waiting
  /\ stack' = Returned(TRUE)
  /\ UNCHANGED <<req, pending, rvars, cache, evalQueue, ns, jobs, global, defs, uaf>>

-----------------------------------------------------------------------------
(* queueAsyncLoad.  A cached namespace resolves a new promise at once,     *)
(* which changes nothing here.                                             *)

(* The source is found in the cache under the mutex ...                    *)
ImportLoaded(m) ==
  /\ Ticking /\ Room
  /\ ns[m] = None /\ Loaded(m)
  /\ stack' = Push(Call("import", m, "copy"))
  /\ UNCHANGED <<req, pending, rvars, cache, evalQueue, ns, jobs, global, defs, uaf>>

(* ... and copied after it is released, when the reader may have replaced  *)
(* the entry by one without a source; the copy waits for loop() or tick(). *)
CopySource ==
  /\ At({"import"}, "copy")
  /\ req' = Append(req, [name |-> Top.name, promise |-> "pending",
                         status |-> IF Loaded(Top.name) THEN "loaded" ELSE "blank"])
  /\ evalQueue' = Append(evalQueue, Len(req) + 1)
  /\ stack' = Front(stack)
  /\ UNCHANGED <<pending, rvars, cache, ns, jobs, global, defs, uaf>>

(* It has to be read first, and is queued without asking whether it is     *)
(* queued already.                                                         *)
ImportUnread(m) ==
  /\ Ticking /\ Room
  /\ ns[m] = None /\ ~Loaded(m)
  /\ stack' = Push(Call("import", m, "push"))
  /\ UNCHANGED <<req, pending, rvars, cache, evalQueue, ns, jobs, global, defs, uaf>>

-----------------------------------------------------------------------------
(* Evaluation.                                                             *)

(* The activation that evaluates m.                                        *)
Evaluation(m) ==
  [Call("eval", m, "run") EXCEPT !.todo = Requires[m],
                                 !.first = m \notin CommonJS /\ defs[m] = "none"]

(* Bug, for a mutant: the globals of the module before are kept.           *)
StartEvalBug(m, f) ==
  /\ stack' = Append(f, Evaluation(m))
  /\ global' = IF m \in CommonJS /\ global = None THEN m ELSE global
  /\ defs' = IF Evaluation(m).first THEN [defs EXCEPT ![m] = "defined"] ELSE defs

(* evalModuleAndGetNS(m) begins, on top of f: a CommonJS module first      *)
(* gives the globals `exports` and `module` new values; an ES module is    *)
(* compiled, which adds a definition to the engine's list.                 *)
StartEval(m, f) ==
  /\ stack' = Append(f, Evaluation(m))
  /\ global' = IF m \in CommonJS THEN m ELSE global
  /\ defs' = IF Evaluation(m).first THEN [defs EXCEPT ![m] = "defined"] ELSE defs

(* JS_ExecutePendingJob runs the job of a require(). *)
RunJob ==
  /\ Ticking
  /\ jobs # <<>>
  /\ jobs' = Tail(jobs)
  /\ StartEval(Head(jobs), stack)
  /\ UNCHANGED <<req, pending, rvars, cache, evalQueue, ns, uaf>>

(* The module being evaluated calls require(): a cached namespace is       *)
(* returned at once.                                                       *)
NestedRequire ==
  /\ At({"eval"}, "run") /\ Top.todo # <<>>
  /\ LET m == Head(Top.todo)
     IN IF ns[m] # None
        THEN stack' = SetTop([Top EXCEPT !.todo = Tail(@)])
        ELSE Len(stack) < MaxDepth /\ Room /\ JobRoom /\ stack' = Push(Call("require", m, "source"))
  /\ UNCHANGED <<req, pending, rvars, cache, evalQueue, ns, jobs, global, defs, uaf>>

(* Was the evaluation on top started by a pass (see below) or by a job? *)
InPass == Len(stack) > 1 /\ stack[Len(stack) - 1].kind = "pass"

(* What it evaluates to: a CommonJS module's namespace is read back from   *)
(* the global `module`.                                                    *)
Value == IF Top.name \in CommonJS THEN global ELSE Top.name

IsES == Top.name \notin CommonJS

BodyThrew == Top.failed \/ Top.name \in Throws

(* An ES module's namespace is built by importing its name from a wrapper, *)
(* which the engine resolves to the first definition of the name, and not  *)
(* to any if the name is relative (the wrapper normalizes it).             *)
NoNamespace == IsES /\ (Top.name \in Relative \/ ~Top.first)

Threw == BodyThrew \/ NoNamespace

(* When the evaluation of an ES module or of its wrapper throws, the       *)
(* engine frees every definition it has not finished evaluating, those of  *)
(* the evaluations further down the stack included (js_free_modules).      *)
FreesDefinitions ==
  IsES /\ (BodyThrew \/ (Top.name \notin Relative /\ ~Top.first /\ defs[Top.name] = "threw"))

EvaluatedBy(f) == f.kind = "eval" /\ f.name \notin CommonJS

(* The evaluation on top ends: what is left of the stack, of the engine's  *)
(* definitions, and whether one was used after it had been freed.          *)
EvalReturns(below) ==
  /\ stack' = IF FreesDefinitions
              THEN [i \in DOMAIN below |->
                      IF EvaluatedBy(below[i]) THEN [below[i] EXCEPT !.freed = TRUE] ELSE below[i]]
              ELSE below
  /\ defs' = [m \in Modules |->
                IF FreesDefinitions /\ \E i \in DOMAIN below : below[i].name = m /\ below[i].first
                THEN "none"
                ELSE IF m = Top.name /\ Top.first /\ BodyThrew THEN "threw" ELSE defs[m]]

(* The evaluation a job started ends. *)
JobEnds ==
  /\ At({"eval"}, "run") /\ Top.todo = <<>>
  /\ ~InPass
  /\ EvalReturns(Front(stack))
  /\ uaf' = Top.freed
  /\ ns' = IF Threw \/ Top.freed THEN ns ELSE [ns EXCEPT ![Top.name] = Value]
  /\ UNCHANGED <<req, pending, rvars, cache, evalQueue, jobs, global>>

(* processPendingEval, from loop() or tick(): a pass goes through the      *)
(* requests that pending_eval_ holds when it begins.  (The first half of   *)
(* JSModuleLoader::loop looks for requests of pending_ that have been      *)
(* read; NothingReady says that it never finds one.)                       *)
StartEvalPass ==
  /\ Ticking /\ Len(stack) + 1 < MaxDepth
  /\ evalQueue # <<>>
  /\ stack' = Push([Call("pass", None, "run") EXCEPT !.todo = evalQueue])
  /\ UNCHANGED <<req, pending, rvars, cache, evalQueue, ns, jobs, global, defs, uaf>>

(* The next request of a pass is evaluated. *)
PassNext ==
  /\ At({"pass"}, "run") /\ Top.todo # <<>>
  /\ req[Head(Top.todo)].status # "blank"
  /\ StartEval(req[Head(Top.todo)].name, stack)
  /\ UNCHANGED <<req, pending, rvars, cache, evalQueue, ns, jobs, uaf>>

(* An empty text is a CommonJS one, and evaluated at once: its exports are *)
(* a new, empty object.                                                    *)
PassBlank ==
  /\ At({"pass"}, "run") /\ Top.todo # <<>>
  /\ LET r == Head(Top.todo)
     IN /\ req[r].status = "blank"
        /\ req' = [req EXCEPT ![r].status = "deleted", ![r].promise = "fulfilled"]
        /\ ns' = [ns EXCEPT ![req[r].name] = Blank]
        /\ global' = Blank
  /\ stack' = SetTop([Top EXCEPT !.todo = Tail(@)])
  /\ UNCHANGED <<pending, rvars, cache, evalQueue, jobs, defs, uaf>>

(* Bug, for a mutant: a promise is resolved although the module threw. *)
OutcomeAlwaysBug == "fulfilled"

Outcome == IF Threw THEN "rejected" ELSE "fulfilled"

(* The evaluation of a pass ends: the namespace is cached, the promise     *)
(* settled and the request deleted.                                        *)
PassEvalEnds ==
  /\ At({"eval"}, "run") /\ Top.todo = <<>>
  /\ InPass
  /\ LET below == Front(stack)
         r == Head(Last(below).todo)
     IN IF req[r].status = "deleted" \/ Top.freed
        THEN uaf' = TRUE /\ UNCHANGED <<req, ns>>
        ELSE /\ req' = [req EXCEPT ![r].status = "deleted",
                          ![r].promise = IF @ = "none" THEN @ ELSE Outcome]
             /\ ns' = IF Threw THEN ns ELSE [ns EXCEPT ![Top.name] = Value]
             /\ UNCHANGED uaf
  /\ LET below == Front(stack)
     IN EvalReturns([below EXCEPT ![Len(below)].todo = Tail(@)])
  /\ UNCHANGED <<pending, rvars, cache, evalQueue, jobs, global>>

(* The end of a pass over pending_eval_ clears it.  The vector may have    *)
(* grown meanwhile: its iterators are then invalid if it was reallocated,  *)
(* and what was added is dropped if not.                                   *)
PassEnds ==
  /\ At({"pass"}, "run") /\ Top.todo = <<>>
  /\ stack' = Front(stack)
  /\ evalQueue' = <<>>
  /\ uaf' \in IF \E r \in ToSet(evalQueue) : req[r].status # "deleted"
              THEN BOOLEAN ELSE {FALSE}
  /\ UNCHANGED <<req, pending, rvars, cache, ns, jobs, global, defs>>

-----------------------------------------------------------------------------
(* readerTask.                                                             *)

Take ==
  /\ ~uaf /\ reader = "take" /\ notify
  /\ notify' = FALSE
  /\ reader' = "swap"
  /\ UNCHANGED <<req, pending, work, cache, evalQueue, ns, jobs, global, defs, stack, uaf>>

(* Bug, for a mutant: only one request is taken.                           *)
SwapOneBug ==
  /\ ~uaf /\ reader = "swap"
  /\ work' = SubSeq(pending, 1, 1)
  /\ pending' = SubSeq(pending, 2, Len(pending))
  /\ reader' = "read"
  /\ UNCHANGED <<req, notify, cache, evalQueue, ns, jobs, global, defs, stack, uaf>>

(* pending_ is swapped out under the mutex. *)
Swap ==
  /\ ~uaf /\ reader = "swap"
  /\ work' = pending
  /\ pending' = <<>>
  /\ reader' = "read"
  /\ UNCHANGED <<req, notify, cache, evalQueue, ns, jobs, global, defs, stack, uaf>>

(* The next file is read, without the mutex; mounting or opening may fail. *)
Read ==
  /\ ~uaf /\ reader = "read" /\ work # <<>>
  /\ \E status \in IF req[Head(work)].name \in Files THEN {"loaded", "error"} ELSE {"error"} :
       req' = [req EXCEPT ![Head(work)].status = status]
  /\ reader' = "store"
  /\ UNCHANGED <<pending, notify, work, cache, evalQueue, ns, jobs, global, defs, stack, uaf>>

(* The request is put in cache_ under the mutex. *)
Store ==
  /\ ~uaf /\ reader = "store"
  /\ cache' = [cache EXCEPT ![req[Head(work)].name] = Head(work)]
  /\ work' = Tail(work)
  /\ reader' = "read"
  /\ UNCHANGED <<req, pending, notify, evalQueue, ns, jobs, global, defs, stack, uaf>>

BatchDone ==
  /\ ~uaf /\ reader = "read" /\ work = <<>>
  /\ reader' = "take"
  /\ UNCHANGED <<req, pending, notify, work, cache, evalQueue, ns, jobs, global, defs, stack, uaf>>

-----------------------------------------------------------------------------
(* What a program asks for, and what the JS task and the reader then do.   *)
Ask == \E m \in Modules :
  RegisterModule(m) \/ Require(m) \/ ImportLoaded(m) \/ ImportUnread(m)

JSTaskStep ==
  \/ PushRead \/ GiveRead \/ CopySource
  \/ CheckSource \/ ReadArrived \/ Fetch \/ GotNamespace
  \/ RunJob \/ NestedRequire \/ JobEnds
  \/ StartEvalPass \/ PassNext \/ PassBlank \/ PassEvalEnds \/ PassEnds

ReaderStep == Take \/ Swap \/ Read \/ Store \/ BatchDone

Next == Ask \/ JSTaskStep \/ Timeout \/ ReaderStep

Spec == Init /\ [][Next]_vars

(* Both tasks keep running: loop() and tick() run for ever, the reader's   *)
(* file operations return.  wait() looks at its condition and at the time  *)
(* after every tick, whatever has run on top of it meanwhile.              *)
FairSpec ==
  /\ Spec
  /\ WF_vars(JSTaskStep) /\ WF_vars(ReaderStep)
  /\ \A n \in 1..MaxDepth :
       SF_vars(Len(stack) = n /\ (ReadArrived \/ GotNamespace \/ Timeout))

-----------------------------------------------------------------------------
TypeOK ==
  /\ req \in Seq(Request)
  /\ pending \in Seq(DOMAIN req)
  /\ notify \in BOOLEAN
  /\ reader \in {"take", "swap", "read", "store"}
  /\ work \in Seq(DOMAIN req)
  /\ cache \in [Modules -> {0} \union DOMAIN req]
  /\ evalQueue \in Seq(DOMAIN req)
  /\ ns \in [Modules -> Modules \union {None, Blank}]
  /\ jobs \in Seq(Modules)
  /\ global \in Modules \union {None, Blank}
  /\ defs \in [Modules -> {"none", "defined", "threw"}]
  /\ stack \in Seq(Frame)
  /\ \A i \in 1..Len(stack) - 1 : stack[i].pc \in {"waitRead", "waitNs", "run"}
  /\ uaf \in BOOLEAN

(* No request is forgotten by the reader: while pending_ holds one, a      *)
(* wake-up is pending, about to be given, or taken by a reader that has    *)
(* yet to swap (queueRead and queueAsyncLoad push before they give).       *)
NoLostRead ==
  pending # <<>> =>
    \/ notify
    \/ reader = "swap"
    \/ stack # <<>> /\ Top.pc = "give"

(* The first half of loop() is dead code: no request of pending_ has been  *)
(* read, since the reader takes the requests out before it reads them.     *)
(* Requests are therefore never settled there.                             *)
NothingReady == \A i \in DOMAIN pending : req[pending[i]].status = "queued"

(* cache_ never holds a deleted request, although processPendingEval       *)
(* deletes the requests it evaluates, some of them made from cached ones:  *)
(* getSource and isDone read live memory.                                  *)
CacheIsLive == \A m \in Modules : cache[m] # 0 => Done(m)

(* require(m) and importModule(m) do not give the exports of another       *)
(* module: no module's namespace is cached under the name of another       *)
(* ("returns the module namespace directly, exactly like Node.js           *)
(* require()").                                                            *)
NamespaceIsOwn == \A m \in Modules : ns[m] \in {m, None, Blank}

(* The exports of a CommonJS module are read back from a global that every *)
(* other evaluation replaces, those that run while it waits in require()   *)
(* included: a module may be given the exports of another one only if both *)
(* are CommonJS and it requires some module itself.                        *)
MixedOnlyIfNested ==
  \A m \in Modules :
    ns[m] \notin {m, None, Blank} =>
      m \in CommonJS /\ Requires[m] # <<>> /\ ns[m] \in CommonJS

(* processPendingEval deletes a request once and never touches it again.   *)
NoUseAfterFree == ~uaf

(* A promise of importModule is fulfilled only when the module's namespace *)
(* is cached, so that a later require() agrees with it, and never for a    *)
(* module that throws.                                                     *)
FulfilledIsCached ==
  \A r \in DOMAIN req :
    req[r].promise = "fulfilled" => ns[req[r].name] # None

(* The evaluation on top has run the code of m to its end without a throw. *)
Completes(m) == At({"eval"}, "run") /\ Top.name = m /\ Top.todo = <<>> /\ ~BodyThrew

(* "blocks until loaded, returns module": once the code of a module has    *)
(* run without throwing, its namespace is cached, for require() to return. *)
EvaluatedIsCached ==
  [][\A m \in Modules :
       Completes(m) /\ Len(stack') < Len(stack) /\ ~uaf' => ns'[m] # None]_vars

(* "ES dynamic import -- returns a Promise per spec": the promise of a     *)
(* module whose code does not throw (nor a module it requires) is never    *)
(* rejected.                                                               *)
ImportRejectedOnlyIfThrew ==
  \A r \in DOMAIN req :
    req[r].promise = "rejected" => req[r].name \in Throws \/ Requires[req[r].name] # <<>>

(* Every request that is queued is read and cached.                        *)
EveryReadLands ==
  \A r \in 1..MaxReq :
    (r \in DOMAIN req /\ req[r].status = "queued") ~> (r \in DOMAIN req /\ cache[req[r].name] # 0)

(* require() does not hang: whatever it waits for, the JS task gets back   *)
(* to its event loop.                                                      *)
RequireReturns == stack # <<>> ~> stack = <<>>

(* "Queue a read and return a Promise.  Resolved in loop()": every promise *)
(* of importModule is settled.                                             *)
ImportSettles ==
  \A r \in 1..MaxReq :
    (r \in DOMAIN req /\ req[r].promise = "pending") ~> (r \in DOMAIN req /\ req[r].promise # "pending")
=============================================================================
