------------------------------ MODULE JSTelnet ------------------------------
(***************************************************************************)
(* The two consoles: JSTelnetServer, and the Serial line of JSRepl, on the *)
(* main loop task.  AsyncTCP's callbacks run on a task of their own, in    *)
(* between any two steps here.  A command that waits (require, delay) runs *)
(* JSTelnetServer::loop again below it.  A buffer is a sequence of pieces: *)
(* the text of line n is n, a newline NL; IAC sequences, prompts and what  *)
(* commands compute are left out.  Timers of clients that leave are in     *)
(* JSTimer.                                                                *)
(***************************************************************************)
EXTENDS Integers, Sequences, FiniteSets

CONSTANTS
  Clients,   \* connections, each made at most once
  None,      \* no connection
  Opens,     \* lines that leave a statement open, which the line after closes
  Size,      \* TELNET_BUF_SIZE - 1, in pieces
  Typed,     \* bound: lines typed at each console, which for Serial is None
  MaxDepth,  \* bound: activations of loop() within one another
  CanStop    \* may a program call Telnet.stop()?

ASSUME TelnetAssumption ==
  /\ IsFiniteSet(Clients) /\ None \notin Clients
  /\ Size \in Nat /\ MaxDepth \in Nat
  /\ Typed \in [Clients \union {None} -> Seq(Nat \ {0})]
  /\ CanStop \in BOOLEAN

NL == 0
Nul == -1
Pieces == Nat \union {Nul}
Ids == 1..Cardinality(Clients)
Serial == 0  \* as the "client" of a frame

VARIABLES
  net,       \* [Clients -> "new", "up", "cut" off by stop(), or "gone" once freed]
  sent,      \* [Clients -> pieces typed]
  keys,      \* pieces typed on Serial and not read
  listening, \* is there a telnetServer?
  incoming,  \* incomingConnections, top last
  counter,   \* connectionIdCounter
  live,      \* liveConnections, None where there is no entry
  buf,       \* telnetRepls
  line,      \* g_serialRepl
  frames,    \* activations on the main loop task, innermost last
  ran,       \* pieces run so far, for each client and Serial
  again,     \* clients for which a command ran within a command
  lost,      \* clients a piece of which was dropped on arrival
  shifted,   \* clients of which an open line was shifted out unrun
  raced,     \* has a callback of AsyncTCP come where its effect is overwritten?
  uaf        \* has freed memory, or memory beyond a buffer, been used?

tcp == <<net, sent, keys>>
maps == <<listening, incoming, counter, live>>
history == <<ran, again, lost, shifted>>
vars == <<tcp, maps, buf, line, frames, history, raced, uaf>>

Frame == [pc : {"accept", "pop", "handle", "run", "store"},
          at : Ids \union {Serial}, i : Nat, rem : Nat]

TypeOK ==
  /\ net \in [Clients -> {"new", "up", "cut", "gone"}]
  /\ sent \in [Clients -> Nat] /\ keys \in Nat
  /\ listening \in BOOLEAN
  /\ incoming \in Seq(Clients)
  /\ counter \in Nat
  /\ live \in [Ids -> Clients \union {None}]
  /\ buf \in [Ids -> Seq(Pieces)]
  /\ line \in Seq(Pieces)
  /\ frames \in Seq(Frame)
  /\ ran \in [Clients \union {None} -> Seq(Pieces)]
  /\ again \subseteq Clients /\ lost \subseteq Clients /\ shifted \subseteq Clients
  /\ raced \in BOOLEAN /\ uaf \in BOOLEAN

Init ==
  /\ net = [c \in Clients |-> "new"] /\ sent = [c \in Clients |-> 0] /\ keys = 0
  /\ listening = TRUE /\ incoming = <<>> /\ counter = 0
  /\ live = [id \in Ids |-> None]
  /\ buf = [id \in Ids |-> <<>>] /\ line = <<>>
  /\ frames = <<>>
  /\ ran = [c \in Clients \union {None} |-> <<>>] /\ again = {} /\ lost = {} /\ shifted = {}
  /\ raced = FALSE /\ uaf = FALSE

-----------------------------------------------------------------------------
(* The AsyncTCP task, and the UART.                                        *)

Top == frames[Len(frames)]
At(pc) == frames # <<>> /\ Top.pc = pc /\ ~uaf

(* A console types the text of its first line, a newline, the text of the  *)
(* second ...                                                              *)
More(c, k) == k < 2 * Len(Typed[c])
Piece(c, k) == IF k % 2 = 1 THEN Typed[c][(k + 1) \div 2] ELSE NL

IdsOf(c) == {id \in Ids : live[id] = c}
First(S) == CHOOSE i \in S : \A j \in S : i <= j

(* A push between top() and pop() is what pop() removes. *)
Connect(c) ==
  /\ listening /\ net[c] = "new" /\ ~uaf
  /\ net' = [net EXCEPT ![c] = "up"]
  /\ incoming' = Append(incoming, c)
  /\ raced' = (raced \/ At("pop"))
  /\ UNCHANGED <<sent, keys, listening, counter, live, buf, line, frames, history, uaf>>

(* What fits of a delivery: a piece is dropped when the buffer is full.    *)
Fit(b, p) == IF Len(b) < Size THEN Append(b, p) ELSE b

(* findClientId.  What arrives before initClient is dropped.               *)
Data(c) ==
  /\ net[c] = "up" /\ More(c, sent[c]) /\ ~uaf
  /\ sent' = [sent EXCEPT ![c] = @ + 1]
  /\ IF IdsOf(c) = {} THEN lost' = lost \union {c} /\ UNCHANGED <<buf, raced>>
     ELSE LET id == First(IdsOf(c))
          IN /\ buf' = [buf EXCEPT ![id] = Fit(@, Piece(c, sent'[c]))]
             /\ raced' = (raced \/ (At("store") /\ Top.at = id))
             /\ lost' = IF buf' = buf THEN lost \union {c} ELSE lost
  /\ UNCHANGED <<net, keys, maps, line, frames, ran, again, shifted, uaf>>

(* onTelnetDisconnect, after which AsyncTCP frees the client. *)
Disconnect(c) ==
  /\ net[c] = "up" /\ ~uaf
  /\ net' = [net EXCEPT ![c] = "gone"]
  /\ IF IdsOf(c) = {} THEN UNCHANGED <<live, buf>>
     ELSE LET id == First(IdsOf(c))
          IN /\ live' = [live EXCEPT ![id] = None]
             /\ buf' = [buf EXCEPT ![id] = <<>>]
  /\ UNCHANGED <<sent, keys, listening, incoming, counter, line, frames, history, raced, uaf>>

-----------------------------------------------------------------------------
(* The main loop task.                                                     *)

Return == frames' = SubSeq(frames, 1, Len(frames) - 1)
Goto(f) == frames' = [frames EXCEPT ![Len(frames)] = f]
Enter(f) == frames' = Append(frames, f)
NewLoop == [pc |-> "accept", at |-> Serial, i |-> 0, rem |-> 0]

(* The iterator, the state and the stream of the client a frame is at are  *)
(* freed with the client's entries.                                        *)
Remaining(b, i) == [Top EXCEPT !.pc = "store", !.i = i, !.rem = Len(b) - i]
Misuse == uaf' = TRUE /\ UNCHANGED <<tcp, maps, buf, line, frames, history, raced>>
Dangling == Top.at # Serial /\ (live[Top.at] = None \/ net[live[Top.at]] = "gone")

(* g_jstelnet->loop(), called by ESP32QuickJS::loop and by tick().         *)
LoopStarts ==
  /\ frames = <<>> /\ ~uaf
  /\ Enter(NewLoop)
  /\ UNCHANGED <<tcp, maps, buf, line, history, raced, uaf>>

(* Bug, for a mutant: two clients get one id. *)
AcceptSameIdBug ==
  /\ At("accept") /\ incoming # <<>>
  /\ LET c == incoming[Len(incoming)]
     IN IF net[c] = "gone" THEN Misuse
        ELSE /\ counter' = 1
             /\ live' = [live EXCEPT ![1] = c]
             /\ buf' = [buf EXCEPT ![1] = <<>>]
             /\ Goto([Top EXCEPT !.pc = "pop"])
             /\ UNCHANGED <<tcp, listening, incoming, line, history, raced, uaf>>

(* initClient of the top of the stack.  The banner goes to a client that   *)
(* may be gone.                                                            *)
Accept ==
  /\ At("accept") /\ incoming # <<>>
  /\ LET c == incoming[Len(incoming)]
     IN IF net[c] = "gone" THEN Misuse
        ELSE /\ counter' = counter + 1
             /\ live' = [live EXCEPT ![counter'] = c]
             /\ buf' = [buf EXCEPT ![counter'] = <<>>]
             /\ Goto([Top EXCEPT !.pc = "pop"])
             /\ UNCHANGED <<tcp, listening, incoming, line, history, raced, uaf>>

Pop ==
  /\ At("pop")
  /\ incoming' = SubSeq(incoming, 1, Len(incoming) - 1)
  /\ Goto([Top EXCEPT !.pc = "accept"])
  /\ UNCHANGED <<tcp, listening, counter, live, buf, line, history, raced, uaf>>

(* Bug, for a mutant: only the first client is looked at. *)
GoOnFirstOnlyBug ==
  LET rest == {id \in Ids : id > Top.at /\ live[id] # None}
  IN IF rest = {} \/ Top.at # Serial THEN Return
     ELSE Goto([Top EXCEPT !.pc = "handle", !.at = First(rest)])

(* To the next entry of liveConnections, or out of loop().                 *)
GoOn ==
  LET rest == {id \in Ids : id > Top.at /\ live[id] # None}
  IN IF rest = {} THEN Return ELSE Goto([Top EXCEPT !.pc = "handle", !.at = First(rest)])

Iterate ==
  /\ At("accept") /\ incoming = <<>>
  /\ GoOn
  /\ UNCHANGED <<tcp, maps, buf, line, history, raced, uaf>>

Newlines(b) == {k \in 1..Len(b) : b[k] = NL}

NextClient ==
  /\ At("handle")
  /\ IF Dangling THEN Misuse
     ELSE /\ Newlines(buf[Top.at]) = {}
          /\ GoOn
          /\ UNCHANGED <<tcp, maps, buf, line, history, raced, uaf>>

IsOpen(b) ==
  \E k \in 1..Len(b) : b[k] \in Opens /\ \A j \in k + 1..Len(b) : b[j] # b[k] + 1

(* What processCommand sees of a buffer. *)
CString(b) == SubSeq(b, 1, First({k \in 1..Len(b) : b[k] = Nul}) - 1)

(* Bug, for a mutant: the newline is left in place. *)
StartLineKeepsNewlineBug ==
  /\ At("handle") /\ ~Dangling
  /\ LET id == Top.at
         i == First(Newlines(buf[id]))
         b == [buf[id] EXCEPT ![i] = Nul]
     IN /\ Newlines(buf[id]) # {}
        /\ ran' = [ran EXCEPT ![live[id]] = @ \o CString(b)]
        /\ Goto([Top EXCEPT !.pc = "run", !.i = 0])
        /\ UNCHANGED <<tcp, maps, buf, line, again, lost, shifted, raced, uaf>>

(* handleClientInput cuts the buffer at the first newline.  An open        *)
(* statement is not run, but shifted out all the same.                     *)
StartLine ==
  /\ At("handle") /\ ~Dangling
  /\ LET id == Top.at
         i == First(Newlines(buf[id]))
         b == [buf[id] EXCEPT ![i] = Nul]
     IN /\ Newlines(buf[id]) # {}
        /\ buf' = [buf EXCEPT ![id] = b]
        /\ IF IsOpen(SubSeq(b, 1, i))
           THEN /\ Goto(Remaining(b, i))
                /\ shifted' = shifted \union {live[id]}
                /\ UNCHANGED <<ran, again>>
           ELSE /\ Goto([Top EXCEPT !.pc = "run", !.i = i])
                /\ ran' = [ran EXCEPT ![live[id]] = @ \o CString(b)]
                /\ again' = IF \E k \in 1..Len(frames) - 1 : frames[k].at = id
                            THEN again \union {live[id]} ELSE again
                /\ UNCHANGED shifted
  /\ UNCHANGED <<tcp, maps, line, lost, raced, uaf>>

(* The command has returned: the prompt, `remaining`, and the memmove.  A  *)
(* command below may have left less in the buffer than this frame is about *)
(* to remove.                                                              *)
CommandReturns ==
  /\ At("run") /\ Top.at # Serial
  /\ IF Dangling \/ Len(buf[Top.at]) < Top.i THEN Misuse
     ELSE /\ Goto(Remaining(buf[Top.at], Top.i))
          /\ UNCHANGED <<tcp, maps, buf, line, history, raced, uaf>>

(* Bug, for a mutant: the end of the line is not shifted out. *)
StoreKeepsNulBug ==
  /\ At("store")
  /\ IF Dangling THEN Misuse
     ELSE /\ buf' = [buf EXCEPT ![Top.at] = SubSeq(@, Top.i, Top.i + Top.rem)]
          /\ Goto([Top EXCEPT !.pc = "handle", !.i = 0, !.rem = 0])
          /\ UNCHANGED <<tcp, maps, line, history, raced, uaf>>

(* state.len = remaining: what has arrived meanwhile is lost. *)
Store ==
  /\ At("store")
  /\ IF Dangling THEN Misuse
     ELSE /\ buf' = [buf EXCEPT ![Top.at] = SubSeq(@, Top.i + 1, Top.i + Top.rem)]
          /\ Goto([Top EXCEPT !.pc = "handle", !.i = 0, !.rem = 0])
          /\ UNCHANGED <<tcp, maps, line, history, raced, uaf>>

(* A command waits: tick(). *)
Wait ==
  /\ At("run") /\ Len(frames) < MaxDepth
  /\ Enter(NewLoop)
  /\ UNCHANGED <<tcp, maps, buf, line, history, raced, uaf>>

(* Telnet.stop() and Telnet.start(), by a command or a callback.  The      *)
(* clients stay connected, but nothing they do is heard any more.          *)
InProgram == (frames = <<>> /\ ~uaf) \/ At("run")

Stop ==
  /\ CanStop /\ InProgram /\ listening
  /\ listening' = FALSE
  /\ incoming' = <<>>
  /\ live' = [id \in Ids |-> None]
  /\ buf' = [id \in Ids |-> <<>>]
  /\ net' = [c \in Clients |-> IF net[c] = "up" THEN "cut" ELSE net[c]]
  /\ UNCHANGED <<sent, keys, counter, line, frames, history, raced, uaf>>

Start ==
  /\ InProgram /\ ~listening
  /\ listening' = TRUE
  /\ UNCHANGED <<tcp, incoming, counter, live, buf, line, frames, history, raced, uaf>>

-----------------------------------------------------------------------------
(* pumpSerial reads keys between two runs of loop().  An open statement    *)
(* stays in the line.                                                      *)

SerialRuns(l) ==
  /\ ran' = [ran EXCEPT ![None] = @ \o l]
  /\ Enter([NewLoop EXCEPT !.pc = "run"])

PumpSerial ==
  /\ frames = <<>> /\ ~uaf /\ More(None, keys)
  /\ keys' = keys + 1
  /\ line' = Fit(line, Piece(None, keys'))
  /\ IF Piece(None, keys') = NL /\ ~IsOpen(line') THEN SerialRuns(line') ELSE UNCHANGED <<ran, frames>>
  /\ UNCHANGED <<net, sent, maps, buf, again, lost, shifted, raced, uaf>>

Backspace ==
  /\ frames = <<>> /\ ~uaf /\ line # <<>>
  /\ line' = SubSeq(line, 1, Len(line) - 1)
  /\ UNCHANGED <<tcp, maps, buf, frames, history, raced, uaf>>

SerialReturns ==
  /\ At("run") /\ Top.at = Serial
  /\ Return
  /\ line' = <<>>
  /\ UNCHANGED <<tcp, maps, buf, history, raced, uaf>>

-----------------------------------------------------------------------------
Loop ==
  \/ LoopStarts \/ Accept \/ Pop \/ Iterate \/ NextClient
  \/ StartLine \/ CommandReturns \/ Store
  \/ PumpSerial \/ Backspace \/ SerialReturns

Next ==
  \/ Loop
  \/ Wait \/ Stop \/ Start
  \/ \E c \in Clients : Connect(c) \/ Data(c) \/ Disconnect(c)

Spec == Init /\ [][Next]_vars

(* The main loop runs, and a command returns, however often another one    *)
(* runs below it while it waits.                                           *)
FairSpec ==
  /\ Spec
  /\ WF_vars(LoopStarts)
  /\ WF_vars(Accept \/ Pop \/ Iterate \/ NextClient \/ StartLine \/ Store)
  /\ \A d \in 1..MaxDepth : SF_vars(Len(frames) = d /\ (CommandReturns \/ SerialReturns))

-----------------------------------------------------------------------------
(* Properties.                                                             *)

Increasing(s) == \A j, k \in 1..Len(s) : j < k /\ s[j] # NL /\ s[k] # NL => s[j] < s[k]

(* What handleClientInput and pumpSerial run for a console is what was     *)
(* typed there, in order and at most once, whatever arrives, leaves or     *)
(* waits meanwhile, and also where input is lost.  The exception is a      *)
(* client that types on while its own command waits.                       *)
InOrder ==
  ~uaf => \A c \in (Clients \union {None}) \ again : Increasing(ran[c])

(* Where a client's buffer goes on after the line that is being handled.   *)
Handled(id) ==
  LET on == {k \in 1..Len(frames) : frames[k].at = id}
  IN IF on = {} THEN 0 ELSE frames[First(on)].i

(* A client of which nothing was dropped, cut or overwritten loses         *)
(* nothing: its first lines are those that were run, and its buffer holds  *)
(* what it typed since, piece by piece.                                    *)
Conserved ==
  ~uaf /\ ~raced =>
    \A id \in Ids : LET c == live[id]
                        n == Len(ran[c])
                        h == Handled(id)
                    IN c # None /\ c \notin again \union lost \union shifted =>
                         /\ ran[c] = SubSeq(Typed[c], 1, n)
                         /\ sent[c] = 2 * n + Len(buf[id]) - h
                         /\ \A k \in h + 1..Len(buf[id]) : buf[id][k] = Piece(c, 2 * n + k - h)

(* As long as no client connects just between top() and pop() of loop(),   *)
(* each connected client is either on the stack or in the maps, once, and  *)
(* one that has left is in no map.                                         *)
OnStack(c) == {k \in 1..Len(incoming) : incoming[k] = c}
Sessions ==
  ~uaf /\ ~raced =>
    \A c \in Clients :
      /\ net[c] = "up" => IdsOf(c) # {} \/ OnStack(c) # {}
      /\ net[c] # "up" => IdsOf(c) = {}
      /\ Cardinality(IdsOf(c)) <= 1 /\ Cardinality(OnStack(c)) <= 1
      /\ IdsOf(c) # {} /\ OnStack(c) # {} => At("pop") /\ OnStack(c) = {Len(incoming)}

(* A whole line does not stay in a buffer for ever. *)
Waiting(c, n) ==
  \E id \in Ids : live[id] = c /\ \E j, k \in 1..Len(buf[id]) :
    j < k /\ buf[id][j] = Typed[c][n] /\ buf[id][k] = NL
EveryLineIsTaken ==
  \A c \in Clients : \A n \in 1..Len(Typed[c]) : Waiting(c, n) ~> ~Waiting(c, n) \/ uaf

-----------------------------------------------------------------------------
(* What comments of the code say, or that they leave out, and the model    *)
(* refutes.                                                                *)

(* "Run the open-statement check on the whole buffer including the current *)
(* line, and only evaluate when it closes": the line that closes a         *)
(* statement runs with the one that opened it.                             *)
StatementsWhole ==
  \A c \in Clients, n \in Opens : \A k \in 1..Len(ran[c]) :
    ran[c][k] = n + 1 /\ c \notin lost => \E j \in 1..k : ran[c][j] = n

(* No memory is used after it was freed, or beyond a buffer. *)
NoMisuse == ~uaf
=============================================================================
