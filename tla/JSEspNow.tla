------------------------------ MODULE JSEspNow ------------------------------
(***************************************************************************)
(* class JSEspNow (esp32/QuickJS.h) and the bindings that send.  A send    *)
(* leaves an entry in pendingSends; the radio reports each frame on the    *)
(* WiFi task, with nothing but the address, and the report is matched to   *)
(* an entry; loop() settles the promises of the matched entries and calls  *)
(* the two handlers, which may wait and so run loop() again below          *)
(* themselves.  A status is abstracted to the call whose frame it is       *)
(* about; payloads and the peer table of the driver are left out:          *)
(* esp_now_send may fail.                                                  *)
(***************************************************************************)
EXTENDS Naturals, Sequences, FiniteSets

CONSTANTS
  Peers,      \* addresses in the driver's table
  Null,       \* no address: to all of them
  MaxSends,   \* bound: calls of send and broadcast
  MaxEvents,  \* bound: frames received
  MaxDepth,   \* bound: activations of loop() within one another
  CanEnd      \* may a program call ESPNow.end()?  Bound: once

Ids == 1..MaxSends
Macs == Peers \union {Null}

ASSUME EspNowAssumption ==
  /\ MaxSends \in Nat /\ MaxEvents \in Nat /\ MaxDepth \in Nat
  /\ Null \notin Peers /\ IsFiniteSet(Peers) /\ Peers # {}
  /\ CanEnd \in BOOLEAN

VARIABLES
  initialized,
  pendingSends, \* [id, mac, by], `by` the call whose status it has, 0 if not resolved;
                \* a set: the vector is in the order of the ids, which only grow
  sendIdCounter,
  recvQueue,    \* length of it
  sendQueue,    \* length of it
  phases,       \* where each activation of loop() is, innermost last
  handlers,     \* which of onReceiveCb and onSendCb are set
  air,          \* the driver: [Macs -> calls whose frames it has yet to report]
  settled,      \* [Ids -> the call whose status its promise shows, 0 if none]
  received,     \* frames received so far
  ended,        \* has end() been called?
  toAll,        \* has anything been sent to all?
  uaf           \* has a handler been freed while it runs?

js == <<recvQueue, sendQueue, phases, handlers, uaf>>
sends == <<pendingSends, sendIdCounter, air, settled>>
vars == <<initialized, js, sends, received, ended, toAll>>

Entry == [id : Ids, mac : Macs, by : Ids \union {0}]
Phases == {"recv", "recvCb", "send", "sendCb"}

TypeOK ==
  /\ initialized \in BOOLEAN
  /\ pendingSends \subseteq Entry
  /\ sendIdCounter \in 0..MaxSends
  /\ recvQueue \in Nat /\ sendQueue \in Nat
  /\ phases \in Seq(Phases)
  /\ handlers \subseteq {"recvCb", "sendCb"}
  /\ air \in [Macs -> Seq(Ids)]
  /\ settled \in [Ids -> Ids \union {0}]
  /\ received \in Nat /\ ended \in BOOLEAN /\ toAll \in BOOLEAN /\ uaf \in BOOLEAN

Init ==
  /\ initialized = FALSE
  /\ pendingSends = {} /\ sendIdCounter = 0
  /\ recvQueue = 0 /\ sendQueue = 0
  /\ phases = <<>> /\ handlers = {}
  /\ air = [m \in Macs |-> <<>>]
  /\ settled = [i \in Ids |-> 0]
  /\ received = 0 /\ ended = FALSE /\ toAll = FALSE /\ uaf = FALSE

-----------------------------------------------------------------------------
(* The JS task.  A program calls these between two runs of loop(), or in a *)
(* handler.                                                                *)

Top == phases[Len(phases)]
InProgram == ~uaf /\ (phases # <<>> => Top \in {"recvCb", "sendCb"})

InitEspNow ==
  /\ InProgram /\ ~initialized
  /\ initialized' = TRUE
  /\ UNCHANGED <<js, sends, received, ended, toAll>>

(* end() leaves pendingSends and the two queues as they are; the driver    *)
(* forgets its frames.                                                     *)
End ==
  /\ CanEnd /\ ~ended /\ InProgram /\ initialized
  /\ initialized' = FALSE
  /\ ended' = TRUE
  /\ air' = [m \in Macs |-> <<>>]
  /\ UNCHANGED <<js, pendingSends, sendIdCounter, settled, received, toAll>>

(* The addresses with which the driver reports a call: a frame sent to all *)
(* is reported with the address of each peer; the code also expects a      *)
(* report without an address.                                              *)
Reports(mac) == IF mac # Null THEN {{mac}} ELSE {{Null}, Peers}

Transmit(id, mac) ==
  \E R \in Reports(mac) :
    air' = [m \in Macs |-> IF m \in R THEN Append(air[m], id) ELSE air[m]]

(* espnow_do_send: send and attachPromiseToSend.  If the driver refuses    *)
(* the frame, the entry is resolved at once.                               *)
Send(mac) ==
  LET id == sendIdCounter + 1
      e == [id |-> id, mac |-> mac, by |-> 0]
  IN /\ InProgram /\ initialized /\ sendIdCounter < MaxSends
     /\ sendIdCounter' = id
     /\ \/ Transmit(id, mac) /\ pendingSends' = pendingSends \union {e}
        \/ UNCHANGED air /\ pendingSends' = pendingSends \union {[e EXCEPT !.by = id]}
     /\ toAll' = (toAll \/ mac = Null)
     /\ UNCHANGED <<initialized, js, settled, received, ended>>

(* setReceiveHandler, setSendHandler: the old function is freed, perhaps   *)
(* while it runs.                                                          *)
SetHandler(h) ==
  /\ InProgram
  /\ handlers' = handlers \union {h}
  /\ uaf' \in {FALSE, \E k \in 1..Len(phases) : phases[k] = h}
  /\ UNCHANGED <<initialized, recvQueue, sendQueue, phases, sends, received, ended, toAll>>

-----------------------------------------------------------------------------
(* loop().                                                                 *)

Goto(ph) == phases' = [phases EXCEPT ![Len(phases)] = ph]
At(ph) == ~uaf /\ phases # <<>> /\ Top = ph

Resolved == {e \in pendingSends : e.by # 0}
SettleAll ==
  settled' = [i \in Ids |-> IF \E e \in Resolved : e.id = i
                           THEN (CHOOSE e \in Resolved : e.id = i).by ELSE settled[i]]

(* Bug, for a mutant: whatever is pending is dropped with what is settled. *)
SettleDropsAllBug == SettleAll /\ pendingSends' = {}

(* Every resolved entry is settled and erased. *)
Settle == SettleAll /\ pendingSends' = pendingSends \ Resolved

(* loop() begins, called by ESP32QuickJS::loop or by the tick() of a       *)
(* handler that waits.                                                     *)
LoopStarts ==
  /\ InProgram /\ Len(phases) < MaxDepth
  /\ Settle
  /\ phases' = Append(phases, "recv")
  /\ UNCHANGED <<initialized, recvQueue, sendQueue, handlers, uaf, sendIdCounter, air,
                 received, ended, toAll>>

(* The two loops that drain the queues: an event is taken out before its   *)
(* handler is called.  Where there is none, a step takes them all.         *)
DrainRecv ==
  /\ At("recv")
  /\ IF recvQueue = 0 THEN Goto("send") /\ UNCHANGED recvQueue
     ELSE IF "recvCb" \in handlers THEN Goto("recvCb") /\ recvQueue' = recvQueue - 1
     ELSE recvQueue' = 0 /\ UNCHANGED phases
  /\ UNCHANGED <<initialized, sendQueue, handlers, uaf, sends, received, ended, toAll>>

DrainSend ==
  /\ At("send")
  /\ IF sendQueue = 0
     THEN /\ phases' = SubSeq(phases, 1, Len(phases) - 1)
          /\ UNCHANGED sendQueue
     ELSE IF "sendCb" \in handlers THEN Goto("sendCb") /\ sendQueue' = sendQueue - 1
     ELSE sendQueue' = 0 /\ UNCHANGED phases
  /\ UNCHANGED <<initialized, recvQueue, handlers, uaf, sends, received, ended, toAll>>

HandlerReturns ==
  /\ At("recvCb") \/ At("sendCb")
  /\ Goto(IF Top = "recvCb" THEN "recv" ELSE "send")
  /\ UNCHANGED <<initialized, recvQueue, sendQueue, handlers, uaf, sends, received, ended, toAll>>

-----------------------------------------------------------------------------
(* The WiFi task.                                                          *)

Unresolved == pendingSends \ Resolved
SendsTo(mac) == {e \in Unresolved : e.mac = mac}
Oldest(S) == CHOOSE e \in S : \A f \in S : e.id <= f.id
Newest(S) == CHOOSE e \in S : \A f \in S : e.id >= f.id

(* Bug, for a mutant: the newest send to the peer, as the comment has it.  *)
MatchNewestBug(mac) ==
  IF SendsTo(mac) # {} THEN {Newest(SendsTo(mac))}
  ELSE IF SendsTo(Null) # {} THEN {Newest(SendsTo(Null))} ELSE {}

(* Bug, for a mutant: a report to a peer settles nothing when there is no *)
(* send to that peer.                                                      *)
MatchUnicastOnlyBug(mac) ==
  IF SendsTo(mac) # {} THEN {Oldest(SendsTo(mac))} ELSE {}

(* The entry a report resolves, if any.  completeSend: the oldest send to  *)
(* that address, or else the newest to all.  s_send_cb itself, without an  *)
(* address: the oldest to all.                                             *)
Match(mac) ==
  IF SendsTo(mac) # {} THEN {Oldest(SendsTo(mac))}
  ELSE IF SendsTo(Null) # {} THEN {Newest(SendsTo(Null))} ELSE {}

(* The driver reports the frames to one address in the order they were     *)
(* sent.                                                                   *)
Report(mac) ==
  /\ ~uaf /\ air[mac] # <<>>
  /\ air' = [air EXCEPT ![mac] = Tail(@)]
  /\ sendQueue' = sendQueue + 1
  /\ pendingSends' = (pendingSends \ Match(mac))
                      \union {[e EXCEPT !.by = Head(air[mac])] : e \in Match(mac)}
  /\ UNCHANGED <<initialized, recvQueue, phases, handlers, uaf, sendIdCounter, settled,
                 received, ended, toAll>>

(* s_recv_cb. *)
Receive ==
  /\ ~uaf /\ initialized /\ received < MaxEvents
  /\ received' = received + 1
  /\ recvQueue' = recvQueue + 1
  /\ UNCHANGED <<initialized, sendQueue, phases, handlers, uaf, sends, ended, toAll>>

-----------------------------------------------------------------------------
Program ==
  \/ InitEspNow \/ End
  \/ \E mac \in Macs : Send(mac)
  \/ \E h \in {"recvCb", "sendCb"} : SetHandler(h)

Radio == Receive \/ \E mac \in Macs : Report(mac)

Next == Program \/ LoopStarts \/ DrainRecv \/ DrainSend \/ HandlerReturns \/ Radio

Spec == Init /\ [][Next]_vars

(* The radio reports what it was given, the loop runs and handlers return, *)
(* however often loop() runs below them while they wait.                   *)
FairSpec ==
  /\ Spec
  /\ WF_vars(\E mac \in Macs : Report(mac))
  /\ WF_vars(phases = <<>> /\ LoopStarts)
  /\ WF_vars(DrainRecv \/ DrainSend)
  /\ \A d \in 1..MaxDepth : SF_vars(Len(phases) = d /\ HandlerReturns)

-----------------------------------------------------------------------------
(* Properties.                                                             *)

(* Reports carry no id, and still a promise shows how its own frame fared, *)
(* whatever is in flight to the same peer and to others: as long as        *)
(* nothing was sent to all peers and the session has not been ended.       *)
OwnOutcome == ~ended /\ ~toAll => \A i \in Ids : settled[i] \in {0, i}

(* There is a report to come for every send that waits for one, so that    *)
(* none waits for ever: at least as many frames to a peer as sends to it   *)
(* that are not resolved, and as many frames as sends in all.  end()       *)
(* breaks this.                                                            *)
InFlight == UNION {{<<m, n>> : n \in 1..Len(air[m])} : m \in Macs}
EnoughReports ==
  ~ended =>
    /\ \A p \in Peers : Cardinality(SendsTo(p)) <= Len(air[p])
    /\ Cardinality(Unresolved) <= Cardinality(InFlight)

(* Every promise settles, unless the session was ended. *)
EverySendSettles ==
  \A i \in Ids : i <= sendIdCounter ~> settled[i] # 0 \/ ended \/ uaf

-----------------------------------------------------------------------------
(* What comments of the code say, or that they leave out, and the model    *)
(* refutes.                                                                *)

(* "Sends resolve when the radio reports success/fail": a promise shows    *)
(* what became of its own frame, also after a broadcast or a new session.  *)
AlwaysOwnOutcome == \A i \in Ids : settled[i] \in {0, i}

(* The same without broadcasts, but across end() and init(): a report of   *)
(* the old session resolves a send of the new one.                         *)
OwnOutcomeAcrossSessions == ~toAll => AlwaysOwnOutcome

(* No handler is freed while it runs. *)
NoUseAfterFree == ~uaf
=============================================================================
