------------------------------ MODULE JSAnalog ------------------------------
(***************************************************************************)
(* class JSAnalog and the RTTTL player (esp32/QuickJS.h): the LEDC         *)
(* channels that analogWrite, tone, servoWrite and tunes share, and the    *)
(* touch listeners.  Everything but the touch interrupt runs on the JS     *)
(* task.  A call only queues a write; loop() (and tick(), inside a         *)
(* callback that waits) carries out one per round, while the 0% and 100%   *)
(* of analogWrite, the rests and the end of a tune take the pin away at    *)
(* once.  The tick of a tune runs its onComplete callback half-way, and    *)
(* that callback may play, write and wait.  Duties, frequencies and        *)
(* durations are left out: the time of a note is up at some time.          *)
(***************************************************************************)
EXTENDS Naturals, Sequences, FiniteSets

CONSTANTS
  Pins,       \* GPIOs that pinChannel has an entry for (below 40)
  BigPins,    \* GPIOs from 40 on
  NumChannels,\* LEDC_CHANNELS - 1: channel 0 is reserved
  TouchPins,  \* touch pads
  MaxTouch,   \* MAX_TOUCH
  Tunes,      \* note lists a program may play, sequences over Notes
  MaxCalls    \* bound: calls a program makes

Notes == {"tone", "rest"}
Channels == 1..NumChannels
Slots == 1..MaxTouch
AllPins == Pins \union BigPins

ASSUME AnalogAssumption ==
  /\ NumChannels \in Nat /\ MaxTouch \in Nat /\ MaxCalls \in Nat
  /\ Pins \intersect BigPins = {} /\ TouchPins # {}
  /\ Tunes \subseteq Seq(Notes) \ {<<>>}

VARIABLES
  writes,     \* writeQueue, a sequence of [op, pin]
  bitmap,     \* channelBitmap, as a set
  pinChannel, \* [Pins -> channel], 0 is PIN_UNUSED
  driven,     \* LEDC: [AllPins -> channel the pin is attached to], 0 if none
  listeners,  \* [Slots -> [active, pin, touched]]
  isr,        \* touch driver: [TouchPins -> slot given to the handler], 0 if none
  players,    \* rtttlPlayers; `left` is the notes from noteIdx on, `aborted` is gen # startGen
  completing, \* the player whose onComplete is running, or 0
  tune,       \* what became of each playRTTTL call, in order
  held,       \* onComplete functions (by tune) that are still referenced
  uaf,        \* has freed memory been used?
  calls       \* calls made so far

pool == <<writes, bitmap, pinChannel, driven>>
touch == <<listeners, isr>>
tunes == <<players, completing, tune, held, uaf>>
vars == <<pool, touch, tunes, calls>>

Listener == [active : BOOLEAN, pin : TouchPins, touched : BOOLEAN]
Player == [pin : AllPins, active : BOOLEAN, aborted : BOOLEAN, left : Seq(Notes), tune : Nat, cb : Nat]
Fates == {"playing", "done", "dropped", "replaced"}

TypeOK ==
  /\ writes \in Seq([op : {"write", "stop"}, pin : AllPins])
  /\ bitmap \subseteq Channels
  /\ pinChannel \in [Pins -> Channels \union {0}]
  /\ driven \in [AllPins -> Channels \union {0}]
  /\ listeners \in [Slots -> Listener]
  /\ isr \in [TouchPins -> Slots \union {0}]
  /\ players \in Seq(Player)
  /\ completing \in Nat /\ completing <= Len(players)
  /\ tune \in Seq(Fates)
  /\ held \in SUBSET Nat
  /\ uaf \in BOOLEAN
  /\ calls \in Nat

Init ==
  /\ writes = <<>>
  /\ bitmap = {}
  /\ pinChannel = [p \in Pins |-> 0]
  /\ driven = [p \in AllPins |-> 0]
  /\ listeners = [i \in Slots |->
                    [active |-> FALSE, pin |-> CHOOSE p \in TouchPins : TRUE, touched |-> FALSE]]
  /\ isr = [p \in TouchPins |-> 0]
  /\ players = <<>> /\ completing = 0
  /\ tune = <<>> /\ held = {}
  /\ uaf = FALSE
  /\ calls = 0

-----------------------------------------------------------------------------
(* The channel pool.                                                       *)

First(S) == CHOOSE i \in S : \A j \in S : i <= j

Free == Channels \ bitmap

Queue(op, p) ==
  /\ writes' = Append(writes, [op |-> op, pin |-> p])
  /\ UNCHANGED <<bitmap, pinChannel, driven>>

(* getPinChannel: PIN_INVALID, like PIN_UNUSED, is no channel to give up.  *)
Attached(p) == p \in Pins /\ pinChannel[p] # 0

(* Bug, for a mutant: the table is not cleared. *)
ReleaseKeepsEntryBug(p) ==
  /\ bitmap' = IF Attached(p) THEN bitmap \ {pinChannel[p]} ELSE bitmap
  /\ driven' = IF Attached(p) THEN [driven EXCEPT ![p] = 0] ELSE driven
  /\ UNCHANGED pinChannel

(* detachPwmIfAttached, and what a queued stop does: ledcDetachPin,        *)
(* freeChannel, setPinChannel.                                             *)
Release(p) ==
  IF Attached(p)
  THEN /\ driven' = [driven EXCEPT ![p] = 0]
       /\ bitmap' = bitmap \ {pinChannel[p]}
       /\ pinChannel' = [pinChannel EXCEPT ![p] = 0]
  ELSE UNCHANGED <<bitmap, pinChannel, driven>>

Detach(p) == Release(p) /\ UNCHANGED writes

(* ledcAttachPin and setPinChannel, which ignores a pin from 40 on.        *)
Attach(p, ch) ==
  /\ driven' = [driven EXCEPT ![p] = ch]
  /\ pinChannel' = IF p \in Pins THEN [pinChannel EXCEPT ![p] = ch] ELSE pinChannel

(* A queued write: the pin's channel again, or a new one, or a rejection.  *)
Write(p) ==
  \/ /\ Attached(p)
     /\ Attach(p, pinChannel[p])
     /\ UNCHANGED bitmap
  \/ /\ ~Attached(p) /\ Free # {}
     /\ Attach(p, First(Free))
     /\ bitmap' = bitmap \union {First(Free)}
  \/ /\ ~Attached(p) /\ Free = {}
     /\ UNCHANGED <<bitmap, pinChannel, driven>>

(* JSAnalog::loop carries out one entry of the queue and settles its       *)
(* promise (the ADC queue has no state but itself and is left out).        *)
LoopWrite ==
  /\ writes # <<>> /\ ~uaf
  /\ writes' = Tail(writes)
  /\ LET e == Head(writes)
     IN IF e.op = "stop" THEN Release(e.pin) ELSE Write(e.pin)
  /\ UNCHANGED <<touch, tunes, calls>>

-----------------------------------------------------------------------------
(* Tunes.                                                                  *)

Call == calls < MaxCalls /\ ~uaf /\ calls' = calls + 1

Sound(p, note) == IF note = "rest" THEN Detach(p) ELSE Queue("write", p)

(* rtttlFind: the first active player of the pin, aborted ones included.   *)
Found(p) == {k \in 1..Len(players) : players[k].active /\ players[k].pin = p}

(* The players, functions and fates once playRTTTL has stopped what is on  *)
(* the pin.                                                                *)
Stopped(p) ==
  IF Found(p) = {} THEN players
  ELSE [players EXCEPT ![First(Found(p))] =
          [@ EXCEPT !.active = FALSE, !.aborted = TRUE, !.left = <<>>, !.cb = 0]]

(* Bug, for a mutant: the function of the tune that is stopped is not      *)
(* freed.                                                                  *)
StillHeldLeakBug(p) == held

StillHeld(p) == IF Found(p) = {} THEN held ELSE held \ {players[First(Found(p))].cb}

Replaced(p) ==
  IF Found(p) = {} THEN tune ELSE [tune EXCEPT ![players[First(Found(p))].tune] = "replaced"]

(* Bug, for a mutant: a player is taken although it is playing.            *)
IdleAnyBug(ps) == 1..Len(ps)

Idle(ps) == {k \in 1..Len(ps) : ~ps[k].active}

IdleOn(ps, p) == {k \in Idle(ps) : ps[k].pin = p}

(* An inactive player, of this pin if there is one, or a new one at the end. *)
SlotFor(ps, p) ==
  IF IdleOn(ps, p) # {} THEN First(IdleOn(ps, p))
  ELSE IF Idle(ps) # {} THEN First(Idle(ps)) ELSE Len(ps) + 1

(* playRTTTL.  A new player may move the vector, under the tick whose      *)
(* callback this is.                                                       *)
Play(p, notes, hasCb) ==
  LET ps == Stopped(p)
      k == SlotFor(ps, p)
      t == Len(tune) + 1
      s == [pin |-> p, active |-> TRUE, aborted |-> FALSE, left |-> notes, tune |-> t,
            cb |-> IF hasCb THEN t ELSE 0]
  IN /\ Call
     /\ players' = IF k <= Len(ps) THEN [ps EXCEPT ![k] = s] ELSE Append(ps, s)
     /\ tune' = Append(Replaced(p), "playing")
     /\ held' = IF hasCb THEN StillHeld(p) \union {t} ELSE StillHeld(p)
     /\ uaf' \in {FALSE, completing # 0 /\ k > Len(ps)}
     /\ Sound(p, Head(notes))
     /\ UNCHANGED <<completing, touch>>

(* The text has no notes in it: playRTTTL throws, but what was on the pin  *)
(* has been stopped.                                                       *)
PlayThrows(p) ==
  /\ Call
  /\ players' = Stopped(p)
  /\ tune' = Replaced(p)
  /\ held' = StillHeld(p)
  /\ UNCHANGED <<pool, touch, completing, uaf>>

(* A player the tick of loop() goes on with, when the note's time is up.   *)
Ticking(k) == players[k].active /\ ~players[k].aborted /\ completing = 0 /\ ~uaf

NextNote(k) ==
  /\ Ticking(k) /\ Len(players[k].left) > 1
  /\ players' = [players EXCEPT ![k] = [@ EXCEPT !.left = Tail(players[k].left)]]
  /\ Sound(players[k].pin, players[k].left[2])
  /\ UNCHANGED <<touch, completing, tune, held, uaf, calls>>

(* The last note is over.  With a callback, JavaScript runs before the     *)
(* tick goes on (Completed).                                               *)
Finish(k) ==
  /\ Ticking(k) /\ Len(players[k].left) = 1
  /\ players' = [players EXCEPT ![k] = [@ EXCEPT !.active = FALSE, !.left = <<>>]]
  /\ tune' = [tune EXCEPT ![players[k].tune] = "done"]
  /\ Detach(players[k].pin)
  /\ completing' = IF players[k].cb # 0 THEN k ELSE 0
  /\ UNCHANGED <<touch, held, uaf, calls>>

(* Bug, for a mutant: the callback is not freed. *)
CompletedLeakBug ==
  /\ completing # 0 /\ ~uaf
  /\ completing' = 0
  /\ players' = [players EXCEPT ![completing] = [@ EXCEPT !.cb = 0, !.left = <<>>]]
  /\ UNCHANGED <<pool, touch, tune, held, uaf, calls>>

(* The callback has returned: the player's onComplete is freed and its     *)
(* notes cleared, whatever has been put there meanwhile.                   *)
Completed ==
  /\ completing # 0 /\ ~uaf
  /\ completing' = 0
  /\ held' = held \ {players[completing].cb}
  /\ players' = [players EXCEPT ![completing] = [@ EXCEPT !.cb = 0, !.left = <<>>]]
  /\ tune' = IF players[completing].active
             THEN [tune EXCEPT ![players[completing].tune] = "dropped"] ELSE tune
  /\ UNCHANGED <<pool, touch, uaf, calls>>

-----------------------------------------------------------------------------
(* Calls that write to a pin.                                              *)

(* A write only marks the player: it stays active and keeps its function. *)
Abort(p) ==
  players' = IF Found(p) = {} THEN players
             ELSE [players EXCEPT ![First(Found(p))] = [@ EXCEPT !.aborted = TRUE]]

(* servoWrite, tone, and analogWrite strictly between 0 and 1.             *)
AbortAndWrite(p) ==
  /\ Call /\ Abort(p) /\ Queue("write", p)
  /\ UNCHANGED <<touch, completing, tune, held, uaf>>

(* analogWrite of 0 or 1: digitalWrite, at once.                           *)
AbortAndDetach(p) ==
  /\ Call /\ Abort(p) /\ Detach(p)
  /\ UNCHANGED <<touch, completing, tune, held, uaf>>

(* writeAnalog and writeAnalogStop.                                        *)
WriteAnalog(p) == Call /\ Queue("write", p) /\ UNCHANGED <<touch, tunes>>
WriteAnalogStop(p) == Call /\ Queue("stop", p) /\ UNCHANGED <<touch, tunes>>

-----------------------------------------------------------------------------
(* Touch.                                                                  *)

FreeSlots == {i \in Slots : ~listeners[i].active}

(* addTouch takes the first free slot, or throws.  The driver has one      *)
(* handler per pad, the last one given.                                    *)
AddTouch(p) ==
  /\ Call /\ FreeSlots # {}
  /\ LET i == First(FreeSlots)
     IN /\ listeners' = [listeners EXCEPT ![i] = [active |-> TRUE, pin |-> p, touched |-> FALSE]]
        /\ isr' = [isr EXCEPT ![p] = i]
  /\ UNCHANGED <<pool, tunes>>

(* Bug, for a mutant: the interrupt stays attached. *)
RemoveTouchKeepsIsrBug(i) ==
  /\ listeners' = [listeners EXCEPT ![i] = [@ EXCEPT !.active = FALSE, !.touched = FALSE]]
  /\ UNCHANGED isr

RemoveTouch(i) ==
  IF listeners[i].active
  THEN /\ listeners' = [listeners EXCEPT ![i] = [@ EXCEPT !.active = FALSE, !.touched = FALSE]]
       /\ isr' = [isr EXCEPT ![listeners[i].pin] = 0]
  ELSE UNCHANGED touch

(* dispose() of some listener that was given slot i, this one or one       *)
(* before it.                                                              *)
Dispose(i) == Call /\ RemoveTouch(i) /\ UNCHANGED <<pool, tunes>>

(* The interrupt: findListener. *)
TouchIsr(p) ==
  /\ ~uaf
  /\ isr[p] # 0 /\ listeners[isr[p]].active
  /\ listeners' = [listeners EXCEPT ![isr[p]] = [@ EXCEPT !.touched = TRUE]]
  /\ UNCHANGED <<isr, pool, tunes, calls>>

(* loop() clears the flag, then calls the callback; nothing of the slot is *)
(* used after the call, so that what the callback does are further steps.  *)
DispatchTouch(i) ==
  /\ listeners[i].active /\ listeners[i].touched /\ ~uaf
  /\ listeners' = [listeners EXCEPT ![i] = [@ EXCEPT !.touched = FALSE]]
  /\ UNCHANGED <<isr, pool, tunes, calls>>

-----------------------------------------------------------------------------
Loop ==
  \/ LoopWrite
  \/ Completed
  \/ \E k \in 1..Len(players) : NextNote(k) \/ Finish(k)
  \/ \E i \in Slots : DispatchTouch(i)

Program ==
  \/ \E p \in AllPins :
       \/ \E n \in Tunes, b \in BOOLEAN : Play(p, n, b)
       \/ PlayThrows(p)
       \/ AbortAndWrite(p)
       \/ AbortAndDetach(p)
       \/ WriteAnalog(p)
       \/ WriteAnalogStop(p)
  \/ \E p \in TouchPins : AddTouch(p)
  \/ \E i \in Slots : Dispose(i)

Next == Loop \/ Program \/ \E p \in TouchPins : TouchIsr(p)

Spec == Init /\ [][Next]_vars

(* loop() runs for ever, every note ends and a callback returns.           *)
FairSpec ==
  /\ Spec
  /\ WF_vars(LoopWrite)
  /\ WF_vars(Completed)
  /\ \A k \in 1..MaxCalls : SF_vars(k <= Len(players) /\ (NextNote(k) \/ Finish(k)))

-----------------------------------------------------------------------------
(* Properties.                                                             *)

Image == {driven[p] : p \in AllPins} \ {0}

DriveIsExclusive ==
  \A p, q \in AllPins : p # q /\ driven[p] # 0 => driven[p] # driven[q]

(* However queued writes, stops, tunes and analogWrite(pin, 0) interleave, *)
(* the allocator and the hardware agree (allocChannel, freeChannel,        *)
(* setPinChannel): no channel drives two pins, and one is allocated if and *)
(* only if it drives a pin, so that none is lost and none given away while *)
(* in use.  A second write to a pin from 40 on, which has no entry in      *)
(* pinChannel, loses one: that nothing is lost is claimed only while no    *)
(* such pin has been written to.                                           *)
PoolIsPinned ==
  /\ DriveIsExclusive
  /\ Image \subseteq bitmap
  /\ (\A p \in BigPins : driven[p] = 0) => bitmap = Image

(* An interrupt of a pad finds a listener registered for that pad, however *)
(* slots are disposed and reused (the handler knows only the slot).        *)
TouchIsForItsPin ==
  \A p \in TouchPins : isr[p] # 0 =>
    listeners[isr[p]].active /\ listeners[isr[p]].pin = p

(* A callback is referenced exactly as long as its player has yet to call  *)
(* or free it, except the one of a tune that was replaced within its own   *)
(* callback, which nobody will free.                                       *)
Owned == {players[k].cb : k \in 1..Len(players)} \ {0}
CallbacksHeld ==
  ~uaf => /\ Owned \subseteq held
          /\ \A t \in held \ Owned : tune[t] = "done"
          /\ \A j, k \in 1..Len(players) : players[j].cb = players[k].cb /\ j # k => players[j].cb = 0

(* Every tune ends or is replaced, unless a write to its pin aborts it, or *)
(* it was started within the onComplete callback of a player it then took  *)
(* over.                                                                   *)
Fate(t) == IF t <= Len(tune) THEN tune[t] ELSE "none"
Aborted(t) == \E k \in 1..Len(players) : players[k].tune = t /\ players[k].aborted
TuneEnds ==
  \A t \in 1..MaxCalls :
    Fate(t) = "playing" ~> Fate(t) # "playing" \/ Aborted(t) \/ uaf

-----------------------------------------------------------------------------
(* What comments of the code say, and the model refutes.                   *)

(* A tune played from an onComplete callback plays like any other.         *)
NoTuneDropped == \A t \in 1..Len(tune) : tune[t] # "dropped"

(* A channel is given back when its pin is no longer in use: none is       *)
(* allocated that drives no pin.                                           *)
NoChannelLost == bitmap = Image
=============================================================================
