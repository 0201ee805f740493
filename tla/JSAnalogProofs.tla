--------------------------- MODULE JSAnalogProofs ---------------------------
(***************************************************************************)
(* Theorems about JSAnalog, for any pins, pads, channels, slots and tunes. *)
(***************************************************************************)
EXTENDS JSAnalog, SequenceTheorems, WellFoundedInduction, TLAPS

(* A nonempty set of numbers has a first one.                              *)
LEMMA FirstIsIn ==
  ASSUME NEW S \in SUBSET Nat, S # {}
  PROVE  First(S) \in S
<1> DEFINE R == OpToRel(<, Nat)
<1>1. IsWellFoundedOn(R, Nat)
  BY NatLessThanWellFounded
<1>2. \A j, i \in Nat : j < i => <<j, i>> \in R
  BY DEF OpToRel
<1> HIDE DEF R
<1>3. \E i \in S : \A j \in S : ~ (<<j, i>> \in R)
  BY <1>1, WFMin, Zenon
<1>4. PICK i \in S : \A j \in S : ~ (<<j, i>> \in R)
  BY <1>3
<1>5. ASSUME NEW j \in S PROVE i <= j
  <2>1. i \in Nat /\ j \in Nat
    OBVIOUS
  <2>2. ~(j < i)
    BY <1>2, <1>4, <2>1
  <2>3. QED
    BY <2>1, <2>2
<1>6. QED
  BY <1>5 DEF First

-----------------------------------------------------------------------------
(* The pool.                                                               *)

PoolType ==
  /\ writes \in Seq([op : {"write", "stop"}, pin : AllPins])
  /\ bitmap \subseteq Channels
  /\ pinChannel \in [Pins -> Channels \union {0}]
  /\ driven \in [AllPins -> Channels \union {0}]

(* What makes PoolIsPinned inductive: the table shows what the hardware    *)
(* does, for the pins it has an entry for.                                 *)
Mirror == \A p \in Pins : pinChannel[p] = driven[p]

PoolInv == PoolType /\ Mirror /\ PoolIsPinned

LEMMA ReleaseKeepsPool ==
  ASSUME PoolInv, NEW p \in AllPins, Release(p),
         writes' \in Seq([op : {"write", "stop"}, pin : AllPins])
  PROVE  PoolInv'
<1>1. CASE Attached(p)
  <2> DEFINE c == pinChannel[p]
  <2>1. /\ p \in Pins /\ c # 0 /\ c \in Channels /\ driven[p] = c /\ c \in bitmap
        /\ driven' = [driven EXCEPT ![p] = 0]
        /\ bitmap' = bitmap \ {c}
        /\ pinChannel' = [pinChannel EXCEPT ![p] = 0]
    BY <1>1 DEF PoolInv, PoolType, Mirror, PoolIsPinned, Image, Attached, Release, AllPins
  <2>2. PoolType' /\ Mirror'
    BY <2>1 DEF PoolInv, PoolType, Mirror, AllPins
  <2>3. \A q \in AllPins : driven'[q] = IF q = p THEN 0 ELSE driven[q]
    BY <2>1 DEF PoolInv, PoolType
  <2>4. DriveIsExclusive'
    BY <2>3 DEF PoolInv, PoolIsPinned, DriveIsExclusive, PoolType
  <2>5. Image' = Image \ {c}
    BY <2>1, <2>3 DEF PoolInv, PoolIsPinned, DriveIsExclusive, Image, PoolType
  <2>6. (\A q \in BigPins : driven'[q] = 0) => \A q \in BigPins : driven[q] = 0
    BY <2>1, <2>3, AnalogAssumption DEF AllPins
  <2>7. QED
    BY <2>1, <2>2, <2>4, <2>5, <2>6 DEF PoolInv, PoolIsPinned
<1>2. CASE ~Attached(p)
  BY <1>2 DEF PoolInv, PoolType, Mirror, PoolIsPinned, DriveIsExclusive, Image, Release
<1>3. QED
  BY <1>1, <1>2

LEMMA WriteKeepsPool ==
  ASSUME PoolInv, NEW p \in AllPins, Write(p),
         writes' \in Seq([op : {"write", "stop"}, pin : AllPins])
  PROVE  PoolInv'
<1>1. CASE Attached(p) /\ Attach(p, pinChannel[p]) /\ UNCHANGED bitmap
  <2>1. driven' = driven /\ pinChannel' = pinChannel
    BY <1>1 DEF PoolInv, PoolType, Mirror, Attached, Attach
  <2>2. QED
    BY <1>1, <2>1 DEF PoolInv, PoolType, Mirror, PoolIsPinned, DriveIsExclusive, Image
<1>2. CASE ~Attached(p) /\ Free # {} /\ Attach(p, First(Free)) /\ bitmap' = bitmap \union {First(Free)}
  <2> DEFINE c == First(Free)
  <2>1. c \in Channels /\ c \notin bitmap
    BY <1>2, FirstIsIn, AnalogAssumption DEF Free, Channels
  <2> HIDE DEF c
  <2>2. c # 0 /\ c \notin Image
    BY <2>1, AnalogAssumption DEF PoolInv, PoolIsPinned, Channels
  <2>3. /\ driven' = [driven EXCEPT ![p] = c]
        /\ pinChannel' = IF p \in Pins THEN [pinChannel EXCEPT ![p] = c] ELSE pinChannel
        /\ bitmap' = bitmap \union {c}
    BY <1>2 DEF Attach, c
  <2>4. PoolType' /\ Mirror'
    BY <2>1, <2>3 DEF PoolInv, PoolType, Mirror, AllPins
  <2>5. \A q \in AllPins : driven'[q] = IF q = p THEN c ELSE driven[q]
    BY <2>3 DEF PoolInv, PoolType
  <2>6. DriveIsExclusive'
    BY <2>2, <2>5 DEF PoolInv, PoolIsPinned, DriveIsExclusive, Image, PoolType
  <2>7. Image' \subseteq Image \union {c} /\ c \in Image'
    BY <2>2, <2>5 DEF Image
  <2>8. ASSUME \A q \in BigPins : driven'[q] = 0
        PROVE  bitmap' = Image'
    <3>1. p \in Pins /\ driven[p] = 0
      BY <2>2, <2>5, <2>8, <1>2 DEF AllPins, Attached, PoolInv, Mirror
    <3>2. \A q \in BigPins : driven[q] = 0
      BY <2>5, <2>8, <3>1, AnalogAssumption DEF AllPins
    <3>3. bitmap = Image
      BY <3>2 DEF PoolInv, PoolIsPinned
    <3>4. Image \subseteq Image'
      BY <2>5, <3>1 DEF Image
    <3>5. QED
      BY <2>3, <2>7, <3>3, <3>4
  <2>9. QED
    BY <2>3, <2>4, <2>6, <2>7, <2>8 DEF PoolInv, PoolIsPinned
<1>3. CASE UNCHANGED <<bitmap, pinChannel, driven>>
  BY <1>3 DEF PoolInv, PoolType, Mirror, PoolIsPinned, DriveIsExclusive, Image
<1>4. QED
  BY <1>1, <1>2, <1>3 DEF Write

LEMMA QueueKeepsPool ==
  ASSUME PoolInv, NEW p \in AllPins, NEW op \in {"write", "stop"}, Queue(op, p)
  PROVE  PoolInv'
BY DEF PoolInv, PoolType, Mirror, PoolIsPinned, DriveIsExclusive, Image, Queue

LEMMA DetachKeepsPool ==
  ASSUME PoolInv, NEW p \in AllPins, Detach(p)
  PROVE  PoolInv'
BY ReleaseKeepsPool DEF Detach, PoolInv, PoolType

LEMMA SoundKeepsPool ==
  ASSUME PoolInv, NEW p \in AllPins, NEW n, Sound(p, n)
  PROVE  PoolInv'
BY QueueKeepsPool, DetachKeepsPool DEF Sound

LEMMA LoopWriteKeepsPool ==
  ASSUME PoolInv, LoopWrite
  PROVE  PoolInv'
<1> DEFINE e == Head(writes)
<1>1. /\ e \in [op : {"write", "stop"}, pin : AllPins]
      /\ writes' \in Seq([op : {"write", "stop"}, pin : AllPins])
  BY HeadTailProperties DEF LoopWrite, PoolInv, PoolType
<1>2. e.pin \in AllPins
  BY <1>1
<1>3. Release(e.pin) \/ Write(e.pin)
  BY DEF LoopWrite
<1>4. QED
  BY <1>1, <1>2, <1>3, ReleaseKeepsPool, WriteKeepsPool

-----------------------------------------------------------------------------
(* The rest of the state.                                                  *)

TunesType ==
  /\ players \in Seq(Player)
  /\ completing \in Nat /\ completing <= Len(players)
  /\ tune \in Seq(Fates)
  /\ held \in SUBSET Nat
  /\ uaf \in BOOLEAN

TouchInv ==
  /\ listeners \in [Slots -> Listener]
  /\ isr \in [TouchPins -> Slots \union {0}]
  /\ TouchIsForItsPin

Inv == PoolInv /\ TouchInv /\ TunesType /\ calls \in Nat

LEMMA PlayerOf ==
  ASSUME TunesType, NEW k \in 1..Len(players)
  PROVE  /\ players[k] \in Player
         /\ players[k].pin \in AllPins
         /\ players[k].left \in Seq(Notes)
         /\ players[k].tune \in Nat
<1>1. players[k] \in Player
  BY DEF TunesType
<1>2. QED
  BY <1>1 DEF Player

(* One player is replaced. *)
LEMMA PlayersExcept ==
  ASSUME TunesType, NEW k \in 1..Len(players), NEW r \in Player,
         players' = [players EXCEPT ![k] = r]
  PROVE  players' \in Seq(Player) /\ Len(players') = Len(players)
BY ExceptSeq DEF TunesType

LEMMA ListenerOf ==
  ASSUME TouchInv, NEW i \in Slots
  PROVE  listeners[i] \in Listener /\ listeners[i].pin \in TouchPins
<1>1. listeners[i] \in Listener
  BY DEF TouchInv
<1>2. QED
  BY <1>1 DEF Listener

(* The fate of one tune is set. *)
LEMMA TuneExcept ==
  ASSUME TunesType, NEW t \in Nat, NEW f \in Fates
  PROVE  [tune EXCEPT ![t] = f] \in Seq(Fates) /\ Len([tune EXCEPT ![t] = f]) = Len(tune)
<1>1. CASE t \in 1..Len(tune)
  BY <1>1, ExceptSeq DEF TunesType
<1>2. CASE t \notin 1..Len(tune)
  <2>1. DOMAIN tune = 1..Len(tune)
    BY DEF TunesType
  <2>2. [tune EXCEPT ![t] = f] = tune
    BY <1>2, <2>1 DEF TunesType
  <2>3. QED
    BY <2>2 DEF TunesType
<1>3. QED
  BY <1>1, <1>2

(* The constants as the steps below use them.                              *)
LEMMA Constants ==
  /\ Slots \subseteq Nat \ {0}
  /\ \A n \in Tunes : n \in Seq(Notes) /\ n # <<>>
BY AnalogAssumption DEF Slots

LEMMA InitInv ==
  ASSUME Init
  PROVE  Inv
<1>1. PoolInv
  <2>1. /\ writes = <<>> /\ bitmap = {}
        /\ pinChannel = [p \in Pins |-> 0] /\ driven = [p \in AllPins |-> 0]
    BY DEF Init
  <2>2. writes \in Seq([op : {"write", "stop"}, pin : AllPins])
    BY <2>1
  <2>3. PoolType /\ Mirror
    BY <2>1, <2>2 DEF PoolType, Mirror, AllPins
  <2>4. DriveIsExclusive /\ Image = {}
    BY <2>1 DEF DriveIsExclusive, Image
  <2>5. QED
    BY <2>1, <2>3, <2>4 DEF PoolInv, PoolIsPinned
<1>2. TouchInv
  <2> DEFINE pad == CHOOSE p \in TouchPins : TRUE
  <2>1. pad \in TouchPins
    BY AnalogAssumption, Zenon
  <2>2. listeners = [i \in Slots |-> [active |-> FALSE, pin |-> pad, touched |-> FALSE]]
    BY DEF Init
  <2> HIDE DEF pad
  <2>3. QED
    BY <2>1, <2>2 DEF Init, TouchInv, TouchIsForItsPin, Listener
<1>3. TunesType /\ calls \in Nat
  <2>1. players = <<>> /\ completing = 0 /\ tune = <<>> /\ held = {} /\ uaf = FALSE /\ calls = 0
    BY DEF Init
  <2>2. players \in Seq(Player) /\ Len(players) = 0 /\ tune \in Seq(Fates)
    BY <2>1
  <2>3. completing \in Nat /\ completing <= Len(players) /\ calls \in Nat
    BY <2>1, <2>2
  <2>4. held \in SUBSET Nat /\ uaf \in BOOLEAN
    BY <2>1
  <2>5. QED
    BY <2>2, <2>3, <2>4, Zenon DEF TunesType
<1>4. QED
  BY <1>1, <1>2, <1>3 DEF Inv

LEMMA SlotForIsIn ==
  ASSUME NEW ps \in Seq(Player), NEW p
  PROVE  SlotFor(ps, p) \in 1..Len(ps) + 1
<1> Len(ps) \in Nat
  OBVIOUS
<1>1. /\ Idle(ps) \in SUBSET Nat /\ IdleOn(ps, p) \in SUBSET Nat
      /\ Idle(ps) \subseteq 1..Len(ps) /\ IdleOn(ps, p) \subseteq 1..Len(ps)
  BY DEF Idle, IdleOn
<1>2. CASE IdleOn(ps, p) # {}
  <2>1. First(IdleOn(ps, p)) \in 1..Len(ps)
    BY <1>1, <1>2, FirstIsIn
  <2>2. QED
    BY <1>2, <2>1 DEF SlotFor
<1>3. CASE IdleOn(ps, p) = {} /\ Idle(ps) # {}
  <2>1. First(Idle(ps)) \in 1..Len(ps)
    BY <1>1, <1>3, FirstIsIn
  <2>2. QED
    BY <1>3, <2>1 DEF SlotFor
<1>4. CASE IdleOn(ps, p) = {} /\ Idle(ps) = {}
  BY <1>4 DEF SlotFor
<1>5. QED
  BY <1>2, <1>3, <1>4

(* What playRTTTL leaves of the players when it has stopped one. *)
LEMMA StoppedIsTyped ==
  ASSUME TunesType, NEW p
  PROVE  /\ Stopped(p) \in Seq(Player) /\ Len(Stopped(p)) = Len(players)
         /\ StillHeld(p) \in SUBSET Nat
         /\ Replaced(p) \in Seq(Fates) /\ Len(Replaced(p)) = Len(tune)
<1>1. Stopped(p) \in Seq(Player) /\ Len(Stopped(p)) = Len(players)
  <2>1. CASE Found(p) = {}
    BY <2>1 DEF Stopped, TunesType
  <2>2. CASE Found(p) # {}
    <3> DEFINE k == First(Found(p))
               r == [players[k] EXCEPT !.active = FALSE, !.aborted = TRUE, !.left = <<>>, !.cb = 0]
    <3>1. Found(p) \in SUBSET Nat /\ Found(p) \subseteq 1..Len(players)
      BY DEF Found, TunesType
    <3>2. k \in 1..Len(players)
      BY <2>2, <3>1, FirstIsIn
    <3>3. Stopped(p) = [players EXCEPT ![k] = r]
      BY <2>2 DEF Stopped
    <3>4. players[k] \in Player
      BY <3>2, PlayerOf
    <3> HIDE DEF k
    <3>5. r \in Player
      <4>1. <<>> \in Seq(Notes)
        OBVIOUS
      <4>2. QED
        BY <3>4, <4>1 DEF Player
    <3> HIDE DEF r
    <3>6. QED
      BY <3>2, <3>3, <3>5, ExceptSeq DEF TunesType
  <2>3. QED
    BY <2>1, <2>2
<1>2. StillHeld(p) \in SUBSET Nat
  BY DEF StillHeld, TunesType
<1>3. Replaced(p) \in Seq(Fates) /\ Len(Replaced(p)) = Len(tune)
  <2>1. CASE Found(p) = {}
    BY <2>1 DEF Replaced, TunesType
  <2>2. CASE Found(p) # {}
    <3>1. Found(p) \in SUBSET Nat /\ Found(p) \subseteq 1..Len(players)
      BY DEF Found, TunesType
    <3>2. First(Found(p)) \in 1..Len(players)
      BY <2>2, <3>1, FirstIsIn
    <3>3. players[First(Found(p))].tune \in Nat /\ "replaced" \in Fates
      BY <3>2, PlayerOf DEF Fates
    <3>4. Replaced(p) = [tune EXCEPT ![players[First(Found(p))].tune] = "replaced"]
      BY <2>2 DEF Replaced
    <3>5. QED
      BY <3>3, <3>4, TuneExcept
  <2>3. QED
    BY <2>1, <2>2
<1>4. QED
  BY <1>1, <1>2, <1>3

LEMMA AbortKeepsTunes ==
  ASSUME TunesType, NEW p \in AllPins, Abort(p), UNCHANGED <<completing, tune, held, uaf>>
  PROVE  TunesType'
<1>1. CASE Found(p) = {}
  BY <1>1 DEF Abort, TunesType
<1>2. CASE Found(p) # {}
  <2> DEFINE k == First(Found(p))
  <2>1. Found(p) \in SUBSET Nat /\ Found(p) \subseteq 1..Len(players)
    BY DEF Found, TunesType
  <2>2. k \in 1..Len(players)
    BY <1>2, <2>1, FirstIsIn
  <2>3. players' = [players EXCEPT ![k] = [players[k] EXCEPT !.aborted = TRUE]]
    BY <1>2 DEF Abort
  <2> HIDE DEF k
  <2>4. players[k] \in Player
    BY <2>2, PlayerOf
  <2>5. [players[k] EXCEPT !.aborted = TRUE] \in Player
    BY <2>4 DEF Player
  <2>6. players' \in Seq(Player) /\ Len(players') = Len(players)
    BY <2>2, <2>3, <2>5, PlayersExcept
  <2>7. QED
    BY <2>6 DEF TunesType
<1>3. QED
  BY <1>1, <1>2

LEMMA RemoveKeepsTouch ==
  ASSUME TouchInv, NEW i \in Slots, RemoveTouch(i)
  PROVE  TouchInv'
<1>1. CASE listeners[i].active
  <2> DEFINE l == [listeners[i] EXCEPT !.active = FALSE, !.touched = FALSE]
             q == listeners[i].pin
  <2>1. listeners' = [listeners EXCEPT ![i] = l] /\ isr' = [isr EXCEPT ![q] = 0]
    BY <1>1 DEF RemoveTouch
  <2>2. listeners[i] \in Listener /\ q \in TouchPins
    BY ListenerOf
  <2>3. l \in Listener
    BY <2>2 DEF Listener
  <2> HIDE DEF l
  <2>4. \A p \in TouchPins : isr'[p] # 0 => p # q /\ isr'[p] = isr[p]
    BY <2>1 DEF TouchInv
  <2>5. \A p \in TouchPins : isr'[p] # 0 => isr'[p] # i /\ listeners'[isr'[p]] = listeners[isr'[p]]
    BY <2>1, <2>4 DEF TouchInv, TouchIsForItsPin
  <2>6. QED
    BY <2>1, <2>2, <2>3, <2>4, <2>5 DEF TouchInv, TouchIsForItsPin
<1>2. CASE ~listeners[i].active
  BY <1>2 DEF TouchInv, RemoveTouch, TouchIsForItsPin, touch
<1>3. QED
  BY <1>1, <1>2

LEMMA NextInv ==
  ASSUME Inv, [Next]_vars
  PROVE  Inv'
<1> USE DEF Inv
<1>1. CASE LoopWrite
  BY <1>1, LoopWriteKeepsPool DEF LoopWrite, touch, tunes, TouchInv, TouchIsForItsPin, TunesType
<1>2. CASE Completed
  <2>1. PoolInv'
    BY <1>2 DEF Completed, pool, PoolInv, PoolType, Mirror, PoolIsPinned, DriveIsExclusive, Image
  <2> DEFINE r == [players[completing] EXCEPT !.cb = 0, !.left = <<>>]
  <2>2. completing \in 1..Len(players) /\ players' = [players EXCEPT ![completing] = r]
    BY <1>2 DEF Completed, TunesType
  <2>3. players[completing] \in Player /\ players[completing].tune \in Nat
    BY <2>2, PlayerOf
  <2>4. r \in Player
    <3>1. <<>> \in Seq(Notes)
      OBVIOUS
    <3>2. QED
      BY <2>3, <3>1 DEF Player
  <2>5. players' \in Seq(Player) /\ Len(players') = Len(players)
    BY <2>2, <2>4, PlayersExcept
  <2>6. tune' \in Seq(Fates)
    <3>1. tune' = tune \/ tune' = [tune EXCEPT ![players[completing].tune] = "dropped"]
      BY <1>2 DEF Completed
    <3>2. tune \in Seq(Fates) /\ "dropped" \in Fates
      BY DEF TunesType, Fates
    <3>3. QED
      BY <2>3, <3>1, <3>2, TuneExcept
  <2>7. QED
    BY <1>2, <2>1, <2>5, <2>6 DEF Completed, touch, TouchInv, TouchIsForItsPin, TunesType
<1>3. ASSUME NEW k \in 1..Len(players), NextNote(k) PROVE Inv'
  <2> DEFINE r == [players[k] EXCEPT !.left = Tail(players[k].left)]
  <2>1. /\ players[k] \in Player /\ players[k].pin \in AllPins
        /\ players[k].left \in Seq(Notes)
    BY PlayerOf
  <2>2. players[k].left # <<>>
    <3>1. Len(players[k].left) > 1
      BY <1>3 DEF NextNote
    <3>2. Len(<<>>) = 0
      OBVIOUS
    <3>3. QED
      BY <3>1, <3>2
  <2>3. players' = [players EXCEPT ![k] = r]
    BY <1>3 DEF NextNote
  <2>4. r \in Player
    BY <2>1, <2>2, HeadTailProperties DEF Player
  <2>5. PoolInv'
    BY <1>3, <2>1, SoundKeepsPool DEF NextNote
  <2>6. players' \in Seq(Player) /\ Len(players') = Len(players)
    BY <2>3, <2>4, PlayersExcept
  <2>7. QED
    BY <1>3, <2>5, <2>6 DEF NextNote, touch, TouchInv, TouchIsForItsPin, TunesType
<1>4. ASSUME NEW k \in 1..Len(players), Finish(k) PROVE Inv'
  <2> DEFINE r == [players[k] EXCEPT !.active = FALSE, !.left = <<>>]
  <2>1. players[k] \in Player /\ players[k].pin \in AllPins /\ players[k].tune \in Nat
    BY PlayerOf
  <2>2. players' = [players EXCEPT ![k] = r]
    BY <1>4 DEF Finish
  <2>3. r \in Player
    <3>1. <<>> \in Seq(Notes)
      OBVIOUS
    <3>2. QED
      BY <2>1, <3>1 DEF Player
  <2>4. PoolInv'
    BY <1>4, <2>1, DetachKeepsPool DEF Finish
  <2>5. players' \in Seq(Player) /\ Len(players') = Len(players)
    BY <2>2, <2>3, PlayersExcept
  <2>6. completing' \in Nat /\ completing' <= Len(players)
    BY <1>4 DEF Finish, TunesType
  <2>7. tune' \in Seq(Fates)
    <3>1. tune' = [tune EXCEPT ![players[k].tune] = "done"] /\ "done" \in Fates
      BY <1>4 DEF Finish, Fates
    <3>2. QED
      BY <2>1, <3>1, TuneExcept
  <2>8. QED
    BY <1>4, <2>4, <2>5, <2>6, <2>7 DEF Finish, touch, TouchInv, TouchIsForItsPin, TunesType
<1>5. ASSUME NEW i \in Slots, DispatchTouch(i) PROVE Inv'
  <2>1. PoolInv' /\ TunesType' /\ calls' \in Nat
    BY <1>5 DEF DispatchTouch, pool, tunes, PoolInv, PoolType, Mirror, PoolIsPinned,
                DriveIsExclusive, Image, TunesType
  <2>2. TouchInv'
    <3> DEFINE l == [listeners[i] EXCEPT !.touched = FALSE]
    <3>1. listeners' = [listeners EXCEPT ![i] = l] /\ isr' = isr
      BY <1>5 DEF DispatchTouch
    <3>2. listeners[i] \in Listener
      BY ListenerOf
    <3>3. l \in Listener /\ l.active = listeners[i].active /\ l.pin = listeners[i].pin
      BY <3>2 DEF Listener
    <3> HIDE DEF l
    <3>4. QED
      BY <3>1, <3>3 DEF TouchInv, TouchIsForItsPin
  <2>3. QED
    BY <2>1, <2>2
<1>6. ASSUME NEW p \in AllPins, NEW n \in Tunes, NEW b \in BOOLEAN, Play(p, n, b) PROVE Inv'
  <2>1. n \in Seq(Notes) /\ n # <<>>
    BY Constants
  <2>2. PoolInv'
    BY <1>6, SoundKeepsPool DEF Play
  <2> DEFINE ps == Stopped(p)
             k == SlotFor(ps, p)
             t == Len(tune) + 1
             s == [pin |-> p, active |-> TRUE, aborted |-> FALSE, left |-> n, tune |-> t,
                   cb |-> IF b THEN t ELSE 0]
  <2>3. /\ ps \in Seq(Player) /\ Len(ps) = Len(players)
        /\ k \in 1..Len(ps) + 1 /\ t \in Nat
    BY SlotForIsIn, StoppedIsTyped DEF TunesType
  <2>4. s \in Player
    BY <2>1, <2>3 DEF Player
  <2>5. /\ players' = IF k <= Len(ps) THEN [ps EXCEPT ![k] = s] ELSE Append(ps, s)
        /\ tune' = Append(Replaced(p), "playing")
        /\ held' = (IF b THEN StillHeld(p) \union {t} ELSE StillHeld(p))
        /\ uaf' \in BOOLEAN /\ completing' = completing /\ UNCHANGED touch /\ calls' = calls + 1
    BY <1>6 DEF Play, Call
  <2> HIDE DEF ps, k, t, s
  <2>6. players' \in Seq(Player) /\ Len(players) <= Len(players')
    BY <2>3, <2>4, <2>5 DEF TunesType
  <2>7. tune' \in Seq(Fates) /\ held' \in SUBSET Nat
    BY <2>3, <2>5, StoppedIsTyped DEF Fates
  <2>8. TunesType'
    BY <2>5, <2>6, <2>7 DEF TunesType
  <2>9. QED
    BY <2>2, <2>5, <2>8 DEF touch, TouchInv, TouchIsForItsPin
<1>7. ASSUME NEW p \in AllPins, AbortAndWrite(p) PROVE Inv'
  BY <1>7, QueueKeepsPool, AbortKeepsTunes
     DEF AbortAndWrite, Call, touch, TouchInv, TouchIsForItsPin
<1>8. ASSUME NEW p \in AllPins, AbortAndDetach(p) PROVE Inv'
  BY <1>8, DetachKeepsPool, AbortKeepsTunes
     DEF AbortAndDetach, Call, touch, TouchInv, TouchIsForItsPin
<1>9. ASSUME NEW p \in AllPins, WriteAnalog(p) \/ WriteAnalogStop(p) PROVE Inv'
  <2>1. Queue("write", p) \/ Queue("stop", p)
    BY <1>9 DEF WriteAnalog, WriteAnalogStop
  <2>2. PoolInv'
    BY <2>1, QueueKeepsPool
  <2>3. calls' = calls + 1 /\ UNCHANGED <<touch, tunes>>
    BY <1>9 DEF WriteAnalog, WriteAnalogStop, Call
  <2>4. QED
    BY <2>2, <2>3 DEF touch, tunes, TouchInv, TouchIsForItsPin, TunesType
<1>10. ASSUME NEW p \in TouchPins, AddTouch(p) PROVE Inv'
  <2>1. PoolInv' /\ TunesType' /\ calls' \in Nat
    BY <1>10 DEF AddTouch, Call, pool, tunes, PoolInv, PoolType, Mirror, PoolIsPinned,
                 DriveIsExclusive, Image, TunesType
  <2> DEFINE i == First(FreeSlots)
  <2>2. i \in Slots /\ ~listeners[i].active
    BY <1>10, FirstIsIn, Constants DEF AddTouch, FreeSlots
  <2>3. /\ listeners' = [listeners EXCEPT ![i] = [active |-> TRUE, pin |-> p, touched |-> FALSE]]
        /\ isr' = [isr EXCEPT ![p] = i]
    BY <1>10 DEF AddTouch
  <2> HIDE DEF i
  <2>4. TouchInv'
    BY <2>2, <2>3, Constants DEF TouchInv, TouchIsForItsPin, Listener
  <2>5. QED
    BY <2>1, <2>4
<1>11. ASSUME NEW i \in Slots, Dispose(i) PROVE Inv'
  <2>1. PoolInv' /\ TunesType' /\ calls' \in Nat
    BY <1>11 DEF Dispose, Call, pool, tunes, PoolInv, PoolType, Mirror, PoolIsPinned,
                 DriveIsExclusive, Image, TunesType
  <2>2. QED
    BY <1>11, <2>1, RemoveKeepsTouch DEF Dispose
<1>12. ASSUME NEW p \in TouchPins, TouchIsr(p) PROVE Inv'
  <2>1. PoolInv' /\ TunesType' /\ calls' \in Nat
    BY <1>12 DEF TouchIsr, pool, tunes, PoolInv, PoolType, Mirror, PoolIsPinned,
                 DriveIsExclusive, Image, TunesType
  <2>2. TouchInv'
    <3> DEFINE i == isr[p]
               l == [listeners[i] EXCEPT !.touched = TRUE]
    <3>1. listeners' = [listeners EXCEPT ![i] = l] /\ isr' = isr
      BY <1>12 DEF TouchIsr
    <3>2. i \in Slots /\ listeners[i] \in Listener
      BY <1>12, ListenerOf DEF TouchIsr, TouchInv
    <3>3. l \in Listener /\ l.active = listeners[i].active /\ l.pin = listeners[i].pin
      BY <3>2 DEF Listener
    <3> HIDE DEF l
    <3>4. QED
      BY <3>1, <3>3 DEF TouchInv, TouchIsForItsPin
  <2>3. QED
    BY <2>1, <2>2
<1>13. ASSUME NEW p \in AllPins, PlayThrows(p) PROVE Inv'
  <2>1. PoolInv' /\ TouchInv' /\ calls' \in Nat
    BY <1>13 DEF PlayThrows, Call, pool, touch, PoolInv, PoolType, Mirror, PoolIsPinned,
                 DriveIsExclusive, Image, TouchInv, TouchIsForItsPin
  <2>2. TunesType'
    BY <1>13, StoppedIsTyped DEF PlayThrows, TunesType
  <2>3. QED
    BY <2>1, <2>2
<1>14. CASE UNCHANGED vars
  BY <1>14 DEF vars, pool, touch, tunes, PoolInv, PoolType, Mirror, PoolIsPinned,
               DriveIsExclusive, Image, TunesType, TouchInv, TouchIsForItsPin
<1>15. QED
  BY <1>1, <1>2, <1>3, <1>4, <1>5, <1>6, <1>7, <1>8, <1>9, <1>10, <1>11, <1>12, <1>13, <1>14
     DEF Next, Loop, Program

LEMMA Invariance ==
  Spec => []Inv
<1>1. Init => Inv
  BY InitInv
<1>2. Inv /\ [Next]_vars => Inv'
  BY NextInv
<1>3. QED
  BY <1>1, <1>2, PTL DEF Spec

(* Type correctness.                                                       *)
THEOREM AnalogTypeCorrect ==
  Spec => []TypeOK
<1>1. Inv => TypeOK
  BY DEF Inv, PoolInv, PoolType, TouchInv, TunesType, TypeOK
<1>2. QED
  BY <1>1, Invariance, PTL

(* The allocator, its table and the hardware agree at every moment, for    *)
(* any number of pins, channels and calls.                                 *)
THEOREM PoolNeverLosesOrShares ==
  Spec => []PoolIsPinned
<1>1. Inv => PoolIsPinned
  BY DEF Inv, PoolInv
<1>2. QED
  BY <1>1, Invariance, PTL

(* An interrupt never finds a listener of another pad.                     *)
THEOREM TouchFindsItsListener ==
  Spec => []TouchIsForItsPin
<1>1. Inv => TouchIsForItsPin
  BY DEF Inv, TouchInv
<1>2. QED
  BY <1>1, Invariance, PTL

-----------------------------------------------------------------------------
(* The callbacks of the tunes.                                             *)

(* What makes CallbacksHeld inductive: a player has the function of its    *)
(* own tune or none; the tunes of the players that are playing differ and  *)
(* are not done; a player that is not playing has a function only while    *)
(* that very function is running; and a function that no player has is     *)
(* that of a tune that is done.                                            *)
Owns(ps, t) == \E k \in 1..Len(ps) : ps[k].cb = t

CbOK(ps, tn, h, c) ==
  /\ \A k \in 1..Len(ps) : /\ ps[k].tune \in 1..Len(tn)
                           /\ ps[k].cb \in {0, ps[k].tune}
  /\ \A j, k \in 1..Len(ps) : ps[j].active /\ ps[k].active /\ ps[j].tune = ps[k].tune => j = k
  /\ \A k \in 1..Len(ps) : ps[k].active => tn[ps[k].tune] # "done"
  /\ \A k \in 1..Len(ps) : ~ps[k].active /\ ps[k].cb # 0 => c = k /\ tn[ps[k].tune] = "done"
  /\ h \subseteq 1..Len(tn)
  /\ \A k \in 1..Len(ps) : ps[k].cb # 0 => ps[k].cb \in h
  /\ \A t \in h : Owns(ps, t) \/ tn[t] = "done"

CbInv == CbOK(players, tune, held, completing)

(* The fate of a tune is set, and the length stays.                        *)
LEMMA SetFate ==
  ASSUME NEW tn \in Seq(Fates), NEW u \in 1..Len(tn), NEW f \in Fates
  PROVE  LET tn2 == [tn EXCEPT ![u] = f]
         IN  /\ tn2 \in Seq(Fates) /\ Len(tn2) = Len(tn)
             /\ \A t \in 1..Len(tn) : tn2[t] = IF t = u THEN f ELSE tn[t]
BY ExceptSeq

LEMMA SetPlayer ==
  ASSUME NEW ps \in Seq(Player), NEW k \in 1..Len(ps), NEW r \in Player
  PROVE  LET ps2 == [ps EXCEPT ![k] = r]
         IN  /\ ps2 \in Seq(Player) /\ Len(ps2) = Len(ps)
             /\ \A j \in 1..Len(ps) : ps2[j] = IF j = k THEN r ELSE ps[j]
BY ExceptSeq

(* playRTTTL stops what is on the pin: the function it frees is that of    *)
(* the tune it replaces.                                                   *)
LEMMA StopKeepsCb ==
  ASSUME TunesType, CbInv, NEW p
  PROVE  CbOK(Stopped(p), Replaced(p), StillHeld(p), completing)
<1>1. CASE Found(p) = {}
  BY <1>1 DEF Stopped, Replaced, StillHeld, CbInv
<1>2. CASE Found(p) # {}
  <2> DEFINE k == First(Found(p))
             r == [players[k] EXCEPT !.active = FALSE, !.aborted = TRUE, !.left = <<>>, !.cb = 0]
             u == players[k].tune
             ps == Stopped(p)
             tn == Replaced(p)
             h == StillHeld(p)
  <2>1. /\ k \in 1..Len(players) /\ players[k].active /\ players[k] \in Player
        /\ u \in 1..Len(tune) /\ tune[u] # "done"
    <3>1. Found(p) \in SUBSET Nat
      BY DEF Found, TunesType
    <3>2. k \in Found(p)
      BY <1>2, <3>1, FirstIsIn
    <3>3. k \in 1..Len(players) /\ players[k].active
      BY <3>2 DEF Found
    <3>4. QED
      BY <3>3, PlayerOf DEF CbInv, CbOK
  <2>2. ps = [players EXCEPT ![k] = r] /\ tn = [tune EXCEPT ![u] = "replaced"]
        /\ h = held \ {players[k].cb}
    BY <1>2 DEF Stopped, Replaced, StillHeld
  <2> HIDE DEF k, ps, tn, h
  <2>3. r \in Player /\ ~r.active /\ r.cb = 0 /\ r.tune = u
    <3>1. <<>> \in Seq(Notes)
      OBVIOUS
    <3>2. QED
      BY <2>1, <3>1 DEF Player
  <2> HIDE DEF r
  <2>4. /\ Len(ps) = Len(players)
        /\ \A j \in 1..Len(players) : ps[j] = IF j = k THEN r ELSE players[j]
    BY <2>1, <2>2, <2>3, SetPlayer DEF TunesType
  <2> HIDE DEF u
  <2>5. /\ Len(tn) = Len(tune)
        /\ \A t \in 1..Len(tune) : tn[t] = IF t = u THEN "replaced" ELSE tune[t]
    BY <2>1, <2>2, SetFate DEF TunesType, Fates
  <2>6. \A j \in 1..Len(ps) : ps[j].tune \in 1..Len(tn) /\ ps[j].cb \in {0, ps[j].tune}
    BY <2>1, <2>3, <2>4, <2>5 DEF CbInv, CbOK
  <2>7. \A i, j \in 1..Len(ps) : ps[i].active /\ ps[j].active /\ ps[i].tune = ps[j].tune => i = j
    BY <2>3, <2>4 DEF CbInv, CbOK
  <2>8. ASSUME NEW j \in 1..Len(ps), ps[j].active PROVE tn[ps[j].tune] # "done"
    <3>1. j \in 1..Len(players) /\ ps[j] = players[j]
      BY <2>3, <2>4, <2>8
    <3>2. players[j].tune \in 1..Len(tune) /\ tune[players[j].tune] # "done"
      BY <2>8, <3>1 DEF CbInv, CbOK
    <3>3. QED
      BY <2>5, <3>1, <3>2
  <2>9. ASSUME NEW j \in 1..Len(ps), ~ps[j].active, ps[j].cb # 0
        PROVE  completing = j /\ tn[ps[j].tune] = "done"
    <3>1. j \in 1..Len(players) /\ ps[j] = players[j]
      BY <2>3, <2>4, <2>9
    <3>2. completing = j /\ players[j].tune \in 1..Len(tune) /\ tune[players[j].tune] = "done"
      BY <2>9, <3>1 DEF CbInv, CbOK
    <3>3. QED
      BY <2>1, <2>5, <3>1, <3>2
  <2>10. h \subseteq 1..Len(tn)
    BY <2>2, <2>5 DEF CbInv, CbOK
(* No other player has the function that is freed.                         *)
  <2>11. ASSUME NEW j \in 1..Len(players), j # k, players[j].cb # 0
         PROVE  players[j].cb # players[k].cb
    <3>1. players[j].cb = players[j].tune
      BY <2>11 DEF CbInv, CbOK
    <3>2. players[k].cb # 0 => players[k].cb = u
      BY <2>1 DEF CbInv, CbOK, u
    <3>3. players[j].tune # u
      BY <2>1, <2>11 DEF CbInv, CbOK, u
    <3>4. QED
      BY <2>11, <3>1, <3>2, <3>3
  <2>12. \A j \in 1..Len(ps) : ps[j].cb # 0 => ps[j].cb \in h
    BY <2>2, <2>3, <2>4, <2>11 DEF CbInv, CbOK
  <2>13. ASSUME NEW t \in h PROVE Owns(ps, t) \/ tn[t] = "done"
    <3>1. t \in held /\ t # players[k].cb /\ t \in 1..Len(tune)
      BY <2>2 DEF CbInv, CbOK
    <3>2. CASE Owns(players, t)
      <4>1. PICK j \in 1..Len(players) : players[j].cb = t
        BY <3>2 DEF Owns
      <4>2. j \in 1..Len(ps) /\ ps[j].cb = t
        BY <2>4, <3>1, <4>1
      <4>3. QED
        BY <4>2 DEF Owns
    <3>3. CASE tune[t] = "done"
      BY <2>1, <2>5, <3>1, <3>3
    <3>4. QED
      BY <3>1, <3>2, <3>3 DEF CbInv, CbOK
  <2>14. QED
    BY <2>6, <2>7, <2>8, <2>9, <2>10, <2>12, <2>13 DEF CbOK, ps, tn, h
<1>3. QED
  BY <1>1, <1>2

(* playRTTTL puts a new tune on a player that is not playing, or on a new  *)
(* one.  A function that player still had is running and its tune done.    *)
LEMMA StartKeepsCb ==
  ASSUME NEW ps \in Seq(Player), NEW tn \in Seq(Fates), NEW h, NEW c, CbOK(ps, tn, h, c),
         NEW k \in Nat, k \in Idle(ps) \/ k = Len(ps) + 1,
         NEW s \in Player, s.active, s.tune = Len(tn) + 1, s.cb \in {0, s.tune},
         NEW h2, h2 = (IF s.cb = 0 THEN h ELSE h \union {s.cb}),
         NEW ps2, ps2 = IF k <= Len(ps) THEN [ps EXCEPT ![k] = s] ELSE Append(ps, s)
  PROVE  CbOK(ps2, Append(tn, "playing"), h2, c)
<1> DEFINE tn2 == Append(tn, "playing")
           n == Len(tn) + 1
<1>1. /\ Len(tn) \in Nat /\ Len(tn2) = n /\ tn2[n] = "playing"
      /\ \A t \in 1..Len(tn) : tn2[t] = tn[t] /\ t # n
  BY AppendProperties DEF Fates
<1>2. /\ Len(ps) \in Nat /\ Len(ps2) \in Nat /\ 1..Len(ps2) = 1..Len(ps) \union {k}
      /\ ps2[k] = s
      /\ \A j \in 1..Len(ps2) : j # k => j \in 1..Len(ps) /\ ps2[j] = ps[j]
      /\ \A j \in 1..Len(ps) : j # k => j \in 1..Len(ps2)
      /\ k \in 1..Len(ps) => ~ps[k].active
  <2>1. CASE k \in Idle(ps)
    <3>1. k \in 1..Len(ps) /\ ~ps[k].active /\ Len(ps) \in Nat
      BY <2>1 DEF Idle
    <3>2. ps2 = [ps EXCEPT ![k] = s]
      BY <3>1
    <3>3. QED
      BY <3>1, <3>2, SetPlayer
  <2>2. CASE k = Len(ps) + 1
    <3>1. ps2 = Append(ps, s) /\ Len(ps) \in Nat
      BY <2>2
    <3>2. Len(ps2) = Len(ps) + 1 /\ ps2[k] = s /\ \A j \in 1..Len(ps) : ps2[j] = ps[j]
      BY <2>2, <3>1, AppendProperties
    <3>3. QED
      BY <2>2, <3>1, <3>2
  <2>3. QED
    BY <2>1, <2>2
<1> HIDE DEF tn2, n
<1>3. s.tune = n /\ n \in 1..Len(tn2) /\ n # 0
  BY <1>1 DEF n
<1>4. \A j \in 1..Len(ps2) : ps2[j].tune \in 1..Len(tn2) /\ ps2[j].cb \in {0, ps2[j].tune}
  <2>1. \A t \in 1..Len(tn) : t \in 1..Len(tn2)
    BY <1>1 DEF n
  <2>2. QED
    BY <1>2, <1>3, <2>1 DEF CbOK
<1>5. \A i, j \in 1..Len(ps2) : ps2[i].active /\ ps2[j].active /\ ps2[i].tune = ps2[j].tune => i = j
  BY <1>1, <1>2, <1>3 DEF CbOK
<1>6. ASSUME NEW j \in 1..Len(ps2), ps2[j].active PROVE tn2[ps2[j].tune] # "done"
  <2>1. CASE j = k
    BY <1>1, <1>2, <1>3, <2>1
  <2>2. CASE j # k
    <3>1. ps[j].tune \in 1..Len(tn) /\ tn[ps[j].tune] # "done" /\ ps2[j] = ps[j]
      BY <1>2, <1>6, <2>2 DEF CbOK
    <3>2. QED
      BY <1>1, <3>1
  <2>3. QED
    BY <2>1, <2>2
<1>7. \A j \in 1..Len(ps2) : ~ps2[j].active /\ ps2[j].cb # 0 => c = j /\ tn2[ps2[j].tune] = "done"
  BY <1>1, <1>2 DEF CbOK
<1>8. h2 \subseteq 1..Len(tn2)
  <2>1. \A t \in 1..Len(tn) : t \in 1..Len(tn2)
    BY <1>1 DEF n
  <2>2. QED
    BY <1>3, <2>1 DEF CbOK
<1>9. \A j \in 1..Len(ps2) : ps2[j].cb # 0 => ps2[j].cb \in h2
  BY <1>2 DEF CbOK
<1>10. ASSUME NEW t \in h2 PROVE Owns(ps2, t) \/ tn2[t] = "done"
  <2>1. CASE t \notin h
    <3>1. ps2[k].cb = t /\ k \in 1..Len(ps2)
      BY <1>2, <2>1
    <3>2. QED
      BY <3>1 DEF Owns
  <2>2. ASSUME t \in h, NEW j \in 1..Len(ps), ps[j].cb = t PROVE Owns(ps2, t) \/ tn2[t] = "done"
    <3>1. t \in 1..Len(tn) /\ t # 0
      BY <1>1, <2>2 DEF CbOK
    <3>2. CASE j = k
      <4>1. tn[ps[j].tune] = "done" /\ ps[j].tune = t
        BY <1>2, <2>2, <3>1, <3>2 DEF CbOK
      <4>2. QED
        BY <1>1, <3>1, <4>1
    <3>3. CASE j # k
      <4>1. j \in 1..Len(ps2) /\ ps2[j].cb = t
        BY <1>2, <2>2, <3>3
      <4>2. QED
        BY <4>1 DEF Owns
    <3>4. QED
      BY <3>2, <3>3
  <2>3. CASE t \in h /\ tn[t] = "done"
    BY <1>1, <2>3 DEF CbOK
  <2>4. QED
    BY <2>1, <2>2, <2>3 DEF CbOK, Owns
<1>11. QED
  BY <1>4, <1>5, <1>6, <1>7, <1>8, <1>9, <1>10 DEF CbOK, tn2

LEMMA SlotForIsFree ==
  ASSUME NEW ps \in Seq(Player), NEW p
  PROVE  SlotFor(ps, p) \in Nat /\ (SlotFor(ps, p) \in Idle(ps) \/ SlotFor(ps, p) = Len(ps) + 1)
<1>1. Idle(ps) \in SUBSET Nat /\ IdleOn(ps, p) \in SUBSET Idle(ps) /\ Len(ps) \in Nat
  BY DEF Idle, IdleOn
<1>2. IdleOn(ps, p) # {} => First(IdleOn(ps, p)) \in Idle(ps)
  BY <1>1, FirstIsIn
<1>3. Idle(ps) # {} => First(Idle(ps)) \in Idle(ps)
  BY <1>1, FirstIsIn
<1>4. QED
  BY <1>1, <1>2, <1>3 DEF SlotFor

LEMMA PlayKeepsCb ==
  ASSUME TunesType, CbInv, NEW p \in AllPins, NEW n \in Tunes, NEW b \in BOOLEAN, Play(p, n, b)
  PROVE  CbInv'
<1> DEFINE ps == Stopped(p)
           k == SlotFor(ps, p)
           t == Len(tune) + 1
           s == [pin |-> p, active |-> TRUE, aborted |-> FALSE, left |-> n, tune |-> t,
                 cb |-> IF b THEN t ELSE 0]
<1>1. ps \in Seq(Player) /\ Replaced(p) \in Seq(Fates) /\ Len(Replaced(p)) = Len(tune)
  BY StoppedIsTyped
<1>2. CbOK(ps, Replaced(p), StillHeld(p), completing)
  BY StopKeepsCb
<1>3. k \in Nat /\ (k \in Idle(ps) \/ k = Len(ps) + 1)
  BY <1>1, SlotForIsFree
<1>4. /\ players' = (IF k <= Len(ps) THEN [ps EXCEPT ![k] = s] ELSE Append(ps, s))
      /\ tune' = Append(Replaced(p), "playing")
      /\ held' = (IF b THEN StillHeld(p) \union {t} ELSE StillHeld(p))
      /\ completing' = completing
  BY DEF Play
<1>5. t \in Nat /\ t # 0 /\ s \in Player
  <2>1. t \in Nat /\ t # 0
    BY DEF TunesType
  <2>2. QED
    BY <2>1, Constants DEF Player
<1>6. s.active /\ s.tune = Len(Replaced(p)) + 1 /\ s.cb \in {0, s.tune}
      /\ held' = (IF s.cb = 0 THEN StillHeld(p) ELSE StillHeld(p) \union {s.cb})
  BY <1>1, <1>4, <1>5
<1> HIDE DEF ps, k, t, s
<1>7. CbOK(players', tune', held', completing')
  BY <1>1, <1>2, <1>3, <1>4, <1>5, <1>6, StartKeepsCb
<1>8. QED
  BY <1>7 DEF CbInv, CbOK, Owns

(* The last note is over: the player keeps its function for the callback.  *)
LEMMA FinishKeepsCb ==
  ASSUME TunesType, CbInv, NEW k \in 1..Len(players), Finish(k)
  PROVE  CbInv'
<1> DEFINE r == [players[k] EXCEPT !.active = FALSE, !.left = <<>>]
           u == players[k].tune
<1>1. players[k] \in Player /\ players[k].active /\ completing = 0
      /\ u \in 1..Len(tune) /\ tune[u] # "done" /\ players[k].cb \in {0, u}
  BY PlayerOf DEF Finish, Ticking, CbInv, CbOK
<1>2. /\ players' = [players EXCEPT ![k] = r]
      /\ tune' = [tune EXCEPT ![u] = "done"]
      /\ completing' = (IF players[k].cb # 0 THEN k ELSE 0) /\ held' = held
  BY DEF Finish
<1>3. r \in Player /\ ~r.active /\ r.cb = players[k].cb /\ r.tune = u
  <2>1. <<>> \in Seq(Notes)
    OBVIOUS
  <2>2. QED
    BY <1>1, <2>1 DEF Player
<1> HIDE DEF r
<1>4. /\ Len(players') = Len(players)
      /\ \A j \in 1..Len(players) : players'[j] = IF j = k THEN r ELSE players[j]
  BY <1>2, <1>3, SetPlayer DEF TunesType
<1>5. /\ Len(tune') = Len(tune)
      /\ \A t \in 1..Len(tune) : tune'[t] = IF t = u THEN "done" ELSE tune[t]
  BY <1>1, <1>2, SetFate DEF TunesType, Fates
<1>6. \A j \in 1..Len(players) : j # k /\ players[j].active => players[j].tune # u
  BY <1>1 DEF CbInv, CbOK
<1> HIDE DEF u
<1>7. \A j \in 1..Len(players') : /\ players'[j].tune \in 1..Len(tune')
                                  /\ players'[j].cb \in {0, players'[j].tune}
  BY <1>1, <1>3, <1>4, <1>5 DEF CbInv, CbOK
<1>8. \A i, j \in 1..Len(players') :
        players'[i].active /\ players'[j].active /\ players'[i].tune = players'[j].tune => i = j
  BY <1>3, <1>4 DEF CbInv, CbOK
<1>9. \A j \in 1..Len(players') : players'[j].active => tune'[players'[j].tune] # "done"
  BY <1>3, <1>4, <1>5, <1>6 DEF CbInv, CbOK
<1>10. \A j \in 1..Len(players') : ~players'[j].active /\ players'[j].cb # 0 =>
         completing' = j /\ tune'[players'[j].tune] = "done"
  BY <1>1, <1>2, <1>3, <1>4, <1>5 DEF CbInv, CbOK
<1>11. held' \subseteq 1..Len(tune')
  BY <1>2, <1>5 DEF CbInv, CbOK
<1>12. \A j \in 1..Len(players') : players'[j].cb = players[j].cb
  BY <1>3, <1>4
<1>13. \A j \in 1..Len(players') : players'[j].cb # 0 => players'[j].cb \in held'
  BY <1>2, <1>4, <1>12 DEF CbInv, CbOK
<1>14. \A t \in held' : (\E j \in 1..Len(players') : players'[j].cb = t) \/ tune'[t] = "done"
  BY <1>2, <1>4, <1>5, <1>11, <1>12 DEF CbInv, CbOK, Owns
<1>15. QED
  BY <1>7, <1>8, <1>9, <1>10, <1>11, <1>13, <1>14 DEF CbInv, CbOK, Owns

(* The callback has returned: if its player was taken over meanwhile, it   *)
(* is the function of the new tune that is freed, and that tune dropped.   *)
LEMMA CompletedKeepsCb ==
  ASSUME TunesType, CbInv, Completed
  PROVE  CbInv'
<1> DEFINE k == completing
           r == [players[k] EXCEPT !.cb = 0, !.left = <<>>]
           u == players[k].tune
<1>1. k \in 1..Len(players) /\ players[k] \in Player
  <2>1. k \in 1..Len(players)
    BY DEF Completed, TunesType
  <2>2. QED
    BY <2>1, PlayerOf
<1>2. u \in 1..Len(tune) /\ players[k].cb \in {0, u} /\ (players[k].active => tune[u] # "done")
  BY <1>1 DEF CbInv, CbOK
<1>3. /\ players' = [players EXCEPT ![k] = r] /\ held' = held \ {players[k].cb}
      /\ completing' = 0
      /\ tune' = IF players[k].active THEN [tune EXCEPT ![u] = "dropped"] ELSE tune
  BY DEF Completed
<1>4. r \in Player /\ r.active = players[k].active /\ r.cb = 0 /\ r.tune = u
  <2>1. <<>> \in Seq(Notes)
    OBVIOUS
  <2>2. QED
    BY <1>1, <2>1 DEF Player
<1>5. \A j \in 1..Len(players) : j # k /\ ~players[j].active => players[j].cb = 0
  BY DEF CbInv, CbOK
<1> HIDE DEF r, k
<1>6. /\ Len(players') = Len(players)
      /\ \A j \in 1..Len(players) : players'[j] = IF j = k THEN r ELSE players[j]
  BY <1>1, <1>3, <1>4, SetPlayer DEF TunesType
<1> HIDE DEF u
<1>7. /\ Len(tune') = Len(tune)
      /\ \A t \in 1..Len(tune) :
           tune'[t] = IF t = u /\ players[k].active THEN "dropped" ELSE tune[t]
  <2>1. "dropped" \in Fates /\ tune \in Seq(Fates)
    BY DEF TunesType, Fates
  <2>2. CASE players[k].active
    BY <1>2, <1>3, <2>1, <2>2, SetFate
  <2>3. CASE ~players[k].active
    BY <1>3, <2>3
  <2>4. QED
    BY <2>2, <2>3
<1>8. \A j \in 1..Len(players') : /\ players'[j].tune \in 1..Len(tune')
                                  /\ players'[j].cb \in {0, players'[j].tune}
  BY <1>2, <1>4, <1>6, <1>7 DEF CbInv, CbOK
<1>9. \A i, j \in 1..Len(players') :
        players'[i].active /\ players'[j].active /\ players'[i].tune = players'[j].tune => i = j
  BY <1>1, <1>4, <1>6 DEF CbInv, CbOK, u
<1>10. \A j \in 1..Len(players') : players'[j].active => tune'[players'[j].tune] # "done"
  BY <1>2, <1>4, <1>6, <1>7 DEF CbInv, CbOK
<1>11. \A j \in 1..Len(players') : ~players'[j].active => players'[j].cb = 0
  BY <1>4, <1>5, <1>6
<1>12. held' \subseteq 1..Len(tune')
  BY <1>3, <1>7 DEF CbInv, CbOK
(* No other player has the function that is freed.                         *)
<1>13. ASSUME NEW j \in 1..Len(players), j # k, players[j].cb # 0
       PROVE  players[j].cb # players[k].cb
  <2>1. players[j].active /\ players[j].cb = players[j].tune /\ tune[players[j].tune] # "done"
    BY <1>5, <1>13 DEF CbInv, CbOK
  <2>2. ASSUME players[k].cb = players[j].cb PROVE FALSE
    <3>1. players[k].cb # 0 /\ u = players[j].tune
      BY <1>2, <1>13, <2>1, <2>2
    <3>2. ~players[k].active
      BY <1>1, <1>13, <2>1, <3>1 DEF CbInv, CbOK, u
    <3>3. tune[u] = "done"
      BY <1>1, <3>1, <3>2 DEF CbInv, CbOK, u
    <3>4. QED
      BY <2>1, <3>1, <3>3
  <2>3. QED
    BY <2>2
<1>14. \A j \in 1..Len(players') : players'[j].cb # 0 => players'[j].cb \in held'
  BY <1>3, <1>4, <1>6, <1>13 DEF CbInv, CbOK
<1>15. ASSUME NEW t \in held'
       PROVE  (\E j \in 1..Len(players') : players'[j].cb = t) \/ tune'[t] = "done"
  <2>1. t \in held /\ t # players[k].cb /\ t \in 1..Len(tune)
    BY <1>3 DEF CbInv, CbOK
  <2>2. CASE Owns(players, t)
    <3>1. PICK j \in 1..Len(players) : players[j].cb = t
      BY <2>2 DEF Owns
    <3>2. j \in 1..Len(players') /\ players'[j].cb = t
      BY <1>6, <2>1, <3>1
    <3>3. QED
      BY <3>2
  <2>3. CASE tune[t] = "done"
    BY <1>2, <1>7, <2>1, <2>3
  <2>4. QED
    BY <2>1, <2>2, <2>3 DEF CbInv, CbOK
<1>16. QED
  BY <1>3, <1>8, <1>9, <1>10, <1>11, <1>12, <1>14, <1>15 DEF CbInv, CbOK, Owns

(* A step that changes only notes and marks of the players.                *)
LEMMA MarkKeepsCb ==
  ASSUME CbInv, UNCHANGED <<tune, held, completing>>, Len(players') = Len(players),
         \A j \in 1..Len(players) :
           /\ players'[j].tune = players[j].tune /\ players'[j].cb = players[j].cb
           /\ players'[j].active = players[j].active
  PROVE  CbInv'
<1>1. /\ \A k \in 1..Len(players') : /\ players'[k].tune \in 1..Len(tune')
                                     /\ players'[k].cb \in {0, players'[k].tune}
      /\ \A k \in 1..Len(players') : players'[k].active => tune'[players'[k].tune] # "done"
      /\ held' \subseteq 1..Len(tune')
      /\ \A k \in 1..Len(players') : players'[k].cb # 0 => players'[k].cb \in held'
  BY DEF CbInv, CbOK
<1>2. ASSUME NEW j \in 1..Len(players'), NEW k \in 1..Len(players'),
             players'[j].active, players'[k].active, players'[j].tune = players'[k].tune
      PROVE  j = k
  BY <1>2 DEF CbInv, CbOK
<1>3. \A k \in 1..Len(players') : ~players'[k].active /\ players'[k].cb # 0 =>
        completing' = k /\ tune'[players'[k].tune] = "done"
  BY DEF CbInv, CbOK
<1>4. \A t \in held' : (\E k \in 1..Len(players') : players'[k].cb = t) \/ tune'[t] = "done"
  BY DEF CbInv, CbOK, Owns
<1>5. QED
  BY <1>1, <1>2, <1>3, <1>4 DEF CbInv, CbOK, Owns

LEMMA NextNoteKeepsCb ==
  ASSUME TunesType, CbInv, NEW k \in 1..Len(players), NextNote(k)
  PROVE  CbInv'
<1> DEFINE r == [players[k] EXCEPT !.left = Tail(players[k].left)]
<1>1. /\ players' = [players EXCEPT ![k] = r] /\ UNCHANGED <<tune, held, completing>>
      /\ Len(players[k].left) > 1
  BY DEF NextNote
<1>2. /\ r \in Player /\ r.tune = players[k].tune /\ r.cb = players[k].cb
      /\ r.active = players[k].active
  <2>1. players[k] \in Player /\ players[k].left \in Seq(Notes)
    BY PlayerOf
  <2>2. players[k].left # <<>>
    <3>1. Len(<<>>) = 0
      OBVIOUS
    <3>2. QED
      BY <1>1, <3>1
  <2>3. QED
    BY <2>1, <2>2, HeadTailProperties DEF Player
<1> HIDE DEF r
<1>3. /\ Len(players') = Len(players)
      /\ \A j \in 1..Len(players) : players'[j] = IF j = k THEN r ELSE players[j]
  BY <1>1, <1>2, SetPlayer DEF TunesType
<1>4. QED
  BY <1>1, <1>2, <1>3, MarkKeepsCb

LEMMA AbortKeepsCb ==
  ASSUME TunesType, CbInv, NEW p \in AllPins, Abort(p), UNCHANGED <<completing, tune, held>>
  PROVE  CbInv'
<1>1. CASE Found(p) = {}
  BY <1>1, MarkKeepsCb DEF Abort
<1>2. CASE Found(p) # {}
  <2> DEFINE k == First(Found(p))
             r == [players[k] EXCEPT !.aborted = TRUE]
  <2>1. k \in 1..Len(players)
    <3>1. Found(p) \in SUBSET Nat /\ Found(p) \subseteq 1..Len(players)
      BY DEF Found, TunesType
    <3>2. QED
      BY <1>2, <3>1, FirstIsIn
  <2>2. players' = [players EXCEPT ![k] = r]
    BY <1>2 DEF Abort
  <2> HIDE DEF k
  <2>3. /\ r \in Player /\ r.tune = players[k].tune /\ r.cb = players[k].cb
        /\ r.active = players[k].active
    <3>1. players[k] \in Player
      BY <2>1, PlayerOf
    <3>2. QED
      BY <3>1 DEF Player
  <2> HIDE DEF r
  <2>4. /\ Len(players') = Len(players)
        /\ \A j \in 1..Len(players) : players'[j] = IF j = k THEN r ELSE players[j]
    BY <2>1, <2>2, <2>3, SetPlayer DEF TunesType
  <2>5. QED
    BY <2>3, <2>4, MarkKeepsCb
<1>3. QED
  BY <1>1, <1>2

LEMMA NextCbInv ==
  ASSUME Inv, CbInv, [Next]_vars
  PROVE  CbInv'
<1>1. TunesType
  BY DEF Inv
<1>2. ASSUME UNCHANGED tunes PROVE CbInv'
  BY <1>2 DEF tunes, CbInv, CbOK, Owns
<1>3. ASSUME NEW k \in 1..Len(players), NextNote(k) \/ Finish(k) PROVE CbInv'
  BY <1>1, <1>3, NextNoteKeepsCb, FinishKeepsCb
<1>4. ASSUME NEW p \in AllPins, NEW n \in Tunes, NEW b \in BOOLEAN, Play(p, n, b) PROVE CbInv'
  BY <1>1, <1>4, PlayKeepsCb
<1>5. ASSUME NEW p \in AllPins, PlayThrows(p) PROVE CbInv'
  <2>1. CbOK(Stopped(p), Replaced(p), StillHeld(p), completing)
    BY <1>1, StopKeepsCb
  <2>2. CbOK(players', tune', held', completing')
    BY <1>5, <2>1 DEF PlayThrows
  <2>3. QED
    BY <2>2 DEF CbInv, CbOK, Owns
<1>6. ASSUME NEW p \in AllPins, AbortAndWrite(p) \/ AbortAndDetach(p) PROVE CbInv'
  BY <1>1, <1>6, AbortKeepsCb DEF AbortAndWrite, AbortAndDetach
<1>7. CASE LoopWrite \/ UNCHANGED vars
  BY <1>2, <1>7 DEF LoopWrite, vars
<1>8. ASSUME NEW p \in AllPins, WriteAnalog(p) \/ WriteAnalogStop(p) PROVE CbInv'
  BY <1>2, <1>8 DEF WriteAnalog, WriteAnalogStop
<1>9. ASSUME NEW p \in TouchPins, AddTouch(p) \/ TouchIsr(p) PROVE CbInv'
  BY <1>2, <1>9 DEF AddTouch, TouchIsr
<1>10. ASSUME NEW i \in Slots, Dispose(i) \/ DispatchTouch(i) PROVE CbInv'
  BY <1>2, <1>10 DEF Dispose, DispatchTouch
<1>11. CASE Completed
  BY <1>1, <1>11, CompletedKeepsCb
<1>12. QED
  BY <1>3, <1>4, <1>5, <1>6, <1>7, <1>8, <1>9, <1>10, <1>11 DEF Next, Loop, Program

(* The function given to a tune is referenced exactly until its player has *)
(* called or freed it, except that of a tune replaced from within its own  *)
(* callback; and no two players ever have the same one.                    *)
THEOREM CallbacksAreHeld ==
  Spec => []CallbacksHeld
<1>1. Init => CbInv
  BY EmptySeq DEF Init, CbInv, CbOK
<1>2. Inv /\ CbInv /\ [Next]_vars => CbInv'
  BY NextCbInv
<1>3. CbInv => CallbacksHeld
  <2> SUFFICES ASSUME CbInv PROVE CallbacksHeld
    OBVIOUS
  <2>1. Owned \subseteq held
    BY DEF Owned, CbInv, CbOK
  <2>2. \A t \in held \ Owned : tune[t] = "done"
    <3>1. 0 \notin held
      BY DEF CbInv, CbOK
    <3>2. QED
      BY <3>1 DEF Owned, CbInv, CbOK, Owns
  <2>3. ASSUME NEW j \in 1..Len(players), NEW k \in 1..Len(players),
               players[j].cb = players[k].cb, j # k
        PROVE  players[j].cb = 0
    BY <2>3 DEF CbInv, CbOK
  <2>4. QED
    BY <2>1, <2>2, <2>3 DEF CallbacksHeld
<1>4. QED
  BY <1>1, <1>2, <1>3, Invariance, PTL DEF Spec
=============================================================================
