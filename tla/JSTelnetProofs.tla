--------------------------- MODULE JSTelnetProofs ---------------------------
(***************************************************************************)
(* Theorems about JSTelnet, for any clients, lines typed, buffer size and  *)
(* nesting of commands.                                                    *)
(***************************************************************************)
EXTENDS JSTelnet, FiniteSetTheorems, SequenceTheorems, WellFoundedInduction, TLAPS

(* A nonempty set of numbers has a first one, and nothing is before it.    *)
LEMMA FirstIs ==
  ASSUME NEW S \in SUBSET Nat, S # {}
  PROVE  First(S) \in S /\ \A j \in S : First(S) <= j
<1> DEFINE R == OpToRel(<, Nat)
<1>1. IsWellFoundedOn(R, Nat)
  BY NatLessThanWellFounded
<1>2. \A j, i \in Nat : j < i => <<j, i>> \in R
  BY DEF OpToRel
<1> HIDE DEF R
<1>3. \E i \in S : \A j \in S : ~ (<<j, i>> \in R)
  BY <1>1, WFMin, Zenon
<1>4. PICK i \in S : \A j \in S : ~ (<<j, i>> \in R)
  BY <1>3
<1>5. ASSUME NEW j \in S PROVE i <= j
  <2>1. i \in Nat /\ j \in Nat
    OBVIOUS
  <2>2. ~(j < i)
    BY <1>2, <1>4, <2>1
  <2>3. QED
    BY <2>1, <2>2
<1>6. QED
  BY <1>5 DEF First

LEMMA Constants ==
  /\ IsFiniteSet(Clients) /\ Cardinality(Clients) \in Nat /\ None \notin Clients
  /\ Ids \subseteq Nat /\ 0 \notin Ids
  /\ Size \in Nat
  /\ \A c \in Clients \union {None} : Typed[c] \in Seq(Nat \ {0})
<1>1. IsFiniteSet(Clients) /\ Cardinality(Clients) \in Nat
  BY TelnetAssumption, FS_CardinalityType
<1>2. QED
  BY <1>1, TelnetAssumption DEF Ids

LEMMA SeqPieces ==
  ASSUME NEW s \in Seq(Nat)
  PROVE  s \in Seq(Pieces)
<1>1. Len(s) \in Nat /\ \A k \in 1..Len(s) : s[k] \in Pieces
  BY ElementOfSeq, LenProperties DEF Pieces
<1>2. s = [k \in 1..Len(s) |-> s[k]]
  BY LenProperties
<1>3. QED
  BY <1>1, <1>2

-----------------------------------------------------------------------------
(* The activations.                                                        *)

LEMMA FrameOf ==
  ASSUME NEW fs \in Seq(Frame), NEW k \in 1..Len(fs)
  PROVE  /\ fs[k] \in Frame /\ fs[k].at \in Nat /\ fs[k].i \in Nat /\ fs[k].rem \in Nat
         /\ fs[k].at \in Ids \union {Serial}
<1>1. fs[k] \in Frame
  BY ElementOfSeq
<1>2. fs[k].at \in Ids \union {Serial} /\ fs[k].i \in Nat /\ fs[k].rem \in Nat
  BY <1>1 DEF Frame
<1>3. Ids \union {Serial} \subseteq Nat
  BY Constants DEF Serial
<1>4. QED
  BY <1>1, <1>2, <1>3

LEMMA TopIs ==
  ASSUME frames \in Seq(Frame), frames # <<>>
  PROVE  /\ Len(frames) \in Nat \ {0} /\ Len(frames) \in 1..Len(frames)
         /\ Top = frames[Len(frames)] /\ Top \in Frame
<1>1. Len(frames) \in Nat \ {0}
  BY EmptySeq
<1>2. QED
  BY <1>1, FrameOf DEF Top

LEMMA EnterIs ==
  ASSUME frames \in Seq(Frame), NEW f \in Frame, Enter(f)
  PROVE  /\ frames' \in Seq(Frame) /\ Len(frames) \in Nat
         /\ Len(frames') = Len(frames) + 1
         /\ \A k \in 1..Len(frames) : frames'[k] = frames[k]
         /\ frames'[Len(frames) + 1] = f
BY AppendProperties DEF Enter

LEMMA GotoIs ==
  ASSUME frames \in Seq(Frame), frames # <<>>, NEW f \in Frame, Goto(f)
  PROVE  /\ frames' \in Seq(Frame) /\ Len(frames) \in Nat \ {0}
         /\ Len(frames') = Len(frames)
         /\ \A k \in 1..Len(frames) : frames'[k] = IF k = Len(frames) THEN f ELSE frames[k]
BY TopIs, ExceptSeq DEF Goto

LEMMA ReturnIs ==
  ASSUME frames \in Seq(Frame), frames # <<>>, Return
  PROVE  /\ frames' \in Seq(Frame) /\ Len(frames) \in Nat \ {0}
         /\ Len(frames') = Len(frames) - 1
         /\ \A k \in 1..Len(frames) - 1 : frames'[k] = frames[k]
<1> DEFINE n == Len(frames) - 1
<1>1. n \in Nat /\ Len(frames) \in Nat \ {0} /\ \A i \in 1..n : frames[i] \in Frame
  BY TopIs, FrameOf
<1>2. frames' = SubSeq(frames, 1, n)
  BY DEF Return
<1> HIDE DEF n
<1>3. /\ frames' \in Seq(Frame) /\ Len(frames') = n
      /\ \A i \in 1..n : frames'[i] = frames[i]
  BY <1>1, <1>2, SubSeqProperties
<1>4. QED
  BY <1>1, <1>3 DEF n

(* Only the innermost activation does anything but wait in a command; the  *)
(* Serial line runs at the bottom; no activation is at an id not given.    *)
FramesOK ==
  \A k \in 1..Len(frames) :
    LET f == frames[k]
    IN /\ k < Len(frames) => f.pc = "run"
       /\ f.pc \in {"accept", "pop"} => f.at = Serial
       /\ f.pc \in {"handle", "store"} => f.at # Serial
       /\ f.pc \in {"accept", "pop", "handle"} => f.i = 0
       /\ f.pc = "run" /\ f.at = Serial => k = 1
       /\ f.at <= counter

(* What is to be moved down is still in the buffer.                        *)
StoreOK ==
  frames # <<>> /\ Top.pc = "store" /\ live[Top.at] # None =>
    Top.i + Top.rem <= Len(buf[Top.at])

(* An id that was not given out is nobody's.                               *)
FreshOK == \A id \in Ids : live[id] # None => id <= counter

(* What runs has no end of string in it.                                   *)
RunsOK == ran \in [Clients \union {None} -> Seq(Nat)] /\ line \in Seq(Nat)

Base == TypeOK /\ FramesOK /\ StoreOK /\ FreshOK /\ RunsOK

LEMMA PieceIs ==
  ASSUME NEW c \in Clients \union {None}, NEW k \in Nat, More(c, k)
  PROVE  /\ Piece(c, k + 1) \in Nat
         /\ \/ Piece(c, k + 1) = NL
            \/ \E m \in 1..Len(Typed[c]) : k + 1 = 2 * m - 1 /\ Piece(c, k + 1) = Typed[c][m]
<1>1. Typed[c] \in Seq(Nat \ {0}) /\ Len(Typed[c]) \in Nat
  BY Constants
<1>2. CASE (k + 1) % 2 = 1
  <2>1. PICK m \in Nat : k + 1 = 2 * m - 1 /\ m = (k + 1 + 1) \div 2
    BY <1>2
  <2>2. m \in 1..Len(Typed[c])
    BY <1>1, <2>1 DEF More
  <2>3. Piece(c, k + 1) = Typed[c][m]
    BY <1>2, <2>1 DEF Piece
  <2>4. Typed[c][m] \in Nat
    BY <1>1, <2>2
  <2>5. QED
    BY <2>1, <2>2, <2>3, <2>4
<1>3. CASE (k + 1) % 2 # 1
  BY <1>3 DEF Piece, NL
<1>4. QED
  BY <1>2, <1>3

(* A delivery appends a piece, or drops it.                                *)
LEMMA FitIs ==
  ASSUME NEW S, NEW b \in Seq(S), NEW p \in S
  PROVE  /\ Fit(b, p) \in Seq(S) /\ Len(b) \in Nat /\ Len(Fit(b, p)) \in Nat
         /\ Len(b) <= Len(Fit(b, p)) /\ Len(Fit(b, p)) <= Len(b) + 1
         /\ \A k \in 1..Len(b) : Fit(b, p)[k] = b[k]
         /\ \A k \in 1..Len(Fit(b, p)) : k \notin 1..Len(b) => k = Len(b) + 1 /\ Fit(b, p)[k] = p
<1>1. /\ Append(b, p) \in Seq(S) /\ Len(b) \in Nat /\ Len(Append(b, p)) = Len(b) + 1
      /\ \A k \in 1..Len(b) : Append(b, p)[k] = b[k]
      /\ Append(b, p)[Len(b) + 1] = p
  BY AppendProperties
<1>2. CASE Fit(b, p) = Append(b, p)
  BY <1>1, <1>2
<1>3. CASE Fit(b, p) = b
  BY <1>1, <1>3
<1>4. QED
  BY <1>2, <1>3 DEF Fit

-----------------------------------------------------------------------------
(* The types and the activations, step by step.                            *)

(* A frame the steps below put on top.                                     *)
FrameOK(f, c) ==
  /\ f.pc \in {"accept", "pop"} => f.at = Serial
  /\ f.pc \in {"handle", "store"} => f.at # Serial
  /\ f.pc \in {"accept", "pop", "handle"} => f.i = 0
  /\ f.at <= c

LEMMA EnterKeeps ==
  ASSUME frames \in Seq(Frame), FramesOK, NEW f \in Frame, Enter(f), FrameOK(f, counter),
         frames # <<>> => Top.pc = "run",
         f.pc = "run" /\ f.at = Serial => frames = <<>>, counter' = counter
  PROVE  FramesOK'
<1>1. /\ Len(frames) \in Nat /\ Len(frames') = Len(frames) + 1
      /\ \A k \in 1..Len(frames) : frames'[k] = frames[k]
      /\ frames'[Len(frames) + 1] = f
  BY EnterIs
<1>2. frames # <<>> => frames[Len(frames)].pc = "run"
  BY DEF Top
<1>3. frames = <<>> => Len(frames) = 0
  BY EmptySeq
<1>4. ASSUME NEW k \in 1..Len(frames')
      PROVE  LET g == frames'[k]
             IN /\ k < Len(frames') => g.pc = "run"
                /\ g.pc \in {"accept", "pop"} => g.at = Serial
                /\ g.pc \in {"handle", "store"} => g.at # Serial
                /\ g.pc \in {"accept", "pop", "handle"} => g.i = 0
                /\ g.pc = "run" /\ g.at = Serial => k = 1
                /\ g.at <= counter'
  <2>1. CASE k = Len(frames) + 1
    BY <1>1, <1>3, <2>1 DEF FrameOK
  <2>2. CASE k \in 1..Len(frames)
    <3>1. k = Len(frames) \/ k < Len(frames)
      BY <1>1, <2>2
    <3>2. frames # <<>>
      BY <1>3, <2>2
    <3>3. QED
      BY <1>1, <1>2, <2>2, <3>1, <3>2 DEF FramesOK
  <2>3. QED
    BY <1>1, <2>1, <2>2
<1>5. QED
  BY <1>4 DEF FramesOK

LEMMA GotoKeeps ==
  ASSUME frames \in Seq(Frame), frames # <<>>, FramesOK, NEW f \in Frame, Goto(f),
         counter' \in Nat, counter \in Nat, counter <= counter', FrameOK(f, counter'),
         f.pc = "run" => f.at # Serial
  PROVE  FramesOK'
<1>1. /\ Len(frames) \in Nat \ {0} /\ Len(frames') = Len(frames)
      /\ \A k \in 1..Len(frames) : frames'[k] = IF k = Len(frames) THEN f ELSE frames[k]
  BY GotoIs
<1>2. \A k \in 1..Len(frames) : frames[k].at \in Nat
  BY FrameOf
<1>3. ASSUME NEW k \in 1..Len(frames')
      PROVE  LET g == frames'[k]
             IN /\ k < Len(frames') => g.pc = "run"
                /\ g.pc \in {"accept", "pop"} => g.at = Serial
                /\ g.pc \in {"handle", "store"} => g.at # Serial
                /\ g.pc \in {"accept", "pop", "handle"} => g.i = 0
                /\ g.pc = "run" /\ g.at = Serial => k = 1
                /\ g.at <= counter'
  <2>1. CASE k = Len(frames)
    BY <1>1, <2>1 DEF FrameOK
  <2>2. CASE k # Len(frames)
    <3>1. frames'[k] = frames[k] /\ k \in 1..Len(frames) /\ frames[k].at <= counter
      BY <1>1, <2>2 DEF FramesOK
    <3>2. frames[k].at <= counter'
      BY <1>2, <3>1
    <3>3. QED
      BY <1>1, <3>1, <3>2 DEF FramesOK
  <2>3. QED
    BY <2>1, <2>2
<1>4. QED
  BY <1>3 DEF FramesOK

LEMMA ReturnKeeps ==
  ASSUME frames \in Seq(Frame), frames # <<>>, FramesOK, Return, counter' = counter
  PROVE  FramesOK' /\ (frames' # <<>> => Top'.pc = "run")
<1>1. /\ frames' \in Seq(Frame) /\ Len(frames) \in Nat \ {0} /\ Len(frames') = Len(frames) - 1
      /\ \A k \in 1..Len(frames) - 1 : frames'[k] = frames[k]
  BY ReturnIs
<1>2. FramesOK'
  BY <1>1 DEF FramesOK
<1>3. ASSUME frames' # <<>> PROVE Top'.pc = "run"
  <2>1. Len(frames') \in 1..Len(frames) - 1
    BY <1>1, <1>3, EmptySeq
  <2>2. Top' = frames[Len(frames')] /\ Len(frames') < Len(frames)
    BY <1>1, <2>1 DEF Top
  <2>3. QED
    BY <1>1, <2>1, <2>2 DEF FramesOK
<1>4. QED
  BY <1>2, <1>3

(* The loop goes on to an entry there is, or out.                          *)
LEMMA GoOnIs ==
  ASSUME Base, frames # <<>>, Top.pc \in {"accept", "handle"}, GoOn, counter' = counter
  PROVE  /\ frames' \in Seq(Frame) /\ FramesOK'
         /\ \/ Return /\ (frames' # <<>> => Top'.pc = "run")
            \/ \E id \in Ids : /\ live[id] # None
                               /\ Goto([Top EXCEPT !.pc = "handle", !.at = id])
                               /\ [Top EXCEPT !.pc = "handle", !.at = id] \in Frame
                               /\ Top' = [Top EXCEPT !.pc = "handle", !.at = id]
<1> DEFINE rest == {id \in Ids : id > Top.at /\ live[id] # None}
<1>1. frames \in Seq(Frame) /\ FramesOK /\ FreshOK /\ counter \in Nat
  BY DEF Base, TypeOK
<1>2. CASE rest = {} /\ Return
  BY <1>1, <1>2, ReturnIs, ReturnKeeps
<1>3. CASE rest # {} /\ Goto([Top EXCEPT !.pc = "handle", !.at = First(rest)])
  <2>1. First(rest) \in rest
    BY <1>3, Constants, FirstIs
  <2>2. PICK id \in Ids : id = First(rest) /\ live[id] # None
    BY <2>1
  <2> DEFINE f == [Top EXCEPT !.pc = "handle", !.at = id]
  <2>3. Top \in Frame /\ Top = frames[Len(frames)] /\ Len(frames) \in 1..Len(frames)
    BY <1>1, TopIs
  <2>4. f \in Frame /\ f.pc = "handle" /\ f.at = id /\ f.i = Top.i
    BY <2>3 DEF Frame
  <2>5. Goto(f)
    BY <1>3, <2>2
  <2> HIDE DEF f
  <2>6. FrameOK(f, counter)
    <3>1. Top.i = 0
      BY <1>1, <2>3 DEF FramesOK
    <3>2. id <= counter /\ id # Serial
      BY <1>1, <2>2, Constants DEF FreshOK, Serial
    <3>3. QED
      BY <2>4, <3>1, <3>2 DEF FrameOK
  <2>7. frames' \in Seq(Frame) /\ FramesOK'
    BY <1>1, <2>4, <2>5, <2>6, GotoIs, GotoKeeps
  <2>8. Top' = f
    BY <1>1, <2>4, <2>5, GotoIs DEF Top
  <2>9. QED
    BY <2>2, <2>4, <2>5, <2>7, <2>8 DEF f
<1>4. QED
  BY <1>2, <1>3 DEF GoOn

LEMMA InitBase == Init => Base
<1> SUFFICES ASSUME Init PROVE Base
  OBVIOUS
<1>1. Len(<<>>) = 0 /\ \A S : <<>> \in Seq(S)
  BY EmptySeq
<1>2. frames = <<>> /\ incoming = <<>> /\ line = <<>> /\ live = [id \in Ids |-> None]
  BY DEF Init
<1>3. TypeOK
  BY <1>1 DEF Init, TypeOK
<1>4. FramesOK /\ StoreOK /\ FreshOK
  BY <1>1, <1>2 DEF FramesOK, StoreOK, FreshOK
<1>5. RunsOK
  BY <1>1 DEF Init, RunsOK
<1>6. QED
  BY <1>3, <1>4, <1>5 DEF Base

(* A step after which nothing is to be moved down.                         *)
LEMMA NoStore ==
  ASSUME frames' # <<>> => Top'.pc # "store"
  PROVE  StoreOK'
BY DEF StoreOK

(* The steps that change the activations and nothing else of Base.         *)
LEMMA OnlyFrames ==
  ASSUME Base, frames' \in Seq(Frame), FramesOK', StoreOK',
         UNCHANGED <<tcp, maps, buf, line, ran, again, lost, shifted>>,
         raced' \in BOOLEAN, uaf' \in BOOLEAN
  PROVE  Base'
<1>1. TypeOK'
  BY DEF Base, TypeOK, tcp, maps
<1>2. FreshOK' /\ RunsOK'
  BY DEF Base, FreshOK, RunsOK, maps
<1>3. QED
  BY <1>1, <1>2 DEF Base

LEMMA MisuseBase ==
  ASSUME Base, Misuse
  PROVE  Base'
<1>1. TypeOK' /\ FramesOK' /\ StoreOK' /\ FreshOK' /\ RunsOK'
  BY DEF Base, Misuse, TypeOK, FramesOK, StoreOK, FreshOK, RunsOK, tcp, maps, history, Top
<1>2. QED
  BY <1>1 DEF Base

LEMMA ConnectBase ==
  ASSUME Base, NEW c \in Clients, Connect(c)
  PROVE  Base'
<1>1. TypeOK'
  <2>1. net' \in [Clients -> {"new", "up", "cut", "gone"}]
    BY DEF Base, TypeOK, Connect
  <2>2. incoming' \in Seq(Clients)
    BY DEF Base, TypeOK, Connect
  <2>3. raced' \in BOOLEAN
    BY DEF Base, TypeOK, Connect, At
  <2>4. QED
    BY <2>1, <2>2, <2>3 DEF Base, TypeOK, Connect, history
<1>2. FramesOK' /\ StoreOK' /\ FreshOK' /\ RunsOK'
  BY DEF Base, Connect, FramesOK, StoreOK, FreshOK, RunsOK, history, Top
<1>3. QED
  BY <1>1, <1>2 DEF Base

(* What arrives goes to the end of a buffer, or nowhere.                   *)
LEMMA DataIs ==
  ASSUME Base, NEW c \in Clients, Data(c)
  PROVE  /\ sent[c] \in Nat /\ sent' = [sent EXCEPT ![c] = sent[c] + 1] /\ net[c] = "up"
         /\ UNCHANGED <<net, keys, maps, line, frames, ran, again, shifted, uaf>>
         /\ \/ buf' = buf
            \/ \E id \in Ids :
                 /\ live[id] = c /\ \A j \in Ids : live[j] = c => id <= j
                 /\ buf' = [buf EXCEPT ![id] = Fit(buf[id], Piece(c, sent[c] + 1))]
<1>1. /\ sent[c] \in Nat /\ sent' = [sent EXCEPT ![c] = sent[c] + 1] /\ net[c] = "up"
      /\ UNCHANGED <<net, keys, maps, line, frames, ran, again, shifted, uaf>>
      /\ sent'[c] = sent[c] + 1
  BY DEF Base, TypeOK, Data
<1>2. CASE IdsOf(c) = {}
  BY <1>1, <1>2 DEF Data
<1>3. CASE IdsOf(c) # {}
  <2> DEFINE id == First(IdsOf(c))
  <2>1. id \in IdsOf(c) /\ \A j \in IdsOf(c) : id <= j
    BY <1>3, FirstIs, Constants DEF IdsOf
  <2>2. buf' = [buf EXCEPT ![id] = Fit(buf[id], Piece(c, sent[c] + 1))]
    BY <1>1, <1>3 DEF Data
  <2> HIDE DEF id
  <2>3. id \in Ids /\ live[id] = c /\ \A j \in Ids : live[j] = c => id <= j
    BY <2>1 DEF IdsOf
  <2>4. QED
    BY <1>1, <2>2, <2>3
<1>4. QED
  BY <1>2, <1>3

LEMMA DataBase ==
  ASSUME Base, NEW c \in Clients, Data(c)
  PROVE  Base'
<1>1. /\ sent[c] \in Nat /\ sent' = [sent EXCEPT ![c] = sent[c] + 1]
      /\ UNCHANGED <<net, keys, maps, line, frames, ran, again, shifted, uaf>>
  BY DataIs
<1>2. /\ buf' \in [Ids -> Seq(Pieces)]
      /\ \A id \in Ids : Len(buf[id]) \in Nat /\ Len(buf'[id]) \in Nat /\ Len(buf[id]) <= Len(buf'[id])
  <2>1. buf \in [Ids -> Seq(Pieces)] /\ \A id \in Ids : Len(buf[id]) \in Nat
    BY DEF Base, TypeOK
  <2>2. CASE buf' = buf
    BY <2>1, <2>2
  <2>3. ASSUME NEW id \in Ids, buf' = [buf EXCEPT ![id] = Fit(buf[id], Piece(c, sent[c] + 1))]
        PROVE  /\ buf' \in [Ids -> Seq(Pieces)]
               /\ \A j \in Ids : Len(buf[j]) \in Nat /\ Len(buf'[j]) \in Nat /\ Len(buf[j]) <= Len(buf'[j])
    <3>1. Piece(c, sent[c] + 1) \in Pieces
      BY <1>1, PieceIs DEF Data, Pieces
    <3>2. /\ Fit(buf[id], Piece(c, sent[c] + 1)) \in Seq(Pieces)
          /\ Len(Fit(buf[id], Piece(c, sent[c] + 1))) \in Nat
          /\ Len(buf[id]) <= Len(Fit(buf[id], Piece(c, sent[c] + 1)))
      BY <2>1, <3>1, FitIs
    <3>3. QED
      BY <2>1, <2>3, <3>2
  <2>4. QED
    BY <2>2, <2>3, DataIs
<1>3. TypeOK'
  <2>1. sent' \in [Clients -> Nat]
    BY <1>1 DEF Base, TypeOK
  <2>2. lost' \subseteq Clients /\ raced' \in BOOLEAN
    BY DEF Base, TypeOK, Data
  <2>3. QED
    BY <1>1, <1>2, <2>1, <2>2 DEF Base, TypeOK, maps
<1>4. FramesOK' /\ FreshOK' /\ RunsOK'
  BY <1>1 DEF Base, FramesOK, FreshOK, RunsOK, maps
<1>5. StoreOK'
  <2>1. Top' = Top /\ live' = live /\ frames' = frames
    BY <1>1 DEF Top, maps
  <2>2. ASSUME frames # <<>>, Top.pc = "store", live[Top.at] # None
        PROVE  Top.i + Top.rem <= Len(buf'[Top.at])
    <3>1. Top.at \in Ids /\ Top.i \in Nat /\ Top.rem \in Nat
      <4>1. Top = frames[Len(frames)] /\ Len(frames) \in 1..Len(frames)
        BY <2>2, TopIs DEF Base, TypeOK
      <4>2. Top.at \in Ids \union {Serial} /\ Top.i \in Nat /\ Top.rem \in Nat
        BY <4>1, FrameOf DEF Base, TypeOK
      <4>3. Top.at # Serial
        BY <2>2, <4>1 DEF Base, FramesOK
      <4>4. QED
        BY <4>2, <4>3
    <3>2. Top.i + Top.rem <= Len(buf[Top.at])
      BY <2>2 DEF Base, StoreOK
    <3>3. QED
      BY <1>2, <3>1, <3>2
  <2>3. QED
    BY <2>1, <2>2 DEF StoreOK
<1>6. QED
  BY <1>3, <1>4, <1>5 DEF Base

(* A step that only takes clients out of the maps.                         *)
LEMMA DisconnectIs ==
  ASSUME Base, NEW c \in Clients, Disconnect(c)
  PROVE  /\ net[c] = "up" /\ net' = [net EXCEPT ![c] = "gone"]
         /\ UNCHANGED <<sent, keys, listening, incoming, counter, line, frames, history, raced, uaf>>
         /\ \/ IdsOf(c) = {} /\ UNCHANGED <<live, buf>>
            \/ \E id \in Ids : /\ live[id] = c
                               /\ live' = [live EXCEPT ![id] = None]
                               /\ buf' = [buf EXCEPT ![id] = <<>>]
<1>1. CASE IdsOf(c) = {}
  BY <1>1 DEF Disconnect
<1>2. CASE IdsOf(c) # {}
  <2>1. First(IdsOf(c)) \in Ids /\ live[First(IdsOf(c))] = c
    <3>1. First(IdsOf(c)) \in IdsOf(c)
      BY <1>2, FirstIs, Constants DEF IdsOf
    <3>2. QED
      BY <3>1 DEF IdsOf
  <2>2. QED
    BY <1>2, <2>1 DEF Disconnect
<1>3. QED
  BY <1>1, <1>2

(* Entries of the maps are only dropped, with their buffers.               *)
Dropped ==
  /\ live' \in [Ids -> Clients \union {None}] /\ buf' \in [Ids -> Seq(Pieces)]
  /\ \A id \in Ids : live'[id] # None => live'[id] = live[id] /\ buf'[id] = buf[id]
  /\ \A id \in Ids : live'[id] = None => buf'[id] = <<>> \/ buf'[id] = buf[id]

LEMMA DisconnectDrops ==
  ASSUME Base, NEW c \in Clients, Disconnect(c)
  PROVE  Dropped
<1>1. <<>> \in Seq(Pieces) /\ live \in [Ids -> Clients \union {None}] /\ buf \in [Ids -> Seq(Pieces)]
  BY EmptySeq DEF Base, TypeOK
<1>2. CASE UNCHANGED <<live, buf>>
  BY <1>1, <1>2 DEF Dropped
<1>3. ASSUME NEW id \in Ids, live' = [live EXCEPT ![id] = None], buf' = [buf EXCEPT ![id] = <<>>]
      PROVE  Dropped
  BY <1>1, <1>3 DEF Dropped
<1>4. QED
  BY <1>2, <1>3, DisconnectIs

LEMMA StopDrops ==
  ASSUME Base, Stop
  PROVE  Dropped
<1>1. <<>> \in Seq(Pieces)
  BY EmptySeq
<1>2. QED
  BY <1>1 DEF Stop, Dropped

LEMMA DroppedKeeps ==
  ASSUME Base, Dropped, UNCHANGED <<frames, counter, ran, line>>
  PROVE  FramesOK' /\ StoreOK' /\ FreshOK' /\ RunsOK'
<1>1. Top' = Top
  BY DEF Top
<1>2. FramesOK' /\ RunsOK'
  BY DEF Base, FramesOK, RunsOK
<1>3. FreshOK'
  BY DEF Base, FreshOK, Dropped
<1>4. StoreOK'
  <2>1. ASSUME frames # <<>>, Top.pc = "store" PROVE Top.at \in Ids
    <3>1. Top = frames[Len(frames)] /\ Len(frames) \in 1..Len(frames)
      BY <2>1, TopIs DEF Base, TypeOK
    <3>2. Top.at \in Ids \union {Serial} /\ Top.at # Serial
      BY <2>1, <3>1, FrameOf DEF Base, TypeOK, FramesOK
    <3>3. QED
      BY <3>2
  <2>2. QED
    BY <1>1, <2>1 DEF Base, StoreOK, Dropped
<1>5. QED
  BY <1>2, <1>3, <1>4

LEMMA DropBase ==
  ASSUME Base, (\E c \in Clients : Disconnect(c)) \/ Stop
  PROVE  Base'
<1>1. Dropped /\ UNCHANGED <<sent, keys, frames, counter, line, history, raced, uaf>>
  BY DisconnectDrops, StopDrops DEF Disconnect, Stop
<1>2. net' \in [Clients -> {"new", "up", "cut", "gone"}]
  BY DEF Base, TypeOK, Disconnect, Stop
<1>3. listening' \in BOOLEAN /\ incoming' \in Seq(Clients)
  <2>1. <<>> \in Seq(Clients)
    BY EmptySeq
  <2>2. QED
    BY <2>1 DEF Base, TypeOK, Disconnect, Stop
<1>4. TypeOK'
  BY <1>1, <1>2, <1>3 DEF Base, TypeOK, Dropped, history
<1>5. QED
  BY <1>1, <1>4, DroppedKeeps DEF Base, history

LEMMA StartBase ==
  ASSUME Base, Start
  PROVE  Base'
BY DEF Base, TypeOK, FramesOK, StoreOK, FreshOK, RunsOK, Start, tcp, history, Top

(* The loop, commands and Serial.                                          *)

LEMMA NewLoopIs ==
  ASSUME Base
  PROVE  /\ NewLoop \in Frame /\ [NewLoop EXCEPT !.pc = "run"] \in Frame
         /\ NewLoop.pc = "accept" /\ NewLoop.at = Serial /\ NewLoop.i = 0
         /\ [NewLoop EXCEPT !.pc = "run"].pc = "run" /\ [NewLoop EXCEPT !.pc = "run"].at = Serial
         /\ FrameOK(NewLoop, counter) /\ FrameOK([NewLoop EXCEPT !.pc = "run"], counter)
<1>1. counter \in Nat /\ Serial = 0
  BY DEF Base, TypeOK, Serial
<1>2. QED
  BY <1>1 DEF NewLoop, Frame, FrameOK

(* An activation starts: loop(), by ESP32QuickJS::loop or by tick().       *)
LEMMA EnterLoopIs ==
  ASSUME Base, LoopStarts \/ Wait
  PROVE  /\ Enter(NewLoop) /\ frames' \in Seq(Frame) /\ FramesOK'
         /\ Top' = NewLoop /\ frames' # <<>>
         /\ UNCHANGED <<tcp, maps, buf, line, history, raced, uaf>>
<1>1. /\ Enter(NewLoop) /\ UNCHANGED <<tcp, maps, buf, line, history, raced, uaf>>
      /\ (frames # <<>> => Top.pc = "run")
  BY DEF LoopStarts, Wait, At
<1>2. counter' = counter /\ frames \in Seq(Frame) /\ FramesOK
  BY <1>1 DEF maps, Base, TypeOK
<1>3. FramesOK'
  BY <1>1, <1>2, NewLoopIs, EnterKeeps
<1>4. /\ frames' \in Seq(Frame) /\ Len(frames') = Len(frames) + 1 /\ Len(frames) \in Nat
      /\ frames'[Len(frames) + 1] = NewLoop
  BY <1>1, <1>2, NewLoopIs, EnterIs
<1>5. Top' = NewLoop /\ frames' # <<>>
  BY <1>4, EmptySeq DEF Top
<1>6. QED
  BY <1>1, <1>3, <1>4, <1>5

LEMMA EnterLoopBase ==
  ASSUME Base, LoopStarts \/ Wait
  PROVE  Base'
<1>1. StoreOK'
  BY EnterLoopIs, NewLoopIs, NoStore
<1>2. QED
  BY <1>1, EnterLoopIs, OnlyFrames DEF history, Base, TypeOK

(* The top activation goes on, at the same client or another.              *)
LEMMA TopFields ==
  ASSUME Base, frames # <<>>
  PROVE  /\ Top \in Frame /\ Top = frames[Len(frames)] /\ Len(frames) \in 1..Len(frames)
         /\ Len(frames) \in Nat \ {0} /\ frames \in Seq(Frame) /\ FramesOK
         /\ Top.at \in Ids \union {Serial} /\ Top.at <= counter
         /\ Top.i \in Nat /\ Top.rem \in Nat
         /\ Top.pc \in {"accept", "pop"} => Top.at = Serial
         /\ Top.pc \in {"handle", "store"} => Top.at \in Ids
         /\ Top.pc \in {"accept", "pop", "handle"} => Top.i = 0
         /\ Top.pc = "run" /\ Top.at = Serial => Len(frames) = 1
<1>1. /\ Top \in Frame /\ Top = frames[Len(frames)] /\ Len(frames) \in 1..Len(frames)
      /\ frames \in Seq(Frame) /\ FramesOK /\ Len(frames) \in Nat \ {0}
  BY TopIs DEF Base, TypeOK
<1>2. Top.at \in Ids \union {Serial} /\ Top.i \in Nat /\ Top.rem \in Nat
  BY <1>1, FrameOf
<1>3. QED
  BY <1>1, <1>2 DEF FramesOK

LEMMA GotoTop ==
  ASSUME Base, frames # <<>>, NEW f \in Frame, Goto(f), counter' \in Nat, counter <= counter',
         FrameOK(f, counter'), f.pc = "run" => f.at # Serial
  PROVE  frames' \in Seq(Frame) /\ FramesOK' /\ Top' = f /\ frames' # <<>>
<1>1. frames \in Seq(Frame) /\ FramesOK /\ counter \in Nat
  BY DEF Base, TypeOK
<1>2. /\ frames' \in Seq(Frame) /\ Len(frames) \in Nat \ {0}
      /\ Len(frames') = Len(frames) /\ frames'[Len(frames)] = f
  BY <1>1, GotoIs
<1>3. FramesOK'
  BY <1>1, GotoKeeps
<1>4. QED
  BY <1>2, <1>3, EmptySeq DEF Top

(* initClient of the top of the stack, which is not taken off yet.         *)
LEMMA AcceptIs ==
  ASSUME Base, Accept
  PROVE  \/ Misuse
         \/ /\ frames # <<>> /\ Top.pc = "accept" /\ incoming # <<>>
            /\ incoming[Len(incoming)] \in Clients
            /\ net[incoming[Len(incoming)]] # "gone"
            /\ counter' = counter + 1
            /\ live' = [live EXCEPT ![counter + 1] = incoming[Len(incoming)]]
            /\ buf' = [buf EXCEPT ![counter + 1] = <<>>]
            /\ Goto([Top EXCEPT !.pc = "pop"]) /\ [Top EXCEPT !.pc = "pop"] \in Frame
            /\ frames' \in Seq(Frame) /\ FramesOK' /\ frames' # <<>>
            /\ Top' = [Top EXCEPT !.pc = "pop"]
            /\ UNCHANGED <<tcp, listening, incoming, line, history, raced, uaf>>
<1>1. /\ frames # <<>> /\ Top.pc = "accept" /\ incoming # <<>>
      /\ incoming \in Seq(Clients) /\ counter \in Nat
  BY DEF Accept, At, Base, TypeOK
<1>2. incoming[Len(incoming)] \in Clients
  BY <1>1, EmptySeq, ElementOfSeq
<1>3. CASE Misuse
  BY <1>3
<1>4. CASE ~Misuse
  <2> DEFINE f == [Top EXCEPT !.pc = "pop"]
  <2>1. /\ counter' = counter + 1 /\ Goto(f) /\ net[incoming[Len(incoming)]] # "gone"
        /\ live' = [live EXCEPT ![counter + 1] = incoming[Len(incoming)]]
        /\ buf' = [buf EXCEPT ![counter + 1] = <<>>]
        /\ UNCHANGED <<tcp, listening, incoming, line, history, raced, uaf>>
    BY <1>4 DEF Accept
  <2>2. f \in Frame /\ f.pc = "pop" /\ f.at = Serial /\ f.i = 0
    BY <1>1, TopFields DEF Frame
  <2> HIDE DEF f
  <2>3. counter' \in Nat /\ counter <= counter' /\ FrameOK(f, counter') /\ f.pc # "run"
    BY <1>1, <2>1, <2>2 DEF FrameOK, Serial
  <2>4. frames' \in Seq(Frame) /\ FramesOK' /\ frames' # <<>> /\ Top' = f
    BY <1>1, <2>1, <2>2, <2>3, GotoTop
  <2>5. QED
    BY <1>1, <1>2, <2>1, <2>2, <2>4 DEF f
<1>5. QED
  BY <1>3, <1>4

LEMMA AcceptBase ==
  ASSUME Base, Accept
  PROVE  Base'
<1>1. CASE Misuse
  BY <1>1, MisuseBase
<1>2. CASE ~Misuse
  <2> DEFINE c == incoming[Len(incoming)]
  <2>1. /\ frames # <<>> /\ Top.pc = "accept" /\ c \in Clients
        /\ counter' = counter + 1
        /\ live' = [live EXCEPT ![counter + 1] = c]
        /\ buf' = [buf EXCEPT ![counter + 1] = <<>>]
        /\ frames' \in Seq(Frame) /\ FramesOK' /\ frames' # <<>>
        /\ Top' = [Top EXCEPT !.pc = "pop"]
        /\ UNCHANGED <<tcp, listening, incoming, line, history, raced, uaf>>
    BY <1>2, AcceptIs
  <2>2. <<>> \in Seq(Pieces)
    BY EmptySeq
  <2> HIDE DEF c
  <2>3. TypeOK'
    <3>1. live' \in [Ids -> Clients \union {None}]
      BY <2>1 DEF Base, TypeOK
    <3>2. buf' \in [Ids -> Seq(Pieces)]
      BY <2>1, <2>2 DEF Base, TypeOK
    <3>3. counter' \in Nat
      BY <2>1 DEF Base, TypeOK
    <3>4. QED
      BY <2>1, <3>1, <3>2, <3>3 DEF Base, TypeOK, tcp, history
  <2>4. StoreOK'
    <3>1. Top'.pc = "pop"
      BY <2>1, TopFields DEF Frame
    <3>2. QED
      BY <3>1, NoStore
  <2>5. FreshOK'
    <3>1. ASSUME NEW id \in Ids, live'[id] # None PROVE id <= counter'
      <4>1. id \in Nat /\ counter \in Nat
        BY Constants DEF Base, TypeOK
      <4>2. CASE id = counter + 1
        BY <2>1, <4>1, <4>2
      <4>3. CASE id # counter + 1
        BY <2>1, <3>1, <4>1, <4>3 DEF Base, TypeOK, FreshOK
      <4>4. QED
        BY <4>2, <4>3
    <3>2. QED
      BY <3>1 DEF FreshOK
  <2>6. RunsOK'
    BY <2>1 DEF Base, RunsOK, history
  <2>7. QED
    BY <2>1, <2>3, <2>4, <2>5, <2>6 DEF Base
<1>3. QED
  BY <1>1, <1>2

LEMMA PopIs ==
  ASSUME Base, Pop
  PROVE  /\ frames # <<>> /\ Top.pc = "pop"
         /\ incoming' = SubSeq(incoming, 1, Len(incoming) - 1)
         /\ Goto([Top EXCEPT !.pc = "accept"]) /\ [Top EXCEPT !.pc = "accept"] \in Frame
         /\ frames' \in Seq(Frame) /\ FramesOK' /\ frames' # <<>>
         /\ Top' = [Top EXCEPT !.pc = "accept"]
         /\ UNCHANGED <<tcp, listening, counter, live, buf, line, history, raced, uaf>>
<1> DEFINE f == [Top EXCEPT !.pc = "accept"]
<1>1. /\ frames # <<>> /\ Top.pc = "pop" /\ Goto(f)
      /\ incoming' = SubSeq(incoming, 1, Len(incoming) - 1)
      /\ UNCHANGED <<tcp, listening, counter, live, buf, line, history, raced, uaf>>
  BY DEF Pop, At
<1>2. f \in Frame /\ f.pc = "accept" /\ f.at = Serial /\ f.i = 0
  BY <1>1, TopFields DEF Frame
<1> HIDE DEF f
<1>3. counter' = counter /\ counter \in Nat /\ FrameOK(f, counter') /\ f.pc # "run"
  BY <1>1, <1>2 DEF Base, TypeOK, FrameOK, Serial
<1>4. frames' \in Seq(Frame) /\ FramesOK' /\ frames' # <<>> /\ Top' = f
  BY <1>1, <1>2, <1>3, GotoTop
<1>5. QED
  BY <1>1, <1>2, <1>4 DEF f

LEMMA ButLast ==
  ASSUME NEW S, NEW s \in Seq(S)
  PROVE  /\ SubSeq(s, 1, Len(s) - 1) \in Seq(S)
         /\ Len(SubSeq(s, 1, Len(s) - 1)) = IF s = <<>> THEN 0 ELSE Len(s) - 1
         /\ \A k \in 1..Len(s) - 1 : SubSeq(s, 1, Len(s) - 1)[k] = s[k]
<1>1. Len(s) \in Nat /\ (s = <<>> => Len(s) = 0)
  BY EmptySeq
<1>2. CASE s = <<>>
  <2>1. SubSeq(s, 1, 0 - 1) = << >>
    BY <1>2
  <2>2. QED
    BY <1>1, <1>2, <2>1, EmptySeq
<1>3. CASE s # <<>>
  <2> DEFINE n == Len(s) - 1
  <2>1. n \in Nat /\ \A i \in 1..n : s[i] \in S
    BY <1>1, <1>3, EmptySeq, ElementOfSeq
  <2> HIDE DEF n
  <2>2. /\ SubSeq(s, 1, n) \in Seq(S) /\ Len(SubSeq(s, 1, n)) = n
        /\ \A i \in 1..n : SubSeq(s, 1, n)[i] = s[i]
    BY <2>1, SubSeqProperties
  <2>3. QED
    BY <1>3, <2>2 DEF n
<1>4. QED
  BY <1>2, <1>3

LEMMA PopBase ==
  ASSUME Base, Pop
  PROVE  Base'
<1>1. /\ Top' = [Top EXCEPT !.pc = "accept"] /\ frames # <<>>
      /\ incoming' = SubSeq(incoming, 1, Len(incoming) - 1)
      /\ frames' \in Seq(Frame) /\ FramesOK' /\ frames' # <<>>
      /\ UNCHANGED <<tcp, listening, counter, live, buf, line, history, raced, uaf>>
  BY PopIs
<1>2. incoming' \in Seq(Clients)
  <2>1. incoming \in Seq(Clients)
    BY DEF Base, TypeOK
  <2>2. QED
    BY <1>1, <2>1, ButLast
<1>3. TypeOK'
  BY <1>1, <1>2 DEF Base, TypeOK, tcp, history
<1>4. StoreOK'
  <2>1. Top'.pc = "accept"
    BY <1>1, TopFields DEF Frame
  <2>2. QED
    BY <2>1, NoStore
<1>5. FreshOK' /\ RunsOK'
  BY <1>1 DEF Base, FreshOK, RunsOK, history
<1>6. QED
  BY <1>1, <1>3, <1>4, <1>5 DEF Base

LEMMA GoOnBase ==
  ASSUME Base, Iterate \/ NextClient
  PROVE  Base'
<1>1. CASE Misuse
  BY <1>1, MisuseBase
<1>2. CASE ~Misuse
  <2>1. /\ frames # <<>> /\ Top.pc \in {"accept", "handle"} /\ GoOn
        /\ UNCHANGED <<tcp, maps, buf, line, history, raced, uaf>>
    BY <1>2 DEF Iterate, NextClient, At
  <2>2. counter' = counter
    BY <2>1 DEF maps
  <2>3. frames' \in Seq(Frame) /\ FramesOK' /\ (frames' # <<>> => Top'.pc # "store")
    <3>1. CASE frames' # <<>> => Top'.pc = "run"
      BY <2>1, <2>2, <3>1, GoOnIs
    <3>2. ASSUME NEW id \in Ids, Top' = [Top EXCEPT !.pc = "handle", !.at = id]
          PROVE Top'.pc = "handle"
      BY <2>1, <3>2, TopFields DEF Frame
    <3>3. QED
      BY <2>1, <2>2, <3>1, <3>2, GoOnIs
  <2>4. StoreOK'
    BY <2>3, NoStore
  <2>5. QED
    BY <2>1, <2>3, <2>4, OnlyFrames DEF history, Base, TypeOK
<1>3. QED
  BY <1>1, <1>2

(* The buffer is cut at its first newline.                                 *)
LEMMA LineIs ==
  ASSUME NEW b \in Seq(Pieces), Newlines(b) # {},
         NEW i, i = First(Newlines(b)), NEW cut, cut = [b EXCEPT ![i] = Nul]
  PROVE  /\ i \in 1..Len(b) /\ Len(b) \in Nat /\ \A k \in 1..i - 1 : b[k] # NL
         /\ cut \in Seq(Pieces) /\ Len(cut) = Len(b)
         /\ \A k \in 1..Len(b) : cut[k] = IF k = i THEN Nul ELSE b[k]
<1>1. Len(b) \in Nat /\ Nul \in Pieces
  BY LenProperties DEF Pieces
<1>2. Newlines(b) \in SUBSET Nat
  BY <1>1 DEF Newlines
<1>3. i \in Newlines(b) /\ \A j \in Newlines(b) : i <= j
  BY <1>2, FirstIs
<1>4. i \in 1..Len(b) /\ \A k \in 1..i - 1 : b[k] # NL
  <2>1. i \in 1..Len(b)
    BY <1>3 DEF Newlines
  <2>2. ASSUME NEW k \in 1..i - 1 PROVE b[k] # NL
    <3>1. k \in 1..Len(b) /\ ~(i <= k)
      BY <1>1, <2>1
    <3>2. QED
      BY <1>3, <3>1 DEF Newlines
  <2>3. QED
    BY <2>1, <2>2
<1>5. /\ cut \in Seq(Pieces) /\ Len(cut) = Len(b)
      /\ \A k \in 1..Len(b) : cut[k] = IF k = i THEN Nul ELSE b[k]
  BY <1>1, <1>4, ExceptSeq
<1>6. QED
  BY <1>1, <1>4, <1>5

(* What a command sees of it ends before the newline.                      *)
LEMMA CStringIs ==
  ASSUME NEW b \in Seq(Pieces), NEW i \in 1..Len(b), \A k \in 1..i - 1 : b[k] # NL,
         NEW cut \in Seq(Pieces), Len(cut) = Len(b),
         \A k \in 1..Len(b) : cut[k] = IF k = i THEN Nul ELSE b[k]
  PROVE  /\ CString(cut) \in Seq(Nat) /\ Len(CString(cut)) \in Nat /\ Len(CString(cut)) < i
         /\ \A k \in 1..Len(CString(cut)) : CString(cut)[k] = b[k]
         /\ (\A k \in 1..i - 1 : b[k] # Nul) => Len(CString(cut)) = i - 1
<1> DEFINE ends == {k \in 1..Len(cut) : cut[k] = Nul}
           n == First(ends)
<1>1. Len(b) \in Nat /\ Pieces = Nat \union {Nul}
  BY LenProperties DEF Pieces
<1>2. ends \in SUBSET Nat /\ i \in ends
  BY <1>1
<1>3. n \in 1..Len(b) /\ n <= i /\ \A k \in 1..Len(b) : k < n => cut[k] # Nul
  <2>1. n \in ends /\ \A j \in ends : n <= j
    BY <1>2, FirstIs
  <2>2. ASSUME NEW k \in 1..Len(b), k < n PROVE cut[k] # Nul
    BY <1>1, <2>1, <2>2
  <2>3. QED
    BY <1>2, <2>1, <2>2
<1>4. CString(cut) = SubSeq(cut, 1, n - 1)
  BY DEF CString
<1>5. ASSUME \A k \in 1..i - 1 : b[k] # Nul PROVE n = i
  <2>1. n \in Nat /\ n \in ends
    BY <1>2, FirstIs
  <2> HIDE DEF n
  <2>2. ~(n < i)
    <3>1. n < i => n \in 1..i - 1 /\ cut[n] = b[n] /\ cut[n] = Nul
      BY <1>1, <1>3, <2>1
    <3>2. QED
      BY <1>5, <3>1
  <2>3. QED
    BY <1>1, <1>3, <2>1, <2>2
<1> DEFINE m == n - 1
<1> HIDE DEF n
<1>6. ASSUME NEW k \in 1..m PROVE cut[k] \in Nat /\ cut[k] = b[k]
  <2>1. k \in 1..Len(b) /\ k < n /\ k # i
    BY <1>1, <1>3
  <2>2. cut[k] # Nul /\ cut[k] = b[k] /\ cut[k] \in Pieces
    BY <1>3, <2>1, ElementOfSeq
  <2>3. QED
    BY <1>1, <2>2
<1>7. m \in Nat /\ m < i
  BY <1>1, <1>3
<1> HIDE DEF m
<1>8. /\ SubSeq(cut, 1, m) \in Seq(Nat) /\ Len(SubSeq(cut, 1, m)) = m
      /\ \A k \in 1..m : SubSeq(cut, 1, m)[k] = cut[k]
  BY <1>6, <1>7, SubSeqProperties
<1>9. CString(cut) = SubSeq(cut, 1, m)
  BY <1>4 DEF m
<1>10. (\A k \in 1..i - 1 : b[k] # Nul) => m = i - 1
  BY <1>5 DEF m
<1>11. QED
  BY <1>6, <1>7, <1>8, <1>9, <1>10

(* A line is cut off at the start of a client's buffer.                    *)
LEMMA StartLineIs ==
  ASSUME Base, StartLine
  PROVE  \E id \in Ids, i \in Nat, cut \in Seq(Pieces) :
           /\ frames # <<>> /\ Top.pc = "handle" /\ Top.at = id /\ id # Serial
           /\ live[id] \in Clients /\ Newlines(buf[id]) # {}
           /\ i = First(Newlines(buf[id])) /\ cut = [buf[id] EXCEPT ![i] = Nul]
           /\ buf' = [buf EXCEPT ![id] = cut]
           /\ \/ /\ Goto(Remaining(cut, i)) /\ UNCHANGED <<ran, again>>
                 /\ shifted' = shifted \union {live[id]}
              \/ /\ Goto([Top EXCEPT !.pc = "run", !.i = i])
                 /\ ran' = [ran EXCEPT ![live[id]] = @ \o CString(cut)]
                 /\ again' = IF \E k \in 1..Len(frames) - 1 : frames[k].at = id
                             THEN again \union {live[id]} ELSE again
                 /\ shifted' = shifted
           /\ UNCHANGED <<tcp, maps, line, lost, raced, uaf>>
<1> DEFINE id == Top.at
           i == First(Newlines(buf[id]))
           cut == [buf[id] EXCEPT ![i] = Nul]
<1>1. frames # <<>> /\ Top.pc = "handle" /\ ~Dangling /\ Newlines(buf[id]) # {}
  BY DEF StartLine, At
<1>2. id \in Ids /\ id # Serial
  BY <1>1, TopFields, Constants DEF Serial
<1>3. live[id] \in Clients
  BY <1>1, <1>2 DEF Dangling, Base, TypeOK
<1>4. buf[id] \in Seq(Pieces)
  BY <1>2 DEF Base, TypeOK
<1>5. cut \in Seq(Pieces) /\ i \in Nat
  <2>1. /\ Newlines(buf[id]) # {} /\ i = First(Newlines(buf[id]))
        /\ cut = [buf[id] EXCEPT ![i] = Nul]
    BY <1>1
  <2> HIDE DEF i, cut
  <2>2. i \in 1..Len(buf[id]) /\ Len(buf[id]) \in Nat /\ cut \in Seq(Pieces)
    BY <1>4, <2>1, LineIs
  <2>3. QED
    BY <2>2
<1>6. QED
  BY <1>1, <1>2, <1>3, <1>5 DEF StartLine

LEMMA RemainingIs ==
  ASSUME Base, frames # <<>>, Top.pc \in {"handle", "run"}, Top.at # Serial,
         NEW b \in Seq(Pieces), NEW i \in Nat, i <= Len(b), Goto(Remaining(b, i)),
         counter' = counter
  PROVE  /\ Remaining(b, i) \in Frame /\ frames' \in Seq(Frame) /\ FramesOK' /\ frames' # <<>>
         /\ Top' = Remaining(b, i) /\ Top'.pc = "store" /\ Top'.at = Top.at
         /\ Top'.i = i /\ Top'.rem = Len(b) - i
<1> DEFINE f == Remaining(b, i)
<1>1. Len(b) \in Nat /\ Len(b) - i \in Nat
  BY LenProperties
<1>2. f \in Frame /\ f.pc = "store" /\ f.at = Top.at /\ f.i = i /\ f.rem = Len(b) - i
  BY <1>1, TopFields DEF Frame, Remaining
<1> HIDE DEF f
<1>3. counter' \in Nat /\ counter <= counter' /\ FrameOK(f, counter') /\ f.pc # "run"
  BY <1>2, TopFields DEF FrameOK, Base, TypeOK
<1>4. frames' \in Seq(Frame) /\ FramesOK' /\ Top' = f /\ frames' # <<>>
  BY <1>2, <1>3, GotoTop DEF f
<1>5. QED
  BY <1>2, <1>4 DEF f

LEMMA StartLineBase ==
  ASSUME Base, StartLine
  PROVE  Base'
<1>1. PICK id \in Ids, i \in Nat, cut \in Seq(Pieces) :
           /\ frames # <<>> /\ Top.pc = "handle" /\ Top.at = id /\ id # Serial
           /\ live[id] \in Clients /\ Newlines(buf[id]) # {}
           /\ i = First(Newlines(buf[id])) /\ cut = [buf[id] EXCEPT ![i] = Nul]
           /\ buf' = [buf EXCEPT ![id] = cut]
           /\ \/ /\ Goto(Remaining(cut, i)) /\ UNCHANGED <<ran, again>>
                 /\ shifted' = shifted \union {live[id]}
              \/ /\ Goto([Top EXCEPT !.pc = "run", !.i = i])
                 /\ ran' = [ran EXCEPT ![live[id]] = @ \o CString(cut)]
                 /\ again' = IF \E k \in 1..Len(frames) - 1 : frames[k].at = id
                             THEN again \union {live[id]} ELSE again
                 /\ shifted' = shifted
           /\ UNCHANGED <<tcp, maps, line, lost, raced, uaf>>
  BY StartLineIs
<1>2. buf[id] \in Seq(Pieces) /\ counter' = counter /\ counter \in Nat
  BY <1>1 DEF Base, TypeOK, maps
<1>3. /\ i \in 1..Len(buf[id]) /\ Len(buf[id]) \in Nat /\ Len(cut) = Len(buf[id])
      /\ \A k \in 1..i - 1 : buf[id][k] # NL
      /\ \A k \in 1..Len(buf[id]) : cut[k] = IF k = i THEN Nul ELSE buf[id][k]
  <2> DEFINE b == buf[id]
  <2>1. b \in Seq(Pieces) /\ Newlines(b) # {} /\ i = First(Newlines(b)) /\ cut = [b EXCEPT ![i] = Nul]
    BY <1>1, <1>2
  <2> HIDE DEF b
  <2>2. /\ i \in 1..Len(b) /\ Len(b) \in Nat /\ Len(cut) = Len(b)
        /\ \A k \in 1..i - 1 : b[k] # NL
        /\ \A k \in 1..Len(b) : cut[k] = IF k = i THEN Nul ELSE b[k]
    BY <2>1, LineIs
  <2>3. QED
    BY <2>2 DEF b
<1>4. CString(cut) \in Seq(Nat)
  BY <1>2, <1>3, CStringIs
<1>5. buf' \in [Ids -> Seq(Pieces)] /\ buf'[id] = cut
  BY <1>1 DEF Base, TypeOK
<1>6. /\ ran' \in [Clients \union {None} -> Seq(Nat)]
      /\ again' \subseteq Clients /\ shifted' \subseteq Clients
  <2>1. ran[live[id]] \in Seq(Nat)
    BY <1>1 DEF Base, RunsOK
  <2>2. ran[live[id]] \o CString(cut) \in Seq(Nat)
    BY <1>4, <2>1, ConcatProperties
  <2>3. ran' \in [Clients \union {None} -> Seq(Nat)]
    <3>1. ran' = ran \/ ran' = [ran EXCEPT ![live[id]] = ran[live[id]] \o CString(cut)]
      BY <1>1
    <3>2. ran \in [Clients \union {None} -> Seq(Nat)]
      BY DEF Base, RunsOK
    <3>3. QED
      BY <2>2, <3>1, <3>2
  <2>4. again' \subseteq Clients /\ shifted' \subseteq Clients
    BY <1>1 DEF Base, TypeOK
  <2>5. QED
    BY <2>3, <2>4
<1>7. frames' \in Seq(Frame) /\ FramesOK' /\ frames' # <<>> /\ StoreOK'
  <2>1. CASE Goto(Remaining(cut, i))
    <3>1. i <= Len(cut)
      BY <1>3
    <3>2. /\ frames' \in Seq(Frame) /\ FramesOK' /\ frames' # <<>>
          /\ Top'.at = id /\ Top'.i = i /\ Top'.rem = Len(cut) - i
      BY <1>1, <1>2, <2>1, <3>1, RemainingIs
    <3>3. Top'.i + Top'.rem <= Len(buf'[Top'.at])
      BY <1>3, <1>5, <3>2
    <3>4. QED
      BY <3>2, <3>3 DEF StoreOK
  <2>2. CASE Goto([Top EXCEPT !.pc = "run", !.i = i])
    <3> DEFINE f == [Top EXCEPT !.pc = "run", !.i = i]
    <3>1. f \in Frame /\ f.pc = "run" /\ f.at = id
      BY <1>1, TopFields DEF Frame
    <3> HIDE DEF f
    <3>2. FrameOK(f, counter')
      BY <1>1, <1>2, <3>1, TopFields DEF FrameOK
    <3>3. counter <= counter' /\ f.at # Serial
      BY <1>1, <1>2, <3>1
    <3>4. frames' \in Seq(Frame) /\ FramesOK' /\ Top' = f /\ frames' # <<>>
      BY <1>1, <1>2, <2>2, <3>1, <3>2, <3>3, GotoTop DEF f
    <3>5. QED
      BY <3>1, <3>4, NoStore
  <2>3. QED
    BY <1>1, <2>1, <2>2
<1>8. TypeOK'
  <2>1. ran' \in [Clients \union {None} -> Seq(Pieces)]
    <3>1. \A s \in Seq(Nat) : s \in Seq(Pieces)
      BY SeqPieces
    <3>2. QED
      BY <1>6, <3>1
  <2>2. QED
    BY <1>1, <1>5, <1>6, <1>7, <2>1 DEF Base, TypeOK, tcp, maps
<1>9. FreshOK' /\ RunsOK'
  BY <1>1, <1>6 DEF Base, FreshOK, RunsOK, maps
<1>10. QED
  BY <1>7, <1>8, <1>9 DEF Base

(* The command has returned into a buffer that still holds its line.       *)
LEMMA CommandReturnsIs ==
  ASSUME Base, CommandReturns
  PROVE  \/ Misuse
         \/ /\ frames # <<>> /\ Top.pc = "run" /\ Top.at \in Ids
            /\ live[Top.at] # None /\ Top.i <= Len(buf[Top.at])
            /\ Goto(Remaining(buf[Top.at], Top.i))
            /\ frames' \in Seq(Frame) /\ FramesOK' /\ frames' # <<>>
            /\ Top'.pc = "store" /\ Top'.at = Top.at
            /\ Top'.i = Top.i /\ Top'.rem = Len(buf[Top.at]) - Top.i
            /\ UNCHANGED <<tcp, maps, buf, line, history, raced, uaf>>
<1>1. frames # <<>> /\ Top.pc = "run" /\ Top.at # Serial
  BY DEF CommandReturns, At
<1>2. Top.at \in Ids /\ Top.i \in Nat
  BY <1>1, TopFields
<1>3. buf[Top.at] \in Seq(Pieces) /\ Len(buf[Top.at]) \in Nat
  <2>1. buf[Top.at] \in Seq(Pieces)
    BY <1>2 DEF Base, TypeOK
  <2>2. QED
    BY <2>1, LenProperties
<1>4. CASE Misuse
  BY <1>4
<1>5. CASE ~Misuse
  <2>1. /\ ~Dangling /\ ~(Len(buf[Top.at]) < Top.i)
        /\ Goto(Remaining(buf[Top.at], Top.i))
        /\ UNCHANGED <<tcp, maps, buf, line, history, raced, uaf>>
    BY <1>5 DEF CommandReturns
  <2>2. live[Top.at] # None /\ Top.i <= Len(buf[Top.at]) /\ counter' = counter
    BY <1>1, <1>2, <1>3, <2>1 DEF Dangling, maps
  <2>3. /\ frames' \in Seq(Frame) /\ FramesOK' /\ frames' # <<>>
        /\ Top'.pc = "store" /\ Top'.at = Top.at
        /\ Top'.i = Top.i /\ Top'.rem = Len(buf[Top.at]) - Top.i
    BY <1>1, <1>2, <1>3, <2>1, <2>2, RemainingIs
  <2>4. QED
    BY <1>1, <1>2, <2>1, <2>2, <2>3
<1>6. QED
  BY <1>4, <1>5

LEMMA CommandReturnsBase ==
  ASSUME Base, CommandReturns
  PROVE  Base'
<1>1. CASE Misuse
  BY <1>1, MisuseBase
<1>2. CASE ~Misuse
  <2>1. /\ frames # <<>> /\ Top.at \in Ids /\ Top.i <= Len(buf[Top.at])
        /\ frames' \in Seq(Frame) /\ FramesOK'
        /\ Top'.at = Top.at /\ Top'.i = Top.i /\ Top'.rem = Len(buf[Top.at]) - Top.i
        /\ UNCHANGED <<tcp, maps, buf, line, history, raced, uaf>>
    BY <1>2, CommandReturnsIs
  <2>2. Len(buf[Top.at]) \in Nat /\ Top.i \in Nat /\ buf' = buf
    <3>1. buf[Top.at] \in Seq(Pieces)
      BY <2>1 DEF Base, TypeOK
    <3>2. QED
      BY <2>1, <3>1, TopFields, LenProperties
  <2>3. StoreOK'
    <3>1. Top'.i + Top'.rem <= Len(buf'[Top'.at])
      BY <2>1, <2>2
    <3>2. QED
      BY <3>1 DEF StoreOK
  <2>4. QED
    BY <2>1, <2>3, OnlyFrames DEF history, Base, TypeOK
<1>3. QED
  BY <1>1, <1>2

(* The rest of the buffer is moved to its start, and handled.              *)
LEMMA StoreIs ==
  ASSUME Base, Store
  PROVE  \/ Misuse
         \/ /\ frames # <<>> /\ Top.pc = "store" /\ Top.at \in Ids /\ live[Top.at] # None
            /\ Top.i \in Nat /\ Top.rem \in Nat /\ Top.i + Top.rem <= Len(buf[Top.at])
            /\ buf' = [buf EXCEPT ![Top.at] = SubSeq(buf[Top.at], Top.i + 1, Top.i + Top.rem)]
            /\ buf'[Top.at] \in Seq(Pieces) /\ Len(buf'[Top.at]) = Top.rem
            /\ \A k \in 1..Top.rem : buf'[Top.at][k] = buf[Top.at][Top.i + k]
            /\ Goto([Top EXCEPT !.pc = "handle", !.i = 0, !.rem = 0])
            /\ [Top EXCEPT !.pc = "handle", !.i = 0, !.rem = 0] \in Frame
            /\ frames' \in Seq(Frame) /\ FramesOK' /\ frames' # <<>>
            /\ Top'.pc = "handle" /\ Top'.at = Top.at /\ Top'.i = 0
            /\ UNCHANGED <<tcp, maps, line, history, raced, uaf>>
<1>1. frames # <<>> /\ Top.pc = "store"
  BY DEF Store, At
<1>2. Top.at \in Ids /\ Top.i \in Nat /\ Top.rem \in Nat /\ Top.at # Serial
  BY <1>1, TopFields, Constants DEF Serial
<1>3. buf[Top.at] \in Seq(Pieces) /\ Len(buf[Top.at]) \in Nat
  <2>1. buf[Top.at] \in Seq(Pieces)
    BY <1>2 DEF Base, TypeOK
  <2>2. QED
    BY <2>1, LenProperties
<1>4. CASE Misuse
  BY <1>4
<1>5. CASE ~Misuse
  <2> DEFINE f == [Top EXCEPT !.pc = "handle", !.i = 0, !.rem = 0]
             b == buf[Top.at]
             i == Top.i
             r == Top.rem
  <2>1. /\ ~Dangling /\ Goto(f) /\ buf' = [buf EXCEPT ![Top.at] = SubSeq(b, i + 1, i + r)]
        /\ UNCHANGED <<tcp, maps, line, history, raced, uaf>>
    BY <1>5 DEF Store
  <2>2. live[Top.at] # None /\ i + r <= Len(b) /\ counter' = counter
    <3>1. live[Top.at] # None /\ counter' = counter
      BY <1>2, <2>1 DEF Dangling, maps
    <3>2. QED
      BY <1>1, <3>1 DEF Base, StoreOK
  <2>3. f \in Frame /\ f.pc = "handle" /\ f.at = Top.at /\ f.i = 0
    BY <1>1, TopFields DEF Frame
  <2> HIDE DEF f
  <2>4. counter' \in Nat /\ counter <= counter' /\ FrameOK(f, counter') /\ f.pc # "run"
    BY <1>1, <1>2, <2>2, <2>3, TopFields DEF FrameOK, Base, TypeOK
  <2>5. frames' \in Seq(Frame) /\ FramesOK' /\ Top' = f /\ frames' # <<>>
    BY <1>1, <2>1, <2>3, <2>4, GotoTop
  <2>6. /\ SubSeq(b, i + 1, i + r) \in Seq(Pieces) /\ Len(SubSeq(b, i + 1, i + r)) = r
        /\ \A k \in 1..r : SubSeq(b, i + 1, i + r)[k] = b[i + k]
    <3>1. b \in Seq(Pieces) /\ Len(b) \in Nat /\ i \in Nat /\ r \in Nat /\ i + r <= Len(b)
      BY <1>2, <1>3, <2>2
    <3> HIDE DEF b, i, r
    <3> DEFINE m == i + 1
               n == i + r
    <3>2. m \in Int /\ n \in Int /\ n - m + 1 = r /\ (m <= n <=> r > 0)
      BY <3>1
    <3>3. \A k \in m..n : b[k] \in Pieces
      <4>1. \A k \in m..n : k \in 1..Len(b)
        BY <3>1
      <4>2. QED
        BY <3>1, <4>1, ElementOfSeq
    <3> HIDE DEF m, n
    <3>4. /\ SubSeq(b, m, n) \in Seq(Pieces)
          /\ Len(SubSeq(b, m, n)) = IF m <= n THEN n - m + 1 ELSE 0
          /\ \A k \in 1..n - m + 1 : SubSeq(b, m, n)[k] = b[m + k - 1]
      BY <3>2, <3>3, SubSeqProperties
    <3>5. Len(SubSeq(b, m, n)) = r
      BY <3>1, <3>2, <3>4
    <3>6. \A k \in 1..r : m + k - 1 = i + k
      BY <3>1 DEF m
    <3>7. QED
      BY <3>2, <3>4, <3>5, <3>6 DEF m, n
  <2>7. buf'[Top.at] = SubSeq(b, i + 1, i + r)
    BY <1>2, <2>1 DEF Base, TypeOK
  <2>8. QED
    BY <1>1, <1>2, <2>1, <2>2, <2>3, <2>5, <2>6, <2>7 DEF f
<1>6. QED
  BY <1>4, <1>5

LEMMA StoreBase ==
  ASSUME Base, Store
  PROVE  Base'
<1>1. CASE Misuse
  BY <1>1, MisuseBase
<1>2. CASE ~Misuse
  <2>1. /\ frames # <<>> /\ Top.at \in Ids
        /\ buf' = [buf EXCEPT ![Top.at] = SubSeq(buf[Top.at], Top.i + 1, Top.i + Top.rem)]
        /\ buf'[Top.at] \in Seq(Pieces)
        /\ frames' \in Seq(Frame) /\ FramesOK' /\ Top'.pc = "handle"
        /\ UNCHANGED <<tcp, maps, line, history, raced, uaf>>
    BY <1>2, StoreIs
  <2>2. buf' \in [Ids -> Seq(Pieces)]
    BY <2>1 DEF Base, TypeOK
  <2>3. TypeOK'
    BY <2>1, <2>2 DEF Base, TypeOK, tcp, maps, history
  <2>4. StoreOK' /\ FreshOK' /\ RunsOK'
    BY <2>1, NoStore DEF Base, FreshOK, RunsOK, maps, history
  <2>5. QED
    BY <2>1, <2>3, <2>4 DEF Base
<1>3. QED
  BY <1>1, <1>2

(* A key on Serial, which may run the line.                                *)
LEMMA PumpSerialIs ==
  ASSUME Base, PumpSerial
  PROVE  /\ frames = <<>> /\ keys \in Nat /\ keys' = keys + 1 /\ More(None, keys)
         /\ Piece(None, keys + 1) \in Nat
         /\ line' = Fit(line, Piece(None, keys + 1)) /\ line' \in Seq(Nat)
         /\ \/ UNCHANGED <<ran, frames>>
            \/ /\ ran' = [ran EXCEPT ![None] = @ \o line']
               /\ Enter([NewLoop EXCEPT !.pc = "run"])
         /\ UNCHANGED <<net, sent, maps, buf, again, lost, shifted, raced, uaf>>
<1>1. /\ frames = <<>> /\ keys \in Nat /\ keys' = keys + 1 /\ More(None, keys)
      /\ line' = Fit(line, Piece(None, keys + 1))
      /\ UNCHANGED <<net, sent, maps, buf, again, lost, shifted, raced, uaf>>
  BY DEF PumpSerial, Base, TypeOK
<1>2. Piece(None, keys + 1) \in Nat
  BY <1>1, PieceIs
<1>3. line' \in Seq(Nat)
  <2>1. line \in Seq(Nat)
    BY DEF Base, RunsOK
  <2>2. QED
    BY <1>1, <1>2, <2>1, FitIs
<1>4. QED
  BY <1>1, <1>2, <1>3 DEF PumpSerial, SerialRuns

LEMMA PumpSerialBase ==
  ASSUME Base, PumpSerial
  PROVE  Base'
<1>1. /\ frames = <<>> /\ keys' = keys + 1 /\ keys \in Nat /\ line' \in Seq(Nat)
      /\ UNCHANGED <<net, sent, maps, buf, again, lost, shifted, raced, uaf>>
  BY PumpSerialIs
<1>2. /\ frames' \in Seq(Frame) /\ FramesOK' /\ StoreOK'
      /\ ran' \in [Clients \union {None} -> Seq(Nat)]
  <2>1. CASE UNCHANGED <<ran, frames>>
    BY <1>1, <2>1 DEF Base, TypeOK, FramesOK, RunsOK, maps, StoreOK
  <2>2. CASE ran' = [ran EXCEPT ![None] = @ \o line'] /\ Enter([NewLoop EXCEPT !.pc = "run"])
    <3> DEFINE f == [NewLoop EXCEPT !.pc = "run"]
    <3>1. f \in Frame /\ f.pc = "run" /\ FrameOK(f, counter)
      BY NewLoopIs
    <3> HIDE DEF f
    <3>2. frames \in Seq(Frame) /\ FramesOK /\ counter' = counter
      BY <1>1 DEF Base, TypeOK, maps
    <3>3. FramesOK'
      BY <1>1, <2>2, <3>1, <3>2, EnterKeeps DEF f
    <3>4. frames' \in Seq(Frame) /\ Len(frames') = Len(frames) + 1 /\ frames'[Len(frames) + 1] = f
      BY <2>2, <3>1, <3>2, EnterIs DEF f
    <3>5. Top'.pc # "store"
      BY <3>1, <3>4 DEF Top
    <3>6. StoreOK'
      BY <3>5, NoStore
    <3>7. ran' \in [Clients \union {None} -> Seq(Nat)]
      <4>1. ran \in [Clients \union {None} -> Seq(Nat)]
        BY DEF Base, RunsOK
      <4>2. ran[None] \o line' \in Seq(Nat)
        BY <1>1, <4>1, ConcatProperties
      <4>3. QED
        BY <2>2, <4>1, <4>2
    <3>8. QED
      BY <3>3, <3>4, <3>6, <3>7
  <2>3. QED
    BY <2>1, <2>2, PumpSerialIs
<1>3. TypeOK'
  <2>1. ran' \in [Clients \union {None} -> Seq(Pieces)] /\ line' \in Seq(Pieces)
    <3>1. \A s \in Seq(Nat) : s \in Seq(Pieces)
      BY SeqPieces
    <3>2. QED
      BY <1>1, <1>2, <3>1
  <2>2. keys' \in Nat
    BY <1>1
  <2>3. QED
    BY <1>1, <1>2, <2>1, <2>2 DEF Base, TypeOK, maps
<1>4. FreshOK' /\ RunsOK'
  BY <1>1, <1>2 DEF Base, FreshOK, RunsOK, maps
<1>5. QED
  BY <1>2, <1>3, <1>4 DEF Base

LEMMA BackspaceBase ==
  ASSUME Base, Backspace
  PROVE  Base'
<1>1. line' = SubSeq(line, 1, Len(line) - 1) /\ UNCHANGED <<tcp, maps, buf, frames, history, raced, uaf>>
  BY DEF Backspace
<1>2. line' \in Seq(Nat)
  <2>1. line \in Seq(Nat)
    BY DEF Base, RunsOK
  <2>2. QED
    BY <1>1, <2>1, ButLast
<1>3. line' \in Seq(Pieces)
  BY <1>2, SeqPieces
<1>4. TypeOK'
  BY <1>1, <1>3 DEF Base, TypeOK, tcp, maps, history
<1>5. FramesOK' /\ StoreOK' /\ FreshOK' /\ RunsOK'
  BY <1>1, <1>2 DEF Base, FramesOK, StoreOK, FreshOK, RunsOK, maps, history, Top
<1>6. QED
  BY <1>4, <1>5 DEF Base

LEMMA SerialReturnsBase ==
  ASSUME Base, SerialReturns
  PROVE  Base'
<1>1. /\ frames # <<>> /\ Return /\ line' = <<>>
      /\ UNCHANGED <<tcp, maps, buf, history, raced, uaf>>
  BY DEF SerialReturns, At
<1>2. frames \in Seq(Frame) /\ FramesOK /\ counter' = counter
  BY <1>1 DEF Base, TypeOK, maps
<1>3. frames' \in Seq(Frame)
  BY <1>1, <1>2, ReturnIs
<1>4. FramesOK' /\ (frames' # <<>> => Top'.pc = "run")
  BY <1>1, <1>2, ReturnKeeps
<1>5. StoreOK'
  BY <1>4, NoStore
<1>6. line' \in Seq(Nat) /\ line' \in Seq(Pieces)
  BY <1>1, EmptySeq
<1>7. TypeOK'
  BY <1>1, <1>3, <1>6 DEF Base, TypeOK, tcp, maps, history
<1>8. FreshOK' /\ RunsOK'
  BY <1>1, <1>6 DEF Base, FreshOK, RunsOK, maps, history
<1>9. QED
  BY <1>4, <1>5, <1>7, <1>8 DEF Base

LEMMA NextBase == Base /\ [Next]_vars => Base'
<1> SUFFICES ASSUME Base, [Next]_vars PROVE Base'
  OBVIOUS
<1>1. CASE LoopStarts \/ Wait
  BY <1>1, EnterLoopBase
<1>2. CASE Accept
  BY <1>2, AcceptBase
<1>3. CASE Pop
  BY <1>3, PopBase
<1>4. CASE Iterate \/ NextClient
  BY <1>4, GoOnBase
<1>5. CASE StartLine
  BY <1>5, StartLineBase
<1>6. CASE CommandReturns
  BY <1>6, CommandReturnsBase
<1>7. CASE Store
  BY <1>7, StoreBase
<1>8. CASE PumpSerial
  BY <1>8, PumpSerialBase
<1>9. CASE Backspace
  BY <1>9, BackspaceBase
<1>10. CASE SerialReturns
  BY <1>10, SerialReturnsBase
<1>11. CASE Stop \/ \E c \in Clients : Disconnect(c)
  BY <1>11, DropBase
<1>12. CASE Start
  BY <1>12, StartBase
<1>13. CASE \E c \in Clients : Connect(c) \/ Data(c)
  BY <1>13, ConnectBase, DataBase
<1>14. CASE UNCHANGED vars
  BY <1>14 DEF vars, tcp, maps, history, Base, TypeOK, FramesOK, StoreOK, FreshOK, RunsOK, Top
<1>15. QED
  BY <1>1, <1>2, <1>3, <1>4, <1>5, <1>6, <1>7, <1>8, <1>9, <1>10, <1>11, <1>12, <1>13, <1>14
  DEF Next, Loop

(* In every reachable state the activations, the maps, the buffers and     *)
(* what runs are well formed.                                              *)
LEMMA BaseAlways == Spec => []Base
<1>1. QED
  BY InitBase, NextBase, PTL DEF Spec

(* Every activation is at an id there is, and the buffers and the line     *)
(* hold pieces: whatever comes while a command waits, the variables keep   *)
(* their types, also where a frame goes on in a buffer changed below it.   *)
THEOREM TelnetTypeCorrect == Spec => []TypeOK
<1>1. Base => TypeOK
  BY DEF Base
<1>2. QED
  BY <1>1, BaseAlways, PTL

-----------------------------------------------------------------------------
(* Who is connected.                                                       *)

Popping == frames # <<>> /\ Top.pc = "pop"

(* The clients that no id was given to yet.                                *)
Unserved ==
  {c \in Clients : \/ net[c] = "new"
                   \/ \E k \in 1..Len(incoming) : incoming[k] = c /\ ~(Popping /\ k = Len(incoming))}

(* There is an id for each of them, so that initClient gives out one of    *)
(* its own each time.                                                      *)
Counted == counter + Cardinality(Unserved) <= Cardinality(Clients)
LiveOnce == \A i, j \in Ids : live[i] = live[j] /\ live[i] # None => i = j
StackOnce == \A j, k \in 1..Len(incoming) : incoming[j] = incoming[k] => j = k
StackNet == \A k \in 1..Len(incoming) : net[incoming[k]] \in {"up", "gone"}
LiveUp == \A id \in Ids : live[id] # None => net[live[id]] = "up"
UpFound ==
  \A c \in Clients : net[c] = "up" =>
    (\E id \in Ids : live[id] = c) \/ (\E k \in 1..Len(incoming) : incoming[k] = c)
Apart == \A id \in Ids, k \in 1..Len(incoming) :
  live[id] = incoming[k] => Popping /\ k = Len(incoming)
PopOK ==
  Popping => /\ incoming # <<>>
             /\ net[incoming[Len(incoming)]] = "up" => \E id \in Ids : live[id] = incoming[Len(incoming)]

Sess == Counted /\ LiveOnce /\ StackOnce /\ StackNet /\ LiveUp /\ UpFound /\ Apart /\ PopOK
SessInv == ~uaf /\ ~raced => Sess

LEMMA UnservedIs == IsFiniteSet(Unserved) /\ Cardinality(Unserved) \in Nat
<1>1. IsFiniteSet(Unserved)
  BY Constants, FS_Subset DEF Unserved
<1>2. QED
  BY <1>1, FS_CardinalityType

LEMMA InitSess == Init => Sess
<1> SUFFICES ASSUME Init PROVE Sess
  OBVIOUS
<1>1. Len(<<>>) = 0
  OBVIOUS
<1>2. Unserved = Clients
  BY DEF Init, Unserved
<1>3. Counted
  BY <1>2, Constants DEF Init, Counted
<1>4. QED
  BY <1>1, <1>3 DEF Init, Sess, LiveOnce, StackOnce, StackNet, LiveUp, UpFound, Apart, PopOK, Popping

(* The steps that leave the connections, the stack and the maps alone.     *)
LEMMA SessSame ==
  ASSUME Sess, UNCHANGED <<net, incoming, counter, live>>, Popping' <=> Popping
  PROVE  Sess'
<1>1. Unserved' = Unserved
  BY DEF Unserved
<1>2. QED
  BY <1>1 DEF Sess, Counted, LiveOnce, StackOnce, StackNet, LiveUp, UpFound, Apart, PopOK

LEMMA FrameSteps ==
  ASSUME Base, ~uaf',
         LoopStarts \/ Wait \/ Iterate \/ NextClient \/ StartLine \/ CommandReturns \/ Store
           \/ PumpSerial \/ Backspace \/ SerialReturns \/ Start \/ \E c \in Clients : Data(c)
  PROVE  UNCHANGED <<net, incoming, counter, live>> /\ (Popping' <=> Popping)
<1>1. ~Misuse
  BY DEF Misuse
<1>2. CASE LoopStarts \/ Wait
  <2>1. ~Popping
    BY <1>2 DEF Popping, LoopStarts, Wait, At
  <2>2. ~Popping'
    BY <1>2, EnterLoopIs, NewLoopIs DEF Popping
  <2>3. QED
    BY <1>2, <2>1, <2>2 DEF LoopStarts, Wait, tcp, maps
<1>3. CASE Iterate \/ NextClient
  <2>1. /\ frames # <<>> /\ Top.pc \in {"accept", "handle"} /\ GoOn
        /\ UNCHANGED <<net, incoming, counter, live>>
    BY <1>1, <1>3 DEF Iterate, NextClient, At, tcp, maps
  <2>2. ASSUME NEW id \in Ids, Top' = [Top EXCEPT !.pc = "handle", !.at = id]
        PROVE  Top'.pc = "handle"
    BY <2>1, <2>2, TopFields DEF Frame
  <2>3. frames' # <<>> => Top'.pc \in {"handle", "run"}
    BY <2>1, <2>2, GoOnIs
  <2>4. QED
    BY <2>1, <2>3 DEF Popping
<1>4. CASE StartLine
  <2>1. PICK id \in Ids, i \in Nat, cut \in Seq(Pieces) :
          /\ frames # <<>> /\ Top.pc = "handle" /\ Top.at = id /\ id # Serial
          /\ \/ Goto(Remaining(cut, i)) \/ Goto([Top EXCEPT !.pc = "run", !.i = i])
          /\ UNCHANGED <<net, incoming, counter, live>>
    BY <1>4, StartLineIs DEF tcp, maps
  <2>2. Top \in Frame /\ frames \in Seq(Frame) /\ Len(frames) \in Nat \ {0}
    BY <2>1, TopFields
  <2>3. Len(frames') = Len(frames) /\ frames'[Len(frames)].pc \in {"store", "run"}
    <3>1. CASE Goto(Remaining(cut, i))
      <4>1. Remaining(cut, i).pc = "store"
        BY <2>2 DEF Remaining, Frame
      <4>2. frames' = [frames EXCEPT ![Len(frames)] = Remaining(cut, i)]
        BY <3>1 DEF Goto
      <4>3. QED
        BY <2>2, <4>1, <4>2
    <3>2. CASE Goto([Top EXCEPT !.pc = "run", !.i = i])
      BY <2>2, <3>2 DEF Goto, Frame
    <3>3. QED
      BY <2>1, <3>1, <3>2
  <2>4. QED
    BY <2>1, <2>3 DEF Popping, Top
<1>5. CASE CommandReturns
  BY <1>1, <1>5, CommandReturnsIs DEF Popping, tcp, maps
<1>6. CASE Store
  BY <1>1, <1>6, StoreIs DEF Popping, tcp, maps
<1>7. CASE PumpSerial
  <2>1. ~Popping /\ frames = <<>> /\ UNCHANGED <<net, incoming, counter, live>>
    BY <1>7 DEF PumpSerial, Popping, maps
  <2>2. CASE frames' = frames
    BY <2>1, <2>2 DEF Popping
  <2>3. CASE Enter([NewLoop EXCEPT !.pc = "run"])
    <3>1. frames \in Seq(Frame)
      BY DEF Base, TypeOK
    <3>2. Len(frames') = Len(frames) + 1 /\ frames'[Len(frames) + 1] = [NewLoop EXCEPT !.pc = "run"]
      BY <2>3, <3>1, EnterIs, NewLoopIs
    <3>3. Top'.pc = "run"
      BY <3>2, NewLoopIs DEF Top
    <3>4. QED
      BY <2>1, <3>3 DEF Popping
  <2>4. QED
    BY <1>7, <2>2, <2>3, PumpSerialIs
<1>8. CASE SerialReturns
  <2>1. /\ frames # <<>> /\ Top.pc = "run" /\ Return /\ UNCHANGED <<net, incoming, counter, live>>
    BY <1>8 DEF SerialReturns, At, tcp, maps
  <2>2. frames' # <<>> => Top'.pc = "run"
    BY <2>1, ReturnKeeps DEF Base, TypeOK
  <2>3. QED
    BY <2>1, <2>2 DEF Popping
<1>9. CASE Backspace \/ Start \/ \E c \in Clients : Data(c)
  <2>1. UNCHANGED <<net, incoming, counter, live, frames>>
    BY <1>9, DataIs DEF Backspace, Start, tcp, maps
  <2>2. QED
    BY <2>1 DEF Popping, Top
<1>10. QED
  BY <1>2, <1>3, <1>4, <1>5, <1>6, <1>7, <1>8, <1>9

LEMMA ConnectSess ==
  ASSUME Base, Sess, NEW c \in Clients, Connect(c), ~raced'
  PROVE  Sess'
<1>1. /\ net[c] = "new" /\ net' = [net EXCEPT ![c] = "up"] /\ incoming' = Append(incoming, c)
      /\ ~Popping /\ frames' = frames /\ counter' = counter /\ live' = live
  BY DEF Connect, At, Popping
<1>2. /\ incoming \in Seq(Clients) /\ net \in [Clients -> {"new", "up", "cut", "gone"}]
      /\ live \in [Ids -> Clients \union {None}]
  BY DEF Base, TypeOK
<1>3. /\ Len(incoming) \in Nat /\ Len(incoming') = Len(incoming) + 1
      /\ \A k \in 1..Len(incoming) : incoming'[k] = incoming[k] /\ incoming[k] \in Clients
      /\ incoming'[Len(incoming) + 1] = c
  BY <1>1, <1>2, AppendProperties, ElementOfSeq
<1>4. ~Popping'
  BY <1>1 DEF Popping, Top
<1>5. \A k \in 1..Len(incoming) : incoming[k] # c
  BY <1>1 DEF Sess, StackNet
<1>6. Unserved' = Unserved
  <2>1. ASSUME NEW d \in Clients, d # c PROVE d \in Unserved' <=> d \in Unserved
    BY <1>1, <1>2, <1>3, <1>4, <2>1 DEF Unserved
  <2>2. c \in Unserved' /\ c \in Unserved
    <3>1. Len(incoming) + 1 \in 1..Len(incoming')
      BY <1>3
    <3>2. QED
      BY <1>1, <1>3, <1>4, <3>1 DEF Unserved
  <2>3. QED
    BY <2>1, <2>2 DEF Unserved
<1>7. Counted' /\ LiveOnce'
  BY <1>1, <1>6 DEF Sess, Counted, LiveOnce
<1>8. StackOnce'
  BY <1>3, <1>5 DEF Sess, StackOnce
<1>9. StackNet'
  BY <1>1, <1>2, <1>3, <1>5 DEF Sess, StackNet
<1>10. LiveUp'
  BY <1>1, <1>2 DEF Sess, LiveUp
<1>11. UpFound'
  <2>1. ASSUME NEW d \in Clients, net'[d] = "up"
        PROVE  (\E id \in Ids : live'[id] = d) \/ (\E k \in 1..Len(incoming') : incoming'[k] = d)
    <3>1. CASE d = c
      BY <1>3, <3>1
    <3>2. CASE d # c
      BY <1>1, <1>2, <1>3, <2>1, <3>2 DEF Sess, UpFound
    <3>3. QED
      BY <3>1, <3>2
  <2>2. QED
    BY <2>1 DEF UpFound
<1>12. Apart'
  <2>1. \A id \in Ids : live[id] # c
    BY <1>1, Constants DEF Sess, LiveUp
  <2>2. QED
    BY <1>1, <1>3, <2>1 DEF Sess, Apart
<1>13. PopOK'
  BY <1>4 DEF PopOK
<1>14. QED
  BY <1>7, <1>8, <1>9, <1>10, <1>11, <1>12, <1>13 DEF Sess

LEMMA AcceptSess ==
  ASSUME Base, Sess, Accept, ~uaf'
  PROVE  Sess'
<1> DEFINE c == incoming[Len(incoming)]
           new == counter + 1
<1>1. /\ ~Popping /\ Popping' /\ c \in Clients /\ incoming # <<>> /\ net[c] # "gone"
      /\ counter' = new /\ live' = [live EXCEPT ![new] = c]
      /\ UNCHANGED <<net, incoming>>
  <2>1. /\ frames # <<>> /\ Top.pc = "accept" /\ c \in Clients /\ incoming # <<>> /\ net[c] # "gone"
        /\ counter' = new /\ live' = [live EXCEPT ![new] = c]
        /\ frames' # <<>> /\ Top' = [Top EXCEPT !.pc = "pop"] /\ UNCHANGED <<net, incoming>>
    BY AcceptIs DEF Misuse, tcp
  <2>2. Top'.pc = "pop"
    BY <2>1, TopFields DEF Frame
  <2>3. QED
    BY <2>1, <2>2 DEF Popping
<1>2. /\ incoming \in Seq(Clients) /\ counter \in Nat /\ net \in [Clients -> {"new", "up", "cut", "gone"}]
      /\ live \in [Ids -> Clients \union {None}] /\ Len(incoming) \in 1..Len(incoming)
  <2>1. /\ incoming \in Seq(Clients) /\ counter \in Nat /\ net \in [Clients -> {"new", "up", "cut", "gone"}]
        /\ live \in [Ids -> Clients \union {None}]
    BY DEF Base, TypeOK
  <2>2. QED
    BY <1>1, <2>1, EmptySeq
<1> HIDE DEF c
<1>3. c = incoming[Len(incoming)]
  BY DEF c
<1>4. net[c] = "up"
  BY <1>1, <1>2, <1>3 DEF Sess, StackNet
<1>5. /\ c \in Unserved /\ Unserved' = Unserved \ {c}
  <2>1. c \in Unserved
    BY <1>1, <1>2, <1>3 DEF Unserved
  <2>2. c \notin Unserved'
    BY <1>1, <1>2, <1>3, <1>4 DEF Unserved, Sess, StackOnce
  <2>3. ASSUME NEW d \in Clients, d # c PROVE d \in Unserved' <=> d \in Unserved
    BY <1>1, <1>2, <1>3, <2>3 DEF Unserved
  <2>4. QED
    BY <2>1, <2>2, <2>3 DEF Unserved
<1>6. /\ Cardinality(Unserved) \in Nat /\ Cardinality(Unserved') \in Nat
      /\ Cardinality(Unserved') = Cardinality(Unserved) - 1
  BY <1>5, UnservedIs, FS_RemoveElement, FS_CardinalityType
<1>7. new \in Ids /\ Counted'
  BY <1>1, <1>2, <1>6, Constants DEF Sess, Counted, Ids
<1>8. /\ live'[new] = c /\ \A id \in Ids : id # new => live'[id] = live[id]
      /\ live[new] = None
  <2>1. live'[new] = c /\ \A id \in Ids : id # new => live'[id] = live[id]
    BY <1>1, <1>2, <1>7
  <2>2. live[new] = None
    BY <1>2, <1>7 DEF Base, FreshOK
  <2>3. QED
    BY <2>1, <2>2
<1>9. \A id \in Ids, k \in 1..Len(incoming) : live[id] # incoming[k]
  BY <1>1 DEF Sess, Apart
<1> HIDE DEF new
<1>10. LiveOnce'
  <2>1. \A id \in Ids : id # new => live'[id] # c
    BY <1>2, <1>3, <1>8, <1>9
  <2>2. QED
    BY <1>8, <2>1 DEF Sess, LiveOnce
<1>11. StackOnce' /\ StackNet'
  BY <1>1 DEF Sess, StackOnce, StackNet
<1>12. LiveUp'
  BY <1>1, <1>4, <1>8 DEF Sess, LiveUp
<1>13. UpFound'
  <2>1. ASSUME NEW d \in Clients, net'[d] = "up"
        PROVE  (\E id \in Ids : live'[id] = d) \/ (\E k \in 1..Len(incoming') : incoming'[k] = d)
    <3>1. ASSUME NEW id \in Ids, live[id] = d PROVE live'[id] = d
      BY <1>8, <3>1, Constants
    <3>2. QED
      BY <1>1, <2>1, <3>1 DEF Sess, UpFound
  <2>2. QED
    BY <2>1 DEF UpFound
<1>14. Apart'
  <2>1. ASSUME NEW id \in Ids, NEW k \in 1..Len(incoming), live'[id] = incoming[k]
        PROVE  k = Len(incoming)
    <3>1. id = new
      BY <1>8, <1>9, <2>1
    <3>2. incoming[k] = incoming[Len(incoming)]
      BY <1>3, <1>8, <2>1, <3>1
    <3>3. QED
      BY <1>2, <3>2 DEF Sess, StackOnce
  <2>2. QED
    BY <1>1, <2>1 DEF Apart
<1>15. PopOK'
  BY <1>1, <1>3, <1>7, <1>8 DEF PopOK
<1>16. QED
  BY <1>7, <1>10, <1>11, <1>12, <1>13, <1>14, <1>15 DEF Sess

LEMMA PopSess ==
  ASSUME Base, Sess, Pop
  PROVE  Sess'
<1> DEFINE n == Len(incoming)
<1>1. /\ Popping /\ ~Popping' /\ incoming' = SubSeq(incoming, 1, n - 1)
      /\ UNCHANGED <<net, counter, live>>
  <2>1. /\ frames # <<>> /\ Top.pc = "pop" /\ Top' = [Top EXCEPT !.pc = "accept"]
        /\ incoming' = SubSeq(incoming, 1, n - 1) /\ UNCHANGED <<net, counter, live>>
    BY PopIs DEF tcp
  <2>2. Top'.pc = "accept"
    BY <2>1, TopFields DEF Frame
  <2>3. QED
    BY <2>1, <2>2 DEF Popping
<1>2. /\ incoming \in Seq(Clients) /\ incoming # <<>> /\ n \in Nat \ {0}
      /\ net \in [Clients -> {"new", "up", "cut", "gone"}]
  BY <1>1, EmptySeq DEF Sess, PopOK, Base, TypeOK
<1>3. Len(incoming') = n - 1 /\ \A k \in 1..n - 1 : incoming'[k] = incoming[k]
  BY <1>1, <1>2, ButLast
<1> HIDE DEF n
<1>4. n = Len(incoming)
  BY DEF n
<1>5. Unserved' = Unserved
  <2>1. ASSUME NEW d \in Clients PROVE d \in Unserved' <=> d \in Unserved
    <3>1. \A k \in 1..n : ~(Popping /\ k = n) <=> k \in 1..n - 1
      BY <1>1, <1>2
    <3>2. \A k \in 1..n - 1 : k \in 1..n
      BY <1>2
    <3>3. QED
      BY <1>1, <1>2, <1>3, <1>4, <3>1, <3>2 DEF Unserved
  <2>2. QED
    BY <2>1 DEF Unserved
<1>6. \A k \in 1..n - 1 : k \in 1..n /\ k # n
  BY <1>2
<1>7. Counted' /\ LiveOnce' /\ LiveUp' /\ PopOK'
  BY <1>1, <1>5 DEF Sess, Counted, LiveOnce, LiveUp, PopOK
<1>8. StackOnce' /\ StackNet' /\ Apart'
  <2>1. \A k \in 1..Len(incoming') : k \in 1..n /\ k # n /\ incoming'[k] = incoming[k]
    BY <1>3, <1>6
  <2>2. StackOnce'
    BY <1>4, <2>1 DEF Sess, StackOnce
  <2>3. StackNet'
    BY <1>1, <1>4, <2>1 DEF Sess, StackNet
  <2>4. \A id \in Ids, k \in 1..Len(incoming') : live[id] # incoming'[k]
    BY <1>4, <2>1 DEF Sess, Apart
  <2>5. Apart'
    BY <1>1, <2>4 DEF Apart
  <2>6. QED
    BY <2>2, <2>3, <2>5
<1>9. UpFound'
  <2>1. ASSUME NEW d \in Clients, net'[d] = "up"
        PROVE  (\E id \in Ids : live'[id] = d) \/ (\E k \in 1..Len(incoming') : incoming'[k] = d)
    <3>1. CASE d = incoming[n]
      BY <1>1, <1>4, <2>1, <3>1 DEF Sess, PopOK
    <3>2. CASE d # incoming[n]
      <4>1. ASSUME NEW k \in 1..n, incoming[k] = d PROVE k \in 1..Len(incoming') /\ incoming'[k] = d
        BY <1>2, <1>3, <3>2, <4>1
      <4>2. QED
        BY <1>1, <1>4, <2>1, <4>1 DEF Sess, UpFound
    <3>3. QED
      BY <3>1, <3>2
  <2>2. QED
    BY <2>1 DEF UpFound
<1>10. QED
  BY <1>7, <1>8, <1>9 DEF Sess

LEMMA DisconnectSess ==
  ASSUME Base, Sess, NEW c \in Clients, Disconnect(c)
  PROVE  Sess'
<1>1. /\ net[c] = "up" /\ net' = [net EXCEPT ![c] = "gone"]
      /\ UNCHANGED <<incoming, counter, frames>> /\ (Popping' <=> Popping)
  BY DisconnectIs DEF Popping, Top
<1>2. /\ incoming \in Seq(Clients) /\ net \in [Clients -> {"new", "up", "cut", "gone"}]
      /\ live \in [Ids -> Clients \union {None}] /\ c # None
  BY Constants DEF Base, TypeOK
<1>3. \A id \in Ids : live'[id] = IF live[id] = c THEN None ELSE live[id]
  <2>1. CASE IdsOf(c) = {} /\ live' = live
    BY <2>1 DEF IdsOf
  <2>2. ASSUME NEW id \in Ids, live[id] = c, live' = [live EXCEPT ![id] = None]
        PROVE  \A j \in Ids : live'[j] = IF live[j] = c THEN None ELSE live[j]
    BY <1>2, <2>2 DEF Sess, LiveOnce
  <2>3. QED
    BY <2>1, <2>2, DisconnectIs
<1>4. Unserved' = Unserved
  <2>1. ASSUME NEW d \in Clients PROVE d \in Unserved' <=> d \in Unserved
    BY <1>1, <1>2 DEF Unserved
  <2>2. QED
    BY <2>1 DEF Unserved
<1>5. Counted' /\ StackOnce'
  BY <1>1, <1>4 DEF Sess, Counted, StackOnce
<1>6. LiveOnce' /\ Apart'
  <2>1. \A k \in 1..Len(incoming) : incoming[k] # None
    BY <1>2, ElementOfSeq, Constants
  <2>2. QED
    BY <1>1, <1>2, <1>3, <2>1 DEF Sess, LiveOnce, Apart
<1>7. StackNet'
  <2>1. \A k \in 1..Len(incoming) : incoming[k] \in Clients
    BY <1>2, ElementOfSeq
  <2>2. QED
    BY <1>1, <1>2, <2>1 DEF Sess, StackNet
<1>8. LiveUp'
  BY <1>1, <1>2, <1>3 DEF Sess, LiveUp
<1>9. \A d \in Clients, id \in Ids : d # c /\ live[id] = d => live'[id] = d
  BY <1>3
<1>10. UpFound'
  BY <1>1, <1>2, <1>9 DEF Sess, UpFound
<1>11. PopOK'
  <2>1. ASSUME Popping, incoming # <<>> PROVE incoming[Len(incoming)] \in Clients
    BY <1>2, <2>1, EmptySeq, ElementOfSeq
  <2>2. QED
    BY <1>1, <1>2, <1>9, <2>1 DEF Sess, PopOK
<1>12. QED
  BY <1>5, <1>6, <1>7, <1>8, <1>10, <1>11 DEF Sess

LEMMA StopSess ==
  ASSUME Base, Sess, Stop
  PROVE  Sess'
<1>1. /\ incoming' = <<>> /\ live' = [id \in Ids |-> None] /\ counter' = counter
      /\ net' = [c \in Clients |-> IF net[c] = "up" THEN "cut" ELSE net[c]]
      /\ frames' = frames /\ ~Popping
  BY DEF Stop, InProgram, At, Popping
<1>2. ~Popping' /\ Len(incoming') = 0
  BY <1>1 DEF Popping, Top
<1>3. Unserved' \subseteq Unserved
  BY <1>1, <1>2 DEF Unserved
<1>4. /\ Cardinality(Unserved) \in Nat /\ Cardinality(Unserved') \in Nat
      /\ Cardinality(Unserved') <= Cardinality(Unserved)
  BY <1>3, UnservedIs, FS_Subset, FS_CardinalityType
<1>5. Counted'
  BY <1>1, <1>4, Constants DEF Sess, Counted, Base, TypeOK
<1>6. LiveOnce' /\ StackOnce' /\ StackNet' /\ LiveUp' /\ Apart' /\ PopOK'
  BY <1>1, <1>2 DEF LiveOnce, StackOnce, StackNet, LiveUp, Apart, PopOK
<1>7. UpFound'
  BY <1>1 DEF UpFound
<1>8. QED
  BY <1>5, <1>6, <1>7 DEF Sess

(* Misuse of memory is noted for good.                                     *)
LEMMA UafStays ==
  ASSUME [Next]_vars, ~uaf'
  PROVE  ~uaf
<1>1. CASE UNCHANGED vars
  BY <1>1 DEF vars
<1>2. CASE Misuse
  BY <1>2 DEF Misuse
<1>3. CASE LoopStarts \/ Wait \/ Pop \/ Iterate \/ StartLine \/ Stop \/ Start
  BY <1>3 DEF LoopStarts, Wait, Pop, Iterate, StartLine, Stop, Start, At, InProgram
<1>4. CASE (Accept \/ NextClient \/ CommandReturns \/ Store) /\ ~Misuse
  BY <1>4 DEF Accept, NextClient, CommandReturns, Store, At
<1>5. CASE PumpSerial \/ Backspace \/ SerialReturns
  BY <1>5 DEF PumpSerial, Backspace, SerialReturns, At
<1>6. ASSUME NEW c \in Clients, Connect(c) \/ Data(c) \/ Disconnect(c) PROVE ~uaf
  BY <1>6 DEF Connect, Data, Disconnect
<1>7. QED
  BY <1>1, <1>2, <1>3, <1>4, <1>5, <1>6 DEF Next, Loop

LEMMA RacedStays ==
  ASSUME [Next]_vars, ~uaf', ~raced'
  PROVE  ~raced
<1>1. CASE UNCHANGED vars
  BY <1>1 DEF vars
<1>2. CASE Misuse
  BY <1>2 DEF Misuse
<1>3. CASE LoopStarts \/ Wait \/ Pop \/ Iterate \/ StartLine \/ Stop \/ Start
  BY <1>3 DEF LoopStarts, Wait, Pop, Iterate, StartLine, Stop, Start
<1>4. CASE (Accept \/ NextClient \/ CommandReturns \/ Store) /\ ~Misuse
  BY <1>4 DEF Accept, NextClient, CommandReturns, Store
<1>5. CASE PumpSerial \/ Backspace \/ SerialReturns
  BY <1>5 DEF PumpSerial, Backspace, SerialReturns
<1>6. ASSUME NEW c \in Clients, Connect(c) PROVE ~raced
  <2>1. raced' = (raced \/ At("pop"))
    BY <1>6 DEF Connect
  <2>2. QED
    BY <2>1, Zenon
<1>7. ASSUME NEW c \in Clients, Disconnect(c) PROVE ~raced
  BY <1>7 DEF Disconnect
<1>8. ASSUME NEW c \in Clients, Data(c) PROVE ~raced
  <2>1. CASE IdsOf(c) = {}
    BY <1>8, <2>1 DEF Data
  <2>2. CASE IdsOf(c) # {}
    <3>1. raced' = (raced \/ (At("store") /\ Top.at = First(IdsOf(c))))
      BY <1>8, <2>2, Zenon DEF Data
    <3>2. QED
      BY <3>1, Zenon
  <2>3. QED
    BY <2>1, <2>2
<1>9. QED
  BY <1>1, <1>2, <1>3, <1>4, <1>5, <1>6, <1>7, <1>8 DEF Next, Loop

LEMMA NextSess == Base /\ SessInv /\ [Next]_vars => SessInv'
<1> SUFFICES ASSUME Base, SessInv, [Next]_vars, ~uaf', ~raced' PROVE Sess'
  BY DEF SessInv
<1>1. Sess
  BY RacedStays, UafStays DEF SessInv
<1>2. CASE LoopStarts \/ Wait \/ Iterate \/ NextClient \/ StartLine \/ CommandReturns \/ Store
             \/ PumpSerial \/ Backspace \/ SerialReturns \/ Start \/ \E c \in Clients : Data(c)
  BY <1>1, <1>2, FrameSteps, SessSame
<1>3. CASE Accept
  BY <1>1, <1>3, AcceptSess
<1>4. CASE Pop
  BY <1>1, <1>4, PopSess
<1>5. CASE Stop
  BY <1>1, <1>5, StopSess
<1>6. CASE \E c \in Clients : Connect(c) \/ Disconnect(c)
  BY <1>1, <1>6, ConnectSess, DisconnectSess
<1>7. CASE UNCHANGED vars
  BY <1>1, <1>7, SessSame DEF vars, tcp, maps, Popping, Top
<1>8. QED
  BY <1>2, <1>3, <1>4, <1>5, <1>6, <1>7 DEF Next, Loop

LEMMA SessAlways == Spec => []SessInv
<1>1. Init => SessInv
  BY InitSess DEF SessInv
<1>2. QED
  BY <1>1, BaseAlways, NextSess, PTL DEF Spec

LEMMA SessionsHold == Base /\ SessInv => Sessions
<1> SUFFICES ASSUME Base, SessInv, ~uaf, ~raced, NEW c \in Clients
             PROVE  /\ net[c] = "up" => IdsOf(c) # {} \/ OnStack(c) # {}
                    /\ net[c] # "up" => IdsOf(c) = {}
                    /\ Cardinality(IdsOf(c)) <= 1 /\ Cardinality(OnStack(c)) <= 1
                    /\ IdsOf(c) # {} /\ OnStack(c) # {} => At("pop") /\ OnStack(c) = {Len(incoming)}
  BY DEF Sessions
<1>1. Sess /\ c # None
  BY Constants DEF SessInv
<1>2. ASSUME NEW S, \A i, j \in S : i = j PROVE Cardinality(S) <= 1
  <2>1. CASE S = {}
    BY <2>1, FS_EmptySet
  <2>2. ASSUME NEW i \in S PROVE Cardinality(S) = 1
    <3>1. S = {i}
      BY <1>2
    <3>2. QED
      BY <3>1, FS_Singleton
  <2>3. QED
    BY <2>1, <2>2
<1>3. \A i, j \in IdsOf(c) : i = j
  BY <1>1 DEF Sess, LiveOnce, IdsOf
<1>4. \A i, j \in OnStack(c) : i = j
  BY <1>1 DEF Sess, StackOnce, OnStack
<1>5. Cardinality(IdsOf(c)) <= 1
  BY <1>2, <1>3
<1>6. Cardinality(OnStack(c)) <= 1
  BY <1>2, <1>4
<1>7. net[c] = "up" => IdsOf(c) # {} \/ OnStack(c) # {}
  BY <1>1 DEF Sess, UpFound, IdsOf, OnStack
<1>8. net[c] # "up" => IdsOf(c) = {}
  BY <1>1 DEF Sess, LiveUp, IdsOf
<1>9. ASSUME IdsOf(c) # {}, OnStack(c) # {} PROVE At("pop") /\ OnStack(c) = {Len(incoming)}
  <2>1. Popping /\ \A k \in OnStack(c) : k = Len(incoming)
    BY <1>1, <1>9 DEF Sess, Apart, IdsOf, OnStack
  <2>2. QED
    BY <1>9, <2>1 DEF At, Popping
<1>10. QED
  BY <1>5, <1>6, <1>7, <1>8, <1>9

(* However callbacks of AsyncTCP and steps of the main loop interleave, a  *)
(* connected client is on the stack or in the maps, once, and one that has *)
(* left is in no map, until a client connects between top() and pop().     *)
(* initClient has an id left for each client that still waits for one.     *)
THEOREM OneSessionEach == Spec => []Sessions
BY SessAlways, BaseAlways, SessionsHold, PTL

-----------------------------------------------------------------------------
(* The order of what runs.  The lines of a console are numbered in the     *)
(* order in which they are typed.                                          *)

TypedInOrder ==
  \A c \in Clients \union {None} : \A j, k \in 1..Len(Typed[c]) : j < k => Typed[c][j] < Typed[c][k]

(* A text x was typed before what comes after the first n pieces.          *)
Known(c, n, x) == \A m \in 1..Len(Typed[c]) : 2 * m - 1 > n => x < Typed[c][m]

(* What ran, r, is in order and was typed.                                 *)
RanGood(c, n, r) ==
  /\ \A j, k \in 1..Len(r) : j < k /\ r[j] > 0 /\ r[k] > 0 => r[j] < r[k]
  /\ \A j \in 1..Len(r) : r[j] > 0 => Known(c, n, r[j])

(* What a buffer holds after h comes after what ran, and in order.         *)
BufGood(c, n, r, b, h) ==
  /\ \A j, k \in h + 1..Len(b) : j < k /\ b[j] > 0 /\ b[k] > 0 => b[j] < b[k]
  /\ \A k \in h + 1..Len(b) : b[k] > 0 => Known(c, n, b[k])
  /\ \A j \in 1..Len(r) : \A k \in h + 1..Len(b) : r[j] > 0 /\ b[k] > 0 => r[j] < b[k]

LEMMA MoreKnown ==
  ASSUME NEW c, NEW n \in Nat, NEW r, NEW b, NEW h,
         Len(Typed[c]) \in Nat
  PROVE  /\ RanGood(c, n, r) => RanGood(c, n + 1, r)
         /\ BufGood(c, n, r, b, h) => BufGood(c, n + 1, r, b, h)
<1>1. ASSUME NEW x, Known(c, n, x) PROVE Known(c, n + 1, x)
  BY <1>1 DEF Known
<1>2. QED
  BY <1>1 DEF RanGood, BufGood

(* The next piece goes to the end of the buffer.                           *)
LEMMA Arrives ==
  ASSUME TypedInOrder, NEW c \in Clients \union {None}, NEW n \in Nat, More(c, n),
         NEW r \in Seq(Nat), NEW b \in Seq(Pieces), NEW h \in Nat,
         RanGood(c, n, r), BufGood(c, n, r, b, h)
  PROVE  BufGood(c, n + 1, r, Fit(b, Piece(c, n + 1)), h)
<1> DEFINE p == Piece(c, n + 1)
           a == Fit(b, p)
<1>1. /\ p \in Nat
      /\ p = 0 \/ \E m \in 1..Len(Typed[c]) : n + 1 = 2 * m - 1 /\ p = Typed[c][m]
  BY PieceIs DEF NL
<1>2. Len(Typed[c]) \in Nat /\ \A m \in 1..Len(Typed[c]) : Typed[c][m] \in Nat
  BY Constants, ElementOfSeq
<1> HIDE DEF p
<1>3. /\ a \in Seq(Pieces) /\ Len(b) \in Nat /\ Len(a) \in Nat /\ Len(b) <= Len(a)
      /\ \A k \in 1..Len(b) : a[k] = b[k]
      /\ \A k \in 1..Len(a) : k \notin 1..Len(b) => k = Len(b) + 1 /\ a[k] = p
  <2>1. p \in Pieces
    BY <1>1 DEF Pieces
  <2>2. QED
    BY <2>1, FitIs
<1> HIDE DEF a
<1>4. \A k \in 1..Len(b) : b[k] \in Int
  <2>1. \A k \in 1..Len(b) : b[k] \in Pieces
    BY ElementOfSeq
  <2>2. QED
    BY <2>1 DEF Pieces, Nul
<1>5. \A j \in 1..Len(r) : r[j] \in Nat
  BY ElementOfSeq
<1>6. ASSUME NEW x, Known(c, n, x) PROVE Known(c, n + 1, x) /\ (p > 0 => x < p)
  <2>1. Known(c, n + 1, x)
    BY <1>2, <1>6 DEF Known
  <2>2. ASSUME NEW m \in 1..Len(Typed[c]), n + 1 = 2 * m - 1, p = Typed[c][m] PROVE x < p
    BY <1>2, <1>6, <2>2 DEF Known
  <2>3. QED
    BY <1>1, <2>1, <2>2
<1>7. p > 0 => Known(c, n + 1, p)
  <2>1. ASSUME NEW m \in 1..Len(Typed[c]), n + 1 = 2 * m - 1, p = Typed[c][m] PROVE Known(c, n + 1, p)
    <3>1. ASSUME NEW q \in 1..Len(Typed[c]), 2 * q - 1 > n + 1 PROVE p < Typed[c][q]
      <4>1. m < q
        BY <1>2, <2>1, <3>1
      <4>2. QED
        BY <2>1, <4>1 DEF TypedInOrder
    <3>2. QED
      BY <3>1 DEF Known
  <2>2. QED
    BY <1>1, <2>1
<1>8. ASSUME NEW k \in h + 1..Len(a)
      PROVE  \/ k \in h + 1..Len(b) /\ k <= Len(b) /\ a[k] = b[k]
             \/ k = Len(b) + 1 /\ a[k] = p
  BY <1>3
<1>9. ASSUME NEW k \in h + 1..Len(a), a[k] > 0 PROVE Known(c, n + 1, a[k])
  BY <1>6, <1>7, <1>8, <1>9 DEF BufGood
<1>10. ASSUME NEW j \in h + 1..Len(a), NEW k \in h + 1..Len(a), j < k, a[j] > 0, a[k] > 0
       PROVE  a[j] < a[k]
  <2>1. j \in h + 1..Len(b) /\ a[j] = b[j]
    BY <1>3, <1>8, <1>10
  <2>2. CASE k \in h + 1..Len(b) /\ a[k] = b[k]
    BY <1>10, <2>1, <2>2 DEF BufGood
  <2>3. CASE a[k] = p
    <3>1. Known(c, n, b[j])
      BY <1>10, <2>1 DEF BufGood
    <3>2. QED
      BY <1>6, <1>10, <2>1, <2>3, <3>1
  <2>4. QED
    BY <1>8, <2>2, <2>3
<1>11. ASSUME NEW j \in 1..Len(r), NEW k \in h + 1..Len(a), r[j] > 0, a[k] > 0
       PROVE  r[j] < a[k]
  <2>1. CASE k \in h + 1..Len(b) /\ a[k] = b[k]
    BY <1>11, <2>1 DEF BufGood
  <2>2. CASE a[k] = p
    <3>1. Known(c, n, r[j])
      BY <1>11 DEF RanGood
    <3>2. QED
      BY <1>6, <1>11, <2>2, <3>1
  <2>3. QED
    BY <1>8, <2>1, <2>2
<1>12. QED
  BY <1>9, <1>10, <1>11 DEF BufGood, a, p

(* Parts of the buffer are moved down by d, taken off, or cut.             *)
LEMMA Shorter ==
  ASSUME NEW c, NEW n, NEW r, NEW b \in Seq(Pieces), NEW h \in Nat, BufGood(c, n, r, b, h),
         NEW a \in Seq(Pieces), NEW g \in Nat, NEW d \in Nat, Len(a) + d <= Len(b), h <= g + d,
         \A k \in g + 1..Len(a) : a[k] > 0 => a[k] = b[k + d]
  PROVE  BufGood(c, n, r, a, g)
<1>1. Len(a) \in Nat /\ Len(b) \in Nat
  BY LenProperties
<1>2. ASSUME NEW k \in g + 1..Len(a) PROVE k + d \in h + 1..Len(b)
  BY <1>1
<1>3. ASSUME NEW j \in g + 1..Len(a), NEW k \in g + 1..Len(a), j < k, a[j] > 0, a[k] > 0
      PROVE  a[j] < a[k]
  <2>1. j + d < k + d
    BY <1>1, <1>3
  <2>2. QED
    BY <1>2, <1>3, <2>1 DEF BufGood
<1>4. ASSUME NEW k \in g + 1..Len(a), a[k] > 0 PROVE Known(c, n, a[k])
  BY <1>2, <1>4 DEF BufGood
<1>5. ASSUME NEW j \in 1..Len(r), NEW k \in g + 1..Len(a), r[j] > 0, a[k] > 0
      PROVE  r[j] < a[k]
  BY <1>2, <1>5 DEF BufGood
<1>6. QED
  BY <1>3, <1>4, <1>5 DEF BufGood

LEMMA NothingIsGood ==
  ASSUME NEW c, NEW n, NEW r, NEW h \in Nat
  PROVE  BufGood(c, n, r, <<>>, h)
<1>1. Len(<<>>) = 0 /\ h + 1..0 = {}
  OBVIOUS
<1>2. QED
  BY <1>1 DEF BufGood

(* The start of the buffer runs, and is left alone from then on.           *)
LEMMA StartRuns ==
  ASSUME NEW c, NEW n, NEW r \in Seq(Nat), NEW b \in Seq(Pieces),
         RanGood(c, n, r), BufGood(c, n, r, b, 0),
         NEW x \in Seq(Nat), NEW i \in Nat, Len(x) <= i, i <= Len(b),
         \A k \in 1..Len(x) : x[k] = b[k]
  PROVE  RanGood(c, n, r \o x) /\ BufGood(c, n, r \o x, b, i)
<1> DEFINE y == r \o x
<1>1. Len(r) \in Nat /\ Len(x) \in Nat /\ Len(b) \in Nat
  BY LenProperties
<1>2. Len(y) = Len(r) + Len(x) /\ \A j \in 1..Len(y) : y[j] = IF j <= Len(r) THEN r[j] ELSE x[j - Len(r)]
  BY ConcatProperties
<1> HIDE DEF y
<1>3. ASSUME NEW j \in 1..Len(y)
      PROVE  \/ j \in 1..Len(r) /\ y[j] = r[j]
             \/ j > Len(r) /\ j - Len(r) \in 1..Len(x) /\ j - Len(r) \in 0 + 1..Len(b) /\ y[j] = b[j - Len(r)]
  <2>1. CASE j <= Len(r)
    BY <1>1, <1>2, <2>1
  <2>2. CASE j > Len(r)
    <3>1. j - Len(r) \in 1..Len(x) /\ j - Len(r) \in 0 + 1..Len(b) /\ ~(j <= Len(r))
      BY <1>1, <1>2, <2>2
    <3>2. y[j] = x[j - Len(r)] /\ x[j - Len(r)] = b[j - Len(r)]
      BY <1>2, <3>1
    <3>3. QED
      BY <2>2, <3>1, <3>2
  <2>3. QED
    BY <1>1, <2>1, <2>2
<1>4. ASSUME NEW j \in 1..Len(y), y[j] > 0 PROVE Known(c, n, y[j])
  BY <1>3, <1>4 DEF RanGood, BufGood
<1>5. ASSUME NEW j \in 1..Len(y), NEW k \in 1..Len(y), j < k, y[j] > 0, y[k] > 0
      PROVE  y[j] < y[k]
  <2>1. CASE k \in 1..Len(r) /\ y[k] = r[k]
    <3>1. j \in 1..Len(r) /\ y[j] = r[j]
      BY <1>1, <1>3, <1>5, <2>1
    <3>2. QED
      BY <1>5, <2>1, <3>1 DEF RanGood
  <2>2. CASE k > Len(r) /\ k - Len(r) \in 0 + 1..Len(b) /\ y[k] = b[k - Len(r)]
    <3>1. CASE j \in 1..Len(r) /\ y[j] = r[j]
      BY <1>5, <2>2, <3>1 DEF BufGood
    <3>2. CASE j - Len(r) \in 0 + 1..Len(b) /\ y[j] = b[j - Len(r)]
      <4>1. j - Len(r) < k - Len(r)
        BY <1>1, <1>5
      <4>2. QED
        BY <1>5, <2>2, <3>2, <4>1 DEF BufGood
    <3>3. QED
      BY <1>3, <3>1, <3>2
  <2>3. QED
    BY <1>3, <2>1, <2>2
<1>6. ASSUME NEW k \in i + 1..Len(b) PROVE k \in 0 + 1..Len(b)
  BY <1>1
<1>7. ASSUME NEW j \in 1..Len(y), NEW k \in i + 1..Len(b), y[j] > 0, b[k] > 0
      PROVE  y[j] < b[k]
  <2>1. CASE j \in 1..Len(r) /\ y[j] = r[j]
    BY <1>6, <1>7, <2>1 DEF BufGood
  <2>2. CASE j - Len(r) \in 1..Len(x) /\ j - Len(r) \in 0 + 1..Len(b) /\ y[j] = b[j - Len(r)]
    <3>1. j - Len(r) < k
      BY <1>1, <2>2
    <3>2. QED
      BY <1>6, <1>7, <2>2, <3>1 DEF BufGood
  <2>3. QED
    BY <1>3, <2>1, <2>2
<1>8. QED
  BY <1>4, <1>5, <1>6, <1>7 DEF RanGood, BufGood, y

(* Where the buffer of an id goes on, after what its first activation has  *)
(* cut off.                                                                *)
Offset(fs, id, h) ==
  \/ h = 0 /\ \A k \in 1..Len(fs) : fs[k].at # id
  \/ \E k \in 1..Len(fs) : h = fs[k].i /\ fs[k].at = id /\ \A j \in 1..k - 1 : fs[j].at # id

SerialRunning == \E k \in 1..Len(frames) : frames[k].pc = "run" /\ frames[k].at = Serial

(* Is an activation below the top at this id?                              *)
Below(id) == \E k \in 1..Len(frames) - 1 : frames[k].at = id

LEMMA OffsetEnter ==
  ASSUME frames \in Seq(Frame), NEW f \in Frame, Enter(f), NEW id \in Ids, f.at = Serial
  PROVE  \A h : Offset(frames', id, h) => Offset(frames, id, h)
<1>1. /\ Len(frames) \in Nat /\ Len(frames') = Len(frames) + 1 /\ id # Serial
      /\ \A k \in 1..Len(frames) : frames'[k] = frames[k]
      /\ frames'[Len(frames) + 1] = f
  BY EnterIs, Constants DEF Serial
<1>2. ASSUME NEW h, Offset(frames', id, h) PROVE Offset(frames, id, h)
  <2>1. \A k \in 1..Len(frames') : frames'[k].at = id => k \in 1..Len(frames)
    BY <1>1
  <2>2. \A k \in 1..Len(frames) : k \in 1..Len(frames') /\ \A j \in 1..k - 1 : j \in 1..Len(frames)
    BY <1>1
  <2>3. QED
    BY <1>1, <1>2, <2>1, <2>2 DEF Offset
<1>3. QED
  BY <1>2

(* What the top goes on to matters only where it is the first at its id.   *)
LEMMA OffsetTop ==
  ASSUME frames \in Seq(Frame), frames # <<>>, NEW id \in Ids, ~Below(id)
  PROVE  Offset(frames, id, IF Top.at = id THEN Top.i ELSE 0)
<1>1. Len(frames) \in Nat \ {0} /\ Len(frames) \in 1..Len(frames) /\ Top = frames[Len(frames)]
  BY TopIs
<1>2. CASE Top.at = id
  BY <1>1, <1>2 DEF Offset, Below
<1>3. CASE Top.at # id
  <2>1. \A k \in 1..Len(frames) : frames[k].at # id
    BY <1>1, <1>3 DEF Below
  <2>2. QED
    BY <1>3, <2>1 DEF Offset
<1>4. QED
  BY <1>2, <1>3

LEMMA OffsetGoto ==
  ASSUME frames \in Seq(Frame), frames # <<>>, NEW f \in Frame, Goto(f), NEW id \in Ids,
         NEW h, Offset(frames', id, h)
  PROVE  \/ Below(id) /\ Offset(frames, id, h)
         \/ ~Below(id) /\ h = (IF f.at = id THEN f.i ELSE 0)
<1>1. /\ Len(frames) \in Nat \ {0} /\ Len(frames') = Len(frames)
      /\ \A k \in 1..Len(frames) - 1 : k \in 1..Len(frames) /\ frames'[k] = frames[k]
      /\ frames'[Len(frames)] = f
  BY GotoIs
<1>2. CASE \A k \in 1..Len(frames') : frames'[k].at # id
  <2>1. ~Below(id) /\ f.at # id
    <3>1. Len(frames) \in 1..Len(frames') /\ \A k \in 1..Len(frames) - 1 : k \in 1..Len(frames')
      BY <1>1
    <3>2. QED
      BY <1>1, <1>2, <3>1 DEF Below
  <2>2. h = 0
    BY <1>2 DEF Offset
  <2>3. QED
    BY <2>1, <2>2
<1>3. ASSUME NEW k \in 1..Len(frames'), h = frames'[k].i, frames'[k].at = id,
             \A j \in 1..k - 1 : frames'[j].at # id
      PROVE  \/ Below(id) /\ Offset(frames, id, h)
             \/ ~Below(id) /\ h = (IF f.at = id THEN f.i ELSE 0)
  <2>1. CASE k = Len(frames)
    BY <1>1, <1>3, <2>1 DEF Below
  <2>2. CASE k # Len(frames)
    <3>1. k \in 1..Len(frames) - 1 /\ \A j \in 1..k - 1 : j \in 1..Len(frames) - 1
      BY <1>1, <2>2
    <3>2. Below(id)
      BY <1>1, <1>3, <3>1 DEF Below
    <3>3. Offset(frames, id, h)
      BY <1>1, <1>3, <3>1 DEF Offset
    <3>4. QED
      BY <3>2, <3>3
  <2>3. QED
    BY <2>1, <2>2
<1>4. QED
  BY <1>2, <1>3 DEF Offset

LEMMA OffsetReturn ==
  ASSUME frames \in Seq(Frame), frames # <<>>, Return, NEW id \in Ids,
         NEW h, Offset(frames', id, h)
  PROVE  \/ Below(id) /\ Offset(frames, id, h)
         \/ ~Below(id) /\ h = 0
<1>1. /\ Len(frames) \in Nat \ {0} /\ Len(frames') = Len(frames) - 1
      /\ \A k \in 1..Len(frames) - 1 : k \in 1..Len(frames) /\ frames'[k] = frames[k]
  BY ReturnIs
<1>2. CASE \A k \in 1..Len(frames') : frames'[k].at # id
  BY <1>1, <1>2 DEF Below, Offset
<1>3. ASSUME NEW k \in 1..Len(frames'), h = frames'[k].i, frames'[k].at = id,
             \A j \in 1..k - 1 : frames'[j].at # id
      PROVE  Below(id) /\ Offset(frames, id, h)
  <2>1. k \in 1..Len(frames) - 1 /\ \A j \in 1..k - 1 : j \in 1..Len(frames) - 1
    BY <1>1
  <2>2. QED
    BY <1>1, <1>3, <2>1 DEF Below, Offset
<1>4. QED
  BY <1>2, <1>3 DEF Offset

(* The Serial line goes on running below.                                  *)
LEMMA RunningGoto ==
  ASSUME frames \in Seq(Frame), frames # <<>>, NEW f \in Frame, Goto(f) \/ Return,
         Top.pc # "run" \/ Top.at # Serial, SerialRunning
  PROVE  SerialRunning'
<1>1. Len(frames) \in Nat \ {0} /\ Top = frames[Len(frames)]
  BY TopIs
<1>2. PICK k \in 1..Len(frames) : frames[k].pc = "run" /\ frames[k].at = Serial
  BY DEF SerialRunning
<1>3. k \in 1..Len(frames) - 1
  BY <1>1, <1>2
<1>4. k \in 1..Len(frames') /\ frames'[k] = frames[k]
  BY <1>1, <1>3, GotoIs, ReturnIs
<1>5. QED
  BY <1>2, <1>4 DEF SerialRunning

OffsetsStay ==
  /\ \A id \in Ids, h \in Nat : Offset(frames', id, h) => Offset(frames, id, h)
  /\ SerialRunning => SerialRunning'

(* The steps that only move the top leave each buffer where it was.        *)
LEMMA SameOffsets ==
  ASSUME Base, ~uaf',
         LoopStarts \/ Wait \/ Pop \/ Iterate \/ NextClient \/ CommandReturns
  PROVE  OffsetsStay /\ UNCHANGED <<sent, keys, live, buf, line, history>>
<1>1. ~Misuse
  BY DEF Misuse
<1>2. frames \in Seq(Frame)
  BY DEF Base, TypeOK
<1>3. CASE LoopStarts \/ Wait
  <2>1. Enter(NewLoop) /\ UNCHANGED <<sent, keys, live, buf, line, history>>
    BY <1>3, EnterLoopIs DEF tcp, maps
  <2>2. SerialRunning => SerialRunning'
    BY <1>2, <2>1, NewLoopIs, EnterIs DEF SerialRunning
  <2>3. \A id \in Ids, h \in Nat : Offset(frames', id, h) => Offset(frames, id, h)
    BY <1>2, <2>1, NewLoopIs, OffsetEnter
  <2>4. QED
    BY <2>1, <2>2, <2>3 DEF OffsetsStay
<1>4. ASSUME NEW f \in Frame, Goto(f), frames # <<>>,
             Top.pc # "run" \/ Top.at # Serial,
             \A id \in Ids : (IF f.at = id THEN f.i ELSE 0) = (IF Top.at = id THEN Top.i ELSE 0)
      PROVE  OffsetsStay
  <2>1. ASSUME NEW id \in Ids, NEW h \in Nat, Offset(frames', id, h) PROVE Offset(frames, id, h)
    <3>1. CASE Below(id)
      BY <1>2, <1>4, <2>1, <3>1, OffsetGoto
    <3>2. CASE ~Below(id)
      <4>1. h = (IF Top.at = id THEN Top.i ELSE 0)
        BY <1>2, <1>4, <2>1, <3>2, OffsetGoto
      <4>2. QED
        BY <1>2, <1>4, <3>2, <4>1, OffsetTop
    <3>3. QED
      BY <3>1, <3>2
  <2>2. SerialRunning => SerialRunning'
    BY <1>2, <1>4, RunningGoto
  <2>3. QED
    BY <1>4, <2>1, <2>2 DEF OffsetsStay
<1>5. ASSUME Return, frames # <<>>, Top.pc # "run", Top.i = 0
      PROVE  OffsetsStay
  <2>1. ASSUME NEW id \in Ids, NEW h \in Nat, Offset(frames', id, h) PROVE Offset(frames, id, h)
    <3>1. CASE Below(id)
      BY <1>2, <1>5, <2>1, <3>1, OffsetReturn
    <3>2. CASE ~Below(id)
      <4>1. h = 0 /\ h = (IF Top.at = id THEN Top.i ELSE 0)
        BY <1>2, <1>5, <2>1, <3>2, OffsetReturn
      <4>2. QED
        BY <1>2, <1>5, <3>2, <4>1, OffsetTop
    <3>3. QED
      BY <3>1, <3>2
  <2>2. SerialRunning => SerialRunning'
    BY <1>2, <1>5, NewLoopIs, RunningGoto
  <2>3. QED
    BY <1>5, <2>1, <2>2 DEF OffsetsStay
<1>6. CASE Pop
  <2> DEFINE f == [Top EXCEPT !.pc = "accept"]
  <2>1. /\ frames # <<>> /\ Top.pc = "pop" /\ Goto(f) /\ f \in Frame
        /\ UNCHANGED <<sent, keys, live, buf, line, history>>
    BY <1>6, PopIs DEF tcp
  <2>2. f.at = Top.at /\ f.i = Top.i
    BY <2>1, TopFields DEF Frame
  <2> HIDE DEF f
  <2>3. QED
    BY <1>4, <2>1, <2>2
<1>7. CASE Iterate \/ NextClient
  <2>1. /\ frames # <<>> /\ Top.pc \in {"accept", "handle"} /\ GoOn
        /\ UNCHANGED <<sent, keys, live, buf, line, history, counter>>
    BY <1>1, <1>7 DEF Iterate, NextClient, At, tcp, maps, history
  <2>2. Top.i = 0
    BY <2>1, TopFields
  <2>3. CASE Return
    BY <1>5, <2>1, <2>2, <2>3
  <2>4. ASSUME NEW id \in Ids, Goto([Top EXCEPT !.pc = "handle", !.at = id]),
               [Top EXCEPT !.pc = "handle", !.at = id] \in Frame
        PROVE  OffsetsStay
    <3> DEFINE f == [Top EXCEPT !.pc = "handle", !.at = id]
    <3>1. f.i = 0
      BY <2>1, <2>2, TopFields DEF Frame
    <3>2. f \in Frame /\ Goto(f)
      BY <2>4
    <3> HIDE DEF f
    <3>3. QED
      BY <1>4, <2>1, <2>2, <3>1, <3>2
  <2>5. QED
    BY <2>1, <2>3, <2>4, GoOnIs
<1>8. CASE CommandReturns
  <2> DEFINE f == Remaining(buf[Top.at], Top.i)
  <2>1. /\ frames # <<>> /\ Top.pc = "run" /\ Top.at \in Ids /\ Top.i <= Len(buf[Top.at])
        /\ Goto(f)
        /\ UNCHANGED <<sent, keys, live, buf, line, history, counter>>
    BY <1>1, <1>8, CommandReturnsIs DEF tcp, maps
  <2>2. Top.at # Serial /\ Top.i \in Nat /\ buf[Top.at] \in Seq(Pieces)
    BY <2>1, Constants, TopFields DEF Serial, Base, TypeOK
  <2>3. f \in Frame
    BY <2>1, <2>2, RemainingIs
  <2>4. f.at = Top.at /\ f.i = Top.i
    BY <2>1, TopFields DEF Frame, Remaining
  <2> HIDE DEF f
  <2>5. QED
    BY <1>4, <2>1, <2>2, <2>3, <2>4
<1>9. QED
  BY <1>3, <1>6, <1>7, <1>8

LEMMA AcceptOffsets ==
  ASSUME Base, Accept, ~uaf'
  PROVE  OffsetsStay
<1> DEFINE f == [Top EXCEPT !.pc = "pop"]
<1>1. frames # <<>> /\ Top.pc = "accept" /\ f \in Frame /\ Goto(f) /\ frames \in Seq(Frame)
  BY AcceptIs DEF Misuse, Base, TypeOK
<1>2. f.at = Serial /\ Top.at = Serial
  BY <1>1, TopFields DEF Frame
<1> HIDE DEF f
<1>3. ASSUME NEW id \in Ids, NEW h \in Nat, Offset(frames', id, h) PROVE Offset(frames, id, h)
  <2>1. f.at # id /\ Top.at # id
    BY <1>2, Constants DEF Serial
  <2>2. CASE Below(id)
    BY <1>1, <1>3, <2>2, OffsetGoto
  <2>3. CASE ~Below(id)
    <3>1. h = 0
      BY <1>1, <1>3, <2>1, <2>3, OffsetGoto
    <3>2. QED
      BY <1>1, <2>1, <2>3, <3>1, OffsetTop
  <2>4. QED
    BY <2>2, <2>3
<1>4. SerialRunning => SerialRunning'
  BY <1>1, RunningGoto
<1>5. QED
  BY <1>3, <1>4 DEF OffsetsStay

(* The buffer of the top starts afresh where no activation is below it.    *)
LEMMA StoreOffsets ==
  ASSUME Base, Store, ~uaf'
  PROVE  /\ \A id \in Ids, h \in Nat : Offset(frames', id, h) =>
              \/ Offset(frames, id, h) /\ (id = Top.at => Below(id))
              \/ id = Top.at /\ h = 0 /\ Offset(frames, id, Top.i)
         /\ SerialRunning => SerialRunning'
<1> DEFINE f == [Top EXCEPT !.pc = "handle", !.i = 0, !.rem = 0]
<1>1. frames # <<>> /\ Top.pc = "store" /\ f \in Frame /\ Goto(f) /\ frames \in Seq(Frame)
  BY StoreIs DEF Misuse, Base, TypeOK
<1>2. f.at = Top.at /\ f.i = 0
  BY <1>1, TopFields DEF Frame
<1> HIDE DEF f
<1>3. ASSUME NEW id \in Ids, NEW h \in Nat, Offset(frames', id, h)
      PROVE  \/ Offset(frames, id, h) /\ (id = Top.at => Below(id))
             \/ id = Top.at /\ h = 0 /\ Offset(frames, id, Top.i)
  <2>1. CASE Below(id)
    BY <1>1, <1>3, <2>1, OffsetGoto
  <2>2. CASE ~Below(id)
    <3>1. h = 0
      BY <1>1, <1>2, <1>3, <2>2, OffsetGoto
    <3>2. Offset(frames, id, IF Top.at = id THEN Top.i ELSE 0)
      BY <1>1, <2>2, OffsetTop
    <3>3. QED
      BY <3>1, <3>2
  <2>3. QED
    BY <2>1, <2>2
<1>4. SerialRunning => SerialRunning'
  BY <1>1, RunningGoto
<1>5. QED
  BY <1>3, <1>4

(* The line that is handled is cut off where no activation is below.       *)
LEMMA StartLineOffsets ==
  ASSUME Base, StartLine, NEW id \in Ids, id = Top.at, NEW i \in Nat, i = First(Newlines(buf[id]))
  PROVE  /\ \A j \in Ids, h \in Nat : Offset(frames', j, h) =>
              \/ Offset(frames, j, h) /\ (j = id => Below(id))
              \/ j = id /\ h = i /\ ~Below(id) /\ Offset(frames, id, 0)
         /\ SerialRunning => SerialRunning'
<1>1. /\ frames # <<>> /\ Top.pc = "handle" /\ frames \in Seq(Frame)
      /\ Newlines(buf[id]) # {} /\ buf[id] \in Seq(Pieces)
  BY DEF StartLine, At, Base, TypeOK
<1> DEFINE cut == [buf[id] EXCEPT ![i] = Nul]
<1>2. i \in 1..Len(buf[id]) /\ Len(buf[id]) \in Nat /\ Len(cut) = Len(buf[id])
  <2>1. cut = [buf[id] EXCEPT ![i] = Nul]
    OBVIOUS
  <2> HIDE DEF cut
  <2>2. QED
    BY <1>1, <2>1, LineIs
<1>3. Goto(Remaining(cut, i)) \/ Goto([Top EXCEPT !.pc = "run", !.i = i])
  BY DEF StartLine
<1> HIDE DEF cut
<1>4. Top \in Frame /\ Top.i = 0
  BY <1>1, TopFields
<1>5. PICK f \in Frame : Goto(f) /\ f.at = id /\ f.i = i
  <2>1. CASE Goto(Remaining(cut, i))
    <3>1. Len(cut) - i \in Nat
      BY <1>2
    <3>2. Remaining(cut, i) \in Frame /\ Remaining(cut, i).at = id /\ Remaining(cut, i).i = i
      BY <1>4, <3>1 DEF Remaining, Frame
    <3>3. QED
      BY <2>1, <3>2
  <2>2. CASE Goto([Top EXCEPT !.pc = "run", !.i = i])
    <3>1. /\ [Top EXCEPT !.pc = "run", !.i = i] \in Frame
          /\ [Top EXCEPT !.pc = "run", !.i = i].at = id
          /\ [Top EXCEPT !.pc = "run", !.i = i].i = i
      BY <1>4 DEF Frame
    <3>2. QED
      BY <2>2, <3>1
  <2>3. QED
    BY <1>3, <2>1, <2>2
<1>6. ASSUME NEW j \in Ids, NEW h \in Nat, Offset(frames', j, h)
      PROVE  \/ Offset(frames, j, h) /\ (j = id => Below(id))
             \/ j = id /\ h = i /\ ~Below(id) /\ Offset(frames, id, 0)
  <2>1. CASE Below(j)
    BY <1>1, <1>5, <1>6, <2>1, OffsetGoto
  <2>2. CASE ~Below(j)
    <3>1. h = IF j = id THEN i ELSE 0
      BY <1>1, <1>5, <1>6, <2>2, OffsetGoto
    <3>2. Offset(frames, j, 0)
      BY <1>1, <1>4, <2>2, OffsetTop
    <3>3. QED
      BY <2>2, <3>1, <3>2
  <2>3. QED
    BY <2>1, <2>2
<1>7. SerialRunning => SerialRunning'
  BY <1>1, <1>5, RunningGoto
<1>8. QED
  BY <1>6, <1>7

(* Serial has no buffer among the clients'.                                *)
LEMMA SerialOffsets ==
  ASSUME Base, PumpSerial \/ SerialReturns
  PROVE  \A id \in Ids, h \in Nat : Offset(frames', id, h) => Offset(frames, id, h)
<1>1. frames \in Seq(Frame)
  BY DEF Base, TypeOK
<1>2. CASE PumpSerial
  BY <1>1, <1>2, PumpSerialIs, NewLoopIs, OffsetEnter
<1>3. CASE SerialReturns
  <2>1. frames # <<>> /\ Top.at = Serial /\ Return
    BY <1>3 DEF SerialReturns, At
  <2>2. ASSUME NEW id \in Ids, NEW h \in Nat, Offset(frames', id, h) PROVE Offset(frames, id, h)
    <3>1. Top.at # id
      BY <2>1, Constants DEF Serial
    <3>2. CASE Below(id)
      BY <1>1, <2>1, <2>2, <3>2, OffsetReturn
    <3>3. CASE ~Below(id)
      <4>1. h = 0
        BY <1>1, <2>1, <2>2, <3>3, OffsetReturn
      <4>2. QED
        BY <1>1, <2>1, <3>1, <3>3, <4>1, OffsetTop
    <3>4. QED
      BY <3>2, <3>3
  <2>3. QED
    BY <2>2
<1>4. QED
  BY <1>2, <1>3

(* A second id of one client gets nothing.                                 *)
TwinsOK == \A i, j \in Ids : i < j /\ live[i] = live[j] /\ live[i] # None => buf[j] = <<>>

ClientOK(c) ==
  /\ RanGood(c, sent[c], ran[c])
  /\ \A id \in Ids, h \in Nat :
       live[id] = c /\ Offset(frames, id, h) => BufGood(c, sent[c], ran[c], buf[id], h)
SerialOK ==
  /\ RanGood(None, keys, ran[None])
  /\ SerialRunning \/ BufGood(None, keys, ran[None], line, 0)

Order == (\A c \in Clients \ again : ClientOK(c)) /\ SerialOK /\ TwinsOK
OrderInv == ~uaf => Order

LEMMA InitOrder == Init => Order
<1> SUFFICES ASSUME Init PROVE Order
  OBVIOUS
<1>1. Len(<<>>) = 0
  OBVIOUS
<1>2. ASSUME NEW c \in Clients \union {None}, NEW n PROVE RanGood(c, n, ran[c])
  <2>1. ran[c] = <<>>
    BY DEF Init
  <2>2. QED
    BY <1>1, <2>1 DEF RanGood
<1>3. ASSUME NEW c \in Clients PROVE ClientOK(c)
  <2>1. \A id \in Ids : live[id] # c
    BY Constants DEF Init
  <2>2. QED
    BY <1>2, <2>1 DEF ClientOK
<1>4. SerialOK
  BY <1>2, NothingIsGood DEF Init, SerialOK
<1>5. TwinsOK
  BY DEF Init, TwinsOK
<1>6. QED
  BY <1>3, <1>4, <1>5 DEF Order

(* The steps that leave the consoles and what runs alone.                  *)
LEMMA OrderSame ==
  ASSUME Order, UNCHANGED <<sent, keys, live, buf, line, ran, again>>,
         \A id \in Ids, h \in Nat : Offset(frames', id, h) => Offset(frames, id, h),
         SerialRunning => SerialRunning'
  PROVE  Order'
<1>1. ASSUME NEW c \in Clients, ClientOK(c) PROVE ClientOK(c)'
  BY <1>1 DEF ClientOK
<1>2. SerialOK' /\ TwinsOK'
  BY DEF Order, SerialOK, TwinsOK
<1>3. QED
  BY <1>1, <1>2 DEF Order

LEMMA FramesOrder ==
  ASSUME Base, Order, ~uaf',
         LoopStarts \/ Wait \/ Pop \/ Iterate \/ NextClient \/ CommandReturns
  PROVE  Order'
BY SameOffsets, OrderSame DEF OffsetsStay, history

(* Entries only go, with their buffers.                                    *)
LEMMA DropOrder ==
  ASSUME Base, Order, Dropped, UNCHANGED <<sent, keys, line, ran, again, frames>>
  PROVE  Order'
<1>1. ASSUME NEW c \in Clients, ClientOK(c) PROVE ClientOK(c)'
  <2>1. \A id \in Ids : live'[id] = c => live[id] = c /\ buf'[id] = buf[id]
    BY Constants DEF Dropped
  <2>2. QED
    BY <1>1, <2>1 DEF ClientOK
<1>2. SerialOK' /\ TwinsOK'
  BY DEF Order, SerialOK, SerialRunning, TwinsOK, Dropped
<1>3. QED
  BY <1>1, <1>2 DEF Order

LEMMA DataOrder ==
  ASSUME TypedInOrder, Base, Order, NEW c \in Clients, Data(c)
  PROVE  Order'
<1> DEFINE n == sent[c]
<1>1. /\ n \in Nat /\ sent' = [sent EXCEPT ![c] = n + 1] /\ More(c, n)
      /\ UNCHANGED <<keys, live, line, frames, ran, again>>
  BY DataIs DEF Data, maps
<1>2. /\ sent \in [Clients -> Nat] /\ buf \in [Ids -> Seq(Pieces)]
      /\ ran \in [Clients \union {None} -> Seq(Nat)] /\ Len(Typed[c]) \in Nat
  BY Constants DEF Base, TypeOK, RunsOK
<1>3. sent'[c] = n + 1 /\ \A d \in Clients : d # c => sent'[d] = sent[d]
  BY <1>1, <1>2
<1>4. ASSUME NEW id \in Ids
      PROVE  \/ buf'[id] = buf[id]
             \/ /\ live[id] = c /\ \A j \in Ids : live[j] = c => id <= j
                /\ buf'[id] = Fit(buf[id], Piece(c, n + 1))
  <2>1. CASE buf' = buf
    BY <2>1
  <2>2. ASSUME NEW j \in Ids, live[j] = c, \A k \in Ids : live[k] = c => j <= k,
               buf' = [buf EXCEPT ![j] = Fit(buf[j], Piece(c, n + 1))]
        PROVE  \/ buf'[id] = buf[id]
               \/ /\ live[id] = c /\ \A k \in Ids : live[k] = c => id <= k
                  /\ buf'[id] = Fit(buf[id], Piece(c, n + 1))
    BY <1>2, <2>2
  <2>3. QED
    BY <2>1, <2>2, DataIs
<1> HIDE DEF n
<1>5. n = sent[c]
  BY DEF n
<1>6. ASSUME NEW d \in Clients, ClientOK(d) PROVE ClientOK(d)'
  <2>1. CASE d # c
    <3>1. \A id \in Ids : live[id] = d => buf'[id] = buf[id]
      BY <1>4, <2>1
    <3>2. QED
      BY <1>1, <1>3, <1>6, <2>1, <3>1 DEF ClientOK
  <2>2. CASE d = c
    <3>1. RanGood(c, n, ran[c])
      BY <1>5, <1>6, <2>2 DEF ClientOK
    <3>2. RanGood(c, n + 1, ran[c])
      BY <1>1, <1>2, <3>1, MoreKnown
    <3>3. ASSUME NEW id \in Ids, NEW h \in Nat, live[id] = c, Offset(frames, id, h)
          PROVE  BufGood(c, n + 1, ran[c], buf'[id], h)
      <4>1. BufGood(c, n, ran[c], buf[id], h)
        BY <1>5, <1>6, <2>2, <3>3 DEF ClientOK
      <4>2. CASE buf'[id] = buf[id]
        BY <1>1, <1>2, <4>1, <4>2, MoreKnown
      <4>3. CASE buf'[id] = Fit(buf[id], Piece(c, n + 1))
        <5>1. ran[c] \in Seq(Nat) /\ buf[id] \in Seq(Pieces) /\ c \in Clients \union {None}
          BY <1>2
        <5>2. QED
          BY <1>1, <3>1, <4>1, <4>3, <5>1, Arrives
      <4>4. QED
        BY <1>4, <4>2, <4>3
    <3>4. QED
      BY <1>1, <1>3, <2>2, <3>2, <3>3 DEF ClientOK
  <2>3. QED
    BY <2>1, <2>2
<1>7. SerialOK'
  BY <1>1 DEF Order, SerialOK, SerialRunning
<1>8. TwinsOK'
  <2>1. ASSUME NEW i \in Ids, NEW j \in Ids, i < j, live[i] = live[j], live[i] # None PROVE buf'[j] = <<>>
    <3>1. buf[j] = <<>>
      BY <2>1 DEF Order, TwinsOK
    <3>2. ~(live[j] = c /\ j <= i)
      BY <2>1, Constants
    <3>3. QED
      BY <1>4, <2>1, <3>1, <3>2
  <2>2. QED
    BY <1>1, <2>1 DEF TwinsOK
<1>9. QED
  BY <1>1, <1>6, <1>7, <1>8 DEF Order

LEMMA AcceptOrder ==
  ASSUME Base, Order, Accept, ~uaf'
  PROVE  Order'
<1> DEFINE new == counter + 1
<1>1. /\ live' = [live EXCEPT ![new] = incoming[Len(incoming)]] /\ buf' = [buf EXCEPT ![new] = <<>>]
      /\ UNCHANGED <<sent, keys, line, ran, again>>
  BY AcceptIs DEF Misuse, tcp, history
<1>2. OffsetsStay
  BY AcceptOffsets
<1>3. /\ counter \in Nat
      /\ live \in [Ids -> Clients \union {None}] /\ buf \in [Ids -> Seq(Pieces)]
  BY DEF Base, TypeOK
<1>4. \A id \in Ids : \/ live'[id] = live[id] /\ buf'[id] = buf[id] /\ id # new
                      \/ id = new /\ buf'[id] = <<>>
  BY <1>1, <1>3
<1> HIDE DEF new
<1>5. \A id \in Ids, h \in Nat : Offset(frames', id, h) => Offset(frames, id, h)
  BY <1>2 DEF OffsetsStay
<1>6. ASSUME NEW c \in Clients, ClientOK(c) PROVE ClientOK(c)'
  <2>1. ASSUME NEW id \in Ids, NEW h \in Nat, live'[id] = c, Offset(frames', id, h)
        PROVE  BufGood(c, sent[c], ran[c], buf'[id], h)
    <3>1. CASE live'[id] = live[id] /\ buf'[id] = buf[id]
      BY <1>5, <1>6, <2>1, <3>1 DEF ClientOK
    <3>2. CASE buf'[id] = <<>>
      BY <3>2, NothingIsGood
    <3>3. QED
      BY <1>4, <3>1, <3>2
  <2>2. QED
    BY <1>1, <1>6, <2>1 DEF ClientOK
<1>7. SerialOK'
  BY <1>1, <1>2 DEF Order, SerialOK, OffsetsStay
<1>8. TwinsOK'
  <2>1. ASSUME NEW i \in Ids, NEW j \in Ids, i < j, live'[i] = live'[j], live'[i] # None
        PROVE  buf'[j] = <<>>
    <3>1. CASE j = new
      BY <1>4, <3>1
    <3>2. CASE j # new
      <4>1. live'[j] = live[j] /\ buf'[j] = buf[j]
        BY <1>4, <3>2
      <4>2. i # new
        <5>1. j <= counter /\ i \in Nat /\ j \in Nat
          BY <2>1, <4>1, Constants DEF Base, FreshOK
        <5>2. QED
          BY <1>3, <2>1, <5>1 DEF new
      <4>3. live'[i] = live[i]
        BY <1>4, <4>2
      <4>4. QED
        BY <2>1, <4>1, <4>3 DEF Order, TwinsOK
    <3>3. QED
      BY <3>1, <3>2
  <2>2. QED
    BY <2>1 DEF TwinsOK
<1>9. QED
  BY <1>1, <1>6, <1>7, <1>8 DEF Order

LEMMA StoreOrder ==
  ASSUME Base, Order, Store, ~uaf'
  PROVE  Order'
<1> DEFINE at == Top.at
           i == Top.i
           r == Top.rem
<1>1. /\ frames # <<>> /\ Top.pc = "store" /\ at \in Ids
      /\ i \in Nat /\ r \in Nat /\ i + r <= Len(buf[at])
      /\ buf' = [buf EXCEPT ![at] = SubSeq(buf[at], i + 1, i + r)]
      /\ buf'[at] \in Seq(Pieces) /\ Len(buf'[at]) = r
      /\ \A k \in 1..r : buf'[at][k] = buf[at][i + k]
      /\ UNCHANGED <<sent, keys, live, line, ran, again>>
  BY StoreIs DEF Misuse, tcp, maps, history
<1>2. ASSUME NEW id \in Ids, NEW h \in Nat, Offset(frames', id, h)
      PROVE  \/ Offset(frames, id, h)
             \/ id = at /\ h = 0 /\ Offset(frames, id, i)
  BY <1>2, StoreOffsets
<1> HIDE DEF at, i, r
<1>3. buf \in [Ids -> Seq(Pieces)]
  BY DEF Base, TypeOK
<1>4. buf[at] \in Seq(Pieces) /\ Len(buf[at]) \in Nat /\ \A id \in Ids : id # at => buf'[id] = buf[id]
  <2>1. buf[at] \in Seq(Pieces) /\ \A id \in Ids : id # at => buf'[id] = buf[id]
    BY <1>1, <1>3
  <2>2. QED
    BY <2>1, LenProperties
<1>5. ASSUME NEW c \in Clients, ClientOK(c) PROVE ClientOK(c)'
  <2>1. ASSUME NEW id \in Ids, NEW h \in Nat, live[id] = c, Offset(frames', id, h)
        PROVE  BufGood(c, sent[c], ran[c], buf'[id], h)
    <3>1. CASE id # at
      <4>1. Offset(frames, id, h)
        BY <1>2, <2>1, <3>1
      <4>2. QED
        BY <1>4, <1>5, <2>1, <3>1, <4>1 DEF ClientOK
    <3>2. CASE id = at
      <4>1. PICK g \in Nat : Offset(frames, id, g) /\ g <= h + i
        <5>1. h <= h + i /\ i <= 0 + i
          BY <1>1
        <5>2. QED
          BY <1>1, <1>2, <2>1, <5>1
      <4>2. BufGood(c, sent[c], ran[c], buf[at], g)
        BY <1>5, <2>1, <3>2, <4>1 DEF ClientOK
      <4>3. Len(buf'[at]) + i <= Len(buf[at])
        BY <1>1, <1>4
      <4>4. \A k \in h + 1..Len(buf'[at]) : buf'[at][k] > 0 => buf'[at][k] = buf[at][k + i]
        <5>1. \A k \in h + 1..Len(buf'[at]) : k \in 1..r /\ i + k = k + i
          BY <1>1
        <5>2. QED
          BY <1>1, <5>1
      <4> DEFINE a == buf'[at]
      <4>5. a \in Seq(Pieces) /\ i \in Nat /\ buf[at] \in Seq(Pieces)
        BY <1>1, <1>4
      <4> HIDE DEF a
      <4>6. Len(a) + i <= Len(buf[at]) /\ \A k \in h + 1..Len(a) : a[k] > 0 => a[k] = buf[at][k + i]
        BY <4>3, <4>4 DEF a
      <4>7. BufGood(c, sent[c], ran[c], a, h)
        BY <4>1, <4>2, <4>5, <4>6, Shorter
      <4>8. QED
        BY <3>2, <4>7 DEF a
    <3>3. QED
      BY <3>1, <3>2
  <2>2. QED
    BY <1>1, <1>5, <2>1 DEF ClientOK
<1>6. SerialOK'
  BY <1>1, StoreOffsets DEF Order, SerialOK
<1>7. TwinsOK'
  <2>1. buf[at] = <<>> => buf'[at] = <<>>
    <3>1. buf[at] = <<>> => Len(buf'[at]) = 0
      BY <1>1, EmptySeq
    <3>2. QED
      BY <1>1, <3>1, EmptySeq
  <2>2. QED
    BY <1>1, <1>4, <2>1 DEF Order, TwinsOK
<1>8. QED
  BY <1>1, <1>5, <1>6, <1>7 DEF Order

(* A line that runs is taken from the part of the buffer nobody cut off.   *)
LEMMA StartLineOrder ==
  ASSUME Base, Order, StartLine
  PROVE  Order'
<1>1. PICK id \in Ids, i \in Nat, cut \in Seq(Pieces) :
           /\ frames # <<>> /\ Top.pc = "handle" /\ Top.at = id /\ id # Serial
           /\ live[id] \in Clients /\ Newlines(buf[id]) # {}
           /\ i = First(Newlines(buf[id])) /\ cut = [buf[id] EXCEPT ![i] = Nul]
           /\ buf' = [buf EXCEPT ![id] = cut]
           /\ \/ /\ Goto(Remaining(cut, i)) /\ UNCHANGED <<ran, again>>
                 /\ shifted' = shifted \union {live[id]}
              \/ /\ Goto([Top EXCEPT !.pc = "run", !.i = i])
                 /\ ran' = [ran EXCEPT ![live[id]] = @ \o CString(cut)]
                 /\ again' = IF \E k \in 1..Len(frames) - 1 : frames[k].at = id
                             THEN again \union {live[id]} ELSE again
                 /\ shifted' = shifted
           /\ UNCHANGED <<tcp, maps, line, lost, raced, uaf>>
  BY StartLineIs
<1>2. /\ frames \in Seq(Frame) /\ buf \in [Ids -> Seq(Pieces)] /\ buf[id] \in Seq(Pieces)
      /\ ran \in [Clients \union {None} -> Seq(Nat)]
  BY <1>1 DEF Base, TypeOK, RunsOK
<1>3. /\ i \in 1..Len(buf[id]) /\ Len(buf[id]) \in Nat /\ Len(cut) = Len(buf[id])
      /\ \A k \in 1..Len(buf[id]) : cut[k] = IF k = i THEN Nul ELSE buf[id][k]
      /\ CString(cut) \in Seq(Nat) /\ Len(CString(cut)) \in Nat /\ Len(CString(cut)) < i
      /\ \A k \in 1..Len(CString(cut)) : CString(cut)[k] = buf[id][k]
  <2> DEFINE b == buf[id]
  <2>1. b \in Seq(Pieces) /\ Newlines(b) # {} /\ i = First(Newlines(b)) /\ cut = [b EXCEPT ![i] = Nul]
    BY <1>1, <1>2
  <2> HIDE DEF b
  <2>2. /\ i \in 1..Len(b) /\ Len(b) \in Nat /\ cut \in Seq(Pieces) /\ Len(cut) = Len(b)
        /\ \A k \in 1..i - 1 : b[k] # NL
        /\ \A k \in 1..Len(b) : cut[k] = IF k = i THEN Nul ELSE b[k]
    BY <2>1, LineIs
  <2>3. b \in Seq(Pieces)
    BY <2>1
  <2>4. /\ CString(cut) \in Seq(Nat) /\ Len(CString(cut)) \in Nat /\ Len(CString(cut)) < i
        /\ \A k \in 1..Len(CString(cut)) : CString(cut)[k] = b[k]
    BY <2>2, <2>3, CStringIs
  <2>5. QED
    BY <2>2, <2>4 DEF b
<1>4. UNCHANGED <<sent, keys, live, line>>
  BY <1>1 DEF tcp, maps
<1>5. buf'[id] = cut /\ \A j \in Ids : j # id => buf'[j] = buf[j]
  BY <1>1, <1>2
<1>6. frames # <<>> /\ Top.i = 0 /\ Top.at = id
  BY <1>1, TopFields
<1>7. ASSUME NEW j \in Ids, NEW h \in Nat, Offset(frames', j, h)
      PROVE  \/ Offset(frames, j, h) /\ (j = id => Below(id))
             \/ j = id /\ h = i /\ ~Below(id) /\ Offset(frames, id, 0)
  BY <1>1, <1>7, StartLineOffsets
<1>8. ASSUME NEW c, NEW n, NEW r, NEW g \in Nat, NEW h \in Nat, g <= h, BufGood(c, n, r, buf[id], g)
      PROVE  BufGood(c, n, r, cut, h)
  <2>1. Nul = -1
    BY DEF Nul
  <2>2. \A k \in h + 1..Len(cut) : cut[k] > 0 => cut[k] = buf[id][k + 0]
    <3>1. ASSUME NEW k \in h + 1..Len(cut), cut[k] > 0 PROVE cut[k] = buf[id][k]
      <4>1. k \in 1..Len(buf[id])
        BY <1>3
      <4>2. QED
        BY <1>3, <2>1, <3>1, <4>1
    <3>2. \A k \in h + 1..Len(cut) : k + 0 = k
      OBVIOUS
    <3>3. QED
      BY <3>1, <3>2
  <2>3. Len(cut) + 0 <= Len(buf[id]) /\ g <= h + 0 /\ 0 \in Nat
    BY <1>3, <1>8
  <2>4. QED
    BY <1>2, <1>8, <2>2, <2>3, Shorter
<1>9. live[id] # None /\ live[id] \in Clients
  BY <1>1, Constants
<1>10. ASSUME NEW j \in Ids, live[j] = live[id], j # id PROVE buf[j] = <<>>
  <2>1. j < id \/ id < j
    BY <1>10, Constants
  <2>2. ~(j < id)
    <3>1. Len(<<>>) = 0
      OBVIOUS
    <3>2. buf[id] # <<>>
      BY <1>3, <3>1
    <3>3. QED
      BY <1>9, <1>10, <3>2 DEF Order, TwinsOK
  <2>3. QED
    BY <1>9, <1>10, <2>1, <2>2 DEF Order, TwinsOK
<1>11. SerialOK'
  <2>1. ran'[None] = ran[None]
    BY <1>1, <1>2, <1>9
  <2>2. SerialRunning => SerialRunning'
    BY <1>1, StartLineOffsets
  <2>3. QED
    BY <1>4, <2>1, <2>2 DEF Order, SerialOK
<1>12. TwinsOK'
  <2>1. ASSUME NEW j \in Ids, NEW k \in Ids, j < k, live[j] = live[k], live[j] # None
        PROVE  buf'[k] = <<>>
    <3>1. buf[k] = <<>>
      BY <2>1 DEF Order, TwinsOK
    <3>2. k # id
      <4>1. Len(<<>>) = 0
        OBVIOUS
      <4>2. QED
        BY <1>3, <3>1, <4>1
    <3>3. QED
      BY <1>5, <3>1, <3>2
  <2>2. QED
    BY <1>4, <2>1 DEF TwinsOK
<1>13. ASSUME NEW c \in Clients, c \notin again', ClientOK(c) PROVE ClientOK(c)'
  <2>1. CASE ran'[c] = ran[c]
    <3>1. ASSUME NEW j \in Ids, NEW h \in Nat, live[j] = c, Offset(frames', j, h)
          PROVE  BufGood(c, sent[c], ran[c], buf'[j], h)
      <4>1. CASE j # id
        BY <1>5, <1>7, <1>13, <3>1, <4>1 DEF ClientOK
      <4>2. CASE j = id
        <5>1. PICK g \in Nat : Offset(frames, id, g) /\ g <= h
          BY <1>7, <3>1, <4>2
        <5>2. BufGood(c, sent[c], ran[c], buf[id], g)
          BY <1>13, <3>1, <4>2, <5>1 DEF ClientOK
        <5>3. QED
          BY <1>5, <1>8, <4>2, <5>1, <5>2
      <4>3. QED
        BY <4>1, <4>2
    <3>2. QED
      BY <1>4, <1>13, <2>1, <3>1 DEF ClientOK
  <2>2. CASE /\ c = live[id] /\ ran' = [ran EXCEPT ![live[id]] = @ \o CString(cut)]
             /\ again' = IF \E k \in 1..Len(frames) - 1 : frames[k].at = id
                         THEN again \union {live[id]} ELSE again
    <3> DEFINE r == ran[c] \o CString(cut)
    <3>1. ~Below(id)
      BY <1>13, <2>2 DEF Below
    <3>2. Offset(frames, id, 0)
      BY <1>1, <1>2, <1>6, <3>1, OffsetTop
    <3>3. RanGood(c, sent[c], ran[c]) /\ BufGood(c, sent[c], ran[c], buf[id], 0)
      BY <1>13, <2>2, <3>2 DEF ClientOK
    <3>4. /\ ran[c] \in Seq(Nat) /\ Len(CString(cut)) <= i /\ i <= Len(buf[id])
      BY <1>2, <1>3
    <3>5. RanGood(c, sent[c], r) /\ BufGood(c, sent[c], r, buf[id], i)
      BY <1>2, <1>3, <3>3, <3>4, StartRuns
    <3>6. ran'[c] = r
      BY <1>2, <2>2
    <3> HIDE DEF r
    <3>7. ASSUME NEW j \in Ids, NEW h \in Nat, live[j] = c, Offset(frames', j, h)
          PROVE  BufGood(c, sent[c], r, buf'[j], h)
      <4>1. CASE j # id
        BY <1>5, <1>10, <2>2, <3>7, <4>1, NothingIsGood
      <4>2. CASE j = id
        <5>1. h = i
          BY <1>7, <3>1, <3>7, <4>2
        <5>2. QED
          BY <1>5, <1>8, <3>5, <4>2, <5>1
      <4>3. QED
        BY <4>1, <4>2
    <3>8. QED
      BY <1>4, <3>5, <3>6, <3>7 DEF ClientOK
  <2>3. ran'[c] = ran[c] \/ (c = live[id] /\ ran' = [ran EXCEPT ![live[id]] = @ \o CString(cut)]
             /\ again' = IF \E k \in 1..Len(frames) - 1 : frames[k].at = id
                         THEN again \union {live[id]} ELSE again)
    BY <1>1, <1>2
  <2>4. QED
    BY <2>1, <2>2, <2>3
<1>14. again \subseteq again'
  BY <1>1
<1>15. QED
  BY <1>11, <1>12, <1>13, <1>14 DEF Order

(* The clients, in the steps of Serial.                                    *)
LEMMA SerialLeaves ==
  ASSUME Order, UNCHANGED <<sent, live, buf, again>>,
         \A c \in Clients : ran'[c] = ran[c],
         \A id \in Ids, h \in Nat : Offset(frames', id, h) => Offset(frames, id, h)
  PROVE  (\A c \in Clients \ again' : ClientOK(c)') /\ TwinsOK'
<1>1. ASSUME NEW c \in Clients, ClientOK(c) PROVE ClientOK(c)'
  BY <1>1 DEF ClientOK
<1>2. QED
  BY <1>1 DEF Order, TwinsOK

LEMMA PumpSerialOrder ==
  ASSUME TypedInOrder, Base, Order, PumpSerial
  PROVE  Order'
<1> DEFINE n == keys
           p == Piece(None, n + 1)
<1>1. /\ frames = <<>> /\ n \in Nat /\ keys' = n + 1 /\ More(None, n)
      /\ line' = Fit(line, p) /\ line' \in Seq(Nat)
      /\ \/ UNCHANGED <<ran, frames>>
         \/ /\ ran' = [ran EXCEPT ![None] = @ \o line']
            /\ Enter([NewLoop EXCEPT !.pc = "run"])
      /\ UNCHANGED <<sent, live, buf, again>>
  BY PumpSerialIs DEF maps
<1>2. /\ frames \in Seq(Frame) /\ ran \in [Clients \union {None} -> Seq(Nat)] /\ line \in Seq(Pieces)
      /\ None \notin Clients /\ ran[None] \in Seq(Nat) /\ line' \in Seq(Pieces)
      /\ Len(Typed[None]) \in Nat
  BY <1>1, Constants, SeqPieces DEF Base, TypeOK, RunsOK
<1>3. /\ [NewLoop EXCEPT !.pc = "run"] \in Frame
      /\ [NewLoop EXCEPT !.pc = "run"].pc = "run" /\ [NewLoop EXCEPT !.pc = "run"].at = Serial
  BY NewLoopIs
<1>4. \A c \in Clients : ran'[c] = ran[c]
  BY <1>1, <1>2
<1>5. \A id \in Ids, h \in Nat : Offset(frames', id, h) => Offset(frames, id, h)
  BY SerialOffsets
<1>6. RanGood(None, n, ran[None]) /\ BufGood(None, n, ran[None], line, 0)
  <2>1. ~SerialRunning
    BY <1>1 DEF SerialRunning
  <2>2. QED
    BY <2>1 DEF Order, SerialOK
<1> HIDE DEF n
<1>7. RanGood(None, n + 1, ran[None]) /\ BufGood(None, n + 1, ran[None], line', 0)
  <2>1. RanGood(None, n + 1, ran[None])
    BY <1>1, <1>2, <1>6, MoreKnown
  <2>2. BufGood(None, n + 1, ran[None], Fit(line, p), 0)
    BY <1>1, <1>2, <1>6, Arrives
  <2>3. QED
    BY <1>1, <2>1, <2>2
<1>8. SerialOK'
  <2>1. CASE UNCHANGED <<ran, frames>>
    BY <1>1, <1>7, <2>1 DEF SerialOK
  <2>2. CASE ran' = [ran EXCEPT ![None] = @ \o line'] /\ Enter([NewLoop EXCEPT !.pc = "run"])
    <3> DEFINE l == line'
    <3>1. l \in Seq(Nat) /\ l \in Seq(Pieces) /\ Len(l) \in Nat
      BY <1>1, <1>2, LenProperties
    <3>2. BufGood(None, n + 1, ran[None], l, 0)
      BY <1>7
    <3>3. ran'[None] = ran[None] \o l
      BY <1>2, <2>2
    <3> HIDE DEF l
    <3>4. Len(l) <= Len(l) /\ \A k \in 1..Len(l) : l[k] = l[k]
      BY <3>1
    <3>5. RanGood(None, n + 1, ran[None] \o l)
      BY <1>2, <1>7, <3>1, <3>2, <3>4, StartRuns
    <3>6. SerialRunning'
      <4>1. Len(frames') = Len(frames) + 1 /\ Len(frames) \in Nat /\ frames'[Len(frames) + 1] = [NewLoop EXCEPT !.pc = "run"]
        BY <1>2, <1>3, <2>2, EnterIs
      <4>2. Len(frames) + 1 \in 1..Len(frames')
        BY <4>1
      <4>3. QED
        BY <1>3, <4>1, <4>2 DEF SerialRunning
    <3>7. QED
      BY <1>1, <3>3, <3>5, <3>6 DEF SerialOK
  <2>3. QED
    BY <1>1, <2>1, <2>2
<1>9. QED
  BY <1>1, <1>4, <1>5, <1>8, SerialLeaves DEF Order

LEMMA BackspaceOrder ==
  ASSUME Base, Order, Backspace
  PROVE  Order'
<1>1. /\ frames = <<>> /\ line' = SubSeq(line, 1, Len(line) - 1)
      /\ UNCHANGED <<sent, keys, live, buf, frames, ran, again>>
  BY DEF Backspace, tcp, maps, history
<1>2. BufGood(None, keys, ran[None], line, 0) /\ RanGood(None, keys, ran[None])
  <2>1. ~SerialRunning
    BY <1>1 DEF SerialRunning
  <2>2. QED
    BY <2>1 DEF Order, SerialOK
<1>3. line \in Seq(Pieces) /\ Len(line) \in Nat
  BY LenProperties DEF Base, TypeOK
<1> DEFINE a == SubSeq(line, 1, Len(line) - 1)
<1>4. /\ a \in Seq(Pieces) /\ Len(a) = (IF line = <<>> THEN 0 ELSE Len(line) - 1)
      /\ \A k \in 1..Len(line) - 1 : a[k] = line[k]
  BY <1>3, ButLast
<1> HIDE DEF a
<1>5. Len(a) \in Nat /\ Len(a) <= Len(line) /\ \A k \in 1..Len(a) : a[k] = line[k]
  <2>1. line # <<>> => Len(line) # 0
    BY <1>3, EmptySeq
  <2>2. CASE line = <<>>
    BY <1>3, <1>4, <2>2
  <2>3. CASE line # <<>>
    BY <1>3, <1>4, <2>1, <2>3
  <2>4. QED
    BY <2>2, <2>3
<1>6. /\ Len(a) + 0 <= Len(line) /\ 0 <= 0 + 0 /\ 0 \in Nat
      /\ \A k \in 0 + 1..Len(a) : a[k] > 0 => a[k] = line[k + 0]
  BY <1>5
<1>7. BufGood(None, keys, ran[None], a, 0)
  BY <1>2, <1>3, <1>4, <1>6, Shorter
<1>8. SerialOK'
  BY <1>1, <1>2, <1>7 DEF SerialOK, a
<1>9. QED
  BY <1>1, <1>8, SerialLeaves DEF Order

LEMMA SerialReturnsOrder ==
  ASSUME Base, Order, SerialReturns
  PROVE  Order'
<1>1. line' = <<>> /\ UNCHANGED <<sent, keys, live, buf, ran, again>>
  BY DEF SerialReturns, tcp, maps, history
<1>2. SerialOK'
  BY <1>1, NothingIsGood DEF Order, SerialOK
<1>3. QED
  BY <1>1, <1>2, SerialOffsets, SerialLeaves DEF Order

LEMMA NextOrder == TypedInOrder /\ Base /\ OrderInv /\ [Next]_vars => OrderInv'
<1> SUFFICES ASSUME TypedInOrder, Base, OrderInv, [Next]_vars, ~uaf' PROVE Order'
  BY DEF OrderInv
<1>1. Order
  <2>1. ~uaf
    BY UafStays
  <2>2. QED
    BY <2>1 DEF OrderInv
<1>2. CASE LoopStarts \/ Wait \/ Pop \/ Iterate \/ NextClient \/ CommandReturns
  BY <1>1, <1>2, FramesOrder
<1>3. CASE Accept
  BY <1>1, <1>3, AcceptOrder
<1>4. CASE StartLine
  BY <1>1, <1>4, StartLineOrder
<1>5. CASE Store
  BY <1>1, <1>5, StoreOrder
<1>6. CASE PumpSerial
  BY <1>1, <1>6, PumpSerialOrder
<1>7. CASE Backspace
  BY <1>1, <1>7, BackspaceOrder
<1>8. CASE SerialReturns
  BY <1>1, <1>8, SerialReturnsOrder
<1>9. CASE Stop
  BY <1>1, <1>9, StopDrops, DropOrder DEF Stop, history
<1>10. ASSUME NEW c \in Clients, Disconnect(c) PROVE Order'
  BY <1>1, <1>10, DisconnectDrops, DropOrder DEF Disconnect, history
<1>11. ASSUME NEW c \in Clients, Data(c) PROVE Order'
  BY <1>1, <1>11, DataOrder
<1>12. ASSUME UNCHANGED <<sent, keys, live, buf, line, frames, ran, again>> PROVE Order'
  BY <1>1, <1>12, OrderSame DEF SerialRunning
<1>13. CASE UNCHANGED vars
  BY <1>12, <1>13 DEF vars, tcp, maps, history
<1>14. CASE Start
  BY <1>12, <1>14 DEF Start, tcp, history
<1>15. ASSUME NEW c \in Clients, Connect(c) PROVE Order'
  BY <1>12, <1>15 DEF Connect, history
<1>16. QED
  BY <1>2, <1>3, <1>4, <1>5, <1>6, <1>7, <1>8, <1>9, <1>10, <1>11, <1>13, <1>14, <1>15 DEF Next, Loop

LEMMA OrderHolds == Base /\ OrderInv => InOrder
<1> SUFFICES ASSUME Base, OrderInv, ~uaf, NEW c \in (Clients \union {None}) \ again
             PROVE  Increasing(ran[c])
  BY DEF InOrder
<1>1. \E n : RanGood(c, n, ran[c])
  BY DEF OrderInv, Order, ClientOK, SerialOK
<1>2. ran[c] \in Seq(Nat)
  BY DEF Base, RunsOK
<1>3. \A j \in 1..Len(ran[c]) : ran[c][j] \in Nat
  BY <1>2, ElementOfSeq
<1>4. QED
  BY <1>1, <1>3 DEF RanGood, Increasing, NL

(* What is run for a console is what was typed there, in order and at most *)
(* once, for any lines, sizes and nesting: what is in a buffer beyond the  *)
(* first activation's line comes after all that ran.  The hypothesis is    *)
(* only that lines are numbered as they are typed.                         *)
THEOREM RunInOrder == ASSUME TypedInOrder PROVE Spec => []InOrder
<1>1. Init => OrderInv
  BY InitOrder DEF OrderInv
<1>2. Base /\ OrderInv /\ [Next]_vars => OrderInv'
  BY NextOrder
<1>3. Spec => []OrderInv
  BY <1>1, <1>2, BaseAlways, PTL DEF Spec
<1>4. QED
  BY <1>3, BaseAlways, OrderHolds, PTL

-----------------------------------------------------------------------------
(* What a client typed is run, or in its buffer.                           *)

Clean(c) == c \in Clients /\ c \notin again /\ c \notin lost /\ c \notin shifted

(* A buffer b holds, after h, what follows the run r of the n pieces typed. *)
Holds(c, n, r, b, h) ==
  /\ \A j \in 1..Len(r) : r[j] = Typed[c][j]
  /\ h <= Len(b) /\ n = 2 * Len(r) + Len(b) - h
  /\ \A k \in h + 1..Len(b) : b[k] = Piece(c, 2 * Len(r) + k - h)

(* A second activation at a client's id cuts nothing off.                  *)
Second(fs, id) ==
  \A j, k \in 1..Len(fs) : j < k /\ fs[j].at = id /\ fs[k].at = id => fs[k].pc = "handle"

SentOK == \A c \in Clients : sent[c] <= 2 * Len(Typed[c])
NothingYet == \A c \in Unserved : ran[c] = <<>> /\ (c \in lost \/ sent[c] = 0)
StoreExact ==
  frames # <<>> /\ Top.pc = "store" /\ live[Top.at] # None =>
    Top.i + Top.rem = Len(buf[Top.at])
SecondOK == \A id \in Ids : Clean(live[id]) => Second(frames, id)
HoldsAll == \A id \in Ids, h \in Nat : Clean(live[id]) /\ Offset(frames, id, h) =>
  Holds(live[id], sent[live[id]], ran[live[id]], buf[id], h)

Kept == SentOK /\ NothingYet /\ StoreExact /\ SecondOK /\ HoldsAll
KeptInv == ~uaf /\ ~raced => Kept

LEMMA InitKept == Init => Kept
<1> SUFFICES ASSUME Init PROVE Kept
  OBVIOUS
<1>1. \A id \in Ids : ~Clean(live[id])
  BY Constants DEF Init, Clean
<1>2. SentOK
  <2>1. ASSUME NEW c \in Clients PROVE 0 <= 2 * Len(Typed[c])
    <3>1. Typed[c] \in Seq(Nat \ {0})
      BY Constants
    <3>2. Len(Typed[c]) \in Nat
      BY <3>1, LenProperties
    <3>3. QED
      BY <3>2
  <2>2. QED
    BY <2>1 DEF Init, SentOK
<1>3. NothingYet
  BY DEF Init, NothingYet, Unserved
<1>4. StoreExact
  BY DEF Init, StoreExact
<1>5. QED
  BY <1>1, <1>2, <1>3, <1>4 DEF Kept, SecondOK, HoldsAll

(* How the activations change in the steps that cut nothing off.           *)
Moved ==
  /\ frames' # <<>> => Top'.pc # "store"
  /\ \A id \in Ids : Second(frames, id) => Second(frames', id)

LEMMA MoveEnter ==
  ASSUME Base, NEW f \in Frame, Enter(f), f.at = Serial, f.pc # "store"
  PROVE  Moved
<1>1. frames \in Seq(Frame)
  BY DEF Base, TypeOK
<1>2. /\ Len(frames) \in Nat /\ Len(frames') = Len(frames) + 1
      /\ \A k \in 1..Len(frames) : frames'[k] = frames[k]
      /\ frames'[Len(frames) + 1] = f
  BY <1>1, EnterIs
<1>3. Top' = f
  BY <1>2 DEF Top
<1>4. ASSUME NEW id \in Ids, Second(frames, id) PROVE Second(frames', id)
  <2>1. f.at # id
    BY Constants DEF Serial
  <2>2. \A k \in 1..Len(frames') : frames'[k].at = id => k \in 1..Len(frames) /\ frames'[k] = frames[k]
    BY <1>2, <2>1
  <2>3. QED
    BY <1>4, <2>2 DEF Second
<1>5. QED
  BY <1>3, <1>4 DEF Moved

LEMMA MoveReturn ==
  ASSUME Base, frames # <<>>, Return, counter' = counter
  PROVE  Moved
<1>1. frames \in Seq(Frame) /\ FramesOK
  BY DEF Base, TypeOK
<1>2. /\ Len(frames) \in Nat \ {0} /\ Len(frames') = Len(frames) - 1
      /\ \A k \in 1..Len(frames) - 1 : frames'[k] = frames[k]
  BY <1>1, ReturnIs
<1>3. frames' # <<>> => Top'.pc # "store"
  BY <1>1, ReturnKeeps
<1>4. \A k \in 1..Len(frames') : k \in 1..Len(frames) /\ frames'[k] = frames[k]
  BY <1>2
<1>5. QED
  BY <1>3, <1>4 DEF Moved, Second

LEMMA SecondGoto ==
  ASSUME Base, frames # <<>>, NEW f \in Frame, Goto(f), NEW id \in Ids, Second(frames, id),
         f.at # id \/ f.pc = "handle" \/ ~Below(id)
  PROVE  Second(frames', id)
<1>1. frames \in Seq(Frame)
  BY DEF Base, TypeOK
<1>2. /\ Len(frames) \in Nat \ {0} /\ Len(frames') = Len(frames)
      /\ \A k \in 1..Len(frames) : frames'[k] = IF k = Len(frames) THEN f ELSE frames[k]
  BY <1>1, GotoIs
<1>3. ASSUME NEW j \in 1..Len(frames'), NEW k \in 1..Len(frames'), j < k,
             frames'[j].at = id, frames'[k].at = id
      PROVE  frames'[k].pc = "handle"
  <2>1. j \in 1..Len(frames) - 1 /\ frames'[j] = frames[j] /\ j \in 1..Len(frames) /\ k \in 1..Len(frames)
    BY <1>2, <1>3
  <2>2. CASE k = Len(frames)
    <3>1. Below(id) /\ frames'[k] = f
      BY <1>2, <1>3, <2>1, <2>2 DEF Below
    <3>2. QED
      BY <1>3, <3>1
  <2>3. CASE k # Len(frames)
    <3>1. frames'[k] = frames[k]
      BY <1>2, <2>1, <2>3
    <3>2. QED
      BY <1>3, <2>1, <3>1 DEF Second
  <2>4. QED
    BY <2>2, <2>3
<1>4. QED
  BY <1>3 DEF Second

LEMMA MoveGoto ==
  ASSUME Base, frames # <<>>, NEW f \in Frame, Goto(f), f.pc # "store", f.at = Serial \/ f.pc = "handle"
  PROVE  Moved
<1>1. Top' = f
  <2>1. frames \in Seq(Frame)
    BY DEF Base, TypeOK
  <2>2. /\ Len(frames) \in Nat \ {0} /\ Len(frames') = Len(frames)
        /\ \A k \in 1..Len(frames) : frames'[k] = IF k = Len(frames) THEN f ELSE frames[k]
    BY <2>1, GotoIs
  <2>3. QED
    BY <2>2 DEF Top
<1>2. ASSUME NEW id \in Ids, Second(frames, id) PROVE Second(frames', id)
  <2>1. f.at # id \/ f.pc = "handle"
    BY Constants DEF Serial
  <2>2. QED
    BY <1>2, <2>1, SecondGoto
<1>3. QED
  BY <1>1, <1>2 DEF Moved

LEMMA Moves ==
  ASSUME Base, ~uaf',
         LoopStarts \/ Wait \/ Pop \/ Iterate \/ NextClient \/ Accept \/ Store
           \/ PumpSerial \/ SerialReturns
  PROVE  Moved
<1>1. ~Misuse
  BY DEF Misuse
<1>2. CASE LoopStarts \/ Wait
  <2>1. Enter(NewLoop) /\ NewLoop \in Frame /\ NewLoop.at = Serial /\ NewLoop.pc = "accept"
    BY <1>2, EnterLoopIs, NewLoopIs
  <2>2. QED
    BY <2>1, MoveEnter
<1>3. CASE Pop
  <2> DEFINE f == [Top EXCEPT !.pc = "accept"]
  <2>1. frames # <<>> /\ Top.pc = "pop" /\ Goto(f) /\ f \in Frame
    BY <1>3, PopIs
  <2>2. f.at = Serial /\ f.pc = "accept"
    BY <2>1, TopFields DEF Frame
  <2> HIDE DEF f
  <2>3. QED
    BY <2>1, <2>2, MoveGoto
<1>4. CASE Iterate \/ NextClient
  <2>1. /\ frames # <<>> /\ Top.pc \in {"accept", "handle"} /\ GoOn /\ counter' = counter
    BY <1>1, <1>4 DEF Iterate, NextClient, At, maps
  <2>2. CASE Return
    BY <2>1, <2>2, MoveReturn
  <2>3. ASSUME NEW id \in Ids, Goto([Top EXCEPT !.pc = "handle", !.at = id]),
               [Top EXCEPT !.pc = "handle", !.at = id] \in Frame
        PROVE  Moved
    <3> DEFINE f == [Top EXCEPT !.pc = "handle", !.at = id]
    <3>1. Goto(f) /\ f \in Frame /\ f.pc = "handle"
      BY <2>1, <2>3, TopFields DEF Frame
    <3> HIDE DEF f
    <3>2. QED
      BY <2>1, <3>1, MoveGoto
  <2>4. Return \/ \E id \in Ids : /\ Goto([Top EXCEPT !.pc = "handle", !.at = id])
                               /\ [Top EXCEPT !.pc = "handle", !.at = id] \in Frame
    BY <2>1, GoOnIs, Zenon
  <2>5. QED
    BY <2>2, <2>3, <2>4, Zenon
<1>5. CASE Accept
  <2> DEFINE f == [Top EXCEPT !.pc = "pop"]
  <2>1. frames # <<>> /\ Top.pc = "accept" /\ Goto(f) /\ f \in Frame
    BY <1>1, <1>5, AcceptIs
  <2>2. f.at = Serial /\ f.pc = "pop"
    BY <2>1, TopFields DEF Frame
  <2> HIDE DEF f
  <2>3. QED
    BY <2>1, <2>2, MoveGoto
<1>6. CASE Store
  <2> DEFINE f == [Top EXCEPT !.pc = "handle", !.i = 0, !.rem = 0]
  <2>1. frames # <<>> /\ Goto(f) /\ f \in Frame
    BY <1>1, <1>6, StoreIs
  <2>2. f.pc = "handle"
    BY <2>1, TopFields DEF Frame
  <2> HIDE DEF f
  <2>3. QED
    BY <2>1, <2>2, MoveGoto
<1>7. CASE PumpSerial
  <2> DEFINE f == [NewLoop EXCEPT !.pc = "run"]
  <2>1. f \in Frame /\ f.pc = "run" /\ f.at = Serial
    BY NewLoopIs
  <2>2. frames = <<>> /\ (frames' = frames \/ Enter(f))
    BY <1>7, PumpSerialIs
  <2> HIDE DEF f
  <2>3. CASE frames' = frames
    BY <2>2, <2>3 DEF Moved
  <2>4. CASE Enter(f)
    BY <2>1, <2>4, MoveEnter
  <2>5. QED
    BY <2>2, <2>3, <2>4
<1>8. CASE SerialReturns
  <2>1. frames # <<>> /\ Return /\ counter' = counter
    BY <1>8 DEF SerialReturns, At, maps
  <2>2. QED
    BY <2>1, MoveReturn
<1>9. QED
  BY <1>2, <1>3, <1>4, <1>5, <1>6, <1>7, <1>8

(* Nobody becomes unserved.                                                *)
LEMMA UnservedShrinks ==
  ASSUME Base, Sess, [Next]_vars, ~uaf', ~raced'
  PROVE  \A c \in Clients : c \in Unserved' => c \in Unserved
<1>1. CASE UNCHANGED <<net, incoming>> /\ (Popping' <=> Popping)
  BY <1>1 DEF Unserved
<1>2. CASE UNCHANGED <<net, incoming>> /\ ~Popping
  BY <1>2 DEF Unserved
<1>3. CASE LoopStarts \/ Wait \/ Iterate \/ NextClient \/ StartLine \/ CommandReturns \/ Store
             \/ PumpSerial \/ Backspace \/ SerialReturns \/ Start \/ \E c \in Clients : Data(c)
  BY <1>1, <1>3, FrameSteps
<1>4. CASE Accept
  <2>1. ~Popping /\ UNCHANGED <<net, incoming>>
    BY <1>4, AcceptIs DEF Misuse, tcp, Popping
  <2>2. QED
    BY <1>2, <2>1
<1>5. CASE Pop
  <2>1. /\ Popping /\ incoming' = SubSeq(incoming, 1, Len(incoming) - 1) /\ net' = net
    BY <1>5, PopIs DEF Popping, tcp
  <2>2. incoming \in Seq(Clients) /\ Len(incoming) \in Nat /\ incoming # <<>>
    BY <2>1, LenProperties DEF Base, TypeOK, Sess, PopOK
  <2>3. Len(incoming') = Len(incoming) - 1 /\ \A k \in 1..Len(incoming) - 1 : incoming'[k] = incoming[k]
    BY <2>1, <2>2, ButLast
  <2>4. \A k \in 1..Len(incoming') : k \in 1..Len(incoming) /\ k # Len(incoming) /\ incoming'[k] = incoming[k]
    BY <2>2, <2>3
  <2>5. QED
    BY <2>1, <2>4 DEF Unserved
<1>6. CASE Stop
  <2>1. Len(incoming') = 0
    BY <1>6 DEF Stop
  <2>2. \A c \in Clients : net'[c] = "new" => net[c] = "new"
    BY <1>6 DEF Stop
  <2>3. QED
    BY <2>1, <2>2 DEF Unserved
<1>7. ASSUME NEW c \in Clients, Connect(c) PROVE \A d \in Clients : d \in Unserved' => d \in Unserved
  <2>1. /\ net[c] = "new" /\ net' = [net EXCEPT ![c] = "up"] /\ incoming' = Append(incoming, c)
        /\ ~Popping /\ incoming \in Seq(Clients) /\ net \in [Clients -> {"new", "up", "cut", "gone"}]
    BY <1>7 DEF Connect, At, Popping, Base, TypeOK
  <2>2. /\ Len(incoming) \in Nat /\ Len(incoming') = Len(incoming) + 1
        /\ \A k \in 1..Len(incoming) : incoming'[k] = incoming[k]
        /\ incoming'[Len(incoming) + 1] = c
    BY <2>1, AppendProperties
  <2>3. \A k \in 1..Len(incoming') : incoming'[k] = c \/ (k \in 1..Len(incoming) /\ incoming'[k] = incoming[k])
    BY <2>2
  <2>4. \A d \in Clients : net'[d] = "new" => net[d] = "new"
    BY <2>1
  <2>5. c \in Unserved
    BY <2>1 DEF Unserved
  <2>6. QED
    BY <2>1, <2>3, <2>4, <2>5 DEF Unserved
<1>8. ASSUME NEW c \in Clients, Disconnect(c) PROVE \A d \in Clients : d \in Unserved' => d \in Unserved
  <2>1. /\ net' = [net EXCEPT ![c] = "gone"] /\ incoming' = incoming /\ frames' = frames
        /\ net \in [Clients -> {"new", "up", "cut", "gone"}]
    BY <1>8, DisconnectIs DEF Base, TypeOK
  <2>2. \A d \in Clients : net'[d] = "new" => net[d] = "new"
    BY <2>1
  <2>3. Popping' <=> Popping
    BY <2>1 DEF Popping, Top
  <2>4. QED
    BY <2>1, <2>2, <2>3 DEF Unserved
<1>9. CASE UNCHANGED vars
  BY <1>1, <1>9 DEF vars, tcp, maps, Popping, Top
<1>10. QED
  BY <1>3, <1>4, <1>5, <1>6, <1>7, <1>8, <1>9 DEF Next, Loop

(* A client that has an id is served.                                      *)
LEMMA Served ==
  ASSUME Base, Sess, NEW id \in Ids, live[id] \in Clients
  PROVE  live[id] \notin Unserved
<1>1. live[id] # None
  BY Constants
<1>2. net[live[id]] # "new"
  BY <1>1 DEF Sess, LiveUp
<1>3. QED
  BY <1>2 DEF Sess, Apart, Unserved

(* The steps in which nothing is typed, run or lost.                       *)
LEMMA KeptSame ==
  ASSUME Kept, UNCHANGED <<sent, ran, history>>,
         \A c \in Clients : c \in Unserved' => c \in Unserved,
         \A id \in Ids : live'[id] \in Clients => live'[id] = live[id] /\ buf'[id] = buf[id],
         \A id \in Ids, h \in Nat : Clean(live[id]) /\ Offset(frames', id, h) => Offset(frames, id, h),
         \A id \in Ids : Clean(live[id]) /\ Second(frames, id) => Second(frames', id),
         StoreExact'
  PROVE  Kept'
<1>1. SentOK' /\ NothingYet'
  <2>1. ASSUME NEW c \in Unserved' PROVE ran'[c] = <<>> /\ (c \in lost' \/ sent'[c] = 0)
    <3>1. c \in Unserved
      BY <2>1 DEF Unserved
    <3>2. QED
      BY <3>1 DEF Kept, NothingYet, history
  <2>2. QED
    BY <2>1 DEF Kept, SentOK, NothingYet
<1>2. ASSUME NEW id \in Ids, Clean(live[id])' PROVE Clean(live[id]) /\ live'[id] = live[id] /\ buf'[id] = buf[id]
  BY <1>2 DEF Clean, history
<1>3. SecondOK'
  BY <1>2 DEF Kept, SecondOK
<1>4. HoldsAll'
  BY <1>2 DEF Kept, HoldsAll
<1>5. QED
  BY <1>1, <1>3, <1>4 DEF Kept

LEMMA FramesKept ==
  ASSUME Base, Kept, ~uaf', \A c \in Clients : c \in Unserved' => c \in Unserved,
         LoopStarts \/ Wait \/ Pop \/ Iterate \/ NextClient
  PROVE  Kept'
<1>1. Moved
  BY Moves
<1>2. OffsetsStay /\ UNCHANGED <<sent, live, buf, history>>
  BY SameOffsets
<1>3. StoreExact'
  BY <1>1 DEF Moved, StoreExact
<1>4. QED
  BY <1>1, <1>2, <1>3, KeptSame DEF Moved, OffsetsStay, history

(* A command that returns to a second activation would have made its       *)
(* client one of again.                                                    *)
LEMMA CommandReturnsKept ==
  ASSUME Base, Kept, CommandReturns, ~uaf', \A c \in Clients : c \in Unserved' => c \in Unserved
  PROVE  Kept'
<1>1. /\ frames # <<>> /\ Top.pc = "run" /\ Top.at \in Ids /\ Top.i <= Len(buf[Top.at])
      /\ Goto(Remaining(buf[Top.at], Top.i))
      /\ Top'.at = Top.at /\ Top'.i = Top.i /\ Top'.rem = Len(buf[Top.at]) - Top.i
      /\ counter' = counter
  BY CommandReturnsIs DEF Misuse, maps
<1>2. OffsetsStay /\ UNCHANGED <<sent, live, buf, history>>
  BY SameOffsets
<1>3. buf[Top.at] \in Seq(Pieces) /\ Len(buf[Top.at]) \in Nat /\ Top.i \in Nat
  <2>1. buf[Top.at] \in Seq(Pieces)
    BY <1>1 DEF Base, TypeOK
  <2>2. QED
    BY <1>1, <2>1, TopFields, LenProperties
<1>4. StoreExact'
  <2>1. Top'.i + Top'.rem = Len(buf'[Top'.at])
    BY <1>1, <1>2, <1>3
  <2>2. QED
    BY <2>1 DEF StoreExact
<1>5. ASSUME NEW id \in Ids, Second(frames, id) PROVE Second(frames', id)
  <2> DEFINE f == Remaining(buf[Top.at], Top.i)
  <2>1. f \in Frame /\ f.at = Top.at
    <3>1. Top.at # Serial
      BY <1>1, Constants DEF Serial
    <3>2. f \in Frame
      BY <1>1, <1>3, <3>1, RemainingIs
    <3>3. QED
      BY <1>1, <3>2, TopFields DEF Remaining, Frame
  <2>2. Goto(f)
    BY <1>1
  <2> HIDE DEF f
  <2>3. ASSUME Top.at = id PROVE ~Below(id)
    <3>1. /\ Len(frames) \in 1..Len(frames) /\ Len(frames) \in Nat \ {0} /\ Top = frames[Len(frames)]
      BY <1>1, TopFields
    <3>2. \A k \in 1..Len(frames) - 1 : k \in 1..Len(frames) /\ k < Len(frames)
      BY <3>1
    <3>3. QED
      BY <1>1, <1>5, <2>3, <3>1, <3>2 DEF Below, Second
  <2>4. QED
    BY <1>1, <1>5, <2>1, <2>2, <2>3, SecondGoto
<1>6. QED
  BY <1>2, <1>4, <1>5, KeptSame DEF OffsetsStay, history

(* Entries only go.                                                        *)
LEMMA DropKept ==
  ASSUME Base, Kept, Dropped, UNCHANGED <<sent, frames, history>>,
         \A c \in Clients : c \in Unserved' => c \in Unserved
  PROVE  Kept'
<1>1. \A id \in Ids : live'[id] # None => live'[id] = live[id] /\ buf'[id] = buf[id]
  BY DEF Dropped
<1>2. StoreExact'
  <2>1. Top' = Top
    BY DEF Top
  <2>2. ASSUME frames # <<>>, Top.pc = "store" PROVE Top.at \in Ids
    BY <2>2, TopFields
  <2>3. QED
    BY <1>1, <2>1, <2>2 DEF Kept, StoreExact
<1>3. QED
  BY <1>1, <1>2, KeptSame, Constants DEF history

LEMMA SerialKept ==
  ASSUME Base, Kept, ~uaf', PumpSerial \/ SerialReturns,
         \A c \in Clients : c \in Unserved' => c \in Unserved
  PROVE  Kept'
<1>1. Moved
  BY Moves
<1>2. \A id \in Ids, h \in Nat : Offset(frames', id, h) => Offset(frames, id, h)
  BY SerialOffsets
<1>3. UNCHANGED <<sent, live, buf, again, lost, shifted>> /\ \A c \in Clients : ran'[c] = ran[c]
  <2>1. CASE PumpSerial
    <3>1. ran \in [Clients \union {None} -> Seq(Nat)]
      BY DEF Base, RunsOK
    <3>2. ran' = ran \/ ran' = [ran EXCEPT ![None] = @ \o line']
      BY <2>1, PumpSerialIs
    <3>3. QED
      BY <2>1, <3>1, <3>2, PumpSerialIs, Constants DEF maps
  <2>2. CASE SerialReturns
    BY <2>2 DEF SerialReturns, tcp, maps, history
  <2>3. QED
    BY <2>1, <2>2
<1>4. StoreExact'
  BY <1>1 DEF Moved, StoreExact
<1>5. SentOK' /\ NothingYet'
  <2>1. \A c \in Unserved' : c \in Clients /\ c \in Unserved
    BY DEF Unserved
  <2>2. QED
    BY <1>3, <2>1 DEF Kept, SentOK, NothingYet
<1>6. \A id \in Ids : Clean(live[id])' => Clean(live[id])
  BY <1>3 DEF Clean
<1>7. SecondOK'
  BY <1>1, <1>3, <1>6 DEF Kept, SecondOK, Moved
<1>8. HoldsAll'
  <2>1. \A id \in Ids : Clean(live[id]) => live[id] \in Clients
    BY DEF Clean
  <2>2. QED
    BY <1>2, <1>3, <1>6, <2>1 DEF Kept, HoldsAll
<1>9. QED
  BY <1>4, <1>5, <1>7, <1>8 DEF Kept

(* Nothing was typed by a client that initClient serves now, or it is lost. *)
LEMMA AcceptKept ==
  ASSUME Base, Sess, Kept, Accept, ~uaf', \A c \in Clients : c \in Unserved' => c \in Unserved
  PROVE  Kept'
<1> DEFINE new == counter + 1
           d == incoming[Len(incoming)]
<1>1. /\ live' = [live EXCEPT ![new] = d] /\ buf' = [buf EXCEPT ![new] = <<>>] /\ d \in Clients
      /\ frames # <<>> /\ Top.pc = "accept" /\ incoming # <<>>
      /\ UNCHANGED <<sent, history>>
  BY AcceptIs DEF Misuse, tcp
<1>2. /\ counter \in Nat /\ incoming \in Seq(Clients)
      /\ live \in [Ids -> Clients \union {None}] /\ buf \in [Ids -> Seq(Pieces)]
  BY DEF Base, TypeOK
<1>3. d \in Unserved
  <2>1. Len(incoming) \in 1..Len(incoming)
    BY <1>1, <1>2, EmptySeq
  <2>2. QED
    BY <1>1, <2>1 DEF Unserved, Popping
<1>4. \A id \in Ids : \/ live'[id] = live[id] /\ buf'[id] = buf[id]
                      \/ id = new /\ buf'[id] = <<>> /\ live'[id] = d
  BY <1>1, <1>2
<1>5. \A h \in Nat : new \in Ids /\ Offset(frames, new, h) => h = 0
  <2>1. ASSUME NEW k \in 1..Len(frames) PROVE frames[k].at # new
    <3>1. frames[k].at <= counter /\ frames[k].at \in Nat
      BY FrameOf DEF Base, TypeOK, FramesOK
    <3>2. QED
      BY <1>2, <3>1
  <2>2. QED
    BY <2>1 DEF Offset
<1> HIDE DEF new, d
<1>6. Moved /\ OffsetsStay
  BY Moves, AcceptOffsets
<1>7. StoreExact'
  BY <1>6 DEF Moved, StoreExact
<1>8. SentOK' /\ NothingYet'
  <2>1. \A c \in Unserved' : c \in Clients /\ c \in Unserved
    BY DEF Unserved
  <2>2. QED
    BY <1>1, <2>1 DEF Kept, SentOK, NothingYet, history
<1>9. SecondOK'
  <2>1. ASSUME NEW id \in Ids, id = new PROVE Second(frames, id)
    <3>1. ASSUME NEW k \in 1..Len(frames) PROVE frames[k].at # id
      <4>1. frames[k].at <= counter /\ frames[k].at \in Nat
        BY FrameOf DEF Base, TypeOK, FramesOK
      <4>2. QED
        BY <1>2, <2>1, <4>1 DEF new
    <3>2. QED
      BY <3>1 DEF Second
  <2>2. ASSUME NEW id \in Ids, Clean(live[id])' PROVE Second(frames', id)
    <3>1. CASE live'[id] = live[id]
      <4>1. Clean(live[id])
        BY <1>1, <2>2, <3>1 DEF Clean, history
      <4>2. QED
        BY <1>6, <4>1 DEF Kept, SecondOK, Moved
    <3>2. CASE id = new
      BY <1>6, <2>1, <3>2 DEF Moved
    <3>3. QED
      BY <1>4, <3>1, <3>2
  <2>3. QED
    BY <2>2 DEF SecondOK
<1>10. HoldsAll'
  <2>1. ASSUME NEW id \in Ids, NEW h \in Nat, Clean(live[id])', Offset(frames', id, h)
        PROVE  Holds(live'[id], sent[live'[id]], ran[live'[id]], buf'[id], h)
    <3>1. Offset(frames, id, h)
      BY <1>6, <2>1 DEF OffsetsStay
    <3>2. CASE live'[id] = live[id] /\ buf'[id] = buf[id]
      <4>1. Clean(live[id])
        BY <1>1, <2>1, <3>2 DEF Clean, history
      <4>2. QED
        BY <3>1, <3>2, <4>1 DEF Kept, HoldsAll
    <3>3. CASE id = new /\ buf'[id] = <<>> /\ live'[id] = d
      <4>1. h = 0
        BY <1>5, <3>1, <3>3
      <4>2. ran[d] = <<>> /\ sent[d] = 0
        BY <1>1, <1>3, <2>1, <3>3 DEF Kept, NothingYet, Clean, history
      <4>3. Len(<<>>) = 0
        OBVIOUS
      <4>4. Holds(d, 0, <<>>, <<>>, 0)
        BY <4>3 DEF Holds
      <4>5. QED
        BY <3>3, <4>1, <4>2, <4>4
    <3>4. QED
      BY <1>4, <3>2, <3>3
  <2>2. QED
    BY <1>1, <2>1 DEF HoldsAll, history
<1>11. QED
  BY <1>7, <1>8, <1>9, <1>10 DEF Kept

(* A buffer that is moved down by h, and one that a piece is added to.     *)
LEMMA HoldsMoved ==
  ASSUME NEW c, NEW n, NEW r \in Seq(Nat), NEW b \in Seq(Pieces), NEW h \in Nat,
         Holds(c, n, r, b, h), NEW a \in Seq(Pieces), Len(a) + h = Len(b),
         \A k \in 1..Len(a) : a[k] = b[h + k]
  PROVE  Holds(c, n, r, a, 0)
<1>1. Len(r) \in Nat /\ Len(a) \in Nat /\ Len(b) \in Nat
  BY LenProperties
<1>2. 0 <= Len(a) /\ n = 2 * Len(r) + Len(a) - 0
  <2>1. n = 2 * Len(r) + Len(b) - h
    BY DEF Holds
  <2> DEFINE x == Len(r)
             y == Len(a)
             z == Len(b)
  <2>2. x \in Nat /\ y \in Nat /\ z \in Nat /\ y + h = z /\ n = 2 * x + z - h
    BY <1>1, <2>1
  <2> HIDE DEF x, y, z
  <2>3. 0 <= y /\ n = 2 * x + y - 0
    BY <2>2
  <2>4. QED
    BY <2>3 DEF x, y
<1>3. ASSUME NEW k \in 0 + 1..Len(a) PROVE a[k] = Piece(c, 2 * Len(r) + k - 0)
  <2>1. k \in 1..Len(a) /\ h + k \in h + 1..Len(b)
    BY <1>1
  <2>2. 2 * Len(r) + (h + k) - h = 2 * Len(r) + k - 0
    BY <1>1
  <2>3. b[h + k] = Piece(c, 2 * Len(r) + (h + k) - h)
    BY <2>1 DEF Holds
  <2>4. QED
    BY <2>1, <2>2, <2>3
<1>4. QED
  BY <1>2, <1>3 DEF Holds

LEMMA HoldsMore ==
  ASSUME NEW c, NEW n \in Nat, NEW r \in Seq(Nat), NEW b \in Seq(Pieces), NEW h \in Nat,
         Holds(c, n, r, b, h), Piece(c, n + 1) \in Pieces
  PROVE  Holds(c, n + 1, r, Append(b, Piece(c, n + 1)), h)
<1> DEFINE p == Piece(c, n + 1)
           a == Append(b, p)
<1>1. Len(r) \in Nat /\ Len(b) \in Nat
  BY LenProperties
<1>2. /\ Len(a) = Len(b) + 1 /\ \A k \in 1..Len(b) : a[k] = b[k]
      /\ a[Len(b) + 1] = p
  BY AppendProperties
<1> HIDE DEF a, p
<1>3. h <= Len(a) /\ n + 1 = 2 * Len(r) + Len(a) - h /\ 2 * Len(r) + Len(a) - h = n + 1
  <2>1. h <= Len(b) /\ n = 2 * Len(r) + Len(b) - h
    BY DEF Holds
  <2>2. Len(a) = Len(b) + 1
    BY <1>2
  <2>3. QED
    BY <1>1, <2>1, <2>2
<1>4. ASSUME NEW k \in h + 1..Len(a) PROVE a[k] = Piece(c, 2 * Len(r) + k - h)
  <2>1. CASE k = Len(a)
    BY <1>2, <1>3, <2>1 DEF p
  <2>2. CASE k # Len(a)
    <3>1. k \in h + 1..Len(b) /\ k \in 1..Len(b)
      BY <1>1, <1>2, <2>2
    <3>2. QED
      BY <1>2, <3>1 DEF Holds
  <2>3. QED
    BY <2>1, <2>2
<1>5. \A j \in 1..Len(r) : r[j] = Typed[c][j]
  BY DEF Holds
<1>6. Holds(c, n + 1, r, a, h)
  BY <1>3, <1>4, <1>5 DEF Holds
<1>7. QED
  BY <1>6 DEF a, p

(* What the command left in the buffer is moved down as it is.             *)
LEMMA StoreKept ==
  ASSUME Base, Kept, Store, ~uaf', \A c \in Clients : c \in Unserved' => c \in Unserved
  PROVE  Kept'
<1> DEFINE at == Top.at
           i == Top.i
           r == Top.rem
<1>1. /\ frames # <<>> /\ Top.pc = "store" /\ at \in Ids /\ live[at] # None
      /\ i \in Nat /\ r \in Nat
      /\ buf' = [buf EXCEPT ![at] = SubSeq(buf[at], i + 1, i + r)]
      /\ buf'[at] \in Seq(Pieces) /\ Len(buf'[at]) = r
      /\ \A k \in 1..r : buf'[at][k] = buf[at][i + k]
      /\ UNCHANGED <<sent, live, history>>
  BY StoreIs DEF Misuse, tcp, maps
<1>2. i + r = Len(buf[at])
  BY <1>1 DEF Kept, StoreExact
<1>3. /\ Moved
      /\ \A id \in Ids, h \in Nat : Offset(frames', id, h) =>
           \/ Offset(frames, id, h) /\ (id = at => Below(id))
           \/ id = at /\ h = 0 /\ Offset(frames, id, i)
  BY Moves, StoreOffsets
<1>4. ASSUME Second(frames, at) PROVE ~Below(at)
  <2>1. /\ Len(frames) \in 1..Len(frames) /\ Len(frames) \in Nat \ {0} /\ Top = frames[Len(frames)]
    BY <1>1, TopFields
  <2>2. \A k \in 1..Len(frames) - 1 : k \in 1..Len(frames) /\ k < Len(frames)
    BY <2>1
  <2>3. QED
    BY <1>1, <1>4, <2>1, <2>2 DEF Below, Second
<1> HIDE DEF at, i, r
<1>5. \A id \in Ids : id # at => buf'[id] = buf[id]
  BY <1>1 DEF Base, TypeOK
<1>6. StoreExact' /\ SecondOK'
  <2>1. \A id \in Ids : Clean(live[id])' => Clean(live[id])
    BY <1>1 DEF Clean, history
  <2>2. QED
    BY <1>1, <1>3, <2>1 DEF Moved, StoreExact, Kept, SecondOK
<1>7. SentOK' /\ NothingYet'
  <2>1. \A c \in Unserved' : c \in Clients /\ c \in Unserved
    BY DEF Unserved
  <2>2. QED
    BY <1>1, <2>1 DEF Kept, SentOK, NothingYet, history
<1>8. ASSUME NEW id \in Ids, NEW h \in Nat, Clean(live[id]), Offset(frames', id, h)
      PROVE  Holds(live[id], sent[live[id]], ran[live[id]], buf'[id], h)
  <2>1. Second(frames, id)
    BY <1>8 DEF Kept, SecondOK
  <2>2. CASE id # at
    <3>1. Offset(frames, id, h)
      BY <1>3, <1>8, <2>2
    <3>2. QED
      BY <1>5, <1>8, <2>2, <3>1 DEF Kept, HoldsAll
  <2>3. CASE id = at
    <3>1. h = 0 /\ Offset(frames, at, i)
      BY <1>3, <1>4, <1>8, <2>1, <2>3
    <3>2. Holds(live[at], sent[live[at]], ran[live[at]], buf[at], i)
      BY <1>1, <1>8, <2>3, <3>1 DEF Kept, HoldsAll
    <3>3. ran[live[at]] \in Seq(Nat) /\ buf[at] \in Seq(Pieces)
      BY <1>1, <1>8, <2>3 DEF Clean, Base, TypeOK, RunsOK
    <3>4. Len(buf'[at]) + i = Len(buf[at]) /\ \A k \in 1..Len(buf'[at]) : buf'[at][k] = buf[at][i + k]
      BY <1>1, <1>2
    <3> DEFINE c == live[at]
               n == sent[c]
               o == ran[c]
               a == buf'[at]
               b == buf[at]
    <3>5. /\ o \in Seq(Nat) /\ a \in Seq(Pieces) /\ b \in Seq(Pieces) /\ Holds(c, n, o, b, i)
          /\ Len(a) + i = Len(b) /\ \A k \in 1..Len(a) : a[k] = b[i + k]
      BY <1>1, <3>2, <3>3, <3>4
    <3> HIDE DEF c, n, o, a, b
    <3>6. Holds(c, n, o, a, 0)
      BY <1>1, <3>5, HoldsMoved
    <3>7. QED
      BY <2>3, <3>1, <3>6 DEF c, n, o, a
  <2>4. QED
    BY <2>2, <2>3
<1>9. HoldsAll'
  <2>1. \A id \in Ids : Clean(live[id])' => Clean(live[id])
    BY <1>1 DEF Clean, history
  <2>2. QED
    BY <1>1, <1>8, <2>1 DEF HoldsAll, history
<1>10. QED
  BY <1>6, <1>7, <1>9 DEF Kept

(* What a client that loses nothing types goes to the end of its buffer.   *)
LEMMA DataKept ==
  ASSUME Base, Sess, Kept, NEW c \in Clients, Data(c), ~raced',
         \A d \in Clients : d \in Unserved' => d \in Unserved
  PROVE  Kept'
<1> DEFINE n == sent[c]
           p == Piece(c, n + 1)
<1>1. /\ n \in Nat /\ sent' = [sent EXCEPT ![c] = n + 1] /\ More(c, n)
      /\ UNCHANGED <<live, frames, ran, again, shifted>>
      /\ sent \in [Clients -> Nat] /\ buf \in [Ids -> Seq(Pieces)]
      /\ ran \in [Clients \union {None} -> Seq(Nat)]
  BY DataIs DEF Data, maps, Base, TypeOK, RunsOK
<1>2. /\ lost \subseteq lost'
      /\ \/ c \in lost' /\ (\A id \in Ids : live[id] # c) /\ buf' = buf
         \/ \E id \in Ids : /\ live[id] = c
                            /\ buf' = [buf EXCEPT ![id] = Fit(buf[id], p)]
                            /\ ~(At("store") /\ Top.at = id)
                            /\ c \in lost' \/ buf' # buf
  <2>1. CASE IdsOf(c) = {}
    BY <2>1 DEF Data, IdsOf
  <2>2. CASE IdsOf(c) # {}
    <3> DEFINE id == First(IdsOf(c))
    <3>1. id \in IdsOf(c)
      BY <2>2, FirstIs, Constants DEF IdsOf
    <3>2. /\ buf' = [buf EXCEPT ![id] = Fit(buf[id], p)]
          /\ lost' = IF buf' = buf THEN lost \union {c} ELSE lost
      <4>1. sent'[c] = n + 1
        BY <1>1
      <4>2. QED
        BY <2>2, <4>1 DEF Data
    <3>3. ~(At("store") /\ Top.at = id)
      <4>1. raced' = (raced \/ (At("store") /\ Top.at = id))
        BY <2>2, Zenon DEF Data
      <4>2. QED
        BY <4>1, Zenon
    <3> HIDE DEF id
    <3>4. id \in Ids /\ live[id] = c
      BY <3>1 DEF IdsOf
    <3>5. lost \subseteq lost' /\ (c \in lost' \/ buf' # buf)
      BY <3>2
    <3>6. QED
      BY <3>2, <3>3, <3>4, <3>5
  <2>3. QED
    BY <2>1, <2>2
<1>3. More(c, n) /\ p \in Pieces
  BY <1>1, PieceIs DEF Pieces
<1> HIDE DEF p
<1>4. SentOK'
  <2>1. Len(Typed[c]) \in Nat
    <3>1. Typed[c] \in Seq(Nat \ {0})
      BY Constants
    <3>2. QED
      BY <3>1, LenProperties
  <2>2. n + 1 <= 2 * Len(Typed[c])
    BY <1>1, <2>1 DEF More
  <2>3. QED
    BY <1>1, <2>2 DEF Kept, SentOK
<1>5. NothingYet'
  <2>1. ASSUME NEW d \in Unserved' PROVE ran[d] = <<>> /\ (d \in lost' \/ sent'[d] = 0)
    <3>1. d \in Unserved /\ d \in Clients
      BY <2>1 DEF Unserved
    <3>2. ran[d] = <<>> /\ (d \in lost \/ sent[d] = 0)
      BY <3>1 DEF Kept, NothingYet
    <3>3. CASE d = c
      <4>1. \A id \in Ids : live[id] # c
        BY <3>1, <3>3, Served
      <4>2. QED
        BY <1>2, <3>2, <3>3, <4>1
    <3>4. CASE d # c
      BY <1>1, <1>2, <3>1, <3>2, <3>4
    <3>5. QED
      BY <3>3, <3>4
  <2>2. QED
    BY <1>1, <2>1 DEF NothingYet
<1>6. StoreExact'
  <2>1. Top' = Top
    BY <1>1 DEF Top
  <2>2. ASSUME frames # <<>>, Top.pc = "store", live[Top.at] # None
        PROVE  buf'[Top.at] = buf[Top.at]
    <3>1. Top.at \in Ids
      BY <2>2, TopFields
    <3>2. ~uaf
      BY DEF Data
    <3>3. At("store")
      BY <2>2, <3>2 DEF At
    <3>4. QED
      BY <1>1, <1>2, <3>1, <3>3
  <2>3. QED
    BY <1>1, <2>1, <2>2 DEF Kept, StoreExact
<1>7. SecondOK'
  <2>1. \A id \in Ids : Clean(live[id])' => Clean(live[id])
    BY <1>1, <1>2 DEF Clean
  <2>2. QED
    BY <1>1, <2>1 DEF Kept, SecondOK
<1>8. ASSUME NEW id \in Ids, NEW h \in Nat, Clean(live[id])', Offset(frames, id, h)
      PROVE  Holds(live[id], sent'[live[id]], ran[live[id]], buf'[id], h)
  <2>1. Clean(live[id]) /\ live[id] \in Clients /\ live[id] \notin lost'
    BY <1>1, <1>2, <1>8 DEF Clean
  <2>2. Holds(live[id], sent[live[id]], ran[live[id]], buf[id], h)
    BY <1>8, <2>1 DEF Kept, HoldsAll
  <2>3. CASE live[id] # c
    <3>1. buf'[id] = buf[id] /\ sent'[live[id]] = sent[live[id]]
      BY <1>1, <1>2, <2>1, <2>3
    <3>2. QED
      BY <2>2, <3>1
  <2>4. CASE live[id] = c
    <3> DEFINE b == buf[id]
               r == ran[c]
    <3>1. \A j \in Ids : live[j] = c => j = id
      BY <2>4, Constants DEF Sess, LiveOnce
    <3>2. buf' = [buf EXCEPT ![id] = Fit(b, p)] /\ buf' # buf
      BY <1>2, <2>1, <2>4, <3>1
    <3>3. buf'[id] = Append(b, p)
      <4>1. Fit(b, p) # b
        BY <1>1, <3>2
      <4>2. buf'[id] = Fit(b, p)
        BY <1>1, <3>2
      <4>3. QED
        BY <4>1, <4>2 DEF Fit
    <3>4. b \in Seq(Pieces) /\ r \in Seq(Nat)
      BY <1>1
    <3>5. Holds(c, n, r, b, h)
      BY <2>2, <2>4
    <3> HIDE DEF b, r
    <3>6. Holds(c, n + 1, r, Append(b, p), h)
      BY <1>1, <1>3, <3>4, <3>5, HoldsMore DEF p
    <3>7. sent'[c] = n + 1
      BY <1>1
    <3>8. QED
      BY <2>4, <3>3, <3>6, <3>7 DEF r
  <2>5. QED
    BY <2>3, <2>4
<1>9. HoldsAll'
  BY <1>1, <1>8 DEF HoldsAll
<1>10. QED
  BY <1>4, <1>5, <1>6, <1>7, <1>9 DEF Kept

(* A line that runs is the next text typed.                                *)
LEMMA HoldsRun ==
  ASSUME NEW c \in Clients \union {None}, NEW n \in Nat, n <= 2 * Len(Typed[c]),
         NEW r \in Seq(Nat), NEW b \in Seq(Pieces), Holds(c, n, r, b, 0),
         NEW i \in 1..Len(b), b[i] = NL, \A k \in 1..i - 1 : b[k] # NL,
         NEW x \in Seq(Nat), \A k \in 1..Len(x) : x[k] = b[k],
         (\A k \in 1..i - 1 : b[k] # Nul) => Len(x) = i - 1,
         NEW cut \in Seq(Pieces), Len(cut) = Len(b),
         \A k \in 1..Len(b) : cut[k] = IF k = i THEN Nul ELSE b[k]
  PROVE  Holds(c, n, r \o x, cut, i)
<1> DEFINE m == Len(r)
           l == Len(b)
           t == Len(Typed[c])
<1>1. m \in Nat /\ l \in Nat /\ t \in Nat /\ Typed[c] \in Seq(Nat \ {0})
  BY Constants, LenProperties
<1>2. n = 2 * m + l - 0 /\ \A k \in 0 + 1..l : b[k] = Piece(c, 2 * m + k - 0)
  BY DEF Holds
<1> HIDE DEF m, l, t
<1>3. 1 \in 1..l /\ m + 1 \in 1..Len(Typed[c]) /\ 0 + 1 = 1
  <2>1. i \in 1..l /\ n <= 2 * t
    BY DEF l, t
  <2>2. n = 2 * m + l
    BY <1>1, <1>2
  <2>3. 1 \in 1..l /\ m + 1 \in 1..t
    BY <1>1, <2>1, <2>2
  <2>4. QED
    BY <2>3 DEF t
<1>4. b[1] = Typed[c][m + 1] /\ b[1] \in Nat \ {0}
  <2>1. b[1] = Piece(c, 2 * m + 1 - 0)
    BY <1>2, <1>3
  <2>2. (2 * m + 1 - 0) % 2 = 1 /\ ((2 * m + 1 - 0) + 1) \div 2 = m + 1
    BY <1>1
  <2>3. b[1] = Typed[c][m + 1]
    BY <2>1, <2>2 DEF Piece
  <2>4. QED
    BY <1>1, <1>3, <2>3, ElementOfSeq
<1>5. i = 2
  <2>1. i # 1
    BY <1>4 DEF NL
  <2>2. 2 \in 1..l
    BY <1>1, <2>1 DEF l
  <2>3. b[2] = NL
    <3>1. b[2] = Piece(c, 2 * m + 2 - 0)
      BY <1>2, <2>2
    <3>2. (2 * m + 2 - 0) % 2 # 1
      BY <1>1
    <3>3. QED
      BY <3>1, <3>2 DEF Piece
  <2>4. ~(2 \in 1..i - 1)
    BY <2>3
  <2>5. QED
    BY <1>1, <2>1, <2>4 DEF l
<1>6. Len(x) = 1 /\ x[1] = b[1]
  <2>1. \A k \in 1..i - 1 : b[k] # Nul
    BY <1>4, <1>5 DEF Nul
  <2>2. QED
    BY <1>5, <2>1
<1> DEFINE o == r \o x
<1>7. /\ Len(o) = m + 1 /\ \A j \in 1..m : o[j] = r[j]
      /\ o[m + 1] = b[1]
  <2>1. /\ Len(o) = Len(r) + Len(x)
        /\ \A j \in 1..Len(o) : o[j] = IF j <= Len(r) THEN r[j] ELSE x[j - Len(r)]
    BY ConcatProperties
  <2> HIDE DEF o
  <2>2. m + 1 \in 1..Len(o) /\ ~(m + 1 <= m) /\ (m + 1) - m = 1 /\ \A j \in 1..m : j \in 1..Len(o) /\ j <= m
    BY <1>1, <1>6, <2>1 DEF m
  <2>3. QED
    BY <1>6, <2>1, <2>2 DEF m
<1> HIDE DEF o
<1>8. ASSUME NEW j \in 1..Len(o) PROVE o[j] = Typed[c][j]
  <2>1. CASE j = m + 1
    BY <1>4, <1>7, <2>1
  <2>2. CASE j # m + 1
    <3>1. j \in 1..m
      BY <1>1, <1>7, <2>2
    <3>2. r[j] = Typed[c][j]
      BY <3>1 DEF Holds, m
    <3>3. QED
      BY <1>7, <3>1, <3>2
  <2>3. QED
    BY <2>1, <2>2
<1>9. i <= Len(cut) /\ n = 2 * Len(o) + Len(cut) - i
  BY <1>1, <1>2, <1>5, <1>7 DEF l
<1>10. ASSUME NEW k \in i + 1..Len(cut) PROVE cut[k] = Piece(c, 2 * Len(o) + k - i)
  <2>1. k \in 1..l /\ k # i /\ k \in 0 + 1..l
    BY <1>1, <1>5 DEF l
  <2>2. 2 * Len(o) + k - i = 2 * m + k - 0
    BY <1>1, <1>5, <1>7, <2>1
  <2>3. cut[k] = b[k]
    BY <2>1 DEF l
  <2>4. QED
    BY <1>2, <2>1, <2>2, <2>3
<1>11. Holds(c, n, o, cut, i)
  BY <1>8, <1>9, <1>10 DEF Holds
<1>12. QED
  BY <1>11 DEF o

LEMMA StartLineKept ==
  ASSUME Base, Sess, Kept, StartLine, \A c \in Clients : c \in Unserved' => c \in Unserved
  PROVE  Kept'
<1>1. PICK id \in Ids, i \in Nat, cut \in Seq(Pieces) :
           /\ frames # <<>> /\ Top.pc = "handle" /\ Top.at = id /\ id # Serial
           /\ live[id] \in Clients /\ Newlines(buf[id]) # {}
           /\ i = First(Newlines(buf[id])) /\ cut = [buf[id] EXCEPT ![i] = Nul]
           /\ buf' = [buf EXCEPT ![id] = cut]
           /\ \/ /\ Goto(Remaining(cut, i)) /\ UNCHANGED <<ran, again>>
                 /\ shifted' = shifted \union {live[id]}
              \/ /\ Goto([Top EXCEPT !.pc = "run", !.i = i])
                 /\ ran' = [ran EXCEPT ![live[id]] = @ \o CString(cut)]
                 /\ again' = IF \E k \in 1..Len(frames) - 1 : frames[k].at = id
                             THEN again \union {live[id]} ELSE again
                 /\ shifted' = shifted
           /\ UNCHANGED <<tcp, maps, line, lost, raced, uaf>>
  BY StartLineIs
<1>2. /\ buf \in [Ids -> Seq(Pieces)] /\ buf[id] \in Seq(Pieces)
      /\ ran \in [Clients \union {None} -> Seq(Nat)] /\ sent \in [Clients -> Nat]
      /\ UNCHANGED <<sent, live, counter, lost>>
  BY <1>1 DEF Base, TypeOK, RunsOK, tcp, maps
<1>3. /\ i \in 1..Len(buf[id]) /\ Len(buf[id]) \in Nat /\ Len(cut) = Len(buf[id])
      /\ buf[id][i] = NL /\ \A k \in 1..i - 1 : buf[id][k] # NL
      /\ \A k \in 1..Len(buf[id]) : cut[k] = IF k = i THEN Nul ELSE buf[id][k]
  <2> DEFINE b == buf[id]
  <2>1. b \in Seq(Pieces) /\ Newlines(b) # {} /\ i = First(Newlines(b)) /\ cut = [b EXCEPT ![i] = Nul]
    BY <1>1, <1>2
  <2> HIDE DEF b
  <2>2. /\ i \in 1..Len(b) /\ Len(b) \in Nat /\ Len(cut) = Len(b)
        /\ \A k \in 1..i - 1 : b[k] # NL
        /\ \A k \in 1..Len(b) : cut[k] = IF k = i THEN Nul ELSE b[k]
    BY <2>1, LineIs
  <2>3. b[i] = NL
    <3>1. Newlines(b) \in SUBSET Nat
      BY <2>2 DEF Newlines
    <3>2. i \in Newlines(b)
      BY <2>1, <3>1, FirstIs
    <3>3. QED
      BY <3>2 DEF Newlines
  <2>4. QED
    BY <2>2, <2>3 DEF b
<1>4. /\ CString(cut) \in Seq(Nat)
      /\ \A k \in 1..Len(CString(cut)) : CString(cut)[k] = buf[id][k]
      /\ (\A k \in 1..i - 1 : buf[id][k] # Nul) => Len(CString(cut)) = i - 1
  BY <1>2, <1>3, CStringIs
<1>5. \A j \in Ids : j # id => buf'[j] = buf[j] /\ live[j] # live[id]
  BY <1>1, Constants DEF Sess, LiveOnce
<1>6. \A c \in Clients : c # live[id] => ran'[c] = ran[c]
  BY <1>1, <1>2
<1>7. ASSUME Clean(live[id])' PROVE ~Below(id) /\ ran' = [ran EXCEPT ![live[id]] = @ \o CString(cut)]
  <2>1. live[id] \notin again' /\ live[id] \notin shifted'
    BY <1>2, <1>7 DEF Clean
  <2>2. /\ ran' = [ran EXCEPT ![live[id]] = @ \o CString(cut)]
        /\ again' = IF \E k \in 1..Len(frames) - 1 : frames[k].at = id
                    THEN again \union {live[id]} ELSE again
    BY <1>1, <2>1
  <2>3. QED
    BY <2>1, <2>2 DEF Below
<1>8. SentOK' /\ NothingYet'
  <2>1. \A c \in Unserved' : c \in Clients /\ c \in Unserved /\ c # live[id]
    BY <1>1, Served DEF Unserved
  <2>2. QED
    BY <1>2, <1>6, <2>1 DEF Kept, SentOK, NothingYet
<1>9. PICK f \in Frame : Goto(f) /\ f.at = id /\ Top' = f
                          /\ (f.pc = "store" => f.i + f.rem = Len(cut))
  <2>1. CASE Goto(Remaining(cut, i))
    <3>1. i <= Len(cut)
      BY <1>3
    <3>2. /\ Remaining(cut, i) \in Frame /\ Top' = Remaining(cut, i)
          /\ Top'.at = id /\ Top'.i = i /\ Top'.rem = Len(cut) - i
      BY <1>1, <1>2, <2>1, <3>1, RemainingIs
    <3>3. Top'.i + Top'.rem = Len(cut)
      BY <1>3, <3>2
    <3>4. QED
      BY <2>1, <3>2, <3>3
  <2>2. CASE Goto([Top EXCEPT !.pc = "run", !.i = i])
    <3> DEFINE f == [Top EXCEPT !.pc = "run", !.i = i]
    <3>1. f \in Frame /\ f.pc = "run" /\ f.at = id
      BY <1>1, TopFields DEF Frame
    <3> HIDE DEF f
    <3>2. Goto(f) /\ frames \in Seq(Frame)
      BY <2>2 DEF f, Base, TypeOK
    <3>3. Top' = f
      <4>1. /\ Len(frames) \in Nat \ {0} /\ Len(frames') = Len(frames)
            /\ \A k \in 1..Len(frames) : frames'[k] = IF k = Len(frames) THEN f ELSE frames[k]
        BY <1>1, <3>1, <3>2, GotoIs
      <4>2. QED
        BY <4>1 DEF Top
    <3>4. QED
      BY <3>1, <3>2, <3>3
  <2>3. QED
    BY <1>1, <2>1, <2>2
<1>10. StoreExact'
  <2>1. buf'[id] = cut
    BY <1>1, <1>2
  <2>2. QED
    BY <1>9, <2>1 DEF StoreExact
<1>11. SecondOK'
  <2>1. ASSUME NEW j \in Ids, Clean(live[j])' PROVE Second(frames', j)
    <3>1. Clean(live[j]) /\ Second(frames, j)
      BY <1>1, <1>2, <2>1 DEF Kept, SecondOK, Clean
    <3>2. f.at # j \/ ~Below(j)
      BY <1>2, <1>7, <1>9, <2>1
    <3>3. QED
      BY <1>1, <1>9, <3>1, <3>2, SecondGoto
  <2>2. QED
    BY <2>1 DEF SecondOK
<1>12. ASSUME NEW j \in Ids, NEW h \in Nat, Clean(live[j])', Offset(frames', j, h)
       PROVE  Holds(live[j], sent[live[j]], ran'[live[j]], buf'[j], h)
  <2>1. Clean(live[j]) /\ live[j] \in Clients
    BY <1>1, <1>2, <1>12 DEF Clean
  <2>2. \/ Offset(frames, j, h) /\ (j = id => Below(id))
        \/ j = id /\ h = i /\ ~Below(id) /\ Offset(frames, id, 0)
    BY <1>1, <1>12, StartLineOffsets
  <2>3. CASE j # id
    BY <1>5, <1>6, <2>1, <2>2, <2>3 DEF Kept, HoldsAll
  <2>4. CASE j = id
    <3>1. Clean(live[id])'
      BY <1>12, <2>4
    <3>2. h = i /\ Offset(frames, id, 0) /\ ran' = [ran EXCEPT ![live[id]] = @ \o CString(cut)]
      BY <1>7, <2>2, <2>4, <3>1
    <3>3. Holds(live[id], sent[live[id]], ran[live[id]], buf[id], 0)
      BY <2>1, <2>4, <3>2 DEF Kept, HoldsAll
    <3> DEFINE c == live[id]
               n == sent[c]
               r == ran[c]
               b == buf[id]
               x == CString(cut)
    <3>4. c \in Clients \union {None} /\ n \in Nat /\ n <= 2 * Len(Typed[c])
      BY <1>1, <1>2 DEF Kept, SentOK
    <3>5. r \in Seq(Nat) /\ b \in Seq(Pieces) /\ Holds(c, n, r, b, 0)
      BY <1>1, <1>2, <3>3
    <3>6. /\ i \in 1..Len(b) /\ b[i] = NL /\ (\A k \in 1..i - 1 : b[k] # NL)
          /\ Len(cut) = Len(b) /\ \A k \in 1..Len(b) : cut[k] = IF k = i THEN Nul ELSE b[k]
      BY <1>3
    <3>7. /\ x \in Seq(Nat) /\ (\A k \in 1..Len(x) : x[k] = b[k])
          /\ (\A k \in 1..i - 1 : b[k] # Nul) => Len(x) = i - 1
      BY <1>4
    <3>8. buf'[id] = cut /\ ran'[c] = r \o x
      BY <1>1, <1>2, <3>2
    <3> HIDE DEF c, n, r, b, x
    <3>9. Holds(c, n, r \o x, cut, i)
      BY <3>4, <3>5, <3>6, <3>7, HoldsRun
    <3>10. QED
      BY <2>4, <3>2, <3>8, <3>9 DEF c, n
  <2>5. QED
    BY <2>3, <2>4
<1>13. HoldsAll'
  BY <1>2, <1>12 DEF HoldsAll
<1>14. QED
  BY <1>8, <1>10, <1>11, <1>13 DEF Kept

LEMMA NextKept == Base /\ SessInv /\ KeptInv /\ [Next]_vars => KeptInv'
<1> SUFFICES ASSUME Base, SessInv, KeptInv, [Next]_vars, ~uaf', ~raced' PROVE Kept'
  BY DEF KeptInv
<1>1. Sess /\ Kept
  BY RacedStays, UafStays DEF SessInv, KeptInv
<1>2. \A c \in Clients : c \in Unserved' => c \in Unserved
  BY <1>1, UnservedShrinks
<1>3. CASE LoopStarts \/ Wait \/ Pop \/ Iterate \/ NextClient
  BY <1>1, <1>2, <1>3, FramesKept
<1>4. CASE CommandReturns
  BY <1>1, <1>2, <1>4, CommandReturnsKept
<1>5. CASE Accept
  BY <1>1, <1>2, <1>5, AcceptKept
<1>6. CASE StartLine
  BY <1>1, <1>2, <1>6, StartLineKept
<1>7. CASE Store
  BY <1>1, <1>2, <1>7, StoreKept
<1>8. CASE PumpSerial \/ SerialReturns
  BY <1>1, <1>2, <1>8, SerialKept
<1>9. CASE Stop
  BY <1>1, <1>2, <1>9, StopDrops, DropKept DEF Stop
<1>10. ASSUME NEW c \in Clients, Disconnect(c) PROVE Kept'
  BY <1>1, <1>2, <1>10, DisconnectDrops, DropKept DEF Disconnect
<1>11. ASSUME NEW c \in Clients, Data(c) PROVE Kept'
  BY <1>1, <1>2, <1>11, DataKept
<1>12. ASSUME UNCHANGED <<sent, live, buf, frames, history>> PROVE Kept'
  <2>1. StoreExact'
    BY <1>1, <1>12 DEF Kept, StoreExact, Top
  <2>2. QED
    BY <1>1, <1>2, <1>12, <2>1, KeptSame DEF history
<1>13. CASE UNCHANGED vars \/ Backspace
  BY <1>12, <1>13 DEF vars, tcp, maps, Backspace
<1>14. CASE Start
  BY <1>12, <1>14 DEF Start, tcp
<1>15. ASSUME NEW c \in Clients, Connect(c) PROVE Kept'
  BY <1>12, <1>15 DEF Connect
<1>16. QED
  BY <1>3, <1>4, <1>5, <1>6, <1>7, <1>8, <1>9, <1>10, <1>11, <1>13, <1>14, <1>15 DEF Next, Loop

(* Where the buffer goes on is what the first activation says.             *)
LEMMA HandledIs ==
  ASSUME Base, NEW id \in Ids
  PROVE  Handled(id) \in Nat /\ Offset(frames, id, Handled(id))
<1> DEFINE on == {k \in 1..Len(frames) : frames[k].at = id}
<1>1. frames \in Seq(Frame) /\ Len(frames) \in Nat
  BY LenProperties DEF Base, TypeOK
<1>2. CASE on = {}
  BY <1>2 DEF Handled, Offset
<1>3. CASE on # {}
  <2> DEFINE k == First(on)
  <2>1. k \in on /\ \A j \in on : k <= j
    <3>1. on \in SUBSET Nat
      BY <1>1
    <3> HIDE DEF on
    <3>2. QED
      BY <1>3, <3>1, FirstIs
  <2>2. Handled(id) = frames[k].i
    BY <1>3 DEF Handled
  <2> HIDE DEF k
  <2>3. k \in 1..Len(frames) /\ frames[k].at = id
    BY <2>1
  <2>4. \A j \in 1..k - 1 : frames[j].at # id
    <3>1. \A j \in 1..k - 1 : j \in 1..Len(frames) /\ ~(k <= j)
      BY <1>1, <2>3
    <3>2. QED
      BY <2>1, <3>1
  <2>5. frames[k].i \in Nat
    BY <1>1, <2>3, FrameOf
  <2>6. QED
    BY <2>2, <2>3, <2>4, <2>5 DEF Offset
<1>4. QED
  BY <1>2, <1>3

LEMMA KeptHolds == Base /\ KeptInv => Conserved
<1> SUFFICES ASSUME Base, KeptInv, ~uaf, ~raced, NEW id \in Ids, live[id] # None,
                    live[id] \notin again \union lost \union shifted
             PROVE  LET c == live[id]
                        n == Len(ran[c])
                        h == Handled(id)
                    IN /\ ran[c] = SubSeq(Typed[c], 1, n)
                       /\ sent[c] = 2 * n + Len(buf[id]) - h
                       /\ \A k \in h + 1..Len(buf[id]) : buf[id][k] = Piece(c, 2 * n + k - h)
  BY DEF Conserved
<1> DEFINE c == live[id]
           h == Handled(id)
           r == ran[c]
           n == Len(r)
<1>1. c \in Clients /\ Clean(c)
  BY DEF Base, TypeOK, Clean
<1>2. h \in Nat /\ Offset(frames, id, h)
  BY HandledIs
<1>3. Holds(c, sent[c], r, buf[id], h) /\ sent[c] <= 2 * Len(Typed[c])
  BY <1>1, <1>2 DEF KeptInv, Kept, HoldsAll, SentOK
<1>4. r \in Seq(Nat) /\ sent[c] \in Nat /\ buf[id] \in Seq(Pieces) /\ Typed[c] \in Seq(Nat \ {0})
  BY <1>1, Constants DEF Base, TypeOK, RunsOK
<1> HIDE DEF h, r
<1>5. r = SubSeq(Typed[c], 1, n)
  <2> DEFINE t == Typed[c]
             b == buf[id]
             s == sent[c]
  <2>1. n \in Nat /\ Len(t) \in Nat /\ Len(b) \in Nat
    BY <1>4, LenProperties
  <2>2. s = 2 * n + Len(b) - h /\ h <= Len(b) /\ s <= 2 * Len(t)
    BY <1>3 DEF Holds
  <2>3. \A j \in 1..n : r[j] = t[j]
    BY <1>3 DEF Holds
  <2>4. t \in Seq(Nat \ {0}) /\ r \in Seq(Nat)
    BY <1>4
  <2>5. n = Len(r)
    OBVIOUS
  <2> HIDE DEF t, b, s, n
  <2>6. n <= Len(t)
    BY <1>2, <2>1, <2>2
  <2>7. \A j \in 1..n : t[j] \in Nat
    <3>1. \A j \in 1..n : j \in 1..Len(t)
      BY <2>1, <2>6
    <3>2. QED
      BY <2>4, <3>1, ElementOfSeq
  <2>8. /\ SubSeq(t, 1, n) \in Seq(Nat) /\ Len(SubSeq(t, 1, n)) = n
        /\ \A j \in 1..n : SubSeq(t, 1, n)[j] = t[j]
    BY <2>1, <2>7, SubSeqProperties
  <2>9. r = SubSeq(t, 1, n)
    BY <2>3, <2>4, <2>5, <2>8, SeqEqual
  <2>10. QED
    BY <2>9 DEF t
<1>6. QED
  BY <1>3, <1>5 DEF Holds, h, r

(* A client of which nothing was dropped, cut or overwritten loses nothing: *)
(* what ran and what is in its buffer are what it typed, for any lines,    *)
(* sizes and nesting.  Only a line that runs within another one at the     *)
(* same client cuts off what the activation below counts on, and the       *)
(* client is then one of again or shifted.                                 *)
THEOREM NothingIsLost == Spec => []Conserved
<1>1. Init => KeptInv
  BY InitKept DEF KeptInv
<1>2. Base /\ SessInv /\ KeptInv /\ [Next]_vars => KeptInv'
  BY NextKept
<1>3. Spec => []KeptInv
  BY <1>1, <1>2, BaseAlways, SessAlways, PTL DEF Spec
<1>4. QED
  BY <1>3, BaseAlways, KeptHolds, PTL
=============================================================================
