--------------------------- MODULE JSEspNowProofs ---------------------------
(***************************************************************************)
(* Theorems about JSEspNow, for any peers and any number of sends.         *)
(***************************************************************************)
EXTENDS JSEspNow, FiniteSetTheorems, SequenceTheorems, WellFoundedInduction, TLAPS

(* A nonempty set of entries has one with the smallest id, and one with    *)
(* the largest.                                                            *)
LEMMA OldestIsIn ==
  ASSUME NEW S \in SUBSET Entry, S # {}
  PROVE  Oldest(S) \in S /\ \A f \in S : Oldest(S).id <= f.id
<1> DEFINE R == OpToRel(<, Nat)
           I == {e.id : e \in S}
<1>1. IsWellFoundedOn(R, Nat)
  BY NatLessThanWellFounded
<1>2. \A j, i \in Nat : j < i => <<j, i>> \in R
  BY DEF OpToRel
<1>3. I \subseteq Nat /\ I # {}
  BY DEF Entry, Ids
<1> HIDE DEF R, I
<1>a. \E i \in I : \A j \in I : ~ (<<j, i>> \in R)
  BY <1>1, <1>3, WFMin, Zenon
<1>4. PICK i \in I : \A j \in I : ~ (<<j, i>> \in R)
  BY <1>a
<1>5. ASSUME NEW j \in I PROVE i <= j
  <2>1. i \in Nat /\ j \in Nat
    BY <1>3
  <2>2. ~(j < i)
    BY <1>2, <1>4, <2>1
  <2>3. QED
    BY <2>1, <2>2
<1>6. PICK e \in S : e.id = i
  BY DEF I
<1>7. \A f \in S : e.id <= f.id
  BY <1>5, <1>6 DEF I
<1>8. QED
  BY <1>7 DEF Oldest

LEMMA NewestIsIn ==
  ASSUME NEW S \in SUBSET Entry, S # {}
  PROVE  Newest(S) \in S
<1> DEFINE R == OpToRel(<, Nat)
           I == {MaxSends - e.id : e \in S}
<1>1. IsWellFoundedOn(R, Nat)
  BY NatLessThanWellFounded
<1>2. \A j, i \in Nat : j < i => <<j, i>> \in R
  BY DEF OpToRel
<1>3. I \subseteq Nat /\ I # {} /\ \A e \in S : e.id \in 1..MaxSends
  BY EspNowAssumption DEF Entry, Ids
<1>4. \A e \in S : MaxSends - e.id \in I
  OBVIOUS
<1>5. \A j \in I : \E e \in S : j = MaxSends - e.id
  OBVIOUS
<1> HIDE DEF R, I
<1>b. \E i \in I : \A j \in I : ~ (<<j, i>> \in R)
  BY <1>1, <1>3, WFMin, Zenon
<1>6. PICK i \in I : \A j \in I : ~ (<<j, i>> \in R)
  BY <1>b
<1>7. ASSUME NEW j \in I PROVE i <= j
  <2>1. i \in Nat /\ j \in Nat
    BY <1>3
  <2>2. ~(j < i)
    BY <1>2, <1>6, <2>1
  <2>3. QED
    BY <2>1, <2>2
<1>8. PICK e \in S : i = MaxSends - e.id
  BY <1>5
<1>9. \A f \in S : e.id >= f.id
  BY <1>3, <1>4, <1>7, <1>8, EspNowAssumption
<1>10. QED
  BY <1>9 DEF Newest

-----------------------------------------------------------------------------
(* The inductive invariant.                                                *)

(* Ids are given out once.                                                 *)
PendingIds ==
  /\ \A e \in pendingSends : e.id <= sendIdCounter
  /\ \A e, f \in pendingSends : e.id = f.id => e = f
  /\ \A m \in Macs : \A n \in 1..Len(air[m]) : air[m][n] <= sendIdCounter

(* While the session is the first and nothing has gone to all peers, the   *)
(* radio has for each peer the frames of the sends to it that wait, in     *)
(* the order of their ids: the oldest is reported next.                    *)
Addressed == \A e \in pendingSends : e.mac \in Peers /\ e.by \in {0, e.id}
Flying ==
  \A p \in Peers :
    /\ \A e \in SendsTo(p) : \E n \in 1..Len(air[p]) : air[p][n] = e.id
    /\ \A n \in 1..Len(air[p]) : \E e \in SendsTo(p) : e.id = air[p][n]
    /\ \A m, n \in 1..Len(air[p]) : m < n => air[p][m] < air[p][n]
Settling == \A i \in Ids : settled[i] \in {0, i}

Clean == ~ended /\ ~toAll
Own == Addressed /\ Flying /\ Settling /\ air[Null] = <<>>

IInv == TypeOK /\ PendingIds /\ (Clean => Own)

LEMMA InitIInv == Init => IInv
<1> SUFFICES ASSUME Init PROVE IInv
  OBVIOUS
<1>1. Null \in Macs /\ Peers \subseteq Macs
  BY DEF Macs
<1>2. pendingSends = {} /\ air = [m \in Macs |-> <<>>] /\ sendIdCounter = 0
      /\ settled = [i \in Ids |-> 0]
  BY DEF Init
<1>3. <<>> \in Seq(Ids) /\ <<>> \in Seq(Phases) /\ Len(<<>>) = 0
  OBVIOUS
<1>4. TypeOK
  <2>1. air \in [Macs -> Seq(Ids)] /\ settled \in [Ids -> Ids \union {0}]
    BY <1>2, <1>3
  <2>2. pendingSends \subseteq Entry /\ sendIdCounter \in 0..MaxSends
    BY <1>2, EspNowAssumption
  <2>3. QED
    BY <1>3, <2>1, <2>2 DEF Init, TypeOK
<1>5. PendingIds
  BY <1>2, <1>3 DEF PendingIds
<1>6. Own
  BY <1>1, <1>2, <1>3 DEF Own, Addressed, Flying, Settling, SendsTo, Unresolved
<1>7. QED
  BY <1>4, <1>5, <1>6 DEF IInv

-----------------------------------------------------------------------------
(* What the steps do to the entries.                                       *)

LEMMA MatchIsIn ==
  ASSUME TypeOK, NEW m \in Macs
  PROVE  Match(m) \subseteq Unresolved
<1>1. ASSUME NEW n PROVE SendsTo(n) \in SUBSET Entry /\ SendsTo(n) \subseteq Unresolved
  BY DEF TypeOK, SendsTo, Unresolved
<1>2. SendsTo(m) # {} => Oldest(SendsTo(m)) \in SendsTo(m)
  BY <1>1, OldestIsIn
<1>3. SendsTo(Null) # {} => Newest(SendsTo(Null)) \in SendsTo(Null)
  BY <1>1, NewestIsIn
<1>4. QED
  BY <1>1, <1>2, <1>3 DEF Match


LEMMA TransmitType ==
  ASSUME TypeOK, NEW id \in Ids, NEW mac \in Macs, Transmit(id, mac)
  PROVE  air' \in [Macs -> Seq(Ids)]
<1>1. PICK R \in Reports(mac) :
        air' = [m \in Macs |-> IF m \in R THEN Append(air[m], id) ELSE air[m]]
  BY DEF Transmit
<1>2. \A m \in Macs : air[m] \in Seq(Ids) /\ Append(air[m], id) \in Seq(Ids)
  BY AppendProperties DEF TypeOK
<1>3. QED
  BY <1>1, <1>2

(* What a report does to the entries: their addresses and ids stay.        *)
LEMMA ReportedEntries ==
  ASSUME TypeOK, NEW mac \in Macs, Report(mac)
  PROVE  /\ air[mac] \in Seq(Ids) /\ air[mac] # <<>> /\ Head(air[mac]) \in Ids
         /\ Tail(air[mac]) \in Seq(Ids)
         /\ \A e \in Match(mac) : e \in Entry /\ [e EXCEPT !.by = Head(air[mac])] \in Entry
<1>1. air[mac] \in Seq(Ids) /\ air[mac] # <<>>
  BY DEF TypeOK, Report
<1>2. Head(air[mac]) \in Ids /\ Tail(air[mac]) \in Seq(Ids)
  BY <1>1, HeadTailProperties
<1>3. \A e \in Match(mac) : e \in Entry
  BY MatchIsIn DEF TypeOK, Unresolved
<1>4. QED
  BY <1>1, <1>2, <1>3 DEF Entry

LEMMA SettleType ==
  ASSUME TypeOK, Settle
  PROVE  pendingSends' \subseteq Entry /\ settled' \in [Ids -> Ids \union {0}]
<1>1. ASSUME NEW i \in Ids, \E e \in Resolved : e.id = i
      PROVE  (CHOOSE e \in Resolved : e.id = i).by \in Ids \union {0}
  <2>1. PICK e \in Resolved : e = CHOOSE f \in Resolved : f.id = i
    BY <1>1
  <2>2. QED
    BY <2>1 DEF Resolved, TypeOK, Entry
<1>2. QED
  BY <1>1 DEF Settle, SettleAll, TypeOK

LEMMA TopIsPhase ==
  ASSUME TypeOK, phases # <<>>
  PROVE  /\ Len(phases) \in 1..Len(phases)
         /\ SubSeq(phases, 1, Len(phases) - 1) \in Seq(Phases)
         /\ \A ph \in Phases : [phases EXCEPT ![Len(phases)] = ph] \in Seq(Phases)
<1>1. phases \in Seq(Phases) /\ Len(phases) \in Nat /\ Len(phases) # 0
  BY EmptySeq, LenProperties DEF TypeOK
<1>2. Len(phases) \in 1..Len(phases)
  BY <1>1
<1>3. \A ph \in Phases : [phases EXCEPT ![Len(phases)] = ph] \in Seq(Phases)
  BY <1>1, <1>2, ExceptSeq
<1>4. SubSeq(phases, 1, Len(phases) - 1) \in Seq(Phases)
  <2>1. \A i \in 1..(Len(phases) - 1) : phases[i] \in Phases
    BY <1>1, ElementOfSeq
  <2>2. QED
    BY <1>1, <2>1, SubSeqProperties
<1>5. QED
  BY <1>2, <1>3, <1>4

LEMMA NextType == TypeOK /\ [Next]_vars => TypeOK'
<1> SUFFICES ASSUME TypeOK, [Next]_vars PROVE TypeOK'
  OBVIOUS
<1> USE DEF js, sends
<1>1. CASE InitEspNow
  BY <1>1 DEF TypeOK, InitEspNow
<1>2. CASE End
  <2>1. [m \in Macs |-> <<>>] \in [Macs -> Seq(Ids)]
    BY EmptySeq
  <2>2. QED
    BY <1>2, <2>1 DEF TypeOK, End
<1>3. ASSUME NEW mac \in Macs, Send(mac) PROVE TypeOK'
  <2> DEFINE id == sendIdCounter + 1
             e == [id |-> id, mac |-> mac, by |-> 0]
  <2>1. id \in Ids /\ id \in 0..MaxSends /\ sendIdCounter' = id
    BY <1>3, EspNowAssumption DEF TypeOK, Send, Ids
  <2>2. e \in Entry /\ [e EXCEPT !.by = id] \in Entry
    BY <2>1 DEF Entry
  <2>3. air' \in [Macs -> Seq(Ids)] /\ pendingSends' \subseteq Entry
    BY <1>3, <2>1, <2>2, TransmitType DEF Send, TypeOK
  <2>4. QED
    BY <1>3, <2>1, <2>3 DEF TypeOK, Send
<1>4. ASSUME NEW h \in {"recvCb", "sendCb"}, SetHandler(h) PROVE TypeOK'
  BY <1>4 DEF TypeOK, SetHandler
<1>5. CASE LoopStarts
  <2>1. Append(phases, "recv") \in Seq(Phases)
    BY AppendProperties DEF TypeOK, Phases
  <2>2. Settle
    BY <1>5 DEF LoopStarts
  <2>3. QED
    BY <1>5, <2>1, <2>2, SettleType DEF TypeOK, LoopStarts
<1>6. CASE DrainRecv
  <2>1. phases # <<>>
    BY <1>6 DEF DrainRecv, At
  <2>2. recvQueue # 0 => recvQueue - 1 \in Nat
    BY DEF TypeOK
  <2>a. \A ph \in Phases : [phases EXCEPT ![Len(phases)] = ph] \in Seq(Phases)
    BY <2>1, TopIsPhase
  <2>b. \/ Goto("send") /\ recvQueue' = recvQueue
        \/ Goto("recvCb") /\ recvQueue' = recvQueue - 1 /\ recvQueue # 0
        \/ UNCHANGED phases /\ recvQueue' = 0
    BY <1>6 DEF DrainRecv
  <2>c. phases' \in Seq(Phases)
    BY <2>a, <2>b DEF Goto, TypeOK, Phases
  <2>d. recvQueue' \in Nat
    BY <2>b, <2>2 DEF TypeOK
  <2>3. phases' \in Seq(Phases) /\ recvQueue' \in Nat
    BY <2>c, <2>d
  <2>4. QED
    BY <1>6, <2>3 DEF TypeOK, DrainRecv
<1>7. CASE DrainSend
  <2>1. phases # <<>>
    BY <1>7 DEF DrainSend, At
  <2>2. sendQueue # 0 => sendQueue - 1 \in Nat
    BY DEF TypeOK
  <2>a. /\ SubSeq(phases, 1, Len(phases) - 1) \in Seq(Phases)
        /\ \A ph \in Phases : [phases EXCEPT ![Len(phases)] = ph] \in Seq(Phases)
    BY <2>1, TopIsPhase
  <2>b. \/ phases' = SubSeq(phases, 1, Len(phases) - 1) /\ sendQueue' = sendQueue
        \/ Goto("sendCb") /\ sendQueue' = sendQueue - 1 /\ sendQueue # 0
        \/ UNCHANGED phases /\ sendQueue' = 0
    BY <1>7 DEF DrainSend
  <2>c. phases' \in Seq(Phases)
    BY <2>a, <2>b DEF Goto, TypeOK, Phases
  <2>d. sendQueue' \in Nat
    BY <2>b, <2>2 DEF TypeOK
  <2>3. phases' \in Seq(Phases) /\ sendQueue' \in Nat
    BY <2>c, <2>d
  <2>4. QED
    BY <1>7, <2>3 DEF TypeOK, DrainSend
<1>8. CASE HandlerReturns
  <2>1. phases # <<>>
    BY <1>8 DEF HandlerReturns, At
  <2>2. phases' \in Seq(Phases)
    BY <1>8, <2>1, TopIsPhase DEF HandlerReturns, Goto, Phases
  <2>3. QED
    BY <1>8, <2>2 DEF TypeOK, HandlerReturns
<1>9. CASE Receive
  BY <1>9 DEF TypeOK, Receive
<1>10. ASSUME NEW mac \in Macs, Report(mac) PROVE TypeOK'
  <2>1. air' \in [Macs -> Seq(Ids)] /\ pendingSends' \subseteq Entry
    BY <1>10, ReportedEntries DEF Report, TypeOK
  <2>2. QED
    BY <1>10, <2>1 DEF TypeOK, Report
<1>11. CASE UNCHANGED vars
  BY <1>11 DEF TypeOK, vars
<1>12. QED
  BY <1>1, <1>2, <1>3, <1>4, <1>5, <1>6, <1>7, <1>8, <1>9, <1>10, <1>11 DEF Next, Program, Radio

-----------------------------------------------------------------------------
(* The invariant is kept.                                                  *)

(* Whatever leaves the entries and the air alone keeps what is said of     *)
(* them.                                                                   *)
LEMMA QuietKeeps ==
  ASSUME IInv, UNCHANGED sends, Clean' => Clean
  PROVE  PendingIds' /\ (Clean' => Own')
<1>1. /\ pendingSends' = pendingSends /\ sendIdCounter' = sendIdCounter
      /\ air' = air /\ settled' = settled
  BY DEF sends
<1>2. PendingIds'
  BY <1>1 DEF IInv, PendingIds
<1>3. \A p : SendsTo(p)' = SendsTo(p)
  BY <1>1 DEF SendsTo, Unresolved, Resolved
<1>4. Own => Own'
  <2>1. Addressed => Addressed'
    BY <1>1 DEF Addressed
  <2>2. Flying => Flying'
    BY <1>1, <1>3 DEF Flying
  <2>3. Settling => Settling'
    BY <1>1 DEF Settling
  <2>4. QED
    BY <1>1, <2>1, <2>2, <2>3 DEF Own
<1>5. QED
  BY <1>2, <1>4 DEF IInv

LEMMA SettleKeeps ==
  ASSUME IInv, Settle, UNCHANGED <<sendIdCounter, air, ended, toAll>>
  PROVE  PendingIds' /\ (Clean' => Own')
<1>1. pendingSends' = Unresolved /\ Unresolved' = Unresolved
  BY DEF Settle, Unresolved, Resolved
<1>2. PendingIds'
  BY <1>1 DEF IInv, PendingIds, Unresolved
<1>3. ASSUME Clean' PROVE Own'
  <2>1. Own
    BY <1>3 DEF IInv, Clean
  <2>2. \A i \in Ids : settled'[i] \in {0, i}
    <3>1. ASSUME NEW i \in Ids, \E e \in Resolved : e.id = i
          PROVE  (CHOOSE e \in Resolved : e.id = i).by \in {0, i}
      <4>1. PICK e \in Resolved : e = (CHOOSE f \in Resolved : f.id = i) /\ e.id = i
        BY <3>1
      <4>2. QED
        BY <4>1, <2>1 DEF Own, Addressed, Resolved
    <3>2. QED
      BY <2>1, <3>1 DEF Settle, SettleAll, Own, Settling
  <2>3. Flying' /\ Addressed'
    BY <1>1, <2>1 DEF Own, Flying, Addressed, SendsTo, Unresolved
  <2>4. QED
    BY <2>1, <2>2, <2>3 DEF Own, Settling
<1>4. QED
  BY <1>2, <1>3

LEMMA SendKeeps ==
  ASSUME IInv, NEW mac \in Macs, Send(mac)
  PROVE  PendingIds' /\ (Clean' => Own')
<1> DEFINE id == sendIdCounter + 1
           e == [id |-> id, mac |-> mac, by |-> 0]
<1>1. sendIdCounter \in Nat /\ sendIdCounter' = id /\ id \in Ids
  BY EspNowAssumption DEF IInv, TypeOK, Send, Ids
<1>2. PICK d \in {e, [e EXCEPT !.by = id]} :
        /\ pendingSends' = pendingSends \union {d}
        /\ \/ Transmit(id, mac) /\ d = e
           \/ UNCHANGED air /\ d = [e EXCEPT !.by = id]
  BY DEF Send
<1>3. d.id = id /\ d.mac = mac /\ (d.by = 0 \/ d.by = id)
  BY <1>2
<1>4. \A f \in pendingSends : f.id <= sendIdCounter /\ f.id \in Nat
  BY DEF IInv, PendingIds, TypeOK, Entry, Ids
<1>5. \A f \in pendingSends' : f.id <= id
  BY <1>1, <1>2, <1>3, <1>4
<1>6. \A f, g \in pendingSends' : f.id = g.id => f = g
  BY <1>1, <1>2, <1>3, <1>4 DEF IInv, PendingIds
<1>7. ASSUME NEW m \in Macs
      PROVE  /\ air[m] \in Seq(Ids)
             /\ \A n \in 1..Len(air[m]) : air[m][n] \in Nat /\ air[m][n] <= sendIdCounter
  <2>1. air[m] \in Seq(Ids)
    BY DEF IInv, TypeOK
  <2>2. \A n \in 1..Len(air[m]) : air[m][n] \in Ids
    BY <2>1, ElementOfSeq
  <2>3. QED
    BY <2>1, <2>2 DEF IInv, PendingIds, Ids
<1>8. \A m \in Macs : air'[m] = air[m] \/ air'[m] = Append(air[m], id)
  BY <1>2, <1>7 DEF Transmit, IInv, TypeOK
<1>9. ASSUME NEW m \in Macs, NEW n \in 1..Len(air'[m]) PROVE air'[m][n] <= id
  <2>1. CASE air'[m] = air[m]
    BY <1>1, <1>7, <2>1
  <2>2. CASE air'[m] = Append(air[m], id)
    <3>1. (n \in 1..Len(air[m]) /\ air'[m][n] = air[m][n]) \/ air'[m][n] = id
      BY <1>1, <1>7, <2>2, AppendProperties
    <3>2. QED
      BY <1>1, <1>7, <3>1
  <2>3. QED
    BY <1>8, <2>1, <2>2
<1>10. PendingIds'
  BY <1>1, <1>5, <1>6, <1>9 DEF PendingIds
<1>11. ASSUME Clean' PROVE Own'
  <2>1. Own /\ mac \in Peers /\ mac # Null
    BY <1>11, EspNowAssumption DEF Clean, Send, IInv, Macs
  <2>2. Addressed' /\ Settling'
    BY <1>2, <1>3, <2>1 DEF Own, Addressed, Settling, Send
  <2>3. CASE Transmit(id, mac) /\ d = e
    <3>1. \A m \in Macs : air'[m] = IF m = mac THEN Append(air[m], id) ELSE air[m]
      BY <2>1, <2>3 DEF Transmit, Reports, IInv, TypeOK
    <3>2. /\ SendsTo(mac)' = SendsTo(mac) \union {e}
          /\ \A p \in Peers : p # mac => SendsTo(p)' = SendsTo(p)
      BY <1>2, <2>3 DEF SendsTo, Unresolved, Resolved
    <3>3. air'[Null] = <<>>
      BY <2>1, <3>1 DEF Own, Macs
    <3>4. ASSUME NEW p \in Peers, p # mac
          PROVE  /\ \A f \in SendsTo(p)' : \E n \in 1..Len(air'[p]) : air'[p][n] = f.id
                 /\ \A n \in 1..Len(air'[p]) : \E f \in SendsTo(p)' : f.id = air'[p][n]
                 /\ \A m, n \in 1..Len(air'[p]) : m < n => air'[p][m] < air'[p][n]
      <4>1. air'[p] = air[p] /\ SendsTo(p)' = SendsTo(p)
        BY <3>1, <3>2, <3>4 DEF Macs
      <4>2. QED
        BY <2>1, <4>1 DEF Own, Flying
    <3> DEFINE a == air[mac]
               b == air'[mac]
    <3>5. /\ Len(b) = Len(a) + 1 /\ Len(a) \in Nat /\ b[Len(a) + 1] = id
          /\ \A n \in 1..Len(a) : b[n] = a[n]
      <4>1. a \in Seq(Ids) /\ b = Append(a, id)
        BY <1>7, <3>1
      <4>2. QED
        BY <1>1, <4>1, AppendProperties, LenProperties
    <3>6. \A f \in SendsTo(mac)' : \E n \in 1..Len(b) : b[n] = f.id
      <4>1. ASSUME NEW f \in SendsTo(mac) PROVE \E n \in 1..Len(b) : b[n] = f.id
        <5>1. PICK n \in 1..Len(a) : a[n] = f.id
          BY <2>1 DEF Own, Flying
        <5>2. n \in 1..Len(b) /\ b[n] = f.id
          BY <3>5, <5>1
        <5>3. QED
          BY <5>2
      <4>2. Len(b) \in 1..Len(b) /\ b[Len(b)] = e.id
        BY <3>5
      <4>3. QED
        BY <3>2, <4>1, <4>2
    <3>7. \A n \in 1..Len(b) : \E f \in SendsTo(mac)' : f.id = b[n]
      <4>1. ASSUME NEW n \in 1..Len(b) PROVE \E f \in SendsTo(mac)' : f.id = b[n]
        <5>1. CASE n \in 1..Len(a)
          BY <2>1, <3>2, <3>5, <5>1 DEF Own, Flying
        <5>2. CASE n = Len(a) + 1
          BY <3>2, <3>5, <5>2
        <5>3. QED
          BY <3>5, <5>1, <5>2
      <4>2. QED
        BY <4>1
    <3>8. \A m, n \in 1..Len(b) : m < n => b[m] < b[n]
      <4>1. ASSUME NEW m \in 1..Len(b), NEW n \in 1..Len(b), m < n PROVE b[m] < b[n]
        <5>1. m \in 1..Len(a) /\ b[m] = a[m]
          BY <3>5, <4>1
        <5>2. CASE n \in 1..Len(a)
          BY <2>1, <3>5, <4>1, <5>1, <5>2 DEF Own, Flying
        <5>3. CASE n = Len(a) + 1
          BY <1>1, <1>7, <3>5, <5>1, <5>3
        <5>4. QED
          BY <3>5, <5>2, <5>3
      <4>2. QED
        BY <4>1
    <3>9. Flying'
      BY <3>4, <3>6, <3>7, <3>8 DEF Flying
    <3>10. QED
      BY <2>2, <3>3, <3>9 DEF Own
  <2>4. CASE air' = air /\ d = [e EXCEPT !.by = id]
    <3>1. \A p \in Peers : SendsTo(p)' = SendsTo(p)
      BY <1>1, <1>2, <2>4 DEF SendsTo, Unresolved, Resolved, Ids
    <3>2. QED
      BY <2>1, <2>2, <2>4, <3>1 DEF Own, Flying
  <2>5. QED
    BY <1>2, <2>3, <2>4
<1>12. QED
  BY <1>10, <1>11

LEMMA TailIs ==
  ASSUME NEW S, NEW s \in Seq(S), s # <<>>
  PROVE  /\ Len(s) \in Nat \ {0} /\ Len(Tail(s)) = Len(s) - 1 /\ Head(s) = s[1]
         /\ \A n \in 1..Len(Tail(s)) : n + 1 \in 1..Len(s) /\ Tail(s)[n] = s[n + 1]
<1>1. Len(s) \in Nat \ {0} /\ Head(s) = s[1]
  BY EmptySeq, LenProperties
<1>2. Len(Tail(s)) = Len(s) - 1 /\ \A n \in 1..Len(Tail(s)) : Tail(s)[n] = s[n + 1]
  BY HeadTailProperties, <1>1
<1>3. QED
  BY <1>1, <1>2

(* A report to a peer is about the oldest send to it that waits.           *)
LEMMA ReportIsOldest ==
  ASSUME IInv, Own, NEW p \in Peers, air[p] # <<>>
  PROVE  \E e \in SendsTo(p) : Match(p) = {e} /\ e.id = Head(air[p])
<1>1. air[p] \in Seq(Ids) /\ Len(air[p]) \in Nat \ {0} /\ Head(air[p]) = air[p][1]
  BY EmptySeq, LenProperties, HeadTailProperties DEF IInv, TypeOK, Macs
<1>2. 1 \in 1..Len(air[p])
  BY <1>1
<1>3. PICK f \in SendsTo(p) : f.id = air[p][1]
  BY <1>2 DEF Own, Flying
<1> DEFINE e == Oldest(SendsTo(p))
<1>4. SendsTo(p) \in SUBSET Entry
  BY DEF SendsTo, Unresolved, IInv, TypeOK
<1>5. e \in SendsTo(p) /\ e.id <= f.id
  BY <1>3, <1>4, OldestIsIn
<1>6. Match(p) = {e}
  BY <1>3 DEF Match
<1> HIDE DEF e
<1>7. PICK n \in 1..Len(air[p]) : air[p][n] = e.id
  BY <1>5 DEF Own, Flying
<1>8. n # 1 => air[p][1] < air[p][n]
  BY <1>1, <1>2, <1>7 DEF Own, Flying
<1>9. air[p][1] \in Nat /\ air[p][n] \in Nat
  <2>1. air[p][1] \in Ids /\ air[p][n] \in Ids
    BY <1>1, <1>2, <1>7, ElementOfSeq
  <2>2. QED
    BY <2>1 DEF Ids
<1>10. e.id = air[p][1]
  BY <1>3, <1>5, <1>7, <1>8, <1>9
<1>11. QED
  BY <1>1, <1>5, <1>6, <1>10

LEMMA ReportKeeps ==
  ASSUME IInv, NEW mac \in Macs, Report(mac)
  PROVE  PendingIds' /\ (Clean' => Own')
<1> DEFINE h == Head(air[mac])
<1>1. /\ air[mac] \in Seq(Ids) /\ air[mac] # <<>> /\ h \in Ids /\ Tail(air[mac]) \in Seq(Ids)
      /\ air' = [air EXCEPT ![mac] = Tail(@)]
      /\ sendIdCounter' = sendIdCounter /\ settled' = settled
      /\ Match(mac) \subseteq pendingSends
      /\ pendingSends' = (pendingSends \ Match(mac)) \union {[e EXCEPT !.by = h] : e \in Match(mac)}
  BY ReportedEntries, MatchIsIn DEF Report, IInv, Unresolved
<1>2. ASSUME NEW f \in pendingSends'
      PROVE  \E e \in pendingSends : f.id = e.id /\ f.mac = e.mac /\ (f = e \/ f = [e EXCEPT !.by = h])
  <2>1. CASE f \in pendingSends
    BY <2>1
  <2>2. CASE \E e \in Match(mac) : f = [e EXCEPT !.by = h]
    <3>1. PICK e \in Match(mac) : f = [e EXCEPT !.by = h]
      BY <2>2
    <3>2. e \in pendingSends /\ e \in Entry
      BY <1>1 DEF IInv, TypeOK
    <3>3. f.id = e.id /\ f.mac = e.mac
      BY <3>1, <3>2 DEF Entry
    <3>4. QED
      BY <3>1, <3>2, <3>3
  <2>3. QED
    BY <1>1, <2>1, <2>2
<1>3. \A f \in pendingSends' : f.id <= sendIdCounter
  BY <1>2 DEF IInv, PendingIds
<1>4. ASSUME NEW f \in pendingSends', NEW g \in pendingSends', f.id = g.id
      PROVE  f = g
  <2>1. PICK e \in pendingSends : f.id = e.id /\ (f = e \/ f = [e EXCEPT !.by = h])
    BY <1>2
  <2>2. PICK d \in pendingSends : g.id = d.id /\ (g = d \/ g = [d EXCEPT !.by = h])
    BY <1>2
  <2>3. e = d
    BY <1>4, <2>1, <2>2 DEF IInv, PendingIds
  <2>4. ASSUME NEW c \in pendingSends', c.id = e.id
        PROVE  IF e \in Match(mac) THEN c = [e EXCEPT !.by = h] ELSE c = e
    <3>1. CASE c \in pendingSends \ Match(mac)
      BY <2>4, <3>1 DEF IInv, PendingIds
    <3>2. CASE \E b \in Match(mac) : c = [b EXCEPT !.by = h]
      <4>1. PICK b \in Match(mac) : c = [b EXCEPT !.by = h]
        BY <3>2
      <4>2. b \in pendingSends /\ b \in Entry
        BY <1>1 DEF IInv, TypeOK
      <4>3. b = e
        BY <2>4, <4>1, <4>2 DEF IInv, PendingIds, Entry
      <4>4. QED
        BY <4>1, <4>3
    <3>3. QED
      BY <1>1, <3>1, <3>2
  <2>5. QED
    BY <1>4, <2>1, <2>2, <2>3, <2>4
<1>5. ASSUME NEW m \in Macs, NEW n \in 1..Len(air'[m]) PROVE air'[m][n] <= sendIdCounter
  <2>1. CASE m = mac
    <3>1. air'[m] = Tail(air[m])
      BY <1>1, <2>1 DEF IInv, TypeOK
    <3>2. n + 1 \in 1..Len(air[m]) /\ air'[m][n] = air[m][n + 1]
      <4>1. air[m] \in Seq(Ids) /\ air[m] # <<>>
        BY <1>1, <2>1
      <4>2. \A k \in 1..Len(Tail(air[m])) :
              k + 1 \in 1..Len(air[m]) /\ Tail(air[m])[k] = air[m][k + 1]
        BY <4>1, TailIs
      <4>3. n \in 1..Len(Tail(air[m]))
        BY <3>1
      <4>4. QED
        BY <3>1, <4>2, <4>3
    <3>3. QED
      BY <3>2 DEF IInv, PendingIds
  <2>2. CASE m # mac
    BY <1>1, <2>2 DEF IInv, PendingIds, TypeOK
  <2>3. QED
    BY <2>1, <2>2
<1>6. PendingIds'
  BY <1>1, <1>3, <1>4, <1>5 DEF PendingIds
<1>7. ASSUME Clean' PROVE Own'
  <2>1. Own /\ mac \in Peers /\ mac # Null
    BY <1>1, <1>7, EspNowAssumption DEF Clean, Report, IInv, Own, Macs
  <2>2. PICK e \in SendsTo(mac) : Match(mac) = {e} /\ e.id = h
    BY <1>1, <2>1, ReportIsOldest
  <2> DEFINE d == [e EXCEPT !.by = h]
             a == air[mac]
             b == air'[mac]
  <2>3. /\ e \in pendingSends /\ e \in Entry /\ e.by = 0 /\ e.mac = mac
        /\ pendingSends' = (pendingSends \ {e}) \union {d}
    BY <1>1, <2>2 DEF SendsTo, Unresolved, Resolved, IInv, TypeOK
  <2>4. d.id = e.id /\ d.mac = mac /\ d.by = e.id /\ d.by # 0
    BY <1>1, <2>2, <2>3 DEF Entry, Ids
  <2>5. Addressed' /\ Settling' /\ air'[Null] = <<>>
    BY <1>1, <2>1, <2>3, <2>4 DEF Own, Addressed, Settling, Macs, IInv, TypeOK
  <2>6. \A p \in Peers : SendsTo(p)' = SendsTo(p) \ {e}
    BY <2>3, <2>4 DEF SendsTo, Unresolved, Resolved
  <2>7. ASSUME NEW p \in Peers, p # mac
        PROVE  /\ \A f \in SendsTo(p)' : \E n \in 1..Len(air'[p]) : air'[p][n] = f.id
               /\ \A n \in 1..Len(air'[p]) : \E f \in SendsTo(p)' : f.id = air'[p][n]
               /\ \A m, n \in 1..Len(air'[p]) : m < n => air'[p][m] < air'[p][n]
    <3>1. air'[p] = air[p] /\ SendsTo(p)' = SendsTo(p)
      BY <1>1, <2>3, <2>6, <2>7 DEF Macs, SendsTo, IInv, TypeOK
    <3>2. QED
      BY <2>1, <3>1 DEF Own, Flying
  <2>8. /\ Len(a) \in Nat \ {0} /\ Len(b) = Len(a) - 1 /\ h = a[1]
        /\ \A n \in 1..Len(b) : n + 1 \in 1..Len(a) /\ b[n] = a[n + 1]
    <3>1. b = Tail(a)
      BY <1>1 DEF IInv, TypeOK
    <3>2. QED
      BY <1>1, <3>1, TailIs
  <2> HIDE DEF d, b
  <2>9. \A f \in SendsTo(mac)' : \E n \in 1..Len(b) : b[n] = f.id
    <3>1. ASSUME NEW f \in SendsTo(mac)' PROVE \E n \in 1..Len(b) : b[n] = f.id
      <4>1. f \in SendsTo(mac) /\ f # e
        BY <2>1, <2>6
      <4>2. PICK n \in 1..Len(a) : a[n] = f.id
        BY <2>1, <4>1 DEF Own, Flying
      <4>3. f.id # e.id
        BY <2>3, <4>1 DEF IInv, PendingIds, SendsTo, Unresolved
      <4>4. n # 1
        BY <2>2, <2>8, <4>2, <4>3
      <4>5. n - 1 \in 1..Len(b)
        BY <2>8, <4>2, <4>4
      <4>6. b[n - 1] = a[n]
        <5>1. (n - 1) + 1 = n
          BY <4>2
        <5>2. QED
          BY <2>8, <4>5, <5>1
      <4>7. QED
        BY <4>2, <4>5, <4>6
    <3>2. QED
      BY <3>1
  <2>10. \A n \in 1..Len(b) : \E f \in SendsTo(mac)' : f.id = b[n]
    <3>1. ASSUME NEW n \in 1..Len(b) PROVE \E f \in SendsTo(mac)' : f.id = b[n]
      <4>1. n + 1 \in 1..Len(a) /\ b[n] = a[n + 1] /\ 1 \in 1..Len(a) /\ 1 < n + 1
        BY <2>8
      <4>2. PICK f \in SendsTo(mac) : f.id = a[n + 1]
        BY <2>1, <4>1 DEF Own, Flying
      <4>3. a[1] < a[n + 1]
        BY <2>1, <4>1 DEF Own, Flying
      <4>4. a[1] \in Nat
        BY <1>1, <4>1, ElementOfSeq DEF Ids
      <4>5. f # e
        BY <2>2, <2>8, <4>2, <4>3, <4>4
      <4>6. QED
        BY <2>1, <2>6, <4>1, <4>2, <4>5
    <3>2. QED
      BY <3>1
  <2>11. \A m, n \in 1..Len(b) : m < n => b[m] < b[n]
    <3>1. ASSUME NEW m \in 1..Len(b), NEW n \in 1..Len(b), m < n PROVE b[m] < b[n]
      <4>1. m + 1 \in 1..Len(a) /\ n + 1 \in 1..Len(a) /\ m + 1 < n + 1
            /\ b[m] = a[m + 1] /\ b[n] = a[n + 1]
        BY <2>8, <3>1
      <4>2. QED
        BY <2>1, <4>1 DEF Own, Flying
    <3>2. QED
      BY <3>1
  <2>12. Flying'
    BY <2>7, <2>9, <2>10, <2>11 DEF Flying, b
  <2>13. QED
    BY <2>5, <2>12 DEF Own
<1>8. QED
  BY <1>6, <1>7

LEMMA EndKeeps ==
  ASSUME IInv, End
  PROVE  PendingIds' /\ (Clean' => Own')
<1>1. \A m \in Macs : air'[m] = <<>>
  BY DEF End
<1>2. PendingIds'
  BY <1>1, EmptySeq DEF End, IInv, PendingIds
<1>3. QED
  BY <1>2 DEF End, Clean

LEMMA NextIInv == IInv /\ [Next]_vars => IInv'
<1> SUFFICES ASSUME IInv, [Next]_vars PROVE PendingIds' /\ (Clean' => Own')
  BY NextType DEF IInv
<1>1. CASE InitEspNow
  BY <1>1, QuietKeeps DEF InitEspNow, Clean
<1>2. CASE End
  BY <1>2, EndKeeps
<1>3. ASSUME NEW mac \in Macs, Send(mac) PROVE PendingIds' /\ (Clean' => Own')
  BY <1>3, SendKeeps
<1>4. ASSUME NEW h \in {"recvCb", "sendCb"}, SetHandler(h) PROVE PendingIds' /\ (Clean' => Own')
  BY <1>4, QuietKeeps DEF SetHandler, Clean
<1>5. CASE LoopStarts
  BY <1>5, SettleKeeps DEF LoopStarts
<1>6. CASE DrainRecv
  BY <1>6, QuietKeeps DEF DrainRecv, Clean
<1>7. CASE DrainSend
  BY <1>7, QuietKeeps DEF DrainSend, Clean
<1>8. CASE HandlerReturns
  BY <1>8, QuietKeeps DEF HandlerReturns, Clean
<1>9. CASE Receive
  BY <1>9, QuietKeeps DEF Receive, Clean
<1>10. ASSUME NEW mac \in Macs, Report(mac) PROVE PendingIds' /\ (Clean' => Own')
  BY <1>10, ReportKeeps
<1>11. CASE UNCHANGED vars
  BY <1>11, QuietKeeps DEF vars, Clean
<1>12. QED
  BY <1>1, <1>2, <1>3, <1>4, <1>5, <1>6, <1>7, <1>8, <1>9, <1>10, <1>11 DEF Next, Program, Radio

-----------------------------------------------------------------------------
(* Reports are enough.  Counting them is not inductive: a report to a peer *)
(* may resolve a send to all, and one of the frames to all is counted with *)
(* every peer.  What is inductive is that the waiting sends can be given   *)
(* frames of their own, a send to a peer one to that peer.                 *)
Ticket(f) ==
  /\ f \in Injection(Unresolved, InFlight)
  /\ \A e \in Unresolved : e.mac \in Peers => f[e][1] = e.mac

Ticketed == ~ended => \E f : Ticket(f)

LEMMA FrameIs ==
  \A x : x \in InFlight <=> \E m \in Macs : \E n \in 1..Len(air[m]) : x = <<m, n>>
BY DEF InFlight

LEMMA TicketIs ==
  ASSUME NEW f, Ticket(f)
  PROVE  /\ f \in [Unresolved -> InFlight]
         /\ \A d, e \in Unresolved : f[d] = f[e] => d = e
         /\ \A e \in Unresolved : e.mac \in Peers => f[e][1] = e.mac
BY DEF Ticket, Injection, IsInjective

LEMMA InjectionIs ==
  ASSUME NEW S, NEW T, NEW g \in [S -> T], \A a, b \in S : g[a] = g[b] => a = b
  PROVE  g \in Injection(S, T)
BY DEF Injection, IsInjective

(* A call that the driver takes adds a frame for the send it adds.         *)
LEMMA SendTickets ==
  ASSUME IInv, Ticketed, NEW mac \in Macs, Send(mac)
  PROVE  Ticketed'
<1> DEFINE id == sendIdCounter + 1
           e == [id |-> id, mac |-> mac, by |-> 0]
<1>1. SUFFICES ASSUME ~ended PROVE \E g \in Injection(Unresolved', InFlight') :
                                   \A u \in Unresolved' : u.mac \in Peers => g[u][1] = u.mac
  BY DEF Ticketed, Ticket, Send
<1>2. PICK f : Ticket(f)
  BY <1>1 DEF Ticketed
<1>3. sendIdCounter \in Nat /\ id \in Ids /\ id # 0
  BY EspNowAssumption DEF IInv, TypeOK, Send, Ids
<1>4. CASE air' = air /\ pendingSends' = pendingSends \union {[e EXCEPT !.by = id]}
  <2>1. Unresolved' = Unresolved
    BY <1>3, <1>4 DEF Unresolved, Resolved
  <2>2. InFlight' = InFlight
    BY <1>4 DEF InFlight
  <2>3. f \in Injection(Unresolved', InFlight') /\ \A u \in Unresolved' : u.mac \in Peers => f[u][1] = u.mac
    BY <1>2, <2>1, <2>2 DEF Ticket
  <2>4. QED
    BY <2>3
<1>5. CASE Transmit(id, mac) /\ pendingSends' = pendingSends \union {e}
  <2>1. PICK R \in Reports(mac) :
          air' = [m \in Macs |-> IF m \in R THEN Append(air[m], id) ELSE air[m]]
    BY <1>5 DEF Transmit
  <2>2. PICK r \in R : r \in Macs /\ (mac \in Peers => r = mac)
    BY EspNowAssumption DEF Reports, Macs
  <2>3. \A m \in Macs : air[m] \in Seq(Ids) /\ Len(air[m]) \in Nat
    BY LenProperties DEF IInv, TypeOK
  <2>4. \A m \in Macs : Len(air[m]) <= Len(air'[m]) /\ Len(air'[m]) \in Nat
    BY <1>3, <2>1, <2>3, AppendProperties
  <2>5. Len(air'[r]) = Len(air[r]) + 1
    BY <1>3, <2>1, <2>2, <2>3, AppendProperties
  <2> DEFINE x == <<r, Len(air'[r])>>
  <2>6. \A y : y \in InFlight' <=> \E m \in Macs : \E n \in 1..Len(air'[m]) : y = <<m, n>>
    BY DEF InFlight
  <2>7. InFlight \subseteq InFlight'
    <3> SUFFICES ASSUME NEW y \in InFlight PROVE y \in InFlight'
      OBVIOUS
    <3>1. PICK m \in Macs : \E n \in 1..Len(air[m]) : y = <<m, n>>
      BY FrameIs
    <3>2. PICK n \in 1..Len(air[m]) : y = <<m, n>>
      BY <3>1
    <3>3. n \in 1..Len(air'[m])
      BY <2>3, <2>4
    <3>4. QED
      BY <2>6, <3>2, <3>3
  <2>8. x \in InFlight' /\ x \notin InFlight
    <3>1. Len(air'[r]) \in 1..Len(air'[r]) /\ Len(air'[r]) \notin 1..Len(air[r])
      BY <2>2, <2>3, <2>5
    <3>2. QED
      BY <2>2, <2>6, <3>1, FrameIs
  <2>9. Unresolved' = Unresolved \union {e} /\ e \notin Unresolved
    <3>1. \A d \in pendingSends : d # e
      BY <1>3 DEF IInv, PendingIds
    <3>2. QED
      BY <1>3, <1>5, <3>1 DEF Unresolved, Resolved
  <2> DEFINE g == [u \in Unresolved' |-> IF u = e THEN x ELSE f[u]]
  <2>10. \A u \in Unresolved' : u # e => u \in Unresolved /\ g[u] = f[u] /\ f[u] \in InFlight
    BY <1>2, <2>9, TicketIs
  <2>11. g[e] = x
    BY <2>9
  <2>12. \A u \in Unresolved' : g[u] \in InFlight'
    BY <2>7, <2>8, <2>10, <2>11
  <2>13. \A u, v \in Unresolved' : g[u] = g[v] => u = v
    BY <1>2, <2>8, <2>10, <2>11, TicketIs
  <2>14. \A u \in Unresolved' : u.mac \in Peers => g[u][1] = u.mac
    BY <1>2, <2>2, <2>10, <2>11, TicketIs
  <2>15. g \in [Unresolved' -> InFlight']
    BY <2>12
  <2> HIDE DEF g, x
  <2>16. g \in Injection(Unresolved', InFlight')
    BY <2>13, <2>15, InjectionIs
  <2>17. QED
    BY <2>16, <2>14
<1>6. QED
  BY <1>4, <1>5 DEF Send

(* A report takes the last frame to its address away, and the send it      *)
(* resolves gives its own to whoever had that one.                         *)
LEMMA ReportTickets ==
  ASSUME IInv, Ticketed, NEW mac \in Macs, Report(mac)
  PROVE  Ticketed'
<1>1. SUFFICES ASSUME ~ended PROVE \E g \in Injection(Unresolved', InFlight') :
                                   \A u \in Unresolved' : u.mac \in Peers => g[u][1] = u.mac
  BY DEF Ticketed, Ticket, Report
<1>2. PICK f : Ticket(f)
  BY <1>1 DEF Ticketed
<1> DEFINE h == Head(air[mac])
           n == Len(air[mac])
           x == <<mac, n>>
<1>3. /\ air[mac] \in Seq(Ids) /\ h \in Ids /\ h # 0 /\ n \in Nat \ {0}
      /\ Len(air'[mac]) = n - 1
      /\ \A m \in Macs : m # mac => air'[m] = air[m]
  <2>1. air[mac] \in Seq(Ids) /\ air[mac] # <<>> /\ h \in Ids
    BY ReportedEntries DEF IInv
  <2>2. n \in Nat \ {0} /\ Len(Tail(air[mac])) = n - 1
    BY <2>1, TailIs
  <2>3. air'[mac] = Tail(air[mac]) /\ \A m \in Macs : m # mac => air'[m] = air[m]
    BY DEF Report, IInv, TypeOK
  <2>4. QED
    BY <2>1, <2>2, <2>3 DEF Ids
<1>4. Match(mac) \subseteq Unresolved
  BY MatchIsIn DEF IInv
<1>5. Unresolved' = Unresolved \ Match(mac)
  <2>1. \A e \in Match(mac) : e \in Entry /\ [e EXCEPT !.by = h].by = h
    BY <1>4 DEF IInv, TypeOK, Unresolved, Entry
  <2>2. pendingSends' = (pendingSends \ Match(mac)) \union {[e EXCEPT !.by = h] : e \in Match(mac)}
    BY DEF Report
  <2>3. QED
    BY <1>3, <2>1, <2>2 DEF Unresolved, Resolved
<1>6. \A y : y \in InFlight' <=> y \in InFlight /\ y # x
  <2>1. \A y : y \in InFlight' <=> \E m \in Macs : \E k \in 1..Len(air'[m]) : y = <<m, k>>
    BY DEF InFlight
  <2>2. \A k : k \in 1..n - 1 <=> k \in 1..n /\ k # n
    BY <1>3
  <2>3. \A m \in Macs : \A k : k \in 1..Len(air'[m]) <=> k \in 1..Len(air[m]) /\ <<m, k>> # x
    BY <1>3, <2>2
  <2>4. QED
    BY <2>1, <2>3, FrameIs
<1>7. CASE \E d \in Unresolved : f[d] = x
  <2>1. PICK d \in Unresolved : f[d] = x
    BY <1>7
  <2>2. d.mac \in Peers => d.mac = mac
    BY <1>2, <2>1, TicketIs
  <2>3. d \in Entry
    BY DEF Unresolved, IInv, TypeOK
  <2>4. d.mac = mac \/ d.mac = Null
    BY <2>2, <2>3 DEF Entry, Macs
  <2>5. d \in SendsTo(mac) \/ d \in SendsTo(Null)
    BY <2>4 DEF SendsTo
  <2>6. PICK e \in Unresolved : Match(mac) = {e} /\ (SendsTo(mac) # {} => e.mac = mac)
    <3>1. CASE SendsTo(mac) # {}
      <4>1. SendsTo(mac) \in SUBSET Entry
        BY DEF SendsTo, Unresolved, IInv, TypeOK
      <4>2. Oldest(SendsTo(mac)) \in SendsTo(mac)
        BY <3>1, <4>1, OldestIsIn
      <4>3. Match(mac) = {Oldest(SendsTo(mac))}
        BY <3>1 DEF Match
      <4>4. QED
        BY <4>2, <4>3 DEF SendsTo
    <3>2. CASE SendsTo(mac) = {}
      <4>1. SendsTo(Null) # {}
        BY <2>5, <3>2
      <4>2. Match(mac) = {Newest(SendsTo(Null))}
        BY <3>2, <4>1 DEF Match
      <4>3. QED
        BY <1>4, <3>2, <4>2
    <3>3. QED
      BY <3>1, <3>2
  <2>7. Unresolved' = Unresolved \ {e}
    BY <1>5, <2>6
  <2> DEFINE g == [u \in Unresolved' |-> IF u = d THEN f[e] ELSE f[u]]
  <2>8. \A u \in Unresolved' : g[u] \in InFlight'
    BY <1>2, <1>6, <2>1, <2>7, TicketIs
  <2>9. \A u, v \in Unresolved' : g[u] = g[v] => u = v
    BY <1>2, <2>7, TicketIs
  <2>10. \A u \in Unresolved' : u.mac \in Peers => g[u][1] = u.mac
    <3>1. d.mac \in Peers => d.mac = mac /\ d \in SendsTo(mac)
      BY <2>2 DEF SendsTo
    <3>2. d.mac \in Peers => e.mac = d.mac /\ f[e][1] = e.mac
      BY <1>2, <2>6, <3>1, TicketIs
    <3>3. QED
      BY <1>2, <2>7, <3>2, TicketIs
  <2>11. g \in [Unresolved' -> InFlight']
    BY <2>8
  <2> HIDE DEF g
  <2>12. g \in Injection(Unresolved', InFlight')
    BY <2>9, <2>11, InjectionIs
  <2>13. QED
    BY <2>12, <2>10
<1>8. CASE ~ \E d \in Unresolved : f[d] = x
  <2> DEFINE g == [u \in Unresolved' |-> f[u]]
  <2>1. \A u \in Unresolved' : u \in Unresolved /\ g[u] = f[u] /\ f[u] \in InFlight /\ f[u] # x
    BY <1>2, <1>5, <1>8, TicketIs
  <2>2. g \in [Unresolved' -> InFlight']
    BY <1>6, <2>1
  <2>3. /\ \A u, v \in Unresolved' : g[u] = g[v] => u = v
        /\ \A u \in Unresolved' : u.mac \in Peers => g[u][1] = u.mac
    BY <1>2, <2>1, TicketIs
  <2> HIDE DEF g
  <2>4. g \in Injection(Unresolved', InFlight')
    BY <2>2, <2>3, InjectionIs
  <2>5. QED
    BY <2>4, <2>3
<1>9. QED
  BY <1>7, <1>8

(* Steps that leave the frames and the unresolved sends.                   *)
LEMMA OtherTickets ==
  ASSUME Ticketed, air' = air, Unresolved' = Unresolved, ended' = ended
  PROVE  Ticketed'
<1>1. InFlight' = InFlight
  BY DEF InFlight
<1>2. QED
  BY <1>1 DEF Ticketed, Ticket

LEMMA NextTickets == IInv /\ Ticketed /\ [Next]_vars => Ticketed'
<1> SUFFICES ASSUME IInv, Ticketed, [Next]_vars PROVE Ticketed'
  OBVIOUS
<1>1. ASSUME UNCHANGED <<air, pendingSends, ended>> PROVE Ticketed'
  BY <1>1, OtherTickets DEF Unresolved, Resolved
<1>2. CASE End
  BY <1>2 DEF End, Ticketed
<1>3. CASE LoopStarts
  <2>1. UNCHANGED <<air, ended>> /\ pendingSends' = pendingSends \ Resolved
    BY <1>3 DEF LoopStarts, Settle
  <2>2. Unresolved' = Unresolved
    BY <2>1 DEF Unresolved, Resolved
  <2>3. QED
    BY <2>1, <2>2, OtherTickets
<1>4. ASSUME NEW mac \in Macs, Send(mac) PROVE Ticketed'
  BY <1>4, SendTickets
<1>5. ASSUME NEW mac \in Macs, Report(mac) PROVE Ticketed'
  BY <1>5, ReportTickets
<1>6. ASSUME NEW h \in {"recvCb", "sendCb"}, SetHandler(h) PROVE Ticketed'
  BY <1>1, <1>6 DEF SetHandler, sends
<1>7. CASE InitEspNow \/ DrainRecv \/ DrainSend \/ HandlerReturns \/ Receive \/ UNCHANGED vars
  BY <1>1, <1>7 DEF InitEspNow, DrainRecv, DrainSend, HandlerReturns, Receive, vars, sends
<1>8. QED
  BY <1>2, <1>3, <1>4, <1>5, <1>6, <1>7 DEF Next, Program, Radio

LEMMA InFlightFinite ==
  ASSUME TypeOK
  PROVE  IsFiniteSet(InFlight)
<1> DEFINE F(m) == {<<m, n>> : n \in 1..Len(air[m])}
           T == {F(m) : m \in Macs}
<1>1. ASSUME NEW m \in Macs PROVE IsFiniteSet(F(m))
  <2>1. Len(air[m]) \in Nat
    BY LenProperties DEF TypeOK
  <2>2. IsFiniteSet(1..Len(air[m]))
    BY <2>1, FS_Interval
  <2> DEFINE h == [n \in 1..Len(air[m]) |-> <<m, n>>]
  <2>3. h \in Surjection(1..Len(air[m]), F(m))
    BY DEF Surjection
  <2>4. QED
    BY <2>2, <2>3, FS_Surjection
<1>2. IsFiniteSet(Macs)
  <2>1. IsFiniteSet({Null})
    BY FS_Singleton
  <2>2. QED
    BY <2>1, FS_Union, EspNowAssumption DEF Macs
<1>3. IsFiniteSet(T)
  <2> DEFINE h == [m \in Macs |-> F(m)]
  <2>1. h \in Surjection(Macs, T)
    BY DEF Surjection
  <2>2. QED
    BY <1>2, <2>1, FS_Surjection
<1>4. \A S \in T : IsFiniteSet(S)
  BY <1>1
<1>5. IsFiniteSet(UNION T)
  BY <1>3, <1>4, FS_UNION
<1>6. QED
  BY <1>5 DEF InFlight

LEMMA TicketsAreEnough == TypeOK /\ Ticketed => EnoughReports
<1> SUFFICES ASSUME TypeOK, Ticketed, ~ended
             PROVE  /\ \A p \in Peers : Cardinality(SendsTo(p)) <= Len(air[p])
                    /\ Cardinality(Unresolved) <= Cardinality(InFlight)
  BY DEF EnoughReports
<1>1. PICK f : Ticket(f)
  BY DEF Ticketed
<1>2. Cardinality(Unresolved) <= Cardinality(InFlight)
  BY <1>1, InFlightFinite, FS_Injection DEF Ticket
<1>3. ASSUME NEW p \in Peers PROVE Cardinality(SendsTo(p)) <= Len(air[p])
  <2> DEFINE N == 1..Len(air[p])
             g == [e \in SendsTo(p) |-> f[e][2]]
  <2>1. Len(air[p]) \in Nat
    BY LenProperties DEF TypeOK, Macs
  <2>2. IsFiniteSet(N) /\ Cardinality(N) = Len(air[p])
    BY <2>1, FS_Interval
  <2>3. \A e \in SendsTo(p) : \E n \in N : f[e] = <<p, n>>
    BY <1>1, TicketIs, FrameIs DEF SendsTo
  <2>4. \A e \in SendsTo(p) : g[e] \in N /\ f[e] = <<p, g[e]>>
    BY <2>3
  <2>5. g \in [SendsTo(p) -> N]
    BY <2>4
  <2>6. \A d, e \in SendsTo(p) : g[d] = g[e] => d = e
    <3>1. SendsTo(p) \subseteq Unresolved
      BY DEF SendsTo
    <3>2. \A d, e \in SendsTo(p) : f[d] = f[e] => d = e
      BY <1>1, <3>1, TicketIs
    <3> HIDE DEF g
    <3>3. QED
      BY <2>4, <3>2
  <2> HIDE DEF g
  <2>7. g \in Injection(SendsTo(p), N)
    BY <2>5, <2>6, InjectionIs
  <2>8. QED
    BY <2>2, <2>7, FS_Injection
<1>4. QED
  BY <1>2, <1>3

-----------------------------------------------------------------------------
(* The variables of JSEspNow keep their types: in particular a report      *)
(* always finds an entry where Match says there is one.                    *)
THEOREM EspNowTypeCorrect == Spec => []TypeOK
<1>1. Init => TypeOK
  BY InitIInv DEF IInv
<1>2. QED
  BY <1>1, NextType, PTL DEF Spec

(* Each promise shows the fate of its own frame (completeSend, loop),      *)
(* whatever is in flight to the same peer and to others, in a session      *)
(* without broadcasts.                                                     *)
THEOREM PromiseShowsOwnFrame == Spec => []OwnOutcome
<1>1. IInv => OwnOutcome
  BY DEF IInv, Clean, Own, Settling, OwnOutcome
<1>2. QED
  BY <1>1, InitIInv, NextIInv, PTL DEF Spec

(* For every send that waits there is a report to come (s_send_cb,         *)
(* completeSend), whatever was broadcast: before the session is ended no   *)
(* promise can wait for a report that is never made.                       *)
THEOREM ReportsAreEnough == Spec => []EnoughReports
<1>1. Init => Ticketed
  <2> SUFFICES ASSUME Init PROVE \E f : Ticket(f)
    BY DEF Ticketed
  <2> DEFINE f == [e \in {} |-> e]
  <2>1. Unresolved = {}
    BY DEF Init, Unresolved
  <2>2. Ticket(f)
    BY <2>1 DEF Ticket, Injection, IsInjective
  <2>3. QED
    BY <2>2
<1>2. IInv => TypeOK
  BY DEF IInv
<1>3. QED
  BY <1>1, <1>2, InitIInv, NextIInv, NextTickets, TicketsAreEnough, PTL DEF Spec
=============================================================================
