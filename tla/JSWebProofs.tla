----------------------------- MODULE JSWebProofs ------------------------------
(***************************************************************************)
(* Theorems about JSWeb, for any servers, paths, requests and bounds.      *)
(***************************************************************************)
EXTENDS JSWeb, SequenceTheorems, FiniteSetTheorems, WellFoundedInduction, TLAPS

-----------------------------------------------------------------------------
(* Sequences.                                                              *)

LEMMA Smallest ==
  ASSUME NEW I \in SUBSET Nat, I # {}
  PROVE  \E m \in I : \A n \in I : m <= n
<1> DEFINE R == OpToRel(<, Nat)
<1>1. IsWellFoundedOn(R, Nat)
  BY NatLessThanWellFounded
<1>2. R = {p \in Nat \X Nat : p[1] < p[2]}
  BY DEF OpToRel
<1> HIDE DEF R
<1>3. PICK m \in I : \A n \in I : <<n, m>> \notin R
  BY <1>1, WFMin
<1>4. \A n \in I : <<n, m>> \in Nat \X Nat
  OBVIOUS
<1>5. \A n \in I : ~(n < m)
  BY <1>2, <1>3, <1>4
<1>6. QED
  BY <1>5

(* Taking out an element leaves the others.                                *)
LEMMA RemoveFirstIs ==
  ASSUME NEW S, NEW q \in Seq(S), NEW h
  PROVE  /\ Seqs!RemoveFirst(q, h) \in Seq(S)
         /\ \A j \in 1..Len(q) : q[j] # h =>
              \E i \in 1..Len(Seqs!RemoveFirst(q, h)) : Seqs!RemoveFirst(q, h)[i] = q[j]
         /\ \A i \in 1..Len(Seqs!RemoveFirst(q, h)) :
              \E j \in 1..Len(q) : Seqs!RemoveFirst(q, h)[i] = q[j]
<1>1. CASE ~\E i \in 1..Len(q) : q[i] = h
  BY <1>1 DEF Seqs!RemoveFirst
<1>2. CASE \E i \in 1..Len(q) : q[i] = h
  <2> DEFINE I == {i \in 1..Len(q) : q[i] = h}
             m == Seqs!Min(I)
             a == SubSeq(q, 1, m - 1)
             b == SubSeq(q, m + 1, Len(q))
  <2>1. Seqs!RemoveFirst(q, h) = Seqs!RemoveAt(q, m)
    BY <1>2 DEF Seqs!RemoveFirst, Seqs!SelectInSeq
  <2>2. m \in I
    <3>1. I \in SUBSET Nat /\ I # {}
      BY <1>2
    <3> HIDE DEF I
    <3>2. \E x \in I : \A y \in I : x <= y
      BY <3>1, Smallest
    <3>3. QED
      BY <3>2 DEF Seqs!Min
  <2>3. m \in 1..Len(q) /\ q[m] = h /\ Len(q) \in Nat
    BY <2>2
  <2> HIDE DEF m
  <2>4. \A i \in 1..Len(q) : q[i] \in S
    BY ElementOfSeq
  <2>5. a \in Seq(S) /\ Len(a) = m - 1 /\ \A i \in 1..m - 1 : a[i] = q[i]
    <3>1. m - 1 \in 1 - 1 .. Len(q) /\ \A i \in 1..m - 1 : q[i] \in S
      BY <2>3, <2>4
    <3>2. QED
      BY <2>3, <3>1, SubSeqProperties
  <2>6. b \in Seq(S) /\ Len(b) = Len(q) - m /\ \A i \in 1..Len(q) - m : b[i] = q[m + i]
    <3>1. Len(q) \in (m + 1) - 1 .. Len(q) /\ m + 1 \in 1..Len(q) + 1
          /\ \A i \in m + 1..Len(q) : q[i] \in S
      BY <2>3, <2>4
    <3>2. QED
      BY <2>3, <3>1, SubSeqProperties
  <2> HIDE DEF a, b
  <2>7. /\ a \o b \in Seq(S) /\ Len(a \o b) = Len(q) - 1
        /\ \A i \in 1..m - 1 : (a \o b)[i] = q[i]
        /\ \A i \in m..Len(q) - 1 : (a \o b)[i] = q[i + 1]
    <3>1. /\ a \o b \in Seq(S) /\ Len(a \o b) = Len(a) + Len(b)
          /\ \A i \in 1..Len(a) + Len(b) : (a \o b)[i] = IF i <= Len(a) THEN a[i] ELSE b[i - Len(a)]
      BY <2>5, <2>6, ConcatProperties
    <3>2. ASSUME NEW i \in 1..m - 1 PROVE (a \o b)[i] = q[i]
      BY <2>3, <2>5, <2>6, <3>1
    <3>3. ASSUME NEW i \in m..Len(q) - 1 PROVE (a \o b)[i] = q[i + 1]
      <4>1. i - (m - 1) \in 1..Len(q) - m /\ m + (i - (m - 1)) = i + 1
        BY <2>3
      <4>2. (a \o b)[i] = b[i - (m - 1)]
        BY <2>3, <2>5, <2>6, <3>1
      <4>3. QED
        BY <2>6, <4>1, <4>2
    <3>4. QED
      BY <2>3, <2>5, <2>6, <3>1, <3>2, <3>3
  <2>8. Seqs!RemoveFirst(q, h) = a \o b
    BY <2>1 DEF Seqs!RemoveAt, a, b
  <2>9. ASSUME NEW i \in 1..Len(a \o b)
        PROVE  \E j \in 1..Len(q) : (a \o b)[i] = q[j]
    <3>1. CASE i < m
      <4>1. i \in 1..m - 1 /\ i \in 1..Len(q)
        BY <2>3, <2>7, <3>1
      <4>2. QED
        BY <2>7, <4>1
    <3>2. CASE i >= m
      <4>1. i \in m..Len(q) - 1 /\ i + 1 \in 1..Len(q)
        BY <2>3, <2>7, <3>2
      <4>2. (a \o b)[i] = q[i + 1]
        BY <2>7, <4>1
      <4>3. QED
        BY <4>1, <4>2
    <3>3. QED
      BY <2>3, <2>7, <3>1, <3>2
  <2>10. ASSUME NEW j \in 1..Len(q), q[j] # h
         PROVE  \E i \in 1..Len(a \o b) : (a \o b)[i] = q[j]
    <3>1. CASE j < m
      <4>1. j \in 1..m - 1 /\ j \in 1..Len(a \o b)
        BY <2>3, <2>7, <3>1
      <4>2. QED
        BY <2>7, <4>1
    <3>2. CASE j > m
      <4>1. j - 1 \in m..Len(q) - 1 /\ j = (j - 1) + 1 /\ j - 1 \in 1..Len(a \o b)
        BY <2>3, <2>7, <3>2
      <4>2. (a \o b)[j - 1] = q[j]
        BY <2>7, <4>1
      <4>3. QED
        BY <4>1, <4>2
    <3>3. QED
      BY <2>3, <2>10, <3>1, <3>2
  <2>11. QED
    BY <2>7, <2>8, <2>9, <2>10
<1>3. QED
  BY <1>1, <1>2

(* How often a request occurs in a sequence of operations.                 *)
Places(q, r) == {i \in 1..Len(q) : q[i].req = r}

LEMMA CountIsNat ==
  ASSUME NEW q \in Seq(Ops), NEW r
  PROVE  IsFiniteSet(Places(q, r)) /\ Cardinality(Places(q, r)) \in Nat
<1>1. Places(q, r) \in SUBSET (1..Len(q)) /\ Len(q) \in Nat
  BY LenProperties DEF Places
<1>2. IsFiniteSet(1..Len(q))
  BY <1>1, FS_Interval
<1>3. QED
  BY <1>1, <1>2, FS_Subset, FS_CardinalityType

LEMMA CountPush ==
  ASSUME NEW q \in Seq(Ops), NEW o \in Ops, NEW r
  PROVE  /\ Cardinality(Places(q, r)) \in Nat
         /\ Cardinality(Places(Append(q, o), r)) = Cardinality(Places(q, r)) + (IF o.req = r THEN 1 ELSE 0)
<1> DEFINE n == Len(q) + 1
<1>1. Len(q) \in Nat /\ Len(Append(q, o)) = n /\ Append(q, o)[n] = o
      /\ \A i \in 1..Len(q) : Append(q, o)[i] = q[i]
  BY LenProperties, AppendProperties
<1>2. IsFiniteSet(Places(q, r)) /\ Cardinality(Places(q, r)) \in Nat
  BY CountIsNat
<1>3. n \notin Places(q, r)
  BY <1>1 DEF Places
<1>4. Places(Append(q, o), r) = IF o.req = r THEN Places(q, r) \union {n} ELSE Places(q, r)
  BY <1>1 DEF Places
<1> HIDE DEF n
<1>5. Cardinality(Places(q, r) \union {n}) = Cardinality(Places(q, r)) + 1
  BY <1>2, <1>3, FS_AddElement
<1>6. QED
  BY <1>2, <1>4, <1>5

LEMMA OpAt ==
  ASSUME NEW q \in Seq(Ops), NEW i \in 1..Len(q)
  PROVE  q[i] \in Ops /\ q[i].req \in Requests
<1>1. q[i] \in Ops
  BY ElementOfSeq
<1>2. QED
  BY <1>1 DEF Ops

LEMMA PopIs ==
  ASSUME NEW q \in Seq(Ops), q # <<>>
  PROVE  LET p == SubSeq(q, 1, Len(q) - 1)
         IN /\ p \in Seq(Ops) /\ Len(q) \in Nat \ {0} /\ Len(p) = Len(q) - 1
            /\ q[Len(q)] \in Ops
            /\ \A i \in 1..Len(q) - 1 : p[i] = q[i]
            /\ q = Append(p, q[Len(q)])
<1> DEFINE n == Len(q) - 1
           p == SubSeq(q, 1, n)
<1>1. Len(q) \in Nat \ {0} /\ q[Len(q)] \in Ops /\ \A i \in 1..Len(q) : q[i] \in Ops
  BY EmptySeq, LenProperties, ElementOfSeq
<1>2. p \in Seq(Ops) /\ Len(p) = n /\ \A i \in 1..n : p[i] = q[i]
  <2>1. n \in Nat /\ \A i \in 1..n : q[i] \in Ops
    BY <1>1
  <2> HIDE DEF n
  <2>2. QED
    BY <2>1, SubSeqProperties
<1>3. q = Append(p, q[Len(q)])
  <2> HIDE DEF p
  <2>1. /\ Append(p, q[Len(q)]) \in Seq(Ops) /\ Len(Append(p, q[Len(q)])) = Len(q)
        /\ \A i \in 1..Len(q) : Append(p, q[Len(q)])[i] = q[i]
    BY <1>1, <1>2, AppendProperties
  <2>2. QED
    BY <2>1, SeqEqual
<1>4. QED
  BY <1>1, <1>2, <1>3

-----------------------------------------------------------------------------
(* The inductive invariant.                                                *)

(* What the AsyncTCP task carries along the chain is no new request.       *)
TcpOK ==
  \/ tcp = Idle
  \/ /\ tcp \in [req : Requests, server : Servers, path : Paths, next : Nat \ {0}]
     /\ phase[tcp.req] # "new"
     /\ tcp.next <= Len(uses[tcp.server]) + 1

(* Nothing is held, queued or handled of a new request.                    *)
FreshOK ==
  /\ \A r \in Requests : phase[r] = "new" => r \notin online /\ handled[r] = <<>>
  /\ \A i \in 1..Len(ops) : phase[ops[i].req] # "new"
  /\ \A i \in 1..Len(stack) : phase[stack[i].req] # "new"

(* Ids of the stash are given out once.                                    *)
StashOK ==
  /\ \A s \in Servers : \A i \in 1..Len(uses[s]) : uses[s][i] <= nextId
  /\ \A s \in Servers : \A i, j \in 1..Len(uses[s]) : uses[s][i] = uses[s][j] => i = j
  /\ \A s \in Servers : \A i \in 1..Len(routes[s]) : routes[s][i].kind = "js" =>
       /\ routes[s][i].id <= nextId
       /\ \A k \in 1..Len(uses[s]) : uses[s][k] # routes[s][i].id

(* A request is queued for a handler once, and not for one it was given to *)
OpsOnce ==
  /\ \A i, j \in 1..Len(ops) : ops[i] = ops[j] => i = j
  /\ \A i \in 1..Len(ops) : \A k \in 1..Len(handled[ops[i].req]) :
       handled[ops[i].req][k] # ops[i].id

(* What a request on its way along the chain was queued for so far are the *)
(* middlewares behind it.                                                  *)
Behind(id) == \E k \in 1..tcp.next - 1 : uses[tcp.server][k] = id

ChainOK ==
  tcp # Idle =>
    /\ \A i \in 1..Len(ops) : ops[i].req = tcp.req => Behind(ops[i].id)
    /\ \A k \in 1..Len(handled[tcp.req]) : Behind(handled[tcp.req][k])

TableOK == \A id \in DOMAIN table : table[id].id = id

QueueInv == OpsOnce /\ HandledOnce /\ ChainOK

IInv ==
  /\ TypeOK /\ TcpOK /\ FreshOK /\ StashOK
  /\ QueueInv /\ RequestIsHeld /\ TableOK /\ TableIsLive

LEMMA HeldIs ==
  RequestIsHeld <=>
    \A r \in Requests :
      refs[r] = Cardinality(Places(ops, r)) + Cardinality(Places(stack, r)) + (IF r \in online THEN 1 ELSE 0)
BY DEF RequestIsHeld, Holders, Places

LEMMA HeldNext ==
  ASSUME \A r \in Requests :
           refs'[r] = Cardinality(Places(ops', r)) + Cardinality(Places(stack', r))
                      + (IF r \in online' THEN 1 ELSE 0)
  PROVE  RequestIsHeld'
BY DEF RequestIsHeld, Holders, Places

LEMMA InitIInv == Init => IInv
<1> SUFFICES ASSUME Init PROVE IInv
  OBVIOUS
<1>1. /\ ops = <<>> /\ stack = <<>> /\ tcp = Idle /\ online = {} /\ kept = {} /\ table = <<>>
      /\ nextId = 0 /\ staticIds = 0 /\ listening = {} /\ draining = FALSE /\ misuse = FALSE
      /\ routes = [s \in Servers |-> <<>>] /\ uses = [s \in Servers |-> <<>>]
      /\ phase = [r \in Requests |-> "new"] /\ refs = [r \in Requests |-> 0]
      /\ handled = [r \in Requests |-> <<>>]
  BY DEF Init
<1>2. TypeOK
  <2>1. <<>> \in Seq(Handlers) /\ <<>> \in Seq(StashIds) /\ <<>> \in Seq(Ops)
    BY EmptySeq
  <2>2. 0 \in 0..MaxStash /\ 0 \in 0..MaxStatic
    BY WebAssumption
  <2>3. DOMAIN table = {}
    BY <1>1
  <2>4. QED
    BY <1>1, <2>1, <2>2, <2>3 DEF TypeOK, PhaseNames, Idle
<1>3. TcpOK /\ FreshOK /\ StashOK /\ OpsOnce /\ HandledOnce /\ ChainOK
  BY <1>1 DEF TcpOK, FreshOK, StashOK, OpsOnce, HandledOnce, ChainOK
<1>4. RequestIsHeld
  <2>1. \A r \in Requests : Places(ops, r) = {} /\ Places(stack, r) = {}
    BY <1>1 DEF Places
  <2>2. Cardinality({}) = 0
    BY FS_EmptySet
  <2>3. ASSUME NEW r \in Requests
        PROVE  refs[r] = Cardinality(Places(ops, r)) + Cardinality(Places(stack, r)) + (IF r \in online THEN 1 ELSE 0)
    <3>1. refs[r] = 0 /\ r \notin online
      BY <1>1
    <3>2. QED
      BY <2>1, <2>2, <3>1
  <2>4. QED
    BY <2>3, HeldIs
<1>5. TableOK /\ TableIsLive
  BY <1>1 DEF TableOK, TableIsLive
<1>6. QED
  BY <1>2, <1>3, <1>4, <1>5 DEF IInv, QueueInv

(* What the program registers and removes.                                 *)
LEMMA RegistryKeeps ==
  ASSUME IInv, UNCHANGED <<js, tcp, requests>>, nextId <= nextId',
         nextId' \in 0..MaxStash, staticIds' \in 0..MaxStatic, listening' \subseteq Servers,
         DOMAIN table' \subseteq 1..(MaxStash + MaxStatic),
         \A id \in DOMAIN table' : table'[id] \in Handlers,
         routes' \in [Servers -> Seq(Handlers)], uses' \in [Servers -> Seq(StashIds)],
         \A s \in Servers : /\ Len(uses[s]) <= Len(uses'[s])
                            /\ \A k \in 1..Len(uses[s]) : uses'[s][k] = uses[s][k],
         StashOK', TableOK', TableIsLive'
  PROVE  IInv'
<1>1. TypeOK'
  BY DEF IInv, TypeOK, js, requests
<1>2. TcpOK'
  <2>1. CASE tcp = Idle
    BY <2>1 DEF TcpOK
  <2>2. CASE tcp # Idle
    <3>1. tcp.server \in Servers /\ tcp.next \in Nat
      BY <2>2 DEF IInv, TcpOK
    <3>2. Len(uses[tcp.server]) \in Nat /\ Len(uses'[tcp.server]) \in Nat
      BY <3>1, <1>1, LenProperties DEF IInv, TypeOK
    <3>3. QED
      BY <2>2, <3>1, <3>2 DEF IInv, TcpOK, requests
  <2>3. QED
    BY <2>1, <2>2
<1>3. FreshOK'
  BY DEF IInv, FreshOK, js, requests
<1>4. OpsOnce' /\ HandledOnce'
  BY DEF IInv, QueueInv, OpsOnce, HandledOnce, js, requests
<1>5. ChainOK'
  <2> SUFFICES ASSUME tcp # Idle PROVE ChainOK'
    BY DEF ChainOK
  <2>1. tcp.server \in Servers /\ tcp.next \in Nat \ {0} /\ tcp.next <= Len(uses[tcp.server]) + 1
    BY DEF IInv, TcpOK
  <2>2. Len(uses[tcp.server]) \in Nat
    BY <2>1, LenProperties DEF IInv, TypeOK
  <2>3. \A k \in 1..tcp.next - 1 : uses'[tcp.server][k] = uses[tcp.server][k]
    <3>1. \A k \in 1..tcp.next - 1 : k \in 1..Len(uses[tcp.server])
      BY <2>1, <2>2
    <3>2. QED
      BY <2>1, <3>1
  <2>4. \A id : Behind(id) => Behind(id)'
    BY <2>3 DEF Behind
  <2>5. QED
    BY <2>4 DEF IInv, QueueInv, ChainOK, js, requests
<1>6. RequestIsHeld'
  BY DEF IInv, RequestIsHeld, Holders, js, requests
<1>7. QED
  BY <1>1, <1>2, <1>3, <1>4, <1>5, <1>6 DEF IInv, QueueInv

(* A handler is appended to the routes of a server.                        *)
LEMMA AddRoute ==
  ASSUME TypeOK, TableOK, TableIsLive, NEW s \in Servers, NEW h \in Handlers,
         routes' = [routes EXCEPT ![s] = Append(@, h)], table' = Put(h.id, h)
  PROVE  /\ routes' \in [Servers -> Seq(Handlers)]
         /\ DOMAIN table' = DOMAIN table \union {h.id}
         /\ \A id \in DOMAIN table' : table'[id] \in Handlers
         /\ TableOK' /\ TableIsLive'
         /\ \A t \in Servers : \A i \in 1..Len(routes'[t]) :
              (\E j \in 1..Len(routes[t]) : routes'[t][i] = routes[t][j]) \/ routes'[t][i] = h
<1>1. \A t \in Servers : routes[t] \in Seq(Handlers) /\ Len(routes[t]) \in Nat
  BY LenProperties DEF TypeOK
<1>2. /\ routes'[s] \in Seq(Handlers) /\ Len(routes'[s]) = Len(routes[s]) + 1
      /\ \A i \in 1..Len(routes[s]) : routes'[s][i] = routes[s][i]
      /\ routes'[s][Len(routes[s]) + 1] = h
  <2>1. routes'[s] = Append(routes[s], h)
    BY DEF TypeOK
  <2>2. QED
    BY <1>1, <2>1, AppendProperties
<1>3. \A t \in Servers : t # s => routes'[t] = routes[t]
  BY DEF TypeOK
<1>4. routes' \in [Servers -> Seq(Handlers)]
  BY <1>2 DEF TypeOK
<1>5. /\ DOMAIN table' = DOMAIN table \union {h.id} /\ table'[h.id] = h
      /\ \A i \in DOMAIN table : i # h.id => table'[i] = table[i]
  BY DEF Put
<1>6. \A id \in DOMAIN table' : table'[id] \in Handlers
  BY <1>5 DEF TypeOK
<1>7. TableOK'
  BY <1>5 DEF TableOK
<1>8. ASSUME NEW id \in DOMAIN table'
      PROVE  \E t \in Servers : \E i \in 1..Len(routes'[t]) : routes'[t][i] = table'[id]
  <2>1. CASE id = h.id
    <3>1. Len(routes[s]) + 1 \in 1..Len(routes'[s]) /\ routes'[s][Len(routes[s]) + 1] = table'[id]
      BY <1>1, <1>2, <1>5, <2>1
    <3>2. QED
      BY <3>1
  <2>2. CASE id # h.id
    <3>1. PICK t \in Servers : \E i \in 1..Len(routes[t]) : routes[t][i] = table'[id]
      BY <1>5, <2>2 DEF TableIsLive
    <3>2. PICK i \in 1..Len(routes[t]) : routes[t][i] = table'[id]
      BY <3>1
    <3>3. i \in 1..Len(routes'[t]) /\ routes'[t][i] = table'[id]
      BY <1>1, <1>2, <1>3, <3>2
    <3>4. QED
      BY <3>3
  <2>3. QED
    BY <2>1, <2>2
<1>9. TableIsLive'
  BY <1>8 DEF TableIsLive
<1>10. ASSUME NEW t \in Servers, NEW i \in 1..Len(routes'[t])
       PROVE  (\E j \in 1..Len(routes[t]) : routes'[t][i] = routes[t][j]) \/ routes'[t][i] = h
  <2>1. CASE t = s
    BY <1>1, <1>2, <2>1
  <2>2. CASE t # s
    BY <1>3, <2>2
  <2>3. QED
    BY <2>1, <2>2
<1>11. QED
  BY <1>4, <1>5, <1>6, <1>7, <1>9, <1>10

LEMMA UsesStay ==
  ASSUME TypeOK, uses' = uses
  PROVE  /\ uses' \in [Servers -> Seq(StashIds)]
         /\ \A s \in Servers : /\ Len(uses[s]) \in Nat /\ Len(uses[s]) <= Len(uses'[s])
                               /\ \A k \in 1..Len(uses[s]) : uses'[s][k] = uses[s][k]
BY LenProperties DEF TypeOK

(* The ids in the middlewares and the routes.                              *)
LEMMA RouteIds ==
  ASSUME TypeOK
  PROVE  /\ \A s \in Servers : \A i \in 1..Len(uses[s]) : uses[s][i] \in Nat
         /\ \A s \in Servers : \A i \in 1..Len(routes[s]) :
              routes[s][i].kind \in {"js", "static"} /\ routes[s][i].id \in Nat
         /\ nextId \in Nat /\ staticIds \in Nat
<1>1. \A s \in Servers : uses[s] \in Seq(StashIds) /\ routes[s] \in Seq(Handlers)
  BY DEF TypeOK
<1>2. \A s \in Servers : \A i \in 1..Len(uses[s]) : uses[s][i] \in Nat
  BY <1>1, ElementOfSeq, WebAssumption DEF StashIds
<1>3. \A s \in Servers : \A i \in 1..Len(routes[s]) : routes[s][i] \in Handlers
  BY <1>1, ElementOfSeq
<1>4. \A h \in Handlers : h.kind \in {"js", "static"} /\ h.id \in Nat
  BY WebAssumption DEF Handlers, StashIds
<1>5. QED
  BY <1>2, <1>3, <1>4, WebAssumption DEF TypeOK

LEMMA RouteKeeps ==
  ASSUME IInv, NEW s \in Servers, NEW p \in Paths, Route(s, p)
  PROVE  IInv'
<1> DEFINE h == [kind |-> "js", id |-> nextId + 1, path |-> p]
<1>1. /\ nextId < MaxStash /\ nextId' = nextId + 1
      /\ routes' = [routes EXCEPT ![s] = Append(@, h)] /\ table' = Put(nextId + 1, h)
      /\ UNCHANGED <<staticIds, uses, listening, js, tcp, requests>>
  BY DEF Route
<1>2. TypeOK /\ TableOK /\ TableIsLive /\ StashOK
  BY DEF IInv
<1>3. nextId \in Nat /\ nextId' \in 1..MaxStash
  BY <1>1, <1>2, WebAssumption DEF TypeOK
<1>4. h \in Handlers /\ h.id = nextId + 1 /\ h.kind = "js"
  BY <1>1, <1>3 DEF Handlers, StashIds
<1> HIDE DEF h
<1>5. /\ routes' \in [Servers -> Seq(Handlers)]
      /\ DOMAIN table' = DOMAIN table \union {h.id}
      /\ \A id \in DOMAIN table' : table'[id] \in Handlers
      /\ TableOK' /\ TableIsLive'
      /\ \A t \in Servers : \A i \in 1..Len(routes'[t]) :
           (\E j \in 1..Len(routes[t]) : routes'[t][i] = routes[t][j]) \/ routes'[t][i] = h
  BY <1>1, <1>2, <1>4, AddRoute
<1>6. DOMAIN table' \subseteq 1..(MaxStash + MaxStatic)
  <2>1. nextId + 1 \in 1..(MaxStash + MaxStatic)
    BY <1>1, <1>3, WebAssumption
  <2>2. QED
    BY <1>2, <1>4, <1>5, <2>1 DEF TypeOK
<1>7. StashOK'
  <2>1. \A t \in Servers : \A i \in 1..Len(uses[t]) : uses[t][i] <= nextId /\ uses[t][i] \in Nat
    BY <1>2, RouteIds DEF StashOK
  <2>2. \A t \in Servers : \A i \in 1..Len(uses[t]) : uses[t][i] <= nextId' /\ uses[t][i] # h.id
    BY <1>1, <1>3, <1>4, <2>1
  <2>3. ASSUME NEW t \in Servers, NEW i \in 1..Len(routes'[t]), routes'[t][i].kind = "js"
        PROVE  /\ routes'[t][i].id <= nextId'
               /\ \A k \in 1..Len(uses[t]) : uses[t][k] # routes'[t][i].id
    <3>1. ASSUME NEW j \in 1..Len(routes[t]), routes'[t][i] = routes[t][j]
          PROVE  /\ routes'[t][i].id <= nextId'
                 /\ \A k \in 1..Len(uses[t]) : uses[t][k] # routes'[t][i].id
      <4>1. routes[t][j].id <= nextId /\ routes[t][j].id \in Nat
            /\ \A k \in 1..Len(uses[t]) : uses[t][k] # routes[t][j].id
        BY <1>2, <2>3, <3>1, RouteIds DEF StashOK
      <4>2. QED
        BY <1>1, <1>3, <3>1, <4>1
    <3>2. CASE routes'[t][i] = h
      BY <1>1, <1>3, <1>4, <2>2, <3>2
    <3>3. QED
      BY <1>5, <3>1, <3>2
  <2>4. QED
    BY <1>1, <1>2, <2>2, <2>3 DEF StashOK
<1>8. nextId <= nextId' /\ nextId' \in 0..MaxStash
  BY <1>1, <1>3
<1>9. QED
  BY <1>1, <1>2, <1>5, <1>6, <1>7, <1>8, UsesStay, RegistryKeeps DEF TypeOK

LEMMA ServeStaticKeeps ==
  ASSUME IInv, NEW s \in Servers, NEW p \in Paths, ServeStatic(s, p)
  PROVE  IInv'
<1> DEFINE h == [kind |-> "static", id |-> staticIds + 1, path |-> p]
<1>1. /\ staticIds < MaxStatic /\ staticIds' = staticIds + 1
      /\ routes' = [routes EXCEPT ![s] = Append(@, h)] /\ table' = Put(staticIds + 1, h)
      /\ UNCHANGED <<nextId, uses, listening, js, tcp, requests>>
  BY DEF ServeStatic
<1>2. TypeOK /\ TableOK /\ TableIsLive /\ StashOK
  BY DEF IInv
<1>3. staticIds \in Nat /\ staticIds' \in 1..MaxStatic /\ nextId \in Nat
  BY <1>1, <1>2, WebAssumption DEF TypeOK
<1>4. h \in Handlers /\ h.id = staticIds + 1 /\ h.kind = "static"
  BY <1>1, <1>3 DEF Handlers
<1> HIDE DEF h
<1>5. /\ routes' \in [Servers -> Seq(Handlers)]
      /\ DOMAIN table' = DOMAIN table \union {h.id}
      /\ \A id \in DOMAIN table' : table'[id] \in Handlers
      /\ TableOK' /\ TableIsLive'
      /\ \A t \in Servers : \A i \in 1..Len(routes'[t]) :
           (\E j \in 1..Len(routes[t]) : routes'[t][i] = routes[t][j]) \/ routes'[t][i] = h
  BY <1>1, <1>2, <1>4, AddRoute
<1>6. DOMAIN table' \subseteq 1..(MaxStash + MaxStatic)
  <2>1. staticIds + 1 \in 1..(MaxStash + MaxStatic)
    BY <1>1, <1>3, WebAssumption
  <2>2. QED
    BY <1>2, <1>4, <1>5, <2>1 DEF TypeOK
<1>7. StashOK'
  <2>1. ASSUME NEW t \in Servers, NEW i \in 1..Len(routes'[t]), routes'[t][i].kind = "js"
        PROVE  \E j \in 1..Len(routes[t]) : routes'[t][i] = routes[t][j]
    BY <1>4, <1>5, <2>1
  <2>2. QED
    BY <1>1, <1>2, <2>1 DEF StashOK
<1>8. nextId <= nextId' /\ nextId' \in 0..MaxStash /\ staticIds' \in 0..MaxStatic
  BY <1>1, <1>2, <1>3 DEF TypeOK
<1>9. QED
  BY <1>1, <1>2, <1>5, <1>6, <1>7, <1>8, UsesStay, RegistryKeeps DEF TypeOK

LEMMA UseKeeps ==
  ASSUME IInv, NEW s \in Servers, Use(s)
  PROVE  IInv'
<1>1. /\ nextId < MaxStash /\ nextId' = nextId + 1
      /\ uses' = [uses EXCEPT ![s] = Append(@, nextId + 1)]
      /\ UNCHANGED <<staticIds, table, routes, listening, js, tcp, requests>>
  BY DEF Use
<1>2. TypeOK /\ TableOK /\ TableIsLive /\ StashOK
  BY DEF IInv
<1>3. nextId \in Nat /\ nextId' \in 0..MaxStash /\ nextId <= nextId' /\ nextId + 1 \in StashIds
  BY <1>1, <1>2, WebAssumption DEF TypeOK, StashIds
<1>4. /\ uses'[s] \in Seq(StashIds) /\ Len(uses[s]) \in Nat /\ Len(uses'[s]) = Len(uses[s]) + 1
      /\ \A i \in 1..Len(uses[s]) : uses'[s][i] = uses[s][i]
      /\ uses'[s][Len(uses[s]) + 1] = nextId + 1
  <2>1. uses'[s] = Append(uses[s], nextId + 1) /\ uses[s] \in Seq(StashIds)
    BY <1>1, <1>2 DEF TypeOK
  <2>2. QED
    BY <1>3, <2>1, AppendProperties, LenProperties
<1>5. \A t \in Servers : t # s => uses'[t] = uses[t]
  BY <1>1, <1>2 DEF TypeOK
<1>6. uses' \in [Servers -> Seq(StashIds)]
  BY <1>1, <1>2, <1>4 DEF TypeOK
<1>7. \A t \in Servers : /\ Len(uses[t]) <= Len(uses'[t])
                         /\ \A k \in 1..Len(uses[t]) : uses'[t][k] = uses[t][k]
  <2>1. \A t \in Servers : Len(uses[t]) \in Nat
    BY <1>2, LenProperties DEF TypeOK
  <2>2. QED
    BY <1>4, <1>5, <2>1
(* Each middleware is an old one or the one added.                         *)
<1>8. ASSUME NEW t \in Servers, NEW i \in 1..Len(uses'[t])
      PROVE  \/ i \in 1..Len(uses[t]) /\ uses'[t][i] = uses[t][i]
             \/ t = s /\ i = Len(uses[s]) + 1 /\ uses'[t][i] = nextId + 1
  BY <1>4, <1>5
<1>9. \A t \in Servers : \A i \in 1..Len(uses[t]) : uses[t][i] <= nextId /\ uses[t][i] \in Nat
  BY <1>2, RouteIds DEF StashOK
<1>10. StashOK'
  <2>1. \A t \in Servers : \A i \in 1..Len(uses'[t]) : uses'[t][i] <= nextId'
    BY <1>1, <1>3, <1>8, <1>9
  <2>2. ASSUME NEW t \in Servers, NEW i \in 1..Len(uses'[t]), NEW j \in 1..Len(uses'[t]),
               uses'[t][i] = uses'[t][j]
        PROVE  i = j
    <3>1. CASE i \in 1..Len(uses[t]) /\ j \in 1..Len(uses[t])
      BY <1>2, <1>7, <2>2, <3>1 DEF StashOK
    <3>2. CASE ~(i \in 1..Len(uses[t]) /\ j \in 1..Len(uses[t]))
      <4>1. ASSUME NEW k \in 1..Len(uses'[t]), NEW l \in 1..Len(uses'[t]),
                   uses'[t][k] = uses'[t][l], t = s, k = Len(uses[s]) + 1, uses'[t][k] = nextId + 1
            PROVE  k = l
        <5>1. \A m \in 1..Len(uses[t]) : uses[t][m] # nextId + 1
          BY <1>3, <1>9
        <5>2. QED
          BY <1>8, <4>1, <5>1
      <4>2. \/ t = s /\ i = Len(uses[s]) + 1 /\ uses'[t][i] = nextId + 1
            \/ t = s /\ j = Len(uses[s]) + 1 /\ uses'[t][j] = nextId + 1
        BY <1>8, <3>2
      <4>3. QED
        BY <2>2, <4>1, <4>2
    <3>3. QED
      BY <3>1, <3>2
  <2>3. ASSUME NEW t \in Servers, NEW i \in 1..Len(routes[t]), routes[t][i].kind = "js"
        PROVE  /\ routes[t][i].id <= nextId'
               /\ \A k \in 1..Len(uses'[t]) : uses'[t][k] # routes[t][i].id
    <3>1. /\ routes[t][i].id <= nextId /\ routes[t][i].id \in Nat
          /\ \A k \in 1..Len(uses[t]) : uses[t][k] # routes[t][i].id
      BY <1>2, <2>3, RouteIds DEF StashOK
    <3>2. routes[t][i].id # nextId + 1
      BY <1>3, <3>1
    <3>3. QED
      BY <1>1, <1>3, <1>8, <3>1, <3>2
  <2>4. QED
    BY <1>1, <2>1, <2>2, <2>3 DEF StashOK
<1>11. TableOK' /\ TableIsLive'
  BY <1>1, <1>2 DEF TableOK, TableIsLive
<1>12. QED
  BY <1>1, <1>2, <1>3, <1>6, <1>7, <1>10, <1>11, RegistryKeeps DEF TypeOK

(* app.remove takes from the table one entry, and from the routes at most  *)
(* the handler of that entry, which no other entry has.                    *)
LEMMA RemoveKeeps ==
  ASSUME IInv, NEW s \in Servers, NEW id, Remove(s, id)
  PROVE  IInv'
<1> DEFINE h == table[id]
<1>1. /\ id \in DOMAIN table
      /\ table' = [i \in DOMAIN table \ {id} |-> table[i]]
      /\ routes' = [routes EXCEPT ![s] = Seqs!RemoveFirst(@, h)]
      /\ UNCHANGED <<nextId, staticIds, uses, listening, js, tcp, requests>>
  BY DEF Remove
<1>2. TypeOK /\ TableOK /\ TableIsLive /\ StashOK
  BY DEF IInv
<1>3. h.id = id
  BY <1>1, <1>2 DEF TableOK
<1> HIDE DEF h
<1>4. /\ routes'[s] \in Seq(Handlers)
      /\ \A j \in 1..Len(routes[s]) : routes[s][j] # h =>
           \E i \in 1..Len(routes'[s]) : routes'[s][i] = routes[s][j]
      /\ \A i \in 1..Len(routes'[s]) : \E j \in 1..Len(routes[s]) : routes'[s][i] = routes[s][j]
  <2>1. routes[s] \in Seq(Handlers) /\ routes'[s] = Seqs!RemoveFirst(routes[s], h)
    BY <1>1, <1>2 DEF TypeOK
  <2>2. QED
    BY <2>1, RemoveFirstIs
<1>5. \A t \in Servers : t # s => routes'[t] = routes[t]
  BY <1>1, <1>2 DEF TypeOK
<1>6. routes' \in [Servers -> Seq(Handlers)]
  BY <1>1, <1>2, <1>4 DEF TypeOK
<1>7. /\ DOMAIN table' = DOMAIN table \ {id}
      /\ \A i \in DOMAIN table' : table'[i] = table[i] /\ table'[i] # h
  BY <1>1, <1>2, <1>3 DEF TableOK
<1>8. TableOK'
  BY <1>2, <1>7 DEF TableOK
<1>9. ASSUME NEW i \in DOMAIN table'
      PROVE  \E t \in Servers : \E k \in 1..Len(routes'[t]) : routes'[t][k] = table'[i]
  <2>1. PICK t \in Servers : \E k \in 1..Len(routes[t]) : routes[t][k] = table'[i]
    BY <1>2, <1>7 DEF TableIsLive
  <2>2. CASE t = s
    BY <1>4, <1>7, <2>1, <2>2
  <2>3. CASE t # s
    BY <1>5, <2>1, <2>3
  <2>4. QED
    BY <2>2, <2>3
<1>10. TableIsLive'
  BY <1>9 DEF TableIsLive
<1>11. StashOK'
  <2>1. \A t \in Servers : \A i \in 1..Len(routes'[t]) :
          \E j \in 1..Len(routes[t]) : routes'[t][i] = routes[t][j]
    <3>1. ASSUME NEW t \in Servers, NEW i \in 1..Len(routes'[t])
          PROVE  \E j \in 1..Len(routes[t]) : routes'[t][i] = routes[t][j]
      <4>1. CASE t = s
        BY <1>4, <4>1
      <4>2. CASE t # s
        BY <1>5, <4>2
      <4>3. QED
        BY <4>1, <4>2
    <3>2. QED
      BY <3>1
  <2>2. QED
    BY <1>1, <1>2, <2>1 DEF StashOK
<1>12. nextId <= nextId'
  BY <1>1, <1>2, RouteIds
<1>13. QED
  BY <1>1, <1>2, <1>6, <1>7, <1>8, <1>10, <1>11, <1>12, UsesStay, RegistryKeeps DEF TypeOK

LEMMA ListenKeeps ==
  ASSUME IInv, NEW s \in Servers, Listen(s)
  PROVE  IInv'
<1>1. /\ UNCHANGED <<nextId, staticIds, table, routes, uses, js, tcp, requests>>
      /\ listening' \subseteq Servers
  BY DEF Listen, IInv, TypeOK
<1>2. nextId <= nextId'
  BY <1>1, RouteIds DEF IInv
<1>3. StashOK' /\ TableOK' /\ TableIsLive'
  BY <1>1 DEF IInv, StashOK, TableOK, TableIsLive
<1>4. QED
  BY <1>1, <1>2, <1>3, UsesStay, RegistryKeeps DEF IInv, TypeOK

-----------------------------------------------------------------------------
(* The queue and the requests.                                             *)

(* Answers, and what neither queues nor takes out.                         *)
LEMMA QuietKeeps ==
  ASSUME IInv, UNCHANGED <<registry, ops, stack, tcp, refs, online, handled>>,
         kept' \subseteq Requests, draining' \in BOOLEAN, misuse' \in BOOLEAN,
         phase' \in [Requests -> PhaseNames],
         \A r \in Requests : phase'[r] = "new" => phase[r] = "new"
  PROVE  IInv'
<1>1. TypeOK'
  BY DEF IInv, TypeOK, registry
<1>2. \A i \in 1..Len(ops) : ops[i].req \in Requests
  BY OpAt DEF IInv, TypeOK
<1>3. \A i \in 1..Len(stack) : stack[i].req \in Requests
  BY OpAt DEF IInv, TypeOK
<1>4. FreshOK'
  BY <1>2, <1>3 DEF IInv, FreshOK
<1>5. TcpOK'
  BY DEF IInv, TcpOK, registry
<1>6. StashOK' /\ TableOK' /\ TableIsLive'
  BY DEF IInv, StashOK, TableOK, TableIsLive, registry
<1>7. OpsOnce' /\ HandledOnce' /\ ChainOK'
  BY DEF IInv, QueueInv, OpsOnce, HandledOnce, ChainOK, Behind, registry
<1>8. RequestIsHeld'
  BY DEF IInv, RequestIsHeld, Holders
<1>9. QED
  BY <1>1, <1>4, <1>5, <1>6, <1>7, <1>8 DEF IInv, QueueInv

LEMMA AnswerKeeps ==
  ASSUME IInv, Send \/ (\E r \in Requests : SendLater(r)) \/ LoopWebServer \/ QueueIsEmpty
               \/ UNCHANGED vars
  PROVE  IInv'
<1>1. TypeOK
  BY DEF IInv
<1>2. ASSUME NEW r \in Requests, Answer(r)
      PROVE  /\ misuse' \in BOOLEAN /\ phase' \in [Requests -> PhaseNames]
             /\ \A q \in Requests : phase'[q] = "new" => phase[q] = "new"
  <2>1. misuse' \in BOOLEAN
    BY <1>2 DEF Answer
  <2>2. phase' = [phase EXCEPT ![r] = "answered"]
    BY <1>2 DEF Answer
  <2>3. QED
    BY <1>1, <2>1, <2>2 DEF TypeOK, PhaseNames
<1>3. CASE Send
  <2>1. stack[Len(stack)].req \in Requests
    BY <1>1, <1>3, PopIs DEF Send, TypeOK, Ops
  <2>2. UNCHANGED <<registry, js, tcp, refs, online, kept, handled>>
    BY <1>3 DEF Send
  <2>3. QED
    BY <1>1, <1>2, <1>3, <2>1, <2>2, QuietKeeps DEF Send, TypeOK, js
<1>4. ASSUME NEW r \in Requests, SendLater(r) PROVE IInv'
  <2>1. UNCHANGED <<registry, js, tcp, refs, online, handled>> /\ kept' \subseteq Requests
    BY <1>1, <1>4 DEF SendLater, TypeOK
  <2>2. QED
    BY <1>1, <1>2, <1>4, <2>1, QuietKeeps DEF SendLater, TypeOK, js
<1>5. CASE LoopWebServer \/ QueueIsEmpty
  <2>1. UNCHANGED <<registry, ops, stack, tcp, requests>> /\ draining' \in BOOLEAN
    BY <1>5 DEF LoopWebServer, QueueIsEmpty
  <2>2. QED
    BY <1>1, <2>1, QuietKeeps DEF TypeOK, requests
<1>6. CASE UNCHANGED vars
  BY <1>1, <1>6, QuietKeeps DEF TypeOK, vars, js, requests
<1>7. QED
  BY <1>3, <1>4, <1>5, <1>6

(* The operation taken out of the queue goes to the stack.                 *)
LEMMA ExecuteKeeps ==
  ASSUME IInv, Execute
  PROVE  IInv'
<1> DEFINE op == ops[Len(ops)]
<1>1. /\ ops # <<>> /\ ops' = SubSeq(ops, 1, Len(ops) - 1)
      /\ stack' = Append(stack, ops[Len(ops)]) /\ draining' = FALSE
      /\ handled' = [handled EXCEPT ![op.req] = Append(@, op.id)]
      /\ misuse' = (misuse \/ refs[op.req] = 0)
      /\ UNCHANGED <<registry, tcp, phase, refs, online, kept>>
  BY DEF Execute, Pop
<1>2. TypeOK /\ FreshOK /\ OpsOnce /\ HandledOnce /\ ChainOK /\ RequestIsHeld
  BY DEF IInv, QueueInv
<1>3. /\ ops \in Seq(Ops) /\ ops' \in Seq(Ops) /\ Len(ops) \in Nat \ {0} /\ Len(ops') = Len(ops) - 1
      /\ op \in Ops /\ \A i \in 1..Len(ops) - 1 : ops'[i] = ops[i]
      /\ ops = Append(ops', op)
  BY <1>1, <1>2, PopIs DEF TypeOK
<1>4. op.req \in Requests /\ op.id \in StashIds
  BY <1>3 DEF Ops
<1> HIDE DEF op
<1>5. /\ stack \in Seq(Ops) /\ stack' \in Seq(Ops) /\ Len(stack') = Len(stack) + 1
      /\ \A i \in 1..Len(stack) : stack'[i] = stack[i]
      /\ stack'[Len(stack) + 1] = op /\ Len(stack) \in Nat /\ stack' = Append(stack, op)
  BY <1>1, <1>2, <1>3, AppendProperties, LenProperties DEF TypeOK, op
<1>6. /\ handled[op.req] \in Seq(StashIds) /\ Len(handled[op.req]) \in Nat
      /\ handled'[op.req] \in Seq(StashIds)
      /\ Len(handled'[op.req]) = Len(handled[op.req]) + 1
      /\ \A k \in 1..Len(handled[op.req]) : handled'[op.req][k] = handled[op.req][k]
      /\ handled'[op.req][Len(handled[op.req]) + 1] = op.id
  <2>1. handled[op.req] \in Seq(StashIds) /\ handled'[op.req] = Append(handled[op.req], op.id)
    BY <1>1, <1>2, <1>4 DEF TypeOK
  <2>2. QED
    BY <1>4, <2>1, AppendProperties, LenProperties
<1>7. /\ handled' \in [Requests -> Seq(StashIds)]
      /\ \A r \in Requests : r # op.req => handled'[r] = handled[r]
  BY <1>1, <1>2, <1>4, <1>6 DEF TypeOK
<1>8. TypeOK'
  <2>1. misuse' \in BOOLEAN
    BY <1>1
  <2>2. QED
    BY <1>1, <1>2, <1>3, <1>5, <1>7, <2>1 DEF TypeOK, registry
<1>9. Len(ops) \in 1..Len(ops) /\ ops[Len(ops)] = op
  BY <1>3 DEF op
<1>10. FreshOK'
  <2>1. phase[op.req] # "new"
    BY <1>2, <1>9 DEF FreshOK
  <2>2. \A r \in Requests : phase[r] = "new" => r # op.req /\ r \notin online /\ handled'[r] = <<>>
    BY <1>2, <1>7, <2>1 DEF FreshOK
  <2>3. \A i \in 1..Len(ops') : phase[ops'[i].req] # "new"
    BY <1>2, <1>3 DEF FreshOK
  <2>4. \A i \in 1..Len(stack') : phase[stack'[i].req] # "new"
    BY <1>2, <1>5, <2>1 DEF FreshOK
  <2>5. QED
    BY <1>1, <2>2, <2>3, <2>4 DEF FreshOK
(* What was handled is what was before, and the operation.                 *)
<1>11. ASSUME NEW r \in Requests, NEW k \in 1..Len(handled'[r])
       PROVE  \/ k \in 1..Len(handled[r]) /\ handled'[r][k] = handled[r][k]
              \/ r = op.req /\ k = Len(handled[op.req]) + 1 /\ handled'[r][k] = op.id
  BY <1>6, <1>7
<1>12. \A k \in 1..Len(handled[op.req]) : handled[op.req][k] # op.id
  BY <1>2, <1>9 DEF OpsOnce
<1>13. HandledOnce'
  <2>1. ASSUME NEW r \in Requests, NEW i \in 1..Len(handled'[r]), NEW j \in 1..Len(handled'[r]),
               handled'[r][i] = handled'[r][j]
        PROVE  i = j
    <3>1. CASE i \in 1..Len(handled[r]) /\ j \in 1..Len(handled[r])
                /\ handled'[r][i] = handled[r][i] /\ handled'[r][j] = handled[r][j]
      BY <1>2, <2>1, <3>1 DEF HandledOnce
    <3>2. ASSUME NEW k \in 1..Len(handled'[r]), NEW l \in 1..Len(handled'[r]),
                 handled'[r][k] = handled'[r][l],
                 r = op.req, k = Len(handled[op.req]) + 1, handled'[r][k] = op.id
          PROVE  k = l
      BY <1>11, <1>12, <3>2
    <3>3. QED
      BY <1>11, <2>1, <3>1, <3>2
  <2>2. QED
    BY <2>1 DEF HandledOnce
<1>14. OpsOnce'
  <2>1. \A i, j \in 1..Len(ops') : ops'[i] = ops'[j] => i = j
    BY <1>2, <1>3 DEF OpsOnce
  <2>2. ASSUME NEW i \in 1..Len(ops'), NEW k \in 1..Len(handled'[ops'[i].req])
        PROVE  handled'[ops'[i].req][k] # ops'[i].id
    <3>1. i \in 1..Len(ops) /\ ops'[i] = ops[i] /\ i # Len(ops)
      BY <1>3
    <3>2. ops[i] \in Ops /\ ops[i].req \in Requests
      BY <1>3, <3>1, OpAt
    <3>3. CASE k \in 1..Len(handled[ops[i].req]) /\ handled'[ops[i].req][k] = handled[ops[i].req][k]
      BY <1>2, <3>1, <3>3 DEF OpsOnce
    <3>4. CASE ops[i].req = op.req /\ handled'[ops[i].req][k] = op.id
      <4>1. ops[i] # op
        BY <1>2, <1>9, <3>1 DEF OpsOnce
      <4>2. ops[i].id # op.id
        BY <1>3, <3>2, <3>4, <4>1 DEF Ops
      <4>3. QED
        BY <3>1, <3>4, <4>2
    <3>5. QED
      BY <1>11, <3>1, <3>2, <3>3, <3>4
  <2>3. QED
    BY <2>1, <2>2 DEF OpsOnce
<1>15. ChainOK'
  <2> SUFFICES ASSUME tcp # Idle PROVE ChainOK'
    BY <1>1 DEF ChainOK
  <2>1. tcp.req \in Requests
    BY DEF IInv, TcpOK
  <2>2. \A i \in 1..Len(ops') : ops'[i].req = tcp.req => Behind(ops'[i].id)
    BY <1>2, <1>3 DEF ChainOK
  <2>3. op.req = tcp.req => Behind(op.id)
    BY <1>2, <1>9 DEF ChainOK
  <2>4. \A k \in 1..Len(handled'[tcp.req]) : Behind(handled'[tcp.req][k])
    BY <1>2, <1>11, <2>1, <2>3 DEF ChainOK
  <2>5. \A id : Behind(id)' <=> Behind(id)
    BY <1>1 DEF Behind, registry
  <2>6. QED
    BY <1>1, <2>2, <2>4, <2>5 DEF ChainOK
<1>16. RequestIsHeld'
  <2>1. ASSUME NEW r \in Requests
        PROVE  refs'[r] = Cardinality(Places(ops', r)) + Cardinality(Places(stack', r))
                          + (IF r \in online' THEN 1 ELSE 0)
    <3>1. refs[r] = Cardinality(Places(ops, r)) + Cardinality(Places(stack, r)) + (IF r \in online THEN 1 ELSE 0)
      BY <1>2, HeldIs
    <3>2. /\ Cardinality(Places(ops', r)) \in Nat
          /\ Cardinality(Places(ops, r)) = Cardinality(Places(ops', r)) + (IF op.req = r THEN 1 ELSE 0)
      BY <1>3, CountPush
    <3>3. /\ Cardinality(Places(stack, r)) \in Nat
          /\ Cardinality(Places(stack', r)) = Cardinality(Places(stack, r)) + (IF op.req = r THEN 1 ELSE 0)
      BY <1>3, <1>5, CountPush
    <3>4. QED
      BY <1>1, <3>1, <3>2, <3>3
  <2>2. QED
    BY <2>1, HeldNext
<1>17. TcpOK' /\ StashOK' /\ TableOK' /\ TableIsLive'
  BY <1>1 DEF IInv, TcpOK, StashOK, TableOK, TableIsLive, registry
<1>18. QED
  BY <1>8, <1>10, <1>13, <1>14, <1>15, <1>16, <1>17 DEF IInv, QueueInv

LEMMA HandlerReturnsKeeps ==
  ASSUME IInv, HandlerReturns
  PROVE  IInv'
<1> DEFINE n == Len(stack)
           op == stack[n]
<1>1. /\ stack # <<>> /\ stack' = SubSeq(stack, 1, n - 1) /\ ops' = ops /\ draining' = TRUE
      /\ refs' = [refs EXCEPT ![op.req] = @ - 1]
      /\ kept' \in {kept, kept \union {op.req}}
      /\ UNCHANGED <<registry, tcp, phase, online, handled, misuse>>
  BY DEF HandlerReturns, Returned, Release
<1>2. TypeOK /\ FreshOK /\ RequestIsHeld
  BY DEF IInv
<1>3. /\ stack \in Seq(Ops) /\ stack' \in Seq(Ops) /\ n \in Nat \ {0} /\ Len(stack') = n - 1
      /\ op \in Ops /\ \A i \in 1..n - 1 : stack'[i] = stack[i]
      /\ stack = Append(stack', op)
  BY <1>1, <1>2, PopIs DEF TypeOK
<1>4. op.req \in Requests
  BY <1>3 DEF Ops
<1> HIDE DEF op
<1>5. ASSUME NEW r \in Requests
      PROVE  /\ Cardinality(Places(ops, r)) \in Nat /\ Cardinality(Places(stack', r)) \in Nat
             /\ refs[r] = Cardinality(Places(ops, r)) + Cardinality(Places(stack', r))
                          + (IF op.req = r THEN 1 ELSE 0) + (IF r \in online THEN 1 ELSE 0)
  <2>1. refs[r] = Cardinality(Places(ops, r)) + Cardinality(Places(stack, r)) + (IF r \in online THEN 1 ELSE 0)
    BY <1>2, HeldIs
  <2>2. /\ Cardinality(Places(stack', r)) \in Nat
        /\ Cardinality(Places(stack, r)) = Cardinality(Places(stack', r)) + (IF op.req = r THEN 1 ELSE 0)
    BY <1>3, CountPush
  <2>3. Cardinality(Places(ops, r)) \in Nat
    BY <1>2, <1>3, CountPush DEF TypeOK
  <2>4. QED
    BY <2>1, <2>2, <2>3
<1>6. \A r \in Requests : refs'[r] = IF r = op.req THEN refs[r] - 1 ELSE refs[r]
  BY <1>1, <1>2, <1>4 DEF TypeOK
<1>7. refs' \in [Requests -> Nat]
  <2>1. refs[op.req] \in Nat
    BY <1>2, <1>4 DEF TypeOK
  <2>2. refs[op.req] > 0
    BY <1>4, <1>5
  <2>3. QED
    BY <1>1, <1>2, <1>4, <2>1, <2>2 DEF TypeOK
<1>8. TypeOK'
  <2>1. kept' \subseteq Requests
    BY <1>1, <1>2, <1>4 DEF TypeOK
  <2>2. QED
    BY <1>1, <1>2, <1>3, <1>7, <2>1 DEF TypeOK, registry
<1>9. FreshOK'
  <2>1. \A i \in 1..Len(stack') : phase[stack'[i].req] # "new"
    BY <1>2, <1>3 DEF FreshOK
  <2>2. QED
    BY <1>1, <1>2, <2>1 DEF FreshOK
<1>10. RequestIsHeld'
  <2>1. ASSUME NEW r \in Requests
        PROVE  refs'[r] = Cardinality(Places(ops', r)) + Cardinality(Places(stack', r))
                          + (IF r \in online' THEN 1 ELSE 0)
    BY <1>1, <1>5, <1>6
  <2>2. QED
    BY <2>1, HeldNext
<1>11. OpsOnce' /\ HandledOnce' /\ ChainOK'
  BY <1>1 DEF IInv, QueueInv, OpsOnce, HandledOnce, ChainOK, Behind, registry
<1>12. TcpOK' /\ StashOK' /\ TableOK' /\ TableIsLive'
  BY <1>1 DEF IInv, TcpOK, StashOK, TableOK, TableIsLive, registry
<1>13. QED
  BY <1>8, <1>9, <1>10, <1>11, <1>12 DEF IInv, QueueInv

LEMMA DisconnectKeeps ==
  ASSUME IInv, NEW r \in Requests, Disconnect(r)
  PROVE  IInv'
<1>1. /\ r \in online /\ online' = online \ {r} /\ refs' = [refs EXCEPT ![r] = @ - 1]
      /\ UNCHANGED <<registry, js, tcp, phase, kept, handled, misuse>>
  BY DEF Disconnect, Release
<1>2. TypeOK /\ FreshOK /\ RequestIsHeld
  BY DEF IInv
<1>3. ASSUME NEW q \in Requests
      PROVE  /\ Cardinality(Places(ops, q)) \in Nat /\ Cardinality(Places(stack, q)) \in Nat
             /\ refs[q] = Cardinality(Places(ops, q)) + Cardinality(Places(stack, q))
                          + (IF q \in online THEN 1 ELSE 0)
  BY <1>2, HeldIs, CountIsNat DEF TypeOK
<1>4. \A q \in Requests : refs'[q] = IF q = r THEN refs[q] - 1 ELSE refs[q]
  BY <1>1, <1>2 DEF TypeOK
<1>5. refs' \in [Requests -> Nat]
  <2>1. refs[r] \in Nat \ {0}
    BY <1>1, <1>2, <1>3 DEF TypeOK
  <2>2. QED
    BY <1>1, <1>2, <2>1 DEF TypeOK
<1>6. TypeOK'
  BY <1>1, <1>2, <1>5 DEF TypeOK, registry, js
<1>7. FreshOK'
  BY <1>1, <1>2 DEF FreshOK, js
<1>8. RequestIsHeld'
  <2>1. ASSUME NEW q \in Requests
        PROVE  refs'[q] = Cardinality(Places(ops', q)) + Cardinality(Places(stack', q))
                          + (IF q \in online' THEN 1 ELSE 0)
    BY <1>1, <1>3, <1>4 DEF js
  <2>2. QED
    BY <2>1, HeldNext
<1>9. OpsOnce' /\ HandledOnce' /\ ChainOK'
  BY <1>1 DEF IInv, QueueInv, OpsOnce, HandledOnce, ChainOK, Behind, registry, js
<1>10. TcpOK' /\ StashOK' /\ TableOK' /\ TableIsLive'
  BY <1>1 DEF IInv, TcpOK, StashOK, TableOK, TableIsLive, registry
<1>11. QED
  BY <1>6, <1>7, <1>8, <1>9, <1>10 DEF IInv, QueueInv

(* A new request starts on its way along the chain.                        *)
LEMMA ReceiveKeeps ==
  ASSUME IInv, NEW r \in Requests, NEW s \in Servers, NEW p \in Paths, Receive(r, s, p)
  PROVE  IInv'
<1>1. /\ tcp = Idle /\ phase[r] = "new"
      /\ tcp' = [req |-> r, server |-> s, path |-> p, next |-> 1]
      /\ phase' = [phase EXCEPT ![r] = "chain"] /\ refs' = [refs EXCEPT ![r] = 1]
      /\ online' = online \union {r}
      /\ UNCHANGED <<registry, js, kept, handled, misuse>>
  BY DEF Receive
<1>2. TypeOK /\ FreshOK /\ RequestIsHeld
  BY DEF IInv
<1>3. /\ phase' \in [Requests -> PhaseNames] /\ phase'[r] = "chain"
      /\ \A q \in Requests : q # r => phase'[q] = phase[q]
      /\ refs' \in [Requests -> Nat] /\ refs'[r] = 1
      /\ \A q \in Requests : q # r => refs'[q] = refs[q]
  BY <1>1, <1>2 DEF TypeOK, PhaseNames
<1>4. TypeOK'
  BY <1>1, <1>2, <1>3 DEF TypeOK, registry, js
<1>5. TcpOK'
  <2>1. Len(uses[s]) \in Nat /\ uses' = uses
    BY <1>1, <1>2, LenProperties DEF TypeOK, registry
  <2>2. tcp' \in [req : Requests, server : Servers, path : Paths, next : Nat \ {0}]
    BY <1>1
  <2>3. tcp'.req = r /\ tcp'.server = s /\ tcp'.next = 1
    BY <1>1
  <2>4. QED
    BY <1>3, <2>1, <2>2, <2>3 DEF TcpOK
<1>6. ops \in Seq(Ops) /\ stack \in Seq(Ops) /\ ops' = ops /\ stack' = stack
  BY <1>1, <1>2 DEF TypeOK, js
<1>7. FreshOK'
  <2>1. \A i \in 1..Len(ops) : phase'[ops[i].req] # "new"
    BY <1>2, <1>3, <1>6, OpAt DEF FreshOK
  <2>2. \A i \in 1..Len(stack) : phase'[stack[i].req] # "new"
    BY <1>2, <1>3, <1>6, OpAt DEF FreshOK
  <2>3. QED
    BY <1>1, <1>2, <1>3, <1>6, <2>1, <2>2 DEF FreshOK
<1>8. Places(ops, r) = {} /\ Places(stack, r) = {} /\ Cardinality({}) = 0 /\ r \notin online
  BY <1>1, <1>2, FS_EmptySet DEF FreshOK, Places
<1>9. RequestIsHeld'
  <2>1. ASSUME NEW q \in Requests
        PROVE  refs'[q] = Cardinality(Places(ops', q)) + Cardinality(Places(stack', q))
                          + (IF q \in online' THEN 1 ELSE 0)
    <3>1. CASE q = r
      <4>1. refs'[q] = 1 /\ q \in online'
        BY <1>1, <1>3, <3>1
      <4>2. Places(ops', q) = {} /\ Places(stack', q) = {}
        BY <1>6, <1>8, <3>1
      <4>3. QED
        BY <1>8, <4>1, <4>2
    <3>2. CASE q # r
      <4>1. refs[q] = Cardinality(Places(ops, q)) + Cardinality(Places(stack, q)) + (IF q \in online THEN 1 ELSE 0)
        BY <1>2, HeldIs
      <4>2. QED
        BY <1>1, <1>3, <1>6, <3>2, <4>1
    <3>3. QED
      BY <3>1, <3>2
  <2>2. QED
    BY <2>1, HeldNext
<1>10. OpsOnce' /\ HandledOnce'
  BY <1>1 DEF IInv, QueueInv, OpsOnce, HandledOnce, js
<1>11. ChainOK'
  <2>1. \A i \in 1..Len(ops) : ops[i].req # r
    BY <1>1, <1>2 DEF FreshOK
  <2>2. handled[r] = <<>>
    BY <1>1, <1>2 DEF FreshOK
  <2>3. QED
    BY <1>1, <1>6, <2>1, <2>2 DEF ChainOK
<1>12. StashOK' /\ TableOK' /\ TableIsLive'
  BY <1>1 DEF IInv, StashOK, TableOK, TableIsLive, registry
<1>13. QED
  BY <1>4, <1>5, <1>7, <1>9, <1>10, <1>11, <1>12 DEF IInv, QueueInv

(* The request on its way is queued for a handler it was not queued for.   *)
LEMMA PushIs ==
  ASSUME IInv, tcp # Idle, NEW id \in StashIds, ~Behind(id), Push(tcp.req, id),
         UNCHANGED <<registry, stack, draining, online, kept, handled, misuse>>,
         phase' \in [Requests -> PhaseNames],
         \A q \in Requests : phase'[q] = "new" => phase[q] = "new",
         tcp'.req \in Requests \union {Null}
  PROVE  /\ TypeOK' /\ FreshOK' /\ OpsOnce' /\ HandledOnce' /\ RequestIsHeld'
         /\ StashOK' /\ TableOK' /\ TableIsLive'
         /\ Len(ops) \in Nat /\ Len(ops') = Len(ops) + 1
         /\ \A i \in 1..Len(ops) : ops'[i] = ops[i]
         /\ ops'[Len(ops) + 1] = [req |-> tcp.req, id |-> id]
<1> DEFINE r == tcp.req
           o == [req |-> r, id |-> id]
<1>1. TypeOK /\ FreshOK /\ OpsOnce /\ HandledOnce /\ RequestIsHeld /\ ChainOK
  BY DEF IInv, QueueInv
<1>2. r \in Requests /\ phase[r] # "new"
  BY DEF IInv, TcpOK
<1>3. ops' = Append(ops, o) /\ refs' = [refs EXCEPT ![r] = @ + 1]
  BY DEF Push
<1>4. o \in Ops /\ o.req = r /\ o.id = id
  BY <1>2 DEF Ops
<1> HIDE DEF o, r
<1>5. /\ ops \in Seq(Ops) /\ ops' \in Seq(Ops) /\ Len(ops) \in Nat /\ Len(ops') = Len(ops) + 1
      /\ \A i \in 1..Len(ops) : ops'[i] = ops[i]
      /\ ops'[Len(ops) + 1] = o
  BY <1>1, <1>3, <1>4, AppendProperties, LenProperties DEF TypeOK
<1>6. \A q \in Requests : refs'[q] = IF q = r THEN refs[q] + 1 ELSE refs[q]
  BY <1>1, <1>2, <1>3 DEF TypeOK
<1>7. refs' \in [Requests -> Nat]
  BY <1>1, <1>2, <1>3 DEF TypeOK
<1>8. TypeOK'
  BY <1>1, <1>5, <1>7 DEF TypeOK, registry
<1>9. FreshOK'
  <2>1. \A i \in 1..Len(ops') : phase'[ops'[i].req] # "new"
    <3>1. \A i \in 1..Len(ops) : phase'[ops[i].req] # "new"
      BY <1>1, <1>5, OpAt DEF FreshOK
    <3>2. QED
      BY <1>2, <1>4, <1>5, <3>1
  <2>2. \A i \in 1..Len(stack) : phase'[stack[i].req] # "new"
    BY <1>1, OpAt DEF FreshOK, TypeOK
  <2>3. QED
    BY <1>1, <2>1, <2>2 DEF FreshOK
(* An operation is an old one or the one pushed.                           *)
<1>10. ASSUME NEW i \in 1..Len(ops')
       PROVE  (i \in 1..Len(ops) /\ ops'[i] = ops[i]) \/ (i = Len(ops) + 1 /\ ops'[i] = o)
  BY <1>5
<1>11. /\ \A i \in 1..Len(ops) : ops[i] # o
       /\ \A k \in 1..Len(handled[r]) : handled[r][k] # id
  BY <1>1, <1>4 DEF ChainOK, r
<1>12. OpsOnce'
  <2>1. ASSUME NEW i \in 1..Len(ops'), NEW j \in 1..Len(ops'), ops'[i] = ops'[j]
        PROVE  i = j
    BY <1>1, <1>10, <1>11, <2>1 DEF OpsOnce
  <2>2. ASSUME NEW i \in 1..Len(ops'), NEW k \in 1..Len(handled[ops'[i].req])
        PROVE  handled[ops'[i].req][k] # ops'[i].id
    <3>1. CASE i \in 1..Len(ops) /\ ops'[i] = ops[i]
      BY <1>1, <3>1 DEF OpsOnce
    <3>2. CASE ops'[i] = o
      BY <1>4, <1>11, <3>2
    <3>3. QED
      BY <1>10, <3>1, <3>2
  <2>3. QED
    BY <2>1, <2>2 DEF OpsOnce
<1>13. HandledOnce' /\ StashOK' /\ TableOK' /\ TableIsLive'
  BY DEF IInv, QueueInv, HandledOnce, StashOK, TableOK, TableIsLive, registry
<1>14. RequestIsHeld'
  <2>1. ASSUME NEW q \in Requests
        PROVE  refs'[q] = Cardinality(Places(ops', q)) + Cardinality(Places(stack', q))
                          + (IF q \in online' THEN 1 ELSE 0)
    <3>1. refs[q] = Cardinality(Places(ops, q)) + Cardinality(Places(stack, q)) + (IF q \in online THEN 1 ELSE 0)
      BY <1>1, HeldIs
    <3>2. /\ Cardinality(Places(ops, q)) \in Nat
          /\ Cardinality(Places(ops', q)) = Cardinality(Places(ops, q)) + (IF r = q THEN 1 ELSE 0)
      BY <1>3, <1>4, <1>5, CountPush
    <3>3. Cardinality(Places(stack, q)) \in Nat
      BY <1>1, CountIsNat DEF TypeOK
    <3>4. QED
      BY <1>6, <3>1, <3>2, <3>3
  <2>2. QED
    BY <2>1, HeldNext
<1>15. QED
  BY <1>5, <1>8, <1>9, <1>12, <1>13, <1>14 DEF o, r

LEMMA MiddlewareKeeps ==
  ASSUME IInv, Middleware
  PROVE  IInv'
<1> DEFINE id == uses[tcp.server][tcp.next]
           Passed(x) == \E l \in 1..tcp'.next - 1 : uses'[tcp'.server][l] = x
<1>1. /\ tcp # Idle /\ tcp.next <= Len(uses[tcp.server]) /\ Push(tcp.req, id)
      /\ tcp' = [tcp EXCEPT !.next = @ + 1]
      /\ UNCHANGED <<registry, stack, draining, phase, online, kept, handled, misuse>>
  BY DEF Middleware, InChain
<1>2. TypeOK /\ StashOK /\ ChainOK
  BY DEF IInv, QueueInv
<1>3. /\ tcp \in [req : Requests, server : Servers, path : Paths, next : Nat \ {0}]
      /\ phase[tcp.req] # "new"
  BY <1>1 DEF IInv, TcpOK
<1>4. /\ tcp.server \in Servers /\ tcp.next \in Nat \ {0} /\ tcp.req \in Requests
      /\ tcp' \in [req : Requests, server : Servers, path : Paths, next : Nat \ {0}]
      /\ tcp'.server = tcp.server /\ tcp'.req = tcp.req /\ tcp'.next = tcp.next + 1
  BY <1>1, <1>3
<1>5. uses[tcp.server] \in Seq(StashIds) /\ Len(uses[tcp.server]) \in Nat
  BY <1>2, <1>4, LenProperties DEF TypeOK
<1>6. tcp.next \in 1..Len(uses[tcp.server])
  BY <1>1, <1>4, <1>5
<1>7. id \in StashIds
  BY <1>5, <1>6, ElementOfSeq
<1>8. ~Behind(id)
  <2>1. ASSUME NEW k \in 1..tcp.next - 1, uses[tcp.server][k] = id PROVE FALSE
    <3>1. k \in 1..Len(uses[tcp.server]) /\ k # tcp.next
      BY <1>4, <1>5, <1>6
    <3>2. QED
      BY <1>2, <1>4, <1>6, <2>1, <3>1 DEF StashOK
  <2>2. QED
    BY <2>1 DEF Behind
<1> HIDE DEF id
<1>9. /\ TypeOK' /\ FreshOK' /\ OpsOnce' /\ HandledOnce' /\ RequestIsHeld'
      /\ StashOK' /\ TableOK' /\ TableIsLive'
      /\ Len(ops) \in Nat /\ Len(ops') = Len(ops) + 1
      /\ \A i \in 1..Len(ops) : ops'[i] = ops[i]
      /\ ops'[Len(ops) + 1] = [req |-> tcp.req, id |-> id]
  BY <1>1, <1>2, <1>4, <1>7, <1>8, PushIs DEF TypeOK
<1>10. TcpOK'
  BY <1>1, <1>3, <1>4, <1>5 DEF TcpOK, registry
<1>11. Passed(id) /\ \A i : Behind(i) => Passed(i)
  <2>1. uses' = uses /\ tcp'.next - 1 = tcp.next
    BY <1>1, <1>4 DEF registry
  <2>2. ASSUME NEW i, NEW k \in 1..tcp.next, uses[tcp.server][k] = i
        PROVE  Passed(i)
    BY <1>4, <2>1, <2>2
  <2>3. Passed(id)
    BY <1>4, <2>1 DEF id
  <2>4. ASSUME NEW i, Behind(i) PROVE Passed(i)
    <3>1. PICK k \in 1..tcp.next - 1 : uses[tcp.server][k] = i
      BY <2>4 DEF Behind
    <3>2. k \in 1..tcp.next
      BY <1>4
    <3>3. QED
      BY <2>2, <3>1, <3>2
  <2>5. QED
    BY <2>3, <2>4
<1> HIDE DEF Passed
<1>12. ChainOK'
  <2>1. \A i \in 1..Len(ops) : ops[i].req = tcp.req => Passed(ops[i].id)
    BY <1>1, <1>2, <1>11 DEF ChainOK
  <2>2. \A i \in 1..Len(ops') : ops'[i].req = tcp.req => Passed(ops'[i].id)
    <3>1. ASSUME NEW i \in 1..Len(ops'), ops'[i].req = tcp.req PROVE Passed(ops'[i].id)
      <4>1. CASE i \in 1..Len(ops)
        BY <1>9, <2>1, <3>1, <4>1
      <4>2. CASE i = Len(ops) + 1
        <5>1. ops'[i].id = id
          BY <1>9, <4>2
        <5>2. QED
          BY <1>11, <5>1
      <4>3. QED
        BY <1>9, <4>1, <4>2
    <3>2. QED
      BY <3>1
  <2>3. \A k \in 1..Len(handled[tcp.req]) : Passed(handled[tcp.req][k])
    BY <1>1, <1>2, <1>11 DEF ChainOK
  <2>4. QED
    BY <1>1, <1>4, <2>2, <2>3 DEF ChainOK, Behind, Passed
<1>13. QED
  BY <1>9, <1>10, <1>12 DEF IInv, QueueInv

LEMMA EndOfChainKeeps ==
  ASSUME IInv, EndOfChain
  PROVE  IInv'
<1> DEFINE s == tcp.server
           found == {i \in DOMAIN routes[s] : Matches(s, tcp.path, i)}
<1>1. UNCHANGED <<registry, stack, draining, online, kept, handled, misuse>>
  BY DEF EndOfChain
<1>2. tcp # Idle /\ tcp' = Idle
  BY DEF EndOfChain
<1>3. TypeOK /\ StashOK
  BY DEF IInv
<1>4. /\ s \in Servers /\ tcp.next \in Nat \ {0} /\ tcp.req \in Requests
      /\ tcp.next - 1 <= Len(uses[s])
  BY <1>2 DEF IInv, TcpOK
<1>5. Len(uses[s]) \in Nat /\ DOMAIN routes[s] = 1..Len(routes[s]) /\ routes[s] \in Seq(Handlers)
  BY <1>3, <1>4, LenProperties DEF TypeOK
<1>6. TcpOK' /\ ChainOK' /\ tcp'.req \in Requests \union {Null}
  BY <1>2 DEF TcpOK, ChainOK, Idle
<1>7. ASSUME NEW i \in found, routes[s][i].kind = "js", Push(tcp.req, routes[s][i].id),
             phase' = [phase EXCEPT ![tcp.req] = IF @ = "chain" THEN "paused" ELSE @]
      PROVE  IInv'
  <2>1. i \in 1..Len(routes[s]) /\ routes[s][i] \in Handlers
    BY <1>5, ElementOfSeq
  <2>2. routes[s][i].id \in StashIds
    BY <1>7, <2>1 DEF Handlers
  <2>3. ~Behind(routes[s][i].id)
    <3>1. \A k \in 1..tcp.next - 1 : k \in 1..Len(uses[s])
      BY <1>4, <1>5
    <3>2. \A k \in 1..tcp.next - 1 : uses[s][k] # routes[s][i].id
      BY <1>3, <1>4, <1>7, <2>1, <3>1 DEF StashOK
    <3>3. QED
      BY <3>2 DEF Behind
  <2>4. /\ phase' \in [Requests -> PhaseNames]
        /\ \A q \in Requests : phase'[q] = "new" => phase[q] = "new"
    BY <1>3, <1>4, <1>7 DEF TypeOK, PhaseNames
  <2>5. QED
    BY <1>1, <1>2, <1>6, <1>7, <2>2, <2>3, <2>4, PushIs DEF IInv, QueueInv
<1>8. ASSUME phase' = [phase EXCEPT ![tcp.req] = "answered"], UNCHANGED <<ops, refs>>
      PROVE  IInv'
  <2>1. /\ phase' \in [Requests -> PhaseNames]
        /\ \A q \in Requests : phase'[q] = "new" => phase[q] = "new"
    BY <1>3, <1>4, <1>8 DEF TypeOK, PhaseNames
  <2>2. TypeOK'
    BY <1>1, <1>3, <1>6, <1>8, <2>1 DEF TypeOK, registry
  <2>3. FreshOK'
    <3>1. \A i \in 1..Len(ops) : ops[i].req \in Requests
      BY <1>3, OpAt DEF TypeOK
    <3>2. \A i \in 1..Len(stack) : stack[i].req \in Requests
      BY <1>3, OpAt DEF TypeOK
    <3>3. QED
      BY <1>1, <1>8, <2>1, <3>1, <3>2 DEF IInv, FreshOK
  <2>4. OpsOnce' /\ HandledOnce' /\ RequestIsHeld' /\ StashOK' /\ TableOK' /\ TableIsLive'
    BY <1>1, <1>8 DEF IInv, QueueInv, OpsOnce, HandledOnce, RequestIsHeld, Holders, StashOK, TableOK, TableIsLive, registry
  <2>5. QED
    BY <1>6, <2>2, <2>3, <2>4 DEF IInv, QueueInv
<1>9. QED
  BY <1>7, <1>8 DEF EndOfChain

LEMMA NextIInv == IInv /\ [Next]_vars => IInv'
<1> SUFFICES ASSUME IInv, [Next]_vars PROVE IInv'
  OBVIOUS
<1>1. ASSUME NEW s \in Servers, NEW p \in Paths, Route(s, p) \/ ServeStatic(s, p) PROVE IInv'
  BY <1>1, RouteKeeps, ServeStaticKeeps
<1>2. ASSUME NEW s \in Servers, Use(s) \/ Listen(s) PROVE IInv'
  BY <1>2, UseKeeps, ListenKeeps
<1>3. ASSUME NEW s \in Servers, NEW id \in 1..(MaxStash + MaxStatic), Remove(s, id) PROVE IInv'
  BY <1>3, RemoveKeeps
<1>4. CASE Send \/ (\E r \in Requests : SendLater(r)) \/ LoopWebServer \/ QueueIsEmpty
           \/ UNCHANGED vars
  BY <1>4, AnswerKeeps
<1>5. CASE Execute
  BY <1>5, ExecuteKeeps
<1>6. CASE HandlerReturns
  BY <1>6, HandlerReturnsKeeps
<1>7. ASSUME NEW r \in Requests, NEW s \in Servers, NEW p \in Paths, Receive(r, s, p) PROVE IInv'
  BY <1>7, ReceiveKeeps
<1>8. CASE Middleware
  BY <1>8, MiddlewareKeeps
<1>9. CASE EndOfChain
  BY <1>9, EndOfChainKeeps
<1>10. ASSUME NEW r \in Requests, Disconnect(r) PROVE IInv'
  BY <1>10, DisconnectKeeps
<1>11. QED
  BY <1>1, <1>2, <1>3, <1>4, <1>5, <1>6, <1>7, <1>8, <1>9, <1>10 DEF Next, Program, Queue, AsyncTCP

LEMMA Inductive == Spec => []IInv
BY InitIInv, NextIInv, PTL DEF Spec

-----------------------------------------------------------------------------
(* The theorems.                                                           *)

(* The server, the queue and the stash keep their types; that a count of   *)
(* owners never drops below zero is part of it.                            *)
THEOREM WebTypeCorrect == Spec => []TypeOK
<1>1. IInv => TypeOK
  BY DEF IInv
<1>2. QED
  BY <1>1, Inductive, PTL

(* No handler gets a request twice, however handlers wait within handlers  *)
(* and the queue is run within itself.                                     *)
THEOREM GivenOnce == Spec => []HandledOnce
<1>1. IInv => HandledOnce
  BY DEF IInv, QueueInv
<1>2. QED
  BY <1>1, Inductive, PTL

(* The owners of a request are its connection and the operations, queued   *)
(* or under way, that captured it: it is freed with the last of them.      *)
THEOREM RequestLives == Spec => []RequestIsHeld
<1>1. IInv => RequestIsHeld
  BY DEF IInv
<1>2. QED
  BY <1>1, Inductive, PTL

(* The table app.remove goes by never has a handler the library has freed. *)
THEOREM RemoveFindsLive == Spec => []TableIsLive
<1>1. IInv => TableIsLive
  BY DEF IInv
<1>2. QED
  BY <1>1, Inductive, PTL
=============================================================================
