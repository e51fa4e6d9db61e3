------------------------ MODULE MessageQueueAccounts ------------------------
(***************************************************************************)
(* What is true of the messages in every instance of MessageQueue: a live  *)
(* port's count is exact, and its messages are received in the order they  *)
(* were sent, whatever queues they are moved through; and no sender is     *)
(* left waiting for room that there is.                                    *)
(***************************************************************************)
EXTENDS MessageQueueProofs

-----------------------------------------------------------------------------
(* The account of a port, in terms of a state s of the queues; rest is what *)
(* has been taken off a queue and is still to be put on another.            *)
Home(s, p) == IF s.ip_pset[p] = Null THEN p ELSE s.ip_pset[p]
Queued(s, q, p) == ForPort(s.messages[q], p)

Taking(s, PC, CL, t, p) ==
    \/ PC[t] = "rcv_got" /\ CL[t].obj = p
    \/ PC[t] = "rcv_wait" /\ s.ith[t].state = "success" /\ s.ith[t].kmsg.port = p
Hand(s, PC, CL, p) == {t \in Threads : Taking(s, PC, CL, t, p)}

\* What is in l is to be numbered n, n + 1 and so on.
Numbered(l, n) == \A i \in 1 .. Len(l) : l[i].due = (n + i - 1) % SeqnoMod

Account(s, PC, CL, c, p, rest) ==
    LET l == Queued(s, Home(s, p), p)
    IN  /\ IsFiniteSet(Hand(s, PC, CL, p))
        /\ c = Len(l) + Len(rest) + Cardinality(Hand(s, PC, CL, p))
        /\ \A q \in Queues \ {Home(s, p)} : Queued(s, q, p) = <<>>
        /\ Numbered(l, s.seqno[p]) /\ Numbered(rest, s.seqno[p] + Len(l))

\* The accounts of the ports in A, of which cnt is the count.
Accounts(s, PC, CL, cnt, A) ==
    \A p \in Ports \cap A : Account(s, PC, CL, cnt[p], p, <<>>)

-----------------------------------------------------------------------------
(* Lemmas about lists of messages.                                          *)
LEMMA ForPortIs ==
    ASSUME NEW ms \in Seq(Message), NEW p \in Ports
    PROVE  /\ ForPort(ms, p) \in Seq(Message) /\ Len(ForPort(ms, p)) \in Nat
           /\ \A m : Listed(ForPort(ms, p), m) <=> m \in MessageFor(p) /\ Listed(ms, m)
           /\ \A i \in 1 .. Len(ForPort(ms, p)) : ForPort(ms, p)[i].port = p
<1>1. /\ ForPort(ms, p) \in Seq(Message)
      /\ \A m : Listed(ForPort(ms, p), m) <=> m \in MessageFor(p) /\ Listed(ms, m)
  BY SublistMembers DEF ForPort
<1>2. Len(ForPort(ms, p)) \in Nat
  BY <1>1
<1>3. \A i \in 1 .. Len(ForPort(ms, p)) : ForPort(ms, p)[i] \in MessageFor(p)
  BY <1>1 DEF Listed
<1> QED
  BY <1>1, <1>2, <1>3 DEF MessageFor

LEMMA ForPortEmpty == ASSUME NEW p PROVE ForPort(<<>>, p) = <<>> /\ Len(<<>>) = 0
<1>1. Len(<<>>) = 0
  OBVIOUS
<1> QED
  BY <1>1, SublistEmpty DEF ForPort

LEMMA ForPortAppend ==
    ASSUME NEW ms \in Seq(Message), NEW m \in Message, NEW p
    PROVE  ForPort(Append(ms, m), p) =
              IF m.port = p THEN Append(ForPort(ms, p), m) ELSE ForPort(ms, p)
<1>1. m \in MessageFor(p) <=> m.port = p
  BY DEF MessageFor
<1> QED
  BY <1>1, SublistAppend DEF ForPort

LEMMA ForPortTail ==
    ASSUME NEW ms \in Seq(Message), ms # <<>>, NEW p
    PROVE  /\ Head(ms).port = p => /\ ForPort(ms, p) # <<>>
                                   /\ ForPort(Tail(ms), p) = Tail(ForPort(ms, p))
           /\ Head(ms).port # p => ForPort(Tail(ms), p) = ForPort(ms, p)
<1>1. Head(ms) \in Message
  OBVIOUS
<1>2. Head(ms) \in MessageFor(p) <=> Head(ms).port = p
  BY <1>1 DEF MessageFor
<1> QED
  BY <1>2, SublistTail DEF ForPort

\* What ipc_mqueue_move leaves on the source queue.
LEMMA ForPortKept ==
    ASSUME NEW ms \in Seq(Message), NEW p, NEW r
    PROVE  ForPort(Kept(ms, p), r) =
              IF r = p THEN <<>> ELSE ForPort(ms, r)
<1> DEFINE S == Message \ MessageFor(p)
           T == MessageFor(r)
<1>1. Sublist(Kept(ms, p), T) = Sublist(ms, S \cap T)
  BY SublistTwice DEF Kept
<1>2. CASE r = p
  <2>1. S \cap T = {}
    BY <1>2
  <2>2. Sublist(ms, {}) \in Seq(Message) /\ \A x : ~Listed(Sublist(ms, {}), x)
    BY SublistMembers
  <2>3. Sublist(ms, {}) = <<>>
    BY <2>2, NotListed
  <2> QED
    BY <1>1, <1>2, <2>1, <2>3 DEF ForPort
<1>3. CASE r # p
  <2>1. S \cap T = T
    BY <1>3 DEF MessageFor
  <2> QED
    BY <1>1, <1>3, <2>1 DEF ForPort
<1> QED
  BY <1>2, <1>3

\* Numbers.
LEMMA ModulusIs == SeqnoMod \in Nat /\ SeqnoMod > 0
<1>1. SeqnoMod \in Nat /\ 1 < SeqnoMod
  BY BoundsAssumption DEF BoundsAssumption
<1> QED
  BY <1>1, SMT

LEMMA NumberedEmpty == ASSUME NEW n PROVE Numbered(<<>>, n)
<1>1. \A i \in 1 .. Len(<<>>) : FALSE
  OBVIOUS
<1> QED
  BY <1>1 DEF Numbered

LEMMA NumberedAppend ==
    ASSUME NEW l \in Seq(Message), NEW m \in Message, NEW n \in Int, Numbered(l, n),
           m.due = (n + Len(l)) % SeqnoMod
    PROVE  Numbered(Append(l, m), n)
<1> DEFINE k == Append(l, m)
<1>1. Len(k) = Len(l) + 1 /\ Len(l) \in Nat /\ k[Len(l) + 1] = m /\ \A i \in 1 .. Len(l) : k[i] = l[i]
  OBVIOUS
<1> HIDE DEF k
<1>2. ASSUME NEW i \in 1 .. Len(k) PROVE k[i].due = (n + i - 1) % SeqnoMod
  <2>1. CASE i = Len(l) + 1
    <3>1. n + i - 1 = n + Len(l)
      BY <2>1, <1>1, SMT
    <3> QED
      BY <2>1, <3>1, <1>1
  <2>2. CASE i # Len(l) + 1
    <3>1. i \in 1 .. Len(l)
      BY <2>2, <1>1, SMT
    <3> QED
      BY <3>1, <1>1 DEF Numbered
  <2> QED
    BY <2>1, <2>2
<1> QED
  BY <1>2 DEF Numbered, k

LEMMA NumberedTail ==
    ASSUME NEW l \in Seq(Message), l # <<>>, NEW n \in Int, Numbered(l, n)
    PROVE  /\ Numbered(Tail(l), n + 1) /\ Head(l).due = n % SeqnoMod
           /\ Tail(l) \in Seq(Message) /\ Len(Tail(l)) = Len(l) - 1
           /\ Head(l) \in Message /\ Len(l) \in Nat /\ Len(l) >= 1 /\ Len(Tail(l)) \in Nat
<1> DEFINE k == Tail(l)
<1>1. /\ k \in Seq(Message) /\ Len(k) = Len(l) - 1 /\ Head(l) \in Message /\ Head(l) = l[1]
      /\ Len(l) \in Nat /\ Len(l) >= 1
      /\ \A i \in 1 .. Len(k) : k[i] = l[i + 1]
  BY SMT
<1> HIDE DEF k
<1>2. ASSUME NEW i \in 1 .. Len(k) PROVE k[i].due = (n + 1 + i - 1) % SeqnoMod
  <2>1. i + 1 \in 1 .. Len(l) /\ n + 1 + i - 1 = n + (i + 1) - 1
    BY <1>1, SMT
  <2> QED
    BY <2>1, <1>1 DEF Numbered
<1>3. l[1].due = n % SeqnoMod
  <2>1. 1 \in 1 .. Len(l) /\ n + 1 - 1 = n
    BY <1>1, SMT
  <2> QED
    BY <2>1 DEF Numbered
<1> QED
  BY <1>1, <1>2, <1>3, SMT DEF Numbered, k

LEMMA NumberedMod ==
    ASSUME NEW l \in Seq(Message), NEW n \in Int
    PROVE  Numbered(l, n) <=> Numbered(l, n % SeqnoMod)
<1>1. ASSUME NEW i \in 1 .. Len(l)
      PROVE  (n + i - 1) % SeqnoMod = ((n % SeqnoMod) + i - 1) % SeqnoMod
  <2> DEFINE k == i - 1
             r == n % SeqnoMod
  <2>1. k \in Int /\ (n + k) = n + i - 1
    BY SMT
  <2>2. r \in Int
    BY ModulusIs, SMT
  <2>3. r + k = r + i - 1
    <3> HIDE DEF r
    <3> QED
      BY <2>2, SMT
  <2>4. (r + k) % SeqnoMod = (n + k) % SeqnoMod
    <3> HIDE DEF k
    <3> QED
      BY <2>1, ModulusIs, ModAdd DEF r
  <2> HIDE DEF r, k
  <2>5. (n + i - 1) % SeqnoMod = (r + i - 1) % SeqnoMod
    BY <2>1, <2>3, <2>4
  <2> QED
    BY <2>5 DEF r
<1> QED
  BY <1>1 DEF Numbered
-----------------------------------------------------------------------------
(* Lemmas about the queue routines.                                         *)

\* The queue a port uses is one.
LEMMA HomeIs == ASSUME NEW s \in State, NEW p \in Ports PROVE Home(s, p) \in Queues
<1>1. s.ip_pset[p] \in Psets \cup {Null}
  BY Fields DEF StateTypes
<1> QED
  BY <1>1 DEF Home, Queues

\* The lists and numbers of an account have their types.
LEMMA AccountTypes ==
    ASSUME NEW s \in State, NEW p \in Ports, NEW q \in Queues
    PROVE  /\ Queued(s, q, p) \in Seq(Message) /\ Len(Queued(s, q, p)) \in Nat
           /\ s.messages[q] \in Seq(Message)
           /\ s.seqno[p] \in 0 .. SeqnoMod - 1 /\ s.seqno[p] \in Int
<1>1. StateTypes(s)
  BY Fields
<1>3. s.messages[q] \in Seq(Message)
  BY <1>1 DEF StateTypes
<1>4. Queued(s, q, p) \in Seq(Message) /\ Len(Queued(s, q, p)) \in Nat
  BY <1>3, ForPortIs DEF Queued
<1>5. s.seqno[p] \in 0 .. SeqnoMod - 1 /\ s.seqno[p] \in Int
  <2>1. s.seqno[p] \in 0 .. SeqnoMod - 1
    BY <1>1 DEF StateTypes
  <2> QED
    BY <2>1, SMT
<1> QED
  BY <1>3, <1>4, <1>5

\* An account, by its parts.
LEMMA AccountIs ==
    ASSUME NEW s, NEW PC, NEW CL, NEW c, NEW p, NEW l, NEW rest,
           IsFiniteSet(Hand(s, PC, CL, p)),
           c = Len(l) + Len(rest) + Cardinality(Hand(s, PC, CL, p)),
           Numbered(l, s.seqno[p]), Numbered(rest, s.seqno[p] + Len(l)),
           Queued(s, Home(s, p), p) = l,
           \A q \in Queues \ {Home(s, p)} : Queued(s, q, p) = <<>>
    PROVE  Account(s, PC, CL, c, p, rest)
  BY DEF Account

\* An account that nothing it tells of has touched.
LEMMA AccountSame ==
    ASSUME NEW s, NEW o, NEW PC, NEW CL, NEW PC2, NEW CL2, NEW c, NEW p, NEW rest,
           Account(s, PC, CL, c, p, rest),
           o.ip_pset[p] = s.ip_pset[p], o.seqno[p] = s.seqno[p],
           \A q \in Queues : Queued(o, q, p) = Queued(s, q, p),
           Home(s, p) \in Queues,
           \A t \in Threads : Taking(o, PC2, CL2, t, p) <=> Taking(s, PC, CL, t, p)
    PROVE  Account(o, PC2, CL2, c, p, rest)
<1>1. Home(o, p) = Home(s, p)
  BY DEF Home
<1>2. Hand(o, PC2, CL2, p) = Hand(s, PC, CL, p)
  BY DEF Hand
<1> QED
  BY <1>1, <1>2 DEF Account

\* The sequence numbers after an offer.
LEMMA OfferSeqno ==
    ASSUME NEW s \in State, NEW q \in Queues, NEW m \in Message
    PROVE  LET o == Offer(s, q, m)
           IN  /\ \A p \in Ports \ {m.port} : o.seqno[p] = s.seqno[p]
               /\ o.seqno[m.port] = IF Taken(s, q, m) THEN Next1(s.seqno[m.port])
                                    ELSE s.seqno[m.port]
<1> DEFINE N == [s.seqno EXCEPT ![m.port] = IF Taken(s, q, m) THEN Next1(@) ELSE @]
           o == Offer(s, q, m)
<1>1. o.seqno = N
  BY Zenon DEF Offer, Taken, State
<1>2. m.port \in Ports /\ s.seqno \in [Ports -> 0 .. SeqnoMod - 1]
  BY Fields DEF StateTypes, Message
<1>3. /\ \A p \in Ports \ {m.port} : N[p] = s.seqno[p]
      /\ N[m.port] = IF Taken(s, q, m) THEN Next1(s.seqno[m.port]) ELSE s.seqno[m.port]
  BY <1>2
<1> HIDE DEF N, o
<1> QED
  BY <1>1, <1>3 DEF o

\* Who takes messages after an offer: one more, if a receiver takes it.
LEMMA OfferHand ==
    ASSUME NEW PC, NEW CL, NEW ACT, NEW S, NEW s, Good(s, PC, CL, ACT, S),
           NEW q \in Queues, NEW m \in Message
    PROVE  LET o == Offer(s, q, m)
               x == s.receivers[q][Taker(s, q, m)]
           IN  /\ \A p \in Ports : p # m.port \/ ~Taken(s, q, m) =>
                     \A t \in Threads : Taking(o, PC, CL, t, p) <=> Taking(s, PC, CL, t, p)
               /\ Taken(s, q, m) =>
                     /\ x \in Threads /\ ~Taking(s, PC, CL, x, m.port)
                     /\ Hand(o, PC, CL, m.port) = Hand(s, PC, CL, m.port) \cup {x}
<1> DEFINE o == Offer(s, q, m)
           x == s.receivers[q][Taker(s, q, m)]
           taken == Taken(s, q, m)
           small == Small(s, q, m)
<1>0. s \in State /\ StateTypes(s) /\ Receiving(s, PC, CL)
  BY Fields DEF Good
<1>1. \A t \in Threads : o.ith[t] =
          IF t \in small THEN [s.ith[t] EXCEPT !.state = "too_large", !.msize = m.size]
          ELSE IF taken /\ t = x THEN [s.ith[t] EXCEPT !.state = "success", !.kmsg = m]
          ELSE s.ith[t]
  <2>1. Offered(s, o, q, m, Rest(s, q, m), small, taken, x)
    BY <1>0, OfferIs
  <2> HIDE DEF o, x, taken, small
  <2> QED
    BY <2>1 DEF Offered
<1>2. /\ \A t \in small : Listed(s.receivers[q], t)
      /\ taken => Listed(s.receivers[q], x) /\ x \notin small
  <2>1. Once(s.receivers[q])
    BY <1>0 DEF Receiving
  <2> QED
    BY <1>0, <2>1, OfferLists
<1>3. \A t : Listed(s.receivers[q], t) => t \in Threads
  BY <1>0, NotListed DEF StateTypes
<1>4. \A t : Listed(s.receivers[q], t) => PC[t] = "rcv_wait" /\ s.ith[t].state = "in_progress"
  BY <1>0, <1>3 DEF Receiving
<1>5. \A t \in Threads : s.ith[t] \in Ith
  BY <1>0 DEF StateTypes
<1> HIDE DEF o, x, taken, small
<1>6. ASSUME NEW t \in Threads, NEW p \in Ports
      PROVE  Taking(o, PC, CL, t, p) <=> Taking(s, PC, CL, t, p) \/ (taken /\ t = x /\ p = m.port)
  <2>1. CASE t \in small
    <3>1. PC[t] = "rcv_wait" /\ s.ith[t].state = "in_progress" /\ ~(taken /\ t = x)
      BY <1>2, <1>4, <2>1
    <3>2. o.ith[t].state = "too_large"
      BY <1>1, <1>5, <2>1 DEF Ith
    <3> QED
      BY <3>1, <3>2 DEF Taking
  <2>2. CASE t \notin small /\ taken /\ t = x
    <3>1. PC[t] = "rcv_wait" /\ s.ith[t].state = "in_progress"
      BY <1>2, <1>4, <2>2
    <3>2. o.ith[t].state = "success" /\ o.ith[t].kmsg = m
      <4>1. o.ith[t] = [s.ith[t] EXCEPT !.state = "success", !.kmsg = m]
        BY <1>1, <2>2
      <4> QED
        BY <1>5, <4>1 DEF Ith
    <3> QED
      BY <2>2, <3>1, <3>2 DEF Taking
  <2>3. CASE t \notin small /\ ~(taken /\ t = x)
    <3>1. o.ith[t] = s.ith[t]
      BY <1>1, <2>3
    <3> QED
      BY <2>3, <3>1 DEF Taking
  <2> QED
    BY <2>1, <2>2, <2>3
<1>7. ASSUME taken
      PROVE  /\ x \in Threads /\ ~Taking(s, PC, CL, x, m.port)
             /\ Hand(o, PC, CL, m.port) = Hand(s, PC, CL, m.port) \cup {x}
  <2>1. x \in Threads /\ PC[x] = "rcv_wait" /\ s.ith[x].state = "in_progress"
    BY <1>2, <1>3, <1>4, <1>7
  <2>2. ~Taking(s, PC, CL, x, m.port)
    BY <2>1 DEF Taking
  <2>3. m.port \in Ports
    BY DEF Message
  <2>4. Hand(o, PC, CL, m.port) = Hand(s, PC, CL, m.port) \cup {x}
    BY <1>6, <1>7, <2>1, <2>3 DEF Hand
  <2> QED
    BY <2>1, <2>2, <2>4
<1> QED
  BY <1>6, <1>7 DEF o, x, taken

\* A message that was to be put on the port's queue is, or a receiver has it:
\* the port's account holds, without it in the rest.
LEMMA OfferAccount ==
    ASSUME NEW PC, NEW CL, NEW ACT, NEW S, NEW s, Good(s, PC, CL, ACT, S),
           NEW p \in Ports, NEW rest \in Seq(Message), rest # <<>>, Head(rest).port = p,
           NEW c, Account(s, PC, CL, c, p, rest)
    PROVE  Account(Offer(s, Home(s, p), Head(rest)), PC, CL, c, p, Tail(rest))
<1> DEFINE q == Home(s, p)
           m == Head(rest)
           o == Offer(s, q, m)
           x == s.receivers[q][Taker(s, q, m)]
           taken == Taken(s, q, m)
           l == Queued(s, q, p)
           n == s.seqno[p]
           h == Hand(s, PC, CL, p)
<1>0. s \in State /\ StateTypes(s) /\ Consistent(s, ACT)
  BY Fields DEF Good
<1>1. /\ q \in Queues /\ l \in Seq(Message) /\ Len(l) \in Nat /\ s.messages[q] \in Seq(Message)
      /\ n \in 0 .. SeqnoMod - 1 /\ n \in Int
  <2>1. q \in Queues
    BY <1>0, HomeIs
  <2> HIDE DEF q
  <2> QED
    BY <1>0, <2>1, AccountTypes
<1>2. /\ IsFiniteSet(h) /\ c = Len(l) + Len(rest) + Cardinality(h)
      /\ \A y \in Queues \ {q} : Queued(s, y, p) = <<>>
      /\ Numbered(l, n) /\ Numbered(rest, n + Len(l))
  BY DEF Account
<1>3. n + Len(l) \in Int
  BY <1>1
<1>4. /\ Numbered(Tail(rest), n + Len(l) + 1) /\ m.due = (n + Len(l)) % SeqnoMod
      /\ Tail(rest) \in Seq(Message) /\ Len(Tail(rest)) = Len(rest) - 1 /\ m \in Message
      /\ Len(rest) \in Nat /\ Len(Tail(rest)) \in Nat
  BY <1>2, <1>3, NumberedTail
<1>5. m.port = p
  OBVIOUS
<1> HIDE DEF m, l, n, h
<1>6. /\ o.ip_pset = s.ip_pset
      /\ o.messages = IF taken THEN s.messages ELSE [s.messages EXCEPT ![q] = Append(@, m)]
  <2>1. Offered(s, o, q, m, Rest(s, q, m), Small(s, q, m), taken, x)
    BY <1>0, <1>1, <1>4, OfferIs
  <2> HIDE DEF o, q, taken, x
  <2> QED
    BY <2>1 DEF Offered
<1>7. o.seqno[p] = IF taken THEN Next1(n) ELSE n
  BY <1>0, <1>1, <1>4, <1>5, OfferSeqno DEF n
<1>8. /\ ~taken => \A t \in Threads : Taking(o, PC, CL, t, p) <=> Taking(s, PC, CL, t, p)
      /\ taken => x \notin h /\ Hand(o, PC, CL, p) = h \cup {x}
  BY <1>1, <1>4, <1>5, OfferHand DEF h, Hand
<1>9. taken => l = <<>>
  <2>1. ASSUME taken PROVE s.messages[q] = <<>>
    <3>1. Len(s.receivers[q]) >= 1
      <4>1. Taker(s, q, m) \in 1 .. Len(s.receivers[q]) + 1 /\ Len(s.receivers[q]) \in Nat
        <5>1. s.receivers[q] \in Seq(Threads)
          BY <1>0, <1>1 DEF StateTypes
        <5> QED
          BY <5>1, <1>0, <1>1, TakerIs
      <4>2. Taker(s, q, m) <= Len(s.receivers[q])
        BY <2>1 DEF Taken
      <4> QED
        BY <4>1, <4>2, SMT
    <3>2. s.receivers[q] # <<>>
      BY <3>1, ForPortEmpty
    <3> QED
      BY <1>0, <1>1, <3>2 DEF Consistent
  <2> QED
    BY <2>1, ForPortEmpty DEF l, Queued
<1> HIDE DEF q, o, x, taken
<1>10. Home(o, p) = q
  BY <1>6 DEF Home, q
<1>11. ASSUME NEW y \in Queues \ {q} PROVE Queued(o, y, p) = <<>>
  <2>1. o.messages[y] = s.messages[y]
    BY <1>0, <1>6, <1>11 DEF StateTypes
  <2> QED
    BY <1>2, <2>1 DEF Queued
<1>12. ASSUME taken PROVE Account(o, PC, CL, c, p, Tail(rest))
  <2>1. Queued(o, q, p) = <<>>
    BY <1>6, <1>9, <1>12 DEF Queued, l
  <2>2. IsFiniteSet(h \cup {x}) /\ Cardinality(h \cup {x}) = Cardinality(h) + 1 /\ Cardinality(h) \in Nat
    BY <1>2, <1>8, <1>12, FS_AddElement, FS_CardinalityType
  <2>3. Len(<<>>) = 0 /\ Len(l) = 0
    BY <1>9, <1>12, ForPortEmpty
  <2>4. c = 0 + Len(Tail(rest)) + Cardinality(h \cup {x})
    BY <1>2, <1>4, <2>2, <2>3, SMT
  <2>5. o.seqno[p] = (n + 1) % SeqnoMod
    BY <1>7, <1>12 DEF Next1
  <2>6. Numbered(Tail(rest), (n + 1) % SeqnoMod)
    <3>1. n + Len(l) + 1 = n + 1 /\ n + 1 \in Int
      BY <1>1, <2>3, SMT
    <3>2. Numbered(Tail(rest), n + 1)
      BY <1>4, <3>1
    <3> QED
      BY <1>4, <3>1, <3>2, NumberedMod
  <2>7. o.seqno[p] + 0 = o.seqno[p]
    <3>1. Next1(n) \in 0 .. SeqnoMod - 1
      BY <1>1, Next1Is
    <3> QED
      BY <1>7, <1>12, <3>1, SMT
  <2>8. /\ IsFiniteSet(Hand(o, PC, CL, p))
        /\ c = Len(<<>>) + Len(Tail(rest)) + Cardinality(Hand(o, PC, CL, p))
        /\ Numbered(<<>>, o.seqno[p]) /\ Numbered(Tail(rest), o.seqno[p] + Len(<<>>))
    BY <1>8, <1>12, <2>2, <2>3, <2>4, <2>5, <2>6, <2>7, NumberedEmpty
  <2>10. /\ Queued(o, Home(o, p), p) = <<>>
         /\ \A y \in Queues \ {Home(o, p)} : Queued(o, y, p) = <<>>
    BY <1>10, <1>11, <2>1
  <2> QED
    BY <2>8, <2>10, AccountIs
<1>13. ASSUME ~taken PROVE Account(o, PC, CL, c, p, Tail(rest))
  <2>1. Queued(o, q, p) = Append(l, m)
    <3>1. o.messages[q] = Append(s.messages[q], m)
      BY <1>0, <1>1, <1>6, <1>13 DEF StateTypes
    <3> QED
      BY <1>1, <1>4, <1>5, <3>1, ForPortAppend DEF Queued, l
  <2>2. Len(Append(l, m)) = Len(l) + 1
    BY <1>1
  <2>3. Hand(o, PC, CL, p) = h
    BY <1>8, <1>13 DEF Hand, h
  <2>4. Cardinality(h) \in Nat
    BY <1>2, FS_CardinalityType
  <2>5. c = Len(Append(l, m)) + Len(Tail(rest)) + Cardinality(h)
    BY <1>1, <1>2, <1>4, <2>2, <2>4, SMT
  <2>6. o.seqno[p] = n
    BY <1>7, <1>13
  <2>7. Numbered(Append(l, m), n)
    BY <1>1, <1>2, <1>4, NumberedAppend
  <2>8. Numbered(Tail(rest), n + Len(Append(l, m)))
    <3>1. n + Len(Append(l, m)) = n + Len(l) + 1
      BY <1>1, <2>2, SMT
    <3> QED
      BY <1>4, <3>1
  <2>9. /\ IsFiniteSet(Hand(o, PC, CL, p))
        /\ c = Len(Append(l, m)) + Len(Tail(rest)) + Cardinality(Hand(o, PC, CL, p))
        /\ Numbered(Append(l, m), o.seqno[p]) /\ Numbered(Tail(rest), o.seqno[p] + Len(Append(l, m)))
    BY <1>2, <2>3, <2>5, <2>6, <2>7, <2>8
  <2>10. /\ Queued(o, Home(o, p), p) = Append(l, m)
         /\ \A y \in Queues \ {Home(o, p)} : Queued(o, y, p) = <<>>
    BY <1>10, <1>11, <2>1
  <2> QED
    BY <2>9, <2>10, AccountIs
<1> QED
  BY <1>12, <1>13 DEF o, q, m

\* The accounts of other ports hold as they did.
LEMMA OfferOthers ==
    ASSUME NEW PC, NEW CL, NEW ACT, NEW S, NEW s, Good(s, PC, CL, ACT, S),
           NEW q \in Queues, NEW m \in Message, NEW p \in Ports, p # m.port,
           NEW c, NEW rest, Account(s, PC, CL, c, p, rest)
    PROVE  Account(Offer(s, q, m), PC, CL, c, p, rest)
<1> DEFINE o == Offer(s, q, m)
<1>0. s \in State /\ StateTypes(s)
  BY Fields DEF Good
<1>1. /\ o.ip_pset = s.ip_pset
      /\ o.messages = IF Taken(s, q, m) THEN s.messages ELSE [s.messages EXCEPT ![q] = Append(@, m)]
  <2>1. Offered(s, o, q, m, Rest(s, q, m), Small(s, q, m), Taken(s, q, m),
                s.receivers[q][Taker(s, q, m)])
    BY <1>0, OfferIs
  <2> HIDE DEF o
  <2> QED
    BY <2>1 DEF Offered
<1>2. o.seqno[p] = s.seqno[p]
  BY <1>0, OfferSeqno
<1>3. \A t \in Threads : Taking(o, PC, CL, t, p) <=> Taking(s, PC, CL, t, p)
  BY OfferHand
<1> HIDE DEF o
<1>4. ASSUME NEW y \in Queues PROVE Queued(o, y, p) = Queued(s, y, p)
  <2>1. o.messages[y] = s.messages[y] \/ o.messages[y] = Append(s.messages[y], m)
    BY <1>0, <1>1 DEF StateTypes
  <2>2. s.messages[y] \in Seq(Message)
    BY <1>0 DEF StateTypes
  <2>3. ForPort(Append(s.messages[y], m), p) = ForPort(s.messages[y], p)
    BY <2>2, ForPortAppend
  <2> QED
    BY <2>1, <2>3 DEF Queued
<1>5. Home(s, p) \in Queues
  BY <1>0, HomeIs
<1> QED
  BY <1>1, <1>2, <1>3, <1>4, <1>5, AccountSame DEF o
\* A message moved, and its receiver started: as it was offered.
LEMMA MoveOneSame ==
    ASSUME NEW PC, NEW CL, NEW s \in State, NEW q \in Queues, NEW m \in Message,
           NEW c, NEW p \in Ports, NEW rest, Account(Offer(s, q, m), PC, CL, c, p, rest)
    PROVE  Account(MoveOne(s, q, m), PC, CL, c, p, rest)
<1> DEFINE o == Offer(s, q, m)
           r == MoveOne(s, q, m)
<1>1. o \in State
  BY OfferIs DEF Offered
<1>2. r.ip_pset = o.ip_pset /\ r.messages = o.messages /\ r.ith = o.ith
  BY MoveOneType DEF SameQueues
<1>3. r.seqno = o.seqno
  <2>1. r = [o EXCEPT !.wait = thread_go(@, ToSet(s.receivers[q]) \ ToSet(o.receivers[q]))]
    BY DEF MoveOne
  <2> HIDE DEF o, r
  <2> QED
    BY <1>1, <2>1, Zenon DEF State
<1> HIDE DEF o, r
<1>4. Home(o, p) \in Queues
  BY <1>1, HomeIs
<1>5. /\ \A y \in Queues : Queued(r, y, p) = Queued(o, y, p)
      /\ \A t \in Threads : Taking(r, PC, CL, t, p) <=> Taking(o, PC, CL, t, p)
  BY <1>2 DEF Queued, Taking
<1> QED
  BY <1>2, <1>3, <1>4, <1>5, AccountSame DEF o, r

\* The messages of p moved to the queue it uses.
LEMMA OfferAllAccounts ==
    ASSUME NEW PC, NEW CL, NEW ACT, NEW S, NEW s, Good(s, PC, CL, ACT, S),
           NEW p \in Ports, NEW ms \in Seq(Message),
           \A i \in 1 .. Len(ms) : ms[i].port = p /\ MayGo(s, Home(s, p), ms[i], S),
           NEW c, Account(s, PC, CL, c, p, ms),
           NEW cnt, NEW A, p \notin A, Accounts(s, PC, CL, cnt, A)
    PROVE  /\ Account(OfferAll(s, Home(s, p), ms), PC, CL, c, p, <<>>)
           /\ Accounts(OfferAll(s, Home(s, p), ms), PC, CL, cnt, A)
<1> DEFINE q == Home(s, p)
           N == Len(ms)
           Left(i) == SubSeq(ms, i + 1, N)
           E(i) == {r \in State : /\ Good(r, PC, CL, ACT, S) /\ r.ip_pset = s.ip_pset
                                  /\ Account(r, PC, CL, c, p, Left(i))
                                  /\ Accounts(r, PC, CL, cnt, A)}
           D == [i \in 0 .. N |-> E(i)]
<1>0. s \in State /\ q \in Queues
  BY HomeIs DEF Good
<1>1. /\ N \in Nat /\ Left(0) = ms /\ Left(N) = <<>>
      /\ \A i \in 1 .. N : /\ Left(i - 1) \in Seq(Message) /\ Left(i - 1) # <<>>
                           /\ Head(Left(i - 1)) = ms[i] /\ Tail(Left(i - 1)) = Left(i)
                           /\ ms[i] \in Message
  <2>1. N \in Nat /\ Left(0) = ms /\ Left(N) = <<>>
    BY SMT
  <2>2. ASSUME NEW i \in 1 .. N
        PROVE  /\ Left(i - 1) \in Seq(Message) /\ Left(i - 1) # <<>>
               /\ Head(Left(i - 1)) = ms[i] /\ ms[i] \in Message
    <3>1. (i - 1) + 1 = i /\ i \in 1 .. N + 1
      BY <2>1, SMT
    <3> DEFINE k == SubSeq(ms, i, N)
    <3>2. k \in Seq(Message)
      BY <3>1, ListedRest
    <3>3. Len(k) >= 1 /\ k[1] = ms[i]
      BY <2>1, <3>1, SMT
    <3> HIDE DEF k
    <3>4. k # <<>> /\ Head(k) = ms[i]
      BY <3>2, <3>3, SMT
    <3>5. Left(i - 1) = k
      BY <3>1 DEF k
    <3>6. ms[i] \in Message
      OBVIOUS
    <3> HIDE DEF Left
    <3> QED
      BY <3>2, <3>4, <3>5, <3>6
  <2>3. ASSUME NEW i \in 1 .. N PROVE Tail(Left(i - 1)) = Left(i)
    BY <2>1, SMT
  <2> QED
    BY <2>1, <2>2, <2>3
<1> HIDE DEF q, Left
<1>2. ASSUME NEW i \in 1 .. N, NEW r \in E(i - 1) PROVE MoveOne(r, q, ms[i]) \in E(i)
  <2> DEFINE o == MoveOne(r, q, ms[i])
             u == Offer(r, q, ms[i])
  <2>1. /\ r \in State /\ Good(r, PC, CL, ACT, S) /\ r.ip_pset = s.ip_pset
        /\ Account(r, PC, CL, c, p, Left(i - 1)) /\ Accounts(r, PC, CL, cnt, A)
    OBVIOUS
  <2>2. Home(r, p) = q
    BY <2>1 DEF Home, q
  <2>3. MayGo(r, q, ms[i], S)
    BY <2>1 DEF MayGo, q
  <2>4. Good(o, PC, CL, ACT, S) /\ o.ip_pset = s.ip_pset
    BY <1>0, <1>1, <2>1, <2>3, MoveOneGood
  <2>5. Account(u, PC, CL, c, p, Left(i))
    <3>1. /\ Left(i - 1) \in Seq(Message) /\ Left(i - 1) # <<>>
          /\ Head(Left(i - 1)) = ms[i] /\ Tail(Left(i - 1)) = Left(i)
      BY <1>1
    <3>2. Head(Left(i - 1)).port = p
      BY <3>1
    <3>3. Account(Offer(r, Home(r, p), Head(Left(i - 1))), PC, CL, c, p, Tail(Left(i - 1)))
      BY <2>1, <3>1, <3>2, OfferAccount
    <3> QED
      BY <2>2, <3>1, <3>3
  <2>6. ASSUME NEW x \in Ports \cap A PROVE Account(u, PC, CL, cnt[x], x, <<>>)
    <3>1. x # ms[i].port /\ Account(r, PC, CL, cnt[x], x, <<>>)
      BY <2>1 DEF Accounts
    <3> QED
      BY <1>0, <1>1, <2>1, <3>1, OfferOthers
  <2> HIDE DEF o, u
  <2>7. Account(o, PC, CL, c, p, Left(i)) /\ Accounts(o, PC, CL, cnt, A)
    BY <1>0, <1>1, <2>1, <2>5, <2>6, MoveOneSame DEF o, u, Accounts
  <2>8. o \in State
    BY <2>4 DEF Good
  <2>9. o \in E(i)
    BY <2>4, <2>7, <2>8
  <2> QED
    BY <2>9 DEF o
<1>3. s \in E(0)
  BY <1>0, <1>1
<1>4. OfferAll(s, q, ms) \in D[N]
  <2> HIDE DEF E
  <2>1. \A i \in 0 .. N : D[i] = E(i)
    OBVIOUS
  <2>2. \A i \in 0 .. N : E(i) \subseteq State
    BY DEF E
  <2>3. 0 \in 0 .. N /\ \A i \in 1 .. N : i \in 0 .. N /\ i - 1 \in 0 .. N
    BY <1>1, SMT
  <2>4. s \in D[0] /\ \A i \in 0 .. N : D[i] \subseteq State
    BY <1>3, <2>1, <2>2, <2>3
  <2>5. \A i \in 1 .. N : \A r \in D[i - 1] : MoveOne(r, q, ms[i]) \in D[i]
    BY <1>2, <2>1, <2>3
  <2> HIDE DEF D
  <2> QED
    BY <1>0, <2>4, <2>5, OfferAllEnds
<1>5. OfferAll(s, q, ms) \in E(N)
  <2> HIDE DEF E
  <2>1. N \in 0 .. N
    BY <1>1, SMT
  <2> QED
    BY <1>4, <2>1
<1>6. Account(OfferAll(s, q, ms), PC, CL, c, p, Left(N)) /\ Accounts(OfferAll(s, q, ms), PC, CL, cnt, A)
  BY <1>5
<1> QED
  BY <1>1, <1>6 DEF q

\* p uses dest now, and its messages are in source, all of them.
Misplaced(s, PC, CL, c, p, source) ==
    /\ IsFiniteSet(Hand(s, PC, CL, p))
    /\ c = Len(Queued(s, source, p)) + Cardinality(Hand(s, PC, CL, p))
    /\ \A q \in Queues \ {source} : Queued(s, q, p) = <<>>
    /\ Numbered(Queued(s, source, p), s.seqno[p])

LEMMA MoveAccounts ==
    ASSUME NEW PC, NEW CL, NEW ACT, NEW S, NEW s, Good(s, PC, CL, ACT, S),
           NEW dest \in Queues, NEW source \in Queues, dest # source, NEW p \in Ports,
           dest \in Ports => dest = p /\ (p \in S \/ s.ip_pset[p] = Null),
           Home(s, p) = dest, NEW c, Misplaced(s, PC, CL, c, p, source),
           NEW cnt, NEW A, p \notin A, Accounts(s, PC, CL, cnt, A)
    PROVE  /\ Account(ipc_mqueue_move(s, dest, source, p), PC, CL, c, p, <<>>)
           /\ Accounts(ipc_mqueue_move(s, dest, source, p), PC, CL, cnt, A)
<1> DEFINE kept == Kept(s.messages[source], p)
           r == TakenOff(s, source, p)
           ms == ForPort(s.messages[source], p)
           o == ipc_mqueue_move(s, dest, source, p)
<1>0. s \in State
  BY DEF Good
<1>1. s.messages[source] \in Seq(Message)
  BY <1>0, Fields DEF StateTypes
<1>2. /\ ms \in Seq(Message) /\ Len(ms) \in Nat /\ ms = Queued(s, source, p)
      /\ \A i \in 1 .. Len(ms) : ms[i].port = p
  BY <1>1, ForPortIs DEF Queued
<1>3. o = OfferAll(r, dest, ms)
  BY DEF ipc_mqueue_move, TakenOff
<1>4. /\ Good(r, PC, CL, ACT, S) /\ r.ip_pset = s.ip_pset
      /\ r.ith = s.ith /\ r.seqno = s.seqno
      /\ r.messages[source] = kept
      /\ \A q \in Queues \ {source} : r.messages[q] = s.messages[q]
  BY TakenOffGood
<1> HIDE DEF r, ms, o, kept
<1>5. \A x \in Ports, t \in Threads : Taking(r, PC, CL, t, x) <=> Taking(s, PC, CL, t, x)
  BY <1>4 DEF Taking
<1>6. ASSUME NEW x \in Ports, NEW y \in Queues
      PROVE  Queued(r, y, x) = IF y = source /\ x = p THEN <<>> ELSE Queued(s, y, x)
  <2>1. CASE y = source
    <3>1. ForPort(kept, x) = IF x = p THEN <<>> ELSE ForPort(s.messages[source], x)
      BY <1>1, ForPortKept DEF kept
    <3> QED
      BY <1>4, <2>1, <3>1 DEF Queued
  <2>2. CASE y # source
    BY <1>4, <2>2 DEF Queued
  <2> QED
    BY <2>1, <2>2
<1>7. Home(r, p) = dest
  BY <1>4 DEF Home
<1>8. Account(r, PC, CL, c, p, ms)
  <2>1. /\ IsFiniteSet(Hand(s, PC, CL, p))
        /\ c = Len(ms) + Cardinality(Hand(s, PC, CL, p))
        /\ \A q \in Queues \ {source} : Queued(s, q, p) = <<>>
        /\ Numbered(ms, s.seqno[p])
    BY <1>2 DEF Misplaced
  <2>2. Hand(r, PC, CL, p) = Hand(s, PC, CL, p)
    BY <1>5 DEF Hand
  <2>3. \A q \in Queues : Queued(r, q, p) = <<>>
    BY <1>6, <2>1
  <2>4. Len(<<>>) = 0 /\ Numbered(<<>>, r.seqno[p])
    BY ForPortEmpty, NumberedEmpty
  <2>5. Cardinality(Hand(s, PC, CL, p)) \in Nat
    BY <2>1, FS_CardinalityType
  <2>6. c = Len(<<>>) + Len(ms) + Cardinality(Hand(r, PC, CL, p))
    BY <1>2, <2>1, <2>2, <2>4, <2>5, SMT
  <2>7. r.seqno[p] + Len(<<>>) = s.seqno[p]
    <3>1. s.seqno[p] \in Int
      BY <1>0, AccountTypes
    <3> QED
      BY <1>4, <2>4, <3>1, SMT
  <2>8. IsFiniteSet(Hand(r, PC, CL, p)) /\ Numbered(ms, r.seqno[p] + Len(<<>>))
    BY <2>1, <2>2, <2>7
  <2>9. /\ Queued(r, Home(r, p), p) = <<>>
        /\ \A q \in Queues \ {Home(r, p)} : Queued(r, q, p) = <<>>
    BY <1>7, <2>3
  <2> QED
    BY <2>4, <2>6, <2>8, <2>9, AccountIs
<1>9. Accounts(r, PC, CL, cnt, A)
  <2> SUFFICES ASSUME NEW x \in Ports \cap A PROVE Account(r, PC, CL, cnt[x], x, <<>>)
    BY DEF Accounts
  <2>1. x # p /\ Account(s, PC, CL, cnt[x], x, <<>>) /\ Home(s, x) \in Queues
    BY <1>0, HomeIs DEF Accounts
  <2>2. \A y \in Queues : Queued(r, y, x) = Queued(s, y, x)
    BY <1>6, <2>1
  <2> QED
    BY <1>4, <1>5, <2>1, <2>2, AccountSame
<1>10. \A i \in 1 .. Len(ms) : ms[i].port = p /\ MayGo(r, dest, ms[i], S)
  BY <1>2, <1>4 DEF MayGo
<1> QED
  BY <1>2, <1>3, <1>4, <1>7, <1>8, <1>9, <1>10, OfferAllAccounts DEF o
\* The accounts of the ports in A, by that of one of them and the others'.
LEMMA AccountsOf ==
    ASSUME NEW s, NEW PC, NEW CL, NEW cnt, NEW A, NEW p \in Ports \cap A
    PROVE  Accounts(s, PC, CL, cnt, A) <=>
              Account(s, PC, CL, cnt[p], p, <<>>) /\ Accounts(s, PC, CL, cnt, A \ {p})
  BY DEF Accounts

\* Accounts that nothing they tell of has touched.
LEMMA AccountsSame ==
    ASSUME NEW s \in State, NEW o, NEW PC, NEW CL, NEW PC2, NEW CL2, NEW cnt, NEW A,
           Accounts(s, PC, CL, cnt, A),
           \A p \in Ports \cap A :
              /\ o.ip_pset[p] = s.ip_pset[p] /\ o.seqno[p] = s.seqno[p]
              /\ \A q \in Queues : Queued(o, q, p) = Queued(s, q, p)
              /\ \A t \in Threads : Taking(o, PC2, CL2, t, p) <=> Taking(s, PC, CL, t, p)
    PROVE  Accounts(o, PC2, CL2, cnt, A)
<1> SUFFICES ASSUME NEW p \in Ports \cap A PROVE Account(o, PC2, CL2, cnt[p], p, <<>>)
  BY DEF Accounts
<1>1. Home(s, p) \in Queues /\ Account(s, PC, CL, cnt[p], p, <<>>)
  BY HomeIs DEF Accounts
<1> QED
  BY <1>1, AccountSame

\* Receivers told that their queue has changed or died.
LEMMA ChangedAccounts ==
    ASSUME NEW PC, NEW CL, NEW ACT, NEW S, NEW s, Good(s, PC, CL, ACT, S),
           NEW q \in Queues, NEW mr \in {"died", "changed"},
           NEW cnt, NEW A, Accounts(s, PC, CL, cnt, A)
    PROVE  /\ Accounts(ipc_mqueue_changed(s, q, mr), PC, CL, cnt, A)
           /\ ipc_mqueue_changed(s, q, mr).seqno = s.seqno
<1> DEFINE rs == ToSet(s.receivers[q])
           R == [s.receivers EXCEPT ![q] = <<>>]
           W == thread_go(s.wait, rs)
           I == [t \in Threads |-> IF t \in rs THEN [s.ith[t] EXCEPT !.state = mr] ELSE s.ith[t]]
           o == ipc_mqueue_changed(s, q, mr)
<1>0. s \in State /\ StateTypes(s) /\ Receiving(s, PC, CL)
  BY Fields DEF Good
<1>1. o = [s EXCEPT !.receivers = R, !.wait = W, !.ith = I]
  BY DEF ipc_mqueue_changed
<1> HIDE DEF o, R, W
<1>2. o.ip_pset = s.ip_pset /\ o.messages = s.messages /\ o.seqno = s.seqno /\ o.ith = I
  <2> HIDE DEF I
  <2> QED
    BY <1>0, <1>1, Zenon DEF State
<1>3. \A t : t \in rs <=> Listed(s.receivers[q], t)
  BY <1>0, ToSetIs DEF StateTypes
<1> HIDE DEF rs
<1>4. ASSUME NEW p \in Ports, NEW t \in Threads
      PROVE  Taking(o, PC, CL, t, p) <=> Taking(s, PC, CL, t, p)
  <2>1. CASE t \in rs
    <3>1. PC[t] = "rcv_wait" /\ s.ith[t].state = "in_progress"
      BY <1>0, <1>3, <2>1 DEF Receiving
    <3>2. o.ith[t].state = mr
      <4>1. o.ith[t] = [s.ith[t] EXCEPT !.state = mr] /\ s.ith[t] \in Ith
        BY <1>0, <1>2, <2>1 DEF StateTypes
      <4> QED
        BY <4>1 DEF Ith
    <3> QED
      BY <3>1, <3>2 DEF Taking
  <2>2. CASE t \notin rs
    <3>1. o.ith[t] = s.ith[t]
      BY <1>2, <2>2
    <3> QED
      BY <3>1 DEF Taking
  <2> QED
    BY <2>1, <2>2
<1> HIDE DEF I
<1>5. \A p, y : Queued(o, y, p) = Queued(s, y, p)
  BY <1>2 DEF Queued
<1>6. Accounts(o, PC, CL, cnt, A)
  BY <1>0, <1>2, <1>4, <1>5, AccountsSame
<1> QED
  BY <1>2, <1>6 DEF o

\* A port's set changes: its messages are where it does not look.
LEMMA PsetAccounts ==
    ASSUME NEW PC, NEW CL, NEW s \in State, NEW p \in Ports, NEW v \in Psets \cup {Null},
           NEW cnt, NEW A, p \in A, Accounts(s, PC, CL, cnt, A)
    PROVE  LET r == [s EXCEPT !.ip_pset[p] = v]
           IN  /\ Misplaced(r, PC, CL, cnt[p], p, Home(s, p))
               /\ Accounts(r, PC, CL, cnt, A \ {p})
               /\ Home(r, p) = IF v = Null THEN p ELSE v
<1> DEFINE r == [s EXCEPT !.ip_pset[p] = v]
<1>1. /\ r \in State /\ r.ip_pset = [s.ip_pset EXCEPT ![p] = v]
      /\ r.messages = s.messages /\ r.ith = s.ith /\ r.seqno = s.seqno
  BY PsetType
<1>2. s.ip_pset \in [Ports -> Psets \cup {Null}]
  BY Fields DEF StateTypes
<1> HIDE DEF r
<1>3. Account(s, PC, CL, cnt[p], p, <<>>) /\ Accounts(s, PC, CL, cnt, A \ {p})
  BY AccountsOf
<1>4. \A x \in Ports, t \in Threads : Taking(r, PC, CL, t, x) <=> Taking(s, PC, CL, t, x)
  BY <1>1 DEF Taking
<1>5. \A x, y : Queued(r, y, x) = Queued(s, y, x)
  BY <1>1 DEF Queued
<1>6. Accounts(r, PC, CL, cnt, A \ {p})
  BY <1>1, <1>2, <1>3, <1>4, <1>5, AccountsSame
<1>7. Misplaced(r, PC, CL, cnt[p], p, Home(s, p))
  <2> DEFINE l == Queued(s, Home(s, p), p)
             h == Hand(s, PC, CL, p)
  <2>1. /\ IsFiniteSet(h) /\ cnt[p] = Len(l) + Len(<<>>) + Cardinality(h)
        /\ \A q \in Queues \ {Home(s, p)} : Queued(s, q, p) = <<>>
        /\ Numbered(l, s.seqno[p])
    BY <1>3 DEF Account
  <2>2. Hand(r, PC, CL, p) = h
    BY <1>4 DEF Hand
  <2>3. Home(s, p) \in Queues
    BY HomeIs
  <2>4. Len(l) \in Nat
    BY <2>3, AccountTypes
  <2> HIDE DEF l, h
  <2>5. cnt[p] = Len(l) + Cardinality(h)
    <3>1. Cardinality(h) \in Nat /\ Len(<<>>) = 0
      BY <2>1, FS_CardinalityType, ForPortEmpty
    <3> QED
      BY <2>1, <2>4, <3>1, SMT
  <2>6. Queued(r, Home(s, p), p) = l /\ \A q \in Queues \ {Home(s, p)} : Queued(r, q, p) = <<>>
    BY <1>5, <2>1 DEF l
  <2> QED
    BY <1>1, <2>1, <2>2, <2>5, <2>6 DEF Misplaced
<1>8. Home(r, p) = IF v = Null THEN p ELSE v
  BY <1>1, <1>2 DEF Home
<1> QED
  BY <1>6, <1>7, <1>8 DEF r

\* A port joins a set: ipc_pset_add.
LEMMA AddAccounts ==
    ASSUME NEW PC, NEW CL, NEW ACT, NEW s, Good(s, PC, CL, ACT, {}),
           NEW p \in Ports, NEW set \in Psets, s.ip_pset[p] = Null,
           NEW cnt, NEW A, p \in A, Accounts(s, PC, CL, cnt, A)
    PROVE  Accounts(ipc_pset_add(s, set, p), PC, CL, cnt, A)
<1> DEFINE r == [s EXCEPT !.ip_pset[p] = set]
           u == ipc_mqueue_move(r, set, p, p)
<1>0. s \in State
  BY DEF Good
<1>1. ipc_pset_add(s, set, p) = ipc_mqueue_changed(u, p, "changed")
  BY DEF ipc_pset_add
<1>2. Good(r, PC, CL, ACT, {p})
  BY PsetGood
<1>3. p \in Queues /\ set \in Queues /\ set # p /\ set \notin Ports /\ set # Null
  BY ObjectsAssumption DEF ObjectsAssumption, Queues
<1>4. /\ Misplaced(r, PC, CL, cnt[p], p, p) /\ Accounts(r, PC, CL, cnt, A \ {p})
      /\ Home(r, p) = set
  <2>1. Home(s, p) = p
    BY DEF Home
  <2> QED
    BY <1>0, <1>3, <2>1, PsetAccounts
<1> HIDE DEF r
<1>5. Account(u, PC, CL, cnt[p], p, <<>>) /\ Accounts(u, PC, CL, cnt, A \ {p})
  <2>1. p \notin A \ {p}
    OBVIOUS
  <2> QED
    BY <1>2, <1>3, <1>4, <2>1, MoveAccounts
<1>6. Good(u, PC, CL, ACT, {p})
  <2>1. Transferred(r, u, PC, CL, ACT, {p}, set, p, p)
    BY <1>2, <1>3, MoveGood
  <2> QED
    BY <2>1 DEF Transferred
<1> HIDE DEF u
<1>7. Accounts(u, PC, CL, cnt, A)
  BY <1>5, AccountsOf
<1>8. "changed" \in {"died", "changed"}
  OBVIOUS
<1> QED
  BY <1>1, <1>3, <1>6, <1>7, <1>8, ChangedAccounts

\* A port leaves its set: ipc_pset_remove.
LEMMA RemoveAccounts ==
    ASSUME NEW PC, NEW CL, NEW ACT, NEW s, Good(s, PC, CL, ACT, {}),
           NEW p \in Ports, s.ip_pset[p] # Null,
           NEW cnt, NEW A, p \in A, Accounts(s, PC, CL, cnt, A)
    PROVE  Accounts(ipc_pset_remove(s, p), PC, CL, cnt, A)
<1> DEFINE r == [s EXCEPT !.ip_pset[p] = Null]
           set == s.ip_pset[p]
           u == ipc_mqueue_move(r, p, set, p)
<1>0. s \in State /\ StateTypes(s)
  BY Fields DEF Good
<1>1. ipc_pset_remove(s, p) = u
  BY DEF ipc_pset_remove
<1>2. Good(r, PC, CL, ACT, {})
  BY PsetGood
<1>3. p \in Queues /\ set \in Queues /\ set # p /\ r.ip_pset[p] = Null
  <2>1. set \in Psets
    BY <1>0 DEF StateTypes
  <2>2. r.ip_pset = [s.ip_pset EXCEPT ![p] = Null]
    BY <1>0, PsetType
  <2> QED
    BY <2>1, <2>2, <1>0, ObjectsAssumption DEF ObjectsAssumption, Queues, StateTypes
<1>4. /\ Misplaced(r, PC, CL, cnt[p], p, set) /\ Accounts(r, PC, CL, cnt, A \ {p})
      /\ Home(r, p) = p
  <2>1. Home(s, p) = set
    BY DEF Home
  <2> HIDE DEF set
  <2>2. Null \in Psets \cup {Null}
    OBVIOUS
  <2>3. /\ Misplaced(r, PC, CL, cnt[p], p, Home(s, p)) /\ Accounts(r, PC, CL, cnt, A \ {p})
        /\ Home(r, p) = IF Null = Null THEN p ELSE Null
    BY <1>0, <2>2, PsetAccounts
  <2> HIDE DEF r
  <2> QED
    BY <2>1, <2>3
<1> HIDE DEF r, set
<1>5. Account(u, PC, CL, cnt[p], p, <<>>) /\ Accounts(u, PC, CL, cnt, A \ {p})
  <2>1. p \notin A \ {p} /\ p # set /\ (p \in Ports => p = p /\ (p \in {} \/ r.ip_pset[p] = Null))
    BY <1>3
  <2> QED
    BY <1>2, <1>3, <1>4, <2>1, MoveAccounts
<1> HIDE DEF u
<1>6. Accounts(u, PC, CL, cnt, A)
  BY <1>5, AccountsOf
<1> QED
  BY <1>1, <1>6

LEMMA LeaveAccounts ==
    ASSUME NEW PC, NEW CL, NEW ACT, NEW s, Good(s, PC, CL, ACT, {}), NEW p \in Ports,
           NEW cnt, NEW A, p \in A, Accounts(s, PC, CL, cnt, A)
    PROVE  Accounts(LeaveDeadSet(s, p), PC, CL, cnt, A)
  BY RemoveAccounts DEF LeaveDeadSet
\* A message of p with the number it gets when ip_seqno, k, becomes n.
Renumbered(p, k, n) ==
    [m \in Message |->
        IF m.port # p THEN m ELSE [m EXCEPT !.due = (@ + n + SeqnoMod - k) % SeqnoMod]]

LEMMA RenumberedIs ==
    ASSUME NEW p \in Ports, NEW k \in 0 .. SeqnoMod - 1, NEW n \in 0 .. SeqnoMod - 1
    PROVE  /\ Renumbered(p, k, n) \in [Message -> Message]
           /\ \A m \in Message :
                 /\ Renumbered(p, k, n)[m].port = m.port
                 /\ m.port # p => Renumbered(p, k, n)[m] = m
                 /\ m.port = p => Renumbered(p, k, n)[m].due = (m.due + (n + SeqnoMod - k)) % SeqnoMod
<1> DEFINE h == Renumbered(p, k, n)
<1>1. ASSUME NEW m \in Message
      PROVE  LET v == [m EXCEPT !.due = (@ + n + SeqnoMod - k) % SeqnoMod]
             IN  v \in Message /\ v.port = m.port /\ v.due = (m.due + (n + SeqnoMod - k)) % SeqnoMod
  <2> DEFINE e == m.due + n + SeqnoMod - k
             e2 == m.due + (n + SeqnoMod - k)
             f == e % SeqnoMod
             v == [m EXCEPT !.due = f]
  <2>1. e \in Int /\ e = e2
    <3>1. m.due \in 0 .. SeqnoMod - 1
      BY DEF Message
    <3> QED
      BY <3>1, ModulusIs, SMT
  <2> HIDE DEF e, e2
  <2>2. f \in 0 .. SeqnoMod - 1
    BY <2>1, ModulusIs, SMT
  <2>3. f = e2 % SeqnoMod
    BY <2>1
  <2> HIDE DEF f
  <2>4. v \in Message /\ v.port = m.port /\ v.due = f
    BY <2>2 DEF Message
  <2> QED
    BY <2>3, <2>4 DEF f, e, e2
<1>2. \A m \in Message : h[m] = IF m.port # p THEN m
                                ELSE [m EXCEPT !.due = (@ + n + SeqnoMod - k) % SeqnoMod]
  BY DEF Renumbered
<1>3. h \in [Message -> Message]
  BY <1>1 DEF Renumbered
<1> HIDE DEF h
<1> QED
  BY <1>1, <1>2, <1>3 DEF h

\* The messages for a port are renumbered, or stay as they are.
LEMMA RenumberedLists ==
    ASSUME NEW p \in Ports, NEW k \in 0 .. SeqnoMod - 1, NEW n \in 0 .. SeqnoMod - 1,
           NEW ms \in Seq(Message), NEW x \in Ports
    PROVE  LET l == ForPort(ms, x)
               r == ForPort(MappedList(ms, Renumbered(p, k, n)), x)
           IN  /\ Len(r) = Len(l)
               /\ l = <<>> => r = <<>>
               /\ x # p => r = l
               /\ x = p /\ Numbered(l, k) => Numbered(r, n)
<1> DEFINE h == Renumbered(p, k, n)
           l == ForPort(ms, x)
           r == ForPort(MappedList(ms, h), x)
<1>1. /\ h \in [Message -> Message]
      /\ \A m \in Message :
            /\ h[m].port = m.port /\ (m.port # p => h[m] = m)
            /\ m.port = p => h[m].due = (m.due + (n + SeqnoMod - k)) % SeqnoMod
  BY RenumberedIs
<1> HIDE DEF h
<1>2. /\ l \in Seq(Message) /\ Len(l) \in Nat /\ (\A i \in 1 .. Len(l) : l[i].port = x)
      /\ \A i \in 1 .. Len(l) : l[i] \in Message
  <2>1. /\ l \in Seq(Message) /\ Len(l) \in Nat /\ (\A i \in 1 .. Len(l) : l[i].port = x)
    BY ForPortIs
  <2> HIDE DEF l
  <2> QED
    BY <2>1
<1>3. r = MappedList(l, h)
  <2>1. \A m \in Message : h[m] \in MessageFor(x) <=> m \in MessageFor(x)
    BY <1>1 DEF MessageFor
  <2>2. Sublist(MappedList(ms, h), MessageFor(x)) = MappedList(Sublist(ms, MessageFor(x)), h)
    BY <1>1, <2>1, SublistMapped
  <2> QED
    BY <2>2 DEF ForPort
<1> HIDE DEF l, r
<1>4. r = [i \in 1 .. Len(l) |-> h[l[i]]]
  BY <1>3 DEF MappedList
<1>5. r \in Seq(Message) /\ Len(r) = Len(l)
  BY <1>1, <1>2, <1>4, SMT
<1>6. l = <<>> => r = <<>>
  <2>1. ASSUME l = <<>> PROVE Len(r) = 0
    BY <2>1, <1>5, ForPortEmpty
  <2>2. Len(r) = 0 => r = <<>>
    BY <1>5
  <2> QED
    BY <2>1, <2>2
<1>7. ASSUME x # p PROVE r = l
  <2>1. \A i \in 1 .. Len(l) : h[l[i]] = l[i]
    BY <1>1, <1>2, <1>7
  <2>2. r = [i \in 1 .. Len(l) |-> l[i]]
    BY <1>4, <2>1
  <2>3. l = [i \in 1 .. Len(l) |-> l[i]]
    BY <1>2
  <2> QED
    BY <2>2, <2>3
<1>8. ASSUME x = p, Numbered(l, k) PROVE Numbered(r, n)
  <2> SUFFICES ASSUME NEW i \in 1 .. Len(l) PROVE r[i].due = (n + i - 1) % SeqnoMod
    BY <1>5 DEF Numbered
  <2> DEFINE a == k + i - 1
             d == n + SeqnoMod - k
             b == n + i - 1
  <2>1. a \in Int /\ d \in Int /\ b \in Int /\ a + d = b + SeqnoMod
    BY ModulusIs, SMT
  <2>2. l[i].due = a % SeqnoMod
    BY <1>8 DEF Numbered
  <2>3. r[i].due = (l[i].due + d) % SeqnoMod
    <3>1. r[i] = h[l[i]] /\ l[i] \in Message /\ l[i].port = p
      BY <1>2, <1>4, <1>8
    <3> QED
      BY <1>1, <3>1
  <2> HIDE DEF a, d, b
  <2>4. ((a % SeqnoMod) + d) % SeqnoMod = (a + d) % SeqnoMod
    BY <2>1, ModulusIs, ModAdd
  <2>5. (b + SeqnoMod) % SeqnoMod = b % SeqnoMod
    BY <2>1, ModulusIs, ModAgain
  <2>6. r[i].due = b % SeqnoMod
    BY <2>1, <2>2, <2>3, <2>4, <2>5
  <2> QED
    BY <2>6 DEF b
<1> QED
  BY <1>5, <1>6, <1>7, <1>8 DEF l, r, h

LEMMA RenumberAccounts ==
    ASSUME NEW PC, NEW CL, NEW s \in State, NEW p \in Ports, NEW n \in 0 .. SeqnoMod - 1,
           NEW cnt, NEW A, Accounts(s, PC, CL, cnt, A)
    PROVE  Accounts(Renumber(s, p, n), PC, CL, cnt, A)
<1> DEFINE o == Renumber(s, p, n)
           k == s.seqno[p]
           h == Renumbered(p, k, n)
           shift(ms) == [i \in DOMAIN ms |-> IF ms[i].port # p THEN ms[i]
                           ELSE [ms[i] EXCEPT !.due = (@ + n + SeqnoMod - s.seqno[p]) % SeqnoMod]]
           N == [s.seqno EXCEPT ![p] = n]
           M == [q \in Queues |-> shift(s.messages[q])]
<1>0. StateTypes(s) /\ k \in 0 .. SeqnoMod - 1
  BY Fields DEF StateTypes
<1>1. o = [s EXCEPT !.seqno = N, !.messages = M]
  BY DEF Renumber
<1>2. ASSUME NEW ms \in Seq(Message) PROVE shift(ms) = MappedList(ms, h)
  <2>1. DOMAIN ms = 1 .. Len(ms) /\ \A i \in 1 .. Len(ms) : ms[i] \in Message
    OBVIOUS
  <2> QED
    BY <2>1 DEF MappedList, Renumbered
<1> HIDE DEF shift, o
<1>3. \A q \in Queues : s.messages[q] \in Seq(Message) /\ M[q] = MappedList(s.messages[q], h)
  BY <1>0, <1>2 DEF StateTypes
<1>4. N[p] = n /\ \A x \in Ports \ {p} : N[x] = s.seqno[x]
  BY <1>0 DEF StateTypes
<1> HIDE DEF M, N, h, k
<1>5. o.ip_pset = s.ip_pset /\ o.messages = M /\ o.seqno = N /\ o.ith = s.ith
  BY <1>1, Zenon DEF State
<1> SUFFICES ASSUME NEW x \in Ports \cap A PROVE Account(o, PC, CL, cnt[x], x, <<>>)
  BY DEF Accounts, o
<1> DEFINE l == Queued(s, Home(s, x), x)
           r == Queued(o, Home(s, x), x)
           H == Hand(s, PC, CL, x)
<1>6. Home(s, x) \in Queues /\ Home(o, x) = Home(s, x)
  BY <1>5, HomeIs DEF Home
<1>7. Hand(o, PC, CL, x) = H
  BY <1>5 DEF Hand, Taking
<1>8. /\ IsFiniteSet(H) /\ cnt[x] = Len(l) + Len(<<>>) + Cardinality(H)
      /\ \A q \in Queues \ {Home(s, x)} : Queued(s, q, x) = <<>>
      /\ Numbered(l, s.seqno[x])
  BY DEF Accounts, Account
<1>9. ASSUME NEW q \in Queues
      PROVE  /\ Len(Queued(o, q, x)) = Len(Queued(s, q, x))
             /\ Queued(s, q, x) = <<>> => Queued(o, q, x) = <<>>
             /\ x # p => Queued(o, q, x) = Queued(s, q, x)
             /\ x = p /\ Numbered(Queued(s, q, x), k) => Numbered(Queued(o, q, x), n)
  <2>1. s.messages[q] \in Seq(Message) /\ o.messages[q] = MappedList(s.messages[q], Renumbered(p, k, n))
    BY <1>3, <1>5 DEF h
  <2> QED
    BY <1>0, <2>1, RenumberedLists DEF Queued
<1>10. Len(r) = Len(l) /\ Numbered(r, o.seqno[x])
  <2>1. CASE x = p
    BY <1>4, <1>5, <1>6, <1>8, <1>9, <2>1 DEF k
  <2>2. CASE x # p
    BY <1>4, <1>5, <1>6, <1>8, <1>9, <2>2
  <2> QED
    BY <2>1, <2>2
<1> HIDE DEF l, r, H
<1>11. /\ IsFiniteSet(Hand(o, PC, CL, x))
       /\ cnt[x] = Len(r) + Len(<<>>) + Cardinality(Hand(o, PC, CL, x))
       /\ Numbered(r, o.seqno[x]) /\ Numbered(<<>>, o.seqno[x] + Len(r))
  BY <1>7, <1>8, <1>10, NumberedEmpty
<1>12. /\ Queued(o, Home(o, x), x) = r
       /\ \A q \in Queues \ {Home(o, x)} : Queued(o, q, x) = <<>>
  BY <1>6, <1>8, <1>9 DEF r
<1> QED
  BY <1>11, <1>12, AccountIs

\* A port's receivers and set let go of it: ipc_port_clear_receiver.
LEMMA ClearAccounts ==
    ASSUME NEW PC, NEW CL, NEW ACT, NEW s, Good(s, PC, CL, ACT, {}), NEW p \in Ports,
           NEW cnt, NEW A, p \in A, Accounts(s, PC, CL, cnt, A)
    PROVE  Accounts(ipc_port_clear_receiver(s, p), PC, CL, cnt, A)
<1> DEFINE alone == IF s.ip_pset[p] # Null THEN ipc_pset_remove(s, p)
                    ELSE ipc_mqueue_changed(s, p, "died")
<1>1. ipc_port_clear_receiver(s, p) = Renumber(alone, p, 0)
  BY DEF ipc_port_clear_receiver
<1>2. p \in Queues /\ "died" \in {"died", "changed"}
  BY DEF Queues
<1>3. alone \in State
  <2>1. CASE s.ip_pset[p] # Null
    BY <2>1, RemoveGood DEF Moved, Good
  <2>2. CASE s.ip_pset[p] = Null
    BY <2>2, <1>2, ChangedGood DEF Good
  <2> QED
    BY <2>1, <2>2
<1>4. Accounts(alone, PC, CL, cnt, A)
  BY <1>2, RemoveAccounts, ChangedAccounts
<1> HIDE DEF alone
<1>5. 0 \in 0 .. SeqnoMod - 1
  BY ModulusIs, SMT
<1> QED
  BY <1>1, <1>3, <1>4, <1>5, RenumberAccounts

-----------------------------------------------------------------------------
(* What threads and ports do to the accounts.                               *)
Counted == Accounts(Now, pc, call, msgcount, active)

\* A thread's step that leaves the queues and what it takes alone, and of
\* which at most senders are told.
Unmoved(s, PC, CL, o, PC2, CL2, t) ==
    /\ SameQueues(s, o) /\ o.seqno = s.seqno
    /\ \A u \in Threads \ {t} : /\ PC2[u] = PC[u] /\ CL2[u] = CL[u]
                                /\ o.ith[u] = s.ith[u] \/ PC[u] = "send_wait"

LEMMA UnmovedTaking ==
    ASSUME NEW s, NEW o, NEW PC, NEW CL, NEW PC2, NEW CL2, NEW t, NEW p,
           Unmoved(s, PC, CL, o, PC2, CL2, t)
    PROVE  \A u \in Threads \ {t} : Taking(o, PC2, CL2, u, p) <=> Taking(s, PC, CL, u, p)
<1> SUFFICES ASSUME NEW u \in Threads \ {t}
             PROVE  Taking(o, PC2, CL2, u, p) <=> Taking(s, PC, CL, u, p)
  OBVIOUS
<1>1. PC2[u] = PC[u] /\ CL2[u] = CL[u]
  BY DEF Unmoved
<1>2. CASE o.ith[u] = s.ith[u]
  BY <1>1, <1>2 DEF Taking
<1>3. CASE PC[u] = "send_wait"
  BY <1>1, <1>3 DEF Taking
<1> QED
  BY <1>2, <1>3 DEF Unmoved

LEMMA ThreadAccounts ==
    ASSUME NEW s \in State, NEW o, NEW PC, NEW CL, NEW PC2, NEW CL2, NEW t \in Threads,
           Unmoved(s, PC, CL, o, PC2, CL2, t),
           NEW cnt, NEW A, Accounts(s, PC, CL, cnt, A),
           \A p \in Ports : Taking(o, PC2, CL2, t, p) <=> Taking(s, PC, CL, t, p)
    PROVE  Accounts(o, PC2, CL2, cnt, A)
<1>1. ASSUME NEW p \in Ports \cap A
      PROVE  /\ o.ip_pset[p] = s.ip_pset[p] /\ o.seqno[p] = s.seqno[p]
             /\ \A q \in Queues : Queued(o, q, p) = Queued(s, q, p)
             /\ \A u \in Threads : Taking(o, PC2, CL2, u, p) <=> Taking(s, PC, CL, u, p)
  <2>1. o.ip_pset = s.ip_pset /\ o.seqno = s.seqno /\ o.messages = s.messages
    BY DEF Unmoved, SameQueues
  <2>2. \A u \in Threads \ {t} : Taking(o, PC2, CL2, u, p) <=> Taking(s, PC, CL, u, p)
    BY UnmovedTaking
  <2> QED
    BY <2>1, <2>2 DEF Queued
<1> QED
  BY <1>1, AccountsSame

\* What t's fields are set to leaves the numbers alone.
LEMMA ThreadSeqno ==
    ASSUME NEW s \in State, NEW t, NEW i, NEW w
    PROVE  [s EXCEPT !.ith[t] = i, !.wait[t] = w].seqno = s.seqno
  BY Zenon DEF State

\* A thread that takes nothing is as good as awake.
LEMMA AwakeAccounts ==
    ASSUME Inv, Counted, NEW t \in Threads, pc[t] # "rcv_got",
           pc[t] = "rcv_wait" => ith[t].state # "success"
    PROVE  Accounts(Now, Awake(t), call, msgcount, active)
<1>1. Awake(t)[t] = "user" /\ \A u \in Threads \ {t} : Awake(t)[u] = pc[u]
  BY DEF Inv, Types, Awake
<1>2. Unmoved(Now, pc, call, Now, Awake(t), call, t)
  BY <1>1 DEF Unmoved, SameQueues
<1>3. \A p \in Ports : Taking(Now, Awake(t), call, t, p) <=> Taking(Now, pc, call, t, p)
  BY <1>1, NowIs DEF Taking
<1>4. Now \in State
  BY DEF Inv, Good
<1> QED
  BY <1>2, <1>3, <1>4, ThreadAccounts DEF Counted

\* A thread's fields after its lock hold, or its call.
Ending(t, s, to, c) ==
    /\ Commit([s EXCEPT !.ith[t] = Idle, !.wait[t] = "none"])
    /\ pc' = [pc EXCEPT ![t] = to] /\ call' = [call EXCEPT ![t] = c]

LEMMA EndIs ==
    ASSUME Inv, NEW t \in Threads, NEW s \in State, NEW to, NEW c, Ending(t, s, to, c)
    PROVE  /\ SameQueues(s, Now') /\ (Now').seqno = s.seqno
           /\ (Now').ith[t].state = "none" /\ pc'[t] = to /\ call'[t] = c
           /\ \A u \in Threads \ {t} : /\ pc'[u] = pc[u] /\ call'[u] = call[u]
                                       /\ (Now').ith[u] = s.ith[u]
<1> DEFINE o == [s EXCEPT !.ith[t] = Idle, !.wait[t] = "none"]
<1>1. Idle \in Ith /\ "none" \in Waiting /\ Idle.state = "none"
  BY DEF Idle, Ith, Waiting
<1>2. ThreadSet(s, o, t, Idle, "none")
  BY <1>1, ThreadIs
<1>3. o.seqno = s.seqno
  BY ThreadSeqno
<1> HIDE DEF o
<1>4. o \in State
  BY <1>2 DEF ThreadSet
<1>5. Now' = o
  BY <1>4, CommitIs DEF o, Ending
<1>6. /\ pc'[t] = to /\ call'[t] = c
      /\ \A u \in Threads \ {t} : pc'[u] = pc[u] /\ call'[u] = call[u]
  BY DEF Inv, Types, Ending
<1> QED
  BY <1>1, <1>2, <1>3, <1>5, <1>6 DEF ThreadSet

\* A lock hold of t, that takes nothing, ends.
LEMMA EndAccounts ==
    ASSUME Inv, NEW t \in Threads, NEW s \in State, NEW to, NEW c, to \notin {"rcv_got", "rcv_wait"},
           Ending(t, s, to, c),
           NEW cnt, Accounts(s, Awake(t), call, cnt, active)
    PROVE  Accounts(Now', pc', call', cnt, active)
<1>1. Awake(t)[t] = "user" /\ \A u \in Threads \ {t} : Awake(t)[u] = pc[u]
  BY DEF Inv, Types, Awake
<1>2. /\ SameQueues(s, Now') /\ (Now').seqno = s.seqno /\ pc'[t] = to
      /\ \A u \in Threads \ {t} : /\ pc'[u] = pc[u] /\ call'[u] = call[u]
                                  /\ (Now').ith[u] = s.ith[u]
  BY EndIs
<1>3. Unmoved(s, Awake(t), call, Now', pc', call', t)
  BY <1>1, <1>2 DEF Unmoved
<1>4. \A p \in Ports : Taking(Now', pc', call', t, p) <=> Taking(s, Awake(t), call, t, p)
  BY <1>1, <1>2 DEF Taking
<1> QED
  BY <1>3, <1>4, ThreadAccounts

\* A message accepted for p is numbered as the next, counted, and queued or
\* taken.
LEMMA AcceptAccounts ==
    ASSUME NEW PC, NEW CL, NEW ACT, NEW s, Good(s, PC, CL, ACT, {}),
           NEW m \in Message, m.port \in Ports,
           m.due = (s.seqno[m.port] + Len(Queued(s, Home(s, m.port), m.port))) % SeqnoMod,
           NEW cnt \in [Ports -> Int], NEW A, m.port \in A, Accounts(s, PC, CL, cnt, A)
    PROVE  Accounts(Offer(s, Home(s, m.port), m), PC, CL, [cnt EXCEPT ![m.port] = @ + 1], A)
<1> DEFINE p == m.port
           q == Home(s, p)
           l == Queued(s, q, p)
           n == s.seqno[p]
           h == Hand(s, PC, CL, p)
           rest == <<m>>
           c == cnt[p] + 1
           cnt2 == [cnt EXCEPT ![p] = @ + 1]
<1>0. s \in State /\ p \in Ports
  BY DEF Good
<1>1. q \in Queues
  BY <1>0, HomeIs
<1>2. l \in Seq(Message) /\ Len(l) \in Nat /\ n \in Int
  BY <1>0, <1>1, AccountTypes
<1>3. /\ IsFiniteSet(h) /\ cnt[p] = Len(l) + Len(<<>>) + Cardinality(h)
      /\ \A y \in Queues \ {q} : Queued(s, y, p) = <<>>
      /\ Numbered(l, n)
  BY <1>0 DEF Accounts, Account
<1>4. rest \in Seq(Message) /\ rest # <<>> /\ Head(rest) = m /\ Tail(rest) = <<>> /\ Len(rest) = 1
      /\ Len(<<>>) = 0
  OBVIOUS
<1>5. cnt2[p] = c /\ \A x \in Ports \ {p} : cnt2[x] = cnt[x]
  BY <1>0
<1>6. m.due = (n + Len(l)) % SeqnoMod
  OBVIOUS
<1> HIDE DEF cnt2, l, n, h
<1>7. Numbered(rest, n + Len(l))
  <2>1. \A i \in 1 .. Len(rest) : i = 1 /\ rest[i] = m
    BY <1>4, SMT
  <2> DEFINE k == n + Len(l)
  <2>2. k \in Int /\ m.due = k % SeqnoMod
    BY <1>2, <1>6
  <2> HIDE DEF k, rest
  <2>3. k + 1 - 1 = k
    BY <2>2, SMT
  <2>4. \A i \in 1 .. Len(rest) : rest[i].due = (k + i - 1) % SeqnoMod
    BY <2>1, <2>2, <2>3
  <2> QED
    BY <2>4 DEF Numbered, k
<1>8. c = Len(l) + Len(rest) + Cardinality(h)
  <2>1. Cardinality(h) \in Nat
    BY <1>3, FS_CardinalityType
  <2> QED
    BY <1>2, <1>3, <1>4, <2>1, SMT
<1>9. Account(s, PC, CL, c, p, rest)
  BY <1>3, <1>7, <1>8, AccountIs DEF l, n, h
<1> HIDE DEF p, q, rest, c
<1>10. Account(Offer(s, q, m), PC, CL, c, p, <<>>)
  <2>1. Head(rest).port = p
    BY <1>4 DEF p
  <2>2. Account(Offer(s, Home(s, p), Head(rest)), PC, CL, c, p, Tail(rest))
    BY <1>0, <1>4, <1>9, <2>1, OfferAccount
  <2> QED
    BY <1>4, <2>2 DEF q
<1>11. ASSUME NEW x \in Ports \cap A, x # p PROVE Account(Offer(s, q, m), PC, CL, cnt2[x], x, <<>>)
  <2>1. Account(s, PC, CL, cnt[x], x, <<>>)
    BY DEF Accounts
  <2>2. Account(Offer(s, q, m), PC, CL, cnt[x], x, <<>>)
    BY <1>1, <1>11, <2>1, OfferOthers DEF p
  <2> QED
    BY <1>5, <1>11, <2>2
<1>12. Accounts(Offer(s, q, m), PC, CL, cnt2, A)
  BY <1>5, <1>10, <1>11 DEF Accounts
<1> QED
  BY <1>12 DEF p, q, cnt2

\* A message goes from the head of a queue to t.
Takes(s, PC, CL, o, PC2, CL2, t, q) ==
    LET m == Head(s.messages[q])
    IN  /\ o.ip_pset = s.ip_pset
        /\ o.messages = [s.messages EXCEPT ![q] = Tail(@)]
        /\ o.seqno = [s.seqno EXCEPT ![m.port] = Next1(@)]
        /\ \A u \in Threads \ {t}, p \in Ports : Taking(o, PC2, CL2, u, p) <=> Taking(s, PC, CL, u, p)
        /\ \A p \in Ports : ~Taking(s, PC, CL, t, p) /\ (Taking(o, PC2, CL2, t, p) <=> p = m.port)

LEMMA TakeAccounts ==
    ASSUME NEW s \in State, NEW o, NEW PC, NEW CL, NEW PC2, NEW CL2, NEW t \in Threads,
           NEW q \in Queues, s.messages[q] # <<>>, Takes(s, PC, CL, o, PC2, CL2, t, q),
           NEW cnt, NEW A, Accounts(s, PC, CL, cnt, A)
    PROVE  Accounts(o, PC2, CL2, cnt, A)
<1> DEFINE m == Head(s.messages[q])
<1>0. /\ StateTypes(s) /\ s.messages[q] \in Seq(Message) /\ m \in Message /\ m.port \in Ports
  <2>1. StateTypes(s) /\ s.messages[q] \in Seq(Message)
    BY Fields DEF StateTypes
  <2>2. m \in Message
    BY <2>1
  <2> QED
    BY <2>1, <2>2 DEF Message
<1>1. /\ o.ip_pset = s.ip_pset
      /\ o.messages = [s.messages EXCEPT ![q] = Tail(@)]
      /\ o.seqno = [s.seqno EXCEPT ![m.port] = Next1(@)]
      /\ \A u \in Threads \ {t}, p \in Ports : Taking(o, PC2, CL2, u, p) <=> Taking(s, PC, CL, u, p)
      /\ \A p \in Ports : ~Taking(s, PC, CL, t, p) /\ (Taking(o, PC2, CL2, t, p) <=> p = m.port)
  BY DEF Takes
<1>2. /\ o.seqno[m.port] = Next1(s.seqno[m.port])
      /\ \A x \in Ports \ {m.port} : o.seqno[x] = s.seqno[x]
      /\ o.messages[q] = Tail(s.messages[q]) /\ \A y \in Queues \ {q} : o.messages[y] = s.messages[y]
  BY <1>0, <1>1 DEF StateTypes
<1>3. ASSUME NEW p \in Ports
      PROVE  /\ \A y \in Queues \ {q} : Queued(o, y, p) = Queued(s, y, p)
             /\ p # m.port => Queued(o, q, p) = Queued(s, q, p)
             /\ p = m.port => /\ Queued(s, q, p) # <<>>
                              /\ Queued(o, q, p) = Tail(Queued(s, q, p))
  BY <1>0, <1>2, ForPortTail DEF Queued
<1> HIDE DEF m
<1> SUFFICES ASSUME NEW p \in Ports \cap A PROVE Account(o, PC2, CL2, cnt[p], p, <<>>)
  BY DEF Accounts
<1>4. Account(s, PC, CL, cnt[p], p, <<>>) /\ Home(s, p) \in Queues
  BY HomeIs DEF Accounts
<1>5. CASE p # m.port
  <2>1. o.ip_pset[p] = s.ip_pset[p] /\ o.seqno[p] = s.seqno[p]
    BY <1>1, <1>2, <1>5
  <2>2. \A y \in Queues : Queued(o, y, p) = Queued(s, y, p)
    BY <1>3, <1>5
  <2>3. \A u \in Threads : Taking(o, PC2, CL2, u, p) <=> Taking(s, PC, CL, u, p)
    BY <1>1, <1>5
  <2> QED
    BY <2>1, <2>2, <2>3, <1>4, AccountSame
<1>6. CASE p = m.port
  <2> DEFINE l == Queued(s, Home(s, p), p)
             k == Tail(l)
             n == s.seqno[p]
             h == Hand(s, PC, CL, p)
             g == Hand(o, PC2, CL2, p)
             c == cnt[p]
  <2>1. /\ IsFiniteSet(h) /\ c = Len(l) + Len(<<>>) + Cardinality(h)
        /\ \A y \in Queues \ {Home(s, p)} : Queued(s, y, p) = <<>>
        /\ Numbered(l, n)
    BY <1>4 DEF Account
  <2>2. Home(s, p) = q
    BY <1>3, <1>6, <2>1
  <2>3. /\ l \in Seq(Message) /\ n \in Int /\ l # <<>>
    <3>1. Queued(s, q, p) \in Seq(Message) /\ n \in Int
      BY AccountTypes
    <3> QED
      BY <1>3, <1>6, <2>2, <3>1
  <2>4. h \cup {t} = g /\ t \notin h
    BY <1>1, <1>6 DEF Hand
  <2>5. Home(o, p) = q /\ Queued(o, q, p) = k
    BY <1>1, <1>3, <1>6, <2>2 DEF Home
  <2>6. o.seqno[p] = (n + 1) % SeqnoMod
    BY <1>2, <1>6 DEF Next1
  <2> HIDE DEF l, n, h, g, c, k
  <2>7. IsFiniteSet(g) /\ Cardinality(g) = Cardinality(h) + 1 /\ Cardinality(h) \in Nat
    BY <2>1, <2>4, FS_AddElement, FS_CardinalityType
  <2>8. /\ Numbered(k, n + 1) /\ k \in Seq(Message) /\ Len(k) = Len(l) - 1 /\ Len(l) \in Nat
    BY <2>1, <2>3, NumberedTail DEF k
  <2>9. Numbered(k, o.seqno[p])
    <3> DEFINE j == n + 1
    <3>1. j \in Int
      BY <2>3
    <3>2. Numbered(k, j) /\ o.seqno[p] = j % SeqnoMod
      BY <2>6, <2>8
    <3> HIDE DEF j
    <3> QED
      BY <2>8, <3>1, <3>2, NumberedMod
  <2>10. c = Len(k) + Len(<<>>) + Cardinality(g)
    <3>1. Len(<<>>) = 0
      OBVIOUS
    <3> QED
      BY <2>1, <2>7, <2>8, <3>1, SMT
  <2>11. /\ Queued(o, Home(o, p), p) = k
         /\ \A y \in Queues \ {Home(o, p)} : Queued(o, y, p) = <<>>
    BY <1>3, <2>1, <2>2, <2>5
  <2>12. Numbered(<<>>, o.seqno[p] + Len(k))
    BY NumberedEmpty
  <2>13. Account(o, PC2, CL2, c, p, <<>>)
    BY <2>7, <2>9, <2>10, <2>11, <2>12, AccountIs DEF g
  <2> QED
    BY <2>13 DEF c
<1> QED
  BY <1>5, <1>6

\* t lets go of a message for p, which is not counted any more.
LEMMA DropAccounts ==
    ASSUME NEW s \in State, NEW o, NEW PC, NEW CL, NEW PC2, NEW CL2, NEW t \in Threads,
           Unmoved(s, PC, CL, o, PC2, CL2, t), NEW p \in Ports,
           \A r \in Ports : ~Taking(o, PC2, CL2, t, r) /\ (Taking(s, PC, CL, t, r) <=> r = p),
           NEW cnt, NEW A, Accounts(s, PC, CL, cnt, A), NEW cnt2,
           p \in A => cnt2[p] = cnt[p] - 1, \A r \in Ports \ {p} : cnt2[r] = cnt[r]
    PROVE  Accounts(o, PC2, CL2, cnt2, A)
<1> SUFFICES ASSUME NEW r \in Ports \cap A PROVE Account(o, PC2, CL2, cnt2[r], r, <<>>)
  BY DEF Accounts
<1>1. Account(s, PC, CL, cnt[r], r, <<>>) /\ Home(s, r) \in Queues
  BY HomeIs DEF Accounts
<1>2. \A u \in Threads \ {t} : Taking(o, PC2, CL2, u, r) <=> Taking(s, PC, CL, u, r)
  BY UnmovedTaking
<1>3. /\ o.ip_pset = s.ip_pset /\ o.seqno = s.seqno
      /\ \A q \in Queues : Queued(o, q, r) = Queued(s, q, r)
  BY DEF Unmoved, SameQueues, Queued
<1>4. CASE r # p
  <2>1. \A u \in Threads : Taking(o, PC2, CL2, u, r) <=> Taking(s, PC, CL, u, r)
    BY <1>2, <1>4
  <2>2. cnt2[r] = cnt[r]
    BY <1>4
  <2> QED
    BY <1>1, <1>3, <2>1, <2>2, AccountSame
<1>5. CASE r = p
  <2> DEFINE l == Queued(s, Home(s, r), r)
             h == Hand(s, PC, CL, r)
             g == Hand(o, PC2, CL2, r)
             c == cnt[r]
             c2 == cnt2[r]
  <2>1. /\ IsFiniteSet(h) /\ c = Len(l) + Len(<<>>) + Cardinality(h)
        /\ \A y \in Queues \ {Home(s, r)} : Queued(s, y, r) = <<>>
        /\ Numbered(l, s.seqno[r])
    BY <1>1 DEF Account
  <2>2. h \ {t} = g /\ t \in h
    BY <1>2, <1>5 DEF Hand
  <2>3. c2 = c - 1
    BY <1>5
  <2>4. Len(l) \in Nat
    BY <1>1, AccountTypes
  <2>5. Home(o, r) = Home(s, r) /\ o.seqno[r] = s.seqno[r]
    BY <1>3 DEF Home
  <2> HIDE DEF l, h, g, c, c2
  <2>6. IsFiniteSet(g) /\ Cardinality(g) = Cardinality(h) - 1 /\ Cardinality(h) \in Nat
    BY <2>1, <2>2, FS_RemoveElement, FS_CardinalityType
  <2>7. c2 = Len(l) + Len(<<>>) + Cardinality(g)
    <3>1. Len(<<>>) = 0
      OBVIOUS
    <3> QED
      BY <2>1, <2>3, <2>4, <2>6, <3>1, SMT
  <2>8. /\ Queued(o, Home(o, r), r) = l
        /\ \A y \in Queues \ {Home(o, r)} : Queued(o, y, r) = <<>>
    BY <1>1, <1>3, <2>1, <2>5 DEF l
  <2>9. Numbered(l, o.seqno[r]) /\ Numbered(<<>>, o.seqno[r] + Len(l))
    BY <2>1, <2>5, NumberedEmpty
  <2>10. Account(o, PC2, CL2, c2, r, <<>>)
    BY <2>6, <2>7, <2>8, <2>9, AccountIs DEF g
  <2> QED
    BY <2>10 DEF c2
<1> QED
  BY <1>4, <1>5

\* Senders that are roused take no messages.
LEMMA RouseSeqno == ASSUME NEW s \in State, NEW ts PROVE Rouse(s, ts).seqno = s.seqno
<1> DEFINE W == thread_go(s.wait, ts)
           I == [t \in Threads |-> IF t \in ts THEN [s.ith[t] EXCEPT !.state = "success"]
                                   ELSE s.ith[t]]
           o == Rouse(s, ts)
<1>1. o = [s EXCEPT !.wait = W, !.ith = I]
  BY DEF Rouse
<1> HIDE DEF o, W, I
<1>2. o.seqno = s.seqno
  BY <1>1, Zenon DEF State
<1> QED
  BY <1>2 DEF o

LEMMA RouseAccounts ==
    ASSUME NEW PC, NEW CL, NEW s \in State, NEW ts, \A u \in ts \cap Threads : PC[u] = "send_wait",
           NEW cnt, NEW A, Accounts(s, PC, CL, cnt, A)
    PROVE  Accounts(Rouse(s, ts), PC, CL, cnt, A)
<1> DEFINE o == Rouse(s, ts)
<1>2. Roused(s, o, ts)
  BY RouseIs
<1>3. o.seqno = s.seqno
  BY RouseSeqno
<1> HIDE DEF o
<1>4. \A u \in Threads, p \in Ports : Taking(o, PC, CL, u, p) <=> Taking(s, PC, CL, u, p)
  <2> SUFFICES ASSUME NEW u \in Threads, NEW p \in Ports
               PROVE  Taking(o, PC, CL, u, p) <=> Taking(s, PC, CL, u, p)
    OBVIOUS
  <2>1. CASE u \in ts
    BY <2>1 DEF Taking
  <2>2. CASE u \notin ts
    BY <1>2, <2>2 DEF Taking, Roused
  <2> QED
    BY <2>1, <2>2
<1>5. o.ip_pset = s.ip_pset /\ \A q \in Queues, p \in Ports : Queued(o, q, p) = Queued(s, q, p)
  BY <1>2 DEF Roused, SameQueues, Queued
<1>6. Accounts(o, PC, CL, cnt, A)
  BY <1>3, <1>4, <1>5, AccountsSame
<1> QED
  BY <1>6 DEF o

-----------------------------------------------------------------------------
(* The accounts after each step of a thread.                                *)

\* t is in the loop of ipc_mqueue_send, with c.
SendNear(t, c) == pc[t] \in {"user", "send", "send_wait"} /\ c \in Call /\ c.obj \in Ports

\* A sender returns, or goes on, without having touched the queues.
LEMMA SendEndCounted ==
    ASSUME Inv, Counted, NEW t \in Threads, NEW c, SendNear(t, c), NEW to, NEW d,
           to \notin {"rcv_got", "rcv_wait"}, Ending(t, Now, to, d),
           UNCHANGED <<active, msgcount>>
    PROVE  Counted'
<1>1. Now \in State
  BY DEF Inv, Good
<1>2. Accounts(Now, Awake(t), call, msgcount, active)
  BY AwakeAccounts DEF SendNear
<1>3. Accounts(Now', pc', call', msgcount, active)
  BY <1>1, <1>2, EndAccounts
<1> QED
  BY <1>3 DEF Counted

LEMMA SendAcceptCounted ==
    ASSUME Inv, Counted, NEW t \in Threads, NEW c, SendNear(t, c), SendAccept(t, c),
           UNCHANGED active
    PROVE  Counted'
<1> DEFINE p == c.obj
           q == QueueOf(p)
           m == [port |-> p, size |-> c.size, due |-> Due(p)]
           i == Taker(Now, q, m)
           s == Offer(Now, q, m)
<1>1. /\ p \in active /\ msgcount' = [msgcount EXCEPT ![p] = @ + 1]
      /\ \/ i > Len(receivers[q]) /\ Return(t, s)
         \/ i <= Len(receivers[q]) /\ Proceed(t, s, "send_go", receivers[q][i])
  BY DEF SendAccept
<1>2. /\ Now \in State /\ Good(Now, Awake(t), call, Live, {})
      /\ Accounts(Now, Awake(t), call, msgcount, active)
  <2>1. Now \in State
    BY DEF Inv, Good
  <2>2. Good(Now, Awake(t), call, Live, {})
    BY GoodAwake DEF SendNear
  <2>3. Accounts(Now, Awake(t), call, msgcount, active)
    BY AwakeAccounts DEF SendNear
  <2> QED
    BY <2>1, <2>2, <2>3
<1>3. p \in Ports /\ c.size \in Sizes \cup {0} /\ msgcount \in [Ports -> Int]
  BY DEF SendNear, Call, Inv, Types
<1>4. q = Home(Now, p) /\ q \in Queues
  <2>1. q = Home(Now, p)
    BY NowIs DEF QueueOf, Home
  <2> QED
    BY <1>2, <1>3, <2>1, HomeIs
<1>5. /\ Due(p) = (Now.seqno[p] + Len(Queued(Now, q, p))) % SeqnoMod
      /\ Due(p) \in 0 .. SeqnoMod - 1
  <2> DEFINE k == Now.seqno[p] + Len(Queued(Now, q, p))
  <2>1. Due(p) = k % SeqnoMod
    BY NowIs DEF Due, Queued
  <2>2. k \in Int
    BY <1>2, <1>3, <1>4, AccountTypes
  <2> HIDE DEF k, p
  <2>3. Due(p) \in 0 .. SeqnoMod - 1
    BY <2>1, <2>2, ModulusIs, SMT
  <2> QED
    BY <2>1, <2>3 DEF k
<1>6. m \in Message /\ m.port = p /\ m.due = Due(p)
  BY <1>3, <1>5 DEF Message
<1> HIDE DEF m, q, i, p
<1>7. Accounts(s, Awake(t), call, msgcount', active)
  <2>1. Accounts(Offer(Now, Home(Now, m.port), m), Awake(t), call,
                 [msgcount EXCEPT ![m.port] = @ + 1], active)
    BY <1>1, <1>2, <1>3, <1>4, <1>5, <1>6, AcceptAccounts
  <2> QED
    BY <1>1, <1>4, <1>6, <2>1
<1>8. s \in State
  <2>1. Offered(Now, s, q, m, Rest(Now, q, m), Small(Now, q, m), Taken(Now, q, m),
                Now.receivers[q][Taker(Now, q, m)])
    BY <1>2, <1>4, <1>6, OfferIs
  <2> HIDE DEF s
  <2> QED
    BY <2>1 DEF Offered
<1> HIDE DEF s
<1>9. \E to \in {"user", "send_go"}, d \in {call'[t]} : Ending(t, s, to, d)
  <2>1. call \in [Threads -> Call]
    BY DEF Inv, Types
  <2>2. CASE Return(t, s)
    BY <2>1, <2>2 DEF Return, Ending
  <2>3. CASE Proceed(t, s, "send_go", receivers[q][i])
    BY <2>1, <2>3 DEF Proceed, Ending
  <2> QED
    BY <1>1, <2>2, <2>3
<1>10. Accounts(Now', pc', call', msgcount', active)
  BY <1>7, <1>8, <1>9, EndAccounts
<1> QED
  BY <1>10 DEF Counted

\* A thread that begins to wait.
Blocking(t, s, i, to, c) ==
    /\ Commit([s EXCEPT !.ith[t] = i, !.wait[t] = "waiting"])
    /\ pc' = [pc EXCEPT ![t] = to] /\ call' = [call EXCEPT ![t] = c]

LEMMA BlockIs ==
    ASSUME Inv, NEW t \in Threads, NEW s \in State, NEW i \in Ith, NEW to, NEW c,
           Blocking(t, s, i, to, c)
    PROVE  /\ SameQueues(s, Now') /\ (Now').seqno = s.seqno
           /\ (Now').ith[t] = i /\ pc'[t] = to /\ call'[t] = c
           /\ \A u \in Threads \ {t} : /\ pc'[u] = pc[u] /\ call'[u] = call[u]
                                       /\ (Now').ith[u] = s.ith[u]
<1> DEFINE o == [s EXCEPT !.ith[t] = i, !.wait[t] = "waiting"]
<1>1. "waiting" \in Waiting
  BY DEF Waiting
<1>2. ThreadSet(s, o, t, i, "waiting")
  BY <1>1, ThreadIs
<1>3. o.seqno = s.seqno
  BY ThreadSeqno
<1> HIDE DEF o
<1>4. o \in State
  BY <1>2 DEF ThreadSet
<1>5. Now' = o
  BY <1>4, CommitIs DEF o, Blocking
<1>6. /\ pc'[t] = to /\ call'[t] = c
      /\ \A u \in Threads \ {t} : pc'[u] = pc[u] /\ call'[u] = call[u]
  BY DEF Inv, Types, Blocking
<1> QED
  BY <1>2, <1>3, <1>5, <1>6 DEF ThreadSet

LEMMA SendBlockCounted ==
    ASSUME Inv, Counted, NEW t \in Threads, NEW c, SendNear(t, c),
           Block(t, [Now EXCEPT !.ith[t].state = "in_progress"], c, "send_wait"),
           UNCHANGED <<active, msgcount>>
    PROVE  Counted'
<1> DEFINE i == [ith[t] EXCEPT !.state = "in_progress"]
<1>1. Now \in State /\ ith[t] \in Ith
  <2>1. Now \in State
    BY DEF Inv, Good
  <2> QED
    BY <2>1, Fields, NowIs DEF StateTypes
<1>2. i \in Ith
  BY <1>1 DEF Ith
<1>3. Blocking(t, Now, i, "send_wait", c)
  BY NowIs DEF Block, Blocking
<1> HIDE DEF i
<1>4. /\ SameQueues(Now, Now') /\ (Now').seqno = Now.seqno /\ pc'[t] = "send_wait"
      /\ \A u \in Threads \ {t} : /\ pc'[u] = pc[u] /\ call'[u] = call[u]
                                  /\ (Now').ith[u] = Now.ith[u]
  BY <1>1, <1>2, <1>3, BlockIs
<1>5. Unmoved(Now, pc, call, Now', pc', call', t)
  BY <1>4 DEF Unmoved
<1>6. \A p \in Ports : Taking(Now', pc', call', t, p) <=> Taking(Now, pc, call, t, p)
  BY <1>4 DEF Taking, SendNear
<1>7. Accounts(Now', pc', call', msgcount, active)
  BY <1>1, <1>5, <1>6, ThreadAccounts DEF Counted
<1> QED
  BY <1>7 DEF Counted

LEMMA SendLoopCounted ==
    ASSUME Inv, Counted, NEW t \in Threads, NEW c, NEW b, SendNear(t, c), SendLoop(t, c, b),
           UNCHANGED active
    PROVE  Counted'
<1>1. ASSUME Return(t, Now), UNCHANGED msgcount PROVE Counted'
  <2>1. Ending(t, Now, "user", NoCall)
    BY <1>1 DEF Return, Ending
  <2> QED
    BY <1>1, <2>1, SendEndCounted
<1>2. CASE SendDead(t, c)
  BY <1>1, <1>2 DEF SendDead
<1>3. CASE SendTimedOut(t, c)
  BY <1>1, <1>3 DEF SendTimedOut, SendGiveUp
<1>4. CASE SendCircular(t, c)
  <2> DEFINE d == [NoCall EXCEPT !.obj = c.obj]
  <2>1. Ending(t, Now, "circular", d) /\ UNCHANGED msgcount
    BY <1>4 DEF SendCircular, Proceed, Ending
  <2> HIDE DEF d
  <2> QED
    BY <2>1, SendEndCounted
<1>5. CASE SendAccept(t, c)
  BY <1>5, SendAcceptCounted
<1>6. CASE /\ Block(t, [Now EXCEPT !.ith[t].state = "in_progress"], c, "send_wait")
           /\ UNCHANGED msgcount
  BY <1>6, SendBlockCounted
<1> QED
  BY <1>2, <1>3, <1>4, <1>5, <1>6 DEF SendLoop

\* Those in ip_blocked wait to send.
LEMMA BlockedWait ==
    ASSUME Inv, NEW p \in Ports
    PROVE  /\ \A u \in ToSet(blocked[p]) \cap Threads : pc[u] = "send_wait"
           /\ \A k \in Nat : \A u \in ToSet(SubSeq(blocked[p], 1, k)) \cap Threads :
                 k <= Len(blocked[p]) => pc[u] = "send_wait"
           /\ blocked[p] # <<>> => pc[Head(blocked[p])] = "send_wait"
<1>1. /\ blocked[p] \in Seq(Threads)
      /\ \A u \in Threads : Listed(blocked[p], u) => pc[u] = "send_wait"
  BY DEF Inv, Types, Sending, Blocked
<1>2. \A u : u \in ToSet(blocked[p]) <=> Listed(blocked[p], u)
  BY <1>1, ToSetIs
<1>3. ASSUME NEW k \in Nat, k <= Len(blocked[p]), NEW u \in ToSet(SubSeq(blocked[p], 1, k)) \cap Threads
      PROVE  pc[u] = "send_wait"
  <2> DEFINE l == SubSeq(blocked[p], 1, k)
  <2>1. l \in Seq(Threads) /\ Len(l) = k /\ \A j \in 1 .. k : l[j] = blocked[p][j] /\ j \in 1 .. Len(blocked[p])
    BY <1>1, <1>3, SMT
  <2>2. Listed(l, u)
    BY <2>1, <1>3, ToSetIs
  <2> HIDE DEF l
  <2>3. Listed(blocked[p], u)
    BY <2>1, <2>2 DEF Listed
  <2> QED
    BY <1>1, <1>3, <2>3
<1>4. ASSUME blocked[p] # <<>> PROVE pc[Head(blocked[p])] = "send_wait"
  <2>1. 1 \in 1 .. Len(blocked[p]) /\ Head(blocked[p]) = blocked[p][1] /\ blocked[p][1] \in Threads
    BY <1>1, <1>4, SMT
  <2>2. Listed(blocked[p], Head(blocked[p]))
    BY <2>1 DEF Listed
  <2> QED
    BY <1>1, <2>1, <2>2
<1> QED
  BY <1>1, <1>2, <1>3, <1>4

LEMMA SendCounted == ASSUME Inv, Counted, NEW t \in Threads, ipc_mqueue_send(t) PROVE Counted'
<1>1. PICK p \in Ports, n \in Sizes, o \in Options :
         SendLoop(t, [obj |-> p, size |-> n, opt |-> o, circ |-> FALSE], blocked)
  BY DEF ipc_mqueue_send
<1> DEFINE c == [obj |-> p, size |-> n, opt |-> o, circ |-> FALSE]
<1>2. pc[t] = "user" /\ UNCHANGED active
  BY DEF ipc_mqueue_send
<1>3. c \in Call /\ c.obj \in Ports
  BY DEF Call, Queues
<1>4. SendLoop(t, c, blocked)
  BY <1>1
<1> HIDE DEF c
<1>5. SendNear(t, c)
  BY <1>2, <1>3 DEF SendNear
<1> QED
  BY <1>2, <1>4, <1>5, SendLoopCounted

LEMMA SendOwnRightLoopCounted ==
    ASSUME Inv, Counted, NEW t \in Threads, SendOwnRightLoop(t) PROVE Counted'
<1>1. pc[t] = "send" /\ SendLoop(t, call[t], blocked) /\ UNCHANGED active
  BY DEF SendOwnRightLoop
<1>2. SendNear(t, call[t])
  BY <1>1, CarriedIs DEF SendNear
<1> QED
  BY <1>1, <1>2, SendLoopCounted

LEMMA SendWokenCounted == ASSUME Inv, Counted, NEW t \in Threads, SendWoken(t) PROVE Counted'
<1> DEFINE c == call[t]
           d == [c EXCEPT !.opt = "poll"]
           off == [blocked EXCEPT ![c.obj] = Sublist(@, Threads \ {t})]
<1>1. pc[t] = "send_wait" /\ UNCHANGED active
  BY DEF SendWoken
<1>2. \/ SendLoop(t, c, blocked) \/ SendGiveUp(t, c) \/ SendLoop(t, d, off) \/ SendLoop(t, c, off)
  BY DEF SendWoken
<1>3. c \in Call /\ c.obj \in Ports
  BY <1>1, CarriedIs
<1>4. d \in Call /\ d.obj = c.obj
  BY <1>3 DEF Call
<1> HIDE DEF c, d, off
<1>5. SendNear(t, c) /\ SendNear(t, d)
  BY <1>1, <1>3, <1>4 DEF SendNear
<1>6. CASE SendGiveUp(t, c)
  <2>1. Ending(t, Now, "user", NoCall) /\ UNCHANGED msgcount
    BY <1>6 DEF SendGiveUp, Return, Ending
  <2> QED
    BY <1>1, <1>5, <2>1, SendEndCounted
<1> QED
  BY <1>1, <1>2, <1>5, <1>6, SendLoopCounted

LEMMA SendGoCounted == ASSUME Inv, Counted, NEW t \in Threads, SendGo(t) PROVE Counted'
<1> DEFINE W == thread_go(wait, {call[t].obj})
           s == [Now EXCEPT !.wait = W]
<1>1. pc[t] = "send_go" /\ UNCHANGED <<active, msgcount>> /\ Return(t, s)
  BY NowIs DEF SendGo
<1>2. Now \in State /\ W \in [Threads -> Waiting]
  <2>1. Now \in State
    BY DEF Inv, Good
  <2>2. wait \in [Threads -> Waiting]
    BY <2>1, Fields, NowIs DEF StateTypes
  <2> QED
    BY <2>1, <2>2, GoIs
<1> HIDE DEF W
<1>3. s \in State
  BY <1>2, Zenon DEF State
<1>4. /\ s.ip_pset = Now.ip_pset /\ s.seqno = Now.seqno /\ s.messages = Now.messages
      /\ s.receivers = Now.receivers /\ s.ith = Now.ith
  BY <1>2, Zenon DEF State
<1> HIDE DEF s
<1>5. Accounts(Now, Awake(t), call, msgcount, active)
  BY <1>1, AwakeAccounts
<1>6. Unmoved(Now, Awake(t), call, s, Awake(t), call, t)
  BY <1>4 DEF Unmoved, SameQueues
<1>7. \A p \in Ports : Taking(s, Awake(t), call, t, p) <=> Taking(Now, Awake(t), call, t, p)
  BY <1>4 DEF Taking
<1>8. Accounts(s, Awake(t), call, msgcount, active)
  BY <1>2, <1>5, <1>6, <1>7, ThreadAccounts
<1>9. Ending(t, s, "user", NoCall)
  BY <1>1 DEF Return, Ending
<1>10. Accounts(Now', pc', call', msgcount, active)
  BY <1>3, <1>8, <1>9, EndAccounts
<1> QED
  BY <1>1, <1>10 DEF Counted

\* A thread that takes nothing goes on, after the queues have come to be as
\* in o.
LEMMA OnwardCounted ==
    ASSUME Inv, NEW t \in Threads, pc[t] \in {"user", "circular"}, NEW to \in {"user", "send"}, NEW c,
           NEW o \in State, Commit(o), pc' = [pc EXCEPT ![t] = to], call' = [call EXCEPT ![t] = c],
           Accounts(o, pc, call, msgcount, active'), UNCHANGED msgcount
    PROVE  Counted'
<1>1. /\ pc'[t] = to /\ \A u \in Threads \ {t} : pc'[u] = pc[u] /\ call'[u] = call[u]
  BY DEF Inv, Types
<1>2. Now' = o
  BY CommitIs
<1>3. Unmoved(o, pc, call, o, pc', call', t)
  BY <1>1 DEF Unmoved, SameQueues
<1>4. \A p \in Ports : Taking(o, pc', call', t, p) <=> Taking(o, pc, call, t, p)
  BY <1>1 DEF Taking
<1>5. Accounts(o, pc', call', msgcount, active')
  BY <1>3, <1>4, ThreadAccounts
<1> QED
  BY <1>2, <1>5 DEF Counted

\* A port whose right is in a space lives.
LEMMA HeldIs == ASSUME Inv, NEW p \in held PROVE p \in Ports /\ p \in active
  BY DEF Inv, Types, Rights

LEMMA ClearedIs ==
    ASSUME Inv, Counted, NEW p \in held
    PROVE  /\ ipc_port_clear_receiver(Now, p) \in State
           /\ Accounts(ipc_port_clear_receiver(Now, p), pc, call, msgcount, active)
<1>1. Good(Now, pc, call, Live, {}) /\ p \in Ports /\ p \in active
  BY HeldIs DEF Inv
<1>2. Moved(Now, ipc_port_clear_receiver(Now, p), pc, call, Live, p, Null)
  BY <1>1, ClearGood
<1>3. Accounts(ipc_port_clear_receiver(Now, p), pc, call, msgcount, active)
  BY <1>1, ClearAccounts DEF Counted
<1> QED
  BY <1>2, <1>3 DEF Moved, Good

LEMMA SendOwnRightCounted ==
    ASSUME Inv, Counted, NEW t \in Threads, SendOwnRight(t) PROVE Counted'
<1>1. pc[t] = "user" /\ UNCHANGED <<active, msgcount>>
  BY DEF SendOwnRight
<1>2. PICK p \in held, o \in Options \ {"always"} :
          /\ Commit(ipc_port_clear_receiver(Now, p))
          /\ pc' = [pc EXCEPT ![t] = "send"]
          /\ call' = [call EXCEPT ![t] = [obj |-> p, size |-> 0, opt |-> o, circ |-> TRUE]]
  BY DEF SendOwnRight
<1> DEFINE c == [obj |-> p, size |-> 0, opt |-> o, circ |-> TRUE]
           s == ipc_port_clear_receiver(Now, p)
<1>3. s \in State /\ Accounts(s, pc, call, msgcount, active)
  BY ClearedIs
<1>4. call' = [call EXCEPT ![t] = c] /\ pc' = [pc EXCEPT ![t] = "send"] /\ Commit(s)
  BY <1>2
<1> HIDE DEF c, s
<1>5. Accounts(s, pc, call, msgcount, active')
  BY <1>1, <1>3
<1> QED
  BY <1>1, <1>3, <1>4, <1>5, OnwardCounted

\* ipc_port_destroy, on queues as in s, leaves them as in some o.
LEMMA DestroyAccounts ==
    ASSUME Inv, NEW p \in Ports, NEW s \in State, Accounts(s, pc, call, msgcount, active),
           ipc_port_destroy(p, s)
    PROVE  \E o \in State : Commit(o) /\ Accounts(o, pc, call, msgcount, active')
<1>1. CASE Commit(s) /\ UNCHANGED active
  BY <1>1
<1>2. CASE active' = active \ {p} /\ Commit(Rouse(s, ToSet(blocked[p])))
  <2> DEFINE o == Rouse(s, ToSet(blocked[p]))
  <2>1. \A u \in ToSet(blocked[p]) \cap Threads : pc[u] = "send_wait"
    BY BlockedWait
  <2>2. Accounts(o, pc, call, msgcount, active)
    BY <2>1, RouseAccounts
  <2>3. o \in State
    <3>1. Roused(s, o, ToSet(blocked[p]))
      BY RouseIs
    <3> QED
      BY <3>1 DEF Roused
  <2>4. Commit(o)
    BY <1>2
  <2> HIDE DEF o
  <2>5. Accounts(o, pc, call, msgcount, active')
    BY <1>2, <2>2 DEF Accounts
  <2> QED
    BY <2>3, <2>4, <2>5
<1> QED
  BY <1>1, <1>2 DEF ipc_port_destroy

LEMMA DestroyCircularCounted ==
    ASSUME Inv, Counted, NEW t \in Threads, DestroyCircular(t) PROVE Counted'
<1> DEFINE p == call[t].obj
<1>1. /\ pc[t] = "circular" /\ ipc_port_destroy(p, Now)
      /\ pc' = [pc EXCEPT ![t] = "user"] /\ call' = [call EXCEPT ![t] = NoCall]
  BY DEF DestroyCircular
<1>2. p \in Ports
  <2>1. PlaceOf(Now, pc, call, t)
    BY DEF Inv, Place
  <2> QED
    BY <1>1, <2>1 DEF PlaceOf
<1>3. Now \in State /\ Accounts(Now, pc, call, msgcount, active)
  BY DEF Inv, Good, Counted
<1> HIDE DEF p
<1>4. PICK o \in State : Commit(o) /\ Accounts(o, pc, call, msgcount, active')
  BY <1>1, <1>2, <1>3, DestroyAccounts
<1>5. UNCHANGED msgcount
  BY <1>1 DEF ipc_port_destroy
<1> QED
  BY <1>1, <1>4, <1>5, OnwardCounted

\* t is in the loop of ipc_mqueue_receive, and the queues are as in s.
RcvNear(t, c, s) ==
    /\ c \in Call /\ c.obj \in Queues /\ s \in State
    /\ Accounts(s, Awake(t), call, msgcount, active)

\* A receiver returns without a message.
LEMMA RcvEndCounted ==
    ASSUME Inv, NEW t \in Threads, NEW c, NEW s, RcvNear(t, c, s), Return(t, s),
           UNCHANGED <<active, msgcount>>
    PROVE  Counted'
<1>1. Ending(t, s, "user", NoCall) /\ s \in State
  BY DEF Return, Ending, RcvNear
<1>2. Accounts(Now', pc', call', msgcount, active)
  BY <1>1, EndAccounts DEF RcvNear
<1> QED
  BY <1>2 DEF Counted

\* A receiver takes the first message of the queue.
LEMMA RcvTakeCounted ==
    ASSUME Inv, NEW t \in Threads, NEW c, NEW s, RcvNear(t, c, s), s.messages[c.obj] # <<>>,
           Proceed(t, [s EXCEPT !.messages[c.obj] = Tail(@),
                                !.seqno[Head(s.messages[c.obj]).port] = Next1(@)],
                   "rcv_got", Head(s.messages[c.obj]).port),
           UNCHANGED <<active, msgcount>>
    PROVE  Counted'
<1> DEFINE q == c.obj
           m == Head(s.messages[q])
           M == [s.messages EXCEPT ![q] = Tail(@)]
           N == [s.seqno EXCEPT ![m.port] = Next1(@)]
           o == [s EXCEPT !.messages[q] = Tail(@), !.seqno[m.port] = Next1(@)]
           d == [NoCall EXCEPT !.obj = m.port]
<1>0. s \in State /\ StateTypes(s) /\ q \in Queues
  BY Fields DEF RcvNear
<1>1. Ending(t, o, "rcv_got", d)
  BY DEF Proceed, Ending
<1>2. m \in Message /\ m.port \in Ports /\ s.messages[q] \in Seq(Message) /\ Tail(s.messages[q]) \in Seq(Message)
  <2>1. s.messages[q] \in Seq(Message) /\ s.messages[q] # <<>>
    BY <1>0 DEF StateTypes
  <2>2. m \in Message /\ Tail(s.messages[q]) \in Seq(Message)
    BY <2>1, ListedTail
  <2> QED
    BY <2>1, <2>2 DEF Message
<1>3. o = [s EXCEPT !.messages = M, !.seqno = N]
  OBVIOUS
<1>4. d.obj = m.port
  BY DEF NoCall
<1>5. M \in [Queues -> Seq(Message)]
  BY <1>0, <1>2 DEF StateTypes
<1>6. N \in [Ports -> 0 .. SeqnoMod - 1]
  <2>1. s.seqno \in [Ports -> 0 .. SeqnoMod - 1]
    BY <1>0 DEF StateTypes
  <2>2. Next1(s.seqno[m.port]) \in 0 .. SeqnoMod - 1
    BY <1>2, <2>1, Next1Is
  <2> QED
    BY <2>1, <2>2, Zenon
<1> HIDE DEF o, M, N, d
<1>7. /\ o \in State /\ o.ip_pset = s.ip_pset /\ o.messages = M /\ o.seqno = N /\ o.ith = s.ith
  <2>1. o \in State
    BY <1>0, <1>3, <1>5, <1>6, Zenon DEF State
  <2>2. /\ o.ip_pset = s.ip_pset /\ o.messages = M /\ o.seqno = N /\ o.ith = s.ith
    BY <1>0, <1>3, Zenon DEF State
  <2> QED
    BY <2>1, <2>2
<1>8. /\ SameQueues(o, Now') /\ (Now').seqno = o.seqno
      /\ (Now').ith[t].state = "none" /\ pc'[t] = "rcv_got" /\ call'[t] = d
      /\ \A u \in Threads \ {t} : /\ pc'[u] = pc[u] /\ call'[u] = call[u]
                                  /\ (Now').ith[u] = o.ith[u]
  BY <1>1, <1>7, EndIs
<1>9. Awake(t)[t] = "user" /\ \A u \in Threads \ {t} : Awake(t)[u] = pc[u]
  BY DEF Inv, Types, Awake
<1>10. Takes(s, Awake(t), call, Now', pc', call', t, q)
  <2>1. \A u \in Threads \ {t}, p \in Ports :
           Taking(Now', pc', call', u, p) <=> Taking(s, Awake(t), call, u, p)
    BY <1>7, <1>8, <1>9 DEF Taking
  <2>2. \A p \in Ports : /\ ~Taking(s, Awake(t), call, t, p)
                         /\ Taking(Now', pc', call', t, p) <=> p = m.port
    BY <1>4, <1>8, <1>9 DEF Taking
  <2>3. /\ (Now').ip_pset = s.ip_pset /\ (Now').messages = M /\ (Now').seqno = N
    BY <1>7, <1>8 DEF SameQueues
  <2> QED
    BY <2>1, <2>2, <2>3 DEF Takes, M, N
<1>11. Accounts(Now', pc', call', msgcount, active)
  <2>1. Accounts(s, Awake(t), call, msgcount, active) /\ s.messages[q] # <<>>
    BY DEF RcvNear
  <2> HIDE DEF q
  <2> QED
    BY <1>0, <1>10, <2>1, TakeAccounts
<1> QED
  BY <1>11 DEF Counted

\* A receiver begins to wait.
LEMMA RcvBlockCounted ==
    ASSUME Inv, NEW t \in Threads, NEW c, NEW s, RcvNear(t, c, s),
           Block(t, [s EXCEPT !.receivers[c.obj] = Append(@, t),
                              !.ith[t] = [@ EXCEPT !.state = "in_progress",
                                                   !.msize = c.size]], c, "rcv_wait"),
           UNCHANGED <<active, msgcount>>
    PROVE  Counted'
<1> DEFINE q == c.obj
           i == [s.ith[t] EXCEPT !.state = "in_progress", !.msize = c.size]
           R == [s.receivers EXCEPT ![q] = Append(@, t)]
           r == [s EXCEPT !.receivers = R]
<1>0. s \in State /\ StateTypes(s) /\ q \in Queues /\ c \in Call
  BY Fields DEF RcvNear
<1>1. Blocking(t, r, i, "rcv_wait", c)
  BY DEF Block, Blocking
<1>2. i \in Ith /\ i.state = "in_progress"
  <2>1. s.ith[t] \in Ith /\ c.size \in Sizes \cup {0}
    BY <1>0 DEF StateTypes, Call
  <2> QED
    BY <2>1 DEF Ith
<1>3. R \in [Queues -> Seq(Threads)]
  BY <1>0 DEF StateTypes
<1> HIDE DEF R, i
<1>4. /\ r \in State /\ r.ip_pset = s.ip_pset /\ r.messages = s.messages /\ r.seqno = s.seqno
      /\ r.ith = s.ith
  <2>1. r \in State
    BY <1>0, <1>3, Zenon DEF State
  <2>2. /\ r.ip_pset = s.ip_pset /\ r.messages = s.messages /\ r.seqno = s.seqno /\ r.ith = s.ith
    BY <1>0, Zenon DEF State
  <2> QED
    BY <2>1, <2>2
<1> HIDE DEF r
<1>5. Accounts(r, Awake(t), call, msgcount, active)
  <2>1. \A p \in Ports \cap active :
              /\ r.ip_pset[p] = s.ip_pset[p] /\ r.seqno[p] = s.seqno[p]
              /\ \A y \in Queues : Queued(r, y, p) = Queued(s, y, p)
              /\ \A u \in Threads : Taking(r, Awake(t), call, u, p) <=> Taking(s, Awake(t), call, u, p)
    BY <1>4 DEF Queued, Taking
  <2> QED
    BY <1>0, <2>1, AccountsSame DEF RcvNear
<1>6. /\ SameQueues(r, Now') /\ (Now').seqno = r.seqno
      /\ (Now').ith[t] = i /\ pc'[t] = "rcv_wait" /\ call'[t] = c
      /\ \A u \in Threads \ {t} : /\ pc'[u] = pc[u] /\ call'[u] = call[u]
                                  /\ (Now').ith[u] = r.ith[u]
  BY <1>1, <1>2, <1>4, BlockIs
<1>7. Awake(t)[t] = "user" /\ \A u \in Threads \ {t} : Awake(t)[u] = pc[u]
  BY DEF Inv, Types, Awake
<1>8. Unmoved(r, Awake(t), call, Now', pc', call', t)
  BY <1>6, <1>7 DEF Unmoved
<1>9. \A p \in Ports : Taking(Now', pc', call', t, p) <=> Taking(r, Awake(t), call, t, p)
  BY <1>2, <1>6, <1>7 DEF Taking
<1>10. Accounts(Now', pc', call', msgcount, active)
  BY <1>4, <1>5, <1>8, <1>9, ThreadAccounts
<1> QED
  BY <1>10 DEF Counted

LEMMA RcvLoopCounted ==
    ASSUME Inv, NEW t \in Threads, NEW c, NEW s, RcvNear(t, c, s), RcvLoop(t, c, s),
           UNCHANGED <<active, msgcount>>
    PROVE  Counted'
  BY RcvEndCounted, RcvTakeCounted, RcvBlockCounted DEF RcvLoop

LEMMA ReceiveCounted ==
    ASSUME Inv, Counted, NEW t \in Threads, ipc_mqueue_receive(t) PROVE Counted'
<1>1. pc[t] = "user" /\ UNCHANGED <<active, msgcount>>
  BY DEF ipc_mqueue_receive
<1>2. PICK q \in Queues, n \in Sizes, o \in Options \ {"always"} :
          /\ MayReceive(q)
          /\ RcvLoop(t, [obj |-> q, size |-> n, opt |-> o, circ |-> FALSE],
                     IF q \in Ports THEN LeaveDeadSet(Now, q) ELSE Now)
  BY DEF ipc_mqueue_receive
<1> DEFINE c == [obj |-> q, size |-> n, opt |-> o, circ |-> FALSE]
           s == IF q \in Ports THEN LeaveDeadSet(Now, q) ELSE Now
<1>3. c \in Call /\ c.obj = q
  BY DEF Call
<1>4. RcvLoop(t, c, s)
  BY <1>2
<1> HIDE DEF c
<1>5. Good(Now, Awake(t), call, Live, {}) /\ Accounts(Now, Awake(t), call, msgcount, active)
  BY <1>1, GoodAwake, AwakeAccounts
<1>6. s \in State /\ Accounts(s, Awake(t), call, msgcount, active)
  <2>1. CASE q \in Ports
    <3>1. q \in active
      <4>1. q \in held
        BY <1>2, <2>1, ObjectsAssumption DEF MayReceive, ObjectsAssumption
      <4> QED
        BY <4>1, HeldIs
    <3>2. Good(LeaveDeadSet(Now, q), Awake(t), call, Live, {})
      BY <1>5, <2>1, LeaveGood
    <3>3. Accounts(LeaveDeadSet(Now, q), Awake(t), call, msgcount, active)
      BY <1>5, <2>1, <3>1, LeaveAccounts
    <3> QED
      BY <2>1, <3>2, <3>3 DEF Good
  <2>2. CASE q \notin Ports
    BY <1>5, <2>2 DEF Good
  <2> QED
    BY <2>1, <2>2
<1> HIDE DEF s
<1>7. RcvNear(t, c, s)
  BY <1>3, <1>6 DEF RcvNear
<1> QED
  BY <1>1, <1>4, <1>7, RcvLoopCounted

\* A receiver that was told nothing is off the queue.
LEMMA OffNear ==
    ASSUME Inv, Counted, NEW t \in Threads, pc[t] = "rcv_wait", ith[t].state = "in_progress",
           NEW c \in Call, c.obj = call[t].obj
    PROVE  RcvNear(t, c, Off(t))
<1> DEFINE o == Off(t)
<1>1. Good(o, Awake(t), call, Live, {}) /\ o.ip_pset = ip_pset /\ o.ith = ith /\ c.obj \in Queues
  BY OffGood
<1>2. Now \in State /\ Accounts(Now, Awake(t), call, msgcount, active)
  <2>1. Now \in State
    BY DEF Inv, Good
  <2> QED
    BY <2>1, AwakeAccounts
<1>3. o.messages = Now.messages /\ o.seqno = Now.seqno
  BY <1>2, Zenon DEF State, Off
<1> HIDE DEF o
<1>4. \A p \in Ports \cap active :
            /\ o.ip_pset[p] = Now.ip_pset[p] /\ o.seqno[p] = Now.seqno[p]
            /\ \A y \in Queues : Queued(o, y, p) = Queued(Now, y, p)
            /\ \A u \in Threads : Taking(o, Awake(t), call, u, p) <=> Taking(Now, Awake(t), call, u, p)
  BY <1>1, <1>3, NowIs DEF Queued, Taking
<1>5. Accounts(o, Awake(t), call, msgcount, active)
  BY <1>2, <1>4, AccountsSame
<1> QED
  BY <1>1, <1>5 DEF RcvNear, Good, o

LEMMA RcvWokenCounted == ASSUME Inv, Counted, NEW t \in Threads, RcvWoken(t) PROVE Counted'
<1> DEFINE c == call[t]
           d == [c EXCEPT !.opt = "poll"]
           port == ith[t].kmsg.port
           g == [NoCall EXCEPT !.obj = port]
<1>1. pc[t] = "rcv_wait" /\ UNCHANGED <<active, msgcount>>
  BY DEF RcvWoken
<1>2. \/ ith[t].state = "success" /\ Proceed(t, Now, "rcv_got", port)
      \/ ith[t].state \in {"too_large", "died", "changed"} /\ Return(t, Now)
      \/ ith[t].state = "in_progress" /\ Return(t, Off(t))
      \/ ith[t].state = "in_progress" /\ RcvLoop(t, d, Off(t))
      \/ ith[t].state = "in_progress" /\ RcvLoop(t, c, Off(t))
  BY DEF RcvWoken, Off
<1>3. c \in Call /\ PlaceOf(Now, pc, call, t) /\ Now \in State
  BY DEF Inv, Types, Place, Good
<1>4. d \in Call /\ d.obj = c.obj
  BY <1>3 DEF Call
<1> HIDE DEF d
<1>5. CASE ith[t].state = "success" /\ Proceed(t, Now, "rcv_got", port)
  <2>1. g.obj = port
    BY DEF NoCall
  <2>2. Ending(t, Now, "rcv_got", g)
    BY <1>5 DEF Proceed, Ending
  <2> HIDE DEF g
  <2>3. /\ SameQueues(Now, Now') /\ (Now').seqno = Now.seqno
        /\ pc'[t] = "rcv_got" /\ call'[t] = g
        /\ \A u \in Threads \ {t} : /\ pc'[u] = pc[u] /\ call'[u] = call[u]
                                    /\ (Now').ith[u] = Now.ith[u]
    BY <1>3, <2>2, EndIs
  <2>4. Unmoved(Now, pc, call, Now', pc', call', t)
    BY <2>3 DEF Unmoved
  <2>5. \A p \in Ports : Taking(Now', pc', call', t, p) <=> Taking(Now, pc, call, t, p)
    BY <1>1, <1>5, <2>1, <2>3, NowIs DEF Taking
  <2>6. Accounts(Now', pc', call', msgcount, active)
    BY <1>3, <2>4, <2>5, ThreadAccounts DEF Counted
  <2> QED
    BY <1>1, <2>6 DEF Counted
<1>6. CASE ith[t].state \in {"too_large", "died", "changed"} /\ Return(t, Now)
  <2>1. Accounts(Now, Awake(t), call, msgcount, active)
    BY <1>1, <1>6, AwakeAccounts
  <2>2. Ending(t, Now, "user", NoCall)
    BY <1>6 DEF Return, Ending
  <2>3. Accounts(Now', pc', call', msgcount, active)
    BY <1>3, <2>1, <2>2, EndAccounts
  <2> QED
    BY <1>1, <2>3 DEF Counted
<1>7. ASSUME ith[t].state = "in_progress" PROVE RcvNear(t, c, Off(t)) /\ RcvNear(t, d, Off(t))
  BY <1>1, <1>3, <1>4, <1>7, OffNear
<1>8. CASE ith[t].state = "in_progress" /\ Return(t, Off(t))
  BY <1>1, <1>7, <1>8, RcvEndCounted
<1>9. CASE ith[t].state = "in_progress" /\ RcvLoop(t, d, Off(t))
  BY <1>1, <1>7, <1>9, RcvLoopCounted
<1>10. CASE ith[t].state = "in_progress" /\ RcvLoop(t, c, Off(t))
  BY <1>1, <1>7, <1>10, RcvLoopCounted
<1> QED
  BY <1>2, <1>5, <1>6, <1>8, <1>9, <1>10

LEMMA InterruptedCounted ==
    ASSUME Inv, Counted, NEW t \in Threads, mach_msg_interrupt(t) PROVE Counted'
<1>1. /\ pc[t] = "rcv_wait" /\ ith[t].state = "in_progress" /\ Return(t, Off(t))
      /\ UNCHANGED <<active, msgcount>>
  BY DEF mach_msg_interrupt, Off
<1>2. call[t] \in Call
  BY DEF Inv, Types
<1>3. RcvNear(t, call[t], Off(t))
  BY <1>1, <1>2, OffNear
<1> QED
  BY <1>1, <1>3, RcvEndCounted

\* The receiver has the message, and its port's count goes down.
LEMMA RcvFinishCounted == ASSUME Inv, Counted, NEW t \in Threads, RcvFinish(t) PROVE Counted'
<1> DEFINE p == call[t].obj
           x == Head(blocked[p])
           n == msgcount[p] - 1
<1>1. pc[t] = "rcv_got" /\ UNCHANGED active
  BY DEF RcvFinish
<1>2. p \in Ports
  <2>1. PlaceOf(Now, pc, call, t)
    BY DEF Inv, Place
  <2> QED
    BY <1>1, <2>1 DEF PlaceOf
<1>3. Now \in State /\ msgcount \in [Ports -> Int]
  BY DEF Inv, Good, Types
<1>4. ASSUME NEW s \in State, SameQueues(Now, s), s.seqno = seqno,
             \A u \in Threads : s.ith[u] = ith[u] \/ pc[u] = "send_wait",
             Return(t, s), p \in active => msgcount'[p] = n,
             \A r \in Ports \ {p} : msgcount'[r] = msgcount[r]
      PROVE  Counted'
  <2>1. Ending(t, s, "user", NoCall)
    BY <1>4 DEF Return, Ending
  <2>2. /\ SameQueues(s, Now') /\ (Now').seqno = s.seqno /\ pc'[t] = "user"
        /\ \A u \in Threads \ {t} : /\ pc'[u] = pc[u] /\ call'[u] = call[u]
                                    /\ (Now').ith[u] = s.ith[u]
    BY <1>4, <2>1, EndIs
  <2>3. Unmoved(Now, pc, call, Now', pc', call', t)
    BY <1>4, <2>2, NowIs DEF Unmoved, SameQueues
  <2>4. \A r \in Ports : /\ ~Taking(Now', pc', call', t, r)
                         /\ Taking(Now, pc, call, t, r) <=> r = p
    BY <1>1, <2>2 DEF Taking
  <2>5. Accounts(Now', pc', call', msgcount', active)
    BY <1>2, <1>3, <1>4, <2>3, <2>4, DropAccounts DEF Counted
  <2> QED
    BY <1>1, <2>5 DEF Counted
<1>5. ASSUME Return(t, Now), p \in active => msgcount'[p] = n,
             \A r \in Ports \ {p} : msgcount'[r] = msgcount[r]
      PROVE  Counted'
  BY <1>3, <1>4, <1>5, NowIs DEF SameQueues
<1>6. ASSUME blocked[p] # <<>>, Return(t, Rouse(Now, {x})), p \in active => msgcount'[p] = n,
             \A r \in Ports \ {p} : msgcount'[r] = msgcount[r]
      PROVE  Counted'
  <2> DEFINE s == Rouse(Now, {x})
  <2>1. pc[x] = "send_wait"
    BY <1>2, <1>6, BlockedWait
  <2>2. Roused(Now, s, {x})
    BY <1>3, RouseIs
  <2>3. s.seqno = Now.seqno
    BY <1>3, RouseSeqno
  <2>4. Return(t, s)
    BY <1>6
  <2> HIDE DEF s
  <2>5. \A u \in Threads : s.ith[u] = ith[u] \/ pc[u] = "send_wait"
    BY <2>1, <2>2, NowIs DEF Roused
  <2> QED
    BY <1>4, <1>6, <2>2, <2>3, <2>4, <2>5, NowIs DEF Roused
<1>7. \/ /\ blocked[p] # <<>> /\ Return(t, Rouse(Now, {x}))
         /\ msgcount' = [msgcount EXCEPT ![p] = n]
      \/ Return(t, Now) /\ msgcount' = [msgcount EXCEPT ![p] = n]
      \/ p \notin active /\ Return(t, Now) /\ UNCHANGED msgcount
  BY DEF RcvFinish
<1>8. msgcount' = [msgcount EXCEPT ![p] = n] =>
        msgcount'[p] = n /\ \A r \in Ports \ {p} : msgcount'[r] = msgcount[r]
  BY <1>2, <1>3
<1> QED
  BY <1>5, <1>6, <1>7, <1>8

LEMMA WaitEndsCounted ==
    ASSUME Inv, Counted, NEW t \in Threads, NEW result, WaitEnds(t, result) PROVE Counted'
<1>1. UNCHANGED <<active, ip_pset, msgcount, seqno, messages, ith, pc, call>>
  BY DEF WaitEnds
<1>2. (Now').ip_pset = Now.ip_pset /\ (Now').seqno = Now.seqno /\ (Now').messages = Now.messages
      /\ (Now').ith = Now.ith
  BY <1>1 DEF Now
<1>3. Now \in State
  BY DEF Inv, Good
<1>4. \A p \in Ports \cap active :
            /\ (Now').ip_pset[p] = Now.ip_pset[p] /\ (Now').seqno[p] = Now.seqno[p]
            /\ \A y \in Queues : Queued(Now', y, p) = Queued(Now, y, p)
            /\ \A u \in Threads : Taking(Now', pc', call', u, p) <=> Taking(Now, pc, call, u, p)
  BY <1>1, <1>2 DEF Queued, Taking
<1>5. Accounts(Now', pc', call', msgcount, active)
  BY <1>3, <1>4, AccountsSame DEF Counted
<1> QED
  BY <1>1, <1>5 DEF Counted

-----------------------------------------------------------------------------
(* The accounts after each operation on a port or a set.                    *)

\* A step of no thread that makes the queues what they are in o.
LEMMA QueuesCounted ==
    ASSUME Inv, NEW o \in State, Commit(o), UNCHANGED <<msgcount, pc, call>>,
           Accounts(o, pc, call, msgcount, active')
    PROVE  Counted'
<1>1. Now' = o
  BY CommitIs
<1> QED
  BY <1>1 DEF Counted

LEMMA SetQlimitCounted ==
    ASSUME Inv, Counted, NEW p \in Ports, ipc_port_set_qlimit(p) PROVE Counted'
<1>1. UNCHANGED <<active, msgcount, pc, call>>
  BY DEF ipc_port_set_qlimit
<1>2. PICK n \in Qlimits :
         Commit(Rouse(Now, ToSet(SubSeq(blocked[p], 1,
                   IF n <= qlimit[p] THEN 0
                   ELSE IF n - qlimit[p] < Len(blocked[p]) THEN n - qlimit[p]
                   ELSE Len(blocked[p])))))
  BY DEF ipc_port_set_qlimit
<1> DEFINE k == IF n <= qlimit[p] THEN 0
                ELSE IF n - qlimit[p] < Len(blocked[p]) THEN n - qlimit[p]
                ELSE Len(blocked[p])
           ts == ToSet(SubSeq(blocked[p], 1, k))
           o == Rouse(Now, ts)
<1>3. k \in Nat /\ k <= Len(blocked[p])
  <2>1. n \in Int /\ qlimit[p] \in Int
    <3>1. Qlimits \subseteq Nat
      BY BoundsAssumption DEF BoundsAssumption
    <3>2. qlimit[p] \in Qlimits \cup {1}
      BY DEF Inv, Types
    <3>3. \A x \in Qlimits \cup {1} : x \in Int
      BY <3>1
    <3> QED
      BY <3>2, <3>3, Zenon
  <2>2. Len(blocked[p]) \in Nat
    <3>1. blocked[p] \in Seq(Threads)
      BY DEF Inv, Types
    <3> QED
      BY <3>1
  <2> QED
    BY <2>1, <2>2, SMT
<1>4. Commit(o)
  BY <1>2
<1> HIDE DEF k
<1>5. \A u \in ts \cap Threads : pc[u] = "send_wait"
  BY <1>3, BlockedWait
<1> HIDE DEF ts
<1>6. Now \in State /\ Accounts(Now, pc, call, msgcount, active)
  BY DEF Inv, Good, Counted
<1>7. Accounts(o, pc, call, msgcount, active)
  BY <1>5, <1>6, RouseAccounts
<1>8. o \in State
  <2>1. Roused(Now, o, ts)
    BY <1>6, RouseIs
  <2> HIDE DEF o
  <2> QED
    BY <2>1 DEF Roused
<1> HIDE DEF o
<1>9. Accounts(o, pc, call, msgcount, active')
  BY <1>1, <1>7
<1> QED
  BY <1>1, <1>4, <1>8, <1>9, QueuesCounted

LEMMA SetSeqnoCounted ==
    ASSUME Inv, Counted, NEW p \in Ports, ipc_port_set_seqno(p) PROVE Counted'
<1>1. p \in held /\ UNCHANGED <<active, msgcount, pc, call>>
  BY DEF ipc_port_set_seqno
<1>2. PICK n \in {0, SeqnoMod - 1} : Commit(Renumber(LeaveDeadSet(Now, p), p, n))
  BY DEF ipc_port_set_seqno
<1> DEFINE s == LeaveDeadSet(Now, p)
           o == Renumber(s, p, n)
<1>3. n \in 0 .. SeqnoMod - 1
  BY ModulusIs, SMT
<1>4. Commit(o)
  BY <1>2
<1> HIDE DEF s, o
<1>5. Good(s, pc, call, Live, {}) /\ Accounts(s, pc, call, msgcount, active)
  <2>1. Good(Now, pc, call, Live, {}) /\ p \in active
    BY <1>1, HeldIs DEF Inv
  <2>2. Good(s, pc, call, Live, {})
    BY <2>1, LeaveGood DEF s
  <2>3. Accounts(s, pc, call, msgcount, active)
    BY <2>1, LeaveAccounts DEF Counted, s
  <2> QED
    BY <2>2, <2>3
<1>6. Good(o, pc, call, Live, {})
  BY <1>3, <1>5, RenumberGood DEF o
<1>7. s \in State /\ o \in State
  BY <1>5, <1>6 DEF Good
<1>8. Accounts(o, pc, call, msgcount, active)
  BY <1>3, <1>5, <1>7, RenumberAccounts DEF o
<1>9. Accounts(o, pc, call, msgcount, active')
  BY <1>1, <1>8
<1> QED
  BY <1>1, <1>4, <1>7, <1>9, QueuesCounted

LEMMA PsetMoveCounted ==
    ASSUME Inv, Counted, NEW p \in Ports, ipc_pset_move(p) PROVE Counted'
<1>1. p \in held /\ UNCHANGED <<active, msgcount, pc, call>>
  BY DEF ipc_pset_move
<1> DEFINE s == IF ip_pset[p] = Null THEN Now ELSE ipc_pset_remove(Now, p)
<1>2. PICK nset \in (Psets \cap active) \cup {Null} :
          Commit(IF nset = Null THEN s ELSE ipc_pset_add(s, nset, p))
  BY DEF ipc_pset_move
<1>3. Good(Now, pc, call, Live, {}) /\ p \in active /\ ip_pset \in [Ports -> Psets \cup {Null}]
  <2>1. Good(Now, pc, call, Live, {}) /\ p \in active
    BY <1>1, HeldIs DEF Inv
  <2>2. ip_pset \in [Ports -> Psets \cup {Null}]
    BY <2>1, Fields, NowIs DEF StateTypes, Good
  <2> QED
    BY <2>1, <2>2
<1>4. Good(s, pc, call, Live, {}) /\ s.ip_pset[p] = Null /\ Accounts(s, pc, call, msgcount, active)
  <2>1. CASE ip_pset[p] = Null
    BY <1>3, <2>1, NowIs DEF Counted
  <2>2. CASE ip_pset[p] # Null
    <3>1. s = ipc_pset_remove(Now, p)
      BY <2>2
    <3> HIDE DEF s
    <3>2. Moved(Now, s, pc, call, Live, p, Null)
      BY <1>3, <2>2, <3>1, RemoveGood, NowIs
    <3>3. Accounts(s, pc, call, msgcount, active)
      BY <1>3, <2>2, <3>1, RemoveAccounts, NowIs DEF Counted
    <3> QED
      BY <1>3, <3>2, <3>3, NowIs DEF Moved
  <2> QED
    BY <2>1, <2>2
<1> HIDE DEF s
<1>5. CASE nset = Null
  <2>1. Commit(s) /\ s \in State /\ Accounts(s, pc, call, msgcount, active')
    BY <1>1, <1>2, <1>4, <1>5 DEF Good
  <2> QED
    BY <1>1, <2>1, QueuesCounted
<1>6. CASE nset # Null
  <2> DEFINE o == ipc_pset_add(s, nset, p)
  <2>1. Commit(o) /\ nset \in Psets
    BY <1>2, <1>6
  <2> HIDE DEF o
  <2>2. Moved(s, o, pc, call, Live, p, nset)
    BY <1>4, <2>1, AddGood DEF o
  <2>3. Accounts(o, pc, call, msgcount, active)
    BY <1>3, <1>4, <2>1, AddAccounts DEF o
  <2>4. o \in State /\ Accounts(o, pc, call, msgcount, active')
    BY <1>1, <2>2, <2>3 DEF Moved, Good
  <2> QED
    BY <1>1, <2>1, <2>4, QueuesCounted
<1> QED
  BY <1>5, <1>6

LEMMA PsetDestroyCounted ==
    ASSUME Inv, Counted, NEW set \in Psets, ipc_pset_destroy(set) PROVE Counted'
<1> DEFINE o == ipc_mqueue_changed(Now, set, "died")
<1>1. active' = active \ {set} /\ Commit(o) /\ UNCHANGED <<msgcount, pc, call>>
  BY DEF ipc_pset_destroy
<1>2. Good(Now, pc, call, Live, {}) /\ set \in Queues /\ "died" \in {"died", "changed"}
  BY DEF Inv, Queues
<1>3. Accounts(o, pc, call, msgcount, active)
  BY <1>2, ChangedAccounts DEF Counted
<1>4. Good(o, pc, call, Live, {})
  BY <1>2, ChangedGood
<1> HIDE DEF o
<1>5. o \in State /\ Accounts(o, pc, call, msgcount, active')
  BY <1>1, <1>3, <1>4 DEF Accounts, Good
<1> QED
  BY <1>1, <1>5, QueuesCounted

LEMMA MoveRightCounted ==
    ASSUME Inv, Counted, NEW p \in Ports, MoveRight(p) PROVE Counted'
<1> DEFINE o == ipc_port_clear_receiver(Now, p)
<1>1. p \in held /\ Commit(o) /\ UNCHANGED <<active, msgcount, pc, call>>
  BY DEF MoveRight
<1>2. o \in State /\ Accounts(o, pc, call, msgcount, active)
  BY <1>1, ClearedIs
<1> HIDE DEF o
<1>3. Accounts(o, pc, call, msgcount, active')
  BY <1>1, <1>2
<1> QED
  BY <1>1, <1>2, <1>3, QueuesCounted

LEMMA CopyoutRightCounted ==
    ASSUME Inv, Counted, NEW p \in Ports, CopyoutRight(p) PROVE Counted'
<1>1. UNCHANGED <<active, ip_pset, msgcount, seqno, messages, receivers, ith, wait, pc, call>>
  BY DEF CopyoutRight
<1>2. Now' = Now
  BY <1>1 DEF Now
<1> QED
  BY <1>1, <1>2 DEF Counted

LEMMA DestroyCounted ==
    ASSUME Inv, NEW p \in Ports, NEW s \in State, Accounts(s, pc, call, msgcount, active),
           ipc_port_destroy(p, s), UNCHANGED <<pc, call>>
    PROVE  Counted'
<1>1. PICK o \in State : Commit(o) /\ Accounts(o, pc, call, msgcount, active')
  BY DestroyAccounts
<1>2. UNCHANGED msgcount
  BY DEF ipc_port_destroy
<1> QED
  BY <1>1, <1>2, QueuesCounted

LEMMA DestroyRightCounted ==
    ASSUME Inv, Counted, NEW p \in Ports, DestroyRight(p) PROVE Counted'
<1> DEFINE s == ipc_port_clear_receiver(Now, p)
<1>1. p \in held /\ ipc_port_destroy(p, s) /\ UNCHANGED <<pc, call>>
  BY DEF DestroyRight
<1>2. s \in State /\ Accounts(s, pc, call, msgcount, active)
  BY <1>1, ClearedIs
<1> HIDE DEF s
<1> QED
  BY <1>1, <1>2, DestroyCounted

LEMMA DestroyInTransitCounted ==
    ASSUME Inv, Counted, NEW p \in Ports, DestroyInTransit(p) PROVE Counted'
<1>1. ipc_port_destroy(p, Now) /\ UNCHANGED <<pc, call>>
  BY DEF DestroyInTransit
<1>2. Now \in State /\ Accounts(Now, pc, call, msgcount, active)
  BY DEF Inv, Good, Counted
<1> QED
  BY <1>1, <1>2, DestroyCounted

\* What is destroyed at a dead port is nobody else's.
LEMMA DestroyMessageCounted ==
    ASSUME Inv, Counted, NEW p \in Ports, DestroyMessage(p) PROVE Counted'
<1>1. /\ p \notin active /\ messages[p] # <<>> /\ messages' = [messages EXCEPT ![p] = Tail(@)]
      /\ UNCHANGED <<active, ip_pset, msgcount, seqno, ith, pc, call>>
  BY DEF DestroyMessage
<1>2. /\ (Now').ip_pset = Now.ip_pset /\ (Now').seqno = Now.seqno /\ (Now').messages = messages'
      /\ (Now').ith = Now.ith
  BY <1>1 DEF Now
<1>3. Now \in State /\ StateTypes(Now) /\ Own(Now) /\ p \in Queues
  BY Fields DEF Inv, Good, Queues
<1>4. messages \in [Queues -> Seq(Message)] /\ messages[p] \in Seq(Message)
  BY <1>3, NowIs DEF StateTypes
<1>5. Head(messages[p]).port = p
  <2>1. 1 \in 1 .. Len(messages[p]) /\ Head(messages[p]) = messages[p][1]
    BY <1>1, <1>4, SMT
  <2> QED
    BY <1>3, <2>1, NowIs DEF Own
<1>6. ASSUME NEW r \in Ports \cap active, NEW y \in Queues PROVE Queued(Now', y, r) = Queued(Now, y, r)
  <2>1. CASE y # p
    BY <1>1, <1>2, <1>4, <2>1, NowIs DEF Queued
  <2>2. CASE y = p
    <3>1. r # p
      BY <1>1
    <3>2. ForPort(Tail(messages[p]), r) = ForPort(messages[p], r)
      BY <1>1, <1>4, <1>5, <3>1, ForPortTail
    <3> QED
      BY <1>1, <1>2, <1>3, <1>4, <2>2, <3>2, NowIs DEF Queued
  <2> QED
    BY <2>1, <2>2
<1>7. \A r \in Ports \cap active :
            /\ (Now').ip_pset[r] = Now.ip_pset[r] /\ (Now').seqno[r] = Now.seqno[r]
            /\ \A y \in Queues : Queued(Now', y, r) = Queued(Now, y, r)
            /\ \A u \in Threads : Taking(Now', pc', call', u, r) <=> Taking(Now, pc, call, u, r)
  BY <1>1, <1>2, <1>6 DEF Taking
<1>8. Accounts(Now', pc', call', msgcount, active)
  BY <1>3, <1>7, AccountsSame DEF Counted
<1> QED
  BY <1>1, <1>8 DEF Counted

-----------------------------------------------------------------------------
(* The theorems.                                                            *)
NotNegative == \A p \in Ports : msgcount[p] >= 0
Counts == Counted /\ NotNegative

\* At the start nothing is queued, and no thread takes anything.
LEMMA CountsBegin == ASSUME Init PROVE Counts
<1>1. /\ ip_pset = [p \in Ports |-> Null] /\ msgcount = [p \in Ports |-> 0]
      /\ messages = [q \in Queues |-> <<>>] /\ pc = [t \in Threads |-> "user"]
  BY DEF Init
<1>2. ASSUME NEW p \in Ports PROVE Account(Now, pc, call, msgcount[p], p, <<>>)
  <2> DEFINE h == Hand(Now, pc, call, p)
  <2>1. Home(Now, p) = p /\ p \in Queues
    BY <1>1, NowIs DEF Home, Queues
  <2>2. \A q \in Queues : Queued(Now, q, p) = <<>>
    BY <1>1, ForPortEmpty, NowIs DEF Queued
  <2>3. h = {}
    BY <1>1 DEF Hand, Taking
  <2> HIDE DEF h
  <2>4. IsFiniteSet(h) /\ Cardinality(h) = 0
    BY <2>3, FS_EmptySet
  <2>5. Len(<<>>) = 0 /\ msgcount[p] = 0
    BY <1>1
  <2>6. Numbered(<<>>, Now.seqno[p]) /\ Numbered(<<>>, Now.seqno[p] + Len(<<>>))
    BY NumberedEmpty
  <2>7. msgcount[p] = Len(<<>>) + Len(<<>>) + Cardinality(h)
    BY <2>4, <2>5, SMT
  <2> QED
    BY <2>1, <2>2, <2>4, <2>6, <2>7, AccountIs DEF h
<1>3. NotNegative
  BY <1>1, SMT DEF NotNegative
<1> QED
  BY <1>2, <1>3 DEF Counts, Counted, Accounts

LEMMA CountedSame == ASSUME Counted, UNCHANGED vars PROVE Counted'
<1>1. Now' = Now
  BY DEF vars, Now
<1> QED
  BY <1>1 DEF vars, Counted

LEMMA CountedSteps == ASSUME Inv, Counted, [Next]_vars PROVE Counted'
<1>1. ASSUME NEW t \in Threads, ThreadStep(t) PROVE Counted'
  <2>1. CASE ipc_mqueue_send(t)
    BY <2>1, SendCounted
  <2>2. CASE SendOwnRight(t)
    BY <2>2, SendOwnRightCounted
  <2>3. CASE SendOwnRightLoop(t)
    BY <2>3, SendOwnRightLoopCounted
  <2>4. CASE SendWoken(t)
    BY <2>4, SendWokenCounted
  <2>5. CASE SendGo(t)
    BY <2>5, SendGoCounted
  <2>6. CASE DestroyCircular(t)
    BY <2>6, DestroyCircularCounted
  <2>7. CASE ipc_mqueue_receive(t)
    BY <2>7, ReceiveCounted
  <2>8. CASE RcvWoken(t)
    BY <2>8, RcvWokenCounted
  <2>9. CASE RcvFinish(t)
    BY <2>9, RcvFinishCounted
  <2>10. CASE mach_msg_interrupt(t)
    BY <2>10, InterruptedCounted
  <2>11. CASE Timeout(t)
    BY <2>11, WaitEndsCounted DEF Timeout
  <2>12. CASE Interrupt(t)
    BY <2>12, WaitEndsCounted DEF Interrupt
  <2> QED
    BY <1>1, <2>1, <2>2, <2>3, <2>4, <2>5, <2>6, <2>7, <2>8, <2>9, <2>10, <2>11, <2>12
       DEF ThreadStep
<1>2. ASSUME NEW p \in Ports, PortStep(p) PROVE Counted'
  BY <1>2, SetQlimitCounted, SetSeqnoCounted, PsetMoveCounted, MoveRightCounted,
     CopyoutRightCounted, DestroyRightCounted, DestroyInTransitCounted, DestroyMessageCounted
     DEF PortStep
<1>3. ASSUME NEW set \in Psets, ipc_pset_destroy(set) PROVE Counted'
  BY <1>3, PsetDestroyCounted
<1> QED
  BY <1>1, <1>2, <1>3, CountedSame DEF Next

\* Only the counts of live ports change.
LEMMA DeadCounts ==
    ASSUME Inv, [Next]_vars
    PROVE  \A p \in Ports \ active' : msgcount'[p] = msgcount[p]
<1>1. msgcount \in [Ports -> Int]
  BY DEF Inv, Types
<1>2. ASSUME NEW t, NEW c, NEW b, SendLoop(t, c, b), UNCHANGED active
      PROVE  \A p \in Ports \ active' : msgcount'[p] = msgcount[p]
  <2>1. CASE SendAccept(t, c)
    BY <1>1, <1>2, <2>1 DEF SendAccept
  <2>2. CASE UNCHANGED msgcount
    BY <2>2
  <2> QED
    BY <1>2, <2>1, <2>2 DEF SendLoop, SendDead, SendCircular, SendTimedOut, SendGiveUp
<1>3. ASSUME NEW t \in Threads, ThreadStep(t)
      PROVE  \A p \in Ports \ active' : msgcount'[p] = msgcount[p]
  <2>1. CASE ipc_mqueue_send(t)
    BY <1>2, <2>1 DEF ipc_mqueue_send
  <2>2. CASE SendOwnRightLoop(t)
    BY <1>2, <2>2 DEF SendOwnRightLoop
  <2>3. CASE SendWoken(t)
    BY <1>2, <2>3 DEF SendWoken, SendGiveUp
  <2>4. CASE RcvFinish(t)
    BY <1>1, <2>4 DEF RcvFinish
  <2>5. CASE UNCHANGED msgcount
    BY <2>5
  <2> QED
    BY <1>3, <2>1, <2>2, <2>3, <2>4, <2>5
       DEF ThreadStep, SendOwnRight, SendGo, DestroyCircular, ipc_port_destroy,
           ipc_mqueue_receive, RcvWoken, mach_msg_interrupt, Timeout, Interrupt, WaitEnds
<1>4. ASSUME NEW p \in Ports, PortStep(p) PROVE UNCHANGED msgcount
  BY <1>4 DEF PortStep, ipc_port_set_qlimit, ipc_port_set_seqno, ipc_pset_move, MoveRight,
              CopyoutRight, DestroyRight, DestroyInTransit, ipc_port_destroy, DestroyMessage
<1>5. ASSUME NEW set \in Psets, ipc_pset_destroy(set) PROVE UNCHANGED msgcount
  BY <1>5 DEF ipc_pset_destroy
<1>6. CASE UNCHANGED vars
  BY <1>6 DEF vars
<1> QED
  BY <1>3, <1>4, <1>5, <1>6 DEF Next

\* What an account counts is not negative.
LEMMA AccountCount ==
    ASSUME NEW s \in State, NEW PC, NEW CL, NEW c, NEW p \in Ports, Account(s, PC, CL, c, p, <<>>)
    PROVE  c >= 0
<1> DEFINE l == Queued(s, Home(s, p), p)
           h == Hand(s, PC, CL, p)
<1>1. Home(s, p) \in Queues
  BY HomeIs
<1>2. Len(l) \in Nat
  BY <1>1, AccountTypes
<1>3. IsFiniteSet(h) /\ c = Len(l) + Len(<<>>) + Cardinality(h)
  BY DEF Account
<1> HIDE DEF l, h
<1>4. Cardinality(h) \in Nat /\ Len(<<>>) = 0
  BY <1>3, FS_CardinalityType
<1> QED
  BY <1>2, <1>3, <1>4, SMT

LEMMA CountsSteps == ASSUME Inv, Counts, [Next]_vars PROVE Counts'
<1>1. Counted' /\ Inv'
  BY CountedSteps, Steps DEF Counts
<1>2. ASSUME NEW p \in Ports PROVE msgcount'[p] >= 0
  <2>1. CASE p \in active'
    <3>1. Account(Now', pc', call', msgcount'[p], p, <<>>)
      BY <1>1, <2>1 DEF Counted, Accounts
    <3>2. Now' \in State
      BY <1>1 DEF Inv, Good
    <3> QED
      BY <3>1, <3>2, AccountCount
  <2>2. CASE p \notin active'
    BY <2>2, DeadCounts DEF Counts, NotNegative
  <2> QED
    BY <2>1, <2>2
<1>3. NotNegative'
  BY <1>2 DEF NotNegative
<1> QED
  BY <1>1, <1>3 DEF Counts

\* Every live port's account holds in every state.
THEOREM Accounted == Spec => [](Inv /\ Counts)
<1>1. Init => Inv /\ Counts
  BY Begins, CountsBegin
<1>2. Inv /\ Counts /\ [Next]_vars => (Inv /\ Counts)'
  BY Steps, CountsSteps
<1> QED
  BY <1>1, <1>2, PTL DEF Spec

\* The ports, the queues and the threads' fields have their types, and no
\* count is negative (ipc_mqueue.c, the two asserts on ip_msgcount).
THEOREM TypesCorrect == Spec => []TypeOK
<1>1. ASSUME Inv, Counts PROVE TypeOK
  <2>1. Types /\ StateTypes(Now)
    BY <1>1, Fields DEF Inv, Good
  <2>2. msgcount \in [Ports -> Nat]
    <3>1. msgcount \in [Ports -> Int] /\ \A p \in Ports : msgcount[p] >= 0
      BY <1>1, <2>1 DEF Types, Counts, NotNegative
    <3>2. \A x \in Int : x >= 0 => x \in Nat
      BY SMT
    <3> QED
      BY <3>1, <3>2
  <2>3. /\ ip_pset \in [Ports -> Psets \cup {Null}] /\ seqno \in [Ports -> 0 .. SeqnoMod - 1]
        /\ messages \in [Queues -> Seq(Message)] /\ receivers \in [Queues -> Seq(Threads)]
        /\ ith \in [Threads -> Ith] /\ wait \in [Threads -> Waiting]
    BY <2>1, NowIs DEF StateTypes
  <2> QED
    BY <2>1, <2>2, <2>3 DEF Types, TypeOK, Places
<1> QED
  BY Accounted, <1>1, PTL

\* A live port's count is what is queued for it, where it is to be queued, and
\* what receivers have taken: no message is lost or counted twice.
THEOREM CountsCorrect == Spec => []MsgcountExact
<1>1. ASSUME Inv, Counts PROVE MsgcountExact
  <2> SUFFICES ASSUME NEW p \in Ports \cap active
               PROVE  /\ msgcount[p] = Len(ForPort(messages[QueueOf(p)], p)) + Cardinality(InHand(p))
                      /\ \A q \in Queues \ {QueueOf(p)} : ForPort(messages[q], p) = <<>>
    BY DEF MsgcountExact
  <2>1. Now \in State /\ Account(Now, pc, call, msgcount[p], p, <<>>)
    BY <1>1 DEF Inv, Good, Counts, Counted, Accounts
  <2>2. QueueOf(p) = Home(Now, p) /\ \A q : Queued(Now, q, p) = ForPort(messages[q], p)
    BY NowIs DEF QueueOf, Home, Queued
  <2>3. InHand(p) = Hand(Now, pc, call, p)
    BY NowIs DEF InHand, Hand, Taking
  <2> DEFINE l == Queued(Now, Home(Now, p), p)
             h == Hand(Now, pc, call, p)
  <2>4. /\ IsFiniteSet(h) /\ msgcount[p] = Len(l) + Len(<<>>) + Cardinality(h)
        /\ \A q \in Queues \ {Home(Now, p)} : Queued(Now, q, p) = <<>>
    BY <2>1 DEF Account
  <2>5. Len(l) \in Nat
    BY <2>1, HomeIs, AccountTypes
  <2> HIDE DEF l, h
  <2>6. msgcount[p] = Len(l) + Cardinality(h)
    <3>1. Len(<<>>) = 0 /\ Cardinality(h) \in Nat
      BY <2>4, FS_CardinalityType
    <3> QED
      BY <2>4, <2>5, <3>1, SMT
  <2> QED
    BY <2>2, <2>3, <2>4, <2>6 DEF l, h
<1> QED
  BY Accounted, <1>1, PTL

\* Messages are received in the order they were accepted, and numbered in that
\* order, whatever sets the port joins and leaves meanwhile.
THEOREM OrderCorrect == Spec => []FifoOrder
<1>1. ASSUME Inv, Counts PROVE FifoOrder
  <2> SUFFICES ASSUME NEW p \in Ports \cap active
               PROVE  LET ms == ForPort(messages[QueueOf(p)], p)
                      IN  \A i \in DOMAIN ms : ms[i].due = (seqno[p] + i - 1) % SeqnoMod
    BY DEF FifoOrder
  <2> DEFINE ms == ForPort(messages[QueueOf(p)], p)
  <2>1. Now \in State /\ Account(Now, pc, call, msgcount[p], p, <<>>)
    BY <1>1 DEF Inv, Good, Counts, Counted, Accounts
  <2>2. Queued(Now, Home(Now, p), p) = ms
    BY NowIs DEF QueueOf, Home, Queued
  <2>3. ms \in Seq(Message)
    BY <2>1, <2>2, HomeIs, AccountTypes
  <2>4. Numbered(ms, seqno[p])
    BY <2>1, <2>2, NowIs DEF Account
  <2> HIDE DEF ms
  <2>5. DOMAIN ms = 1 .. Len(ms)
    BY <2>3
  <2>6. \A i \in DOMAIN ms : ms[i].due = (seqno[p] + i - 1) % SeqnoMod
    BY <2>4, <2>5 DEF Numbered
  <2> QED
    BY <2>6 DEF ms
<1> QED
  BY Accounted, <1>1, PTL

-----------------------------------------------------------------------------
(* The room that senders wait for.  Whoever has been told of room and has   *)
(* not looked yet counts as much as a message.                              *)
Looks(s, PC, CL, u, p) == PC[u] = "send_wait" /\ s.ith[u].state = "success" /\ CL[u].obj = p
Circles(PC, CL, u, p) == PC[u] = "circular" /\ CL[u].obj = p

Looking(s, PC, CL, p) == {u \in Threads : Looks(s, PC, CL, u, p)}

\* The senders in l wait for room: cnt messages and the lookers fill it up to
\* lim, or all are about to be roused.
Crowded(s, PC, CL, l, cnt, lim, p) ==
    /\ IsFiniteSet(Looking(s, PC, CL, p))
    /\ l # <<>> => \/ cnt + Cardinality(Looking(s, PC, CL, p)) >= lim
                   \/ \E u \in Threads : Circles(PC, CL, u, p)

Crowds ==
    \A p \in Ports \cap active :
        p \notin Backups => Crowded(Now, pc, call, blocked[p], msgcount[p], qlimit[p], p)

\* A port with a backup is left out: if its right goes into limbo while a
\* circular message is destroyed, nobody is roused.
Full == backups \subseteq Backups /\ Crowds

\* Nobody is told to look again, or looks.
SameLooks(s, PC, CL, o, PC2, CL2, p) ==
    \A u \in Threads : /\ Looks(o, PC2, CL2, u, p) <=> Looks(s, PC, CL, u, p)
                       /\ Circles(PC, CL, u, p) => Circles(PC2, CL2, u, p)

LEMMA CrowdedSame ==
    ASSUME NEW s, NEW PC, NEW CL, NEW o, NEW PC2, NEW CL2, NEW p, NEW cnt, NEW lim, NEW l, NEW m,
           Crowded(s, PC, CL, l, cnt, lim, p), SameLooks(s, PC, CL, o, PC2, CL2, p),
           m # <<>> => l # <<>>
    PROVE  Crowded(o, PC2, CL2, m, cnt, lim, p)
<1>1. Looking(o, PC2, CL2, p) = Looking(s, PC, CL, p)
  BY DEF Looking, SameLooks
<1>2. (\E u \in Threads : Circles(PC, CL, u, p)) => \E u \in Threads : Circles(PC2, CL2, u, p)
  BY DEF SameLooks
<1> QED
  BY <1>1, <1>2 DEF Crowded

\* t looks no more, if it did, and is about to rouse nobody.
Parts(s, PC, CL, o, PC2, CL2, t, p) ==
    /\ \A u \in Threads : u # t => /\ Looks(o, PC2, CL2, u, p) <=> Looks(s, PC, CL, u, p)
                                   /\ Circles(PC, CL, u, p) => Circles(PC2, CL2, u, p)
    /\ ~Looks(o, PC2, CL2, t, p) /\ ~Circles(PC, CL, t, p)

\* One more message makes up for one looker less.
LEMMA CrowdedLess ==
    ASSUME NEW s, NEW PC, NEW CL, NEW o, NEW PC2, NEW CL2, NEW p, NEW cnt \in Int, NEW lim \in Int,
           NEW l, NEW m, Crowded(s, PC, CL, l, cnt, lim, p), NEW t \in Threads,
           Parts(s, PC, CL, o, PC2, CL2, t, p)
    PROVE  /\ (m # <<>> => l # <<>>) => Crowded(o, PC2, CL2, m, cnt + 1, lim, p)
           /\ cnt >= lim => Crowded(o, PC2, CL2, m, cnt, lim, p)
           /\ (\E u \in Threads : Circles(PC2, CL2, u, p)) => Crowded(o, PC2, CL2, m, cnt, lim, p)
<1> DEFINE A == Looking(s, PC, CL, p)
           B == Looking(o, PC2, CL2, p)
<1>0. /\ \A u \in Threads : u # t => /\ Looks(o, PC2, CL2, u, p) <=> Looks(s, PC, CL, u, p)
                                     /\ Circles(PC, CL, u, p) => Circles(PC2, CL2, u, p)
      /\ ~Looks(o, PC2, CL2, t, p) /\ ~Circles(PC, CL, t, p)
  BY DEF Parts
<1>1. IsFiniteSet(A) /\ (l # <<>> => \/ cnt + Cardinality(A) >= lim
                                     \/ \E u \in Threads : Circles(PC, CL, u, p))
  BY DEF Crowded
<1>2. B = A \ {t}
  BY <1>0 DEF Looking
<1>3. (\E u \in Threads : Circles(PC, CL, u, p)) => \E u \in Threads : Circles(PC2, CL2, u, p)
  BY <1>0
<1> HIDE DEF A, B
<1>4. /\ IsFiniteSet(B) /\ Cardinality(A) \in Nat /\ Cardinality(B) \in Nat
      /\ Cardinality(B) = IF t \in A THEN Cardinality(A) - 1 ELSE Cardinality(A)
  BY <1>1, <1>2, FS_CardinalityType, FS_RemoveElement
<1>5. cnt + Cardinality(A) >= lim => (cnt + 1) + Cardinality(B) >= lim
  BY <1>4, SMT
<1>6. cnt >= lim => cnt + Cardinality(B) >= lim
  BY <1>4, SMT
<1> QED
  BY <1>1, <1>3, <1>4, <1>5, <1>6 DEF Crowded, B

\* Those in T are told to look again.
LEMMA CrowdedMore ==
    ASSUME NEW s, NEW PC, NEW CL, NEW o, NEW PC2, NEW CL2, NEW p, NEW cnt \in Int, NEW lim \in Int,
           NEW l, NEW m, Crowded(s, PC, CL, l, cnt, lim, p), l # <<>>,
           NEW T \in SUBSET Threads, IsFiniteSet(T), NEW c \in Int, NEW n \in Int,
           \A u \in T : ~Looks(s, PC, CL, u, p),
           \A u \in Threads : /\ Looks(o, PC2, CL2, u, p) <=> Looks(s, PC, CL, u, p) \/ u \in T
                              /\ Circles(PC, CL, u, p) => Circles(PC2, CL2, u, p),
           c + Cardinality(T) - cnt >= n - lim
    PROVE  Crowded(o, PC2, CL2, m, c, n, p)
<1> DEFINE A == Looking(s, PC, CL, p)
           B == Looking(o, PC2, CL2, p)
<1>1. IsFiniteSet(A) /\ (\/ cnt + Cardinality(A) >= lim
                         \/ \E u \in Threads : Circles(PC, CL, u, p))
  BY DEF Crowded
<1>2. B = A \cup T /\ A \cap T = {}
  BY DEF Looking
<1>3. (\E u \in Threads : Circles(PC, CL, u, p)) => \E u \in Threads : Circles(PC2, CL2, u, p)
  OBVIOUS
<1> HIDE DEF A, B
<1>4. /\ IsFiniteSet(B) /\ Cardinality(B) = Cardinality(A) + Cardinality(T)
      /\ Cardinality(A) \in Nat /\ Cardinality(T) \in Nat
  <2>1. IsFiniteSet(A \cup T)
    BY <1>1, FS_Union
  <2>2. Cardinality(A \cup T) = Cardinality(A) + Cardinality(T) - Cardinality(A \cap T)
    BY <1>1, FS_Union
  <2>3. Cardinality(A \cap T) = 0
    BY <1>2, FS_EmptySet
  <2>4. Cardinality(A) \in Nat /\ Cardinality(T) \in Nat
    BY <1>1, FS_CardinalityType
  <2> QED
    BY <1>2, <2>1, <2>2, <2>3, <2>4
<1>5. cnt + Cardinality(A) >= lim => c + Cardinality(B) >= n
  BY <1>4, SMT
<1> QED
  BY <1>1, <1>3, <1>4, <1>5 DEF Crowded, B

\* The lookers do not hear what receivers are told.
LEMMA ToldLooks ==
    ASSUME NEW s, NEW o, NEW PC, NEW CL, NEW T, Told(s, o, PC, T)
    PROVE  \A p : SameLooks(s, PC, CL, o, PC, CL, p)
  BY DEF Told, SameLooks, Looks

\* What limits and counts are.
LEMMA IntsAre == ASSUME Inv, NEW p \in Ports PROVE msgcount[p] \in Int /\ qlimit[p] \in Int
<1>1. Qlimits \subseteq Nat
  BY BoundsAssumption DEF BoundsAssumption
<1>2. qlimit[p] \in Qlimits \cup {1} /\ msgcount[p] \in Int
  BY DEF Inv, Types
<1>3. \A x \in Qlimits \cup {1} : x \in Int
  BY <1>1
<1> QED
  BY <1>2, <1>3, Zenon

\* A step in which nobody is told to look again, or looks.
LEMMA FullSame ==
    ASSUME Full, backups' \subseteq Backups, active' \subseteq active, UNCHANGED <<msgcount, qlimit>>,
           \A p \in Ports \cap active' :
               p \notin Backups => /\ blocked'[p] # <<>> => blocked[p] # <<>>
                                   /\ SameLooks(Now, pc, call, Now', pc', call', p)
    PROVE  Full'
<1> SUFFICES ASSUME NEW p \in Ports \cap active', p \notin Backups
             PROVE  Crowded(Now', pc', call', blocked'[p], msgcount'[p], qlimit'[p], p)
  BY DEF Full, Crowds
<1>1. Crowded(Now, pc, call, blocked[p], msgcount[p], qlimit[p], p)
  BY DEF Full, Crowds
<1>2. Crowded(Now', pc', call', blocked'[p], msgcount[p], qlimit[p], p)
  BY <1>1, CrowdedSame
<1> QED
  BY <1>2

\* t's step leaves its own fields as i, to and d, and the others' as in s.
Follows(t, s, i, to, d) ==
    /\ s \in State /\ ith' = [s.ith EXCEPT ![t] = i]
    /\ pc' = [pc EXCEPT ![t] = to] /\ call' = [call EXCEPT ![t] = d]

LEMMA EndFollows ==
    ASSUME NEW t \in Threads, NEW s \in State, NEW to, NEW d, Ending(t, s, to, d)
    PROVE  Follows(t, s, Idle, to, d)
<1>1. ith' = [s EXCEPT !.ith[t] = Idle, !.wait[t] = "none"].ith
  BY DEF Ending, Commit
<1>2. [s EXCEPT !.ith[t] = Idle, !.wait[t] = "none"].ith = [s.ith EXCEPT ![t] = Idle]
  BY Zenon DEF State
<1> QED
  BY <1>1, <1>2 DEF Follows, Ending

LEMMA BlockFollows ==
    ASSUME NEW t \in Threads, NEW s \in State, NEW i, NEW to, NEW d, Blocking(t, s, i, to, d)
    PROVE  Follows(t, s, i, to, d)
<1>1. ith' = [s EXCEPT !.ith[t] = i, !.wait[t] = "waiting"].ith
  BY DEF Blocking, Commit
<1>2. [s EXCEPT !.ith[t] = i, !.wait[t] = "waiting"].ith = [s.ith EXCEPT ![t] = i]
  BY Zenon DEF State
<1> QED
  BY <1>1, <1>2 DEF Follows, Blocking

LEMMA FollowsLooks ==
    ASSUME Inv, NEW t \in Threads, NEW s, NEW i, NEW to, NEW d, Follows(t, s, i, to, d), NEW p
    PROVE  /\ \A u \in Threads \ {t} :
                 /\ Looks(Now', pc', call', u, p) <=> Looks(s, pc, call, u, p)
                 /\ Circles(pc, call, u, p) => Circles(pc', call', u, p)
           /\ Looks(Now', pc', call', t, p) <=> to = "send_wait" /\ i.state = "success" /\ d.obj = p
           /\ Circles(pc', call', t, p) <=> to = "circular" /\ d.obj = p
<1>1. s.ith \in [Threads -> Ith]
  BY Fields DEF Follows, StateTypes
<1>2. /\ ith'[t] = i /\ pc'[t] = to /\ call'[t] = d
      /\ \A u \in Threads \ {t} : ith'[u] = s.ith[u] /\ pc'[u] = pc[u] /\ call'[u] = call[u]
  BY <1>1 DEF Follows, Inv, Types
<1>3. (Now').ith = ith'
  BY DEF Now
<1> QED
  BY <1>2, <1>3 DEF Looks, Circles

\* A step of a thread that is no sender, and does not become one.
LEMMA ThreadFull ==
    ASSUME Inv, Full, NEW t \in Threads, NEW s, NEW i, NEW to, NEW d, Follows(t, s, i, to, d),
           pc[t] \notin {"send_wait", "circular"}, to # "send_wait",
           \A p \in Ports : SameLooks(Now, pc, call, s, pc, call, p),
           UNCHANGED <<active, backups, msgcount, qlimit, blocked>>
    PROVE  Full'
<1>1. ASSUME NEW p \in Ports PROVE SameLooks(Now, pc, call, Now', pc', call', p)
  <2>1. SameLooks(Now, pc, call, s, pc, call, p)
    OBVIOUS
  <2>2. ~Looks(Now, pc, call, t, p) /\ ~Circles(pc, call, t, p)
    BY DEF Looks, Circles
  <2>3. /\ \A u \in Threads \ {t} :
              /\ Looks(Now', pc', call', u, p) <=> Looks(s, pc, call, u, p)
              /\ Circles(pc, call, u, p) => Circles(pc', call', u, p)
        /\ ~Looks(Now', pc', call', t, p)
    BY FollowsLooks
  <2> QED
    BY <2>1, <2>2, <2>3 DEF SameLooks
<1>2. \A p \in Ports \cap active' : /\ blocked'[p] # <<>> => blocked[p] # <<>>
                                    /\ SameLooks(Now, pc, call, Now', pc', call', p)
  BY <1>1
<1>3. backups' \subseteq Backups /\ active' \subseteq active
  BY DEF Full
<1> QED
  BY <1>2, <1>3, FullSame

\* A message is accepted: no sender hears of it.
LEMMA AcceptFollows ==
    ASSUME Inv, Counted, NEW t \in Threads, NEW c, SendNear(t, c), SendAccept(t, c)
    PROVE  \E s \in State, to \in {"user", "send_go"}, d \in {call'[t]} :
              Follows(t, s, Idle, to, d) /\ \A p : SameLooks(Now, pc, call, s, pc, call, p)
<1> DEFINE p == c.obj
           q == QueueOf(p)
           m == [port |-> p, size |-> c.size, due |-> Due(p)]
           i == Taker(Now, q, m)
           s == Offer(Now, q, m)
<1>1. /\ p \in active
      /\ \/ i > Len(receivers[q]) /\ Return(t, s)
         \/ i <= Len(receivers[q]) /\ Proceed(t, s, "send_go", receivers[q][i])
  BY DEF SendAccept
<1>2. Now \in State /\ StateTypes(Now) /\ Good(Now, pc, call, Live, {}) /\ ip_pset = Now.ip_pset
  BY Fields, NowIs DEF Inv, Good
<1>3. p \in Ports /\ c.size \in Sizes \cup {0}
  BY DEF SendNear, Call
<1>4. q \in Queues /\ (q \in Ports => p = q /\ Now.ip_pset[q] = Null)
  <2>1. CASE ip_pset[p] = Null
    BY <1>2, <1>3, <2>1 DEF QueueOf, Queues
  <2>2. CASE ip_pset[p] # Null
    <3>1. q \in Psets
      BY <1>2, <1>3, <2>2 DEF QueueOf, StateTypes
    <3> HIDE DEF q
    <3> QED
      BY <3>1, ObjectsAssumption DEF Queues, ObjectsAssumption
  <2> QED
    BY <2>1, <2>2
<1>5. Due(p) \in 0 .. SeqnoMod - 1
  <2> DEFINE k == seqno[p] + Len(ForPort(messages[q], p))
  <2>1. Due(p) = k % SeqnoMod
    BY DEF Due
  <2>2. k \in Int
    <3>1. seqno[p] \in Int /\ messages[q] \in Seq(Message)
      BY <1>2, <1>3, <1>4, NowIs DEF StateTypes
    <3>2. Len(ForPort(messages[q], p)) \in Nat
      BY <1>3, <3>1, ForPortIs
    <3> QED
      BY <3>1, <3>2
  <2> HIDE DEF k, p
  <2> QED
    BY <2>1, <2>2, ModulusIs, SMT
<1>6. m \in Message /\ m.port = p
  BY <1>3, <1>5 DEF Message
<1> HIDE DEF m, q, i, p
<1>7. MayGo(Now, q, m, {})
  BY <1>4, <1>6 DEF MayGo
<1>8. s \in State /\ \E T : Told(Now, s, pc, T)
  <2>1. LET o == Offer(Now, q, m)
        IN  /\ Good(o, pc, call, Live, {})
            /\ Told(Now, o, pc, IF Taken(Now, q, m) THEN {Now.receivers[q][Taker(Now, q, m)]} ELSE {})
    BY <1>2, <1>4, <1>6, <1>7, OfferGood
  <2> QED
    BY <2>1 DEF Good
<1> HIDE DEF s
<1>9. \E to \in {"user", "send_go"}, d \in {call'[t]} : Ending(t, s, to, d)
  <2>1. call \in [Threads -> Call]
    BY DEF Inv, Types
  <2>2. CASE Return(t, s)
    BY <2>1, <2>2 DEF Return, Ending
  <2>3. CASE Proceed(t, s, "send_go", receivers[q][i])
    BY <2>1, <2>3 DEF Proceed, Ending
  <2> QED
    BY <1>1, <2>2, <2>3
<1>10. \A r : SameLooks(Now, pc, call, s, pc, call, r)
  BY <1>8, ToldLooks
<1>11. \E to \in {"user", "send_go"}, d \in {call'[t]} : Follows(t, s, Idle, to, d)
  BY <1>8, <1>9, EndFollows
<1> QED
  BY <1>8, <1>10, <1>11

\* t is in the loop of ipc_mqueue_send, and looks for room for c; b is
\* ip_blocked without it.
LooksFor(t, c, b) ==
    /\ SendNear(t, c) /\ (pc[t] = "send_wait" => call[t].obj = c.obj)
    /\ b \in [Ports -> Seq(Threads)] /\ \A p \in Ports : b[p] # <<>> => blocked[p] # <<>>

\* A sender takes the step, and looks no more.
LEMMA SenderFull ==
    ASSUME Inv, Full, NEW t \in Threads, NEW c, NEW b, LooksFor(t, c, b),
           NEW s, NEW i, NEW to, NEW d, Follows(t, s, i, to, d),
           \A p : SameLooks(Now, pc, call, s, pc, call, p),
           i.state # "success", UNCHANGED <<active, backups, qlimit>>,
           \A p \in Ports \ {c.obj} : msgcount'[p] = msgcount[p] /\ blocked'[p] = b[p],
           \/ msgcount'[c.obj] = msgcount[c.obj] + 1 /\ blocked'[c.obj] = b[c.obj]
           \/ msgcount'[c.obj] = msgcount[c.obj] /\ msgcount[c.obj] >= qlimit[c.obj]
           \/ msgcount'[c.obj] = msgcount[c.obj] /\ to = "circular" /\ d.obj = c.obj
           \/ c.obj \notin active
    PROVE  Full'
<1> SUFFICES ASSUME NEW p \in Ports \cap active, p \notin Backups
             PROVE  Crowded(Now', pc', call', blocked'[p], msgcount'[p], qlimit[p], p)
  BY DEF Full, Crowds
<1>1. Crowded(Now, pc, call, blocked[p], msgcount[p], qlimit[p], p)
  BY DEF Full, Crowds
<1>2. msgcount[p] \in Int /\ qlimit[p] \in Int
  BY IntsAre
<1>3. /\ \A u \in Threads \ {t} : /\ Looks(Now', pc', call', u, p) <=> Looks(Now, pc, call, u, p)
                                  /\ Circles(pc, call, u, p) => Circles(pc', call', u, p)
      /\ ~Looks(Now', pc', call', t, p)
      /\ Circles(pc', call', t, p) <=> to = "circular" /\ d.obj = p
  <2>1. SameLooks(Now, pc, call, s, pc, call, p)
    OBVIOUS
  <2>2. /\ \A u \in Threads \ {t} :
              /\ Looks(Now', pc', call', u, p) <=> Looks(s, pc, call, u, p)
              /\ Circles(pc, call, u, p) => Circles(pc', call', u, p)
        /\ Looks(Now', pc', call', t, p) <=> to = "send_wait" /\ i.state = "success" /\ d.obj = p
        /\ Circles(pc', call', t, p) <=> to = "circular" /\ d.obj = p
    BY FollowsLooks
  <2> QED
    BY <2>1, <2>2 DEF SameLooks
<1>4. ~Circles(pc, call, t, p)
  BY DEF LooksFor, SendNear, Circles
<1>5. CASE p # c.obj
  <2>1. ~Looks(Now, pc, call, t, p)
    BY <1>5 DEF LooksFor, Looks
  <2>2. SameLooks(Now, pc, call, Now', pc', call', p)
    BY <1>3, <1>4, <2>1 DEF SameLooks
  <2>3. msgcount'[p] = msgcount[p] /\ (blocked'[p] # <<>> => blocked[p] # <<>>)
    BY <1>5 DEF LooksFor
  <2> QED
    BY <1>1, <2>2, <2>3, CrowdedSame
<1>6. CASE p = c.obj
  <2>0. Parts(Now, pc, call, Now', pc', call', t, p)
    BY <1>3, <1>4 DEF Parts
  <2>1. /\ (blocked'[p] # <<>> => blocked[p] # <<>>) =>
              Crowded(Now', pc', call', blocked'[p], msgcount[p] + 1, qlimit[p], p)
        /\ msgcount[p] >= qlimit[p] => Crowded(Now', pc', call', blocked'[p], msgcount[p], qlimit[p], p)
        /\ (\E u \in Threads : Circles(pc', call', u, p)) =>
              Crowded(Now', pc', call', blocked'[p], msgcount[p], qlimit[p], p)
    BY <1>1, <1>2, <2>0, CrowdedLess
  <2>2. b[p] # <<>> => blocked[p] # <<>>
    BY DEF LooksFor
  <2>3. \/ msgcount'[p] = msgcount[p] + 1 /\ blocked'[p] = b[p]
        \/ msgcount'[p] = msgcount[p] /\ msgcount[p] >= qlimit[p]
        \/ msgcount'[p] = msgcount[p] /\ Circles(pc', call', t, p)
    BY <1>3, <1>6
  <2> QED
    BY <2>1, <2>2, <2>3
<1> QED
  BY <1>5, <1>6

LEMMA LoopFull ==
    ASSUME Inv, Counted, Full, NEW t \in Threads, NEW c, NEW b, LooksFor(t, c, b), SendLoop(t, c, b),
           UNCHANGED <<active, backups, qlimit>>
    PROVE  Full'
<1> DEFINE p == c.obj
<1>1. Now \in State /\ SendNear(t, c) /\ p \in Ports /\ msgcount \in [Ports -> Int]
      /\ qlimit[p] \in Int /\ b \in [Ports -> Seq(Threads)]
  BY IntsAre DEF Inv, Good, LooksFor, SendNear, Types
<1>2. \A r : SameLooks(Now, pc, call, Now, pc, call, r)
  BY DEF SameLooks
<1>3. Idle.state # "success"
  BY DEF Idle
<1>4. ~MayQueue(p, c.opt) => msgcount[p] >= qlimit[p]
  BY <1>1 DEF MayQueue
<1>5. ASSUME Return(t, Now), UNCHANGED msgcount, blocked' = b,
             p \notin active \/ msgcount[p] >= qlimit[p]
      PROVE  Full'
  <2>1. Follows(t, Now, Idle, "user", NoCall)
    BY <1>1, <1>5, EndFollows DEF Return, Ending
  <2> QED
    BY <1>2, <1>3, <1>5, <2>1, SenderFull
<1>6. CASE SendDead(t, c) /\ blocked' = b
  BY <1>5, <1>6 DEF SendDead
<1>7. CASE SendTimedOut(t, c) /\ blocked' = b
  BY <1>4, <1>5, <1>7 DEF SendTimedOut, SendGiveUp
<1>8. CASE SendCircular(t, c) /\ blocked' = b
  <2> DEFINE d == [NoCall EXCEPT !.obj = p]
  <2>1. Ending(t, Now, "circular", d) /\ UNCHANGED msgcount /\ d.obj = p
    BY <1>8 DEF SendCircular, Proceed, Ending, NoCall
  <2> HIDE DEF d
  <2>2. Follows(t, Now, Idle, "circular", d)
    BY <1>1, <2>1, EndFollows
  <2> QED
    BY <1>2, <1>3, <1>8, <2>1, <2>2, SenderFull
<1>9. CASE SendAccept(t, c) /\ blocked' = b
  <2>1. PICK s \in State, to \in {"user", "send_go"}, d \in {call'[t]} :
           Follows(t, s, Idle, to, d) /\ \A r : SameLooks(Now, pc, call, s, pc, call, r)
    BY <1>1, <1>9, AcceptFollows
  <2>2. msgcount' = [msgcount EXCEPT ![p] = @ + 1]
    BY <1>9 DEF SendAccept
  <2>3. msgcount'[p] = msgcount[p] + 1 /\ \A r \in Ports \ {p} : msgcount'[r] = msgcount[r]
    BY <1>1, <2>2
  <2> QED
    BY <1>3, <1>9, <2>1, <2>3, SenderFull
<1>10. CASE /\ ~MayQueue(p, c.opt)
            /\ Block(t, [Now EXCEPT !.ith[t].state = "in_progress"], c, "send_wait")
            /\ blocked' = [b EXCEPT ![p] = Append(@, t)] /\ UNCHANGED msgcount
  <2> DEFINE i == [ith[t] EXCEPT !.state = "in_progress"]
  <2>1. Blocking(t, Now, i, "send_wait", c)
    BY <1>10, NowIs DEF Block, Blocking
  <2>2. i.state = "in_progress"
    <3>1. ith[t] \in Ith
      BY <1>1, Fields, NowIs DEF StateTypes
    <3> QED
      BY <3>1 DEF Ith
  <2> HIDE DEF i
  <2>3. Follows(t, Now, i, "send_wait", c)
    BY <1>1, <2>1, BlockFollows
  <2>4. \A r \in Ports \ {p} : msgcount'[r] = msgcount[r] /\ blocked'[r] = b[r]
    BY <1>1, <1>10
  <2> QED
    BY <1>2, <1>4, <1>10, <2>2, <2>3, <2>4, SenderFull
<1> QED
  BY <1>6, <1>7, <1>8, <1>9, <1>10 DEF SendLoop

LEMMA SendFull == ASSUME Inv, Counted, Full, NEW t \in Threads, ipc_mqueue_send(t) PROVE Full'
<1>1. PICK p \in Ports, n \in Sizes, o \in Options :
         SendLoop(t, [obj |-> p, size |-> n, opt |-> o, circ |-> FALSE], blocked)
  BY DEF ipc_mqueue_send
<1> DEFINE c == [obj |-> p, size |-> n, opt |-> o, circ |-> FALSE]
<1>2. pc[t] = "user" /\ UNCHANGED <<active, backups, qlimit>>
  BY DEF ipc_mqueue_send
<1>3. c \in Call /\ c.obj \in Ports
  BY DEF Call, Queues
<1>4. SendLoop(t, c, blocked) /\ blocked \in [Ports -> Seq(Threads)]
  BY <1>1 DEF Inv, Types
<1> HIDE DEF c
<1>5. LooksFor(t, c, blocked)
  BY <1>2, <1>3, <1>4 DEF LooksFor, SendNear
<1> QED
  BY <1>2, <1>4, <1>5, LoopFull

LEMMA SendOwnRightLoopFull ==
    ASSUME Inv, Counted, Full, NEW t \in Threads, SendOwnRightLoop(t) PROVE Full'
<1>1. /\ pc[t] = "send" /\ SendLoop(t, call[t], blocked) /\ UNCHANGED <<active, backups, qlimit>>
      /\ blocked \in [Ports -> Seq(Threads)]
  BY DEF SendOwnRightLoop, Inv, Types
<1>2. LooksFor(t, call[t], blocked)
  BY <1>1, CarriedIs DEF LooksFor, SendNear
<1> QED
  BY <1>1, <1>2, LoopFull

LEMMA SendWokenFull == ASSUME Inv, Counted, Full, NEW t \in Threads, SendWoken(t) PROVE Full'
<1> DEFINE c == call[t]
           p == c.obj
           d == [c EXCEPT !.opt = "poll"]
           off == [blocked EXCEPT ![c.obj] = Sublist(@, Threads \ {t})]
<1>1. pc[t] = "send_wait" /\ UNCHANGED <<active, backups, qlimit>>
  BY DEF SendWoken
<1>2. \/ SendLoop(t, c, blocked)
      \/ ith[t].state = "in_progress" /\ SendGiveUp(t, c) /\ blocked' = off
      \/ SendLoop(t, d, off) \/ SendLoop(t, c, off)
  BY DEF SendWoken
<1>3. c \in Call /\ p \in Ports
  BY <1>1, CarriedIs
<1>4. d \in Call /\ d.obj = p
  BY <1>3 DEF Call
<1>5. blocked \in [Ports -> Seq(Threads)]
  BY DEF Inv, Types
<1>6. off \in [Ports -> Seq(Threads)] /\ \A r \in Ports : off[r] # <<>> => blocked[r] # <<>>
  <2>1. blocked[p] \in Seq(Threads)
    BY <1>3, <1>5
  <2>2. Sublist(blocked[p], Threads \ {t}) \in Seq(Threads)
    BY <2>1, SublistMembers
  <2>3. blocked[p] = <<>> => Sublist(blocked[p], Threads \ {t}) = <<>>
    BY SublistEmpty
  <2> QED
    BY <1>3, <1>5, <2>2, <2>3
<1>7. LooksFor(t, c, blocked) /\ LooksFor(t, c, off) /\ LooksFor(t, d, off)
  BY <1>1, <1>3, <1>4, <1>5, <1>6 DEF LooksFor, SendNear
<1> HIDE DEF off, d
<1>8. CASE ith[t].state = "in_progress" /\ SendGiveUp(t, c) /\ blocked' = off
  <2>1. Now \in State
    BY DEF Inv, Good
  <2>2. Follows(t, Now, Idle, "user", NoCall) /\ UNCHANGED msgcount
    BY <1>8, <2>1, EndFollows DEF SendGiveUp, Return, Ending
  <2>3. ASSUME NEW r \in Ports PROVE SameLooks(Now, pc, call, Now', pc', call', r)
    <3>1. /\ \A u \in Threads \ {t} :
                /\ Looks(Now', pc', call', u, r) <=> Looks(Now, pc, call, u, r)
                /\ Circles(pc, call, u, r) => Circles(pc', call', u, r)
          /\ ~Looks(Now', pc', call', t, r)
      BY <2>2, FollowsLooks
    <3>2. ~Looks(Now, pc, call, t, r) /\ ~Circles(pc, call, t, r)
      BY <1>1, <1>8, NowIs DEF Looks, Circles
    <3> QED
      BY <3>1, <3>2 DEF SameLooks
  <2> QED
    BY <1>1, <1>6, <1>8, <2>2, <2>3, FullSame DEF Full
<1> QED
  BY <1>1, <1>2, <1>7, <1>8, LoopFull

LEMMA SendGoFull == ASSUME Inv, Full, NEW t \in Threads, SendGo(t) PROVE Full'
<1> DEFINE W == thread_go(wait, {call[t].obj})
           s == [Now EXCEPT !.wait = W]
<1>1. /\ pc[t] = "send_go" /\ UNCHANGED <<active, backups, msgcount, qlimit, blocked>>
      /\ Return(t, s)
  BY NowIs DEF SendGo
<1>2. Now \in State /\ W \in [Threads -> Waiting]
  <2>1. Now \in State
    BY DEF Inv, Good
  <2>2. wait \in [Threads -> Waiting]
    BY <2>1, Fields, NowIs DEF StateTypes
  <2> QED
    BY <2>1, <2>2, GoIs
<1> HIDE DEF W
<1>3. s \in State
  BY <1>2, Zenon DEF State
<1>4. s.ith = Now.ith
  BY <1>2, Zenon DEF State
<1> HIDE DEF s
<1>5. Follows(t, s, Idle, "user", NoCall)
  BY <1>1, <1>3, EndFollows DEF Return, Ending
<1>6. \A p \in Ports : SameLooks(Now, pc, call, s, pc, call, p)
  BY <1>4 DEF SameLooks, Looks
<1> QED
  BY <1>1, <1>5, <1>6, ThreadFull

\* A sender's message has the receive right of p itself.
LEMMA SendOwnRightFull ==
    ASSUME Inv, Full, NEW t \in Threads, SendOwnRight(t) PROVE Full'
<1>1. pc[t] = "user" /\ UNCHANGED <<active, backups, msgcount, qlimit, blocked>>
  BY DEF SendOwnRight
<1>2. PICK p \in held, o \in Options \ {"always"} :
          /\ Commit(ipc_port_clear_receiver(Now, p))
          /\ pc' = [pc EXCEPT ![t] = "send"]
          /\ call' = [call EXCEPT ![t] = [obj |-> p, size |-> 0, opt |-> o, circ |-> TRUE]]
  BY DEF SendOwnRight
<1> DEFINE c == [obj |-> p, size |-> 0, opt |-> o, circ |-> TRUE]
           s == ipc_port_clear_receiver(Now, p)
<1>3. s \in State /\ \A r : SameLooks(Now, pc, call, s, pc, call, r)
  <2>1. Moved(Now, s, pc, call, Live, p, Null)
    BY HeldIs, ClearGood DEF Inv
  <2> HIDE DEF s
  <2> QED
    BY <2>1, ToldLooks DEF Moved, Good
<1>4. call' = [call EXCEPT ![t] = c] /\ pc' = [pc EXCEPT ![t] = "send"] /\ Commit(s)
  BY <1>2
<1> HIDE DEF c, s
<1>5. ith' = [s.ith EXCEPT ![t] = s.ith[t]]
  <2>1. s.ith \in [Threads -> Ith] /\ ith' = s.ith
    BY <1>3, <1>4, Fields DEF StateTypes, Commit
  <2> QED
    BY <2>1
<1>6. Follows(t, s, s.ith[t], "send", c)
  BY <1>3, <1>4, <1>5 DEF Follows
<1> QED
  BY <1>1, <1>3, <1>6, ThreadFull

\* What taking the first message of q leaves.
Took(s, o, q, m) ==
    /\ o \in State /\ o.ip_pset = s.ip_pset /\ o.ith = s.ith
    /\ o.messages = [s.messages EXCEPT ![q] = Tail(@)]
    /\ o.seqno = [s.seqno EXCEPT ![m.port] = Next1(@)]

LEMMA TakeIs ==
    ASSUME NEW s \in State, NEW q \in Queues, s.messages[q] # <<>>
    PROVE  LET m == Head(s.messages[q])
           IN  /\ Took(s, [s EXCEPT !.messages[q] = Tail(@), !.seqno[m.port] = Next1(@)], q, m)
               /\ m \in Message /\ m.port \in Ports
<1> DEFINE m == Head(s.messages[q])
           M == [s.messages EXCEPT ![q] = Tail(@)]
           N == [s.seqno EXCEPT ![m.port] = Next1(@)]
           o == [s EXCEPT !.messages[q] = Tail(@), !.seqno[m.port] = Next1(@)]
<1>0. StateTypes(s)
  BY Fields
<1>1. m \in Message /\ m.port \in Ports /\ s.messages[q] \in Seq(Message) /\ Tail(s.messages[q]) \in Seq(Message)
  <2>1. s.messages[q] \in Seq(Message) /\ s.messages[q] # <<>>
    BY <1>0 DEF StateTypes
  <2>2. m \in Message /\ Tail(s.messages[q]) \in Seq(Message)
    BY <2>1, ListedTail
  <2> QED
    BY <2>1, <2>2 DEF Message
<1>2. o = [s EXCEPT !.messages = M, !.seqno = N]
  OBVIOUS
<1>3. M \in [Queues -> Seq(Message)]
  BY <1>0, <1>1 DEF StateTypes
<1>4. N \in [Ports -> 0 .. SeqnoMod - 1]
  <2>1. s.seqno \in [Ports -> 0 .. SeqnoMod - 1]
    BY <1>0 DEF StateTypes
  <2>2. Next1(s.seqno[m.port]) \in 0 .. SeqnoMod - 1
    BY <1>1, <2>1, Next1Is
  <2> QED
    BY <2>1, <2>2, Zenon
<1> HIDE DEF o, M, N, m
<1>5. o \in State
  BY <1>2, <1>3, <1>4, Zenon DEF State
<1>6. /\ o.ip_pset = s.ip_pset /\ o.messages = M /\ o.seqno = N /\ o.ith = s.ith
  BY <1>2, Zenon DEF State
<1>7. Took(s, o, q, m)
  BY <1>5, <1>6 DEF Took, M, N
<1> QED
  BY <1>1, <1>7 DEF o, m

\* A receiver's pass of the loop, with queues that no sender sees a
\* difference in.
RcvClose(t, c, s) ==
    /\ pc[t] \in {"user", "rcv_wait"} /\ c \in Call /\ c.obj \in Queues /\ s \in State
    /\ \A p \in Ports : SameLooks(Now, pc, call, s, pc, call, p)

LEMMA RcvLoopFull ==
    ASSUME Inv, Full, NEW t \in Threads, NEW c, NEW s, RcvClose(t, c, s), RcvLoop(t, c, s),
           UNCHANGED <<active, backups, msgcount, qlimit, blocked>>
    PROVE  Full'
<1> DEFINE q == c.obj
           m == Head(s.messages[q])
<1>0. /\ pc[t] \notin {"send_wait", "circular"} /\ q \in Queues /\ s \in State
      /\ \A p \in Ports : SameLooks(Now, pc, call, s, pc, call, p)
  BY DEF RcvClose
<1>1. CASE Return(t, s)
  <2>1. Follows(t, s, Idle, "user", NoCall)
    BY <1>0, <1>1, EndFollows DEF Return, Ending
  <2> QED
    BY <1>0, <2>1, ThreadFull
<1>2. CASE /\ s.messages[q] # <<>>
           /\ Proceed(t, [s EXCEPT !.messages[q] = Tail(@), !.seqno[m.port] = Next1(@)],
                      "rcv_got", m.port)
  <2> DEFINE o == [s EXCEPT !.messages[q] = Tail(@), !.seqno[m.port] = Next1(@)]
             d == [NoCall EXCEPT !.obj = m.port]
  <2>1. Took(s, o, q, m)
    BY <1>0, <1>2, TakeIs
  <2>2. Ending(t, o, "rcv_got", d)
    BY <1>2 DEF Proceed, Ending
  <2> HIDE DEF o, d
  <2>3. Follows(t, o, Idle, "rcv_got", d)
    BY <2>1, <2>2, EndFollows DEF Took
  <2>4. \A p \in Ports : SameLooks(Now, pc, call, o, pc, call, p)
    BY <1>0, <2>1 DEF Took, SameLooks, Looks
  <2> QED
    BY <1>0, <2>3, <2>4, ThreadFull
<1>3. CASE Block(t, [s EXCEPT !.receivers[q] = Append(@, t),
                              !.ith[t] = [@ EXCEPT !.state = "in_progress",
                                                   !.msize = c.size]], c, "rcv_wait")
  <2> DEFINE i == [s.ith[t] EXCEPT !.state = "in_progress", !.msize = c.size]
             R == [s.receivers EXCEPT ![q] = Append(@, t)]
             r == [s EXCEPT !.receivers = R]
  <2>1. Blocking(t, r, i, "rcv_wait", c)
    BY <1>3 DEF Block, Blocking
  <2>2. R \in [Queues -> Seq(Threads)]
    BY <1>0, Fields DEF StateTypes
  <2> HIDE DEF R, i
  <2>3. r \in State
    BY <1>0, <2>2, Zenon DEF State
  <2>4. r.ith = s.ith
    BY <1>0, Zenon DEF State
  <2> HIDE DEF r
  <2>5. Follows(t, r, i, "rcv_wait", c)
    BY <2>1, <2>3, BlockFollows
  <2>6. \A p \in Ports : SameLooks(Now, pc, call, r, pc, call, p)
    BY <1>0, <2>4 DEF SameLooks, Looks
  <2> QED
    BY <1>0, <2>5, <2>6, ThreadFull
<1> QED
  BY <1>1, <1>2, <1>3 DEF RcvLoop

LEMMA ReceiveFull ==
    ASSUME Inv, Full, NEW t \in Threads, ipc_mqueue_receive(t) PROVE Full'
<1>1. pc[t] = "user" /\ UNCHANGED <<active, backups, msgcount, qlimit, blocked>>
  BY DEF ipc_mqueue_receive
<1>2. PICK q \in Queues, n \in Sizes, o \in Options \ {"always"} :
          RcvLoop(t, [obj |-> q, size |-> n, opt |-> o, circ |-> FALSE],
                  IF q \in Ports THEN LeaveDeadSet(Now, q) ELSE Now)
  BY DEF ipc_mqueue_receive
<1> DEFINE c == [obj |-> q, size |-> n, opt |-> o, circ |-> FALSE]
           s == IF q \in Ports THEN LeaveDeadSet(Now, q) ELSE Now
<1>3. c \in Call /\ c.obj = q
  BY DEF Call
<1>4. RcvLoop(t, c, s)
  BY <1>2
<1> HIDE DEF c
<1>5. s \in State /\ Told(Now, s, pc, {})
  <2>1. CASE q \in Ports
    <3>1. Good(LeaveDeadSet(Now, q), pc, call, Live, {}) /\ Told(Now, LeaveDeadSet(Now, q), pc, {})
      BY <2>1, LeaveGood DEF Inv
    <3> QED
      BY <2>1, <3>1 DEF Good
  <2>2. CASE q \notin Ports
    BY <2>2, ToldNone DEF Inv, Good
  <2> QED
    BY <2>1, <2>2
<1> HIDE DEF s
<1>6. RcvClose(t, c, s)
  BY <1>1, <1>3, <1>5, ToldLooks DEF RcvClose
<1> QED
  BY <1>1, <1>4, <1>6, RcvLoopFull

\* A receiver that was told nothing comes off the queue.
LEMMA OffClose ==
    ASSUME Inv, NEW t \in Threads, pc[t] = "rcv_wait", ith[t].state = "in_progress",
           NEW c \in Call, c.obj = call[t].obj
    PROVE  RcvClose(t, c, Off(t))
<1>1. Off(t) \in State /\ Off(t).ith = ith /\ c.obj \in Queues
  BY OffGood DEF Good
<1>2. \A p \in Ports : SameLooks(Now, pc, call, Off(t), pc, call, p)
  BY <1>1, NowIs DEF SameLooks, Looks
<1> QED
  BY <1>1, <1>2 DEF RcvClose

\* A receiver returns, or goes on with its message.
LEMMA RcvEndFull ==
    ASSUME Inv, Full, NEW t \in Threads, pc[t] = "rcv_wait", NEW s \in State,
           \A p \in Ports : SameLooks(Now, pc, call, s, pc, call, p),
           NEW to \in {"user", "rcv_got"}, NEW d, Ending(t, s, to, d),
           UNCHANGED <<active, backups, msgcount, qlimit, blocked>>
    PROVE  Full'
<1>1. Follows(t, s, Idle, to, d)
  BY EndFollows
<1> QED
  BY <1>1, ThreadFull

LEMMA RcvWokenFull == ASSUME Inv, Full, NEW t \in Threads, RcvWoken(t) PROVE Full'
<1> DEFINE c == call[t]
           d == [c EXCEPT !.opt = "poll"]
           port == ith[t].kmsg.port
           g == [NoCall EXCEPT !.obj = port]
<1>1. pc[t] = "rcv_wait" /\ UNCHANGED <<active, backups, msgcount, qlimit, blocked>>
  BY DEF RcvWoken
<1>2. \/ Proceed(t, Now, "rcv_got", port)
      \/ Return(t, Now)
      \/ ith[t].state = "in_progress" /\ Return(t, Off(t))
      \/ ith[t].state = "in_progress" /\ RcvLoop(t, d, Off(t))
      \/ ith[t].state = "in_progress" /\ RcvLoop(t, c, Off(t))
  BY DEF RcvWoken, Off
<1>3. c \in Call /\ Now \in State /\ \A p \in Ports : SameLooks(Now, pc, call, Now, pc, call, p)
  BY DEF Inv, Types, Good, SameLooks
<1>4. d \in Call /\ d.obj = c.obj
  BY <1>3 DEF Call
<1>5. Proceed(t, Now, "rcv_got", port) => Ending(t, Now, "rcv_got", g)
  BY DEF Proceed, Ending
<1> HIDE DEF d, g
<1>6. ASSUME ith[t].state = "in_progress" PROVE RcvClose(t, c, Off(t)) /\ RcvClose(t, d, Off(t))
  BY <1>1, <1>3, <1>4, <1>6, OffClose
<1>7. CASE Proceed(t, Now, "rcv_got", port)
  BY <1>1, <1>3, <1>5, <1>7, RcvEndFull
<1>8. CASE Return(t, Now)
  <2>1. Ending(t, Now, "user", NoCall)
    BY <1>8 DEF Return, Ending
  <2> QED
    BY <1>1, <1>3, <2>1, RcvEndFull
<1>9. CASE ith[t].state = "in_progress" /\ Return(t, Off(t))
  <2>1. Ending(t, Off(t), "user", NoCall)
    BY <1>9 DEF Return, Ending
  <2>2. Off(t) \in State /\ \A p \in Ports : SameLooks(Now, pc, call, Off(t), pc, call, p)
    BY <1>6, <1>9 DEF RcvClose
  <2> QED
    BY <1>1, <2>1, <2>2, RcvEndFull
<1>10. CASE ith[t].state = "in_progress" /\ RcvLoop(t, d, Off(t))
  BY <1>1, <1>6, <1>10, RcvLoopFull
<1>11. CASE ith[t].state = "in_progress" /\ RcvLoop(t, c, Off(t))
  BY <1>1, <1>6, <1>11, RcvLoopFull
<1> QED
  BY <1>2, <1>7, <1>8, <1>9, <1>10, <1>11

LEMMA InterruptedFull ==
    ASSUME Inv, Full, NEW t \in Threads, mach_msg_interrupt(t) PROVE Full'
<1>1. /\ pc[t] = "rcv_wait" /\ ith[t].state = "in_progress" /\ Return(t, Off(t))
      /\ UNCHANGED <<active, backups, msgcount, qlimit, blocked>>
  BY DEF mach_msg_interrupt, Off
<1>2. call[t] \in Call
  BY DEF Inv, Types
<1>3. Off(t) \in State /\ \A p \in Ports : SameLooks(Now, pc, call, Off(t), pc, call, p)
  BY <1>1, <1>2, OffClose DEF RcvClose
<1>4. Ending(t, Off(t), "user", NoCall)
  BY <1>1 DEF Return, Ending
<1> QED
  BY <1>1, <1>3, <1>4, RcvEndFull

\* A step of no thread, that tells no sender to look again.
LEMMA QueuesFull ==
    ASSUME Full, NEW s, Commit(s), NEW T, Told(Now, s, pc, T), active' \subseteq active,
           UNCHANGED <<backups, msgcount, qlimit, blocked, pc, call>>
    PROVE  Full'
<1>1. (Now').ith = s.ith
  BY DEF Commit, Now
<1>2. ASSUME NEW p \in Ports PROVE SameLooks(Now, pc, call, Now', pc', call', p)
  <2>1. SameLooks(Now, pc, call, s, pc, call, p)
    BY ToldLooks
  <2> QED
    BY <1>1, <2>1 DEF SameLooks, Looks
<1> QED
  BY <1>2, FullSame DEF Full

\* A step that does not touch what threads were told.
LEMMA UntoldFull ==
    ASSUME Full, UNCHANGED <<active, backups, msgcount, qlimit, blocked, ith, pc, call>> PROVE Full'
<1>1. (Now').ith = Now.ith
  BY DEF Now
<1>2. \A p \in Ports : SameLooks(Now, pc, call, Now', pc', call', p)
  BY <1>1 DEF SameLooks, Looks
<1> QED
  BY <1>2, FullSame DEF Full

LEMMA SetSeqnoFull == ASSUME Inv, Full, NEW p \in Ports, ipc_port_set_seqno(p) PROVE Full'
<1>1. UNCHANGED <<active, backups, msgcount, qlimit, blocked, pc, call>>
  BY DEF ipc_port_set_seqno
<1>2. PICK n \in {0, SeqnoMod - 1} : Commit(Renumber(LeaveDeadSet(Now, p), p, n))
  BY DEF ipc_port_set_seqno
<1> DEFINE s == LeaveDeadSet(Now, p)
           o == Renumber(s, p, n)
<1>3. n \in 0 .. SeqnoMod - 1
  BY ModulusIs, SMT
<1>4. Commit(o)
  BY <1>2
<1> HIDE DEF s, o
<1>5. Good(s, pc, call, Live, {}) /\ Told(Now, s, pc, {})
  BY LeaveGood DEF Inv, s
<1>6. Told(s, o, pc, {})
  BY <1>3, <1>5, RenumberGood DEF o
<1>7. Told(Now, o, pc, {})
  BY <1>5, <1>6, ToldThen
<1> QED
  BY <1>1, <1>4, <1>7, QueuesFull

LEMMA PsetMoveFull == ASSUME Inv, Full, NEW p \in Ports, ipc_pset_move(p) PROVE Full'
<1>1. UNCHANGED <<active, backups, msgcount, qlimit, blocked, pc, call>>
  BY DEF ipc_pset_move
<1> DEFINE s == IF ip_pset[p] = Null THEN Now ELSE ipc_pset_remove(Now, p)
<1>2. PICK nset \in (Psets \cap active) \cup {Null} :
          Commit(IF nset = Null THEN s ELSE ipc_pset_add(s, nset, p))
  BY DEF ipc_pset_move
<1>3. Good(s, pc, call, Live, {}) /\ Told(Now, s, pc, {})
  <2>1. CASE ip_pset[p] = Null
    BY <2>1, ToldNone DEF Inv
  <2>2. CASE ip_pset[p] # Null
    <3>1. s = ipc_pset_remove(Now, p)
      BY <2>2
    <3> HIDE DEF s
    <3>2. Moved(Now, s, pc, call, Live, p, Null)
      BY <2>2, <3>1, RemoveGood, NowIs DEF Inv
    <3> QED
      BY <3>2 DEF Moved
  <2> QED
    BY <2>1, <2>2
<1> HIDE DEF s
<1>4. CASE nset = Null
  BY <1>1, <1>2, <1>3, <1>4, QueuesFull
<1>5. CASE nset # Null
  <2> DEFINE o == ipc_pset_add(s, nset, p)
  <2>1. Commit(o) /\ nset \in Psets
    BY <1>2, <1>5
  <2> HIDE DEF o
  <2>2. Moved(s, o, pc, call, Live, p, nset)
    BY <1>3, <2>1, AddGood DEF o
  <2>3. Told(Now, o, pc, {})
    BY <1>3, <2>2, ToldThen DEF Moved
  <2> QED
    BY <1>1, <2>1, <2>3, QueuesFull
<1> QED
  BY <1>4, <1>5

LEMMA PsetDestroyFull ==
    ASSUME Inv, Full, NEW set \in Psets, ipc_pset_destroy(set) PROVE Full'
<1> DEFINE o == ipc_mqueue_changed(Now, set, "died")
<1>1. /\ active' \subseteq active /\ Commit(o)
      /\ UNCHANGED <<backups, msgcount, qlimit, blocked, pc, call>>
  BY DEF ipc_pset_destroy
<1>2. Good(Now, pc, call, Live, {}) /\ set \in Queues /\ "died" \in {"died", "changed"}
  BY DEF Inv, Queues
<1>3. Told(Now, o, pc, {})
  BY <1>2, ChangedGood
<1> HIDE DEF o
<1> QED
  BY <1>1, <1>3, QueuesFull

LEMMA MoveRightFull == ASSUME Inv, Full, NEW p \in Ports, MoveRight(p) PROVE Full'
<1> DEFINE o == ipc_port_clear_receiver(Now, p)
<1>1. Commit(o) /\ UNCHANGED <<active, backups, msgcount, qlimit, blocked, pc, call>>
  BY DEF MoveRight
<1>2. Moved(Now, o, pc, call, Live, p, Null)
  BY ClearGood DEF Inv
<1> HIDE DEF o
<1> QED
  BY <1>1, <1>2, QueuesFull DEF Moved

-----------------------------------------------------------------------------
(* The steps that rouse senders.                                            *)

\* The first k of a list are k.
LEMMA FirstCount ==
    ASSUME NEW X, NEW l \in Seq(X), Once(l), NEW k \in 0 .. Len(l)
    PROVE  LET ts == ToSet(SubSeq(l, 1, k))
           IN  /\ IsFiniteSet(ts) /\ Cardinality(ts) = k
               /\ \A u \in ts : u \in X /\ Listed(l, u)
<1> DEFINE f == SubSeq(l, 1, k)
           ts == ToSet(f)
<1>1. Len(l) \in Nat /\ k \in Nat /\ k <= Len(l)
  BY SMT
<1>2. f \in Seq(X) /\ Len(f) = k /\ f \in [1 .. k -> X] /\ \A i \in 1 .. k : f[i] = l[i] /\ i \in 1 .. Len(l)
  <2>1. \A i \in 1 .. k : i \in 1 .. Len(l)
    BY <1>1, SMT
  <2>2. f \in Seq(X) /\ Len(f) = k /\ \A i \in 1 .. k : f[i] = l[i]
    BY <1>1, SMT
  <2> HIDE DEF f
  <2>3. f \in [1 .. Len(f) -> X]
    BY <2>2
  <2> QED
    BY <2>1, <2>2, <2>3
<1> HIDE DEF f
<1>3. \A u : u \in ts <=> \E i \in 1 .. k : f[i] = u
  <2>1. \A u : u \in ts <=> Listed(f, u)
    BY <1>2, ToSetIs
  <2> QED
    BY <1>2, <2>1 DEF Listed
<1> HIDE DEF ts
<1>4. f \in Bijection(1 .. k, ts)
  <2>1. f \in [1 .. k -> ts]
    BY <1>2, <1>3
  <2>2. \A a, b \in 1 .. k : f[a] = f[b] => a = b
    BY <1>2 DEF Once
  <2>3. \A u \in ts : \E i \in 1 .. k : f[i] = u
    BY <1>3
  <2> DEFINE D == 1 .. k
  <2> HIDE DEF D
  <2>4. /\ f \in [D -> ts] /\ \A a, b \in D : f[a] = f[b] => a = b
        /\ \A u \in ts : \E i \in D : f[i] = u
    BY <2>1, <2>2, <2>3 DEF D
  <2>5. f \in Bijection(D, ts)
    BY <2>4 DEF Bijection, Injection, Surjection, IsInjective
  <2> QED
    BY <2>5 DEF D
<1>5. IsFiniteSet(1 .. k) /\ Cardinality(1 .. k) = k
  BY <1>1, FS_Interval, SMT
<1>6. IsFiniteSet(ts) /\ Cardinality(ts) = k
  <2>1. ExistsBijection(1 .. k, ts)
    BY <1>4 DEF ExistsBijection
  <2> QED
    BY <1>5, <2>1, FS_Bijection
<1>7. \A u \in ts : u \in X /\ Listed(l, u)
  BY <1>2, <1>3 DEF Listed
<1> QED
  BY <1>6, <1>7 DEF ts, f

\* ts are senders waiting at p.
WaitAt(ts, p) == \A u \in ts : u \in Threads /\ Blocked(Now, pc, call, u, p)

LEMMA WaitersAre ==
    ASSUME Inv, NEW p \in Ports
    PROVE  /\ blocked[p] \in Seq(Threads) /\ Once(blocked[p])
           /\ \A u : Listed(blocked[p], u) => u \in Threads /\ Blocked(Now, pc, call, u, p)
<1>1. /\ blocked[p] \in Seq(Threads) /\ Once(blocked[p])
      /\ \A u \in Threads : Listed(blocked[p], u) <=> Blocked(Now, pc, call, u, p)
  BY DEF Inv, Types, Sending
<1>2. \A u : Listed(blocked[p], u) => u \in Threads
  BY <1>1, NotListed
<1> QED
  BY <1>1, <1>2

\* ts are told to look again, and nobody else.
Rouses(p, ts) ==
    \A r \in Ports : \A u \in Threads :
        /\ Looks(Now', pc', call', u, r) <=> Looks(Now, pc, call, u, r) \/ (r = p /\ u \in ts)
        /\ Circles(pc, call, u, r) => Circles(pc', call', u, r)

\* The room at p, before and after.
MoreRoom(p, ts) ==
    \/ /\ blocked[p] # <<>>
       /\ msgcount'[p] + Cardinality(ts) - msgcount[p] >= qlimit'[p] - qlimit[p]
    \/ blocked'[p] = <<>>
    \/ msgcount'[p] >= qlimit'[p]

LEMMA RousesFull ==
    ASSUME Inv, Full, NEW p \in Ports, NEW ts, IsFiniteSet(ts), WaitAt(ts, p), Rouses(p, ts),
           UNCHANGED <<active, backups>>, msgcount'[p] \in Int, qlimit'[p] \in Int, MoreRoom(p, ts),
           \A r \in Ports \ {p} : /\ blocked'[r] = blocked[r] /\ msgcount'[r] = msgcount[r]
                                  /\ qlimit'[r] = qlimit[r]
    PROVE  Full'
<1> SUFFICES ASSUME NEW r \in Ports \cap active, r \notin Backups
             PROVE  Crowded(Now', pc', call', blocked'[r], msgcount'[r], qlimit'[r], r)
  BY DEF Full, Crowds
<1>1. Crowded(Now, pc, call, blocked[r], msgcount[r], qlimit[r], r)
  BY DEF Full, Crowds
<1>2. CASE r # p
  <2>1. SameLooks(Now, pc, call, Now', pc', call', r)
    BY <1>2 DEF Rouses, SameLooks
  <2>2. blocked'[r] = blocked[r] /\ msgcount'[r] = msgcount[r] /\ qlimit'[r] = qlimit[r]
    BY <1>2
  <2> QED
    BY <1>1, <2>1, <2>2, CrowdedSame
<1>3. CASE r = p
  <2>1. msgcount[p] \in Int /\ qlimit[p] \in Int
    BY IntsAre
  <2>2. /\ \A u \in ts : ~Looks(Now, pc, call, u, p)
        /\ ts \in SUBSET Threads
    BY DEF WaitAt, Blocked, Looks
  <2>3. \A u \in Threads : /\ Looks(Now', pc', call', u, p) <=> Looks(Now, pc, call, u, p) \/ u \in ts
                           /\ Circles(pc, call, u, p) => Circles(pc', call', u, p)
    BY DEF Rouses
  <2>4. CASE blocked[p] # <<>> /\ msgcount'[p] + Cardinality(ts) - msgcount[p] >= qlimit'[p] - qlimit[p]
    <3> DEFINE c == msgcount'[p]
               n == qlimit'[p]
               l == blocked[p]
               m == blocked'[p]
    <3>1. c \in Int /\ n \in Int /\ l # <<>> /\ c + Cardinality(ts) - msgcount[p] >= n - qlimit[p]
      BY <2>4
    <3>2. Crowded(Now, pc, call, l, msgcount[p], qlimit[p], p)
      BY <1>1, <1>3
    <3> HIDE DEF c, n, l, m
    <3>3. Crowded(Now', pc', call', m, c, n, p)
      BY <2>1, <2>2, <2>3, <3>1, <3>2, CrowdedMore
    <3> QED
      BY <1>3, <3>3 DEF c, n, m
  <2>5. CASE blocked'[p] = <<>> \/ msgcount'[p] >= qlimit'[p]
    <3> DEFINE B == Looking(Now', pc', call', p)
    <3>1. B = Looking(Now, pc, call, p) \cup ts
      BY <2>2, <2>3 DEF Looking
    <3>2. IsFiniteSet(Looking(Now, pc, call, p))
      BY <1>1, <1>3 DEF Crowded
    <3>3. IsFiniteSet(B)
      BY <3>1, <3>2, FS_Union
    <3> HIDE DEF B
    <3>4. Cardinality(B) \in Nat
      BY <3>3, FS_CardinalityType
    <3>5. msgcount'[p] >= qlimit'[p] => msgcount'[p] + Cardinality(B) >= qlimit'[p]
      BY <3>4, SMT
    <3> QED
      BY <1>3, <2>5, <3>3, <3>5 DEF Crowded, B
  <2> QED
    BY <2>4, <2>5 DEF MoreRoom
<1> QED
  BY <1>2, <1>3

\* The receiver has the message, and its port's first waiter is roused.
LEMMA RcvFinishFull == ASSUME Inv, Full, NEW t \in Threads, RcvFinish(t) PROVE Full'
<1> DEFINE p == call[t].obj
           x == Head(blocked[p])
           n == msgcount[p] - 1
<1>1. pc[t] = "rcv_got" /\ UNCHANGED <<active, backups, qlimit>>
  BY DEF RcvFinish
<1>2. p \in Ports
  <2>1. PlaceOf(Now, pc, call, t)
    BY DEF Inv, Place
  <2> QED
    BY <1>1, <2>1 DEF PlaceOf
<1>3. /\ Now \in State /\ msgcount \in [Ports -> Int] /\ blocked \in [Ports -> Seq(Threads)]
      /\ msgcount[p] \in Int /\ qlimit[p] \in Int
  BY <1>2, IntsAre DEF Inv, Good, Types
<1>4. \/ /\ blocked[p] # <<>> /\ Return(t, Rouse(Now, {x}))
         /\ blocked' = [blocked EXCEPT ![p] = Tail(@)] /\ msgcount' = [msgcount EXCEPT ![p] = n]
      \/ /\ blocked[p] = <<>> \/ n >= qlimit[p]
         /\ Return(t, Now) /\ msgcount' = [msgcount EXCEPT ![p] = n] /\ UNCHANGED blocked
      \/ Return(t, Now) /\ UNCHANGED <<msgcount, blocked>>
  <2>1. n \in Int /\ (~(n < qlimit[p]) <=> n >= qlimit[p])
    BY <1>3, SMT
  <2> QED
    BY <2>1 DEF RcvFinish, Room
<1> HIDE DEF p, x, n
<1>5. ASSUME NEW s \in State, NEW ts, Roused(Now, s, ts), WaitAt(ts, p), Return(t, s)
      PROVE  Rouses(p, ts)
  <2>1. Ending(t, s, "user", NoCall)
    BY <1>5 DEF Return, Ending
  <2>2. Follows(t, s, Idle, "user", NoCall)
    BY <2>1, EndFollows
  <2> SUFFICES ASSUME NEW r \in Ports, NEW u \in Threads
               PROVE  /\ Looks(Now', pc', call', u, r) <=> Looks(Now, pc, call, u, r) \/ (r = p /\ u \in ts)
                      /\ Circles(pc, call, u, r) => Circles(pc', call', u, r)
    BY DEF Rouses
  <2>3. u \in ts => pc[u] = "send_wait" /\ call[u].obj = p /\ s.ith[u].state = "success"
    BY <1>5 DEF WaitAt, Blocked, Roused
  <2>4. u \notin ts => s.ith[u] = Now.ith[u]
    BY <1>5 DEF Roused
  <2>5. Looks(s, pc, call, u, r) <=> Looks(Now, pc, call, u, r) \/ (r = p /\ u \in ts)
    BY <1>5, <2>3, <2>4 DEF Looks, WaitAt, Blocked
  <2>6. CASE u # t
    BY <2>2, <2>5, <2>6, FollowsLooks
  <2>7. CASE u = t
    <3>1. ~Looks(Now', pc', call', t, r)
      BY <2>2, FollowsLooks
    <3>2. ~Looks(Now, pc, call, t, r) /\ ~Circles(pc, call, t, r) /\ t \notin ts
      BY <1>1, <2>3, <2>7 DEF Looks, Circles
    <3> QED
      BY <2>7, <3>1, <3>2
  <2> QED
    BY <2>6, <2>7
<1>6. Roused(Now, Now, {}) /\ WaitAt({}, p) /\ IsFiniteSet({}) /\ Cardinality({}) = 0
  BY <1>3, FS_EmptySet DEF Roused, SameQueues, WaitAt
<1>7. n \in Int
  BY <1>3, SMT DEF n
<1>8. CASE /\ blocked[p] # <<>> /\ Return(t, Rouse(Now, {x}))
           /\ blocked' = [blocked EXCEPT ![p] = Tail(@)] /\ msgcount' = [msgcount EXCEPT ![p] = n]
  <2> DEFINE s == Rouse(Now, {x})
             ts == {x}
  <2>1. WaitAt(ts, p)
    <3>1. blocked[p] \in Seq(Threads) /\ \A u : Listed(blocked[p], u) => u \in Threads /\ Blocked(Now, pc, call, u, p)
      BY <1>2, WaitersAre
    <3>2. 1 \in 1 .. Len(blocked[p]) /\ blocked[p][1] = x
      BY <1>8, <3>1, SMT DEF x
    <3>3. Listed(blocked[p], x)
      BY <3>2 DEF Listed
    <3> QED
      BY <3>1, <3>3 DEF WaitAt
  <2>2. Roused(Now, s, ts) /\ Return(t, s)
    BY <1>3, <1>8, RouseIs
  <2>3. IsFiniteSet(ts) /\ Cardinality(ts) = 1
    BY FS_Singleton
  <2> HIDE DEF s, ts
  <2>4. s \in State
    BY <2>2 DEF Roused
  <2>5. Rouses(p, ts)
    BY <1>5, <2>1, <2>2, <2>4
  <2>6. msgcount'[p] = n /\ qlimit'[p] = qlimit[p]
    BY <1>1, <1>2, <1>3, <1>8
  <2>7. n + 1 - msgcount[p] >= qlimit[p] - qlimit[p]
    BY <1>3, SMT DEF n
  <2>8. MoreRoom(p, ts)
    BY <1>8, <2>3, <2>6, <2>7 DEF MoreRoom
  <2>9. \A r \in Ports \ {p} : /\ blocked'[r] = blocked[r] /\ msgcount'[r] = msgcount[r]
                               /\ qlimit'[r] = qlimit[r]
    BY <1>1, <1>3, <1>8
  <2> QED
    BY <1>1, <1>2, <1>3, <1>7, <2>1, <2>3, <2>5, <2>6, <2>8, <2>9, RousesFull
<1>9. CASE /\ blocked[p] = <<>> \/ n >= qlimit[p]
           /\ Return(t, Now) /\ msgcount' = [msgcount EXCEPT ![p] = n] /\ UNCHANGED blocked
  <2>1. Rouses(p, {})
    BY <1>3, <1>5, <1>6, <1>9
  <2>2. msgcount'[p] = n /\ qlimit'[p] = qlimit[p] /\ blocked'[p] = blocked[p]
    BY <1>1, <1>2, <1>3, <1>9
  <2>3. MoreRoom(p, {})
    BY <1>9, <2>2 DEF MoreRoom
  <2>4. \A r \in Ports \ {p} : /\ blocked'[r] = blocked[r] /\ msgcount'[r] = msgcount[r]
                               /\ qlimit'[r] = qlimit[r]
    BY <1>1, <1>3, <1>9
  <2> QED
    BY <1>1, <1>2, <1>3, <1>6, <1>7, <2>1, <2>2, <2>3, <2>4, RousesFull
<1>10. CASE Return(t, Now) /\ UNCHANGED <<msgcount, blocked>>
  <2>1. Follows(t, Now, Idle, "user", NoCall)
    BY <1>3, <1>10, EndFollows DEF Return, Ending
  <2>2. \A r \in Ports : SameLooks(Now, pc, call, Now, pc, call, r)
    BY DEF SameLooks
  <2> QED
    BY <1>1, <1>10, <2>1, <2>2, ThreadFull
<1> QED
  BY <1>4, <1>8, <1>9, <1>10

\* Threads told to look again by a step of no thread.
LEMMA RousedRouses ==
    ASSUME NEW p \in Ports, NEW s, NEW o, NEW ts, Told(Now, s, pc, {}), Roused(s, o, ts), Commit(o),
           WaitAt(ts, p), UNCHANGED <<pc, call>>
    PROVE  Rouses(p, ts)
<1>1. (Now').ith = o.ith
  BY DEF Commit, Now
<1> SUFFICES ASSUME NEW r \in Ports, NEW u \in Threads
             PROVE  Looks(o, pc, call, u, r) <=> Looks(Now, pc, call, u, r) \/ (r = p /\ u \in ts)
  BY <1>1 DEF Rouses, Looks, Circles
<1>2. u \in ts => pc[u] = "send_wait" /\ call[u].obj = p /\ o.ith[u].state = "success"
  BY DEF WaitAt, Blocked, Roused
<1>3. u \notin ts => o.ith[u] = s.ith[u]
  BY DEF Roused
<1>4. Looks(s, pc, call, u, r) <=> Looks(Now, pc, call, u, r)
  BY ToldLooks DEF SameLooks
<1> QED
  BY <1>2, <1>3, <1>4 DEF Looks

\* A raised limit rouses as many as there is room for.
LEMMA SetQlimitFull == ASSUME Inv, Full, NEW p \in Ports, ipc_port_set_qlimit(p) PROVE Full'
<1> DEFINE l == blocked[p]
           old == qlimit[p]
<1>1. UNCHANGED <<active, backups, msgcount, pc, call>>
  BY DEF ipc_port_set_qlimit
<1>2. PICK n \in Qlimits :
         LET k == IF n <= old THEN 0 ELSE IF n - old < Len(l) THEN n - old ELSE Len(l)
         IN  /\ qlimit' = [qlimit EXCEPT ![p] = n]
             /\ Commit(Rouse(Now, ToSet(SubSeq(l, 1, k))))
             /\ blocked' = [blocked EXCEPT ![p] = SubSeq(l, k + 1, Len(l))]
  BY DEF ipc_port_set_qlimit
<1> DEFINE k == IF n <= old THEN 0 ELSE IF n - old < Len(l) THEN n - old ELSE Len(l)
           rest == SubSeq(l, k + 1, Len(l))
           ts == ToSet(SubSeq(l, 1, k))
           o == Rouse(Now, ts)
<1>3. /\ n \in Int /\ old \in Int /\ msgcount[p] \in Int
      /\ blocked \in [Ports -> Seq(Threads)] /\ msgcount \in [Ports -> Int]
      /\ qlimit \in [Ports -> Qlimits \cup {1}] /\ Now \in State
  <2>1. n \in Int
    BY BoundsAssumption DEF BoundsAssumption
  <2> QED
    BY <2>1, IntsAre DEF Inv, Types, Good
<1>4. /\ l \in Seq(Threads) /\ Once(l) /\ Len(l) \in Nat
      /\ \A u : Listed(l, u) => u \in Threads /\ Blocked(Now, pc, call, u, p)
  <2>1. /\ l \in Seq(Threads) /\ Once(l)
        /\ \A u : Listed(l, u) => u \in Threads /\ Blocked(Now, pc, call, u, p)
    BY WaitersAre
  <2> QED
    BY <2>1
<1>5. qlimit' = [qlimit EXCEPT ![p] = n] /\ Commit(o) /\ blocked' = [blocked EXCEPT ![p] = rest]
  BY <1>2
<1>6. qlimit'[p] = n /\ blocked'[p] = rest
  BY <1>3, <1>5
<1> HIDE DEF l, old
<1>7. k \in 0 .. Len(l) /\ ((l # <<>> /\ k >= n - old) \/ k = Len(l))
  <2>1. l # <<>> \/ Len(l) = 0
    BY <1>4
  <2> HIDE DEF k
  <2>2. /\ n <= old => k = 0
        /\ n > old /\ n - old < Len(l) => k = n - old
        /\ n > old /\ ~(n - old < Len(l)) => k = Len(l)
    BY <1>3, SMT DEF k
  <2>3. k \in 0 .. Len(l)
    BY <1>3, <1>4, <2>2, SMT
  <2>4. k >= n - old \/ k = Len(l)
    BY <1>3, <1>4, <2>2, SMT
  <2>5. Len(l) = 0 => k = Len(l)
    BY <1>4, <2>3, SMT
  <2> QED
    BY <2>1, <2>3, <2>4, <2>5
<1> HIDE DEF k
<1>8. IsFiniteSet(ts) /\ Cardinality(ts) = k /\ WaitAt(ts, p)
  <2>1. IsFiniteSet(ts) /\ Cardinality(ts) = k /\ \A u \in ts : Listed(l, u)
    BY <1>4, <1>7, FirstCount
  <2> QED
    BY <1>4, <2>1 DEF WaitAt
<1> HIDE DEF ts
<1>9. Rouses(p, ts)
  <2>1. Roused(Now, o, ts)
    BY <1>3, RouseIs
  <2>2. Told(Now, Now, pc, {})
    BY ToldNone
  <2> HIDE DEF o
  <2> QED
    BY <1>1, <1>5, <1>8, <2>1, <2>2, RousedRouses
<1>10. k = Len(l) => rest = <<>>
  <2>1. SubSeq(l, Len(l) + 1, Len(l)) = <<>>
    BY <1>4, SMT
  <2> QED
    BY <2>1
<1> HIDE DEF rest
<1>11. MoreRoom(p, ts)
  <2>1. msgcount'[p] = msgcount[p]
    BY <1>1
  <2>2. CASE l # <<>> /\ k >= n - old
    <3>1. msgcount[p] + k - msgcount[p] >= n - old
      BY <1>3, <1>7, <2>2, SMT
    <3> QED
      BY <1>6, <1>8, <2>1, <2>2, <3>1 DEF MoreRoom, l, old
  <2>3. CASE k = Len(l)
    BY <1>6, <1>10, <2>3 DEF MoreRoom
  <2> QED
    BY <1>7, <2>2, <2>3
<1>12. msgcount'[p] \in Int /\ qlimit'[p] \in Int
  BY <1>1, <1>3, <1>6
<1>13. \A r \in Ports \ {p} : /\ blocked'[r] = blocked[r] /\ msgcount'[r] = msgcount[r]
                              /\ qlimit'[r] = qlimit[r]
  BY <1>1, <1>3, <1>5
<1> QED
  BY <1>1, <1>8, <1>9, <1>11, <1>12, <1>13, RousesFull

-----------------------------------------------------------------------------
(* The room after a port is gone, and its waiters have been roused.         *)
LEMMA DestroyFull ==
    ASSUME Inv, Full, NEW p \in Ports, NEW s \in State, Told(Now, s, pc, {}), ipc_port_destroy(p, s),
           \A u \in Threads : \/ pc'[u] = pc[u] /\ call'[u] = call[u]
                              \/ pc[u] = "circular" /\ call[u].obj = p /\ pc'[u] = "user"
    PROVE  Full'
<1> DEFINE ts == ToSet(blocked[p])
           o == Rouse(s, ts)
<1>1. /\ UNCHANGED <<msgcount, qlimit>>
      /\ \/ /\ p \in backups /\ backups' = backups \ {p} /\ Commit(s)
            /\ UNCHANGED <<active, blocked>>
         \/ /\ active' = active \ {p} /\ blocked' = [blocked EXCEPT ![p] = <<>>] /\ Commit(o)
            /\ UNCHANGED backups
  BY DEF ipc_port_destroy
<1>2. Roused(s, o, ts)
  BY RouseIs
<1>3. \A u \in ts : call[u].obj = p
  <2>1. blocked[p] \in Seq(Threads) /\ \A u : Listed(blocked[p], u) => u \in Threads /\ Blocked(Now, pc, call, u, p)
    BY WaitersAre
  <2> QED
    BY <2>1, ToSetIs DEF Blocked
<1> HIDE DEF ts, o
<1>4. (Now').ith = s.ith \/ (Now').ith = o.ith
  BY <1>1 DEF Commit, Now
<1>5. ASSUME NEW r \in Ports, r # p PROVE SameLooks(Now, pc, call, Now', pc', call', r)
  <2> SUFFICES ASSUME NEW u \in Threads
               PROVE  /\ Looks(Now', pc', call', u, r) <=> Looks(Now, pc, call, u, r)
                      /\ Circles(pc, call, u, r) => Circles(pc', call', u, r)
    BY DEF SameLooks
  <2>1. Looks(s, pc, call, u, r) <=> Looks(Now, pc, call, u, r)
    BY ToldLooks DEF SameLooks
  <2>2. u \notin ts => o.ith[u] = s.ith[u]
    BY <1>2 DEF Roused
  <2> QED
    BY <1>3, <1>4, <1>5, <2>1, <2>2 DEF Looks, Circles
<1>6. \A r \in Ports \cap active' :
          r \notin Backups => /\ blocked'[r] # <<>> => blocked[r] # <<>>
                              /\ SameLooks(Now, pc, call, Now', pc', call', r)
  <2>1. blocked \in [Ports -> Seq(Threads)]
    BY DEF Inv, Types
  <2>2. p \in Backups \/ p \notin active'
    BY <1>1 DEF Full
  <2>3. \A r \in Ports : r # p => blocked'[r] = blocked[r]
    BY <1>1, <2>1
  <2> QED
    BY <1>5, <2>2, <2>3
<1>7. backups' \subseteq Backups /\ active' \subseteq active
  BY <1>1 DEF Full
<1> QED
  BY <1>1, <1>6, <1>7, FullSame

LEMMA DestroyRightFull == ASSUME Inv, Full, NEW p \in Ports, DestroyRight(p) PROVE Full'
<1> DEFINE s == ipc_port_clear_receiver(Now, p)
<1>1. p \in held /\ ipc_port_destroy(p, s) /\ UNCHANGED <<pc, call>>
  BY DEF DestroyRight
<1>2. Moved(Now, s, pc, call, Live, p, Null)
  BY ClearGood DEF Inv
<1> HIDE DEF s
<1>3. s \in State /\ Told(Now, s, pc, {})
  BY <1>2 DEF Moved, Good
<1> QED
  BY <1>1, <1>3, DestroyFull

LEMMA DestroyInTransitFull == ASSUME Inv, Full, NEW p \in Ports, DestroyInTransit(p) PROVE Full'
<1>1. ipc_port_destroy(p, Now) /\ UNCHANGED <<pc, call>>
  BY DEF DestroyInTransit
<1>2. Now \in State /\ Told(Now, Now, pc, {})
  BY ToldNone DEF Inv, Good
<1> QED
  BY <1>1, <1>2, DestroyFull

LEMMA DestroyCircularFull == ASSUME Inv, Full, NEW t \in Threads, DestroyCircular(t) PROVE Full'
<1> DEFINE p == call[t].obj
<1>1. /\ pc[t] = "circular" /\ ipc_port_destroy(p, Now)
      /\ pc' = [pc EXCEPT ![t] = "user"] /\ call' = [call EXCEPT ![t] = NoCall]
  BY DEF DestroyCircular
<1>2. p \in Ports
  <2>1. PlaceOf(Now, pc, call, t)
    BY DEF Inv, Place
  <2> QED
    BY <1>1, <2>1 DEF PlaceOf
<1>3. \A u \in Threads : \/ pc'[u] = pc[u] /\ call'[u] = call[u]
                         \/ pc[u] = "circular" /\ call[u].obj = p /\ pc'[u] = "user"
  BY <1>1 DEF Inv, Types
<1>4. Now \in State /\ Told(Now, Now, pc, {})
  BY ToldNone DEF Inv, Good
<1> HIDE DEF p
<1> QED
  BY <1>1, <1>2, <1>3, <1>4, DestroyFull

LEMMA WaitEndsFull ==
    ASSUME Full, NEW t \in Threads, NEW result, WaitEnds(t, result) PROVE Full'
<1>1. UNCHANGED <<active, backups, msgcount, qlimit, blocked, ith, pc, call>>
  BY DEF WaitEnds
<1> QED
  BY <1>1, UntoldFull

LEMMA CopyoutRightFull == ASSUME Full, NEW p \in Ports, CopyoutRight(p) PROVE Full'
<1>1. UNCHANGED <<active, backups, msgcount, qlimit, blocked, ith, pc, call>>
  BY DEF CopyoutRight
<1> QED
  BY <1>1, UntoldFull

LEMMA DestroyMessageFull == ASSUME Full, NEW p \in Ports, DestroyMessage(p) PROVE Full'
<1>1. UNCHANGED <<active, backups, msgcount, qlimit, blocked, ith, pc, call>>
  BY DEF DestroyMessage
<1> QED
  BY <1>1, UntoldFull

\* At the start nobody waits.
LEMMA FullBegin == ASSUME Init PROVE Full
<1>1. /\ backups = Backups /\ blocked = [p \in Ports |-> <<>>] /\ pc = [t \in Threads |-> "user"]
  BY DEF Init
<1> SUFFICES ASSUME NEW p \in Ports
             PROVE  Crowded(Now, pc, call, blocked[p], msgcount[p], qlimit[p], p)
  BY <1>1 DEF Full, Crowds
<1>2. Looking(Now, pc, call, p) = {}
  BY <1>1 DEF Looking, Looks
<1>3. IsFiniteSet(Looking(Now, pc, call, p))
  BY <1>2, FS_EmptySet
<1> QED
  BY <1>1, <1>3 DEF Crowded

LEMMA FullSteps == ASSUME Inv, Counted, Full, [Next]_vars PROVE Full'
<1>1. ASSUME NEW t \in Threads, ThreadStep(t) PROVE Full'
  <2>1. CASE ipc_mqueue_send(t)
    BY <2>1, SendFull
  <2>2. CASE SendOwnRight(t)
    BY <2>2, SendOwnRightFull
  <2>3. CASE SendOwnRightLoop(t)
    BY <2>3, SendOwnRightLoopFull
  <2>4. CASE SendWoken(t)
    BY <2>4, SendWokenFull
  <2>5. CASE SendGo(t)
    BY <2>5, SendGoFull
  <2>6. CASE DestroyCircular(t)
    BY <2>6, DestroyCircularFull
  <2>7. CASE ipc_mqueue_receive(t)
    BY <2>7, ReceiveFull
  <2>8. CASE RcvWoken(t)
    BY <2>8, RcvWokenFull
  <2>9. CASE RcvFinish(t)
    BY <2>9, RcvFinishFull
  <2>10. CASE mach_msg_interrupt(t)
    BY <2>10, InterruptedFull
  <2>11. CASE Timeout(t)
    BY <2>11, WaitEndsFull DEF Timeout
  <2>12. CASE Interrupt(t)
    BY <2>12, WaitEndsFull DEF Interrupt
  <2> QED
    BY <1>1, <2>1, <2>2, <2>3, <2>4, <2>5, <2>6, <2>7, <2>8, <2>9, <2>10, <2>11, <2>12
       DEF ThreadStep
<1>2. ASSUME NEW p \in Ports, PortStep(p) PROVE Full'
  BY <1>2, SetQlimitFull, SetSeqnoFull, PsetMoveFull, MoveRightFull,
     CopyoutRightFull, DestroyRightFull, DestroyInTransitFull, DestroyMessageFull
     DEF PortStep
<1>3. ASSUME NEW set \in Psets, ipc_pset_destroy(set) PROVE Full'
  BY <1>3, PsetDestroyFull
<1>4. CASE UNCHANGED vars
  BY <1>4, UntoldFull DEF vars
<1> QED
  BY <1>1, <1>2, <1>3, <1>4 DEF Next

\* No sender to p is left behind.
Seen(p) ==
    blocked[p] # <<>> => \/ msgcount[p] + Cardinality(Granted(p)) >= qlimit[p]
                         \/ \E t \in Threads : pc[t] = "circular" /\ call[t].obj = p

\* No sender is left behind at a port without a backup (ipc_mqueue.c, the
\* wake-up of one sender in ipc_mqueue_receive, and ipc_port_set_qlimit):
\* while senders wait on the live port, the queue is full, or enough woken
\* senders to fill it have not looked yet, or a circular message is about to
\* rouse them all.
THEOREM AllSeen == Spec => [](\A p \in Ports \cap active : p \notin Backups => Seen(p))
<1>1. Init => Inv /\ Counts /\ Full
  BY Begins, CountsBegin, FullBegin
<1>2. Inv /\ Counts /\ Full /\ [Next]_vars => (Inv /\ Counts /\ Full)'
  BY Steps, CountsSteps, FullSteps DEF Counts
<1>3. Full => \A p \in Ports \cap active : p \notin Backups => Seen(p)
  <2> SUFFICES ASSUME Full, NEW p \in Ports \cap active, p \notin Backups PROVE Seen(p)
    OBVIOUS
  <2>1. Granted(p) = Looking(Now, pc, call, p)
    BY NowIs DEF Granted, Looking, Looks
  <2> QED
    BY <2>1 DEF Full, Crowds, Crowded, Circles, Seen
<1> QED
  BY <1>1, <1>2, <1>3, PTL DEF Spec

\* And so nobody is, where no port has a backup.  A right that goes to a
\* backup port while a circular message is destroyed rouses nobody.
THEOREM NoneStranded == ASSUME Backups = {} PROVE Spec => []NoSenderStranded
<1>1. (\A p \in Ports \cap active : p \notin Backups => Seen(p)) => NoSenderStranded
  BY DEF Seen, NoSenderStranded
<1> QED
  BY <1>1, AllSeen, PTL
=============================================================================
