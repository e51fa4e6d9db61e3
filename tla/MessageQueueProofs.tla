------------------------- MODULE MessageQueueProofs -------------------------
(***************************************************************************)
(* What is true of every instance of MessageQueue: its types, that its     *)
(* queues are consistent, that no thread is left waiting for nothing, and  *)
(* that on a uniprocessor no thread is woken before its operation is       *)
(* complete.                                                               *)
(***************************************************************************)
EXTENDS MessageQueue, ListTheorems

-----------------------------------------------------------------------------
(* The invariant, in terms of the state s that the queue routines work on,  *)
(* so that what is between two of them is a state too.                      *)
State == [ip_pset : [Ports -> Psets \cup {Null}], seqno : [Ports -> 0 .. SeqnoMod - 1],
          messages : [Queues -> Seq(Message)], receivers : [Queues -> Seq(Threads)],
          ith : [Threads -> Ith], wait : [Threads -> Waiting]]

\* imq_threads of q are the threads that wait in it and have not been told.
Receiving(s, PC, CL) ==
    \A q \in Queues :
        /\ Once(s.receivers[q])
        /\ \A t \in Threads :
              Listed(s.receivers[q], t) <=>
                 PC[t] = "rcv_wait" /\ CL[t].obj = q /\ s.ith[t].state = "in_progress"

\* And ip_blocked of p.
Blocked(s, PC, CL, t, p) ==
    PC[t] = "send_wait" /\ CL[t].obj = p /\ s.ith[t].state = "in_progress"

Sending(b, s, PC, CL) ==
    \A p \in Ports :
        /\ Once(b[p])
        /\ \A t \in Threads : Listed(b[p], t) <=> Blocked(s, PC, CL, t, p)

\* A queue holds messages or threads, and threads only if it is alive.
Consistent(s, ACT) ==
    \A q \in Queues :
        /\ s.receivers[q] # <<>> => s.messages[q] = <<>>
        /\ q \notin ACT => s.receivers[q] = <<>>

\* A port's own queue holds its own messages, and nothing while it is in a
\* set; S is the ports of which this need not hold.
Apart(s, S) ==
    \A p \in Ports \ S : s.ip_pset[p] # Null => s.messages[p] = <<>> /\ s.receivers[p] = <<>>
Own(s) ==
    \A p \in Ports : \A i \in 1 .. Len(s.messages[p]) : s.messages[p][i].port = p

\* What a thread's call is about, by where it is.
PlaceOf(s, PC, CL, t) ==
    /\ PC[t] \in {"send", "send_wait", "circular", "rcv_got"} => CL[t].obj \in Ports
    /\ PC[t] = "rcv_wait" => CL[t].obj \in Queues
    /\ PC[t] = "send_go" => CL[t].obj \in Threads
    /\ PC[t] = "send" => CL[t].circ
    /\ CL[t].circ => PC[t] \in {"send", "send_wait"}
    /\ s.ith[t].state # "none" => PC[t] \in {"send_wait", "rcv_wait"}
    /\ s.wait[t] # "none" => PC[t] \in {"send_wait", "rcv_wait"}
    /\ PC[t] = "rcv_wait" /\ s.ith[t].state = "success" => s.ith[t].kmsg \in Message

Place(s, PC, CL) == \A t \in Threads : PlaceOf(s, PC, CL, t)

\* The receive rights: of the ports in sets they are in a space, and a
\* message to p with p's right has it to itself.
Carries(PC, CL, t, p) == CL[t].obj = p /\ (CL[t].circ \/ PC[t] = "circular")

Rights(HELD, ACT, PSET, b, PC, CL) ==
    /\ HELD \subseteq ACT
    /\ \A p \in Ports : /\ PSET[p] # Null => p \in HELD
                        /\ p \notin ACT => b[p] = <<>>
    /\ \A p \in Ports, t \in Threads :
          Carries(PC, CL, t, p) => /\ p \notin HELD
                                   /\ \A u \in Threads : Carries(PC, CL, u, p) => u = t

\* A thread that waits has not been told, or is about to be started.
Starts(PC, CL, u, t) == PC[u] = "send_go" /\ CL[u].obj = t

Started(s, PC, CL) ==
    \A t \in Threads :
        s.wait[t] = "waiting" => \/ s.ith[t].state = "in_progress"
                                 \/ \E u \in Threads : Starts(PC, CL, u, t)

\* On a uniprocessor, one thread at most is between two lock holds, and
\* the receiver it is about to start has not moved.
Alone(s, PC, CL) ==
    ~Multiprocessor =>
        /\ \A t, u \in Threads : PC[t] \in Between /\ PC[u] \in Between => t = u
        /\ \A t, u \in Threads : Starts(PC, CL, u, t) => s.ith[t].state # "in_progress"
        /\ \A t \in Threads : s.ith[t].state = "in_progress" => s.wait[t] # "awakened"

Places == {"user", "send", "send_wait", "send_go", "circular", "rcv_wait", "rcv_got"}

Types ==
    /\ active \subseteq Queues /\ held \subseteq Ports /\ backups \subseteq Ports
    /\ msgcount \in [Ports -> Int] /\ qlimit \in [Ports -> Qlimits \cup {1}]
    /\ blocked \in [Ports -> Seq(Threads)]
    /\ pc \in [Threads -> Places] /\ call \in [Threads -> Call]

\* Where threads may wait to receive: in a live set, or at a port whose right
\* is in a space.
Live == (active \cap Psets) \cup held

\* The part of the invariant about the queues.
Good(s, PC, CL, ACT, S) ==
    s \in State /\ Receiving(s, PC, CL) /\ Consistent(s, ACT) /\ Apart(s, S) /\ Own(s)

Inv ==
    /\ Types
    /\ Good(Now, pc, call, Live, {}) /\ Sending(blocked, Now, pc, call)
    /\ Place(Now, pc, call) /\ Rights(held, active, ip_pset, blocked, pc, call)
    /\ Started(Now, pc, call) /\ Alone(Now, pc, call)

-----------------------------------------------------------------------------
(* Lemmas about the queue routines.                                         *)
StateTypes(s) ==
    /\ s.ip_pset \in [Ports -> Psets \cup {Null}] /\ s.seqno \in [Ports -> 0 .. SeqnoMod - 1]
    /\ s.messages \in [Queues -> Seq(Message)] /\ s.receivers \in [Queues -> Seq(Threads)]
    /\ s.ith \in [Threads -> Ith] /\ s.wait \in [Threads -> Waiting]

\* The fields of a state have their types.
LEMMA Fields == ASSUME NEW s \in State PROVE StateTypes(s)
  BY DEF State, StateTypes

\* What is assigned to fields of a state, if it is of their types, makes a
\* state with those fields.
Assigned(s, o, a, n, m, r, i, w) ==
    /\ o \in State /\ o.ip_pset = a /\ o.seqno = n /\ o.messages = m
    /\ o.receivers = r /\ o.ith = i /\ o.wait = w

\* The next sequence number is one.
LEMMA Next1Is == ASSUME NEW n \in 0 .. SeqnoMod - 1 PROVE Next1(n) \in 0 .. SeqnoMod - 1
<1>1. SeqnoMod \in Nat /\ SeqnoMod >= 1 /\ n + 1 \in Int
  BY BoundsAssumption, SMT DEF BoundsAssumption
<1> DEFINE k == n + 1
<1>2. k % SeqnoMod \in 0 .. SeqnoMod - 1
  <2>1. k \in Int
    BY <1>1
  <2> HIDE DEF k
  <2> QED
    BY <1>1, <2>1, SMT
<1> QED
  BY <1>2 DEF Next1

\* Waking up threads, and only them.
LEMMA GoIs ==
    ASSUME NEW w \in [Threads -> Waiting], NEW ts
    PROVE  /\ thread_go(w, ts) \in [Threads -> Waiting]
           /\ \A t \in Threads : /\ t \notin ts => thread_go(w, ts)[t] = w[t]
                                 /\ t \in ts => thread_go(w, ts)[t] =
                                       IF w[t] = "waiting" THEN "awakened" ELSE w[t]
  BY DEF thread_go, Waiting

\* The place of the receiver that takes m, or the one after the last.
LEMMA TakerIs ==
    ASSUME NEW s \in State, NEW q \in Queues, NEW m
    PROVE  Taker(s, q, m) \in 1 .. Len(s.receivers[q]) + 1
<1> DEFINE n == Len(s.receivers[q])
<1>1. n \in Nat /\ DOMAIN s.receivers[q] = 1 .. n
  <2>1. s.receivers[q] \in Seq(Threads)
    BY Fields DEF StateTypes
  <2> QED
    BY <2>1
<1>2. Fits(s, q, m) \subseteq 1 .. n
  BY <1>1 DEF Fits
<1>3. CASE Fits(s, q, m) = {}
  <2>1. Taker(s, q, m) = n + 1
    BY <1>3 DEF Taker
  <2> QED
    BY <1>1, <2>1, SMT
<1>4. CASE Fits(s, q, m) # {}
  <2> DEFINE fits == Fits(s, q, m)
  <2>1. fits \in SUBSET Nat /\ fits # {}
    BY <1>2, <1>4, SMT
  <2>2. Taker(s, q, m) = CHOOSE i \in fits : \A j \in fits : i <= j
    BY <1>4 DEF Taker
  <2> HIDE DEF fits
  <2>3. \E i \in fits : \A j \in fits : i <= j
    BY <2>1, Smallest
  <2>4. Taker(s, q, m) \in fits
    BY <2>2, <2>3
  <2>5. Taker(s, q, m) \in 1 .. n
    BY <1>2, <2>4 DEF fits
  <2> QED
    BY <2>5, <1>1, SMT
<1> QED
  BY <1>3, <1>4

\* Offering m gives it to one receiver, with those before it sent away, or
\* sends all away and queues it.
Small(s, q, m) == {s.receivers[q][j] : j \in 1 .. Taker(s, q, m) - 1}
Taken(s, q, m) == Taker(s, q, m) <= Len(s.receivers[q])
Rest(s, q, m) == SubSeq(s.receivers[q], Taker(s, q, m) + 1, Len(s.receivers[q]))

Offered(s, o, q, m, rest, small, taken, x) ==
    /\ o \in State /\ o.ip_pset = s.ip_pset
    /\ o.receivers = [s.receivers EXCEPT ![q] = rest]
    /\ o.messages = IF taken THEN s.messages ELSE [s.messages EXCEPT ![q] = Append(@, m)]
    /\ o.wait = thread_go(s.wait, small)
    /\ \A t \in Threads : o.ith[t] =
          IF t \in small THEN [s.ith[t] EXCEPT !.state = "too_large", !.msize = m.size]
          ELSE IF taken /\ t = x THEN [s.ith[t] EXCEPT !.state = "success", !.kmsg = m]
          ELSE s.ith[t]

LEMMA OfferIs ==
    ASSUME NEW s \in State, NEW q \in Queues, NEW m \in Message
    PROVE  Offered(s, Offer(s, q, m), q, m, Rest(s, q, m), Small(s, q, m), Taken(s, q, m),
                   s.receivers[q][Taker(s, q, m)])
<1> DEFINE o == Offer(s, q, m)
           taken == Taken(s, q, m)
           R == [s.receivers EXCEPT ![q] = Rest(s, q, m)]
           M == [s.messages EXCEPT ![q] = IF taken THEN @ ELSE Append(@, m)]
           N == [s.seqno EXCEPT ![m.port] = IF taken THEN Next1(@) ELSE @]
           W == thread_go(s.wait, Small(s, q, m))
           I == [t \in Threads |->
                   IF t \in Small(s, q, m)
                   THEN [s.ith[t] EXCEPT !.state = "too_large", !.msize = m.size]
                   ELSE IF taken /\ t = s.receivers[q][Taker(s, q, m)]
                   THEN [s.ith[t] EXCEPT !.state = "success", !.kmsg = m]
                   ELSE s.ith[t]]
<1>0. StateTypes(s)
  BY Fields
<1>1. o = [s EXCEPT !.receivers = R, !.messages = M, !.seqno = N, !.wait = W, !.ith = I]
  BY DEF Offer, Small, Taken, Rest, ipc_kmsg_enqueue
<1>2. R \in [Queues -> Seq(Threads)]
  <2>1. Rest(s, q, m) \in Seq(Threads)
    <3>1. s.receivers[q] \in Seq(Threads) /\ Len(s.receivers[q]) \in Nat
      <4>1. s.receivers[q] \in Seq(Threads)
        BY <1>0 DEF StateTypes
      <4> QED
        BY <4>1
    <3> DEFINE i == Taker(s, q, m)
               l == s.receivers[q]
    <3>2. i \in 1 .. Len(l) + 1
      BY TakerIs
    <3> HIDE DEF i, l
    <3>3. \A k \in i + 1 .. Len(l) : k \in 1 .. Len(l)
      BY <3>1, <3>2, SMT
    <3>4. SubSeq(l, i + 1, Len(l)) \in Seq(Threads)
      BY <3>1, <3>2, SMT DEF l
    <3> QED
      BY <3>4 DEF Rest, i, l
  <2> QED
    BY <2>1, <1>0 DEF StateTypes
<1>3. M \in [Queues -> Seq(Message)]
  BY <1>0 DEF StateTypes
<1>4. N \in [Ports -> 0 .. SeqnoMod - 1]
  <2>1. m.port \in Ports
    BY DEF Message
  <2>2. Next1(s.seqno[m.port]) \in 0 .. SeqnoMod - 1
    BY <1>0, <2>1, Next1Is DEF StateTypes
  <2> QED
    BY <1>0, <2>2, Zenon DEF StateTypes
<1>5. W \in [Threads -> Waiting]
  BY <1>0, GoIs DEF StateTypes
<1>6. I \in [Threads -> Ith]
  <2>1. ASSUME NEW t \in Threads
        PROVE  /\ [s.ith[t] EXCEPT !.state = "too_large", !.msize = m.size] \in Ith
               /\ [s.ith[t] EXCEPT !.state = "success", !.kmsg = m] \in Ith
               /\ s.ith[t] \in Ith
    <3>1. s.ith[t] \in Ith /\ m.size \in Sizes \cup {0}
      BY <1>0 DEF StateTypes, Message
    <3> QED
      BY <3>1 DEF Ith
  <2> QED
    BY <2>1
<1> HIDE DEF R, M, N, W, I, taken, o
<1>7. o \in State
  BY <1>1, <1>2, <1>3, <1>4, <1>5, <1>6, Zenon DEF State
<1>8. /\ o.ip_pset = s.ip_pset /\ o.receivers = R /\ o.messages = M /\ o.wait = W /\ o.ith = I
  BY <1>1, Zenon DEF State
<1>9. M = IF taken THEN s.messages ELSE [s.messages EXCEPT ![q] = Append(@, m)]
  BY <1>0 DEF M, StateTypes
<1>10. \A t \in Threads : o.ith[t] =
                 IF t \in Small(s, q, m)
                 THEN [s.ith[t] EXCEPT !.state = "too_large", !.msize = m.size]
                 ELSE IF taken /\ t = s.receivers[q][Taker(s, q, m)]
                 THEN [s.ith[t] EXCEPT !.state = "success", !.kmsg = m]
                 ELSE s.ith[t]
  BY <1>8 DEF I
<1> QED
  BY <1>7, <1>8, <1>9, <1>10 DEF Offered, o, taken, R, W

\* What offering a message does to the list of receivers.
LEMMA OfferLists ==
    ASSUME NEW s \in State, NEW q \in Queues, NEW m, Once(s.receivers[q])
    PROVE  LET rs == s.receivers[q]
               i == Taker(s, q, m)
           IN  /\ Rest(s, q, m) \in Seq(Threads) /\ Once(Rest(s, q, m))
               /\ \A t : Listed(Rest(s, q, m), t) <=>
                            /\ Listed(rs, t) /\ t \notin Small(s, q, m)
                            /\ ~(Taken(s, q, m) /\ t = rs[i])
               /\ \A t \in Small(s, q, m) : Listed(rs, t)
               /\ Taken(s, q, m) => Listed(rs, rs[i]) /\ rs[i] \notin Small(s, q, m)
               /\ ~Taken(s, q, m) => Rest(s, q, m) = <<>>
<1> DEFINE rs == s.receivers[q]
           i == Taker(s, q, m)
           n == Len(rs)
<1>1. rs \in Seq(Threads) /\ n \in Nat /\ i \in 1 .. n + 1
  <2>1. rs \in Seq(Threads)
    BY Fields DEF StateTypes
  <2>2. i \in 1 .. n + 1
    BY TakerIs
  <2> QED
    BY <2>1, <2>2
<1>2. /\ Small(s, q, m) = {rs[j] : j \in 1 .. i - 1}
      /\ Rest(s, q, m) = SubSeq(rs, i + 1, n)
      /\ Taken(s, q, m) <=> i <= n
  BY DEF Small, Rest, Taken
<1>3. \A j, k \in 1 .. n : rs[j] = rs[k] => j = k
  BY DEF Once
<1> HIDE DEF rs, i, n
<1>4. CASE i = n + 1
  <2>1. SubSeq(rs, i + 1, n) = <<>>
    BY <1>1, <1>4, SMT DEF n
  <2>2. \A t : Listed(rs, t) => t \in {rs[j] : j \in 1 .. i - 1}
    BY <1>1, <1>4, SMT DEF Listed, n
  <2>3. \A t \in {rs[j] : j \in 1 .. i - 1} : Listed(rs, t)
    BY <1>1, <1>4, SMT DEF Listed, n
  <2>4. Once(<<>>) /\ (\A t : ~Listed(<<>>, t)) /\ <<>> \in Seq(Threads)
    BY DEF Once, Listed
  <2>5. ~(i <= n)
    BY <1>1, <1>4, SMT
  <2> QED
    BY <2>1, <2>2, <2>3, <2>4, <2>5, <1>2 DEF rs, i
<1>5. CASE i # n + 1
  <2>1. i \in 1 .. n /\ i + 1 \in 1 .. n + 1 /\ i <= n
    BY <1>1, <1>5, SMT
  <2>2. /\ SubSeq(rs, i + 1, n) \in Seq(Threads)
        /\ \A y : Listed(SubSeq(rs, i + 1, n), y) <=> \E j \in i + 1 .. n : rs[j] = y
        /\ Once(SubSeq(rs, i + 1, n))
    BY <2>1, <1>1, ListedRest DEF n, rs
  <2>3. ASSUME NEW t
        PROVE  (\E j \in i + 1 .. n : rs[j] = t) <=>
                  /\ \E j \in 1 .. n : rs[j] = t
                  /\ t \notin {rs[j] : j \in 1 .. i - 1} /\ t # rs[i]
    <3>1. ASSUME NEW j \in i + 1 .. n, rs[j] = t
          PROVE  /\ j \in 1 .. n /\ t \notin {rs[k] : k \in 1 .. i - 1} /\ t # rs[i]
      <4>1. j \in 1 .. n /\ j # i /\ \A k \in 1 .. i - 1 : k \in 1 .. n /\ k # j
        BY <1>1, <2>1, SMT
      <4> QED
        BY <1>3, <2>1, <3>1, <4>1
    <3>2. ASSUME NEW j \in 1 .. n, rs[j] = t, t \notin {rs[k] : k \in 1 .. i - 1}, t # rs[i]
          PROVE  j \in i + 1 .. n
      <4>1. j # i /\ j \notin 1 .. i - 1
        BY <3>2
      <4> QED
        BY <4>1, <1>1, <2>1, SMT
    <3> QED
      BY <3>1, <3>2
  <2>4. \A t \in {rs[j] : j \in 1 .. i - 1} : \E j \in 1 .. n : rs[j] = t
    BY <1>1, <2>1, SMT
  <2>5. rs[i] \notin {rs[j] : j \in 1 .. i - 1}
    <3>1. \A j \in 1 .. i - 1 : j \in 1 .. n /\ j # i
      BY <1>1, <2>1, SMT
    <3> QED
      BY <3>1, <2>1, <1>3
  <2>6. \A t : Listed(rs, t) <=> \E j \in 1 .. n : rs[j] = t
    BY DEF Listed, n
  <2> QED
    BY <1>2, <2>1, <2>2, <2>3, <2>4, <2>5, <2>6 DEF rs, i
<1> QED
  BY <1>4, <1>5

\* What a step from s to o leaves alone: the other queues, and threads it
\* does not tell anything.
Elsewhere(s, o, q) ==
    \A x \in Queues \ {q} : o.messages[x] = s.messages[x] /\ o.receivers[x] = s.receivers[x]

Answer(i) == /\ i.state \in {"success", "too_large", "died", "changed"}
             /\ i.state = "success" => i.kmsg \in Message

Told(s, o, PC, T) ==
    \A t \in Threads :
        \/ o.ith[t] = s.ith[t] /\ o.wait[t] = s.wait[t]
        \/ /\ PC[t] = "rcv_wait" /\ s.ith[t].state = "in_progress" /\ Answer(o.ith[t])
           /\ \/ o.wait[t] = IF s.wait[t] = "waiting" THEN "awakened" ELSE s.wait[t]
              \/ t \in T /\ o.wait[t] = s.wait[t]

\* m may go to q: it is not another port's, nor is q a port that is in a set.
MayGo(s, q, m, S) == q \in Ports => m.port = q /\ (q \in S \/ s.ip_pset[q] = Null)

\* Offering a message keeps the queues in order, and tells those it takes
\* from the list of receivers; it does not wake the one it gives m to.
LEMMA OfferGood ==
    ASSUME NEW PC, NEW CL, NEW ACT, NEW S, NEW s, Good(s, PC, CL, ACT, S),
           NEW q \in Queues, NEW m \in Message, MayGo(s, q, m, S)
    PROVE  LET o == Offer(s, q, m)
           IN  /\ Good(o, PC, CL, ACT, S) /\ o.ip_pset = s.ip_pset /\ Elsewhere(s, o, q)
               /\ Taken(s, q, m) =>
                     /\ Listed(s.receivers[q], s.receivers[q][Taker(s, q, m)])
                     /\ o.ith[s.receivers[q][Taker(s, q, m)]].state = "success"
               /\ Told(s, o, PC, IF Taken(s, q, m) THEN {s.receivers[q][Taker(s, q, m)]} ELSE {})
<1> DEFINE o == Offer(s, q, m)
           rs == s.receivers[q]
           x == rs[Taker(s, q, m)]
           taken == Taken(s, q, m)
           small == Small(s, q, m)
           rest == Rest(s, q, m)
<1>0. s \in State /\ StateTypes(s) /\ Receiving(s, PC, CL) /\ Consistent(s, ACT) /\ Apart(s, S) /\ Own(s)
  BY Fields DEF Good
<1>1. Once(rs) /\ \A t \in Threads : Listed(rs, t) <=>
                 PC[t] = "rcv_wait" /\ CL[t].obj = q /\ s.ith[t].state = "in_progress"
  BY <1>0 DEF Receiving
<1>2. /\ rest \in Seq(Threads) /\ Once(rest)
      /\ \A t : Listed(rest, t) <=> Listed(rs, t) /\ t \notin small /\ ~(taken /\ t = x)
      /\ \A t \in small : Listed(rs, t)
      /\ taken => Listed(rs, x) /\ x \notin small
      /\ ~taken => rest = <<>>
  BY <1>0, <1>1, OfferLists
<1>3. Offered(s, o, q, m, rest, small, taken, x)
  BY <1>0, OfferIs
<1> HIDE DEF o, x, taken, small, rest
<1>4. \A t \in Threads :
         /\ t \in small => o.ith[t].state = "too_large"
         /\ taken /\ t = x => o.ith[t].state = "success" /\ o.ith[t].kmsg = m
         /\ t \notin small /\ ~(taken /\ t = x) => o.ith[t] = s.ith[t]
  <2> SUFFICES ASSUME NEW t \in Threads
               PROVE  /\ t \in small => o.ith[t].state = "too_large"
                      /\ taken /\ t = x => o.ith[t].state = "success" /\ o.ith[t].kmsg = m
                      /\ t \notin small /\ ~(taken /\ t = x) => o.ith[t] = s.ith[t]
    OBVIOUS
  <2>1. s.ith[t] \in Ith
    BY <1>0 DEF StateTypes
  <2> QED
    BY <2>1, <1>2, <1>3 DEF Ith, Offered
<1>5. \A t \in Threads :
         /\ t \in small => o.wait[t] = IF s.wait[t] = "waiting" THEN "awakened" ELSE s.wait[t]
         /\ t \notin small => o.wait[t] = s.wait[t]
  <2>1. s.wait \in [Threads -> Waiting] /\ o.wait = thread_go(s.wait, small)
    BY <1>0, <1>3 DEF StateTypes, Offered
  <2> QED
    BY <2>1, GoIs
<1>6. Elsewhere(s, o, q) /\ o.receivers[q] = rest
  BY <1>0, <1>3 DEF Elsewhere, StateTypes, Offered
<1>7. Told(s, o, PC, IF taken THEN {x} ELSE {})
  <2> SUFFICES ASSUME NEW t \in Threads
               PROVE  \/ o.ith[t] = s.ith[t] /\ o.wait[t] = s.wait[t]
                      \/ /\ PC[t] = "rcv_wait" /\ s.ith[t].state = "in_progress" /\ Answer(o.ith[t])
                         /\ \/ o.wait[t] = IF s.wait[t] = "waiting" THEN "awakened" ELSE s.wait[t]
                            \/ t \in (IF taken THEN {x} ELSE {}) /\ o.wait[t] = s.wait[t]
    BY DEF Told
  <2>1. CASE t \in small
    BY <2>1, <1>1, <1>2, <1>4, <1>5 DEF Answer
  <2>2. CASE t \notin small /\ taken /\ t = x
    BY <2>2, <1>1, <1>2, <1>4, <1>5 DEF Answer
  <2>3. CASE t \notin small /\ ~(taken /\ t = x)
    BY <2>3, <1>4, <1>5
  <2> QED
    BY <2>1, <2>2, <2>3
<1>8. Receiving(o, PC, CL)
  <2> SUFFICES ASSUME NEW y \in Queues
               PROVE  /\ Once(o.receivers[y])
                      /\ \A t \in Threads : Listed(o.receivers[y], t) <=>
                           PC[t] = "rcv_wait" /\ CL[t].obj = y /\ o.ith[t].state = "in_progress"
    BY DEF Receiving
  <2>1. CASE y = q
    <3> SUFFICES ASSUME NEW t \in Threads
                 PROVE  Listed(rest, t) <=>
                          PC[t] = "rcv_wait" /\ CL[t].obj = q /\ o.ith[t].state = "in_progress"
      BY <2>1, <1>2, <1>6
    <3> QED
      BY <1>1, <1>2, <1>4
  <2>2. CASE y # q
    <3>1. o.receivers[y] = s.receivers[y]
      BY <2>2, <1>6 DEF Elsewhere
    <3>2. Once(s.receivers[y]) /\ \A t \in Threads : Listed(s.receivers[y], t) <=>
                 PC[t] = "rcv_wait" /\ CL[t].obj = y /\ s.ith[t].state = "in_progress"
      BY <1>0 DEF Receiving
    <3>3. ASSUME NEW t \in Threads, CL[t].obj = y, PC[t] = "rcv_wait"
          PROVE  o.ith[t] = s.ith[t]
      BY <2>2, <3>3, <1>1, <1>2, <1>4
    <3> QED
      BY <3>1, <3>2, <3>3
  <2> QED
    BY <2>1, <2>2
<1>9. taken => rs # <<>> /\ o.messages[q] = s.messages[q] /\ o.messages[q] = <<>>
  <2>1. ASSUME taken PROVE rs # <<>>
    BY <1>0, <1>2, <2>1, NotListed DEF StateTypes
  <2> QED
    BY <2>1, <1>0, <1>3 DEF Consistent, Offered
<1>10. Consistent(o, ACT)
  <2> SUFFICES ASSUME NEW y \in Queues
               PROVE  /\ o.receivers[y] # <<>> => o.messages[y] = <<>>
                      /\ y \notin ACT => o.receivers[y] = <<>>
    BY DEF Consistent
  <2>1. CASE y # q
    BY <2>1, <1>0, <1>6 DEF Elsewhere, Consistent
  <2>2. CASE y = q /\ ~taken
    BY <2>2, <1>2, <1>6
  <2>3. CASE y = q /\ taken
    <3>1. q \in ACT
      BY <1>0, <1>9, <2>3 DEF Consistent
    <3> QED
      BY <3>1, <2>3, <1>9
  <2> QED
    BY <2>1, <2>2, <2>3
<1>11. Apart(o, S)
  <2> SUFFICES ASSUME NEW p \in Ports \ S, o.ip_pset[p] # Null
               PROVE  o.messages[p] = <<>> /\ o.receivers[p] = <<>>
    BY DEF Apart
  <2>1. p # q
    BY <1>3 DEF MayGo, Offered
  <2> QED
    BY <2>1, <1>0, <1>3, <1>6 DEF Apart, Elsewhere, Queues, Offered
<1>12. Own(o)
  <2> SUFFICES ASSUME NEW p \in Ports, NEW i \in 1 .. Len(o.messages[p])
               PROVE  o.messages[p][i].port = p
    BY DEF Own
  <2>0. p \in Queues
    BY DEF Queues
  <2>1. CASE p # q \/ taken
    <3>1. o.messages[p] = s.messages[p]
      BY <2>0, <2>1, <1>3, <1>6 DEF Elsewhere, Offered
    <3> QED
      BY <3>1, <1>0 DEF Own
  <2>2. CASE p = q /\ ~taken
    <3>1. o.messages[p] = Append(s.messages[p], m) /\ s.messages[p] \in Seq(Message)
      BY <2>0, <2>2, <1>0, <1>3 DEF StateTypes, Offered
    <3> DEFINE l == s.messages[p]
    <3>2. /\ Len(l) \in Nat /\ Len(o.messages[p]) = Len(l) + 1
          /\ \A k \in 1 .. Len(l) : o.messages[p][k] = l[k]
          /\ o.messages[p][Len(l) + 1] = m
      BY <3>1
    <3>3. CASE i = Len(l) + 1
      BY <3>2, <3>3, <2>2 DEF MayGo
    <3>4. CASE i # Len(l) + 1
      <4>1. i \in 1 .. Len(l)
        BY <3>2, <3>4, SMT
      <4> QED
        BY <4>1, <3>2, <1>0 DEF Own
    <3> QED
      BY <3>3, <3>4
  <2> QED
    BY <2>1, <2>2
<1> QED
  <2>1. taken => x \in Threads
    BY <1>0, <1>2, NotListed DEF StateTypes
  <2>2. taken => o.ith[x].state = "success"
    BY <1>4, <2>1
  <2>3. Good(o, PC, CL, ACT, S) /\ o.ip_pset = s.ip_pset
    BY <1>3, <1>8, <1>10, <1>11, <1>12 DEF Good, Offered
  <2> QED
    BY <1>2, <1>6, <1>7, <2>2, <2>3 DEF o, x, taken

\* What is true of a state's queues is true of one with the same queues.
SameQueues(s, o) ==
    o.ip_pset = s.ip_pset /\ o.messages = s.messages /\ o.receivers = s.receivers

LEMMA GoodSame ==
    ASSUME NEW PC, NEW CL, NEW ACT, NEW S, NEW s, Good(s, PC, CL, ACT, S),
           NEW o \in State, SameQueues(s, o), o.ith = s.ith
    PROVE  Good(o, PC, CL, ACT, S)
  BY DEF Good, SameQueues, Receiving, Consistent, Apart, Own

\* Telling threads in two steps.
LEMMA ToldThen ==
    ASSUME NEW PC, NEW s, NEW r, NEW o, NEW T, Told(s, r, PC, {}), Told(r, o, PC, T)
    PROVE  Told(s, o, PC, T)
<1> SUFFICES ASSUME NEW t \in Threads
             PROVE  \/ o.ith[t] = s.ith[t] /\ o.wait[t] = s.wait[t]
                    \/ /\ PC[t] = "rcv_wait" /\ s.ith[t].state = "in_progress" /\ Answer(o.ith[t])
                       /\ \/ o.wait[t] = IF s.wait[t] = "waiting" THEN "awakened" ELSE s.wait[t]
                          \/ t \in T /\ o.wait[t] = s.wait[t]
  BY DEF Told
<1>1. \/ r.ith[t] = s.ith[t] /\ r.wait[t] = s.wait[t]
      \/ /\ PC[t] = "rcv_wait" /\ s.ith[t].state = "in_progress" /\ Answer(r.ith[t])
         /\ r.wait[t] = IF s.wait[t] = "waiting" THEN "awakened" ELSE s.wait[t]
  BY DEF Told
<1>2. \/ o.ith[t] = r.ith[t] /\ o.wait[t] = r.wait[t]
      \/ /\ PC[t] = "rcv_wait" /\ r.ith[t].state = "in_progress" /\ Answer(o.ith[t])
         /\ \/ o.wait[t] = IF r.wait[t] = "waiting" THEN "awakened" ELSE r.wait[t]
            \/ t \in T /\ o.wait[t] = r.wait[t]
  BY DEF Told
<1>3. Answer(r.ith[t]) => r.ith[t].state # "in_progress"
  BY DEF Answer
<1> QED
  BY <1>1, <1>2, <1>3

LEMMA ToldNone == ASSUME NEW PC, NEW s, NEW o, o.ith = s.ith, o.wait = s.wait PROVE Told(s, o, PC, {})
  BY DEF Told

\* The set of what is in a list.
LEMMA ToSetIs == ASSUME NEW X, NEW l \in Seq(X) PROVE \A x : x \in ToSet(l) <=> Listed(l, x)
<1>1. DOMAIN l = 1 .. Len(l)
  OBVIOUS
<1> QED
  BY <1>1 DEF ToSet, Listed

\* One message moved: as offered, and everybody told is woken.
LEMMA MoveOneType ==
    ASSUME NEW s \in State, NEW q \in Queues, NEW m \in Message
    PROVE  /\ MoveOne(s, q, m) \in State
           /\ SameQueues(Offer(s, q, m), MoveOne(s, q, m))
           /\ MoveOne(s, q, m).ith = Offer(s, q, m).ith
           /\ MoveOne(s, q, m).wait = thread_go(Offer(s, q, m).wait,
                ToSet(s.receivers[q]) \ ToSet(Offer(s, q, m).receivers[q]))
<1> DEFINE o == Offer(s, q, m)
           W == thread_go(o.wait, ToSet(s.receivers[q]) \ ToSet(o.receivers[q]))
           r == MoveOne(s, q, m)
<1>1. o \in State
  BY OfferIs DEF Offered
<1>2. r = [o EXCEPT !.wait = W]
  BY DEF MoveOne
<1> HIDE DEF o
<1>3. W \in [Threads -> Waiting]
  BY <1>1, Fields, GoIs DEF StateTypes
<1> HIDE DEF W, r
<1>4. r \in State
  BY <1>1, <1>2, <1>3, Zenon DEF State
<1>5. r.ip_pset = o.ip_pset /\ r.messages = o.messages /\ r.receivers = o.receivers
      /\ r.ith = o.ith /\ r.wait = W
  BY <1>1, <1>2, Zenon DEF State
<1> QED
  BY <1>4, <1>5 DEF SameQueues, o, W, r

LEMMA MoveOneGood ==
    ASSUME NEW PC, NEW CL, NEW ACT, NEW S, NEW s, Good(s, PC, CL, ACT, S),
           NEW q \in Queues, NEW m \in Message, MayGo(s, q, m, S)
    PROVE  LET r == MoveOne(s, q, m)
           IN  /\ Good(r, PC, CL, ACT, S) /\ r.ip_pset = s.ip_pset /\ Elsewhere(s, r, q)
               /\ Told(s, r, PC, {})
<1> DEFINE o == Offer(s, q, m)
           r == MoveOne(s, q, m)
           x == s.receivers[q][Taker(s, q, m)]
           taken == Taken(s, q, m)
           ts == ToSet(s.receivers[q]) \ ToSet(o.receivers[q])
           T == IF taken THEN {x} ELSE {}
<1>0. s \in State
  BY DEF Good
<1>1. /\ Good(o, PC, CL, ACT, S) /\ o.ip_pset = s.ip_pset /\ Elsewhere(s, o, q)
      /\ Told(s, o, PC, T)
  BY OfferGood
<1>2. /\ r \in State /\ SameQueues(o, r) /\ r.ith = o.ith /\ r.wait = thread_go(o.wait, ts)
  BY <1>0, MoveOneType
<1>3. ASSUME NEW t \in Threads
      PROVE  t \in ts <=> Listed(s.receivers[q], t) /\ ~Listed(o.receivers[q], t)
  <2>1. o \in State
    BY <1>1 DEF Good
  <2>2. s.receivers[q] \in Seq(Threads) /\ o.receivers[q] \in Seq(Threads)
    BY <1>0, <2>1, Fields DEF StateTypes
  <2> QED
    BY <2>2, ToSetIs
<1>4. ASSUME NEW t \in Threads
      PROVE  /\ Listed(s.receivers[q], t) <=>
                  PC[t] = "rcv_wait" /\ CL[t].obj = q /\ s.ith[t].state = "in_progress"
             /\ Listed(o.receivers[q], t) <=>
                  PC[t] = "rcv_wait" /\ CL[t].obj = q /\ o.ith[t].state = "in_progress"
  BY <1>1 DEF Good, Receiving
<1>5. Good(r, PC, CL, ACT, S)
  BY <1>1, <1>2, GoodSame
<1>6. Elsewhere(s, r, q) /\ r.ip_pset = s.ip_pset
  BY <1>1, <1>2 DEF SameQueues, Elsewhere
<1>7. taken => Listed(s.receivers[q], x)
  BY OfferGood
<1> HIDE DEF o, r, taken, x, ts, T
<1>8. \A t \in Threads : /\ t \notin ts => r.wait[t] = o.wait[t]
                         /\ t \in ts => r.wait[t] = IF o.wait[t] = "waiting" THEN "awakened" ELSE o.wait[t]
  <2>1. o.wait \in [Threads -> Waiting]
    BY <1>1, Fields DEF Good, StateTypes
  <2> QED
    BY <2>1, <1>2, GoIs
<1>9. Told(s, r, PC, {})
  <2> SUFFICES ASSUME NEW t \in Threads
               PROVE  \/ r.ith[t] = s.ith[t] /\ r.wait[t] = s.wait[t]
                      \/ /\ PC[t] = "rcv_wait" /\ s.ith[t].state = "in_progress" /\ Answer(r.ith[t])
                         /\ r.wait[t] = IF s.wait[t] = "waiting" THEN "awakened" ELSE s.wait[t]
    BY DEF Told
  <2>1. \/ o.ith[t] = s.ith[t] /\ o.wait[t] = s.wait[t]
        \/ /\ PC[t] = "rcv_wait" /\ s.ith[t].state = "in_progress" /\ Answer(o.ith[t])
           /\ \/ o.wait[t] = IF s.wait[t] = "waiting" THEN "awakened" ELSE s.wait[t]
              \/ t \in T /\ o.wait[t] = s.wait[t]
    BY <1>1 DEF Told
  <2>2. t \in T => Listed(s.receivers[q], t)
    BY <1>7 DEF T
  <2>3. Answer(o.ith[t]) => o.ith[t].state # "in_progress"
    BY DEF Answer
  <2>4. CASE o.ith[t] = s.ith[t] /\ o.wait[t] = s.wait[t]
    <3>1. t \notin ts
      BY <2>4, <1>3, <1>4
    <3> QED
      BY <3>1, <2>4, <1>2, <1>8
  <2>5. CASE /\ PC[t] = "rcv_wait" /\ s.ith[t].state = "in_progress" /\ Answer(o.ith[t])
             /\ o.wait[t] = IF s.wait[t] = "waiting" THEN "awakened" ELSE s.wait[t]
    <3>1. r.wait[t] = o.wait[t]
      BY <2>5, <1>8
    <3> QED
      BY <3>1, <2>5, <1>2
  <2>6. CASE /\ PC[t] = "rcv_wait" /\ s.ith[t].state = "in_progress" /\ Answer(o.ith[t])
             /\ t \in T /\ o.wait[t] = s.wait[t]
    <3>1. t \in ts
      BY <2>2, <2>3, <2>6, <1>3, <1>4
    <3> QED
      BY <3>1, <2>6, <1>2, <1>8
  <2> QED
    BY <2>1, <2>4, <2>5, <2>6
<1> QED
  BY <1>5, <1>6, <1>9 DEF r

\* Messages offered one by one: what each leaves as it should, in D, all do.
LEMMA OfferAllEnds ==
    ASSUME NEW s \in State, NEW q \in Queues, NEW ms \in Seq(Message),
           NEW D, \A i \in 0 .. Len(ms) : D[i] \subseteq State, s \in D[0],
           \A i \in 1 .. Len(ms) : \A r \in D[i - 1] : MoveOne(r, q, ms[i]) \in D[i]
    PROVE  OfferAll(s, q, ms) \in D[Len(ms)]
<1> DEFINE N == Len(ms)
           G == [z \in (1 .. N) \X State |-> MoveOne(z[2], q, ms[z[1]])]
           Step(f, i) == MoveOne(f[i - 1], q, ms[i])
           Body(f, i) == IF i = 0 THEN s ELSE Step(f, i)
           IsUpto(f) == f = [i \in 0 .. N |-> Body(f, i)]
<1>1. N \in Nat /\ \A i \in 1 .. N : ms[i] \in Message
  OBVIOUS
<1>2. G \in [(1 .. N) \X State -> State]
  <2>1. ASSUME NEW i \in 1 .. N, NEW u \in State PROVE MoveOne(u, q, ms[i]) \in State
    BY <1>1, MoveOneType
  <2> QED
    BY <2>1
<1>3. PICK f \in [0 .. N -> State] : f[0] = s /\ \A i \in 1 .. N : f[i] = G[<<i, f[i - 1]>>]
  <2> HIDE DEF N, G, IsUpto
  <2>1. PICK f : f \in Iterates(N, State, s, G)
    BY <1>1, <1>2, Recursion
  <2> QED
    BY <2>1 DEF Iterates
<1>4. ASSUME NEW i \in 1 .. N PROVE f[i] = Step(f, i)
  <2>1. <<i, f[i - 1]>> \in (1 .. N) \X State
    <3>1. i - 1 \in 0 .. N
      BY <1>1
    <3>2. f[i - 1] \in State
      BY <3>1, <1>3, Zenon
    <3> QED
      BY <3>2
  <2>2. G[<<i, f[i - 1]>>] = Step(f, i)
    BY <2>1
  <2> QED
    BY <1>3, <2>2
<1>5. IsUpto(f)
  <2>1. ASSUME NEW i \in 0 .. N PROVE f[i] = Body(f, i)
    <3>1. CASE i = 0
      BY <3>1, <1>3
    <3>2. CASE i # 0
      <4>1. i \in 1 .. N
        BY <3>2, <1>1, SMT
      <4> HIDE DEF Step
      <4> QED
        BY <3>2, <4>1, <1>4
    <3> QED
      BY <3>1, <3>2
  <2> HIDE DEF Body
  <2> QED
    BY <1>3, <2>1
<1> DEFINE h == CHOOSE g : IsUpto(g)
<1>6. IsUpto(h)
  BY <1>5
<1>7. OfferAll(s, q, ms) = h[N]
  BY DEF OfferAll
<1>8. h[0] = s /\ \A i \in 1 .. N : h[i] = Step(h, i)
  <2> HIDE DEF h
  <2>1. \A i \in 0 .. N : h[i] = Body(h, i)
    <3> HIDE DEF Body
    <3> QED
      BY <1>6
  <2>2. h[0] = s
    BY <2>1, <1>1
  <2>3. ASSUME NEW i \in 1 .. N PROVE h[i] = Step(h, i)
    <3>1. i \in 0 .. N /\ i # 0
      BY <1>1, SMT
    <3> HIDE DEF Step
    <3> QED
      BY <2>1, <3>1
  <2> HIDE DEF Step
  <2> QED
    BY <2>2, <2>3
<1> HIDE DEF h
<1> DEFINE T == {i \in Nat : i <= N => h[i] \in D[i]}
<1>9. 0 \in T
  BY <1>8
<1>10. ASSUME NEW i \in Nat, i \in T PROVE i + 1 \in T
  <2> SUFFICES ASSUME i + 1 <= N PROVE h[i + 1] \in D[i + 1]
    OBVIOUS
  <2>1. i + 1 \in 1 .. N /\ (i + 1) - 1 = i /\ h[i] \in D[i]
    BY <1>10, <1>1, SMT
  <2>2. h[i + 1] = MoveOne(h[i], q, ms[i + 1])
    BY <1>8, <2>1
  <2>3. \A r \in D[i] : MoveOne(r, q, ms[i + 1]) \in D[i + 1]
    BY <2>1
  <2> QED
    BY <2>1, <2>2, <2>3
<1>11. Nat \subseteq T
  <2> HIDE DEF T
  <2> QED
    BY <1>9, <1>10, Induction
<1> QED
  BY <1>1, <1>7, <1>11, SMT

\* Messages moved to q: the queues stay in order, and those told are woken.
LEMMA OfferAllGood ==
    ASSUME NEW PC, NEW CL, NEW ACT, NEW S, NEW s, Good(s, PC, CL, ACT, S),
           NEW q \in Queues, NEW ms \in Seq(Message),
           \A i \in 1 .. Len(ms) : MayGo(s, q, ms[i], S)
    PROVE  LET o == OfferAll(s, q, ms)
           IN  /\ Good(o, PC, CL, ACT, S) /\ o.ip_pset = s.ip_pset /\ Elsewhere(s, o, q)
               /\ Told(s, o, PC, {})
<1> DEFINE E == {r \in State : /\ Good(r, PC, CL, ACT, S) /\ r.ip_pset = s.ip_pset
                               /\ Elsewhere(s, r, q) /\ Told(s, r, PC, {})}
           D == [i \in 0 .. Len(ms) |-> E]
<1>0. s \in State /\ Len(ms) \in Nat /\ \A i \in 1 .. Len(ms) : ms[i] \in Message
  <2>1. \A i \in 1 .. Len(ms) : ms[i] \in Message
    OBVIOUS
  <2>2. Len(ms) \in Nat
    OBVIOUS
  <2> QED
    BY <2>1, <2>2 DEF Good
<1>1. s \in E
  BY <1>0, ToldNone DEF Elsewhere
<1>2. ASSUME NEW i \in 1 .. Len(ms), NEW r \in E PROVE MoveOne(r, q, ms[i]) \in E
  <2> DEFINE o == MoveOne(r, q, ms[i])
  <2>1. /\ Good(r, PC, CL, ACT, S) /\ r.ip_pset = s.ip_pset
        /\ Elsewhere(s, r, q) /\ Told(s, r, PC, {})
    OBVIOUS
  <2>2. MayGo(r, q, ms[i], S)
    BY <2>1 DEF MayGo
  <2>3. /\ Good(o, PC, CL, ACT, S) /\ o.ip_pset = r.ip_pset /\ Elsewhere(r, o, q)
        /\ Told(r, o, PC, {})
    BY <1>0, <2>1, <2>2, MoveOneGood
  <2> HIDE DEF o
  <2>4. Told(s, o, PC, {})
    BY <2>1, <2>3, ToldThen
  <2>5. Elsewhere(s, o, q)
    BY <2>1, <2>3 DEF Elsewhere
  <2>6. o \in State
    BY <2>3 DEF Good
  <2>7. o \in E
    BY <2>1, <2>3, <2>4, <2>5, <2>6
  <2> QED
    BY <2>7 DEF o
<1>3. OfferAll(s, q, ms) \in D[Len(ms)]
  <2> HIDE DEF E
  <2>1. \A i \in 0 .. Len(ms) : D[i] = E
    OBVIOUS
  <2>2. E \subseteq State
    BY DEF E
  <2>3. s \in D[0]
    BY <1>0, <1>1, <2>1
  <2>4. \A i \in 1 .. Len(ms) : \A r \in D[i - 1] : MoveOne(r, q, ms[i]) \in D[i]
    <3>1. \A i \in 1 .. Len(ms) : i \in 0 .. Len(ms) /\ i - 1 \in 0 .. Len(ms)
      BY <1>0, SMT
    <3> QED
      BY <3>1, <2>1, <1>2
  <2> HIDE DEF D
  <2> QED
    BY <1>0, <2>1, <2>2, <2>3, <2>4, OfferAllEnds
<1>4. OfferAll(s, q, ms) \in E
  <2> HIDE DEF E
  <2>1. Len(ms) \in 0 .. Len(ms)
    BY <1>0, SMT
  <2> QED
    BY <1>3, <2>1
<1> QED
  BY <1>4

\* A source queue without the messages for p.
Kept(ms, p) == Sublist(ms, Message \ MessageFor(p))
TakenOff(s, source, p) == [s EXCEPT !.messages[source] = Sublist(@, Message \ MessageFor(p))]

LEMMA TakenOffGood ==
    ASSUME NEW PC, NEW CL, NEW ACT, NEW S, NEW s, Good(s, PC, CL, ACT, S),
           NEW source \in Queues, NEW p \in Ports
    PROVE  LET r == TakenOff(s, source, p)
           IN  /\ Good(r, PC, CL, ACT, S) /\ r.ip_pset = s.ip_pset /\ r.receivers = s.receivers
               /\ r.ith = s.ith /\ r.wait = s.wait /\ r.seqno = s.seqno
               /\ r.messages[source] = Kept(s.messages[source], p)
               /\ \A q \in Queues \ {source} : r.messages[q] = s.messages[q]
<1> DEFINE kept == Kept(s.messages[source], p)
           M == [s.messages EXCEPT ![source] = kept]
           r == TakenOff(s, source, p)
<1>0. s \in State /\ StateTypes(s) /\ Receiving(s, PC, CL) /\ Consistent(s, ACT) /\ Apart(s, S) /\ Own(s)
  BY Fields DEF Good
<1>1. s.messages[source] \in Seq(Message)
  BY <1>0 DEF StateTypes
<1>2. kept \in Seq(Message) /\ \A x : Listed(kept, x) <=> x \in Message \ MessageFor(p) /\ Listed(s.messages[source], x)
  BY <1>1, SublistMembers DEF Kept
<1>4. r = [s EXCEPT !.messages = M]
  BY DEF TakenOff, Kept
<1> HIDE DEF kept, r
<1>6. M \in [Queues -> Seq(Message)] /\ M[source] = kept /\ \A q \in Queues \ {source} : M[q] = s.messages[q]
  BY <1>0, <1>2 DEF StateTypes
<1> HIDE DEF M
<1>7. r \in State
  BY <1>0, <1>4, <1>6, Zenon DEF State
<1>8. r.ip_pset = s.ip_pset /\ r.messages = M /\ r.receivers = s.receivers /\ r.ith = s.ith /\ r.wait = s.wait
      /\ r.seqno = s.seqno
  BY <1>0, <1>4, Zenon DEF State
<1>9. s.messages[source] = <<>> => kept = <<>>
  <2>1. ASSUME s.messages[source] = <<>> PROVE \A x \in Message : ~Listed(kept, x)
    <3>1. \A x \in Message : ~Listed(s.messages[source], x)
      BY <2>1, <1>1, NotListed
    <3> QED
      BY <3>1, <1>2
  <2> QED
    BY <2>1, <1>2, NotListed
<1>10. Good(r, PC, CL, ACT, S)
  <2>1. Receiving(r, PC, CL)
    BY <1>0, <1>8 DEF Receiving
  <2>2. Consistent(r, ACT)
    <3> SUFFICES ASSUME NEW q \in Queues
                 PROVE  /\ r.receivers[q] # <<>> => r.messages[q] = <<>>
                        /\ q \notin ACT => r.receivers[q] = <<>>
      BY DEF Consistent
    <3> QED
      BY <1>0, <1>6, <1>8, <1>9 DEF Consistent
  <2>3. Apart(r, S)
    <3> SUFFICES ASSUME NEW x \in Ports \ S, r.ip_pset[x] # Null
                 PROVE  r.messages[x] = <<>> /\ r.receivers[x] = <<>>
      BY DEF Apart
    <3>1. x \in Queues
      BY DEF Queues
    <3> QED
      BY <3>1, <1>0, <1>6, <1>8, <1>9 DEF Apart
  <2>4. Own(r)
    <3> SUFFICES ASSUME NEW x \in Ports, NEW i \in 1 .. Len(r.messages[x])
                 PROVE  r.messages[x][i].port = x
      BY DEF Own
    <3>0. x \in Queues
      BY DEF Queues
    <3>1. CASE x # source
      BY <3>0, <3>1, <1>0, <1>6, <1>8 DEF Own
    <3>2. CASE x = source
      <4>1. r.messages[x] = kept
        BY <3>2, <1>6, <1>8
      <4>2. Listed(kept, r.messages[x][i])
        BY <4>1 DEF Listed
      <4>3. Listed(s.messages[x], r.messages[x][i])
        BY <4>2, <1>2, <3>2
      <4> QED
        BY <4>3, <1>0 DEF Own, Listed
    <3> QED
      BY <3>1, <3>2
  <2> QED
    BY <1>7, <2>1, <2>2, <2>3, <2>4 DEF Good
<1> QED
  BY <1>6, <1>8, <1>10 DEF r, kept

\* The messages for p that source holds, moved to dest: ipc_mqueue_move.
Transferred(s, o, PC, CL, ACT, S, dest, source, p) ==
    /\ Good(o, PC, CL, ACT, S) /\ o.ip_pset = s.ip_pset /\ Told(s, o, PC, {})
    /\ o.messages[source] = Sublist(s.messages[source], Message \ MessageFor(p))
    /\ \A q \in Queues \ {dest, source} : o.messages[q] = s.messages[q]
    /\ \A q \in Queues \ {dest} : o.receivers[q] = s.receivers[q]

LEMMA MoveGood ==
    ASSUME NEW PC, NEW CL, NEW ACT, NEW S, NEW s, Good(s, PC, CL, ACT, S),
           NEW dest \in Queues, NEW source \in Queues, dest # source, NEW p \in Ports,
           dest \in Ports => dest = p /\ (p \in S \/ s.ip_pset[p] = Null)
    PROVE  Transferred(s, ipc_mqueue_move(s, dest, source, p), PC, CL, ACT, S, dest, source, p)
<1> DEFINE kept == Kept(s.messages[source], p)
           r == TakenOff(s, source, p)
           ms == ForPort(s.messages[source], p)
           o == ipc_mqueue_move(s, dest, source, p)
<1>1. s.messages[source] \in Seq(Message)
  BY Fields DEF Good, StateTypes
<1>3. ms \in Seq(Message) /\ \A x : Listed(ms, x) <=> x \in MessageFor(p) /\ Listed(s.messages[source], x)
  BY <1>1, SublistMembers DEF ForPort
<1>5. o = OfferAll(r, dest, ms)
  BY DEF ipc_mqueue_move, TakenOff
<1>10. /\ Good(r, PC, CL, ACT, S) /\ r.ip_pset = s.ip_pset /\ r.receivers = s.receivers
       /\ r.ith = s.ith /\ r.wait = s.wait /\ r.messages[source] = kept
       /\ \A q \in Queues \ {source} : r.messages[q] = s.messages[q]
  BY TakenOffGood
<1> HIDE DEF kept, r, ms, o
<1>11. \A i \in 1 .. Len(ms) : MayGo(r, dest, ms[i], S)
  <2> SUFFICES ASSUME NEW i \in 1 .. Len(ms) PROVE MayGo(r, dest, ms[i], S)
    OBVIOUS
  <2>1. Listed(ms, ms[i])
    BY DEF Listed
  <2>2. ms[i].port = p
    BY <2>1, <1>3 DEF MessageFor
  <2> QED
    BY <2>2, <1>10 DEF MayGo
<1>12. /\ Good(o, PC, CL, ACT, S) /\ o.ip_pset = r.ip_pset /\ Elsewhere(r, o, dest)
       /\ Told(r, o, PC, {})
  BY <1>3, <1>5, <1>10, <1>11, OfferAllGood
<1>13. Told(s, o, PC, {})
  BY <1>10, <1>12, ToldNone, ToldThen
<1>14. /\ o.messages[source] = kept
       /\ \A q \in Queues \ {dest, source} : o.messages[q] = s.messages[q]
       /\ \A q \in Queues \ {dest} : o.receivers[q] = s.receivers[q]
  BY <1>10, <1>12 DEF Elsewhere
<1> QED
  BY <1>10, <1>12, <1>13, <1>14 DEF Transferred, o, kept, Kept

\* The receivers in q told that it has changed or died: ipc_mqueue_changed.
\* It puts a port q in a set in order, too.
LEMMA ChangedGood ==
    ASSUME NEW PC, NEW CL, NEW ACT, NEW S, NEW s, Good(s, PC, CL, ACT, S),
           NEW q \in Queues, NEW mr \in {"died", "changed"},
           NEW Z, Z = S \/ (s.messages[q] = <<>> /\ Z = S \ {q})
    PROVE  LET o == ipc_mqueue_changed(s, q, mr)
           IN  /\ Good(o, PC, CL, ACT, Z)
               /\ o.ip_pset = s.ip_pset /\ o.messages = s.messages
               /\ o.receivers[q] = <<>>
               /\ \A x \in Queues \ {q} : o.receivers[x] = s.receivers[x]
               /\ Told(s, o, PC, {})
<1> DEFINE rs == ToSet(s.receivers[q])
           R == [s.receivers EXCEPT ![q] = <<>>]
           W == thread_go(s.wait, rs)
           I == [t \in Threads |-> IF t \in rs THEN [s.ith[t] EXCEPT !.state = mr] ELSE s.ith[t]]
           o == ipc_mqueue_changed(s, q, mr)
<1>0. s \in State /\ StateTypes(s) /\ Receiving(s, PC, CL) /\ Consistent(s, ACT) /\ Apart(s, S) /\ Own(s)
  BY Fields DEF Good
<1>1. o = [s EXCEPT !.receivers = R, !.wait = W, !.ith = I]
  BY DEF ipc_mqueue_changed
<1>2. \A t : t \in rs <=> Listed(s.receivers[q], t)
  BY <1>0, ToSetIs DEF StateTypes
<1>3. R \in [Queues -> Seq(Threads)] /\ R[q] = <<>> /\ \A x \in Queues \ {q} : R[x] = s.receivers[x]
  BY <1>0 DEF StateTypes
<1>4. /\ W \in [Threads -> Waiting]
      /\ \A t \in Threads :
           /\ t \notin rs => W[t] = s.wait[t]
           /\ t \in rs => W[t] = IF s.wait[t] = "waiting" THEN "awakened" ELSE s.wait[t]
  <2>1. s.wait \in [Threads -> Waiting]
    BY <1>0 DEF StateTypes
  <2> QED
    BY <2>1, GoIs
<1>5. /\ I \in [Threads -> Ith]
      /\ \A t \in Threads : /\ t \notin rs => I[t] = s.ith[t]
                            /\ t \in rs => I[t].state = mr
  <2>1. ASSUME NEW t \in Threads
        PROVE  /\ [s.ith[t] EXCEPT !.state = mr] \in Ith /\ s.ith[t] \in Ith
               /\ [s.ith[t] EXCEPT !.state = mr].state = mr
    <3>1. s.ith[t] \in Ith
      BY <1>0 DEF StateTypes
    <3> QED
      BY <3>1 DEF Ith
  <2> HIDE DEF rs
  <2> QED
    BY <2>1
<1> HIDE DEF rs, R, W, I, o
<1>6. o \in State
  BY <1>0, <1>1, <1>3, <1>4, <1>5, Zenon DEF State
<1>7. /\ o.ip_pset = s.ip_pset /\ o.messages = s.messages /\ o.receivers = R
      /\ o.wait = W /\ o.ith = I
  BY <1>0, <1>1, Zenon DEF State
<1>8. ASSUME NEW t \in Threads
      PROVE  t \in rs <=> PC[t] = "rcv_wait" /\ CL[t].obj = q /\ s.ith[t].state = "in_progress"
  BY <1>0, <1>2 DEF Receiving
<1>9. Told(s, o, PC, {})
  <2> SUFFICES ASSUME NEW t \in Threads
               PROVE  \/ o.ith[t] = s.ith[t] /\ o.wait[t] = s.wait[t]
                      \/ /\ PC[t] = "rcv_wait" /\ s.ith[t].state = "in_progress" /\ Answer(o.ith[t])
                         /\ o.wait[t] = IF s.wait[t] = "waiting" THEN "awakened" ELSE s.wait[t]
    BY DEF Told
  <2> QED
    BY <1>4, <1>5, <1>7, <1>8 DEF Answer
<1>10. Receiving(o, PC, CL)
  <2> SUFFICES ASSUME NEW x \in Queues
               PROVE  /\ Once(o.receivers[x])
                      /\ \A t \in Threads : Listed(o.receivers[x], t) <=>
                           PC[t] = "rcv_wait" /\ CL[t].obj = x /\ o.ith[t].state = "in_progress"
    BY DEF Receiving
  <2>1. CASE x = q
    <3>1. Once(<<>>) /\ \A t : ~Listed(<<>>, t)
      BY DEF Once, Listed
    <3>2. \A t \in Threads : ~(PC[t] = "rcv_wait" /\ CL[t].obj = x /\ o.ith[t].state = "in_progress")
      BY <2>1, <1>5, <1>7, <1>8
    <3> QED
      BY <2>1, <3>1, <3>2, <1>3, <1>7
  <2>2. CASE x # q
    <3>1. o.receivers[x] = s.receivers[x]
      BY <2>2, <1>3, <1>7
    <3>2. \A t \in Threads : CL[t].obj = x => o.ith[t] = s.ith[t]
      BY <2>2, <1>5, <1>7, <1>8
    <3> QED
      BY <3>1, <3>2, <1>0 DEF Receiving
  <2> QED
    BY <2>1, <2>2
<1>11. Consistent(o, ACT) /\ Own(o)
  BY <1>0, <1>3, <1>7 DEF Consistent, Own
<1>12. Apart(o, Z)
  <2> SUFFICES ASSUME NEW x \in Ports \ Z, o.ip_pset[x] # Null
               PROVE  o.messages[x] = <<>> /\ o.receivers[x] = <<>>
    BY DEF Apart
  <2>1. x \in Queues
    BY DEF Queues
  <2> QED
    BY <2>1, <1>0, <1>3, <1>7 DEF Apart
<1> QED
  BY <1>3, <1>6, <1>7, <1>9, <1>10, <1>11, <1>12 DEF Good, o

\* Nobody joins a queue by being told something.
LEMMA NoneMore ==
    ASSUME NEW PC, NEW CL, NEW ACT, NEW S, NEW s, NEW o, NEW A, NEW Z,
           Good(s, PC, CL, ACT, S), Good(o, PC, CL, A, Z), Told(s, o, PC, {}),
           NEW q \in Queues, s.receivers[q] = <<>>
    PROVE  o.receivers[q] = <<>>
<1>0. s.receivers[q] \in Seq(Threads) /\ o.receivers[q] \in Seq(Threads)
  BY Fields DEF Good, StateTypes
<1>1. ASSUME NEW t \in Threads PROVE ~Listed(o.receivers[q], t)
  <2>1. ~Listed(s.receivers[q], t)
    BY <1>0, NotListed
  <2>2. /\ Listed(s.receivers[q], t) <=>
                 PC[t] = "rcv_wait" /\ CL[t].obj = q /\ s.ith[t].state = "in_progress"
        /\ Listed(o.receivers[q], t) <=>
                 PC[t] = "rcv_wait" /\ CL[t].obj = q /\ o.ith[t].state = "in_progress"
    BY DEF Good, Receiving
  <2>3. o.ith[t].state = "in_progress" => o.ith[t] = s.ith[t]
    BY DEF Told, Answer
  <2> QED
    BY <2>1, <2>2, <2>3
<1> QED
  BY <1>0, <1>1, NotListed

\* A port in another set, or in none.
LEMMA PsetType ==
    ASSUME NEW s \in State, NEW p \in Ports, NEW v \in Psets \cup {Null}
    PROVE  LET r == [s EXCEPT !.ip_pset[p] = v]
           IN  /\ r \in State /\ r.ip_pset = [s.ip_pset EXCEPT ![p] = v]
               /\ r.messages = s.messages /\ r.receivers = s.receivers
               /\ r.ith = s.ith /\ r.wait = s.wait /\ r.seqno = s.seqno
<1> DEFINE A == [s.ip_pset EXCEPT ![p] = v]
           r == [s EXCEPT !.ip_pset[p] = v]
<1>1. r = [s EXCEPT !.ip_pset = A]
  OBVIOUS
<1>2. A \in [Ports -> Psets \cup {Null}]
  BY Fields DEF StateTypes
<1> HIDE DEF A, r
<1>3. r \in State
  BY <1>1, <1>2, Zenon DEF State
<1>4. /\ r.ip_pset = A /\ r.messages = s.messages /\ r.receivers = s.receivers
      /\ r.ith = s.ith /\ r.wait = s.wait /\ r.seqno = s.seqno
  BY <1>1, Zenon DEF State
<1> QED
  BY <1>3, <1>4 DEF A, r

\* Until its messages have been moved, the port's own queue may be in disorder.
LEMMA PsetGood ==
    ASSUME NEW PC, NEW CL, NEW ACT, NEW s, Good(s, PC, CL, ACT, {}),
           NEW p \in Ports, NEW v \in Psets \cup {Null}
    PROVE  /\ Good([s EXCEPT !.ip_pset[p] = v], PC, CL, ACT, {p})
           /\ v = Null => Good([s EXCEPT !.ip_pset[p] = v], PC, CL, ACT, {})
<1> DEFINE r == [s EXCEPT !.ip_pset[p] = v]
<1>0. s \in State /\ StateTypes(s) /\ Receiving(s, PC, CL) /\ Consistent(s, ACT) /\ Apart(s, {}) /\ Own(s)
  BY Fields DEF Good
<1>1. /\ r \in State /\ r.ip_pset = [s.ip_pset EXCEPT ![p] = v]
      /\ r.messages = s.messages /\ r.receivers = s.receivers
      /\ r.ith = s.ith /\ r.wait = s.wait
  BY <1>0, PsetType
<1> HIDE DEF r
<1>2. Apart(r, {p}) /\ (v = Null => Apart(r, {}))
  BY <1>0, <1>1 DEF Apart, StateTypes
<1>3. Receiving(r, PC, CL) /\ Consistent(r, ACT) /\ Own(r)
  BY <1>0, <1>1 DEF Receiving, Consistent, Own
<1> QED
  BY <1>1, <1>2, <1>3 DEF Good, r

\* p in v after o, which keeps the queues in order.
Moved(s, o, PC, CL, ACT, p, v) ==
    /\ Good(o, PC, CL, ACT, {}) /\ Told(s, o, PC, {})
    /\ o.ip_pset = [s.ip_pset EXCEPT ![p] = v]

\* A port joins a live set: ipc_pset_add.
LEMMA AddGood ==
    ASSUME NEW PC, NEW CL, NEW ACT, NEW s, Good(s, PC, CL, ACT, {}),
           NEW p \in Ports, NEW set \in Psets
    PROVE  Moved(s, ipc_pset_add(s, set, p), PC, CL, ACT, p, set)
<1> DEFINE r == [s EXCEPT !.ip_pset[p] = set]
           u == ipc_mqueue_move(r, set, p, p)
           o == ipc_mqueue_changed(u, p, "changed")
<1>0. s \in State /\ StateTypes(s) /\ Receiving(s, PC, CL) /\ Consistent(s, ACT) /\ Apart(s, {}) /\ Own(s)
  BY Fields DEF Good
<1>1. ipc_pset_add(s, set, p) = o
  BY DEF ipc_pset_add
<1>2. /\ r \in State /\ r.ip_pset = [s.ip_pset EXCEPT ![p] = set]
      /\ r.messages = s.messages /\ r.receivers = s.receivers
      /\ r.ith = s.ith /\ r.wait = s.wait
  BY <1>0, PsetType
<1> HIDE DEF r
<1>3. Good(r, PC, CL, ACT, {p})
  BY PsetGood DEF r
<1>4. p \in Queues /\ set \in Queues /\ set # p /\ set \notin Ports
  BY ObjectsAssumption DEF ObjectsAssumption, Queues
<1>5. /\ Good(u, PC, CL, ACT, {p}) /\ u.ip_pset = r.ip_pset /\ Told(r, u, PC, {})
      /\ u.messages[p] = Sublist(r.messages[p], Message \ MessageFor(p))
  <2>1. Transferred(r, u, PC, CL, ACT, {p}, set, p, p)
    BY <1>3, <1>4, MoveGood
  <2> QED
    BY <2>1 DEF Transferred
<1>6. u.messages[p] = <<>>
  <2>1. r.messages[p] \in Seq(Message) /\ u.messages[p] \in Seq(Message)
    BY <1>2, <1>4, <1>5, Fields DEF Good, StateTypes
  <2>2. ASSUME NEW m \in Message PROVE ~Listed(u.messages[p], m)
    <3>1. Listed(r.messages[p], m) => m.port = p
      BY <1>3 DEF Good, Own, Listed
    <3>2. Listed(u.messages[p], m) => m \notin MessageFor(p) /\ Listed(r.messages[p], m)
      BY <1>5, <2>1, SublistMembers
    <3> QED
      BY <3>1, <3>2 DEF MessageFor
  <2> QED
    BY <2>1, <2>2, NotListed
<1> HIDE DEF u
<1>7. /\ Good(o, PC, CL, ACT, {}) /\ o.ip_pset = u.ip_pset /\ Told(u, o, PC, {})
  <2>1. "changed" \in {"died", "changed"} /\ {p} \ {p} = {}
    OBVIOUS
  <2>2. Good(u, PC, CL, ACT, {p})
    BY <1>5
  <2> QED
    BY <1>4, <1>6, <2>1, <2>2, ChangedGood
<1> HIDE DEF o
<1>8. Told(s, o, PC, {})
  <2>1. Told(s, u, PC, {})
    BY <1>2, <1>5, ToldNone, ToldThen
  <2> QED
    BY <2>1, <1>7, ToldThen
<1> QED
  BY <1>1, <1>2, <1>5, <1>7, <1>8 DEF Moved

\* A port leaves its set: ipc_pset_remove.
LEMMA RemoveGood ==
    ASSUME NEW PC, NEW CL, NEW ACT, NEW s, Good(s, PC, CL, ACT, {}),
           NEW p \in Ports, s.ip_pset[p] # Null
    PROVE  /\ Moved(s, ipc_pset_remove(s, p), PC, CL, ACT, p, Null)
           /\ ipc_pset_remove(s, p).receivers[p] = <<>>
<1> DEFINE r == [s EXCEPT !.ip_pset[p] = Null]
           set == s.ip_pset[p]
           o == ipc_mqueue_move(r, p, set, p)
<1>0. s \in State /\ StateTypes(s) /\ Receiving(s, PC, CL) /\ Consistent(s, ACT) /\ Apart(s, {}) /\ Own(s)
  BY Fields DEF Good
<1>1. ipc_pset_remove(s, p) = o
  BY DEF ipc_pset_remove
<1>2. /\ r \in State /\ r.ip_pset = [s.ip_pset EXCEPT ![p] = Null]
      /\ r.messages = s.messages /\ r.receivers = s.receivers
      /\ r.ith = s.ith /\ r.wait = s.wait
  BY <1>0, PsetType
<1> HIDE DEF r
<1>3. Good(r, PC, CL, ACT, {})
  BY PsetGood DEF r
<1>4. p \in Queues /\ set \in Queues /\ set # p /\ r.ip_pset[p] = Null
  <2>1. set \in Psets
    BY <1>0 DEF StateTypes
  <2> QED
    BY <2>1, <1>0, <1>2, ObjectsAssumption DEF ObjectsAssumption, Queues, StateTypes
<1> HIDE DEF set
<1>5. Good(o, PC, CL, ACT, {}) /\ o.ip_pset = r.ip_pset /\ Told(r, o, PC, {})
  <2>1. p # set /\ (p \in Ports => p = p /\ (p \in {} \/ r.ip_pset[p] = Null))
    BY <1>4
  <2>2. Transferred(r, o, PC, CL, ACT, {}, p, set, p)
    BY <1>3, <1>4, <2>1, MoveGood
  <2> QED
    BY <2>2 DEF Transferred
<1> HIDE DEF o
<1>6. Told(s, o, PC, {})
  BY <1>2, <1>5, ToldNone, ToldThen
<1>7. o.receivers[p] = <<>>
  <2>1. s.receivers[p] = <<>>
    BY <1>0 DEF Apart
  <2> QED
    BY <2>1, <1>4, <1>5, <1>6, NoneMore
<1> QED
  BY <1>1, <1>2, <1>5, <1>6, <1>7 DEF Moved

\* A port leaves its set if that is dead: the check of ip_pset in
\* ipc_mqueue_copyin and ipc_port_set_seqno.
LEMMA LeaveGood ==
    ASSUME NEW PC, NEW CL, NEW ACT, NEW s, Good(s, PC, CL, ACT, {}), NEW p \in Ports
    PROVE  LET o == LeaveDeadSet(s, p)
           IN  /\ Good(o, PC, CL, ACT, {}) /\ Told(s, o, PC, {})
               /\ o.ip_pset = s.ip_pset \/ o.ip_pset = [s.ip_pset EXCEPT ![p] = Null]
               /\ s.ip_pset[p] \notin active => o.ip_pset[p] = Null
<1> DEFINE o == LeaveDeadSet(s, p)
<1>0. StateTypes(s)
  BY Fields DEF Good
<1>1. CASE s.ip_pset[p] # Null /\ s.ip_pset[p] \notin active
  <2>1. o = ipc_pset_remove(s, p)
    BY <1>1 DEF LeaveDeadSet
  <2> HIDE DEF o
  <2>2. Moved(s, o, PC, CL, ACT, p, Null)
    BY <1>1, <2>1, RemoveGood
  <2> QED
    BY <2>2, <1>0 DEF Moved, StateTypes, o
<1>2. CASE ~(s.ip_pset[p] # Null /\ s.ip_pset[p] \notin active)
  <2>1. o = s
    BY <1>2 DEF LeaveDeadSet
  <2> QED
    BY <2>1, <1>2, ToldNone
<1> QED
  BY <1>1, <1>2

\* A port's sequence numbers begin anew: the messages keep their places.
LEMMA RenumberGood ==
    ASSUME NEW PC, NEW CL, NEW ACT, NEW S, NEW s, Good(s, PC, CL, ACT, S),
           NEW p \in Ports, NEW n \in 0 .. SeqnoMod - 1
    PROVE  LET o == Renumber(s, p, n)
           IN  /\ Good(o, PC, CL, ACT, S) /\ Told(s, o, PC, {}) /\ o.ip_pset = s.ip_pset
               /\ o.receivers = s.receivers
<1> DEFINE o == Renumber(s, p, n)
           new(m) == [m EXCEPT !.due = (@ + n + SeqnoMod - s.seqno[p]) % SeqnoMod]
           shift(ms) == [i \in DOMAIN ms |-> IF ms[i].port # p THEN ms[i] ELSE new(ms[i])]
           N == [s.seqno EXCEPT ![p] = n]
           M == [q \in Queues |-> shift(s.messages[q])]
<1>0. s \in State /\ StateTypes(s) /\ Receiving(s, PC, CL) /\ Consistent(s, ACT) /\ Apart(s, S) /\ Own(s)
  BY Fields DEF Good
<1>1. o = [s EXCEPT !.seqno = N, !.messages = M]
  BY DEF Renumber
<1>2. ASSUME NEW m \in Message PROVE new(m) \in Message /\ new(m).port = m.port
  <2> DEFINE k == m.due + n + SeqnoMod - s.seqno[p]
  <2>1. k \in Int /\ SeqnoMod \in Nat /\ SeqnoMod >= 1
    <3>1. m.due \in 0 .. SeqnoMod - 1 /\ s.seqno[p] \in 0 .. SeqnoMod - 1
      BY <1>0 DEF StateTypes, Message
    <3>2. SeqnoMod \in Nat
      BY BoundsAssumption DEF BoundsAssumption
    <3> QED
      BY <3>1, <3>2, SMT
  <2> HIDE DEF k
  <2>2. k % SeqnoMod \in 0 .. SeqnoMod - 1
    BY <2>1, SMT
  <2>3. new(m) = [m EXCEPT !.due = k % SeqnoMod]
    BY DEF k
  <2> HIDE DEF new
  <2> QED
    BY <2>2, <2>3 DEF Message
<1>3. ASSUME NEW ms \in Seq(Message)
      PROVE  /\ shift(ms) \in Seq(Message) /\ Len(shift(ms)) = Len(ms)
             /\ \A i \in 1 .. Len(ms) : shift(ms)[i].port = ms[i].port
             /\ shift(ms) = <<>> <=> ms = <<>>
  <2> HIDE DEF new
  <2>1. DOMAIN ms = 1 .. Len(ms) /\ Len(ms) \in Nat /\ \A i \in 1 .. Len(ms) : ms[i] \in Message
    OBVIOUS
  <2>2. shift(ms) \in [1 .. Len(ms) -> Message]
    BY <2>1, <1>2
  <2>3. shift(ms) \in Seq(Message) /\ Len(shift(ms)) = Len(ms)
    BY <2>1, <2>2, SMT
  <2>4. \A i \in 1 .. Len(ms) : shift(ms)[i].port = ms[i].port
    BY <2>1, <1>2
  <2> HIDE DEF shift
  <2>5. shift(ms) = <<>> <=> ms = <<>>
    BY <2>3
  <2> QED
    BY <2>3, <2>4, <2>5
<1> HIDE DEF new, shift, o
<1>4. M \in [Queues -> Seq(Message)]
  BY <1>0, <1>3 DEF StateTypes
<1>5. N \in [Ports -> 0 .. SeqnoMod - 1]
  BY <1>0 DEF StateTypes
<1>6. \A q \in Queues : /\ Len(M[q]) = Len(s.messages[q])
                        /\ \A i \in 1 .. Len(M[q]) : M[q][i].port = s.messages[q][i].port
                        /\ M[q] = <<>> <=> s.messages[q] = <<>>
  BY <1>0, <1>3 DEF StateTypes
<1> HIDE DEF M, N
<1>7. o \in State
  BY <1>0, <1>1, <1>4, <1>5, Zenon DEF State
<1>8. /\ o.ip_pset = s.ip_pset /\ o.messages = M /\ o.receivers = s.receivers
      /\ o.wait = s.wait /\ o.ith = s.ith
  BY <1>0, <1>1, Zenon DEF State
<1>9. Receiving(o, PC, CL) /\ Consistent(o, ACT)
  BY <1>0, <1>6, <1>8 DEF Receiving, Consistent
<1>10. Apart(o, S) /\ Own(o)
  <2>1. \A x \in Ports : x \in Queues
    BY DEF Queues
  <2> QED
    BY <2>1, <1>0, <1>6, <1>8 DEF Apart, Own
<1> QED
  BY <1>7, <1>8, <1>9, <1>10, ToldNone DEF Good, o

\* A port's receivers and set let go of it: ipc_port_clear_receiver.
LEMMA ClearGood ==
    ASSUME NEW PC, NEW CL, NEW ACT, NEW s, Good(s, PC, CL, ACT, {}), NEW p \in Ports
    PROVE  /\ Moved(s, ipc_port_clear_receiver(s, p), PC, CL, ACT, p, Null)
           /\ ipc_port_clear_receiver(s, p).receivers[p] = <<>>
<1> DEFINE alone == IF s.ip_pset[p] # Null THEN ipc_pset_remove(s, p)
                    ELSE ipc_mqueue_changed(s, p, "died")
           o == ipc_port_clear_receiver(s, p)
<1>0. s \in State /\ StateTypes(s) /\ p \in Queues
  BY Fields DEF Good, Queues
<1>1. Moved(s, alone, PC, CL, ACT, p, Null) /\ alone.receivers[p] = <<>>
  <2>1. CASE s.ip_pset[p] # Null
    <3>1. alone = ipc_pset_remove(s, p)
      BY <2>1
    <3> HIDE DEF alone
    <3> QED
      BY <2>1, <3>1, RemoveGood
  <2>2. CASE s.ip_pset[p] = Null
    <3>1. alone = ipc_mqueue_changed(s, p, "died")
      BY <2>2
    <3>2. "died" \in {"died", "changed"}
      OBVIOUS
    <3> HIDE DEF alone
    <3>3. /\ Good(alone, PC, CL, ACT, {})
          /\ alone.ip_pset = s.ip_pset /\ alone.receivers[p] = <<>> /\ Told(s, alone, PC, {})
      BY <1>0, <3>1, <3>2, ChangedGood
    <3>4. [s.ip_pset EXCEPT ![p] = Null] = s.ip_pset
      BY <1>0, <2>2 DEF StateTypes
    <3> QED
      BY <3>2, <3>3, <3>4 DEF Moved
  <2> QED
    BY <2>1, <2>2
<1>2. o = Renumber(alone, p, 0)
  BY DEF ipc_port_clear_receiver
<1> HIDE DEF alone, o
<1>3. 0 \in 0 .. SeqnoMod - 1
  <2>1. s.seqno[p] \in 0 .. SeqnoMod - 1 /\ SeqnoMod \in Nat
    BY <1>0, BoundsAssumption DEF StateTypes, BoundsAssumption
  <2> QED
    BY <2>1, SMT
<1>4. /\ Good(o, PC, CL, ACT, {}) /\ Told(alone, o, PC, {}) /\ o.ip_pset = alone.ip_pset
      /\ o.receivers = alone.receivers
  BY <1>1, <1>2, <1>3, RenumberGood DEF Moved
<1>5. Told(s, o, PC, {})
  BY <1>1, <1>4, ToldThen DEF Moved
<1> QED
  BY <1>1, <1>4, <1>5 DEF Moved, o

-----------------------------------------------------------------------------
(* Lemmas about the threads.                                                *)

\* What is assigned is the state from then on.
LEMMA CommitIs == ASSUME NEW o \in State, Commit(o) PROVE Now' = o
<1>1. Now' = [ip_pset |-> o.ip_pset, seqno |-> o.seqno, messages |-> o.messages,
              receivers |-> o.receivers, ith |-> o.ith, wait |-> o.wait]
  BY DEF Now, Commit
<1>2. o = [ip_pset |-> o.ip_pset, seqno |-> o.seqno, messages |-> o.messages,
           receivers |-> o.receivers, ith |-> o.ith, wait |-> o.wait]
  BY Zenon DEF State
<1> QED
  BY <1>1, <1>2

\* The invariant, of the next state.
LEMMA InvAfter ==
    ASSUME NEW o \in State, Commit(o), Types', Good(o, pc', call', Live', {}),
           Sending(blocked', o, pc', call'), Place(o, pc', call'),
           Rights(held', active', o.ip_pset, blocked', pc', call'),
           Started(o, pc', call'), Alone(o, pc', call')
    PROVE  Inv'
<1>1. Now' = o
  BY CommitIs
<1>2. ip_pset' = o.ip_pset
  BY DEF Commit
<1>3. Types' /\ Good(Now', pc', call', Live', {}) /\ Sending(blocked', Now', pc', call')
      /\ Place(Now', pc', call') /\ Rights(held', active', ip_pset', blocked', pc', call')
      /\ Started(Now', pc', call') /\ Alone(Now', pc', call')
  BY <1>1, <1>2
<1> QED
  BY <1>3 DEF Inv

\* The fields of the state before a step.
LEMMA NowIs ==
    /\ Now.ip_pset = ip_pset /\ Now.seqno = seqno /\ Now.messages = messages
    /\ Now.receivers = receivers /\ Now.ith = ith /\ Now.wait = wait
  BY DEF Now

\* t's fields of a state.
ThreadSet(s, o, t, i, w) ==
    /\ o \in State /\ SameQueues(s, o) /\ o.ith[t] = i /\ o.wait[t] = w
    /\ \A u \in Threads \ {t} : o.ith[u] = s.ith[u] /\ o.wait[u] = s.wait[u]

LEMMA ThreadIs ==
    ASSUME NEW s \in State, NEW t \in Threads, NEW i \in Ith, NEW w \in Waiting
    PROVE  ThreadSet(s, [s EXCEPT !.ith[t] = i, !.wait[t] = w], t, i, w)
<1> DEFINE I == [s.ith EXCEPT ![t] = i]
           W == [s.wait EXCEPT ![t] = w]
           o == [s EXCEPT !.ith[t] = i, !.wait[t] = w]
<1>1. o = [s EXCEPT !.ith = I, !.wait = W]
  OBVIOUS
<1>2. I \in [Threads -> Ith] /\ I[t] = i /\ \A u \in Threads \ {t} : I[u] = s.ith[u]
  BY Fields DEF StateTypes
<1>3. W \in [Threads -> Waiting] /\ W[t] = w /\ \A u \in Threads \ {t} : W[u] = s.wait[u]
  BY Fields DEF StateTypes
<1> HIDE DEF I, W, o
<1>4. o \in State
  BY <1>1, <1>2, <1>3, Zenon DEF State
<1>5. /\ o.ip_pset = s.ip_pset /\ o.messages = s.messages /\ o.receivers = s.receivers
      /\ o.ith = I /\ o.wait = W
  BY <1>1, Zenon DEF State
<1> QED
  BY <1>2, <1>3, <1>4, <1>5 DEF ThreadSet, SameQueues, o

\* The queues stay in order when threads that wait in them still do, and
\* no others.
Waits(s, PC, CL, t, q) ==
    PC[t] = "rcv_wait" /\ CL[t].obj = q /\ s.ith[t].state = "in_progress"

LEMMA GoodStep ==
    ASSUME NEW PC, NEW CL, NEW PC2, NEW CL2, NEW ACT, NEW S, NEW s, Good(s, PC, CL, ACT, S),
           NEW o \in State, SameQueues(s, o),
           \A t \in Threads, q \in Queues : Waits(s, PC, CL, t, q) <=> Waits(o, PC2, CL2, t, q)
    PROVE  Good(o, PC2, CL2, ACT, S)
<1>1. Receiving(o, PC2, CL2)
  BY DEF Good, Receiving, SameQueues, Waits
<1>2. Consistent(o, ACT) /\ Apart(o, S) /\ Own(o)
  BY DEF Good, Consistent, Apart, Own, SameQueues
<1> QED
  BY <1>1, <1>2 DEF Good

\* Where threads may wait, there may be more.
LEMMA GoodMore ==
    ASSUME NEW PC, NEW CL, NEW ACT, NEW A, NEW S, NEW s, Good(s, PC, CL, ACT, S), ACT \subseteq A
    PROVE  Good(s, PC, CL, A, S)
  BY DEF Good, Consistent

LEMMA SendingStep ==
    ASSUME NEW PC, NEW CL, NEW PC2, NEW CL2, NEW b, NEW s, Sending(b, s, PC, CL), NEW o,
           \A t \in Threads, p \in Ports : Blocked(s, PC, CL, t, p) <=> Blocked(o, PC2, CL2, t, p)
    PROVE  Sending(b, o, PC2, CL2)
  BY DEF Sending

\* What happens to a thread that does not take the step from s to o: it may
\* be told something, and is then woken unless it is in T.
Go(w) == IF w = "waiting" THEN "awakened" ELSE w

Effect(s, o, PC, t, T) ==
    \/ o.ith[t] = s.ith[t] /\ o.wait[t] = s.wait[t]
    \/ /\ PC[t] = "rcv_wait" /\ s.ith[t].state = "in_progress" /\ Answer(o.ith[t])
       /\ o.wait[t] = Go(s.wait[t]) \/ (t \in T /\ o.wait[t] = s.wait[t])
    \/ /\ PC[t] = "send_wait" /\ s.ith[t].state = "in_progress" /\ o.ith[t].state = "success"
       /\ o.wait[t] = Go(s.wait[t])

LEMMA ToldEffect ==
    ASSUME NEW PC, NEW s, NEW o, NEW T, Told(s, o, PC, T)
    PROVE  \A t \in Threads : Effect(s, o, PC, t, T)
  BY DEF Told, Effect, Go

\* The thread that takes the step, after it.
Self(o, PC, CL, t) ==
    /\ PlaceOf(o, PC, CL, t)
    /\ o.wait[t] = "waiting" => o.ith[t].state = "in_progress"
    /\ \A u \in Threads : Starts(PC, CL, t, u) => o.ith[u].state # "in_progress"
    /\ o.ith[t].state = "in_progress" => o.wait[t] # "awakened"

\* A step by A, one thread or none, and nobody else between two lock holds on
\* a uniprocessor.
Settled(s, PC, CL) == Place(s, PC, CL) /\ Started(s, PC, CL) /\ Alone(s, PC, CL)

StepBy(A, T, s, PC, CL, o, PC2, CL2) ==
    /\ \A t, u \in A : t = u
    /\ \A t \in Threads \ A : /\ PC2[t] = PC[t] /\ CL2[t] = CL[t]
                              /\ Effect(s, o, PC, t, T)
    /\ \A t \in Threads \cap T : \E u \in Threads : Starts(PC2, CL2, u, t)
    /\ \A t \in A : PC[t] # "send_go" /\ Self(o, PC2, CL2, t)
    /\ ~Multiprocessor => \A t \in Threads \ A : PC[t] \notin Between

LEMMA ThreadsStep ==
    ASSUME NEW PC, NEW CL, NEW PC2, NEW CL2, NEW s, NEW o, NEW T, NEW A,
           Settled(s, PC, CL), StepBy(A, T, s, PC, CL, o, PC2, CL2)
    PROVE  Settled(o, PC2, CL2)
<1>0. /\ Place(s, PC, CL) /\ Started(s, PC, CL) /\ Alone(s, PC, CL)
      /\ \A t, u \in A : t = u
      /\ \A t \in Threads \ A : /\ PC2[t] = PC[t] /\ CL2[t] = CL[t]
                                /\ Effect(s, o, PC, t, T)
      /\ \A t \in Threads \cap T : \E u \in Threads : Starts(PC2, CL2, u, t)
      /\ \A t \in A : PC[t] # "send_go" /\ Self(o, PC2, CL2, t)
      /\ ~Multiprocessor => \A t \in Threads \ A : PC[t] \notin Between
  BY DEF Settled, StepBy
<1>1. ASSUME NEW t \in Threads PROVE PlaceOf(o, PC2, CL2, t)
  <2>1. CASE t \in A
    BY <2>1, <1>0 DEF Self
  <2>2. CASE t \notin A
    <3>1. PlaceOf(s, PC, CL, t)
      BY <1>0 DEF Place
    <3>2. /\ PC2[t] = PC[t] /\ CL2[t] = CL[t] /\ Effect(s, o, PC, t, T)
      BY <2>2, <1>0
    <3>3. o.wait[t] # "none" => s.wait[t] # "none"
      BY <3>2 DEF Effect, Go
    <3>4. o.ith[t].state # "none" => PC[t] \in {"send_wait", "rcv_wait"}
      BY <3>1, <3>2 DEF Effect, PlaceOf
    <3>5. PC[t] = "rcv_wait" /\ o.ith[t].state = "success" => o.ith[t].kmsg \in Message
      BY <3>1, <3>2 DEF Effect, PlaceOf, Answer
    <3> QED
      BY <3>1, <3>2, <3>3, <3>4, <3>5 DEF PlaceOf
  <2> QED
    BY <2>1, <2>2
<1>2. ASSUME NEW t \in Threads, o.wait[t] = "waiting"
      PROVE  \/ o.ith[t].state = "in_progress"
             \/ \E u \in Threads : Starts(PC2, CL2, u, t)
  <2>1. CASE t \in A
    BY <1>0, <1>2, <2>1 DEF Self
  <2>2. CASE t \notin A
    <3>1. Effect(s, o, PC, t, T)
      BY <2>2, <1>0
    <3>2. CASE o.ith[t] = s.ith[t] /\ o.wait[t] = s.wait[t]
      <4>1. s.ith[t].state = "in_progress" \/ \E u \in Threads : Starts(PC, CL, u, t)
        BY <1>0, <1>2, <3>2 DEF Started
      <4>2. \A u \in Threads : Starts(PC, CL, u, t) => Starts(PC2, CL2, u, t)
        BY <1>0 DEF Starts
      <4> QED
        BY <3>2, <4>1, <4>2
    <3>3. CASE t \in T
      BY <3>3, <1>0
    <3> QED
      BY <1>2, <3>1, <3>2, <3>3 DEF Effect, Go
  <2> QED
    BY <2>1, <2>2
<1>3. ASSUME ~Multiprocessor
      PROVE  /\ \A t, u \in Threads : PC2[t] \in Between /\ PC2[u] \in Between => t = u
             /\ \A t, u \in Threads : Starts(PC2, CL2, u, t) => o.ith[t].state # "in_progress"
             /\ \A t \in Threads : o.ith[t].state = "in_progress" => o.wait[t] # "awakened"
  <2>1. \A t \in Threads \ A : PC2[t] \notin Between
    BY <1>0, <1>3
  <2>2. \A t, u \in Threads : PC2[t] \in Between /\ PC2[u] \in Between => t = u
    BY <1>0, <2>1
  <2>3. ASSUME NEW t \in Threads, NEW u \in Threads, Starts(PC2, CL2, u, t)
        PROVE  o.ith[t].state # "in_progress"
    <3>1. u \in A
      BY <2>1, <2>3 DEF Starts, Between
    <3> QED
      BY <1>0, <2>3, <3>1 DEF Self
  <2>4. ASSUME NEW t \in Threads, o.ith[t].state = "in_progress"
        PROVE  o.wait[t] # "awakened"
    <3>1. CASE t \in A
      BY <1>0, <2>4, <3>1 DEF Self
    <3>2. CASE t \notin A
      <4>1. o.ith[t] = s.ith[t] /\ o.wait[t] = s.wait[t]
        BY <1>0, <2>4, <3>2 DEF Effect, Answer
      <4> QED
        BY <1>0, <1>3, <2>4, <4>1 DEF Alone
    <3> QED
      BY <3>1, <3>2
  <2> QED
    BY <2>2, <2>3, <2>4
<1> QED
  BY <1>1, <1>2, <1>3 DEF Settled, Place, Started, Alone

\* t as if it did not wait.
Awake(t) == [pc EXCEPT ![t] = "user"]

\* A thread's call, or one lock hold of it, ends; those of T are yet to be
\* woken.
Ends(t, s, T, to, c) ==
    /\ to \in {"user", "circular", "send_go", "rcv_got"} /\ pc[t] # "send_go"
    /\ Good(s, Awake(t), call, Live', {}) /\ Sending(blocked', s, Awake(t), call)
    /\ \A u \in Threads \ {t} : Effect(Now, s, pc, u, T)
    /\ ~Multiprocessor => \A u \in Threads \ {t} : pc[u] \notin Between
    /\ Commit([s EXCEPT !.ith[t] = Idle, !.wait[t] = "none"])
    /\ pc' = [pc EXCEPT ![t] = to] /\ call' = [call EXCEPT ![t] = c] /\ ~c.circ
    /\ to \in {"circular", "rcv_got"} => c.obj \in Ports
    /\ to = "send_go" => c.obj \in Threads /\ s.ith[c.obj].state # "in_progress"
    /\ \A u \in Threads \cap T : to = "send_go" /\ c.obj = u
    /\ Rights(held', active', s.ip_pset, blocked', pc', call')

LEMMA EndStep ==
    ASSUME Inv, Types', NEW t \in Threads, NEW s, NEW T, NEW c, NEW to, Ends(t, s, T, to, c)
    PROVE  Inv'
<1> USE DEF Ends
<1> DEFINE o == [s EXCEPT !.ith[t] = Idle, !.wait[t] = "none"]
<1>0. pc \in [Threads -> Places] /\ call \in [Threads -> Call] /\ s \in State
  BY DEF Inv, Types, Good
<1>1. Idle \in Ith /\ "none" \in Waiting /\ Idle.state = "none"
  BY DEF Idle, Ith, Waiting
<1>2. /\ o \in State /\ SameQueues(s, o) /\ o.ith[t] = Idle /\ o.wait[t] = "none"
      /\ \A u \in Threads \ {t} : o.ith[u] = s.ith[u] /\ o.wait[u] = s.wait[u]
  <2>1. ThreadSet(s, o, t, Idle, "none")
    BY <1>0, <1>1, ThreadIs
  <2> QED
    BY <2>1 DEF ThreadSet
<1>3. Commit(o)
  OBVIOUS
<1> HIDE DEF o
<1>4. /\ pc'[t] = to /\ call'[t] = c /\ Awake(t)[t] = "user"
      /\ \A u \in Threads \ {t} : pc'[u] = pc[u] /\ call'[u] = call[u] /\ Awake(t)[u] = pc[u]
  BY <1>0 DEF Awake
<1>5. Good(o, pc', call', Live', {})
  <2>1. \A u \in Threads, q \in Queues : Waits(s, Awake(t), call, u, q) <=> Waits(o, pc', call', u, q)
    BY <1>2, <1>4 DEF Waits
  <2> QED
    BY <1>2, <2>1, GoodStep
<1>6. Sending(blocked', o, pc', call')
  <2>1. \A u \in Threads, p \in Ports : Blocked(s, Awake(t), call, u, p) <=> Blocked(o, pc', call', u, p)
    BY <1>2, <1>4 DEF Blocked
  <2> QED
    BY <2>1, SendingStep
<1>7. Self(o, pc', call', t)
  <2>1. PlaceOf(o, pc', call', t)
    BY <1>1, <1>2, <1>4 DEF PlaceOf
  <2>2. \A u \in Threads : Starts(pc', call', t, u) => o.ith[u].state # "in_progress"
    <3> SUFFICES ASSUME NEW u \in Threads, Starts(pc', call', t, u)
                 PROVE  o.ith[u].state # "in_progress"
      OBVIOUS
    <3>1. to = "send_go" /\ c.obj = u
      BY <1>4 DEF Starts
    <3>2. CASE u = t
      BY <3>2, <1>1, <1>2
    <3>3. CASE u # t
      BY <3>1, <3>3, <1>2
    <3> QED
      BY <3>2, <3>3
  <2> QED
    BY <2>1, <2>2, <1>1, <1>2 DEF Self
<1>8. Place(o, pc', call') /\ Started(o, pc', call') /\ Alone(o, pc', call')
  <2>1. Settled(Now, pc, call)
    BY DEF Inv, Settled
  <2>2. \A u \in Threads \ {t} : /\ pc'[u] = pc[u] /\ call'[u] = call[u]
                                 /\ Effect(Now, o, pc, u, T)
    BY <1>2, <1>4 DEF Effect
  <2>3. \A u \in Threads \cap T : \E v \in Threads : Starts(pc', call', v, u)
    BY <1>4 DEF Starts
  <2>4. \A u, v \in {t} : u = v
    OBVIOUS
  <2>5. \A u \in {t} : pc[u] # "send_go" /\ Self(o, pc', call', u)
    BY <1>7
  <2>6. StepBy({t}, T, Now, pc, call, o, pc', call')
    BY <2>2, <2>3, <2>4, <2>5 DEF StepBy
  <2> QED
    BY <2>1, <2>6, ThreadsStep DEF Settled
<1>9. Rights(held', active', o.ip_pset, blocked', pc', call')
  BY <1>2 DEF SameQueues
<1> QED
  BY <1>2, <1>3, <1>5, <1>6, <1>8, <1>9, InvAfter

\* A thread begins to wait.
BeginsToWait(t, o, to, c) ==
    /\ o \in State /\ to \in {"send_wait", "rcv_wait"} /\ pc[t] # "send_go"
    /\ Good(o, pc', call', Live', {}) /\ Sending(blocked', o, pc', call')
    /\ \A u \in Threads \ {t} : Effect(Now, o, pc, u, {})
    /\ ~Multiprocessor => \A u \in Threads \ {t} : pc[u] \notin Between
    /\ Commit(o) /\ pc' = [pc EXCEPT ![t] = to] /\ call' = [call EXCEPT ![t] = c]
    /\ o.ith[t].state = "in_progress" /\ o.wait[t] = "waiting"
    /\ to = "send_wait" => c.obj \in Ports
    /\ to = "rcv_wait" => c.obj \in Queues /\ ~c.circ
    /\ Rights(held', active', o.ip_pset, blocked', pc', call')

LEMMA WaitStep ==
    ASSUME Inv, Types', NEW t \in Threads, NEW o, NEW c, NEW to, BeginsToWait(t, o, to, c)
    PROVE  Inv'
<1> USE DEF BeginsToWait
<1>0. pc \in [Threads -> Places] /\ call \in [Threads -> Call]
  BY DEF Inv, Types
<1>1. /\ pc'[t] = to /\ call'[t] = c
      /\ \A u \in Threads \ {t} : pc'[u] = pc[u] /\ call'[u] = call[u]
  BY <1>0
<1>2. Self(o, pc', call', t)
  <2>1. PlaceOf(o, pc', call', t)
    BY <1>1 DEF PlaceOf
  <2> QED
    BY <2>1, <1>1 DEF Self, Starts
<1>3. Place(o, pc', call') /\ Started(o, pc', call') /\ Alone(o, pc', call')
  <2>1. Settled(Now, pc, call)
    BY DEF Inv, Settled
  <2>2. \A u, v \in {t} : u = v
    OBVIOUS
  <2>3. \A u \in {t} : pc[u] # "send_go" /\ Self(o, pc', call', u)
    BY <1>2
  <2>4. \A u \in Threads \cap {} : \E v \in Threads : Starts(pc', call', v, u)
    OBVIOUS
  <2>5. StepBy({t}, {}, Now, pc, call, o, pc', call')
    BY <1>1, <2>2, <2>3, <2>4 DEF StepBy
  <2> QED
    BY <2>1, <2>5, ThreadsStep DEF Settled
<1> QED
  BY <1>3, InvAfter

\* A step of no thread, that changes neither what threads do nor where.
BySomebody(o) ==
    /\ Good(o, pc, call, Live', {}) /\ Sending(blocked', o, pc, call)
    /\ \A u \in Threads : Effect(Now, o, pc, u, {})
    /\ ~Multiprocessor => \A u \in Threads : pc[u] \notin Between
    /\ Commit(o) /\ pc' = pc /\ call' = call
    /\ Rights(held', active', o.ip_pset, blocked', pc, call)

LEMMA PortStepIs == ASSUME Inv, Types', NEW o, BySomebody(o) PROVE Inv'
<1> USE DEF BySomebody
<1>0. o \in State
  BY DEF Good
<1>1. Place(o, pc', call') /\ Started(o, pc', call') /\ Alone(o, pc', call')
  <2>1. Settled(Now, pc, call)
    BY DEF Inv, Settled
  <2>2. /\ \A u, v \in {} : u = v
        /\ \A u \in {} : pc[u] # "send_go" /\ Self(o, pc', call', u)
        /\ \A u \in Threads \cap {} : \E v \in Threads : Starts(pc', call', v, u)
    OBVIOUS
  <2>3. \A u \in Threads \ {} : /\ pc'[u] = pc[u] /\ call'[u] = call[u]
                                /\ Effect(Now, o, pc, u, {})
    OBVIOUS
  <2>4. ~Multiprocessor => \A u \in Threads \ {} : pc[u] \notin Between
    OBVIOUS
  <2>5. StepBy({}, {}, Now, pc, call, o, pc', call')
    BY <2>2, <2>3, <2>4 DEF StepBy
  <2> QED
    BY <2>1, <2>5, ThreadsStep DEF Settled
<1>2. /\ Good(o, pc', call', Live', {}) /\ Sending(blocked', o, pc', call')
      /\ Rights(held', active', o.ip_pset, blocked', pc', call')
  OBVIOUS
<1> QED
  BY <1>0, <1>1, <1>2, InvAfter

-----------------------------------------------------------------------------
(* The steps of ipc_mqueue_send.                                            *)

\* Nobody else is between two lock holds when t runs.
LEMMA TurnIs ==
    ASSUME NEW t \in Threads, Turn(t)
    PROVE  ~Multiprocessor => \A u \in Threads \ {t} : pc[u] \notin Between
  BY DEF Turn

LEMMA QuietIs == ASSUME Quiet PROVE ~Multiprocessor => \A u \in Threads : pc[u] \notin Between
  BY DEF Quiet

\* While t does not wait in a queue of receivers, the queues are in order
\* without it.
LEMMA GoodAwake ==
    ASSUME Inv, NEW t \in Threads,
           pc[t] # "rcv_wait" \/ ith[t].state # "in_progress"
    PROVE  Good(Now, Awake(t), call, Live, {})
<1>1. Awake(t)[t] = "user" /\ \A u \in Threads \ {t} : Awake(t)[u] = pc[u]
  BY DEF Inv, Types, Awake
<1>2. Good(Now, pc, call, Live, {}) /\ Now \in State /\ SameQueues(Now, Now)
  BY DEF Inv, Good, SameQueues
<1>3. \A u \in Threads, q \in Queues : Waits(Now, pc, call, u, q) <=> Waits(Now, Awake(t), call, u, q)
  BY <1>1, NowIs DEF Waits
<1> QED
  BY <1>2, <1>3, GoodStep

\* t is about to go through the loop of ipc_mqueue_send, with c, while b is
\* ip_blocked without it.
SendReady(t, c, b) ==
    /\ pc[t] \in {"user", "send", "send_wait"}
    /\ c \in Call /\ c.obj \in Ports
    /\ c.circ => c.obj \notin held /\ \A u \in Threads : Carries(pc, call, u, c.obj) => u = t
    /\ b \in [Ports -> Seq(Threads)] /\ \A p \in Ports : p \notin active => b[p] = <<>>
    /\ Sending(b, Now, Awake(t), call)
    /\ ~Multiprocessor => \A u \in Threads \ {t} : pc[u] \notin Between

LEMMA NoEffect == ASSUME NEW t, NEW T PROVE Effect(Now, Now, pc, t, T)
  BY DEF Effect

\* The types of what t does.
LEMMA TypesAfter ==
    ASSUME Types, NEW t \in Threads, NEW to \in Places, NEW c \in Call,
           pc' = [pc EXCEPT ![t] = to], call' = [call EXCEPT ![t] = c],
           active' \subseteq Queues, held' \subseteq Ports, backups' \subseteq Ports,
           msgcount' \in [Ports -> Int], qlimit' = qlimit, blocked' \in [Ports -> Seq(Threads)]
    PROVE  Types'
<1>1. pc' \in [Threads -> Places] /\ call' \in [Threads -> Call]
  BY DEF Types
<1> QED
  BY <1>1 DEF Types

\* t carries no right when it returns, or goes on with a call of its own.
LEMMA RightsEnd ==
    ASSUME Inv, NEW t \in Threads, NEW to \in Places, to # "circular", NEW c, ~c.circ,
           pc' = [pc EXCEPT ![t] = to], call' = [call EXCEPT ![t] = c],
           NEW P, \A p \in Ports : P[p] # Null => ip_pset[p] # Null,
           NEW b, \A p \in Ports : p \notin active => b[p] = <<>>
    PROVE  Rights(held, active, P, b, pc', call')
<1>1. /\ pc'[t] = to /\ call'[t] = c
      /\ \A u \in Threads \ {t} : pc'[u] = pc[u] /\ call'[u] = call[u]
  BY DEF Inv, Types
<1>2. \A u \in Threads, p \in Ports : Carries(pc', call', u, p) => Carries(pc, call, u, p)
  BY <1>1 DEF Carries
<1>3. Rights(held, active, ip_pset, blocked, pc, call)
  BY DEF Inv
<1> QED
  BY <1>2, <1>3 DEF Rights

LEMMA NoCallIs == NoCall \in Call /\ ~NoCall.circ /\ \A x \in Queues \cup Threads : 
                     /\ [NoCall EXCEPT !.obj = x] \in Call /\ ~[NoCall EXCEPT !.obj = x].circ
                     /\ [NoCall EXCEPT !.obj = x].obj = x
  BY DEF NoCall, Call

\* A send that ends with what it found: to a dead port, or when time is up.
LEMMA SendDeadOK ==
    ASSUME Inv, NEW t \in Threads, NEW c, SendReady(t, c, blocked'), SendDead(t, c),
           UNCHANGED <<active, backups, qlimit>>
    PROVE  Inv'
<1>1. /\ Commit([Now EXCEPT !.ith[t] = Idle, !.wait[t] = "none"])
      /\ pc' = [pc EXCEPT ![t] = "user"] /\ call' = [call EXCEPT ![t] = NoCall]
      /\ held' = held /\ msgcount' = msgcount
  BY DEF SendDead, Return
<1>2. NoCall \in Call /\ ~NoCall.circ
  BY NoCallIs
<1>3. Types'
  BY <1>1, <1>2, TypesAfter DEF Inv, Types, Places, SendReady
<1>4. Good(Now, Awake(t), call, Live', {})
  BY <1>1, GoodAwake DEF SendReady, Live
<1>5. Sending(blocked', Now, Awake(t), call)
  BY DEF SendReady
<1>6. Rights(held', active', ip_pset, blocked', pc', call')
  BY <1>1, <1>2, RightsEnd DEF SendReady, Places
<1>7. \A u \in Threads \ {t} : Effect(Now, Now, pc, u, {})
  BY NoEffect
<1>8. Ends(t, Now, {}, "user", NoCall)
  BY <1>1, <1>2, <1>4, <1>5, <1>6, <1>7, NowIs DEF SendReady, Ends
<1> QED
  BY <1>3, <1>8, EndStep

\* A send gives up: the message, and a right in it, stay with the caller.
LEMMA SendGiveUpOK ==
    ASSUME Inv, NEW t \in Threads, NEW c, SendReady(t, c, blocked'), SendGiveUp(t, c),
           c.obj \in active, UNCHANGED <<active, backups, qlimit>>
    PROVE  Inv'
<1>1. /\ Commit([Now EXCEPT !.ith[t] = Idle, !.wait[t] = "none"])
      /\ pc' = [pc EXCEPT ![t] = "user"] /\ call' = [call EXCEPT ![t] = NoCall]
      /\ held' = (IF c.circ THEN held \cup {c.obj} ELSE held) /\ msgcount' = msgcount
  BY DEF SendGiveUp, Return
<1>2. NoCall \in Call /\ ~NoCall.circ
  BY NoCallIs
<1>3. Types'
  <2>1. held' \subseteq Ports
    BY <1>1 DEF Inv, Types, SendReady
  <2> QED
    BY <1>1, <1>2, <2>1, TypesAfter DEF Inv, Types, Places, SendReady
<1>4. Good(Now, Awake(t), call, Live', {})
  <2>1. Live \subseteq Live'
    BY <1>1 DEF Live
  <2> QED
    BY <2>1, GoodAwake, GoodMore DEF SendReady
<1>5. Sending(blocked', Now, Awake(t), call)
  BY DEF SendReady
<1>6. Rights(held', active', ip_pset, blocked', pc', call')
  <2>1. Rights(held, active, ip_pset, blocked', pc', call')
    BY <1>1, <1>2, RightsEnd DEF SendReady, Places
  <2>2. held' \subseteq active /\ held \subseteq held'
    BY <1>1, <2>1 DEF Rights
  <2>3. ASSUME NEW p \in Ports, NEW u \in Threads, Carries(pc', call', u, p) PROVE p \notin held'
    <3>1. u # t
      BY <1>1, <1>2, <2>3 DEF Carries, Inv, Types
    <3>2. Carries(pc, call, u, p)
      BY <1>1, <2>3, <3>1 DEF Carries, Inv, Types
    <3>3. c.circ => p # c.obj
      BY <3>1, <3>2 DEF SendReady
    <3>4. p \notin held
      BY <2>1, <2>3 DEF Rights
    <3> QED
      BY <1>1, <3>3, <3>4
  <2> QED
    BY <2>1, <2>2, <2>3 DEF Rights
<1>7. \A u \in Threads \ {t} : Effect(Now, Now, pc, u, {})
  BY NoEffect
<1>8. Ends(t, Now, {}, "user", NoCall)
  BY <1>1, <1>2, <1>4, <1>5, <1>6, <1>7, NowIs DEF SendReady, Ends
<1> QED
  BY <1>3, <1>8, EndStep

\* A send of a port's own right to it goes on to destroy it.
LEMMA SendCircularOK ==
    ASSUME Inv, NEW t \in Threads, NEW c, SendReady(t, c, blocked'), SendCircular(t, c),
           UNCHANGED <<active, backups, qlimit>>
    PROVE  Inv'
<1> DEFINE d == [NoCall EXCEPT !.obj = c.obj]
<1>1. /\ Commit([Now EXCEPT !.ith[t] = Idle, !.wait[t] = "none"])
      /\ pc' = [pc EXCEPT ![t] = "circular"] /\ call' = [call EXCEPT ![t] = d]
      /\ held' = held /\ msgcount' = msgcount /\ c.circ
  BY DEF SendCircular, Proceed
<1>2. d \in Call /\ ~d.circ /\ d.obj = c.obj /\ c.obj \in Ports
  BY NoCallIs DEF SendReady, Queues
<1> HIDE DEF d
<1>3. Types'
  BY <1>1, <1>2, TypesAfter DEF Inv, Types, Places, SendReady
<1>4. Good(Now, Awake(t), call, Live', {})
  BY <1>1, GoodAwake DEF SendReady, Live
<1>5. Sending(blocked', Now, Awake(t), call)
  BY DEF SendReady
<1>6. Rights(held', active', ip_pset, blocked', pc', call')
  <2>1. /\ pc'[t] = "circular" /\ call'[t] = d
        /\ \A u \in Threads \ {t} : pc'[u] = pc[u] /\ call'[u] = call[u]
    BY <1>1 DEF Inv, Types
  <2>2. \A u \in Threads \ {t}, p \in Ports :
           Carries(pc', call', u, p) => Carries(pc, call, u, p) /\ p # c.obj
    BY <1>1, <2>1 DEF Carries, SendReady
  <2>3. \A p \in Ports : Carries(pc', call', t, p) => p = c.obj /\ p \notin held
    BY <1>1, <1>2, <2>1 DEF Carries, SendReady
  <2>4. Rights(held, active, ip_pset, blocked, pc, call)
    BY DEF Inv
  <2>5. ASSUME NEW p \in Ports, NEW u \in Threads, Carries(pc', call', u, p)
        PROVE  p \notin held /\ \A v \in Threads : Carries(pc', call', v, p) => v = u
    BY <2>2, <2>3, <2>4, <2>5 DEF Rights
  <2> QED
    BY <1>1, <2>4, <2>5 DEF Rights, SendReady
<1>7. \A u \in Threads \ {t} : Effect(Now, Now, pc, u, {})
  BY NoEffect
<1>8. Ends(t, Now, {}, "circular", d)
  BY <1>1, <1>2, <1>4, <1>5, <1>6, <1>7, NowIs DEF SendReady, Ends
<1> QED
  BY <1>3, <1>8, EndStep

\* What a routine tells receivers does not concern the senders.
LEMMA SendingTold ==
    ASSUME NEW b, NEW PC, NEW CL, NEW s, NEW o, NEW T, Sending(b, s, PC, CL), Told(s, o, PC, T)
    PROVE  Sending(b, o, PC, CL)
<1>1. \A t \in Threads, p \in Ports : Blocked(s, PC, CL, t, p) <=> Blocked(o, PC, CL, t, p)
  BY DEF Told, Blocked
<1> QED
  BY <1>1, SendingStep

\* A message is accepted: queued, or given to a receiver.
LEMMA SendAcceptOK ==
    ASSUME Inv, NEW t \in Threads, NEW c, SendReady(t, c, blocked'), SendAccept(t, c),
           UNCHANGED <<active, backups, qlimit>>
    PROVE  Inv'
<1> DEFINE p == c.obj
           q == QueueOf(p)
           m == [port |-> p, size |-> c.size, due |-> Due(p)]
           i == Taker(Now, q, m)
           x == receivers[q][i]
           s == Offer(Now, q, m)
           T == IF Taken(Now, q, m) THEN {x} ELSE {}
<1>1. /\ held' = held /\ msgcount' = [msgcount EXCEPT ![p] = @ + 1]
      /\ \/ i > Len(receivers[q]) /\ Return(t, s)
         \/ i <= Len(receivers[q]) /\ Proceed(t, s, "send_go", x)
  BY DEF SendAccept
<1>2. Good(Now, Awake(t), call, Live, {}) /\ StateTypes(Now) /\ Now \in State
  <2>1. Good(Now, Awake(t), call, Live, {})
    BY GoodAwake DEF SendReady
  <2> QED
    BY <2>1, Fields DEF Good
<1>3. q \in Queues /\ m \in Message /\ MayGo(Now, q, m, {})
  <2>1. p \in Ports /\ c.size \in Sizes \cup {0}
    BY DEF SendReady, Call
  <2>2. ip_pset[p] \in Psets \cup {Null} /\ seqno[p] \in 0 .. SeqnoMod - 1
    BY <1>2, <2>1, NowIs DEF StateTypes
  <2>3. /\ ip_pset[p] = Null => q = p
        /\ ip_pset[p] # Null => q \in Psets /\ q \notin Ports
    BY <2>2, ObjectsAssumption DEF QueueOf, ObjectsAssumption
  <2>4. q \in Queues
    BY <2>1, <2>2, <2>3 DEF Queues
  <2>5. Due(p) \in 0 .. SeqnoMod - 1
    <3> DEFINE ms == ForPort(messages[q], p)
               k == seqno[p] + Len(ms)
    <3>1. messages[q] \in Seq(Message)
      BY <1>2, <2>4, NowIs DEF StateTypes
    <3>2. ms \in Seq(Message)
      BY <3>1, SublistMembers DEF ForPort
    <3>3. Len(ms) \in Nat
      BY <3>2
    <3>4. k \in Int /\ SeqnoMod \in Nat /\ SeqnoMod >= 1
      BY <2>2, <3>3, BoundsAssumption, SMT DEF BoundsAssumption
    <3>5. Due(p) = k % SeqnoMod
      BY DEF Due
    <3> HIDE DEF k
    <3>6. k % SeqnoMod \in 0 .. SeqnoMod - 1
      BY <3>4, SMT
    <3> QED
      BY <3>5, <3>6
  <2>6. m \in Message
    BY <2>1, <2>5 DEF Message
  <2>7. MayGo(Now, q, m, {})
    BY <2>3, NowIs DEF MayGo
  <2> QED
    BY <2>4, <2>6, <2>7
<1>0. p \in Ports
  BY DEF SendReady
<1>4. Taken(Now, q, m) <=> i <= Len(receivers[q])
  BY NowIs DEF Taken
<1> HIDE DEF p, q, m, i, s
<1>5. /\ Good(s, Awake(t), call, Live, {}) /\ s.ip_pset = ip_pset
      /\ Taken(Now, q, m) => Listed(receivers[q], x) /\ s.ith[x].state = "success"
      /\ Told(Now, s, Awake(t), T)
  BY <1>2, <1>3, NowIs, OfferGood DEF i, s
<1>6. \A u \in Threads \ {t} : Effect(Now, s, pc, u, T)
  <2>1. \A u \in Threads \ {t} : Awake(t)[u] = pc[u]
    BY DEF Awake, Inv, Types
  <2>2. \A u \in Threads : Effect(Now, s, Awake(t), u, T)
    BY <1>5, ToldEffect
  <2> HIDE DEF T
  <2> QED
    BY <2>1, <2>2 DEF Effect
<1>7. Sending(blocked', s, Awake(t), call)
  BY <1>5, SendingTold DEF SendReady
<1>8. msgcount' \in [Ports -> Int]
  BY <1>0, <1>1 DEF Inv, Types
<1>11. Live' = Live
  BY <1>1 DEF Live
<1>9. ASSUME i > Len(receivers[q]), Return(t, s) PROVE Inv'
  <2>1. /\ Commit([s EXCEPT !.ith[t] = Idle, !.wait[t] = "none"])
        /\ pc' = [pc EXCEPT ![t] = "user"] /\ call' = [call EXCEPT ![t] = NoCall]
    BY <1>9 DEF Return
  <2>2. NoCall \in Call /\ ~NoCall.circ
    BY NoCallIs
  <2>3. Types'
    BY <1>1, <1>8, <2>1, <2>2, TypesAfter DEF Inv, Types, Places, SendReady
  <2>4. Rights(held', active', s.ip_pset, blocked', pc', call')
    BY <1>1, <1>5, <2>1, <2>2, RightsEnd DEF SendReady, Places
  <2>5. T = {}
    <3>1. Len(receivers[q]) \in Nat /\ i \in Int
      <4>1. receivers[q] \in Seq(Threads)
        BY <1>2, <1>3, NowIs DEF StateTypes
      <4>2. i \in 1 .. Len(Now.receivers[q]) + 1
        BY <1>2, <1>3, TakerIs DEF i
      <4> QED
        BY <4>1, <4>2, SMT
    <3>2. ~(i <= Len(receivers[q]))
      BY <3>1, <1>9, SMT
    <3> QED
      BY <1>4, <3>2
  <2>6. Ends(t, s, T, "user", NoCall)
    BY <1>5, <1>6, <1>7, <1>11, <2>1, <2>2, <2>4, <2>5 DEF SendReady, Ends
  <2> QED
    BY <2>3, <2>6, EndStep
<1>10. ASSUME i <= Len(receivers[q]), Proceed(t, s, "send_go", x) PROVE Inv'
  <2> DEFINE d == [NoCall EXCEPT !.obj = x]
  <2>1. /\ Commit([s EXCEPT !.ith[t] = Idle, !.wait[t] = "none"])
        /\ pc' = [pc EXCEPT ![t] = "send_go"] /\ call' = [call EXCEPT ![t] = d]
    BY <1>10 DEF Proceed
  <2>2. x \in Threads /\ s.ith[x].state = "success"
    <3>1. receivers[q] \in Seq(Threads) /\ Listed(receivers[q], x)
      BY <1>2, <1>3, <1>4, <1>5, <1>10, NowIs DEF StateTypes
    <3> QED
      BY <3>1, <1>4, <1>5, <1>10, NotListed
  <2>3. d \in Call /\ ~d.circ /\ d.obj = x
    BY <2>2, NoCallIs
  <2> HIDE DEF d, x
  <2>4. Types'
    BY <1>1, <1>8, <2>1, <2>3, TypesAfter DEF Inv, Types, Places, SendReady
  <2>5. Rights(held', active', s.ip_pset, blocked', pc', call')
    BY <1>1, <1>5, <2>1, <2>3, RightsEnd DEF SendReady, Places
  <2>6. Ends(t, s, T, "send_go", d)
    BY <1>5, <1>6, <1>7, <1>11, <2>1, <2>2, <2>3, <2>5 DEF SendReady, Ends
  <2> QED
    BY <2>4, <2>6, EndStep
<1> QED
  BY <1>1, <1>9, <1>10

\* The queue is full, and the sender waits.
LEMMA SendBlockOK ==
    ASSUME Inv, NEW t \in Threads, NEW c, NEW b, SendReady(t, c, b), c.obj \in active,
           Block(t, [Now EXCEPT !.ith[t].state = "in_progress"], c, "send_wait"),
           blocked' = [b EXCEPT ![c.obj] = Append(@, t)],
           UNCHANGED <<held, msgcount, active, backups, qlimit>>
    PROVE  Inv'
<1> DEFINE i == [ith[t] EXCEPT !.state = "in_progress"]
           o == [Now EXCEPT !.ith[t] = i, !.wait[t] = "waiting"]
           p == c.obj
<1>0. Now \in State /\ StateTypes(Now) /\ p \in Ports /\ c \in Call /\ b \in [Ports -> Seq(Threads)]
  BY Fields DEF Inv, Good, SendReady
<1>1. Commit(o) /\ pc' = [pc EXCEPT ![t] = "send_wait"] /\ call' = [call EXCEPT ![t] = c]
  BY NowIs DEF Block
<1>2. i \in Ith /\ i.state = "in_progress" /\ "waiting" \in Waiting
  <2>1. ith[t] \in Ith
    BY <1>0, NowIs DEF StateTypes
  <2> QED
    BY <2>1 DEF Ith, Waiting
<1> HIDE DEF i
<1>3. ThreadSet(Now, o, t, i, "waiting")
  BY <1>0, <1>2, ThreadIs
<1> HIDE DEF o, p
<1>4. /\ o \in State /\ SameQueues(Now, o) /\ o.ith[t].state = "in_progress" /\ o.wait[t] = "waiting"
      /\ \A u \in Threads \ {t} : o.ith[u] = Now.ith[u] /\ o.wait[u] = Now.wait[u]
  BY <1>2, <1>3 DEF ThreadSet
<1>5. /\ pc'[t] = "send_wait" /\ call'[t] = c /\ Awake(t)[t] = "user"
      /\ \A u \in Threads \ {t} : pc'[u] = pc[u] /\ call'[u] = call[u] /\ Awake(t)[u] = pc[u]
  BY <1>1 DEF Awake, Inv, Types
<1>6. Good(o, pc', call', Live', {})
  <2>1. Good(Now, Awake(t), call, Live', {})
    BY GoodAwake DEF SendReady, Live
  <2>2. \A u \in Threads, q \in Queues : Waits(Now, Awake(t), call, u, q) <=> Waits(o, pc', call', u, q)
    BY <1>4, <1>5 DEF Waits
  <2> QED
    BY <1>4, <2>1, <2>2, GoodStep
<1>7. /\ Once(b[p]) /\ ~Listed(b[p], t) /\ b[p] \in Seq(Threads)
      /\ blocked' \in [Ports -> Seq(Threads)] /\ blocked'[p] = Append(b[p], t)
      /\ \A r \in Ports \ {p} : blocked'[r] = b[r]
  <2>1. Once(b[p]) /\ (Listed(b[p], t) <=> Blocked(Now, Awake(t), call, t, p))
    BY <1>0 DEF SendReady, Sending
  <2>2. ~Blocked(Now, Awake(t), call, t, p)
    BY <1>5 DEF Blocked
  <2> QED
    BY <1>0, <2>1, <2>2 DEF p
<1>8. Sending(blocked', o, pc', call')
  <2> SUFFICES ASSUME NEW r \in Ports
               PROVE  /\ Once(blocked'[r])
                      /\ \A u \in Threads : Listed(blocked'[r], u) <=> Blocked(o, pc', call', u, r)
    BY DEF Sending
  <2>1. Once(b[r]) /\ \A u \in Threads : Listed(b[r], u) <=> Blocked(Now, Awake(t), call, u, r)
    BY DEF SendReady, Sending
  <2>2. \A u \in Threads \ {t} : Blocked(Now, Awake(t), call, u, r) <=> Blocked(o, pc', call', u, r)
    BY <1>4, <1>5 DEF Blocked
  <2>3. ~Blocked(Now, Awake(t), call, t, r) /\ (Blocked(o, pc', call', t, r) <=> r = p)
    BY <1>4, <1>5 DEF Blocked, p
  <2>4. CASE r = p
    <3>1. /\ Once(blocked'[p])
          /\ \A u : Listed(blocked'[p], u) <=> Listed(b[p], u) \/ u = t
      BY <1>7, ListedAppend
    <3> QED
      BY <2>1, <2>2, <2>3, <2>4, <3>1
  <2>5. CASE r # p
    BY <2>1, <2>2, <2>3, <2>5, <1>7
  <2> QED
    BY <2>4, <2>5
<1>9. Types'
  BY <1>0, <1>1, <1>7, TypesAfter DEF Inv, Types, Places
<1>10. Rights(held', active', o.ip_pset, blocked', pc', call')
  <2>1. Rights(held, active, ip_pset, blocked, pc, call)
    BY DEF Inv
  <2>2. \A u \in Threads \ {t}, r \in Ports :
           Carries(pc', call', u, r) => Carries(pc, call, u, r) /\ (c.circ => r # p)
    BY <1>5 DEF Carries, SendReady, p
  <2>3. \A r \in Ports : Carries(pc', call', t, r) => c.circ /\ r = p /\ r \notin held
    BY <1>5 DEF Carries, SendReady, p
  <2>4. ASSUME NEW r \in Ports, NEW u \in Threads, Carries(pc', call', u, r)
        PROVE  r \notin held /\ \A v \in Threads : Carries(pc', call', v, r) => v = u
    BY <2>1, <2>2, <2>3, <2>4 DEF Rights
  <2>5. \A r \in Ports : r \notin active => blocked'[r] = <<>>
    BY <1>7 DEF SendReady, p
  <2>6. o.ip_pset = ip_pset
    BY <1>4, NowIs DEF SameQueues
  <2> QED
    BY <2>1, <2>4, <2>5, <2>6 DEF Rights
<1>11. \A u \in Threads \ {t} : Effect(Now, o, pc, u, {})
  BY <1>4 DEF Effect
<1>12. BeginsToWait(t, o, "send_wait", c)
  BY <1>0, <1>1, <1>4, <1>6, <1>8, <1>10, <1>11 DEF BeginsToWait, SendReady, p
<1> QED
  BY <1>9, <1>12, WaitStep

\* The loop of ipc_mqueue_send.
LEMMA SendLoopOK ==
    ASSUME Inv, NEW t \in Threads, NEW c, NEW b, SendReady(t, c, b), SendLoop(t, c, b),
           UNCHANGED <<active, backups, qlimit>>
    PROVE  Inv'
<1>1. CASE blocked' = b
  <2>1. SendReady(t, c, blocked')
    BY <1>1
  <2>2. \/ SendDead(t, c) \/ SendCircular(t, c) \/ SendAccept(t, c) \/ SendTimedOut(t, c)
        \/ /\ c.obj \in active
           /\ Block(t, [Now EXCEPT !.ith[t].state = "in_progress"], c, "send_wait")
           /\ blocked' = [b EXCEPT ![c.obj] = Append(@, t)]
           /\ UNCHANGED <<held, msgcount>>
    BY DEF SendLoop
  <2>3. CASE SendTimedOut(t, c)
    BY <2>1, <2>3, SendGiveUpOK DEF SendTimedOut
  <2> QED
    BY <2>1, <2>2, <2>3, SendDeadOK, SendCircularOK, SendAcceptOK, SendBlockOK
<1>2. CASE blocked' # b
  BY <1>2, SendBlockOK DEF SendLoop
<1> QED
  BY <1>1, <1>2

\* ip_blocked without t, when t does not wait in it.
LEMMA SendingAwake ==
    ASSUME Inv, NEW t \in Threads,
           pc[t] # "send_wait" \/ ith[t].state # "in_progress"
    PROVE  Sending(blocked, Now, Awake(t), call)
<1>1. Awake(t)[t] = "user" /\ \A u \in Threads \ {t} : Awake(t)[u] = pc[u]
  BY DEF Inv, Types, Awake
<1>2. \A u \in Threads, p \in Ports :
         Blocked(Now, pc, call, u, p) <=> Blocked(Now, Awake(t), call, u, p)
  BY <1>1, NowIs DEF Blocked
<1>3. Sending(blocked, Now, pc, call)
  BY DEF Inv
<1> QED
  BY <1>2, <1>3, SendingStep

\* A send begins.
LEMMA SendOK == ASSUME Inv, NEW t \in Threads, ipc_mqueue_send(t) PROVE Inv'
<1>1. PICK p \in Ports, n \in Sizes, o \in Options :
         SendLoop(t, [obj |-> p, size |-> n, opt |-> o, circ |-> FALSE], blocked)
  BY DEF ipc_mqueue_send
<1>2. pc[t] = "user" /\ Turn(t) /\ UNCHANGED <<active, backups, qlimit>>
  BY DEF ipc_mqueue_send
<1> DEFINE c == [obj |-> p, size |-> n, opt |-> o, circ |-> FALSE]
<1>3. c \in Call /\ c.obj \in Ports /\ ~c.circ
  BY DEF Call, Queues
<1> HIDE DEF c
<1>4. Sending(blocked, Now, Awake(t), call)
  BY <1>2, SendingAwake
<1>5. /\ blocked \in [Ports -> Seq(Threads)]
      /\ \A r \in Ports : r \notin active => blocked[r] = <<>>
  BY DEF Inv, Types, Rights
<1>6. SendReady(t, c, blocked)
  BY <1>2, <1>3, <1>4, <1>5, TurnIs DEF SendReady
<1>7. SendLoop(t, c, blocked)
  BY <1>1 DEF c
<1> QED
  BY <1>2, <1>6, <1>7, SendLoopOK

\* The queues stay in order when threads may wait in fewer of them, if nobody
\* waits in the others.
LEMMA GoodLess ==
    ASSUME NEW PC, NEW CL, NEW ACT, NEW A, NEW S, NEW s, Good(s, PC, CL, ACT, S),
           \A q \in Queues \ A : q \notin ACT \/ s.receivers[q] = <<>>
    PROVE  Good(s, PC, CL, A, S)
  BY DEF Good, Consistent

\* A thread that neither waited nor begins to wait goes on.
GoesOn(t, o, to, c) ==
    /\ pc[t] \notin {"send_wait", "rcv_wait", "send_go"} /\ to \in {"user", "send"}
    /\ Good(o, pc, call, Live', {}) /\ Sending(blocked', o, pc, call)
    /\ \A u \in Threads : Effect(Now, o, pc, u, {})
    /\ ~Multiprocessor => \A u \in Threads \ {t} : pc[u] \notin Between
    /\ Commit(o) /\ pc' = [pc EXCEPT ![t] = to] /\ call' = [call EXCEPT ![t] = c]
    /\ to = "user" => ~c.circ
    /\ to = "send" => c.circ /\ c.obj \in Ports
    /\ Rights(held', active', o.ip_pset, blocked', pc', call')

LEMMA GoOnStep ==
    ASSUME Inv, Types', NEW t \in Threads, NEW o, NEW c, NEW to, GoesOn(t, o, to, c)
    PROVE  Inv'
<1> USE DEF GoesOn
<1>0. pc \in [Threads -> Places] /\ call \in [Threads -> Call] /\ o \in State
  BY DEF Inv, Types, Good
<1>1. /\ pc'[t] = to /\ call'[t] = c
      /\ \A u \in Threads \ {t} : pc'[u] = pc[u] /\ call'[u] = call[u]
  BY <1>0
<1>2. Good(o, pc', call', Live', {})
  <2>1. \A u \in Threads, q \in Queues : Waits(o, pc, call, u, q) <=> Waits(o, pc', call', u, q)
    BY <1>1 DEF Waits
  <2>2. SameQueues(o, o)
    BY DEF SameQueues
  <2> QED
    BY <1>0, <2>1, <2>2, GoodStep
<1>3. Sending(blocked', o, pc', call')
  <2>1. \A u \in Threads, p \in Ports : Blocked(o, pc, call, u, p) <=> Blocked(o, pc', call', u, p)
    BY <1>1 DEF Blocked
  <2> QED
    BY <2>1, SendingStep
<1>4. o.ith[t].state = "none" /\ o.wait[t] = "none"
  <2>1. PlaceOf(Now, pc, call, t)
    BY DEF Inv, Place
  <2>2. Now.ith[t].state = "none" /\ Now.wait[t] = "none"
    BY <2>1 DEF PlaceOf
  <2>3. Effect(Now, o, pc, t, {})
    OBVIOUS
  <2> QED
    BY <2>2, <2>3 DEF Effect
<1>5. Self(o, pc', call', t)
  <2>1. PlaceOf(o, pc', call', t)
    BY <1>1, <1>4 DEF PlaceOf
  <2> QED
    BY <2>1, <1>1, <1>4 DEF Self, Starts
<1>6. Place(o, pc', call') /\ Started(o, pc', call') /\ Alone(o, pc', call')
  <2>1. Settled(Now, pc, call)
    BY DEF Inv, Settled
  <2>2. \A u, v \in {t} : u = v
    OBVIOUS
  <2>3. \A u \in {t} : pc[u] # "send_go" /\ Self(o, pc', call', u)
    BY <1>5
  <2>4. \A u \in Threads \cap {} : \E v \in Threads : Starts(pc', call', v, u)
    OBVIOUS
  <2>5. StepBy({t}, {}, Now, pc, call, o, pc', call')
    BY <1>1, <2>2, <2>3, <2>4 DEF StepBy
  <2> QED
    BY <2>1, <2>5, ThreadsStep DEF Settled
<1> QED
  BY <1>0, <1>2, <1>3, <1>6, InvAfter

\* A message with the right of its own destination is sent.
LEMMA SendOwnRightOK == ASSUME Inv, NEW t \in Threads, SendOwnRight(t) PROVE Inv'
<1>1. /\ pc[t] = "user" /\ Turn(t)
      /\ UNCHANGED <<active, backups, msgcount, qlimit, blocked>>
  BY DEF SendOwnRight
<1>2. PICK p \in held, o \in Options \ {"always"} :
          /\ Commit(ipc_port_clear_receiver(Now, p))
          /\ held' = held \ {p}
          /\ pc' = [pc EXCEPT ![t] = "send"]
          /\ call' = [call EXCEPT ![t] = [obj |-> p, size |-> 0, opt |-> o, circ |-> TRUE]]
  BY DEF SendOwnRight
<1> DEFINE c == [obj |-> p, size |-> 0, opt |-> o, circ |-> TRUE]
           s == ipc_port_clear_receiver(Now, p)
<1>3. p \in Ports /\ p \in held /\ p \in Queues /\ p \notin Psets
  BY ObjectsAssumption DEF Inv, Types, Queues, ObjectsAssumption
<1>4. c \in Call /\ c.obj = p /\ c.circ
  BY <1>3 DEF Call
<1>5. call' = [call EXCEPT ![t] = c] /\ Commit(s)
  BY <1>2
<1> HIDE DEF c, s
<1>6. Good(s, pc, call, Live, {}) /\ Told(Now, s, pc, {}) /\ s.receivers[p] = <<>>
      /\ s.ip_pset = [ip_pset EXCEPT ![p] = Null]
  <2>1. Good(Now, pc, call, Live, {})
    BY DEF Inv
  <2>2. Moved(Now, s, pc, call, Live, p, Null) /\ s.receivers[p] = <<>>
    BY <1>3, <2>1, ClearGood DEF s
  <2> QED
    BY <2>2, NowIs DEF Moved
<1>7. Good(s, pc, call, Live', {})
  <2>1. Live' = Live \ {p}
    BY <1>1, <1>2, <1>3 DEF Live
  <2> QED
    BY <2>1, <1>6, GoodLess
<1>8. Sending(blocked', s, pc, call)
  BY <1>1, <1>6, SendingTold DEF Inv
<1>9. \A u \in Threads : Effect(Now, s, pc, u, {})
  BY <1>6, ToldEffect
<1>10. Types'
  BY <1>1, <1>2, <1>4, <1>5, TypesAfter DEF Inv, Types, Places
<1>11. Rights(held', active', s.ip_pset, blocked', pc', call')
  <2>1. Rights(held, active, ip_pset, blocked, pc, call)
    BY DEF Inv
  <2>2. /\ pc'[t] = "send" /\ call'[t] = c
        /\ \A u \in Threads \ {t} : pc'[u] = pc[u] /\ call'[u] = call[u]
    BY <1>2, <1>5 DEF Inv, Types
  <2>3. \A u \in Threads \ {t}, r \in Ports :
           Carries(pc', call', u, r) => Carries(pc, call, u, r) /\ r # p
    BY <1>3, <2>1, <2>2 DEF Carries, Rights
  <2>4. \A r \in Ports : Carries(pc', call', t, r) => r = p
    BY <1>4, <2>2 DEF Carries
  <2>5. ASSUME NEW r \in Ports, NEW u \in Threads, Carries(pc', call', u, r)
        PROVE  r \notin held' /\ \A v \in Threads : Carries(pc', call', v, r) => v = u
    <3>1. CASE u = t
      BY <1>2, <2>3, <2>4, <2>5, <3>1
    <3>2. CASE u # t
      <4>1. Carries(pc, call, u, r) /\ r # p
        BY <2>3, <2>5, <3>2
      <4>2. r \notin held /\ \A v \in Threads : Carries(pc, call, v, r) => v = u
        BY <2>1, <4>1 DEF Rights
      <4> QED
        BY <1>2, <2>3, <2>4, <4>1, <4>2
    <3> QED
      BY <3>1, <3>2
  <2>6. \A r \in Ports : s.ip_pset[r] # Null => r \in held'
    <3>1. ip_pset \in [Ports -> Psets \cup {Null}]
      BY Fields, NowIs DEF Inv, Good, StateTypes
    <3> QED
      BY <1>2, <1>6, <2>1, <3>1 DEF Rights
  <2> QED
    BY <1>1, <1>2, <2>1, <2>5, <2>6 DEF Rights
<1>12. GoesOn(t, s, "send", c)
  BY <1>1, <1>2, <1>3, <1>4, <1>5, <1>7, <1>8, <1>9, <1>11, TurnIs DEF GoesOn
<1> QED
  BY <1>10, <1>12, GoOnStep

\* What a sender that carries its own destination's right knows about it.
LEMMA CarriedIs ==
    ASSUME Inv, NEW t \in Threads, pc[t] \in {"send", "send_wait"}
    PROVE  /\ call[t] \in Call /\ call[t].obj \in Ports
           /\ call[t].circ => /\ call[t].obj \notin held
                              /\ \A u \in Threads : Carries(pc, call, u, call[t].obj) => u = t
<1>1. call[t] \in Call /\ PlaceOf(Now, pc, call, t)
  BY DEF Inv, Types, Place
<1>2. call[t].obj \in Ports
  BY <1>1 DEF PlaceOf
<1>3. call[t].circ => Carries(pc, call, t, call[t].obj)
  BY DEF Carries
<1> QED
  BY <1>1, <1>2, <1>3 DEF Inv, Rights

LEMMA SendOwnRightLoopOK == ASSUME Inv, NEW t \in Threads, SendOwnRightLoop(t) PROVE Inv'
<1>1. /\ pc[t] = "send" /\ Turn(t) /\ SendLoop(t, call[t], blocked)
      /\ UNCHANGED <<active, backups, qlimit>>
  BY DEF SendOwnRightLoop
<1>2. Sending(blocked, Now, Awake(t), call)
  BY <1>1, SendingAwake
<1>3. /\ blocked \in [Ports -> Seq(Threads)]
      /\ \A r \in Ports : r \notin active => blocked[r] = <<>>
  BY DEF Inv, Types, Rights
<1>4. SendReady(t, call[t], blocked)
  BY <1>1, <1>2, <1>3, CarriedIs, TurnIs DEF SendReady
<1> QED
  BY <1>1, <1>4, SendLoopOK

\* A sender wakes up.
LEMMA SendWokenOK == ASSUME Inv, NEW t \in Threads, SendWoken(t) PROVE Inv'
<1> DEFINE c == call[t]
           p == c.obj
           off == [blocked EXCEPT ![c.obj] = Sublist(@, Threads \ {t})]
           d == [c EXCEPT !.opt = "poll"]
<1>1. pc[t] = "send_wait" /\ Turn(t) /\ UNCHANGED <<active, backups, qlimit>>
  BY DEF SendWoken
<1>2. \/ ith[t].state = "success" /\ SendLoop(t, c, blocked)
      \/ ith[t].state = "in_progress" /\ SendGiveUp(t, c) /\ blocked' = off
      \/ ith[t].state = "in_progress" /\ SendLoop(t, d, off)
      \/ ith[t].state = "in_progress" /\ SendLoop(t, c, off)
  BY DEF SendWoken
<1>3. /\ c \in Call /\ p \in Ports
      /\ c.circ => p \notin held /\ \A u \in Threads : Carries(pc, call, u, p) => u = t
  BY <1>1, CarriedIs
<1>4. d \in Call /\ d.obj = p /\ d.circ = c.circ
  BY <1>3 DEF Call
<1>5. /\ blocked \in [Ports -> Seq(Threads)]
      /\ \A r \in Ports : r \notin active => blocked[r] = <<>>
  BY DEF Inv, Types, Rights
<1>6. ASSUME ith[t].state = "success" PROVE SendReady(t, c, blocked)
  <2>1. Sending(blocked, Now, Awake(t), call)
    BY <1>6, SendingAwake
  <2> QED
    BY <1>1, <1>3, <1>5, <2>1, TurnIs DEF SendReady
<1>7. ASSUME ith[t].state = "in_progress"
      PROVE  SendReady(t, c, off) /\ SendReady(t, d, off) /\ p \in active
  <2>1. Sending(blocked, Now, pc, call)
    BY DEF Inv
  <2>2. /\ off \in [Ports -> Seq(Threads)] /\ off[p] = Sublist(blocked[p], Threads \ {t})
        /\ \A r \in Ports \ {p} : off[r] = blocked[r]
    <3>1. blocked[p] \in Seq(Threads)
      BY <1>3, <1>5
    <3>2. Sublist(blocked[p], Threads \ {t}) \in Seq(Threads)
      BY <3>1, SublistMembers
    <3> QED
      BY <1>3, <1>5, <3>2
  <2>3. Once(off[p]) /\ \A u : Listed(off[p], u) <=> u \in Threads \ {t} /\ Listed(blocked[p], u)
    <3>1. blocked[p] \in Seq(Threads) /\ Once(blocked[p])
      BY <1>3, <1>5, <2>1 DEF Sending
    <3> QED
      BY <2>2, <3>1, SublistMembers, SublistOnce
  <2>4. Listed(blocked[p], t)
    BY <1>1, <1>3, <1>7, <2>1, NowIs DEF Sending, Blocked
  <2>5. p \in active
    <3>1. blocked[p] \in Seq(Threads)
      BY <1>3, <1>5
    <3>2. blocked[p] # <<>>
      BY <3>1, <2>4, NotListed
    <3> QED
      BY <1>3, <1>5, <3>2
  <2>6. Awake(t)[t] = "user" /\ \A u \in Threads \ {t} : Awake(t)[u] = pc[u]
    BY DEF Inv, Types, Awake
  <2> HIDE DEF off, d
  <2>7. Sending(off, Now, Awake(t), call)
    <3> SUFFICES ASSUME NEW r \in Ports
                 PROVE  /\ Once(off[r])
                        /\ \A u \in Threads : Listed(off[r], u) <=> Blocked(Now, Awake(t), call, u, r)
      BY DEF Sending
    <3>1. Once(blocked[r]) /\ \A u \in Threads : Listed(blocked[r], u) <=> Blocked(Now, pc, call, u, r)
      BY <2>1 DEF Sending
    <3>2. \A u \in Threads \ {t} : Blocked(Now, Awake(t), call, u, r) <=> Blocked(Now, pc, call, u, r)
      BY <2>6 DEF Blocked
    <3>3. ~Blocked(Now, Awake(t), call, t, r)
      BY <2>6 DEF Blocked
    <3>4. CASE r = p
      BY <2>3, <3>1, <3>2, <3>3, <3>4
    <3>5. CASE r # p
      <4>1. ~Blocked(Now, pc, call, t, r)
        BY <3>5 DEF Blocked
      <4> QED
        BY <2>2, <3>1, <3>2, <3>3, <3>5, <4>1
    <3> QED
      BY <3>4, <3>5
  <2>8. \A r \in Ports : r \notin active => off[r] = <<>>
    BY <1>5, <2>2, <2>5
  <2> QED
    BY <1>1, <1>3, <1>4, <2>2, <2>5, <2>7, <2>8, TurnIs DEF SendReady
<1> HIDE DEF c, off, d
<1>8. CASE ith[t].state = "success" /\ SendLoop(t, c, blocked)
  BY <1>1, <1>6, <1>8, SendLoopOK
<1>9. CASE ith[t].state = "in_progress" /\ SendGiveUp(t, c) /\ blocked' = off
  BY <1>1, <1>7, <1>9, SendGiveUpOK
<1>10. CASE ith[t].state = "in_progress" /\ SendLoop(t, d, off)
  BY <1>1, <1>7, <1>10, SendLoopOK
<1>11. CASE ith[t].state = "in_progress" /\ SendLoop(t, c, off)
  BY <1>1, <1>7, <1>11, SendLoopOK
<1> QED
  BY <1>2, <1>8, <1>9, <1>10, <1>11

\* The sender starts the receiver it gave its message to.
LEMMA SendGoOK == ASSUME Inv, NEW t \in Threads, SendGo(t) PROVE Inv'
<1> DEFINE x == call[t].obj
           W == thread_go(wait, {x})
           s == [Now EXCEPT !.wait = W]
           o == [s EXCEPT !.ith[t] = Idle, !.wait[t] = "none"]
<1>1. /\ pc[t] = "send_go" /\ UNCHANGED <<active, held, backups, msgcount, qlimit, blocked>>
      /\ Commit(o) /\ pc' = [pc EXCEPT ![t] = "user"] /\ call' = [call EXCEPT ![t] = NoCall]
  BY NowIs DEF SendGo, Return
<1>2. Now \in State /\ StateTypes(Now) /\ pc \in [Threads -> Places] /\ call \in [Threads -> Call]
  BY Fields DEF Inv, Good, Types
<1>3. /\ W \in [Threads -> Waiting]
      /\ \A u \in Threads : W[u] = wait[u] \/ (u = x /\ W[u] = "awakened" /\ wait[u] = "waiting")
      /\ x \in Threads => W[x] # "waiting"
  <2>1. wait \in [Threads -> Waiting]
    BY <1>2, NowIs DEF StateTypes
  <2>2. /\ \A u \in Threads : u \notin {x} => W[u] = wait[u]
        /\ \A u \in Threads : u \in {x} => W[u] = IF wait[u] = "waiting" THEN "awakened" ELSE wait[u]
        /\ W \in [Threads -> Waiting]
    BY <2>1, GoIs
  <2> HIDE DEF W, x
  <2> QED
    BY <2>2
<1> HIDE DEF W
<1>4. s \in State /\ SameQueues(Now, s) /\ s.ith = ith /\ s.wait = W
  <2>1. s = [Now EXCEPT !.wait = W]
    OBVIOUS
  <2> HIDE DEF s
  <2>2. s \in State
    BY <1>2, <1>3, <2>1, Zenon DEF State
  <2>3. /\ s.ip_pset = Now.ip_pset /\ s.messages = Now.messages /\ s.receivers = Now.receivers
        /\ s.ith = Now.ith /\ s.wait = W
    BY <1>2, <2>1, Zenon DEF State
  <2> QED
    BY <2>2, <2>3, NowIs DEF SameQueues
<1> HIDE DEF s
<1>5. Idle \in Ith /\ "none" \in Waiting /\ Idle.state = "none"
  BY DEF Idle, Ith, Waiting
<1>6. /\ o \in State /\ SameQueues(Now, o) /\ o.ith[t] = Idle /\ o.wait[t] = "none"
      /\ \A u \in Threads \ {t} : o.ith[u] = ith[u] /\ o.wait[u] = W[u]
  <2>1. ThreadSet(s, o, t, Idle, "none")
    BY <1>4, <1>5, ThreadIs
  <2> QED
    BY <1>4, <2>1 DEF ThreadSet, SameQueues
<1> HIDE DEF o
<1>7. /\ pc'[t] = "user" /\ call'[t] = NoCall
      /\ \A u \in Threads \ {t} : pc'[u] = pc[u] /\ call'[u] = call[u]
  BY <1>1, <1>2
<1>8. NoCall \in Call /\ ~NoCall.circ
  BY NoCallIs
<1>9. Types'
  BY <1>1, <1>8, TypesAfter DEF Inv, Types, Places
<1>10. Good(o, pc', call', Live', {})
  <2>1. Good(Now, pc, call, Live', {})
    BY <1>1 DEF Inv, Live
  <2>2. \A u \in Threads, q \in Queues : Waits(Now, pc, call, u, q) <=> Waits(o, pc', call', u, q)
    BY <1>1, <1>5, <1>6, <1>7, NowIs DEF Waits
  <2> QED
    BY <1>6, <2>1, <2>2, GoodStep
<1>11. Sending(blocked', o, pc', call')
  <2>1. \A u \in Threads, p \in Ports : Blocked(Now, pc, call, u, p) <=> Blocked(o, pc', call', u, p)
    BY <1>1, <1>5, <1>6, <1>7, NowIs DEF Blocked
  <2> QED
    BY <1>1, <2>1, SendingStep DEF Inv
<1>12. Rights(held', active', o.ip_pset, blocked', pc', call')
  <2>1. o.ip_pset = ip_pset
    BY <1>6, NowIs DEF SameQueues
  <2>2. \A p \in Ports : p \notin active => blocked[p] = <<>>
    BY DEF Inv, Rights
  <2>3. Rights(held, active, ip_pset, blocked, pc', call')
    BY <1>1, <1>8, <2>2, RightsEnd DEF Places
  <2> QED
    BY <1>1, <2>1, <2>3
<1>13. Place(o, pc', call')
  <2> SUFFICES ASSUME NEW u \in Threads PROVE PlaceOf(o, pc', call', u)
    BY DEF Place
  <2>1. CASE u = t
    BY <2>1, <1>5, <1>6, <1>7, <1>8 DEF PlaceOf
  <2>2. CASE u # t
    <3>1. PlaceOf(Now, pc, call, u)
      BY DEF Inv, Place
    <3>2. o.ith[u] = ith[u] /\ o.wait[u] = W[u] /\ pc'[u] = pc[u] /\ call'[u] = call[u]
      BY <2>2, <1>6, <1>7
    <3>3. W[u] # "none" => wait[u] # "none"
      BY <1>3
    <3> QED
      BY <3>1, <3>2, <3>3, NowIs DEF PlaceOf
  <2> QED
    BY <2>1, <2>2
<1>14. Started(o, pc', call')
  <2> SUFFICES ASSUME NEW u \in Threads, o.wait[u] = "waiting"
               PROVE  \/ o.ith[u].state = "in_progress"
                      \/ \E v \in Threads : Starts(pc', call', v, u)
    BY DEF Started
  <2>1. u # t
    BY <1>6
  <2>2. W[u] = "waiting" /\ wait[u] = "waiting" /\ u # x
    BY <2>1, <1>3, <1>6
  <2>3. ith[u].state = "in_progress" \/ \E v \in Threads : Starts(pc, call, v, u)
    BY <2>2, NowIs DEF Inv, Started
  <2>4. \A v \in Threads : Starts(pc, call, v, u) => Starts(pc', call', v, u)
    BY <2>2, <1>7 DEF Starts
  <2> QED
    BY <2>1, <2>3, <2>4, <1>6
<1>15. Alone(o, pc', call')
  <2> SUFFICES ASSUME ~Multiprocessor
               PROVE  /\ \A v, u \in Threads : pc'[v] \in Between /\ pc'[u] \in Between => v = u
                      /\ \A v, u \in Threads : Starts(pc', call', u, v) => o.ith[v].state # "in_progress"
                      /\ \A v \in Threads : o.ith[v].state = "in_progress" => o.wait[v] # "awakened"
    BY DEF Alone
  <2>1. /\ \A v, u \in Threads : pc[v] \in Between /\ pc[u] \in Between => v = u
        /\ \A v, u \in Threads : Starts(pc, call, u, v) => ith[v].state # "in_progress"
        /\ \A v \in Threads : ith[v].state = "in_progress" => wait[v] # "awakened"
    BY NowIs DEF Inv, Alone
  <2>2. pc'[t] \notin Between /\ pc[t] \in Between
    BY <1>1, <1>7 DEF Between
  <2>3. \A u \in Threads : pc'[u] \notin Between
    BY <2>1, <2>2, <1>7
  <2>4. \A v, u \in Threads : ~Starts(pc', call', u, v)
    BY <2>3 DEF Starts, Between
  <2>5. ASSUME NEW v \in Threads, o.ith[v].state = "in_progress" PROVE o.wait[v] # "awakened"
    <3>1. v # t
      BY <2>5, <1>5, <1>6
    <3>2. ith[v].state = "in_progress" /\ o.wait[v] = W[v]
      BY <2>5, <3>1, <1>6
    <3>3. x # v
      <4>1. x = v => Starts(pc, call, t, v)
        BY <1>1 DEF Starts
      <4> QED
        BY <3>2, <4>1, <2>1
    <3> QED
      BY <3>2, <3>3, <1>3, <2>1
  <2> QED
    BY <2>3, <2>4, <2>5
<1> QED
  BY <1>1, <1>6, <1>9, <1>10, <1>11, <1>12, <1>13, <1>14, <1>15, InvAfter

-----------------------------------------------------------------------------
(* The senders that wait at a port.                                         *)

\* Those taken off ip_blocked are told to look again.
Roused(s, o, ts) ==
    /\ o \in State /\ SameQueues(s, o)
    /\ \A u \in Threads :
          /\ u \notin ts => o.ith[u] = s.ith[u] /\ o.wait[u] = s.wait[u]
          /\ u \in ts => o.ith[u].state = "success" /\ o.wait[u] = Go(s.wait[u])

LEMMA RouseIs == ASSUME NEW s \in State, NEW ts PROVE Roused(s, Rouse(s, ts), ts)
<1> DEFINE W == thread_go(s.wait, ts)
           I == [t \in Threads |-> IF t \in ts THEN [s.ith[t] EXCEPT !.state = "success"]
                                   ELSE s.ith[t]]
           o == Rouse(s, ts)
<1>0. StateTypes(s)
  BY Fields
<1>1. o = [s EXCEPT !.wait = W, !.ith = I]
  BY DEF Rouse
<1>2. /\ W \in [Threads -> Waiting]
      /\ \A u \in Threads : /\ u \notin ts => W[u] = s.wait[u]
                            /\ u \in ts => W[u] = Go(s.wait[u])
  <2>1. s.wait \in [Threads -> Waiting]
    BY <1>0 DEF StateTypes
  <2> QED
    BY <2>1, GoIs DEF Go
<1>3. /\ I \in [Threads -> Ith]
      /\ \A u \in Threads : /\ u \notin ts => I[u] = s.ith[u]
                            /\ u \in ts => I[u].state = "success"
  <2>1. ASSUME NEW u \in Threads
        PROVE  /\ [s.ith[u] EXCEPT !.state = "success"] \in Ith /\ s.ith[u] \in Ith
               /\ [s.ith[u] EXCEPT !.state = "success"].state = "success"
    <3>1. s.ith[u] \in Ith
      BY <1>0 DEF StateTypes
    <3> QED
      BY <3>1 DEF Ith
  <2> QED
    BY <2>1
<1> HIDE DEF W, I, o
<1>4. o \in State
  BY <1>0, <1>1, <1>2, <1>3, Zenon DEF State
<1>5. /\ o.ip_pset = s.ip_pset /\ o.messages = s.messages /\ o.receivers = s.receivers
      /\ o.wait = W /\ o.ith = I
  BY <1>0, <1>1, Zenon DEF State
<1> QED
  BY <1>2, <1>3, <1>4, <1>5 DEF Roused, SameQueues, o

\* b2 is b without ts, who wait at p.
Without(b, b2, p, ts) ==
    /\ \A r \in Ports \ {p} : b2[r] = b[r]
    /\ Once(b2[p])
    /\ \A u \in Threads : /\ Listed(b2[p], u) <=> Listed(b[p], u) /\ u \notin ts
                          /\ u \in ts => Listed(b[p], u)

\* The queues are in order after senders are roused, and only they notice.
Rousing(s, o, PC, CL, ACT, S, b2) ==
    /\ Good(o, PC, CL, ACT, S) /\ Sending(b2, o, PC, CL) /\ o.ip_pset = s.ip_pset
    /\ \A u \in Threads :
          \/ o.ith[u] = s.ith[u] /\ o.wait[u] = s.wait[u]
          \/ /\ PC[u] = "send_wait" /\ s.ith[u].state = "in_progress"
             /\ o.ith[u].state = "success" /\ o.wait[u] = Go(s.wait[u])

LEMMA RouseGood ==
    ASSUME NEW PC, NEW CL, NEW ACT, NEW S, NEW s, Good(s, PC, CL, ACT, S),
           NEW b, Sending(b, s, PC, CL), NEW b2, NEW p \in Ports, NEW ts,
           Without(b, b2, p, ts)
    PROVE  Rousing(s, Rouse(s, ts), PC, CL, ACT, S, b2)
<1> DEFINE o == Rouse(s, ts)
<1>0. Roused(s, o, ts)
  BY RouseIs DEF Good
<1> HIDE DEF o
<1>1. \A u \in Threads : u \in ts => Blocked(s, PC, CL, u, p)
  BY DEF Without, Sending
<1>2. \A u \in Threads :
          \/ o.ith[u] = s.ith[u] /\ o.wait[u] = s.wait[u]
          \/ /\ PC[u] = "send_wait" /\ s.ith[u].state = "in_progress"
             /\ o.ith[u].state = "success" /\ o.wait[u] = Go(s.wait[u])
  BY <1>0, <1>1 DEF Roused, Blocked
<1>3. Good(o, PC, CL, ACT, S)
  <2>1. \A u \in Threads, q \in Queues : Waits(s, PC, CL, u, q) <=> Waits(o, PC, CL, u, q)
    BY <1>2 DEF Waits
  <2> QED
    BY <1>0, <2>1, GoodStep DEF Roused
<1>4. Sending(b2, o, PC, CL)
  <2> SUFFICES ASSUME NEW r \in Ports
               PROVE  /\ Once(b2[r])
                      /\ \A u \in Threads : Listed(b2[r], u) <=> Blocked(o, PC, CL, u, r)
    BY DEF Sending
  <2>1. Once(b[r]) /\ \A u \in Threads : Listed(b[r], u) <=> Blocked(s, PC, CL, u, r)
    BY DEF Sending
  <2>2. CASE r = p
    <3>1. \A u \in Threads : Blocked(o, PC, CL, u, r) <=> Blocked(s, PC, CL, u, r) /\ u \notin ts
      BY <1>0 DEF Roused, Blocked
    <3> QED
      BY <2>1, <2>2, <3>1 DEF Without
  <2>3. CASE r # p
    <3>1. \A u \in Threads : CL[u].obj = r => u \notin ts
      BY <1>1, <2>3 DEF Blocked
    <3>2. \A u \in Threads : Blocked(o, PC, CL, u, r) <=> Blocked(s, PC, CL, u, r)
      BY <1>0, <3>1 DEF Roused, Blocked
    <3> QED
      BY <2>1, <2>3, <3>2 DEF Without
  <2> QED
    BY <2>2, <2>3
<1> QED
  BY <1>0, <1>2, <1>3, <1>4 DEF Rousing, Roused, SameQueues, o

\* All of them leave.
LEMMA WithoutAll ==
    ASSUME NEW b \in [Ports -> Seq(Threads)], NEW p \in Ports
    PROVE  Without(b, [b EXCEPT ![p] = <<>>], p, ToSet(b[p]))
<1>1. \A u : u \in ToSet(b[p]) <=> Listed(b[p], u)
  BY ToSetIs
<1>2. Once(<<>>) /\ \A u : ~Listed(<<>>, u)
  BY DEF Once, Listed
<1> QED
  BY <1>1, <1>2 DEF Without

\* The first of them leaves.
LEMMA WithoutHead ==
    ASSUME NEW b \in [Ports -> Seq(Threads)], NEW p \in Ports, b[p] # <<>>, Once(b[p])
    PROVE  /\ Without(b, [b EXCEPT ![p] = Tail(@)], p, {Head(b[p])})
           /\ [b EXCEPT ![p] = Tail(@)] \in [Ports -> Seq(Threads)]
<1>1. /\ Tail(b[p]) \in Seq(Threads) /\ Listed(b[p], Head(b[p])) /\ Once(Tail(b[p]))
      /\ \A y : Listed(Tail(b[p]), y) <=> Listed(b[p], y) /\ y # Head(b[p])
  <2>1. b[p] \in Seq(Threads)
    OBVIOUS
  <2> QED
    BY <2>1, ListedTail
<1> QED
  BY <1>1 DEF Without

\* The first n of them leave.
LEMMA WithoutFirst ==
    ASSUME NEW b \in [Ports -> Seq(Threads)], NEW p \in Ports, Once(b[p]),
           NEW n \in 0 .. Len(b[p])
    PROVE  /\ Without(b, [b EXCEPT ![p] = SubSeq(@, n + 1, Len(@))], p,
                      ToSet(SubSeq(b[p], 1, n)))
           /\ [b EXCEPT ![p] = SubSeq(@, n + 1, Len(@))] \in [Ports -> Seq(Threads)]
<1> DEFINE l == b[p]
           N == Len(l)
           rest == SubSeq(l, n + 1, N)
           first == SubSeq(l, 1, n)
<1>1. l \in Seq(Threads) /\ N \in Nat /\ n \in Nat /\ n + 1 \in 1 .. N + 1 /\ n <= N
  <2>1. l \in Seq(Threads)
    OBVIOUS
  <2>2. N \in Nat
    BY <2>1
  <2> HIDE DEF N
  <2> QED
    BY <2>1, <2>2, SMT DEF N
<1>2. /\ rest \in Seq(Threads) /\ Once(rest)
      /\ \A y : Listed(rest, y) <=> \E j \in n + 1 .. N : l[j] = y
  BY <1>1, ListedRest
<1>3. first \in Seq(Threads) /\ Len(first) = n /\ \A j \in 1 .. n : first[j] = l[j]
  <2>1. \A j \in 1 .. n : j \in 1 .. N
    BY <1>1, SMT
  <2> HIDE DEF l
  <2>2. first \in Seq(Threads) /\ Len(first) = n
    BY <1>1, <2>1, SMT DEF N
  <2>3. \A j \in 1 .. n : first[j] = l[j]
    BY <1>1, <2>1, SMT
  <2> QED
    BY <2>2, <2>3
<1>4. \A y : y \in ToSet(first) <=> \E j \in 1 .. n : l[j] = y
  <2>1. \A y : y \in ToSet(first) <=> Listed(first, y)
    BY <1>3, ToSetIs
  <2> QED
    BY <1>3, <2>1 DEF Listed
<1>5. \A y : Listed(l, y) <=> \E j \in 1 .. N : l[j] = y
  BY DEF Listed
<1>6. \A i, j \in 1 .. N : l[i] = l[j] => i = j
  BY DEF Once
<1> HIDE DEF l, N, rest, first
<1>7. ASSUME NEW y
      PROVE  /\ Listed(rest, y) <=> Listed(l, y) /\ y \notin ToSet(first)
             /\ y \in ToSet(first) => Listed(l, y)
  <2>1. \A j \in 1 .. N : j \in 1 .. n \/ j \in n + 1 .. N
    BY <1>1, SMT
  <2>2. \A j \in 1 .. n : j \in 1 .. N /\ j \notin n + 1 .. N
    BY <1>1, SMT
  <2>3. \A j \in n + 1 .. N : j \in 1 .. N
    BY <1>1, SMT
  <2> QED
    BY <1>2, <1>4, <1>5, <1>6, <2>1, <2>2, <2>3
<1> QED
  BY <1>2, <1>7 DEF Without, l, N, rest, first

-----------------------------------------------------------------------------
(* The steps of ipc_mqueue_receive.                                         *)

\* A thread's call ends, or goes on with a message in hand, after what the
\* routines made of the queues.
Finishes(t, s, to, c) ==
    /\ pc[t] # "send_go" /\ to \in {"user", "rcv_got"}
    /\ c \in Call /\ ~c.circ /\ (to = "rcv_got" => c.obj \in Ports)
    /\ Commit([s EXCEPT !.ith[t] = Idle, !.wait[t] = "none"])
    /\ pc' = [pc EXCEPT ![t] = to] /\ call' = [call EXCEPT ![t] = c]
    /\ Good(s, Awake(t), call, Live, {}) /\ Sending(blocked', s, Awake(t), call)
    /\ \A p \in Ports : s.ip_pset[p] # Null => ip_pset[p] # Null
    /\ \A u \in Threads \ {t} : Effect(Now, s, pc, u, {})
    /\ ~Multiprocessor => \A u \in Threads \ {t} : pc[u] \notin Between
    /\ UNCHANGED <<active, held, backups, qlimit>>
    /\ msgcount' \in [Ports -> Int] /\ blocked' \in [Ports -> Seq(Threads)]
    /\ \A p \in Ports : p \notin active => blocked'[p] = <<>>

LEMMA FinishStep ==
    ASSUME Inv, NEW t \in Threads, NEW s, NEW to, NEW c, Finishes(t, s, to, c)
    PROVE  Inv'
<1> USE DEF Finishes
<1>1. Types'
  BY TypesAfter DEF Inv, Types, Places
<1>2. Rights(held', active', s.ip_pset, blocked', pc', call')
  <2>1. Rights(held, active, s.ip_pset, blocked', pc', call')
    BY RightsEnd DEF Places
  <2> QED
    BY <2>1
<1>3. Live' = Live
  BY DEF Live
<1>4. Ends(t, s, {}, to, c)
  BY <1>2, <1>3 DEF Ends
<1> QED
  BY <1>1, <1>4, EndStep

\* The receiver has the message, and there is room for a sender.
LEMMA RcvFinishOK == ASSUME Inv, NEW t \in Threads, RcvFinish(t) PROVE Inv'
<1> DEFINE p == call[t].obj
           x == Head(blocked[p])
           n == msgcount[p] - 1
           s == Rouse(Now, {x})
<1>1. pc[t] = "rcv_got" /\ UNCHANGED <<active, held, backups, qlimit>>
  BY DEF RcvFinish
<1>2. p \in Ports
  <2>1. PlaceOf(Now, pc, call, t)
    BY DEF Inv, Place
  <2> QED
    BY <1>1, <2>1 DEF PlaceOf
<1>3. /\ Good(Now, Awake(t), call, Live, {}) /\ Sending(blocked, Now, Awake(t), call)
      /\ blocked \in [Ports -> Seq(Threads)] /\ \A r \in Ports : r \notin active => blocked[r] = <<>>
      /\ msgcount \in [Ports -> Int] /\ [msgcount EXCEPT ![p] = n] \in [Ports -> Int]
  <2>1. Good(Now, Awake(t), call, Live, {}) /\ Sending(blocked, Now, Awake(t), call)
    BY <1>1, GoodAwake, SendingAwake
  <2>2. blocked \in [Ports -> Seq(Threads)] /\ msgcount \in [Ports -> Int]
    BY DEF Inv, Types
  <2>3. n \in Int
    BY <1>2, <2>2, SMT
  <2> HIDE DEF n
  <2>4. [msgcount EXCEPT ![p] = n] \in [Ports -> Int]
    BY <2>2, <2>3
  <2> QED
    BY <2>1, <2>2, <2>4 DEF Inv, Rights
<1>4. ~Multiprocessor => \A u \in Threads \ {t} : pc[u] \notin Between
  BY <1>1, NowIs DEF Inv, Alone, Between
<1>5. NoCall \in Call /\ ~NoCall.circ
  BY NoCallIs
<1>6. ASSUME Return(t, Now), UNCHANGED blocked, msgcount' \in [Ports -> Int] PROVE Inv'
  <2>1. \A u \in Threads \ {t} : Effect(Now, Now, pc, u, {})
    BY NoEffect
  <2>2. Finishes(t, Now, "user", NoCall)
    BY <1>1, <1>3, <1>4, <1>5, <1>6, <2>1, NowIs DEF Finishes, Return
  <2> QED
    BY <2>2, FinishStep
<1>7. ASSUME p \in active, blocked[p] # <<>>, Return(t, s),
             blocked' = [blocked EXCEPT ![p] = Tail(@)], msgcount' = [msgcount EXCEPT ![p] = n]
      PROVE  Inv'
  <2>1. Once(blocked[p])
    BY <1>2, <1>3 DEF Sending
  <2>2. Without(blocked, blocked', p, {x}) /\ blocked' \in [Ports -> Seq(Threads)]
    BY <1>2, <1>3, <1>7, <2>1, WithoutHead
  <2>3. Rousing(Now, s, Awake(t), call, Live, {}, blocked')
    BY <1>2, <1>3, <2>2, RouseGood
  <2>4. \A r \in Ports : r \notin active => blocked'[r] = <<>>
    BY <1>3, <1>7
  <2>5. Return(t, s) /\ msgcount' \in [Ports -> Int]
    BY <1>3, <1>7
  <2> HIDE DEF s
  <2>6. \A u \in Threads \ {t} : Awake(t)[u] = pc[u]
    BY DEF Awake, Inv, Types
  <2>7. \A u \in Threads \ {t} : Effect(Now, s, pc, u, {})
    BY <2>3, <2>6 DEF Effect, Rousing
  <2>8. Finishes(t, s, "user", NoCall)
    BY <1>1, <1>3, <1>4, <1>5, <2>2, <2>3, <2>4, <2>5, <2>7, NowIs DEF Finishes, Return, Rousing
  <2> QED
    BY <2>8, FinishStep
<1>8. \/ /\ p \in active /\ blocked[p] # <<>> /\ Return(t, s)
         /\ blocked' = [blocked EXCEPT ![p] = Tail(@)] /\ msgcount' = [msgcount EXCEPT ![p] = n]
      \/ /\ Return(t, Now) /\ UNCHANGED blocked
         /\ msgcount' = [msgcount EXCEPT ![p] = n] \/ UNCHANGED msgcount
  BY DEF RcvFinish
<1> QED
  BY <1>3, <1>6, <1>7, <1>8

\* imq_threads without t.
Off(t) == [Now EXCEPT !.receivers[call[t].obj] = Sublist(@, Threads \ {t})]

LEMMA OffGood ==
    ASSUME Inv, NEW t \in Threads, pc[t] = "rcv_wait", ith[t].state = "in_progress"
    PROVE  /\ Good(Off(t), Awake(t), call, Live, {})
           /\ Off(t).ip_pset = ip_pset /\ Off(t).ith = ith /\ Off(t).wait = wait
           /\ call[t].obj \in Live \cap Queues
           /\ call[t].obj \in Ports => ip_pset[call[t].obj] = Null
<1> DEFINE q == call[t].obj
           rs == Sublist(receivers[q], Threads \ {t})
           R == [receivers EXCEPT ![q] = rs]
           o == Off(t)
<1>0. /\ Now \in State /\ StateTypes(Now) /\ Receiving(Now, pc, call) /\ Consistent(Now, Live)
      /\ Apart(Now, {}) /\ Own(Now) /\ q \in Queues
  <2>1. PlaceOf(Now, pc, call, t)
    BY DEF Inv, Place
  <2> QED
    BY <2>1, Fields DEF Inv, Good, PlaceOf
<1>1. receivers[q] \in Seq(Threads) /\ Once(receivers[q]) /\ Listed(receivers[q], t)
  BY <1>0, NowIs DEF StateTypes, Receiving
<1>2. receivers[q] # <<>>
  BY <1>1, NotListed
<1>3. q \in Live /\ messages[q] = <<>> /\ (q \in Ports => ip_pset[q] = Null)
  BY <1>0, <1>2, NowIs DEF Consistent, Apart
<1>4. /\ rs \in Seq(Threads) /\ Once(rs)
      /\ \A u : Listed(rs, u) <=> u \in Threads \ {t} /\ Listed(receivers[q], u)
  BY <1>1, SublistMembers, SublistOnce
<1>5. o = [Now EXCEPT !.receivers = R]
  BY NowIs DEF Off
<1> HIDE DEF rs, o
<1>6. R \in [Queues -> Seq(Threads)] /\ R[q] = rs /\ \A x \in Queues \ {q} : R[x] = receivers[x]
  BY <1>0, <1>4, NowIs DEF StateTypes
<1> HIDE DEF R
<1>7. o \in State
  BY <1>0, <1>5, <1>6, Zenon DEF State
<1>8. /\ o.ip_pset = Now.ip_pset /\ o.messages = Now.messages /\ o.receivers = R
      /\ o.wait = Now.wait /\ o.ith = Now.ith
  BY <1>0, <1>5, Zenon DEF State
<1>9. Awake(t)[t] = "user" /\ \A u \in Threads \ {t} : Awake(t)[u] = pc[u]
  BY DEF Inv, Types, Awake
<1> HIDE DEF q
<1>10. Receiving(o, Awake(t), call)
  <2> SUFFICES ASSUME NEW x \in Queues
               PROVE  /\ Once(o.receivers[x])
                      /\ \A u \in Threads : Listed(o.receivers[x], u) <=>
                           Awake(t)[u] = "rcv_wait" /\ call[u].obj = x /\ o.ith[u].state = "in_progress"
    BY DEF Receiving
  <2>1. /\ Once(receivers[x])
        /\ \A u \in Threads : Listed(receivers[x], u) <=>
              pc[u] = "rcv_wait" /\ call[u].obj = x /\ ith[u].state = "in_progress"
    BY <1>0, NowIs DEF Receiving
  <2>2. CASE x = q
    BY <2>1, <2>2, <1>4, <1>6, <1>8, <1>9, NowIs
  <2>3. CASE x # q
    <3>1. ~Listed(receivers[x], t)
      BY <2>1, <2>3 DEF q
    <3> QED
      BY <2>1, <2>3, <3>1, <1>6, <1>8, <1>9, NowIs
  <2> QED
    BY <2>2, <2>3
<1>11. Consistent(o, Live) /\ Apart(o, {}) /\ Own(o)
  <2>1. \A x \in Ports : x \in Queues
    BY DEF Queues
  <2>2. Consistent(o, Live)
    BY <1>0, <1>3, <1>6, <1>8, NowIs DEF Consistent
  <2>3. Apart(o, {})
    BY <1>0, <1>3, <1>6, <1>8, <2>1, NowIs DEF Apart
  <2>4. Own(o)
    BY <1>0, <1>8 DEF Own
  <2> QED
    BY <2>2, <2>3, <2>4
<1> QED
  BY <1>0, <1>3, <1>7, <1>8, <1>10, <1>11, NowIs DEF Good, o, q

\* A message leaves the queue.
Dequeued(s, o, PC, CL, ACT, S) ==
    /\ Good(o, PC, CL, ACT, S) /\ o.ip_pset = s.ip_pset /\ o.receivers = s.receivers
    /\ o.ith = s.ith /\ o.wait = s.wait

LEMMA TailGood ==
    ASSUME NEW PC, NEW CL, NEW ACT, NEW S, NEW s, Good(s, PC, CL, ACT, S),
           NEW q \in Queues, s.messages[q] # <<>>,
           NEW N \in [Ports -> 0 .. SeqnoMod - 1]
    PROVE  Dequeued(s, [s EXCEPT !.messages[q] = Tail(@), !.seqno = N], PC, CL, ACT, S)
<1> DEFINE o == [s EXCEPT !.messages[q] = Tail(@), !.seqno = N]
           M == [s.messages EXCEPT ![q] = Tail(@)]
<1>0. s \in State /\ StateTypes(s) /\ Receiving(s, PC, CL) /\ Consistent(s, ACT) /\ Apart(s, S) /\ Own(s)
  BY Fields DEF Good
<1>1. o = [s EXCEPT !.messages = M, !.seqno = N]
  OBVIOUS
<1> HIDE DEF o
<1>2. /\ Tail(s.messages[q]) \in Seq(Message)
      /\ \A m : Listed(Tail(s.messages[q]), m) => Listed(s.messages[q], m)
  <2>1. s.messages[q] \in Seq(Message)
    BY <1>0 DEF StateTypes
  <2> QED
    BY <2>1, ListedTail
<1>3. /\ M \in [Queues -> Seq(Message)] /\ \A x \in Queues \ {q} : M[x] = s.messages[x]
      /\ \A m : Listed(M[q], m) => Listed(s.messages[q], m)
  BY <1>0, <1>2 DEF StateTypes
<1> HIDE DEF M
<1>4. o \in State
  BY <1>0, <1>1, <1>3, Zenon DEF State
<1>5. /\ o.ip_pset = s.ip_pset /\ o.messages = M /\ o.receivers = s.receivers
      /\ o.wait = s.wait /\ o.ith = s.ith
  BY <1>0, <1>1, Zenon DEF State
<1>6. Receiving(o, PC, CL)
  BY <1>0, <1>5 DEF Receiving
<1>7. Consistent(o, ACT)
  BY <1>0, <1>3, <1>5 DEF Consistent
<1>8. \A x \in Ports : x \in Queues
  BY DEF Queues
<1>9. Apart(o, S)
  <2> SUFFICES ASSUME NEW x \in Ports \ S, s.ip_pset[x] # Null
               PROVE  o.messages[x] = <<>> /\ o.receivers[x] = <<>>
    BY <1>5 DEF Apart
  <2>1. s.messages[x] = <<>> /\ s.receivers[x] = <<>>
    BY <1>0 DEF Apart
  <2>2. x # q
    BY <2>1
  <2> QED
    BY <2>1, <2>2, <1>3, <1>5, <1>8
<1>10. Own(o)
  <2> SUFFICES ASSUME NEW x \in Ports, NEW i \in 1 .. Len(o.messages[x])
               PROVE  o.messages[x][i].port = x
    BY DEF Own
  <2>1. CASE x # q
    <3>1. o.messages[x] = s.messages[x]
      BY <2>1, <1>3, <1>5, <1>8
    <3> QED
      BY <3>1, <1>0 DEF Own
  <2>2. CASE x = q
    <3>1. Listed(M[q], o.messages[x][i])
      BY <2>2, <1>5 DEF Listed
    <3>2. Listed(s.messages[x], o.messages[x][i])
      BY <2>2, <3>1, <1>3
    <3> QED
      BY <3>2, <1>0 DEF Own, Listed
  <2> QED
    BY <2>1, <2>2
<1> QED
  BY <1>4, <1>5, <1>6, <1>7, <1>9, <1>10 DEF Good, Dequeued, o

\* t may receive from q, when the queues are as in s.
RcvReady(t, c, s) ==
    /\ pc[t] \in {"user", "rcv_wait"} /\ c \in Call /\ ~c.circ
    /\ c.obj \in Queues \cap Live /\ (c.obj \in Ports => s.ip_pset[c.obj] = Null)
    /\ Good(s, Awake(t), call, Live, {})
    /\ Sending(blocked, s, Awake(t), call)
    /\ \A p \in Ports : s.ip_pset[p] # Null => ip_pset[p] # Null
    /\ \A u \in Threads \ {t} : Effect(Now, s, pc, u, {})
    /\ ~Multiprocessor => \A u \in Threads \ {t} : pc[u] \notin Between

\* The queue is empty, and the receiver waits.
LEMMA RcvBlockOK ==
    ASSUME Inv, NEW t \in Threads, NEW c, NEW s, RcvReady(t, c, s),
           s.messages[c.obj] = <<>>,
           Block(t, [s EXCEPT !.receivers[c.obj] = Append(@, t),
                              !.ith[t] = [@ EXCEPT !.state = "in_progress",
                                                   !.msize = c.size]], c, "rcv_wait"),
           UNCHANGED <<active, held, backups, msgcount, qlimit, blocked>>
    PROVE  Inv'
<1> DEFINE q == c.obj
           i == [s.ith[t] EXCEPT !.state = "in_progress", !.msize = c.size]
           R == [s.receivers EXCEPT ![q] = Append(@, t)]
           r == [s EXCEPT !.receivers = R]
           o == [r EXCEPT !.ith[t] = i, !.wait[t] = "waiting"]
<1>0. /\ s \in State /\ StateTypes(s) /\ q \in Queues /\ c \in Call
      /\ Receiving(s, Awake(t), call) /\ Consistent(s, Live) /\ Apart(s, {}) /\ Own(s)
  BY Fields DEF Good, RcvReady
<1>1. Commit(o) /\ pc' = [pc EXCEPT ![t] = "rcv_wait"] /\ call' = [call EXCEPT ![t] = c]
  BY DEF Block
<1>2. i \in Ith /\ i.state = "in_progress" /\ "waiting" \in Waiting
  <2>1. s.ith[t] \in Ith /\ c.size \in Sizes \cup {0}
    BY <1>0 DEF StateTypes, Call
  <2> QED
    BY <2>1 DEF Ith, Waiting
<1>3. Awake(t)[t] = "user" /\ \A u \in Threads \ {t} : Awake(t)[u] = pc[u]
  BY DEF Inv, Types, Awake
<1>4. /\ s.receivers[q] \in Seq(Threads) /\ Once(s.receivers[q]) /\ ~Listed(s.receivers[q], t)
  BY <1>0, <1>3 DEF StateTypes, Receiving
<1>5. /\ Append(s.receivers[q], t) \in Seq(Threads) /\ Once(Append(s.receivers[q], t))
      /\ \A u : Listed(Append(s.receivers[q], t), u) <=> Listed(s.receivers[q], u) \/ u = t
  BY <1>4, ListedAppend
<1>6. /\ R \in [Queues -> Seq(Threads)] /\ R[q] = Append(s.receivers[q], t)
      /\ \A x \in Queues \ {q} : R[x] = s.receivers[x]
  BY <1>0, <1>5 DEF StateTypes
<1> HIDE DEF i, R
<1>7. /\ r \in State /\ r.ip_pset = s.ip_pset /\ r.messages = s.messages /\ r.receivers = R
      /\ r.ith = s.ith /\ r.wait = s.wait
  <2>1. r = [s EXCEPT !.receivers = R]
    OBVIOUS
  <2> HIDE DEF r
  <2>2. r \in State
    BY <1>0, <1>6, <2>1, Zenon DEF State
  <2>3. /\ r.ip_pset = s.ip_pset /\ r.messages = s.messages /\ r.receivers = R
        /\ r.ith = s.ith /\ r.wait = s.wait
    BY <1>0, <2>1, Zenon DEF State
  <2> QED
    BY <2>2, <2>3
<1> HIDE DEF r
<1>8. /\ o \in State /\ o.ip_pset = s.ip_pset /\ o.messages = s.messages /\ o.receivers = R
      /\ o.ith[t].state = "in_progress" /\ o.wait[t] = "waiting"
      /\ \A u \in Threads \ {t} : o.ith[u] = s.ith[u] /\ o.wait[u] = s.wait[u]
  <2>1. ThreadSet(r, o, t, i, "waiting")
    BY <1>2, <1>7, ThreadIs
  <2> QED
    BY <1>2, <1>7, <2>1 DEF ThreadSet, SameQueues
<1> HIDE DEF o, q
<1>9. /\ pc'[t] = "rcv_wait" /\ call'[t] = c
      /\ \A u \in Threads \ {t} : pc'[u] = pc[u] /\ call'[u] = call[u]
  BY <1>1 DEF Inv, Types
<1>10. Receiving(o, pc', call')
  <2> SUFFICES ASSUME NEW x \in Queues
               PROVE  /\ Once(o.receivers[x])
                      /\ \A u \in Threads : Listed(o.receivers[x], u) <=>
                           pc'[u] = "rcv_wait" /\ call'[u].obj = x /\ o.ith[u].state = "in_progress"
    BY DEF Receiving
  <2>1. /\ Once(s.receivers[x])
        /\ \A u \in Threads : Listed(s.receivers[x], u) <=>
              Awake(t)[u] = "rcv_wait" /\ call[u].obj = x /\ s.ith[u].state = "in_progress"
    BY <1>0 DEF Receiving
  <2>2. CASE x = q
    <3>1. /\ call'[t].obj = x /\ pc'[t] = "rcv_wait" /\ o.ith[t].state = "in_progress"
          /\ o.receivers[x] = Append(s.receivers[x], t)
      BY <2>2, <1>6, <1>8, <1>9 DEF q
    <3>2. \A u \in Threads \ {t} :
             /\ Awake(t)[u] = pc'[u] /\ call[u] = call'[u] /\ s.ith[u] = o.ith[u]
      BY <1>3, <1>8, <1>9
    <3>3. \A u : Listed(o.receivers[x], u) <=> Listed(s.receivers[x], u) \/ u = t
      BY <2>2, <3>1, <1>5
    <3>4. Once(o.receivers[x])
      BY <2>2, <3>1, <1>5
    <3> QED
      BY <2>1, <3>1, <3>2, <3>3, <3>4
  <2>3. CASE x # q
    <3>1. call'[t].obj # x /\ ~Listed(s.receivers[x], t)
      BY <2>1, <2>3, <1>3, <1>9 DEF q
    <3>2. o.receivers[x] = s.receivers[x]
      BY <2>3, <1>6, <1>8
    <3>3. \A u \in Threads \ {t} :
             /\ Awake(t)[u] = pc'[u] /\ call[u] = call'[u] /\ s.ith[u] = o.ith[u]
      BY <1>3, <1>8, <1>9
    <3> QED
      BY <2>1, <3>1, <3>2, <3>3
  <2> QED
    BY <2>2, <2>3
<1>11. Consistent(o, Live) /\ Apart(o, {}) /\ Own(o)
  <2>1. q \in Live /\ s.messages[q] = <<>> /\ (q \in Ports => s.ip_pset[q] = Null)
    BY DEF q, RcvReady
  <2>2. \A x \in Ports : x \in Queues
    BY DEF Queues
  <2>3. Consistent(o, Live)
    BY <1>0, <1>6, <1>8, <2>1 DEF Consistent
  <2>4. Apart(o, {})
    BY <1>0, <1>6, <1>8, <2>1, <2>2 DEF Apart
  <2>5. Own(o)
    BY <1>0, <1>8 DEF Own
  <2> QED
    BY <2>3, <2>4, <2>5
<1>12. Good(o, pc', call', Live', {})
  <2>1. Live' = Live
    BY DEF Live
  <2> QED
    BY <1>8, <1>10, <1>11, <2>1 DEF Good
<1>13. Sending(blocked', o, pc', call')
  <2>1. \A u \in Threads, p \in Ports : Blocked(s, Awake(t), call, u, p) <=> Blocked(o, pc', call', u, p)
    BY <1>3, <1>8, <1>9 DEF Blocked
  <2> QED
    BY <2>1, SendingStep DEF RcvReady
<1>14. \A u \in Threads \ {t} : Effect(Now, o, pc, u, {})
  BY <1>8 DEF Effect, RcvReady
<1>15. Types'
  BY <1>0, <1>1, TypesAfter DEF Inv, Types, Places
<1>16. Rights(held', active', o.ip_pset, blocked', pc', call')
  <2>1. Rights(held, active, o.ip_pset, blocked, pc', call')
    <3>1. \A p \in Ports : p \notin active => blocked[p] = <<>>
      BY DEF Inv, Rights
    <3>2. \A p \in Ports : o.ip_pset[p] # Null => ip_pset[p] # Null
      BY <1>8 DEF RcvReady
    <3> QED
      BY <1>1, <3>1, <3>2, RightsEnd DEF Places, RcvReady
  <2> QED
    BY <2>1
<1>17. BeginsToWait(t, o, "rcv_wait", c)
  BY <1>0, <1>1, <1>8, <1>12, <1>13, <1>14, <1>16 DEF BeginsToWait, RcvReady, q
<1> QED
  BY <1>15, <1>17, WaitStep

\* The loop of ipc_mqueue_receive.
LEMMA RcvLoopOK ==
    ASSUME Inv, NEW t \in Threads, NEW c, NEW s, RcvReady(t, c, s), RcvLoop(t, c, s),
           UNCHANGED <<active, held, backups, msgcount, qlimit, blocked>>
    PROVE  Inv'
<1> DEFINE q == c.obj
           m == Head(s.messages[q])
           N == [s.seqno EXCEPT ![m.port] = Next1(@)]
           o == [s EXCEPT !.messages[q] = Tail(@), !.seqno[m.port] = Next1(@)]
           d == [NoCall EXCEPT !.obj = m.port]
<1>0. s \in State /\ StateTypes(s) /\ q \in Queues
  BY Fields DEF Good, RcvReady
<1>1. /\ blocked \in [Ports -> Seq(Threads)] /\ msgcount \in [Ports -> Int]
      /\ \A r \in Ports : r \notin active => blocked[r] = <<>>
  BY DEF Inv, Types, Rights
<1>2. NoCall \in Call /\ ~NoCall.circ
  BY NoCallIs
<1>3. ASSUME Return(t, s) PROVE Inv'
  <2>1. Finishes(t, s, "user", NoCall)
    BY <1>1, <1>2, <1>3 DEF Finishes, Return, RcvReady
  <2> QED
    BY <2>1, FinishStep
<1>4. ASSUME s.messages[q] # <<>>, Proceed(t, o, "rcv_got", m.port) PROVE Inv'
  <2>1. m.port \in Ports
    <3>1. s.messages[q] \in Seq(Message)
      BY <1>0 DEF StateTypes
    <3>2. m \in Message
      BY <3>1, <1>4, ListedTail
    <3> QED
      BY <3>2 DEF Message
  <2>2. N \in [Ports -> 0 .. SeqnoMod - 1]
    <3>1. s.seqno \in [Ports -> 0 .. SeqnoMod - 1]
      BY <1>0 DEF StateTypes
    <3>2. Next1(s.seqno[m.port]) \in 0 .. SeqnoMod - 1
      BY <2>1, <3>1, Next1Is
    <3> QED
      BY <3>1, <3>2, Zenon
  <2>3. o = [s EXCEPT !.messages[q] = Tail(@), !.seqno = N]
    OBVIOUS
  <2>4. d \in Call /\ ~d.circ /\ d.obj \in Ports
    <3>1. m.port \in Queues \cup Threads
      BY <2>1 DEF Queues
    <3> QED
      BY <2>1, <3>1, NoCallIs
  <2>5. /\ Commit([o EXCEPT !.ith[t] = Idle, !.wait[t] = "none"])
        /\ pc' = [pc EXCEPT ![t] = "rcv_got"] /\ call' = [call EXCEPT ![t] = d]
    BY <1>4 DEF Proceed
  <2> HIDE DEF N, o, d
  <2>6. Good(s, Awake(t), call, Live, {})
    BY DEF RcvReady
  <2> HIDE DEF q, m
  <2>7. /\ Good(o, Awake(t), call, Live, {}) /\ o.ip_pset = s.ip_pset /\ o.receivers = s.receivers
        /\ o.ith = s.ith /\ o.wait = s.wait
    <3>1. Dequeued(s, o, Awake(t), call, Live, {})
      BY <1>0, <1>4, <2>2, <2>3, <2>6, TailGood
    <3> QED
      BY <3>1 DEF Dequeued
  <2>8. Sending(blocked, o, Awake(t), call)
    <3>1. \A u \in Threads, p \in Ports :
             Blocked(s, Awake(t), call, u, p) <=> Blocked(o, Awake(t), call, u, p)
      BY <2>7 DEF Blocked
    <3> QED
      BY <3>1, SendingStep DEF RcvReady
  <2>9. \A u \in Threads \ {t} : Effect(Now, o, pc, u, {})
    BY <2>7 DEF Effect, RcvReady
  <2> USE DEF q, m
  <2>10. Finishes(t, o, "rcv_got", d)
    BY <1>1, <2>4, <2>5, <2>7, <2>8, <2>9 DEF Finishes, RcvReady
  <2> QED
    BY <2>10, FinishStep
<1>5. ASSUME s.messages[q] = <<>>,
             Block(t, [s EXCEPT !.receivers[q] = Append(@, t),
                                !.ith[t] = [@ EXCEPT !.state = "in_progress",
                                                     !.msize = c.size]], c, "rcv_wait")
      PROVE  Inv'
  BY <1>5, RcvBlockOK
<1>6. \/ Return(t, s)
      \/ s.messages[q] # <<>> /\ Proceed(t, o, "rcv_got", m.port)
      \/ /\ s.messages[q] = <<>>
         /\ Block(t, [s EXCEPT !.receivers[q] = Append(@, t),
                                !.ith[t] = [@ EXCEPT !.state = "in_progress",
                                                     !.msize = c.size]], c, "rcv_wait")
  BY DEF RcvLoop
<1> QED
  BY <1>3, <1>4, <1>5, <1>6

\* A receive begins.
LEMMA ReceiveOK == ASSUME Inv, NEW t \in Threads, ipc_mqueue_receive(t) PROVE Inv'
<1>1. /\ pc[t] = "user" /\ Turn(t)
      /\ UNCHANGED <<active, held, backups, msgcount, qlimit, blocked>>
  BY DEF ipc_mqueue_receive
<1>2. PICK q \in Queues, n \in Sizes, p \in Options \ {"always"} :
          /\ MayReceive(q)
          /\ RcvLoop(t, [obj |-> q, size |-> n, opt |-> p, circ |-> FALSE],
                     IF q \in Ports THEN LeaveDeadSet(Now, q) ELSE Now)
  BY DEF ipc_mqueue_receive
<1> DEFINE c == [obj |-> q, size |-> n, opt |-> p, circ |-> FALSE]
           s == IF q \in Ports THEN LeaveDeadSet(Now, q) ELSE Now
<1>3. c \in Call /\ ~c.circ /\ c.obj = q
  BY DEF Call
<1>4. RcvLoop(t, c, s)
  BY <1>2
<1>5. Good(Now, Awake(t), call, Live, {}) /\ Sending(blocked, Now, Awake(t), call)
  BY <1>1, GoodAwake, SendingAwake
<1>6. /\ Good(s, Awake(t), call, Live, {}) /\ Told(Now, s, Awake(t), {})
      /\ \A r \in Ports : s.ip_pset[r] # Null => ip_pset[r] # Null
      /\ q \in Ports => s.ip_pset[q] = Null
      /\ q \in Live
  <2>0. ip_pset \in [Ports -> Psets \cup {Null}]
    BY Fields, NowIs DEF Inv, Good, StateTypes
  <2>1. q \in Live
    BY <1>2 DEF MayReceive, Live
  <2>2. CASE q \in Ports
    <3>1. s = LeaveDeadSet(Now, q)
      BY <2>2
    <3>2. ip_pset[q] # Null => ip_pset[q] \notin active
      BY <1>2, <2>2, ObjectsAssumption DEF MayReceive, ObjectsAssumption
    <3> HIDE DEF s
    <3>3. /\ Good(s, Awake(t), call, Live, {}) /\ Told(Now, s, Awake(t), {})
          /\ s.ip_pset = ip_pset \/ s.ip_pset = [ip_pset EXCEPT ![q] = Null]
          /\ ip_pset[q] \notin active => s.ip_pset[q] = Null
      BY <1>5, <2>2, <3>1, LeaveGood, NowIs
    <3> QED
      BY <2>0, <2>1, <2>2, <3>2, <3>3
  <2>3. CASE q \notin Ports
    <3>1. s = Now
      BY <2>3
    <3> QED
      BY <1>5, <2>1, <2>3, <3>1, NowIs, ToldNone
  <2> QED
    BY <2>2, <2>3
<1> HIDE DEF c, s
<1>7. Sending(blocked, s, Awake(t), call)
  BY <1>5, <1>6, SendingTold
<1>8. \A u \in Threads \ {t} : Effect(Now, s, pc, u, {})
  <2>1. \A u \in Threads \ {t} : Awake(t)[u] = pc[u]
    BY DEF Awake, Inv, Types
  <2>2. \A u \in Threads : Effect(Now, s, Awake(t), u, {})
    BY <1>6, ToldEffect
  <2> QED
    BY <2>1, <2>2 DEF Effect
<1>9. RcvReady(t, c, s)
  BY <1>1, <1>3, <1>6, <1>7, <1>8, TurnIs DEF RcvReady
<1> QED
  BY <1>1, <1>4, <1>9, RcvLoopOK

\* A receiver that was told nothing leaves the queue, to look again or to
\* give up.
LEMMA OffReady ==
    ASSUME Inv, NEW t \in Threads, pc[t] = "rcv_wait", ith[t].state = "in_progress", Turn(t),
           NEW c \in Call, ~c.circ, c.obj = call[t].obj
    PROVE  RcvReady(t, c, Off(t))
<1>1. /\ Good(Off(t), Awake(t), call, Live, {})
      /\ Off(t).ip_pset = ip_pset /\ Off(t).ith = ith /\ Off(t).wait = wait
      /\ call[t].obj \in Live \cap Queues
      /\ call[t].obj \in Ports => ip_pset[call[t].obj] = Null
  BY OffGood
<1>2. Sending(blocked, Off(t), Awake(t), call)
  <2>1. Sending(blocked, Now, Awake(t), call)
    BY SendingAwake
  <2>2. \A u \in Threads, p \in Ports :
           Blocked(Now, Awake(t), call, u, p) <=> Blocked(Off(t), Awake(t), call, u, p)
    BY <1>1, NowIs DEF Blocked
  <2> QED
    BY <2>1, <2>2, SendingStep
<1>3. \A u \in Threads \ {t} : Effect(Now, Off(t), pc, u, {})
  BY <1>1, NowIs DEF Effect
<1> QED
  BY <1>1, <1>2, <1>3, TurnIs DEF RcvReady

\* A receiver returns with what it was told, or with nothing.
LEMMA RcvReturnOK ==
    ASSUME Inv, NEW t \in Threads, NEW c, NEW s, RcvReady(t, c, s), Return(t, s),
           UNCHANGED <<active, held, backups, msgcount, qlimit, blocked>>
    PROVE  Inv'
<1>1. /\ blocked \in [Ports -> Seq(Threads)] /\ msgcount \in [Ports -> Int]
      /\ \A r \in Ports : r \notin active => blocked[r] = <<>>
  BY DEF Inv, Types, Rights
<1>2. NoCall \in Call /\ ~NoCall.circ
  BY NoCallIs
<1>3. Finishes(t, s, "user", NoCall)
  BY <1>1, <1>2 DEF Finishes, Return, RcvReady
<1> QED
  BY <1>3, FinishStep

\* A receiver wakes up.
LEMMA RcvWokenOK == ASSUME Inv, NEW t \in Threads, RcvWoken(t) PROVE Inv'
<1> DEFINE c == call[t]
           d == [c EXCEPT !.opt = "poll"]
           port == ith[t].kmsg.port
           g == [NoCall EXCEPT !.obj = port]
<1>1. /\ pc[t] = "rcv_wait" /\ Turn(t)
      /\ UNCHANGED <<active, held, backups, msgcount, qlimit, blocked>>
  BY DEF RcvWoken
<1>2. \/ ith[t].state = "success" /\ Proceed(t, Now, "rcv_got", port)
      \/ ith[t].state # "in_progress" /\ Return(t, Now)
      \/ ith[t].state = "in_progress" /\ Return(t, Off(t))
      \/ ith[t].state = "in_progress" /\ RcvLoop(t, d, Off(t))
      \/ ith[t].state = "in_progress" /\ RcvLoop(t, c, Off(t))
  BY DEF RcvWoken, Off
<1>3. c \in Call /\ ~c.circ /\ PlaceOf(Now, pc, call, t)
  <2>1. c \in Call /\ PlaceOf(Now, pc, call, t)
    BY DEF Inv, Types, Place
  <2> QED
    BY <1>1, <2>1 DEF PlaceOf
<1>4. d \in Call /\ ~d.circ /\ d.obj = c.obj
  BY <1>3 DEF Call
<1>5. /\ blocked \in [Ports -> Seq(Threads)] /\ msgcount \in [Ports -> Int]
      /\ \A r \in Ports : r \notin active => blocked[r] = <<>>
  BY DEF Inv, Types, Rights
<1>6. \A u \in Threads \ {t} : Effect(Now, Now, pc, u, {})
  BY NoEffect
<1> HIDE DEF d
<1>7. ASSUME ith[t].state # "in_progress"
      PROVE  Good(Now, Awake(t), call, Live, {}) /\ Sending(blocked, Now, Awake(t), call)
  BY <1>7, GoodAwake, SendingAwake
<1>8. CASE ith[t].state = "success" /\ Proceed(t, Now, "rcv_got", port)
  <2>1. port \in Ports
    <3>1. ith[t].kmsg \in Message
      BY <1>1, <1>3, <1>8, NowIs DEF PlaceOf
    <3> QED
      BY <3>1 DEF Message
  <2>2. g \in Call /\ ~g.circ /\ g.obj = port
    <3>1. port \in Queues \cup Threads
      BY <2>1 DEF Queues
    <3> QED
      BY <3>1, NoCallIs
  <2>3. /\ Commit([Now EXCEPT !.ith[t] = Idle, !.wait[t] = "none"])
        /\ pc' = [pc EXCEPT ![t] = "rcv_got"] /\ call' = [call EXCEPT ![t] = g]
    BY <1>8 DEF Proceed
  <2> HIDE DEF g, port
  <2>4. Finishes(t, Now, "rcv_got", g)
    BY <1>1, <1>5, <1>6, <1>7, <1>8, <2>1, <2>2, <2>3, TurnIs, NowIs DEF Finishes
  <2> QED
    BY <2>4, FinishStep
<1>9. CASE ith[t].state # "in_progress" /\ Return(t, Now)
  <2>1. NoCall \in Call /\ ~NoCall.circ
    BY NoCallIs
  <2>2. Finishes(t, Now, "user", NoCall)
    BY <1>1, <1>5, <1>6, <1>7, <1>9, <2>1, TurnIs, NowIs DEF Finishes, Return
  <2> QED
    BY <2>2, FinishStep
<1>10. CASE ith[t].state = "in_progress" /\ Return(t, Off(t))
  <2>1. RcvReady(t, c, Off(t))
    BY <1>1, <1>3, <1>10, OffReady
  <2> QED
    BY <1>1, <1>10, <2>1, RcvReturnOK
<1>11. CASE ith[t].state = "in_progress" /\ RcvLoop(t, d, Off(t))
  <2>1. RcvReady(t, d, Off(t))
    BY <1>1, <1>4, <1>11, OffReady
  <2> QED
    BY <1>1, <1>11, <2>1, RcvLoopOK
<1>12. CASE ith[t].state = "in_progress" /\ RcvLoop(t, c, Off(t))
  <2>1. RcvReady(t, c, Off(t))
    BY <1>1, <1>3, <1>12, OffReady
  <2> QED
    BY <1>1, <1>12, <2>1, RcvLoopOK
<1> QED
  BY <1>2, <1>8, <1>9, <1>10, <1>11, <1>12

\* A receiver that is halted is cleaned up.
LEMMA InterruptedOK == ASSUME Inv, NEW t \in Threads, mach_msg_interrupt(t) PROVE Inv'
<1>1. /\ pc[t] = "rcv_wait" /\ Turn(t) /\ ith[t].state = "in_progress" /\ Return(t, Off(t))
      /\ UNCHANGED <<active, held, backups, msgcount, qlimit, blocked>>
  BY DEF mach_msg_interrupt, Off
<1>2. call[t] \in Call /\ ~call[t].circ
  <2>1. call[t] \in Call /\ PlaceOf(Now, pc, call, t)
    BY DEF Inv, Types, Place
  <2> QED
    BY <1>1, <2>1 DEF PlaceOf
<1>3. RcvReady(t, call[t], Off(t))
  BY <1>1, <1>2, OffReady
<1> QED
  BY <1>1, <1>3, RcvReturnOK

\* The timer of a wait goes off, or the wait is aborted.
LEMMA WaitEndsOK ==
    ASSUME Inv, NEW t \in Threads, NEW result \in {"timed_out", "interrupted"},
           WaitEnds(t, result)
    PROVE  Inv'
<1> DEFINE W == [wait EXCEPT ![t] = result]
           o == [Now EXCEPT !.wait = W]
<1>0. Now \in State /\ StateTypes(Now)
  BY Fields DEF Inv, Good
<1>1. /\ wait[t] = "waiting" /\ wait' = W
      /\ UNCHANGED <<active, held, backups, ip_pset, msgcount, qlimit, seqno,
                     blocked, messages, receivers, ith, pc, call>>
  BY DEF WaitEnds
<1>2. /\ W \in [Threads -> Waiting] /\ W[t] = result
      /\ \A u \in Threads \ {t} : W[u] = wait[u]
  <2>1. wait \in [Threads -> Waiting]
    BY <1>0, NowIs DEF StateTypes
  <2>2. result \in Waiting
    BY DEF Waiting
  <2> QED
    BY <2>1, <2>2
<1> HIDE DEF W, o
<1>3. o \in State
  BY <1>0, <1>2, Zenon DEF State, o
<1>4. /\ o.ip_pset = ip_pset /\ o.seqno = seqno /\ o.messages = messages
      /\ o.receivers = receivers /\ o.wait = W /\ o.ith = ith
  <2>1. /\ o.ip_pset = Now.ip_pset /\ o.seqno = Now.seqno /\ o.messages = Now.messages
        /\ o.receivers = Now.receivers /\ o.wait = W /\ o.ith = Now.ith
    BY <1>0, Zenon DEF State, o
  <2> QED
    BY <2>1, NowIs
<1>5. Commit(o)
  BY <1>1, <1>4 DEF Commit
<1>6. Types'
  BY <1>1 DEF Inv, Types
<1>7. Good(o, pc', call', Live', {})
  <2>1. Good(Now, pc, call, Live', {}) /\ SameQueues(Now, o) /\ o.ith = Now.ith
    BY <1>1, <1>4, NowIs DEF Inv, Live, SameQueues
  <2> QED
    BY <1>1, <1>3, <2>1, GoodSame
<1>8. Sending(blocked', o, pc', call')
  <2>1. \A u \in Threads, p \in Ports : Blocked(Now, pc, call, u, p) <=> Blocked(o, pc', call', u, p)
    BY <1>1, <1>4, NowIs DEF Blocked
  <2> QED
    BY <1>1, <2>1, SendingStep DEF Inv
<1>9. Place(o, pc', call')
  <2> SUFFICES ASSUME NEW u \in Threads PROVE PlaceOf(o, pc, call, u)
    BY <1>1 DEF Place
  <2>1. PlaceOf(Now, pc, call, u)
    BY DEF Inv, Place
  <2>2. o.ith[u] = Now.ith[u] /\ (o.wait[u] # "none" => Now.wait[u] # "none")
    BY <1>1, <1>2, <1>4, NowIs
  <2> QED
    BY <2>1, <2>2 DEF PlaceOf
<1>10. Rights(held', active', o.ip_pset, blocked', pc', call')
  BY <1>1, <1>4 DEF Inv
<1>11. Started(o, pc', call')
  <2> SUFFICES ASSUME NEW u \in Threads, o.wait[u] = "waiting"
               PROVE  \/ o.ith[u].state = "in_progress"
                      \/ \E v \in Threads : Starts(pc, call, v, u)
    BY <1>1 DEF Started
  <2>1. Now.wait[u] = "waiting"
    BY <1>1, <1>2, <1>4, NowIs
  <2> QED
    BY <2>1, <1>4, NowIs DEF Inv, Started
<1>12. Alone(o, pc', call')
  <2>1. Alone(Now, pc, call)
    BY DEF Inv
  <2>2. \A u \in Threads : o.wait[u] = "awakened" => Now.wait[u] = "awakened"
    BY <1>2, <1>4, NowIs
  <2>3. o.ith = Now.ith
    BY <1>4, NowIs
  <2>4. Alone(o, pc, call)
    BY <2>1, <2>2, <2>3 DEF Alone
  <2> QED
    BY <1>1, <2>4
<1> QED
  BY <1>3, <1>5, <1>6, <1>7, <1>8, <1>9, <1>10, <1>11, <1>12, InvAfter

-----------------------------------------------------------------------------
(* The operations on receive rights and sets.                               *)

\* What may be used of the invariant in them.
OpState ==
    /\ Good(Now, pc, call, Live, {}) /\ Sending(blocked, Now, pc, call)
    /\ Rights(held, active, ip_pset, blocked, pc, call) /\ Types
    /\ ip_pset \in [Ports -> Psets \cup {Null}] /\ Now \in State

LEMMA OpStateIs == ASSUME Inv PROVE OpState
<1>1. Now \in State
  BY DEF Inv, Good
<1>2. ip_pset \in [Ports -> Psets \cup {Null}]
  BY <1>1, Fields, NowIs DEF StateTypes
<1> QED
  BY <1>1, <1>2 DEF Inv, OpState

\* A port's limit changes, and as many senders as there is new room for are
\* told.
LEMMA SetQlimitOK == ASSUME Inv, NEW p \in Ports, ipc_port_set_qlimit(p) PROVE Inv'
<1> USE OpStateIs DEF OpState
<1>1. /\ Quiet /\ p \in held
      /\ UNCHANGED <<active, held, backups, msgcount, pc, call>>
  BY DEF ipc_port_set_qlimit
<1>2. PICK n \in Qlimits :
          LET wakeup == IF n <= qlimit[p] THEN 0
                        ELSE IF n - qlimit[p] < Len(blocked[p]) THEN n - qlimit[p]
                        ELSE Len(blocked[p])
          IN  /\ qlimit' = [qlimit EXCEPT ![p] = n]
              /\ Commit(Rouse(Now, ToSet(SubSeq(blocked[p], 1, wakeup))))
              /\ blocked' = [blocked EXCEPT ![p] = SubSeq(@, wakeup + 1, Len(@))]
  BY DEF ipc_port_set_qlimit
<1> DEFINE k == IF n <= qlimit[p] THEN 0
                ELSE IF n - qlimit[p] < Len(blocked[p]) THEN n - qlimit[p]
                ELSE Len(blocked[p])
           ts == ToSet(SubSeq(blocked[p], 1, k))
           o == Rouse(Now, ts)
<1>3. /\ blocked \in [Ports -> Seq(Threads)] /\ qlimit \in [Ports -> Qlimits \cup {1}]
      /\ Once(blocked[p])
  BY DEF Types, Sending
<1>4. k \in 0 .. Len(blocked[p])
  <2>1. n \in Nat /\ qlimit[p] \in Nat
    <3>1. Qlimits \subseteq Nat
      BY BoundsAssumption DEF BoundsAssumption
    <3>2. qlimit[p] \in Qlimits \cup {1}
      BY <1>3
    <3>3. 1 \in Nat
      OBVIOUS
    <3>4. n \in Nat
      BY <3>1
    <3>5. qlimit[p] \in Nat
      BY <3>1, <3>2, <3>3, Zenon
    <3> QED
      BY <3>4, <3>5
  <2>2. Len(blocked[p]) \in Nat
    <3>1. blocked[p] \in Seq(Threads)
      BY <1>3
    <3> QED
      BY <3>1
  <2> QED
    BY <2>1, <2>2, SMT
<1>5. /\ qlimit' = [qlimit EXCEPT ![p] = n] /\ Commit(o)
      /\ blocked' = [blocked EXCEPT ![p] = SubSeq(@, k + 1, Len(@))]
  BY <1>2
<1> HIDE DEF k
<1>6. Without(blocked, blocked', p, ts) /\ blocked' \in [Ports -> Seq(Threads)]
  BY <1>3, <1>4, <1>5, WithoutFirst
<1> HIDE DEF o, ts
<1>7. Rousing(Now, o, pc, call, Live, {}, blocked')
  BY <1>6, RouseGood DEF o
<1>8. Types'
  BY <1>1, <1>3, <1>5, <1>6 DEF Types
<1>9. \A u \in Threads : Effect(Now, o, pc, u, {})
  BY <1>7 DEF Rousing, Effect
<1>10. Rights(held', active', o.ip_pset, blocked', pc, call)
  <2>1. o.ip_pset = ip_pset
    BY <1>7, NowIs DEF Rousing
  <2>2. p \in active /\ \A r \in Ports : r \notin active => blocked[r] = <<>>
    BY <1>1 DEF Rights
  <2>3. \A r \in Ports : r \notin active => blocked'[r] = <<>>
    BY <1>5, <2>2, <1>3
  <2> QED
    BY <1>1, <2>1, <2>3 DEF Rights
<1>11. BySomebody(o)
  <2>1. Live' = Live
    BY <1>1 DEF Live
  <2> QED
    BY <1>1, <1>5, <1>7, <1>9, <1>10, <2>1, QuietIs DEF BySomebody, Rousing
<1> QED
  BY <1>8, <1>11, PortStepIs

\* An operation that only tells receivers, and may change the set of a port
\* whose right is in a space.
LEMMA TellStep ==
    ASSUME Inv, NEW o, Quiet, Commit(o), Good(o, pc, call, Live, {}), Told(Now, o, pc, {}),
           \A r \in Ports : o.ip_pset[r] # Null => r \in held,
           UNCHANGED <<active, held, backups, msgcount, qlimit, blocked, pc, call>>
    PROVE  Inv'
<1> USE OpStateIs DEF OpState
<1>1. Types'
  BY DEF Types
<1>2. Live' = Live
  BY DEF Live
<1>3. Sending(blocked', o, pc, call)
  BY SendingTold
<1>4. \A u \in Threads : Effect(Now, o, pc, u, {})
  BY ToldEffect
<1>5. Rights(held', active', o.ip_pset, blocked', pc, call)
  BY DEF Rights
<1>6. BySomebody(o)
  BY <1>2, <1>3, <1>4, <1>5, QuietIs DEF BySomebody
<1> QED
  BY <1>1, <1>6, PortStepIs

LEMMA SetSeqnoOK == ASSUME Inv, NEW p \in Ports, ipc_port_set_seqno(p) PROVE Inv'
<1> USE OpStateIs DEF OpState
<1>1. /\ Quiet /\ p \in held
      /\ UNCHANGED <<active, held, backups, msgcount, qlimit, blocked, pc, call>>
  BY DEF ipc_port_set_seqno
<1>2. PICK n \in {0, SeqnoMod - 1} : Commit(Renumber(LeaveDeadSet(Now, p), p, n))
  BY DEF ipc_port_set_seqno
<1> DEFINE s == LeaveDeadSet(Now, p)
           o == Renumber(s, p, n)
<1>3. n \in 0 .. SeqnoMod - 1
  <2>1. SeqnoMod \in Nat /\ 1 < SeqnoMod
    BY BoundsAssumption DEF BoundsAssumption
  <2> QED
    BY <2>1, SMT
<1>4. Commit(o)
  BY <1>2
<1> HIDE DEF s, o
<1>5. /\ Good(s, pc, call, Live, {}) /\ Told(Now, s, pc, {})
      /\ s.ip_pset = ip_pset \/ s.ip_pset = [ip_pset EXCEPT ![p] = Null]
  <2>1. Good(Now, pc, call, Live, {})
    OBVIOUS
  <2>2. /\ Good(s, pc, call, Live, {}) /\ Told(Now, s, pc, {})
        /\ s.ip_pset = Now.ip_pset \/ s.ip_pset = [Now.ip_pset EXCEPT ![p] = Null]
    BY <2>1, LeaveGood DEF s
  <2> QED
    BY <2>2, NowIs
<1>6. Good(o, pc, call, Live, {}) /\ Told(s, o, pc, {}) /\ o.ip_pset = s.ip_pset
  BY <1>3, <1>5, RenumberGood DEF o
<1>7. Told(Now, o, pc, {})
  BY <1>5, <1>6, ToldThen
<1>8. \A r \in Ports : o.ip_pset[r] # Null => r \in held
  BY <1>1, <1>5, <1>6 DEF Rights
<1> QED
  BY <1>1, <1>4, <1>6, <1>7, <1>8, TellStep

LEMMA PsetMoveOK == ASSUME Inv, NEW p \in Ports, ipc_pset_move(p) PROVE Inv'
<1> USE OpStateIs DEF OpState
<1>1. /\ Quiet /\ p \in held
      /\ UNCHANGED <<active, held, backups, msgcount, qlimit, blocked, pc, call>>
  BY DEF ipc_pset_move
<1> DEFINE s == IF ip_pset[p] = Null THEN Now ELSE ipc_pset_remove(Now, p)
<1>2. PICK nset \in (Psets \cap active) \cup {Null} :
          Commit(IF nset = Null THEN s ELSE ipc_pset_add(s, nset, p))
  BY DEF ipc_pset_move
<1>3. Good(s, pc, call, Live, {}) /\ Told(Now, s, pc, {}) /\ s.ip_pset = [ip_pset EXCEPT ![p] = Null]
  <2>1. CASE ip_pset[p] = Null
    <3>1. s = Now /\ [ip_pset EXCEPT ![p] = Null] = ip_pset
      BY <2>1
    <3> QED
      BY <3>1, ToldNone, NowIs
  <2>2. CASE ip_pset[p] # Null
    <3>1. s = ipc_pset_remove(Now, p)
      BY <2>2
    <3> HIDE DEF s
    <3>2. Moved(Now, s, pc, call, Live, p, Null)
      BY <2>2, <3>1, RemoveGood, NowIs
    <3> QED
      BY <3>2, NowIs DEF Moved
  <2> QED
    BY <2>1, <2>2
<1> HIDE DEF s
<1>4. CASE nset = Null
  <2>1. \A r \in Ports : s.ip_pset[r] # Null => r \in held
    BY <1>3 DEF Rights
  <2>2. Commit(s)
    BY <1>2, <1>4
  <2> QED
    BY <1>1, <1>3, <2>1, <2>2, TellStep
<1>5. CASE nset # Null
  <2> DEFINE o == ipc_pset_add(s, nset, p)
  <2>1. Commit(o) /\ nset \in Psets
    BY <1>2, <1>5
  <2>2. Moved(s, o, pc, call, Live, p, nset)
    BY <1>3, <2>1, AddGood
  <2> HIDE DEF o
  <2>3. Good(o, pc, call, Live, {}) /\ Told(Now, o, pc, {})
    BY <1>3, <2>2, ToldThen DEF Moved
  <2>4. \A r \in Ports : o.ip_pset[r] # Null => r \in held
    BY <1>1, <1>3, <2>2 DEF Moved, Rights
  <2> QED
    BY <1>1, <2>1, <2>3, <2>4, TellStep
<1> QED
  BY <1>4, <1>5

LEMMA PsetDestroyOK == ASSUME Inv, NEW set \in Psets, ipc_pset_destroy(set) PROVE Inv'
<1> USE OpStateIs DEF OpState
<1> DEFINE o == ipc_mqueue_changed(Now, set, "died")
<1>1. /\ Quiet /\ set \in active /\ active' = active \ {set} /\ Commit(o)
      /\ UNCHANGED <<held, backups, msgcount, qlimit, blocked, pc, call>>
  BY DEF ipc_pset_destroy
<1>2. set \in Queues /\ set \notin Ports /\ "died" \in {"died", "changed"}
  BY ObjectsAssumption DEF ObjectsAssumption, Queues
<1>3. /\ Good(o, pc, call, Live, {}) /\ o.ip_pset = ip_pset /\ o.receivers[set] = <<>>
      /\ Told(Now, o, pc, {})
  BY <1>2, ChangedGood, NowIs
<1> HIDE DEF o
<1>4. Types'
  BY <1>1 DEF Types
<1>5. Live' = Live \ {set}
  BY <1>1, <1>2 DEF Live, Types
<1>6. Good(o, pc, call, Live', {})
  BY <1>3, <1>5, GoodLess
<1>7. Sending(blocked', o, pc, call)
  BY <1>1, <1>3, SendingTold
<1>8. \A u \in Threads : Effect(Now, o, pc, u, {})
  BY <1>3, ToldEffect
<1>9. Rights(held', active', o.ip_pset, blocked', pc, call)
  BY <1>1, <1>2, <1>3 DEF Rights, Types
<1>10. BySomebody(o)
  BY <1>1, <1>6, <1>7, <1>8, <1>9, QuietIs DEF BySomebody
<1> QED
  BY <1>4, <1>10, PortStepIs

\* A right leaves a space.
LEMMA LostIs ==
    ASSUME Inv, NEW p \in Ports, p \in held
    PROVE  LET s == ipc_port_clear_receiver(Now, p)
           IN  /\ Good(s, pc, call, Live, {}) /\ Told(Now, s, pc, {})
               /\ s.ip_pset = [ip_pset EXCEPT ![p] = Null] /\ s.receivers[p] = <<>>
<1> DEFINE s == ipc_port_clear_receiver(Now, p)
<1>1. Good(Now, pc, call, Live, {})
  BY DEF Inv
<1>2. Moved(Now, s, pc, call, Live, p, Null) /\ s.receivers[p] = <<>>
  BY <1>1, ClearGood
<1> QED
  BY <1>2, NowIs DEF Moved

LEMMA MoveRightOK == ASSUME Inv, NEW p \in Ports, MoveRight(p) PROVE Inv'
<1> USE OpStateIs DEF OpState
<1> DEFINE s == ipc_port_clear_receiver(Now, p)
<1>1. /\ Quiet /\ p \in held /\ held' = held \ {p} /\ Commit(s)
      /\ UNCHANGED <<active, backups, msgcount, qlimit, blocked, pc, call>>
  BY DEF MoveRight
<1>2. /\ Good(s, pc, call, Live, {}) /\ Told(Now, s, pc, {})
      /\ s.ip_pset = [ip_pset EXCEPT ![p] = Null] /\ s.receivers[p] = <<>>
  BY <1>1, LostIs
<1> HIDE DEF s
<1>3. Types'
  BY <1>1 DEF Types
<1>4. Live' = Live \ {p}
  BY <1>1, ObjectsAssumption DEF Live, ObjectsAssumption
<1>5. Good(s, pc, call, Live', {})
  BY <1>2, <1>4, GoodLess
<1>6. Sending(blocked', s, pc, call)
  BY <1>1, <1>2, SendingTold
<1>7. \A u \in Threads : Effect(Now, s, pc, u, {})
  BY <1>2, ToldEffect
<1>8. Rights(held', active', s.ip_pset, blocked', pc, call)
  BY <1>1, <1>2 DEF Rights
<1>9. BySomebody(s)
  BY <1>1, <1>5, <1>6, <1>7, <1>8, QuietIs DEF BySomebody
<1> QED
  BY <1>3, <1>9, PortStepIs

LEMMA CopyoutRightOK == ASSUME Inv, NEW p \in Ports, CopyoutRight(p) PROVE Inv'
<1> USE OpStateIs DEF OpState
<1>1. /\ Quiet /\ p \in active /\ ~Carried(p) /\ held' = held \cup {p}
      /\ UNCHANGED <<active, backups, ip_pset, msgcount, qlimit, seqno, blocked,
                     messages, receivers, ith, wait, pc, call>>
  BY DEF CopyoutRight
<1>2. Commit(Now)
  BY <1>1, NowIs DEF Commit
<1>3. Types'
  BY <1>1 DEF Types
<1>4. Good(Now, pc, call, Live', {})
  <2>1. Live \subseteq Live'
    BY <1>1 DEF Live
  <2> QED
    BY <2>1, GoodMore
<1>5. \A u \in Threads : Effect(Now, Now, pc, u, {})
  BY NoEffect
<1>6. Rights(held', active', ip_pset, blocked', pc, call)
  BY <1>1 DEF Rights, Carried, Carries
<1>7. BySomebody(Now)
  BY <1>1, <1>2, <1>4, <1>5, <1>6, QuietIs, NowIs DEF BySomebody
<1> QED
  BY <1>3, <1>7, PortStepIs

\* A port that nobody receives from is destroyed, or goes to its backup.
Doomed(p, s) ==
    /\ Good(s, pc, call, Live, {}) /\ Told(Now, s, pc, {})
    /\ s.ip_pset = [ip_pset EXCEPT ![p] = Null] /\ s.receivers[p] = <<>>

Destroyed(p, o) ==
    /\ Commit(o) /\ Good(o, pc, call, Live', {}) /\ Sending(blocked', o, pc, call)
    /\ \A u \in Threads : Effect(Now, o, pc, u, {})
    /\ held' = held \ {p} /\ held' \subseteq active' /\ active' \subseteq Queues
    /\ \A r \in Ports : /\ o.ip_pset[r] # Null => r \in held'
                        /\ r \notin active' => blocked'[r] = <<>>
    /\ backups' \subseteq Ports /\ blocked' \in [Ports -> Seq(Threads)]
    /\ UNCHANGED <<msgcount, qlimit>>

LEMMA PortDestroyIs ==
    ASSUME Inv, NEW p \in Ports, NEW s, Doomed(p, s), ipc_port_destroy(p, s)
    PROVE  \E o : Destroyed(p, o)
<1> USE OpStateIs DEF OpState
<1>1. held' = held \ {p} /\ UNCHANGED <<msgcount, qlimit>>
  BY DEF ipc_port_destroy
<1>2. /\ Good(s, pc, call, Live, {}) /\ Told(Now, s, pc, {})
      /\ s.ip_pset = [ip_pset EXCEPT ![p] = Null] /\ s.receivers[p] = <<>>
  BY DEF Doomed
<1>3. p \notin Psets /\ blocked \in [Ports -> Seq(Threads)] /\ active \subseteq Queues
  BY ObjectsAssumption DEF ObjectsAssumption, Types
<1>4. Sending(blocked, s, pc, call)
  BY <1>2, SendingTold
<1>5. \A r \in Ports : /\ s.ip_pset[r] # Null => r \in held'
                       /\ r \notin active => blocked[r] = <<>>
  BY <1>1, <1>2 DEF Rights
<1>6. \A u \in Threads : Effect(Now, s, pc, u, {})
  BY <1>2, ToldEffect
<1>7. CASE /\ backups' = backups \ {p} /\ Commit(s) /\ UNCHANGED <<active, blocked>>
  <2>1. Live' = Live \ {p}
    BY <1>1, <1>3, <1>7 DEF Live
  <2>2. Good(s, pc, call, Live', {})
    BY <1>2, <2>1, GoodLess
  <2>3. held' \subseteq active' /\ backups' \subseteq Ports
    BY <1>1, <1>7 DEF Rights, Types
  <2>4. Destroyed(p, s)
    BY <1>1, <1>3, <1>4, <1>5, <1>6, <1>7, <2>2, <2>3 DEF Destroyed
  <2> QED
    BY <2>4
<1>8. CASE /\ active' = active \ {p} /\ blocked' = [blocked EXCEPT ![p] = <<>>]
           /\ Commit(Rouse(s, ToSet(blocked[p]))) /\ UNCHANGED backups
  <2> DEFINE ts == ToSet(blocked[p])
             o == Rouse(s, ts)
  <2>1. Commit(o) /\ Without(blocked, blocked', p, ts)
    BY <1>3, <1>8, WithoutAll
  <2> HIDE DEF o, ts
  <2>2. Rousing(s, o, pc, call, Live, {}, blocked')
    BY <1>2, <1>4, <2>1, RouseGood DEF o
  <2>3. Live' = Live \ {p}
    BY <1>1, <1>3, <1>8 DEF Live
  <2>4. Good(o, pc, call, Live', {})
    <3>1. o.receivers[p] = <<>>
      <4>1. o.receivers = s.receivers
        <5>1. Roused(s, o, ts)
          BY <1>2, RouseIs DEF Good, o
        <5> QED
          BY <5>1 DEF Roused, SameQueues
      <4> QED
        BY <1>2, <4>1
    <3> QED
      BY <2>2, <2>3, <3>1, GoodLess DEF Rousing
  <2>5. \A u \in Threads : Effect(Now, o, pc, u, {})
    <3> SUFFICES ASSUME NEW u \in Threads PROVE Effect(Now, o, pc, u, {})
      OBVIOUS
    <3>1. CASE o.ith[u] = s.ith[u] /\ o.wait[u] = s.wait[u]
      <4>1. Effect(Now, s, pc, u, {})
        BY <1>6
      <4> QED
        BY <3>1, <4>1 DEF Effect
    <3>2. CASE /\ pc[u] = "send_wait" /\ s.ith[u].state = "in_progress"
               /\ o.ith[u].state = "success" /\ o.wait[u] = Go(s.wait[u])
      <4>1. Now.ith[u] = s.ith[u] /\ Now.wait[u] = s.wait[u]
        BY <1>2, <3>2 DEF Told
      <4> QED
        BY <3>2, <4>1 DEF Effect
    <3> QED
      BY <2>2, <3>1, <3>2 DEF Rousing
  <2>6. held' \subseteq active' /\ active' \subseteq Queues /\ backups' \subseteq Ports
    BY <1>1, <1>3, <1>8 DEF Rights, Types
  <2>7. /\ blocked' \in [Ports -> Seq(Threads)]
        /\ \A r \in Ports : r \notin active' => blocked'[r] = <<>>
    BY <1>3, <1>5, <1>8
  <2>8. \A r \in Ports : o.ip_pset[r] # Null => r \in held'
    BY <1>5, <2>2 DEF Rousing
  <2>9. Sending(blocked', o, pc, call)
    BY <2>2 DEF Rousing
  <2>10. Destroyed(p, o)
    BY <1>1, <2>1, <2>4, <2>5, <2>6, <2>7, <2>8, <2>9 DEF Destroyed
  <2> QED
    BY <2>10
<1> QED
  BY <1>7, <1>8 DEF ipc_port_destroy

\* A port whose right is in transit is in no set, and nobody receives from it.
LEMMA TransitIs == ASSUME Inv, NEW p \in Ports, p \notin held PROVE Doomed(p, Now)
<1> USE OpStateIs DEF OpState
<1>1. p \notin Live /\ p \in Queues
  BY ObjectsAssumption DEF ObjectsAssumption, Live, Queues
<1>2. Now.receivers[p] = <<>>
  BY <1>1 DEF Good, Consistent
<1>3. Now.ip_pset = [ip_pset EXCEPT ![p] = Null]
  <2>1. ip_pset[p] = Null
    BY DEF Rights
  <2> QED
    BY <2>1, NowIs
<1> QED
  BY <1>2, <1>3, ToldNone DEF Doomed

\* A right is destroyed by an operation on it.
LEMMA DestroyStep ==
    ASSUME Inv, Quiet, NEW p \in Ports, NEW s, Doomed(p, s), ipc_port_destroy(p, s),
           UNCHANGED <<pc, call>>
    PROVE  Inv'
<1> USE OpStateIs DEF OpState
<1>1. PICK o : Destroyed(p, o)
  BY PortDestroyIs
<1>2. Types'
  BY <1>1 DEF Destroyed, Types
<1>3. Rights(held', active', o.ip_pset, blocked', pc, call)
  BY <1>1 DEF Destroyed, Rights
<1>4. BySomebody(o)
  BY <1>1, <1>3, QuietIs DEF Destroyed, BySomebody
<1> QED
  BY <1>2, <1>4, PortStepIs

LEMMA DestroyRightOK == ASSUME Inv, NEW p \in Ports, DestroyRight(p) PROVE Inv'
<1> DEFINE s == ipc_port_clear_receiver(Now, p)
<1>1. Quiet /\ p \in held /\ ipc_port_destroy(p, s) /\ UNCHANGED <<pc, call>>
  BY DEF DestroyRight
<1>2. Doomed(p, s)
  BY <1>1, LostIs DEF Doomed
<1> HIDE DEF s
<1> QED
  BY <1>1, <1>2, DestroyStep

LEMMA DestroyInTransitOK == ASSUME Inv, NEW p \in Ports, DestroyInTransit(p) PROVE Inv'
<1>1. Quiet /\ p \notin held /\ ipc_port_destroy(p, Now) /\ UNCHANGED <<pc, call>>
  BY DEF DestroyInTransit
<1>2. Doomed(p, Now)
  BY <1>1, TransitIs
<1> QED
  BY <1>1, <1>2, DestroyStep

\* The sender of a port's own right to it destroys both.
LEMMA DestroyCircularOK == ASSUME Inv, NEW t \in Threads, DestroyCircular(t) PROVE Inv'
<1> USE OpStateIs DEF OpState
<1> DEFINE p == call[t].obj
<1>1. /\ pc[t] = "circular" /\ ipc_port_destroy(p, Now)
      /\ pc' = [pc EXCEPT ![t] = "user"] /\ call' = [call EXCEPT ![t] = NoCall]
  BY DEF DestroyCircular
<1>2. p \in Ports
  <2>1. PlaceOf(Now, pc, call, t)
    BY DEF Inv, Place
  <2> QED
    BY <1>1, <2>1 DEF PlaceOf
<1>3. Carries(pc, call, t, p)
  BY <1>1 DEF Carries
<1>4. p \notin held
  BY <1>2, <1>3 DEF Rights
<1> HIDE DEF p
<1>5. PICK o : Destroyed(p, o)
  BY <1>1, <1>2, <1>4, TransitIs, PortDestroyIs
<1>6. NoCall \in Call /\ ~NoCall.circ
  BY NoCallIs
<1>7. Types'
  <2>1. /\ active' \subseteq Queues /\ held' \subseteq Ports /\ backups' \subseteq Ports
        /\ msgcount' \in [Ports -> Int] /\ qlimit' = qlimit /\ blocked' \in [Ports -> Seq(Threads)]
    BY <1>5 DEF Destroyed, Types
  <2>2. Types
    OBVIOUS
  <2> QED
    BY <1>1, <1>6, <2>1, <2>2, TypesAfter DEF Places
<1>8. /\ pc'[t] = "user" /\ call'[t] = NoCall
      /\ \A u \in Threads \ {t} : pc'[u] = pc[u] /\ call'[u] = call[u]
  BY <1>1 DEF Types
<1>9. Rights(held', active', o.ip_pset, blocked', pc', call')
  <2>1. \A u \in Threads, r \in Ports : Carries(pc', call', u, r) => Carries(pc, call, u, r)
    BY <1>6, <1>8 DEF Carries
  <2> QED
    BY <1>5, <2>1 DEF Destroyed, Rights
<1>10. ~Multiprocessor => \A u \in Threads \ {t} : pc[u] \notin Between
  BY <1>1 DEF Inv, Alone, Between
<1>11. GoesOn(t, o, "user", NoCall)
  BY <1>1, <1>5, <1>6, <1>9, <1>10 DEF GoesOn, Destroyed
<1> QED
  BY <1>7, <1>11, GoOnStep

\* A message queued at a dead port is destroyed.
LEMMA DestroyMessageOK == ASSUME Inv, NEW p \in Ports, DestroyMessage(p) PROVE Inv'
<1> USE OpStateIs DEF OpState
<1> DEFINE o == [Now EXCEPT !.messages[p] = Tail(@), !.seqno = seqno]
<1>1. /\ Quiet /\ messages[p] # <<>> /\ messages' = [messages EXCEPT ![p] = Tail(@)]
      /\ UNCHANGED <<active, held, backups, ip_pset, msgcount, qlimit, seqno,
                     blocked, receivers, ith, wait, pc, call>>
  BY DEF DestroyMessage
<1>2. p \in Queues /\ seqno \in [Ports -> 0 .. SeqnoMod - 1] /\ Now.messages[p] # <<>>
  <2>1. seqno \in [Ports -> 0 .. SeqnoMod - 1]
    BY Fields, NowIs DEF StateTypes
  <2> QED
    BY <1>1, <2>1, NowIs DEF Queues
<1>3. Dequeued(Now, o, pc, call, Live, {})
  BY <1>2, TailGood
<1>4. o.messages = [messages EXCEPT ![p] = Tail(@)] /\ o.seqno = seqno
  BY NowIs, Zenon DEF State
<1> HIDE DEF o
<1>5. Commit(o)
  BY <1>1, <1>3, <1>4, NowIs DEF Commit, Dequeued
<1>6. Told(Now, o, pc, {})
  BY <1>3, ToldNone DEF Dequeued
<1>7. \A r \in Ports : o.ip_pset[r] # Null => r \in held
  BY <1>3, NowIs DEF Dequeued, Rights
<1> QED
  BY <1>1, <1>3, <1>5, <1>6, <1>7, TellStep DEF Dequeued

-----------------------------------------------------------------------------
(* The theorems.                                                            *)

\* At the start all queues are empty, and nobody waits.
LEMMA Begins == ASSUME Init PROVE Inv
<1>1. /\ active = Queues /\ held = Ports /\ backups = Backups
      /\ ip_pset = [p \in Ports |-> Null] /\ msgcount = [p \in Ports |-> 0]
      /\ qlimit = [p \in Ports |-> 1] /\ seqno = [p \in Ports |-> 0]
      /\ blocked = [p \in Ports |-> <<>>] /\ messages = [q \in Queues |-> <<>>]
      /\ receivers = [q \in Queues |-> <<>>] /\ ith = [t \in Threads |-> Idle]
      /\ wait = [t \in Threads |-> "none"] /\ pc = [t \in Threads |-> "user"]
      /\ call = [t \in Threads |-> NoCall]
  BY DEF Init
<1>2. NoCall \in Call /\ ~NoCall.circ /\ Idle \in Ith /\ Idle.state = "none" /\ "none" \in Waiting
  BY NoCallIs DEF Idle, Ith, Waiting
<1>3. <<>> \in Seq(Threads) /\ <<>> \in Seq(Message) /\ Once(<<>>) /\ \A u : ~Listed(<<>>, u)
  BY DEF Once, Listed
<1>4. 0 \in 0 .. SeqnoMod - 1
  <2>1. SeqnoMod \in Nat /\ 1 < SeqnoMod
    BY BoundsAssumption DEF BoundsAssumption
  <2> QED
    BY <2>1, SMT
<1>5. Types
  <2>1. backups \subseteq Ports
    BY <1>1, ConfigAssumption DEF ConfigAssumption
  <2>2. active \subseteq Queues /\ held \subseteq Ports
    BY <1>1
  <2>3. msgcount \in [Ports -> Int]
    BY <1>1
  <2>4. qlimit \in [Ports -> Qlimits \cup {1}] /\ blocked \in [Ports -> Seq(Threads)]
    BY <1>1, <1>3
  <2>5. pc \in [Threads -> Places] /\ call \in [Threads -> Call]
    BY <1>1, <1>2 DEF Places
  <2> QED
    BY <2>1, <2>2, <2>3, <2>4, <2>5 DEF Types
<1>6. Now \in State
  <2>1. ip_pset \in [Ports -> Psets \cup {Null}] /\ seqno \in [Ports -> 0 .. SeqnoMod - 1]
    BY <1>1, <1>4
  <2>2. messages \in [Queues -> Seq(Message)] /\ receivers \in [Queues -> Seq(Threads)]
    BY <1>1, <1>3
  <2>3. ith \in [Threads -> Ith] /\ wait \in [Threads -> Waiting]
    BY <1>1, <1>2
  <2> QED
    BY <2>1, <2>2, <2>3 DEF Now, State
<1>7. Receiving(Now, pc, call) /\ Sending(blocked, Now, pc, call)
  BY <1>1, <1>3, NowIs DEF Receiving, Sending, Blocked
<1>8. Consistent(Now, Live) /\ Apart(Now, {})
  BY <1>1, NowIs DEF Consistent, Apart
<1>9. Own(Now)
  <2>1. \A p \in Ports : Now.messages[p] = <<>>
    BY <1>1, NowIs DEF Queues
  <2>2. \A i \in 1 .. Len(<<>>) : FALSE
    OBVIOUS
  <2> QED
    BY <2>1, <2>2 DEF Own
<1>10. Place(Now, pc, call) /\ Started(Now, pc, call) /\ Alone(Now, pc, call)
  BY <1>1, <1>2, NowIs DEF Place, PlaceOf, Started, Alone, Between, Starts
<1>11. Rights(held, active, ip_pset, blocked, pc, call)
  <2>1. \A p \in Ports, t \in Threads : ~Carries(pc, call, t, p)
    BY <1>1, <1>2 DEF Carries
  <2> QED
    BY <1>1, <2>1 DEF Rights, Queues
<1> QED
  BY <1>5, <1>6, <1>7, <1>8, <1>9, <1>10, <1>11 DEF Inv, Good

LEMMA Same == ASSUME Inv, UNCHANGED vars PROVE Inv'
<1>1. Now' = Now /\ Live' = Live
  BY DEF vars, Now, Live
<1>2. Types'
  BY DEF vars, Inv, Types
<1> QED
  BY <1>1, <1>2 DEF vars, Inv

LEMMA Steps == ASSUME Inv, [Next]_vars PROVE Inv'
<1>1. ASSUME NEW t \in Threads, ThreadStep(t) PROVE Inv'
  <2>1. CASE ipc_mqueue_send(t)
    BY <2>1, SendOK
  <2>2. CASE SendOwnRight(t)
    BY <2>2, SendOwnRightOK
  <2>3. CASE SendOwnRightLoop(t)
    BY <2>3, SendOwnRightLoopOK
  <2>4. CASE SendWoken(t)
    BY <2>4, SendWokenOK
  <2>5. CASE SendGo(t)
    BY <2>5, SendGoOK
  <2>6. CASE DestroyCircular(t)
    BY <2>6, DestroyCircularOK
  <2>7. CASE ipc_mqueue_receive(t)
    BY <2>7, ReceiveOK
  <2>8. CASE RcvWoken(t)
    BY <2>8, RcvWokenOK
  <2>9. CASE RcvFinish(t)
    BY <2>9, RcvFinishOK
  <2>10. CASE mach_msg_interrupt(t)
    BY <2>10, InterruptedOK
  <2>11. CASE Timeout(t)
    BY <2>11, WaitEndsOK DEF Timeout
  <2>12. CASE Interrupt(t)
    BY <2>12, WaitEndsOK DEF Interrupt
  <2> QED
    BY <1>1, <2>1, <2>2, <2>3, <2>4, <2>5, <2>6, <2>7, <2>8, <2>9, <2>10, <2>11, <2>12
       DEF ThreadStep
<1>2. ASSUME NEW p \in Ports, PortStep(p) PROVE Inv'
  BY <1>2, SetQlimitOK, SetSeqnoOK, PsetMoveOK, MoveRightOK, CopyoutRightOK, DestroyRightOK,
     DestroyInTransitOK, DestroyMessageOK DEF PortStep
<1>3. ASSUME NEW set \in Psets, ipc_pset_destroy(set) PROVE Inv'
  BY <1>3, PsetDestroyOK
<1> QED
  BY <1>1, <1>2, <1>3, Same DEF Next

\* The queues and what the threads know of them agree in every state.
THEOREM Agree == Spec => []Inv
  BY Begins, Steps, PTL DEF Spec

\* A queue that threads wait to receive from is empty and alive, the own queue
\* of a port in a set is unused, and a dead port is in no set and blocks
\* nobody.
THEOREM QueuesCorrect == Spec => []QueuesConsistent
<1>1. ASSUME Inv PROVE QueuesConsistent
  <2>1. /\ Consistent(Now, Live) /\ Apart(Now, {})
        /\ Rights(held, active, ip_pset, blocked, pc, call)
    BY <1>1 DEF Inv, Good
  <2>2. \A q \in Queues : q \notin active => q \notin Live
    BY <2>1 DEF Live, Rights
  <2>3. \A q \in Queues : /\ receivers[q] # <<>> => messages[q] = <<>>
                          /\ q \notin active => receivers[q] = <<>>
    BY <2>1, <2>2, NowIs DEF Consistent
  <2>4. \A p \in Ports : ip_pset[p] # Null => messages[p] = <<>> /\ receivers[p] = <<>>
    BY <2>1, NowIs DEF Apart
  <2>5. \A p \in Ports : p \notin active => ip_pset[p] = Null /\ blocked[p] = <<>>
    BY <2>1 DEF Rights
  <2> QED
    BY <2>3, <2>4, <2>5 DEF QueuesConsistent
<1> QED
  BY Agree, <1>1, PTL

\* A thread with TH_WAIT on is in the queue it waits in, once, or is about to
\* be started.
THEOREM NoOrphan == Spec => []NoOrphanWaiter
<1>1. ASSUME NEW X, NEW l \in Seq(X), NEW x, Once(l), Listed(l, x)
      PROVE  Cardinality({i \in DOMAIN l : l[i] = x}) = 1
  <2>1. DOMAIN l = 1 .. Len(l)
    OBVIOUS
  <2>2. PICK i \in 1 .. Len(l) : l[i] = x
    BY <1>1 DEF Listed
  <2>3. {j \in DOMAIN l : l[j] = x} = {i}
    BY <2>1, <2>2, <1>1 DEF Once
  <2> QED
    BY <2>3, FS_Singleton
<1>2. ASSUME Inv PROVE NoOrphanWaiter
  <2> SUFFICES ASSUME NEW t \in Threads, wait[t] = "waiting"
               PROVE  LET q == IF pc[t] = "send_wait" THEN blocked[call[t].obj]
                               ELSE receivers[call[t].obj]
                      IN  \/ /\ ith[t].state = "in_progress"
                             /\ Cardinality({i \in DOMAIN q : q[i] = t}) = 1
                          \/ \E u \in Threads : pc[u] = "send_go" /\ call[u].obj = t
    BY DEF NoOrphanWaiter
  <2> DEFINE p == call[t].obj
  <2>1. /\ PlaceOf(Now, pc, call, t)
        /\ ith[t].state = "in_progress" \/ \E u \in Threads : Starts(pc, call, u, t)
    BY <1>2, NowIs DEF Inv, Place, Started
  <2>2. /\ pc[t] \in {"send_wait", "rcv_wait"}
        /\ pc[t] = "send_wait" => p \in Ports
        /\ pc[t] = "rcv_wait" => p \in Queues
    BY <2>1, NowIs DEF PlaceOf
  <2>3. CASE \E u \in Threads : Starts(pc, call, u, t)
    BY <2>3 DEF Starts
  <2>4. CASE ith[t].state = "in_progress" /\ pc[t] = "send_wait"
    <3>1. /\ blocked[p] \in Seq(Threads) /\ Once(blocked[p]) /\ Listed(blocked[p], t)
      BY <1>2, <2>2, <2>4, NowIs DEF Inv, Types, Sending, Blocked
    <3>2. Cardinality({i \in DOMAIN blocked[p] : blocked[p][i] = t}) = 1
      BY <3>1, <1>1
    <3> QED
      BY <2>4, <3>2
  <2>5. CASE ith[t].state = "in_progress" /\ pc[t] = "rcv_wait"
    <3>1. StateTypes(Now) /\ Receiving(Now, pc, call)
      BY <1>2, Fields DEF Inv, Good
    <3>2. /\ receivers[p] \in Seq(Threads) /\ Once(receivers[p]) /\ Listed(receivers[p], t)
      BY <3>1, <2>2, <2>5, NowIs DEF StateTypes, Receiving
    <3>3. Cardinality({i \in DOMAIN receivers[p] : receivers[p][i] = t}) = 1
      BY <3>2, <1>1
    <3> QED
      BY <2>5, <3>3
  <2> QED
    BY <2>1, <2>2, <2>3, <2>4, <2>5
<1> QED
  BY Agree, <1>2, PTL

\* On a uniprocessor, the assertions after thread_block hold: a thread that is
\* woken by somebody has been told why.
THEOREM NoStrange == ASSUME ~Multiprocessor PROVE Spec => []NoStrangeWakeup
<1>1. ASSUME Inv PROVE NoStrangeWakeup
  BY <1>1, NowIs DEF Inv, Alone, NoStrangeWakeup
<1> QED
  BY Agree, <1>1, PTL

=============================================================================
