---------------------------- MODULE NetIPCProofs ----------------------------
(***************************************************************************)
(* Why the two ends of a connection agree, for any number of nodes and     *)
(* messages, whatever is lost or discarded; why a message that its sender  *)
(* has let go of has arrived, whatever the network loses; and why no       *)
(* assertion fails as long as it loses nothing and every frame finds a     *)
(* page.                                                                   *)
(***************************************************************************)
EXTENDS NetIPC, ListTheorems, TLAPS

\* A data frame f to r whose sequence number is of the message being sent
\* has the content it has there.
Known(nd, r, f) ==
    nd.packet[r] # <<>> /\ nd.first[r] <= f.seqid =>
        /\ f.id = Head(nd.packet[r]).id /\ f.shape = Head(nd.packet[r]).shape
        /\ f.part = f.seqid - nd.first[r]
DataOK(nd, r, f) == f.seqid <= nd.sent_seqid[r] /\ Known(nd, r, f)

\* What a node says to r in c is about what it has sent, what it has received,
\* or what r has sent, which is s.
CtlOK(nd, r, s, c) ==
    /\ c.ctl = "sync" => c.seqid <= nd.sent_seqid[r]
    /\ c.ctl = "ack" => c.seqid <= nd.rcvd_seqid[r]
    /\ c.ctl = "nack" => c.seqid <= s
FrameOK(nd, r, s, f) ==
    /\ f.type = "data" => DataOK(nd, r, f)
    /\ f.type = "ctl" => CtlOK(nd, r, s, f)

\* The sender's window, the message being sent, and the history of messages.
SendOK(n, nd, r) ==
    /\ nd.sent_seqid[r] <= nd.last_unacked[r]
    /\ nd.last_unacked[r] <= nd.sent_seqid[r] + 1
    /\ nd.packet[r] = <<>> => nd.last_unacked[r] = nd.sent_seqid[r] + 1
    /\ nd.packet[r] # <<>> => /\ nd.first[r] <= nd.last_unacked[r]
                              /\ nd.last_unacked[r] <= LastSeqid(nd, r)
    /\ Len(nd.packet[r]) <= Len(nd.log[r])
    /\ \A i \in 1 .. Len(nd.packet[r]) :
          nd.packet[r][i] = nd.log[r][Len(nd.log[r]) - Len(nd.packet[r]) + i]
    /\ \A i \in 1 .. Len(nd.log[r]) : nd.log[r][i].id = i /\ nd.log[r][i].shape \in Shapes[n]

\* What is written to the slot for control frames.
IsCtl(c) == c \in [ctl : {"ack", "nack", "sync"}, seqid : Nat]

\* Node n's record nd; S[r] is what r has sent to it.
Good(n, S, nd) ==
    /\ nd \in NodeType
    /\ \A r \in Node : SendOK(n, nd, r) /\ CtlOK(nd, r, S[r], nd.ctl[r])
    /\ \A r \in Node : nd.ctl[r] # CtlNone => IsCtl(nd.ctl[r])
    /\ \A i \in 1 .. Len(nd.out) : FrameOK(nd, nd.out[i].to, S[nd.out[i].to], nd.out[i].frame)
    /\ nd.out # <<>> => nd.sending

\* What each r has sent to n, and what it has seen of what n sent.
Sent(N, n) == [r \in Node |-> N[r].sent_seqid[n]]
Seen(N, n) == [r \in Node |-> N[r].rcvd_seqid[n]]

\* The records N and the wires W fit.
Fits(N, W) ==
    /\ \A n \in Node : Good(n, Sent(N, n), N[n]) /\ N[n].out = <<>>
    /\ \A n, r \in Node :
          /\ \A i \in 1 .. Len(W[n][r]) : FrameOK(N[n], r, N[r].sent_seqid[n], W[n][r][i])
          /\ N[n].last_unacked[r] <= N[r].rcvd_seqid[n] + 1
          /\ N[r].rcvd_seqid[n] <= N[n].sent_seqid[r]

Inv == TypeOK /\ Fits(node, wire)

\* What no routine but the handler itself changes.
Same(nd, e) ==
    /\ e.log = nd.log /\ e.packet = nd.packet /\ e.first = nd.first
    /\ e.last_unacked = nd.last_unacked /\ e.rcvd_seqid = nd.rcvd_seqid
    /\ e.incomplete = nd.incomplete /\ e.complete = nd.complete
    /\ e.self_stopped = nd.self_stopped /\ e.pages = nd.pages
    /\ e.pending_unack = nd.pending_unack /\ e.panic = nd.panic
SameSent(nd, e) == Same(nd, e) /\ e.sent_seqid = nd.sent_seqid

\* What the window consists of.
SameWindow(nd, e) ==
    /\ e.log = nd.log /\ e.packet = nd.packet /\ e.first = nd.first
    /\ e.last_unacked = nd.last_unacked /\ e.rcvd_seqid = nd.rcvd_seqid
    /\ e.sent_seqid = nd.sent_seqid


\* The types of the fields of a node's record.
FieldTypes(e) ==
    /\ e.log \in [Node -> Seq(Message)] /\ e.packet \in [Node -> Seq(Message)]
    /\ e.first \in [Node -> Nat] /\ e.sent_seqid \in [Node -> Nat]
    /\ e.last_unacked \in [Node -> Nat] /\ e.rcvd_seqid \in [Node -> Nat]
    /\ e.sent_packet \in [Node -> [0 .. WX - 1 -> BOOLEAN]]
    /\ e.timer \in [Node -> 0..2] /\ e.do_send \in [Node -> BOOLEAN]
    /\ e.ctl \in [Node -> [ctl : {"none", "ack", "nack", "sync"}, seqid : Nat]]
    /\ e.pending_send \in Seq(Node) /\ e.pending_unack \in Seq(Node)
    /\ e.pending_timeout \in Seq(Node)
    /\ e.sending \in BOOLEAN /\ e.busy \in BOOLEAN /\ e.self_stopped \in BOOLEAN
    /\ e.panic \in BOOLEAN /\ e.pages \in 0..MaxPages
    /\ e.incomplete \in Seq(Assembly) /\ e.complete \in Seq(Assembly)
    /\ e.out \in Seq([to : Node, frame : Frame])

\* A node's record has its fields, each of its type.
LEMMA Fields == ASSUME NEW nd \in NodeType PROVE FieldTypes(nd)
  BY Zenon DEF NodeType, FieldTypes

\* What is needed of sequences: their length, the empty one, their elements,
\* and what is left of one without its head.
LEMMA LenNat == ASSUME NEW X, NEW s \in Seq(X) PROVE Len(s) \in Nat
  OBVIOUS

\* The empty sequence is one over any set.
LEMMA EmptyIs == ASSUME NEW X PROVE <<>> \in Seq(X)
  OBVIOUS

\* An element of a sequence is in the set it is over.
LEMMA ElementIs == ASSUME NEW X, NEW s \in Seq(X), NEW i \in 1 .. Len(s) PROVE s[i] \in X
  OBVIOUS

\* A sequence that is not empty has a head and a tail.
LEMMA TailIs ==
    ASSUME NEW X, NEW s \in Seq(X), s # <<>>
    PROVE  /\ Tail(s) \in Seq(X) /\ Len(s) \in Nat /\ Len(s) >= 1 /\ Len(Tail(s)) = Len(s) - 1
           /\ \A i \in 1 .. Len(s) - 1 : Tail(s)[i] = s[i + 1]
           /\ Head(s) = s[1] /\ Head(s) \in X
<1>1. Len(s) \in Nat /\ Len(s) # 0
  OBVIOUS
<1>2. Len(s) >= 1 /\ 1 \in 1 .. Len(s)
  BY <1>1, SMT
<1>3. Tail(s) \in Seq(X) /\ Len(Tail(s)) = Len(s) - 1
  BY <1>1
<1>4. \A i \in 1 .. Len(s) - 1 : Tail(s)[i] = s[i + 1]
  BY <1>1, <1>3
<1>5. Head(s) = s[1] /\ Head(s) \in X
  BY <1>2
<1> QED
  BY <1>1, <1>2, <1>3, <1>4, <1>5

\* What is the same is no greater.
LEMMA NatLeq ==
    ASSUME NEW f \in [Node -> Nat], NEW g \in [Node -> Nat], NEW r \in Node
    PROVE  f[r] <= f[r] /\ g[r] <= g[r]
  BY SMT

\* The number of the last packet of a message.
LEMMA LastSeqidIs ==
    ASSUME NEW nd \in NodeType, NEW r \in Node, nd.packet[r] # <<>>
    PROVE  /\ nd.first[r] \in Nat /\ LastSeqid(nd, r) \in Nat /\ nd.first[r] <= LastSeqid(nd, r)
           /\ Head(nd.packet[r]) \in Message /\ Len(Head(nd.packet[r]).shape) \in Nat
           /\ LastSeqid(nd, r) = nd.first[r] + Len(Head(nd.packet[r]).shape)
<1>1. nd.packet[r] \in Seq(Message) /\ nd.first[r] \in Nat
  BY Fields DEF FieldTypes
<1>2. Head(nd.packet[r]) \in Message
  BY <1>1, TailIs
<1> DEFINE k == Len(Head(nd.packet[r]).shape)
<1>3. k \in Nat
  BY <1>2 DEF Message
<1>4. LastSeqid(nd, r) = nd.first[r] + k
  BY DEF LastSeqid
<1> HIDE DEF k
<1>5. nd.first[r] + k \in Nat /\ nd.first[r] <= nd.first[r] + k
  BY <1>1, <1>3, SMT
<1> QED
  BY <1>1, <1>2, <1>3, <1>4, <1>5 DEF k

\* From nd to e a node goes on with what it was sending.
Keeps(nd, e) ==
    \A r \in Node :
        /\ nd.sent_seqid[r] <= e.sent_seqid[r] /\ nd.rcvd_seqid[r] <= e.rcvd_seqid[r]
        /\ e.packet[r] # <<>> /\ e.first[r] <= nd.sent_seqid[r] =>
              /\ nd.packet[r] # <<>> /\ e.first[r] = nd.first[r]
              /\ Head(e.packet[r]) = Head(nd.packet[r])

\* A frame under way stays right.
LEMMA FrameKept ==
    ASSUME NEW nd \in NodeType, NEW e \in NodeType, NEW r \in Node, NEW f \in Frame,
           NEW s \in Nat, NEW t \in Nat, s <= t, Keeps(nd, e), FrameOK(nd, r, s, f)
    PROVE  FrameOK(e, r, t, f)
<1>1. f.seqid \in Nat
  BY DEF Frame
<1>2. /\ nd.sent_seqid[r] \in Nat /\ e.sent_seqid[r] \in Nat /\ nd.first[r] \in Nat /\ e.first[r] \in Nat
      /\ nd.rcvd_seqid[r] \in Nat /\ e.rcvd_seqid[r] \in Nat
  BY Fields DEF FieldTypes
<1>3. f.type = "data" => DataOK(e, r, f)
  BY <1>1, <1>2, SMT DEF DataOK, Known, FrameOK, Keeps
<1>4. f.type = "ctl" => CtlOK(e, r, t, f)
  BY <1>1, <1>2, SMT DEF CtlOK, FrameOK, Keeps
<1> QED
  BY <1>3, <1>4 DEF FrameOK

\* What the parts of Good depend on.
LEMMA SendWindow ==
    ASSUME NEW n, NEW nd, NEW e, NEW r, SendOK(n, nd, r), SameWindow(nd, e)
    PROVE  SendOK(n, e, r)
<1>1. LastSeqid(e, r) = LastSeqid(nd, r)
  BY DEF SameWindow, LastSeqid
<1> QED
  BY <1>1, Zenon DEF SendOK, SameWindow

\* What a node may say to r depends on its window only.
LEMMA CtlWindow ==
    ASSUME NEW nd, NEW e, NEW r, NEW s, NEW c, CtlOK(nd, r, s, c), SameWindow(nd, e)
    PROVE  CtlOK(e, r, s, c)
  BY Zenon DEF CtlOK, SameWindow

\* A record stays good while its window, its slots and its frame do.
LEMMA GoodWindow ==
    ASSUME NEW n, NEW S, NEW nd, Good(n, S, nd), NEW e \in NodeType, SameWindow(nd, e),
           e.ctl = nd.ctl, e.out = nd.out, e.out # <<>> => e.sending
    PROVE  Good(n, S, e)
<1>1. \A x \in Node : SendOK(n, e, x) /\ CtlOK(e, x, S[x], e.ctl[x])
  BY SendWindow, CtlWindow DEF Good
<1>2. \A i \in 1 .. Len(e.out) : FrameOK(e, e.out[i].to, S[e.out[i].to], e.out[i].frame)
  BY DEF Good, FrameOK, DataOK, CtlOK, Known, SameWindow
<1> QED
  BY <1>1, <1>2 DEF Good

\* What changes nothing but lists and timers keeps the window.
LEMMA WindowSame == ASSUME NEW nd, NEW e, SameSent(nd, e) PROVE SameWindow(nd, e)
  BY DEF SameSent, Same, SameWindow

\* So it keeps what is known of the sender's window,
LEMMA SendSame ==
    ASSUME NEW n, NEW nd, NEW e, NEW r, SendOK(n, nd, r), SameSent(nd, e)
    PROVE  SendOK(n, e, r)
  BY WindowSame, SendWindow

\* of what the node may say to r,
LEMMA CtlSame ==
    ASSUME NEW nd, NEW e, NEW r, NEW s, NEW c, CtlOK(nd, r, s, c), SameSent(nd, e)
    PROVE  CtlOK(e, r, s, c)
  BY WindowSame, CtlWindow

\* and of the record.
LEMMA GoodSame ==
    ASSUME NEW n, NEW S, NEW nd, Good(n, S, nd), NEW e \in NodeType, SameSent(nd, e),
           e.ctl = nd.ctl, e.out = nd.out, e.out # <<>> => e.sending
    PROVE  Good(n, S, e)
  BY WindowSame, GoodWindow

-----------------------------------------------------------------------------
(* The routines that send.                                                 *)

\* Enqueue adds a node to a list and nothing else.
LEMMA EnqueueType ==
    ASSUME NEW list \in Seq(Node), NEW r \in Node
    PROVE  /\ Enqueue(list, r) \in Seq(Node)
           /\ \A x : Contains(Enqueue(list, r), x) <=> Contains(list, x) \/ x = r
<1>1. <<r>> \o list \in Seq(Node)
  OBVIOUS
<1>2. \A x : Contains(<<r>> \o list, x) <=> Contains(list, x) \/ x = r
  <2> DEFINE l == <<r>> \o list
  <2>1. /\ Len(l) = Len(list) + 1 /\ l[1] = r /\ Len(list) \in Nat
        /\ \A i \in 1 .. Len(list) : l[i + 1] = list[i]
        /\ \A i \in 2 .. Len(list) + 1 : l[i] = list[i - 1]
    BY SMT
  <2> HIDE DEF l
  <2>2. \A x : Contains(l, x) <=> Contains(list, x) \/ x = r
    <3>1. ASSUME NEW x, Contains(l, x) PROVE Contains(list, x) \/ x = r
      <4>1. PICK i \in 1 .. Len(l) : l[i] = x
        BY <3>1 DEF Contains
      <4>2. CASE i = 1
        BY <4>1, <4>2, <2>1
      <4>3. CASE i # 1
        <5>1. i - 1 \in 1 .. Len(list) /\ list[i - 1] = x
          BY <4>1, <4>3, <2>1, SMT
        <5> QED
          BY <5>1 DEF Contains
      <4> QED
        BY <4>2, <4>3
    <3>2. ASSUME NEW x, Contains(list, x) PROVE Contains(l, x)
      <4>1. PICK i \in 1 .. Len(list) : list[i] = x
        BY <3>2 DEF Contains
      <4>2. i + 1 \in 1 .. Len(l) /\ l[i + 1] = x
        BY <4>1, <2>1, SMT
      <4> QED
        BY <4>2 DEF Contains
    <3>3. Contains(l, r)
      <4>1. 1 \in 1 .. Len(l) /\ l[1] = r
        BY <2>1, SMT
      <4> QED
        BY <4>1 DEF Contains
    <3> QED
      BY <3>1, <3>2, <3>3
  <2> QED
    BY <2>2 DEF l
<1> QED
  BY <1>1, <1>2 DEF Enqueue


\* A frame that says what is right goes out: netipc_send.
LEMMA TransmitOK ==
    ASSUME NEW n \in Node, NEW S, NEW nd, Good(n, S, nd), NEW r \in Node, NEW f \in Frame,
           FrameOK(nd, r, S[r], f)
    PROVE  /\ Good(n, S, Transmit(nd, r, f))
           /\ SameSent(nd, Transmit(nd, r, f))
<1> DEFINE e == Transmit(nd, r, f)
           o == <<[to |-> r, frame |-> f]>>
<1>0. nd \in NodeType
  BY DEF Good
<1>1. o \in Seq([to : Node, frame : Frame]) /\ Len(o) = 1 /\ o[1].to = r /\ o[1].frame = f
  OBVIOUS
<1>2. PICK b \in BOOLEAN : b = TRUE
  OBVIOUS
<1>3. e = [nd EXCEPT !.sending = b, !.busy = b, !.out = o]
  BY <1>2 DEF Transmit
<1> HIDE DEF e, o
<1>4. e \in NodeType
  BY <1>0, <1>1, <1>3, Zenon DEF NodeType
<1>5. SameSent(nd, e) /\ e.ctl = nd.ctl /\ e.sending /\ e.out = o
  BY <1>0, <1>2, <1>3, SMT DEF NodeType, Same, SameSent
<1>6. \A x \in Node : SendOK(n, e, x) /\ CtlOK(e, x, S[x], e.ctl[x])
  BY <1>5, SendSame, CtlSame DEF Good
<1>7. FrameOK(e, r, S[r], f)
  BY <1>5 DEF FrameOK, DataOK, CtlOK, Known, Same, SameSent
<1>8. \A i \in 1 .. Len(e.out) : FrameOK(e, e.out[i].to, S[e.out[i].to], e.out[i].frame)
  <2>1. \A i \in 1 .. 1 : i = 1
    BY SMT
  <2> QED
    BY <1>1, <1>5, <1>7, <2>1
<1>9. Good(n, S, e)
  <2>1. \A x \in Node : e.ctl[x] # CtlNone => IsCtl(e.ctl[x])
    BY <1>5 DEF Good
  <2> QED
    BY <1>4, <1>5, <1>6, <1>8, <2>1 DEF Good
<1> QED
  BY <1>5, <1>9 DEF e

\* A control frame that says what is right goes out or to its slot:
\* netipc_send_ctl.
LEMMA SendCtlOK ==
    ASSUME NEW n \in Node, NEW S, NEW nd, Good(n, S, nd), NEW r \in Node,
           NEW c, IsCtl(c), CtlOK(nd, r, S[r], c)
    PROVE  /\ Good(n, S, netipc_send_ctl(nd, r, c))
           /\ SameSent(nd, netipc_send_ctl(nd, r, c))
<1>0. nd \in NodeType /\ FieldTypes(nd)
  BY Fields DEF Good
<1>1. CASE nd.sending
  <2> DEFINE e == netipc_send_ctl(nd, r, c)
             l == [nd.ctl EXCEPT ![r] = c]
             p == Enqueue(nd.pending_send, r)
  <2>1. e = [nd EXCEPT !.ctl = l, !.pending_send = p]
    BY <1>1 DEF netipc_send_ctl
  <2>2. l \in [Node -> [ctl : {"none", "ack", "nack", "sync"}, seqid : Nat]]
    BY <1>0 DEF FieldTypes, IsCtl
  <2>3. p \in Seq(Node)
    BY <1>0, EnqueueType DEF FieldTypes
  <2>4. \A x \in Node : l[x] = IF x = r THEN c ELSE nd.ctl[x]
    BY <1>0 DEF FieldTypes
  <2> HIDE DEF e, l, p
  <2>5. e \in NodeType
    BY <1>0, <2>1, <2>2, <2>3, Zenon DEF NodeType
  <2>6. SameSent(nd, e) /\ e.ctl = l /\ e.out = nd.out /\ e.sending = nd.sending
    BY <1>0, <2>1, SMT DEF NodeType, Same, SameSent
  <2>7. ASSUME NEW x \in Node PROVE SendOK(n, e, x) /\ CtlOK(e, x, S[x], e.ctl[x])
    <3>1. SendOK(n, e, x)
      BY <2>6, SendSame DEF Good
    <3>2. CtlOK(nd, x, S[x], l[x])
      BY <2>4 DEF Good
    <3> QED
      BY <2>6, <3>1, <3>2, CtlSame
  <2>8. \A i \in 1 .. Len(e.out) : FrameOK(e, e.out[i].to, S[e.out[i].to], e.out[i].frame)
    BY <2>6 DEF Good, FrameOK, DataOK, CtlOK, Known, Same, SameSent
  <2>9. \A x \in Node : e.ctl[x] # CtlNone => IsCtl(e.ctl[x])
    BY <2>4, <2>6 DEF Good
  <2>10. Good(n, S, e)
    BY <2>5, <2>6, <2>7, <2>8, <2>9 DEF Good
  <2> QED
    BY <2>6, <2>10 DEF e
<1>2. CASE ~nd.sending
  <2> DEFINE f == CtlFrame(c)
  <2>1. f \in Frame /\ f.type = "ctl" /\ f.ctl = c.ctl /\ f.seqid = c.seqid
    BY SMT DEF CtlFrame, Frame, IsCtl
  <2>2. netipc_send_ctl(nd, r, c) = Transmit(nd, r, f)
    BY <1>2 DEF netipc_send_ctl
  <2> HIDE DEF f
  <2>3. FrameOK(nd, r, S[r], f)
    BY <2>1 DEF FrameOK, CtlOK
  <2> QED
    BY <2>1, <2>2, <2>3, TransmitOK
<1> QED
  BY <1>1, <1>2

\* A packet that was sent before goes out: netipc_send_kmsg, netipc_send_page.
LEMMA SendPartOK ==
    ASSUME NEW n \in Node, NEW S, NEW nd, Good(n, S, nd), NEW r \in Node,
           NEW q \in Nat, SetSeqid(nd, r, q), q <= nd.sent_seqid[r]
    PROVE  /\ Good(n, S, SendPart(nd, r, q))
           /\ SameSent(nd, SendPart(nd, r, q))
<1>0. nd \in NodeType /\ FieldTypes(nd)
  BY Fields DEF Good
<1> DEFINE t == [nd.timer EXCEPT ![r] = 1]
           p == Enqueue(nd.pending_timeout, r)
           e == [nd EXCEPT !.timer[r] = 1, !.pending_timeout = Enqueue(@, r)]
           m == Head(nd.packet[r])
           f == [type |-> "data", seqid |-> q, id |-> m.id, shape |-> m.shape,
                 part |-> q - nd.first[r]]
<1>1. SendPart(nd, r, q) = Transmit(e, r, f)
  BY DEF SendPart
<1>2. e = [nd EXCEPT !.timer = t, !.pending_timeout = p]
  OBVIOUS
<1>01. /\ nd.timer \in [Node -> 0..2] /\ nd.pending_timeout \in Seq(Node)
       /\ nd.packet[r] \in Seq(Message) /\ nd.first[r] \in Nat
  BY <1>0 DEF FieldTypes
<1>02. nd.packet[r] # <<>> /\ nd.first[r] <= q
  BY DEF SetSeqid
<1>3. t \in [Node -> 0..2] /\ p \in Seq(Node)
  <2>1. 1 \in 0..2
    BY SMT
  <2> QED
    BY <1>01, <2>1, EnqueueType
<1>4. m \in Message
  BY <1>01, <1>02
<1>5. f \in Frame /\ f.type = "data" /\ f.seqid = q /\ f.id = m.id /\ f.shape = m.shape
      /\ f.part = q - nd.first[r]
  <2>1. q - nd.first[r] \in Nat
    BY <1>01, <1>02, SMT
  <2> HIDE DEF m
  <2> QED
    BY <1>4, <2>1, SMT DEF Frame, Message
<1> HIDE DEF t, p, e, f
<1>6. e \in NodeType
  BY <1>0, <1>2, <1>3, Zenon DEF NodeType
<1>7. SameSent(nd, e) /\ e.ctl = nd.ctl /\ e.out = nd.out /\ e.sending = nd.sending
  BY <1>0, <1>2, SMT DEF NodeType, Same, SameSent
<1>8. Good(n, S, e)
  BY <1>6, <1>7, GoodSame DEF Good
<1>9. FrameOK(e, r, S[r], f)
  BY <1>5, <1>7 DEF FrameOK, DataOK, Known, SameSent, Same
<1>10. Good(n, S, Transmit(e, r, f)) /\ SameSent(e, Transmit(e, r, f))
  BY <1>5, <1>8, <1>9, TransmitOK
<1> QED
  BY <1>1, <1>7, <1>10, Zenon DEF SameSent, Same

\* The next packet is sent, or not.
SentOne(nd, e, r) ==
    \/ e.sent_seqid = nd.sent_seqid
    \/ e.sent_seqid = [nd.sent_seqid EXCEPT ![r] = @ + 1]

\* The next packet goes out, is put off, or there is none: netipc_send_any.
LEMMA SendAnyOK ==
    ASSUME NEW n \in Node, NEW S, NEW nd, Good(n, S, nd), NEW r \in Node
    PROVE  /\ Good(n, S, netipc_send_any(nd, r))
           /\ Same(nd, netipc_send_any(nd, r)) /\ SentOne(nd, netipc_send_any(nd, r), r)
<1>0. nd \in NodeType /\ FieldTypes(nd)
  BY Fields DEF Good
<1> DEFINE q == nd.sent_seqid[r] + 1
           a == netipc_send_any(nd, r)
           go == q < MAX_WINDOW_SIZE + nd.last_unacked[r] /\ SetSeqid(nd, r, q)
<1>1. ASSUME NEW e, NEW d \in [Node -> BOOLEAN], NEW l \in Seq(Node),
             e = [nd EXCEPT !.do_send = d, !.pending_send = l]
      PROVE  Good(n, S, e) /\ Same(nd, e) /\ SentOne(nd, e, r)
  <2>1. e \in NodeType
    BY <1>0, <1>1, Zenon DEF NodeType
  <2>2. SameSent(nd, e) /\ e.ctl = nd.ctl /\ e.out = nd.out /\ e.sending = nd.sending
    BY <1>0, <1>1, SMT DEF NodeType, Same, SameSent
  <2>3. Good(n, S, e)
    BY <2>1, <2>2, GoodSame DEF Good
  <2> QED
    BY <2>2, <2>3 DEF SameSent, SentOne
<1>2. CASE go /\ nd.sending
  <2> DEFINE d == [nd.do_send EXCEPT ![r] = TRUE]
             l == Enqueue(nd.pending_send, r)
  <2>1. a = [nd EXCEPT !.do_send = d, !.pending_send = l]
    BY <1>2 DEF netipc_send_any
  <2>2. d \in [Node -> BOOLEAN] /\ l \in Seq(Node)
    BY <1>0, EnqueueType DEF FieldTypes
  <2> HIDE DEF a, d, l
  <2>3. Good(n, S, a) /\ Same(nd, a) /\ SentOne(nd, a, r)
    BY <1>1, <2>1, <2>2
  <2> QED
    BY <2>3 DEF a
<1>3. CASE ~go
  <2> DEFINE d == [nd.do_send EXCEPT ![r] = FALSE]
             l == nd.pending_send
  <2>1. a = [nd EXCEPT !.do_send = d]
    BY <1>3 DEF netipc_send_any
  <2>2. d \in [Node -> BOOLEAN] /\ l \in Seq(Node)
    BY <1>0 DEF FieldTypes
  <2>3. [nd EXCEPT !.do_send = d] = [nd EXCEPT !.do_send = d, !.pending_send = l]
    BY <1>0, Zenon DEF NodeType
  <2> HIDE DEF a, d, l
  <2>4. Good(n, S, a) /\ Same(nd, a) /\ SentOne(nd, a, r)
    BY <1>1, <2>1, <2>2, <2>3
  <2> QED
    BY <2>4 DEF a
<1>4. CASE go /\ ~nd.sending
  <2> DEFINE u == [nd.sent_seqid EXCEPT ![r] = q]
             k == [nd.sent_packet EXCEPT ![r][q % WX] = TRUE]
             e == [nd EXCEPT !.sent_seqid[r] = q, !.sent_packet[r][q % WX] = TRUE]
  <2>1. a = SendPart(e, r, q)
    BY <1>4 DEF netipc_send_any
  <2>2. e = [nd EXCEPT !.sent_seqid = u, !.sent_packet = k]
    OBVIOUS
  <2>3. /\ nd.sent_seqid[r] \in Nat /\ nd.last_unacked[r] \in Nat /\ q \in Nat
        /\ u \in [Node -> Nat] /\ u[r] = q /\ \A x \in Node : x # r => u[x] = nd.sent_seqid[x]
    <3>1. nd.sent_seqid \in [Node -> Nat] /\ nd.last_unacked[r] \in Nat
      BY <1>0 DEF FieldTypes
    <3> QED
      BY <3>1
  <2>4. k \in [Node -> [0 .. WX - 1 -> BOOLEAN]]
    BY <1>0 DEF FieldTypes
  <2> HIDE DEF a, u, k, e
  <2>5. e \in NodeType
    BY <1>0, <2>2, <2>3, <2>4, Zenon DEF NodeType
  <2>6. Same(nd, e) /\ e.ctl = nd.ctl /\ e.out = nd.out /\ e.sending = nd.sending
        /\ e.sent_seqid = u
    BY <1>0, <2>2, SMT DEF NodeType, Same
  <2>7. q = nd.last_unacked[r] /\ nd.packet[r] # <<>>
    <3>1. nd.last_unacked[r] <= nd.sent_seqid[r] + 1
      BY DEF Good, SendOK
    <3>2. q < MAX_WINDOW_SIZE + nd.last_unacked[r] /\ nd.packet[r] # <<>>
      BY <1>4 DEF SetSeqid
    <3> QED
      BY <2>3, <3>1, <3>2, SMT DEF MAX_WINDOW_SIZE
  <2>8. SetSeqid(e, r, q)
    BY <1>4, <2>6 DEF SetSeqid, LastSeqid, Same
  <2>9. ASSUME NEW x \in Node PROVE SendOK(n, e, x) /\ CtlOK(e, x, S[x], e.ctl[x])
    <3>1. SendOK(n, nd, x) /\ CtlOK(nd, x, S[x], nd.ctl[x])
      BY DEF Good
    <3>2. LastSeqid(e, x) = LastSeqid(nd, x)
      BY <2>6 DEF LastSeqid, Same
    <3>3. CASE x = r
      <4>1. SendOK(n, e, x)
        <5>1. e.sent_seqid[r] <= nd.last_unacked[r] /\ nd.last_unacked[r] <= e.sent_seqid[r] + 1
          BY <2>3, <2>6, <2>7, SMT
        <5>2. /\ e.packet = nd.packet /\ e.log = nd.log /\ e.first = nd.first
              /\ e.last_unacked = nd.last_unacked /\ nd.packet[x] # <<>>
          BY <2>6, <2>7, <3>3 DEF Same
        <5> HIDE DEF q
        <5> QED
          BY <3>1, <3>2, <3>3, <5>1, <5>2, ZenonT(30) DEF SendOK
      <4>2. CtlOK(e, x, S[x], e.ctl[x])
        <5>1. nd.ctl[x].seqid \in Nat
          BY <1>0 DEF FieldTypes
        <5> QED
          BY <2>3, <2>6, <3>1, <3>3, <5>1, SMT DEF CtlOK, Same
      <4> QED
        BY <4>1, <4>2
    <3>4. CASE x # r
      <4>1. e.sent_seqid[x] = nd.sent_seqid[x]
        BY <2>3, <2>6, <3>4
      <4> QED
        BY <2>6, <3>1, <3>2, <4>1, Zenon DEF SendOK, CtlOK, Same
    <3> QED
      BY <3>3, <3>4
  <2>10. e.out = <<>>
    BY <1>4, <2>6 DEF Good
  <2>11. Good(n, S, e)
    <3>1. \A i \in 1 .. Len(e.out) : FrameOK(e, e.out[i].to, S[e.out[i].to], e.out[i].frame)
      BY <2>10
    <3>2. \A x \in Node : e.ctl[x] # CtlNone => IsCtl(e.ctl[x])
      BY <2>6 DEF Good
    <3> QED
      BY <2>5, <2>9, <2>10, <3>1, <3>2 DEF Good
  <2>12. Good(n, S, a) /\ SameSent(e, a)
    BY <2>1, <2>3, <2>6, <2>8, <2>11, SendPartOK
  <2>13. Same(nd, a) /\ a.sent_seqid = u
    BY <2>6, <2>12, Zenon DEF SameSent, Same
  <2>14. SentOne(nd, a, r)
    BY <2>13 DEF SentOne, u
  <2> QED
    BY <2>12, <2>13, <2>14 DEF a
<1> QED
  BY <1>2, <1>3, <1>4

\* Several control frames, one after the other, by induction on the list: what
\* every one of them keeps, they all keep.
LEMMA SendCtlsIn ==
    ASSUME NEW nd, NEW list \in Seq(Node), NEW c, NEW D, nd \in D,
           \A i \in 1 .. Len(list) : \A x \in D : netipc_send_ctl(x, list[i], c[list[i]]) \in D
    PROVE  SendCtls(nd, list, c) \in D
<1> DEFINE N == Len(list)
           Step(x, i) == netipc_send_ctl(x, list[i], c[list[i]])
           G == [z \in (1 .. N) \X D |-> Step(z[2], z[1])]
           Body(f, i) == IF i = 0 THEN nd ELSE netipc_send_ctl(f[i - 1], list[i], c[list[i]])
           IsAfter(f) == f = [i \in 0 .. N |-> Body(f, i)]
<1>1. N \in Nat
  OBVIOUS
<1>3. ASSUME NEW i \in 1 .. N, NEW x \in D PROVE Step(x, i) \in D
  OBVIOUS
<1>4. G \in [(1 .. N) \X D -> D]
  <2> HIDE DEF Step
  <2> QED
    BY <1>3
<1>5. PICK f \in [0 .. N -> D] : f[0] = nd /\ \A i \in 1 .. N : f[i] = G[<<i, f[i - 1]>>]
  <2> HIDE DEF N, G, IsAfter
  <2>1. PICK f : f \in Iterates(N, D, nd, G)
    BY <1>1, <1>4, Recursion
  <2> QED
    BY <2>1 DEF Iterates
<1>6. ASSUME NEW i \in 1 .. N
      PROVE  f[i] = Step(f[i - 1], i)
  <2> HIDE DEF Step
  <2>1. <<i, f[i - 1]>> \in (1 .. N) \X D
    <3>1. i - 1 \in 0 .. N
      BY <1>1
    <3>2. f[i - 1] \in D
      BY <3>1, <1>5, Zenon
    <3> QED
      BY <3>2
  <2>2. G[<<i, f[i - 1]>>] = Step(f[i - 1], i)
    BY <2>1
  <2> QED
    BY <1>5, <2>2
<1>7. IsAfter(f)
  <2>1. ASSUME NEW i \in 0 .. N PROVE f[i] = Body(f, i)
    <3>1. CASE i = 0
      BY <3>1, <1>5
    <3>2. CASE i # 0
      <4>1. i \in 1 .. N
        BY <3>2, <1>1, SMT
      <4>2. f[i] = Step(f[i - 1], i)
        BY <1>6, <4>1
      <4> QED
        BY <3>2, <4>2
    <3> QED
      BY <3>1, <3>2
  <2> HIDE DEF Body
  <2> QED
    BY <1>5, <2>1
<1> DEFINE h == CHOOSE g : IsAfter(g)
<1>8. IsAfter(h)
  BY <1>7
<1>9. SendCtls(nd, list, c) = h[N]
  BY DEF SendCtls
<1> HIDE DEF h
<1>10. DOMAIN h = 0 .. N /\ \A i \in 0 .. N : h[i] = Body(h, i)
  <2> HIDE DEF Body
  <2> QED
    BY <1>8
<1> DEFINE T == {i \in Nat : i <= N => h[i] \in D}
<1>11. 0 \in T
  <2>1. h[0] = nd
    BY <1>1, <1>10
  <2> QED
    BY <2>1
<1>12. ASSUME NEW i \in Nat, i \in T PROVE i + 1 \in T
  <2>1. CASE i + 1 <= N
    <3>1. i + 1 \in 0 .. N /\ i + 1 \in 1 .. N /\ i + 1 # 0 /\ (i + 1) - 1 = i /\ i <= N
      BY <1>1, <2>1, SMT
    <3>2. h[i] \in D
      BY <1>12, <3>1
    <3>3. h[i + 1] = Step(h[i], i + 1)
      BY <1>10, <3>1
    <3> HIDE DEF Step
    <3> QED
      BY <1>3, <3>1, <3>2, <3>3
  <2>2. CASE ~(i + 1 <= N)
    BY <2>2
  <2> QED
    BY <2>1, <2>2
<1>13. h[N] \in D
  <2>1. Nat \subseteq T
    <3> HIDE DEF T
    <3> QED
      BY <1>11, <1>12, Induction
  <2> QED
    BY <2>1, <1>1
<1> QED
  BY <1>9, <1>13

\* Several control frames that say what is right.
LEMMA SendCtlsOK ==
    ASSUME NEW n \in Node, NEW S, NEW nd, Good(n, S, nd), NEW list \in Seq(Node), NEW c,
           \A r \in Node : Contains(list, r) => IsCtl(c[r]) /\ CtlOK(nd, r, S[r], c[r])
    PROVE  /\ Good(n, S, SendCtls(nd, list, c))
           /\ SameSent(nd, SendCtls(nd, list, c))
<1> DEFINE D == {x \in NodeType : Good(n, S, x) /\ SameSent(nd, x)}
<1>1. nd \in D
  BY DEF Good, SameSent, Same
<1>2. ASSUME NEW i \in 1 .. Len(list), NEW x \in D
      PROVE  netipc_send_ctl(x, list[i], c[list[i]]) \in D
  <2> DEFINE r == list[i]
             e == netipc_send_ctl(x, r, c[r])
  <2>1. Good(n, S, x) /\ SameSent(nd, x)
    OBVIOUS
  <2>2. r \in Node /\ Contains(list, r)
    BY DEF Contains
  <2> HIDE DEF r
  <2>3. IsCtl(c[r]) /\ CtlOK(x, r, S[r], c[r])
    BY <2>1, <2>2, CtlSame
  <2>4. Good(n, S, e) /\ SameSent(x, e)
    BY <2>1, <2>2, <2>3, SendCtlOK
  <2> HIDE DEF e
  <2>5. SameSent(nd, e)
    BY <2>1, <2>4, Zenon DEF SameSent, Same
  <2>6. e \in D
    BY <2>4, <2>5 DEF Good
  <2> QED
    BY <2>6 DEF e, r
<1>3. SendCtls(nd, list, c) \in D
  <2> HIDE DEF D
  <2> QED
    BY <1>1, <1>2, SendCtlsIn
<1> QED
  BY <1>3

\* Min is the least.
LEMMA MinIs ==
    ASSUME NEW I \in SUBSET Nat, I # {}
    PROVE  Min(I) \in I /\ \A i \in I : Min(I) <= i
<1>1. \E m \in I : \A i \in I : m <= i
  BY Smallest
<1> QED
  BY <1>1 DEF Min

\* The device is done with a frame: netipc_send_intr.
LEMMA SendIntrOK ==
    ASSUME NEW n \in Node, NEW S, NEW nd, Good(n, S, nd), nd.out = <<>>
    PROVE  /\ Good(n, S, netipc_send_intr(nd))
           /\ Same(nd, netipc_send_intr(nd))
           /\ \E r \in Node : SentOne(nd, netipc_send_intr(nd), r)
<1>0. nd \in NodeType /\ FieldTypes(nd)
  BY Fields DEF Good
<1>1. nd.pending_send \in Seq(Node) /\ nd.ctl \in [Node -> [ctl : {"none", "ack", "nack", "sync"}, seqid : Nat]]
  BY <1>0 DEF FieldTypes
<1> DEFINE I == {i \in 1 .. Len(nd.pending_send) :
                    ~(nd.ctl[nd.pending_send[i]] = CtlNone /\ ~nd.do_send[nd.pending_send[i]])}
           live == IF I # {} THEN Min(I) ELSE 0
           rest == IF live = 0 THEN <<>>
                   ELSE SubSeq(nd.pending_send, live, Len(nd.pending_send))
           r == Head(rest)
           e == netipc_send_intr(nd)
           now == [nd EXCEPT !.busy = FALSE, !.pending_send = rest]
           quiet == [now EXCEPT !.sending = FALSE]
           less == [now EXCEPT !.ctl[r] = CtlNone]
<1>2. live # 0 => live \in 1 .. Len(nd.pending_send)
  <2> HIDE DEF I
  <2>1. I # {} => Min(I) \in I
    <3>1. I \in SUBSET Nat
      BY DEF I
    <3> QED
      BY <3>1, MinIs
  <2> QED
    BY <2>1 DEF I
<1>3. rest \in Seq(Node) /\ (live # 0 => rest # <<>>)
  <2> HIDE DEF live
  <2>1. CASE live = 0
    BY <2>1
  <2>2. CASE live # 0
    <3>1. live \in 1 .. Len(nd.pending_send) /\ Len(nd.pending_send) \in Nat
      BY <1>1, <1>2, <2>2
    <3>2. rest = SubSeq(nd.pending_send, live, Len(nd.pending_send))
      BY <2>2
    <3> HIDE DEF rest
    <3>3. rest \in Seq(Node) /\ Len(rest) = Len(nd.pending_send) - live + 1
      BY <1>1, <3>1, <3>2
    <3>4. Len(rest) # 0
      BY <3>1, <3>3, SMT
    <3> QED
      BY <3>3, <3>4
  <2> QED
    BY <2>1, <2>2
<1>4. live # 0 => r \in Node
  <2> HIDE DEF rest
  <2> QED
    BY <1>3
<1>5. e = IF live = 0 THEN quiet
          ELSE IF nd.ctl[r] # CtlNone THEN Transmit(less, r, CtlFrame(nd.ctl[r]))
          ELSE netipc_send_any(now, r)
  BY DEF netipc_send_intr, SelectInSeq
<1> HIDE DEF live, rest, r, e
<1>7. /\ now \in NodeType /\ SameSent(nd, now) /\ now.ctl = nd.ctl /\ now.out = nd.out
      /\ now.sending = nd.sending
  <2>1. PICK b \in BOOLEAN : b = FALSE
    OBVIOUS
  <2>2. now = [nd EXCEPT !.busy = b, !.pending_send = rest]
    BY <2>1
  <2>3. now \in NodeType
    BY <1>0, <1>3, <2>2, Zenon DEF NodeType
  <2> HIDE DEF now
  <2> QED
    BY <1>0, <2>2, <2>3, ZenonT(30) DEF NodeType, Same, SameSent
<1> HIDE DEF now
<1>8. Good(n, S, now) /\ FieldTypes(now)
  BY <1>7, GoodSame, Fields DEF Good
<1>9. CASE live = 0
  <2>1. PICK b \in BOOLEAN : b = FALSE
    OBVIOUS
  <2>2. quiet = [now EXCEPT !.sending = b]
    BY <2>1
  <2>3. quiet \in NodeType
    BY <1>7, <2>2, Zenon DEF NodeType
  <2>4. SameSent(now, quiet) /\ quiet.ctl = now.ctl /\ quiet.out = now.out
    BY <1>7, SMT DEF NodeType, Same, SameSent
  <2> HIDE DEF quiet
  <2>5. Good(n, S, quiet)
    BY <1>7, <1>8, <2>3, <2>4, GoodSame
  <2>6. SameSent(nd, quiet)
    BY <1>7, <2>4, Zenon DEF SameSent, Same
  <2>7. e = quiet
    BY <1>5, <1>9
  <2>8. Same(nd, e) /\ SentOne(nd, e, n)
    BY <2>6, <2>7 DEF SameSent, SentOne
  <2> QED
    BY <2>5, <2>7, <2>8 DEF e
<1>10. CASE live # 0 /\ nd.ctl[r] # CtlNone
  <2> DEFINE l == [now.ctl EXCEPT ![r] = CtlNone]
             c == CtlFrame(nd.ctl[r])
  <2>1. l \in [Node -> [ctl : {"none", "ack", "nack", "sync"}, seqid : Nat]]
    BY <1>1, <1>7 DEF CtlNone
  <2>2. \A x \in Node : l[x] = IF x = r THEN CtlNone ELSE now.ctl[x]
    BY <1>1, <1>7
  <2>3. less = [now EXCEPT !.ctl = l]
    OBVIOUS
  <2>4. IsCtl(nd.ctl[r]) /\ CtlOK(nd, r, S[r], nd.ctl[r])
    BY <1>4, <1>10 DEF Good
  <2>5. c \in Frame /\ c.type = "ctl" /\ c.ctl = nd.ctl[r].ctl /\ c.seqid = nd.ctl[r].seqid
    BY <2>4, SMT DEF CtlFrame, Frame, IsCtl
  <2> HIDE DEF l, less, c
  <2>6. less \in NodeType
    BY <1>7, <2>1, <2>3, Zenon DEF NodeType
  <2>7. SameSent(now, less) /\ less.ctl = l /\ less.out = now.out
    BY <1>7, <2>3, SMT DEF NodeType, Same, SameSent
  <2>8. SameSent(nd, less) /\ less.out = <<>>
    BY <1>7, <2>7, Zenon DEF SameSent, Same
  <2>9. ASSUME NEW x \in Node
        PROVE  /\ SendOK(n, less, x) /\ CtlOK(less, x, S[x], less.ctl[x])
               /\ less.ctl[x] # CtlNone => IsCtl(less.ctl[x])
    <3>1. SendOK(n, less, x)
      BY <2>8, SendSame DEF Good
    <3>2. CtlOK(nd, x, S[x], l[x]) /\ (l[x] # CtlNone => IsCtl(l[x]))
      <4>1. CtlOK(nd, x, S[x], CtlNone)
        BY DEF CtlOK, CtlNone
      <4> QED
        BY <1>7, <2>2, <4>1 DEF Good
    <3> QED
      BY <2>7, <2>8, <3>1, <3>2, CtlSame
  <2>10. Good(n, S, less)
    <3>1. Len(less.out) = 0
      BY <2>8
    <3> QED
      BY <2>6, <2>8, <2>9, <3>1 DEF Good
  <2>11. FrameOK(less, r, S[r], c)
    BY <2>4, <2>5, <2>8 DEF FrameOK, CtlOK, SameSent, Same
  <2>12. Good(n, S, e) /\ SameSent(less, e)
    BY <1>4, <1>5, <1>10, <2>5, <2>10, <2>11, TransmitOK DEF c
  <2>13. SameSent(nd, e)
    BY <2>8, <2>12, Zenon DEF SameSent, Same
  <2> QED
    BY <2>12, <2>13 DEF SameSent, SentOne, e
<1>11. CASE live # 0 /\ nd.ctl[r] = CtlNone
  <2>1. Good(n, S, e) /\ Same(now, e) /\ SentOne(now, e, r)
    BY <1>4, <1>5, <1>8, <1>11, SendAnyOK
  <2>2. Same(nd, e) /\ SentOne(nd, e, r)
    BY <1>7, <2>1, Zenon DEF SameSent, Same, SentOne
  <2> QED
    BY <1>4, <1>11, <2>1, <2>2 DEF e
<1> QED
  BY <1>9, <1>10, <1>11

-----------------------------------------------------------------------------
(* The entry points.                                                       *)

\* What a routine does to node n's record: r has sent S[r], and has received
\* up to V[r].  A message that is let go of is the first one, when r has seen
\* its last packet.
Step(nd, e, S, V) ==
    /\ Keeps(nd, e)
    /\ \A r \in Node : e.last_unacked[r] <= V[r] + 1 /\ e.rcvd_seqid[r] <= S[r]
    /\ \A r \in Node : \A i \in 1 .. Len(e.log[r]) - Len(e.packet[r]) :
          /\ e.log[r][i] = nd.log[r][i]
          /\ \/ i <= Len(nd.log[r]) - Len(nd.packet[r])
             \/ /\ nd.packet[r] # <<>> /\ nd.log[r][i] = Head(nd.packet[r])
                /\ LastSeqid(nd, r) <= V[r]

\* The receiving half of a record, which nothing but receiving changes.
SameReceived(nd, e) ==
    /\ e.rcvd_seqid = nd.rcvd_seqid /\ e.incomplete = nd.incomplete /\ e.complete = nd.complete

\* The window agrees before the step.
Agrees(nd, S, V) ==
    /\ S \in [Node -> Nat] /\ V \in [Node -> Nat]
    /\ \A r \in Node : /\ nd.last_unacked[r] <= V[r] + 1 /\ V[r] <= nd.sent_seqid[r]
                       /\ nd.rcvd_seqid[r] <= S[r]

\* What a window is about but for the packet sent last.
SameQueue(nd, e) ==
    /\ e.log = nd.log /\ e.packet = nd.packet /\ e.first = nd.first
    /\ e.last_unacked = nd.last_unacked /\ e.rcvd_seqid = nd.rcvd_seqid

\* Sending the next packet of a message is a step.
LEMMA StepQueue ==
    ASSUME NEW n \in Node, NEW S, NEW V, NEW nd, NEW e, Good(n, S, nd), Good(n, S, e),
           Agrees(nd, S, V), SameQueue(nd, e), NEW x \in Node, SentOne(nd, e, x)
    PROVE  Step(nd, e, S, V)
<1>0. FieldTypes(nd)
  BY Fields DEF Good
<1>1. nd.sent_seqid \in [Node -> Nat] /\ nd.rcvd_seqid \in [Node -> Nat]
  BY <1>0 DEF FieldTypes
<1>2. \A r \in Node : nd.sent_seqid[r] <= e.sent_seqid[r] /\ nd.rcvd_seqid[r] <= e.rcvd_seqid[r]
  <2>1. \A r \in Node : nd.sent_seqid[r] <= nd.sent_seqid[r] + 1 /\ nd.sent_seqid[r] <= nd.sent_seqid[r]
                     /\ nd.rcvd_seqid[r] <= nd.rcvd_seqid[r]
    BY <1>1, SMT
  <2>2. \A r \in Node : e.sent_seqid[r] = nd.sent_seqid[r] \/ e.sent_seqid[r] = nd.sent_seqid[r] + 1
    BY <1>1 DEF SentOne
  <2>3. e.rcvd_seqid = nd.rcvd_seqid
    BY DEF SameQueue
  <2> QED
    BY <2>1, <2>2, <2>3
<1>3. Keeps(nd, e)
  BY <1>2, Zenon DEF Keeps, SameQueue
<1>4. \A r \in Node : e.last_unacked[r] <= V[r] + 1 /\ e.rcvd_seqid[r] <= S[r]
  BY Zenon DEF Agrees, SameQueue
<1>5. ASSUME NEW y \in Node, NEW i \in 1 .. Len(e.log[y]) - Len(e.packet[y])
      PROVE  e.log[y][i] = nd.log[y][i] /\ i <= Len(nd.log[y]) - Len(nd.packet[y])
  <2>1. e.log = nd.log /\ e.packet = nd.packet
    BY DEF SameQueue
  <2>2. Len(nd.log[y]) \in Nat /\ Len(nd.packet[y]) \in Nat
    <3>1. nd.log[y] \in Seq(Message) /\ nd.packet[y] \in Seq(Message)
      BY <1>0 DEF FieldTypes
    <3> QED
      BY <3>1, LenNat
  <2>3. i <= Len(nd.log[y]) - Len(nd.packet[y])
    BY <2>1, <2>2, SMT
  <2> QED
    BY <2>1, <2>3
<1> QED
  BY <1>3, <1>4, <1>5, Zenon DEF Step

\* What leaves the window but sends a packet at most is a step.
LEMMA StepSame ==
    ASSUME NEW n \in Node, NEW S, NEW V, NEW nd, NEW e, Good(n, S, nd), Good(n, S, e),
           Agrees(nd, S, V), Same(nd, e), NEW x \in Node, SentOne(nd, e, x)
    PROVE  Step(nd, e, S, V)
<1>1. SameQueue(nd, e)
  BY DEF Same, SameQueue
<1> QED
  BY <1>1, StepQueue

\* So is what leaves the window,
LEMMA StepWindow ==
    ASSUME NEW n \in Node, NEW S, NEW V, NEW nd, NEW e, Good(n, S, nd), Good(n, S, e),
           Agrees(nd, S, V), SameWindow(nd, e)
    PROVE  Step(nd, e, S, V)
  BY StepQueue DEF SameWindow, SameQueue, SentOne

\* and what changes lists and timers only.
LEMMA StepSameSent ==
    ASSUME NEW n \in Node, NEW S, NEW V, NEW nd, NEW e, Good(n, S, nd), Good(n, S, e),
           Agrees(nd, S, V), SameSent(nd, e)
    PROVE  Step(nd, e, S, V)
  BY StepWindow, WindowSame

\* A sequence with an element more.
LEMMA Appended ==
    ASSUME NEW X, NEW s \in Seq(X), NEW m \in X
    PROVE  /\ Append(s, m) \in Seq(X) /\ Append(s, m) # <<>>
           /\ Len(s) \in Nat /\ Len(Append(s, m)) = Len(s) + 1
           /\ \A i \in 1 .. Len(s) : Append(s, m)[i] = s[i]
           /\ Append(s, m)[Len(s) + 1] = m
           /\ s = <<>> => Head(Append(s, m)) = m
           /\ s # <<>> => Head(Append(s, m)) = Head(s) /\ Len(s) # 0
<1>1. /\ Append(s, m) \in Seq(X) /\ Len(s) \in Nat /\ Len(Append(s, m)) = Len(s) + 1
      /\ \A i \in 1 .. Len(s) : Append(s, m)[i] = s[i]
      /\ Append(s, m)[Len(s) + 1] = m
  OBVIOUS
<1>2. Append(s, m) # <<>>
  <2>1. Len(Append(s, m)) # 0 /\ Len(<<>>) = 0
    BY <1>1, SMT
  <2> QED
    BY <2>1
<1>3. s = <<>> => Head(Append(s, m)) = m
  OBVIOUS
<1>4. s # <<>> => Len(s) # 0
  OBVIOUS
<1>5. s # <<>> => Head(Append(s, m)) = Head(s)
  <2>1. s # <<>> => 1 \in 1 .. Len(s)
    BY <1>1, <1>4, SMT
  <2>2. s # <<>> => Head(s) = s[1]
    OBVIOUS
  <2>3. Head(Append(s, m)) = Append(s, m)[1]
    BY <1>1, <1>2
  <2> QED
    BY <1>1, <2>1, <2>2, <2>3
<1> QED
  BY <1>1, <1>2, <1>3, <1>4, <1>5

\* norma_ipc_send.
LEMMA SendStep ==
    ASSUME NEW n \in Node, NEW S, NEW V, NEW nd, Good(n, S, nd),
           Agrees(nd, S, V), NEW r \in Node, NEW shape \in Shapes[n]
    PROVE  LET e == norma_ipc_send(nd, r, shape)
           IN  Good(n, S, e) /\ Step(nd, e, S, V) /\ SameReceived(nd, e)
<1>0. nd \in NodeType /\ FieldTypes(nd)
  BY Fields DEF Good
<1> DEFINE m == [id |-> Len(nd.log[r]) + 1, shape |-> shape]
           first == IF nd.packet[r] = <<>> THEN nd.sent_seqid[r] + 1 ELSE nd.first[r]
           g == [nd.log EXCEPT ![r] = Append(@, m)]
           p == [nd.packet EXCEPT ![r] = Append(@, m)]
           f == [nd.first EXCEPT ![r] = first]
           q == [nd EXCEPT !.log = g, !.packet = p, !.first = f]
           e == netipc_send_any(q, r)
<1>1. norma_ipc_send(nd, r, shape) = e
  BY DEF norma_ipc_send
<1>2. /\ nd.log \in [Node -> Seq(Message)] /\ nd.packet \in [Node -> Seq(Message)]
      /\ nd.first \in [Node -> Nat] /\ nd.sent_seqid \in [Node -> Nat]
      /\ nd.last_unacked \in [Node -> Nat] /\ nd.rcvd_seqid \in [Node -> Nat]
  BY <1>0 DEF FieldTypes
<1>3. shape \in Seq(BOOLEAN)
  BY BoundsAssumption DEF BoundsAssumption
<1>4. m \in Message /\ m.id = Len(nd.log[r]) + 1 /\ m.shape = shape /\ first \in Nat
  <2>1. Len(nd.log[r]) + 1 \in Nat /\ nd.sent_seqid[r] + 1 \in Nat /\ nd.first[r] \in Nat
    <3>1. nd.log[r] \in Seq(Message) /\ nd.sent_seqid[r] \in Nat /\ nd.first[r] \in Nat
      BY <1>2
    <3>2. Len(nd.log[r]) \in Nat
      BY <3>1, LenNat
    <3> QED
      BY <3>1, <3>2, SMT
  <2> QED
    BY <1>3, <2>1 DEF Message
<1> HIDE DEF m, first
<1>5. /\ g \in [Node -> Seq(Message)] /\ p \in [Node -> Seq(Message)] /\ f \in [Node -> Nat]
      /\ g[r] = Append(nd.log[r], m) /\ p[r] = Append(nd.packet[r], m) /\ f[r] = first
      /\ \A x \in Node : x # r => g[x] = nd.log[x] /\ p[x] = nd.packet[x] /\ f[x] = nd.first[x]
  <2>1. Append(nd.log[r], m) \in Seq(Message) /\ Append(nd.packet[r], m) \in Seq(Message)
    <3>1. nd.log[r] \in Seq(Message) /\ nd.packet[r] \in Seq(Message)
      BY <1>2
    <3> QED
      BY <1>4, <3>1, Appended
  <2> QED
    BY <1>2, <1>4, <2>1, Zenon
<1> HIDE DEF g, p, f
<1>6. q \in NodeType
  BY <1>0, <1>5, Zenon DEF NodeType
<1>7. /\ q.log = g /\ q.packet = p /\ q.first = f
      /\ q.sent_seqid = nd.sent_seqid /\ q.last_unacked = nd.last_unacked
      /\ q.rcvd_seqid = nd.rcvd_seqid /\ q.ctl = nd.ctl /\ q.out = nd.out /\ q.sending = nd.sending
      /\ q.incomplete = nd.incomplete /\ q.complete = nd.complete
  BY <1>0, Zenon DEF NodeType
<1> HIDE DEF q
<1> DEFINE L == nd.log[r]
           P == nd.packet[r]
<1>8. /\ L \in Seq(Message) /\ P \in Seq(Message) /\ Len(L) \in Nat /\ Len(P) \in Nat
      /\ Len(Append(L, m)) = Len(L) + 1 /\ Len(Append(P, m)) = Len(P) + 1
      /\ \A i \in 1 .. Len(L) : Append(L, m)[i] = L[i]
      /\ \A i \in 1 .. Len(P) : Append(P, m)[i] = P[i]
      /\ Append(L, m)[Len(L) + 1] = m /\ Append(P, m)[Len(P) + 1] = m
      /\ Append(P, m) # <<>>
      /\ P = <<>> => Head(Append(P, m)) = m
      /\ P # <<>> => Head(Append(P, m)) = Head(P) /\ Len(P) # 0
  <2>1. L \in Seq(Message) /\ P \in Seq(Message)
    BY <1>2
  <2> HIDE DEF L, P
  <2> QED
    BY <1>4, <2>1, Appended
<1>9. SendOK(n, nd, r)
  BY DEF Good
<1>10. SendOK(n, q, r)
  <2>1. q.packet[r] # <<>> /\ q.first[r] <= nd.last_unacked[r] /\ nd.last_unacked[r] <= LastSeqid(q, r)
    <3>1. CASE P = <<>>
      <4>1. nd.last_unacked[r] = nd.sent_seqid[r] + 1 /\ first = nd.sent_seqid[r] + 1
        BY <1>9, <3>1 DEF SendOK, first
      <4>2. LastSeqid(q, r) = first + Len(shape)
        BY <1>4, <1>5, <1>7, <1>8, <3>1 DEF LastSeqid
      <4>3. Len(shape) \in Nat
        BY <1>3
      <4>4. q.first[r] = first /\ q.packet[r] # <<>>
        BY <1>5, <1>7, <1>8
      <4>5. first <= nd.last_unacked[r] /\ nd.last_unacked[r] <= first + Len(shape)
        <5>1. nd.last_unacked[r] \in Nat
          BY <1>2
        <5> QED
          BY <1>4, <4>1, <4>3, <5>1, SMT
      <4> QED
        BY <4>2, <4>4, <4>5
    <3>2. CASE P # <<>>
      <4>1. first = nd.first[r] /\ LastSeqid(q, r) = LastSeqid(nd, r)
        BY <1>5, <1>7, <1>8, <3>2 DEF LastSeqid, first
      <4>2. nd.first[r] <= nd.last_unacked[r] /\ nd.last_unacked[r] <= LastSeqid(nd, r)
        BY <1>9, <3>2 DEF SendOK
      <4> QED
        BY <1>5, <1>7, <1>8, <4>1, <4>2
    <3> QED
      BY <3>1, <3>2
  <2> HIDE DEF L, P
  <2>2. /\ Len(P) <= Len(L)
        /\ \A i \in 1 .. Len(P) : P[i] = L[Len(L) - Len(P) + i]
        /\ \A i \in 1 .. Len(L) : L[i].id = i /\ L[i].shape \in Shapes[n]
    BY <1>9, Zenon DEF SendOK, L, P
  <2>3. Len(P) + 1 <= Len(L) + 1
    BY <1>8, <2>2, SMT
  <2>4. ASSUME NEW i \in 1 .. Len(P) + 1
        PROVE  Append(P, m)[i] = Append(L, m)[(Len(L) + 1) - (Len(P) + 1) + i]
    <3>1. CASE i = Len(P) + 1
      <4>1. (Len(L) + 1) - (Len(P) + 1) + i = Len(L) + 1
        BY <1>8, <3>1, SMT
      <4> QED
        BY <1>8, <3>1, <4>1
    <3>2. CASE i # Len(P) + 1
      <4>1. /\ i \in 1 .. Len(P) /\ (Len(L) + 1) - (Len(P) + 1) + i = Len(L) - Len(P) + i
            /\ Len(L) - Len(P) + i \in 1 .. Len(L)
        <5>1. Len(L) \in Nat /\ Len(P) \in Nat /\ Len(P) <= Len(L)
          BY <1>8, <2>2
        <5> QED
          BY <3>2, <5>1, SMT
      <4> QED
        BY <1>8, <2>2, <4>1
    <3> QED
      BY <3>1, <3>2
  <2>5. ASSUME NEW i \in 1 .. Len(L) + 1
        PROVE  Append(L, m)[i].id = i /\ Append(L, m)[i].shape \in Shapes[n]
    <3>1. CASE i = Len(L) + 1
      BY <1>4, <1>8, <3>1 DEF L
    <3>2. CASE i # Len(L) + 1
      <4>1. i \in 1 .. Len(L)
        BY <1>8, <3>2, SMT
      <4> QED
        BY <1>8, <2>2, <4>1
    <3> QED
      BY <3>1, <3>2
  <2>6. q.log[r] = Append(L, m) /\ q.packet[r] = Append(P, m)
    BY <1>5, <1>7 DEF L, P
  <2>7. nd.sent_seqid[r] <= nd.last_unacked[r] /\ nd.last_unacked[r] <= nd.sent_seqid[r] + 1
    BY <1>9 DEF SendOK
  <2>8. Len(q.log[r]) = Len(L) + 1 /\ Len(q.packet[r]) = Len(P) + 1
    BY <1>8, <2>6
  <2>9. \A i \in 1 .. Len(q.packet[r]) :
           q.packet[r][i] = q.log[r][Len(q.log[r]) - Len(q.packet[r]) + i]
    BY <2>4, <2>6, <2>8, Zenon
  <2>10. \A i \in 1 .. Len(q.log[r]) : q.log[r][i].id = i /\ q.log[r][i].shape \in Shapes[n]
    BY <2>5, <2>6, <2>8, Zenon
  <2>11. Len(q.packet[r]) <= Len(q.log[r])
    BY <2>3, <2>8
  <2> QED
    BY <1>7, <2>1, <2>7, <2>9, <2>10, <2>11, Zenon DEF SendOK
<1>11. ASSUME NEW x \in Node PROVE SendOK(n, q, x) /\ CtlOK(q, x, S[x], q.ctl[x])
  <2>1. CtlOK(q, x, S[x], q.ctl[x])
    BY <1>7 DEF CtlOK, Good
  <2>2. CASE x # r
    <3>1. SendOK(n, nd, x) /\ LastSeqid(q, x) = LastSeqid(nd, x)
      BY <1>5, <1>7, <2>2 DEF Good, LastSeqid
    <3>2. q.log[x] = nd.log[x] /\ q.packet[x] = nd.packet[x] /\ q.first[x] = nd.first[x]
      BY <1>5, <1>7, <2>2
    <3>3. SendOK(n, q, x)
      BY <1>7, <3>1, <3>2, Zenon DEF SendOK
    <3> QED
      BY <2>1, <3>3
  <2> QED
    BY <1>10, <2>1, <2>2
<1>12. Keeps(nd, q)
  <2> SUFFICES ASSUME NEW x \in Node, q.packet[x] # <<>>, q.first[x] <= nd.sent_seqid[x]
               PROVE  /\ nd.packet[x] # <<>> /\ q.first[x] = nd.first[x]
                      /\ Head(q.packet[x]) = Head(nd.packet[x])
    <3>1. \A x \in Node : nd.sent_seqid[x] <= q.sent_seqid[x] /\ nd.rcvd_seqid[x] <= q.rcvd_seqid[x]
      <4>1. \A x \in Node : nd.sent_seqid[x] \in Nat /\ nd.rcvd_seqid[x] \in Nat
        BY <1>2
      <4>2. \A x \in Node : nd.sent_seqid[x] <= nd.sent_seqid[x] /\ nd.rcvd_seqid[x] <= nd.rcvd_seqid[x]
        BY <4>1, SMT
      <4> QED
        BY <1>7, <4>2
    <3> QED
      BY <3>1, Zenon DEF Keeps
  <2>1. CASE x # r
    BY <1>5, <1>7, <2>1
  <2>2. CASE x = r
    <3>1. P # <<>>
      <4> SUFFICES ASSUME P = <<>> PROVE FALSE
        OBVIOUS
      <4>1. q.first[r] = nd.sent_seqid[r] + 1 /\ nd.sent_seqid[r] \in Nat
        BY <1>2, <1>5, <1>7 DEF first
      <4> QED
        BY <2>2, <4>1, SMT
    <3> QED
      BY <1>5, <1>7, <1>8, <2>2, <3>1 DEF first
  <2> QED
    BY <2>1, <2>2
<1>13. Good(n, S, q)
  <2>1. \A i \in 1 .. Len(q.out) : FrameOK(q, q.out[i].to, S[q.out[i].to], q.out[i].frame)
    <3> SUFFICES ASSUME NEW i \in 1 .. Len(q.out)
                 PROVE  FrameOK(q, q.out[i].to, S[q.out[i].to], q.out[i].frame)
      OBVIOUS
    <3>1. nd.out \in Seq([to : Node, frame : Frame])
      BY <1>0 DEF FieldTypes
    <3>2. /\ q.out[i].to \in Node /\ q.out[i].frame \in Frame
          /\ FrameOK(nd, q.out[i].to, S[q.out[i].to], q.out[i].frame)
      <4>1. nd.out[i] \in [to : Node, frame : Frame]
        <5>1. i \in 1 .. Len(nd.out)
          BY <1>7
        <5> QED
          BY <3>1, <5>1, ElementIs
      <4>2. FrameOK(nd, nd.out[i].to, S[nd.out[i].to], nd.out[i].frame)
        BY <1>7 DEF Good
      <4> QED
        BY <1>7, <4>1, <4>2
    <3>3. S[q.out[i].to] \in Nat /\ S[q.out[i].to] <= S[q.out[i].to]
      <4>1. S[q.out[i].to] \in Nat
        BY <3>2 DEF Agrees
      <4> QED
        BY <4>1, SMT
    <3> QED
      BY <1>0, <1>6, <1>12, <3>2, <3>3, FrameKept
  <2>2. \A x \in Node : q.ctl[x] # CtlNone => IsCtl(q.ctl[x])
    BY <1>7 DEF Good
  <2>3. q.out # <<>> => q.sending
    BY <1>7 DEF Good
  <2> QED
    BY <1>6, <1>11, <2>1, <2>2, <2>3 DEF Good
<1>14. Good(n, S, e) /\ Same(q, e) /\ SentOne(q, e, r)
  BY <1>13, SendAnyOK
<1>15. Agrees(q, S, V)
  BY <1>7 DEF Agrees
<1>16. Step(q, e, S, V)
  <2> HIDE DEF e
  <2> QED
    BY <1>13, <1>14, <1>15, StepSame
<1>17. Keeps(nd, e)
  <2> HIDE DEF e
  <2>1. \A x \in Node : /\ nd.sent_seqid[x] = q.sent_seqid[x] /\ nd.rcvd_seqid[x] = q.rcvd_seqid[x]
    BY <1>7
  <2> QED
    BY <1>12, <1>16, <2>1, Zenon DEF Keeps, Step
<1>18. ASSUME NEW x \in Node, NEW i \in 1 .. Len(e.log[x]) - Len(e.packet[x])
       PROVE  e.log[x][i] = nd.log[x][i] /\ i <= Len(nd.log[x]) - Len(nd.packet[x])
  <2> HIDE DEF e
  <2>1. e.log = g /\ e.packet = p
    BY <1>7, <1>14, Zenon DEF Same
  <2>2. nd.log[x] \in Seq(Message) /\ nd.packet[x] \in Seq(Message)
    BY <1>2
  <2>3. Len(nd.log[x]) \in Nat /\ Len(nd.packet[x]) \in Nat
    BY <2>2, LenNat
  <2>4. CASE x # r
    <3>1. e.log[x] = nd.log[x] /\ e.packet[x] = nd.packet[x]
      BY <1>5, <2>1, <2>4
    <3> QED
      BY <2>3, <3>1, SMT
  <2>5. CASE x = r
    <3>1. e.log[x] = Append(L, m) /\ e.packet[x] = Append(P, m)
      BY <1>5, <2>1, <2>5
    <3>2. Len(e.log[x]) = Len(L) + 1 /\ Len(e.packet[x]) = Len(P) + 1
      BY <1>8, <3>1
    <3>3. i <= Len(L) - Len(P) /\ i \in 1 .. Len(L)
      <4> HIDE DEF L, P
      <4> QED
        BY <1>8, <3>2, SMT
    <3> QED
      BY <1>8, <2>5, <3>1, <3>3
  <2> QED
    BY <2>4, <2>5
<1>19. Step(nd, e, S, V)
  <2> HIDE DEF e
  <2>1. \A x \in Node : e.last_unacked[x] <= V[x] + 1 /\ e.rcvd_seqid[x] <= S[x]
    BY <1>16, Zenon DEF Step
  <2> QED
    BY <1>17, <1>18, <2>1, Zenon DEF Step
<1>20. SameReceived(nd, e)
  <2> HIDE DEF e
  <2> QED
    BY <1>7, <1>14, Zenon DEF SameReceived, Same
<1> QED
  BY <1>1, <1>14, <1>19, <1>20

\* A step that sends nothing, and then the next packet.
LEMMA StepThen ==
    ASSUME NEW n \in Node, NEW S, NEW V, NEW nd, NEW q, NEW e, Good(n, S, nd), Good(n, S, q),
           Good(n, S, e), Agrees(nd, S, V), Step(nd, q, S, V), q.sent_seqid = nd.sent_seqid,
           Same(q, e), NEW x \in Node, SentOne(q, e, x)
    PROVE  Step(nd, e, S, V)
<1>1. Agrees(q, S, V)
  BY DEF Agrees, Step
<1>2. Step(q, e, S, V)
  BY <1>1, StepSame
<1>3. \A r \in Node : /\ nd.sent_seqid[r] <= e.sent_seqid[r] /\ nd.rcvd_seqid[r] <= e.rcvd_seqid[r]
  BY <1>2, Zenon DEF Step, Keeps, Same
<1>4. ASSUME NEW r \in Node, e.packet[r] # <<>>, e.first[r] <= nd.sent_seqid[r]
      PROVE  /\ nd.packet[r] # <<>> /\ e.first[r] = nd.first[r]
             /\ Head(e.packet[r]) = Head(nd.packet[r])
  BY <1>4, ZenonT(30) DEF Step, Keeps, Same
<1>5. Keeps(nd, e)
  BY <1>3, <1>4 DEF Keeps
<1>6. \A r \in Node : e.last_unacked[r] <= V[r] + 1 /\ e.rcvd_seqid[r] <= S[r]
  BY <1>2 DEF Step
<1>7. e.log = q.log /\ e.packet = q.packet
  BY DEF Same
<1>8. ASSUME NEW y \in Node, NEW i \in 1 .. Len(e.log[y]) - Len(e.packet[y])
      PROVE  /\ e.log[y][i] = nd.log[y][i]
             /\ \/ i <= Len(nd.log[y]) - Len(nd.packet[y])
                \/ /\ nd.packet[y] # <<>> /\ nd.log[y][i] = Head(nd.packet[y])
                   /\ LastSeqid(nd, y) <= V[y]
  <2>1. \A j \in 1 .. Len(q.log[y]) - Len(q.packet[y]) :
           /\ q.log[y][j] = nd.log[y][j]
           /\ \/ j <= Len(nd.log[y]) - Len(nd.packet[y])
              \/ /\ nd.packet[y] # <<>> /\ nd.log[y][j] = Head(nd.packet[y])
                 /\ LastSeqid(nd, y) <= V[y]
    BY Zenon DEF Step
  <2> QED
    BY <1>7, <2>1, Zenon
<1> QED
  BY <1>5, <1>6, <1>8 DEF Step

\* netipc_acknowledged: with a window of one, what is acknowledged is the
\* packet sent last.
LEMMA AcknowledgedStep ==
    ASSUME NEW n \in Node, NEW S, NEW V, NEW nd, Good(n, S, nd), Agrees(nd, S, V), nd.out = <<>>,
           NEW r \in Node, NEW seqid \in Nat, seqid <= V[r]
    PROVE  LET e == netipc_acknowledged(nd, r, seqid)
           IN  Good(n, S, e) /\ Step(nd, e, S, V) /\ SameReceived(nd, e)
<1>0. nd \in NodeType /\ FieldTypes(nd)
  BY Fields DEF Good
<1> DEFINE slots == [nd.sent_packet[r] EXCEPT ![seqid % WX] = FALSE]
           I == {u \in nd.last_unacked[r] .. nd.sent_seqid[r] + 1 :
                        u = nd.sent_seqid[r] + 1 \/ slots[u % WX]}
           acked == [nd EXCEPT !.sent_packet[r] = slots,
                               !.last_unacked[r] = IF seqid = @ THEN Min(I) ELSE @]
           freed == [acked EXCEPT !.packet[r] = Tail(@),
                                  !.first[r] = nd.sent_seqid[r] + 1]
           e == netipc_acknowledged(nd, r, seqid)
           old == seqid < nd.last_unacked[r] \/ ~nd.sent_packet[r][seqid % WX]
<1>1. e = IF old THEN nd
          ELSE IF ~AllAcked(acked, r) THEN netipc_send_any(acked, r)
          ELSE IF freed.packet[r] = <<>> THEN freed
          ELSE netipc_send_any(freed, r)
  BY DEF netipc_acknowledged
<1> HIDE DEF e
<1>2. CASE old
  <2>1. e = nd
    BY <1>1, <1>2
  <2>2. SameSent(nd, nd) /\ SameReceived(nd, nd)
    BY DEF SameSent, Same, SameReceived
  <2>3. Step(nd, nd, S, V)
    BY <2>2, StepSameSent
  <2> QED
    BY <2>1, <2>2, <2>3 DEF e
<1>3. CASE ~old
  <2>1. /\ nd.sent_packet \in [Node -> [0 .. WX - 1 -> BOOLEAN]]
        /\ nd.last_unacked \in [Node -> Nat] /\ nd.sent_seqid \in [Node -> Nat]
        /\ nd.first \in [Node -> Nat] /\ nd.packet \in [Node -> Seq(Message)]
        /\ nd.log \in [Node -> Seq(Message)] /\ nd.rcvd_seqid \in [Node -> Nat]
    BY <1>0 DEF FieldTypes
  <2>2. SendOK(n, nd, r)
    BY DEF Good
  <2> DEFINE s == nd.sent_seqid[r]
  <2>3. s \in Nat /\ nd.last_unacked[r] \in Nat
    BY <2>1
  <2>4. seqid = s /\ nd.last_unacked[r] = s /\ V[r] = s
    <3>1. V[r] \in Nat /\ V[r] <= s /\ s <= nd.last_unacked[r] /\ seqid >= nd.last_unacked[r]
      <4>1. ~(seqid < nd.last_unacked[r])
        BY <1>3
      <4> QED
        BY <2>2, <2>3, <4>1, SMT DEF Agrees, SendOK
    <3> HIDE DEF s
    <3> QED
      BY <2>3, <3>1, SMT
  <2>5. Min(I) = s + 1
    <3>1. 0 .. WX - 1 = 0 .. 1 /\ s % WX \in 0 .. 1
      <4> HIDE DEF s
      <4> QED
        BY <2>3, SMT DEF WX, MAX_WINDOW_SIZE
    <3>2. ~slots[s % WX]
      <4>1. nd.sent_packet[r] \in [0 .. 1 -> BOOLEAN]
        BY <2>1, <3>1
      <4> QED
        BY <2>4, <3>1, <4>1
    <3>3. I \in SUBSET Nat /\ s + 1 \in I /\ s \notin I /\ \A u \in I : u \in s .. s + 1
      <4> HIDE DEF slots
      <4> QED
        BY <2>3, <2>4, <3>2, SMT
    <3> HIDE DEF I, s
    <3>4. Min(I) \in s .. s + 1 /\ Min(I) # s
      <4>1. Min(I) \in I
        BY <3>3, MinIs
      <4> QED
        BY <3>3, <4>1
    <3> QED
      BY <2>3, <3>4, SMT
  <2> DEFINE k == [nd.sent_packet EXCEPT ![r] = slots]
             u == [nd.last_unacked EXCEPT ![r] = s + 1]
  <2>6. acked = [nd EXCEPT !.sent_packet = k, !.last_unacked = u]
    BY <2>4, <2>5
  <2>7. k \in [Node -> [0 .. WX - 1 -> BOOLEAN]] /\ u \in [Node -> Nat] /\ u[r] = s + 1
        /\ \A x \in Node : x # r => u[x] = nd.last_unacked[x]
    <3>1. slots \in [0 .. WX - 1 -> BOOLEAN]
      BY <2>1
    <3>2. s + 1 \in Nat
      BY <2>3
    <3> HIDE DEF slots, s
    <3> QED
      BY <2>1, <3>1, <3>2
  <2>8. nd.packet[r] # <<>>
    <3>1. nd.last_unacked[r] # s + 1
      BY <2>3, <2>4, SMT
    <3> QED
      BY <2>2, <3>1 DEF SendOK
  <2> HIDE DEF acked, k, u
  <2>9. acked \in NodeType
    BY <1>0, <2>6, <2>7, Zenon DEF NodeType
  <2>10. /\ acked.log = nd.log /\ acked.packet = nd.packet /\ acked.first = nd.first
         /\ acked.sent_seqid = nd.sent_seqid /\ acked.last_unacked = u
         /\ acked.rcvd_seqid = nd.rcvd_seqid /\ acked.ctl = nd.ctl /\ acked.out = nd.out
         /\ acked.incomplete = nd.incomplete /\ acked.complete = nd.complete
    BY <1>0, <2>6, Zenon DEF NodeType
  <2>11. \A x \in Node : LastSeqid(acked, x) = LastSeqid(nd, x)
    BY <2>10 DEF LastSeqid
  <2>12. \A x \in Node : CtlOK(acked, x, S[x], acked.ctl[x])
    BY <2>10 DEF CtlOK, Good
  <2>13. ASSUME NEW x \in Node PROVE u[x] <= V[x] + 1
    <3>1. CASE x = r
      BY <2>3, <2>4, <2>7, <3>1, SMT
    <3>2. CASE x # r
      BY <2>7, <3>2 DEF Agrees
    <3> QED
      BY <3>1, <3>2
  <2>14. \A x \in Node : x # r => SendOK(n, acked, x)
    <3> SUFFICES ASSUME NEW x \in Node, x # r PROVE SendOK(n, acked, x)
      OBVIOUS
    <3>1. SendOK(n, nd, x)
      BY DEF Good
    <3>2. acked.last_unacked[x] = nd.last_unacked[x] /\ LastSeqid(acked, x) = LastSeqid(nd, x)
      BY <2>7, <2>10, <2>11
    <3> QED
      BY <2>10, <3>1, <3>2, Zenon DEF SendOK
  <2>15. s <= s + 1 /\ s + 1 <= s + 1
    BY <2>3, SMT
  <2>16. CASE ~AllAcked(acked, r)
    <3>1. s + 1 <= LastSeqid(nd, r)
      <4>1. LastSeqid(nd, r) \in Nat
        BY <1>0, <2>8, LastSeqidIs
      <4>2. ~(LastSeqid(nd, r) < s + 1)
        BY <2>7, <2>10, <2>11, <2>16 DEF AllAcked
      <4> QED
        BY <2>3, <4>1, <4>2, SMT
    <3>2. SendOK(n, acked, r)
      <4>1. acked.packet[r] # <<>>
        BY <2>8, <2>10
      <4>2. acked.first[r] <= acked.last_unacked[r] /\ acked.last_unacked[r] <= LastSeqid(acked, r)
        <5>1. nd.first[r] <= s
          BY <2>2, <2>4, <2>8 DEF SendOK
        <5>2. nd.first[r] <= s + 1
          BY <2>1, <2>3, <5>1, SMT
        <5> QED
          BY <2>7, <2>10, <2>11, <3>1, <5>2
      <4>3. /\ acked.sent_seqid[r] <= acked.last_unacked[r]
            /\ acked.last_unacked[r] <= acked.sent_seqid[r] + 1
        BY <2>7, <2>10, <2>15
      <4> QED
        BY <2>2, <2>10, <4>1, <4>2, <4>3, Zenon DEF SendOK
    <3>3. Good(n, S, acked)
      <4>1. \A i \in 1 .. Len(acked.out) :
               FrameOK(acked, acked.out[i].to, S[acked.out[i].to], acked.out[i].frame)
        BY <2>10
      <4>2. \A x \in Node : acked.ctl[x] # CtlNone => IsCtl(acked.ctl[x])
        BY <2>10 DEF Good
      <4>3. \A x \in Node : SendOK(n, acked, x)
        BY <2>14, <3>2
      <4> QED
        BY <2>9, <2>10, <2>12, <4>1, <4>2, <4>3 DEF Good
    <3>4. Step(nd, acked, S, V)
      <4>1. Keeps(nd, acked)
        <5>1. \A x \in Node : nd.sent_seqid[x] <= nd.sent_seqid[x] /\ nd.rcvd_seqid[x] <= nd.rcvd_seqid[x]
          BY <2>1, NatLeq
        <5> QED
          BY <2>10, <5>1, Zenon DEF Keeps
      <4>2. \A x \in Node : acked.last_unacked[x] <= V[x] + 1 /\ acked.rcvd_seqid[x] <= S[x]
        BY <2>10, <2>13 DEF Agrees
      <4>3. ASSUME NEW y \in Node, NEW i \in 1 .. Len(acked.log[y]) - Len(acked.packet[y])
            PROVE  acked.log[y][i] = nd.log[y][i] /\ i <= Len(nd.log[y]) - Len(nd.packet[y])
        <5>1. nd.log[y] \in Seq(Message) /\ nd.packet[y] \in Seq(Message)
          BY <2>1
        <5>2. Len(nd.log[y]) \in Nat /\ Len(nd.packet[y]) \in Nat
          BY <5>1, LenNat
        <5>3. i <= Len(nd.log[y]) - Len(nd.packet[y])
          BY <2>10, <5>2, SMT
        <5> QED
          BY <2>10, <5>3
      <4> QED
        BY <4>1, <4>2, <4>3, Zenon DEF Step
    <3>5. e = netipc_send_any(acked, r)
      BY <1>1, <1>3, <2>16
    <3>6. Good(n, S, e) /\ Same(acked, e) /\ SentOne(acked, e, r)
      BY <3>3, <3>5, SendAnyOK
    <3>7. Step(nd, e, S, V)
      BY <2>10, <3>3, <3>4, <3>6, StepThen
    <3>8. SameReceived(nd, e)
      BY <2>10, <3>6, Zenon DEF SameReceived, Same
    <3> QED
      BY <3>6, <3>7, <3>8 DEF e
  <2>17. CASE AllAcked(acked, r)
    <3> DEFINE p == [nd.packet EXCEPT ![r] = Tail(nd.packet[r])]
               f == [nd.first EXCEPT ![r] = s + 1]
               P == nd.packet[r]
               L == nd.log[r]
    <3>1. freed = [acked EXCEPT !.packet = p, !.first = f]
      BY <2>10
    <3>2. /\ P \in Seq(Message) /\ Tail(P) \in Seq(Message) /\ Len(P) \in Nat /\ Len(P) >= 1
          /\ Len(Tail(P)) = Len(P) - 1 /\ \A i \in 1 .. Len(P) - 1 : Tail(P)[i] = P[i + 1]
          /\ Head(P) = P[1] /\ Head(P) \in Message
      <4>1. P \in Seq(Message)
        BY <2>1
      <4> HIDE DEF P
      <4>2. P # <<>>
        BY <2>8 DEF P
      <4> QED
        BY <4>1, <4>2, TailIs
    <3>3. L \in Seq(Message) /\ Len(L) \in Nat
      <4>1. L \in Seq(Message)
        BY <2>1
      <4> HIDE DEF L
      <4> QED
        BY <4>1, LenNat
    <3>4. /\ p \in [Node -> Seq(Message)] /\ f \in [Node -> Nat]
          /\ p[r] = Tail(P) /\ f[r] = s + 1
          /\ \A x \in Node : x # r => p[x] = nd.packet[x] /\ f[x] = nd.first[x]
      <4>1. s + 1 \in Nat
        BY <2>3
      <4> HIDE DEF s
      <4> QED
        BY <2>1, <3>2, <4>1, Zenon
    <3> HIDE DEF freed, p, f
    <3>5. freed \in NodeType
      BY <2>9, <3>1, <3>4, Zenon DEF NodeType
    <3>6. /\ freed.log = nd.log /\ freed.packet = p /\ freed.first = f
          /\ freed.sent_seqid = nd.sent_seqid /\ freed.last_unacked = u
          /\ freed.rcvd_seqid = nd.rcvd_seqid /\ freed.ctl = nd.ctl /\ freed.out = nd.out
          /\ freed.incomplete = nd.incomplete /\ freed.complete = nd.complete
      BY <2>9, <2>10, <3>1, Zenon DEF NodeType
    <3>7. LastSeqid(nd, r) <= V[r]
      <4>2. LastSeqid(nd, r) \in Nat
        BY <1>0, <2>8, LastSeqidIs
      <4>3. LastSeqid(nd, r) < s + 1
        BY <2>7, <2>10, <2>11, <2>17 DEF AllAcked
      <4> QED
        BY <2>3, <2>4, <4>2, <4>3, SMT
    <3>8. SendOK(n, freed, r)
      <4>1. freed.packet[r] = Tail(P) /\ freed.first[r] = s + 1 /\ freed.last_unacked[r] = s + 1
            /\ freed.sent_seqid[r] = s /\ freed.log[r] = L
        BY <2>7, <3>4, <3>6
      <4>2. freed.packet[r] # <<>> => s + 1 <= LastSeqid(freed, r)
        <5> SUFFICES ASSUME Tail(P) # <<>> PROVE s + 1 <= LastSeqid(freed, r)
          BY <4>1
        <5>1. freed.first[r] <= LastSeqid(freed, r)
          BY <3>5, <4>1, LastSeqidIs
        <5> QED
          BY <4>1, <5>1
      <4>3. Len(P) <= Len(L) /\ \A i \in 1 .. Len(P) : P[i] = L[Len(L) - Len(P) + i]
        BY <2>2 DEF SendOK
      <4> HIDE DEF P, L, s
      <4>4. Len(Tail(P)) <= Len(L)
        BY <3>2, <3>3, <4>3, SMT
      <4>5. ASSUME NEW i \in 1 .. Len(Tail(P)) PROVE Tail(P)[i] = L[Len(L) - Len(Tail(P)) + i]
        <5>1. /\ i \in 1 .. Len(P) - 1 /\ i + 1 \in 1 .. Len(P)
              /\ Len(L) - Len(P) + (i + 1) = Len(L) - Len(Tail(P)) + i
          BY <3>2, <3>3, SMT
        <5> QED
          BY <3>2, <4>3, <5>1
      <4>6. \A i \in 1 .. Len(L) : L[i].id = i /\ L[i].shape \in Shapes[n]
        BY <2>2 DEF SendOK, L
      <4> QED
        BY <2>15, <4>1, <4>2, <4>4, <4>5, <4>6, Zenon DEF SendOK
    <3>9. \A x \in Node : SendOK(n, freed, x) /\ CtlOK(freed, x, S[x], freed.ctl[x])
      <4> SUFFICES ASSUME NEW x \in Node, x # r PROVE SendOK(n, freed, x)
        BY <2>10, <2>12, <3>6, <3>8 DEF CtlOK
      <4>1. /\ freed.packet[x] = acked.packet[x] /\ freed.first[x] = acked.first[x]
            /\ LastSeqid(freed, x) = LastSeqid(acked, x)
        BY <2>10, <3>4, <3>6 DEF LastSeqid
      <4>2. SendOK(n, acked, x)
        BY <2>14
      <4> QED
        BY <2>10, <3>6, <4>1, <4>2, Zenon DEF SendOK
    <3>10. Good(n, S, freed)
      <4>1. \A i \in 1 .. Len(freed.out) :
               FrameOK(freed, freed.out[i].to, S[freed.out[i].to], freed.out[i].frame)
        BY <3>6
      <4>2. \A x \in Node : freed.ctl[x] # CtlNone => IsCtl(freed.ctl[x])
        BY <3>6 DEF Good
      <4> QED
        BY <3>5, <3>6, <3>9, <4>1, <4>2 DEF Good
    <3>11. Step(nd, freed, S, V)
      <4>1. Keeps(nd, freed)
        <5>1. \A x \in Node : nd.sent_seqid[x] <= nd.sent_seqid[x] /\ nd.rcvd_seqid[x] <= nd.rcvd_seqid[x]
          BY <2>1, NatLeq
        <5>2. ASSUME NEW x \in Node, freed.first[x] <= nd.sent_seqid[x]
              PROVE  freed.packet[x] = nd.packet[x] /\ freed.first[x] = nd.first[x]
          <6>1. x # r
            <7>1. ~(s + 1 <= s)
              BY <2>3, SMT
            <7> QED
              BY <3>4, <3>6, <5>2, <7>1
          <6> QED
            BY <3>4, <3>6, <6>1
        <5> QED
          BY <3>6, <5>1, <5>2, Zenon DEF Keeps
      <4>2. \A x \in Node : freed.last_unacked[x] <= V[x] + 1 /\ freed.rcvd_seqid[x] <= S[x]
        BY <2>13, <3>6 DEF Agrees
      <4>3. ASSUME NEW y \in Node, NEW i \in 1 .. Len(freed.log[y]) - Len(freed.packet[y])
            PROVE  /\ freed.log[y][i] = nd.log[y][i]
                   /\ \/ i <= Len(nd.log[y]) - Len(nd.packet[y])
                      \/ /\ nd.packet[y] # <<>> /\ nd.log[y][i] = Head(nd.packet[y])
                         /\ LastSeqid(nd, y) <= V[y]
        <5>1. CASE y # r
          <6>1. nd.log[y] \in Seq(Message) /\ nd.packet[y] \in Seq(Message)
            BY <2>1
          <6>2. Len(nd.log[y]) \in Nat /\ Len(nd.packet[y]) \in Nat
            BY <6>1, LenNat
          <6>3. freed.log[y] = nd.log[y] /\ freed.packet[y] = nd.packet[y]
            BY <3>4, <3>6, <5>1
          <6>4. i <= Len(nd.log[y]) - Len(nd.packet[y])
            BY <6>2, <6>3, SMT
          <6> QED
            BY <6>3, <6>4
        <5>2. CASE y = r
          <6>1. freed.log[y] = L /\ freed.packet[y] = Tail(P)
            BY <3>4, <3>6, <5>2
          <6>2. Len(freed.packet[y]) = Len(P) - 1
            BY <3>2, <6>1
          <6>3. i <= Len(L) - Len(P) \/ i = Len(L) - Len(P) + 1
            <7> HIDE DEF L, P
            <7> QED
              BY <3>2, <3>3, <6>1, <6>2, SMT
          <6>4. L[Len(L) - Len(P) + 1] = Head(P)
            <7>1. 1 \in 1 .. Len(P)
              BY <3>2, SMT
            <7>2. P[1] = L[Len(L) - Len(P) + 1]
              BY <2>2, <7>1 DEF SendOK
            <7> QED
              BY <3>2, <7>2
          <6> QED
            BY <2>8, <3>7, <5>2, <6>1, <6>3, <6>4
        <5> QED
          BY <5>1, <5>2
      <4> QED
        BY <4>1, <4>2, <4>3, Zenon DEF Step
    <3>12. SameReceived(nd, freed)
      BY <3>6 DEF SameReceived
    <3>13. CASE freed.packet[r] = <<>>
      <4>1. e = freed
        BY <1>1, <1>3, <2>17, <3>13
      <4> QED
        BY <3>10, <3>11, <3>12, <4>1 DEF e
    <3>14. CASE freed.packet[r] # <<>>
      <4>1. e = netipc_send_any(freed, r)
        BY <1>1, <1>3, <2>17, <3>14
      <4>2. Good(n, S, e) /\ Same(freed, e) /\ SentOne(freed, e, r)
        BY <3>10, <4>1, SendAnyOK
      <4>3. Step(nd, e, S, V)
        BY <3>6, <3>10, <3>11, <4>2, StepThen
      <4>4. SameReceived(nd, e)
        BY <3>12, <4>2, Zenon DEF SameReceived, Same
      <4> QED
        BY <4>2, <4>3, <4>4 DEF e
    <3> QED
      BY <3>13, <3>14
  <2> QED
    BY <2>16, <2>17
<1> QED
  BY <1>2, <1>3

\* netipc_retry.
LEMMA RetryStep ==
    ASSUME NEW n \in Node, NEW S, NEW V, NEW nd, Good(n, S, nd), Agrees(nd, S, V),
           NEW r \in Node, NEW seqid \in Nat, seqid <= nd.sent_seqid[r]
    PROVE  LET e == netipc_retry(nd, r, seqid)
           IN  Good(n, S, e) /\ Step(nd, e, S, V) /\ SameReceived(nd, e)
<1>0. nd \in NodeType
  BY DEF Good
<1> DEFINE e == netipc_retry(nd, r, seqid)
           bad == [nd EXCEPT !.panic = TRUE]
<1>1. e = IF nd.sending THEN nd ELSE IF ~SetSeqid(nd, r, seqid) THEN bad ELSE SendPart(nd, r, seqid)
  BY DEF netipc_retry
<1> HIDE DEF e
<1>2. CASE nd.sending
  <2>1. SameWindow(nd, nd) /\ SameReceived(nd, nd)
    BY DEF SameWindow, SameReceived
  <2>2. Step(nd, nd, S, V)
    BY <2>1, StepWindow
  <2> QED
    BY <1>1, <1>2, <2>1, <2>2 DEF e
<1>3. CASE ~nd.sending /\ ~SetSeqid(nd, r, seqid)
  <2>1. PICK b \in BOOLEAN : b = TRUE
    OBVIOUS
  <2>2. bad = [nd EXCEPT !.panic = b]
    BY <2>1
  <2> HIDE DEF bad
  <2>3. bad \in NodeType
    BY <1>0, <2>2, Zenon DEF NodeType
  <2>4. /\ SameWindow(nd, bad) /\ bad.ctl = nd.ctl /\ bad.out = nd.out /\ bad.sending = nd.sending
        /\ SameReceived(nd, bad)
    BY <1>0, <2>2, Zenon DEF NodeType, SameWindow, SameReceived
  <2>5. Good(n, S, bad)
    BY <2>3, <2>4, GoodWindow DEF Good
  <2>6. Step(nd, bad, S, V)
    BY <2>4, <2>5, StepWindow
  <2> QED
    BY <1>1, <1>3, <2>4, <2>5, <2>6 DEF e
<1>4. CASE ~nd.sending /\ SetSeqid(nd, r, seqid)
  <2>1. e = SendPart(nd, r, seqid)
    BY <1>1, <1>4
  <2>2. Good(n, S, e) /\ SameSent(nd, e)
    BY <1>4, <2>1, SendPartOK
  <2>3. Step(nd, e, S, V) /\ SameReceived(nd, e)
    BY <2>2, StepSameSent DEF SameReceived, SameSent, Same
  <2> QED
    BY <2>2, <2>3 DEF e
<1> QED
  BY <1>2, <1>3, <1>4

\* netipc_timeout asks about the packet sent last.
LEMMA TimeoutStep ==
    ASSUME NEW n \in Node, NEW S, NEW V, NEW nd, Good(n, S, nd), Agrees(nd, S, V)
    PROVE  LET e == netipc_timeout(nd)
           IN  Good(n, S, e) /\ Step(nd, e, S, V) /\ SameReceived(nd, e)
<1>0. nd \in NodeType /\ FieldTypes(nd)
  BY Fields DEF Good
<1>1. nd.pending_timeout \in Seq(Node) /\ nd.timer \in [Node -> 0..2] /\ nd.sent_seqid \in [Node -> Nat]
  BY <1>0 DEF FieldTypes
<1> DEFINE sync == {r \in Node : nd.timer[r] = 2 /\ nd.sent_packet[r][nd.sent_seqid[r] % WX]}
           kept == Sublist(nd.pending_timeout, sync \cup {r \in Node : nd.timer[r] = 1})
           t == [r \in Node |-> IF Contains(kept, r) THEN 2
                                ELSE IF Contains(nd.pending_timeout, r) THEN 0 ELSE nd.timer[r]]
           q == [nd EXCEPT !.pending_timeout = kept, !.timer = t]
           c == [r \in Node |-> Ctl("sync", Oldest(nd, r))]
           e == SendCtls(q, Sublist(kept, sync), c)
<1>2. netipc_timeout(nd) = e
  BY <1>1 DEF netipc_timeout
<1> HIDE DEF sync
<1>3. kept \in Seq(Node)
  BY <1>1, SublistMembers
<1> HIDE DEF kept
<1>4. Sublist(kept, sync) \in Seq(Node)
  BY <1>3, SublistMembers
<1>5. t \in [Node -> 0..2]
  <2>1. 0 \in 0..2 /\ 2 \in 0..2
    BY SMT
  <2> QED
    BY <1>1, <2>1
<1> HIDE DEF t
<1>6. q \in NodeType
  BY <1>0, <1>3, <1>5, Zenon DEF NodeType
<1>7. /\ SameSent(nd, q) /\ q.ctl = nd.ctl /\ q.out = nd.out /\ q.sending = nd.sending
  BY <1>0, Zenon DEF NodeType, SameSent, Same
<1> HIDE DEF q
<1>8. Good(n, S, q)
  BY <1>6, <1>7, GoodSame DEF Good
<1>9. ASSUME NEW r \in Node PROVE IsCtl(c[r]) /\ CtlOK(q, r, S[r], c[r])
  <2>1. c[r] = [ctl |-> "sync", seqid |-> nd.sent_seqid[r]]
    BY DEF Ctl, Oldest
  <2>2. nd.sent_seqid[r] \in Nat /\ nd.sent_seqid[r] <= nd.sent_seqid[r]
    BY <1>1, NatLeq
  <2> HIDE DEF c
  <2>3. IsCtl(c[r])
    BY <2>1, <2>2 DEF IsCtl
  <2>4. CtlOK(q, r, S[r], c[r])
    BY <1>7, <2>1, <2>2 DEF CtlOK, SameSent
  <2> QED
    BY <2>3, <2>4
<1> HIDE DEF c
<1>10. Good(n, S, e) /\ SameSent(q, e)
  BY <1>4, <1>8, <1>9, SendCtlsOK
<1> HIDE DEF e
<1>11. SameSent(nd, e)
  BY <1>7, <1>10, Zenon DEF SameSent, Same
<1>12. Step(nd, e, S, V) /\ SameReceived(nd, e)
  BY <1>10, <1>11, StepSameSent DEF SameReceived, SameSent, Same
<1> QED
  BY <1>2, <1>10, <1>12 DEF e

\* netipc_page_put asks a sender again for what it has been sent last.
LEMMA PutPageStep ==
    ASSUME NEW n \in Node, NEW S, NEW V, NEW nd, Good(n, S, nd),
           Agrees(nd, S, V), nd.pages < MaxPages
    PROVE  LET e == PutPage(nd)
           IN  Good(n, S, e) /\ Step(nd, e, S, V) /\ SameReceived(nd, e)
<1>0. nd \in NodeType /\ FieldTypes(nd)
  BY Fields DEF Good
<1>1. /\ nd.pending_unack \in Seq(Node) /\ nd.rcvd_seqid \in [Node -> Nat]
      /\ nd.pages \in 0..MaxPages
  BY <1>0 DEF FieldTypes
<1> DEFINE p == nd.pending_unack
           I == {i \in 1 .. Len(p) : p[i] = NodeZero}
           zero == IF I # {} THEN Min(I) ELSE 0
           told == IF zero = 0 THEN p ELSE SubSeq(p, 1, zero - 1)
           left == IF zero = 0 THEN <<>> ELSE SubSeq(p, zero, Len(p))
           more == [nd EXCEPT !.pages = @ + 1]
           q == [nd EXCEPT !.self_stopped = FALSE, !.pending_unack = left]
           c == [r \in Node |-> Ctl("nack", nd.rcvd_seqid[r])]
           e == PutPage(nd)
<1>2. e = IF ~nd.self_stopped THEN more ELSE SendCtls(q, told, c)
  BY <1>0 DEF PutPage, SelectInSeq
<1> HIDE DEF e
<1>3. told \in Seq(Node) /\ left \in Seq(Node)
  <2>1. zero # 0 => zero \in 1 .. Len(p)
    <3>1. I \in SUBSET Nat /\ I \subseteq 1 .. Len(p)
      OBVIOUS
    <3> HIDE DEF I
    <3>2. I # {} => Min(I) \in I
      BY <3>1, MinIs
    <3> QED
      BY <3>1, <3>2
  <2> HIDE DEF zero
  <2>2. Len(p) \in Nat
    BY <1>1, LenNat
  <2>3. zero # 0 => SubSeq(p, 1, zero - 1) \in Seq(Node) /\ SubSeq(p, zero, Len(p)) \in Seq(Node)
    <3> HIDE DEF p
    <3>1. p \in Seq(Node)
      BY <1>1 DEF p
    <3> QED
      BY <2>1, <2>2, <3>1
  <2> QED
    BY <1>1, <2>3
<1>4. CASE ~nd.self_stopped
  <2> DEFINE k == nd.pages + 1
  <2>1. k \in 0..MaxPages
    BY <1>1, BoundsAssumption, SMT DEF BoundsAssumption
  <2>2. more = [nd EXCEPT !.pages = k]
    OBVIOUS
  <2> HIDE DEF k, more
  <2>3. more \in NodeType
    BY <1>0, <2>1, <2>2, Zenon DEF NodeType
  <2>4. /\ SameWindow(nd, more) /\ more.ctl = nd.ctl /\ more.out = nd.out
        /\ more.sending = nd.sending /\ SameReceived(nd, more)
    BY <1>0, <2>2, Zenon DEF NodeType, SameWindow, SameReceived
  <2>5. Good(n, S, more)
    BY <2>3, <2>4, GoodWindow DEF Good
  <2>6. Step(nd, more, S, V)
    BY <2>4, <2>5, StepWindow
  <2> QED
    BY <1>2, <1>4, <2>4, <2>5, <2>6 DEF e
<1>5. CASE nd.self_stopped
  <2>1. PICK b \in BOOLEAN : b = FALSE
    OBVIOUS
  <2>2. q = [nd EXCEPT !.self_stopped = b, !.pending_unack = left]
    BY <2>1
  <2> HIDE DEF q, left, told
  <2>3. q \in NodeType
    BY <1>0, <1>3, <2>2, Zenon DEF NodeType
  <2>4. /\ SameWindow(nd, q) /\ q.ctl = nd.ctl /\ q.out = nd.out /\ q.sending = nd.sending
        /\ SameReceived(nd, q)
    BY <1>0, <2>2, Zenon DEF NodeType, SameWindow, SameReceived
  <2>5. Good(n, S, q)
    BY <2>3, <2>4, GoodWindow DEF Good
  <2>6. ASSUME NEW r \in Node PROVE IsCtl(c[r]) /\ CtlOK(q, r, S[r], c[r])
    <3>1. c[r] = [ctl |-> "nack", seqid |-> nd.rcvd_seqid[r]]
      BY DEF Ctl
    <3>2. nd.rcvd_seqid[r] \in Nat /\ nd.rcvd_seqid[r] <= S[r]
      BY <1>1 DEF Agrees
    <3> HIDE DEF c
    <3>3. IsCtl(c[r])
      BY <3>1, <3>2 DEF IsCtl
    <3>4. CtlOK(q, r, S[r], c[r])
      BY <3>1, <3>2 DEF CtlOK
    <3> QED
      BY <3>3, <3>4
  <2> HIDE DEF c
  <2>7. e = SendCtls(q, told, c)
    BY <1>2, <1>5
  <2>8. Good(n, S, e) /\ SameSent(q, e)
    BY <1>3, <2>5, <2>6, <2>7, SendCtlsOK
  <2>9. SameWindow(nd, e) /\ SameReceived(nd, e)
    BY <2>4, <2>8, Zenon DEF SameWindow, SameReceived, SameSent, Same
  <2>10. Step(nd, e, S, V)
    BY <2>8, <2>9, StepWindow
  <2> QED
    BY <2>8, <2>9, <2>10 DEF e
<1> QED
  BY <1>4, <1>5

\* A control frame f from r, as FrameOK has it.
Heard(nd, r, S, V, f) ==
    /\ f \in Frame /\ f.type = "ctl"
    /\ f.ctl = "sync" => f.seqid <= S[r]
    /\ f.ctl = "ack" => f.seqid <= V[r]
    /\ f.ctl = "nack" => f.seqid <= nd.sent_seqid[r]

\* A control frame is taken: netipc_recv_intr on an ack, a nack or a sync.
LEMMA RecvCtlStep ==
    ASSUME NEW n \in Node, NEW S, NEW V, NEW nd, Good(n, S, nd), Agrees(nd, S, V), nd.out = <<>>,
           NEW r \in Node, NEW f, Heard(nd, r, S, V, f)
    PROVE  LET e == RecvCtl(nd, r, f)
           IN  Good(n, S, e) /\ Step(nd, e, S, V) /\ SameReceived(nd, e)
<1> DEFINE e == RecvCtl(nd, r, f)
           Fine(d) == Good(n, S, d) /\ Step(nd, d, S, V) /\ SameReceived(nd, d)
<1>0. nd \in NodeType /\ FieldTypes(nd)
  BY Fields DEF Good
<1>1. f.seqid \in Nat /\ f.ctl \in {"ack", "nack", "sync"}
  BY DEF Heard, Frame
<1>2. Fine(nd)
  BY StepWindow DEF SameWindow, SameReceived
<1>3. ASSUME NEW c, IsCtl(c), CtlOK(nd, r, S[r], c)
      PROVE  Fine(netipc_send_ctl(nd, r, c))
  <2> DEFINE d == netipc_send_ctl(nd, r, c)
  <2>1. Good(n, S, d) /\ SameSent(nd, d)
    BY <1>3, SendCtlOK
  <2> HIDE DEF d
  <2>2. Step(nd, d, S, V) /\ SameReceived(nd, d)
    BY <2>1, StepSameSent DEF SameReceived, SameSent, Same
  <2> QED
    BY <2>1, <2>2 DEF d
<1>4. CASE f.ctl = "sync"
  <2>1. /\ IsCtl(Ctl("ack", f.seqid)) /\ IsCtl(Ctl("nack", f.seqid))
        /\ CtlOK(nd, r, S[r], Ctl("nack", f.seqid))
    BY <1>1, <1>4 DEF IsCtl, Ctl, CtlOK, Heard
  <2>2. Arrived(nd, r, f.seqid) => CtlOK(nd, r, S[r], Ctl("ack", f.seqid))
    <3>1. nd.rcvd_seqid[r] \in Nat /\ nd.rcvd_seqid[r] <= nd.rcvd_seqid[r]
      BY <1>0, NatLeq DEF FieldTypes
    <3> QED
      BY <3>1 DEF CtlOK, Ctl, Arrived
  <2>3. CASE Arrived(nd, r, f.seqid)
    <3>1. e = IF Contains(nd.pending_unack, r) THEN nd
              ELSE netipc_send_ctl(nd, r, Ctl("ack", f.seqid))
      BY <1>4, <2>3 DEF RecvCtl
    <3> HIDE DEF e, Fine
    <3>2. Fine(e)
      BY <1>2, <1>3, <2>1, <2>2, <2>3, <3>1
    <3> QED
      BY <3>2 DEF e, Fine
  <2>4. CASE ~Arrived(nd, r, f.seqid)
    <3>1. e = netipc_send_ctl(nd, r, Ctl("nack", f.seqid))
      BY <1>4, <2>4 DEF RecvCtl
    <3> HIDE DEF e, Fine
    <3>2. Fine(e)
      BY <1>3, <2>1, <3>1
    <3> QED
      BY <3>2 DEF e, Fine
  <2> QED
    BY <2>3, <2>4
<1>5. CASE f.ctl = "ack"
  <2>1. e = netipc_acknowledged(nd, r, f.seqid)
    BY <1>5 DEF RecvCtl
  <2>2. f.seqid <= V[r]
    BY <1>5 DEF Heard
  <2> QED
    BY <1>1, <2>1, <2>2, AcknowledgedStep
<1>6. CASE f.ctl = "nack"
  <2>1. e = netipc_retry(nd, r, f.seqid)
    BY <1>6 DEF RecvCtl
  <2>2. f.seqid <= nd.sent_seqid[r]
    BY <1>6 DEF Heard
  <2> QED
    BY <1>1, <2>1, <2>2, RetryStep
<1> QED
  BY <1>1, <1>4, <1>5, <1>6

-----------------------------------------------------------------------------
(* A frame with data.                                                      *)

\* A data frame f that r has sent.
Brought(r, S, f) == f \in Frame /\ f.type = "data" /\ f.seqid <= S[r]

\* What has to do with sending, which delivering leaves alone.
Untouched(nd, e) ==
    /\ e.ctl = nd.ctl /\ e.out = nd.out /\ e.sending = nd.sending
    /\ e.sent_seqid = nd.sent_seqid /\ e.pending_send = nd.pending_send
    /\ e.pending_unack = nd.pending_unack

\* What a step that receives changes: e.incomplete and e.complete.
Local(nd, e) ==
    /\ SameWindow(nd, e) /\ e.ctl = nd.ctl /\ e.out = nd.out /\ e.sending = nd.sending
    /\ e.self_stopped = nd.self_stopped /\ e.pages = nd.pages
    /\ Untouched(nd, e)

\* The types of a data frame's fields.
LEMMA DataIs ==
    ASSUME NEW r \in Node, NEW S, NEW f, Brought(r, S, f)
    PROVE  f.seqid \in Nat /\ f.id \in Nat /\ f.shape \in Seq(BOOLEAN) /\ f.part \in Nat
  BY SMT DEF Brought, Frame

\* What becomes of a message without its pages.
TookKmsg(nd, r, f, e) ==
    LET k == [remote |-> r, id |-> f.id, got |-> {}]
    IN  /\ e.complete = IF f.shape = <<>> THEN Append(nd.complete, k) ELSE nd.complete
        /\ e.incomplete = IF f.shape = <<>> THEN nd.incomplete ELSE <<k>> \o nd.incomplete
        /\ e.panic = nd.panic

\* norma_deliver_kmsg, when the port is here.
LEMMA DeliverKmsg ==
    ASSUME NEW n \in Node, NEW S, NEW nd, Good(n, S, nd), NEW r \in Node, NEW f, Brought(r, S, f)
    PROVE  LET e == norma_deliver_kmsg(nd, r, f, TRUE)
           IN  Good(n, S, e) /\ Local(nd, e) /\ TookKmsg(nd, r, f, e)
<1>0. nd \in NodeType /\ FieldTypes(nd)
  BY Fields DEF Good
<1>1. nd.incomplete \in Seq(Assembly) /\ nd.complete \in Seq(Assembly)
  BY <1>0 DEF FieldTypes
<1> DEFINE k == [remote |-> r, id |-> f.id, got |-> {}]
           a == Append(nd.complete, k)
           b == <<k>> \o nd.incomplete
           e == norma_deliver_kmsg(nd, r, f, TRUE)
<1>2. k \in Assembly
  <2>1. f.id \in Nat
    BY DataIs
  <2> QED
    BY <2>1 DEF Assembly
<1> HIDE DEF k
<1>3. a \in Seq(Assembly) /\ b \in Seq(Assembly)
  BY <1>1, <1>2
<1>4. e = IF f.shape = <<>> THEN [nd EXCEPT !.complete = a] ELSE [nd EXCEPT !.incomplete = b]
  BY DEF norma_deliver_kmsg, k
<1> HIDE DEF a, b, e
<1>5. e \in NodeType
  BY <1>0, <1>3, <1>4, Zenon DEF NodeType
<1>6. /\ Local(nd, e) /\ e.panic = nd.panic
      /\ e.complete = (IF f.shape = <<>> THEN a ELSE nd.complete)
      /\ e.incomplete = (IF f.shape = <<>> THEN nd.incomplete ELSE b)
  <2>1. CASE f.shape = <<>>
    <3>1. e = [nd EXCEPT !.complete = a]
      BY <1>4, <2>1
    <3> QED
      BY <1>0, <2>1, <3>1, Zenon DEF NodeType, Local, Untouched, SameWindow
  <2>2. CASE f.shape # <<>>
    <3>1. e = [nd EXCEPT !.incomplete = b]
      BY <1>4, <2>2
    <3> QED
      BY <1>0, <2>2, <3>1, Zenon DEF NodeType, Local, Untouched, SameWindow
  <2> QED
    BY <2>1, <2>2
<1>7. Good(n, S, e)
  BY <1>5, <1>6, GoodWindow DEF Good, Local
<1> QED
  BY <1>6, <1>7 DEF a, b, e, k, TookKmsg

\* The place of the latest incomplete message from r.
Latest(list, r) ==
    LET I == {i \in 1 .. Len(list) : list[i].remote = r}
    IN  IF I # {} THEN Min(I) ELSE 0

\* That message with a page more.
Gained(k, f) == [k EXCEPT !.got = {p \in @ : p[2] # f.part} \cup {<<f.id, f.part>>}]

\* What becomes of a page.
TookPage(nd, r, f, e) ==
    LET i == Latest(nd.incomplete, r)
        k == Gained(nd.incomplete[i], f)
    IN  /\ i = 0 => /\ e.panic /\ e.complete = nd.complete /\ e.incomplete = nd.incomplete
        /\ i # 0 => /\ k \in Assembly /\ k.remote = r /\ e.panic = nd.panic
                    /\ e.complete = IF f.shape[f.part] THEN Append(nd.complete, k) ELSE nd.complete
                    /\ e.incomplete = IF f.shape[f.part] THEN RemoveAt(nd.incomplete, i)
                                      ELSE [nd.incomplete EXCEPT ![i] = k]

\* Latest finds the first of the list, or none if there is none.
LEMMA LatestIs ==
    ASSUME NEW X, NEW list \in Seq(X), NEW r
    PROVE  /\ Latest(list, r) # 0 =>
                /\ Latest(list, r) \in 1 .. Len(list) /\ list[Latest(list, r)].remote = r
                /\ \A j \in 1 .. Len(list) : list[j].remote = r => Latest(list, r) <= j
           /\ Latest(list, r) = 0 => \A j \in 1 .. Len(list) : list[j].remote # r
<1> DEFINE I == {i \in 1 .. Len(list) : list[i].remote = r}
<1>1. I \in SUBSET Nat /\ I \subseteq 1 .. Len(list)
  OBVIOUS
<1>2. Latest(list, r) = IF I # {} THEN Min(I) ELSE 0
  BY DEF Latest
<1>3. CASE I = {}
  BY <1>2, <1>3
<1>4. CASE I # {}
  <2>1. Min(I) \in I /\ \A i \in I : Min(I) <= i
    <3> HIDE DEF I
    <3> QED
      BY <1>1, <1>4, MinIs
  <2>2. Min(I) \in 1 .. Len(list) /\ list[Min(I)].remote = r /\ Min(I) # 0
    BY <2>1, SMT
  <2>3. \A j \in 1 .. Len(list) : list[j].remote = r => Min(I) <= j
    BY <2>1
  <2> QED
    BY <1>2, <1>4, <2>2, <2>3
<1> QED
  BY <1>3, <1>4

\* norma_deliver_page.
LEMMA DeliverPage ==
    ASSUME NEW n \in Node, NEW S, NEW nd, Good(n, S, nd), NEW r \in Node, NEW f, Brought(r, S, f)
    PROVE  LET e == norma_deliver_page(nd, r, f)
           IN  Good(n, S, e) /\ Local(nd, e) /\ TookPage(nd, r, f, e)
<1>0. nd \in NodeType /\ FieldTypes(nd)
  BY Fields DEF Good
<1>1. nd.incomplete \in Seq(Assembly) /\ nd.complete \in Seq(Assembly)
  BY <1>0 DEF FieldTypes
<1> DEFINE e == norma_deliver_page(nd, r, f)
           i == Latest(nd.incomplete, r)
           k == Gained(nd.incomplete[i], f)
           a == Append(nd.complete, k)
           b == RemoveAt(nd.incomplete, i)
           c == [nd.incomplete EXCEPT ![i] = k]
           whole == f.shape[f.part]
<1>2. e = IF i = 0 THEN [nd EXCEPT !.panic = TRUE]
          ELSE IF whole THEN [nd EXCEPT !.incomplete = b, !.complete = a]
          ELSE [nd EXCEPT !.incomplete = c]
  BY DEF norma_deliver_page, SelectInSeq, Latest, Gained
<1> HIDE DEF e
<1>3. i # 0 => i \in 1 .. Len(nd.incomplete) /\ nd.incomplete[i].remote = r
  BY <1>1, LatestIs
<1> HIDE DEF i
<1>4. i # 0 => k \in Assembly /\ k.remote = r
  <2> SUFFICES ASSUME i # 0 PROVE k \in Assembly /\ k.remote = r
    OBVIOUS
  <2> DEFINE o == nd.incomplete[i]
             g == {p \in o.got : p[2] # f.part} \cup {<<f.id, f.part>>}
  <2>1. o \in Assembly /\ o.remote = r
    BY <1>1, <1>3, ElementIs
  <2>2. f.id \in Nat /\ f.part \in Nat
    BY DataIs
  <2>3. o.got \in SUBSET (Nat \X Nat)
    BY <2>1 DEF Assembly
  <2> HIDE DEF o
  <2>4. g \in SUBSET (Nat \X Nat)
    BY <2>2, <2>3
  <2>5. k = [o EXCEPT !.got = g]
    BY DEF Gained, o
  <2> HIDE DEF g, k
  <2>6. k \in Assembly
    BY <2>1, <2>4, <2>5, Zenon DEF Assembly
  <2>7. k.remote = r
    BY <2>1, <2>5, Zenon DEF Assembly
  <2> QED
    BY <2>6, <2>7
<1> HIDE DEF k
<1>5. i # 0 => a \in Seq(Assembly) /\ b \in Seq(Assembly) /\ c \in Seq(Assembly)
  <2> SUFFICES ASSUME i # 0 PROVE a \in Seq(Assembly) /\ b \in Seq(Assembly) /\ c \in Seq(Assembly)
    OBVIOUS
  <2>1. a \in Seq(Assembly) /\ c \in Seq(Assembly)
    BY <1>1, <1>3, <1>4
  <2> DEFINE l == nd.incomplete
  <2>2. l \in Seq(Assembly) /\ Len(l) \in Nat
    BY <1>1, LenNat
  <2>3. i \in 1 .. Len(l)
    BY <1>3
  <2> HIDE DEF l
  <2>4. SubSeq(l, 1, i - 1) \in Seq(Assembly) /\ SubSeq(l, i + 1, Len(l)) \in Seq(Assembly)
    BY <2>2, <2>3
  <2>5. RemoveAt(l, i) \in Seq(Assembly)
    BY <2>4 DEF RemoveAt
  <2> QED
    BY <2>1, <2>5 DEF l
<1> HIDE DEF a, b, c, whole
<1>6. CASE i = 0
  <2>1. PICK t \in BOOLEAN : t = TRUE
    OBVIOUS
  <2>2. e = [nd EXCEPT !.panic = t]
    BY <1>2, <1>6, <2>1
  <2>3. e \in NodeType
    BY <1>0, <2>2, Zenon DEF NodeType
  <2>4. Local(nd, e) /\ e.panic = t /\ SameReceived(nd, e)
    BY <1>0, <2>2, Zenon DEF NodeType, Local, Untouched, SameWindow, SameReceived
  <2>5. Good(n, S, e)
    BY <2>3, <2>4, GoodWindow DEF Good, Local
  <2> QED
    BY <1>6, <2>1, <2>4, <2>5 DEF e, i, TookPage, SameReceived
<1>7. CASE i # 0 /\ whole
  <2>1. e = [nd EXCEPT !.incomplete = b, !.complete = a]
    BY <1>2, <1>7
  <2>2. e \in NodeType
    BY <1>0, <1>5, <1>7, <2>1, Zenon DEF NodeType
  <2>3. Local(nd, e) /\ e.panic = nd.panic /\ e.incomplete = b /\ e.complete = a
    BY <1>0, <2>1, Zenon DEF NodeType, Local, Untouched, SameWindow
  <2>4. Good(n, S, e)
    BY <2>2, <2>3, GoodWindow DEF Good, Local
  <2> QED
    BY <1>4, <1>7, <2>3, <2>4 DEF e, i, a, b, k, whole, TookPage
<1>8. CASE i # 0 /\ ~whole
  <2>1. e = [nd EXCEPT !.incomplete = c]
    BY <1>2, <1>8
  <2>2. e \in NodeType
    BY <1>0, <1>5, <1>8, <2>1, Zenon DEF NodeType
  <2>3. Local(nd, e) /\ e.panic = nd.panic /\ e.incomplete = c /\ e.complete = nd.complete
    BY <1>0, <2>1, Zenon DEF NodeType, Local, Untouched, SameWindow
  <2>4. Good(n, S, e)
    BY <2>2, <2>3, GoodWindow DEF Good, Local
  <2> QED
    BY <1>4, <1>8, <2>3, <2>4 DEF e, i, c, k, whole, TookPage
<1> QED
  BY <1>6, <1>7, <1>8

\* netipc_page_grab leaves all but the pages and self_stopped.
LEMMA GrabPageOK ==
    ASSUME NEW n \in Node, NEW S, NEW nd, Good(n, S, nd)
    PROVE  LET e == GrabPage(nd)
           IN  /\ Good(n, S, e) /\ SameWindow(nd, e) /\ SameReceived(nd, e)
               /\ e.panic = nd.panic /\ Untouched(nd, e)
<1>0. nd \in NodeType /\ FieldTypes(nd)
  BY Fields DEF Good
<1> DEFINE e == GrabPage(nd)
<1>1. CASE nd.pages > 0
  <2> DEFINE p == nd.pages - 1
  <2>1. e = [nd EXCEPT !.pages = p]
    BY <1>1 DEF GrabPage
  <2>2. p \in 0..MaxPages
    <3>1. nd.pages \in 0..MaxPages
      BY <1>0 DEF FieldTypes
    <3> QED
      BY <1>1, <3>1, BoundsAssumption, SMT DEF BoundsAssumption
  <2> HIDE DEF e, p
  <2>3. e \in NodeType
    BY <1>0, <2>1, <2>2, Zenon DEF NodeType
  <2>4. /\ SameWindow(nd, e) /\ e.ctl = nd.ctl /\ e.out = nd.out /\ e.sending = nd.sending
        /\ SameReceived(nd, e) /\ e.panic = nd.panic /\ Untouched(nd, e)
    BY <1>0, <2>1, Zenon DEF NodeType, SameWindow, SameReceived, Untouched
  <2>5. Good(n, S, e)
    BY <2>3, <2>4, GoodWindow DEF Good
  <2> QED
    BY <2>4, <2>5 DEF e
<1>2. CASE ~(nd.pages > 0)
  <2>1. PICK b \in BOOLEAN : b = TRUE
    OBVIOUS
  <2>2. e = [nd EXCEPT !.self_stopped = b]
    BY <1>2, <2>1 DEF GrabPage
  <2> HIDE DEF e
  <2>3. e \in NodeType
    BY <1>0, <2>2, Zenon DEF NodeType
  <2>4. /\ SameWindow(nd, e) /\ e.ctl = nd.ctl /\ e.out = nd.out /\ e.sending = nd.sending
        /\ SameReceived(nd, e) /\ e.panic = nd.panic /\ Untouched(nd, e)
    BY <1>0, <2>2, Zenon DEF NodeType, SameWindow, SameReceived, Untouched
  <2>5. Good(n, S, e)
    BY <2>3, <2>4, GoodWindow DEF Good
  <2> QED
    BY <2>4, <2>5 DEF e
<1> QED
  BY <1>1, <1>2

\* Data that is new, or as new as the last, is seen; it is taken unless there
\* is no page, or no port.
Took(nd, r, f, e) == IF f.part = 0 THEN TookKmsg(nd, r, f, e) ELSE TookPage(nd, r, f, e)
Saw(nd, r, f, here, e) ==
    \/ f.seqid < nd.rcvd_seqid[r] /\ e = nd
    \/ /\ f.seqid >= nd.rcvd_seqid[r]
       /\ e.rcvd_seqid = [nd.rcvd_seqid EXCEPT ![r] = f.seqid]
       /\ \/ /\ nd.self_stopped \/ (f.part = 0 /\ ~here)
             /\ e.complete = nd.complete /\ e.incomplete = nd.incomplete /\ e.panic = nd.panic
          \/ ~nd.self_stopped /\ (f.part # 0 \/ here) /\ Took(nd, r, f, e)

\* It is put on the list of those to ask again, or acknowledged.
Answered(nd, r, f, e) ==
    f.seqid >= nd.rcvd_seqid[r] =>
       IF nd.self_stopped
       THEN /\ e.ctl = nd.ctl /\ e.out = nd.out /\ e.sending = nd.sending
            /\ e.pending_send = nd.pending_send /\ e.self_stopped = nd.self_stopped
            /\ e.pending_unack = Enqueue(nd.pending_unack, r)
       ELSE Untouched(netipc_send_ctl([nd EXCEPT !.rcvd_seqid[r] = f.seqid], r,
                                      Ctl("ack", f.seqid)), e)

\* A data frame is taken: netipc_recv_intr on a message or a page.
LEMMA RecvDataStep ==
    ASSUME NEW n \in Node, NEW S, NEW V, NEW nd, Good(n, S, nd), Agrees(nd, S, V), nd.out = <<>>,
           NEW r \in Node, NEW f, Brought(r, S, f), NEW here \in BOOLEAN
    PROVE  LET e == RecvData(nd, r, f, here)
           IN  /\ Good(n, S, e) /\ Step(nd, e, S, V) /\ Saw(nd, r, f, here, e)
               /\ e.packet = nd.packet /\ e.log = nd.log /\ e.first = nd.first
               /\ e.sent_seqid = nd.sent_seqid /\ Answered(nd, r, f, e)
<1>0. nd \in NodeType /\ FieldTypes(nd)
  BY Fields DEF Good
<1>01. f.seqid \in Nat
  BY DataIs
<1>02. /\ nd.rcvd_seqid \in [Node -> Nat] /\ nd.sent_seqid \in [Node -> Nat]
       /\ nd.pending_unack \in Seq(Node) /\ nd.rcvd_seqid[r] \in Nat
  BY <1>0 DEF FieldTypes
<1> DEFINE e == RecvData(nd, r, f, here)
           v == [nd.rcvd_seqid EXCEPT ![r] = f.seqid]
           seen == [nd EXCEPT !.rcvd_seqid[r] = f.seqid]
           late == [seen EXCEPT !.pending_unack = Enqueue(@, r)]
           answered == netipc_send_ctl(seen, r, Ctl("ack", f.seqid))
           got == IF f.part = 0 THEN norma_deliver_kmsg(answered, r, f, here)
                                ELSE norma_deliver_page(answered, r, f)
           Rest(d) == /\ d.packet = nd.packet /\ d.log = nd.log /\ d.first = nd.first
                      /\ d.sent_seqid = nd.sent_seqid
<1>1. e = IF f.seqid < nd.rcvd_seqid[r] THEN nd
          ELSE IF nd.self_stopped THEN late ELSE GrabPage(got)
  BY DEF RecvData
<1> HIDE DEF e
<1>2. CASE f.seqid < nd.rcvd_seqid[r]
  <2>1. e = nd
    BY <1>1, <1>2
  <2>2. Step(nd, nd, S, V)
    BY StepWindow DEF SameWindow
  <2> QED
    <3>1. ~(f.seqid >= nd.rcvd_seqid[r])
      BY <1>01, <1>02, <1>2, SMT
    <3> QED
      BY <1>2, <2>1, <2>2, <3>1 DEF e, Saw, Answered
<1>3. CASE ~(f.seqid < nd.rcvd_seqid[r])
  <2>0. f.seqid >= nd.rcvd_seqid[r] /\ nd.rcvd_seqid[r] <= f.seqid
    BY <1>01, <1>02, <1>3, SMT
  <2>1. seen = [nd EXCEPT !.rcvd_seqid = v]
    OBVIOUS
  <2>2. v \in [Node -> Nat] /\ v[r] = f.seqid /\ \A x \in Node : x # r => v[x] = nd.rcvd_seqid[x]
    BY <1>01, <1>02
  <2> HIDE DEF v, seen
  <2>3. seen \in NodeType
    BY <1>0, <2>1, <2>2, Zenon DEF NodeType
  <2>4. /\ seen.log = nd.log /\ seen.packet = nd.packet /\ seen.first = nd.first
        /\ seen.last_unacked = nd.last_unacked /\ seen.sent_seqid = nd.sent_seqid
        /\ seen.rcvd_seqid = v /\ seen.ctl = nd.ctl /\ seen.out = nd.out
        /\ seen.sending = nd.sending /\ seen.incomplete = nd.incomplete
        /\ seen.complete = nd.complete /\ seen.panic = nd.panic
        /\ seen.pending_unack = nd.pending_unack /\ seen.pending_send = nd.pending_send
        /\ seen.self_stopped = nd.self_stopped
    BY <1>0, <2>1, Zenon DEF NodeType
  <2>5. ASSUME NEW x \in Node PROVE nd.rcvd_seqid[x] <= v[x] /\ v[x] <= S[x]
    <3>1. CASE x = r
      BY <2>0, <2>2, <3>1 DEF Brought
    <3>2. CASE x # r
      <4>1. nd.rcvd_seqid[x] <= nd.rcvd_seqid[x] /\ v[x] = nd.rcvd_seqid[x]
        BY <1>02, <2>2, <3>2, NatLeq
      <4> QED
        BY <4>1 DEF Agrees
    <3> QED
      BY <3>1, <3>2
  <2>6. Good(n, S, seen)
    <3>1. ASSUME NEW x \in Node PROVE SendOK(n, seen, x) /\ CtlOK(seen, x, S[x], seen.ctl[x])
      <4>1. LastSeqid(seen, x) = LastSeqid(nd, x)
        BY <2>4 DEF LastSeqid
      <4>2. SendOK(n, nd, x) /\ CtlOK(nd, x, S[x], nd.ctl[x])
        BY DEF Good
      <4>3. SendOK(n, seen, x)
        BY <2>4, <4>1, <4>2, Zenon DEF SendOK
      <4>4. nd.ctl[x].seqid \in Nat
        BY <1>0 DEF FieldTypes
      <4>5. nd.ctl[x].seqid <= nd.rcvd_seqid[x] => nd.ctl[x].seqid <= v[x]
        <5>1. nd.rcvd_seqid[x] \in Nat /\ v[x] \in Nat
          BY <1>02, <2>2
        <5> QED
          BY <2>5, <4>4, <5>1, SMT
      <4> QED
        BY <2>4, <4>2, <4>3, <4>5 DEF CtlOK
    <3>2. \A i \in 1 .. Len(seen.out) :
             FrameOK(seen, seen.out[i].to, S[seen.out[i].to], seen.out[i].frame)
      BY <2>4
    <3>3. \A x \in Node : seen.ctl[x] # CtlNone => IsCtl(seen.ctl[x])
      BY <2>4 DEF Good
    <3> QED
      BY <2>3, <2>4, <3>1, <3>2, <3>3 DEF Good
  <2>7. Step(nd, seen, S, V)
    <3>1. Keeps(nd, seen)
      <4>1. \A x \in Node : nd.sent_seqid[x] <= nd.sent_seqid[x]
        BY <1>02, NatLeq
      <4> QED
        BY <2>4, <2>5, <4>1, Zenon DEF Keeps
    <3>2. \A x \in Node : seen.last_unacked[x] <= V[x] + 1 /\ seen.rcvd_seqid[x] <= S[x]
      BY <2>4, <2>5 DEF Agrees
    <3>3. Step(nd, nd, S, V)
      BY StepWindow DEF SameWindow
    <3> QED
      BY <2>4, <3>1, <3>2, <3>3, Zenon DEF Step
  <2>8. Agrees(seen, S, V)
    BY <2>4, <2>5 DEF Agrees
  <2>9. ASSUME NEW d, Good(n, S, d), SameWindow(seen, d)
        PROVE  Step(nd, d, S, V) /\ d.rcvd_seqid = v /\ Rest(d)
    <3>1. SentOne(seen, d, r) /\ SameQueue(seen, d) /\ d.rcvd_seqid = v /\ Rest(d)
      BY <2>4, <2>9, Zenon DEF SameWindow, SentOne, SameQueue
    <3>2. Step(seen, d, S, V)
      BY <2>6, <2>8, <2>9, <3>1, StepQueue
    <3>3. d.log = seen.log /\ d.packet = seen.packet /\ Keeps(nd, d)
      <4>1. d.log = seen.log /\ d.packet = seen.packet /\ d.first = seen.first
            /\ d.sent_seqid = seen.sent_seqid /\ d.rcvd_seqid = seen.rcvd_seqid
        BY <2>9 DEF SameWindow
      <4> QED
        BY <2>7, <4>1, Zenon DEF Step, Keeps
    <3>4. \A x \in Node : d.last_unacked[x] <= V[x] + 1 /\ d.rcvd_seqid[x] <= S[x]
      BY <3>2 DEF Step
    <3>5. ASSUME NEW y \in Node, NEW i \in 1 .. Len(d.log[y]) - Len(d.packet[y])
          PROVE  /\ d.log[y][i] = nd.log[y][i]
                 /\ \/ i <= Len(nd.log[y]) - Len(nd.packet[y])
                    \/ /\ nd.packet[y] # <<>> /\ nd.log[y][i] = Head(nd.packet[y])
                       /\ LastSeqid(nd, y) <= V[y]
      <4>1. \A j \in 1 .. Len(seen.log[y]) - Len(seen.packet[y]) :
               /\ seen.log[y][j] = nd.log[y][j]
               /\ \/ j <= Len(nd.log[y]) - Len(nd.packet[y])
                  \/ /\ nd.packet[y] # <<>> /\ nd.log[y][j] = Head(nd.packet[y])
                     /\ LastSeqid(nd, y) <= V[y]
        BY <2>7, Zenon DEF Step
      <4> QED
        BY <3>3, <4>1, Zenon
    <3>6. Step(nd, d, S, V)
      BY <3>3, <3>4, <3>5 DEF Step
    <3> QED
      BY <3>1, <3>6
  <2>10. CASE nd.self_stopped
    <3> DEFINE p == Enqueue(nd.pending_unack, r)
    <3>1. e = late
      BY <1>1, <1>3, <2>10
    <3>2. late = [seen EXCEPT !.pending_unack = p]
      BY <2>4
    <3>3. p \in Seq(Node)
      BY <1>02, EnqueueType
    <3> HIDE DEF late, p
    <3>4. late \in NodeType
      BY <2>3, <3>2, <3>3, Zenon DEF NodeType
    <3>5. /\ SameWindow(seen, late) /\ SameReceived(seen, late) /\ late.ctl = seen.ctl
          /\ late.out = seen.out /\ late.sending = seen.sending /\ late.panic = seen.panic
          /\ late.pending_unack = p /\ late.pending_send = seen.pending_send
          /\ late.self_stopped = seen.self_stopped
      BY <2>3, <3>2, Zenon DEF NodeType, SameWindow, SameReceived
    <3>6. Good(n, S, late)
      BY <2>6, <3>4, <3>5, GoodWindow DEF Good
    <3>7. Step(nd, late, S, V) /\ late.rcvd_seqid = v /\ Rest(late)
      BY <2>9, <3>5, <3>6
    <3>8. Saw(nd, r, f, here, late)
      BY <2>0, <2>4, <2>10, <3>5, <3>7 DEF Saw, SameReceived, v
    <3>9. Answered(nd, r, f, late)
      BY <2>4, <2>10, <3>5 DEF Answered, p
    <3> QED
      BY <3>1, <3>6, <3>7, <3>8, <3>9 DEF e
  <2>11. CASE ~nd.self_stopped
    <3>1. e = GrabPage(got)
      BY <1>1, <1>3, <2>11
    <3> DEFINE c == Ctl("ack", f.seqid)
    <3>2. IsCtl(c) /\ CtlOK(seen, r, S[r], c)
      <4>1. f.seqid <= v[r]
        BY <1>01, <2>2, SMT
      <4> QED
        BY <1>01, <2>4, <4>1 DEF IsCtl, CtlOK, Ctl
    <3> HIDE DEF c
    <3>3. Good(n, S, answered) /\ SameSent(seen, answered)
      BY <2>6, <3>2, SendCtlOK DEF c
    <3> HIDE DEF answered
    <3> DEFINE taken == f.part # 0 \/ here
    <3>4. /\ Good(n, S, got) /\ Local(answered, got)
          /\ IF taken THEN Took(answered, r, f, got) ELSE got = answered
      <4>1. CASE f.part = 0 /\ here
        <5>1. got = norma_deliver_kmsg(answered, r, f, TRUE)
          BY <4>1 DEF norma_deliver_kmsg
        <5> QED
          BY <3>3, <4>1, <5>1, DeliverKmsg DEF Took
      <4>2. CASE f.part # 0
        BY <3>3, <4>2, DeliverPage DEF Took
      <4>3. CASE f.part = 0 /\ ~here
        <5>1. got = answered
          BY <4>3 DEF norma_deliver_kmsg
        <5>2. Local(answered, answered)
          BY DEF Local, SameWindow, Untouched
        <5> QED
          BY <3>3, <4>3, <5>1, <5>2
      <4> QED
        BY <4>1, <4>2, <4>3
    <3> HIDE DEF got
    <3>5. Good(n, S, e) /\ SameWindow(got, e) /\ SameReceived(got, e) /\ e.panic = got.panic
          /\ Untouched(got, e)
      BY <3>1, <3>4, GrabPageOK
    <3>6. SameWindow(seen, e)
      BY <3>3, <3>4, <3>5, Zenon DEF SameWindow, Local, SameSent, Same
    <3>7. Step(nd, e, S, V) /\ e.rcvd_seqid = v /\ Rest(e)
      BY <2>9, <3>5, <3>6
    <3>8. IF taken THEN Took(nd, r, f, e)
          ELSE e.complete = nd.complete /\ e.incomplete = nd.incomplete /\ e.panic = nd.panic
      <4>1. /\ answered.incomplete = nd.incomplete /\ answered.complete = nd.complete
            /\ answered.panic = nd.panic
        BY <2>4, <3>3, Zenon DEF SameSent, Same
      <4>2. e.incomplete = got.incomplete /\ e.complete = got.complete /\ e.panic = got.panic
        BY <3>5 DEF SameReceived
      <4>3. CASE f.part = 0 /\ here
        <5>1. TookKmsg(answered, r, f, got)
          BY <3>4, <4>3 DEF Took
        <5>2. TookKmsg(nd, r, f, e)
          BY <4>1, <4>2, <5>1, Zenon DEF TookKmsg
        <5> QED
          BY <4>3, <5>2 DEF Took
      <4>4. CASE f.part # 0
        <5>1. TookPage(answered, r, f, got)
          BY <3>4, <4>4 DEF Took
        <5>2. TookPage(nd, r, f, e)
          BY <4>1, <4>2, <5>1, Zenon DEF TookPage
        <5> QED
          BY <4>4, <5>2 DEF Took
      <4>5. CASE ~taken
        BY <3>4, <4>1, <4>2, <4>5
      <4> QED
        BY <4>3, <4>4, <4>5
    <3>9. Saw(nd, r, f, here, e)
      BY <2>0, <2>11, <3>7, <3>8 DEF Saw, v
    <3>10. Answered(nd, r, f, e)
      <4>1. Untouched(answered, e)
        BY <3>4, <3>5, Zenon DEF Local, Untouched
      <4> QED
        BY <2>11, <4>1 DEF Answered, answered, seen
    <3> QED
      BY <3>5, <3>7, <3>9, <3>10 DEF e
  <2> QED
    BY <2>10, <2>11
<1> QED
  BY <1>2, <1>3

-----------------------------------------------------------------------------
(* All nodes.                                                              *)

Wires == [Node -> [Node -> Seq(Frame)]]

\* The frames of v are frames of w.
FramesOf(v, w) ==
    \A n, r \in Node : \A i \in 1 .. Len(v[n][r]) :
        \E j \in 1 .. Len(w[n][r]) : v[n][r][i] = w[n][r][j]

\* When all fits, each node's record is good and its window agrees.
LEMMA FitsAgrees ==
    ASSUME NEW N \in [Node -> NodeType], NEW W, Fits(N, W), NEW n \in Node
    PROVE  /\ Good(n, Sent(N, n), N[n]) /\ N[n].out = <<>>
           /\ Agrees(N[n], Sent(N, n), Seen(N, n))
<1>1. Sent(N, n) \in [Node -> Nat] /\ Seen(N, n) \in [Node -> Nat]
  <2>1. \A r \in Node : N[r].sent_seqid[n] \in Nat /\ N[r].rcvd_seqid[n] \in Nat
    BY Fields DEF FieldTypes
  <2> QED
    BY <2>1 DEF Sent, Seen
<1> QED
  BY <1>1 DEF Fits, Agrees, Sent, Seen

\* More may have been sent to a node.
LEMMA GoodMore ==
    ASSUME NEW n \in Node, NEW nd, NEW S \in [Node -> Nat], NEW T \in [Node -> Nat],
           Good(n, S, nd), \A r \in Node : S[r] <= T[r], nd.out = <<>>
    PROVE  Good(n, T, nd)
<1>1. ASSUME NEW r \in Node PROVE CtlOK(nd, r, T[r], nd.ctl[r])
  <2>1. nd.ctl[r].seqid \in Nat
    BY Fields DEF Good, FieldTypes
  <2>2. CtlOK(nd, r, S[r], nd.ctl[r])
    BY DEF Good
  <2>3. S[r] \in Nat /\ T[r] \in Nat /\ S[r] <= T[r]
    OBVIOUS
  <2> QED
    BY <2>1, <2>2, <2>3, SMT DEF CtlOK
<1>2. \A i \in 1 .. Len(nd.out) : FrameOK(nd, nd.out[i].to, T[nd.out[i].to], nd.out[i].frame)
  OBVIOUS
<1> QED
  BY <1>1, <1>2 DEF Good

\* A node that goes on as it should leaves everything fitting.
LEMMA StepFits ==
    ASSUME NEW N \in [Node -> NodeType], NEW W \in Wires, Fits(N, W), NEW n \in Node,
           NEW e, Good(n, Sent(N, n), e), Step(N[n], e, Sent(N, n), Seen(N, n)),
           NEW w \in Wires, FramesOf(w, W),
           NEW M, M = [N EXCEPT ![n] = [e EXCEPT !.out = <<>>]],
           NEW X, X = IF e.out = <<>> THEN w
                      ELSE [w EXCEPT ![n][e.out[1].to] = Append(@, e.out[1].frame)]
    PROVE  M \in [Node -> NodeType] /\ X \in Wires /\ Fits(M, X)
<1> DEFINE d == [e EXCEPT !.out = <<>>]
           S == Sent(N, n)
<1>1. e \in NodeType /\ FieldTypes(e) /\ N[n] \in NodeType /\ FieldTypes(N[n])
  BY Fields DEF Good
<1>2. d \in NodeType
  <2>1. PICK o \in Seq([to : Node, frame : Frame]) : o = <<>>
    BY EmptyIs
  <2>2. [e EXCEPT !.out = o] \in NodeType
    BY <1>1, Zenon DEF NodeType
  <2> QED
    BY <2>1, <2>2
<1>3. /\ d.log = e.log /\ d.packet = e.packet /\ d.first = e.first
      /\ d.last_unacked = e.last_unacked /\ d.rcvd_seqid = e.rcvd_seqid
      /\ d.sent_seqid = e.sent_seqid /\ d.ctl = e.ctl /\ d.out = <<>>
  BY <1>1, Zenon DEF NodeType
<1> HIDE DEF d
<1>4. M \in [Node -> NodeType] /\ M[n] = d /\ \A x \in Node : x # n => M[x] = N[x]
  BY <1>2 DEF d
<1>5. S \in [Node -> Nat] /\ Good(n, S, N[n]) /\ Agrees(N[n], S, Seen(N, n)) /\ N[n].out = <<>>
  BY FitsAgrees DEF Agrees
<1>6. Good(n, S, d)
  <2>1. \A x \in Node : SendOK(n, d, x) /\ CtlOK(d, x, S[x], d.ctl[x])
    <3>1. SameWindow(e, d)
      BY <1>3 DEF SameWindow
    <3> QED
      BY <1>3, <3>1, SendWindow, CtlWindow DEF Good
  <2>2. \A i \in 1 .. Len(d.out) : FrameOK(d, d.out[i].to, S[d.out[i].to], d.out[i].frame)
    BY <1>3
  <2>3. \A x \in Node : d.ctl[x] # CtlNone => IsCtl(d.ctl[x])
    BY <1>3 DEF Good
  <2> QED
    BY <1>2, <1>3, <2>1, <2>2, <2>3 DEF Good
<1>7. Keeps(N[n], d)
  BY <1>3, ZenonT(30) DEF Step, Keeps
<1>8. ASSUME NEW x \in Node
      PROVE  /\ Keeps(N[x], M[x]) /\ M[x] \in NodeType /\ N[x] \in NodeType
             /\ \A r \in Node : N[x].sent_seqid[r] \in Nat /\ M[x].sent_seqid[r] \in Nat
                                /\ N[x].sent_seqid[r] <= M[x].sent_seqid[r]
                                /\ N[x].rcvd_seqid[r] \in Nat /\ M[x].rcvd_seqid[r] \in Nat
                                /\ N[x].rcvd_seqid[r] <= M[x].rcvd_seqid[r]
  <2>1. M[x] \in NodeType /\ N[x] \in NodeType
    BY <1>4
  <2>2. /\ N[x].sent_seqid \in [Node -> Nat] /\ M[x].sent_seqid \in [Node -> Nat]
        /\ N[x].rcvd_seqid \in [Node -> Nat] /\ M[x].rcvd_seqid \in [Node -> Nat]
    BY <2>1, Fields DEF FieldTypes
  <2>3. Keeps(N[x], M[x])
    <3>1. CASE x = n
      BY <1>4, <1>7, <3>1
    <3>2. CASE x # n
      <4>1. \A r \in Node : /\ N[x].sent_seqid[r] <= N[x].sent_seqid[r]
                            /\ N[x].rcvd_seqid[r] <= N[x].rcvd_seqid[r]
        BY <2>2, NatLeq
      <4> QED
        BY <1>4, <3>2, <4>1 DEF Keeps
    <3> QED
      BY <3>1, <3>2
  <2> QED
    BY <2>1, <2>2, <2>3 DEF Keeps
<1>9. X \in Wires
  <2>1. CASE e.out = <<>>
    BY <2>1
  <2>2. CASE e.out # <<>>
    <3> DEFINE t == e.out[1].to
               a == Append(w[n][t], e.out[1].frame)
    <3>1. t \in Node /\ e.out[1].frame \in Frame
      <4>1. e.out \in Seq([to : Node, frame : Frame])
        BY <1>1 DEF FieldTypes
      <4>2. 1 \in 1 .. Len(e.out)
        BY <2>2, <4>1, TailIs, SMT
      <4>3. e.out[1] \in [to : Node, frame : Frame]
        BY <4>1, <4>2, ElementIs
      <4> QED
        BY <4>3
    <3>2. w \in [Node -> [Node -> Seq(Frame)]] /\ w[n][t] \in Seq(Frame)
      BY <3>1 DEF Wires
    <3>3. a \in Seq(Frame)
      BY <3>1, <3>2, Appended
    <3>4. X = [w EXCEPT ![n] = [w[n] EXCEPT ![t] = a]]
      BY <2>2
    <3> HIDE DEF a
    <3> QED
      BY <3>1, <3>2, <3>3, <3>4 DEF Wires
  <2> QED
    BY <2>1, <2>2
<1>10. ASSUME NEW x \in Node
       PROVE  Good(x, Sent(M, x), M[x]) /\ M[x].out = <<>>
  <2>1. Sent(N, x) \in [Node -> Nat] /\ Sent(M, x) \in [Node -> Nat]
    BY <1>8 DEF Sent
  <2>2. \A r \in Node : Sent(N, x)[r] <= Sent(M, x)[r]
    BY <1>8 DEF Sent
  <2>3. Good(x, Sent(N, x), M[x]) /\ M[x].out = <<>>
    <3>1. CASE x = n
      BY <1>3, <1>4, <1>6, <3>1
    <3>2. CASE x # n
      BY <1>4, <3>2 DEF Fits
    <3> QED
      BY <3>1, <3>2
  <2> QED
    BY <2>1, <2>2, <2>3, GoodMore
<1>11. ASSUME NEW x \in Node, NEW r \in Node, NEW i \in 1 .. Len(X[x][r])
       PROVE  FrameOK(M[x], r, M[r].sent_seqid[x], X[x][r][i])
  <2>1. ASSUME NEW f \in Frame, FrameOK(N[x], r, N[r].sent_seqid[x], f)
        PROVE  FrameOK(M[x], r, M[r].sent_seqid[x], f)
    <3>1. /\ Keeps(N[x], M[x]) /\ M[x] \in NodeType /\ N[x] \in NodeType
          /\ N[r].sent_seqid[x] \in Nat /\ M[r].sent_seqid[x] \in Nat
          /\ N[r].sent_seqid[x] <= M[r].sent_seqid[x]
      BY <1>8
    <3> QED
      BY <2>1, <3>1, FrameKept
  <2>2. ASSUME NEW j \in 1 .. Len(w[x][r])
        PROVE  FrameOK(M[x], r, M[r].sent_seqid[x], w[x][r][j])
    <3>1. PICK k \in 1 .. Len(W[x][r]) : w[x][r][j] = W[x][r][k]
      BY DEF FramesOf
    <3>2. W[x][r] \in Seq(Frame)
      BY DEF Wires
    <3>3. W[x][r][k] \in Frame
      BY <3>2, ElementIs
    <3>4. FrameOK(N[x], r, N[r].sent_seqid[x], W[x][r][k])
      BY DEF Fits
    <3> QED
      BY <2>1, <3>1, <3>3, <3>4
  <2>3. CASE e.out = <<>>
    BY <2>2, <2>3
  <2>4. CASE e.out # <<>>
    <3> DEFINE t == e.out[1].to
               f == e.out[1].frame
    <3>1. 1 \in 1 .. Len(e.out) /\ t \in Node /\ f \in Frame
      <4>1. e.out \in Seq([to : Node, frame : Frame])
        BY <1>1 DEF FieldTypes
      <4>2. 1 \in 1 .. Len(e.out)
        BY <2>4, <4>1, TailIs, SMT
      <4>3. e.out[1] \in [to : Node, frame : Frame]
        BY <4>1, <4>2, ElementIs
      <4> QED
        BY <4>2, <4>3
    <3>2. FrameOK(e, t, S[t], f)
      BY <3>1 DEF Good
    <3> HIDE DEF t, f
    <3>3. FrameOK(d, t, S[t], f)
      BY <1>3, <3>2 DEF FrameOK, DataOK, CtlOK, Known
    <3>4. FrameOK(M[n], t, M[t].sent_seqid[n], f)
      <4>1. Keeps(d, d) /\ S[t] = N[t].sent_seqid[n]
        <5>1. d.sent_seqid \in [Node -> Nat] /\ d.rcvd_seqid \in [Node -> Nat]
          BY <1>2, Fields DEF FieldTypes
        <5>2. \A y \in Node : d.sent_seqid[y] <= d.sent_seqid[y] /\ d.rcvd_seqid[y] <= d.rcvd_seqid[y]
          BY <5>1, NatLeq
        <5> QED
          BY <3>1, <5>2 DEF Keeps, Sent
      <4>2. /\ N[t].sent_seqid[n] \in Nat /\ M[t].sent_seqid[n] \in Nat
            /\ N[t].sent_seqid[n] <= M[t].sent_seqid[n]
        BY <1>8, <3>1
      <4>3. FrameOK(d, t, M[t].sent_seqid[n], f)
        BY <1>2, <3>1, <3>3, <4>1, <4>2, FrameKept
      <4> QED
        BY <1>4, <4>3
    <3>5. X = [w EXCEPT ![n] = [w[n] EXCEPT ![t] = Append(w[n][t], f)]]
      BY <2>4 DEF t, f
    <3>6. w \in [Node -> [Node -> Seq(Frame)]] /\ w[n][t] \in Seq(Frame)
      BY <3>1 DEF Wires
    <3>7. CASE x = n /\ r = t
      <4>1. X[x][r] = Append(w[n][t], f)
        <5>1. X[n] = [w[n] EXCEPT ![t] = Append(w[n][t], f)]
          BY <3>1, <3>5, <3>6, Zenon
        <5>2. X[n][t] = Append(w[n][t], f)
          BY <3>1, <3>6, <5>1, Zenon
        <5> QED
          BY <3>7, <5>2
      <4>2. /\ Len(w[n][t]) \in Nat /\ Len(X[x][r]) = Len(w[n][t]) + 1
            /\ \A j \in 1 .. Len(w[n][t]) : X[x][r][j] = w[n][t][j]
            /\ X[x][r][Len(w[n][t]) + 1] = f
        <5> DEFINE l == w[n][t]
        <5>1. l \in Seq(Frame) /\ X[x][r] = Append(l, f)
          BY <3>6, <4>1
        <5> HIDE DEF l
        <5>2. /\ Len(l) \in Nat /\ Len(X[x][r]) = Len(l) + 1
              /\ \A j \in 1 .. Len(l) : X[x][r][j] = l[j]
              /\ X[x][r][Len(l) + 1] = f
          BY <3>1, <5>1, Appended
        <5> QED
          BY <5>2 DEF l
      <4>3. i \in 1 .. Len(w[n][t]) \/ i = Len(w[n][t]) + 1
        BY <4>2, SMT
      <4> QED
        BY <2>2, <3>4, <3>7, <4>2, <4>3
    <3>8. CASE ~(x = n /\ r = t)
      <4>1. X[x][r] = w[x][r]
        <5> DEFINE l == [w[n] EXCEPT ![t] = Append(w[n][t], f)]
        <5>1. t # r => l[r] = w[n][r]
          BY <3>6
        <5>2. X = [w EXCEPT ![n] = l]
          BY <3>5
        <5> HIDE DEF l
        <5>3. X[x] = IF x = n THEN l ELSE w[x]
          BY <3>6, <5>2
        <5> QED
          BY <3>8, <5>1, <5>3
      <4> QED
        BY <2>2, <4>1
    <3> QED
      BY <3>7, <3>8
  <2> QED
    BY <2>3, <2>4
<1>12. ASSUME NEW x \in Node, NEW r \in Node
       PROVE  /\ M[x].last_unacked[r] <= M[r].rcvd_seqid[x] + 1
              /\ M[r].rcvd_seqid[x] <= M[x].sent_seqid[r]
  <2>1. M[x].last_unacked[r] \in Nat
    <3>1. M[x] \in NodeType
      BY <1>8
    <3> QED
      BY <3>1, Fields DEF FieldTypes
  <2>2. M[x].last_unacked[r] <= N[r].rcvd_seqid[x] + 1
    <3>1. CASE x = n
      BY <1>3, <1>4, <3>1 DEF Step, Seen
    <3>2. CASE x # n
      BY <1>4, <3>2 DEF Fits
    <3> QED
      BY <3>1, <3>2
  <2>3. M[r].rcvd_seqid[x] <= N[x].sent_seqid[r]
    <3>1. CASE r = n
      BY <1>3, <1>4, <3>1 DEF Step, Sent
    <3>2. CASE r # n
      BY <1>4, <3>2 DEF Fits
    <3> QED
      BY <3>1, <3>2
  <2>4. /\ N[r].rcvd_seqid[x] \in Nat /\ M[r].rcvd_seqid[x] \in Nat
        /\ N[x].sent_seqid[r] \in Nat /\ M[x].sent_seqid[r] \in Nat
        /\ N[r].rcvd_seqid[x] <= M[r].rcvd_seqid[x] /\ N[x].sent_seqid[r] <= M[x].sent_seqid[r]
    BY <1>8
  <2> QED
    BY <2>1, <2>2, <2>3, <2>4, SMT
<1> QED
  BY <1>4, <1>9, <1>10, <1>11, <1>12 DEF Fits

\* Node n's routine returned e, with the wires w.
Moves(n, e, w) ==
    /\ Good(n, Sent(node, n), e) /\ Step(node[n], e, Sent(node, n), Seen(node, n))
    /\ w \in Wires /\ FramesOf(w, wire)
    /\ Becomes(n, e, w)

\* It is one of those that take no data, with the wires w.
Routine(n, e, w) ==
    \/ /\ w = wire
       /\ \/ e = netipc_send_intr(node[n])
          \/ e = netipc_timeout(node[n])
          \/ e = PutPage(node[n])
          \/ \E r \in Node : \E shape \in Shapes[n] : e = norma_ipc_send(node[n], r, shape)
    \/ \E r \in Node : /\ wire[r][n] # <<>> /\ Head(wire[r][n]).type = "ctl"
                       /\ w = [wire EXCEPT ![r][n] = Tail(@)]
                       /\ e = RecvCtl(node[n], r, Head(wire[r][n]))

\* Every step but a loss is one of these two.
Works(n) ==
    \E e \in NodeType : \E w : /\ Moves(n, e, w) /\ Routine(n, e, w)
                               /\ SameReceived(node[n], e)
                               /\ UNCHANGED <<lost, refused>>
Takes(n, r, f, here) ==
    \E e \in NodeType : /\ Moves(n, e, [wire EXCEPT ![r][n] = Tail(@)])
                        /\ Saw(node[n], r, f, here, e) /\ Answered(node[n], r, f, e)
                        /\ e.packet = node[n].packet /\ e.log = node[n].log
                        /\ e.first = node[n].first /\ e.sent_seqid = node[n].sent_seqid

\* Taking the first frame from a wire.
LEMMA FramesLess ==
    ASSUME NEW W \in Wires, NEW n \in Node, NEW r \in Node, W[r][n] # <<>>
    PROVE  /\ [W EXCEPT ![r][n] = Tail(@)] \in Wires
           /\ FramesOf([W EXCEPT ![r][n] = Tail(@)], W)
           /\ Head(W[r][n]) \in Frame /\ 1 \in 1 .. Len(W[r][n]) /\ Head(W[r][n]) = W[r][n][1]
<1> DEFINE l == W[r][n]
           u == [W[r] EXCEPT ![n] = Tail(l)]
           w == [W EXCEPT ![r] = u]
<1>1. W \in [Node -> [Node -> Seq(Frame)]] /\ l \in Seq(Frame)
  BY DEF Wires
<1>2. /\ Tail(l) \in Seq(Frame) /\ Len(l) \in Nat /\ Len(l) >= 1 /\ Len(Tail(l)) = Len(l) - 1
      /\ \A i \in 1 .. Len(l) - 1 : Tail(l)[i] = l[i + 1]
      /\ Head(l) = l[1] /\ Head(l) \in Frame
  <2> HIDE DEF l
  <2>1. l # <<>>
    BY DEF l
  <2> QED
    BY <1>1, <2>1, TailIs
<1>3. w \in Wires
  <2> HIDE DEF l
  <2> QED
    BY <1>1, <1>2 DEF Wires
<1>4. ASSUME NEW x \in Node, NEW y \in Node, NEW i \in 1 .. Len(w[x][y])
      PROVE  \E j \in 1 .. Len(W[x][y]) : w[x][y][i] = W[x][y][j]
  <2>1. CASE x = r /\ y = n
    <3>1. w[x][y] = Tail(l)
      <4> HIDE DEF l
      <4> QED
        BY <1>1, <2>1
    <3>2. i \in 1 .. Len(l) - 1 /\ i + 1 \in 1 .. Len(l)
      <4> HIDE DEF l, w
      <4> QED
        BY <1>2, <3>1, SMT
    <3> QED
      BY <1>2, <2>1, <3>1, <3>2
  <2>2. CASE ~(x = r /\ y = n)
    <3>1. w[x][y] = W[x][y]
      <4> HIDE DEF l
      <4>1. n # y => u[y] = W[r][y]
        BY <1>1
      <4> HIDE DEF u
      <4>2. w[x] = IF x = r THEN u ELSE W[x]
        BY <1>1
      <4> QED
        BY <2>2, <4>1, <4>2
    <3> QED
      BY <3>1
  <2> QED
    BY <2>1, <2>2
<1>5. FramesOf(w, W)
  BY <1>4 DEF FramesOf
<1>6. 1 \in 1 .. Len(l)
  <2> HIDE DEF l
  <2> QED
    BY <1>2, SMT
<1> QED
  BY <1>2, <1>3, <1>5, <1>6

\* Leaving the wires alone.
LEMMA FramesSame == ASSUME NEW W PROVE FramesOf(W, W)
  BY DEF FramesOf

\* What a step of Next is, to the window.
LEMMA NextMoves ==
    ASSUME Inv, Next
    PROVE  \/ \E n \in Node : Works(n)
           \/ \E n, r \in Node, here \in BOOLEAN :
                 /\ wire[r][n] # <<>> /\ Head(wire[r][n]).type = "data"
                 /\ Takes(n, r, Head(wire[r][n]), here)
                 /\ ReceiveData(n, r, here)
           \/ \E n, r \in Node : Lose(n, r)
<1>1. PICK n \in Node :
        \/ SendComplete(n)
        \/ Timeout(n)
        \/ PagePut(n)
        \/ \E r \in Node :
              \/ \E shape \in Shapes[n] : Send(n, r, shape)
              \/ \E here \in BOOLEAN : ReceiveData(n, r, here)
              \/ ReceiveCtl(n, r)
              \/ Lose(n, r)
  BY DEF Next
<1> DEFINE nd == node[n]
           S == Sent(node, n)
           V == Seen(node, n)
<1>2. node \in [Node -> NodeType] /\ wire \in Wires /\ Fits(node, wire)
  BY DEF Inv, TypeOK, Wires
<1>3. Good(n, S, nd) /\ nd.out = <<>> /\ Agrees(nd, S, V)
  BY <1>2, FitsAgrees
<1>4. FramesOf(wire, wire)
  BY FramesSame
<1>5. ASSUME NEW e, Good(n, S, e), Step(nd, e, S, V), SameReceived(nd, e), Becomes(n, e, wire),
             Routine(n, e, wire), UNCHANGED <<lost, refused>>
      PROVE  Works(n)
  <2>1. Moves(n, e, wire)
    BY <1>2, <1>4, <1>5 DEF Moves
  <2>2. e \in NodeType
    BY <1>5 DEF Good
  <2> QED
    BY <1>5, <2>1, <2>2 DEF Works
<1>6. CASE SendComplete(n)
  <2> DEFINE e == netipc_send_intr(nd)
  <2>1. Becomes(n, e, wire) /\ UNCHANGED <<lost, refused>>
    BY <1>6 DEF SendComplete
  <2>0. Routine(n, e, wire)
    BY DEF Routine
  <2>2. PICK r \in Node : Good(n, S, e) /\ Same(nd, e) /\ SentOne(nd, e, r)
    <3> HIDE DEF nd, S
    <3> QED
      BY <1>3, SendIntrOK
  <2> HIDE DEF e, nd, S, V
  <2>3. Step(nd, e, S, V)
    BY <1>3, <2>2, StepSame
  <2>4. SameReceived(nd, e)
    BY <2>2 DEF Same, SameReceived
  <2> QED
    BY <1>5, <2>1, <2>2, <2>3, <2>4, <2>0
<1>7. CASE Timeout(n)
  <2> DEFINE e == netipc_timeout(nd)
  <2>1. Becomes(n, e, wire) /\ UNCHANGED <<lost, refused>>
    BY <1>7 DEF Timeout
  <2>0. Routine(n, e, wire)
    BY DEF Routine
  <2>2. Good(n, S, e) /\ Step(nd, e, S, V) /\ SameReceived(nd, e)
    <3> HIDE DEF nd, S, V
    <3> QED
      BY <1>3, TimeoutStep
  <2> HIDE DEF e, nd, S, V
  <2> QED
    BY <1>5, <2>1, <2>2, <2>0
<1>8. CASE PagePut(n)
  <2> DEFINE e == PutPage(nd)
  <2>1. Becomes(n, e, wire) /\ UNCHANGED <<lost, refused>> /\ nd.pages < MaxPages
    BY <1>8 DEF PagePut
  <2>0. Routine(n, e, wire)
    BY DEF Routine
  <2>2. Good(n, S, e) /\ Step(nd, e, S, V) /\ SameReceived(nd, e)
    <3> HIDE DEF nd, S, V
    <3> QED
      BY <1>3, <2>1, PutPageStep
  <2> HIDE DEF e, nd, S, V
  <2> QED
    BY <1>5, <2>1, <2>2, <2>0
<1>9. ASSUME NEW r \in Node, NEW shape \in Shapes[n], Send(n, r, shape)
      PROVE  Works(n)
  <2> DEFINE e == norma_ipc_send(nd, r, shape)
  <2>1. Becomes(n, e, wire) /\ UNCHANGED <<lost, refused>>
    BY <1>9 DEF Send
  <2>0. Routine(n, e, wire)
    BY DEF Routine
  <2>2. Good(n, S, e) /\ Step(nd, e, S, V) /\ SameReceived(nd, e)
    <3> HIDE DEF nd, S, V
    <3> QED
      BY <1>3, SendStep
  <2> HIDE DEF e, nd, S, V
  <2> QED
    BY <1>5, <2>1, <2>2, <2>0
<1>10. ASSUME NEW r \in Node, wire[r][n] # <<>>
       PROVE  LET f == Head(wire[r][n])
              IN  /\ f \in Frame
                  /\ f.type = "data" => Brought(r, S, f)
                  /\ f.type = "ctl" => Heard(nd, r, S, V, f)
  <2> DEFINE f == Head(wire[r][n])
  <2>1. f \in Frame /\ 1 \in 1 .. Len(wire[r][n]) /\ f = wire[r][n][1]
    BY <1>2, <1>10, FramesLess
  <2>2. FrameOK(node[r], n, node[n].sent_seqid[r], f)
    BY <1>2, <2>1 DEF Fits
  <2> HIDE DEF f
  <2>3. S[r] = node[r].sent_seqid[n] /\ V[r] = node[r].rcvd_seqid[n]
    BY DEF Sent, Seen
  <2>4. f.type = "data" => Brought(r, S, f)
    BY <2>1, <2>2, <2>3 DEF Brought, FrameOK, DataOK
  <2>5. f.type = "ctl" => Heard(nd, r, S, V, f)
    BY <2>1, <2>2, <2>3 DEF Heard, FrameOK, CtlOK
  <2> QED
    BY <2>1, <2>4, <2>5 DEF f
<1>11. ASSUME NEW r \in Node, ReceiveCtl(n, r)
       PROVE  Works(n)
  <2> DEFINE f == Head(wire[r][n])
             e == RecvCtl(nd, r, f)
             w == [wire EXCEPT ![r][n] = Tail(@)]
  <2>1. /\ wire[r][n] # <<>> /\ f.type = "ctl" /\ Becomes(n, e, w)
        /\ UNCHANGED <<lost, refused>>
    BY <1>11 DEF ReceiveCtl
  <2>0. Routine(n, e, w)
    BY <2>1 DEF Routine
  <2>2. Heard(nd, r, S, V, f)
    BY <1>10, <2>1
  <2>3. w \in Wires /\ FramesOf(w, wire)
    BY <1>2, <2>1, FramesLess
  <2>4. Good(n, S, e) /\ Step(nd, e, S, V) /\ SameReceived(nd, e)
    <3> HIDE DEF nd, S, V, f
    <3> QED
      BY <1>3, <2>2, RecvCtlStep
  <2>5. e \in NodeType
    BY <2>4 DEF Good
  <2> HIDE DEF e, f
  <2>6. Moves(n, e, w)
    BY <2>1, <2>3, <2>4 DEF Moves
  <2> QED
    BY <2>1, <2>4, <2>5, <2>6, <2>0 DEF Works
<1>12. ASSUME NEW r \in Node, NEW here \in BOOLEAN, ReceiveData(n, r, here)
       PROVE  /\ wire[r][n] # <<>> /\ Head(wire[r][n]).type = "data"
              /\ Takes(n, r, Head(wire[r][n]), here)
  <2> DEFINE f == Head(wire[r][n])
             e == RecvData(nd, r, f, here)
             w == [wire EXCEPT ![r][n] = Tail(@)]
  <2>1. wire[r][n] # <<>> /\ f.type = "data" /\ Becomes(n, e, w)
    BY <1>12 DEF ReceiveData
  <2>2. Brought(r, S, f)
    BY <1>10, <2>1
  <2>3. w \in Wires /\ FramesOf(w, wire)
    BY <1>2, <2>1, FramesLess
  <2>4. /\ Good(n, S, e) /\ Step(nd, e, S, V) /\ Saw(nd, r, f, here, e)
        /\ e.packet = nd.packet /\ e.log = nd.log /\ e.first = nd.first
        /\ e.sent_seqid = nd.sent_seqid /\ Answered(nd, r, f, e)
    <3> HIDE DEF nd, S, V, f
    <3> QED
      BY <1>3, <2>2, RecvDataStep
  <2>5. e \in NodeType
    BY <2>4 DEF Good
  <2> HIDE DEF e
  <2>6. Moves(n, e, w)
    BY <2>1, <2>3, <2>4 DEF Moves
  <2> QED
    BY <2>1, <2>4, <2>5, <2>6 DEF Takes
<1> QED
  BY <1>1, <1>6, <1>7, <1>8, <1>9, <1>11, <1>12

\* A step of a node's routine leaves everything fitting.
LEMMA MovesFit ==
    ASSUME Inv, NEW n \in Node, NEW e, NEW w, Moves(n, e, w)
    PROVE  node' \in [Node -> NodeType] /\ wire' \in Wires /\ Fits(node', wire')
           /\ \A x \in Node : node'[x].out = <<>>
<1>1. node \in [Node -> NodeType] /\ wire \in Wires /\ Fits(node, wire)
  BY DEF Inv, TypeOK, Wires
<1>2. /\ node' = [node EXCEPT ![n] = [e EXCEPT !.out = <<>>]]
      /\ wire' = IF e.out = <<>> THEN w
                 ELSE [w EXCEPT ![n][e.out[1].to] = Append(@, e.out[1].frame)]
  BY DEF Moves, Becomes
<1>3. node' \in [Node -> NodeType] /\ wire' \in Wires /\ Fits(node', wire')
  BY <1>1, <1>2, StepFits DEF Moves
<1> QED
  BY <1>3 DEF Fits

\* The initial state.
LEMMA InitNode ==
    ASSUME Init, NEW n \in Node
    PROVE  /\ node[n] \in NodeType /\ node[n].out = <<>>
           /\ \A r \in Node : /\ node[n].log[r] = <<>> /\ node[n].packet[r] = <<>>
                              /\ node[n].first[r] = 1 /\ node[n].sent_seqid[r] = 0
                              /\ node[n].last_unacked[r] = 1 /\ node[n].rcvd_seqid[r] = 0
                              /\ node[n].ctl[r] = CtlNone
           /\ node[n].complete = <<>> /\ node[n].incomplete = <<>>
<1> DEFINE a == [r \in Node |-> <<>>]
           b == [r \in Node |-> 1]
           c == [r \in Node |-> 0]
           d == [r \in Node |-> FALSE]
           s == [r \in Node |-> [i \in 0 .. WX - 1 |-> FALSE]]
           t == [r \in Node |-> CtlNone]
           f == FALSE
           g == TRUE
           z == 0
           o == <<>>
           e == [log |-> a, packet |-> a, first |-> b, sent_seqid |-> c, last_unacked |-> b,
                 sent_packet |-> s, timer |-> c, rcvd_seqid |-> c, do_send |-> d, ctl |-> t,
                 pending_send |-> o, pending_unack |-> o, pending_timeout |-> o,
                 sending |-> f, busy |-> f, self_stopped |-> g, pages |-> z,
                 incomplete |-> o, complete |-> o, out |-> o, panic |-> f]
<1>1. node[n] = e
  BY DEF Init
<1>2. /\ a \in [Node -> Seq(Message)] /\ b \in [Node -> Nat] /\ c \in [Node -> Nat]
      /\ d \in [Node -> BOOLEAN] /\ s \in [Node -> [0 .. WX - 1 -> BOOLEAN]]
  BY EmptyIs
<1>3. t \in [Node -> [ctl : {"none", "ack", "nack", "sync"}, seqid : Nat]]
  BY DEF CtlNone
<1>4. c \in [Node -> 0..2] /\ z \in 0..MaxPages /\ f \in BOOLEAN /\ g \in BOOLEAN
  <2>1. 0 \in 0..2 /\ 0 \in 0..MaxPages
    BY BoundsAssumption, SMT DEF BoundsAssumption
  <2> QED
    BY <2>1
<1>5. o \in Seq(Node) /\ o \in Seq(Assembly) /\ o \in Seq([to : Node, frame : Frame])
  BY EmptyIs
<1>6. \A r \in Node : a[r] = <<>> /\ b[r] = 1 /\ c[r] = 0 /\ t[r] = CtlNone
  OBVIOUS
<1>7. o = <<>>
  OBVIOUS
<1> HIDE DEF a, b, c, d, s, t, f, g, z, o
<1>8. e \in NodeType
  BY <1>2, <1>3, <1>4, <1>5, SMT DEF NodeType
<1>9. /\ e.log = a /\ e.packet = a /\ e.first = b /\ e.sent_seqid = c /\ e.last_unacked = b
      /\ e.rcvd_seqid = c /\ e.ctl = t /\ e.out = o /\ e.complete = o /\ e.incomplete = o
  BY SMT
<1> HIDE DEF e
<1> QED
  BY <1>1, <1>6, <1>7, <1>8, <1>9

\* The initial state satisfies the invariant.
LEMMA InitInv == Init => Inv
<1> SUFFICES ASSUME Init PROVE Inv
  OBVIOUS
<1>1. node \in [Node -> NodeType] /\ wire \in Wires /\ \A n, r \in Node : wire[n][r] = <<>>
  <2>1. DOMAIN node = Node /\ node = [n \in Node |-> node[n]]
    BY DEF Init
  <2>2. \A n \in Node : node[n] \in NodeType
    BY InitNode
  <2>3. wire = [n \in Node |-> [r \in Node |-> <<>>]]
    BY DEF Init
  <2>4. [r \in Node |-> <<>>] \in [Node -> Seq(Frame)]
    BY EmptyIs
  <2>5. node \in [Node -> NodeType]
    BY <2>1, <2>2, Zenon
  <2> QED
    BY <2>3, <2>4, <2>5, Zenon DEF Wires
<1>2. lost \in 0..MaxLost /\ refused \in 0..MaxRefused
  BY BoundsAssumption, SMT DEF Init, BoundsAssumption
<1>3. ASSUME NEW n \in Node PROVE Good(n, Sent(node, n), node[n])
  <2> DEFINE nd == node[n]
  <2>1. /\ nd \in NodeType /\ nd.out = <<>>
        /\ \A r \in Node : /\ nd.log[r] = <<>> /\ nd.packet[r] = <<>> /\ nd.sent_seqid[r] = 0
                           /\ nd.last_unacked[r] = 1 /\ nd.ctl[r] = CtlNone
    BY InitNode
  <2> HIDE DEF nd
  <2>2. \A r \in Node : SendOK(n, nd, r)
    <3>1. 0 <= 1 /\ 1 <= 0 + 1 /\ 1 = 0 + 1 /\ Len(<<>>) = 0 /\ 0 <= 0 /\ 1 .. 0 = {}
      BY SMT
    <3> QED
      BY <2>1, <3>1, Zenon DEF SendOK
  <2>3. \A r \in Node : CtlOK(nd, r, Sent(node, n)[r], nd.ctl[r])
    BY <2>1 DEF CtlOK, CtlNone
  <2>4. \A i \in 1 .. Len(nd.out) : FrameOK(nd, nd.out[i].to, Sent(node, n)[nd.out[i].to], nd.out[i].frame)
    BY <2>1
  <2>5. Good(n, Sent(node, n), nd)
    BY <2>1, <2>2, <2>3, <2>4, Zenon DEF Good
  <2> QED
    BY <2>5 DEF nd
<1>4. \A n, r \in Node :
        /\ \A i \in 1 .. Len(wire[n][r]) : FrameOK(node[n], r, node[r].sent_seqid[n], wire[n][r][i])
        /\ node[n].last_unacked[r] <= node[r].rcvd_seqid[n] + 1
        /\ node[r].rcvd_seqid[n] <= node[n].sent_seqid[r]
  <2> SUFFICES ASSUME NEW n \in Node, NEW r \in Node
               PROVE  /\ \A i \in 1 .. Len(wire[n][r]) :
                            FrameOK(node[n], r, node[r].sent_seqid[n], wire[n][r][i])
                      /\ node[n].last_unacked[r] <= node[r].rcvd_seqid[n] + 1
                      /\ node[r].rcvd_seqid[n] <= node[n].sent_seqid[r]
    OBVIOUS
  <2>1. node[n].last_unacked[r] = 1 /\ node[r].rcvd_seqid[n] = 0 /\ node[n].sent_seqid[r] = 0
    BY InitNode
  <2>2. Len(wire[n][r]) = 0
    BY <1>1
  <2> QED
    BY <2>1, <2>2, SMT
<1>5. Fits(node, wire)
  BY <1>3, <1>4, InitNode DEF Fits
<1> QED
  BY <1>1, <1>2, <1>5, InitNode DEF Inv, TypeOK, Wires

\* Every step keeps the invariant.
LEMMA InvStep == Inv /\ [Next]_vars => Inv'
<1> SUFFICES ASSUME Inv, [Next]_vars PROVE Inv'
  OBVIOUS
<1>1. node \in [Node -> NodeType] /\ wire \in Wires /\ Fits(node, wire)
      /\ lost \in 0..MaxLost /\ refused \in 0..MaxRefused
  BY DEF Inv, TypeOK, Wires
<1>2. ASSUME NEW n \in Node, Works(n) PROVE Inv'
  <2>1. PICK e \in NodeType : /\ \E w : Moves(n, e, w)
                              /\ UNCHANGED <<lost, refused>>
    BY <1>2 DEF Works
  <2>2. /\ node' \in [Node -> NodeType] /\ wire' \in Wires /\ Fits(node', wire')
        /\ \A x \in Node : node'[x].out = <<>>
    BY <2>1, MovesFit
  <2> QED
    BY <1>1, <2>1, <2>2 DEF Inv, TypeOK, Wires
<1>3. ASSUME NEW n \in Node, NEW r \in Node, NEW here \in BOOLEAN,
             Takes(n, r, Head(wire[r][n]), here), ReceiveData(n, r, here)
      PROVE Inv'
  <2>1. PICK e \in NodeType : \E w : Moves(n, e, w)
    BY <1>3 DEF Takes
  <2>2. /\ node' \in [Node -> NodeType] /\ wire' \in Wires /\ Fits(node', wire')
        /\ \A x \in Node : node'[x].out = <<>>
    BY <2>1, MovesFit
  <2>3. lost' = lost /\ (refused' = refused \/ refused' = refused + 1) /\ refused' <= MaxRefused
    BY <1>3 DEF ReceiveData
  <2>4. refused' \in 0..MaxRefused
    BY <1>1, <2>3, BoundsAssumption, SMT DEF BoundsAssumption
  <2> QED
    BY <1>1, <2>2, <2>3, <2>4 DEF Inv, TypeOK, Wires
<1>4. ASSUME NEW n \in Node, NEW r \in Node, Lose(n, r) PROVE Inv'
  <2> DEFINE w == [wire EXCEPT ![n][r] = Tail(@)]
  <2>1. wire' = w /\ node' = node /\ refused' = refused /\ lost' = lost + 1 /\ lost < MaxLost
        /\ wire[n][r] # <<>>
    BY <1>4 DEF Lose
  <2>2. w \in Wires /\ FramesOf(w, wire)
    BY <1>1, <2>1, FramesLess
  <2>3. lost' \in 0..MaxLost
    BY <1>1, <2>1, BoundsAssumption, SMT DEF BoundsAssumption
  <2> HIDE DEF w
  <2>4. Fits(node, w)
    <3>1. ASSUME NEW x \in Node, NEW y \in Node, NEW i \in 1 .. Len(w[x][y])
          PROVE  FrameOK(node[x], y, node[y].sent_seqid[x], w[x][y][i])
      <4>1. PICK j \in 1 .. Len(wire[x][y]) : w[x][y][i] = wire[x][y][j]
        BY <2>2 DEF FramesOf
      <4>2. FrameOK(node[x], y, node[y].sent_seqid[x], wire[x][y][j])
        BY <1>1 DEF Fits
      <4> QED
        BY <4>1, <4>2
    <3> QED
      BY <1>1, <3>1 DEF Fits
  <2>5. node' \in [Node -> NodeType] /\ wire' \in Wires /\ Fits(node', wire')
        /\ \A x \in Node : node'[x].out = <<>>
    BY <1>1, <2>1, <2>2, <2>4 DEF Inv, TypeOK
  <2> QED
    BY <1>1, <2>1, <2>3, <2>5 DEF Inv, TypeOK, Wires
<1>5. CASE UNCHANGED vars
  <2>1. node' = node /\ wire' = wire /\ lost' = lost /\ refused' = refused
    BY <1>5 DEF vars
  <2>2. Fits(node', wire')
    BY <1>1, <2>1
  <2>3. \A x \in Node : node'[x].out = <<>>
    BY <2>2 DEF Fits
  <2> QED
    BY <1>1, <2>1, <2>2, <2>3 DEF Inv, TypeOK, Wires
<1> QED
  BY <1>2, <1>3, <1>4, <1>5, NextMoves

\* The invariant of the window, in every state.
THEOREM WindowInvariant == Spec => []Inv
  BY InitInv, InvStep, PTL DEF Spec

\* Every variable has its type.
THEOREM TypeCorrect == Spec => []TypeOK
<1>1. Inv => TypeOK
  BY DEF Inv
<1> QED
  BY <1>1, WindowInvariant, PTL

\* The two ends of every connection agree within the window: what has been
\* acknowledged was seen, and what was seen has been sent, one packet behind
\* at most.  No frame needs to arrive.
THEOREM WindowCorrect == Spec => []WindowAgrees
<1>1. Inv => WindowAgrees
  BY DEF Inv, Fits, Good, SendOK, WindowAgrees
<1> QED
  BY <1>1, WindowInvariant, PTL

-----------------------------------------------------------------------------
(* Messages that arrive, and assertions that hold. *)

\* Every message that is sent is one copy object at most: its last page, and
\* no other, is marked as the last.
OneObject ==
    \A n \in Node : \A shape \in Shapes[n] : \A i \in 1 .. Len(shape) :
        shape[i] <=> i = Len(shape)

\* Message m of n was handed up at the node with record q.
Delivered(q, n, m) ==
    \E i \in 1 .. Len(q.complete) : q.complete[i].remote = n /\ Whole(q.complete[i], m)

\* It is being put together there, and has its first j pages.
Assembling(q, n, m, j) ==
    LET i == Latest(q.incomplete, n)
    IN  /\ i # 0 /\ q.incomplete[i].id = m.id
        /\ q.incomplete[i].got = {m.id} \X (1 .. j)

\* s is the record of n, the sender, and q that of r: what was let go of was
\* handed up, and so was what r has seen of the message being sent.
ReleasedOK(n, r, s, q) ==
    \A i \in 1 .. Len(s.log[r]) - Len(s.packet[r]) : Delivered(q, n, s.log[r][i])
SeenOK(n, r, s, q) ==
    s.packet[r] # <<>> /\ s.first[r] <= q.rcvd_seqid[n] =>
        LET m == Head(s.packet[r])
            j == q.rcvd_seqid[n] - s.first[r]
        IN  IF j = Len(m.shape) THEN Delivered(q, n, m) ELSE Assembling(q, n, m, j)
Arrives(n, r, s, q) == ReleasedOK(n, r, s, q) /\ SeenOK(n, r, s, q)

AllArrives == refused = 0 => \A n, r \in Node : Arrives(n, r, node[n], node[r])

\* The latest assembly from x, found.
LEMMA LatestUnique ==
    ASSUME NEW X, NEW l \in Seq(X), NEW x, NEW i \in 1 .. Len(l), l[i].remote = x,
           \A j \in 1 .. Len(l) : l[j].remote = x => i <= j
    PROVE  Latest(l, x) = i
<1>1. Latest(l, x) # 0
  BY LatestIs
<1>2. Latest(l, x) \in 1 .. Len(l) /\ Latest(l, x) <= i /\ i <= Latest(l, x) /\ Len(l) \in Nat
  BY <1>1, LatestIs
<1> DEFINE k == Latest(l, x)
<1> HIDE DEF k
<1>3. \A k_1 \in 1 .. Len(l) : k_1 <= i /\ i <= k_1 => k_1 = i
  BY <1>2, SMT
<1> QED
  BY <1>2, <1>3

\* p is l with k in front, with k in place i, or without place i.
IsPushed(p, k, l) ==
    /\ Len(p) = Len(l) + 1 /\ p[1] = k
    /\ \A i \in 1 .. Len(l) : p[i + 1] = l[i]
    /\ \A i \in 2 .. Len(l) + 1 : p[i] = l[i - 1]
IsChanged(p, k, l, i) ==
    Len(p) = Len(l) /\ \A j \in 1 .. Len(l) : p[j] = IF j = i THEN k ELSE l[j]
IsRemoved(p, l, i) ==
    /\ Len(p) = Len(l) - 1
    /\ \A j \in 1 .. Len(l) - 1 : p[j] = IF j < i THEN l[j] ELSE l[j + 1]

\* They are what the operators on sequences do.
LEMMA Pushed ==
    ASSUME NEW X, NEW l \in Seq(X), NEW k \in X
    PROVE  <<k>> \o l \in Seq(X) /\ IsPushed(<<k>> \o l, k, l)
  BY SMT DEF IsPushed

\* Changing an element does that,
LEMMA Changed ==
    ASSUME NEW X, NEW l \in Seq(X), NEW k \in X, NEW i \in 1 .. Len(l)
    PROVE  [l EXCEPT ![i] = k] \in Seq(X) /\ IsChanged([l EXCEPT ![i] = k], k, l, i)
  BY SMT DEF IsChanged

\* and so does removing one.
LEMMA Removed ==
    ASSUME NEW X, NEW l \in Seq(X), NEW i \in 1 .. Len(l)
    PROVE  RemoveAt(l, i) \in Seq(X) /\ IsRemoved(RemoveAt(l, i), l, i)
<1> DEFINE a == SubSeq(l, 1, i - 1)
           b == SubSeq(l, i + 1, Len(l))
<1>1. Len(l) \in Nat /\ i \in Nat /\ 1 <= i /\ i <= Len(l)
  BY SMT
<1>2. /\ a \in Seq(X) /\ Len(a) = i - 1
      /\ \A j \in 1 .. i - 1 : a[j] = l[j]
  BY <1>1
<1>3. /\ b \in Seq(X) /\ Len(b) = Len(l) - i
      /\ \A j \in 1 .. Len(l) - i : b[j] = l[j + i]
  BY <1>1
<1>4. RemoveAt(l, i) = a \o b
  BY DEF RemoveAt
<1> HIDE DEF a, b
<1>5. a \o b \in Seq(X) /\ Len(a \o b) = Len(l) - 1
  <2>0. a \in Seq(X) /\ b \in Seq(X)
    BY <1>2, <1>3
  <2>1. a \o b \in Seq(X) /\ Len(a \o b) = Len(a) + Len(b)
    BY <2>0
  <2>2. Len(a \o b) = (i - 1) + (Len(l) - i)
    BY <1>2, <1>3, <2>1
  <2>3. (i - 1) + (Len(l) - i) = Len(l) - 1
    BY <1>1, SMT
  <2> QED
    BY <2>1, <2>2, <2>3
<1>6. ASSUME NEW j \in 1 .. Len(l) - 1
      PROVE  (a \o b)[j] = IF j < i THEN l[j] ELSE l[j + 1]
  <2>1. CASE j < i
    BY <1>1, <1>2, <1>3, <2>1
  <2>2. CASE ~(j < i)
    <3>1. (a \o b)[j] = b[j - (i - 1)]
      BY <1>1, <1>2, <1>3, <2>2
    <3>2. j - (i - 1) \in 1 .. Len(l) - i /\ (j - (i - 1)) + i = j + 1
      BY <1>1, <2>2, SMT
    <3>3. b[j - (i - 1)] = l[j + 1]
      BY <1>3, <3>2
    <3> QED
      BY <2>2, <3>1, <3>3
  <2> QED
    BY <2>1, <2>2
<1> QED
  BY <1>4, <1>5, <1>6, Zenon DEF IsRemoved

\* A new assembly in front is the latest of its sender's.
LEMMA LatestPushed ==
    ASSUME NEW X, NEW l \in Seq(X), NEW p \in Seq(X), NEW k, IsPushed(p, k, l), NEW x
    PROVE  /\ k.remote = x => Latest(p, x) = 1 /\ p[1] = k
           /\ k.remote # x /\ Latest(l, x) # 0 =>
                 Latest(p, x) # 0 /\ p[Latest(p, x)] = l[Latest(l, x)]
<1>1. /\ Len(l) \in Nat /\ Len(p) = Len(l) + 1 /\ p[1] = k
      /\ \A i \in 1 .. Len(l) : p[i + 1] = l[i]
      /\ \A i \in 2 .. Len(l) + 1 : p[i] = l[i - 1]
  BY DEF IsPushed
<1>2. ASSUME k.remote = x PROVE Latest(p, x) = 1
  <2>1. 1 \in 1 .. Len(p) /\ \A j \in 1 .. Len(p) : 1 <= j
    BY <1>1, SMT
  <2> QED
    BY <1>1, <1>2, <2>1, LatestUnique
<1>3. ASSUME k.remote # x, Latest(l, x) # 0
      PROVE  Latest(p, x) # 0 /\ p[Latest(p, x)] = l[Latest(l, x)]
  <2> DEFINE o == Latest(l, x)
  <2>1. /\ o \in 1 .. Len(l) /\ l[o].remote = x
        /\ \A j \in 1 .. Len(l) : l[j].remote = x => o <= j
    BY <1>3, LatestIs
  <2> HIDE DEF o
  <2>2. o + 1 \in 1 .. Len(p) /\ p[o + 1] = l[o] /\ o + 1 # 0
    BY <1>1, <2>1, SMT
  <2>3. ASSUME NEW j \in 1 .. Len(p), p[j].remote = x PROVE o + 1 <= j
    <3>1. j # 1
      BY <1>1, <1>3, <2>3
    <3>2. j \in 2 .. Len(l) + 1 /\ j - 1 \in 1 .. Len(l)
      BY <1>1, <3>1, SMT
    <3>3. l[j - 1].remote = x
      BY <1>1, <2>3, <3>2
    <3>4. o <= j - 1
      BY <2>1, <3>2, <3>3
    <3> QED
      BY <1>1, <2>1, <3>2, <3>4, SMT
  <2> DEFINE u == o + 1
  <2>4. /\ u \in 1 .. Len(p) /\ p[u].remote = x
        /\ \A j \in 1 .. Len(p) : p[j].remote = x => u <= j
    BY <2>1, <2>2, <2>3
  <2> HIDE DEF u
  <2>5. Latest(p, x) = u
    BY <2>4, LatestUnique
  <2>6. Latest(p, x) = o + 1
    BY <2>5 DEF u
  <2> QED
    BY <2>2, <2>6 DEF o
<1> QED
  BY <1>1, <1>2, <1>3

\* A changed assembly stays where it is.
LEMMA LatestChanged ==
    ASSUME NEW X, NEW l \in Seq(X), NEW p \in Seq(X), NEW r, Latest(l, r) # 0,
           NEW k, k.remote = r, IsChanged(p, k, l, Latest(l, r)), NEW x
    PROVE  /\ Latest(p, x) = Latest(l, x)
           /\ p[Latest(l, r)] = k
           /\ x # r /\ Latest(l, x) # 0 => p[Latest(p, x)] = l[Latest(l, x)]
<1> DEFINE i == Latest(l, r)
<1>1. i \in 1 .. Len(l) /\ l[i].remote = r
  BY LatestIs
<1> HIDE DEF i
<1>2. Len(p) = Len(l) /\ \A j \in 1 .. Len(l) : p[j] = IF j = i THEN k ELSE l[j]
  BY DEF IsChanged, i
<1>3. \A j \in 1 .. Len(l) : p[j].remote = l[j].remote
  BY <1>1, <1>2
<1>4. Latest(p, x) = Latest(l, x)
  <2>1. {j \in 1 .. Len(p) : p[j].remote = x} = {j \in 1 .. Len(l) : l[j].remote = x}
    BY <1>2, <1>3
  <2> QED
    BY <2>1 DEF Latest
<1>5. ASSUME x # r, Latest(l, x) # 0 PROVE p[Latest(l, x)] = l[Latest(l, x)]
  <2>1. Latest(l, x) \in 1 .. Len(l) /\ l[Latest(l, x)].remote = x
    BY <1>5, LatestIs
  <2>2. Latest(l, x) # i
    BY <1>1, <1>5, <2>1
  <2> QED
    BY <1>2, <2>1, <2>2
<1> QED
  BY <1>1, <1>2, <1>4, <1>5 DEF i

\* Without an assembly those of the other senders are still there.
LEMMA LatestRemoved ==
    ASSUME NEW X, NEW l \in Seq(X), NEW p \in Seq(X), NEW i \in 1 .. Len(l),
           IsRemoved(p, l, i), NEW x, l[i].remote # x, Latest(l, x) # 0
    PROVE  Latest(p, x) # 0 /\ p[Latest(p, x)] = l[Latest(l, x)]
<1> DEFINE o == Latest(l, x)
           k == IF o < i THEN o ELSE o - 1
<1>1. /\ Len(l) \in Nat /\ Len(p) = Len(l) - 1
      /\ \A j \in 1 .. Len(l) - 1 : p[j] = IF j < i THEN l[j] ELSE l[j + 1]
  BY DEF IsRemoved
<1>2. /\ o \in 1 .. Len(l) /\ l[o].remote = x
      /\ \A j \in 1 .. Len(l) : l[j].remote = x => o <= j
  BY LatestIs
<1> HIDE DEF o
<1>3. o # i
  BY <1>2
<1>4. k \in 1 .. Len(p) /\ p[k] = l[o] /\ k # 0
  <2>1. k \in 1 .. Len(l) - 1 /\ k # 0 /\ (k < i => k = o) /\ (~(k < i) => k + 1 = o)
    BY <1>1, <1>2, <1>3, SMT
  <2> HIDE DEF k
  <2> QED
    BY <1>1, <2>1
<1>5. ASSUME NEW j \in 1 .. Len(p), p[j].remote = x PROVE k <= j
  <2>1. CASE j < i
    <3>1. j \in 1 .. Len(l) /\ l[j].remote = x
      BY <1>1, <1>5, <2>1
    <3>2. o <= j
      BY <1>2, <3>1
    <3> QED
      BY <1>1, <1>2, <2>1, <3>1, <3>2, SMT
  <2>2. CASE ~(j < i)
    <3>1. j + 1 \in 1 .. Len(l) /\ l[j + 1].remote = x
      BY <1>1, <1>5, <2>2, SMT
    <3>2. o <= j + 1
      BY <1>2, <3>1
    <3> QED
      BY <1>1, <1>2, <1>3, <2>2, <3>1, <3>2, SMT
  <2> QED
    BY <2>1, <2>2
<1> HIDE DEF k
<1>6. Latest(p, x) = k
  <2>1. p[k].remote = x /\ \A j \in 1 .. Len(p) : p[j].remote = x => k <= j
    BY <1>2, <1>4, <1>5
  <2>2. k \in 1 .. Len(p)
    BY <1>4
  <2> QED
    BY <2>1, <2>2, LatestUnique
<1> QED
  BY <1>4, <1>6 DEF o

\* What has been handed up stays handed up.
LEMMA DeliveredMore ==
    ASSUME NEW q \in NodeType, NEW e \in NodeType, NEW n, NEW m, Delivered(q, n, m),
           \/ e.complete = q.complete
           \/ \E k \in Assembly : e.complete = Append(q.complete, k)
    PROVE  Delivered(e, n, m)
<1>1. PICK i \in 1 .. Len(q.complete) : q.complete[i].remote = n /\ Whole(q.complete[i], m)
  BY DEF Delivered
<1>2. CASE e.complete = q.complete
  BY <1>1, <1>2 DEF Delivered
<1>3. ASSUME NEW k \in Assembly, e.complete = Append(q.complete, k) PROVE Delivered(e, n, m)
  <2>1. q.complete \in Seq(Assembly)
    BY Fields DEF FieldTypes
  <2>2. /\ Len(e.complete) = Len(q.complete) + 1 /\ Len(q.complete) \in Nat
        /\ \A j \in 1 .. Len(q.complete) : e.complete[j] = q.complete[j]
    BY <1>3, <2>1, Appended
  <2>3. i \in 1 .. Len(e.complete)
    BY <2>2, SMT
  <2> QED
    BY <1>1, <2>2, <2>3 DEF Delivered
<1> QED
  BY <1>2, <1>3

\* A message that is added to those handed up is one of them.
LEMMA DeliveredNow ==
    ASSUME NEW q \in NodeType, NEW e, NEW k \in Assembly, NEW m,
           e.complete = Append(q.complete, k), Whole(k, m)
    PROVE  Delivered(e, k.remote, m)
<1>1. q.complete \in Seq(Assembly)
  BY Fields DEF FieldTypes
<1>2. /\ Len(e.complete) = Len(q.complete) + 1 /\ Len(q.complete) \in Nat
      /\ e.complete[Len(q.complete) + 1] = k
  BY <1>1, Appended
<1>3. Len(e.complete) \in 1 .. Len(e.complete) /\ e.complete[Len(e.complete)] = k
  BY <1>2, SMT
<1> QED
  BY <1>3 DEF Delivered

\* What the receiver has seen of the message being sent: v is in it, and at
\* its end if the last packet was seen.
LEMMA WithinMessage ==
    ASSUME NEW n, NEW s \in NodeType, NEW r \in Node, SendOK(n, s, r), s.packet[r] # <<>>,
           NEW v \in Nat, v <= s.sent_seqid[r], s.first[r] <= v
    PROVE  /\ v - s.first[r] \in 0 .. Len(Head(s.packet[r]).shape)
           /\ LastSeqid(s, r) <= v => v - s.first[r] = Len(Head(s.packet[r]).shape)
<1> DEFINE L == Len(Head(s.packet[r]).shape)
           a == s.first[r]
           b == LastSeqid(s, r)
<1>1. a \in Nat /\ L \in Nat /\ b = a + L
  BY LastSeqidIs
<1>2. s.sent_seqid[r] \in Nat /\ s.last_unacked[r] \in Nat
  BY Fields DEF FieldTypes
<1>3. s.sent_seqid[r] <= s.last_unacked[r] /\ s.last_unacked[r] <= b
  BY DEF SendOK
<1>4. a <= v
  OBVIOUS
<1> HIDE DEF L, a, b
<1>5. v <= a + L
  BY <1>1, <1>2, <1>3, SMT
<1>6. v - a \in 0 .. L /\ (b <= v => v - a = L)
  BY <1>1, <1>4, <1>5, SMT
<1> QED
  BY <1>6 DEF L, a, b

\* The sender takes a step.
LEMMA SenderArrives ==
    ASSUME NEW n \in Node, NEW r \in Node, NEW s \in NodeType, NEW e \in NodeType,
           NEW q \in NodeType, NEW p, SendOK(n, s, r), Arrives(n, r, s, q),
           q.rcvd_seqid[n] <= s.sent_seqid[r], NEW S, NEW V,
           Step(s, e, S, V), V[r] = q.rcvd_seqid[n],
           SameReceived(q, p)
    PROVE  Arrives(n, r, e, p)
<1> DEFINE v == q.rcvd_seqid[n]
<1>1. v \in Nat /\ p.rcvd_seqid[n] = v
  BY Fields DEF FieldTypes, SameReceived
<1>2. ASSUME NEW m, Delivered(q, n, m) PROVE Delivered(p, n, m)
  BY <1>2 DEF Delivered, SameReceived
<1>3. ReleasedOK(n, r, e, p)
  <2> SUFFICES ASSUME NEW i \in 1 .. Len(e.log[r]) - Len(e.packet[r])
               PROVE  Delivered(q, n, e.log[r][i])
    BY <1>2 DEF ReleasedOK
  <2>1. /\ e.log[r][i] = s.log[r][i]
        /\ \/ i <= Len(s.log[r]) - Len(s.packet[r])
           \/ /\ s.packet[r] # <<>> /\ s.log[r][i] = Head(s.packet[r])
              /\ LastSeqid(s, r) <= V[r]
    BY DEF Step
  <2>2. CASE i <= Len(s.log[r]) - Len(s.packet[r])
    <3>1. Len(s.log[r]) \in Nat /\ Len(s.packet[r]) \in Nat
      BY Fields DEF FieldTypes
    <3>2. Len(e.log[r]) \in Nat /\ Len(e.packet[r]) \in Nat
      BY Fields DEF FieldTypes
    <3>3. i \in 1 .. Len(s.log[r]) - Len(s.packet[r])
      BY <2>2, <3>1, <3>2, SMT
    <3> QED
      BY <2>1, <3>3 DEF Arrives, ReleasedOK
  <2>3. CASE s.packet[r] # <<>> /\ s.log[r][i] = Head(s.packet[r]) /\ LastSeqid(s, r) <= V[r]
    <3>1. s.first[r] <= v
      <4>1. s.first[r] \in Nat /\ LastSeqid(s, r) \in Nat /\ s.first[r] <= LastSeqid(s, r)
        BY <2>3, LastSeqidIs
      <4>2. LastSeqid(s, r) <= v
        BY <2>3
      <4> HIDE DEF v
      <4> QED
        BY <1>1, <4>1, <4>2, SMT
    <3>2. v - s.first[r] = Len(Head(s.packet[r]).shape)
      BY <1>1, <2>3, <3>1, WithinMessage
    <3>3. Delivered(q, n, Head(s.packet[r]))
      BY <2>3, <3>1, <3>2 DEF Arrives, SeenOK
    <3> QED
      BY <2>1, <2>3, <3>3
  <2> QED
    BY <2>1, <2>2, <2>3
<1>4. SeenOK(n, r, e, p)
  <2> SUFFICES ASSUME e.packet[r] # <<>>, e.first[r] <= v
               PROVE  LET m == Head(e.packet[r])
                          j == v - e.first[r]
                      IN  IF j = Len(m.shape) THEN Delivered(p, n, m) ELSE Assembling(p, n, m, j)
    BY <1>1, Zenon DEF SeenOK
  <2>1. e.first[r] <= s.sent_seqid[r]
    <3>1. e.first[r] \in Nat /\ s.sent_seqid[r] \in Nat
      BY Fields DEF FieldTypes
    <3> QED
      BY <1>1, <3>1, SMT
  <2>2. /\ s.packet[r] # <<>> /\ e.first[r] = s.first[r]
        /\ Head(e.packet[r]) = Head(s.packet[r])
    BY <2>1 DEF Step, Keeps
  <2> DEFINE m == Head(s.packet[r])
             j == v - s.first[r]
  <2>3. IF j = Len(m.shape) THEN Delivered(q, n, m) ELSE Assembling(q, n, m, j)
    BY <2>2 DEF Arrives, SeenOK
  <2>4. Assembling(q, n, m, j) => Assembling(p, n, m, j)
    BY DEF Assembling, SameReceived
  <2> HIDE DEF m, j
  <2>5. IF j = Len(m.shape) THEN Delivered(p, n, m) ELSE Assembling(p, n, m, j)
    BY <1>2, <2>3, <2>4
  <2> QED
    BY <2>2, <2>5 DEF m, j
<1> QED
  BY <1>3, <1>4 DEF Arrives

\* What taking a frame from r does to the lists: something may be handed up,
\* and the assemblies of the others are as they were.
LEMMA TookLists ==
    ASSUME NEW q \in NodeType, NEW e \in NodeType, NEW r \in Node, NEW S, NEW f,
           Brought(r, S, f), Took(q, r, f, e)
    PROVE  /\ e.complete = q.complete \/ \E k \in Assembly : e.complete = Append(q.complete, k)
           /\ \A x, m, j : x # r /\ Assembling(q, x, m, j) => Assembling(e, x, m, j)
<1>0. q.incomplete \in Seq(Assembly) /\ q.complete \in Seq(Assembly)
  BY Fields DEF FieldTypes
<1> DEFINE l == q.incomplete
           p == e.incomplete
<1>1. ASSUME \A x : x # r /\ Latest(l, x) # 0 => Latest(p, x) # 0 /\ p[Latest(p, x)] = l[Latest(l, x)]
      PROVE  \A x, m, j : x # r /\ Assembling(q, x, m, j) => Assembling(e, x, m, j)
  <2> SUFFICES ASSUME NEW x, NEW m, NEW j, x # r, Assembling(q, x, m, j) PROVE Assembling(e, x, m, j)
    OBVIOUS
  <2>1. /\ Latest(l, x) # 0 /\ l[Latest(l, x)].id = m.id
        /\ l[Latest(l, x)].got = {m.id} \X (1 .. j)
    BY DEF Assembling
  <2>2. Latest(p, x) # 0 /\ p[Latest(p, x)] = l[Latest(l, x)]
    BY <1>1, <2>1
  <2> HIDE DEF l, p
  <2>3. /\ Latest(p, x) # 0 /\ p[Latest(p, x)].id = m.id
        /\ p[Latest(p, x)].got = {m.id} \X (1 .. j)
    BY <2>1, <2>2
  <2> QED
    BY <2>3 DEF Assembling, p
<1>2. CASE f.part = 0
  <2> DEFINE k == [remote |-> r, id |-> f.id, got |-> {}]
  <2>1. k \in Assembly /\ k.remote = r
    <3>1. f.id \in Nat
      BY DataIs
    <3> QED
      BY <3>1 DEF Assembly
  <2>2. /\ e.complete = IF f.shape = <<>> THEN Append(q.complete, k) ELSE q.complete
        /\ p = IF f.shape = <<>> THEN l ELSE <<k>> \o l
    BY <1>2 DEF Took, TookKmsg
  <2> HIDE DEF k, l, p
  <2>3. \A x : x # r /\ Latest(l, x) # 0 => Latest(p, x) # 0 /\ p[Latest(p, x)] = l[Latest(l, x)]
    <3> SUFFICES ASSUME NEW x, x # r, Latest(l, x) # 0
                 PROVE  Latest(p, x) # 0 /\ p[Latest(p, x)] = l[Latest(l, x)]
      OBVIOUS
    <3>1. CASE f.shape = <<>>
      <4>1. p = l
        BY <2>2, <3>1
      <4> QED
        BY <4>1
    <3>2. CASE f.shape # <<>>
      <4>1. p = <<k>> \o l /\ l \in Seq(Assembly)
        BY <1>0, <2>2, <3>2 DEF l
      <4>2. p \in Seq(Assembly) /\ IsPushed(p, k, l)
        BY <2>1, <4>1, Pushed
      <4>3. l \in Seq(Assembly) /\ k.remote # x
        BY <2>1, <4>1
      <4> QED
        BY <4>2, <4>3, LatestPushed
    <3> QED
      BY <3>1, <3>2
  <2>4. \A x, m, j : x # r /\ Assembling(q, x, m, j) => Assembling(e, x, m, j)
    BY <1>1, <2>3
  <2> QED
    BY <2>1, <2>2, <2>4
<1>3. CASE f.part # 0
  <2> DEFINE i == Latest(l, r)
             k == Gained(l[i], f)
  <2>1. /\ i = 0 => e.complete = q.complete /\ p = l
        /\ i # 0 => /\ k \in Assembly /\ k.remote = r
                    /\ e.complete = IF f.shape[f.part] THEN Append(q.complete, k) ELSE q.complete
                    /\ p = IF f.shape[f.part] THEN RemoveAt(l, i) ELSE [l EXCEPT ![i] = k]
    BY <1>3 DEF Took, TookPage
  <2> HIDE DEF k, p
  <2>2. \A x : x # r /\ Latest(l, x) # 0 => Latest(p, x) # 0 /\ p[Latest(p, x)] = l[Latest(l, x)]
    <3> SUFFICES ASSUME NEW x, x # r, Latest(l, x) # 0
                 PROVE  Latest(p, x) # 0 /\ p[Latest(p, x)] = l[Latest(l, x)]
      OBVIOUS
    <3> HIDE DEF l
    <3>0. l \in Seq(Assembly)
      BY <1>0 DEF l
    <3>1. CASE i = 0
      <4>1. p = l
        BY <2>1, <3>1
      <4> QED
        BY <4>1
    <3>2. CASE i # 0 /\ f.shape[f.part]
      <4>1. p = RemoveAt(l, i)
        BY <2>1, <3>2
      <4>2. i \in 1 .. Len(l) /\ l[i].remote = r
        BY <3>0, <3>2, LatestIs
      <4> HIDE DEF i
      <4>3. p \in Seq(Assembly) /\ IsRemoved(p, l, i)
        BY <3>0, <4>1, <4>2, Removed
      <4> QED
        BY <3>0, <4>2, <4>3, LatestRemoved
    <3>3. CASE i # 0 /\ ~f.shape[f.part]
      <4>1. p = [l EXCEPT ![i] = k] /\ k \in Assembly /\ k.remote = r
        BY <2>1, <3>3
      <4>2. i \in 1 .. Len(l)
        BY <3>0, <3>3, LatestIs
      <4>3. p \in Seq(Assembly) /\ IsChanged(p, k, l, i)
        <5> HIDE DEF i
        <5> QED
          BY <3>0, <4>1, <4>2, Changed
      <4>4. i # 0 /\ k.remote = r
        BY <3>3, <4>1
      <4> QED
        BY <3>0, <4>3, <4>4, LatestChanged
    <3> QED
      BY <3>1, <3>2, <3>3
  <2>3. \A x, m, j : x # r /\ Assembling(q, x, m, j) => Assembling(e, x, m, j)
    BY <1>1, <2>2
  <2> HIDE DEF l, i
  <2>4. e.complete = q.complete \/ \E k_1 \in Assembly : e.complete = Append(q.complete, k_1)
    BY <2>1
  <2> QED
    BY <2>3, <2>4
<1> QED
  BY <1>2, <1>3

\* The header of message m.
LEMMA TookHeader ==
    ASSUME NEW q \in NodeType, NEW e \in NodeType, NEW r \in Node, NEW S, NEW f,
           Brought(r, S, f), TookKmsg(q, r, f, e), NEW m \in Message, f.id = m.id, f.shape = m.shape
    PROVE  IF 0 = Len(m.shape) THEN Delivered(e, r, m) ELSE Assembling(e, r, m, 0)
<1>0. q.incomplete \in Seq(Assembly) /\ m.shape \in Seq(BOOLEAN)
  BY Fields DEF FieldTypes, Message
<1> DEFINE k == [remote |-> r, id |-> f.id, got |-> {}]
           l == q.incomplete
           p == e.incomplete
<1>1. k \in Assembly /\ k.remote = r /\ k.id = m.id /\ k.got = {}
  <2>1. f.id \in Nat
    BY DataIs
  <2> QED
    BY <2>1 DEF Assembly
<1>2. /\ e.complete = IF m.shape = <<>> THEN Append(q.complete, k) ELSE q.complete
      /\ p = IF m.shape = <<>> THEN l ELSE <<k>> \o l
  BY DEF TookKmsg
<1> HIDE DEF k
<1>3. {m.id} \X (1 .. 0) = {} /\ (0 = Len(m.shape) <=> m.shape = <<>>)
  <2>1. 1 .. 0 = {}
    BY SMT
  <2>2. 0 = Len(m.shape) <=> m.shape = <<>>
    BY <1>0
  <2> QED
    BY <2>1, <2>2
<1>4. CASE m.shape = <<>>
  <2>1. Whole(k, m)
    <3>1. Len(m.shape) = 0
      BY <1>3, <1>4
    <3> QED
      BY <1>1, <1>3, <3>1, Zenon DEF Whole
  <2>2. e.complete = Append(q.complete, k)
    BY <1>2, <1>4
  <2>3. Delivered(e, k.remote, m)
    BY <1>1, <2>1, <2>2, DeliveredNow
  <2> QED
    BY <1>1, <1>3, <1>4, <2>3
<1>5. CASE m.shape # <<>>
  <2> HIDE DEF l, p
  <2>1. p = <<k>> \o l /\ l \in Seq(Assembly)
    BY <1>0, <1>2, <1>5 DEF l
  <2>11. p \in Seq(Assembly) /\ IsPushed(p, k, l)
    BY <1>1, <2>1, Pushed
  <2>2. Latest(p, r) = 1 /\ p[1] = k
    <3>1. l \in Seq(Assembly) /\ k.remote = r
      BY <1>1, <2>1
    <3> QED
      BY <2>11, <3>1, LatestPushed
  <2>3. Latest(p, r) # 0 /\ p[Latest(p, r)] = k
    BY <2>2, SMT
  <2>4. Assembling(e, r, m, 0)
    BY <1>1, <1>3, <2>3, Zenon DEF Assembling, p
  <2> QED
    BY <1>3, <1>5, <2>4
<1> QED
  BY <1>4, <1>5

\* Page j of m, after page j - 1 or again after page j.
LEMMA TookNextPage ==
    ASSUME NEW q \in NodeType, NEW e \in NodeType, NEW r \in Node, NEW f, TookPage(q, r, f, e),
           NEW m \in Message, f.id = m.id, f.shape = m.shape, f.part \in 1 .. Len(m.shape),
           m.shape[f.part] <=> f.part = Len(m.shape),
           NEW i \in Nat, f.part = i + 1 \/ f.part = i, Assembling(q, r, m, i)
    PROVE  IF f.part = Len(m.shape) THEN Delivered(e, r, m) ELSE Assembling(e, r, m, f.part)
<1> DEFINE l == q.incomplete
           p == e.incomplete
           o == Latest(l, r)
           k == Gained(l[o], f)
<1>1. l \in Seq(Assembly) /\ m.shape \in Seq(BOOLEAN) /\ Len(m.shape) \in Nat
  BY Fields DEF FieldTypes, Message
<1>2. o # 0 /\ l[o].id = m.id /\ l[o].got = {m.id} \X (1 .. i)
  BY DEF Assembling
<1>3. /\ k \in Assembly /\ k.remote = r
      /\ e.complete = IF m.shape[f.part] THEN Append(q.complete, k) ELSE q.complete
      /\ p = IF m.shape[f.part] THEN RemoveAt(l, o) ELSE [l EXCEPT ![o] = k]
  BY <1>2 DEF TookPage
<1> HIDE DEF l, p
<1>4. k.id = m.id /\ k.got = {m.id} \X (1 .. f.part)
  <2> DEFINE a == l[o]
  <2>1. a \in Assembly
    <3>1. o \in 1 .. Len(l)
      BY <1>1, <1>2, LatestIs
    <3> HIDE DEF o
    <3> QED
      BY <1>1, <3>1, ElementIs
  <2>2. a.id = m.id /\ a.got = {m.id} \X (1 .. i)
    BY <1>2
  <2> HIDE DEF a, o
  <2> DEFINE g == {u \in a.got : u[2] # f.part} \cup {<<f.id, f.part>>}
  <2>3. k = [a EXCEPT !.got = g]
    BY DEF Gained, a
  <2>4. g = {m.id} \X (1 .. f.part)
    <3>1. f.part \in Nat /\ f.part >= 1
      BY <1>1, SMT
    <3>2. ASSUME NEW u PROVE u \in g <=> u \in {m.id} \X (1 .. f.part)
      <4>1. u \in g <=> (u \in {m.id} \X (1 .. i) /\ u[2] # f.part) \/ u = <<m.id, f.part>>
        BY <2>2
      <4>2. u \in {m.id} \X (1 .. i) <=> \E y \in 1 .. i : u = <<m.id, y>>
        OBVIOUS
      <4>3. u \in {m.id} \X (1 .. f.part) <=> \E y \in 1 .. f.part : u = <<m.id, y>>
        OBVIOUS
      <4>4. \A y : y \in 1 .. f.part <=> (y \in 1 .. i /\ y # f.part) \/ y = f.part
        BY <3>1, SMT
      <4>5. \A y : <<m.id, y>>[2] = y
        OBVIOUS
      <4> HIDE DEF g
      <4> QED
        BY <4>1, <4>2, <4>3, <4>4, <4>5
    <3> HIDE DEF g
    <3> QED
      BY <3>2
  <2> HIDE DEF g, k
  <2>5. k.id = a.id /\ k.got = g
    BY <2>1, <2>3, Zenon DEF Assembly
  <2> QED
    BY <2>2, <2>4, <2>5
<1> HIDE DEF k
<1>5. CASE f.part = Len(m.shape)
  <2>1. e.complete = Append(q.complete, k)
    BY <1>3, <1>5
  <2>2. Whole(k, m)
    BY <1>4, <1>5 DEF Whole
  <2>3. Delivered(e, k.remote, m)
    BY <1>3, <2>1, <2>2, DeliveredNow
  <2> QED
    BY <1>3, <1>5, <2>3
<1>6. CASE f.part # Len(m.shape)
  <2>1. p = [l EXCEPT ![o] = k]
    BY <1>3, <1>6
  <2>11. p \in Seq(Assembly) /\ IsChanged(p, k, l, o)
    <3>1. o \in 1 .. Len(l)
      BY <1>1, <1>2, LatestIs
    <3> HIDE DEF o
    <3>2. l \in Seq(Assembly) /\ k \in Assembly
      BY <1>1, <1>3
    <3>3. [l EXCEPT ![o] = k] \in Seq(Assembly) /\ IsChanged([l EXCEPT ![o] = k], k, l, o)
      BY <3>1, <3>2, Changed
    <3> QED
      BY <2>1, <3>3
  <2>2. Latest(p, r) = o /\ p[o] = k
    <3>1. l \in Seq(Assembly) /\ k.remote = r /\ o # 0
      BY <1>1, <1>2, <1>3
    <3> QED
      BY <2>11, <3>1, LatestChanged
  <2> HIDE DEF o
  <2>3. Latest(p, r) # 0 /\ p[Latest(p, r)] = k
    BY <1>2, <2>2
  <2>4. Assembling(e, r, m, f.part)
    BY <1>4, <2>3 DEF Assembling, p
  <2> QED
    BY <1>6, <2>4
<1> QED
  BY <1>5, <1>6

\* The message being sent is one of those it may be.
LEMMA HeadShape ==
    ASSUME NEW n, NEW s \in NodeType, NEW r \in Node, SendOK(n, s, r), s.packet[r] # <<>>
    PROVE  Head(s.packet[r]).shape \in Shapes[n]
<1> DEFINE p == s.packet[r]
           l == s.log[r]
<1>1. p \in Seq(Message) /\ l \in Seq(Message)
  BY Fields DEF FieldTypes
<1>2. Len(p) \in Nat /\ Len(p) >= 1 /\ Head(p) = p[1] /\ Len(l) \in Nat
  <2> HIDE DEF p
  <2>1. p # <<>>
    BY DEF p
  <2> QED
    BY <1>1, <2>1, TailIs
<1>3. Len(p) <= Len(l) /\ \A i \in 1 .. Len(p) : p[i] = l[Len(l) - Len(p) + i]
  BY DEF SendOK
<1>4. \A i \in 1 .. Len(l) : l[i].shape \in Shapes[n]
  BY DEF SendOK
<1> HIDE DEF p, l
<1>5. 1 \in 1 .. Len(p) /\ Len(l) - Len(p) + 1 \in 1 .. Len(l)
  BY <1>2, <1>3, SMT
<1>6. p[1].shape \in Shapes[n]
  BY <1>3, <1>4, <1>5
<1> QED
  BY <1>2, <1>6 DEF p

\* The receiver n takes a frame from r, the sender.
LEMMA ReceiverArrives ==
    ASSUME OneObject, NEW n \in Node, NEW r \in Node,
           NEW s \in NodeType, NEW q \in NodeType, NEW e \in NodeType, SendOK(r, s, n),
           s.last_unacked[n] <= q.rcvd_seqid[r] + 1,
           q.rcvd_seqid[r] <= s.sent_seqid[n], Arrives(r, n, s, q),
           NEW S, NEW f, Brought(r, S, f), f.seqid <= s.sent_seqid[n], Known(s, n, f),
           q.rcvd_seqid[r] <= f.seqid,
           e.rcvd_seqid = [q.rcvd_seqid EXCEPT ![r] = f.seqid], Took(q, r, f, e)
    PROVE  Arrives(r, n, s, e)
<1> DEFINE v == q.rcvd_seqid[r]
           w == f.seqid
<1>1. v \in Nat /\ w \in Nat /\ e.rcvd_seqid[r] = w /\ s.sent_seqid[n] \in Nat
      /\ s.last_unacked[n] \in Nat
  <2>1. q.rcvd_seqid \in [Node -> Nat] /\ s.sent_seqid[n] \in Nat /\ s.last_unacked[n] \in Nat
    BY Fields DEF FieldTypes
  <2> QED
    BY <2>1, DataIs
<1>2. \A m : Delivered(q, r, m) => Delivered(e, r, m)
  BY TookLists, DeliveredMore
<1>3. ReleasedOK(r, n, s, e)
  BY <1>2 DEF Arrives, ReleasedOK
<1>4. w = v \/ w = v + 1
  <2>1. s.sent_seqid[n] <= s.last_unacked[n]
    BY DEF SendOK
  <2>2. v <= w /\ w <= s.sent_seqid[n] /\ s.last_unacked[n] <= v + 1
    OBVIOUS
  <2> HIDE DEF v, w
  <2> QED
    BY <1>1, <2>1, <2>2, SMT
<1>5. SeenOK(r, n, s, e)
  <2> DEFINE m == Head(s.packet[n])
             a == s.first[n]
             L == Len(m.shape)
             j == w - a
             i == v - a
  <2> SUFFICES ASSUME s.packet[n] # <<>>, a <= w
               PROVE  IF j = L THEN Delivered(e, r, m) ELSE Assembling(e, r, m, j)
    BY <1>1 DEF SeenOK
  <2>1. a \in Nat /\ m \in Message /\ L \in Nat
    BY LastSeqidIs
  <2>2. f.id = m.id /\ f.shape = m.shape /\ f.part = j
    BY DEF Known
  <2>3. \A k \in 1 .. L : m.shape[k] <=> k = L
    <3>1. m.shape \in Shapes[r]
      BY HeadShape
    <3> HIDE DEF m
    <3> QED
      BY <3>1 DEF OneObject
  <2>4. j \in 0 .. L
    <3>1. w <= s.sent_seqid[n] /\ a <= w
      OBVIOUS
    <3> HIDE DEF w
    <3> QED
      BY <1>1, <3>1, WithinMessage
  <2>5. CASE j = 0
    <3>1. TookKmsg(q, r, f, e)
      BY <2>2, <2>5 DEF Took
    <3> HIDE DEF m, j
    <3>2. IF 0 = L THEN Delivered(e, r, m) ELSE Assembling(e, r, m, 0)
      BY <2>1, <2>2, <3>1, TookHeader
    <3> QED
      BY <2>5, <3>2
  <2>6. CASE j # 0
    <3>1. TookPage(q, r, f, e)
      BY <2>2, <2>6 DEF Took
    <3>2. a <= w
      OBVIOUS
    <3> HIDE DEF a, v, w, L
    <3>3. a <= v /\ i \in Nat /\ (j = i + 1 \/ j = i) /\ i <= j /\ j \in 1 .. L
      BY <1>1, <1>4, <2>1, <2>4, <2>6, <3>2, SMT
    <3>4. IF i = L THEN Delivered(q, r, m) ELSE Assembling(q, r, m, i)
      BY <3>3 DEF Arrives, SeenOK, a, v, L
    <3> HIDE DEF m, i, j
    <3>5. CASE i = L
      <4>1. j = L
        BY <2>1, <3>3, <3>5, SMT
      <4> QED
        BY <1>2, <3>4, <3>5, <4>1
    <3>6. CASE i # L
      <4>1. Assembling(q, r, m, i)
        BY <3>4, <3>6
      <4>2. f.part \in 1 .. Len(m.shape) /\ (m.shape[f.part] <=> f.part = Len(m.shape))
        BY <2>2, <2>3, <3>3 DEF L
      <4>3. f.part = i + 1 \/ f.part = i
        BY <2>2, <3>3
      <4>4. IF f.part = Len(m.shape) THEN Delivered(e, r, m) ELSE Assembling(e, r, m, f.part)
        BY <2>1, <2>2, <3>1, <3>3, <4>1, <4>2, <4>3, TookNextPage
      <4> QED
        BY <2>2, <4>4 DEF L
    <3> QED
      BY <3>5, <3>6
  <2> QED
    BY <2>5, <2>6
<1> QED
  BY <1>3, <1>5 DEF Arrives

\* The receiver takes a frame from r, and x is another sender.
LEMMA OthersArrive ==
    ASSUME NEW n \in Node, NEW r \in Node, NEW x \in Node, x # r,
           NEW s, NEW q \in NodeType, NEW e \in NodeType, Arrives(x, n, s, q),
           NEW S, NEW f, Brought(r, S, f),
           e.rcvd_seqid = [q.rcvd_seqid EXCEPT ![r] = f.seqid], Took(q, r, f, e)
    PROVE  Arrives(x, n, s, e)
<1>1. e.rcvd_seqid[x] = q.rcvd_seqid[x]
  <2>1. q.rcvd_seqid \in [Node -> Nat]
    BY Fields DEF FieldTypes
  <2> QED
    BY <2>1
<1>2. \A m : Delivered(q, x, m) => Delivered(e, x, m)
  BY TookLists, DeliveredMore
<1>3. \A m, j : Assembling(q, x, m, j) => Assembling(e, x, m, j)
  BY TookLists
<1>4. ReleasedOK(x, n, s, e)
  BY <1>2 DEF Arrives, ReleasedOK
<1>5. SeenOK(x, n, s, e)
  BY <1>1, <1>2, <1>3 DEF Arrives, SeenOK
<1> QED
  BY <1>4, <1>5 DEF Arrives

\* What the sender's half and the receiver's half of this depend on.
LEMMA ArrivesSame ==
    ASSUME NEW n, NEW r, NEW s, NEW t, NEW q, NEW p, Arrives(n, r, s, q),
           t.log = s.log, t.packet = s.packet, t.first = s.first, SameReceived(q, p)
    PROVE  Arrives(n, r, t, p)
<1>1. \A m : Delivered(q, n, m) => Delivered(p, n, m)
  BY DEF Delivered, SameReceived
<1>2. \A m, j : Assembling(q, n, m, j) => Assembling(p, n, m, j)
  BY DEF Assembling, SameReceived
<1>3. ReleasedOK(n, r, t, p)
  BY <1>1 DEF Arrives, ReleasedOK
<1>4. p.rcvd_seqid = q.rcvd_seqid
  BY DEF SameReceived
<1>5. SeenOK(n, r, t, p)
  BY <1>1, <1>2, <1>4, Zenon DEF Arrives, SeenOK
<1> QED
  BY <1>3, <1>5 DEF Arrives

\* The record a routine returns is the node's next one, but for the frame.
LEMMA NextRecord ==
    ASSUME Inv, NEW n \in Node, NEW e \in NodeType, NEW w, Becomes(n, e, w)
    PROVE  /\ \A x \in Node : x # n => node'[x] = node[x]
           /\ node'[n].log = e.log /\ node'[n].packet = e.packet /\ node'[n].first = e.first
           /\ SameReceived(e, node'[n])
<1> DEFINE d == [e EXCEPT !.out = <<>>]
<1>1. node' = [node EXCEPT ![n] = d] /\ DOMAIN node = Node
  BY DEF Becomes, Inv, TypeOK
<1>2. d.log = e.log /\ d.packet = e.packet /\ d.first = e.first /\ SameReceived(e, d)
  BY Zenon DEF NodeType, SameReceived
<1> HIDE DEF d
<1>3. node'[n] = d /\ \A x \in Node : x # n => node'[x] = node[x]
  BY <1>1
<1> QED
  BY <1>2, <1>3

\* A step in which nothing is received keeps what has arrived.
LEMMA WorkArrives ==
    ASSUME Inv, NEW n \in Node, Works(n), NEW a \in Node, NEW b \in Node,
           Arrives(a, b, node[a], node[b])
    PROVE  Arrives(a, b, node'[a], node'[b])
<1>0. node \in [Node -> NodeType] /\ Fits(node, wire)
  BY DEF Inv, TypeOK
<1>1. PICK e \in NodeType : (\E w : Moves(n, e, w)) /\ SameReceived(node[n], e)
  BY DEF Works
<1>2. PICK w : Moves(n, e, w)
  BY <1>1
<1>3. /\ \A x \in Node : x # n => node'[x] = node[x]
      /\ node'[n].log = e.log /\ node'[n].packet = e.packet /\ node'[n].first = e.first
      /\ SameReceived(e, node'[n])
  BY <1>2, NextRecord DEF Moves
<1>4. SameReceived(node[b], node'[b])
  BY <1>1, <1>3, Zenon DEF SameReceived
<1>5. CASE a = n
  <2> DEFINE S == Sent(node, n)
             V == Seen(node, n)
  <2>1. Step(node[n], e, S, V) /\ V[b] = node[b].rcvd_seqid[n]
    BY <1>2 DEF Moves, Seen
  <2>2. node[n] \in NodeType /\ node[b] \in NodeType /\ SendOK(n, node[n], b)
        /\ node[b].rcvd_seqid[n] <= node[n].sent_seqid[b]
    BY <1>0 DEF Fits, Good
  <2> HIDE DEF S, V
  <2>3. Arrives(n, b, e, node'[b])
    BY <1>4, <1>5, <2>1, <2>2, SenderArrives
  <2>4. SameReceived(node'[b], node'[b])
    BY DEF SameReceived
  <2> QED
    BY <1>3, <1>5, <2>3, <2>4, ArrivesSame
<1>6. CASE a # n
  BY <1>3, <1>4, <1>6, ArrivesSame
<1> QED
  BY <1>5, <1>6

\* A step in which node n takes a frame of data from r keeps it.
LEMMA TakeArrives ==
    ASSUME OneObject, Inv, NEW n \in Node, NEW r \in Node, wire[r][n] # <<>>,
           NEW f, f = Head(wire[r][n]), f.type = "data", NEW here \in BOOLEAN, Takes(n, r, f, here),
           f.seqid < node[n].rcvd_seqid[r]
               \/ (~node[n].self_stopped /\ (f.part # 0 \/ here)),
           \A a, b \in Node : Arrives(a, b, node[a], node[b]),
           NEW a \in Node, NEW b \in Node
    PROVE  Arrives(a, b, node'[a], node'[b])
<1>0. node \in [Node -> NodeType] /\ wire \in Wires /\ Fits(node, wire)
  BY DEF Inv, TypeOK, Wires
<1>1. PICK e \in NodeType : /\ \E w : Moves(n, e, w)
                            /\ Saw(node[n], r, f, here, e)
                            /\ e.packet = node[n].packet /\ e.log = node[n].log
                            /\ e.first = node[n].first
  BY DEF Takes
<1>2. /\ \A x \in Node : x # n => node'[x] = node[x]
      /\ node'[n].log = e.log /\ node'[n].packet = e.packet /\ node'[n].first = e.first
      /\ SameReceived(e, node'[n])
  BY <1>1, NextRecord DEF Moves
<1>3. /\ node'[a].log = node[a].log /\ node'[a].packet = node[a].packet
      /\ node'[a].first = node[a].first
  BY <1>1, <1>2
<1>4. ASSUME NEW q, Arrives(a, b, node[a], q), SameReceived(q, node'[b])
      PROVE  Arrives(a, b, node'[a], node'[b])
  BY <1>3, <1>4, ArrivesSame
<1>5. CASE b # n
  <2>1. SameReceived(node[b], node'[b])
    BY <1>2, <1>5 DEF SameReceived
  <2> QED
    BY <1>4, <2>1
<1>6. CASE b = n
  <2> DEFINE q == node[n]
             s == node[a]
             S == Sent(node, n)
  <2>1. f \in Frame /\ f.seqid <= node[r].sent_seqid[n] /\ Known(node[r], n, f) /\ Brought(r, S, f)
    <3>1. f \in Frame /\ 1 \in 1 .. Len(wire[r][n]) /\ f = wire[r][n][1]
      BY <1>0, FramesLess
    <3>2. FrameOK(node[r], n, node[n].sent_seqid[r], f)
      BY <1>0, <3>1 DEF Fits
    <3> QED
      BY <3>1, <3>2 DEF FrameOK, DataOK, Brought, Sent
  <2>2. q \in NodeType /\ s \in NodeType /\ node[r] \in NodeType /\ Arrives(a, n, s, q)
    BY <1>0
  <2>3. /\ SendOK(r, node[r], n) /\ node[r].last_unacked[n] <= q.rcvd_seqid[r] + 1
        /\ q.rcvd_seqid[r] <= node[r].sent_seqid[n]
    BY <1>0 DEF Fits, Good
  <2> HIDE DEF S
  <2>4. CASE f.seqid < q.rcvd_seqid[r]
    <3>1. e = q
      <4>1. f.seqid \in Nat /\ q.rcvd_seqid[r] \in Nat
        BY <2>1, <2>2, DataIs, Fields DEF FieldTypes
      <4>2. ~(f.seqid >= q.rcvd_seqid[r])
        BY <2>4, <4>1, SMT
      <4> QED
        BY <1>1, <4>2 DEF Saw
    <3>2. SameReceived(q, node'[n])
      BY <1>2, <3>1
    <3> QED
      BY <1>4, <1>6, <2>2, <3>2
  <2>5. CASE ~(f.seqid < q.rcvd_seqid[r])
    <3>1. /\ q.rcvd_seqid[r] <= f.seqid
          /\ e.rcvd_seqid = [q.rcvd_seqid EXCEPT ![r] = f.seqid] /\ Took(q, r, f, e)
      <4>1. f.seqid \in Nat /\ q.rcvd_seqid[r] \in Nat
        BY <2>1, <2>2, DataIs, Fields DEF FieldTypes
      <4>2. q.rcvd_seqid[r] <= f.seqid
        BY <2>5, <4>1, SMT
      <4> QED
        BY <1>1, <2>5, <4>2 DEF Saw
    <3>2. Arrives(a, n, s, e)
      <4>1. CASE a = r
        <5>1. Arrives(r, n, node[r], q)
          OBVIOUS
        <5> HIDE DEF q
        <5>2. Arrives(r, n, node[r], e)
          BY <2>1, <2>2, <2>3, <3>1, <5>1, ReceiverArrives
        <5> QED
          BY <4>1, <5>2
      <4>2. CASE a # r
        <5> HIDE DEF q, s
        <5> QED
          BY <2>1, <2>2, <3>1, <4>2, OthersArrive
      <4> QED
        BY <4>1, <4>2
    <3> QED
      BY <1>2, <1>4, <1>6, <3>2
  <2> QED
    BY <2>4, <2>5
<1> QED
  BY <1>5, <1>6

\* Every step keeps it.
LEMMA ArriveStep ==
    ASSUME OneObject, Inv, AllArrives, [Next]_vars
    PROVE  AllArrives'
<1> SUFFICES ASSUME refused' = 0, NEW a \in Node, NEW b \in Node
             PROVE  Arrives(a, b, node'[a], node'[b])
  BY DEF AllArrives
<1>1. ASSUME refused = 0, node' = node PROVE Arrives(a, b, node'[a], node'[b])
  BY <1>1 DEF AllArrives
<1>2. CASE UNCHANGED vars
  BY <1>1, <1>2 DEF vars
<1>3. ASSUME NEW n \in Node, Works(n) PROVE Arrives(a, b, node'[a], node'[b])
  <2>1. refused = 0
    BY <1>3 DEF Works
  <2>2. Arrives(a, b, node[a], node[b])
    BY <2>1 DEF AllArrives
  <2> QED
    BY <1>3, <2>2, WorkArrives
<1>4. ASSUME NEW n \in Node, NEW r \in Node, wire[r][n] # <<>>, Head(wire[r][n]).type = "data",
             NEW here \in BOOLEAN, Takes(n, r, Head(wire[r][n]), here), ReceiveData(n, r, here)
      PROVE  Arrives(a, b, node'[a], node'[b])
  <2> DEFINE f == Head(wire[r][n])
             stops == Discards(node[n], r, f, here)
  <2>1. refused' = IF stops THEN refused + 1 ELSE refused
    BY <1>4 DEF ReceiveData
  <2>2. refused \in Nat
    BY BoundsAssumption, SMT DEF BoundsAssumption, Inv, TypeOK
  <2>3. refused = 0 /\ ~stops
    <3> HIDE DEF stops
    <3> QED
      BY <2>1, <2>2, SMT
  <2>4. f.seqid < node[n].rcvd_seqid[r]
           \/ (~node[n].self_stopped /\ (f.part # 0 \/ here))
    <3>1. f \in Frame
      BY <1>4, FramesLess DEF Inv, TypeOK, Wires
    <3>2. f.seqid \in Nat
      BY <3>1 DEF Frame
    <3>3. node[n].rcvd_seqid[r] \in Nat
      BY Fields DEF FieldTypes, Inv, TypeOK
    <3>4. f.seqid < node[n].rcvd_seqid[r] \/ f.seqid >= node[n].rcvd_seqid[r]
      <4> HIDE DEF f
      <4> QED
        BY <3>2, <3>3, SMT
    <3> HIDE DEF f
    <3> QED
      BY <2>3, <3>4 DEF stops, Discards
  <2>5. \A x, y \in Node : Arrives(x, y, node[x], node[y])
    BY <2>3 DEF AllArrives
  <2> QED
    BY <1>4, <2>4, <2>5, TakeArrives
<1>5. ASSUME NEW n \in Node, NEW r \in Node, Lose(n, r) PROVE Arrives(a, b, node'[a], node'[b])
  BY <1>1, <1>5 DEF Lose
<1> QED
  BY <1>2, <1>3, <1>4, <1>5, NextMoves

\* At first nothing has been sent.
LEMMA InitArrives == Init => AllArrives
<1> SUFFICES ASSUME Init, NEW n \in Node, NEW r \in Node PROVE Arrives(n, r, node[n], node[r])
  BY DEF AllArrives
<1>1. node[n].log[r] = <<>> /\ node[n].packet[r] = <<>>
  BY InitNode
<1>2. 1 .. Len(<<>>) - Len(<<>>) = {}
  BY SMT
<1> QED
  BY <1>1, <1>2 DEF Arrives, ReleasedOK, SeenOK

\* A message that its sender has let go of has been handed up whole, with all
\* its pages, whatever the network loses, as long as every frame that arrives
\* is taken, having found a page and its port, and a message is one copy
\* object at most.  Without either condition it is false.
THEOREM NothingIsLost == ASSUME OneObject PROVE Spec => []NothingLost
<1>1. AllArrives => NothingLost
  <2> SUFFICES ASSUME AllArrives, refused = 0, NEW n \in Node, NEW r \in Node,
                      NEW i \in 1 .. Released(n, r)
               PROVE  \E k \in Handed(r, n) : Whole(k, node[n].log[r][i])
    BY DEF NothingLost
  <2>1. Delivered(node[r], n, node[n].log[r][i])
    BY DEF AllArrives, Arrives, ReleasedOK, Released
  <2>2. PICK j \in 1 .. Len(node[r].complete) :
           node[r].complete[j].remote = n /\ Whole(node[r].complete[j], node[n].log[r][i])
    BY <2>1 DEF Delivered
  <2> QED
    BY <2>2 DEF Handed, Range
<1>2. Inv /\ AllArrives /\ [Next]_vars => AllArrives'
  BY ArriveStep
<1> QED
  BY <1>1, <1>2, InitArrives, WindowInvariant, PTL DEF Spec

-----------------------------------------------------------------------------
(* As long as every frame arrives and is taken, nothing is sent twice.     *)

\* A frame that is not data and asks for nothing: an ack, or the question
\* about packet k.
Plain(f, k) == f.type = "ctl" /\ f.ctl # "nack" /\ (f.ctl = "sync" => f.seqid = k)

\* A node that nobody waits for: it has refused no frame, what is in a slot
\* waits for the frame being sent, and asks about the packet sent last.
Calm(nd) ==
    /\ nd.pending_unack = <<>>
    /\ \A y \in Node :
          /\ nd.ctl[y] # CtlNone => nd.sending /\ Contains(nd.pending_send, y)
          /\ nd.ctl[y].ctl # "nack"
          /\ nd.ctl[y].ctl = "sync" => nd.ctl[y].seqid = nd.sent_seqid[y]

\* What goes out is such a frame.
Quiet(nd) ==
    /\ Calm(nd)
    /\ nd.out # <<>> => Plain(nd.out[1].frame, nd.sent_seqid[nd.out[1].to])

\* From nd to e, y is sent the next packet, or no data.
Says(nd, e, y) ==
    LET f == e.out[1].frame
    IN  \/ /\ e.sent_seqid[y] = nd.sent_seqid[y]
           /\ e.out # <<>> /\ e.out[1].to = y => Plain(f, nd.sent_seqid[y])
        \/ /\ e.sent_seqid[y] = nd.sent_seqid[y] + 1
           /\ e.out # <<>> /\ e.out[1].to = y
           /\ f.type = "data" /\ f.seqid = nd.sent_seqid[y] + 1

\* A routine took nd, with no frame to send, to e.
Calmly(nd, e) == Calm(e) /\ \A y \in Node : Says(nd, e, y)

\* It is calm then, if it was.
LEMMA QuietSame ==
    ASSUME NEW nd, NEW e, Quiet(nd), Untouched(nd, e)
    PROVE  Quiet(e)
<1>1. Calm(e)
  BY DEF Quiet, Calm, Untouched
<1> QED
  BY <1>1 DEF Quiet, Untouched

\* A node that sends no new packet says what is plain.
LEMMA QuietCalmly ==
    ASSUME NEW nd, NEW e, Quiet(e), e.sent_seqid = nd.sent_seqid
    PROVE  Calmly(nd, e)
  BY DEF Quiet, Calmly, Says

\* netipc_send.
LEMMA TransmitIs ==
    ASSUME NEW nd \in NodeType, NEW r \in Node, NEW f \in Frame
    PROVE  LET e == Transmit(nd, r, f)
           IN  /\ e \in NodeType /\ SameSent(nd, e) /\ e.ctl = nd.ctl
               /\ e.pending_send = nd.pending_send /\ e.sending
               /\ e.out # <<>> /\ e.out[1].to = r /\ e.out[1].frame = f
<1> DEFINE e == Transmit(nd, r, f)
           o == <<[to |-> r, frame |-> f]>>
<1>1. o \in Seq([to : Node, frame : Frame]) /\ o # <<>> /\ o[1].to = r /\ o[1].frame = f
  OBVIOUS
<1>2. PICK b \in BOOLEAN : b = TRUE
  OBVIOUS
<1>3. e = [nd EXCEPT !.sending = b, !.busy = b, !.out = o]
  BY <1>2 DEF Transmit
<1> HIDE DEF e, o
<1>4. e \in NodeType
  BY <1>1, <1>3, Zenon DEF NodeType
<1>5. /\ SameSent(nd, e) /\ e.ctl = nd.ctl /\ e.sending = b /\ e.out = o
      /\ e.pending_send = nd.pending_send
  BY <1>3, Zenon DEF NodeType, Same, SameSent
<1> QED
  BY <1>1, <1>2, <1>4, <1>5 DEF e

\* netipc_send_kmsg and netipc_send_page.
LEMMA SendPartIs ==
    ASSUME NEW nd \in NodeType, NEW r \in Node, NEW k \in Nat, SetSeqid(nd, r, k)
    PROVE  LET e == SendPart(nd, r, k)
           IN  /\ e \in NodeType /\ SameSent(nd, e) /\ e.ctl = nd.ctl
               /\ e.pending_send = nd.pending_send /\ e.sending
               /\ e.out # <<>> /\ e.out[1].to = r
               /\ e.out[1].frame.type = "data" /\ e.out[1].frame.seqid = k
<1> DEFINE t == [nd.timer EXCEPT ![r] = 1]
           p == Enqueue(nd.pending_timeout, r)
           q == [nd EXCEPT !.timer[r] = 1, !.pending_timeout = Enqueue(@, r)]
           m == Head(nd.packet[r])
           f == [type |-> "data", seqid |-> k, id |-> m.id, shape |-> m.shape,
                 part |-> k - nd.first[r]]
           e == SendPart(nd, r, k)
<1>0. FieldTypes(nd)
  BY Fields
<1>1. e = Transmit(q, r, f)
  BY DEF SendPart
<1>2. q = [nd EXCEPT !.timer = t, !.pending_timeout = p]
  OBVIOUS
<1>3. /\ nd.timer \in [Node -> 0..2] /\ nd.pending_timeout \in Seq(Node)
      /\ nd.packet[r] \in Seq(Message) /\ nd.first[r] \in Nat
      /\ nd.packet[r] # <<>> /\ nd.first[r] <= k
  BY <1>0 DEF FieldTypes, SetSeqid
<1>4. t \in [Node -> 0..2] /\ p \in Seq(Node)
  <2>1. 1 \in 0..2
    BY SMT
  <2> QED
    BY <1>3, <2>1, EnqueueType
<1>5. m \in Message
  BY <1>3
<1>6. f \in Frame /\ f.type = "data" /\ f.seqid = k
  <2>1. k - nd.first[r] \in Nat
    BY <1>3, SMT
  <2> HIDE DEF m
  <2> QED
    BY <1>5, <2>1, SMT DEF Frame, Message
<1> HIDE DEF t, p, q, f, e
<1>7. q \in NodeType
  BY <1>2, <1>4, Zenon DEF NodeType
<1>8. SameSent(nd, q) /\ q.ctl = nd.ctl /\ q.pending_send = nd.pending_send
  BY <1>2, Zenon DEF NodeType, Same, SameSent
<1>9. /\ e \in NodeType /\ SameSent(q, e) /\ e.ctl = q.ctl
      /\ e.pending_send = q.pending_send /\ e.sending
      /\ e.out # <<>> /\ e.out[1].to = r /\ e.out[1].frame = f
  BY <1>1, <1>6, <1>7, TransmitIs
<1>10. SameSent(nd, e)
  BY <1>8, <1>9, Zenon DEF SameSent, Same
<1> QED
  BY <1>6, <1>8, <1>9, <1>10 DEF e

\* A plain control frame goes out or to its slot: netipc_send_ctl.
LEMMA SendCtlQuiet ==
    ASSUME NEW nd \in NodeType, Quiet(nd), NEW r \in Node, NEW c, IsCtl(c),
           c.ctl # "nack", c.ctl = "sync" => c.seqid = nd.sent_seqid[r]
    PROVE  LET e == netipc_send_ctl(nd, r, c)
           IN  e \in NodeType /\ Quiet(e) /\ SameSent(nd, e)
<1> DEFINE e == netipc_send_ctl(nd, r, c)
<1>0. FieldTypes(nd)
  BY Fields
<1>1. CASE nd.sending
  <2> DEFINE l == [nd.ctl EXCEPT ![r] = c]
             p == Enqueue(nd.pending_send, r)
  <2>1. e = [nd EXCEPT !.ctl = l, !.pending_send = p]
    BY <1>1 DEF netipc_send_ctl
  <2>2. l \in [Node -> [ctl : {"none", "ack", "nack", "sync"}, seqid : Nat]]
    BY <1>0 DEF FieldTypes, IsCtl
  <2>3. p \in Seq(Node) /\ \A x : Contains(p, x) <=> Contains(nd.pending_send, x) \/ x = r
    BY <1>0, EnqueueType DEF FieldTypes
  <2>4. \A x \in Node : l[x] = IF x = r THEN c ELSE nd.ctl[x]
    BY <1>0 DEF FieldTypes
  <2> HIDE DEF e, l, p
  <2>5. e \in NodeType
    BY <2>1, <2>2, <2>3, Zenon DEF NodeType
  <2>6. /\ SameSent(nd, e) /\ e.ctl = l /\ e.out = nd.out /\ e.sending = nd.sending
        /\ e.pending_send = p
    BY <2>1, Zenon DEF NodeType, Same, SameSent
  <2>7. e.sent_seqid = nd.sent_seqid /\ e.pending_unack = nd.pending_unack
    BY <2>6 DEF SameSent, Same
  <2>8. ASSUME NEW y \in Node
        PROVE  /\ e.ctl[y] # CtlNone => e.sending /\ Contains(e.pending_send, y)
               /\ e.ctl[y].ctl # "nack"
               /\ e.ctl[y].ctl = "sync" => e.ctl[y].seqid = e.sent_seqid[y]
    <3>1. CASE y = r
      BY <1>1, <2>3, <2>4, <2>6, <2>7, <3>1
    <3>2. CASE y # r
      BY <1>1, <2>3, <2>4, <2>6, <2>7, <3>2 DEF Quiet, Calm
    <3> QED
      BY <3>1, <3>2
  <2>9. Quiet(e)
    BY <2>6, <2>7, <2>8 DEF Quiet, Calm
  <2> QED
    BY <2>5, <2>6, <2>9 DEF e
<1>2. CASE ~nd.sending
  <2> DEFINE f == CtlFrame(c)
  <2>1. f \in Frame /\ f.type = "ctl" /\ f.ctl = c.ctl /\ f.seqid = c.seqid
    BY SMT DEF CtlFrame, Frame, IsCtl
  <2>2. e = Transmit(nd, r, f)
    BY <1>2 DEF netipc_send_ctl
  <2> HIDE DEF f, e
  <2>3. /\ e \in NodeType /\ SameSent(nd, e) /\ e.ctl = nd.ctl
        /\ e.pending_send = nd.pending_send /\ e.sending
        /\ e.out # <<>> /\ e.out[1].to = r /\ e.out[1].frame = f
    BY <2>1, <2>2, TransmitIs
  <2>4. e.sent_seqid = nd.sent_seqid /\ e.pending_unack = nd.pending_unack
    BY <2>3 DEF SameSent, Same
  <2>5. Calm(e)
    BY <2>3, <2>4 DEF Quiet, Calm
  <2>6. Plain(f, nd.sent_seqid[r])
    BY <2>1 DEF Plain
  <2>7. Quiet(e)
    BY <2>3, <2>4, <2>5, <2>6 DEF Quiet
  <2> QED
    BY <2>3, <2>7 DEF e
<1> QED
  BY <1>1, <1>2

\* The next packet goes out, is put off, or there is none: netipc_send_any.
LEMMA SendAnyCalm ==
    ASSUME NEW nd \in NodeType, Calm(nd), nd.out = <<>>, NEW r \in Node
    PROVE  LET e == netipc_send_any(nd, r)
           IN  Calmly(nd, e) /\ e.panic = nd.panic /\ (nd.sending => e.sent_seqid = nd.sent_seqid)
<1> DEFINE e == netipc_send_any(nd, r)
           k == nd.sent_seqid[r] + 1
           go == k < MAX_WINDOW_SIZE + nd.last_unacked[r] /\ SetSeqid(nd, r, k)
<1>0. FieldTypes(nd)
  BY Fields
<1>1. ASSUME NEW d \in [Node -> BOOLEAN], NEW l \in Seq(Node),
             \A y : Contains(nd.pending_send, y) => Contains(l, y),
             e = [nd EXCEPT !.do_send = d, !.pending_send = l]
      PROVE  Calmly(nd, e) /\ e.panic = nd.panic /\ e.sent_seqid = nd.sent_seqid
  <2> HIDE DEF e
  <2>1. /\ e.ctl = nd.ctl /\ e.out = nd.out /\ e.sending = nd.sending /\ e.panic = nd.panic
        /\ e.sent_seqid = nd.sent_seqid /\ e.pending_send = l
        /\ e.pending_unack = nd.pending_unack
    BY <1>1, Zenon DEF NodeType
  <2>2. Quiet(e)
    BY <1>1, <2>1 DEF Quiet, Calm
  <2> QED
    BY <2>1, <2>2, QuietCalmly
<1>2. nd.do_send \in [Node -> BOOLEAN] /\ nd.pending_send \in Seq(Node)
  BY <1>0 DEF FieldTypes
<1>3. CASE go /\ nd.sending
  <2> DEFINE d == [nd.do_send EXCEPT ![r] = TRUE]
             l == Enqueue(nd.pending_send, r)
  <2>1. e = [nd EXCEPT !.do_send = d, !.pending_send = l]
    BY <1>3 DEF netipc_send_any
  <2>2. d \in [Node -> BOOLEAN]
    BY <1>2
  <2>3. l \in Seq(Node) /\ \A y : Contains(nd.pending_send, y) => Contains(l, y)
    BY <1>2, EnqueueType
  <2> HIDE DEF e, d, l
  <2> QED
    BY <1>1, <2>1, <2>2, <2>3 DEF e
<1>4. CASE ~go
  <2> DEFINE d == [nd.do_send EXCEPT ![r] = FALSE]
  <2>1. e = [nd EXCEPT !.do_send = d]
    BY <1>4 DEF netipc_send_any
  <2>2. d \in [Node -> BOOLEAN]
    BY <1>2
  <2>3. e = [nd EXCEPT !.do_send = d, !.pending_send = nd.pending_send]
    BY <2>1, Zenon DEF NodeType
  <2> HIDE DEF e, d
  <2> QED
    BY <1>1, <1>2, <2>2, <2>3 DEF e
<1>5. CASE go /\ ~nd.sending
  <2> DEFINE u == [nd.sent_seqid EXCEPT ![r] = k]
             g == [nd.sent_packet EXCEPT ![r][k % WX] = TRUE]
             q == [nd EXCEPT !.sent_seqid[r] = k, !.sent_packet[r][k % WX] = TRUE]
  <2>1. e = SendPart(q, r, k)
    BY <1>5 DEF netipc_send_any
  <2>2. q = [nd EXCEPT !.sent_seqid = u, !.sent_packet = g]
    OBVIOUS
  <2>3. /\ k \in Nat /\ u \in [Node -> Nat] /\ u[r] = k
        /\ \A x \in Node : x # r => u[x] = nd.sent_seqid[x]
    <3>1. nd.sent_seqid \in [Node -> Nat]
      BY <1>0 DEF FieldTypes
    <3> QED
      BY <3>1
  <2>4. g \in [Node -> [0 .. WX - 1 -> BOOLEAN]]
    BY <1>0 DEF FieldTypes
  <2>5. nd.sent_seqid[r] + 1 = k
    OBVIOUS
  <2> HIDE DEF e, u, g, q, k
  <2>6. q \in NodeType
    BY <2>2, <2>3, <2>4, Zenon DEF NodeType
  <2>7. /\ Same(nd, q) /\ q.ctl = nd.ctl /\ q.pending_send = nd.pending_send
        /\ q.sent_seqid = u
    BY <2>2, Zenon DEF NodeType, Same
  <2>8. SetSeqid(q, r, k)
    BY <1>5, <2>7 DEF SetSeqid, LastSeqid, Same
  <2>9. /\ SameSent(q, e) /\ e.ctl = q.ctl /\ e.out # <<>> /\ e.out[1].to = r
        /\ e.out[1].frame.type = "data" /\ e.out[1].frame.seqid = k
    BY <2>1, <2>3, <2>6, <2>8, SendPartIs
  <2>10. /\ e.panic = nd.panic /\ e.pending_unack = nd.pending_unack /\ e.sent_seqid = u
         /\ e.ctl = nd.ctl
    BY <2>7, <2>9, Zenon DEF SameSent, Same
  <2>11. Calm(e)
    <3>1. \A y \in Node : nd.ctl[y] = CtlNone
      BY <1>5 DEF Calm
    <3>2. CtlNone.ctl = "none"
      BY DEF CtlNone
    <3> QED
      BY <2>10, <3>1, <3>2 DEF Calm
  <2>12. ASSUME NEW y \in Node PROVE Says(nd, e, y)
    <3>1. CASE y = r
      BY <2>3, <2>5, <2>9, <2>10, <3>1 DEF Says
    <3>2. CASE y # r
      BY <2>3, <2>9, <2>10, <3>2 DEF Says
    <3> QED
      BY <3>1, <3>2
  <2> QED
    BY <1>5, <2>10, <2>11, <2>12 DEF Calmly, e
<1> QED
  BY <1>3, <1>4, <1>5

\* Several control frames: SendCtls.
LEMMA SendCtlsQuiet ==
    ASSUME NEW nd \in NodeType, Quiet(nd), NEW list \in Seq(Node), NEW c,
           \A r \in Node : Contains(list, r) =>
              IsCtl(c[r]) /\ c[r].ctl # "nack" /\ (c[r].ctl = "sync" => c[r].seqid = nd.sent_seqid[r])
    PROVE  LET e == SendCtls(nd, list, c)
           IN  e \in NodeType /\ Quiet(e) /\ SameSent(nd, e)
<1> DEFINE D == {x \in NodeType : Quiet(x) /\ SameSent(nd, x)}
<1>1. nd \in D
  BY DEF SameSent, Same
<1>2. ASSUME NEW i \in 1 .. Len(list), NEW x \in D
      PROVE  netipc_send_ctl(x, list[i], c[list[i]]) \in D
  <2> DEFINE r == list[i]
             e == netipc_send_ctl(x, r, c[r])
  <2>1. x \in NodeType /\ Quiet(x) /\ SameSent(nd, x)
    OBVIOUS
  <2>2. r \in Node /\ Contains(list, r)
    BY DEF Contains
  <2> HIDE DEF r
  <2>3. /\ IsCtl(c[r]) /\ c[r].ctl # "nack"
        /\ c[r].ctl = "sync" => c[r].seqid = x.sent_seqid[r]
    BY <2>1, <2>2 DEF SameSent
  <2>4. e \in NodeType /\ Quiet(e) /\ SameSent(x, e)
    BY <2>1, <2>2, <2>3, SendCtlQuiet
  <2> HIDE DEF e
  <2>5. SameSent(nd, e)
    BY <2>1, <2>4, Zenon DEF SameSent, Same
  <2>6. e \in D
    BY <2>4, <2>5
  <2> QED
    BY <2>6 DEF e, r
<1>3. SendCtls(nd, list, c) \in D
  <2> HIDE DEF D
  <2> QED
    BY <1>1, <1>2, SendCtlsIn
<1> QED
  BY <1>3

-----------------------------------------------------------------------------
\* norma_ipc_send.
LEMMA SendCalm ==
    ASSUME NEW n \in Node, NEW nd \in NodeType, Calm(nd), nd.out = <<>>, NEW r \in Node,
           NEW shape \in Shapes[n]
    PROVE  LET e == norma_ipc_send(nd, r, shape)
           IN  Calmly(nd, e) /\ e.panic = nd.panic
<1>0. FieldTypes(nd)
  BY Fields
<1> DEFINE m == [id |-> Len(nd.log[r]) + 1, shape |-> shape]
           first == IF nd.packet[r] = <<>> THEN nd.sent_seqid[r] + 1 ELSE nd.first[r]
           g == [nd.log EXCEPT ![r] = Append(@, m)]
           p == [nd.packet EXCEPT ![r] = Append(@, m)]
           f == [nd.first EXCEPT ![r] = first]
           q == [nd EXCEPT !.log = g, !.packet = p, !.first = f]
           e == netipc_send_any(q, r)
<1>1. norma_ipc_send(nd, r, shape) = e
  BY DEF norma_ipc_send
<1>2. /\ nd.log \in [Node -> Seq(Message)] /\ nd.packet \in [Node -> Seq(Message)]
      /\ nd.first \in [Node -> Nat] /\ nd.sent_seqid \in [Node -> Nat]
  BY <1>0 DEF FieldTypes
<1>3. shape \in Seq(BOOLEAN)
  BY BoundsAssumption DEF BoundsAssumption
<1>4. m \in Message /\ first \in Nat
  <2>1. Len(nd.log[r]) + 1 \in Nat /\ nd.sent_seqid[r] + 1 \in Nat /\ nd.first[r] \in Nat
    <3>1. nd.log[r] \in Seq(Message) /\ nd.sent_seqid[r] \in Nat /\ nd.first[r] \in Nat
      BY <1>2
    <3>2. Len(nd.log[r]) \in Nat
      BY <3>1, LenNat
    <3> QED
      BY <3>1, <3>2, SMT
  <2> QED
    BY <1>3, <2>1 DEF Message
<1> HIDE DEF m, first
<1>5. /\ g \in [Node -> Seq(Message)] /\ p \in [Node -> Seq(Message)] /\ f \in [Node -> Nat]
  <2>1. Append(nd.log[r], m) \in Seq(Message) /\ Append(nd.packet[r], m) \in Seq(Message)
    <3>1. nd.log[r] \in Seq(Message) /\ nd.packet[r] \in Seq(Message)
      BY <1>2
    <3> QED
      BY <1>4, <3>1, Appended
  <2> QED
    BY <1>2, <1>4, <2>1
<1> HIDE DEF g, p, f
<1>6. q \in NodeType
  BY <1>5, Zenon DEF NodeType
<1>7. /\ q.ctl = nd.ctl /\ q.out = nd.out /\ q.sending = nd.sending /\ q.panic = nd.panic
      /\ q.sent_seqid = nd.sent_seqid /\ q.pending_send = nd.pending_send
      /\ q.pending_unack = nd.pending_unack
  BY Zenon DEF NodeType
<1> HIDE DEF q
<1>8. Calm(q)
  BY <1>7 DEF Calm
<1>9. Calmly(q, e) /\ e.panic = q.panic
  BY <1>6, <1>7, <1>8, SendAnyCalm
<1> HIDE DEF e
<1>10. Calmly(nd, e)
  BY <1>7, <1>9 DEF Calmly, Says
<1> QED
  BY <1>1, <1>7, <1>9, <1>10

\* The device is done with a frame: netipc_send_intr.
LEMMA SendIntrCalm ==
    ASSUME NEW nd \in NodeType, Calm(nd), nd.out = <<>>,
           \A y \in Node : nd.ctl[y] # CtlNone => IsCtl(nd.ctl[y])
    PROVE  LET e == netipc_send_intr(nd)
           IN  Calmly(nd, e) /\ e.panic = nd.panic
<1>0. FieldTypes(nd)
  BY Fields
<1>1. nd.pending_send \in Seq(Node) /\ nd.ctl \in [Node -> [ctl : {"none", "ack", "nack", "sync"}, seqid : Nat]]
      /\ Len(nd.pending_send) \in Nat
  BY <1>0, LenNat DEF FieldTypes
<1> DEFINE L == nd.pending_send
           I == {i \in 1 .. Len(nd.pending_send) :
                    ~(nd.ctl[nd.pending_send[i]] = CtlNone /\ ~nd.do_send[nd.pending_send[i]])}
           live == IF I # {} THEN Min(I) ELSE 0
           rest == IF live = 0 THEN <<>>
                   ELSE SubSeq(nd.pending_send, live, Len(nd.pending_send))
           r == Head(rest)
           e == netipc_send_intr(nd)
           now == [nd EXCEPT !.busy = FALSE, !.pending_send = rest]
           quiet == [now EXCEPT !.sending = FALSE]
           less == [now EXCEPT !.ctl[r] = CtlNone]
<1>2. /\ live # 0 => live \in 1 .. Len(L)
      /\ \A i \in 1 .. Len(L) : live = 0 \/ i < live => nd.ctl[L[i]] = CtlNone
  <2>1. I \in SUBSET Nat /\ I \subseteq 1 .. Len(L)
    OBVIOUS
  <2>2. \A i \in 1 .. Len(L) : i \notin I => nd.ctl[L[i]] = CtlNone
    OBVIOUS
  <2> HIDE DEF I
  <2>3. I # {} => Min(I) \in I /\ \A i \in I : Min(I) <= i
    BY <2>1, MinIs
  <2>4. I # {} => Min(I) \in 1 .. Len(L)
    BY <2>1, <2>3
  <2>5. \A i \in 1 .. Len(L) : live = 0 \/ i < live => i \notin I
    BY <1>1, <2>1, <2>3, <2>4, SMT
  <2> QED
    BY <2>2, <2>4, <2>5
<1>5. e = IF live = 0 THEN quiet
          ELSE IF nd.ctl[r] # CtlNone THEN Transmit(less, r, CtlFrame(nd.ctl[r]))
          ELSE netipc_send_any(now, r)
  BY DEF netipc_send_intr, SelectInSeq
<1> HIDE DEF live
<1>3. /\ rest \in Seq(Node) /\ (live # 0 => r \in Node)
      /\ \A y : Contains(L, y) /\ nd.ctl[y] # CtlNone => Contains(rest, y)
  <2>1. CASE live = 0
    BY <1>2, <2>1 DEF Contains
  <2>2. CASE live # 0
    <3>1. live \in 1 .. Len(L) /\ Len(L) \in Nat
      BY <1>1, <1>2, <2>2
    <3>2. rest = SubSeq(L, live, Len(L))
      BY <2>2
    <3> HIDE DEF rest, L
    <3>3. /\ rest \in Seq(Node) /\ Len(rest) = Len(L) - live + 1
          /\ \A i \in 1 .. Len(L) - live + 1 : rest[i] = L[live + i - 1]
      <4>1. L \in Seq(Node)
        BY <1>1 DEF L
      <4> QED
        BY <3>1, <3>2, <4>1
    <3>4. Len(rest) # 0
      BY <3>1, <3>3, SMT
    <3>5. ASSUME NEW y, Contains(L, y), nd.ctl[y] # CtlNone PROVE Contains(rest, y)
      <4>1. PICK i \in 1 .. Len(L) : L[i] = y
        BY <3>5 DEF Contains
      <4>2. ~(i < live)
        BY <1>2, <3>5, <4>1
      <4>3. i - live + 1 \in 1 .. Len(rest) /\ rest[i - live + 1] = y
        <5>1. i - live + 1 \in 1 .. Len(L) - live + 1 /\ live + (i - live + 1) - 1 = i
          BY <3>1, <4>1, <4>2, SMT
        <5> QED
          BY <3>3, <4>1, <5>1
      <4> QED
        BY <4>3 DEF Contains
    <3>6. r \in Node
      BY <3>3, <3>4
    <3> QED
      BY <3>3, <3>5, <3>6 DEF L
  <2> QED
    BY <2>1, <2>2
<1> HIDE DEF rest, r, e
<1>4. ASSUME NEW y \in Node, nd.ctl[y] # CtlNone PROVE nd.sending /\ Contains(rest, y)
  BY <1>3, <1>4 DEF Calm
<1>6. PICK b \in BOOLEAN : b = FALSE
  OBVIOUS
<1>7. /\ now \in NodeType /\ now.ctl = nd.ctl /\ now.out = nd.out /\ now.sending = nd.sending
      /\ now.panic = nd.panic /\ now.sent_seqid = nd.sent_seqid /\ now.pending_send = rest
      /\ now.pending_unack = nd.pending_unack
  <2>2. now = [nd EXCEPT !.busy = b, !.pending_send = rest]
    BY <1>6
  <2>3. now \in NodeType
    BY <1>3, <2>2, Zenon DEF NodeType
  <2> HIDE DEF now
  <2> QED
    BY <2>2, <2>3, Zenon DEF NodeType
<1> HIDE DEF now
<1>8. Calm(now)
  BY <1>4, <1>7 DEF Calm
<1>9. CASE live = 0
  <2>1. quiet = [now EXCEPT !.sending = b]
    BY <1>6
  <2>2. /\ quiet.ctl = nd.ctl /\ quiet.out = nd.out /\ quiet.panic = nd.panic
        /\ quiet.sent_seqid = nd.sent_seqid /\ quiet.pending_unack = nd.pending_unack
    BY <1>7, <2>1, Zenon DEF NodeType
  <2> HIDE DEF quiet
  <2>3. \A y \in Node : nd.ctl[y] = CtlNone
    <3>1. \A y : ~Contains(rest, y)
      BY <1>9 DEF Contains, rest
    <3> QED
      BY <1>4, <3>1
  <2>4. CtlNone.ctl = "none"
    BY DEF CtlNone
  <2>5. Quiet(quiet)
    BY <2>2, <2>3, <2>4 DEF Calm, Quiet
  <2> QED
    BY <1>5, <1>9, <2>2, <2>5, QuietCalmly DEF e
<1>10. CASE live # 0 /\ nd.ctl[r] # CtlNone
  <2> DEFINE l == [now.ctl EXCEPT ![r] = CtlNone]
             c == CtlFrame(nd.ctl[r])
  <2>1. l \in [Node -> [ctl : {"none", "ack", "nack", "sync"}, seqid : Nat]]
    BY <1>1, <1>7 DEF CtlNone
  <2>2. \A x \in Node : l[x] = IF x = r THEN CtlNone ELSE nd.ctl[x]
    BY <1>1, <1>7
  <2>3. less = [now EXCEPT !.ctl = l]
    OBVIOUS
  <2>4. r \in Node /\ IsCtl(nd.ctl[r])
    BY <1>3, <1>10
  <2>5. c \in Frame /\ c.type = "ctl" /\ c.ctl = nd.ctl[r].ctl /\ c.seqid = nd.ctl[r].seqid
    BY <2>4, SMT DEF CtlFrame, Frame, IsCtl
  <2>6. e = Transmit(less, r, c)
    BY <1>5, <1>10
  <2> HIDE DEF l, less, c
  <2>7. less \in NodeType
    BY <1>7, <2>1, <2>3, Zenon DEF NodeType
  <2>8. /\ less.ctl = l /\ less.panic = nd.panic /\ less.sent_seqid = nd.sent_seqid
        /\ less.pending_unack = nd.pending_unack /\ less.pending_send = rest
    BY <1>7, <2>3, Zenon DEF NodeType
  <2>9. /\ SameSent(less, e) /\ e.ctl = less.ctl /\ e.pending_send = less.pending_send /\ e.sending
        /\ e.out # <<>> /\ e.out[1].to = r /\ e.out[1].frame = c
    BY <2>4, <2>5, <2>6, <2>7, TransmitIs
  <2>10. /\ e.ctl = l /\ e.panic = nd.panic /\ e.sent_seqid = nd.sent_seqid
         /\ e.pending_unack = nd.pending_unack /\ e.pending_send = rest
    BY <2>8, <2>9, Zenon DEF SameSent, Same
  <2>11. CtlNone.ctl = "none"
    BY DEF CtlNone
  <2>12. Calm(e)
    BY <1>4, <2>2, <2>9, <2>10, <2>11 DEF Calm
  <2>13. Plain(c, nd.sent_seqid[r])
    BY <2>4, <2>5 DEF Calm, Plain
  <2>14. Quiet(e)
    BY <2>9, <2>10, <2>12, <2>13 DEF Quiet
  <2> QED
    BY <2>10, <2>14, QuietCalmly DEF e
<1>11. CASE live # 0 /\ nd.ctl[r] = CtlNone
  <2>1. e = netipc_send_any(now, r)
    BY <1>5, <1>11
  <2>2. Calmly(now, e) /\ e.panic = now.panic
    BY <1>3, <1>7, <1>8, <1>11, <2>1, SendAnyCalm
  <2>3. Calmly(nd, e)
    BY <1>7, <2>2 DEF Calmly, Says
  <2> QED
    BY <1>7, <2>2, <2>3 DEF e
<1> QED
  BY <1>9, <1>10, <1>11

\* netipc_acknowledged.
LEMMA AcknowledgedCalm ==
    ASSUME NEW n \in Node, NEW S, NEW V, NEW nd, Good(n, S, nd), Agrees(nd, S, V), nd.out = <<>>,
           Calm(nd), NEW r \in Node, NEW seqid \in Nat, seqid <= V[r]
    PROVE  LET e == netipc_acknowledged(nd, r, seqid)
           IN  Calmly(nd, e) /\ e.panic = nd.panic
<1>0. nd \in NodeType /\ FieldTypes(nd)
  BY Fields DEF Good
<1> DEFINE slots == [nd.sent_packet[r] EXCEPT ![seqid % WX] = FALSE]
           I == {u \in nd.last_unacked[r] .. nd.sent_seqid[r] + 1 :
                        u = nd.sent_seqid[r] + 1 \/ slots[u % WX]}
           next == Min(I)
           acked == [nd EXCEPT !.sent_packet[r] = slots,
                               !.last_unacked[r] = IF seqid = @ THEN next ELSE @]
           freed == [acked EXCEPT !.packet[r] = Tail(@),
                                  !.first[r] = nd.sent_seqid[r] + 1]
           e == netipc_acknowledged(nd, r, seqid)
           old == seqid < nd.last_unacked[r] \/ ~nd.sent_packet[r][seqid % WX]
<1>1. e = IF old THEN nd
          ELSE IF ~AllAcked(acked, r) THEN netipc_send_any(acked, r)
          ELSE IF freed.packet[r] = <<>> THEN freed
          ELSE netipc_send_any(freed, r)
  BY DEF netipc_acknowledged
<1> HIDE DEF e
<1>2. Quiet(nd)
  BY DEF Quiet
<1>3. CASE old
  <2>1. e = nd
    BY <1>1, <1>3
  <2> QED
    BY <1>2, <2>1, QuietCalmly DEF e
<1>4. CASE ~old
  <2>1. /\ nd.sent_packet \in [Node -> [0 .. WX - 1 -> BOOLEAN]]
        /\ nd.last_unacked \in [Node -> Nat] /\ nd.sent_seqid \in [Node -> Nat]
        /\ nd.first \in [Node -> Nat] /\ nd.packet \in [Node -> Seq(Message)]
    BY <1>0 DEF FieldTypes
  <2> DEFINE s == nd.sent_seqid[r]
             a == nd.last_unacked[r]
             k == [nd.sent_packet EXCEPT ![r] = slots]
             u == [nd.last_unacked EXCEPT ![r] = IF seqid = @ THEN next ELSE @]
             p == [nd.packet EXCEPT ![r] = Tail(@)]
             g == [nd.first EXCEPT ![r] = s + 1]
  <2>2. /\ s \in Nat /\ a \in Nat /\ a <= s + 1 /\ V[r] <= s
        /\ (nd.packet[r] = <<>> => a = s + 1)
    BY <2>1 DEF Good, SendOK, Agrees
  <2>21. V[r] \in Nat
    BY DEF Agrees
  <2>3. nd.packet[r] # <<>>
    <3>1. ~(seqid < a)
      BY <1>4
    <3> HIDE DEF s, a
    <3>2. a # s + 1
      BY <2>2, <2>21, <3>1, SMT
    <3> QED
      BY <2>2, <3>2
  <2>4. slots \in [0 .. WX - 1 -> BOOLEAN]
    BY <2>1
  <2>5. next \in Nat
    <3>1. I \in SUBSET Nat /\ s + 1 \in I
      <4> HIDE DEF slots, s, a
      <4>1. s + 1 \in a .. s + 1 /\ \A x \in a .. s + 1 : x \in Nat
        BY <2>2, SMT
      <4> QED
        BY <4>1 DEF s, a
    <3> HIDE DEF I
    <3> QED
      BY <3>1, MinIs
  <2> HIDE DEF next, slots
  <2>6. k \in [Node -> [0 .. WX - 1 -> BOOLEAN]] /\ u \in [Node -> Nat]
    BY <2>1, <2>4, <2>5
  <2>7. p \in [Node -> Seq(Message)] /\ g \in [Node -> Nat]
    <3>1. Tail(nd.packet[r]) \in Seq(Message)
      BY <2>1, <2>3, TailIs
    <3>2. s + 1 \in Nat
      BY <2>2
    <3> HIDE DEF s
    <3> QED
      BY <2>1, <3>1, <3>2
  <2>8. acked = [nd EXCEPT !.sent_packet = k, !.last_unacked = u]
    OBVIOUS
  <2> HIDE DEF k, u
  <2>9. /\ acked \in NodeType /\ Untouched(nd, acked) /\ acked.panic = nd.panic
        /\ acked.packet = nd.packet /\ acked.first = nd.first
    <3> HIDE DEF acked
    <3>1. acked \in NodeType
      BY <1>0, <2>6, <2>8, Zenon DEF NodeType
    <3> QED
      BY <1>0, <2>8, <3>1, Zenon DEF NodeType, Untouched
  <2>10. freed = [acked EXCEPT !.packet = p, !.first = g]
    BY <2>9
  <2> HIDE DEF p, g, acked
  <2>11. freed \in NodeType /\ Untouched(acked, freed) /\ freed.panic = acked.panic
    <3> HIDE DEF freed
    <3>1. freed \in NodeType
      BY <2>7, <2>9, <2>10, Zenon DEF NodeType
    <3> QED
      BY <2>9, <2>10, <3>1, Zenon DEF NodeType, Untouched
  <2> HIDE DEF freed
  <2>12. Quiet(acked) /\ Quiet(freed)
    BY <1>2, <2>9, <2>11, QuietSame
  <2>13. /\ acked.out = <<>> /\ acked.sent_seqid = nd.sent_seqid
         /\ freed.out = <<>> /\ freed.sent_seqid = nd.sent_seqid
         /\ acked.panic = nd.panic /\ freed.panic = nd.panic
    BY <2>9, <2>11, Zenon DEF Untouched
  <2>14. ASSUME NEW q \in NodeType, Quiet(q), q.out = <<>>, q.sent_seqid = nd.sent_seqid,
                q.panic = nd.panic
         PROVE  LET d == netipc_send_any(q, r) IN Calmly(nd, d) /\ d.panic = nd.panic
    <3> DEFINE d == netipc_send_any(q, r)
    <3>1. Calmly(q, d) /\ d.panic = q.panic
      BY <2>14, SendAnyCalm DEF Quiet
    <3> HIDE DEF d
    <3>2. Calmly(nd, d)
      BY <2>14, <3>1 DEF Calmly, Says
    <3> QED
      BY <2>14, <3>1, <3>2 DEF d
  <2>15. CASE ~AllAcked(acked, r)
    <3>1. e = netipc_send_any(acked, r)
      BY <1>1, <1>4, <2>15
    <3> QED
      BY <2>9, <2>12, <2>13, <2>14, <3>1 DEF e
  <2>16. CASE AllAcked(acked, r) /\ freed.packet[r] = <<>>
    <3>1. e = freed
      BY <1>1, <1>4, <2>16
    <3> QED
      BY <2>12, <2>13, <3>1, QuietCalmly DEF e
  <2>17. CASE AllAcked(acked, r) /\ freed.packet[r] # <<>>
    <3>1. e = netipc_send_any(freed, r)
      BY <1>1, <1>4, <2>17
    <3> QED
      BY <2>11, <2>12, <2>13, <2>14, <3>1 DEF e
  <2> QED
    BY <2>15, <2>16, <2>17
<1> QED
  BY <1>3, <1>4

\* netipc_timeout asks about the packet sent last.
LEMMA TimeoutCalm ==
    ASSUME NEW nd \in NodeType, Calm(nd), nd.out = <<>>
    PROVE  LET e == netipc_timeout(nd)
           IN  Calmly(nd, e) /\ e.panic = nd.panic
<1>0. FieldTypes(nd)
  BY Fields
<1>1. nd.pending_timeout \in Seq(Node) /\ nd.timer \in [Node -> 0..2] /\ nd.sent_seqid \in [Node -> Nat]
  BY <1>0 DEF FieldTypes
<1> DEFINE sync == {r \in Node : nd.timer[r] = 2 /\ nd.sent_packet[r][nd.sent_seqid[r] % WX]}
           kept == Sublist(nd.pending_timeout, sync \cup {r \in Node : nd.timer[r] = 1})
           t == [r \in Node |-> IF Contains(kept, r) THEN 2
                                ELSE IF Contains(nd.pending_timeout, r) THEN 0 ELSE nd.timer[r]]
           q == [nd EXCEPT !.pending_timeout = kept, !.timer = t]
           c == [r \in Node |-> Ctl("sync", Oldest(nd, r))]
           e == SendCtls(q, Sublist(kept, sync), c)
<1>2. netipc_timeout(nd) = e
  BY <1>1 DEF netipc_timeout
<1> HIDE DEF sync
<1>3. kept \in Seq(Node)
  BY <1>1, SublistMembers
<1> HIDE DEF kept
<1>4. Sublist(kept, sync) \in Seq(Node)
  BY <1>3, SublistMembers
<1>5. t \in [Node -> 0..2]
  <2>1. 0 \in 0..2 /\ 2 \in 0..2
    BY SMT
  <2> QED
    BY <1>1, <2>1
<1> HIDE DEF t
<1>6. q \in NodeType
  BY <1>3, <1>5, Zenon DEF NodeType
<1>7. Untouched(nd, q) /\ q.panic = nd.panic
  BY Zenon DEF NodeType, Untouched
<1> HIDE DEF q
<1>8. Quiet(q)
  BY <1>7, QuietSame DEF Quiet
<1>9. ASSUME NEW r \in Node
      PROVE  IsCtl(c[r]) /\ c[r].ctl # "nack" /\ (c[r].ctl = "sync" => c[r].seqid = q.sent_seqid[r])
  <2>1. c[r] = [ctl |-> "sync", seqid |-> nd.sent_seqid[r]]
    BY DEF Ctl, Oldest
  <2>2. nd.sent_seqid[r] \in Nat /\ q.sent_seqid[r] = nd.sent_seqid[r]
    BY <1>1, <1>7 DEF Untouched
  <2> HIDE DEF c
  <2> QED
    BY <2>1, <2>2 DEF IsCtl
<1> HIDE DEF c
<1>10. Quiet(e) /\ SameSent(q, e)
  BY <1>4, <1>6, <1>8, <1>9, SendCtlsQuiet
<1> HIDE DEF e
<1>11. e.sent_seqid = nd.sent_seqid /\ e.panic = nd.panic
  BY <1>7, <1>10, Zenon DEF SameSent, Same, Untouched
<1> QED
  BY <1>2, <1>10, <1>11, QuietCalmly DEF e

\* netipc_page_put finds nobody to ask again.
LEMMA PutPageCalm ==
    ASSUME NEW nd \in NodeType, Calm(nd), nd.out = <<>>
    PROVE  LET e == PutPage(nd)
           IN  Calmly(nd, e) /\ e.panic = nd.panic
<1> DEFINE p == nd.pending_unack
           I == {i \in 1 .. Len(p) : p[i] = NodeZero}
           zero == IF I # {} THEN Min(I) ELSE 0
           told == IF zero = 0 THEN p ELSE SubSeq(p, 1, zero - 1)
           left == IF zero = 0 THEN <<>> ELSE SubSeq(p, zero, Len(p))
           more == [nd EXCEPT !.pages = @ + 1]
           q == [nd EXCEPT !.self_stopped = FALSE, !.pending_unack = left]
           c == [r \in Node |-> Ctl("nack", nd.rcvd_seqid[r])]
           e == PutPage(nd)
<1>1. e = IF ~nd.self_stopped THEN more ELSE SendCtls(q, told, c)
  BY DEF PutPage, SelectInSeq
<1> HIDE DEF e
<1>2. told = <<>> /\ left = <<>>
  <2>1. p = <<>> /\ 1 .. 0 = {}
    BY SMT DEF Calm
  <2>2. I = {}
    BY <2>1
  <2> HIDE DEF p, I
  <2> QED
    BY <2>1, <2>2
<1> HIDE DEF told, left
<1>3. Untouched(nd, more) /\ more.panic = nd.panic
  <2> DEFINE k == nd.pages + 1
  <2>1. more = [nd EXCEPT !.pages = k]
    OBVIOUS
  <2> HIDE DEF k, more
  <2> QED
    BY <2>1, Zenon DEF NodeType, Untouched
<1>4. Untouched(nd, q) /\ q.panic = nd.panic
  <2>1. nd.pending_unack = left
    BY <1>2 DEF Calm
  <2>2. PICK b \in BOOLEAN : b = FALSE
    OBVIOUS
  <2>3. q = [nd EXCEPT !.self_stopped = b, !.pending_unack = left]
    BY <2>2
  <2> HIDE DEF q
  <2> QED
    BY <2>1, <2>3, Zenon DEF NodeType, Untouched
<1>5. SendCtls(q, told, c) = q
  <2> HIDE DEF q, c
  <2> DEFINE D == {q}
  <2>1. q \in D /\ told \in Seq(Node) /\ Len(told) = 0
    BY <1>2
  <2>2. \A i \in 1 .. Len(told) : \A x \in D : netipc_send_ctl(x, told[i], c[told[i]]) \in D
    BY <2>1, SMT
  <2>3. SendCtls(q, told, c) \in D
    <3> HIDE DEF D
    <3> QED
      BY <2>1, <2>2, SendCtlsIn
  <2> QED
    BY <2>3
<1>6. Untouched(nd, e) /\ e.panic = nd.panic
  <2> HIDE DEF more, q
  <2> QED
    BY <1>1, <1>3, <1>4, <1>5
<1>7. Quiet(nd)
  BY DEF Quiet
<1>8. Quiet(e) /\ e.sent_seqid = nd.sent_seqid
  BY <1>6, <1>7, QuietSame DEF Untouched
<1> QED
  BY <1>6, <1>8, QuietCalmly DEF e

\* netipc_recv_intr on a control frame that is not a nack: what is asked about
\* has arrived.
LEMMA RecvCtlCalm ==
    ASSUME NEW n \in Node, NEW S, NEW V, NEW nd, Good(n, S, nd), Agrees(nd, S, V), nd.out = <<>>,
           Calm(nd), NEW r \in Node, NEW f, Heard(nd, r, S, V, f), Plain(f, nd.rcvd_seqid[r])
    PROVE  LET e == RecvCtl(nd, r, f)
           IN  Calmly(nd, e) /\ e.panic = nd.panic
<1> DEFINE e == RecvCtl(nd, r, f)
<1>1. f.seqid \in Nat /\ f.ctl \in {"ack", "sync"} /\ nd \in NodeType
  BY DEF Heard, Frame, Plain, Good
<1>2. Quiet(nd)
  BY DEF Quiet
<1>3. CASE f.ctl = "sync"
  <2>1. Arrived(nd, r, f.seqid)
    BY <1>3 DEF Plain, Arrived
  <2> DEFINE c == Ctl("ack", f.seqid)
  <2>2. e = netipc_send_ctl(nd, r, c)
    <3>1. ~Contains(nd.pending_unack, r)
      <4>1. nd.pending_unack = <<>>
        BY DEF Calm
      <4>2. 1 .. Len(nd.pending_unack) = {}
        BY <4>1, SMT
      <4> QED
        BY <4>2 DEF Contains
    <3> QED
      BY <1>3, <2>1, <3>1 DEF RecvCtl
  <2>3. IsCtl(c) /\ c.ctl # "nack" /\ c.ctl # "sync"
    BY <1>1 DEF IsCtl, Ctl
  <2> HIDE DEF c, e
  <2>4. Quiet(e) /\ SameSent(nd, e)
    BY <1>1, <1>2, <2>2, <2>3, SendCtlQuiet
  <2>5. e.sent_seqid = nd.sent_seqid /\ e.panic = nd.panic
    BY <2>4, Zenon DEF SameSent, Same
  <2> QED
    BY <2>4, <2>5, QuietCalmly DEF e
<1>4. CASE f.ctl = "ack"
  <2>1. e = netipc_acknowledged(nd, r, f.seqid)
    BY <1>4 DEF RecvCtl
  <2>2. f.seqid <= V[r]
    BY <1>4 DEF Heard
  <2> QED
    BY <1>1, <2>1, <2>2, AcknowledgedCalm
<1> QED
  BY <1>1, <1>3, <1>4

\* netipc_recv_intr on data that is taken.
LEMMA RecvDataCalm ==
    ASSUME NEW nd \in NodeType, Calm(nd), nd.out = <<>>, NEW r \in Node, NEW f \in Frame,
           NEW e, Answered(nd, r, f, e), f.seqid >= nd.rcvd_seqid[r], ~nd.self_stopped
    PROVE  Calmly(nd, e)
<1> DEFINE v == [nd.rcvd_seqid EXCEPT ![r] = f.seqid]
           seen == [nd EXCEPT !.rcvd_seqid[r] = f.seqid]
           c == Ctl("ack", f.seqid)
           a == netipc_send_ctl(seen, r, c)
<1>1. f.seqid \in Nat
  BY DEF Frame
<1>2. seen = [nd EXCEPT !.rcvd_seqid = v]
  OBVIOUS
<1>3. v \in [Node -> Nat]
  BY <1>1, Fields DEF FieldTypes
<1>4. Untouched(a, e)
  BY DEF Answered
<1>5. IsCtl(c) /\ c.ctl # "nack" /\ c.ctl # "sync"
  BY <1>1 DEF IsCtl, Ctl
<1> HIDE DEF v, seen, c, a
<1>6. seen \in NodeType
  BY <1>2, <1>3, Zenon DEF NodeType
<1>7. Untouched(nd, seen)
  BY <1>2, Zenon DEF NodeType, Untouched
<1>8. Quiet(seen)
  BY <1>7, QuietSame DEF Quiet
<1>9. Quiet(a) /\ SameSent(seen, a)
  BY <1>5, <1>6, <1>8, SendCtlQuiet DEF a
<1>10. Quiet(e)
  BY <1>4, <1>9, QuietSame
<1>11. e.sent_seqid = nd.sent_seqid
  BY <1>4, <1>7, <1>9, Zenon DEF Untouched, SameSent
<1> QED
  BY <1>10, <1>11, QuietCalmly

-----------------------------------------------------------------------------
(* The wire between two nodes. *)

\* What is on its way in w from a node that has sent up to s to one that has
\* seen up to v: the packet not seen, if there is one, and questions, which
\* are about that packet if they come behind it.
Flows(w, s, v) ==
    /\ \A i \in 1 .. Len(w) :
          /\ w[i].type = "data" => w[i].seqid = v + 1
          /\ w[i].type = "ctl" => Plain(w[i], v) \/ Plain(w[i], v + 1)
          /\ w[i].type = "ctl" /\ ~Plain(w[i], v) => \E j \in 1 .. i : w[j].type = "data"
          /\ w[i].type = "ctl" /\ ~Plain(w[i], v + 1) => \A j \in 1 .. i : w[j].type # "data"
    /\ \A i, j \in 1 .. Len(w) : w[i].type = "data" /\ w[j].type = "data" => i = j
    /\ s # v <=> \E i \in 1 .. Len(w) : w[i].type = "data"

\* A control frame is taken from it,
LEMMA FlowsCtl ==
    ASSUME NEW w \in Seq(Frame), w # <<>>, NEW s, NEW v, Flows(w, s, v), Head(w).type = "ctl"
    PROVE  Plain(Head(w), v) /\ Flows(Tail(w), s, v)
<1> DEFINE t == Tail(w)
<1>1. /\ Len(w) \in Nat /\ Len(w) >= 1 /\ Head(w) = w[1]
      /\ t \in Seq(Frame) /\ Len(t) = Len(w) - 1
      /\ \A i \in 1 .. Len(w) - 1 : t[i] = w[i + 1]
  BY TailIs
<1> HIDE DEF t
<1>2. w[1].type = "ctl" /\ 1 \in 1 .. Len(w)
  BY <1>1, SMT
<1>3. Plain(w[1], v)
  <2>1. \A j \in 1 .. 1 : j = 1
    BY SMT
  <2> QED
    BY <1>2, <2>1 DEF Flows
<1>4. \A i \in 1 .. Len(w) : w[i].type = "data" => i - 1 \in 1 .. Len(t) /\ t[i - 1] = w[i]
  <2> SUFFICES ASSUME NEW i \in 1 .. Len(w), w[i].type = "data"
               PROVE  i - 1 \in 1 .. Len(t) /\ t[i - 1] = w[i]
    OBVIOUS
  <2>1. i # 1
    BY <1>2
  <2>2. i - 1 \in 1 .. Len(w) - 1 /\ (i - 1) + 1 = i
    BY <1>1, <2>1, SMT
  <2> QED
    BY <1>1, <2>2
<1>5. ASSUME NEW i \in 1 .. Len(t)
      PROVE  /\ i + 1 \in 1 .. Len(w) /\ t[i] = w[i + 1]
             /\ (\E j \in 1 .. i + 1 : w[j].type = "data") => \E j \in 1 .. i : t[j].type = "data"
             /\ (\A j \in 1 .. i + 1 : w[j].type # "data") => \A j \in 1 .. i : t[j].type # "data"
  <2>1. i + 1 \in 1 .. Len(w) /\ t[i] = w[i + 1]
    BY <1>1, SMT
  <2>2. ASSUME NEW j \in 1 .. i + 1, w[j].type = "data" PROVE \E j_1 \in 1 .. i : t[j_1].type = "data"
    <3>1. j \in 1 .. Len(w)
      BY <1>1, SMT
    <3>2. j - 1 \in 1 .. Len(t) /\ t[j - 1] = w[j]
      BY <1>4, <2>2, <3>1
    <3>3. j - 1 \in 1 .. i
      BY <1>1, <3>2, SMT
    <3> QED
      BY <2>2, <3>2, <3>3
  <2>3. ASSUME \A j \in 1 .. i + 1 : w[j].type # "data", NEW j \in 1 .. i PROVE t[j].type # "data"
    <3>1. j + 1 \in 1 .. i + 1 /\ j \in 1 .. Len(w) - 1
      BY <1>1, SMT
    <3> QED
      BY <1>1, <2>3, <3>1
  <2> QED
    BY <2>1, <2>2, <2>3
<1>6. ASSUME NEW i \in 1 .. Len(t)
      PROVE  /\ t[i].type = "data" => t[i].seqid = v + 1
             /\ t[i].type = "ctl" => Plain(t[i], v) \/ Plain(t[i], v + 1)
             /\ t[i].type = "ctl" /\ ~Plain(t[i], v) => \E j \in 1 .. i : t[j].type = "data"
             /\ t[i].type = "ctl" /\ ~Plain(t[i], v + 1) => \A j \in 1 .. i : t[j].type # "data"
  BY <1>5 DEF Flows
<1>7. ASSUME NEW i \in 1 .. Len(t), NEW j \in 1 .. Len(t), t[i].type = "data", t[j].type = "data"
      PROVE  i = j
  <2>1. i + 1 = j + 1
    BY <1>5, <1>7 DEF Flows
  <2> QED
    BY <1>1, <2>1, SMT
<1>8. s # v <=> \E i \in 1 .. Len(t) : t[i].type = "data"
  <2>1. s # v <=> \E i \in 1 .. Len(w) : w[i].type = "data"
    BY DEF Flows
  <2>2. ASSUME NEW i \in 1 .. Len(w), w[i].type = "data"
        PROVE  \E j \in 1 .. Len(t) : t[j].type = "data"
    BY <1>4, <2>2
  <2>3. ASSUME NEW i \in 1 .. Len(t), t[i].type = "data"
        PROVE  \E j \in 1 .. Len(w) : w[j].type = "data"
    BY <1>5, <2>3
  <2> QED
    BY <2>1, <2>2, <2>3
<1> QED
  BY <1>1, <1>3, <1>6, <1>7, <1>8 DEF Flows, t

\* or the data,
LEMMA FlowsData ==
    ASSUME NEW w \in Seq(Frame), w # <<>>, NEW s \in Nat, NEW v \in Nat, Flows(w, s, v),
           Head(w).type = "data", v + 1 <= s, s <= v + 1
    PROVE  Head(w).seqid = v + 1 /\ Flows(Tail(w), s, v + 1)
<1> DEFINE t == Tail(w)
<1>1. /\ Len(w) \in Nat /\ Len(w) >= 1 /\ Head(w) = w[1]
      /\ t \in Seq(Frame) /\ Len(t) = Len(w) - 1
      /\ \A i \in 1 .. Len(w) - 1 : t[i] = w[i + 1]
  BY TailIs
<1> HIDE DEF t
<1>2. w[1].type = "data" /\ 1 \in 1 .. Len(w)
  BY <1>1, SMT
<1>3. w[1].seqid = v + 1
  BY <1>2 DEF Flows
<1>4. ASSUME NEW i \in 1 .. Len(t)
      PROVE  t[i].type # "data" /\ (t[i].type = "ctl" => Plain(t[i], v + 1))
  <2>1. i + 1 \in 1 .. Len(w) /\ t[i] = w[i + 1] /\ i + 1 # 1 /\ 1 \in 1 .. i + 1
    BY <1>1, SMT
  <2>2. w[i + 1].type # "data"
    BY <1>2, <2>1 DEF Flows
  <2>3. t[i].type = "ctl" => Plain(w[i + 1], v + 1)
    BY <1>2, <2>1 DEF Flows
  <2> QED
    BY <2>1, <2>2, <2>3
<1>5. s = v + 1
  BY SMT
<1>6. Flows(t, s, v + 1)
  <2>1. \A i \in 1 .. Len(t) : \A j \in 1 .. i : j \in 1 .. Len(t)
    BY <1>1, SMT
  <2> QED
    BY <1>4, <1>5, <2>1 DEF Flows
<1> QED
  BY <1>1, <1>3, <1>6 DEF t

\* A frame is added to what is on its way: the next packet, or no data.
LEMMA FlowsMore ==
    ASSUME NEW w \in Seq(Frame), NEW s \in Nat, NEW t \in Nat, NEW v \in Nat, Flows(w, s, v),
           v <= s, t <= v + 1, NEW f \in Frame,
           \/ t = s /\ Plain(f, s)
           \/ t = s + 1 /\ f.type = "data" /\ f.seqid = s + 1
    PROVE  Flows(Append(w, f), t, v)
<1> DEFINE a == Append(w, f)
           k == Len(w) + 1
<1>1. /\ a \in Seq(Frame) /\ Len(w) \in Nat /\ Len(a) = Len(w) + 1 /\ a[Len(w) + 1] = f
      /\ \A i \in 1 .. Len(w) : a[i] = w[i]
  BY Appended, LenNat
<1> HIDE DEF a
<1>2. \A i \in 1 .. Len(a) : i \in 1 .. Len(w) \/ i = k
  BY <1>1, SMT
<1>3. /\ k \in 1 .. Len(a) /\ a[k] = f /\ k \in 1 .. k /\ k \notin 1 .. Len(w)
      /\ \A i \in 1 .. Len(w) : i \in 1 .. Len(a) /\ i \in 1 .. k
      /\ \A i \in 1 .. Len(w) : \A j \in 1 .. i : j \in 1 .. Len(w)
      /\ \A j \in 1 .. k : j \in 1 .. Len(w) \/ j = k
  BY <1>1, SMT
<1> HIDE DEF k
<1>4. ASSUME NEW i \in 1 .. Len(w)
      PROVE  /\ a[i].type = "data" => a[i].seqid = v + 1
             /\ a[i].type = "ctl" => Plain(a[i], v) \/ Plain(a[i], v + 1)
             /\ a[i].type = "ctl" /\ ~Plain(a[i], v) => \E j \in 1 .. i : a[j].type = "data"
             /\ a[i].type = "ctl" /\ ~Plain(a[i], v + 1) => \A j \in 1 .. i : a[j].type # "data"
  <2>1. a[i] = w[i] /\ \A j \in 1 .. i : a[j] = w[j]
    BY <1>1, <1>3
  <2> QED
    BY <2>1 DEF Flows
<1>5. CASE t = s /\ Plain(f, s)
  <2>1. f.type = "ctl" /\ f.type # "data"
    BY <1>5 DEF Plain
  <2>2. \A j \in 1 .. Len(a) : a[j].type = "data" => j \in 1 .. Len(w) /\ w[j].type = "data"
    BY <1>1, <1>2, <1>3, <2>1
  <2>3. s = v \/ s = v + 1
    BY <1>5, SMT
  <2>4. s = v => \A j \in 1 .. k : a[j].type # "data"
    <3>1. s = v => \A j \in 1 .. Len(w) : w[j].type # "data"
      BY DEF Flows
    <3> QED
      BY <1>1, <1>3, <2>1, <3>1
  <2>5. s # v => \E j \in 1 .. k : a[j].type = "data"
    <3>1. s # v => \E j \in 1 .. Len(w) : w[j].type = "data"
      BY DEF Flows
    <3> QED
      BY <1>1, <1>3, <3>1
  <2>6. /\ a[k].type = "data" => a[k].seqid = v + 1
        /\ a[k].type = "ctl" => Plain(a[k], v) \/ Plain(a[k], v + 1)
        /\ a[k].type = "ctl" /\ ~Plain(a[k], v) => \E j \in 1 .. k : a[j].type = "data"
        /\ a[k].type = "ctl" /\ ~Plain(a[k], v + 1) => \A j \in 1 .. k : a[j].type # "data"
    BY <1>3, <1>5, <2>1, <2>3, <2>4, <2>5
  <2>7. t # v <=> \E i \in 1 .. Len(a) : a[i].type = "data"
    BY <1>1, <1>3, <1>5, <2>2 DEF Flows
  <2>8. \A i, j \in 1 .. Len(a) : a[i].type = "data" /\ a[j].type = "data" => i = j
    BY <2>2 DEF Flows
  <2>9. \A i \in 1 .. Len(a) :
          /\ a[i].type = "data" => a[i].seqid = v + 1
          /\ a[i].type = "ctl" => Plain(a[i], v) \/ Plain(a[i], v + 1)
          /\ a[i].type = "ctl" /\ ~Plain(a[i], v) => \E j \in 1 .. i : a[j].type = "data"
          /\ a[i].type = "ctl" /\ ~Plain(a[i], v + 1) => \A j \in 1 .. i : a[j].type # "data"
    BY <1>2, <1>4, <2>6, Zenon
  <2> QED
    BY <2>7, <2>8, <2>9 DEF Flows, a
<1>6. CASE t = s + 1 /\ f.type = "data" /\ f.seqid = s + 1
  <2>1. s = v /\ t # v
    BY <1>6, SMT
  <2>2. \A j \in 1 .. Len(w) : w[j].type # "data"
    BY <2>1 DEF Flows
  <2>3. \A j \in 1 .. Len(a) : a[j].type = "data" => j = k
    BY <1>1, <1>2, <2>2
  <2>4. f.type # "ctl"
    BY <1>6
  <2>5. \A i \in 1 .. Len(a) :
          /\ a[i].type = "data" => a[i].seqid = v + 1
          /\ a[i].type = "ctl" => Plain(a[i], v) \/ Plain(a[i], v + 1)
          /\ a[i].type = "ctl" /\ ~Plain(a[i], v) => \E j \in 1 .. i : a[j].type = "data"
          /\ a[i].type = "ctl" /\ ~Plain(a[i], v + 1) => \A j \in 1 .. i : a[j].type # "data"
    BY <1>2, <1>3, <1>4, <1>6, <2>1, <2>4
  <2>6. \E i \in 1 .. Len(a) : a[i].type = "data"
    BY <1>3, <1>6
  <2> QED
    BY <2>1, <2>3, <2>5, <2>6 DEF Flows, a
<1> QED
  BY <1>5, <1>6

-----------------------------------------------------------------------------
\* Two nodes and the wire from one to the other, w, in order.
Linked(a, b, N, w) == Flows(w, N[a].sent_seqid[b], N[b].rcvd_seqid[a])

AllCalm ==
    lost = 0 /\ refused = 0 =>
        \A n \in Node : /\ Calm(node[n]) /\ Up(n)
                        /\ \A r \in Node : Linked(n, r, node, wire[n][r])

\* One wire changes.
LEMMA WireIs ==
    ASSUME NEW W \in Wires, NEW n \in Node, NEW r \in Node, NEW l, NEW X, X = [W EXCEPT ![n][r] = l]
    PROVE  /\ X[n][r] = l
           /\ \A x, y \in Node : ~(x = n /\ y = r) => X[x][y] = W[x][y]
<1> DEFINE u == [W[n] EXCEPT ![r] = l]
<1>1. u[r] = l /\ \A y \in Node : y # r => u[y] = W[n][y]
  BY DEF Wires
<1> HIDE DEF u
<1>2. X = [W EXCEPT ![n] = u]
  BY DEF u
<1>3. X[n] = u /\ \A x \in Node : x # n => X[x] = W[x]
  BY <1>2 DEF Wires
<1>4. ASSUME NEW x \in Node, NEW y \in Node, ~(x = n /\ y = r) PROVE X[x][y] = W[x][y]
  <2>1. CASE x = n
    BY <1>1, <1>3, <1>4, <2>1
  <2>2. CASE x # n
    BY <1>3, <2>2
  <2> QED
    BY <2>1, <2>2
<1> QED
  BY <1>1, <1>3, <1>4

\* A routine that goes calmly leaves all nodes calm, if its taking a frame did.
LEMMA MovesCalm ==
    ASSUME Inv, NEW n \in Node, NEW e \in NodeType, NEW w, Moves(n, e, w),
           Calmly(node[n], e), ~e.panic, \A a \in Node : Calm(node[a]) /\ Up(a),
           \A a, b \in Node : Flows(w[a][b], node[a].sent_seqid[b], node'[b].rcvd_seqid[a])
    PROVE  \A a \in Node : /\ Calm(node'[a]) /\ ~node'[a].panic
                           /\ \A b \in Node : Linked(a, b, node', wire'[a][b])
<1>1. /\ node \in [Node -> NodeType] /\ Fits(node, wire) /\ w \in Wires
      /\ node' \in [Node -> NodeType] /\ Fits(node', wire')
  BY MovesFit DEF Inv, TypeOK, Moves
<1> DEFINE d == [e EXCEPT !.out = <<>>]
<1>2. /\ node' = [node EXCEPT ![n] = d]
      /\ wire' = IF e.out = <<>> THEN w
                 ELSE [w EXCEPT ![n][e.out[1].to] = Append(@, e.out[1].frame)]
  BY DEF Moves, Becomes
<1>3. /\ d.ctl = e.ctl /\ d.pending_unack = e.pending_unack /\ d.pending_send = e.pending_send
      /\ d.sent_seqid = e.sent_seqid /\ d.panic = e.panic /\ d.rcvd_seqid = e.rcvd_seqid
      /\ d.sending = e.sending
  BY Zenon DEF NodeType
<1> HIDE DEF d
<1>4. node'[n] = d /\ \A x \in Node : x # n => node'[x] = node[x]
  BY <1>1, <1>2
<1>5. ASSUME NEW a \in Node PROVE Calm(node'[a]) /\ ~node'[a].panic
  <2>1. CASE a = n
    BY <1>3, <1>4, <2>1 DEF Calmly, Calm
  <2>2. CASE a # n
    BY <1>4, <2>2 DEF Up
  <2> QED
    BY <2>1, <2>2
<1>6. ASSUME NEW a \in Node, NEW b \in Node PROVE Linked(a, b, node', wire'[a][b])
  <2> DEFINE s == node[a].sent_seqid[b]
             t == node'[a].sent_seqid[b]
             v == node'[b].rcvd_seqid[a]
             l == w[a][b]
  <2>1. s \in Nat /\ t \in Nat /\ v \in Nat /\ l \in Seq(Frame) /\ Flows(l, s, v)
    <3>1. FieldTypes(node[a]) /\ FieldTypes(node'[a]) /\ FieldTypes(node'[b])
      BY <1>1, Fields
    <3>2. s \in Nat /\ t \in Nat /\ v \in Nat
      BY <3>1 DEF FieldTypes
    <3>3. l \in Seq(Frame)
      BY <1>1 DEF Wires
    <3> QED
      BY <3>2, <3>3
  <2>2. t <= v + 1
    <3>1. t <= node'[a].last_unacked[b] /\ node'[a].last_unacked[b] <= v + 1
      BY <1>1 DEF Fits, Good, SendOK
    <3>2. node'[a].last_unacked[b] \in Nat
      BY <1>1, Fields DEF FieldTypes
    <3> HIDE DEF t, v
    <3> QED
      BY <2>1, <3>1, <3>2, SMT
  <2>3. v <= s
    <3>1. CASE b = n
      BY <1>3, <1>4, <3>1 DEF Moves, Step, Sent
    <3>2. CASE b # n
      BY <1>1, <1>4, <3>2 DEF Fits
    <3> QED
      BY <3>1, <3>2
  <2>4. CASE a = n /\ e.out # <<>> /\ e.out[1].to = b
    <3> DEFINE f == e.out[1].frame
    <3>1. f \in Frame
      <4>1. e.out \in Seq([to : Node, frame : Frame])
        BY Fields DEF FieldTypes
      <4>2. 1 \in 1 .. Len(e.out)
        BY <2>4, <4>1, SMT
      <4>3. e.out[1] \in [to : Node, frame : Frame]
        BY <4>1, <4>2, ElementIs
      <4> QED
        BY <4>3
    <3> DEFINE k == Append(l, f)
    <3>2. wire'[a][b] = k
      <4>1. wire' = [w EXCEPT ![a][b] = k]
        BY <1>2, <2>4
      <4> HIDE DEF f, k
      <4> DEFINE u == [w[a] EXCEPT ![b] = k]
      <4>2. u[b] = k
        BY <1>1 DEF Wires
      <4>3. wire' = [w EXCEPT ![a] = u]
        BY <4>1
      <4> HIDE DEF u
      <4>4. wire'[a] = u
        BY <1>1, <4>3 DEF Wires
      <4> QED
        BY <4>2, <4>4
    <3>3. \/ t = s /\ Plain(f, s)
          \/ t = s + 1 /\ f.type = "data" /\ f.seqid = s + 1
      BY <1>3, <1>4, <2>4 DEF Calmly, Says
    <3> HIDE DEF f, s, t, v, l
    <3>4. Flows(Append(l, f), t, v)
      BY <2>1, <2>2, <2>3, <3>1, <3>3, FlowsMore
    <3> QED
      BY <3>2, <3>4 DEF Linked, t, v
  <2>5. CASE ~(a = n /\ e.out # <<>> /\ e.out[1].to = b)
    <3>1. wire'[a][b] = l
      <4>1. CASE e.out = <<>>
        BY <1>2, <4>1
      <4>2. CASE e.out # <<>>
        <5>1. e.out[1].to \in Node
          <6>1. e.out \in Seq([to : Node, frame : Frame])
            BY Fields DEF FieldTypes
          <6>2. 1 \in 1 .. Len(e.out)
            BY <4>2, <6>1, SMT
          <6>3. e.out[1] \in [to : Node, frame : Frame]
            BY <6>1, <6>2, ElementIs
          <6> QED
            BY <6>3
        <5> DEFINE x == e.out[1].to
                   k == Append(w[n][x], e.out[1].frame)
        <5>2. wire' = [w EXCEPT ![n][x] = k] /\ x \in Node /\ ~(a = n /\ b = x)
          BY <1>2, <2>5, <4>2, <5>1
        <5> HIDE DEF x, k
        <5> QED
          BY <1>1, <5>2, WireIs
      <4> QED
        BY <4>1, <4>2
    <3>2. t = s
      <4>1. CASE a = n
        <5>1. e.sent_seqid[b] = s
          BY <2>5, <4>1 DEF Calmly, Says
        <5> QED
          BY <1>3, <1>4, <4>1, <5>1
      <4>2. CASE a # n
        BY <1>4, <4>2
      <4> QED
        BY <4>1, <4>2
    <3> QED
      BY <2>1, <3>1, <3>2 DEF Linked
  <2> QED
    BY <2>4, <2>5
<1> QED
  BY <1>5, <1>6

\* The next packet brings a page only of a message that is being put together.
LEMMA PageExpected ==
    ASSUME NEW n \in Node, NEW r \in Node, NEW s \in NodeType, NEW q \in NodeType, NEW e,
           SendOK(r, s, n), s.last_unacked[n] <= q.rcvd_seqid[r] + 1, SeenOK(r, n, s, q),
           NEW S, NEW g, Brought(r, S, g), g.seqid <= s.sent_seqid[n], Known(s, n, g),
           g.seqid = q.rcvd_seqid[r] + 1, Took(q, r, g, e)
    PROVE  e.panic = q.panic
<1> DEFINE v == q.rcvd_seqid[r]
           a == s.first[n]
           u == s.last_unacked[n]
           t == s.sent_seqid[n]
<1>1. v \in Nat /\ u \in Nat /\ t \in Nat /\ a \in Nat
  BY Fields DEF FieldTypes
<1>2. t <= u /\ u <= t + 1 /\ u <= v + 1 /\ v + 1 <= t
  BY DEF SendOK
<1>3. s.packet[n] # <<>>
  <2>1. s.packet[n] = <<>> => u = t + 1
    BY DEF SendOK
  <2> HIDE DEF v, u, t
  <2> QED
    BY <1>1, <1>2, <2>1, SMT
<1> DEFINE m == Head(s.packet[n])
           L == Len(m.shape)
<1>4. L \in Nat /\ LastSeqid(s, n) = a + L /\ a <= u /\ u <= a + L
  BY <1>3, LastSeqidIs DEF SendOK
<1>5. a <= v + 1
  <2> HIDE DEF a, u, v, L
  <2> QED
    BY <1>1, <1>2, <1>4, SMT
<1>6. g.part = (v + 1) - a
  BY <1>3, <1>5 DEF Known
<1>7. CASE g.part = 0
  BY <1>7 DEF Took, TookKmsg
<1>8. CASE g.part # 0
  <2>1. a <= v /\ v - a # L
    <3> HIDE DEF a, u, v, t, L
    <3> QED
      BY <1>1, <1>2, <1>4, <1>5, <1>6, <1>8, SMT
  <2>2. Assembling(q, r, m, v - a)
    BY <1>3, <2>1 DEF SeenOK
  <2>3. Latest(q.incomplete, r) # 0
    BY <2>2 DEF Assembling
  <2> QED
    BY <1>8, <2>3 DEF Took, TookPage
<1> QED
  BY <1>7, <1>8

\* Taking data leaves all calm, unless it is discarded.
LEMMA TakeCalm ==
    ASSUME Inv, lost = 0, refused = 0, AllCalm, AllArrives, NEW n \in Node, NEW r \in Node,
           wire[r][n] # <<>>, Head(wire[r][n]).type = "data", NEW here \in BOOLEAN,
           Takes(n, r, Head(wire[r][n]), here), ~Discards(node[n], r, Head(wire[r][n]), here)
    PROVE  \A a \in Node : /\ Calm(node'[a]) /\ ~node'[a].panic
                           /\ \A b \in Node : Linked(a, b, node', wire'[a][b])
<1>1. node \in [Node -> NodeType] /\ wire \in Wires /\ Fits(node, wire) /\ node[n].out = <<>>
  BY DEF Inv, TypeOK, Wires, Fits
<1> DEFINE g == Head(wire[r][n])
           w == [wire EXCEPT ![r][n] = Tail(@)]
           q == node[n]
           s == node[r]
           v == q.rcvd_seqid[r]
<1>2. PICK e \in NodeType : Moves(n, e, w) /\ Saw(q, r, g, here, e) /\ Answered(q, r, g, e)
  BY DEF Takes
<1>3. /\ g \in Frame /\ g.seqid <= s.sent_seqid[n] /\ Known(s, n, g)
      /\ Brought(r, Sent(node, n), g)
  <2>1. g \in Frame /\ 1 \in 1 .. Len(wire[r][n]) /\ g = wire[r][n][1]
    BY <1>1, FramesLess
  <2>2. FrameOK(s, n, node[n].sent_seqid[r], g)
    BY <1>1, <2>1 DEF Fits
  <2> QED
    BY <2>1, <2>2 DEF FrameOK, DataOK, Brought, Sent
<1>4. /\ v \in Nat /\ s.sent_seqid[n] \in Nat /\ s.last_unacked[n] \in Nat
      /\ s \in NodeType /\ q \in NodeType
  BY <1>1, Fields DEF FieldTypes
<1>5. /\ s.sent_seqid[n] <= s.last_unacked[n] /\ s.last_unacked[n] <= v + 1
      /\ v <= s.sent_seqid[n] /\ SendOK(r, s, n)
  <2>1. Good(r, Sent(node, r), node[r]) /\ s.last_unacked[n] <= v + 1 /\ v <= s.sent_seqid[n]
    BY <1>1 DEF Fits
  <2>2. SendOK(r, s, n)
    BY <2>1 DEF Good
  <2> QED
    BY <2>1, <2>2 DEF SendOK
<1>6. /\ Linked(r, n, node, wire[r][n]) /\ wire[r][n] \in Seq(Frame)
      /\ \A a \in Node : Calm(node[a]) /\ Up(a)
  BY <1>1 DEF AllCalm, Wires
<1>7. g.seqid = v + 1 /\ Flows(Tail(wire[r][n]), s.sent_seqid[n], v + 1)
  <2> DEFINE t == s.sent_seqid[n]
             k == wire[r][n]
  <2>1. k \in Seq(Frame) /\ k # <<>> /\ t \in Nat /\ v \in Nat /\ Flows(k, t, v) /\ Head(k).type = "data"
    BY <1>4, <1>6 DEF Linked
  <2>2. v + 1 <= t /\ t <= v + 1
    <3>1. t # v
      <4>1. Head(k) = k[1] /\ 1 \in 1 .. Len(k)
        BY <1>1, FramesLess
      <4> QED
        BY <2>1, <4>1 DEF Flows
    <3>2. t <= s.last_unacked[n]
      BY <1>5
    <3> HIDE DEF t, v, s
    <3> QED
      BY <1>4, <1>5, <2>1, <3>1, <3>2, SMT DEF t
  <2> HIDE DEF t, v
  <2>3. Head(k).seqid = v + 1 /\ Flows(Tail(k), t, v + 1)
    <3> HIDE DEF k
    <3> QED
      BY <2>1, <2>2, FlowsData
  <2> QED
    BY <2>3 DEF t
<1>8. g.seqid >= v /\ ~(g.seqid < v) /\ ~q.self_stopped /\ (g.part # 0 \/ here)
  <2>1. g.seqid >= v /\ ~(g.seqid < v)
    <3> HIDE DEF g, v
    <3> QED
      BY <1>4, <1>7, SMT
  <2> QED
    BY <2>1 DEF Discards
<1>9. e.rcvd_seqid = [q.rcvd_seqid EXCEPT ![r] = g.seqid] /\ Took(q, r, g, e)
  BY <1>2, <1>8 DEF Saw
<1>10. e.panic = q.panic
  <2>1. SeenOK(r, n, s, q)
    BY DEF AllArrives, Arrives
  <2> HIDE DEF g, q, s
  <2> QED
    BY <1>3, <1>4, <1>5, <1>7, <1>9, <2>1, PageExpected
<1>11. ~e.panic
  BY <1>6, <1>10 DEF Up
<1>12. Calmly(q, e)
  <2>1. Calm(q) /\ q.out = <<>>
    BY <1>1, <1>6
  <2> HIDE DEF g, q, w
  <2> QED
    BY <1>2, <1>3, <1>4, <1>8, <2>1, RecvDataCalm
<1>13. ASSUME NEW a \in Node, NEW b \in Node
       PROVE  Flows(w[a][b], node[a].sent_seqid[b], node'[b].rcvd_seqid[a])
  <2>1. w[a][b] = IF a = r /\ b = n THEN Tail(wire[r][n]) ELSE wire[a][b]
    <3> DEFINE k == Tail(wire[r][n])
               u == [wire[r] EXCEPT ![n] = k]
    <3> HIDE DEF k
    <3>1. u[b] = IF b = n THEN k ELSE wire[r][b]
      BY <1>1 DEF Wires
    <3>2. w = [wire EXCEPT ![r] = u]
      BY DEF k
    <3> HIDE DEF u, w
    <3>3. w[a] = IF a = r THEN u ELSE wire[a]
      BY <1>1, <3>2 DEF Wires
    <3> QED
      BY <3>1, <3>3 DEF k
  <2>2. node'[b].rcvd_seqid[a] = IF a = r /\ b = n THEN v + 1 ELSE node[b].rcvd_seqid[a]
    <3>1. /\ \A x \in Node : x # n => node'[x] = node[x]
          /\ SameReceived(e, node'[n])
      BY <1>2, NextRecord DEF Moves
    <3>2. CASE b # n
      BY <3>1, <3>2
    <3>3. CASE b = n
      <4>1. node'[n].rcvd_seqid = [q.rcvd_seqid EXCEPT ![r] = g.seqid]
        BY <1>9, <3>1 DEF SameReceived
      <4>2. q.rcvd_seqid \in [Node -> Nat]
        BY <1>4, Fields DEF FieldTypes
      <4> HIDE DEF g
      <4> QED
        BY <1>7, <3>3, <4>1, <4>2
    <3> QED
      BY <3>2, <3>3
  <2>3. Linked(a, b, node, wire[a][b])
    BY DEF AllCalm
  <2> QED
    BY <1>7, <2>1, <2>2, <2>3 DEF Linked
<1> HIDE DEF w, g, s, v
<1>14. Calmly(node[n], e)
  BY <1>12 DEF q
<1> HIDE DEF q
<1> QED
  BY <1>2, <1>6, <1>11, <1>13, <1>14, MovesCalm

\* A routine of a node goes calmly, and leaves the wires flowing.
LEMMA RoutineCalm ==
    ASSUME Inv, lost = 0, refused = 0, AllCalm, NEW n \in Node, NEW e \in NodeType, NEW w,
           Routine(n, e, w)
    PROVE  /\ Calmly(node[n], e) /\ e.panic = node[n].panic
           /\ \A a, b \in Node : Linked(a, b, node, w[a][b])
<1>1. node \in [Node -> NodeType] /\ wire \in Wires /\ Fits(node, wire)
  BY DEF Inv, TypeOK, Wires
<1> DEFINE q == node[n]
           S == Sent(node, n)
           V == Seen(node, n)
<1>2. Good(n, S, q) /\ q.out = <<>> /\ Agrees(q, S, V) /\ q \in NodeType
  BY <1>1, FitsAgrees
<1>3. Calm(q) /\ \A a, b \in Node : Linked(a, b, node, wire[a][b])
  BY DEF AllCalm
<1>4. \A y \in Node : q.ctl[y] # CtlNone => IsCtl(q.ctl[y])
  BY <1>2 DEF Good
<1>5. CASE /\ w = wire
           /\ \/ e = netipc_send_intr(q)
              \/ e = netipc_timeout(q)
              \/ e = PutPage(q)
              \/ \E r \in Node : \E shape \in Shapes[n] : e = norma_ipc_send(q, r, shape)
  <2> HIDE DEF q
  <2>1. Calmly(q, e) /\ e.panic = q.panic
    <3>1. CASE e = netipc_send_intr(q)
      BY <1>2, <1>3, <1>4, <3>1, SendIntrCalm
    <3>2. CASE e = netipc_timeout(q)
      BY <1>2, <1>3, <3>2, TimeoutCalm
    <3>3. CASE e = PutPage(q)
      BY <1>2, <1>3, <3>3, PutPageCalm
    <3>4. ASSUME NEW r \in Node, NEW shape \in Shapes[n], e = norma_ipc_send(q, r, shape)
          PROVE  Calmly(q, e) /\ e.panic = q.panic
      BY <1>2, <1>3, <3>4, SendCalm
    <3> QED
      BY <1>5, <3>1, <3>2, <3>3, <3>4
  <2> QED
    BY <1>3, <1>5, <2>1 DEF q
<1>6. ASSUME NEW r \in Node, wire[r][n] # <<>>, Head(wire[r][n]).type = "ctl",
             w = [wire EXCEPT ![r][n] = Tail(@)], e = RecvCtl(q, r, Head(wire[r][n]))
      PROVE  /\ Calmly(q, e) /\ e.panic = q.panic
             /\ \A a, b \in Node : Linked(a, b, node, w[a][b])
  <2> DEFINE g == Head(wire[r][n])
             k == Tail(wire[r][n])
  <2>1. Plain(g, q.rcvd_seqid[r]) /\ Linked(r, n, node, k)
    <3>1. wire[r][n] \in Seq(Frame)
      BY <1>1 DEF Wires
    <3>2. Linked(r, n, node, wire[r][n])
      BY <1>3
    <3> QED
      BY <1>6, <3>1, <3>2, FlowsCtl DEF Linked
  <2>2. Heard(q, r, S, V, g)
    <3>1. g \in Frame /\ 1 \in 1 .. Len(wire[r][n]) /\ g = wire[r][n][1]
      BY <1>1, <1>6, FramesLess
    <3>2. FrameOK(node[r], n, node[n].sent_seqid[r], g)
      BY <1>1, <3>1 DEF Fits
    <3>3. S[r] = node[r].sent_seqid[n] /\ V[r] = node[r].rcvd_seqid[n]
      BY DEF Sent, Seen
    <3> QED
      BY <1>6, <3>1, <3>2, <3>3 DEF Heard, FrameOK, CtlOK
  <2>3. Calmly(q, e) /\ e.panic = q.panic
    <3>1. e = RecvCtl(q, r, g)
      BY <1>6
    <3> HIDE DEF q, S, V, g
    <3> QED
      BY <1>2, <1>3, <2>1, <2>2, <3>1, RecvCtlCalm
  <2>4. ASSUME NEW a \in Node, NEW b \in Node PROVE Linked(a, b, node, w[a][b])
    <3>1. w[a][b] = IF a = r /\ b = n THEN k ELSE wire[a][b]
      <4> DEFINE u == [wire[r] EXCEPT ![n] = k]
      <4> HIDE DEF k
      <4>1. u[b] = IF b = n THEN k ELSE wire[r][b]
        BY <1>1 DEF Wires
      <4>2. w = [wire EXCEPT ![r] = u]
        BY <1>6 DEF k
      <4> HIDE DEF u
      <4>3. w[a] = IF a = r THEN u ELSE wire[a]
        BY <1>1, <4>2 DEF Wires
      <4> QED
        BY <4>1, <4>3
    <3> HIDE DEF k
    <3> QED
      BY <1>3, <2>1, <3>1
  <2> QED
    BY <2>3, <2>4
<1> QED
  BY <1>5, <1>6 DEF Routine

\* So do the steps of Next that lose and refuse nothing.
LEMMA CalmStep ==
    ASSUME Inv, AllArrives, AllCalm, [Next]_vars
    PROVE  AllCalm'
<1> SUFFICES ASSUME lost' = 0, refused' = 0
             PROVE  \A a \in Node : /\ Calm(node'[a]) /\ ~node'[a].panic
                                    /\ \A b \in Node : Linked(a, b, node', wire'[a][b])
  BY DEF AllCalm, Up
<1>1. lost \in Nat /\ refused \in Nat
  BY BoundsAssumption, SMT DEF BoundsAssumption, Inv, TypeOK
<1>2. CASE UNCHANGED vars
  BY <1>2 DEF vars, AllCalm, Up
<1>3. ASSUME NEW n \in Node, Works(n)
      PROVE  \A a \in Node : /\ Calm(node'[a]) /\ ~node'[a].panic
                             /\ \A b \in Node : Linked(a, b, node', wire'[a][b])
  <2>1. lost = 0 /\ refused = 0
    BY <1>3 DEF Works
  <2>2. PICK e \in NodeType : \E w : /\ Moves(n, e, w) /\ Routine(n, e, w)
                                     /\ SameReceived(node[n], e)
    BY <1>3 DEF Works
  <2>3. PICK w : Moves(n, e, w) /\ Routine(n, e, w)
    BY <2>2
  <2>4. /\ Calmly(node[n], e) /\ e.panic = node[n].panic
        /\ \A a, b \in Node : Linked(a, b, node, w[a][b])
    BY <2>1, <2>3, RoutineCalm
  <2>5. \A a \in Node : Calm(node[a]) /\ Up(a)
    BY <2>1 DEF AllCalm
  <2>6. ~e.panic
    BY <2>4, <2>5 DEF Up
  <2>7. \A b \in Node : node'[b].rcvd_seqid = node[b].rcvd_seqid
    <3>1. /\ \A x \in Node : x # n => node'[x] = node[x]
          /\ SameReceived(e, node'[n])
      BY <2>3, NextRecord DEF Moves
    <3>2. node'[n].rcvd_seqid = node[n].rcvd_seqid
      BY <2>2, <3>1, Zenon DEF SameReceived
    <3> QED
      BY <3>1, <3>2
  <2>8. \A a, b \in Node : Flows(w[a][b], node[a].sent_seqid[b], node'[b].rcvd_seqid[a])
    BY <2>4, <2>7 DEF Linked
  <2> QED
    BY <2>3, <2>4, <2>5, <2>6, <2>8, MovesCalm
<1>4. ASSUME NEW n \in Node, NEW r \in Node, wire[r][n] # <<>>, Head(wire[r][n]).type = "data",
             NEW here \in BOOLEAN, Takes(n, r, Head(wire[r][n]), here), ReceiveData(n, r, here)
      PROVE  \A a \in Node : /\ Calm(node'[a]) /\ ~node'[a].panic
                             /\ \A b \in Node : Linked(a, b, node', wire'[a][b])
  <2> DEFINE stops == Discards(node[n], r, Head(wire[r][n]), here)
  <2>1. refused' = (IF stops THEN refused + 1 ELSE refused) /\ lost = 0
    BY <1>4 DEF ReceiveData
  <2>2. refused = 0 /\ ~stops
    <3> HIDE DEF stops
    <3> QED
      BY <1>1, <2>1, SMT
  <2> QED
    BY <1>4, <2>1, <2>2, TakeCalm
<1>5. ASSUME NEW n \in Node, NEW r \in Node, Lose(n, r) PROVE FALSE
  <2>1. lost' = lost + 1
    BY <1>5 DEF Lose
  <2> QED
    BY <1>1, <2>1, SMT
<1> QED
  BY <1>2, <1>3, <1>4, <1>5, NextMoves

\* At first nothing is on its way.
LEMMA InitCalm == Init => AllCalm
<1> SUFFICES ASSUME Init, NEW n \in Node
             PROVE  Calm(node[n]) /\ Up(n) /\ \A r \in Node : Linked(n, r, node, wire[n][r])
  BY DEF AllCalm
<1>1. /\ node[n].pending_unack = <<>> /\ ~node[n].panic
      /\ \A r \in Node : wire[n][r] = <<>>
  BY DEF Init
<1>2. \A y \in Node : node[n].ctl[y] = CtlNone
  BY InitNode
<1>3. Calm(node[n])
  BY <1>1, <1>2 DEF Calm, CtlNone
<1>4. ASSUME NEW r \in Node PROVE Linked(n, r, node, wire[n][r])
  <2>1. node[n].sent_seqid[r] = 0 /\ node[r].rcvd_seqid[n] = 0
    BY InitNode
  <2>2. wire[n][r] = <<>> /\ 1 .. Len(<<>>) = {}
    BY <1>1, SMT
  <2> QED
    BY <2>1, <2>2 DEF Linked, Flows
<1> QED
  BY <1>1, <1>3, <1>4 DEF Up

\* The assertions of netipc_set_seqid, netipc_retry and norma_deliver_page
\* hold as long as every frame arrives and is taken, for any number of nodes:
\* nobody asks for a packet again, and a page comes only for the message that
\* is being put together.
THEOREM NeverPanics == ASSUME OneObject PROVE Spec => []NoPanic
<1>1. AllCalm => NoPanic
  BY DEF AllCalm, NoPanic
<1>2. Inv /\ AllArrives /\ [Next]_vars => AllArrives'
  BY ArriveStep
<1>3. Inv /\ AllArrives /\ AllCalm /\ [Next]_vars => AllCalm'
  BY CalmStep
<1> QED
  BY <1>1, <1>2, <1>3, InitArrives, InitCalm, WindowInvariant, PTL DEF Spec
=============================================================================
