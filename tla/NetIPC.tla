------------------------------ MODULE NetIPC ------------------------------
(***************************************************************************)
(* Reliable delivery and flow control between the nodes of a NORMA         *)
(* cluster: norma/ipc_net.c, the reassembly of norma/ipc_input.c and the   *)
(* device below it, norma/ipc_ether.c.                                     *)
(*                                                                         *)
(* Each node keeps one record.  Every entry point of ipc_net.c (a send, an *)
(* interrupt, the clock) runs with interrupts blocked on one processor, so *)
(* each is one action; the routines it calls are operators from a node's   *)
(* record to its next one, with the names of the source.  netipc_send is   *)
(* only called when the device is free, so a handler puts at most one      *)
(* frame on the wire: the field out.                                       *)
(*                                                                         *)
(* Acknowledgements go out at once (netipc_ackdelay is 0 in this source).  *)
(* Out-of-line data is page aligned: the shortened last page and the page  *)
(* count that netipc_send_page corrects for it are left out.               *)
(***************************************************************************)
EXTENDS Integers, Sequences, FiniteSetsExt, SequencesExt, Lists

CONSTANTS
    Node,
    NodeZero,     \* the node numbered 0, in Node or not
    Gone,         \* nodes whose ports may have died or moved away when a message
                  \* for them arrives
    Shapes,       \* the messages each node sends: for each out-of-line page
                  \* in turn, whether it is the last of its copy object
    MaxMsgs,      \* bound: messages each node sends to another
    MaxPages,     \* bound: netipc_page_list_high
    MaxWire,      \* bound: the clock (20 ms) does not tick with this many
                  \* frames under way between two nodes
    MaxLost,      \* bound: frames lost in a behaviour
    MaxRefused    \* bound: frames that are discarded

ASSUME BoundsAssumption ==
    /\ Shapes \in [Node -> SUBSET Seq(BOOLEAN)]
    /\ MaxMsgs \in [Node -> Nat]
    /\ Gone \subseteq Node
    /\ {MaxPages, MaxWire, MaxLost, MaxRefused} \subseteq Nat

VARIABLES
    node,     \* the state of each node, see NodeType
    wire,     \* wire[n][r]: frames from n that r has not received, in order
    lost,     \* history: frames lost by the network
    refused   \* history: data frames discarded, by a receiver that is stopped
              \* or does not have the port

vars == <<node, wire, lost, refused>>

MAX_WINDOW_SIZE == 1
WX == MAX_WINDOW_SIZE + 1

CtlNone == [ctl |-> "none", seqid |-> 0]
Ctl(c, s) == [ctl |-> c, seqid |-> s]
CtlFrame(c) == [type |-> "ctl", ctl |-> c.ctl, seqid |-> c.seqid]

Message == [id : Nat, shape : Seq(BOOLEAN)]

Frame ==
    [type : {"data"}, seqid : Nat, id : Nat, shape : Seq(BOOLEAN), part : Nat]
        \cup [type : {"ctl"}, ctl : {"ack", "nack", "sync"}, seqid : Nat]

Assembly == [remote : Node, id : Nat, got : SUBSET (Nat \X Nat)]

(* The name of each field is that of the source without "netipc_".         *)
NodeType == [
    log : [Node -> Seq(Message)],      \* history: what norma_ipc_send was given
    packet : [Node -> Seq(Message)],   \* not yet acknowledged
    first : [Node -> Nat],             \* dp_first_seqid of the first of them
    sent_seqid : [Node -> Nat],
    last_unacked : [Node -> Nat],
    sent_packet : [Node -> [0 .. WX - 1 -> BOOLEAN]],
    timer : [Node -> 0..2],
    rcvd_seqid : [Node -> Nat],
    do_send : [Node -> BOOLEAN],
    ctl : [Node -> [ctl : {"none", "ack", "nack", "sync"}, seqid : Nat]],
    pending_send : Seq(Node), pending_unack : Seq(Node),
    pending_timeout : Seq(Node),
    sending : BOOLEAN,                 \* netipc_sending
    busy : BOOLEAN,                    \* the device has a frame of ours
    self_stopped : BOOLEAN,
    pages : 0..MaxPages,               \* netipc_page_list_count
    incomplete : Seq(Assembly),        \* norma_kmsg_incomplete
    complete : Seq(Assembly),          \* handed to ipc, in order
    out : Seq([to : Node, frame : Frame]),
    panic : BOOLEAN]

Init ==
    /\ node = [n \in Node |-> [
         log |-> [r \in Node |-> <<>>], packet |-> [r \in Node |-> <<>>],
         first |-> [r \in Node |-> 1],
         sent_seqid |-> [r \in Node |-> 0],
         last_unacked |-> [r \in Node |-> 1],
         sent_packet |-> [r \in Node |-> [i \in 0 .. WX - 1 |-> FALSE]],
         timer |-> [r \in Node |-> 0], rcvd_seqid |-> [r \in Node |-> 0],
         do_send |-> [r \in Node |-> FALSE], ctl |-> [r \in Node |-> CtlNone],
         pending_send |-> <<>>, pending_unack |-> <<>>,
         pending_timeout |-> <<>>,
         sending |-> FALSE, busy |-> FALSE, self_stopped |-> TRUE, pages |-> 0,
         incomplete |-> <<>>, complete |-> <<>>, out |-> <<>>, panic |-> FALSE]]
    /\ wire = [n \in Node |-> [r \in Node |-> <<>>]]
    /\ lost = 0 /\ refused = 0

-----------------------------------------------------------------------------
(* Sending. *)

\* a_enqueue: at the head, unless it is on the list.
Enqueue(list, r) == IF Contains(list, r) THEN list ELSE <<r>> \o list

\* netipc_send, called when nothing else is being sent.
Transmit(nd, r, frame) ==
    [nd EXCEPT !.sending = TRUE, !.busy = TRUE,
               !.out = <<[to |-> r, frame |-> frame]>>]

\* dp_last_seqid of the first message queued for r.
LastSeqid(nd, r) == nd.first[r] + Len(Head(nd.packet[r]).shape)

\* netipc_set_seqid finds seqid in the first message queued for r; with a
\* window of one the packet wanted is never in a later one.
SetSeqid(nd, r, seqid) ==
    /\ nd.packet[r] # <<>>
    /\ nd.first[r] <= seqid /\ seqid <= LastSeqid(nd, r)

\* netipc_send_kmsg (part 0) and netipc_send_page.
SendPart(nd, r, seqid) ==
    LET m == Head(nd.packet[r])
        timed == [nd EXCEPT !.timer[r] = 1,
                            !.pending_timeout = Enqueue(@, r)]
    IN Transmit(timed, r, [type |-> "data", seqid |-> seqid, id |-> m.id,
                           shape |-> m.shape, part |-> seqid - nd.first[r]])

netipc_send_any(nd, r) ==
    LET seqid == nd.sent_seqid[r] + 1
    IN IF /\ seqid < MAX_WINDOW_SIZE + nd.last_unacked[r]
          /\ SetSeqid(nd, r, seqid)
       THEN IF nd.sending
            THEN [nd EXCEPT !.do_send[r] = TRUE,
                            !.pending_send = Enqueue(@, r)]
            ELSE SendPart([nd EXCEPT !.sent_seqid[r] = seqid,
                                     !.sent_packet[r][seqid % WX] = TRUE],
                          r, seqid)
       ELSE [nd EXCEPT !.do_send[r] = FALSE]

netipc_send_ctl(nd, r, c) ==
    IF nd.sending
    THEN [nd EXCEPT !.ctl[r] = c, !.pending_send = Enqueue(@, r)]
    ELSE Transmit(nd, r, CtlFrame(c))

\* The same for several nodes in turn, c[r] for r.
SendCtls(nd, list, c) ==
    LET after[i \in 0 .. Len(list)] ==
            IF i = 0 THEN nd ELSE netipc_send_ctl(after[i - 1], list[i], c[list[i]])
    IN  after[Len(list)]

\* norma_ipc_send queues a message and sends it if it can.
norma_ipc_send(nd, r, shape) ==
    LET m == [id |-> Len(nd.log[r]) + 1, shape |-> shape]
        queued == [nd EXCEPT !.log[r] = Append(@, m),
                             !.packet[r] = Append(@, m),
                             !.first[r] = IF nd.packet[r] = <<>>
                                          THEN nd.sent_seqid[r] + 1 ELSE @]
    IN netipc_send_any(queued, r)

\* The device is done with a frame; the next thing of the first node on the
\* list that has something.  netipc_send_any finds netipc_sending still set.
netipc_send_intr(nd) ==
    LET idle(r) == nd.ctl[r] = CtlNone /\ ~nd.do_send[r]
        live == SelectInSeq(nd.pending_send, LAMBDA r : ~idle(r))
        rest == IF live = 0 THEN <<>>
                ELSE SubSeq(nd.pending_send, live, Len(nd.pending_send))
        now == [nd EXCEPT !.busy = FALSE, !.pending_send = rest]
    IN IF live = 0 THEN [now EXCEPT !.sending = FALSE]
       ELSE IF nd.ctl[Head(rest)] # CtlNone
       THEN Transmit([now EXCEPT !.ctl[Head(rest)] = CtlNone],
                     Head(rest), CtlFrame(nd.ctl[Head(rest)]))
       ELSE netipc_send_any(now, Head(rest))

\* Sent again because r asked for it.  A request that comes while something is being sent is ignored.
netipc_retry(nd, r, seqid) ==
    IF nd.sending THEN nd
    ELSE IF ~SetSeqid(nd, r, seqid) THEN [nd EXCEPT !.panic = TRUE]
    ELSE SendPart(nd, r, seqid)

\* The message at the head has no packet left to be acknowledged.
AllAcked_First(nd, r) == nd.first[r] < nd.last_unacked[r]
AllAcked(nd, r) == LastSeqid(nd, r) < nd.last_unacked[r]

netipc_acknowledged(nd, r, seqid) ==
    LET slots == [nd.sent_packet[r] EXCEPT ![seqid % WX] = FALSE]
        next == Min({u \in nd.last_unacked[r] .. nd.sent_seqid[r] + 1 :
                        u = nd.sent_seqid[r] + 1 \/ slots[u % WX]})
        acked == [nd EXCEPT !.sent_packet[r] = slots,
                            !.last_unacked[r] = IF seqid = @ THEN next ELSE @]
        freed == [acked EXCEPT !.packet[r] = Tail(@),
                               !.first[r] = nd.sent_seqid[r] + 1]
    IN IF seqid < nd.last_unacked[r] \/ ~nd.sent_packet[r][seqid % WX] THEN nd
       ELSE IF ~AllAcked(acked, r) THEN netipc_send_any(acked, r)
       ELSE IF freed.packet[r] = <<>> THEN freed
       ELSE netipc_send_any(freed, r)

\* The oldest packet not acknowledged, of a window of one.
Oldest_Next(nd, r) == nd.sent_seqid[r] + 1
Oldest(nd, r) == nd.sent_seqid[r]

\* netipc_timeout: every timer that is set goes to 2; one that was 2 asks the
\* receiver about the oldest unacknowledged packet, or stops for want of one.
netipc_timeout(nd) ==
    LET sync == {r \in Node : nd.timer[r] = 2 /\ nd.sent_packet[r][nd.sent_seqid[r] % WX]}
        kept == Sublist(nd.pending_timeout, sync \cup {r \in Node : nd.timer[r] = 1})
        ticked == [nd EXCEPT
            !.pending_timeout = kept,
            !.timer = [r \in Node |-> IF Contains(kept, r) THEN 2
                                      ELSE IF Contains(nd.pending_timeout, r)
                                      THEN 0 ELSE @[r]]]
    IN SendCtls(ticked, Sublist(kept, sync), [r \in Node |-> Ctl("sync", Oldest(nd, r))])

-----------------------------------------------------------------------------
(* Receiving. *)

\* netipc_page_grab after a delivery: without a page the node is stopped.
GrabPage(nd) ==
    IF nd.pages > 0 THEN [nd EXCEPT !.pages = @ - 1]
    ELSE [nd EXCEPT !.self_stopped = TRUE]

\* A message goes to its port, if that is here; what has pages waits for them.
\* If it is not the message is dropped, and nobody is told.
norma_deliver_kmsg(nd, r, f, here) ==
    LET kmsg == [remote |-> r, id |-> f.id, got |-> {}]
    IN IF ~here THEN nd
       ELSE IF f.shape = <<>> THEN [nd EXCEPT !.complete = Append(@, kmsg)]
       ELSE [nd EXCEPT !.incomplete = <<kmsg>> \o @]

\* The page goes to the latest incomplete message of that node, whatever its
\* id, and the last page of a copy object makes the message complete.
norma_deliver_page(nd, r, f) ==
    LET i == SelectInSeq(nd.incomplete, LAMBDA k : k.remote = r)
        kmsg == [nd.incomplete[i] EXCEPT !.got =
                    {p \in @ : p[2] # f.part} \cup {<<f.id, f.part>>}]
    IN IF i = 0 THEN [nd EXCEPT !.panic = TRUE]
       ELSE IF f.shape[f.part]
       THEN [nd EXCEPT !.incomplete = RemoveAt(@, i),
                       !.complete = Append(@, kmsg)]
       ELSE [nd EXCEPT !.incomplete[i] = kmsg]

\* netipc_recv_intr on a message or a page.  The test is < and not <=:
\* MACH_ETHER, which selects <=, is defined nowhere.
RecvData(nd, r, f, here) ==
    LET seen == [nd EXCEPT !.rcvd_seqid[r] = f.seqid]
        answered == netipc_send_ctl(seen, r, Ctl("ack", f.seqid))
    IN IF f.seqid < nd.rcvd_seqid[r] THEN nd
       ELSE IF nd.self_stopped
       THEN [seen EXCEPT !.pending_unack = Enqueue(@, r)]
       ELSE GrabPage(IF f.part = 0 THEN norma_deliver_kmsg(answered, r, f, here)
                                   ELSE norma_deliver_page(answered, r, f))

\* Whether it throws a new frame away.
Discards(nd, r, f, here) ==
    /\ f.seqid >= nd.rcvd_seqid[r]
    /\ nd.self_stopped \/ (f.part = 0 /\ ~here)

\* Whether the packet that r asks about with a sync has arrived.
Arrived_Always(nd, r, seqid) == TRUE
Arrived_Older(nd, r, seqid) == seqid < nd.rcvd_seqid[r]
Arrived(nd, r, seqid) == seqid = nd.rcvd_seqid[r]

\* netipc_recv_intr on a control frame.
RecvCtl(nd, r, f) ==
    CASE f.ctl = "sync" /\ ~Arrived(nd, r, f.seqid) ->
            netipc_send_ctl(nd, r, Ctl("nack", f.seqid))
      [] f.ctl = "sync" /\ Arrived(nd, r, f.seqid) ->
            IF Contains(nd.pending_unack, r) THEN nd
            ELSE netipc_send_ctl(nd, r, Ctl("ack", f.seqid))
      [] f.ctl = "ack" -> netipc_acknowledged(nd, r, f.seqid)
      [] f.ctl = "nack" -> netipc_retry(nd, r, f.seqid)

\* netipc_page_put and netipc_replenish: one more page, which a stopped node
\* takes to start again.  The nodes in front of node 0 on the list are told.
PutPage(nd) ==
    LET zero == SelectInSeq(nd.pending_unack, LAMBDA r : r = NodeZero)
        told == IF zero = 0 THEN nd.pending_unack
                ELSE SubSeq(nd.pending_unack, 1, zero - 1)
        started == [nd EXCEPT !.self_stopped = FALSE,
                              !.pending_unack = IF zero = 0 THEN <<>>
                                  ELSE SubSeq(@, zero, Len(@))]
    IN IF ~nd.self_stopped THEN [nd EXCEPT !.pages = @ + 1]
       ELSE SendCtls(started, told, [r \in Node |-> Ctl("nack", nd.rcvd_seqid[r])])

-----------------------------------------------------------------------------
(* The entry points. *)

\* Node n's record becomes nd, less the frame it sends; w are the wires then.
Becomes(n, nd, w) ==
    /\ node' = [node EXCEPT ![n] = [nd EXCEPT !.out = <<>>]]
    /\ wire' = IF nd.out = <<>> THEN w
               ELSE [w EXCEPT ![n][nd.out[1].to] = Append(@, nd.out[1].frame)]

Up(n) == ~node[n].panic

\* A thread of n sends a message to a port of r.
Send(n, r, shape) ==
    /\ Up(n) /\ n # r
    /\ Len(node[n].log[r]) < MaxMsgs[n]
    /\ Becomes(n, norma_ipc_send(node[n], r, shape), wire)
    /\ UNCHANGED <<lost, refused>>

\* netipc_ether_send_complete.
SendComplete(n) ==
    /\ Up(n) /\ node[n].busy
    /\ Becomes(n, netipc_send_intr(node[n]), wire)
    /\ UNCHANGED <<lost, refused>>

\* A frame from r reaches n; the device may report it before r's device
\* reports that it was sent.
ReceiveData(n, r, here) ==
    /\ here \/ n \in Gone
    /\ Up(n) /\ wire[r][n] # <<>> /\ Head(wire[r][n]).type = "data"
    /\ LET f == Head(wire[r][n])
       IN /\ Becomes(n, RecvData(node[n], r, f, here), [wire EXCEPT ![r][n] = Tail(@)])
          /\ refused' = IF Discards(node[n], r, f, here) THEN refused + 1 ELSE refused
          /\ refused' <= MaxRefused
    /\ UNCHANGED lost

ReceiveCtl(n, r) ==
    /\ Up(n) /\ wire[r][n] # <<>> /\ Head(wire[r][n]).type = "ctl"
    /\ Becomes(n, RecvCtl(node[n], r, Head(wire[r][n])),
               [wire EXCEPT ![r][n] = Tail(@)])
    /\ UNCHANGED <<lost, refused>>

\* The clock, every NETIPC_TIMEOUT.
Timeout(n) ==
    /\ Up(n) /\ node[n].pending_timeout # <<>>
    /\ \A r \in Node : Len(wire[n][r]) + Len(wire[r][n]) < MaxWire
    /\ Becomes(n, netipc_timeout(node[n]), wire)
    /\ UNCHANGED <<lost, refused>>

\* A page comes back from a received message, or netipc_thread finds one.
PagePut(n) ==
    /\ Up(n) /\ node[n].pages < MaxPages
    /\ Becomes(n, PutPage(node[n]), wire)
    /\ UNCHANGED <<lost, refused>>

\* The segment, a full device queue or a missed fragment loses a frame.
Lose(n, r) ==
    /\ lost < MaxLost /\ wire[n][r] # <<>>
    /\ wire' = [wire EXCEPT ![n][r] = Tail(@)]
    /\ lost' = lost + 1
    /\ UNCHANGED <<node, refused>>

Next ==
    \E n \in Node :
        \/ SendComplete(n)
        \/ Timeout(n)
        \/ PagePut(n)
        \/ \E r \in Node :
              \/ \E shape \in Shapes[n] : Send(n, r, shape)
              \/ \E here \in BOOLEAN : ReceiveData(n, r, here)
              \/ ReceiveCtl(n, r)
              \/ Lose(n, r)

Spec == Init /\ [][Next]_vars

-----------------------------------------------------------------------------
(* What r has been handed from n, and what n has let go of. *)

Handed(r, n) == {k \in Range(node[r].complete) : k.remote = n}

Released(n, r) == Len(node[n].log[r]) - Len(node[n].packet[r])

\* A message with every page it was sent with and no other.
Whole(k, m) == k.id = m.id /\ k.got = {m.id} \X (1 .. Len(m.shape))

-----------------------------------------------------------------------------
(* Properties. *)

TypeOK ==
    /\ node \in [Node -> NodeType] /\ \A n \in Node : node[n].out = <<>>
    /\ wire \in [Node -> [Node -> Seq(Frame)]]
    /\ lost \in 0..MaxLost /\ refused \in 0..MaxRefused

(* The two ends agree within the window, whatever the network and the page  *)
(* supply do: an acknowledged packet (netipc_acknowledged) was seen by the  *)
(* receiver, and the receiver (netipc_recv_intr) never runs ahead of the    *)
(* sender or more than one packet behind it.                                *)
WindowAgrees ==
    \A n, r \in Node :
        /\ node[n].last_unacked[r] <= node[r].rcvd_seqid[n] + 1
        /\ node[r].rcvd_seqid[n] <= node[n].sent_seqid[r]
        /\ node[n].sent_seqid[r] <= node[n].last_unacked[r]

(* A message that netipc_acknowledged has freed was handed up whole by      *)
(* norma_deliver_kmsg or norma_deliver_page, as long as no frame was        *)
(* discarded by its receiver, for want of a page or of the port.  A network *)
(* that loses frames does not change this.                                  *)
NothingLost ==
    refused = 0 =>
        \A n, r \in Node : \A i \in 1 .. Released(n, r) :
            \E k \in Handed(r, n) : Whole(k, node[n].log[r][i])

(* No message is handed up twice as long as the network loses nothing:      *)
(* netipc_self_unstop's requests and the answers to netipc_timeout never    *)
(* make the sender send a packet again that was delivered.  If moreover     *)
(* every frame is taken, messages are handed up in the order they were      *)
(* sent.                                                                    *)
NoRepeat ==
    lost = 0 =>
        \A r \in Node :
            LET h == node[r].complete
            IN \A i, j \in DOMAIN h :
                  i < j /\ h[i].remote = h[j].remote =>
                      h[i].id # h[j].id /\ (refused = 0 => h[i].id < h[j].id)

(* The assertions of netipc_set_seqid, netipc_retry and norma_deliver_page  *)
(* hold as long as every frame arrives and is taken.                        *)
NoPanic ==
    lost = 0 /\ refused = 0 => \A n \in Node : Up(n)

(* The comment of netipc_send_intr: "If there is something else to send     *)
(* (currently, only ctls), send it; otherwise, set netipc_sending FALSE."   *)
(* So netipc_sending says that the device is busy.                          *)
SendingMeansBusy == \A n \in Node : Up(n) /\ node[n].sending => node[n].busy

(* The comment of netipc_retry on the request it ignores while sending:     *)
(* "XXX unfortunate but not fatal".  No message is lost for it.             *)
RefusedNotLost ==
    lost = 0 =>
        \A n, r \in Node : \A i \in 1 .. Released(n, r) :
            \E k \in Handed(r, n) : k.id = i
=============================================================================
