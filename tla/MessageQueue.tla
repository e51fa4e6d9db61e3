---------------------------- MODULE MessageQueue ----------------------------
(***************************************************************************)
(* Ports, port sets and their message queues: ipc/ipc_mqueue.c with the    *)
(* parts of ipc/ipc_port.c and ipc/ipc_pset.c that change the queues.      *)
(*                                                                         *)
(* A port has a queue of its own and, while it is in a set, shares the     *)
(* set's queue instead.  Senders wait on the port (ip_blocked) when the    *)
(* queue is at its limit; receivers wait on the queue (imq_threads).       *)
(*                                                                         *)
(* One action is what a thread does under one hold of the port lock or of  *)
(* the queue lock, including the hand-over from one to the other: whoever  *)
(* takes a queue lock under the port lock orders itself by the port lock.  *)
(* Between two holds any other thread may run when NCPUS > 1; on a         *)
(* uniprocessor the kernel is not preempted, and only the clock gets in    *)
(* between.                                                                *)
(*                                                                         *)
(* A message is its port, its size and, for the properties, the sequence   *)
(* number it is due to be received with.  seqno counts modulo SeqnoMod.    *)
(***************************************************************************)
EXTENDS Integers, Sequences, FiniteSets, SequencesExt, Lists

CONSTANTS
    Senders, Receivers, Ports, Psets,
    Null,             \* IPS_NULL, IKM_NULL
    Options,          \* how calls wait: see OptionsAssumption
    Sizes,            \* message and buffer sizes
    Qlimits,          \* the limits mach_port_set_qlimit is called with
    MaxCount,         \* bound on ip_msgcount for senders that ignore the limit
    SeqnoMod,         \* ip_seqno wraps at this value
    Multiprocessor,   \* NCPUS > 1
    Backups           \* the ports with a port-destroyed request

ASSUME ObjectsAssumption ==
    /\ Null \notin Ports \cup Psets
    /\ Ports \cap Psets = {}
\* No timeout, a timeout, a timeout of 0; and for senders MACH_SEND_ALWAYS
\* or a send-once right.
ASSUME OptionsAssumption == Options \subseteq {"none", "timeout", "poll", "always"}
ASSUME BoundsAssumption ==
    /\ Sizes \subseteq Nat
    /\ Qlimits \subseteq Nat /\ MaxCount \in Nat /\ SeqnoMod \in Nat
    /\ \A n \in Qlimits \cup {1, MaxCount} : n < SeqnoMod
ASSUME ConfigAssumption == Multiprocessor \in BOOLEAN /\ Backups \subseteq Ports

VARIABLES
    active,      \* the ports and sets with IO_BITS_ACTIVE
    held,        \* the ports whose receive right is in a space, not in transit
    backups,     \* the ports with ip_pdrequest
    ip_pset,     \* ip_pset[p]: the set p is in, or Null
    msgcount, qlimit, seqno,
    blocked,     \* blocked[p]: the senders in ip_blocked
    messages,    \* messages[q]: imq_messages of the port or set q
    receivers,   \* receivers[q]: imq_threads of q
    ith,         \* ith[t]: ith_state, ith_msize and ith_kmsg of t
    wait,        \* wait[t]: TH_WAIT, or the wait_result that ended the wait
    pc,          \* where t stands in ipc_mqueue_send or ipc_mqueue_receive
    call         \* what t's call is about, as far as it is still needed

vars == <<active, held, backups, ip_pset, msgcount, qlimit, seqno, blocked,
          messages, receivers, ith, wait, pc, call>>

Threads == Senders \cup Receivers
Queues == Ports \cup Psets

NoCall == [obj |-> Null, size |-> 0, opt |-> "none", circ |-> FALSE]
Idle == [state |-> "none", msize |-> 0, kmsg |-> Null]

Next1(n) == (n + 1) % SeqnoMod

Message == [port : Ports, size : Sizes \cup {0}, due : 0 .. SeqnoMod - 1]
MessageFor(p) == {m \in Message : m.port = p}

\* Neither the kernel nor a thread of another processor is between two lock
\* holds when t runs on a uniprocessor.
Between == {"send", "send_go", "circular", "rcv_got"}
Turn(t) == Multiprocessor \/ \A u \in Threads \ {t} : pc[u] \notin Between

\* imq_messages and imq_threads that a message for p goes to.
QueueOf(p) == IF ip_pset[p] = Null THEN p ELSE ip_pset[p]

\* The sequence number the next message accepted for p will be received with.
ForPort(ms, p) == Sublist(ms, MessageFor(p))
Due(p) == (seqno[p] + Len(ForPort(messages[QueueOf(p)], p))) % SeqnoMod

-----------------------------------------------------------------------------
(* thread_go on a set of threads. *)
thread_go(w, ts) ==
    [t \in Threads |-> IF t \in ts /\ w[t] = "waiting" THEN "awakened" ELSE w[t]]

\* The part of the state that the queue routines work on, and its
\* assignment.
Now == [ip_pset |-> ip_pset, seqno |-> seqno, messages |-> messages,
        receivers |-> receivers, ith |-> ith, wait |-> wait]

Commit(s) ==
    /\ ip_pset' = s.ip_pset /\ seqno' = s.seqno /\ messages' = s.messages
    /\ receivers' = s.receivers /\ ith' = s.ith /\ wait' = s.wait

ipc_kmsg_enqueue_Twice(ms, m) == ms \o <<m, m>>
ipc_kmsg_enqueue_Front(ms, m) == <<m>> \o ms
ipc_kmsg_enqueue(ms, m) == Append(ms, m)

\* Offer m to the receivers waiting in q: those it is too large for are sent
\* away, the first that can take it gets it, and without one it is queued.
\* The last loop of ipc_mqueue_send and the body of ipc_mqueue_move.
Fits(s, q, m) == {i \in DOMAIN s.receivers[q] : m.size <= s.ith[s.receivers[q][i]].msize}

Taker(s, q, m) ==
    LET fits == Fits(s, q, m)
    IN  IF fits = {} THEN Len(s.receivers[q]) + 1
        ELSE CHOOSE i \in fits : \A j \in fits : i <= j

Offer(s, q, m) ==
    LET rs == s.receivers[q]
        i  == Taker(s, q, m)
        small == {rs[j] : j \in 1 .. i - 1}
        taken == i <= Len(rs)
    IN  [s EXCEPT
           !.receivers[q] = SubSeq(rs, i + 1, Len(rs)),
           !.messages[q]  = IF taken THEN @ ELSE ipc_kmsg_enqueue(@, m),
           !.seqno[m.port] = IF taken THEN Next1(@) ELSE @,
           !.wait = thread_go(@, small),
           !.ith = [t \in Threads |->
                      IF t \in small THEN [@[t] EXCEPT !.state = "too_large", !.msize = m.size]
                      ELSE IF taken /\ t = rs[i] THEN [@[t] EXCEPT !.state = "success", !.kmsg = m]
                      ELSE @[t]]]

\* Offer m to the receivers in dest: those it sends away, or the one that
\* takes it, start running.
MoveOne(s, dest, m) ==
    LET o == Offer(s, dest, m)
    IN  [o EXCEPT !.wait = thread_go(@, ToSet(s.receivers[dest]) \ ToSet(o.receivers[dest]))]

\* Offer ms, one by one.
OfferAll(s, dest, ms) ==
    LET upto[i \in 0 .. Len(ms)] ==
            IF i = 0 THEN s ELSE MoveOne(upto[i - 1], dest, ms[i])
    IN  upto[Len(ms)]

ipc_mqueue_move(s, dest, source, p) ==
    OfferAll([s EXCEPT !.messages[source] = Sublist(@, Message \ MessageFor(p))],
             dest, ForPort(s.messages[source], p))

\* Wake up the receivers waiting in q, with result mr.
ipc_mqueue_changed_Asleep(s, q, mr) ==
    LET rs == ToSet(s.receivers[q])
    IN  [s EXCEPT
           !.receivers[q] = <<>>,
           !.ith = [t \in Threads |-> IF t \in rs THEN [@[t] EXCEPT !.state = mr] ELSE @[t]]]

ipc_mqueue_changed(s, q, mr) ==
    LET rs == ToSet(s.receivers[q])
    IN  [s EXCEPT
           !.receivers[q] = <<>>,
           !.wait = thread_go(@, rs),
           !.ith = [t \in Threads |-> IF t \in rs THEN [@[t] EXCEPT !.state = mr] ELSE @[t]]]

ipc_pset_add_Silent(s, set, p) ==
    ipc_mqueue_move([s EXCEPT !.ip_pset[p] = set], set, p, p)

ipc_pset_add(s, set, p) ==
    ipc_mqueue_changed(
        ipc_mqueue_move([s EXCEPT !.ip_pset[p] = set], set, p, p),
        p, "changed")

ipc_pset_remove(s, p) ==
    ipc_mqueue_move([s EXCEPT !.ip_pset[p] = Null], p, s.ip_pset[p], p)

\* A member of a dead set is taken out when somebody looks.
LeaveDeadSet(s, p) ==
    IF s.ip_pset[p] # Null /\ s.ip_pset[p] \notin active
    THEN ipc_pset_remove(s, p) ELSE s

\* ip_seqno = n: what is still queued will be numbered from n on.
Renumber(s, p, n) ==
    LET shift(ms) == [i \in DOMAIN ms |->
            IF ms[i].port # p THEN ms[i]
            ELSE [ms[i] EXCEPT !.due = (@ + n + SeqnoMod - s.seqno[p]) % SeqnoMod]]
    IN  [s EXCEPT !.seqno[p] = n,
                  !.messages = [q \in Queues |-> shift(@[q])]]

ipc_port_clear_receiver(s, p) ==
    LET alone == IF s.ip_pset[p] # Null THEN ipc_pset_remove(s, p)
                 ELSE ipc_mqueue_changed(s, p, "died")
    IN  Renumber(alone, p, 0)

-----------------------------------------------------------------------------
Init ==
    /\ active = Queues /\ held = Ports /\ backups = Backups
    /\ ip_pset = [p \in Ports |-> Null]
    /\ msgcount = [p \in Ports |-> 0]
    /\ qlimit = [p \in Ports |-> 1]
    /\ seqno = [p \in Ports |-> 0]
    /\ blocked = [p \in Ports |-> <<>>]
    /\ messages = [q \in Queues |-> <<>>]
    /\ receivers = [q \in Queues |-> <<>>]
    /\ ith = [t \in Threads |-> Idle]
    /\ wait = [t \in Threads |-> "none"]
    /\ pc = [t \in Threads |-> "user"]
    /\ call = [t \in Threads |-> NoCall]

\* t's call returns; what is left in its ith and wait fields is dead.
Return(t, s) ==
    /\ Commit([s EXCEPT !.ith[t] = Idle, !.wait[t] = "none"])
    /\ pc' = [pc EXCEPT ![t] = "user"]
    /\ call' = [call EXCEPT ![t] = NoCall]

\* t goes on to its next lock hold, about obj.
Proceed(t, s, to, obj) ==
    /\ Commit([s EXCEPT !.ith[t] = Idle, !.wait[t] = "none"])
    /\ pc' = [pc EXCEPT ![t] = to]
    /\ call' = [call EXCEPT ![t] = [NoCall EXCEPT !.obj = obj]]

\* thread_will_wait, with or without a timeout, and thread_block.
Block(t, s, c, to) ==
    /\ Commit([s EXCEPT !.wait[t] = "waiting"])
    /\ pc' = [pc EXCEPT ![t] = to]
    /\ call' = [call EXCEPT ![t] = c]

\* Senders taken off ip_blocked with ith_state = MACH_MSG_SUCCESS: they look
\* again.
Rouse_Stateless(s, ts) == [s EXCEPT !.wait = thread_go(@, ts)]

Rouse(s, ts) ==
    [s EXCEPT !.wait = thread_go(@, ts),
              !.ith = [t \in Threads |-> IF t \in ts THEN [@[t] EXCEPT !.state = "success"]
                                         ELSE @[t]]]

\* A sender may be woken when the count, after the receive, is n.
Room_Before(p, n) == n + 1 < qlimit[p]
Room(p, n) == n < qlimit[p]

-----------------------------------------------------------------------------
(* ipc_mqueue_send. *)

\* "Don't block if": under the limit, MACH_SEND_ALWAYS, or a send-once right.
MayQueue(p, opt) ==
    \/ msgcount[p] < qlimit[p]
    \/ opt = "always" /\ msgcount[p] < MaxCount

SendDead(t, c) ==
    /\ c.obj \notin active
    /\ Return(t, Now)
    /\ UNCHANGED <<held, msgcount>>

\* The message carries the destination's own receive right: it is not
\* queued but destroyed, once the port is unlocked.
SendCircular(t, c) ==
    /\ c.obj \in active /\ MayQueue(c.obj, c.opt) /\ c.circ
    /\ Proceed(t, Now, "circular", c.obj)
    /\ UNCHANGED <<held, msgcount>>

SendAccept(t, c) ==
    LET p == c.obj
        q == QueueOf(p)
        m == [port |-> p, size |-> c.size, due |-> Due(p)]
        i == Taker(Now, q, m)
        s == Offer(Now, q, m)
    IN  /\ p \in active /\ MayQueue(p, c.opt) /\ ~c.circ
        /\ msgcount' = [msgcount EXCEPT ![p] = @ + 1]
        /\ \/ i > Len(receivers[q]) /\ Return(t, s)
           \/ i <= Len(receivers[q]) /\ Proceed(t, s, "send_go", receivers[q][i])
        /\ UNCHANGED held

\* The message stays with the caller, and so does a right in it.
SendGiveUp(t, c) ==
    /\ Return(t, Now)
    /\ held' = IF c.circ THEN held \cup {c.obj} ELSE held
    /\ UNCHANGED msgcount

SendTimedOut(t, c) ==
    /\ c.obj \in active /\ ~MayQueue(c.obj, c.opt) /\ c.opt = "poll"
    /\ SendGiveUp(t, c)

\* One pass of the loop; b is ip_blocked without the caller.
SendLoop(t, c, b) ==
    \/ /\ SendDead(t, c) \/ SendCircular(t, c) \/ SendAccept(t, c) \/ SendTimedOut(t, c)
       /\ blocked' = b
    \/ /\ c.obj \in active /\ ~MayQueue(c.obj, c.opt)
       /\ c.opt \in {"none", "timeout"}
       /\ Block(t, [Now EXCEPT !.ith[t].state = "in_progress"], c, "send_wait")
       /\ blocked' = [b EXCEPT ![c.obj] = Append(@, t)]
       /\ UNCHANGED <<held, msgcount>>

ipc_mqueue_send(t) ==
    /\ t \in Senders /\ pc[t] = "user" /\ Turn(t)
    /\ \E p \in Ports, n \in Sizes, o \in Options :
          SendLoop(t, [obj |-> p, size |-> n, opt |-> o, circ |-> FALSE], blocked)
    /\ UNCHANGED <<active, backups, qlimit>>

\* ipc_kmsg_copyin moves p's receive right into a message to p itself.
SendOwnRight(t) ==
    /\ t \in Senders /\ pc[t] = "user" /\ Turn(t)
    /\ \E p \in held, o \in Options \ {"always"} :
          /\ Commit(ipc_port_clear_receiver(Now, p))
          /\ held' = held \ {p}
          /\ pc' = [pc EXCEPT ![t] = "send"]
          /\ call' = [call EXCEPT ![t] = [obj |-> p, size |-> 0, opt |-> o, circ |-> TRUE]]
    /\ UNCHANGED <<active, backups, msgcount, qlimit, blocked>>

SendOwnRightLoop(t) ==
    /\ pc[t] = "send" /\ Turn(t)
    /\ SendLoop(t, call[t], blocked)
    /\ UNCHANGED <<active, backups, qlimit>>

\* After thread_block: "why did we wake up?"
SendWoken(t) ==
    LET c == call[t]
        off == [blocked EXCEPT ![c.obj] = Sublist(@, Threads \ {t})]
    IN  /\ pc[t] = "send_wait" /\ wait[t] # "waiting" /\ Turn(t)
        /\ \/ ith[t].state = "success" /\ SendLoop(t, c, blocked)
           \/ /\ ith[t].state = "in_progress" /\ wait[t] = "interrupted"
              /\ SendGiveUp(t, c) /\ blocked' = off
           \/ /\ ith[t].state = "in_progress" /\ wait[t] = "timed_out"
              /\ SendLoop(t, [c EXCEPT !.opt = "poll"], off)
           \/ /\ ith[t].state = "in_progress" /\ wait[t] = "awakened"
              /\ SendLoop(t, c, off)
        /\ UNCHANGED <<active, backups, qlimit>>

\* The receiver that was given the message is started after the queue has
\* been unlocked.
SendGo(t) ==
    /\ pc[t] = "send_go"
    /\ Return(t, [Now EXCEPT !.wait = thread_go(@, {call[t].obj})])
    /\ UNCHANGED <<active, held, backups, msgcount, qlimit, blocked>>

-----------------------------------------------------------------------------
(* ipc_mqueue_receive. *)

\* One pass of the loop on queue c.obj, which holds s.
RcvLoop(t, c, s) ==
    LET q == c.obj
        m == Head(s.messages[q])
    IN  \/ /\ s.messages[q] # <<>> /\ m.size > c.size       \* MACH_RCV_TOO_LARGE
           /\ Return(t, s)
        \/ /\ s.messages[q] # <<>> /\ m.size <= c.size
           /\ Proceed(t, [s EXCEPT !.messages[q] = Tail(@),
                                   !.seqno[m.port] = Next1(@)], "rcv_got", m.port)
        \/ /\ s.messages[q] = <<>> /\ c.opt = "poll"        \* MACH_RCV_TIMED_OUT
           /\ Return(t, s)
        \/ /\ s.messages[q] = <<>> /\ c.opt # "poll"
           /\ Block(t, [s EXCEPT !.receivers[q] = Append(@, t),
                                 !.ith[t] = [@ EXCEPT !.state = "in_progress",
                                                      !.msize = c.size]], c, "rcv_wait")

\* ipc_mqueue_copyin: the name denotes a set, or a receive right that is in
\* no live set.
MayReceive(q) ==
    \/ q \in Psets \cap active
    \/ q \in held /\ (ip_pset[q] = Null \/ ip_pset[q] \notin active)

ipc_mqueue_receive(t) ==
    /\ t \in Receivers /\ pc[t] = "user" /\ Turn(t)
    /\ \E q \in Queues, n \in Sizes, o \in Options \ {"always"} :
          /\ MayReceive(q)
          /\ RcvLoop(t, [obj |-> q, size |-> n, opt |-> o, circ |-> FALSE],
                     IF q \in Ports THEN LeaveDeadSet(Now, q) ELSE Now)
    /\ UNCHANGED <<active, held, backups, msgcount, qlimit, blocked>>

\* After thread_block: "why did we wake up?"
RcvWoken(t) ==
    LET c == call[t]
        off == [Now EXCEPT !.receivers[c.obj] = Sublist(@, Threads \ {t})]
    IN  /\ pc[t] = "rcv_wait" /\ wait[t] # "waiting" /\ Turn(t)
        /\ \/ /\ ith[t].state = "success"
              /\ Proceed(t, Now, "rcv_got", ith[t].kmsg.port)
           \/ ith[t].state \in {"too_large", "died", "changed"} /\ Return(t, Now)
           \/ /\ ith[t].state = "in_progress" /\ wait[t] = "interrupted"
              /\ Return(t, off)
           \/ /\ ith[t].state = "in_progress" /\ wait[t] = "timed_out"
              /\ RcvLoop(t, [c EXCEPT !.opt = "poll"], off)
           \/ /\ ith[t].state = "in_progress" /\ wait[t] = "awakened"
              /\ RcvLoop(t, c, off)
        /\ UNCHANGED <<active, held, backups, msgcount, qlimit, blocked>>

\* With the message in hand: the port has room for one more sender.
RcvFinish(t) ==
    LET p == call[t].obj
        n == msgcount[p] - 1
        sender == Head(blocked[p])
    IN  /\ pc[t] = "rcv_got"
        /\ \/ /\ p \in active /\ blocked[p] # <<>> /\ Room(p, n)
              /\ Return(t, Rouse(Now, {sender}))
              /\ blocked' = [blocked EXCEPT ![p] = Tail(@)]
              /\ msgcount' = [msgcount EXCEPT ![p] = n]
           \/ /\ p \in active /\ ~(blocked[p] # <<>> /\ Room(p, n))
              /\ Return(t, Now)
              /\ msgcount' = [msgcount EXCEPT ![p] = n]
              /\ UNCHANGED blocked
           \/ /\ p \notin active
              /\ Return(t, Now)
              /\ UNCHANGED <<msgcount, blocked>>
        /\ UNCHANGED <<active, held, backups, qlimit>>

\* thread_halt cleans up a receiver whose wait it has interrupted.
mach_msg_interrupt(t) ==
    /\ pc[t] = "rcv_wait" /\ wait[t] # "waiting" /\ Turn(t)
    /\ ith[t].state = "in_progress"
    /\ Return(t, [Now EXCEPT !.receivers[call[t].obj] = Sublist(@, Threads \ {t})])
    /\ UNCHANGED <<active, held, backups, msgcount, qlimit, blocked>>

-----------------------------------------------------------------------------
(* clear_wait: the timer of a wait with a timeout goes off (from the clock, *)
(* at any time), or another thread aborts the wait.                         *)
Quiet == Multiprocessor \/ \A u \in Threads : pc[u] \notin Between

WaitEnds(t, result) ==
    /\ wait[t] = "waiting"
    /\ wait' = [wait EXCEPT ![t] = result]
    /\ UNCHANGED <<active, held, backups, ip_pset, msgcount, qlimit, seqno,
                   blocked, messages, receivers, ith, pc, call>>

Timeout(t) == call[t].opt = "timeout" /\ WaitEnds(t, "timed_out")
Interrupt(t) == Quiet /\ WaitEnds(t, "interrupted")

-----------------------------------------------------------------------------
(* Operations on the receive right, by any thread. *)

ipc_port_set_qlimit(p) ==
    /\ Quiet /\ p \in held
    /\ \E n \in Qlimits :
          LET wakeup == IF n <= qlimit[p] THEN 0
                        ELSE IF n - qlimit[p] < Len(blocked[p]) THEN n - qlimit[p]
                        ELSE Len(blocked[p])
          IN  /\ qlimit' = [qlimit EXCEPT ![p] = n]
              /\ Commit(Rouse(Now, ToSet(SubSeq(blocked[p], 1, wakeup))))
              /\ blocked' = [blocked EXCEPT ![p] = SubSeq(@, wakeup + 1, Len(@))]
    /\ UNCHANGED <<active, held, backups, msgcount, pc, call>>

ipc_port_set_seqno(p) ==
    /\ Quiet /\ p \in held
    /\ \E n \in {0, SeqnoMod - 1} : Commit(Renumber(LeaveDeadSet(Now, p), p, n))
    /\ UNCHANGED <<active, held, backups, msgcount, qlimit, blocked, pc, call>>

\* ipc_pset_move, with nset = Null to take p out of its set.
ipc_pset_move(p) ==
    /\ Quiet /\ p \in held
    /\ \E nset \in (Psets \cap active) \cup {Null} :
          LET out == IF ip_pset[p] = Null THEN Now ELSE ipc_pset_remove(Now, p)
          IN  /\ nset # ip_pset[p]
              /\ Commit(IF nset = Null THEN out ELSE ipc_pset_add(out, nset, p))
    /\ UNCHANGED <<active, held, backups, msgcount, qlimit, blocked, pc, call>>

ipc_pset_destroy(set) ==
    /\ Quiet /\ set \in active
    /\ active' = active \ {set}
    /\ Commit(ipc_mqueue_changed(Now, set, "died"))
    /\ UNCHANGED <<held, backups, msgcount, qlimit, blocked, pc, call>>

\* The receive right goes into a message for another port, and comes out.
Carried(p) == \E t \in Threads : call[t].obj = p /\ (call[t].circ \/ pc[t] = "circular")

MoveRight(p) ==
    /\ Quiet /\ p \in held
    /\ held' = held \ {p}
    /\ Commit(ipc_port_clear_receiver(Now, p))
    /\ UNCHANGED <<active, backups, msgcount, qlimit, blocked, pc, call>>

CopyoutRight(p) ==
    /\ Quiet /\ p \in (active \cap Ports) \ held /\ ~Carried(p)
    /\ held' = held \cup {p}
    /\ UNCHANGED <<active, backups, ip_pset, msgcount, qlimit, seqno, blocked,
                   messages, receivers, ith, wait, pc, call>>

\* ipc_port_destroy on a port that ipc_port_clear_receiver has left as s.
\* A port with a backup goes into limbo instead, on its way to the backup.
ipc_port_destroy(p, s) ==
    /\ held' = held \ {p}
    /\ \/ /\ p \in backups
          /\ backups' = backups \ {p}
          /\ Commit(s)
          /\ UNCHANGED <<active, blocked>>
       \/ /\ p \notin backups
          /\ active' = active \ {p}
          /\ blocked' = [blocked EXCEPT ![p] = <<>>]
          /\ Commit(Rouse(s, ToSet(blocked[p])))
          /\ UNCHANGED backups
    /\ UNCHANGED <<msgcount, qlimit>>

DestroyRight(p) ==
    /\ Quiet /\ p \in held
    /\ ipc_port_destroy(p, ipc_port_clear_receiver(Now, p))
    /\ UNCHANGED <<pc, call>>

\* The message that carries the right is destroyed.
DestroyInTransit(p) ==
    /\ Quiet /\ p \in (active \cap Ports) \ held /\ ~Carried(p)
    /\ ipc_port_destroy(p, Now)
    /\ UNCHANGED <<pc, call>>

DestroyCircular(t) ==
    /\ pc[t] = "circular"
    /\ ipc_port_destroy(call[t].obj, Now)
    /\ pc' = [pc EXCEPT ![t] = "user"]
    /\ call' = [call EXCEPT ![t] = NoCall]

\* ipc_port_destroy, after the port is dead: the queued messages go.
DestroyMessage(p) ==
    /\ Quiet /\ p \notin active /\ messages[p] # <<>>
    /\ messages' = [messages EXCEPT ![p] = Tail(@)]
    /\ UNCHANGED <<active, held, backups, ip_pset, msgcount, qlimit, seqno,
                   blocked, receivers, ith, wait, pc, call>>

-----------------------------------------------------------------------------
ThreadStep(t) ==
    \/ ipc_mqueue_send(t) \/ SendOwnRight(t) \/ SendOwnRightLoop(t)
    \/ SendWoken(t) \/ SendGo(t) \/ DestroyCircular(t)
    \/ ipc_mqueue_receive(t) \/ RcvWoken(t) \/ RcvFinish(t)
    \/ mach_msg_interrupt(t) \/ Timeout(t) \/ Interrupt(t)

PortStep(p) ==
    \/ ipc_port_set_qlimit(p) \/ ipc_port_set_seqno(p) \/ ipc_pset_move(p)
    \/ MoveRight(p) \/ CopyoutRight(p) \/ DestroyRight(p)
    \/ DestroyInTransit(p) \/ DestroyMessage(p)

Next ==
    \/ \E t \in Threads : ThreadStep(t)
    \/ \E p \in Ports : PortStep(p)
    \/ \E set \in Psets : ipc_pset_destroy(set)

Spec == Init /\ [][Next]_vars

\* What the kernel does for t once t is runnable: the rest of its call.
KernelStep(t) ==
    \/ SendOwnRightLoop(t) \/ SendWoken(t) \/ SendGo(t) \/ DestroyCircular(t)
    \/ RcvWoken(t) \/ RcvFinish(t)

(* Fairness: a runnable thread runs; receivers keep receiving while the     *)
(* port's right is in their space; and a right in transit arrives, or its   *)
(* message is destroyed.                                                    *)
FairSpec ==
    /\ Spec
    /\ \A t \in Threads : WF_vars(KernelStep(t))
    /\ \A t \in Receivers : SF_vars(ipc_mqueue_receive(t))
    /\ \A p \in Ports : SF_vars(CopyoutRight(p) \/ DestroyInTransit(p))

-----------------------------------------------------------------------------
Ith == [state : {"none", "in_progress", "success", "too_large", "died", "changed"},
        msize : Sizes \cup {0}, kmsg : Message \cup {Null}]
Waiting == {"none", "waiting", "awakened", "timed_out", "interrupted"}
Call == [obj : Queues \cup Threads \cup {Null}, size : Sizes \cup {0},
         opt : Options \cup {"none", "poll"}, circ : BOOLEAN]

(* The ports, the queues and the threads' IPC fields have their types.      *)
TypeOK ==
    /\ active \subseteq Queues /\ held \subseteq Ports /\ backups \subseteq Ports
    /\ ip_pset \in [Ports -> Psets \cup {Null}]
    /\ msgcount \in [Ports -> Nat] /\ qlimit \in [Ports -> Qlimits \cup {1}]
    /\ seqno \in [Ports -> 0 .. SeqnoMod - 1]
    /\ blocked \in [Ports -> Seq(Threads)]
    /\ messages \in [Queues -> Seq(Message)] /\ receivers \in [Queues -> Seq(Threads)]
    /\ ith \in [Threads -> Ith] /\ wait \in [Threads -> Waiting]
    /\ pc \in [Threads -> {"user", "send", "send_wait", "send_go", "circular",
                           "rcv_wait", "rcv_got"}]
    /\ call \in [Threads -> Call]

\* The messages for p that receivers have, but that ip_msgcount still counts.
InHand(p) ==
    {t \in Threads :
        \/ pc[t] = "rcv_got" /\ call[t].obj = p
        \/ pc[t] = "rcv_wait" /\ ith[t].state = "success" /\ ith[t].kmsg.port = p}

(* No message is lost or counted twice (ipc_mqueue.c, the two asserts on    *)
(* ip_msgcount): a live port's count is the messages in the queue it uses   *)
(* now, which holds all of them, plus those on their way to a receiver.     *)
MsgcountExact ==
    \A p \in Ports \cap active :
        /\ msgcount[p] = Len(ForPort(messages[QueueOf(p)], p)) + Cardinality(InHand(p))
        /\ \A q \in Queues \ {QueueOf(p)} : ForPort(messages[q], p) = <<>>

(* Messages are received in the order they were accepted, and numbered in   *)
(* that order, whatever sets the port joins and leaves meanwhile: what is   *)
(* queued for p is due consecutive numbers, the next one first.             *)
FifoOrder ==
    \A p \in Ports \cap active :
        LET ms == ForPort(messages[QueueOf(p)], p)
        IN  \A i \in DOMAIN ms : ms[i].due = (seqno[p] + i - 1) % SeqnoMod

(* ipc_mqueue.c:185, 455 and ipc_pset.c:168, 173: a queue that receivers    *)
(* wait in is empty, the own queue of a port in a set is unused, and nobody *)
(* waits on a dead port or set (ipc_port.c:769).                            *)
QueuesConsistent ==
    /\ \A q \in Queues :
          /\ receivers[q] # <<>> => messages[q] = <<>>
          /\ q \notin active => receivers[q] = <<>>
    /\ \A p \in Ports :
          /\ ip_pset[p] # Null => messages[p] = <<>> /\ receivers[p] = <<>>
          /\ p \notin active => ip_pset[p] = Null /\ blocked[p] = <<>>

\* Senders to p that were told to look again and have not looked yet.
Granted(p) ==
    {t \in Threads : pc[t] = "send_wait" /\ ith[t].state = "success" /\ call[t].obj = p}

(* No sender is left behind: while senders wait on a live port, the queue   *)
(* is full, or enough woken senders to fill it have not looked yet.  A      *)
(* circular message being destroyed is about to rouse them all.             *)
NoSenderStranded ==
    \A p \in Ports \cap active :
        blocked[p] # <<>> =>
            \/ msgcount[p] + Cardinality(Granted(p)) >= qlimit[p]
            \/ \E t \in Threads : pc[t] = "circular" /\ call[t].obj = p

(* No thread waits for nothing: a thread with TH_WAIT on is in the queue it *)
(* waits in, exactly once, or its sender is about to call thread_go.        *)
NoOrphanWaiter ==
    \A t \in Threads :
        wait[t] = "waiting" =>
            LET q == IF pc[t] = "send_wait" THEN blocked[call[t].obj]
                     ELSE receivers[call[t].obj]
            IN  \/ /\ ith[t].state = "in_progress"
                   /\ Cardinality({i \in DOMAIN q : q[i] = t}) = 1
                \/ \E u \in Threads : pc[u] = "send_go" /\ call[u].obj = t

(* The assertions after thread_block, assert(!"ipc_mqueue_send") and        *)
(* assert(!"ipc_mqueue_receive"): a thread that wakes up before its         *)
(* operation is complete was interrupted or timed out.                      *)
NoStrangeWakeup ==
    \A t \in Threads :
        ith[t].state = "in_progress" => wait[t] # "awakened"

(* A sender that waits for room in a port's queue is told to look again, as *)
(* long as somebody receives: it leaves ip_blocked, unless the receive      *)
(* right is in a message that waits for that very queue.                    *)
SenderReleased ==
    \A p \in Ports, t \in Senders :
        t \in ToSet(blocked[p]) ~> t \notin ToSet(blocked[p]) \/ Carried(p)

=============================================================================
