------------------------------- MODULE Rights -------------------------------
(***************************************************************************)
(* Port rights: the entries of capability spaces and the counts kept in    *)
(* ports (ipc/ipc_right.c, ipc_object.c, ipc_port.c, ipc_notify.c), the    *)
(* calls of mach_port.c on them, and ipc_kmsg_copyin_header.               *)
(*                                                                         *)
(* An operation runs under the write lock of its space and the lock of the *)
(* port, and is one step; what it still does after dropping them (sending  *)
(* notifications, freeing a dead port) is to objects nobody else can       *)
(* reach any more, or commutes.  ipc_kmsg_copyin_header keeps its space    *)
(* locked and takes port locks one after the other: other spaces make      *)
(* steps in between.                                                       *)
(*                                                                         *)
(* A right that the kernel holds, in a message or for a moment, is naked:  *)
(* the ports count them in the history fields nsend, nonce and nrecv.      *)
(* A notification is a message to the port of a send-once right; ports     *)
(* count those queued in notes.  Names carry no generation: one that is    *)
(* freed may be given out again.  Port sets, msg-accepted requests, compat *)
(* entries and the failure to allocate memory are left out.                *)
(***************************************************************************)
EXTENDS Integers, FiniteSets, Sequences, TLC
LOCAL INSTANCE Functions
LOCAL INSTANCE FiniteSetsExt
LOCAL INSTANCE SequencesExt

CONSTANTS
    Ports, Spaces, Names,
    None,            \* IP_NULL, IS_NULL, IO_NULL
    Dead,            \* IO_DEAD
    Slots,           \* bound: indices of a table of dead-name requests
    UrefsMax,        \* MACH_PORT_UREFS_MAX
    Deltas,          \* what mach_port_mod_refs is called with
    Limit,           \* bounds: make-send counts, naked send rights, send-once
                     \* rights, names in use, ports and spaces in use
    Windows          \* the narrow windows that are open, see Window

(***************************************************************************)
(* The windows that the code leaves for a right to be counted wrong.       *)
(*   "backup"  a receive right is released whose port has a port-destroyed *)
(*             request, while its name also denotes send rights;           *)
(*   "same"    the two names of a header denote the same port.             *)
(***************************************************************************)
Window == {"backup", "same"}

ASSUME ConstantsAssumption ==
    /\ {None, Dead} \cap (Ports \cup Spaces) = {} /\ None # Dead /\ Ports \cap Spaces = {}
    /\ Slots \subseteq Nat \ {0} /\ IsFiniteSet(Slots)
    /\ UrefsMax \in Nat /\ UrefsMax > 2
    /\ Deltas \subseteq Int
    /\ Limit \in [{"make", "send", "once", "names", "parts"} -> Nat]
    /\ Windows \subseteq Window

VARIABLES
    port,        \* the ports, see PortType
    entry,       \* the entries of each space, see EntryType
    active,      \* the spaces that are not being destroyed
    deaths,      \* the dead ports in the order of ip_timestamp
    hdr,         \* the thread in ipc_kmsg_copyin_header
    known,       \* history: the user references each space has been told of
    seen         \* history: for hdr, whether destination and reply port were
                 \* alive, in each state since it took the lock
vars == <<port, entry, active, deaths, hdr, known, seen>>

\* type and urefs are ie_bits, request is an index of the port's slots or 0.
NoEntry == [type |-> {}, urefs |-> 0, object |-> None, request |-> 0]
DeadName(n) == [NoEntry EXCEPT !.type = {"dead"}, !.urefs = n]

NoPort == [state |-> "free", refs |-> 0, srights |-> 0, sorights |-> 0, mscount |-> 0,
           receiver |-> None, ns |-> None, pd |-> None, dest |-> None,
           dn |-> <<>>, notes |-> 0, nsend |-> 0, nonce |-> 0, nrecv |-> 0,
           had |-> FALSE, vacant |-> FALSE]

\* ipc_port_init
ipc_port_init(s) == [NoPort EXCEPT !.state = "active", !.refs = 1, !.receiver = s]

NoHeader == [space |-> None, dname |-> None, rname |-> None, dtype |-> None,
             rtype |-> None, dest |-> None, dso |-> None, saved |-> None]

Alive(P, p) == P[p].state = "active"
Ref(P, p, n) == [P EXCEPT ![p].refs = @ + n]

-----------------------------------------------------------------------------
(* The port.  An operator that ends a right takes the ports P to what they  *)
(* are afterwards; Commit frees those without a reference.                  *)

\* A message is sent to the send-once right q, which takes the right along; a
\* dead port only loses its reference.
Notify(P, q) ==
    IF q = None THEN P
    ELSE IF Alive(P, q) THEN [P EXCEPT ![q].notes = @ + 1]
    ELSE Ref(P, q, -1)

\* A send right of p is gone; the last one takes the no-senders request along.
DropSend(P, p) ==
    LET Q == [P EXCEPT ![p].srights = @ - 1]
    IN  IF Q[p].srights = 0 /\ Q[p].ns # None
        THEN Notify([Q EXCEPT ![p].ns = None, ![p].vacant = TRUE], Q[p].ns)
        ELSE Q

ipc_port_release_send(P, p) ==
    IF Alive(P, p) THEN DropSend(Ref(P, p, -1), p) ELSE Ref(P, p, -1)

ipc_port_release_sonce(P, p) ==
    IF Alive(P, p) THEN [Ref(P, p, -1) EXCEPT ![p].sorights = @ - 1] ELSE Ref(P, p, -1)

Request(P, p, i) == IF i = 0 THEN None ELSE P[p].dn[i].soright

\* ipc_port_dncancel; the send-once right is Request.
Cancel(P, p, i) == [P EXCEPT ![p].dn = Restrict(@, DOMAIN @ \ {i})]

ipc_port_clear_receiver(P, p) == [P EXCEPT ![p].mscount = 0]

\* The port dies: its requests are answered and the notifications queued at it
\* are thrown away.  The slots stay, as a history, until the port is freed.
Die(P, p) ==
    LET Q == Notify([Ref(P, p, -P[p].notes) EXCEPT
                        ![p].state = "dead", ![p].notes = 0, ![p].ns = None], P[p].ns)
    IN  Ref(FoldSet(LAMBDA i, R : Notify(R, P[p].dn[i].soright), Q, DOMAIN P[p].dn), p, -1)

\* ipc_port_check_circularity: is q, or the port its right is queued at, ... p?
Circular(P, p, q) ==
    LET at[n \in 0..Cardinality(Ports)] ==
            IF n = 0 THEN q
            ELSE IF at[n - 1] = None THEN None ELSE P[at[n - 1]].dest
    IN  p \in Range(at)

\* ipc_port_destroy, which consumes the reference of the receive right: a port
\* with a backup is sent there instead.
Destroy(P, p) ==
    LET q == P[p].pd
        limbo == [P EXCEPT ![p].pd = None, ![p].receiver = None, ![p].dest = None]
    IN  IF q = None THEN Die(P, p)
        ELSE IF Circular(P, p, q) THEN Die(ipc_port_release_sonce(limbo, q), p)
        ELSE Notify(Ref([limbo EXCEPT ![p].nrecv = 1, ![p].dest = q], q, 1), q)

-----------------------------------------------------------------------------
(* Entries. *)

\* Without the reference for the notification.
DeadEntry_NoBump(e) == DeadName(e.urefs)

\* ipc_right_check of an entry whose port has died: a dead name, with a user
\* reference for the notification that has been sent.
DeadEntry(e) == DeadName(e.urefs + IF e.request = 0 THEN 0 ELSE 1)
Died(e) == e.object # None /\ ~Alive(port, e.object)

\* ipc_right_check, as the ports and the entry it leaves.
Checked(P, e) ==
    IF e.object # None /\ ~Alive(P, e.object)
    THEN [port |-> Ref(P, e.object, -1), e |-> DeadEntry(e)]
    ELSE [port |-> P, e |-> e]

\* What ipc_right_destroy and ipc_right_clean do about the port of an entry.
EndEntry(P, e) ==
    LET p == e.object
        so == Request(P, p, e.request)
        P1 == Cancel(P, p, e.request)
        P2 == IF "send" \in e.type THEN DropSend(P1, p) ELSE P1
        P3 == CASE "receive" \in e.type -> Destroy(ipc_port_clear_receiver(P2, p), p)
                [] "once" \in e.type -> Notify(P2, p)
                [] OTHER -> Ref(P2, p, -1)
    IN  IF p = None THEN P
        ELSE IF Alive(P, p) THEN Notify(P3, so)
        ELSE Ref(P, p, -1)

\* A send-once right is given up: ipc_notify_send_once, port-deleted.
EndOnce(P, e) == Notify(Notify(Cancel(P, e.object, e.request), e.object),
                        Request(P, e.object, e.request))

\* The request of a name that goes is left behind.
SendDelta_KeepSlot(P, e, d) ==
    LET p == e.object
    IN  IF e.urefs + d # 0 THEN [port |-> P, e |-> [e EXCEPT !.urefs = @ + d]]
        ELSE IF "receive" \in e.type
        THEN [port |-> DropSend(P, p), e |-> [e EXCEPT !.urefs = 0, !.type = {"receive"}]]
        ELSE [port |-> Ref(DropSend(P, p), p, -1), e |-> NoEntry]

\* The user references of a send right change by d, in ipc_right_delta and
\* ipc_right_dealloc.
SendDelta(P, e, d) ==
    LET p == e.object
    IN  IF e.urefs + d # 0 THEN [port |-> P, e |-> [e EXCEPT !.urefs = @ + d]]
        ELSE IF "receive" \in e.type
        THEN [port |-> DropSend(P, p), e |-> [e EXCEPT !.urefs = 0, !.type = {"receive"}]]
        ELSE [port |-> Notify(Ref(Cancel(DropSend(P, p), p, e.request), p, -1),
                              Request(P, p, e.request)),
              e |-> NoEntry]

DeadDelta(e, d) == IF e.urefs + d = 0 THEN NoEntry ELSE DeadName(e.urefs + d)

Copied(P, e, object, soright) == [port |-> P, e |-> e, object |-> object, so |-> soright]
InvalidRight(P, e) == Copied(P, e, None, None)

\* The labels copy_dead and move_dead of ipc_right_copyin.
CopyinDead(P, e, t, deadok) ==
    IF ~deadok THEN InvalidRight(P, e)
    ELSE Copied(P, IF t = "copy_send" THEN e ELSE DeadDelta(e, -1), Dead, None)

\* The rights in transit are not counted.
MoveSends_Uncounted(P, e, n) ==
    LET p == e.object
        Q(k) == [P EXCEPT ![p].refs = @ + k, ![p].nsend = @ + n]
    IN  IF e.urefs > n THEN Copied(Q(n), [e EXCEPT !.urefs = @ - n], p, None)
        ELSE IF "receive" \in e.type
        THEN Copied(Ref(Q(n - 1), p, 1), [e EXCEPT !.urefs = 0, !.type = {"receive"}], p, None)
        ELSE Copied(Cancel(Q(n - 1), p, e.request), NoEntry, p, Request(P, p, e.request))

\* n send rights move out of an entry (ipc_right_copyin, ipc_right_copyin_two).
MoveSends(P, e, n) ==
    LET p == e.object
        Q(k) == [P EXCEPT ![p].srights = @ + k, ![p].refs = @ + k, ![p].nsend = @ + n]
    IN  IF e.urefs > n THEN Copied(Q(n), [e EXCEPT !.urefs = @ - n], p, None)
        ELSE IF "receive" \in e.type
        THEN Copied(Ref(Q(n - 1), p, 1), [e EXCEPT !.urefs = 0, !.type = {"receive"}], p, None)
        ELSE Copied(Cancel(Q(n - 1), p, e.request), NoEntry, p, Request(P, p, e.request))

\* A send right is made, without counting it in ip_mscount.
MakeSend_NoMake(P, p) ==
    [P EXCEPT ![p].srights = @ + 1, ![p].refs = @ + 1, ![p].nsend = @ + 1]

MakeSend(P, p) == [P EXCEPT ![p].mscount = @ + 1, ![p].srights = @ + 1,
                            ![p].refs = @ + 1, ![p].nsend = @ + 1]

CopyinReceive(P, e, t) ==
    LET p == e.object
    IN  CASE t = "make_send" -> Copied(MakeSend(P, p), e, p, None)
          [] t = "make_sonce" ->
                Copied([P EXCEPT ![p].sorights = @ + 1, ![p].refs = @ + 1,
                                 ![p].nonce = @ + 1], e, p, None)
          [] t = "move_receive" ->
                LET Q == [ipc_port_clear_receiver(P, p) EXCEPT
                             ![p].receiver = None, ![p].dest = None, ![p].nrecv = 1]
                IN  IF "send" \in e.type
                    THEN Copied(Ref(Q, p, 1), [e EXCEPT !.type = {"send"}], p, None)
                    ELSE Copied(Cancel(Q, p, e.request), NoEntry, p, Request(P, p, e.request))

Receives == {"make_send", "make_sonce", "move_receive"}
Sends == {"copy_send", "move_send", "move_sonce"}

ipc_right_copyin(P, e, t, deadok) ==
    LET p == e.object
        c == Checked(P, e)
    IN  CASE t \in Receives ->
                IF "receive" \in e.type THEN CopyinReceive(P, e, t) ELSE InvalidRight(P, e)
          [] t \in Sends /\ (e.type = {} \/ e.type = {"receive"}) -> InvalidRight(P, e)
          [] t \in Sends /\ "dead" \in c.e.type -> CopyinDead(c.port, c.e, t, deadok)
          [] t = "move_sonce" /\ p # None /\ Alive(P, p) ->
                IF "once" \notin e.type THEN InvalidRight(P, e)
                ELSE Copied([Cancel(P, p, e.request) EXCEPT ![p].nonce = @ + 1], NoEntry,
                            p, Request(P, p, e.request))
          [] t \in {"copy_send", "move_send"} /\ p # None /\ Alive(P, p) ->
                IF "send" \notin e.type THEN InvalidRight(P, e)
                ELSE IF t = "move_send" THEN MoveSends(P, e, 1)
                ELSE Copied([P EXCEPT ![p].srights = @ + 1, ![p].refs = @ + 1,
                                      ![p].nsend = @ + 1], e, p, None)

\* Moving a right takes a user reference from its name.
Cost(t) == IF t \in {"move_send", "move_sonce"} THEN 1 ELSE 0

\* ipc_right_copyin_undo; the object is Dead or a dead port, so what it gives
\* back is a dead name.
ipc_right_copyin_undo(P, e, t, object, so) ==
    LET c == Checked(P, [e EXCEPT !.urefs = @ + Cost(t)])
        r == IF so # None THEN [port |-> P, e |-> DeadName(2)]
             ELSE IF e.type = {} THEN [port |-> P, e |-> DeadName(1)]
             ELSE c
    IN  [r EXCEPT !.port =
            IF object = Dead THEN @
            ELSE IF t = "move_sonce" THEN [Ref(@, object, -1) EXCEPT ![object].nonce = @ - 1]
            ELSE [Ref(@, object, -1) EXCEPT ![object].nsend = @ - 1]]

-----------------------------------------------------------------------------
(* The rights that there are. *)

Held(E, p, t) == Cardinality({x \in Spaces \X Names :
                     E[x[1]][x[2]].object = p /\ t \in E[x[1]][x[2]].type})
SendRights(P, E, p) == P[p].nsend + Held(E, p, "send")

\* A dead port is only held by references, and its counts are not used again.
Corpse(r) == [NoPort EXCEPT !.state = "dead", !.refs = r.refs,
                            !.nsend = r.nsend, !.nonce = r.nonce]

\* The ports are P, the entries E, and the spaces have been told of the user
\* references K, and of those for the ports that have died.
Commit(P, E, K) ==
    LET died == {p \in Ports : Alive(port, p) /\ P[p].state = "dead"}
        Told(s, n) == IF died = {} THEN {} ELSE {x \in died \X Slots :
                          /\ x[2] \in DOMAIN P[x[1]].dn
                          /\ P[x[1]].dn[x[2]].space = s /\ P[x[1]].dn[x[2]].name = n}
    IN  /\ port' = [p \in Ports |->
              IF P[p].refs = 0 THEN NoPort
              ELSE IF Alive(P, p)
              THEN [P[p] EXCEPT !.had = P[p].ns # None /\ (@ \/ SendRights(P, E, p) > 0),
                                !.vacant = @ /\ P[p].mscount = port[p].mscount]
              ELSE Corpse(P[p])]
        /\ entry' = E
        /\ known' = [s \in Spaces |-> [n \in Names |->
              IF s \in active' THEN K[s][n] + Cardinality(Told(s, n)) ELSE 0]]
        /\ deaths' = SelectSeq(deaths, LAMBDA p : P[p].refs # 0)
                        \o SetToSeq({p \in died : P[p].refs # 0})
        /\ seen' = IF hdr' = NoHeader THEN {}
                   ELSE seen \cup {<<Alive(P, hdr'.dest),
                                     hdr'.saved # None /\ Alive(P, hdr'.saved)>>}

At(s, n, e) == [entry EXCEPT ![s][n] = e]
Gain(s, n, k) == [known EXCEPT ![s][n] = @ + k]
Forget(s, n) == [known EXCEPT ![s][n] = 0]

\* The spaces whose lock a call can take.
Unlocked == active \ {hdr.space}

-----------------------------------------------------------------------------
(* Calls on the names of a space. *)

\* mach_port_allocate of a receive right.
AllocateReceive(s, n, p) ==
    /\ entry[s][n] = NoEntry /\ port[p] = NoPort
    /\ UNCHANGED <<active, hdr>>
    /\ Commit([port EXCEPT ![p] = ipc_port_init(s)],
              At(s, n, [NoEntry EXCEPT !.type = {"receive"}, !.object = p]), known)

\* mach_port_type, mach_port_get_refs, and calls that fail, notice a dead port.
ipc_right_info(s, n) ==
    /\ Died(entry[s][n])
    /\ UNCHANGED <<active, hdr>>
    /\ LET c == Checked(port, entry[s][n]) IN Commit(c.port, At(s, n, c.e), known)

mach_port_destroy(s, n) ==
    /\ entry[s][n] # NoEntry
    /\ UNCHANGED <<active, hdr>>
    /\ Commit(EndEntry(port, entry[s][n]), At(s, n, NoEntry), Forget(s, n))

mach_port_deallocate(s, n) ==
    LET e == entry[s][n]
        c == Checked(port, e)
        d == SendDelta(port, e, -1)
    IN  /\ e.type \cap {"send", "once", "dead"} # {}
        /\ UNCHANGED <<active, hdr>>
        /\ \/ /\ "dead" \in c.e.type
              /\ Commit(c.port, At(s, n, DeadDelta(c.e, -1)), Gain(s, n, -1))
           \/ /\ "once" \in c.e.type
              /\ Commit(EndOnce(port, e), At(s, n, NoEntry), Gain(s, n, -1))
           \/ /\ "send" \in c.e.type
              /\ Commit(d.port, At(s, n, d.e), Gain(s, n, -1))

\* mach_port_mod_refs of a receive right by -1.  A send right under the same
\* name turns into a dead name; its count and its request are left to the
\* port's death.
ReleaseReceive(s, n) ==
    LET e == entry[s][n]
        p == e.object
        Q == ipc_port_clear_receiver(port, p)
    IN  /\ "receive" \in e.type
        /\ UNCHANGED <<active, hdr>>
        /\ \/ /\ "send" \in e.type
              /\ "backup" \notin Windows => port[p].pd = None
              /\ Commit(Destroy(Q, p), At(s, n, DeadEntry(e)), known)
           \/ /\ "send" \notin e.type
              /\ Commit(Notify(Destroy(Cancel(Q, p, e.request), p), Request(Q, p, e.request)),
                        At(s, n, NoEntry), known)

\* mach_port_mod_refs of the other rights by d, when it succeeds.
mach_port_mod_refs(s, n, d) ==
    LET e == entry[s][n]
        c == Checked(port, e)
        r == SendDelta(port, e, d)
    IN  /\ d # 0
        /\ UNCHANGED <<active, hdr>>
        /\ \/ /\ "dead" \in c.e.type /\ c.e.urefs + d \in 0..UrefsMax
              /\ Commit(c.port, At(s, n, DeadDelta(c.e, d)), Gain(s, n, d))
           \/ /\ "once" \in c.e.type /\ d = -1
              /\ Commit(EndOnce(port, e), At(s, n, NoEntry), Gain(s, n, d))
           \/ /\ "send" \in c.e.type /\ e.urefs + d \in 0..(UrefsMax - 1)
              /\ Commit(r.port, At(s, n, r.e), Gain(s, n, d))

\* ipc_object_copyin, for mach_port_extract_right and the body of a message.
ipc_object_copyin(s, n, t) ==
    LET e == entry[s][n]
        c == ipc_right_copyin(port, e, t, TRUE)
    IN  /\ e # NoEntry /\ c.object # None
        /\ UNCHANGED <<active, hdr>>
        /\ Commit(Notify(c.port, c.so), At(s, n, c.e), Gain(s, n, -Cost(t)))

\* The header of a message whose two rights are moved out of the same name.
CopyinTwo(s, n) ==
    LET e == entry[s][n]
        c == MoveSends(port, e, 2)
    IN  /\ "send" \in e.type /\ e.urefs >= 2 /\ ~Died(e)
        /\ UNCHANGED <<active, hdr>>
        /\ Commit(Notify(c.port, c.so), At(s, n, c.e), Gain(s, n, -2))

-----------------------------------------------------------------------------
(* Naked rights. *)

\* A right for p that is not the destination of the header.
Addressed(p, T) == IF hdr.dest = p /\ hdr.dtype \in T THEN 1 ELSE 0
NakedSend(p) == port[p].nsend > Addressed(p, {"make_send", "copy_send", "move_send"})
NakedOnce(p) == port[p].nonce > Addressed(p, {"make_sonce", "move_sonce"})

\* ipc_object_copyout finds the name the space has, or takes a new one.
NameFor(s, n, p) ==
    IF \E m \in Names : entry[s][m].object = p /\ "once" \notin entry[s][m].type
    THEN entry[s][n].object = p /\ "once" \notin entry[s][n].type
    ELSE entry[s][n] = NoEntry

CopyoutOnce(s, n, p) ==
    /\ Alive(port, p) /\ NakedOnce(p) /\ entry[s][n] = NoEntry
    /\ UNCHANGED <<active, hdr>>
    /\ Commit([port EXCEPT ![p].nonce = @ - 1],
              At(s, n, [NoEntry EXCEPT !.type = {"once"}, !.urefs = 1, !.object = p]),
              Gain(s, n, 1))

\* A send right joins the ones the space has, up to the limit.
CopyoutSend(s, n, p) ==
    LET e == entry[s][n]
        Q == [port EXCEPT ![p].nsend = @ - 1]
        pegged == e.urefs + 1 = UrefsMax
    IN  /\ Alive(port, p) /\ NakedSend(p) /\ NameFor(s, n, p)
        /\ UNCHANGED <<active, hdr>>
        /\ \/ /\ "send" \in e.type
              /\ Commit([Ref(Q, p, -1) EXCEPT ![p].srights = @ - 1],
                        IF pegged THEN entry ELSE At(s, n, [e EXCEPT !.urefs = @ + 1]),
                        IF pegged THEN known ELSE Gain(s, n, 1))
           \/ /\ "send" \notin e.type
              /\ Commit(IF "receive" \in e.type THEN Ref(Q, p, -1) ELSE Q,
                        At(s, n, [e EXCEPT !.type = @ \cup {"send"}, !.urefs = 1, !.object = p]),
                        Gain(s, n, 1))

\* The port the right was queued at keeps its reference.
CopyoutReceive_KeepDest(s, n, p) ==
    LET e == entry[s][n]
        Q == [port EXCEPT ![p].nrecv = 0, ![p].receiver = s, ![p].dest = None]
        R == IF "send" \in e.type THEN Ref(Q, p, -1) ELSE Q
    IN  /\ port[p].nrecv = 1 /\ NameFor(s, n, p)
        /\ UNCHANGED <<active, hdr>>
        /\ Commit(R, At(s, n, [e EXCEPT !.type = @ \cup {"receive"}, !.object = p]), known)

CopyoutReceive(s, n, p) ==
    LET e == entry[s][n]
        Q == [port EXCEPT ![p].nrecv = 0, ![p].receiver = s, ![p].dest = None]
        R == IF "send" \in e.type THEN Ref(Q, p, -1) ELSE Q
    IN  /\ port[p].nrecv = 1 /\ NameFor(s, n, p)
        /\ UNCHANGED <<active, hdr>>
        /\ Commit(IF port[p].dest = None THEN R ELSE Ref(R, port[p].dest, -1),
                  At(s, n, [e EXCEPT !.type = @ \cup {"receive"}, !.object = p]), known)

\* ipc_object_destroy, of the rights of a message that is not received; also
\* what ipc_object_copyout_dest does to a send right.
DestroySend(p) ==
    /\ NakedSend(p)
    /\ UNCHANGED <<active, hdr>>
    /\ Commit(ipc_port_release_send([port EXCEPT ![p].nsend = @ - 1], p), entry, known)

DestroyOnce(p) ==
    /\ NakedOnce(p)
    /\ UNCHANGED <<active, hdr>>
    /\ Commit(Notify([port EXCEPT ![p].nonce = @ - 1], p), entry, known)

ipc_port_release_receive(p) ==
    LET q == port[p].dest
        Q == Destroy([port EXCEPT ![p].nrecv = 0, ![p].dest = None], p)
    IN  /\ port[p].nrecv = 1
        /\ UNCHANGED <<active, hdr>>
        /\ Commit(IF q = None THEN Q ELSE Ref(Q, q, -1), entry, known)

\* ipc_object_copyout_dest: the receiver takes a message, and with it the
\* send-once right it was sent to.
ConsumeOnce(p) ==
    /\ Alive(port, p) /\ port[p].receiver # None
    /\ UNCHANGED <<active, hdr>>
    /\ \/ /\ NakedOnce(p)
          /\ Commit(ipc_port_release_sonce([port EXCEPT ![p].nonce = @ - 1], p), entry, known)
       \/ /\ port[p].notes > 0
          /\ Commit(ipc_port_release_sonce([port EXCEPT ![p].notes = @ - 1], p), entry, known)

-----------------------------------------------------------------------------
(* mach_port_request_notification; q is the naked send-once right notify or  *)
(* None.  The right registered before is returned in the reply.              *)

Notifies(q) == q # None => NakedOnce(q)
Take(P, q) == IF q = None THEN P ELSE [P EXCEPT ![q].nonce = @ - 1]
Give(P, q) == IF q = None THEN P ELSE [P EXCEPT ![q].nonce = @ + 1]

\* ipc_right_dnrequest of a live port: the slot of the old request is reused.
DeadNameRequest(s, n, q) ==
    LET e == entry[s][n]
        p == e.object
        Q == Take(Give(Cancel(port, p, e.request), Request(port, p, e.request)), q)
        free == Slots \ DOMAIN Q[p].dn
        i == IF e.request # 0 THEN e.request ELSE Min(free)
    IN  /\ p # None /\ Alive(port, p) /\ Notifies(q)
        /\ UNCHANGED <<active, hdr>>
        /\ \/ /\ q = None /\ e.request # 0
              /\ Commit(Q, At(s, n, [e EXCEPT !.request = 0]), known)
           \/ /\ q # None /\ free # {}
              /\ Commit([Q EXCEPT ![p].dn = @ @@ (i :> [space |-> s, name |-> n, soright |-> q])],
                        At(s, n, [e EXCEPT !.request = i]), known)

\* ... of a dead name: the notification comes at once.
DeadNameAtOnce(s, n, q) ==
    LET c == Checked(port, entry[s][n])
    IN  /\ "dead" \in c.e.type /\ c.e.urefs < UrefsMax
        /\ NakedOnce(q)
        /\ UNCHANGED <<active, hdr>>
        /\ Commit(Notify(Take(c.port, q), q), At(s, n, DeadName(c.e.urefs + 1)), Gain(s, n, 1))

ipc_port_nsrequest(s, n, sync, q) ==
    LET p == entry[s][n].object
        P == Take(Give(port, port[p].ns), q)
    IN  /\ "receive" \in entry[s][n].type /\ Notifies(q)
        /\ UNCHANGED <<active, hdr>>
        /\ \/ /\ q # None /\ port[p].srights = 0 /\ sync <= port[p].mscount
              /\ Commit(Notify([P EXCEPT ![p].ns = None, ![p].vacant = TRUE], q), entry, known)
           \/ /\ ~(q # None /\ port[p].srights = 0 /\ sync <= port[p].mscount)
              /\ q # port[p].ns
              /\ Commit([P EXCEPT ![p].ns = q, ![p].had = FALSE], entry, known)

ipc_port_pdrequest(s, n, q) ==
    LET p == entry[s][n].object
    IN  /\ "receive" \in entry[s][n].type /\ Notifies(q)
        /\ q # port[p].pd
        /\ UNCHANGED <<active, hdr>>
        /\ Commit([Take(Give(port, port[p].pd), q) EXCEPT ![p].pd = q], entry, known)

mach_port_set_mscount(s, n, c) ==
    /\ "receive" \in entry[s][n].type /\ c # port[entry[s][n].object].mscount
    /\ UNCHANGED <<active, hdr>>
    /\ Commit([port EXCEPT ![entry[s][n].object].mscount = c], entry, known)

-----------------------------------------------------------------------------
(* ipc_kmsg_copyin_header with two names d and r, of types dt and rt. *)

HeaderTypes == (Receives \cup Sends) \ {"move_receive"}

\* ipc_right_copyin_check
CopyinCheck(e, t) ==
    IF t \in Receives THEN "receive" \in e.type
    ELSE \/ "dead" \in e.type \/ Died(e)
         \/ t = "move_sonce" /\ "once" \in e.type
         \/ t # "move_sonce" /\ "send" \in e.type

\* The destination is copied in, and a reference to the reply port saved.
HeaderDest(s, d, r, dt, rt) ==
    LET reply == entry[s][r]
        c == ipc_right_copyin(port, entry[s][d], dt, FALSE)
    IN  /\ c.object # None
        /\ hdr' = [space |-> s, dname |-> d, rname |-> r, dtype |-> dt, rtype |-> rt,
                   dest |-> c.object, dso |-> c.so, saved |-> reply.object]
        /\ UNCHANGED active
        /\ Commit(IF reply.object = None THEN c.port ELSE Ref(c.port, reply.object, 1),
                  At(s, d, c.e), Gain(s, d, -Cost(dt)))

HeaderBegin(s, d, r) ==
    /\ hdr = NoHeader /\ d # r
    /\ entry[s][d].object # None /\ entry[s][r] # NoEntry
    /\ "same" \notin Windows => entry[s][d].object # entry[s][r].object
    /\ \E rt \in HeaderTypes :
          /\ CopyinCheck(entry[s][r], rt)
          /\ \E dt \in HeaderTypes : HeaderDest(s, d, r, dt, rt)

\* The reply right is copied in.  That settles whether the copyins have to be
\* undone: a destination that dies afterwards has not died first.
Replied == ipc_right_copyin(port, entry[hdr.space][hdr.rname], hdr.rtype, TRUE)

Before_Swapped(p, q) == \E i, j \in DOMAIN deaths : i < j /\ deaths[i] = q /\ deaths[j] = p

\* IP_TIMESTAMP_ORDER
Before(p, q) == \E i, j \in DOMAIN deaths : i < j /\ deaths[i] = p /\ deaths[j] = q
MustUndo == hdr.saved # None /\ Replied.object = Dead /\ Before(hdr.dest, hdr.saved)

HeaderUndo ==
    LET s == hdr.space
        c == Replied
        d == ipc_right_copyin_undo(c.port, entry[s][hdr.dname], hdr.dtype, hdr.dest, hdr.dso)
        r == ipc_right_copyin_undo(d.port, c.e, hdr.rtype, c.object, c.so)
    IN  /\ hdr # NoHeader
        /\ MustUndo
        /\ hdr' = NoHeader
        /\ UNCHANGED active
        /\ Commit(Ref(Notify(r.port, hdr.dso), hdr.saved, -1),
                  [entry EXCEPT ![s][hdr.dname] = d.e, ![s][hdr.rname] = r.e],
                  IF hdr.dso = None
                  THEN Gain(s, hdr.dname, Cost(hdr.dtype))
                  ELSE Gain(s, hdr.dname, Cost(hdr.dtype) + 1))

\* The space is unlocked, and requests for names that are gone are answered.  With
\* MACH_SEND_CANCEL the sender gives a name of its own receive right: if the
\* destination's notification would come there it is not sent.
HeaderKeep ==
    LET s == hdr.space
        c == Replied
        cancel == {ipc_port_release_sonce(c.port, hdr.dso) :
                      n \in {m \in Names : /\ "receive" \in entry[s][m].type
                                          /\ entry[s][m].object = hdr.dso}}
    IN  /\ hdr # NoHeader
        /\ ~MustUndo
        /\ hdr' = NoHeader
        /\ UNCHANGED active
        /\ \E told \in cancel \cup {Notify(c.port, hdr.dso)} :
              LET P == Notify(told, c.so)
              IN  Commit(IF hdr.saved = None THEN P ELSE Ref(P, hdr.saved, -1),
                         At(s, hdr.rname, c.e), Gain(s, hdr.rname, -Cost(hdr.rtype)))

-----------------------------------------------------------------------------
(* ipc_space_destroy marks the space dead and then cleans its entries.  When  *)
(* they are clean, its place is free for the space of a new task.            *)

ipc_space_destroy(s) ==
    /\ \E n \in Names : entry[s][n] # NoEntry
    /\ active' = active \ {s}
    /\ UNCHANGED hdr
    /\ Commit(port, entry, known)

ipc_right_clean(s, n) ==
    /\ entry[s][n] # NoEntry
    /\ active' = IF \A m \in Names \ {n} : entry[s][m] = NoEntry THEN active \cup {s} ELSE active
    /\ UNCHANGED hdr
    /\ Commit(EndEntry(port, entry[s][n]), At(s, n, NoEntry), known)

-----------------------------------------------------------------------------
Init ==
    /\ port = [p \in Ports |-> NoPort]
    /\ entry = [s \in Spaces |-> [n \in Names |-> NoEntry]]
    /\ active = Spaces
    /\ deaths = <<>>
    /\ hdr = NoHeader
    /\ known = [s \in Spaces |-> [n \in Names |-> 0]]
    /\ seen = {}

\* Bounds on the make-send counts, on the naked send rights and the send-once
\* rights of all ports, on the names in use in all spaces, and on the ports and
\* spaces in use together.  CopyinTwo may leave one send right more.
Bounded(more) ==
    LET living == {p \in Ports : port'[p].state = "active"}
        used == {x \in Spaces \X Names : entry'[x[1]][x[2]] # NoEntry}
    IN  /\ Cardinality(used) <= Limit["names"]
        /\ Cardinality({p \in Ports : port'[p] # NoPort} \cup {x[1] : x \in used})
              <= Limit["parts"]
        /\ \A p \in living : port'[p].mscount <= Limit["make"]
        /\ MapThenSumSet(LAMBDA p : port'[p].nsend, living) <= Limit["send"] + more
        /\ MapThenSumSet(LAMBDA p : port'[p].sorights, living) <= Limit["once"]

NameCall(s, n) ==
    \/ ipc_right_info(s, n) \/ mach_port_destroy(s, n)
    \/ mach_port_deallocate(s, n) \/ ReleaseReceive(s, n)
    \/ \E d \in Deltas : mach_port_mod_refs(s, n, d)
    \/ \E t \in Receives \cup Sends : ipc_object_copyin(s, n, t)
    \/ \E p \in Ports : AllocateReceive(s, n, p) \/ CopyoutOnce(s, n, p)
                            \/ CopyoutSend(s, n, p) \/ CopyoutReceive(s, n, p)

Requests(s, n) ==
    \/ \E q \in Ports \cup {None} :
          \/ DeadNameRequest(s, n, q) \/ ipc_port_pdrequest(s, n, q)
          \/ \E sync \in 0..Limit["make"] : ipc_port_nsrequest(s, n, sync, q)
    \/ \E q \in Ports : DeadNameAtOnce(s, n, q)
    \/ \E c \in 0..Limit["make"] : mach_port_set_mscount(s, n, c)

Naked(p) ==
    DestroySend(p) \/ DestroyOnce(p) \/ ipc_port_release_receive(p) \/ ConsumeOnce(p)

Next ==
    \/ /\ \/ \E s \in Unlocked : \/ ipc_space_destroy(s)
                                 \/ \E n \in Names : NameCall(s, n) \/ Requests(s, n)
                                 \/ \E d, r \in Names : HeaderBegin(s, d, r)
          \/ \E s \in Spaces \ active : \E n \in Names : ipc_right_clean(s, n)
          \/ \E p \in Ports : Naked(p)
          \/ HeaderUndo \/ HeaderKeep
       /\ Bounded(0)
    \/ /\ \E s \in Unlocked, n \in Names : CopyinTwo(s, n)
       /\ Bounded(1)

Spec == Init /\ [][Next]_vars

-----------------------------------------------------------------------------
Rights == {"send", "receive", "once", "dead"}
PortType ==
    [state : {"free", "active", "dead"}, refs : Nat, srights : Nat, sorights : Nat,
     mscount : Nat, receiver : Spaces \cup {None}, ns : Ports \cup {None},
     pd : Ports \cup {None}, dest : Ports \cup {None},
     dn : UNION {[D -> [space : Spaces, name : Names, soright : Ports]] : D \in SUBSET Slots},
     notes : Nat, nsend : Nat, nonce : Nat, nrecv : 0..1, had : BOOLEAN, vacant : BOOLEAN]
EntryType == [type : SUBSET Rights, urefs : 0..UrefsMax, object : Ports \cup {None},
              request : Slots \cup {0}]

TypeOK ==
    /\ port \in [Ports -> PortType]
    /\ entry \in [Spaces -> [Names -> EntryType]]
    /\ active \subseteq Spaces
    /\ known \in [Spaces -> [Names -> 0..UrefsMax]]
    /\ Range(deaths) \subseteq Ports /\ seen \subseteq BOOLEAN \X BOOLEAN

Living == {p \in Ports : Alive(port, p)}
Slotted(q) == {x \in Living \X Slots : x[2] \in DOMAIN port[x[1]].dn
                                       /\ port[x[1]].dn[x[2]].soright = q}
\* The send-once rights for q that are registered or about to be used.
Registered(q) ==
    Cardinality(Slotted(q)) + Cardinality({p \in Living : port[p].ns = q})
        + Cardinality({p \in Living : port[p].pd = q})
        + (IF hdr.dso = q THEN 1 ELSE 0)

(* ip_srights and ip_sorights say how many rights for a live port there are  *)
(* in all spaces, messages and requests, and there is one receive right:     *)
(* ipc_right.c and ipc_port.c change the counts far from the rights.         *)
RightsExact ==
    \A p \in Living :
        /\ port[p].srights = SendRights(port, entry, p)
        /\ port[p].sorights =
              port[p].nonce + port[p].notes + Held(entry, p, "once") + Registered(p)
        /\ port[p].nrecv + Held(entry, p, "receive") = 1
        /\ \A s \in Spaces, n \in Names :
              entry[s][n].object = p /\ "receive" \in entry[s][n].type =>
                  port[p].receiver = s

(* ip_references is exact, for dead ports too: a port is freed when the last *)
(* entry, message, request or thread lets go of it, and not before.          *)
ReferencesExact ==
    \A p \in Ports :
        port[p].refs =
            Cardinality({x \in Spaces \X Names : entry[x[1]][x[2]].object = p})
                + port[p].nsend + port[p].nonce + port[p].nrecv + port[p].notes
                + Registered(p) + Cardinality({q \in Ports : port[q].dest = p})
                + (IF hdr.saved = p THEN 1 ELSE 0)

(* ie_request and the table of dead-name requests refer to each other: every *)
(* slot in use belongs to one entry for the port.                            *)
SlotsMatch ==
    \A p \in Living :
        /\ \A i \in DOMAIN port[p].dn :
              LET r == port[p].dn[i]
              IN  entry[r.space][r.name].object = p /\ entry[r.space][r.name].request = i
        /\ \A s \in Spaces, n \in Names :
              entry[s][n].object = p /\ entry[s][n].request # 0 =>
                  /\ entry[s][n].request \in DOMAIN port[p].dn
                  /\ port[p].dn[entry[s][n].request].space = s
                  /\ port[p].dn[entry[s][n].request].name = n

(* A task that releases the references it was given by copyouts and dead-name *)
(* notifications releases exactly its name, whatever has become of the port   *)
(* and whether or not the entry has been converted (ipc_right_check).         *)
UrefsHonest ==
    \A s \in active, n \in Names :
        LET e == entry[s][n]
        IN  known[s][n] = e.urefs + IF Died(e) /\ e.request # 0 THEN 1 ELSE 0

(* A no-senders request is not left behind: while it is registered and there *)
(* are no send rights, there have been none since it was made.  And a         *)
(* receiver told "no senders" with the make-send count that the port still    *)
(* has may rely on it: send rights made meanwhile have changed the count.     *)
NoSendersTold ==
    \A p \in Living :
        /\ port[p].ns # None /\ SendRights(port, entry, p) = 0 => ~port[p].had
        /\ port[p].vacant => SendRights(port, entry, p) = 0

(* ipc_kmsg.c:1230-1249: the header is copied in as if at one moment.  At    *)
(* some time under the lock the destination was alive, and the reply port    *)
(* alive or dead as it was found.                                            *)
HeaderAtomic ==
    [][hdr # NoHeader /\ hdr' = NoHeader /\ ~MustUndo =>
          <<TRUE, Replied.object # Dead>> \in seen]_vars

=============================================================================
