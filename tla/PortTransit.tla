---------------------------- MODULE PortTransit ----------------------------
(***************************************************************************)
(* Receive rights in messages: ipc_port_check_circularity of               *)
(* ipc/ipc_port.c and the routines that move a receive right into a        *)
(* message, out of it, or destroy it.                                      *)
(*                                                                         *)
(* A message in the queue of port d that carries the receive right of p is *)
(* recorded as dest[p] = d.  A circle of such messages could never be      *)
(* received.  ipc_port_check_circularity runs on many processors at once   *)
(* and takes the locks of a whole chain of ports, so one action here is    *)
(* one lock or unlock, with the reads and writes made under it.  The other *)
(* routines hold one port lock at a time, and are one action each.         *)
(***************************************************************************)
CONSTANTS
    Threads, Ports,
    Null,       \* IP_NULL
    Other,      \* what the union data holds when it is not a destination:
                \* the receiving space, or the time of death
    Free        \* a lock nobody holds

ASSUME ValuesAssumption ==
    /\ Null \notin Ports /\ Other \notin Ports /\ Null # Other
    /\ Free \notin Threads

VARIABLES
    where,      \* "space" (ip_receiver_name # 0), "naked" (0), "dead" (not active)
    dest,       \* the union: ip_destination, or Other
    pdrequest,  \* the backup port, or Null
    lock,       \* the port locks
    multiple,   \* ipc_port_multiple_lock
    pc, port, to, base, op     \* the check each thread is in

thread == <<pc, port, to, base, op>>
rights == <<where, dest, pdrequest>>
vars == <<rights, lock, multiple, thread>>

\* The test of ipc_port_check_circularity, as written three times there.
InTransit(p) == where[p] = "naked" /\ dest[p] # Null

\* The thread that has p's right, or a message with it that is not yet sent.
Owned(p) == \E t \in Threads : pc[t] # "idle" /\ port[t] = p

Init ==
    /\ where = [p \in Ports |-> "space"]
    /\ dest = [p \in Ports |-> Other]
    /\ pdrequest = [p \in Ports |-> Null]
    /\ lock = [p \in Ports |-> Free]
    /\ multiple = Free
    /\ pc = [t \in Threads |-> "idle"]
    /\ port = [t \in Threads |-> Null]
    /\ to = port /\ base = port
    /\ op = [t \in Threads |-> "send"]

-----------------------------------------------------------------------------
(* The state of a receive right. *)

ToSpace(p) ==
    /\ where' = [where EXCEPT ![p] = "space"]
    /\ dest' = [dest EXCEPT ![p] = Other]

ToLimbo(p) ==
    /\ where' = [where EXCEPT ![p] = "naked"]
    /\ dest' = [dest EXCEPT ![p] = Null]

Die(p) ==
    /\ where' = [where EXCEPT ![p] = "dead"]
    /\ dest' = [dest EXCEPT ![p] = Other]

\* t calls ipc_port_check_circularity(p, d).
Call(t, p, d, o) ==
    /\ pc' = [pc EXCEPT ![t] = IF p = d THEN "circular" ELSE "quick"]
    /\ port' = [port EXCEPT ![t] = p]
    /\ to' = [to EXCEPT ![t] = d]
    /\ base' = [base EXCEPT ![t] = d]
    /\ op' = [op EXCEPT ![t] = o]

\* The routine that made the check is left, and its locals with it.
Return(t) ==
    /\ pc' = [pc EXCEPT ![t] = "idle"]
    /\ port' = [port EXCEPT ![t] = Null]
    /\ to' = [to EXCEPT ![t] = Null]
    /\ base' = [base EXCEPT ![t] = Null]
    /\ op' = [op EXCEPT ![t] = "send"]

\* ipc_port_pdrequest.
Backup(t, p) ==
    /\ pc[t] = "idle" /\ where[p] = "space" /\ lock[p] = Free
    /\ \E d \in Ports \cup {Null} : pdrequest' = [pdrequest EXCEPT ![p] = d]
    /\ UNCHANGED <<where, dest, lock, multiple, thread>>

\* ipc_kmsg_copyin of a message to d with p's receive right.
Copyin(t, p) ==
    /\ pc[t] = "idle" /\ where[p] = "space" /\ lock[p] = Free
    /\ ToLimbo(p)
    /\ \E d \in Ports : Call(t, p, d, "send")
    /\ UNCHANGED <<pdrequest, lock, multiple>>

\* The message with p's right is received, or its send failed and the sender
\* takes it back: ipc_right_copyout.
Copyout_Unlocked(t, p) ==
    /\ pc[t] = "idle" /\ InTransit(p) /\ ~Owned(p)
    /\ ToSpace(p)
    /\ UNCHANGED <<pdrequest, lock, multiple, thread>>

Copyout(t, p) ==
    /\ pc[t] = "idle" /\ InTransit(p) /\ ~Owned(p) /\ lock[p] = Free
    /\ ToSpace(p)
    /\ UNCHANGED <<pdrequest, lock, multiple, thread>>

\* ipc_port_destroy of a right in a space, or (ipc_port_release_receive) of a
\* naked right.  A port with a backup is sent to it instead.
ipc_port_destroy(t, p) ==
    /\ lock[p] = Free
    /\ \/ /\ pdrequest[p] # Null
          /\ ToLimbo(p)
          /\ pdrequest' = [pdrequest EXCEPT ![p] = Null]
          /\ Call(t, p, pdrequest[p], "destroy")
       \/ /\ pdrequest[p] = Null
          /\ Die(p)
          /\ Return(t)
          /\ UNCHANGED pdrequest
    /\ UNCHANGED <<lock, multiple>>

Destroy(t, p) ==
    /\ pc[t] = "idle" /\ where[p] # "dead" /\ ~Owned(p)
    /\ ipc_port_destroy(t, p)

-----------------------------------------------------------------------------
(* ipc_port_check_circularity. *)

Goto(t, l) == pc' = [pc EXCEPT ![t] = l]
Lock(t, p) == lock[p] = Free /\ lock' = [lock EXCEPT ![p] = t]
Unlock(p) == lock' = [lock EXCEPT ![p] = Free]

\* The quick check, which can run in parallel.
QuickLock(t) ==
    /\ pc[t] = "quick"
    /\ Lock(t, port[t])
    /\ Goto(t, "try")
    /\ UNCHANGED <<rights, multiple, port, to, base, op>>

QuickTry_InTransit(t) ==
    /\ pc[t] = "try"
    /\ IF lock[to[t]] = Free THEN Lock(t, to[t]) /\ Goto(t, "link")
                             ELSE Goto(t, "quick_unlock") /\ UNCHANGED lock
    /\ UNCHANGED <<rights, multiple, port, to, base, op>>

QuickTry(t) ==
    /\ pc[t] = "try"
    /\ \/ lock[to[t]] # Free /\ Goto(t, "quick_unlock") /\ UNCHANGED lock
       \/ Lock(t, to[t]) /\ Goto(t, IF InTransit(to[t]) THEN "try_unlock" ELSE "link")
    /\ UNCHANGED <<rights, multiple, port, to, base, op>>

QuickFails(t) ==
    /\ \/ pc[t] = "try_unlock" /\ Unlock(to[t]) /\ Goto(t, "quick_unlock")
       \/ pc[t] = "quick_unlock" /\ Unlock(port[t]) /\ Goto(t, "multiple")
    /\ UNCHANGED <<rights, multiple, port, to, base, op>>

ipc_port_multiple_lock_Skipped(t) ==
    /\ pc[t] = "multiple"
    /\ Goto(t, "walk")
    /\ UNCHANGED <<rights, lock, multiple, port, to, base, op>>

ipc_port_multiple_lock(t) ==
    /\ pc[t] = "multiple" /\ multiple = Free
    /\ multiple' = t
    /\ Goto(t, "walk")
    /\ UNCHANGED <<rights, lock, port, to, base, op>>

\* Search for the end of the chain, acquiring locks along the way.
Walk(t) ==
    /\ pc[t] = "walk"
    /\ Lock(t, base[t])
    /\ \/ InTransit(base[t]) /\ base' = [base EXCEPT ![t] = dest[base[t]]] /\ UNCHANGED pc
       \/ ~InTransit(base[t]) /\ Goto(t, "end") /\ UNCHANGED base
    /\ UNCHANGED <<rights, multiple, port, to, op>>

\* The chain is locked.  The unlocking loops use to as their cursor.
Circular_Limbo(t) ==
    /\ pc[t] = "end" /\ dest[base[t]] = Null
    /\ multiple' = Free
    /\ Goto(t, "unlock_circle")
    /\ UNCHANGED <<rights, lock, port, to, base, op>>

Circular(t) ==
    /\ pc[t] = "end" /\ port[t] = base[t]
    /\ multiple' = Free
    /\ Goto(t, "unlock_circle")
    /\ UNCHANGED <<rights, lock, port, to, base, op>>

UnlockCircle(t) ==
    /\ pc[t] = "unlock_circle"
    /\ Unlock(to[t])
    /\ \/ dest[to[t]] = Null /\ Goto(t, "circular") /\ UNCHANGED to
       \/ dest[to[t]] # Null /\ to' = [to EXCEPT ![t] = dest[to[t]]] /\ UNCHANGED pc
    /\ UNCHANGED <<rights, multiple, port, base, op>>

NotCircular(t) ==
    /\ pc[t] = "end" /\ port[t] # base[t]
    /\ Lock(t, port[t])
    /\ multiple' = Free
    /\ Goto(t, "link")
    /\ UNCHANGED <<rights, port, to, base, op>>

\* not_circular: port->ip_destination = dest
Link(t) ==
    /\ pc[t] = "link"
    /\ dest' = [dest EXCEPT ![port[t]] = to[t]]
    /\ to' = [to EXCEPT ![t] = port[t]]
    /\ Goto(t, "unlock")
    /\ UNCHANGED <<where, pdrequest, lock, multiple, port, base, op>>

UnlockChain_NotBase(t) ==
    /\ pc[t] = "unlock"
    /\ \/ /\ to[t] # base[t]
          /\ Unlock(to[t])
          /\ to' = [to EXCEPT ![t] = dest[to[t]]]
          /\ UNCHANGED <<pc, port, base, op>>
       \/ to[t] = base[t] /\ Return(t) /\ UNCHANGED lock
    /\ UNCHANGED <<rights, multiple>>

UnlockChain(t) ==
    /\ pc[t] = "unlock"
    /\ Unlock(to[t])
    /\ \/ /\ to[t] # base[t]
          /\ to' = [to EXCEPT ![t] = dest[to[t]]]
          /\ UNCHANGED <<pc, port, base, op>>
       \/ to[t] = base[t] /\ Return(t)
    /\ UNCHANGED <<rights, multiple>>

\* The check returned TRUE.  A message to be sent is marked circular and is
\* destroyed instead of queued, unless the send fails first and the right
\* goes back; a dying port with such a backup dies.
CircularDestroyed(t) ==
    /\ pc[t] = "circular"
    /\ ipc_port_destroy(t, port[t])

CircularReturned(t) ==
    /\ pc[t] = "circular" /\ op[t] = "send" /\ lock[port[t]] = Free
    /\ ToSpace(port[t])
    /\ Return(t)
    /\ UNCHANGED <<pdrequest, lock, multiple>>

-----------------------------------------------------------------------------
Check(t) ==
    \/ QuickLock(t) \/ QuickTry(t) \/ QuickFails(t)
    \/ ipc_port_multiple_lock(t) \/ Walk(t)
    \/ Circular(t) \/ UnlockCircle(t) \/ NotCircular(t) \/ Link(t) \/ UnlockChain(t)
    \/ CircularDestroyed(t) \/ CircularReturned(t)

Transfer(t, p) == Backup(t, p) \/ Copyin(t, p) \/ Copyout(t, p) \/ Destroy(t, p)

Next == \E t \in Threads : Check(t) \/ \E p \in Ports : Transfer(t, p)

Spec == Init /\ [][Next]_vars

-----------------------------------------------------------------------------
Labels == {"idle", "quick", "try", "try_unlock", "quick_unlock", "multiple", "walk",
           "end", "unlock_circle", "link", "unlock", "circular"}

(* The ports, their locks and the threads' checks have their types; inside  *)
(* the routine no local is IP_NULL, and so no cursor runs off the chain.    *)
TypeOK ==
    /\ where \in [Ports -> {"space", "naked", "dead"}]
    /\ dest \in [Ports -> Ports \cup {Null, Other}]
    /\ pdrequest \in [Ports -> Ports \cup {Null}]
    /\ lock \in [Ports -> Threads \cup {Free}]
    /\ multiple \in Threads \cup {Free}
    /\ pc \in [Threads -> Labels]
    /\ port \in [Threads -> Ports \cup {Null}]
    /\ to \in [Threads -> Ports \cup {Null}]
    /\ base \in [Threads -> Ports \cup {Null}]
    /\ \A t \in Threads : pc[t] # "idle" => Null \notin {port[t], to[t], base[t]}
    /\ op \in [Threads -> {"send", "destroy"}]

(* ipc_port.c:835-837: no circular group of ports and messages.  Whatever   *)
(* transfers race, every set of ports has one that is not in transit to     *)
(* another port of the set, so the messages of some port can be received.   *)
NoCircle ==
    \A S \in SUBSET Ports : S # {} => \E p \in S : ~(InTransit(p) /\ dest[p] \in S)

\* The thread that holds the lock t must have next, or Free.
WaitsFor(t) ==
    CASE pc[t] \in {"quick", "circular"} -> lock[port[t]]
      [] pc[t] = "multiple" -> multiple
      [] pc[t] = "walk" -> lock[base[t]]
      [] pc[t] = "end" -> IF port[t] = base[t] THEN Free ELSE lock[port[t]]
      [] OTHER -> Free

(* ipc_port.h:208-212, the privilege to lock several ports at once: threads *)
(* that check chains with common ports never wait for each other in a ring, *)
(* and none waits for a lock it holds itself.                               *)
NoDeadlock ==
    \A S \in SUBSET Threads : S # {} => \E t \in S : WaitsFor(t) \notin S

(* Every lock is given back: a thread that is out of the routine holds no   *)
(* port lock, whatever happened to the chain it walked, and only a walk     *)
(* holds ipc_port_multiple_lock.                                            *)
NoLockLeaked ==
    /\ \A p \in Ports : lock[p] # Free => pc[lock[p]] \notin {"idle", "quick", "multiple", "circular"}
    /\ multiple # Free => pc[multiple] \in {"walk", "end"}

(* The assertions of ipc_port_check_circularity: the port stays in limbo    *)
(* until it is linked or the check fails, every port of the chain being     *)
(* unlocked is in transit, and the base is not.                             *)
AssertionsHold ==
    \A t \in Threads :
        /\ pc[t] \notin {"idle", "unlock"} => where[port[t]] = "naked" /\ dest[port[t]] = Null
        /\ pc[t] = "unlock" => (InTransit(to[t]) <=> to[t] # base[t])
        /\ pc[t] = "unlock_circle" => where[to[t]] = "naked"

\* d is p, or a chain of messages leads from d to p.
Reaches(d, p) ==
    \A S \in SUBSET Ports :
        d \in S /\ (\A q \in S : InTransit(q) => dest[q] \in S) => p \in S

(* A transfer is refused only for cause: when the check finds a circle,     *)
(* queueing the message would really close one at that moment.              *)
RefusedForCause ==
    [][\A t \in Threads :
          pc[t] = "end" /\ pc'[t] = "unlock_circle" => Reaches(to[t], port[t])]_vars

=============================================================================
