------------------------- MODULE PortTransitProofs -------------------------
(***************************************************************************)
(* The correctness of ipc_port_check_circularity, for any number of        *)
(* threads and ports.                                                      *)
(*                                                                         *)
(* The ports a walking thread has locked form a path that starts at the    *)
(* message's destination and ends at the base of the walk; nobody else can *)
(* change that path.  When the walk ends at a base that is not in transit  *)
(* and is not the port to be sent, a circle through the new link would     *)
(* have to leave the path at its base, which it cannot.                    *)
(***************************************************************************)
EXTENDS PortTransit, TLAPS

Locks(t) == {p \in Ports : lock[p] = t}

\* The ports of L, in transit one to the next, lead from a to b.
Path(L, a, b) ==
    /\ a \in L \cup {b}
    /\ \A q \in L \ {b} : InTransit(q) /\ dest[q] \in L \cup {b} /\ dest[q] # a
    /\ \A q, r \in L \ {b} : dest[q] = dest[r] => q = r

\* The right a thread is moving: in limbo, until it is linked.
OwnerOK ==
    /\ \A p \in Ports : where[p] = "naked" => dest[p] \in Ports \cup {Null}
    /\ \A t \in Threads :
          /\ pc[t] # "idle" => where[port[t]] = "naked"
          /\ pc[t] \notin {"idle", "unlock"} => dest[port[t]] = Null
    /\ \A t, u \in Threads :
          t # u /\ pc[t] # "idle" /\ pc[u] # "idle" => port[t] # port[u]

MultipleOK == \A t \in Threads : pc[t] \in {"walk", "end"} <=> multiple = t

\* The locks t holds, and what they protect.
ChainOK(t) ==
    /\ pc[t] \in {"idle", "quick", "multiple", "circular"} => Locks(t) = {}
    /\ pc[t] \in {"quick", "try", "try_unlock", "quick_unlock", "multiple"} =>
          base[t] = to[t] /\ to[t] # port[t]
    /\ pc[t] \in {"try", "quick_unlock"} => Locks(t) = {port[t]}
    /\ pc[t] = "try_unlock" => Locks(t) = {port[t], to[t]}
    /\ pc[t] = "walk" => base[t] \notin Locks(t) /\ Path(Locks(t), to[t], base[t])
    /\ pc[t] \in {"end", "unlock_circle", "unlock"} =>
          /\ base[t] \in Locks(t) /\ ~InTransit(base[t])
          /\ Path(Locks(t), to[t], base[t])
    /\ pc[t] = "unlock_circle" => base[t] = port[t]
    /\ pc[t] = "link" =>
          /\ port[t] \in Locks(t) /\ base[t] \in Locks(t)
          /\ port[t] # base[t] /\ port[t] # to[t] /\ ~InTransit(base[t])
          /\ Path(Locks(t) \ {port[t]}, to[t], base[t])

ChainsOK == \A t \in Threads : ChainOK(t)

IInv == TypeOK /\ OwnerOK /\ MultipleOK /\ ChainsOK /\ NoCircle

-----------------------------------------------------------------------------
(* Frame: what t holds stays in order while other threads leave t's place,  *)
(* t's locks and the ports under them alone.                                *)
LEMMA Frame ==
    ASSUME NEW t \in Threads, TypeOK, ChainOK(t),
           pc'[t] = pc[t], port'[t] = port[t], to'[t] = to[t], base'[t] = base[t],
           Locks(t)' = Locks(t),
           \A q \in Locks(t) : dest'[q] = dest[q] /\ where'[q] = where[q]
    PROVE  ChainOK(t)'
<1>1. \A a, b : Path(Locks(t), a, b) => Path(Locks(t), a, b)'
  BY DEF Path, InTransit
<1>2. \A p, a, b : Path(Locks(t) \ {p}, a, b) => Path(Locks(t) \ {p}, a, b)'
  BY DEF Path, InTransit
<1>3. \A q \in Locks(t) : InTransit(q)' <=> InTransit(q)
  BY DEF InTransit
<1> QED  BY <1>1, <1>2, <1>3 DEF ChainOK

(* A step of thread u that changes only ports nobody else has locked leaves *)
(* the other threads' chains in order.                                      *)
LEMMA OthersKeep ==
    ASSUME IInv, NEW u \in Threads,
           \A t \in Threads \ {u} :
               /\ pc'[t] = pc[t] /\ port'[t] = port[t] /\ to'[t] = to[t] /\ base'[t] = base[t]
               /\ \A q \in Ports : lock'[q] = t <=> lock[q] = t
               /\ \A q \in Ports : lock[q] = t => dest'[q] = dest[q] /\ where'[q] = where[q]
    PROVE  \A t \in Threads \ {u} : ChainOK(t)'
<1> SUFFICES ASSUME NEW t \in Threads \ {u} PROVE ChainOK(t)'
  OBVIOUS
<1>1. Locks(t)' = Locks(t)
  BY DEF Locks
<1>2. \A q \in Locks(t) : dest'[q] = dest[q] /\ where'[q] = where[q]
  BY DEF Locks
<1>3. ChainOK(t) /\ TypeOK
  BY DEF IInv, ChainsOK
<1> QED  BY <1>1, <1>2, <1>3, Frame

(* The chains of all threads, action by action.  First the steps that keep  *)
(* or take single locks.                                                    *)
LEMMA QuickLockChains ==
    ASSUME IInv, NEW u \in Threads, QuickLock(u)
    PROVE  ChainsOK'
<1>1. \A t \in Threads \ {u} :
        /\ pc'[t] = pc[t] /\ port'[t] = port[t] /\ to'[t] = to[t] /\ base'[t] = base[t]
        /\ \A q \in Ports : lock'[q] = t <=> lock[q] = t
        /\ \A q \in Ports : lock[q] = t => dest'[q] = dest[q] /\ where'[q] = where[q]
  BY ValuesAssumption DEF IInv, TypeOK, QuickLock, rights, Lock, Goto
<1>2. \A t \in Threads \ {u} : ChainOK(t)'
  BY <1>1, OthersKeep
<1>3. ChainOK(u)'
  BY ValuesAssumption DEF IInv, TypeOK, ChainsOK, ChainOK, Locks, Path, InTransit, QuickLock, rights, Lock, Goto
<1> QED  BY <1>2, <1>3 DEF ChainsOK

(* QuickTry keeps the chains in order.                                      *)
LEMMA QuickTryChains ==
    ASSUME IInv, NEW u \in Threads, QuickTry(u)
    PROVE  ChainsOK'
<1>1. \A t \in Threads \ {u} :
        /\ pc'[t] = pc[t] /\ port'[t] = port[t] /\ to'[t] = to[t] /\ base'[t] = base[t]
        /\ \A q \in Ports : lock'[q] = t <=> lock[q] = t
        /\ \A q \in Ports : lock[q] = t => dest'[q] = dest[q] /\ where'[q] = where[q]
  BY ValuesAssumption DEF IInv, TypeOK, QuickTry, rights, Lock, Goto, ChainsOK, ChainOK, Locks
<1>2. \A t \in Threads \ {u} : ChainOK(t)'
  BY <1>1, OthersKeep
<1>3. ChainOK(u)'
  BY ValuesAssumption DEF IInv, TypeOK, ChainsOK, ChainOK, Locks, Path, InTransit, QuickTry, rights, Lock, Goto
<1> QED  BY <1>2, <1>3 DEF ChainsOK

(* QuickFails keeps the chains in order.                                    *)
LEMMA QuickFailsChains ==
    ASSUME IInv, NEW u \in Threads, QuickFails(u)
    PROVE  ChainsOK'
<1>a. pc[u] \in {"try_unlock", "quick_unlock"}
  BY DEF QuickFails
<1>b. port[u] \in Ports /\ to[u] \in Ports
  BY <1>a DEF IInv, TypeOK
<1>c. port[u] \in Locks(u) /\ (pc[u] = "try_unlock" => to[u] \in Locks(u))
  BY <1>a DEF IInv, ChainsOK, ChainOK
<1>0. lock[port[u]] = u /\ (pc[u] = "try_unlock" => lock[to[u]] = u)
  BY <1>c DEF Locks
<1>1. \A t \in Threads \ {u} :
        /\ pc'[t] = pc[t] /\ port'[t] = port[t] /\ to'[t] = to[t] /\ base'[t] = base[t]
        /\ \A q \in Ports : lock'[q] = t <=> lock[q] = t
        /\ \A q \in Ports : lock[q] = t => dest'[q] = dest[q] /\ where'[q] = where[q]
  BY <1>0, <1>b, ValuesAssumption DEF IInv, TypeOK, QuickFails, rights, Unlock, Goto
<1>2. \A t \in Threads \ {u} : ChainOK(t)'
  BY <1>1, OthersKeep
<1>3. ChainOK(u)'
  BY ValuesAssumption DEF IInv, TypeOK, ChainsOK, ChainOK, Locks, Path, InTransit, QuickFails, rights, Unlock, Goto
<1> QED  BY <1>2, <1>3 DEF ChainsOK

(* Multiple keeps the chains in order.                                      *)
LEMMA MultipleChains ==
    ASSUME IInv, NEW u \in Threads, ipc_port_multiple_lock(u)
    PROVE  ChainsOK'
<1>1. \A t \in Threads \ {u} :
        /\ pc'[t] = pc[t] /\ port'[t] = port[t] /\ to'[t] = to[t] /\ base'[t] = base[t]
        /\ \A q \in Ports : lock'[q] = t <=> lock[q] = t
        /\ \A q \in Ports : lock[q] = t => dest'[q] = dest[q] /\ where'[q] = where[q]
  BY ValuesAssumption DEF IInv, TypeOK, ipc_port_multiple_lock, rights, Goto
<1>2. \A t \in Threads \ {u} : ChainOK(t)'
  BY <1>1, OthersKeep
<1>3. ChainOK(u)'
  BY ValuesAssumption DEF IInv, TypeOK, ChainsOK, ChainOK, Locks, Path, InTransit, ipc_port_multiple_lock, rights, Goto
<1> QED  BY <1>2, <1>3 DEF ChainsOK

(* NoCircle, as it is used: a set of ports all in transit to ports of the   *)
(* set is empty.                                                            *)
LEMMA NoLoop ==
    ASSUME NoCircle, NEW S \in SUBSET Ports,
           \A q \in S : InTransit(q) /\ dest[q] \in S
    PROVE  S = {}
BY DEF NoCircle

(* The walk: it extends the path by its base, and the next base is not on   *)
(* the path, or the path would be a circle.                                 *)
LEMMA WalkChains ==
    ASSUME IInv, NEW u \in Threads, Walk(u)
    PROVE  ChainsOK'
<1>1. \A t \in Threads \ {u} :
        /\ pc'[t] = pc[t] /\ port'[t] = port[t] /\ to'[t] = to[t] /\ base'[t] = base[t]
        /\ \A q \in Ports : lock'[q] = t <=> lock[q] = t
        /\ \A q \in Ports : lock[q] = t => dest'[q] = dest[q] /\ where'[q] = where[q]
  BY ValuesAssumption DEF IInv, TypeOK, Walk, rights, Lock, Goto
<1>2. \A t \in Threads \ {u} : ChainOK(t)'
  BY <1>1, OthersKeep
<1> DEFINE L == Locks(u)  b == base[u]  c == dest[base[u]]
<1>a. pc[u] = "walk" /\ b \in Ports /\ lock[b] = Free /\ b \notin L
  BY ValuesAssumption DEF IInv, TypeOK, Walk, Lock, Locks
<1>b. Locks(u)' = L \cup {b}
  BY <1>a DEF IInv, TypeOK, Walk, Lock, Locks
<1>c. Path(L, to[u], b)
  BY <1>a DEF IInv, ChainsOK, ChainOK
<1>d. to'[u] = to[u] /\ \A q : InTransit(q)' = InTransit(q) /\ dest'[q] = dest[q]
  BY DEF Walk, rights, InTransit
<1>3. ChainOK(u)'
  <2>1. CASE InTransit(b)
    <3>1. c \in Ports
      BY <2>1, <1>a DEF IInv, OwnerOK, InTransit
    <3>2. c \notin L \cup {b}
      <4>1. SUFFICES ASSUME c \in L \cup {b} PROVE FALSE
        OBVIOUS
      <4>2. \A q \in L \cup {b} : InTransit(q) /\ dest[q] \in L \cup {b}
        BY <4>1, <2>1, <1>c, <1>a DEF Path
      <4>3. L \cup {b} \in SUBSET Ports /\ NoCircle
        BY <1>a DEF Locks, IInv
      <4> QED  BY <4>2, <4>3, NoLoop
    <3>3. pc'[u] = "walk" /\ base'[u] = c
      BY <2>1, <1>a DEF IInv, TypeOK, Walk
    <3>4. Path(Locks(u), to[u], base[u])'
      BY <3>2, <3>3, <2>1, <1>a, <1>b, <1>c, <1>d DEF Path
    <3> QED  BY <3>2, <3>3, <3>4, <1>b DEF ChainOK
  <2>2. CASE ~InTransit(b)
    <3>1. pc'[u] = "end" /\ base'[u] = b
      BY <2>2, <1>a DEF IInv, TypeOK, Walk, Goto
    <3>2. Path(Locks(u), to[u], base[u])'
      BY <3>1, <1>a, <1>b, <1>c, <1>d DEF Path
    <3>3. base'[u] \in Locks(u)' /\ ~InTransit(base[u])'
      BY <3>1, <2>2, <1>b, <1>d
    <3> QED  BY <3>1, <3>2, <3>3 DEF ChainOK
  <2> QED  BY <2>1, <2>2
<1> QED  BY <1>2, <1>3 DEF ChainsOK

(* Circular keeps the chains in order.                                      *)
LEMMA CircularChains ==
    ASSUME IInv, NEW u \in Threads, Circular(u)
    PROVE  ChainsOK'
<1>1. \A t \in Threads \ {u} :
        /\ pc'[t] = pc[t] /\ port'[t] = port[t] /\ to'[t] = to[t] /\ base'[t] = base[t]
        /\ \A q \in Ports : lock'[q] = t <=> lock[q] = t
        /\ \A q \in Ports : lock[q] = t => dest'[q] = dest[q] /\ where'[q] = where[q]
  BY ValuesAssumption DEF IInv, TypeOK, Circular, rights, Goto
<1>2. \A t \in Threads \ {u} : ChainOK(t)'
  BY <1>1, OthersKeep
<1>a. pc[u] = "end" /\ pc'[u] = "unlock_circle" /\ base[u] = port[u]
  BY DEF IInv, TypeOK, Circular, Goto
<1>b. ChainOK(u)
  BY DEF IInv, ChainsOK
<1>3. ChainOK(u)'
  BY <1>a, <1>b DEF ChainOK, Circular, rights, Locks, Path, InTransit
<1> QED  BY <1>2, <1>3 DEF ChainsOK

(* NotCircular keeps the chains in order.                                   *)
LEMMA NotCircularChains ==
    ASSUME IInv, NEW u \in Threads, NotCircular(u)
    PROVE  ChainsOK'
<1>1. \A t \in Threads \ {u} :
        /\ pc'[t] = pc[t] /\ port'[t] = port[t] /\ to'[t] = to[t] /\ base'[t] = base[t]
        /\ \A q \in Ports : lock'[q] = t <=> lock[q] = t
        /\ \A q \in Ports : lock[q] = t => dest'[q] = dest[q] /\ where'[q] = where[q]
  BY ValuesAssumption DEF IInv, TypeOK, NotCircular, rights, Lock, Goto
<1>2. \A t \in Threads \ {u} : ChainOK(t)'
  BY <1>1, OthersKeep
<1>a. /\ pc[u] = "end" /\ pc'[u] = "link" /\ port[u] # base[u]
      /\ port[u] \in Ports /\ lock[port[u]] = Free /\ port[u] \notin Locks(u)
  BY ValuesAssumption DEF IInv, TypeOK, NotCircular, Goto, Lock, Locks
<1>b. Locks(u)' = Locks(u) \cup {port[u]}
  BY <1>a DEF IInv, TypeOK, NotCircular, Lock, Locks
<1>c. base[u] \in Locks(u) /\ ~InTransit(base[u]) /\ Path(Locks(u), to[u], base[u])
  BY <1>a DEF IInv, ChainsOK, ChainOK
<1>d. /\ to'[u] = to[u] /\ port'[u] = port[u] /\ base'[u] = base[u]
      /\ \A q : InTransit(q)' = InTransit(q) /\ dest'[q] = dest[q]
  BY DEF NotCircular, rights, InTransit
<1>e. Locks(u)' \ {port[u]} = Locks(u)
  BY <1>a, <1>b
<1>3. ChainOK(u)'
  BY <1>a, <1>b, <1>c, <1>d, <1>e DEF ChainOK, Path
<1> QED  BY <1>2, <1>3 DEF ChainsOK

(* The link puts the port in front of the path.                             *)
LEMMA LinkChains ==
    ASSUME IInv, NEW u \in Threads, Link(u)
    PROVE  ChainsOK'
<1>0. pc[u] = "link" /\ port[u] \in Ports /\ port[u] \in Locks(u)
  BY DEF IInv, TypeOK, ChainsOK, ChainOK, Link
<1>1. \A t \in Threads \ {u} :
        /\ pc'[t] = pc[t] /\ port'[t] = port[t] /\ to'[t] = to[t] /\ base'[t] = base[t]
        /\ \A q \in Ports : lock'[q] = t <=> lock[q] = t
        /\ \A q \in Ports : lock[q] = t => dest'[q] = dest[q] /\ where'[q] = where[q]
  BY <1>0 DEF IInv, TypeOK, Link, Goto, Locks
<1>2. \A t \in Threads \ {u} : ChainOK(t)'
  BY <1>1, OthersKeep
<1> DEFINE p == port[u]  M == Locks(u) \ {port[u]}
<1>a. pc[u] = "link" /\ pc'[u] = "unlock" /\ p \in Ports /\ to[u] \in Ports
  BY DEF IInv, TypeOK, Link, Goto
<1>b. /\ p \in Locks(u) /\ base[u] \in M /\ p # to[u] /\ ~InTransit(base[u])
      /\ Path(M, to[u], base[u])
  BY <1>a DEF IInv, ChainsOK, ChainOK
<1>c. Locks(u)' = Locks(u) /\ port'[u] = p /\ base'[u] = base[u] /\ to'[u] = p
  BY <1>a DEF IInv, TypeOK, Link, Locks
<1>d. where[p] = "naked"
  BY <1>a DEF IInv, OwnerOK
<1>e. dest'[p] = to[u] /\ InTransit(p)'
  BY <1>a, <1>c, <1>d, ValuesAssumption DEF IInv, TypeOK, Link, InTransit
<1>f. \A q \in M : dest'[q] = dest[q] /\ (InTransit(q)' <=> InTransit(q))
  BY <1>a DEF IInv, TypeOK, Link, InTransit, Locks
<1>g. Path(Locks(u), to[u], base[u])'
  <2>1. to'[u] \in Locks(u)'
    BY <1>b, <1>c
  <2>2. \A q \in M \ {base[u]} :
            InTransit(q)' /\ dest'[q] \in M /\ dest'[q] # p /\ dest'[q] # to[u]
    BY <1>b, <1>f DEF Path
  <2>3. to[u] \in M
    BY <1>b DEF Path
  <2>4. \A q, r \in M \ {base[u]} : dest'[q] = dest'[r] => q = r
    BY <1>b, <1>f DEF Path
  <2>5. Locks(u)' \ {base'[u]} = (M \ {base[u]}) \cup {p}
    BY <1>b, <1>c
  <2>6. \A q \in (M \ {base[u]}) \cup {p} : InTransit(q)' /\ dest'[q] \in M /\ dest'[q] # p
    BY <2>2, <2>3, <1>b, <1>c, <1>e DEF InTransit
  <2>7. \A q, r \in (M \ {base[u]}) \cup {p} : dest'[q] = dest'[r] => q = r
    BY <2>2, <2>4, <1>e
  <2> QED  BY <2>1, <2>5, <2>6, <2>7, <1>c DEF Path
<1>h. base'[u] \in Locks(u)' /\ ~InTransit(base[u])'
  BY <1>b, <1>c, <1>f
<1>3. ChainOK(u)'
  BY <1>a, <1>g, <1>h DEF ChainOK
<1> QED  BY <1>2, <1>3 DEF ChainsOK

(* The unlocking loops take the path apart from its front.  When the cursor *)
(* is at the base nothing else is left of it, or that rest were a circle.   *)
LEMMA UnlockChainChains ==
    ASSUME IInv, NEW u \in Threads, UnlockChain(u)
    PROVE  ChainsOK'
<1>0. pc[u] = "unlock" /\ to[u] \in Ports /\ to[u] \in Locks(u)
  BY DEF IInv, TypeOK, ChainsOK, ChainOK, UnlockChain, Path
<1>1. \A t \in Threads \ {u} :
        /\ pc'[t] = pc[t] /\ port'[t] = port[t] /\ to'[t] = to[t] /\ base'[t] = base[t]
        /\ \A q \in Ports : lock'[q] = t <=> lock[q] = t
        /\ \A q \in Ports : lock[q] = t => dest'[q] = dest[q] /\ where'[q] = where[q]
  BY <1>0, ValuesAssumption DEF IInv, TypeOK, Locks, UnlockChain, rights, Unlock, Goto, Return
<1>2. \A t \in Threads \ {u} : ChainOK(t)'
  BY <1>1, OthersKeep
<1> DEFINE L == Locks(u)  a == to[u]  b == base[u]
<1>b. b \in L /\ a \in L /\ ~InTransit(b) /\ Path(L, a, b)
  BY <1>0 DEF IInv, ChainsOK, ChainOK, Path
<1>c. Locks(u)' = L \ {a}
  BY <1>0, ValuesAssumption DEF IInv, TypeOK, UnlockChain, Unlock, Locks
<1>d. \A q : InTransit(q)' = InTransit(q) /\ dest'[q] = dest[q]
  BY DEF UnlockChain, rights, InTransit
<1>3. ChainOK(u)'
  <2>1. CASE a # b
    <3>1. dest[a] \in L /\ dest[a] # a /\ InTransit(a)
      BY <2>1, <1>b DEF Path
    <3>2. /\ pc'[u] = "unlock" /\ base'[u] = b /\ to'[u] = dest[a] /\ port'[u] = port[u]
      BY <3>1, <2>1, <1>0, ValuesAssumption DEF IInv, TypeOK, UnlockChain, Return, Goto, InTransit
    <3>3. Path(Locks(u), to[u], base[u])'
      BY <3>1, <3>2, <2>1, <1>b, <1>c, <1>d DEF Path
    <3>4. base'[u] \in Locks(u)' /\ ~InTransit(base[u])'
      BY <3>2, <2>1, <1>b, <1>c, <1>d
    <3> QED  BY <3>2, <3>3, <3>4 DEF ChainOK
  <2>2. CASE a = b
    <3>1. L \ {b} = {}
      <4>1. \A q \in L \ {b} : InTransit(q) /\ dest[q] \in L \ {b}
        BY <2>2, <1>b DEF Path
      <4>2. L \ {b} \in SUBSET Ports /\ NoCircle
        BY DEF Locks, IInv
      <4> QED  BY <4>1, <4>2, NoLoop
    <3>2. pc'[u] = "idle"
      BY <2>2, <1>0 DEF IInv, TypeOK, UnlockChain, Return, Goto
    <3> QED  BY <3>1, <3>2, <2>2, <1>c DEF ChainOK
  <2> QED  BY <2>1, <2>2
<1> QED  BY <1>2, <1>3 DEF ChainsOK

(* UnlockCircle keeps the chains in order.                                  *)
LEMMA UnlockCircleChains ==
    ASSUME IInv, NEW u \in Threads, UnlockCircle(u)
    PROVE  ChainsOK'
<1>0. pc[u] = "unlock_circle" /\ to[u] \in Ports /\ to[u] \in Locks(u)
  BY DEF IInv, TypeOK, ChainsOK, ChainOK, UnlockCircle, Path
<1>1. \A t \in Threads \ {u} :
        /\ pc'[t] = pc[t] /\ port'[t] = port[t] /\ to'[t] = to[t] /\ base'[t] = base[t]
        /\ \A q \in Ports : lock'[q] = t <=> lock[q] = t
        /\ \A q \in Ports : lock[q] = t => dest'[q] = dest[q] /\ where'[q] = where[q]
  BY <1>0, ValuesAssumption DEF IInv, TypeOK, Locks, UnlockCircle, rights, Unlock, Goto, Return
<1>2. \A t \in Threads \ {u} : ChainOK(t)'
  BY <1>1, OthersKeep
<1> DEFINE L == Locks(u)  a == to[u]  b == base[u]
<1>b. b \in L /\ a \in L /\ ~InTransit(b) /\ Path(L, a, b)
  BY <1>0 DEF IInv, ChainsOK, ChainOK, Path
<1>c. Locks(u)' = L \ {a}
  BY <1>0, ValuesAssumption DEF IInv, TypeOK, UnlockCircle, Unlock, Locks
<1>d. \A q : InTransit(q)' = InTransit(q) /\ dest'[q] = dest[q]
  BY DEF UnlockCircle, rights, InTransit
<1>e. b = port[u] /\ dest[b] = Null
  BY <1>0 DEF IInv, ChainsOK, ChainOK, OwnerOK
<1>3. ChainOK(u)'
  <2>1. CASE a # b
    <3>1. dest[a] \in L /\ dest[a] # a /\ InTransit(a)
      BY <2>1, <1>b DEF Path
    <3>2. /\ pc'[u] = "unlock_circle" /\ base'[u] = b /\ to'[u] = dest[a] /\ port'[u] = port[u]
      BY <3>1, <2>1, <1>0, ValuesAssumption DEF IInv, TypeOK, UnlockCircle, Return, Goto, InTransit
    <3>3. Path(Locks(u), to[u], base[u])'
      BY <3>1, <3>2, <2>1, <1>b, <1>c, <1>d DEF Path
    <3>4. base'[u] \in Locks(u)' /\ ~InTransit(base[u])'
      BY <3>2, <2>1, <1>b, <1>c, <1>d
    <3> QED  BY <3>2, <3>3, <3>4, <1>e DEF ChainOK
  <2>2. CASE a = b
    <3>1. L \ {b} = {}
      <4>1. \A q \in L \ {b} : InTransit(q) /\ dest[q] \in L \ {b}
        BY <2>2, <1>b DEF Path
      <4>2. L \ {b} \in SUBSET Ports /\ NoCircle
        BY DEF Locks, IInv
      <4> QED  BY <4>1, <4>2, NoLoop
    <3>2. pc'[u] = "circular"
      BY <2>2, <1>e, <1>0 DEF IInv, TypeOK, UnlockCircle, Return, Goto
    <3> QED  BY <3>1, <3>2, <2>2, <1>c DEF ChainOK
  <2> QED  BY <2>1, <2>2
<1> QED  BY <1>2, <1>3 DEF ChainsOK

(* Between two checks a thread has no lock.                                 *)
LEMMA Lockless ==
    ASSUME IInv, NEW u \in Threads, pc[u] \in {"idle", "circular"}, lock' = lock
    PROVE  Locks(u)' = {}
<1>1. Locks(u) = {}
  BY DEF IInv, ChainsOK, ChainOK
<1>2. Locks(u)' = Locks(u)
  BY DEF Locks
<1> QED  BY <1>1, <1>2

(* The transfers change a port that nobody has locked, and are made by a    *)
(* thread without locks.                                                    *)
LEMMA BackupChains ==
    ASSUME IInv, NEW u \in Threads, NEW p \in Ports, Backup(u, p)
    PROVE  ChainsOK'
<1>1. \A t \in Threads \ {u} :
        /\ pc'[t] = pc[t] /\ port'[t] = port[t] /\ to'[t] = to[t] /\ base'[t] = base[t]
        /\ \A q \in Ports : lock'[q] = t <=> lock[q] = t
        /\ \A q \in Ports : lock[q] = t => dest'[q] = dest[q] /\ where'[q] = where[q]
  BY ValuesAssumption DEF IInv, TypeOK, Backup, thread
<1>2. \A t \in Threads \ {u} : ChainOK(t)'
  BY <1>1, OthersKeep
<1>a. pc[u] \in {"idle", "circular"} /\ lock' = lock
  BY DEF Backup, thread
<1>c. Locks(u)' = {}
  BY <1>a, Lockless
<1>b. \/ pc'[u] \in {"idle", "circular"}
      \/ pc'[u] = "quick" /\ base'[u] = to'[u] /\ to'[u] # port'[u]
  BY <1>a DEF IInv, TypeOK, Backup, thread
<1>3. ChainOK(u)'
  BY <1>b, <1>c DEF ChainOK
<1> QED  BY <1>2, <1>3 DEF ChainsOK

(* Copyin keeps the chains in order.                                        *)
LEMMA CopyinChains ==
    ASSUME IInv, NEW u \in Threads, NEW p \in Ports, Copyin(u, p)
    PROVE  ChainsOK'
<1>1. \A t \in Threads \ {u} :
        /\ pc'[t] = pc[t] /\ port'[t] = port[t] /\ to'[t] = to[t] /\ base'[t] = base[t]
        /\ \A q \in Ports : lock'[q] = t <=> lock[q] = t
        /\ \A q \in Ports : lock[q] = t => dest'[q] = dest[q] /\ where'[q] = where[q]
  BY ValuesAssumption DEF IInv, TypeOK, Copyin, ToLimbo, Call
<1>2. \A t \in Threads \ {u} : ChainOK(t)'
  BY <1>1, OthersKeep
<1>a. pc[u] \in {"idle", "circular"} /\ lock' = lock
  BY DEF Copyin, ToLimbo, Call
<1>c. Locks(u)' = {}
  BY <1>a, Lockless
<1>b. \/ pc'[u] \in {"idle", "circular"}
      \/ pc'[u] = "quick" /\ base'[u] = to'[u] /\ to'[u] # port'[u]
  BY <1>a DEF IInv, TypeOK, Copyin, ToLimbo, Call
<1>3. ChainOK(u)'
  BY <1>b, <1>c DEF ChainOK
<1> QED  BY <1>2, <1>3 DEF ChainsOK

(* Copyout keeps the chains in order.                                       *)
LEMMA CopyoutChains ==
    ASSUME IInv, NEW u \in Threads, NEW p \in Ports, Copyout(u, p)
    PROVE  ChainsOK'
<1>1. \A t \in Threads \ {u} :
        /\ pc'[t] = pc[t] /\ port'[t] = port[t] /\ to'[t] = to[t] /\ base'[t] = base[t]
        /\ \A q \in Ports : lock'[q] = t <=> lock[q] = t
        /\ \A q \in Ports : lock[q] = t => dest'[q] = dest[q] /\ where'[q] = where[q]
  BY ValuesAssumption DEF IInv, TypeOK, Copyout, ToSpace, thread
<1>2. \A t \in Threads \ {u} : ChainOK(t)'
  BY <1>1, OthersKeep
<1>a. pc[u] \in {"idle", "circular"} /\ lock' = lock
  BY DEF Copyout, ToSpace, thread
<1>c. Locks(u)' = {}
  BY <1>a, Lockless
<1>b. \/ pc'[u] \in {"idle", "circular"}
      \/ pc'[u] = "quick" /\ base'[u] = to'[u] /\ to'[u] # port'[u]
  BY <1>a DEF IInv, TypeOK, Copyout, ToSpace, thread
<1>3. ChainOK(u)'
  BY <1>b, <1>c DEF ChainOK
<1> QED  BY <1>2, <1>3 DEF ChainsOK

(* Destroy keeps the chains in order.                                       *)
LEMMA DestroyChains ==
    ASSUME IInv, NEW u \in Threads, NEW p \in Ports, pc[u] \in {"idle", "circular"},
           ipc_port_destroy(u, p)
    PROVE  ChainsOK'
<1>1. \A t \in Threads \ {u} :
        /\ pc'[t] = pc[t] /\ port'[t] = port[t] /\ to'[t] = to[t] /\ base'[t] = base[t]
        /\ \A q \in Ports : lock'[q] = t <=> lock[q] = t
        /\ \A q \in Ports : lock[q] = t => dest'[q] = dest[q] /\ where'[q] = where[q]
  BY ValuesAssumption DEF IInv, TypeOK, ipc_port_destroy, ToLimbo, Die, Call, Return
<1>2. \A t \in Threads \ {u} : ChainOK(t)'
  BY <1>1, OthersKeep
<1>a. pc[u] \in {"idle", "circular"} /\ lock' = lock
  BY DEF ipc_port_destroy, ToLimbo, Die, Call, Return
<1>c. Locks(u)' = {}
  BY <1>a, Lockless
<1>b. \/ pc'[u] \in {"idle", "circular"}
      \/ pc'[u] = "quick" /\ base'[u] = to'[u] /\ to'[u] # port'[u]
  BY <1>a DEF IInv, TypeOK, ipc_port_destroy, ToLimbo, Die, Call, Return
<1>3. ChainOK(u)'
  BY <1>b, <1>c DEF ChainOK
<1> QED  BY <1>2, <1>3 DEF ChainsOK

(* CircularReturned keeps the chains in order.                              *)
LEMMA CircularReturnedChains ==
    ASSUME IInv, NEW u \in Threads, CircularReturned(u)
    PROVE  ChainsOK'
<1>1. \A t \in Threads \ {u} :
        /\ pc'[t] = pc[t] /\ port'[t] = port[t] /\ to'[t] = to[t] /\ base'[t] = base[t]
        /\ \A q \in Ports : lock'[q] = t <=> lock[q] = t
        /\ \A q \in Ports : lock[q] = t => dest'[q] = dest[q] /\ where'[q] = where[q]
  BY ValuesAssumption DEF IInv, TypeOK, CircularReturned, ToSpace, Return
<1>2. \A t \in Threads \ {u} : ChainOK(t)'
  BY <1>1, OthersKeep
<1>a. pc[u] \in {"idle", "circular"} /\ lock' = lock
  BY DEF CircularReturned, ToSpace, Return
<1>c. Locks(u)' = {}
  BY <1>a, Lockless
<1>b. \/ pc'[u] \in {"idle", "circular"}
      \/ pc'[u] = "quick" /\ base'[u] = to'[u] /\ to'[u] # port'[u]
  BY <1>a DEF IInv, TypeOK, CircularReturned, ToSpace, Return
<1>3. ChainOK(u)'
  BY <1>b, <1>c DEF ChainOK
<1> QED  BY <1>2, <1>3 DEF ChainsOK

(* The cursor of a loop stays on the path.                                  *)
LEMMA CursorStays ==
    ASSUME IInv, NEW u \in Threads
    PROVE  /\ pc[u] = "walk" /\ InTransit(base[u]) => dest[base[u]] \in Ports
           /\ pc[u] = "unlock" /\ to[u] # base[u] => dest[to[u]] \in Ports
           /\ pc[u] = "unlock_circle" /\ dest[to[u]] # Null => dest[to[u]] \in Ports
<1>1. pc[u] = "walk" /\ InTransit(base[u]) => dest[base[u]] \in Ports
  BY DEF IInv, TypeOK, OwnerOK, InTransit
<1>2. pc[u] \in {"unlock", "unlock_circle"} /\ to[u] # base[u] => dest[to[u]] \in Locks(u)
  BY DEF IInv, ChainsOK, ChainOK, Path
<1>3. pc[u] = "unlock_circle" => dest[base[u]] = Null
  BY DEF IInv, ChainsOK, ChainOK, OwnerOK
<1> QED  BY <1>1, <1>2, <1>3 DEF Locks

(* Every step keeps the types.                                              *)
LEMMA TypeStep ==
    ASSUME IInv, [Next]_vars
    PROVE  TypeOK'
<1> USE ValuesAssumption DEF Labels
<1>0. CASE UNCHANGED vars
  BY <1>0 DEF IInv, TypeOK, vars, rights, thread
<1>1. ASSUME NEW u \in Threads, Check(u) PROVE TypeOK'
  <2>1. CASE QuickLock(u)
    BY <1>1, <2>1 DEF IInv, TypeOK, QuickLock, rights, Lock, Goto
  <2>2. CASE QuickTry(u)
    BY <1>1, <2>2 DEF IInv, TypeOK, QuickTry, rights, Lock, Goto
  <2>3. CASE QuickFails(u)
    BY <1>1, <2>3 DEF IInv, TypeOK, QuickFails, rights, Unlock, Goto
  <2>4. CASE ipc_port_multiple_lock(u)
    BY <1>1, <2>4 DEF IInv, TypeOK, ipc_port_multiple_lock, rights, Goto
  <2>5. CASE Walk(u)
    BY <1>1, <2>5, CursorStays DEF IInv, TypeOK, Walk, rights, Lock, Goto
  <2>6. CASE Circular(u)
    BY <1>1, <2>6 DEF IInv, TypeOK, Circular, rights, Goto
  <2>7. CASE UnlockCircle(u)
    BY <1>1, <2>7, CursorStays DEF IInv, TypeOK, UnlockCircle, rights, Unlock, Goto
  <2>8. CASE NotCircular(u)
    BY <1>1, <2>8 DEF IInv, TypeOK, NotCircular, rights, Lock, Goto
  <2>9. CASE Link(u)
    BY <1>1, <2>9 DEF IInv, TypeOK, Link, Goto
  <2>10. CASE UnlockChain(u)
    BY <1>1, <2>10, CursorStays DEF IInv, TypeOK, UnlockChain, rights, Unlock, Return
  <2>11. CASE CircularDestroyed(u)
    BY <1>1, <2>11 DEF IInv, TypeOK, CircularDestroyed, ipc_port_destroy, ToLimbo, Die, Call, Return
  <2>12. CASE CircularReturned(u)
    BY <1>1, <2>12 DEF IInv, TypeOK, CircularReturned, ToSpace, Return
  <2> QED  BY <1>1, <2>1, <2>2, <2>3, <2>4, <2>5, <2>6, <2>7, <2>8, <2>9, <2>10, <2>11, <2>12 DEF Check
<1>2. ASSUME NEW u \in Threads, NEW p \in Ports, Transfer(u, p) PROVE TypeOK'
  <2>1. CASE Backup(u, p)
    BY <1>2, <2>1 DEF IInv, TypeOK, Backup, thread
  <2>2. CASE Copyin(u, p)
    BY <1>2, <2>2 DEF IInv, TypeOK, Copyin, ToLimbo, Call
  <2>3. CASE Copyout(u, p)
    BY <1>2, <2>3 DEF IInv, TypeOK, Copyout, ToSpace, thread
  <2>4. CASE Destroy(u, p)
    BY <1>2, <2>4 DEF IInv, TypeOK, Destroy, ipc_port_destroy, ToLimbo, Die, Call, Return
  <2> QED  BY <1>2, <2>1, <2>2, <2>3, <2>4 DEF Transfer
<1> QED  BY <1>0, <1>1, <1>2 DEF Next

(* ipc_port_multiple_lock belongs to the one thread that walks.             *)
LEMMA MultipleStep ==
    ASSUME IInv, [Next]_vars
    PROVE  MultipleOK'
<1> USE ValuesAssumption
<1>0. CASE UNCHANGED vars
  BY <1>0 DEF IInv, MultipleOK, vars, thread
<1>1. ASSUME NEW u \in Threads, Check(u) PROVE MultipleOK'
  <2>1. CASE QuickLock(u)
    BY <1>1, <2>1 DEF IInv, TypeOK, MultipleOK, QuickLock, rights, Lock, Goto
  <2>2. CASE QuickTry(u)
    BY <1>1, <2>2 DEF IInv, TypeOK, MultipleOK, QuickTry, rights, Lock, Goto
  <2>3. CASE QuickFails(u)
    BY <1>1, <2>3 DEF IInv, TypeOK, MultipleOK, QuickFails, rights, Unlock, Goto
  <2>4. CASE ipc_port_multiple_lock(u)
    BY <1>1, <2>4 DEF IInv, TypeOK, MultipleOK, ipc_port_multiple_lock, rights, Goto
  <2>5. CASE Walk(u)
    BY <1>1, <2>5 DEF IInv, TypeOK, MultipleOK, Walk, rights, Lock, Goto
  <2>6. CASE Circular(u)
    BY <1>1, <2>6 DEF IInv, TypeOK, MultipleOK, Circular, rights, Goto
  <2>7. CASE UnlockCircle(u)
    BY <1>1, <2>7 DEF IInv, TypeOK, MultipleOK, UnlockCircle, rights, Unlock, Goto
  <2>8. CASE NotCircular(u)
    BY <1>1, <2>8 DEF IInv, TypeOK, MultipleOK, NotCircular, rights, Lock, Goto
  <2>9. CASE Link(u)
    BY <1>1, <2>9 DEF IInv, TypeOK, MultipleOK, Link, Goto
  <2>10. CASE UnlockChain(u)
    BY <1>1, <2>10 DEF IInv, TypeOK, MultipleOK, UnlockChain, rights, Unlock, Return
  <2>11. CASE CircularDestroyed(u)
    BY <1>1, <2>11 DEF IInv, TypeOK, MultipleOK, CircularDestroyed, ipc_port_destroy, ToLimbo, Die, Call, Return
  <2>12. CASE CircularReturned(u)
    BY <1>1, <2>12 DEF IInv, TypeOK, MultipleOK, CircularReturned, ToSpace, Return
  <2> QED  BY <1>1, <2>1, <2>2, <2>3, <2>4, <2>5, <2>6, <2>7, <2>8, <2>9, <2>10, <2>11, <2>12 DEF Check
<1>2. ASSUME NEW u \in Threads, NEW p \in Ports, Transfer(u, p) PROVE MultipleOK'
  <2>1. CASE Backup(u, p)
    BY <1>2, <2>1 DEF IInv, TypeOK, MultipleOK, Backup, thread
  <2>2. CASE Copyin(u, p)
    BY <1>2, <2>2 DEF IInv, TypeOK, MultipleOK, Copyin, ToLimbo, Call
  <2>3. CASE Copyout(u, p)
    BY <1>2, <2>3 DEF IInv, TypeOK, MultipleOK, Copyout, ToSpace, thread
  <2>4. CASE Destroy(u, p)
    BY <1>2, <2>4 DEF IInv, TypeOK, MultipleOK, Destroy, ipc_port_destroy, ToLimbo, Die, Call, Return
  <2> QED  BY <1>2, <2>1, <2>2, <2>3, <2>4 DEF Transfer
<1> QED  BY <1>0, <1>1, <1>2 DEF Next

(* A naked right has one owner, who alone changes it.                       *)
LEMMA OwnerStep ==
    ASSUME IInv, [Next]_vars
    PROVE  OwnerOK'
<1> USE ValuesAssumption
<1>0. CASE UNCHANGED vars
  BY <1>0 DEF IInv, OwnerOK, vars, rights, thread
<1>1. ASSUME NEW u \in Threads, Check(u) PROVE OwnerOK'
  <2>1. CASE QuickLock(u)
    BY <1>1, <2>1 DEF IInv, TypeOK, OwnerOK, QuickLock, rights, Lock, Goto
  <2>2. CASE QuickTry(u)
    BY <1>1, <2>2 DEF IInv, TypeOK, OwnerOK, QuickTry, rights, Lock, Goto
  <2>3. CASE QuickFails(u)
    BY <1>1, <2>3 DEF IInv, TypeOK, OwnerOK, QuickFails, rights, Unlock, Goto
  <2>4. CASE ipc_port_multiple_lock(u)
    BY <1>1, <2>4 DEF IInv, TypeOK, OwnerOK, ipc_port_multiple_lock, rights, Goto
  <2>5. CASE Walk(u)
    BY <1>1, <2>5 DEF IInv, TypeOK, OwnerOK, Walk, rights, Lock, Goto
  <2>6. CASE Circular(u)
    BY <1>1, <2>6 DEF IInv, TypeOK, OwnerOK, Circular, rights, Goto
  <2>7. CASE UnlockCircle(u)
    BY <1>1, <2>7 DEF IInv, TypeOK, OwnerOK, UnlockCircle, rights, Unlock, Goto
  <2>8. CASE NotCircular(u)
    BY <1>1, <2>8 DEF IInv, TypeOK, OwnerOK, NotCircular, rights, Lock, Goto
  <2>9. CASE Link(u)
    BY <1>1, <2>9 DEF IInv, TypeOK, OwnerOK, Link, Goto
  <2>10. CASE UnlockChain(u)
    BY <1>1, <2>10 DEF IInv, TypeOK, OwnerOK, UnlockChain, rights, Unlock, Return
  <2>11. CASE CircularDestroyed(u)
    BY <1>1, <2>11 DEF IInv, TypeOK, OwnerOK, CircularDestroyed, ipc_port_destroy, ToLimbo, Die, Call, Return
  <2>12. CASE CircularReturned(u)
    BY <1>1, <2>12 DEF IInv, TypeOK, OwnerOK, CircularReturned, ToSpace, Return
  <2> QED  BY <1>1, <2>1, <2>2, <2>3, <2>4, <2>5, <2>6, <2>7, <2>8, <2>9, <2>10, <2>11, <2>12 DEF Check
<1>2. ASSUME NEW u \in Threads, NEW p \in Ports, Transfer(u, p) PROVE OwnerOK'
  <2>1. CASE Backup(u, p)
    BY <1>2, <2>1 DEF IInv, TypeOK, OwnerOK, Backup, thread
  <2>2. CASE Copyin(u, p)
    BY <1>2, <2>2 DEF IInv, TypeOK, OwnerOK, Copyin, ToLimbo, Call
  <2>3. CASE Copyout(u, p)
    BY <1>2, <2>3 DEF IInv, TypeOK, OwnerOK, Owned, Copyout, ToSpace, thread
  <2>4. CASE Destroy(u, p)
    BY <1>2, <2>4 DEF IInv, TypeOK, OwnerOK, Owned, Destroy, ipc_port_destroy, ToLimbo, Die, Call, Return
  <2> QED  BY <1>2, <2>1, <2>2, <2>3, <2>4 DEF Transfer
<1> QED  BY <1>0, <1>1, <1>2 DEF Next

(* A step that puts no new port in transit, and redirects none, closes no   *)
(* circle.                                                                  *)
LEMMA FewerInTransit ==
    ASSUME NoCircle,
           \A q \in Ports : InTransit(q)' => InTransit(q) /\ dest'[q] = dest[q]
    PROVE  NoCircle'
BY DEF NoCircle

(* Nor does the link: a circle through the port would run along the locked  *)
(* path, which ends at a port that is not in transit.                       *)
LEMMA LinkNoCircle ==
    ASSUME IInv, NEW u \in Threads, Link(u)
    PROVE  NoCircle'
<1> DEFINE p == port[u]  M == Locks(u) \ {port[u]}
<1>1. pc[u] = "link" /\ p \in Ports /\ to[u] \in Ports
  BY DEF IInv, TypeOK, Link
<1>2. base[u] \in M /\ ~InTransit(base[u]) /\ Path(M, to[u], base[u])
  BY <1>1 DEF IInv, ChainsOK, ChainOK
<1>3. dest'[p] = to[u] /\ \A q \in Ports \ {p} : dest'[q] = dest[q] /\ where'[q] = where[q]
  BY <1>1 DEF IInv, TypeOK, Link
<1>4. \A q \in Ports \ {p} : InTransit(q)' <=> InTransit(q)
  BY <1>3 DEF InTransit
<1>5. SUFFICES ASSUME NEW S \in SUBSET Ports, S # {},
                      \A q \in S : InTransit(q)' /\ dest'[q] \in S
               PROVE  FALSE
  BY DEF NoCircle
<1>6. CASE p \notin S
  <2>1. \A q \in S : InTransit(q) /\ dest[q] \in S
    BY <1>3, <1>4, <1>5, <1>6
  <2> QED  BY <2>1, <1>5, NoLoop DEF IInv
<1>7. CASE p \in S
  <2>1. to[u] \in S \cap M
    BY <1>2, <1>3, <1>5, <1>7 DEF Path
  <2>2. \A q \in S \cap M : InTransit(q) /\ dest[q] \in S \cap M
    <3>1. ASSUME NEW q \in S \cap M PROVE InTransit(q) /\ dest[q] \in S
      BY <1>3, <1>4, <1>5 DEF Locks
    <3>2. \A q \in S \cap M : q # base[u]
      BY <3>1, <1>2
    <3> QED  BY <3>1, <3>2, <1>2 DEF Path
  <2>3. S \cap M \in SUBSET Ports /\ NoCircle
    BY DEF IInv
  <2> QED  BY <2>1, <2>2, <2>3, NoLoop
<1> QED  BY <1>6, <1>7

(* No step closes a circle.                                                 *)
LEMMA NoCircleStep ==
    ASSUME IInv, [Next]_vars
    PROVE  NoCircle'
<1> USE ValuesAssumption
<1> DEFINE Fewer == \A q \in Ports : InTransit(q)' => InTransit(q) /\ dest'[q] = dest[q]
<1>0. CASE UNCHANGED vars
  <2>1. Fewer
    BY <1>0 DEF InTransit, vars, rights
  <2> QED  BY <2>1, FewerInTransit DEF IInv
<1>1. ASSUME NEW u \in Threads, Check(u) PROVE NoCircle'
  <2>1. CASE QuickLock(u)
    <3>1. Fewer
      BY <2>1 DEF InTransit, QuickLock, rights
    <3> QED  BY <3>1, FewerInTransit DEF IInv
  <2>2. CASE QuickTry(u)
    <3>1. Fewer
      BY <2>2 DEF InTransit, QuickTry, rights
    <3> QED  BY <3>1, FewerInTransit DEF IInv
  <2>3. CASE QuickFails(u)
    <3>1. Fewer
      BY <2>3 DEF InTransit, QuickFails, rights
    <3> QED  BY <3>1, FewerInTransit DEF IInv
  <2>4. CASE ipc_port_multiple_lock(u)
    <3>1. Fewer
      BY <2>4 DEF InTransit, ipc_port_multiple_lock, rights
    <3> QED  BY <3>1, FewerInTransit DEF IInv
  <2>5. CASE Walk(u)
    <3>1. Fewer
      BY <2>5 DEF InTransit, Walk, rights
    <3> QED  BY <3>1, FewerInTransit DEF IInv
  <2>6. CASE Circular(u)
    <3>1. Fewer
      BY <2>6 DEF InTransit, Circular, rights
    <3> QED  BY <3>1, FewerInTransit DEF IInv
  <2>7. CASE UnlockCircle(u)
    <3>1. Fewer
      BY <2>7 DEF InTransit, UnlockCircle, rights
    <3> QED  BY <3>1, FewerInTransit DEF IInv
  <2>8. CASE NotCircular(u)
    <3>1. Fewer
      BY <2>8 DEF InTransit, NotCircular, rights
    <3> QED  BY <3>1, FewerInTransit DEF IInv
  <2>9. CASE Link(u)
    BY <1>1, <2>9, LinkNoCircle
  <2>10. CASE UnlockChain(u)
    <3>1. Fewer
      BY <2>10 DEF InTransit, UnlockChain, rights
    <3> QED  BY <3>1, FewerInTransit DEF IInv
  <2>11. CASE CircularDestroyed(u)
    <3>1. Fewer
      BY <1>1, <2>11 DEF IInv, TypeOK, InTransit, CircularDestroyed, ipc_port_destroy, ToLimbo, Die, Call, Return
    <3> QED  BY <3>1, FewerInTransit DEF IInv
  <2>12. CASE CircularReturned(u)
    <3>1. Fewer
      BY <1>1, <2>12 DEF IInv, TypeOK, InTransit, CircularReturned, ToSpace, Return
    <3> QED  BY <3>1, FewerInTransit DEF IInv
  <2> QED  BY <1>1, <2>1, <2>2, <2>3, <2>4, <2>5, <2>6, <2>7, <2>8, <2>9, <2>10, <2>11, <2>12 DEF Check
<1>2. ASSUME NEW u \in Threads, NEW p \in Ports, Transfer(u, p) PROVE NoCircle'
  <2>1. Fewer
    <3>1. CASE Backup(u, p)
      BY <1>2, <3>1 DEF IInv, TypeOK, InTransit, Backup, thread
    <3>2. CASE Copyin(u, p)
      BY <1>2, <3>2 DEF IInv, TypeOK, InTransit, Copyin, ToLimbo, Call
    <3>3. CASE Copyout(u, p)
      BY <1>2, <3>3 DEF IInv, TypeOK, InTransit, Copyout, ToSpace, thread
    <3>4. CASE Destroy(u, p)
      BY <1>2, <3>4 DEF IInv, TypeOK, InTransit, Destroy, ipc_port_destroy, ToLimbo, Die, Call, Return
    <3> QED  BY <1>2, <3>1, <3>2, <3>3, <3>4 DEF Transfer
  <2> QED  BY <2>1, FewerInTransit DEF IInv
<1> QED  BY <1>0, <1>1, <1>2 DEF Next

(* Every step keeps every thread's chain in order.                          *)
LEMMA ChainsStep ==
    ASSUME IInv, [Next]_vars
    PROVE  ChainsOK'
<1>0. CASE UNCHANGED vars
  BY <1>0 DEF IInv, ChainsOK, ChainOK, Locks, Path, InTransit, vars, rights, thread
<1>1. ASSUME NEW u \in Threads, Check(u) PROVE ChainsOK'
  <2>1. CASE QuickLock(u)
    BY <2>1, QuickLockChains
  <2>2. CASE QuickTry(u)
    BY <2>2, QuickTryChains
  <2>3. CASE QuickFails(u)
    BY <2>3, QuickFailsChains
  <2>4. CASE ipc_port_multiple_lock(u)
    BY <2>4, MultipleChains
  <2>5. CASE Walk(u)
    BY <2>5, WalkChains
  <2>6. CASE Circular(u)
    BY <2>6, CircularChains
  <2>7. CASE UnlockCircle(u)
    BY <2>7, UnlockCircleChains
  <2>8. CASE NotCircular(u)
    BY <2>8, NotCircularChains
  <2>9. CASE Link(u)
    BY <2>9, LinkChains
  <2>10. CASE UnlockChain(u)
    BY <2>10, UnlockChainChains
  <2>11. CASE CircularDestroyed(u)
    <3>1. port[u] \in Ports /\ pc[u] = "circular" /\ ipc_port_destroy(u, port[u])
      BY <2>11 DEF CircularDestroyed, IInv, TypeOK
    <3> QED  BY <3>1, DestroyChains
  <2>12. CASE CircularReturned(u)
    BY <2>12, CircularReturnedChains
  <2> QED  BY <1>1, <2>1, <2>2, <2>3, <2>4, <2>5, <2>6, <2>7, <2>8, <2>9, <2>10, <2>11, <2>12 DEF Check
<1>2. ASSUME NEW u \in Threads, NEW p \in Ports, Transfer(u, p) PROVE ChainsOK'
  BY <1>2, BackupChains, CopyinChains, CopyoutChains, DestroyChains DEF Transfer, Destroy
<1> QED  BY <1>0, <1>1, <1>2 DEF Next

(* The invariant holds initially and is kept by every step.                 *)
LEMMA Inductive == Spec => []IInv
<1>1. Init => IInv
  <2> SUFFICES ASSUME Init PROVE IInv
    OBVIOUS
  <2> USE ValuesAssumption
  <2>1. TypeOK
    BY DEF Init, TypeOK, Labels
  <2>2. OwnerOK /\ MultipleOK
    BY DEF Init, OwnerOK, MultipleOK
  <2>3. ChainsOK
    BY DEF Init, ChainsOK, ChainOK, Locks
  <2>4. NoCircle
    BY DEF Init, NoCircle, InTransit
  <2> QED  BY <2>1, <2>2, <2>3, <2>4 DEF IInv
<1>2. IInv /\ [Next]_vars => IInv'
  BY TypeStep, OwnerStep, MultipleStep, ChainsStep, NoCircleStep DEF IInv
<1> QED  BY <1>1, <1>2, PTL DEF Spec

(* The fields of ports and checks keep their types, and no cursor of        *)
(* ipc_port_check_circularity runs off the end of a chain.                  *)
THEOREM TypeCorrect == Spec => []TypeOK
<1>1. IInv => TypeOK
  BY DEF IInv
<1> QED  BY <1>1, Inductive, PTL

(* ipc_port_check_circularity keeps its promise: no transfer of receive     *)
(* rights, however many race, closes a circle of ports and messages.        *)
THEOREM Acyclic == Spec => []NoCircle
<1>1. IInv => NoCircle
  BY DEF IInv
<1> QED  BY <1>1, Inductive, PTL

(* Taking the locks of a whole chain under ipc_port_multiple_lock cannot    *)
(* deadlock, with other walks, with quick checks or with itself.            *)
THEOREM DeadlockFree == Spec => []NoDeadlock
<1>1. IInv => NoDeadlock
  <2> SUFFICES ASSUME IInv, NEW S \in SUBSET Threads, S # {},
                      \A t \in S : WaitsFor(t) \in S
               PROVE  FALSE
    BY DEF NoDeadlock
  <2>1. \A t \in S : pc[t] \in {"quick", "circular", "multiple", "walk", "end"}
    BY ValuesAssumption DEF WaitsFor
  <2>2. ASSUME NEW t \in S
        PROVE  /\ pc[t] = "multiple" => multiple \in S
               /\ pc[t] \in {"quick", "circular"} => lock[port[t]] \in S
               /\ pc[t] = "walk" => lock[base[t]] \in S
               /\ pc[t] = "end" => port[t] # base[t] /\ lock[port[t]] \in S
    BY ValuesAssumption DEF WaitsFor
  <2>3. ASSUME NEW t \in S PROVE port[t] \in Ports /\ base[t] \in Ports
    BY <2>1 DEF IInv, TypeOK
  <2>4. ASSUME NEW t \in S, NEW p \in Ports, lock[p] = t PROVE multiple = t
    <3>1. Locks(t) # {}
      BY <2>4 DEF Locks
    <3>2. pc[t] \in {"walk", "end"}
      BY <3>1, <2>1 DEF IInv, ChainsOK, ChainOK
    <3> QED  BY <3>2 DEF IInv, MultipleOK
  <2>5. multiple \in S
    <3>1. PICK t \in S : TRUE
      OBVIOUS
    <3>2. CASE pc[t] = "multiple"
      BY <3>2, <2>2
    <3>3. CASE pc[t] # "multiple"
      <4>1. lock[port[t]] \in S \/ lock[base[t]] \in S
        BY <3>3, <2>1, <2>2
      <4> QED  BY <4>1, <2>3, <2>4
    <3> QED  BY <3>2, <3>3
  <2> DEFINE u == multiple
  <2>6. pc[u] \in {"walk", "end"}
    BY <2>5 DEF IInv, MultipleOK
  <2>7. CASE pc[u] = "walk"
    <3>1. lock[base[u]] = u
      BY <2>7, <2>2, <2>3, <2>4, <2>5
    <3> QED  BY <3>1, <2>7, <2>3, <2>5 DEF IInv, ChainsOK, ChainOK, Locks
  <2>8. CASE pc[u] = "end"
    <3>1. lock[port[u]] = u /\ port[u] # base[u] /\ port[u] \in Ports
      BY <2>8, <2>2, <2>3, <2>4, <2>5
    <3>2. InTransit(port[u])
      BY <3>1, <2>8, <2>5 DEF IInv, ChainsOK, ChainOK, Path, Locks
    <3> QED  BY <3>2, <2>8, <2>5 DEF IInv, OwnerOK, InTransit
  <2> QED  BY <2>6, <2>7, <2>8
<1> QED  BY <1>1, Inductive, PTL

(* The unlocking loops give every lock back, though they find their way by  *)
(* the destinations of the ports they unlock.                               *)
THEOREM LocksReturned == Spec => []NoLockLeaked
<1>1. IInv => NoLockLeaked
  <2> SUFFICES ASSUME IInv PROVE NoLockLeaked
    OBVIOUS
  <2>1. \A p \in Ports : lock[p] # Free =>
            pc[lock[p]] \notin {"idle", "quick", "multiple", "circular"}
    <3> SUFFICES ASSUME NEW p \in Ports, lock[p] # Free
                 PROVE  pc[lock[p]] \notin {"idle", "quick", "multiple", "circular"}
      OBVIOUS
    <3>1. lock[p] \in Threads /\ Locks(lock[p]) # {}
      BY DEF IInv, TypeOK, Locks
    <3> QED  BY <3>1 DEF IInv, ChainsOK, ChainOK
  <2>2. multiple # Free => pc[multiple] \in {"walk", "end"}
    BY DEF IInv, TypeOK, MultipleOK
  <2> QED  BY <2>1, <2>2 DEF NoLockLeaked
<1> QED  BY <1>1, Inductive, PTL

(* The assert statements of ipc_port_check_circularity never fail.          *)
THEOREM AssertionsTrue == Spec => []AssertionsHold
<1>1. IInv => AssertionsHold
  <2> SUFFICES ASSUME IInv, NEW t \in Threads
               PROVE  /\ pc[t] \notin {"idle", "unlock"} =>
                             where[port[t]] = "naked" /\ dest[port[t]] = Null
                      /\ pc[t] = "unlock" => (InTransit(to[t]) <=> to[t] # base[t])
                      /\ pc[t] = "unlock_circle" => where[to[t]] = "naked"
    BY DEF AssertionsHold
  <2>1. pc[t] \notin {"idle", "unlock"} => where[port[t]] = "naked" /\ dest[port[t]] = Null
    BY DEF IInv, OwnerOK
  <2>2. pc[t] = "unlock" => (InTransit(to[t]) <=> to[t] # base[t])
    BY DEF IInv, ChainsOK, ChainOK, Path
  <2>3. pc[t] = "unlock_circle" => to[t] = port[t] \/ InTransit(to[t])
    BY DEF IInv, ChainsOK, ChainOK, Path
  <2> QED  BY <2>1, <2>2, <2>3 DEF InTransit
<1> QED  BY <1>1, Inductive, PTL

(* No transfer is refused without cause: a check that reports a circle has  *)
(* a chain of messages from the destination to the port under its locks.    *)
THEOREM RefusalsJustified == Spec => RefusedForCause
<1>1. IInv /\ [Next]_vars =>
        [\A t \in Threads : pc[t] = "end" /\ pc'[t] = "unlock_circle"
                                  => Reaches(to[t], port[t])]_vars
  <2> SUFFICES ASSUME IInv, [Next]_vars, NEW t \in Threads,
                      pc[t] = "end", pc'[t] = "unlock_circle"
               PROVE  Reaches(to[t], port[t])
    OBVIOUS
  <2>1. port[t] = base[t]
    <3> USE DEF IInv, TypeOK
    <3>0. CASE UNCHANGED vars
      BY <3>0 DEF vars, thread
    <3>1. ASSUME NEW u \in Threads, Check(u) PROVE port[t] = base[t]
      <4>1. CASE QuickLock(u)
        BY <4>1 DEF QuickLock, Goto
      <4>2. CASE QuickTry(u)
        BY <4>2 DEF QuickTry, Goto
      <4>3. CASE QuickFails(u)
        BY <4>3 DEF QuickFails, Goto
      <4>4. CASE ipc_port_multiple_lock(u)
        BY <4>4 DEF ipc_port_multiple_lock, Goto
      <4>5. CASE Walk(u)
        BY <4>5 DEF Walk, Goto
      <4>6. CASE Circular(u)
        BY <4>6 DEF Circular, Goto
      <4>7. CASE UnlockCircle(u)
        BY <4>7 DEF UnlockCircle, Goto
      <4>8. CASE NotCircular(u)
        BY <4>8 DEF NotCircular, Goto
      <4>9. CASE Link(u)
        BY <4>9 DEF Link, Goto
      <4>10. CASE UnlockChain(u)
        BY <4>10 DEF UnlockChain, Return
      <4>11. CASE CircularDestroyed(u)
        BY <4>11 DEF CircularDestroyed, ipc_port_destroy, Call, Return
      <4>12. CASE CircularReturned(u)
        BY <4>12 DEF CircularReturned, Return
      <4> QED  BY <3>1, <4>1, <4>2, <4>3, <4>4, <4>5, <4>6, <4>7, <4>8, <4>9, <4>10, <4>11, <4>12 DEF Check
    <3>2. ASSUME NEW u \in Threads, NEW p \in Ports, Transfer(u, p) PROVE port[t] = base[t]
      BY <3>2 DEF Transfer, Backup, Copyin, Copyout, Destroy, ipc_port_destroy, Call, Return, thread
    <3> QED  BY <3>0, <3>1, <3>2 DEF Next
  <2>2. /\ base[t] \in Locks(t) /\ Path(Locks(t), to[t], base[t]) /\ to[t] \in Locks(t)
    BY DEF IInv, ChainsOK, ChainOK, Path
  <2> SUFFICES ASSUME NEW S \in SUBSET Ports, to[t] \in S,
                      \A q \in S : InTransit(q) => dest[q] \in S, base[t] \notin S
               PROVE  FALSE
    BY <2>1 DEF Reaches
  <2>3. \A q \in S \cap Locks(t) : InTransit(q) /\ dest[q] \in S \cap Locks(t)
    BY <2>2 DEF Path
  <2>4. S \cap Locks(t) = {}
    BY <2>3, NoLoop DEF IInv
  <2> QED  BY <2>2, <2>4
<1> QED  BY <1>1, Inductive, PTL DEF Spec, RefusedForCause

=============================================================================
