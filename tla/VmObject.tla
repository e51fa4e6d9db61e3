------------------------------ MODULE VmObject ------------------------------
(***************************************************************************)
(* Copy-on-write memory: the objects of vm/vm_object.c, the page faults of *)
(* vm/vm_fault.c, the daemon of vm/vm_pageout.c and as much of vm_map.c as *)
(* they need.                                                              *)
(*                                                                         *)
(* Each map has one entry, over the pages Page, and one thread that takes  *)
(* faults; other threads of its task copy and remove the entry meanwhile.  *)
(* File is a memory object with MEMORY_OBJECT_COPY_DELAY that its server   *)
(* keeps alive; all other objects are internal and temporary.  All of them *)
(* cover the same pages, so offsets into shadows are 0.                    *)
(*                                                                         *)
(* A step runs from where a thread takes a lock to where it next drops its *)
(* locks or moves its lock to the next object.  A thread whose pc is       *)
(* "search" holds the lock of fault.object.  Wiring, page locks, errors of *)
(* memory managers, share maps and the cache of persistent objects are     *)
(* left out.                                                               *)
(***************************************************************************)
EXTENDS Naturals, FiniteSets

CONSTANTS
    Map, Page, None,
    Object,           \* bound: objects at one time
    File,             \* the one that is not internal
    Value,            \* contents of a page; a new page is filled with Zero
    Zero,
    Max,              \* bounds: map operations with faults, writes, pages
                      \* evicted and faults given up in a behaviour
    Windows           \* the narrow windows that are open, see Window

(***************************************************************************)
(* The windows that the code leaves for a copy to go wrong; a run opens    *)
(* the ones it is about.                                                   *)
(*   "enter"     a copy is made between the last look at the copy object    *)
(*               and PMAP_ENTER, when the object is not locked;            *)
(*   "pager"     a page is pushed to a copy object whose pager is being    *)
(*               made;                                                     *)
(*   "reuse"     the zone hands out an object again while a fault still    *)
(*               has its address in old_copy_object;                       *)
(*   "overtake"  a page is pushed to the copy object, or zero-filled, above *)
(*               a thread that has been woken for it and has yet to look;  *)
(*   "clean"     the daemon comes to a clean page of an internal object    *)
(*               that the pager of the object does not have.               *)
(***************************************************************************)
Window == {"enter", "pager", "reuse", "overtake", "clean"}

ASSUME ConstantsAssumption ==
    /\ File \in Object /\ None \notin Object \cup Value \cup Page
    /\ Zero \in Value
    /\ Windows \subseteq Window
    /\ Max \in [{"call", "write", "evict", "abort"} -> Nat]
    /\ IsFiniteSet(Map) /\ IsFiniteSet(Object)

VARIABLES
    obj,      \* the objects, see ObjectType
    entry,    \* the entry of each map: None or its object and needs_copy
    fault,    \* what the faulting thread of each map is doing
    daemon,   \* the page the pageout daemon is writing
    drops,    \* calls of vm_object_deallocate under way for each object
    file,     \* history: what the memory object contains
    memory,   \* history: what each map last wrote, or was given a copy of
    done      \* history: how much of Max has been used

vars == <<obj, entry, fault, daemon, drops, file, memory, done>>

Prot == {"none", "read", "write"}

\* A page without data is a placeholder: fictitious, or waiting for a pager.
PageType == [val : Value \cup {None}, busy : BOOLEAN, absent : BOOLEAN,
             dirty : BOOLEAN, pmap : [Map -> Prot]]

\* panic, dangling: an assertion or panic of the code was reached; a page was
\* freed that some pmap still maps.
ObjectType == [
    state : {"free", "alive", "dying"},
    ref_count : Nat, paging_in_progress : Nat,
    shadow : Object \cup {None}, copy : Object \cup {None},
    pager_created : BOOLEAN, pager_ready : BOOLEAN,
    page : [Page -> PageType \cup {None}],
    pager : [Page -> Value \cup {None}],   \* what the pager has of it
    panic : BOOLEAN, dangling : BOOLEAN]

FaultType == [
    pc : {"idle", "search", "wait", "woken", "restart", "found", "copied",
          "pushing", "verify", "enter", "dealloc"},
    first : Object \cup {None}, object : Object \cup {None},
    page : Page \cup {None}, write : BOOLEAN,
    prot : BOOLEAN,                        \* whether to map it writable
    data : Value \cup {None},              \* copied, not yet installed
    old_copy : Object \cup {None}]

EntryType == [object : Object \cup {None}, needs_copy : BOOLEAN] \cup {None}

\* A null pointer is not a page or an entry.
ASSUME NoneAssumption ==
    /\ None \notin PageType
    /\ None \notin [object : Object \cup {None}, needs_copy : BOOLEAN]

DaemonType == [pc : {"idle", "create", "send"},
               object : Object \cup {None}, page : Page \cup {None}]

TypeOK ==
    /\ obj \in [Object -> ObjectType]
    /\ entry \in [Map -> EntryType]
    /\ fault \in [Map -> FaultType]
    /\ daemon \in DaemonType
    /\ drops \in [Object -> Nat]
    /\ file \in [Page -> Value]
    /\ memory \in [Map -> [Page -> Value]]
    /\ done \in [DOMAIN Max -> Nat]

Unmapped == [m \in Map |-> "none"]
Placeholder == [val |-> None, busy |-> TRUE, absent |-> FALSE, dirty |-> FALSE,
                pmap |-> Unmapped]
Requested == [Placeholder EXCEPT !.absent = TRUE]
Resident(v, busy, dirty) ==
    [val |-> v, busy |-> busy, absent |-> FALSE, dirty |-> dirty,
     pmap |-> Unmapped]

\* vm_object_allocate
NewObject == [
    state |-> "alive", ref_count |-> 1, paging_in_progress |-> 0,
    shadow |-> None, copy |-> None,
    pager_created |-> FALSE, pager_ready |-> FALSE,
    page |-> [x \in Page |-> None], pager |-> [x \in Page |-> None],
    panic |-> FALSE, dangling |-> FALSE]

FreeObject == [NewObject EXCEPT !.state = "free", !.ref_count = 0]

Idle == [pc |-> "idle", first |-> None, object |-> None, page |-> None,
         write |-> FALSE, prot |-> FALSE, data |-> None, old_copy |-> None]

DaemonIdle == [pc |-> "idle", object |-> None, page |-> None]

Init ==
    /\ obj = [o \in Object |->
                IF o = File
                THEN [NewObject EXCEPT !.pager_created = TRUE,
                                       !.pager_ready = TRUE]
                ELSE FreeObject]
    /\ entry = [m \in Map |-> None]
    /\ fault = [m \in Map |-> Idle]
    /\ daemon = DaemonIdle
    /\ drops = [o \in Object |-> 0]
    /\ file = [x \in Page |-> Zero]
    /\ memory = [m \in Map |-> [x \in Page |-> Zero]]
    /\ done = [k \in DOMAIN Max |-> 0]

-----------------------------------------------------------------------------
(* Locks, waiting and references. *)

Unlocked(o, t) ==
    \A u \in Map \ {t} : fault[u].pc = "search" => fault[u].object # o

\* The objects vm_object_allocate may get from the zone.
Free ==
    {o \in Object : /\ obj[o].state = "free"
                    /\ "reuse" \in Windows \/ \A t \in Map : fault[t].old_copy # o}
Fresh == CHOOSE o \in Free : TRUE

\* The threads of f that wait for page x of o go on, with pc as the result.
Wakeup(f, o, x, pc) ==
    [t \in Map |->
        IF f[t].pc = "wait" /\ f[t].object = o /\ f[t].page = x
        THEN [f[t] EXCEPT !.pc = pc] ELSE f[t]]

Wake(f, o, x) == Wakeup(f, o, x, "woken")

\* PAGE_WAKEUP_DONE on page x of o, in objects s.
PageDone(s, o, x) == [s EXCEPT ![o].page[x].busy = FALSE]

\* pmap_page_protect(VM_PROT_NONE)
Unmap1(s, o, x) == [s EXCEPT ![o].page[x].pmap = Unmapped]

Released(s, o) == [s EXCEPT ![o].paging_in_progress = @ - 1]

\* vm_fault_cleanup: frees the page left busy in the first object, if the
\* search has left that object.
Cleanup_First(s, ft) == Released(s, ft.first)
Cleanup(s, ft) ==
    IF ft.object = ft.first THEN Released(s, ft.object)
    ELSE [Released(Released(s, ft.object), ft.first)
            EXCEPT ![ft.first].page[ft.page] = None]

\* The fault of t is over, with or without a result: vm_fault has a reference
\* to drop.  A user whose access has not succeeded faults again.
GiveUp_Silent(t, s, f) ==
    /\ obj' = Cleanup(s, fault[t])
    /\ fault' = [f EXCEPT ![t] = [Idle EXCEPT !.pc = "dealloc", !.first = fault[t].first]]
GiveUp(t, s, f) ==
    LET ft == fault[t] IN
    /\ obj' = Cleanup(s, ft)
    /\ fault' = [(IF ft.object = ft.first THEN f
                  ELSE Wake(f, ft.first, ft.page))
                   EXCEPT ![t] = [Idle EXCEPT !.pc = "dealloc", !.first = ft.first]]

-----------------------------------------------------------------------------
(* vm_object_collapse *)

Mapped(pg) == pg # None /\ pg.pmap # Unmapped

\* Whether the backing object may go: it is internal, not being paged, and what
\* it shadows has no copy object.
Collapsible_Paging(s, b) ==
    b # File /\ (s[b].shadow # None => s[s[b].shadow].copy = None)
Collapsible(s, b) ==
    /\ b # File /\ s[b].paging_in_progress = 0
    /\ s[b].shadow # None => s[s[b].shadow].copy = None

\* Object o has all the pages of its backing object b, which has no pager.
Hidden_Resident(s, o, b) ==
    \A x \in Page : s[o].page[x] = None => s[b].page[x] = None
Hidden(s, o, b) ==
    /\ ~s[b].pager_created
    /\ \A x \in Page : s[o].page[x] = None => s[b].page[x] = None

\* One turn of the loop for object o, if its conditions hold.  The pages of
\* backing that o lacks move up, with the pager; the others are freed.
CollapseOnce(s, o) ==
    LET b == s[o].shadow
        bo == s[b]
        kept == {x \in Page : s[o].page[x] = None}
    IN IF \/ s[o].pager_created \/ s[o].paging_in_progress # 0
          \/ b = None \/ ~Collapsible(s, b)
       THEN s
       ELSE IF bo.ref_count = 1
       THEN [s EXCEPT
               ![o].page = [x \in Page |-> IF x \in kept THEN bo.page[x] ELSE @[x]],
               ![o].pager = bo.pager,
               ![o].pager_created = bo.pager_created,
               ![o].pager_ready = bo.pager_ready,
               ![o].shadow = bo.shadow,
               ![o].panic = @ \/ ~ \A x \in Page :
                    bo.page[x] # None =>
                        /\ ~bo.page[x].busy \/ bo.page[x].absent
                        /\ x \notin kept => ~s[o].page[x].absent,
               ![o].dangling = @ \/ \E x \in Page \ kept : Mapped(bo.page[x]),
               ![b] = FreeObject]
       ELSE IF ~Hidden(s, o, b) THEN s
       ELSE LET s1 == [s EXCEPT ![o].shadow = bo.shadow,
                                ![b].ref_count = @ - 1]
            IN IF bo.shadow = None THEN s1
               ELSE [s1 EXCEPT ![bo.shadow].ref_count = @ + 1]

\* A chain is no longer than there are objects.
Collapse(s, o) ==
    LET turn[n \in 0 .. Cardinality(Object)] ==
            IF n = 0 THEN s ELSE CollapseOnce(turn[n - 1], o)
    IN turn[Cardinality(Object)]

-----------------------------------------------------------------------------
(* vm_fault_page: the search down the chain of shadows. *)

\* What map m may do with page x.
Access(m, x) ==
    IF \E o \in Object : obj[o].page[x] # None /\ obj[o].page[x].pmap[m] # "none"
    THEN LET o == CHOOSE o \in Object :
                    obj[o].page[x] # None /\ obj[o].page[x].pmap[m] # "none"
         IN obj[o].page[x].pmap[m]
    ELSE "none"

\* vm_fault as far as its call of vm_fault_page.  vm_map_lookup makes the
\* object of a new entry, and for a write a shadow of one that needs_copy.
Fault(t, x, write) ==
    LET e == entry[t]
        make == e.object = None \/ (write /\ e.needs_copy)
        o == IF make THEN Fresh ELSE e.object
        found == IF make THEN [NewObject EXCEPT !.shadow = e.object] ELSE obj[o]
    IN /\ fault[t].pc = "idle" /\ e # None
       /\ Access(t, x) = "none" \/ (write /\ Access(t, x) = "read")
       /\ make => Free # {}
       /\ Unlocked(o, t)
       /\ obj' = [obj EXCEPT
                    ![o] = [found EXCEPT !.ref_count = @ + 1,
                                         !.paging_in_progress = @ + 1]]
       /\ entry' = [entry EXCEPT ![t] =
                      [object |-> o, needs_copy |-> e.needs_copy /\ ~write]]
       /\ fault' = [fault EXCEPT ![t] =
                      [Idle EXCEPT !.pc = "search", !.first = o, !.object = o,
                                   !.page = x, !.write = write,
                                   !.prot = write \/ ~e.needs_copy]]
       /\ UNCHANGED <<daemon, drops, file, memory>>

Looked(t) == obj[fault[t].object].page[fault[t].page]

\* The page is busy: the thread lets go of the lock and waits for it.
FindBusy(t) ==
    /\ fault[t].pc = "search" /\ Looked(t) # None /\ Looked(t).busy
    /\ fault' = [fault EXCEPT ![t].pc = "wait"]
    /\ UNCHANGED <<obj, entry, daemon, drops, file, memory>>

FindPage(t) ==
    LET ft == fault[t] IN
    /\ ft.pc = "search" /\ Looked(t) # None
    /\ ~Looked(t).busy /\ ~Looked(t).absent
    /\ obj' = [obj EXCEPT ![ft.object].page[ft.page].busy = TRUE]
    /\ fault' = [fault EXCEPT ![t].pc = "found"]
    /\ UNCHANGED <<entry, daemon, drops, file, memory>>

\* Whether the pager of o may have page x.  An internal object has a map of
\* what was written to its pager, once it has the pager.
look_for_page(o, x) ==
    /\ obj[o].pager_created
    /\ o = File \/ ~obj[o].pager_ready \/ obj[o].pager[x] # None

AskPager(t) ==
    LET ft == fault[t] IN
    /\ ft.pc = "search" /\ Looked(t) = None
    /\ look_for_page(ft.object, ft.page) /\ obj[ft.object].pager_ready
    /\ obj' = [obj EXCEPT ![ft.object].page[ft.page] = Requested]
    /\ fault' = [fault EXCEPT ![t].pc = "wait"]
    /\ UNCHANGED <<entry, daemon, drops, file, memory>>

PagerNotReady(t) ==
    LET ft == fault[t] IN
    /\ ft.pc = "search" /\ Looked(t) = None
    /\ look_for_page(ft.object, ft.page) /\ ~obj[ft.object].pager_ready
    /\ Unlocked(ft.first, t)
    /\ GiveUp(t, obj, fault)
    /\ UNCHANGED <<entry, daemon, drops, file, memory>>

\* This object does not have the page: it is not resident and its pager is
\* not asked, or the pager was asked and does not have it.
Missing(t) ==
    /\ fault[t].pc = "search"
    /\ \/ Looked(t) = None /\ ~look_for_page(fault[t].object, fault[t].page)
       \/ Looked(t) # None /\ Looked(t).absent /\ ~Looked(t).busy

\* The objects once the search leaves ft.object: the first one keeps a busy
\* page and its paging reference.
Left(ft) ==
    IF ft.object = ft.first
    THEN [obj EXCEPT ![ft.object].page[ft.page] = Placeholder]
    ELSE [Released(obj, ft.object) EXCEPT ![ft.object].page[ft.page] = None]

Descend(t) ==
    LET ft == fault[t]
        next == obj[ft.object].shadow
    IN /\ Missing(t) /\ next # None /\ Unlocked(next, t)
       /\ obj' = [Left(ft) EXCEPT ![next].paging_in_progress = @ + 1]
       /\ fault' = [fault EXCEPT ![t].object = next]
       /\ UNCHANGED <<entry, daemon, drops, file, memory>>

\* The objects down the chain from object o.
Below(o) ==
    LET below[p \in Object] == IF obj[p].shadow = None THEN {}
                               ELSE {obj[p].shadow} \cup below[obj[p].shadow]
    IN below[o]

ZeroFill(t) ==
    LET ft == fault[t] IN
    /\ Missing(t) /\ obj[ft.object].shadow = None /\ Unlocked(ft.first, t)
    /\ "overtake" \in Windows \/ \A u \in Map \ {t} :
         ~(fault[u].pc = "woken" /\ fault[u].page = ft.page
           /\ ft.first \in Below(fault[u].first)
           /\ fault[u].object \in Below(ft.first))
    /\ obj' = [Left(ft) EXCEPT ![ft.first].page[ft.page] = Resident(Zero, TRUE, FALSE)]
    /\ fault' = [fault EXCEPT ![t].object = ft.first, ![t].pc = "found"]
    /\ UNCHANGED <<entry, daemon, drops, file, memory>>

\* The page waited for is no longer busy: look again in the same object.
Resume(t) ==
    /\ fault[t].pc = "woken" /\ Unlocked(fault[t].object, t)
    /\ fault' = [fault EXCEPT ![t].pc = "search"]
    /\ UNCHANGED <<obj, entry, daemon, drops, file, memory>>

\* The wait ended with THREAD_RESTART.
Restarted(t) ==
    /\ fault[t].pc = "restart"
    /\ Unlocked(fault[t].object, t) /\ Unlocked(fault[t].first, t)
    /\ GiveUp(t, obj, fault)
    /\ UNCHANGED <<entry, daemon, drops, file, memory>>

\* thread_abort ended it.
Interrupted(t) ==
    /\ fault[t].pc = "wait"
    /\ Unlocked(fault[t].object, t) /\ Unlocked(fault[t].first, t)
    /\ GiveUp(t, obj, fault)
    /\ UNCHANGED <<entry, daemon, drops, file, memory>>

-----------------------------------------------------------------------------
(* vm_fault_page: the page has been found and is busy. *)

\* A written page that belongs to a lower object is copied.
CopyUp(t) ==
    LET ft == fault[t] IN
    /\ ft.pc = "found" /\ ft.object # ft.first /\ ft.write
    /\ Unlocked(ft.object, t)
    /\ obj' = Released(PageDone(Unmap1(obj, ft.object, ft.page),
                                ft.object, ft.page), ft.object)
    /\ fault' = [Wake(fault, ft.object, ft.page)
                   EXCEPT ![t].pc = "copied", ![t].object = ft.first,
                          ![t].data = Looked(t).val]
    /\ UNCHANGED <<entry, daemon, drops, file, memory>>

\* The copy replaces the page left busy in the first object, which is then
\* collapsed without our paging reference.
Install(t) ==
    LET ft == fault[t]
        x == ft.page
        s == [Released(obj, ft.first)
                EXCEPT ![ft.first].page[x] = Resident(ft.data, TRUE, FALSE)]
    IN /\ ft.pc = "copied" /\ Unlocked(ft.first, t)
       /\ obj' = [Collapse(s, ft.first)
                    EXCEPT ![ft.first].paging_in_progress = @ + 1]
       /\ fault' = [Wake(fault, ft.first, x)
                      EXCEPT ![t].pc = "verify", ![t].data = None,
                             ![t].old_copy = obj'[ft.first].copy]
       /\ UNCHANGED <<entry, daemon, drops, file, memory>>

Pushes(ft) ==
    ft.object = ft.first /\ ft.write /\ obj[ft.first].copy # None

\* Nothing to copy.  A page that is not the first object's, or that a copy
\* object may need, is not made writable by a read.
Accept(t) ==
    LET ft == fault[t] IN
    /\ ft.pc = "found" /\ Unlocked(ft.object, t)
    /\ ft.object = ft.first \/ ~ft.write
    /\ Pushes(ft) => LET pg == obj[obj[ft.first].copy].page[ft.page]
                     IN /\ Unlocked(obj[ft.first].copy, t)
                        /\ pg # None /\ ~pg.busy
    /\ fault' = [fault EXCEPT
                   ![t].pc = "verify", ![t].old_copy = obj[ft.object].copy,
                   ![t].prot = @ /\ ft.object = ft.first
                                 /\ (ft.write \/ obj[ft.object].copy = None)]
    /\ UNCHANGED <<obj, entry, daemon, drops, file, memory>>

\* Put the page found back and give up.
PutBack(t) ==
    LET ft == fault[t] IN
    /\ Unlocked(ft.object, t) /\ Unlocked(ft.first, t)
    /\ GiveUp(t, PageDone(obj, ft.object, ft.page),
                 Wake(fault, ft.object, ft.page))
    /\ UNCHANGED <<entry, daemon, drops, file, memory>>

\* The copy object has a page there that is busy.
CopyBusy(t) ==
    LET ft == fault[t]
        c == obj[ft.first].copy
    IN /\ ft.pc = "found" /\ Pushes(ft) /\ Unlocked(c, t)
       /\ obj[c].page[ft.page] # None /\ obj[c].page[ft.page].busy
       /\ PutBack(t)

\* No page can be had to copy to.
NoMemory(t) ==
    LET ft == fault[t]
        c == obj[ft.first].copy
    IN /\ ft.pc = "found" /\ ft.write
       /\ ft.object # ft.first \/ Pushes(ft)
       /\ Pushes(ft) => Unlocked(c, t) /\ obj[c].page[ft.page] = None
       /\ PutBack(t)

\* The page is about to change and the copy object does not have it.  Faults
\* that came down from the copy object and wait for this page start again.
Push(t) ==
    LET ft == fault[t]
        x == ft.page
        c == obj[ft.first].copy
        s == Unmap1(obj, ft.first, x)
    IN /\ ft.pc = "found" /\ Pushes(ft)
       /\ Unlocked(ft.first, t) /\ Unlocked(c, t)
       /\ obj[c].page[x] = None
       /\ "overtake" \in Windows \/ \A u \in Map :
            ~(fault[u].pc = "woken" /\ fault[u].object = ft.first /\ fault[u].page = x)
       /\ \/ /\ ~obj[c].pager_created
             /\ obj' = [s EXCEPT ![c].page[x] = Resident(Looked(t).val, FALSE, TRUE)]
             /\ fault' = [Wakeup(fault, ft.first, x, "restart")
                            EXCEPT ![t].pc = "verify", ![t].old_copy = c]
          \/ /\ obj[c].pager_created     \* vm_pageout_page(copy_m, TRUE, TRUE)
             /\ "pager" \in Windows \/ obj[c].pager_ready
             /\ obj' = [s EXCEPT
                          ![c].page[x] = Placeholder,
                          ![c].pager[x] = IF obj[c].pager_ready /\ @ = None
                                          THEN Looked(t).val ELSE @,
                          ![c].ref_count = @ + 1,
                          ![c].paging_in_progress = @ + 1]
             /\ fault' = [fault EXCEPT ![t].pc = "pushing", ![t].old_copy = c]
       /\ UNCHANGED <<entry, daemon, drops, file, memory>>

\* The page is with the pager of the copy object, which may have changed: the
\* loop goes round again if it is no longer the copy.
Pushed(t) ==
    LET ft == fault[t]
        x == ft.page
        c == ft.old_copy
        hard == obj[c].shadow # ft.first \/ obj[c].ref_count = 1
        s == [Released(obj, c) EXCEPT ![c].page[x] = None]
        f == Wake(fault, c, x)
    IN /\ ft.pc = "pushing" /\ Unlocked(c, t) /\ Unlocked(ft.first, t)
       /\ IF hard
          THEN /\ obj' = s /\ drops' = [drops EXCEPT ![c] = @ + 1]
               /\ fault' = [f EXCEPT ![t].pc = "found", ![t].old_copy = None]
          ELSE /\ obj' = [s EXCEPT ![c].ref_count = @ - 1]
               /\ fault' = [Wakeup(f, ft.first, x, "restart")
                              EXCEPT ![t].pc = "verify",
                                     ![t].old_copy = obj[ft.first].copy]
               /\ UNCHANGED drops
       /\ UNCHANGED <<entry, daemon, file, memory>>

-----------------------------------------------------------------------------
(* vm_fault: from the page found to its entry in the pmap. *)

\* PMAP_ENTER, then everything is let go.
PmapEnter(t, w) ==
    LET ft == fault[t]
        x == ft.page
        s == [o \in Object |->
                IF obj[o].page[x] = None THEN obj[o]
                ELSE [obj[o] EXCEPT !.page[x].pmap[t] =
                        IF o # ft.object THEN "none"
                        ELSE IF w THEN "write" ELSE "read"]]
    IN /\ GiveUp(t, PageDone(s, ft.object, x), Wake(fault, ft.object, x))
       /\ UNCHANGED <<entry, daemon, drops, file, memory>>

\* What was found may still be mapped writable: the entry needs no copy, and the
\* object has not been copied meanwhile.
MayWrite_Copied(t) == fault[t].prot /\ ~entry[t].needs_copy
MayWrite(t) ==
    /\ fault[t].prot /\ ~entry[t].needs_copy
    /\ obj[fault[t].object].copy = fault[t].old_copy

\* The map is looked at again.  A page of an object that the entry no longer
\* has is put back; an object copied meanwhile is mapped without write.
Verify(t) ==
    LET ft == fault[t]
        e == entry[t]
        same == e # None /\ e.object = ft.first
    IN /\ ft.pc = "verify" /\ Unlocked(ft.object, t) /\ Unlocked(ft.first, t)
       /\ \/ /\ ~same
             /\ GiveUp(t, PageDone(obj, ft.object, ft.page),
                          Wake(fault, ft.object, ft.page))
             /\ UNCHANGED <<entry, daemon, drops, file, memory>>
          \/ /\ same
             /\ fault' = [fault EXCEPT ![t].pc = "enter", ![t].prot = MayWrite(t)]
             /\ UNCHANGED <<obj, entry, daemon, drops, file, memory>>

\* The map is locked for reading, the object is not locked.
EnterPage(t) ==
    /\ fault[t].pc = "enter"
    /\ Unlocked(fault[t].object, t) /\ Unlocked(fault[t].first, t)
    /\ PmapEnter(t, fault[t].prot)

-----------------------------------------------------------------------------
(* Maps. *)

\* What map m contains, by what was written to it.
Contents(m) == IF entry[m].object = File THEN file ELSE memory[m]

\* A write that changes something.
UserWrite(m, x, v) ==
    /\ entry[m] # None /\ Access(m, x) = "write" /\ v # Contents(m)[x]
    /\ obj' = [o \in Object |->
                 IF obj[o].page[x] # None /\ obj[o].page[x].pmap[m] = "write"
                 THEN [obj[o] EXCEPT !.page[x].val = v, !.page[x].dirty = TRUE]
                 ELSE obj[o]]
    /\ file' = IF entry[m].object = File THEN [file EXCEPT ![x] = v] ELSE file
    /\ memory' = IF entry[m].object = File THEN memory
                 ELSE [memory EXCEPT ![m][x] = v]
    /\ UNCHANGED <<entry, fault, daemon, drops>>

\* vm_allocate, or vm_map of the memory object.
Enter(m, o) ==
    /\ entry[m] = None /\ o \in {None, File}
    /\ o = File => Unlocked(File, m)
    /\ entry' = [entry EXCEPT ![m] = [object |-> o, needs_copy |-> FALSE]]
    /\ obj' = IF o = None THEN obj ELSE [obj EXCEPT ![File].ref_count = @ + 1]
    /\ UNCHANGED <<fault, daemon, drops, file, memory>>

\* No thread holds the map locked for reading.
Writable(m) == fault[m].pc # "enter"

\* The pages of objects s as map m, or every map, may only read them.
ReadOnly(pg, who) ==
    IF pg = None THEN None
    ELSE [pg EXCEPT !.pmap = [m \in Map |-> IF m \in who /\ @[m] = "write"
                                            THEN "read" ELSE @[m]]]

\* vm_object_copy_temporary: both share the object until one of them writes.
CopyTemporary(m, d) ==
    LET o == entry[m].object
        shared == [object |-> o, needs_copy |-> o # None]
    IN /\ o # File /\ Writable(m)
       /\ o # None => Unlocked(o, m)
       /\ entry' = [entry EXCEPT ![m] = shared, ![d] = shared]
       /\ obj' = [p \in Object |->
                    [obj[p] EXCEPT
                       !.ref_count = IF p = o THEN @ + 1 ELSE @,
                       !.page = [x \in Page |-> ReadOnly(@[x], {m})]]]

\* vm_object_copy_delayed: the copy object of the previous copy serves again
\* if nothing was pushed into it; otherwise a new one goes in between.
CopyDelayed(m, d) ==
    LET old == obj[File].copy
        reuse == /\ old # None
                 /\ obj[old].page = [x \in Page |-> None]
                 /\ ~obj[old].pager_created
        new == Fresh
        s == [obj EXCEPT
                ![new] = [NewObject EXCEPT !.shadow = File],
                ![File].ref_count = @ + 1,
                ![File].copy = new,
                ![File].page = [x \in Page |-> ReadOnly(@[x], Map)]]
    IN /\ entry[m].object = File
       /\ "enter" \in Windows \/ \A t \in Map :
            ~(fault[t].pc = "enter" /\ fault[t].object = File)
       /\ Unlocked(File, m) /\ old # None => Unlocked(old, m)
       /\ \/ /\ reuse
             /\ obj' = [obj EXCEPT ![old].ref_count = @ + 1]
             /\ entry' = [entry EXCEPT ![d] = [object |-> old, needs_copy |-> TRUE]]
          \/ /\ ~reuse /\ Free # {}
             /\ obj' = IF old = None THEN s
                       ELSE [s EXCEPT ![File].ref_count = @ - 1,
                                      ![old].shadow = new,
                                      ![old].panic = @ \/ obj[old].shadow # File,
                                      ![new].ref_count = @ + 1]
             /\ entry' = [entry EXCEPT ![d] = [object |-> new, needs_copy |-> TRUE]]

\* vm_map_copyin of the entry of m, and vm_map_copyout into d.
Copy(m, d) ==
    /\ m # d /\ entry[m] # None /\ entry[d] = None /\ fault[d].pc = "idle"
    /\ CopyTemporary(m, d) \/ CopyDelayed(m, d)
    /\ memory' = [memory EXCEPT ![d] = Contents(m)]
    /\ UNCHANGED <<fault, daemon, drops, file>>

\* vm_map_entry_delete: pmap_remove, then the reference goes.
Remove(m) ==
    LET o == entry[m].object IN
    /\ entry[m] # None /\ Writable(m)
    /\ entry' = [entry EXCEPT ![m] = None]
    /\ obj' = [p \in Object |->
                 [obj[p] EXCEPT !.page = [x \in Page |->
                    IF @[x] = None THEN None
                    ELSE [@[x] EXCEPT !.pmap[m] = "none"]]]]
    /\ drops' = IF o = None THEN drops ELSE [drops EXCEPT ![o] = @ + 1]
    /\ memory' = [memory EXCEPT ![m] = [x \in Page |-> Zero]]
    /\ UNCHANGED <<fault, daemon, file>>

-----------------------------------------------------------------------------
(* vm_object_deallocate and vm_object_terminate *)

\* One turn of the loop of vm_object_deallocate, as far as the wait for paging
\* in vm_object_terminate.
Dereference(o) ==
    LET last == obj[o].ref_count = 1
        sh == obj[o].shadow
        s == [obj EXCEPT ![o].ref_count = @ - 1]
    IN /\ \A t \in Map : Unlocked(o, t)
       /\ \/ ~last /\ obj' = s
          \/ /\ last /\ ~(obj[o].pager_created /\ ~obj[o].pager_ready)
             /\ sh # None => \A t \in Map : Unlocked(sh, t)
             /\ LET s1 == [s EXCEPT ![o].state = "dying"] IN
                obj' = IF sh = None THEN s1
                       ELSE [s1 EXCEPT
                               ![sh].copy = IF @ = o THEN None ELSE @,
                               ![o].panic = @ \/ obj[sh].copy \notin {None, o}]

\* By vm_fault, and by the other callers.
FaultDone(t) ==
    /\ fault[t].pc = "dealloc" /\ Dereference(fault[t].first)
    /\ fault' = [fault EXCEPT ![t] = Idle]
    /\ UNCHANGED <<entry, daemon, drops, file, memory>>

Deallocate(o) ==
    /\ drops[o] > 0 /\ Dereference(o)
    /\ drops' = [drops EXCEPT ![o] = @ - 1]
    /\ UNCHANGED <<entry, fault, daemon, file, memory>>

\* Paging has ceased: the pages are freed and the loop goes on with the shadow.
Terminate(o) ==
    LET sh == obj[o].shadow
        bad == \E x \in Page : /\ obj[o].page[x] # None
                               /\ obj[o].page[x].busy /\ ~obj[o].page[x].absent
    IN /\ obj[o].state = "dying" /\ obj[o].paging_in_progress = 0
       /\ obj' = [obj EXCEPT ![o] = [FreeObject EXCEPT
                    !.panic = obj[o].panic \/ bad,
                    !.dangling = \E x \in Page : Mapped(obj[o].page[x])]]
       /\ drops' = IF sh = None THEN drops ELSE [drops EXCEPT ![sh] = @ + 1]
       /\ UNCHANGED <<entry, fault, daemon, file, memory>>

-----------------------------------------------------------------------------
(* vm_pageout_scan and the pagers. *)

\* The daemon comes across a page that is not busy, of an object not dying.
Inactive(o, x) ==
    /\ daemon.pc = "idle" /\ obj[o].state = "alive" /\ \A t \in Map : Unlocked(o, t)
    /\ obj[o].page[x] # None /\ ~obj[o].page[x].busy

\* It can be freed: the pager did not have it, or it is clean.
Reclaim(o, x) ==
    /\ Inactive(o, x)
    /\ \/ obj[o].page[x].absent
       \/ /\ ~obj[o].page[x].dirty
          /\ \/ o = File \/ "clean" \in Windows
             \/ obj[o].pager[x] = obj[o].page[x].val
    /\ obj' = [obj EXCEPT ![o].page[x] = None]
    /\ UNCHANGED <<entry, fault, daemon, drops, file, memory>>

\* vm_pageout_page, flushing page x of o.
Send(s, o, x) ==
    /\ obj' = [s EXCEPT ![o].pager[x] = s[o].page[x].val,
                        ![o].page[x] = Placeholder,
                        ![o].paging_in_progress = @ + 1]
    /\ fault' = Wake(fault, o, x)
    /\ daemon' = [pc |-> "send", object |-> o, page |-> x]

\* A dirty page goes to the pager of its object.  For an object that has none
\* the daemon tries to collapse it and then makes one.
PageOut(o, x) ==
    LET s0 == [Unmap1(obj, o, x) EXCEPT ![o].page[x].busy = TRUE]
        s == IF s0[o].pager_ready THEN s0 ELSE Collapse(s0, o)
    IN /\ Inactive(o, x) /\ ~obj[o].page[x].absent /\ obj[o].page[x].dirty
       /\ \/ s[o].pager_ready /\ Send(s, o, x)
          \/ /\ ~s[o].pager_ready
             /\ obj' = [s EXCEPT ![o].pager_created = TRUE,
                                 ![o].paging_in_progress = @ + 1]
             /\ daemon' = [pc |-> "create", object |-> o, page |-> x]
             /\ UNCHANGED fault
       /\ UNCHANGED <<entry, drops, file, memory>>

\* vm_object_pager_create is done.
PagerCreated ==
    LET o == daemon.object IN
    /\ daemon.pc = "create" /\ \A t \in Map : Unlocked(o, t)
    /\ Send([Released(obj, o) EXCEPT ![o].pager_ready = TRUE], o, daemon.page)
    /\ UNCHANGED <<entry, drops, file, memory>>

PageSent ==
    LET o == daemon.object IN
    /\ daemon.pc = "send" /\ \A t \in Map : Unlocked(o, t)
    /\ obj' = [Released(obj, o) EXCEPT ![o].page[daemon.page] = None]
    /\ fault' = Wake(fault, o, daemon.page)
    /\ daemon' = DaemonIdle
    /\ UNCHANGED <<entry, drops, file, memory>>

\* memory_object_data_supply or memory_object_data_unavailable
PagerAnswers(o, x) ==
    LET v == obj[o].pager[x] IN
    /\ obj[o].state = "alive" /\ \A t \in Map : Unlocked(o, t)
    /\ obj[o].page[x] # None /\ obj[o].page[x].busy /\ obj[o].page[x].absent
    /\ obj' = [obj EXCEPT ![o].page[x] =
                 IF v = None THEN [@ EXCEPT !.busy = FALSE]
                 ELSE Resident(v, FALSE, FALSE)]
    /\ fault' = Wake(fault, o, x)
    /\ UNCHANGED <<entry, daemon, drops, file, memory>>

-----------------------------------------------------------------------------
Step(t) ==
    \/ FindBusy(t) \/ FindPage(t) \/ AskPager(t) \/ PagerNotReady(t)
    \/ Descend(t) \/ ZeroFill(t) \/ Resume(t) \/ Restarted(t)
    \/ CopyUp(t) \/ Install(t) \/ Accept(t) \/ CopyBusy(t)
    \/ Push(t) \/ Pushed(t) \/ Verify(t) \/ EnterPage(t) \/ FaultDone(t)

Counted(k) == done[k] < Max[k] /\ done' = [done EXCEPT ![k] = @ + 1]

Next ==
    \/ UNCHANGED done
       /\ \/ \E t \in Map : Step(t)
          \/ \E o \in Object : Deallocate(o) \/ Terminate(o)
          \/ \E o \in Object, x \in Page : PagerAnswers(o, x)
          \/ PagerCreated \/ PageSent
    \/ Counted("call")
       /\ \/ \E t \in Map, x \in Page, write \in BOOLEAN : Fault(t, x, write)
          \/ \E m \in Map, o \in {None, File} : Enter(m, o)
          \/ \E m, d \in Map : Copy(m, d)
          \/ \E m \in Map : Remove(m)
    \/ Counted("write") /\ \E m \in Map, x \in Page, v \in Value : UserWrite(m, x, v)
    \/ Counted("evict") /\ \E o \in Object, x \in Page : Reclaim(o, x) \/ PageOut(o, x)
    \/ Counted("abort") /\ \E t \in Map : Interrupted(t) \/ NoMemory(t)

Spec == Init /\ [][Next]_vars

-----------------------------------------------------------------------------
(* Properties. *)

\* What a fault on page x of o would find.
Found(x) ==
    LET find[o \in Object] ==
            LET pg == obj[o].page[x] IN
            IF pg # None /\ pg.val # None THEN pg.val
            ELSE IF obj[o].pager[x] # None THEN obj[o].pager[x]
            ELSE IF obj[o].shadow = None THEN Zero ELSE find[obj[o].shadow]
    IN find

\* No collapse, bypass, push, pageout or copy changes what a map contains: down
\* the chain of its object there is always what was last written to it, or to
\* what it is a copy of when the copy was made.
ContentsKept ==
    \A m \in Map : entry[m] # None /\ entry[m].object # None =>
        \A x \in Page : Found(x)[entry[m].object] = Contents(m)[x]

InUse(o) == obj[o].state # "free"

\* Whether object c can give page x to those who look there.
HasData(c, x) ==
    obj[c].pager[x] # None \/ (obj[c].page[x] # None /\ obj[c].page[x].val # None)

\* Nobody's copy can see what a map writes: a page that a map may write belongs to
\* the object of its own entry, nobody else has that object, and the copy object
\* of a file has what the page was when it was copied.  Copies are made while
\* faults are on their way, so write permission found before may be stale.
WriterAlone ==
    \A m \in Map, o \in Object, x \in Page :
        obj[o].page[x] # None /\ obj[o].page[x].pmap[m] = "write" =>
            /\ entry[m] = [object |-> o, needs_copy |-> FALSE]
            /\ o # File =>
                  /\ \A d \in Map \ {m} : entry[d] # None => entry[d].object # o
                  /\ \A p \in Object : InUse(p) => obj[p].shadow # o
            /\ o = File /\ obj[File].copy # None => HasData(obj[File].copy, x)

\* A user never reads a stale page: what a pmap maps is a resident page with
\* the contents of that map, and no page is freed that a pmap still maps.  The
\* window "overtake" is what endangers it; it takes three maps or more, so
\* no run here lists it.
MappedRight ==
    /\ \A o \in Object : ~obj[o].dangling
    /\ \A m \in Map, o \in Object, x \in Page :
          obj[o].page[x] # None /\ obj[o].page[x].pmap[m] # "none" =>
            entry[m] # None /\ obj[o].page[x].val = Contents(m)[x]

\* ref_count and paging_in_progress count exactly the entries, shadows, faults,
\* pushes and pageouts that use an object, through every collapse and copy.
CountsExact ==
    \A o \in Object :
        /\ obj[o].ref_count =
              Cardinality({m \in Map : entry[m] # None /\ entry[m].object = o})
              + Cardinality({p \in Object : InUse(p) /\ obj[p].shadow = o})
              + Cardinality({t \in Map : fault[t].first = o})
              + Cardinality({t \in Map : fault[t].pc = "pushing"
                                         /\ fault[t].old_copy = o})
              + drops[o] + (IF o = File THEN 1 ELSE 0)
        /\ obj[o].paging_in_progress =
              Cardinality({t \in Map : fault[t].object = o})
              + Cardinality({t \in Map : fault[t].first = o
                                         /\ fault[t].object \notin {o, None}})
              + Cardinality({t \in Map : fault[t].pc = "pushing"
                                         /\ fault[t].old_copy = o})
              + (IF daemon.object = o THEN 1 ELSE 0)

\* The panics and assertions of collapse, terminate and copy_delayed (such as the
\* "bad case" of a page the parent misses, vm_object.c:2685) are not
\* reached.
NoPanic == \A o \in Object : ~obj[o].panic

\* Whoever waits for a page waits for a busy one, and every busy page is in
\* the hands of a fault, the daemon or a pager, which will wake him.
BusyOwned ==
    /\ \A t \in Map : fault[t].pc = "wait" =>
          obj[fault[t].object].page[fault[t].page] # None
          /\ obj[fault[t].object].page[fault[t].page].busy
    /\ \A o \in Object, x \in Page :
          obj[o].page[x] # None /\ obj[o].page[x].busy =>
             \/ obj[o].page[x].absent
             \/ daemon.object = o /\ daemon.page = x
             \/ \E t \in Map : fault[t].page = x /\
                   \/ fault[t].first = o /\ fault[t].object \notin {o, None}
                   \/ fault[t].pc = "copied" /\ fault[t].first = o
                   \/ fault[t].pc \in {"found", "pushing", "verify", "enter"}
                      /\ fault[t].object = o
                   \/ fault[t].pc = "pushing" /\ fault[t].old_copy = o

=============================================================================
