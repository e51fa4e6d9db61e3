-------------------------- MODULE VmObjectProofs --------------------------
(***************************************************************************)
(* Why the references and the paging counts of memory objects are exact,   *)
(* and why every busy page has one owner, for any number of maps, objects  *)
(* and pages and whichever windows of the code are open.                   *)
(***************************************************************************)
EXTENDS VmObject, FiniteSetTheorems, ListTheorems

-----------------------------------------------------------------------------
(* Where, and how many times, a function has a value. *)

Places(f, v) == {y \in DOMAIN f : f[y] = v}
Tally(f, v) == Cardinality(Places(f, v))

\* In a finite domain the places are counted by a natural number.
LEMMA TallyIs ==
    ASSUME NEW D, IsFiniteSet(D), NEW f, DOMAIN f = D, NEW v
    PROVE  /\ IsFiniteSet(Places(f, v))
           /\ Tally(f, v) \in Nat
           /\ \A y \in D : f[y] = v => Tally(f, v) > 0
<1> DEFINE S == Places(f, v)
<1>1. IsFiniteSet(S)
  <2>1. S \in SUBSET D
    BY DEF Places
  <2> HIDE DEF S
  <2> QED
    BY <2>1, FS_Subset
<1>2. Cardinality(S) \in Nat
  BY <1>1, FS_CardinalityType
<1>3. ASSUME NEW y \in D, f[y] = v PROVE Cardinality(S) # 0
  <2>1. S # {}
    BY <1>3 DEF Places
  <2> HIDE DEF S
  <2> QED
    BY <1>1, <2>1, FS_EmptySet
<1> HIDE DEF S
<1>4. \A y \in D : f[y] = v => Cardinality(S) > 0
  BY <1>2, <1>3
<1> QED
  BY <1>1, <1>2, <1>4 DEF S, Tally

\* A function that changes at one place.
LEMMA TallyMove ==
    ASSUME NEW D, IsFiniteSet(D), NEW f, DOMAIN f = D, NEW g, DOMAIN g = D,
           NEW a \in D, \A y \in D : y # a => g[y] = f[y], NEW v
    PROVE  Tally(g, v) = Tally(f, v) - (IF f[a] = v THEN 1 ELSE 0)
                                     + (IF g[a] = v THEN 1 ELSE 0)
<1> DEFINE S == Places(f, v)
           T == Places(g, v)
           R == S \ {a}
<1>1. /\ IsFiniteSet(S) /\ Cardinality(S) \in Nat
      /\ IsFiniteSet(T) /\ Cardinality(T) \in Nat
  BY TallyIs, FS_CardinalityType
<1>2. R = T \ {a} /\ (a \in S <=> f[a] = v) /\ (a \in T <=> g[a] = v)
  BY DEF Places
<1> HIDE DEF S, T
<1>3. Cardinality(R) = IF a \in S THEN Cardinality(S) - 1 ELSE Cardinality(S)
  BY <1>1, FS_RemoveElement
<1>4. Cardinality(T \ {a}) = IF a \in T THEN Cardinality(T) - 1 ELSE Cardinality(T)
  BY <1>1, FS_RemoveElement
<1> HIDE DEF R
<1> QED
  BY <1>1, <1>2, <1>3, <1>4 DEF S, T, Tally

\* Functions that agree have the same counts.
LEMMA TallySame ==
    ASSUME NEW D, NEW f, DOMAIN f = D, NEW g, DOMAIN g = D,
           \A y \in D : g[y] = f[y], NEW v
    PROVE  Tally(g, v) = Tally(f, v)
<1>1. Places(f, v) = Places(g, v)
  BY DEF Places
<1> QED
  BY <1>1 DEF Tally

-----------------------------------------------------------------------------
(* Types, with counts that might be negative. *)

LooseObject == [
    state : {"free", "alive", "dying"},
    ref_count : Int, paging_in_progress : Int,
    shadow : Object \cup {None}, copy : Object \cup {None},
    pager_created : BOOLEAN, pager_ready : BOOLEAN,
    page : [Page -> PageType \cup {None}],
    pager : [Page -> Value \cup {None}],
    panic : BOOLEAN, dangling : BOOLEAN]

Objs == [Object -> LooseObject]

\* Two objects are alike but for their pages and the paging in progress.
Linked(a, b) ==
    /\ b.state = a.state /\ b.ref_count = a.ref_count
    /\ b.shadow = a.shadow /\ b.copy = a.copy /\ b.panic = a.panic
    /\ a.pager_created => b.pager_created

\* q is s with page v in place x of o.
SetPage(s, q, o, x, v) ==
    /\ q \in Objs
    /\ \A p \in Object :
          /\ Linked(s[p], q[p])
          /\ q[p].paging_in_progress = s[p].paging_in_progress
          /\ \A y \in Page : q[p].page[y] = IF p = o /\ y = x THEN v ELSE s[p].page[y]

\* Writing one page of one object.
LEMMA PageSet ==
    ASSUME NEW s \in Objs, NEW o \in Object, NEW x \in Page,
           NEW v \in PageType \cup {None}
    PROVE  SetPage(s, [s EXCEPT ![o].page[x] = v], o, x, v)
<1> DEFINE r == s[o]
           g == [r.page EXCEPT ![x] = v]
           e == [r EXCEPT !.page = g]
           q == [s EXCEPT ![o] = e]
<1>1. r \in LooseObject /\ r.page \in [Page -> PageType \cup {None}]
  BY DEF Objs, LooseObject
<1>2. g \in [Page -> PageType \cup {None}]
      /\ \A y \in Page : g[y] = IF y = x THEN v ELSE r.page[y]
  BY <1>1
<1> HIDE DEF g, r
<1>3. e \in LooseObject
  BY <1>1, <1>2, Zenon DEF LooseObject
<1>4. /\ Linked(r, e) /\ e.page = g /\ e.paging_in_progress = r.paging_in_progress
  BY <1>1 DEF LooseObject, Linked
<1> HIDE DEF e
<1>5. q \in Objs /\ \A p \in Object : q[p] = IF p = o THEN e ELSE s[p]
  BY <1>3 DEF Objs
<1>6. \A p \in Object : Linked(s[p], s[p])
  BY DEF Linked
<1> HIDE DEF q
<1>7. SetPage(s, q, o, x, v)
  BY <1>2, <1>4, <1>5, <1>6 DEF SetPage, r
<1>8. q = [s EXCEPT ![o].page[x] = v]
  BY DEF q, e, g, r
<1> QED
  BY <1>7, <1>8

\* q is s with n more paging operations on o.
SetPaging(s, q, o, n) ==
    /\ q \in Objs
    /\ \A p \in Object :
          /\ Linked(s[p], q[p])
          /\ q[p].paging_in_progress =
                IF p = o THEN s[p].paging_in_progress + n ELSE s[p].paging_in_progress
          /\ q[p].page = s[p].page

\* Changing the paging count of one object.
LEMMA PagingSet ==
    ASSUME NEW s \in Objs, NEW o \in Object, NEW n \in Int
    PROVE  SetPaging(s, [s EXCEPT ![o].paging_in_progress = @ + n], o, n)
<1> DEFINE r == s[o]
           c == r.paging_in_progress + n
           e == [r EXCEPT !.paging_in_progress = c]
           q == [s EXCEPT ![o] = e]
<1>1. r \in LooseObject /\ r.paging_in_progress \in Int
  BY DEF Objs, LooseObject
<1>2. c \in Int
  BY <1>1
<1> HIDE DEF c, r
<1>3. e \in LooseObject
  BY <1>1, <1>2, Zenon DEF LooseObject
<1>4. Linked(r, e) /\ e.page = r.page /\ e.paging_in_progress = c
  BY <1>1 DEF LooseObject, Linked
<1> HIDE DEF e
<1>5. q \in Objs /\ \A p \in Object : q[p] = IF p = o THEN e ELSE s[p]
  BY <1>3 DEF Objs
<1>6. \A p \in Object : Linked(s[p], s[p])
  BY DEF Linked
<1> HIDE DEF q
<1>7. SetPaging(s, q, o, n)
  BY <1>4, <1>5, <1>6 DEF SetPaging, r, c
<1>8. q = [s EXCEPT ![o].paging_in_progress = @ + n]
  BY DEF q, e, c, r
<1> QED
  BY <1>7, <1>8

\* vm_object_paging_end takes one from the paging count.
LEMMA ReleasedIs ==
    ASSUME NEW s \in Objs, NEW o \in Object
    PROVE  SetPaging(s, Released(s, o), o, -1)
<1>1. SetPaging(s, [s EXCEPT ![o].paging_in_progress = @ + (-1)], o, -1)
  BY PagingSet
<1>2. s[o].paging_in_progress \in Int
  BY DEF Objs, LooseObject
<1>3. s[o].paging_in_progress + (-1) = s[o].paging_in_progress - 1
  BY <1>2
<1>4. Released(s, o) = [s EXCEPT ![o].paging_in_progress = @ + (-1)]
  BY <1>3 DEF Released
<1> QED
  BY <1>1, <1>4

-----------------------------------------------------------------------------
(* Pages: who has one. *)

Busy(pg) == pg # None /\ pg.busy
Held(pg) == pg # None /\ pg.busy /\ ~pg.absent
Absent(pg) == pg # None /\ pg.absent

\* Only an object with a pager has a page that was asked for and is missing.
AbsentPart(s) ==
    \A p \in Object, x \in Page : Absent(s[p].page[x]) => s[p].pager_created

\* It stays so unless such a page comes to an object without a pager.
LEMMA AbsentKept ==
    ASSUME NEW s, NEW q, AbsentPart(s),
           \A p \in Object :
              /\ s[p].pager_created => q[p].pager_created
              /\ \A x \in Page : Absent(q[p].page[x]) =>
                                  Absent(s[p].page[x]) \/ q[p].pager_created
    PROVE  AbsentPart(q)
  BY DEF AbsentPart

\* The fault ft waits for page x of o; has it; the daemon has it.
Waits(ft, o, x) == ft.pc = "wait" /\ ft.object = o /\ ft.page = x
Owns(ft, o, x) ==
    /\ ft.page = x
    /\ \/ ft.first = o /\ ft.object \notin {o, None}
       \/ ft.pc = "copied" /\ ft.first = o
       \/ ft.pc \in {"found", "pushing", "verify", "enter"} /\ ft.object = o
       \/ ft.pc = "pushing" /\ ft.old_copy = o
Writes(d, o, x) == d.object = o /\ d.page = x

PagesPart(s, f, d) ==
    \A o \in Object, x \in Page :
        /\ \A t \in Map : Owns(f[t], o, x) => Held(s[o].page[x])
        /\ \A t, u \in Map : Owns(f[t], o, x) /\ Owns(f[u], o, x) => t = u
        /\ Writes(d, o, x) => Held(s[o].page[x]) /\ \A t \in Map : ~Owns(f[t], o, x)
        /\ Held(s[o].page[x]) => Writes(d, o, x) \/ \E t \in Map : Owns(f[t], o, x)
        /\ \A t \in Map : Waits(f[t], o, x) => Busy(s[o].page[x])

\* The fault b is a, or has been woken meanwhile.
Roused(a, b) ==
    /\ b.first = a.first /\ b.object = a.object /\ b.page = a.page
    /\ b.old_copy = a.old_copy
    /\ b.pc = a.pc \/ (a.pc = "wait" /\ b.pc \in {"woken", "restart"})

Faults == [Map -> FaultType]

\* A wakeup leaves who owns a page as it is, and makes nobody wait.
LEMMA RousedSame ==
    ASSUME NEW a, NEW b, Roused(a, b), NEW o, NEW x
    PROVE  /\ Owns(b, o, x) <=> Owns(a, o, x)
           /\ Waits(b, o, x) => Waits(a, o, x)
  BY DEF Roused, Owns, Waits

\* What a step of a thread that takes its fault from a to b may do with a page.
TurnPage(a, b, pg, pg2, o, x) ==
    /\ Held(pg2) <=> Owns(b, o, x) \/ (Held(pg) /\ ~Owns(a, o, x))
    /\ Owns(b, o, x) => Owns(a, o, x) \/ ~Held(pg)
    /\ Waits(b, o, x) => Busy(pg2)

\* PagesPart is kept by a turn of one fault: it accounts for the pages whose
\* state or owner it changes, and nobody waits for one it frees.
LEMMA TurnPages ==
    ASSUME NEW s, NEW q, NEW f, NEW g, NEW d, NEW t \in Map,
           PagesPart(s, f, d),
           \A u \in Map : u # t => Roused(f[u], g[u]),
           \A o \in Object, x \in Page :
              /\ TurnPage(f[t], g[t], s[o].page[x], q[o].page[x], o, x)
              /\ Busy(s[o].page[x]) /\ ~Busy(q[o].page[x]) =>
                    \A u \in Map : u # t => ~Waits(g[u], o, x)
    PROVE  PagesPart(q, g, d)
<1> SUFFICES ASSUME NEW o \in Object, NEW x \in Page
             PROVE
        /\ \A u \in Map : Owns(g[u], o, x) => Held(q[o].page[x])
        /\ \A v, u \in Map : Owns(g[v], o, x) /\ Owns(g[u], o, x) => v = u
        /\ Writes(d, o, x) => Held(q[o].page[x]) /\ \A u \in Map : ~Owns(g[u], o, x)
        /\ Held(q[o].page[x]) => Writes(d, o, x) \/ \E u \in Map : Owns(g[u], o, x)
        /\ \A u \in Map : Waits(g[u], o, x) => Busy(q[o].page[x])
  BY DEF PagesPart
<1>1. /\ \A u \in Map : Owns(f[u], o, x) => Held(s[o].page[x])
      /\ \A v, u \in Map : Owns(f[v], o, x) /\ Owns(f[u], o, x) => v = u
      /\ Writes(d, o, x) => Held(s[o].page[x]) /\ \A u \in Map : ~Owns(f[u], o, x)
      /\ Held(s[o].page[x]) => Writes(d, o, x) \/ \E u \in Map : Owns(f[u], o, x)
      /\ \A u \in Map : Waits(f[u], o, x) => Busy(s[o].page[x])
  BY DEF PagesPart
<1>2. /\ TurnPage(f[t], g[t], s[o].page[x], q[o].page[x], o, x)
      /\ Busy(s[o].page[x]) /\ ~Busy(q[o].page[x]) =>
            \A u \in Map : u # t => ~Waits(g[u], o, x)
  OBVIOUS
<1>3. \A u \in Map : u # t => /\ Owns(g[u], o, x) <=> Owns(f[u], o, x)
                              /\ Waits(g[u], o, x) => Waits(f[u], o, x)
  BY RousedSame
<1> QED
  BY <1>1, <1>2, <1>3 DEF TurnPage

\* A step that leaves who has which page, and wakes those it must.
LEMMA SamePages ==
    ASSUME NEW s, NEW q, NEW f, NEW g, NEW d,
           PagesPart(s, f, d),
           \A u \in Map : Roused(f[u], g[u]),
           \A o \in Object, x \in Page :
              /\ Held(q[o].page[x]) <=> Held(s[o].page[x])
              /\ Busy(s[o].page[x]) /\ ~Busy(q[o].page[x]) =>
                    \A u \in Map : ~Waits(g[u], o, x)
    PROVE  PagesPart(q, g, d)
<1> SUFFICES ASSUME NEW o \in Object, NEW x \in Page
             PROVE
        /\ \A u \in Map : Owns(g[u], o, x) => Held(q[o].page[x])
        /\ \A v, u \in Map : Owns(g[v], o, x) /\ Owns(g[u], o, x) => v = u
        /\ Writes(d, o, x) => Held(q[o].page[x]) /\ \A u \in Map : ~Owns(g[u], o, x)
        /\ Held(q[o].page[x]) => Writes(d, o, x) \/ \E u \in Map : Owns(g[u], o, x)
        /\ \A u \in Map : Waits(g[u], o, x) => Busy(q[o].page[x])
  BY DEF PagesPart
<1>1. /\ \A u \in Map : Owns(f[u], o, x) => Held(s[o].page[x])
      /\ \A v, u \in Map : Owns(f[v], o, x) /\ Owns(f[u], o, x) => v = u
      /\ Writes(d, o, x) => Held(s[o].page[x]) /\ \A u \in Map : ~Owns(f[u], o, x)
      /\ Held(s[o].page[x]) => Writes(d, o, x) \/ \E u \in Map : Owns(f[u], o, x)
      /\ \A u \in Map : Waits(f[u], o, x) => Busy(s[o].page[x])
  BY DEF PagesPart
<1>2. \A u \in Map : /\ Owns(g[u], o, x) <=> Owns(f[u], o, x)
                     /\ Waits(g[u], o, x) => Waits(f[u], o, x)
  BY RousedSame
<1> QED
  BY <1>1, <1>2

\* Nobody need be woken.
LEMMA RousedSelf == ASSUME NEW f PROVE \A u \in Map : Roused(f[u], f[u])
  BY DEF Roused

\* No link need change.
LEMMA LinkedSelf == ASSUME NEW s PROVE \A p \in Object : Linked(s[p], s[p])
  BY DEF Linked

\* After PAGE_WAKEUP nobody waits for that page, and the waiters are all it
\* touches.
LEMMA WakeupIs ==
    ASSUME NEW f \in Faults, NEW o, NEW x, NEW pc \in {"woken", "restart"}
    PROVE  /\ Wakeup(f, o, x, pc) \in Faults
           /\ \A u \in Map : /\ Roused(f[u], Wakeup(f, o, x, pc)[u])
                             /\ ~Waits(Wakeup(f, o, x, pc)[u], o, x)
                             /\ f[u].pc # "wait" => Wakeup(f, o, x, pc)[u] = f[u]
<1> DEFINE g == Wakeup(f, o, x, pc)
<1>1. ASSUME NEW u \in Map
      PROVE  /\ g[u] \in FaultType /\ Roused(f[u], g[u]) /\ ~Waits(g[u], o, x)
             /\ f[u].pc # "wait" => g[u] = f[u]
  <2>1. f[u] \in FaultType
    BY DEF Faults
  <2>2. CASE Waits(f[u], o, x)
    <3>1. g[u] = [f[u] EXCEPT !.pc = pc]
      BY <2>2 DEF Wakeup, Waits
    <3>2. g[u] \in FaultType
      BY <2>1, <3>1, Zenon DEF FaultType
    <3>3. Roused(f[u], g[u]) /\ g[u].pc = pc
      BY <2>1, <2>2, <3>1 DEF FaultType, Roused, Waits
    <3> QED
      BY <2>2, <3>2, <3>3 DEF Waits
  <2>3. CASE ~Waits(f[u], o, x)
    <3>1. g[u] = f[u]
      BY <2>3 DEF Wakeup, Waits
    <3> QED
      BY <2>1, <2>3, <3>1, RousedSelf DEF Roused
  <2> QED
    BY <2>2, <2>3
<1>2. g = [u \in Map |-> g[u]]
  BY DEF Wakeup
<1> HIDE DEF g
<1>3. g \in Faults
  BY <1>1, <1>2 DEF Faults
<1> QED
  BY <1>1, <1>3 DEF g

-----------------------------------------------------------------------------
(* Who has references to objects, and who is paging them. *)

EntryOf(e) == [m \in Map |-> IF e[m] = None THEN None ELSE e[m].object]
ShadowOf(s) == [p \in Object |-> IF s[p].state = "free" THEN None ELSE s[p].shadow]
FirstOf(f) == [t \in Map |-> f[t].first]
ObjectOf(f) == [t \in Map |-> f[t].object]
LeftOf(f) ==
    [t \in Map |-> IF f[t].object \in {None, f[t].first} THEN None ELSE f[t].first]
PushOf(f) == [t \in Map |-> IF f[t].pc = "pushing" THEN f[t].old_copy ELSE None]

FaultRefs(f, o) == Tally(FirstOf(f), o) + Tally(PushOf(f), o)
FaultUses(f, o) == Tally(ObjectOf(f), o) + Tally(LeftOf(f), o) + Tally(PushOf(f), o)

\* ref_count and paging_in_progress, by what CountsExact says.
Users(s, e, f, k, o) ==
    Tally(EntryOf(e), o) + Tally(ShadowOf(s), o) + FaultRefs(f, o) + k[o]
        + (IF o = File THEN 1 ELSE 0)
Pagers(f, d, o) == FaultUses(f, o) + (IF d.object = o THEN 1 ELSE 0)

\* The part of one fault.
Refers(ft, o) ==
    (IF ft.first = o THEN 1 ELSE 0)
        + (IF ft.pc = "pushing" /\ ft.old_copy = o THEN 1 ELSE 0)
Uses(ft, o) ==
    (IF ft.object = o THEN 1 ELSE 0)
        + (IF ft.first = o /\ ft.object \notin {o, None} THEN 1 ELSE 0)
        + (IF ft.pc = "pushing" /\ ft.old_copy = o THEN 1 ELSE 0)

\* The assumptions on the constants.
LEMMA Constants ==
    /\ IsFiniteSet(Map) /\ IsFiniteSet(Object)
    /\ File \in Object /\ None \notin Object /\ None \notin Page
    /\ None \notin PageType /\ None \notin [object : Object \cup {None}, needs_copy : BOOLEAN]
  BY ConstantsAssumption, NoneAssumption

\* What the faults contribute to the counts of an object is a number.
LEMMA CountsAre ==
    ASSUME NEW f, NEW o
    PROVE  /\ Tally(FirstOf(f), o) \in Nat /\ Tally(ObjectOf(f), o) \in Nat
           /\ Tally(LeftOf(f), o) \in Nat /\ Tally(PushOf(f), o) \in Nat
           /\ FaultRefs(f, o) \in Nat /\ FaultUses(f, o) \in Nat
<1>1. /\ DOMAIN FirstOf(f) = Map /\ DOMAIN ObjectOf(f) = Map
      /\ DOMAIN LeftOf(f) = Map /\ DOMAIN PushOf(f) = Map
  BY DEF FirstOf, ObjectOf, LeftOf, PushOf
<1>2. /\ Tally(FirstOf(f), o) \in Nat /\ Tally(ObjectOf(f), o) \in Nat
      /\ Tally(LeftOf(f), o) \in Nat /\ Tally(PushOf(f), o) \in Nat
  BY <1>1, Constants, TallyIs
<1> QED
  BY <1>2 DEF FaultRefs, FaultUses

\* A step of one thread changes the counts by its own part.
LEMMA TurnCounts ==
    ASSUME NEW f, NEW g, NEW t \in Map,
           \A u \in Map : u # t => Roused(f[u], g[u]), NEW o \in Object
    PROVE  /\ FaultRefs(g, o) = FaultRefs(f, o) - Refers(f[t], o) + Refers(g[t], o)
           /\ FaultUses(g, o) = FaultUses(f, o) - Uses(f[t], o) + Uses(g[t], o)
           /\ FaultRefs(f, o) >= Refers(f[t], o)
           /\ Refers(f[t], o) \in Nat /\ Refers(g[t], o) \in Nat
           /\ Uses(f[t], o) > 0 => FaultUses(f, o) > 0
<1>1. /\ DOMAIN FirstOf(f) = Map /\ DOMAIN ObjectOf(f) = Map
      /\ DOMAIN LeftOf(f) = Map /\ DOMAIN PushOf(f) = Map
      /\ DOMAIN FirstOf(g) = Map /\ DOMAIN ObjectOf(g) = Map
      /\ DOMAIN LeftOf(g) = Map /\ DOMAIN PushOf(g) = Map
  BY DEF FirstOf, ObjectOf, LeftOf, PushOf
<1>2. \A u \in Map : u # t =>
          /\ FirstOf(g)[u] = FirstOf(f)[u] /\ ObjectOf(g)[u] = ObjectOf(f)[u]
          /\ LeftOf(g)[u] = LeftOf(f)[u] /\ PushOf(g)[u] = PushOf(f)[u]
  BY DEF FirstOf, ObjectOf, LeftOf, PushOf, Roused
<1>3. Tally(FirstOf(g), o) = Tally(FirstOf(f), o)
            - (IF FirstOf(f)[t] = o THEN 1 ELSE 0) + (IF FirstOf(g)[t] = o THEN 1 ELSE 0)
  BY <1>1, <1>2, Constants, TallyMove
<1>4. Tally(ObjectOf(g), o) = Tally(ObjectOf(f), o)
            - (IF ObjectOf(f)[t] = o THEN 1 ELSE 0) + (IF ObjectOf(g)[t] = o THEN 1 ELSE 0)
  BY <1>1, <1>2, Constants, TallyMove
<1>5. Tally(LeftOf(g), o) = Tally(LeftOf(f), o)
            - (IF LeftOf(f)[t] = o THEN 1 ELSE 0) + (IF LeftOf(g)[t] = o THEN 1 ELSE 0)
  BY <1>1, <1>2, Constants, TallyMove
<1>6. Tally(PushOf(g), o) = Tally(PushOf(f), o)
            - (IF PushOf(f)[t] = o THEN 1 ELSE 0) + (IF PushOf(g)[t] = o THEN 1 ELSE 0)
  BY <1>1, <1>2, Constants, TallyMove
<1>7. \A h : /\ FirstOf(h)[t] = o <=> h[t].first = o
             /\ ObjectOf(h)[t] = o <=> h[t].object = o
             /\ LeftOf(h)[t] = o <=> h[t].first = o /\ h[t].object \notin {o, None}
             /\ PushOf(h)[t] = o <=> h[t].pc = "pushing" /\ h[t].old_copy = o
  BY Constants DEF FirstOf, ObjectOf, LeftOf, PushOf
<1>8. /\ Tally(FirstOf(f), o) \in Nat /\ Tally(ObjectOf(f), o) \in Nat
      /\ Tally(LeftOf(f), o) \in Nat /\ Tally(PushOf(f), o) \in Nat
  BY CountsAre
<1>9. /\ FirstOf(f)[t] = o => Tally(FirstOf(f), o) > 0
      /\ ObjectOf(f)[t] = o => Tally(ObjectOf(f), o) > 0
      /\ LeftOf(f)[t] = o => Tally(LeftOf(f), o) > 0
      /\ PushOf(f)[t] = o => Tally(PushOf(f), o) > 0
  BY <1>1, Constants, TallyIs
<1>10. Refers(f[t], o) =
           (IF FirstOf(f)[t] = o THEN 1 ELSE 0) + (IF PushOf(f)[t] = o THEN 1 ELSE 0)
  BY <1>7 DEF Refers
<1>11. Refers(g[t], o) =
           (IF FirstOf(g)[t] = o THEN 1 ELSE 0) + (IF PushOf(g)[t] = o THEN 1 ELSE 0)
  BY <1>7 DEF Refers
<1>12. Uses(f[t], o) = (IF ObjectOf(f)[t] = o THEN 1 ELSE 0)
           + (IF LeftOf(f)[t] = o THEN 1 ELSE 0) + (IF PushOf(f)[t] = o THEN 1 ELSE 0)
  BY <1>7 DEF Uses
<1>13. Uses(g[t], o) = (IF ObjectOf(g)[t] = o THEN 1 ELSE 0)
           + (IF LeftOf(g)[t] = o THEN 1 ELSE 0) + (IF PushOf(g)[t] = o THEN 1 ELSE 0)
  BY <1>7 DEF Uses
<1> QED
  BY <1>3, <1>4, <1>5, <1>6, <1>8, <1>9, <1>10, <1>11, <1>12, <1>13, SMT
     DEF FaultRefs, FaultUses

\* Waking waiters changes no count.
LEMMA RousedCounts ==
    ASSUME NEW f, NEW g, \A u \in Map : Roused(f[u], g[u]), NEW o
    PROVE  FaultRefs(g, o) = FaultRefs(f, o) /\ FaultUses(g, o) = FaultUses(f, o)
<1>1. /\ DOMAIN FirstOf(f) = Map /\ DOMAIN ObjectOf(f) = Map
      /\ DOMAIN LeftOf(f) = Map /\ DOMAIN PushOf(f) = Map
      /\ DOMAIN FirstOf(g) = Map /\ DOMAIN ObjectOf(g) = Map
      /\ DOMAIN LeftOf(g) = Map /\ DOMAIN PushOf(g) = Map
  BY DEF FirstOf, ObjectOf, LeftOf, PushOf
<1>2. \A u \in Map :
          /\ FirstOf(g)[u] = FirstOf(f)[u] /\ ObjectOf(g)[u] = ObjectOf(f)[u]
          /\ LeftOf(g)[u] = LeftOf(f)[u] /\ PushOf(g)[u] = PushOf(f)[u]
  BY DEF FirstOf, ObjectOf, LeftOf, PushOf, Roused
<1>3. /\ Tally(FirstOf(g), o) = Tally(FirstOf(f), o)
      /\ Tally(ObjectOf(g), o) = Tally(ObjectOf(f), o)
      /\ Tally(LeftOf(g), o) = Tally(LeftOf(f), o)
      /\ Tally(PushOf(g), o) = Tally(PushOf(f), o)
  BY <1>1, <1>2, TallySame
<1> QED
  BY <1>3 DEF FaultRefs, FaultUses

\* Functions g and f differ at most in place a of D.
Near(g, f, D, a) == \A p \in D : p # a => g[p] = f[p]

\* One map entry changes: how many entries refer to an object.
LEMMA EntryCounts ==
    ASSUME NEW e, NEW h, NEW m \in Map, Near(h, e, Map, m), NEW o \in Object
    PROVE  /\ Tally(EntryOf(h), o) = Tally(EntryOf(e), o)
                 - (IF EntryOf(e)[m] = o THEN 1 ELSE 0)
                 + (IF EntryOf(h)[m] = o THEN 1 ELSE 0)
           /\ Tally(EntryOf(e), o) \in Nat
           /\ EntryOf(e)[m] = o => Tally(EntryOf(e), o) > 0
<1>1. /\ DOMAIN EntryOf(e) = Map /\ DOMAIN EntryOf(h) = Map
      /\ \A n \in Map : n # m => EntryOf(h)[n] = EntryOf(e)[n]
  BY DEF EntryOf, Near
<1> QED
  BY <1>1, Constants, TallyMove, TallyIs

\* One shadow link changes: how many objects o is the shadow of.
LEMMA ShadowCounts ==
    ASSUME NEW s, NEW q, NEW a \in Object, NEW o \in Object,
           Near(ShadowOf(q), ShadowOf(s), Object, a)
    PROVE  /\ Tally(ShadowOf(q), o) = Tally(ShadowOf(s), o)
                 - (IF ShadowOf(s)[a] = o THEN 1 ELSE 0)
                 + (IF ShadowOf(q)[a] = o THEN 1 ELSE 0)
           /\ Tally(ShadowOf(s), o) \in Nat
           /\ ShadowOf(s)[a] = o => Tally(ShadowOf(s), o) > 0
<1>1. DOMAIN ShadowOf(s) = Object /\ DOMAIN ShadowOf(q) = Object
  BY DEF ShadowOf
<1>2. \A p \in Object : p # a => ShadowOf(q)[p] = ShadowOf(s)[p]
  BY DEF Near
<1> QED
  BY <1>1, <1>2, Constants, TallyMove, TallyIs

\* No shadow link changes.
LEMMA ShadowSame ==
    ASSUME NEW s, NEW q, \A p \in Object : ShadowOf(q)[p] = ShadowOf(s)[p], NEW o
    PROVE  Tally(ShadowOf(q), o) = Tally(ShadowOf(s), o)
<1>1. DOMAIN ShadowOf(s) = Object /\ DOMAIN ShadowOf(q) = Object
  BY DEF ShadowOf
<1> QED
  BY <1>1, TallySame

-----------------------------------------------------------------------------
(* The inductive invariant. *)

ShapeOf(ft) ==
    /\ ft.pc \in {"idle", "dealloc"} => ft.object = None /\ ft.page = None
    /\ ft.pc \notin {"idle", "dealloc"} => ft.object # None /\ ft.page # None
    /\ ft.pc = "idle" <=> ft.first = None
    /\ ft.pc \in {"copied", "pushing"} => ft.object = ft.first
    /\ ft.pc = "pushing" => ft.old_copy \notin {None, ft.first}

DaemonShape(d) ==
    /\ d \in DaemonType
    /\ d.pc = "idle" <=> d.object = None
    /\ d.page = None <=> d.object = None

TypePart(s, e, f, d, k) ==
    /\ s \in Objs
    /\ e \in [Map -> EntryType]
    /\ f \in Faults /\ \A t \in Map : ShapeOf(f[t])
    /\ DaemonShape(d)
    /\ k \in [Object -> Nat]

\* References are exact; who has none is dying or free.  The copy of an object
\* is its only living shadow, and only File has one.
LinksOf(s, o) ==
    /\ s[o].state # "alive" => s[o].ref_count = 0
    /\ s[o].state = "free" => s[o].shadow = None
    /\ s[o].copy # None =>
          o = File /\ s[s[o].copy].state = "alive" /\ s[s[o].copy].shadow = File
    /\ o # File /\ s[o].state = "alive" /\ s[o].shadow = File => s[File].copy = o
    /\ ~s[o].panic

LinkPart(s, e, f, k) ==
    /\ s[File].state = "alive" /\ s[File].shadow = None
    /\ \A o \in Object : s[o].ref_count = Users(s, e, f, k, o) /\ LinksOf(s, o)

PagingPart(s, f, d) ==
    \A o \in Object :
        /\ s[o].paging_in_progress = Pagers(f, d, o)
        /\ s[o].state = "free" => s[o].paging_in_progress = 0

\* Chains of shadows have an end, and searches go down them.
Ranks(r, s, f) ==
    /\ r \in [Object -> Nat]
    /\ \A o \in Object : s[o].shadow # None => r[s[o].shadow] < r[o]
    /\ \A t \in Map : f[t].object \notin {None, f[t].first} => r[f[t].object] < r[f[t].first]
RankPart(s, f) == \E r : Ranks(r, s, f)

Inv ==
    /\ TypePart(obj, entry, fault, daemon, drops)
    /\ LinkPart(obj, entry, fault, drops)
    /\ PagingPart(obj, fault, daemon)
    /\ RankPart(obj, fault)
    /\ PagesPart(obj, fault, daemon)
    /\ AbsentPart(obj)

\* A step keeps AbsentPart that brings no such page to an object without a pager.
LEMMA AbsentNext ==
    ASSUME Inv,
           \A p \in Object : obj[p].pager_created => obj'[p].pager_created,
           \A p \in Object, x \in Page :
              Absent(obj'[p].page[x]) => Absent(obj[p].page[x]) \/ obj'[p].pager_created
    PROVE  AbsentPart(obj')
  BY DEF Inv, AbsentPart

\* The fields of an object.
LEMMA ObjectIs ==
    ASSUME NEW s \in Objs, NEW o \in Object
    PROVE  /\ s[o] \in LooseObject
           /\ s[o].state \in {"free", "alive", "dying"}
           /\ s[o].ref_count \in Int /\ s[o].paging_in_progress \in Int
           /\ s[o].shadow \in Object \cup {None} /\ s[o].copy \in Object \cup {None}
           /\ s[o].page \in [Page -> PageType \cup {None}]
           /\ \A x \in Page : s[o].page[x] \in PageType \cup {None}
  BY DEF Objs, LooseObject

\* The fields of a fault.
LEMMA FaultIs ==
    ASSUME NEW f \in Faults, NEW t \in Map
    PROVE  /\ f[t] \in FaultType
           /\ f[t].first \in Object \cup {None} /\ f[t].object \in Object \cup {None}
           /\ f[t].old_copy \in Object \cup {None} /\ f[t].page \in Page \cup {None}
           /\ f[t].data \in Value \cup {None}
  BY DEF Faults, FaultType

\* Whoever a reference points to is alive.
LEMMA AliveIs ==
    ASSUME NEW s, NEW e, NEW f, NEW k, LinkPart(s, e, f, k), s \in Objs, k \in [Object -> Nat]
    PROVE  /\ \A m \in Map : e[m] # None /\ e[m].object \in Object =>
                 s[e[m].object].state = "alive" /\ s[e[m].object].ref_count > 0
           /\ \A p \in Object : s[p].state # "free" /\ s[p].shadow \in Object =>
                 s[s[p].shadow].state = "alive" /\ s[s[p].shadow].ref_count > 0
           /\ \A t \in Map : f[t].first \in Object =>
                 s[f[t].first].state = "alive" /\ s[f[t].first].ref_count > 0
           /\ \A t \in Map : f[t].pc = "pushing" /\ f[t].old_copy \in Object =>
                 s[f[t].old_copy].state = "alive" /\ s[f[t].old_copy].ref_count > 0
           /\ \A o \in Object : k[o] > 0 => s[o].state = "alive" /\ s[o].ref_count > 0
           /\ s[File].ref_count > 0
           /\ \A o \in Object : s[o].ref_count \in Nat
<1>1. ASSUME NEW o \in Object
      PROVE  /\ s[o].ref_count = Tally(EntryOf(e), o) + Tally(ShadowOf(s), o)
                    + (Tally(FirstOf(f), o) + Tally(PushOf(f), o)) + k[o]
                    + (IF o = File THEN 1 ELSE 0)
             /\ s[o].state # "alive" => s[o].ref_count = 0
  BY <1>1 DEF LinkPart, LinksOf, Users, FaultRefs
<1>2. ASSUME NEW o \in Object
      PROVE  /\ Tally(EntryOf(e), o) \in Nat /\ Tally(ShadowOf(s), o) \in Nat
             /\ Tally(FirstOf(f), o) \in Nat /\ Tally(PushOf(f), o) \in Nat
             /\ k[o] \in Nat
             /\ \A m \in Map : EntryOf(e)[m] = o => Tally(EntryOf(e), o) > 0
             /\ \A p \in Object : ShadowOf(s)[p] = o => Tally(ShadowOf(s), o) > 0
             /\ \A t \in Map : FirstOf(f)[t] = o => Tally(FirstOf(f), o) > 0
             /\ \A t \in Map : PushOf(f)[t] = o => Tally(PushOf(f), o) > 0
  <2>1. DOMAIN EntryOf(e) = Map /\ DOMAIN ShadowOf(s) = Object
        /\ DOMAIN FirstOf(f) = Map /\ DOMAIN PushOf(f) = Map
    BY DEF EntryOf, ShadowOf, FirstOf, PushOf
  <2>2. /\ Tally(EntryOf(e), o) \in Nat
        /\ \A m \in Map : EntryOf(e)[m] = o => Tally(EntryOf(e), o) > 0
    BY <2>1, Constants, TallyIs
  <2>3. /\ Tally(ShadowOf(s), o) \in Nat
        /\ \A p \in Object : ShadowOf(s)[p] = o => Tally(ShadowOf(s), o) > 0
    BY <2>1, Constants, TallyIs
  <2>4. /\ Tally(FirstOf(f), o) \in Nat
        /\ \A t \in Map : FirstOf(f)[t] = o => Tally(FirstOf(f), o) > 0
    BY <2>1, Constants, TallyIs
  <2>5. /\ Tally(PushOf(f), o) \in Nat
        /\ \A t \in Map : PushOf(f)[t] = o => Tally(PushOf(f), o) > 0
    BY <2>1, Constants, TallyIs
  <2> QED
    BY <2>2, <2>3, <2>4, <2>5
<1>3. ASSUME NEW o \in Object,
             \/ \E m \in Map : EntryOf(e)[m] = o
             \/ \E p \in Object : ShadowOf(s)[p] = o
             \/ \E t \in Map : FirstOf(f)[t] = o \/ PushOf(f)[t] = o
             \/ k[o] > 0 \/ o = File
      PROVE  s[o].state = "alive" /\ s[o].ref_count > 0
  BY <1>1, <1>2, <1>3
<1>4. /\ \A m \in Map : e[m] # None => EntryOf(e)[m] = e[m].object
      /\ \A p \in Object : s[p].state # "free" => ShadowOf(s)[p] = s[p].shadow
      /\ \A t \in Map : FirstOf(f)[t] = f[t].first
      /\ \A t \in Map : f[t].pc = "pushing" => PushOf(f)[t] = f[t].old_copy
  BY DEF EntryOf, ShadowOf, FirstOf, PushOf
<1>5. \A o \in Object : s[o].ref_count \in Nat
  BY <1>1, <1>2
<1> QED
  BY <1>3, <1>4, <1>5, Constants

\* An object that a fault or the daemon uses is being paged.
LEMMA UsedIs ==
    ASSUME NEW s, NEW f, NEW d, PagingPart(s, f, d)
    PROVE  /\ \A t \in Map, o \in Object : Uses(f[t], o) > 0 =>
                 s[o].paging_in_progress > 0 /\ s[o].state # "free"
           /\ \A o \in Object : d.object = o =>
                 s[o].paging_in_progress > 0 /\ s[o].state # "free"
           /\ \A o \in Object : s[o].paging_in_progress \in Nat
<1>1. ASSUME NEW o \in Object
      PROVE  /\ s[o].paging_in_progress = FaultUses(f, o) + (IF d.object = o THEN 1 ELSE 0)
             /\ s[o].state = "free" => s[o].paging_in_progress = 0
             /\ FaultUses(f, o) \in Nat
  BY CountsAre DEF PagingPart, Pagers
<1>2. ASSUME NEW t \in Map, NEW o \in Object, Uses(f[t], o) > 0
      PROVE  FaultUses(f, o) > 0
  <2>1. \A u \in Map : u # t => Roused(f[u], f[u])
    BY DEF Roused
  <2> QED
    BY <1>2, <2>1, TurnCounts
<1> QED
  BY <1>1, <1>2

-----------------------------------------------------------------------------
(* A step of one thread that changes no references: its fault goes from a to *)
(* b, pages of the objects and paging in progress change.                    *)

Turned(f, g, t) == g \in Faults /\ \A u \in Map : u # t => Roused(f[u], g[u])

\* Where a search may go next.
Ahead(s, a, b) ==
    /\ b.first = a.first
    /\ \/ b.object \in {None, b.first, a.object}
       \/ a.object # None /\ s[a.object].shadow = b.object

Plain(s, q, f, g, t) ==
    /\ q \in Objs /\ Turned(f, g, t) /\ ShapeOf(g[t]) /\ Ahead(s, f[t], g[t])
    /\ \A o \in Object :
          /\ Linked(s[o], q[o])
          /\ Refers(g[t], o) = Refers(f[t], o)
          /\ q[o].paging_in_progress =
                s[o].paging_in_progress - Uses(f[t], o) + Uses(g[t], o)
    /\ \A o \in Object, x \in Page :
          /\ TurnPage(f[t], g[t], s[o].page[x], q[o].page[x], o, x)
          /\ Busy(s[o].page[x]) /\ ~Busy(q[o].page[x]) =>
                \A u \in Map : u # t => ~Waits(g[u], o, x)

\* References are the same.
LEMMA LinksSame ==
    ASSUME NEW s, NEW q, NEW e, NEW f, NEW g, NEW k, LinkPart(s, e, f, k),
           \A o \in Object : Linked(s[o], q[o]) /\ s[o].copy \in Object \cup {None},
           \A o \in Object : FaultRefs(g, o) = FaultRefs(f, o)
    PROVE  LinkPart(q, e, g, k)
<1>1. \A o \in Object : ShadowOf(q)[o] = ShadowOf(s)[o]
  BY DEF ShadowOf, Linked
<1>2. \A o \in Object : Tally(ShadowOf(q), o) = Tally(ShadowOf(s), o)
  BY <1>1, ShadowSame
<1>3. \A o \in Object : Users(q, e, g, k, o) = Users(s, e, f, k, o)
  BY <1>2 DEF Users
<1>4. \A o \in Object : s[o].ref_count = Users(s, e, f, k, o) /\ LinksOf(s, o)
  BY DEF LinkPart
<1>5. \A o \in Object : LinksOf(q, o)
  BY <1>4, Constants DEF LinksOf, Linked
<1> QED
  BY <1>3, <1>4, <1>5, Constants DEF LinkPart, Linked

\* The ranks of the objects hold for a search that goes down.
LEMMA RankAhead ==
    ASSUME NEW s \in Objs, NEW q, NEW f \in Faults, NEW g \in Faults, NEW t \in Map,
           RankPart(s, f), Turned(f, g, t), Ahead(s, f[t], g[t]),
           f[t].object # None \/ g[t].object \in {None, g[t].first},
           f[t].first # None \/ g[t].object = None,
           \A o \in Object : q[o].shadow = s[o].shadow
    PROVE  RankPart(q, g)
<1>1. PICK r : Ranks(r, s, f)
  BY DEF RankPart
<1>2. \A o \in Object : r[o] \in Nat
  BY <1>1 DEF Ranks
<1>3. \A o \in Object : q[o].shadow # None => r[q[o].shadow] < r[o]
  BY <1>1 DEF Ranks
<1>4. ASSUME NEW u \in Map, g[u].object \notin {None, g[u].first}
      PROVE  r[g[u].object] < r[g[u].first]
  <2>1. CASE u # t
    BY <2>1, <1>1, <1>4 DEF Ranks, Turned, Roused
  <2>2. CASE u = t
    <3> DEFINE a == f[t]
               b == g[t]
    <3>1. /\ a.first \in Object \cup {None} /\ a.object \in Object \cup {None}
          /\ b.object \in Object \cup {None}
      BY FaultIs
    <3>2. /\ a.object \notin {None, a.first} => r[a.object] < r[a.first]
          /\ a.object \in Object /\ s[a.object].shadow # None =>
                r[s[a.object].shadow] < r[a.object]
      BY <1>1 DEF Ranks
    <3>3. b.object \notin {None, b.first} /\ a.object # None /\ a.first # None /\ b.first = a.first
      BY <1>4, <2>2 DEF Ahead
    <3>4. b.object = a.object \/ s[a.object].shadow = b.object
      BY <3>3 DEF Ahead
    <3>5. r[b.object] < r[b.first]
      <4> HIDE DEF a, b
      <4> QED
        BY <1>2, <3>1, <3>2, <3>3, <3>4
    <3> QED
      BY <2>2, <3>5
  <2> QED
    BY <2>1, <2>2
<1> QED
  BY <1>1, <1>3, <1>4 DEF RankPart, Ranks

\* Paging is counted right.
LEMMA PagingTurn ==
    ASSUME NEW s, NEW q, NEW f, NEW g, NEW d, NEW t \in Map,
           PagingPart(s, f, d), Turned(f, g, t),
           \A o \in Object :
              /\ q[o].paging_in_progress =
                    s[o].paging_in_progress - Uses(f[t], o) + Uses(g[t], o)
              /\ q[o].state = "free" => s[o].state = "free" /\ Uses(g[t], o) = 0
    PROVE  PagingPart(q, g, d)
<1> SUFFICES ASSUME NEW o \in Object
             PROVE  /\ q[o].paging_in_progress = Pagers(g, d, o)
                    /\ q[o].state = "free" => q[o].paging_in_progress = 0
  BY DEF PagingPart
<1>1. /\ s[o].paging_in_progress = FaultUses(f, o) + (IF d.object = o THEN 1 ELSE 0)
      /\ s[o].state = "free" => s[o].paging_in_progress = 0
  BY DEF PagingPart, Pagers
<1>2. FaultUses(g, o) = FaultUses(f, o) - Uses(f[t], o) + Uses(g[t], o)
  <2>1. \A u \in Map : u # t => Roused(f[u], g[u])
    BY DEF Turned
  <2> QED
    BY <2>1, TurnCounts
<1>3. /\ FaultUses(f, o) \in Nat
      /\ Uses(f[t], o) \in Nat /\ Uses(g[t], o) \in Nat
  BY CountsAre DEF Uses
<1>4. Pagers(g, d, o) = FaultUses(g, o) + (IF d.object = o THEN 1 ELSE 0)
  BY DEF Pagers
<1>5. Uses(f[t], o) > 0 => s[o].paging_in_progress > 0
  <2>1. PagingPart(s, f, d)
    OBVIOUS
  <2>2. \A u \in Map, p \in Object : Uses(f[u], p) > 0 => s[p].paging_in_progress > 0
    BY <2>1, UsedIs, Zenon
  <2> QED
    BY <2>2
<1>6. /\ q[o].paging_in_progress = s[o].paging_in_progress - Uses(f[t], o) + Uses(g[t], o)
      /\ q[o].state = "free" => s[o].state = "free" /\ Uses(g[t], o) = 0
  OBVIOUS
<1>7. s[o].paging_in_progress \in Nat
  BY <1>1, <1>3
<1> DEFINE u == Uses(f[t], o)
           v == Uses(g[t], o)
           w == s[o].paging_in_progress
           z == q[o].paging_in_progress
<1>8. u \in Nat /\ v \in Nat /\ w \in Nat /\ z = w - u + v /\ (u > 0 => w > 0)
  BY <1>3, <1>5, <1>6, <1>7
<1>9. FaultUses(g, o) = FaultUses(f, o) - u + v
  BY <1>2
<1> HIDE DEF u, v, w, z
<1>10. z = Pagers(g, d, o)
  BY <1>1, <1>3, <1>4, <1>8, <1>9 DEF w
<1>11. q[o].state = "free" => w = 0 /\ v = 0
  BY <1>1, <1>6 DEF v, w
<1> QED
  BY <1>8, <1>10, <1>11 DEF z

\* What a fault uses: the object it looks in, the first object, and the copy
\* object it pushes into.
LEMMA UsesIs ==
    ASSUME NEW ft, NEW o \in Object
    PROVE  /\ Uses(ft, o) \in Nat /\ Refers(ft, o) \in Nat
           /\ Uses(ft, o) > 0 =>
                 \/ ft.object = o
                 \/ ft.first = o /\ ft.object # None
                 \/ ft.pc = "pushing" /\ ft.old_copy = o
           /\ ft.object = o => Uses(ft, o) > 0
           /\ ft.first = o /\ ft.object # None => Uses(ft, o) > 0
           /\ ft.pc = "pushing" /\ ft.old_copy = o => Uses(ft, o) > 0
  BY DEF Uses, Refers

\* A step of one fault that leaves links, references and what it uses alone,
\* and changes pages only as their owner, keeps the invariant.
LEMMA PlainStep ==
    ASSUME Inv, NEW t \in Map, Plain(obj, obj', fault, fault', t),
           fault[t].object # None,
           entry' = entry, daemon' = daemon, drops' = drops,
           AbsentPart(obj')
    PROVE  Inv'
<1> DEFINE a == fault[t]
           b == fault'[t]
<1>1. /\ obj \in Objs /\ fault \in Faults /\ obj' \in Objs /\ fault' \in Faults
      /\ Turned(fault, fault', t) /\ ShapeOf(a) /\ drops \in [Object -> Nat]
      /\ fault'[t] \in FaultType
  BY FaultIs DEF Inv, TypePart, Plain, Turned
<1>2. TypePart(obj, entry, fault, daemon, drops)'
  <2>1. ASSUME NEW u \in Map, u # t PROVE ShapeOf(fault'[u])
    <3>1. ShapeOf(fault[u]) /\ Roused(fault[u], fault'[u])
      BY <2>1 DEF Inv, TypePart, Plain, Turned
    <3> QED
      BY <3>1 DEF ShapeOf, Roused
  <2> QED
    BY <2>1, <1>1 DEF Inv, TypePart, Plain
<1>3. LinkPart(obj, entry, fault, drops)'
  <2>1. ASSUME NEW o \in Object PROVE FaultRefs(fault', o) = FaultRefs(fault, o)
    <3>1. /\ FaultRefs(fault', o) = FaultRefs(fault, o) - Refers(a, o) + Refers(b, o)
          /\ FaultRefs(fault, o) \in Nat /\ Refers(a, o) \in Nat
      BY <1>1, TurnCounts, CountsAre DEF Turned
    <3>2. Refers(b, o) = Refers(a, o)
      BY DEF Plain
    <3> QED
      BY <3>1, <3>2
  <2>2. \A o \in Object : Linked(obj[o], obj'[o]) /\ obj[o].copy \in Object \cup {None}
    BY <1>1, ObjectIs DEF Plain
  <2>3. LinkPart(obj, entry, fault, drops)
    BY DEF Inv
  <2>4. LinkPart(obj', entry, fault', drops)
    BY <2>1, <2>2, <2>3, LinksSame
  <2> QED
    BY <2>4
<1>4. PagingPart(obj, fault, daemon)'
  <2>1. \A o \in Object : obj'[o].state = "free" => obj[o].state = "free"
    BY DEF Plain, Linked
  <2>2. ASSUME NEW o \in Object, obj[o].state = "free" PROVE Uses(b, o) = 0
    <3>1. LinkPart(obj, entry, fault, drops) /\ PagingPart(obj, fault, daemon)
      BY DEF Inv
    <3>2. a.first # o /\ a.object # o /\ Refers(a, o) = 0
      <4>1. a.first = o => obj[o].state = "alive"
        BY <3>1, <1>1, AliveIs
      <4>2. Uses(a, o) > 0 => obj[o].state # "free"
        BY <3>1, UsedIs
      <4> QED
        BY <4>1, <4>2, <2>2, UsesIs DEF Refers
    <3>3. a.object \in Object /\ obj[a.object].shadow = o => FALSE
      <4>1. a.object \in Object => obj[a.object].state # "free"
        <5>1. a.object \in Object => Uses(a, a.object) > 0
          BY UsesIs
        <5> QED
          BY <3>1, <5>1, UsedIs
      <4> QED
        BY <4>1, <3>1, <1>1, <2>2, AliveIs
    <3>4. Refers(b, o) = 0 /\ Ahead(obj, a, b)
      BY <3>2 DEF Plain
    <3>5. b.first # o /\ b.object # o
      <4>1. a.object \in Object \cup {None} /\ o # None
        BY <1>1, FaultIs, Constants
      <4> HIDE DEF a, b
      <4> QED
        BY <3>2, <3>3, <3>4, <4>1 DEF Ahead
    <3> QED
      BY <3>4, <3>5 DEF Uses, Refers
  <2>3. \A o \in Object : obj'[o].paging_in_progress =
            obj[o].paging_in_progress - Uses(a, o) + Uses(b, o)
    BY DEF Plain
  <2>4. PagingPart(obj, fault, daemon)
    BY DEF Inv
  <2>5. PagingPart(obj', fault', daemon)
    BY <2>1, <2>2, <2>3, <2>4, <1>1, PagingTurn
  <2> QED
    BY <2>5
<1>5. RankPart(obj, fault)'
  <2>1. RankPart(obj, fault) /\ Ahead(obj, a, b)
    BY DEF Inv, Plain
  <2>2. \A o \in Object : obj'[o].shadow = obj[o].shadow
    BY DEF Plain, Linked
  <2>3. a.first # None
    BY <1>1 DEF ShapeOf
  <2>4. RankPart(obj', fault')
    BY <2>1, <2>2, <2>3, <1>1, RankAhead
  <2> QED
    BY <2>4
<1>6. PagesPart(obj, fault, daemon)'
  <2>1. PagesPart(obj, fault, daemon)
    BY DEF Inv
  <2>2. PagesPart(obj', fault', daemon)
    BY <2>1, TurnPages DEF Plain, Turned
  <2> QED
    BY <2>2
<1> QED
  BY <1>2, <1>3, <1>4, <1>5, <1>6 DEF Inv

-----------------------------------------------------------------------------
(* A fault gives up. *)

\* Links that survive two changes survive both.
LEMMA LinkedTwice == ASSUME NEW a, NEW b, NEW c, Linked(a, b), Linked(b, c) PROVE Linked(a, c)
  BY DEF Linked

\* UNLOCK_AND_DEALLOCATE's cleanup ends the fault's paging in the object and
\* the first object, and frees the page it had put in the first.
LEMMA CleanupIs ==
    ASSUME NEW s \in Objs, NEW ft, ft.object \in Object, ft.first \in Object, ft.page \in Page
    PROVE  /\ Cleanup(s, ft) \in Objs
           /\ \A p \in Object :
                 /\ Linked(s[p], Cleanup(s, ft)[p])
                 /\ Cleanup(s, ft)[p].paging_in_progress = s[p].paging_in_progress
                       - (IF p = ft.object THEN 1 ELSE 0)
                       - (IF p = ft.first /\ ft.object # ft.first THEN 1 ELSE 0)
                 /\ \A y \in Page : Cleanup(s, ft)[p].page[y] =
                       IF ft.object # ft.first /\ p = ft.first /\ y = ft.page
                       THEN None ELSE s[p].page[y]
<1> DEFINE q == Released(s, ft.object)
           v == Released(q, ft.first)
           w == [v EXCEPT ![ft.first].page[ft.page] = None]
<1>1. SetPaging(s, q, ft.object, -1)
  BY ReleasedIs
<1>2. q \in Objs
  BY <1>1 DEF SetPaging
<1>3. \A p \in Object : s[p].paging_in_progress \in Int
  BY ObjectIs
<1>4. CASE ft.object = ft.first
  <2>1. Cleanup(s, ft) = q
    BY <1>4 DEF Cleanup
  <2> HIDE DEF q
  <2> QED
    BY <1>1, <1>3, <1>4, <2>1 DEF SetPaging
<1>5. CASE ft.object # ft.first
  <2> HIDE DEF q
  <2>1. SetPaging(q, v, ft.first, -1)
    BY <1>2, ReleasedIs
  <2>2. v \in Objs
    BY <2>1 DEF SetPaging
  <2> HIDE DEF v
  <2>3. SetPage(v, w, ft.first, ft.page, None)
    BY <2>2, PageSet
  <2>4. Cleanup(s, ft) = w
    BY <1>5 DEF Cleanup, v, q, w
  <2> HIDE DEF w
  <2>5. ASSUME NEW p \in Object PROVE Linked(s[p], w[p])
    <3>1. Linked(s[p], q[p]) /\ Linked(q[p], v[p]) /\ Linked(v[p], w[p])
      BY <1>1, <2>1, <2>3 DEF SetPaging, SetPage
    <3> QED
      BY <3>1 DEF Linked
  <2>6. ASSUME NEW p \in Object
        PROVE  w[p].paging_in_progress = s[p].paging_in_progress
                       - (IF p = ft.object THEN 1 ELSE 0) - (IF p = ft.first THEN 1 ELSE 0)
    BY <1>1, <1>3, <1>5, <2>1, <2>3 DEF SetPaging, SetPage
  <2>7. ASSUME NEW p \in Object, NEW y \in Page
        PROVE  w[p].page[y] = IF p = ft.first /\ y = ft.page THEN None ELSE s[p].page[y]
    BY <1>1, <2>1, <2>3 DEF SetPaging, SetPage
  <2> QED
    BY <1>5, <2>3, <2>4, <2>5, <2>6, <2>7 DEF SetPage
<1> QED
  BY <1>4, <1>5

\* The fault of t goes on with objects s and faults f, where the page it had
\* found is not busy any more.
PutsBack(s, f, t) ==
    LET ft == fault[t] IN
    /\ s \in Objs /\ f \in Faults
    /\ \A u \in Map : Roused(fault[u], f[u])
    /\ \A o \in Object :
          /\ Linked(obj[o], s[o])
          /\ s[o].paging_in_progress = obj[o].paging_in_progress
    /\ \A o \in Object, x \in Page : Absent(s[o].page[x]) => Absent(obj[o].page[x])
    /\ \A o \in Object, x \in Page :
          LET mine == ft.pc \in {"found", "verify", "enter"} /\ ft.object = o /\ ft.page = x
          IN  /\ Held(s[o].page[x]) <=> Held(obj[o].page[x]) /\ ~mine
              /\ Busy(obj[o].page[x]) /\ ~Busy(s[o].page[x]) =>
                    \A u \in Map : u # t => ~Waits(f[u], o, x)

\* A fault that puts its page back and gives up keeps the invariant.
LEMMA GiveUpStep ==
    ASSUME Inv, NEW t \in Map, NEW s, NEW f, PutsBack(s, f, t), GiveUp(t, s, f),
           fault[t].pc \notin {"idle", "dealloc", "copied", "pushing"},
           entry' = entry, daemon' = daemon, drops' = drops
    PROVE  Inv'
<1> DEFINE a == fault[t]
           b == [Idle EXCEPT !.pc = "dealloc", !.first = a.first]
           w == IF a.object = a.first THEN f ELSE Wake(f, a.first, a.page)
<1>1. /\ a \in FaultType /\ ShapeOf(a) /\ s \in Objs /\ f \in Faults
      /\ a.object \in Object /\ a.first \in Object /\ a.page \in Page
  <2>1. obj \in Objs /\ fault \in Faults /\ ShapeOf(a)
    BY DEF Inv, TypePart
  <2> QED
    BY <2>1, FaultIs DEF ShapeOf, PutsBack
<1>2. /\ b.pc = "dealloc" /\ b.first = a.first /\ b.object = None /\ b.page = None
      /\ b \in FaultType
  BY <1>1, Constants DEF Idle, FaultType
<1> HIDE DEF b
<1>3. /\ w \in Faults
      /\ \A u \in Map : /\ Roused(f[u], w[u])
                        /\ a.object # a.first => ~Waits(w[u], a.first, a.page)
  <2>1. CASE a.object = a.first
    BY <1>1, <2>1 DEF Roused
  <2>2. CASE a.object # a.first
    <3>1. w = Wakeup(f, a.first, a.page, "woken")
      BY <2>2 DEF Wake
    <3> HIDE DEF w, a
    <3> QED
      BY <1>1, <3>1, WakeupIs
  <2> QED
    BY <2>1, <2>2
<1>4. obj' = Cleanup(s, a) /\ fault' = [w EXCEPT ![t] = b]
  BY DEF GiveUp, b
<1> HIDE DEF w
<1>5. /\ fault' \in Faults /\ fault'[t] = b
      /\ \A u \in Map : u # t => fault'[u] = w[u]
  BY <1>2, <1>3, <1>4 DEF Faults
<1>6. \A u \in Map : u # t => Roused(fault[u], fault'[u])
  <2> SUFFICES ASSUME NEW u \in Map, u # t PROVE Roused(fault[u], fault'[u])
    OBVIOUS
  <2>1. Roused(fault[u], f[u]) /\ Roused(f[u], w[u]) /\ fault'[u] = w[u]
    BY <1>3, <1>5 DEF PutsBack
  <2> QED
    BY <2>1 DEF Roused
<1>7. /\ obj' \in Objs
      /\ \A p \in Object :
            /\ Linked(s[p], obj'[p])
            /\ obj'[p].paging_in_progress = s[p].paging_in_progress
                  - (IF p = a.object THEN 1 ELSE 0)
                  - (IF p = a.first /\ a.object # a.first THEN 1 ELSE 0)
            /\ \A y \in Page : obj'[p].page[y] =
                  IF a.object # a.first /\ p = a.first /\ y = a.page
                  THEN None ELSE s[p].page[y]
  <2> HIDE DEF a
  <2>1. /\ Cleanup(s, a) \in Objs
        /\ \A p \in Object :
              /\ Linked(s[p], Cleanup(s, a)[p])
              /\ Cleanup(s, a)[p].paging_in_progress = s[p].paging_in_progress
                    - (IF p = a.object THEN 1 ELSE 0)
                    - (IF p = a.first /\ a.object # a.first THEN 1 ELSE 0)
              /\ \A y \in Page : Cleanup(s, a)[p].page[y] =
                    IF a.object # a.first /\ p = a.first /\ y = a.page
                    THEN None ELSE s[p].page[y]
    BY <1>1, CleanupIs
  <2> QED
    BY <1>4, <2>1
<1>8. ASSUME NEW o \in Object
      PROVE  /\ Linked(obj[o], obj'[o])
             /\ Refers(b, o) = Refers(a, o)
             /\ obj'[o].paging_in_progress =
                   obj[o].paging_in_progress - Uses(a, o) + Uses(b, o)
  <2>1. Linked(obj[o], obj'[o])
    BY <1>7 DEF PutsBack, Linked
  <2>2. Refers(b, o) = Refers(a, o)
    BY <1>2 DEF Refers
  <2>3. Uses(b, o) = 0
    BY <1>2, Constants DEF Uses
  <2>4. Uses(a, o) = (IF o = a.object THEN 1 ELSE 0)
                        + (IF o = a.first /\ a.object # a.first THEN 1 ELSE 0)
    BY <1>1, Constants DEF Uses
  <2>5. obj[o].paging_in_progress \in Int /\ s[o].paging_in_progress = obj[o].paging_in_progress
    BY ObjectIs DEF Inv, TypePart, PutsBack
  <2> QED
    BY <2>1, <2>2, <2>3, <2>4, <2>5, <1>7
<1>9. ASSUME NEW o \in Object, NEW x \in Page
      PROVE  /\ TurnPage(a, b, obj[o].page[x], obj'[o].page[x], o, x)
             /\ Busy(obj[o].page[x]) /\ ~Busy(obj'[o].page[x]) =>
                   \A u \in Map : u # t => ~Waits(fault'[u], o, x)
  <2> DEFINE mine == a.pc \in {"found", "verify", "enter"} /\ a.object = o /\ a.page = x
             left == a.object # a.first /\ a.first = o /\ a.page = x
             pg == obj[o].page[x]
  <2>1. /\ Held(s[o].page[x]) <=> Held(pg) /\ ~mine
        /\ Busy(pg) /\ ~Busy(s[o].page[x]) => \A u \in Map : u # t => ~Waits(f[u], o, x)
    BY DEF PutsBack
  <2>2. obj'[o].page[x] = IF left THEN None ELSE s[o].page[x]
    BY <1>7
  <2>3. Owns(a, o, x) <=> mine \/ left
    BY <1>1, Constants DEF Owns
  <2>4. ~Owns(b, o, x) /\ ~Waits(b, o, x)
    BY <1>2, Constants DEF Owns, Waits
  <2>5. TurnPage(a, b, pg, obj'[o].page[x], o, x)
    <3> HIDE DEF mine, left, pg
    <3> QED
      BY <2>1, <2>2, <2>3, <2>4 DEF TurnPage, Held
  <2>6. ASSUME NEW u \in Map, u # t, Busy(pg), ~Busy(obj'[o].page[x])
        PROVE  ~Waits(fault'[u], o, x)
    <3>1. CASE left
      BY <3>1, <1>3, <1>5, <2>6
    <3>2. CASE ~left
      <4>1. ~Waits(f[u], o, x)
        BY <2>1, <2>2, <2>6, <3>2
      <4> QED
        BY <4>1, <1>3, <1>5, <2>6, RousedSame
    <3> QED
      BY <3>1, <3>2
  <2> QED
    BY <2>5, <2>6
<1>10. ShapeOf(b) /\ Ahead(obj, a, b)
  BY <1>1, <1>2, Constants DEF ShapeOf, Ahead
<1>11. Plain(obj, obj', fault, fault', t)
  BY <1>5, <1>6, <1>7, <1>8, <1>9, <1>10 DEF Plain, Turned
<1>12. AbsentPart(obj')
  <2>1. AbsentPart(obj)
    BY DEF Inv
  <2>2. ASSUME NEW p \in Object
        PROVE  /\ obj[p].pager_created => obj'[p].pager_created
               /\ \A x \in Page : Absent(obj'[p].page[x]) => Absent(obj[p].page[x])
    BY <1>7, <1>8 DEF PutsBack, Linked, Absent
  <2> QED
    BY <2>1, <2>2, AbsentKept
<1> QED
  BY <1>1, <1>11, <1>12, Constants, PlainStep

-----------------------------------------------------------------------------
(* The steps of a fault that change no references. *)

\* The pages that are made.
LEMMA NewPages ==
    /\ Placeholder \in PageType /\ Held(Placeholder) /\ Busy(Placeholder)
    /\ Requested \in PageType /\ ~Held(Requested) /\ Busy(Requested)
    /\ ~Absent(Placeholder)
    /\ \A v \in Value \cup {None}, b, d \in BOOLEAN :
          /\ Resident(v, b, d) \in PageType
          /\ Busy(Resident(v, b, d)) <=> b
          /\ Held(Resident(v, b, d)) <=> b
          /\ ~Absent(Resident(v, b, d))
<1>1. Unmapped \in [Map -> Prot]
  BY DEF Unmapped, Prot
<1>2. Placeholder \in PageType /\ Placeholder.busy /\ ~Placeholder.absent
  BY <1>1 DEF Placeholder, PageType
<1>3. Requested \in PageType /\ Requested.absent /\ Requested.busy
  BY <1>2 DEF Requested, PageType
<1>4. ASSUME NEW v \in Value \cup {None}, NEW b \in BOOLEAN, NEW d \in BOOLEAN
      PROVE  /\ Resident(v, b, d) \in PageType
             /\ Resident(v, b, d).busy = b /\ ~Resident(v, b, d).absent
  BY <1>1 DEF Resident, PageType
<1> QED
  BY <1>2, <1>3, <1>4, Constants DEF Busy, Held, Absent

\* What holds of a fault that is under way.
LEMMA UnderWay ==
    ASSUME Inv, NEW t \in Map, fault[t].pc \notin {"idle", "dealloc"}
    PROVE  /\ obj \in Objs /\ fault \in Faults /\ fault[t] \in FaultType
           /\ ShapeOf(fault[t])
           /\ fault[t].object \in Object /\ fault[t].first \in Object
           /\ fault[t].page \in Page
           /\ fault[t].object # None /\ fault[t].first # None /\ fault[t].page # None
  BY FaultIs DEF Inv, TypePart, ShapeOf

Looking == {"search", "wait", "woken", "restart"}
Having == {"found", "verify", "enter"}

\* A fault that only moves on, without touching an object, keeps the invariant.
LEMMA StillStep ==
    ASSUME Inv, NEW t \in Map, NEW b \in FaultType,
           obj' = obj, fault' = [fault EXCEPT ![t] = b],
           b.first = fault[t].first, b.object = fault[t].object, b.page = fault[t].page,
           \/ fault[t].pc \in Looking /\ b.pc \in Looking
           \/ fault[t].pc \in Having /\ b.pc \in Having,
           b.pc = "wait" => Busy(obj[b.object].page[b.page]),
           entry' = entry, daemon' = daemon, drops' = drops
    PROVE  Inv'
<1> DEFINE a == fault[t]
<1>1. /\ obj \in Objs /\ fault \in Faults /\ ShapeOf(a)
      /\ a.object # None /\ a.first # None /\ a.page # None
  BY UnderWay DEF Looking, Having
<1>2. Turned(fault, fault', t) /\ fault'[t] = b /\ \A u \in Map : u # t => fault'[u] = fault[u]
  <2>1. \A u \in Map : Roused(fault[u], fault[u])
    BY RousedSelf
  <2>2. /\ Turned(fault, [fault EXCEPT ![t] = b], t)
        /\ [fault EXCEPT ![t] = b][t] = b
        /\ \A u \in Map : u # t => [fault EXCEPT ![t] = b][u] = fault[u]
    BY <1>1, <2>1 DEF Turned, Faults
  <2> QED
    BY <2>2
<1>3. ShapeOf(b) /\ Ahead(obj, a, b)
  BY <1>1 DEF ShapeOf, Ahead, Looking, Having
<1>4. ASSUME NEW o \in Object
      PROVE  /\ Linked(obj[o], obj'[o])
             /\ Refers(b, o) = Refers(a, o)
             /\ obj'[o].paging_in_progress =
                   obj[o].paging_in_progress - Uses(a, o) + Uses(b, o)
  <2>1. Refers(b, o) = Refers(a, o) /\ Uses(b, o) = Uses(a, o) /\ Uses(a, o) \in Nat
    BY UsesIs DEF Refers, Uses, Looking, Having
  <2>2. obj[o].paging_in_progress \in Int
    BY <1>1, ObjectIs
  <2> QED
    BY <2>1, <2>2, LinkedSelf
<1>5. ASSUME NEW o \in Object, NEW x \in Page
      PROVE  TurnPage(a, b, obj[o].page[x], obj'[o].page[x], o, x)
  <2>1. Owns(a, o, x) => Held(obj[o].page[x])
    BY DEF Inv, PagesPart
  <2>2. Owns(b, o, x) <=> Owns(a, o, x)
    BY DEF Owns, Looking, Having
  <2>3. Waits(b, o, x) => Busy(obj[o].page[x])
    BY DEF Waits
  <2> QED
    BY <2>1, <2>2, <2>3 DEF TurnPage
<1>6. Plain(obj, obj', fault, fault', t)
  BY <1>1, <1>2, <1>3, <1>4, <1>5 DEF Plain
<1>7. AbsentPart(obj')
  BY DEF Inv
<1> QED
  BY <1>1, <1>6, <1>7, PlainStep

\* The page is busy: the fault waits for it.
LEMMA FindBusyStep == ASSUME Inv, NEW t \in Map, FindBusy(t) PROVE Inv'
<1> DEFINE a == fault[t]
           b == [a EXCEPT !.pc = "wait"]
<1>1. a \in FaultType /\ a.pc = "search" /\ Busy(obj[a.object].page[a.page])
  BY UnderWay DEF FindBusy, Looked, Busy
<1>2. /\ b \in FaultType /\ b.pc = "wait"
      /\ b.first = a.first /\ b.object = a.object /\ b.page = a.page
  BY <1>1 DEF FaultType
<1>3. obj' = obj /\ fault' = [fault EXCEPT ![t] = b]
      /\ entry' = entry /\ daemon' = daemon /\ drops' = drops
  BY DEF FindBusy
<1> HIDE DEF b
<1> QED
  BY <1>1, <1>2, <1>3, StillStep DEF Looking

\* A fault that was woken looks again.
LEMMA ResumeStep == ASSUME Inv, NEW t \in Map, Resume(t) PROVE Inv'
<1> DEFINE a == fault[t]
           b == [a EXCEPT !.pc = "search"]
<1>1. a \in FaultType /\ a.pc = "woken"
  BY UnderWay DEF Resume
<1>2. /\ b \in FaultType /\ b.pc = "search"
      /\ b.first = a.first /\ b.object = a.object /\ b.page = a.page
  BY <1>1 DEF FaultType
<1>3. obj' = obj /\ fault' = [fault EXCEPT ![t] = b]
      /\ entry' = entry /\ daemon' = daemon /\ drops' = drops
  BY DEF Resume
<1> HIDE DEF b
<1> QED
  BY <1>1, <1>2, <1>3, StillStep DEF Looking

\* The page found needs no push to a copy object.
LEMMA AcceptStep == ASSUME Inv, NEW t \in Map, Accept(t) PROVE Inv'
<1> DEFINE a == fault[t]
           c == obj[a.object].copy
           p == a.prot /\ a.object = a.first /\ (a.write \/ obj[a.object].copy = None)
           b == [a EXCEPT !.pc = "verify", !.old_copy = c, !.prot = p]
<1>1. a \in FaultType /\ a.pc = "found" /\ c \in Object \cup {None} /\ p \in BOOLEAN
  <2>1. a.pc = "found"
    BY DEF Accept
  <2>2. obj \in Objs /\ a \in FaultType /\ a.object \in Object
    BY <2>1, UnderWay
  <2>3. c \in Object \cup {None}
    BY <2>2, ObjectIs
  <2> QED
    BY <2>1, <2>2, <2>3
<1>2. fault' = [fault EXCEPT ![t] = b]
  BY DEF Accept
<1> HIDE DEF c, p
<1>3. b \in FaultType
  BY <1>1, Zenon DEF FaultType
<1>4. /\ b.pc = "verify"
      /\ b.first = a.first /\ b.object = a.object /\ b.page = a.page
  BY <1>1 DEF FaultType
<1>5. obj' = obj /\ entry' = entry /\ daemon' = daemon /\ drops' = drops
  BY DEF Accept
<1> HIDE DEF b
<1> QED
  BY <1>1, <1>2, <1>3, <1>4, <1>5, StillStep DEF Having

\* Nothing is put back by a fault that has found nothing.
LEMMA PutsNothing ==
    ASSUME Inv, NEW t \in Map, fault[t].pc \in Looking
    PROVE  PutsBack(obj, fault, t)
<1>1. obj \in Objs /\ fault \in Faults
  BY DEF Inv, TypePart
<1> QED
  BY <1>1, RousedSelf, LinkedSelf DEF PutsBack, Looking

\* The pager is not ready: the fault gives up.
LEMMA PagerNotReadyStep == ASSUME Inv, NEW t \in Map, PagerNotReady(t) PROVE Inv'
  BY PutsNothing, GiveUpStep DEF PagerNotReady, Looking

\* A wait that ends with THREAD_RESTART gives up.
LEMMA RestartedStep == ASSUME Inv, NEW t \in Map, Restarted(t) PROVE Inv'
  BY PutsNothing, GiveUpStep DEF Restarted, Looking

\* An interrupted wait gives up.
LEMMA InterruptedStep == ASSUME Inv, NEW t \in Map, Interrupted(t) PROVE Inv'
  BY PutsNothing, GiveUpStep DEF Interrupted, Looking

\* PAGE_WAKEUP_DONE on a page that is there.
LEMMA PageDoneIs ==
    ASSUME NEW s \in Objs, NEW o \in Object, NEW x \in Page, s[o].page[x] # None
    PROVE  \E v \in PageType : SetPage(s, PageDone(s, o, x), o, x, v) /\ ~Busy(v)
                            /\ v # None /\ v.absent = s[o].page[x].absent
<1> DEFINE pg == s[o].page[x]
           v == [pg EXCEPT !.busy = FALSE]
<1>1. pg \in PageType
  BY ObjectIs
<1>2. v \in PageType /\ ~v.busy /\ v.absent = pg.absent /\ v # None
  <2>1. v \in PageType /\ ~v.busy /\ v.absent = pg.absent
    BY <1>1 DEF PageType
  <2> QED
    BY <2>1, Constants
<1>3. PageDone(s, o, x) = [s EXCEPT ![o].page[x] = v]
  BY DEF PageDone
<1> HIDE DEF v
<1>4. SetPage(s, [s EXCEPT ![o].page[x] = v], o, x, v)
  BY <1>2, PageSet
<1> QED
  BY <1>2, <1>3, <1>4 DEF Busy

\* A fault puts the page back that it had found; s is obj, or has the page
\* mapped.
LEMMA PutsPage ==
    ASSUME Inv, NEW t \in Map, fault[t].pc \in Having, NEW s \in Objs,
           \A o \in Object :
              /\ Linked(obj[o], s[o])
              /\ s[o].paging_in_progress = obj[o].paging_in_progress
              /\ \A x \in Page : /\ Held(s[o].page[x]) <=> Held(obj[o].page[x])
                                 /\ Busy(s[o].page[x]) <=> Busy(obj[o].page[x])
                                 /\ Absent(s[o].page[x]) <=> Absent(obj[o].page[x])
    PROVE  PutsBack(PageDone(s, fault[t].object, fault[t].page),
                    Wake(fault, fault[t].object, fault[t].page), t)
<1> DEFINE a == fault[t]
           q == PageDone(s, a.object, a.page)
           g == Wake(fault, a.object, a.page)
<1>1. /\ obj \in Objs /\ fault \in Faults /\ a.object \in Object /\ a.page \in Page
  BY UnderWay DEF Having
<1>2. Owns(a, a.object, a.page)
  BY DEF Owns, Having
<1>3. Held(obj[a.object].page[a.page])
  BY <1>1, <1>2 DEF Inv, PagesPart
<1>4. s[a.object].page[a.page] # None
  BY <1>1, <1>3 DEF Held
<1>5. PICK v \in PageType : SetPage(s, q, a.object, a.page, v) /\ ~Busy(v)
                              /\ v # None /\ v.absent = s[a.object].page[a.page].absent
  BY <1>1, <1>4, PageDoneIs
<1>6. /\ g \in Faults
      /\ \A u \in Map : Roused(fault[u], g[u]) /\ ~Waits(g[u], a.object, a.page)
  <2>1. g = Wakeup(fault, a.object, a.page, "woken")
    BY DEF Wake
  <2> HIDE DEF g, a
  <2> QED
    BY <1>1, <2>1, WakeupIs
<1> HIDE DEF q, g
<1>7. ASSUME NEW o \in Object
      PROVE  Linked(obj[o], q[o]) /\ q[o].paging_in_progress = obj[o].paging_in_progress
  <2>1. Linked(obj[o], s[o]) /\ Linked(s[o], q[o])
        /\ q[o].paging_in_progress = s[o].paging_in_progress
    BY <1>5 DEF SetPage
  <2> QED
    BY <2>1 DEF Linked
<1>8. ASSUME NEW o \in Object, NEW x \in Page
      PROVE  /\ Held(q[o].page[x]) <=> Held(obj[o].page[x]) /\ ~(a.object = o /\ a.page = x)
             /\ Busy(obj[o].page[x]) /\ ~Busy(q[o].page[x]) =>
                   \A u \in Map : u # t => ~Waits(g[u], o, x)
  <2>1. q[o].page[x] = IF o = a.object /\ x = a.page THEN v ELSE s[o].page[x]
    BY <1>5 DEF SetPage
  <2>2. ~Held(v)
    BY <1>5 DEF Held, Busy
  <2> QED
    BY <2>1, <2>2, <1>6
<1>10. ASSUME NEW o \in Object, NEW x \in Page
       PROVE  Absent(q[o].page[x]) => Absent(obj[o].page[x])
  <2>1. q[o].page[x] = IF o = a.object /\ x = a.page THEN v ELSE s[o].page[x]
    BY <1>5 DEF SetPage
  <2> QED
    BY <1>1, <1>4, <1>5, <2>1 DEF Absent
<1>9. q \in Objs /\ a.pc \in {"found", "verify", "enter"}
  BY <1>5 DEF SetPage, Having
<1> QED
  BY <1>6, <1>7, <1>8, <1>9, <1>10 DEF PutsBack, q, g

\* A fault that fails with its page busy gives the page back first.
LEMMA PutBackStep ==
    ASSUME Inv, NEW t \in Map, fault[t].pc \in Having, PutBack(t)
    PROVE  Inv'
<1>1. obj \in Objs
  BY DEF Inv, TypePart
<1>2. PutsBack(PageDone(obj, fault[t].object, fault[t].page),
               Wake(fault, fault[t].object, fault[t].page), t)
  BY <1>1, LinkedSelf, PutsPage
<1> QED
  BY <1>2, GiveUpStep DEF PutBack, Having

\* The copy object's page is busy: the fault gives up.
LEMMA CopyBusyStep == ASSUME Inv, NEW t \in Map, CopyBusy(t) PROVE Inv'
  BY PutBackStep DEF CopyBusy, Having

\* There is no free page: the fault gives up.
LEMMA NoMemoryStep == ASSUME Inv, NEW t \in Map, NoMemory(t) PROVE Inv'
  BY PutBackStep DEF NoMemory, Having

\* The page is resident and not busy: the fault makes it busy, and owns it.
LEMMA FindPageStep == ASSUME Inv, NEW t \in Map, FindPage(t) PROVE Inv'
<1> DEFINE a == fault[t]
           b == [a EXCEPT !.pc = "found"]
           pg == obj[a.object].page[a.page]
           v == [pg EXCEPT !.busy = TRUE]
<1>1. /\ obj \in Objs /\ fault \in Faults /\ a \in FaultType /\ a.pc = "search" /\ ShapeOf(a)
      /\ a.object \in Object /\ a.first \in Object /\ a.page \in Page
      /\ a.object # None /\ a.page # None /\ a.first # None
  BY UnderWay DEF FindPage
<1>2. pg \in PageType /\ ~Busy(pg) /\ ~pg.absent
  BY <1>1, ObjectIs DEF FindPage, Looked, Busy
<1>3. v \in PageType /\ Held(v) /\ Busy(v)
  BY <1>2, Constants DEF PageType, Held, Busy
<1>4. /\ b \in FaultType /\ b.pc = "found"
      /\ b.first = a.first /\ b.object = a.object /\ b.page = a.page
  BY <1>1 DEF FaultType
<1>5. obj' = [obj EXCEPT ![a.object].page[a.page] = v] /\ fault' = [fault EXCEPT ![t] = b]
      /\ entry' = entry /\ daemon' = daemon /\ drops' = drops
  BY DEF FindPage
<1> HIDE DEF b, v
<1>6. SetPage(obj, obj', a.object, a.page, v)
  BY <1>1, <1>3, <1>5, PageSet
<1>7. /\ Turned(fault, fault', t) /\ fault'[t] = b
      /\ \A u \in Map : u # t => fault'[u] = fault[u]
  <2>1. \A u \in Map : Roused(fault[u], fault[u])
    BY RousedSelf
  <2> QED
    BY <1>1, <1>4, <1>5, <2>1 DEF Turned, Faults
<1>8. ShapeOf(b) /\ Ahead(obj, a, b)
  BY <1>1, <1>4 DEF ShapeOf, Ahead
<1>9. ASSUME NEW o \in Object
      PROVE  /\ Linked(obj[o], obj'[o])
             /\ Refers(b, o) = Refers(a, o)
             /\ obj'[o].paging_in_progress =
                   obj[o].paging_in_progress - Uses(a, o) + Uses(b, o)
  <2>1. Refers(b, o) = Refers(a, o) /\ Uses(b, o) = Uses(a, o) /\ Uses(a, o) \in Nat
    BY <1>1, <1>4, UsesIs DEF Refers, Uses
  <2>2. obj[o].paging_in_progress \in Int
    BY <1>1, ObjectIs
  <2> QED
    BY <1>6, <2>1, <2>2 DEF SetPage
<1>10. ASSUME NEW o \in Object, NEW x \in Page
      PROVE  /\ TurnPage(a, b, obj[o].page[x], obj'[o].page[x], o, x)
             /\ Busy(obj[o].page[x]) => Busy(obj'[o].page[x])
  <2>1. obj'[o].page[x] = IF o = a.object /\ x = a.page THEN v ELSE obj[o].page[x]
    BY <1>6 DEF SetPage
  <2>2. Owns(b, o, x) <=> Owns(a, o, x) \/ (o = a.object /\ x = a.page)
    BY <1>1, <1>4 DEF Owns
  <2>3. Owns(a, o, x) => Held(obj[o].page[x])
    BY DEF Inv, PagesPart
  <2>4. ~Waits(b, o, x)
    BY <1>4 DEF Waits
  <2>5. Held(obj[o].page[x]) => Busy(obj[o].page[x])
    BY DEF Held, Busy
  <2> QED
    BY <1>2, <1>3, <2>1, <2>2, <2>3, <2>4, <2>5 DEF TurnPage
<1>11. Plain(obj, obj', fault, fault', t)
  BY <1>6, <1>7, <1>8, <1>9, <1>10 DEF Plain, SetPage
<1>12. AbsentPart(obj')
  <2>1. ASSUME NEW p \in Object PROVE obj[p].pager_created => obj'[p].pager_created
    BY <1>9 DEF Linked
  <2>2. ASSUME NEW p \in Object, NEW y \in Page, Absent(obj'[p].page[y])
        PROVE  Absent(obj[p].page[y]) \/ obj'[p].pager_created
    BY <1>3, <1>6, <2>2 DEF SetPage, Held, Absent
  <2> QED
    BY <2>1, <2>2, AbsentNext
<1> QED
  BY <1>1, <1>5, <1>11, <1>12, PlainStep

\* The page is asked of the pager: it is busy and absent, and the fault waits.
LEMMA AskPagerStep == ASSUME Inv, NEW t \in Map, AskPager(t) PROVE Inv'
<1> DEFINE a == fault[t]
           b == [a EXCEPT !.pc = "wait"]
<1>1. /\ obj \in Objs /\ fault \in Faults /\ a \in FaultType /\ a.pc = "search" /\ ShapeOf(a)
      /\ a.object \in Object /\ a.first \in Object /\ a.page \in Page
      /\ a.object # None /\ a.page # None /\ a.first # None
  BY UnderWay DEF AskPager
<1>2. obj[a.object].page[a.page] = None /\ obj[a.object].pager_created
  BY DEF AskPager, Looked, look_for_page
<1>3. Requested \in PageType /\ ~Held(Requested) /\ Busy(Requested)
  BY NewPages
<1>4. /\ b \in FaultType /\ b.pc = "wait"
      /\ b.first = a.first /\ b.object = a.object /\ b.page = a.page
  BY <1>1 DEF FaultType
<1>5. obj' = [obj EXCEPT ![a.object].page[a.page] = Requested]
      /\ fault' = [fault EXCEPT ![t] = b]
      /\ entry' = entry /\ daemon' = daemon /\ drops' = drops
  BY DEF AskPager
<1> HIDE DEF b
<1>6. SetPage(obj, obj', a.object, a.page, Requested)
  BY <1>1, <1>3, <1>5, PageSet
<1>7. /\ Turned(fault, fault', t) /\ fault'[t] = b
      /\ \A u \in Map : u # t => fault'[u] = fault[u]
  <2>1. \A u \in Map : Roused(fault[u], fault[u])
    BY RousedSelf
  <2> QED
    BY <1>1, <1>4, <1>5, <2>1 DEF Turned, Faults
<1>8. ShapeOf(b) /\ Ahead(obj, a, b)
  BY <1>1, <1>4 DEF ShapeOf, Ahead
<1>9. ASSUME NEW o \in Object
      PROVE  /\ Linked(obj[o], obj'[o])
             /\ Refers(b, o) = Refers(a, o)
             /\ obj'[o].paging_in_progress =
                   obj[o].paging_in_progress - Uses(a, o) + Uses(b, o)
  <2>1. Refers(b, o) = Refers(a, o) /\ Uses(b, o) = Uses(a, o) /\ Uses(a, o) \in Nat
    BY <1>1, <1>4, UsesIs DEF Refers, Uses
  <2>2. obj[o].paging_in_progress \in Int
    BY <1>1, ObjectIs
  <2> QED
    BY <1>6, <2>1, <2>2 DEF SetPage
<1>10. ASSUME NEW o \in Object, NEW x \in Page
      PROVE  /\ TurnPage(a, b, obj[o].page[x], obj'[o].page[x], o, x)
             /\ Busy(obj[o].page[x]) => Busy(obj'[o].page[x])
  <2>1. obj'[o].page[x] = IF o = a.object /\ x = a.page THEN Requested ELSE obj[o].page[x]
    BY <1>6 DEF SetPage
  <2>2. Owns(b, o, x) <=> Owns(a, o, x)
    BY <1>1, <1>4 DEF Owns
  <2>3. Owns(a, o, x) => Held(obj[o].page[x])
    BY DEF Inv, PagesPart
  <2>4. Waits(b, o, x) => o = a.object /\ x = a.page
    BY <1>4 DEF Waits
  <2>5. ~Held(obj[a.object].page[a.page])
    BY <1>2 DEF Held
  <2> QED
    BY <1>3, <2>1, <2>2, <2>3, <2>4, <2>5 DEF TurnPage
<1>11. Plain(obj, obj', fault, fault', t)
  BY <1>6, <1>7, <1>8, <1>9, <1>10 DEF Plain, SetPage
<1>12. AbsentPart(obj')
  <2>1. ASSUME NEW p \in Object PROVE obj[p].pager_created => obj'[p].pager_created
    BY <1>9 DEF Linked
  <2>2. ASSUME NEW p \in Object, NEW y \in Page, Absent(obj'[p].page[y])
        PROVE  Absent(obj[p].page[y]) \/ obj'[p].pager_created
    <3>1. obj'[p].page[y] = IF p = a.object /\ y = a.page THEN Requested ELSE obj[p].page[y]
      BY <1>6 DEF SetPage
    <3> QED
      BY <1>2, <2>1, <2>2, <3>1
  <2> QED
    BY <2>1, <2>2, AbsentNext
<1> QED
  BY <1>1, <1>5, <1>11, <1>12, PlainStep

\* The objects that a search leaves.
LEMMA LeftIs ==
    ASSUME Inv, NEW t \in Map, Missing(t), NEW q, q = Left(fault[t])
    PROVE  LET a == fault[t] IN
           /\ ~Busy(obj[a.object].page[a.page])
           /\ q \in Objs
           /\ \A o \in Object :
                 /\ Linked(obj[o], q[o])
                 /\ q[o].paging_in_progress = obj[o].paging_in_progress
                       - (IF o = a.object /\ a.object # a.first THEN 1 ELSE 0)
                 /\ \A x \in Page : q[o].page[x] =
                       IF o = a.object /\ x = a.page
                       THEN IF a.object = a.first THEN Placeholder ELSE None
                       ELSE obj[o].page[x]
<1> DEFINE a == fault[t]
<1>1. /\ obj \in Objs /\ a.object \in Object /\ a.page \in Page
      /\ \A o \in Object : obj[o].paging_in_progress \in Int
  BY UnderWay, ObjectIs DEF Missing
<1>2. ~Busy(obj[a.object].page[a.page])
  BY DEF Missing, Looked, Busy
<1>3. CASE a.object = a.first
  <2>1. q = [obj EXCEPT ![a.object].page[a.page] = Placeholder]
    BY <1>3 DEF Left
  <2>2. Placeholder \in PageType
    BY DEF PageType, Placeholder, Unmapped, Prot
  <2>3. SetPage(obj, [obj EXCEPT ![a.object].page[a.page] = Placeholder], a.object, a.page,
                Placeholder)
    BY <1>1, <2>2, PageSet
  <2> QED
    BY <1>1, <1>2, <1>3, <2>1, <2>3 DEF SetPage
<1>4. CASE a.object # a.first
  <2> DEFINE w == Released(obj, a.object)
  <2>1. q = [w EXCEPT ![a.object].page[a.page] = None]
    BY <1>4 DEF Left
  <2>2. SetPaging(obj, w, a.object, -1)
    BY <1>1, ReleasedIs
  <2> HIDE DEF w
  <2>3. w \in Objs
    BY <2>2 DEF SetPaging
  <2>4. SetPage(w, [w EXCEPT ![a.object].page[a.page] = None], a.object, a.page, None)
    BY <1>1, <2>3, PageSet
  <2>5. \A o \in Object : Linked(obj[o], q[o])
    BY <2>1, <2>2, <2>4, LinkedTwice DEF SetPaging, SetPage
  <2> QED
    BY <1>1, <1>2, <1>4, <2>1, <2>2, <2>4, <2>5 DEF SetPage, SetPaging
<1> QED
  BY <1>3, <1>4

\* The next object of the search is neither this one nor the first, for shadows
\* go up in rank.
LEMMA RankNext ==
    ASSUME Inv, NEW t \in Map, fault[t].object # None, fault[t].first # None,
           obj[fault[t].object].shadow # None
    PROVE  obj[fault[t].object].shadow \notin {fault[t].object, fault[t].first}
<1> DEFINE a == fault[t]
           n == obj[a.object].shadow
<1>1. PICK r : Ranks(r, obj, fault)
  BY DEF Inv, RankPart
<1>2. a.object \in Object /\ a.first \in Object /\ n \in Object
  BY FaultIs, ObjectIs DEF Inv, TypePart
<1>3. /\ r[a.object] \in Nat /\ r[a.first] \in Nat /\ r[n] \in Nat
      /\ r[n] < r[a.object]
      /\ a.object # a.first => r[a.object] < r[a.first]
  BY <1>1, <1>2 DEF Ranks
<1> QED
  BY <1>3

\* The fault moves its paging reference to the shadow.
LEMMA DescendStep == ASSUME Inv, NEW t \in Map, Descend(t) PROVE Inv'
<1> DEFINE a == fault[t]
           n == obj[a.object].shadow
           b == [a EXCEPT !.object = n]
           w == Left(a)
<1>1. /\ obj \in Objs /\ fault \in Faults /\ a \in FaultType /\ a.pc = "search" /\ ShapeOf(a)
      /\ a.object \in Object /\ a.first \in Object /\ a.page \in Page
      /\ a.object # None /\ a.page # None /\ a.first # None
  BY UnderWay DEF Descend, Missing
<1>2. n \in Object /\ n # None /\ n # a.object /\ n # a.first
  BY <1>1, ObjectIs, RankNext DEF Descend
<1>3. /\ ~Busy(obj[a.object].page[a.page])
      /\ w \in Objs
      /\ \A o \in Object :
            /\ Linked(obj[o], w[o])
            /\ w[o].paging_in_progress = obj[o].paging_in_progress
                  - (IF o = a.object /\ a.object # a.first THEN 1 ELSE 0)
            /\ \A x \in Page : w[o].page[x] =
                  IF o = a.object /\ x = a.page
                  THEN IF a.object = a.first THEN Placeholder ELSE None
                  ELSE obj[o].page[x]
  BY LeftIs DEF Descend
<1>4. /\ b \in FaultType /\ b.pc = a.pc
      /\ b.first = a.first /\ b.object = n /\ b.page = a.page
  BY <1>1, <1>2 DEF FaultType
<1>5. obj' = [w EXCEPT ![n].paging_in_progress = @ + 1] /\ fault' = [fault EXCEPT ![t] = b]
      /\ entry' = entry /\ daemon' = daemon /\ drops' = drops
  BY DEF Descend
<1>a. Missing(t) /\ obj[a.object].shadow = n
  BY DEF Descend
<1> HIDE DEF b, w, n
<1>6. SetPaging(w, [w EXCEPT ![n].paging_in_progress = @ + 1], n, 1)
  BY <1>2, <1>3, PagingSet
<1>7. /\ Turned(fault, fault', t) /\ fault'[t] = b
      /\ \A u \in Map : u # t => fault'[u] = fault[u]
  <2>1. \A u \in Map : Roused(fault[u], fault[u])
    BY RousedSelf
  <2> QED
    BY <1>1, <1>4, <1>5, <2>1 DEF Turned, Faults
<1>8. ShapeOf(b) /\ Ahead(obj, a, b)
  BY <1>1, <1>2, <1>4, <1>a DEF ShapeOf, Ahead
<1>9. ASSUME NEW o \in Object
      PROVE  /\ Linked(obj[o], obj'[o])
             /\ Refers(b, o) = Refers(a, o)
             /\ obj'[o].paging_in_progress =
                   obj[o].paging_in_progress - Uses(a, o) + Uses(b, o)
  <2>1. Refers(b, o) = Refers(a, o)
    BY <1>1, <1>4 DEF Refers
  <2>2. Uses(a, o) = (IF o = a.object THEN 1 ELSE 0)
                        + (IF o = a.first /\ a.object # a.first THEN 1 ELSE 0)
    BY <1>1, Constants DEF Uses
  <2>3. Uses(b, o) = (IF o = n THEN 1 ELSE 0) + (IF o = a.first THEN 1 ELSE 0)
    BY <1>1, <1>2, <1>4, Constants DEF Uses
  <2>4. obj[o].paging_in_progress \in Int /\ w[o].paging_in_progress \in Int
    BY <1>1, <1>3, ObjectIs
  <2>5. obj'[o].paging_in_progress =
            IF o = n THEN w[o].paging_in_progress + 1 ELSE w[o].paging_in_progress
    BY <1>5, <1>6 DEF SetPaging
  <2>6. w[o].paging_in_progress = obj[o].paging_in_progress
            - (IF o = a.object /\ a.object # a.first THEN 1 ELSE 0)
    BY <1>3
  <2>7. Linked(obj[o], obj'[o])
    BY <1>3, <1>5, <1>6 DEF SetPaging, Linked
  <2> QED
    BY <1>2, <2>1, <2>2, <2>3, <2>4, <2>5, <2>6, <2>7
<1>10. ASSUME NEW o \in Object, NEW x \in Page
      PROVE  /\ TurnPage(a, b, obj[o].page[x], obj'[o].page[x], o, x)
             /\ Busy(obj[o].page[x]) => Busy(obj'[o].page[x])
  <2>1. obj'[o].page[x] = w[o].page[x]
    BY <1>5, <1>6 DEF SetPaging
  <2>2. Owns(b, o, x) <=> o = a.first /\ x = a.page
    BY <1>1, <1>2, <1>4 DEF Owns
  <2>3. Owns(a, o, x) <=> o = a.first /\ x = a.page /\ a.object # a.first
    BY <1>1 DEF Owns
  <2>4. Owns(a, o, x) => Held(obj[o].page[x])
    BY DEF Inv, PagesPart
  <2>5. ~Waits(b, o, x)
    BY <1>1, <1>4 DEF Waits
  <2>6. ~Held(None) /\ (Held(obj[o].page[x]) => Busy(obj[o].page[x]))
    BY DEF Held, Busy
  <2>7. w[o].page[x] =
                  IF o = a.object /\ x = a.page
                  THEN IF a.object = a.first THEN Placeholder ELSE None
                  ELSE obj[o].page[x]
    BY <1>3
  <2> QED
    BY <1>3, <2>1, <2>2, <2>3, <2>4, <2>5, <2>6, <2>7, NewPages DEF TurnPage
<1>11. Plain(obj, obj', fault, fault', t)
  BY <1>5, <1>6, <1>7, <1>8, <1>9, <1>10 DEF Plain, SetPaging
<1>12. AbsentPart(obj')
  <2>1. ASSUME NEW p \in Object PROVE obj[p].pager_created => obj'[p].pager_created
    BY <1>9 DEF Linked
  <2>2. ASSUME NEW p \in Object, NEW y \in Page, Absent(obj'[p].page[y])
        PROVE  Absent(obj[p].page[y]) \/ obj'[p].pager_created
    <3>1. obj'[p].page[y] = w[p].page[y]
      BY <1>5, <1>6 DEF SetPaging
    <3>2. w[p].page[y] = IF p = a.object /\ y = a.page
                         THEN IF a.object = a.first THEN Placeholder ELSE None
                         ELSE obj[p].page[y]
      BY <1>3
    <3>3. ~Absent(None)
      BY DEF Absent
    <3> QED
      BY <2>2, <3>1, <3>2, <3>3, NewPages
  <2> QED
    BY <2>1, <2>2, AbsentNext
<1> QED
  BY <1>1, <1>5, <1>11, <1>12, PlainStep

\* Nothing down the chain has the page: the fault's own page is zeroed.
LEMMA ZeroFillStep == ASSUME Inv, NEW t \in Map, ZeroFill(t) PROVE Inv'
<1> DEFINE a == fault[t]
           b == [a EXCEPT !.object = a.first, !.pc = "found"]
           w == Left(a)
           v == Resident(Zero, TRUE, FALSE)
<1>1. /\ obj \in Objs /\ fault \in Faults /\ a \in FaultType /\ a.pc = "search" /\ ShapeOf(a)
      /\ a.object \in Object /\ a.first \in Object /\ a.page \in Page
      /\ a.object # None /\ a.page # None /\ a.first # None
  BY UnderWay DEF ZeroFill, Missing
<1>3. /\ ~Busy(obj[a.object].page[a.page])
      /\ w \in Objs
      /\ \A o \in Object :
            /\ Linked(obj[o], w[o])
            /\ w[o].paging_in_progress = obj[o].paging_in_progress
                  - (IF o = a.object /\ a.object # a.first THEN 1 ELSE 0)
            /\ \A x \in Page : w[o].page[x] =
                  IF o = a.object /\ x = a.page
                  THEN IF a.object = a.first THEN Placeholder ELSE None
                  ELSE obj[o].page[x]
  BY LeftIs DEF ZeroFill
<1>4. /\ b \in FaultType /\ b.pc = "found"
      /\ b.first = a.first /\ b.object = a.first /\ b.page = a.page
  BY <1>1 DEF FaultType
<1>5. obj' = [w EXCEPT ![a.first].page[a.page] = v] /\ fault' = [fault EXCEPT ![t] = b]
      /\ entry' = entry /\ daemon' = daemon /\ drops' = drops
  BY DEF ZeroFill
<1>a. v \in PageType /\ Busy(v) /\ Held(v)
  BY NewPages, ConstantsAssumption
<1> HIDE DEF b, w, v
<1>6. SetPage(w, [w EXCEPT ![a.first].page[a.page] = v], a.first, a.page, v)
  BY <1>1, <1>3, <1>a, PageSet
<1>7. /\ Turned(fault, fault', t) /\ fault'[t] = b
      /\ \A u \in Map : u # t => fault'[u] = fault[u]
  <2>1. \A u \in Map : Roused(fault[u], fault[u])
    BY RousedSelf
  <2> QED
    BY <1>1, <1>4, <1>5, <2>1 DEF Turned, Faults
<1>8. ShapeOf(b) /\ Ahead(obj, a, b)
  BY <1>1, <1>4 DEF ShapeOf, Ahead
<1>9. ASSUME NEW o \in Object
      PROVE  /\ Linked(obj[o], obj'[o])
             /\ Refers(b, o) = Refers(a, o)
             /\ obj'[o].paging_in_progress =
                   obj[o].paging_in_progress - Uses(a, o) + Uses(b, o)
  <2>1. Refers(b, o) = Refers(a, o)
    BY <1>1, <1>4 DEF Refers
  <2>2. Uses(a, o) = (IF o = a.object THEN 1 ELSE 0)
                        + (IF o = a.first /\ a.object # a.first THEN 1 ELSE 0)
    BY <1>1, Constants DEF Uses
  <2>3. Uses(b, o) = (IF o = a.first THEN 1 ELSE 0)
    BY <1>1, <1>4, Constants DEF Uses
  <2>4. obj[o].paging_in_progress \in Int /\ w[o].paging_in_progress \in Int
    BY <1>1, <1>3, ObjectIs
  <2>5. obj'[o].paging_in_progress = w[o].paging_in_progress
    BY <1>5, <1>6 DEF SetPage
  <2>6. w[o].paging_in_progress = obj[o].paging_in_progress
            - (IF o = a.object /\ a.object # a.first THEN 1 ELSE 0)
    BY <1>3
  <2>7. Linked(obj[o], obj'[o])
    BY <1>3, <1>5, <1>6 DEF SetPage, Linked
  <2> QED
    BY <2>1, <2>2, <2>3, <2>4, <2>5, <2>6, <2>7
<1>10. ASSUME NEW o \in Object, NEW x \in Page
      PROVE  /\ TurnPage(a, b, obj[o].page[x], obj'[o].page[x], o, x)
             /\ Busy(obj[o].page[x]) => Busy(obj'[o].page[x])
  <2>1. obj'[o].page[x] = IF o = a.first /\ x = a.page THEN v ELSE w[o].page[x]
    BY <1>5, <1>6 DEF SetPage
  <2>2. Owns(b, o, x) <=> o = a.first /\ x = a.page
    BY <1>1, <1>4 DEF Owns
  <2>3. Owns(a, o, x) <=> o = a.first /\ x = a.page /\ a.object # a.first
    BY <1>1 DEF Owns
  <2>4. Owns(a, o, x) => Held(obj[o].page[x])
    BY DEF Inv, PagesPart
  <2>5. ~Waits(b, o, x)
    BY <1>4 DEF Waits
  <2>6. ~Held(None) /\ (Held(obj[o].page[x]) => Busy(obj[o].page[x]))
    BY DEF Held, Busy
  <2>7. w[o].page[x] =
                  IF o = a.object /\ x = a.page
                  THEN IF a.object = a.first THEN Placeholder ELSE None
                  ELSE obj[o].page[x]
    BY <1>3
  <2> QED
    BY <1>3, <1>a, <2>1, <2>2, <2>3, <2>4, <2>5, <2>6, <2>7 DEF TurnPage
<1>11. Plain(obj, obj', fault, fault', t)
  BY <1>5, <1>6, <1>7, <1>8, <1>9, <1>10 DEF Plain, SetPage
<1>12. AbsentPart(obj')
  <2>1. ASSUME NEW p \in Object PROVE obj[p].pager_created => obj'[p].pager_created
    BY <1>9 DEF Linked
  <2>2. ASSUME NEW p \in Object, NEW y \in Page, Absent(obj'[p].page[y])
        PROVE  Absent(obj[p].page[y]) \/ obj'[p].pager_created
    <3>1. obj'[p].page[y] = IF p = a.first /\ y = a.page THEN v ELSE w[p].page[y]
      BY <1>5, <1>6 DEF SetPage
    <3>2. w[p].page[y] = IF p = a.object /\ y = a.page
                         THEN IF a.object = a.first THEN Placeholder ELSE None
                         ELSE obj[p].page[y]
      BY <1>3
    <3>3. ~Absent(None) /\ ~Absent(v)
      BY <1>a DEF Absent, Held
    <3> QED
      BY <2>2, <3>1, <3>2, <3>3, NewPages
  <2> QED
    BY <2>1, <2>2, AbsentNext
<1> QED
  BY <1>1, <1>5, <1>11, <1>12, PlainStep

\* An object with other pages.
LEMMA Repaged ==
    ASSUME NEW r \in LooseObject, NEW h \in [Page -> PageType \cup {None}]
    PROVE  /\ [r EXCEPT !.page = h] \in LooseObject
           /\ Linked(r, [r EXCEPT !.page = h])
           /\ [r EXCEPT !.page = h].page = h
           /\ [r EXCEPT !.page = h].paging_in_progress = r.paging_in_progress
           /\ [r EXCEPT !.page = h].pager_created = r.pager_created
<1>1. [r EXCEPT !.page = h] \in LooseObject
  BY Zenon DEF LooseObject
<1> QED
  BY <1>1 DEF LooseObject, Linked

\* pmap_page_protect leaves a page busy and absent as it was.
LEMMA UnmapIs ==
    ASSUME NEW s \in Objs, NEW o \in Object, NEW x \in Page, s[o].page[x] # None
    PROVE  \E v \in PageType :
              /\ SetPage(s, Unmap1(s, o, x), o, x, v)
              /\ v.busy = s[o].page[x].busy /\ v.absent = s[o].page[x].absent
<1> DEFINE pg == s[o].page[x]
           v == [pg EXCEPT !.pmap = Unmapped]
<1>1. pg \in PageType /\ Unmapped \in [Map -> Prot]
  BY ObjectIs DEF Unmapped, Prot
<1>2. v \in PageType /\ v.busy = pg.busy /\ v.absent = pg.absent
  <2> HIDE DEF pg
  <2> QED
    BY <1>1 DEF PageType
<1>3. Unmap1(s, o, x) = [s EXCEPT ![o].page[x] = v]
  BY DEF Unmap1
<1> HIDE DEF v
<1>4. SetPage(s, [s EXCEPT ![o].page[x] = v], o, x, v)
  BY <1>2, PageSet
<1> QED
  BY <1>2, <1>3, <1>4

\* What holds of a fault that has found a page.
LEMMA HasPage ==
    ASSUME Inv, NEW t \in Map, fault[t].pc \in Having
    PROVE  LET pg == obj[fault[t].object].page[fault[t].page] IN
           pg \in PageType /\ pg # None /\ pg.busy /\ ~pg.absent
<1> DEFINE a == fault[t]
<1>1. /\ obj \in Objs /\ a.object \in Object /\ a.page \in Page
  BY UnderWay DEF Having
<1>2. Owns(a, a.object, a.page)
  BY DEF Owns, Having
<1>3. Held(obj[a.object].page[a.page])
  BY <1>1, <1>2 DEF Inv, PagesPart
<1> QED
  BY <1>1, <1>3, ObjectIs DEF Held

\* The page is copied into the first object, and the one it came from is
\* given back.
LEMMA CopyUpStep == ASSUME Inv, NEW t \in Map, CopyUp(t) PROVE Inv'
<1> DEFINE a == fault[t]
           x == a.page
           o == a.object
           d == Looked(t).val
           b == [a EXCEPT !.pc = "copied", !.object = a.first, !.data = d]
           s == Unmap1(obj, o, x)
           q == PageDone(s, o, x)
           f == Wakeup(fault, o, x, "woken")
<1>1. /\ obj \in Objs /\ fault \in Faults /\ a \in FaultType /\ a.pc = "found" /\ ShapeOf(a)
      /\ o \in Object /\ a.first \in Object /\ x \in Page
      /\ o # None /\ x # None /\ a.first # None /\ o # a.first
  BY UnderWay DEF CopyUp
<1>2. /\ obj[o].page[x] \in PageType /\ Held(obj[o].page[x]) /\ obj[o].page[x] # None
  BY <1>1, HasPage DEF Having, Held
<1>3. PICK v \in PageType : SetPage(obj, s, o, x, v) /\ v.absent = obj[o].page[x].absent
  BY <1>1, <1>2, UnmapIs
<1>4. s \in Objs /\ s[o].page[x] # None /\ s[o].page[x] = v
  BY <1>1, <1>3, Constants DEF SetPage
<1> HIDE DEF s
<1>5. PICK w \in PageType : SetPage(s, q, o, x, w) /\ ~Busy(w) /\ w.absent = v.absent
  BY <1>1, <1>4, PageDoneIs
<1> HIDE DEF q
<1>6. q \in Objs
  BY <1>5 DEF SetPage
<1>7. SetPaging(q, Released(q, o), o, -1)
  BY <1>1, <1>6, ReleasedIs
<1>8. d \in Value \cup {None}
  BY <1>2 DEF Looked, PageType
<1>9. /\ f \in Faults /\ f[t] = a
      /\ \A u \in Map : Roused(fault[u], f[u]) /\ ~Waits(f[u], o, x)
  <2>1. \A u \in Map : /\ Roused(fault[u], f[u]) /\ ~Waits(f[u], o, x)
                       /\ fault[u].pc # "wait" => f[u] = fault[u]
    <3> HIDE DEF o, x
    <3> QED
      BY <1>1, WakeupIs
  <2>2. f \in Faults
    <3> HIDE DEF o, x
    <3> QED
      BY <1>1, WakeupIs
  <2> QED
    BY <1>1, <2>1, <2>2
<1>10. /\ b \in FaultType /\ b.pc = "copied"
       /\ b.first = a.first /\ b.object = a.first /\ b.page = a.page
  <2> HIDE DEF d, a
  <2>1. b \in FaultType
    BY <1>1, <1>8, Zenon DEF FaultType
  <2> QED
    BY <1>1, <2>1 DEF FaultType
<1>11. obj' = Released(q, o) /\ entry' = entry /\ daemon' = daemon /\ drops' = drops
  BY DEF CopyUp, q, s
<1>12. fault' = [f EXCEPT ![t] = b]
  BY <1>9 DEF CopyUp, Wake
<1> HIDE DEF b, f, d
<1>13. /\ Turned(fault, fault', t) /\ fault'[t] = b
      /\ \A u \in Map : u # t => fault'[u] = f[u]
  BY <1>9, <1>10, <1>12 DEF Turned, Faults
<1>14. ShapeOf(b) /\ Ahead(obj, a, b)
  BY <1>1, <1>10 DEF ShapeOf, Ahead
<1>15. ASSUME NEW p \in Object
      PROVE  /\ Linked(obj[p], obj'[p])
             /\ Refers(b, p) = Refers(a, p)
             /\ obj'[p].paging_in_progress =
                   obj[p].paging_in_progress - Uses(a, p) + Uses(b, p)
  <2>1. Refers(b, p) = Refers(a, p)
    BY <1>1, <1>10 DEF Refers
  <2>2. Uses(a, p) = (IF p = o THEN 1 ELSE 0) + (IF p = a.first THEN 1 ELSE 0)
    BY <1>1, Constants DEF Uses
  <2>3. Uses(b, p) = (IF p = a.first THEN 1 ELSE 0)
    BY <1>1, <1>10, Constants DEF Uses
  <2>4. obj[p].paging_in_progress \in Int
    BY <1>1, ObjectIs
  <2>5. obj'[p].paging_in_progress =
            IF p = o THEN obj[p].paging_in_progress - 1 ELSE obj[p].paging_in_progress
    BY <1>3, <1>5, <1>7, <1>11, <2>4 DEF SetPage, SetPaging
  <2>6. Linked(obj[p], obj'[p])
    BY <1>3, <1>5, <1>7, <1>11 DEF SetPage, SetPaging, Linked
  <2> HIDE DEF o
  <2> QED
    BY <2>1, <2>2, <2>3, <2>4, <2>5, <2>6
<1>16. ASSUME NEW p \in Object, NEW y \in Page
      PROVE  /\ TurnPage(a, b, obj[p].page[y], obj'[p].page[y], p, y)
             /\ Busy(obj[p].page[y]) /\ ~Busy(obj'[p].page[y]) =>
                   \A u \in Map : u # t => ~Waits(fault'[u], p, y)
  <2>1. obj'[p].page[y] = IF p = o /\ y = x THEN w ELSE obj[p].page[y]
    BY <1>3, <1>5, <1>7, <1>11 DEF SetPage, SetPaging
  <2>2. Owns(b, p, y) <=> p = a.first /\ y = x
    BY <1>1, <1>10 DEF Owns
  <2>3. Owns(a, p, y) <=> y = x /\ p \in {a.first, o}
    BY <1>1 DEF Owns
  <2>4. Owns(a, p, y) => Held(obj[p].page[y])
    BY DEF Inv, PagesPart
  <2>5. ~Waits(b, p, y)
    BY <1>10 DEF Waits
  <2>6. ~Held(w)
    BY <1>5 DEF Held, Busy
  <2>7. \A u \in Map : u # t => ~Waits(fault'[u], o, x)
    BY <1>9, <1>13
  <2> QED
    BY <1>1, <2>1, <2>2, <2>3, <2>4, <2>5, <2>6, <2>7 DEF TurnPage
<1>17. Plain(obj, obj', fault, fault', t)
  BY <1>11, <1>7, <1>13, <1>14, <1>15, <1>16 DEF Plain, SetPaging
<1>18. AbsentPart(obj')
  <2>1. ASSUME NEW p \in Object PROVE obj[p].pager_created => obj'[p].pager_created
    BY <1>15 DEF Linked
  <2>2. ASSUME NEW p \in Object, NEW y \in Page, Absent(obj'[p].page[y])
        PROVE  Absent(obj[p].page[y]) \/ obj'[p].pager_created
    <3>1. obj'[p].page[y] = IF p = o /\ y = x THEN w ELSE obj[p].page[y]
      BY <1>3, <1>5, <1>7, <1>11 DEF SetPage, SetPaging
    <3>2. ~Absent(w)
      BY <1>2, <1>3, <1>5 DEF Absent, Held
    <3> QED
      BY <2>2, <3>1, <3>2
  <2> QED
    BY <2>1, <2>2, AbsentNext
<1> QED
  BY <1>1, <1>11, <1>17, <1>18, PlainStep

\* The entry is looked up again: the fault goes on with its page, or gives it
\* back and gives up.
LEMMA VerifyStep == ASSUME Inv, NEW t \in Map, Verify(t) PROVE Inv'
<1> DEFINE a == fault[t]
           e == entry[t]
           same == e # None /\ e.object = a.first
           w == a.prot /\ ~e.needs_copy /\ obj[a.object].copy = a.old_copy
           b == [a EXCEPT !.pc = "enter", !.prot = w]
<1>1. a.pc = "verify" /\ a \in FaultType /\ obj \in Objs
  BY UnderWay DEF Verify
<1>2. CASE ~same
  <2>1. PutsBack(PageDone(obj, a.object, a.page), Wake(fault, a.object, a.page), t)
    BY <1>1, LinkedSelf, PutsPage DEF Having
  <2>2. GiveUp(t, PageDone(obj, a.object, a.page), Wake(fault, a.object, a.page))
        /\ entry' = entry /\ daemon' = daemon /\ drops' = drops
    BY <1>2 DEF Verify
  <2> QED
    BY <1>1, <2>1, <2>2, GiveUpStep
<1>3. CASE same
  <2>1. w \in BOOLEAN
    OBVIOUS
  <2>2. /\ fault' = [fault EXCEPT ![t] = b] /\ obj' = obj
        /\ entry' = entry /\ daemon' = daemon /\ drops' = drops
    BY <1>3 DEF Verify, MayWrite
  <2> HIDE DEF w
  <2>3. b \in FaultType
    BY <1>1, <2>1, Zenon DEF FaultType
  <2>4. /\ b.pc = "enter" /\ b.first = a.first /\ b.object = a.object /\ b.page = a.page
    BY <1>1 DEF FaultType
  <2> HIDE DEF b
  <2> QED
    BY <1>1, <2>2, <2>3, <2>4, StillStep DEF Having
<1> QED
  BY <1>2, <1>3

\* The page is entered in the pmap and given back.
LEMMA EnterPageStep == ASSUME Inv, NEW t \in Map, EnterPage(t) PROVE Inv'
<1> DEFINE a == fault[t]
           x == a.page
           m(o) == IF o # a.object THEN "none" ELSE IF a.prot THEN "write" ELSE "read"
           v(o) == [obj[o].page[x] EXCEPT !.pmap[t] = m(o)]
           h(o) == [obj[o].page EXCEPT ![x] = v(o)]
           s == [o \in Object |-> IF obj[o].page[x] = None THEN obj[o]
                                  ELSE [obj[o] EXCEPT !.page = h(o)]]
<1>1. /\ a.pc = "enter" /\ a \in FaultType /\ obj \in Objs /\ x \in Page
  BY UnderWay DEF EnterPage
<1>2. /\ GiveUp(t, PageDone(s, a.object, x), Wake(fault, a.object, x))
      /\ entry' = entry /\ daemon' = daemon /\ drops' = drops
  BY DEF EnterPage, PmapEnter
<1>3. ASSUME NEW o \in Object, obj[o].page[x] # None
      PROVE  /\ v(o) \in PageType /\ v(o).busy = obj[o].page[x].busy
             /\ v(o).absent = obj[o].page[x].absent
  <2> DEFINE pg == obj[o].page[x]
             k == [pg.pmap EXCEPT ![t] = m(o)]
  <2>1. pg \in PageType /\ pg.pmap \in [Map -> Prot]
    BY <1>1, <1>3, ObjectIs DEF PageType
  <2>2. m(o) \in Prot
    BY DEF Prot
  <2> HIDE DEF m
  <2>3. k \in [Map -> Prot]
    BY <2>1, <2>2
  <2>4. v(o) = [pg EXCEPT !.pmap = k]
    OBVIOUS
  <2> HIDE DEF pg, k, v
  <2> QED
    BY <2>1, <2>3, <2>4 DEF PageType, pg
<1> HIDE DEF v
<1>4. ASSUME NEW o \in Object
      PROVE  /\ s[o] \in LooseObject /\ Linked(obj[o], s[o])
             /\ s[o].paging_in_progress = obj[o].paging_in_progress
             /\ \A y \in Page : /\ Held(s[o].page[y]) <=> Held(obj[o].page[y])
                                /\ Busy(s[o].page[y]) <=> Busy(obj[o].page[y])
                                /\ Absent(s[o].page[y]) <=> Absent(obj[o].page[y])
  <2>1. obj[o] \in LooseObject /\ obj[o].page \in [Page -> PageType \cup {None}]
    BY <1>1, ObjectIs
  <2>2. CASE obj[o].page[x] = None
    <3>1. s[o] = obj[o]
      BY <2>2
    <3> QED
      BY <2>1, <3>1, LinkedSelf
  <2>3. CASE obj[o].page[x] # None
    <3>1. s[o] = [obj[o] EXCEPT !.page = h(o)]
      BY <2>3
    <3>2. h(o) \in [Page -> PageType \cup {None}]
          /\ \A y \in Page : h(o)[y] = IF y = x THEN v(o) ELSE obj[o].page[y]
      BY <1>3, <2>1, <2>3
    <3> HIDE DEF h, s
    <3>3. /\ s[o] \in LooseObject /\ Linked(obj[o], s[o]) /\ s[o].page = h(o)
          /\ s[o].paging_in_progress = obj[o].paging_in_progress
      BY <2>1, <3>1, <3>2, Repaged
    <3>4. v(o) # None /\ v(o).busy = obj[o].page[x].busy
          /\ v(o).absent = obj[o].page[x].absent
      BY <1>3, <2>3, Constants
    <3> QED
      BY <2>3, <3>2, <3>3, <3>4 DEF Held, Busy, Absent
  <2> QED
    BY <2>2, <2>3
<1>5. s \in Objs
  <2>1. s = [o \in Object |-> s[o]]
    OBVIOUS
  <2> HIDE DEF s
  <2> QED
    BY <1>4, <2>1 DEF Objs
<1> HIDE DEF s
<1>6. PutsBack(PageDone(s, a.object, x), Wake(fault, a.object, x), t)
  BY <1>1, <1>4, <1>5, PutsPage DEF Having
<1> QED
  BY <1>1, <1>2, <1>6, GiveUpStep

\* What holds of a fault that pushes: its object is File, which shadows nothing.
LEMMA PushesTo ==
    ASSUME Inv, NEW t \in Map, fault[t].pc = "found", Pushes(fault[t])
    PROVE  LET c == obj[fault[t].first].copy IN
           /\ c \in Object /\ c # None /\ c # fault[t].first
           /\ obj[c].state = "alive" /\ fault[t].object = fault[t].first
<1> DEFINE a == fault[t]
           c == obj[a.first].copy
<1>1. obj \in Objs /\ a.first \in Object
  BY UnderWay
<1>2. c \in Object \cup {None} /\ c # None /\ a.object = a.first
  BY <1>1, ObjectIs DEF Pushes
<1>3. obj[c].state = "alive" /\ obj[c].shadow = File /\ a.first = File /\ obj[File].shadow = None
  BY <1>1, <1>2 DEF Inv, LinkPart, LinksOf
<1> QED
  BY <1>2, <1>3, Constants

\* The old page goes into a copy object that has no pager: it is made there
\* and given back at once.
LEMMA PushStep1 ==
    ASSUME Inv, NEW t \in Map, Push(t), ~obj[obj[fault[t].first].copy].pager_created
    PROVE  Inv'
<1> DEFINE a == fault[t]
           x == a.page
           o == a.first
           c == obj[o].copy
           d == Looked(t).val
           v == Resident(d, FALSE, TRUE)
           b == [a EXCEPT !.pc = "verify", !.old_copy = c]
           s == Unmap1(obj, o, x)
           f == Wakeup(fault, o, x, "restart")
<1>1. /\ obj \in Objs /\ fault \in Faults /\ a \in FaultType /\ a.pc = "found" /\ ShapeOf(a)
      /\ o \in Object /\ x \in Page
      /\ o # None /\ x # None
  BY UnderWay DEF Push
<1>2. c \in Object /\ c # o /\ a.object = o
  BY <1>1, PushesTo DEF Push
<1>3. obj[o].page[x] \in PageType /\ Held(obj[o].page[x]) /\ obj[o].page[x] # None
  BY <1>1, <1>2, HasPage DEF Having, Held
<1>4. PICK w \in PageType : SetPage(obj, s, o, x, w) /\ w.busy /\ ~w.absent
  <2>1. obj[o].page[x].busy /\ ~obj[o].page[x].absent
    BY <1>3 DEF Held
  <2> HIDE DEF s, o, x
  <2> QED
    BY <1>1, <1>3, <2>1, UnmapIs DEF s
<1>5. Held(w) /\ Busy(w) /\ ~Absent(w)
  BY <1>4, Constants DEF Held, Busy, Absent
<1>6. d \in Value \cup {None}
  BY <1>2, <1>3 DEF Looked, PageType
<1>7. v \in PageType /\ ~Busy(v) /\ ~Held(v) /\ ~Absent(v)
  BY <1>6, NewPages
<1>8. /\ obj' = [s EXCEPT ![c].page[x] = v]
      /\ entry' = entry /\ daemon' = daemon /\ drops' = drops
      /\ obj[c].page[x] = None
  BY DEF Push
<1>9. /\ f \in Faults /\ f[t] = a
      /\ \A u \in Map : Roused(fault[u], f[u]) /\ ~Waits(f[u], o, x)
  <2>1. \A u \in Map : /\ Roused(fault[u], f[u]) /\ ~Waits(f[u], o, x)
                       /\ fault[u].pc # "wait" => f[u] = fault[u]
    <3> HIDE DEF o, x
    <3> QED
      BY <1>1, WakeupIs
  <2>2. f \in Faults
    <3> HIDE DEF o, x
    <3> QED
      BY <1>1, WakeupIs
  <2> QED
    BY <1>1, <2>1, <2>2
<1>10. fault' = [f EXCEPT ![t] = b]
  BY <1>9 DEF Push
<1> HIDE DEF s, f, v, d, c
<1>11. SetPage(s, [s EXCEPT ![c].page[x] = v], c, x, v)
  <2>1. s \in Objs
    BY <1>4 DEF SetPage
  <2> HIDE DEF x
  <2> QED
    BY <1>1, <1>2, <1>7, <2>1, PageSet
<1>12. /\ b \in FaultType /\ b.pc = "verify"
       /\ b.first = o /\ b.object = o /\ b.page = x
  <2>1. b \in FaultType
    BY <1>1, <1>2, Zenon DEF FaultType
  <2> QED
    BY <1>1, <1>2, <2>1 DEF FaultType
<1> HIDE DEF b
<1>13. /\ Turned(fault, fault', t) /\ fault'[t] = b
       /\ \A u \in Map : u # t => fault'[u] = f[u]
  BY <1>9, <1>10, <1>12 DEF Turned, Faults
<1>14. ShapeOf(b) /\ Ahead(obj, a, b)
  BY <1>1, <1>12 DEF ShapeOf, Ahead
<1>15. ASSUME NEW p \in Object
      PROVE  /\ Linked(obj[p], obj'[p])
             /\ Refers(b, p) = Refers(a, p)
             /\ obj'[p].paging_in_progress =
                   obj[p].paging_in_progress - Uses(a, p) + Uses(b, p)
  <2>1. Refers(b, p) = Refers(a, p) /\ Uses(b, p) = Uses(a, p) /\ Uses(a, p) \in Nat
    BY <1>1, <1>2, <1>12, UsesIs DEF Refers, Uses
  <2>2. obj[p].paging_in_progress \in Int
    BY <1>1, ObjectIs
  <2>3. obj'[p].paging_in_progress = obj[p].paging_in_progress
    BY <1>4, <1>8, <1>11 DEF SetPage
  <2>4. Linked(obj[p], obj'[p])
    BY <1>4, <1>8, <1>11 DEF SetPage, Linked
  <2> QED
    BY <2>1, <2>2, <2>3, <2>4
<1>16. ASSUME NEW p \in Object, NEW y \in Page
      PROVE  /\ TurnPage(a, b, obj[p].page[y], obj'[p].page[y], p, y)
             /\ Busy(obj[p].page[y]) => Busy(obj'[p].page[y])
  <2>1. obj'[p].page[y] = IF p = c /\ y = x THEN v
                          ELSE IF p = o /\ y = x THEN w ELSE obj[p].page[y]
    BY <1>4, <1>8, <1>11 DEF SetPage
  <2>2. Owns(b, p, y) <=> p = o /\ y = x
    BY <1>1, <1>12 DEF Owns
  <2>3. Owns(a, p, y) <=> p = o /\ y = x
    BY <1>1, <1>2 DEF Owns
  <2>4. Owns(a, p, y) => Held(obj[p].page[y])
    BY DEF Inv, PagesPart
  <2>5. ~Waits(b, p, y)
    BY <1>12 DEF Waits
  <2>6. ~Held(None) /\ ~Busy(None)
    BY DEF Held, Busy
  <2> QED
    BY <1>2, <1>5, <1>7, <1>8, <2>1, <2>2, <2>3, <2>4, <2>5, <2>6 DEF TurnPage
<1>17. Plain(obj, obj', fault, fault', t)
  BY <1>8, <1>11, <1>13, <1>14, <1>15, <1>16 DEF Plain, SetPage
<1>18. AbsentPart(obj')
  <2>1. ASSUME NEW p \in Object PROVE obj[p].pager_created => obj'[p].pager_created
    BY <1>15 DEF Linked
  <2>2. ASSUME NEW p \in Object, NEW y \in Page, Absent(obj'[p].page[y])
        PROVE  Absent(obj[p].page[y]) \/ obj'[p].pager_created
    <3>1. obj'[p].page[y] = IF p = c /\ y = x THEN v
                            ELSE IF p = o /\ y = x THEN w ELSE obj[p].page[y]
      BY <1>4, <1>8, <1>11 DEF SetPage
    <3> QED
      BY <1>5, <1>7, <2>2, <3>1
  <2> QED
    BY <2>1, <2>2, AbsentNext
<1> QED
  BY <1>1, <1>2, <1>8, <1>17, <1>18, PlainStep

-----------------------------------------------------------------------------
(* Steps that change references. *)

\* A step of thread t: what it does to the objects, and to their pages.
TurnRefs(t) ==
    \A o \in Object :
        /\ LinksOf(obj', o) /\ ShadowOf(obj')[o] = ShadowOf(obj)[o]
        /\ obj'[o].ref_count = obj[o].ref_count
              - Refers(fault[t], o) + Refers(fault'[t], o) - drops[o] + drops'[o]
        /\ obj'[o].paging_in_progress = obj[o].paging_in_progress
              - Uses(fault[t], o) + Uses(fault'[t], o)
        /\ obj'[o].state = "free" => obj[o].state = "free" /\ Uses(fault'[t], o) = 0

TurnAll(t) ==
    \A o \in Object, x \in Page :
        /\ TurnPage(fault[t], fault'[t], obj[o].page[x], obj'[o].page[x], o, x)
        /\ Busy(obj[o].page[x]) /\ ~Busy(obj'[o].page[x]) =>
              \A u \in Map : u # t => ~Waits(fault'[u], o, x)

\* A step of one fault keeps the invariant when it balances references and
\* uses object by object, and accounts for each page.
LEMMA TurnStep ==
    ASSUME Inv, NEW t \in Map, obj' \in Objs, Turned(fault, fault', t), ShapeOf(fault'[t]),
           drops' \in [Object -> Nat], entry' = entry, daemon' = daemon,
           RankPart(obj', fault'),
           obj'[File].state = "alive", obj'[File].shadow = None,
           TurnRefs(t), TurnAll(t),
           AbsentPart(obj')
    PROVE  Inv'
<1> DEFINE a == fault[t]
           b == fault'[t]
<1>1. TypePart(obj', entry', fault', daemon', drops')
  <2>1. ASSUME NEW u \in Map PROVE ShapeOf(fault'[u])
    <3>1. CASE u = t
      BY <3>1
    <3>2. CASE u # t
      <4>1. ShapeOf(fault[u]) /\ Roused(fault[u], fault'[u])
        BY <3>2 DEF Inv, TypePart, Turned
      <4> QED
        BY <4>1 DEF ShapeOf, Roused
    <3> QED
      BY <3>1, <3>2
  <2> QED
    BY <2>1 DEF Inv, TypePart, Turned
<1>2. LinkPart(obj', entry', fault', drops')
  <2>1. ASSUME NEW o \in Object
        PROVE  obj'[o].ref_count = Users(obj', entry', fault', drops', o)
    <3>1. Tally(ShadowOf(obj'), o) = Tally(ShadowOf(obj), o)
      BY ShadowSame DEF TurnRefs
    <3>2. /\ FaultRefs(fault', o) = FaultRefs(fault, o) - Refers(a, o) + Refers(b, o)
          /\ Refers(a, o) \in Nat /\ Refers(b, o) \in Nat
      <4>1. \A u \in Map : u # t => Roused(fault[u], fault'[u])
        BY DEF Turned
      <4> QED
        BY <4>1, TurnCounts
    <3>3. FaultRefs(fault, o) \in Nat
      BY CountsAre
    <3>4. Tally(ShadowOf(obj), o) \in Nat /\ Tally(EntryOf(entry), o) \in Nat
      <4>1. DOMAIN ShadowOf(obj) = Object /\ DOMAIN EntryOf(entry) = Map
        BY DEF ShadowOf, EntryOf
      <4> QED
        BY <4>1, Constants, TallyIs
    <3>5. obj[o].ref_count = Tally(EntryOf(entry), o) + Tally(ShadowOf(obj), o)
                                + FaultRefs(fault, o) + drops[o] + (IF o = File THEN 1 ELSE 0)
      BY DEF Inv, LinkPart, Users
    <3>6. Users(obj', entry', fault', drops', o)
             = Tally(EntryOf(entry), o) + Tally(ShadowOf(obj'), o)
                                + FaultRefs(fault', o) + drops'[o] + (IF o = File THEN 1 ELSE 0)
      BY DEF Users
    <3>7. drops[o] \in Nat /\ drops'[o] \in Nat
      BY DEF Inv, TypePart
    <3>8. obj'[o].ref_count = obj[o].ref_count - Refers(a, o) + Refers(b, o) - drops[o] + drops'[o]
      BY DEF TurnRefs
    <3> DEFINE n1 == Tally(EntryOf(entry), o)
               n2 == Tally(ShadowOf(obj), o)
               n3 == FaultRefs(fault, o)
               n4 == Refers(a, o)
               n5 == Refers(b, o)
               n6 == IF o = File THEN 1 ELSE 0
               k == drops[o]
               l == drops'[o]
    <3>9. n6 \in Nat
      OBVIOUS
    <3>10. /\ n1 \in Nat /\ n2 \in Nat /\ n3 \in Nat /\ n4 \in Nat /\ n5 \in Nat
           /\ k \in Nat /\ l \in Nat
           /\ obj[o].ref_count = n1 + n2 + n3 + k + n6
           /\ Users(obj', entry', fault', drops', o) = n1 + n2 + (n3 - n4 + n5) + l + n6
           /\ obj'[o].ref_count = obj[o].ref_count - n4 + n5 - k + l
      BY <3>1, <3>2, <3>3, <3>4, <3>5, <3>6, <3>7, <3>8
    <3> HIDE DEF n1, n2, n3, n4, n5, n6, k, l
    <3> QED
      BY <3>9, <3>10
  <2> QED
    BY <2>1 DEF LinkPart, TurnRefs
<1>3. PagingPart(obj', fault', daemon')
  <2>1. PagingPart(obj, fault, daemon)
    BY DEF Inv
  <2>2. PagingPart(obj', fault', daemon)
    BY <2>1, PagingTurn DEF TurnRefs
  <2> QED
    BY <2>2
<1>4. PagesPart(obj', fault', daemon')
  <2>1. PagesPart(obj, fault, daemon)
    BY DEF Inv
  <2>2. PagesPart(obj', fault', daemon)
    <3>1. \A u \in Map : u # t => Roused(fault[u], fault'[u])
      BY DEF Turned
    <3>2. \A o \in Object, x \in Page :
             /\ TurnPage(fault[t], fault'[t], obj[o].page[x], obj'[o].page[x], o, x)
             /\ Busy(obj[o].page[x]) /\ ~Busy(obj'[o].page[x]) =>
                   \A u \in Map : u # t => ~Waits(fault'[u], o, x)
      BY DEF TurnAll
    <3> QED
      BY ONLY <2>1, <3>1, <3>2, TurnPages
  <2> QED
    BY <2>2
<1> QED
  BY <1>1, <1>2, <1>3, <1>4 DEF Inv

\* A step of another thread, or of a pager.
EnvRefs ==
    \A o \in Object :
        /\ LinksOf(obj', o)
        /\ obj'[o].ref_count = obj[o].ref_count
              - Tally(EntryOf(entry), o) + Tally(EntryOf(entry'), o)
              - Tally(ShadowOf(obj), o) + Tally(ShadowOf(obj'), o)
              - drops[o] + drops'[o]
        /\ obj'[o].paging_in_progress = obj[o].paging_in_progress
        /\ obj'[o].state = "free" => obj[o].paging_in_progress = 0

EnvAll ==
    \A o \in Object, x \in Page :
        /\ Held(obj'[o].page[x]) <=> Held(obj[o].page[x])
        /\ Busy(obj[o].page[x]) /\ ~Busy(obj'[o].page[x]) =>
              \A u \in Map : ~Waits(fault'[u], o, x)

\* The same for a step of something other than a fault.
LEMMA EnvStep ==
    ASSUME Inv, obj' \in Objs, fault' \in Faults, \A u \in Map : Roused(fault[u], fault'[u]),
           drops' \in [Object -> Nat], entry' \in [Map -> EntryType], daemon' = daemon,
           RankPart(obj', fault'),
           obj'[File].state = "alive", obj'[File].shadow = None,
           EnvRefs, EnvAll,
           AbsentPart(obj')
    PROVE  Inv'
<1>1. TypePart(obj', entry', fault', daemon', drops')
  <2>1. ASSUME NEW u \in Map PROVE ShapeOf(fault'[u])
    <3>1. ShapeOf(fault[u]) /\ Roused(fault[u], fault'[u])
      BY DEF Inv, TypePart
    <3> QED
      BY <3>1 DEF ShapeOf, Roused
  <2> QED
    BY <2>1 DEF Inv, TypePart
<1>2. \A o \in Object : /\ FaultRefs(fault', o) = FaultRefs(fault, o)
                        /\ FaultUses(fault', o) = FaultUses(fault, o)
  BY RousedCounts
<1>3. LinkPart(obj', entry', fault', drops')
  <2>1. ASSUME NEW o \in Object
        PROVE  obj'[o].ref_count = Users(obj', entry', fault', drops', o)
    <3> DEFINE n1 == Tally(EntryOf(entry), o)
               n2 == Tally(ShadowOf(obj), o)
               n3 == FaultRefs(fault, o)
               n4 == Tally(EntryOf(entry'), o)
               n5 == Tally(ShadowOf(obj'), o)
               n6 == IF o = File THEN 1 ELSE 0
               k == drops[o]
               l == drops'[o]
    <3>1. n1 \in Nat /\ n2 \in Nat /\ n4 \in Nat /\ n5 \in Nat /\ n3 \in Nat /\ n6 \in Nat
      <4>1. /\ DOMAIN ShadowOf(obj) = Object /\ DOMAIN EntryOf(entry) = Map
            /\ DOMAIN ShadowOf(obj') = Object /\ DOMAIN EntryOf(entry') = Map
        BY DEF ShadowOf, EntryOf
      <4> QED
        BY <4>1, Constants, TallyIs, CountsAre
    <3>2. k \in Nat /\ l \in Nat
      BY DEF Inv, TypePart
    <3>3. obj[o].ref_count = n1 + n2 + n3 + k + n6
      BY DEF Inv, LinkPart, Users
    <3>4. Users(obj', entry', fault', drops', o) = n4 + n5 + n3 + l + n6
      BY <1>2 DEF Users
    <3>5. obj'[o].ref_count = obj[o].ref_count - n1 + n4 - n2 + n5 - k + l
      BY DEF EnvRefs
    <3> HIDE DEF n1, n2, n3, n4, n5, n6, k, l
    <3> QED
      BY <3>1, <3>2, <3>3, <3>4, <3>5
  <2> QED
    BY <2>1 DEF LinkPart, EnvRefs
<1>4. PagingPart(obj', fault', daemon')
  <2>1. PagingPart(obj, fault, daemon)
    BY DEF Inv
  <2> QED
    BY <2>1, <1>2 DEF PagingPart, Pagers, EnvRefs
<1>5. PagesPart(obj', fault', daemon')
  <2>1. PagesPart(obj, fault, daemon)
    BY DEF Inv
  <2>2. PagesPart(obj', fault', daemon)
    BY <2>1, SamePages DEF EnvAll
  <2> QED
    BY <2>2
<1> QED
  BY <1>1, <1>3, <1>4, <1>5 DEF Inv

\* q is s with n more references to o.
SetRefs(s, q, o, n) ==
    /\ q \in Objs
    /\ \A p \in Object :
          /\ q[p].state = s[p].state /\ q[p].shadow = s[p].shadow
          /\ q[p].copy = s[p].copy /\ q[p].panic = s[p].panic
          /\ q[p].ref_count = IF p = o THEN s[p].ref_count + n ELSE s[p].ref_count
          /\ q[p].paging_in_progress = s[p].paging_in_progress
          /\ q[p].page = s[p].page /\ q[p].pager_created = s[p].pager_created

\* Changing the references of one object.
LEMMA RefsSet ==
    ASSUME NEW s \in Objs, NEW o \in Object, NEW n \in Int
    PROVE  SetRefs(s, [s EXCEPT ![o].ref_count = @ + n], o, n)
<1> DEFINE r == s[o]
           c == r.ref_count + n
           e == [r EXCEPT !.ref_count = c]
           q == [s EXCEPT ![o] = e]
<1>1. r \in LooseObject /\ r.ref_count \in Int
  BY DEF Objs, LooseObject
<1>2. c \in Int
  BY <1>1
<1> HIDE DEF c, r
<1>3. e \in LooseObject
  BY <1>1, <1>2, Zenon DEF LooseObject
<1>4. /\ e.state = r.state /\ e.shadow = r.shadow /\ e.copy = r.copy /\ e.panic = r.panic
      /\ e.ref_count = c /\ e.paging_in_progress = r.paging_in_progress /\ e.page = r.page
      /\ e.pager_created = r.pager_created
  BY <1>1 DEF LooseObject
<1> HIDE DEF e
<1>5. q \in Objs /\ \A p \in Object : q[p] = IF p = o THEN e ELSE s[p]
  BY <1>3 DEF Objs
<1> HIDE DEF q
<1>7. SetRefs(s, q, o, n)
  BY <1>4, <1>5 DEF SetRefs, r, c
<1>8. q = [s EXCEPT ![o].ref_count = @ + n]
  BY DEF q, e, c, r
<1> QED
  BY <1>7, <1>8

\* Dropping a reference of one object.
LEMMA RefDropped ==
    ASSUME NEW s \in Objs, NEW o \in Object
    PROVE  SetRefs(s, [s EXCEPT ![o].ref_count = @ - 1], o, -1)
<1>1. SetRefs(s, [s EXCEPT ![o].ref_count = @ + (-1)], o, -1)
  BY RefsSet
<1>2. s[o].ref_count \in Int
  BY DEF Objs, LooseObject
<1>3. s[o].ref_count + (-1) = s[o].ref_count - 1
  BY <1>2
<1>4. [s EXCEPT ![o].ref_count = @ - 1] = [s EXCEPT ![o].ref_count = @ + (-1)]
  BY <1>3
<1> QED
  BY <1>1, <1>4

\* What the pager has changes.
LEMMA PagerSet ==
    ASSUME NEW s \in Objs, NEW o \in Object, NEW x \in Page, NEW v \in Value \cup {None}
    PROVE  SetPaging(s, [s EXCEPT ![o].pager[x] = v], o, 0)
<1> DEFINE r == s[o]
           g == [r.pager EXCEPT ![x] = v]
           e == [r EXCEPT !.pager = g]
           q == [s EXCEPT ![o] = e]
<1>1. r \in LooseObject /\ r.pager \in [Page -> Value \cup {None}]
      /\ \A p \in Object : s[p].paging_in_progress \in Int
  BY DEF Objs, LooseObject
<1>2. g \in [Page -> Value \cup {None}]
  BY <1>1
<1> HIDE DEF g, r
<1>3. e \in LooseObject
  BY <1>1, <1>2, Zenon DEF LooseObject
<1>4. /\ Linked(r, e) /\ e.page = r.page /\ e.paging_in_progress = r.paging_in_progress
  BY <1>1 DEF LooseObject, Linked
<1> HIDE DEF e
<1>5. q \in Objs /\ \A p \in Object : q[p] = IF p = o THEN e ELSE s[p]
  BY <1>3 DEF Objs
<1>6. \A p \in Object : Linked(s[p], s[p])
  BY DEF Linked
<1> HIDE DEF q
<1>7. SetPaging(s, q, o, 0)
  BY <1>1, <1>4, <1>5, <1>6 DEF SetPaging, r
<1>8. q = [s EXCEPT ![o].pager[x] = v]
  BY DEF q, e, g, r
<1> QED
  BY <1>7, <1>8

\* The objects of q are those of s but for counts, pages and pagers.
Kept(s, q) ==
    \A o \in Object :
        /\ q[o].state = s[o].state /\ q[o].shadow = s[o].shadow
        /\ q[o].copy = s[o].copy /\ q[o].panic = s[o].panic
        /\ q[o].state # "alive" => q[o].ref_count = 0

\* Links are kept by a step that keeps every state, copy and shadow.
LEMMA LinksKept ==
    ASSUME NEW s \in Objs, NEW q, \A o \in Object : LinksOf(s, o), Kept(s, q)
    PROVE  \A o \in Object : LinksOf(q, o) /\ ShadowOf(q)[o] = ShadowOf(s)[o]
<1>1. \A o \in Object : s[o].copy \in Object \cup {None}
  BY ObjectIs
<1> QED
  BY <1>1, Constants DEF LinksOf, ShadowOf, Kept

\* Ranks stay when no shadow link is made and no search moves.
LEMMA RankSame ==
    ASSUME NEW s, NEW q, NEW f, NEW g, RankPart(s, f),
           \A o \in Object : q[o].shadow \in {None, s[o].shadow},
           \A u \in Map : \/ g[u].object \in {None, g[u].first}
                          \/ g[u].object = f[u].object /\ g[u].first = f[u].first
    PROVE  RankPart(q, g)
<1>1. PICK r : Ranks(r, s, f)
  BY DEF RankPart
<1>2. Ranks(r, q, g)
  BY <1>1 DEF Ranks
<1> QED
  BY <1>2 DEF RankPart

\* A fault goes from a to b, and wakes some others.
LEMMA TurnIs ==
    ASSUME NEW f \in Faults, NEW g \in Faults, \A u \in Map : Roused(f[u], g[u]),
           NEW t \in Map, NEW b \in FaultType
    PROVE  /\ Turned(f, [g EXCEPT ![t] = b], t)
           /\ [g EXCEPT ![t] = b][t] = b
           /\ \A u \in Map : u # t => [g EXCEPT ![t] = b][u] = g[u]
  BY DEF Turned, Faults

\* The old page goes to the copy object's pager: the copy is referenced and
\* paged in until the page is sent.
LEMMA PushStep2 ==
    ASSUME Inv, NEW t \in Map, Push(t), obj[obj[fault[t].first].copy].pager_created
    PROVE  Inv'
<1> DEFINE a == fault[t]
           x == a.page
           o == a.first
           c == obj[o].copy
           d == IF obj[c].pager_ready /\ obj[c].pager[x] = None THEN Looked(t).val
                ELSE obj[c].pager[x]
           b == [a EXCEPT !.pc = "pushing", !.old_copy = c]
           s == Unmap1(obj, o, x)
           k == s[c].ref_count + 1
           n == s[c].paging_in_progress + 1
           s1 == [s EXCEPT ![c].page[x] = Placeholder]
           s2 == [s1 EXCEPT ![c].pager[x] = d]
           s3 == [s2 EXCEPT ![c].ref_count = k]
           s4 == [s3 EXCEPT ![c].paging_in_progress = n]
<1>1. /\ obj \in Objs /\ fault \in Faults /\ a \in FaultType /\ a.pc = "found" /\ ShapeOf(a)
      /\ o \in Object /\ x \in Page
      /\ o # None /\ x # None
  BY UnderWay DEF Push
<1>2. c \in Object /\ c # o /\ a.object = o /\ obj[c].state = "alive" /\ c # None
  BY <1>1, PushesTo DEF Push
<1>3. obj[o].page[x] \in PageType /\ Held(obj[o].page[x]) /\ obj[o].page[x] # None
  BY <1>1, <1>2, HasPage DEF Having, Held
<1>4. PICK w \in PageType : SetPage(obj, s, o, x, w) /\ w.busy /\ ~w.absent
  <2>1. obj[o].page[x].busy /\ ~obj[o].page[x].absent
    BY <1>3 DEF Held
  <2> HIDE DEF s, o, x
  <2> QED
    BY <1>1, <1>3, <2>1, UnmapIs DEF s
<1>5. Held(w) /\ Busy(w) /\ ~Absent(w)
  BY <1>4, Constants DEF Held, Busy, Absent
<1>6. d \in Value \cup {None}
  <2>1. Looked(t).val \in Value \cup {None}
    BY <1>2, <1>3 DEF Looked, PageType
  <2>2. obj[c].pager[x] \in Value \cup {None}
    BY <1>1, <1>2 DEF Objs, LooseObject
  <2> QED
    BY <2>1, <2>2
<1>7. Placeholder \in PageType /\ Busy(Placeholder) /\ Held(Placeholder)
  BY NewPages
<1>8. /\ obj' = s4
      /\ fault' = [fault EXCEPT ![t] = b]
      /\ entry' = entry /\ daemon' = daemon /\ drops' = drops
      /\ obj[c].page[x] = None
  <2>1. s[c].pager[x] = obj[c].pager[x]
    <3>1. c \in DOMAIN obj
      BY <1>1, <1>2 DEF Objs
    <3> HIDE DEF c, o, x
    <3> QED
      BY <1>2, <3>1 DEF Unmap1
  <2>2. obj' = [s EXCEPT ![c].page[x] = Placeholder,
                         ![c].pager[x] = IF obj[c].pager_ready /\ s[c].pager[x] = None
                                         THEN Looked(t).val ELSE s[c].pager[x],
                         ![c].ref_count = k,
                         ![c].paging_in_progress = n]
    BY DEF Push
  <2>3. obj' = s4
    <3> HIDE DEF s, k, n, c
    <3>1. obj' = [s EXCEPT ![c].page[x] = Placeholder, ![c].pager[x] = d,
                           ![c].ref_count = k, ![c].paging_in_progress = n]
      BY <2>1, <2>2
    <3> HIDE DEF d
    <3> QED
      BY <3>1
  <2> QED
    BY <2>3 DEF Push
<1>9. s \in Objs
  BY <1>4 DEF SetPage
<1> HIDE DEF s, d, c
<1>10. SetPage(s, s1, c, x, Placeholder)
  <2> HIDE DEF x
  <2> QED
    BY <1>1, <1>2, <1>7, <1>9, PageSet
<1> HIDE DEF s1
<1>11. SetPaging(s1, s2, c, 0)
  <2>1. s1 \in Objs
    BY <1>10 DEF SetPage
  <2> HIDE DEF x
  <2> QED
    BY <1>1, <1>2, <1>6, <2>1, PagerSet
<1> HIDE DEF s2
<1>12. SetRefs(s2, s3, c, 1)
  <2>1. s2 \in Objs
    BY <1>11 DEF SetPaging
  <2>2. SetRefs(s2, [s2 EXCEPT ![c].ref_count = @ + 1], c, 1)
    BY <1>2, <2>1, RefsSet
  <2>3. k = s2[c].ref_count + 1
    BY <1>2, <1>10, <1>11 DEF SetPage, SetPaging, Linked
  <2> QED
    BY <2>2, <2>3
<1> HIDE DEF s3
<1>13. SetPaging(s3, s4, c, 1)
  <2>1. s3 \in Objs
    BY <1>12 DEF SetRefs
  <2>2. SetPaging(s3, [s3 EXCEPT ![c].paging_in_progress = @ + 1], c, 1)
    BY <1>2, <2>1, PagingSet
  <2>3. n = s3[c].paging_in_progress + 1
    <3>1. s[c].paging_in_progress \in Int
      BY <1>2, <1>9, ObjectIs
    <3> QED
      BY <1>2, <1>10, <1>11, <1>12, <3>1 DEF SetPage, SetPaging, SetRefs
  <2> QED
    BY <2>2, <2>3
<1> HIDE DEF s4
<1>14. ASSUME NEW p \in Object
      PROVE  /\ obj'[p].state = obj[p].state /\ obj'[p].shadow = obj[p].shadow
             /\ obj'[p].copy = obj[p].copy /\ obj'[p].panic = obj[p].panic
             /\ obj'[p].ref_count = obj[p].ref_count + (IF p = c THEN 1 ELSE 0)
             /\ obj'[p].paging_in_progress = obj[p].paging_in_progress + (IF p = c THEN 1 ELSE 0)
             /\ obj[p].pager_created => obj'[p].pager_created
             /\ \A y \in Page : obj'[p].page[y] = IF p = c /\ y = x THEN Placeholder
                                                ELSE IF p = o /\ y = x THEN w ELSE obj[p].page[y]
  <2>1. obj[p].paging_in_progress \in Int /\ obj[p].ref_count \in Int
    BY <1>1, ObjectIs
  <2>2. Linked(obj[p], s[p]) /\ s[p].paging_in_progress = obj[p].paging_in_progress
        /\ \A y \in Page : s[p].page[y] = IF p = o /\ y = x THEN w ELSE obj[p].page[y]
    BY <1>4 DEF SetPage
  <2>3. Linked(s[p], s1[p]) /\ s1[p].paging_in_progress = s[p].paging_in_progress
        /\ \A y \in Page : s1[p].page[y] = IF p = c /\ y = x THEN Placeholder ELSE s[p].page[y]
    BY <1>10 DEF SetPage
  <2>4. Linked(s1[p], s2[p]) /\ s2[p].page = s1[p].page
        /\ s2[p].paging_in_progress = s1[p].paging_in_progress
    BY <1>11, <2>1, <2>2, <2>3 DEF SetPaging
  <2> QED
    BY <1>8, <1>12, <1>13, <2>1, <2>2, <2>3, <2>4 DEF SetPaging, SetRefs, Linked
<1>15. /\ b \in FaultType /\ b.pc = "pushing" /\ b.old_copy = c
       /\ b.first = o /\ b.object = o /\ b.page = x
  <2>1. b \in FaultType
    BY <1>1, <1>2, Zenon DEF FaultType
  <2> QED
    BY <1>1, <1>2, <2>1 DEF FaultType
<1> HIDE DEF b
<1>16. /\ Turned(fault, fault', t) /\ fault'[t] = b
       /\ \A u \in Map : u # t => fault'[u] = fault[u]
  <2>1. \A u \in Map : Roused(fault[u], fault[u])
    BY RousedSelf
  <2>2. /\ Turned(fault, [fault EXCEPT ![t] = b], t)
        /\ [fault EXCEPT ![t] = b][t] = b
        /\ \A u \in Map : u # t => [fault EXCEPT ![t] = b][u] = fault[u]
    BY <1>1, <1>15, <2>1, TurnIs
  <2> QED
    BY <1>8, <2>2
<1>17. ShapeOf(b)
  BY <1>1, <1>2, <1>15 DEF ShapeOf
<1>18. RankPart(obj', fault')
  <2>1. RankPart(obj, fault)
    BY DEF Inv
  <2>2. \A p \in Object : obj'[p].shadow \in {None, obj[p].shadow}
    BY <1>14
  <2>3. \A u \in Map : \/ fault'[u].object \in {None, fault'[u].first}
                       \/ fault'[u].object = fault[u].object /\ fault'[u].first = fault[u].first
    BY <1>15, <1>16
  <2> QED
    BY <2>1, <2>2, <2>3, RankSame
<1>19. ASSUME NEW p \in Object
      PROVE  /\ LinksOf(obj', p) /\ ShadowOf(obj')[p] = ShadowOf(obj)[p]
             /\ obj'[p].ref_count = obj[p].ref_count
                   - Refers(a, p) + Refers(b, p) - drops[p] + drops'[p]
             /\ obj'[p].paging_in_progress = obj[p].paging_in_progress - Uses(a, p) + Uses(b, p)
             /\ obj'[p].state = "free" => obj[p].state = "free" /\ Uses(b, p) = 0
  <2>1. \A r \in Object : LinksOf(obj', r) /\ ShadowOf(obj')[r] = ShadowOf(obj)[r]
    <3>1. \A r \in Object : LinksOf(obj, r)
      BY DEF Inv, LinkPart
    <3>2. Kept(obj, obj')
      BY <1>1, <1>2, <1>14, <3>1, ObjectIs DEF Kept, LinksOf
    <3> QED
      BY <1>1, <3>1, <3>2, LinksKept
  <2>2. /\ Refers(b, p) = Refers(a, p) + (IF p = c THEN 1 ELSE 0)
        /\ Uses(b, p) = Uses(a, p) + (IF p = c THEN 1 ELSE 0)
        /\ Refers(a, p) \in Nat /\ Uses(a, p) \in Nat
    BY <1>1, <1>2, <1>15 DEF Refers, Uses
  <2>3. drops[p] \in Nat /\ obj[p].paging_in_progress \in Int /\ obj[p].ref_count \in Int
    BY <1>1, ObjectIs DEF Inv, TypePart
  <2>4. obj[p].state = "free" => Uses(b, p) = 0
    <3>1. PagingPart(obj, fault, daemon)
      BY DEF Inv
    <3>2. Uses(a, p) > 0 => obj[p].state # "free"
      BY <3>1, UsedIs
    <3> QED
      BY <1>2, <2>2, <3>2
  <2> QED
    BY <1>8, <1>14, <2>1, <2>2, <2>3, <2>4
<1>20. ASSUME NEW p \in Object, NEW y \in Page
      PROVE  /\ TurnPage(a, b, obj[p].page[y], obj'[p].page[y], p, y)
             /\ Busy(obj[p].page[y]) => Busy(obj'[p].page[y])
  <2>1. obj'[p].page[y] = IF p = c /\ y = x THEN Placeholder
                          ELSE IF p = o /\ y = x THEN w ELSE obj[p].page[y]
    BY <1>14
  <2>2. Owns(b, p, y) <=> p \in {o, c} /\ y = x
    BY <1>1, <1>15 DEF Owns
  <2>3. Owns(a, p, y) <=> p = o /\ y = x
    BY <1>1, <1>2 DEF Owns
  <2>4. Owns(a, p, y) => Held(obj[p].page[y])
    BY DEF Inv, PagesPart
  <2>5. ~Waits(b, p, y)
    BY <1>15 DEF Waits
  <2>6. ~Held(None) /\ ~Busy(None)
    BY DEF Held, Busy
  <2> QED
    BY <1>2, <1>5, <1>7, <1>8, <2>1, <2>2, <2>3, <2>4, <2>5, <2>6 DEF TurnPage
<1>21. obj' \in Objs /\ drops' \in [Object -> Nat]
  BY <1>8, <1>13 DEF SetPaging, Inv, TypePart
<1>22. obj'[File].state = "alive" /\ obj'[File].shadow = None
  BY <1>14, Constants DEF Inv, LinkPart
<1>23. AbsentPart(obj')
  <2>1. ~Absent(Placeholder)
    BY NewPages
  <2>2. \A p \in Object, y \in Page : Absent(obj'[p].page[y]) => Absent(obj[p].page[y])
    BY <1>5, <1>14, <2>1
  <2>3. \A p \in Object : obj[p].pager_created => obj'[p].pager_created
    BY <1>14
  <2> QED
    BY <2>2, <2>3, AbsentNext
<1> QED
  <2>1. TurnRefs(t) /\ TurnAll(t)
    BY <1>16, <1>19, <1>20 DEF TurnRefs, TurnAll
  <2> QED
    BY <1>8, <1>16, <1>17, <1>18, <1>21, <1>22, <1>23, <2>1, TurnStep

\* A page pushed into the copy object, with a pager or without.
LEMMA PushStep == ASSUME Inv, NEW t \in Map, Push(t) PROVE Inv'
  BY PushStep1, PushStep2

\* What Pushed does, whether the loop goes round again or not.
PushedTo(t) ==
    LET a == fault[t]
        c == a.old_copy
        b == fault'[t]
    IN /\ obj' \in Objs /\ drops' \in [Object -> Nat]
       /\ \A p \in Object :
             /\ obj'[p].state = obj[p].state /\ obj'[p].shadow = obj[p].shadow
             /\ obj'[p].copy = obj[p].copy /\ obj'[p].panic = obj[p].panic
             /\ obj[p].pager_created => obj'[p].pager_created
             /\ obj'[p].ref_count = obj[p].ref_count - (IF p = c THEN 1 ELSE 0)
                                       - drops[p] + drops'[p]
             /\ p # c => obj'[p].ref_count = obj[p].ref_count
             /\ obj'[p].paging_in_progress = obj[p].paging_in_progress - (IF p = c THEN 1 ELSE 0)
             /\ \A y \in Page : obj'[p].page[y] =
                   IF p = c /\ y = a.page THEN None ELSE obj[p].page[y]
       /\ Turned(fault, fault', t)
       /\ b.pc \in {"found", "verify"}
       /\ b.first = a.first /\ b.object = a.object /\ b.page = a.page
       /\ \A u \in Map : u # t => ~Waits(fault'[u], c, a.page)

\* What the end of a push to the pager does.
LEMMA PushedIs == ASSUME Inv, NEW t \in Map, Pushed(t) PROVE PushedTo(t)
<1> DEFINE a == fault[t]
           x == a.page
           c == a.old_copy
           hard == obj[c].shadow # a.first \/ obj[c].ref_count = 1
           q == Released(obj, c)
           s == [q EXCEPT ![c].page[x] = None]
           f == Wakeup(fault, c, x, "woken")
           g == Wakeup(f, a.first, x, "restart")
<1>1. /\ obj \in Objs /\ fault \in Faults /\ a \in FaultType /\ a.pc = "pushing" /\ ShapeOf(a)
      /\ a.first \in Object /\ x \in Page /\ c \in Object
  <2>1. a.pc = "pushing"
    BY DEF Pushed
  <2> QED
    BY <2>1, UnderWay, FaultIs DEF ShapeOf
<1>2. drops \in [Object -> Nat]
  BY DEF Inv, TypePart
<1>3. SetPaging(obj, q, c, -1)
  BY <1>1, ReleasedIs
<1>4. q \in Objs
  BY <1>3 DEF SetPaging
<1>a. IF hard
      THEN /\ obj' = s /\ drops' = [drops EXCEPT ![c] = @ + 1]
           /\ fault' = [f EXCEPT ![t].pc = "found", ![t].old_copy = None]
      ELSE /\ obj' = [s EXCEPT ![c].ref_count = @ - 1] /\ drops' = drops
           /\ fault' = [g EXCEPT ![t].pc = "verify", ![t].old_copy = obj[a.first].copy]
  BY DEF Pushed, Wake
<1> HIDE DEF q
<1>5. SetPage(q, s, c, x, None)
  <2> HIDE DEF x, c
  <2> QED
    BY <1>1, <1>4, PageSet
<1>6. s \in Objs
  BY <1>5 DEF SetPage
<1> HIDE DEF s
<1>7. ASSUME NEW p \in Object
      PROVE  /\ Linked(obj[p], s[p])
             /\ s[p].paging_in_progress = obj[p].paging_in_progress - (IF p = c THEN 1 ELSE 0)
             /\ \A y \in Page : s[p].page[y] = IF p = c /\ y = x THEN None ELSE obj[p].page[y]
             /\ obj[p].paging_in_progress \in Int /\ obj[p].ref_count \in Int
  <2>1. obj[p].paging_in_progress \in Int /\ obj[p].ref_count \in Int
    BY <1>1, ObjectIs
  <2> QED
    BY <1>3, <1>5, <2>1 DEF SetPaging, SetPage, Linked
<1>8. /\ f \in Faults /\ f[t] = a
      /\ \A u \in Map : Roused(fault[u], f[u]) /\ ~Waits(f[u], c, x)
  <2>1. /\ f \in Faults
        /\ \A u \in Map : /\ Roused(fault[u], f[u]) /\ ~Waits(f[u], c, x)
                          /\ fault[u].pc # "wait" => f[u] = fault[u]
    <3> HIDE DEF c, x
    <3> QED
      BY <1>1, WakeupIs
  <2> QED
    BY <1>1, <2>1
<1> HIDE DEF f
<1>9. /\ g \in Faults /\ g[t] = a
      /\ \A u \in Map : Roused(fault[u], g[u]) /\ ~Waits(g[u], c, x)
  <2>1. /\ g \in Faults
        /\ \A u \in Map : /\ Roused(f[u], g[u])
                          /\ f[u].pc # "wait" => g[u] = f[u]
    <3> HIDE DEF c, x
    <3> QED
      BY <1>1, <1>8, WakeupIs
  <2>2. \A u \in Map : Roused(fault[u], g[u])
    BY <1>8, <2>1 DEF Roused
  <2>3. \A u \in Map : ~Waits(g[u], c, x)
    BY <1>8, <2>1, RousedSame
  <2> QED
    BY <1>1, <1>8, <2>1, <2>2, <2>3
<1> HIDE DEF g
<1>10. CASE hard
  <2> DEFINE b == [a EXCEPT !.pc = "found", !.old_copy = None]
  <2>1. /\ b \in FaultType /\ b.pc = "found"
        /\ b.first = a.first /\ b.object = a.object /\ b.page = a.page
    <3>1. b \in FaultType
      BY <1>1, Zenon DEF FaultType
    <3> QED
      BY <1>1, <3>1 DEF FaultType
  <2>2. fault' = [f EXCEPT ![t] = b] /\ obj' = s /\ drops' = [drops EXCEPT ![c] = @ + 1]
    BY <1>8, <1>10, <1>a
  <2> HIDE DEF b
  <2>3. /\ Turned(fault, fault', t) /\ fault'[t] = b
        /\ \A u \in Map : u # t => fault'[u] = f[u]
    <3>1. /\ Turned(fault, [f EXCEPT ![t] = b], t)
          /\ [f EXCEPT ![t] = b][t] = b
          /\ \A u \in Map : u # t => [f EXCEPT ![t] = b][u] = f[u]
      BY <1>1, <1>8, <2>1, TurnIs
    <3> QED
      BY <2>2, <3>1
  <2>4. drops' \in [Object -> Nat] /\ \A p \in Object : drops'[p] = drops[p] + (IF p = c THEN 1 ELSE 0)
    BY <1>1, <1>2, <2>2
  <2>5. ASSUME NEW p \in Object
        PROVE  /\ obj'[p].ref_count = obj[p].ref_count - (IF p = c THEN 1 ELSE 0)
                                       - drops[p] + drops'[p]
               /\ obj'[p].ref_count = obj[p].ref_count
    <3>1. obj'[p].ref_count = obj[p].ref_count /\ drops[p] \in Nat
      BY <1>2, <1>7, <2>2 DEF Linked
    <3> QED
      BY <1>7, <2>4, <3>1
  <2> QED
    BY <1>6, <1>7, <1>8, <2>1, <2>2, <2>3, <2>4, <2>5 DEF PushedTo, Linked
<1>11. CASE ~hard
  <2> DEFINE b == [a EXCEPT !.pc = "verify", !.old_copy = obj[a.first].copy]
             r == [s EXCEPT ![c].ref_count = @ - 1]
  <2>1. /\ b \in FaultType /\ b.pc = "verify"
        /\ b.first = a.first /\ b.object = a.object /\ b.page = a.page
    <3>1. obj[a.first].copy \in Object \cup {None}
      BY <1>1, ObjectIs
    <3>2. b \in FaultType
      BY <1>1, <3>1, Zenon DEF FaultType
    <3> QED
      BY <1>1, <3>2 DEF FaultType
  <2>2. fault' = [g EXCEPT ![t] = b] /\ obj' = r /\ drops' = drops
    BY <1>9, <1>11, <1>a
  <2> HIDE DEF b
  <2>3. /\ Turned(fault, fault', t) /\ fault'[t] = b
        /\ \A u \in Map : u # t => fault'[u] = g[u]
    <3>1. /\ Turned(fault, [g EXCEPT ![t] = b], t)
          /\ [g EXCEPT ![t] = b][t] = b
          /\ \A u \in Map : u # t => [g EXCEPT ![t] = b][u] = g[u]
      BY <1>1, <1>9, <2>1, TurnIs
    <3> QED
      BY <2>2, <3>1
  <2>4. SetRefs(s, r, c, -1)
    <3> HIDE DEF c
    <3> QED
      BY <1>1, <1>6, RefDropped
  <2> HIDE DEF r
  <2>5. ASSUME NEW p \in Object
        PROVE  /\ obj'[p].ref_count = obj[p].ref_count - (IF p = c THEN 1 ELSE 0)
                                       - drops[p] + drops'[p]
               /\ p # c => obj'[p].ref_count = obj[p].ref_count
    <3>1. obj'[p].ref_count = obj[p].ref_count - (IF p = c THEN 1 ELSE 0)
      BY <1>7, <2>2, <2>4 DEF SetRefs, Linked
    <3>2. drops[p] \in Nat /\ drops'[p] = drops[p]
      BY <1>2, <2>2
    <3> QED
      BY <1>7, <3>1, <3>2
  <2> QED
    BY <1>2, <1>7, <1>9, <2>1, <2>2, <2>3, <2>4, <2>5 DEF PushedTo, SetRefs, Linked
<1> QED
  BY <1>10, <1>11

\* The push to the pager has ended, and the copy is about to lose a reference.
LEMMA PushedStep == ASSUME Inv, NEW t \in Map, Pushed(t) PROVE Inv'
<1> DEFINE a == fault[t]
           x == a.page
           c == a.old_copy
           b == fault'[t]
<1>1. /\ obj \in Objs /\ fault \in Faults /\ a \in FaultType /\ a.pc = "pushing" /\ ShapeOf(a)
      /\ a.first \in Object /\ x \in Page /\ c \in Object /\ c # a.first
      /\ a.object = a.first /\ a.first # None /\ x # None
  <2>1. a.pc = "pushing"
    BY DEF Pushed
  <2> QED
    BY <2>1, UnderWay, FaultIs DEF ShapeOf
<1>2. drops \in [Object -> Nat] /\ entry' = entry /\ daemon' = daemon
  BY DEF Inv, TypePart, Pushed
<1>3. PushedTo(t)
  BY PushedIs
<1>4. /\ obj' \in Objs /\ drops' \in [Object -> Nat]
      /\ Turned(fault, fault', t)
      /\ b.pc \in {"found", "verify"}
      /\ b.first = a.first /\ b.object = a.object /\ b.page = a.page
      /\ \A u \in Map : u # t => ~Waits(fault'[u], c, x)
  BY <1>3 DEF PushedTo
<1>5. \A p \in Object :
             /\ obj'[p].state = obj[p].state /\ obj'[p].shadow = obj[p].shadow
             /\ obj'[p].copy = obj[p].copy /\ obj'[p].panic = obj[p].panic
             /\ obj[p].pager_created => obj'[p].pager_created
             /\ obj'[p].ref_count = obj[p].ref_count - (IF p = c THEN 1 ELSE 0)
                                       - drops[p] + drops'[p]
             /\ p # c => obj'[p].ref_count = obj[p].ref_count
             /\ obj'[p].paging_in_progress = obj[p].paging_in_progress - (IF p = c THEN 1 ELSE 0)
             /\ \A y \in Page : obj'[p].page[y] =
                   IF p = c /\ y = x THEN None ELSE obj[p].page[y]
  BY <1>3 DEF PushedTo
<1>6. LinkPart(obj, entry, fault, drops)
  BY DEF Inv
<1>7. obj[c].state = "alive"
  BY <1>1, <1>2, <1>6, AliveIs
<1>8. ShapeOf(b)
  BY <1>1, <1>4 DEF ShapeOf
<1>9. RankPart(obj', fault')
  <2>1. RankPart(obj, fault)
    BY DEF Inv
  <2>2. \A p \in Object : obj'[p].shadow \in {None, obj[p].shadow}
    BY <1>5
  <2>3. \A u \in Map : \/ fault'[u].object \in {None, fault'[u].first}
                       \/ fault'[u].object = fault[u].object /\ fault'[u].first = fault[u].first
    BY <1>4 DEF Turned, Roused
  <2> QED
    BY <2>1, <2>2, <2>3, RankSame
<1>10. TurnRefs(t)
  <2>1. \A r \in Object : LinksOf(obj', r) /\ ShadowOf(obj')[r] = ShadowOf(obj)[r]
    <3>1. \A r \in Object : LinksOf(obj, r)
      BY <1>6 DEF LinkPart
    <3>2. Kept(obj, obj')
      BY <1>1, <1>5, <1>7, <3>1 DEF Kept, LinksOf
    <3> QED
      BY <1>1, <3>1, <3>2, LinksKept
  <2> SUFFICES ASSUME NEW p \in Object
               PROVE  /\ obj'[p].ref_count = obj[p].ref_count
                           - Refers(a, p) + Refers(b, p) - drops[p] + drops'[p]
                      /\ obj'[p].paging_in_progress = obj[p].paging_in_progress - Uses(a, p) + Uses(b, p)
                      /\ obj'[p].state = "free" => obj[p].state = "free" /\ Uses(b, p) = 0
    BY <2>1 DEF TurnRefs
  <2>2. /\ Refers(b, p) + (IF p = c THEN 1 ELSE 0) = Refers(a, p)
        /\ Uses(b, p) + (IF p = c THEN 1 ELSE 0) = Uses(a, p)
        /\ Refers(a, p) \in Nat /\ Uses(a, p) \in Nat
        /\ Refers(b, p) \in Nat /\ Uses(b, p) \in Nat
    BY <1>1, <1>4 DEF Refers, Uses
  <2>3. /\ drops[p] \in Nat /\ drops'[p] \in Nat
        /\ obj[p].paging_in_progress \in Int /\ obj[p].ref_count \in Int
    BY <1>1, <1>2, <1>4, ObjectIs
  <2>4. obj[p].state = "free" => Uses(b, p) = 0
    <3>1. PagingPart(obj, fault, daemon)
      BY DEF Inv
    <3>2. Uses(a, p) > 0 => obj[p].state # "free"
      BY <3>1, UsedIs
    <3> QED
      BY <1>7, <2>2, <3>2
  <2>5. /\ obj'[p].ref_count = obj[p].ref_count - (IF p = c THEN 1 ELSE 0) - drops[p] + drops'[p]
        /\ obj'[p].paging_in_progress = obj[p].paging_in_progress - (IF p = c THEN 1 ELSE 0)
        /\ obj'[p].state = obj[p].state
    BY <1>5
  <2> QED
    BY <2>2, <2>3, <2>4, <2>5
<1>11. TurnAll(t)
  <2> SUFFICES ASSUME NEW p \in Object, NEW y \in Page
               PROVE  /\ TurnPage(a, b, obj[p].page[y], obj'[p].page[y], p, y)
                      /\ Busy(obj[p].page[y]) /\ ~Busy(obj'[p].page[y]) =>
                            \A u \in Map : u # t => ~Waits(fault'[u], p, y)
    BY DEF TurnAll
  <2>1. obj'[p].page[y] = IF p = c /\ y = x THEN None ELSE obj[p].page[y]
    BY <1>5
  <2>2. Owns(b, p, y) <=> p = a.first /\ y = x
    BY <1>1, <1>4 DEF Owns
  <2>3. Owns(a, p, y) <=> p \in {a.first, c} /\ y = x
    BY <1>1 DEF Owns
  <2>4. Owns(a, p, y) => Held(obj[p].page[y])
    BY DEF Inv, PagesPart
  <2>5. ~Waits(b, p, y)
    BY <1>4 DEF Waits
  <2>6. ~Held(None) /\ ~Busy(None)
    BY DEF Held, Busy
  <2> QED
    BY <1>1, <1>4, <2>1, <2>2, <2>3, <2>4, <2>5, <2>6 DEF TurnPage
<1>12. obj'[File].state = "alive" /\ obj'[File].shadow = None
  BY <1>5, <1>6, Constants DEF LinkPart
<1>13. AbsentPart(obj')
  <2>1. ~Absent(None)
    BY DEF Absent
  <2> QED
    BY <1>5, <2>1, AbsentNext
<1> QED
  BY <1>2, <1>4, <1>8, <1>9, <1>10, <1>11, <1>12, <1>13, TurnStep

\* What vm_object_deallocate does to the objects.
DroppedTo(s, q, o) ==
    /\ q \in Objs
    /\ \A p \in Object :
          /\ q[p].shadow = s[p].shadow
          /\ q[p].ref_count = s[p].ref_count - (IF p = o THEN 1 ELSE 0)
          /\ q[p].paging_in_progress = s[p].paging_in_progress
          /\ q[p].page = s[p].page /\ q[p].pager_created = s[p].pager_created
          /\ q[p].state = "free" <=> s[p].state = "free"
          /\ LinksOf(q, p)
    /\ q[File].state = "alive"

\* Every assignment to a field leaves an object.
LEMMA RecordIs ==
    ASSUME NEW r \in LooseObject, NEW v
    PROVE  /\ v \in {"free", "alive", "dying"} => [r EXCEPT !.state = v] \in LooseObject
           /\ v \in Object \cup {None} => [r EXCEPT !.copy = v] \in LooseObject
           /\ v \in Object \cup {None} => [r EXCEPT !.shadow = v] \in LooseObject
           /\ v \in BOOLEAN => [r EXCEPT !.panic = v] \in LooseObject
           /\ v \in Int => [r EXCEPT !.ref_count = v] \in LooseObject
           /\ v \in BOOLEAN => [r EXCEPT !.pager_created = v] \in LooseObject
           /\ v \in BOOLEAN => [r EXCEPT !.pager_ready = v] \in LooseObject
<1>1. v \in {"free", "alive", "dying"} => [r EXCEPT !.state = v] \in LooseObject
  BY Zenon DEF LooseObject
<1>2. v \in Object \cup {None} => [r EXCEPT !.copy = v] \in LooseObject
  BY Zenon DEF LooseObject
<1>3. v \in Object \cup {None} => [r EXCEPT !.shadow = v] \in LooseObject
  BY Zenon DEF LooseObject
<1>4. v \in BOOLEAN => [r EXCEPT !.panic = v] \in LooseObject
  BY Zenon DEF LooseObject
<1>5. v \in Int => [r EXCEPT !.ref_count = v] \in LooseObject
  BY Zenon DEF LooseObject
<1>6. v \in BOOLEAN => [r EXCEPT !.pager_created = v] \in LooseObject
  BY Zenon DEF LooseObject
<1>7. v \in BOOLEAN => [r EXCEPT !.pager_ready = v] \in LooseObject
  BY Zenon DEF LooseObject
<1> QED
  BY <1>1, <1>2, <1>3, <1>4, <1>5, <1>6, <1>7

\* A shadow is another object.
LEMMA ShadowNext ==
    ASSUME Inv, NEW o \in Object, obj[o].shadow # None
    PROVE  obj[o].shadow \in Object /\ obj[o].shadow # o
<1>1. PICK r : Ranks(r, obj, fault)
  BY DEF Inv, RankPart
<1>2. obj[o].shadow \in Object
  BY ObjectIs DEF Inv, TypePart
<1>3. r[o] \in Nat /\ r[obj[o].shadow] \in Nat /\ r[obj[o].shadow] < r[o]
  BY <1>1, <1>2 DEF Ranks
<1> QED
  BY <1>2, <1>3

\* The last reference goes: o is dying, and not the copy of its shadow any more.
LEMMA LastDropped ==
    ASSUME Inv, NEW o \in Object, obj[o].state = "alive", obj[o].ref_count = 1, o # File,
           Dereference(o)
    PROVE  /\ obj' \in Objs
           /\ \A p \in Object :
                 /\ obj'[p].state = IF p = o THEN "dying" ELSE obj[p].state
                 /\ obj'[p].copy = IF obj[p].copy = o THEN None ELSE obj[p].copy
                 /\ obj'[p].panic = FALSE
                 /\ obj'[p].shadow = obj[p].shadow
                 /\ obj'[p].ref_count = obj[p].ref_count - (IF p = o THEN 1 ELSE 0)
                 /\ obj'[p].paging_in_progress = obj[p].paging_in_progress
                 /\ obj'[p].page = obj[p].page
                 /\ obj'[p].pager_created = obj[p].pager_created
<1> DEFINE sh == obj[o].shadow
           s == [obj EXCEPT ![o].ref_count = @ - 1]
           e == [s[o] EXCEPT !.state = "dying"]
           s1 == [s EXCEPT ![o] = e]
<1>1. /\ obj \in Objs /\ \A p \in Object : LinksOf(obj, p)
      /\ obj[File].state = "alive" /\ obj[File].shadow = None
      /\ sh \in Object \cup {None} /\ sh # o
      /\ \A p \in Object : obj[p].ref_count \in Int
      /\ \A p \in Object : obj[p].panic \in BOOLEAN
  <2>1. /\ obj \in Objs /\ \A p \in Object : LinksOf(obj, p)
        /\ obj[File].state = "alive" /\ obj[File].shadow = None
    BY DEF Inv, TypePart, LinkPart
  <2>2. sh \in Object \cup {None} /\ sh # o /\ \A p \in Object : obj[p].ref_count \in Int
    BY <2>1, ObjectIs, ShadowNext, Constants
  <2>3. \A p \in Object : obj[p].panic \in BOOLEAN
    BY <2>1 DEF Objs, LooseObject
  <2> QED
    BY <2>1, <2>2, <2>3
<1>2. SetRefs(obj, s, o, -1)
  BY <1>1, RefDropped
<1>3. s \in Objs /\ s[o] \in LooseObject
  BY <1>2, ObjectIs DEF SetRefs
<1>4. obj' = IF sh = None THEN s1
             ELSE [s1 EXCEPT ![sh].copy = IF s1[sh].copy = o THEN None ELSE s1[sh].copy,
                             ![o].panic = s1[o].panic \/ obj[sh].copy \notin {None, o}]
  BY DEF Dereference
<1> HIDE DEF s
<1>5. /\ e \in LooseObject /\ e.state = "dying" /\ e.shadow = s[o].shadow /\ e.copy = s[o].copy
      /\ e.panic = s[o].panic /\ e.ref_count = s[o].ref_count /\ e.page = s[o].page
      /\ e.paging_in_progress = s[o].paging_in_progress
      /\ e.pager_created = s[o].pager_created
  <2>1. e \in LooseObject
    BY <1>3, RecordIs
  <2> QED
    BY <1>3, <2>1 DEF LooseObject
<1> HIDE DEF e
<1>6. s1 \in Objs /\ \A p \in Object : s1[p] = IF p = o THEN e ELSE s[p]
  BY <1>3, <1>5 DEF Objs
<1> HIDE DEF s1
<1>7. ASSUME NEW p \in Object
      PROVE  /\ s1[p].state = IF p = o THEN "dying" ELSE obj[p].state
             /\ s1[p].copy = obj[p].copy /\ s1[p].panic = obj[p].panic
             /\ s1[p].panic = FALSE
             /\ s1[p].shadow = obj[p].shadow
             /\ s1[p].ref_count = obj[p].ref_count - (IF p = o THEN 1 ELSE 0)
             /\ s1[p].paging_in_progress = obj[p].paging_in_progress
             /\ s1[p].page = obj[p].page
             /\ s1[p].pager_created = obj[p].pager_created
  <2>1. obj[p].panic = FALSE /\ obj[p].ref_count \in Int
    BY <1>1 DEF LinksOf
  <2> QED
    BY <1>2, <1>5, <1>6, <2>1 DEF SetRefs
<1>8. ASSUME NEW p \in Object, obj[p].copy # None
      PROVE  p = File /\ (obj[p].copy = o <=> sh = File)
  <2>1. p = File /\ obj[obj[p].copy].shadow = File
    BY <1>1, <1>8 DEF LinksOf
  <2>2. sh = File => obj[File].copy = o
    BY <1>1 DEF LinksOf
  <2> QED
    BY <2>1, <2>2
<1>9. CASE sh = None
  <2>1. obj' = s1
    BY <1>4, <1>9
  <2> QED
    BY <1>6, <1>7, <1>8, <1>9, <2>1, Constants
<1>10. CASE sh # None
  <2> DEFINE c == IF s1[sh].copy = o THEN None ELSE s1[sh].copy
             n == s1[o].panic \/ obj[sh].copy \notin {None, o}
             e1 == [s1[sh] EXCEPT !.copy = c]
             e2 == [s1[o] EXCEPT !.panic = n]
  <2>1. sh \in Object /\ s1[sh] \in LooseObject /\ s1[o] \in LooseObject
    BY <1>1, <1>6, <1>10, ObjectIs
  <2>2. c \in Object \cup {None} /\ n = FALSE
    <3>1. s1[sh].copy \in Object \cup {None}
      BY <1>6, <2>1, ObjectIs
    <3>2. obj[sh].copy \in {None, o}
      BY <1>8, <2>1
    <3> QED
      BY <1>7, <3>1, <3>2
  <2>3. obj' = [s1 EXCEPT ![sh] = e1, ![o] = e2]
    <3> DEFINE q == [s1 EXCEPT ![sh] = e1]
    <3>1. obj' = [s1 EXCEPT ![sh].copy = c, ![o].panic = n]
      BY <1>4, <1>10
    <3> HIDE DEF c, n, sh
    <3>2. obj' = [q EXCEPT ![o].panic = n]
      BY <3>1
    <3>3. q[o] = s1[o]
      BY <1>1, <1>6 DEF Objs
    <3> HIDE DEF q
    <3>4. [q EXCEPT ![o].panic = n] = [q EXCEPT ![o] = [q[o] EXCEPT !.panic = n]]
      OBVIOUS
    <3>5. obj' = [q EXCEPT ![o] = e2]
      BY <3>2, <3>3, <3>4
    <3> QED
      BY <3>5 DEF q
  <2> HIDE DEF c, n, sh
  <2>4. /\ e1 \in LooseObject /\ e1.copy = c /\ e1.state = s1[sh].state /\ e1.shadow = s1[sh].shadow
        /\ e1.panic = s1[sh].panic /\ e1.ref_count = s1[sh].ref_count /\ e1.page = s1[sh].page
        /\ e1.paging_in_progress = s1[sh].paging_in_progress
        /\ e1.pager_created = s1[sh].pager_created
    <3>1. e1 \in LooseObject
      BY <2>1, <2>2, RecordIs
    <3> QED
      BY <2>1, <3>1 DEF LooseObject
  <2>5. /\ e2 \in LooseObject /\ e2.copy = s1[o].copy /\ e2.state = s1[o].state
        /\ e2.shadow = s1[o].shadow
        /\ e2.panic = n /\ e2.ref_count = s1[o].ref_count /\ e2.page = s1[o].page
        /\ e2.paging_in_progress = s1[o].paging_in_progress
        /\ e2.pager_created = s1[o].pager_created
    <3>1. e2 \in LooseObject
      BY <2>1, <2>2, RecordIs
    <3> QED
      BY <2>1, <3>1 DEF LooseObject
  <2> HIDE DEF e1, e2
  <2>6. /\ obj' \in Objs
        /\ \A p \in Object : obj'[p] = IF p = o THEN e2 ELSE IF p = sh THEN e1 ELSE s1[p]
    BY <1>1, <1>6, <2>1, <2>3, <2>4, <2>5 DEF Objs
  <2>7. ASSUME NEW p \in Object
        PROVE  obj'[p].copy = IF obj[p].copy = o THEN None ELSE obj[p].copy
    <3>1. obj[p].copy = o => p = File /\ sh = File
      BY <1>8, Constants
    <3>2. CASE p = o
      BY <1>1, <1>7, <2>5, <2>6, <3>1, <3>2
    <3>3. CASE p = sh /\ p # o
      BY <1>7, <2>4, <2>6, <3>3 DEF c
    <3>4. CASE p # sh /\ p # o
      BY <1>7, <2>6, <3>1, <3>4
    <3> QED
      BY <3>2, <3>3, <3>4
  <2>8. ASSUME NEW p \in Object
        PROVE  /\ obj'[p].state = s1[p].state /\ obj'[p].panic = FALSE
               /\ obj'[p].shadow = s1[p].shadow /\ obj'[p].ref_count = s1[p].ref_count
               /\ obj'[p].paging_in_progress = s1[p].paging_in_progress
               /\ obj'[p].page = s1[p].page
               /\ obj'[p].pager_created = s1[p].pager_created
    <3>1. CASE p = o
      BY <2>2, <2>5, <2>6, <3>1
    <3>2. CASE p = sh /\ p # o
      BY <1>7, <2>4, <2>6, <3>2
    <3>3. CASE p # sh /\ p # o
      BY <1>7, <2>6, <3>3
    <3> QED
      BY <3>1, <3>2, <3>3
  <2>9. ASSUME NEW p \in Object
        PROVE  /\ obj'[p].state = IF p = o THEN "dying" ELSE obj[p].state
               /\ obj'[p].shadow = obj[p].shadow
               /\ obj'[p].ref_count = obj[p].ref_count - (IF p = o THEN 1 ELSE 0)
               /\ obj'[p].paging_in_progress = obj[p].paging_in_progress
               /\ obj'[p].page = obj[p].page
               /\ obj'[p].pager_created = obj[p].pager_created
    <3>1. /\ s1[p].state = IF p = o THEN "dying" ELSE obj[p].state
          /\ s1[p].shadow = obj[p].shadow
          /\ s1[p].ref_count = obj[p].ref_count - (IF p = o THEN 1 ELSE 0)
          /\ s1[p].paging_in_progress = obj[p].paging_in_progress
          /\ s1[p].page = obj[p].page
          /\ s1[p].pager_created = obj[p].pager_created
      BY <1>7
    <3> QED
      BY <2>8, <3>1
  <2> QED
    BY ONLY <2>6, <2>7, <2>8, <2>9
<1> QED
  BY <1>9, <1>10

\* vm_object_deallocate drops one reference, and the copy link to an object
\* it terminates.
LEMMA DereferenceIs ==
    ASSUME Inv, NEW o \in Object, obj[o].state = "alive", obj[o].ref_count > 0,
           o = File => obj[o].ref_count > 1, Dereference(o)
    PROVE  DroppedTo(obj, obj', o)
<1> DEFINE s == [obj EXCEPT ![o].ref_count = @ - 1]
<1>1. /\ obj \in Objs /\ \A p \in Object : LinksOf(obj, p)
      /\ obj[File].state = "alive" /\ obj[File].shadow = None
      /\ \A p \in Object : obj[p].ref_count \in Int
  BY ObjectIs DEF Inv, TypePart, LinkPart
<1>2. CASE obj[o].ref_count = 1
  <2>1. o # File
    BY <1>2
  <2>2. /\ obj' \in Objs
        /\ \A p \in Object :
                 /\ obj'[p].state = IF p = o THEN "dying" ELSE obj[p].state
                 /\ obj'[p].copy = IF obj[p].copy = o THEN None ELSE obj[p].copy
                 /\ obj'[p].panic = FALSE
                 /\ obj'[p].shadow = obj[p].shadow
                 /\ obj'[p].ref_count = obj[p].ref_count - (IF p = o THEN 1 ELSE 0)
                 /\ obj'[p].paging_in_progress = obj[p].paging_in_progress
                 /\ obj'[p].page = obj[p].page
                 /\ obj'[p].pager_created = obj[p].pager_created
    BY <1>2, <2>1, LastDropped
  <2>3. ASSUME NEW p \in Object PROVE LinksOf(obj', p)
    <3>1. LinksOf(obj, p)
      BY <1>1
    <3>2. obj[p].copy \in Object \cup {None}
      BY <1>1, ObjectIs
    <3>3. obj'[p].state # "alive" => obj'[p].ref_count = 0
      BY <1>2, <2>2, <3>1 DEF LinksOf
    <3>4. obj'[p].copy # None =>
             p = File /\ obj'[obj'[p].copy].state = "alive" /\ obj'[obj'[p].copy].shadow = File
      BY <2>2, <3>1, <3>2 DEF LinksOf
    <3>5. p # File /\ obj'[p].state = "alive" /\ obj'[p].shadow = File => obj'[File].copy = p
      BY <2>2, <3>1, Constants DEF LinksOf
    <3>6. obj'[p].state = "free" => obj'[p].shadow = None
      BY <2>2, <3>1 DEF LinksOf
    <3> QED
      BY <2>2, <3>3, <3>4, <3>5, <3>6 DEF LinksOf
  <2>4. obj'[File].state = "alive"
    BY <1>1, <2>1, <2>2, Constants
  <2> QED
    BY <2>2, <2>3, <2>4 DEF DroppedTo
<1>3. CASE obj[o].ref_count # 1
  <2>1. obj' = s
    BY <1>3 DEF Dereference
  <2>2. SetRefs(obj, s, o, -1)
    BY <1>1, RefDropped
  <2> HIDE DEF s
  <2>3. Kept(obj, obj')
    BY <1>1, <2>1, <2>2 DEF SetRefs, Kept, LinksOf
  <2>4. \A p \in Object : LinksOf(obj', p)
    BY <1>1, <2>3, LinksKept
  <2> QED
    BY <1>1, <2>1, <2>2, <2>4, Constants DEF DroppedTo, SetRefs
<1> QED
  BY <1>2, <1>3

\* File has one more reference than there are to it.
LEMMA FileKept ==
    ASSUME NEW s, NEW e, NEW f, NEW k, LinkPart(s, e, f, k), k \in [Object -> Nat]
    PROVE  /\ k[File] > 0 => s[File].ref_count > 1
           /\ \A t \in Map : Refers(f[t], File) > 0 => s[File].ref_count > 1
<1> DEFINE n1 == Tally(EntryOf(e), File)
           n2 == Tally(ShadowOf(s), File)
           n3 == FaultRefs(f, File)
<1>1. n1 \in Nat /\ n2 \in Nat
  <2>1. DOMAIN ShadowOf(s) = Object /\ DOMAIN EntryOf(e) = Map
    BY DEF ShadowOf, EntryOf
  <2> QED
    BY <2>1, Constants, TallyIs
<1>2. n3 \in Nat /\ k[File] \in Nat
  BY CountsAre, Constants
<1>3. s[File].ref_count = n1 + n2 + n3 + k[File] + 1
  BY Constants DEF LinkPart, Users
<1>4. ASSUME NEW t \in Map, Refers(f[t], File) > 0 PROVE n3 > 0
  <2>1. \A u \in Map : u # t => Roused(f[u], f[u])
    BY DEF Roused
  <2>2. n3 >= Refers(f[t], File) /\ Refers(f[t], File) \in Nat
    BY <2>1, TurnCounts, Constants
  <2> HIDE DEF n3
  <2> QED
    BY <1>2, <1>4, <2>2
<1> HIDE DEF n1, n2, n3
<1> QED
  BY <1>1, <1>2, <1>3, <1>4

\* A dropped reference brings no page.
LEMMA DroppedAbsent ==
    ASSUME Inv, NEW o \in Object, DroppedTo(obj, obj', o)
    PROVE  AbsentPart(obj')
  BY AbsentNext DEF DroppedTo

\* The fault drops the reference it held.
LEMMA FaultDoneStep == ASSUME Inv, NEW t \in Map, FaultDone(t) PROVE Inv'
<1> DEFINE a == fault[t]
           o == a.first
           b == fault'[t]
<1>1. /\ obj \in Objs /\ fault \in Faults /\ a \in FaultType /\ a.pc = "dealloc" /\ ShapeOf(a)
      /\ o \in Object /\ o # None /\ a.object = None /\ a.page = None
  <2>1. a.pc = "dealloc" /\ obj \in Objs /\ fault \in Faults /\ ShapeOf(a)
    BY DEF FaultDone, Inv, TypePart
  <2> QED
    BY <2>1, FaultIs DEF ShapeOf
<1>2. /\ drops \in [Object -> Nat] /\ entry' = entry /\ daemon' = daemon /\ drops' = drops
      /\ LinkPart(obj, entry, fault, drops)
  BY DEF Inv, TypePart, FaultDone
<1>3. obj[o].state = "alive" /\ obj[o].ref_count > 0
  BY <1>1, <1>2, AliveIs
<1>4. o = File => obj[o].ref_count > 1
  <2>1. Refers(a, o) > 0
    BY DEF Refers
  <2> QED
    BY <1>2, <2>1, FileKept
<1>5. DroppedTo(obj, obj', o)
  <2>1. Dereference(o)
    BY DEF FaultDone
  <2> QED
    BY <1>1, <1>3, <1>4, <2>1, DereferenceIs
<1>6. Idle \in FaultType
  BY Constants DEF Idle, FaultType
<1>7. /\ Turned(fault, fault', t) /\ b = Idle
      /\ \A u \in Map : u # t => fault'[u] = fault[u]
  <2>1. \A u \in Map : Roused(fault[u], fault[u])
    BY RousedSelf
  <2>2. /\ Turned(fault, [fault EXCEPT ![t] = Idle], t)
        /\ [fault EXCEPT ![t] = Idle][t] = Idle
        /\ \A u \in Map : u # t => [fault EXCEPT ![t] = Idle][u] = fault[u]
    BY <1>1, <1>6, <2>1, TurnIs
  <2>3. fault' = [fault EXCEPT ![t] = Idle]
    BY DEF FaultDone
  <2> QED
    BY <2>2, <2>3
<1>8. /\ Idle.pc = "idle" /\ Idle.first = None /\ Idle.object = None /\ Idle.page = None
      /\ ShapeOf(Idle)
  BY DEF Idle, ShapeOf
<1>9. RankPart(obj', fault')
  <2>1. RankPart(obj, fault)
    BY DEF Inv
  <2>2. \A p \in Object : obj'[p].shadow \in {None, obj[p].shadow}
    BY <1>5 DEF DroppedTo
  <2>3. \A u \in Map : \/ fault'[u].object \in {None, fault'[u].first}
                       \/ fault'[u].object = fault[u].object /\ fault'[u].first = fault[u].first
    BY <1>7, <1>8 DEF Turned, Roused
  <2> QED
    BY <2>1, <2>2, <2>3, RankSame
<1>10. TurnRefs(t)
  <2> SUFFICES ASSUME NEW p \in Object
               PROVE  /\ LinksOf(obj', p) /\ ShadowOf(obj')[p] = ShadowOf(obj)[p]
                      /\ obj'[p].ref_count = obj[p].ref_count
                           - Refers(a, p) + Refers(b, p) - drops[p] + drops'[p]
                      /\ obj'[p].paging_in_progress = obj[p].paging_in_progress - Uses(a, p) + Uses(b, p)
                      /\ obj'[p].state = "free" => obj[p].state = "free" /\ Uses(b, p) = 0
    BY DEF TurnRefs
  <2>1. LinksOf(obj', p) /\ ShadowOf(obj')[p] = ShadowOf(obj)[p]
    BY <1>5 DEF DroppedTo, ShadowOf
  <2>2. /\ Refers(a, p) = (IF p = o THEN 1 ELSE 0) /\ Refers(b, p) = 0
        /\ Uses(a, p) = 0 /\ Uses(b, p) = 0
    BY <1>1, <1>7, <1>8, Constants DEF Refers, Uses
  <2>3. /\ drops[p] \in Nat
        /\ obj[p].paging_in_progress \in Int /\ obj[p].ref_count \in Int
    BY <1>1, <1>2, ObjectIs
  <2> QED
    BY <1>2, <1>5, <2>1, <2>2, <2>3 DEF DroppedTo
<1>11. TurnAll(t)
  <2> SUFFICES ASSUME NEW p \in Object, NEW y \in Page
               PROVE  /\ TurnPage(a, b, obj[p].page[y], obj'[p].page[y], p, y)
                      /\ Busy(obj[p].page[y]) => Busy(obj'[p].page[y])
    BY DEF TurnAll
  <2>1. obj'[p].page[y] = obj[p].page[y]
    BY <1>5 DEF DroppedTo
  <2>2. ~Owns(a, p, y) /\ ~Owns(b, p, y) /\ ~Waits(b, p, y)
    BY <1>1, <1>7, <1>8, Constants DEF Owns, Waits
  <2> QED
    BY <2>1, <2>2 DEF TurnPage
<1>12. obj' \in Objs /\ obj'[File].state = "alive" /\ obj'[File].shadow = None
  BY <1>2, <1>5, Constants DEF LinkPart, DroppedTo
<1>13. AbsentPart(obj')
  BY <1>1, <1>5, DroppedAbsent
<1> QED
  BY <1>2, <1>7, <1>8, <1>9, <1>10, <1>11, <1>12, <1>13, TurnStep

\* A reference on its way out is dropped.
LEMMA DeallocateStep == ASSUME Inv, NEW o \in Object, Deallocate(o) PROVE Inv'
<1>1. /\ obj \in Objs /\ fault \in Faults /\ drops \in [Object -> Nat]
      /\ entry \in [Map -> EntryType]
      /\ entry' = entry /\ daemon' = daemon /\ fault' = fault
      /\ drops' = [drops EXCEPT ![o] = @ - 1] /\ drops[o] > 0
      /\ LinkPart(obj, entry, fault, drops)
  BY DEF Inv, TypePart, Deallocate
<1>2. obj[o].state = "alive" /\ obj[o].ref_count > 0
  BY <1>1, AliveIs
<1>3. o = File => obj[o].ref_count > 1
  BY <1>1, FileKept
<1>4. DroppedTo(obj, obj', o)
  BY <1>2, <1>3, DereferenceIs DEF Deallocate
<1>5. drops' \in [Object -> Nat] /\ \A p \in Object : drops'[p] = drops[p] - (IF p = o THEN 1 ELSE 0)
  <2>1. \A p \in Object : drops[p] \in Nat
    BY <1>1
  <2>2. drops[o] - 1 \in Nat
    BY <1>1, <2>1
  <2> QED
    BY <1>1, <2>1, <2>2
<1>6. RankPart(obj', fault')
  <2>1. RankPart(obj, fault)
    BY DEF Inv
  <2>2. \A p \in Object : obj'[p].shadow \in {None, obj[p].shadow}
    BY <1>4 DEF DroppedTo
  <2> QED
    BY <1>1, <2>1, <2>2, RankSame
<1>7. EnvRefs
  <2> SUFFICES ASSUME NEW p \in Object
               PROVE  /\ LinksOf(obj', p)
                      /\ obj'[p].ref_count = obj[p].ref_count
                            - Tally(EntryOf(entry), p) + Tally(EntryOf(entry'), p)
                            - Tally(ShadowOf(obj), p) + Tally(ShadowOf(obj'), p)
                            - drops[p] + drops'[p]
                      /\ obj'[p].paging_in_progress = obj[p].paging_in_progress
                      /\ obj'[p].state = "free" => obj[p].paging_in_progress = 0
    BY DEF EnvRefs
  <2>1. Tally(ShadowOf(obj'), p) = Tally(ShadowOf(obj), p)
    <3>1. \A r \in Object : ShadowOf(obj')[r] = ShadowOf(obj)[r]
      BY <1>4 DEF DroppedTo, ShadowOf
    <3> QED
      BY <3>1, ShadowSame
  <2>2. Tally(EntryOf(entry), p) \in Nat /\ Tally(ShadowOf(obj), p) \in Nat
    <3>1. DOMAIN ShadowOf(obj) = Object /\ DOMAIN EntryOf(entry) = Map
      BY DEF ShadowOf, EntryOf
    <3> QED
      BY <3>1, Constants, TallyIs
  <2>3. /\ drops[p] \in Nat
        /\ obj[p].paging_in_progress \in Int /\ obj[p].ref_count \in Int
    BY <1>1, ObjectIs
  <2>4. obj[p].state = "free" => obj[p].paging_in_progress = 0
    BY DEF Inv, PagingPart
  <2>5. /\ LinksOf(obj', p)
        /\ obj'[p].ref_count = obj[p].ref_count - (IF p = o THEN 1 ELSE 0)
        /\ obj'[p].paging_in_progress = obj[p].paging_in_progress
        /\ obj'[p].state = "free" <=> obj[p].state = "free"
    BY <1>4 DEF DroppedTo
  <2>6. drops'[p] = drops[p] - (IF p = o THEN 1 ELSE 0)
    BY <1>5
  <2>7. Tally(EntryOf(entry'), p) = Tally(EntryOf(entry), p)
    BY <1>1
  <2> DEFINE n1 == Tally(EntryOf(entry), p)
             n2 == Tally(ShadowOf(obj), p)
             n3 == Tally(EntryOf(entry'), p)
             n4 == Tally(ShadowOf(obj'), p)
  <2>8. n1 \in Nat /\ n2 \in Nat /\ n3 = n1 /\ n4 = n2
    BY <2>1, <2>2, <2>7
  <2> HIDE DEF n1, n2, n3, n4
  <2>9. obj'[p].ref_count = obj[p].ref_count - n1 + n3 - n2 + n4 - drops[p] + drops'[p]
    BY <2>3, <2>5, <2>6, <2>8
  <2> QED
    BY <2>4, <2>5, <2>9 DEF n1, n2, n3, n4
<1>8. EnvAll
  BY <1>4 DEF EnvAll, DroppedTo
<1>9. obj' \in Objs /\ obj'[File].state = "alive" /\ obj'[File].shadow = None
  BY <1>1, <1>4, Constants DEF LinkPart, DroppedTo
<1>10. \A u \in Map : Roused(fault[u], fault'[u])
  BY <1>1, RousedSelf
<1>11. AbsentPart(obj')
  BY <1>4, DroppedAbsent
<1> QED
  BY <1>1, <1>5, <1>6, <1>7, <1>8, <1>9, <1>10, <1>11, EnvStep

\* An object that is not being paged: nobody has a page of it or waits for one.
LEMMA Unpaged ==
    ASSUME Inv, NEW o \in Object, obj[o].paging_in_progress = 0, NEW x \in Page
    PROVE  ~Held(obj[o].page[x]) /\ \A t \in Map : ~Waits(fault[t], o, x) /\ ~Owns(fault[t], o, x)
<1>1. PagingPart(obj, fault, daemon)
  BY DEF Inv
<1>2. daemon.object # o /\ \A t \in Map : ~(Uses(fault[t], o) > 0)
  BY <1>1, UsedIs
<1>3. ASSUME NEW t \in Map PROVE ~Waits(fault[t], o, x) /\ ~Owns(fault[t], o, x)
  <2>1. ShapeOf(fault[t])
    BY DEF Inv, TypePart
  <2>2. ~(Uses(fault[t], o) > 0)
    BY <1>2
  <2>3. /\ fault[t].object # o
        /\ ~(fault[t].first = o /\ fault[t].object # None)
        /\ ~(fault[t].pc = "pushing" /\ fault[t].old_copy = o)
    BY <2>2, UsesIs
  <2> QED
    BY <2>1, <2>3, Constants DEF Waits, Owns, ShapeOf
<1>4. ~Held(obj[o].page[x])
  BY <1>2, <1>3 DEF Inv, PagesPart, Writes
<1> QED
  BY <1>3, <1>4

\* A free object and a new one.
LEMMA FreeIs ==
    /\ FreeObject \in LooseObject /\ FreeObject.state = "free" /\ FreeObject.ref_count = 0
    /\ FreeObject.paging_in_progress = 0 /\ FreeObject.shadow = None /\ FreeObject.copy = None
    /\ FreeObject.panic = FALSE /\ \A x \in Page : FreeObject.page[x] = None
    /\ NewObject \in LooseObject /\ NewObject.state = "alive" /\ NewObject.ref_count = 1
    /\ NewObject.paging_in_progress = 0 /\ NewObject.shadow = None /\ NewObject.copy = None
    /\ NewObject.panic = FALSE /\ \A x \in Page : NewObject.page[x] = None
<1>1. /\ NewObject \in LooseObject /\ NewObject.state = "alive" /\ NewObject.ref_count = 1
      /\ NewObject.paging_in_progress = 0 /\ NewObject.shadow = None /\ NewObject.copy = None
      /\ NewObject.panic = FALSE /\ \A x \in Page : NewObject.page[x] = None
  BY DEF NewObject, LooseObject
<1>2. /\ FreeObject.state = "free" /\ FreeObject.ref_count = 0
      /\ FreeObject.paging_in_progress = 0 /\ FreeObject.shadow = None /\ FreeObject.copy = None
      /\ FreeObject.panic = FALSE /\ \A x \in Page : FreeObject.page[x] = None
  BY DEF FreeObject, NewObject
<1>3. FreeObject \in LooseObject
  BY <1>1, Zenon DEF FreeObject, LooseObject
<1> QED
  BY <1>1, <1>2, <1>3

\* An object nobody pages in is freed; its shadow has a reference to drop.
LEMMA TerminateStep == ASSUME Inv, NEW o \in Object, Terminate(o) PROVE Inv'
<1> DEFINE sh == obj[o].shadow
           bad == \E x \in Page : /\ obj[o].page[x] # None
                                  /\ obj[o].page[x].busy /\ ~obj[o].page[x].absent
           dang == \E x \in Page : Mapped(obj[o].page[x])
           pn == obj[o].panic \/ bad
           e == [FreeObject EXCEPT !.panic = pn, !.dangling = dang]
<1>1. /\ obj \in Objs /\ fault \in Faults /\ drops \in [Object -> Nat]
      /\ entry \in [Map -> EntryType]
      /\ entry' = entry /\ daemon' = daemon /\ fault' = fault
      /\ LinkPart(obj, entry, fault, drops)
      /\ \A p \in Object : LinksOf(obj, p)
      /\ obj[File].state = "alive" /\ obj[File].shadow = None
      /\ sh \in Object \cup {None}
      /\ obj[o].state = "dying" /\ obj[o].paging_in_progress = 0
  BY ObjectIs DEF Inv, TypePart, Terminate, LinkPart
<1>2. pn = FALSE /\ dang \in BOOLEAN
  <2>1. ~bad
    BY <1>1, Unpaged DEF Held
  <2>2. obj[o].panic \in BOOLEAN /\ ~obj[o].panic
    BY <1>1 DEF LinksOf, Objs, LooseObject
  <2> QED
    BY <2>1, <2>2
<1>3. obj' = [obj EXCEPT ![o] = e]
  BY DEF Terminate
<1> HIDE DEF pn, dang
<1>4. /\ e \in LooseObject /\ e.state = "free" /\ e.ref_count = 0 /\ e.paging_in_progress = 0
      /\ e.shadow = None /\ e.copy = None /\ ~e.panic /\ e.page = FreeObject.page
  <2>1. e \in LooseObject
    BY <1>2, FreeIs, Zenon DEF LooseObject
  <2> QED
    BY <1>2, <2>1, FreeIs DEF LooseObject
<1> HIDE DEF e
<1>5. obj' \in Objs /\ \A p \in Object : obj'[p] = IF p = o THEN e ELSE obj[p]
  BY <1>1, <1>3, <1>4 DEF Objs
<1>6. /\ drops' \in [Object -> Nat]
      /\ \A p \in Object : drops'[p] = drops[p] + (IF p = sh THEN 1 ELSE 0)
  <2>1. drops' = IF sh = None THEN drops ELSE [drops EXCEPT ![sh] = @ + 1]
    BY DEF Terminate
  <2> HIDE DEF sh
  <2>2. CASE sh = None
    BY <1>1, <2>1, <2>2, Constants
  <2>3. CASE sh # None
    <3>1. sh \in Object /\ drops[sh] \in Nat
      BY <1>1, <2>3
    <3> QED
      BY <1>1, <2>1, <2>3, <3>1
  <2> QED
    BY <2>2, <2>3
<1>7. RankPart(obj', fault')
  <2>1. RankPart(obj, fault)
    BY DEF Inv
  <2>2. \A p \in Object : obj'[p].shadow \in {None, obj[p].shadow}
    BY <1>4, <1>5
  <2> QED
    BY <1>1, <2>1, <2>2, RankSame
<1>8. EnvRefs
  <2> SUFFICES ASSUME NEW p \in Object
               PROVE  /\ LinksOf(obj', p)
                      /\ obj'[p].ref_count = obj[p].ref_count
                            - Tally(EntryOf(entry), p) + Tally(EntryOf(entry'), p)
                            - Tally(ShadowOf(obj), p) + Tally(ShadowOf(obj'), p)
                            - drops[p] + drops'[p]
                      /\ obj'[p].paging_in_progress = obj[p].paging_in_progress
                      /\ obj'[p].state = "free" => obj[p].paging_in_progress = 0
    BY DEF EnvRefs
  <2> DEFINE n1 == Tally(EntryOf(entry), p)
             n2 == Tally(ShadowOf(obj), p)
             n3 == Tally(EntryOf(entry'), p)
             n4 == Tally(ShadowOf(obj'), p)
  <2>1. n4 = n2 - (IF sh = p THEN 1 ELSE 0) /\ n2 \in Nat
    <3>1. ShadowOf(obj)[o] = sh /\ ShadowOf(obj')[o] = None
      BY <1>1, <1>4, <1>5 DEF ShadowOf
    <3>2. Near(ShadowOf(obj'), ShadowOf(obj), Object, o)
      BY <1>5 DEF ShadowOf, Near
    <3>3. /\ n4 = n2 - (IF ShadowOf(obj)[o] = p THEN 1 ELSE 0)
                     + (IF ShadowOf(obj')[o] = p THEN 1 ELSE 0)
          /\ n2 \in Nat
      <4> HIDE DEF sh, bad
      <4> QED
        BY <3>2, ShadowCounts
    <3> HIDE DEF n2, n4, sh
    <3> QED
      BY <3>1, <3>3, Constants
  <2>2. n1 \in Nat /\ n3 = n1
    <3>1. DOMAIN EntryOf(entry) = Map
      BY DEF EntryOf
    <3> QED
      BY <1>1, <3>1, Constants, TallyIs
  <2> HIDE DEF n1, n2, n3, n4
  <2>3. /\ drops[p] \in Nat
        /\ obj[p].paging_in_progress \in Int /\ obj[p].ref_count \in Int
    BY <1>1, ObjectIs
  <2>4. obj[p].state = "free" => obj[p].paging_in_progress = 0
    BY DEF Inv, PagingPart
  <2>5. /\ obj'[p].ref_count = obj[p].ref_count
        /\ obj'[p].paging_in_progress = obj[p].paging_in_progress
    BY <1>1, <1>4, <1>5 DEF LinksOf
  <2>6. drops'[p] = drops[p] + (IF p = sh THEN 1 ELSE 0)
    BY <1>6
  <2>7. obj'[p].ref_count = obj[p].ref_count - n1 + n3 - n2 + n4 - drops[p] + drops'[p]
    <3> HIDE DEF sh
    <3> QED
      BY <2>1, <2>2, <2>3, <2>5, <2>6
  <2>8. LinksOf(obj', p)
    <3>1. CASE p = o
      BY <1>4, <1>5, <3>1, Constants DEF LinksOf
    <3>2. CASE p # o
      <4>1. LinksOf(obj, p) /\ obj'[p] = obj[p] /\ obj[p].copy \in Object \cup {None}
        BY <1>1, <1>5, <3>2, ObjectIs
      <4>2. obj'[File] = obj[File]
        BY <1>1, <1>5, Constants
      <4>3. obj[p].copy # None => obj'[obj[p].copy] = obj[obj[p].copy]
        BY <1>1, <1>5, <4>1 DEF LinksOf
      <4> QED
        BY <4>1, <4>2, <4>3 DEF LinksOf
    <3> QED
      BY <3>1, <3>2
  <2> QED
    BY <1>1, <1>5, <2>4, <2>5, <2>7, <2>8 DEF n1, n2, n3, n4
<1>9. EnvAll
  <2> SUFFICES ASSUME NEW p \in Object, NEW x \in Page
               PROVE  /\ Held(obj'[p].page[x]) <=> Held(obj[p].page[x])
                      /\ Busy(obj[p].page[x]) /\ ~Busy(obj'[p].page[x]) =>
                            \A u \in Map : ~Waits(fault'[u], p, x)
    BY DEF EnvAll
  <2>1. CASE p = o
    <3>1. obj'[p].page[x] = None
      BY <1>4, <1>5, <2>1, FreeIs
    <3>2. ~Held(None)
      BY DEF Held
    <3> QED
      BY <1>1, <2>1, <3>1, <3>2, Unpaged
  <2>2. CASE p # o
    BY <1>5, <2>2
  <2> QED
    BY <2>1, <2>2
<1>10. obj'[File].state = "alive" /\ obj'[File].shadow = None
  BY <1>1, <1>5, Constants
<1>11. \A u \in Map : Roused(fault[u], fault'[u])
  BY <1>1, RousedSelf
<1>12. AbsentPart(obj')
  <2>1. \A x \in Page : ~Absent(e.page[x])
    BY <1>4, FreeIs DEF Absent
  <2>2. AbsentPart(obj)
    BY DEF Inv
  <2> QED
    BY <1>5, <2>1, <2>2 DEF AbsentPart
<1> QED
  BY <1>1, <1>5, <1>6, <1>7, <1>8, <1>9, <1>10, <1>11, <1>12, EnvStep

\* A step of a map or a pager that leaves the chains of objects as they are.
EntryRefs ==
    \A o \in Object :
        obj'[o].ref_count = obj[o].ref_count
            - Tally(EntryOf(entry), o) + Tally(EntryOf(entry'), o) - drops[o] + drops'[o]

\* A step on map entries keeps the invariant when it balances references
\* against entries.
LEMMA MapStep ==
    ASSUME Inv, obj' \in Objs, Kept(obj, obj'), EntryRefs, EnvAll,
           \A p \in Object : obj'[p].paging_in_progress = obj[p].paging_in_progress,
           fault' \in Faults, \A u \in Map : Roused(fault[u], fault'[u]),
           drops' \in [Object -> Nat], entry' \in [Map -> EntryType], daemon' = daemon,
           AbsentPart(obj')
    PROVE  Inv'
<1>1. /\ obj \in Objs /\ \A p \in Object : LinksOf(obj, p)
      /\ obj[File].state = "alive" /\ obj[File].shadow = None
      /\ drops \in [Object -> Nat]
  BY DEF Inv, TypePart, LinkPart
<1>2. \A p \in Object : LinksOf(obj', p) /\ ShadowOf(obj')[p] = ShadowOf(obj)[p]
  BY <1>1, LinksKept
<1>3. RankPart(obj', fault')
  <2>1. RankPart(obj, fault)
    BY DEF Inv
  <2>2. \A p \in Object : obj'[p].shadow \in {None, obj[p].shadow}
    BY DEF Kept
  <2>3. \A u \in Map : fault'[u].object = fault[u].object /\ fault'[u].first = fault[u].first
    BY DEF Roused
  <2> QED
    BY <2>1, <2>2, <2>3, RankSame
<1>4. EnvRefs
  <2> SUFFICES ASSUME NEW p \in Object
               PROVE  /\ LinksOf(obj', p)
                      /\ obj'[p].ref_count = obj[p].ref_count
                            - Tally(EntryOf(entry), p) + Tally(EntryOf(entry'), p)
                            - Tally(ShadowOf(obj), p) + Tally(ShadowOf(obj'), p)
                            - drops[p] + drops'[p]
                      /\ obj'[p].paging_in_progress = obj[p].paging_in_progress
                      /\ obj'[p].state = "free" => obj[p].paging_in_progress = 0
    BY DEF EnvRefs
  <2> DEFINE n1 == Tally(EntryOf(entry), p)
             n2 == Tally(ShadowOf(obj), p)
             n3 == Tally(EntryOf(entry'), p)
             n4 == Tally(ShadowOf(obj'), p)
  <2>1. n4 = n2
    BY <1>2, ShadowSame
  <2>2. n1 \in Nat /\ n3 \in Nat /\ n2 \in Nat
    <3>1. DOMAIN EntryOf(entry) = Map /\ DOMAIN EntryOf(entry') = Map /\ DOMAIN ShadowOf(obj) = Object
      BY DEF EntryOf, ShadowOf
    <3> QED
      BY <3>1, Constants, TallyIs
  <2>3. obj'[p].ref_count = obj[p].ref_count - n1 + n3 - drops[p] + drops'[p]
    BY DEF EntryRefs
  <2>4. obj[p].state = "free" => obj[p].paging_in_progress = 0
    BY DEF Inv, PagingPart
  <2>5. obj'[p].state = obj[p].state
    BY DEF Kept
  <2>6. drops[p] \in Nat /\ drops'[p] \in Nat /\ obj[p].ref_count \in Int
    BY <1>1, ObjectIs
  <2> HIDE DEF n1, n2, n3, n4
  <2>7. obj'[p].ref_count = obj[p].ref_count - n1 + n3 - n2 + n4 - drops[p] + drops'[p]
    BY <2>1, <2>2, <2>3, <2>6
  <2> QED
    BY <1>2, <2>4, <2>5, <2>7 DEF n1, n2, n3, n4
<1>5. obj'[File].state = "alive" /\ obj'[File].shadow = None
  BY <1>1, Constants DEF Kept
<1> QED
  BY <1>3, <1>4, <1>5, EnvStep

\* Only pages change.
LEMMA PagesStep ==
    ASSUME Inv, obj' \in Objs, EnvAll,
           \A p \in Object : /\ Linked(obj[p], obj'[p])
                             /\ obj'[p].paging_in_progress = obj[p].paging_in_progress,
           fault' \in Faults, \A u \in Map : Roused(fault[u], fault'[u]),
           drops' = drops, entry' = entry, daemon' = daemon,
           AbsentPart(obj')
    PROVE  Inv'
<1>1. /\ obj \in Objs /\ \A p \in Object : LinksOf(obj, p)
      /\ drops \in [Object -> Nat] /\ entry \in [Map -> EntryType]
  BY DEF Inv, TypePart, LinkPart
<1>2. Kept(obj, obj')
  BY <1>1 DEF Kept, Linked, LinksOf
<1>3. EntryRefs
  <2> SUFFICES ASSUME NEW o \in Object
               PROVE  obj'[o].ref_count = obj[o].ref_count
                         - Tally(EntryOf(entry), o) + Tally(EntryOf(entry'), o)
                         - drops[o] + drops'[o]
    BY DEF EntryRefs
  <2> DEFINE n == Tally(EntryOf(entry), o)
  <2>1. n \in Nat
    <3>1. DOMAIN EntryOf(entry) = Map
      BY DEF EntryOf
    <3> QED
      BY <3>1, Constants, TallyIs
  <2>2. Tally(EntryOf(entry'), o) = n
    OBVIOUS
  <2>3. obj'[o].ref_count = obj[o].ref_count /\ obj[o].ref_count \in Int /\ drops[o] \in Nat
    BY <1>1, ObjectIs DEF Linked
  <2> HIDE DEF n
  <2>4. obj'[o].ref_count = obj[o].ref_count - n + n - drops[o] + drops[o]
    BY <2>1, <2>3
  <2> QED
    BY <2>2, <2>4 DEF n
<1> QED
  BY <1>1, <1>2, <1>3, MapStep

\* The pager provides the page it was asked for, which is busy no more.
LEMMA PagerAnswersStep ==
    ASSUME Inv, NEW o \in Object, NEW x \in Page, PagerAnswers(o, x)
    PROVE  Inv'
<1> DEFINE pg == obj[o].page[x]
           v == obj[o].pager[x]
           w == IF v = None THEN [pg EXCEPT !.busy = FALSE] ELSE Resident(v, FALSE, FALSE)
           f == Wakeup(fault, o, x, "woken")
<1>1. /\ obj \in Objs /\ fault \in Faults /\ pg \in PageType /\ v \in Value \cup {None}
      /\ pg.busy /\ pg.absent
  <2>1. obj \in Objs /\ fault \in Faults
    BY DEF Inv, TypePart
  <2>2. v \in Value \cup {None} /\ pg \in PageType \cup {None}
    BY <2>1 DEF Objs, LooseObject
  <2> QED
    BY <2>1, <2>2 DEF PagerAnswers
<1>2. w \in PageType /\ ~Busy(w) /\ ~Held(w)
  <2>1. CASE v = None
    <3>1. [pg EXCEPT !.busy = FALSE] \in PageType /\ ~[pg EXCEPT !.busy = FALSE].busy
      <4> HIDE DEF pg
      <4> QED
        BY <1>1 DEF PageType
    <3> QED
      BY <2>1, <3>1 DEF Busy, Held
  <2>2. CASE v # None
    BY <1>1, <2>2, NewPages
  <2> QED
    BY <2>1, <2>2
<1>3. /\ obj' = [obj EXCEPT ![o].page[x] = w] /\ fault' = f
      /\ entry' = entry /\ daemon' = daemon /\ drops' = drops
  BY DEF PagerAnswers, Wake
<1> HIDE DEF w
<1>4. SetPage(obj, obj', o, x, w)
  BY <1>1, <1>2, <1>3, PageSet
<1>5. f \in Faults /\ \A u \in Map : Roused(fault[u], f[u]) /\ ~Waits(f[u], o, x)
  BY <1>1, WakeupIs
<1> HIDE DEF f
<1>6. ~Held(pg)
  BY <1>1 DEF Held
<1>7. EnvAll
  <2> SUFFICES ASSUME NEW p \in Object, NEW y \in Page
               PROVE  /\ Held(obj'[p].page[y]) <=> Held(obj[p].page[y])
                      /\ Busy(obj[p].page[y]) /\ ~Busy(obj'[p].page[y]) =>
                            \A u \in Map : ~Waits(fault'[u], p, y)
    BY DEF EnvAll
  <2>1. obj'[p].page[y] = IF p = o /\ y = x THEN w ELSE obj[p].page[y]
    BY <1>4 DEF SetPage
  <2> QED
    BY <1>2, <1>3, <1>5, <1>6, <2>1
<1>8. AbsentPart(obj')
  <2>1. \A p \in Object : Linked(obj[p], obj'[p])
    BY <1>4 DEF SetPage
  <2>2. \A p \in Object, y \in Page : obj'[p].page[y] = IF p = o /\ y = x THEN w ELSE obj[p].page[y]
    BY <1>4 DEF SetPage
  <2>3. Absent(pg)
    BY <1>1, Constants DEF Absent
  <2> QED
    BY <2>1, <2>2, <2>3, AbsentNext DEF Linked
<1> QED
  BY <1>3, <1>4, <1>5, <1>7, <1>8, PagesStep DEF SetPage

\* A page nobody holds is freed.
LEMMA ReclaimStep ==
    ASSUME Inv, NEW o \in Object, NEW x \in Page, Reclaim(o, x)
    PROVE  Inv'
<1>1. obj \in Objs /\ fault \in Faults
  BY DEF Inv, TypePart
<1>2. /\ obj' = [obj EXCEPT ![o].page[x] = None] /\ fault' = fault
      /\ entry' = entry /\ daemon' = daemon /\ drops' = drops
      /\ ~obj[o].page[x].busy
  BY DEF Reclaim, Inactive
<1>3. SetPage(obj, obj', o, x, None)
  BY <1>1, <1>2, PageSet
<1>4. EnvAll
  <2> SUFFICES ASSUME NEW p \in Object, NEW y \in Page
               PROVE  /\ Held(obj'[p].page[y]) <=> Held(obj[p].page[y])
                      /\ Busy(obj[p].page[y]) => Busy(obj'[p].page[y])
    BY DEF EnvAll
  <2>1. obj'[p].page[y] = IF p = o /\ y = x THEN None ELSE obj[p].page[y]
    BY <1>3 DEF SetPage
  <2> QED
    BY <1>2, <2>1 DEF Busy, Held
<1>5. AbsentPart(obj')
  <2>1. \A p \in Object : Linked(obj[p], obj'[p])
    BY <1>3 DEF SetPage
  <2>2. \A p \in Object, y \in Page : obj'[p].page[y] = IF p = o /\ y = x THEN None ELSE obj[p].page[y]
    BY <1>3 DEF SetPage
  <2>3. ~Absent(None)
    BY DEF Absent
  <2> QED
    BY <2>1, <2>2, <2>3, AbsentNext DEF Linked
<1> QED
  BY <1>1, <1>2, <1>3, <1>4, <1>5, RousedSelf, PagesStep DEF SetPage

\* Only pages change, to those of h.
LEMMA AllRepaged ==
    ASSUME NEW s \in Objs, NEW h \in [Object -> [Page -> PageType \cup {None}]]
    PROVE  LET q == [p \in Object |-> [s[p] EXCEPT !.page = h[p]]] IN
           /\ q \in Objs
           /\ \A p \in Object : /\ Linked(s[p], q[p]) /\ q[p].page = h[p]
                                /\ q[p].paging_in_progress = s[p].paging_in_progress
<1> DEFINE e(p) == [s[p] EXCEPT !.page = h[p]]
<1>1. ASSUME NEW p \in Object
      PROVE  /\ e(p) \in LooseObject /\ Linked(s[p], e(p)) /\ e(p).page = h[p]
             /\ e(p).paging_in_progress = s[p].paging_in_progress
  <2>1. s[p] \in LooseObject /\ h[p] \in [Page -> PageType \cup {None}]
    BY ObjectIs
  <2> QED
    BY <2>1, Repaged
<1> HIDE DEF e
<1>2. [p \in Object |-> e(p)] \in Objs
  BY <1>1 DEF Objs
<1> QED
  BY <1>1, <1>2 DEF e

\* A write through a pmap changes no link, count or owner.
LEMMA UserWriteStep ==
    ASSUME Inv, NEW m \in Map, NEW x \in Page, NEW v \in Value, UserWrite(m, x, v)
    PROVE  Inv'
<1> DEFINE k(p) == [obj[p].page[x] EXCEPT !.val = v, !.dirty = TRUE]
           c(p) == obj[p].page[x] # None /\ obj[p].page[x].pmap[m] = "write"
           g(p) == IF c(p) THEN [obj[p].page EXCEPT ![x] = k(p)] ELSE obj[p].page
           h == [p \in Object |-> g(p)]
<1>1. /\ obj \in Objs /\ fault \in Faults
      /\ fault' = fault /\ entry' = entry /\ daemon' = daemon /\ drops' = drops
  BY DEF Inv, TypePart, UserWrite
<1>2. ASSUME NEW p \in Object
      PROVE  (IF c(p) THEN [obj[p] EXCEPT !.page[x].val = v, !.page[x].dirty = TRUE] ELSE obj[p])
                             = [obj[p] EXCEPT !.page = g(p)]
  <2> DEFINE r == obj[p]
             e == [r EXCEPT !.page[x].val = v]
  <2>1. r \in LooseObject /\ r.page \in [Page -> PageType \cup {None}]
    BY <1>1, ObjectIs
  <2>2. CASE c(p)
    <3>1. e.page = [r.page EXCEPT ![x] = [r.page[x] EXCEPT !.val = v]]
      BY <2>1 DEF LooseObject
    <3>2. e.page[x] = [r.page[x] EXCEPT !.val = v]
      <4> HIDE DEF r, e
      <4> QED
        BY <2>1, <3>1
    <3>3. [r EXCEPT !.page[x].val = v, !.page[x].dirty = TRUE]
              = [e EXCEPT !.page = [e.page EXCEPT ![x] = [e.page[x] EXCEPT !.dirty = TRUE]]]
      <4> HIDE DEF r
      <4> QED
        OBVIOUS
    <3>4. [e.page EXCEPT ![x] = [e.page[x] EXCEPT !.dirty = TRUE]] = [r.page EXCEPT ![x] = k(p)]
      <4> HIDE DEF e
      <4> QED
        BY <2>1, <3>1, <3>2
    <3> HIDE DEF k
    <3>5. [e EXCEPT !.page = [r.page EXCEPT ![x] = k(p)]] = [r EXCEPT !.page = [r.page EXCEPT ![x] = k(p)]]
      BY <2>1 DEF LooseObject
    <3> QED
      BY <2>2, <3>3, <3>4, <3>5
  <2>3. CASE ~c(p)
    <3> HIDE DEF c
    <3> QED
      BY <2>1, <2>3 DEF LooseObject
  <2> QED
    BY <2>2, <2>3
<1>3. obj' = [p \in Object |-> [obj[p] EXCEPT !.page = h[p]]]
  <2>1. obj' = [p \in Object |-> IF c(p) THEN [obj[p] EXCEPT !.page[x].val = v, !.page[x].dirty = TRUE]
                                 ELSE obj[p]]
    BY DEF UserWrite
  <2>2. \A p \in Object : h[p] = g(p)
    OBVIOUS
  <2> HIDE DEF c, g, h
  <2> QED
    BY <1>2, <2>1, <2>2
<1>4. ASSUME NEW p \in Object, c(p)
      PROVE  /\ k(p) \in PageType /\ k(p).busy = obj[p].page[x].busy
             /\ k(p).absent = obj[p].page[x].absent /\ k(p) # None
  <2> DEFINE pg == obj[p].page[x]
  <2>1. pg \in PageType
    BY <1>1, <1>4, ObjectIs
  <2> HIDE DEF pg
  <2>2. [pg EXCEPT !.val = v, !.dirty = TRUE] \in PageType
    BY <2>1 DEF PageType
  <2>3. /\ [pg EXCEPT !.val = v, !.dirty = TRUE].busy = pg.busy
        /\ [pg EXCEPT !.val = v, !.dirty = TRUE].absent = pg.absent
    BY <2>1 DEF PageType
  <2> QED
    BY <2>2, <2>3, Constants DEF pg
<1>5. ASSUME NEW p \in Object
      PROVE  /\ h[p] \in [Page -> PageType \cup {None}]
             /\ \A y \in Page : /\ Held(h[p][y]) <=> Held(obj[p].page[y])
                                /\ Busy(h[p][y]) <=> Busy(obj[p].page[y])
                                /\ Absent(h[p][y]) <=> Absent(obj[p].page[y])
  <2>1. obj[p].page \in [Page -> PageType \cup {None}] /\ h[p] = g(p)
    BY <1>1, ObjectIs
  <2>2. CASE c(p)
    <3>1. k(p) \in PageType /\ k(p) # None /\ k(p).busy = obj[p].page[x].busy
          /\ k(p).absent = obj[p].page[x].absent /\ obj[p].page[x] # None
      BY <1>4, <2>2
    <3>2. h[p] = [obj[p].page EXCEPT ![x] = k(p)]
      BY <2>1, <2>2
    <3> HIDE DEF k, h, c, g
    <3> QED
      BY <2>1, <3>1, <3>2 DEF Held, Busy, Absent
  <2>3. CASE ~c(p)
    BY <2>1, <2>3
  <2> QED
    BY <2>2, <2>3
<1>6. h \in [Object -> [Page -> PageType \cup {None}]]
  <2>1. h = [p \in Object |-> h[p]]
    OBVIOUS
  <2> HIDE DEF h
  <2> QED
    BY <1>5, <2>1
<1> HIDE DEF h, g, c, k
<1>7. /\ obj' \in Objs
      /\ \A p \in Object : /\ Linked(obj[p], obj'[p]) /\ obj'[p].page = h[p]
                           /\ obj'[p].paging_in_progress = obj[p].paging_in_progress
  BY <1>1, <1>3, <1>6, AllRepaged
<1>8. EnvAll
  BY <1>5, <1>7 DEF EnvAll
<1>9. AbsentPart(obj')
  BY <1>5, <1>7, AbsentNext DEF Linked
<1> QED
  BY <1>1, <1>7, <1>8, <1>9, RousedSelf, PagesStep

\* Whether an entry refers to o.
Has(e, o) == IF e # None /\ e.object = o THEN 1 ELSE 0

\* Entry v for map m.
Moved(e, m, v) == [e EXCEPT ![m] = v]

\* One map entry changes.
LEMMA EntryMoved ==
    ASSUME NEW e \in [Map -> EntryType], NEW m \in Map, NEW v \in EntryType, NEW o \in Object
    PROVE  /\ Moved(e, m, v) \in [Map -> EntryType]
           /\ Moved(e, m, v)[m] = v /\ \A n \in Map : n # m => Moved(e, m, v)[n] = e[n]
           /\ Tally(EntryOf(Moved(e, m, v)), o) = Tally(EntryOf(e), o) - Has(e[m], o) + Has(v, o)
           /\ Tally(EntryOf(e), o) \in Nat
<1> DEFINE h == Moved(e, m, v)
<1>1. h \in [Map -> EntryType] /\ h[m] = v /\ \A n \in Map : n # m => h[n] = e[n]
  BY DEF Moved
<1> HIDE DEF h
<1>2. Near(h, e, Map, m)
  BY <1>1 DEF Near
<1>3. /\ Tally(EntryOf(h), o) = Tally(EntryOf(e), o)
                 - (IF EntryOf(e)[m] = o THEN 1 ELSE 0)
                 + (IF EntryOf(h)[m] = o THEN 1 ELSE 0)
      /\ Tally(EntryOf(e), o) \in Nat
  BY <1>2, EntryCounts
<1>4. EntryOf(e)[m] = o <=> e[m] # None /\ e[m].object = o
  BY Constants DEF EntryOf
<1>5. EntryOf(h)[m] = o <=> v # None /\ v.object = o
  BY <1>1, Constants DEF EntryOf
<1> QED
  BY <1>1, <1>3, <1>4, <1>5 DEF h, Has

\* What an entry is.
LEMMA EntryIs ==
    ASSUME NEW e \in [Map -> EntryType], NEW m \in Map, e[m] # None
    PROVE  e[m].object \in Object \cup {None} /\ e[m].needs_copy \in BOOLEAN
  BY DEF EntryType

\* The entry a map gets.
LEMMA NewEntry ==
    ASSUME NEW o \in Object \cup {None}, NEW c \in BOOLEAN
    PROVE  LET v == [object |-> o, needs_copy |-> c] IN
           v \in EntryType /\ v # None /\ v.object = o
  BY Constants DEF EntryType

\* vm_map_enter: an empty entry, or one with a reference to the file.
LEMMA EnterStep ==
    ASSUME Inv, NEW m \in Map, NEW o \in {None, File}, Enter(m, o)
    PROVE  Inv'
<1> DEFINE v == [object |-> o, needs_copy |-> FALSE]
<1>1. /\ obj \in Objs /\ fault \in Faults /\ drops \in [Object -> Nat]
      /\ entry \in [Map -> EntryType] /\ entry[m] = None
      /\ fault' = fault /\ daemon' = daemon /\ drops' = drops
      /\ entry' = [entry EXCEPT ![m] = v]
      /\ \A p \in Object : LinksOf(obj, p)
      /\ obj[File].state = "alive"
  BY DEF Inv, TypePart, LinkPart, Enter
<1>2. v \in EntryType /\ v # None /\ v.object = o
  BY Constants, NewEntry
<1> HIDE DEF v
<1>3. /\ obj' \in Objs
      /\ \A p \in Object :
          /\ obj'[p].state = obj[p].state /\ obj'[p].shadow = obj[p].shadow
          /\ obj'[p].copy = obj[p].copy /\ obj'[p].panic = obj[p].panic
          /\ obj'[p].ref_count = obj[p].ref_count + (IF p = o THEN 1 ELSE 0)
          /\ obj'[p].paging_in_progress = obj[p].paging_in_progress
          /\ obj'[p].page = obj[p].page
          /\ obj[p].pager_created => obj'[p].pager_created
  <2>1. CASE o = None
    <3>1. obj' = obj
      BY <2>1 DEF Enter
    <3>2. \A p \in Object : p # None /\ obj[p].ref_count \in Int
      BY <1>1, Constants, ObjectIs
    <3> QED
      BY <1>1, <2>1, <3>1, <3>2
  <2>2. CASE o # None
    <3>1. o = File /\ obj' = [obj EXCEPT ![File].ref_count = @ + 1] /\ 1 \in Int
      BY <2>2 DEF Enter
    <3>4. SetRefs(obj, [obj EXCEPT ![File].ref_count = @ + 1], File, 1)
      BY <1>1, <3>1, Constants, RefsSet
    <3>2. SetRefs(obj, obj', o, 1)
      BY <3>1, <3>4
    <3>3. \A p \in Object : obj[p].ref_count \in Int
      BY <1>1, ObjectIs
    <3> QED
      BY <3>2, <3>3 DEF SetRefs
  <2> QED
    BY <2>1, <2>2
<1>4. Kept(obj, obj')
  BY <1>1, <1>3, ObjectIs, Constants DEF Kept, LinksOf
<1>5. EntryRefs
  <2> SUFFICES ASSUME NEW p \in Object
               PROVE  obj'[p].ref_count = obj[p].ref_count
                         - Tally(EntryOf(entry), p) + Tally(EntryOf(entry'), p)
                         - drops[p] + drops'[p]
    BY DEF EntryRefs
  <2> DEFINE n == Tally(EntryOf(entry), p)
             k == Tally(EntryOf(entry'), p)
  <2>0. /\ Tally(EntryOf(Moved(entry, m, v)), p) = n - Has(entry[m], p) + Has(v, p)
        /\ n \in Nat
    <3> HIDE DEF k
    <3> QED
      BY <1>1, <1>2, EntryMoved
  <2>1. k = n - Has(entry[m], p) + Has(v, p) /\ n \in Nat
    BY <1>1, <2>0 DEF Moved
  <2>2. Has(entry[m], p) = 0 /\ Has(v, p) = IF p = o THEN 1 ELSE 0
    BY <1>1, <1>2 DEF Has
  <2>3. /\ obj'[p].ref_count = obj[p].ref_count + (IF p = o THEN 1 ELSE 0)
        /\ obj[p].ref_count \in Int /\ drops[p] \in Nat /\ drops'[p] = drops[p]
    BY <1>1, <1>3, ObjectIs
  <2> HIDE DEF n, k
  <2>4. obj'[p].ref_count = obj[p].ref_count - n + k - drops[p] + drops'[p]
    BY <2>1, <2>2, <2>3
  <2> QED
    BY <2>4 DEF n, k
<1>6. EnvAll
  BY <1>3 DEF EnvAll
<1>7. entry' \in [Map -> EntryType]
  BY <1>1, <1>2
<1>8. AbsentPart(obj')
  BY <1>3, AbsentNext
<1> QED
  BY <1>1, <1>3, <1>4, <1>5, <1>6, <1>7, <1>8, RousedSelf, MapStep

\* Other rights to map its pages.
LEMMA PmapsSet ==
    ASSUME NEW pg \in PageType, NEW k \in [Map -> Prot]
    PROVE  LET v == [pg EXCEPT !.pmap = k] IN
           /\ v \in PageType /\ (Held(v) <=> Held(pg)) /\ (Busy(v) <=> Busy(pg))
           /\ Absent(v) <=> Absent(pg)
<1> DEFINE v == [pg EXCEPT !.pmap = k]
<1>1. v \in PageType
  BY DEF PageType
<1>2. v.busy = pg.busy /\ v.absent = pg.absent
  BY DEF PageType
<1> HIDE DEF v
<1>3. v # None /\ pg # None
  BY <1>1, Constants
<1> QED
  BY <1>1, <1>2, <1>3 DEF v, Held, Busy, Absent

\* An entry goes; its reference is on its way out.
LEMMA RemoveStep == ASSUME Inv, NEW m \in Map, Remove(m) PROVE Inv'
<1> DEFINE o == entry[m].object
           k(p, x) == [obj[p].page[x].pmap EXCEPT ![m] = "none"]
           g(p) == [x \in Page |-> IF obj[p].page[x] = None THEN None
                                   ELSE [obj[p].page[x] EXCEPT !.pmap = k(p, x)]]
           h == [p \in Object |-> g(p)]
<1>1. /\ obj \in Objs /\ fault \in Faults /\ drops \in [Object -> Nat]
      /\ entry \in [Map -> EntryType] /\ entry[m] # None
      /\ fault' = fault /\ daemon' = daemon
      /\ entry' = [entry EXCEPT ![m] = None]
      /\ obj' = [p \in Object |-> [obj[p] EXCEPT !.page = g(p)]]
      /\ drops' = IF o = None THEN drops ELSE [drops EXCEPT ![o] = @ + 1]
      /\ \A p \in Object : LinksOf(obj, p)
  BY DEF Inv, TypePart, LinkPart, Remove
<1>2. o \in Object \cup {None} /\ None \in EntryType
  BY <1>1, EntryIs DEF EntryType
<1>3. ASSUME NEW p \in Object, NEW x \in Page
      PROVE  /\ g(p)[x] \in PageType \cup {None}
             /\ Held(g(p)[x]) <=> Held(obj[p].page[x])
             /\ Busy(g(p)[x]) <=> Busy(obj[p].page[x])
             /\ Absent(g(p)[x]) <=> Absent(obj[p].page[x])
  <2>1. CASE obj[p].page[x] = None
    BY <2>1
  <2>2. CASE obj[p].page[x] # None
    <3> DEFINE pg == obj[p].page[x]
    <3>1. pg \in PageType
      BY <1>1, <2>2, ObjectIs
    <3>2. k(p, x) \in [Map -> Prot]
      BY <3>1 DEF PageType, Prot
    <3>3. g(p)[x] = [pg EXCEPT !.pmap = k(p, x)]
      BY <2>2
    <3> HIDE DEF g, pg, k
    <3> QED
      BY <3>1, <3>2, <3>3, PmapsSet DEF pg
  <2> QED
    BY <2>1, <2>2
<1>4. h \in [Object -> [Page -> PageType \cup {None}]] /\ \A p \in Object : h[p] = g(p)
  <2>1. \A p \in Object : g(p) = [x \in Page |-> g(p)[x]]
    OBVIOUS
  <2>2. \A p \in Object : g(p) \in [Page -> PageType \cup {None}]
    <3> HIDE DEF g
    <3> QED
      BY <1>3, <2>1
  <2> HIDE DEF g
  <2> QED
    BY <2>2
<1>5. obj' = [p \in Object |-> [obj[p] EXCEPT !.page = h[p]]]
  <2> HIDE DEF g, h
  <2> QED
    BY <1>1, <1>4
<1> HIDE DEF h, g, k
<1>6. /\ obj' \in Objs
      /\ \A p \in Object : /\ Linked(obj[p], obj'[p]) /\ obj'[p].page = h[p]
                           /\ obj'[p].paging_in_progress = obj[p].paging_in_progress
  BY <1>1, <1>4, <1>5, AllRepaged
<1>7. EnvAll
  BY <1>3, <1>4, <1>6 DEF EnvAll
<1>8. Kept(obj, obj')
  <2> SUFFICES ASSUME NEW p \in Object
               PROVE  /\ obj'[p].state = obj[p].state /\ obj'[p].shadow = obj[p].shadow
                      /\ obj'[p].copy = obj[p].copy /\ obj'[p].panic = obj[p].panic
                      /\ obj'[p].state # "alive" => obj'[p].ref_count = 0
    BY DEF Kept
  <2>1. Linked(obj[p], obj'[p]) /\ LinksOf(obj, p)
    BY <1>1, <1>6
  <2> HIDE DEF o
  <2> QED
    BY <2>1 DEF Linked, LinksOf
<1>9. /\ drops' \in [Object -> Nat]
      /\ \A p \in Object : drops'[p] = drops[p] + (IF p = o THEN 1 ELSE 0)
  <2> HIDE DEF o
  <2>1. CASE o = None
    BY <1>1, <2>1, Constants
  <2>2. CASE o # None
    <3>1. o \in Object /\ drops[o] \in Nat
      BY <1>1, <1>2, <2>2
    <3> QED
      BY <1>1, <2>2, <3>1
  <2> QED
    BY <2>1, <2>2
<1>10. EntryRefs
  <2> SUFFICES ASSUME NEW p \in Object
               PROVE  obj'[p].ref_count = obj[p].ref_count
                         - Tally(EntryOf(entry), p) + Tally(EntryOf(entry'), p)
                         - drops[p] + drops'[p]
    BY DEF EntryRefs
  <2> DEFINE n == Tally(EntryOf(entry), p)
             l == Tally(EntryOf(entry'), p)
  <2>0. /\ Tally(EntryOf(Moved(entry, m, None)), p) = n - Has(entry[m], p) + Has(None, p)
        /\ n \in Nat
    <3> HIDE DEF l, o
    <3> QED
      BY <1>1, <1>2, EntryMoved
  <2>1. l = n - Has(entry[m], p) + Has(None, p) /\ n \in Nat
    BY <1>1, <2>0 DEF Moved
  <2>2. Has(None, p) = 0 /\ Has(entry[m], p) = IF p = o THEN 1 ELSE 0
    BY <1>1, <1>2 DEF Has
  <2>3. /\ obj'[p].ref_count = obj[p].ref_count
        /\ obj[p].ref_count \in Int /\ drops[p] \in Nat
        /\ drops'[p] = drops[p] + (IF p = o THEN 1 ELSE 0)
    BY <1>1, <1>6, <1>9, ObjectIs DEF Linked
  <2> HIDE DEF n, l, o
  <2>4. obj'[p].ref_count = obj[p].ref_count - n + l - drops[p] + drops'[p]
    BY <2>1, <2>2, <2>3
  <2> QED
    BY <2>4 DEF n, l
<1>11. entry' \in [Map -> EntryType]
  BY <1>1, <1>2
<1>12. AbsentPart(obj')
  BY <1>3, <1>4, <1>6, AbsentNext DEF Linked
<1> QED
  BY <1>1, <1>6, <1>7, <1>8, <1>9, <1>10, <1>11, <1>12, RousedSelf, MapStep

\* Pages that may only be read any more.
LEMMA ReadOnlyIs ==
    ASSUME NEW pg \in PageType \cup {None}, NEW who
    PROVE  /\ ReadOnly(pg, who) \in PageType \cup {None}
           /\ Held(ReadOnly(pg, who)) <=> Held(pg)
           /\ Busy(ReadOnly(pg, who)) <=> Busy(pg)
           /\ Absent(ReadOnly(pg, who)) <=> Absent(pg)
<1>1. CASE pg = None
  BY <1>1 DEF ReadOnly
<1>2. CASE pg # None
  <2> DEFINE k == [m \in Map |-> IF m \in who /\ pg.pmap[m] = "write" THEN "read" ELSE pg.pmap[m]]
  <2>1. pg \in PageType /\ pg.pmap \in [Map -> Prot]
    BY <1>2 DEF PageType
  <2>2. k \in [Map -> Prot]
    BY <2>1 DEF Prot
  <2>3. ReadOnly(pg, who) = [pg EXCEPT !.pmap = k]
    BY <1>2 DEF ReadOnly
  <2> HIDE DEF k
  <2> QED
    BY <2>1, <2>2, <2>3, PmapsSet
<1> QED
  BY <1>1, <1>2

\* Object r with reference count c and pages h; all objects with such.
Recounted(r, c, h) == [r EXCEPT !.ref_count = c, !.page = h]
AllRecounted(s, c, h) == [p \in Object |-> Recounted(s[p], c[p], h[p])]

\* An object with new references and pages.
LEMMA RecountedIs ==
    ASSUME NEW r \in LooseObject, NEW c \in Int, NEW h \in [Page -> PageType \cup {None}]
    PROVE  LET e == Recounted(r, c, h) IN
           /\ e \in LooseObject
           /\ e.state = r.state /\ e.shadow = r.shadow /\ e.copy = r.copy /\ e.panic = r.panic
           /\ e.ref_count = c /\ e.page = h /\ e.paging_in_progress = r.paging_in_progress
           /\ e.pager_created = r.pager_created
<1> DEFINE e == [r EXCEPT !.ref_count = c, !.page = h]
<1>1. e \in LooseObject
  BY Zenon DEF LooseObject
<1> QED
  BY <1>1 DEF LooseObject, Recounted

\* All objects with new references and pages.
LEMMA AllRecountedIs ==
    ASSUME NEW s \in Objs, NEW c \in [Object -> Int],
           NEW h \in [Object -> [Page -> PageType \cup {None}]]
    PROVE  LET q == AllRecounted(s, c, h) IN
           /\ q \in Objs
           /\ \A p \in Object :
                 /\ q[p].state = s[p].state /\ q[p].shadow = s[p].shadow
                 /\ q[p].copy = s[p].copy /\ q[p].panic = s[p].panic
                 /\ q[p].ref_count = c[p] /\ q[p].page = h[p]
                 /\ q[p].paging_in_progress = s[p].paging_in_progress
                 /\ q[p].pager_created = s[p].pager_created
<1> DEFINE e(p) == Recounted(s[p], c[p], h[p])
<1>1. ASSUME NEW p \in Object
      PROVE  /\ e(p) \in LooseObject
             /\ e(p).state = s[p].state /\ e(p).shadow = s[p].shadow
             /\ e(p).copy = s[p].copy /\ e(p).panic = s[p].panic
             /\ e(p).ref_count = c[p] /\ e(p).page = h[p]
             /\ e(p).paging_in_progress = s[p].paging_in_progress
             /\ e(p).pager_created = s[p].pager_created
  <2>1. s[p] \in LooseObject /\ c[p] \in Int /\ h[p] \in [Page -> PageType \cup {None}]
    BY ObjectIs
  <2> QED
    BY <2>1, RecountedIs
<1> HIDE DEF e
<1>2. [p \in Object |-> e(p)] \in Objs
  BY <1>1 DEF Objs
<1> QED
  BY <1>1, <1>2 DEF e, AllRecounted

\* Entry v for maps m and d, one after the other.
LEMMA EntryTwice ==
    ASSUME NEW e \in [Map -> EntryType], NEW m \in Map, NEW d \in Map, d # m,
           NEW v \in EntryType, NEW o \in Object
    PROVE  /\ Moved(Moved(e, m, v), d, v) \in [Map -> EntryType]
           /\ Tally(EntryOf(Moved(Moved(e, m, v), d, v)), o)
                 = Tally(EntryOf(e), o) - Has(e[m], o) - Has(e[d], o) + Has(v, o) + Has(v, o)
           /\ Tally(EntryOf(e), o) \in Nat
<1> DEFINE h == Moved(e, m, v)
           n == Tally(EntryOf(e), o)
           k == Tally(EntryOf(h), o)
           l == Tally(EntryOf(Moved(h, d, v)), o)
<1>1. h \in [Map -> EntryType] /\ h[d] = e[d] /\ k = n - Has(e[m], o) + Has(v, o) /\ n \in Nat
  BY EntryMoved
<1> HIDE DEF h
<1>2. Moved(h, d, v) \in [Map -> EntryType] /\ l = k - Has(h[d], o) + Has(v, o)
  BY <1>1, EntryMoved
<1> HIDE DEF k, l, n
<1>3. Has(e[m], o) \in Int /\ Has(e[d], o) \in Int /\ Has(v, o) \in Int
  BY DEF Has
<1>4. l = n - Has(e[m], o) - Has(e[d], o) + Has(v, o) + Has(v, o)
  BY <1>1, <1>2, <1>3
<1> QED
  BY <1>1, <1>2, <1>4 DEF h, k, l, n

\* vm_object_copy_temporary: both entries refer to the object.
LEMMA CopyTemporaryStep ==
    ASSUME Inv, NEW m \in Map, NEW d \in Map, Copy(m, d), CopyTemporary(m, d)
    PROVE  Inv'
<1> DEFINE o == entry[m].object
           nc == o # None
           v == [object |-> o, needs_copy |-> nc]
           c == [p \in Object |-> IF p = o THEN obj[p].ref_count + 1 ELSE obj[p].ref_count]
           g(p) == [x \in Page |-> ReadOnly(obj[p].page[x], {m})]
           h == [p \in Object |-> g(p)]
<1>1. /\ obj \in Objs /\ fault \in Faults /\ drops \in [Object -> Nat]
      /\ entry \in [Map -> EntryType] /\ entry[m] # None /\ entry[d] = None /\ m # d
      /\ fault' = fault /\ daemon' = daemon /\ drops' = drops
      /\ \A p \in Object : LinksOf(obj, p)
      /\ LinkPart(obj, entry, fault, drops)
  BY DEF Inv, TypePart, LinkPart, Copy
<1>2. /\ entry' = [entry EXCEPT ![m] = v, ![d] = v]
      /\ obj' = [p \in Object |->
                    [obj[p] EXCEPT !.ref_count = IF p = o THEN obj[p].ref_count + 1
                                                 ELSE obj[p].ref_count,
                                   !.page = g(p)]]
  BY DEF CopyTemporary
<1>3. o \in Object \cup {None} /\ nc \in BOOLEAN
  BY <1>1, EntryIs
<1>4. v \in EntryType /\ v # None /\ v.object = o
  BY <1>3, NewEntry
<1>5. c \in [Object -> Int]
  <2>1. \A p \in Object : obj[p].ref_count \in Int
    BY <1>1, ObjectIs
  <2> HIDE DEF o
  <2> QED
    BY <2>1
<1>6. h \in [Object -> [Page -> PageType \cup {None}]] /\ \A p \in Object : h[p] = g(p)
  <2>1. \A p \in Object, x \in Page : g(p)[x] \in PageType \cup {None}
    BY <1>1, ObjectIs, ReadOnlyIs
  <2>2. \A p \in Object : g(p) = [x \in Page |-> g(p)[x]]
    OBVIOUS
  <2>3. \A p \in Object : g(p) \in [Page -> PageType \cup {None}]
    <3> HIDE DEF g
    <3> QED
      BY <2>1, <2>2
  <2> HIDE DEF g
  <2> QED
    BY <2>3
<1>7. obj' = AllRecounted(obj, c, h)
  <2>1. \A p \in Object : c[p] = IF p = o THEN obj[p].ref_count + 1 ELSE obj[p].ref_count
    OBVIOUS
  <2> HIDE DEF g, h, c, o
  <2> QED
    BY <1>2, <1>6, <2>1 DEF AllRecounted, Recounted
<1>8. ASSUME NEW p \in Object, NEW x \in Page
      PROVE  /\ Held(h[p][x]) <=> Held(obj[p].page[x])
             /\ Busy(h[p][x]) <=> Busy(obj[p].page[x])
             /\ Absent(h[p][x]) <=> Absent(obj[p].page[x])
  <2>1. h[p][x] = ReadOnly(obj[p].page[x], {m}) /\ obj[p].page[x] \in PageType \cup {None}
    BY <1>1, ObjectIs
  <2> HIDE DEF h, g
  <2> QED
    BY <2>1, ReadOnlyIs
<1> HIDE DEF h, g
<1>9. /\ obj' \in Objs
      /\ \A p \in Object :
                 /\ obj'[p].state = obj[p].state /\ obj'[p].shadow = obj[p].shadow
                 /\ obj'[p].copy = obj[p].copy /\ obj'[p].panic = obj[p].panic
                 /\ obj'[p].ref_count = c[p] /\ obj'[p].page = h[p]
                 /\ obj'[p].paging_in_progress = obj[p].paging_in_progress
                 /\ obj'[p].pager_created = obj[p].pager_created
  <2> HIDE DEF c
  <2> QED
    BY <1>1, <1>5, <1>6, <1>7, AllRecountedIs
<1>10. EnvAll
  BY <1>8, <1>9 DEF EnvAll
<1>11. ASSUME NEW p \in Object
       PROVE  c[p] = obj[p].ref_count + (IF p = o THEN 1 ELSE 0) /\ obj[p].ref_count \in Int
  BY <1>1, ObjectIs
<1>12. o \in Object => obj[o].state = "alive"
  <2> HIDE DEF o
  <2>1. \A n \in Map : entry[n] # None /\ entry[n].object \in Object =>
                 obj[entry[n].object].state = "alive"
    BY <1>1, AliveIs
  <2> QED
    BY <1>1, <2>1 DEF o
<1>13. Kept(obj, obj')
  <2> SUFFICES ASSUME NEW p \in Object
               PROVE  /\ obj'[p].state = obj[p].state /\ obj'[p].shadow = obj[p].shadow
                      /\ obj'[p].copy = obj[p].copy /\ obj'[p].panic = obj[p].panic
                      /\ obj'[p].state # "alive" => obj'[p].ref_count = 0
    BY DEF Kept
  <2>1. LinksOf(obj, p) /\ c[p] = obj[p].ref_count + (IF p = o THEN 1 ELSE 0)
    BY <1>1, <1>11
  <2> HIDE DEF o, c
  <2> QED
    BY <1>9, <1>11, <1>12, <2>1 DEF LinksOf
<1>14. ASSUME NEW p \in Object
       PROVE  /\ entry' \in [Map -> EntryType]
              /\ Tally(EntryOf(entry'), p) = Tally(EntryOf(entry), p) + Has(v, p)
              /\ Tally(EntryOf(entry), p) \in Nat
  <2> DEFINE n == Tally(EntryOf(entry), p)
             k == Tally(EntryOf(entry'), p)
  <2>1. entry' = Moved(Moved(entry, m, v), d, v)
    <3> HIDE DEF v
    <3> QED
      BY <1>1, <1>2 DEF Moved
  <2>2. Has(entry[m], p) = Has(v, p) /\ Has(entry[d], p) = 0 /\ Has(v, p) \in Int
    BY <1>1, <1>4 DEF Has
  <2>3. /\ Moved(Moved(entry, m, v), d, v) \in [Map -> EntryType]
        /\ Tally(EntryOf(Moved(Moved(entry, m, v), d, v)), p)
                 = n - Has(entry[m], p) - Has(entry[d], p) + Has(v, p) + Has(v, p)
        /\ n \in Nat
    <3> HIDE DEF v, k
    <3> QED
      BY <1>1, <1>4, EntryTwice
  <2>4. entry' \in [Map -> EntryType]
    BY <2>1, <2>3
  <2>5. k = n - Has(entry[m], p) - Has(entry[d], p) + Has(v, p) + Has(v, p)
    <3> HIDE DEF v
    <3> QED
      BY <2>1, <2>3
  <2> HIDE DEF n, k, v
  <2>6. k = n + Has(v, p)
    BY <2>2, <2>3, <2>5
  <2> QED
    BY <2>3, <2>4, <2>6 DEF n, k
<1>15. EntryRefs
  <2> SUFFICES ASSUME NEW p \in Object
               PROVE  obj'[p].ref_count = obj[p].ref_count
                         - Tally(EntryOf(entry), p) + Tally(EntryOf(entry'), p)
                         - drops[p] + drops'[p]
    BY DEF EntryRefs
  <2> DEFINE n == Tally(EntryOf(entry), p)
             l == Tally(EntryOf(entry'), p)
  <2>1. l = n + Has(v, p) /\ n \in Nat
    BY <1>14
  <2>2. Has(v, p) = IF p = o THEN 1 ELSE 0
    BY <1>4 DEF Has
  <2>3. /\ obj'[p].ref_count = obj[p].ref_count + (IF p = o THEN 1 ELSE 0)
        /\ obj[p].ref_count \in Int /\ drops[p] \in Nat /\ drops'[p] = drops[p]
    BY <1>1, <1>9, <1>11
  <2> HIDE DEF n, l, o, v
  <2>4. obj'[p].ref_count = obj[p].ref_count - n + l - drops[p] + drops'[p]
    BY <2>1, <2>2, <2>3
  <2> QED
    BY <2>4 DEF n, l
<1>16. entry' \in [Map -> EntryType]
  BY <1>14, Constants
<1>17. drops' \in [Object -> Nat] /\ \A p \in Object : obj'[p].paging_in_progress = obj[p].paging_in_progress
  BY <1>1, <1>9
<1>18. AbsentPart(obj')
  <2> HIDE DEF c, o, v
  <2> QED
    BY <1>8, <1>9, AbsentNext
<1> QED
  BY <1>1, <1>9, <1>10, <1>13, <1>15, <1>16, <1>17, <1>18, RousedSelf, MapStep

\* The object that vm_object_allocate gets is used by nobody.
LEMMA FreshIs ==
    ASSUME Inv, Free # {}
    PROVE  /\ Fresh \in Object /\ obj[Fresh].state = "free" /\ Fresh # File /\ Fresh # None
           /\ obj[Fresh].ref_count = 0 /\ obj[Fresh].paging_in_progress = 0
           /\ obj[Fresh].shadow = None /\ obj[Fresh].copy = None
           /\ \A x \in Page : /\ ~Held(obj[Fresh].page[x])
                              /\ \A t \in Map : ~Waits(fault[t], Fresh, x) /\ ~Owns(fault[t], Fresh, x)
           /\ \A p \in Object : obj[p].shadow # Fresh /\ obj[p].copy # Fresh
           /\ \A m \in Map : entry[m] # None => entry[m].object # Fresh
           /\ \A t \in Map : fault[t].first # Fresh /\ fault[t].object # Fresh
           /\ \A t \in Map : fault[t].pc = "pushing" => fault[t].old_copy # Fresh
           /\ daemon.object # Fresh
<1> DEFINE n == Fresh
<1>1. n \in Object /\ obj[n].state = "free"
  BY DEF Fresh, Free
<1> HIDE DEF n
<1>2. /\ obj \in Objs /\ fault \in Faults /\ drops \in [Object -> Nat]
      /\ LinkPart(obj, entry, fault, drops) /\ PagingPart(obj, fault, daemon)
      /\ \A p \in Object : LinksOf(obj, p)
      /\ obj[File].state = "alive"
  BY DEF Inv, TypePart, LinkPart
<1>3. n # File /\ n # None
  BY <1>1, <1>2, Constants
<1>4. /\ obj[n].ref_count = 0 /\ obj[n].shadow = None /\ obj[n].copy = None
  BY <1>1, <1>2, <1>3 DEF LinksOf
<1>5. obj[n].paging_in_progress = 0
  BY <1>1, <1>2 DEF PagingPart
<1>6. \A x \in Page : /\ ~Held(obj[n].page[x])
                      /\ \A t \in Map : ~Waits(fault[t], n, x) /\ ~Owns(fault[t], n, x)
  BY <1>1, <1>5, Unpaged
<1>7. \A p \in Object : obj[p].shadow # n /\ obj[p].copy # n
  <2> SUFFICES ASSUME NEW p \in Object PROVE obj[p].shadow # n /\ obj[p].copy # n
    OBVIOUS
  <2>1. LinksOf(obj, p)
    BY <1>2
  <2>2. obj[p].copy # n
    BY <1>1, <1>3, <2>1 DEF LinksOf
  <2>3. obj[p].state # "free" /\ obj[p].shadow \in Object => obj[obj[p].shadow].state = "alive"
    BY <1>2, AliveIs
  <2>4. obj[p].shadow # n
    BY <1>1, <1>3, <2>1, <2>3 DEF LinksOf
  <2> QED
    BY <2>2, <2>4
<1>8. \A m \in Map : entry[m] # None => entry[m].object # n
  BY <1>1, <1>2, AliveIs
<1>9. \A t \in Map : fault[t].first # n
  BY <1>1, <1>2, AliveIs
<1>10. \A t \in Map : fault[t].pc = "pushing" => fault[t].old_copy # n
  BY <1>1, <1>2, AliveIs
<1>11. daemon.object # n
  BY <1>1, <1>2, UsedIs
<1>12. \A t \in Map : fault[t].object # n
  <2> SUFFICES ASSUME NEW t \in Map, fault[t].object = n PROVE FALSE
    OBVIOUS
  <2>1. Uses(fault[t], n) > 0
    BY <1>1, UsesIs
  <2> QED
    BY <1>1, <1>2, <2>1, UsedIs
<1> QED
  BY <1>1, <1>3, <1>4, <1>5, <1>6, <1>7, <1>8, <1>9, <1>10, <1>11, <1>12 DEF n

\* The copy object serves again.
LEMMA CopyReuses ==
    ASSUME Inv, NEW m \in Map, NEW d \in Map, Copy(m, d), NEW old \in Object,
           old = obj[File].copy,
           obj' = [obj EXCEPT ![old].ref_count = @ + 1],
           entry' = [entry EXCEPT ![d] = [object |-> old, needs_copy |-> TRUE]]
    PROVE  Inv'
<1> DEFINE v == [object |-> old, needs_copy |-> TRUE]
<1>1. /\ obj \in Objs /\ fault \in Faults /\ drops \in [Object -> Nat]
      /\ entry \in [Map -> EntryType] /\ entry[d] = None
      /\ fault' = fault /\ daemon' = daemon /\ drops' = drops
      /\ \A p \in Object : LinksOf(obj, p) /\ obj[p].ref_count \in Int
      /\ entry' = [entry EXCEPT ![d] = v]
  BY ObjectIs DEF Inv, TypePart, LinkPart, Copy
<1>2. v \in EntryType /\ v # None /\ v.object = old
  BY NewEntry
<1> HIDE DEF v
<1>3. SetRefs(obj, obj', old, 1)
  <2>1. SetRefs(obj, [obj EXCEPT ![old].ref_count = @ + 1], old, 1)
    <3>1. obj \in Objs /\ old \in Object /\ 1 \in Int
      BY <1>1
    <3> QED
      BY ONLY <3>1, RefsSet
  <2> QED
    BY <2>1
<1>4. obj[old].state = "alive"
  <2>1. LinksOf(obj, File)
    BY <1>1, Constants
  <2> QED
    BY <2>1, Constants DEF LinksOf
<1>5. Kept(obj, obj')
  BY <1>1, <1>3, <1>4 DEF Kept, SetRefs, LinksOf
<1>6. EnvAll
  BY <1>3 DEF EnvAll, SetRefs
<1>7. EntryRefs
  <2> SUFFICES ASSUME NEW p \in Object
               PROVE  obj'[p].ref_count = obj[p].ref_count
                         - Tally(EntryOf(entry), p) + Tally(EntryOf(entry'), p)
                         - drops[p] + drops'[p]
    BY DEF EntryRefs
  <2> DEFINE n == Tally(EntryOf(entry), p)
             k == Tally(EntryOf(entry'), p)
  <2>0. /\ Tally(EntryOf(Moved(entry, d, v)), p) = n - Has(entry[d], p) + Has(v, p)
        /\ n \in Nat
    <3>1. entry \in [Map -> EntryType] /\ d \in Map /\ v \in EntryType /\ p \in Object
      BY <1>1, <1>2
    <3> QED
      BY ONLY <3>1, EntryMoved
  <2>1. k = n - Has(entry[d], p) + Has(v, p) /\ n \in Nat
    BY <1>1, <2>0 DEF Moved
  <2>2. Has(entry[d], p) = 0 /\ Has(v, p) = IF p = old THEN 1 ELSE 0
    BY <1>1, <1>2 DEF Has
  <2>3. /\ obj'[p].ref_count = obj[p].ref_count + (IF p = old THEN 1 ELSE 0)
        /\ obj[p].ref_count \in Int /\ drops[p] \in Nat /\ drops'[p] = drops[p]
    BY <1>1, <1>3 DEF SetRefs
  <2> HIDE DEF n, k
  <2>4. obj'[p].ref_count = obj[p].ref_count - n + k - drops[p] + drops'[p]
    BY <2>1, <2>2, <2>3
  <2> QED
    BY <2>4 DEF n, k
<1>8. entry' \in [Map -> EntryType]
  BY <1>1, <1>2
<1>9. obj' \in Objs /\ \A p \in Object : obj'[p].paging_in_progress = obj[p].paging_in_progress
  BY <1>3 DEF SetRefs
<1>10. AbsentPart(obj')
  BY <1>3, AbsentNext DEF SetRefs
<1> QED
  BY <1>1, <1>5, <1>6, <1>7, <1>8, <1>9, <1>10, RousedSelf, MapStep

\* A new copy object has come between File and its old copy object, if there is one.
Between(s, q, new, old) ==
    /\ q \in Objs
    /\ \A p \in Object :
          /\ q[p].state = IF p = new THEN "alive" ELSE s[p].state
          /\ q[p].shadow = IF p = new THEN File ELSE IF p = old THEN new ELSE s[p].shadow
          /\ q[p].copy = IF p = File THEN new ELSE s[p].copy
          /\ q[p].panic = FALSE
          /\ q[p].ref_count = s[p].ref_count
                + (IF p = new THEN 1 ELSE 0) + (IF p = new /\ old # None THEN 1 ELSE 0)
                + (IF p = File /\ old = None THEN 1 ELSE 0)
          /\ q[p].paging_in_progress = s[p].paging_in_progress
          /\ \A x \in Page : /\ Held(q[p].page[x]) <=> Held(s[p].page[x])
                             /\ Busy(s[p].page[x]) /\ ~Busy(q[p].page[x]) => p = new
                             /\ Absent(q[p].page[x]) =>
                                   /\ Absent(s[p].page[x])
                                   /\ q[p].pager_created = s[p].pager_created

\* The first assignment of CopyDelayed.
Inserted(s, new) ==
    [s EXCEPT
        ![new] = [NewObject EXCEPT !.shadow = File],
        ![File].ref_count = @ + 1,
        ![File].copy = new,
        ![File].page = [x \in Page |-> ReadOnly(@[x], Map)]]

\* vm_object_copy_delayed with no copy yet: the new object shadows the file.
LEMMA InsertedIs ==
    ASSUME Inv, NEW new \in Object, obj[new].state = "free", new # File,
           obj[new].ref_count = 0, obj[new].paging_in_progress = 0, obj[new].copy = None,
           \A x \in Page : ~Held(obj[new].page[x])
    PROVE  Between(obj, Inserted(obj, new), new, None)
<1> DEFINE e == [NewObject EXCEPT !.shadow = File]
           s == [obj EXCEPT ![new] = e]
           c == obj[File].ref_count + 1
           g == [x \in Page |-> ReadOnly(obj[File].page[x], Map)]
           k == [[[obj[File] EXCEPT !.ref_count = c] EXCEPT !.copy = new] EXCEPT !.page = g]
           q == [s EXCEPT ![File] = k]
<1>1. /\ obj \in Objs /\ \A p \in Object : LinksOf(obj, p) /\ obj[p].panic \in BOOLEAN
      /\ \A p \in Object : obj[p].ref_count \in Int
      /\ obj[File] \in LooseObject /\ obj[File].ref_count \in Int
      /\ obj[File].page \in [Page -> PageType \cup {None}]
  BY Constants, ObjectIs DEF Inv, TypePart, LinkPart, Objs, LooseObject
<1>2. /\ e \in LooseObject /\ e.state = "alive" /\ e.shadow = File /\ e.copy = None
      /\ e.panic = FALSE /\ e.ref_count = 1 /\ e.paging_in_progress = 0
      /\ e.page = NewObject.page
  <2>1. e \in LooseObject
    BY FreeIs, Constants, RecordIs
  <2> QED
    BY <2>1, FreeIs DEF LooseObject
<1>3. c \in Int /\ c = obj[File].ref_count + 1
  BY <1>1
<1>4. g \in [Page -> PageType \cup {None}]
      /\ \A x \in Page : /\ Held(g[x]) <=> Held(obj[File].page[x])
                         /\ Busy(g[x]) <=> Busy(obj[File].page[x])
                         /\ Absent(g[x]) <=> Absent(obj[File].page[x])
  <2>1. \A x \in Page : obj[File].page[x] \in PageType \cup {None}
    BY <1>1
  <2>2. ASSUME NEW x \in Page
        PROVE  /\ g[x] \in PageType \cup {None}
               /\ Held(g[x]) <=> Held(obj[File].page[x])
               /\ Busy(g[x]) <=> Busy(obj[File].page[x])
               /\ Absent(g[x]) <=> Absent(obj[File].page[x])
    <3>1. g[x] = ReadOnly(obj[File].page[x], Map)
      OBVIOUS
    <3> HIDE DEF g
    <3> QED
      BY <2>1, <3>1, ReadOnlyIs
  <2>3. g = [x \in Page |-> g[x]]
    OBVIOUS
  <2> HIDE DEF g
  <2> QED
    BY <2>2, <2>3
<1>5. Inserted(obj, new) = [s EXCEPT ![File].ref_count = c, ![File].copy = new, ![File].page = g]
  <2>1. obj[File] = s[File]
    BY Constants
  <2>2. Inserted(obj, new) = [obj EXCEPT ![new] = e, ![File].ref_count = c, ![File].copy = new, ![File].page = g]
    BY DEF Inserted
  <2> HIDE DEF c, g, e
  <2> QED
    BY <2>2
<1> HIDE DEF e, c, g
<1>6. s \in Objs /\ \A p \in Object : s[p] = IF p = new THEN e ELSE obj[p]
  BY <1>1, <1>2 DEF Objs
<1> HIDE DEF s
<1>7. Inserted(obj, new) = q
  <2>1. s[File] = obj[File] /\ File \in DOMAIN s
    BY <1>6, Constants DEF Objs
  <2> QED
    BY <1>5, <2>1
<1>8. /\ k \in LooseObject /\ k.state = obj[File].state /\ k.shadow = obj[File].shadow
      /\ k.copy = new /\ k.panic = obj[File].panic /\ k.ref_count = c /\ k.page = g
      /\ k.paging_in_progress = obj[File].paging_in_progress
      /\ k.pager_created = obj[File].pager_created
  <2>1. [obj[File] EXCEPT !.ref_count = c] \in LooseObject
    BY <1>1, <1>3, RecordIs
  <2>2. [[obj[File] EXCEPT !.ref_count = c] EXCEPT !.copy = new] \in LooseObject
    BY <2>1, RecordIs
  <2>3. k \in LooseObject
    BY <1>4, <2>2, Repaged
  <2> QED
    BY <1>1, <2>3 DEF LooseObject
<1> HIDE DEF k
<1>9. q \in Objs /\ \A p \in Object : q[p] = IF p = File THEN k ELSE IF p = new THEN e ELSE obj[p]
  BY <1>6, <1>8 DEF Objs
<1> HIDE DEF q
<1>10. ASSUME NEW p \in Object
       PROVE  /\ q[p].state = IF p = new THEN "alive" ELSE obj[p].state
              /\ q[p].shadow = IF p = new THEN File ELSE obj[p].shadow
              /\ q[p].copy = IF p = File THEN new ELSE obj[p].copy
              /\ q[p].panic = FALSE
              /\ q[p].ref_count = obj[p].ref_count
                    + (IF p = new THEN 1 ELSE 0) + (IF p = File THEN 1 ELSE 0)
              /\ q[p].paging_in_progress = obj[p].paging_in_progress
              /\ \A x \in Page : /\ Held(q[p].page[x]) <=> Held(obj[p].page[x])
                                 /\ Busy(obj[p].page[x]) /\ ~Busy(q[p].page[x]) => p = new
                                 /\ Absent(q[p].page[x]) =>
                                       /\ Absent(obj[p].page[x])
                                       /\ q[p].pager_created = obj[p].pager_created
  <2>1. obj[p].panic = FALSE /\ obj[p].ref_count \in Int
    BY <1>1 DEF LinksOf
  <2>2. CASE p = File
    BY <1>3, <1>4, <1>8, <1>9, <2>1, <2>2
  <2>3. CASE p = new
    <3>1. \A x \in Page : ~Held(e.page[x]) /\ ~Absent(e.page[x])
      BY <1>2, FreeIs DEF Held, Absent
    <3> QED
      BY <1>2, <1>9, <2>3, <3>1
  <2>4. CASE p # File /\ p # new
    BY <1>9, <2>1, <2>4
  <2> QED
    BY <2>2, <2>3, <2>4
<1>11. \A p \in Object : p # None /\ obj[p].ref_count \in Int
  BY <1>1, Constants
<1>12. ASSUME NEW p \in Object
       PROVE  /\ q[p].shadow = IF p = new THEN File ELSE IF p = None THEN new ELSE obj[p].shadow
              /\ q[p].ref_count = obj[p].ref_count
                    + (IF p = new THEN 1 ELSE 0) + (IF p = new /\ None # None THEN 1 ELSE 0)
                    + (IF p = File /\ None = None THEN 1 ELSE 0)
  <2>1. p # None /\ obj[p].ref_count \in Int
    BY <1>11
  <2>2. /\ q[p].shadow = IF p = new THEN File ELSE obj[p].shadow
        /\ q[p].ref_count = obj[p].ref_count
                    + (IF p = new THEN 1 ELSE 0) + (IF p = File THEN 1 ELSE 0)
    BY <1>10
  <2> DEFINE i == IF p = new THEN 1 ELSE 0
             j == IF p = File THEN 1 ELSE 0
  <2>3. i \in Int /\ j \in Int
    OBVIOUS
  <2>4. (IF p = new /\ None # None THEN 1 ELSE 0) = 0 /\ (IF p = File /\ None = None THEN 1 ELSE 0) = j
    OBVIOUS
  <2> HIDE DEF i, j
  <2>5. q[p].ref_count = obj[p].ref_count + i + 0 + j
    BY ONLY <2>1, <2>2, <2>3 DEF i, j
  <2> QED
    BY <2>1, <2>2, <2>4, <2>5 DEF i
<1>13. Between(obj, q, new, None)
  BY ONLY <1>9, <1>10, <1>12 DEF Between
<1> QED
  BY <1>7, <1>13

\* The second assignment: the old copy object shadows the new one.
LEMMA ReshadowedIs ==
    ASSUME Inv, NEW new \in Object, NEW old \in Object, NEW s,
           Between(obj, s, new, None), new # File, old # File, new # old,
           obj[old].shadow = File
    PROVE  Between(obj, [s EXCEPT ![File].ref_count = @ - 1,
                                  ![old].shadow = new,
                                  ![old].panic = @ \/ obj[old].shadow # File,
                                  ![new].ref_count = @ + 1], new, old)
<1> DEFINE c == s[File].ref_count - 1
           n == s[old].panic \/ obj[old].shadow # File
           d == s[new].ref_count + 1
           h == [s[File] EXCEPT !.ref_count = c]
           k == [[s[old] EXCEPT !.shadow = new] EXCEPT !.panic = n]
           e == [s[new] EXCEPT !.ref_count = d]
           q == [[[s EXCEPT ![File] = h] EXCEPT ![old] = k] EXCEPT ![new] = e]
           z == [s EXCEPT ![File].ref_count = @ - 1,
                          ![old].shadow = new,
                          ![old].panic = @ \/ obj[old].shadow # File,
                          ![new].ref_count = @ + 1]
<1>1. /\ obj \in Objs /\ s \in Objs /\ File \in Object
      /\ s[File] \in LooseObject /\ s[old] \in LooseObject /\ s[new] \in LooseObject
      /\ \A p \in Object : s[p].ref_count \in Int /\ obj[p].ref_count \in Int /\ s[p].panic = FALSE
      /\ DOMAIN s = Object
  BY Constants, ObjectIs DEF Inv, TypePart, Between, Objs
<1>2. c \in Int /\ c = s[File].ref_count - 1 /\ d \in Int /\ d = s[new].ref_count + 1 /\ n = FALSE
  BY <1>1
<1>3. z = [s EXCEPT ![File].ref_count = c, ![old].shadow = new, ![old].panic = n, ![new].ref_count = d]
  OBVIOUS
<1> HIDE DEF c, d, n, z
<1>4. z = q
  BY <1>1, <1>3
<1>5. /\ h \in LooseObject /\ h.state = s[File].state /\ h.shadow = s[File].shadow
      /\ h.copy = s[File].copy /\ h.panic = s[File].panic /\ h.ref_count = c /\ h.page = s[File].page
      /\ h.paging_in_progress = s[File].paging_in_progress
      /\ h.pager_created = s[File].pager_created
  <2>1. h \in LooseObject
    BY <1>1, <1>2, RecordIs
  <2> QED
    BY <1>1, <2>1 DEF LooseObject
<1>6. /\ k \in LooseObject /\ k.state = s[old].state /\ k.shadow = new
      /\ k.copy = s[old].copy /\ k.panic = FALSE /\ k.ref_count = s[old].ref_count
      /\ k.page = s[old].page /\ k.paging_in_progress = s[old].paging_in_progress
      /\ k.pager_created = s[old].pager_created
  <2>1. [s[old] EXCEPT !.shadow = new] \in LooseObject
    BY <1>1, RecordIs
  <2>2. k \in LooseObject
    BY <1>2, <2>1, RecordIs
  <2> QED
    BY <1>1, <1>2, <2>2 DEF LooseObject
<1>7. /\ e \in LooseObject /\ e.state = s[new].state /\ e.shadow = s[new].shadow
      /\ e.copy = s[new].copy /\ e.panic = s[new].panic /\ e.ref_count = d /\ e.page = s[new].page
      /\ e.paging_in_progress = s[new].paging_in_progress
      /\ e.pager_created = s[new].pager_created
  <2>1. e \in LooseObject
    BY <1>1, <1>2, RecordIs
  <2> QED
    BY <1>1, <2>1 DEF LooseObject
<1> HIDE DEF h, k, e
<1>8. q \in Objs /\ \A p \in Object :
          q[p] = IF p = new THEN e ELSE IF p = old THEN k ELSE IF p = File THEN h ELSE s[p]
  BY <1>1, <1>5, <1>6, <1>7 DEF Objs
<1> HIDE DEF q
<1>9. ASSUME NEW p \in Object
      PROVE  /\ s[p].state = IF p = new THEN "alive" ELSE obj[p].state
             /\ s[p].shadow = IF p = new THEN File ELSE obj[p].shadow
             /\ s[p].copy = IF p = File THEN new ELSE obj[p].copy
             /\ s[p].ref_count = obj[p].ref_count
                    + (IF p = new THEN 1 ELSE 0) + (IF p = File THEN 1 ELSE 0)
             /\ s[p].paging_in_progress = obj[p].paging_in_progress
             /\ \A x \in Page : /\ Held(s[p].page[x]) <=> Held(obj[p].page[x])
                                /\ Busy(obj[p].page[x]) /\ ~Busy(s[p].page[x]) => p = new
                                /\ Absent(s[p].page[x]) =>
                                      /\ Absent(obj[p].page[x])
                                      /\ s[p].pager_created = obj[p].pager_created
  <2>1. p # None
    BY Constants
  <2>2. /\ s[p].state = IF p = new THEN "alive" ELSE obj[p].state
        /\ s[p].shadow = IF p = new THEN File ELSE IF p = None THEN new ELSE obj[p].shadow
        /\ s[p].copy = IF p = File THEN new ELSE obj[p].copy
        /\ s[p].ref_count = obj[p].ref_count
                    + (IF p = new THEN 1 ELSE 0) + (IF p = new /\ None # None THEN 1 ELSE 0)
                    + (IF p = File /\ None = None THEN 1 ELSE 0)
        /\ s[p].paging_in_progress = obj[p].paging_in_progress
        /\ \A x \in Page : /\ Held(s[p].page[x]) <=> Held(obj[p].page[x])
                           /\ Busy(obj[p].page[x]) /\ ~Busy(s[p].page[x]) => p = new
                           /\ Absent(s[p].page[x]) =>
                                 /\ Absent(obj[p].page[x])
                                 /\ s[p].pager_created = obj[p].pager_created
    BY DEF Between
  <2> DEFINE i == IF p = new THEN 1 ELSE 0
             j == IF p = File THEN 1 ELSE 0
  <2>3. i \in Int /\ j \in Int
    OBVIOUS
  <2>4. (IF p = new /\ None # None THEN 1 ELSE 0) = 0 /\ (IF p = File /\ None = None THEN 1 ELSE 0) = j
    OBVIOUS
  <2> HIDE DEF i, j
  <2>5. s[p].ref_count = obj[p].ref_count + i + 0 + j
    BY ONLY <2>2, <2>4 DEF i
  <2>6. s[p].ref_count = obj[p].ref_count + i + j
    BY <1>1, <2>3, <2>5
  <2> QED
    BY <2>1, <2>2, <2>6 DEF i, j
<1>10. ASSUME NEW p \in Object
       PROVE  /\ q[p].state = s[p].state
              /\ q[p].shadow = IF p = old THEN new ELSE s[p].shadow
              /\ q[p].copy = s[p].copy /\ q[p].panic = FALSE
              /\ q[p].ref_count = s[p].ref_count
                    + (IF p = new THEN 1 ELSE 0) - (IF p = File THEN 1 ELSE 0)
              /\ q[p].paging_in_progress = s[p].paging_in_progress
              /\ q[p].page = s[p].page /\ q[p].pager_created = s[p].pager_created
  <2>1. s[p].ref_count \in Int /\ s[p].panic = FALSE
    BY <1>1
  <2>2. CASE p = new
    BY <1>2, <1>7, <1>8, <2>1, <2>2
  <2>3. CASE p = old
    BY <1>6, <1>8, <2>1, <2>3
  <2>4. CASE p = File
    BY <1>2, <1>5, <1>8, <2>1, <2>4
  <2>5. CASE p \notin {new, old, File}
    BY <1>8, <2>1, <2>5
  <2> QED
    BY <2>2, <2>3, <2>4, <2>5
<1>11. ASSUME NEW p \in Object
       PROVE  /\ q[p].state = IF p = new THEN "alive" ELSE obj[p].state
              /\ q[p].shadow = IF p = new THEN File ELSE IF p = old THEN new ELSE obj[p].shadow
              /\ q[p].copy = IF p = File THEN new ELSE obj[p].copy
              /\ q[p].panic = FALSE
              /\ q[p].ref_count = obj[p].ref_count
                    + (IF p = new THEN 1 ELSE 0) + (IF p = new /\ old # None THEN 1 ELSE 0)
                    + (IF p = File /\ old = None THEN 1 ELSE 0)
              /\ q[p].paging_in_progress = obj[p].paging_in_progress
              /\ \A x \in Page : /\ Held(q[p].page[x]) <=> Held(obj[p].page[x])
                                 /\ Busy(obj[p].page[x]) /\ ~Busy(q[p].page[x]) => p = new
                                 /\ Absent(q[p].page[x]) =>
                                       /\ Absent(obj[p].page[x])
                                       /\ q[p].pager_created = obj[p].pager_created
  <2>1. /\ q[p].state = IF p = new THEN "alive" ELSE obj[p].state
        /\ q[p].shadow = IF p = new THEN File ELSE IF p = old THEN new ELSE obj[p].shadow
        /\ q[p].copy = IF p = File THEN new ELSE obj[p].copy
        /\ q[p].panic = FALSE
        /\ q[p].paging_in_progress = obj[p].paging_in_progress
        /\ \A x \in Page : /\ Held(q[p].page[x]) <=> Held(obj[p].page[x])
                           /\ Busy(obj[p].page[x]) /\ ~Busy(q[p].page[x]) => p = new
                           /\ Absent(q[p].page[x]) =>
                                 /\ Absent(obj[p].page[x])
                                 /\ q[p].pager_created = obj[p].pager_created
    <3>1. /\ q[p].state = IF p = new THEN "alive" ELSE obj[p].state
          /\ q[p].shadow = IF p = new THEN File ELSE IF p = old THEN new ELSE obj[p].shadow
          /\ q[p].copy = IF p = File THEN new ELSE obj[p].copy
          /\ q[p].panic = FALSE
      <4>1. /\ s[p].state = IF p = new THEN "alive" ELSE obj[p].state
            /\ s[p].shadow = IF p = new THEN File ELSE obj[p].shadow
            /\ s[p].copy = IF p = File THEN new ELSE obj[p].copy
        BY <1>9
      <4>2. /\ q[p].state = s[p].state
            /\ q[p].shadow = IF p = old THEN new ELSE s[p].shadow
            /\ q[p].copy = s[p].copy /\ q[p].panic = FALSE
        BY <1>10
      <4>3. new # old
        OBVIOUS
      <4> QED
        BY ONLY <4>1, <4>2, <4>3
    <3>2. /\ q[p].paging_in_progress = obj[p].paging_in_progress
          /\ q[p].page = s[p].page /\ q[p].pager_created = s[p].pager_created
      BY <1>9, <1>10
    <3>3. \A x \in Page : /\ Held(s[p].page[x]) <=> Held(obj[p].page[x])
                          /\ Busy(obj[p].page[x]) /\ ~Busy(s[p].page[x]) => p = new
                          /\ Absent(s[p].page[x]) =>
                                /\ Absent(obj[p].page[x])
                                /\ s[p].pager_created = obj[p].pager_created
      BY <1>9
    <3> QED
      BY ONLY <3>1, <3>2, <3>3
  <2> DEFINE i == IF p = new THEN 1 ELSE 0
             j == IF p = File THEN 1 ELSE 0
  <2>2. i \in Int /\ j \in Int /\ obj[p].ref_count \in Int
    BY <1>1
  <2>3. (IF p = new /\ old # None THEN 1 ELSE 0) = i /\ (IF p = File /\ old = None THEN 1 ELSE 0) = 0
    BY Constants
  <2>4. s[p].ref_count = obj[p].ref_count + i + j /\ q[p].ref_count = s[p].ref_count + i - j
    BY <1>9, <1>10
  <2> HIDE DEF i, j
  <2>5. q[p].ref_count = obj[p].ref_count + i + i + 0
    BY <2>2, <2>4
  <2> QED
    BY <2>1, <2>3, <2>5 DEF i
<1>12. Between(obj, q, new, old)
  BY ONLY <1>8, <1>11 DEF Between
<1> QED
  BY <1>4, <1>12 DEF z

\* The new copy goes between the file and its old copy: links.
LEMMA BetweenLinks ==
    ASSUME Inv, NEW new \in Object, NEW old \in Object \cup {None}, old = obj[File].copy,
           Free # {}, new = Fresh, NEW q, Between(obj, q, new, old)
    PROVE  \A p \in Object : LinksOf(q, p)
<1> SUFFICES ASSUME NEW p \in Object PROVE LinksOf(q, p)
  OBVIOUS
<1>1. /\ obj \in Objs /\ LinksOf(obj, p) /\ LinksOf(obj, File) /\ obj[File].state = "alive"
      /\ File \in Object /\ None \notin Object
  BY Constants DEF Inv, TypePart, LinkPart
<1>2. /\ obj[new].state = "free" /\ new # File /\ new # None /\ new # old
      /\ obj[new].copy = None
  BY <1>1, FreshIs
<1>3. old # None => /\ old # File /\ obj[old].state = "alive" /\ obj[old].shadow = File
  <2>1. obj[File].shadow = None
    BY DEF Inv, LinkPart
  <2> QED
    BY <1>1, <2>1 DEF LinksOf
<1>4. /\ q[p].state = IF p = new THEN "alive" ELSE obj[p].state
      /\ q[p].shadow = IF p = new THEN File ELSE IF p = old THEN new ELSE obj[p].shadow
      /\ q[p].copy = IF p = File THEN new ELSE obj[p].copy
      /\ q[p].panic = FALSE
      /\ p # new /\ p # File => q[p].ref_count = obj[p].ref_count + 0 + 0 + 0
  BY <1>2 DEF Between
<1>5. q[new].state = "alive" /\ q[new].shadow = File /\ q[File].copy = new
  BY <1>1, <1>2 DEF Between
<1>6. obj[p].ref_count \in Int
  BY <1>1, ObjectIs
<1>7. q[p].state # "alive" => q[p].ref_count = 0
  BY <1>1, <1>4, <1>6 DEF LinksOf
<1>8. q[p].state = "free" => q[p].shadow = None
  BY <1>1, <1>3, <1>4 DEF LinksOf
<1>9. q[p].copy # None => p = File /\ q[q[p].copy].state = "alive" /\ q[q[p].copy].shadow = File
  BY <1>1, <1>2, <1>4, <1>5 DEF LinksOf
<1>10. p # File /\ q[p].state = "alive" /\ q[p].shadow = File => q[File].copy = p
  BY <1>1, <1>2, <1>3, <1>4, <1>5 DEF LinksOf
<1> QED
  BY <1>4, <1>7, <1>8, <1>9, <1>10 DEF LinksOf

\* The new copy goes between the file and its old copy: counts.
LEMMA BetweenShadows ==
    ASSUME Inv, NEW new \in Object, NEW old \in Object \cup {None}, old = obj[File].copy,
           Free # {}, new = Fresh, NEW q, Between(obj, q, new, old), NEW o \in Object
    PROVE  /\ Tally(ShadowOf(q), o) = Tally(ShadowOf(obj), o)
                 + (IF o = new /\ old # None THEN 1 ELSE 0)
                 + (IF o = File /\ old = None THEN 1 ELSE 0)
           /\ Tally(ShadowOf(obj), o) \in Nat
<1> DEFINE s == [obj EXCEPT ![new] = q[new]]
           n == Tally(ShadowOf(obj), o)
           k == Tally(ShadowOf(s), o)
           l == Tally(ShadowOf(q), o)
<1>1. /\ obj \in Objs /\ LinksOf(obj, File) /\ obj[File].state = "alive"
      /\ File \in Object /\ None \notin Object
      /\ obj[new].state = "free" /\ new # File /\ new # None /\ new # old
  BY Constants, FreshIs DEF Inv, TypePart, LinkPart
<1>2. old # None => /\ old # File /\ obj[old].state = "alive" /\ obj[old].shadow = File
  <2>1. obj[File].shadow = None
    BY DEF Inv, LinkPart
  <2> QED
    BY <1>1, <2>1 DEF LinksOf
<1>3. \A p \in Object : s[p] = IF p = new THEN q[new] ELSE obj[p]
  BY <1>1 DEF Objs
<1> HIDE DEF s
<1>4. /\ Near(ShadowOf(s), ShadowOf(obj), Object, new)
      /\ ShadowOf(obj)[new] = None /\ ShadowOf(s)[new] = File
  BY <1>1, <1>3 DEF ShadowOf, Near, Between
<1>5. k = n + (IF o = File THEN 1 ELSE 0) /\ n \in Nat
  <2>1. /\ k = n - (IF ShadowOf(obj)[new] = o THEN 1 ELSE 0)
                 + (IF ShadowOf(s)[new] = o THEN 1 ELSE 0)
        /\ n \in Nat
    <3> HIDE DEF n, k
    <3> QED
      BY <1>4, ShadowCounts DEF n, k
  <2> HIDE DEF n, k
  <2> QED
    BY <1>1, <1>4, <2>1
<1>6. CASE old = None
  <2>1. \A p \in Object : ShadowOf(q)[p] = ShadowOf(s)[p]
    BY <1>1, <1>3, <1>6 DEF ShadowOf, Between
  <2>2. l = k
    BY <2>1, ShadowSame
  <2> HIDE DEF n, k, l
  <2>3. (IF o = new /\ old # None THEN 1 ELSE 0) = 0
        /\ (IF o = File /\ old = None THEN 1 ELSE 0) = IF o = File THEN 1 ELSE 0
    BY <1>6
  <2>4. l = n + 0 + (IF o = File THEN 1 ELSE 0)
    BY <1>5, <2>2
  <2> QED
    BY <1>5, <2>3, <2>4 DEF n, l
<1>7. CASE old # None
  <2>1. /\ Near(ShadowOf(q), ShadowOf(s), Object, old)
        /\ ShadowOf(s)[old] = File /\ ShadowOf(q)[old] = new
    <3>1. Near(ShadowOf(q), ShadowOf(s), Object, old)
      BY <1>1, <1>3 DEF ShadowOf, Near, Between
    <3>2. ShadowOf(s)[old] = File /\ ShadowOf(q)[old] = new
      BY <1>1, <1>2, <1>3, <1>7 DEF ShadowOf, Between
    <3> QED
      BY <3>1, <3>2
  <2>2. /\ l = k - (IF ShadowOf(s)[old] = o THEN 1 ELSE 0)
                 + (IF ShadowOf(q)[old] = o THEN 1 ELSE 0)
        /\ k \in Nat
    <3>1. old \in Object
      BY <1>7
    <3> HIDE DEF l, k
    <3> QED
      BY <2>1, <3>1, ShadowCounts DEF l, k
  <2>3. (IF o = new /\ old # None THEN 1 ELSE 0) = (IF o = new THEN 1 ELSE 0)
        /\ (IF o = File /\ old = None THEN 1 ELSE 0) = 0
    BY <1>7
  <2>4. /\ (IF ShadowOf(s)[old] = o THEN 1 ELSE 0) = (IF o = File THEN 1 ELSE 0)
        /\ (IF ShadowOf(q)[old] = o THEN 1 ELSE 0) = (IF o = new THEN 1 ELSE 0)
    BY <2>1
  <2> HIDE DEF n, k, l
  <2> DEFINE i == IF o = new THEN 1 ELSE 0
             j == IF o = File THEN 1 ELSE 0
  <2>5. i \in Int /\ j \in Int
    OBVIOUS
  <2>6. k = n + j /\ l = k - j + i
    BY <1>5, <2>2, <2>4
  <2> HIDE DEF i, j
  <2>7. l = n + i + 0
    BY <1>5, <2>5, <2>6
  <2> QED
    BY <1>5, <2>3, <2>7 DEF n, l, i
<1> QED
  BY <1>6, <1>7

\* The new copy goes between the file and its old copy: the chain still ends.
LEMMA BetweenRanks ==
    ASSUME Inv, NEW new \in Object, NEW old \in Object \cup {None}, old = obj[File].copy,
           Free # {}, new = Fresh, NEW q, Between(obj, q, new, old)
    PROVE  RankPart(q, fault)
<1>1. PICK r : Ranks(r, obj, fault)
  BY DEF Inv, RankPart
<1> DEFINE k == [p \in Object |-> IF p = new THEN 2 * r[File] + 1 ELSE 2 * r[p]]
<1>2. /\ r \in [Object -> Nat] /\ File \in Object /\ None \notin Object /\ obj \in Objs
      /\ fault \in Faults
  BY <1>1, Constants DEF Ranks, Inv, TypePart
<1>3. /\ new # File /\ new # None /\ new # old
      /\ \A p \in Object : obj[p].shadow # new
      /\ \A t \in Map : fault[t].first # new /\ fault[t].object # new
  <2>1. LinksOf(obj, File) /\ obj[File].state = "alive" /\ obj[new].state = "free"
    BY <1>2, FreshIs DEF Inv, LinkPart
  <2>2. /\ new # File /\ new # None
        /\ \A p \in Object : obj[p].shadow # new
        /\ \A t \in Map : fault[t].first # new /\ fault[t].object # new
    BY FreshIs
  <2> QED
    BY <1>2, <2>1, <2>2 DEF LinksOf
<1>4. old # None => obj[old].shadow = File
  <2>1. LinksOf(obj, File)
    BY <1>2 DEF Inv, LinkPart
  <2> QED
    BY <2>1 DEF LinksOf
<1>5. k \in [Object -> Nat]
      /\ \A p \in Object : k[p] = IF p = new THEN 2 * r[File] + 1 ELSE 2 * r[p]
  BY <1>2
<1> HIDE DEF k
<1>6. ASSUME NEW p \in Object, q[p].shadow # None
      PROVE  k[q[p].shadow] < k[p]
  <2>1. q[p].shadow = IF p = new THEN File ELSE IF p = old THEN new ELSE obj[p].shadow
    BY DEF Between
  <2>2. CASE p = new
    BY <1>2, <1>3, <1>5, <2>1, <2>2
  <2>3. CASE p # new /\ p = old
    <3>1. obj[p].shadow = File /\ r[File] < r[p] /\ r[File] \in Nat /\ r[p] \in Nat
      BY <1>1, <1>2, <1>4, <2>3 DEF Ranks
    <3>2. k[p] = 2 * r[p] /\ k[q[p].shadow] = 2 * r[File] + 1
      BY <1>5, <2>1, <2>3
    <3> QED
      BY <3>1, <3>2
  <2>4. CASE p # new /\ p # old
    <3>1. q[p].shadow = obj[p].shadow /\ obj[p].shadow \in Object /\ obj[p].shadow # new
      BY <1>2, <1>3, <1>6, <2>1, <2>4, ObjectIs
    <3>2. r[obj[p].shadow] < r[p] /\ r[obj[p].shadow] \in Nat /\ r[p] \in Nat
      BY <1>1, <1>2, <1>6, <3>1 DEF Ranks
    <3>3. k[p] = 2 * r[p] /\ k[q[p].shadow] = 2 * r[obj[p].shadow]
      BY <1>5, <2>4, <3>1
    <3> QED
      BY <3>2, <3>3
  <2> QED
    BY <2>2, <2>3, <2>4
<1>7. ASSUME NEW t \in Map, fault[t].object \notin {None, fault[t].first}
      PROVE  k[fault[t].object] < k[fault[t].first]
  <2>1. fault[t].object \in Object /\ ShapeOf(fault[t]) /\ fault[t].first \in Object \cup {None}
    BY <1>2, <1>7, FaultIs DEF Inv, TypePart
  <2>2. fault[t].first \in Object
    BY <1>2, <2>1 DEF ShapeOf
  <2>3. r[fault[t].object] < r[fault[t].first]
    BY <1>1, <1>7 DEF Ranks
  <2>4. k[fault[t].object] = 2 * r[fault[t].object] /\ k[fault[t].first] = 2 * r[fault[t].first]
    BY <1>3, <1>5, <2>1, <2>2
  <2>5. r[fault[t].object] \in Nat /\ r[fault[t].first] \in Nat
    BY <1>2, <2>1, <2>2
  <2> QED
    BY <2>3, <2>4, <2>5
<1>8. Ranks(k, q, fault)
  BY <1>5, <1>6, <1>7 DEF Ranks
<1> QED
  BY <1>8 DEF RankPart

\* The new copy goes between the file and its old copy: the invariant.
LEMMA BetweenStep ==
    ASSUME Inv, NEW m \in Map, NEW d \in Map, Copy(m, d),
           NEW new \in Object, NEW old \in Object \cup {None}, old = obj[File].copy,
           Free # {}, new = Fresh, Between(obj, obj', new, old),
           entry' = [entry EXCEPT ![d] = [object |-> new, needs_copy |-> TRUE]]
    PROVE  Inv'
<1> DEFINE v == [object |-> new, needs_copy |-> TRUE]
<1>1. /\ obj \in Objs /\ fault \in Faults /\ drops \in [Object -> Nat]
      /\ entry \in [Map -> EntryType] /\ entry[d] = None
      /\ fault' = fault /\ daemon' = daemon /\ drops' = drops
      /\ \A p \in Object : obj[p].ref_count \in Int
      /\ entry' = [entry EXCEPT ![d] = v]
      /\ obj[File].state = "alive" /\ obj[File].shadow = None
      /\ obj[new].state = "free" /\ new # File
  BY ObjectIs, FreshIs DEF Inv, TypePart, LinkPart, Copy
<1>2. v \in EntryType /\ v # None /\ v.object = new
  BY NewEntry
<1> HIDE DEF v
<1>3. obj' \in Objs
  BY DEF Between
<1>4. RankPart(obj', fault')
  BY <1>1, BetweenRanks
<1>5. obj'[File].state = "alive" /\ obj'[File].shadow = None
  <2>1. old # File
    BY <1>1, Constants DEF Inv, LinkPart, LinksOf
  <2> QED
    BY <1>1, <2>1, Constants DEF Between
<1>6. EnvAll
  <2> SUFFICES ASSUME NEW p \in Object, NEW x \in Page
               PROVE  /\ Held(obj'[p].page[x]) <=> Held(obj[p].page[x])
                      /\ Busy(obj[p].page[x]) /\ ~Busy(obj'[p].page[x]) =>
                            \A u \in Map : ~Waits(fault'[u], p, x)
    BY DEF EnvAll
  <2>1. /\ Held(obj'[p].page[x]) <=> Held(obj[p].page[x])
        /\ Busy(obj[p].page[x]) /\ ~Busy(obj'[p].page[x]) => p = new
    BY DEF Between
  <2>2. \A u \in Map : ~Waits(fault[u], new, x)
    BY FreshIs
  <2> QED
    BY <1>1, <2>1, <2>2
<1>7. \A p \in Object : LinksOf(obj', p)
  BY BetweenLinks
<1>8. EnvRefs
  <2> SUFFICES ASSUME NEW p \in Object
               PROVE  /\ LinksOf(obj', p)
                      /\ obj'[p].ref_count = obj[p].ref_count
                            - Tally(EntryOf(entry), p) + Tally(EntryOf(entry'), p)
                            - Tally(ShadowOf(obj), p) + Tally(ShadowOf(obj'), p)
                            - drops[p] + drops'[p]
                      /\ obj'[p].paging_in_progress = obj[p].paging_in_progress
                      /\ obj'[p].state = "free" => obj[p].paging_in_progress = 0
    BY DEF EnvRefs
  <2> DEFINE n1 == Tally(EntryOf(entry), p)
             n2 == Tally(ShadowOf(obj), p)
             n3 == Tally(EntryOf(entry'), p)
             n4 == Tally(ShadowOf(obj'), p)
             i == IF p = new THEN 1 ELSE 0
             j == IF p = new /\ old # None THEN 1 ELSE 0
             l == IF p = File /\ old = None THEN 1 ELSE 0
  <2>1. n4 = n2 + j + l /\ n2 \in Nat
    <3> HIDE DEF n4, n2
    <3> QED
      BY BetweenShadows DEF n4, n2
  <2>2. n3 = n1 + i /\ n1 \in Nat
    <3>1. /\ Tally(EntryOf(Moved(entry, d, v)), p) = n1 - Has(entry[d], p) + Has(v, p)
          /\ n1 \in Nat
      <4>1. entry \in [Map -> EntryType] /\ d \in Map /\ v \in EntryType /\ p \in Object
        BY <1>1, <1>2
      <4> QED
        BY ONLY <4>1, EntryMoved
    <3>2. n3 = n1 - Has(entry[d], p) + Has(v, p)
      BY <1>1, <3>1 DEF Moved
    <3>3. Has(entry[d], p) = 0 /\ Has(v, p) = i
      BY <1>1, <1>2 DEF Has
    <3> HIDE DEF n1, n3
    <3> QED
      BY <3>1, <3>2, <3>3
  <2>3. obj'[p].ref_count = obj[p].ref_count + i + j + l
    <3> HIDE DEF i, j, l
    <3> QED
      BY DEF Between, i, j, l
  <2>4. /\ obj[p].ref_count \in Int /\ drops[p] \in Nat /\ drops'[p] = drops[p]
        /\ i \in Int /\ j \in Int /\ l \in Int
    BY <1>1
  <2> HIDE DEF n1, n2, n3, n4, i, j, l
  <2>5. obj'[p].ref_count = obj[p].ref_count - n1 + n3 - n2 + n4 - drops[p] + drops'[p]
    BY <2>1, <2>2, <2>3, <2>4
  <2>6. /\ obj'[p].paging_in_progress = obj[p].paging_in_progress
        /\ obj'[p].state = "free" => obj[p].state = "free"
    BY DEF Between
  <2>7. obj[p].state = "free" => obj[p].paging_in_progress = 0
    BY DEF Inv, PagingPart
  <2> QED
    BY <1>7, <2>5, <2>6, <2>7 DEF n1, n2, n3, n4
<1>9. entry' \in [Map -> EntryType] /\ drops' \in [Object -> Nat]
      /\ fault' \in Faults /\ \A u \in Map : Roused(fault[u], fault'[u])
  BY <1>1, <1>2, RousedSelf
<1>10. AbsentPart(obj')
  <2>1. AbsentPart(obj)
    BY DEF Inv
  <2> QED
    BY <2>1 DEF AbsentPart, Between
<1> QED
  BY <1>1, <1>3, <1>4, <1>5, <1>6, <1>8, <1>9, <1>10, EnvStep

\* vm_object_copy_delayed, which takes the present copy if that has no pages.
LEMMA CopyDelayedStep ==
    ASSUME Inv, NEW m \in Map, NEW d \in Map, Copy(m, d), CopyDelayed(m, d)
    PROVE  Inv'
<1> DEFINE old == obj[File].copy
           new == Fresh
           s == Inserted(obj, new)
           reuse == /\ old # None
                    /\ obj[old].page = [x \in Page |-> None]
                    /\ ~obj[old].pager_created
<1>1. old \in Object \cup {None} /\ File \in Object
  BY Constants, ObjectIs DEF Inv, TypePart
<1>2. CASE reuse
  <2>1. /\ old \in Object /\ obj' = [obj EXCEPT ![old].ref_count = @ + 1]
        /\ entry' = [entry EXCEPT ![d] = [object |-> old, needs_copy |-> TRUE]]
    BY <1>1, <1>2 DEF CopyDelayed
  <2> HIDE DEF reuse, new, s
  <2> QED
    BY <2>1, CopyReuses
<1>3. CASE ~reuse
  <2>1. /\ Free # {} /\ entry' = [entry EXCEPT ![d] = [object |-> new, needs_copy |-> TRUE]]
        /\ obj' = IF old = None THEN s
                  ELSE [s EXCEPT ![File].ref_count = @ - 1,
                                 ![old].shadow = new,
                                 ![old].panic = @ \/ obj[old].shadow # File,
                                 ![new].ref_count = @ + 1]
    BY <1>3 DEF CopyDelayed, Inserted
  <2> HIDE DEF reuse, s
  <2>2. /\ new \in Object /\ obj[new].state = "free" /\ new # File /\ new # None
        /\ obj[new].ref_count = 0 /\ obj[new].paging_in_progress = 0 /\ obj[new].copy = None
        /\ \A x \in Page : ~Held(obj[new].page[x])
    BY <2>1, FreshIs
  <2>3. Between(obj, s, new, None)
    <3> HIDE DEF new
    <3> QED
      BY <2>2, InsertedIs DEF s
  <2>4. Between(obj, obj', new, old)
    <3>1. CASE old = None
      BY <2>1, <2>3, <3>1
    <3>2. CASE old # None
      <4>1. old # File /\ obj[old].state = "alive" /\ obj[old].shadow = File
        BY <1>1, <3>2 DEF Inv, LinkPart, LinksOf
      <4>2. new # old /\ old \in Object
        BY <1>1, <2>2, <3>2, <4>1
      <4> HIDE DEF new, old
      <4>3. Between(obj, [s EXCEPT ![File].ref_count = @ - 1,
                                  ![old].shadow = new,
                                  ![old].panic = @ \/ obj[old].shadow # File,
                                  ![new].ref_count = @ + 1], new, old)
        BY <2>2, <2>3, <4>1, <4>2, ReshadowedIs
      <4> QED
        BY <2>1, <3>2, <4>3
    <3> QED
      BY <3>1, <3>2
  <2>5. new = Fresh /\ old = obj[File].copy
    OBVIOUS
  <2> HIDE DEF new, old
  <2> QED
    BY <1>1, <2>1, <2>2, <2>4, <2>5, BetweenStep
<1> QED
  BY <1>2, <1>3

\* An entry is copied.
LEMMA CopyStep == ASSUME Inv, NEW m \in Map, NEW d \in Map, Copy(m, d) PROVE Inv'
<1>1. CopyTemporary(m, d) \/ CopyDelayed(m, d)
  BY DEF Copy
<1> QED
  BY <1>1, CopyTemporaryStep, CopyDelayedStep

-----------------------------------------------------------------------------
(* A fault begins. *)

FullRefs(t) ==
    \A o \in Object :
        /\ LinksOf(obj', o)
        /\ obj'[o].ref_count = obj[o].ref_count
              - Tally(EntryOf(entry), o) + Tally(EntryOf(entry'), o)
              - Tally(ShadowOf(obj), o) + Tally(ShadowOf(obj'), o)
              - Refers(fault[t], o) + Refers(fault'[t], o)
        /\ obj'[o].paging_in_progress = obj[o].paging_in_progress
              - Uses(fault[t], o) + Uses(fault'[t], o)
        /\ obj'[o].state = "free" => obj[o].state = "free" /\ Uses(fault'[t], o) = 0

\* A step of thread t that changes the chains of objects and the entry of its map.
LEMMA FullStep ==
    ASSUME Inv, NEW t \in Map, obj' \in Objs, Turned(fault, fault', t), ShapeOf(fault'[t]),
           drops' = drops, entry' \in [Map -> EntryType], daemon' = daemon,
           RankPart(obj', fault'),
           obj'[File].state = "alive", obj'[File].shadow = None,
           FullRefs(t), TurnAll(t),
           AbsentPart(obj')
    PROVE  Inv'
<1> DEFINE a == fault[t]
           b == fault'[t]
<1>1. TypePart(obj', entry', fault', daemon', drops')
  <2>1. ASSUME NEW u \in Map PROVE ShapeOf(fault'[u])
    <3>1. CASE u = t
      BY <3>1
    <3>2. CASE u # t
      <4>1. ShapeOf(fault[u]) /\ Roused(fault[u], fault'[u])
        BY <3>2 DEF Inv, TypePart, Turned
      <4> QED
        BY <4>1 DEF ShapeOf, Roused
    <3> QED
      BY <3>1, <3>2
  <2> QED
    BY <2>1 DEF Inv, TypePart, Turned
<1>2. LinkPart(obj', entry', fault', drops')
  <2>1. ASSUME NEW o \in Object
        PROVE  obj'[o].ref_count = Users(obj', entry', fault', drops', o)
    <3> DEFINE n1 == Tally(EntryOf(entry), o)
               n2 == Tally(ShadowOf(obj), o)
               n3 == FaultRefs(fault, o)
               n4 == Refers(a, o)
               n5 == Refers(b, o)
               n6 == IF o = File THEN 1 ELSE 0
               n7 == Tally(EntryOf(entry'), o)
               n8 == Tally(ShadowOf(obj'), o)
               k == drops[o]
    <3>2. /\ FaultRefs(fault', o) = n3 - n4 + n5
          /\ n4 \in Nat /\ n5 \in Nat
      <4>1. \A u \in Map : u # t => Roused(fault[u], fault'[u])
        BY DEF Turned
      <4> QED
        BY <4>1, TurnCounts
    <3>3. n3 \in Nat /\ n6 \in Nat
      BY CountsAre
    <3>4. n1 \in Nat /\ n2 \in Nat /\ n7 \in Nat /\ n8 \in Nat
      <4>1. /\ DOMAIN ShadowOf(obj) = Object /\ DOMAIN EntryOf(entry) = Map
            /\ DOMAIN ShadowOf(obj') = Object /\ DOMAIN EntryOf(entry') = Map
        BY DEF ShadowOf, EntryOf
      <4> QED
        BY <4>1, Constants, TallyIs
    <3>5. obj[o].ref_count = n1 + n2 + n3 + k + n6
      BY DEF Inv, LinkPart, Users
    <3>6. Users(obj', entry', fault', drops', o) = n7 + n8 + FaultRefs(fault', o) + k + n6
      BY DEF Users
    <3>7. k \in Nat
      BY DEF Inv, TypePart
    <3>8. obj'[o].ref_count = obj[o].ref_count - n1 + n7 - n2 + n8 - n4 + n5
      BY DEF FullRefs
    <3> HIDE DEF n1, n2, n3, n4, n5, n6, n7, n8, k
    <3> QED
      BY <3>2, <3>3, <3>4, <3>5, <3>6, <3>7, <3>8
  <2> QED
    BY <2>1 DEF LinkPart, FullRefs
<1>3. PagingPart(obj', fault', daemon')
  <2>1. PagingPart(obj, fault, daemon)
    BY DEF Inv
  <2>2. PagingPart(obj', fault', daemon)
    BY <2>1, PagingTurn DEF FullRefs
  <2> QED
    BY <2>2
<1>4. PagesPart(obj', fault', daemon')
  <2>1. PagesPart(obj, fault, daemon)
    BY DEF Inv
  <2>2. PagesPart(obj', fault', daemon)
    <3>1. \A u \in Map : u # t => Roused(fault[u], fault'[u])
      BY DEF Turned
    <3>2. \A o \in Object, x \in Page :
             /\ TurnPage(fault[t], fault'[t], obj[o].page[x], obj'[o].page[x], o, x)
             /\ Busy(obj[o].page[x]) /\ ~Busy(obj'[o].page[x]) =>
                   \A u \in Map : u # t => ~Waits(fault'[u], o, x)
      BY DEF TurnAll
    <3> QED
      BY ONLY <2>1, <3>1, <3>2, TurnPages
  <2> QED
    BY <2>2
<1> QED
  BY <1>1, <1>2, <1>3, <1>4 DEF Inv

\* A mapping of File is of what is there, never of a copy to be made.
EntryPart(e) == \A m \in Map : e[m] # None /\ e[m].object = File => ~e[m].needs_copy

\* Object o has one more reference and is being paged once more.
Taken(r) == [r EXCEPT !.ref_count = @ + 1, !.paging_in_progress = @ + 1]

\* A fault's references to the object it starts in.
LEMMA TakenIs ==
    ASSUME NEW r \in LooseObject
    PROVE  /\ Taken(r) \in LooseObject
           /\ Taken(r).state = r.state /\ Taken(r).shadow = r.shadow /\ Taken(r).copy = r.copy
           /\ Taken(r).panic = r.panic /\ Taken(r).page = r.page
           /\ Taken(r).pager_created = r.pager_created
           /\ Taken(r).ref_count = r.ref_count + 1
           /\ Taken(r).paging_in_progress = r.paging_in_progress + 1
<1> DEFINE c == r.ref_count + 1
           n == r.paging_in_progress + 1
<1>1. c \in Int /\ n \in Int
  BY DEF LooseObject
<1>2. Taken(r) = [r EXCEPT !.ref_count = c, !.paging_in_progress = n]
  BY DEF Taken
<1>3. c = r.ref_count + 1 /\ n = r.paging_in_progress + 1
  OBVIOUS
<1> HIDE DEF c, n
<1>4. Taken(r) \in LooseObject
  BY <1>1, <1>2, Zenon DEF LooseObject
<1> QED
  BY <1>2, <1>3, <1>4 DEF LooseObject

\* The fault of thread t that begins in object o: it searches there.
Begun(f, t, o, x, write, prot) ==
    [f EXCEPT ![t] =
        [Idle EXCEPT !.pc = "search", !.first = o, !.object = o,
                     !.page = x, !.write = write, !.prot = prot]]

\* The fault as it starts: it refers to and pages in the first object alone.
LEMMA BegunIs ==
    ASSUME NEW f \in Faults, NEW t \in Map, ShapeOf(f[t]), f[t].pc = "idle",
           NEW o \in Object, NEW x \in Page, NEW write \in BOOLEAN, NEW prot \in BOOLEAN
    PROVE  LET g == Begun(f, t, o, x, write, prot) IN
           /\ Turned(f, g, t) /\ \A u \in Map : u # t => g[u] = f[u]
           /\ ShapeOf(g[t]) /\ g[t].object = o /\ g[t].first = o
           /\ \A p \in Object :
                 /\ Refers(f[t], p) = 0 /\ Refers(g[t], p) = IF p = o THEN 1 ELSE 0
                 /\ Uses(f[t], p) = 0 /\ Uses(g[t], p) = IF p = o THEN 1 ELSE 0
                 /\ \A y \in Page : /\ ~Owns(f[t], p, y) /\ ~Owns(g[t], p, y)
                                    /\ ~Waits(g[t], p, y)
<1> DEFINE b == [Idle EXCEPT !.pc = "search", !.first = o, !.object = o,
                             !.page = x, !.write = write, !.prot = prot]
           g == Begun(f, t, o, x, write, prot)
<1>1. b \in FaultType
  BY DEF Idle, FaultType
<1>2. b.pc = "search" /\ b.first = o /\ b.object = o /\ b.page = x
  BY DEF Idle
<1>3. g = [f EXCEPT ![t] = b]
  BY DEF Begun
<1> HIDE DEF b, g
<1>4. g \in Faults /\ g[t] = b /\ \A u \in Map : u # t => g[u] = f[u]
  BY <1>1, <1>3 DEF Faults
<1>5. Turned(f, g, t)
  BY <1>4, RousedSelf DEF Turned
<1>6. ShapeOf(b)
  BY <1>2, Constants DEF ShapeOf
<1>7. f[t].first = None /\ f[t].object = None
  BY DEF ShapeOf
<1>8. ASSUME NEW p \in Object
      PROVE  /\ Refers(f[t], p) = 0 /\ Refers(b, p) = IF p = o THEN 1 ELSE 0
             /\ Uses(f[t], p) = 0 /\ Uses(b, p) = IF p = o THEN 1 ELSE 0
             /\ \A y \in Page : /\ ~Owns(f[t], p, y) /\ ~Owns(b, p, y)
                                /\ ~Waits(b, p, y)
  BY <1>2, <1>7, Constants DEF Refers, Uses, Owns, Waits
<1> QED
  BY <1>2, <1>4, <1>5, <1>6, <1>8 DEF g

\* What a fault in map t does, with object o, made for it if "make".
FaultTo(t, o, make) ==
    /\ o \in Object /\ entry[t] # None /\ fault[t].pc = "idle"
    /\ daemon' = daemon /\ drops' = drops
    /\ \E c \in BOOLEAN, x \in Page, write, prot \in BOOLEAN :
          /\ entry' = Moved(entry, t, [object |-> o, needs_copy |-> c])
          /\ fault' = Begun(fault, t, o, x, write, prot)
    /\ IF make
       THEN /\ Free # {} /\ o = Fresh /\ entry[t].object # File
            /\ obj' = [obj EXCEPT ![o] = Taken([NewObject EXCEPT !.shadow = entry[t].object])]
       ELSE o = entry[t].object /\ obj' = [obj EXCEPT ![o] = Taken(obj[o])]

\* What the start of a fault does: an entry without an object gets one, and
\* a needs_copy entry a shadow, and the fault takes its references.
LEMMA FaultIsTo ==
    ASSUME Inv, EntryPart(entry), NEW t \in Map, NEW x \in Page, NEW write \in BOOLEAN,
           Fault(t, x, write)
    PROVE  \E o \in Object, make \in BOOLEAN : FaultTo(t, o, make)
<1> DEFINE e == entry[t]
           make == e.object = None \/ (write /\ e.needs_copy)
           o == IF make THEN Fresh ELSE e.object
           c == e.needs_copy /\ ~write
           prot == write \/ ~e.needs_copy
           n == IF make THEN [NewObject EXCEPT !.shadow = e.object] ELSE obj[o]
<1>1. /\ e # None /\ fault[t].pc = "idle" /\ (make => Free # {})
      /\ daemon' = daemon /\ drops' = drops
      /\ entry \in [Map -> EntryType]
      /\ obj' = [obj EXCEPT ![o] = [n EXCEPT !.ref_count = @ + 1, !.paging_in_progress = @ + 1]]
      /\ entry' = [entry EXCEPT ![t] = [object |-> o, needs_copy |-> c]]
      /\ fault' = [fault EXCEPT ![t] =
                      [Idle EXCEPT !.pc = "search", !.first = o, !.object = o,
                                   !.page = x, !.write = write, !.prot = prot]]
  <2>1. /\ e # None /\ fault[t].pc = "idle" /\ (make => Free # {})
        /\ daemon' = daemon /\ drops' = drops
    BY DEF Fault
  <2>2. obj' = [obj EXCEPT ![o] = [n EXCEPT !.ref_count = @ + 1, !.paging_in_progress = @ + 1]]
    BY Zenon DEF Fault
  <2>3. entry' = [entry EXCEPT ![t] = [object |-> o, needs_copy |-> c]]
    BY DEF Fault
  <2>4. fault' = [fault EXCEPT ![t] =
                      [Idle EXCEPT !.pc = "search", !.first = o, !.object = o,
                                   !.page = x, !.write = write, !.prot = prot]]
    BY Zenon DEF Fault
  <2>5. entry \in [Map -> EntryType]
    BY DEF Inv, TypePart
  <2> QED
    BY ONLY <2>1, <2>2, <2>3, <2>4, <2>5
<1>2. e.object \in Object \cup {None} /\ e.needs_copy \in BOOLEAN
  BY <1>1, EntryIs
<1>3. c \in BOOLEAN /\ prot \in BOOLEAN /\ make \in BOOLEAN
  BY <1>2
<1>4. o \in Object
  BY <1>1, <1>2, FreshIs
<1>5. make => e.object # File
  BY <1>1, Constants DEF EntryPart
<1>6. /\ entry' = Moved(entry, t, [object |-> o, needs_copy |-> c])
      /\ fault' = Begun(fault, t, o, x, write, prot)
      /\ obj' = [obj EXCEPT ![o] = Taken(n)]
  <2> HIDE DEF o, c, prot, n, make
  <2> QED
    BY <1>1 DEF Moved, Begun, Taken
<1>7. /\ make => o = Fresh /\ n = [NewObject EXCEPT !.shadow = e.object]
      /\ ~make => o = e.object /\ n = obj[o]
  OBVIOUS
<1> HIDE DEF o, c, prot, n, make
<1>8. FaultTo(t, o, make)
  BY <1>1, <1>3, <1>4, <1>5, <1>6, <1>7 DEF FaultTo
<1> QED
  BY <1>3, <1>4, <1>8

\* What both ways have in common.
LEMMA FaultToIs ==
    ASSUME Inv, NEW t \in Map, NEW o \in Object, NEW make \in BOOLEAN, FaultTo(t, o, make)
    PROVE  /\ Turned(fault, fault', t) /\ \A u \in Map : u # t => fault'[u] = fault[u]
           /\ ShapeOf(fault'[t]) /\ fault'[t].object = o /\ fault'[t].first = o
           /\ \A p \in Object :
                 /\ Refers(fault[t], p) = 0 /\ Refers(fault'[t], p) = IF p = o THEN 1 ELSE 0
                 /\ Uses(fault[t], p) = 0 /\ Uses(fault'[t], p) = IF p = o THEN 1 ELSE 0
                 /\ \A y \in Page : /\ ~Owns(fault[t], p, y) /\ ~Owns(fault'[t], p, y)
                                    /\ ~Waits(fault'[t], p, y)
           /\ entry' \in [Map -> EntryType]
           /\ \A p \in Object :
                 /\ Tally(EntryOf(entry'), p)
                       = Tally(EntryOf(entry), p) - (IF p = entry[t].object THEN 1 ELSE 0)
                                                  + (IF p = o THEN 1 ELSE 0)
                 /\ Tally(EntryOf(entry), p) \in Nat
<1>1. PICK c \in BOOLEAN, x \in Page, write \in BOOLEAN, prot \in BOOLEAN :
          /\ entry' = Moved(entry, t, [object |-> o, needs_copy |-> c])
          /\ fault' = Begun(fault, t, o, x, write, prot)
  BY DEF FaultTo
<1> DEFINE v == [object |-> o, needs_copy |-> c]
<1>2. /\ entry \in [Map -> EntryType] /\ fault \in Faults /\ ShapeOf(fault[t])
      /\ fault[t].pc = "idle" /\ entry[t] # None
  BY DEF Inv, TypePart, FaultTo
<1>3. v \in EntryType /\ v # None /\ v.object = o
  BY NewEntry
<1>4. /\ Turned(fault, fault', t) /\ \A u \in Map : u # t => fault'[u] = fault[u]
      /\ ShapeOf(fault'[t]) /\ fault'[t].object = o /\ fault'[t].first = o
      /\ \A p \in Object :
                 /\ Refers(fault[t], p) = 0 /\ Refers(fault'[t], p) = IF p = o THEN 1 ELSE 0
                 /\ Uses(fault[t], p) = 0 /\ Uses(fault'[t], p) = IF p = o THEN 1 ELSE 0
                 /\ \A y \in Page : /\ ~Owns(fault[t], p, y) /\ ~Owns(fault'[t], p, y)
                                    /\ ~Waits(fault'[t], p, y)
  <2> DEFINE g == Begun(fault, t, o, x, write, prot)
  <2>1. /\ Turned(fault, g, t) /\ \A u \in Map : u # t => g[u] = fault[u]
        /\ ShapeOf(g[t]) /\ g[t].object = o /\ g[t].first = o
        /\ \A p \in Object :
                 /\ Refers(fault[t], p) = 0 /\ Refers(g[t], p) = IF p = o THEN 1 ELSE 0
                 /\ Uses(fault[t], p) = 0 /\ Uses(g[t], p) = IF p = o THEN 1 ELSE 0
                 /\ \A y \in Page : /\ ~Owns(fault[t], p, y) /\ ~Owns(g[t], p, y)
                                    /\ ~Waits(g[t], p, y)
    BY <1>2, BegunIs
  <2>2. fault' = g
    BY <1>1
  <2> HIDE DEF g
  <2> QED
    BY <2>1, <2>2
<1> HIDE DEF v
<1>5. ASSUME NEW p \in Object
      PROVE  /\ Tally(EntryOf(entry'), p)
                       = Tally(EntryOf(entry), p) - (IF p = entry[t].object THEN 1 ELSE 0)
                                                  + (IF p = o THEN 1 ELSE 0)
             /\ Tally(EntryOf(entry), p) \in Nat
             /\ entry' \in [Map -> EntryType]
  <2>1. /\ Tally(EntryOf(Moved(entry, t, v)), p)
               = Tally(EntryOf(entry), p) - Has(entry[t], p) + Has(v, p)
        /\ Tally(EntryOf(entry), p) \in Nat
        /\ Moved(entry, t, v) \in [Map -> EntryType]
    <3>1. entry \in [Map -> EntryType] /\ t \in Map /\ v \in EntryType /\ p \in Object
      BY <1>2, <1>3
    <3> QED
      BY ONLY <3>1, EntryMoved
  <2>2. /\ Has(entry[t], p) = IF p = entry[t].object THEN 1 ELSE 0
        /\ Has(v, p) = IF p = o THEN 1 ELSE 0
    BY <1>2, <1>3 DEF Has
  <2>3. entry' = Moved(entry, t, v)
    BY <1>1 DEF v
  <2> QED
    BY <2>1, <2>2, <2>3
<1> QED
  BY <1>4, <1>5

\* In an object that is there.
LEMMA FaultThere ==
    ASSUME Inv, NEW t \in Map, NEW o \in Object, FaultTo(t, o, FALSE)
    PROVE  Inv'
<1>1. /\ Turned(fault, fault', t) /\ \A u \in Map : u # t => fault'[u] = fault[u]
      /\ ShapeOf(fault'[t]) /\ fault'[t].object = o /\ fault'[t].first = o
      /\ \A p \in Object :
                 /\ Refers(fault[t], p) = 0 /\ Refers(fault'[t], p) = IF p = o THEN 1 ELSE 0
                 /\ Uses(fault[t], p) = 0 /\ Uses(fault'[t], p) = IF p = o THEN 1 ELSE 0
                 /\ \A y \in Page : /\ ~Owns(fault[t], p, y) /\ ~Owns(fault'[t], p, y)
                                    /\ ~Waits(fault'[t], p, y)
      /\ entry' \in [Map -> EntryType]
      /\ \A p \in Object :
                 /\ Tally(EntryOf(entry'), p)
                       = Tally(EntryOf(entry), p) - (IF p = entry[t].object THEN 1 ELSE 0)
                                                  + (IF p = o THEN 1 ELSE 0)
                 /\ Tally(EntryOf(entry), p) \in Nat
  BY FaultToIs
<1>2. /\ obj \in Objs /\ \A p \in Object : LinksOf(obj, p)
      /\ LinkPart(obj, entry, fault, drops) /\ drops \in [Object -> Nat]
      /\ obj[File].state = "alive" /\ obj[File].shadow = None
      /\ entry[t] # None /\ entry[t].object = o /\ daemon' = daemon /\ drops' = drops
      /\ obj' = [obj EXCEPT ![o] = Taken(obj[o])]
      /\ \A p \in Object : obj[p].ref_count \in Int /\ obj[p].paging_in_progress \in Int
  BY ObjectIs DEF Inv, TypePart, LinkPart, FaultTo
<1>3. obj[o].state = "alive"
  BY <1>2, AliveIs
<1>4. /\ obj' \in Objs
      /\ \A p \in Object :
            /\ obj'[p].state = obj[p].state /\ obj'[p].shadow = obj[p].shadow
            /\ obj'[p].copy = obj[p].copy /\ obj'[p].panic = obj[p].panic
            /\ obj'[p].page = obj[p].page /\ obj'[p].pager_created = obj[p].pager_created
            /\ obj'[p].ref_count = obj[p].ref_count + (IF p = o THEN 1 ELSE 0)
            /\ obj'[p].paging_in_progress = obj[p].paging_in_progress + (IF p = o THEN 1 ELSE 0)
  <2>1. obj[o] \in LooseObject
    BY <1>2, ObjectIs
  <2> DEFINE r == Taken(obj[o])
  <2>2. /\ r \in LooseObject
        /\ r.state = obj[o].state /\ r.shadow = obj[o].shadow /\ r.copy = obj[o].copy
        /\ r.panic = obj[o].panic /\ r.page = obj[o].page
        /\ r.pager_created = obj[o].pager_created
        /\ r.ref_count = obj[o].ref_count + 1
        /\ r.paging_in_progress = obj[o].paging_in_progress + 1
    BY <2>1, TakenIs
  <2> HIDE DEF r
  <2>3. obj' \in Objs /\ \A p \in Object : obj'[p] = IF p = o THEN r ELSE obj[p]
    BY <1>2, <2>2 DEF Objs, r
  <2> QED
    BY <1>2, <2>2, <2>3
<1>5. Kept(obj, obj')
  BY <1>2, <1>3, <1>4 DEF Kept, LinksOf
<1>6. \A p \in Object : LinksOf(obj', p) /\ ShadowOf(obj')[p] = ShadowOf(obj)[p]
  BY <1>2, <1>5, LinksKept
<1>7. RankPart(obj', fault')
  <2>1. RankPart(obj, fault)
    BY DEF Inv
  <2>2. \A p \in Object : obj'[p].shadow \in {None, obj[p].shadow}
    BY <1>4
  <2>3. \A u \in Map : \/ fault'[u].object \in {None, fault'[u].first}
                       \/ fault'[u].object = fault[u].object /\ fault'[u].first = fault[u].first
    BY <1>1
  <2> QED
    BY <2>1, <2>2, <2>3, RankSame
<1>8. FullRefs(t)
  <2> SUFFICES ASSUME NEW p \in Object
               PROVE
        /\ LinksOf(obj', p)
        /\ obj'[p].ref_count = obj[p].ref_count
              - Tally(EntryOf(entry), p) + Tally(EntryOf(entry'), p)
              - Tally(ShadowOf(obj), p) + Tally(ShadowOf(obj'), p)
              - Refers(fault[t], p) + Refers(fault'[t], p)
        /\ obj'[p].paging_in_progress = obj[p].paging_in_progress
              - Uses(fault[t], p) + Uses(fault'[t], p)
        /\ obj'[p].state = "free" => obj[p].state = "free" /\ Uses(fault'[t], p) = 0
    BY DEF FullRefs
  <2> DEFINE n1 == Tally(EntryOf(entry), p)
             n2 == Tally(ShadowOf(obj), p)
             n3 == Tally(EntryOf(entry'), p)
             n4 == Tally(ShadowOf(obj'), p)
             i == IF p = o THEN 1 ELSE 0
  <2>1. n4 = n2 /\ n2 \in Nat
    <3>1. DOMAIN ShadowOf(obj) = Object
      BY DEF ShadowOf
    <3> QED
      BY <1>6, <3>1, ShadowSame, Constants, TallyIs
  <2>2. n3 = n1 - i + i /\ n1 \in Nat /\ i \in Nat
    BY <1>1, <1>2
  <2>3. /\ obj'[p].ref_count = obj[p].ref_count + i
        /\ obj'[p].paging_in_progress = obj[p].paging_in_progress + i
        /\ obj[p].ref_count \in Int /\ obj[p].paging_in_progress \in Int
    BY <1>2, <1>4
  <2>4. Refers(fault[t], p) = 0 /\ Refers(fault'[t], p) = i
        /\ Uses(fault[t], p) = 0 /\ Uses(fault'[t], p) = i
    BY <1>1
  <2>5. obj'[p].state = "free" => obj[p].state = "free" /\ i = 0
    BY <1>3, <1>4
  <2> HIDE DEF n1, n2, n3, n4, i
  <2>6. /\ obj'[p].ref_count = obj[p].ref_count - n1 + n3 - n2 + n4 - 0 + i
        /\ obj'[p].paging_in_progress = obj[p].paging_in_progress - 0 + i
    BY <2>1, <2>2, <2>3
  <2> QED
    BY <1>6, <2>4, <2>5, <2>6 DEF n1, n2, n3, n4
<1>9. TurnAll(t)
  BY <1>1, <1>4 DEF TurnAll, TurnPage
<1>10. AbsentPart(obj')
  BY <1>4, AbsentNext
<1> QED
  BY <1>1, <1>2, <1>4, <1>7, <1>8, <1>9, <1>10, Constants, FullStep

\* Object new, which nobody used, has come to shadow sh.
Made(s, q, new, sh) ==
    /\ q \in Objs
    /\ \A p \in Object :
          /\ q[p].state = IF p = new THEN "alive" ELSE s[p].state
          /\ q[p].shadow = IF p = new THEN sh ELSE s[p].shadow
          /\ q[p].copy = s[p].copy
          /\ q[p].panic = FALSE
          /\ q[p].ref_count = s[p].ref_count
                + (IF p = new THEN 1 ELSE 0) + (IF p = new THEN 1 ELSE 0)
          /\ q[p].paging_in_progress = s[p].paging_in_progress + (IF p = new THEN 1 ELSE 0)
          /\ \A x \in Page : /\ Held(q[p].page[x]) <=> Held(s[p].page[x])
                             /\ Busy(s[p].page[x]) /\ ~Busy(q[p].page[x]) => p = new
                             /\ Absent(q[p].page[x]) =>
                                   /\ Absent(s[p].page[x])
                                   /\ q[p].pager_created = s[p].pager_created

\* vm_object_allocate or vm_object_shadow makes the free object.
LEMMA MadeIs ==
    ASSUME Inv, Free # {}, NEW sh \in Object \cup {None}, NEW new, new = Fresh
    PROVE  Made(obj, [obj EXCEPT ![new] = Taken([NewObject EXCEPT !.shadow = sh])], new, sh)
<1> DEFINE n == [NewObject EXCEPT !.shadow = sh]
           r == Taken(n)
           q == [obj EXCEPT ![new] = r]
<1>1. /\ obj \in Objs /\ \A p \in Object : LinksOf(obj, p) /\ obj[p].panic \in BOOLEAN
      /\ \A p \in Object : obj[p].ref_count \in Int /\ obj[p].paging_in_progress \in Int
  BY ObjectIs DEF Inv, TypePart, LinkPart, Objs, LooseObject
<1>2. /\ new \in Object /\ obj[new].state = "free" /\ new # File
      /\ obj[new].ref_count = 0 /\ obj[new].paging_in_progress = 0 /\ obj[new].copy = None
      /\ \A x \in Page : ~Held(obj[new].page[x])
  BY FreshIs
<1>3. /\ n \in LooseObject /\ n.state = "alive" /\ n.shadow = sh /\ n.copy = None
      /\ n.panic = FALSE /\ n.ref_count = 1 /\ n.paging_in_progress = 0
      /\ n.page = NewObject.page
  <2>1. n \in LooseObject
    BY FreeIs, RecordIs
  <2> QED
    BY <2>1, FreeIs DEF LooseObject
<1> HIDE DEF n
<1>4. /\ r \in LooseObject /\ r.state = "alive" /\ r.shadow = sh /\ r.copy = None
      /\ r.panic = FALSE /\ r.ref_count = 1 + 1 /\ r.paging_in_progress = 0 + 1
      /\ r.page = NewObject.page
  BY <1>3, TakenIs
<1> HIDE DEF r
<1>5. q \in Objs /\ \A p \in Object : q[p] = IF p = new THEN r ELSE obj[p]
  BY <1>1, <1>4 DEF Objs
<1> HIDE DEF q
<1>6. ASSUME NEW p \in Object
      PROVE
          /\ q[p].state = IF p = new THEN "alive" ELSE obj[p].state
          /\ q[p].shadow = IF p = new THEN sh ELSE obj[p].shadow
          /\ q[p].copy = obj[p].copy
          /\ q[p].panic = FALSE
          /\ q[p].ref_count = obj[p].ref_count
                + (IF p = new THEN 1 ELSE 0) + (IF p = new THEN 1 ELSE 0)
          /\ q[p].paging_in_progress = obj[p].paging_in_progress + (IF p = new THEN 1 ELSE 0)
          /\ \A x \in Page : /\ Held(q[p].page[x]) <=> Held(obj[p].page[x])
                             /\ Busy(obj[p].page[x]) /\ ~Busy(q[p].page[x]) => p = new
                             /\ Absent(q[p].page[x]) =>
                                   /\ Absent(obj[p].page[x])
                                   /\ q[p].pager_created = obj[p].pager_created
  <2>1. obj[p].panic = FALSE /\ obj[p].ref_count \in Int /\ obj[p].paging_in_progress \in Int
    BY <1>1 DEF LinksOf
  <2>2. CASE p = new
    <3>1. \A x \in Page : ~Held(r.page[x]) /\ ~Absent(r.page[x])
      BY <1>4, FreeIs DEF Held, Absent
    <3> QED
      BY <1>2, <1>4, <1>5, <2>2, <3>1
  <2>3. CASE p # new
    BY <1>5, <2>1, <2>3
  <2> QED
    BY <2>2, <2>3
<1>7. Made(obj, q, new, sh)
  BY ONLY <1>5, <1>6 DEF Made
<1> QED
  BY <1>7 DEF q, r, n

\* A new object on top of a chain: links.
LEMMA MadeLinks ==
    ASSUME Inv, Free # {}, NEW sh \in Object \cup {None}, sh # File, NEW new, new = Fresh,
           NEW q, Made(obj, q, new, sh)
    PROVE  \A p \in Object : LinksOf(q, p)
<1> SUFFICES ASSUME NEW p \in Object PROVE LinksOf(q, p)
  OBVIOUS
<1>1. /\ obj \in Objs /\ LinksOf(obj, p) /\ obj[p].ref_count \in Int
      /\ File \in Object /\ None \notin Object
  BY Constants, ObjectIs DEF Inv, TypePart, LinkPart
<1>2. /\ new \in Object /\ obj[new].state = "free" /\ new # File
      /\ obj[new].copy = None /\ \A y \in Object : obj[y].copy # new
  BY FreshIs
<1>3. /\ q[p].state = IF p = new THEN "alive" ELSE obj[p].state
      /\ q[p].shadow = IF p = new THEN sh ELSE obj[p].shadow
      /\ q[p].copy = obj[p].copy
      /\ q[p].panic = FALSE
      /\ p # new => q[p].ref_count = obj[p].ref_count + 0 + 0
      /\ q[File].copy = obj[File].copy
  BY <1>1 DEF Made
<1>4. CASE p = new
  BY <1>2, <1>3, <1>4 DEF LinksOf
<1>5. CASE p # new
  <2>1. q[p].copy # None => q[q[p].copy].state = obj[q[p].copy].state
                            /\ q[q[p].copy].shadow = obj[q[p].copy].shadow
    <3>1. obj[p].copy \in Object \cup {None}
      BY <1>1, ObjectIs
    <3> QED
      BY <1>2, <1>3, <3>1 DEF Made
  <2> QED
    BY <1>1, <1>3, <1>5, <2>1 DEF LinksOf
<1> QED
  BY <1>4, <1>5

\* A new object on top of a chain: the chain still ends.
LEMMA MadeRanks ==
    ASSUME Inv, Free # {}, NEW sh \in Object \cup {None}, NEW new, new = Fresh, sh # new,
           NEW q, Made(obj, q, new, sh), NEW f,
           \A u \in Map : \/ f[u].object \in {None, f[u].first}
                          \/ f[u] = fault[u]
    PROVE  RankPart(q, f)
<1>1. PICK r : Ranks(r, obj, fault)
  BY DEF Inv, RankPart
<1> DEFINE n == IF sh = None THEN 0 ELSE r[sh] + 1
           k == [p \in Object |-> IF p = new THEN n ELSE r[p]]
<1>2. /\ r \in [Object -> Nat] /\ obj \in Objs /\ fault \in Faults
  BY <1>1 DEF Ranks, Inv, TypePart
<1>3. /\ new \in Object
      /\ \A p \in Object : obj[p].shadow # new
      /\ \A t \in Map : fault[t].first # new /\ fault[t].object # new
  BY FreshIs
<1>4. n \in Nat /\ (sh # None => r[sh] < n)
  BY <1>2
<1> HIDE DEF n
<1>5. k \in [Object -> Nat] /\ \A p \in Object : k[p] = IF p = new THEN n ELSE r[p]
  BY <1>2, <1>4
<1> HIDE DEF k
<1>6. ASSUME NEW p \in Object, q[p].shadow # None
      PROVE  k[q[p].shadow] < k[p]
  <2>1. q[p].shadow = IF p = new THEN sh ELSE obj[p].shadow
    BY DEF Made
  <2>2. CASE p = new
    BY <1>4, <1>5, <1>6, <2>1, <2>2
  <2>3. CASE p # new
    <3>1. q[p].shadow = obj[p].shadow /\ obj[p].shadow \in Object /\ obj[p].shadow # new
      BY <1>2, <1>3, <1>6, <2>1, <2>3, ObjectIs
    <3>2. r[obj[p].shadow] < r[p]
      BY <1>1, <1>6, <3>1 DEF Ranks
    <3> QED
      BY <1>5, <2>3, <3>1, <3>2
  <2> QED
    BY <2>2, <2>3
<1>7. ASSUME NEW t \in Map, f[t].object \notin {None, f[t].first}
      PROVE  k[f[t].object] < k[f[t].first]
  <2>1. f[t] = fault[t]
    BY <1>7
  <2>2. fault[t].object \in Object /\ ShapeOf(fault[t]) /\ fault[t].first \in Object \cup {None}
    BY <1>2, <1>7, <2>1, FaultIs DEF Inv, TypePart
  <2>3. fault[t].first \in Object
    BY <1>2, <2>2 DEF ShapeOf
  <2>4. r[fault[t].object] < r[fault[t].first]
    BY <1>1, <1>7, <2>1 DEF Ranks
  <2> QED
    BY <1>3, <1>5, <2>1, <2>2, <2>3, <2>4
<1>8. Ranks(k, q, f)
  BY <1>5, <1>6, <1>7 DEF Ranks
<1> QED
  BY <1>8 DEF RankPart

\* A new object on top of a chain: counts.
LEMMA MadeShadows ==
    ASSUME Inv, Free # {}, NEW sh \in Object \cup {None}, NEW new, new = Fresh,
           NEW q, Made(obj, q, new, sh), NEW o \in Object
    PROVE  /\ Tally(ShadowOf(q), o) = Tally(ShadowOf(obj), o) + (IF o = sh THEN 1 ELSE 0)
           /\ Tally(ShadowOf(obj), o) \in Nat
<1>1. new \in Object /\ obj[new].state = "free"
  BY FreshIs
<1>2. Near(ShadowOf(q), ShadowOf(obj), Object, new)
  BY <1>1 DEF ShadowOf, Near, Made
<1>3. ShadowOf(obj)[new] = None /\ ShadowOf(q)[new] = sh
  BY <1>1 DEF ShadowOf, Made
<1> DEFINE n == Tally(ShadowOf(obj), o)
           k == Tally(ShadowOf(q), o)
<1>4. /\ k = n - (IF ShadowOf(obj)[new] = o THEN 1 ELSE 0)
               + (IF ShadowOf(q)[new] = o THEN 1 ELSE 0)
      /\ n \in Nat
  BY ONLY <1>1, <1>2, o \in Object, ShadowCounts
<1> HIDE DEF n, k
<1>5. k = n + (IF o = sh THEN 1 ELSE 0) /\ n \in Nat
  BY <1>3, <1>4, Constants
<1> QED
  BY <1>5 DEF n, k

\* In an object made for it.
LEMMA FaultMade ==
    ASSUME Inv, NEW t \in Map, NEW o \in Object, FaultTo(t, o, TRUE)
    PROVE  Inv'
<1> DEFINE sh == entry[t].object
<1>1. /\ Turned(fault, fault', t) /\ \A u \in Map : u # t => fault'[u] = fault[u]
      /\ ShapeOf(fault'[t]) /\ fault'[t].object = o /\ fault'[t].first = o
      /\ \A p \in Object :
                 /\ Refers(fault[t], p) = 0 /\ Refers(fault'[t], p) = IF p = o THEN 1 ELSE 0
                 /\ Uses(fault[t], p) = 0 /\ Uses(fault'[t], p) = IF p = o THEN 1 ELSE 0
                 /\ \A y \in Page : /\ ~Owns(fault[t], p, y) /\ ~Owns(fault'[t], p, y)
                                    /\ ~Waits(fault'[t], p, y)
      /\ entry' \in [Map -> EntryType]
      /\ \A p \in Object :
                 /\ Tally(EntryOf(entry'), p)
                       = Tally(EntryOf(entry), p) - (IF p = sh THEN 1 ELSE 0)
                                                  + (IF p = o THEN 1 ELSE 0)
                 /\ Tally(EntryOf(entry), p) \in Nat
  BY FaultToIs
<1>2. /\ obj \in Objs /\ Free # {} /\ o = Fresh /\ sh # File
      /\ obj' = [obj EXCEPT ![o] = Taken([NewObject EXCEPT !.shadow = sh])]
      /\ obj[File].state = "alive" /\ obj[File].shadow = None
      /\ entry \in [Map -> EntryType] /\ entry[t] # None
      /\ daemon' = daemon /\ drops' = drops
      /\ \A p \in Object : obj[p].ref_count \in Int /\ obj[p].paging_in_progress \in Int
  BY ObjectIs DEF Inv, TypePart, LinkPart, FaultTo
<1>3. sh \in Object \cup {None} /\ sh # o /\ o # File /\ obj[o].state = "free"
      /\ \A x \in Page : ~Held(obj[o].page[x]) /\ \A u \in Map : ~Waits(fault[u], o, x)
  <2>1. sh \in Object \cup {None}
    BY <1>2, EntryIs
  <2> QED
    BY <1>2, <2>1, FreshIs
<1> HIDE DEF sh
<1>4. Made(obj, obj', o, sh)
  <2>1. Made(obj, [obj EXCEPT ![o] = Taken([NewObject EXCEPT !.shadow = sh])], o, sh)
    BY <1>2, <1>3, MadeIs
  <2> QED
    BY <1>2, <2>1
<1>5. \A p \in Object : LinksOf(obj', p)
  BY <1>2, <1>3, <1>4, MadeLinks
<1>6. RankPart(obj', fault')
  <2>1. \A u \in Map : \/ fault'[u].object \in {None, fault'[u].first}
                       \/ fault'[u] = fault[u]
    BY <1>1
  <2> QED
    BY <1>2, <1>3, <1>4, <2>1, MadeRanks
<1>7. FullRefs(t)
  <2> SUFFICES ASSUME NEW p \in Object
               PROVE
        /\ LinksOf(obj', p)
        /\ obj'[p].ref_count = obj[p].ref_count
              - Tally(EntryOf(entry), p) + Tally(EntryOf(entry'), p)
              - Tally(ShadowOf(obj), p) + Tally(ShadowOf(obj'), p)
              - Refers(fault[t], p) + Refers(fault'[t], p)
        /\ obj'[p].paging_in_progress = obj[p].paging_in_progress
              - Uses(fault[t], p) + Uses(fault'[t], p)
        /\ obj'[p].state = "free" => obj[p].state = "free" /\ Uses(fault'[t], p) = 0
    BY DEF FullRefs
  <2> DEFINE n1 == Tally(EntryOf(entry), p)
             n2 == Tally(ShadowOf(obj), p)
             n3 == Tally(EntryOf(entry'), p)
             n4 == Tally(ShadowOf(obj'), p)
             i == IF p = o THEN 1 ELSE 0
             j == IF p = sh THEN 1 ELSE 0
  <2>1. n4 = n2 + j /\ n2 \in Nat
    <3> HIDE DEF n2, n4
    <3> QED
      BY <1>2, <1>3, <1>4, MadeShadows DEF n2, n4
  <2>2. n3 = n1 - j + i /\ n1 \in Nat /\ i \in Nat /\ j \in Nat
    BY <1>1
  <2>3. /\ obj'[p].ref_count = obj[p].ref_count + i + i
        /\ obj'[p].paging_in_progress = obj[p].paging_in_progress + i
        /\ obj[p].ref_count \in Int /\ obj[p].paging_in_progress \in Int
    BY <1>2, <1>4 DEF Made
  <2>4. Refers(fault[t], p) = 0 /\ Refers(fault'[t], p) = i
        /\ Uses(fault[t], p) = 0 /\ Uses(fault'[t], p) = i
    BY <1>1
  <2>5. obj'[p].state = "free" => obj[p].state = "free" /\ i = 0
    BY <1>4 DEF Made
  <2> HIDE DEF n1, n2, n3, n4, i, j
  <2>6. /\ obj'[p].ref_count = obj[p].ref_count - n1 + n3 - n2 + n4 - 0 + i
        /\ obj'[p].paging_in_progress = obj[p].paging_in_progress - 0 + i
    BY <2>1, <2>2, <2>3
  <2> QED
    BY <1>5, <2>4, <2>5, <2>6 DEF n1, n2, n3, n4
<1>8. TurnAll(t)
  <2> SUFFICES ASSUME NEW p \in Object, NEW x \in Page
               PROVE
        /\ TurnPage(fault[t], fault'[t], obj[p].page[x], obj'[p].page[x], p, x)
        /\ Busy(obj[p].page[x]) /\ ~Busy(obj'[p].page[x]) =>
              \A u \in Map : u # t => ~Waits(fault'[u], p, x)
    BY DEF TurnAll
  <2>1. /\ Held(obj'[p].page[x]) <=> Held(obj[p].page[x])
        /\ Busy(obj[p].page[x]) /\ ~Busy(obj'[p].page[x]) => p = o
    BY <1>4 DEF Made
  <2>2. ~Owns(fault[t], p, x) /\ ~Owns(fault'[t], p, x) /\ ~Waits(fault'[t], p, x)
    BY <1>1
  <2> QED
    BY <1>1, <1>3, <2>1, <2>2 DEF TurnPage
<1>9. obj' \in Objs /\ obj'[File].state = "alive" /\ obj'[File].shadow = None
  BY <1>2, <1>3, <1>4, Constants DEF Made
<1>10. AbsentPart(obj')
  <2>1. AbsentPart(obj)
    BY DEF Inv
  <2> QED
    BY <1>4, <2>1 DEF AbsentPart, Made
<1> QED
  BY <1>1, <1>2, <1>6, <1>7, <1>8, <1>9, <1>10, FullStep

\* The start of a fault keeps the invariant.
LEMMA FaultStep ==
    ASSUME Inv, EntryPart(entry), NEW t \in Map, NEW x \in Page, NEW write \in BOOLEAN,
           Fault(t, x, write)
    PROVE  Inv'
<1>1. PICK o \in Object, make \in BOOLEAN : FaultTo(t, o, make)
  BY FaultIsTo
<1>2. CASE make = TRUE
  BY <1>1, <1>2, FaultMade
<1>3. CASE make = FALSE
  BY <1>1, <1>3, FaultThere
<1> QED
  BY <1>2, <1>3

-----------------------------------------------------------------------------
(* vm_object_collapse *)

\* What each turn of the loop keeps, the loop keeps.
LEMMA CollapseIn ==
    ASSUME NEW s, NEW o, NEW D, s \in D, \A x \in D : CollapseOnce(x, o) \in D
    PROVE  Collapse(s, o) \in D
<1> DEFINE N == Cardinality(Object)
           Turn(x) == CollapseOnce(x, o)
           G == [z \in (1 .. N) \X D |-> Turn(z[2])]
           Body(f, i) == IF i = 0 THEN s ELSE CollapseOnce(f[i - 1], o)
           IsAfter(f) == f = [i \in 0 .. N |-> Body(f, i)]
<1>1. N \in Nat
  BY Constants, FS_CardinalityType
<1>3. ASSUME NEW x \in D PROVE Turn(x) \in D
  OBVIOUS
<1>4. G \in [(1 .. N) \X D -> D]
  <2> HIDE DEF Turn
  <2> QED
    BY <1>3
<1>5. PICK f \in [0 .. N -> D] : f[0] = s /\ \A i \in 1 .. N : f[i] = G[<<i, f[i - 1]>>]
  <2> HIDE DEF N, G, IsAfter
  <2>1. PICK f : f \in Iterates(N, D, s, G)
    BY <1>1, <1>4, Recursion
  <2> QED
    BY <2>1 DEF Iterates
<1> HIDE DEF N
<1>6. ASSUME NEW i \in 1 .. N
      PROVE  f[i] = Turn(f[i - 1])
  <2> HIDE DEF Turn
  <2>1. <<i, f[i - 1]>> \in (1 .. N) \X D
    <3>1. i - 1 \in 0 .. N
      BY <1>1
    <3>2. f[i - 1] \in D
      BY <3>1, <1>5, Zenon
    <3> QED
      BY <3>2
  <2>2. G[<<i, f[i - 1]>>] = Turn(f[i - 1])
    BY <2>1
  <2> QED
    BY <1>5, <2>2
<1>7. IsAfter(f)
  <2>1. ASSUME NEW i \in 0 .. N PROVE f[i] = Body(f, i)
    <3>1. CASE i = 0
      BY <3>1, <1>5
    <3>2. CASE i # 0
      <4>1. i \in 1 .. N
        BY <3>2, <1>1, SMT
      <4>2. f[i] = Turn(f[i - 1])
        BY <1>6, <4>1
      <4> QED
        BY <3>2, <4>2
    <3> QED
      BY <3>1, <3>2
  <2> HIDE DEF Body
  <2> QED
    BY <1>5, <2>1
<1> DEFINE h == CHOOSE g : IsAfter(g)
<1>8. IsAfter(h)
  BY <1>7
<1>9. Collapse(s, o) = h[N]
  BY DEF Collapse, N
<1> HIDE DEF h
<1>10. DOMAIN h = 0 .. N /\ \A i \in 0 .. N : h[i] = Body(h, i)
  <2> HIDE DEF Body
  <2> QED
    BY <1>8
<1> DEFINE T == {i \in Nat : i <= N => h[i] \in D}
<1>11. 0 \in T
  <2>1. h[0] = s
    BY <1>1, <1>10
  <2> QED
    BY <2>1
<1>12. ASSUME NEW i \in Nat, i \in T PROVE i + 1 \in T
  <2>1. CASE i + 1 <= N
    <3>1. i + 1 \in 0 .. N /\ i + 1 \in 1 .. N /\ i + 1 # 0 /\ (i + 1) - 1 = i /\ i <= N
      BY <1>1, <2>1, SMT
    <3>2. h[i] \in D
      BY <1>12, <3>1
    <3>3. h[i + 1] = Turn(h[i])
      BY <1>10, <3>1
    <3> HIDE DEF Turn
    <3> QED
      BY <1>3, <3>1, <3>2, <3>3
  <2>2. CASE ~(i + 1 <= N)
    BY <2>2
  <2> QED
    BY <2>1, <2>2
<1>13. h[N] \in D
  <2>1. Nat \subseteq T
    <3> HIDE DEF T
    <3> QED
      BY <1>11, <1>12, Induction
  <2> QED
    BY <2>1, <1>1
<1> QED
  BY <1>9, <1>13

\* What holds of the objects s when o is collapsed: R counts the references to
\* them but for the shadows, and an object that is not being paged has no page
\* that anyone has.
Sound(s, R, f, o) ==
    /\ s \in Objs /\ s[o].state = "alive"
    /\ s[File].state = "alive" /\ s[File].shadow = None
    /\ RankPart(s, f) /\ AbsentPart(s)
    /\ \A p \in Object :
          /\ LinksOf(s, p)
          /\ s[p].ref_count = Tally(ShadowOf(s), p) + R[p]
          /\ s[p].state = "free" => s[p].paging_in_progress = 0
          /\ p # o /\ s[p].paging_in_progress = 0 => \A x \in Page : ~Held(s[p].page[x])

\* What collapsing o does to them.
Shrunk(s, q, o) ==
    \A p \in Object :
        /\ q[p].paging_in_progress = s[p].paging_in_progress
        /\ q[p].copy = s[p].copy
        /\ \A x \in Page :
              \/ q[p].page[x] = s[p].page[x]
              \/ p # o /\ s[p].paging_in_progress = 0 /\ ~Held(q[p].page[x])
              \/ p = o /\ s[p].page[x] = None /\ ~Held(q[p].page[x])

\* The objects that o shadows, when it is collapsed.
LEMMA BackingIs ==
    ASSUME NEW s, NEW R \in [Object -> Nat], NEW f, NEW o \in Object, Sound(s, R, f, o),
           s[o].shadow # None, Collapsible(s, s[o].shadow)
    PROVE  LET b == s[o].shadow IN
           /\ b \in Object /\ b # o /\ b # File /\ o # File /\ s[b].state = "alive"
           /\ s[b].ref_count \in Nat /\ s[b].ref_count > 0
           /\ s[b].paging_in_progress = 0 /\ \A x \in Page : ~Held(s[b].page[x])
           /\ s[b].shadow \in Object \cup {None}
           /\ s[b].shadow \notin {b, o, File}
           /\ s[b].shadow # None => s[s[b].shadow].state = "alive"
           /\ \A p \in Object : s[p].copy \notin {o, b}
<1> DEFINE b == s[o].shadow
           c == s[b].shadow
<1>1. /\ s \in Objs /\ s[o].state = "alive" /\ s[File].state = "alive" /\ s[File].shadow = None
      /\ \A p \in Object : LinksOf(s, p)
      /\ \A p \in Object : s[p].ref_count = Tally(ShadowOf(s), p) + R[p]
      /\ File \in Object /\ None \notin Object
  BY Constants DEF Sound
<1>2. b # None /\ b # File /\ s[b].paging_in_progress = 0 /\ (c # None => s[c].copy = None)
  BY DEF Collapsible
<1>3. b \in Object
  BY <1>1, <1>2, ObjectIs
<1>4. c \in Object \cup {None}
  BY <1>1, <1>3, ObjectIs
<1>5. PICK r : Ranks(r, s, f)
  BY DEF Sound, RankPart
<1>6. b # o /\ c \notin {b, o}
  <2>1. r[b] < r[o] /\ r[b] \in Nat /\ r[o] \in Nat
    BY <1>2, <1>3, <1>5 DEF Ranks
  <2>2. c # None => r[c] < r[b] /\ r[c] \in Nat
    BY <1>3, <1>4, <1>5 DEF Ranks
  <2> HIDE DEF c, b
  <2> QED
    BY <1>1, <1>3, <2>1, <2>2
<1>7. ASSUME NEW p \in Object, s[p].state # "free", s[p].shadow \in Object
      PROVE  s[s[p].shadow].state = "alive" /\ s[s[p].shadow].ref_count > 0
             /\ s[s[p].shadow].ref_count \in Nat
  <2> DEFINE y == s[p].shadow
             n == Tally(ShadowOf(s), y)
  <2>1. ShadowOf(s)[p] = y /\ DOMAIN ShadowOf(s) = Object
    BY <1>7 DEF ShadowOf
  <2>2. n \in Nat /\ n > 0
    BY <2>1, Constants, TallyIs
  <2>3. s[y].ref_count = n + R[y] /\ R[y] \in Nat
    BY <1>1, <1>7
  <2> HIDE DEF n
  <2>4. s[y].ref_count \in Nat /\ s[y].ref_count > 0
    BY <2>2, <2>3
  <2>5. s[y].state = "alive"
    BY <1>1, <1>7, <2>4 DEF LinksOf
  <2> QED
    BY <2>4, <2>5
<1>8. s[b].state = "alive" /\ s[b].ref_count > 0 /\ s[b].ref_count \in Nat
  BY <1>1, <1>3, <1>7
<1>9. c # None => s[c].state = "alive"
  BY <1>3, <1>4, <1>7, <1>8
<1>10. c # File
  BY <1>1, <1>2, <1>3, <1>8 DEF LinksOf
<1>11. \A p \in Object : s[p].copy \notin {o, b}
  <2> SUFFICES ASSUME NEW p \in Object, s[p].copy # None, s[p].copy \in {o, b} PROVE FALSE
    BY <1>1, <1>3
  <2>1. s[s[p].copy].shadow = File
    BY <1>1 DEF LinksOf
  <2> QED
    BY <1>2, <1>10, <2>1
<1>12. \A x \in Page : ~Held(s[b].page[x])
  BY <1>2, <1>3, <1>6 DEF Sound
<1>13. o # File
  BY <1>1, <1>2
<1> QED
  BY <1>2, <1>3, <1>4, <1>6, <1>8, <1>9, <1>10, <1>11, <1>12, <1>13

\* Object o shadows what its backing object did, which goes if o was all it had.
Unlinked(s, q, o, gone) ==
    LET b == s[o].shadow IN
    /\ q \in Objs
    /\ gone => s[b].ref_count = 1
    /\ ~gone => s[b].ref_count # 1
    /\ \A p \in Object :
          /\ q[p].state = IF p = b /\ gone THEN "free" ELSE s[p].state
          /\ q[p].shadow = IF p = b /\ gone THEN None
                           ELSE IF p = o THEN s[b].shadow ELSE s[p].shadow
          /\ q[p].panic = FALSE
          /\ q[p].ref_count = s[p].ref_count - (IF p = b THEN 1 ELSE 0)
                                 + (IF p = s[b].shadow /\ ~gone THEN 1 ELSE 0)

\* A collapse or bypass takes the backing object out of the chain: counts.
LEMMA UnlinkedShadows ==
    ASSUME NEW s, NEW R \in [Object -> Nat], NEW f, NEW o \in Object, Sound(s, R, f, o),
           s[o].shadow # None, Collapsible(s, s[o].shadow),
           NEW gone \in BOOLEAN, NEW q, Unlinked(s, q, o, gone), NEW p \in Object
    PROVE  /\ Tally(ShadowOf(q), p) = Tally(ShadowOf(s), p)
                 - (IF p = s[o].shadow THEN 1 ELSE 0)
                 + (IF p = s[s[o].shadow].shadow /\ ~gone THEN 1 ELSE 0)
           /\ Tally(ShadowOf(s), p) \in Nat
<1> DEFINE b == s[o].shadow
           c == s[b].shadow
           m == [s EXCEPT ![o] = [s[o] EXCEPT !.shadow = c]]
           n1 == Tally(ShadowOf(s), p)
           n2 == Tally(ShadowOf(m), p)
           n3 == Tally(ShadowOf(q), p)
           i == IF p = b THEN 1 ELSE 0
           j == IF p = c THEN 1 ELSE 0
<1>1. /\ b \in Object /\ b # o /\ s[o].state = "alive" /\ s[b].state = "alive"
      /\ c \in Object \cup {None} /\ s \in Objs /\ c \notin {b, o}
  BY BackingIs DEF Sound
<1> HIDE DEF c, b
<1>2. /\ m[o].shadow = c /\ m[o].state = "alive" /\ \A y \in Object : y # o => m[y] = s[y]
  <2>1. s[o] \in LooseObject
    BY <1>1, ObjectIs
  <2>2. [s[o] EXCEPT !.shadow = c].shadow = c /\ [s[o] EXCEPT !.shadow = c].state = "alive"
    BY <1>1, <2>1 DEF LooseObject
  <2> QED
    BY <1>1, <2>2 DEF Objs
<1> HIDE DEF m
<1>3. n2 = n1 - i + j /\ n1 \in Nat
  <2>1. /\ Near(ShadowOf(m), ShadowOf(s), Object, o)
        /\ ShadowOf(s)[o] = b /\ ShadowOf(m)[o] = c
    BY <1>1, <1>2 DEF ShadowOf, Near, b
  <2>2. /\ n2 = n1 - (IF ShadowOf(s)[o] = p THEN 1 ELSE 0) + (IF ShadowOf(m)[o] = p THEN 1 ELSE 0)
        /\ n1 \in Nat
    <3>1. p \in Object /\ o \in Object
      OBVIOUS
    <3> QED
      BY ONLY <2>1, <3>1, ShadowCounts
  <2> HIDE DEF n1, n2
  <2> QED
    BY <2>1, <2>2
<1>4. /\ q[o].shadow = c /\ q[o].state = "alive"
      /\ q[b].shadow = (IF gone THEN None ELSE c)
      /\ q[b].state = (IF gone THEN "free" ELSE "alive")
      /\ \A y \in Object : y \notin {o, b} => q[y].shadow = s[y].shadow /\ q[y].state = s[y].state
  BY <1>1 DEF Unlinked, b, c
<1>5. Near(ShadowOf(q), ShadowOf(m), Object, b)
  BY <1>1, <1>2, <1>4 DEF ShadowOf, Near
<1>6. ShadowOf(m)[b] = c /\ ShadowOf(q)[b] = IF gone THEN None ELSE c
  BY <1>1, <1>2, <1>4 DEF ShadowOf, c
<1>7. n3 = n2 - (IF ShadowOf(m)[b] = p THEN 1 ELSE 0) + (IF ShadowOf(q)[b] = p THEN 1 ELSE 0)
      /\ n2 \in Nat
  <2>1. p \in Object
    OBVIOUS
  <2> QED
    BY ONLY <1>1, <1>5, <2>1, ShadowCounts
<1>8. n3 = n1 - i + (IF p = c /\ ~gone THEN 1 ELSE 0)
  <2>1. CASE gone
    <3>1. /\ (IF ShadowOf(m)[b] = p THEN 1 ELSE 0) = j /\ (IF ShadowOf(q)[b] = p THEN 1 ELSE 0) = 0
          /\ (IF p = c /\ ~gone THEN 1 ELSE 0) = 0
          /\ i \in Int /\ j \in Int
      BY <1>6, <2>1, Constants
    <3> HIDE DEF n1, n2, n3, i, j
    <3> QED
      BY <1>3, <1>7, <3>1
  <2>2. CASE ~gone
    <3>1. /\ (IF ShadowOf(m)[b] = p THEN 1 ELSE 0) = j /\ (IF ShadowOf(q)[b] = p THEN 1 ELSE 0) = j
          /\ (IF p = c /\ ~gone THEN 1 ELSE 0) = j
          /\ i \in Int /\ j \in Int
      BY <1>6, <2>2, Constants
    <3> HIDE DEF n1, n2, n3, i, j
    <3> QED
      BY <1>3, <1>7, <3>1
  <2> QED
    BY <2>1, <2>2
<1> QED
  BY <1>3, <1>8 DEF b, c

\* A collapse or bypass leaves the chain sound.
LEMMA UnlinkedSound ==
    ASSUME NEW s, NEW R \in [Object -> Nat], NEW f, NEW o \in Object, Sound(s, R, f, o),
           s[o].shadow # None, Collapsible(s, s[o].shadow),
           NEW gone \in BOOLEAN, NEW q, Unlinked(s, q, o, gone), Shrunk(s, q, o),
           AbsentPart(q)
    PROVE  Sound(q, R, f, o)
<1> DEFINE b == s[o].shadow
           c == s[b].shadow
<1>1. /\ b \in Object /\ b # o /\ b # File /\ o # File /\ s[b].state = "alive"
      /\ s[b].ref_count \in Nat /\ s[b].ref_count > 0
      /\ s[b].paging_in_progress = 0 /\ \A x \in Page : ~Held(s[b].page[x])
      /\ c \in Object \cup {None} /\ c \notin {b, o, File}
      /\ c # None => s[c].state = "alive"
      /\ \A p \in Object : s[p].copy \notin {o, b}
  BY BackingIs
<1>2. /\ s \in Objs /\ s[o].state = "alive" /\ s[File].state = "alive" /\ s[File].shadow = None
      /\ \A p \in Object : LinksOf(s, p)
      /\ \A p \in Object : s[p].ref_count = Tally(ShadowOf(s), p) + R[p]
      /\ \A p \in Object : s[p].state = "free" => s[p].paging_in_progress = 0
      /\ \A p \in Object : s[p].ref_count \in Int
      /\ File \in Object /\ None \notin Object
  BY Constants, ObjectIs DEF Sound
<1>3. /\ q \in Objs
      /\ gone => s[b].ref_count = 1
      /\ ~gone => s[b].ref_count # 1
      /\ \A p \in Object :
          /\ q[p].state = IF p = b /\ gone THEN "free" ELSE s[p].state
          /\ q[p].shadow = IF p = b /\ gone THEN None ELSE IF p = o THEN c ELSE s[p].shadow
          /\ q[p].panic = FALSE
          /\ q[p].ref_count = s[p].ref_count - (IF p = b THEN 1 ELSE 0)
                                 + (IF p = c /\ ~gone THEN 1 ELSE 0)
          /\ q[p].copy = s[p].copy
  BY DEF Unlinked, Shrunk
<1>4. RankPart(q, f)
  <2>1. PICK r : Ranks(r, s, f)
    BY DEF Sound, RankPart
  <2>2. r[b] < r[o] /\ r \in [Object -> Nat] /\ (c # None => r[c] < r[b])
    BY <1>1, <2>1 DEF Ranks
  <2>3. c # None => r[c] < r[o]
    <3>1. r[b] \in Nat /\ r[o] \in Nat /\ (c # None => r[c] \in Nat)
      BY <1>1, <2>2
    <3> HIDE DEF b, c
    <3> QED
      BY <2>2, <3>1
  <2> HIDE DEF b, c
  <2>4. ASSUME NEW p \in Object, q[p].shadow # None PROVE r[q[p].shadow] < r[p]
    BY <1>3, <2>1, <2>3, <2>4 DEF Ranks
  <2>5. Ranks(r, q, f)
    BY <2>1, <2>4 DEF Ranks
  <2> QED
    BY <2>5 DEF RankPart
<1>5. ASSUME NEW p \in Object PROVE q[p].ref_count = Tally(ShadowOf(q), p) + R[p]
  <2> DEFINE n == Tally(ShadowOf(s), p)
             k == Tally(ShadowOf(q), p)
             i == IF p = b THEN 1 ELSE 0
             j == IF p = c /\ ~gone THEN 1 ELSE 0
  <2>1. k = n - i + j /\ n \in Nat
    <3> HIDE DEF n, k
    <3> QED
      BY UnlinkedShadows DEF n, k
  <2>2. q[p].ref_count = s[p].ref_count - i + j
    BY <1>3
  <2>3. s[p].ref_count = n + R[p] /\ R[p] \in Nat /\ i \in Int /\ j \in Int
    BY <1>2
  <2> HIDE DEF n, k, i, j
  <2>4. q[p].ref_count = k + R[p]
    BY <2>1, <2>2, <2>3
  <2> QED
    BY <2>4 DEF k
<1>6. ASSUME NEW p \in Object PROVE LinksOf(q, p)
  <2> HIDE DEF b, c
  <2>0. /\ q[p].state = IF p = b /\ gone THEN "free" ELSE s[p].state
        /\ q[p].shadow = IF p = b /\ gone THEN None ELSE IF p = o THEN c ELSE s[p].shadow
        /\ q[p].panic = FALSE
        /\ q[p].ref_count = s[p].ref_count - (IF p = b THEN 1 ELSE 0)
                                 + (IF p = c /\ ~gone THEN 1 ELSE 0)
        /\ q[p].copy = s[p].copy /\ q[File].copy = s[File].copy
        /\ LinksOf(s, p) /\ s[p].ref_count \in Int
        /\ s[p].copy \in Object \cup {None}
    BY <1>2, <1>3, ObjectIs
  <2>1. q[p].state # "alive" => q[p].ref_count = 0
    <3> SUFFICES ASSUME q[p].state # "alive" PROVE q[p].ref_count = 0
      OBVIOUS
    <3>1. CASE p = b /\ gone
      <4>1. s[p].ref_count = 1 /\ p # c
        BY <1>1, <1>3, <3>1
      <4> QED
        BY <2>0, <3>1, <4>1
    <3>2. CASE ~(p = b /\ gone)
      <4>1. s[p].state # "alive" /\ p # b /\ p # c /\ s[p].ref_count = 0
        BY <1>1, <1>2, <2>0, <3>2 DEF LinksOf
      <4> QED
        BY <2>0, <4>1
    <3> QED
      BY <3>1, <3>2
  <2>2. q[p].state = "free" => q[p].shadow = None
    BY <1>1, <1>2, <2>0 DEF LinksOf
  <2>3. q[p].copy # None => p = File /\ q[q[p].copy].state = "alive" /\ q[q[p].copy].shadow = File
    <3> SUFFICES ASSUME s[p].copy # None
                 PROVE  p = File /\ q[s[p].copy].state = "alive" /\ q[s[p].copy].shadow = File
      BY <2>0
    <3>1. /\ p = File /\ s[s[p].copy].state = "alive" /\ s[s[p].copy].shadow = File
          /\ s[p].copy \in Object /\ s[p].copy \notin {o, b}
      BY <1>1, <2>0 DEF LinksOf
    <3> QED
      BY <1>3, <3>1
  <2>4. p # File /\ q[p].state = "alive" /\ q[p].shadow = File => q[File].copy = p
    BY <1>1, <1>2, <2>0 DEF LinksOf
  <2> QED
    BY <2>0, <2>1, <2>2, <2>3, <2>4 DEF LinksOf
<1>7. q[o].state = "alive" /\ q[File].state = "alive" /\ q[File].shadow = None
  <2> HIDE DEF b, c
  <2> QED
    BY <1>1, <1>2, <1>3
<1>8. ASSUME NEW p \in Object
      PROVE  /\ q[p].state = "free" => q[p].paging_in_progress = 0
             /\ p # o /\ q[p].paging_in_progress = 0 => \A x \in Page : ~Held(q[p].page[x])
  <2>1. q[p].paging_in_progress = s[p].paging_in_progress
    BY DEF Shrunk
  <2>2. q[p].state = "free" => q[p].paging_in_progress = 0
    <3> HIDE DEF b, c
    <3> QED
      BY <1>1, <1>2, <1>3, <2>1
  <2>3. ASSUME p # o, q[p].paging_in_progress = 0, NEW x \in Page PROVE ~Held(q[p].page[x])
    <3>1. ~Held(s[p].page[x])
      BY <2>1, <2>3 DEF Sound
    <3> QED
      BY <2>3, <3>1 DEF Shrunk
  <2> QED
    BY <2>2, <2>3
<1> QED
  BY <1>3, <1>4, <1>5, <1>6, <1>7, <1>8 DEF Sound

\* An object takes over what its backing object has.
TakenOver(r, h, g, c, e, d, n, j) ==
    [r EXCEPT !.page = h, !.pager = g, !.pager_created = c, !.pager_ready = e,
              !.shadow = d, !.panic = n, !.dangling = j]

\* The backing object goes, and o takes over what it has.
LEMMA CollapseFrees ==
    ASSUME NEW s, NEW R \in [Object -> Nat], NEW f, NEW o \in Object, Sound(s, R, f, o),
           s[o].shadow # None, Collapsible(s, s[o].shadow), s[s[o].shadow].ref_count = 1,
           ~s[o].pager_created, s[o].paging_in_progress = 0
    PROVE  /\ Unlinked(s, CollapseOnce(s, o), o, TRUE)
           /\ Shrunk(s, CollapseOnce(s, o), o)
           /\ AbsentPart(CollapseOnce(s, o))
<1> DEFINE b == s[o].shadow
           bo == s[b]
           kept == {x \in Page : s[o].page[x] = None}
           h == [x \in Page |-> IF x \in kept THEN bo.page[x] ELSE s[o].page[x]]
           n == s[o].panic \/ ~ \A x \in Page :
                    bo.page[x] # None =>
                        /\ ~bo.page[x].busy \/ bo.page[x].absent
                        /\ x \notin kept => ~s[o].page[x].absent
           j == s[o].dangling \/ \E x \in Page \ kept : Mapped(bo.page[x])
           k == TakenOver(s[o], h, bo.pager, bo.pager_created, bo.pager_ready, bo.shadow, n, j)
           q == [[s EXCEPT ![o] = k] EXCEPT ![b] = FreeObject]
<1>1. /\ b \in Object /\ b # o /\ b # File /\ o # File /\ s[b].state = "alive"
      /\ s[b].paging_in_progress = 0 /\ \A x \in Page : ~Held(s[b].page[x])
      /\ s[b].shadow \in Object \cup {None}
  BY BackingIs
<1>2. /\ s \in Objs /\ \A p \in Object : LinksOf(s, p) /\ s[p].panic = FALSE
      /\ s[o] \in LooseObject /\ bo \in LooseObject
  BY <1>1, ObjectIs DEF Sound, LinksOf, Objs, LooseObject
<1>3. CollapseOnce(s, o) = q
  <2>1. ~(\/ s[o].pager_created \/ s[o].paging_in_progress # 0
          \/ b = None \/ ~Collapsible(s, b))
    OBVIOUS
  <2>2. CollapseOnce(s, o) = [s EXCEPT
               ![o].page = h, ![o].pager = bo.pager,
               ![o].pager_created = bo.pager_created, ![o].pager_ready = bo.pager_ready,
               ![o].shadow = bo.shadow, ![o].panic = n, ![o].dangling = j,
               ![b] = FreeObject]
    BY <2>1 DEF CollapseOnce
  <2>3. [s EXCEPT
               ![o].page = h, ![o].pager = bo.pager,
               ![o].pager_created = bo.pager_created, ![o].pager_ready = bo.pager_ready,
               ![o].shadow = bo.shadow, ![o].panic = n, ![o].dangling = j,
               ![b] = FreeObject] = q
    <3> DEFINE g1 == bo.pager
               g2 == bo.pager_created
               g3 == bo.pager_ready
               g4 == bo.shadow
    <3> HIDE DEF h, n, j, g1, g2, g3, g4
    <3>1. [s EXCEPT
               ![o].page = h, ![o].pager = g1, ![o].pager_created = g2, ![o].pager_ready = g3,
               ![o].shadow = g4, ![o].panic = n, ![o].dangling = j,
               ![b] = FreeObject] =
          [[s EXCEPT ![o] = TakenOver(s[o], h, g1, g2, g3, g4, n, j)] EXCEPT ![b] = FreeObject]
      BY <1>1, <1>2 DEF TakenOver, Objs
    <3> QED
      BY <3>1 DEF g1, g2, g3, g4
  <2> QED
    BY <2>2, <2>3
<1>4. n = FALSE
  <2>1. \A x \in Page : bo.page[x] # None => ~bo.page[x].busy \/ bo.page[x].absent
    BY <1>1 DEF Held
  <2>2. \A x \in Page : x \notin kept => ~s[o].page[x].absent
    BY DEF Sound, AbsentPart, Absent
  <2> QED
    BY <1>2, <2>1, <2>2
<1>5. h \in [Page -> PageType \cup {None}]
      /\ \A x \in Page : h[x] = IF s[o].page[x] = None THEN bo.page[x] ELSE s[o].page[x]
  BY <1>1, <1>2, ObjectIs
<1>6. j \in BOOLEAN
  BY <1>2 DEF LooseObject
<1>7. /\ bo.pager \in [Page -> Value \cup {None}] /\ bo.pager_created \in BOOLEAN
      /\ bo.pager_ready \in BOOLEAN /\ bo.shadow \in Object \cup {None}
  BY <1>2 DEF LooseObject
<1> HIDE DEF h, n, j
<1>8. /\ k \in LooseObject /\ k.page = h /\ k.shadow = bo.shadow /\ k.panic = FALSE
      /\ k.state = s[o].state /\ k.ref_count = s[o].ref_count /\ k.copy = s[o].copy
      /\ k.paging_in_progress = s[o].paging_in_progress
      /\ k.pager_created = bo.pager_created
  <2>1. n \in BOOLEAN
    BY <1>4
  <2>2. s[o] \in LooseObject
    BY <1>2
  <2> DEFINE r == s[o]
             g1 == bo.pager
             g2 == bo.pager_created
             g3 == bo.pager_ready
             g4 == bo.shadow
  <2>3. /\ r \in LooseObject /\ h \in [Page -> PageType \cup {None}]
        /\ g1 \in [Page -> Value \cup {None}] /\ g2 \in BOOLEAN /\ g3 \in BOOLEAN
        /\ g4 \in Object \cup {None} /\ n \in BOOLEAN /\ j \in BOOLEAN
    BY <1>5, <1>6, <1>7, <2>1, <2>2
  <2> HIDE DEF r, g1, g2, g3, g4
  <2>4. LET l == TakenOver(r, h, g1, g2, g3, g4, n, j) IN
        /\ l \in LooseObject /\ l.page = h /\ l.shadow = g4 /\ l.panic = n
        /\ l.state = r.state /\ l.ref_count = r.ref_count /\ l.copy = r.copy
        /\ l.paging_in_progress = r.paging_in_progress /\ l.pager_created = g2
    <3> DEFINE l == TakenOver(r, h, g1, g2, g3, g4, n, j)
    <3>1. l \in LooseObject
      BY <2>3, Zenon DEF TakenOver, LooseObject
    <3>2. /\ l.page = h /\ l.shadow = g4 /\ l.panic = n
          /\ l.state = r.state /\ l.ref_count = r.ref_count /\ l.copy = r.copy
          /\ l.paging_in_progress = r.paging_in_progress /\ l.pager_created = g2
      BY <2>3 DEF TakenOver, LooseObject
    <3> QED
      BY <3>1, <3>2
  <2> QED
    BY <1>4, <2>4 DEF r, g1, g2, g3, g4
<1> HIDE DEF k
<1>9. q \in Objs /\ \A p \in Object : q[p] = IF p = b THEN FreeObject ELSE IF p = o THEN k ELSE s[p]
  BY <1>1, <1>2, <1>8, FreeIs DEF Objs
<1> HIDE DEF q
<1>10. s[b].copy = None /\ s[b].ref_count = 1
  BY <1>1, <1>2 DEF LinksOf
<1>11. Unlinked(s, q, o, TRUE)
  <2>1. ASSUME NEW p \in Object
        PROVE  /\ q[p].state = IF p = b /\ TRUE THEN "free" ELSE s[p].state
               /\ q[p].shadow = IF p = b /\ TRUE THEN None
                           ELSE IF p = o THEN s[b].shadow ELSE s[p].shadow
               /\ q[p].panic = FALSE
               /\ q[p].ref_count = s[p].ref_count - (IF p = b THEN 1 ELSE 0)
                                 + (IF p = s[b].shadow /\ ~TRUE THEN 1 ELSE 0)
    <3>1. s[p].ref_count \in Int /\ s[p].panic = FALSE
      BY <1>2, ObjectIs
    <3>2. CASE p = b
      BY <1>9, <1>10, <3>2, FreeIs
    <3>3. CASE p # b /\ p = o
      BY <1>8, <1>9, <3>1, <3>3
    <3>4. CASE p # b /\ p # o
      BY <1>9, <3>1, <3>4
    <3> QED
      BY <3>2, <3>3, <3>4
  <2> QED
    BY <1>9, <1>10, <2>1 DEF Unlinked
<1>12. Shrunk(s, q, o)
  <2>1. ASSUME NEW p \in Object
        PROVE  /\ q[p].paging_in_progress = s[p].paging_in_progress
               /\ q[p].copy = s[p].copy
               /\ \A x \in Page :
                     \/ q[p].page[x] = s[p].page[x]
                     \/ p # o /\ s[p].paging_in_progress = 0 /\ ~Held(q[p].page[x])
                     \/ p = o /\ s[p].page[x] = None /\ ~Held(q[p].page[x])
    <3>2. CASE p = b
      BY <1>1, <1>9, <1>10, <3>2, FreeIs DEF Held
    <3>3. CASE p # b /\ p = o
      BY <1>1, <1>5, <1>8, <1>9, <3>3
    <3>4. CASE p # b /\ p # o
      BY <1>9, <3>4
    <3> QED
      BY <3>2, <3>3, <3>4
  <2> QED
    BY <2>1 DEF Shrunk
<1>13. AbsentPart(q)
  <2>1. ASSUME NEW p \in Object, NEW x \in Page, Absent(q[p].page[x])
        PROVE  q[p].pager_created
    <3>1. \A p2 \in Object : Absent(s[p2].page[x]) => s[p2].pager_created
      BY DEF Sound, AbsentPart
    <3>2. CASE p = b
      BY <1>9, <2>1, <3>2, FreeIs DEF Absent
    <3>3. CASE p # b /\ p = o
      <4>1. s[o].page[x] # None => ~Absent(s[o].page[x])
        BY <3>1
      <4>2. Absent(bo.page[x])
        BY <1>5, <1>8, <1>9, <2>1, <3>3, <4>1
      <4> QED
        BY <1>1, <1>8, <1>9, <3>1, <3>3, <4>2
    <3>4. CASE p # b /\ p # o
      BY <1>9, <2>1, <3>1, <3>4
    <3> QED
      BY <3>2, <3>3, <3>4
  <2> QED
    BY <2>1 DEF AbsentPart
<1> QED
  BY <1>3, <1>11, <1>12, <1>13

\* Object o has all that its backing object would give it, and leaves it out.
LEMMA CollapseSkips ==
    ASSUME NEW s, NEW R \in [Object -> Nat], NEW f, NEW o \in Object, Sound(s, R, f, o),
           s[o].shadow # None, Collapsible(s, s[o].shadow), s[s[o].shadow].ref_count # 1,
           ~s[o].pager_created, s[o].paging_in_progress = 0, Hidden(s, o, s[o].shadow)
    PROVE  /\ Unlinked(s, CollapseOnce(s, o), o, FALSE)
           /\ Shrunk(s, CollapseOnce(s, o), o)
           /\ AbsentPart(CollapseOnce(s, o))
<1> DEFINE b == s[o].shadow
           c == s[b].shadow
           n == s[b].ref_count - 1
           k == [s[o] EXCEPT !.shadow = c]
           h == [s[b] EXCEPT !.ref_count = n]
           s1 == [[s EXCEPT ![o] = k] EXCEPT ![b] = h]
           q == IF c = None THEN s1 ELSE [s1 EXCEPT ![c].ref_count = @ + 1]
<1>1. /\ b \in Object /\ b # o /\ b # File /\ o # File
      /\ c \in Object \cup {None} /\ c \notin {b, o}
  BY BackingIs
<1>2. /\ s \in Objs /\ \A p \in Object : LinksOf(s, p) /\ s[p].panic = FALSE
      /\ s[o] \in LooseObject /\ s[b] \in LooseObject /\ s[b].ref_count \in Int
      /\ \A p \in Object : s[p].ref_count \in Int
      /\ None \notin Object
  BY <1>1, ObjectIs, Constants DEF Sound, LinksOf, Objs, LooseObject
<1>3. CollapseOnce(s, o) = q
  <2>1. ~(\/ s[o].pager_created \/ s[o].paging_in_progress # 0
          \/ b = None \/ ~Collapsible(s, b))
    OBVIOUS
  <2>2. CollapseOnce(s, o) =
          LET t1 == [s EXCEPT ![o].shadow = c, ![b].ref_count = @ - 1]
          IN IF c = None THEN t1 ELSE [t1 EXCEPT ![c].ref_count = @ + 1]
    BY <2>1 DEF CollapseOnce
  <2>3. [s EXCEPT ![o].shadow = c, ![b].ref_count = @ - 1] = s1
    <3>1. [s EXCEPT ![o].shadow = c, ![b].ref_count = @ - 1]
            = [s EXCEPT ![o].shadow = c, ![b].ref_count = n]
      BY <1>1, <1>2 DEF Objs
    <3> HIDE DEF n, c, b
    <3>2. [s EXCEPT ![o].shadow = c, ![b].ref_count = n] = s1
      BY <1>1, <1>2 DEF Objs
    <3> QED
      BY <3>1, <3>2
  <2> HIDE DEF s1
  <2> QED
    BY <2>2, <2>3
<1>4. n \in Int /\ n = s[b].ref_count - 1
  BY <1>2
<1> HIDE DEF n, c
<1>5. /\ k \in LooseObject /\ k.page = s[o].page /\ k.shadow = c /\ k.panic = s[o].panic
      /\ k.state = s[o].state /\ k.ref_count = s[o].ref_count /\ k.copy = s[o].copy
      /\ k.paging_in_progress = s[o].paging_in_progress /\ k.pager_created = s[o].pager_created
  <2>1. k \in LooseObject
    BY <1>1, <1>2, RecordIs
  <2> QED
    BY <1>2, <2>1 DEF LooseObject
<1>6. /\ h \in LooseObject /\ h.page = s[b].page /\ h.shadow = s[b].shadow /\ h.panic = s[b].panic
      /\ h.state = s[b].state /\ h.ref_count = n /\ h.copy = s[b].copy
      /\ h.paging_in_progress = s[b].paging_in_progress /\ h.pager_created = s[b].pager_created
  <2>1. h \in LooseObject
    BY <1>2, <1>4, RecordIs
  <2> QED
    BY <1>2, <2>1 DEF LooseObject
<1> HIDE DEF k, h
<1>7. s1 \in Objs /\ \A p \in Object : s1[p] = IF p = b THEN h ELSE IF p = o THEN k ELSE s[p]
  BY <1>1, <1>2, <1>5, <1>6 DEF Objs
<1> HIDE DEF s1
<1>8. /\ q \in Objs
      /\ \A p \in Object :
          /\ q[p].state = s1[p].state /\ q[p].shadow = s1[p].shadow
          /\ q[p].copy = s1[p].copy /\ q[p].panic = s1[p].panic
          /\ q[p].ref_count = s1[p].ref_count + (IF p = c THEN 1 ELSE 0)
          /\ q[p].paging_in_progress = s1[p].paging_in_progress
          /\ q[p].page = s1[p].page
          /\ s1[p].pager_created => q[p].pager_created
  <2>0. \A p \in Object : s1[p].ref_count \in Int
    BY <1>7, ObjectIs
  <2>1. CASE c = None
    BY <1>2, <1>7, <2>0, <2>1
  <2>2. CASE c # None
    <3>1. c \in Object /\ 1 \in Int /\ s1 \in Objs
      BY <1>1, <1>7, <2>2
    <3>2. SetRefs(s1, [s1 EXCEPT ![c].ref_count = @ + 1], c, 1)
      BY ONLY <3>1, RefsSet
    <3>3. SetRefs(s1, q, c, 1)
      BY <2>2, <3>2
    <3> HIDE DEF q
    <3> QED
      BY <2>0, <3>3 DEF SetRefs
  <2> QED
    BY <2>1, <2>2
<1> HIDE DEF q
<1>9. ASSUME NEW p \in Object
      PROVE  /\ q[p].state = s[p].state
             /\ q[p].shadow = IF p = o THEN c ELSE s[p].shadow
             /\ q[p].panic = FALSE
             /\ q[p].ref_count = s[p].ref_count - (IF p = b THEN 1 ELSE 0)
                                 + (IF p = c THEN 1 ELSE 0)
             /\ q[p].copy = s[p].copy
             /\ q[p].paging_in_progress = s[p].paging_in_progress
             /\ q[p].page = s[p].page
             /\ s[p].pager_created => q[p].pager_created
  <2>1. /\ s[p].panic = FALSE /\ s[p].ref_count \in Int
        /\ s1[p].pager_created => q[p].pager_created
        /\ q[p].state = s1[p].state /\ q[p].shadow = s1[p].shadow
        /\ q[p].copy = s1[p].copy /\ q[p].panic = s1[p].panic
        /\ q[p].ref_count = s1[p].ref_count + (IF p = c THEN 1 ELSE 0)
        /\ q[p].paging_in_progress = s1[p].paging_in_progress
        /\ q[p].page = s1[p].page
        /\ s1[p] = IF p = b THEN h ELSE IF p = o THEN k ELSE s[p]
    BY <1>2, <1>7, <1>8
  <2> HIDE DEF b
  <2>2. CASE p = b
    BY <1>1, <1>4, <1>6, <2>1, <2>2
  <2>3. CASE p # b /\ p = o
    BY <1>1, <1>5, <2>1, <2>3
  <2>4. CASE p # b /\ p # o
    BY <2>1, <2>4
  <2> QED
    BY <2>2, <2>3, <2>4
<1>10. Unlinked(s, q, o, FALSE)
  <2>1. \A p \in Object :
          /\ q[p].state = IF p = b /\ FALSE THEN "free" ELSE s[p].state
          /\ q[p].shadow = IF p = b /\ FALSE THEN None ELSE IF p = o THEN c ELSE s[p].shadow
          /\ q[p].panic = FALSE
          /\ q[p].ref_count = s[p].ref_count - (IF p = b THEN 1 ELSE 0)
                                 + (IF p = c /\ ~FALSE THEN 1 ELSE 0)
    BY <1>9
  <2> QED
    BY <1>8, <2>1 DEF Unlinked, c
<1>11. Shrunk(s, q, o)
  BY <1>9 DEF Shrunk
<1>12. AbsentPart(q)
  BY <1>9 DEF Sound, AbsentPart
<1> QED
  BY <1>3, <1>10, <1>11, <1>12

\* One turn of the loop.
LEMMA CollapseOnceIs ==
    ASSUME NEW s, NEW R \in [Object -> Nat], NEW f, NEW o \in Object, Sound(s, R, f, o)
    PROVE  Sound(CollapseOnce(s, o), R, f, o) /\ Shrunk(s, CollapseOnce(s, o), o)
<1> DEFINE b == s[o].shadow
           q == CollapseOnce(s, o)
<1>1. CASE \/ s[o].pager_created \/ s[o].paging_in_progress # 0
           \/ b = None \/ ~Collapsible(s, b)
           \/ (s[b].ref_count # 1 /\ ~Hidden(s, o, b))
  <2>1. q = s
    BY <1>1 DEF CollapseOnce
  <2> HIDE DEF q
  <2> QED
    BY <2>1 DEF Shrunk, q
<1>2. ASSUME ~s[o].pager_created, s[o].paging_in_progress = 0,
             b # None, Collapsible(s, b), s[b].ref_count = 1
      PROVE  Sound(q, R, f, o) /\ Shrunk(s, q, o)
  <2>1. Unlinked(s, q, o, TRUE) /\ Shrunk(s, q, o) /\ AbsentPart(q)
    BY <1>2, CollapseFrees
  <2> HIDE DEF q
  <2>2. TRUE \in BOOLEAN
    OBVIOUS
  <2>3. Sound(q, R, f, o)
    BY <1>2, <2>1, <2>2, UnlinkedSound
  <2> QED
    BY <2>1, <2>3
<1>3. ASSUME ~s[o].pager_created, s[o].paging_in_progress = 0,
             b # None, Collapsible(s, b), s[b].ref_count # 1, Hidden(s, o, b)
      PROVE  Sound(q, R, f, o) /\ Shrunk(s, q, o)
  <2>1. Unlinked(s, q, o, FALSE) /\ Shrunk(s, q, o) /\ AbsentPart(q)
    BY <1>3, CollapseSkips
  <2> HIDE DEF q
  <2>2. FALSE \in BOOLEAN
    OBVIOUS
  <2>3. Sound(q, R, f, o)
    BY <1>3, <2>1, <2>2, UnlinkedSound
  <2> QED
    BY <2>1, <2>3
<1> QED
  BY <1>1, <1>2, <1>3

\* The whole loop.
LEMMA CollapseIs ==
    ASSUME NEW s, NEW R \in [Object -> Nat], NEW f, NEW o \in Object, Sound(s, R, f, o)
    PROVE  Sound(Collapse(s, o), R, f, o) /\ Shrunk(s, Collapse(s, o), o)
<1> DEFINE D == {q \in Objs : Sound(q, R, f, o) /\ Shrunk(s, q, o)}
<1>1. s \in D
  BY DEF Sound, Shrunk
<1>2. ASSUME NEW x \in D PROVE CollapseOnce(x, o) \in D
  <2> DEFINE q == CollapseOnce(x, o)
  <2>1. Sound(x, R, f, o) /\ Shrunk(s, x, o)
    BY <1>2
  <2>2. Sound(q, R, f, o) /\ Shrunk(x, q, o)
    BY <2>1, CollapseOnceIs
  <2> HIDE DEF q
  <2>3. Shrunk(s, q, o)
    BY <2>1, <2>2 DEF Shrunk
  <2>4. q \in Objs
    BY <2>2 DEF Sound
  <2> QED
    BY <2>2, <2>3, <2>4 DEF q
<1> HIDE DEF D
<1>3. Collapse(s, o) \in D
  BY <1>1, <1>2, CollapseIn
<1> QED
  BY <1>3 DEF D

\* The references that are not shadows.
OtherRefs ==
    [p \in Object |-> Tally(EntryOf(entry), p) + FaultRefs(fault, p) + drops[p]
                         + (IF p = File THEN 1 ELSE 0)]

\* The references that are not of shadow links.
LEMMA OthersAre ==
    ASSUME Inv
    PROVE  /\ OtherRefs \in [Object -> Nat]
           /\ \A p \in Object : obj[p].ref_count = Tally(ShadowOf(obj), p) + OtherRefs[p]
<1>1. ASSUME NEW p \in Object
      PROVE  /\ OtherRefs[p] \in Nat
             /\ obj[p].ref_count = Tally(ShadowOf(obj), p) + OtherRefs[p]
  <2> DEFINE n1 == Tally(EntryOf(entry), p)
             n2 == Tally(ShadowOf(obj), p)
             n3 == FaultRefs(fault, p)
             n4 == drops[p]
             n5 == IF p = File THEN 1 ELSE 0
  <2>1. n1 \in Nat /\ n2 \in Nat /\ n3 \in Nat /\ n4 \in Nat /\ n5 \in Nat
    <3>1. DOMAIN ShadowOf(obj) = Object /\ DOMAIN EntryOf(entry) = Map
      BY DEF ShadowOf, EntryOf
    <3>2. n3 \in Nat /\ n4 \in Nat
      BY CountsAre DEF Inv, TypePart
    <3> QED
      BY <3>1, <3>2, Constants, TallyIs
  <2>2. obj[p].ref_count = n1 + n2 + n3 + n4 + n5
    BY DEF Inv, LinkPart, Users
  <2>3. OtherRefs[p] = n1 + n3 + n4 + n5
    BY DEF OtherRefs
  <2> HIDE DEF n1, n2, n3, n4, n5
  <2>4. OtherRefs[p] \in Nat /\ obj[p].ref_count = n2 + OtherRefs[p]
    BY <2>1, <2>2, <2>3
  <2> QED
    BY <2>4 DEF n2
<1>2. OtherRefs = [p \in Object |-> OtherRefs[p]]
  BY DEF OtherRefs
<1> QED
  BY <1>1, <1>2

\* An object may be collapsed that is alive, whatever became of its pages.
LEMMA SoundStart ==
    ASSUME Inv, NEW s \in Objs, NEW o \in Object, obj[o].state = "alive", AbsentPart(s),
           \A p \in Object :
              /\ Linked(obj[p], s[p])
              /\ p # o => s[p].paging_in_progress = obj[p].paging_in_progress
                          /\ \A x \in Page : s[p].page[x] = obj[p].page[x]
    PROVE  Sound(s, OtherRefs, fault, o)
<1>1. /\ \A p \in Object : LinksOf(obj, p) /\ obj[p].copy \in Object \cup {None}
      /\ obj[File].state = "alive" /\ obj[File].shadow = None
      /\ RankPart(obj, fault) /\ PagingPart(obj, fault, daemon)
      /\ obj \in Objs
  BY ObjectIs DEF Inv, LinkPart, TypePart
<1>2. RankPart(s, fault)
  <2>1. \A p \in Object : s[p].shadow \in {None, obj[p].shadow}
    BY DEF Linked
  <2> QED
    BY <1>1, <2>1, RankSame
<1>3. ASSUME NEW p \in Object PROVE s[p].ref_count = Tally(ShadowOf(s), p) + OtherRefs[p]
  <2>1. \A y \in Object : ShadowOf(s)[y] = ShadowOf(obj)[y]
    BY DEF ShadowOf, Linked
  <2>2. Tally(ShadowOf(s), p) = Tally(ShadowOf(obj), p)
    BY <2>1, ShadowSame
  <2>3. obj[p].ref_count = Tally(ShadowOf(obj), p) + OtherRefs[p]
    BY OthersAre
  <2> QED
    BY <2>2, <2>3 DEF Linked
<1>4. ASSUME NEW p \in Object PROVE LinksOf(s, p)
  BY <1>1, Constants DEF LinksOf, Linked
<1>5. ASSUME NEW p \in Object
      PROVE  /\ s[p].state = "free" => s[p].paging_in_progress = 0
             /\ p # o /\ s[p].paging_in_progress = 0 => \A x \in Page : ~Held(s[p].page[x])
  <2>1. CASE p = o
    BY <2>1 DEF Linked
  <2>2. CASE p # o
    <3>1. s[p].paging_in_progress = obj[p].paging_in_progress
          /\ \A x \in Page : s[p].page[x] = obj[p].page[x]
      BY <2>2
    <3>2. obj[p].paging_in_progress = 0 => \A x \in Page : ~Held(obj[p].page[x])
      BY Unpaged
    <3> QED
      BY <1>1, <3>1, <3>2 DEF PagingPart, Linked
  <2> QED
    BY <2>1, <2>2
<1> QED
  BY <1>1, <1>2, <1>3, <1>4, <1>5, Constants DEF Sound, Linked

\* When it has been collapsed, the references are exact.
LEMMA SoundEnd ==
    ASSUME Inv, NEW q, NEW o \in Object, Sound(q, OtherRefs, fault, o),
           obj' \in Objs, \A p \in Object : Linked(q[p], obj'[p]),
           entry' = entry, drops' = drops,
           \A p \in Object : FaultRefs(fault', p) = FaultRefs(fault, p),
           \A u \in Map : \/ fault'[u].object \in {None, fault'[u].first}
                          \/ fault'[u].object = fault[u].object /\ fault'[u].first = fault[u].first
    PROVE  LinkPart(obj', entry', fault', drops') /\ RankPart(obj', fault')
<1>1. /\ q \in Objs /\ q[File].state = "alive" /\ q[File].shadow = None
      /\ RankPart(q, fault)
      /\ \A p \in Object : /\ LinksOf(q, p) /\ q[p].copy \in Object \cup {None}
                           /\ q[p].ref_count = Tally(ShadowOf(q), p) + OtherRefs[p]
  BY ObjectIs DEF Sound
<1>2. RankPart(obj', fault')
  <2>1. \A p \in Object : obj'[p].shadow \in {None, q[p].shadow}
    BY DEF Linked
  <2> QED
    BY <1>1, <2>1, RankSame
<1>3. ASSUME NEW p \in Object PROVE obj'[p].ref_count = Users(obj', entry', fault', drops', p)
  <2>1. \A y \in Object : ShadowOf(obj')[y] = ShadowOf(q)[y]
    BY DEF ShadowOf, Linked
  <2> DEFINE n1 == Tally(EntryOf(entry), p)
             n2 == Tally(ShadowOf(q), p)
             n3 == FaultRefs(fault, p)
             n4 == drops[p]
             n5 == IF p = File THEN 1 ELSE 0
  <2>2. Tally(ShadowOf(obj'), p) = n2
    BY <2>1, ShadowSame
  <2>3. obj'[p].ref_count = n2 + OtherRefs[p]
    BY <1>1 DEF Linked
  <2>4. OtherRefs[p] = n1 + n3 + n4 + n5
    BY DEF OtherRefs
  <2>5. Users(obj', entry', fault', drops', p) = n1 + n2 + n3 + n4 + n5
    BY <2>2 DEF Users
  <2>6. n1 \in Nat /\ n2 \in Nat /\ n3 \in Nat /\ n4 \in Nat /\ n5 \in Nat
    <3>1. DOMAIN ShadowOf(q) = Object /\ DOMAIN EntryOf(entry) = Map
      BY DEF ShadowOf, EntryOf
    <3>2. n3 \in Nat /\ n4 \in Nat
      BY CountsAre DEF Inv, TypePart
    <3> QED
      BY <3>1, <3>2, Constants, TallyIs
  <2> DEFINE z == Users(obj', entry', fault', drops', p)
  <2> HIDE DEF n1, n2, n3, n4, n5, z
  <2>7. obj'[p].ref_count = z
    BY <2>3, <2>4, <2>5, <2>6 DEF z
  <2> QED
    BY <2>7 DEF z
<1>4. ASSUME NEW p \in Object PROVE LinksOf(obj', p)
  BY <1>1, Constants DEF LinksOf, Linked
<1> QED
  BY <1>1, <1>2, <1>3, <1>4, Constants DEF LinkPart, Linked

\* The pages and the paging of the objects, before and after a collapse of o
\* that began with what s made of them.
LEMMA ShrunkPages ==
    ASSUME Inv, NEW o \in Object, NEW s, NEW q, Shrunk(s, q, o),
           NEW p \in Object, NEW y \in Page,
           p # o => s[p].paging_in_progress = obj[p].paging_in_progress,
           s[p].page[y] = obj[p].page[y]
    PROVE  /\ Held(q[p].page[y]) <=> Held(obj[p].page[y])
           /\ Busy(obj[p].page[y]) /\ ~Busy(q[p].page[y]) =>
                 \A u \in Map : ~Waits(fault[u], p, y)
<1>1. CASE q[p].page[y] = s[p].page[y]
  BY <1>1
<1>2. CASE p # o /\ s[p].paging_in_progress = 0 /\ ~Held(q[p].page[y])
  <2>1. ~Held(obj[p].page[y]) /\ \A u \in Map : ~Waits(fault[u], p, y)
    BY <1>2, Unpaged
  <2> QED
    BY <1>2, <2>1
<1>3. CASE p = o /\ s[p].page[y] = None /\ ~Held(q[p].page[y])
  BY <1>3 DEF Held, Busy
<1> QED
  BY <1>1, <1>2, <1>3 DEF Shrunk

\* The page is found and the first object collapsed: the invariant.
LEMMA InstallStep == ASSUME Inv, NEW t \in Map, Install(t) PROVE Inv'
<1> DEFINE a == fault[t]
           x == a.page
           o == a.first
           v == Resident(a.data, TRUE, FALSE)
           s0 == Released(obj, o)
           s == [s0 EXCEPT ![o].page[x] = v]
           q == Collapse(s, o)
           z == [q EXCEPT ![o].paging_in_progress = @ + 1]
           f == Wakeup(fault, o, x, "woken")
           c == obj'[o].copy
           b == [a EXCEPT !.pc = "verify", !.data = None, !.old_copy = c]
<1>1. /\ obj \in Objs /\ fault \in Faults /\ a \in FaultType /\ a.pc = "copied" /\ ShapeOf(a)
      /\ o \in Object /\ x \in Page /\ a.object = o
      /\ a.data \in Value \cup {None}
  <2>1. a.pc = "copied"
    BY DEF Install
  <2>2. /\ obj \in Objs /\ fault \in Faults /\ a \in FaultType
        /\ ShapeOf(a) /\ a.object \in Object /\ a.first \in Object /\ a.page \in Page
    BY <2>1, UnderWay
  <2> QED
    BY <2>1, <2>2, FaultIs DEF ShapeOf
<1>2. obj' = z /\ entry' = entry /\ daemon' = daemon /\ drops' = drops
  BY DEF Install
<1>3. fault' = [f EXCEPT ![t] = b]
  <2>1. f[t] = a
    BY <1>1 DEF Wakeup
  <2>2. fault' = [f EXCEPT ![t].pc = "verify", ![t].data = None, ![t].old_copy = c]
    BY DEF Install, Wake
  <2>3. DOMAIN f = Map
    BY DEF Wakeup
  <2> HIDE DEF f, c, a
  <2> QED
    BY <2>1, <2>2, <2>3
<1>4. SetPaging(obj, s0, o, -1)
  BY <1>1, ReleasedIs
<1> HIDE DEF s0
<1>5. v \in PageType /\ Held(v) /\ Busy(v) /\ ~Absent(v)
  <2>1. v \in PageType /\ Held(v) /\ Busy(v)
    BY <1>1, NewPages
  <2> QED
    BY <2>1 DEF Held, Absent
<1>6. SetPage(s0, s, o, x, v)
  <2>1. s0 \in Objs /\ v \in PageType \cup {None}
    BY <1>4, <1>5 DEF SetPaging
  <2> HIDE DEF v
  <2> QED
    BY <1>1, <2>1, PageSet
<1> HIDE DEF s
<1>7. /\ s \in Objs
      /\ \A p \in Object :
            /\ Linked(obj[p], s[p])
            /\ s[p].paging_in_progress =
                  IF p = o THEN obj[p].paging_in_progress - 1 ELSE obj[p].paging_in_progress
            /\ \A y \in Page : s[p].page[y] = IF p = o /\ y = x THEN v ELSE obj[p].page[y]
  <2>1. \A p \in Object : obj[p].paging_in_progress \in Int
    BY <1>1, ObjectIs
  <2>2. \A p \in Object : Linked(obj[p], s[p])
    <3>1. ASSUME NEW p \in Object PROVE Linked(obj[p], s[p])
      <4>1. Linked(obj[p], s0[p])
        BY <1>4 DEF SetPaging
      <4>2. Linked(s0[p], s[p])
        BY <1>6 DEF SetPage
      <4> QED
        BY <4>1, <4>2, LinkedTwice
    <3> QED
      BY <3>1
  <2> HIDE DEF v, x, o
  <2> QED
    BY <1>4, <1>6, <2>1, <2>2 DEF SetPaging, SetPage
<1> HIDE DEF v
<1>8. obj[o].state = "alive"
  <2>1. LinkPart(obj, entry, fault, drops) /\ drops \in [Object -> Nat]
    BY DEF Inv, TypePart
  <2> QED
    BY <1>1, <2>1, AliveIs
<1>9. Sound(s, OtherRefs, fault, o)
  <2>1. \A p \in Object :
              /\ Linked(obj[p], s[p])
              /\ p # o => s[p].paging_in_progress = obj[p].paging_in_progress
                          /\ \A y \in Page : s[p].page[y] = obj[p].page[y]
    BY <1>7
  <2>2. s \in Objs /\ o \in Object
    BY <1>1, <1>7
  <2>3. AbsentPart(s)
    <3>1. \A p \in Object :
              /\ obj[p].pager_created => s[p].pager_created
              /\ \A y \in Page : Absent(s[p].page[y]) =>
                                  Absent(obj[p].page[y]) \/ s[p].pager_created
      <4> HIDE DEF o, x
      <4> QED
        BY <1>5, <1>7 DEF Linked
    <3>2. AbsentPart(obj)
      BY DEF Inv
    <3> QED
      BY <3>1, <3>2, AbsentKept
  <2> HIDE DEF o
  <2> QED
    BY <1>8, <2>1, <2>2, <2>3, SoundStart
<1>10. Sound(q, OtherRefs, fault, o) /\ Shrunk(s, q, o)
  <2>1. OtherRefs \in [Object -> Nat] /\ o \in Object
    BY <1>1, OthersAre
  <2> HIDE DEF o
  <2> QED
    BY <1>9, <2>1, CollapseIs
<1> HIDE DEF q
<1>11. SetPaging(q, z, o, 1)
  <2>1. q \in Objs /\ o \in Object /\ 1 \in Int
    BY <1>1, <1>10 DEF Sound
  <2> HIDE DEF o
  <2> QED
    BY ONLY <2>1, PagingSet DEF z
<1> HIDE DEF z
<1>12. /\ obj' \in Objs
       /\ \A p \in Object : Linked(q[p], obj'[p]) /\ obj'[p].page = q[p].page
       /\ \A p \in Object : obj'[p].paging_in_progress = obj[p].paging_in_progress
  <2>1. \A p \in Object : obj[p].paging_in_progress \in Int
    BY <1>1, ObjectIs
  <2>2. \A p \in Object : q[p].paging_in_progress = s[p].paging_in_progress
    BY <1>10 DEF Shrunk
  <2> HIDE DEF o, x
  <2> QED
    BY <1>2, <1>7, <1>11, <2>1, <2>2 DEF SetPaging
<1>13. c \in Object \cup {None}
  BY <1>1, <1>12, ObjectIs
<1> HIDE DEF c
<1>14. /\ b \in FaultType /\ b.pc = "verify"
       /\ b.first = o /\ b.object = o /\ b.page = x
  <2> HIDE DEF a
  <2>1. b \in FaultType
    BY <1>1, <1>13, Zenon DEF FaultType
  <2> QED
    BY <1>1, <2>1 DEF FaultType
<1> HIDE DEF b
<1>15. /\ f \in Faults
       /\ \A u \in Map : Roused(fault[u], f[u])
  BY <1>1, WakeupIs
<1> HIDE DEF f
<1>16. /\ Turned(fault, fault', t) /\ fault'[t] = b /\ fault' \in Faults
       /\ \A u \in Map : u # t => Roused(fault[u], fault'[u])
  BY <1>3, <1>14, <1>15 DEF Turned, Faults
<1>17. ShapeOf(b) /\ \A u \in Map : ShapeOf(fault'[u])
  <2>1. ShapeOf(b)
    BY <1>1, <1>14, Constants DEF ShapeOf
  <2>2. \A u \in Map : ShapeOf(fault[u])
    BY DEF Inv, TypePart
  <2>3. ASSUME NEW u \in Map, u # t PROVE ShapeOf(fault'[u])
    BY <1>16, <2>2, <2>3 DEF ShapeOf, Roused
  <2> QED
    BY <1>16, <2>1, <2>3
<1>18. ASSUME NEW p \in Object
       PROVE  /\ FaultRefs(fault', p) = FaultRefs(fault, p)
              /\ FaultUses(fault', p) = FaultUses(fault, p)
  <2>1. Refers(b, p) = Refers(a, p) /\ Uses(b, p) = Uses(a, p)
    BY <1>1, <1>14 DEF Refers, Uses
  <2>2. /\ FaultRefs(fault', p) = FaultRefs(fault, p) - Refers(fault[t], p) + Refers(fault'[t], p)
        /\ FaultUses(fault', p) = FaultUses(fault, p) - Uses(fault[t], p) + Uses(fault'[t], p)
    BY <1>16, TurnCounts
  <2>3. FaultRefs(fault, p) \in Nat /\ FaultUses(fault, p) \in Nat
    BY CountsAre
  <2>4. Refers(a, p) \in Nat /\ Uses(a, p) \in Nat
    BY UsesIs
  <2> DEFINE n1 == FaultRefs(fault, p)
             n2 == FaultUses(fault, p)
             m1 == Refers(a, p)
             m2 == Uses(a, p)
  <2>5. FaultRefs(fault', p) = n1 - m1 + m1 /\ FaultUses(fault', p) = n2 - m2 + m2
    BY <1>16, <2>1, <2>2
  <2> HIDE DEF n1, n2, m1, m2
  <2>6. FaultRefs(fault', p) = n1 /\ FaultUses(fault', p) = n2
    BY <2>3, <2>4, <2>5 DEF n1, n2, m1, m2
  <2> QED
    BY <2>6 DEF n1, n2
<1>19. LinkPart(obj', entry', fault', drops') /\ RankPart(obj', fault')
  <2>1. ASSUME NEW u \in Map
        PROVE  \/ fault'[u].object \in {None, fault'[u].first}
               \/ fault'[u].object = fault[u].object /\ fault'[u].first = fault[u].first
    BY <1>14, <1>16 DEF Roused
  <2>2. \A p \in Object : FaultRefs(fault', p) = FaultRefs(fault, p)
    BY <1>18
  <2>3. obj' \in Objs /\ \A p \in Object : Linked(q[p], obj'[p])
    BY <1>12
  <2> HIDE DEF o
  <2> QED
    BY <1>1, <1>2, <1>10, <2>1, <2>2, <2>3, SoundEnd
<1>20. PagingPart(obj', fault', daemon')
  <2>1. ASSUME NEW p \in Object
        PROVE  /\ obj'[p].paging_in_progress = Pagers(fault', daemon', p)
               /\ obj'[p].state = "free" => obj'[p].paging_in_progress = 0
    <3>1. obj'[p].paging_in_progress = Pagers(fault', daemon', p)
      BY <1>2, <1>12, <1>18 DEF Inv, PagingPart, Pagers
    <3>2. obj'[p].state = "free" => q[p].paging_in_progress = 0 /\ q[p].state = "free"
      BY <1>10, <1>12 DEF Sound, Linked
    <3>3. q[o].state = "alive"
      BY <1>10 DEF Sound
    <3>4. p # o => q[p].paging_in_progress = obj[p].paging_in_progress
      BY <1>7, <1>10 DEF Shrunk
    <3> QED
      BY <1>12, <3>1, <3>2, <3>3, <3>4
  <2> QED
    BY <2>1 DEF PagingPart
<1>21. ASSUME NEW p \in Object, NEW y \in Page
       PROVE  /\ TurnPage(a, b, obj[p].page[y], obj'[p].page[y], p, y)
              /\ Busy(obj[p].page[y]) /\ ~Busy(obj'[p].page[y]) =>
                    \A u \in Map : u # t => ~Waits(fault'[u], p, y)
  <2>1. Owns(b, p, y) <=> p = o /\ y = x
    BY <1>14 DEF Owns
  <2>2. Owns(a, p, y) <=> p = o /\ y = x
    BY <1>1 DEF Owns
  <2>3. Owns(a, p, y) => Held(obj[p].page[y])
    BY DEF Inv, PagesPart
  <2>4. ~Waits(b, p, y)
    BY <1>14 DEF Waits
  <2>5. obj'[p].page[y] = q[p].page[y]
    BY <1>12
  <2>6. CASE p = o /\ y = x
    <3>1. s[p].page[y] = v /\ v # None
      BY <1>5, <1>7, <2>6 DEF Held
    <3>2. q[p].page[y] = v
      BY <1>10, <2>6, <3>1 DEF Shrunk
    <3> QED
      BY <1>5, <2>1, <2>2, <2>3, <2>4, <2>5, <2>6, <3>2 DEF TurnPage
  <2>7. CASE ~(p = o /\ y = x)
    <3>1. /\ p # o => s[p].paging_in_progress = obj[p].paging_in_progress
          /\ s[p].page[y] = obj[p].page[y]
      BY <1>7, <2>7
    <3>2. /\ Held(q[p].page[y]) <=> Held(obj[p].page[y])
          /\ Busy(obj[p].page[y]) /\ ~Busy(q[p].page[y]) =>
                 \A u \in Map : ~Waits(fault[u], p, y)
      <4>1. o \in Object /\ Shrunk(s, q, o)
        BY <1>1, <1>10
      <4> HIDE DEF o
      <4> QED
        BY <3>1, <4>1, ShrunkPages
    <3>3. \A u \in Map : u # t => (Waits(fault'[u], p, y) => Waits(fault[u], p, y))
      BY <1>16, RousedSame
    <3> QED
      BY <2>1, <2>2, <2>4, <2>5, <2>7, <3>2, <3>3 DEF TurnPage
  <2> QED
    BY <2>6, <2>7
<1>22. PagesPart(obj', fault', daemon')
  <2>1. PagesPart(obj, fault, daemon)
    BY DEF Inv
  <2>2. \A u \in Map : u # t => Roused(fault[u], fault'[u])
    BY <1>16
  <2>3. \A p \in Object, y \in Page :
           /\ TurnPage(fault[t], fault'[t], obj[p].page[y], obj'[p].page[y], p, y)
           /\ Busy(obj[p].page[y]) /\ ~Busy(obj'[p].page[y]) =>
                 \A u \in Map : u # t => ~Waits(fault'[u], p, y)
    BY <1>16, <1>21
  <2>4. PagesPart(obj', fault', daemon)
    BY ONLY <2>1, <2>2, <2>3, TurnPages
  <2> QED
    BY <1>2, <2>4
<1>23. TypePart(obj', entry', fault', daemon', drops')
  BY <1>2, <1>12, <1>16, <1>17 DEF Inv, TypePart
<1>24. AbsentPart(obj')
  <2>1. AbsentPart(q)
    BY <1>10 DEF Sound
  <2> HIDE DEF o
  <2> QED
    BY <1>12, <2>1, AbsentKept DEF Linked
<1> QED
  BY <1>19, <1>20, <1>22, <1>23, <1>24 DEF Inv

-----------------------------------------------------------------------------
(* Steps of the daemon. *)

DaemonUses ==
    \A p \in Object :
        /\ obj'[p].paging_in_progress = obj[p].paging_in_progress
              - (IF daemon.object = p THEN 1 ELSE 0) + (IF daemon'.object = p THEN 1 ELSE 0)
        /\ obj'[p].state = "free" => obj'[p].paging_in_progress = 0

DaemonAll ==
    \A p \in Object, y \in Page :
        /\ Held(obj'[p].page[y]) <=>
              Writes(daemon', p, y) \/ (Held(obj[p].page[y]) /\ ~Writes(daemon, p, y))
        /\ Writes(daemon', p, y) => Writes(daemon, p, y) \/ ~Held(obj[p].page[y])
        /\ Busy(obj[p].page[y]) /\ ~Busy(obj'[p].page[y]) =>
              \A u \in Map : ~Waits(fault'[u], p, y)

\* A step of the pageout daemon keeps the invariant when it balances what it
\* uses and accounts for each page.
LEMMA DaemonStep ==
    ASSUME Inv, obj' \in Objs, fault' \in Faults, \A u \in Map : Roused(fault[u], fault'[u]),
           entry' = entry, drops' = drops, DaemonShape(daemon'),
           LinkPart(obj', entry', fault', drops'), RankPart(obj', fault'),
           DaemonUses, DaemonAll,
           AbsentPart(obj')
    PROVE  Inv'
<1>1. TypePart(obj', entry', fault', daemon', drops')
  <2>1. ASSUME NEW u \in Map PROVE ShapeOf(fault'[u])
    <3>1. ShapeOf(fault[u]) /\ Roused(fault[u], fault'[u])
      BY DEF Inv, TypePart
    <3> QED
      BY <3>1 DEF ShapeOf, Roused
  <2> QED
    BY <2>1 DEF Inv, TypePart
<1>2. PagingPart(obj', fault', daemon')
  <2>1. ASSUME NEW p \in Object PROVE obj'[p].paging_in_progress = Pagers(fault', daemon', p)
    <3> DEFINE n == FaultUses(fault, p)
               i == IF daemon.object = p THEN 1 ELSE 0
               j == IF daemon'.object = p THEN 1 ELSE 0
    <3>1. FaultUses(fault', p) = n /\ n \in Nat /\ i \in Nat /\ j \in Nat
      BY RousedCounts, CountsAre
    <3>2. obj[p].paging_in_progress = n + i
      BY DEF Inv, PagingPart, Pagers
    <3>3. obj'[p].paging_in_progress = obj[p].paging_in_progress - i + j
      BY DEF DaemonUses
    <3>4. Pagers(fault', daemon', p) = n + j
      BY <3>1 DEF Pagers
    <3> HIDE DEF n, i, j
    <3> QED
      BY <3>1, <3>2, <3>3, <3>4
  <2> QED
    BY <2>1 DEF PagingPart, DaemonUses
<1>3. PagesPart(obj', fault', daemon')
  <2>1. ASSUME NEW p \in Object, NEW y \in Page
        PROVE  /\ \A u \in Map : Owns(fault'[u], p, y) => Held(obj'[p].page[y])
               /\ \A u, w \in Map : Owns(fault'[u], p, y) /\ Owns(fault'[w], p, y) => u = w
               /\ Writes(daemon', p, y) => Held(obj'[p].page[y])
                                           /\ \A u \in Map : ~Owns(fault'[u], p, y)
               /\ Held(obj'[p].page[y]) => Writes(daemon', p, y)
                                           \/ \E u \in Map : Owns(fault'[u], p, y)
               /\ \A u \in Map : Waits(fault'[u], p, y) => Busy(obj'[p].page[y])
    <3>1. /\ \A u \in Map : Owns(fault[u], p, y) => Held(obj[p].page[y])
          /\ \A u, w \in Map : Owns(fault[u], p, y) /\ Owns(fault[w], p, y) => u = w
          /\ Writes(daemon, p, y) => Held(obj[p].page[y])
                                     /\ \A u \in Map : ~Owns(fault[u], p, y)
          /\ Held(obj[p].page[y]) => Writes(daemon, p, y)
                                     \/ \E u \in Map : Owns(fault[u], p, y)
          /\ \A u \in Map : Waits(fault[u], p, y) => Busy(obj[p].page[y])
      BY DEF Inv, PagesPart
    <3>2. \A u \in Map : /\ Owns(fault'[u], p, y) <=> Owns(fault[u], p, y)
                         /\ Waits(fault'[u], p, y) => Waits(fault[u], p, y)
      BY RousedSame
    <3>3. /\ Held(obj'[p].page[y]) <=>
                Writes(daemon', p, y) \/ (Held(obj[p].page[y]) /\ ~Writes(daemon, p, y))
          /\ Writes(daemon', p, y) => Writes(daemon, p, y) \/ ~Held(obj[p].page[y])
          /\ Busy(obj[p].page[y]) /\ ~Busy(obj'[p].page[y]) =>
                \A u \in Map : ~Waits(fault'[u], p, y)
      BY DEF DaemonAll
    <3> QED
      BY ONLY <3>1, <3>2, <3>3
  <2> QED
    BY <2>1 DEF PagesPart
<1> QED
  BY <1>1, <1>2, <1>3 DEF Inv

\* vm_pageout_page, once the objects s are what the step made of them: page x of
\* o is with the daemon, and there is one more pageout.
LEMMA SendIs ==
    ASSUME NEW s \in Objs, NEW o \in Object, NEW x \in Page, Send(s, o, x),
           s[o].page[x] \in PageType, fault \in Faults
    PROVE  /\ obj' \in Objs
           /\ \A p \in Object :
                 /\ Linked(s[p], obj'[p])
                 /\ obj'[p].paging_in_progress = s[p].paging_in_progress + (IF p = o THEN 1 ELSE 0)
                 /\ \A y \in Page : obj'[p].page[y] =
                       IF p = o /\ y = x THEN Placeholder ELSE s[p].page[y]
           /\ fault' \in Faults /\ \A u \in Map : Roused(fault[u], fault'[u])
           /\ DaemonShape(daemon') /\ daemon'.object = o /\ daemon'.page = x
<1> DEFINE v == s[o].page[x].val
           s1 == [s EXCEPT ![o].pager[x] = v]
           s2 == [s1 EXCEPT ![o].page[x] = Placeholder]
           s3 == [s2 EXCEPT ![o].paging_in_progress = @ + 1]
<1>1. v \in Value \cup {None}
  BY DEF PageType
<1>2. obj' = s3
  <2>1. obj' = [s EXCEPT ![o].pager[x] = v, ![o].page[x] = Placeholder,
                         ![o].paging_in_progress = @ + 1]
    BY DEF Send
  <2> HIDE DEF v
  <2>2. s[o] \in LooseObject
    BY ObjectIs
  <2> QED
    BY <2>1, <2>2 DEF Objs, LooseObject
<1> HIDE DEF v
<1>3. SetPaging(s, s1, o, 0)
  BY <1>1, PagerSet
<1> HIDE DEF s1
<1>4. SetPage(s1, s2, o, x, Placeholder)
  <2>1. s1 \in Objs /\ Placeholder \in PageType \cup {None}
    BY <1>3, NewPages DEF SetPaging
  <2> QED
    BY <2>1, PageSet
<1> HIDE DEF s2
<1>5. SetPaging(s2, s3, o, 1)
  <2>1. s2 \in Objs /\ 1 \in Int /\ o \in Object
    BY <1>4 DEF SetPage
  <2> QED
    BY ONLY <2>1, PagingSet DEF s3
<1> HIDE DEF s3
<1>6. \A p \in Object : s[p].paging_in_progress \in Int
  BY ObjectIs
<1>7. ASSUME NEW p \in Object
      PROVE  /\ Linked(s[p], obj'[p])
             /\ obj'[p].paging_in_progress = s[p].paging_in_progress + (IF p = o THEN 1 ELSE 0)
             /\ \A y \in Page : obj'[p].page[y] =
                   IF p = o /\ y = x THEN Placeholder ELSE s[p].page[y]
  <2>1. Linked(s[p], s1[p]) /\ Linked(s1[p], s2[p]) /\ Linked(s2[p], s3[p])
    BY <1>3, <1>4, <1>5 DEF SetPaging, SetPage
  <2>2. Linked(s[p], s3[p])
    BY <2>1, LinkedTwice
  <2>3. s3[p].paging_in_progress = s[p].paging_in_progress + (IF p = o THEN 1 ELSE 0)
    BY <1>3, <1>4, <1>5, <1>6 DEF SetPaging, SetPage
  <2>4. \A y \in Page : s3[p].page[y] = IF p = o /\ y = x THEN Placeholder ELSE s[p].page[y]
    BY <1>3, <1>4, <1>5 DEF SetPaging, SetPage
  <2> QED
    BY <1>2, <2>2, <2>3, <2>4
<1>8. fault' \in Faults /\ \A u \in Map : Roused(fault[u], fault'[u])
  <2>1. fault' = Wakeup(fault, o, x, "woken")
    BY DEF Send, Wake
  <2>2. "woken" \in {"woken", "restart"}
    OBVIOUS
  <2> QED
    BY <2>1, <2>2, WakeupIs
<1>9. DaemonShape(daemon') /\ daemon'.object = o /\ daemon'.page = x
  BY Constants DEF Send, DaemonShape, DaemonType
<1>10. obj' \in Objs
  BY <1>2, <1>5 DEF SetPaging
<1> QED
  BY <1>7, <1>8, <1>9, <1>10

\* The page has gone to the pager.
LEMMA PageSentStep == ASSUME Inv, PageSent PROVE Inv'
<1> DEFINE o == daemon.object
           x == daemon.page
           s == Released(obj, o)
           q == [s EXCEPT ![o].page[x] = None]
<1>1. /\ obj \in Objs /\ fault \in Faults /\ o \in Object /\ x \in Page
      /\ DaemonShape(daemon)
  BY DEF Inv, TypePart, PageSent, DaemonShape, DaemonType
<1>2. /\ obj' = q /\ fault' = Wakeup(fault, o, x, "woken") /\ daemon' = DaemonIdle
      /\ entry' = entry /\ drops' = drops
  BY DEF PageSent, Wake
<1>3. SetPaging(obj, s, o, -1)
  BY <1>1, ReleasedIs
<1> HIDE DEF s
<1>4. SetPage(s, q, o, x, None)
  <2>1. s \in Objs /\ None \in PageType \cup {None}
    BY <1>3 DEF SetPaging
  <2> HIDE DEF o, x
  <2> QED
    BY <1>1, <2>1, PageSet
<1> HIDE DEF q
<1>5. /\ fault' \in Faults
      /\ \A u \in Map : Roused(fault[u], fault'[u]) /\ ~Waits(fault'[u], o, x)
  <2>1. "woken" \in {"woken", "restart"}
    OBVIOUS
  <2> HIDE DEF o, x
  <2> QED
    BY <1>1, <1>2, <2>1, WakeupIs
<1>6. /\ obj' \in Objs /\ \A p \in Object : Linked(obj[p], obj'[p])
      /\ \A p \in Object :
            /\ obj'[p].paging_in_progress =
                  obj[p].paging_in_progress - (IF p = o THEN 1 ELSE 0)
            /\ \A y \in Page : obj'[p].page[y] = IF p = o /\ y = x THEN None ELSE obj[p].page[y]
  <2>1. \A p \in Object : obj[p].paging_in_progress \in Int
    BY <1>1, ObjectIs
  <2>2. ASSUME NEW p \in Object PROVE Linked(obj[p], q[p])
    <3>1. Linked(obj[p], s[p]) /\ Linked(s[p], q[p])
      BY <1>3, <1>4 DEF SetPaging, SetPage
    <3> QED
      BY <3>1, LinkedTwice
  <2> HIDE DEF o, x
  <2> QED
    BY <1>2, <1>3, <1>4, <2>1, <2>2 DEF SetPaging, SetPage
<1>7. LinkPart(obj', entry', fault', drops') /\ RankPart(obj', fault')
  <2>1. \A p \in Object : FaultRefs(fault', p) = FaultRefs(fault, p)
    BY <1>5, RousedCounts
  <2>2. \A p \in Object : Linked(obj[p], obj'[p]) /\ obj[p].copy \in Object \cup {None}
    BY <1>1, <1>6, ObjectIs
  <2>3. LinkPart(obj', entry, fault', drops)
    <3>1. LinkPart(obj, entry, fault, drops)
      BY DEF Inv
    <3> QED
      BY ONLY <2>1, <2>2, <3>1, LinksSame
  <2>4. \A u \in Map : fault'[u].object = fault[u].object /\ fault'[u].first = fault[u].first
    BY <1>5 DEF Roused
  <2>5. \A p \in Object : obj'[p].shadow \in {None, obj[p].shadow}
    BY <1>6 DEF Linked
  <2>6. RankPart(obj', fault')
    BY <2>4, <2>5, RankSame DEF Inv
  <2> QED
    BY <1>2, <2>3, <2>6
<1>8. DaemonShape(daemon') /\ daemon'.object = None
  BY <1>2, Constants DEF DaemonShape, DaemonType, DaemonIdle
<1>9. DaemonUses
  <2>1. ASSUME NEW p \in Object
        PROVE  /\ obj'[p].paging_in_progress = obj[p].paging_in_progress
                     - (IF o = p THEN 1 ELSE 0) + (IF daemon'.object = p THEN 1 ELSE 0)
               /\ obj'[p].state = "free" => obj'[p].paging_in_progress = 0
    <3>1. obj[p].paging_in_progress \in Int /\ p # None
      BY <1>1, ObjectIs, Constants
    <3>2. /\ obj[p].state = "free" => obj[p].paging_in_progress = 0
          /\ o = p => obj[p].state # "free"
      BY UsedIs DEF Inv, PagingPart
    <3>3. obj'[p].state = obj[p].state
      BY <1>6 DEF Linked
    <3> HIDE DEF o
    <3> QED
      BY <1>6, <1>8, <3>1, <3>2, <3>3
  <2> QED
    BY <2>1 DEF DaemonUses
<1>10. DaemonAll
  <2>1. ASSUME NEW p \in Object, NEW y \in Page
        PROVE  /\ Held(obj'[p].page[y]) <=>
                     Writes(daemon', p, y) \/ (Held(obj[p].page[y]) /\ ~Writes(daemon, p, y))
               /\ Writes(daemon', p, y) => Writes(daemon, p, y) \/ ~Held(obj[p].page[y])
               /\ Busy(obj[p].page[y]) /\ ~Busy(obj'[p].page[y]) =>
                     \A u \in Map : ~Waits(fault'[u], p, y)
    <3>1. ~Writes(daemon', p, y) /\ (Writes(daemon, p, y) <=> p = o /\ y = x)
      BY <1>8, Constants DEF Writes
    <3>2. obj'[p].page[y] = IF p = o /\ y = x THEN None ELSE obj[p].page[y]
      BY <1>6
    <3> HIDE DEF o, x
    <3> QED
      BY <1>5, <3>1, <3>2 DEF Held
  <2> QED
    BY <2>1 DEF DaemonAll
<1>11. AbsentPart(obj')
  <2>1. ~Absent(None)
    BY DEF Absent
  <2> HIDE DEF o, x
  <2> QED
    BY <1>6, <2>1, AbsentNext DEF Linked
<1> QED
  BY <1>2, <1>5, <1>6, <1>7, <1>8, <1>9, <1>10, <1>11, DaemonStep

\* What is known of the pager of an object.
LEMMA PagerIs ==
    ASSUME NEW s \in Objs, NEW o \in Object
    PROVE  /\ SetPaging(s, [s EXCEPT ![o].pager_created = TRUE], o, 0)
           /\ SetPaging(s, [s EXCEPT ![o].pager_ready = TRUE], o, 0)
<1> DEFINE r == s[o]
<1>1. r \in LooseObject /\ \A p \in Object : s[p].paging_in_progress \in Int
  BY ObjectIs
<1>2. ASSUME NEW e \in LooseObject, Linked(r, e), e.page = r.page,
             e.paging_in_progress = r.paging_in_progress
      PROVE  SetPaging(s, [s EXCEPT ![o] = e], o, 0)
  <2> DEFINE q == [s EXCEPT ![o] = e]
  <2>1. q \in Objs /\ \A p \in Object : q[p] = IF p = o THEN e ELSE s[p]
    BY <1>2 DEF Objs
  <2> HIDE DEF q
  <2>2. ASSUME NEW p \in Object
        PROVE  /\ Linked(s[p], q[p]) /\ q[p].page = s[p].page
               /\ q[p].paging_in_progress =
                     IF p = o THEN s[p].paging_in_progress + 0 ELSE s[p].paging_in_progress
    BY <1>1, <1>2, <2>1, LinkedSelf
  <2>3. SetPaging(s, q, o, 0)
    BY <2>1, <2>2 DEF SetPaging
  <2> QED
    BY <2>3 DEF q
<1>3. SetPaging(s, [s EXCEPT ![o].pager_created = TRUE], o, 0)
  <2> DEFINE e == [r EXCEPT !.pager_created = TRUE]
  <2>1. e \in LooseObject
    BY <1>1, RecordIs
  <2>2. Linked(r, e) /\ e.page = r.page /\ e.paging_in_progress = r.paging_in_progress
    BY <1>1 DEF LooseObject, Linked
  <2>3. [s EXCEPT ![o].pager_created = TRUE] = [s EXCEPT ![o] = e]
    OBVIOUS
  <2> HIDE DEF e
  <2> QED
    BY <1>2, <2>1, <2>2, <2>3
<1>4. SetPaging(s, [s EXCEPT ![o].pager_ready = TRUE], o, 0)
  <2> DEFINE e == [r EXCEPT !.pager_ready = TRUE]
  <2>1. e \in LooseObject
    BY <1>1, RecordIs
  <2>2. Linked(r, e) /\ e.page = r.page /\ e.paging_in_progress = r.paging_in_progress
    BY <1>1 DEF LooseObject, Linked
  <2>3. [s EXCEPT ![o].pager_ready = TRUE] = [s EXCEPT ![o] = e]
    OBVIOUS
  <2> HIDE DEF e
  <2> QED
    BY <1>2, <2>1, <2>2, <2>3
<1> QED
  BY <1>3, <1>4

\* The daemon goes on with page x of o, in the objects s.
Outgoing(s, o, x) ==
    /\ obj' \in Objs
    /\ \A p \in Object :
          /\ Linked(s[p], obj'[p])
          /\ obj'[p].paging_in_progress = s[p].paging_in_progress + (IF p = o THEN 1 ELSE 0)
          /\ \A y \in Page : IF p = o /\ y = x THEN Held(obj'[p].page[y])
                             ELSE obj'[p].page[y] = s[p].page[y]
    /\ fault' \in Faults /\ \A u \in Map : Roused(fault[u], fault'[u])
    /\ DaemonShape(daemon') /\ daemon'.object = o /\ daemon'.page = x

\* A page is on its way to the pager: busy, and the daemon's.
LEMMA SendGoes ==
    ASSUME NEW s \in Objs, NEW o \in Object, NEW x \in Page, Send(s, o, x),
           s[o].page[x] \in PageType, fault \in Faults
    PROVE  Outgoing(s, o, x)
<1>1. /\ obj' \in Objs
      /\ \A p \in Object :
            /\ Linked(s[p], obj'[p])
            /\ obj'[p].paging_in_progress = s[p].paging_in_progress + (IF p = o THEN 1 ELSE 0)
            /\ \A y \in Page : obj'[p].page[y] =
                  IF p = o /\ y = x THEN Placeholder ELSE s[p].page[y]
      /\ fault' \in Faults /\ \A u \in Map : Roused(fault[u], fault'[u])
      /\ DaemonShape(daemon') /\ daemon'.object = o /\ daemon'.page = x
  BY SendIs
<1> QED
  BY <1>1, NewPages DEF Outgoing

\* The pager of the object has been made.
LEMMA PagerCreatedStep == ASSUME Inv, PagerCreated PROVE Inv'
<1> DEFINE o == daemon.object
           x == daemon.page
           s1 == Released(obj, o)
           s == [s1 EXCEPT ![o].pager_ready = TRUE]
<1>1. /\ obj \in Objs /\ fault \in Faults /\ o \in Object /\ x \in Page
      /\ DaemonShape(daemon)
  BY DEF Inv, TypePart, PagerCreated, DaemonShape, DaemonType
<1>2. Send(s, o, x) /\ entry' = entry /\ drops' = drops
  BY DEF PagerCreated
<1>3. SetPaging(obj, s1, o, -1)
  BY <1>1, ReleasedIs
<1> HIDE DEF s1
<1>4. SetPaging(s1, s, o, 0)
  <2>1. s1 \in Objs
    BY <1>3 DEF SetPaging
  <2> HIDE DEF o
  <2> QED
    BY <1>1, <2>1, PagerIs
<1> HIDE DEF s
<1>5. /\ s \in Objs /\ \A p \in Object : Linked(obj[p], s[p]) /\ s[p].page = obj[p].page
      /\ \A p \in Object : s[p].paging_in_progress =
                  obj[p].paging_in_progress - (IF p = o THEN 1 ELSE 0)
  <2>1. \A p \in Object : obj[p].paging_in_progress \in Int
    BY <1>1, ObjectIs
  <2>2. ASSUME NEW p \in Object PROVE Linked(obj[p], s[p])
    <3>1. Linked(obj[p], s1[p]) /\ Linked(s1[p], s[p])
      BY <1>3, <1>4 DEF SetPaging
    <3> QED
      BY <3>1, LinkedTwice
  <2>3. \A p \in Object : s1[p].paging_in_progress \in Int
    BY <1>3, ObjectIs DEF SetPaging
  <2> HIDE DEF o, x
  <2> QED
    BY <1>3, <1>4, <2>1, <2>2, <2>3 DEF SetPaging
<1>6. Held(obj[o].page[x]) /\ obj[o].page[x] \in PageType
  <2>1. Writes(daemon, o, x)
    BY DEF Writes
  <2>2. Held(obj[o].page[x])
    BY <1>1, <2>1 DEF Inv, PagesPart
  <2> QED
    BY <1>1, <2>2, ObjectIs DEF Held
<1>7. Outgoing(s, o, x)
  <2>1. s[o].page[x] \in PageType
    BY <1>1, <1>5, <1>6
  <2> HIDE DEF o, x
  <2> QED
    BY <1>1, <1>2, <1>5, <2>1, SendGoes
<1>8. /\ obj' \in Objs /\ fault' \in Faults /\ \A u \in Map : Roused(fault[u], fault'[u])
      /\ DaemonShape(daemon') /\ daemon'.object = o /\ daemon'.page = x
      /\ \A p \in Object :
            /\ Linked(obj[p], obj'[p])
            /\ obj'[p].paging_in_progress = obj[p].paging_in_progress
            /\ \A y \in Page : IF p = o /\ y = x THEN Held(obj'[p].page[y])
                               ELSE obj'[p].page[y] = obj[p].page[y]
  <2>1. \A p \in Object : obj[p].paging_in_progress \in Int
    BY <1>1, ObjectIs
  <2>2. ASSUME NEW p \in Object PROVE Linked(obj[p], obj'[p])
    <3>1. Linked(obj[p], s[p]) /\ Linked(s[p], obj'[p])
      BY <1>5, <1>7 DEF Outgoing
    <3> QED
      BY <3>1, LinkedTwice
  <2> HIDE DEF o, x
  <2> QED
    BY <1>5, <1>7, <2>1, <2>2 DEF Outgoing
<1>9. LinkPart(obj', entry', fault', drops') /\ RankPart(obj', fault')
  <2>1. \A p \in Object : FaultRefs(fault', p) = FaultRefs(fault, p)
    BY <1>8, RousedCounts
  <2>2. \A p \in Object : Linked(obj[p], obj'[p]) /\ obj[p].copy \in Object \cup {None}
    BY <1>1, <1>8, ObjectIs
  <2>3. LinkPart(obj', entry, fault', drops)
    <3>1. LinkPart(obj, entry, fault, drops)
      BY DEF Inv
    <3> QED
      BY ONLY <2>1, <2>2, <3>1, LinksSame
  <2>4. \A u \in Map : fault'[u].object = fault[u].object /\ fault'[u].first = fault[u].first
    BY <1>8 DEF Roused
  <2>5. \A p \in Object : obj'[p].shadow \in {None, obj[p].shadow}
    BY <1>8 DEF Linked
  <2>6. RankPart(obj', fault')
    BY <2>4, <2>5, RankSame DEF Inv
  <2> QED
    BY <1>2, <2>3, <2>6
<1>10. DaemonUses
  <2>1. ASSUME NEW p \in Object
        PROVE  /\ obj'[p].paging_in_progress = obj[p].paging_in_progress
                     - (IF o = p THEN 1 ELSE 0) + (IF daemon'.object = p THEN 1 ELSE 0)
               /\ obj'[p].state = "free" => obj'[p].paging_in_progress = 0
    <3>1. obj[p].paging_in_progress \in Int
      BY <1>1, ObjectIs
    <3>2. obj[p].state = "free" => obj[p].paging_in_progress = 0
      BY DEF Inv, PagingPart
    <3>3. obj'[p].state = obj[p].state
      BY <1>8 DEF Linked
    <3> HIDE DEF o
    <3> QED
      BY <1>8, <3>1, <3>2, <3>3
  <2> QED
    BY <2>1 DEF DaemonUses
<1>11. DaemonAll
  <2>1. ASSUME NEW p \in Object, NEW y \in Page
        PROVE  /\ Held(obj'[p].page[y]) <=>
                     Writes(daemon', p, y) \/ (Held(obj[p].page[y]) /\ ~Writes(daemon, p, y))
               /\ Writes(daemon', p, y) => Writes(daemon, p, y) \/ ~Held(obj[p].page[y])
               /\ Busy(obj[p].page[y]) /\ ~Busy(obj'[p].page[y]) =>
                     \A u \in Map : ~Waits(fault'[u], p, y)
    <3>1. /\ Writes(daemon', p, y) <=> p = o /\ y = x
          /\ Writes(daemon, p, y) <=> p = o /\ y = x
      BY <1>8 DEF Writes
    <3>2. IF p = o /\ y = x THEN Held(obj'[p].page[y]) ELSE obj'[p].page[y] = obj[p].page[y]
      BY <1>8
    <3> HIDE DEF o, x
    <3> QED
      BY <3>1, <3>2 DEF Held, Busy
  <2> QED
    BY <2>1 DEF DaemonAll
<1>12. AbsentPart(obj')
  <2>1. \A p \in Object, y \in Page : Absent(obj'[p].page[y]) => Absent(obj[p].page[y])
    <3> HIDE DEF o, x
    <3> QED
      BY <1>8 DEF Held, Absent
  <2> QED
    BY <1>8, <2>1, AbsentNext DEF Linked
<1> QED
  BY <1>2, <1>8, <1>9, <1>10, <1>11, <1>12, DaemonStep

\* The daemon takes a dirty page, and may collapse its object first.
LEMMA PageOutStep ==
    ASSUME Inv, NEW o \in Object, NEW x \in Page, PageOut(o, x)
    PROVE  Inv'
<1> DEFINE s1 == Unmap1(obj, o, x)
           s0 == [s1 EXCEPT ![o].page[x].busy = TRUE]
           s == IF s0[o].pager_ready THEN s0 ELSE Collapse(s0, o)
<1>1. /\ obj \in Objs /\ fault \in Faults /\ DaemonShape(daemon) /\ daemon.object = None
      /\ obj[o].state = "alive" /\ obj[o].page[x] # None /\ ~obj[o].page[x].busy
      /\ ~obj[o].page[x].absent /\ entry' = entry /\ drops' = drops
  BY DEF Inv, TypePart, PageOut, Inactive, DaemonShape
<1>2. PICK w \in PageType : SetPage(obj, s1, o, x, w)
          /\ w.busy = obj[o].page[x].busy /\ w.absent = obj[o].page[x].absent
  BY <1>1, UnmapIs
<1> HIDE DEF s1
<1> DEFINE v == [w EXCEPT !.busy = TRUE]
<1>3. v \in PageType /\ Held(v) /\ v # None
  BY <1>1, <1>2, Constants DEF PageType, Held
<1>4. SetPage(s1, s0, o, x, v)
  <2>1. s1[o].page[x] = w /\ s1 \in Objs
    BY <1>2 DEF SetPage
  <2>2. s0 = [s1 EXCEPT ![o].page[x] = v]
    BY <2>1
  <2> HIDE DEF s0, v
  <2> QED
    BY <1>3, <2>1, <2>2, PageSet
<1>5. PageOut(o, x) => \/ s[o].pager_ready /\ Send(s, o, x)
                       \/ /\ obj' = [s EXCEPT ![o].pager_created = TRUE,
                                              ![o].paging_in_progress = @ + 1]
                          /\ daemon' = [pc |-> "create", object |-> o, page |-> x]
                          /\ fault' = fault
  BY DEF PageOut, s1
<1> HIDE DEF s0, v
<1>6. /\ s0 \in Objs
      /\ \A p \in Object :
            /\ Linked(obj[p], s0[p])
            /\ s0[p].paging_in_progress = obj[p].paging_in_progress
            /\ \A y \in Page : s0[p].page[y] = IF p = o /\ y = x THEN v ELSE obj[p].page[y]
  <2>1. ASSUME NEW p \in Object PROVE Linked(obj[p], s0[p])
    <3>1. Linked(obj[p], s1[p]) /\ Linked(s1[p], s0[p])
      BY <1>2, <1>4 DEF SetPage
    <3> QED
      BY <3>1, LinkedTwice
  <2> QED
    BY <1>2, <1>4, <2>1 DEF SetPage
<1>7. Sound(s, OtherRefs, fault, o) /\ Shrunk(s0, s, o)
  <2>1. Sound(s0, OtherRefs, fault, o)
    <3>1. \A p \in Object :
              /\ Linked(obj[p], s0[p])
              /\ p # o => s0[p].paging_in_progress = obj[p].paging_in_progress
                          /\ \A y \in Page : s0[p].page[y] = obj[p].page[y]
      BY <1>6
    <3>2. AbsentPart(s0)
      <4>1. \A p \in Object :
              /\ obj[p].pager_created => s0[p].pager_created
              /\ \A y \in Page : Absent(s0[p].page[y]) =>
                                  Absent(obj[p].page[y]) \/ s0[p].pager_created
        <5>1. ~Absent(v)
          BY <1>3 DEF Held, Absent
        <5> QED
          BY <1>6, <5>1 DEF Linked
      <4>2. AbsentPart(obj)
        BY DEF Inv
      <4> QED
        BY <4>1, <4>2, AbsentKept
    <3> QED
      BY <1>1, <1>6, <3>1, <3>2, SoundStart
  <2>2. Shrunk(s0, s0, o)
    BY DEF Shrunk
  <2>3. OtherRefs \in [Object -> Nat]
    BY OthersAre
  <2>4. Sound(Collapse(s0, o), OtherRefs, fault, o) /\ Shrunk(s0, Collapse(s0, o), o)
    BY <2>1, <2>3, CollapseIs
  <2>5. CASE s0[o].pager_ready
    BY <2>1, <2>2, <2>5
  <2>6. CASE ~s0[o].pager_ready
    BY <2>4, <2>6
  <2> QED
    BY <2>5, <2>6
<1> HIDE DEF s
<1>8. s \in Objs /\ s[o].page[x] = v
  BY <1>3, <1>6, <1>7 DEF Sound, Shrunk
<1>9. Outgoing(s, o, x)
  <2>1. CASE Send(s, o, x)
    BY <1>1, <1>3, <1>8, <2>1, SendGoes
  <2>2. CASE /\ obj' = [s EXCEPT ![o].pager_created = TRUE,
                                 ![o].paging_in_progress = @ + 1]
             /\ daemon' = [pc |-> "create", object |-> o, page |-> x]
             /\ fault' = fault
    <3> DEFINE q == [s EXCEPT ![o].pager_created = TRUE]
               z == [q EXCEPT ![o].paging_in_progress = @ + 1]
    <3>1. obj' = z
      <4>1. s[o] \in LooseObject
        BY <1>8, ObjectIs
      <4> QED
        BY <1>8, <2>2, <4>1 DEF Objs, LooseObject
    <3>2. SetPaging(s, q, o, 0)
      BY <1>8, PagerIs
    <3> HIDE DEF q
    <3>3. SetPaging(q, z, o, 1)
      <4>1. q \in Objs /\ o \in Object /\ 1 \in Int
        BY <3>2 DEF SetPaging
      <4> QED
        BY ONLY <4>1, PagingSet DEF z
    <3> HIDE DEF z
    <3>4. ASSUME NEW p \in Object
          PROVE  /\ Linked(s[p], z[p])
                 /\ z[p].paging_in_progress = s[p].paging_in_progress + (IF p = o THEN 1 ELSE 0)
                 /\ z[p].page = s[p].page
      <4>1. Linked(s[p], q[p]) /\ Linked(q[p], z[p])
        BY <3>2, <3>3 DEF SetPaging
      <4>2. Linked(s[p], z[p])
        BY <4>1, LinkedTwice
      <4>3. s[p].paging_in_progress \in Int
        BY <1>8, ObjectIs
      <4> QED
        BY <3>2, <3>3, <4>2, <4>3 DEF SetPaging
    <3>5. fault' \in Faults /\ \A u \in Map : Roused(fault[u], fault'[u])
      BY <1>1, <2>2, RousedSelf
    <3>6. DaemonShape(daemon') /\ daemon'.object = o /\ daemon'.page = x
      BY <2>2, Constants DEF DaemonShape, DaemonType
    <3>7. z \in Objs
      BY <3>3 DEF SetPaging
    <3> QED
      BY <1>3, <1>8, <3>1, <3>4, <3>5, <3>6, <3>7 DEF Outgoing
  <2> QED
    BY <1>5, <2>1, <2>2
<1>10. /\ obj' \in Objs /\ fault' \in Faults /\ \A u \in Map : Roused(fault[u], fault'[u])
       /\ DaemonShape(daemon') /\ daemon'.object = o /\ daemon'.page = x
       /\ \A p \in Object :
             /\ Linked(s[p], obj'[p])
             /\ obj'[p].paging_in_progress = s[p].paging_in_progress + (IF p = o THEN 1 ELSE 0)
             /\ s[p].paging_in_progress = obj[p].paging_in_progress
             /\ \A y \in Page : IF p = o /\ y = x THEN Held(obj'[p].page[y])
                                ELSE obj'[p].page[y] = s[p].page[y]
  <2>1. \A p \in Object : s[p].paging_in_progress = obj[p].paging_in_progress
    BY <1>6, <1>7 DEF Shrunk
  <2> QED
    BY <1>9, <2>1 DEF Outgoing
<1>11. LinkPart(obj', entry', fault', drops') /\ RankPart(obj', fault')
  <2>1. \A p \in Object : FaultRefs(fault', p) = FaultRefs(fault, p)
    BY <1>10, RousedCounts
  <2>2. \A u \in Map : fault'[u].object = fault[u].object /\ fault'[u].first = fault[u].first
    BY <1>10 DEF Roused
  <2> QED
    BY <1>1, <1>7, <1>10, <2>1, <2>2, SoundEnd
<1>12. DaemonUses
  <2>1. ASSUME NEW p \in Object
        PROVE  /\ obj'[p].paging_in_progress = obj[p].paging_in_progress
                     - (IF daemon.object = p THEN 1 ELSE 0) + (IF daemon'.object = p THEN 1 ELSE 0)
               /\ obj'[p].state = "free" => obj'[p].paging_in_progress = 0
    <3>1. obj[p].paging_in_progress \in Int /\ p # None
      BY <1>1, ObjectIs, Constants
    <3>2. /\ s[p].state = "free" => s[p].paging_in_progress = 0
          /\ s[o].state = "alive"
      BY <1>7 DEF Sound
    <3>3. obj'[p].state = s[p].state
      BY <1>10 DEF Linked
    <3> QED
      BY <1>1, <1>10, <3>1, <3>2, <3>3
  <2> QED
    BY <2>1 DEF DaemonUses
<1>13. DaemonAll
  <2>1. ASSUME NEW p \in Object, NEW y \in Page
        PROVE  /\ Held(obj'[p].page[y]) <=>
                     Writes(daemon', p, y) \/ (Held(obj[p].page[y]) /\ ~Writes(daemon, p, y))
               /\ Writes(daemon', p, y) => Writes(daemon, p, y) \/ ~Held(obj[p].page[y])
               /\ Busy(obj[p].page[y]) /\ ~Busy(obj'[p].page[y]) =>
                     \A u \in Map : ~Waits(fault'[u], p, y)
    <3>1. /\ Writes(daemon', p, y) <=> p = o /\ y = x
          /\ ~Writes(daemon, p, y)
      BY <1>1, <1>10, Constants DEF Writes
    <3>2. CASE p = o /\ y = x
      <4>1. Held(obj'[p].page[y]) /\ Busy(obj'[p].page[y]) /\ ~Held(obj[p].page[y])
        BY <1>1, <1>10, <3>2 DEF Held, Busy
      <4> QED
        BY <3>1, <3>2, <4>1
    <3>3. CASE ~(p = o /\ y = x)
      <4>1. obj'[p].page[y] = s[p].page[y]
        BY <1>10, <3>3
      <4>2. /\ p # o => s0[p].paging_in_progress = obj[p].paging_in_progress
            /\ s0[p].page[y] = obj[p].page[y]
        BY <1>6, <3>3
      <4>3. /\ Held(s[p].page[y]) <=> Held(obj[p].page[y])
            /\ Busy(obj[p].page[y]) /\ ~Busy(s[p].page[y]) =>
                   \A u \in Map : ~Waits(fault[u], p, y)
        BY <1>7, <4>2, ShrunkPages
      <4>4. \A u \in Map : Waits(fault'[u], p, y) => Waits(fault[u], p, y)
        BY <1>10, RousedSame
      <4> QED
        BY <3>1, <3>3, <4>1, <4>3, <4>4
    <3> QED
      BY <3>2, <3>3
  <2> QED
    BY <2>1 DEF DaemonAll
<1>14. AbsentPart(obj')
  <2>1. AbsentPart(s)
    BY <1>7 DEF Sound
  <2>2. \A p \in Object, y \in Page : Absent(obj'[p].page[y]) => Absent(s[p].page[y])
    BY <1>10 DEF Held, Absent
  <2>3. \A p \in Object : s[p].pager_created => obj'[p].pager_created
    BY <1>10 DEF Linked
  <2> QED
    BY <2>1, <2>2, <2>3, AbsentKept
<1> QED
  BY <1>1, <1>10, <1>11, <1>12, <1>13, <1>14, DaemonStep

-----------------------------------------------------------------------------
(* The invariant holds. *)

\* An entry of File is never to be copied.
LEMMA FaultEntries ==
    ASSUME Inv, EntryPart(entry), NEW t \in Map, NEW x \in Page, NEW write \in BOOLEAN,
           Fault(t, x, write)
    PROVE  EntryPart(entry')
<1> DEFINE e == entry[t]
           make == e.object = None \/ (write /\ e.needs_copy)
           o == IF make THEN Fresh ELSE e.object
           v == [object |-> o, needs_copy |-> e.needs_copy /\ ~write]
<1>1. /\ e # None /\ entry' = [entry EXCEPT ![t] = v] /\ (make => Free # {})
      /\ entry \in [Map -> EntryType]
  BY DEF Fault, Inv, TypePart
<1>2. v.object = File => ~v.needs_copy
  <2>1. CASE make
    <3>1. o # File
      BY <1>1, <2>1, FreshIs
    <3> QED
      BY <3>1
  <2>2. CASE ~make
    BY <1>1, <2>2 DEF EntryPart
  <2> QED
    BY <2>1, <2>2
<1> HIDE DEF v
<1> QED
  BY <1>1, <1>2 DEF EntryPart

\* No copy makes a needs_copy entry of the file.
LEMMA CopyEntries ==
    ASSUME Inv, EntryPart(entry), NEW m \in Map, NEW d \in Map, Copy(m, d)
    PROVE  EntryPart(entry')
<1>1. entry \in [Map -> EntryType]
  BY DEF Inv, TypePart
<1>2. CASE CopyTemporary(m, d)
  <2> DEFINE v == [object |-> entry[m].object, needs_copy |-> entry[m].object # None]
  <2>1. v.object # File /\ entry' = [entry EXCEPT ![m] = v, ![d] = v]
    BY <1>2 DEF CopyTemporary
  <2> HIDE DEF v
  <2> QED
    BY <1>1, <2>1 DEF EntryPart
<1>3. CASE CopyDelayed(m, d)
  <2> DEFINE old == obj[File].copy
  <2>1. old # None => old # File
    <3>1. old # None => obj[old].shadow = File
      BY Constants DEF Inv, LinkPart, LinksOf
    <3>2. obj[File].shadow = None /\ File # None
      BY Constants DEF Inv, LinkPart
    <3> QED
      BY <3>1, <3>2
  <2>2. Free # {} => Fresh # File
    BY FreshIs
  <2>3. \E n : n # File /\ entry' = [entry EXCEPT ![d] = [object |-> n, needs_copy |-> TRUE]]
    <3>1. \/ old # None /\ entry' = [entry EXCEPT ![d] = [object |-> old, needs_copy |-> TRUE]]
          \/ /\ Free # {}
             /\ entry' = [entry EXCEPT ![d] = [object |-> Fresh, needs_copy |-> TRUE]]
      BY <1>3 DEF CopyDelayed
    <3> QED
      BY <2>1, <2>2, <3>1
  <2>4. PICK n : n # File /\ entry' = [entry EXCEPT ![d] = [object |-> n, needs_copy |-> TRUE]]
    BY <2>3
  <2> QED
    BY <1>1, <2>4 DEF EntryPart
<1> QED
  BY <1>2, <1>3 DEF Copy

\* Entering and removing make none.
LEMMA MapEntries ==
    ASSUME Inv, EntryPart(entry), NEW m \in Map,
           Remove(m) \/ \E o \in {None, File} : Enter(m, o)
    PROVE  EntryPart(entry')
<1>1. entry \in [Map -> EntryType]
  BY DEF Inv, TypePart
<1>2. CASE Remove(m)
  BY <1>1, <1>2 DEF Remove, EntryPart
<1>3. ASSUME NEW o \in {None, File}, Enter(m, o) PROVE EntryPart(entry')
  BY <1>1, <1>3 DEF Enter, EntryPart
<1> QED
  BY <1>2, <1>3

\* All that only the history is made of.
HistoryPart ==
    /\ file \in [Page -> Value]
    /\ memory \in [Map -> [Page -> Value]]
    /\ done \in [DOMAIN Max -> Nat]

IInv == Inv /\ EntryPart(entry) /\ HistoryPart

\* A value nowhere is nowhere counted.
LEMMA TallyNone ==
    ASSUME NEW f, NEW v, \A y \in DOMAIN f : f[y] # v
    PROVE  Tally(f, v) = 0
<1>1. Places(f, v) = {}
  BY DEF Places
<1> QED
  BY <1>1, FS_EmptySet DEF Tally

\* The file, referenced by the system alone.
LEMMA InitInv == Init => IInv
<1> SUFFICES ASSUME Init PROVE IInv
  OBVIOUS
<1> DEFINE e == [NewObject EXCEPT !.pager_created = TRUE, !.pager_ready = TRUE]
<1>1. /\ e \in LooseObject /\ e.state = "alive" /\ e.ref_count = 1
      /\ e.paging_in_progress = 0 /\ e.shadow = None /\ e.copy = None
      /\ e.panic = FALSE /\ \A x \in Page : e.page[x] = None
  <2> DEFINE e1 == [NewObject EXCEPT !.pager_created = TRUE]
             e2 == [e1 EXCEPT !.pager_ready = TRUE]
  <2>1. e1 \in LooseObject
    BY FreeIs, RecordIs
  <2>2. /\ e1.state = "alive" /\ e1.ref_count = 1
        /\ e1.paging_in_progress = 0 /\ e1.shadow = None /\ e1.copy = None
        /\ e1.panic = FALSE /\ \A x \in Page : e1.page[x] = None
    BY FreeIs DEF LooseObject
  <2> HIDE DEF e1
  <2>3. e2 \in LooseObject
    BY <2>1, RecordIs
  <2>4. /\ e2.state = "alive" /\ e2.ref_count = 1
        /\ e2.paging_in_progress = 0 /\ e2.shadow = None /\ e2.copy = None
        /\ e2.panic = FALSE /\ \A x \in Page : e2.page[x] = None
    BY <2>1, <2>2 DEF LooseObject
  <2>5. e = e2
    BY DEF e1
  <2> HIDE DEF e2, e
  <2> QED
    BY <2>3, <2>4, <2>5
<1>2. /\ DOMAIN obj = Object /\ \A o \in Object : obj[o] = IF o = File THEN e ELSE FreeObject
      /\ obj = [o \in Object |-> obj[o]]
  BY DEF Init
<1> HIDE DEF e
<1>3. ASSUME NEW o \in Object
      PROVE  /\ obj[o] \in LooseObject /\ obj[o].shadow = None /\ obj[o].copy = None
             /\ obj[o].state = (IF o = File THEN "alive" ELSE "free")
             /\ obj[o].ref_count = (IF o = File THEN 1 ELSE 0)
             /\ obj[o].paging_in_progress = 0 /\ obj[o].panic = FALSE
             /\ \A x \in Page : obj[o].page[x] = None
  BY <1>1, <1>2, FreeIs
<1>4. obj \in Objs
  BY <1>2, <1>3 DEF Objs
<1>5. /\ fault = [t \in Map |-> Idle] /\ \A t \in Map : fault[t] = Idle
      /\ entry = [m \in Map |-> None] /\ drops = [o \in Object |-> 0]
      /\ daemon = DaemonIdle
  BY DEF Init
<1>6. /\ Idle \in FaultType /\ Idle.pc = "idle" /\ Idle.first = None
      /\ Idle.object = None /\ Idle.page = None
  BY DEF Idle, FaultType
<1>7. /\ daemon.object = None /\ DaemonShape(daemon)
  BY <1>5, Constants DEF DaemonIdle, DaemonShape, DaemonType
<1>8. TypePart(obj, entry, fault, daemon, drops)
  <2>1. fault \in Faults /\ \A t \in Map : ShapeOf(fault[t])
    BY <1>5, <1>6, Constants DEF Faults, ShapeOf
  <2>2. entry \in [Map -> EntryType] /\ drops \in [Object -> Nat]
    BY <1>5 DEF EntryType
  <2> QED
    BY <1>4, <1>7, <2>1, <2>2 DEF TypePart
<1>9. ASSUME NEW o \in Object
      PROVE  /\ Tally(EntryOf(entry), o) = 0 /\ Tally(ShadowOf(obj), o) = 0
             /\ Tally(FirstOf(fault), o) = 0 /\ Tally(PushOf(fault), o) = 0
             /\ Tally(ObjectOf(fault), o) = 0 /\ Tally(LeftOf(fault), o) = 0
  <2>1. o # None
    BY Constants
  <2>2. /\ \A m \in DOMAIN EntryOf(entry) : EntryOf(entry)[m] # o
        /\ \A p \in DOMAIN ShadowOf(obj) : ShadowOf(obj)[p] # o
        /\ \A t \in DOMAIN FirstOf(fault) : FirstOf(fault)[t] # o
        /\ \A t \in DOMAIN PushOf(fault) : PushOf(fault)[t] # o
        /\ \A t \in DOMAIN ObjectOf(fault) : ObjectOf(fault)[t] # o
        /\ \A t \in DOMAIN LeftOf(fault) : LeftOf(fault)[t] # o
    BY <1>3, <1>5, <1>6, <2>1 DEF EntryOf, ShadowOf, FirstOf, PushOf, ObjectOf, LeftOf
  <2> QED
    BY <2>2, TallyNone
<1>10. LinkPart(obj, entry, fault, drops)
  <2>1. ASSUME NEW o \in Object
        PROVE  obj[o].ref_count = Users(obj, entry, fault, drops, o) /\ LinksOf(obj, o)
    <3>1. Users(obj, entry, fault, drops, o) = IF o = File THEN 1 ELSE 0
      BY <1>5, <1>9 DEF Users, FaultRefs
    <3>2. LinksOf(obj, o)
      BY <1>3, Constants DEF LinksOf
    <3> QED
      BY <1>3, <3>1, <3>2
  <2> QED
    BY <1>3, <2>1, Constants DEF LinkPart
<1>11. PagingPart(obj, fault, daemon)
  <2>1. ASSUME NEW o \in Object PROVE Pagers(fault, daemon, o) = 0
    BY <1>7, <1>9, Constants DEF Pagers, FaultUses
  <2> QED
    BY <1>3, <2>1 DEF PagingPart
<1>12. RankPart(obj, fault)
  <2> DEFINE r == [o \in Object |-> 0]
  <2>1. Ranks(r, obj, fault)
    BY <1>3, <1>5, <1>6 DEF Ranks
  <2> QED
    BY <2>1 DEF RankPart
<1>13. PagesPart(obj, fault, daemon)
  <2>1. \A o \in Object, x \in Page : ~Held(obj[o].page[x]) /\ ~Writes(daemon, o, x)
    BY <1>3, <1>7, Constants DEF Held, Writes
  <2>2. \A o \in Object, x \in Page, t \in Map :
            ~Owns(fault[t], o, x) /\ ~Waits(fault[t], o, x)
    BY <1>5, <1>6, Constants DEF Owns, Waits
  <2> QED
    BY <2>1, <2>2 DEF PagesPart
<1>14. EntryPart(entry)
  BY <1>5 DEF EntryPart
<1>15. HistoryPart
  BY ConstantsAssumption DEF Init, HistoryPart
<1>16. AbsentPart(obj)
  BY <1>3 DEF AbsentPart, Absent
<1> QED
  BY <1>8, <1>10, <1>11, <1>12, <1>13, <1>14, <1>15, <1>16 DEF IInv, Inv

\* What the steps of a fault, of the daemon and of the pagers leave alone.
LEMMA StepLeaves ==
    ASSUME NEW t \in Map, Step(t) \/ Interrupted(t) \/ NoMemory(t)
    PROVE  entry' = entry /\ file' = file /\ memory' = memory
<1>1. CASE FindBusy(t) \/ FindPage(t) \/ AskPager(t) \/ PagerNotReady(t)
  BY <1>1 DEF FindBusy, FindPage, AskPager, PagerNotReady
<1>2. CASE Descend(t) \/ ZeroFill(t) \/ Resume(t) \/ Restarted(t) \/ Interrupted(t)
  BY <1>2 DEF Descend, ZeroFill, Resume, Restarted, Interrupted
<1>3. CASE CopyUp(t) \/ Install(t) \/ Accept(t)
  BY <1>3 DEF CopyUp, Install, Accept
<1>4. CASE CopyBusy(t) \/ NoMemory(t)
  BY <1>4 DEF CopyBusy, NoMemory, PutBack
<1>5. CASE Push(t)
  BY <1>5 DEF Push
<1>6. CASE Pushed(t)
  BY <1>6 DEF Pushed
<1>7. CASE Verify(t) \/ EnterPage(t) \/ FaultDone(t)
  BY <1>7 DEF Verify, EnterPage, PmapEnter, FaultDone
<1> QED
  BY <1>1, <1>2, <1>3, <1>4, <1>5, <1>6, <1>7 DEF Step

\* The system's steps leave entries and histories alone.
LEMMA SystemLeaves ==
    ASSUME \/ \E o \in Object : Deallocate(o) \/ Terminate(o)
           \/ \E o \in Object, x \in Page : PagerAnswers(o, x) \/ Reclaim(o, x) \/ PageOut(o, x)
           \/ PagerCreated \/ PageSent
    PROVE  entry' = entry /\ file' = file /\ memory' = memory
<1>1. ASSUME NEW o \in Object, Deallocate(o) \/ Terminate(o)
      PROVE  entry' = entry /\ file' = file /\ memory' = memory
  BY <1>1 DEF Deallocate, Terminate
<1>2. ASSUME NEW o \in Object, NEW x \in Page, PagerAnswers(o, x) \/ Reclaim(o, x)
      PROVE  entry' = entry /\ file' = file /\ memory' = memory
  BY <1>2 DEF PagerAnswers, Reclaim
<1>3. ASSUME NEW o \in Object, NEW x \in Page, PageOut(o, x)
      PROVE  entry' = entry /\ file' = file /\ memory' = memory
  BY <1>3 DEF PageOut
<1>4. CASE PagerCreated \/ PageSent
  BY <1>4 DEF PagerCreated, PageSent
<1> QED
  BY <1>1, <1>2, <1>3, <1>4

\* Every step of a fault keeps the invariant.
LEMMA StepInv == ASSUME Inv, NEW t \in Map, Step(t) PROVE Inv'
<1>1. CASE FindBusy(t) \/ FindPage(t) \/ AskPager(t) \/ PagerNotReady(t)
  BY <1>1, FindBusyStep, FindPageStep, AskPagerStep, PagerNotReadyStep
<1>2. CASE Descend(t) \/ ZeroFill(t) \/ Resume(t) \/ Restarted(t)
  BY <1>2, DescendStep, ZeroFillStep, ResumeStep, RestartedStep
<1>3. CASE CopyUp(t) \/ Install(t) \/ Accept(t) \/ CopyBusy(t)
  BY <1>3, CopyUpStep, InstallStep, AcceptStep, CopyBusyStep
<1>4. CASE Push(t) \/ Pushed(t) \/ Verify(t) \/ EnterPage(t) \/ FaultDone(t)
  BY <1>4, PushStep, PushedStep, VerifyStep, EnterPageStep, FaultDoneStep
<1> QED
  BY <1>1, <1>2, <1>3, <1>4 DEF Step

\* The kinds of steps, with what each does to done left out.
LEMMA NextIs ==
    ASSUME Next
    PROVE  \/ \E t \in Map : Step(t) \/ Interrupted(t) \/ NoMemory(t)
           \/ \/ \E o \in Object : Deallocate(o) \/ Terminate(o)
              \/ \E o \in Object, x \in Page :
                    PagerAnswers(o, x) \/ Reclaim(o, x) \/ PageOut(o, x)
              \/ PagerCreated \/ PageSent
           \/ \E t \in Map, x \in Page, write \in BOOLEAN : Fault(t, x, write)
           \/ \E m \in Map, o \in {None, File} : Enter(m, o)
           \/ \E m \in Map : Remove(m)
           \/ \E m, d \in Map : Copy(m, d)
           \/ \E m \in Map, x \in Page, v \in Value : UserWrite(m, x, v)
  BY Zenon DEF Next

\* The bounds on operations are numbers.
LEMMA DoneIs ==
    ASSUME done \in [DOMAIN Max -> Nat], Next
    PROVE  done' \in [DOMAIN Max -> Nat]
<1>1. done' = done \/ \E k : done' = [done EXCEPT ![k] = @ + 1]
  BY DEF Next, Counted
<1> QED
  BY <1>1

\* Every step keeps the inductive invariant.
LEMMA NextInv == ASSUME IInv, Next PROVE IInv'
<1>1. /\ Inv /\ EntryPart(entry) /\ file \in [Page -> Value]
      /\ memory \in [Map -> [Page -> Value]] /\ done \in [DOMAIN Max -> Nat]
  BY DEF IInv, HistoryPart
<1>2. done' \in [DOMAIN Max -> Nat]
  BY <1>1, DoneIs
<1> SUFFICES Inv' /\ EntryPart(entry') /\ file' \in [Page -> Value]
             /\ memory' \in [Map -> [Page -> Value]]
  BY <1>2 DEF IInv, HistoryPart, EntryPart
<1>3. ASSUME NEW t \in Map, Step(t) \/ Interrupted(t) \/ NoMemory(t)
      PROVE  Inv' /\ EntryPart(entry') /\ file' = file /\ memory' = memory
  BY <1>1, <1>3, StepInv, InterruptedStep, NoMemoryStep, StepLeaves
<1>4. ASSUME \/ \E o \in Object : Deallocate(o) \/ Terminate(o)
             \/ \E o \in Object, x \in Page :
                   PagerAnswers(o, x) \/ Reclaim(o, x) \/ PageOut(o, x)
             \/ PagerCreated \/ PageSent
      PROVE  Inv' /\ EntryPart(entry') /\ file' = file /\ memory' = memory
  <2>1. entry' = entry /\ file' = file /\ memory' = memory
    BY <1>4, SystemLeaves
  <2>2. Inv'
    BY <1>1, <1>4, DeallocateStep, TerminateStep, PagerAnswersStep, ReclaimStep,
       PageOutStep, PagerCreatedStep, PageSentStep
  <2> QED
    BY <1>1, <2>1, <2>2
<1>5. ASSUME NEW t \in Map, NEW x \in Page, NEW write \in BOOLEAN, Fault(t, x, write)
      PROVE  Inv' /\ EntryPart(entry') /\ file' = file /\ memory' = memory
  <2>1. file' = file /\ memory' = memory
    BY <1>5 DEF Fault
  <2> QED
    BY <1>1, <1>5, <2>1, FaultStep, FaultEntries
<1>6. ASSUME NEW m \in Map, NEW o \in {None, File}, Enter(m, o)
      PROVE  Inv' /\ EntryPart(entry') /\ file' = file /\ memory' = memory
  <2>1. file' = file /\ memory' = memory
    BY <1>6 DEF Enter
  <2> QED
    BY <1>1, <1>6, <2>1, EnterStep, MapEntries
<1>7. ASSUME NEW m \in Map, Remove(m)
      PROVE  /\ Inv' /\ EntryPart(entry') /\ file' = file
             /\ memory' \in [Map -> [Page -> Value]]
  <2>1. file' = file /\ memory' = [memory EXCEPT ![m] = [x \in Page |-> Zero]]
    BY <1>7 DEF Remove
  <2> QED
    BY <1>1, <1>7, <2>1, RemoveStep, MapEntries, ConstantsAssumption
<1>8. ASSUME NEW m \in Map, NEW d \in Map, Copy(m, d)
      PROVE  /\ Inv' /\ EntryPart(entry') /\ file' = file
             /\ memory' \in [Map -> [Page -> Value]]
  <2>1. file' = file /\ memory' = [memory EXCEPT ![d] = Contents(m)]
    BY <1>8 DEF Copy
  <2>2. Contents(m) \in [Page -> Value]
    BY <1>1 DEF Contents
  <2> QED
    BY <1>1, <1>8, <2>1, <2>2, CopyStep, CopyEntries
<1>9. ASSUME NEW m \in Map, NEW x \in Page, NEW v \in Value, UserWrite(m, x, v)
      PROVE  /\ Inv' /\ EntryPart(entry') /\ file' \in [Page -> Value]
             /\ memory' \in [Map -> [Page -> Value]]
  <2>1. /\ entry' = entry
        /\ file' = file \/ file' = [file EXCEPT ![x] = v]
        /\ memory' = memory \/ memory' = [memory EXCEPT ![m][x] = v]
    BY <1>9 DEF UserWrite
  <2>2. Inv'
    BY <1>1, <1>9, UserWriteStep
  <2>3. file' \in [Page -> Value]
    BY <1>1, <2>1
  <2>4. memory' \in [Map -> [Page -> Value]]
    <3>1. memory[m] \in [Page -> Value]
      BY <1>1
    <3> DEFINE g == [memory[m] EXCEPT ![x] = v]
    <3>2. g \in [Page -> Value]
      BY <3>1
    <3>3. memory' = memory \/ memory' = [memory EXCEPT ![m] = g]
      BY <2>1
    <3> HIDE DEF g
    <3> QED
      BY <1>1, <3>2, <3>3
  <2>5. EntryPart(entry')
    BY <1>1, <2>1
  <2> QED
    BY <2>2, <2>3, <2>4, <2>5
<1> QED
  BY <1>1, <1>3, <1>4, <1>5, <1>6, <1>7, <1>8, <1>9, NextIs

\* And so does every stutter.
LEMMA IInvStep == IInv /\ [Next]_vars => IInv'
<1>1. ASSUME IInv, Next PROVE IInv'
  BY <1>1, NextInv
<1>2. ASSUME IInv, UNCHANGED vars PROVE IInv'
  BY <1>2 DEF IInv, Inv, HistoryPart, vars
<1> QED
  BY <1>1, <1>2

\* The inductive invariant holds in every behaviour.
LEMMA AlwaysIInv == Spec => []IInv
  BY InitInv, IInvStep, PTL DEF Spec

-----------------------------------------------------------------------------
(* Theorems. *)

\* The variables have their types: no count is ever negative, every chain
\* of shadows and every fault names objects and pages that there are.
THEOREM TypesHold == Spec => []TypeOK
<1>1. IInv => TypeOK
  <2> SUFFICES ASSUME IInv PROVE TypeOK
    OBVIOUS
  <2>1. /\ obj \in Objs /\ fault \in [Map -> FaultType] /\ daemon \in DaemonType
        /\ entry \in [Map -> EntryType] /\ drops \in [Object -> Nat]
    BY DEF IInv, Inv, TypePart, Faults, DaemonShape
  <2>2. ASSUME NEW o \in Object PROVE obj[o] \in ObjectType
    <3>1. obj[o].ref_count \in Nat
      BY <2>1, AliveIs DEF IInv, Inv
    <3>2. obj[o].paging_in_progress \in Nat
      BY UsedIs DEF IInv, Inv
    <3>3. obj[o] \in LooseObject
      BY <2>1, ObjectIs
    <3> DEFINE r == obj[o]
    <3> HIDE DEF r
    <3>4. r \in LooseObject /\ r.ref_count \in Nat /\ r.paging_in_progress \in Nat
      BY <3>1, <3>2, <3>3 DEF r
    <3>5. r \in ObjectType
      BY <3>4, Zenon DEF LooseObject, ObjectType
    <3> QED
      BY <3>5 DEF r
  <2>3. obj \in [Object -> ObjectType]
    BY <2>1, <2>2 DEF Objs
  <2> QED
    BY <2>1, <2>3 DEF TypeOK, IInv, HistoryPart
<1> QED
  BY <1>1, AlwaysIInv, PTL

\* ref_count and paging_in_progress are exact in every state: through every
\* collapse, bypass, delayed copy, push to a copy object and pageout, an object
\* is counted once for each entry, shadow, fault and pageout that uses it, so
\* vm_object_deallocate frees it when the last of them goes and not before.
THEOREM CountsHold == Spec => []CountsExact
<1>1. IInv => CountsExact
  <2> SUFFICES ASSUME IInv, NEW o \in Object
               PROVE
        /\ obj[o].ref_count =
              Cardinality({m \in Map : entry[m] # None /\ entry[m].object = o})
              + Cardinality({p \in Object : InUse(p) /\ obj[p].shadow = o})
              + Cardinality({t \in Map : fault[t].first = o})
              + Cardinality({t \in Map : fault[t].pc = "pushing"
                                         /\ fault[t].old_copy = o})
              + drops[o] + (IF o = File THEN 1 ELSE 0)
        /\ obj[o].paging_in_progress =
              Cardinality({t \in Map : fault[t].object = o})
              + Cardinality({t \in Map : fault[t].first = o
                                         /\ fault[t].object \notin {o, None}})
              + Cardinality({t \in Map : fault[t].pc = "pushing"
                                         /\ fault[t].old_copy = o})
              + (IF daemon.object = o THEN 1 ELSE 0)
    BY DEF CountsExact
  <2> DEFINE n1 == Cardinality({m \in Map : entry[m] # None /\ entry[m].object = o})
             n2 == Cardinality({p \in Object : InUse(p) /\ obj[p].shadow = o})
             n3 == Cardinality({t \in Map : fault[t].first = o})
             n4 == Cardinality({t \in Map : fault[t].pc = "pushing" /\ fault[t].old_copy = o})
             n5 == Cardinality({t \in Map : fault[t].object = o})
             n6 == Cardinality({t \in Map : fault[t].first = o
                                            /\ fault[t].object \notin {o, None}})
  <2>1. o # None
    BY Constants
  <2>2. n1 = Tally(EntryOf(entry), o)
    <3>1. {m \in Map : entry[m] # None /\ entry[m].object = o} = Places(EntryOf(entry), o)
      BY <2>1 DEF Places, EntryOf
    <3> QED
      BY <3>1 DEF Tally
  <2>3. n2 = Tally(ShadowOf(obj), o)
    <3>1. {p \in Object : InUse(p) /\ obj[p].shadow = o} = Places(ShadowOf(obj), o)
      BY <2>1 DEF Places, ShadowOf, InUse
    <3> QED
      BY <3>1 DEF Tally
  <2>4. n3 = Tally(FirstOf(fault), o)
    <3>1. {t \in Map : fault[t].first = o} = Places(FirstOf(fault), o)
      BY DEF Places, FirstOf
    <3> QED
      BY <3>1 DEF Tally
  <2>5. n4 = Tally(PushOf(fault), o)
    <3>1. {t \in Map : fault[t].pc = "pushing" /\ fault[t].old_copy = o} = Places(PushOf(fault), o)
      BY <2>1 DEF Places, PushOf
    <3> QED
      BY <3>1 DEF Tally
  <2>6. n5 = Tally(ObjectOf(fault), o)
    <3>1. {t \in Map : fault[t].object = o} = Places(ObjectOf(fault), o)
      BY DEF Places, ObjectOf
    <3> QED
      BY <3>1 DEF Tally
  <2>7. n6 = Tally(LeftOf(fault), o)
    <3>1. {t \in Map : fault[t].first = o /\ fault[t].object \notin {o, None}}
             = Places(LeftOf(fault), o)
      BY <2>1 DEF Places, LeftOf
    <3> QED
      BY <3>1 DEF Tally
  <2>8. /\ n1 \in Nat /\ n2 \in Nat /\ n3 \in Nat /\ n4 \in Nat /\ n5 \in Nat /\ n6 \in Nat
        /\ drops[o] \in Nat
    <3>1. DOMAIN EntryOf(entry) = Map /\ DOMAIN ShadowOf(obj) = Object
      BY DEF EntryOf, ShadowOf
    <3>2. Tally(EntryOf(entry), o) \in Nat /\ Tally(ShadowOf(obj), o) \in Nat
      BY <3>1, Constants, TallyIs
    <3>3. drops[o] \in Nat
      BY DEF IInv, Inv, TypePart
    <3> HIDE DEF n1, n2, n3, n4, n5, n6
    <3> QED
      BY <2>2, <2>3, <2>4, <2>5, <2>6, <2>7, <3>2, <3>3, CountsAre
  <2>9. obj[o].ref_count = Tally(EntryOf(entry), o) + Tally(ShadowOf(obj), o)
            + (Tally(FirstOf(fault), o) + Tally(PushOf(fault), o)) + drops[o]
            + (IF o = File THEN 1 ELSE 0)
    BY DEF IInv, Inv, LinkPart, Users, FaultRefs
  <2>10. obj[o].paging_in_progress = (Tally(ObjectOf(fault), o) + Tally(LeftOf(fault), o)
            + Tally(PushOf(fault), o)) + (IF daemon.object = o THEN 1 ELSE 0)
    BY DEF IInv, Inv, PagingPart, Pagers, FaultUses
  <2> HIDE DEF n1, n2, n3, n4, n5, n6
  <2>11. obj[o].ref_count = n1 + n2 + n3 + n4 + drops[o] + (IF o = File THEN 1 ELSE 0)
    BY <2>2, <2>3, <2>4, <2>5, <2>8, <2>9
  <2>12. obj[o].paging_in_progress = n5 + n6 + n4 + (IF daemon.object = o THEN 1 ELSE 0)
    BY <2>5, <2>6, <2>7, <2>8, <2>10
  <2> QED
    BY <2>11, <2>12 DEF n1, n2, n3, n4, n5, n6
<1> QED
  BY <1>1, AlwaysIInv, PTL

\* Whoever waits for a page waits for a busy one, and a busy page is always in
\* the hands of a fault, the daemon or a pager: no fault sleeps on a page that
\* nobody will give back.
THEOREM PagesOwned == Spec => []BusyOwned
<1>1. IInv => BusyOwned
  <2> SUFFICES ASSUME IInv PROVE BusyOwned
    OBVIOUS
  <2>1. ASSUME NEW t \in Map, fault[t].pc = "wait"
        PROVE  /\ obj[fault[t].object].page[fault[t].page] # None
               /\ obj[fault[t].object].page[fault[t].page].busy
    <3>1. fault[t].object \in Object /\ fault[t].page \in Page
      BY <2>1, UnderWay DEF IInv
    <3>2. Waits(fault[t], fault[t].object, fault[t].page)
      BY <2>1 DEF Waits
    <3> QED
      BY <3>1, <3>2 DEF IInv, Inv, PagesPart, Busy
  <2>2. ASSUME NEW o \in Object, NEW x \in Page,
               obj[o].page[x] # None, obj[o].page[x].busy, ~obj[o].page[x].absent
        PROVE  \/ daemon.object = o /\ daemon.page = x
               \/ \E t \in Map : fault[t].page = x /\
                     \/ fault[t].first = o /\ fault[t].object \notin {o, None}
                     \/ fault[t].pc = "copied" /\ fault[t].first = o
                     \/ fault[t].pc \in {"found", "pushing", "verify", "enter"}
                        /\ fault[t].object = o
                     \/ fault[t].pc = "pushing" /\ fault[t].old_copy = o
    <3>1. Held(obj[o].page[x])
      BY <2>2 DEF Held
    <3>2. Writes(daemon, o, x) \/ \E t \in Map : Owns(fault[t], o, x)
      BY <3>1 DEF IInv, Inv, PagesPart
    <3> QED
      BY <3>2 DEF Writes, Owns
  <2> QED
    BY <2>1, <2>2 DEF BusyOwned
<1> QED
  BY <1>1, AlwaysIInv, PTL

\* No assertion or panic is reached: a backing object has no busy page when it
\* is collapsed and its parent no absent one, a dying object none when it is
\* terminated and is the copy of its shadow or nobody's, and
\* vm_object_copy_delayed finds the old copy where it left it.
THEOREM AssertionsHold == Spec => []NoPanic
<1>1. IInv => NoPanic
  BY DEF IInv, Inv, LinkPart, LinksOf, NoPanic
<1> QED
  BY <1>1, AlwaysIInv, PTL

=============================================================================
