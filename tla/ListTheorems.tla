--------------------------- MODULE ListTheorems ---------------------------
(***************************************************************************)
(* Induction and recursion over the naturals, stated for sets and          *)
(* functions, and what they show of Lists.                                 *)
(***************************************************************************)
EXTENDS Lists, FiniteSetTheorems, WellFoundedInduction, TLAPS

\* Every set of naturals that is not empty has a smallest member.
LEMMA Smallest ==
    ASSUME NEW S \in SUBSET Nat, S # {}
    PROVE  \E m \in S : \A n \in S : m <= n
<1>1. PICK k \in S : TRUE
  OBVIOUS
<1> DEFINE T == {0 .. n : n \in {j \in S : j <= k}}
           W == FiniteSubsetsOf(Nat)
<1>2. T \subseteq W
  <2> SUFFICES ASSUME NEW n \in S PROVE 0 .. n \in W
    OBVIOUS
  <2>1. IsFiniteSet(0 .. n)
    BY FS_Interval
  <2> QED
    BY <2>1 DEF FiniteSubsetsOf
<1>3. T # {}
  BY <1>1
<1>4. PICK x \in T : \A y \in T : ~(<<y, x>> \in StrictSubsetOrdering(Nat))
  <2> HIDE DEF T, W
  <2>1. IsWellFoundedOn(StrictSubsetOrdering(Nat), W)
    BY FS_StrictSubsetOrderingWellFounded DEF W
  <2> QED
    BY <2>1, <1>2, <1>3, WFMin
<1>5. PICK m \in S : m <= k /\ x = 0 .. m
  BY <1>4
<1>6. ASSUME NEW n \in S, n < m PROVE FALSE
  <2>1. 0 .. n \in T
    BY <1>1, <1>5, <1>6, SMT
  <2>2. 0 .. n \subseteq 0 .. m /\ m \in 0 .. m /\ m \notin 0 .. n
    BY <1>6, SMT
  <2>3. 0 .. n \in SUBSET Nat /\ 0 .. m \in SUBSET Nat
    BY SMT
  <2>4. <<0 .. n, 0 .. m>> \in StrictSubsetOrdering(Nat)
    BY <2>2, <2>3, Zenon DEF StrictSubsetOrdering
  <2> QED
    BY <2>1, <2>4, <1>4, <1>5
<1> QED
  BY <1>6, SMT

\* A set with 0 that has the successors of its members has every natural.
LEMMA Induction ==
    ASSUME NEW S, 0 \in S, \A n \in Nat : n \in S => n + 1 \in S
    PROVE  Nat \subseteq S
<1> SUFFICES ASSUME Nat \ S # {} PROVE FALSE
  OBVIOUS
<1>1. PICK m \in Nat \ S : \A n \in Nat \ S : m <= n
  BY Smallest
<1>2. m # 0 /\ m - 1 \in Nat /\ m - 1 \in S
  BY <1>1, SMT
<1> QED
  BY <1>2

\* The results of applying the N steps of G to d, one after the other.
Iterates(N, D, d, G) ==
    {f \in [0 .. N -> D] : f[0] = d /\ \A i \in 1 .. N : f[i] = G[<<i, f[i - 1]>>]}

\* They exist: a function defined by recursion on 0 .. N has its values.
LEMMA Recursion ==
    ASSUME NEW N \in Nat, NEW D, NEW d \in D, NEW G \in [(1 .. N) \X D -> D]
    PROVE  Iterates(N, D, d, G) # {}
<1> DEFINE Upto(n) == {f \in [0 .. n -> D] : f[0] = d /\ \A i \in 1 .. n : f[i] = G[<<i, f[i - 1]>>]}
           S == {n \in Nat : n <= N => Upto(n) # {}}
<1>1. 0 \in S
  <2> DEFINE f == [i \in 0 .. 0 |-> d]
  <2>1. f \in [0 .. 0 -> D] /\ f[0] = d /\ \A i \in 1 .. 0 : f[i] = G[<<i, f[i - 1]>>]
    BY SMT
  <2>2. f \in Upto(0)
    BY <2>1
  <2> QED
    BY <2>2
<1>2. ASSUME NEW n \in Nat, n \in S, n + 1 <= N PROVE Upto(n + 1) # {}
  <2>1. PICK f : f \in Upto(n)
    BY <1>2, SMT
  <2>2. f \in [0 .. n -> D] /\ f[0] = d /\ \A i \in 1 .. n : f[i] = G[<<i, f[i - 1]>>]
    BY <2>1
  <2> DEFINE e == G[<<n + 1, f[n]>>]
             g == [i \in 0 .. n + 1 |-> IF i <= n THEN f[i] ELSE e]
  <2>3. e \in D
    <3>1. <<n + 1, f[n]>> \in (1 .. N) \X D
      BY <2>2, <1>2, SMT
    <3> QED
      BY <3>1
  <2> HIDE DEF e
  <2>4. g \in [0 .. n + 1 -> D]
    BY <2>2, <2>3, SMT
  <2>5. g[0] = d
    BY <2>2, SMT
  <2>6. ASSUME NEW i \in 1 .. n + 1 PROVE g[i] = G[<<i, g[i - 1]>>]
    <3>1. CASE i <= n
      BY <3>1, <2>2, SMT
    <3>2. CASE i = n + 1
      <4>1. g[n + 1] = e /\ g[n] = f[n] /\ i - 1 = n
        BY <3>2, SMT
      <4> HIDE DEF g
      <4> QED
        BY <3>2, <4>1 DEF e
    <3> QED
      BY <3>1, <3>2, SMT
  <2>7. g \in Upto(n + 1)
    <3> HIDE DEF g
    <3> QED
      BY <2>4, <2>5, <2>6
  <2> QED
    BY <2>7
<1>3. Nat \subseteq S
  <2>1. ASSUME NEW n \in Nat, n \in S PROVE n + 1 \in S
    <3> HIDE DEF Upto
    <3> QED
      BY <2>1, <1>2, SMT
  <2> HIDE DEF S
  <2> QED
    BY <1>1, <2>1, Induction
<1>4. Upto(N) # {}
  <2> HIDE DEF Upto
  <2> QED
    BY <1>3, SMT
<1> QED
  BY <1>4 DEF Iterates

\* The list of the members of list that are in S, up to each place.
Sublists(list, S, X) ==
    {f \in [0 .. Len(list) -> Seq(X)] :
        /\ Sublist(list, S) = f[Len(list)]
        /\ f[0] = <<>>
        /\ \A i \in 1 .. Len(list) :
              f[i] = IF list[i] \in S THEN Append(f[i - 1], list[i]) ELSE f[i - 1]}
\* Sublist is the last of the sublists of the list's beginnings.
LEMMA SublistIs ==
    ASSUME NEW X, NEW list \in Seq(X), NEW S
    PROVE  Sublists(list, S, X) # {}
<1> DEFINE N == Len(list)
           D == Seq(X)
           G == [z \in (1 .. N) \X D |->
                   IF list[z[1]] \in S THEN Append(z[2], list[z[1]]) ELSE z[2]]
           d == <<>>
           Step(f, i) == IF list[i] \in S THEN Append(f[i - 1], list[i]) ELSE f[i - 1]
           Body(f, i) == IF i = 0 THEN <<>> ELSE Step(f, i)
           IsUpto(f) == f = [i \in 0 .. N |-> Body(f, i)]
<1>1. N \in Nat /\ <<>> \in D /\ \A i \in 1 .. N : list[i] \in X
  OBVIOUS
<1>2. G \in [(1 .. N) \X D -> D]
  <2>1. ASSUME NEW i \in 1 .. N, NEW u \in D
        PROVE  (IF list[i] \in S THEN Append(u, list[i]) ELSE u) \in D
    BY <1>1
  <2> QED
    BY <2>1
<1>3. PICK f \in [0 .. N -> D] : f[0] = d /\ \A i \in 1 .. N : f[i] = G[<<i, f[i - 1]>>]
  <2>1. N \in Nat /\ d \in D
    BY <1>1
  <2> HIDE DEF D, N, G, IsUpto, d
  <2>2. PICK f : f \in Iterates(N, D, d, G)
    BY <2>1, <1>2, Recursion
  <2> QED
    BY <2>2 DEF Iterates
<1>4. ASSUME NEW i \in 1 .. N
      PROVE  f[i] = Step(f, i)
  <2>1. <<i, f[i - 1]>> \in (1 .. N) \X D
    <3> HIDE DEF D
    <3>1. i - 1 \in 0 .. N
      BY <1>1
    <3>2. f[i - 1] \in D
      BY <3>1, <1>3, Zenon
    <3> QED
      BY <3>2
  <2>2. G[<<i, f[i - 1]>>] = Step(f, i)
    BY <2>1
  <2> QED
    BY <1>3, <2>2
<1>5. IsUpto(f)
  <2>1. ASSUME NEW i \in 0 .. N PROVE f[i] = Body(f, i)
    <3>1. CASE i = 0
      BY <3>1, <1>3
    <3>2. CASE i # 0
      <4>1. i \in 1 .. N
        BY <3>2, <1>1, SMT
      <4> HIDE DEF Step
      <4> QED
        BY <3>2, <4>1, <1>4
    <3> QED
      BY <3>1, <3>2
  <2> HIDE DEF Body
  <2> QED
    BY <1>3, <2>1
<1> DEFINE h == CHOOSE g : IsUpto(g)
<1>6. IsUpto(h)
  BY <1>5
<1>7. Sublist(list, S) = h[N]
  BY DEF Sublist
<1>8. h[0] = <<>> /\ \A i \in 1 .. N : h[i] = Step(h, i)
  <2> HIDE DEF h
  <2>1. \A i \in 0 .. N : h[i] = Body(h, i)
    <3> HIDE DEF Body
    <3> QED
      BY <1>6
  <2>2. h[0] = <<>>
    BY <2>1, <1>1
  <2>3. ASSUME NEW i \in 1 .. N PROVE h[i] = Step(h, i)
    <3>1. i \in 0 .. N /\ i # 0
      BY <1>1, SMT
    <3> HIDE DEF Step
    <3> QED
      BY <2>1, <3>1
  <2> HIDE DEF Step
  <2> QED
    BY <2>2, <2>3
<1> HIDE DEF h
<1>9. h \in [0 .. N -> D]
  <2>1. DOMAIN h = 0 .. N
    BY <1>6
  <2> DEFINE T == {i \in Nat : i <= N => h[i] \in D}
  <2>2. 0 \in T
    BY <1>1, <1>8
  <2>3. ASSUME NEW i \in Nat, i \in T, i + 1 <= N PROVE h[i + 1] \in D
    <3>1. i + 1 \in 1 .. N /\ (i + 1) - 1 = i /\ h[i] \in D
      BY <2>3, <1>1, SMT
    <3>2. h[i + 1] = IF list[i + 1] \in S THEN Append(h[i], list[i + 1]) ELSE h[i]
      BY <1>8, <3>1
    <3> QED
      BY <1>1, <3>1, <3>2
  <2>4. ASSUME NEW i \in Nat, i \in T PROVE i + 1 \in T
    <3> HIDE DEF D
    <3> QED
      BY <2>3, <2>4
  <2>5. Nat \subseteq T
    <3> HIDE DEF T
    <3> QED
      BY <2>2, <2>4, Induction
  <2>6. \A i \in 0 .. N : h[i] \in D
    <3> HIDE DEF D
    <3> QED
      BY <2>5, <1>1, SMT
  <2> QED
    BY <2>1, <2>6, <1>6
<1>10. h \in Sublists(list, S, X)
  BY <1>7, <1>8, <1>9 DEF Sublists
<1> QED
  BY <1>10

\* x is in list; and nothing is in it twice.
Listed(list, x) == \E i \in 1 .. Len(list) : list[i] = x
Once(list) == \A i, j \in 1 .. Len(list) : list[i] = list[j] => i = j

\* Sublist returns members of the list that are in S, and all of them.
LEMMA SublistMembers ==
    ASSUME NEW X, NEW list \in Seq(X), NEW S
    PROVE  /\ Sublist(list, S) \in Seq(X)
           /\ \A x : Listed(Sublist(list, S), x) <=> x \in S /\ Listed(list, x)
<1> DEFINE N == Len(list)
<1>1. PICK f \in [0 .. N -> Seq(X)] :
              /\ Sublist(list, S) = f[N]
              /\ f[0] = <<>>
              /\ \A i \in 1 .. N :
                    f[i] = IF list[i] \in S THEN Append(f[i - 1], list[i]) ELSE f[i - 1]
  <2>1. PICK f : f \in Sublists(list, S, X)
    BY SublistIs
  <2> QED
    BY <2>1 DEF Sublists
<1>2. N \in Nat /\ \A i \in 1 .. N : list[i] \in X
  OBVIOUS
<1> DEFINE In(s, n, x) == \E i \in 1 .. n : s[i] = x
           T == {n \in Nat : n <= N =>
                    \A x \in X : In(f[n], Len(f[n]), x) <=> x \in S /\ In(list, n, x)}
<1>3. 0 \in T
  BY <1>1
<1>4. ASSUME NEW n \in Nat, n \in T, n + 1 <= N PROVE n + 1 \in T
  <2>1. n + 1 \in 1 .. N /\ (n + 1) - 1 = n /\ n \in 0 .. N /\ n + 1 \in 0 .. N
    BY <1>4, <1>2, SMT
  <2>2. f[n] \in Seq(X) /\ Len(f[n]) \in Nat /\ list[n + 1] \in X
    BY <2>1, <1>2
  <2>3. f[n + 1] = IF list[n + 1] \in S THEN Append(f[n], list[n + 1]) ELSE f[n]
    BY <1>1, <2>1
  <2> SUFFICES ASSUME NEW x \in X
               PROVE  In(f[n + 1], Len(f[n + 1]), x) <=> x \in S /\ In(list, n + 1, x)
    OBVIOUS
  <2>4. In(f[n], Len(f[n]), x) <=> x \in S /\ In(list, n, x)
    BY <1>4, SMT
  <2>5. In(list, n + 1, x) <=> In(list, n, x) \/ list[n + 1] = x
    BY SMT
  <2>6. CASE list[n + 1] \in S
    <3>1. In(f[n + 1], Len(f[n + 1]), x) <=> In(f[n], Len(f[n]), x) \/ list[n + 1] = x
      <4> DEFINE s == f[n]
                 e == list[n + 1]
      <4>1. s \in Seq(X) /\ e \in X /\ f[n + 1] = Append(s, e)
        BY <2>2, <2>3, <2>6
      <4> HIDE DEF s, e
      <4>2. /\ Len(Append(s, e)) = Len(s) + 1 /\ Len(s) \in Nat
            /\ \A i \in 1 .. Len(s) : Append(s, e)[i] = s[i]
            /\ Append(s, e)[Len(s) + 1] = e
        BY <4>1
      <4>3. In(Append(s, e), Len(Append(s, e)), x) <=> In(s, Len(s), x) \/ e = x
        BY <4>2, SMT
      <4> QED
        BY <4>1, <4>3 DEF s, e
    <3> HIDE DEF In
    <3> QED
      BY <2>4, <2>5, <2>6, <3>1
  <2>7. CASE list[n + 1] \notin S
    <3> HIDE DEF In
    <3> QED
      BY <2>3, <2>4, <2>5, <2>7
  <2> QED
    BY <2>6, <2>7
<1>5. Nat \subseteq T
  <2>1. ASSUME NEW n \in Nat, n \in T PROVE n + 1 \in T
    <3>1. CASE n + 1 <= N
      <4> HIDE DEF T
      <4> QED
        BY <1>4, <2>1, <3>1
    <3>2. CASE ~(n + 1 <= N)
      BY <3>2
    <3> QED
      BY <3>1, <3>2
  <2> HIDE DEF T
  <2> QED
    BY <1>3, <2>1, Induction
<1>6. \A x \in X : In(f[N], Len(f[N]), x) <=> x \in S /\ In(list, N, x)
  <2> HIDE DEF In
  <2> QED
    BY <1>5, <1>2
<1>7. f[N] \in Seq(X)
  BY <1>1, <1>2
<1>8. \A x : In(f[N], Len(f[N]), x) => x \in X
  BY <1>7
<1>9. \A x : In(list, N, x) => x \in X
  BY <1>2
<1>10. /\ \A x : Listed(f[N], x) <=> In(f[N], Len(f[N]), x)
       /\ \A x : Listed(list, x) <=> In(list, N, x)
  BY DEF Listed
<1>11. \A x : Listed(f[N], x) <=> x \in S /\ Listed(list, x)
  <2> HIDE DEF In
  <2> QED
    BY <1>6, <1>8, <1>9, <1>10
<1> QED
  BY <1>1, <1>7, <1>11


-----------------------------------------------------------------------------
\* Nothing is in the empty list, and a list nothing is in is empty.
LEMMA NotListed ==
    ASSUME NEW X, NEW list \in Seq(X)
    PROVE  /\ list = <<>> <=> \A x \in X : ~Listed(list, x)
           /\ \A x : Listed(list, x) => x \in X
<1>1. \A x : ~(\E i \in 1 .. Len(<<>>) : <<>>[i] = x)
  OBVIOUS
<1>2. ASSUME list # <<>> PROVE \E x \in X : Listed(list, x)
  <2>1. Len(list) \in Nat /\ Len(list) >= 1 /\ list[1] \in X
    BY <1>2
  <2> QED
    BY <2>1, SMT DEF Listed
<1>3. \A x : Listed(list, x) => x \in X
  BY DEF Listed
<1> QED
  BY <1>1, <1>2, <1>3 DEF Listed

\* One more at the end.
LEMMA ListedAppend ==
    ASSUME NEW X, NEW list \in Seq(X), NEW x \in X
    PROVE  /\ Append(list, x) \in Seq(X)
           /\ \A y : Listed(Append(list, x), y) <=> Listed(list, y) \/ y = x
           /\ Once(list) /\ ~Listed(list, x) => Once(Append(list, x))
<1> DEFINE l == Append(list, x)
           n == Len(list)
<1>1. /\ l \in Seq(X) /\ n \in Nat /\ Len(l) = n + 1
      /\ \A i \in 1 .. n : l[i] = list[i]
      /\ l[n + 1] = x
  OBVIOUS
<1> HIDE DEF l, n
<1>2. \A y : (\E i \in 1 .. Len(l) : l[i] = y) <=> (\E i \in 1 .. n : list[i] = y) \/ y = x
  BY <1>1, SMT
<1>3. ASSUME \A i, j \in 1 .. n : list[i] = list[j] => i = j, \A i \in 1 .. n : list[i] # x
      PROVE  \A i, j \in 1 .. Len(l) : l[i] = l[j] => i = j
  BY <1>1, <1>3, SMT
<1> QED
  BY <1>1, <1>2, <1>3 DEF Listed, Once, l, n

\* The rest of a list, from a place on.
LEMMA ListedRest ==
    ASSUME NEW X, NEW list \in Seq(X), NEW i \in 1 .. Len(list) + 1
    PROVE  /\ SubSeq(list, i, Len(list)) \in Seq(X)
           /\ \A y : Listed(SubSeq(list, i, Len(list)), y) <=>
                        \E j \in i .. Len(list) : list[j] = y
           /\ Once(list) => Once(SubSeq(list, i, Len(list)))
<1> DEFINE l == SubSeq(list, i, Len(list))
           n == Len(list)
<1>1. n \in Nat /\ i \in Nat /\ i >= 1 /\ i <= n + 1
  BY SMT
<1>2. l \in Seq(X) /\ Len(l) = n - i + 1 /\ \A k \in 1 .. n - i + 1 : l[k] = list[i + k - 1]
  BY <1>1, SMT
<1> HIDE DEF l, n
<1>3. ASSUME NEW y PROVE (\E k \in 1 .. Len(l) : l[k] = y) <=> \E j \in i .. n : list[j] = y
  <2>1. ASSUME NEW j \in i .. n, list[j] = y PROVE \E k \in 1 .. Len(l) : l[k] = y
    <3>1. j - i + 1 \in 1 .. n - i + 1 /\ i + (j - i + 1) - 1 = j
      BY <1>1, SMT
    <3> QED
      BY <1>2, <2>1, <3>1
  <2>2. ASSUME NEW k \in 1 .. Len(l), l[k] = y PROVE \E j \in i .. n : list[j] = y
    <3>1. i + k - 1 \in i .. n
      BY <1>1, <1>2, SMT
    <3> QED
      BY <1>2, <2>2, <3>1
  <2> QED
    BY <2>1, <2>2
<1>4. ASSUME \A j, k \in 1 .. n : list[j] = list[k] => j = k
      PROVE  \A j, k \in 1 .. Len(l) : l[j] = l[k] => j = k
  <2> SUFFICES ASSUME NEW j \in 1 .. Len(l), NEW k \in 1 .. Len(l), l[j] = l[k] PROVE j = k
    OBVIOUS
  <2>1. /\ i + j - 1 \in 1 .. n /\ i + k - 1 \in 1 .. n
        /\ i + j - 1 = i + k - 1 => j = k
    BY <1>1, <1>2, SMT
  <2> QED
    BY <1>2, <1>4, <2>1
<1> QED
  BY <1>2, <1>3, <1>4 DEF Listed, Once, l, n

\* All but the first.
LEMMA ListedTail ==
    ASSUME NEW X, NEW list \in Seq(X), list # <<>>
    PROVE  /\ Tail(list) \in Seq(X) /\ Head(list) \in X /\ Listed(list, Head(list))
           /\ \A y : Listed(Tail(list), y) => Listed(list, y)
           /\ Once(list) => /\ Once(Tail(list))
                            /\ \A y : Listed(Tail(list), y) <=> Listed(list, y) /\ y # Head(list)
<1> DEFINE l == Tail(list)
           n == Len(list)
<1>1. /\ n \in Nat /\ n >= 1 /\ l \in Seq(X) /\ Len(l) = n - 1
      /\ \A i \in 1 .. n - 1 : l[i] = list[i + 1]
      /\ Head(list) = list[1] /\ list[1] \in X
  <2>1. Len(list) \in Nat /\ Len(list) # 0
    OBVIOUS
  <2>2. Len(list) >= 1
    BY <2>1, SMT
  <2> QED
    BY <2>1, <2>2
<1> HIDE DEF l, n
<1>2. \E i \in 1 .. n : list[i] = Head(list)
  BY <1>1, SMT
<1>3. ASSUME NEW y, \E i \in 1 .. Len(l) : l[i] = y PROVE \E i \in 1 .. n : list[i] = y
  <2>1. PICK i \in 1 .. Len(l) : l[i] = y
    BY <1>3
  <2>2. i + 1 \in 1 .. n /\ i \in 1 .. n - 1
    BY <1>1, SMT
  <2> QED
    BY <1>1, <2>1, <2>2
<1>4. ASSUME \A i, j \in 1 .. n : list[i] = list[j] => i = j
      PROVE  \A i, j \in 1 .. Len(l) : l[i] = l[j] => i = j
  <2> SUFFICES ASSUME NEW i \in 1 .. Len(l), NEW j \in 1 .. Len(l), l[i] = l[j] PROVE i = j
    OBVIOUS
  <2>1. /\ i + 1 \in 1 .. n /\ j + 1 \in 1 .. n /\ (i + 1 = j + 1 => i = j)
        /\ i \in 1 .. n - 1 /\ j \in 1 .. n - 1
    BY <1>1, SMT
  <2> QED
    BY <1>1, <1>4, <2>1
<1>5. ASSUME \A i, j \in 1 .. n : list[i] = list[j] => i = j, NEW y
      PROVE  (\E i \in 1 .. Len(l) : l[i] = y) <=>
                 (\E i \in 1 .. n : list[i] = y) /\ y # Head(list)
  <2>1. ASSUME NEW i \in 1 .. n, list[i] = y, y # Head(list)
        PROVE  \E k \in 1 .. Len(l) : l[k] = y
    <3>1. i # 1
      BY <1>1, <2>1
    <3>2. i - 1 \in 1 .. n - 1 /\ (i - 1) + 1 = i
      BY <1>1, <3>1, SMT
    <3> QED
      BY <1>1, <2>1, <3>2
  <2>2. ASSUME NEW i \in 1 .. Len(l), l[i] = y PROVE y # Head(list)
    <3>1. i + 1 \in 1 .. n /\ 1 \in 1 .. n /\ i + 1 # 1 /\ i \in 1 .. n - 1
      BY <1>1, SMT
    <3> QED
      BY <1>1, <1>5, <2>2, <3>1
  <2> QED
    BY <1>3, <2>1, <2>2
<1> QED
  BY <1>1, <1>2, <1>3, <1>4, <1>5 DEF Listed, Once, l, n

\* A sublist of a list without repetition has none.
LEMMA SublistOnce ==
    ASSUME NEW X, NEW list \in Seq(X), NEW S, Once(list)
    PROVE  Once(Sublist(list, S))
<1> DEFINE N == Len(list)
<1>1. PICK f \in [0 .. N -> Seq(X)] :
              /\ Sublist(list, S) = f[N]
              /\ f[0] = <<>>
              /\ \A i \in 1 .. N :
                    f[i] = IF list[i] \in S THEN Append(f[i - 1], list[i]) ELSE f[i - 1]
  <2>1. PICK f : f \in Sublists(list, S, X)
    BY SublistIs
  <2> QED
    BY <2>1 DEF Sublists
<1>2. N \in Nat /\ \A i \in 1 .. N : list[i] \in X
  OBVIOUS
<1> DEFINE Good(n) == Once(f[n]) /\ \A x : Listed(f[n], x) => \E i \in 1 .. n : list[i] = x
           T == {n \in Nat : n <= N => Good(n)}
<1>3. Good(0)
  <2>1. Once(<<>>) /\ \A x : ~Listed(<<>>, x)
    BY DEF Once, Listed
  <2> QED
    BY <1>1, <2>1
<1>4. ASSUME NEW n \in Nat, Good(n), n + 1 <= N PROVE Good(n + 1)
  <2>1. n + 1 \in 1 .. N /\ (n + 1) - 1 = n /\ n \in 0 .. N /\ n + 1 \in 0 .. N
    BY <1>4, <1>2, SMT
  <2>2. f[n] \in Seq(X) /\ list[n + 1] \in X
    BY <2>1, <1>2
  <2>3. f[n + 1] = IF list[n + 1] \in S THEN Append(f[n], list[n + 1]) ELSE f[n]
    BY <1>1, <2>1
  <2>4. ASSUME NEW i \in 1 .. n PROVE i \in 1 .. N /\ i \in 1 .. n + 1 /\ list[i] # list[n + 1]
    <3>1. i \in 1 .. N /\ i # n + 1 /\ i \in 1 .. n + 1
      BY <1>4, <1>2, SMT
    <3> QED
      BY <2>1, <3>1 DEF Once
  <2>5. ~Listed(f[n], list[n + 1])
    BY <1>4, <2>4
  <2>6. Once(f[n + 1]) /\ \A x : Listed(f[n + 1], x) => Listed(f[n], x) \/ x = list[n + 1]
    <3> HIDE DEF Good
    <3>1. CASE list[n + 1] \in S
      <4>1. f[n + 1] = Append(f[n], list[n + 1])
        BY <2>3, <3>1
      <4>2. Once(f[n])
        BY <1>4 DEF Good
      <4> QED
        BY <4>1, <4>2, <2>2, <2>5, ListedAppend
    <3>2. CASE list[n + 1] \notin S
      BY <2>3, <3>2, <1>4 DEF Good
    <3> QED
      BY <3>1, <3>2
  <2>7. ASSUME NEW x, Listed(f[n + 1], x) PROVE \E i \in 1 .. n + 1 : list[i] = x
    <3>1. CASE x = list[n + 1]
      <4>1. n + 1 \in 1 .. n + 1
        BY SMT
      <4> QED
        BY <3>1, <4>1
    <3>2. CASE Listed(f[n], x)
      BY <1>4, <2>4, <3>2
    <3> QED
      BY <2>6, <2>7, <3>1, <3>2
  <2> QED
    BY <2>6, <2>7
<1>5. Nat \subseteq T
  <2> HIDE DEF Good
  <2>1. 0 \in T
    BY <1>3
  <2>2. ASSUME NEW n \in Nat, n \in T PROVE n + 1 \in T
    <3>1. CASE n + 1 <= N
      BY <1>4, <2>2, <3>1, <1>2, SMT
    <3>2. CASE ~(n + 1 <= N)
      BY <3>2
    <3> QED
      BY <3>1, <3>2
  <2> HIDE DEF T
  <2> QED
    BY <2>1, <2>2, Induction
<1> QED
  <2> HIDE DEF Good
  <2>1. Good(N)
    BY <1>5, <1>2, SMT
  <2> QED
    BY <2>1, <1>1 DEF Good

\* A set of lists that has the empty list and, with a list, what is made by
\* appending to it, has all lists.
LEMMA ListInduction ==
    ASSUME NEW X, NEW P, <<>> \in P,
           \A l \in Seq(X), x \in X : l \in P => Append(l, x) \in P
    PROVE  Seq(X) \subseteq P
<1> DEFINE T == {n \in Nat : \A l \in Seq(X) : Len(l) = n => l \in P}
<1>1. 0 \in T
  <2>1. \A l \in Seq(X) : Len(l) = 0 => l = <<>>
    OBVIOUS
  <2> QED
    BY <2>1
<1>2. ASSUME NEW n \in Nat, n \in T PROVE n + 1 \in T
  <2>1. ASSUME NEW l \in Seq(X), Len(l) = n + 1 PROVE l \in P
    <3> DEFINE k == SubSeq(l, 1, n)
               x == l[n + 1]
    <3>1. k \in Seq(X) /\ Len(k) = n /\ x \in X
      BY <2>1, SMT
    <3>2. l = Append(k, x)
      BY <2>1, SMT
    <3> HIDE DEF k, x
    <3>3. k \in P
      BY <1>2, <3>1
    <3> QED
      BY <3>1, <3>2, <3>3
  <2> QED
    BY <2>1
<1>3. Nat \subseteq T
  <2> HIDE DEF T
  <2> QED
    BY <1>1, <1>2, Induction
<1>4. ASSUME NEW l \in Seq(X) PROVE l \in P
  <2>1. Len(l) \in Nat
    OBVIOUS
  <2> QED
    BY <1>3, <2>1
<1> QED
  BY <1>4

\* Sublist of the empty list, and of a list appended to.
LEMMA SublistEmpty == ASSUME NEW S PROVE Sublist(<<>>, S) = <<>>
<1>1. <<>> \in Seq({}) /\ Len(<<>>) = 0
  OBVIOUS
<1>2. PICK f : f \in Sublists(<<>>, S, {})
  BY <1>1, SublistIs
<1> QED
  BY <1>1, <1>2 DEF Sublists

LEMMA SublistAppend ==
    ASSUME NEW X, NEW l \in Seq(X), NEW x \in X, NEW S
    PROVE  Sublist(Append(l, x), S) =
              IF x \in S THEN Append(Sublist(l, S), x) ELSE Sublist(l, S)
<1> DEFINE k == Append(l, x)
           N == Len(l)
<1>1. k \in Seq(X) /\ Len(k) = N + 1 /\ N \in Nat /\ k[N + 1] = x /\ \A i \in 1 .. N : k[i] = l[i]
  OBVIOUS
<1> HIDE DEF k, N
<1>2. PICK f : f \in Sublists(l, S, X)
  BY SublistIs
<1>3. PICK g : g \in Sublists(k, S, X)
  BY <1>1, SublistIs
<1>4. /\ Sublist(l, S) = f[N] /\ f[0] = <<>>
      /\ \A i \in 1 .. N : f[i] = IF l[i] \in S THEN Append(f[i - 1], l[i]) ELSE f[i - 1]
  BY <1>2 DEF Sublists, N
<1>5. /\ Sublist(k, S) = g[N + 1] /\ g[0] = <<>>
      /\ \A i \in 1 .. N + 1 : g[i] = IF k[i] \in S THEN Append(g[i - 1], k[i]) ELSE g[i - 1]
  BY <1>1, <1>3 DEF Sublists
<1> DEFINE T == {n \in Nat : n <= N => f[n] = g[n]}
<1>6. 0 \in T
  BY <1>4, <1>5
<1>7. ASSUME NEW n \in Nat, n \in T, n + 1 <= N PROVE f[n + 1] = g[n + 1]
  <2>1. n + 1 \in 1 .. N /\ n + 1 \in 1 .. N + 1 /\ (n + 1) - 1 = n /\ f[n] = g[n]
    BY <1>7, <1>1, SMT
  <2>2. f[n + 1] = IF l[n + 1] \in S THEN Append(f[n], l[n + 1]) ELSE f[n]
    BY <2>1, <1>4
  <2>3. g[n + 1] = IF k[n + 1] \in S THEN Append(g[n], k[n + 1]) ELSE g[n]
    BY <2>1, <1>5
  <2>4. k[n + 1] = l[n + 1]
    BY <2>1, <1>1
  <2> QED
    BY <2>1, <2>2, <2>3, <2>4
<1>8. Nat \subseteq T
  <2>1. ASSUME NEW n \in Nat, n \in T PROVE n + 1 \in T
    BY <1>7, <2>1
  <2> HIDE DEF T
  <2> QED
    BY <1>6, <2>1, Induction
<1>9. f[N] = g[N]
  BY <1>8, <1>1
<1>10. N + 1 \in 1 .. N + 1 /\ (N + 1) - 1 = N
  BY <1>1, SMT
<1>11. g[N + 1] = IF x \in S THEN Append(g[N], x) ELSE g[N]
  BY <1>5, <1>10, <1>1
<1> QED
  BY <1>4, <1>5, <1>9, <1>11 DEF k

\* A sublist of a sublist.
LEMMA SublistTwice ==
    ASSUME NEW X, NEW l \in Seq(X), NEW S, NEW T
    PROVE  Sublist(Sublist(l, S), T) = Sublist(l, S \cap T)
<1> DEFINE P == {k \in Seq(X) : Sublist(Sublist(k, S), T) = Sublist(k, S \cap T)}
<1>1. <<>> \in P
  <2>1. <<>> \in Seq(X)
    OBVIOUS
  <2> QED
    BY <2>1, SublistEmpty
<1>2. ASSUME NEW k \in Seq(X), NEW x \in X, k \in P PROVE Append(k, x) \in P
  <2>1. Append(k, x) \in Seq(X) /\ Sublist(k, S) \in Seq(X)
    BY SublistMembers
  <2>2. Sublist(Sublist(k, S), T) = Sublist(k, S \cap T)
    BY <1>2
  <2>3. /\ Sublist(Append(k, x), S) = IF x \in S THEN Append(Sublist(k, S), x) ELSE Sublist(k, S)
        /\ Sublist(Append(k, x), S \cap T) =
              IF x \in S \cap T THEN Append(Sublist(k, S \cap T), x) ELSE Sublist(k, S \cap T)
    BY SublistAppend
  <2>4. Sublist(Append(Sublist(k, S), x), T) =
           IF x \in T THEN Append(Sublist(Sublist(k, S), T), x) ELSE Sublist(Sublist(k, S), T)
    BY <2>1, SublistAppend
  <2>5. Sublist(Sublist(Append(k, x), S), T) = Sublist(Append(k, x), S \cap T)
    <3>0. x \in S \cap T <=> x \in S /\ x \in T
      OBVIOUS
    <3>1. CASE x \in S
      <4> DEFINE b == Sublist(k, S)
                 c == Sublist(k, S \cap T)
      <4>1. Sublist(Append(k, x), S) = Append(b, x)
        BY <3>1, <2>3
      <4>2. Sublist(Append(b, x), T) = IF x \in T THEN Append(c, x) ELSE c
        BY <2>2, <2>4
      <4>3. Sublist(Append(k, x), S \cap T) = IF x \in T THEN Append(c, x) ELSE c
        BY <3>0, <3>1, <2>3
      <4> HIDE DEF b, c
      <4> QED
        BY <4>1, <4>2, <4>3
    <3>2. CASE x \notin S
      BY <3>0, <3>2, <2>2, <2>3
    <3> QED
      BY <3>1, <3>2
  <2> QED
    BY <2>1, <2>5
<1>3. Seq(X) \subseteq P
  <2> HIDE DEF P
  <2> QED
    BY <1>1, <1>2, ListInduction
<1> QED
  BY <1>3

\* What has been appended to is not empty.
LEMMA NeverEmpty ==
    ASSUME NEW X, NEW s \in Seq(X), NEW x \in X
    PROVE  Append(s, x) # <<>>
<1>1. Len(Append(s, x)) = Len(s) + 1 /\ Len(s) \in Nat /\ Len(<<>>) = 0
  OBVIOUS
<1> QED
  BY <1>1

\* The first of a list, in the sublist.
LEMMA SublistTail ==
    ASSUME NEW X, NEW l \in Seq(X), l # <<>>, NEW S
    PROVE  /\ Head(l) \in S => /\ Sublist(l, S) # <<>> /\ Head(Sublist(l, S)) = Head(l)
                               /\ Tail(Sublist(l, S)) = Sublist(Tail(l), S)
           /\ Head(l) \notin S => Sublist(l, S) = Sublist(Tail(l), S)
<1> DEFINE Is(k) == /\ Head(k) \in S => /\ Sublist(k, S) # <<>> /\ Head(Sublist(k, S)) = Head(k)
                                        /\ Tail(Sublist(k, S)) = Sublist(Tail(k), S)
                    /\ Head(k) \notin S => Sublist(k, S) = Sublist(Tail(k), S)
           P == {k \in Seq(X) : k # <<>> => Is(k)}
<1>1. <<>> \in P
  <2>1. <<>> \in Seq(X)
    OBVIOUS
  <2> QED
    BY <2>1
<1>2. ASSUME NEW k \in Seq(X), NEW x \in X, k \in P PROVE Append(k, x) \in P
  <2> DEFINE a == Append(k, x)
             u == Sublist(k, S)
             v == Sublist(Tail(k), S)
  <2>1. a \in Seq(X) /\ u \in Seq(X)
    BY SublistMembers
  <2>2. Sublist(a, S) = IF x \in S THEN Append(u, x) ELSE u
    BY SublistAppend
  <2>3. CASE k = <<>>
    <3>1. Head(a) = x /\ Tail(a) = <<>> /\ u = <<>>
      BY <2>3, SublistEmpty
    <3>2. Head(Append(<<>>, x)) = x /\ Tail(Append(<<>>, x)) = <<>> /\ Append(<<>>, x) # <<>>
      OBVIOUS
    <3> HIDE DEF a, u
    <3>3. Is(a)
      BY <2>2, <3>1, <3>2, SublistEmpty
    <3> HIDE DEF Is
    <3> QED
      BY <3>3, <2>1 DEF a
  <2>4. CASE k # <<>>
    <3>1. Head(a) = Head(k) /\ Tail(a) = Append(Tail(k), x) /\ Tail(k) \in Seq(X)
      BY <2>4
    <3>2. Sublist(Tail(a), S) = IF x \in S THEN Append(v, x) ELSE v
      BY <3>1, SublistAppend
    <3>3. Is(k)
      BY <1>2, <2>4
    <3>4. u # <<>> => Head(Append(u, x)) = Head(u) /\ Tail(Append(u, x)) = Append(Tail(u), x)
      BY <2>1
    <3>5. Append(u, x) # <<>>
      <4> HIDE DEF u
      <4> QED
        BY <2>1, NeverEmpty
    <3> HIDE DEF a, u, v
    <3>6. /\ Head(k) \in S => u # <<>> /\ Head(u) = Head(k) /\ Tail(u) = v
          /\ Head(k) \notin S => u = v
      BY <3>3 DEF u, v
    <3> HIDE DEF Is
    <3>7. Is(a)
      <4>1. CASE x \in S
        BY <4>1, <2>2, <3>1, <3>2, <3>4, <3>5, <3>6 DEF Is
      <4>2. CASE x \notin S
        BY <4>2, <2>2, <3>1, <3>2, <3>6 DEF Is
      <4> QED
        BY <4>1, <4>2
    <3> QED
      BY <3>7, <2>1 DEF a
  <2> QED
    BY <2>3, <2>4
<1>3. Seq(X) \subseteq P
  <2> HIDE DEF P
  <2> QED
    BY <1>1, <1>2, ListInduction
<1>4. l \in P
  BY <1>3
<1> QED
  BY <1>4

\* A list with h applied to its members.
MappedList(l, h) == [i \in 1 .. Len(l) |-> h[l[i]]]

\* The sublist of the members of S, if h leaves and keeps others out of S.
LEMMA SublistMapped ==
    ASSUME NEW X, NEW l \in Seq(X), NEW S, NEW h \in [X -> X], \A x \in X : h[x] \in S <=> x \in S
    PROVE  MappedList(l, h) \in Seq(X) /\ Sublist(MappedList(l, h), S) = MappedList(Sublist(l, S), h)
<1> DEFINE P == {k \in Seq(X) : /\ MappedList(k, h) \in Seq(X)
                                /\ Sublist(MappedList(k, h), S) = MappedList(Sublist(k, S), h)}
<1>0. ASSUME NEW k \in Seq(X), NEW x \in X, MappedList(k, h) \in Seq(X)
      PROVE  MappedList(Append(k, x), h) = Append(MappedList(k, h), h[x])
  <2> DEFINE a == Append(k, x)
             n == Len(k)
             m == MappedList(k, h)
  <2>1. a \in Seq(X) /\ Len(a) = n + 1 /\ n \in Nat /\ a[n + 1] = x /\ \A i \in 1 .. n : a[i] = k[i]
    OBVIOUS
  <2>2. m = [i \in 1 .. n |-> h[k[i]]]
    BY DEF MappedList
  <2>3. Len(m) = n
    BY <1>0, <2>1, <2>2, SMT
  <2>4. MappedList(a, h) = [i \in 1 .. n + 1 |-> h[a[i]]]
    BY <2>1 DEF MappedList
  <2>5. Append(m, h[x]) = [i \in 1 .. n + 1 |-> IF i <= n THEN m[i] ELSE h[x]]
    <3> HIDE DEF m, n
    <3> QED
      BY <2>3, <2>1, <1>0, SMT DEF m
  <2>6. ASSUME NEW i \in 1 .. n + 1 PROVE h[a[i]] = IF i <= n THEN m[i] ELSE h[x]
    <3>1. CASE i <= n
      <4>1. i \in 1 .. n
        BY <3>1, <2>1, SMT
      <4>2. m[i] = h[k[i]] /\ a[i] = k[i]
        BY <4>1, <2>1, <2>2
      <4> HIDE DEF a, n, m
      <4> QED
        BY <4>2, <3>1
    <3>2. CASE ~(i <= n)
      <4>1. i = n + 1
        BY <3>2, <2>1, SMT
      <4> HIDE DEF a, n, m
      <4> QED
        BY <4>1, <3>2, <2>1
    <3> QED
      BY <3>1, <3>2
  <2> HIDE DEF a, n, m
  <2>7. [i \in 1 .. n + 1 |-> h[a[i]]] = [i \in 1 .. n + 1 |-> IF i <= n THEN m[i] ELSE h[x]]
    BY <2>6
  <2> QED
    BY <2>4, <2>5, <2>7 DEF a, m
<1>1. <<>> \in P
  <2>1. <<>> \in Seq(X) /\ MappedList(<<>>, h) = <<>>
    BY DEF MappedList
  <2> QED
    BY <2>1, SublistEmpty
<1>2. ASSUME NEW k \in Seq(X), NEW x \in X, k \in P PROVE Append(k, x) \in P
  <2> DEFINE m == MappedList(k, h)
             u == Sublist(k, S)
  <2>1. Append(k, x) \in Seq(X) /\ u \in Seq(X) /\ h[x] \in X
    BY SublistMembers
  <2>2. m \in Seq(X) /\ Sublist(m, S) = MappedList(u, h)
    BY <1>2
  <2>3. MappedList(Append(k, x), h) = Append(m, h[x])
    BY <1>0, <2>2
  <2>4. Append(m, h[x]) \in Seq(X)
    BY <2>1, <2>2
  <2>5. Sublist(Append(m, h[x]), S) = IF h[x] \in S THEN Append(Sublist(m, S), h[x]) ELSE Sublist(m, S)
    <3>1. m \in Seq(X) /\ h[x] \in X
      BY <2>1, <2>2
    <3> HIDE DEF m, u
    <3>2. \A z \in Seq(X), y \in X :
             Sublist(Append(z, y), S) = IF y \in S THEN Append(Sublist(z, S), y) ELSE Sublist(z, S)
      BY SublistAppend
    <3> QED
      BY <3>1, <3>2, Zenon
  <2>6. Sublist(Append(k, x), S) = IF x \in S THEN Append(u, x) ELSE u
    <3>1. k \in Seq(X) /\ x \in X
      OBVIOUS
    <3> HIDE DEF m
    <3> QED
      BY <3>1, SublistAppend, Zenon DEF u
  <2>7. MappedList(u, h) \in Seq(X)
    <3>1. Sublist(m, S) \in Seq(X)
      BY <2>2, SublistMembers
    <3> QED
      BY <3>1, <2>2
  <2>8. MappedList(Append(u, x), h) = Append(MappedList(u, h), h[x])
    BY <2>1, <2>7, <1>0
  <2> HIDE DEF m, u
  <2>9. Sublist(MappedList(Append(k, x), h), S) = MappedList(Sublist(Append(k, x), S), h)
    BY <2>2, <2>3, <2>5, <2>6, <2>8
  <2> QED
    BY <2>1, <2>3, <2>4, <2>9
<1>3. Seq(X) \subseteq P
  <2> HIDE DEF P
  <2> QED
    BY <1>1, <1>2, ListInduction
<1> QED
  BY <1>3

\* What is left after division, if it is known otherwise.
LEMMA ModIs ==
    ASSUME NEW M \in Nat, M > 0, NEW a \in Int, NEW q \in Int, NEW r \in 0 .. M - 1, a = M * q + r
    PROVE  a % M = r
<1> DEFINE d == a \div M
           e == a % M
<1>1. d \in Int /\ e \in 0 .. M - 1 /\ a = M * d + e
  BY SMT
<1> HIDE DEF d, e
<1>2. M * (d - q) = r - e
  BY <1>1, SMT
<1>3. ~(d - q >= 1)
  <2>1. SUFFICES ASSUME d - q >= 1 PROVE FALSE
    OBVIOUS
  <2>2. M * (d - q) >= M
    BY <1>1, <2>1, SMT
  <2> QED
    BY <2>2, <1>1, <1>2, SMT
<1>4. ~(d - q <= -1)
  <2>1. SUFFICES ASSUME d - q <= -1 PROVE FALSE
    OBVIOUS
  <2>2. M * (d - q) <= -M
    BY <1>1, <2>1, SMT
  <2> QED
    BY <2>2, <1>1, <1>2, SMT
<1>5. d - q = 0
  BY <1>1, <1>3, <1>4, SMT
<1>6. r = e
  BY <1>2, <1>5, <1>1, SMT
<1> QED
  BY <1>6 DEF e

\* And after adding to what was left.
LEMMA ModAdd ==
    ASSUME NEW M \in Nat, M > 0, NEW a \in Int, NEW k \in Int
    PROVE  ((a % M) + k) % M = (a + k) % M
<1> DEFINE d == a \div M
           e == a % M
           f == (e + k) \div M
           g == (e + k) % M
<1>1. d \in Int /\ e \in 0 .. M - 1 /\ a = M * d + e
  BY SMT
<1>2. f \in Int /\ g \in 0 .. M - 1 /\ e + k = M * f + g
  <2> HIDE DEF e
  <2>1. e + k \in Int
    BY <1>1
  <2> QED
    BY <2>1, SMT
<1> HIDE DEF d, e, f, g
<1>3. a + k = M * (d + f) + g /\ d + f \in Int /\ a + k \in Int
  BY <1>1, <1>2, SMT
<1>4. (a + k) % M = g
  BY <1>2, <1>3, ModIs
<1> QED
  BY <1>4 DEF g, e
\* What adding the modulus leaves.
LEMMA ModAgain == ASSUME NEW M \in Nat, M > 0, NEW a \in Int PROVE (a + M) % M = a % M
<1> DEFINE d == a \div M
           e == a % M
<1>1. d \in Int /\ e \in 0 .. M - 1 /\ a = M * d + e
  BY SMT
<1> HIDE DEF d, e
<1>2. a + M = M * (d + 1) + e /\ d + 1 \in Int /\ a + M \in Int
  BY <1>1, SMT
<1>3. (a + M) % M = e
  BY <1>1, <1>2, ModIs
<1> QED
  BY <1>3 DEF e


=============================================================================
