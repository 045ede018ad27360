----------------------------- MODULE ListProofs -----------------------------
(***************************************************************************)
(* Facts about Lists, for lists of any length.  A recursive function gets  *)
(* no induction principle here: what it computes is shown by a set of good *)
(* numbers that holds 0 and every successor (Reaches), which rests on the  *)
(* well-foundedness of Nat.                                                *)
(***************************************************************************)
EXTENDS Lists, FiniteSets, FiniteSetTheorems, FunctionTheorems, SequenceTheorems,
        WellFoundedInduction, TLAPS

(* A set of numbers has a least one: the only induction there is here.     *)
LEMMA Least ==
  ASSUME NEW T, T \subseteq Nat, T # {}
  PROVE  \E x \in T : \A y \in T : x <= y
<1>1. PICK x \in T : \A y \in T : ~(<<y, x>> \in OpToRel(<, Nat))
  BY WFMin, NatLessThanWellFounded
<1>2. \A y \in T : ~(y < x)
  BY <1>1 DEF OpToRel
<1> QED
  BY <1>2

(* Induction on the members of a set.                                      *)
LEMMA Reaches ==
  ASSUME NEW S, 0 \in S, \A n \in Nat : n \in S => n + 1 \in S
  PROVE  Nat \subseteq S
<1> DEFINE T == Nat \ S
<1>1. CASE T = {}
  BY <1>1
<1>2. CASE T # {}
  <2>1. PICK x \in T : \A y \in T : x <= y
    BY <1>2, Least
  <2>2. x # 0 /\ x - 1 \in Nat
    BY <2>1
  <2>3. x - 1 \in S
    BY <2>1, <2>2
  <2> QED
    BY <2>1, <2>2, <2>3
<1> QED
  BY <1>1, <1>2

(* The function that Kept is the last value of exists.                     *)
Selects(f, s, T, n) ==
  f = [i \in 0 .. n |-> IF i = 0 THEN <<>>
                        ELSE IF s[i] \in T THEN Append(f[i - 1], s[i])
                        ELSE f[i - 1]]

(* By induction on how much of the list it reads.                          *)
LEMMA SelectionExists ==
  ASSUME NEW s, NEW T, NEW n \in Nat
  PROVE  \E f : Selects(f, s, T, n)
<1> DEFINE Good == {m \in Nat : \E f : Selects(f, s, T, m)}
<1>1. 0 \in Good
  <2>1. Selects([i \in 0 .. 0 |-> <<>>], s, T, 0)
    BY DEF Selects
  <2> QED
    BY <2>1
<1>2. ASSUME NEW m \in Nat, m \in Good
      PROVE  m + 1 \in Good
  <2>1. PICK f : Selects(f, s, T, m)
    BY <1>2
  <2> DEFINE last == IF s[m + 1] \in T THEN Append(f[m], s[m + 1]) ELSE f[m]
             g == [i \in 0 .. m + 1 |-> IF i = m + 1 THEN last ELSE f[i]]
             h == [i \in 0 .. m + 1 |-> IF i = 0 THEN <<>>
                        ELSE IF s[i] \in T THEN Append(g[i - 1], s[i])
                        ELSE g[i - 1]]
  <2>2. ASSUME NEW i \in 0 .. m + 1
        PROVE  g[i] = h[i]
    <3>1. CASE i = m + 1
      BY <3>1
    <3>2. CASE i # m + 1
      <4>1. i \in 0 .. m /\ g[i] = f[i]
        BY <3>2
      <4>2. i # 0 => g[i - 1] = f[i - 1]
        BY <3>2
      <4>3. f[i] = IF i = 0 THEN <<>>
                        ELSE IF s[i] \in T THEN Append(f[i - 1], s[i])
                        ELSE f[i - 1]
        BY <2>1, <4>1 DEF Selects
      <4> QED
        BY <4>1, <4>2, <4>3
    <3> QED
      BY <3>1, <3>2
  <2>3. g = h
    <3> HIDE DEF last
    <3> QED BY <2>2
  <2>4. Selects(g, s, T, m + 1)
    BY <2>3 DEF Selects
  <2> QED
    BY <2>4
<1>3. Nat \subseteq Good
  <2> HIDE DEF Good
  <2> QED  BY <1>1, <1>2, Reaches
<1> QED
  BY <1>3

(* Kept is the last value of a selection.                                  *)
LEMMA KeptBySelection ==
  ASSUME NEW S, NEW s \in Seq(S), NEW T
  PROVE  \E f : Selects(f, s, T, Len(s)) /\ Kept(s, T) = f[Len(s)]
<1> DEFINE f == CHOOSE f : Selects(f, s, T, Len(s))
<1>1. Len(s) \in Nat
  OBVIOUS
<1>2. Selects(f, s, T, Len(s))
  BY <1>1, SelectionExists
<1>3. Kept(s, T) = f[Len(s)]
  BY DEF Kept, Selects
<1> QED
  BY <1>2, <1>3

(* r is the elements of T among the first n of s, in their order: g says   *)
(* where each of them stood.                                               *)
Enumerates(g, r, s, T, n) ==
  /\ g \in [1 .. Len(r) -> 1 .. n]
  /\ \A i, j \in 1 .. Len(r) : i < j => g[i] < g[j]
  /\ \A k \in 1 .. Len(r) : s[g[k]] \in T /\ r[k] = s[g[k]]
  /\ \A i \in 1 .. n : s[i] \in T => \E k \in 1 .. Len(r) : g[k] = i

(* The next element is in T.                                               *)
LEMMA EnumerationGrows ==
  ASSUME NEW S, NEW s \in Seq(S), NEW T, NEW n \in Nat, n + 1 \in 1 .. Len(s),
         NEW r \in Seq(S), NEW g, Enumerates(g, r, s, T, n), s[n + 1] \in T
  PROVE  \E h : Enumerates(h, Append(r, s[n + 1]), s, T, n + 1)
<1> DEFINE q == Append(r, s[n + 1])
           h == [k \in 1 .. Len(r) + 1 |-> IF k = Len(r) + 1 THEN n + 1 ELSE g[k]]
<1>1. Len(r) \in Nat /\ s[n + 1] \in S
  OBVIOUS
<1>2. /\ Len(q) = Len(r) + 1
      /\ \A k \in 1 .. Len(r) : q[k] = r[k]
      /\ q[Len(r) + 1] = s[n + 1]
  BY <1>1, AppendProperties
<1> HIDE DEF q
<1>3. h \in [1 .. Len(q) -> 1 .. n + 1]
  BY <1>1, <1>2 DEF Enumerates
<1>4. \A k \in 1 .. Len(r) : h[k] = g[k] /\ g[k] \in 1 .. n
  BY SMTT(60), <1>1 DEF Enumerates
<1>5. h[Len(r) + 1] = n + 1
  BY <1>1
<1> HIDE DEF h
<1>6. \A i, j \in 1 .. Len(q) : i < j => h[i] < h[j]
  <2> SUFFICES ASSUME NEW i \in 1 .. Len(r) + 1, NEW j \in 1 .. Len(r) + 1, i < j
               PROVE  h[i] < h[j]
    BY <1>2
  <2>1. i \in 1 .. Len(r)
    BY <1>1
  <2>2. CASE j = Len(r) + 1
    BY <1>4, <1>5, <2>1, <2>2
  <2>3. CASE j # Len(r) + 1
    <3>1. j \in 1 .. Len(r)
      BY <1>1, <2>3
    <3>2. g[i] < g[j]
      BY <2>1, <3>1 DEF Enumerates
    <3> QED
      BY <1>4, <2>1, <3>1, <3>2
  <2> QED
    BY <2>2, <2>3
<1>7. \A k \in 1 .. Len(q) : s[h[k]] \in T /\ q[k] = s[h[k]]
  <2> SUFFICES ASSUME NEW k \in 1 .. Len(r) + 1
               PROVE  s[h[k]] \in T /\ q[k] = s[h[k]]
    BY <1>2
  <2>1. CASE k = Len(r) + 1
    BY <1>2, <1>5, <2>1
  <2>2. CASE k # Len(r) + 1
    <3>1. k \in 1 .. Len(r)
      BY <1>1, <2>2
    <3>2. s[g[k]] \in T /\ r[k] = s[g[k]]
      BY <3>1 DEF Enumerates
    <3> QED
      BY <1>2, <1>4, <3>1, <3>2
  <2> QED
    BY <2>1, <2>2
<1>8. \A i \in 1 .. n + 1 : s[i] \in T => \E k \in 1 .. Len(q) : h[k] = i
  <2> TAKE i \in 1 .. n + 1
  <2> HAVE s[i] \in T
  <2>1. CASE i = n + 1
    BY <1>1, <1>2, <1>5, <2>1
  <2>2. CASE i # n + 1
    <3>1. PICK k \in 1 .. Len(r) : g[k] = i
      BY <2>2 DEF Enumerates
    <3> QED
      BY <1>1, <1>2, <1>4, <3>1
  <2> QED
    BY <2>1, <2>2
<1>9. Enumerates(h, q, s, T, n + 1)
  BY <1>3, <1>6, <1>7, <1>8 DEF Enumerates
<1> QED
  BY <1>9 DEF q

(* The next element is not in T.                                           *)
LEMMA EnumerationStays ==
  ASSUME NEW s, NEW T, NEW n \in Nat, NEW r, NEW g, Enumerates(g, r, s, T, n), s[n + 1] \notin T
  PROVE  Enumerates(g, r, s, T, n + 1)
<1>1. g \in [1 .. Len(r) -> 1 .. n + 1]
  BY DEF Enumerates
<1>2. \A i \in 1 .. n + 1 : s[i] \in T => i \in 1 .. n
  OBVIOUS
<1> QED
  BY <1>1, <1>2 DEF Enumerates

(* Kept(s, T) is the elements of s that are in T, in their order.          *)
LEMMA KeptEnumerates ==
  ASSUME NEW S, NEW s \in Seq(S), NEW T
  PROVE  /\ Kept(s, T) \in Seq(S)
         /\ \E g : Enumerates(g, Kept(s, T), s, T, Len(s))
<1>1. PICK f : Selects(f, s, T, Len(s)) /\ Kept(s, T) = f[Len(s)]
  BY KeptBySelection
<1>2. Len(s) \in Nat
  OBVIOUS
<1>3. \A i \in 0 .. Len(s) :
        f[i] = IF i = 0 THEN <<>> ELSE IF s[i] \in T THEN Append(f[i - 1], s[i]) ELSE f[i - 1]
  BY <1>1, <1>2 DEF Selects
<1> DEFINE Done(n) == f[n] \in Seq(S) /\ \E g : Enumerates(g, f[n], s, T, n)
           Good == {n \in Nat : n <= Len(s) => Done(n)}
<1>4. 0 \in Good
  <2>1. f[0] = <<>> /\ Len(f[0]) = 0
    BY <1>2, <1>3
  <2>2. Enumerates([k \in 1 .. 0 |-> 1], f[0], s, T, 0)
    BY <2>1 DEF Enumerates
  <2>3. Done(0)
    BY <2>1, <2>2, EmptySeq
  <2> HIDE DEF Done
  <2> QED
    BY <2>3
<1>5. ASSUME NEW n \in Nat, n \in Good
      PROVE  n + 1 \in Good
  <2> SUFFICES ASSUME n + 1 <= Len(s)
               PROVE  Done(n + 1)
    OBVIOUS
  <2>1. PICK g : f[n] \in Seq(S) /\ Enumerates(g, f[n], s, T, n)
    BY <1>2, <1>5
  <2>2. f[n + 1] = IF s[n + 1] \in T THEN Append(f[n], s[n + 1]) ELSE f[n]
    BY <1>2, <1>3
  <2>3. s[n + 1] \in S
    BY <1>2
  <2>4. CASE s[n + 1] \in T
    BY <1>2, <2>1, <2>2, <2>3, <2>4, EnumerationGrows
  <2>5. CASE s[n + 1] \notin T
    BY <2>1, <2>2, <2>5, EnumerationStays
  <2> QED
    BY <2>4, <2>5
<1>6. Nat \subseteq Good
  <2> HIDE DEF Good
  <2> QED  BY <1>4, <1>5, Reaches
<1> QED
  BY <1>1, <1>2, <1>6

-----------------------------------------------------------------------------
(* How often a list has an element of a set: what limits are about.        *)

Places(s, T) == {i \in 1 .. Len(s) : s[i] \in T}
Count(s, T) == Cardinality(Places(s, T))

(* The elements of s in T can be counted.                                  *)
LEMMA PlacesFinite ==
  ASSUME NEW S, NEW s \in Seq(S), NEW T
  PROVE  IsFiniteSet(Places(s, T)) /\ Count(s, T) \in Nat
<1>1. Len(s) \in Nat /\ IsFiniteSet(1 .. Len(s))
  BY FS_Interval
<1>2. IsFiniteSet(Places(s, T))
  BY <1>1, FS_Subset DEF Places
<1> QED
  BY <1>2, FS_CardinalityType DEF Count

(* Nothing in an empty list.                                               *)
LEMMA CountEmpty ==
  ASSUME NEW T
  PROVE  Count(<<>>, T) = 0
BY FS_EmptySet DEF Count, Places

(* Of a larger set there are as many at least.                             *)
LEMMA CountWithin ==
  ASSUME NEW S, NEW s \in Seq(S), NEW T, NEW U, \A x \in S : x \in T => x \in U
  PROVE  Count(s, T) <= Count(s, U)
<1>1. Places(s, T) \subseteq Places(s, U)
  BY DEF Places
<1> QED
  BY <1>1, PlacesFinite, FS_Subset DEF Count

(* One more element.                                                       *)
LEMMA CountAppend ==
  ASSUME NEW S, NEW s \in Seq(S), NEW x \in S, NEW T
  PROVE  Count(Append(s, x), T) = Count(s, T) + (IF x \in T THEN 1 ELSE 0)
<1> DEFINE n == Len(s) + 1
           P == Places(s, T)
<1>1. Len(s) \in Nat
  OBVIOUS
<1>2. Len(Append(s, x)) = n /\ Append(s, x)[n] = x /\ \A i \in 1 .. Len(s) : Append(s, x)[i] = s[i]
  BY AppendProperties
<1>3. Places(Append(s, x), T) = IF x \in T THEN P \cup {n} ELSE P
  BY <1>1, <1>2 DEF Places
<1>4. IsFiniteSet(P) /\ Cardinality(P) \in Nat
  BY PlacesFinite DEF Count
<1>6. n \notin P
  BY <1>1 DEF Places
<1>5. Cardinality(P \cup {n}) = Cardinality(P) + 1
  BY <1>4, <1>6, FS_AddElement
<1> QED
  BY <1>3, <1>4, <1>5 DEF Count

(* What is kept of a list is counted in the list itself.                   *)
LEMMA CountKept ==
  ASSUME NEW S, NEW s \in Seq(S), NEW T, NEW U
  PROVE  /\ Kept(s, T) \in Seq(S)
         /\ Count(Kept(s, T), U) = Count(s, T \cap U)
<1> DEFINE r == Kept(s, T)
           A == Places(r, U)
           B == Places(s, T \cap U)
<1>1. PICK g : r \in Seq(S) /\ Enumerates(g, r, s, T, Len(s))
  BY KeptEnumerates
<1>2. Len(r) \in Nat /\ Len(s) \in Nat
  BY <1>1
<1>3. \A k \in 1 .. Len(r) : g[k] \in 1 .. Len(s) /\ s[g[k]] \in T /\ r[k] = s[g[k]]
  BY <1>1 DEF Enumerates
<1>4. \A i \in 1 .. Len(s) : s[i] \in T => \E k \in 1 .. Len(r) : g[k] = i
  BY <1>1 DEF Enumerates
<1>5. \A i, j \in 1 .. Len(r) : i < j => g[i] < g[j]
  BY <1>1 DEF Enumerates
<1> HIDE DEF r
<1> DEFINE h == [k \in A |-> g[k]]
<1>6. \A k \in A : h[k] \in B
  BY <1>3 DEF Places
<1>7. \A i, j \in A : h[i] = h[j] => i = j
  <2> SUFFICES ASSUME NEW i \in 1 .. Len(r), NEW j \in 1 .. Len(r), g[i] = g[j]
               PROVE  i = j
    BY DEF Places
  <2>1. g[i] \in Int /\ g[j] \in Int
    BY <1>2, <1>3
  <2>2. ~(i < j) /\ ~(j < i)
    BY <1>5, <2>1
  <2> QED
    BY <1>2, <2>2
<1>8. \A i \in B : \E k \in A : h[k] = i
  <2> TAKE i \in B
  <2>1. PICK k \in 1 .. Len(r) : g[k] = i
    BY <1>4 DEF Places
  <2>2. k \in A
    BY <1>3, <2>1 DEF Places
  <2> QED
    BY <2>1, <2>2
<1>9. h \in Bijection(A, B)
  <2> HIDE DEF A, B
  <2>1. h \in [A -> B]
    BY <1>6
  <2> HIDE DEF h
  <2> QED
    BY <1>7, <1>8, <2>1, Fun_IsBij
<1>10. IsFiniteSet(A)
  BY <1>1, PlacesFinite DEF r
<1> HIDE DEF A, B, h
<1>11. Cardinality(B) = Cardinality(A)
  BY <1>9, <1>10, FS_Bijection DEF ExistsBijection
<1> QED
  BY <1>1, <1>11 DEF Count, A, B, r

(* All of a list.                                                          *)
LEMMA CountAll ==
  ASSUME NEW S, NEW s \in Seq(S), NEW T, S \subseteq T
  PROVE  Count(s, T) = Len(s)
<1>1. Len(s) \in Nat /\ Places(s, T) = 1 .. Len(s)
  BY DEF Places
<1> QED
  BY <1>1, FS_Interval DEF Count

(* The length of what is kept.                                             *)
LEMMA KeptLength ==
  ASSUME NEW S, NEW s \in Seq(S), NEW T
  PROVE  /\ Kept(s, T) \in Seq(S)
         /\ Len(Kept(s, T)) = Count(s, T)
<1>1. Kept(s, T) \in Seq(S) /\ Count(Kept(s, T), S) = Count(s, T \cap S)
  BY CountKept
<1>2. Count(Kept(s, T), S) = Len(Kept(s, T))
  BY <1>1, CountAll
<1>3. Places(s, T \cap S) = Places(s, T)
  BY DEF Places
<1> QED
  BY <1>1, <1>2, <1>3 DEF Count

(* What is in Kept(s, T) is in s and in T.                                 *)
LEMMA KeptFrom ==
  ASSUME NEW S, NEW s \in Seq(S), NEW T, NEW i \in 1 .. Len(Kept(s, T))
  PROVE  \E j \in 1 .. Len(s) : s[j] \in T /\ Kept(s, T)[i] = s[j]
<1>1. PICK g : Enumerates(g, Kept(s, T), s, T, Len(s))
  BY KeptEnumerates
<1> QED
  BY <1>1 DEF Enumerates

(* What is in s and in T is in Kept(s, T).                                 *)
LEMMA KeptHas ==
  ASSUME NEW S, NEW s \in Seq(S), NEW T, NEW j \in 1 .. Len(s), s[j] \in T
  PROVE  \E i \in 1 .. Len(Kept(s, T)) : Kept(s, T)[i] = s[j]
<1>1. PICK g : Enumerates(g, Kept(s, T), s, T, Len(s))
  BY KeptEnumerates
<1>2. PICK i \in 1 .. Len(Kept(s, T)) : g[i] = j
  BY <1>1 DEF Enumerates
<1> QED
  BY <1>1, <1>2 DEF Enumerates
=============================================================================
