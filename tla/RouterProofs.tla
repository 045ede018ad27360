---------------------------- MODULE RouterProofs ----------------------------
(***************************************************************************)
(* What a search and the three routes return, for any rankings, questions  *)
(* and stores: passages of the rankings, none twice, no more than K; and   *)
(* what a route may put beside what else.                                  *)
(***************************************************************************)
EXTENDS Router, ListProofs

(* No two of a list are at one place of one document.                      *)
Apart(s) == \A i, j \in DOMAIN s : i # j => Id(s[i]) # Id(s[j])

-----------------------------------------------------------------------------
(* Lists.                                                                  *)

LEMMA FirstNumbers ==
  ASSUME NEW n \in Nat
  PROVE  IsFiniteSet(1 .. n) /\ Cardinality(1 .. n) = n
<1>1. /\ IsFiniteSet(1 .. n)
      /\ Cardinality(1 .. n) = IF 1 > n THEN 0 ELSE n - 1 + 1
  BY FS_Interval
<1> QED
  BY <1>1

(* What is kept of a list is of it and of what is kept, in its order, so   *)
(* that it stays apart.                                                    *)
LEMMA KeptList ==
  ASSUME NEW S, NEW s \in Seq(S), NEW T
  PROVE  /\ Kept(s, T) \in Seq(S \cap T)
         /\ Len(Kept(s, T)) <= Len(s)
         /\ Apart(s) => Apart(Kept(s, T))
<1> DEFINE r == Kept(s, T)
<1>1. PICK g : r \in Seq(S) /\ Enumerates(g, r, s, T, Len(s))
  BY KeptEnumerates
<1> HIDE DEF r
<1>0. Len(r) \in Nat /\ Len(s) \in Nat
  BY <1>1
<1>2. /\ g \in [1 .. Len(r) -> 1 .. Len(s)]
      /\ \A k \in 1 .. Len(r) : s[g[k]] \in T /\ r[k] = s[g[k]]
      /\ \A i, j \in 1 .. Len(r) : i < j => g[i] < g[j]
  BY <1>1 DEF Enumerates
<1>10. \A i, j \in 1 .. Len(r) : i # j => g[i] # g[j]
  <2> SUFFICES ASSUME NEW i \in 1 .. Len(r), NEW j \in 1 .. Len(r), i # j
               PROVE  g[i] # g[j]
    OBVIOUS
  <2>1. g[i] \in Int /\ g[j] \in Int /\ (i < j \/ j < i)
    BY <1>0, <1>2
  <2> QED
    BY <1>2, <2>1
<1>3. r \in Seq(S \cap T)
  BY <1>1, <1>2, ElementOfSeq
<1>4. Len(r) <= Len(s)
  <2>1. g \in Injection(1 .. Len(r), 1 .. Len(s))
    BY <1>2, <1>10 DEF Injection, IsInjective
  <2>2. /\ IsFiniteSet(1 .. Len(s))
        /\ Cardinality(1 .. Len(r)) = Len(r) /\ Cardinality(1 .. Len(s)) = Len(s)
    BY <1>0, FirstNumbers
  <2> QED
    BY <2>1, <2>2, FS_Injection
<1>5. ASSUME Apart(s) PROVE Apart(r)
  <2> SUFFICES ASSUME NEW i \in 1 .. Len(r), NEW j \in 1 .. Len(r), i # j
               PROVE  Id(r[i]) # Id(r[j])
    BY <1>1 DEF Apart
  <2>1. /\ g[i] \in DOMAIN s /\ g[j] \in DOMAIN s /\ g[i] # g[j]
        /\ r[i] = s[g[i]] /\ r[j] = s[g[j]]
    BY <1>2, <1>10
  <2> QED
    BY <1>5, <2>1 DEF Apart
<1> QED
  BY <1>3, <1>4, <1>5 DEF r

(* Nothing is dropped from a list that is all to be kept.                  *)
LEMMA KeptAll ==
  ASSUME NEW S, NEW s \in Seq(S), NEW T, S \subseteq T
  PROVE  Len(Kept(s, T)) = Len(s)
BY KeptLength, CountAll

(* The first k of a list.                                                  *)
LEMMA TopList ==
  ASSUME NEW S, NEW s \in Seq(S), NEW k \in Nat
  PROVE  /\ Top(s, k) \in Seq(S)
         /\ Len(Top(s, k)) = IF Len(s) < k THEN Len(s) ELSE k
         /\ \A i \in 1 .. Len(Top(s, k)) : Top(s, k)[i] = s[i]
         /\ Apart(s) => Apart(Top(s, k))
<1> DEFINE n == IF Len(s) < k THEN Len(s) ELSE k
<1>1. n \in 0 .. Len(s) /\ Len(s) \in Nat
  OBVIOUS
<1> HIDE DEF n
<1>2. SubSeq(s, 1, n) \in Seq(S) /\ Len(SubSeq(s, 1, n)) = n
      /\ \A i \in 1 .. n : SubSeq(s, 1, n)[i] = s[i]
  BY <1>1, SubSeqProperties
<1>3. Apart(s) => Apart(SubSeq(s, 1, n))
  BY <1>1, <1>2 DEF Apart
<1> QED
  BY <1>2, <1>3 DEF Top, n

(* Two lists one after the other.                                          *)
LEMMA JoinList ==
  ASSUME NEW S, NEW s \in Seq(S), NEW R, NEW r \in Seq(R)
  PROVE  /\ s \o r \in Seq(S \cup R)
         /\ Len(s \o r) = Len(s) + Len(r)
         /\ \A i \in 1 .. Len(s) : (s \o r)[i] = s[i]
         /\ \A i \in Len(s) + 1 .. Len(s) + Len(r) : (s \o r)[i] = r[i - Len(s)]
<1>1. s \in Seq(S \cup R) /\ r \in Seq(S \cup R) /\ Len(s) \in Nat /\ Len(r) \in Nat
  BY SeqMonotonic
<1> QED
  BY <1>1, ConcatProperties

(* They stay apart, if they have nothing in common.                        *)
LEMMA JoinApart ==
  ASSUME NEW S, NEW s \in Seq(S), NEW R, NEW r \in Seq(R), Apart(s), Apart(r),
         \A i \in 1 .. Len(s), j \in 1 .. Len(r) : Id(s[i]) # Id(r[j])
  PROVE  Apart(s \o r)
<1> DEFINE t == s \o r
<1>1. Len(s) \in Nat /\ Len(r) \in Nat
  OBVIOUS
<1>2. /\ t \in Seq(S \cup R) /\ Len(t) = Len(s) + Len(r)
      /\ \A i \in 1 .. Len(s) : t[i] = s[i]
      /\ \A i \in Len(s) + 1 .. Len(s) + Len(r) : t[i] = r[i - Len(s)]
  BY JoinList
<1> HIDE DEF t
<1> SUFFICES ASSUME NEW i \in 1 .. Len(t), NEW j \in 1 .. Len(t), i # j
             PROVE  Id(t[i]) # Id(t[j])
  BY <1>2 DEF Apart, t
<1>3. CASE i \in 1 .. Len(s) /\ j \in 1 .. Len(s)
  BY <1>1, <1>2, <1>3 DEF Apart
<1>4. CASE i \in 1 .. Len(s) /\ j \notin 1 .. Len(s)
  <2>1. j - Len(s) \in 1 .. Len(r) /\ t[j] = r[j - Len(s)]
    BY <1>1, <1>2, <1>4
  <2> QED
    BY <1>2, <1>4, <2>1
<1>5. CASE i \notin 1 .. Len(s) /\ j \in 1 .. Len(s)
  <2>1. i - Len(s) \in 1 .. Len(r) /\ t[i] = r[i - Len(s)]
    BY <1>1, <1>2, <1>5
  <2> QED
    BY <1>2, <1>5, <2>1
<1>6. CASE i \notin 1 .. Len(s) /\ j \notin 1 .. Len(s)
  <2>1. /\ i - Len(s) \in 1 .. Len(r) /\ t[i] = r[i - Len(s)]
        /\ j - Len(s) \in 1 .. Len(r) /\ t[j] = r[j - Len(s)]
        /\ i - Len(s) # j - Len(s)
    BY <1>1, <1>2, <1>6
  <2> QED
    BY <1>1, <2>1 DEF Apart
<1> QED
  BY <1>3, <1>4, <1>5, <1>6

-----------------------------------------------------------------------------
(* The order of scores.                                                    *)

Fraction == [num : Nat, den : Nat \ {0}]

(* A common factor does not change which of two products is larger.        *)
LEMMA Cancel ==
  ASSUME NEW a \in Int, NEW b \in Int, NEW c \in Nat \ {0}, a * c <= b * c
  PROVE  a <= b
<1>1. ASSUME b < a PROVE FALSE
  <2>1. b + 1 <= a
    BY <1>1
  <2>2. (b + 1) * c <= a * c
    BY <2>1
  <2>3. (b + 1) * c = b * c + c
    OBVIOUS
  <2> HIDE DEF Fraction
  <2>4. b * c \in Int /\ a * c \in Int
    OBVIOUS
  <2> QED
    BY <2>2, <2>3, <2>4
<1> QED
  BY <1>1

(* Not above is transitive: equal scores are all of one rank.              *)
LEMMA NotAbove ==
  ASSUME NEW p \in Fraction, NEW q \in Fraction, NEW r \in Fraction,
         ~Above(p, q), ~Above(q, r)
  PROVE  ~Above(p, r)
<1> DEFINE a == p.num  b == p.den  c == q.num  d == q.den  e == r.num  f == r.den
<1>1. a \in Nat /\ c \in Nat /\ e \in Nat
      /\ b \in Nat \ {0} /\ d \in Nat \ {0} /\ f \in Nat \ {0}
  BY DEF Fraction
<1>2. a * d <= c * b /\ c * f <= e * d
  BY <1>1 DEF Above
<1>3. Above(p, r) <=> a * f > e * b
  BY DEF Above
<1> HIDE DEF a, b, c, d, e, f
<1>4. (a * d) * f <= (c * b) * f
  BY <1>1, <1>2
<1>5. (c * f) * b <= (e * d) * b
  BY <1>1, <1>2
<1>6. (a * d) * f = (a * f) * d /\ (c * b) * f = (c * f) * b /\ (e * d) * b = (e * b) * d
  BY <1>1
<1>7. (a * f) * d <= (e * b) * d
  <2>1. /\ (a * f) * d \in Int /\ (c * f) * b \in Int /\ (e * b) * d \in Int
    BY <1>1
  <2> QED
    BY <1>4, <1>5, <1>6, <2>1
<1>8. a * f \in Int /\ e * b \in Int
  BY <1>1
<1>9. a * f <= e * b
  BY <1>1, <1>7, <1>8, Cancel
<1> QED
  BY <1>3, <1>8, <1>9

(* What is above something is not below it.                                *)
LEMMA NotBoth ==
  ASSUME NEW p \in Fraction, NEW q \in Fraction, Above(p, q)
  PROVE  ~Above(q, p)
<1> DEFINE x == p.num * q.den  y == q.num * p.den
<1>1. x \in Int /\ y \in Int
  BY DEF Fraction
<1>2. (Above(p, q) <=> x > y) /\ (Above(q, p) <=> y > x)
  BY DEF Above
<1> HIDE DEF x, y
<1> QED
  BY <1>1, <1>2

(* The least of a set of numbers is one of them.                           *)
LEMMA MinOf ==
  ASSUME NEW S, S \subseteq Nat, S # {}
  PROVE  Min(S) \in S /\ \A x \in S : Min(S) <= x
<1>1. \E x \in S : \A y \in S : x =< y
  BY Least
<1> QED
  BY <1>1 DEF Min

(* A score is a fraction.                                                  *)
LEMMA ScoreFraction ==
  ASSUME NEW S, NEW dense \in Seq(S), NEW R, NEW lexical \in Seq(R), NEW c
  PROVE  Score(dense, lexical, c) \in Fraction
<1>1. ASSUME NEW V, NEW list \in Seq(V)
      PROVE  Share(list, c).num \in Nat /\ Share(list, c).den \in Nat \ {0}
  <2> DEFINE ranks == {i \in DOMAIN list : Id(list[i]) = Id(c)}
  <2>1. ranks \subseteq Nat
    OBVIOUS
  <2>2. Share(list, c) = IF ranks = {} THEN [num |-> 0, den |-> 1]
                         ELSE [num |-> 1, den |-> 60 + Min(ranks)]
    BY DEF Share
  <2>3. ranks # {} => Min(ranks) \in Nat
    BY <2>1, MinOf
  <2> HIDE DEF ranks
  <2> QED
    BY <2>2, <2>3
<1> DEFINE a == Share(dense, c).num  b == Share(dense, c).den
           d == Share(lexical, c).num  e == Share(lexical, c).den
<1>2. a \in Nat /\ d \in Nat /\ b \in Nat \ {0} /\ e \in Nat \ {0}
  BY <1>1
<1>3. Score(dense, lexical, c) = [num |-> a * e + d * b, den |-> b * e]
  BY DEF Score
<1> HIDE DEF a, b, d, e
<1>4. a * e \in Nat /\ d * b \in Nat /\ b * e \in Nat \ {0}
  BY <1>2
<1> QED
  BY <1>3, <1>4 DEF Fraction

-----------------------------------------------------------------------------
(* Places.                                                                 *)

(* n things at n places, no two at one, leave none empty.                  *)
LEMMA AllTaken ==
  ASSUME NEW n \in Nat, NEW f \in [1 .. n -> 0 .. n - 1],
         \A i, j \in 1 .. n : i # j => f[i] # f[j]
  PROVE  \A m \in 1 .. n : \E i \in 1 .. n : f[i] = m - 1
<1>1. f \in Injection(1 .. n, 0 .. n - 1)
  BY DEF Injection, IsInjective
<1>2. IsFiniteSet(0 .. n - 1) /\ Cardinality(0 .. n - 1) = n
  <2>1. /\ IsFiniteSet(0 .. n - 1)
        /\ Cardinality(0 .. n - 1) = IF 0 > n - 1 THEN 0 ELSE n - 1 - 0 + 1
    BY FS_Interval
  <2> QED
    BY <2>1
<1>3. f \in Surjection(1 .. n, 0 .. n - 1)
  BY <1>1, <1>2, FirstNumbers, FS_Injection
<1>4. \A m \in 0 .. n - 1 : \E i \in 1 .. n : f[i] = m
  BY <1>3 DEF Surjection
<1> QED
  BY <1>4

(* In a strict order of n things, each has a place of its own, given by    *)
(* the number of those before it, and every place is taken.                *)
LEMMA Ranked ==
  ASSUME NEW n \in Nat, NEW R,
         \A i \in 1 .. n : <<i, i>> \notin R,
         \A i, j, k \in 1 .. n : <<i, j>> \in R /\ <<j, k>> \in R => <<i, k>> \in R,
         \A i, j \in 1 .. n : i # j => <<i, j>> \in R \/ <<j, i>> \in R
  PROVE  \A m \in 1 .. n : \E i \in 1 .. n :
           Cardinality({j \in 1 .. n : <<j, i>> \in R}) = m - 1
<1> DEFINE Before(i) == {j \in 1 .. n : <<j, i>> \in R}
           f == [i \in 1 .. n |-> Cardinality(Before(i))]
<1>1. IsFiniteSet(1 .. n) /\ Cardinality(1 .. n) = n
  BY FirstNumbers
<1>2. ASSUME NEW i \in 1 .. n
      PROVE  IsFiniteSet(Before(i)) /\ Cardinality(Before(i)) \in 0 .. n - 1
  <2>1. IsFiniteSet(1 .. n \ {i}) /\ Cardinality(1 .. n \ {i}) = n - 1
    BY <1>1, FS_RemoveElement
  <2>2. Before(i) \in SUBSET (1 .. n \ {i})
    OBVIOUS
  <2> HIDE DEF Before
  <2>3. IsFiniteSet(Before(i)) /\ Cardinality(Before(i)) <= n - 1
    BY <2>1, <2>2, FS_Subset
  <2>4. Cardinality(Before(i)) \in Nat
    BY <2>3, FS_CardinalityType
  <2> QED
    BY <2>3, <2>4
<1>3. ASSUME NEW i \in 1 .. n, NEW j \in 1 .. n, <<i, j>> \in R
      PROVE  Cardinality(Before(i)) < Cardinality(Before(j))
  <2>1. i \in Before(j) /\ Before(i) \in SUBSET (Before(j) \ {i})
    BY <1>3
  <2> HIDE DEF Before
  <2>2. /\ IsFiniteSet(Before(j) \ {i})
        /\ Cardinality(Before(j) \ {i}) = Cardinality(Before(j)) - 1
    BY <1>2, <2>1, FS_RemoveElement
  <2>3. Cardinality(Before(i)) <= Cardinality(Before(j) \ {i})
    BY <2>1, <2>2, FS_Subset
  <2>4. Cardinality(Before(i)) \in Int /\ Cardinality(Before(j)) \in Int
    BY <1>2
  <2> QED
    BY <2>2, <2>3, <2>4
<1> HIDE DEF Before
<1>4. ASSUME NEW i \in 1 .. n, NEW j \in 1 .. n, i # j
      PROVE  f[i] # f[j]
  <2>1. f[i] \in Int /\ f[j] \in Int
    BY <1>2
  <2>2. f[i] < f[j] \/ f[j] < f[i]
    BY <1>3, <1>4
  <2> QED
    BY <2>1, <2>2
<1>5. f \in [1 .. n -> 0 .. n - 1]
  BY <1>2
<1>6. \A m \in 1 .. n : \E i \in 1 .. n : f[i] = m - 1
  <2> HIDE DEF f
  <2> QED
    BY <1>4, <1>5, AllTaken
<1> QED
  BY <1>6 DEF Before

(* A list put in the order of its scores, equal ones as they stood: every  *)
(* place is taken by the element that as many are before.                  *)
LEMMA Ordered ==
  ASSUME NEW n \in Nat, NEW score \in [1 .. n -> Fraction]
  PROVE  LET before(i, j) == Above(score[i], score[j]) \/ (i < j /\ ~Above(score[j], score[i]))
         IN  \A m \in 1 .. n : \E i \in 1 .. n :
               Cardinality({j \in 1 .. n : before(j, i)}) = m - 1
<1> DEFINE before(i, j) == Above(score[i], score[j]) \/ (i < j /\ ~Above(score[j], score[i]))
           R == {p \in (1 .. n) \X (1 .. n) : before(p[1], p[2])}
<1>1. \A i \in 1 .. n : ~before(i, i)
  <2> SUFFICES ASSUME NEW i \in 1 .. n PROVE ~before(i, i)
    OBVIOUS
  <2>1. score[i] \in Fraction
    OBVIOUS
  <2>2. ~Above(score[i], score[i])
    BY <2>1, NotBoth
  <2> QED
    BY <2>2
<1>2. \A i, j, k \in 1 .. n : before(i, j) /\ before(j, k) => before(i, k)
  <2> SUFFICES ASSUME NEW i \in 1 .. n, NEW j \in 1 .. n, NEW k \in 1 .. n,
                      before(i, j), before(j, k)
               PROVE  before(i, k)
    OBVIOUS
  <2> DEFINE p == score[i]  q == score[j]  r == score[k]
  <2>1. p \in Fraction /\ q \in Fraction /\ r \in Fraction
    OBVIOUS
  <2>2. Above(p, q) \/ (i < j /\ ~Above(q, p))
    OBVIOUS
  <2>3. Above(q, r) \/ (j < k /\ ~Above(r, q))
    OBVIOUS
  <2> SUFFICES Above(p, r) \/ (i < k /\ ~Above(r, p))
    OBVIOUS
  <2> HIDE DEF p, q, r, before
  <2>4. ~Above(q, p) /\ ~Above(r, q)
    BY <2>1, <2>2, <2>3, NotBoth
  <2>5. ~Above(r, p)
    BY <2>1, <2>4, NotAbove
  <2>6. CASE i < k
    BY <2>5, <2>6
  <2>7. CASE ~(i < k)
    <3>1. Above(p, q) \/ Above(q, r)
      BY <2>2, <2>3, <2>7
    <3>2. ASSUME ~Above(p, r) PROVE FALSE
      <4>1. ~Above(p, q)
        BY <2>1, <2>4, <3>2, NotAbove
      <4>2. ~Above(q, r)
        BY <2>1, <2>4, <3>2, NotAbove
      <4> QED
        BY <3>1, <4>1, <4>2
    <3> QED
      BY <3>2
  <2> QED
    BY <2>6, <2>7
<1>3. \A i, j \in 1 .. n : i # j => before(i, j) \/ before(j, i)
  <2> SUFFICES ASSUME NEW i \in 1 .. n, NEW j \in 1 .. n, i # j
               PROVE  before(i, j) \/ before(j, i)
    OBVIOUS
  <2>1. i < j \/ j < i
    OBVIOUS
  <2> QED
    BY <2>1
<1>4. \A i, j \in 1 .. n : <<i, j>> \in R <=> before(i, j)
  <2> HIDE DEF before
  <2> QED
    OBVIOUS
<1> HIDE DEF before
<1>5. \A m \in 1 .. n : \E i \in 1 .. n : Cardinality({j \in 1 .. n : <<j, i>> \in R}) = m - 1
  <2> HIDE DEF R
  <2>1. \A i \in 1 .. n : <<i, i>> \notin R
    BY <1>1, <1>4
  <2>2. \A i, j, k \in 1 .. n : <<i, j>> \in R /\ <<j, k>> \in R => <<i, k>> \in R
    BY <1>2, <1>4
  <2>3. \A i, j \in 1 .. n : i # j => <<i, j>> \in R \/ <<j, i>> \in R
    BY <1>3, <1>4
  <2> QED
    BY <2>1, <2>2, <2>3, Ranked, ZenonT(40)
<1>6. \A i \in 1 .. n : {j \in 1 .. n : <<j, i>> \in R} = {j \in 1 .. n : before(j, i)}
  BY <1>4
<1>7. \A m \in 1 .. n : \E i \in 1 .. n : Cardinality({j \in 1 .. n : before(j, i)}) = m - 1
  BY <1>5, <1>6
<1> QED
  BY <1>7 DEF before

(* The elements of a list, each at a place of its own.                     *)
Arranged(s, ahead) == [m \in DOMAIN s |-> s[CHOOSE i \in DOMAIN s : ahead[i] = m - 1]]

LEMMA Placed ==
  ASSUME NEW S, NEW s \in Seq(S), NEW ahead,
         \A m \in 1 .. Len(s) : \E i \in 1 .. Len(s) : ahead[i] = m - 1
  PROVE  /\ Arranged(s, ahead) \in Seq(S)
         /\ Len(Arranged(s, ahead)) = Len(s)
         /\ Apart(s) => Apart(Arranged(s, ahead))
<1> DEFINE n == Len(s)
           who == [m \in 1 .. n |-> CHOOSE i \in 1 .. n : ahead[i] = m - 1]
           r == [m \in 1 .. n |-> s[who[m]]]
<1>1. n \in Nat /\ DOMAIN s = 1 .. n
  OBVIOUS
<1>2. \A m \in 1 .. n : who[m] \in 1 .. n /\ ahead[who[m]] = m - 1
  OBVIOUS
<1>3. Arranged(s, ahead) = r
  BY <1>1 DEF Arranged
<1> HIDE DEF who
<1>4. \A m \in 1 .. n : s[who[m]] \in S
  <2>1. \A i \in 1 .. n : s[i] \in S
    BY ElementOfSeq
  <2> HIDE DEF n
  <2> QED
    BY <1>2, <2>1
<1>5. r \in Seq(S) /\ Len(r) = n /\ \A m \in 1 .. n : r[m] = s[who[m]]
  BY <1>1, <1>4
<1> HIDE DEF r, n
<1>6. ASSUME Apart(s) PROVE Apart(r)
  <2> SUFFICES ASSUME NEW i \in 1 .. n, NEW j \in 1 .. n, i # j
               PROVE  Id(r[i]) # Id(r[j])
    <3>1. DOMAIN r = 1 .. n
      BY <1>5
    <3> QED
      BY <3>1 DEF Apart
  <2>1. i - 1 # j - 1
    BY <1>1
  <2>2. who[i] # who[j] /\ who[i] \in DOMAIN s /\ who[j] \in DOMAIN s
    BY <1>1, <1>2, <2>1
  <2>3. r[i] = s[who[i]] /\ r[j] = s[who[j]]
    BY <1>5
  <2> QED
    BY <1>6, <2>2, <2>3 DEF Apart
<1> QED
  BY <1>3, <1>5, <1>6 DEF n

(* The fusion of two lists that are apart: what either holds, none twice,  *)
(* and no fewer than the first.                                            *)
LEMMA FusedList ==
  ASSUME NEW S, S \subseteq Chunks, NEW dense \in Seq(S), Apart(dense),
         NEW R, R \subseteq Chunks, NEW lexical \in Seq(R), Apart(lexical)
  PROVE  /\ Fused(dense, lexical) \in Seq(S \cup R)
         /\ Apart(Fused(dense, lexical))
         /\ Len(dense) <= Len(Fused(dense, lexical))
<1> DEFINE dup == {Id(dense[i]) : i \in DOMAIN dense}
           new == {c \in Chunks : Id(c) \notin dup}
           others == Kept(lexical, new)
           seen == dense \o others
           score == [i \in DOMAIN seen |-> Score(dense, lexical, seen[i])]
           before(i, j) == Above(score[i], score[j]) \/ (i < j /\ ~Above(score[j], score[i]))
           ahead == [i \in DOMAIN seen |-> Cardinality({j \in DOMAIN seen : before(j, i)})]
<1>1. others \in Seq(R \cap new) /\ Apart(others)
  BY KeptList
<1>2. \A i \in 1 .. Len(dense), j \in 1 .. Len(others) : Id(dense[i]) # Id(others[j])
  <2> SUFFICES ASSUME NEW i \in 1 .. Len(dense), NEW j \in 1 .. Len(others)
               PROVE  Id(dense[i]) # Id(others[j])
    OBVIOUS
  <2>1. Id(dense[i]) \in dup
    OBVIOUS
  <2> HIDE DEF others, dup
  <2>2. others[j] \in new
    BY <1>1
  <2> QED
    BY <2>1, <2>2
<1> HIDE DEF others, new, dup
<1>3. seen \in Seq(S \cup (R \cap new)) /\ Len(seen) = Len(dense) + Len(others) /\ Apart(seen)
  <2>1. seen \in Seq(S \cup (R \cap new)) /\ Len(seen) = Len(dense) + Len(others)
    BY <1>1, JoinList
  <2>2. Apart(seen)
    BY <1>1, <1>2, JoinApart
  <2> QED
    BY <2>1, <2>2
<1> HIDE DEF seen
<1>4. seen \in Seq(S \cup R) /\ Len(seen) \in Nat /\ DOMAIN seen = 1 .. Len(seen)
  BY <1>3, SeqMonotonic
<1>5. score \in [1 .. Len(seen) -> Fraction]
  BY <1>4, ScoreFraction
<1> HIDE DEF score
<1>6. \A m \in 1 .. Len(seen) : \E i \in 1 .. Len(seen) :
        Cardinality({j \in 1 .. Len(seen) : before(j, i)}) = m - 1
  BY <1>4, <1>5, Ordered
<1> HIDE DEF before
<1>7. \A m \in 1 .. Len(seen) : \E i \in 1 .. Len(seen) : ahead[i] = m - 1
  BY <1>4, <1>6
<1> HIDE DEF ahead
<1> DEFINE r == Arranged(seen, ahead)
<1>8. r \in Seq(S \cup R) /\ Len(r) = Len(seen) /\ Apart(r)
  BY <1>3, <1>4, <1>7, Placed
<1>9. Fused(dense, lexical) = r
  BY DEF Fused, Arranged, dup, new, others, seen, score, before, ahead
<1>10. Len(dense) \in Nat /\ Len(others) \in Nat
  BY <1>1
<1> HIDE DEF r
<1> QED
  BY <1>3, <1>8, <1>9, <1>10

-----------------------------------------------------------------------------
(* One search.                                                             *)

(* The passages of some documents.                                         *)
Those(chunks, docs) == {c \in chunks : c.doc \in docs}
Of(list, docs) == Kept(list, {c \in Chunks : c.doc \in docs})

(* What there is no trace of in a list is left of it.                      *)
LEMMA OfList ==
  ASSUME NEW S, S \subseteq Chunks, NEW s \in Seq(S), NEW docs
  PROVE  /\ Of(s, docs) \in Seq(Those(S, docs))
         /\ Apart(s) => Apart(Of(s, docs))
         /\ \A i \in 1 .. Len(s) : s[i].doc \in docs =>
              \E j \in 1 .. Len(Of(s, docs)) : Of(s, docs)[j] = s[i]
<1> DEFINE T == {c \in Chunks : c.doc \in docs}
<1>1. S \cap T = Those(S, docs)
  BY DEF Those
<1>2. \A i \in 1 .. Len(s) : s[i].doc \in docs => s[i] \in T
  <2>1. \A i \in 1 .. Len(s) : s[i] \in Chunks
    BY ElementOfSeq
  <2> QED
    BY <2>1
<1> HIDE DEF T
<1>3. Kept(s, T) \in Seq(S \cap T) /\ (Apart(s) => Apart(Kept(s, T)))
  BY KeptList
<1>4. \A i \in 1 .. Len(s) : s[i].doc \in docs =>
        \E j \in 1 .. Len(Kept(s, T)) : Kept(s, T)[j] = s[i]
  BY <1>2, KeptHas
<1>5. Of(s, docs) = Kept(s, T)
  BY DEF Of, T
<1> QED
  BY <1>1, <1>3, <1>4, <1>5

(* A search returns passages of the rankings that are wanted, none twice,  *)
(* no more than K.                                                         *)
LEMMA SearchList ==
  ASSUME NEW S, S \subseteq Chunks, NEW R, R \subseteq Chunks, NEW rank,
         rank.dense \in Seq(S), Apart(rank.dense),
         rank.lexical \in Seq(R), Apart(rank.lexical), NEW docs, NEW wanted
  PROVE  /\ Search(rank, docs, wanted) \in Seq(Those(S \cup R, wanted))
         /\ Apart(Search(rank, docs, wanted))
         /\ Len(Search(rank, docs, wanted)) <= K
         /\ Len(Of(Top(Of(rank.dense, docs), Candidates), wanted)) > 0 =>
              Len(Search(rank, docs, wanted)) > 0
<1> DEFINE a == Of(Top(Of(rank.dense, docs), Candidates), wanted)
           b == Of(Top(rank.lexical, Candidates), wanted)
           A == Those(S, wanted)
           B == Those(R, wanted)
           f == Fused(a, b)
<1>1. K \in Nat \ {0} /\ Candidates \in Nat
  BY RouterAssumption
<1>2. Of(rank.dense, docs) \in Seq(S) /\ Apart(Of(rank.dense, docs))
  <2>1. Of(rank.dense, docs) \in Seq(Those(S, docs)) /\ Apart(Of(rank.dense, docs))
    BY OfList
  <2>2. Those(S, docs) \subseteq S
    BY DEF Those
  <2> QED
    BY <2>1, <2>2, SeqMonotonic
<1>3. Top(Of(rank.dense, docs), Candidates) \in Seq(S) /\ Apart(Top(Of(rank.dense, docs), Candidates))
  BY <1>1, <1>2, TopList
<1>4. a \in Seq(A) /\ Apart(a)
  BY <1>3, OfList
<1>5. Top(rank.lexical, Candidates) \in Seq(R) /\ Apart(Top(rank.lexical, Candidates))
  BY <1>1, TopList
<1>6. b \in Seq(B) /\ Apart(b)
  BY <1>5, OfList
<1>7. A \subseteq Chunks /\ B \subseteq Chunks /\ A \cup B = Those(S \cup R, wanted)
  BY DEF Those
<1>8. Search(rank, docs, wanted) = Top(f, K)
  BY DEF Search, Of
<1> HIDE DEF a, b, A, B
<1>9. f \in Seq(A \cup B) /\ Apart(f) /\ Len(a) <= Len(f)
  BY <1>4, <1>6, <1>7, FusedList
<1> HIDE DEF f
<1>10. /\ Top(f, K) \in Seq(A \cup B) /\ Apart(Top(f, K))
       /\ Len(Top(f, K)) = IF Len(f) < K THEN Len(f) ELSE K
  BY <1>1, <1>9, TopList
<1>11. Len(a) \in Nat /\ Len(f) \in Nat
  BY <1>4, <1>9
<1>12. Len(Top(f, K)) <= K /\ (Len(a) > 0 => Len(Top(f, K)) > 0)
  BY <1>1, <1>9, <1>10, <1>11
<1> QED
  BY <1>7, <1>8, <1>10, <1>12 DEF a

(* It returns something if the first candidates by meaning hold something  *)
(* wanted: when only what is wanted was ranked, or the candidates hold all *)
(* that was.                                                               *)
LEMMA SearchFinds ==
  ASSUME NEW S, S \subseteq Chunks, NEW R, R \subseteq Chunks, NEW rank,
         rank.dense \in Seq(S), Apart(rank.dense),
         rank.lexical \in Seq(R), Apart(rank.lexical), NEW docs, NEW wanted,
         NEW i \in 1 .. Len(rank.dense), rank.dense[i].doc \in docs, rank.dense[i].doc \in wanted,
         docs \subseteq wanted \/ Len(Of(rank.dense, docs)) <= Candidates
  PROVE  Len(Search(rank, docs, wanted)) > 0
<1> DEFINE d == Of(rank.dense, docs)
           t == Top(d, Candidates)
           x == rank.dense[i]
<1>1. Candidates \in Nat /\ Candidates > 0
  BY RouterAssumption
<1>2. d \in Seq(Those(S, docs)) /\ \E j \in 1 .. Len(d) : d[j] = x
  BY OfList
<1> HIDE DEF d, x
<1>3. PICK j \in 1 .. Len(d) : d[j] = x
  BY <1>2
<1>4. d \in Seq(S) /\ Len(d) \in Nat
  <2>1. Those(S, docs) \subseteq S
    BY DEF Those
  <2> QED
    BY <1>2, <2>1, SeqMonotonic
<1>5. /\ t \in Seq(Those(S, docs)) /\ t \in Seq(S)
      /\ Len(t) = IF Len(d) < Candidates THEN Len(d) ELSE Candidates
      /\ \A k \in 1 .. Len(t) : t[k] = d[k]
  BY <1>1, <1>2, <1>4, TopList
<1> HIDE DEF t
<1>6. \E k \in 1 .. Len(t) : t[k].doc \in wanted
  <2>1. CASE docs \subseteq wanted
    <3>1. 1 \in 1 .. Len(t)
      BY <1>1, <1>3, <1>4, <1>5
    <3>2. t[1] \in Those(S, docs)
      BY <1>5, <3>1, ElementOfSeq
    <3> QED
      BY <2>1, <3>1, <3>2 DEF Those
  <2>2. CASE Len(d) <= Candidates
    <3>1. j \in 1 .. Len(t) /\ t[j] = x
      BY <1>1, <1>3, <1>4, <1>5, <2>2
    <3> QED
      BY <3>1 DEF x
  <2> QED
    BY <2>1, <2>2 DEF d
<1>7. \E k \in 1 .. Len(Of(t, wanted)) : TRUE
  BY <1>5, <1>6, OfList
<1>8. Of(t, wanted) \in Seq(Those(S, wanted))
  BY <1>5, OfList
<1>9. Len(Of(t, wanted)) > 0
  BY <1>7, <1>8
<1> QED
  BY <1>9, SearchList DEF t, d

-----------------------------------------------------------------------------
(* The routes.                                                             *)

(* What is of some documents comes first.                                  *)
Leading(s, docs) == \A i, j \in DOMAIN s : i < j /\ s[j].doc \in docs => s[i].doc \in docs

(* What is kept of a list is led by what leads it.                         *)
LEMMA KeptLeading ==
  ASSUME NEW S, NEW s \in Seq(S), NEW T, NEW docs, Leading(s, docs)
  PROVE  Leading(Kept(s, T), docs)
<1> DEFINE r == Kept(s, T)
<1>1. PICK g : r \in Seq(S) /\ Enumerates(g, r, s, T, Len(s))
  BY KeptEnumerates
<1> HIDE DEF r
<1>2. /\ g \in [1 .. Len(r) -> 1 .. Len(s)]
      /\ \A k \in 1 .. Len(r) : s[g[k]] \in T /\ r[k] = s[g[k]]
      /\ \A i, j \in 1 .. Len(r) : i < j => g[i] < g[j]
  BY <1>1 DEF Enumerates
<1>3. DOMAIN r = 1 .. Len(r) /\ DOMAIN s = 1 .. Len(s)
  BY <1>1
<1> SUFFICES ASSUME NEW i \in 1 .. Len(r), NEW j \in 1 .. Len(r), i < j, r[j].doc \in docs
             PROVE  r[i].doc \in docs
  BY <1>3 DEF Leading, r
<1>4. /\ g[i] \in DOMAIN s /\ g[j] \in DOMAIN s /\ g[i] < g[j]
      /\ r[i] = s[g[i]] /\ r[j] = s[g[j]]
  BY <1>2, <1>3
<1> QED
  BY <1>4 DEF Leading

(* The rule in force: what was found of the texto ordenado and of what     *)
(* came after it, the former first, and if there is both and room for it,  *)
(* both.                                                                   *)
LEMMA MergeList ==
  ASSUME NEW A, NEW to \in Seq(A), Apart(to), \A c \in A : c.doc = TO,
         NEW B, NEW extra \in Seq(B), Apart(extra), \A c \in B : c.doc # TO
  PROVE  LET m == MergeVigente(to, extra)
         IN  /\ m \in Seq(A \cup B) /\ Apart(m) /\ Len(m) <= K /\ Leading(m, {TO})
             /\ K > 1 /\ Len(to) > 0 /\ Len(extra) > 0 =>
                  (\E i \in 1 .. Len(m) : m[i] \in A) /\ (\E i \in 1 .. Len(m) : m[i] \in B)
<1> DEFINE m == MergeVigente(to, extra)
<1>0. K \in Nat \ {0} /\ Len(to) \in Nat /\ Len(extra) \in Nat
  BY RouterAssumption
<1>1. CASE extra = <<>>
  <2>1. m = Top(to, K) /\ Len(extra) = 0
    BY <1>1 DEF MergeVigente
  <2>2. Top(to, K) \in Seq(A) /\ Apart(Top(to, K)) /\ Len(Top(to, K)) <= K
    BY <1>0, TopList
  <2>3. Top(to, K) \in Seq(A \cup B)
    BY <2>2, SeqMonotonic
  <2>4. Leading(Top(to, K), {TO})
    BY <2>2, ElementOfSeq DEF Leading
  <2> QED
    BY <2>1, <2>2, <2>3, <2>4
<1>2. CASE extra # <<>>
  <2> DEFINE min(a, b) == IF a < b THEN a ELSE b
             max(a, b) == IF a > b THEN a ELSE b
             slots == min(Len(extra), max(1, K \div 2))
             chosen == Top(to, max(0, K - slots))
             room == IF Len(chosen) < K - slots THEN min(Len(extra), K - Len(chosen)) ELSE slots
             after == Top(extra, room)
             both == chosen \o after
  <2>1. m = Top(both, K)
    BY <1>2 DEF MergeVigente
  <2>2. Len(extra) > 0
    BY <1>2, <1>0, EmptySeq
  <2>3. K \div 2 \in Nat /\ K \div 2 <= K /\ (K > 1 => K \div 2 < K)
    BY <1>0
  <2>4. slots \in Nat /\ slots > 0 /\ slots <= Len(extra) /\ slots <= K /\ (K > 1 => slots < K)
    BY <1>0, <2>2, <2>3
  <2> HIDE DEF slots
  <2>5. max(0, K - slots) = K - slots /\ K - slots \in Nat
    BY <1>0, <2>4
  <2>6. /\ chosen \in Seq(A) /\ Apart(chosen)
        /\ Len(chosen) = IF Len(to) < K - slots THEN Len(to) ELSE K - slots
    BY <2>5, TopList
  <2> HIDE DEF chosen
  <2>7. Len(chosen) \in Nat
    BY <2>6
  <2>8. room \in Nat /\ room > 0 /\ Len(chosen) + room <= K
    <3>1. CASE Len(chosen) < K - slots
      <4>1. room = IF Len(extra) < K - Len(chosen) THEN Len(extra) ELSE K - Len(chosen)
        BY <3>1
      <4> QED
        BY <1>0, <2>2, <2>4, <2>7, <3>1, <4>1
    <3>2. CASE ~(Len(chosen) < K - slots)
      <4>1. room = slots /\ Len(chosen) = K - slots
        BY <1>0, <2>5, <2>6, <2>7, <3>2
      <4> QED
        BY <1>0, <2>4, <2>7, <4>1
    <3> QED
      BY <3>1, <3>2
  <2> HIDE DEF room
  <2>9. /\ after \in Seq(B) /\ Apart(after)
        /\ Len(after) = IF Len(extra) < room THEN Len(extra) ELSE room
    BY <2>8, TopList
  <2> HIDE DEF after
  <2>10. Len(after) \in Nat /\ Len(after) > 0 /\ Len(chosen) + Len(after) <= K
    BY <1>0, <2>2, <2>7, <2>8, <2>9
  <2>11. /\ both \in Seq(A \cup B) /\ Len(both) = Len(chosen) + Len(after)
         /\ \A i \in 1 .. Len(chosen) : both[i] = chosen[i]
         /\ \A i \in Len(chosen) + 1 .. Len(chosen) + Len(after) : both[i] = after[i - Len(chosen)]
    <3>1. chosen \in Seq(A) /\ after \in Seq(B)
      BY <2>6, <2>9
    <3> QED
      BY <3>1, JoinList
  <2>12. \A i \in 1 .. Len(chosen) : chosen[i] \in A /\ chosen[i].doc = TO
    BY <2>6, ElementOfSeq
  <2>13. \A i \in 1 .. Len(after) : after[i] \in B /\ after[i].doc # TO
    BY <2>9, ElementOfSeq
  <2>14. Apart(both)
    <3>1. \A i \in 1 .. Len(chosen), j \in 1 .. Len(after) : Id(chosen[i]) # Id(after[j])
      BY <2>12, <2>13 DEF Id
    <3> QED
      BY <2>6, <2>9, <3>1, JoinApart
  <2> HIDE DEF both
  <2>15. \A i \in 1 .. Len(both) : both[i] = IF i <= Len(chosen) THEN chosen[i] ELSE after[i - Len(chosen)]
    BY <2>7, <2>10, <2>11
  <2>16. \A i \in 1 .. Len(both) : both[i].doc = TO => i <= Len(chosen)
    BY <2>7, <2>10, <2>11, <2>13, <2>15
  <2>17. Leading(both, {TO})
    <3> SUFFICES ASSUME NEW i \in 1 .. Len(both), NEW j \in 1 .. Len(both), i < j, both[j].doc = TO
                 PROVE  both[i].doc = TO
      BY <2>11 DEF Leading
    <3>1. i \in 1 .. Len(chosen)
      BY <2>7, <2>16
    <3> QED
      BY <2>11, <2>12, <3>1
  <2>18. m \in Seq(A \cup B) /\ Apart(m) /\ Len(m) = Len(both)
         /\ \A i \in 1 .. Len(m) : m[i] = both[i]
    <3>1. /\ Top(both, K) \in Seq(A \cup B) /\ Apart(Top(both, K))
          /\ Len(Top(both, K)) = IF Len(both) < K THEN Len(both) ELSE K
          /\ \A i \in 1 .. Len(Top(both, K)) : Top(both, K)[i] = both[i]
      BY <1>0, <2>11, <2>14, TopList
    <3>2. Len(both) <= K /\ Len(both) \in Nat
      BY <2>7, <2>10, <2>11
    <3> QED
      BY <1>0, <2>1, <3>1, <3>2
  <2> HIDE DEF m
  <2>19. Leading(m, {TO}) /\ Len(m) <= K
    BY <2>10, <2>11, <2>17, <2>18 DEF Leading
  <2>20. ASSUME K > 1, Len(to) > 0
         PROVE  /\ \E i \in 1 .. Len(m) : m[i] \in A
                /\ \E i \in 1 .. Len(m) : m[i] \in B
    <3>1. 1 \in 1 .. Len(chosen)
      BY <1>0, <2>4, <2>6, <2>7, <2>20
    <3>2. 1 \in 1 .. Len(m) /\ m[1] = chosen[1]
      BY <2>7, <2>10, <2>11, <2>18, <3>1
    <3>3. Len(chosen) + 1 \in 1 .. Len(m) /\ m[Len(chosen) + 1] = after[1]
      BY <2>7, <2>10, <2>11, <2>15, <2>18
    <3> QED
      BY <2>10, <2>12, <2>13, <3>1, <3>2, <3>3
  <2> QED
    BY <2>18, <2>19, <2>20 DEF m
<1> QED
  BY <1>1, <1>2

Later(asOf) == Comms \ (0 .. asOf)

(* The rankings of a turn: of all the passages stored, and of some of      *)
(* those the lexicon holds.                                                *)
Rankings(rank, stored, rows) ==
  /\ stored \subseteq Chunks /\ rows \subseteq Chunks
  /\ \A c \in stored \cup rows : c.n > 0
  /\ rank.dense \in Seq(stored) /\ Apart(rank.dense)
  /\ rank.lexical \in Seq(rows) /\ Apart(rank.lexical)
  /\ \A c \in stored : \E i \in 1 .. Len(rank.dense) : rank.dense[i] = c

(* When a question for the rule in force has to find both.                 *)
BothThere(q, rank, stored, rows, asOf) ==
  /\ K > 1 /\ (q.back \/ \A c \in stored \cup rows : ~c.back)
  /\ Written(stored, TO) /\ \E c \in stored : c.doc \in Later(asOf)
  /\ Len(Of(rank.dense, Comms)) <= Candidates

(* What a route found before the reference is followed.                    *)
Basis(result, q, rank, stored, rows, asOf) ==
  /\ result = Hits(result.kind, result.hits)
  /\ Len(result.hits) <= K /\ Apart(result.hits)
  /\ result.kind = "named" <=> ExclusiveNamedId(q) # None
  /\ result.kind = "named" =>
       result.hits \in Seq({Section(stored, q.ids[1])}) /\ Len(result.hits) <= 1
  /\ result.kind # "named" => result.hits \in Seq(stored \cup rows)
  /\ result.kind = "vigente" =>
       /\ Leading(result.hits, {TO})
       /\ \A i \in 1 .. Len(result.hits) : result.hits[i].doc \in {TO} \cup Later(asOf)
       /\ BothThere(q, rank, stored, rows, asOf) =>
            /\ \E i \in 1 .. Len(result.hits) : result.hits[i].doc = TO
            /\ \E i \in 1 .. Len(result.hits) : result.hits[i].doc \in Later(asOf)

(* What is left without the lists of origins, unless they were asked for.  *)
Left(hits, q) == IF q.back THEN hits ELSE Kept(hits, {c \in Chunks : ~c.back})

LEMMA LeftList ==
  ASSUME NEW S, NEW hits \in Seq(S), NEW q
  PROVE  /\ Left(hits, q) \in Seq(S) /\ Len(Left(hits, q)) <= Len(hits)
         /\ Apart(hits) => Apart(Left(hits, q))
         /\ \A docs : Leading(hits, docs) => Leading(Left(hits, q), docs)
<1>1. CASE q.back
  BY <1>1 DEF Left
<1>2. CASE ~q.back
  <2> DEFINE T == {c \in Chunks : ~c.back}
             left == Kept(hits, T)
  <2>1. Left(hits, q) = left
    BY <1>2 DEF Left
  <2> HIDE DEF T
  <2>2. left \in Seq(S \cap T) /\ Len(left) <= Len(hits) /\ (Apart(hits) => Apart(left))
    BY KeptList
  <2>3. left \in Seq(S)
    BY <2>2, SeqMonotonic
  <2>4. \A docs : Leading(hits, docs) => Leading(left, docs)
    BY KeptLeading
  <2> QED
    BY <2>1, <2>2, <2>3, <2>4
<1> QED
  BY <1>1, <1>2

LEMMA LeftAll ==
  ASSUME NEW S, S \subseteq Chunks, NEW hits \in Seq(S), NEW q,
         q.back \/ \A c \in S : ~c.back, NEW i \in 1 .. Len(hits)
  PROVE  \E j \in 1 .. Len(Left(hits, q)) : Left(hits, q)[j] = hits[i]
<1>1. CASE q.back
  BY <1>1 DEF Left
<1>2. CASE ~q.back
  <2> DEFINE T == {c \in Chunks : ~c.back}
  <2>1. Left(hits, q) = Kept(hits, T)
    BY <1>2 DEF Left
  <2>2. hits[i] \in T
    BY <1>2, ElementOfSeq
  <2> HIDE DEF T
  <2> QED
    BY <2>1, <2>2, KeptHas
<1> QED
  BY <1>1, <1>2

(* The fields of a result.                                                 *)
LEMMA HitsFields ==
  ASSUME NEW kind, NEW hits
  PROVE  /\ Hits(kind, hits).kind = kind /\ Hits(kind, hits).hits = hits
         /\ Hits(kind, hits).silencio = FALSE
         /\ Silencio(kind).kind = kind /\ Silencio(kind).silencio = TRUE
         /\ Silencio(kind).hits = <<>>
BY DEF Hits, Silencio

LEMMA DropHits ==
  ASSUME NEW kind, NEW hits, NEW q
  PROVE  DropBackMatter(Hits(kind, hits), q) = Hits(kind, Left(hits, q))
BY DEF DropBackMatter, Hits, Left

LEMMA NamedBasis ==
  ASSUME NEW q, NEW rank, NEW stored, NEW rows, NEW asOf, NEW documents,
         Rankings(rank, stored, rows), ExclusiveNamedId(q) # None,
         NEW result, result = NamedFetch(q.ids[1], documents, stored), ~result.silencio
  PROVE  Basis(DropBackMatter(result, q), q, rank, stored, rows, asOf)
<1> DEFINE x == Section(stored, q.ids[1])
           left == Left(<<x>>, q)
           drop == DropBackMatter(result, q)
<1>1. result = Hits("named", <<x>>)
  BY HitsFields DEF NamedFetch
<1> HIDE DEF x
<1>2. <<x>> \in Seq({x}) /\ Len(<<x>>) = 1 /\ Apart(<<x>>)
  BY DEF Apart
<1>3. left \in Seq({x}) /\ Len(left) <= 1 /\ Apart(left)
  BY <1>2, LeftList
<1>4. drop = Hits("named", left)
  BY <1>1, DropHits
<1> HIDE DEF left, drop
<1>5. Len(left) <= K
  BY <1>3, RouterAssumption
<1>6. Basis(drop, q, rank, stored, rows, asOf)
  <2>1. drop.kind = "named" /\ drop.hits = left
    BY <1>4 DEF Hits
  <2> QED
    BY <1>3, <1>4, <1>5, <2>1 DEF Basis, x
<1> QED
  BY <1>6 DEF drop

LEMMA SimilarBasis ==
  ASSUME NEW q, NEW rank, NEW stored, NEW rows, NEW asOf,
         Rankings(rank, stored, rows), ExclusiveNamedId(q) = None,
         NEW result, result = Similar(rank)
  PROVE  Basis(DropBackMatter(result, q), q, rank, stored, rows, asOf)
<1> DEFINE hits == Search(rank, Nat, Nat)
           left == Left(hits, q)
           drop == DropBackMatter(result, q)
<1>1. result = Hits("similar", hits)
  BY DEF Similar
<1>2. /\ hits \in Seq(Those(stored \cup rows, Nat)) /\ Apart(hits) /\ Len(hits) <= K
  <2>1. /\ stored \subseteq Chunks /\ rows \subseteq Chunks
        /\ rank.dense \in Seq(stored) /\ Apart(rank.dense)
        /\ rank.lexical \in Seq(rows) /\ Apart(rank.lexical)
    BY DEF Rankings
  <2> QED
    BY <2>1, SearchList
<1> HIDE DEF hits
<1>3. hits \in Seq(stored \cup rows)
  <2>1. Those(stored \cup rows, Nat) \subseteq stored \cup rows
    BY DEF Those
  <2> QED
    BY <1>2, <2>1, SeqMonotonic
<1>4. left \in Seq(stored \cup rows) /\ Len(left) <= Len(hits) /\ Apart(left)
  BY <1>2, <1>3, LeftList
<1>5. drop = Hits("similar", left)
  BY <1>1, DropHits
<1> HIDE DEF left, drop
<1>6. Len(left) <= K
  BY <1>2, <1>3, <1>4, RouterAssumption
<1>7. Basis(drop, q, rank, stored, rows, asOf)
  <2>1. drop.kind = "similar" /\ drop.hits = left
    BY <1>5 DEF Hits
  <2> QED
    BY <1>4, <1>5, <1>6, <2>1 DEF Basis
<1> QED
  BY <1>7 DEF drop

LEMMA VigenteBasis ==
  ASSUME NEW q, NEW rank, NEW stored, NEW rows, NEW asOf \in Nat,
         Rankings(rank, stored, rows), ExclusiveNamedId(q) = None,
         NEW result, result = Vigente(rank, asOf)
  PROVE  Basis(DropBackMatter(result, q), q, rank, stored, rows, asOf)
<1> DEFINE all == stored \cup rows
           to == Search(rank, {TO}, {TO})
           extra == Search(rank, Comms, Later(asOf))
           A == Those(all, {TO})
           B == Those(all, Later(asOf))
           hits == MergeVigente(to, extra)
           left == Left(hits, q)
           drop == DropBackMatter(result, q)
<1>0. /\ stored \subseteq Chunks /\ rows \subseteq Chunks
      /\ rank.dense \in Seq(stored) /\ Apart(rank.dense)
      /\ rank.lexical \in Seq(rows) /\ Apart(rank.lexical)
      /\ \A c \in stored : \E i \in 1 .. Len(rank.dense) : rank.dense[i] = c
  BY DEF Rankings
<1>1. result = Hits("vigente", hits)
  BY DEF Vigente, Later
<1>2. to \in Seq(A) /\ Apart(to)
  BY <1>0, SearchList
<1>3. extra \in Seq(B) /\ Apart(extra)
  BY <1>0, SearchList
<1>4. /\ \A c \in A : c.doc = TO
      /\ \A c \in B : c.doc # TO /\ c.doc \in Later(asOf)
      /\ A \subseteq all /\ B \subseteq all
  BY DEF Those, Later, Comms, TO
<1> HIDE DEF to, extra, A, B
<1>5. /\ hits \in Seq(A \cup B) /\ Apart(hits) /\ Len(hits) <= K /\ Leading(hits, {TO})
      /\ K > 1 /\ Len(to) > 0 /\ Len(extra) > 0 =>
           (\E i \in 1 .. Len(hits) : hits[i] \in A) /\ (\E i \in 1 .. Len(hits) : hits[i] \in B)
  BY <1>2, <1>3, <1>4, MergeList
<1> HIDE DEF hits
<1>6. /\ left \in Seq(A \cup B) /\ Len(left) <= Len(hits) /\ Apart(left) /\ Leading(left, {TO})
  BY <1>5, LeftList
<1>7. drop = Hits("vigente", left)
  BY <1>1, DropHits
<1>8. left \in Seq(all)
  BY <1>4, <1>6, SeqMonotonic
<1>9. Len(left) <= K
  BY <1>5, <1>6, RouterAssumption
<1>10. \A i \in 1 .. Len(left) : left[i].doc \in {TO} \cup Later(asOf)
  <2>1. \A i \in 1 .. Len(left) : left[i] \in A \cup B
    BY <1>6, ElementOfSeq
  <2> QED
    BY <1>4, <2>1
<1>11. ASSUME BothThere(q, rank, stored, rows, asOf)
       PROVE  /\ \E i \in 1 .. Len(left) : left[i].doc = TO
              /\ \E i \in 1 .. Len(left) : left[i].doc \in Later(asOf)
  <2>1. Len(to) > 0
    <3>1. PICK c \in stored : c.doc = TO
      BY <1>11 DEF BothThere, Written
    <3>2. PICK i \in 1 .. Len(rank.dense) : rank.dense[i] = c
      BY <1>0
    <3>3. rank.dense[i].doc \in {TO} /\ {TO} \subseteq {TO}
      BY <3>1, <3>2
    <3> QED
      BY <1>0, <3>3, SearchFinds DEF to
  <2>2. Len(extra) > 0
    <3>1. PICK c \in stored : c.doc \in Later(asOf)
      BY <1>11 DEF BothThere
    <3>2. PICK i \in 1 .. Len(rank.dense) : rank.dense[i] = c
      BY <1>0
    <3>3. rank.dense[i].doc \in Comms /\ rank.dense[i].doc \in Later(asOf)
      BY <3>1, <3>2 DEF Later
    <3>4. Len(Of(rank.dense, Comms)) <= Candidates
      BY <1>11 DEF BothThere
    <3> QED
      BY <1>0, <3>3, <3>4, SearchFinds DEF extra
  <2>3. A \cup B \subseteq Chunks /\ (q.back \/ \A c \in A \cup B : ~c.back) /\ K > 1
    BY <1>0, <1>4, <1>11 DEF BothThere
  <2>4. PICK i \in 1 .. Len(hits), j \in 1 .. Len(hits) : hits[i] \in A /\ hits[j] \in B
    BY <1>5, <2>1, <2>2, <2>3
  <2>5. /\ \E k \in 1 .. Len(left) : left[k] = hits[i]
        /\ \E k \in 1 .. Len(left) : left[k] = hits[j]
    BY <1>5, <2>3, LeftAll
  <2> QED
    BY <1>4, <2>4, <2>5
<1> HIDE DEF left, drop
<1>12. drop.kind = "vigente" /\ drop.hits = left
  BY <1>7 DEF Hits
<1>13. Basis(drop, q, rank, stored, rows, asOf)
  BY <1>6, <1>7, <1>8, <1>9, <1>10, <1>11, <1>12 DEF Basis
<1> QED
  BY <1>13 DEF drop

(* What a route returns: what it found, or that and all that the first     *)
(* document says that it referred to and did not hold.                     *)
Followed(result, found, documents, stored) ==
  \E target \in documents :
    /\ found.hits # <<>>
    /\ \A i \in 1 .. Len(found.hits) : found.hits[i].doc # target
    /\ result = Hits(found.kind, Append(found.hits, Section(stored, target)))

LEMMA HitsGrow ==
  ASSUME NEW kind, NEW hits, NEW x
  PROVE  [Hits(kind, hits) EXCEPT !.hits = Append(@, x)] = Hits(kind, Append(hits, x))
<1>1. ASSUME NEW no
      PROVE  [[kind |-> kind, hits |-> hits, silencio |-> no] EXCEPT !.hits = Append(@, x)] =
               [kind |-> kind, hits |-> Append(hits, x), silencio |-> no]
  OBVIOUS
<1> QED
  BY <1>1 DEF Hits

LEMMA HopShape ==
  ASSUME NEW result, NEW q, NEW documents, NEW stored, NEW S,
         result = Hits(result.kind, result.hits), result.hits \in Seq(S),
         NEW out, out = XrefHop(result, q, documents, stored)
  PROVE  out = result \/ Followed(out, result, documents, stored) \/ out = Silencio(result.kind)
<1> DEFINE hits == result.hits
           seeing == {i \in DOMAIN hits : hits[i].sees # None}
           target == hits[Min(seeing)].sees
           stays == \/ seeing = {}
                    \/ \E i \in DOMAIN hits : hits[i].doc = target
                    \/ result.kind = "named" /\ ExclusiveNamedId(q) = target
           nothing == \/ q.ids # <<>> /\ q.ids[1] = target
                      \/ \A i \in DOMAIN hits : hits[i].bare
<1>1. out = IF stays THEN result
            ELSE IF target \in documents THEN [result EXCEPT !.hits = Append(@, Section(stored, target))]
            ELSE IF nothing THEN Silencio(result.kind)
            ELSE result
  BY DEF XrefHop
<1>3. ASSUME ~stays
      PROVE  hits # <<>> /\ \A i \in 1 .. Len(hits) : hits[i].doc # target
  <2>1. DOMAIN hits = 1 .. Len(hits)
    OBVIOUS
  <2>2. seeing # {}
    BY <1>3
  <2>3. DOMAIN hits # {}
    BY <2>2
  <2>4. hits # <<>>
    BY <2>3
  <2> QED
    BY <1>3, <2>1, <2>4
<1>4. [result EXCEPT !.hits = Append(@, Section(stored, target))] =
        Hits(result.kind, Append(hits, Section(stored, target)))
  <2> HIDE DEF seeing, target
  <2>1. result = Hits(result.kind, hits)
    OBVIOUS
  <2> HIDE DEF hits
  <2> DEFINE kind == result.kind
             x == Section(stored, target)
  <2> HIDE DEF kind, x
  <2>2. [Hits(kind, hits) EXCEPT !.hits = Append(@, x)] = Hits(kind, Append(hits, x))
    BY HitsGrow
  <2>3. result = Hits(kind, hits)
    BY <2>1 DEF kind
  <2>4. [result EXCEPT !.hits = Append(@, x)] = Hits(kind, Append(hits, x))
    BY <2>2, <2>3
  <2> QED
    BY <2>4 DEF kind, x
<1> HIDE DEF stays, nothing, target
<1>5. CASE stays
  BY <1>1, <1>5
<1>6. CASE ~stays /\ target \in documents
  BY <1>1, <1>3, <1>4, <1>6 DEF Followed
<1>7. CASE ~stays /\ target \notin documents
  BY <1>1, <1>7
<1> QED
  BY <1>5, <1>6, <1>7

LEMMA RouteShape ==
  ASSUME NEW q, NEW rank, NEW stored, NEW rows, NEW asOf \in Nat, NEW documents,
         Rankings(rank, stored, rows),
         NEW out, out = Route(q, rank, documents, asOf, stored)
  PROVE  \/ out.silencio /\ out.hits = <<>>
         \/ \E found : /\ Basis(found, q, rank, stored, rows, asOf)
                       /\ out = found \/ Followed(out, found, documents, stored)
<1> DEFINE named == ExclusiveNamedId(q)
           result == IF named # None THEN NamedFetch(named, documents, stored)
                     ELSE IF q.vigente THEN Vigente(rank, asOf)
                     ELSE Similar(rank)
           found == DropBackMatter(result, q)
<1>0. ASSUME NEW kind
      PROVE  Silencio(kind).silencio /\ Silencio(kind).hits = <<>>
  BY HitsFields
<1>1. out = IF result.silencio THEN result ELSE XrefHop(found, q, documents, stored)
  BY DEF Route
<1>8. CASE result.silencio
  <2>1. result = Silencio("named")
    <3>1. ASSUME NEW kind, NEW hits PROVE ~Hits(kind, hits).silencio
      BY HitsFields
    <3>2. ~Similar(rank).silencio /\ ~Vigente(rank, asOf).silencio
      BY <3>1 DEF Similar, Vigente
    <3>3. result = NamedFetch(named, documents, stored)
      BY <1>8, <3>2
    <3> HIDE DEF result
    <3> QED
      BY <1>8, <3>1, <3>3 DEF NamedFetch
  <2> HIDE DEF result
  <2> QED
    BY <1>0, <1>1, <1>8, <2>1
<1> SUFFICES ASSUME ~result.silencio
             PROVE  \/ out.silencio /\ out.hits = <<>>
                    \/ \E r : /\ Basis(r, q, rank, stored, rows, asOf)
                              /\ out = r \/ Followed(out, r, documents, stored)
  BY <1>8
<1>2. ~result.silencio /\ out = XrefHop(found, q, documents, stored)
  <2> HIDE DEF result
  <2> QED
    BY <1>1
<1>3. Basis(found, q, rank, stored, rows, asOf)
  <2>1. CASE named # None
    <3>1. named = q.ids[1]
      BY <2>1 DEF ExclusiveNamedId
    <3>2. result = NamedFetch(q.ids[1], documents, stored)
      BY <2>1, <3>1
    <3> HIDE DEF result
    <3> QED
      BY <1>2, <2>1, <3>2, NamedBasis
  <2>2. CASE named = None /\ q.vigente
    <3>1. result = Vigente(rank, asOf)
      BY <2>2
    <3> HIDE DEF result
    <3> QED
      BY <2>2, <3>1, VigenteBasis
  <2>3. CASE named = None /\ ~q.vigente
    <3>1. result = Similar(rank)
      BY <2>3
    <3> HIDE DEF result
    <3> QED
      BY <2>3, <3>1, SimilarBasis
  <2> QED
    BY <2>1, <2>2, <2>3
<1> HIDE DEF found, result
<1>4. found = Hits(found.kind, found.hits) /\ \E S : found.hits \in Seq(S)
  BY <1>3 DEF Basis
<1>5. out = found \/ Followed(out, found, documents, stored) \/ out = Silencio(found.kind)
  <2>1. PICK S : found.hits \in Seq(S)
    BY <1>4
  <2> QED
    BY <1>2, <1>4, <2>1, HopShape
<1> QED
  BY <1>0, <1>3, <1>5

(* A reference that was followed tells itself from what was found: it is   *)
(* all of one document, and of another than those found.                   *)
LEMMA FollowedTold ==
  ASSUME NEW q, NEW rank, NEW stored, NEW rows, NEW asOf, NEW documents,
         Rankings(rank, stored, rows),
         NEW r, Basis(r, q, rank, stored, rows, asOf),
         NEW out, out = r \/ Followed(out, r, documents, stored)
  PROVE  LET hits == out.hits
             followed == hits # <<>> /\ Last(hits).n = 0 /\ (Len(hits) > 1 \/ out.kind # "named")
         IN  /\ out.kind = r.kind /\ Apart(hits)
             /\ r.hits = IF followed THEN Front(hits) ELSE hits
             /\ followed => \A i \in 1 .. Len(r.hits) : r.hits[i].doc # Last(hits).doc
<1> DEFINE hits == out.hits
           followed == hits # <<>> /\ Last(hits).n = 0 /\ (Len(hits) > 1 \/ out.kind # "named")
           s == r.hits
<1>1. PICK S : s \in Seq(S)
  BY DEF Basis
<1>2. Len(s) \in Nat /\ DOMAIN s = 1 .. Len(s) /\ Apart(s)
  BY <1>1 DEF Basis
<1>3. CASE out = r
  <2>1. ~followed
    <3>1. CASE r.kind = "named"
      <4>1. Len(s) <= 1
        BY <3>1 DEF Basis
      <4> QED
        BY <1>2, <1>3, <3>1, <4>1
    <3>2. CASE r.kind # "named" /\ s # <<>>
      <4>1. s \in Seq(stored \cup rows)
        BY <3>2 DEF Basis
      <4>2. Len(s) \in 1 .. Len(s)
        BY <3>2, <4>1, EmptySeq
      <4>3. Last(s) \in stored \cup rows
        BY <4>1, <4>2, ElementOfSeq DEF Last
      <4>4. Last(s).n > 0
        BY <4>3 DEF Rankings
      <4> QED
        BY <1>3, <4>4
    <3> QED
      BY <1>3, <3>1, <3>2
  <2> QED
    BY <1>2, <1>3, <2>1
<1>4. CASE Followed(out, r, documents, stored)
  <2>1. PICK target \in documents :
          /\ s # <<>> /\ \A i \in 1 .. Len(s) : s[i].doc # target
          /\ out = Hits(r.kind, Append(s, Section(stored, target)))
    BY <1>4 DEF Followed
  <2> DEFINE x == Section(stored, target)
  <2>2. x.doc = target /\ x.n = 0
    BY DEF Section
  <2> HIDE DEF x
  <2>3. hits = Append(s, x) /\ out.kind = r.kind
    BY <2>1 DEF Hits, x
  <2> HIDE DEF hits, s
  <2>4. /\ hits \in Seq(S \cup {x}) /\ Len(hits) = Len(s) + 1
        /\ \A i \in 1 .. Len(s) : hits[i] = s[i]
        /\ hits[Len(s) + 1] = x
    <3>1. s \in Seq(S \cup {x})
      BY <1>1, SeqMonotonic
    <3> QED
      BY <2>3, <3>1, AppendProperties
  <2>5. Last(hits) = x
    BY <2>4 DEF Last
  <2>6. Len(s) > 0
    BY <1>1, <2>1, EmptySeq
  <2>7. followed
    <3>1. Len(hits) > 1
      BY <1>2, <2>4, <2>6
    <3>2. hits # <<>>
      BY <3>1
    <3> QED
      BY <2>2, <2>5, <3>1, <3>2
  <2>8. Front(hits) = s
    <3>1. Front(hits) = SubSeq(hits, 1, Len(s))
      BY <1>2, <2>4 DEF Front
    <3>2. /\ SubSeq(hits, 1, Len(s)) \in Seq(S \cup {x})
          /\ Len(SubSeq(hits, 1, Len(s))) = Len(s)
          /\ \A i \in 1 .. Len(s) : SubSeq(hits, 1, Len(s))[i] = hits[i]
      BY <1>2, <2>4, SubSeqProperties
    <3>3. s \in Seq(S \cup {x})
      BY <1>1, SeqMonotonic
    <3> QED
      BY <2>4, <3>1, <3>2, <3>3, SeqEqual
  <2>9. Apart(hits)
    <3> SUFFICES ASSUME NEW i \in 1 .. Len(hits), NEW j \in 1 .. Len(hits), i # j
                 PROVE  Id(hits[i]) # Id(hits[j])
      BY <2>4 DEF Apart
    <3>1. CASE i \in 1 .. Len(s) /\ j \in 1 .. Len(s)
      BY <1>2, <2>4, <3>1 DEF Apart
    <3>2. CASE i \in 1 .. Len(s) /\ j = Len(s) + 1
      BY <2>1, <2>2, <2>4, <3>2 DEF Id, s
    <3>3. CASE j \in 1 .. Len(s) /\ i = Len(s) + 1
      BY <2>1, <2>2, <2>4, <3>3 DEF Id, s
    <3> QED
      BY <1>2, <2>4, <3>1, <3>2, <3>3
  <2>10. \A i \in 1 .. Len(s) : s[i].doc # Last(hits).doc
    BY <2>1, <2>2, <2>5 DEF s
  <2> QED
    BY <2>3, <2>7, <2>8, <2>9, <2>10 DEF hits, s
<1> QED
  BY <1>3, <1>4

-----------------------------------------------------------------------------
(* Rankings of a set of passages.                                          *)

(* A ranking holds all there is to rank, each once.                        *)
LEMMA RankingOf ==
  ASSUME NEW S, IsFiniteSet(S), NEW s \in SetToSeqs(S)
  PROVE  /\ s \in Seq(S)
         /\ \A i, j \in 1 .. Len(s) : i # j => s[i] # s[j]
         /\ \A x \in S : \E i \in 1 .. Len(s) : s[i] = x
<1> DEFINE n == Cardinality(S)
<1>1. n \in Nat
  BY FS_CardinalityType
<1>2. s \in [1 .. n -> S] /\ \A i, j \in 1 .. n : i # j => s[i] # s[j]
  BY DEF SetToSeqs
<1>3. IsFiniteSet(1 .. n) /\ Cardinality(1 .. n) = n
  BY <1>1, FirstNumbers
<1>4. s \in Injection(1 .. n, S)
  BY <1>2 DEF Injection, IsInjective
<1>5. s \in Surjection(1 .. n, S)
  BY <1>3, <1>4, FS_Injection
<1>6. \A x \in S : \E i \in 1 .. n : s[i] = x
  BY <1>5 DEF Surjection
<1> HIDE DEF n
<1>7. s \in Seq(S) /\ Len(s) = n
  BY <1>1, <1>2
<1> QED
  BY <1>2, <1>6, <1>7

(* Passages that are told apart are apart in their ranking.                *)
LEMMA RankingApart ==
  ASSUME NEW S, IsFiniteSet(S), \A b, c \in S : Id(b) = Id(c) => b = c, NEW s \in SetToSeqs(S)
  PROVE  Apart(s)
<1>1. s \in Seq(S) /\ \A i, j \in 1 .. Len(s) : i # j => s[i] # s[j]
  BY RankingOf
<1>2. DOMAIN s = 1 .. Len(s) /\ \A i \in 1 .. Len(s) : s[i] \in S
  BY <1>1, ElementOfSeq
<1> QED
  BY <1>1, <1>2 DEF Apart

(* A list whose elements are apart is no longer than what it is of.        *)
LEMMA ApartCount ==
  ASSUME NEW S, IsFiniteSet(S), NEW s \in Seq(S), Apart(s)
  PROVE  Len(s) <= Cardinality(S)
<1>1. Len(s) \in Nat /\ DOMAIN s = 1 .. Len(s) /\ s \in [1 .. Len(s) -> S]
  BY LenProperties
<1>2. \A i, j \in 1 .. Len(s) : s[i] = s[j] => i = j
  BY <1>1 DEF Apart
<1>3. s \in Injection(1 .. Len(s), S)
  BY <1>1, <1>2 DEF Injection, IsInjective
<1>4. Cardinality(1 .. Len(s)) <= Cardinality(S)
  BY <1>3, FS_Injection
<1> QED
  BY <1>1, <1>4, FirstNumbers
=============================================================================
