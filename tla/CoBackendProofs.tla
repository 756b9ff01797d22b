--------------------------- MODULE CoBackendProofs ---------------------------
(***************************************************************************)
(* Proofs about the choice of an upstream server: for any number of        *)
(* servers and any weights, however long it runs.                          *)
(***************************************************************************)
EXTENDS CoBackendProperties, FiniteSetTheorems, WellFoundedInduction, TLAPS

-----------------------------------------------------------------------------
(* Induction up to n, over a set: every non-empty set of natural numbers   *)
(* has a least element.                                                    *)
LEMMA Induct ==
    ASSUME NEW n \in Nat, NEW P, 0 \in P,
           \A i \in 0 .. n - 1 : i \in P => i + 1 \in P
    PROVE  n \in P
<1> DEFINE R == {s \in Nat \X Nat : s[1] < s[2]}
           T == {i \in 0 .. n : i \notin P}
<1>1. SUFFICES ASSUME T # {} PROVE FALSE
  OBVIOUS
<1>2. IsWellFoundedOn(R, Nat)
  BY NatLessThanWellFounded DEF OpToRel
<1>3. T \subseteq Nat
  OBVIOUS
<1>4. PICK i \in T : \A j \in T : ~ (<<j, i>> \in R)
  <2> HIDE DEF R, T
  <2> QED BY <1>1, <1>2, <1>3, WFMin
<1>5. i \in 0 .. n /\ i \notin P /\ i # 0
  OBVIOUS
<1>6. i - 1 \in 0 .. n - 1 /\ i - 1 \notin P
  BY <1>5
<1>7. <<i - 1, i>> \in Nat \X Nat /\ i - 1 < i
  BY <1>5, <1>6
<1>8. <<i - 1, i>> \in R
  BY <1>7
<1> QED BY <1>4, <1>6, <1>8

-----------------------------------------------------------------------------
(* The running sum: it exists, and is an integer at every server.          *)
Term(f, S, i) == IF i \in S THEN f[i] ELSE 0
Grows(n, f, S, u) ==
    /\ u \in [0 .. n -> Int] /\ u[0] = 0
    /\ \A i \in 1 .. n : u[i] = u[i - 1] + Term(f, S, i)

(* A table of n integers, and its running sum.                             *)
Vector(n, f) == n \in Nat /\ f \in [1 .. n -> Int]
Runs(n, f, S, u) == Vector(n, f) /\ Grows(n, f, S, u)

LEMMA RunningExists ==
    ASSUME NEW n \in Nat, NEW f \in [1 .. n -> Int], NEW S
    PROVE  \E u : Grows(n, f, S, u)
<1> DEFINE P == {k \in Nat : k <= n => \E u : Grows(k, f, S, u)}
<1>1. 0 \in P
  <2>1. Grows(0, f, S, [i \in 0 .. 0 |-> 0])
    BY DEF Grows
  <2> QED BY <2>1
<1>2. ASSUME NEW k \in 0 .. n - 1, k \in P PROVE k + 1 \in P
  <2>1. PICK u : Grows(k, f, S, u)
    BY <1>2
  <2> DEFINE v == [i \in 0 .. k + 1 |-> IF i <= k THEN u[i]
                     ELSE u[k] + Term(f, S, k + 1)]
  <2>2. Term(f, S, k + 1) \in Int /\ u[k] \in Int
    BY <2>1 DEF Grows, Term
  <2>3. v \in [0 .. k + 1 -> Int] /\ v[0] = 0
    BY <2>1, <2>2 DEF Grows
  <2>4. ASSUME NEW i \in 1 .. k + 1
        PROVE  v[i] = v[i - 1] + Term(f, S, i)
    <3>1. CASE i <= k
      BY <2>1, <3>1 DEF Grows
    <3>2. CASE i = k + 1
      BY <3>2
    <3> QED BY <3>1, <3>2
  <2>5. Grows(k + 1, f, S, v)
    BY <2>3, <2>4 DEF Grows
  <2> QED BY <2>5
<1>3. n \in P
  <2> HIDE DEF P
  <2> QED BY <1>1, <1>2, Induct
<1> QED BY <1>3

LEMMA RunningRuns ==
    ASSUME NEW n \in Nat, NEW f \in [1 .. n -> Int], NEW S
    PROVE  Runs(n, f, S, Running(n, f, S))
<1> DEFINE Body(u) == [i \in 0 .. n |-> IF i = 0 THEN 0
                         ELSE u[i - 1] + Term(f, S, i)]
<1>1. PICK u : Grows(n, f, S, u)
  BY RunningExists
<1>2. u = Body(u)
  BY <1>1 DEF Grows
<1> DEFINE r == Running(n, f, S)
<1>3. r = Body(r)
  BY <1>2 DEF Running, Term
<1>4. \A i \in 0 .. n : r[i] = u[i]
  <2> DEFINE P == {k \in 0 .. n : r[k] = u[k]}
  <2> HIDE DEF r
  <2>1. 0 \in P
    BY <1>1, <1>3 DEF Grows
  <2>2. ASSUME NEW k \in 0 .. n - 1, k \in P PROVE k + 1 \in P
    BY <1>1, <1>3, <2>2 DEF Grows
  <2>3. ASSUME NEW i \in 0 .. n PROVE i \in P
    <3>1. \A k \in 0 .. i - 1 : k \in P => k + 1 \in P
      BY <2>2
    <3> HIDE DEF P
    <3> QED BY <2>1, <3>1, Induct
  <2> QED BY <2>3
<1> QED
  <2> HIDE DEF r
  <2>1. r = [i \in 0 .. n |-> r[i]]
    BY <1>3
  <2>2. r = u
    BY <1>1, <1>4, <2>1 DEF Grows
  <2> QED BY <1>1, <2>2 DEF r, Runs, Vector

-----------------------------------------------------------------------------
(* Facts of sums, each by induction over the servers.                      *)
SumTo(n, f, S) == Running(n, f, S)[n]

LEMMA TermIs ==
    ASSUME NEW n \in Nat, NEW f \in [1 .. n -> Int], NEW S, NEW i \in 1 .. n
    PROVE  /\ Term(f, S, i) \in Int
           /\ i \in S => Term(f, S, i) = f[i]
           /\ i \notin S => Term(f, S, i) = 0
BY DEF Term

LEMMA RunStep ==
    ASSUME NEW n, NEW f, NEW S, NEW u, Runs(n, f, S, u), NEW k \in 0 .. n - 1
    PROVE  /\ u[k + 1] = u[k] + Term(f, S, k + 1)
           /\ u[k] \in Int /\ Term(f, S, k + 1) \in Int
<1>1. n \in Nat /\ f \in [1 .. n -> Int] /\ Grows(n, f, S, u)
  BY DEF Runs, Grows, Vector
<1>2. k + 1 \in 1 .. n /\ k \in 0 .. n /\ (k + 1) - 1 = k
  BY <1>1
<1>3. Term(f, S, k + 1) \in Int
  BY <1>1, <1>2, TermIs
<1> QED BY <1>1, <1>2, <1>3 DEF Grows

LEMMA SumType ==
    ASSUME NEW n \in Nat, NEW f \in [1 .. n -> Int], NEW S PROVE SumTo(n, f, S) \in Int
BY RunningRuns DEF Runs, Grows, SumTo

(* A linear combination of sums is the sum of the combination: the one     *)
(* induction that the equations between sums need.                         *)
Adds(n, h, R, f, S, g, T) ==
    \A i \in 1 .. n : Term(h, R, i) = Term(f, S, i) + Term(g, T, i)

LEMMA SumAdd ==
    ASSUME NEW n, NEW f, NEW g, NEW h, Vector(n, f), Vector(n, g), Vector(n, h),
           NEW R, NEW S, NEW T, Adds(n, h, R, f, S, g, T)
    PROVE  SumTo(n, h, R) = SumTo(n, f, S) + SumTo(n, g, T)
<1> DEFINE u == Running(n, h, R)  v == Running(n, f, S)  w == Running(n, g, T)
           P == {k \in 0 .. n : u[k] = v[k] + w[k]}
<1>0. n \in Nat
  BY DEF Vector
<1>1. Runs(n, h, R, u) /\ Runs(n, f, S, v) /\ Runs(n, g, T, w)
  <2>1. Runs(n, h, R, u)
    BY RunningRuns DEF Vector
  <2>2. Runs(n, f, S, v)
    BY RunningRuns DEF Vector
  <2>3. Runs(n, g, T, w)
    BY RunningRuns DEF Vector
  <2> QED BY <2>1, <2>2, <2>3
<1> HIDE DEF u, v, w
<1>2. 0 \in P
  BY <1>0, <1>1 DEF Runs, Grows
<1>3. ASSUME NEW k \in 0 .. n - 1, k \in P PROVE k + 1 \in P
  <2>1. u[k + 1] = u[k] + Term(h, R, k + 1)
    BY <1>1, RunStep
  <2>2. v[k + 1] = v[k] + Term(f, S, k + 1) /\ v[k] \in Int /\ Term(f, S, k + 1) \in Int
    BY <1>1, RunStep
  <2>3. w[k + 1] = w[k] + Term(g, T, k + 1) /\ w[k] \in Int /\ Term(g, T, k + 1) \in Int
    BY <1>1, RunStep
  <2>4. Term(h, R, k + 1) = Term(f, S, k + 1) + Term(g, T, k + 1) /\ k + 1 \in 0 .. n
    BY <1>0 DEF Adds
  <2> QED BY <1>3, <2>1, <2>2, <2>3, <2>4
<1>4. n \in P
  <2> HIDE DEF P
  <2> QED BY <1>0, <1>2, <1>3, Induct
<1> QED BY <1>4 DEF SumTo, u, v, w

(* A sum is at most the bound of its terms times their number.             *)
LEMMA SumBound ==
    ASSUME NEW n, NEW f, Vector(n, f), NEW S \in SUBSET (1 .. n),
           NEW most \in Int, \A i \in S : f[i] <= most
    PROVE  SumTo(n, f, S) <= most * Cardinality(S)
<1> DEFINE u == Running(n, f, S)
           card(k) == Cardinality(S \cap (1 .. k))
           P == {k \in 0 .. n : u[k] <= most * card(k)}
<1>0. n \in Nat /\ f \in [1 .. n -> Int]
  BY DEF Vector
<1> USE <1>0
<1>1. Runs(n, f, S, u)
  BY RunningRuns
<1> HIDE DEF u
<1>2. 0 \in P
  <2>1. S \cap (1 .. 0) = {}
    OBVIOUS
  <2>2. card(0) = 0
    BY <2>1, FS_EmptySet
  <2> QED BY <1>1, <2>2 DEF Runs, Grows
<1>3. ASSUME NEW k \in 0 .. n - 1, k \in P PROVE k + 1 \in P
  <2>1. /\ u[k + 1] = u[k] + Term(f, S, k + 1) /\ u[k] \in Int
        /\ k + 1 \in 1 .. n
    BY <1>1, RunStep
  <2>2. IsFiniteSet(S \cap (1 .. k))
    BY FS_Interval, FS_Subset
  <2>3. card(k) \in Nat
    BY <2>2, FS_CardinalityType
  <2>4. CASE k + 1 \in S
    <3>1. S \cap (1 .. k + 1) = (S \cap (1 .. k)) \cup {k + 1} /\ k + 1 \notin S \cap (1 .. k)
      BY <2>4
    <3>2. card(k + 1) = card(k) + 1
      BY <2>2, <3>1, FS_AddElement
    <3>3. u[k + 1] <= most * card(k) + most
      <4> HIDE DEF card
      <4>1. most * card(k) \in Int /\ u[k] <= most * card(k)
        BY <1>3, <2>3
      <4>2. Term(f, S, k + 1) \in Int /\ Term(f, S, k + 1) <= most
        BY <2>1, <2>4, TermIs
      <4> QED BY <2>1, <4>1, <4>2
    <3>4. most * (card(k) + 1) = most * card(k) + most
      BY <2>3
    <3> HIDE DEF card
    <3> QED BY <3>2, <3>3, <3>4
  <2>5. CASE k + 1 \notin S
    <3>1. S \cap (1 .. k + 1) = S \cap (1 .. k)
      BY <2>5
    <3>2. card(k + 1) = card(k)
      BY <3>1
    <3>3. u[k + 1] = u[k]
      <4>1. Term(f, S, k + 1) = 0
        BY <2>1, <2>5, TermIs
      <4> QED BY <2>1, <4>1
    <3> HIDE DEF card
    <3> QED BY <1>3, <3>2, <3>3
  <2> QED BY <2>4, <2>5
<1>4. n \in P
  <2> HIDE DEF P
  <2> QED BY <1>2, <1>3, Induct
<1>5. S \cap (1 .. n) = S
  OBVIOUS
<1> QED BY <1>4, <1>5 DEF SumTo, u

(* What follows without another induction.                                 *)
LEMMA SumZero ==
    ASSUME NEW n \in Nat, NEW f \in [1 .. n -> Int], NEW S, \A i \in S : f[i] = 0
    PROVE  SumTo(n, f, S) = 0
<1>1. ASSUME NEW i \in 1 .. n PROVE Term(f, S, i) = 0
  BY TermIs
<1>2. Adds(n, f, S, f, S, f, S)
  BY <1>1 DEF Adds
<1>3. SumTo(n, f, S) = SumTo(n, f, S) + SumTo(n, f, S)
  <2>1. Vector(n, f)
    BY DEF Vector
  <2> QED BY <1>2, <2>1, SumAdd
<1> QED BY <1>3, SumType

LEMMA SumUnion ==
    ASSUME NEW n \in Nat, NEW f \in [1 .. n -> Int], NEW S, NEW T, S \cap T = {}
    PROVE  SumTo(n, f, S \cup T) = SumTo(n, f, S) + SumTo(n, f, T)
<1>1. ASSUME NEW i \in 1 .. n
      PROVE  Term(f, S \cup T, i) = Term(f, S, i) + Term(f, T, i)
  <2>1. f[i] \in Int
    OBVIOUS
  <2>2. CASE i \in S
    BY <2>1, <2>2, TermIs
  <2>3. CASE i \in T
    BY <2>1, <2>3, TermIs
  <2>4. CASE i \notin S \cup T
    BY <2>4, TermIs
  <2> QED BY <2>2, <2>3, <2>4
<1>2. Adds(n, f, S \cup T, f, S, f, T)
  BY <1>1 DEF Adds
<1>3. Vector(n, f)
  BY DEF Vector
<1> QED BY <1>2, <1>3, SumAdd

LEMMA SumOne ==
    ASSUME NEW n \in Nat, NEW f \in [1 .. n -> Int], NEW b \in 1 .. n
    PROVE  SumTo(n, f, {b}) = f[b]
<1> DEFINE u == Running(n, f, {b})
           P == {k \in 0 .. n : u[k] = IF b <= k THEN f[b] ELSE 0}
<1>1. Runs(n, f, {b}, u)
  BY RunningRuns
<1> HIDE DEF u
<1>2. 0 \in P
  BY <1>1 DEF Runs, Grows
<1>3. ASSUME NEW k \in 0 .. n - 1, k \in P PROVE k + 1 \in P
  <2>1. /\ u[k + 1] = u[k] + Term(f, {b}, k + 1)
        /\ u[k] \in Int /\ f[b] \in Int /\ k + 1 \in 1 .. n
    BY <1>1, RunStep
  <2>2. CASE k + 1 = b
    <3>1. Term(f, {b}, k + 1) = f[b]
      BY <2>1, <2>2, TermIs
    <3> QED BY <1>3, <2>1, <2>2, <3>1
  <2>3. CASE k + 1 # b
    <3>1. Term(f, {b}, k + 1) = 0
      BY <2>1, <2>3, TermIs
    <3> QED BY <1>3, <2>1, <2>3, <3>1
  <2> QED BY <2>2, <2>3
<1>4. n \in P
  <2> HIDE DEF P
  <2> QED BY <1>2, <1>3, Induct
<1> QED BY <1>4 DEF SumTo, u

-----------------------------------------------------------------------------
(* The arithmetic of a choice that would bring the servers of a set A too  *)
(* far ahead: a = |A|, k of them are up, x is the sum of their current     *)
(* weights, ck and wk are the sums over the k, and cm, wm are those of the *)
(* chosen server, outside A.                                               *)
LEMMA TooFarAhead ==
    ASSUME NEW n \in Int, NEW a \in Int, NEW k \in Int, NEW most \in Int, NEW x \in Int,
           NEW ck \in Int, NEW wk \in Int, NEW cm \in Int, NEW wm \in Int,
           1 <= k, wk <= most * k, wm <= most,
           x + wk > most * (a * (n - a)),
           x + cm <= most * ((a + 1) * (n - (a + 1))),
           x - ck <= most * ((a - k) * (n - (a - k))),
           ck + wk <= (cm + wm) * k
    PROVE  FALSE
<1> DEFINE p == most * (a * (n - a))
           q == most * (n - 2 * a + k)
<1>1. p \in Int /\ q \in Int /\ q * k \in Int
  OBVIOUS
<1>2. most * ((a + 1) * (n - (a + 1))) = p + q - most * k - most
  OBVIOUS
<1>3. most * ((a - k) * (n - (a - k))) = p - q * k
  OBVIOUS
<1>4. most * k \in Int
  OBVIOUS
<1> HIDE DEF p, q
<1>5. cm + wm <= q - 1
  BY <1>1, <1>2, <1>4 DEF p
<1>6. ck + wk > q * k
  BY <1>1, <1>3 DEF p
<1>7. ASSUME NEW y \in Int, NEW z \in Int, y <= z PROVE y * k <= z * k
  BY <1>7
<1>8. (cm + wm) * k <= (q - 1) * k
  BY <1>1, <1>5, <1>7
<1>9. (q - 1) * k = q * k - k
  BY <1>1
<1> QED BY <1>1, <1>6, <1>8, <1>9

LEMMA Cards ==
    ASSUME NEW n \in Nat, NEW A \in SUBSET (1 .. n)
    PROVE  IsFiniteSet(A) /\ Cardinality(A) \in Nat /\ Cardinality(1 .. n) = n
<1>1. IsFiniteSet(1 .. n) /\ Cardinality(1 .. n) = n
  BY FS_Interval
<1>2. IsFiniteSet(A)
  BY <1>1, FS_Subset
<1> QED BY <1>1, <1>2, FS_CardinalityType

LEMMA CardRest ==
    ASSUME NEW n \in Nat, NEW A \in SUBSET (1 .. n), NEW K \in SUBSET A
    PROVE  /\ Cardinality(A \ K) = Cardinality(A) - Cardinality(K)
           /\ K # {} => Cardinality(K) >= 1
<1>1. A = (A \ K) \cup K /\ (A \ K) \cap K = {}
  OBVIOUS
<1>2. /\ IsFiniteSet(A \ K) /\ IsFiniteSet(K)
      /\ Cardinality(A \ K) \in Nat /\ Cardinality(K) \in Nat
  BY Cards
<1>3. Cardinality(A) = Cardinality(A \ K) + Cardinality(K) - Cardinality((A \ K) \cap K)
  BY <1>1, <1>2, FS_Union
<1>4. Cardinality((A \ K) \cap K) = 0
  BY <1>1, FS_EmptySet
<1>5. K # {} => Cardinality(K) # 0
  BY <1>2, FS_EmptySet
<1> QED BY <1>2, <1>3, <1>4, <1>5

LEMMA SumRest ==
    ASSUME NEW n \in Nat, NEW f \in [1 .. n -> Int],
           NEW S \in SUBSET (1 .. n), NEW T \in SUBSET S
    PROVE  SumTo(n, f, S) = SumTo(n, f, S \ T) + SumTo(n, f, T)
<1>1. /\ S = (S \ T) \cup T /\ (S \ T) \cap T = {}
      /\ S \ T \in SUBSET (1 .. n) /\ T \in SUBSET (1 .. n)
  OBVIOUS
<1>2. SumTo(n, f, (S \ T) \cup T) = SumTo(n, f, S \ T) + SumTo(n, f, T)
  BY <1>1, SumUnion
<1> QED BY <1>1, <1>2

LEMMA SumWith ==
    ASSUME NEW n \in Nat, NEW f \in [1 .. n -> Int], NEW S, NEW b \in 1 .. n, b \notin S
    PROVE  SumTo(n, f, S \cup {b}) = SumTo(n, f, S) + f[b]
<1>1. S \cap {b} = {}
  OBVIOUS
<1>2. SumTo(n, f, S \cup {b}) = SumTo(n, f, S) + SumTo(n, f, {b})
  BY <1>1, SumUnion
<1> QED BY <1>2, SumOne

LEMMA SumPlus ==
    ASSUME NEW n \in Nat, NEW f \in [1 .. n -> Int], NEW g \in [1 .. n -> Int], NEW S
    PROVE  SumTo(n, [i \in 1 .. n |-> f[i] + g[i]], S) = SumTo(n, f, S) + SumTo(n, g, S)
<1> DEFINE h == [i \in 1 .. n |-> f[i] + g[i]]
<1>1. h \in [1 .. n -> Int] /\ \A i \in 1 .. n : h[i] = f[i] + g[i]
  OBVIOUS
<1> HIDE DEF h
<1>2. ASSUME NEW i \in 1 .. n
      PROVE  Term(h, S, i) = Term(f, S, i) + Term(g, S, i)
  <2>1. CASE i \in S
    BY <1>1, <2>1 DEF Term
  <2>2. CASE i \notin S
    BY <2>2 DEF Term
  <2> QED BY <2>1, <2>2
<1>3. Adds(n, h, S, f, S, g, S)
  BY <1>2 DEF Adds
<1>4. SumTo(n, h, S) = SumTo(n, f, S) + SumTo(n, g, S)
  <2>1. Vector(n, f) /\ Vector(n, g) /\ Vector(n, h)
    BY <1>1 DEF Vector
  <2> QED BY <1>3, <2>1, SumAdd
<1> QED BY <1>4 DEF h

LEMMA SumParts ==
    ASSUME NEW n \in Nat, NEW f \in [1 .. n -> Int], \A i \in 1 .. n : 0 <= f[i],
           NEW S \in SUBSET (1 .. n), NEW T \in SUBSET S
    PROVE  SumTo(n, f, T) <= SumTo(n, f, S)
<1> DEFINE z == [i \in 1 .. n |-> -f[i]]
<1>1. z \in [1 .. n -> Int] /\ \A i \in 1 .. n : f[i] \in Int /\ z[i] = -f[i] /\ z[i] <= 0
  OBVIOUS
<1> HIDE DEF z
<1>2. S \ T \in SUBSET (1 .. n) /\ \A i \in S \ T : z[i] <= 0
  BY <1>1
<1>3. SumTo(n, z, S \ T) <= 0 * Cardinality(S \ T)
  <2>1. Vector(n, z)
    BY <1>1 DEF Vector
  <2>2. 0 \in Int
    OBVIOUS
  <2> QED BY <1>2, <2>1, <2>2, SumBound
<1>4. Cardinality(S \ T) \in Nat
  BY <1>2, Cards
<1>5. ASSUME NEW i \in 1 .. n
      PROVE  Term(f, T, i) = Term(f, S, i) + Term(z, S \ T, i)
  <2>1. CASE i \in T
    BY <1>1, <2>1 DEF Term
  <2>2. CASE i \in S \ T
    BY <1>1, <2>2 DEF Term
  <2>3. CASE i \notin S
    BY <2>3 DEF Term
  <2> QED BY <2>1, <2>2, <2>3
<1>6. SumTo(n, f, T) = SumTo(n, f, S) + SumTo(n, z, S \ T)
  <2>1. Adds(n, f, T, f, S, z, S \ T)
    BY <1>5 DEF Adds
  <2>2. Vector(n, f) /\ Vector(n, z)
    BY <1>1 DEF Vector
  <2> QED BY <2>1, <2>2, SumAdd
<1>7. SumTo(n, f, S) \in Int /\ SumTo(n, z, S \ T) \in Int
  BY <1>1, SumType
<1> QED BY <1>3, <1>4, <1>6, <1>7

(* A choice: the servers of up are given their weights w, and m, which     *)
(* then has the largest current weight, pays what they were given.         *)
Choice(n, c, w, up, m, d) ==
    /\ n \in Nat /\ c \in [1 .. n -> Int] /\ w \in [1 .. n -> Int]
    /\ d \in [1 .. n -> Int]
    /\ up \in SUBSET (1 .. n) /\ m \in up
    /\ \A o \in up : c[o] + w[o] <= c[m] + w[m]
    /\ \A b \in 1 .. n : d[b] = c[b] + Term(w, up, b)
                              - (IF b = m THEN SumTo(n, w, up) ELSE 0)

LEMMA SumChosen ==
    ASSUME NEW n, NEW c, NEW w, NEW up, NEW m, NEW d, Choice(n, c, w, up, m, d), NEW A
    PROVE  /\ m \in A => SumTo(n, d, A) = SumTo(n, c, A) + SumTo(n, w, A \cap up)
                                          - SumTo(n, w, up)
           /\ m \notin A => SumTo(n, d, A) = SumTo(n, c, A) + SumTo(n, w, A \cap up)
<1>0. /\ n \in Nat /\ c \in [1 .. n -> Int] /\ w \in [1 .. n -> Int]
      /\ d \in [1 .. n -> Int]
  BY DEF Choice
<1> USE <1>0
<1> DEFINE B == A \cap up
           u == Running(n, d, A)  v == Running(n, c, A)  x == Running(n, w, B)
           paid == IF m \in A THEN SumTo(n, w, up) ELSE 0
           P == {k \in 0 .. n : u[k] = v[k] + x[k] - IF m <= k THEN paid ELSE 0}
<1> HIDE DEF B
<1>1. Runs(n, d, A, u) /\ Runs(n, c, A, v) /\ Runs(n, w, B, x)
  BY RunningRuns
<1>2. paid \in Int /\ m \in 1 .. n
  <2>1. SumTo(n, w, up) \in Int
    BY SumType
  <2> QED BY <2>1 DEF Choice
<1>3. ASSUME NEW b \in 1 .. n
      PROVE  Term(d, A, b) = Term(c, A, b) + Term(w, B, b)
                - (IF b = m THEN paid ELSE 0)
  <2>1. c[b] \in Int /\ w[b] \in Int /\ SumTo(n, w, up) \in Int
    BY SumType
  <2>2. d[b] = c[b] + Term(w, up, b) - (IF b = m THEN SumTo(n, w, up) ELSE 0)
    BY DEF Choice
  <2>3. CASE b \notin A
    BY <2>1, <2>3 DEF Term, B
  <2>4. CASE b \in A
    <3>1. Term(w, up, b) = Term(w, B, b)
      BY <2>4 DEF Term, B
    <3>2. b = m => paid = SumTo(n, w, up)
      BY <2>4
    <3>3. Term(d, A, b) = d[b] /\ Term(c, A, b) = c[b]
      BY <2>4 DEF Term
    <3> QED BY <2>2, <3>1, <3>2, <3>3
  <2> QED BY <2>3, <2>4
<1> HIDE DEF u, v, x, paid
<1>4. 0 \in P
  BY <1>1, <1>2 DEF Runs, Grows
<1>5. ASSUME NEW k \in 0 .. n - 1, k \in P PROVE k + 1 \in P
  <2> DEFINE i == k + 1
             dd == Term(d, A, i)
             cc == Term(c, A, i)
             ww == Term(w, B, i)
  <2>1. /\ u[i] = u[k] + dd /\ v[i] = v[k] + cc /\ x[i] = x[k] + ww
        /\ u[k] \in Int /\ v[k] \in Int /\ x[k] \in Int /\ i \in 1 .. n
    <3>1. u[i] = u[k] + dd /\ u[k] \in Int
      BY <1>1, RunStep
    <3>2. v[i] = v[k] + cc /\ v[k] \in Int
      BY <1>1, RunStep
    <3>3. x[i] = x[k] + ww /\ x[k] \in Int
      BY <1>1, RunStep
    <3> QED BY <3>1, <3>2, <3>3
  <2>2. dd = cc + ww - (IF i = m THEN paid ELSE 0)
    BY <1>3, <2>1
  <2>3. cc \in Int /\ ww \in Int
    BY <2>1, TermIs
  <2>4. u[k] = v[k] + x[k] - IF m <= k THEN paid ELSE 0
    BY <1>5
  <2> HIDE DEF dd, cc, ww
  <2>5. /\ v[k] \in Int /\ x[k] \in Int /\ paid \in Int
        /\ cc \in Int /\ ww \in Int
    BY <1>2, <2>1, <2>3
  <2>6. u[i] = v[i] + x[i] - IF m <= i THEN paid ELSE 0
    <3>1. CASE m = i
      <4>1. i = m /\ ~(m <= k) /\ m <= i
        BY <1>2, <3>1
      <4>2. u[k] = v[k] + x[k] /\ dd = cc + ww - paid
        BY <2>1, <2>2, <2>3, <2>4, <4>1
      <4>3. u[i] = v[i] + x[i] - paid
        <5>1. u[i] = (v[k] + x[k]) + (cc + ww - paid)
          BY <2>1, <4>2
        <5>2. (v[k] + x[k]) + (cc + ww - paid) = (v[k] + cc) + (x[k] + ww) - paid
          BY <2>5
        <5> QED BY <2>1, <5>1, <5>2
      <4> QED BY <4>1, <4>3
    <3>2. CASE m <= k
      <4>1. i # m /\ m <= i
        BY <1>2, <3>2
      <4>2. u[k] = v[k] + x[k] - paid /\ dd = cc + ww
        BY <2>2, <2>3, <2>4, <3>2, <4>1
      <4>3. u[i] = v[i] + x[i] - paid
        <5>1. u[i] = (v[k] + x[k] - paid) + (cc + ww)
          BY <2>1, <4>2
        <5>2. (v[k] + x[k] - paid) + (cc + ww) = (v[k] + cc) + (x[k] + ww) - paid
          BY <2>5
        <5> QED BY <2>1, <5>1, <5>2
      <4> QED BY <4>1, <4>3
    <3>3. CASE m > i
      <4>1. i # m /\ ~(m <= k) /\ ~(m <= i)
        BY <1>2, <3>3
      <4>2. u[k] = v[k] + x[k] /\ dd = cc + ww
        BY <2>1, <2>2, <2>3, <2>4, <4>1
      <4>3. u[i] = v[i] + x[i] - 0
        <5>1. u[i] = (v[k] + x[k]) + (cc + ww)
          BY <2>1, <4>2
        <5>2. (v[k] + x[k]) + (cc + ww) = (v[k] + cc) + (x[k] + ww) - 0
          BY <2>5
        <5> QED BY <2>1, <5>1, <5>2
      <4> QED BY <4>1, <4>3
    <3> QED BY <1>2, <3>1, <3>2, <3>3
  <2> QED BY <2>1, <2>6
<1>6. n \in P
  <2> HIDE DEF P
  <2> QED BY <1>4, <1>5, Induct
<1>7. u[n] = v[n] + x[n] - paid
  <2>1. m <= n
    BY <1>2
  <2> QED BY <1>6, <2>1
<1>8. m \notin A => v[n] + x[n] - paid = v[n] + x[n]
  <2>1. v[n] \in Int /\ x[n] \in Int
    BY <1>1 DEF Runs, Grows
  <2> QED BY <2>1 DEF paid
<1> QED BY <1>7, <1>8 DEF SumTo, u, v, x, paid, B

(* No set of servers is further ahead than the largest weight times the    *)
(* number of pairs of a server in it and a server outside it.  A bound for *)
(* each server alone is not inductive: a choice that leaves one out needs  *)
(* to know that it and those that stayed behind are not ahead together.    *)
Ahead(n, most, c) ==
    \A A \in SUBSET (1 .. n) :
        SumTo(n, c, A) <= most * (Cardinality(A) * (n - Cardinality(A)))

Within(n, w, most) == \A b \in 1 .. n : 0 <= w[b] /\ w[b] <= most

(* The servers of A that are up, if the chosen one is not in A.            *)
LEMMA Others ==
    ASSUME NEW n, NEW c, NEW w, NEW up, NEW m, NEW d, Choice(n, c, w, up, m, d),
           NEW most \in Nat, Within(n, w, most), NEW K \in SUBSET up
    PROVE  /\ SumTo(n, c, K) + SumTo(n, w, K) <= (c[m] + w[m]) * Cardinality(K)
           /\ SumTo(n, w, K) <= most * Cardinality(K)
<1>0. /\ n \in Nat /\ c \in [1 .. n -> Int] /\ w \in [1 .. n -> Int]
      /\ d \in [1 .. n -> Int]
  BY DEF Choice
<1> USE <1>0
<1> DEFINE r == [b \in 1 .. n |-> c[b] + w[b]]
<1>1. K \in SUBSET (1 .. n) /\ m \in 1 .. n
  BY DEF Choice
<1>2. r \in [1 .. n -> Int] /\ \A b \in 1 .. n : r[b] = c[b] + w[b]
  OBVIOUS
<1>3. \A b \in K : r[b] <= c[m] + w[m]
  BY <1>1, <1>2 DEF Choice
<1> HIDE DEF r
<1>4. SumTo(n, r, K) <= (c[m] + w[m]) * Cardinality(K)
  <2>1. c[m] + w[m] \in Int
    BY <1>1
  <2>2. Vector(n, r)
    BY <1>2 DEF Vector
  <2> QED BY <1>1, <1>3, <2>1, <2>2, SumBound
<1>5. SumTo(n, r, K) = SumTo(n, c, K) + SumTo(n, w, K)
  BY SumPlus DEF r
<1>6. SumTo(n, w, K) <= most * Cardinality(K)
  <2>1. most \in Int /\ \A b \in K : w[b] <= most
    BY <1>1 DEF Within
  <2>2. Vector(n, w)
    BY DEF Vector
  <2> QED BY <1>1, <2>1, <2>2, SumBound
<1> QED BY <1>4, <1>5, <1>6

LEMMA Spread ==
    ASSUME NEW n, NEW c, NEW w, NEW up, NEW m, NEW d, Choice(n, c, w, up, m, d),
           NEW most \in Nat, Within(n, w, most), Ahead(n, most, c)
    PROVE  Ahead(n, most, d) /\ SumTo(n, d, 1 .. n) = SumTo(n, c, 1 .. n)
<1>0. /\ n \in Nat /\ c \in [1 .. n -> Int] /\ w \in [1 .. n -> Int]
      /\ d \in [1 .. n -> Int]
  BY DEF Choice
<1> USE <1>0
<1>1. /\ m \in 1 .. n /\ m \in up /\ up \in SUBSET (1 .. n) /\ SumTo(n, w, up) \in Int
      /\ c[m] \in Int /\ w[m] \in Int /\ w[m] <= most
  <2>1. SumTo(n, w, up) \in Int
    BY SumType
  <2> QED BY <2>1 DEF Choice, Within
<1>2. ASSUME NEW A \in SUBSET (1 .. n)
      PROVE  /\ m \in A => SumTo(n, d, A) = SumTo(n, c, A) + SumTo(n, w, A \cap up)
                                            - SumTo(n, w, up)
             /\ m \notin A => SumTo(n, d, A) = SumTo(n, c, A) + SumTo(n, w, A \cap up)
  BY SumChosen
<1>3. SumTo(n, d, 1 .. n) = SumTo(n, c, 1 .. n)
  <2>1. (1 .. n) \cap up = up
    BY <1>1
  <2>2. SumTo(n, d, 1 .. n) = SumTo(n, c, 1 .. n) + SumTo(n, w, up) - SumTo(n, w, up)
    BY <1>1, <1>2, <2>1
  <2>3. SumTo(n, c, 1 .. n) \in Int
    BY SumType
  <2> QED BY <1>1, <2>2, <2>3
<1>4. ASSUME NEW A \in SUBSET (1 .. n)
      PROVE  SumTo(n, d, A) <= most * (Cardinality(A) * (n - Cardinality(A)))
  <2> DEFINE a == Cardinality(A)
             x == SumTo(n, c, A)
             K == A \cap up
             k == Cardinality(K)
             wk == SumTo(n, w, K)
             ck == SumTo(n, c, K)
  <2>1. /\ K \in SUBSET (1 .. n) /\ K \in SUBSET up /\ IsFiniteSet(A) /\ IsFiniteSet(K)
        /\ a \in Nat /\ k \in Nat
    BY Cards
  <2>2. x \in Int /\ wk \in Int /\ ck \in Int
    BY <2>1, SumType
  <2>3. x <= most * (a * (n - a))
    BY DEF Ahead
  <2>4. CASE m \in A
    <3>1. SumTo(n, d, A) = x + wk - SumTo(n, w, up)
      BY <1>2, <2>4
    <3>2. wk <= SumTo(n, w, up)
      BY <1>1, <2>1, SumParts DEF Within
    <3>3. most * (a * (n - a)) \in Int
      BY <2>1
    <3> HIDE DEF a, x, wk, K
    <3> QED BY <1>1, <2>2, <2>3, <3>1, <3>2, <3>3 DEF a
  <2>5. CASE m \notin A
    <3>1. SumTo(n, d, A) = x + wk
      BY <1>2, <2>5
    <3>2. CASE K = {}
      <4>1. wk = 0
        BY <2>1, <3>2, SumZero
      <4> QED BY <2>2, <2>3, <3>1, <4>1
    <3>3. CASE K # {}
      <4>1. 1 <= k
        BY <3>3, CardRest
      <4>2. ck + wk <= (c[m] + w[m]) * k /\ wk <= most * k
        BY <2>1, Others
      <4>3. x + c[m] <= most * ((a + 1) * (n - (a + 1)))
        <5>1. A \cup {m} \in SUBSET (1 .. n) /\ A \cap {m} = {} /\ {m} \in SUBSET (1 .. n)
          BY <1>1, <2>5
        <5>2. SumTo(n, c, A \cup {m}) = SumTo(n, c, A) + c[m]
          <6>1. \A b \in 1 .. n :
                   b \notin A => SumTo(n, c, A \cup {b}) = SumTo(n, c, A) + c[b]
            BY SumWith
          <6> QED BY <1>1, <2>5, <6>1
        <5>4. Cardinality(A \cup {m}) = a + 1
          BY <2>1, <2>5, FS_AddElement
        <5> QED BY <5>1, <5>2, <5>4 DEF Ahead
      <4>4. x - ck <= most * ((a - k) * (n - (a - k)))
        <5>1. A \ K \in SUBSET (1 .. n) /\ K \in SUBSET A
          OBVIOUS
        <5>2. x = SumTo(n, c, A \ K) + ck
          BY <5>1, SumRest
        <5>3. Cardinality(A \ K) = a - k
          BY <5>1, CardRest
        <5>4. SumTo(n, c, A \ K) <= most * ((a - k) * (n - (a - k)))
          BY <5>1, <5>3 DEF Ahead
        <5>5. SumTo(n, c, A \ K) \in Int
          BY SumType
        <5> HIDE DEF x, ck, a, k, K
        <5>6. x - ck = SumTo(n, c, A \ K)
          BY <2>2, <5>2, <5>5
        <5> QED BY <5>4, <5>6
      <4>5. most * (a * (n - a)) \in Int
        BY <2>1
      <4> HIDE DEF a, k, x, ck, wk, K
      <4>6. SUFFICES ASSUME x + wk > most * (a * (n - a)) PROVE FALSE
        BY <2>2, <3>1, <4>5 DEF a
      <4>7. n \in Int /\ most \in Int /\ a \in Int /\ k \in Int
        BY <2>1
      <4> QED BY <1>1, <2>2, <4>1, <4>2, <4>3, <4>4, <4>6, <4>7, TooFarAhead
    <3> QED BY <3>2, <3>3
  <2> QED BY <2>4, <2>5
<1> QED BY <1>3, <1>4 DEF Ahead

-----------------------------------------------------------------------------
(* A largest value exists, and the first server that has it.               *)
Tops(f, S, b) == b \in S /\ Leads(f, S, b)

LEMMA TopExists ==
    ASSUME NEW n \in Nat, NEW f \in [1 .. n -> Int], NEW S \in SUBSET (1 .. n), S # {}
    PROVE  \E b \in S : Tops(f, S, b)
<1> DEFINE P == {k \in 0 .. n : S \cap (1 .. k) # {} => \E b : Tops(f, S \cap (1 .. k), b)}
<1>1. 0 \in P
  OBVIOUS
<1>2. ASSUME NEW k \in 0 .. n - 1, k \in P PROVE k + 1 \in P
  <2>1. k + 1 \in 1 .. n /\ k + 1 \in 0 .. n
    OBVIOUS
  <2>2. CASE k + 1 \notin S
    <3>1. S \cap (1 .. k + 1) = S \cap (1 .. k)
      BY <2>2
    <3> QED BY <1>2, <2>1, <3>1
  <2>3. CASE k + 1 \in S
    <3>1. S \cap (1 .. k + 1) = (S \cap (1 .. k)) \cup {k + 1}
      BY <2>3
    <3>2. CASE S \cap (1 .. k) = {}
      <4>1. Tops(f, S \cap (1 .. k + 1), k + 1)
        BY <2>1, <3>1, <3>2 DEF Tops, Leads
      <4> QED BY <2>1, <4>1
    <3>3. CASE S \cap (1 .. k) # {}
      <4>1. PICK b : Tops(f, S \cap (1 .. k), b)
        BY <1>2, <3>3
      <4>2. b \in 1 .. k /\ f[b] \in Int /\ f[k + 1] \in Int
        BY <2>1, <4>1 DEF Tops, Leads
      <4>3. CASE f[k + 1] > f[b]
        <5>0. \A o \in S \cap (1 .. k) : f[o] \in Int /\ f[o] <= f[b]
          BY <4>1, <4>2 DEF Tops, Leads
        <5>1. Tops(f, S \cap (1 .. k + 1), k + 1)
          <6>1. \A o \in S \cap (1 .. k) : f[o] < f[k + 1]
            BY <4>2, <4>3, <5>0
          <6>2. k + 1 >= k + 1 /\ f[k + 1] = f[k + 1]
            BY <2>1
          <6>3. ASSUME NEW o \in S \cap (1 .. k + 1)
                PROVE  o = k + 1 \/ o \in S \cap (1 .. k)
            BY <3>1
          <6>4. ASSUME NEW o \in S \cap (1 .. k + 1)
                PROVE  f[o] < f[k + 1] \/ (f[o] = f[k + 1] /\ o >= k + 1)
            <7>1. CASE o = k + 1
              BY <6>2, <7>1
            <7>2. CASE o \in S \cap (1 .. k)
              BY <6>1, <7>2
            <7> QED BY <6>3, <7>1, <7>2
          <6>5. k + 1 \in S \cap (1 .. k + 1)
            BY <2>1, <2>3
          <6> QED BY <6>4, <6>5 DEF Tops, Leads
        <5> QED BY <2>1, <5>1
      <4>4. CASE f[k + 1] <= f[b]
        <5>1. Tops(f, S \cap (1 .. k + 1), b)
          BY <2>1, <3>1, <4>1, <4>2, <4>4 DEF Tops, Leads
        <5> QED BY <2>1, <5>1
      <4> HIDE DEF P
      <4> QED BY <4>2, <4>3, <4>4
    <3> QED BY <3>2, <3>3
  <2> QED BY <2>2, <2>3
<1>3. n \in P
  <2> HIDE DEF P
  <2> QED BY <1>1, <1>2, Induct
<1>4. S \cap (1 .. n) = S
  OBVIOUS
<1> QED BY <1>3, <1>4 DEF Tops, Leads

LEMMA BestTops ==
    ASSUME NEW n \in Nat, NEW f \in [1 .. n -> Int], NEW S \in SUBSET (1 .. n), S # {}
    PROVE  Best(f, S) \in S /\ \A o \in S : f[o] <= f[Best(f, S)]
<1>1. PICK b \in S : Tops(f, S, b)
  BY TopExists
<1> DEFINE m == Best(f, S)
<1>2. m \in S /\ Leads(f, S, m)
  BY <1>1 DEF Best, Tops
<1> HIDE DEF m
<1>3. f[m] \in Int /\ \A o \in S : f[o] \in Int
  BY <1>2
<1>4. \A o \in S : f[o] <= f[m]
  BY <1>2, <1>3 DEF Leads
<1> QED BY <1>2, <1>4 DEF m

-----------------------------------------------------------------------------
(* The inductive invariant.                                                *)
Count == Cardinality(Server)
Configured == \E n \in 1 .. MaxServers : conf \in [1 .. n -> 1 .. MaxWeight]

(* m_weight is 0: no error lowers an effective weight, no choice raises it.*)
Kept == effective = conf

(* What was added is what was taken, and no set of servers runs ahead.     *)
Balanced == Sum(current, Server) = 0 /\ Ahead(Count, Heaviest, current)

(* Every choice takes back the servers whose rest is over, so the age of a *)
(* rest never comes near the range of the cast.                            *)
Asked == \A b \in Server : fail[b] => FailCheck /\ down[b] < FailTime + quiet

IInv == Configured /\ TypeOK /\ Kept /\ Balanced /\ Asked

LEMMA ServerIs ==
    ASSUME Configured
    PROVE  /\ Count \in Nat /\ Count >= 1 /\ Count <= MaxServers /\ Server = 1 .. Count
           /\ conf \in [1 .. Count -> 1 .. MaxWeight] /\ conf \in [1 .. Count -> Int]
<1>1. PICK n \in 1 .. MaxServers : conf \in [1 .. n -> 1 .. MaxWeight]
  BY DEF Configured
<1>2. MaxServers \in Nat /\ MaxWeight \in Nat
  BY BackendAssumption
<1>3. n \in Nat /\ Server = 1 .. n
  BY <1>1, <1>2 DEF Server
<1>4. Count = n
  BY <1>3, Cards DEF Count
<1> QED BY <1>1, <1>2, <1>3, <1>4

LEMMA HeaviestIs ==
    ASSUME Configured
    PROVE  Heaviest \in Nat /\ \A b \in Server : conf[b] <= Heaviest
<1>1. /\ Count \in Nat /\ Count >= 1 /\ Server = 1 .. Count /\ MaxWeight \in Nat
      /\ conf \in [1 .. Count -> 1 .. MaxWeight] /\ conf \in [1 .. Count -> Int]
  BY ServerIs, BackendAssumption
<1>2. Server \in SUBSET (1 .. Count) /\ Server # {}
  BY <1>1
<1>3. PICK b \in Server : Tops(conf, Server, b)
  BY <1>1, <1>2, TopExists
<1>4. \A o \in Server : conf[o] \in Nat
  BY <1>1
<1>5. \A o \in Server : conf[o] <= conf[b]
  BY <1>3, <1>4 DEF Tops, Leads
<1> DEFINE Most(m) == \A o \in Server : conf[o] <= conf[m]
           h == CHOOSE m \in Server : Most(m)
<1>6. Heaviest = conf[h]
  BY DEF Heaviest
<1>7. h \in Server /\ Most(h)
  <2>1. \E m \in Server : Most(m)
    BY <1>5
  <2> HIDE DEF Most
  <2> QED BY <2>1
<1> HIDE DEF h
<1> QED BY <1>4, <1>6, <1>7

(* m_weight is 0 for every server, so one server only is not weighted.     *)
LEMMA WeightedIs ==
    ASSUME Configured PROVE Weighted <=> Count # 1
<1>1. Count \in Nat /\ Count >= 1 /\ Server = 1 .. Count
  BY ServerIs
<1>2. BackendWeight \in [1 .. Count -> Int] /\ \A b \in Server : BackendWeight[b] = 0
  BY <1>1 DEF BackendWeight
<1>3. SumTo(Count, BackendWeight, Server) = 0
  BY <1>1, <1>2, SumZero
<1>4. Sum(BackendWeight, Server) = 0
  BY <1>3 DEF Sum, SumTo, Count
<1> QED BY <1>1, <1>4 DEF Weighted, Count

LEMMA InitInv == Init => IInv
<1> SUFFICES ASSUME Init PROVE IInv
  OBVIOUS
<1>1. Configured
  BY DEF Init, Configured
<1>2. /\ Count \in Nat /\ Count >= 1 /\ Server = 1 .. Count
      /\ conf \in [1 .. Count -> 1 .. MaxWeight] /\ MaxWeight \in Nat
  BY <1>1, ServerIs, BackendAssumption
<1>3. TypeOK
  <2>1. effective \in [Server -> Nat] /\ conf \in [Server -> 1 .. MaxWeight]
    BY <1>2 DEF Init
  <2>2. 0 \in Age /\ 0 \in 0 .. MaxQuiet /\ 0 \in 0 .. Count - 1
    BY <1>2, BackendAssumption DEF Age
  <2>3. errFirst \in [Server -> Age] /\ down \in [Server -> Age]
    BY <2>2 DEF Init
  <2>4. /\ current \in [Server -> Int] /\ fail \in [Server -> BOOLEAN]
        /\ errNum \in [Server -> Nat] /\ inFlight \in [Server -> Nat]
    BY DEF Init
  <2>5. /\ index \in 0 .. Cardinality(Server) - 1 /\ chosen \in Server \cup {0}
        /\ quiet \in 0 .. MaxQuiet
    BY <2>2 DEF Init, Count
  <2> QED BY <2>1, <2>3, <2>4, <2>5 DEF TypeOK
<1>4. Balanced
  <2>1. current \in [1 .. Count -> Int] /\ \A b \in 1 .. Count : current[b] = 0
    BY <1>2 DEF Init
  <2>2. ASSUME NEW A \in SUBSET (1 .. Count) PROVE SumTo(Count, current, A) = 0
    <3>1. \A b \in A : current[b] = 0
      BY <2>1
    <3> QED BY <1>2, <2>1, <3>1, SumZero
  <2>3. ASSUME NEW A \in SUBSET (1 .. Count)
        PROVE  0 <= Heaviest * (Cardinality(A) * (Count - Cardinality(A)))
    <3>1. Cardinality(A) \in Nat /\ Count - Cardinality(A) \in Nat
      <4>1. Cardinality((1 .. Count) \ A) = Cardinality(1 .. Count) - Cardinality(A)
        BY <1>2, CardRest
      <4>2. Cardinality(1 .. Count) = Count /\ Cardinality(A) \in Nat
        BY <1>2, Cards
      <4>3. Cardinality((1 .. Count) \ A) \in Nat
        BY <1>2, Cards
      <4> QED BY <4>1, <4>2, <4>3
    <3>2. ASSUME NEW x \in Nat, NEW y \in Nat, NEW z \in Nat PROVE 0 <= x * (y * z)
      <4>1. y * z \in Nat
        OBVIOUS
      <4> QED BY <4>1
    <3> QED BY <1>1, <3>1, <3>2, HeaviestIs
  <2>4. SumTo(Count, current, Server) = 0
    BY <1>2, <2>2
  <2>5. Ahead(Count, Heaviest, current)
    BY <2>2, <2>3 DEF Ahead
  <2> QED BY <2>4, <2>5 DEF Balanced, Sum, SumTo, Count
<1>5. Kept /\ Asked
  BY DEF Init, Kept, Asked
<1> QED BY <1>1, <1>3, <1>4, <1>5 DEF IInv

(* The properties follow.                                                  *)
LEMMA InvProportional == IInv => Proportional
<1> SUFFICES ASSUME IInv PROVE Proportional
  OBVIOUS
<1>1. /\ Count \in Nat /\ Count >= 1 /\ Server = 1 .. Count /\ Heaviest \in Nat
      /\ current \in [1 .. Count -> Int]
  BY ServerIs, HeaviestIs DEF IInv, TypeOK
<1>2. SumTo(Count, current, 1 .. Count) = 0
  BY <1>1 DEF IInv, Balanced, Sum, SumTo, Count
<1>3. ASSUME NEW b \in Server PROVE -Lead <= current[b] /\ current[b] <= Lead
  <2>1. b \in 1 .. Count /\ current[b] \in Int /\ {b} \in SUBSET (1 .. Count)
    BY <1>1
  <2>2. SumTo(Count, current, {b}) = current[b]
    BY <1>1, <2>1, SumOne
  <2>3. 0 = SumTo(Count, current, (1 .. Count) \ {b}) + current[b]
    <3>1. 1 .. Count \in SUBSET (1 .. Count)
      OBVIOUS
    <3>2. SumTo(Count, current, 1 .. Count)
            = SumTo(Count, current, (1 .. Count) \ {b}) + SumTo(Count, current, {b})
      BY <1>1, <2>1, <3>1, SumRest
    <3> QED BY <1>2, <2>2, <3>2
  <2>4. Cardinality({b}) = 1 /\ Cardinality((1 .. Count) \ {b}) = Count - 1
    <3>1. Cardinality({b}) = 1
      BY FS_Singleton
    <3>2. Cardinality((1 .. Count) \ {b}) = Cardinality(1 .. Count) - Cardinality({b})
      BY <1>1, <2>1, CardRest
    <3> QED BY <1>1, <3>1, <3>2, Cards
  <2>5. current[b] <= Heaviest * (1 * (Count - 1))
    BY <2>1, <2>2, <2>4 DEF IInv, Balanced, Ahead
  <2>6. SumTo(Count, current, (1 .. Count) \ {b})
          <= Heaviest * ((Count - 1) * (Count - (Count - 1)))
    BY <2>4 DEF IInv, Balanced, Ahead
  <2>7. SumTo(Count, current, (1 .. Count) \ {b}) \in Int
    BY <1>1, SumType
  <2>8. Lead = (Count - 1) * Heaviest
    BY DEF Lead, Count
  <2>9. Heaviest * (1 * (Count - 1)) = (Count - 1) * Heaviest
    BY <1>1
  <2>10. Heaviest * ((Count - 1) * (Count - (Count - 1))) = (Count - 1) * Heaviest
    <3>1. Count - (Count - 1) = 1
      BY <1>1
    <3> QED BY <1>1, <3>1
  <2>11. Lead \in Int
    BY <1>1, <2>8
  <2> QED BY <2>1, <2>3, <2>5, <2>6, <2>7, <2>8, <2>9, <2>10, <2>11
<1>4. Sum(current, Server) = 0
  BY DEF IInv, Balanced
<1> QED BY <1>3, <1>4 DEF Proportional

(* The cast of the age of a rest changes nothing.                          *)
LEMMA AvailableIs ==
    ASSUME IInv, NEW b \in Server
    PROVE  Available(b) <=> ~Resting(b)
<1>1. CASE FailCheck /\ fail[b]
  <2>1. /\ down[b] \in Nat /\ down[b] < FailTime + quiet /\ quiet \in 0 .. MaxQuiet
        /\ down[b] \in Age
    BY <1>1 DEF IInv, TypeOK, Asked, Age
  <2>2. /\ FailTime \in Nat /\ MaxQuiet \in Nat /\ Half \in Nat
        /\ FailTime + MaxQuiet <= Half
    BY BackendAssumption
  <2>3. down[b] < Half
    BY <2>1, <2>2
  <2>4. Signed(down[b]) = down[b]
    BY <2>3 DEF Signed
  <2> QED BY <1>1, <2>1, <2>2, <2>4 DEF Available, Resting, RestOver
<1>2. CASE ~(FailCheck /\ fail[b])
  BY <1>2 DEF Available, Resting
<1> QED BY <1>1, <1>2

LEMMA TakenBackIs ==
    ASSUME IInv, TakeBack(Server), conf' = conf, quiet' = 0
    PROVE  /\ fail' \in [Server' -> BOOLEAN] /\ errNum' \in [Server' -> Nat]
           /\ errFirst' \in [Server' -> Age] /\ down' \in [Server' -> Age] /\ Asked'
<1>1. Server' = Server
  BY DEF Server
<1>2. 0 \in Age
  BY BackendAssumption DEF Age
<1>3. fail' \in [Server -> BOOLEAN] /\ errNum' \in [Server -> Nat]
  BY DEF IInv, TypeOK, TakeBack
<1>4. errFirst' \in [Server -> Age] /\ down' \in [Server -> Age]
  BY <1>2 DEF IInv, TypeOK, TakeBack
<1>5. ASSUME NEW b \in Server, fail'[b]
      PROVE  FailCheck /\ down'[b] < FailTime + quiet'
  <2>1. fail[b] /\ ~Recovers(b) /\ down'[b] = down[b]
    BY <1>5 DEF TakeBack
  <2>2. FailCheck /\ down[b] \in Int
    BY <2>1, BackendAssumption DEF IInv, Asked, TypeOK, Age
  <2>3. ~Available(b)
    BY <2>1, <2>2 DEF Recovers, Available
  <2>4. down[b] < FailTime
    BY <2>3, AvailableIs DEF Resting
  <2> QED BY <2>1, <2>2, <2>4, BackendAssumption
<1> QED BY <1>1, <1>3, <1>4, <1>5 DEF Asked, FailCheck

(* One server only is asked by choose_one: it is the turn of server 1.     *)
LEMMA OneServer ==
    ASSUME IInv, ~Weighted
    PROVE  /\ Cardinality(Server) = 1 /\ Server = {1} /\ Turn(1) = 1
           /\ Advance(1, 1) = 0
<1>1. Count = 1 /\ Server = {1}
  BY ServerIs, WeightedIs DEF IInv
<1>2. index = 0
  BY <1>1 DEF IInv, TypeOK, Count
<1>3. Turn(1) = 1 /\ Advance(1, 1) = 0
  BY <1>1, <1>2 DEF Turn, Advance, Count
<1> QED BY <1>1, <1>3 DEF Count

LEMMA OneChoice ==
    ASSUME IInv, ChooseOne
    PROVE  /\ TakeBack(Server) /\ index' = 0 /\ UNCHANGED weights
           /\ \/ ~Available(1) /\ NoBackend
              \/ Available(1) /\ Connect(1)
           /\ Server = {1} /\ Cardinality(Server) = 1
<1>1. ~Weighted
  BY DEF ChooseOne
<1>2. /\ Cardinality(Server) = 1 /\ Server = {1} /\ Turn(1) = 1
      /\ Advance(1, 1) = 0
  BY <1>1, OneServer
<1>3. 1 .. 1 = {1}
  OBVIOUS
<1> DEFINE found == {i \in 1 .. 1 : Available(Turn(i))}
           first == CHOOSE i \in found : \A j \in found : i <= j
<1>4. \/ /\ found = {}
         /\ index' = Advance(1, 1) /\ TakeBack(Server) /\ NoBackend
      \/ /\ found # {}
         /\ index' = Advance(1, first)
         /\ TakeBack({Turn(i) : i \in 1 .. first})
         /\ Connect(Turn(first))
  BY <1>2 DEF ChooseOne
<1>5. CASE found = {}
  <2>1. ~Available(1)
    BY <1>2, <1>3, <1>5
  <2> QED BY <1>2, <1>4, <1>5, <2>1 DEF ChooseOne
<1>6. CASE found # {}
  <2>1. Available(1) /\ found = {1}
    BY <1>2, <1>3, <1>6
  <2>2. first = 1
    BY <2>1
  <2>3. {Turn(i) : i \in 1 .. first} = Server
    BY <1>2, <1>3, <2>2
  <2> QED BY <1>2, <1>4, <1>6, <2>1, <2>2, <2>3 DEF ChooseOne
<1> QED BY <1>5, <1>6

LEMMA WeightChoice ==
    ASSUME IInv, ChooseOneWeight
    PROVE  /\ TakeBack(Server) /\ effective' = effective /\ index' = index
           /\ \/ /\ \A b \in Server : ~Available(b)
                 /\ current' = current /\ NoBackend
              \/ \E up \in SUBSET Server, m \in Server :
                    /\ Choice(Count, current, effective, up, m, current')
                    /\ current' \in [1 .. Count -> Int]
                    /\ Available(m) /\ Connect(m)
<1> DEFINE up == {b \in Server : Available(b)}
           raised == [b \in Server |-> IF b \in up THEN current[b] + effective[b]
                                       ELSE current[b]]
           best == Best(raised, up)
<1>1. /\ Count \in Nat /\ Server = 1 .. Count /\ current \in [1 .. Count -> Int]
      /\ effective \in [1 .. Count -> Nat] /\ effective \in [1 .. Count -> Int]
      /\ effective = conf
  BY ServerIs DEF IInv, TypeOK, Kept
<1>2. effective' = effective
  <2>1. \A b \in Server : BackendWeight[b] = 0 /\ ~ (effective[b] < 0)
    BY <1>1 DEF BackendWeight
  <2>2. effective' = [b \in Server |-> IF b \in up /\ effective[b] < BackendWeight[b]
                                       THEN effective[b] + 1 ELSE effective[b]]
    BY DEF ChooseOneWeight
  <2>3. \A b \in Server : effective'[b] = effective[b]
    <3> HIDE DEF up
    <3> QED BY <2>1, <2>2
  <2> HIDE DEF up
  <2> QED BY <1>1, <2>2, <2>3
<1>3. TakeBack(Server) /\ index' = index
  BY DEF ChooseOneWeight
<1>4. \/ up = {} /\ UNCHANGED current /\ NoBackend
      \/ up # {} /\ current' = Pays(best, raised, up) /\ Connect(best)
  BY DEF ChooseOneWeight
<1>5. CASE up = {}
  BY <1>2, <1>3, <1>4, <1>5
<1>6. CASE up # {}
  <2>1. /\ raised \in [1 .. Count -> Int] /\ up \in SUBSET (1 .. Count)
        /\ \A b \in Server : raised[b] = current[b] + Term(effective, up, b)
        /\ \A b \in up : raised[b] = current[b] + effective[b] /\ Available(b)
    BY <1>1 DEF Term
  <2>2. current' = Pays(best, raised, up) /\ Connect(best)
    BY <1>4, <1>6
  <2> HIDE DEF up, raised
  <2>3. best \in up /\ \A o \in up : raised[o] <= raised[best]
    BY <1>1, <1>6, <2>1, BestTops
  <2> HIDE DEF best
  <2>4. Sum(effective, up) = SumTo(Count, effective, up) /\ Sum(effective, up) \in Int
    BY <1>1, SumType DEF Sum, SumTo, Count
  <2>5. current' = [raised EXCEPT ![best] = @ - SumTo(Count, effective, up)]
    BY <2>2, <2>4 DEF Pays
  <2>6. current' \in [1 .. Count -> Int]
    BY <2>1, <2>3, <2>4, <2>5
  <2>7. ASSUME NEW b \in 1 .. Count
        PROVE  current'[b] = current[b] + Term(effective, up, b)
                  - (IF b = best THEN SumTo(Count, effective, up) ELSE 0)
    <3>1. raised[b] \in Int /\ raised[b] = current[b] + Term(effective, up, b)
      BY <1>1, <2>1
    <3> DEFINE total == SumTo(Count, effective, up)
    <3>2. /\ current'[b] = IF b = best THEN raised[b] - total ELSE raised[b]
          /\ total \in Int /\ raised[b] - 0 = raised[b]
      BY <2>1, <2>4, <2>5, <3>1
    <3> DEFINE paid == IF b = best THEN total ELSE 0
    <3>3. current'[b] = raised[b] - paid
      <4> HIDE DEF total
      <4> QED BY <3>2
    <3>4. paid \in Int
      BY <3>2
    <3>5. current[b] \in Int /\ Term(effective, up, b) \in Int
      BY <1>1, TermIs
    <3> HIDE DEF paid, total
    <3>6. current'[b] = current[b] + Term(effective, up, b) - paid
      BY <3>1, <3>3, <3>4, <3>5
    <3> QED BY <3>6 DEF paid, total
  <2>8. \A o \in up : current[o] + effective[o] <= current[best] + effective[best]
    BY <2>1, <2>3
  <2>9. Choice(Count, current, effective, up, best, current')
    BY <1>1, <2>6, <2>1, <2>3, <2>7, <2>8 DEF Choice
  <2> QED BY <1>1, <1>2, <1>3, <2>1, <2>2, <2>3, <2>6, <2>9
<1> QED BY <1>5, <1>6

(* What a choice finds.                                                    *)
LEMMA Chooses ==
    ASSUME IInv, ChooseOne \/ ChooseOneWeight
    PROVE  IF chosen' = 0 THEN \A b \in Server : Resting(b) ELSE ~Resting(chosen')
<1>1. Count \in Nat /\ Server = 1 .. Count
  BY ServerIs DEF IInv
<1>2. \/ (\A b \in Server : ~Available(b)) /\ NoBackend
      \/ \E m \in Server : Available(m) /\ Connect(m)
  BY OneChoice, WeightChoice
<1>3. CASE (\A b \in Server : ~Available(b)) /\ NoBackend
  BY <1>3, AvailableIs DEF NoBackend
<1>4. ASSUME NEW m \in Server, Available(m), Connect(m)
      PROVE  chosen' # 0 /\ ~Resting(chosen')
  <2>1. chosen' = m /\ m # 0
    BY <1>1, <1>4 DEF Connect
  <2> QED BY <1>4, <2>1, AvailableIs
<1> QED BY <1>2, <1>3, <1>4

-----------------------------------------------------------------------------
(* Every step keeps the invariant.                                         *)
LEMMA SameServers ==
    ASSUME conf' = conf
    PROVE  /\ Server' = Server /\ Count' = Count /\ Heaviest' = Heaviest
           /\ Configured' = Configured
BY DEF Server, Count, Heaviest, Configured

LEMMA SameWeights ==
    ASSUME IInv, UNCHANGED <<conf, index, current, effective>>
    PROVE  /\ Configured' /\ Kept' /\ Balanced'
           /\ conf' \in [Server' -> 1 .. MaxWeight]
           /\ index' \in 0 .. Cardinality(Server') - 1
           /\ current' \in [Server' -> Int] /\ effective' \in [Server' -> Nat]
<1>1. /\ Server' = Server /\ Count' = Count /\ Heaviest' = Heaviest
      /\ Configured' = Configured
  BY SameServers
<1>2. Balanced'
  BY <1>1 DEF IInv, Balanced, Sum, Count
<1> QED BY <1>1, <1>2 DEF IInv, TypeOK, Kept

LEMMA Connects ==
    ASSUME IInv, NEW b \in Server, Connect(b) \/ NoBackend
    PROVE  /\ inFlight' \in [Server' -> Nat] /\ chosen' \in Server' \cup {0}
           /\ quiet' = 0 /\ quiet' \in 0 .. MaxQuiet /\ conf' = conf
<1>1. conf' = conf /\ quiet' = 0 /\ chosen' \in Server \cup {0}
  BY DEF Connect, NoBackend
<1>2. Server' = Server
  BY <1>1, SameServers
<1>3. inFlight' \in [Server -> Nat]
  BY DEF IInv, TypeOK, Connect, NoBackend
<1> QED BY <1>1, <1>2, <1>3, BackendAssumption

LEMMA WeightInv ==
    ASSUME IInv, ChooseOneWeight PROVE IInv'
<1>1. /\ Count \in Nat /\ Count >= 1 /\ Server = 1 .. Count
      /\ current \in [1 .. Count -> Int] /\ effective \in [1 .. Count -> Int]
      /\ Heaviest \in Nat /\ effective = conf
      /\ \A b \in 1 .. Count : 0 <= effective[b] /\ effective[b] <= Heaviest
  <2>1. Count \in Nat /\ Count >= 1 /\ Server = 1 .. Count
    BY ServerIs DEF IInv
  <2>2. Heaviest \in Nat /\ \A b \in Server : conf[b] <= Heaviest
    BY HeaviestIs DEF IInv
  <2> QED BY <2>1, <2>2 DEF IInv, TypeOK, Kept
<1>2. /\ TakeBack(Server) /\ effective' = effective /\ index' = index
      /\ \/ current' = current /\ NoBackend
         \/ \E up \in SUBSET Server, m \in Server :
               /\ Choice(Count, current, effective, up, m, current')
               /\ current' \in [1 .. Count -> Int] /\ Connect(m)
  BY WeightChoice
<1>3. PICK m \in Server : Connect(m) \/ NoBackend
  <2>1. 1 \in Server
    BY <1>1
  <2> QED BY <1>2, <2>1
<1>4. /\ inFlight' \in [Server' -> Nat] /\ chosen' \in Server' \cup {0}
      /\ quiet' = 0 /\ quiet' \in 0 .. MaxQuiet /\ conf' = conf
  BY <1>3, Connects
<1>5. /\ Server' = Server /\ Count' = Count /\ Heaviest' = Heaviest
      /\ Configured' = Configured
  BY <1>4, SameServers
<1>6. /\ fail' \in [Server' -> BOOLEAN] /\ errNum' \in [Server' -> Nat]
      /\ errFirst' \in [Server' -> Age] /\ down' \in [Server' -> Age] /\ Asked'
  BY <1>2, <1>4, TakenBackIs
<1>7. current' \in [1 .. Count -> Int] /\ Ahead(Count, Heaviest, current')
      /\ SumTo(Count, current', 1 .. Count) = 0
  <2>1. Ahead(Count, Heaviest, current) /\ SumTo(Count, current, 1 .. Count) = 0
    BY <1>1 DEF IInv, Balanced, Sum, SumTo, Count
  <2>2. CASE current' = current
    BY <1>1, <2>1, <2>2
  <2>3. ASSUME NEW up, NEW o, Choice(Count, current, effective, up, o, current'),
               current' \in [1 .. Count -> Int]
        PROVE  Ahead(Count, Heaviest, current')
               /\ SumTo(Count, current', 1 .. Count) = SumTo(Count, current, 1 .. Count)
    <3>1. Within(Count, effective, Heaviest)
      BY <1>1 DEF Within
    <3> QED BY <1>1, <2>1, <2>3, <3>1, Spread
  <2> QED BY <1>2, <2>1, <2>2, <2>3
<1>8. Balanced'
  BY <1>1, <1>5, <1>7 DEF Balanced, Sum, SumTo, Count
<1>9. TypeOK'
  <2>1. conf' \in [Server' -> 1 .. MaxWeight] /\ effective' \in [Server' -> Nat]
    BY <1>2, <1>4, <1>5 DEF IInv, TypeOK
  <2>2. index' \in 0 .. Cardinality(Server') - 1 /\ current' \in [Server' -> Int]
    BY <1>1, <1>2, <1>5, <1>7 DEF IInv, TypeOK
  <2> QED BY <1>4, <1>6, <2>1, <2>2 DEF TypeOK
<1>10. Kept'
  BY <1>1, <1>2, <1>4 DEF Kept
<1> QED BY <1>5, <1>6, <1>8, <1>9, <1>10 DEF IInv

LEMMA OneInv ==
    ASSUME IInv, ChooseOne PROVE IInv'
<1>1. /\ TakeBack(Server) /\ index' = 0 /\ UNCHANGED weights
      /\ \/ NoBackend
         \/ Connect(1)
      /\ Server = {1} /\ Cardinality(Server) = 1
  BY OneChoice
<1>2. index' = index
  BY <1>1 DEF IInv, TypeOK
<1>3. /\ inFlight' \in [Server' -> Nat] /\ chosen' \in Server' \cup {0}
      /\ quiet' = 0 /\ quiet' \in 0 .. MaxQuiet /\ conf' = conf
  BY <1>1, Connects
<1>4. /\ fail' \in [Server' -> BOOLEAN] /\ errNum' \in [Server' -> Nat]
      /\ errFirst' \in [Server' -> Age] /\ down' \in [Server' -> Age] /\ Asked'
  BY <1>1, <1>3, TakenBackIs
<1>5. /\ Configured' /\ Kept' /\ Balanced'
      /\ conf' \in [Server' -> 1 .. MaxWeight]
      /\ index' \in 0 .. Cardinality(Server') - 1
      /\ current' \in [Server' -> Int] /\ effective' \in [Server' -> Nat]
  BY <1>1, <1>2, <1>3, SameWeights DEF weights
<1> QED BY <1>3, <1>4, <1>5 DEF IInv, TypeOK

LEMMA OlderIs ==
    ASSUME NEW age \in Age
    PROVE  Older(age) \in Age /\ (age < Half => Older(age) = age + 1)
<1>1. Half \in Nat /\ Half >= 1
  BY BackendAssumption
<1>2. age \in Nat /\ age + 1 <= 2 * Half
  BY <1>1 DEF Age
<1>3. CASE age + 1 < 2 * Half
  BY <1>1, <1>2, <1>3 DEF Older, Age
<1>4. CASE age + 1 = 2 * Half
  <2>1. ~ (age < Half)
    BY <1>1, <1>2, <1>4
  <2>2. (2 * Half) % (2 * Half) = 0
    BY <1>1
  <2> QED BY <1>1, <1>4, <2>1, <2>2 DEF Older, Age
<1> QED BY <1>1, <1>2, <1>3, <1>4

LEMMA TickInv ==
    ASSUME IInv, Tick PROVE IInv'
<1>1. /\ Configured' /\ Kept' /\ Balanced'
      /\ conf' \in [Server' -> 1 .. MaxWeight]
      /\ index' \in 0 .. Cardinality(Server') - 1
      /\ current' \in [Server' -> Int] /\ effective' \in [Server' -> Nat]
  BY SameWeights DEF Tick, weights
<1>2. Server' = Server
  BY SameServers DEF Tick
<1>3. /\ quiet' = quiet + 1 /\ quiet \in Nat /\ quiet + 1 <= MaxQuiet
      /\ quiet' \in 0 .. MaxQuiet
  BY BackendAssumption DEF IInv, TypeOK, Tick
<1>4. errFirst' \in [Server -> Age]
  <2>1. \A b \in Server : Older(errFirst[b]) \in Age
    BY OlderIs DEF IInv, TypeOK
  <2> QED BY <2>1 DEF Tick
<1>5. down' \in [Server -> Age]
  <2>1. \A b \in Server : down[b] \in Age /\ Older(down[b]) \in Age
    BY OlderIs DEF IInv, TypeOK
  <2> QED BY <2>1 DEF Tick
<1>6. fail' = fail /\ errNum' = errNum /\ chosen' = chosen /\ inFlight' = inFlight
  BY DEF Tick
<1>7. ASSUME NEW b \in Server, fail[b]
      PROVE  FailCheck /\ down'[b] < FailTime + quiet'
  <2>1. FailCheck /\ down[b] < FailTime + quiet /\ down[b] \in Age
    BY <1>7 DEF IInv, Asked, TypeOK
  <2>2. down[b] \in Int /\ FailTime \in Nat /\ down[b] < Half
    BY <1>3, <2>1, BackendAssumption DEF Age
  <2>3. down'[b] = down[b] + 1
    BY <1>7, <2>1, <2>2, OlderIs DEF Tick
  <2> QED BY <1>3, <2>1, <2>2, <2>3
<1>8. Asked'
  BY <1>2, <1>6, <1>7 DEF Asked, FailCheck
<1>9. TypeOK'
  <2>1. /\ fail' \in [Server' -> BOOLEAN] /\ errNum' \in [Server' -> Nat]
        /\ chosen' \in Server' \cup {0} /\ inFlight' \in [Server' -> Nat]
    BY <1>2, <1>6 DEF IInv, TypeOK
  <2> QED BY <1>1, <1>2, <1>3, <1>4, <1>5, <2>1 DEF TypeOK
<1> QED BY <1>1, <1>8, <1>9 DEF IInv

LEMMA SucceedInv ==
    ASSUME IInv, NEW b \in Server, Succeed(b) PROVE IInv'
<1>1. /\ Configured' /\ Kept' /\ Balanced'
      /\ conf' \in [Server' -> 1 .. MaxWeight]
      /\ index' \in 0 .. Cardinality(Server') - 1
      /\ current' \in [Server' -> Int] /\ effective' \in [Server' -> Nat]
  BY SameWeights DEF Succeed, weights
<1>2. Server' = Server
  BY SameServers DEF Succeed
<1>3. inFlight' \in [Server -> Nat]
  <2>1. inFlight \in [Server -> Nat] /\ inFlight[b] - 1 \in Nat
    BY DEF IInv, TypeOK, Succeed
  <2> QED BY <2>1 DEF Succeed
<1>4. /\ fail' = fail /\ errNum' = errNum /\ errFirst' = errFirst /\ down' = down
      /\ chosen' = chosen /\ quiet' = quiet
  BY DEF Succeed, health
<1>5. Asked' /\ TypeOK'
  BY <1>1, <1>2, <1>3, <1>4 DEF IInv, Asked, TypeOK, FailCheck
<1> QED BY <1>1, <1>5 DEF IInv

LEMMA FailedInv ==
    ASSUME IInv, NEW b \in Server, CommFailed(b) PROVE IInv'
<1>1. effective' = effective
  <2>1. CASE ~FailCheck
    BY <2>1 DEF CommFailed
  <2>2. CASE FailCheck
    <3>1. effective \in [Server -> Nat] /\ BackendWeight[b] = 0
      BY DEF IInv, TypeOK, BackendWeight
    <3>2. FailNum \in Nat \ {0} /\ 0 \div FailNum = 0
      BY <2>2, BackendAssumption DEF FailCheck
    <3>3. Lowered(b) = effective[b]
      BY <3>1, <3>2 DEF Lowered
    <3>4. effective' = [effective EXCEPT ![b] = Lowered(b)]
      BY <2>2 DEF CommFailed
    <3> QED BY <3>1, <3>3, <3>4
  <2> QED BY <2>1, <2>2
<1>2. /\ Configured' /\ Kept' /\ Balanced'
      /\ conf' \in [Server' -> 1 .. MaxWeight]
      /\ index' \in 0 .. Cardinality(Server') - 1
      /\ current' \in [Server' -> Int] /\ effective' \in [Server' -> Nat]
  BY <1>1, SameWeights DEF CommFailed
<1>3. Server' = Server
  BY SameServers DEF CommFailed
<1>4. inFlight' \in [Server -> Nat] /\ chosen' = chosen /\ quiet' = quiet
  <2>1. inFlight \in [Server -> Nat] /\ inFlight[b] - 1 \in Nat
    BY DEF IInv, TypeOK, CommFailed
  <2> QED BY <2>1 DEF CommFailed
<1> DEFINE n == (IF WindowOver(b) THEN 0 ELSE errNum[b]) + 1
<1>5. n \in Nat
  BY DEF IInv, TypeOK
<1>6. \/ ~FailCheck /\ UNCHANGED health
      \/ /\ FailCheck
         /\ errFirst' = [errFirst EXCEPT ![b] = IF WindowOver(b) THEN 0 ELSE @]
         /\ errNum' = [errNum EXCEPT ![b] = n]
         /\ fail' = [fail EXCEPT ![b] = @ \/ n >= FailNum]
         /\ down' = [down EXCEPT ![b] = IF n >= FailNum THEN 0 ELSE @]
  BY DEF CommFailed
<1> HIDE DEF n
<1>7. 0 \in Age /\ FailTime \in Nat
  BY BackendAssumption DEF Age
<1>8. /\ fail' \in [Server -> BOOLEAN] /\ errNum' \in [Server -> Nat]
      /\ errFirst' \in [Server -> Age] /\ down' \in [Server -> Age] /\ Asked'
  <2>1. CASE ~FailCheck /\ UNCHANGED health
    BY <1>3, <1>4, <2>1 DEF IInv, TypeOK, Asked, health, FailCheck
  <2>2. CASE /\ FailCheck
             /\ errFirst' = [errFirst EXCEPT ![b] = IF WindowOver(b) THEN 0 ELSE @]
             /\ errNum' = [errNum EXCEPT ![b] = n]
             /\ fail' = [fail EXCEPT ![b] = @ \/ n >= FailNum]
             /\ down' = [down EXCEPT ![b] = IF n >= FailNum THEN 0 ELSE @]
    <3>1. /\ fail' \in [Server -> BOOLEAN] /\ errNum' \in [Server -> Nat]
          /\ errFirst' \in [Server -> Age] /\ down' \in [Server -> Age]
      BY <1>5, <1>7, <2>2 DEF IInv, TypeOK
    <3>2. ASSUME NEW o \in Server, fail'[o]
          PROVE  FailCheck /\ down'[o] < FailTime + quiet'
      <4>1. quiet \in Nat /\ FailTime # 0
        BY <2>2 DEF IInv, TypeOK, FailCheck
      <4>2. CASE o = b /\ n >= FailNum
        <5>1. down'[o] = 0
          BY <2>2, <4>2 DEF IInv, TypeOK
        <5> QED BY <1>4, <1>7, <2>2, <4>1, <5>1
      <4>3. CASE ~(o = b /\ n >= FailNum)
        <5>1. fail[o] /\ down'[o] = down[o]
          BY <2>2, <3>2, <4>3 DEF IInv, TypeOK
        <5> QED BY <1>4, <5>1 DEF IInv, Asked
      <4> QED BY <4>2, <4>3
    <3> QED BY <1>3, <3>1, <3>2 DEF Asked, FailCheck
  <2> QED BY <1>6, <2>1, <2>2
<1>9. TypeOK'
  BY <1>2, <1>3, <1>4, <1>8 DEF IInv, TypeOK
<1> QED BY <1>2, <1>8, <1>9 DEF IInv

LEMMA StutterInv ==
    ASSUME IInv, UNCHANGED vars PROVE IInv'
<1>1. /\ Configured' /\ Kept' /\ Balanced'
      /\ conf' \in [Server' -> 1 .. MaxWeight]
      /\ index' \in 0 .. Cardinality(Server') - 1
      /\ current' \in [Server' -> Int] /\ effective' \in [Server' -> Nat]
  BY SameWeights DEF vars
<1>2. Server' = Server
  BY SameServers DEF vars
<1>3. Asked' /\ TypeOK'
  BY <1>1, <1>2 DEF IInv, TypeOK, Asked, vars, FailCheck
<1> QED BY <1>1, <1>3 DEF IInv

LEMMA NextInv == IInv /\ [Next]_vars => IInv'
BY WeightInv, OneInv, TickInv, SucceedInv, FailedInv, StutterInv DEF Next

-----------------------------------------------------------------------------
(* Every variable keeps its type: no choice leaves the ring of the index,  *)
(* no error makes a weight or a count negative, the clock wraps at the     *)
(* range of the cast.                                                      *)
THEOREM BackendTyped == Spec => []TypeOK
<1>1. Spec => []IInv
  BY InitInv, NextInv, PTL DEF Spec
<1>2. IInv => TypeOK
  BY DEF IInv
<1> QED BY <1>1, <1>2, PTL

(* choose_one_weight is fair for any number of servers and any weights:    *)
(* what it adds it takes, and no server is ever further ahead of its share *)
(* or behind it than the largest weight times the number of the others.    *)
THEOREM BackendProportional == Spec => []Proportional
<1>1. Spec => []IInv
  BY InitInv, NextInv, PTL DEF Spec
<1> QED BY <1>1, InvProportional, PTL

(* avaliable() never lets a server be chosen before fail_timeout has       *)
(* passed since its last error, although the age is cast to 32 bits, and   *)
(* get_backend fails only if every server rests.                           *)
THEOREM BackendDownRests == Spec => DownRests
<1>1. Spec => []IInv
  BY InitInv, NextInv, PTL DEF Spec
<1>2. IInv => [ChooseOne \/ ChooseOneWeight =>
                 IF chosen' = 0 THEN \A b \in Server : Resting(b)
                 ELSE ~Resting(chosen')]_vars
  BY Chooses
<1> QED BY <1>1, <1>2, PTL DEF DownRests
=============================================================================
