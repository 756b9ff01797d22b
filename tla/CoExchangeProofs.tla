--------------------------- MODULE CoExchangeProofs ---------------------------
(***************************************************************************)
(* Proofs about calls over a kept connection: for any messages, cut        *)
(* anywhere but inside the blank line after a header, over any number of   *)
(* calls.                                                                  *)
(***************************************************************************)
EXTENDS CoExchangeProperties, FiniteSetTheorems, SequenceTheorems, WellFoundedInduction, TLAPS

-----------------------------------------------------------------------------
(* Induction up to n, over a set: every non-empty set of natural numbers   *)
(* has a least element.                                                    *)
LEMMA Induct ==
    ASSUME NEW n \in Nat, NEW P, 0 \in P,
           \A i \in 0 .. n - 1 : i \in P => i + 1 \in P
    PROVE  n \in P
<1> DEFINE R == {s \in Nat \X Nat : s[1] < s[2]}
           T == {i \in 0 .. n : i \notin P}
<1>1. SUFFICES ASSUME T # {} PROVE FALSE
  OBVIOUS
<1>2. IsWellFoundedOn(R, Nat)
  BY NatLessThanWellFounded DEF OpToRel
<1>3. T \subseteq Nat
  OBVIOUS
<1>4. PICK i \in T : \A j \in T : ~ (<<j, i>> \in R)
  <2> HIDE DEF R, T
  <2> QED BY <1>1, <1>2, <1>3, WFMin
<1>5. i \in 0 .. n /\ i \notin P /\ i # 0
  OBVIOUS
<1>6. i - 1 \in 0 .. n - 1 /\ i - 1 \notin P
  BY <1>5
<1>7. <<i - 1, i>> \in Nat \X Nat /\ i - 1 < i
  BY <1>5, <1>6
<1>8. <<i - 1, i>> \in R
  BY <1>7
<1> QED BY <1>4, <1>6, <1>8

-----------------------------------------------------------------------------
(* The block of a buffer: doubled until it is enough.                      *)
Doubles(d, need) ==
    /\ DOMAIN d = Nat
    /\ \A s \in Nat : d[s] = IF s >= need THEN s ELSE d[2 * s]

LEMMA DoublesExists ==
    ASSUME NEW need \in Nat
    PROVE  \E d : d = [s \in Nat |-> IF s >= need THEN s ELSE d[2 * s]]
<1> DEFINE Above(k) == {s \in Nat : s > 0 /\ s + k >= need}
           P == {k \in Nat : \E d : \A s \in Above(k) : d[s] = IF s >= need THEN s ELSE d[2 * s]}
<1>1. 0 \in P
  <2> DEFINE d == [s \in Nat |-> s]
  <2>1. \A s \in Above(0) : d[s] = IF s >= need THEN s ELSE d[2 * s]
    OBVIOUS
  <2> HIDE DEF d
  <2> QED BY <2>1
<1>2. ASSUME NEW k \in 0 .. need - 1, k \in P PROVE k + 1 \in P
  <2>1. PICK d : \A s \in Above(k) : d[s] = IF s >= need THEN s ELSE d[2 * s]
    BY <1>2
  <2> DEFINE e == [s \in Nat |-> IF s >= need THEN s ELSE d[2 * s]]
  <2>2. ASSUME NEW s \in Above(k + 1) PROVE e[s] = IF s >= need THEN s ELSE e[2 * s]
    <3>1. CASE s >= need
      BY <3>1
    <3>2. CASE ~(s >= need)
      <4>1. 2 * s \in Above(k)
        BY <3>2
      <4>2. e[2 * s] = d[2 * s]
        BY <2>1, <4>1
      <4> QED BY <3>2, <4>2
    <3> QED BY <3>1, <3>2
  <2> HIDE DEF e
  <2> QED BY <2>2
<1>3. need \in P
  <2> HIDE DEF P
  <2> QED BY <1>1, <1>2, Induct
<1>4. PICK d : \A s \in Above(need) : d[s] = IF s >= need THEN s ELSE d[2 * s]
  BY <1>3
<1> DEFINE e == [s \in Nat |-> IF s >= need THEN s ELSE d[s]]
           f == [s \in Nat |-> IF s >= need THEN s ELSE e[2 * s]]
<1>5. ASSUME NEW s \in Nat PROVE e[s] = IF s >= need THEN s ELSE e[2 * s]
  <2>1. CASE s = 0
    BY <2>1
  <2>2. CASE s > 0
    BY <1>4, <2>2
  <2> QED BY <2>1, <2>2
<1>6. e = f
  BY <1>5
<1> QED BY <1>6

LEMMA GrownDoubles ==
    ASSUME NEW need \in Nat
    PROVE  \E d : /\ Doubles(d, need)
                  /\ \A size : Grown(size, need) = d[IF size < MinSize THEN MinSize ELSE size]
<1> DEFINE d == CHOOSE e : e = [s \in Nat |-> IF s >= need THEN s ELSE e[2 * s]]
<1>1. d = [s \in Nat |-> IF s >= need THEN s ELSE d[2 * s]]
  <2> HIDE DEF d
  <2> QED BY DoublesExists DEF d
<1>2. \A size : Grown(size, need) = d[IF size < MinSize THEN MinSize ELSE size]
  BY DEF Grown
<1> HIDE DEF d
<1>3. Doubles(d, need)
  BY <1>1 DEF Doubles
<1> QED BY <1>2, <1>3

(* Downwards from need: a fact of all sizes that are enough, and of every  *)
(* other whose double it holds of.                                         *)
LEMMA InductDown ==
    ASSUME NEW need \in Nat, NEW P, \A s \in Nat : s > 0 /\ s >= need => s \in P,
           \A s \in Nat : s > 0 /\ s < need /\ 2 * s \in P => s \in P
    PROVE  \A s \in Nat \ {0} : s \in P
<1> DEFINE Q == {k \in Nat : \A s \in Nat : s > 0 /\ s + k >= need => s \in P}
<1>1. 0 \in Q
  OBVIOUS
<1>2. ASSUME NEW k \in 0 .. need - 1, k \in Q PROVE k + 1 \in Q
  <2>1. ASSUME NEW s \in Nat, s > 0, s + (k + 1) >= need PROVE s \in P
    <3>1. CASE s >= need
      BY <2>1, <3>1
    <3>2. CASE s < need
      <4>1. 2 * s \in Nat /\ 2 * s > 0 /\ 2 * s + k >= need
        BY <2>1, <3>2
      <4> QED BY <1>2, <2>1, <3>2, <4>1
    <3> QED BY <2>1, <3>1, <3>2
  <2> QED BY <2>1
<1>3. need \in Q
  <2> HIDE DEF Q
  <2> QED BY <1>1, <1>2, Induct
<1> QED BY <1>3

LEMMA DoublesIs ==
    ASSUME NEW need \in Nat, NEW d, Doubles(d, need), NEW s \in Nat \ {0}
    PROVE  d[s] \in Nat /\ d[s] >= need /\ d[s] >= s /\ (d[s] = s \/ d[s] < 2 * need)
<1> DEFINE P == {i \in Nat : /\ d[i] \in Nat /\ d[i] >= need /\ d[i] >= i
                            /\ (d[i] = i \/ d[i] < 2 * need)}
<1>1. \A i \in Nat : d[i] = IF i >= need THEN i ELSE d[2 * i]
  BY DEF Doubles
<1>2. ASSUME NEW i \in Nat, i > 0, i >= need PROVE i \in P
  BY <1>1, <1>2
<1>3. ASSUME NEW i \in Nat, i > 0, i < need, 2 * i \in P PROVE i \in P
  <2>1. d[i] = d[2 * i]
    BY <1>1, <1>3
  <2> QED BY <1>3, <2>1
<1>4. s \in P
  <2> HIDE DEF P
  <2> QED BY <1>2, <1>3, InductDown
<1> QED BY <1>4

(* A size that is reached by doubling is reached on the way to any larger. *)
LEMMA DoublesThrough ==
    ASSUME NEW a \in Nat, NEW d, Doubles(d, a), NEW r \in Nat, NEW e, Doubles(e, r),
           a <= r, e[a] = r, NEW s \in Nat \ {0}, d[s] = a
    PROVE  e[s] = r
<1> DEFINE P == {i \in Nat : d[i] = a => e[i] = r}
<1>1. \A i \in Nat : /\ d[i] = IF i >= a THEN i ELSE d[2 * i]
                     /\ e[i] = IF i >= r THEN i ELSE e[2 * i]
  BY DEF Doubles
<1>2. ASSUME NEW i \in Nat, i > 0, i >= a PROVE i \in P
  BY <1>1, <1>2
<1>3. ASSUME NEW i \in Nat, i > 0, i < a, 2 * i \in P PROVE i \in P
  <2>1. d[i] = d[2 * i] /\ e[i] = e[2 * i]
    BY <1>1, <1>3
  <2> QED BY <1>3, <2>1
<1>4. s \in P
  <2> HIDE DEF P
  <2> QED BY <1>2, <1>3, InductDown
<1> QED BY <1>4

LEMMA DoublesAgain ==
    ASSUME NEW need \in Nat, NEW d, Doubles(d, need), NEW s \in Nat \ {0},
           NEW e, Doubles(e, d[s])
    PROVE  e[s] = d[s]
<1> DEFINE r == d[s]
           P == {i \in Nat : d[i] = r => e[i] = r}
<1>0. r \in Nat /\ r >= need
  BY DoublesIs
<1> HIDE DEF r
<1>1. \A i \in Nat : /\ d[i] = IF i >= need THEN i ELSE d[2 * i]
                     /\ e[i] = IF i >= r THEN i ELSE e[2 * i]
  BY DEF Doubles, r
<1>2. ASSUME NEW i \in Nat, i > 0, i >= need PROVE i \in P
  BY <1>1, <1>2
<1>3. ASSUME NEW i \in Nat, i > 0, i < need, 2 * i \in P PROVE i \in P
  <2>1. d[i] = d[2 * i] /\ e[i] = e[2 * i]
    BY <1>0, <1>1, <1>3
  <2> QED BY <1>3, <2>1
<1>4. s \in P
  <2> HIDE DEF P
  <2> QED BY <1>2, <1>3, InductDown
<1> QED BY <1>4 DEF r

(* A block: no memory yet, or MinSize doubled some times.                  *)
Block(n) == n \in Nat /\ n \in {0, Grown(MinSize, n)}

LEMMA GrownIs ==
    ASSUME NEW need \in Nat, NEW size, Block(size)
    PROVE  /\ Block(Grown(size, need))
           /\ Grown(size, need) >= need /\ Grown(size, need) >= size
           /\ \/ Grown(size, need) \in {size, MinSize}
              \/ Grown(size, need) < 2 * need
<1>0. MinSize \in Nat \ {0}
  BY BufferAssumption
<1> DEFINE s == IF size < MinSize THEN MinSize ELSE size
           r == Grown(size, need)
<1>1. PICK d : Doubles(d, need) /\ r = d[s]
  BY GrownDoubles
<1>2. s \in Nat \ {0} /\ size \in Nat
  BY <1>0 DEF Block
<1> HIDE DEF s, r
<1>3. r \in Nat /\ r >= need /\ r >= s /\ (r = s \/ r < 2 * need)
  BY <1>1, <1>2, DoublesIs
<1>4. PICK e : Doubles(e, r) /\ Grown(MinSize, r) = e[MinSize]
  <2>1. PICK e : /\ Doubles(e, r)
                 /\ \A z : Grown(z, r) = e[IF z < MinSize THEN MinSize ELSE z]
    BY <1>3, GrownDoubles
  <2>2. ~(MinSize < MinSize)
    BY <1>0
  <2> QED BY <2>1, <2>2
<1>5. e[s] = r
  BY <1>1, <1>2, <1>4, DoublesAgain
<1>6. e[MinSize] = r
  <2>1. CASE size < MinSize
    BY <1>5, <2>1 DEF s
  <2>2. CASE ~(size < MinSize)
    <3>1. s = size /\ size # 0
      BY <1>0, <2>2 DEF s
    <3>2. PICK c : Doubles(c, size) /\ Grown(MinSize, size) = c[MinSize]
      <4>1. PICK c : /\ Doubles(c, size)
                     /\ \A z : Grown(z, size) = c[IF z < MinSize THEN MinSize ELSE z]
        BY <1>2, GrownDoubles
      <4>2. ~(MinSize < MinSize)
        BY <1>0
      <4> QED BY <4>1, <4>2
    <3>3. c[MinSize] = size
      BY <3>1, <3>2 DEF Block
    <3>4. e[size] = r /\ size <= r
      BY <1>3, <1>5, <3>1
    <3> QED BY <1>0, <1>2, <1>3, <1>4, <3>2, <3>3, <3>4, DoublesThrough
  <2> QED BY <2>1, <2>2
<1>7. Block(r)
  BY <1>3, <1>4, <1>6 DEF Block
<1>8. r >= size /\ (r \in {size, MinSize} \/ r < 2 * need)
  <2>1. s >= size /\ s \in {size, MinSize}
    BY <1>0, <1>2 DEF s
  <2> QED BY <1>2, <1>3, <2>1
<1> QED BY <1>3, <1>7, <1>8 DEF r

-----------------------------------------------------------------------------
(* The longest message there is.                                           *)
LEMMA LongestIs ==
    ASSUME NEW m \in Message
    PROVE  /\ Longest \in Nat /\ Longest >= Overhead + ShortLine
           /\ \A o \in Message : o.line + Len(o.body) + Overhead <= Longest
<1> DEFINE size(o) == o.line + Len(o.body)
           S == {size(o) : o \in Message}
           n == Cardinality(Message)
<1>1. \A o \in Message : o.body \in Seq(Symbol) /\ o.line \in Nat /\ o.line >= ShortLine
  BY ExchangeAssumption
<1>2. \A o \in Message : size(o) \in Nat /\ size(o) >= ShortLine
  BY <1>1 DEF ShortLine
<1>3. n \in Nat /\ ExistsBijection(1 .. n, Message)
  BY ExchangeAssumption, FS_CardinalityType
<1> HIDE DEF size, n
<1>4. PICK f \in [1 .. n -> Message] : \A o \in Message : \E i \in 1 .. n : f[i] = o
  BY <1>3 DEF ExistsBijection, Bijection, Surjection
<1> DEFINE P == {k \in 0 .. n : k > 0 => \E i \in 1 .. k : \A j \in 1 .. k : size(f[j]) <= size(f[i])}
<1>5. 0 \in P
  BY <1>3
<1>6. ASSUME NEW k \in 0 .. n - 1, k \in P PROVE k + 1 \in P
  <2>0. \A j \in 1 .. k + 1 : size(f[j]) \in Nat
    BY <1>2, <1>3
  <2>1. CASE k = 0
    BY <1>3, <2>0, <2>1
  <2>2. CASE k > 0
    <3>1. PICK i \in 1 .. k : \A j \in 1 .. k : size(f[j]) <= size(f[i])
      BY <1>6, <2>2
    <3>2. CASE size(f[k + 1]) <= size(f[i])
      <4>1. \A j \in 1 .. k + 1 : size(f[j]) <= size(f[i])
        BY <3>1, <3>2
      <4> QED BY <1>3, <4>1
    <3>3. CASE ~(size(f[k + 1]) <= size(f[i]))
      <4>1. \A j \in 1 .. k + 1 : size(f[j]) <= size(f[k + 1])
        BY <2>0, <3>1, <3>3
      <4> QED BY <1>3, <4>1
    <3> QED BY <3>2, <3>3
  <2> QED BY <1>3, <2>1, <2>2
<1>7. n \in P
  <2> HIDE DEF P
  <2> QED BY <1>3, <1>5, <1>6, Induct
<1>8. \E x \in S : \A y \in S : x >= y
  <2>1. n > 0
    BY <1>3, <1>4
  <2>2. PICK i \in 1 .. n : \A j \in 1 .. n : size(f[j]) <= size(f[i])
    BY <1>7, <2>1
  <2>3. f[i] \in Message
    BY <1>4
  <2>4. \A o \in Message : size(f[i]) >= size(o)
    BY <1>2, <1>4, <2>2, <2>3
  <2> QED BY <2>3, <2>4
<1>9. Max(S) \in S /\ \A y \in S : Max(S) >= y
  <2> HIDE DEF S
  <2> QED BY <1>8 DEF Max
<1>10. Longest = Max(S) + Overhead
  BY DEF Longest, size
<1>11. Max(S) \in Nat /\ Max(S) >= ShortLine /\ \A o \in Message : size(o) <= Max(S)
  <2>1. Max(S) \in Nat /\ Max(S) >= ShortLine
    BY <1>2, <1>9
  <2> QED BY <1>2, <1>9, <2>1
<1> HIDE DEF S
<1>12. \A o \in Message : size(o) + Overhead <= Longest
  BY <1>2, <1>10, <1>11 DEF Overhead
<1> QED BY <1>10, <1>11, <1>12 DEF Overhead, ShortLine, size

-----------------------------------------------------------------------------
(* The operations of a buffer.                                             *)
Most == Longest + ReadSize
Buffer(b) ==
    /\ b \in [data : Seq(Symbol), misalign : Nat, total : Nat]
    /\ Block(b.total) /\ Used(b) <= b.total /\ b.total < 2 * Most

LEMMA MostIs ==
    ASSUME NEW m \in Message
    PROVE  Most \in Nat /\ MinSize \in Nat /\ ReadSize \in Nat /\ MinSize < 2 * Most
           /\ Longest <= Most
<1>1. Longest \in Nat /\ Longest >= 23
  BY LongestIs DEF Overhead, ShortLine
<1> QED BY <1>1, BufferAssumption, ExchangeAssumption DEF Most

LEMMA ExpandIs ==
    ASSUME NEW m \in Message, NEW b, Buffer(b), NEW n \in Nat, Len(b.data) + n <= Most
    PROVE  /\ Buffer(Expand(b, n)) /\ Expand(b, n).data = b.data
           /\ Used(Expand(b, n)) + n <= Expand(b, n).total
<1> DEFINE r == Grown(b.total, Len(b.data) + n)
<1>1. /\ b.data \in Seq(Symbol) /\ b.misalign \in Nat /\ b.total \in Nat /\ Len(b.data) \in Nat
      /\ b \in [data : Seq(Symbol), misalign : Nat, total : Nat]
  BY DEF Buffer
<1>2. /\ Block(r) /\ r >= Len(b.data) + n /\ r >= b.total
      /\ (r \in {b.total, MinSize} \/ r < 2 * (Len(b.data) + n))
  BY <1>1, GrownIs DEF Buffer
<1>3. r \in Nat /\ r < 2 * Most
  BY <1>1, <1>2, MostIs DEF Buffer, Block
<1>4. CASE b.total - Used(b) >= n
  BY <1>1, <1>4 DEF Expand, Buffer, Used
<1>5. CASE b.total - Used(b) < n /\ b.total - Len(b.data) >= n
  <2> DEFINE c == [b EXCEPT !.misalign = 0]
  <2>1. Expand(b, n) = c
    BY <1>1, <1>5 DEF Expand, Used
  <2>2. /\ c \in [data : Seq(Symbol), misalign : Nat, total : Nat]
        /\ c.data = b.data /\ c.misalign = 0 /\ c.total = b.total
    BY <1>1
  <2> HIDE DEF c
  <2> QED BY <1>1, <1>5, <2>1, <2>2 DEF Buffer, Used
<1>6. CASE b.total - Len(b.data) < n
  <2> DEFINE c == [b EXCEPT !.misalign = 0, !.total = r]
  <2> HIDE DEF r
  <2>1. Expand(b, n) = c
    BY <1>1, <1>6 DEF Expand, Used, r
  <2>2. /\ c \in [data : Seq(Symbol), misalign : Nat, total : Nat]
        /\ c.data = b.data /\ c.misalign = 0 /\ c.total = r
    BY <1>1, <1>3
  <2> HIDE DEF c
  <2> QED BY <1>1, <1>2, <1>3, <1>6, <2>1, <2>2 DEF Buffer, Used
<1> QED BY <1>1, <1>4, <1>5, <1>6 DEF Used

LEMMA FillIs ==
    ASSUME NEW b, Buffer(b), NEW bytes \in Seq(Symbol), Used(b) + Len(bytes) <= b.total
    PROVE  Buffer(Fill(b, bytes)) /\ Fill(b, bytes).data = b.data \o bytes
<1>1. /\ b.data \in Seq(Symbol) /\ b.misalign \in Nat /\ b.total \in Nat
      /\ b \in [data : Seq(Symbol), misalign : Nat, total : Nat]
  BY DEF Buffer
<1> DEFINE d == b.data \o bytes
           c == [b EXCEPT !.data = d]
<1>2. d \in Seq(Symbol) /\ Len(d) = Len(b.data) + Len(bytes)
  BY <1>1, ConcatProperties
<1>3. Fill(b, bytes) = c
  BY DEF Fill
<1> HIDE DEF d
<1>4. /\ c \in [data : Seq(Symbol), misalign : Nat, total : Nat]
      /\ c.data = d /\ c.misalign = b.misalign /\ c.total = b.total
  BY <1>1, <1>2
<1> HIDE DEF c
<1>5. Used(c) <= c.total
  BY <1>1, <1>2, <1>4 DEF Used
<1> QED BY <1>3, <1>4, <1>5 DEF Buffer, d

LEMMA ResetIs ==
    ASSUME NEW b, Buffer(b)
    PROVE  Buffer(Reset(b)) /\ Reset(b).data = <<>>
<1>1. /\ b \in [data : Seq(Symbol), misalign : Nat, total : Nat]
      /\ <<>> \in Seq(Symbol) /\ Len(<<>>) = 0
  BY EmptySeq DEF Buffer
<1> DEFINE c == [b EXCEPT !.data = <<>>, !.misalign = 0]
<1>2. /\ c \in [data : Seq(Symbol), misalign : Nat, total : Nat]
      /\ c.data = <<>> /\ c.misalign = 0 /\ c.total = b.total
  BY <1>1
<1>3. Reset(b) = c
  BY DEF Reset
<1> HIDE DEF c
<1>4. Used(c) <= c.total
  BY <1>1, <1>2 DEF Used
<1> QED BY <1>2, <1>3, <1>4 DEF Buffer

LEMMA EraseIs ==
    ASSUME NEW b, Buffer(b), NEW n \in Nat
    PROVE  /\ Buffer(Erase(b, n))
           /\ Erase(b, n).data = SubSeq(b.data, n + 1, Len(b.data))
<1>1. /\ b.data \in Seq(Symbol) /\ b.misalign \in Nat /\ b.total \in Nat /\ Len(b.data) \in Nat
      /\ b \in [data : Seq(Symbol), misalign : Nat, total : Nat]
  BY DEF Buffer
<1> DEFINE d == SubSeq(b.data, n + 1, Len(b.data))
<1>2. CASE n >= Len(b.data)
  <2>1. d = <<>>
    BY <1>1, <1>2, SubSeqEmpty
  <2> QED BY <1>2, <2>1, ResetIs DEF Erase
<1>3. CASE ~(n >= Len(b.data))
  <2>1. d \in Seq(Symbol) /\ Len(d) = Len(b.data) - n
    <3>1. \A i \in n + 1 .. Len(b.data) : b.data[i] \in Symbol
      BY <1>1, ElementOfSeq
    <3> QED BY <1>1, <1>3, <3>1, SubSeqProperties
  <2> HIDE DEF d
  <2> DEFINE c == [b EXCEPT !.data = d, !.misalign = b.misalign + n]
  <2>2. Erase(b, n) = c
    BY <1>3 DEF Erase, d
  <2>3. /\ c \in [data : Seq(Symbol), misalign : Nat, total : Nat]
        /\ c.data = d /\ c.misalign = b.misalign + n /\ c.total = b.total
    <3> DEFINE x == b.misalign + n
    <3>1. x \in Nat /\ d \in Seq(Symbol)
      BY <1>1, <2>1
    <3> HIDE DEF x
    <3>2. c = [b EXCEPT !.data = d, !.misalign = x]
      BY DEF x
    <3>3. /\ c \in [data : Seq(Symbol), misalign : Nat, total : Nat]
          /\ c.data = d /\ c.misalign = x /\ c.total = b.total
      BY <1>1, <3>1, <3>2
    <3> QED BY <3>3 DEF x
  <2> HIDE DEF c
  <2>4. Used(c) <= c.total
    BY <1>1, <2>1, <2>3 DEF Used, Buffer
  <2> QED BY <2>2, <2>3, <2>4 DEF Buffer, d
<1> QED BY <1>2, <1>3

LEMMA AppendIs ==
    ASSUME NEW m \in Message, NEW b, Buffer(b), NEW bytes \in Seq(Symbol), Len(bytes) <= Longest
    PROVE  /\ Buffer(AppendTo(Reset(b), bytes)) /\ AppendTo(Reset(b), bytes).data = bytes
<1> DEFINE c == Reset(b)  e == Expand(c, Len(bytes))
<1>1. Buffer(c) /\ c.data = <<>>
  BY ResetIs
<1> HIDE DEF c
<1>2. Len(bytes) \in Nat /\ Len(c.data) + Len(bytes) <= Most
  BY <1>1, MostIs, LongestIs, EmptySeq
<1>3. Buffer(e) /\ e.data = <<>> /\ Used(e) + Len(bytes) <= e.total
  BY <1>1, <1>2, ExpandIs
<1> HIDE DEF e
<1>4. AppendTo(c, bytes) = Fill(e, bytes)
  BY DEF AppendTo, Fill, e
<1>5. <<>> \o bytes = bytes
  BY ConcatEmptySeq
<1> QED BY <1>3, <1>4, <1>5, FillIs DEF c

-----------------------------------------------------------------------------
(* The part of a sequence after the first i, up to the first j elements.   *)
Piece(s, i, j) == SubSeq(s, i + 1, j)

LEMMA PieceIs ==
    ASSUME NEW s \in Seq(Symbol), NEW i \in Nat, NEW j \in Nat, i <= j, j <= Len(s)
    PROVE  /\ Piece(s, i, j) \in Seq(Symbol) /\ Len(Piece(s, i, j)) = j - i
           /\ \A n \in 1 .. j - i : Piece(s, i, j)[n] = s[i + n]
<1>1. Len(s) \in Nat
  BY LenProperties
<1>2. \A n \in i + 1 .. j : s[n] \in Symbol
  BY <1>1, ElementOfSeq
<1>3. i + 1 \in Int /\ j \in Int
  OBVIOUS
<1>4. /\ SubSeq(s, i + 1, j) \in Seq(Symbol)
      /\ Len(SubSeq(s, i + 1, j)) = IF i + 1 <= j THEN j - (i + 1) + 1 ELSE 0
      /\ \A n \in 1 .. j - (i + 1) + 1 : SubSeq(s, i + 1, j)[n] = s[i + 1 + n - 1]
  BY <1>2, <1>3, SubSeqProperties
<1>5. Len(SubSeq(s, i + 1, j)) = j - i
  BY <1>4
<1>6. ASSUME NEW n \in 1 .. j - i PROVE SubSeq(s, i + 1, j)[n] = s[i + n]
  <2>1. n \in 1 .. j - (i + 1) + 1 /\ i + 1 + n - 1 = i + n
    OBVIOUS
  <2> QED BY <1>4, <2>1
<1> QED BY <1>4, <1>5, <1>6 DEF Piece

LEMMA PieceEqual ==
    ASSUME NEW s \in Seq(Symbol), NEW i \in Nat, NEW j \in Nat, i <= j, j <= Len(s),
           NEW t \in Seq(Symbol), Len(t) = j - i, \A n \in 1 .. j - i : t[n] = s[i + n]
    PROVE  t = Piece(s, i, j)
<1> DEFINE p == Piece(s, i, j)
<1>1. p \in Seq(Symbol) /\ Len(p) = j - i /\ \A n \in 1 .. j - i : p[n] = s[i + n]
  BY PieceIs
<1> HIDE DEF p
<1>2. t = p
  BY <1>1, SeqEqual
<1> QED BY <1>2 DEF p

LEMMA PieceOfPiece ==
    ASSUME NEW s \in Seq(Symbol), NEW i \in Nat, NEW j \in Nat, i <= j, j <= Len(s),
           NEW a \in Nat, NEW b \in Nat, a <= b, b <= j - i
    PROVE  Piece(Piece(s, i, j), a, b) = Piece(s, i + a, i + b)
<1> DEFINE p == Piece(s, i, j)
<1>1. p \in Seq(Symbol) /\ Len(p) = j - i /\ \A n \in 1 .. j - i : p[n] = s[i + n]
  BY PieceIs
<1> HIDE DEF p
<1> DEFINE t == Piece(p, a, b)
<1>2. t \in Seq(Symbol) /\ Len(t) = b - a /\ \A n \in 1 .. b - a : t[n] = p[a + n]
  BY <1>1, PieceIs
<1> HIDE DEF t
<1> DEFINE u == i + a  v == i + b
<1>3. u \in Nat /\ v \in Nat /\ u <= v /\ v <= Len(s) /\ v - u = b - a
  BY LenProperties
<1>4. ASSUME NEW n \in 1 .. v - u PROVE t[n] = s[u + n]
  <2>1. n \in 1 .. b - a /\ a + n \in 1 .. j - i /\ i + (a + n) = u + n
    OBVIOUS
  <2> QED BY <1>1, <1>2, <2>1
<1> HIDE DEF u, v
<1>5. t \in Seq(Symbol) /\ Len(t) = v - u
  BY <1>2, <1>3
<1>6. t = Piece(s, u, v)
  BY <1>3, <1>4, <1>5, PieceEqual
<1> QED BY <1>6 DEF t, p, u, v

LEMMA PieceJoin ==
    ASSUME NEW s \in Seq(Symbol), NEW i \in Nat, NEW j \in Nat, NEW k \in Nat,
           i <= j, j <= k, k <= Len(s)
    PROVE  Piece(s, i, j) \o Piece(s, j, k) = Piece(s, i, k)
<1>1. Len(s) \in Nat
  BY LenProperties
<1>2. i + 1 \in 1 .. Len(s) + 1 /\ j \in (i + 1) - 1 .. Len(s) /\ k \in j .. Len(s)
  BY <1>1
<1> QED BY <1>2, ConcatAdjacentSubSeq DEF Piece

LEMMA PieceEnds ==
    ASSUME NEW s \in Seq(Symbol)
    PROVE  /\ Piece(s, 0, Len(s)) = s
           /\ \A i \in Nat : Piece(s, i, i) = <<>>
           /\ \A i \in Nat : From(s, i + 1) = Piece(s, i, Len(s))
<1>1. Piece(s, 0, Len(s)) = s
  BY SubSeqFull DEF Piece
<1>2. ASSUME NEW i \in Nat PROVE Piece(s, i, i) = <<>>
  <2>1. i + 1 \in Int /\ i \in Int /\ i < i + 1
    OBVIOUS
  <2> QED BY <2>1, SubSeqEmpty DEF Piece
<1> QED BY <1>1, <1>2 DEF Piece, From

LEMMA FromIs ==
    ASSUME NEW s \in Seq(Symbol), NEW p \in Nat, p <= Len(s)
    PROVE  /\ From(s, p + 1) \in Seq(Symbol) /\ Len(From(s, p + 1)) = Len(s) - p
           /\ \A i \in 1 .. Len(s) - p : From(s, p + 1)[i] = s[p + i]
<1> DEFINE n == Len(s)
<1>1. n \in Nat /\ p <= n /\ n <= Len(s)
  BY LenProperties
<1>2. From(s, p + 1) = Piece(s, p, n)
  BY PieceEnds
<1> HIDE DEF n
<1>3. /\ Piece(s, p, n) \in Seq(Symbol) /\ Len(Piece(s, p, n)) = n - p
      /\ \A i \in 1 .. n - p : Piece(s, p, n)[i] = s[p + i]
  BY <1>1, PieceIs
<1> QED BY <1>2, <1>3 DEF n

LEMMA PieceEmpty ==
    ASSUME NEW s \in Seq(Symbol), NEW i \in Nat, NEW j \in Nat, i <= j, j <= Len(s),
           Piece(s, i, j) = <<>>
    PROVE  i = j
BY PieceIs, EmptySeq

(* What is first and last in a set of numbers.                             *)
LEMMA MinIs ==
    ASSUME NEW S, S \subseteq Int, NEW x \in S, \A y \in S : x <= y
    PROVE  Min(S) = x
<1>1. Min(S) \in S /\ Min(S) <= x
  BY DEF Min
<1>2. Min(S) \in Int /\ x \in Int /\ x <= Min(S)
  BY <1>1
<1> QED BY <1>1, <1>2

LEMMA MaxIs ==
    ASSUME NEW S, S \subseteq Int, NEW x \in S, \A y \in S : x >= y
    PROVE  Max(S) = x
<1>1. Max(S) \in S /\ Max(S) >= x
  BY DEF Max
<1>2. Max(S) \in Int /\ x \in Int /\ x >= Max(S)
  BY <1>1
<1> QED BY <1>1, <1>2

LEMMA MaxOf ==
    ASSUME NEW n \in Nat, NEW S, S \subseteq 0 .. n, S # {}
    PROVE  Max(S) \in S /\ \A y \in S : Max(S) >= y
<1> DEFINE P == {k \in Nat : (\E x \in S : x <= k) => \E x \in S : x <= k /\ \A y \in S : y <= k => x >= y}
<1>1. 0 \in P
  OBVIOUS
<1>2. ASSUME NEW k \in 0 .. n - 1, k \in P PROVE k + 1 \in P
  <2>1. CASE k + 1 \in S
    BY <2>1
  <2>2. CASE k + 1 \notin S
    <3>1. \A x \in S : x <= k + 1 <=> x <= k
      BY <2>2
    <3> QED BY <1>2, <3>1
  <2> QED BY <2>1, <2>2
<1>3. n \in P
  <2> HIDE DEF P
  <2> QED BY <1>1, <1>2, Induct
<1>4. \A x \in S : x \in Int /\ x <= n
  OBVIOUS
<1>5. \E x \in S : \A y \in S : x >= y
  BY <1>3, <1>4
<1> QED BY <1>5 DEF Max

(* The end of the first line.                                              *)
LEMMA LineLenIs ==
    ASSUME NEW s \in Seq(Symbol), NEW n \in 1 .. Len(s), s[n] = LF,
           \A i \in 1 .. n - 1 : s[i] # LF
    PROVE  LineLen(s) = n
<1> DEFINE I == {i \in 1 .. Len(s) : s[i] = LF}
<1>1. Len(s) \in Nat
  BY LenProperties
<1>2. n \in I /\ I \subseteq Int /\ \A i \in I : n <= i
  BY <1>1
<1>3. LineLen(s) = IF I # {} THEN Min(I) ELSE 0
  BY DEF LineLen, SelectInSeq
<1> HIDE DEF I
<1> QED BY <1>2, <1>3, MinIs

LEMMA NoLine ==
    ASSUME NEW s, \A i \in 1 .. Len(s) : s[i] # LF
    PROVE  LineLen(s) = 0
BY DEF LineLen, SelectInSeq

-----------------------------------------------------------------------------
(* What is sent.                                                           *)
LEMMA Symbols ==
    /\ {Http, Chunked, Flag, CR, BlankCR, LF} \subseteq Symbol
    /\ \A n \in Nat : {Text(n), Length(n), Size(n)} \subseteq Symbol
    /\ CR # LF /\ BlankCR # LF /\ IsCR(CR) /\ IsCR(BlankCR)
    /\ \A n \in Nat : \A x \in {Http, Chunked, Flag, Text(n), Length(n), Size(n)} :
           x # LF /\ ~IsCR(x) /\ x # BlankCR
    /\ \A n \in Nat : /\ Length(n)[1] = "length" /\ Length(n)[2] = n
                      /\ Size(n)[1] = "size" /\ Size(n)[2] = n
                      /\ Text(n)[1] # "length" /\ Text(n) # Chunked /\ Length(n) # Chunked
    /\ Chunked[1] # "length"
<1>1. /\ {Http, Chunked, Flag, CR, BlankCR, LF} \subseteq Symbol
      /\ \A n \in Nat : {Text(n), Length(n), Size(n)} \subseteq Symbol
  BY DEF Symbol, Text, Http, Chunked, Flag, CR, BlankCR, LF, Length, Size
<1>2. /\ CR # LF /\ BlankCR # LF /\ IsCR(CR) /\ IsCR(BlankCR)
      /\ \A n \in Nat : \A x \in {Http, Chunked, Flag, Text(n), Length(n), Size(n)} :
             x # LF /\ ~IsCR(x) /\ x # BlankCR
  BY DEF IsCR, Text, Http, Chunked, Flag, CR, BlankCR, LF, Length, Size
<1>3. /\ \A n \in Nat : /\ Length(n)[1] = "length" /\ Length(n)[2] = n
                        /\ Size(n)[1] = "size" /\ Size(n)[2] = n
                        /\ Text(n)[1] # "length" /\ Text(n) # Chunked /\ Length(n) # Chunked
      /\ Chunked[1] # "length"
  BY DEF Text, Chunked, Length, Size
<1> QED BY <1>1, <1>2, <1>3

LEMMA SeqIs ==
    ASSUME NEW n \in Nat, NEW S, NEW f \in [1 .. n -> S]
    PROVE  f \in Seq(S) /\ Len(f) = n
OBVIOUS

LEMMA Pair ==
    ASSUME NEW S, NEW x \in S, NEW y \in S
    PROVE  /\ <<x, y>> \in Seq(S) /\ Len(<<x, y>>) = 2
           /\ <<x, y>>[1] = x /\ <<x, y>>[2] = y
           /\ <<x>> \in Seq(S) /\ Len(<<x>>) = 1 /\ <<x>>[1] = x
OBVIOUS

LEMMA Line ==
    ASSUME NEW x \in Symbol
    PROVE  /\ CRLF \in Seq(Symbol) /\ Len(CRLF) = 2 /\ CRLF[1] = CR /\ CRLF[2] = LF
           /\ <<x>> \o CRLF \in Seq(Symbol) /\ Len(<<x>> \o CRLF) = 3
           /\ (<<x>> \o CRLF)[1] = x /\ (<<x>> \o CRLF)[2] = CR /\ (<<x>> \o CRLF)[3] = LF
<1>1. CR \in Symbol /\ LF \in Symbol
  BY Symbols
<1>2. CRLF \in Seq(Symbol) /\ Len(CRLF) = 2 /\ CRLF[1] = CR /\ CRLF[2] = LF
  BY <1>1, Pair DEF CRLF
<1> DEFINE c == CRLF  h == <<x>>
<1>3. h \in Seq(Symbol) /\ Len(h) = 1 /\ h[1] = x
  BY Pair
<1> HIDE DEF c, h
<1>6. c \in Seq(Symbol) /\ Len(c) = 2
  BY <1>2 DEF c
<1>7. /\ h \o c \in Seq(Symbol) /\ Len(h \o c) = Len(h) + Len(c)
      /\ \A i \in 1 .. Len(h) + Len(c) : (h \o c)[i] = IF i <= Len(h) THEN h[i] ELSE c[i - Len(h)]
  BY <1>3, <1>6, ConcatProperties
<1>4. /\ h \o c \in Seq(Symbol) /\ Len(h \o c) = 3
      /\ \A i \in 1 .. 3 : (h \o c)[i] = IF i <= 1 THEN h[i] ELSE c[i - 1]
  BY <1>3, <1>6, <1>7
<1>5. (h \o c)[1] = h[1] /\ (h \o c)[2] = c[1] /\ (h \o c)[3] = c[2]
  BY <1>4
<1> QED BY <1>2, <1>3, <1>4, <1>5 DEF c, h

LEMMA Flatten ==
    ASSUME NEW f, NEW n \in 0 .. 2, f \in [1 .. n -> Seq(Symbol)]
    PROVE  /\ n = 0 => FlattenSeq(f) = <<>>
           /\ n = 1 => FlattenSeq(f) = f[1]
           /\ n = 2 => FlattenSeq(f) = f[1] \o f[2]
<1>0. n \in Nat /\ (n = 0 \/ n = 1 \/ n = 2)
  OBVIOUS
<1>1. f \in Seq(Seq(Symbol)) /\ Len(f) = n
  <2> DEFINE S == Seq(Symbol)
  <2>1. f \in [1 .. n -> S]
    OBVIOUS
  <2> HIDE DEF S
  <2>2. f \in Seq(S) /\ Len(f) = n
    BY <1>0, <2>1
  <2> QED BY <2>2 DEF S
<1>2. CASE n = 0
  <2>1. FlattenSeq(f) = f
    BY <1>1, <1>2 DEF FlattenSeq
  <2>2. f = <<>>
    BY <1>1, <1>2, EmptySeq
  <2> QED BY <1>2, <2>1, <2>2
<1> DEFINE g == CHOOSE h : h = [i \in 1 .. n |-> IF i = 1 THEN f[i] ELSE h[i - 1] \o f[i]]
           k == [i \in 1 .. n |-> IF i = 1 THEN f[1] ELSE f[1] \o f[2]]
<1>3. CASE n # 0
  <2>1. FlattenSeq(f) = g[n]
    BY <1>1, <1>3 DEF FlattenSeq
  <2>2. k = [i \in 1 .. n |-> IF i = 1 THEN f[i] ELSE k[i - 1] \o f[i]]
    <3>1. ASSUME NEW i \in 1 .. n PROVE k[i] = IF i = 1 THEN f[i] ELSE k[i - 1] \o f[i]
      <4>1. CASE i = 1
        BY <4>1
      <4>2. CASE i = 2
        BY <4>2
      <4> QED BY <4>1, <4>2
    <3> DEFINE l == [i \in 1 .. n |-> IF i = 1 THEN f[i] ELSE k[i - 1] \o f[i]]
    <3>2. \A i \in 1 .. n : k[i] = l[i]
      BY <3>1
    <3>3. k = l
      BY <3>2
    <3> QED BY <3>3
  <2> HIDE DEF k
  <2>3. g = [i \in 1 .. n |-> IF i = 1 THEN f[i] ELSE g[i - 1] \o f[i]]
    <3> HIDE DEF g
    <3> QED BY <2>2 DEF g
  <2> HIDE DEF g
  <2>4. CASE n = 1
    BY <2>1, <2>3, <2>4
  <2>5. CASE n = 2
    <3>1. 1 \in 1 .. n /\ 2 \in 1 .. n /\ 2 # 1 /\ 2 - 1 = 1
      BY <2>5
    <3>2. \A i \in 1 .. n : g[i] = IF i = 1 THEN f[i] ELSE g[i - 1] \o f[i]
      BY <2>3
    <3>3. g[1] = f[1]
      BY <3>1, <3>2
    <3>4. g[2] = g[2 - 1] \o f[2]
      BY <3>1, <3>2
    <3>5. g[2] = f[1] \o f[2]
      BY <3>1, <3>3, <3>4
    <3> QED BY <2>1, <2>5, <3>5
  <2> QED BY <1>0, <1>3, <2>4, <2>5, Zenon
<1> QED BY <1>2, <1>3, Zenon

(* The lines of a header.                                                  *)
LEMMA HeaderLines ==
    ASSUME NEW k \in 1 .. 2, NEW h \in [1 .. k -> Symbol]
    PROVE  LET f == FlattenSeq([i \in DOMAIN h |-> <<h[i]>> \o CRLF]) IN
           /\ f \in Seq(Symbol) /\ Len(f) = 3 * k
           /\ f[1] = h[1] /\ f[2] = CR /\ f[3] = LF
           /\ k = 2 => f[4] = h[2] /\ f[5] = CR /\ f[6] = LF
<1> DEFINE l == [i \in DOMAIN h |-> <<h[i]>> \o CRLF]
           f == FlattenSeq(l)
<1>1. DOMAIN h = 1 .. k /\ k \in 0 .. 2 /\ (k = 1 \/ k = 2)
  OBVIOUS
<1>2. \A i \in 1 .. k : /\ l[i] \in Seq(Symbol) /\ Len(l[i]) = 3
                       /\ l[i][1] = h[i] /\ l[i][2] = CR /\ l[i][3] = LF
  <2> SUFFICES ASSUME NEW i \in 1 .. k
               PROVE  /\ l[i] \in Seq(Symbol) /\ Len(l[i]) = 3
                      /\ l[i][1] = h[i] /\ l[i][2] = CR /\ l[i][3] = LF
    OBVIOUS
  <2>1. h[i] \in Symbol /\ l[i] = <<h[i]>> \o CRLF
    BY <1>1
  <2> HIDE DEF l
  <2> QED BY <2>1, Line
<1>3. l \in [1 .. k -> Seq(Symbol)]
  BY <1>1, <1>2
<1> HIDE DEF l
<1>4. /\ k = 1 => f = l[1]
      /\ k = 2 => f = l[1] \o l[2]
  BY <1>1, <1>3, Flatten
<1> HIDE DEF f
<1>5. ASSUME k = 1
      PROVE  f \in Seq(Symbol) /\ Len(f) = 3 * k /\ f[1] = h[1] /\ f[2] = CR /\ f[3] = LF
  <2>1. f = l[1] /\ 1 \in 1 .. k
    BY <1>4, <1>5
  <2> QED BY <1>2, <1>5, <2>1
<1>6. ASSUME k = 2
      PROVE  /\ f \in Seq(Symbol) /\ Len(f) = 3 * k /\ f[1] = h[1] /\ f[2] = CR /\ f[3] = LF
             /\ f[4] = h[2] /\ f[5] = CR /\ f[6] = LF
  <2>0. 1 \in 1 .. k /\ 2 \in 1 .. k
    BY <1>6
  <2>1. f = l[1] \o l[2] /\ 1 \in 1 .. k /\ 2 \in 1 .. k
    BY <1>4, <1>6, <2>0, Zenon
  <2> DEFINE a == l[1]  b == l[2]
  <2>2. /\ a \in Seq(Symbol) /\ Len(a) = 3 /\ a[1] = h[1] /\ a[2] = CR /\ a[3] = LF
        /\ b \in Seq(Symbol) /\ Len(b) = 3 /\ b[1] = h[2] /\ b[2] = CR /\ b[3] = LF
    BY <1>2, <2>1
  <2> HIDE DEF a, b
  <2>3. /\ a \o b \in Seq(Symbol) /\ Len(a \o b) = Len(a) + Len(b)
        /\ \A i \in 1 .. Len(a) + Len(b) : (a \o b)[i] = IF i <= Len(a) THEN a[i] ELSE b[i - Len(a)]
    BY <2>2, ConcatProperties
  <2>4. f = a \o b
    BY <2>1 DEF a, b
  <2>5. /\ f \in Seq(Symbol) /\ Len(f) = 6
        /\ \A i \in 1 .. 6 : f[i] = IF i <= 3 THEN a[i] ELSE b[i - 3]
    BY <2>2, <2>3, <2>4
  <2>6. f[1] = a[1] /\ f[2] = a[2] /\ f[3] = a[3] /\ f[4] = b[1] /\ f[5] = b[2] /\ f[6] = b[3]
    BY <2>5
  <2> QED BY <1>6, <2>2, <2>5, <2>6
<1>7. /\ f \in Seq(Symbol) /\ Len(f) = 3 * k
      /\ f[1] = h[1] /\ f[2] = CR /\ f[3] = LF
      /\ k = 2 => f[4] = h[2] /\ f[5] = CR /\ f[6] = LF
  BY <1>1, <1>5, <1>6
<1> QED BY <1>7 DEF f, l

(* A text with a header: where its lines end.  first is the end of the     *)
(* first line, last that of the last header line.                          *)
HeaderOf(w, first, ends, last) ==
    /\ w \in Seq(Symbol) /\ first \in Nat /\ last \in Nat /\ ends \subseteq first .. last
    /\ first \in ends /\ last \in ends /\ first >= ShortLine /\ last + 2 <= Len(w)
    /\ \A i \in 1 .. last + 1 : w[i] = LF <=> i \in ends
    /\ \A i \in ends : i < last => i + 3 \in ends /\ w[i + 1] # LF /\ ~IsCR(w[i + 1])
    /\ w[last + 1] = BlankCR /\ w[last + 2] = LF

(* What the header lines before x say.                                     *)
Lines(w, ends, x) == {w[i + 1] : i \in {j \in ends : j < x}}

TextWith(w, symbol, first, last, lines, body) ==
    \E ends : /\ HeaderOf(w, first, ends, last) /\ w[1] = symbol
              /\ Len(w) = last + 2 + Len(body) /\ Piece(w, last + 2, Len(w)) = body
              /\ Lines(w, ends, last) = lines

LEMMA HttpTextIs ==
    ASSUME NEW k \in 1 .. 2, NEW h \in [1 .. k -> Symbol], NEW symbol \in Symbol,
           symbol # LF, \A i \in 1 .. k : h[i] # LF /\ ~IsCR(h[i]),
           NEW line \in Nat, line >= ShortLine, NEW body \in Seq(Symbol),
           NEW first, first.symbol = symbol, first.line = line
    PROVE  TextWith(HttpText(first, h, body), symbol, line, line + 3 * k, Range(h), body)
<1> DEFINE a == [i \in 1 .. line - 2 |-> IF i = 1 THEN symbol ELSE Text(0)]
           f == FlattenSeq([i \in DOMAIN h |-> <<h[i]>> \o CRLF])
           b == a \o CRLF
           c == b \o f
           d == c \o <<BlankCR, LF>>
           w == d \o body
           last == line + 3 * k
           ends == {line, line + 3} \cup IF k = 2 THEN {line + 6} ELSE {}
<1>0. HttpText(first, h, body) = w
  BY DEF HttpText
<1>1. (k = 1 \/ k = 2) /\ line - 2 \in Nat \ {0} /\ Text(0) \in Symbol /\ Text(0) # LF
  BY Symbols DEF ShortLine
<1>2. /\ a \in Seq(Symbol) /\ Len(a) = line - 2 /\ a[1] = symbol
      /\ \A i \in 1 .. line - 2 : a[i] # LF
  <2>1. a \in [1 .. line - 2 -> Symbol]
    BY <1>1
  <2>2. a[1] = symbol /\ \A i \in 1 .. line - 2 : a[i] # LF
    BY <1>1
  <2> HIDE DEF a
  <2>3. a \in Seq(Symbol) /\ Len(a) = line - 2
    BY <1>1, <2>1
  <2> QED BY <2>2, <2>3
<1> HIDE DEF a
<1>3. CRLF \in Seq(Symbol) /\ Len(CRLF) = 2 /\ CRLF[1] = CR /\ CRLF[2] = LF
  BY Line, <1>1
<1>4. /\ b \in Seq(Symbol) /\ Len(b) = line /\ b[1] = symbol
      /\ b[line] = LF /\ \A i \in 1 .. line - 1 : b[i] # LF
  <2>1. /\ b \in Seq(Symbol) /\ Len(b) = Len(a) + Len(CRLF)
        /\ \A i \in 1 .. Len(a) + Len(CRLF) : b[i] = IF i <= Len(a) THEN a[i] ELSE CRLF[i - Len(a)]
    BY <1>2, <1>3, ConcatProperties
  <2> HIDE DEF b
  <2>2. /\ \A i \in 1 .. line - 2 : b[i] = a[i]
        /\ b[line - 1] = CRLF[1] /\ b[line] = CRLF[2] /\ Len(b) = line
    <3>1. \A i \in 1 .. line : b[i] = IF i <= line - 2 THEN a[i] ELSE CRLF[i - (line - 2)]
      BY <1>1, <1>2, <1>3, <2>1
    <3>2. line - 1 \in 1 .. line /\ line - 1 - (line - 2) = 1 /\ line - (line - 2) = 2
      BY <1>1
    <3> QED BY <1>1, <1>2, <1>3, <2>1, <3>1, <3>2
  <2>3. \A i \in 1 .. line - 1 : i \in 1 .. line - 2 \/ i = line - 1
    BY <1>1
  <2>4. 1 \in 1 .. line - 2 /\ CR # LF
    BY <1>1, Symbols
  <2>5. \A i \in 1 .. line - 1 : b[i] # LF
    BY <1>2, <1>3, <2>2, <2>3, <2>4
  <2> QED BY <1>2, <1>3, <2>1, <2>2, <2>4, <2>5
<1> HIDE DEF b
<1>5. /\ f \in Seq(Symbol) /\ Len(f) = 3 * k
      /\ f[1] = h[1] /\ f[2] = CR /\ f[3] = LF
      /\ k = 2 => f[4] = h[2] /\ f[5] = CR /\ f[6] = LF
  BY HeaderLines
<1> HIDE DEF f
<1>6. /\ c \in Seq(Symbol) /\ Len(c) = last
      /\ \A i \in 1 .. line : c[i] = b[i]
      /\ c[line + 1] = h[1] /\ c[line + 2] = CR /\ c[line + 3] = LF
      /\ k = 2 => c[line + 4] = h[2] /\ c[line + 5] = CR /\ c[line + 6] = LF
  <2>1. /\ c \in Seq(Symbol) /\ Len(c) = Len(b) + Len(f)
        /\ \A i \in 1 .. Len(b) + Len(f) : c[i] = IF i <= Len(b) THEN b[i] ELSE f[i - Len(b)]
    BY <1>4, <1>5, ConcatProperties
  <2> HIDE DEF c
  <2>2. /\ \A i \in 1 .. line : c[i] = b[i]
        /\ c[line + 1] = f[1] /\ c[line + 2] = f[2] /\ c[line + 3] = f[3]
        /\ k = 2 => c[line + 4] = f[4] /\ c[line + 5] = f[5] /\ c[line + 6] = f[6]
    <3> DEFINE z == Len(b) + Len(f)
    <3>1. Len(b) = line /\ Len(f) = 3 * k /\ z = line + 3 * k /\ line \in Nat /\ k \in Nat /\ line >= 3
      BY <1>1, <1>4, <1>5 DEF ShortLine
    <3>2. \A i \in 1 .. z : c[i] = IF i <= line THEN b[i] ELSE f[i - line]
      BY <2>1, <3>1
    <3> HIDE DEF z
    <3>3. \A i \in 1 .. line : c[i] = b[i]
      BY <3>1, <3>2
    <3>4. \A j \in 1 .. 3 * k : c[line + j] = f[j]
      <4> SUFFICES ASSUME NEW j \in 1 .. 3 * k PROVE c[line + j] = f[j]
        OBVIOUS
      <4>1. line + j \in 1 .. z /\ ~(line + j <= line) /\ line + j - line = j
        BY <3>1
      <4> QED BY <3>2, <4>1
    <3>5. 1 \in 1 .. 3 * k /\ 2 \in 1 .. 3 * k /\ 3 \in 1 .. 3 * k
          /\ (k = 2 => 4 \in 1 .. 3 * k /\ 5 \in 1 .. 3 * k /\ 6 \in 1 .. 3 * k)
      BY <1>1
    <3> QED BY <3>3, <3>4, <3>5
  <2>3. Len(c) = last /\ c \in Seq(Symbol)
    BY <1>4, <1>5, <2>1
  <2> HIDE DEF last
  <2> QED BY <1>5, <2>2, <2>3
<1> HIDE DEF c
<1>7. /\ d \in Seq(Symbol) /\ Len(d) = last + 2
      /\ \A i \in 1 .. last : d[i] = c[i]
      /\ d[last + 1] = BlankCR /\ d[last + 2] = LF
  <2> DEFINE e == <<BlankCR, LF>>
  <2>1. e \in Seq(Symbol) /\ Len(e) = 2 /\ e[1] = BlankCR /\ e[2] = LF
    BY Symbols, Pair
  <2>2. d = c \o e
    OBVIOUS
  <2> HIDE DEF d, e
  <2>3. /\ d \in Seq(Symbol) /\ Len(d) = Len(c) + Len(e)
        /\ \A i \in 1 .. Len(c) + Len(e) : d[i] = IF i <= Len(c) THEN c[i] ELSE e[i - Len(c)]
    <3>1. c \in Seq(Symbol) /\ e \in Seq(Symbol)
      BY <1>6, <2>1
    <3> QED BY <2>2, <3>1, ConcatProperties
  <2>4. last \in Nat
    BY <1>1
  <2> HIDE DEF last
  <2>5. /\ d \in Seq(Symbol) /\ Len(d) = last + 2
        /\ \A i \in 1 .. last + 2 : d[i] = IF i <= last THEN c[i] ELSE e[i - last]
    BY <1>6, <2>1, <2>3, <2>4
  <2>6. d[last + 1] = e[1] /\ d[last + 2] = e[2]
    BY <2>4, <2>5
  <2>7. \A i \in 1 .. last : d[i] = c[i]
    <3> SUFFICES ASSUME NEW i \in 1 .. last PROVE d[i] = c[i]
      OBVIOUS
    <3>1. i \in 1 .. last + 2 /\ i <= last
      BY <2>4
    <3> QED BY <2>5, <3>1
  <2> QED BY <2>1, <2>5, <2>6, <2>7
<1> HIDE DEF d
<1>8. /\ w \in Seq(Symbol) /\ Len(w) = last + 2 + Len(body) /\ Len(body) \in Nat
      /\ \A i \in 1 .. last + 2 : w[i] = d[i]
      /\ \A n \in 1 .. Len(body) : body[n] = w[last + 2 + n]
  <2>1. /\ w \in Seq(Symbol) /\ Len(w) = Len(d) + Len(body)
        /\ \A i \in 1 .. Len(d) + Len(body) : w[i] = IF i <= Len(d) THEN d[i] ELSE body[i - Len(d)]
    BY <1>7, ConcatProperties
  <2> DEFINE n == Len(body)
  <2>2. last \in Nat /\ n \in Nat
    BY <1>1, LenProperties
  <2> HIDE DEF last, w
  <2>3. /\ w \in Seq(Symbol) /\ Len(w) = last + 2 + n
        /\ \A i \in 1 .. last + 2 + n : w[i] = IF i <= last + 2 THEN d[i] ELSE body[i - (last + 2)]
    BY <1>7, <2>1
  <2> HIDE DEF n
  <2>4. ASSUME NEW i \in 1 .. last + 2 PROVE w[i] = d[i]
    <3>1. i \in 1 .. last + 2 + n /\ i <= last + 2
      BY <2>2
    <3> QED BY <2>3, <3>1
  <2>5. ASSUME NEW i \in 1 .. n PROVE body[i] = w[last + 2 + i]
    <3> DEFINE x == last + 2 + i
    <3>1. x \in 1 .. last + 2 + n /\ ~(x <= last + 2) /\ x - (last + 2) = i
      BY <2>2
    <3> HIDE DEF x
    <3>2. w[x] = body[i]
      BY <2>3, <3>1
    <3> QED BY <3>2 DEF x
  <2> QED BY <2>2, <2>3, <2>4, <2>5 DEF n
<1> HIDE DEF w
<1>9. last \in Nat /\ line <= last /\ (k = 1 => last = line + 3) /\ (k = 2 => last = line + 6)
  BY <1>1
<1>10. body = Piece(w, last + 2, Len(w))
  <2> DEFINE i == last + 2  j == Len(w)
  <2>1. /\ i \in Nat /\ j \in Nat /\ i <= j /\ j <= Len(w) /\ Len(body) = j - i
        /\ \A n \in 1 .. j - i : body[n] = w[i + n]
    BY <1>8, <1>9
  <2> HIDE DEF i, j, last
  <2>2. body = Piece(w, i, j)
    BY <1>8, <2>1, PieceEqual
  <2> QED BY <2>2 DEF i, j
<1>11. /\ \A i \in 1 .. line - 1 : w[i] # LF
       /\ w[1] = symbol /\ w[line] = LF
       /\ w[line + 1] = h[1] /\ w[line + 2] = CR /\ w[line + 3] = LF
       /\ k = 2 => w[line + 4] = h[2] /\ w[line + 5] = CR /\ w[line + 6] = LF
       /\ w[last + 1] = BlankCR /\ w[last + 2] = LF
  <2>1. \A i \in 1 .. last : w[i] = c[i]
    BY <1>7, <1>8, <1>9
  <2>2. \A i \in 1 .. line : w[i] = b[i]
    BY <1>6, <1>9, <2>1
  <2> HIDE DEF last
  <2> QED BY <1>1, <1>4, <1>6, <1>7, <1>8, <1>9, <2>1, <2>2 DEF ShortLine
<1>12. /\ h[1] # LF /\ ~IsCR(h[1]) /\ (k = 2 => h[2] # LF /\ ~IsCR(h[2]))
       /\ CR # LF /\ BlankCR # LF
  BY <1>1, Symbols
<1>13. HeaderOf(w, line, ends, last)
  <2>1. ends \subseteq line .. last /\ line \in ends /\ last \in ends
    BY <1>1, <1>9
  <2>2. ASSUME NEW i \in 1 .. last + 1 PROVE w[i] = LF <=> i \in ends
    <3>1. CASE i < line
      <4>1. i \in 1 .. line - 1 /\ i \notin line .. last
        BY <1>1, <1>9, <3>1
      <4>2. w[i] # LF
        BY <1>11, <4>1
      <4> QED BY <2>1, <4>1, <4>2
    <3>2. CASE i >= line /\ k = 1
      <4>1. \/ i = line \/ i = line + 1 \/ i = line + 2 \/ i = line + 3 \/ i = last + 1
        BY <1>9, <3>2
      <4> HIDE DEF last
      <4> QED BY <1>9, <1>11, <1>12, <3>2, <4>1
    <3>3. CASE i >= line /\ k = 2
      <4>1. \/ i = line \/ i = line + 1 \/ i = line + 2 \/ i = line + 3 \/ i = line + 4
            \/ i = line + 5 \/ i = line + 6 \/ i = last + 1
        BY <1>9, <3>3
      <4> HIDE DEF last
      <4> QED BY <1>9, <1>11, <1>12, <3>3, <4>1
    <3> QED BY <1>1, <3>1, <3>2, <3>3
  <2>3. ASSUME NEW i \in ends, i < last
        PROVE  i + 3 \in ends /\ w[i + 1] # LF /\ ~IsCR(w[i + 1])
    <3>1. i = line \/ (k = 2 /\ i = line + 3)
      BY <1>1, <1>9, <2>3
    <3>2. i + 3 \in ends
      BY <3>1, <1>1
    <3>3. i + 1 = line + 1 \/ (k = 2 /\ i + 1 = line + 4)
      BY <3>1
    <3> QED BY <1>11, <1>12, <3>2, <3>3
  <2>4. last + 2 <= Len(w)
    BY <1>8, <1>9
  <2> HIDE DEF ends, last
  <2> QED BY <1>8, <1>9, <1>11, <2>1, <2>2, <2>3, <2>4 DEF HeaderOf
<1>14. Lines(w, ends, last) = Range(h)
  <2>1. CASE k = 1
    <3>1. {j \in ends : j < last} = {line}
      BY <1>9, <2>1
    <3>2. Lines(w, ends, last) = {w[line + 1]}
      <4> HIDE DEF ends, last
      <4> QED BY <3>1 DEF Lines
    <3>3. Range(h) = {h[1]}
      BY <2>1 DEF Range
    <3> QED BY <1>11, <3>2, <3>3
  <2>2. CASE k = 2
    <3>1. {j \in ends : j < last} = {line, line + 3}
      BY <1>9, <2>2
    <3>2. Lines(w, ends, last) = {w[line + 1], w[line + 4]}
      <4> HIDE DEF ends, last
      <4>1. line + 3 + 1 = line + 4
        OBVIOUS
      <4> QED BY <3>1, <4>1 DEF Lines
    <3>3. Range(h) = {h[1], h[2]}
      BY <2>2 DEF Range
    <3> QED BY <1>11, <2>2, <3>2, <3>3
  <2> QED BY <1>1, <2>1, <2>2
<1>15. TextWith(w, symbol, line, last, Range(h), body)
  <2> HIDE DEF ends, last
  <2> QED BY <1>8, <1>10, <1>11, <1>13, <1>14 DEF TextWith
<1> QED BY <1>0, <1>15

(* The headers of a body that is sent as it is.                            *)
PlainLines(lines, body) ==
    \/ /\ \E h \in lines : h[1] = "length"
       /\ \A h \in lines : h[1] = "length" => h[2] = Len(body)
    \/ body = <<>> /\ Chunked \notin lines /\ \A h \in lines : h[1] # "length"
PlainBody(w, end, lines, body) ==
    /\ PlainLines(lines, body)
    /\ Len(w) = end + Len(body) /\ Piece(w, end, Len(w)) = body

(* Of a body in chunks, cuts has pairs: where a chunk begins, how much of  *)
(* the body comes before it.                                               *)
IsLastCut(w, body, x, c) ==
    c = Len(body) /\ Len(w) = x + 5 /\ Piece(w, x, x + 5) = Chunk(<<>>)
IsCut(w, body, cuts, x, c) ==
    \E n \in 1 .. Len(body) - c :
        /\ x + 5 + n < Len(w) /\ Piece(w, x, x + 5 + n) = Chunk(Piece(body, c, c + n))
        /\ <<x + 5 + n, c + n>> \in cuts
ChunkedBody(w, end, lines, cuts, body) ==
    /\ Chunked \in lines /\ \A h \in lines : h[1] # "length"
    /\ cuts \subseteq Nat \X Nat /\ <<end, 0>> \in cuts
    /\ \A x, c \in Nat : <<x, c>> \in cuts => 
           c <= Len(body) /\ (IsLastCut(w, body, x, c) \/ IsCut(w, body, cuts, x, c))

(* What a message is as HTTP text.                                         *)
IsText(w, ends, last, cuts, m, client) ==
    /\ HeaderOf(w, m.line, ends, last) /\ (client => w[1] = Http)
    /\ \/ cuts = {} /\ PlainBody(w, last + 2, Lines(w, ends, last), m.body)
       \/ client /\ ChunkedBody(w, last + 2, Lines(w, ends, last), cuts, m.body)

Sendable(m) == m.body \in Seq(Symbol) /\ m.line \in Nat /\ m.line >= ShortLine

LEMMA FewOf ==
    ASSUME NEW S, NEW x, NEW y, x # y, NEW f \in SetToSeqs({x, y}), x \in S, y \in S
    PROVE  f \in [1 .. 2 -> S] /\ Range(f) = {x, y}
<1>1. Cardinality({x}) = 1 /\ IsFiniteSet({x})
  BY FS_Singleton
<1>2. {x, y} = {x} \cup {y} /\ y \notin {x}
  OBVIOUS
<1>3. Cardinality({x, y}) = 1 + 1
  BY <1>1, <1>2, FS_AddElement
<1>4. f \in [1 .. 2 -> {x, y}] /\ \A i, j \in 1 .. 2 : i # j => f[i] # f[j]
  BY <1>3 DEF SetToSeqs
<1>5. f[1] \in {x, y} /\ f[2] \in {x, y} /\ f[1] # f[2]
  BY <1>4
<1>6. Range(f) = {f[1], f[2]}
  BY <1>4 DEF Range
<1>7. f \in [1 .. 2 -> S]
  BY <1>4
<1> QED BY <1>5, <1>6, <1>7

LEMMA OneOf ==
    ASSUME NEW S, NEW x \in S, NEW f \in SetToSeqs({x})
    PROVE  f \in [1 .. 1 -> S] /\ Range(f) = {x}
<1>1. Cardinality({x}) = 1
  BY FS_Singleton
<1>2. f \in [1 .. 1 -> {x}]
  BY <1>1 DEF SetToSeqs
<1>3. Range(f) = {f[1]}
  BY <1>2 DEF Range
<1> QED BY <1>2, <1>3

(* A text with at most two header lines, and its body as it is.            *)
LEMMA PlainText ==
    ASSUME NEW m, Sendable(m), NEW k \in 1 .. 2, NEW h \in [1 .. k -> Symbol],
           NEW client \in BOOLEAN, NEW symbol \in Symbol, symbol # LF, client => symbol = Http,
           \A i \in 1 .. k : h[i] # LF /\ ~IsCR(h[i]), PlainLines(Range(h), m.body)
    PROVE  LET w == HttpText([symbol |-> symbol, line |-> m.line], h, m.body) IN
           /\ w \in Seq(Symbol) /\ Len(w) <= m.line + Len(m.body) + Overhead
           /\ \E ends, last : IsText(w, ends, last, {}, m, client)
<1> DEFINE first == [symbol |-> symbol, line |-> m.line]
           w == HttpText(first, h, m.body)
           last == m.line + 3 * k
<1>1. first.symbol = symbol /\ first.line = m.line
  OBVIOUS
<1>2. m.body \in Seq(Symbol) /\ m.line \in Nat /\ m.line >= ShortLine /\ Len(m.body) \in Nat
  BY LenProperties DEF Sendable
<1> HIDE DEF first
<1>3. PICK ends : /\ HeaderOf(w, m.line, ends, last) /\ w[1] = symbol
                  /\ Len(w) = last + 2 + Len(m.body) /\ Piece(w, last + 2, Len(w)) = m.body
                  /\ Lines(w, ends, last) = Range(h)
  <2> DEFINE body == m.body  line == m.line
  <2>1. body \in Seq(Symbol) /\ line \in Nat /\ line >= ShortLine
        /\ first.symbol = symbol /\ first.line = line
    BY <1>1, <1>2
  <2> HIDE DEF body, line
  <2>2. TextWith(HttpText(first, h, body), symbol, line, line + 3 * k, Range(h), body)
    BY <2>1, HttpTextIs
  <2> QED BY <2>2 DEF body, line, TextWith
<1> HIDE DEF w
<1>4. IsText(w, ends, last, {}, m, client)
  <2> HIDE DEF last
  <2> QED BY <1>3 DEF IsText, PlainBody
<1>5. w \in Seq(Symbol)
  BY <1>3 DEF HeaderOf
<1>6. Len(w) <= m.line + Len(m.body) + Overhead
  BY <1>2, <1>3 DEF Overhead
<1> HIDE DEF last
<1> QED BY <1>4, <1>5, <1>6 DEF w, first

LEMMA RequestsAre ==
    ASSUME NEW m, Sendable(m), NEW w \in HttpRequests(m)
    PROVE  /\ w \in Seq(Symbol) /\ Len(w) <= m.line + Len(m.body) + Overhead
           /\ \E ends, last : IsText(w, ends, last, {}, m, FALSE)
<1> DEFINE n == Len(m.body)
           S == {Text(0)} \cup {Length(l) : l \in {n} \ {0}}
<1>1. PICK h \in SetToSeqs(S) : w = HttpText([symbol |-> Text(0), line |-> m.line], h, m.body)
  BY DEF HttpRequests, AnyOrder
<1>2. n \in Nat /\ (n = 0 => m.body = <<>>)
  BY EmptySeq, LenProperties DEF Sendable
<1>3. \E k \in 1 .. 2 : h \in [1 .. k -> Symbol] /\ Range(h) = S
  <2> HIDE DEF n
  <2>1. CASE n = 0
    <3>1. S = {Text(0)} /\ Text(0) \in Symbol
      BY <2>1, Symbols
    <3> HIDE DEF S
    <3>2. h \in [1 .. 1 -> Symbol] /\ Range(h) = S
      BY <3>1, OneOf
    <3> QED BY <3>2
  <2>2. CASE n # 0
    <3>1. S = {Text(0), Length(n)}
      BY <2>2
    <3>2. Text(0) \in Symbol /\ Length(n) \in Symbol /\ Text(0) # Length(n)
      BY <1>2, Symbols
    <3> HIDE DEF S
    <3>3. h \in [1 .. 2 -> Symbol] /\ Range(h) = S
      BY <3>1, <3>2, FewOf
    <3> QED BY <3>3
  <2> QED BY <2>1, <2>2
<1>4. PICK k \in 1 .. 2 : h \in [1 .. k -> Symbol] /\ Range(h) = S
  BY <1>3
<1>5. \A x \in S : x # LF /\ ~IsCR(x)
  BY <1>2, Symbols
<1>6. PlainLines(S, m.body)
  <2> HIDE DEF n
  <2>1. CASE n = 0
    BY <1>2, <2>1, Symbols DEF PlainLines
  <2>2. CASE n # 0
    <3>1. S = {Text(0), Length(n)}
      BY <2>2
    <3> QED BY <1>2, <3>1, Symbols DEF PlainLines, n
  <2> QED BY <2>1, <2>2
<1> HIDE DEF S
<1>7. \A i \in 1 .. k : h[i] \in S
  BY <1>4 DEF Range
<1>8. Text(0) \in Symbol /\ Text(0) # LF
  BY Symbols
<1> QED BY <1>1, <1>4, <1>5, <1>6, <1>7, <1>8, PlainText

LEMMA ResponsesAre ==
    ASSUME NEW m, Sendable(m), NEW w \in HttpResponses(m)
    PROVE  /\ w \in Seq(Symbol) /\ Len(w) <= m.line + Len(m.body) + Overhead
           /\ \E ends, last : IsText(w, ends, last, {}, m, TRUE)
<1> DEFINE n == Len(m.body)
           S == {Text(0), Length(n)}
<1>1. PICK h \in SetToSeqs(S) : w = HttpText([symbol |-> Http, line |-> m.line], h, m.body)
  BY DEF HttpResponses, AnyOrder
<1>2. n \in Nat
  BY LenProperties DEF Sendable
<1>3. Text(0) \in Symbol /\ Length(n) \in Symbol /\ Text(0) # Length(n)
  BY <1>2, Symbols
<1>4. h \in [1 .. 2 -> Symbol] /\ Range(h) = S
  <2> DEFINE y == Length(n)
  <2>1. h \in SetToSeqs({Text(0), y}) /\ Text(0) \in Symbol /\ y \in Symbol /\ Text(0) # y
    BY <1>3
  <2> HIDE DEF y
  <2>2. h \in [1 .. 2 -> Symbol] /\ Range(h) = {Text(0), y}
    BY <2>1, FewOf
  <2> QED BY <2>2 DEF y
<1>5. \A x \in S : x # LF /\ ~IsCR(x)
  BY <1>2, Symbols
<1>6. PlainLines(S, m.body)
  BY <1>2, Symbols DEF PlainLines
<1> HIDE DEF S
<1>7. \A i \in 1 .. 2 : h[i] \in S
  BY <1>4 DEF Range
<1>8. Http \in Symbol /\ Http # LF /\ 2 \in 1 .. 2
  BY Symbols
<1> QED BY <1>1, <1>4, <1>5, <1>6, <1>7, <1>8, PlainText

(* A chunk, and where it is in a longer text.                              *)
LEMMA ChunkIs ==
    ASSUME NEW data \in Seq(Symbol)
    PROVE  /\ Chunk(data) \in Seq(Symbol) /\ Len(Chunk(data)) = Len(data) + 5
           /\ Chunk(data)[1] = Size(Len(data)) /\ Chunk(data)[2] = CR /\ Chunk(data)[3] = LF
           /\ Piece(Chunk(data), 3, 3 + Len(data)) = data
<1> DEFINE n == Len(data)
           a == <<Size(n)>> \o CRLF
           b == a \o data
           q == b \o CRLF
<1>1. n \in Nat /\ Size(n) \in Symbol
  BY LenProperties, Symbols
<1>2. /\ a \in Seq(Symbol) /\ Len(a) = 3 /\ a[1] = Size(n) /\ a[2] = CR /\ a[3] = LF
      /\ CRLF \in Seq(Symbol) /\ Len(CRLF) = 2
  <2> HIDE DEF n
  <2> QED BY <1>1, Line
<1>3. Chunk(data) = q
  BY DEF Chunk
<1> HIDE DEF a
<1>4. /\ b \in Seq(Symbol) /\ Len(b) = Len(a) + Len(data)
      /\ \A i \in 1 .. Len(a) + Len(data) : b[i] = IF i <= Len(a) THEN a[i] ELSE data[i - Len(a)]
  BY <1>2, ConcatProperties
<1> HIDE DEF b
<1>5. /\ q \in Seq(Symbol) /\ Len(q) = Len(b) + Len(CRLF)
      /\ \A i \in 1 .. Len(b) + Len(CRLF) : q[i] = IF i <= Len(b) THEN b[i] ELSE CRLF[i - Len(b)]
  <2>1. b \in Seq(Symbol) /\ CRLF \in Seq(Symbol)
    BY <1>2, <1>4
  <2> QED BY <2>1, ConcatProperties
<1> HIDE DEF q, n
<1>6. /\ Len(b) = n + 3 /\ Len(q) = n + 5
      /\ \A i \in 1 .. n + 3 : q[i] = IF i <= 3 THEN a[i] ELSE data[i - 3]
  BY <1>1, <1>2, <1>4, <1>5 DEF n
<1>7. q[1] = a[1] /\ q[2] = a[2] /\ q[3] = a[3] /\ \A i \in 1 .. n : data[i] = q[3 + i]
  <2>1. 1 \in 1 .. n + 3 /\ 2 \in 1 .. n + 3 /\ 3 \in 1 .. n + 3
    BY <1>1
  <2>2. q[1] = a[1] /\ q[2] = a[2] /\ q[3] = a[3]
    BY <1>6, <2>1
  <2>3. ASSUME NEW i \in 1 .. n PROVE data[i] = q[3 + i]
    <3>1. 3 + i \in 1 .. n + 3 /\ ~(3 + i <= 3) /\ 3 + i - 3 = i
      BY <1>1
    <3> QED BY <1>6, <3>1
  <2> QED BY <2>2, <2>3
<1>8. data = Piece(q, 3, 3 + n)
  <2> DEFINE j == 3 + n
  <2>1. 3 <= j /\ j <= Len(q) /\ j \in Nat /\ Len(data) = j - 3 /\ \A i \in 1 .. j - 3 : data[i] = q[3 + i]
    BY <1>1, <1>6, <1>7 DEF n
  <2> HIDE DEF j
  <2>2. data = Piece(q, 3, j)
    BY <1>5, <2>1, PieceEqual
  <2> QED BY <2>2 DEF j
<1> QED BY <1>2, <1>3, <1>5, <1>6, <1>7, <1>8 DEF n

LEMMA NoChunk == Chunk(<<>>) \in Seq(Symbol) /\ Len(Chunk(<<>>)) = 5
<1> DEFINE e == <<>>
<1>1. e \in Seq(Symbol) /\ Len(e) = 0
  BY EmptySeq
<1> HIDE DEF e
<1>2. Chunk(e) \in Seq(Symbol) /\ Len(Chunk(e)) = Len(e) + 5
  BY <1>1, ChunkIs
<1> QED BY <1>1, <1>2 DEF e

LEMMA PiecesOfConcat ==
    ASSUME NEW s \in Seq(Symbol), NEW t \in Seq(Symbol)
    PROVE  /\ s \o t \in Seq(Symbol) /\ Len(s \o t) = Len(s) + Len(t)
           /\ Piece(s \o t, 0, Len(s)) = s /\ Piece(s \o t, Len(s), Len(s) + Len(t)) = t
<1> DEFINE q == s \o t  i == Len(s)  j == Len(s) + Len(t)
<1>1. /\ q \in Seq(Symbol) /\ Len(q) = j
      /\ \A n \in 1 .. j : q[n] = IF n <= i THEN s[n] ELSE t[n - i]
  BY ConcatProperties
<1>2. i \in Nat /\ j \in Nat /\ i <= j /\ Len(t) = j - i /\ Len(s) = i
  BY LenProperties
<1> HIDE DEF q, i, j
<1>3. (\A n \in 1 .. i - 0 : s[n] = q[0 + n]) /\ (\A n \in 1 .. j - i : t[n] = q[i + n])
  BY <1>1, <1>2
<1>4. s = Piece(q, 0, i)
  <2>1. Len(s) = i - 0 /\ 0 \in Nat /\ 0 <= i /\ i <= Len(q)
    BY <1>1, <1>2
  <2> QED BY <1>1, <1>2, <1>3, <2>1, PieceEqual
<1>5. t = Piece(q, i, j)
  <2>1. j <= Len(q)
    BY <1>1, <1>2
  <2> QED BY <1>1, <1>2, <1>3, <2>1, PieceEqual
<1> QED BY <1>1, <1>4, <1>5 DEF q, i, j

(* The end of a text in chunks, piece by piece.                            *)
LEMMA ChunksAre ==
    ASSUME NEW body \in Seq(Symbol), NEW parts \in Cuts(body)
    PROVE  LET z == FlattenSeq([i \in DOMAIN parts |-> Chunk(parts[i])]) \o Chunk(<<>>)
               n == Len(body)
           IN /\ z \in Seq(Symbol)
              /\ \/ n = 0 /\ z = Chunk(<<>>)
                 \/ /\ n > 0 /\ Len(z) = n + 10
                    /\ Piece(z, 0, n + 5) = Chunk(body) /\ Piece(z, n + 5, n + 10) = Chunk(<<>>)
                 \/ \E k \in 1 .. n - 1 :
                    /\ Len(z) = n + 15
                    /\ Piece(z, 0, k + 5) = Chunk(Piece(body, 0, k))
                    /\ Piece(z, k + 5, n + 10) = Chunk(Piece(body, k, n))
                    /\ Piece(z, n + 10, n + 15) = Chunk(<<>>)
<1> DEFINE f == [i \in DOMAIN parts |-> Chunk(parts[i])]
           e == Chunk(<<>>)
           z == FlattenSeq(f) \o e
           n == Len(body)
<1>1. e \in Seq(Symbol) /\ Len(e) = 5 /\ n \in Nat /\ (n = 0 <=> body = <<>>)
  BY NoChunk, EmptySeq, LenProperties
<1> HIDE DEF e
<1>2. CASE n = 0
  <2>1. body = <<>> /\ parts = <<>>
    BY <1>1, <1>2 DEF Cuts
  <2>2. DOMAIN parts = {}
    BY <2>1
  <2>3. f \in [1 .. 0 -> Seq(Symbol)]
    BY <2>2
  <2>4. 0 \in 0 .. 2
    OBVIOUS
  <2> HIDE DEF f
  <2>5. FlattenSeq(f) = <<>>
    BY <2>3, <2>4, Flatten
  <2>6. z = e
    BY <1>1, <2>5, ConcatEmptySeq
  <2> QED BY <1>1, <1>2, <2>6 DEF f, e
<1>3. CASE n > 0 /\ parts = <<body>>
  <2>1. f \in [1 .. 1 -> Seq(Symbol)] /\ f[1] = Chunk(body)
    BY <1>3, ChunkIs
  <2>2. 1 \in 0 .. 2
    OBVIOUS
  <2> HIDE DEF f
  <2>3. FlattenSeq(f) = Chunk(body)
    BY <2>1, <2>2, Flatten
  <2> DEFINE q == Chunk(body)
  <2>4. q \in Seq(Symbol) /\ Len(q) = n + 5 /\ z = q \o e
    BY <2>3, ChunkIs
  <2> HIDE DEF q, z
  <2>5. /\ z \in Seq(Symbol) /\ Len(z) = n + 10
        /\ Piece(z, 0, n + 5) = q /\ Piece(z, n + 5, n + 10) = e
    <3>1. n + 5 + 5 = n + 10
      BY <1>1
    <3>2. /\ q \o e \in Seq(Symbol) /\ Len(q \o e) = Len(q) + Len(e)
          /\ Piece(q \o e, 0, Len(q)) = q /\ Piece(q \o e, Len(q), Len(q) + Len(e)) = e
      BY <1>1, <2>4, PiecesOfConcat
    <3> HIDE DEF n
    <3> QED BY <1>1, <2>4, <3>1, <3>2
  <2> QED BY <1>3, <2>5 DEF q, z, f, e
<1>4. CASE n > 0 /\ parts # <<body>>
  <2>1. PICK k \in 1 .. n - 1 : parts = <<SubSeq(body, 1, k), From(body, k + 1)>>
    BY <1>1, <1>4 DEF Cuts
  <2> DEFINE a == Piece(body, 0, k)  b == Piece(body, k, n)
  <2>2. /\ a \in Seq(Symbol) /\ Len(a) = k - 0
        /\ b \in Seq(Symbol) /\ Len(b) = n - k
    <3>1. 0 \in Nat /\ k \in Nat /\ n \in Nat /\ 0 <= k /\ k <= n /\ k <= Len(body) /\ n <= Len(body)
      BY <1>1
    <3> HIDE DEF n
    <3> QED BY <3>1, PieceIs
  <2>3. parts = <<a, b>>
    BY <2>1 DEF Piece, From
  <2> DEFINE p == Chunk(a)  q == Chunk(b)
  <2>4. p \in Seq(Symbol) /\ Len(p) = k + 5 /\ q \in Seq(Symbol) /\ Len(q) = n - k + 5
    <3> HIDE DEF a, b
    <3>1. Len(p) = Len(a) + 5 /\ Len(q) = Len(b) + 5 /\ p \in Seq(Symbol) /\ q \in Seq(Symbol)
      BY <2>2, ChunkIs
    <3> QED BY <1>1, <2>2, <3>1
  <2> HIDE DEF a, b
  <2>5. f \in [1 .. 2 -> Seq(Symbol)] /\ f[1] = p /\ f[2] = q
    <3>1. DOMAIN parts = 1 .. 2 /\ parts[1] = a /\ parts[2] = b
      BY <2>3
    <3>2. f[1] = p /\ f[2] = q /\ DOMAIN f = 1 .. 2
      BY <3>1
    <3>3. \A i \in 1 .. 2 : f[i] \in Seq(Symbol)
      BY <2>4, <3>2
    <3>4. f = [i \in 1 .. 2 |-> f[i]]
      BY <3>1
    <3> HIDE DEF f
    <3> QED BY <3>2, <3>3, <3>4
  <2>6. 2 \in 0 .. 2
    OBVIOUS
  <2> HIDE DEF f
  <2>7. FlattenSeq(f) = p \o q
    BY <2>5, <2>6, Flatten
  <2> HIDE DEF p, q
  <2> DEFINE r == p \o q
  <2>8. /\ r \in Seq(Symbol) /\ Len(r) = n + 10
        /\ Piece(r, 0, k + 5) = p /\ Piece(r, k + 5, n + 10) = q
    <3>1. k + 5 + (n - k + 5) = n + 10
      BY <1>1
    <3> QED BY <2>4, <3>1, PiecesOfConcat
  <2>9. z = r \o e
    BY <2>7
  <2> HIDE DEF r, z
  <2>10. /\ z \in Seq(Symbol) /\ Len(z) = n + 15
         /\ Piece(z, 0, n + 10) = r /\ Piece(z, n + 10, n + 15) = e
    <3>1. n + 10 + 5 = n + 15
      BY <1>1
    <3>2. /\ r \o e \in Seq(Symbol) /\ Len(r \o e) = Len(r) + Len(e)
          /\ Piece(r \o e, 0, Len(r)) = r /\ Piece(r \o e, Len(r), Len(r) + Len(e)) = e
      BY <1>1, <2>8, PiecesOfConcat
    <3> HIDE DEF n
    <3> QED BY <1>1, <2>8, <2>9, <3>1, <3>2
  <2>11. Piece(z, 0, k + 5) = p
    <3>1. /\ 0 \in Nat /\ n + 10 \in Nat /\ 0 <= n + 10 /\ n + 10 <= Len(z)
          /\ k + 5 \in Nat /\ 0 <= k + 5 /\ k + 5 <= n + 10 - 0 /\ 0 + 0 = 0 /\ 0 + (k + 5) = k + 5
      BY <1>1, <2>10
    <3> DEFINE i == k + 5  j == n + 10
    <3>2. Piece(Piece(z, 0, j), 0, i) = Piece(z, 0 + 0, 0 + i)
      <4>1. /\ z \in Seq(Symbol) /\ 0 \in Nat /\ j \in Nat /\ 0 <= j /\ j <= Len(z)
            /\ i \in Nat /\ 0 <= i /\ i <= j - 0
        BY <2>10, <3>1
      <4> HIDE DEF i, j
      <4> QED BY <4>1, PieceOfPiece
    <3> QED BY <2>8, <2>10, <3>1, <3>2
  <2>12. Piece(z, k + 5, n + 10) = q
    <3>1. /\ 0 \in Nat /\ n + 10 \in Nat /\ 0 <= n + 10 /\ n + 10 <= Len(z) /\ n + 10 <= n + 10 - 0
          /\ k + 5 \in Nat /\ k + 5 <= n + 10 /\ 0 + (k + 5) = k + 5 /\ 0 + (n + 10) = n + 10
      BY <1>1, <2>10
    <3>2. Piece(Piece(z, 0, n + 10), k + 5, n + 10) = Piece(z, 0 + (k + 5), 0 + (n + 10))
      BY <2>10, <3>1, PieceOfPiece
    <3> QED BY <2>8, <2>10, <3>1, <3>2
  <2> QED BY <2>10, <2>11, <2>12 DEF p, q, a, b, z, f, e
<1>5. n = 0 \/ n > 0
  BY <1>1
<1> QED BY <1>2, <1>3, <1>4, <1>5, Zenon

(* The body text z at the end of a text w.                                 *)
LEMMA PieceAtEnd ==
    ASSUME NEW w \in Seq(Symbol), NEW e \in Nat, e <= Len(w), NEW z, Piece(w, e, Len(w)) = z,
           NEW i \in Nat, NEW j \in Nat, i <= j, j <= Len(z)
    PROVE  Piece(w, e + i, e + j) = Piece(z, i, j)
<1>1. Len(w) \in Nat
  BY LenProperties
<1> DEFINE v == Len(w)
<1>0. v \in Nat /\ e <= v /\ v <= Len(w) /\ z = Piece(w, e, v)
  BY <1>1
<1> HIDE DEF v
<1>2. Len(Piece(w, e, v)) = v - e
  BY <1>0, PieceIs
<1>3. j <= v - e
  BY <1>0, <1>2
<1> QED BY <1>0, <1>3, PieceOfPiece

LEMMA ChunkedAre ==
    ASSUME NEW m, Sendable(m), NEW w \in ChunkedResponses(m)
    PROVE  /\ w \in Seq(Symbol) /\ Len(w) <= m.line + Len(m.body) + Overhead
           /\ \E ends, last, cuts : IsText(w, ends, last, cuts, m, TRUE)
<1> DEFINE body == m.body  line == m.line  n == Len(body)
<1>1. body \in Seq(Symbol) /\ line \in Nat /\ line >= ShortLine /\ n \in Nat
  BY LenProperties DEF Sendable
<1>2. PICK parts \in Cuts(body) :
          w = HttpText([symbol |-> Http, line |-> line], <<Chunked>>,
                       FlattenSeq([i \in DOMAIN parts |-> Chunk(parts[i])]) \o Chunk(<<>>))
  BY DEF ChunkedResponses
<1> DEFINE z == FlattenSeq([i \in DOMAIN parts |-> Chunk(parts[i])]) \o Chunk(<<>>)
           first == [symbol |-> Http, line |-> line]
           h == <<Chunked>>
           last == line + 3
           e == last + 2
<1> HIDE DEF body, line, n
<1>3. /\ z \in Seq(Symbol)
      /\ \/ n = 0 /\ z = Chunk(<<>>)
         \/ /\ n > 0 /\ Len(z) = n + 10
            /\ Piece(z, 0, n + 5) = Chunk(body) /\ Piece(z, n + 5, n + 10) = Chunk(<<>>)
         \/ \E k \in 1 .. n - 1 :
            /\ Len(z) = n + 15
            /\ Piece(z, 0, k + 5) = Chunk(Piece(body, 0, k))
            /\ Piece(z, k + 5, n + 10) = Chunk(Piece(body, k, n))
            /\ Piece(z, n + 10, n + 15) = Chunk(<<>>)
  BY <1>1, ChunksAre DEF n
<1> HIDE DEF z
<1>4. PICK ends : /\ HeaderOf(w, line, ends, last) /\ w[1] = Http
                  /\ Len(w) = e + Len(z) /\ Piece(w, e, Len(w)) = z
                  /\ Lines(w, ends, last) = {Chunked}
  <2>1. first.symbol = Http /\ first.line = line
    OBVIOUS
  <2>2. h \in [1 .. 1 -> Symbol] /\ Range(h) = {Chunked} /\ Http \in Symbol /\ Http # LF
        /\ \A i \in 1 .. 1 : h[i] # LF /\ ~IsCR(h[i])
    BY Symbols DEF Range
  <2>3. w = HttpText(first, h, z)
    BY <1>2 DEF z
  <2>4. 1 \in 1 .. 2 /\ line + 3 * 1 = last
    BY <1>1
  <2> HIDE DEF first, h, last
  <2>5. TextWith(w, Http, line, line + 3 * 1, Range(h), z)
    BY <1>1, <1>3, <2>1, <2>2, <2>3, <2>4, HttpTextIs
  <2>6. TextWith(w, Http, line, last, {Chunked}, z)
    BY <2>2, <2>4, <2>5
  <2> QED BY <2>6 DEF TextWith
<1>5. w \in Seq(Symbol) /\ e \in Nat /\ e <= Len(w) /\ Len(z) \in Nat
  BY <1>1, <1>3, <1>4, LenProperties DEF HeaderOf
<1>6. \A i, j \in Nat : i <= j /\ j <= Len(z) => Piece(w, e + i, e + j) = Piece(z, i, j)
  <2> HIDE DEF e
  <2> QED BY <1>4, <1>5, PieceAtEnd
<1>7. Chunked[1] # "length"
  BY Symbols
<1> DEFINE lines == {Chunked}
<1>8. e \in Nat /\ e + 0 = e
  BY <1>1
<1>9. \E cuts : /\ cuts \subseteq Nat \X Nat /\ <<e, 0>> \in cuts
                /\ \A x, c \in Nat : <<x, c>> \in cuts =>
                       c <= n /\ (IsLastCut(w, body, x, c) \/ IsCut(w, body, cuts, x, c))
  <2> HIDE DEF e
  <2>1. CASE n = 0 /\ z = Chunk(<<>>)
    <3> DEFINE cuts == {<<e, 0>>}
    <3>1. Len(z) = 5
      BY <2>1, NoChunk
    <3>2. Piece(w, e, e + 5) = Chunk(<<>>) /\ Len(w) = e + 5
      <4>1. e + Len(z) = Len(w) /\ e + 5 = Len(w)
        BY <1>4, <1>8, <3>1
      <4> QED BY <1>4, <2>1, <4>1
    <3>3. IsLastCut(w, body, e, 0)
      BY <1>8, <2>1, <3>2 DEF IsLastCut, n
    <3>4. \A x, c \in Nat : <<x, c>> \in cuts => x = e /\ c = 0
      OBVIOUS
    <3>5. cuts \subseteq Nat \X Nat /\ <<e, 0>> \in cuts
      BY <1>8
    <3>6. 0 <= n
      BY <1>1
    <3> HIDE DEF cuts
    <3> QED BY <3>3, <3>4, <3>5, <3>6
  <2>2. CASE /\ n > 0 /\ Len(z) = n + 10
             /\ Piece(z, 0, n + 5) = Chunk(body) /\ Piece(z, n + 5, n + 10) = Chunk(<<>>)
    <3> DEFINE cuts == {<<e, 0>>, <<e + 5 + n, n>>}
    <3>1. Len(w) = e + n + 10
      BY <1>1, <1>4, <1>8, <2>2
    <3>2. Piece(w, e, e + 5 + n) = Chunk(body)
      <4>1. Piece(w, e + 0, e + (n + 5)) = Piece(z, 0, n + 5)
        <5>1. 0 \in Nat /\ n + 5 \in Nat /\ 0 <= n + 5 /\ n + 5 <= Len(z)
          BY <1>1, <2>2
        <5> QED BY <1>6, <5>1
      <4>2. e + (n + 5) = e + 5 + n
        BY <1>1, <1>8
      <4> QED BY <1>8, <2>2, <4>1, <4>2
    <3>3. Piece(w, e + 5 + n, e + 5 + n + 5) = Chunk(<<>>)
      <4>1. Piece(w, e + (n + 5), e + (n + 10)) = Piece(z, n + 5, n + 10)
        <5>1. n + 5 \in Nat /\ n + 10 \in Nat /\ n + 5 <= n + 10 /\ n + 10 <= Len(z)
          BY <1>1, <2>2
        <5> QED BY <1>6, <5>1
      <4>2. e + (n + 5) = e + 5 + n /\ e + (n + 10) = e + 5 + n + 5
        BY <1>1, <1>8
      <4> QED BY <2>2, <4>1, <4>2
    <3>4. IsLastCut(w, body, e + 5 + n, n)
      <4>1. Len(w) = e + 5 + n + 5
        BY <1>1, <1>8, <3>1
      <4> QED BY <3>3, <4>1 DEF IsLastCut, n
    <3>5. IsCut(w, body, cuts, e, 0)
      <4>1. Piece(body, 0, 0 + n) = body
        BY <1>1, PieceEnds DEF n
      <4>2. n \in 1 .. n - 0 /\ e + 5 + n < Len(w) /\ 0 + n = n
        BY <1>1, <1>8, <2>2, <3>1
      <4>3. <<e + 5 + n, 0 + n>> \in cuts
        BY <4>2
      <4> HIDE DEF cuts
      <4> QED BY <3>2, <4>1, <4>2, <4>3 DEF IsCut, n
    <3>6. \A x, c \in Nat : <<x, c>> \in cuts => \/ x = e /\ c = 0
                                                 \/ x = e + 5 + n /\ c = n
      OBVIOUS
    <3>7. cuts \subseteq Nat \X Nat /\ <<e, 0>> \in cuts
      BY <1>1, <1>8
    <3>8. 0 <= n /\ n <= n
      BY <1>1
    <3> HIDE DEF cuts
    <3> QED BY <3>4, <3>5, <3>6, <3>7, <3>8
  <2>3. ASSUME NEW k \in 1 .. n - 1, Len(z) = n + 15,
               Piece(z, 0, k + 5) = Chunk(Piece(body, 0, k)),
               Piece(z, k + 5, n + 10) = Chunk(Piece(body, k, n)),
               Piece(z, n + 10, n + 15) = Chunk(<<>>)
        PROVE  \E cuts : /\ cuts \subseteq Nat \X Nat /\ <<e, 0>> \in cuts
                         /\ \A x, c \in Nat : <<x, c>> \in cuts =>
                                c <= n /\ (IsLastCut(w, body, x, c) \/ IsCut(w, body, cuts, x, c))
    <3> DEFINE x1 == e + 5 + k  x2 == x1 + 5 + (n - k)
               cuts == {<<e, 0>>, <<x1, k>>, <<x2, n>>}
    <3>1. /\ x1 = e + (k + 5) /\ x2 = e + (n + 10) /\ x2 + 5 = e + (n + 15) /\ Len(w) = x2 + 5
          /\ x1 \in Nat /\ x2 \in Nat
      BY <1>1, <1>4, <1>8, <2>3
    <3>2. Piece(w, e, x1) = Chunk(Piece(body, 0, 0 + k))
      <4>1. 0 \in Nat /\ k + 5 \in Nat /\ 0 <= k + 5 /\ k + 5 <= Len(z) /\ 0 + k = k
        BY <1>1, <2>3
      <4>2. Piece(w, e + 0, e + (k + 5)) = Piece(z, 0, k + 5)
        BY <1>6, <4>1
      <4> HIDE DEF x1
      <4> QED BY <1>8, <2>3, <3>1, <4>1, <4>2
    <3>3. Piece(w, x1, x2) = Chunk(Piece(body, k, k + (n - k)))
      <4>1. /\ n + 10 \in Nat /\ k + 5 \in Nat /\ k + 5 <= n + 10 /\ n + 10 <= Len(z)
            /\ k + (n - k) = n
        BY <1>1, <2>3
      <4>2. Piece(w, e + (k + 5), e + (n + 10)) = Piece(z, k + 5, n + 10)
        BY <1>6, <4>1
      <4> HIDE DEF x1, x2
      <4> QED BY <2>3, <3>1, <4>1, <4>2
    <3>4. Piece(w, x2, x2 + 5) = Chunk(<<>>)
      <4>1. n + 10 \in Nat /\ n + 15 \in Nat /\ n + 10 <= n + 15 /\ n + 15 <= Len(z)
        BY <1>1, <2>3
      <4>2. Piece(w, e + (n + 10), e + (n + 15)) = Piece(z, n + 10, n + 15)
        BY <1>6, <4>1
      <4> HIDE DEF x2
      <4> QED BY <2>3, <3>1, <4>2
    <3>5. IsLastCut(w, body, x2, n)
      <4> HIDE DEF x2
      <4> QED BY <3>1, <3>4 DEF IsLastCut, n
    <3>6. <<x1, 0 + k>> \in cuts /\ <<x2, k + (n - k)>> \in cuts
      <4>1. 0 + k = k /\ k + (n - k) = n
        BY <1>1
      <4> HIDE DEF x1, x2
      <4> QED BY <4>1
    <3>7. cuts \subseteq Nat \X Nat /\ <<e, 0>> \in cuts
      <4> HIDE DEF x1, x2
      <4> QED BY <1>1, <1>8, <3>1
    <3>8. \A x, c \in Nat : <<x, c>> \in cuts => \/ x = e /\ c = 0
                                                 \/ x = x1 /\ c = k
                                                 \/ x = x2 /\ c = n
      <4> HIDE DEF x1, x2
      <4> QED OBVIOUS
    <3>9. 0 <= n /\ k <= n /\ n <= n /\ k \in 1 .. n - 0 /\ n - k \in 1 .. n - k
      BY <1>1
    <3>10. x1 < Len(w) /\ x2 < Len(w)
      BY <1>1, <1>8, <3>1
    <3> HIDE DEF cuts
    <3>11. IsCut(w, body, cuts, e, 0)
      BY <3>2, <3>6, <3>9, <3>10 DEF IsCut, n
    <3>12. IsCut(w, body, cuts, x1, k)
      <4> HIDE DEF x1
      <4> QED BY <3>3, <3>6, <3>9, <3>10 DEF IsCut, n
    <3> HIDE DEF x1, x2
    <3> QED BY <3>5, <3>7, <3>8, <3>9, <3>11, <3>12
  <2> QED BY <1>3, <2>1, <2>2, <2>3
<1>10. PICK cuts : /\ cuts \subseteq Nat \X Nat /\ <<e, 0>> \in cuts
                   /\ \A x, c \in Nat : <<x, c>> \in cuts =>
                          c <= n /\ (IsLastCut(w, body, x, c) \/ IsCut(w, body, cuts, x, c))
  BY <1>9
<1>11. ChunkedBody(w, e, lines, cuts, body)
  <2> HIDE DEF e
  <2> QED BY <1>7, <1>10 DEF ChunkedBody, n
<1>12. IsText(w, ends, last, cuts, m, TRUE)
  <2> HIDE DEF last
  <2> QED BY <1>4, <1>11 DEF IsText, body, line
<1>13. Len(w) <= line + n + Overhead
  <2>1. Len(z) <= n + 15
    <3>1. \/ z = Chunk(<<>>)
          \/ Len(z) = n + 10
          \/ Len(z) = n + 15
      BY <1>3
    <3>2. z = Chunk(<<>>) => Len(z) = 5
      BY NoChunk
    <3> DEFINE l == Len(z)
    <3>3. l = 5 \/ l = n + 10 \/ l = n + 15
      BY <3>1, <3>2
    <3> HIDE DEF l
    <3>4. l <= n + 15
      BY <1>1, <3>3
    <3> QED BY <3>4 DEF l
  <2> QED BY <1>1, <1>4, <1>5, <2>1 DEF Overhead
<1> QED BY <1>5, <1>12, <1>13 DEF body, line, n

LEMMA FramesAre ==
    ASSUME NEW m, Sendable(m), NEW w \in TcpFrames(m)
    PROVE  /\ w \in Seq(Symbol) /\ Len(w) = TcpHead + Len(m.body)
           /\ w[1] = Flag /\ w[2] = Length(Len(m.body)) /\ Piece(w, TcpHead, Len(w)) = m.body
           /\ Len(w) <= m.line + Len(m.body) + Overhead
<1> DEFINE n == Len(m.body)  h == <<Flag, Length(n)>>
<1>1. m.body \in Seq(Symbol) /\ n \in Nat /\ m.line \in Nat
  BY LenProperties DEF Sendable
<1>2. h \in Seq(Symbol) /\ Len(h) = 2 /\ h[1] = Flag /\ h[2] = Length(n)
  <2>1. Flag \in Symbol /\ Length(n) \in Symbol
    BY <1>1, Symbols
  <2> HIDE DEF n
  <2> QED BY <2>1, Pair
<1>3. w = h \o m.body
  BY DEF TcpFrames
<1> HIDE DEF h
<1>4. h \in Seq(Symbol)
  BY <1>2
<1>5. /\ w \in Seq(Symbol) /\ Len(w) = Len(h) + n
      /\ Piece(w, Len(h), Len(h) + n) = m.body
  BY <1>1, <1>3, <1>4, PiecesOfConcat
<1>6. \A i \in 1 .. Len(h) + n : w[i] = IF i <= Len(h) THEN h[i] ELSE m.body[i - Len(h)]
  BY <1>1, <1>3, <1>4, ConcatProperties
<1> HIDE DEF n
<1>7. w[1] = h[1] /\ w[2] = h[2]
  BY <1>1, <1>2, <1>6
<1>8. Len(w) = 2 + n /\ Piece(w, 2, Len(w)) = m.body
  BY <1>2, <1>5
<1>9. Len(w) <= m.line + n + Overhead
  BY <1>1, <1>8 DEF Overhead
<1> QED BY <1>2, <1>5, <1>7, <1>8, <1>9 DEF TcpHead, n

-----------------------------------------------------------------------------
(* decode.                                                                 *)
Status == {"startline", "header", "content", "completed"}
Msg == [status : Status, headers : SUBSET Symbol, remain : Nat, chunked : BOOLEAN,
        content : Seq(Symbol)]

(* parse_header: a text w of which the bytes between a and mid are in the  *)
(* buffer, with all lines before at taken.                                 *)
HeadersRead(w, ends, last, m, a, at, mid, r) ==
    \/ \E to \in ends :
       /\ at <= to /\ to <= mid /\ mid <= last /\ mid <= to + 2
       /\ r.msg = [m EXCEPT !.headers = Lines(w, ends, to)] /\ r.at = to - a
    \/ /\ mid >= last + 2 /\ r.at = last + 2 - a
       /\ r.msg = [m EXCEPT !.status = "content", !.headers = Lines(w, ends, last)]

LEMMA HeadersAre ==
    ASSUME NEW w, NEW first, NEW ends, NEW last, HeaderOf(w, first, ends, last),
           NEW a \in Nat, NEW at \in ends, a <= at, NEW mid \in Nat, at <= mid, mid <= Len(w),
           w[mid] # BlankCR, NEW m \in Msg, m.headers = Lines(w, ends, at)
    PROVE  HeadersRead(w, ends, last, m, a, at, mid, ParseHeaders(m, Piece(w, a, mid), at - a))
<1> DEFINE s == Piece(w, a, mid)
           n == mid - a
           p0 == at - a
           starts == {p0} \cup {i \in p0 + 1 .. Len(s) : s[i] = LF}
           blanks == {p \in starts : p < Len(s) /\ (IsCR(s[p + 1]) \/ s[p + 1] = LF)}
           stop == IF blanks = {} THEN Max(starts) ELSE Min(blanks)
           blank == IF blanks = {} THEN 0 ELSE LineLen(From(s, stop + 1))
           taken == m.headers \cup {s[p + 1] : p \in {q \in starts : q < stop}}
           r == ParseHeaders(m, s, p0)
<1>0. /\ w \in Seq(Symbol) /\ first \in Nat /\ last \in Nat /\ ends \subseteq first .. last
      /\ first \in ends /\ last \in ends /\ first >= 3 /\ last + 2 <= Len(w) /\ Len(w) \in Nat
      /\ \A i \in 1 .. last + 1 : w[i] = LF <=> i \in ends
      /\ \A i \in ends : i < last => i + 3 \in ends /\ w[i + 1] # LF /\ ~IsCR(w[i + 1])
      /\ w[last + 1] = BlankCR /\ w[last + 2] = LF
  BY LenProperties DEF HeaderOf, ShortLine
<1>1. /\ at \in Nat /\ at >= 3 /\ at <= last /\ n \in Nat /\ p0 \in Nat /\ p0 <= n /\ a + p0 = at
      /\ a <= mid
  BY <1>0
<1>2. s \in Seq(Symbol) /\ Len(s) = n /\ \A i \in 1 .. n : s[i] = w[a + i]
  <2>1. w \in Seq(Symbol) /\ a \in Nat /\ mid \in Nat /\ a <= mid /\ mid <= Len(w)
    BY <1>0, <1>1
  <2> QED BY ONLY <2>1, PieceIs
<1>3. r = [msg |-> [m EXCEPT !.status = IF blanks = {} THEN m.status ELSE "content",
                             !.headers = taken],
           at  |-> stop + blank]
  BY DEF ParseHeaders
<1>4. /\ r.at = stop + blank
      /\ r.msg = [m EXCEPT !.status = IF blanks = {} THEN m.status ELSE "content", !.headers = taken]
  <2> DEFINE x == stop + blank
             y == [m EXCEPT !.status = IF blanks = {} THEN m.status ELSE "content", !.headers = taken]
  <2>1. r = [msg |-> y, at |-> x]
    BY <1>3
  <2> HIDE DEF x, y, r
  <2>2. r.at = x /\ r.msg = y
    BY <2>1
  <2> QED BY <2>2 DEF x, y
<1> HIDE DEF s, r
<1>12. \A i \in ends : i \in Nat /\ i >= 3 /\ i <= last
  BY <1>0
<1>5. /\ starts \subseteq 0 .. n /\ p0 \in starts
      /\ \A p \in starts : p >= p0 /\ p \in Nat /\ p <= n
  BY <1>1, <1>2
<1>6. \A p \in starts : a + p <= last + 1 => a + p \in ends
  <2> SUFFICES ASSUME NEW p \in starts, a + p <= last + 1 PROVE a + p \in ends
    OBVIOUS
  <2>1. CASE p = p0
    BY <1>1, <2>1
  <2>2. CASE p # p0
    <3>1. p \in p0 + 1 .. n /\ s[p] = LF
      BY <1>2, <2>2
    <3>2. a + p \in 1 .. last + 1 /\ p \in 1 .. n
      BY <1>1, <3>1
    <3> QED BY <1>0, <1>2, <3>1, <3>2
  <2> QED BY <2>1, <2>2
<1>7. \A i \in ends : at <= i /\ i <= mid => i - a \in starts
  <2> SUFFICES ASSUME NEW i \in ends, at <= i, i <= mid PROVE i - a \in starts
    OBVIOUS
  <2>1. CASE i = at
    BY <2>1
  <2>2. CASE i # at
    <3>1. i \in 1 .. last + 1 /\ i - a \in p0 + 1 .. n /\ i - a \in 1 .. n /\ a + (i - a) = i
      BY <1>0, <1>1, <2>2
    <3>2. s[i - a] = LF
      BY <1>0, <1>2, <3>1
    <3> QED BY <1>2, <3>1, <3>2
  <2> QED BY <2>1, <2>2
<1>8. \A p \in starts : p < n => s[p + 1] = w[a + p + 1]
  BY <1>1, <1>2, <1>5
<1> HIDE DEF starts
<1>9. ASSUME NEW to \in ends, at <= to, to <= mid, stop = to - a
      PROVE  taken = Lines(w, ends, to)
  <2>1. ASSUME NEW x \in taken PROVE x \in Lines(w, ends, to)
    <3>1. CASE x \in m.headers
      BY <1>0, <1>9, <3>1 DEF Lines
    <3>2. CASE x \notin m.headers
      <4>1. PICK p \in starts : p < stop /\ x = s[p + 1]
        BY <2>1, <3>2
      <4>2. a + p < to /\ p < n /\ p \in Nat /\ a + p <= last + 1
        <5>1. p \in Nat /\ to \in Nat /\ to <= last /\ stop \in Int
          <6>1. p \in Nat
            BY <1>5, <4>1
          <6>2. to \in Nat /\ to <= last
            BY <1>9, <1>12
          <6> QED BY <1>9, <6>1, <6>2
        <5> HIDE DEF stop
        <5>2. last \in Nat /\ p < to - a
          BY <1>0, <1>9, <4>1
        <5> QED BY <1>9, <5>1, <5>2
      <4>3. a + p \in ends /\ x = w[a + p + 1]
        BY <1>6, <1>8, <4>1, <4>2
      <4> QED BY <4>2, <4>3 DEF Lines
    <3> QED BY <3>1, <3>2
  <2>2. ASSUME NEW x \in Lines(w, ends, to) PROVE x \in taken
    <3>1. PICK i \in ends : i < to /\ x = w[i + 1]
      BY <2>2 DEF Lines
    <3>2. CASE i < at
      BY <3>1, <3>2 DEF Lines
    <3>3. CASE i >= at
      <4>1. i - a \in starts /\ i - a < stop /\ i - a < n /\ a + (i - a) + 1 = i + 1
        <5>1. i \in Nat /\ to \in Nat /\ i \in ends /\ i < to
          BY <1>9, <1>12, <3>1
        <5>2. i <= mid /\ at <= i
          BY <1>1, <1>9, <3>3, <5>1
        <5>3. i - a \in starts
          BY <1>7, <5>1, <5>2
        <5> HIDE DEF starts, stop
        <5>4. i - a < to - a /\ i - a < mid - a /\ a + (i - a) + 1 = i + 1
          BY <1>1, <1>9, <5>1
        <5> QED BY <1>9, <5>3, <5>4
      <4>2. s[(i - a) + 1] = x
        BY <1>8, <3>1, <4>1
      <4> QED BY <4>1, <4>2
    <3>4. i < at \/ i >= at
      BY <1>1, <1>12, <3>1
    <3> QED BY <3>2, <3>3, <3>4
  <2> HIDE DEF taken
  <2> QED BY <2>1, <2>2
<1>10. CASE mid <= last + 1
  <2>1. mid <= last
    BY <1>0, <1>1, <1>10
  <2>2. blanks = {}
    <3> SUFFICES ASSUME NEW p \in starts, p < n PROVE ~IsCR(s[p + 1]) /\ s[p + 1] # LF
      BY <1>2
    <3>1. p \in Nat /\ a + p < last
      BY <1>0, <1>5, <2>1
    <3>2. a + p \in ends /\ s[p + 1] = w[a + p + 1]
      BY <1>0, <1>6, <1>8, <3>1
    <3> QED BY <1>0, <3>1, <3>2
  <2>3. stop = Max(starts) /\ blank = 0
    BY <2>2
  <2>4. stop \in starts /\ \A p \in starts : stop >= p
    BY <1>1, <1>5, <2>3, MaxOf
  <2> HIDE DEF stop, blank, blanks
  <2> DEFINE to == a + stop
  <2>5. stop \in Nat /\ p0 <= stop /\ stop <= n
    BY <1>1, <1>5, <2>4
  <2>6. to \in ends /\ at <= to /\ to <= mid /\ stop = to - a
    BY <1>0, <1>1, <1>6, <2>1, <2>4, <2>5
  <2>7. mid <= to + 2
    <3> SUFFICES ASSUME mid >= to + 3 PROVE FALSE
      BY <1>12, <2>6
    <3>0. to \in Nat /\ to < last
      <4> HIDE DEF to
      <4>1. to \in Nat
        BY <1>12, <2>6
      <4>2. to + 3 <= mid /\ mid <= last /\ last \in Nat
        BY <1>0, <2>1
      <4> QED BY <4>1, <4>2
    <3>1. to + 3 \in ends
      BY <1>0, <2>6, <3>0
    <3>2. (to + 3) - a \in starts
      <4>1. at <= to + 3 /\ to + 3 <= mid
        BY <1>1, <2>6, <3>0
      <4> HIDE DEF to
      <4> QED BY <1>7, <3>1, <4>1
    <3>3. (to + 3) - a = stop + 3
      BY <2>5
    <3> HIDE DEF to
    <3> QED BY <2>4, <2>5, <3>2, <3>3
  <2> HIDE DEF to
  <2>8. taken = Lines(w, ends, to)
    BY <1>9, <2>6
  <2> HIDE DEF taken
  <2>9. r.msg = [m EXCEPT !.headers = Lines(w, ends, to)]
    <3>1. r.msg = [m EXCEPT !.status = m.status, !.headers = taken]
      BY <1>4, <2>2
    <3>2. [m EXCEPT !.status = m.status, !.headers = taken] = [m EXCEPT !.headers = taken]
      BY DEF Msg
    <3> QED BY <2>8, <3>1, <3>2
  <2>10. r.at = to - a
    BY <1>4, <2>3, <2>5, <2>6
  <2> QED BY <2>1, <2>6, <2>7, <2>9, <2>10 DEF r, s, HeadersRead
<1>11. CASE mid >= last + 2
  <2> DEFINE p1 == last - a
  <2>1. p1 \in Nat /\ p1 < n /\ p1 \in starts /\ a + p1 = last /\ p1 + 2 <= n
    BY <1>0, <1>1, <1>7, <1>11
  <2>2. p1 \in blanks
    <3>1. s[p1 + 1] = w[last + 1] /\ IsCR(BlankCR)
      BY <1>8, <2>1, Symbols
    <3> QED BY <1>0, <1>2, <2>1, <3>1
  <2>3. ASSUME NEW p \in blanks PROVE p1 <= p
    <3> SUFFICES ASSUME p < p1 PROVE FALSE
      BY <1>5, <2>1
    <3>1. p \in starts /\ p \in Nat /\ a + p < last /\ p < n
      BY <1>0, <1>1, <1>5, <2>1
    <3>2. a + p \in ends /\ s[p + 1] = w[a + p + 1]
      BY <1>0, <1>6, <1>8, <3>1
    <3> QED BY <1>0, <3>1, <3>2
  <2>4. blanks \subseteq Int /\ blanks # {}
    <3>1. blanks \subseteq starts
      OBVIOUS
    <3> HIDE DEF blanks
    <3> QED BY <1>5, <2>2, <3>1
  <2> HIDE DEF blanks, p1
  <2>5. stop = p1
    BY <2>2, <2>3, <2>4, MinIs
  <2> HIDE DEF stop
  <2>6. blank = 2
    <3> DEFINE f == From(s, p1 + 1)
    <3>1. f = Piece(s, p1, n)
      BY <1>2, <2>1, PieceEnds
    <3>2. /\ f \in Seq(Symbol) /\ Len(f) = n - p1 /\ \A i \in 1 .. n - p1 : f[i] = s[p1 + i]
      <4>1. s \in Seq(Symbol) /\ p1 \in Nat /\ n \in Nat /\ p1 <= n /\ n <= Len(s)
        BY <1>1, <1>2, <2>1
      <4> HIDE DEF n, f
      <4> QED BY <3>1, <4>1, PieceIs
    <3> HIDE DEF f
    <3>3. f[1] = w[last + 1] /\ f[2] = w[last + 2] /\ 2 \in 1 .. Len(f)
      <4>1. f[1] = s[p1 + 1] /\ f[2] = s[p1 + 2] /\ 2 \in 1 .. Len(f)
        BY <2>1, <3>2, <1>1
      <4>2. p1 + 1 \in 1 .. n /\ p1 + 2 \in 1 .. n /\ a + (p1 + 1) = last + 1 /\ a + (p1 + 2) = last + 2
        BY <1>1, <2>1
      <4> QED BY <1>2, <4>1, <4>2
    <3>4. \A i \in 1 .. 2 - 1 : f[i] # LF
      BY <1>0, <3>3, Symbols
    <3>5. LineLen(f) = 2
      BY <1>0, <3>2, <3>3, <3>4, LineLenIs
    <3> QED BY <2>4, <2>5, <3>5 DEF f
  <2> HIDE DEF blank
  <2>7. taken = Lines(w, ends, last)
    <3>1. last \in ends /\ at <= last /\ last <= mid /\ stop = last - a
      BY <1>0, <1>1, <1>11, <2>5 DEF p1
    <3> QED BY <1>9, <3>1
  <2> HIDE DEF taken
  <2>8. r.msg = [m EXCEPT !.status = "content", !.headers = Lines(w, ends, last)]
    BY <1>4, <2>4, <2>7
  <2>9. r.at = last + 2 - a
    BY <1>0, <1>4, <2>5, <2>6 DEF p1
  <2> QED BY <1>11, <2>8, <2>9 DEF r, s, HeadersRead
<1>13. mid <= last + 1 \/ mid >= last + 2
  BY <1>0
<1> QED BY <1>10, <1>11, <1>13, Zenon

(* parse_content_chunked.                                                  *)
LEMMA MinOf ==
    ASSUME NEW S, S \subseteq Nat, S # {}
    PROVE  Min(S) \in S /\ \A y \in S : Min(S) <= y
<1> DEFINE R == {s \in Nat \X Nat : s[1] < s[2]}
<1>1. IsWellFoundedOn(R, Nat)
  BY NatLessThanWellFounded DEF OpToRel
<1>2. PICK x \in S : \A y \in S : ~(<<y, x>> \in R)
  <2> HIDE DEF R
  <2> QED BY <1>1, WFMin
<1>3. \A y \in S : x <= y
  <2> SUFFICES ASSUME NEW y \in S, ~(x <= y) PROVE FALSE
    OBVIOUS
  <2>1. <<y, x>> \in Nat \X Nat /\ y < x
    OBVIOUS
  <2>2. <<y, x>> \in R
    BY <2>1
  <2> QED BY <1>2, <2>2
<1>4. \E z \in S : \A y \in S : z <= y
  BY <1>3
<1> QED BY <1>4 DEF Min

LEMMA LineLenType ==
    ASSUME NEW s \in Seq(Symbol)
    PROVE  LineLen(s) \in 0 .. Len(s)
<1> DEFINE I == {i \in 1 .. Len(s) : s[i] = LF}
<1>1. Len(s) \in Nat
  BY LenProperties
<1>2. LineLen(s) = IF I # {} THEN Min(I) ELSE 0
  BY DEF LineLen, SelectInSeq
<1>3. I \subseteq Nat /\ I \subseteq 0 .. Len(s)
  BY <1>1
<1> HIDE DEF I
<1>4. CASE I = {}
  BY <1>1, <1>2, <1>4
<1>5. CASE I # {}
  BY <1>2, <1>3, <1>5, MinOf
<1> QED BY <1>4, <1>5

(* A chunk that is taken ends later, in the buffer.                        *)
LEMMA ChunkEnds ==
    ASSUME NEW s \in Seq(Symbol), NEW p \in 0 .. Len(s), TakeChunk(s, p).why = "whole"
    PROVE  TakeChunk(s, p).end \in p + 1 .. Len(s)
<1> DEFINE f == From(s, p + 1)
           line == LineLen(f)
           size == IF line > 2 THEN s[p + 1][2] ELSE 0
           end == p + line + size + 2
<1>1. Len(s) \in Nat /\ p \in Nat
  BY LenProperties
<1>3. f \in Seq(Symbol) /\ Len(f) = Len(s) - p
  <2>1. p \in Nat /\ p <= Len(s)
    BY <1>1
  <2> QED BY <2>1, FromIs
<1> HIDE DEF f
<1>4. line \in 0 .. Len(s) - p
  BY <1>3, LineLenType
<1> HIDE DEF line
<1>5. size \in Nat
  <2>1. CASE line > 2
    <3>1. p + 1 \in 1 .. Len(s)
      BY <1>1, <1>4, <2>1
    <3>2. s[p + 1] \in Symbol
      BY <3>1, ElementOfSeq
    <3>3. s[p + 1][2] \in Nat
      BY <3>2 DEF Symbol
    <3> QED BY <2>1, <3>3
  <2> QED BY <2>1
<1>6. TakeChunk(s, p) = ChunkOfLine(s, p, line)
  BY DEF TakeChunk, line, f
<1> DEFINE legal == /\ line > 1 /\ IsCR(s[p + line - 1])
                    /\ \A i \in 1 .. line - 2 : s[p + i][1] = "size"
<1>7. ChunkOfLine(s, p, line) =
          CASE line = 0 -> Taken(<<>>, p, "partial")
            [] line > 0 /\ ~legal -> Taken(<<>>, p, "illegal")
            [] line > 0 /\ legal /\ Len(s) < end -> Taken(<<>>, p, "partial")
            [] line > 0 /\ legal /\ Len(s) >= end /\ size = 0 -> Taken(<<>>, end, "last")
            [] line > 0 /\ legal /\ Len(s) >= end /\ size > 0 ->
                   Taken(SubSeq(s, p + line + 1, p + line + size), end, "whole")
  BY DEF ChunkOfLine
<1> HIDE DEF legal, size
<1>8. end \in Nat /\ end > p
  BY <1>1, <1>4, <1>5
<1> HIDE DEF end
<1>9. \/ TakeChunk(s, p) \in {Taken(<<>>, p, "partial"), Taken(<<>>, p, "illegal"), Taken(<<>>, end, "last")}
      \/ /\ TakeChunk(s, p) = Taken(SubSeq(s, p + line + 1, p + line + size), end, "whole")
         /\ Len(s) >= end
  <2>1. (line = 0 \/ line > 0) /\ (Len(s) < end \/ Len(s) >= end) /\ (size = 0 \/ size > 0)
    BY <1>1, <1>4, <1>5, <1>8
  <2> QED BY <1>6, <1>7, <2>1
<1>10. TakeChunk(s, p).end = end /\ Len(s) >= end
  BY <1>9 DEF Taken
<1> QED BY <1>1, <1>8, <1>10

LEMMA TakeExists ==
    ASSUME NEW n \in Nat, NEW c, \A p \in 0 .. n : c[p].why = "whole" => c[p].end \in p + 1 .. n
    PROVE  \E d : d = [p \in 0 .. n |-> IF c[p].why = "whole"
                                        THEN [d[c[p].end] EXCEPT !.data = c[p].data \o @]
                                        ELSE c[p]]
<1> DEFINE F(d, p) == IF c[p].why = "whole"
                      THEN [d[c[p].end] EXCEPT !.data = c[p].data \o @] ELSE c[p]
           Above(k) == {p \in 0 .. n : p + k >= n}
           P == {k \in Nat : \E d : \A p \in Above(k) : d[p] = F(d, p)}
<1>1. 0 \in P
  <2> DEFINE d == [p \in 0 .. n |-> c[p]]
  <2>1. ASSUME NEW p \in Above(0) PROVE d[p] = F(d, p)
    <3>1. p = n /\ d[p] = c[p] /\ c[p].why # "whole"
      OBVIOUS
    <3> QED BY <3>1
  <2> HIDE DEF d, F, Above
  <2> QED BY <2>1
<1>2. ASSUME NEW k \in 0 .. n - 1, k \in P PROVE k + 1 \in P
  <2>1. PICK d : \A p \in Above(k) : d[p] = F(d, p)
    BY <1>2
  <2> DEFINE e == [p \in 0 .. n |-> F(d, p)]
  <2>2. ASSUME NEW p \in Above(k + 1) PROVE e[p] = F(e, p)
    <3>1. p \in 0 .. n /\ e[p] = F(d, p)
      BY DEF Above
    <3>2. CASE c[p].why = "whole"
      <4> DEFINE q == c[p].end
      <4>1. q \in 0 .. n /\ q \in Above(k)
        BY <2>2, <3>1, <3>2
      <4> HIDE DEF q, F
      <4>2. e[q] = d[q]
        BY <2>1, <4>1
      <4> QED BY <3>1, <3>2, <4>2 DEF F, q
    <3>3. CASE c[p].why # "whole"
      BY <3>1, <3>3
    <3> QED BY <3>2, <3>3
  <2> HIDE DEF e, F, Above
  <2> QED BY <2>2
<1>3. n \in P
  <2> HIDE DEF P
  <2> QED BY <1>1, <1>2, Induct
<1>4. PICK d : \A p \in Above(n) : d[p] = F(d, p)
  BY <1>3
<1> DEFINE e == [p \in 0 .. n |-> F(d, p)]
           f == [p \in 0 .. n |-> F(e, p)]
<1>5. ASSUME NEW p \in 0 .. n PROVE F(d, p) = F(e, p)
  <2>1. CASE c[p].why = "whole"
    <3> DEFINE q == c[p].end
    <3>1. q \in 0 .. n /\ q \in Above(n)
      BY <2>1
    <3> HIDE DEF q, F
    <3>2. e[q] = d[q]
      BY <1>4, <3>1
    <3> QED BY <2>1, <3>2 DEF F, q
  <2>2. CASE c[p].why # "whole"
    BY <2>2
  <2> QED BY <2>1, <2>2
<1>6. e = f
  <2> HIDE DEF F
  <2>1. \A p \in 0 .. n : e[p] = f[p]
    BY <1>5
  <2> QED BY <1>5
<1> QED BY <1>6

LEMMA TakesIs ==
    ASSUME NEW s \in Seq(Symbol), NEW p \in 0 .. Len(s)
    PROVE  TakeChunks(s)[p] =
               IF TakeChunk(s, p).why = "whole"
               THEN [TakeChunks(s)[TakeChunk(s, p).end] EXCEPT !.data = TakeChunk(s, p).data \o @]
               ELSE TakeChunk(s, p)
<1> DEFINE n == Len(s)
           c == [q \in 0 .. n |-> TakeChunk(s, q)]
           t == CHOOSE d : d = [q \in 0 .. n |->
                                    IF TakeChunk(s, q).why = "whole"
                                    THEN [d[TakeChunk(s, q).end] EXCEPT !.data = TakeChunk(s, q).data \o @]
                                    ELSE TakeChunk(s, q)]
<1>1. n \in Nat
  BY LenProperties
<1>2. TakeChunks(s) = t
  BY DEF TakeChunks
<1>3. \A q \in 0 .. n : c[q] = TakeChunk(s, q)
  OBVIOUS
<1>4. \A q \in 0 .. n : c[q].why = "whole" => c[q].end \in q + 1 .. n
  BY <1>3, ChunkEnds
<1> HIDE DEF c, n
<1>5. PICK d : d = [q \in 0 .. n |-> IF c[q].why = "whole"
                                     THEN [d[c[q].end] EXCEPT !.data = c[q].data \o @]
                                     ELSE c[q]]
  BY <1>1, <1>4, TakeExists
<1>6. d = [q \in 0 .. n |-> IF TakeChunk(s, q).why = "whole"
                            THEN [d[TakeChunk(s, q).end] EXCEPT !.data = TakeChunk(s, q).data \o @]
                            ELSE TakeChunk(s, q)]
  BY <1>3, <1>5
<1>7. t = [q \in 0 .. n |-> IF TakeChunk(s, q).why = "whole"
                            THEN [t[TakeChunk(s, q).end] EXCEPT !.data = TakeChunk(s, q).data \o @]
                            ELSE TakeChunk(s, q)]
  <2> HIDE DEF t
  <2> QED BY <1>6 DEF t
<1> HIDE DEF t
<1>8. p \in 0 .. n
  BY DEF n
<1> QED BY <1>2, <1>7, <1>8

(* A chunk of w, of which the bytes between a and mid are in the buffer.   *)
HasChunk(w, x, y, data) ==
    /\ data \in Seq(Symbol) /\ x \in Nat /\ y \in Nat /\ y = x + 5 + Len(data)
    /\ y <= Len(w) /\ Piece(w, x, y) = Chunk(data)
TakenFrom(data, x, y, a, mid) ==
    IF mid < y THEN Taken(<<>>, x - a, "partial")
    ELSE IF Len(data) = 0 THEN Taken(<<>>, y - a, "last")
    ELSE Taken(data, y - a, "whole")

LEMMA TakeIs ==
    ASSUME NEW w \in Seq(Symbol), NEW data, NEW x, NEW y, HasChunk(w, x, y, data),
           NEW a \in Nat, NEW mid \in Nat, a <= x, x <= mid, mid <= Len(w)
    PROVE  TakeChunk(Piece(w, a, mid), x - a) = TakenFrom(data, x, y, a, mid)
<1> SUFFICES ASSUME /\ data \in Seq(Symbol) /\ x \in Nat /\ y \in Nat /\ y = x + 5 + Len(data)
                    /\ y <= Len(w) /\ Piece(w, x, y) = Chunk(data)
             PROVE  TakeChunk(Piece(w, a, mid), x - a) =
                        IF mid < y THEN Taken(<<>>, x - a, "partial")
                        ELSE IF Len(data) = 0 THEN Taken(<<>>, y - a, "last")
                        ELSE Taken(data, y - a, "whole")
  BY DEF HasChunk, TakenFrom
<1> DEFINE s == Piece(w, a, mid)
           n == Len(data)
           p == x - a
           f == From(s, p + 1)
<1>0. n \in Nat /\ Len(w) \in Nat /\ a <= mid /\ x <= y /\ p \in Nat /\ p <= mid - a /\ a + p = x
      /\ y = x + 5 + n /\ y \in Nat
  BY LenProperties
<1>1. s \in Seq(Symbol) /\ Len(s) = mid - a /\ \A i \in 1 .. mid - a : s[i] = w[a + i]
  BY <1>0, PieceIs
<1>2. \A i \in 1 .. n + 5 : Chunk(data)[i] = w[x + i]
  <2>1. y - x = n + 5
    BY <1>0
  <2> HIDE DEF n
  <2>2. \A i \in 1 .. y - x : Piece(w, x, y)[i] = w[x + i]
    BY <1>0, PieceIs
  <2> QED BY <2>1, <2>2
<1>3. w[x + 1] = Size(n) /\ w[x + 2] = CR /\ w[x + 3] = LF
  <2>1. 1 \in 1 .. n + 5 /\ 2 \in 1 .. n + 5 /\ 3 \in 1 .. n + 5
    BY <1>0
  <2> QED BY <1>2, <2>1, ChunkIs
<1>4. Size(n) # LF /\ CR # LF /\ IsCR(CR) /\ Size(n)[1] = "size" /\ Size(n)[2] = n
  BY <1>0, Symbols
<1> HIDE DEF s, n, p, f
<1>5. /\ f \in Seq(Symbol) /\ Len(f) = mid - x
      /\ \A i \in 1 .. mid - x : f[i] = w[x + i]
  <2> DEFINE k == mid - a
  <2>1. k \in Nat /\ p <= k /\ k = Len(s) /\ k - p = mid - x
    BY <1>0, <1>1
  <2> HIDE DEF k
  <2>4. f \in Seq(Symbol) /\ Len(f) = k - p /\ \A i \in 1 .. k - p : f[i] = s[p + i]
    <3>1. s \in Seq(Symbol) /\ p \in Nat /\ p <= Len(s)
      BY <1>0, <1>1, <2>1
    <3>2. /\ f \in Seq(Symbol) /\ Len(f) = Len(s) - p
          /\ \A i \in 1 .. Len(s) - p : f[i] = s[p + i]
      BY <3>1, FromIs DEF f
    <3> QED BY <2>1, <3>2
  <2>5. ASSUME NEW i \in 1 .. mid - x PROVE f[i] = w[x + i]
    <3>1. i \in 1 .. k - p /\ p + i \in 1 .. mid - a /\ a + (p + i) = x + i
      BY <1>0, <2>1
    <3> QED BY <1>1, <2>4, <3>1
  <2> QED BY <2>1, <2>4, <2>5
<1> DEFINE line == LineLen(f)
<1>6. TakeChunk(s, p) = ChunkOfLine(s, p, line)
  BY DEF TakeChunk, f
<1>7. CASE mid < x + 3
  <2>1. \A i \in 1 .. Len(f) : f[i] # LF
    <3> SUFFICES ASSUME NEW i \in 1 .. mid - x PROVE f[i] # LF
      BY <1>5
    <3>1. i = 1 \/ i = 2
      BY <1>7
    <3> QED BY <1>3, <1>4, <1>5, <3>1
  <2>2. line = 0
    BY <2>1, NoLine
  <2>3. TakeChunk(s, p) = Taken(<<>>, p, "partial")
    <3> HIDE DEF line
    <3> QED BY <1>6, <2>2 DEF ChunkOfLine
  <2>4. mid < y
    BY <1>0, <1>7
  <2> QED BY <2>3, <2>4 DEF s, p
<1>8. CASE mid >= x + 3
  <2>1. line = 3
    <3>1. 3 \in 1 .. Len(f) /\ f[3] = LF /\ f[1] # LF /\ f[2] # LF
      <4>1. 1 \in 1 .. mid - x /\ 2 \in 1 .. mid - x /\ 3 \in 1 .. mid - x
        BY <1>0, <1>8
      <4>2. f[1] = w[x + 1] /\ f[2] = w[x + 2] /\ f[3] = w[x + 3]
        BY <1>5, <4>1
      <4> QED BY <1>3, <1>4, <1>5, <4>1, <4>2
    <3>2. \A i \in 1 .. 3 - 1 : f[i] # LF
      BY <3>1
    <3> QED BY <1>5, <3>1, <3>2, LineLenIs
  <2> DEFINE size == IF line > 2 THEN s[p + 1][2] ELSE 0
             end == p + line + size + 2
             legal == /\ line > 1 /\ IsCR(s[p + line - 1])
                      /\ \A i \in 1 .. line - 2 : s[p + i][1] = "size"
  <2>2. ChunkOfLine(s, p, line) =
          CASE line = 0 -> Taken(<<>>, p, "partial")
            [] line > 0 /\ ~legal -> Taken(<<>>, p, "illegal")
            [] line > 0 /\ legal /\ Len(s) < end -> Taken(<<>>, p, "partial")
            [] line > 0 /\ legal /\ Len(s) >= end /\ size = 0 -> Taken(<<>>, end, "last")
            [] line > 0 /\ legal /\ Len(s) >= end /\ size > 0 ->
                   Taken(SubSeq(s, p + line + 1, p + line + size), end, "whole")
    BY DEF ChunkOfLine
  <2> HIDE DEF line
  <2>3. s[p + 1] = Size(n) /\ s[p + 2] = CR
    <3>1. p + 1 \in 1 .. mid - a /\ p + 2 \in 1 .. mid - a /\ a + (p + 1) = x + 1 /\ a + (p + 2) = x + 2
      BY <1>0, <1>8
    <3>2. s[p + 1] = w[a + (p + 1)] /\ s[p + 2] = w[a + (p + 2)]
      BY <1>1, <3>1
    <3>3. w[a + (p + 1)] = w[x + 1] /\ w[a + (p + 2)] = w[x + 2]
      BY <3>1
    <3> QED BY <1>3, <3>2, <3>3, Zenon
  <2>4. legal
    <3>1. p + line - 1 = p + 2 /\ line > 1
      BY <1>0, <2>1
    <3>2. \A i \in 1 .. line - 2 : i = 1
      BY <2>1
    <3> QED BY <1>4, <2>3, <3>1, <3>2
  <2>5. size = n
    BY <1>4, <2>1, <2>3
  <2> HIDE DEF size, legal
  <2>6. end = y - a /\ end \in Nat
    BY <1>0, <2>1, <2>5
  <2> HIDE DEF end
  <2>7. line > 0 /\ ~(line = 0)
    BY <2>1
  <2>8. CASE mid < y
    <3>1. Len(s) < end /\ ~(Len(s) >= end)
      BY <1>0, <1>1, <2>6, <2>8
    <3>2. TakeChunk(s, p) = Taken(<<>>, p, "partial")
      BY <1>6, <2>2, <2>4, <2>7, <3>1
    <3> QED BY <2>8, <3>2 DEF s, p
  <2>9. CASE ~(mid < y)
    <3>1. Len(s) >= end /\ ~(Len(s) < end)
      BY <1>0, <1>1, <2>6, <2>9
    <3>2. CASE n = 0
      <4>1. TakeChunk(s, p) = Taken(<<>>, end, "last")
        BY <1>6, <2>2, <2>4, <2>5, <2>7, <3>1, <3>2
      <4> QED BY <2>6, <2>9, <3>2, <4>1 DEF s, p, n
    <3>3. CASE n # 0
      <4>1. size > 0 /\ size # 0
        BY <1>0, <2>5, <3>3
      <4>2. TakeChunk(s, p) = Taken(SubSeq(s, p + line + 1, p + line + size), end, "whole")
        BY <1>6, <2>2, <2>4, <2>7, <3>1, <4>1
      <4>3. SubSeq(s, p + line + 1, p + line + size) = Piece(s, p + 3, p + 3 + n)
        BY <2>1, <2>5 DEF Piece
      <4>4. Piece(s, p + 3, p + 3 + n) = data
        <5> DEFINE i == p + 3  j == p + 3 + n  k == 3 + n
        <5>1. i \in Nat /\ j \in Nat /\ i <= j /\ j <= mid - a /\ a + i = x + 3 /\ a + j = x + k
              /\ k \in Nat /\ 3 <= k /\ k <= y - x
          BY <1>0, <2>9
        <5> HIDE DEF i, j
        <5>2. Piece(Piece(w, a, mid), i, j) = Piece(w, a + i, a + j)
          BY <1>0, <5>1, PieceOfPiece
        <5> HIDE DEF k
        <5>3. Piece(Piece(w, x, y), 3, k) = Piece(w, x + 3, x + k)
          BY <1>0, <5>1, PieceOfPiece
        <5>4. Piece(Chunk(data), 3, k) = data
          BY ChunkIs DEF k, n
        <5>5. Piece(s, i, j) = data
          BY <5>1, <5>2, <5>3, <5>4 DEF s
        <5> QED BY <5>5 DEF i, j
      <4>5. TakeChunk(s, p) = Taken(data, end, "whole")
        BY <4>2, <4>3, <4>4
      <4> QED BY <2>6, <2>9, <3>3, <4>5 DEF s, p, n
    <3> QED BY <3>2, <3>3
  <2> QED BY <2>8, <2>9
<1> QED BY <1>0, <1>7, <1>8

(* What is taken from the chunk at x on, before which were c of the body.  *)
Took(w, body, cuts, a, mid, x, c, t) ==
    \/ mid = Len(w) /\ t = Taken(Piece(body, c, Len(body)), mid - a, "last")
    \/ /\ mid < Len(w)
       /\ \E y, d \in Nat :
              /\ <<y, d>> \in cuts /\ x <= y /\ y <= mid /\ c <= d /\ d <= Len(body)
              /\ t = Taken(Piece(body, c, d), y - a, "partial")

(* The data of a chunk come before those of the ones after it.             *)
Ahead(data, rest) == [rest EXCEPT !.data = data \o @]

LEMMA TookNext ==
    ASSUME NEW u, NEW v, NEW end, NEW why
    PROVE  Ahead(v, Taken(u, end, why)) = Taken(v \o u, end, why)
<1> DEFINE q == v \o u  rest == Taken(u, end, why)
<1>1. rest.data = u
  BY DEF Taken
<1>2. [rest EXCEPT !.data = q] = Taken(q, end, why)
  <2> HIDE DEF q
  <2> QED BY DEF Taken
<1>3. Ahead(v, rest) = [rest EXCEPT !.data = v \o rest.data]
  BY DEF Ahead
<1> QED BY <1>1, <1>2, <1>3

LEMMA TookLater ==
    ASSUME NEW w, NEW cuts, NEW body \in Seq(Symbol), NEW a, NEW mid \in Nat,
           NEW x \in Nat, NEW x1 \in Nat, x <= x1, NEW c \in Nat, NEW c1 \in Nat, c <= c1, c1 <= Len(body),
           NEW rest, Took(w, body, cuts, a, mid, x1, c1, rest)
    PROVE  Took(w, body, cuts, a, mid, x, c, Ahead(Piece(body, c, c1), rest))
<1> DEFINE n == Len(body)  all == Ahead(Piece(body, c, c1), rest)
<1>1. n \in Nat /\ n <= Len(body) /\ c1 <= n
  BY LenProperties
<1> HIDE DEF n
<1>2. CASE mid = Len(w) /\ rest = Taken(Piece(body, c1, n), mid - a, "last")
  <2>1. Piece(body, c, c1) \o Piece(body, c1, n) = Piece(body, c, n)
    BY <1>1, PieceJoin
  <2>2. all = Taken(Piece(body, c, n), mid - a, "last")
    <3>1. Ahead(Piece(body, c, c1), Taken(Piece(body, c1, n), mid - a, "last")) =
              Taken(Piece(body, c, c1) \o Piece(body, c1, n), mid - a, "last")
      BY TookNext
    <3> QED BY <1>2, <2>1, <3>1
  <2> HIDE DEF all
  <2>3. Took(w, body, cuts, a, mid, x, c, all)
    BY <1>2, <2>2 DEF Took, n
  <2> QED BY <2>3 DEF all
<1>3. ASSUME mid < Len(w), NEW y \in Nat, NEW d \in Nat,
             <<y, d>> \in cuts, x1 <= y, y <= mid, c1 <= d, d <= Len(body),
             rest = Taken(Piece(body, c1, d), y - a, "partial")
      PROVE  Took(w, body, cuts, a, mid, x, c, all)
  <2>1. Piece(body, c, c1) \o Piece(body, c1, d) = Piece(body, c, d)
    <3>1. c \in Nat /\ c1 \in Nat /\ d \in Nat /\ c <= c1 /\ c1 <= d /\ d <= Len(body)
      BY <1>3
    <3> QED BY ONLY <3>1, PieceJoin, body \in Seq(Symbol)
  <2>2. all = Taken(Piece(body, c, d), y - a, "partial")
    <3>1. Ahead(Piece(body, c, c1), Taken(Piece(body, c1, d), y - a, "partial")) =
              Taken(Piece(body, c, c1) \o Piece(body, c1, d), y - a, "partial")
      BY TookNext
    <3> QED BY <1>3, <2>1, <3>1
  <2> HIDE DEF all
  <2>3. x <= y /\ c <= d
    BY <1>3
  <2> QED BY <1>3, <2>2, <2>3 DEF Took
<1>4. \/ mid = Len(w) /\ rest = Taken(Piece(body, c1, n), mid - a, "last")
      \/ mid < Len(w) /\ \E y, d \in Nat :
             /\ <<y, d>> \in cuts /\ x1 <= y /\ y <= mid /\ c1 <= d /\ d <= Len(body)
             /\ rest = Taken(Piece(body, c1, d), y - a, "partial")
  BY DEF Took, n
<1> QED BY <1>2, <1>3, <1>4

LEMMA TakeLast ==
    ASSUME NEW w \in Seq(Symbol), NEW body \in Seq(Symbol), NEW x \in Nat, NEW c,
           IsLastCut(w, body, x, c),
           NEW a \in Nat, NEW mid \in Nat, a <= x, x <= mid, mid <= Len(w)
    PROVE  LET chunk == TakeChunk(Piece(w, a, mid), x - a) IN
           \/ mid < Len(w) /\ chunk = Taken(<<>>, x - a, "partial")
           \/ mid = Len(w) /\ chunk = Taken(<<>>, mid - a, "last")
<1> DEFINE none == <<>>  y == x + 5
<1>1. HasChunk(w, x, y, none) /\ Len(none) = 0 /\ y = Len(w)
  <2>1. Len(w) = y /\ Piece(w, x, y) = Chunk(none)
    BY DEF IsLastCut
  <2>2. none \in Seq(Symbol) /\ Len(none) = 0
    BY EmptySeq
  <2>3. y \in Nat /\ y = x + 5 + 0
    OBVIOUS
  <2> HIDE DEF none
  <2> QED BY <2>1, <2>2, <2>3 DEF HasChunk
<1> HIDE DEF none, y
<1>2. TakeChunk(Piece(w, a, mid), x - a) = TakenFrom(none, x, y, a, mid)
  BY <1>1, TakeIs
<1>3. Len(w) \in Nat
  BY LenProperties
<1>4. CASE mid < y
  BY <1>1, <1>2, <1>4 DEF TakenFrom
<1>5. CASE ~(mid < y)
  <2>1. mid = y
    BY <1>1, <1>3, <1>5
  <2> QED BY <1>1, <1>2, <1>5, <2>1 DEF TakenFrom
<1> QED BY <1>4, <1>5

TookOne(body, cuts, a, mid, x, c, chunk) ==
    \E k \in 1 .. Len(body) - c :
        /\ <<x + 5 + k, c + k>> \in cuts /\ x + 5 + k <= mid
        /\ chunk = Taken(Piece(body, c, c + k), (x + 5 + k) - a, "whole")

LEMMA TakeCut ==
    ASSUME NEW w \in Seq(Symbol), NEW body \in Seq(Symbol), NEW cuts, NEW x \in Nat, NEW c \in Nat,
           IsCut(w, body, cuts, x, c),
           NEW a \in Nat, NEW mid \in Nat, a <= x, x <= mid, mid <= Len(w)
    PROVE  LET chunk == TakeChunk(Piece(w, a, mid), x - a) IN
           \/ mid < Len(w) /\ chunk = Taken(<<>>, x - a, "partial")
           \/ TookOne(body, cuts, a, mid, x, c, chunk)
<1>1. PICK k \in 1 .. Len(body) - c :
              /\ x + 5 + k < Len(w) /\ <<x + 5 + k, c + k>> \in cuts
              /\ Piece(w, x, x + 5 + k) = Chunk(Piece(body, c, c + k))
  BY DEF IsCut
<1> DEFINE d == c + k  y == x + 5 + k  data == Piece(body, c, d)
<1>2. Len(body) \in Nat /\ Len(w) \in Nat
  BY LenProperties
<1>3. d \in Nat /\ c <= d /\ d <= Len(body) /\ d - c = k /\ y \in Nat /\ y = x + 5 + k /\ k # 0
  BY <1>2
<1>4. y < Len(w) /\ <<y, d>> \in cuts /\ Piece(w, x, y) = Chunk(data)
  BY <1>1
<1> HIDE DEF d, y
<1>5. data \in Seq(Symbol) /\ Len(data) = k
  BY <1>3, PieceIs
<1> HIDE DEF data
<1>6. HasChunk(w, x, y, data)
  BY <1>2, <1>3, <1>4, <1>5 DEF HasChunk
<1>7. TakeChunk(Piece(w, a, mid), x - a) = TakenFrom(data, x, y, a, mid)
  BY <1>6, TakeIs
<1>8. CASE mid < y
  <2>1. mid < Len(w)
    BY <1>2, <1>3, <1>4, <1>8
  <2> QED BY <1>7, <1>8, <2>1 DEF TakenFrom
<1>9. CASE ~(mid < y)
  <2>1. y <= mid
    BY <1>3, <1>9
  <2>2. TakeChunk(Piece(w, a, mid), x - a) = Taken(data, y - a, "whole")
    BY <1>3, <1>5, <1>7, <1>9 DEF TakenFrom
  <2> QED BY <1>4, <2>1, <2>2 DEF data, d, y, TookOne
<1> QED BY <1>8, <1>9

TookMore(body, cuts, a, mid, x, c, t) ==
    \E k \in 1 .. Len(body) - c :
        /\ <<x + 5 + k, c + k>> \in cuts /\ x + 5 + k <= mid
        /\ t[x - a] = Ahead(Piece(body, c, c + k), t[(x + 5 + k) - a])

LEMMA TakesStep ==
    ASSUME NEW w \in Seq(Symbol), NEW body \in Seq(Symbol), NEW cuts, NEW x \in Nat, NEW c \in Nat,
           <<x, c>> \in cuts, c <= Len(body),
           IsLastCut(w, body, x, c) \/ IsCut(w, body, cuts, x, c),
           NEW a \in Nat, NEW mid \in Nat, a <= x, x <= mid, mid <= Len(w)
    PROVE  LET t == TakeChunks(Piece(w, a, mid)) IN
           \/ Took(w, body, cuts, a, mid, x, c, t[x - a])
           \/ TookMore(body, cuts, a, mid, x, c, t)
<1> DEFINE s == Piece(w, a, mid)
           t == TakeChunks(s)
           p == x - a
           chunk == TakeChunk(s, p)
<1>1. s \in Seq(Symbol) /\ p \in 0 .. Len(s) /\ Len(body) \in Nat
  <2>1. a <= mid
    OBVIOUS
  <2>2. s \in Seq(Symbol) /\ Len(s) = mid - a
    BY <2>1, PieceIs
  <2> QED BY <2>2, LenProperties
<1>2. t[p] = IF chunk.why = "whole" THEN Ahead(chunk.data, t[chunk.end]) ELSE chunk
  BY <1>1, TakesIs DEF Ahead
<1>3. Piece(body, c, c) = <<>>
  BY PieceEnds
<1>4. ASSUME mid < Len(w), chunk = Taken(<<>>, p, "partial")
      PROVE  Took(w, body, cuts, a, mid, x, c, t[p])
  <2> HIDE DEF s, t, chunk, p
  <2>1. chunk.why # "whole"
    BY <1>4 DEF Taken
  <2>2. t[p] = Taken(Piece(body, c, c), p, "partial")
    BY <1>2, <1>3, <1>4, <2>1
  <2>3. x <= x /\ c <= c
    OBVIOUS
  <2> QED BY <1>4, <2>2, <2>3 DEF Took, p
<1>5. CASE IsLastCut(w, body, x, c)
  <2>1. \/ mid < Len(w) /\ chunk = Taken(<<>>, p, "partial")
        \/ mid = Len(w) /\ chunk = Taken(<<>>, mid - a, "last")
    BY <1>5, TakeLast
  <2>2. CASE mid = Len(w) /\ chunk = Taken(<<>>, mid - a, "last")
    <3> HIDE DEF s, t, chunk, p
    <3>1. chunk.why # "whole"
      BY <2>2 DEF Taken
    <3>2. t[p] = Taken(Piece(body, c, Len(body)), mid - a, "last")
      BY <1>2, <1>3, <1>5, <2>2, <3>1 DEF IsLastCut
    <3> QED BY <2>2, <3>2 DEF Took, p, t, s
  <2> QED BY <1>4, <2>1, <2>2
<1>6. CASE IsCut(w, body, cuts, x, c)
  <2>1. \/ mid < Len(w) /\ chunk = Taken(<<>>, p, "partial")
        \/ TookOne(body, cuts, a, mid, x, c, chunk)
    BY <1>6, TakeCut
  <2>2. ASSUME NEW k \in 1 .. Len(body) - c,
               <<x + 5 + k, c + k>> \in cuts, x + 5 + k <= mid,
               chunk = Taken(Piece(body, c, c + k), (x + 5 + k) - a, "whole")
        PROVE  t[p] = Ahead(Piece(body, c, c + k), t[(x + 5 + k) - a])
    <3> DEFINE data == Piece(body, c, c + k)  end == (x + 5 + k) - a
    <3> HIDE DEF s, t, chunk, p, data, end
    <3>1. chunk = Taken(data, end, "whole")
      BY <2>2 DEF data, end
    <3>2. chunk.why = "whole" /\ chunk.end = end /\ chunk.data = data
      BY <3>1 DEF Taken
    <3>3. t[p] = Ahead(data, t[end])
      BY <1>2, <3>2
    <3> QED BY <3>3 DEF data, end
  <2>3. CASE TookOne(body, cuts, a, mid, x, c, chunk)
    <3>1. PICK k \in 1 .. Len(body) - c :
                /\ <<x + 5 + k, c + k>> \in cuts /\ x + 5 + k <= mid
                /\ chunk = Taken(Piece(body, c, c + k), (x + 5 + k) - a, "whole")
      BY <2>3 DEF TookOne
    <3>2. t[p] = Ahead(Piece(body, c, c + k), t[(x + 5 + k) - a])
      BY <2>2, <3>1
    <3> HIDE DEF t
    <3>3. \E l \in 1 .. Len(body) - c :
              /\ <<x + 5 + l, c + l>> \in cuts /\ x + 5 + l <= mid
              /\ t[p] = Ahead(Piece(body, c, c + l), t[(x + 5 + l) - a])
      <4> HIDE DEF p
      <4> QED BY <3>1, <3>2
    <3>4. TookMore(body, cuts, a, mid, x, c, t)
      BY <3>3 DEF TookMore, p
    <3> QED BY <3>4 DEF t, s
  <2> QED BY <1>4, <2>1, <2>3
<1> QED BY <1>5, <1>6

LEMMA TakesAre ==
    ASSUME NEW w \in Seq(Symbol), NEW e \in Nat, NEW lines, NEW cuts, NEW body \in Seq(Symbol),
           ChunkedBody(w, e, lines, cuts, body),
           NEW a \in Nat, NEW mid \in Nat, mid <= Len(w),
           NEW x \in Nat, NEW c \in Nat, <<x, c>> \in cuts, a <= x, x <= mid
    PROVE  Took(w, body, cuts, a, mid, x, c, TakeChunks(Piece(w, a, mid))[x - a])
<1> DEFINE t == TakeChunks(Piece(w, a, mid))
           n == Len(body)
           OK(i, j) == Took(w, body, cuts, a, mid, i, j, t[i - a])
           P == {k \in Nat : \A i, j \in Nat :
                     <<i, j>> \in cuts /\ a <= i /\ i <= mid /\ mid <= i + k => OK(i, j)}
<1>1. n \in Nat
  BY LenProperties
<1>2. \A i, j \in Nat : <<i, j>> \in cuts =>
          j <= n /\ (IsLastCut(w, body, i, j) \/ IsCut(w, body, cuts, i, j))
  BY DEF ChunkedBody
<1>3. ASSUME NEW i \in Nat, NEW j \in Nat, <<i, j>> \in cuts, a <= i, i <= mid
      PROVE  \/ OK(i, j)
             \/ \E k \in 1 .. n - j :
                /\ <<i + 5 + k, j + k>> \in cuts /\ i + 5 + k <= mid
                /\ t[i - a] = Ahead(Piece(body, j, j + k), t[(i + 5 + k) - a])
  <2>1. j <= Len(body) /\ (IsLastCut(w, body, i, j) \/ IsCut(w, body, cuts, i, j))
    BY <1>2, <1>3
  <2>2. OK(i, j) \/ TookMore(body, cuts, a, mid, i, j, t)
    BY <1>3, <2>1, TakesStep
  <2> HIDE DEF t
  <2> QED BY <2>2 DEF TookMore
<1> HIDE DEF t, n
<1>4. 0 \in P
  <2> SUFFICES ASSUME NEW i \in Nat, NEW j \in Nat, <<i, j>> \in cuts, a <= i, i <= mid, mid <= i + 0
               PROVE  OK(i, j)
    OBVIOUS
  <2>1. \A k \in 1 .. n - j : ~(i + 5 + k <= mid)
    OBVIOUS
  <2> HIDE DEF OK
  <2> QED BY <1>3, <2>1
<1>5. ASSUME NEW k \in 0 .. mid - 1, k \in P PROVE k + 1 \in P
  <2> SUFFICES ASSUME NEW i \in Nat, NEW j \in Nat, <<i, j>> \in cuts, a <= i, i <= mid,
                      mid <= i + (k + 1), ~OK(i, j)
               PROVE  FALSE
    BY DEF P
  <2>1. PICK l \in 1 .. n - j :
                /\ <<i + 5 + l, j + l>> \in cuts /\ i + 5 + l <= mid
                /\ t[i - a] = Ahead(Piece(body, j, j + l), t[(i + 5 + l) - a])
    <3> HIDE DEF OK
    <3> QED BY <1>3
  <2> DEFINE x1 == i + 5 + l  j1 == j + l
  <2>2. <<x1, j1>> \in cuts /\ x1 <= mid
    BY <2>1
  <2>3. x1 \in Nat /\ j1 \in Nat /\ j <= j1 /\ j1 <= n /\ i <= x1 /\ a <= x1
    BY <1>1
  <2>4. mid <= x1 + k
    OBVIOUS
  <2>5. t[i - a] = Ahead(Piece(body, j, j1), t[x1 - a])
    BY <2>1
  <2> HIDE DEF x1, j1
  <2>6. OK(x1, j1)
    <3> HIDE DEF OK
    <3> QED BY <1>5, <2>2, <2>3, <2>4
  <2>7. OK(i, j)
    <3> DEFINE rest == t[x1 - a]
    <3>1. Took(w, body, cuts, a, mid, x1, j1, rest) /\ j1 <= Len(body)
      BY <2>3, <2>6 DEF n
    <3>2. t[i - a] = Ahead(Piece(body, j, j1), rest)
      BY <2>5
    <3> HIDE DEF rest
    <3>3. Took(w, body, cuts, a, mid, i, j, Ahead(Piece(body, j, j1), rest))
      BY <2>3, <3>1, TookLater
    <3> QED BY <3>2, <3>3
  <2> QED BY <2>7
<1>6. mid \in P
  <2> HIDE DEF P
  <2> QED BY <1>4, <1>5, Induct
<1>7. mid <= x + mid
  OBVIOUS
<1>8. OK(x, c)
  <2> HIDE DEF OK
  <2> QED BY <1>6, <1>7
<1> QED BY <1>8 DEF t

-----------------------------------------------------------------------------
(* A message that is read: what it holds of its body, what is to come.     *)
Holds(k, content, remain, status) ==
    [k EXCEPT !.content = content, !.remain = remain, !.status = status]

(* The fields of what decode leaves.                                       *)
LEMMA DecodedIs ==
    ASSUME NEW k, NEW n, NEW ret
    PROVE  /\ Decoded(k, n, ret).msg = k /\ Decoded(k, n, ret).erased = n
           /\ Decoded(k, n, ret).ret = ret
BY DEF Decoded

(* parse_content_chunked.                                                  *)
ChunksRead(w, body, cuts, k, a, mid, x, c, r) ==
    \/ /\ mid < Len(w)
       /\ \E y, d \in Nat :
              /\ <<y, d>> \in cuts /\ x <= y /\ y <= mid /\ c <= d /\ d <= Len(body)
              /\ r = Decoded(Holds(k, Piece(body, 0, d), k.remain, "content"), y - a, "AGAIN")
    \/ mid = Len(w) /\ r = Decoded(Holds(k, body, k.remain, "completed"), mid - a, "OK")

LEMMA ChunksParsed ==
    ASSUME NEW w \in Seq(Symbol), NEW e \in Nat, NEW lines, NEW cuts, NEW body \in Seq(Symbol),
           ChunkedBody(w, e, lines, cuts, body),
           NEW a \in Nat, NEW mid \in Nat, mid <= Len(w),
           NEW x \in Nat, NEW c \in Nat, <<x, c>> \in cuts, a <= x, x <= mid,
           NEW k \in Msg, k.status = "content", k.content = Piece(body, 0, c)
    PROVE  ChunksRead(w, body, cuts, k, a, mid, x, c, ParseChunks(k, Piece(w, a, mid), x - a))
<1> DEFINE s == Piece(w, a, mid)
           taken == TakeChunks(s)[x - a]
           n == Len(body)
           more == [k EXCEPT !.content = k.content \o taken.data]
           r == ParseChunks(k, s, x - a)
<1>1. Took(w, body, cuts, a, mid, x, c, taken)
  BY TakesAre
<1>2. r = CASE taken.why = "partial" -> Parsed(more, taken.end)
            [] taken.why = "illegal" -> Decoded(more, 0, "ERROR")
            [] taken.why = "last" -> Parsed([more EXCEPT !.status = "completed"], taken.end)
  BY DEF ParseChunks
<1>3. n \in Nat /\ c <= n
  <2>1. c <= Len(body)
    BY DEF ChunkedBody
  <2> QED BY <2>1, LenProperties
<1>4. \A d : Parsed(Holds(k, d, k.remain, "content"), taken.end) =
                 Decoded(Holds(k, d, k.remain, "content"), taken.end, "AGAIN")
  BY DEF Parsed, Holds, Msg
<1>5. \A d : Parsed(Holds(k, d, k.remain, "completed"), taken.end) =
                 Decoded(Holds(k, d, k.remain, "completed"), taken.end, "OK")
  BY DEF Parsed, Holds, Msg
<1>6. /\ \A d : k.content \o taken.data = d => more = Holds(k, d, k.remain, "content")
      /\ \A d : k.content \o taken.data = d =>
             [more EXCEPT !.status = "completed"] = Holds(k, d, k.remain, "completed")
  BY DEF Holds, Msg
<1> HIDE DEF s, taken, n, more, r
<1>7. ASSUME mid < Len(w), NEW y \in Nat, NEW d \in Nat,
             <<y, d>> \in cuts, x <= y, y <= mid, c <= d, d <= Len(body),
             taken = Taken(Piece(body, c, d), y - a, "partial")
      PROVE  ChunksRead(w, body, cuts, k, a, mid, x, c, r)
  <2>1. taken.why = "partial" /\ taken.end = y - a /\ taken.data = Piece(body, c, d)
    BY <1>7 DEF Taken
  <2>2. Piece(body, 0, c) \o Piece(body, c, d) = Piece(body, 0, d)
    <3>1. 0 \in Nat /\ 0 <= c /\ c \in Nat /\ d \in Nat /\ c <= d /\ d <= Len(body)
      BY <1>7
    <3> QED BY ONLY <3>1, PieceJoin, body \in Seq(Symbol)
  <2>3. k.content \o taken.data = Piece(body, 0, d)
    BY <2>1, <2>2
  <2>4. r = Parsed(Holds(k, Piece(body, 0, d), k.remain, "content"), taken.end)
    BY <1>2, <1>6, <2>1, <2>3
  <2>5. r = Decoded(Holds(k, Piece(body, 0, d), k.remain, "content"), y - a, "AGAIN")
    BY <1>4, <2>1, <2>4
  <2> QED BY <1>7, <2>5 DEF ChunksRead
<1>8. ASSUME mid = Len(w), taken = Taken(Piece(body, c, n), mid - a, "last")
      PROVE  ChunksRead(w, body, cuts, k, a, mid, x, c, r)
  <2>1. taken.why = "last" /\ taken.end = mid - a /\ taken.data = Piece(body, c, n)
    BY <1>8 DEF Taken
  <2>2. Piece(body, 0, c) \o Piece(body, c, n) = Piece(body, 0, n)
    <3>1. 0 \in Nat /\ 0 <= c /\ c \in Nat /\ n \in Nat /\ c <= n /\ n <= Len(body)
      BY <1>3 DEF n
    <3> QED BY ONLY <3>1, PieceJoin, body \in Seq(Symbol)
  <2>3. Piece(body, 0, n) = body
    BY PieceEnds DEF n
  <2>4. k.content \o taken.data = body
    BY <2>1, <2>2, <2>3
  <2>5. r = Parsed(Holds(k, body, k.remain, "completed"), taken.end)
    BY <1>2, <1>6, <2>1, <2>4
  <2>6. r = Decoded(Holds(k, body, k.remain, "completed"), mid - a, "OK")
    BY <1>5, <2>1, <2>5
  <2> QED BY <1>8, <2>6, Zenon DEF ChunksRead
<1>9. \/ mid = Len(w) /\ taken = Taken(Piece(body, c, n), mid - a, "last")
      \/ mid < Len(w) /\ \E y, d \in Nat :
             /\ <<y, d>> \in cuts /\ x <= y /\ y <= mid /\ c <= d /\ d <= Len(body)
             /\ taken = Taken(Piece(body, c, d), y - a, "partial")
  BY <1>1 DEF Took, n
<1>10. ChunksRead(w, body, cuts, k, a, mid, x, c, r)
  BY <1>7, <1>8, <1>9
<1> QED BY <1>10 DEF r, s

(* parse_content.                                                          *)
ContentRead(w, body, end, k, a, mid, r) ==
    \/ mid < Len(w) /\ r = Decoded(Holds(k, Piece(body, 0, mid - end), Len(w) - mid, "content"),
                                   mid - a, "AGAIN")
    \/ mid = Len(w) /\ r = Decoded(Holds(k, body, 0, "completed"), mid - a, "OK")

LEMMA ContentParsed ==
    ASSUME NEW w \in Seq(Symbol), NEW end \in Nat, NEW body \in Seq(Symbol),
           Len(w) = end + Len(body), Piece(w, end, Len(w)) = body,
           NEW a \in Nat, NEW mid \in Nat, mid <= Len(w),
           NEW c \in Nat, c <= Len(body), a <= end + c, end + c <= mid,
           NEW k \in Msg, k.status = "content", k.content = Piece(body, 0, c),
           k.remain = Len(body) - c
    PROVE  ContentRead(w, body, end, k, a, mid, ParseContent(k, Piece(w, a, mid), (end + c) - a))
<1> DEFINE s == Piece(w, a, mid)
           at == (end + c) - a
           n == Min({k.remain, Len(s) - at})
           d == mid - end
           more == [k EXCEPT !.content = k.content \o SubSeq(s, at + 1, at + n),
                             !.remain = k.remain - n,
                             !.status = IF k.remain = n THEN "completed" ELSE k.status]
           r == ParseContent(k, s, at)
<1>1. Len(body) \in Nat /\ Len(w) \in Nat /\ d \in Nat /\ c <= d /\ d <= Len(body) /\ a <= mid
      /\ end + d = mid /\ at \in Nat /\ at + (d - c) = mid - a /\ a + at = end + c
      /\ Len(w) - mid = Len(body) - d
  BY LenProperties
<1>2. s \in Seq(Symbol) /\ Len(s) = mid - a
  <2>1. w \in Seq(Symbol) /\ a \in Nat /\ mid \in Nat /\ a <= mid /\ mid <= Len(w)
    BY <1>1
  <2> QED BY ONLY <2>1, PieceIs
<1>3. n = d - c
  <2> DEFINE S == {k.remain, Len(s) - at}
  <2>1. Len(s) - at = d - c
    BY <1>1, <1>2
  <2>2. S \subseteq Int /\ d - c \in S /\ \A i \in S : d - c <= i
    BY <1>1, <2>1
  <2>3. Min(S) = d - c
    <3> HIDE DEF S, d
    <3> QED BY <2>2, MinIs
  <2> QED BY <2>3
<1>4. k.content \o SubSeq(s, at + 1, at + n) = Piece(body, 0, d)
  <2>1. SubSeq(s, at + 1, at + n) = Piece(s, at, mid - a)
    BY <1>1, <1>3 DEF Piece
  <2>2. Piece(s, at, mid - a) = Piece(w, end + c, end + d)
    <3>1. at <= mid - a /\ mid - a \in Nat /\ a + (mid - a) = end + d
      BY <1>1
    <3> DEFINE j == mid - a
    <3>2. at \in Nat /\ j \in Nat /\ at <= j /\ j <= mid - a /\ a <= mid
      BY <1>1, <3>1
    <3>3. a + at = end + c /\ a + j = end + d
      BY <1>1
    <3> HIDE DEF at, d, j
    <3>4. Piece(Piece(w, a, mid), at, j) = Piece(w, a + at, a + j)
      BY ONLY <3>2, PieceOfPiece, w \in Seq(Symbol), a \in Nat, mid \in Nat, mid <= Len(w)
    <3>5. Piece(Piece(w, a, mid), at, j) = Piece(w, end + c, end + d)
      BY <3>3, <3>4
    <3> QED BY <3>5 DEF j, s
  <2>3. Piece(w, end + c, end + d) = Piece(body, c, d)
    <3> HIDE DEF d
    <3>1. end <= Len(w) /\ d \in Nat /\ c <= d /\ d <= Len(body)
      BY <1>1
    <3> QED BY ONLY <3>1, PieceAtEnd, w \in Seq(Symbol), end \in Nat, Piece(w, end, Len(w)) = body, c \in Nat
  <2>4. Piece(body, 0, c) \o Piece(body, c, d) = Piece(body, 0, d)
    <3>1. 0 \in Nat /\ 0 <= c
      OBVIOUS
    <3> HIDE DEF d
    <3> QED BY ONLY <1>1, <3>1, PieceJoin, c \in Nat, body \in Seq(Symbol)
  <2> QED BY <2>1, <2>2, <2>3, <2>4
<1>5. r = Parsed(more, at + n)
  BY DEF ParseContent
<1>6. at + n = mid - a /\ k.remain - n = Len(w) - mid /\ (k.remain = n <=> mid = Len(w))
  BY <1>1, <1>3
<1>7. more = Holds(k, Piece(body, 0, d), Len(w) - mid, IF mid = Len(w) THEN "completed" ELSE "content")
  <2> HIDE DEF at, n, d, s
  <2> QED BY <1>4, <1>6 DEF Holds
<1>8. /\ \A x, y : Parsed(Holds(k, x, y, "content"), mid - a) =
                       Decoded(Holds(k, x, y, "content"), mid - a, "AGAIN")
      /\ \A x, y : Parsed(Holds(k, x, y, "completed"), mid - a) =
                       Decoded(Holds(k, x, y, "completed"), mid - a, "OK")
  BY DEF Parsed, Holds, Msg
<1> HIDE DEF s, at, n, d, more, r
<1>9. ASSUME mid < Len(w) PROVE ContentRead(w, body, end, k, a, mid, r)
  <2>1. ~(mid = Len(w))
    BY <1>1, <1>9
  <2>2. r = Decoded(Holds(k, Piece(body, 0, d), Len(w) - mid, "content"), mid - a, "AGAIN")
    BY <1>5, <1>6, <1>7, <1>8, <2>1
  <2> QED BY <1>9, <2>2, Zenon DEF ContentRead, d
<1>10. ASSUME mid = Len(w) PROVE ContentRead(w, body, end, k, a, mid, r)
  <2>1. d = Len(body) /\ Len(w) - mid = 0
    BY <1>1, <1>10 DEF d
  <2>2. Piece(body, 0, d) = body
    BY <2>1, PieceEnds
  <2>3. r = Decoded(Holds(k, body, 0, "completed"), mid - a, "OK")
    BY <1>5, <1>6, <1>7, <1>8, <1>10, <2>1, <2>2
  <2> QED BY <1>10, <2>3, Zenon DEF ContentRead
<1>11. mid < Len(w) \/ mid = Len(w)
  BY <1>1
<1>12. ContentRead(w, body, end, k, a, mid, r)
  BY <1>9, <1>10, <1>11
<1> QED BY <1>12 DEF r, s, at

(* What is known of a message when its header has been read and part of    *)
(* its body, up to x.                                                      *)
InBody(last, cuts, m, k, x) ==
    /\ k \in Msg /\ k.status = "content" /\ x \in Nat
    /\ \/ /\ cuts = {} /\ ~k.chunked
          /\ \E c \in Nat : /\ c <= Len(m.body) /\ x = last + 2 + c
                            /\ k.content = Piece(m.body, 0, c) /\ k.remain = Len(m.body) - c
       \/ k.chunked /\ \E c \in Nat : <<x, c>> \in cuts /\ k.content = Piece(m.body, 0, c)

(* Of a text the bytes between a and mid are in the buffer: decode is done, *)
(* or it keeps what it needs.                                              *)
Completes(w, m, a, mid, r) ==
    /\ mid = Len(w) /\ r.ret = "OK" /\ r.erased \in Nat /\ r.erased = mid - a
    /\ r.msg \in Msg /\ r.msg.content = m.body
BodyGoesOn(w, last, cuts, m, a, mid, r) ==
    /\ mid < Len(w) /\ r.ret = "AGAIN" /\ r.erased \in Nat /\ a + r.erased <= mid
    /\ InBody(last, cuts, m, r.msg, a + r.erased)

LEMMA BodyIs ==
    ASSUME NEW m, Sendable(m), NEW client, NEW w, NEW ends, NEW last, NEW cuts,
           IsText(w, ends, last, cuts, m, client),
           NEW a \in Nat, NEW mid \in Nat, mid <= Len(w), NEW x \in Nat, a <= x, x <= mid,
           NEW k, InBody(last, cuts, m, k, x)
    PROVE  LET r == ParseBody(k, Piece(w, a, mid), x - a) IN
           Completes(w, m, a, mid, r) \/ BodyGoesOn(w, last, cuts, m, a, mid, r)
<1> DEFINE s == Piece(w, a, mid)
           r == ParseBody(k, s, x - a)
           body == m.body
           end == last + 2
           lines == Lines(w, ends, last)
           Goal == Completes(w, m, a, mid, r) \/ BodyGoesOn(w, last, cuts, m, a, mid, r)
<1>1. body \in Seq(Symbol) /\ w \in Seq(Symbol) /\ end \in Nat /\ last \in Nat
  BY DEF Sendable, IsText, HeaderOf
<1>2. Len(body) \in Nat /\ Len(w) \in Nat
  BY <1>1, LenProperties
<1>3. k \in Msg /\ k.status = "content" /\ k.remain \in Nat /\ k.chunked \in BOOLEAN
  BY DEF InBody, Msg
<1>4. "content" \in Status /\ "completed" \in Status
  BY DEF Status
<1>5. r = IF k.chunked THEN ParseChunks(k, s, x - a) ELSE ParseContent(k, s, x - a)
  BY DEF ParseBody
<1>6. ASSUME cuts = {}, ~k.chunked, NEW c \in Nat, c <= Len(body), x = end + c,
             k.content = Piece(body, 0, c), k.remain = Len(body) - c
      PROVE  Goal
  <2>1. Len(w) = end + Len(body) /\ Piece(w, end, Len(w)) = body
    BY <1>6 DEF IsText, PlainBody, ChunkedBody
  <2> HIDE DEF s, end, body
  <2>2. ContentRead(w, body, end, k, a, mid, ParseContent(k, Piece(w, a, mid), (end + c) - a))
    BY <1>1, <1>3, <1>6, <2>1, ContentParsed
  <2>3. ContentRead(w, body, end, k, a, mid, r)
    BY <1>5, <1>6, <2>2 DEF s
  <2> HIDE DEF r
  <2>4. CASE mid < Len(w)
    <3> DEFINE d == mid - end  l == Holds(k, Piece(body, 0, d), Len(w) - mid, "content")
    <3>1. r = Decoded(l, mid - a, "AGAIN")
      BY <1>2, <2>3, <2>4 DEF ContentRead
    <3>2. d \in Nat /\ d <= Len(body) /\ mid = end + d /\ Len(w) - mid = Len(body) - d /\ Len(w) - mid \in Nat
      BY <1>1, <1>2, <1>6, <2>1
    <3>3. Piece(body, 0, d) \in Seq(Symbol)
      <4> HIDE DEF d
      <4> QED BY <1>1, <3>2, PieceIs
    <3>4. /\ l \in Msg /\ l.content = Piece(body, 0, d) /\ l.remain = Len(body) - d
          /\ l.status = "content" /\ ~l.chunked
      <4> DEFINE p == Piece(body, 0, d)  q == Len(w) - mid
      <4>1. p \in Seq(Symbol) /\ q \in Nat /\ q = Len(body) - d
        BY <3>2, <3>3
      <4> HIDE DEF p, q, d
      <4>2. /\ Holds(k, p, q, "content") \in Msg /\ Holds(k, p, q, "content").content = p
            /\ Holds(k, p, q, "content").remain = q /\ Holds(k, p, q, "content").status = "content"
            /\ Holds(k, p, q, "content").chunked = k.chunked
        BY <1>3, <1>4, <4>1 DEF Holds, Msg
      <4> QED BY <1>6, <4>1, <4>2 DEF p, q
    <3> HIDE DEF l, d
    <3>5. r.msg = l /\ r.erased = mid - a /\ r.ret = "AGAIN"
      BY <3>1, DecodedIs
    <3>6. r.erased \in Nat /\ a + r.erased = mid
      BY <3>5
    <3>7. InBody(last, cuts, m, l, mid)
      BY <1>6, <3>2, <3>4 DEF InBody, body, end
    <3>8. BodyGoesOn(w, last, cuts, m, a, mid, r)
      BY <2>4, <3>5, <3>6, <3>7 DEF BodyGoesOn
    <3> QED BY <3>8
  <2>5. CASE mid = Len(w)
    <3> DEFINE l == Holds(k, body, 0, "completed")
    <3>1. r = Decoded(l, mid - a, "OK")
      BY <1>2, <2>3, <2>5 DEF ContentRead
    <3>2. l \in Msg /\ l.content = body
      BY <1>1, <1>3, <1>4 DEF Holds, Msg
    <3> HIDE DEF l
    <3>3. r.msg = l /\ r.erased = mid - a /\ r.ret = "OK" /\ mid - a \in Nat
      BY <3>1, DecodedIs
    <3>4. Completes(w, m, a, mid, r)
      BY <2>5, <3>2, <3>3 DEF Completes, body
    <3> QED BY <3>4
  <2>6. mid < Len(w) \/ mid = Len(w)
    BY <1>2
  <2> QED BY <2>4, <2>5, <2>6
<1>7. ASSUME k.chunked, NEW c \in Nat, <<x, c>> \in cuts, k.content = Piece(body, 0, c)
      PROVE  Goal
  <2>1. ChunkedBody(w, end, lines, cuts, body)
    BY <1>7 DEF IsText
  <2> HIDE DEF s, end, body, lines
  <2>2. ChunksRead(w, body, cuts, k, a, mid, x, c, ParseChunks(k, Piece(w, a, mid), x - a))
    BY <1>1, <1>3, <1>7, <2>1, ChunksParsed
  <2>3. ChunksRead(w, body, cuts, k, a, mid, x, c, r)
    BY <1>5, <1>7, <2>2 DEF s
  <2> HIDE DEF r
  <2>4. ASSUME mid < Len(w), NEW y \in Nat, NEW d \in Nat,
               <<y, d>> \in cuts, x <= y, y <= mid, d <= Len(body),
               r = Decoded(Holds(k, Piece(body, 0, d), k.remain, "content"), y - a, "AGAIN")
        PROVE  Goal
    <3> DEFINE p == Piece(body, 0, d)  l == Holds(k, p, k.remain, "content")
    <3>1. p \in Seq(Symbol)
      <4>1. 0 \in Nat /\ 0 <= d
        OBVIOUS
      <4> QED BY ONLY <1>1, <2>4, <4>1, d \in Nat, PieceIs
    <3> HIDE DEF p
    <3>2. l \in Msg /\ l.content = p /\ l.status = "content" /\ l.chunked
      BY <1>3, <1>4, <1>7, <3>1 DEF Holds, Msg
    <3>3. r = Decoded(l, y - a, "AGAIN")
      BY <2>4 DEF p
    <3> HIDE DEF l
    <3>4. r.msg = l /\ r.erased = y - a /\ r.ret = "AGAIN"
      BY <3>3, DecodedIs
    <3>5. r.erased \in Nat /\ a + r.erased = y
      BY <2>4, <3>4
    <3>6. InBody(last, cuts, m, l, y)
      BY <2>4, <3>2 DEF InBody, body, p
    <3>7. BodyGoesOn(w, last, cuts, m, a, mid, r)
      BY <2>4, <3>4, <3>5, <3>6 DEF BodyGoesOn
    <3> QED BY <3>7
  <2>5. CASE mid = Len(w) /\ r = Decoded(Holds(k, body, k.remain, "completed"), mid - a, "OK")
    <3> DEFINE l == Holds(k, body, k.remain, "completed")
    <3>2. l \in Msg /\ l.content = body
      BY <1>1, <1>3, <1>4 DEF Holds, Msg
    <3>3. r.msg = l /\ r.erased = mid - a /\ r.ret = "OK" /\ mid - a \in Nat
      <4> HIDE DEF l
      <4>1. r = Decoded(l, mid - a, "OK")
        BY <2>5 DEF l
      <4> QED BY <4>1, DecodedIs
    <3> HIDE DEF l
    <3>4. Completes(w, m, a, mid, r)
      BY <2>5, <3>2, <3>3 DEF Completes, body
    <3> QED BY <3>4
  <2>6. \/ mid = Len(w) /\ r = Decoded(Holds(k, body, k.remain, "completed"), mid - a, "OK")
        \/ mid < Len(w) /\ \E y, d \in Nat :
              /\ <<y, d>> \in cuts /\ x <= y /\ y <= mid /\ c <= d /\ d <= Len(body)
              /\ r = Decoded(Holds(k, Piece(body, 0, d), k.remain, "content"), y - a, "AGAIN")
    BY <2>3 DEF ChunksRead
  <2> QED BY <2>4, <2>5, <2>6
<1>8. \/ /\ cuts = {} /\ ~k.chunked
         /\ \E c \in Nat : /\ c <= Len(body) /\ x = end + c
                           /\ k.content = Piece(body, 0, c) /\ k.remain = Len(body) - c
      \/ k.chunked /\ \E c \in Nat : <<x, c>> \in cuts /\ k.content = Piece(body, 0, c)
  BY DEF InBody
<1>9. Goal
  <2> HIDE DEF Goal, body, end
  <2> QED BY <1>6, <1>7, <1>8
<1> QED BY <1>9 DEF r, s

(* A message of which the header lines are read, or the whole header.      *)
Headed(lines) == [NewMsg EXCEPT !.status = "header", !.headers = lines]
Started(lines) == [NewMsg EXCEPT !.status = "content", !.headers = lines]

LEMMA HeadedIs ==
    ASSUME NEW lines, lines \subseteq Symbol
    PROVE  /\ Headed(lines) \in Msg /\ Headed(lines).headers = lines /\ Headed(lines).status = "header"
           /\ Started(lines) \in Msg /\ Started(lines).headers = lines
           /\ Started(lines).status = "content"
           /\ Started(lines).remain = 0 /\ Started(lines).chunked = FALSE
           /\ Started(lines).content = <<>>
           /\ \A more : [Headed(lines) EXCEPT !.headers = more] = Headed(more)
           /\ \A more : [Headed(lines) EXCEPT !.status = "content", !.headers = more] = Started(more)
<1>1. <<>> \in Seq(Symbol)
  BY EmptySeq
<1> QED BY <1>1 DEF Headed, Started, NewMsg, Msg, Status

LEMMA LinesType ==
    ASSUME NEW w, NEW first, NEW ends, NEW last, HeaderOf(w, first, ends, last), NEW x \in ends
    PROVE  Lines(w, ends, x) \subseteq Symbol
<1>1. w \in Seq(Symbol) /\ last + 2 <= Len(w) /\ Len(w) \in Nat /\ ends \subseteq first .. last
      /\ first \in Nat /\ last \in Nat
  BY LenProperties DEF HeaderOf
<1>2. \A n \in 1 .. Len(w) : w[n] \in Symbol
  BY <1>1, ElementOfSeq
<1>3. \A i \in ends : i + 1 \in 1 .. Len(w)
  BY <1>1
<1> QED BY <1>2, <1>3 DEF Lines

HeaderRead(w, ends, last, a, at, mid, r) ==
    \/ /\ mid <= last
       /\ \E x \in ends : /\ at <= x /\ x <= mid /\ mid <= x + 2
                          /\ r.msg = Headed(Lines(w, ends, x)) /\ r.at = x - a
    \/ mid >= last + 2 /\ r.msg = Started(Lines(w, ends, last)) /\ r.at = last + 2 - a

LEMMA HeaderIs ==
    ASSUME NEW w, NEW first, NEW ends, NEW last, HeaderOf(w, first, ends, last),
           NEW a \in Nat, NEW at \in ends, a <= at, NEW mid \in Nat, at <= mid, mid <= Len(w),
           w[mid] # BlankCR
    PROVE  HeaderRead(w, ends, last, a, at, mid,
                      ParseHeaders(Headed(Lines(w, ends, at)), Piece(w, a, mid), at - a))
<1> DEFINE k == Headed(Lines(w, ends, at))
           r == ParseHeaders(k, Piece(w, a, mid), at - a)
<1>1. /\ k \in Msg /\ k.headers = Lines(w, ends, at)
      /\ \A more : [k EXCEPT !.headers = more] = Headed(more)
      /\ \A more : [k EXCEPT !.status = "content", !.headers = more] = Started(more)
  BY LinesType, HeadedIs
<1> HIDE DEF k
<1>2. \/ \E x \in ends :
          /\ at <= x /\ x <= mid /\ mid <= last /\ mid <= x + 2
          /\ r.msg = [k EXCEPT !.headers = Lines(w, ends, x)] /\ r.at = x - a
      \/ /\ mid >= last + 2 /\ r.at = last + 2 - a
         /\ r.msg = [k EXCEPT !.status = "content", !.headers = Lines(w, ends, last)]
  <2>1. HeadersRead(w, ends, last, k, a, at, mid, r)
    BY <1>1, HeadersAre
  <2> HIDE DEF r
  <2> QED BY <2>1 DEF HeadersRead
<1> HIDE DEF r
<1>3. HeaderRead(w, ends, last, a, at, mid, r)
  BY <1>1, <1>2 DEF HeaderRead
<1> QED BY <1>3 DEF r, k

(* How the body is sent, as the header says.                               *)
LEMMA StartIs ==
    ASSUME NEW m, Sendable(m), NEW client, NEW w, NEW ends, NEW last, NEW cuts,
           IsText(w, ends, last, cuts, m, client)
    PROVE  InBody(last, cuts, m, StartContent(Started(Lines(w, ends, last)), client), last + 2)
<1> DEFINE lines == Lines(w, ends, last)
           k == Started(lines)
           l == StartContent(k, client)
           body == m.body
           Sized == \E h \in lines : h[1] = "length"
           size == CHOOSE h \in lines : h[1] = "length"
<1>1. body \in Seq(Symbol) /\ last + 2 \in Nat /\ Len(body) \in Nat /\ lines \subseteq Symbol
  <2>1. HeaderOf(w, m.line, ends, last) /\ last \in ends /\ last \in Nat
    BY DEF IsText, HeaderOf
  <2> QED BY <2>1, LinesType, LenProperties DEF Sendable
<1>2. /\ k \in Msg /\ k.headers = lines /\ k.status = "content"
      /\ k.remain = 0 /\ k.chunked = FALSE /\ k.content = <<>>
  BY <1>1, HeadedIs
<1>3. Piece(body, 0, 0) = <<>>
  BY <1>1, PieceEnds
<1>4. /\ Sized => l = [k EXCEPT !.remain = size[2]]
      /\ ~Sized => l = [k EXCEPT !.chunked = client /\ Chunked \in lines]
  BY <1>2 DEF StartContent
<1>5. \/ cuts = {} /\ PlainLines(lines, body)
      \/ client /\ ChunkedBody(w, last + 2, lines, cuts, body)
  BY DEF IsText, PlainBody
<1> HIDE DEF lines, k, l, body
<1>6. ASSUME cuts = {}, Sized, \A h \in lines : h[1] = "length" => h[2] = Len(body)
      PROVE  InBody(last, cuts, m, l, last + 2)
  <2>1. size \in lines /\ size[1] = "length"
    BY <1>6
  <2>2. size[2] = Len(body)
    BY <1>6, <2>1
  <2>3. l \in Msg /\ l.status = "content" /\ ~l.chunked /\ l.content = <<>> /\ l.remain = Len(body)
    <3> HIDE DEF size
    <3> QED BY <1>1, <1>2, <1>4, <1>6, <2>2 DEF Msg
  <2>4. 0 \in Nat /\ 0 <= Len(body) /\ last + 2 = last + 2 + 0 /\ l.remain = Len(body) - 0
    BY <1>1, <2>3 DEF IsText, HeaderOf
  <2> QED BY <1>1, <1>3, <1>6, <2>3, <2>4 DEF InBody, body
<1>7. ASSUME cuts = {}, body = <<>>, Chunked \notin lines, ~Sized
      PROVE  InBody(last, cuts, m, l, last + 2)
  <2>1. l = [k EXCEPT !.chunked = FALSE]
    BY <1>4, <1>7
  <2>2. l \in Msg /\ l.status = "content" /\ ~l.chunked /\ l.content = <<>> /\ l.remain = 0
    BY <1>2, <2>1 DEF Msg
  <2>3. Len(body) = 0
    BY <1>7, EmptySeq
  <2>4. 0 \in Nat /\ 0 <= Len(body) /\ last + 2 = last + 2 + 0 /\ l.remain = Len(body) - 0
    BY <1>1, <2>2, <2>3 DEF IsText, HeaderOf
  <2> QED BY <1>1, <1>3, <1>7, <2>2, <2>4 DEF InBody, body
<1>8. ASSUME client, ChunkedBody(w, last + 2, lines, cuts, body)
      PROVE  InBody(last, cuts, m, l, last + 2)
  <2>1. ~Sized /\ Chunked \in lines /\ <<last + 2, 0>> \in cuts
    BY <1>8 DEF ChunkedBody
  <2>2. l = [k EXCEPT !.chunked = TRUE]
    BY <1>4, <1>8, <2>1
  <2>3. l \in Msg /\ l.status = "content" /\ l.chunked /\ l.content = <<>>
    BY <1>2, <2>2 DEF Msg
  <2>4. 0 \in Nat
    OBVIOUS
  <2> QED BY <1>1, <1>3, <2>1, <2>3, <2>4 DEF InBody, body
<1>9. InBody(last, cuts, m, l, last + 2)
  BY <1>5, <1>6, <1>7, <1>8 DEF PlainLines
<1> QED BY <1>9 DEF l, k, lines

HeaderGoesOn(w, ends, last, a, mid, r) ==
    /\ mid <= last /\ r.ret = "AGAIN" /\ r.erased \in Nat
    /\ \E x \in ends : /\ r.erased = x - a /\ x <= mid /\ mid <= x + 2
                       /\ r.msg = Headed(Lines(w, ends, x))

LEMMA MessageIs ==
    ASSUME NEW m, Sendable(m), NEW client, NEW w, NEW ends, NEW last, NEW cuts,
           IsText(w, ends, last, cuts, m, client),
           NEW a \in Nat, NEW at \in ends, a <= at, NEW mid \in Nat, at <= mid, mid <= Len(w),
           w[mid] # BlankCR
    PROVE  LET r == ParseMessage(Headed(Lines(w, ends, at)), Piece(w, a, mid), at - a, client) IN
           \/ Completes(w, m, a, mid, r) \/ BodyGoesOn(w, last, cuts, m, a, mid, r)
           \/ HeaderGoesOn(w, ends, last, a, mid, r)
<1> DEFINE k == Headed(Lines(w, ends, at))
           s == Piece(w, a, mid)
           header == ParseHeaders(k, s, at - a)
           r == ParseMessage(k, s, at - a, client)
           Goal == \/ Completes(w, m, a, mid, r) \/ BodyGoesOn(w, last, cuts, m, a, mid, r)
                   \/ HeaderGoesOn(w, ends, last, a, mid, r)
<1>1. HeaderOf(w, m.line, ends, last)
  BY DEF IsText
<1>2. last \in ends /\ last \in Nat /\ ends \subseteq Nat /\ at \in Nat
  BY <1>1 DEF HeaderOf
<1>3. HeaderRead(w, ends, last, a, at, mid, header)
  BY <1>1, HeaderIs
<1>4. r = IF header.msg.status = "content"
          THEN ParseBody(StartContent(header.msg, client), s, header.at)
          ELSE Parsed(header.msg, header.at)
  BY DEF ParseMessage
<1> HIDE DEF header, r, k, s
<1>5. ASSUME mid <= last, NEW x \in ends, at <= x, x <= mid, mid <= x + 2,
             header.msg = Headed(Lines(w, ends, x)), header.at = x - a
      PROVE  Goal
  <2> DEFINE l == Headed(Lines(w, ends, x))
  <2>1. l.status = "header"
    BY <1>1, LinesType, HeadedIs
  <2>2. header.msg = l
    BY <1>5
  <2> HIDE DEF l
  <2>3. r = Decoded(l, x - a, "AGAIN")
    BY <1>4, <1>5, <2>1, <2>2 DEF Parsed
  <2>4. r.msg = l /\ r.erased = x - a /\ r.ret = "AGAIN"
    BY <2>3, DecodedIs
  <2>5. r.erased \in Nat
    BY <1>2, <1>5, <2>4
  <2>6. HeaderGoesOn(w, ends, last, a, mid, r)
    BY <1>5, <2>4, <2>5 DEF HeaderGoesOn, l
  <2> QED BY <2>6
<1>6. ASSUME mid >= last + 2, header.msg = Started(Lines(w, ends, last)), header.at = last + 2 - a
      PROVE  Goal
  <2> DEFINE l == Started(Lines(w, ends, last))  x == last + 2
  <2>1. l.status = "content"
    BY <1>1, <1>2, LinesType, HeadedIs
  <2>2. header.msg = l
    BY <1>6
  <2> HIDE DEF l
  <2>3. r = ParseBody(StartContent(l, client), s, x - a)
    <3>1. header.msg.status = "content" /\ header.at = x - a
      <4>1. header.msg.status = "content"
        BY <2>1, <2>2
      <4>2. header.at = x - a
        BY <1>2, <1>6
      <4> QED BY <4>1, <4>2
    <3> HIDE DEF x
    <3>2. r = ParseBody(StartContent(header.msg, client), s, header.at)
      BY <1>4, <3>1
    <3> QED BY <2>2, <3>1, <3>2
  <2> DEFINE b == StartContent(l, client)
  <2>4. InBody(last, cuts, m, b, x)
    BY StartIs DEF l
  <2>5. x \in Nat /\ a <= x /\ x <= mid
    <3>1. at <= last
      BY <1>1 DEF HeaderOf
    <3> QED BY <1>2, <1>6, <3>1
  <2> HIDE DEF b, x
  <2> DEFINE q == ParseBody(b, Piece(w, a, mid), x - a)
  <2>6. Completes(w, m, a, mid, q) \/ BodyGoesOn(w, last, cuts, m, a, mid, q)
    BY <2>4, <2>5, BodyIs
  <2>7. q = r
    BY <2>3 DEF b, s
  <2> HIDE DEF q
  <2> QED BY <2>6, <2>7
<1>7. Goal
  <2> HIDE DEF Goal
  <2> QED BY <1>3, <1>5, <1>6 DEF HeaderRead
<1> QED BY <1>7 DEF r, k, s

(* How far the reading of a message is: its bytes up to mid have been read, *)
(* the ones before at are erased, and k is known of it.                    *)
TextProgress(w, ends, last, cuts, m, k, at, mid) ==
    \/ k = NewMsg /\ at = 0 /\ mid < m.line
    \/ /\ mid <= last /\ at \in ends /\ at <= mid /\ mid <= at + 2
       /\ k = Headed(Lines(w, ends, at))
    \/ mid < Len(w) /\ at <= mid /\ InBody(last, cuts, m, k, at)

TextOutcome(w, ends, last, cuts, m, a, mid, r) ==
    \/ Completes(w, m, a, mid, r)
    \/ /\ r.ret = "AGAIN" /\ r.erased \in Nat /\ r.erased <= mid - a
       /\ TextProgress(w, ends, last, cuts, m, r.msg, a + r.erased, mid)
    \/ r.ret = "ERROR" /\ r.erased \in Nat /\ r.msg \in Msg /\ m.line > MaxHeader - ReadSize + 1

LEMMA TextBounds ==
    ASSUME NEW m, NEW client, NEW w, NEW ends, NEW last, NEW cuts,
           IsText(w, ends, last, cuts, m, client)
    PROVE  /\ w \in Seq(Symbol) /\ Len(w) \in Nat /\ last \in Nat /\ last + 2 <= Len(w)
           /\ m.line \in Nat /\ m.line >= ShortLine /\ m.line <= last
           /\ m.line \in ends /\ last \in ends
           /\ \A x \in ends : x \in Nat /\ m.line <= x /\ x <= last
           /\ \A i \in 1 .. m.line - 1 : w[i] # LF
           /\ w[m.line] = LF /\ w[1] # LF
           /\ client => w[1] = Http
<1>1. HeaderOf(w, m.line, ends, last) /\ (client => w[1] = Http)
  BY DEF IsText
<1>2. Len(w) \in Nat
  BY <1>1, LenProperties DEF HeaderOf
<1> QED BY <1>1, <1>2 DEF HeaderOf, ShortLine

(* A message is refused for the length of what is in the buffer only.      *)
LEMMA RefusedIs ==
    ASSUME NEW w, NEW ends, NEW last, NEW cuts, NEW m, NEW a, NEW mid,
           NEW k \in Msg, NEW s \in Seq(Symbol), m.line > MaxHeader - ReadSize + 1
    PROVE  TextOutcome(w, ends, last, cuts, m, a, mid, Refused(k, s))
<1> DEFINE r == Refused(k, s)
<1>1. r.msg = k /\ r.erased = Len(s) /\ r.ret = "ERROR"
  BY DecodedIs DEF Refused
<1>2. Len(s) \in Nat
  BY LenProperties
<1> HIDE DEF r
<1>3. TextOutcome(w, ends, last, cuts, m, a, mid, r)
  BY <1>1, <1>2 DEF TextOutcome
<1> QED BY <1>3 DEF r

(* What ParseMessage leaves.                                               *)
LEMMA OutcomeIs ==
    ASSUME NEW m, NEW client, NEW w, NEW ends, NEW last, NEW cuts,
           IsText(w, ends, last, cuts, m, client), NEW a \in Nat, NEW mid \in Nat, NEW r,
           \/ Completes(w, m, a, mid, r) \/ BodyGoesOn(w, last, cuts, m, a, mid, r)
           \/ HeaderGoesOn(w, ends, last, a, mid, r)
    PROVE  TextOutcome(w, ends, last, cuts, m, a, mid, r)
<1>1. CASE BodyGoesOn(w, last, cuts, m, a, mid, r)
  <2>1. mid < Len(w) /\ r.ret = "AGAIN" /\ r.erased \in Nat /\ a + r.erased <= mid
        /\ InBody(last, cuts, m, r.msg, a + r.erased)
    BY <1>1 DEF BodyGoesOn
  <2>2. r.erased <= mid - a
    BY <2>1
  <2>3. TextProgress(w, ends, last, cuts, m, r.msg, a + r.erased, mid)
    BY <2>1 DEF TextProgress
  <2> QED BY <2>1, <2>2, <2>3 DEF TextOutcome
<1>2. CASE HeaderGoesOn(w, ends, last, a, mid, r)
  <2>1. PICK x \in ends : /\ r.erased = x - a /\ x <= mid /\ mid <= x + 2
                          /\ r.msg = Headed(Lines(w, ends, x))
    BY <1>2 DEF HeaderGoesOn
  <2>2. mid <= last /\ r.ret = "AGAIN" /\ r.erased \in Nat
    BY <1>2 DEF HeaderGoesOn
  <2>3. x \in Nat
    BY TextBounds
  <2>4. a + r.erased = x /\ r.erased <= mid - a
    BY <2>1, <2>3
  <2>5. TextProgress(w, ends, last, cuts, m, r.msg, a + r.erased, mid)
    BY <2>1, <2>2, <2>4 DEF TextProgress
  <2> QED BY <2>2, <2>4, <2>5 DEF TextOutcome
<1> QED BY <1>1, <1>2 DEF TextOutcome

LEMMA NewMsgIs ==
    /\ NewMsg \in Msg /\ NewMsg.status = "startline" /\ NewMsg.headers = {}
    /\ [NewMsg EXCEPT !.status = "header"] = Headed({})
<1>1. <<>> \in Seq(Symbol)
  BY EmptySeq
<1>2. NewMsg \in Msg /\ NewMsg.status = "startline" /\ NewMsg.headers = {}
  BY <1>1 DEF NewMsg, Msg, Status
<1>3. [NewMsg EXCEPT !.status = "header"] = Headed({})
  BY <1>2 DEF Headed, Msg
<1> QED BY <1>2, <1>3

(* One more read: from old to mid.                                         *)
LEMMA TextIs ==
    ASSUME NEW m, Sendable(m), NEW client \in BOOLEAN, NEW w, NEW ends, NEW last, NEW cuts,
           IsText(w, ends, last, cuts, m, client),
           NEW a \in Nat, NEW old \in Nat, NEW mid \in Nat, a <= old, old < mid, mid <= old + ReadSize,
           mid <= Len(w), w[mid] # BlankCR,
           NEW k, TextProgress(w, ends, last, cuts, m, k, a, old)
    PROVE  TextOutcome(w, ends, last, cuts, m, a, mid, DecodeHttp(k, Piece(w, a, mid), client))
<1> DEFINE s == Piece(w, a, mid)
           r == DecodeHttp(k, s, client)
           Goal == TextOutcome(w, ends, last, cuts, m, a, mid, r)
<1>1. /\ w \in Seq(Symbol) /\ Len(w) \in Nat /\ last \in Nat /\ last + 2 <= Len(w)
      /\ m.line \in Nat /\ m.line >= 3 /\ m.line <= last
      /\ m.line \in ends /\ last \in ends
      /\ \A x \in ends : x \in Nat /\ m.line <= x /\ x <= last
      /\ \A i \in 1 .. m.line - 1 : w[i] # LF
      /\ w[m.line] = LF
      /\ (client => w[1] = Http)
  BY TextBounds DEF ShortLine
<1>2. s \in Seq(Symbol) /\ Len(s) = mid - a /\ \A i \in 1 .. mid - a : s[i] = w[a + i]
  <2>1. a <= mid
    OBVIOUS
  <2> QED BY <1>1, <2>1, PieceIs
<1>3. ReadSize \in Nat /\ MaxHeader \in Nat
  BY ExchangeAssumption
<1>4. r = CASE k.status = "completed" -> Decoded(k, 0, "OK")
            [] k.status = "content"   -> ParseBody(k, s, 0)
            [] k.status \in {"startline", "header"} /\ Len(s) > MaxHeader -> Refused(k, s)
            [] k.status = "header" /\ Len(s) <= MaxHeader -> ParseMessage(k, s, 0, client)
            [] k.status = "startline" /\ Len(s) <= MaxHeader -> ParseStartLine(k, s, client)
  BY DEF DecodeHttp
<1> HIDE DEF s, r
<1>5. ASSUME k = NewMsg, a = 0, old < m.line PROVE Goal
  <2>1. k \in Msg /\ k.status = "startline"
    BY <1>5, NewMsgIs
  <2>2. CASE Len(s) > MaxHeader
    <3>1. r = Refused(k, s)
      <4>1. ~(Len(s) <= MaxHeader)
        BY <1>2, <1>3, <2>2
      <4> QED BY <1>4, <2>1, <2>2, <4>1
    <3>2. m.line > MaxHeader - ReadSize + 1
      BY <1>1, <1>2, <1>3, <1>5, <2>2
    <3> QED BY <1>2, <2>1, <3>1, <3>2, RefusedIs
  <2>3. CASE ~(Len(s) > MaxHeader)
    <3>1. r = ParseStartLine(k, s, client)
      BY <1>2, <1>3, <1>4, <2>1, <2>3
    <3>2. ParseStartLine(k, s, client) =
            CASE LineLen(s) = 0 -> Decoded(k, 0, "AGAIN")
              [] LineLen(s) > 0 /\ client /\ s[1] # Http -> Refused(k, s)
              [] LineLen(s) > 0 /\ (client => s[1] = Http) ->
                     ParseMessage([k EXCEPT !.status = "header"], s, LineLen(s), client)
      BY DEF ParseStartLine
    <3>3. CASE mid < m.line
      <4>1. \A i \in 1 .. Len(s) : s[i] # LF
        <5> SUFFICES ASSUME NEW i \in 1 .. mid - a PROVE s[i] # LF
          BY <1>2
        <5>1. i \in 1 .. m.line - 1 /\ a + i = i
          BY <1>1, <1>5, <3>3
        <5> QED BY <1>1, <1>2, <5>1
      <4>2. r = Decoded(k, 0, "AGAIN")
        BY <3>1, <3>2, <4>1, NoLine
      <4>3. r.msg = k /\ r.erased = 0 /\ r.ret = "AGAIN"
        BY <4>2, DecodedIs
      <4>4. r.erased \in Nat /\ r.erased <= mid - a /\ a + r.erased = 0
        BY <1>5, <4>3
      <4>5. TextProgress(w, ends, last, cuts, m, r.msg, a + r.erased, mid)
        BY <1>5, <3>3, <4>3, <4>4 DEF TextProgress
      <4> QED BY <4>3, <4>4, <4>5 DEF TextOutcome
    <3>4. CASE ~(mid < m.line)
      <4>1. m.line \in 1 .. Len(s) /\ s[m.line] = LF /\ \A i \in 1 .. m.line - 1 : s[i] # LF
        <5>1. \A i \in 1 .. m.line : i \in 1 .. mid - a /\ a + i = i
          BY <1>1, <1>5, <3>4
        <5>2. m.line \in 1 .. Len(s) /\ m.line \in 1 .. m.line
          BY <1>1, <1>2, <1>5, <3>4
        <5>3. ASSUME NEW i \in 1 .. m.line PROVE s[i] = w[i]
          BY <1>2, <5>1
        <5>4. ASSUME NEW i \in 1 .. m.line - 1 PROVE s[i] # LF
          <6>1. i \in 1 .. m.line
            BY <1>1
          <6> QED BY <1>1, <5>3, <6>1
        <5> QED BY <1>1, <5>2, <5>3, <5>4
      <4>2. LineLen(s) = m.line
        BY <1>2, <4>1, LineLenIs
      <4>3. client => s[1] = Http
        <5>1. 1 \in 1 .. mid - a /\ a + 1 = 1
          BY <1>1, <1>5, <3>4
        <5> QED BY <1>1, <1>2, <5>1
      <4> DEFINE x == m.line  l == Headed(Lines(w, ends, x))
      <4>4. [k EXCEPT !.status = "header"] = l
        <5>1. Lines(w, ends, x) = {}
          BY <1>1 DEF Lines
        <5> QED BY <1>5, <5>1, NewMsgIs
      <4>5. r = ParseMessage(l, s, x, client)
        <5> HIDE DEF l
        <5>1. LineLen(s) > 0 /\ ~(LineLen(s) = 0)
          BY <1>1, <4>2
        <5> QED BY <3>1, <3>2, <4>2, <4>3, <4>4, <5>1
      <4>6. x \in ends /\ a <= x /\ x <= mid /\ x = x - a
        BY <1>1, <1>5, <3>4
      <4> HIDE DEF x
      <4> DEFINE q == ParseMessage(l, Piece(w, a, mid), x - a, client)
      <4>7. \/ Completes(w, m, a, mid, q) \/ BodyGoesOn(w, last, cuts, m, a, mid, q)
            \/ HeaderGoesOn(w, ends, last, a, mid, q)
        BY <4>6, MessageIs
      <4>8. q = r
        BY <4>5, <4>6 DEF s
      <4> HIDE DEF q
      <4> QED BY <4>7, <4>8, OutcomeIs
    <3> QED BY <3>3, <3>4
  <2> QED BY <2>2, <2>3
<1>6. ASSUME old <= last, a \in ends, old <= a + 2, k = Headed(Lines(w, ends, a)) PROVE Goal
  <2>1. k \in Msg /\ k.status = "header"
    <3>1. HeaderOf(w, m.line, ends, last)
      BY DEF IsText
    <3> QED BY <1>6, <3>1, LinesType, HeadedIs
  <2>2. CASE Len(s) > MaxHeader
    <3>1. r = Refused(k, s)
      <4>1. ~(Len(s) <= MaxHeader)
        BY <1>2, <1>3, <2>2
      <4> QED BY <1>4, <2>1, <2>2, <4>1
    <3>2. m.line > MaxHeader - ReadSize + 1
      BY <1>1, <1>2, <1>3, <1>6, <2>2
    <3> QED BY <1>2, <2>1, <3>1, <3>2, RefusedIs
  <2>3. CASE ~(Len(s) > MaxHeader)
    <3>1. r = ParseMessage(k, s, 0, client)
      BY <1>2, <1>3, <1>4, <2>1, <2>3
    <3>2. a <= a /\ a <= mid /\ a - a = 0
      OBVIOUS
    <3> DEFINE q == ParseMessage(Headed(Lines(w, ends, a)), Piece(w, a, mid), a - a, client)
    <3>3. \/ Completes(w, m, a, mid, q) \/ BodyGoesOn(w, last, cuts, m, a, mid, q)
          \/ HeaderGoesOn(w, ends, last, a, mid, q)
      BY <1>6, <3>2, MessageIs
    <3>4. q = r
      BY <1>6, <3>1, <3>2 DEF s
    <3> HIDE DEF q
    <3> QED BY <3>3, <3>4, OutcomeIs
  <2> QED BY <2>2, <2>3
<1>7. ASSUME old < Len(w), InBody(last, cuts, m, k, a) PROVE Goal
  <2>1. k.status = "content"
    BY <1>7 DEF InBody
  <2>2. r = ParseBody(k, s, 0)
    BY <1>4, <2>1
  <2>3. a <= a /\ a <= mid /\ a - a = 0
    OBVIOUS
  <2> DEFINE q == ParseBody(k, Piece(w, a, mid), a - a)
  <2>4. Completes(w, m, a, mid, q) \/ BodyGoesOn(w, last, cuts, m, a, mid, q)
    BY <1>7, <2>3, BodyIs
  <2>5. q = r
    BY <2>2, <2>3 DEF s
  <2> HIDE DEF q
  <2> QED BY <2>4, <2>5, OutcomeIs
<1>8. Goal
  <2> HIDE DEF Goal
  <2> QED BY <1>5, <1>6, <1>7 DEF TextProgress
<1> QED BY <1>8 DEF r, s

-----------------------------------------------------------------------------
(* A message of CoMsgTcp: the flag, the length of the body, the body.      *)
IsFrame(w, m) ==
    /\ w \in Seq(Symbol) /\ Len(w) = TcpHead + Len(m.body) /\ m.body # <<>>
    /\ w[1] = Flag /\ w[2] = Length(Len(m.body)) /\ Piece(w, TcpHead, Len(w)) = m.body

LEMMA FrameIs ==
    ASSUME NEW m, Sendable(m), NEW w, IsFrame(w, m), NEW mid \in Nat, 0 < mid, mid <= Len(w)
    PROVE  LET r == DecodeTcp(NewMsg, Piece(w, 0, mid)) IN
           \/ Completes(w, m, 0, mid, r)
           \/ mid < Len(w) /\ r.ret = "AGAIN" /\ r.erased = 0 /\ r.msg = NewMsg
<1> DEFINE s == Piece(w, 0, mid)
           k == NewMsg
           r == DecodeTcp(k, s)
           body == m.body
           n == Len(body)
           Goal == \/ Completes(w, m, 0, mid, r)
                   \/ mid < Len(w) /\ r.ret = "AGAIN" /\ r.erased = 0 /\ r.msg = k
<1>1. /\ w \in Seq(Symbol) /\ body \in Seq(Symbol) /\ Len(w) = 2 + n /\ n \in Nat /\ n # 0
      /\ w[1] = Flag /\ w[2] = Length(n) /\ Piece(w, 2, Len(w)) = body
  <2>1. body \in Seq(Symbol) /\ body # <<>>
    BY DEF Sendable, IsFrame
  <2>2. n \in Nat /\ n # 0
    BY <2>1, EmptySeq
  <2> QED BY <2>1, <2>2 DEF IsFrame, TcpHead
<1>2. s \in Seq(Symbol) /\ Len(s) = mid /\ \A i \in 1 .. mid : s[i] = w[i]
  <2>1. 0 \in Nat /\ 0 <= mid /\ mid - 0 = mid /\ \A i \in 1 .. mid : 0 + i = i
    OBVIOUS
  <2>2. /\ s \in Seq(Symbol) /\ Len(s) = mid - 0
        /\ \A i \in 1 .. mid - 0 : s[i] = w[0 + i]
    BY <1>1, <2>1, PieceIs
  <2> HIDE DEF s
  <2> QED BY <2>1, <2>2
<1>3. k \in Msg /\ k.status = "startline"
  BY NewMsgIs
<1>4. r = CASE Len(s) <= TcpHead -> Decoded(k, 0, "AGAIN")
            [] Len(s) > TcpHead /\ s[1] # Flag -> Refused(k, s)
            [] Len(s) > TcpHead /\ s[1] = Flag /\ s[2][2] > Len(s) - TcpHead ->
                 Decoded(k, 0, "AGAIN")
            [] Len(s) > TcpHead /\ s[1] = Flag /\ s[2][2] <= Len(s) - TcpHead ->
                 Parsed([k EXCEPT !.status = "completed",
                                  !.content = SubSeq(s, TcpHead + 1, TcpHead + s[2][2])],
                        TcpHead + s[2][2])
  BY DEF DecodeTcp
<1> HIDE DEF s, k, r, body, n
<1>5. ASSUME r = Decoded(k, 0, "AGAIN"), mid < Len(w) PROVE Goal
  BY <1>5, DecodedIs
<1>6. ASSUME mid <= 2 PROVE Goal
  <2>1. r = Decoded(k, 0, "AGAIN")
    BY <1>2, <1>4, <1>6 DEF TcpHead
  <2>2. mid < Len(w)
    BY <1>1, <1>6
  <2> QED BY <1>5, <2>1, <2>2
<1>7. ASSUME mid > 2 PROVE Goal
  <2>1. s[1] = Flag /\ s[2] = Length(n)
    <3>1. 1 \in 1 .. mid /\ 2 \in 1 .. mid
      BY <1>7
    <3> QED BY <1>1, <1>2, <3>1
  <2>2. s[2][2] = n
    BY <1>1, <2>1, Symbols
  <2>3. CASE mid < Len(w)
    <3>1. n > Len(s) - TcpHead /\ ~(n <= Len(s) - TcpHead) /\ Len(s) > TcpHead /\ ~(Len(s) <= TcpHead)
      BY <1>1, <1>2, <1>7, <2>3 DEF TcpHead
    <3>2. r = Decoded(k, 0, "AGAIN")
      BY <1>4, <2>1, <2>2, <3>1
    <3> QED BY <1>5, <2>3, <3>2
  <2>4. CASE ~(mid < Len(w))
    <3>1. mid = Len(w) /\ n <= Len(s) - TcpHead /\ ~(n > Len(s) - TcpHead)
          /\ Len(s) > TcpHead /\ ~(Len(s) <= TcpHead) /\ TcpHead + n = mid
      BY <1>1, <1>2, <1>7, <2>4 DEF TcpHead
    <3> DEFINE l == [k EXCEPT !.status = "completed", !.content = body]
    <3>2. SubSeq(s, TcpHead + 1, TcpHead + n) = body
      <4>1. s = w
        BY <1>1, <3>1, PieceEnds DEF s
      <4>2. TcpHead + 1 = 2 + 1 /\ TcpHead + n = Len(w)
        BY <3>1 DEF TcpHead
      <4> QED BY <1>1, <4>1, <4>2 DEF Piece
    <3>3. r = Parsed(l, mid)
      <4>1. r = Parsed([k EXCEPT !.status = "completed",
                                 !.content = SubSeq(s, TcpHead + 1, TcpHead + s[2][2])],
                       TcpHead + s[2][2])
        BY <1>4, <2>1, <2>2, <3>1
      <4> QED BY <2>2, <3>1, <3>2, <4>1
    <3>4. l \in Msg /\ l.content = body /\ l.status = "completed"
      BY <1>1, <1>3 DEF Msg, Status
    <3> HIDE DEF l
    <3>5. r = Decoded(l, mid, "OK")
      BY <3>3, <3>4 DEF Parsed
    <3>6. r.msg = l /\ r.erased = mid /\ r.ret = "OK"
      BY <3>5, DecodedIs
    <3>7. Completes(w, m, 0, mid, r)
      BY <3>1, <3>4, <3>6 DEF Completes, body
    <3> QED BY <3>7
  <2> QED BY <2>3, <2>4
<1>8. Goal
  <2> HIDE DEF Goal
  <2> QED BY <1>6, <1>7
<1> QED BY <1>8 DEF r, s, k

-----------------------------------------------------------------------------
(* A message of either protocol: sent, read in part, read once more.       *)
IsWire(tcp, w, ends, last, cuts, m, client) ==
    /\ Sendable(m) /\ Len(w) <= m.line + Len(m.body) + Overhead
    /\ IF tcp THEN IsFrame(w, m) ELSE IsText(w, ends, last, cuts, m, client)

Progress(tcp, w, ends, last, cuts, m, k, at, mid) ==
    IF tcp THEN k = NewMsg /\ at = 0 /\ mid < Len(w)
    ELSE TextProgress(w, ends, last, cuts, m, k, at, mid)

Outcome(tcp, w, ends, last, cuts, m, a, mid, r) ==
    \/ Completes(w, m, a, mid, r)
    \/ /\ r.ret = "AGAIN" /\ r.erased \in Nat /\ r.erased <= mid - a
       /\ Progress(tcp, w, ends, last, cuts, m, r.msg, a + r.erased, mid)
    \/ r.ret = "ERROR" /\ r.erased \in Nat /\ r.msg \in Msg /\ m.line > MaxHeader - ReadSize + 1

LEMMA WireType ==
    ASSUME NEW tcp \in BOOLEAN, NEW w, NEW ends, NEW last, NEW cuts, NEW m, NEW client,
           IsWire(tcp, w, ends, last, cuts, m, client)
    PROVE  w \in Seq(Symbol) /\ Len(w) \in Nat /\ Len(w) # 0 /\ m.line \in Nat /\ m.line >= ShortLine
<1>1. CASE tcp
  <2>1. /\ w \in Seq(Symbol) /\ Len(w) = TcpHead + Len(m.body) /\ m.body \in Seq(Symbol)
        /\ m.line \in Nat /\ m.line >= ShortLine
    BY <1>1 DEF IsWire, IsFrame, Sendable
  <2>2. Len(m.body) \in Nat
    BY <2>1, LenProperties
  <2> QED BY <2>1, <2>2 DEF TcpHead
<1>2. CASE ~tcp
  <2>1. IsText(w, ends, last, cuts, m, client)
    BY <1>2 DEF IsWire
  <2>2. /\ w \in Seq(Symbol) /\ Len(w) \in Nat /\ last \in Nat /\ last + 2 <= Len(w)
        /\ m.line \in Nat /\ m.line >= ShortLine
    BY <2>1, TextBounds
  <2> QED BY <2>2
<1> QED BY <1>1, <1>2

(* Nothing is read of a message that was just sent.                        *)
LEMMA ProgressStarts ==
    ASSUME NEW tcp \in BOOLEAN, NEW w, NEW ends, NEW last, NEW cuts, NEW m, NEW client,
           IsWire(tcp, w, ends, last, cuts, m, client)
    PROVE  Progress(tcp, w, ends, last, cuts, m, NewMsg, 0, 0)
BY WireType DEF Progress, TextProgress, ShortLine

LEMMA ProgressType ==
    ASSUME NEW tcp \in BOOLEAN, NEW w, NEW ends, NEW last, NEW cuts, NEW m, NEW client,
           IsWire(tcp, w, ends, last, cuts, m, client),
           NEW k, NEW at, NEW mid \in Nat, Progress(tcp, w, ends, last, cuts, m, k, at, mid)
    PROVE  k \in Msg /\ at \in Nat /\ at <= mid
<1>1. CASE k = NewMsg /\ at = 0
  BY <1>1, NewMsgIs
<1>2. CASE ~tcp
  <2>1. IsText(w, ends, last, cuts, m, client)
    BY <1>2 DEF IsWire
  <2>2. HeaderOf(w, m.line, ends, last)
    BY <2>1 DEF IsText
  <2>3. ASSUME at \in ends, at <= mid, k = Headed(Lines(w, ends, at)) PROVE k \in Msg /\ at \in Nat
    BY <2>1, <2>2, <2>3, LinesType, HeadedIs, TextBounds
  <2>4. InBody(last, cuts, m, k, at) => k \in Msg /\ at \in Nat
    BY DEF InBody
  <2> QED BY <1>1, <1>2, <2>3, <2>4 DEF Progress, TextProgress
<1> QED BY <1>1, <1>2 DEF Progress

(* One more read of it, which does not end inside the blank line.          *)
LEMMA ReadOnce ==
    ASSUME NEW tcp \in BOOLEAN, NEW w, NEW ends, NEW last, NEW cuts, NEW m, NEW client \in BOOLEAN,
           IsWire(tcp, w, ends, last, cuts, m, client),
           NEW a, NEW old \in Nat, NEW mid \in Nat, old < mid, mid <= old + ReadSize,
           mid <= Len(w), w[mid] # BlankCR,
           NEW k, Progress(tcp, w, ends, last, cuts, m, k, a, old)
    PROVE  Outcome(tcp, w, ends, last, cuts, m, a, mid,
                   IF tcp THEN DecodeTcp(k, Piece(w, a, mid)) ELSE DecodeHttp(k, Piece(w, a, mid), client))
<1>1. a \in Nat /\ a <= old /\ Sendable(m)
  BY ProgressType DEF IsWire
<1>2. CASE tcp
  <2> DEFINE r == DecodeTcp(NewMsg, Piece(w, 0, mid))
  <2>1. k = NewMsg /\ a = 0
    BY <1>2 DEF Progress
  <2>2. IsFrame(w, m) /\ 0 < mid
    BY <1>2 DEF IsWire
  <2>3. \/ Completes(w, m, 0, mid, r)
        \/ mid < Len(w) /\ r.ret = "AGAIN" /\ r.erased = 0 /\ r.msg = NewMsg
    BY <1>1, <2>2, FrameIs
  <2> HIDE DEF r
  <2>4. Outcome(tcp, w, ends, last, cuts, m, 0, mid, r)
    <3>1. CASE Completes(w, m, 0, mid, r)
      BY <3>1 DEF Outcome
    <3>2. CASE mid < Len(w) /\ r.ret = "AGAIN" /\ r.erased = 0 /\ r.msg = NewMsg
      <4>1. r.erased \in Nat /\ r.erased <= mid - 0 /\ 0 + r.erased = 0
        BY <3>2
      <4>2. Progress(tcp, w, ends, last, cuts, m, r.msg, 0 + r.erased, mid)
        BY <1>2, <3>2, <4>1 DEF Progress
      <4> QED BY <3>2, <4>1, <4>2 DEF Outcome
    <3> QED BY <2>3, <3>1, <3>2
  <2> QED BY <1>2, <2>1, <2>4 DEF r
<1>3. CASE ~tcp
  <2> DEFINE r == DecodeHttp(k, Piece(w, a, mid), client)
  <2>1. IsText(w, ends, last, cuts, m, client) /\ TextProgress(w, ends, last, cuts, m, k, a, old)
    BY <1>3 DEF IsWire, Progress
  <2>2. TextOutcome(w, ends, last, cuts, m, a, mid, r)
    BY <1>1, <2>1, TextIs
  <2> HIDE DEF r
  <2>3. Outcome(tcp, w, ends, last, cuts, m, a, mid, r)
    BY <1>3, <2>2 DEF Outcome, TextOutcome, Progress
  <2> QED BY <1>3, <2>3 DEF r
<1> QED BY <1>2, <1>3

(* What either side sends.                                                 *)
LEMMA RequestsSent ==
    ASSUME kind \in Kind, NEW m, Sendable(m), kind = "tcp" => m.body # <<>>, NEW w \in Requests(m)
    PROVE  \E ends, last, cuts : IsWire(kind = "tcp", w, ends, last, cuts, m, FALSE)
<1>1. CASE kind = "tcp"
  <2>1. w \in TcpFrames(m)
    BY <1>1 DEF Requests
  <2>2. IsFrame(w, m) /\ Len(w) <= m.line + Len(m.body) + Overhead
    BY <1>1, <2>1, FramesAre DEF IsFrame
  <2> QED BY <1>1, <2>2 DEF IsWire
<1>2. CASE kind # "tcp"
  <2>1. w \in HttpRequests(m)
    BY <1>2 DEF Requests
  <2>2. /\ Len(w) <= m.line + Len(m.body) + Overhead
        /\ \E ends, last : IsText(w, ends, last, {}, m, FALSE)
    BY <2>1, RequestsAre
  <2> QED BY <1>2, <2>2 DEF IsWire
<1> QED BY <1>1, <1>2

LEMMA ResponsesSent ==
    ASSUME kind \in Kind, NEW m, Sendable(m), NEW w \in Responses(m)
    PROVE  /\ w \in Seq(Symbol) /\ Len(w) <= m.line + Len(m.body) + Overhead
           /\ (kind = "tcp" => m.body # <<>>) =>
                 \E ends, last, cuts : IsWire(kind = "tcp", w, ends, last, cuts, m, TRUE)
<1>1. CASE kind = "tcp"
  <2>1. w \in TcpFrames(m)
    BY <1>1 DEF Responses
  <2>2. /\ w \in Seq(Symbol) /\ Len(w) <= m.line + Len(m.body) + Overhead
        /\ m.body # <<>> => IsFrame(w, m)
    BY <2>1, FramesAre DEF IsFrame
  <2> QED BY <1>1, <2>2 DEF IsWire
<1>2. CASE kind \in {"http", "fromOther"}
  <2>1. w \in HttpResponses(m)
    BY <1>2 DEF Responses
  <2>2. /\ w \in Seq(Symbol) /\ Len(w) <= m.line + Len(m.body) + Overhead
        /\ \E ends, last : IsText(w, ends, last, {}, m, TRUE)
    BY <2>1, ResponsesAre
  <2> QED BY <1>2, <2>2 DEF IsWire
<1>3. CASE kind = "toOther"
  <2>1. w \in ChunkedResponses(m)
    BY <1>3 DEF Responses
  <2>2. /\ w \in Seq(Symbol) /\ Len(w) <= m.line + Len(m.body) + Overhead
        /\ \E ends, last, cuts : IsText(w, ends, last, cuts, m, TRUE)
    BY <2>1, ChunkedAre
  <2> QED BY <1>3, <2>2 DEF IsWire
<1>4. kind \in {"tcp", "http", "toOther", "fromOther"}
  BY ExchangeAssumption
<1> QED BY <1>1, <1>2, <1>3, <1>4

-----------------------------------------------------------------------------
(* The invariant.  Of the message under way, w, the reader holds what it   *)
(* has not decoded, the network what comes next, the sender the rest.      *)
Parts(w, at, mid, end, held, sent, rest) ==
    /\ at \in Nat /\ mid \in Nat /\ end \in Nat /\ at <= mid /\ mid <= end /\ end <= Len(w)
    /\ held = Piece(w, at, mid) /\ sent = Piece(w, mid, end) /\ rest = Piece(w, end, Len(w))

OnItsWay(tcp, m, client, k, held, sent, rest) ==
    \E w, ends, last, cuts, at, mid, end :
        /\ IsWire(tcp, w, ends, last, cuts, m, client)
        /\ Progress(tcp, w, ends, last, cuts, m, k, at, mid)
        /\ Parts(w, at, mid, end, held, sent, rest)

Empty == net = <<>> /\ \A s \in Side : buffer[s].data = <<>>

Calls ==
    /\ stage = "asked" =>
           OnItsWay(kind = "tcp", asked, FALSE, msg, buffer["server"].data, net, buffer["client"].data)
    /\ stage = "replied" =>
           OnItsWay(kind = "tcp", reply, TRUE, msg, buffer["client"].data, net, buffer["server"].data)
    /\ stage \in {"idle", "served", "returned"} => Empty
    /\ Delivered

Types ==
    /\ kind \in Kind /\ asked \in Message /\ reply \in Message
    /\ stage \in {"idle", "asked", "served", "replied", "returned",
                  "refused", "closing", "broken"}
    /\ DOMAIN buffer = Side /\ \A s \in Side : Buffer(buffer[s])
    /\ net \in Seq(Symbol) /\ Len(net) <= NetSize /\ calls \in 0 .. MaxCalls /\ msg \in Msg

Inv == Types /\ Calls

LEMMA BufferStart == ASSUME NEW m \in Message PROVE Buffer(NoBuffer) /\ NoBuffer.data = <<>>
<1>1. /\ NoBuffer \in [data : Seq(Symbol), misalign : Nat, total : Nat]
      /\ NoBuffer.data = <<>> /\ NoBuffer.misalign = 0 /\ NoBuffer.total = 0 /\ Len(<<>>) = 0
  BY EmptySeq DEF NoBuffer
<1>2. Block(0) /\ 0 < 2 * Most /\ Used(NoBuffer) = 0
  <2>1. Most \in Nat /\ MinSize < 2 * Most /\ MinSize \in Nat
    BY MostIs
  <2> QED BY <1>1, <2>1 DEF Block, Used
<1> QED BY <1>1, <1>2 DEF Buffer

LEMMA InitInv == Init => Inv
<1> SUFFICES ASSUME Init PROVE Inv
  OBVIOUS
<1>1. asked \in Message /\ DOMAIN buffer = Side /\ \A s \in Side : buffer[s] = NoBuffer
  BY DEF Init
<1>2. \A s \in Side : Buffer(buffer[s]) /\ buffer[s].data = <<>>
  BY <1>1, BufferStart
<1>3. Types
  <2>1. <<>> \in Seq(Symbol) /\ Len(<<>>) = 0
    BY EmptySeq
  <2> QED BY <1>1, <1>2, <2>1, NewMsgIs, ExchangeAssumption DEF Init, Types
<1>4. Calls
  BY <1>2 DEF Init, Calls, Empty, Delivered
<1> QED BY <1>3, <1>4 DEF Inv

LEMMA MessageSendable == ASSUME NEW m \in Message PROVE Sendable(m)
BY ExchangeAssumption DEF Sendable

-----------------------------------------------------------------------------
(* What the steps do to the buffers and the network.                       *)
LEMMA EncodeIs ==
    ASSUME Types, NEW side \in Side, NEW w \in Seq(Symbol), Len(w) <= Longest, Encode(side, w)
    PROVE  /\ DOMAIN buffer' = Side /\ \A s \in Side : Buffer(buffer'[s])
           /\ buffer'[side].data = w
           /\ \A s \in Side : s # side => buffer'[s] = buffer[s]
<1> DEFINE b == AppendTo(Reset(buffer[side]), w)
<1>1. asked \in Message /\ Buffer(buffer[side]) /\ DOMAIN buffer = Side
      /\ \A s \in Side : Buffer(buffer[s])
  BY DEF Types
<1>2. Buffer(b) /\ b.data = w
  BY <1>1, AppendIs
<1>3. buffer' = [buffer EXCEPT ![side] = b]
  BY DEF Encode
<1> HIDE DEF b
<1>4. \A s \in Side : buffer'[s] = IF s = side THEN b ELSE buffer[s]
  BY <1>1, <1>3
<1> QED BY <1>1, <1>2, <1>3, <1>4

LEMMA WriteTypes ==
    ASSUME Types, NEW side \in Side, Write(side)
    PROVE  Types'
<1>1. PICK n \in 1 .. Len(buffer[side].data) :
           /\ Len(net) + n <= NetSize
           /\ net' = net \o SubSeq(buffer[side].data, 1, n)
           /\ buffer' = [buffer EXCEPT ![side] = Erase(buffer[side], n)]
  BY DEF Write
<1> DEFINE d == buffer[side].data  b == Erase(buffer[side], n)
<1>2. /\ Buffer(buffer[side]) /\ d \in Seq(Symbol) /\ Len(d) \in Nat
      /\ DOMAIN buffer = Side /\ \A s \in Side : Buffer(buffer[s])
      /\ net \in Seq(Symbol) /\ Len(net) \in Nat
  <2>1. Buffer(buffer[side]) /\ net \in Seq(Symbol)
    BY DEF Types
  <2>2. d \in Seq(Symbol)
    BY <2>1 DEF Buffer
  <2> QED BY <2>1, <2>2, LenProperties DEF Types
<1>3. Buffer(b)
  BY <1>2, EraseIs
<1>4. \A s \in Side : buffer'[s] = IF s = side THEN b ELSE buffer[s]
  <2> HIDE DEF b
  <2> QED BY <1>1, <1>2 DEF b
<1>5. net' \in Seq(Symbol) /\ Len(net') <= NetSize
  <2> DEFINE p == Piece(d, 0, n)
  <2>1. 0 \in Nat /\ n \in Nat /\ 0 <= n /\ n <= Len(d) /\ n - 0 = n
    BY <1>2
  <2> HIDE DEF d
  <2>2. p \in Seq(Symbol) /\ Len(p) = n - 0
    BY <1>2, <2>1, PieceIs
  <2>3. p = SubSeq(d, 1, n)
    BY DEF Piece
  <2> HIDE DEF p
  <2>4. net' = net \o p
    BY <1>1, <2>3 DEF d
  <2>5. net \o p \in Seq(Symbol) /\ Len(net \o p) = Len(net) + Len(p)
    BY <1>2, <2>2, ConcatProperties
  <2> QED BY <1>1, <2>1, <2>2, <2>4, <2>5
<1> HIDE DEF b
<1>6. DOMAIN buffer' = Side /\ \A s \in Side : Buffer(buffer'[s])
  BY <1>1, <1>2, <1>3, <1>4
<1>7. UNCHANGED <<kind, stage, asked, reply, msg, calls>>
  BY DEF Write
<1> QED BY <1>5, <1>6, <1>7 DEF Types

LEMMA WriteParts ==
    ASSUME Types, NEW reader \in Side, NEW sender \in Side, reader # sender, Write(sender),
           NEW w \in Seq(Symbol), NEW at, NEW mid, NEW end,
           Parts(w, at, mid, end, buffer[reader].data, net, buffer[sender].data)
    PROVE  \E to : Parts(w, at, mid, to, buffer'[reader].data, net', buffer'[sender].data)
<1> DEFINE z == Len(w)  d == Piece(w, end, z)
<1>1. /\ at \in Nat /\ mid \in Nat /\ end \in Nat /\ at <= mid /\ mid <= end /\ end <= z
      /\ buffer[reader].data = Piece(w, at, mid) /\ net = Piece(w, mid, end)
      /\ buffer[sender].data = d /\ z \in Nat /\ z <= Len(w)
  BY LenProperties DEF Parts
<1>0. z = Len(w)
  OBVIOUS
<1> HIDE DEF z
<1>2. d \in Seq(Symbol) /\ Len(d) = z - end
  BY <1>1, PieceIs
<1>3. PICK n \in 1 .. Len(d) :
           /\ net' = net \o SubSeq(d, 1, n)
           /\ buffer' = [buffer EXCEPT ![sender] = Erase(buffer[sender], n)]
  BY <1>1 DEF Write
<1> DEFINE to == end + n  b == Erase(buffer[sender], n)
<1>4. n \in Nat /\ n <= Len(d) /\ to \in Nat /\ end <= to /\ to <= z /\ to <= Len(w) /\ end + n = to
  BY <1>0, <1>1, <1>2
<1>5. net' = Piece(w, mid, to)
  <2>1. SubSeq(d, 1, n) = Piece(d, 0, n)
    BY DEF Piece
  <2>2. Piece(d, 0, n) = Piece(w, end, to)
    <3>1. 0 \in Nat /\ 0 <= n /\ n <= z - end /\ end + 0 = end
      BY <1>1, <1>2, <1>4
    <3>2. Piece(Piece(w, end, z), 0, n) = Piece(w, end + 0, end + n)
      BY ONLY <1>1, <1>4, <3>1, PieceOfPiece, w \in Seq(Symbol)
    <3> QED BY <3>1, <3>2
  <2> HIDE DEF to
  <2>3. Piece(w, mid, end) \o Piece(w, end, to) = Piece(w, mid, to)
    <3>1. mid \in Nat /\ end \in Nat /\ to \in Nat /\ mid <= end /\ end <= to /\ to <= Len(w)
      BY <1>1, <1>4
    <3> QED BY ONLY <3>1, PieceJoin, w \in Seq(Symbol)
  <2> QED BY <1>1, <1>3, <2>1, <2>2, <2>3
<1>6. b.data = Piece(w, to, z)
  <2>1. Buffer(buffer[sender])
    BY DEF Types
  <2>2. b.data = SubSeq(d, n + 1, Len(d))
    BY <1>1, <1>4, <2>1, EraseIs
  <2>3. SubSeq(d, n + 1, Len(d)) = Piece(d, n, Len(d))
    BY DEF Piece
  <2> DEFINE j == Len(d)
  <2>4. j \in Nat /\ n <= j /\ j <= z - end /\ end + j = z
    BY <1>1, <1>2, <1>4
  <2> HIDE DEF j
  <2>5. Piece(Piece(w, end, z), n, j) = Piece(w, end + n, end + j)
    BY ONLY <1>1, <1>4, <2>4, PieceOfPiece, w \in Seq(Symbol)
  <2> QED BY <1>4, <2>2, <2>3, <2>4, <2>5 DEF j
<1> HIDE DEF to, b, d
<1>7. buffer'[sender] = b /\ buffer'[reader] = buffer[reader]
  BY <1>3 DEF Types, b
<1>8. mid <= to
  BY <1>1, <1>4
<1>9. Parts(w, at, mid, to, buffer'[reader].data, net', buffer'[sender].data)
  BY <1>0, <1>1, <1>4, <1>5, <1>6, <1>7, <1>8 DEF Parts
<1> QED BY <1>9

LEMMA EraseData ==
    ASSUME NEW b, Buffer(b), NEW w \in Seq(Symbol), NEW a \in Nat, NEW mid \in Nat, a <= mid,
           mid <= Len(w), b.data = Piece(w, a, mid), NEW n \in Nat, n <= mid - a
    PROVE  Buffer(Erase(b, n)) /\ Erase(b, n).data = Piece(w, a + n, mid)
<1> DEFINE d == Piece(w, a, mid)  j == mid - a
<1>1. d \in Seq(Symbol) /\ Len(d) = j
  BY PieceIs
<1>2. Buffer(Erase(b, n)) /\ Erase(b, n).data = SubSeq(b.data, n + 1, Len(b.data))
  BY EraseIs
<1>3. j \in Nat /\ n <= j /\ j <= mid - a /\ a + j = mid
  OBVIOUS
<1> HIDE DEF j
<1>4. Piece(d, n, j) = Piece(w, a + n, a + j)
  BY <1>3, PieceOfPiece
<1>5. SubSeq(d, n + 1, j) = Piece(w, a + n, mid)
  BY <1>3, <1>4 DEF Piece
<1> HIDE DEF d
<1>6. b.data = d
  BY DEF d
<1> QED BY <1>1, <1>2, <1>5, <1>6

(* One round of the loop of either reader.                                 *)
LEMMA ReadStep ==
    ASSUME Types, ~SplitsBlankLine, NEW m \in Message, NEW side \in Side, NEW other \in Side,
           other # side, NEW client \in BOOLEAN, client = (side = "client"),
           OnItsWay(kind = "tcp", m, client, msg, buffer[side].data, net, buffer[other].data),
           NEW complete, NEW failed, Read(side, complete, failed)
    PROVE  /\ DOMAIN buffer' = Side /\ \A s \in Side : Buffer(buffer'[s])
           /\ net' \in Seq(Symbol) /\ Len(net') <= NetSize /\ msg' \in Msg
           /\ \/ stage' = complete /\ msg'.content = m.body /\ Empty'
              \/ /\ stage' = stage
                 /\ OnItsWay(kind' = "tcp", m, client, msg', buffer'[side].data, net', buffer'[other].data)
              \/ stage' = failed /\ m.line > MaxHeader - ReadSize + 1
<1> DEFINE tcp == kind = "tcp"
<1>1. PICK w, ends, last, cuts, at, mid, end :
        /\ IsWire(tcp, w, ends, last, cuts, m, client)
        /\ Progress(tcp, w, ends, last, cuts, m, msg, at, mid)
        /\ Parts(w, at, mid, end, buffer[side].data, net, buffer[other].data)
  BY DEF OnItsWay
<1> DEFINE z == Len(w)
<1>2. tcp \in BOOLEAN /\ client \in BOOLEAN
  OBVIOUS
<1>3. w \in Seq(Symbol) /\ z \in Nat /\ z <= Longest
  <2> HIDE DEF tcp
  <2>1. w \in Seq(Symbol) /\ Len(w) \in Nat
    BY <1>1, <1>2, WireType
  <2>2. Len(w) <= m.line + Len(m.body) + Overhead /\ Longest \in Nat
        /\ m.line + Len(m.body) + Overhead <= Longest
        /\ m.line \in Nat /\ Len(m.body) \in Nat
    BY <1>1, LongestIs, MessageSendable, LenProperties DEF IsWire, Sendable
  <2> QED BY <2>1, <2>2 DEF Overhead
<1>4. /\ at \in Nat /\ mid \in Nat /\ end \in Nat /\ at <= mid /\ mid <= end /\ end <= z
      /\ buffer[side].data = Piece(w, at, mid) /\ net = Piece(w, mid, end)
      /\ buffer[other].data = Piece(w, end, z)
  BY <1>1 DEF Parts
<1>5. ReadSize \in Nat
  BY ExchangeAssumption
<1>6. Buffer(buffer[side]) /\ DOMAIN buffer = Side /\ \A s \in Side : Buffer(buffer[s])
  BY DEF Types
<1>7. net \in Seq(Symbol) /\ Len(net) = end - mid /\ \A i \in 1 .. end - mid : net[i] = w[mid + i]
  BY <1>3, <1>4, PieceIs
<1> DEFINE most == Min({ReadSize, Len(net)})
<1>8. PICK n \in 1 .. most :
           /\ SplitsBlankLine \/ net[n] # BlankCR
           /\ \E filled \in {Fill(Expand(buffer[side], ReadSize), SubSeq(net, 1, n))} :
              \E result \in {Decode(filled.data, side = "client")} :
                  /\ buffer' = [buffer EXCEPT ![side] = Erase(filled, result.erased)]
                  /\ msg' = result.msg
                  /\ stage' = [OK |-> complete, AGAIN |-> stage, ERROR |-> failed][result.ret]
           /\ net' = From(net, n + 1)
  BY DEF Read
<1> DEFINE new == mid + n
           filled == Fill(Expand(buffer[side], ReadSize), SubSeq(net, 1, n))
           result == Decode(filled.data, client)
<1>9. /\ n \in Nat /\ n # 0 /\ n <= ReadSize /\ n <= end - mid
      /\ new \in Nat /\ mid < new /\ at <= new /\ new <= mid + ReadSize /\ new <= end /\ new <= z
  <2>1. most \in Nat /\ most <= ReadSize /\ most <= end - mid
    <3> DEFINE S == {ReadSize, Len(net)}
    <3>1. S \subseteq Nat /\ S # {} /\ ReadSize \in S /\ Len(net) \in S /\ Len(net) = end - mid
      BY <1>4, <1>5, <1>7
    <3> HIDE DEF S
    <3>2. Min(S) \in S /\ \A y \in S : Min(S) <= y
      BY <3>1, MinOf
    <3> QED BY <3>1, <3>2 DEF S
  <2> HIDE DEF most
  <2> QED BY <1>4, <1>5, <2>1
<1>10. SubSeq(net, 1, n) = Piece(w, mid, new)
  <2>1. SubSeq(net, 1, n) = Piece(net, 0, n)
    BY DEF Piece
  <2>2. 0 \in Nat /\ 0 <= n /\ mid + 0 = mid /\ mid <= end /\ end <= Len(w) /\ n \in Nat /\ n <= end - mid
    BY <1>4, <1>9
  <2>3. Piece(Piece(w, mid, end), 0, n) = Piece(w, mid + 0, mid + n)
    BY ONLY <1>3, <1>4, <2>2, PieceOfPiece
  <2> QED BY <1>4, <2>1, <2>2, <2>3
<1>11. Buffer(filled) /\ filled.data = Piece(w, at, new)
  <2> DEFINE b == Expand(buffer[side], ReadSize)  p == Piece(w, mid, new)
  <2>1. Buffer(b) /\ b.data = buffer[side].data /\ Used(b) + ReadSize <= b.total
    <3>1. Len(Piece(w, at, mid)) = mid - at
      <4>1. mid <= Len(w)
        BY <1>3, <1>4
      <4> QED BY <1>3, <1>4, <4>1, PieceIs
    <3>2. Len(buffer[side].data) + ReadSize <= Most
      <4>1. Longest \in Nat
        BY LongestIs
      <4> QED BY <1>3, <1>4, <1>5, <3>1, <4>1 DEF Most
    <3> QED BY <1>5, <1>6, <3>2, ExpandIs
  <2>2. p \in Seq(Symbol) /\ Len(p) = n
    <3>1. mid \in Nat /\ new \in Nat /\ mid <= new /\ new <= Len(w) /\ new - mid = n
      BY <1>4, <1>9
    <3> HIDE DEF new
    <3> QED BY <1>3, <3>1, PieceIs
  <2>3. SubSeq(net, 1, n) = p
    BY <1>10
  <2> HIDE DEF b, p
  <2>4. Used(b) \in Nat /\ b.total \in Nat
    <3>1. b.data \in Seq(Symbol) /\ b.misalign \in Nat /\ b.total \in Nat
      BY <2>1 DEF Buffer
    <3>2. Len(b.data) \in Nat
      BY <3>1, LenProperties
    <3> QED BY <3>1, <3>2 DEF Used
  <2>5. Used(b) + Len(p) <= b.total
    BY <1>5, <1>9, <2>1, <2>2, <2>4
  <2>6. Buffer(Fill(b, p)) /\ Fill(b, p).data = b.data \o p
    BY <2>1, <2>2, <2>5, FillIs
  <2>7. Piece(w, at, mid) \o Piece(w, mid, new) = Piece(w, at, new)
    <3>1. at <= mid /\ mid <= new /\ new <= Len(w) /\ new \in Nat
      BY <1>4, <1>9
    <3> HIDE DEF new
    <3> QED BY ONLY <1>3, <1>4, <3>1, PieceJoin
  <2>8. filled = Fill(b, p)
    BY <2>3 DEF b
  <2> HIDE DEF filled
  <2> QED BY <1>4, <2>1, <2>6, <2>7, <2>8 DEF p
<1>12. w[new] # BlankCR
  <2>1. n \in 1 .. end - mid /\ net[n] # BlankCR
    BY <1>4, <1>8, <1>9
  <2> QED BY <1>7, <2>1
<1>13. Outcome(tcp, w, ends, last, cuts, m, at, new, result)
  <2> HIDE DEF new, filled, tcp
  <2>1. result = IF tcp THEN DecodeTcp(msg, Piece(w, at, new)) ELSE DecodeHttp(msg, Piece(w, at, new), client)
    BY <1>11 DEF Decode, tcp
  <2> HIDE DEF result
  <2>2. new <= Len(w)
    BY <1>9
  <2> HIDE DEF z
  <2>3. Outcome(tcp, w, ends, last, cuts, m, at, new,
                IF tcp THEN DecodeTcp(msg, Piece(w, at, new)) ELSE DecodeHttp(msg, Piece(w, at, new), client))
    BY <1>1, <1>2, <1>4, <1>9, <1>12, <2>2, ReadOnce
  <2> QED BY <2>1, <2>3
<1>14. net' = Piece(w, new, end)
  <2> DEFINE j == Len(net)
  <2>1. net' = Piece(net, n, j)
    BY <1>7, <1>8, <1>9, PieceEnds
  <2>2. j \in Nat /\ n <= j /\ j <= end - mid /\ mid + j = end
    BY <1>4, <1>7, <1>9
  <2> HIDE DEF j
  <2>3. mid <= end /\ end <= Len(w) /\ n \in Nat
    BY <1>4, <1>9
  <2>4. Piece(Piece(w, mid, end), n, j) = Piece(w, mid + n, mid + j)
    BY ONLY <1>3, <1>4, <2>2, <2>3, PieceOfPiece
  <2> QED BY <1>4, <2>1, <2>2, <2>4
<1>15. net' \in Seq(Symbol) /\ Len(net') <= NetSize
  <2>1. Piece(w, new, end) \in Seq(Symbol) /\ Len(Piece(w, new, end)) = end - new
    <3>1. new \in Nat /\ new <= end /\ end <= Len(w)
      BY <1>4, <1>9
    <3> HIDE DEF new
    <3> QED BY <1>3, <1>4, <3>1, PieceIs
  <2>2. Len(net) <= NetSize /\ NetSize \in Nat
    BY ExchangeAssumption DEF Types
  <2> QED BY <1>4, <1>7, <1>9, <1>14, <2>1, <2>2
<1>16. /\ buffer' = [buffer EXCEPT ![side] = Erase(filled, result.erased)]
       /\ msg' = result.msg
       /\ stage' = [OK |-> complete, AGAIN |-> stage, ERROR |-> failed][result.ret]
       /\ kind' = kind
  BY <1>8 DEF Read
<1> HIDE DEF filled, result, new, most, z, tcp
<1> DEFINE b == Erase(filled, result.erased)
<1>17. \A s \in Side : buffer'[s] = IF s = side THEN b ELSE buffer[s]
  <2> HIDE DEF b
  <2>1. buffer' = [buffer EXCEPT ![side] = b]
    BY <1>16 DEF b
  <2> QED BY <1>6, <2>1
<1> HIDE DEF b
<1>18. ASSUME result.erased \in Nat
       PROVE  DOMAIN buffer' = Side /\ \A s \in Side : Buffer(buffer'[s])
  <2>1. Buffer(b)
    BY <1>11, <1>18, EraseIs DEF b
  <2> QED BY <1>6, <1>16, <1>17, <2>1
<1>19. ASSUME result.erased \in Nat, result.erased <= new - at
       PROVE  buffer'[side].data = Piece(w, at + result.erased, new)
  <2>1. new <= Len(w)
    BY <1>9 DEF z
  <2>2. b.data = Piece(w, at + result.erased, new)
    BY <1>3, <1>4, <1>9, <1>11, <1>19, <2>1, EraseData DEF b
  <2> QED BY <1>17, <2>2
<1>20. buffer'[other].data = Piece(w, end, z)
  BY <1>4, <1>17
<1> DEFINE Goal ==
        /\ DOMAIN buffer' = Side /\ \A s \in Side : Buffer(buffer'[s])
        /\ net' \in Seq(Symbol) /\ Len(net') <= NetSize /\ msg' \in Msg
        /\ \/ stage' = complete /\ msg'.content = m.body /\ Empty'
           \/ /\ stage' = stage
              /\ OnItsWay(kind' = "tcp", m, client, msg', buffer'[side].data, net', buffer'[other].data)
           \/ stage' = failed /\ m.line > MaxHeader - ReadSize + 1
<1>21. ASSUME Completes(w, m, at, new, result) PROVE Goal
  <2>1. /\ new = z /\ result.ret = "OK" /\ result.erased \in Nat /\ result.erased = new - at
        /\ result.msg \in Msg /\ result.msg.content = m.body
    BY <1>21 DEF Completes, z
  <2>2. end = z /\ new = end /\ at + result.erased = new /\ result.erased <= new - at
    BY <1>4, <1>9, <2>1
  <2>3. Piece(w, z, z) = <<>>
    BY <1>3, PieceEnds
  <2>4. net' = <<>> /\ buffer'[side].data = <<>> /\ buffer'[other].data = <<>>
    BY <1>14, <1>19, <1>20, <2>1, <2>2, <2>3
  <2>5. \A s \in Side : s = side \/ s = other
    BY DEF Side
  <2>6. Empty'
    BY <2>4, <2>5 DEF Empty
  <2>7. stage' = complete /\ msg'.content = m.body /\ msg' \in Msg
    BY <1>16, <2>1
  <2> QED BY <1>15, <1>18, <2>1, <2>6, <2>7
<1>22. ASSUME result.ret = "AGAIN", result.erased \in Nat, result.erased <= new - at,
              Progress(tcp, w, ends, last, cuts, m, result.msg, at + result.erased, new)
       PROVE  Goal
  <2> DEFINE a == at + result.erased
  <2>1. a \in Nat /\ a <= new
    BY <1>4, <1>9, <1>22
  <2>2. Progress(tcp, w, ends, last, cuts, m, msg', a, new)
    BY <1>16, <1>22
  <2>3. buffer'[side].data = Piece(w, a, new)
    BY <1>19, <1>22
  <2> HIDE DEF a
  <2>4. msg' \in Msg
    BY <1>1, <1>2, <1>9, <2>2, ProgressType
  <2>5. stage' = stage
    BY <1>16, <1>22
  <2>6. /\ new \in Nat /\ end \in Nat /\ new <= end /\ end <= Len(w)
        /\ buffer'[other].data = Piece(w, end, Len(w))
    BY <1>4, <1>9, <1>20 DEF z
  <2>7. tcp = (kind' = "tcp")
    BY <1>16 DEF tcp
  <2> DEFINE held == buffer'[side].data  rest == buffer'[other].data
  <2>8. Parts(w, a, new, end, held, net', rest)
    <3>1. held = Piece(w, a, new) /\ rest = Piece(w, end, Len(w))
      BY <2>3, <2>6
    <3> HIDE DEF held, rest
    <3> QED BY <1>14, <2>1, <2>6, <3>1 DEF Parts
  <2> HIDE DEF held, rest
  <2>9. OnItsWay(tcp, m, client, msg', held, net', rest)
    BY <1>1, <2>2, <2>8 DEF OnItsWay
  <2>10. OnItsWay(kind' = "tcp", m, client, msg', buffer'[side].data, net', buffer'[other].data)
    BY <2>7, <2>9 DEF held, rest
  <2> QED BY <1>15, <1>18, <1>22, <2>4, <2>5, <2>10
<1>23. ASSUME result.ret = "ERROR", result.erased \in Nat, result.msg \in Msg,
              m.line > MaxHeader - ReadSize + 1
       PROVE  Goal
  <2>1. stage' = failed /\ msg' \in Msg
    BY <1>16, <1>23
  <2> QED BY <1>15, <1>18, <1>23, <2>1
<1>24. Goal
  <2> HIDE DEF Goal
  <2> QED BY <1>13, <1>21, <1>22, <1>23 DEF Outcome
<1> QED BY <1>24

-----------------------------------------------------------------------------
(* Every action keeps the invariant.                                       *)
LEMMA StartsOnItsWay ==
    ASSUME NEW tcp \in BOOLEAN, NEW w, NEW ends, NEW last, NEW cuts, NEW m, NEW client,
           IsWire(tcp, w, ends, last, cuts, m, client)
    PROVE  OnItsWay(tcp, m, client, NewMsg, <<>>, <<>>, w)
<1>1. w \in Seq(Symbol) /\ Len(w) \in Nat
  BY WireType
<1>2. Progress(tcp, w, ends, last, cuts, m, NewMsg, 0, 0)
  BY ProgressStarts
<1>3. Piece(w, 0, 0) = <<>> /\ Piece(w, 0, Len(w)) = w
  BY <1>1, PieceEnds
<1>4. Parts(w, 0, 0, 0, <<>>, <<>>, w)
  BY <1>1, <1>3 DEF Parts
<1> QED BY <1>2, <1>4 DEF OnItsWay

LEMMA AskKeeps == Inv /\ Ask => Inv'
<1> SUFFICES ASSUME Inv, Ask PROVE Inv'
  OBVIOUS
<1>1. Types /\ Empty
  BY DEF Inv, Calls, Ask
<1>2. PICK m \in Message : /\ Fits(m, "client") /\ asked' = m
                           /\ \E wire \in Requests(m) : Encode("client", wire)
  BY DEF Ask
<1>3. PICK w \in Requests(m) : Encode("client", w)
  BY <1>2
<1>4. /\ stage' = "asked" /\ msg' = NewMsg /\ calls < MaxCalls /\ calls' = calls + 1
      /\ UNCHANGED <<kind, reply, net, seen, got>>
  BY DEF Ask
<1>5. kind \in Kind /\ Sendable(m) /\ (kind = "tcp" => m.body # <<>>)
  BY <1>1, <1>2, MessageSendable DEF Types, Fits
<1> DEFINE tcp == kind = "tcp"
<1>6. PICK ends, last, cuts : IsWire(tcp, w, ends, last, cuts, m, FALSE)
  BY <1>5, RequestsSent
<1>7. tcp \in BOOLEAN /\ tcp = (kind' = "tcp")
  BY <1>4
<1> HIDE DEF tcp
<1>8. w \in Seq(Symbol) /\ Len(w) \in Nat /\ Len(w) <= Longest
  <2>1. w \in Seq(Symbol) /\ Len(w) \in Nat
    BY <1>6, <1>7, WireType
  <2>2. Len(w) <= m.line + Len(m.body) + Overhead /\ Longest \in Nat
        /\ m.line + Len(m.body) + Overhead <= Longest
        /\ m.line \in Nat /\ Len(m.body) \in Nat
    BY <1>5, <1>6, LongestIs, LenProperties DEF IsWire, Sendable
  <2> QED BY <2>1, <2>2 DEF Overhead
<1>9. "client" \in Side /\ "server" \in Side
  BY DEF Side
<1>10. /\ DOMAIN buffer' = Side /\ \A s \in Side : Buffer(buffer'[s])
       /\ buffer'["client"].data = w /\ buffer'["server"] = buffer["server"]
  BY <1>1, <1>3, <1>8, <1>9, EncodeIs
<1>11. Types'
  <2>1. NewMsg \in Msg /\ calls + 1 \in 0 .. MaxCalls
    BY <1>1, <1>4, NewMsgIs, ExchangeAssumption DEF Types
  <2> QED BY <1>1, <1>2, <1>4, <1>10, <2>1 DEF Types
<1>12. OnItsWay(kind' = "tcp", m, FALSE, msg', buffer'["server"].data, net', buffer'["client"].data)
  BY <1>1, <1>4, <1>6, <1>7, <1>8, <1>9, <1>10, StartsOnItsWay DEF Empty
<1>13. Calls'
  BY <1>2, <1>4, <1>12 DEF Calls, Delivered
<1> QED BY <1>11, <1>13 DEF Inv

LEMMA SentFits ==
    ASSUME NEW m \in Message, NEW w \in Seq(Symbol), Len(w) <= m.line + Len(m.body) + Overhead
    PROVE  Len(w) <= Longest
<1>1. Longest \in Nat /\ m.line + Len(m.body) + Overhead <= Longest
  BY LongestIs DEF Overhead
<1>2. Len(w) \in Nat /\ m.line \in Nat /\ Len(m.body) \in Nat
  BY MessageSendable, LenProperties DEF Sendable
<1> QED BY <1>1, <1>2 DEF Overhead

LEMMA ReplyKeeps == Inv /\ Reply => Inv'
<1> SUFFICES ASSUME Inv, Reply PROVE Inv'
  OBVIOUS
<1>1. Types /\ Empty
  BY DEF Inv, Calls, Reply
<1>2. PICK m \in Message : /\ Fits(m, "server") /\ reply' = m
                           /\ \E wire \in Responses(m) : Encode("server", wire)
  BY DEF Reply
<1>3. PICK w \in Responses(m) : Encode("server", w)
  BY <1>2
<1>4. /\ stage' = "replied" /\ msg' = NewMsg
      /\ UNCHANGED <<kind, asked, net, seen, got, calls>>
  BY DEF Reply
<1>5. kind \in Kind /\ Sendable(m) /\ (kind = "tcp" => m.body # <<>>)
  BY <1>1, <1>2, MessageSendable DEF Types, Fits
<1> DEFINE tcp == kind = "tcp"
<1>6. PICK ends, last, cuts : IsWire(tcp, w, ends, last, cuts, m, TRUE)
  BY <1>5, ResponsesSent
<1>7. tcp \in BOOLEAN /\ tcp = (kind' = "tcp")
  BY <1>4
<1>8. w \in Seq(Symbol) /\ Len(w) <= Longest
  <2>1. w \in Seq(Symbol) /\ Len(w) <= m.line + Len(m.body) + Overhead
    BY <1>5, ResponsesSent
  <2> QED BY <2>1, SentFits
<1> HIDE DEF tcp
<1>9. "client" \in Side /\ "server" \in Side
  BY DEF Side
<1>10. /\ DOMAIN buffer' = Side /\ \A s \in Side : Buffer(buffer'[s])
       /\ buffer'["server"].data = w /\ buffer'["client"] = buffer["client"]
  BY <1>1, <1>3, <1>8, <1>9, EncodeIs
<1>11. Types'
  BY <1>1, <1>2, <1>4, <1>10, NewMsgIs DEF Types
<1>12. OnItsWay(kind' = "tcp", m, TRUE, msg', buffer'["client"].data, net', buffer'["server"].data)
  BY <1>1, <1>4, <1>6, <1>7, <1>9, <1>10, StartsOnItsWay DEF Empty
<1>13. Calls'
  BY <1>2, <1>4, <1>12 DEF Calls, Delivered
<1> QED BY <1>11, <1>13 DEF Inv

LEMMA WriteKeepsOnItsWay ==
    ASSUME Types, NEW reader \in Side, NEW sender \in Side, reader # sender, Write(sender),
           NEW m, NEW client,
           OnItsWay(kind = "tcp", m, client, msg, buffer[reader].data, net, buffer[sender].data)
    PROVE  OnItsWay(kind' = "tcp", m, client, msg', buffer'[reader].data, net', buffer'[sender].data)
<1> DEFINE tcp == kind = "tcp"
<1>1. PICK w, ends, last, cuts, at, mid, end :
        /\ IsWire(tcp, w, ends, last, cuts, m, client)
        /\ Progress(tcp, w, ends, last, cuts, m, msg, at, mid)
        /\ Parts(w, at, mid, end, buffer[reader].data, net, buffer[sender].data)
  BY DEF OnItsWay
<1>2. tcp \in BOOLEAN /\ tcp = (kind' = "tcp") /\ msg' = msg
  BY DEF Write
<1> HIDE DEF tcp
<1>3. w \in Seq(Symbol)
  BY <1>1, <1>2, WireType
<1>4. PICK to : Parts(w, at, mid, to, buffer'[reader].data, net', buffer'[sender].data)
  BY <1>1, <1>3, WriteParts
<1>5. OnItsWay(tcp, m, client, msg, buffer'[reader].data, net', buffer'[sender].data)
  BY <1>1, <1>4 DEF OnItsWay
<1> QED BY <1>2, <1>5

LEMMA ClientWriteKeeps == Inv /\ Write("client") => Inv'
<1> SUFFICES ASSUME Inv, Write("client") PROVE Inv'
  OBVIOUS
<1>1. "client" \in Side /\ "server" \in Side /\ "server" # "client"
  BY DEF Side
<1>2. stage = "asked" /\ UNCHANGED <<stage, asked, reply, seen, got>>
  BY DEF Write
<1>3. Types'
  BY <1>1, WriteTypes DEF Inv
<1>4. OnItsWay(kind' = "tcp", asked, FALSE, msg', buffer'["server"].data, net', buffer'["client"].data)
  BY <1>1, <1>2, WriteKeepsOnItsWay DEF Inv, Calls
<1>5. Calls'
  BY <1>2, <1>4 DEF Calls, Delivered
<1> QED BY <1>3, <1>5 DEF Inv

LEMMA ServerWriteKeeps == Inv /\ Write("server") => Inv'
<1> SUFFICES ASSUME Inv, Write("server") PROVE Inv'
  OBVIOUS
<1>1. "client" \in Side /\ "server" \in Side /\ "server" # "client"
  BY DEF Side
<1>2. stage \in {"replied", "closing"} /\ UNCHANGED <<stage, asked, reply, seen, got>>
  BY DEF Write
<1>3. Types'
  BY <1>1, WriteTypes DEF Inv
<1>4. CASE stage = "replied"
  <2>1. OnItsWay(kind' = "tcp", reply, TRUE, msg', buffer'["client"].data, net', buffer'["server"].data)
    BY <1>1, <1>4, WriteKeepsOnItsWay DEF Inv, Calls
  <2>2. Calls'
    BY <1>2, <1>4, <2>1 DEF Calls, Delivered
  <2> QED BY <1>3, <2>2 DEF Inv
<1>5. CASE stage = "closing"
  <2>1. Calls'
    BY <1>2, <1>5 DEF Calls, Delivered
  <2> QED BY <1>3, <2>1 DEF Inv
<1> QED BY <1>2, <1>4, <1>5

LEMMA ServerReadsIs ==
    ASSUME Inv, ServerReads, ~SplitsBlankLine
    PROVE  /\ Types'
           /\ \/ stage' = "served" /\ msg'.content = asked.body /\ Empty'
              \/ /\ stage' = "asked"
                 /\ OnItsWay(kind' = "tcp", asked, FALSE, msg', buffer'["server"].data, net',
                             buffer'["client"].data)
              \/ stage' = "refused" /\ asked.line > MaxHeader - ReadSize + 1
<1>1. "client" \in Side /\ "server" \in Side /\ "client" # "server" /\ FALSE = ("server" = "client")
  BY DEF Side
<1>2. /\ stage = "asked" /\ asked \in Message /\ Types
      /\ OnItsWay(kind = "tcp", asked, FALSE, msg, buffer["server"].data, net, buffer["client"].data)
  BY DEF Inv, Calls, Types, ServerReads
<1>3. Read("server", "served", "refused") /\ UNCHANGED <<kind, asked, reply, calls>>
  BY DEF ServerReads, Read
<1>4. /\ DOMAIN buffer' = Side /\ \A s \in Side : Buffer(buffer'[s])
      /\ net' \in Seq(Symbol) /\ Len(net') <= NetSize /\ msg' \in Msg
      /\ \/ stage' = "served" /\ msg'.content = asked.body /\ Empty'
         \/ /\ stage' = stage
            /\ OnItsWay(kind' = "tcp", asked, FALSE, msg', buffer'["server"].data, net',
                        buffer'["client"].data)
         \/ stage' = "refused" /\ asked.line > MaxHeader - ReadSize + 1
  BY <1>1, <1>2, <1>3, ReadStep
<1>5. Types'
  BY <1>2, <1>3, <1>4 DEF Types
<1> QED BY <1>2, <1>4, <1>5

LEMMA ServerReadsKeeps == Inv /\ ServerReads /\ ~SplitsBlankLine => Inv'
<1> SUFFICES ASSUME Inv, ServerReads, ~SplitsBlankLine PROVE Inv'
  OBVIOUS
<1>1. /\ UNCHANGED asked
      /\ seen' = IF stage' = "served" THEN msg'.content ELSE seen
  BY DEF ServerReads, Read
<1>2. Calls'
  BY <1>1, ServerReadsIs DEF Calls, Delivered
<1> QED BY <1>2, ServerReadsIs DEF Inv

LEMMA ClientReadsIs ==
    ASSUME Inv, ClientReads, ~SplitsBlankLine
    PROVE  /\ Types'
           /\ \/ stage' = "returned" /\ msg'.content = reply.body /\ Empty'
              \/ /\ stage' = "replied"
                 /\ OnItsWay(kind' = "tcp", reply, TRUE, msg', buffer'["client"].data, net',
                             buffer'["server"].data)
              \/ stage' = "broken" /\ reply.line > MaxHeader - ReadSize + 1
<1>1. "client" \in Side /\ "server" \in Side /\ "server" # "client" /\ TRUE = ("client" = "client")
  BY DEF Side
<1>2. /\ stage = "replied" /\ reply \in Message /\ Types
      /\ OnItsWay(kind = "tcp", reply, TRUE, msg, buffer["client"].data, net, buffer["server"].data)
  BY DEF Inv, Calls, Types, ClientReads
<1>3. Read("client", "returned", "broken") /\ UNCHANGED <<kind, asked, reply, calls>>
  BY DEF ClientReads, Read
<1>4. /\ DOMAIN buffer' = Side /\ \A s \in Side : Buffer(buffer'[s])
      /\ net' \in Seq(Symbol) /\ Len(net') <= NetSize /\ msg' \in Msg
      /\ \/ stage' = "returned" /\ msg'.content = reply.body /\ Empty'
         \/ /\ stage' = stage
            /\ OnItsWay(kind' = "tcp", reply, TRUE, msg', buffer'["client"].data, net',
                        buffer'["server"].data)
         \/ stage' = "broken" /\ reply.line > MaxHeader - ReadSize + 1
  BY <1>1, <1>2, <1>3, ReadStep
<1>5. Types'
  BY <1>2, <1>3, <1>4 DEF Types
<1> QED BY <1>2, <1>4, <1>5

LEMMA ClientReadsKeeps == Inv /\ ClientReads /\ ~SplitsBlankLine => Inv'
<1> SUFFICES ASSUME Inv, ClientReads, ~SplitsBlankLine PROVE Inv'
  OBVIOUS
<1>1. /\ UNCHANGED reply
      /\ got' = IF stage' = "returned" THEN msg'.content ELSE got
  BY DEF ClientReads, Read
<1>2. Calls'
  BY <1>1, ClientReadsIs DEF Calls, Delivered
<1> QED BY <1>2, ClientReadsIs DEF Inv

(* The empty answer to a request that was refused.                         *)
LEMMA RefuseKeeps == Inv /\ Refuse => Inv'
<1> SUFFICES ASSUME Inv, Refuse PROVE Inv'
  OBVIOUS
<1> DEFINE m == [body |-> <<>>, line |-> ShortLine]
<1>1. Types /\ kind \in Kind /\ asked \in Message
  BY DEF Inv, Types
<1>2. /\ stage' = "closing" /\ net' = <<>>
      /\ UNCHANGED <<kind, asked, reply, msg, seen, got, calls>>
  BY DEF Refuse
<1>3. PICK w \in Responses(m) : Encode("server", w)
  BY DEF Refuse
<1>4. Sendable(m) /\ m.line = ShortLine /\ Len(m.body) = 0
  BY EmptySeq DEF Sendable, ShortLine
<1> HIDE DEF m
<1>5. w \in Seq(Symbol) /\ Len(w) \in Nat /\ Len(w) <= ShortLine + 0 + Overhead
  <2>1. w \in Seq(Symbol) /\ Len(w) <= m.line + Len(m.body) + Overhead
    BY <1>1, <1>4, ResponsesSent
  <2> QED BY <1>4, <2>1, LenProperties
<1>6. Len(w) <= Longest
  <2>1. Longest \in Nat /\ asked.line + Len(asked.body) + Overhead <= Longest
    BY <1>1, LongestIs DEF Overhead
  <2>2. asked.line \in Nat /\ asked.line >= ShortLine /\ Len(asked.body) \in Nat
    BY <1>1, MessageSendable, LenProperties DEF Sendable
  <2> QED BY <1>5, <2>1, <2>2 DEF Overhead, ShortLine
<1>7. "server" \in Side
  BY DEF Side
<1>8. DOMAIN buffer' = Side /\ \A s \in Side : Buffer(buffer'[s])
  BY <1>1, <1>3, <1>5, <1>6, <1>7, EncodeIs
<1>9. Types'
  <2>1. <<>> \in Seq(Symbol) /\ Len(<<>>) = 0 /\ NetSize \in Nat
    BY EmptySeq, ExchangeAssumption
  <2> QED BY <1>1, <1>2, <1>8, <2>1 DEF Types
<1>10. Calls'
  BY <1>2 DEF Calls, Delivered
<1> QED BY <1>9, <1>10 DEF Inv

LEMMA EndKeeps == Inv /\ (ClientTakes \/ Close) => Inv'
<1> SUFFICES ASSUME Inv, ClientTakes \/ Close PROVE Inv'
  OBVIOUS
<1>1. /\ stage' \in {"closing", "broken"} /\ (net' = <<>> \/ net' = net)
      /\ UNCHANGED <<kind, asked, reply, buffer, msg, calls>>
  BY DEF ClientTakes, Close
<1>2. Types'
  <2>1. net' \in Seq(Symbol) /\ Len(net') <= NetSize
    <3>1. <<>> \in Seq(Symbol) /\ Len(<<>>) = 0 /\ NetSize \in Nat
      BY EmptySeq, ExchangeAssumption
    <3>2. net \in Seq(Symbol) /\ Len(net) <= NetSize
      BY DEF Inv, Types
    <3>3. 0 <= NetSize
      BY ExchangeAssumption
    <3>4. CASE net' = <<>>
      BY <3>1, <3>3, <3>4
    <3>5. CASE net' = net
      BY <3>2, <3>5
    <3> QED BY <1>1, <3>4, <3>5
  <2> QED BY <1>1, <2>1 DEF Inv, Types
<1>3. Calls'
  BY <1>1 DEF Calls, Delivered
<1> QED BY <1>2, <1>3 DEF Inv

LEMMA KeepAliveKeeps == Inv /\ KeepAlive => Inv'
<1> SUFFICES ASSUME Inv, KeepAlive PROVE Inv'
  OBVIOUS
<1>1. Types /\ Empty /\ "client" \in Side
  BY DEF Inv, Calls, KeepAlive, Side
<1>2. /\ stage' = "idle" /\ buffer' = [buffer EXCEPT !["client"] = Reset(buffer["client"])]
      /\ UNCHANGED <<kind, asked, reply, net, msg, seen, got, calls>>
  BY DEF KeepAlive
<1>3. /\ DOMAIN buffer = Side /\ \A s \in Side : Buffer(buffer[s])
      /\ net = <<>> /\ \A s \in Side : buffer[s].data = <<>>
  BY <1>1 DEF Types, Empty
<1> DEFINE b == Reset(buffer["client"])
<1>4. Buffer(b) /\ b.data = <<>>
  BY <1>1, <1>3, ResetIs
<1> HIDE DEF b
<1>5. DOMAIN buffer' = Side /\ \A s \in Side : buffer'[s] = IF s = "client" THEN b ELSE buffer[s]
  BY <1>2, <1>3 DEF b
<1>6. \A s \in Side : Buffer(buffer'[s]) /\ buffer'[s].data = <<>>
  BY <1>3, <1>4, <1>5
<1>7. Types'
  BY <1>1, <1>2, <1>5, <1>6 DEF Types
<1>8. Empty'
  BY <1>2, <1>3, <1>6 DEF Empty
<1>9. Calls'
  BY <1>2, <1>8 DEF Calls, Delivered
<1> QED BY <1>7, <1>9 DEF Inv

LEMMA StutterKeeps == Inv /\ UNCHANGED vars => Inv'
<1> SUFFICES ASSUME Inv, UNCHANGED vars PROVE Inv'
  OBVIOUS
<1>1. UNCHANGED <<kind, stage, asked, reply, buffer, net, msg, seen, got, calls>>
  BY DEF vars
<1>2. Types'
  BY <1>1 DEF Inv, Types
<1>3. Calls'
  <2>1. Empty => Empty'
    BY <1>1 DEF Empty
  <2>2. Delivered => Delivered'
    BY <1>1 DEF Delivered
  <2> QED BY <1>1, <2>1, <2>2 DEF Inv, Calls
<1> QED BY <1>2, <1>3 DEF Inv

LEMMA NextKeeps == ~SplitsBlankLine /\ Inv /\ [Next]_vars => Inv'
BY AskKeeps, ReplyKeeps, ClientWriteKeeps, ServerWriteKeeps, ServerReadsKeeps, ClientReadsKeeps,
   RefuseKeeps, EndKeeps, KeepAliveKeeps, StutterKeeps DEF Next, Work

-----------------------------------------------------------------------------
(* What the invariant says.                                                *)
LEMMA InvTypeOK == Inv => TypeOK
<1> SUFFICES ASSUME Inv PROVE TypeOK
  OBVIOUS
<1>1. \A s \in Side : buffer[s].misalign \in Nat
                      /\ buffer[s].total \in {0, Grown(MinSize, buffer[s].total)}
  BY DEF Inv, Types, Buffer, Block
<1>2. msg.remain \in Nat /\ msg.status \in {"startline", "header", "content", "completed"}
  BY DEF Inv, Types, Msg, Status
<1> QED BY <1>1, <1>2 DEF Inv, Types, TypeOK

LEMMA InvBounded == Inv => BufferBounded
BY DEF Inv, Types, Buffer, Most, BufferBounded

LEMMA InvNothingLeft == Inv => NothingLeft
BY DEF Inv, Calls, Empty, NothingLeft

-----------------------------------------------------------------------------
(* As long as no read ends inside the blank line after a header, in every  *)
(* state of any number of calls, for any messages and any pieces: the      *)
(* invariant.                                                              *)
THEOREM Invariance == ~SplitsBlankLine => (Spec => []Inv)
<1> SUFFICES ASSUME ~SplitsBlankLine PROVE Spec => []Inv
  OBVIOUS
<1>1. Init => Inv
  BY InitInv
<1>2. Inv /\ [Next]_vars => Inv'
  BY NextKeeps
<1> QED BY <1>1, <1>2, PTL DEF Spec

(* Every variable keeps to its shape, if no read ends inside the blank     *)
(* line after a header: a block of co_buffer.cpp has a size that           *)
(* buffer_expand can give it.                                              *)
THEOREM TypeCorrect == ~SplitsBlankLine => (Spec => []TypeOK)
<1>1. Inv => TypeOK
  BY InvTypeOK
<1> QED BY <1>1, Invariance, PTL

(* When a handler runs nothing of the message is left in a buffer or on    *)
(* its way: the decoders of co_protocol_http.cpp and co_protocol_tcp.cpp   *)
(* consume a message to its last byte, wherever it is cut but inside the   *)
(* blank line after a header.                                              *)
THEOREM MessageConsumed == ~SplitsBlankLine => (Spec => []NothingLeft)
<1>1. Inv => NothingLeft
  BY InvNothingLeft
<1> QED BY <1>1, Invariance, PTL

(* buffer_expand and buffer_erase keep gap and data in the block, and over *)
(* any number of messages the block stays below twice the longest message  *)
(* and a read, if no read ends inside the blank line after a header.       *)
THEOREM BlockBounded == ~SplitsBlankLine => (Spec => []BufferBounded)
<1>1. Inv => BufferBounded
  BY InvBounded
<1> QED BY <1>1, Invariance, PTL

(* The handler of either side is given the body the other side encoded.    *)
THEOREM BodyDelivered == ~SplitsBlankLine => (Spec => []Delivered)
<1>1. Inv => Delivered
  BY DEF Inv, Calls
<1> QED BY <1>1, Invariance, PTL

-----------------------------------------------------------------------------
(* The promise of CoRpc, step by step.  Asking, replying and decoding the  *)
(* last piece are its steps; what goes on in between it does not see.      *)
LEMMA RpcInit == Init => Rpc!Init
BY DEF Init, Rpc!Init

LEMMA RpcAsk == Inv /\ Ask => Rpc!Ask
BY DEF Ask, Rpc!Ask

LEMMA RpcReply == Inv /\ Reply => Rpc!Reply
BY DEF Reply, Rpc!Reply

LEMMA RpcServerReads ==
    Inv /\ ServerReads /\ ~SplitsBlankLine => Rpc!Serve \/ Rpc!Break \/ UNCHANGED Rpc!vars
<1> SUFFICES ASSUME Inv, ServerReads, ~SplitsBlankLine
             PROVE  Rpc!Serve \/ Rpc!Break \/ UNCHANGED Rpc!vars
  OBVIOUS
<1>1. /\ stage = "asked" /\ UNCHANGED <<asked, reply, got>>
      /\ seen' = IF stage' = "served" THEN msg'.content ELSE seen
  BY DEF ServerReads, Read
<1>2. CASE stage' = "served" /\ msg'.content = asked.body
  BY <1>1, <1>2 DEF Rpc!Serve
<1>3. CASE stage' = "asked"
  BY <1>1, <1>3 DEF Rpc!vars
<1>4. CASE stage' = "refused" /\ asked.line > MaxHeader - ReadSize + 1
  BY <1>1, <1>4 DEF Rpc!Break
<1> QED BY <1>2, <1>3, <1>4, ServerReadsIs

LEMMA RpcClientReads ==
    Inv /\ ClientReads /\ ~SplitsBlankLine => Rpc!Return \/ Rpc!Break \/ UNCHANGED Rpc!vars
<1> SUFFICES ASSUME Inv, ClientReads, ~SplitsBlankLine
             PROVE  Rpc!Return \/ Rpc!Break \/ UNCHANGED Rpc!vars
  OBVIOUS
<1>1. /\ stage = "replied" /\ UNCHANGED <<asked, reply, seen>>
      /\ got' = IF stage' = "returned" THEN msg'.content ELSE got
  BY DEF ClientReads, Read
<1>2. CASE stage' = "returned" /\ msg'.content = reply.body
  BY <1>1, <1>2 DEF Rpc!Return
<1>3. CASE stage' = "replied"
  BY <1>1, <1>3 DEF Rpc!vars
<1>4. CASE stage' = "broken" /\ reply.line > MaxHeader - ReadSize + 1
  BY <1>1, <1>4 DEF Rpc!Break
<1> QED BY <1>2, <1>3, <1>4, ClientReadsIs

LEMMA RpcUnseen ==
    Write("client") \/ Write("server") \/ Refuse \/ ClientTakes \/ Close \/ KeepAlive \/ UNCHANGED vars
        => UNCHANGED Rpc!vars
<1>1. Write("client") => UNCHANGED Rpc!vars
  BY DEF Write, Rpc!vars
<1>2. Write("server") => UNCHANGED Rpc!vars
  BY DEF Write, Rpc!vars
<1>3. Refuse => UNCHANGED Rpc!vars
  BY DEF Refuse, Rpc!vars
<1>4. ClientTakes => UNCHANGED Rpc!vars
  BY DEF ClientTakes, Rpc!vars
<1>5. Close => UNCHANGED Rpc!vars
  BY DEF Close, Rpc!vars
<1>6. KeepAlive => UNCHANGED Rpc!vars
  BY DEF KeepAlive, Rpc!vars
<1>7. UNCHANGED vars => UNCHANGED Rpc!vars
  BY DEF vars, Rpc!vars
<1> QED BY <1>1, <1>2, <1>3, <1>4, <1>5, <1>6, <1>7

LEMMA RpcStep == ~SplitsBlankLine /\ Inv /\ [Next]_vars => [Rpc!Next]_Rpc!vars
BY RpcAsk, RpcReply, RpcServerReads, RpcClientReads, RpcUnseen DEF Next, Work, Rpc!Next

(* Every call is one of CoRpc, whatever is sent and wherever it is cut but *)
(* inside the blank line after a header: the server handles what was       *)
(* asked, once, the caller gets its reply, and only a first line that with *)
(* one more read can exceed the bound of http_parse_header breaks the      *)
(* connection.                                                             *)
THEOREM KeepsPromise == ~SplitsBlankLine => (Spec => Rpc!Safe)
<1> SUFFICES ASSUME ~SplitsBlankLine PROVE Spec => Rpc!Safe
  OBVIOUS
<1>1. Init => Rpc!Init
  BY RpcInit
<1>2. Inv /\ [Next]_vars => [Rpc!Next]_Rpc!vars
  BY RpcStep
<1>3. Spec => []Inv
  BY Invariance
<1> QED BY <1>1, <1>2, <1>3, PTL DEF Spec, Rpc!Safe
=============================================================================
