------------------------- MODULE KvnetChecksumProofs -------------------------
(***************************************************************************)
(* The arithmetic of adjust_checksum and checksum for words of any width   *)
(* and packets of any length.                                              *)
(*                                                                         *)
(* Modulo Base - 1 the two conditional corrections of adjust_checksum are  *)
(* a subtraction and an addition, and the two folds of checksum lose       *)
(* nothing.  The loops are recursive functions: LoopRuns gives their       *)
(* equations, and SetInduction carries a fact about one round over the     *)
(* length of a packet.  The last section puts both together: the field is  *)
(* right after checksum and after every rewrite, and a receiver that runs  *)
(* checksum over it gets 0.                                                *)
(***************************************************************************)
EXTENDS KvnetChecksum, SequenceTheorems, WellFoundedInduction, TLAPS

\* The modulus of one's complement arithmetic.
M == Base - 1

\* a and b are equal modulo M.
Congruent(a, b) == \E k \in Int : a = b + k * M

\* A word holds at least the numbers 0 to 3.
LEMMA BaseFacts == Base \in Nat /\ Base >= 4 /\ M \in Nat /\ M >= 3
<1>1. Byte \in Nat /\ Byte >= 2
  BY ChecksumAssumption
<1>2. Byte * Byte \in Nat /\ Byte * Byte >= 2 * 2
  BY <1>1
<1> QED
  BY <1>2 DEF Base, M

\* Remainders of numbers that are less than one Base away from the range.
LEMMA Wrap ==
  ASSUME NEW t \in Int
  PROVE  /\ t \in 0..Base - 1 => t % Base = t
         /\ t \in -Base..-1 => t % Base = t + Base
         /\ t \in Base..2 * Base - 1 => t % Base = t - Base
BY BaseFacts

\* The cast of ~x to unsigned short is the complement to Base - 1.
LEMMA ComplementRight ==
  ASSUME NEW x \in Words
  PROVE  Complement(x) = M - x /\ Complement(x) \in Words
BY BaseFacts, Wrap DEF Words, Complement, M

\* x -= w with its correction is x - w or x - w + M, and fits a word.
LEMMA SubtractRight ==
  ASSUME NEW x \in Words, NEW w \in Words
  PROVE  /\ Subtract(x, w) \in Words
         /\ Subtract(x, w) \in {x - w, x - w + M}
<1>1. CASE x - w <= 0
  <2>1. x - w - 1 \in -Base..-1
    BY <1>1, BaseFacts DEF Words
  <2>2. Subtract(x, w) = x - w + M
    BY <1>1, <2>1, Wrap, BaseFacts DEF Subtract, M, Words
  <2> QED
    BY <1>1, <2>2, BaseFacts DEF Words, M
<1>2. CASE x - w > 0
  BY <1>2, BaseFacts DEF Subtract, Words
<1> QED
  BY <1>1, <1>2, BaseFacts DEF Words

\* x += w with its correction is x + w or x + w - M, and fits a word.
LEMMA PlusRight ==
  ASSUME NEW x \in Words, NEW w \in Words
  PROVE  /\ Plus(x, w) \in Words
         /\ Plus(x, w) \in {x + w, x + w - M}
<1>1. CASE x + w < Base
  <2>1. (x + w) \div Base = 0
    BY <1>1, BaseFacts DEF Words
  <2> QED
    BY <1>1, <2>1, BaseFacts DEF Plus, Words
<1>2. CASE x + w >= Base
  <2>1. (x + w) \div Base = 1
    BY <1>2, BaseFacts DEF Words
  <2>2. x + w + 1 \in Base..2 * Base - 1
    BY <1>2, BaseFacts DEF Words
  <2>3. Plus(x, w) = x + w - M
    BY <2>1, <2>2, Wrap, BaseFacts DEF Plus, M, Words
  <2> QED
    BY <1>2, <2>3, BaseFacts DEF Words, M
<1> QED
  BY <1>1, <1>2, BaseFacts DEF Words

\* One round of adjust_checksum: if the field was right for a packet whose
\* words add up to total, it is right after the word o became n.
THEOREM RewriteWord ==
  ASSUME NEW total \in Int, NEW field \in Words, NEW o \in Words, NEW n \in Words,
         Congruent(total + field, 0)
  PROVE  LET new == Complement(Plus(Subtract(Complement(field), o), n))
         IN  new \in Words /\ Congruent(total - o + n + new, 0)
<1> DEFINE x == Complement(field)
           y == Subtract(x, o)
           z == Plus(y, n)
<1>1. x \in Words /\ x = M - field
  BY ComplementRight
<1>2. y \in Words /\ y \in {x - o, x - o + M}
  BY <1>1, SubtractRight
<1>3. z \in Words /\ z \in {y + n, y + n - M}
  BY <1>2, PlusRight
<1>4. Complement(z) \in Words /\ Complement(z) = M - z
  BY <1>3, ComplementRight
<1>5. PICK k \in Int : total + field = 0 + k * M
  BY DEF Congruent
<1> HIDE DEF x, y, z
<1>6. \E j \in {k - 1, k, k + 1} : total - o + n + Complement(z) = 0 + j * M
  <2>1. Complement(z) \in {field + o - n, field + o - n - M, field + o - n + M}
    BY <1>1, <1>2, <1>3, <1>4, BaseFacts DEF Words
  <2>2. total - o + n + Complement(z) \in {k * M, k * M - M, k * M + M}
    BY <2>1, <1>5, BaseFacts DEF Words
  <2>3. (k - 1) * M = k * M - M /\ (k + 1) * M = k * M + M
    BY BaseFacts
  <2> QED
    BY <2>2, <2>3, BaseFacts
<1> QED
  BY <1>4, <1>6 DEF Congruent, x, y, z

\* Reading a word in the other byte order multiplies it by Byte modulo M: the
\* host-order sum of checksum and the network-order field of adjust_checksum
\* are right together.
THEOREM ByteOrder ==
  ASSUME NEW a \in Bytes, NEW b \in Bytes
  PROVE  Congruent(Byte * Net(a, b), Host(a, b))
<1>1. Byte \in Nat /\ a \in Int /\ b \in Int /\ M \in Int /\ M = Byte * Byte - 1
  BY ChecksumAssumption, BaseFacts DEF Bytes, M, Base
<1>2. Byte * (Byte * a + b) = (a + Byte * b) + a * (Byte * Byte - 1)
  BY <1>1
<1>3. Byte * Net(a, b) = Host(a, b) + a * M
  BY <1>1, <1>2 DEF Net, Host
<1> QED
  BY <1>1, <1>3 DEF Congruent

\* The two folds of checksum turn any unsigned int into a word without losing
\* a carry.
THEOREM FoldRight ==
  ASSUME NEW s \in 0..Wide - 1
  PROVE  Fold(s) \in Words /\ Congruent(s, Fold(s))
<1> DEFINE h == s \div Base
           l == s % Base
           once == h + l
<1>1. s = h * Base + l /\ l \in Words
  BY BaseFacts DEF Wide, Words
<1>2. h \in Words
  BY <1>1, BaseFacts DEF Wide, Words
<1> HIDE DEF h, l
<1>3. s = once + h * M
  BY <1>1, <1>2, BaseFacts DEF M, Words
<1>4. CASE once < Base
  <2>1. once \div Base = 0 /\ once % Base = once
    BY <1>1, <1>2, <1>4, BaseFacts DEF Words
  <2>2. Fold(s) = once
    BY <2>1, <1>1, <1>2, BaseFacts DEF Fold, h, l, Words
  <2> QED
    BY <2>2, <1>1, <1>2, <1>3, <1>4, BaseFacts DEF Congruent, Words
<1>5. CASE once >= Base
  <2>1. once \div Base = 1 /\ once + 1 \in Base..2 * Base - 1
    BY <1>1, <1>2, <1>5, BaseFacts DEF Words
  <2>2. Fold(s) = once + 1 - Base
    BY <2>1, <1>1, <1>2, Wrap, BaseFacts DEF Fold, h, l, Words
  <2>3. s = Fold(s) + (h + 1) * M
    BY <2>2, <1>1, <1>2, <1>3, BaseFacts DEF M, Words
  <2>4. Congruent(s, Fold(s))
    <3> SUFFICES \E k \in Int : s = Fold(s) + k * M
      BY DEF Congruent
    <3>1. h + 1 \in Int
      BY <1>2 DEF Words
    <3> WITNESS h + 1 \in Int
    <3> QED
      BY <2>3
  <2> QED
    BY <2>2, <2>4, <1>1, <1>2, <1>5, BaseFacts DEF Words
<1> QED
  BY <1>1, <1>2, <1>4, <1>5, BaseFacts DEF Words

-----------------------------------------------------------------------------
\* Induction over the length of a packet, on the set of lengths for which
\* something holds.
LEMMA SetInduction ==
  ASSUME NEW S, 0 \in S, \A n \in Nat : n \in S => n + 1 \in S
  PROVE  \A n \in Nat : n \in S
<1>1. SUFFICES ASSUME NEW m \in Nat, m \notin S PROVE FALSE
  OBVIOUS
<1> DEFINE T == {n \in Nat : n \notin S}
           R == OpToRel(<, Nat)
<1>2. T \subseteq Nat /\ T # {}
  BY <1>1
<1>3. IsWellFoundedOn(R, Nat)
  BY NatLessThanWellFounded
<1> HIDE DEF R
<1>4. PICK x \in T : \A y \in T : ~ (<<y, x>> \in R)
  BY <1>2, <1>3, WFMin
<1> USE DEF R
<1>5. \A y \in T : ~(y < x)
  BY <1>4 DEF OpToRel
<1>6. x # 0
  OBVIOUS
<1>7. x - 1 \in Nat /\ x - 1 \in S
  BY <1>5, <1>6
<1> QED
  BY <1>7

\* A loop of n rounds has an outcome after each of them.
Runs(n, V, v, F) ==
    \E g \in [0..n -> V] : g[0] = v /\ \A i \in 1..n : g[i] = F[<<g[i - 1], i>>]

LEMMA LoopRuns ==
  ASSUME NEW n \in Nat, NEW V, NEW v \in V, NEW F \in [V \X (1..n) -> V]
  PROVE  Runs(n, V, v, F)
<1> DEFINE P(m) == Runs(m, V, v, F)
           S == {m \in Nat : m <= n => P(m)}
<1>1. 0 \in S
  <2>1. [i \in 0..0 |-> v] \in [0..0 -> V]
    OBVIOUS
  <2>2. P(0)
    <3> DEFINE g == [i \in 0..0 |-> v]
    <3>1. g[0] = v /\ \A i \in 1..0 : g[i] = F[<<g[i - 1], i>>]
      OBVIOUS
    <3> QED
      BY <2>1, <3>1 DEF Runs
  <2> QED
    BY <2>2
<1>2. ASSUME NEW m \in Nat, m \in S PROVE m + 1 \in S
  <2> SUFFICES ASSUME m + 1 <= n PROVE P(m + 1)
    OBVIOUS
  <2>1. PICK g \in [0..m -> V] : g[0] = v /\ \A i \in 1..m : g[i] = F[<<g[i - 1], i>>]
    BY <1>2 DEF Runs
  <2> DEFINE w == F[<<g[m], m + 1>>]
             h == [i \in 0..m + 1 |-> IF i = m + 1 THEN w ELSE g[i]]
  <2>2. w \in V
    <3>1. g[m] \in V /\ m + 1 \in 1..n
      OBVIOUS
    <3> QED
      BY <3>1
  <2>3. h \in [0..m + 1 -> V]
    BY <2>2
  <2>4. h[0] = v
    BY <2>1
  <2>5. ASSUME NEW i \in 1..m + 1 PROVE h[i] = F[<<h[i - 1], i>>]
    <3>1. CASE i = m + 1
      <4>1. h[i] = w /\ h[i - 1] = g[m]
        BY <3>1
      <4> QED
        BY <3>1, <4>1
    <3>2. CASE i # m + 1
      <4>1. i \in 1..m /\ h[i] = g[i] /\ h[i - 1] = g[i - 1]
        BY <3>2
      <4> QED
        BY <2>1, <4>1
    <3> QED
      BY <3>1, <3>2
  <2> QED
    BY <2>3, <2>4, <2>5 DEF Runs
<1> HIDE DEF S
<1>3. \A m \in Nat : m \in S
  BY <1>1, <1>2, SetInduction
<1>4. n \in S
  BY <1>3
<1>5. P(n)
  BY <1>4 DEF S
<1> QED
  BY <1>5

\* Half of a number of bytes.
LEMMA Halves ==
  ASSUME NEW n \in Nat
  PROVE  n \div 2 \in Nat /\ n % 2 \in {0, 1} /\ n = 2 * (n \div 2) + (n % 2)
OBVIOUS

\* A packet of n bytes has n \div 2 words of two bytes.
LEMMA PacketWords ==
  ASSUME NEW p \in Seq(Bytes)
  PROVE  /\ Len(p) \in Nat /\ Len(p) \div 2 \in Nat
         /\ Len(p) = 2 * (Len(p) \div 2) + (Len(p) % 2) /\ Len(p) % 2 \in {0, 1}
         /\ \A i \in 1..Len(p) : p[i] \in Bytes
         /\ \A i \in 1..Len(p) \div 2 : /\ 2 * i - 1 \in 1..Len(p) /\ 2 * i \in 1..Len(p)
                                        /\ Host(p[2 * i - 1], p[2 * i]) \in Words
                                        /\ Net(p[2 * i - 1], p[2 * i]) \in Words
<1>1. Len(p) \in Nat /\ \A i \in 1..Len(p) : p[i] \in Bytes
  BY LenProperties, ElementOfSeq
<1>2. /\ Len(p) = 2 * (Len(p) \div 2) + (Len(p) % 2)
      /\ Len(p) % 2 \in {0, 1} /\ Len(p) \div 2 \in Nat
  BY <1>1, Halves
<1>3. ASSUME NEW i \in 1..Len(p) \div 2
      PROVE  2 * i - 1 \in 1..Len(p) /\ 2 * i \in 1..Len(p)
  BY <1>1, <1>2
<1>4. ASSUME NEW a \in Bytes, NEW b \in Bytes PROVE Net(a, b) \in Words /\ Host(b, a) \in Words
  <2>1. Byte * a <= Byte * (Byte - 1) /\ Byte * a >= 0 /\ Byte * a \in Int
    BY ChecksumAssumption DEF Bytes
  <2>2. Byte * (Byte - 1) = Base - Byte
    BY ChecksumAssumption DEF Base
  <2> QED
    BY <2>1, <2>2, ChecksumAssumption, BaseFacts DEF Net, Host, Words, Bytes
<1> QED
  BY <1>1, <1>2, <1>3, <1>4

-----------------------------------------------------------------------------
\* The partial sums of checksum, and that they are what its loop adds up.
HostPart(p) ==
    CHOOSE s : s = [i \in 0..Len(p) \div 2 |->
                       IF i = 0 THEN 0
                       ELSE (s[i - 1] + Host(p[2 * i - 1], p[2 * i])) % Wide]

LEMMA HostPartSteps ==
  ASSUME NEW p \in Seq(Bytes)
  PROVE  LET s == HostPart(p)
         IN  /\ s[0] = 0
              /\ \A i \in 1..Len(p) \div 2 :
                    s[i] = (s[i - 1] + Host(p[2 * i - 1], p[2 * i])) % Wide
<1> DEFINE m == Len(p) \div 2
           V == 0..Wide - 1
           F == [t \in V \X (1..m) |-> (t[1] + Host(p[2 * t[2] - 1], p[2 * t[2]])) % Wide]
           e(s) == [i \in 0..m |->
                      IF i = 0 THEN 0 ELSE (s[i - 1] + Host(p[2 * i - 1], p[2 * i])) % Wide]
<1>1. /\ m \in Nat /\ Wide \in Nat /\ Wide > 0
      /\ \A i \in 1..m : Host(p[2 * i - 1], p[2 * i]) \in Nat
  BY PacketWords, BaseFacts DEF Wide, Words
<1>2. m \in Nat /\ 0 \in V /\ F \in [V \X (1..m) -> V]
  BY <1>1
<1>3. Runs(m, V, 0, F)
  <2> HIDE DEF F, V, m
  <2> QED
    BY <1>2, LoopRuns
<1>4. PICK g \in [0..m -> V] : g[0] = 0 /\ \A i \in 1..m : g[i] = F[<<g[i - 1], i>>]
  BY <1>3 DEF Runs
<1>5. g = e(g)
  <2>1. ASSUME NEW i \in 1..m PROVE g[i] = (g[i - 1] + Host(p[2 * i - 1], p[2 * i])) % Wide
    <3>1. i - 1 \in 0..m
      BY <1>2
    <3>2. g[i - 1] \in V
      BY <3>1
    <3> QED
      BY <3>2, <1>4
  <2>2. \A i \in 0..m : g[i] = e(g)[i]
    BY <1>4, <2>1
  <2> HIDE DEF V
  <2> QED
    BY <1>4, <2>2
<1> DEFINE s == HostPart(p)
<1>6. s = e(s)
  <2>1. \E f : f = e(f)
    BY <1>5
  <2> QED
    BY <2>1, Zenon DEF HostPart
<1> HIDE DEF s
<1>7. s[0] = 0 /\ \A i \in 1..m : s[i] = (s[i - 1] + Host(p[2 * i - 1], p[2 * i])) % Wide
  <2>1. m \in Nat
    BY <1>2
  <2> HIDE DEF V, F, m
  <2> QED
    BY <1>6, <2>1
<1> QED
  BY <1>7 DEF s

\* The same for the reference, which has no width.
NetPart(p) ==
    CHOOSE s : s = [i \in 0..Len(p) \div 2 |->
                       IF i = 0 THEN 0 ELSE s[i - 1] + Net(p[2 * i - 1], p[2 * i])]

LEMMA NetPartSteps ==
  ASSUME NEW p \in Seq(Bytes)
  PROVE  LET s == NetPart(p)
         IN  /\ s[0] = 0
              /\ \A i \in 1..Len(p) \div 2 : s[i] = s[i - 1] + Net(p[2 * i - 1], p[2 * i])
<1> DEFINE m == Len(p) \div 2
           V == Nat
           F == [t \in V \X (1..m) |-> t[1] + Net(p[2 * t[2] - 1], p[2 * t[2]])]
           e(s) == [i \in 0..m |-> IF i = 0 THEN 0 ELSE s[i - 1] + Net(p[2 * i - 1], p[2 * i])]
<1>1. m \in Nat /\ \A i \in 1..m : Net(p[2 * i - 1], p[2 * i]) \in Nat
  BY PacketWords, BaseFacts DEF Words
<1>2. m \in Nat /\ 0 \in V /\ F \in [V \X (1..m) -> V]
  BY <1>1
<1>3. Runs(m, V, 0, F)
  <2> HIDE DEF F, V, m
  <2> QED
    BY <1>2, LoopRuns
<1>4. PICK g \in [0..m -> V] : g[0] = 0 /\ \A i \in 1..m : g[i] = F[<<g[i - 1], i>>]
  BY <1>3 DEF Runs
<1>5. g = e(g)
  <2>1. ASSUME NEW i \in 1..m PROVE g[i] = g[i - 1] + Net(p[2 * i - 1], p[2 * i])
    <3>1. i - 1 \in 0..m
      BY <1>2
    <3>2. g[i - 1] \in V
      BY <3>1
    <3> QED
      BY <3>2, <1>4
  <2>2. \A i \in 0..m : g[i] = e(g)[i]
    BY <1>4, <2>1
  <2> HIDE DEF V
  <2> QED
    BY <1>4, <2>2
<1> DEFINE s == NetPart(p)
<1>6. s = e(s)
  <2>1. \E f : f = e(f)
    BY <1>5
  <2> QED
    BY <2>1, Zenon DEF NetPart
<1> HIDE DEF s
<1>7. s[0] = 0 /\ \A i \in 1..m : s[i] = s[i - 1] + Net(p[2 * i - 1], p[2 * i])
  <2>1. m \in Nat
    BY <1>2
  <2> HIDE DEF V, F, m
  <2> QED
    BY <1>6, <2>1
<1> QED
  BY <1>7 DEF s

\* The loop of adjust_checksum that takes the old words out.
OutPart(x, p) ==
    CHOOSE s : s = [i \in 0..Len(p) \div 2 |->
                       IF i = 0 THEN x
                       ELSE Subtract(s[i - 1], Net(p[2 * i - 1], p[2 * i]))]

LEMMA OutPartSteps ==
  ASSUME NEW x \in Words, NEW p \in Seq(Bytes)
  PROVE  LET s == OutPart(x, p)
         IN  /\ s[0] = x
              /\ \A i \in 1..Len(p) \div 2 :
                    s[i] = Subtract(s[i - 1], Net(p[2 * i - 1], p[2 * i]))
<1> DEFINE m == Len(p) \div 2
           V == Words
           F == [t \in V \X (1..m) |-> Subtract(t[1], Net(p[2 * t[2] - 1], p[2 * t[2]]))]
           e(s) == [i \in 0..m |->
                      IF i = 0 THEN x ELSE Subtract(s[i - 1], Net(p[2 * i - 1], p[2 * i]))]
<1>1. /\ m \in Nat
      /\ \A y \in Words : \A i \in 1..m : Subtract(y, Net(p[2 * i - 1], p[2 * i])) \in Words
  BY PacketWords, SubtractRight
<1>2. m \in Nat /\ x \in V /\ F \in [V \X (1..m) -> V]
  BY <1>1
<1>3. Runs(m, V, x, F)
  <2> HIDE DEF F, V, m
  <2> QED
    BY <1>2, LoopRuns
<1>4. PICK g \in [0..m -> V] : g[0] = x /\ \A i \in 1..m : g[i] = F[<<g[i - 1], i>>]
  BY <1>3 DEF Runs
<1>5. g = e(g)
  <2>1. ASSUME NEW i \in 1..m PROVE g[i] = Subtract(g[i - 1], Net(p[2 * i - 1], p[2 * i]))
    <3>1. i - 1 \in 0..m
      BY <1>2
    <3>2. g[i - 1] \in V
      BY <3>1
    <3> QED
      BY <3>2, <1>4
  <2>2. \A i \in 0..m : g[i] = e(g)[i]
    BY <1>4, <2>1
  <2> HIDE DEF V
  <2> QED
    BY <1>4, <2>2
<1> DEFINE s == OutPart(x, p)
<1>6. s = e(s)
  <2>1. \E f : f = e(f)
    BY <1>5
  <2> QED
    BY <2>1, Zenon DEF OutPart
<1> HIDE DEF s
<1>7. s[0] = x /\ \A i \in 1..m : s[i] = Subtract(s[i - 1], Net(p[2 * i - 1], p[2 * i]))
  <2>1. m \in Nat
    BY <1>2
  <2> HIDE DEF V, F, m
  <2> QED
    BY <1>6, <2>1
<1> QED
  BY <1>7 DEF s

\* The loop that adds the new words.
InPart(x, n, p) ==
    CHOOSE s : s = [i \in 0..n |->
                       IF i = 0 THEN x ELSE Plus(s[i - 1], Net(p[2 * i - 1], p[2 * i]))]

LEMMA InPartSteps ==
  ASSUME NEW x \in Words, NEW p \in Seq(Bytes), NEW n \in Nat, n = Len(p) \div 2
  PROVE  LET s == InPart(x, n, p)
         IN  s[0] = x /\ \A i \in 1..n : s[i] = Plus(s[i - 1], Net(p[2 * i - 1], p[2 * i]))
<1> DEFINE m == n
           V == Words
           F == [t \in V \X (1..m) |-> Plus(t[1], Net(p[2 * t[2] - 1], p[2 * t[2]]))]
           e(s) == [i \in 0..m |->
                      IF i = 0 THEN x ELSE Plus(s[i - 1], Net(p[2 * i - 1], p[2 * i]))]
<1>1. /\ m \in Nat
      /\ \A y \in Words : \A i \in 1..m : Plus(y, Net(p[2 * i - 1], p[2 * i])) \in Words
  BY PacketWords, PlusRight
<1>2. m \in Nat /\ x \in V /\ F \in [V \X (1..m) -> V]
  BY <1>1
<1>3. Runs(m, V, x, F)
  <2> HIDE DEF F, V, m
  <2> QED
    BY <1>2, LoopRuns
<1>4. PICK g \in [0..m -> V] : g[0] = x /\ \A i \in 1..m : g[i] = F[<<g[i - 1], i>>]
  BY <1>3 DEF Runs
<1>5. g = e(g)
  <2>1. ASSUME NEW i \in 1..m PROVE g[i] = Plus(g[i - 1], Net(p[2 * i - 1], p[2 * i]))
    <3>1. i - 1 \in 0..m
      BY <1>2
    <3>2. g[i - 1] \in V
      BY <3>1
    <3> QED
      BY <3>2, <1>4
  <2>2. \A i \in 0..m : g[i] = e(g)[i]
    BY <1>4, <2>1
  <2> HIDE DEF V
  <2> QED
    BY <1>4, <2>2
<1> DEFINE s == InPart(x, n, p)
<1>6. s = e(s)
  <2>1. \E f : f = e(f)
    BY <1>5
  <2> QED
    BY <2>1, Zenon DEF InPart
<1> HIDE DEF s
<1>7. s[0] = x /\ \A i \in 1..m : s[i] = Plus(s[i - 1], Net(p[2 * i - 1], p[2 * i]))
  <2>1. m \in Nat
    BY <1>2
  <2> HIDE DEF V, F, m
  <2> QED
    BY <1>6, <2>1
<1> QED
  BY <1>7 DEF s

\* The operators of the model in terms of these loops.
LEMMA LoopsAre ==
  /\ \A p : HostSum(p) =
        (HostPart(p)[Len(p) \div 2] + (IF Len(p) % 2 = 1 THEN p[Len(p)] ELSE 0)) % Wide
  /\ \A p : NetSum(p) =
        NetPart(p)[Len(p) \div 2] + (IF Len(p) % 2 = 1 THEN Net(p[Len(p)], 0) ELSE 0)
  /\ \A field, odata, ndata :
        LET n == Len(odata) \div 2
            y == OutPart(Complement(Net(field[1], field[2])), odata)[n]
            x == Complement(InPart(y, n, ndata)[n])
        IN  adjust_checksum(field, odata, ndata) = <<x \div Byte, x % Byte>>
BY DEF HostSum, HostPart, NetSum, NetPart, adjust_checksum, OutPart, InPart

-----------------------------------------------------------------------------
\* Congruence is an equivalence that sums and products respect.
LEMMA CongruentIs ==
  ASSUME NEW a \in Int, NEW b \in Int, NEW k \in Int, a = b + k * M
  PROVE  Congruent(a, b)
BY DEF Congruent

LEMMA CongruentNear ==
  ASSUME NEW a \in Int, NEW b \in Int, a \in {b, b + M, b - M}
  PROVE  Congruent(a, b)
<1>1. \E k \in {0, 1, -1} : a = b + k * M
  BY BaseFacts
<1> QED
  BY <1>1 DEF Congruent

LEMMA CongruentTurn ==
  ASSUME NEW a \in Int, NEW b \in Int, Congruent(a, b)
  PROVE  Congruent(b, a)
<1>1. PICK k \in Int : a = b + k * M
  BY DEF Congruent
<1>2. b = a + (-k) * M
  <2>1. (-k) * M = -(k * M) /\ k * M \in Int
    BY BaseFacts
  <2> QED
    BY <1>1, <2>1
<1> QED
  BY <1>2, CongruentIs

LEMMA CongruentChain ==
  ASSUME NEW a \in Int, NEW b \in Int, NEW c \in Int, Congruent(a, b), Congruent(b, c)
  PROVE  Congruent(a, c)
<1>1. PICK k \in Int : a = b + k * M
  BY DEF Congruent
<1>2. PICK j \in Int : b = c + j * M
  BY DEF Congruent
<1>3. a = c + (k + j) * M
  <2>1. (k + j) * M = k * M + j * M /\ k * M \in Int /\ j * M \in Int
    BY BaseFacts
  <2> QED
    BY <1>1, <1>2, <2>1
<1> QED
  BY <1>3, CongruentIs

LEMMA CongruentSum ==
  ASSUME NEW a \in Int, NEW b \in Int, NEW c \in Int, NEW d \in Int,
         Congruent(a, b), Congruent(c, d)
  PROVE  Congruent(a + c, b + d) /\ Congruent(a - c, b - d)
<1>1. PICK k \in Int : a = b + k * M
  BY DEF Congruent
<1>2. PICK j \in Int : c = d + j * M
  BY DEF Congruent
<1>3. /\ (k + j) * M = k * M + j * M /\ (k - j) * M = k * M - j * M
      /\ k * M \in Int /\ j * M \in Int
  BY BaseFacts
<1>4. a + c = (b + d) + (k + j) * M /\ a - c = (b - d) + (k - j) * M
  BY <1>1, <1>2, <1>3
<1> QED
  BY <1>4, CongruentIs

LEMMA TimesZero ==
  ASSUME NEW a \in Int, NEW c \in Int, Congruent(a, 0)
  PROVE  Congruent(c * a, 0) /\ c * a \in Int
<1>1. PICK k \in Int : a = 0 + k * M
  BY DEF Congruent
<1>2. c * (k * M) = 0 + (c * k) * M /\ c * k \in Int /\ k * M \in Int
  BY BaseFacts
<1>3. c * a = 0 + (c * k) * M /\ c * a \in Int
  BY <1>1, <1>2
<1> QED
  BY <1>2, <1>3, CongruentIs

\* To be congruent to 0 is to leave no remainder.
LEMMA CongruentZero ==
  ASSUME NEW a \in Int
  PROVE  Congruent(a, 0) <=> a % M = 0
<1>1. a = M * (a \div M) + (a % M) /\ a \div M \in Int /\ a % M \in 0..M - 1
  BY BaseFacts
<1>2. ASSUME a % M = 0 PROVE Congruent(a, 0)
  <2>1. a = 0 + (a \div M) * M
    BY <1>1, <1>2, BaseFacts
  <2> QED
    BY <2>1, <1>1, CongruentIs
<1>3. ASSUME Congruent(a, 0) PROVE a % M = 0
  <2>1. PICK k \in Int : a = 0 + k * M
    BY <1>3 DEF Congruent
  <2> DEFINE q == a \div M
             d == k - q
  <2>2. d \in Int /\ d * M = k * M - q * M /\ k * M \in Int /\ q * M \in Int /\ M * q = q * M
    BY <1>1, BaseFacts
  <2>3. a % M = d * M
    BY <2>1, <2>2, <1>1
  <2>4. d >= 1 => d * M >= M
    BY <2>2, BaseFacts
  <2>5. d <= -1 => d * M <= -M
    BY <2>2, BaseFacts
  <2> HIDE DEF d, q
  <2>6. d = 0
    BY <2>2, <2>3, <2>4, <2>5, <1>1, BaseFacts
  <2> QED
    BY <2>3, <2>6, BaseFacts
<1> QED
  BY <1>2, <1>3

\* The packets for which no carry leaves the unsigned int.
LEMMA FewWords ==
  ASSUME NEW i \in Nat, i <= Base
  PROVE  /\ i * M \in Nat /\ i * M <= Wide - Base /\ (i + 1) * M = i * M + M
         /\ Wide \in Nat /\ Wide > Base
<1>1. (Base - i) * M >= 0 /\ (Base - i) * M = Base * M - i * M
  BY BaseFacts
<1>2. Base * M = Base * Base - Base /\ Base * Base \in Nat
  BY BaseFacts DEF M
<1>3. i * M \in Nat /\ (i + 1) * M = i * M + M
  BY BaseFacts
<1>4. Base * Base >= 4 * Base
  BY BaseFacts
<1> QED
  BY <1>1, <1>2, <1>3, <1>4, BaseFacts DEF Wide

\* The sum of the reference is a number.
LEMMA NetPartType ==
  ASSUME NEW p \in Seq(Bytes)
  PROVE  \A i \in 0..Len(p) \div 2 : NetPart(p)[i] \in Nat
<1> DEFINE s == NetPart(p)
           n == Len(p) \div 2
           S == {i \in Nat : i <= n => s[i] \in Nat}
<1>1. n \in Nat /\ \A i \in 1..n : Net(p[2 * i - 1], p[2 * i]) \in Nat
  BY PacketWords, BaseFacts DEF Words
<1>2. s[0] = 0 /\ \A i \in 1..n : s[i] = s[i - 1] + Net(p[2 * i - 1], p[2 * i])
  BY NetPartSteps
<1> HIDE DEF s, n
<1>3. 0 \in S
  BY <1>2
<1>4. ASSUME NEW i \in Nat, i \in S PROVE i + 1 \in S
  <2> SUFFICES ASSUME i + 1 <= n PROVE s[i + 1] \in Nat
    OBVIOUS
  <2>1. s[i] \in Nat /\ i + 1 \in 1..n /\ (i + 1) - 1 = i
    BY <1>1, <1>4
  <2>2. s[i + 1] = s[i] + Net(p[2 * (i + 1) - 1], p[2 * (i + 1)])
    BY <1>2, <2>1
  <2>3. Net(p[2 * (i + 1) - 1], p[2 * (i + 1)]) \in Nat
    BY <1>1, <2>1
  <2> QED
    BY <2>1, <2>2, <2>3
<1> HIDE DEF S
<1>5. \A i \in Nat : i \in S
  BY <1>3, <1>4, SetInduction
<1> QED
  BY <1>1, <1>5 DEF S, s, n

\* The last byte of a packet of odd length.
LEMMA OddByte ==
  ASSUME NEW p \in Seq(Bytes), Len(p) % 2 = 1
  PROVE  p[Len(p)] \in Bytes /\ p[Len(p)] \in Nat /\ Net(p[Len(p)], 0) = Byte * p[Len(p)]
         /\ Net(p[Len(p)], 0) \in Nat
<1>1. p[Len(p)] \in Bytes
  BY PacketWords
<1>2. \A b \in Bytes : Byte * b \in Nat /\ b \in Nat
  BY ChecksumAssumption DEF Bytes
<1> QED
  BY <1>1, <1>2, ChecksumAssumption DEF Net

LEMMA NetSumType ==
  ASSUME NEW p \in Seq(Bytes)
  PROVE  NetSum(p) \in Nat
<1>1. NetPart(p)[Len(p) \div 2] \in Nat
  BY PacketWords, NetPartType
<1>2. NetSum(p) = NetPart(p)[Len(p) \div 2] + (IF Len(p) % 2 = 1 THEN Net(p[Len(p)], 0) ELSE 0)
  BY LoopsAre
<1> QED
  BY <1>1, <1>2, OddByte

\* checksum adds the words of a short packet without a wrap, and its partial
\* sums are those of the reference, each byte in the other half of its word.
LEMMA HostPartRight ==
  ASSUME NEW p \in Seq(Bytes), Len(p) \div 2 <= Base
  PROVE  \A i \in 0..Len(p) \div 2 :
            /\ HostPart(p)[i] \in 0..i * M
            /\ Congruent(Byte * NetPart(p)[i], HostPart(p)[i])
            /\ HostPart(p)[i] = 0 => \A k \in 1..2 * i : p[k] = 0
<1> DEFINE s == HostPart(p)
           t == NetPart(p)
           n == Len(p) \div 2
           Right(i) == /\ s[i] \in 0..i * M
                       /\ Congruent(Byte * t[i], s[i])
                       /\ s[i] = 0 => \A k \in 1..2 * i : p[k] = 0
           S == {i \in Nat : i <= n => Right(i)}
<1>1. /\ n \in Nat /\ n <= Base
      /\ s[0] = 0 /\ t[0] = 0
      /\ \A i \in 1..n : s[i] = (s[i - 1] + Host(p[2 * i - 1], p[2 * i])) % Wide
      /\ \A i \in 1..n : t[i] = t[i - 1] + Net(p[2 * i - 1], p[2 * i])
      /\ \A i \in 0..n : t[i] \in Nat
      /\ \A i \in 1..n : p[2 * i - 1] \in Bytes /\ p[2 * i] \in Bytes
      /\ \A i \in 1..n : /\ Host(p[2 * i - 1], p[2 * i]) \in Words
                         /\ Net(p[2 * i - 1], p[2 * i]) \in Words
  BY HostPartSteps, NetPartSteps, NetPartType, PacketWords
<1> HIDE DEF s, t, n
<1>2. 0 \in S
  <2>1. Byte * 0 = 0 + 0 * M
    BY ChecksumAssumption, BaseFacts
  <2>2. Congruent(Byte * t[0], s[0])
    BY <1>1, <2>1, CongruentIs, ChecksumAssumption
  <2>3. s[0] \in 0..0 * M
    BY <1>1, BaseFacts
  <2> QED
    BY <1>1, <2>2, <2>3
<1>3. ASSUME NEW i \in Nat, i \in S PROVE i + 1 \in S
  <2> SUFFICES ASSUME i + 1 <= n PROVE Right(i + 1)
    OBVIOUS
  <2> DEFINE a == p[2 * (i + 1) - 1]
             b == p[2 * (i + 1)]
  <2>0. i <= n /\ i \in 0..n /\ i + 1 \in 1..n /\ (i + 1) - 1 = i /\ i <= Base
    BY <1>1, BaseFacts
  <2>1. Right(i)
    BY <1>3, <2>0
  <2>2. /\ a \in Bytes /\ b \in Bytes /\ Host(a, b) \in Words /\ Net(a, b) \in Words
        /\ t[i] \in Nat /\ t[i + 1] = t[i] + Net(a, b)
        /\ s[i + 1] = (s[i] + Host(a, b)) % Wide
    <3>1. i + 1 \in 1..n /\ (i + 1) - 1 = i /\ i \in 0..n
      BY <2>0
    <3>2. /\ t[i + 1] = t[(i + 1) - 1] + Net(a, b)
          /\ s[i + 1] = (s[(i + 1) - 1] + Host(a, b)) % Wide
      BY <1>1, <3>1
    <3>3. a \in Bytes /\ b \in Bytes /\ Host(a, b) \in Words /\ Net(a, b) \in Words
      BY <1>1, <3>1
    <3>4. t[i] \in Nat
      BY <1>1, <3>1
    <3> QED
      BY <3>1, <3>2, <3>3, <3>4
  <2>3. /\ i * M \in Nat /\ i * M <= Wide - Base /\ (i + 1) * M = i * M + M
        /\ Wide \in Nat /\ Wide > Base
    BY <2>0, FewWords
  <2>4. Host(a, b) \in 0..M /\ s[i] \in Nat /\ s[i] <= i * M
    BY <2>1, <2>2, <2>3 DEF Words, M
  <2> HIDE DEF a, b
  <2>5. s[i] + Host(a, b) \in 0..Wide - 1
    BY <2>3, <2>4, BaseFacts DEF M
  <2>6. s[i + 1] = s[i] + Host(a, b)
    BY <2>2, <2>5, <2>3
  <2>7. s[i + 1] \in 0..(i + 1) * M
    BY <2>3, <2>4, <2>6, BaseFacts
  <2>8. Congruent(Byte * t[i + 1], s[i + 1])
    <3>1. Congruent(Byte * Net(a, b), Host(a, b))
      BY <2>2, ByteOrder
    <3>2. /\ Byte * t[i] \in Int /\ Byte * Net(a, b) \in Int
          /\ s[i] \in Int /\ Host(a, b) \in Int
          /\ Byte * (t[i] + Net(a, b)) = Byte * t[i] + Byte * Net(a, b)
      BY <2>2, <2>4, ChecksumAssumption DEF Words
    <3>3. Congruent(Byte * t[i] + Byte * Net(a, b), s[i] + Host(a, b))
      BY <2>1, <3>1, <3>2, CongruentSum
    <3> QED
      BY <2>2, <2>6, <3>2, <3>3
  <2>9. ASSUME s[i + 1] = 0, NEW k \in 1..2 * (i + 1) PROVE p[k] = 0
    <3>1. s[i] = 0 /\ Host(a, b) = 0
      BY <2>4, <2>6, <2>9, BaseFacts
    <3>2. a = 0 /\ b = 0
      <4>1. a \in Nat /\ b \in Nat /\ Byte * b \in Nat /\ a + Byte * b = 0
        BY <2>2, <3>1, ChecksumAssumption DEF Bytes, Host
      <4>2. a = 0 /\ Byte * b = 0
        BY <4>1
      <4>3. b >= 1 => Byte * b >= Byte
        BY <4>1, ChecksumAssumption
      <4> QED
        BY <4>1, <4>2, <4>3, ChecksumAssumption
    <3>3. k \in 1..2 * i \/ k = 2 * (i + 1) - 1 \/ k = 2 * (i + 1)
      OBVIOUS
    <3> QED
      BY <2>1, <3>1, <3>2, <3>3 DEF a, b
  <2> QED
    BY <2>7, <2>8, <2>9
<1> HIDE DEF S
<1>4. \A i \in Nat : i \in S
  BY <1>2, <1>3, SetInduction
<1>5. \A i \in 0..n : Right(i)
  BY <1>1, <1>4 DEF S
<1> QED
  BY <1>5 DEF s, t, n

\* The same for the sum of checksum, the odd last byte with it.
LEMMA HostSumRight ==
  ASSUME NEW p \in Seq(Bytes), Len(p) \div 2 <= Base
  PROVE  /\ HostSum(p) \in 0..Wide - 1
         /\ Congruent(Byte * NetSum(p), HostSum(p))
         /\ HostSum(p) = 0 => \A k \in 1..Len(p) : p[k] = 0
<1> DEFINE n == Len(p) \div 2
           s == HostPart(p)[n]
           t == NetPart(p)[n]
           o == IF Len(p) % 2 = 1 THEN p[Len(p)] ELSE 0
           q == IF Len(p) % 2 = 1 THEN Net(p[Len(p)], 0) ELSE 0
<1>1. /\ s \in 0..n * M /\ Congruent(Byte * t, s)
      /\ s = 0 => \A k \in 1..2 * n : p[k] = 0
      /\ t \in Nat /\ n \in Nat
  BY PacketWords, HostPartRight, NetPartType
<1>2. n * M \in Nat /\ n * M <= Wide - Base /\ Wide \in Nat /\ Wide > Base
  BY <1>1, FewWords
<1>3. o \in Bytes /\ o \in Nat /\ q = Byte * o /\ q \in Nat
  BY OddByte, ChecksumAssumption DEF Bytes
<1>4. HostSum(p) = (s + o) % Wide /\ NetSum(p) = t + q
  BY LoopsAre
<1>5. Len(p) = 2 * n \/ (Len(p) = 2 * n + 1 /\ o = p[Len(p)])
  BY PacketWords
<1>6. Byte < Base
  <2>1. Byte * Byte >= 2 * Byte
    BY ChecksumAssumption
  <2> QED
    BY <2>1, ChecksumAssumption DEF Base
<1> HIDE DEF n, s, t, o, q
<1>7. s + o \in 0..Wide - 1 /\ s \in Nat
  BY <1>1, <1>2, <1>3, <1>6, BaseFacts, ChecksumAssumption DEF Bytes
<1>8. HostSum(p) = s + o
  BY <1>4, <1>7, <1>2
<1>9. Congruent(Byte * NetSum(p), HostSum(p))
  <2>1. Byte * q = o + o * M /\ Byte * q \in Int /\ Byte * t \in Int
        /\ Byte * (t + q) = Byte * t + Byte * q
    <3>1. Byte * (Byte * o) = o + o * (Byte * Byte - 1)
      BY <1>3, ChecksumAssumption
    <3> QED
      BY <3>1, <1>1, <1>3, ChecksumAssumption DEF M, Base
  <2>2. Congruent(Byte * q, o)
    BY <2>1, <1>3, CongruentIs
  <2>3. Congruent(Byte * t + Byte * q, s + o)
    BY <2>1, <2>2, <1>1, <1>3, <1>7, CongruentSum
  <2> QED
    BY <2>1, <2>3, <1>4, <1>8
<1>10. ASSUME HostSum(p) = 0, NEW k \in 1..Len(p) PROVE p[k] = 0
  <2>1. s = 0 /\ o = 0
    BY <1>10, <1>3, <1>7, <1>8
  <2> QED
    BY <2>1, <1>1, <1>5
<1> QED
  BY <1>7, <1>8, <1>9, <1>10

\* The folds give 0 only for 0.
LEMMA FoldZero ==
  ASSUME NEW s \in 0..Wide - 1, Fold(s) = 0
  PROVE  s = 0
<1> DEFINE h == s \div Base
           l == s % Base
           once == h + l
<1>1. s = h * Base + l /\ l \in Words
  BY BaseFacts DEF Wide, Words
<1>2. h \in Words
  BY <1>1, BaseFacts DEF Wide, Words
<1> HIDE DEF h, l
<1>3. CASE once < Base
  <2>1. once \div Base = 0 /\ once % Base = once
    BY <1>1, <1>2, <1>3, BaseFacts DEF Words
  <2>2. Fold(s) = once
    BY <2>1, <1>1, <1>2, BaseFacts DEF Fold, h, l, Words
  <2>3. h = 0 /\ l = 0
    BY <2>2, <1>1, <1>2 DEF Words
  <2> QED
    BY <2>3, <1>1, BaseFacts
<1>4. CASE once >= Base
  <2>1. once \div Base = 1 /\ once + 1 \in Base..2 * Base - 1
    BY <1>1, <1>2, <1>4, BaseFacts DEF Words
  <2>2. Fold(s) = once + 1 - Base
    BY <2>1, <1>1, <1>2, Wrap, BaseFacts DEF Fold, h, l, Words
  <2> QED
    BY <2>2, <1>1, <1>2, <1>4, BaseFacts DEF Words
<1> QED
  BY <1>1, <1>2, <1>3, <1>4, BaseFacts DEF Words

\* The sum of a loop that wraps is an unsigned int, however long the packet.
LEMMA HostSumType ==
  ASSUME NEW p \in Seq(Bytes)
  PROVE  HostSum(p) \in 0..Wide - 1
<1> DEFINE n == Len(p) \div 2
           s == HostPart(p)
           o == IF Len(p) % 2 = 1 THEN p[Len(p)] ELSE 0
<1>1. Wide \in Nat /\ Wide > 0
  BY BaseFacts DEF Wide
<1>2. n \in Nat /\ s[0] = 0
      /\ \A i \in 1..n : s[i] = (s[i - 1] + Host(p[2 * i - 1], p[2 * i])) % Wide
  BY PacketWords, HostPartSteps
<1>3. \A i \in 1..n : Host(p[2 * i - 1], p[2 * i]) \in Int
  BY PacketWords, BaseFacts DEF Words
<1>4. o \in Int
  BY OddByte
<1> DEFINE S == {i \in Nat : i <= n => s[i] \in Int}
<1> HIDE DEF n, s, o
<1>5. 0 \in S
  BY <1>2
<1>6. ASSUME NEW i \in Nat, i \in S PROVE i + 1 \in S
  <2> SUFFICES ASSUME i + 1 <= n PROVE s[i + 1] \in Int
    OBVIOUS
  <2>1. s[i] \in Int /\ i + 1 \in 1..n /\ (i + 1) - 1 = i
    BY <1>2, <1>6
  <2>2. s[i + 1] = (s[i] + Host(p[2 * (i + 1) - 1], p[2 * (i + 1)])) % Wide
    BY <1>2, <2>1
  <2>3. Host(p[2 * (i + 1) - 1], p[2 * (i + 1)]) \in Int
    BY <1>3, <2>1
  <2> QED
    BY <2>1, <2>2, <2>3, <1>1
<1> HIDE DEF S
<1>7. \A i \in Nat : i \in S
  BY <1>5, <1>6, SetInduction
<1>8. s[n] \in Int
  BY <1>2, <1>7 DEF S
<1>9. HostSum(p) = (s[n] + o) % Wide
  BY LoopsAre DEF s, n, o
<1> QED
  BY <1>1, <1>4, <1>8, <1>9

\* checksum returns a word, and the one that makes the sum of a short packet
\* right.
THEOREM ChecksumRight ==
  ASSUME NEW p \in Seq(Bytes)
  PROVE  /\ checksum(p) \in Words
         /\ Len(p) \div 2 <= Base => Congruent(checksum(p) + Byte * NetSum(p), 0)
<1> DEFINE f == Fold(HostSum(p))
<1>1. f \in Words /\ Congruent(HostSum(p), f) /\ HostSum(p) \in Int
  BY HostSumType, FoldRight
<1>2. checksum(p) = M - f /\ checksum(p) \in Words
  BY <1>1, ComplementRight DEF checksum
<1>3. ASSUME Len(p) \div 2 <= Base PROVE Congruent(checksum(p) + Byte * NetSum(p), 0)
  <2> DEFINE b == Byte * NetSum(p)
  <2>1. b \in Int /\ f \in Int /\ M \in Int /\ 0 \in Int
    BY <1>1, NetSumType, ChecksumAssumption, BaseFacts DEF Words
  <2>2. Congruent(b, HostSum(p))
    BY <1>3, HostSumRight
  <2> HIDE DEF b, f
  <2>3. Congruent(b, f)
    BY <1>1, <2>1, <2>2, CongruentChain
  <2>4. Congruent(M - f, 0 - f)
    <3>1. M - f \in Int /\ 0 - f \in Int /\ M - f = (0 - f) + M
      BY <2>1
    <3> QED
      BY <3>1, CongruentNear
  <2>5. Congruent((M - f) + b, (0 - f) + f)
    BY <2>1, <2>3, <2>4, CongruentSum
  <2> QED
    BY <1>2, <2>1, <2>5 DEF b
<1> QED
  BY <1>2, <1>3

\* A packet whose sum is right and that is not all zeros has checksum 0.
THEOREM RightIsAccepted ==
  ASSUME NEW p \in Seq(Bytes), Len(p) \div 2 <= Base, Congruent(NetSum(p), 0),
         NEW k \in 1..Len(p), p[k] # 0
  PROVE  checksum(p) = 0
<1> DEFINE f == Fold(HostSum(p))
<1>1. /\ HostSum(p) \in 0..Wide - 1 /\ HostSum(p) # 0
      /\ Congruent(Byte * NetSum(p), HostSum(p))
  BY HostSumRight
<1>2. f \in Words /\ Congruent(HostSum(p), f) /\ HostSum(p) \in Int /\ f # 0
  BY <1>1, FoldRight, FoldZero
<1>3. Congruent(f, 0)
  <2> DEFINE b == Byte * NetSum(p)
  <2>1. b \in Int /\ Congruent(b, 0) /\ 0 \in Int
    BY NetSumType, TimesZero, ChecksumAssumption
  <2> HIDE DEF b, f
  <2>2. f \in Int
    BY <1>2 DEF Words
  <2>3. Congruent(b, f)
    BY <1>1, <1>2, <2>1, <2>2, CongruentChain DEF b
  <2>4. Congruent(f, b)
    BY <2>1, <2>2, <2>3, CongruentTurn
  <2> QED
    BY <2>1, <2>2, <2>4, CongruentChain
<1> HIDE DEF f
<1>4. f = M
  <2>1. f \in Nat /\ f >= 1 /\ f <= M
    BY <1>2, BaseFacts DEF Words, M
  <2>2. f % M = 0
    BY <1>3, <2>1, CongruentZero
  <2>3. f < M => f % M = f
    BY <2>1, BaseFacts
  <2> QED
    BY <2>1, <2>2, <2>3, BaseFacts
<1>5. checksum(p) = M - f
  BY <1>2, ComplementRight DEF checksum, f
<1> QED
  BY <1>4, <1>5, BaseFacts

-----------------------------------------------------------------------------
\* A function on 1..n is a sequence of length n.
LEMMA FunctionIsSeq ==
  ASSUME NEW S, NEW n \in Nat, NEW f \in [1..n -> S]
  PROVE  f \in Seq(S) /\ Len(f) = n
OBVIOUS

\* The two bytes of a word, in either order.
LEMMA WordBytes ==
  ASSUME NEW x \in Words
  PROVE  /\ x \div Byte \in Bytes /\ x % Byte \in Bytes
         /\ Net(x \div Byte, x % Byte) = x /\ Host(x % Byte, x \div Byte) = x
<1>1. Byte \in Nat /\ Byte >= 2
  BY ChecksumAssumption
<1>2. x \in Nat /\ x < Byte * Byte
  BY BaseFacts DEF Words, Base
<1>3. x = Byte * (x \div Byte) + (x % Byte) /\ x % Byte \in 0..Byte - 1 /\ x \div Byte \in Nat
  BY <1>1, <1>2
<1> DEFINE q == x \div Byte
           r == x % Byte
<1> HIDE DEF q, r
<1>4. q \in Nat /\ r \in 0..Byte - 1 /\ x = Byte * q + r
  BY <1>3 DEF q, r
<1>5. q >= Byte => Byte * q >= Byte * Byte
  BY <1>1, <1>4
<1>6. q < Byte
  <2>1. Byte * q \in Nat /\ Byte * Byte \in Nat
    BY <1>1, <1>4
  <2> QED
    BY <1>1, <1>2, <1>4, <1>5, <2>1
<1> QED
  BY <1>1, <1>4, <1>6 DEF Bytes, Net, Host, q, r

\* A packet with a field in front of it.
LEMMA FieldInFront ==
  ASSUME NEW f \in Bytes \X Bytes, NEW p \in Seq(Bytes)
  PROVE  /\ f \o p \in Seq(Bytes) /\ Len(f \o p) = Len(p) + 2
         /\ (f \o p)[1] = f[1] /\ (f \o p)[2] = f[2]
         /\ \A i \in 1..Len(p) : (f \o p)[i + 2] = p[i]
         /\ Net(f[1], f[2]) \in Words
         /\ NetSum(f \o p) = Net(f[1], f[2]) + NetSum(p)
<1> DEFINE q == f \o p
           n == Len(p) \div 2
           s == NetPart(q)
           t == NetPart(p)
<1>1. f \in Seq(Bytes) /\ Len(f) = 2
  OBVIOUS
<1>2. /\ q \in Seq(Bytes) /\ Len(q) = Len(p) + 2 /\ Len(p) \in Nat
      /\ \A i \in 1..Len(p) + 2 : q[i] = IF i <= 2 THEN f[i] ELSE p[i - 2]
  <2>1. /\ q \in Seq(Bytes) /\ Len(q) = Len(f) + Len(p) /\ Len(p) \in Nat
        /\ \A i \in 1..Len(f) + Len(p) : q[i] = IF i <= Len(f) THEN f[i] ELSE p[i - Len(f)]
    BY <1>1, ConcatProperties, LenProperties
  <2> HIDE DEF q
  <2>2. Len(f) + Len(p) = Len(p) + 2
    BY <1>1, <2>1
  <2> QED
    BY <1>1, <2>1, <2>2
<1>3. q[1] = f[1] /\ q[2] = f[2] /\ \A i \in 1..Len(p) : q[i + 2] = p[i]
  <2> HIDE DEF q
  <2> QED
    BY <1>2
<1>4. Len(q) \div 2 = n + 1 /\ Len(q) % 2 = Len(p) % 2 /\ n \in Nat
  BY <1>2, Halves
<1>5. /\ s[0] = 0 /\ t[0] = 0
      /\ \A i \in 1..n + 1 : s[i] = s[i - 1] + Net(q[2 * i - 1], q[2 * i])
      /\ \A i \in 1..n : t[i] = t[i - 1] + Net(p[2 * i - 1], p[2 * i])
      /\ \A i \in 0..n : t[i] \in Nat
  BY <1>2, <1>4, NetPartSteps, NetPartType
<1>6. Net(f[1], f[2]) \in Words /\ \A i \in 1..n : Net(p[2 * i - 1], p[2 * i]) \in Nat
  <2>1. Net(q[1], q[2]) \in Words
    <3>1. 1 \in 1..Len(q) \div 2 /\ 2 * 1 - 1 = 1 /\ 2 * 1 = 2
      BY <1>4
    <3> HIDE DEF q
    <3>2. Net(q[2 * 1 - 1], q[2 * 1]) \in Words
      BY <1>2, <3>1, PacketWords
    <3> QED
      BY <3>1, <3>2
  <2>2. \A i \in 1..n : Net(p[2 * i - 1], p[2 * i]) \in Words
    BY PacketWords
  <2> QED
    BY <1>3, <2>1, <2>2, BaseFacts DEF Words
<1> DEFINE c == Net(f[1], f[2])
           S == {i \in Nat : i <= n => s[i + 1] = c + t[i]}
<1>7. c \in Nat
  BY <1>6, BaseFacts DEF Words
<1>8. \A i \in 1..n : 2 * i - 1 \in 1..Len(p) /\ 2 * i \in 1..Len(p)
  BY PacketWords
<1> HIDE DEF q, n, s, t, c
<1>9. 0 \in S
  <2>1. 1 \in 1..n + 1 /\ 1 - 1 = 0 /\ 2 * 1 - 1 = 1 /\ 2 * 1 = 2 /\ 0 + 1 = 1
    BY <1>4
  <2>2. s[1] = s[1 - 1] + Net(q[2 * 1 - 1], q[2 * 1])
    BY <1>5, <2>1
  <2>3. s[0 + 1] = c + t[0]
    BY <1>3, <1>5, <1>7, <2>1, <2>2 DEF c
  <2> QED
    BY <2>3
<1>10. ASSUME NEW i \in Nat, i \in S PROVE i + 1 \in S
  <2> SUFFICES ASSUME i + 1 <= n PROVE s[(i + 1) + 1] = c + t[i + 1]
    OBVIOUS
  <2> DEFINE k == i + 1
  <2>1. /\ k \in 1..n /\ k + 1 \in 1..n + 1 /\ (k + 1) - 1 = k /\ k - 1 = i /\ i \in 0..n
        /\ 2 * (k + 1) - 1 = (2 * k - 1) + 2 /\ 2 * (k + 1) = 2 * k + 2
    BY <1>4
  <2>2. s[k] = c + t[i]
    BY <1>10, <2>1
  <2> HIDE DEF k
  <2>3. s[k + 1] = s[k] + Net(q[2 * (k + 1) - 1], q[2 * (k + 1)])
    BY <1>5, <2>1
  <2>4. q[2 * (k + 1) - 1] = p[2 * k - 1] /\ q[2 * (k + 1)] = p[2 * k]
    BY <1>3, <1>8, <2>1
  <2>5. t[k] = t[i] + Net(p[2 * k - 1], p[2 * k])
    BY <1>5, <2>1
  <2>6. Net(p[2 * k - 1], p[2 * k]) \in Nat /\ t[i] \in Nat
    BY <1>5, <1>6, <2>1
  <2> QED
    BY <2>2, <2>3, <2>4, <2>5, <2>6, <1>7 DEF k
<1> HIDE DEF S
<1>11. \A i \in Nat : i \in S
  BY <1>9, <1>10, SetInduction
<1>12. s[n + 1] = c + t[n]
  BY <1>4, <1>11 DEF S
<1>13. NetSum(q) = c + NetSum(p)
  <2>1. NetSum(q) = s[Len(q) \div 2] + (IF Len(q) % 2 = 1 THEN Net(q[Len(q)], 0) ELSE 0)
    BY LoopsAre DEF s
  <2>2. NetSum(p) = t[n] + (IF Len(p) % 2 = 1 THEN Net(p[Len(p)], 0) ELSE 0)
    BY LoopsAre DEF t, n
  <2>3. CASE Len(p) % 2 = 1
    <3>1. Len(p) \in 1..Len(p)
      BY <2>3, <1>2
    <3>2. q[Len(q)] = p[Len(p)]
      BY <3>1, <1>2, <1>3
    <3> QED
      BY <2>1, <2>2, <2>3, <3>2, <1>4, <1>5, <1>7, <1>12, OddByte
  <2>4. CASE Len(p) % 2 # 1
    BY <2>1, <2>2, <2>4, <1>4, <1>5, <1>7, <1>12
  <2> QED
    BY <2>3, <2>4
<1> QED
  BY <1>2, <1>3, <1>6, <1>13 DEF q, c

-----------------------------------------------------------------------------
\* The loop that takes the old words out subtracts their sum.
LEMMA OutRight ==
  ASSUME NEW x \in Words, NEW p \in Seq(Bytes)
  PROVE  \A i \in 0..Len(p) \div 2 :
            OutPart(x, p)[i] \in Words /\ Congruent(OutPart(x, p)[i], x - NetPart(p)[i])
<1> DEFINE s == OutPart(x, p)
           t == NetPart(p)
           n == Len(p) \div 2
           Right(i) == s[i] \in Words /\ Congruent(s[i], x - t[i])
           S == {i \in Nat : i <= n => Right(i)}
<1>1. /\ n \in Nat /\ s[0] = x /\ t[0] = 0
      /\ \A i \in 1..n : s[i] = Subtract(s[i - 1], Net(p[2 * i - 1], p[2 * i]))
      /\ \A i \in 1..n : t[i] = t[i - 1] + Net(p[2 * i - 1], p[2 * i])
      /\ \A i \in 1..n : Net(p[2 * i - 1], p[2 * i]) \in Words
      /\ \A i \in 0..n : t[i] \in Nat
  BY OutPartSteps, NetPartSteps, NetPartType, PacketWords
<1> HIDE DEF s, t, n
<1>2. 0 \in S
  <2>1. x \in Int /\ x - 0 = x
    BY DEF Words
  <2>2. Congruent(x, x)
    BY <2>1, CongruentNear
  <2> QED
    BY <1>1, <2>1, <2>2
<1>3. ASSUME NEW i \in Nat, i \in S PROVE i + 1 \in S
  <2> SUFFICES ASSUME i + 1 <= n PROVE Right(i + 1)
    OBVIOUS
  <2> DEFINE w == Net(p[2 * (i + 1) - 1], p[2 * (i + 1)])
  <2>1. i + 1 \in 1..n /\ (i + 1) - 1 = i /\ i \in 0..n
    BY <1>1
  <2>2. Right(i)
    BY <1>3, <2>1
  <2>3. s[i + 1] = Subtract(s[(i + 1) - 1], w) /\ t[i + 1] = t[(i + 1) - 1] + w /\ w \in Words
    BY <1>1, <2>1
  <2>4. t[i] \in Nat
    BY <1>1, <2>1
  <2> HIDE DEF w
  <2>5. s[i + 1] = Subtract(s[i], w) /\ t[i + 1] = t[i] + w
    BY <2>1, <2>3
  <2>6. s[i + 1] \in Words /\ s[i + 1] \in {s[i] - w, s[i] - w + M}
    BY <2>2, <2>3, <2>5, SubtractRight
  <2>7. s[i] \in Int /\ w \in Int /\ x \in Int /\ M \in Int
    BY <2>2, <2>3, BaseFacts DEF Words
  <2>8. Congruent(s[i + 1], s[i] - w)
    <3>1. s[i + 1] \in Int /\ s[i] - w \in Int
      BY <2>6, <2>7 DEF Words
    <3> QED
      BY <3>1, <2>6, <2>7, CongruentNear
  <2>9. Congruent(s[i] - w, (x - t[i]) - w)
    <3>1. Congruent(w, w)
      BY <2>7, CongruentNear
    <3>2. x - t[i] \in Int
      BY <2>4, <2>7
    <3> QED
      BY <2>2, <2>7, <3>1, <3>2, CongruentSum
  <2>10. Congruent(s[i + 1], (x - t[i]) - w)
    <3>1. s[i + 1] \in Int /\ s[i] - w \in Int /\ (x - t[i]) - w \in Int
      BY <2>4, <2>6, <2>7 DEF Words
    <3> QED
      BY <3>1, <2>8, <2>9, CongruentChain
  <2>11. (x - t[i]) - w = x - t[i + 1]
    BY <2>4, <2>5, <2>7
  <2> QED
    BY <2>6, <2>10, <2>11
<1> HIDE DEF S
<1>4. \A i \in Nat : i \in S
  BY <1>2, <1>3, SetInduction
<1>5. \A i \in 0..n : Right(i)
  BY <1>1, <1>4 DEF S
<1> QED
  BY <1>5 DEF s, t, n

\* The loop that adds the new words adds their sum.
LEMMA InRight ==
  ASSUME NEW x \in Words, NEW p \in Seq(Bytes), NEW n \in Nat, n = Len(p) \div 2
  PROVE  \A i \in 0..n :
            InPart(x, n, p)[i] \in Words /\ Congruent(InPart(x, n, p)[i], x + NetPart(p)[i])
<1> DEFINE s == InPart(x, n, p)
           t == NetPart(p)
           Right(i) == s[i] \in Words /\ Congruent(s[i], x + t[i])
           S == {i \in Nat : i <= n => Right(i)}
<1>1. /\ n \in Nat /\ s[0] = x /\ t[0] = 0
      /\ \A i \in 1..n : s[i] = Plus(s[i - 1], Net(p[2 * i - 1], p[2 * i]))
      /\ \A i \in 1..n : t[i] = t[i - 1] + Net(p[2 * i - 1], p[2 * i])
      /\ \A i \in 1..n : Net(p[2 * i - 1], p[2 * i]) \in Words
      /\ \A i \in 0..n : t[i] \in Nat
  BY InPartSteps, NetPartSteps, NetPartType, PacketWords
<1> HIDE DEF s, t
<1>2. 0 \in S
  <2>1. x \in Int /\ x + 0 = x
    BY DEF Words
  <2>2. Congruent(x, x)
    BY <2>1, CongruentNear
  <2> QED
    BY <1>1, <2>1, <2>2
<1>3. ASSUME NEW i \in Nat, i \in S PROVE i + 1 \in S
  <2> SUFFICES ASSUME i + 1 <= n PROVE Right(i + 1)
    OBVIOUS
  <2> DEFINE w == Net(p[2 * (i + 1) - 1], p[2 * (i + 1)])
  <2>1. i + 1 \in 1..n /\ (i + 1) - 1 = i /\ i \in 0..n
    BY <1>1
  <2>2. Right(i)
    BY <1>3, <2>1
  <2>3. s[i + 1] = Plus(s[(i + 1) - 1], w) /\ t[i + 1] = t[(i + 1) - 1] + w /\ w \in Words
    BY <1>1, <2>1
  <2>4. t[i] \in Nat
    BY <1>1, <2>1
  <2> HIDE DEF w
  <2>5. s[i + 1] = Plus(s[i], w) /\ t[i + 1] = t[i] + w
    BY <2>1, <2>3
  <2>6. s[i + 1] \in Words /\ s[i + 1] \in {s[i] + w, s[i] + w - M}
    BY <2>2, <2>3, <2>5, PlusRight
  <2>7. s[i] \in Int /\ w \in Int /\ x \in Int /\ M \in Int
    BY <2>2, <2>3, BaseFacts DEF Words
  <2>8. Congruent(s[i + 1], s[i] + w)
    <3>1. s[i + 1] \in Int /\ s[i] + w \in Int
      BY <2>6, <2>7 DEF Words
    <3> QED
      BY <3>1, <2>6, <2>7, CongruentNear
  <2>9. Congruent(s[i] + w, (x + t[i]) + w)
    <3>1. Congruent(w, w)
      BY <2>7, CongruentNear
    <3>2. x + t[i] \in Int
      BY <2>4, <2>7
    <3> QED
      BY <2>2, <2>7, <3>1, <3>2, CongruentSum
  <2>10. Congruent(s[i + 1], (x + t[i]) + w)
    <3>1. s[i + 1] \in Int /\ s[i] + w \in Int /\ (x + t[i]) + w \in Int
      BY <2>4, <2>6, <2>7 DEF Words
    <3> QED
      BY <3>1, <2>8, <2>9, CongruentChain
  <2>11. (x + t[i]) + w = x + t[i + 1]
    BY <2>4, <2>5, <2>7
  <2> QED
    BY <2>6, <2>10, <2>11
<1> HIDE DEF S
<1>4. \A i \in Nat : i \in S
  BY <1>2, <1>3, SetInduction
<1>5. \A i \in 0..n : Right(i)
  BY <1>1, <1>4 DEF S
<1> QED
  BY <1>5 DEF s, t

\* A packet of whole words has no odd byte.
LEMMA EvenSum ==
  ASSUME NEW p \in Seq(Bytes), Len(p) % 2 = 0
  PROVE  NetSum(p) = NetPart(p)[Len(p) \div 2]
<1>1. NetSum(p) = NetPart(p)[Len(p) \div 2] + (IF Len(p) % 2 = 1 THEN Net(p[Len(p)], 0) ELSE 0)
  BY LoopsAre
<1>2. NetPart(p)[Len(p) \div 2] \in Nat
  BY PacketWords, NetPartType
<1> QED
  BY <1>1, <1>2

\* adjust_checksum on whole words: the field loses the sum of the new words
\* and gains that of the old ones.
THEOREM AdjustRight ==
  ASSUME NEW f \in Bytes \X Bytes, NEW odata \in Seq(Bytes), NEW ndata \in Seq(Bytes),
         Len(odata) = Len(ndata), Len(odata) % 2 = 0
  PROVE  LET g == adjust_checksum(f, odata, ndata)
         IN  /\ g \in Bytes \X Bytes
             /\ Congruent(Net(g[1], g[2]) + NetSum(ndata), Net(f[1], f[2]) + NetSum(odata))
<1> DEFINE n == Len(odata) \div 2
           w == Net(f[1], f[2])
           y == OutPart(Complement(w), odata)[n]
           z == InPart(y, n, ndata)[n]
           x == Complement(z)
           o == NetSum(odata)
           m == NetSum(ndata)
<1>1. n \in Nat /\ n = Len(ndata) \div 2 /\ n \in 0..n
  BY PacketWords
<1>2. w \in Words /\ w \in Int
  <2>1. <<>> \in Seq(Bytes)
    BY EmptySeq
  <2> QED
    BY <2>1, FieldInFront, BaseFacts DEF Words
<1>3. Complement(w) = M - w /\ Complement(w) \in Words
  BY <1>2, ComplementRight
<1>4. o = NetPart(odata)[n] /\ m = NetPart(ndata)[n] /\ o \in Nat /\ m \in Nat
  <2>1. NetPart(odata)[n] \in Nat /\ NetPart(ndata)[n] \in Nat
    BY <1>1, NetPartType
  <2>2. o = NetPart(odata)[n] /\ m = NetPart(ndata)[n]
    BY <1>1, EvenSum
  <2> QED
    BY <2>1, <2>2
<1>5. y \in Words /\ Congruent(y, (M - w) - o)
  BY <1>1, <1>3, <1>4, OutRight
<1>6. z \in Words /\ Congruent(z, y + m)
  <2> HIDE DEF y, n
  <2> QED
    BY <1>1, <1>4, <1>5, InRight
<1>7. x \in Words /\ x = M - z
  BY <1>6, ComplementRight
<1>8. adjust_checksum(f, odata, ndata) = <<x \div Byte, x % Byte>>
  BY LoopsAre
<1>9. x \div Byte \in Bytes /\ x % Byte \in Bytes /\ Net(x \div Byte, x % Byte) = x
  BY <1>7, WordBytes
<1> HIDE DEF n, w, x, y, z, o, m
<1>10. Congruent(x + m, w + o)
  <2>1. w \in Int /\ y \in Int /\ z \in Int /\ M \in Int /\ o \in Int /\ m \in Int
    BY <1>2, <1>4, <1>5, <1>6, BaseFacts DEF Words
  <2>2. Congruent(z - y, m)
    <3>1. Congruent(z - y, (y + m) - y)
      <4>1. Congruent(y, y) /\ y + m \in Int
        BY <2>1, CongruentNear
      <4> QED
        BY <1>6, <2>1, <4>1, CongruentSum
    <3> QED
      BY <2>1, <3>1
  <2>3. Congruent((z - y) + y, m + ((M - w) - o))
    <3>1. z - y \in Int /\ (M - w) - o \in Int
      BY <2>1
    <3> QED
      BY <1>5, <2>1, <2>2, <3>1, CongruentSum
  <2>4. Congruent((M + m) - z, (M + m) - (m + ((M - w) - o)))
    <3>1. /\ (z - y) + y = z /\ M + m \in Int /\ m + ((M - w) - o) \in Int
          /\ Congruent(M + m, M + m)
      BY <2>1, CongruentNear
    <3>2. Congruent(z, m + ((M - w) - o))
      BY <2>3, <3>1
    <3> QED
      BY <2>1, <3>1, <3>2, CongruentSum
  <2>5. (M + m) - z = x + m /\ (M + m) - (m + ((M - w) - o)) = w + o
    BY <1>7, <2>1
  <2> QED
    BY <2>4, <2>5
<1>11. Congruent(Net(x \div Byte, x % Byte) + m, w + o)
  BY <1>9, <1>10
<1> QED
  BY <1>8, <1>9, <1>11 DEF w, o, m

\* A packet after some of its words were replaced.
Spliced(p, from, ndata) ==
    [i \in 1..Len(p) |->
        IF i \in from..from + Len(ndata) - 1 THEN ndata[i - from + 1] ELSE p[i]]

\* Its sum: what the old words gave is gone, what the new ones give is there.
LEMMA SplicedSum ==
  ASSUME NEW p \in Seq(Bytes), NEW i \in 1..Len(p) \div 2, NEW j \in 1..Len(p) \div 2,
         i <= j, NEW ndata \in [1..2 * (j - i + 1) -> Bytes]
  PROVE  LET odata == SubSeq(p, 2 * i - 1, 2 * i - 1 + Len(ndata) - 1)
             q == Spliced(p, 2 * i - 1, ndata)
         IN  /\ ndata \in Seq(Bytes) /\ odata \in Seq(Bytes) /\ q \in Seq(Bytes)
             /\ Len(q) = Len(p) /\ Len(odata) = Len(ndata) /\ Len(odata) % 2 = 0
             /\ NetSum(q) + NetSum(odata) = NetSum(p) + NetSum(ndata)
<1> DEFINE n == Len(p) \div 2
           a == i - 1
           m == j - i + 1
           odata == SubSeq(p, 2 * i - 1, 2 * i - 1 + Len(ndata) - 1)
           q == Spliced(p, 2 * i - 1, ndata)
<1>1. /\ Len(p) \in Nat /\ n \in Nat /\ a \in Nat /\ m \in Nat /\ m >= 1 /\ a + m <= n
      /\ 2 * n <= Len(p) /\ i = a + 1 /\ j = a + m /\ Len(p) = 2 * n + (Len(p) % 2)
      /\ \A k \in 1..Len(p) : p[k] \in Bytes
  BY PacketWords
<1>2. ndata \in Seq(Bytes) /\ Len(ndata) = 2 * m
  BY <1>1, FunctionIsSeq
<1>3. \A k \in 1..2 * m : ndata[k] \in Bytes
  OBVIOUS
<1> HIDE DEF n, a, m
<1>4. /\ odata \in Seq(Bytes) /\ Len(odata) = 2 * m
      /\ \A k \in 1..2 * m : odata[k] = p[2 * a + k]
  <2>1. odata = SubSeq(p, 2 * a + 1, 2 * a + 2 * m)
    BY <1>1, <1>2
  <2>2. \A k \in 2 * a + 1..2 * a + 2 * m : p[k] \in Bytes
    BY <1>1
  <2>3. /\ SubSeq(p, 2 * a + 1, 2 * a + 2 * m) \in Seq(Bytes)
        /\ Len(SubSeq(p, 2 * a + 1, 2 * a + 2 * m)) = 2 * m
        /\ \A k \in 1..2 * m :
              SubSeq(p, 2 * a + 1, 2 * a + 2 * m)[k] = p[(2 * a + 1) + k - 1]
    <3>1. 2 * a + 1 \in Int /\ 2 * a + 2 * m \in Int /\ 2 * a + 1 <= 2 * a + 2 * m
          /\ (2 * a + 2 * m) - (2 * a + 1) + 1 = 2 * m
      BY <1>1
    <3> QED
      BY <2>2, <3>1, SubSeqProperties
  <2>4. \A k \in 1..2 * m : (2 * a + 1) + k - 1 = 2 * a + k
    BY <1>1
  <2> HIDE DEF odata
  <2> QED
    BY <2>1, <2>3, <2>4
<1>5. /\ q \in Seq(Bytes) /\ Len(q) = Len(p)
      /\ \A k \in 1..2 * n :
            q[k] = IF k \in 2 * a + 1..2 * a + 2 * m THEN ndata[k - 2 * a] ELSE p[k]
      /\ Len(p) % 2 = 1 => q[Len(p)] = p[Len(p)]
  <2>1. q = [k \in 1..Len(p) |->
               IF k \in 2 * a + 1..2 * a + 2 * m THEN ndata[k - 2 * a] ELSE p[k]]
    <3> HIDE DEF odata
    <3>1. 2 * i - 1 = 2 * a + 1 /\ 2 * i - 1 + Len(ndata) - 1 = 2 * a + 2 * m
      BY <1>1, <1>2
    <3>2. \A k \in 1..Len(p) : k - (2 * i - 1) + 1 = k - 2 * a
      BY <1>1
    <3> DEFINE lo == 2 * i - 1
               hi == 2 * i - 1 + Len(ndata) - 1
    <3>3. q = [k \in 1..Len(p) |-> IF k \in lo..hi THEN ndata[k - lo + 1] ELSE p[k]]
      BY Zenon DEF Spliced
    <3>4. \A k \in 1..Len(p) : k - lo + 1 = k - 2 * a
      BY <3>2
    <3>5. lo..hi = 2 * a + 1..2 * a + 2 * m
      BY <3>1
    <3> HIDE DEF lo, hi, q
    <3> QED
      BY <3>3, <3>4, <3>5
  <2>2. ASSUME NEW k \in 1..Len(p), k \in 2 * a + 1..2 * a + 2 * m
        PROVE  k - 2 * a \in 1..2 * m
    BY <1>1, <2>2
  <2>3. q \in [1..Len(p) -> Bytes]
    <3> HIDE DEF q
    <3> QED
      BY <2>1, <2>2, <1>1, <1>3
  <2>4. q \in Seq(Bytes) /\ Len(q) = Len(p)
    <3> HIDE DEF q
    <3> QED
      BY <2>3, <1>1, FunctionIsSeq
  <2>5. Len(p) % 2 = 1 => Len(p) \in 1..Len(p) /\ Len(p) > 2 * a + 2 * m
    BY <1>1
  <2> HIDE DEF q
  <2>6. \A k \in 1..2 * n : k \in 1..Len(p)
    BY <1>1
  <2>7. \A k \in 1..2 * n :
           q[k] = IF k \in 2 * a + 1..2 * a + 2 * m THEN ndata[k - 2 * a] ELSE p[k]
    BY <2>1, <2>6
  <2>8. ASSUME Len(p) % 2 = 1 PROVE q[Len(p)] = p[Len(p)]
    <3>1. Len(p) \in 1..Len(p) /\ ~(Len(p) \in 2 * a + 1..2 * a + 2 * m)
      BY <2>5, <2>8, <1>1
    <3> QED
      BY <2>1, <3>1
  <2> QED
    BY <2>4, <2>7, <2>8
<1> HIDE DEF odata, q
<1> DEFINE P == NetPart(p)
           Q == NetPart(q)
           N == NetPart(ndata)
           O == NetPart(odata)
<1>6. Len(q) \div 2 = n /\ Len(ndata) \div 2 = m /\ Len(odata) \div 2 = m /\ Len(odata) % 2 = 0
      /\ Len(ndata) % 2 = 0
  BY <1>1, <1>2, <1>4, <1>5 DEF n
<1>7. /\ P[0] = 0 /\ Q[0] = 0 /\ N[0] = 0 /\ O[0] = 0
      /\ \A k \in 1..n : P[k] = P[k - 1] + Net(p[2 * k - 1], p[2 * k])
      /\ \A k \in 1..n : Q[k] = Q[k - 1] + Net(q[2 * k - 1], q[2 * k])
      /\ \A k \in 1..m : N[k] = N[k - 1] + Net(ndata[2 * k - 1], ndata[2 * k])
      /\ \A k \in 1..m : O[k] = O[k - 1] + Net(odata[2 * k - 1], odata[2 * k])
      /\ \A k \in 0..n : P[k] \in Nat /\ Q[k] \in Nat
      /\ \A k \in 0..m : N[k] \in Nat /\ O[k] \in Nat
  BY <1>2, <1>4, <1>5, <1>6, NetPartSteps, NetPartType DEF n
<1>8. /\ \A k \in 1..n : Net(p[2 * k - 1], p[2 * k]) \in Nat
      /\ \A k \in 1..m : Net(ndata[2 * k - 1], ndata[2 * k]) \in Nat
      /\ \A k \in 1..m : Net(odata[2 * k - 1], odata[2 * k]) \in Nat
  <2>1. \A x \in Words : x \in Nat
    BY BaseFacts DEF Words
  <2>2. \A k \in 1..Len(p) \div 2 : Net(p[2 * k - 1], p[2 * k]) \in Words
    BY PacketWords
  <2>3. \A k \in 1..Len(ndata) \div 2 : Net(ndata[2 * k - 1], ndata[2 * k]) \in Words
    BY <1>2, PacketWords
  <2>4. \A k \in 1..Len(odata) \div 2 : Net(odata[2 * k - 1], odata[2 * k]) \in Words
    BY <1>4, PacketWords
  <2> QED
    BY <2>1, <2>2, <2>3, <2>4, <1>6 DEF n
<1> HIDE DEF P, Q, N, O
<1> DEFINE D(k) == IF k <= a THEN 0 ELSE IF k <= a + m THEN k - a ELSE m
           S == {k \in Nat : k <= n => Q[k] + O[D(k)] = P[k] + N[D(k)]}
<1>9. 0 \in S
  BY <1>1, <1>7
<1>10. ASSUME NEW k \in Nat, k \in S PROVE k + 1 \in S
  <2> SUFFICES ASSUME k + 1 <= n PROVE Q[k + 1] + O[D(k + 1)] = P[k + 1] + N[D(k + 1)]
    OBVIOUS
  <2> DEFINE h == k + 1
  <2>1. h \in 1..n /\ h - 1 = k /\ k \in 0..n /\ 2 * h - 1 \in 1..2 * n /\ 2 * h \in 1..2 * n
    BY <1>1
  <2>2. Q[k] + O[D(k)] = P[k] + N[D(k)]
    BY <1>10, <2>1
  <2>3. D(k) \in 0..m
    BY <1>1
  <2>4. h = k + 1
    OBVIOUS
  <2> HIDE DEF h
  <2>5. /\ P[h] = P[k] + Net(p[2 * h - 1], p[2 * h])
        /\ Q[h] = Q[k] + Net(q[2 * h - 1], q[2 * h])
        /\ Net(p[2 * h - 1], p[2 * h]) \in Nat
        /\ P[k] \in Nat /\ Q[k] \in Nat /\ N[D(k)] \in Nat /\ O[D(k)] \in Nat
    <3> HIDE DEF D
    <3> QED
      BY <1>7, <1>8, <2>1, <2>3
  <2>6. CASE h <= a \/ h > a + m
    <3>1. D(h) = D(k)
      BY <2>4, <2>6, <1>1
    <3>2. q[2 * h - 1] = p[2 * h - 1] /\ q[2 * h] = p[2 * h]
      BY <1>1, <1>5, <2>1, <2>6
    <3>3. Q[h] + O[D(k)] = P[h] + N[D(k)]
      <4> DEFINE w == Net(p[2 * h - 1], p[2 * h])
                 u == O[D(k)]
                 v == N[D(k)]
      <4>1. Q[h] = Q[k] + w
        BY <2>5, <3>2
      <4>2. /\ P[h] = P[k] + w /\ w \in Nat /\ P[k] \in Nat /\ Q[k] \in Nat
            /\ u \in Nat /\ v \in Nat /\ Q[k] + u = P[k] + v
        BY <2>2, <2>5
      <4> DEFINE x == Q[k]
                 y == P[k]
                 x1 == Q[h]
                 y1 == P[h]
      <4>3. /\ x1 = x + w /\ y1 = y + w /\ w \in Nat /\ x \in Nat /\ y \in Nat
            /\ u \in Nat /\ v \in Nat /\ x + u = y + v
        BY <4>1, <4>2
      <4> HIDE DEF u, v, w, x, y, x1, y1
      <4>4. x1 + u = y1 + v
        BY <4>3
      <4> QED
        BY <4>4 DEF u, v, x1, y1
    <3> QED
      BY <3>1, <3>3, <2>4
  <2>7. CASE h > a /\ h <= a + m
    <3> DEFINE b == h - a
    <3>1. /\ D(h) = b /\ D(k) = b - 1 /\ b \in 1..m
          /\ 2 * b - 1 \in 1..2 * m /\ 2 * b \in 1..2 * m
          /\ 2 * a + (2 * b - 1) = 2 * h - 1 /\ 2 * a + 2 * b = 2 * h
          /\ (2 * h - 1) - 2 * a = 2 * b - 1 /\ 2 * h - 2 * a = 2 * b
      BY <2>4, <2>7, <1>1
    <3>2. q[2 * h - 1] = ndata[2 * b - 1] /\ q[2 * h] = ndata[2 * b]
      <4>1. 2 * h - 1 \in 2 * a + 1..2 * a + 2 * m /\ 2 * h \in 2 * a + 1..2 * a + 2 * m
        BY <2>7, <2>1, <1>1
      <4> HIDE DEF b
      <4> QED
        BY <4>1, <3>1, <1>5, <2>1
    <3>3. odata[2 * b - 1] = p[2 * h - 1] /\ odata[2 * b] = p[2 * h]
      <4> HIDE DEF b
      <4>1. odata[2 * b - 1] = p[2 * a + (2 * b - 1)] /\ odata[2 * b] = p[2 * a + 2 * b]
        BY <3>1, <1>4
      <4> QED
        BY <4>1, <3>1
    <3> HIDE DEF b, D
    <3>4. /\ N[b] = N[b - 1] + Net(ndata[2 * b - 1], ndata[2 * b])
          /\ O[b] = O[b - 1] + Net(odata[2 * b - 1], odata[2 * b])
          /\ Net(ndata[2 * b - 1], ndata[2 * b]) \in Nat
      BY <1>7, <1>8, <3>1
    <3>5. /\ Q[h] = Q[k] + Net(ndata[2 * b - 1], ndata[2 * b])
          /\ O[b] = O[b - 1] + Net(p[2 * h - 1], p[2 * h])
      BY <2>5, <3>2, <3>3, <3>4
    <3>6. Q[k] + O[b - 1] = P[k] + N[b - 1] /\ N[b - 1] \in Nat /\ O[b - 1] \in Nat
      BY <2>2, <2>5, <3>1
    <3>7. Q[h] + O[b] = P[h] + N[b]
      <4> DEFINE w == Net(ndata[2 * b - 1], ndata[2 * b])
                 v == Net(p[2 * h - 1], p[2 * h])
                 u == O[b - 1]
                 t == N[b - 1]
      <4>1. /\ Q[h] = Q[k] + w /\ P[h] = P[k] + v /\ O[b] = u + v /\ N[b] = t + w
            /\ Q[k] + u = P[k] + t /\ w \in Nat /\ v \in Nat /\ u \in Nat /\ t \in Nat
            /\ P[k] \in Nat /\ Q[k] \in Nat
        BY <2>5, <3>4, <3>5, <3>6
      <4> DEFINE x == Q[k]
                 y == P[k]
                 x1 == Q[h]
                 y1 == P[h]
                 u1 == O[b]
                 t1 == N[b]
      <4>2. /\ x1 = x + w /\ y1 = y + v /\ u1 = u + v /\ t1 = t + w /\ x + u = y + t
            /\ w \in Nat /\ v \in Nat /\ u \in Nat /\ t \in Nat /\ x \in Nat /\ y \in Nat
        BY <4>1
      <4> HIDE DEF u, v, w, t, x, y, x1, y1, u1, t1
      <4>3. x1 + u1 = y1 + t1
        BY <4>2
      <4> QED
        BY <4>3 DEF x1, y1, u1, t1
    <3> QED
      BY <3>1, <3>7, <2>4
  <2> QED
    BY <2>1, <2>6, <2>7, <1>1
<1> HIDE DEF S
<1>11. \A k \in Nat : k \in S
  BY <1>9, <1>10, SetInduction
<1>12. Q[n] + O[m] = P[n] + N[m]
  <2>1. D(n) = m
    BY <1>1
  <2>2. Q[n] + O[D(n)] = P[n] + N[D(n)]
    <3> HIDE DEF D
    <3> QED
      BY <1>1, <1>11 DEF S
  <2> QED
    BY <2>1, <2>2
<1>13. NetSum(q) + NetSum(odata) = NetSum(p) + NetSum(ndata)
  <2> DEFINE e == IF Len(p) % 2 = 1 THEN Net(p[Len(p)], 0) ELSE 0
  <2>1. /\ NetSum(p) = P[n] + e /\ NetSum(q) = Q[n] + e
        /\ NetSum(odata) = O[m] /\ NetSum(ndata) = N[m]
    <3>1. NetSum(p) = P[n] + e
      BY LoopsAre DEF P, n
    <3>2. NetSum(q) = Q[n] + e
      <4>1. NetSum(q) = Q[Len(q) \div 2] + (IF Len(q) % 2 = 1 THEN Net(q[Len(q)], 0) ELSE 0)
        BY LoopsAre DEF Q
      <4> QED
        BY <4>1, <1>5, <1>6
    <3>3. NetSum(odata) = O[m] /\ NetSum(ndata) = N[m]
      BY <1>2, <1>4, <1>6, EvenSum DEF O, N
    <3> QED
      BY <3>1, <3>2, <3>3
  <2>2. e \in Nat
    BY OddByte
  <2>3. P[n] \in Nat /\ Q[n] \in Nat /\ N[m] \in Nat /\ O[m] \in Nat
    BY <1>1, <1>7
  <2> DEFINE x == Q[n]
             y == P[n]
             u == O[m]
             v == N[m]
  <2>4. x + u = y + v /\ e \in Nat /\ x \in Nat /\ y \in Nat /\ u \in Nat /\ v \in Nat
    BY <1>12, <2>2, <2>3
  <2> HIDE DEF e, x, y, u, v
  <2>5. (x + e) + u = (y + e) + v
    BY <2>4
  <2>6. (Q[n] + e) + O[m] = (P[n] + e) + N[m]
    BY <2>5 DEF x, y, u, v
  <2> QED
    BY <2>1, <2>6
<1> QED
  BY <1>2, <1>4, <1>5, <1>6, <1>13 DEF odata, q

-----------------------------------------------------------------------------
\* The packets whose sum checksum takes without a carry out of the unsigned
\* int: less than 2 * Base bytes, 128 KiB in the code.
ShortPackets == MaxLen < 2 * Base

\* The inductive invariant: FieldIsRight, as a congruence.
FieldInv ==
    /\ TypeOK
    /\ Len(data) <= MaxLen
    /\ Congruent(NetSum(data) + Net(sum[1], sum[2]), 0)

\* What checksum stores makes the sum right: Init reads the result in the
\* other byte order, which multiplies the sum by Byte modulo M.
LEMMA FirstField ==
  ASSUME NEW p \in Seq(Bytes), Len(p) \div 2 <= Base
  PROVE  LET c == checksum(p)
         IN  Congruent(NetSum(p) + Net(c % Byte, c \div Byte), 0)
<1> DEFINE c == checksum(p)
           w == Net(c % Byte, c \div Byte)
           t == NetSum(p)
<1>1. c \in Words /\ Congruent(c + Byte * t, 0) /\ t \in Nat
  BY ChecksumRight, NetSumType
<1>2. c % Byte \in Bytes /\ c \div Byte \in Bytes /\ Host(c % Byte, c \div Byte) = c
  <2> HIDE DEF c
  <2> QED
    BY <1>1, WordBytes
<1>3. Congruent(Byte * w, c)
  <2> HIDE DEF c
  <2>1. Congruent(Byte * w, Host(c % Byte, c \div Byte))
    BY <1>2, ByteOrder
  <2> QED
    BY <1>2, <2>1
<1>4. w \in Int /\ Byte \in Int /\ c \in Int
  <2> HIDE DEF c
  <2> QED
    BY <1>1, <1>2, ChecksumAssumption, BaseFacts DEF Net, Bytes, Words
<1> DEFINE a == Byte * w
           b == Byte * t
           r == t + w
<1>5. a \in Int /\ b \in Int /\ r \in Int
  <2> HIDE DEF w, t
  <2> QED
    BY <1>1, <1>4
<1>6. Congruent(b + a, 0)
  <2>1. Congruent(c + b, 0)
    BY <1>1
  <2> HIDE DEF a, b, c
  <2>2. Congruent(a - c, c - c) /\ Congruent((a - c) + (c + b), (c - c) + 0)
    <3>1. Congruent(c, c)
      BY <1>4, CongruentNear
    <3>2. Congruent(a - c, c - c)
      BY <1>3, <1>4, <1>5, <3>1, CongruentSum DEF a
    <3>3. a - c \in Int /\ c - c \in Int /\ c + b \in Int /\ 0 \in Int
      BY <1>4, <1>5
    <3> QED
      BY <2>1, <3>2, <3>3, CongruentSum
  <2>3. (a - c) + (c + b) = b + a /\ (c - c) + 0 = 0
    BY <1>4, <1>5
  <2> QED
    BY <2>2, <2>3
<1>7. Congruent(Byte * r, 0)
  <2>1. Byte * r = b + a
    <3> HIDE DEF w, t
    <3> QED
      BY <1>1, <1>4
  <2> QED
    BY <1>6, <2>1
<1> HIDE DEF a, b, r
<1>8. Byte * r \in Int /\ Congruent(Byte * (Byte * r), 0)
  <2>1. Byte * r \in Int
    BY <1>4, <1>5
  <2> QED
    BY <1>4, <1>7, <2>1, TimesZero
<1>9. Byte * (Byte * r) = r + r * M
  <2>1. Byte * (Byte * r) = (Byte * Byte) * r
    BY <1>4, <1>5
  <2>2. Byte * Byte = M + 1 /\ M \in Int
    BY BaseFacts DEF M, Base
  <2>3. (M + 1) * r = r + r * M
    BY <1>5, <2>2
  <2> QED
    BY <2>1, <2>2, <2>3
<1>10. Congruent(r, 0)
  <2> DEFINE e == Byte * (Byte * r)
  <2>1. e \in Int /\ e = r + r * M /\ 0 \in Int
    BY <1>4, <1>8, <1>9
  <2>2. Congruent(e, r)
    BY <1>5, <2>1, CongruentIs
  <2>3. Congruent(e, 0)
    BY <1>8
  <2> HIDE DEF e
  <2>4. Congruent(r, e)
    BY <1>5, <2>1, <2>2, CongruentTurn
  <2> QED
    BY <1>5, <2>1, <2>3, <2>4, CongruentChain
<1> QED
  BY <1>10 DEF r

\* Init: a packet and the field that checksum gives it.
LEMMA InitType ==
  ASSUME Init
  PROVE  /\ TypeOK /\ Len(data) <= MaxLen
         /\ sum = <<checksum(data) % Byte, checksum(data) \div Byte>>
<1>1. PICK n \in 0..MaxLen : data \in [1..n -> Bytes]
  BY DEF Init
<1>2. n \in Nat
  BY ChecksumAssumption
<1>3. data \in Seq(Bytes) /\ Len(data) = n
  BY <1>1, <1>2, FunctionIsSeq
<1>4. sum = <<checksum(data) % Byte, checksum(data) \div Byte>>
  BY DEF Init
<1>5. checksum(data) % Byte \in Bytes /\ checksum(data) \div Byte \in Bytes
  <2>1. checksum(data) \in Words
    BY <1>3, ChecksumRight
  <2> QED
    BY <2>1, WordBytes
<1> QED
  BY <1>1, <1>3, <1>4, <1>5 DEF TypeOK

\* A rewrite keeps the length of the packet, and the field loses what the sum
\* of the packet gains.
LEMMA RewriteKeeps ==
  ASSUME TypeOK, Next
  PROVE  /\ TypeOK' /\ Len(data') = Len(data)
         /\ Congruent(NetSum(data') + Net(sum'[1], sum'[2]),
                      NetSum(data) + Net(sum[1], sum[2]))
<1>1. PICK i \in 1..Len(data) \div 2, j \in 1..Len(data) \div 2 :
         i <= j /\ \E ndata \in [1..2 * (j - i + 1) -> Bytes] : Rewrite(2 * i - 1, ndata)
  BY DEF Next
<1>2. PICK ndata \in [1..2 * (j - i + 1) -> Bytes] : Rewrite(2 * i - 1, ndata)
  BY <1>1
<1> DEFINE odata == SubSeq(data, 2 * i - 1, 2 * i - 1 + Len(ndata) - 1)
           q == Spliced(data, 2 * i - 1, ndata)
           g == adjust_checksum(sum, odata, ndata)
<1>3. data' = q /\ sum' = g
  BY <1>2 DEF Rewrite, Spliced
<1>4. data \in Seq(Bytes) /\ sum \in Bytes \X Bytes
  BY DEF TypeOK
<1>5. /\ ndata \in Seq(Bytes) /\ odata \in Seq(Bytes) /\ q \in Seq(Bytes)
      /\ Len(q) = Len(data) /\ Len(odata) = Len(ndata) /\ Len(odata) % 2 = 0
      /\ NetSum(q) + NetSum(odata) = NetSum(data) + NetSum(ndata)
  BY <1>1, <1>4, SplicedSum
<1> HIDE DEF odata, q
<1>6. /\ g \in Bytes \X Bytes
      /\ Congruent(Net(g[1], g[2]) + NetSum(ndata), Net(sum[1], sum[2]) + NetSum(odata))
  BY <1>4, <1>5, AdjustRight
<1> DEFINE w == Net(g[1], g[2])
           v == Net(sum[1], sum[2])
           a == NetSum(data)
           b == NetSum(q)
           o == NetSum(odata)
           m == NetSum(ndata)
<1>7. w \in Int /\ v \in Int
  <2> HIDE DEF g
  <2>1. w \in Words /\ v \in Words
    BY <1>4, <1>6, FieldInFront
  <2> QED
    BY <2>1, BaseFacts DEF Words
<1>8. a \in Int /\ b \in Int /\ o \in Int /\ m \in Int /\ b + o = a + m
  BY <1>4, <1>5, NetSumType
<1>9. Congruent(w + m, v + o)
  BY <1>6
<1> HIDE DEF w, v, a, b, o, m
<1>10. Congruent(b + w, a + v)
  <2>1. Congruent((w + m) + (b - m), (v + o) + (b - m))
    <3>1. w + m \in Int /\ v + o \in Int /\ b - m \in Int
      BY <1>7, <1>8
    <3>2. Congruent(b - m, b - m)
      BY <3>1, CongruentNear
    <3> QED
      BY <1>9, <3>1, <3>2, CongruentSum
  <2>2. (w + m) + (b - m) = b + w /\ (v + o) + (b - m) = a + v
    BY <1>7, <1>8
  <2> QED
    BY <2>1, <2>2
<1>11. Congruent(NetSum(data') + Net(sum'[1], sum'[2]), NetSum(data) + Net(sum[1], sum[2]))
  <2> HIDE DEF g
  <2> QED
    BY <1>3, <1>10 DEF w, v, a, b
<1>12. data' \in Seq(Bytes) /\ sum' \in Bytes \X Bytes
  BY <1>3, <1>5, <1>6
<1> QED
  BY <1>3, <1>5, <1>11, <1>12 DEF TypeOK

\* Packet and field are bytes, whatever is rewritten.
THEOREM TypeCorrect == Spec => []TypeOK
<1>1. Init => TypeOK
  BY InitType
<1>2. TypeOK /\ [Next]_vars => TypeOK'
  <2>1. ASSUME TypeOK, UNCHANGED vars PROVE TypeOK'
    BY <2>1 DEF vars, TypeOK
  <2> QED
    BY <2>1, RewriteKeeps
<1> QED
  BY <1>1, <1>2, PTL DEF Spec

\* For packets of less than 2 * Base bytes the invariant holds from checksum
\* on through every adjust_checksum.
THEOREM FieldInvariant == ShortPackets => (Spec => []FieldInv)
<1> SUFFICES ASSUME ShortPackets PROVE Spec => []FieldInv
  OBVIOUS
<1>1. Init => FieldInv
  <2> SUFFICES ASSUME Init PROVE FieldInv
    OBVIOUS
  <2>1. /\ TypeOK /\ Len(data) <= MaxLen
        /\ sum = <<checksum(data) % Byte, checksum(data) \div Byte>>
    BY InitType
  <2>2. data \in Seq(Bytes) /\ Len(data) \in Nat
    BY <2>1, LenProperties DEF TypeOK
  <2>3. Len(data) \div 2 <= Base
    BY <2>1, <2>2, ChecksumAssumption, BaseFacts DEF ShortPackets
  <2>4. Congruent(NetSum(data) + Net(sum[1], sum[2]), 0)
    <3> DEFINE c == checksum(data)
    <3>1. Congruent(NetSum(data) + Net(c % Byte, c \div Byte), 0)
      BY <2>2, <2>3, FirstField
    <3>2. sum[1] = c % Byte /\ sum[2] = c \div Byte
      BY <2>1
    <3> QED
      BY <3>1, <3>2
  <2> QED
    BY <2>1, <2>4 DEF FieldInv
<1>2. FieldInv /\ [Next]_vars => FieldInv'
  <2> SUFFICES ASSUME FieldInv, [Next]_vars PROVE FieldInv'
    OBVIOUS
  <2>1. CASE Next
    <3> DEFINE r == NetSum(data) + Net(sum[1], sum[2])
               t == NetSum(data') + Net(sum'[1], sum'[2])
    <3>1. TypeOK' /\ Len(data') = Len(data) /\ Congruent(t, r)
      BY <2>1, RewriteKeeps DEF FieldInv
    <3>2. Congruent(r, 0)
      BY DEF FieldInv
    <3>3. r \in Int
      <4>1. data \in Seq(Bytes) /\ sum \in Bytes \X Bytes
        BY DEF FieldInv, TypeOK
      <4>2. NetSum(data) \in Nat /\ Net(sum[1], sum[2]) \in Words
        BY <4>1, NetSumType, FieldInFront
      <4> QED
        BY <4>2, BaseFacts DEF Words
    <3>4. t \in Int
      <4>1. data' \in Seq(Bytes) /\ sum' \in Bytes \X Bytes
        BY <3>1 DEF TypeOK
      <4>2. NetSum(data') \in Nat /\ Net(sum'[1], sum'[2]) \in Words
        BY <4>1, NetSumType, FieldInFront
      <4> QED
        BY <4>2, BaseFacts DEF Words
    <3> HIDE DEF r, t
    <3>5. Congruent(t, 0)
      <4>1. 0 \in Int
        OBVIOUS
      <4> QED
        BY <3>1, <3>2, <3>3, <3>4, <4>1, CongruentChain
    <3>6. Len(data') <= MaxLen
      BY <3>1 DEF FieldInv
    <3> QED
      BY <3>1, <3>5, <3>6 DEF FieldInv, t
  <2>2. CASE UNCHANGED vars
    <3>1. TypeOK' /\ data' = data /\ sum' = sum
      BY <2>2 DEF vars, FieldInv, TypeOK
    <3> QED
      BY <3>1 DEF FieldInv
  <2> QED
    BY <2>1, <2>2
<1> QED
  BY <1>1, <1>2, PTL DEF Spec

\* The field is right after checksum and after every adjust_checksum.
THEOREM FieldAlwaysRight == ShortPackets => (Spec => []FieldIsRight)
<1>1. FieldInv => FieldIsRight
  <2> SUFFICES ASSUME FieldInv PROVE FieldIsRight
    OBVIOUS
  <2> DEFINE r == NetSum(data) + Net(sum[1], sum[2])
  <2>1. data \in Seq(Bytes) /\ sum \in Bytes \X Bytes /\ Congruent(r, 0)
    BY DEF FieldInv, TypeOK
  <2>2. NetSum(data) \in Nat /\ Net(sum[1], sum[2]) \in Words
    BY <2>1, NetSumType, FieldInFront
  <2>3. r \in Int
    BY <2>2, BaseFacts DEF Words
  <2> HIDE DEF r
  <2>4. r % M = 0
    BY <2>1, <2>3, CongruentZero
  <2> QED
    BY <2>4 DEF FieldIsRight, M, r
<1> QED
  BY <1>1, FieldInvariant, PTL

\* A receiver that runs checksum over field and packet gets 0.
THEOREM ReceiverAlwaysAccepts == ShortPackets => (Spec => []ReceiverAccepts)
<1> SUFFICES ASSUME ShortPackets PROVE Spec => []ReceiverAccepts
  OBVIOUS
<1>1. FieldInv => ReceiverAccepts
  <2> SUFFICES ASSUME FieldInv, NEW i \in 1..Len(data), data[i] # 0
               PROVE  checksum(sum \o data) = 0
    BY DEF ReceiverAccepts
  <2> DEFINE q == sum \o data
  <2>1. /\ data \in Seq(Bytes) /\ sum \in Bytes \X Bytes /\ Len(data) <= MaxLen
        /\ Congruent(NetSum(data) + Net(sum[1], sum[2]), 0)
    BY DEF FieldInv, TypeOK
  <2>2. /\ q \in Seq(Bytes) /\ Len(q) = Len(data) + 2 /\ q[i + 2] = data[i]
        /\ Net(sum[1], sum[2]) \in Words
        /\ NetSum(q) = Net(sum[1], sum[2]) + NetSum(data)
    BY <2>1, FieldInFront
  <2>3. Len(data) \in Nat /\ NetSum(data) \in Nat
    BY <2>1, NetSumType, LenProperties
  <2> HIDE DEF q
  <2>4. Congruent(NetSum(q), 0)
    <3>1. Net(sum[1], sum[2]) \in Int
      BY <2>2, BaseFacts DEF Words
    <3> DEFINE u == Net(sum[1], sum[2])
               v == NetSum(data)
    <3>2. u + v = v + u
      <4>1. u \in Int /\ v \in Int
        BY <2>3, <3>1
      <4> HIDE DEF u, v
      <4> QED
        BY <4>1
    <3> QED
      BY <2>1, <2>2, <3>2
  <2>5. Len(q) \div 2 <= Base /\ i + 2 \in 1..Len(q) /\ q[i + 2] # 0
    <3>1. Len(q) <= 2 * Base + 1 /\ Len(q) \in Nat
      BY <2>1, <2>2, <2>3, ChecksumAssumption, BaseFacts DEF ShortPackets
    <3>2. Len(q) \div 2 <= Base
      BY <3>1, BaseFacts
    <3> QED
      BY <2>2, <2>3, <3>2
  <2>6. checksum(q) = 0
    BY <2>2, <2>4, <2>5, RightIsAccepted
  <2> QED
    BY <2>6 DEF q
<1> QED
  BY <1>1, FieldInvariant, PTL
=============================================================================
