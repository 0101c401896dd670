--------------------------- MODULE FramePathProofs ---------------------------
(***************************************************************************)
(* Proofs about the way of a bus frame, for buffers of any size that the   *)
(* framer's bytes can count, any frames on the bus, and a reader that gets *)
(* the bytes of the line in pieces of any size.                            *)
(*                                                                         *)
(* Checksums, the bytes of several frames in a row, and what the reader    *)
(* makes of several bytes are folds.  The first two sections give them in  *)
(* steps of one byte, by induction on sets of numbers.                     *)
(***************************************************************************)
EXTENDS FramePath, SequenceTheorems, WellFoundedInduction, TLAPS

-----------------------------------------------------------------------------
(* Numbers *)

\* A set of numbers has a least element.
LEMMA LeastElement ==
    ASSUME NEW T, T \subseteq Nat, T # {}
    PROVE  \E n \in T : \A m \in T : n <= m
<1> DEFINE Less == {pair \in Nat \X Nat : pair[1] < pair[2]}
<1>1. IsWellFoundedOn(Less, Nat)
  BY NatLessThanWellFounded DEF OpToRel
<1>2. \A m, n \in Nat : <<m, n>> \in Less <=> m < n
  OBVIOUS
<1> HIDE DEF Less
<1>3. PICK n \in T : \A m \in T : ~ (<<m, n>> \in Less)
  BY <1>1, WFMin
<1>4. \A m \in T : ~ (m < n)
  BY <1>2, <1>3
<1>5. \A i, j \in Nat : ~ (i < j) => j <= i
  OBVIOUS
<1> QED BY <1>4, <1>5

\* Induction up to n, on the set of the numbers for which something holds.
LEMMA UpTo ==
    ASSUME NEW n \in Nat, NEW S, 0 \in S,
           \A k \in 0..n : k \in S /\ k # n => k + 1 \in S
    PROVE  0..n \subseteq S
<1> SUFFICES ASSUME (0..n) \ S # {} PROVE FALSE
  OBVIOUS
<1>1. PICK k \in (0..n) \ S : \A m \in (0..n) \ S : k <= m
  BY LeastElement, (0..n) \ S \subseteq Nat
<1>2. k - 1 \in 0..n /\ k - 1 \in S /\ k - 1 # n
  BY <1>1
<1> QED BY <1>1, <1>2

\* A position of the ring that has run past its end, or is counted backwards.
LEMMA Modulo ==
    ASSUME NEW n \in Nat \ {0}, NEW a \in Int
    PROVE  /\ a \in 0..n - 1 => a % n = a
           /\ a \in n..2 * n - 1 => a % n = a - n
           /\ a \in -n..-1 => a % n = a + n
OBVIOUS

-----------------------------------------------------------------------------
(* Folds *)

\* The recursive function by which a fold from the left is defined, for a step that is
\* given as a function.
FoldOf(f, base, step, seq) ==
    f = [s \in SUBSET (1..Len(seq)) |->
           IF s = {} THEN base ELSE step[<<f[s \ {Max(s)}], seq[Max(s)]>>]]

\* It exists.
LEMMA FoldExists ==
    ASSUME NEW V, NEW base \in V, NEW A, NEW step \in [V \X A -> V],
           NEW seq \in Seq(A)
    PROVE  \E f \in [SUBSET (1..Len(seq)) -> V] : FoldOf(f, base, step, seq)
<1> DEFINE n == Len(seq)
           Fold(f, k) == \A s \in SUBSET (1..k) :
                           f[s] = IF s = {} THEN base
                                  ELSE step[<<f[s \ {Max(s)}], seq[Max(s)]>>]
           Folds(k) == [SUBSET (1..k) -> V]
           Exists(k) == \E f \in Folds(k) : Fold(f, k)
           S == {k \in 0..n : Exists(k)}
<1>1. n \in Nat /\ DOMAIN seq = 1..n /\ \A k \in 1..n : seq[k] \in A
  OBVIOUS
<1>2. 0 \in S
  <2> DEFINE f == [s \in SUBSET (1..0) |-> base]
  <2>1. f \in [SUBSET (1..0) -> V] /\ 1..0 = {}
    OBVIOUS
  <2>2. Fold(f, 0)
    BY <2>1
  <2> HIDE DEF f, Fold
  <2>3. Exists(0)
    BY <2>1, <2>2
  <2> HIDE DEF Exists, n
  <2> QED BY <1>1, <2>3
<1>3. ASSUME NEW k \in 0..n, k \in S, k # n PROVE k + 1 \in S
  <2>0. Exists(k)
    BY <1>3
  <2>1. PICK f \in [SUBSET (1..k) -> V] : Fold(f, k)
    <3> HIDE DEF Fold
    <3> QED BY <2>0
  <2>2. k + 1 \in 1..n /\ seq[k + 1] \in A /\ k \in Nat
    <3> HIDE DEF S, n, Fold, Exists
    <3> QED BY <1>1, <1>3
  <2> DEFINE g == [s \in SUBSET (1..k + 1) |->
                     IF k + 1 \in s THEN step[<<f[s \ {k + 1}], seq[k + 1]>>] ELSE f[s]]
  <2>3. ASSUME NEW s \in SUBSET (1..k + 1)
        PROVE  /\ k + 1 \notin s => s \in SUBSET (1..k)
               /\ s \ {k + 1} \in SUBSET (1..k)
               /\ k + 1 \in s => Max(s) = k + 1
    <3>1. \A i \in 1..k + 1 : i \in Int /\ (i # k + 1 => i \in 1..k) /\ i <= k + 1
      BY <2>2
    <3>2. k + 1 \in s => \A x \in s : (\A y \in s : x >= y) <=> x = k + 1
      BY <2>2, <3>1
    <3>3. k + 1 \in s => Max(s) = k + 1
      BY <3>2 DEF Max
    <3> QED BY <3>1, <3>3
  <2>4. g \in Folds(k + 1)
    BY <2>2, <2>3
  <2>5. \A s \in SUBSET (1..k + 1) : k + 1 \notin s => g[s] = f[s]
    OBVIOUS
  <2>6. \A s \in SUBSET (1..k + 1) : \A x : k + 1 \notin s =>
           /\ s \ {x} \in SUBSET (1..k + 1) /\ k + 1 \notin s \ {x}
    OBVIOUS
  <2> HIDE DEF g
  <2>7. Fold(g, k + 1)
    <3> SUFFICES ASSUME NEW s \in SUBSET (1..k + 1)
                 PROVE  g[s] = IF s = {} THEN base
                               ELSE step[<<g[s \ {Max(s)}], seq[Max(s)]>>]
      OBVIOUS
    <3>1. CASE k + 1 \in s
      <4>1. s \ {k + 1} \in SUBSET (1..k + 1) /\ k + 1 \notin s \ {k + 1}
        OBVIOUS
      <4>2. g[s] = step[<<f[s \ {k + 1}], seq[k + 1]>>]
        BY <3>1 DEF g
      <4>3. g[s \ {k + 1}] = f[s \ {k + 1}]
        BY <4>1, <2>5
      <4>4. Max(s) = k + 1
        BY <2>3, <3>1
      <4> QED BY <3>1, <4>2, <4>3, <4>4
    <3>2. CASE k + 1 \notin s
      <4>1. g[s] = f[s] /\ g[s \ {Max(s)}] = f[s \ {Max(s)}]
        BY <3>2, <2>5, <2>6
      <4>2. s \in SUBSET (1..k)
        BY <2>3, <3>2
      <4> QED BY <2>1, <4>1, <4>2
    <3> QED BY <3>1, <3>2
  <2> HIDE DEF Fold
  <2>8. Exists(k + 1)
    <3> HIDE DEF Fold, Folds
    <3> QED BY <2>4, <2>7
  <2> HIDE DEF Exists, n
  <2> QED BY <1>1, <2>2, <2>8
<1>4. 0..n \subseteq S
  <2> HIDE DEF S, n
  <2> QED BY <1>1, <1>2, <1>3, UpTo
<1>5. Exists(n)
  <2> HIDE DEF Exists, n
  <2> QED BY <1>1, <1>4
<1>6. PICK f \in [SUBSET (1..n) -> V] : Fold(f, n)
  <2> HIDE DEF Fold
  <2> QED BY <1>5
<1> QED BY <1>1, <1>6 DEF FoldOf

\* The greatest of some numbers up to n, and of all of them.
LEMMA MaxIs ==
    ASSUME NEW n \in Nat
    PROVE  /\ \A s \in SUBSET (1..n) : s # {} => Max(s) \in s
           /\ \A k \in 1..n : Max(1..k) = k
           /\ \A k \in 1..n : (1..k) \ {k} = 1..k - 1
<1>1. ASSUME NEW s \in SUBSET (1..n), s # {} PROVE Max(s) \in s
  <2> DEFINE T == {n - x : x \in s}
  <2>1. T \subseteq Nat /\ T # {}
    <3>1. \A x \in 1..n : n - x \in Nat
      OBVIOUS
    <3>2. \A x \in s : x \in 1..n
      OBVIOUS
    <3> QED BY <1>1, <3>1, <3>2
  <2>2. PICK m \in T : \A i \in T : m <= i
    BY <2>1, LeastElement
  <2>3. PICK x \in s : m = n - x
    BY <2>2
  <2>4. \A y \in s : x >= y
    <3>1. \A y \in s : n - x <= n - y /\ y \in Nat /\ x \in Nat
      BY <2>2, <2>3
    <3> QED BY <3>1
  <2> QED BY <2>4 DEF Max
<1>2. ASSUME NEW k \in 1..n PROVE Max(1..k) = k
  <2>1. \A x \in 1..k : (\A y \in 1..k : x >= y) <=> x = k
    OBVIOUS
  <2> QED BY <2>1 DEF Max
<1>3. \A k \in 1..n : (1..k) \ {k} = 1..k - 1
  OBVIOUS
<1> QED BY <1>1, <1>2, <1>3

\* The values a fold goes through.
RunOf(run, base, step, seq) ==
    /\ run[0] = base
    /\ \A k \in 1..Len(seq) : run[k] = step[<<run[k - 1], seq[k]>>]

\* They exist.
LEMMA RunExists ==
    ASSUME NEW V, NEW base \in V, NEW A, NEW step \in [V \X A -> V],
           NEW seq \in Seq(A)
    PROVE  \E run \in [0..Len(seq) -> V] : RunOf(run, base, step, seq)
<1> DEFINE n == Len(seq)
<1>1. n \in Nat /\ DOMAIN seq = 1..n
  OBVIOUS
<1>0. PICK f \in [SUBSET (1..n) -> V] : FoldOf(f, base, step, seq)
  BY FoldExists
<1>2. f = [s \in SUBSET (1..n) |->
             IF s = {} THEN base ELSE step[<<f[s \ {Max(s)}], seq[Max(s)]>>]]
  BY <1>0 DEF FoldOf
<1> DEFINE run == [k \in 0..n |-> f[1..k]]
<1>3. \A k \in 0..n : 1..k \in SUBSET (1..n)
  BY <1>1
<1>4. run \in [0..n -> V]
  BY <1>3
<1>5. run[0] = base
  <2>1. 1..0 = {} /\ 0 \in 0..n
    BY <1>1
  <2>2. f[{}] = base
    BY <1>2
  <2> QED BY <2>1, <2>2
<1>6. ASSUME NEW k \in 1..n PROVE run[k] = step[<<run[k - 1], seq[k]>>]
  <2>1. k \in 0..n /\ k - 1 \in 0..n /\ 1 \in 1..k
    <3> HIDE DEF n
    <3> QED BY <1>1
  <2>2. Max(1..k) = k /\ (1..k) \ {k} = 1..k - 1
    BY <1>1, MaxIs
  <2>3. f[1..k] = step[<<f[(1..k) \ {Max(1..k)}], seq[Max(1..k)]>>]
    BY <1>2, <1>3, <2>1
  <2> QED BY <2>1, <2>2, <2>3
<1> HIDE DEF run
<1>7. RunOf(run, base, step, seq)
  BY <1>5, <1>6 DEF RunOf
<1> QED BY <1>4, <1>7

-----------------------------------------------------------------------------
(* The checksum *)

\* It is computed byte by byte.
LEMMA XorRun ==
    ASSUME NEW data \in Seq(Byte)
    PROVE  \E run \in [0..Len(data) -> Byte] :
             /\ run[0] = 0
             /\ \A k \in 1..Len(data) : run[k] = Xor8(run[k - 1], data[k])
             /\ RunningXor(data) = run[Len(data)]
<1> DEFINE n == Len(data)
           step == [x \in Byte \X Byte |-> Xor8(x[1], x[2])]
           XorFold(f) ==
             f = [s \in SUBSET (1..n) |->
                    IF s = {} THEN 0 ELSE Xor8(f[s \ {Max(s)}], data[Max(s)])]
           fold == CHOOSE f : XorFold(f)
           run == [k \in 0..n |-> fold[1..k]]
<1>1. n \in Nat /\ DOMAIN data = 1..n /\ \A k \in 1..n : data[k] \in Byte
  OBVIOUS
<1>2. RunningXor(data) = fold[1..n]
  BY <1>1 DEF RunningXor, FoldLeft, MapThenFoldSet
<1>3. step \in [Byte \X Byte -> Byte] /\ 0 \in Byte
  <2>1. 0 \in Byte
    BY DEF Byte
  <2> QED BY <2>1, XorAssumption
<1>4. \A a, b \in Byte : step[<<a, b>>] = Xor8(a, b)
  OBVIOUS
<1> HIDE DEF step
<1>5. \E f : XorFold(f)
  <2>0. PICK f \in [SUBSET (1..n) -> Byte] : FoldOf(f, 0, step, data)
    BY <1>3, FoldExists
  <2>1. f = [s \in SUBSET (1..n) |->
               IF s = {} THEN 0 ELSE step[<<f[s \ {Max(s)}], data[Max(s)]>>]]
    BY <2>0 DEF FoldOf
  <2>2. \A s \in SUBSET (1..n) : s # {} =>
          /\ data[Max(s)] \in Byte /\ f[s \ {Max(s)}] \in Byte
    <3> HIDE DEF n
    <3> QED BY <1>1, MaxIs
  <2>3. \A s \in SUBSET (1..n) : s # {} =>
          step[<<f[s \ {Max(s)}], data[Max(s)]>>] = Xor8(f[s \ {Max(s)}], data[Max(s)])
    BY <1>4, <2>2
  <2>4. XorFold(f)
    BY <2>1, <2>3
  <2> HIDE DEF XorFold
  <2> QED BY <2>4
<1>6. XorFold(fold)
  <2> HIDE DEF XorFold
  <2> QED BY <1>5
<1> HIDE DEF fold
<1>7. fold[{}] = 0 /\ 1..0 = {}
  BY <1>6
<1>8. ASSUME NEW k \in 1..n PROVE fold[1..k] = Xor8(fold[1..k - 1], data[k])
  <2>1. Max(1..k) = k /\ (1..k) \ {k} = 1..k - 1
    BY <1>1, MaxIs
  <2>2. 1..k \in SUBSET (1..n) /\ 1 \in 1..k
    <3> HIDE DEF n
    <3> QED BY <1>1
  <2>3. fold[1..k] = Xor8(fold[(1..k) \ {Max(1..k)}], data[Max(1..k)])
    BY <1>6, <2>2
  <2> QED BY <2>1, <2>3
<1>9. \A k \in 0..n : fold[1..k] \in Byte
  <2> DEFINE S == {k \in 0..n : fold[1..k] \in Byte}
  <2>1. 0 \in S
    BY <1>1, <1>3, <1>7
  <2>2. ASSUME NEW k \in 0..n, k \in S, k # n PROVE k + 1 \in S
    <3> HIDE DEF n
    <3>1. k + 1 \in 1..n /\ (k + 1) - 1 = k /\ k + 1 \in 0..n
      BY <1>1, <2>2
    <3>2. fold[1..k + 1] = Xor8(fold[1..k], data[k + 1])
      BY <1>8, <3>1
    <3> QED BY <1>1, <2>2, <3>1, <3>2, XorAssumption
  <2> HIDE DEF S, n
  <2>3. 0..n \subseteq S
    BY <1>1, <2>1, <2>2, UpTo
  <2> QED BY <2>3 DEF S
<1>10. run \in [0..n -> Byte] /\ run[0] = 0 /\ run[n] = fold[1..n]
  BY <1>1, <1>7, <1>9
<1>11. \A k \in 1..n : run[k] = Xor8(run[k - 1], data[k])
  <2> SUFFICES ASSUME NEW k \in 1..n PROVE run[k] = Xor8(run[k - 1], data[k])
    OBVIOUS
  <2>1. k \in 0..n /\ k - 1 \in 0..n
    BY <1>1
  <2> QED BY <1>8, <2>1
<1> HIDE DEF run
<1> QED BY <1>2, <1>10, <1>11

\* It is that of the bytes before and the last one.
LEMMA XorOf ==
    ASSUME NEW data \in Seq(Byte)
    PROVE  /\ RunningXor(data) \in Byte
           /\ RunningXor(<<>>) = 0
           /\ \A m \in 1..Len(data) :
                RunningXor(SubSeq(data, 1, m)) =
                  Xor8(RunningXor(SubSeq(data, 1, m - 1)), data[m])
<1> DEFINE n == Len(data)
<1>1. n \in Nat
  OBVIOUS
<1>2. PICK run \in [0..n -> Byte] :
        /\ run[0] = 0
        /\ \A k \in 1..n : run[k] = Xor8(run[k - 1], data[k])
        /\ RunningXor(data) = run[n]
  BY XorRun
<1>3. ASSUME NEW m \in 0..n PROVE RunningXor(SubSeq(data, 1, m)) = run[m]
  <2> DEFINE t == SubSeq(data, 1, m)
  <2>1. t \in Seq(Byte) /\ Len(t) = m /\ \A i \in 1..m : t[i] = data[i]
    OBVIOUS
  <2> HIDE DEF t
  <2>2. PICK part \in [0..Len(t) -> Byte] :
          /\ part[0] = 0
          /\ \A k \in 1..Len(t) : part[k] = Xor8(part[k - 1], t[k])
          /\ RunningXor(t) = part[Len(t)]
    BY <2>1, XorRun
  <2> DEFINE S == {k \in 0..m : part[k] = run[k]}
  <2>3. 0 \in S /\ m \in Nat
    BY <1>1, <1>2, <2>2
  <2>4. ASSUME NEW k \in 0..m, k \in S, k # m PROVE k + 1 \in S
    <3> HIDE DEF n
    <3>1. k + 1 \in 1..m /\ k + 1 \in 1..n /\ (k + 1) - 1 = k /\ k + 1 \in 0..m
      BY <1>1, <2>3, <2>4
    <3>2. part[k + 1] = Xor8(part[k], t[k + 1])
      BY <2>1, <2>2, <3>1
    <3>3. run[k + 1] = Xor8(run[k], data[k + 1])
      BY <1>2, <3>1
    <3> QED BY <2>1, <2>4, <3>1, <3>2, <3>3
  <2> HIDE DEF S, n
  <2>5. 0..m \subseteq S
    BY <2>3, <2>4, UpTo
  <2>6. part[m] = run[m]
    BY <2>3, <2>5 DEF S
  <2> QED BY <2>1, <2>2, <2>6 DEF t
<1>4. ASSUME NEW m \in 1..n
      PROVE  RunningXor(SubSeq(data, 1, m)) =
               Xor8(RunningXor(SubSeq(data, 1, m - 1)), data[m])
  <2>1. m \in 0..n /\ m - 1 \in 0..n
    BY <1>1
  <2> HIDE DEF n
  <2> QED BY <1>2, <1>3, <2>1
<1>5. RunningXor(<<>>) = 0
  <2>1. SubSeq(data, 1, 0) = <<>> /\ 0 \in 0..n
    BY <1>1, SubSeqEmpty
  <2> QED BY <1>2, <1>3, <2>1
<1>6. RunningXor(data) \in Byte
  BY <1>1, <1>2
<1> QED BY <1>4, <1>5, <1>6

-----------------------------------------------------------------------------
(* Frames on the line *)

\* What the framer takes from a bus frame; its length is sent as one byte.
Payloads == {data \in Seq(Byte) : Len(data) \in 1..255}

Regrouped(a, b, c) == (a \o b) \o c = a \o (b \o c)

\* The order in which three parts are put together does not matter.
LEMMA Regroup ==
    ASSUME NEW a \in Seq(Byte), NEW b \in Seq(Byte), NEW c \in Seq(Byte)
    PROVE  Regrouped(a, b, c)
BY ConcatAssociative, SMTT(60) DEF Regrouped

\* u is s with t behind it.
Joins(u, s, t) ==
    /\ u \in Seq(Byte) /\ Len(u) = Len(s) + Len(t)
    /\ \A i \in 1..Len(s) : u[i] = s[i]
    /\ \A i \in 1..Len(t) : u[i + Len(s)] = t[i]

\* What \o does.
LEMMA Joined ==
    ASSUME NEW s \in Seq(Byte), NEW t \in Seq(Byte)
    PROVE  Joins(s \o t, s, t)
BY DEF Joins

HeadStays(b, t) ==
    b \o t # <<>> /\ Head(b \o t) = Head(b) /\ Tail(b \o t) = Tail(b) \o t

\* What is put behind a sequence that is not empty leaves its first byte first.
LEMMA FirstOfJoined ==
    ASSUME NEW b \in Seq(Byte), NEW t \in Seq(Byte), b # <<>>
    PROVE  HeadStays(b, t)
<1> DEFINE u == b \o t  c == Tail(b)  v == c \o t  d == Tail(u)
<1>1. /\ c \in Seq(Byte) /\ Len(c) = Len(b) - 1 /\ Head(b) = b[1]
      /\ \A i \in 1..Len(c) : c[i] = b[i + 1]
      /\ Len(b) \in Nat \ {0} /\ Len(t) \in Nat
  <2>1. Len(b) \in Nat /\ Len(b) # 0 /\ Len(t) \in Nat
    OBVIOUS
  <2>2. /\ c \in Seq(Byte) /\ Len(c) = Len(b) - 1
        /\ \A i \in 1..Len(c) : c[i] = b[i + 1]
    BY HeadTailProperties
  <2>3. Head(b) = b[1]
    OBVIOUS
  <2> QED BY <2>1, <2>2, <2>3
<1> HIDE DEF c
<1>2. Joins(u, b, t)
  BY Joined, Zenon
<1>3. Joins(v, c, t)
  BY <1>1, Joined, Zenon
<1> HIDE DEF u, v
<1>4. u \in Seq(Byte) /\ Len(u) = Len(b) + Len(t) /\ u[1] = b[1]
  BY <1>1, <1>2 DEF Joins
<1>5. u # <<>> /\ Head(u) = u[1]
  <2>1. Len(u) # 0
    BY <1>1, <1>4
  <2>2. u # <<>>
    BY <2>1
  <2> QED BY <1>4, <2>2
<1>6. /\ d \in Seq(Byte) /\ Len(d) = Len(u) - 1
      /\ \A i \in 1..Len(d) : d[i] = u[i + 1]
  BY <1>4, <1>5, HeadTailProperties
<1> HIDE DEF d
<1>7. v \in Seq(Byte) /\ Len(v) = Len(d)
  BY <1>1, <1>3, <1>4, <1>6 DEF Joins
<1>8. ASSUME NEW i \in 1..Len(d) PROVE d[i] = v[i]
  <2>1. CASE i <= Len(c)
    <3>1. i \in 1..Len(c) /\ i + 1 \in 1..Len(b)
      BY <1>1, <2>1
    <3>2. v[i] = c[i] /\ u[i + 1] = b[i + 1]
      BY <1>2, <1>3, <3>1 DEF Joins
    <3> QED BY <1>1, <1>6, <3>1, <3>2
  <2>2. CASE i > Len(c)
    <3> DEFINE k == i - Len(c)
    <3>1. k \in 1..Len(t) /\ k + Len(c) = i /\ k + Len(b) = i + 1
      BY <1>1, <1>4, <1>6, <2>2
    <3> HIDE DEF k
    <3>2. v[k + Len(c)] = t[k] /\ u[k + Len(b)] = t[k]
      BY <1>2, <1>3, <3>1 DEF Joins
    <3> QED BY <1>6, <3>1, <3>2
  <2> QED BY <1>1, <2>1, <2>2
<1>9. d = v
  BY <1>6, <1>7, <1>8, SeqEqual
<1> QED BY <1>1, <1>4, <1>5, <1>9, Zenon DEF HeadStays, u, v, c, d

\* The parts of a frame, one behind the other.
LEMMA ThreeJoined ==
    ASSUME NEW a \in Seq(Byte), NEW data \in Seq(Byte), NEW c \in Seq(Byte),
           Len(a) = 3, Len(c) = 1, NEW b, Joins(b, a, data), NEW all, Joins(all, b, c)
    PROVE  /\ all \in Seq(Byte) /\ Len(all) = Len(data) + 4
           /\ \A i \in 1..3 : all[i] = a[i]
           /\ \A i \in 1..Len(data) : all[i + 3] = data[i]
           /\ all[Len(data) + 4] = c[1]
<1>1. /\ b \in Seq(Byte) /\ Len(b) = 3 + Len(data) /\ Len(data) \in Nat
      /\ \A i \in 1..3 : b[i] = a[i]
      /\ \A i \in 1..Len(data) : b[i + 3] = data[i]
  BY DEF Joins
<1>2. /\ all \in Seq(Byte) /\ Len(all) = Len(b) + 1
      /\ \A i \in 1..Len(b) : all[i] = b[i]
      /\ all[1 + Len(b)] = c[1]
  BY DEF Joins
<1>3. \A i \in 1..3 : all[i] = b[i]
  BY <1>1, <1>2
<1>4. \A i \in 1..Len(data) : all[i + 3] = b[i + 3]
  BY <1>1, <1>2
<1>5. all[Len(data) + 4] = c[1] /\ Len(all) = Len(data) + 4
  BY <1>1, <1>2
<1> QED BY <1>1, <1>2, <1>3, <1>4, <1>5

\* A frame byte by byte.
LEMMA TxFrameIs ==
    ASSUME NEW data \in Payloads
    PROVE  /\ data \in Seq(Byte) /\ Len(data) \in 1..255
           /\ TxFrame(data) \in Seq(Byte) /\ Len(TxFrame(data)) = Len(data) + 4
           /\ TxFrame(data)[1] = 170 /\ TxFrame(data)[2] = 85
           /\ TxFrame(data)[3] = Len(data)
           /\ \A i \in 1..Len(data) : TxFrame(data)[i + 3] = data[i]
           /\ TxFrame(data)[Len(data) + 4] = RunningXor(data)
<1>1. data \in Seq(Byte) /\ Len(data) \in 1..255
  BY DEF Payloads
<1>2. RunningXor(data) \in Byte
  BY <1>1, XorOf
<1>3. <<170, 85, Len(data)>> \in Seq(Byte) /\ <<RunningXor(data)>> \in Seq(Byte)
  BY <1>1, <1>2 DEF Byte
<1>4. /\ Len(<<170, 85, Len(data)>>) = 3 /\ Len(<<RunningXor(data)>>) = 1
  OBVIOUS
<1>5. /\ TxFrame(data) \in Seq(Byte) /\ Len(TxFrame(data)) = Len(data) + 4
      /\ \A i \in 1..Len(data) : TxFrame(data)[i + 3] = data[i]
      /\ TxFrame(data)[1] = 170 /\ TxFrame(data)[2] = 85 /\ TxFrame(data)[3] = Len(data)
      /\ TxFrame(data)[Len(data) + 4] = RunningXor(data)
  <2> DEFINE a == <<170, 85, Len(data)>>  c == <<RunningXor(data)>>
  <2>1. a \in Seq(Byte) /\ c \in Seq(Byte) /\ Len(a) = 3 /\ Len(c) = 1
    BY <1>3, <1>4
  <2>2. TxFrame(data) = (a \o data) \o c
    BY DEF TxFrame
  <2>7. a[1] = 170 /\ a[2] = 85 /\ a[3] = Len(data) /\ c[1] = RunningXor(data)
    OBVIOUS
  <2> HIDE DEF a, c
  <2>3. Joins(a \o data, a, data)
    BY <1>1, <2>1, Joined
  <2>4. a \o data \in Seq(Byte)
    BY <2>3 DEF Joins
  <2>5. Joins((a \o data) \o c, a \o data, c)
    BY <2>1, <2>4, Joined
  <2>6. Joins(TxFrame(data), a \o data, c)
    BY <2>2, <2>5
  <2>8. /\ TxFrame(data) \in Seq(Byte) /\ Len(TxFrame(data)) = Len(data) + 4
        /\ \A i \in 1..3 : TxFrame(data)[i] = a[i]
        /\ \A i \in 1..Len(data) : TxFrame(data)[i + 3] = data[i]
        /\ TxFrame(data)[Len(data) + 4] = c[1]
    BY <1>1, <2>1, <2>3, <2>6, ThreeJoined
  <2>9. /\ TxFrame(data)[1] = a[1] /\ TxFrame(data)[2] = a[2]
        /\ TxFrame(data)[3] = a[3]
    BY <2>8
  <2> QED BY <2>7, <2>8, <2>9
<1> QED BY <1>1, <1>5, Zenon

\* Several sequences in a row, put together one by one.
LEMMA FlattenRun ==
    ASSUME NEW seqs \in Seq(Seq(Byte))
    PROVE  \E run \in [0..Len(seqs) -> Seq(Byte)] :
             /\ run[0] = <<>>
             /\ \A k \in 1..Len(seqs) : run[k] = run[k - 1] \o seqs[k]
             /\ FlattenSeq(seqs) = run[Len(seqs)]
<1> DEFINE n == Len(seqs)
           step == [x \in Seq(Byte) \X Seq(Byte) |-> x[1] \o x[2]]
           Flat(g) == g = [i \in 1..n |-> IF i = 1 THEN seqs[i] ELSE g[i - 1] \o seqs[i]]
           flat == CHOOSE g : Flat(g)
           run == [k \in 0..n |-> IF k = 0 THEN <<>> ELSE flat[k]]
<1>1. n \in Nat /\ \A k \in 1..n : seqs[k] \in Seq(Byte)
  OBVIOUS
<1>2. FlattenSeq(seqs) = IF n = 0 THEN <<>> ELSE flat[n]
  <2>1. Len(seqs) = 0 => seqs = <<>>
    OBVIOUS
  <2> QED BY <2>1 DEF FlattenSeq
<1>3. step \in [Seq(Byte) \X Seq(Byte) -> Seq(Byte)] /\ <<>> \in Seq(Byte)
  BY ConcatProperties
<1>4. \A a, b \in Seq(Byte) : step[<<a, b>>] = a \o b
  OBVIOUS
<1> HIDE DEF step
<1>5. \E g : Flat(g)
  <2>0. PICK part \in [0..n -> Seq(Byte)] : RunOf(part, <<>>, step, seqs)
    BY <1>3, RunExists
  <2>1. part[0] = <<>> /\ \A k \in 1..n : part[k] = step[<<part[k - 1], seqs[k]>>]
    BY <2>0 DEF RunOf
  <2> DEFINE g == [i \in 1..n |-> part[i]]
  <2> HIDE DEF n
  <2>2. ASSUME NEW i \in 1..n
        PROVE  part[i] = IF i = 1 THEN seqs[i] ELSE g[i - 1] \o seqs[i]
    <3>1. i - 1 \in 0..n /\ (i # 1 => i - 1 \in 1..n) /\ (i = 1 => i - 1 = 0)
      BY <1>1
    <3>2. part[i] = part[i - 1] \o seqs[i]
      BY <1>1, <1>4, <2>1, <3>1
    <3>3. <<>> \o seqs[i] = seqs[i]
      BY <1>1, ConcatEmptySeq
    <3> QED BY <2>1, <3>1, <3>2, <3>3
  <2>3. Flat(g)
    BY <2>2
  <2> HIDE DEF Flat, g
  <2> QED BY <2>3
<1>6. Flat(flat)
  <2> HIDE DEF Flat
  <2> QED BY <1>5
<1> HIDE DEF flat
<1>7. ASSUME NEW k \in 1..n PROVE run[k] = run[k - 1] \o seqs[k]
  <2>1. flat[k] = IF k = 1 THEN seqs[k] ELSE flat[k - 1] \o seqs[k]
    BY <1>6
  <2> HIDE DEF n
  <2>2. k \in 0..n /\ k - 1 \in 0..n /\ k # 0 /\ (k - 1 = 0 <=> k = 1)
    BY <1>1
  <2>3. <<>> \o seqs[k] = seqs[k]
    BY <1>1, ConcatEmptySeq
  <2> QED BY <2>1, <2>2, <2>3
<1>8. run[0] = <<>> /\ FlattenSeq(seqs) = run[n] /\ DOMAIN run = 0..n
  BY <1>1, <1>2
<1>9. run = [k \in 0..n |-> run[k]]
  OBVIOUS
<1> HIDE DEF run
<1>10. \A k \in 0..n : run[k] \in Seq(Byte)
  <2> DEFINE S == {k \in 0..n : run[k] \in Seq(Byte)}
  <2>1. 0 \in S
    <3> HIDE DEF n
    <3>1. 0 \in 0..n
      BY <1>1
    <3>2. run[0] \in Seq(Byte)
      BY <1>8
    <3> QED BY <3>1, <3>2
  <2>2. ASSUME NEW k \in 0..n, k \in S, k # n PROVE k + 1 \in S
    <3> HIDE DEF n
    <3>1. k + 1 \in 1..n /\ (k + 1) - 1 = k /\ k + 1 \in 0..n
      BY <1>1, <2>2
    <3>2. run[k + 1] = run[k] \o seqs[k + 1]
      BY <1>7, <3>1
    <3>3. run[k] \in Seq(Byte) /\ seqs[k + 1] \in Seq(Byte)
      BY <1>1, <2>2, <3>1
    <3>4. run[k + 1] \in Seq(Byte)
      BY <3>2, <3>3, ConcatProperties
    <3> QED BY <3>1, <3>4
  <2> HIDE DEF S, n
  <2>3. 0..n \subseteq S
    BY <1>1, <2>1, <2>2, UpTo
  <2> QED BY <2>3 DEF S
<1>11. run \in [0..n -> Seq(Byte)]
  BY <1>9, <1>10
<1> HIDE DEF n
<1>12. /\ run[0] = <<>> /\ \A k \in 1..n : run[k] = run[k - 1] \o seqs[k]
       /\ FlattenSeq(seqs) = run[n]
  BY <1>7, <1>8
<1> QED BY <1>11, <1>12 DEF n

\* The frames of accepted payloads, as they go over the line.
Frames(und) == [i \in DOMAIN und |-> TxFrame(und[i])]
Stream(und) == FlattenSeq(Frames(und))

StreamOf(run, und) ==
    /\ run[0] = <<>>
    /\ \A k \in 1..Len(und) : run[k] = run[k - 1] \o TxFrame(und[k])

\* Put together one by one.
LEMMA StreamRun ==
    ASSUME NEW und \in Seq(Payloads)
    PROVE  \E run \in [0..Len(und) -> Seq(Byte)] :
             StreamOf(run, und) /\ Stream(und) = run[Len(und)]
<1> DEFINE seqs == Frames(und)
<1>1. /\ Len(und) \in Nat /\ DOMAIN und = 1..Len(und)
      /\ \A i \in 1..Len(und) : und[i] \in Payloads
  OBVIOUS
<1>2. \A i \in 1..Len(und) : TxFrame(und[i]) \in Seq(Byte)
  BY <1>1, TxFrameIs
<1>3. /\ seqs \in Seq(Seq(Byte)) /\ Len(seqs) = Len(und)
      /\ \A i \in 1..Len(und) : seqs[i] = TxFrame(und[i])
  BY <1>1, <1>2 DEF Frames
<1> HIDE DEF seqs
<1>4. PICK run \in [0..Len(seqs) -> Seq(Byte)] :
        /\ run[0] = <<>>
        /\ \A k \in 1..Len(seqs) : run[k] = run[k - 1] \o seqs[k]
        /\ FlattenSeq(seqs) = run[Len(seqs)]
  BY <1>3, FlattenRun
<1>5. StreamOf(run, und)
  BY <1>3, <1>4 DEF StreamOf
<1>6. Stream(und) = run[Len(und)]
  BY <1>3, <1>4 DEF Stream, seqs
<1> QED BY <1>3, <1>4, <1>5, <1>6

\* No frames are no bytes.
LEMMA StreamIs ==
    /\ Stream(<<>>) = <<>>
    /\ \A und \in Seq(Payloads) : Stream(und) \in Seq(Byte)
<1>1. Stream(<<>>) = <<>>
  <2>1. <<>> \in Seq(Payloads) /\ Len(<<>>) = 0
    OBVIOUS
  <2> QED BY <2>1, StreamRun DEF StreamOf
<1>2. ASSUME NEW und \in Seq(Payloads) PROVE Stream(und) \in Seq(Byte)
  <2>1. Len(und) \in 0..Len(und)
    OBVIOUS
  <2> QED BY <2>1, StreamRun
<1> QED BY <1>1, <1>2

\* One frame more at the end.
LEMMA StreamAppend ==
    ASSUME NEW und \in Seq(Payloads), NEW data \in Payloads
    PROVE  Stream(Append(und, data)) = Stream(und) \o TxFrame(data)
<1> DEFINE n == Len(und)  more == Append(und, data)
<1>1. /\ n \in Nat /\ more \in Seq(Payloads) /\ Len(more) = n + 1
      /\ \A i \in 1..n : more[i] = und[i]
      /\ more[n + 1] = data
  OBVIOUS
<1> HIDE DEF more
<1>2. PICK a \in [0..n -> Seq(Byte)] : StreamOf(a, und) /\ Stream(und) = a[n]
  BY StreamRun
<1>3. PICK b \in [0..n + 1 -> Seq(Byte)] : StreamOf(b, more) /\ Stream(more) = b[n + 1]
  BY <1>1, StreamRun
<1> DEFINE S == {k \in 0..n : a[k] = b[k]}
<1> HIDE DEF n
<1>4. 0 \in S
  BY <1>1, <1>2, <1>3 DEF StreamOf
<1>5. ASSUME NEW k \in 0..n, k \in S, k # n PROVE k + 1 \in S
  <2>1. /\ k + 1 \in 1..n /\ k + 1 \in 1..n + 1 /\ (k + 1) - 1 = k /\ k + 1 \in 0..n
    BY <1>1, <1>5
  <2>2. a[k + 1] = a[k] \o TxFrame(und[k + 1])
    BY <1>2, <2>1 DEF StreamOf, n
  <2>3. b[k + 1] = b[k] \o TxFrame(more[k + 1])
    BY <1>1, <1>3, <2>1 DEF StreamOf
  <2> QED BY <1>1, <1>5, <2>1, <2>2, <2>3
<1> HIDE DEF S
<1>6. 0..n \subseteq S
  BY <1>1, <1>4, <1>5, UpTo
<1>7. a[n] = b[n]
  BY <1>1, <1>6 DEF S
<1>8. b[n + 1] = b[n] \o TxFrame(data)
  <2>1. n + 1 \in 1..n + 1 /\ (n + 1) - 1 = n
    BY <1>1
  <2> QED BY <1>1, <1>3, <2>1 DEF StreamOf
<1> QED BY <1>2, <1>3, <1>7, <1>8 DEF more

\* The first frame and the others.
LEMMA StreamFirst ==
    ASSUME NEW und \in Seq(Payloads), und # <<>>
    PROVE  Stream(und) = TxFrame(Head(und)) \o Stream(Tail(und))
<1> DEFINE n == Len(und)  rest == Tail(und)  first == TxFrame(Head(und))
<1>1. /\ n \in Nat \ {0} /\ rest \in Seq(Payloads) /\ Len(rest) = n - 1
      /\ \A i \in 1..n - 1 : rest[i] = und[i + 1] /\ und[i + 1] \in Payloads
      /\ Head(und) = und[1] /\ Head(und) \in Payloads
  OBVIOUS
<1>2. first \in Seq(Byte)
  BY <1>1, TxFrameIs
<1>3. \A i \in 1..n - 1 : TxFrame(und[i + 1]) \in Seq(Byte)
  BY <1>1, TxFrameIs
<1>4. PICK a \in [0..n -> Seq(Byte)] : StreamOf(a, und) /\ Stream(und) = a[n]
  BY StreamRun
<1>5. PICK b \in [0..n - 1 -> Seq(Byte)] : StreamOf(b, rest) /\ Stream(rest) = b[n - 1]
  BY <1>1, StreamRun
<1> DEFINE S == {k \in 0..n - 1 : a[k + 1] = first \o b[k]}
<1> HIDE DEF n, rest, first
<1>6. 0 \in S
  <2>0. 1 \in 1..n /\ 1 - 1 = 0
    BY <1>1
  <2>1. a[1] = <<>> \o first
    BY <1>1, <1>4, <2>0 DEF StreamOf, n, first
  <2>2. <<>> \o first = first /\ first \o <<>> = first
    BY <1>2, ConcatEmptySeq
  <2>3. b[0] = <<>> /\ 0 \in 0..n - 1 /\ 0 + 1 = 1
    BY <1>1, <1>5 DEF StreamOf
  <2> QED BY <2>1, <2>2, <2>3
<1>7. ASSUME NEW k \in 0..n - 1, k \in S, k # n - 1 PROVE k + 1 \in S
  <2>1. /\ k + 1 \in 1..n - 1 /\ k + 2 \in 1..n /\ (k + 1) - 1 = k /\ k + 1 \in 0..n - 1
        /\ (k + 2) - 1 = k + 1 /\ (k + 1) + 1 = k + 2
    BY <1>1, <1>7
  <2>2. a[k + 2] = a[k + 1] \o TxFrame(und[k + 2])
    BY <1>4, <2>1 DEF StreamOf, n
  <2>3. b[k + 1] = b[k] \o TxFrame(und[k + 2])
    BY <1>1, <1>5, <2>1 DEF StreamOf
  <2>4. b[k] \in Seq(Byte) /\ TxFrame(und[k + 2]) \in Seq(Byte)
    BY <1>3, <1>5, <2>1
  <2>5. (first \o b[k]) \o TxFrame(und[k + 2]) = first \o (b[k] \o TxFrame(und[k + 2]))
    <3>1. Regrouped(first, b[k], TxFrame(und[k + 2]))
      BY <1>2, <2>4, Regroup, Zenon
    <3> QED BY <3>1 DEF Regrouped
  <2>6. a[k + 1] = first \o b[k]
    BY <1>7
  <2>7. a[(k + 1) + 1] = first \o b[k + 1]
    BY <2>1, <2>2, <2>3, <2>5, <2>6
  <2> QED BY <2>1, <2>7
<1> HIDE DEF S
<1>8. 0..n - 1 \subseteq S
  BY <1>1, <1>6, <1>7, UpTo, n - 1 \in Nat
<1>9. a[n] = first \o b[n - 1]
  <2>1. n - 1 \in S /\ (n - 1) + 1 = n
    BY <1>1, <1>8
  <2> QED BY <2>1 DEF S
<1> QED BY <1>4, <1>5, <1>9 DEF rest, first

-----------------------------------------------------------------------------
(* A place in the bytes of several frames *)

\* k bytes of the first of them are gone, but not all of it.
Place(und, k) ==
    /\ und \in Seq(Payloads) /\ k \in Nat
    /\ und = <<>> => k = 0
    /\ und # <<>> => k <= Len(Head(und)) + 3

Rest(und, k) ==
    IF und = <<>> THEN <<>>
    ELSE SubSeq(TxFrame(Head(und)), k + 1, Len(Head(und)) + 4) \o Stream(Tail(und))

\* One byte further.
Ends(und, k) == k = Len(Head(und)) + 3
After(und, k) == IF Ends(und, k) THEN Tail(und) ELSE und
Place1(und, k) == IF Ends(und, k) THEN 0 ELSE k + 1

\* The parts of a sequence of frames.
LEMMA Undone ==
    ASSUME NEW und \in Seq(Payloads), und # <<>>
    PROVE  /\ Head(und) \in Payloads /\ Tail(und) \in Seq(Payloads)
           /\ Len(Head(und)) \in 1..255
           /\ TxFrame(Head(und)) \in Seq(Byte)
           /\ Len(TxFrame(Head(und))) = Len(Head(und)) + 4
           /\ Stream(Tail(und)) \in Seq(Byte)
<1>1. Head(und) \in Payloads /\ Tail(und) \in Seq(Payloads)
  OBVIOUS
<1> QED BY <1>1, TxFrameIs, StreamIs

\* At the beginning nothing is gone.
LEMMA RestStart ==
    ASSUME NEW und \in Seq(Payloads)
    PROVE  Rest(und, 0) = Stream(und) /\ Place(und, 0)
<1>1. CASE und = <<>>
  BY <1>1, StreamIs DEF Rest, Place
<1>2. CASE und # <<>>
  <2> DEFINE f == TxFrame(Head(und))
  <2>1. f \in Seq(Byte) /\ Len(f) = Len(Head(und)) + 4 /\ Len(Head(und)) \in Nat
    BY <1>2, Undone
  <2>5. 0 + 1 = 1
    OBVIOUS
  <2> HIDE DEF f
  <2>2. SubSeq(f, 1, Len(f)) = f
    BY <2>1, SubSeqFull
  <2>3. Rest(und, 0) = SubSeq(f, 1, Len(f)) \o Stream(Tail(und))
    BY <1>2, <2>1, <2>5, Zenon DEF Rest, f
  <2>4. Rest(und, 0) = Stream(und)
    BY <1>2, <2>2, <2>3, StreamFirst DEF f
  <2> QED BY <1>2, <2>1, <2>4 DEF Place
<1> QED BY <1>1, <1>2

EndOf(und, j) ==
    /\ Len(SubSeq(und, j + 1, Len(und))) = Len(und) - j
    /\ \A i \in 1..Len(und) - j : SubSeq(und, j + 1, Len(und))[i] = und[i + j]

\* What comes behind the first j frames.
LEMMA EndIs ==
    ASSUME NEW und \in Seq(Payloads), NEW j \in 0..Len(und)
    PROVE  EndOf(und, j)
<1> DEFINE n == Len(und)  e == SubSeq(und, j + 1, n)
<1>1. n \in Nat /\ j \in Nat /\ j <= n
  OBVIOUS
<1>2. \A i \in j + 1..n : und[i] \in Payloads
  BY <1>1
<1> HIDE DEF n
<1>3. /\ Len(e) = IF j + 1 <= n THEN n - (j + 1) + 1 ELSE 0
      /\ \A i \in 1..n - (j + 1) + 1 : e[i] = und[j + 1 + i - 1]
  <2>1. j + 1 \in Int /\ n \in Int
    BY <1>1
  <2> QED BY <1>2, <2>1, SubSeqProperties
<1> HIDE DEF e
<1>4. Len(e) = n - j
  BY <1>1, <1>3
<1>5. ASSUME NEW i \in 1..n - j PROVE e[i] = und[i + j]
  <2>1. i \in 1..n - (j + 1) + 1 /\ j + 1 + i - 1 = i + j
    BY <1>1
  <2> QED BY <1>3, <2>1
<1> QED BY <1>4, <1>5, Zenon DEF EndOf, e, n

\* What a place leaves is the end of the whole.
LEMMA RestEnds ==
    ASSUME NEW und, NEW k, Place(und, k)
    PROVE  /\ Rest(und, k) \in Seq(Byte)
           /\ \E done \in Seq(Byte) : Stream(und) = done \o Rest(und, k)
<1>1. CASE und = <<>>
  <2>1. <<>> \in Seq(Byte) /\ Stream(und) = <<>> \o <<>> /\ Rest(und, k) = <<>>
    BY <1>1, StreamIs DEF Rest
  <2> QED BY <2>1
<1>2. CASE und # <<>>
  <2> DEFINE f == TxFrame(Head(und))  t == Stream(Tail(und))
             a == SubSeq(f, 1, k)  b == SubSeq(f, k + 1, Len(f))
  <2>1. /\ und \in Seq(Payloads) /\ k \in Nat /\ k <= Len(Head(und)) + 3
        /\ f \in Seq(Byte) /\ Len(f) = Len(Head(und)) + 4 /\ Len(Head(und)) \in Nat
        /\ t \in Seq(Byte)
    <3>1. und \in Seq(Payloads) /\ k \in Nat /\ k <= Len(Head(und)) + 3
      BY <1>2 DEF Place
    <3>2. /\ TxFrame(Head(und)) \in Seq(Byte) /\ Len(Head(und)) \in 1..255
          /\ Len(TxFrame(Head(und))) = Len(Head(und)) + 4
          /\ Stream(Tail(und)) \in Seq(Byte)
      BY <1>2, <3>1, Undone, Zenon
    <3> HIDE DEF f, t
    <3> QED BY <3>1, <3>2 DEF f, t
  <2>2. Rest(und, k) = b \o t /\ Stream(und) = f \o t
    BY <1>2, <2>1, StreamFirst DEF Rest
  <2> HIDE DEF f, t
  <2>3. a \in Seq(Byte) /\ b \in Seq(Byte)
    BY <2>1
  <2>4. a \o b = f
    <3>1. 1 \in 1..Len(f) + 1 /\ k \in 1 - 1..Len(f) /\ Len(f) \in k..Len(f)
      BY <2>1
    <3>2. a \o b = SubSeq(f, 1, Len(f))
      BY <2>1, <3>1, ConcatAdjacentSubSeq
    <3> QED BY <2>1, <3>2, SubSeqFull
  <2> HIDE DEF a, b
  <2>5. (a \o b) \o t = a \o (b \o t)
    <3>1. Regrouped(a, b, t)
      BY <2>1, <2>3, Regroup, Zenon
    <3> QED BY <3>1 DEF Regrouped
  <2>6. b \o t \in Seq(Byte)
    BY <2>1, <2>3, ConcatProperties
  <2> QED BY <2>2, <2>3, <2>4, <2>5, <2>6
<1> QED BY <1>1, <1>2

\* One byte is taken.
LEMMA RestGoes ==
    ASSUME NEW und, NEW k, Place(und, k), und # <<>>
    PROVE  /\ Rest(und, k) # <<>>
           /\ Head(Rest(und, k)) = TxFrame(Head(und))[k + 1]
           /\ Tail(Rest(und, k)) = Rest(After(und, k), Place1(und, k))
           /\ Place(After(und, k), Place1(und, k))
<1> DEFINE f == TxFrame(Head(und))  t == Stream(Tail(und))
           b == SubSeq(f, k + 1, Len(f))  c == SubSeq(f, k + 2, Len(f))
<1>1. /\ und \in Seq(Payloads) /\ k \in Nat /\ k <= Len(Head(und)) + 3
      /\ f \in Seq(Byte) /\ Len(f) = Len(Head(und)) + 4 /\ Len(Head(und)) \in Nat
      /\ t \in Seq(Byte) /\ Tail(und) \in Seq(Payloads)
  <2>1. und \in Seq(Payloads) /\ k \in Nat /\ k <= Len(Head(und)) + 3
    BY DEF Place
  <2>2. /\ TxFrame(Head(und)) \in Seq(Byte) /\ Len(Head(und)) \in 1..255
        /\ Len(TxFrame(Head(und))) = Len(Head(und)) + 4
        /\ Stream(Tail(und)) \in Seq(Byte) /\ Tail(und) \in Seq(Payloads)
    BY <2>1, Undone, Zenon
  <2> HIDE DEF f, t
  <2> QED BY <2>1, <2>2 DEF f, t
<1>2. Rest(und, k) = b \o t
  BY <1>1 DEF Rest
<1> HIDE DEF f, t
<1>3. /\ b \in Seq(Byte) /\ b # <<>> /\ Head(b) = f[k + 1] /\ Tail(b) = c
  <2>1. k + 1 \in 1..Len(f) /\ Len(f) \in k + 1..Len(f) /\ (k + 1) + 1 = k + 2
    BY <1>1
  <2>2. Head(b) = f[k + 1] /\ Tail(b) = c
    BY <1>1, <2>1, HeadTailOfSubSeq
  <2>3. b \in Seq(Byte) /\ Len(b) = Len(f) - k
    BY <1>1
  <2>4. Len(b) # 0
    <3> HIDE DEF b
    <3> QED BY <1>1, <2>3
  <2> HIDE DEF b, c
  <2>5. b # <<>>
    BY <2>4
  <2> QED BY <2>2, <2>3, <2>5
<1> HIDE DEF b
<1>4. /\ b \o t # <<>> /\ Head(b \o t) = Head(b) /\ Tail(b \o t) = Tail(b) \o t
  <2>1. HeadStays(b, t)
    BY <1>1, <1>3, FirstOfJoined, Zenon
  <2> QED BY <2>1, Zenon DEF HeadStays
<1>5. CASE Ends(und, k)
  <2>1. c = <<>> /\ After(und, k) = Tail(und) /\ Place1(und, k) = 0
    BY <1>1, <1>5 DEF Ends, After, Place1
  <2>2. <<>> \o t = t
    BY <1>1, ConcatEmptySeq
  <2>3. Rest(Tail(und), 0) = t /\ Place(Tail(und), 0)
    BY <1>1, RestStart DEF t
  <2> HIDE DEF c
  <2> QED BY <1>2, <1>3, <1>4, <2>1, <2>2, <2>3 DEF f
<1>6. CASE ~ Ends(und, k)
  <2>1. After(und, k) = und /\ Place1(und, k) = k + 1
    BY <1>6 DEF Ends, After, Place1
  <2>2. Place(und, k + 1)
    BY <1>1, <1>6 DEF Place, Ends
  <2>3. Rest(und, k + 1) = c \o t
    <3>1. (k + 1) + 1 = k + 2
      BY <1>1
    <3> QED BY <1>1, <3>1, Zenon DEF Rest, f, t
  <2> HIDE DEF c
  <2> QED BY <1>2, <1>3, <1>4, <2>1, <2>2, <2>3 DEF f
<1> QED BY <1>5, <1>6

\* One frame is added.
LEMMA RestGrows ==
    ASSUME NEW und, NEW k, Place(und, k), NEW data \in Payloads
    PROVE  /\ Rest(Append(und, data), k) = Rest(und, k) \o TxFrame(data)
           /\ Place(Append(und, data), k)
<1> DEFINE more == Append(und, data)
<1>1. /\ und \in Seq(Payloads) /\ k \in Nat /\ more \in Seq(Payloads) /\ more # <<>>
      /\ TxFrame(data) \in Seq(Byte)
  <2>1. und \in Seq(Payloads) /\ k \in Nat
    BY DEF Place
  <2>2. more \in Seq(Payloads) /\ Len(more) = Len(und) + 1 /\ Len(und) \in Nat
    BY <2>1
  <2>3. more # <<>>
    <3> HIDE DEF more
    <3> QED BY <2>2
  <2> QED BY <2>1, <2>2, <2>3, TxFrameIs
<1>2. CASE und = <<>>
  <2>1. more = <<data>> /\ k = 0
    BY <1>1, <1>2 DEF Place
  <2>2. Rest(more, 0) = Stream(more)
    BY <1>1, RestStart
  <2>3. Stream(more) = Stream(<<>>) \o TxFrame(data)
    BY <1>1, <1>2, StreamAppend
  <2>4. Place(more, 0)
    BY <1>1, RestStart
  <2> QED BY <1>2, <2>1, <2>2, <2>3, <2>4, StreamIs DEF Rest
<1>3. CASE und # <<>>
  <2> DEFINE b == SubSeq(TxFrame(Head(und)), k + 1, Len(Head(und)) + 4)
             t == Stream(Tail(und))  g == TxFrame(data)
  <2>1. Head(more) = Head(und) /\ Tail(more) = Append(Tail(und), data)
    BY <1>1, <1>3, HeadTailAppend
  <2>2. Stream(Append(Tail(und), data)) = t \o g
    BY <1>1, <1>3, Undone, StreamAppend
  <2>3. Rest(more, k) = b \o (t \o g) /\ Rest(und, k) = b \o t
    BY <1>1, <1>3, <2>1, <2>2 DEF Rest
  <2>4. b \in Seq(Byte) /\ t \in Seq(Byte) /\ g \in Seq(Byte)
    <3>1. /\ TxFrame(Head(und)) \in Seq(Byte) /\ t \in Seq(Byte)
          /\ Len(TxFrame(Head(und))) = Len(Head(und)) + 4 /\ Len(Head(und)) \in Nat
      BY <1>1, <1>3, Undone
    <3> QED BY <1>1, <3>1
  <2> HIDE DEF b, t, g
  <2>5. (b \o t) \o g = b \o (t \o g)
    <3>1. Regrouped(b, t, g)
      BY <2>4, Regroup, Zenon
    <3> QED BY <3>1 DEF Regrouped
  <2>6. Place(more, k)
    BY <1>1, <1>3, <2>1 DEF Place
  <2> QED BY <2>3, <2>5, <2>6 DEF g
<1> QED BY <1>2, <1>3

-----------------------------------------------------------------------------
(* The reader *)

States == {"Syncing", "Length", "Data", "Checksum"}
Readers == [state : States, pos : Nat, length : Byte, checkSum : Byte,
            data : Seq(Byte), delivered : Seq(Seq(Byte))]

\* Its fields after a byte, state by state.
LEMMA FeedIs ==
    ASSUME NEW r \in Readers, NEW b \in Byte
    PROVE  /\ Feed(r, b) \in Readers
           /\ r.state = "Syncing" => Feed(r, b) = Sync(r, b)
           /\ r.state = "Length" => Feed(r, b) = TakeLength(r, b)
           /\ r.state = "Data" => Feed(r, b) = TakeData(r, b)
           /\ r.state = "Checksum" => Feed(r, b) = TakeChecksum(r, b)
<1>1. /\ r.state \in States /\ r.pos \in Nat /\ r.length \in Byte /\ r.checkSum \in Byte
      /\ r.data \in Seq(Byte) /\ r.delivered \in Seq(Seq(Byte))
  BY DEF Readers
<1>2. CASE r.state = "Syncing"
  <2>1. Feed(r, b) = Sync(r, b)
    BY <1>2 DEF Feed
  <2>2. Sync(r, b) \in Readers
    BY DEF Sync, Readers, States
  <2> QED BY <1>2, <2>1, <2>2
<1>3. CASE r.state = "Length"
  <2>1. Feed(r, b) = TakeLength(r, b)
    BY <1>3 DEF Feed
  <2>2. 0 \in Byte
    BY DEF Byte
  <2>3. TakeLength(r, b) \in Readers
    BY <2>2 DEF TakeLength, Readers, States
  <2> QED BY <1>3, <2>1, <2>3
<1>4. CASE r.state = "Data"
  <2>1. Feed(r, b) = TakeData(r, b)
    BY <1>4 DEF Feed
  <2>2. Append(r.data, b) \in Seq(Byte) /\ Xor8(r.checkSum, b) \in Byte /\ r.pos + 1 \in Nat
    BY <1>1, XorAssumption
  <2>3. TakeData(r, b) \in Readers
    BY <1>1, <2>2 DEF TakeData, Readers, States
  <2> QED BY <1>4, <2>1, <2>3
<1>5. CASE r.state = "Checksum"
  <2>1. Feed(r, b) = TakeChecksum(r, b)
    BY <1>5 DEF Feed
  <2>2. Append(r.delivered, r.data) \in Seq(Seq(Byte)) /\ <<>> \in Seq(Byte)
    BY <1>1
  <2>3. TakeChecksum(r, b) \in Readers
    BY <1>1, <2>2 DEF TakeChecksum, Readers, States
  <2> QED BY <1>5, <2>1, <2>3
<1> QED BY <1>1, <1>2, <1>3, <1>4, <1>5 DEF States

\* The readers a reader goes through while it gets some bytes.
FeedsOn(run, r, bytes) ==
    /\ run[0] = r
    /\ \A k \in 1..Len(bytes) : run[k] = Feed(run[k - 1], bytes[k])

\* readComplete leaves the last of them.
LEMMA FeedRun ==
    ASSUME NEW r \in Readers, NEW bytes \in Seq(Byte)
    PROVE  \E run \in [0..Len(bytes) -> Readers] :
             FeedsOn(run, r, bytes) /\ FoldLeft(Feed, r, bytes) = run[Len(bytes)]
<1> DEFINE n == Len(bytes)
           step == [x \in Readers \X Byte |-> Feed(x[1], x[2])]
           FeedFold(f) ==
             f = [s \in SUBSET (1..n) |->
                    IF s = {} THEN r ELSE Feed(f[s \ {Max(s)}], bytes[Max(s)])]
           fold == CHOOSE f : FeedFold(f)
           run == [k \in 0..n |-> fold[1..k]]
<1>1. n \in Nat /\ DOMAIN bytes = 1..n /\ \A k \in 1..n : bytes[k] \in Byte
  OBVIOUS
<1>2. FoldLeft(Feed, r, bytes) = fold[1..n]
  BY <1>1 DEF FoldLeft, MapThenFoldSet
<1>3. step \in [Readers \X Byte -> Readers]
  <2>1. \A q \in Readers, b \in Byte : Feed(q, b) \in Readers
    BY FeedIs
  <2> QED BY <2>1
<1>4. \A q \in Readers, b \in Byte : step[<<q, b>>] = Feed(q, b)
  OBVIOUS
<1> HIDE DEF step
<1>5. \E f : FeedFold(f)
  <2>0. PICK f \in [SUBSET (1..n) -> Readers] : FoldOf(f, r, step, bytes)
    BY <1>3, FoldExists
  <2>1. f = [s \in SUBSET (1..n) |->
               IF s = {} THEN r ELSE step[<<f[s \ {Max(s)}], bytes[Max(s)]>>]]
    BY <2>0 DEF FoldOf
  <2>2. \A s \in SUBSET (1..n) : s # {} =>
          /\ bytes[Max(s)] \in Byte /\ f[s \ {Max(s)}] \in Readers
    <3> HIDE DEF n
    <3> QED BY <1>1, MaxIs
  <2>3. \A s \in SUBSET (1..n) : s # {} =>
          step[<<f[s \ {Max(s)}], bytes[Max(s)]>>] = Feed(f[s \ {Max(s)}], bytes[Max(s)])
    BY <1>4, <2>2
  <2>4. FeedFold(f)
    BY <2>1, <2>3
  <2> HIDE DEF FeedFold
  <2> QED BY <2>4
<1>6. FeedFold(fold)
  <2> HIDE DEF FeedFold
  <2> QED BY <1>5
<1> HIDE DEF fold
<1>7. fold[{}] = r /\ 1..0 = {}
  BY <1>6
<1>8. ASSUME NEW k \in 1..n PROVE fold[1..k] = Feed(fold[1..k - 1], bytes[k])
  <2>1. Max(1..k) = k /\ (1..k) \ {k} = 1..k - 1
    BY <1>1, MaxIs
  <2>2. 1..k \in SUBSET (1..n) /\ 1 \in 1..k
    <3> HIDE DEF n
    <3> QED BY <1>1
  <2>3. fold[1..k] = Feed(fold[(1..k) \ {Max(1..k)}], bytes[Max(1..k)])
    BY <1>6, <2>2
  <2> QED BY <2>1, <2>2, <2>3
<1>9. \A k \in 0..n : fold[1..k] \in Readers
  <2> DEFINE S == {k \in 0..n : fold[1..k] \in Readers}
  <2>1. 0 \in S
    BY <1>1, <1>7
  <2>2. ASSUME NEW k \in 0..n, k \in S, k # n PROVE k + 1 \in S
    <3> HIDE DEF n
    <3>1. k + 1 \in 1..n /\ (k + 1) - 1 = k /\ k + 1 \in 0..n
      BY <1>1, <2>2
    <3>2. fold[1..k + 1] = Feed(fold[1..k], bytes[k + 1])
      BY <1>8, <3>1
    <3>3. fold[1..k + 1] \in Readers
      BY <1>1, <2>2, <3>1, <3>2, FeedIs
    <3> QED BY <3>1, <3>3
  <2> HIDE DEF S, n
  <2>3. 0..n \subseteq S
    BY <1>1, <2>1, <2>2, UpTo
  <2> QED BY <2>3 DEF S
<1>10. run \in [0..n -> Readers] /\ run[0] = r /\ run[n] = fold[1..n]
  BY <1>1, <1>7, <1>9
<1>11. \A k \in 1..n : run[k] = Feed(run[k - 1], bytes[k])
  <2> SUFFICES ASSUME NEW k \in 1..n PROVE run[k] = Feed(run[k - 1], bytes[k])
    OBVIOUS
  <2>1. k \in 0..n /\ k - 1 \in 0..n
    BY <1>1
  <2> QED BY <1>8, <2>1
<1> HIDE DEF run
<1>12. FeedsOn(run, r, bytes)
  BY <1>10, <1>11 DEF FeedsOn
<1> QED BY <1>2, <1>10, <1>12

-----------------------------------------------------------------------------
(* The reader in step with the frames *)

\* The reader has taken k bytes of the frame with the data f.
ReadsAt(r, f, k) ==
    /\ k <= 1 => r.state = "Syncing" /\ r.pos = k /\ r.data = <<>>
    /\ k = 2 => r.state = "Length" /\ r.data = <<>>
    /\ k \in 3..Len(f) + 2 => r.state = "Data" /\ r.length = Len(f) /\ r.pos = k - 3
    /\ k = Len(f) + 3 => r.state = "Checksum"
    /\ k >= 3 => /\ r.data = SubSeq(f, 1, k - 3)
                 /\ r.checkSum = RunningXor(SubSeq(f, 1, k - 3))

\* It waits for a frame to begin.
Waits(r) == r.state = "Syncing" /\ r.pos = 0 /\ r.data = <<>>

FrameBytes(f) ==
    /\ TxFrame(f) \in Seq(Byte) /\ Len(TxFrame(f)) = Len(f) + 4
    /\ TxFrame(f)[1] = 170 /\ TxFrame(f)[2] = 85 /\ TxFrame(f)[3] = Len(f)
    /\ \A i \in 1..Len(f) : TxFrame(f)[i + 3] = f[i]
    /\ TxFrame(f)[Len(f) + 4] = RunningXor(f)

\* The bytes the framer sends, put under one name.
LEMMA FrameBytesAre ==
    ASSUME NEW f \in Payloads
    PROVE  f \in Seq(Byte) /\ Len(f) \in 1..255 /\ FrameBytes(f)
BY TxFrameIs DEF FrameBytes

\* A byte of the frame, and its last byte.
LEMMA FeedInStep ==
    ASSUME NEW r \in Readers, NEW f \in Payloads, NEW k \in 0..Len(f) + 3,
           ReadsAt(r, f, k), NEW b, b = TxFrame(f)[k + 1]
    PROVE  /\ k # Len(f) + 3 => /\ ReadsAt(Feed(r, b), f, k + 1)
                                /\ Feed(r, b).delivered = r.delivered
           /\ k = Len(f) + 3 => /\ Waits(Feed(r, b))
                                /\ Feed(r, b).delivered = Append(r.delivered, f)
<1> DEFINE n == Len(f)  q == Feed(r, b)
<1>1. /\ f \in Seq(Byte) /\ n \in 1..255 /\ k \in Nat
      /\ TxFrame(f) \in Seq(Byte) /\ Len(TxFrame(f)) = n + 4
      /\ TxFrame(f)[1] = 170 /\ TxFrame(f)[2] = 85 /\ TxFrame(f)[3] = n
      /\ \A i \in 1..n : TxFrame(f)[i + 3] = f[i]
      /\ TxFrame(f)[n + 4] = RunningXor(f)
  <2>1. f \in Seq(Byte) /\ n \in 1..255
    BY FrameBytesAre, Zenon
  <2>2. k \in Nat
    BY <2>1
  <2>3. /\ TxFrame(f) \in Seq(Byte) /\ Len(TxFrame(f)) = n + 4
        /\ TxFrame(f)[1] = 170 /\ TxFrame(f)[2] = 85 /\ TxFrame(f)[3] = n
        /\ \A i \in 1..n : TxFrame(f)[i + 3] = f[i]
        /\ TxFrame(f)[n + 4] = RunningXor(f)
    <3>1. FrameBytes(f)
      BY FrameBytesAre, Zenon
    <3> QED BY <3>1, Zenon DEF FrameBytes
  <2> HIDE DEF n
  <2> QED BY <2>1, <2>2, <2>3, Zenon
<1> HIDE DEF n
<1>2. b \in Byte
  <2>1. k + 1 \in 1..n + 4
    BY <1>1 DEF n
  <2> QED BY <1>1, <2>1
<1>3. /\ q \in Readers
      /\ r.state = "Syncing" => q = Sync(r, b)
      /\ r.state = "Length" => q = TakeLength(r, b)
      /\ r.state = "Data" => q = TakeData(r, b)
      /\ r.state = "Checksum" => q = TakeChecksum(r, b)
  BY <1>2, FeedIs
<1> HIDE DEF q
<1>4. r.pos \in Nat /\ r.data \in Seq(Byte) /\ r.checkSum \in Byte
  BY DEF Readers
<1>5. DOMAIN r = {"state", "pos", "length", "checkSum", "data", "delivered"}
  BY DEF Readers
<1>6. CASE k = 0
  <2>1. r.state = "Syncing" /\ r.pos = 0 /\ r.data = <<>>
    BY <1>6 DEF ReadsAt
  <2>2. b = 170
    BY <1>1, <1>6
  <2>3. q = [r EXCEPT !.pos = 1]
    BY <1>3, <2>1, <2>2 DEF Sync
  <2>4. q.state = "Syncing" /\ q.pos = 1 /\ q.data = <<>> /\ q.delivered = r.delivered
    BY <1>5, <2>1, <2>3
  <2>5. k + 1 = 1 /\ k # n + 3 /\ 1 # 2 /\ ~ (1 >= 3) /\ 1 \notin 3..n + 2 /\ 1 # n + 3
    BY <1>1, <1>6
  <2> QED BY <2>4, <2>5, Zenon DEF ReadsAt, n, q
<1>7. CASE k = 1
  <2>1. r.state = "Syncing" /\ r.pos = 1 /\ r.data = <<>>
    BY <1>7 DEF ReadsAt
  <2>2. b = 85
    BY <1>1, <1>7
  <2>3. q = [r EXCEPT !.state = "Length", !.pos = 0]
    BY <1>3, <2>1, <2>2 DEF Sync
  <2>4. q.state = "Length" /\ q.data = <<>> /\ q.delivered = r.delivered
    BY <1>5, <2>1, <2>3
  <2>5. k + 1 = 2 /\ k # n + 3 /\ ~ (2 <= 1) /\ ~ (2 >= 3) /\ 2 \notin 3..n + 2 /\ 2 # n + 3
    BY <1>1, <1>7
  <2> QED BY <2>4, <2>5, Zenon DEF ReadsAt, n, q
<1>8. CASE k = 2
  <2>1. r.state = "Length" /\ r.data = <<>>
    BY <1>8 DEF ReadsAt
  <2>2. b = n
    BY <1>1, <1>8
  <2>3. q = TakeLength(r, b)
    BY <1>3, <2>1
  <2>4. /\ q.state = "Data" /\ q.pos = 0 /\ q.length = n /\ q.checkSum = 0
        /\ q.data = <<>> /\ q.delivered = r.delivered
    BY <1>5, <2>1, <2>2, <2>3 DEF TakeLength
  <2>5. /\ k + 1 = 3 /\ k # n + 3 /\ ~ (3 <= 1) /\ 3 # 2 /\ 3 # n + 3 /\ 3 - 3 = 0
    <3>1. n \in 1..255
      BY <1>1
    <3> QED BY <1>8, <3>1
  <2>6. SubSeq(f, 1, 0) = <<>> /\ RunningXor(<<>>) = 0
    BY <1>1, SubSeqEmpty, XorOf
  <2> QED BY <2>4, <2>5, <2>6, Zenon DEF ReadsAt, n, q
<1>9. CASE k \in 3..n + 2
  <2>1. /\ r.state = "Data" /\ r.length = n /\ r.pos = k - 3
    BY <1>9, Zenon DEF ReadsAt, n
  <2>2. k >= 3
    BY <1>9
  <2>3. /\ r.data = SubSeq(f, 1, k - 3)
        /\ r.checkSum = RunningXor(SubSeq(f, 1, k - 3))
    BY <2>2, Zenon DEF ReadsAt
  <2>4. /\ k - 2 \in 1..n /\ k + 1 = (k - 2) + 3 /\ (k - 2) - 1 = k - 3
        /\ (k + 1) - 3 = k - 2 /\ ~ (k + 1 <= 1) /\ k + 1 # 2 /\ k # n + 3
        /\ (k - 3) + 1 = k - 2 /\ (k - 2 = n <=> k + 1 = n + 3)
        /\ k + 1 \in 3..n + 2 => k + 1 # n + 3
    BY <1>1, <1>9
  <2>5. b = f[k - 2]
    BY <1>1, <2>4
  <2>6. q = TakeData(r, b)
    BY <1>3, <2>1
  <2>7. /\ q.data = Append(r.data, b) /\ q.checkSum = Xor8(r.checkSum, b)
        /\ q.pos = r.pos + 1 /\ q.delivered = r.delivered /\ q.length = r.length
        /\ q.state = IF r.pos + 1 = r.length THEN "Checksum" ELSE r.state
    BY <1>5, <2>6 DEF TakeData
  <2>8. Append(SubSeq(f, 1, k - 3), b) = SubSeq(f, 1, k - 2)
    <3> DEFINE j == k - 2
    <3>1. j \in 1..Len(f) /\ k - 3 = j - 1
      BY <2>4 DEF n
    <3> HIDE DEF j
    <3>2. Append(SubSeq(f, 1, j - 1), f[j]) = SubSeq(f, 1, j)
      BY <1>1, <3>1
    <3> QED BY <2>5, <3>1, <3>2, Zenon DEF j
  <2>9. RunningXor(SubSeq(f, 1, k - 2)) = Xor8(RunningXor(SubSeq(f, 1, k - 3)), b)
    <3>1. RunningXor(SubSeq(f, 1, k - 2)) =
            Xor8(RunningXor(SubSeq(f, 1, (k - 2) - 1)), f[k - 2])
      BY <1>1, <2>4, XorOf DEF n
    <3> QED BY <2>4, <2>5, <3>1, Zenon
  <2>10. /\ q.data = SubSeq(f, 1, (k + 1) - 3)
         /\ q.checkSum = RunningXor(SubSeq(f, 1, (k + 1) - 3))
         /\ q.pos = (k + 1) - 3 /\ q.length = n
         /\ q.state = IF k - 2 = n THEN "Checksum" ELSE "Data"
    <3>1. r.pos + 1 = k - 2
      BY <2>1, <2>4, Zenon
    <3>2. q.state = IF k - 2 = n THEN "Checksum" ELSE "Data"
      BY <2>1, <2>7, <3>1, Zenon
    <3>3. q.pos = k - 2
      BY <2>7, <3>1, Zenon
    <3>4. q.data = SubSeq(f, 1, k - 2) /\ q.checkSum = RunningXor(SubSeq(f, 1, k - 2))
      BY <2>3, <2>7, <2>8, <2>9, Zenon
    <3> QED BY <2>1, <2>4, <2>7, <3>2, <3>3, <3>4, Zenon
  <2> QED BY <2>4, <2>7, <2>10, Zenon DEF ReadsAt, n, q
<1>10. CASE k = n + 3
  <2>1. r.state = "Checksum"
    BY <1>10, Zenon DEF ReadsAt, n
  <2>2. k >= 3 /\ k - 3 = n /\ k + 1 = n + 4
    BY <1>1, <1>10
  <2>3. r.data = f /\ r.checkSum = RunningXor(f)
    <3>1. SubSeq(f, 1, n) = f
      BY <1>1, SubSeqFull DEF n
    <3> QED BY <2>2, <3>1, Zenon DEF ReadsAt
  <2>4. b = RunningXor(f)
    BY <1>1, <2>2
  <2>5. q = TakeChecksum(r, b)
    BY <1>3, <2>1
  <2>6. /\ q.state = "Syncing" /\ q.pos = 0 /\ q.data = <<>>
        /\ q.delivered = Append(r.delivered, f)
    BY <1>5, <2>3, <2>4, <2>5 DEF TakeChecksum
  <2> QED BY <1>10, <2>6 DEF Waits, n, q
<1>11. k \in 3..n + 2 \/ k = 0 \/ k = 1 \/ k = 2 \/ k = n + 3
  BY <1>1 DEF n
<1> QED BY <1>6, <1>7, <1>8, <1>9, <1>10, <1>11

\* A reader that begins in the middle of a frame: no 0xaa comes before the checksum.
Quiet(f) == Len(f) # 170 /\ \A i \in 1..Len(f) : f[i] # 170

\* It looks for the mark, and may have taken the checksum of the frame before for
\* the first byte of one.
Misses(r, k) ==
    /\ r.state = "Syncing" /\ r.data = <<>>
    /\ r.pos = 0 \/ (r.pos = 1 /\ k = 0)

\* It passes over the frame, or has found its mark.
LEMMA FeedAstray ==
    ASSUME NEW r \in Readers, NEW f \in Payloads, NEW k \in 0..Len(f) + 3,
           Misses(r, k), Quiet(f), NEW b, b = TxFrame(f)[k + 1]
    PROVE  /\ Feed(r, b).delivered = r.delivered
           /\ k = Len(f) + 3 => Misses(Feed(r, b), 0)
           /\ k # Len(f) + 3 => Misses(Feed(r, b), k + 1) \/ ReadsAt(Feed(r, b), f, k + 1)
<1> DEFINE n == Len(f)  q == Feed(r, b)
<1>1. /\ f \in Seq(Byte) /\ n \in 1..255 /\ k \in Nat
      /\ TxFrame(f) \in Seq(Byte) /\ Len(TxFrame(f)) = n + 4
      /\ TxFrame(f)[1] = 170 /\ TxFrame(f)[2] = 85 /\ TxFrame(f)[3] = n
      /\ \A i \in 1..n : TxFrame(f)[i + 3] = f[i]
  BY TxFrameIs
<1>a. n # 170 /\ \A i \in 1..n : f[i] # 170
  BY DEF Quiet
<1> HIDE DEF n
<1>b. k \in 0..n + 3 /\ n \in Nat
  BY <1>1 DEF n
<1>2. b \in Byte
  <2>1. k + 1 \in 1..n + 4
    BY <1>b
  <2> QED BY <1>1, <2>1
<1>3. q = Sync(r, b) /\ DOMAIN r = {"state", "pos", "length", "checkSum", "data", "delivered"}
  BY <1>2, FeedIs DEF Misses, Readers
<1> HIDE DEF q
<1>4. /\ q.state = "Length" \/ q.state = "Syncing"
      /\ q.delivered = r.delivered /\ q.data = <<>>
      /\ r.pos = 0 /\ b = 170 => q.pos = 1 /\ q.state = "Syncing"
      /\ ~ (r.pos = 0 /\ b = 170) /\ ~ (r.pos = 1 /\ b = 85) =>
           q.pos = 0 /\ q.state = "Syncing"
  BY <1>3 DEF Sync, Misses
<1>5. CASE k = 0
  <2>1. b = 170 /\ 170 # 85
    BY <1>1, <1>5
  <2>2. k # n + 3 /\ k + 1 = 1 /\ 1 # 2 /\ ~ (1 >= 3) /\ 1 \notin 3..n + 2 /\ 1 # n + 3
    BY <1>b, <1>5
  <2>3. CASE r.pos = 0
    <3>1. q.pos = 1 /\ q.state = "Syncing"
      BY <1>4, <2>1, <2>3
    <3> QED BY <1>4, <2>2, <3>1, Zenon DEF ReadsAt, n, q
  <2>4. CASE r.pos = 1
    <3>1. q.pos = 0 /\ q.state = "Syncing"
      BY <1>4, <2>1, <2>4
    <3> QED BY <1>4, <2>2, <3>1, Zenon DEF Misses, n, q
  <2> QED BY <2>3, <2>4 DEF Misses
<1>6. CASE k \in 1..n + 2
  <2>1. r.pos = 0 /\ 0 # 1
    BY <1>6 DEF Misses
  <2>2. b # 170
    <3>1. CASE k = 1
      BY <1>1, <3>1
    <3>2. CASE k = 2
      BY <1>1, <1>a, <3>2
    <3>3. CASE k \in 3..n + 2
      <4>1. k - 2 \in 1..n /\ (k - 2) + 3 = k + 1
        BY <1>b, <3>3
      <4>2. b = f[k - 2]
        BY <1>1, <4>1
      <4> QED BY <1>a, <4>1, <4>2
    <3>4. k = 1 \/ k = 2 \/ k \in 3..n + 2
      BY <1>b, <1>6
    <3> QED BY <3>1, <3>2, <3>3, <3>4
  <2>3. q.pos = 0 /\ q.state = "Syncing"
    BY <1>4, <2>1, <2>2, Zenon
  <2>4. k # n + 3
    BY <1>b, <1>6
  <2> QED BY <1>4, <2>3, <2>4, Zenon DEF Misses, n, q
<1>7. CASE k = n + 3
  <2>1. r.pos = 0 /\ 0 # 1
    <3>1. k # 0
      BY <1>b, <1>7
    <3> QED BY <3>1 DEF Misses
  <2>2. q.state = "Syncing" /\ (q.pos = 0 \/ q.pos = 1)
    BY <1>4, <2>1, Zenon
  <2> QED BY <1>4, <1>7, <2>2, Zenon DEF Misses, n, q
<1>8. k = 0 \/ k \in 1..n + 2 \/ k = n + 3
  BY <1>b
<1> QED BY <1>5, <1>6, <1>7, <1>8

\* The reader and a place in the bytes that come.
At(r, und, k) == IF und = <<>> THEN Waits(r) ELSE ReadsAt(r, Head(und), k)
Follows(r, und, k) == Place(und, k) /\ (At(r, und, k) \/ (MayClose /\ Misses(r, k)))

\* The next byte.
LEMMA FeedFollows ==
    ASSUME NEW r \in Readers, NEW und, NEW k, Follows(r, und, k), und # <<>>,
           MayClose => Quiet(Head(und)), NEW b, b = TxFrame(Head(und))[k + 1]
    PROVE  /\ Follows(Feed(r, b), After(und, k), Place1(und, k))
           /\ \/ Feed(r, b).delivered = r.delivered
              \/ Ends(und, k) /\ Feed(r, b).delivered = Append(r.delivered, Head(und))
           /\ ~MayClose => Feed(r, b).delivered =
                IF Ends(und, k) THEN Append(r.delivered, Head(und)) ELSE r.delivered
<1> DEFINE f == Head(und)  q == Feed(r, b)
<1>1. Place(und, k) /\ (ReadsAt(r, f, k) \/ (MayClose /\ Misses(r, k)))
  BY DEF Follows, At
<1>2. f \in Payloads /\ Len(f) \in Nat /\ k \in 0..Len(f) + 3
  BY <1>1, Undone DEF Place
<1>3. Place(After(und, k), Place1(und, k))
  BY <1>1, RestGoes
<1> HIDE DEF f, q
<1>4. CASE ReadsAt(r, f, k)
  <2>1. /\ k # Len(f) + 3 => ReadsAt(q, f, k + 1) /\ q.delivered = r.delivered
        /\ k = Len(f) + 3 => Waits(q) /\ q.delivered = Append(r.delivered, f)
    BY <1>2, <1>4, FeedInStep DEF f, q
  <2>2. CASE Ends(und, k)
    <3>1. k = Len(f) + 3 /\ After(und, k) = Tail(und) /\ Place1(und, k) = 0
      BY <2>2 DEF Ends, After, Place1, f
    <3>2. Waits(q)
      BY <2>1, <3>1
    <3>3. ASSUME NEW g \in Payloads PROVE ReadsAt(q, g, 0)
      <4>1. Len(g) \in Nat
        BY <3>3, TxFrameIs
      <4>2. 0 # 2 /\ 0 \notin 3..Len(g) + 2 /\ 0 # Len(g) + 3 /\ ~ (0 >= 3)
        BY <4>1
      <4> QED BY <3>2, <4>2, Zenon DEF ReadsAt, Waits
    <3>4. At(q, Tail(und), 0)
      <4>1. Tail(und) # <<>> => Head(Tail(und)) \in Payloads
        BY <1>1 DEF Place
      <4> QED BY <3>2, <3>3, <4>1 DEF At
    <3> QED BY <1>3, <2>1, <2>2, <3>1, <3>4 DEF Follows, f, q
  <2>3. CASE ~ Ends(und, k)
    <3>1. k # Len(f) + 3 /\ After(und, k) = und /\ Place1(und, k) = k + 1
      BY <2>3 DEF Ends, After, Place1, f
    <3>2. At(q, und, k + 1)
      BY <2>1, <3>1 DEF At, f
    <3> QED BY <1>3, <2>1, <2>3, <3>1, <3>2 DEF Follows, f, q
  <2> QED BY <2>2, <2>3
<1>5. CASE MayClose /\ Misses(r, k)
  <2>1. Quiet(f)
    BY <1>5 DEF f
  <2>2. /\ q.delivered = r.delivered
        /\ k = Len(f) + 3 => Misses(q, 0)
        /\ k # Len(f) + 3 => Misses(q, k + 1) \/ ReadsAt(q, f, k + 1)
    BY <1>2, <1>5, <2>1, FeedAstray DEF f, q
  <2>3. CASE Ends(und, k)
    <3>1. k = Len(f) + 3 /\ After(und, k) = Tail(und) /\ Place1(und, k) = 0
      BY <2>3 DEF Ends, After, Place1, f
    <3> QED BY <1>3, <1>5, <2>2, <3>1 DEF Follows, q
  <2>4. CASE ~ Ends(und, k)
    <3>1. k # Len(f) + 3 /\ After(und, k) = und /\ Place1(und, k) = k + 1
      BY <2>4 DEF Ends, After, Place1, f
    <3>2. Misses(q, k + 1) \/ At(q, und, k + 1)
      BY <2>2, <3>1 DEF At, f
    <3> QED BY <1>3, <1>5, <2>2, <3>1, <3>2 DEF Follows, q
  <2> QED BY <2>3, <2>4
<1> QED BY <1>1, <1>4, <1>5

\* The place in front of left when j of the frames have come, and what the reader
\* makes of them.
Reads(r, und, j, k, left) ==
    LET behind == SubSeq(und, j + 1, Len(und))
    IN  /\ Follows(r, behind, k)
        /\ left = Rest(behind, k)
        /\ \A i \in 1..Len(r.delivered) : \E x \in 1..Len(und) : r.delivered[i] = und[x]
        /\ ~MayClose => r.delivered = SubSeq(und, 1, j)

ReadsSome(r, und, left) == \E j \in 0..Len(und), k \in Nat : Reads(r, und, j, k, left)

\* One byte.
LEMMA ReadOne ==
    ASSUME NEW r \in Readers, NEW und \in Seq(Payloads), NEW left,
           MayClose => \A i \in 1..Len(und) : Quiet(und[i]),
           left # <<>>, ReadsSome(r, und, left)
    PROVE  ReadsSome(Feed(r, Head(left)), und, Tail(left))
<1> DEFINE n == Len(und)  b == Head(left)  q == Feed(r, b)
<1>1. PICK j \in 0..n, k \in Nat : Reads(r, und, j, k, left)
  BY DEF ReadsSome
<1> DEFINE behind == SubSeq(und, j + 1, n)
<1>2. /\ Follows(r, behind, k) /\ left = Rest(behind, k)
      /\ \A i \in 1..Len(r.delivered) : \E x \in 1..n : r.delivered[i] = und[x]
      /\ ~MayClose => r.delivered = SubSeq(und, 1, j)
  BY <1>1 DEF Reads
<1>3. Place(behind, k) /\ behind # <<>>
  BY <1>2 DEF Follows, Rest
<1>4. n \in Nat /\ j \in 0..n /\ \A i \in 1..n : und[i] \in Payloads
  OBVIOUS
<1>5. /\ j # n /\ j + 1 \in 1..n /\ Head(behind) = und[j + 1]
      /\ Tail(behind) = SubSeq(und, (j + 1) + 1, n)
  <2>1. j # n
    <3> SUFFICES ASSUME j = n PROVE FALSE
      OBVIOUS
    <3>1. SubSeq(und, n + 1, n) = <<>>
      BY <1>4, SubSeqEmpty
    <3> QED BY <1>3, <3>1
  <2>2. j + 1 \in 1..n /\ n \in j + 1..n
    BY <1>4, <2>1
  <2> QED BY <2>1, <2>2, HeadTailOfSubSeq
<1> HIDE DEF behind
<1>6. /\ b = TxFrame(Head(behind))[k + 1]
      /\ Tail(left) = Rest(After(behind, k), Place1(behind, k))
      /\ Place(After(behind, k), Place1(behind, k))
  BY <1>2, <1>3, RestGoes
<1>7. MayClose => Quiet(Head(behind))
  BY <1>5
<1> HIDE DEF b
<1>8. /\ Follows(q, After(behind, k), Place1(behind, k))
      /\ \/ q.delivered = r.delivered
         \/ Ends(behind, k) /\ q.delivered = Append(r.delivered, Head(behind))
      /\ ~MayClose => q.delivered =
           IF Ends(behind, k) THEN Append(r.delivered, Head(behind)) ELSE r.delivered
  BY <1>2, <1>3, <1>6, <1>7, FeedFollows
<1> HIDE DEF q
<1>9. \A i \in 1..Len(q.delivered) : \E x \in 1..n : q.delivered[i] = und[x]
  <2>1. CASE q.delivered = r.delivered
    BY <1>2, <2>1
  <2>2. CASE q.delivered = Append(r.delivered, Head(behind))
    <3> DEFINE d == r.delivered  e == q.delivered  h == Head(behind)
    <3>1. d \in Seq(Seq(Byte))
      BY DEF Readers
    <3>2. e = Append(d, h)
      BY <2>2
    <3>3. h = und[j + 1] /\ j + 1 \in 1..n
      BY <1>5
    <3>4. \A i \in 1..Len(d) : \E x \in 1..n : d[i] = und[x]
      BY <1>2
    <3> HIDE DEF d, e, h, n
    <3>5. Len(d) \in Nat /\ Len(e) = Len(d) + 1 /\ e[Len(d) + 1] = h
          /\ \A i \in 1..Len(d) : e[i] = d[i]
      BY <3>1, <3>2
    <3>6. \A i \in 1..Len(e) : i \in 1..Len(d) \/ i = Len(d) + 1
      BY <3>5
    <3>7. \A i \in 1..Len(e) : \E x \in 1..n : e[i] = und[x]
      BY <3>3, <3>4, <3>5, <3>6, Zenon
    <3> QED BY <3>7 DEF e, n
  <2> QED BY <1>8, <2>1, <2>2
<1>10. CASE Ends(behind, k)
  <2>1. After(behind, k) = Tail(behind) /\ Place1(behind, k) = 0
    BY <1>10 DEF After, Place1
  <2>2. ~MayClose => q.delivered = SubSeq(und, 1, j + 1)
    <3> SUFFICES ASSUME ~MayClose PROVE q.delivered = SubSeq(und, 1, j + 1)
      OBVIOUS
    <3>1. q.delivered = Append(SubSeq(und, 1, j), und[j + 1])
      BY <1>2, <1>5, <1>8, <1>10
    <3>2. Append(SubSeq(und, 1, j), und[j + 1]) = SubSeq(und, 1, j + 1)
      BY <1>4, <1>5
    <3> QED BY <3>1, <3>2
  <2>3. Reads(q, und, j + 1, 0, Tail(left))
    BY <1>5, <1>6, <1>8, <1>9, <2>1, <2>2, Zenon DEF Reads, n
  <2>4. j + 1 \in 0..n /\ 0 \in Nat
    BY <1>4, <1>5
  <2> QED BY <2>3, <2>4, Zenon DEF ReadsSome, n, q, b
<1>11. CASE ~ Ends(behind, k)
  <2>1. After(behind, k) = behind /\ Place1(behind, k) = k + 1
    BY <1>11 DEF After, Place1
  <2>2. ~MayClose => q.delivered = SubSeq(und, 1, j)
    BY <1>2, <1>8, <1>11
  <2>3. Reads(q, und, j, k + 1, Tail(left))
    BY <1>6, <1>8, <1>9, <2>1, <2>2, Zenon DEF Reads, behind, n
  <2>4. k + 1 \in Nat
    OBVIOUS
  <2> QED BY <2>3, <2>4, Zenon DEF ReadsSome, n, q, b
<1> QED BY <1>10, <1>11

\* readComplete on the bytes in front of more.
LEMMA ReadAll ==
    ASSUME NEW r \in Readers, NEW und \in Seq(Payloads), NEW k,
           MayClose => \A i \in 1..Len(und) : Quiet(und[i]),
           r.delivered = <<>>, Follows(r, und, k),
           NEW bytes \in Seq(Byte), NEW more \in Seq(Byte), bytes \o more = Rest(und, k)
    PROVE  /\ FoldLeft(Feed, r, bytes) \in Readers
           /\ ReadsSome(FoldLeft(Feed, r, bytes), und, more)
<1> DEFINE n == Len(bytes)  left == [i \in 0..n |-> SubSeq(bytes, i + 1, n) \o more]
<1>1. PICK run \in [0..n -> Readers] :
        FeedsOn(run, r, bytes) /\ FoldLeft(Feed, r, bytes) = run[n]
  BY FeedRun
<1>2. n \in Nat
  OBVIOUS
<1>3. left[0] = bytes \o more /\ left[n] = more
  <2>1. SubSeq(bytes, n + 1, n) = <<>> /\ SubSeq(bytes, 1, n) = bytes /\ <<>> \o more = more
    BY SubSeqEmpty, SubSeqFull, ConcatEmptySeq
  <2>2. 0 \in 0..n /\ n \in 0..n /\ 0 + 1 = 1
    BY <1>2
  <2>3. left[0] = SubSeq(bytes, 0 + 1, n) \o more /\ left[n] = SubSeq(bytes, n + 1, n) \o more
    BY <2>2, Zenon
  <2> QED BY <2>1, <2>2, <2>3, Zenon
<1>4. ASSUME NEW i \in 0..n, i # n
      PROVE  left[i] # <<>> /\ Head(left[i]) = bytes[i + 1] /\ Tail(left[i]) = left[i + 1]
  <2> DEFINE a == SubSeq(bytes, i + 1, n)  c == SubSeq(bytes, i + 2, n)
  <2>1. i + 1 \in 1..n /\ n \in i + 1..n /\ (i + 1) + 1 = i + 2 /\ i + 1 \in 0..n
    BY <1>2, <1>4
  <2>2. Head(a) = bytes[i + 1] /\ Tail(a) = c
    BY <2>1, HeadTailOfSubSeq
  <2>3. a \in Seq(Byte) /\ Len(a) = n - i
    BY <2>1
  <2>4. a # <<>>
    <3>1. Len(a) # 0
      <4> HIDE DEF a, n
      <4> QED BY <1>2, <1>4, <2>3
    <3> HIDE DEF a
    <3> QED BY <3>1
  <2>5. left[i] = a \o more
    OBVIOUS
  <2>6. left[i + 1] = c \o more
    <3>1. left[i + 1] = SubSeq(bytes, (i + 1) + 1, n) \o more
      BY <2>1, Zenon
    <3> QED BY <2>1, <3>1, Zenon
  <2> HIDE DEF a, c, left
  <2>7. a \o more # <<>> /\ Head(a \o more) = Head(a) /\ Tail(a \o more) = Tail(a) \o more
    <3>1. HeadStays(a, more)
      BY <2>3, <2>4, FirstOfJoined, Zenon
    <3> QED BY <3>1, Zenon DEF HeadStays
  <2> QED BY <2>2, <2>5, <2>6, <2>7
<1> HIDE DEF left
<1> DEFINE S == {i \in 0..n : ReadsSome(run[i], und, left[i])}
<1>5. 0 \in S
  <2>1. run[0] = r /\ left[0] = Rest(und, k)
    BY <1>1, <1>3 DEF FeedsOn
  <2>2. SubSeq(und, 1, Len(und)) = und /\ SubSeq(und, 1, 0) = <<>> /\ 0 \in 0..Len(und)
        /\ 0 + 1 = 1 /\ k \in Nat
    BY SubSeqFull, SubSeqEmpty DEF Follows, Place
  <2>3. Len(r.delivered) = 0
    OBVIOUS
  <2>4. \A i \in 1..Len(r.delivered) : \E x \in 1..Len(und) : r.delivered[i] = und[x]
    BY <2>3
  <2>5. Reads(r, und, 0, k, Rest(und, k))
    BY <2>2, <2>4, Zenon DEF Reads
  <2>6. ReadsSome(run[0], und, left[0])
    BY <2>1, <2>2, <2>5, Zenon DEF ReadsSome
  <2> QED BY <1>2, <2>6
<1>6. ASSUME NEW i \in 0..n, i \in S, i # n PROVE i + 1 \in S
  <2>1. i + 1 \in 1..n /\ (i + 1) - 1 = i /\ i + 1 \in 0..n
    BY <1>2, <1>6
  <2>2. run[i + 1] = Feed(run[i], bytes[i + 1])
    BY <1>1, <2>1 DEF FeedsOn
  <2>3. left[i] # <<>> /\ Head(left[i]) = bytes[i + 1] /\ Tail(left[i]) = left[i + 1]
    BY <1>4, <1>6
  <2>4. ReadsSome(run[i], und, left[i]) /\ run[i] \in Readers
    BY <1>6
  <2> HIDE DEF S, n
  <2>5. ReadsSome(Feed(run[i], Head(left[i])), und, Tail(left[i]))
    BY <2>3, <2>4, ReadOne
  <2> QED BY <2>1, <2>2, <2>3, <2>5 DEF S
<1> HIDE DEF S, n
<1>7. 0..n \subseteq S
  BY <1>2, <1>5, <1>6, UpTo
<1>8. ReadsSome(run[n], und, left[n]) /\ n \in 0..n
  BY <1>2, <1>7 DEF S
<1> QED BY <1>1, <1>3, <1>8

-----------------------------------------------------------------------------
(* The ring *)

\* A sum and a difference of two positions.
Stepped(n, a, b) ==
    /\ a + b < n => (a + b) % n = a + b
    /\ a + b >= n => (a + b) % n = a + b - n
    /\ a >= b => (a - b) % n = a - b
    /\ a < b => (a - b) % n = a - b + n
    /\ (a + b) % n \in 0..n - 1
    /\ (a - b) % n \in 0..n - 1

\* The remainder of either is one step around the ring at most.
LEMMA Steps ==
    ASSUME NEW n \in Nat \ {0}, NEW a \in 0..n - 1, NEW b \in 0..n - 1
    PROVE  Stepped(n, a, b)
<1>1. a + b \in Int /\ a - b \in Int
  OBVIOUS
<1>2. ASSUME a + b < n PROVE (a + b) % n = a + b
  <2>1. a + b \in 0..n - 1
    BY <1>2
  <2> QED BY <1>1, <2>1, Modulo, Zenon
<1>3. ASSUME a + b >= n PROVE (a + b) % n = a + b - n
  <2> DEFINE c == a + b
  <2>1. c \in Int /\ c \in n..2 * n - 1
    BY <1>3
  <2> HIDE DEF c
  <2>2. c % n = c - n
    BY <2>1, Modulo
  <2> QED BY <2>2 DEF c
<1>4. ASSUME a >= b PROVE (a - b) % n = a - b
  <2>1. a - b \in 0..n - 1
    BY <1>4
  <2> QED BY <1>1, <2>1, Modulo, Zenon
<1>5. ASSUME a < b PROVE (a - b) % n = a - b + n
  <2>1. a - b \in -n..-1
    BY <1>5
  <2> QED BY <1>1, <2>1, Modulo, Zenon
<1>6. (a + b) % n \in 0..n - 1 /\ (a - b) % n \in 0..n - 1
  BY <1>1
<1> QED BY <1>2, <1>3, <1>4, <1>5, <1>6 DEF Stepped

\* Positions of a ring of n bytes, count of which are from r to w: where the bytes
\* behind r are, seen from w, and what m bytes more make of count.
Arc(n, r, w, count) ==
    /\ count \in 0..n - 1 /\ (count = 0 <=> w = r)
    /\ count = IF w >= r THEN w - r ELSE n - (r - w)
    /\ \A j \in 0..n - 1 :
         /\ (r + j) % n \in 0..n - 1
         /\ (((r + j) % n) - w) % n = IF j >= count THEN j - count ELSE n - (count - j)
    /\ \A m \in 0..n - 1 : count + m < n =>
         /\ (w + m) % n \in 0..n - 1
         /\ (((w + m) % n) - r) % n = count + m

\* The remainder counts them.
LEMMA Around ==
    ASSUME NEW n \in Nat \ {0}, NEW r \in 0..n - 1, NEW w \in 0..n - 1
    PROVE  Arc(n, r, w, (w - r) % n)
<1> DEFINE count == (w - r) % n
<1>1. /\ count \in 0..n - 1
      /\ w >= r => count = w - r
      /\ w < r => count = w - r + n
  <2>1. Stepped(n, w, r)
    BY Steps, Zenon
  <2> QED BY <2>1 DEF Stepped
<1>0. n \in Int /\ r \in Int /\ w \in Int /\ 0 <= r /\ r < n /\ 0 <= w /\ w < n
  OBVIOUS
<1> HIDE DEF count
<1>2. /\ count = 0 <=> w = r
      /\ count = IF w >= r THEN w - r ELSE n - (r - w)
  BY <1>1
<1>3. ASSUME NEW j \in 0..n - 1
      PROVE  /\ (r + j) % n \in 0..n - 1
             /\ (((r + j) % n) - w) % n = IF j >= count THEN j - count ELSE n - (count - j)
  <2> DEFINE p == (r + j) % n  d == (p - w) % n
  <2>1. /\ r + j < n => p = r + j
        /\ r + j >= n => p = r + j - n
        /\ p \in 0..n - 1
    <3>1. Stepped(n, r, j)
      BY Steps, Zenon
    <3> QED BY <3>1 DEF Stepped
  <2> HIDE DEF p
  <2>2. /\ p >= w => d = p - w
        /\ p < w => d = p - w + n
        /\ d \in 0..n - 1
    <3>1. Stepped(n, p, w)
      BY <2>1, Steps, Zenon
    <3> QED BY <3>1 DEF Stepped
  <2> HIDE DEF d
  <2>3. d = IF j >= count THEN j - count ELSE n - (count - j)
    BY <1>1, <2>1, <2>2
  <2> QED BY <2>1, <2>3 DEF p, d
<1>4. ASSUME NEW m \in 0..n - 1, count + m < n
      PROVE  /\ (w + m) % n \in 0..n - 1
             /\ (((w + m) % n) - r) % n = count + m
  <2> DEFINE p == (w + m) % n  d == (p - r) % n
  <2>1. /\ w + m < n => p = w + m
        /\ w + m >= n => p = w + m - n
        /\ p \in 0..n - 1
    <3>1. Stepped(n, w, m)
      BY Steps, Zenon
    <3> QED BY <3>1 DEF Stepped
  <2> HIDE DEF p
  <2>2. /\ p >= r => d = p - r
        /\ p < r => d = p - r + n
        /\ d \in 0..n - 1
    <3>1. Stepped(n, p, r)
      BY <2>1, Steps, Zenon
    <3> QED BY <3>1 DEF Stepped
  <2> HIDE DEF d
  <2>3. d = count + m
    BY <1>1, <1>4, <2>1, <2>2
  <2> QED BY <2>1, <2>3 DEF p, d
<1>5. Arc(n, r, w, count)
  BY <1>1, <1>2, <1>3, <1>4, Zenon DEF Arc
<1> QED BY <1>5 DEF count

\* The bytes from skip behind the read position r to the write position w.
Ring(buf, w, r, skip) ==
    [i \in 1..((w - r) % TRANSMIT_BUF_SIZE) - skip |->
       buf[(r + skip + i - 1) % TRANSMIT_BUF_SIZE]]

IsRing(seq, buf, w, r, skip) ==
    /\ seq \in Seq(Byte)
    /\ Len(seq) = ((w - r) % TRANSMIT_BUF_SIZE) - skip
    /\ \A i \in 1..((w - r) % TRANSMIT_BUF_SIZE) - skip :
         seq[i] = buf[(r + (skip + i - 1)) % TRANSMIT_BUF_SIZE]

\* They are bytes.
LEMMA RingIs ==
    ASSUME NEW buf \in [Slots -> Byte], NEW w \in Slots, NEW r \in Slots,
           NEW skip \in {0, 1}, skip = 1 => w # r
    PROVE  IsRing(Ring(buf, w, r, skip), buf, w, r, skip)
<1> DEFINE n == TRANSMIT_BUF_SIZE  count == (w - r) % n
<1>1. n \in Nat \ {0} /\ r \in 0..n - 1 /\ w \in 0..n - 1
  BY BuffersAssumption DEF Slots
<1>2. /\ count \in 0..n - 1 /\ (count = 0 <=> w = r)
      /\ \A j \in 0..n - 1 : (r + j) % n \in 0..n - 1
  <2> HIDE DEF n
  <2>1. Arc(n, r, w, count)
    BY <1>1, Around, Zenon
  <2> HIDE DEF count
  <2> QED BY <2>1, Zenon DEF Arc
<1>3. \A i \in 1..count - skip : buf[(r + skip + i - 1) % n] \in Byte
                                 /\ r + skip + i - 1 = r + (skip + i - 1)
  <2> SUFFICES ASSUME NEW i \in 1..count - skip
               PROVE  /\ buf[(r + skip + i - 1) % n] \in Byte
                      /\ r + skip + i - 1 = r + (skip + i - 1)
    OBVIOUS
  <2> HIDE DEF count, n
  <2>1. skip + i - 1 \in 0..n - 1 /\ r + skip + i - 1 = r + (skip + i - 1)
    BY <1>1, <1>2
  <2>2. (r + (skip + i - 1)) % n \in 0..n - 1
    BY <1>2, <2>1
  <2> QED BY <2>1, <2>2 DEF Slots, n
<1>4. count - skip \in Nat
  <2> HIDE DEF count, n
  <2> QED BY <1>1, <1>2
<1>5. Ring(buf, w, r, skip) = [i \in 1..count - skip |-> buf[(r + skip + i - 1) % n]]
  BY DEF Ring
<1> HIDE DEF count, n
<1>6. /\ Ring(buf, w, r, skip) \in Seq(Byte)
      /\ Len(Ring(buf, w, r, skip)) = count - skip
      /\ \A i \in 1..count - skip : Ring(buf, w, r, skip)[i] = buf[(r + skip + i - 1) % n]
  BY <1>3, <1>4, <1>5
<1>7. \A i \in 1..count - skip :
        Ring(buf, w, r, skip)[i] = buf[(r + (skip + i - 1)) % n]
  BY <1>3, <1>6
<1> QED BY <1>6, <1>7, Zenon DEF IsRing, count, n

\* The byte at the read position is the first of them.
LEMMA RingTakes ==
    ASSUME NEW buf \in [Slots -> Byte], NEW w \in Slots, NEW r \in Slots, w # r
    PROVE  /\ Ring(buf, w, r, 0) # <<>>
           /\ Head(Ring(buf, w, r, 0)) = buf[r]
           /\ Tail(Ring(buf, w, r, 0)) = Ring(buf, w, r, 1)
           /\ buf[r] \in Byte
<1> DEFINE n == TRANSMIT_BUF_SIZE  count == (w - r) % n
           a == Ring(buf, w, r, 0)  b == Ring(buf, w, r, 1)
<1>1. n \in Nat \ {0} /\ r \in 0..n - 1 /\ w \in 0..n - 1
  BY BuffersAssumption DEF Slots
<1>2. count \in 1..n - 1
  <2>1. count \in 0..n - 1 /\ count # 0
    <3> HIDE DEF n
    <3>1. Arc(n, r, w, count)
      BY <1>1, Around, Zenon
    <3> HIDE DEF count
    <3> QED BY <3>1, Zenon DEF Arc
  <2> HIDE DEF count, n
  <2> QED BY <1>1, <2>1
<1>3. /\ a \in Seq(Byte) /\ Len(a) = count - 0
      /\ \A i \in 1..count - 0 : a[i] = buf[(r + (0 + i - 1)) % n]
      /\ b \in Seq(Byte) /\ Len(b) = count - 1
      /\ \A i \in 1..count - 1 : b[i] = buf[(r + (1 + i - 1)) % n]
  <2>1. 0 \in {0, 1} /\ 1 \in {0, 1} /\ (0 = 1 => w # r)
    OBVIOUS
  <2>2. IsRing(a, buf, w, r, 0) /\ IsRing(b, buf, w, r, 1)
    BY <2>1, RingIs, Zenon
  <2> HIDE DEF a, b
  <2> QED BY <2>2, Zenon DEF IsRing
<1>4. (r + 0) % n = r
  BY <1>1, Modulo
<1> HIDE DEF a, b, count, n
<1>5. a[1] = buf[r] /\ Len(a) = count
  <2>1. 1 \in 1..count - 0 /\ 0 + 1 - 1 = 0 /\ count - 0 = count
    BY <1>1, <1>2
  <2>2. a[1] = buf[(r + (0 + 1 - 1)) % n]
    BY <1>3, <2>1
  <2> QED BY <1>3, <1>4, <2>1, <2>2
<1>6. ASSUME NEW i \in 1..count - 1 PROVE a[i + 1] = b[i]
  <2>1. i + 1 \in 1..count - 0 /\ 0 + (i + 1) - 1 = 1 + i - 1
    BY <1>1, <1>2
  <2> QED BY <1>3, <2>1
<1>7. a # <<>>
  <2>1. Len(a) # 0
    BY <1>2, <1>5
  <2> QED BY <2>1
<1>8. Tail(a) \in Seq(Byte) /\ Len(Tail(a)) = count - 1
      /\ \A i \in 1..count - 1 : Tail(a)[i] = a[i + 1]
  BY <1>2, <1>3, <1>5, <1>7
<1>9. Tail(a) = b
  <2> DEFINE t == Tail(a)
  <2>1. t \in Seq(Byte) /\ Len(t) = Len(b) /\ \A i \in 1..Len(t) : t[i] = b[i]
    BY <1>3, <1>6, <1>8
  <2> HIDE DEF t
  <2>2. t = b
    BY <1>3, <2>1, SeqEqual
  <2> QED BY <2>2 DEF t
<1>10. Head(a) = a[1]
  BY <1>3, <1>7
<1>11. buf[r] \in Byte
  OBVIOUS
<1> QED BY <1>5, <1>7, <1>9, <1>10, <1>11 DEF a, b

\* The read position moves over a byte that has been written.
LEMMA RingAdvances ==
    ASSUME NEW buf \in [Slots -> Byte], NEW w \in Slots, NEW r \in Slots, w # r
    PROVE  Ring(buf, w, (r + 1) % TRANSMIT_BUF_SIZE, 0) = Ring(buf, w, r, 1)
<1> DEFINE n == TRANSMIT_BUF_SIZE  count == (w - r) % n  p == (r + 1) % n
           a == Ring(buf, w, p, 0)  b == Ring(buf, w, r, 1)
<1>1. /\ n \in Nat /\ n >= 2 /\ n \in Nat \ {0}
      /\ r \in 0..n - 1 /\ w \in 0..n - 1
  BY BuffersAssumption DEF Slots
<1>2. /\ count \in 1..n - 1
      /\ w >= r => count = w - r
      /\ w < r => count = w - r + n
  <2>1. count \in 0..n - 1 /\ count # 0
    <3> HIDE DEF n
    <3>1. Arc(n, r, w, count)
      BY <1>1, Around, Zenon
    <3> HIDE DEF count
    <3> QED BY <3>1, Zenon DEF Arc
  <2>2. /\ w >= r => count = w - r
        /\ w < r => count = w - r + n
    <3>1. Stepped(n, w, r)
      BY <1>1, Steps, Zenon
    <3> QED BY <3>1 DEF Stepped
  <2> HIDE DEF count, n
  <2> QED BY <1>1, <2>1, <2>2
<1>3. /\ r + 1 < n => p = r + 1
      /\ r + 1 >= n => p = r + 1 - n
  <2>1. 1 \in 0..n - 1
    BY <1>1
  <2>2. Stepped(n, r, 1)
    BY <1>1, <2>1, Steps, Zenon
  <2> QED BY <2>2 DEF Stepped
<1>4. p \in 0..n - 1
  <2> HIDE DEF p, n, count
  <2> QED BY <1>1, <1>3
<1> DEFINE less == (w - p) % n
<1>5. less = count - 1
  <2>1. /\ w >= p => less = w - p
        /\ w < p => less = w - p + n
    <3> HIDE DEF p
    <3>1. Stepped(n, w, p)
      BY <1>1, <1>4, Steps, Zenon
    <3> QED BY <3>1 DEF Stepped
  <2> HIDE DEF p, n, count, less
  <2> QED BY <1>1, <1>2, <1>3, <2>1
<1>6. /\ a \in Seq(Byte) /\ Len(a) = less - 0
      /\ \A i \in 1..less - 0 : a[i] = buf[(p + (0 + i - 1)) % n]
      /\ b \in Seq(Byte) /\ Len(b) = count - 1
      /\ \A i \in 1..count - 1 : b[i] = buf[(r + (1 + i - 1)) % n]
  <2>1. p \in Slots
    BY <1>4 DEF Slots
  <2> HIDE DEF a, b, p
  <2>2. /\ a \in Seq(Byte) /\ Len(a) = less - 0
        /\ \A i \in 1..less - 0 : a[i] = buf[(p + (0 + i - 1)) % n]
    <3>1. 0 \in {0, 1} /\ (0 = 1 => w # p)
      OBVIOUS
    <3>2. IsRing(a, buf, w, p, 0)
      BY <2>1, <3>1, RingIs, Zenon DEF a
    <3> QED BY <3>2, Zenon DEF IsRing
  <2>3. /\ b \in Seq(Byte) /\ Len(b) = count - 1
        /\ \A i \in 1..count - 1 : b[i] = buf[(r + (1 + i - 1)) % n]
    <3>1. 1 \in {0, 1}
      OBVIOUS
    <3>2. IsRing(b, buf, w, r, 1)
      BY <3>1, RingIs, Zenon DEF b
    <3> QED BY <3>2, Zenon DEF IsRing
  <2> HIDE DEF n, count, less
  <2> QED BY <2>2, <2>3
<1>7. ASSUME NEW j \in 0..count - 2 PROVE (p + j) % n = (r + (j + 1)) % n
  <2> DEFINE x == (p + j) % n  y == (r + (j + 1)) % n
  <2>1. /\ p + j < n => x = p + j
        /\ p + j >= n => x = p + j - n
    <3>1. j \in 0..n - 1
      <4> HIDE DEF n, count
      <4> QED BY <1>1, <1>2
    <3> HIDE DEF p
    <3>2. Stepped(n, p, j)
      BY <1>1, <1>4, <3>1, Steps, Zenon
    <3> QED BY <3>2 DEF Stepped
  <2>2. /\ r + (j + 1) < n => y = r + (j + 1)
        /\ r + (j + 1) >= n => y = r + (j + 1) - n
    <3>1. j + 1 \in 0..n - 1
      <4> HIDE DEF n, count
      <4> QED BY <1>1, <1>2
    <3>2. Stepped(n, r, j + 1)
      BY <1>1, <3>1, Steps, Zenon
    <3> QED BY <3>2 DEF Stepped
  <2> HIDE DEF p, n, count, x, y
  <2>3. x = y
    BY <1>1, <1>2, <1>3, <1>4, <2>1, <2>2
  <2> QED BY <2>3 DEF x, y
<1> HIDE DEF a, b, p, n, count, less
<1>8. ASSUME NEW i \in 1..count - 1 PROVE a[i] = b[i]
  <2>1. /\ i - 1 \in 0..count - 2 /\ 0 + i - 1 = i - 1 /\ 1 + i - 1 = (i - 1) + 1
        /\ i \in 1..less - 0
    BY <1>1, <1>2, <1>5
  <2> QED BY <1>6, <1>7, <2>1
<1>9. Len(a) = Len(b)
  BY <1>2, <1>5, <1>6
<1>10. a = b
  BY <1>6, <1>8, <1>9, SeqEqual
<1> QED BY <1>10 DEF a, b, p, n

\* The buffer behind copy_to_tx_buffer.
Filled(buf, w, bytes) ==
    [p \in Slots |->
       LET i == ((p - w) % TRANSMIT_BUF_SIZE) + 1
       IN  IF i \in DOMAIN bytes THEN bytes[i] ELSE buf[p]]

Room(w, r, bytes) ==
    ((w - r) % TRANSMIT_BUF_SIZE) + Len(bytes) < TRANSMIT_BUF_SIZE
Grown(filled, v, buf, w, r, skip, bytes) ==
    /\ filled \in [Slots -> Byte]
    /\ v \in Slots
    /\ w # r => v # r
    /\ Ring(filled, v, r, skip) = Ring(buf, w, r, skip) \o bytes

\* What is copied into the ring comes behind what is in it, if there is room.
LEMMA RingGrows ==
    ASSUME NEW buf \in [Slots -> Byte], NEW w \in Slots, NEW r \in Slots,
           NEW skip \in {0, 1}, skip = 1 => w # r, NEW bytes \in Seq(Byte),
           Room(w, r, bytes), NEW filled, filled = Filled(buf, w, bytes),
           NEW v, v = (w + Len(bytes)) % TRANSMIT_BUF_SIZE
    PROVE  Grown(filled, v, buf, w, r, skip, bytes)
<1> DEFINE n == TRANSMIT_BUF_SIZE  count == (w - r) % n  len == Len(bytes)
           a == Ring(buf, w, r, skip)  b == Ring(filled, v, r, skip)
<1>1. n \in Nat \ {0} /\ r \in 0..n - 1 /\ w \in 0..n - 1 /\ len \in Nat
  BY BuffersAssumption DEF Slots
<1>0. v = (w + len) % n
  OBVIOUS
<1>2. Arc(n, r, w, count)
  <2> HIDE DEF n
  <2> QED BY <1>1, Around, Zenon
<1>a. /\ count \in 0..n - 1 /\ (count = 0 <=> w = r)
      /\ \A j \in 0..n - 1 :
           /\ (r + j) % n \in 0..n - 1
           /\ (((r + j) % n) - w) % n = IF j >= count THEN j - count ELSE n - (count - j)
  <2> HIDE DEF n, count
  <2> QED BY <1>2, Zenon DEF Arc
<1>3. count + len < n
  BY DEF Room
<1>4. v \in 0..n - 1 /\ (v - r) % n = count + len
  <2> HIDE DEF n, count, len
  <2>1. len \in 0..n - 1
    BY <1>1, <1>a, <1>3
  <2> QED BY <1>0, <1>2, <1>3, <2>1, Zenon DEF Arc
<1>5. w # r => v # r
  <2> SUFFICES ASSUME v = r PROVE w = r
    OBVIOUS
  <2>1. (v - r) % n = 0
    <3>1. v - r = 0 /\ 0 \in 0..n - 1
      <4> HIDE DEF n
      <4> QED BY <1>1, <1>4
    <3> HIDE DEF n
    <3> QED BY <1>1, <3>1, Modulo
  <2> HIDE DEF n, count, len
  <2> QED BY <1>1, <1>a, <1>4, <2>1
<1>6. filled \in [Slots -> Byte]
  <2>1. \A i \in DOMAIN bytes : bytes[i] \in Byte
    OBVIOUS
  <2> QED BY <2>1 DEF Filled
<1>7. ASSUME NEW j \in 0..count - 1 PROVE filled[(r + j) % n] = buf[(r + j) % n]
  <2> DEFINE p == (r + j) % n  i == ((p - w) % n) + 1
  <2>1. j \in 0..n - 1 /\ ~ (j >= count)
    <3> HIDE DEF n, count
    <3> QED BY <1>1, <1>a
  <2>2. p \in 0..n - 1 /\ (p - w) % n = n - (count - j)
    <3> HIDE DEF n, count
    <3> QED BY <1>a, <2>1
  <2>3. i \notin DOMAIN bytes
    <3> DEFINE d == (p - w) % n
    <3>1. d = n - (count - j)
      BY <2>2
    <3> HIDE DEF n, count, d, p
    <3>2. d + 1 \notin 1..len
      <4> HIDE DEF len
      <4> QED BY <1>1, <1>a, <1>3, <3>1
    <3>3. DOMAIN bytes = 1..len
      OBVIOUS
    <3> QED BY <3>2, <3>3 DEF d
  <2>4. p \in Slots
    BY <2>2 DEF Slots
  <2> HIDE DEF p
  <2>5. filled[p] = IF i \in DOMAIN bytes THEN bytes[i] ELSE buf[p]
    BY <2>4 DEF Filled
  <2> QED BY <2>3, <2>5 DEF p
<1>8. ASSUME NEW j \in count..count + len - 1
      PROVE  filled[(r + j) % n] = bytes[j - count + 1]
  <2> DEFINE p == (r + j) % n  i == ((p - w) % n) + 1
  <2>1. j \in 0..n - 1 /\ j >= count
    <3> HIDE DEF n, count, len
    <3> QED BY <1>1, <1>a, <1>3
  <2>2. p \in 0..n - 1 /\ (p - w) % n = j - count
    <3> HIDE DEF n, count
    <3> QED BY <1>a, <2>1
  <2>3. i \in DOMAIN bytes /\ i = j - count + 1
    <3> DEFINE d == (p - w) % n
    <3>1. d = j - count
      BY <2>2
    <3> HIDE DEF n, d, p
    <3>2. d + 1 \in 1..len /\ d + 1 = j - count + 1
      <4> HIDE DEF len, count
      <4> QED BY <1>1, <1>a, <1>3, <3>1
    <3>3. DOMAIN bytes = 1..len
      OBVIOUS
    <3> HIDE DEF len, count
    <3> QED BY <3>2, <3>3 DEF d
  <2>4. p \in Slots
    BY <2>2 DEF Slots
  <2> HIDE DEF p
  <2>5. filled[p] = IF i \in DOMAIN bytes THEN bytes[i] ELSE buf[p]
    BY <2>4 DEF Filled
  <2> HIDE DEF i
  <2> QED BY <2>3, <2>5 DEF p
<1>9. /\ a \in Seq(Byte) /\ Len(a) = count - skip
      /\ \A i \in 1..count - skip : a[i] = buf[(r + (skip + i - 1)) % n]
  <2>1. IsRing(a, buf, w, r, skip)
    BY RingIs, Zenon
  <2> HIDE DEF a
  <2> QED BY <2>1, Zenon DEF IsRing
<1>10. v \in Slots
  BY <1>4 DEF Slots
<1>11. /\ b \in Seq(Byte) /\ Len(b) = (count + len) - skip
       /\ \A i \in 1..(count + len) - skip : b[i] = filled[(r + (skip + i - 1)) % n]
  <2> HIDE DEF b
  <2> DEFINE more == (v - r) % n
  <2>1. /\ b \in Seq(Byte) /\ Len(b) = more - skip
        /\ \A i \in 1..more - skip : b[i] = filled[(r + (skip + i - 1)) % n]
    <3>1. skip = 1 => v # r
      BY <1>5
    <3>2. IsRing(b, filled, v, r, skip)
      BY <1>6, <1>10, <3>1, RingIs, Zenon DEF b
    <3> QED BY <3>2, Zenon DEF IsRing
  <2> HIDE DEF n, count, len
  <2>2. more = count + len
    BY <1>4
  <2> HIDE DEF more
  <2> QED BY <2>1, <2>2, Zenon
<1>12. count - skip \in Nat
  <2> HIDE DEF n, count
  <2> QED BY <1>1, <1>a
<1> HIDE DEF a, b, n, count, len
<1>13. ASSUME NEW i \in 1..count - skip PROVE b[i] = a[i]
  <2>1. skip + i - 1 \in 0..count - 1 /\ i \in 1..(count + len) - skip
    BY <1>1, <1>a
  <2> QED BY <1>7, <1>9, <1>11, <2>1
<1>14. ASSUME NEW i \in 1..len PROVE b[i + (count - skip)] = bytes[i]
  <2> DEFINE x == i + (count - skip)
  <2>1. /\ skip + x - 1 \in count..count + len - 1 /\ x \in 1..(count + len) - skip
        /\ (skip + x - 1) - count + 1 = i
    BY <1>1, <1>a, <1>12
  <2> HIDE DEF x
  <2>2. b[x] = filled[(r + (skip + x - 1)) % n]
    BY <1>11, <2>1
  <2>3. filled[(r + (skip + x - 1)) % n] = bytes[(skip + x - 1) - count + 1]
    BY <1>8, <2>1
  <2>4. b[x] = bytes[i]
    BY <2>1, <2>2, <2>3
  <2> QED BY <2>4 DEF x
<1>15. b = a \o bytes
  <2> DEFINE c == a \o bytes
  <2>1. /\ c \in Seq(Byte) /\ Len(c) = (count - skip) + len
        /\ \A i \in 1..count - skip : c[i] = a[i]
        /\ \A i \in 1..len : c[i + (count - skip)] = bytes[i]
    <3>1. Joins(c, a, bytes)
      BY <1>9, Joined
    <3> QED BY <1>9, <3>1 DEF Joins, len
  <2> HIDE DEF c
  <2>2. Len(b) = Len(c)
    BY <1>1, <1>a, <1>11, <2>1
  <2>3. ASSUME NEW i \in 1..Len(b) PROVE b[i] = c[i]
    <3>1. i \in 1..count - skip \/ (i - (count - skip) \in 1..len
                                    /\ (i - (count - skip)) + (count - skip) = i)
      BY <1>1, <1>a, <1>11, <1>12
    <3> QED BY <1>13, <1>14, <2>1, <3>1
  <2> HIDE DEF c
  <2>4. b = c
    BY <1>11, <2>1, <2>2, <2>3, SeqEqual
  <2> QED BY <2>4 DEF c
<1> QED BY <1>5, <1>6, <1>10, <1>15 DEF Grown, a, b, n, len

-----------------------------------------------------------------------------
(* The types *)

Types ==
    /\ FramerTypeOK
    /\ reader \in Readers
    /\ m_active \in BOOLEAN
    /\ bus \in Seq(Byte)
    /\ line \in Seq(Byte) /\ Len(line) <= LineCapacity
    /\ undelivered \in Seq(Payloads)

\* What is accepted is a payload, and there is room for its frame in the ring.
LEMMA AcceptedIs ==
    ASSUME Types, Accepted
    PROVE  /\ Payload \in Payloads
           /\ Room(tx_write_pos, tx_read_pos, TxFrame(Payload))
<1> DEFINE n == TRANSMIT_BUF_SIZE  w == tx_write_pos  r == tx_read_pos
           count == (w - r) % n  len == Len(recv_buffer)  size == Len(Payload)
<1>1. /\ n \in Nat \ {0} /\ n <= 255 /\ r \in 0..n - 1 /\ w \in 0..n - 1
      /\ recv_buffer \in Seq(Byte) /\ len \in Nat /\ len <= 250 /\ len > 1
  <2>1. /\ r \in 0..n - 1 /\ w \in 0..n - 1
        /\ recv_buffer \in Seq(Byte) /\ len <= RECV_BUF_SIZE /\ len > 1
    BY DEF Types, FramerTypeOK, Slots, Accepted
  <2>2. len \in Nat
    BY <2>1
  <2> QED BY <2>1, <2>2, BuffersAssumption
<1>2. Payload \in Seq(Byte) /\ size = len - 1
  BY <1>1 DEF Payload, Front
<1>3. size \in 1..249
  <2> HIDE DEF len, size
  <2> QED BY <1>1, <1>2
<1>4. Payload \in Payloads
  <2>1. size \in 1..255
    <3> HIDE DEF size
    <3> QED BY <1>3
  <2> QED BY <1>2, <2>1 DEF Payloads
<1>5. Len(TxFrame(Payload)) = size + 4
  BY <1>4, TxFrameIs
<1>6. (IF w >= r THEN n - (w - r) ELSE r - w) >= (size + 5) % 256
  BY DEF Accepted, EnoughTxSpace
<1>7. (size + 5) % 256 = size + 5
  <2> HIDE DEF size
  <2> QED BY <1>3
<1>8. /\ count = IF w >= r THEN w - r ELSE n - (r - w)
      /\ count \in 0..n - 1
  <2> HIDE DEF n, w, r
  <2>1. Arc(n, r, w, count)
    BY <1>1, Around, Zenon
  <2> HIDE DEF count
  <2> QED BY <2>1, Zenon DEF Arc
<1>9. count + (size + 4) < n
  <2> DEFINE need == (size + 5) % 256
  <2>1. (IF w >= r THEN n - (w - r) ELSE r - w) >= need /\ need = size + 5
    BY <1>6, <1>7
  <2> HIDE DEF count, n, w, r, size, need
  <2> QED BY <1>1, <1>3, <1>8, <2>1
<1>10. count + Len(TxFrame(Payload)) < n
  <2> HIDE DEF count, n, size
  <2> QED BY <1>5, <1>9
<1> QED BY <1>4, <1>10 DEF Room

\* Skip is set between the writing of a byte and the move of the read position.
Skip == IF main = "advance" THEN 1 ELSE 0
RingInv == main # "check" => tx_write_pos # tx_read_pos

\* Unwritten is what is in the ring from there on.
LEMMA UnwrittenIs ==
    ASSUME Types, RingInv
    PROVE  /\ Unwritten = Ring(tx_buffer, tx_write_pos, tx_read_pos, Skip)
           /\ Unwritten \in Seq(Byte)
           /\ tx_buffer \in [Slots -> Byte] /\ tx_write_pos \in Slots /\ tx_read_pos \in Slots
           /\ Skip \in {0, 1} /\ (Skip = 1 => tx_write_pos # tx_read_pos)
<1>1. tx_buffer \in [Slots -> Byte] /\ tx_write_pos \in Slots /\ tx_read_pos \in Slots
  BY DEF Types, FramerTypeOK
<1>2. Skip \in {0, 1} /\ (Skip = 1 => tx_write_pos # tx_read_pos)
  <2>1. main = "advance" => tx_write_pos # tx_read_pos
    BY DEF RingInv
  <2>2. CASE main = "advance"
    BY <2>1, <2>2 DEF Skip
  <2>3. CASE main # "advance"
    BY <2>3 DEF Skip
  <2> QED BY <2>2, <2>3
<1>3. Unwritten = Ring(tx_buffer, tx_write_pos, tx_read_pos, Skip)
  BY DEF Unwritten, Ring, Skip
<1>4. IsRing(Unwritten, tx_buffer, tx_write_pos, tx_read_pos, Skip)
  BY <1>1, <1>2, <1>3, RingIs, Zenon
<1> QED BY <1>1, <1>2, <1>3, <1>4, Zenon DEF IsRing

\* What the steps of the framer do to the bytes in the ring: the interrupt puts a frame
\* behind them,
LEMMA FrameCopied ==
    ASSUME Types, RingInv, ReceiveBreak
    PROVE  /\ RingInv'
           /\ Accepted => Unwritten' = Unwritten \o TxFrame(Payload)
           /\ ~Accepted => Unwritten' = Unwritten
           /\ tx_buffer' \in [Slots -> Byte] /\ tx_write_pos' \in Slots
<1>1. /\ Unwritten = Ring(tx_buffer, tx_write_pos, tx_read_pos, Skip)
      /\ tx_buffer \in [Slots -> Byte] /\ tx_write_pos \in Slots /\ tx_read_pos \in Slots
      /\ Skip \in {0, 1} /\ (Skip = 1 => tx_write_pos # tx_read_pos)
  BY UnwrittenIs
<1>2. main' = main /\ tx_read_pos' = tx_read_pos /\ Skip' = Skip
  BY DEF ReceiveBreak, Skip
<1>3. Unwritten' = Ring(tx_buffer', tx_write_pos', tx_read_pos', Skip')
  BY DEF Unwritten, Ring, Skip
<1>4. CASE Accepted
  <2> DEFINE frame == TxFrame(Payload)
  <2>1. frame \in Seq(Byte)
    BY <1>4, AcceptedIs, TxFrameIs
  <2>2. Room(tx_write_pos, tx_read_pos, frame)
    BY <1>4, AcceptedIs
  <2>3. /\ tx_buffer' = Filled(tx_buffer, tx_write_pos, frame)
        /\ tx_write_pos' = (tx_write_pos + Len(frame)) % TRANSMIT_BUF_SIZE
    BY <1>4 DEF ReceiveBreak, CopyToTxBuffer, Filled
  <2> HIDE DEF frame
  <2>4. /\ tx_buffer' \in [Slots -> Byte] /\ tx_write_pos' \in Slots
        /\ tx_write_pos # tx_read_pos => tx_write_pos' # tx_read_pos
        /\ Ring(tx_buffer', tx_write_pos', tx_read_pos, Skip) =
             Ring(tx_buffer, tx_write_pos, tx_read_pos, Skip) \o frame
    <3>1. Grown(tx_buffer', tx_write_pos', tx_buffer, tx_write_pos, tx_read_pos, Skip, frame)
      BY <1>1, <2>1, <2>2, <2>3, RingGrows, Zenon
    <3> QED BY <3>1, Zenon DEF Grown
  <2>5. RingInv'
    BY <1>2, <2>4 DEF RingInv
  <2> QED BY <1>1, <1>2, <1>3, <1>4, <2>4, <2>5 DEF frame
<1>5. CASE ~Accepted
  <2>1. tx_buffer' = tx_buffer /\ tx_write_pos' = tx_write_pos
    BY <1>5 DEF ReceiveBreak
  <2>2. RingInv'
    BY <1>2, <2>1 DEF RingInv
  <2> QED BY <1>1, <1>2, <1>3, <1>5, <2>1, <2>2
<1> QED BY <1>4, <1>5

\* the main loop writes the first of them,
LEMMA ByteWritten ==
    ASSUME Types, RingInv, UartWrite
    PROVE  /\ RingInv'
           /\ Unwritten # <<>> /\ Head(Unwritten) = Written
           /\ Unwritten' = Tail(Unwritten)
           /\ Written \in Byte
<1>1. /\ Unwritten = Ring(tx_buffer, tx_write_pos, tx_read_pos, Skip)
      /\ tx_buffer \in [Slots -> Byte] /\ tx_write_pos \in Slots /\ tx_read_pos \in Slots
  BY UnwrittenIs
<1>2. main = "write" /\ main' = "advance" /\ UNCHANGED ring
  BY DEF UartWrite
<1>3. UNCHANGED <<tx_buffer, tx_write_pos, tx_read_pos>>
  BY <1>2 DEF ring
<1>4. Skip = 0 /\ Skip' = 1
  BY <1>2 DEF Skip
<1>5. tx_write_pos # tx_read_pos
  BY <1>2 DEF RingInv
<1>6. Unwritten' = Ring(tx_buffer, tx_write_pos, tx_read_pos, 1)
  BY <1>2, <1>3 DEF Unwritten, Ring
<1>7. RingInv'
  BY <1>2, <1>3, <1>5 DEF RingInv
<1> QED BY <1>1, <1>4, <1>5, <1>6, <1>7, RingTakes DEF Written

\* and neither the move of the read position behind it
LEMMA PositionMoved ==
    ASSUME Types, RingInv, Advance
    PROVE  /\ RingInv'
           /\ Unwritten' = Unwritten
           /\ tx_read_pos' \in Slots
<1>1. /\ Unwritten = Ring(tx_buffer, tx_write_pos, tx_read_pos, Skip)
      /\ tx_buffer \in [Slots -> Byte] /\ tx_write_pos \in Slots /\ tx_read_pos \in Slots
  BY UnwrittenIs
<1>2. /\ main = "advance" /\ main' = "check"
      /\ tx_read_pos' = (tx_read_pos + 1) % TRANSMIT_BUF_SIZE
      /\ UNCHANGED <<tx_buffer, tx_write_pos>>
  BY DEF Advance
<1>3. Skip = 1 /\ Skip' = 0
  BY <1>2 DEF Skip
<1>4. tx_write_pos # tx_read_pos
  BY <1>2 DEF RingInv
<1>5. Unwritten' = Ring(tx_buffer, tx_write_pos, (tx_read_pos + 1) % TRANSMIT_BUF_SIZE, 0)
  BY <1>2 DEF Unwritten, Ring
<1>6. RingInv'
  BY <1>2 DEF RingInv
<1>7. tx_read_pos' \in Slots
  <2> DEFINE n == TRANSMIT_BUF_SIZE
  <2>1. n \in Nat \ {0} /\ tx_read_pos \in 0..n - 1 /\ 1 \in 0..n - 1
    BY <1>1, BuffersAssumption DEF Slots
  <2> HIDE DEF n
  <2>2. (tx_read_pos + 1) % n \in 0..n - 1
    <3>1. Stepped(n, tx_read_pos, 1)
      BY <2>1, Steps, Zenon
    <3> QED BY <3>1 DEF Stepped
  <2> QED BY <1>2, <2>2 DEF Slots, n
<1> QED BY <1>1, <1>3, <1>4, <1>5, <1>6, <1>7, RingAdvances

\* nor the look at the positions before it changes anything.
LEMMA DataSeen ==
    ASSUME RingInv, HasData
    PROVE  RingInv' /\ Unwritten' = Unwritten
<1>1. /\ main = "check" /\ main' = "write" /\ tx_write_pos # tx_read_pos
      /\ UNCHANGED <<tx_buffer, tx_write_pos, tx_read_pos>>
  BY DEF HasData, ring
<1> QED BY <1>1 DEF RingInv, Unwritten

\* The other steps leave the ring alone.
LEMMA RingKept ==
    ASSUME RingInv, UNCHANGED <<ring, main>>
    PROVE  RingInv' /\ Unwritten' = Unwritten
BY DEF RingInv, Unwritten, ring

\* A step of any kind.
LEMMA TypesStep ==
    ASSUME Types, RingInv, [Next]_vars
    PROVE  Types' /\ RingInv'
<1>0. /\ recv_buffer \in Seq(Byte) /\ Len(recv_buffer) <= RECV_BUF_SIZE
      /\ recv_valid \in BOOLEAN
      /\ tx_buffer \in [Slots -> Byte] /\ tx_write_pos \in Slots /\ tx_read_pos \in Slots
      /\ main \in {"check", "write", "advance"}
      /\ reader \in Readers /\ m_active \in BOOLEAN /\ bus \in Seq(Byte)
      /\ line \in Seq(Byte) /\ Len(line) <= LineCapacity
      /\ undelivered \in Seq(Payloads)
  BY DEF Types, FramerTypeOK
<1> USE DEF Types, FramerTypeOK
<1>1. CASE BusByte
  <2>1. /\ Head(bus) \in Byte /\ Tail(bus) \in Seq(Byte)
    BY <1>0, <1>1 DEF BusByte
  <2>2. /\ UNCHANGED <<recv_valid, ring, main>> /\ bus' = Tail(bus)
        /\ UNCHANGED <<reader, m_active, line, undelivered>>
    BY <1>1 DEF BusByte, ReceiveByte, readerVars
  <2>3. recv_buffer' \in Seq(Byte) /\ Len(recv_buffer') <= RECV_BUF_SIZE
    <3>1. RECV_BUF_SIZE \in Nat /\ Len(recv_buffer) \in Nat
      BY <1>0, BuffersAssumption
    <3>2. CASE recv_valid /\ Len(recv_buffer) < RECV_BUF_SIZE
      <4>1. recv_buffer' = Append(recv_buffer, Head(bus))
        BY <1>1, <3>2 DEF BusByte, ReceiveByte
      <4>2. recv_buffer' \in Seq(Byte) /\ Len(recv_buffer') = Len(recv_buffer) + 1
        BY <1>0, <2>1, <4>1
      <4> QED BY <3>1, <3>2, <4>2
    <3>3. CASE ~ (recv_valid /\ Len(recv_buffer) < RECV_BUF_SIZE)
      BY <1>0, <1>1, <3>3 DEF BusByte, ReceiveByte
    <3> QED BY <3>2, <3>3
  <2>4. RingInv'
    BY <2>2, RingKept
  <2>5. UNCHANGED <<tx_buffer, tx_write_pos, tx_read_pos>>
    BY <2>2 DEF ring
  <2> QED BY <1>0, <2>1, <2>2, <2>3, <2>4, <2>5
<1>2. CASE BusBreak
  <2>1. /\ ReceiveBreak /\ bus' \in BusFrames
        /\ UNCHANGED <<reader, m_active, line>>
        /\ recv_buffer' = <<>> /\ recv_valid' = TRUE /\ UNCHANGED <<tx_read_pos, main>>
    BY <1>2 DEF BusBreak, ReceiveBreak, readerVars
  <2>2. RingInv' /\ tx_buffer' \in [Slots -> Byte] /\ tx_write_pos' \in Slots
    BY <2>1, FrameCopied
  <2>3. undelivered' \in Seq(Payloads)
    <3>1. CASE Accepted /\ ~MayClose
      <4>1. Payload \in Payloads /\ undelivered' = Append(undelivered, Payload)
        BY <1>2, <3>1, AcceptedIs DEF BusBreak
      <4> QED BY <1>0, <4>1
    <3>2. CASE ~ (Accepted /\ ~MayClose)
      BY <1>0, <1>2, <3>2 DEF BusBreak
    <3> QED BY <3>1, <3>2
  <2>4. bus' \in Seq(Byte)
    BY <2>1, FramePathAssumption
  <2>5. recv_buffer' \in Seq(Byte) /\ Len(recv_buffer') <= RECV_BUF_SIZE
    <3>1. <<>> \in Seq(Byte) /\ Len(<<>>) = 0 /\ 0 <= RECV_BUF_SIZE
      BY BuffersAssumption
    <3> QED BY <2>1, <3>1
  <2> QED BY <1>0, <2>1, <2>2, <2>3, <2>4, <2>5
<1>3. CASE LineWrite
  <2>1. /\ UartWrite /\ UNCHANGED <<reader, m_active, bus, undelivered>>
        /\ UNCHANGED <<recv_buffer, recv_valid, tx_buffer, tx_write_pos, tx_read_pos>>
        /\ main' = "advance"
    BY <1>3 DEF LineWrite, UartWrite, readerVars, ring
  <2>2. RingInv' /\ Written \in Byte
    BY <2>1, ByteWritten
  <2>3. line' \in Seq(Byte) /\ Len(line') <= LineCapacity
    <3>1. LineCapacity \in Nat /\ Len(line) \in Nat /\ Len(line) < LineCapacity
      BY <1>0, <1>3, FramePathAssumption DEF LineWrite
    <3>2. CASE m_active
      <4>1. line' = Append(line, Written)
        BY <1>3, <3>2 DEF LineWrite
      <4>2. line' \in Seq(Byte) /\ Len(line') = Len(line) + 1
        BY <1>0, <2>2, <4>1
      <4> QED BY <3>1, <4>2
    <3>3. CASE ~m_active
      BY <1>0, <1>3, <3>3 DEF LineWrite
    <3> QED BY <3>2, <3>3
  <2> QED BY <1>0, <2>1, <2>2, <2>3
<1>4. CASE (HasData \/ Advance) /\ UNCHANGED <<readerVars, bus, line, undelivered>>
  <2>1. UNCHANGED <<reader, m_active, bus, line, undelivered>>
    BY <1>4 DEF readerVars
  <2>2. CASE HasData
    BY <1>0, <2>1, <2>2, DataSeen DEF HasData, ring
  <2>3. CASE Advance
    <3>1. RingInv' /\ tx_read_pos' \in Slots
      BY <2>3, PositionMoved
    <3> QED BY <1>0, <2>1, <2>3, <3>1 DEF Advance
  <2> QED BY <1>4, <2>2, <2>3
<1>5. CASE LineRead
  <2>1. PICK n \in 1..Len(line) :
          /\ ReadComplete(SubSeq(line, 1, n))
          /\ line' = SubSeq(line, n + 1, Len(line))
    BY <1>5 DEF LineRead
  <2>2. /\ UNCHANGED <<recv_buffer, recv_valid, ring, main, bus, m_active>>
    BY <1>5, <2>1 DEF LineRead, framerVars, ReadComplete
  <2> DEFINE r == [reader EXCEPT !.delivered = <<>>]  bytes == SubSeq(line, 1, n)
  <2>3. r \in Readers
    <3>1. <<>> \in Seq(Seq(Byte))
      OBVIOUS
    <3> QED BY <1>0, <3>1 DEF Readers
  <2>4. bytes \in Seq(Byte) /\ Len(bytes) \in 0..Len(bytes)
    BY <1>0
  <2>5. reader' \in Readers
    <3>1. reader' = FoldLeft(Feed, r, bytes)
      BY <2>1 DEF ReadComplete
    <3> HIDE DEF r, bytes
    <3>2. FoldLeft(Feed, r, bytes) \in Readers
      <4>1. PICK run \in [0..Len(bytes) -> Readers] :
              FeedsOn(run, r, bytes) /\ FoldLeft(Feed, r, bytes) = run[Len(bytes)]
        BY <2>3, <2>4, FeedRun
      <4> QED BY <2>4, <4>1
    <3> QED BY <3>1, <3>2
  <2>6. line' \in Seq(Byte) /\ Len(line') <= LineCapacity
    <3>1. LineCapacity \in Nat
      BY FramePathAssumption
    <3>2. line' \in Seq(Byte) /\ Len(line') = Len(line) - n /\ Len(line) \in Nat
      BY <1>0, <2>1
    <3> QED BY <1>0, <3>1, <3>2
  <2>7. undelivered' \in Seq(Payloads)
    <3>1. CASE MayClose
      BY <1>5, <3>1 DEF LineRead
    <3>2. CASE ~MayClose
      <4> DEFINE m == Len(reader'.delivered)
      <4>1. undelivered' = SubSeq(undelivered, m + 1, Len(undelivered))
        BY <1>5, <3>2 DEF LineRead
      <4>2. m \in Nat
        BY <2>5 DEF Readers
      <4> HIDE DEF m
      <4> QED BY <1>0, <4>1, <4>2
    <3> QED BY <3>1, <3>2
  <2>8. RingInv'
    BY <2>2, RingKept
  <2>9. UNCHANGED <<tx_buffer, tx_write_pos, tx_read_pos>>
    BY <2>2 DEF ring
  <2> QED BY <1>0, <2>2, <2>5, <2>6, <2>7, <2>8, <2>9
<1>6. CASE LineClosed \/ LineOpened
  <2>1. /\ UNCHANGED <<recv_buffer, recv_valid, ring, main, bus, undelivered>>
        /\ m_active' \in BOOLEAN
    BY <1>6 DEF LineClosed, LineOpened, framerVars, DoClose, NewHandler
  <2>2. reader' \in Readers
    <3>1. <<>> \in Seq(Seq(Byte)) /\ <<>> \in Seq(Byte) /\ 0 \in Byte /\ 0 \in Nat
      BY DEF Byte
    <3>2. CASE LineClosed
      BY <1>0, <3>1, <3>2 DEF LineClosed, DoClose, Readers
    <3>3. CASE LineOpened
      BY <3>1, <3>3 DEF LineOpened, NewHandler, NewReader, Readers, States
    <3> QED BY <1>6, <3>2, <3>3
  <2>3. line' \in Seq(Byte) /\ Len(line') <= LineCapacity
    <3>1. <<>> \in Seq(Byte) /\ Len(<<>>) <= LineCapacity
      BY FramePathAssumption
    <3>2. line' = <<>> \/ line' = line
      BY <1>6 DEF LineClosed, LineOpened
    <3> QED BY <1>0, <3>1, <3>2
  <2>4. RingInv'
    BY <2>1, RingKept
  <2>5. UNCHANGED <<tx_buffer, tx_write_pos, tx_read_pos>>
    BY <2>1 DEF ring
  <2> QED BY <1>0, <2>1, <2>2, <2>3, <2>4, <2>5
<1>7. CASE UNCHANGED vars
  <2>1. UNCHANGED <<recv_buffer, recv_valid, ring, main, reader, m_active, bus, line,
                    undelivered>>
    BY <1>7 DEF vars, framerVars, readerVars
  <2>2. RingInv'
    BY <2>1, RingKept
  <2> QED BY <1>0, <2>1, <2>2 DEF ring
<1> QED BY <1>1, <1>2, <1>3, <1>4, <1>5, <1>6, <1>7 DEF Next, MainLoop

\* The state the system starts in.
LEMMA TypesInit ==
    ASSUME Init
    PROVE  Types /\ RingInv
<1>1. <<>> \in Seq(Byte) /\ <<>> \in Seq(Seq(Byte)) /\ <<>> \in Seq(Payloads)
      /\ Len(<<>>) = 0 /\ 0 \in Byte /\ 0 \in Nat /\ 0 \in Slots
      /\ 0 <= RECV_BUF_SIZE /\ 0 <= LineCapacity
  BY BuffersAssumption, FramePathAssumption DEF Byte, Slots
<1>2. FramerTypeOK
  BY <1>1 DEF Init, FramerInit, FramerTypeOK
<1>3. reader \in Readers /\ m_active \in BOOLEAN
  BY <1>1 DEF Init, ReaderInit, NewReader, Readers, States
<1>4. bus \in Seq(Byte)
  <2>1. PICK f \in BusFrames : \E n \in 0..Len(f) : bus = SubSeq(f, n + 1, Len(f))
    BY DEF Init
  <2>2. f \in Seq(Byte)
    BY FramePathAssumption
  <2> QED BY <2>1, <2>2
<1> QED BY <1>1, <1>2, <1>3, <1>4 DEF Types, RingInv, Init, FramerInit

\* The buffers and positions of framer and reader stay within their bounds, whatever
\* their sizes and whatever is on the bus.
THEOREM TypeCorrect == Spec => []TypeOK
<1>1. Init => Types /\ RingInv
  BY TypesInit
<1>2. (Types /\ RingInv) /\ [Next]_vars => (Types /\ RingInv)'
  BY TypesStep
<1>3. Types /\ RingInv => TypeOK
  BY DEF Types, TypeOK, ReaderTypeOK, Readers, States, Byte
<1> QED BY <1>1, <1>2, <1>3, PTL DEF Spec

-----------------------------------------------------------------------------
(* The way of the frames *)

\* Frames that fit into the framer's buffer and in which nothing but the checksum of
\* the serial frame may be 0xaa.
Plain ==
    \A f \in BusFrames :
        /\ Len(f) <= RECV_BUF_SIZE /\ Len(f) # 171
        /\ \A i \in 1..Len(f) - 1 : f[i] # 170

FromBus(data) == \E f \in BusFrames : data = Front(f)

\* The frames und are under way: the first k bytes of the first one are gone, what is
\* on the line l and unwritten in the ring, u, is the rest, and the reader r follows
\* unless the line is closed.  ud is the history of what has not been handed on.
Way(und, k, l, u, r, open, ud) ==
    /\ Place(und, k)
    /\ l \o u = Rest(und, k)
    /\ open => Follows(r, und, k)
    /\ ~open => l = <<>> /\ MayClose
    /\ ~MayClose => und = ud
    /\ Plain => \A i \in 1..Len(und) : Quiet(und[i]) /\ FromBus(und[i])

\* A reader that has just begun follows at any place if the line may be closed.
LEMMA NewFollows ==
    ASSUME MayClose, NEW und, NEW k, Place(und, k)
    PROVE  Follows(NewReader, und, k) /\ NewReader \in Readers /\ NewReader.delivered = <<>>
<1>1. NewReader.state = "Syncing" /\ NewReader.pos = 0 /\ NewReader.data = <<>>
  BY DEF NewReader
<1>2. NewReader \in Readers /\ NewReader.delivered = <<>>
  <2>1. <<>> \in Seq(Byte) /\ <<>> \in Seq(Seq(Byte)) /\ 0 \in Byte /\ 0 \in Nat
    BY DEF Byte
  <2> QED BY <2>1 DEF NewReader, Readers, States
<1> QED BY <1>1, <1>2 DEF Follows, Misses

\* A frame more.
LEMMA WayGrows ==
    ASSUME NEW und, NEW k, NEW l \in Seq(Byte), NEW u \in Seq(Byte), NEW r, NEW open,
           NEW ud, Way(und, k, l, u, r, open, ud), NEW data \in Payloads,
           Plain => Quiet(data) /\ FromBus(data),
           NEW more, ~MayClose => more = Append(ud, data)
    PROVE  Way(Append(und, data), k, l, u \o TxFrame(data), r, open, more)
<1> DEFINE longer == Append(und, data)
<1>1. Place(und, k) /\ l \o u = Rest(und, k) /\ und \in Seq(Payloads)
  BY DEF Way, Place
<1>2. Rest(longer, k) = Rest(und, k) \o TxFrame(data) /\ Place(longer, k)
  BY <1>1, RestGrows
<1>3. l \o (u \o TxFrame(data)) = (l \o u) \o TxFrame(data)
  <2>1. TxFrame(data) \in Seq(Byte)
    BY TxFrameIs
  <2>2. Regrouped(l, u, TxFrame(data))
    BY <2>1, Regroup, Zenon
  <2> QED BY <2>2 DEF Regrouped
<1>4. open => Follows(r, longer, k)
  <2> SUFFICES ASSUME open, At(r, und, k) PROVE At(r, longer, k)
    BY <1>2 DEF Way, Follows
  <2>1. longer # <<>>
    <3>1. Len(longer) = Len(und) + 1 /\ Len(und) \in Nat
      BY <1>1
    <3> HIDE DEF longer
    <3> QED BY <3>1
  <2>2. CASE und # <<>>
    <3>1. Head(longer) = Head(und)
      BY <1>1, <2>2, HeadTailAppend
    <3> QED BY <2>1, <2>2, <3>1 DEF At
  <2>3. CASE und = <<>>
    <3>1. Head(longer) = data /\ k = 0
      BY <1>1, <2>3 DEF Place
    <3>2. Waits(r)
      BY <2>3 DEF At
    <3>3. ReadsAt(r, data, 0)
      <4>1. Len(data) \in Nat
        BY TxFrameIs
      <4>2. 0 # 2 /\ 0 \notin 3..Len(data) + 2 /\ 0 # Len(data) + 3 /\ ~ (0 >= 3)
        BY <4>1
      <4> QED BY <3>2, <4>2, Zenon DEF ReadsAt, Waits
    <3> HIDE DEF longer
    <3> QED BY <2>1, <3>1, <3>3 DEF At
  <2> QED BY <2>2, <2>3
<1>5. Plain => \A i \in 1..Len(longer) : Quiet(longer[i]) /\ FromBus(longer[i])
  <2> SUFFICES ASSUME Plain, NEW i \in 1..Len(longer)
               PROVE  Quiet(longer[i]) /\ FromBus(longer[i])
    OBVIOUS
  <2>1. (i \in 1..Len(und) /\ longer[i] = und[i]) \/ longer[i] = data
    BY <1>1
  <2> QED BY <2>1 DEF Way
<1> HIDE DEF longer
<1>6. ~MayClose => longer = more
  BY DEF Way, longer
<1>7. ~open => l = <<>> /\ MayClose
  BY DEF Way
<1> QED BY <1>1, <1>2, <1>3, <1>4, <1>5, <1>6, <1>7 DEF Way, longer

\* A byte is written to the line.
LEMMA WayWrites ==
    ASSUME NEW und, NEW k, NEW l \in Seq(Byte), NEW u \in Seq(Byte), NEW r, NEW open,
           NEW ud, Way(und, k, l, u, r, open, ud), u # <<>>
    PROVE  /\ open => Way(und, k, Append(l, Head(u)), Tail(u), r, open, ud)
           /\ ~open => Way(After(und, k), Place1(und, k), l, Tail(u), r, open, ud)
<1>1. Place(und, k) /\ l \o u = Rest(und, k) /\ und \in Seq(Payloads)
  BY DEF Way, Place
<1>2. ASSUME open PROVE Way(und, k, Append(l, Head(u)), Tail(u), r, open, ud)
  <2>1. Append(l, Head(u)) \o Tail(u) = l \o u
    <3> DEFINE b == Head(u)  t == Tail(u)
    <3>1. u = <<b>> \o t /\ b \in Byte /\ t \in Seq(Byte)
      OBVIOUS
    <3> HIDE DEF b, t
    <3>2. Append(l, b) = l \o <<b>> /\ <<b>> \in Seq(Byte)
      BY <3>1
    <3>3. (l \o <<b>>) \o t = l \o (<<b>> \o t)
      <4>1. Regrouped(l, <<b>>, t)
        BY <3>1, <3>2, Regroup, Zenon
      <4> QED BY <4>1 DEF Regrouped
    <3>4. Append(l, b) \o t = l \o u
      BY <3>1, <3>2, <3>3
    <3> QED BY <3>4 DEF b, t
  <2> QED BY <1>2, <2>1 DEF Way
<1>3. ASSUME ~open PROVE Way(After(und, k), Place1(und, k), l, Tail(u), r, open, ud)
  <2>1. l = <<>> /\ MayClose
    BY <1>3 DEF Way
  <2>2. l \o u = u /\ l \o Tail(u) = Tail(u)
    BY <2>1
  <2>3. u = Rest(und, k)
    BY <1>1, <2>2
  <2>4. und # <<>>
    BY <2>3 DEF Rest
  <2>5. Tail(u) = Rest(After(und, k), Place1(und, k)) /\ Place(After(und, k), Place1(und, k))
    BY <1>1, <2>3, <2>4, RestGoes
  <2>6. Plain => \A i \in 1..Len(After(und, k)) :
                   Quiet(After(und, k)[i]) /\ FromBus(After(und, k)[i])
    <3>1. CASE Ends(und, k)
      <4>1. After(und, k) = Tail(und)
        BY <3>1 DEF After
      <4>2. \A i \in 1..Len(Tail(und)) : i + 1 \in 1..Len(und) /\ Tail(und)[i] = und[i + 1]
        BY <1>1, <2>4
      <4> QED BY <4>1, <4>2 DEF Way
    <3>2. CASE ~Ends(und, k)
      BY <3>2 DEF After, Way
    <3> QED BY <3>1, <3>2
  <2> QED BY <1>3, <2>1, <2>2, <2>5, <2>6 DEF Way
<1> QED BY <1>2, <1>3

\* The frames behind the first j of them.
Onward(und, l, u, r, open, ud) ==
    \E j \in 0..Len(und), m \in Nat : Way(SubSeq(und, j + 1, Len(und)), m, l, u, r, open, ud)

\* The reader gets the first bytes of the line.
LEMMA WayRead ==
    ASSUME NEW und, NEW k, NEW bytes \in Seq(Byte), NEW l \in Seq(Byte),
           NEW u \in Seq(Byte), NEW r \in Readers, NEW ud,
           Way(und, k, bytes \o l, u, r, TRUE, ud), ~MayClose \/ Plain,
           NEW r0, r0 = [r EXCEPT !.delivered = <<>>],
           NEW q, q = FoldLeft(Feed, r0, bytes),
           NEW left, ~MayClose => left = SubSeq(ud, Len(q.delivered) + 1, Len(ud))
    PROVE  /\ Onward(und, l, u, q, TRUE, left)
           /\ ~MayClose => IsPrefix(q.delivered, ud)
           /\ Plain => \A i \in 1..Len(q.delivered) : FromBus(q.delivered[i])
<1>1. /\ Place(und, k) /\ und \in Seq(Payloads) /\ Follows(r, und, k)
      /\ (bytes \o l) \o u = Rest(und, k)
      /\ ~MayClose => und = ud
      /\ Plain => \A i \in 1..Len(und) : Quiet(und[i]) /\ FromBus(und[i])
  BY DEF Way, Place
<1>2. /\ r0 \in Readers /\ r0.delivered = <<>>
      /\ r0.state = r.state /\ r0.pos = r.pos /\ r0.length = r.length
      /\ r0.checkSum = r.checkSum /\ r0.data = r.data
  <2>1. <<>> \in Seq(Seq(Byte))
    OBVIOUS
  <2> QED BY <2>1 DEF Readers
<1>3. Follows(r0, und, k)
  <2>1. Waits(r) => Waits(r0)
    BY <1>2 DEF Waits
  <2>2. Misses(r, k) => Misses(r0, k)
    BY <1>2, Zenon DEF Misses
  <2>3. ReadsAt(r, Head(und), k) => ReadsAt(r0, Head(und), k)
    BY <1>2, Zenon DEF ReadsAt
  <2> QED BY <1>1, <2>1, <2>2, <2>3 DEF Follows, At
<1>4. bytes \o (l \o u) = Rest(und, k) /\ l \o u \in Seq(Byte)
  <2>1. (bytes \o l) \o u = bytes \o (l \o u)
    <3>1. Regrouped(bytes, l, u)
      BY Regroup, Zenon
    <3> QED BY <3>1 DEF Regrouped
  <2>2. l \o u \in Seq(Byte)
    BY ConcatProperties
  <2> QED BY <1>1, <2>1, <2>2, Zenon
<1>5. MayClose => \A i \in 1..Len(und) : Quiet(und[i])
  BY <1>1
<1>6. ReadsSome(q, und, l \o u)
  BY <1>1, <1>2, <1>3, <1>4, <1>5, ReadAll
<1>7. PICK j \in 0..Len(und), m \in Nat : Reads(q, und, j, m, l \o u)
  BY <1>6, Zenon DEF ReadsSome
<1> DEFINE behind == SubSeq(und, j + 1, Len(und))
<1>8. /\ Follows(q, behind, m)
      /\ l \o u = Rest(behind, m)
      /\ \A i \in 1..Len(q.delivered) : \E x \in 1..Len(und) : q.delivered[i] = und[x]
      /\ ~MayClose => q.delivered = SubSeq(und, 1, j)
  BY <1>7, Zenon DEF Reads
<1>9. ~MayClose => behind = left /\ IsPrefix(q.delivered, ud)
  <2> SUFFICES ASSUME ~MayClose PROVE behind = left /\ IsPrefix(q.delivered, ud)
    OBVIOUS
  <2>1. Len(und) \in Nat /\ j \in Nat /\ j <= Len(und) /\ und = ud
    BY <1>1
  <2> DEFINE d == q.delivered
  <2>2. d = SubSeq(und, 1, j)
    BY <1>8
  <2> HIDE DEF d
  <2>3. Len(d) = j /\ d \in Seq(Payloads)
    BY <1>1, <2>1, <2>2
  <2>4. left = SubSeq(und, j + 1, Len(und))
    BY <2>1, <2>3 DEF d
  <2>5. SubSeq(d, 1, Len(d)) = d
    BY <2>3, SubSeqFull
  <2>6. IsPrefix(d, ud)
    BY <2>1, <2>2, <2>3, <2>5 DEF IsPrefix
  <2> QED BY <2>4, <2>6 DEF d
<1>10. \A i \in 1..Len(behind) : \E x \in 1..Len(und) : behind[i] = und[x]
  <2> DEFINE n == Len(und)
  <2>1. n \in Nat /\ j \in 0..n
    BY <1>1
  <2>2. Len(behind) = n - j /\ \A i \in 1..n - j : behind[i] = und[i + j]
    <3>1. und \in Seq(Payloads)
      BY <1>1
    <3>2. EndOf(und, j)
      BY <2>1, <3>1, EndIs, Zenon DEF n
    <3> QED BY <3>2, Zenon DEF EndOf, behind, n
  <2> HIDE DEF behind, n
  <2>3. \A i \in 1..n - j : i + j \in 1..n
    BY <2>1
  <2> QED BY <2>2, <2>3 DEF n
<1>11. Plain => \A i \in 1..Len(behind) : Quiet(behind[i]) /\ FromBus(behind[i])
  <2> HIDE DEF behind
  <2> QED BY <1>1, <1>10
<1>12. Plain => \A i \in 1..Len(q.delivered) : FromBus(q.delivered[i])
  BY <1>1, <1>8
<1>13. Way(behind, m, l, u, q, TRUE, left)
  <2>1. Place(behind, m)
    BY <1>8, Zenon DEF Follows
  <2> HIDE DEF behind
  <2> QED BY <1>8, <1>9, <1>11, <2>1, Zenon DEF Way
<1>14. Onward(und, l, u, q, TRUE, left)
  BY <1>13, Zenon DEF Onward
<1> QED BY <1>9, <1>12, <1>14

\* What is on the line is lost: it is what a new reader would have passed over.
LEMMA WayCloses ==
    ASSUME MayClose, Plain, NEW und, NEW k, NEW l \in Seq(Byte), NEW u \in Seq(Byte),
           NEW r, NEW open, NEW ud, Way(und, k, l, u, r, open, ud), NEW q, NEW left
    PROVE  Onward(und, <<>>, u, q, FALSE, left)
<1>1. /\ Place(und, k) /\ und \in Seq(Payloads) /\ l \o u = Rest(und, k)
      /\ \A i \in 1..Len(und) : Quiet(und[i]) /\ FromBus(und[i])
  BY DEF Way, Place
<1>2. Follows(NewReader, und, k) /\ NewReader \in Readers /\ NewReader.delivered = <<>>
  BY <1>1, NewFollows
<1> DEFINE p == FoldLeft(Feed, NewReader, l)
<1>3. ReadsSome(p, und, u)
  <2>1. MayClose => \A i \in 1..Len(und) : Quiet(und[i])
    BY <1>1
  <2> QED BY <1>1, <1>2, <2>1, ReadAll
<1> HIDE DEF p
<1>4. PICK j \in 0..Len(und), m \in Nat : Reads(p, und, j, m, u)
  BY <1>3, Zenon DEF ReadsSome
<1> DEFINE behind == SubSeq(und, j + 1, Len(und))
<1>5. Place(behind, m) /\ u = Rest(behind, m)
  BY <1>4, Zenon DEF Reads, Follows
<1>6. \A i \in 1..Len(behind) : \E x \in 1..Len(und) : behind[i] = und[x]
  <2> DEFINE n == Len(und)
  <2>1. n \in Nat /\ j \in 0..n
    BY <1>1
  <2>2. Len(behind) = n - j /\ \A i \in 1..n - j : behind[i] = und[i + j]
    <3>1. und \in Seq(Payloads)
      BY <1>1
    <3>2. EndOf(und, j)
      BY <2>1, <3>1, EndIs, Zenon DEF n
    <3> QED BY <3>2, Zenon DEF EndOf, behind, n
  <2> HIDE DEF behind, n
  <2>3. \A i \in 1..n - j : i + j \in 1..n
    BY <2>1
  <2> QED BY <2>2, <2>3 DEF n
<1>7. Way(behind, m, <<>>, u, q, FALSE, left)
  <2>1. \A i \in 1..Len(behind) : Quiet(behind[i]) /\ FromBus(behind[i])
    <3> HIDE DEF behind
    <3> QED BY <1>1, <1>6
  <2>2. <<>> \o u = u
    BY ConcatEmptySeq
  <2> HIDE DEF behind
  <2> QED BY <1>5, <2>1, <2>2 DEF Way
<1> QED BY <1>7, Zenon DEF Onward

-----------------------------------------------------------------------------
(* The invariant *)

Collected == Plain /\ recv_valid => recv_buffer \o bus \in BusFrames

UnderWay ==
    \E und, k : Way(und, k, line, Unwritten, reader, m_active, undelivered)

\* The framer's buffer and the bus hold one frame.
LEMMA CollectedStep ==
    ASSUME Types, Collected, [Next]_vars
    PROVE  Collected'
<1> SUFFICES ASSUME Plain PROVE Collected'
  BY DEF Collected
<1>1. CASE BusByte
  <2>1. bus # <<>> /\ recv_valid' = recv_valid /\ bus' = Tail(bus)
    BY <1>1 DEF BusByte, ReceiveByte
  <2>2. bus \in Seq(Byte) /\ recv_buffer \in Seq(Byte)
    BY DEF Types, FramerTypeOK
  <2> SUFFICES ASSUME recv_valid PROVE recv_buffer' \o bus' \in BusFrames
    BY <2>1 DEF Collected
  <2>3. recv_buffer \o bus \in BusFrames
    BY DEF Collected
  <2>4. Len(recv_buffer \o bus) <= RECV_BUF_SIZE
    BY <2>3 DEF Plain
  <2>5. Len(recv_buffer) < RECV_BUF_SIZE
    <3>1. Len(recv_buffer \o bus) = Len(recv_buffer) + Len(bus) /\ Len(bus) # 0
      BY <2>1, <2>2
    <3>2. Len(recv_buffer) \in Nat /\ Len(bus) \in Nat /\ RECV_BUF_SIZE \in Nat
      BY <2>2, BuffersAssumption
    <3> QED BY <2>4, <3>1, <3>2
  <2>6. recv_buffer' = Append(recv_buffer, Head(bus))
    BY <1>1, <2>5 DEF BusByte, ReceiveByte
  <2>7. Append(recv_buffer, Head(bus)) \o Tail(bus) = recv_buffer \o bus
    <3> DEFINE b == Head(bus)  t == Tail(bus)
    <3>1. bus = <<b>> \o t /\ b \in Byte /\ t \in Seq(Byte)
      BY <2>1, <2>2
    <3> HIDE DEF b, t
    <3>2. Append(recv_buffer, b) = recv_buffer \o <<b>> /\ <<b>> \in Seq(Byte)
      BY <2>2, <3>1
    <3>3. (recv_buffer \o <<b>>) \o t = recv_buffer \o (<<b>> \o t)
      <4>1. Regrouped(recv_buffer, <<b>>, t)
        BY <2>2, <3>1, <3>2, Regroup, Zenon
      <4> QED BY <4>1 DEF Regrouped
    <3>4. Append(recv_buffer, b) \o t = recv_buffer \o bus
      BY <3>1, <3>2, <3>3
    <3> QED BY <3>4 DEF b, t
  <2> QED BY <2>1, <2>3, <2>6, <2>7
<1>2. CASE BusBreak
  <2>1. recv_buffer' = <<>> /\ bus' \in BusFrames
    BY <1>2 DEF BusBreak, ReceiveBreak
  <2>2. bus' \in Seq(Byte)
    BY <2>1, FramePathAssumption
  <2>3. <<>> \o bus' = bus'
    BY <2>2, ConcatEmptySeq
  <2> QED BY <2>1, <2>3 DEF Collected
<1>3. CASE UNCHANGED <<recv_buffer, recv_valid, bus>>
  BY <1>3 DEF Collected
<1>4. MainLoop \/ LineRead \/ LineClosed \/ LineOpened \/ UNCHANGED vars
        => UNCHANGED <<recv_buffer, recv_valid, bus>>
  BY DEF MainLoop, LineWrite, UartWrite, HasData, Advance, LineRead, LineClosed, LineOpened,
         vars, framerVars
<1> QED BY <1>1, <1>2, <1>3, <1>4 DEF Next

\* A frame that is accepted was on the bus.
LEMMA AcceptedPlain ==
    ASSUME Types, Collected, Plain, Accepted, bus = <<>>
    PROVE  Quiet(Payload) /\ FromBus(Payload)
<1>1. recv_buffer \in Seq(Byte) /\ recv_valid
  BY DEF Types, FramerTypeOK, Accepted
<1>2. recv_buffer \in BusFrames
  <2>1. recv_buffer \o <<>> = recv_buffer
    BY <1>1, ConcatEmptySeq
  <2> QED BY <1>1, <2>1 DEF Collected
<1>3. FromBus(Payload)
  BY <1>2 DEF FromBus, Payload
<1>4. Payload \in Payloads
  BY AcceptedIs
<1> DEFINE f == recv_buffer  n == Len(f)
<1>5. Len(f) # 171 /\ \A i \in 1..Len(f) - 1 : f[i] # 170
  BY <1>2 DEF Plain
<1>6. /\ Len(Payload) = n - 1 /\ n \in Nat
      /\ \A i \in 1..n - 1 : Payload[i] = f[i]
  <2>1. n \in Nat /\ n > 1
    BY <1>1 DEF Accepted
  <2> QED BY <1>1, <2>1 DEF Payload, Front
<1>7. Quiet(Payload)
  <2> DEFINE d == Payload
  <2>1. Len(d) = n - 1 /\ \A i \in 1..n - 1 : d[i] = f[i] /\ f[i] # 170
    <3>1. \A i \in 1..n - 1 : f[i] # 170
      BY <1>5
    <3>2. Len(d) = n - 1 /\ \A i \in 1..n - 1 : d[i] = f[i]
      BY <1>6
    <3> HIDE DEF d, n, f
    <3> QED BY <3>1, <3>2, Zenon
  <2>2. n \in Nat /\ n # 171
    BY <1>5, <1>6
  <2> HIDE DEF d, n, f
  <2>3. n - 1 # 170
    BY <2>2
  <2>4. Len(d) # 170 /\ \A i \in 1..Len(d) : d[i] # 170
    BY <2>1, <2>3
  <2> QED BY <2>4 DEF Quiet, d
<1> QED BY <1>3, <1>7

\* The reader gets some bytes.
LEMMA ReadStep ==
    ASSUME Types, RingInv, ~MayClose \/ Plain, UnderWay, LineRead
    PROVE  /\ UnderWay'
           /\ ~MayClose => IsPrefix(reader'.delivered, undelivered)
           /\ Plain => NeverForged'
<1>1. PICK n \in 1..Len(line) :
        /\ ReadComplete(SubSeq(line, 1, n))
        /\ line' = SubSeq(line, n + 1, Len(line))
  BY DEF LineRead
<1> DEFINE bytes == SubSeq(line, 1, n)  l == SubSeq(line, n + 1, Len(line))
           r0 == [reader EXCEPT !.delivered = <<>>]
<1>2. /\ line \in Seq(Byte) /\ reader \in Readers /\ m_active \in BOOLEAN
      /\ Unwritten \in Seq(Byte) /\ reader' \in Readers
  <2>1. Types'
    BY TypesStep DEF Next
  <2> QED BY <2>1, UnwrittenIs DEF Types
<1>3. bytes \in Seq(Byte) /\ l \in Seq(Byte) /\ line = bytes \o l
  <2>1. bytes \in Seq(Byte) /\ l \in Seq(Byte)
    BY <1>2
  <2>2. bytes \o l = line
    <3>1. 1 \in 1..Len(line) + 1 /\ n \in 1 - 1..Len(line) /\ Len(line) \in n..Len(line)
      BY <1>2
    <3>2. bytes \o l = SubSeq(line, 1, Len(line))
      BY <1>2, <3>1, ConcatAdjacentSubSeq
    <3> QED BY <1>2, <3>2, SubSeqFull
  <2> QED BY <2>1, <2>2
<1>4. /\ m_active = TRUE /\ m_active' = TRUE
      /\ reader' = FoldLeft(Feed, r0, bytes)
  BY <1>1, <1>2 DEF ReadComplete
<1>5. Unwritten' = Unwritten
  BY RingKept DEF LineRead, framerVars
<1>6. ~MayClose => undelivered' =
        SubSeq(undelivered, Len(reader'.delivered) + 1, Len(undelivered))
  BY DEF LineRead
<1>7. PICK und, k : Way(und, k, line, Unwritten, reader, m_active, undelivered)
  BY DEF UnderWay
<1> HIDE DEF bytes, l
<1>8. Way(und, k, bytes \o l, Unwritten, reader, TRUE, undelivered)
  BY <1>3, <1>4, <1>7, Zenon
<1>9. /\ Onward(und, l, Unwritten, reader', TRUE, undelivered')
      /\ ~MayClose => IsPrefix(reader'.delivered, undelivered)
      /\ Plain => \A i \in 1..Len(reader'.delivered) : FromBus(reader'.delivered[i])
  BY <1>2, <1>3, <1>4, <1>6, <1>8, WayRead, Zenon DEF r0
<1>10. UnderWay'
  <2>1. PICK j \in 0..Len(und), m \in Nat :
          Way(SubSeq(und, j + 1, Len(und)), m, l, Unwritten, reader', TRUE, undelivered')
    BY <1>9, Zenon DEF Onward
  <2>2. line' = l
    BY <1>1 DEF l
  <2> QED BY <1>4, <1>5, <2>1, <2>2, Zenon DEF UnderWay
<1>11. Plain => NeverForged'
  <2>1. DOMAIN reader'.delivered = 1..Len(reader'.delivered)
    BY <1>2 DEF Readers
  <2> QED BY <1>9, <2>1, Zenon DEF NeverForged, FromBus
<1> QED BY <1>9, <1>10, <1>11

WayInv == ~MayClose \/ Plain => UnderWay
ForgedInv == Plain => NeverForged

\* The parts of the invariant that are about the frames under way hold at first,
LEMMA WayInit ==
    ASSUME Init, Types, RingInv
    PROVE  Collected /\ WayInv /\ ForgedInv
<1>1. Collected
  BY DEF Init, FramerInit, Collected
<1>2. ForgedInv
  <2>1. reader.delivered = <<>> /\ DOMAIN <<>> = {}
    BY DEF Init, ReaderInit, NewReader
  <2> QED BY <2>1 DEF ForgedInv, NeverForged
<1>3. Way(<<>>, 0, line, Unwritten, reader, m_active, undelivered)
  <2>1. line = <<>> /\ undelivered = <<>> /\ m_active = TRUE /\ reader = NewReader
    BY DEF Init, ReaderInit
  <2>2. Unwritten = <<>>
    <3>1. Unwritten = Ring(tx_buffer, tx_write_pos, tx_read_pos, Skip)
      BY UnwrittenIs
    <3>2. IsRing(Unwritten, tx_buffer, tx_write_pos, tx_read_pos, Skip)
      BY <3>1, UnwrittenIs, RingIs, Zenon
    <3>3. Skip = 0 /\ tx_write_pos = 0 /\ tx_read_pos = 0
      BY DEF Init, FramerInit, Skip
    <3>4. Len(Unwritten) = ((0 - 0) % TRANSMIT_BUF_SIZE) - 0
      BY <3>2, <3>3, Zenon DEF IsRing
    <3>5. (0 - 0) % TRANSMIT_BUF_SIZE = 0
      <4> DEFINE n == TRANSMIT_BUF_SIZE
      <4>1. n \in Nat \ {0} /\ 0 \in 0..n - 1 /\ 0 - 0 = 0
        BY BuffersAssumption
      <4> HIDE DEF n
      <4>2. 0 % n = 0
        BY <4>1, Modulo
      <4> QED BY <4>1, <4>2 DEF n
    <3>6. Unwritten \in Seq(Byte) /\ Len(Unwritten) = 0
      BY <3>4, <3>5, UnwrittenIs
    <3> QED BY <3>6
  <2>3. Place(<<>>, 0)
    BY DEF Place
  <2>4. Follows(reader, <<>>, 0)
    BY <2>1, <2>3 DEF Follows, At, Waits, NewReader
  <2>5. line \o Unwritten = Rest(<<>>, 0)
    BY <2>1, <2>2 DEF Rest
  <2>6. \A i \in 1..Len(<<>>) : FALSE
    OBVIOUS
  <2> QED BY <2>1, <2>3, <2>4, <2>5, <2>6 DEF Way
<1> QED BY <1>1, <1>2, <1>3 DEF WayInv, UnderWay

\* and no step breaks them.
LEMMA WayStep ==
    ASSUME Types, RingInv, Collected, WayInv, ForgedInv, [Next]_vars
    PROVE  WayInv' /\ ForgedInv'
<1>0. /\ line \in Seq(Byte) /\ Unwritten \in Seq(Byte) /\ m_active \in BOOLEAN
      /\ MayClose \in BOOLEAN
  BY UnwrittenIs, FramePathAssumption DEF Types
<1>1. CASE BusByte
  <2>1. UNCHANGED <<ring, main>> /\ UNCHANGED <<reader, m_active, line, undelivered>>
    BY <1>1 DEF BusByte, ReceiveByte, readerVars
  <2>2. Unwritten' = Unwritten
    BY <2>1, RingKept
  <2> QED BY <2>1, <2>2 DEF WayInv, UnderWay, ForgedInv, NeverForged
<1>2. CASE BusBreak
  <2>1. ReceiveBreak /\ bus = <<>> /\ UNCHANGED <<reader, m_active, line>>
    BY <1>2 DEF BusBreak, readerVars
  <2>2. /\ Accepted => Unwritten' = Unwritten \o TxFrame(Payload)
        /\ ~Accepted => Unwritten' = Unwritten
    BY <2>1, FrameCopied
  <2>3. ForgedInv'
    BY <2>1 DEF ForgedInv, NeverForged
  <2>4. WayInv'
    <3> SUFFICES ASSUME ~MayClose \/ Plain PROVE UnderWay'
      BY DEF WayInv
    <3>1. PICK und, k : Way(und, k, line, Unwritten, reader, m_active, undelivered)
      BY DEF WayInv, UnderWay
    <3>2. CASE Accepted
      <4>1. Payload \in Payloads /\ (Plain => Quiet(Payload) /\ FromBus(Payload))
        BY <2>1, <3>2, AcceptedIs, AcceptedPlain
      <4>2. ~MayClose => undelivered' = Append(undelivered, Payload)
        BY <1>2, <3>2 DEF BusBreak
      <4>3. Way(Append(und, Payload), k, line, Unwritten \o TxFrame(Payload), reader,
                m_active, undelivered')
        BY <1>0, <3>1, <4>1, <4>2, WayGrows, Zenon
      <4> QED BY <2>1, <2>2, <3>2, <4>3 DEF UnderWay
    <3>3. CASE ~Accepted
      <4>1. undelivered' = undelivered
        BY <1>2, <3>3 DEF BusBreak
      <4> QED BY <2>1, <2>2, <3>1, <3>3, <4>1 DEF UnderWay
    <3> QED BY <3>2, <3>3
  <2> QED BY <2>3, <2>4
<1>3. CASE LineWrite
  <2>1. UartWrite /\ UNCHANGED <<reader, m_active, undelivered>>
    BY <1>3 DEF LineWrite, readerVars
  <2>2. /\ Unwritten # <<>> /\ Head(Unwritten) = Written
        /\ Unwritten' = Tail(Unwritten)
    BY <2>1, ByteWritten
  <2>3. ForgedInv'
    BY <2>1 DEF ForgedInv, NeverForged
  <2>4. WayInv'
    <3> SUFFICES ASSUME ~MayClose \/ Plain PROVE UnderWay'
      BY DEF WayInv
    <3>1. PICK und, k : Way(und, k, line, Unwritten, reader, m_active, undelivered)
      BY DEF WayInv, UnderWay
    <3>2. /\ m_active => Way(und, k, Append(line, Head(Unwritten)), Tail(Unwritten),
                             reader, m_active, undelivered)
          /\ ~m_active => Way(After(und, k), Place1(und, k), line, Tail(Unwritten),
                              reader, m_active, undelivered)
      BY <1>0, <2>2, <3>1, WayWrites, Zenon
    <3>3. CASE m_active
      <4>1. line' = Append(line, Head(Unwritten))
        BY <1>3, <2>2, <3>3 DEF LineWrite
      <4> QED BY <2>1, <2>2, <3>2, <3>3, <4>1 DEF UnderWay
    <3>4. CASE ~m_active
      <4>1. line' = line
        BY <1>3, <3>4 DEF LineWrite
      <4> QED BY <2>1, <2>2, <3>2, <3>4, <4>1 DEF UnderWay
    <3> QED BY <3>3, <3>4
  <2> QED BY <2>3, <2>4
<1>4. CASE (HasData \/ Advance) /\ UNCHANGED <<readerVars, bus, line, undelivered>>
  <2>1. UNCHANGED <<reader, m_active, line, undelivered>>
    BY <1>4 DEF readerVars
  <2>2. Unwritten' = Unwritten
    BY <1>4, DataSeen, PositionMoved
  <2> QED BY <2>1, <2>2 DEF WayInv, UnderWay, ForgedInv, NeverForged
<1>5. CASE LineRead
  <2>1. ~MayClose \/ Plain => UnderWay' /\ (Plain => NeverForged')
    BY <1>5, ReadStep DEF WayInv
  <2> QED BY <2>1 DEF WayInv, ForgedInv
<1>6. CASE LineClosed
  <2>1. /\ MayClose /\ line' = <<>> /\ m_active' = FALSE /\ undelivered' = undelivered
        /\ reader' = [reader EXCEPT !.delivered = <<>>] /\ UNCHANGED <<ring, main>>
    BY <1>6 DEF LineClosed, DoClose, framerVars
  <2>2. Unwritten' = Unwritten
    BY <2>1, RingKept
  <2>3. ForgedInv'
    <3>1. reader'.delivered = <<>>
      BY <2>1 DEF Types, Readers
    <3> QED BY <3>1 DEF ForgedInv, NeverForged
  <2>4. WayInv'
    <3> SUFFICES ASSUME Plain PROVE UnderWay'
      BY <2>1 DEF WayInv
    <3>1. PICK und, k : Way(und, k, line, Unwritten, reader, m_active, undelivered)
      BY DEF WayInv, UnderWay
    <3>2. Onward(und, <<>>, Unwritten, reader', FALSE, undelivered')
      BY <1>0, <2>1, <3>1, WayCloses, Zenon
    <3>3. PICK j \in 0..Len(und), m \in Nat :
            Way(SubSeq(und, j + 1, Len(und)), m, <<>>, Unwritten, reader', FALSE,
                undelivered')
      BY <3>2, Zenon DEF Onward
    <3> QED BY <2>1, <2>2, <3>3, Zenon DEF UnderWay
  <2> QED BY <2>3, <2>4
<1>7. CASE LineOpened
  <2>1. /\ ~m_active /\ m_active' = TRUE /\ reader' = NewReader
        /\ UNCHANGED <<line, undelivered, ring, main>>
    BY <1>7 DEF LineOpened, NewHandler, framerVars
  <2>2. Unwritten' = Unwritten
    BY <2>1, RingKept
  <2>3. ForgedInv'
    <3>1. reader'.delivered = <<>>
      BY <2>1 DEF NewReader
    <3> QED BY <3>1 DEF ForgedInv, NeverForged
  <2>4. WayInv'
    <3> SUFFICES ASSUME ~MayClose \/ Plain PROVE UnderWay'
      BY DEF WayInv
    <3>1. PICK und, k : Way(und, k, line, Unwritten, reader, m_active, undelivered)
      BY DEF WayInv, UnderWay
    <3>2. MayClose /\ Place(und, k)
      BY <2>1, <3>1 DEF Way
    <3>3. Follows(NewReader, und, k)
      BY <3>2, NewFollows
    <3>4. Way(und, k, line, Unwritten, NewReader, TRUE, undelivered)
      BY <3>1, <3>2, <3>3, Zenon DEF Way
    <3> QED BY <2>1, <2>2, <3>4, Zenon DEF UnderWay
  <2> QED BY <2>3, <2>4
<1>8. CASE UNCHANGED vars
  <2>1. UNCHANGED <<ring, main, reader, m_active, line, undelivered>>
    BY <1>8 DEF vars, framerVars, readerVars
  <2>2. Unwritten' = Unwritten
    BY <2>1, RingKept
  <2> QED BY <2>1, <2>2 DEF WayInv, UnderWay, ForgedInv, NeverForged
<1> QED BY <1>1, <1>2, <1>3, <1>4, <1>5, <1>6, <1>7, <1>8 DEF Next, MainLoop

IInv == Types /\ RingInv /\ Collected /\ WayInv /\ ForgedInv

\* The inductive invariant.
LEMMA Invariance == Spec => []IInv
<1>1. Init => IInv
  BY TypesInit, WayInit DEF IInv
<1>2. IInv /\ [Next]_vars => IInv'
  BY TypesStep, CollectedStep, WayStep DEF IInv
<1> QED BY <1>1, <1>2, PTL DEF Spec

\* The second part of a sequence is its end.
LEMMA SuffixOf ==
    ASSUME NEW a \in Seq(Byte), NEW b \in Seq(Byte)
    PROVE  IsSuffix(b, a \o b)
<1> DEFINE s == a \o b  p == Len(a)  m == Len(b)  x == Reverse(b)  y == Reverse(s)
           u == SubSeq(x, 1, m)  v == SubSeq(y, 1, m)
<1>1. /\ s \in Seq(Byte) /\ Len(s) = p + m /\ p \in Nat /\ m \in Nat
      /\ \A i \in 1..m : s[i + p] = b[i] /\ b[i] \in Byte
  BY Joined DEF Joins
<1>2. /\ x \in Seq(Byte) /\ Len(x) = m
      /\ \A i \in 1..m : x[i] = b[(m - i) + 1]
  <2> HIDE DEF s
  <2> QED BY <1>1 DEF Reverse
<1> HIDE DEF s, x
<1>3. /\ y \in Seq(Byte) /\ Len(y) = p + m
      /\ \A i \in 1..p + m : y[i] = s[((p + m) - i) + 1]
  <2>1. \A i \in 1..p + m : ((p + m) - i) + 1 \in 1..Len(s)
    <3> HIDE DEF p, m
    <3> QED BY <1>1
  <2> QED BY <1>1, <2>1 DEF Reverse
<1> HIDE DEF y, p, m
<1>4. ASSUME NEW i \in 1..m PROVE y[i] = x[i]
  <2>1. /\ i \in 1..p + m /\ (m - i) + 1 \in 1..m
        /\ ((p + m) - i) + 1 = ((m - i) + 1) + p
    BY <1>1
  <2>2. y[i] = s[((p + m) - i) + 1] /\ x[i] = b[(m - i) + 1]
    BY <1>2, <1>3, <2>1, Zenon
  <2>3. s[((m - i) + 1) + p] = b[(m - i) + 1]
    BY <1>1, <2>1, Zenon
  <2> QED BY <2>1, <2>2, <2>3, Zenon
<1>5. /\ u \in Seq(Byte) /\ Len(u) = m /\ \A i \in 1..m : u[i] = x[i]
      /\ v \in Seq(Byte) /\ Len(v) = m /\ \A i \in 1..m : v[i] = y[i]
  BY <1>1, <1>2, <1>3
<1> HIDE DEF u, v
<1>6. u = v
  BY <1>4, <1>5, SeqEqual
<1>7. Len(x) <= Len(y)
  BY <1>1, <1>2, <1>3
<1>8. IsPrefix(x, y)
  BY <1>2, <1>6, <1>7, Zenon DEF IsPrefix, u, v
<1> QED BY <1>8 DEF IsSuffix, x, y, s

\* The ring never overwrites a byte it has yet to send, whatever the interrupt and the
\* main loop do between each other's steps: as long as the line is open, line and ring
\* hold the end of the frames that were accepted and not handed on.
THEOREM RingKeepsFrames == Spec => []NothingOverwritten
<1>1. IInv => NothingOverwritten
  <2> SUFFICES ASSUME IInv, ~MayClose
               PROVE  IsSuffix(line \o Unwritten, Stream(undelivered))
    BY DEF NothingOverwritten, Stream, Frames
  <2>1. PICK und, k : Way(und, k, line, Unwritten, reader, m_active, undelivered)
    BY DEF IInv, WayInv, UnderWay
  <2>2. Place(und, k) /\ line \o Unwritten = Rest(und, k) /\ und = undelivered
    BY <2>1 DEF Way
  <2>3. Rest(und, k) \in Seq(Byte)
    BY <2>2, RestEnds
  <2>4. PICK done \in Seq(Byte) : Stream(und) = done \o Rest(und, k)
    BY <2>2, RestEnds
  <2>5. IsSuffix(Rest(und, k), done \o Rest(und, k))
    BY <2>3, SuffixOf
  <2> QED BY <2>2, <2>4, <2>5
<1> QED BY <1>1, Invariance, PTL

\* handleIncomingMessage gets what the framer accepted, whole, in order and once, in
\* whatever pieces readComplete gets the bytes.
THEOREM FramesInOrder == Spec => DeliveredInOrder
<1>1. IInv /\ [Next]_vars =>
        [LineRead /\ ~MayClose => IsPrefix(reader'.delivered, undelivered)]_vars
  <2> SUFFICES ASSUME IInv, LineRead, ~MayClose
               PROVE  IsPrefix(reader'.delivered, undelivered)
    OBVIOUS
  <2>1. Types /\ RingInv /\ UnderWay
    BY DEF IInv, WayInv
  <2> QED BY <2>1, ReadStep
<1> QED BY <1>1, Invariance, PTL DEF Spec, DeliveredInOrder

\* However often the line is lost in the middle of a frame and opened again, what the
\* reader hands on is a frame that was on the bus, without its CRC: for frames that fit
\* into the framer's buffer and have no 0xaa where the reader may look for a mark.
THEOREM NoForgery == Plain => (Spec => []NeverForged)
<1>1. IInv /\ Plain => NeverForged
  BY DEF IInv, ForgedInv
<1> SUFFICES ASSUME Plain PROVE Spec => []NeverForged
  OBVIOUS
<1>2. IInv => NeverForged
  BY <1>1
<1> QED BY <1>2, Invariance, PTL

=============================================================================
