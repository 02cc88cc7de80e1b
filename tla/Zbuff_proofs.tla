---------------------------- MODULE Zbuff_proofs ----------------------------
(***************************************************************************)
(* A zbuff keeps its promises for every length, string, format and offset  *)
(* and every set of functions a script may call: its data lies inside its  *)
(* memory, it is a string of bytes (module ByteString), and what pack has  *)
(* written is what unpack reads.                                           *)
(*                                                                         *)
(* Every function does what ByteString says of the same call: for each     *)
(* there is a lemma that takes a state with the data inside (Ready) to one *)
(* that keeps the invariant and has the bytes, the end and the answer of   *)
(* the call of the same name with the same arguments.                      *)
(* Bytes are compared one by one, at their offsets, with the lemmas of     *)
(* section Memory.  Loops over a format, a number or a list of integers    *)
(* are recursive functions: SetInduction does the induction over them.     *)
(***************************************************************************)
EXTENDS Zbuff, FiniteSetTheorems, SequenceTheorems, TLAPS
-----------------------------------------------------------------------------
(* Induction, and the two recursions of the module *)

\* Induction over the naturals, for a set of them.  It rests on the pigeonhole
\* principle: below a natural that is missing, n |-> n + 1 would map a finite
\* set with 0 into the same set without 0.
LEMMA SetInduction ==
    ASSUME NEW S, 0 \in S, \A n \in Nat : n \in S => n + 1 \in S
    PROVE  \A n \in Nat : n \in S
<1>. SUFFICES ASSUME NEW N \in Nat, N \notin S PROVE FALSE
  OBVIOUS
<1>. DEFINE A == {n \in 0 .. N : n \in S}  B == A \ {0}  f == [n \in A |-> n + 1]
<1>1. IsFiniteSet(A) /\ 0 \in A
  <2>1. IsFiniteSet(0 .. N)
    BY FS_Interval
  <2>. QED BY <2>1, FS_Subset
<1>2. IsFiniteSet(B) /\ Cardinality(B) = Cardinality(A) - 1 /\ Cardinality(A) \in Nat
  BY <1>1, FS_RemoveElement, FS_CardinalityType
<1>3. f \in [A -> B]
  <2>. SUFFICES ASSUME NEW n \in A PROVE n + 1 \in B
    OBVIOUS
  <2>1. n \in Nat /\ n \in S /\ n <= N /\ n + 1 \in S
    OBVIOUS
  <2>2. n # N
    BY <2>1
  <2>. QED BY <2>1, <2>2
<1>4. Cardinality(B) < Cardinality(A)
  BY <1>2
<1>. HIDE DEF A, B, f
<1>5. \E x, y \in A : x # y /\ f[x] = f[y]
  BY <1>1, <1>2, <1>3, <1>4, FS_PigeonHole
<1>6. PICK x \in A, y \in A : x # y /\ f[x] = f[y]
  BY <1>5
<1>7. x \in Nat /\ y \in Nat
  BY DEF A
<1>8. x + 1 = y + 1
  BY <1>6 DEF f
<1>. QED BY <1>6, <1>7, <1>8

\* The fields begin where Place says.
LEMMA PlaceExists ==
    ASSUME NEW format, NEW n \in Nat
    PROVE  \E at : at = [k \in 1 .. n + 1 |->
                            IF k = 1 THEN 0 ELSE at[k - 1] + format[k - 1][2]]
<1>. DEFINE Rec(at, m) == at = [k \in 1 .. m + 1 |->
                                 IF k = 1 THEN 0 ELSE at[k - 1] + format[k - 1][2]]
            S == {m \in Nat : \E at : Rec(at, m)}
<1>1. 0 \in S
  <2>. DEFINE at == [k \in 1 .. 1 |-> 0]
  <2>1. Rec(at, 0)
    OBVIOUS
  <2>. QED BY <2>1
<1>2. ASSUME NEW m \in Nat, m \in S PROVE m + 1 \in S
  <2>1. PICK at : Rec(at, m)
    BY <1>2
  <2>. DEFINE next == [k \in 1 .. (m + 1) + 1 |->
                        IF k <= m + 1 THEN at[k] ELSE at[m + 1] + format[m + 1][2]]
  <2>2. \A k \in 1 .. m + 1 : at[k] = IF k = 1 THEN 0 ELSE at[k - 1] + format[k - 1][2]
    BY <2>1
  <2>3. ASSUME NEW k \in 1 .. (m + 1) + 1
        PROVE  next[k] = IF k = 1 THEN 0 ELSE next[k - 1] + format[k - 1][2]
    <3>1. CASE k = 1
      BY <2>2, <3>1
    <3>2. CASE k # 1 /\ k <= m + 1
      <4>1. k - 1 \in 1 .. (m + 1) + 1 /\ k - 1 <= m + 1 /\ k \in 1 .. m + 1
        BY <3>2
      <4>2. next[k] = at[k] /\ next[k - 1] = at[k - 1]
        BY <3>2, <4>1
      <4>. QED BY <2>2, <3>2, <4>1, <4>2
    <3>3. CASE k = m + 2
      <4>1. k - 1 = m + 1 /\ k # 1 /\ ~ (k <= m + 1) /\ m + 1 \in 1 .. (m + 1) + 1
        BY <3>3
      <4>2. next[k] = at[m + 1] + format[m + 1][2] /\ next[k - 1] = at[m + 1]
        BY <4>1
      <4>. QED BY <4>1, <4>2
    <3>. QED BY <3>1, <3>2, <3>3
  <2>4. Rec(next, m + 1)
    BY <2>3
  <2>. HIDE DEF next, Rec
  <2>. QED BY <2>4
<1>. HIDE DEF S
<1>3. n \in S
  BY <1>1, <1>2, SetInduction
<1>. QED BY <1>3 DEF S

Fields == Seq({"little", "big"} \X {1, 2})

LEMMA PlaceIs ==
    ASSUME NEW format \in Fields
    PROVE  LET at == Place(format)
           IN  /\ at[1] = 0
               /\ \A k \in 1 .. Len(format) : at[k + 1] = at[k] + format[k][2]
<1>. DEFINE at == Place(format)
<1>1. Len(format) \in Nat
  BY DEF Fields
<1>2. at = [k \in 1 .. Len(format) + 1 |-> IF k = 1 THEN 0 ELSE at[k - 1] + format[k - 1][2]]
  BY <1>1, PlaceExists DEF Place
<1>. HIDE DEF at
<1>3. at[1] = 0
  BY <1>1, <1>2
<1>4. ASSUME NEW k \in 1 .. Len(format) PROVE at[k + 1] = at[k] + format[k][2]
  <2>1. k + 1 \in 1 .. Len(format) + 1 /\ k + 1 # 1 /\ (k + 1) - 1 = k
    BY <1>1
  <2>. QED BY <1>2, <2>1
<1>. QED BY <1>3, <1>4 DEF at

LEMMA FieldIs ==
    ASSUME NEW format \in Fields, NEW k \in 1 .. Len(format)
    PROVE  format[k][1] \in {"little", "big"} /\ format[k][2] \in {1, 2}
<1>1. format[k] \in {"little", "big"} \X {1, 2}
  BY DEF Fields
<1>. QED BY <1>1

LEMMA PlaceType ==
    ASSUME NEW format \in Fields
    PROVE  \A k \in 1 .. Len(format) + 1 : Place(format)[k] \in Nat
<1>. DEFINE at == Place(format)
            S == {n \in Nat : n <= Len(format) => at[n + 1] \in Nat}
<1>0. Len(format) \in Nat
  BY DEF Fields
<1>1. at[1] = 0 /\ \A k \in 1 .. Len(format) : at[k + 1] = at[k] + format[k][2]
  BY PlaceIs
<1>. HIDE DEF at
<1>2. 0 \in S
  BY <1>1
<1>3. ASSUME NEW n \in Nat, n \in S PROVE n + 1 \in S
  <2>1. CASE n + 1 <= Len(format)
    <3>1. n + 1 \in 1 .. Len(format) /\ at[n + 1] \in Nat
      BY <1>0, <1>3, <2>1
    <3>2. at[n + 2] = at[n + 1] + format[n + 1][2] /\ format[n + 1][2] \in {1, 2}
      BY <1>1, <3>1, FieldIs
    <3>. QED BY <3>1, <3>2
  <2>. QED BY <2>1
<1>4. \A n \in Nat : n \in S
  <2>. HIDE DEF S
  <2>. QED BY <1>2, <1>3, SetInduction
<1>. QED
  <2>. SUFFICES ASSUME NEW k \in 1 .. Len(format) + 1 PROVE at[k] \in Nat
    BY DEF at
  <2>1. k - 1 \in Nat /\ k - 1 <= Len(format) /\ (k - 1) + 1 = k
    BY <1>0
  <2>. QED BY <1>4, <2>1

\* A field begins behind the ones before it.
LEMMA PlaceGrows ==
    ASSUME NEW format \in Fields, NEW j \in 1 .. Len(format) + 1
    PROVE  \A k \in j .. Len(format) + 1 : Place(format)[j] <= Place(format)[k]
<1>. DEFINE at == Place(format)
            S == {n \in Nat : j + n <= Len(format) + 1 => at[j] <= at[j + n]}
<1>0. Len(format) \in Nat
  BY DEF Fields
<1>1. /\ \A k \in 1 .. Len(format) : at[k + 1] = at[k] + format[k][2]
      /\ \A k \in 1 .. Len(format) + 1 : at[k] \in Nat
  BY PlaceIs, PlaceType
<1>. HIDE DEF at
<1>2. 0 \in S
  BY <1>1
<1>3. ASSUME NEW n \in Nat, n \in S PROVE n + 1 \in S
  <2>1. CASE j + (n + 1) <= Len(format) + 1
    <3>1. j + n \in 1 .. Len(format) /\ at[j] <= at[j + n] /\ at[j + n] \in Nat /\ at[j] \in Nat
      BY <1>0, <1>1, <1>3, <2>1
    <3>2. at[(j + n) + 1] = at[j + n] + format[j + n][2] /\ format[j + n][2] \in {1, 2}
      BY <1>1, <3>1, FieldIs
    <3>3. (j + n) + 1 = j + (n + 1)
      OBVIOUS
    <3>. QED BY <3>1, <3>2, <3>3
  <2>. QED BY <2>1
<1>4. \A n \in Nat : n \in S
  <2>. HIDE DEF S
  <2>. QED BY <1>2, <1>3, SetInduction
<1>. QED
  <2>. SUFFICES ASSUME NEW k \in j .. Len(format) + 1 PROVE at[j] <= at[k]
    BY DEF at
  <2>1. k - j \in Nat /\ j + (k - j) = k /\ k <= Len(format) + 1
    BY <1>0
  <2>. QED BY <1>4, <2>1

\* What fits is a number of fields: the largest one.
LEMMA FittingIs ==
    ASSUME NEW format \in Fields, NEW left \in Nat
    PROVE  LET n == Fitting(format, left)
           IN  /\ n \in 0 .. Len(format)
               /\ Place(format)[n + 1] <= left
               /\ n < Len(format) => Place(format)[n + 2] > left
<1>. DEFINE at == Place(format)
            Fits(k) == /\ at[k + 1] <= left
                       /\ k < Len(format) => at[k + 2] > left
            S == {n \in Nat : n <= Len(format) => at[n + 1] <= left}
<1>0. Len(format) \in Nat
  BY DEF Fields
<1>1. at[1] = 0 /\ \A k \in 1 .. Len(format) + 1 : at[k] \in Nat
  BY PlaceIs, PlaceType
<1>. HIDE DEF at
<1>2. \E k \in 0 .. Len(format) : Fits(k)
  <2>. SUFFICES ASSUME \A k \in 0 .. Len(format) : ~ Fits(k) PROVE FALSE
    OBVIOUS
  <2>1. 0 \in S
    BY <1>1
  <2>2. ASSUME NEW n \in Nat, n \in S PROVE n + 1 \in S
    <3>1. CASE n + 1 <= Len(format)
      <4>1. n \in 0 .. Len(format) /\ n < Len(format) /\ at[n + 1] <= left
        BY <1>0, <2>2, <3>1
      <4>2. ~ (at[n + 2] > left)
        BY <4>1
      <4>3. at[n + 2] \in Nat /\ (n + 1) + 1 = n + 2
        BY <1>0, <1>1, <3>1
      <4>. QED BY <4>2, <4>3
    <3>. QED BY <3>1
  <2>3. Len(format) \in S
    <3>. HIDE DEF S
    <3>. QED BY <1>0, <2>1, <2>2, SetInduction
  <2>. QED BY <1>0, <2>3
<1>. DEFINE n == Fitting(format, left)
<1>3. n \in 0 .. Len(format) /\ Fits(n)
  BY <1>2 DEF Fitting, at
<1>. QED BY <1>3 DEF at
-----------------------------------------------------------------------------
(* Memory *)

Memory(n) == [0 .. n - 1 -> Cells]

LEMMA BytesAre ==
    /\ Bytes \subseteq 0 .. 255 /\ 0 \in Bytes /\ Undef \notin Bytes
BY ZbuffAssumption

LEMMA MostFits ==
    ASSUME NEW a \in Int, NEW b \in Int
    PROVE  /\ Most(a, b) \in Int
           /\ Most(a, b) >= a /\ Most(a, b) >= b
           /\ Most(a, b) \in {a, b}
BY DEF Most

LEMMA LeastFits ==
    ASSUME NEW a \in Int, NEW b \in Int
    PROVE  /\ Least(a, b) \in Int
           /\ Least(a, b) <= a /\ Least(a, b) <= b
           /\ Least(a, b) \in {a, b}
BY DEF Least

LEMMA StoredIs ==
    ASSUME NEW n \in Nat, NEW m \in Memory(n), NEW at \in Int, NEW d \in Seq(Cells)
    PROVE  /\ Stored(m, at, d) \in Memory(n)
           /\ \A i \in 0 .. n - 1 :
                 Stored(m, at, d)[i] =
                    IF i \in at .. at + Len(d) - 1 THEN d[i - at + 1] ELSE m[i]
<1>1. DOMAIN m = 0 .. n - 1 /\ \A i \in 0 .. n - 1 : m[i] \in Cells
  BY DEF Memory
<1>2. ASSUME NEW i \in 0 .. n - 1, i \in at .. at + Len(d) - 1
      PROVE  d[i - at + 1] \in Cells
  <2>1. i - at + 1 \in 1 .. Len(d)
    BY <1>2
  <2>. QED BY <2>1
<1>3. Stored(m, at, d) = [i \in 0 .. n - 1 |->
                             IF i \in at .. at + Len(d) - 1 THEN d[i - at + 1] ELSE m[i]]
  BY <1>1 DEF Stored
<1>. HIDE DEF Memory
<1>4. Stored(m, at, d) \in [0 .. n - 1 -> Cells]
  BY <1>1, <1>2, <1>3
<1>. QED BY <1>3, <1>4 DEF Memory

LEMMA ResizedIs ==
    ASSUME NEW n \in Nat, NEW m \in Memory(n), NEW u \in Nat, u <= n, NEW k \in Nat
    PROVE  /\ Resized(m, u, k) \in Memory(k)
           /\ \A i \in 0 .. k - 1 : Resized(m, u, k)[i] = IF i < u THEN m[i] ELSE Undef
<1>1. \A i \in 0 .. n - 1 : m[i] \in Cells
  BY DEF Memory
<1>2. Undef \in Cells
  BY DEF Cells
<1>. QED BY <1>1, <1>2 DEF Resized, Memory

LEMMA SliceIs ==
    ASSUME NEW k \in Nat, NEW m \in Memory(k), NEW at \in Int, NEW n \in Nat
    PROVE  /\ Slice(m, at, n) \in Seq(Cells) /\ Len(Slice(m, at, n)) = n
           /\ \A i \in 1 .. n :
                 Slice(m, at, n)[i] =
                    IF at + i - 1 \in 0 .. k - 1 THEN m[at + i - 1] ELSE Undef
<1>1. DOMAIN m = 0 .. k - 1 /\ \A i \in 0 .. k - 1 : m[i] \in Cells
  BY DEF Memory
<1>2. Undef \in Cells
  BY DEF Cells
<1>3. Slice(m, at, n) = [i \in 1 .. n |->
                            IF at + i - 1 \in 0 .. k - 1 THEN m[at + i - 1] ELSE Undef]
  BY <1>1 DEF Slice
<1>4. PICK s : s = Slice(m, at, n)
  OBVIOUS
<1>5. s \in [1 .. n -> Cells]
  BY <1>1, <1>2, <1>3, <1>4
<1>6. s \in Seq(Cells) /\ Len(s) = n
  BY <1>5
<1>. QED BY <1>3, <1>4, <1>6

LEMMA MovedIs ==
    ASSUME len \in Nat, mem \in Memory(len), NEW at \in Int, NEW n \in Int, NEW rest \in Int
    PROVE  /\ Moved(at, n, rest) \in Memory(len)
           /\ \A i \in 0 .. len - 1 :
                 Moved(at, n, rest)[i] =
                    IF i \in at .. at + rest - 1
                      THEN IF i + n \in 0 .. len - 1 THEN mem[i + n] ELSE Undef
                      ELSE mem[i]
<1>1. DOMAIN mem = 0 .. len - 1 /\ \A i \in 0 .. len - 1 : mem[i] \in Cells
  BY DEF Memory
<1>2. \A i \in Int : Slice(mem, i + n, 1)[1] = IF i + n \in 0 .. len - 1 THEN mem[i + n] ELSE Undef
  <2>. TAKE i \in Int
  <2>1. i + n \in Int /\ 1 \in 1 .. 1 /\ (i + n) + 1 - 1 = i + n
    OBVIOUS
  <2>. QED BY <2>1, SliceIs
<1>. DEFINE Byte(i) == Slice(mem, i, 1)[1]
<1>0. Moved(at, n, rest) = [i \in 0 .. len - 1 |->
                               IF i \in at .. at + rest - 1 THEN Byte(i + n) ELSE mem[i]]
  BY <1>1 DEF Moved
<1>. HIDE DEF Byte
<1>20. \A i \in 0 .. len - 1 : Byte(i + n) = IF i + n \in 0 .. len - 1 THEN mem[i + n] ELSE Undef
  BY <1>2 DEF Byte
<1>3. Moved(at, n, rest) = [i \in 0 .. len - 1 |->
                               IF i \in at .. at + rest - 1
                                 THEN IF i + n \in 0 .. len - 1 THEN mem[i + n] ELSE Undef
                                 ELSE mem[i]]
  BY <1>0, <1>20
<1>4. Undef \in Cells
  BY DEF Cells
<1>. QED BY <1>1, <1>3, <1>4 DEF Memory

\* What is written as a string of bytes can be written to the memory.
LEMMA BytesAreCells == Seq(Bytes) \subseteq Seq(Cells)
BY DEF Cells

\* What is left of a number when its lowest bytes are gone.
LEMMA LeftExists ==
    ASSUME NEW v, NEW n \in Nat
    PROVE  \E left : left = [k \in 0 .. n |-> IF k = 0 THEN v ELSE left[k - 1] \div 256]
<1>. DEFINE Rec(left, m) == left = [k \in 0 .. m |-> IF k = 0 THEN v ELSE left[k - 1] \div 256]
            S == {m \in Nat : \E left : Rec(left, m)}
<1>1. 0 \in S
  <2>. DEFINE left == [k \in 0 .. 0 |-> v]
  <2>1. Rec(left, 0)
    OBVIOUS
  <2>. QED BY <2>1
<1>2. ASSUME NEW m \in Nat, m \in S PROVE m + 1 \in S
  <2>1. PICK left : Rec(left, m)
    BY <1>2
  <2>. DEFINE next == [k \in 0 .. m + 1 |-> IF k <= m THEN left[k] ELSE left[m] \div 256]
  <2>2. \A k \in 0 .. m : left[k] = IF k = 0 THEN v ELSE left[k - 1] \div 256
    BY <2>1
  <2>3. ASSUME NEW k \in 0 .. m + 1
        PROVE  next[k] = IF k = 0 THEN v ELSE next[k - 1] \div 256
    <3>1. CASE k = 0
      BY <2>2, <3>1
    <3>2. CASE k # 0 /\ k <= m
      <4>1. k - 1 \in 0 .. m + 1 /\ k - 1 <= m /\ k \in 0 .. m
        BY <3>2
      <4>2. next[k] = left[k] /\ next[k - 1] = left[k - 1]
        BY <3>2, <4>1
      <4>. QED BY <2>2, <3>2, <4>1, <4>2
    <3>3. CASE k = m + 1
      <4>1. k - 1 = m /\ k # 0 /\ ~ (k <= m) /\ m \in 0 .. m + 1
        BY <3>3
      <4>2. next[k] = left[m] \div 256 /\ next[k - 1] = left[m]
        BY <4>1
      <4>. QED BY <4>1, <4>2
    <3>. QED BY <3>1, <3>2, <3>3
  <2>4. Rec(next, m + 1)
    BY <2>3
  <2>. HIDE DEF next, Rec
  <2>. QED BY <2>4
<1>. HIDE DEF S
<1>3. n \in S
  BY <1>1, <1>2, SetInduction
<1>. QED BY <1>3 DEF S

Left(v, width) ==
    CHOOSE left : left = [k \in 0 .. width |-> IF k = 0 THEN v ELSE left[k - 1] \div 256]

LEMMA LowestIs ==
    ASSUME NEW v, NEW width \in Nat
    PROVE  /\ Left(v, width)[0] = v
           /\ \A k \in 1 .. width : Left(v, width)[k] = Left(v, width)[k - 1] \div 256
           /\ Lowest(v, width) = [k \in 1 .. width |-> Left(v, width)[k - 1] % 256]
<1>. DEFINE left == Left(v, width)
<1>1. Lowest(v, width) = [k \in 1 .. width |-> left[k - 1] % 256]
  BY DEF Lowest, Left
<1>2. left = [k \in 0 .. width |-> IF k = 0 THEN v ELSE left[k - 1] \div 256]
  BY LeftExists DEF Left
<1>. HIDE DEF left
<1>3. left[0] = v
  BY <1>2
<1>4. \A k \in 1 .. width : left[k] = left[k - 1] \div 256
  BY <1>2
<1>. QED BY <1>1, <1>3, <1>4 DEF left

\* The bytes of a number that is a byte.
LEMMA LowestByte ==
    ASSUME NEW v \in Bytes, NEW width \in Nat
    PROVE  /\ Lowest(v, width) \in Seq(Bytes) /\ Len(Lowest(v, width)) = width
           /\ Lowest(v, width) = [k \in 1 .. width |-> IF k = 1 THEN v ELSE 0]
<1>0. v \in 0 .. 255 /\ 0 \in Bytes
  BY BytesAre
<1>. DEFINE left == Left(v, width)
<1>1. /\ left[0] = v
      /\ \A k \in 1 .. width : left[k] = left[k - 1] \div 256
      /\ Lowest(v, width) = [k \in 1 .. width |-> left[k - 1] % 256]
  BY LowestIs
<1>. HIDE DEF left
<1>. DEFINE S == {n \in Nat : n <= width => left[n] = IF n = 0 THEN v ELSE 0}
<1>2. 0 \in S
  BY <1>1
<1>3. ASSUME NEW n \in Nat, n \in S PROVE n + 1 \in S
  <2>1. CASE n + 1 <= width
    <3>1. left[n + 1] = left[n] \div 256 /\ left[n] \in {v, 0}
      <4>1. n + 1 \in 1 .. width /\ (n + 1) - 1 = n /\ n <= width
        BY <2>1
      <4>. QED BY <1>1, <1>3, <4>1
    <3>2. left[n + 1] = 0
      BY <1>0, <3>1
    <3>. QED BY <3>2
  <2>. QED BY <2>1
<1>4. \A n \in Nat : n \in S
  <2>. HIDE DEF S
  <2>. QED BY <1>2, <1>3, SetInduction
<1>5. ASSUME NEW k \in 1 .. width PROVE left[k - 1] % 256 = IF k = 1 THEN v ELSE 0
  <2>1. k - 1 \in Nat /\ k - 1 <= width /\ (k = 1 <=> k - 1 = 0)
    OBVIOUS
  <2>2. left[k - 1] = IF k = 1 THEN v ELSE 0
    BY <1>4, <2>1
  <2>3. v % 256 = v /\ 0 % 256 = 0
    BY <1>0
  <2>. QED BY <1>0, <2>2, <2>3
<1>6. Lowest(v, width) = [k \in 1 .. width |-> IF k = 1 THEN v ELSE 0]
  BY <1>1, <1>5
<1>7. [k \in 1 .. width |-> IF k = 1 THEN v ELSE 0] \in [1 .. width -> Bytes]
  BY <1>0
<1>. QED BY <1>6, <1>7

\* A field of a format, and a number that fits into it.
Field == {"little", "big"} \X {1, 2}
FitsInto(v, field) ==
    /\ v \in Nat /\ v < 256 ^ field[2]
    /\ v % 256 \in Bytes /\ (v \div 256) % 256 \in Bytes

\* The two bytes of a short, the low one first.
LowByte(v) == v % 256
HighByte(v) == (v \div 256) % 256

LEMMA LowestTwo ==
    ASSUME NEW v \in Nat, NEW width \in {1, 2}
    PROVE  /\ Lowest(v, width) \in Seq(Nat) /\ Len(Lowest(v, width)) = width
           /\ Lowest(v, width)[1] = LowByte(v)
           /\ width = 2 => Lowest(v, width)[2] = HighByte(v)
<1>. DEFINE left == Left(v, width)  s == Lowest(v, width)
<1>0. width \in Nat
  OBVIOUS
<1>1. /\ left[0] = v
      /\ \A k \in 1 .. width : left[k] = left[k - 1] \div 256
      /\ s = [k \in 1 .. width |-> left[k - 1] % 256]
  BY <1>0, LowestIs
<1>. HIDE DEF left, s
<1>2. width = 2 => left[1] = v \div 256
  <2>1. width = 2 => 1 \in 1 .. width
    OBVIOUS
  <2>. QED BY <1>1, <2>1
<1>3. \A k \in 1 .. width : k = 1 \/ (k = 2 /\ width = 2)
  OBVIOUS
<1>4. 1 \in 1 .. width /\ (width = 2 => 2 \in 1 .. width)
  OBVIOUS
<1>5. s[1] = v % 256 /\ (width = 2 => s[2] = (v \div 256) % 256)
  BY <1>1, <1>2, <1>4
<1>6. v % 256 \in Nat /\ (v \div 256) % 256 \in Nat
  OBVIOUS
<1>7. s \in [1 .. width -> Nat]
  <2>1. \A k \in 1 .. width : s[k] \in Nat
    BY <1>3, <1>5, <1>6
  <2>. QED BY <1>1, <2>1
<1>8. s \in Seq(Nat) /\ Len(s) = width
  BY <1>0, <1>7
<1>. QED BY <1>5, <1>8 DEF s, LowByte, HighByte

LEMMA BackwardsIs ==
    ASSUME NEW S, NEW s \in Seq(S)
    PROVE  /\ Backwards(s) \in Seq(S) /\ Len(Backwards(s)) = Len(s)
           /\ \A k \in 1 .. Len(s) : Backwards(s)[k] = s[Len(s) + 1 - k]
<1>1. \A k \in 1 .. Len(s) : Len(s) + 1 - k \in 1 .. Len(s)
  OBVIOUS
<1>2. PICK b : b = Backwards(s)
  OBVIOUS
<1>3. b = [k \in 1 .. Len(s) |-> s[Len(s) + 1 - k]]
  BY <1>2 DEF Backwards
<1>4. b \in [1 .. Len(s) -> S]
  BY <1>1, <1>3
<1>5. b \in Seq(S) /\ Len(b) = Len(s)
  BY <1>4
<1>. QED BY <1>2, <1>3, <1>5

\* unpack reads what pack writes: the swap is its own inverse.
LEMMA DecodeEncode ==
    ASSUME NEW field \in Field, NEW v, FitsInto(v, field)
    PROVE  /\ Encoded(field, v) \in Seq(Bytes) /\ Len(Encoded(field, v)) = field[2]
           /\ Decoded(field, Encoded(field, v)) = v
<1>. DEFINE low == Lowest(v, field[2])  s == Encoded(field, v)
            back == IF field[1] = "big" THEN Backwards(s) ELSE s
<1>1. field[1] \in {"little", "big"} /\ field[2] \in {1, 2}
  BY DEF Field
<1>2. /\ low \in Seq(Nat) /\ Len(low) = field[2]
      /\ low[1] = v % 256
      /\ field[2] = 2 => low[2] = (v \div 256) % 256
  <2>1. field[2] \in {1, 2} /\ v \in Nat
    BY <1>1 DEF FitsInto
  <2>2. /\ Lowest(v, field[2]) \in Seq(Nat) /\ Len(Lowest(v, field[2])) = field[2]
        /\ Lowest(v, field[2])[1] = LowByte(v)
        /\ field[2] = 2 => Lowest(v, field[2])[2] = HighByte(v)
    BY <2>1, LowestTwo
  <2>. QED BY <2>2 DEF LowByte, HighByte
<1>3. field[2] = 1 => v = v % 256
  <2>1. field[2] = 1 => v < 256
    BY DEF FitsInto
  <2>. QED BY <2>1 DEF FitsInto
<1>4. field[2] = 2 => v = (v % 256) + 256 * ((v \div 256) % 256)
  <2>1. field[2] = 2 => v \div 256 < 256
    BY DEF FitsInto
  <2>2. v \in Nat /\ v \div 256 \in Nat
    BY DEF FitsInto
  <2>3. field[2] = 2 => (v \div 256) % 256 = v \div 256
    BY <2>1, <2>2
  <2>4. v = (v % 256) + 256 * (v \div 256)
    BY <2>2
  <2>. QED BY <2>3, <2>4
<1>5. low \in Seq(Bytes)
  <2>1. \A k \in 1 .. Len(low) : low[k] \in Bytes
    <3>. TAKE k \in 1 .. Len(low)
    <3>1. k = 1 \/ (k = 2 /\ field[2] = 2)
      BY <1>1, <1>2
    <3>2. v % 256 \in Bytes /\ (v \div 256) % 256 \in Bytes
      BY DEF FitsInto
    <3>. HIDE DEF low
    <3>. QED BY <1>2, <3>1, <3>2
  <2>. HIDE DEF low
  <2>2. low \in [1 .. Len(low) -> Bytes]
    BY <1>2, <2>1
  <2>. QED BY <1>2, <2>2
<1>6. s \in Seq(Bytes) /\ Len(s) = field[2] /\ back = low
  <2>1. CASE field[1] = "big"
    <3>1. s = Backwards(low)
      BY <2>1 DEF Encoded
    <3>. HIDE DEF low
    <3>2. s \in Seq(Bytes) /\ Len(s) = field[2]
      BY <1>2, <1>5, <3>1, BackwardsIs
    <3>3. back \in Seq(Bytes) /\ Len(back) = field[2]
      BY <2>1, <3>2, BackwardsIs
    <3>4. \A k \in 1 .. field[2] : back[k] = low[k]
      <4>. TAKE k \in 1 .. field[2]
      <4>0. field[2] + 1 - k \in 1 .. field[2] /\ field[2] + 1 - (field[2] + 1 - k) = k
        BY <1>1
      <4>1. back[k] = s[field[2] + 1 - k]
        BY <2>1, <3>2, BackwardsIs
      <4>2. s[field[2] + 1 - k] = low[field[2] + 1 - (field[2] + 1 - k)]
        <5>1. \A j \in 1 .. Len(low) : Backwards(low)[j] = low[Len(low) + 1 - j]
          BY <1>5, BackwardsIs
        <5>. QED BY <1>2, <3>1, <4>0, <5>1
      <4>. QED BY <4>0, <4>1, <4>2
    <3>. HIDE DEF s, back
    <3>. QED BY <1>2, <1>5, <3>2, <3>3, <3>4
  <2>2. CASE field[1] # "big"
    <3>1. s = low
      BY <2>2 DEF Encoded
    <3>. QED BY <1>2, <1>5, <2>2, <3>1
  <2>. QED BY <2>1, <2>2
<1>7. Decoded(field, s) = IF field[2] = 1 THEN back[1] ELSE back[1] + 256 * back[2]
  BY DEF Decoded
<1>. HIDE DEF s, back, low
<1>8. Decoded(field, s) = v
  BY <1>1, <1>2, <1>3, <1>4, <1>6, <1>7
<1>. QED BY <1>6, <1>8 DEF s

\* The number of a field, from its bytes in either order.
LEMMA DecodedIs ==
    ASSUME NEW field \in Field, NEW s \in Seq(Cells), Len(s) = field[2]
    PROVE  Decoded(field, s) = IF field[2] = 1 THEN s[1]
                               ELSE IF field[1] = "big" THEN s[2] + 256 * s[1]
                               ELSE s[1] + 256 * s[2]
<1>1. field[2] \in {1, 2}
  BY DEF Field
<1>2. CASE field[1] = "big"
  <2>1. \A k \in 1 .. Len(s) : Backwards(s)[k] = s[Len(s) + 1 - k]
    BY BackwardsIs
  <2>2. CASE field[2] = 1
    <3>1. Backwards(s)[1] = s[1]
      BY <2>1, <2>2
    <3>. QED BY <1>2, <2>2, <3>1 DEF Decoded
  <2>3. CASE field[2] = 2
    <3>1. 1 \in 1 .. Len(s) /\ 2 \in 1 .. Len(s) /\ Len(s) + 1 - 1 = 2 /\ Len(s) + 1 - 2 = 1
      BY <2>3
    <3>2. Backwards(s)[1] = s[2] /\ Backwards(s)[2] = s[1]
      BY <2>1, <3>1
    <3>. QED BY <1>2, <2>3, <3>2 DEF Decoded
  <2>. QED BY <1>1, <2>2, <2>3
<1>3. CASE field[1] # "big"
  BY <1>3 DEF Decoded
<1>. QED BY <1>2, <1>3

\* What is to be packed.
Packable(format, numbers) ==
    /\ format \in Fields
    /\ Len(numbers) = Len(format)
    /\ \A k \in 1 .. Len(format) : FitsInto(numbers[k], format[k])

\* The bytes of a packing are those of its fields.
LEMMA PackingIs ==
    ASSUME NEW format, NEW numbers, Packable(format, numbers)
    PROVE  LET at == Place(format)
               bytes == Packing(format, numbers)
           IN  /\ bytes \in Seq(Bytes) /\ Len(bytes) = at[Len(format) + 1]
               /\ \A k \in 1 .. Len(format), i \in 1 .. 2 :
                     i <= format[k][2] =>
                        bytes[at[k] + i] = Encoded(format[k], numbers[k])[i]
<1>. DEFINE at == Place(format)  bytes == Packing(format, numbers)  N == Len(format)
            In(i, k) == at[k] < i /\ i <= at[k + 1]
<1>0. format \in Fields /\ N \in Nat
  BY DEF Packable, Fields
<1>1. /\ at[1] = 0
      /\ \A k \in 1 .. N : at[k + 1] = at[k] + format[k][2] /\ format[k][2] \in {1, 2}
      /\ \A k \in 1 .. N + 1 : at[k] \in Nat
      /\ \A j \in 1 .. N + 1 : \A k \in j .. N + 1 : at[j] <= at[k]
  BY <1>0, PlaceIs, PlaceType, PlaceGrows, FieldIs
<1>. HIDE DEF at
<1>2. \A k \in 1 .. N : /\ Encoded(format[k], numbers[k]) \in Seq(Bytes)
                        /\ Len(Encoded(format[k], numbers[k])) = format[k][2]
  <2>. TAKE k \in 1 .. N
  <2>1. format[k] \in Field /\ FitsInto(numbers[k], format[k])
    BY <1>0 DEF Packable, Fields, Field
  <2>. QED BY <2>1, DecodeEncode
<1>3. bytes = [i \in 1 .. at[N + 1] |->
                 LET k == CHOOSE j \in 1 .. N : In(i, j)
                 IN  Encoded(format[k], numbers[k])[i - at[k]]]
  BY DEF Packing, at
<1>. HIDE DEF bytes
\* Each byte belongs to one field.
<1>4. ASSUME NEW i \in Nat, NEW j \in 1 .. N, NEW k \in 1 .. N, In(i, j), In(i, k)
      PROVE  j = k
  <2>1. ASSUME NEW a \in 1 .. N, NEW b \in 1 .. N, a < b, In(i, a), In(i, b) PROVE FALSE
    <3>1. at[a + 1] <= at[b] /\ at[a + 1] \in Nat /\ at[b] \in Nat
      <4>1. a + 1 \in 1 .. N + 1 /\ b \in (a + 1) .. N + 1 /\ b \in 1 .. N + 1
        BY <1>0, <2>1
      <4>. QED BY <1>1, <4>1
    <3>. QED BY <2>1, <3>1
  <2>2. ~ (j < k)
    BY <1>4, <2>1
  <2>3. ~ (k < j)
    BY <1>4, <2>1
  <2>. QED BY <1>0, <2>2, <2>3
<1>5. ASSUME NEW i \in 1 .. at[N + 1] PROVE \E k \in 1 .. N : In(i, k)
  <2>. DEFINE S == {n \in Nat : n <= N => at[n + 1] < i}
  <2>. SUFFICES ASSUME \A k \in 1 .. N : ~ In(i, k) PROVE FALSE
    OBVIOUS
  <2>1. 0 \in S
    BY <1>1
  <2>2. ASSUME NEW n \in Nat, n \in S PROVE n + 1 \in S
    <3>1. CASE n + 1 <= N
      <4>1. n + 1 \in 1 .. N /\ at[n + 1] < i
        BY <1>0, <2>2, <3>1
      <4>2. ~ In(i, n + 1)
        BY <4>1
      <4>3. at[(n + 1) + 1] \in Nat
        BY <1>0, <1>1, <4>1
      <4>. QED BY <4>1, <4>2, <4>3
    <3>. QED BY <3>1
  <2>3. N \in S
    <3>. HIDE DEF S
    <3>. QED BY <1>0, <2>1, <2>2, SetInduction
  <2>4. at[N + 1] \in Nat
    BY <1>0, <1>1
  <2>. QED BY <1>0, <2>3, <2>4
<1>6. ASSUME NEW i \in 1 .. at[N + 1], NEW k \in 1 .. N, In(i, k)
      PROVE  /\ bytes[i] = Encoded(format[k], numbers[k])[i - at[k]]
             /\ i - at[k] \in 1 .. format[k][2]
  <2>. DEFINE c == CHOOSE j \in 1 .. N : In(i, j)
  <2>0. at[N + 1] \in Nat /\ i \in Nat
    BY <1>0, <1>1
  <2>1. c \in 1 .. N /\ In(i, c)
    BY <1>6
  <2>2. bytes[i] = Encoded(format[c], numbers[c])[i - at[c]]
    BY <1>3
  <2>. HIDE DEF c
  <2>3. c = k
    BY <1>4, <1>6, <2>0, <2>1
  <2>4. at[k] \in Nat /\ at[k + 1] = at[k] + format[k][2]
    BY <1>0, <1>1
  <2>5. format[k][2] \in {1, 2}
    BY <1>1
  <2>6. i - at[k] \in 1 .. format[k][2]
    BY <1>6, <2>0, <2>4, <2>5
  <2>. QED BY <2>2, <2>3, <2>6
<1>7. bytes \in Seq(Bytes) /\ Len(bytes) = at[N + 1]
  <2>0. at[N + 1] \in Nat
    BY <1>0, <1>1
  <2>1. \A i \in 1 .. at[N + 1] : bytes[i] \in Bytes
    <3>. TAKE i \in 1 .. at[N + 1]
    <3>1. PICK k \in 1 .. N : In(i, k)
      BY <1>5
    <3>2. PICK e : e = Encoded(format[k], numbers[k])
      OBVIOUS
    <3>3. e \in Seq(Bytes) /\ Len(e) = format[k][2]
      BY <1>2, <3>2
    <3>4. bytes[i] = e[i - at[k]] /\ i - at[k] \in 1 .. Len(e)
      BY <1>6, <3>1, <3>2, <3>3
    <3>. QED BY <3>3, <3>4
  <2>2. bytes \in [1 .. at[N + 1] -> Bytes]
    BY <1>3, <2>1
  <2>. QED BY <2>0, <2>2
<1>8. ASSUME NEW k \in 1 .. N, NEW i \in 1 .. 2, i <= format[k][2]
      PROVE  bytes[at[k] + i] = Encoded(format[k], numbers[k])[i]
  <2>1. /\ at[k] \in Nat /\ at[k + 1] \in Nat /\ at[k + 1] = at[k] + format[k][2]
        /\ format[k][2] \in {1, 2} /\ at[k + 1] <= at[N + 1] /\ at[N + 1] \in Nat
    <3>1. k + 1 \in 1 .. N + 1 /\ N + 1 \in (k + 1) .. N + 1 /\ k \in 1 .. N + 1
      BY <1>0
    <3>. QED BY <1>0, <1>1, <3>1
  <2>2. at[k] + i \in 1 .. at[N + 1] /\ In(at[k] + i, k) /\ (at[k] + i) - at[k] = i
    <3>1. i \in Nat /\ i >= 1 /\ i <= format[k][2]
      BY <1>8
    <3>2. format[k][2] \in Nat
      BY <2>1
    <3>3. \A a, w, z, j \in Nat :
              1 <= j /\ j <= w /\ a + w <= z =>
                 /\ a + j \in 1 .. z /\ (a + j) - a = j
                 /\ a < a + j /\ a + j <= a + w
      OBVIOUS
    <3>4. /\ at[k] + i \in 1 .. at[N + 1] /\ (at[k] + i) - at[k] = i
          /\ at[k] < at[k] + i /\ at[k] + i <= at[k] + format[k][2]
      <4>. HIDE DEF N
      <4>1. at[k] \in Nat /\ at[N + 1] \in Nat /\ at[k] + format[k][2] <= at[N + 1]
        BY <2>1
      <4>. QED BY <3>1, <3>2, <3>3, <4>1
    <3>. QED BY <2>1, <3>4
  <2>. QED BY <1>6, <2>2
<1>. QED BY <1>7, <1>8 DEF at, bytes
-----------------------------------------------------------------------------
(* The copy of integers *)

LoopStart(at) == [len |-> len, mem |-> mem, at |-> at, spill |-> 0]

LEMMA PuttingExists ==
    ASSUME NEW at, NEW d, NEW n \in Nat
    PROVE  \E after : after = [k \in 0 .. n |->
                                 IF k = 0 THEN LoopStart(at) ELSE PutInt(after[k - 1], d[k])]
<1>. DEFINE Rec(after, m) == after = [k \in 0 .. m |->
                                 IF k = 0 THEN LoopStart(at) ELSE PutInt(after[k - 1], d[k])]
            S == {m \in Nat : \E after : Rec(after, m)}
<1>1. 0 \in S
  <2>. DEFINE after == [k \in 0 .. 0 |-> LoopStart(at)]
  <2>1. Rec(after, 0)
    OBVIOUS
  <2>. QED BY <2>1
<1>2. ASSUME NEW m \in Nat, m \in S PROVE m + 1 \in S
  <2>1. PICK after : Rec(after, m)
    BY <1>2
  <2>. DEFINE next == [k \in 0 .. m + 1 |->
                        IF k <= m THEN after[k] ELSE PutInt(after[m], d[m + 1])]
  <2>2. \A k \in 0 .. m : after[k] = IF k = 0 THEN LoopStart(at) ELSE PutInt(after[k - 1], d[k])
    BY <2>1
  <2>3. ASSUME NEW k \in 0 .. m + 1
        PROVE  next[k] = IF k = 0 THEN LoopStart(at) ELSE PutInt(next[k - 1], d[k])
    <3>1. CASE k = 0
      BY <2>2, <3>1
    <3>2. CASE k # 0 /\ k <= m
      <4>1. k - 1 \in 0 .. m + 1 /\ k - 1 <= m /\ k \in 0 .. m
        BY <3>2
      <4>2. next[k] = after[k] /\ next[k - 1] = after[k - 1]
        BY <3>2, <4>1
      <4>. QED BY <2>2, <3>2, <4>1, <4>2
    <3>3. CASE k = m + 1
      <4>1. k - 1 = m /\ k # 0 /\ ~ (k <= m) /\ m \in 0 .. m + 1
        BY <3>3
      <4>2. next[k] = PutInt(after[m], d[m + 1]) /\ next[k - 1] = after[m]
        BY <4>1
      <4>. QED BY <3>3, <4>1, <4>2
    <3>. QED BY <3>1, <3>2, <3>3
  <2>4. Rec(next, m + 1)
    BY <2>3
  <2>. HIDE DEF next, Rec
  <2>. QED BY <2>4
<1>. HIDE DEF S
<1>3. n \in S
  BY <1>1, <1>2, SetInduction
<1>. QED BY <1>3 DEF S

LEMMA PuttingIs ==
    ASSUME NEW at, NEW d, Len(d) \in Nat
    PROVE  /\ PuttingInts(at, d)[0] = LoopStart(at)
           /\ \A k \in 1 .. Len(d) :
                 PuttingInts(at, d)[k] = PutInt(PuttingInts(at, d)[k - 1], d[k])
<1>. DEFINE after == PuttingInts(at, d)
<1>1. after = [k \in 0 .. Len(d) |->
                 IF k = 0 THEN LoopStart(at) ELSE PutInt(after[k - 1], d[k])]
  BY PuttingExists DEF PuttingInts, LoopStart
<1>. HIDE DEF after
<1>2. after[0] = LoopStart(at)
  BY <1>1
<1>3. \A k \in 1 .. Len(d) : after[k] = PutInt(after[k - 1], d[k])
  BY <1>1
<1>. QED BY <1>2, <1>3 DEF after

\* The loop after k of the integers: unless it has written past the memory, they
\* are in it, and what was in use is where it was, as is all the rest of a memory
\* that has room for them.
Putting(s, at, d, k) ==
    /\ s.len \in Nat /\ s.mem \in Memory(s.len) /\ s.at = at + k /\ s.spill \in {0, 1}
    /\ len <= s.len
    /\ at + k <= len => s.len = len
    /\ s.spill = 0 =>
         /\ k > 0 => s.at <= s.len
         /\ \A i \in 0 .. s.len - 1 :
              /\ i \in at .. at + k - 1 => s.mem[i] = d[i - at + 1]
              /\ i \notin at .. at + k - 1 /\ (i < used \/ at + k <= len) => s.mem[i] = mem[i]

LEMMA PutIntKeeps ==
    ASSUME len \in Nat, used \in Nat, used <= len,
           NEW at \in Nat, NEW d \in Seq(Bytes), NEW k \in Nat, k < Len(d),
           NEW s, Putting(s, at, d, k)
    PROVE  Putting(PutInt(s, d[k + 1]), at, d, k + 1)
<1>. DEFINE b == d[k + 1]
            grows == s.at > s.len
            n == IF grows THEN 2 * s.at ELSE s.len
            m == IF grows THEN Resized(s.mem, used, n) ELSE s.mem
            sp == IF s.at = n THEN 1 ELSE s.spill
            st == Stored(m, s.at, <<b>>)
            t == PutInt(s, b)
<1>1. t.len = n /\ t.mem = st /\ t.at = s.at + 1 /\ t.spill = sp
  BY DEF PutInt
<1>. HIDE DEF t
<1>2. /\ s.len \in Nat /\ s.mem \in Memory(s.len) /\ s.at = at + k /\ s.at \in Nat
      /\ s.spill \in {0, 1} /\ len <= s.len
  BY DEF Putting
<1>3. n \in Nat /\ len <= n
  BY <1>2
<1>4. /\ m \in Memory(n)
      /\ grows => \A i \in 0 .. n - 1 : m[i] = IF i < used THEN s.mem[i] ELSE Undef
  <2>1. CASE grows
    <3>0. used <= s.len /\ s.len \in Nat /\ s.mem \in Memory(s.len) /\ n \in Nat
      BY <1>2, <1>3
    <3>. HIDE DEF n, grows
    <3>1. /\ Resized(s.mem, used, n) \in Memory(n)
          /\ \A i \in 0 .. n - 1 :
                Resized(s.mem, used, n)[i] = IF i < used THEN s.mem[i] ELSE Undef
      <4>0. PICK l : l = s.len
        OBVIOUS
      <4>1. PICK sm : sm = s.mem /\ sm \in Memory(l) /\ l \in Nat /\ used <= l
        BY <3>0, <4>0
      <4>2. /\ Resized(sm, used, n) \in Memory(n)
            /\ \A i \in 0 .. n - 1 :
                  Resized(sm, used, n)[i] = IF i < used THEN sm[i] ELSE Undef
        BY <3>0, <4>1, ResizedIs
      <4>. QED BY <4>1, <4>2
    <3>. QED BY <2>1, <3>1
  <2>2. CASE ~ grows
    BY <1>2, <2>2
  <2>. QED BY <2>1, <2>2
<1>5. <<b>> \in Seq(Cells) /\ Len(<<b>>) = 1 /\ <<b>>[1] = b
  <2>1. b \in Bytes
    OBVIOUS
  <2>. HIDE DEF b
  <2>. QED BY <2>1 DEF Cells
<1>. HIDE DEF n, m
<1>6. /\ st \in Memory(n)
      /\ \A i \in 0 .. n - 1 : st[i] = IF i = s.at THEN b ELSE m[i]
  <2>1. /\ st \in Memory(n)
        /\ \A i \in 0 .. n - 1 :
              st[i] = IF i \in s.at .. s.at + Len(<<b>>) - 1
                        THEN <<b>>[i - s.at + 1] ELSE m[i]
    <3>1. PICK e : e = <<b>>
      OBVIOUS
    <3>2. e \in Seq(Cells)
      BY <1>5, <3>1
    <3>3. s.at \in Int
      BY <1>2
    <3>. HIDE DEF b
    <3>4. /\ Stored(m, s.at, e) \in Memory(n)
          /\ \A i \in 0 .. n - 1 :
                Stored(m, s.at, e)[i] = IF i \in s.at .. s.at + Len(e) - 1
                                          THEN e[i - s.at + 1] ELSE m[i]
      BY <1>3, <1>4, <3>2, <3>3, StoredIs
    <3>. QED BY <3>1, <3>4
  <2>2. \A i \in 0 .. n - 1 : i \in s.at .. s.at + Len(<<b>>) - 1 <=> i = s.at
    BY <1>2, <1>3, <1>5
  <2>3. \A i \in 0 .. n - 1 : i = s.at => i - s.at + 1 = 1
    BY <1>2
  <2>. HIDE DEF st, b
  <2>. QED BY <1>5, <2>1, <2>2, <2>3
<1>. HIDE DEF st
<1>7. ASSUME sp = 0
      PROVE  /\ s.at + 1 <= n
             /\ \A i \in 0 .. n - 1 :
                   /\ i \in at .. at + (k + 1) - 1 => st[i] = d[i - at + 1]
                   /\ i \notin at .. at + (k + 1) - 1 /\ (i < used \/ at + (k + 1) <= len)
                        => st[i] = mem[i]
  <2>1. s.spill = 0 /\ s.at # n
    BY <1>2, <1>7
  <2>2. grows => k = 0
    BY <1>2, <2>1 DEF Putting
  <2>3. s.at + 1 <= n
    BY <1>2, <1>3, <2>1 DEF n
  <2>4. ASSUME NEW i \in 0 .. n - 1, i \in at .. at + (k + 1) - 1
        PROVE  st[i] = d[i - at + 1]
    <3>1. CASE i = s.at
      <4>1. i - at + 1 = k + 1
        BY <1>2, <3>1
      <4>. QED BY <1>6, <3>1, <4>1
    <3>2. CASE i # s.at
      <4>1. i \in at .. at + k - 1 /\ k # 0
        BY <1>2, <2>4, <3>2
      <4>2. ~ grows /\ m = s.mem /\ n = s.len
        BY <2>2, <4>1 DEF m, n
      <4>3. s.mem[i] = d[i - at + 1]
        BY <2>1, <4>1, <4>2 DEF Putting
      <4>. QED BY <1>6, <3>2, <4>2, <4>3
    <3>. QED BY <3>1, <3>2
  <2>5. ASSUME NEW i \in 0 .. n - 1, i \notin at .. at + (k + 1) - 1,
               i < used \/ at + (k + 1) <= len
        PROVE  st[i] = mem[i]
    <3>0. at + (k + 1) <= len => at + k <= len /\ s.len = len /\ ~ grows /\ n = len
      BY <1>2 DEF Putting, n
    <3>1. i # s.at /\ i \notin at .. at + k - 1 /\ i \in 0 .. s.len - 1
      BY <1>2, <2>5, <3>0
    <3>2. s.mem[i] = mem[i]
      BY <2>1, <2>5, <3>0, <3>1 DEF Putting
    <3>3. m[i] = s.mem[i]
      <4>1. CASE grows
        BY <1>4, <2>5, <3>0, <4>1
      <4>2. CASE ~ grows
        BY <4>2 DEF m
      <4>. QED BY <4>1, <4>2
    <3>. QED BY <1>6, <3>1, <3>2, <3>3
  <2>. QED BY <2>3, <2>4, <2>5
<1>8. t.len \in Nat /\ t.mem \in Memory(t.len) /\ t.at = at + (k + 1) /\ t.spill \in {0, 1}
      /\ len <= t.len
  BY <1>1, <1>2, <1>3, <1>6
<1>10. at + (k + 1) <= len => t.len = len
  BY <1>1, <1>2 DEF Putting, n
<1>9. Putting(t, at, d, k + 1)
  BY <1>1, <1>7, <1>8, <1>10 DEF Putting
<1>. QED BY <1>9 DEF t, b

LEMMA PuttingEnds ==
    ASSUME len \in Nat, mem \in Memory(len), used \in Nat, used <= len,
           NEW at \in Nat, NEW d \in Seq(Bytes)
    PROVE  Putting(PuttingInts(at, d)[Len(d)], at, d, Len(d))
<1>. DEFINE after == PuttingInts(at, d)
            S == {n \in Nat : n <= Len(d) => Putting(after[n], at, d, n)}
<1>1. after[0] = LoopStart(at) /\ \A k \in 1 .. Len(d) : after[k] = PutInt(after[k - 1], d[k])
  BY PuttingIs
<1>. HIDE DEF after
<1>2. 0 \in S
  <2>1. Putting(LoopStart(at), at, d, 0)
    BY DEF Putting, LoopStart
  <2>. QED BY <1>1, <2>1
<1>3. ASSUME NEW n \in Nat, n \in S PROVE n + 1 \in S
  <2>1. CASE n + 1 <= Len(d)
    <3>1. Putting(after[n], at, d, n) /\ n < Len(d) /\ n + 1 \in 1 .. Len(d)
      BY <1>3, <2>1
    <3>2. after[n + 1] = PutInt(after[n], d[n + 1])
      <4>1. (n + 1) - 1 = n
        OBVIOUS
      <4>. QED BY <1>1, <3>1, <4>1
    <3>3. Putting(after[n + 1], at, d, n + 1)
      BY <3>1, <3>2, PutIntKeeps
    <3>. QED BY <3>3
  <2>. QED BY <2>1
<1>4. Len(d) \in Nat /\ Len(d) \in S
  <2>. HIDE DEF S
  <2>. QED BY <1>2, <1>3, SetInduction
<1>. QED BY <1>4 DEF after
-----------------------------------------------------------------------------
(* One call: the sizes stay what they should be, and the bytes and the answer *)
(* are the ones of the same call of ByteString.                              *)

ZInv == ZTypeOK /\ UsedFits

\* What holds before a call.
Ready == ZTypeOK /\ used <= len

LEMMA ReadyIs ==
    ASSUME Ready
    PROVE  /\ len \in Nat /\ len <= MaxLen /\ MaxLen \in Nat
           /\ mem \in Memory(len)
           /\ used \in Nat /\ used <= len /\ spill \in Nat /\ reply.n \in Nat
           /\ len - used \in Nat
BY ZbuffAssumption DEF Ready, ZTypeOK, Memory

\* The bytes from the start on.
LEMMA StartIs ==
    ASSUME NEW l \in Nat, NEW m \in Memory(l), NEW u \in Nat, u <= l
    PROVE  /\ Slice(m, 0, u) \in Seq(Cells) /\ Len(Slice(m, 0, u)) = u
           /\ \A i \in 1 .. u : Slice(m, 0, u)[i] = m[i - 1]
<1>1. PICK s : s = Slice(m, 0, u)
  OBVIOUS
<1>2. /\ s \in Seq(Cells) /\ Len(s) = u
      /\ \A i \in 1 .. u :
            s[i] = IF 0 + i - 1 \in 0 .. l - 1 THEN m[0 + i - 1] ELSE Undef
  BY <1>1, SliceIs
<1>3. \A i \in 1 .. u : 0 + i - 1 \in 0 .. l - 1 /\ 0 + i - 1 = i - 1
  OBVIOUS
<1>. QED BY <1>1, <1>2, <1>3

LEMMA WholeIs ==
    ASSUME Ready
    PROVE  /\ Whole \in Seq(Cells) /\ Len(Whole) = len
           /\ \A i \in 1 .. len : Whole[i] = mem[i - 1]
<1>1. len \in Nat /\ mem \in Memory(len) /\ len <= len
  BY ReadyIs
<1>. QED BY <1>1, StartIs DEF Whole

LEMMA StoredHere ==
    ASSUME Ready, NEW at \in Int, NEW d \in Seq(Cells), NEW m, m = Stored(mem, at, d)
    PROVE  /\ m \in Memory(len)
           /\ \A i \in 0 .. len - 1 :
                 m[i] = IF i \in at .. at + Len(d) - 1 THEN d[i - at + 1] ELSE mem[i]
<1>1. len \in Nat /\ mem \in Memory(len)
  BY ReadyIs
<1>2. /\ Stored(mem, at, d) \in Memory(len)
      /\ \A i \in 0 .. len - 1 :
            Stored(mem, at, d)[i] =
               IF i \in at .. at + Len(d) - 1 THEN d[i - at + 1] ELSE mem[i]
  BY <1>1, StoredIs
<1>. QED BY <1>2

\* The state that a call has come to.
Came(l, m, u, n) ==
    /\ len' = l /\ mem' = m /\ used' = u /\ reply'.n = n
    /\ l \in Nat /\ l <= MaxLen /\ m \in Memory(l) /\ u \in Nat /\ n \in Nat

LEMMA CameIs ==
    ASSUME NEW l, NEW m, NEW u, NEW n, Came(l, m, u, n), spill' \in Nat, spill' = 0 => u <= l
    PROVE  ZInv'
<1>1. len' \in 0 .. MaxLen
  BY ZbuffAssumption DEF Came
<1>2. mem' \in [0 .. len' - 1 -> Cells]
  BY DEF Came, Memory
<1>3. used' \in Nat /\ reply'.n \in Nat
  BY DEF Came
<1>4. spill' = 0 => used' <= len'
  BY DEF Came
<1>. QED BY <1>1, <1>2, <1>3, <1>4 DEF ZInv, ZTypeOK, UsedFits

LEMMA WholeThen ==
    ASSUME NEW l, NEW m, NEW u, NEW n, Came(l, m, u, n)
    PROVE  /\ Whole' \in Seq(Cells) /\ Len(Whole') = l
           /\ \A i \in 1 .. l : Whole'[i] = m[i - 1]
<1>1. Whole' = Slice(mem', 0, len')
  BY DEF Whole
<1>2. Whole' = Slice(m, 0, l)
  BY <1>1 DEF Came
<1>3. l \in Nat /\ m \in Memory(l) /\ l <= l
  BY DEF Came
<1>. QED BY <1>2, <1>3, StartIs

\* A call that leaves the memory as it is.
LEMMA WholeStays ==
    ASSUME UNCHANGED <<len, mem>>
    PROVE  Whole' = Whole
BY DEF Whole

\* The n bytes from offset p on.
LEMMA SliceOfWhole ==
    ASSUME Ready, NEW p \in Nat, NEW n \in Nat, p + n <= len
    PROVE  Slice(mem, p, n) = SubSeq(Whole, p + 1, p + n)
<1>1. len \in Nat /\ mem \in Memory(len)
  BY ReadyIs
<1>2. PICK w : w = Whole
  OBVIOUS
<1>3. w \in Seq(Cells) /\ Len(w) = len /\ \A i \in 1 .. len : w[i] = mem[i - 1]
  BY <1>2, WholeIs
<1>4. PICK s : s = Slice(mem, p, n)
  OBVIOUS
<1>5. /\ s \in Seq(Cells) /\ Len(s) = n
      /\ \A i \in 1 .. n : s[i] = IF p + i - 1 \in 0 .. len - 1 THEN mem[p + i - 1] ELSE Undef
  <2>1. p \in Int
    OBVIOUS
  <2>2. /\ Slice(mem, p, n) \in Seq(Cells) /\ Len(Slice(mem, p, n)) = n
        /\ \A i \in 1 .. n :
              Slice(mem, p, n)[i] =
                 IF p + i - 1 \in 0 .. len - 1 THEN mem[p + i - 1] ELSE Undef
    BY ONLY <1>1, <2>1, n \in Nat, SliceIs
  <2>. QED BY <1>4, <2>2
<1>6. \A i \in 1 .. n : s[i] = w[p + i]
  <2>. TAKE i \in 1 .. n
  <2>1. p + i \in 1 .. len /\ p + i - 1 \in 0 .. len - 1 /\ (p + i) - 1 = p + i - 1
    BY <1>1
  <2>. QED BY <1>3, <1>5, <2>1
<1>7. PICK t : t = SubSeq(w, p + 1, p + n)
  OBVIOUS
<1>8. t = [i \in 1 .. n |-> w[p + i]]
  <2>1. /\ t \in Seq(Cells) /\ Len(t) = n
    BY <1>1, <1>3, <1>7
  <2>2. \A i \in 1 .. n : t[i] = w[p + i]
    BY <1>1, <1>3, <1>7
  <2>. QED BY <2>1, <2>2
<1>9. s = [i \in 1 .. n |-> s[i]]
  BY <1>5
<1>10. s = t
  BY <1>6, <1>8, <1>9
<1>. QED BY <1>2, <1>4, <1>7, <1>10

\* Bytes are written at offset p as far as there is room: the memory is the old one
\* with d in it.
LEMMA WrittenIs ==
    ASSUME Ready, NEW p \in Int, NEW d, Len(d) \in Nat, NEW e \in Seq(Cells),
           Len(e) <= Len(d), \A i \in 1 .. Len(e) : e[i] = d[i],
           Len(e) = Len(d) \/ p + Len(e) >= len,
           len' = len, mem' = Stored(mem, p, e)
    PROVE  mem' \in Memory(len) /\ Store!Written(p, d)
<1>1. len \in Nat /\ len <= MaxLen /\ Len(e) \in Nat
  BY ReadyIs
<1>2. PICK m : m = Stored(mem, p, e)
  OBVIOUS
<1>3. /\ m \in Memory(len)
      /\ \A i \in 0 .. len - 1 :
            m[i] = IF i \in p .. p + Len(e) - 1 THEN e[i - p + 1] ELSE mem[i]
  BY <1>2, StoredHere
<1>4. PICK w : w = Whole
  OBVIOUS
<1>5. w \in Seq(Cells) /\ Len(w) = len /\ \A i \in 1 .. len : w[i] = mem[i - 1]
  BY <1>4, WholeIs
<1>6. PICK v : v = Slice(m, 0, len)
  OBVIOUS
<1>7. v \in Seq(Cells) /\ Len(v) = len /\ \A i \in 1 .. len : v[i] = m[i - 1]
  <2>1. len <= len
    BY <1>1
  <2>. QED BY ONLY <1>1, <1>3, <1>6, <2>1, StartIs
<1>8. Whole' = v
  BY <1>2, <1>6 DEF Whole
<1>9. \A i \in 1 .. len : v[i] = IF i \in p + 1 .. p + Len(d) THEN d[i - p] ELSE w[i]
  <2>. TAKE i \in 1 .. len
  <2>1. /\ i - 1 \in 0 .. len - 1 /\ (i - 1) - p + 1 = i - p
        /\ (i - 1 \in p .. p + Len(e) - 1 <=> i \in p + 1 .. p + Len(d))
    BY <1>1
  <2>2. v[i] = IF i - 1 \in p .. p + Len(e) - 1 THEN e[(i - 1) - p + 1] ELSE mem[i - 1]
    BY <1>3, <1>7, <2>1
  <2>3. w[i] = mem[i - 1]
    BY <1>5
  <2>4. i - 1 \in p .. p + Len(e) - 1 => e[(i - 1) - p + 1] = d[i - p]
    <3>1. i - 1 \in p .. p + Len(e) - 1 => i - p \in 1 .. Len(e)
      BY <1>1
    <3>. QED BY <2>1, <3>1
  <2>. QED BY <2>1, <2>2, <2>3, <2>4
<1>10. Store!Written(p, d)
  BY <1>4, <1>5, <1>7, <1>8, <1>9 DEF Store!Written
<1>. QED BY <1>2, <1>3, <1>10

LEMMA RefuseDone ==
    ASSUME Ready, Refuse
    PROVE  ZInv' /\ Store!Refuse
<1>1. /\ len' = len /\ mem' = mem /\ used' = used /\ spill' = 0 /\ reply' = [n |-> 0, data |-> <<>>]
  BY DEF Refuse, Answer
<1>2. Came(len, mem, used, 0)
  BY <1>1, ReadyIs DEF Came
<1>3. ZInv'
  BY <1>1, <1>2, ReadyIs, CameIs
<1>4. Whole' = Whole
  BY <1>1, WholeStays
<1>5. Store!Refuse
  BY <1>1, <1>4 DEF Store!Refuse, Store!Answer
<1>. QED BY <1>3, <1>5

\* The next n bytes are returned.
LEMMA TakeDone ==
    ASSUME Ready, NEW n \in Nat, n <= len - used, Take(n)
    PROVE  ZInv' /\ Store!Take(n)
<1>1. /\ len' = len /\ mem' = mem /\ used' = used + n /\ spill' = 0
      /\ reply' = [n |-> n, data |-> Slice(mem, used, n)]
  BY DEF Take, Answer
<1>2. used \in Nat /\ used + n \in Nat /\ used + n <= len
  BY ReadyIs
<1>3. Came(len, mem, used + n, n)
  BY <1>1, <1>2, ReadyIs DEF Came
<1>4. ZInv'
  BY <1>1, <1>2, <1>3, CameIs
<1>5. Whole' = Whole /\ Slice(mem, used, n) = SubSeq(Whole, used + 1, used + n)
  BY <1>1, <1>2, WholeStays, SliceOfWhole
<1>6. Store!Take(n)
  BY <1>1, <1>5 DEF Store!Take, Store!Answer
<1>. QED BY <1>4, <1>6

\* Bytes are returned, and nothing changes.
LEMMA GetDone ==
    ASSUME Ready, UNCHANGED <<len, mem, used>>, spill' = 0,
           NEW p \in Nat, NEW n \in Nat, p + n <= len,
           reply' = [n |-> n, data |-> Slice(mem, p, n)]
    PROVE  /\ ZInv' /\ Whole' = Whole /\ used' = used
           /\ Store!Answer(n, SubSeq(Whole, p + 1, p + n))
<1>1. Came(len, mem, used, n)
  BY ReadyIs DEF Came
<1>2. ZInv'
  BY <1>1, ReadyIs, CameIs
<1>3. Whole' = Whole /\ Slice(mem, p, n) = SubSeq(Whole, p + 1, p + n)
  BY WholeStays, SliceOfWhole
<1>. QED BY <1>2, <1>3 DEF Store!Answer

\* d is written where the stream stands, and cut off where the memory ends.
LEMMA PutDone ==
    ASSUME Ready, NEW d \in Seq(Bytes), NEW n, n = Least(Len(d), len - used),
           len' = len, mem' = Stored(mem, used, SubSeq(d, 1, n)), used' = used + n,
           reply' = [n |-> n, data |-> <<>>], spill' = 0
    PROVE  ZInv' /\ Store!Write(d)
<1>1. len \in Nat /\ used \in Nat /\ used <= len /\ len - used \in Nat /\ Len(d) \in Nat
  BY ReadyIs
<1>2. /\ n \in Nat /\ n <= Len(d) /\ used + n <= len
      /\ (n = Len(d) \/ used + n >= len)
  BY <1>1 DEF Least
<1>3. PICK e : e = SubSeq(d, 1, n)
  OBVIOUS
<1>4. e \in Seq(Bytes) /\ Len(e) = n /\ \A i \in 1 .. n : e[i] = d[i]
  BY <1>2, <1>3
<1>5. e \in Seq(Cells)
  BY <1>4, BytesAreCells
<1>6. used \in Int /\ mem' = Stored(mem, used, e)
  BY <1>1, <1>3
<1>7. mem' \in Memory(len) /\ Store!Written(used, d)
  BY <1>1, <1>2, <1>4, <1>5, <1>6, WrittenIs
<1>8. Came(len, mem', used + n, n)
  BY <1>1, <1>2, <1>7, ReadyIs DEF Came
<1>9. spill' \in Nat /\ (spill' = 0 => used + n <= len)
  BY <1>2
<1>10. ZInv'
  BY <1>8, <1>9, CameIs
<1>11. Store!Within(Len(d), len - used) = n
  BY <1>1 DEF Store!Within, Least
<1>12. Len(Whole) = len
  BY WholeIs
<1>13. Store!Room = len - used
  BY <1>12 DEF Store!Room
<1>14. Store!Write(d)
  BY <1>7, <1>11, <1>13 DEF Store!Write, Store!Answer
<1>. QED BY <1>10, <1>14

LEMMA RoomIs ==
    ASSUME Ready
    PROVE  Store!Room = len - used
BY WholeIs DEF Store!Room
-----------------------------------------------------------------------------
(* The functions of the stream *)

LEMMA WriteDone ==
    ASSUME Ready, NEW d \in Data, Write(d)
    PROVE  ZInv' /\ Store!Write(d)
<1>1. d \in Seq(Bytes)
  BY ZbuffAssumption
<1>2. PICK n : n = Least(Len(d), len - used)
  OBVIOUS
<1>3. /\ len' = len /\ mem' = Stored(mem, used, SubSeq(d, 1, n)) /\ used' = used + n
      /\ reply' = [n |-> n, data |-> <<>>] /\ spill' = 0
  BY <1>2 DEF Write, Answer
<1>. QED BY <1>1, <1>2, <1>3, PutDone

LEMMA ReadDone ==
    ASSUME Ready, NEW request \in Starts, Read(request)
    PROVE  ZInv' /\ Store!Read(request)
<1>0. len - used \in Nat /\ request \in Int
  BY ReadyIs, ZbuffAssumption
<1>1. PICK n : n = IF request < 0 THEN len - used ELSE Least(request, len - used)
  OBVIOUS
<1>2. n \in Nat /\ n <= len - used
  BY <1>0, <1>1 DEF Least
<1>3. Take(n) \/ (n > 0 /\ Refuse)
  BY <1>1 DEF Read
<1>4. n = IF request < 0 THEN Store!Room ELSE Store!Within(request, Store!Room)
  BY <1>1, RoomIs DEF Store!Within, Least
<1>5. CASE Take(n)
  <2>1. ZInv' /\ Store!Take(n)
    BY <1>2, <1>5, TakeDone
  <2>. QED BY <1>4, <2>1 DEF Store!Read
<1>6. CASE n > 0 /\ Refuse
  <2>1. ZInv' /\ Store!Refuse
    BY <1>6, RefuseDone
  <2>. QED BY <1>4, <1>6, <2>1 DEF Store!Read
<1>. QED BY <1>3, <1>5, <1>6

LEMMA ReadTypedDone ==
    ASSUME Ready, NEW width \in Widths, ReadTyped(width)
    PROVE  ZInv' /\ Store!ReadTyped(width)
<1>1. width \in Nat /\ len - used \in Nat /\ Store!Room = len - used
  BY ZbuffAssumption, ReadyIs, RoomIs
<1>2. CASE len - used < width
  <2>1. ZInv' /\ Store!Refuse
    BY <1>2, RefuseDone DEF ReadTyped
  <2>2. width > Store!Room
    BY <1>1, <1>2
  <2>. QED BY <2>1, <2>2 DEF Store!ReadTyped
<1>3. CASE ~ (len - used < width)
  <2>1. width <= len - used /\ ~ (width > Store!Room)
    BY <1>1, <1>3
  <2>2. Take(width)
    BY <1>3 DEF ReadTyped
  <2>3. ZInv' /\ Store!Take(width)
    BY <1>1, <2>1, <2>2, TakeDone
  <2>. QED BY <2>1, <2>3 DEF Store!ReadTyped
<1>. QED BY <1>2, <1>3

LEMMA WriteTypedDone ==
    ASSUME Ready, NEW width \in Widths, NEW v \in Bytes, WriteTyped(width, v)
    PROVE  ZInv' /\ Store!WriteTyped(width, v)
<1>1. width \in Nat /\ len - used \in Nat /\ Store!Room = len - used
  BY ZbuffAssumption, ReadyIs, RoomIs
<1>2. CASE len - used < width
  <2>1. ZInv' /\ Store!Refuse
    BY <1>2, RefuseDone DEF WriteTyped
  <2>2. width > Store!Room
    BY <1>1, <1>2
  <2>. QED BY <2>1, <2>2 DEF Store!WriteTyped
<1>3. CASE ~ (len - used < width)
  <2>1. width <= len - used /\ ~ (width > Store!Room)
    BY <1>1, <1>3
  <2>2. /\ len' = len /\ mem' = Stored(mem, used, Lowest(v, width)) /\ used' = used + width
        /\ reply' = [n |-> width, data |-> <<>>] /\ spill' = 0
    BY <1>3 DEF WriteTyped, Answer
  <2>3. PICK e : e = Lowest(v, width)
    OBVIOUS
  <2>4. /\ e \in Seq(Bytes) /\ Len(e) = width
        /\ e = [k \in 1 .. width |-> IF k = 1 THEN v ELSE 0]
    BY <1>1, <2>3, LowestByte
  <2>5. width = Least(Len(e), len - used) /\ SubSeq(e, 1, width) = e
    <3>1. width = Least(Len(e), len - used)
      BY <1>1, <2>1, <2>4 DEF Least
    <3>2. SubSeq(e, 1, width) = e
      BY <1>1, <2>4
    <3>. QED BY <3>1, <3>2
  <2>6. ZInv' /\ Store!Write(e)
    BY <2>2, <2>3, <2>4, <2>5, PutDone
  <2>. QED BY <2>1, <2>4, <2>6 DEF Store!WriteTyped
<1>. QED BY <1>2, <1>3

LEMMA SeekDone ==
    ASSUME Ready, NEW offset \in Starts, NEW base \in {"set", "cur", "end"}, Seek(offset, base)
    PROVE  ZInv' /\ Store!Seek(offset, base)
<1>1. PICK to : to = CASE base = "set" -> offset
                       [] base = "cur" -> used + offset
                       [] base = "end" -> len + offset
  OBVIOUS
<1>2. to \in Int
  <2>1. offset \in Int
    BY ZbuffAssumption
  <2>. QED BY <1>1, <2>1, ReadyIs
<1>3. PICK u : u = Least(Most(to, 0), len)
  OBVIOUS
<1>4. /\ len' = len /\ mem' = mem /\ used' = u /\ reply' = [n |-> used', data |-> <<>>]
      /\ spill' = 0
  BY <1>1, <1>3 DEF Seek, Answer
<1>5. u \in Nat /\ u <= len
  BY <1>2, <1>3, ReadyIs DEF Least, Most
<1>6. Came(len, mem, u, u)
  BY <1>4, <1>5, ReadyIs DEF Came
<1>7. ZInv'
  BY <1>4, <1>5, <1>6, CameIs
<1>8. Whole' = Whole /\ Len(Whole) = len
  BY <1>4, WholeStays, WholeIs
<1>9. u = IF to < 0 THEN 0 ELSE Store!Within(to, len)
  <2>1. len \in Nat
    BY ReadyIs
  <2>2. Most(to, 0) = IF to < 0 THEN 0 ELSE to
    BY <1>2 DEF Most
  <2>3. CASE to < 0
    BY <1>3, <2>1, <2>2, <2>3 DEF Least
  <2>4. CASE ~ (to < 0)
    BY <1>2, <1>3, <2>1, <2>2, <2>4 DEF Least, Store!Within
  <2>. QED BY <2>3, <2>4
<1>10. Store!Seek(offset, base)
  BY <1>1, <1>4, <1>8, <1>9 DEF Store!Seek, Store!Answer
<1>. QED BY <1>7, <1>10

\* What is packed is a number per field that fits into it.
LEMMA PacksPackable ==
    ASSUME NEW format \in Formats, NEW numbers \in Numbers, Pack(format, numbers)
    PROVE  Packable(format, numbers)
<1>1. format \in Fields /\ numbers \in Seq(Nat)
  BY PackAssumption DEF Fields
<1>2. /\ Len(numbers) = Len(format)
      /\ \A k \in 1 .. Len(format) : numbers[k] < 256 ^ format[k][2]
  BY DEF Pack
<1>3. ASSUME NEW k \in 1 .. Len(format) PROVE FitsInto(numbers[k], format[k])
  <2>1. numbers[k] \in Nat
    BY <1>1, <1>2
  <2>2. numbers[k] % 256 \in Bytes /\ (numbers[k] \div 256) % 256 \in Bytes
    BY <1>2, PackAssumption
  <2>. QED BY <1>2, <2>1, <2>2 DEF FitsInto
<1>. QED BY <1>1, <1>2, <1>3 DEF Packable

LEMMA PackDone ==
    ASSUME Ready, NEW format \in Formats, NEW numbers \in Numbers, Pack(format, numbers)
    PROVE  ZInv' /\ Store!Write(Packing(format, numbers))
<1>1. PICK bytes : bytes = Packing(format, numbers)
  OBVIOUS
<1>2. PICK n : n = Least(Len(bytes), len - used)
  OBVIOUS
<1>3. /\ len' = len /\ mem' = Stored(mem, used, SubSeq(bytes, 1, n)) /\ used' = used + n
      /\ reply' = [n |-> n, data |-> <<>>] /\ spill' = 0
  BY <1>1, <1>2 DEF Pack, Answer
<1>4. bytes \in Seq(Bytes)
  BY <1>1, PacksPackable, PackingIs
<1>5. ZInv' /\ Store!Write(bytes)
  BY <1>2, <1>3, <1>4, PutDone
<1>. QED BY <1>1, <1>5

\* A number that unpack makes of the bytes of its field is the one ByteString says.
LEMMA UnpackedIs ==
    ASSUME Ready, NEW format \in Fields,
           NEW k \in 1 .. Len(format), k <= Fitting(format, len - used)
    PROVE  Decoded(format[k], Slice(mem, used + Place(format)[k], format[k][2]))
              = Store!Number(format[k], used + Place(format)[k])
<1>. DEFINE at == Place(format)  F == Fitting(format, len - used)
<1>1. len \in Nat /\ used \in Nat /\ used <= len /\ len - used \in Nat /\ Len(format) \in Nat
  BY ReadyIs DEF Fields
<1>2. F \in 0 .. Len(format) /\ at[F + 1] <= len - used
  BY <1>1, FittingIs
<1>3. format[k] \in Field /\ format[k][2] \in {1, 2}
  BY DEF Fields, Field
<1>4. /\ k \in 1 .. Len(format) + 1 /\ k + 1 \in 1 .. Len(format) + 1
      /\ F + 1 \in k + 1 .. Len(format) + 1 /\ F + 1 \in 1 .. Len(format) + 1
  <2>. HIDE DEF F
  <2>1. k <= F
    BY DEF F
  <2>. QED BY <1>1, <1>2, <2>1
<1>5. /\ at[k] \in Nat /\ at[k + 1] \in Nat /\ at[F + 1] \in Nat /\ at[k + 1] <= at[F + 1]
  BY <1>1, <1>4, PlaceType, PlaceGrows
<1>6. at[k + 1] = at[k] + format[k][2]
  BY <1>1, PlaceIs
<1>7. PICK p \in Nat : p = used + at[k]
  BY <1>1, <1>5
<1>8. PICK w \in {1, 2} : w = format[k][2]
  BY <1>3
<1>9. p + w <= len
  <2>1. at[k] + w <= len - used
    <3>. HIDE DEF at, F
    <3>. QED BY <1>1, <1>2, <1>5, <1>6, <1>8
  <2>2. PICK x \in Nat : x = at[k]
    BY <1>5
  <2>3. p = used + x /\ x + w <= len - used
    BY <1>7, <2>1, <2>2
  <2>. QED BY <1>1, <1>8, <2>2, <2>3
<1>10. PICK s : s = Slice(mem, p, w)
  OBVIOUS
<1>11. /\ s \in Seq(Cells) /\ Len(s) = w
       /\ \A i \in 1 .. w : s[i] = IF p + i - 1 \in 0 .. len - 1 THEN mem[p + i - 1] ELSE Undef
  <2>1. mem \in Memory(len) /\ p \in Int /\ w \in Nat
    BY ReadyIs
  <2>2. /\ Slice(mem, p, w) \in Seq(Cells) /\ Len(Slice(mem, p, w)) = w
        /\ \A i \in 1 .. w :
              Slice(mem, p, w)[i] =
                 IF p + i - 1 \in 0 .. len - 1 THEN mem[p + i - 1] ELSE Undef
    BY ONLY <1>1, <2>1, SliceIs
  <2>. QED BY <1>10, <2>2
<1>12. \A i \in 1 .. w : s[i] = Whole[p + i]
  <2>. TAKE i \in 1 .. w
  <2>1. /\ p + i \in 1 .. len /\ p + i - 1 \in 0 .. len - 1 /\ (p + i) - 1 = p + i - 1
    BY <1>1, <1>9
  <2>2. Whole[p + i] = mem[(p + i) - 1]
    BY <2>1, WholeIs
  <2>. QED BY <1>11, <2>1, <2>2
<1>13. Decoded(format[k], s) = IF format[k][2] = 1 THEN s[1]
                               ELSE IF format[k][1] = "big" THEN s[2] + 256 * s[1]
                               ELSE s[1] + 256 * s[2]
  BY <1>3, <1>8, <1>11, DecodedIs
<1>14. s[1] = Whole[p + 1] /\ (w = 2 => s[2] = Whole[p + 2])
  <2>1. 1 \in 1 .. w /\ (w = 2 => 2 \in 1 .. w)
    OBVIOUS
  <2>. QED BY <1>12, <2>1
<1>15. Decoded(format[k], s) = Store!Number(format[k], p)
  BY <1>8, <1>13, <1>14 DEF Store!Number
<1>. QED BY <1>7, <1>8, <1>10, <1>15

LEMMA UnpackDone ==
    ASSUME Ready, NEW format \in Formats, Unpack(format)
    PROVE  ZInv' /\ Store!Unpack(format, Place(format))
<1>1. format \in Fields /\ len - used \in Nat /\ Len(format) \in Nat
  BY PackAssumption, ReadyIs DEF Fields
<1>2. PICK F : F = Fitting(format, len - used)
  OBVIOUS
<1>3. PICK at : at = Place(format)
  OBVIOUS
<1>4. /\ F \in 0 .. Len(format) /\ at[F + 1] <= len - used
      /\ F < Len(format) => at[F + 2] > len - used
  BY <1>1, <1>2, <1>3, FittingIs
<1>5. at[F + 1] \in Nat
  <2>1. F + 1 \in 1 .. Len(format) + 1
    BY <1>1, <1>4
  <2>. QED BY <1>1, <1>3, <2>1, PlaceType
<1>6. PICK n \in Nat : n = at[F + 1]
  BY <1>5
<1>7. /\ len' = len /\ mem' = mem /\ used' = used + n /\ spill' = 0
      /\ reply' = [n |-> n, data |-> Unpacked(format, used)]
  BY <1>2, <1>3, <1>6 DEF Unpack, Answer
<1>8. used + n \in Nat /\ used + n <= len
  BY <1>4, <1>6, ReadyIs
<1>9. Came(len, mem, used + n, n)
  BY <1>7, <1>8, ReadyIs DEF Came
<1>10. ZInv'
  BY <1>7, <1>8, <1>9, CameIs
<1>11. Whole' = Whole /\ Store!Room = len - used
  BY <1>7, WholeStays, RoomIs
<1>12. PICK data : data = Unpacked(format, used)
  OBVIOUS
<1>13. data = [k \in 1 .. F |-> Decoded(format[k], Slice(mem, used + at[k], format[k][2]))]
  BY <1>2, <1>3, <1>12 DEF Unpacked
<1>14. Len(data) = F
  BY <1>1, <1>4, <1>13
<1>15. ASSUME NEW k \in 1 .. F PROVE data[k] = Store!Number(format[k], used + at[k])
  <2>1. k \in 1 .. Len(format) /\ k <= F
    BY <1>1, <1>4
  <2>2. Decoded(format[k], Slice(mem, used + at[k], format[k][2]))
           = Store!Number(format[k], used + at[k])
    BY <1>1, <1>2, <1>3, <2>1, UnpackedIs
  <2>. QED BY <1>13, <2>2
<1>16. reply'.n = n /\ reply'.data = data
  BY <1>7, <1>12
<1>17. Store!Unpack(format, at)
  BY <1>4, <1>6, <1>7, <1>11, <1>14, <1>15, <1>16 DEF Store!Unpack
<1>. QED BY <1>3, <1>10, <1>17

LEMMA StreamDone ==
    ASSUME Ready, Stream
    PROVE  ZInv'
BY WriteDone, ReadDone, ReadTypedDone, WriteTypedDone, SeekDone, PackDone, UnpackDone
   DEF Stream

LEMMA StreamCallDone ==
    ASSUME Ready
    PROVE  StreamCall
BY WriteDone, ReadDone, ReadTypedDone, WriteTypedDone, SeekDone, PackDone, UnpackDone
   DEF StreamCall
-----------------------------------------------------------------------------
(* The functions of the string *)

LEMMA FromIs ==
    ASSUME Ready, NEW start \in Starts \cup {Nil}
    PROVE  /\ From(start, used) \in Int /\ From(start, 0) \in Int
           /\ Store!Offset(start, used) = From(start, used)
           /\ Store!Offset(start, 0) = From(start, 0)
<1>1. used \in Nat /\ Starts \subseteq Int /\ Nil \notin Starts
  BY ZbuffAssumption, ReadyIs
<1>2. CASE start = Nil
  BY <1>1, <1>2 DEF From, Given, Store!Offset, Store!Default
<1>3. CASE start # Nil
  <2>1. start \in Int
    BY <1>1, <1>3
  <2>. QED BY <1>1, <1>3, <2>1 DEF From, Given, Store!Offset, Store!Default
<1>. QED BY <1>2, <1>3

LEMMA GivenIs ==
    ASSUME NEW arg, NEW value
    PROVE  Store!Default(arg, value) = Given(arg, value)
BY DEF Store!Default, Given

\* Where there was no room, the memory has grown and d is in it.
LEMMA PutsGrown ==
    ASSUME Ready, NEW l, NEW m, NEW u, NEW p \in Nat, NEW d \in Seq(Cells),
           Came(l, m, u, Len(d)), reply' = [n |-> Len(d), data |-> <<>>],
           u = IF p + Len(d) > used THEN p + Len(d) ELSE used,
           p + Len(d) > len, p + Len(d) <= l,
           \A i \in 0 .. p + Len(d) - 1 :
              /\ i \in p .. p + Len(d) - 1 => m[i] = d[i - p + 1]
              /\ i \notin p .. p + Len(d) - 1 /\ i < used => m[i] = mem[i]
    PROVE  Store!Put(p, d)
<1>1. len \in Nat /\ used \in Nat /\ used <= len /\ Len(d) \in Nat /\ l \in Nat
  BY ReadyIs DEF Came
<1>2. PICK w : w = Whole
  OBVIOUS
<1>3. w \in Seq(Cells) /\ Len(w) = len /\ \A i \in 1 .. len : w[i] = mem[i - 1]
  BY <1>2, WholeIs
<1>4. PICK v : v = Whole'
  OBVIOUS
<1>5. v \in Seq(Cells) /\ Len(v) = l /\ \A i \in 1 .. l : v[i] = m[i - 1]
  BY <1>4, WholeThen
<1>6. ASSUME NEW i \in 1 .. p + Len(d), i > p PROVE v[i] = d[i - p]
  <2>1. /\ i \in 1 .. l /\ i - 1 \in 0 .. p + Len(d) - 1 /\ i - 1 \in p .. p + Len(d) - 1
        /\ (i - 1) - p + 1 = i - p
    BY <1>1, <1>6
  <2>2. m[i - 1] = d[(i - 1) - p + 1]
    BY <2>1
  <2>. QED BY <1>5, <2>1, <2>2
<1>7. ASSUME NEW i \in 1 .. used, i <= p PROVE v[i] = w[i]
  <2>1. /\ i \in 1 .. l /\ i \in 1 .. len /\ i - 1 \in 0 .. p + Len(d) - 1
        /\ i - 1 \notin p .. p + Len(d) - 1 /\ i - 1 < used
    BY <1>1, <1>7
  <2>2. m[i - 1] = mem[i - 1]
    BY <2>1
  <2>. QED BY <1>3, <1>5, <2>1, <2>2
<1>8. used' = u
  BY DEF Came
<1>9. Store!Answer(Len(d), <<>>)
  BY DEF Store!Answer
<1>. QED BY <1>2, <1>3, <1>4, <1>5, <1>6, <1>7, <1>8, <1>9 DEF Store!Put

\* Where there is room, d is written.
LEMMA PutsWritten ==
    ASSUME Ready, NEW p \in Nat, NEW d \in Seq(Cells), p + Len(d) <= len,
           Store!Written(p, d), reply' = [n |-> Len(d), data |-> <<>>],
           used' = IF p + Len(d) > used THEN p + Len(d) ELSE used
    PROVE  Store!Put(p, d)
<1>1. Len(Whole) = len
  BY WholeIs
<1>2. Store!Answer(Len(d), <<>>)
  BY DEF Store!Answer
<1>. QED BY <1>1, <1>2 DEF Store!Put

\* There is no memory to grow.
LEMMA PutsNone ==
    ASSUME Ready, NEW p \in Nat, NEW d, p + Len(d) > len, Store!Refuse
    PROVE  Store!Put(p, d)
<1>1. Len(Whole) = len
  BY WholeIs
<1>. QED BY <1>1 DEF Store!Put

\* A string, or the buffer itself: the memory grows first if it must.
LEMMA CopyToPuts ==
    ASSUME Ready, NEW at \in Nat, NEW d \in Seq(Cells), CopyTo(at, d)
    PROVE  ZInv' /\ Store!Put(at, d)
<1>1. /\ len \in Nat /\ len <= MaxLen /\ MaxLen \in Nat
      /\ mem \in Memory(len) /\ used \in Nat /\ used <= len /\ Len(d) \in Nat
  BY ReadyIs
<1>2. PICK end \in Nat : end = at + Len(d)
  BY <1>1
<1>3. PICK u : u = Most(end, used)
  OBVIOUS
<1>4. u \in Nat /\ u = (IF at + Len(d) > used THEN at + Len(d) ELSE used)
  BY <1>1, <1>2, <1>3 DEF Most
<1>5. CASE /\ end <= len
           /\ mem' = Stored(mem, at, d) /\ used' = u /\ Answer(Len(d), <<>>)
           /\ spill' = 0 /\ len' = len
  <2>1. reply' = [n |-> Len(d), data |-> <<>>]
    BY <1>5 DEF Answer
  <2>2. mem' \in Memory(len) /\ Store!Written(at, d)
    <3>1. at \in Int /\ Len(d) <= Len(d)
      BY <1>1
    <3>. QED BY <1>1, <1>5, <3>1, WrittenIs
  <2>3. Came(len, mem', u, Len(d))
    BY <1>1, <1>4, <1>5, <2>1, <2>2 DEF Came
  <2>4. u <= len
    BY <1>1, <1>2, <1>4, <1>5
  <2>5. ZInv'
    BY <1>5, <2>3, <2>4, CameIs
  <2>6. Store!Put(at, d)
    BY <1>2, <1>4, <1>5, <2>1, <2>2, PutsWritten
  <2>. QED BY <2>5, <2>6
<1>6. CASE /\ end > len /\ len + end <= MaxLen /\ len' = len + end
           /\ mem' = Stored(Resized(mem, used, len + end), at, d) /\ used' = u
           /\ Answer(Len(d), <<>>) /\ spill' = 0
  <2>1. PICK n \in Nat : n = len + end
    BY <1>1
  <2>2. end <= n /\ u <= n /\ len <= n /\ n <= MaxLen
    BY <1>1, <1>2, <1>4, <1>6, <2>1
  <2>3. reply' = [n |-> Len(d), data |-> <<>>]
    BY <1>6 DEF Answer
  <2>4. PICK m : m = Resized(mem, used, n)
    OBVIOUS
  <2>5. /\ m \in Memory(n)
        /\ \A i \in 0 .. n - 1 : m[i] = IF i < used THEN mem[i] ELSE Undef
    BY <1>1, <2>4, ResizedIs
  <2>6. PICK st : st = Stored(m, at, d)
    OBVIOUS
  <2>7. /\ st \in Memory(n)
        /\ \A i \in 0 .. n - 1 :
              st[i] = IF i \in at .. at + Len(d) - 1 THEN d[i - at + 1] ELSE m[i]
    <3>1. at \in Int
      OBVIOUS
    <3>. QED BY <2>5, <2>6, <3>1, StoredIs
  <2>8. Came(n, st, u, Len(d))
    BY <1>1, <1>4, <1>6, <2>1, <2>2, <2>3, <2>4, <2>6, <2>7 DEF Came
  <2>9. ZInv'
    BY <1>6, <2>2, <2>8, CameIs
  <2>10. ASSUME NEW i \in 0 .. at + Len(d) - 1
         PROVE  /\ i \in at .. at + Len(d) - 1 => st[i] = d[i - at + 1]
                /\ i \notin at .. at + Len(d) - 1 /\ i < used => st[i] = mem[i]
    <3>1. i \in 0 .. n - 1
      BY <1>1, <1>2, <2>2
    <3>. QED BY <2>5, <2>7, <3>1
  <2>11. at + Len(d) > len /\ at + Len(d) <= n
    BY <1>2, <1>6, <2>2
  <2>12. Store!Put(at, d)
    BY <1>4, <2>3, <2>8, <2>10, <2>11, PutsGrown
  <2>. QED BY <2>9, <2>12
<1>7. CASE end > len /\ Refuse
  <2>1. ZInv' /\ Store!Refuse
    BY <1>7, RefuseDone
  <2>. QED BY <1>2, <1>7, <2>1, PutsNone
<1>8. \/ /\ end <= len
         /\ mem' = Stored(mem, at, d) /\ used' = u /\ Answer(Len(d), <<>>)
         /\ spill' = 0 /\ len' = len
      \/ /\ end > len /\ len + end <= MaxLen /\ len' = len + end
         /\ mem' = Stored(Resized(mem, used, len + end), at, d) /\ used' = u
         /\ Answer(Len(d), <<>>) /\ spill' = 0
      \/ end > len /\ Refuse
  BY <1>2, <1>3 DEF CopyTo
<1>. QED BY <1>5, <1>6, <1>7, <1>8

LEMMA CopyDone ==
    ASSUME Ready, NEW start \in Starts \cup {Nil}, NEW d \in Data, Copy(start, d)
    PROVE  ZInv' /\ Store!Copy(start, d)
<1>1. PICK at : at = From(start, used)
  OBVIOUS
<1>2. at \in Int /\ d \in Seq(Cells) /\ Store!Offset(start, used) = at
  BY <1>1, FromIs, ZbuffAssumption, BytesAreCells
<1>3. CASE at < 0
  <2>1. ZInv' /\ Store!Refuse
    BY <1>1, <1>3, RefuseDone DEF Copy
  <2>. QED BY <1>2, <1>3, <2>1 DEF Store!Copy
<1>4. CASE ~ (at < 0)
  <2>1. at \in Nat /\ CopyTo(at, d)
    BY <1>1, <1>2, <1>4 DEF Copy
  <2>2. ZInv' /\ Store!Put(at, d)
    BY <1>2, <2>1, CopyToPuts
  <2>. QED BY <1>2, <1>4, <2>2 DEF Store!Copy
<1>. QED BY <1>3, <1>4

LEMMA CopySelfDone ==
    ASSUME Ready, CopySelf
    PROVE  ZInv' /\ Store!CopySelf
<1>1. used \in Nat /\ 0 + used <= len /\ len \in Nat /\ 0 \in Nat
  BY ReadyIs
<1>2. Content = SubSeq(Whole, 0 + 1, 0 + used)
  BY <1>1, SliceOfWhole DEF Content
<1>3. Content = SubSeq(Whole, 1, used)
  <2>1. 0 + 1 = 1 /\ 0 + used = used
    BY <1>1
  <2>. QED BY <1>2, <2>1
<1>4. Content \in Seq(Cells)
  BY <1>1, ReadyIs, StartIs DEF Content
<1>5. CopyTo(used, Content)
  BY DEF CopySelf
<1>6. ZInv' /\ Store!Put(used, Content)
  BY <1>1, <1>4, <1>5, CopyToPuts
<1>. QED BY <1>3, <1>6 DEF Store!CopySelf

LEMMA CopyIntsDone ==
    ASSUME Ready, NEW start \in Starts, NEW d \in Ints, CopyInts(start, d)
    PROVE  ZInv' /\ (spill' = 0 => Store!Copy(start, d))
<1>1. PICK at : at = From(start, used)
  OBVIOUS
<1>2. at \in Int /\ d \in Seq(Bytes) /\ d # <<>> /\ Store!Offset(start, used) = at
  BY <1>1, FromIs, ZbuffAssumption
<1>3. CASE at < 0
  <2>1. ZInv' /\ Store!Refuse
    BY <1>1, <1>3, RefuseDone DEF CopyInts
  <2>. QED BY <1>2, <1>3, <2>1 DEF Store!Copy
<1>4. CASE ~ (at < 0)
  <2>e. PICK end : end = PuttingInts(at, d)[Len(d)]
    OBVIOUS
  <2>1. /\ end.len <= MaxLen /\ len' = end.len /\ mem' = end.mem
        /\ used' = Most(end.at, used) /\ spill' = end.spill
        /\ reply' = [n |-> Len(d), data |-> <<>>]
    BY <1>1, <1>4, <2>e DEF CopyInts, Answer
  <2>2. at \in Nat /\ len \in Nat /\ mem \in Memory(len) /\ used \in Nat
        /\ used <= len /\ MaxLen \in Nat
    BY <1>2, <1>4, ReadyIs
  <2>3. Putting(end, at, d, Len(d))
    BY <1>2, <2>2, <2>e, PuttingEnds
  <2>4. PICK l, m, e, sp : l = end.len /\ m = end.mem /\ e = end.at /\ sp = end.spill
    OBVIOUS
  <2>5. d \in Seq(Cells) /\ Len(d) \in Nat /\ Len(d) > 0
    <3>1. Len(d) \in Nat /\ Len(d) > 0
      BY <1>2
    <3>. QED BY <1>2, <3>1, BytesAreCells
  <2>6. /\ l \in Nat /\ m \in Memory(l) /\ e = at + Len(d) /\ sp \in {0, 1} /\ len <= l
        /\ at + Len(d) <= len => l = len
        /\ sp = 0 =>
             /\ e <= l
             /\ \A i \in 0 .. l - 1 :
                  /\ i \in at .. at + Len(d) - 1 => m[i] = d[i - at + 1]
                  /\ i \notin at .. at + Len(d) - 1 /\ (i < used \/ at + Len(d) <= len)
                        => m[i] = mem[i]
    BY <2>3, <2>4, <2>5 DEF Putting
  <2>7. PICK u : u = Most(e, used)
    OBVIOUS
  <2>8. u \in Nat /\ u = (IF at + Len(d) > used THEN at + Len(d) ELSE used)
    BY <2>2, <2>5, <2>6, <2>7 DEF Most
  <2>9. len' = l /\ mem' = m /\ used' = u /\ spill' = sp /\ l <= MaxLen
    BY <2>1, <2>4, <2>7
  <2>10. Came(l, m, u, Len(d))
    BY <2>1, <2>2, <2>5, <2>6, <2>8, <2>9 DEF Came
  <2>11. sp = 0 => u <= l
    BY <2>2, <2>5, <2>6, <2>8
  <2>12. ZInv'
    BY <2>6, <2>9, <2>10, <2>11, CameIs
  <2>13. ASSUME sp = 0 PROVE Store!Put(at, d)
    <3>1. CASE at + Len(d) <= len
      <4>1. l = len /\ at + Len(d) <= l
        BY <2>6, <3>1
      <4>2. PICK w : w = Whole
        OBVIOUS
      <4>3. w \in Seq(Cells) /\ Len(w) = len /\ \A i \in 1 .. len : w[i] = mem[i - 1]
        BY <4>2, WholeIs
      <4>4. PICK v : v = Whole'
        OBVIOUS
      <4>5. v \in Seq(Cells) /\ Len(v) = l /\ \A i \in 1 .. l : v[i] = m[i - 1]
        BY <2>10, <4>4, WholeThen
      <4>6. ASSUME NEW i \in 1 .. len
            PROVE  v[i] = IF i \in at + 1 .. at + Len(d) THEN d[i - at] ELSE w[i]
        <5>1. /\ i - 1 \in 0 .. l - 1 /\ (i - 1) - at + 1 = i - at /\ i \in 1 .. l
              /\ (i - 1 \in at .. at + Len(d) - 1 <=> i \in at + 1 .. at + Len(d))
          BY <2>2, <2>5, <4>1
        <5>2. v[i] = m[i - 1] /\ w[i] = mem[i - 1]
          BY <4>3, <4>5, <5>1
        <5>3. i - 1 \in at .. at + Len(d) - 1 => m[i - 1] = d[(i - 1) - at + 1]
          BY <2>6, <2>13, <5>1
        <5>4. i - 1 \notin at .. at + Len(d) - 1 => m[i - 1] = mem[i - 1]
          BY <2>6, <2>13, <3>1, <5>1
        <5>. QED BY <5>1, <5>2, <5>3, <5>4
      <4>7. Store!Written(at, d)
        BY <4>1, <4>2, <4>3, <4>4, <4>5, <4>6 DEF Store!Written
      <4>. QED BY <2>1, <2>2, <2>5, <2>8, <2>9, <3>1, <4>7, PutsWritten
    <3>2. CASE ~ (at + Len(d) <= len)
      <4>1. at + Len(d) > len /\ at + Len(d) <= l
        BY <2>2, <2>5, <2>6, <2>13, <3>2
      <4>2. ASSUME NEW i \in 0 .. at + Len(d) - 1
            PROVE  /\ i \in at .. at + Len(d) - 1 => m[i] = d[i - at + 1]
                   /\ i \notin at .. at + Len(d) - 1 /\ i < used => m[i] = mem[i]
        <5>1. i \in 0 .. l - 1
          BY <2>2, <2>5, <2>6, <4>1
        <5>. QED BY <2>6, <2>13, <5>1
      <4>. QED BY <2>1, <2>2, <2>5, <2>8, <2>10, <4>1, <4>2, PutsGrown
    <3>. QED BY <3>1, <3>2
  <2>. QED BY <1>2, <1>4, <2>9, <2>12, <2>13 DEF Store!Copy
<1>. QED BY <1>3, <1>4

LEMMA DelDone ==
    ASSUME Ready, NEW start \in Starts \cup {Nil}, NEW request \in Starts \cup {Nil},
           Del(start, request)
    PROVE  ZInv' /\ Store!Del(start, request)
<1>a. PICK at : at = From(start, 0)
  OBVIOUS
<1>b. PICK asked : asked = Given(request, used)
  OBVIOUS
<1>c. PICK n : n = IF at + asked > used THEN used - at ELSE asked
  OBVIOUS
<1>0. /\ len \in Nat /\ mem \in Memory(len) /\ used \in Nat /\ used <= len
  BY ReadyIs
<1>1. at \in Int /\ asked \in Int /\ Store!Offset(start, 0) = at
  BY <1>0, <1>a, <1>b, FromIs, ZbuffAssumption DEF Given
<1>2. n \in Int /\ n = Store!Within(asked, used - at) /\ Store!Default(request, used) = asked
  <2>1. n \in Int /\ n = Store!Within(asked, used - at)
    BY <1>0, <1>1, <1>c DEF Store!Within
  <2>. QED BY <2>1, <1>b, GivenIs
<1>3. CASE at < 0 \/ at >= used \/ n = 0
  <2>1. ZInv' /\ Store!Refuse
    BY <1>3, <1>a, <1>b, <1>c, RefuseDone DEF Del
  <2>. QED BY <1>1, <1>2, <1>3, <2>1 DEF Store!Del
<1>4. CASE ~ (at < 0 \/ at >= used \/ n = 0)
  <2>r. PICK rest : rest = used - n
    OBVIOUS
  <2>1. /\ asked >= 0
        /\ IF at + n = used
             THEN used' = at /\ spill' = 0 /\ mem' = mem
             ELSE /\ mem' = Moved(at, n, rest) /\ used' = rest
                  /\ spill' = Most(at + rest - len, 0)
        /\ reply' = [n |-> 0, data |-> <<>>] /\ len' = len
    BY <1>4, <1>a, <1>b, <1>c, <2>r DEF Del, Answer
  <2>3. at \in Nat /\ at < used /\ n \in Nat /\ n >= 1 /\ at + n <= used /\ rest \in Nat
        /\ rest <= used /\ at <= rest /\ rest + n = used /\ rest <= len
    BY <1>0, <1>1, <1>4, <1>c, <2>1, <2>r
  <2>4. PICK m : m = IF at + n = used THEN mem ELSE Moved(at, n, rest)
    OBVIOUS
  <2>5. /\ m \in Memory(len)
        /\ \A i \in 0 .. rest - 1 : m[i] = IF i < at THEN mem[i] ELSE mem[i + n]
    <3>1. CASE at + n = used
      <4>1. \A i \in 0 .. rest - 1 : i < at
        BY <1>0, <2>3, <3>1
      <4>. QED BY <1>0, <2>4, <3>1, <4>1
    <3>2. CASE at + n # used
      <4>1. /\ m \in Memory(len)
            /\ \A i \in 0 .. len - 1 :
                  m[i] = IF i \in at .. at + rest - 1
                           THEN IF i + n \in 0 .. len - 1 THEN mem[i + n] ELSE Undef
                           ELSE mem[i]
        <5>1. at \in Int /\ n \in Int /\ rest \in Int
          BY <2>3
        <5>. QED BY <1>0, <2>4, <3>2, <5>1, MovedIs
      <4>2. ASSUME NEW i \in 0 .. rest - 1
            PROVE  m[i] = IF i < at THEN mem[i] ELSE mem[i + n]
        <5>1. i \in 0 .. len - 1 /\ i + n \in 0 .. len - 1 /\ (i \in at .. at + rest - 1 <=> ~ (i < at))
          BY <1>0, <2>3
        <5>. QED BY <4>1, <5>1
      <4>. QED BY <4>1, <4>2
    <3>. QED BY <3>1, <3>2
  <2>6. mem' = m /\ used' = rest /\ spill' \in Nat
    <3>1. CASE at + n = used
      BY <1>0, <2>1, <2>3, <2>4, <3>1
    <3>2. CASE at + n # used
      <4>1. at + rest - len \in Int /\ spill' = Most(at + rest - len, 0)
        BY <1>0, <2>1, <2>3, <3>2
      <4>2. spill' \in Nat
        BY <4>1 DEF Most
      <4>. QED BY <2>1, <2>4, <3>2, <4>2
    <3>. QED BY <3>1, <3>2
  <2>7. Came(len, m, rest, 0)
    BY <2>1, <2>3, <2>5, <2>6, ReadyIs DEF Came
  <2>8. ZInv'
    BY <2>3, <2>6, <2>7, CameIs
  <2>9. PICK w : w = Whole
    OBVIOUS
  <2>10. w \in Seq(Cells) /\ Len(w) = len /\ \A i \in 1 .. len : w[i] = mem[i - 1]
    BY <2>9, WholeIs
  <2>11. PICK v : v = Whole'
    OBVIOUS
  <2>12. v \in Seq(Cells) /\ Len(v) = len /\ \A i \in 1 .. len : v[i] = m[i - 1]
    BY <2>7, <2>11, WholeThen
  <2>13. \A i \in 1 .. used - n : v[i] = IF i <= at THEN w[i] ELSE w[i + n]
    <3>. TAKE i \in 1 .. used - n
    <3>1. /\ i \in 1 .. rest /\ i - 1 \in 0 .. rest - 1 /\ i \in 1 .. len /\ i + n \in 1 .. len
          /\ (i - 1 < at <=> i <= at) /\ (i - 1) + n = (i + n) - 1
      BY <1>0, <2>3
    <3>2. m[i - 1] = IF i - 1 < at THEN mem[i - 1] ELSE mem[(i - 1) + n]
      BY <2>5, <3>1
    <3>3. v[i] = m[i - 1] /\ w[i] = mem[i - 1] /\ w[i + n] = mem[(i + n) - 1]
      BY <2>10, <2>12, <3>1
    <3>. QED BY <3>1, <3>2, <3>3
  <2>14. used' = used - n /\ Store!Answer(0, <<>>)
    BY <2>1, <2>6, <2>r DEF Store!Answer
  <2>15. ~ (at < 0 \/ at >= used \/ n = 0)
    BY <1>4
  <2>. QED BY <1>1, <1>2, <2>8, <2>9, <2>10, <2>11, <2>12, <2>13, <2>14, <2>15 DEF Store!Del
<1>. QED BY <1>3, <1>4

LEMMA QueryDone ==
    ASSUME Ready, NEW start \in Starts \cup {Nil}, NEW request \in Starts \cup {Nil},
           Query(start, request)
    PROVE  ZInv' /\ Store!Query(start, request)
<1>a. PICK at : at = Least(From(start, 0), used)
  OBVIOUS
<1>b. PICK asked : asked = Given(request, used)
  OBVIOUS
<1>c. PICK n : n = IF at + asked > used THEN used - at ELSE asked
  OBVIOUS
<1>0. used \in Nat /\ used <= len /\ len \in Nat
  BY ReadyIs
<1>1. /\ at \in Int /\ at <= used /\ asked \in Int
      /\ Store!Within(Store!Offset(start, 0), used) = at
      /\ Store!Default(request, used) = asked
  <2>1. From(start, 0) \in Int /\ Store!Offset(start, 0) = From(start, 0)
    BY FromIs
  <2>2. asked \in Int
    BY <1>0, <1>b, ZbuffAssumption DEF Given
  <2>. QED BY <1>0, <1>a, <1>b, <2>1, <2>2, GivenIs DEF Least, Store!Within
<1>2. n = Store!Within(asked, used - at)
  BY <1>0, <1>1, <1>c DEF Store!Within
<1>3. CASE at < 0
  <2>1. ZInv' /\ Store!Refuse
    BY <1>3, <1>a, RefuseDone DEF Query
  <2>. QED BY <1>1, <1>3, <2>1 DEF Store!Query
<1>4. CASE ~ (at < 0)
  <2>1. /\ asked >= 0 /\ reply' = [n |-> n, data |-> Slice(mem, at, n)] /\ spill' = 0
        /\ UNCHANGED <<len, mem, used>>
    BY <1>4, <1>a, <1>b, <1>c DEF Query, Answer
  <2>2. at \in Nat /\ n \in Nat /\ at + n <= len
    BY <1>0, <1>1, <1>4, <1>c, <2>1
  <2>3. /\ ZInv' /\ Whole' = Whole /\ used' = used
        /\ Store!Answer(n, SubSeq(Whole, at + 1, at + n))
    BY <2>1, <2>2, GetDone
  <2>. QED BY <1>1, <1>2, <1>4, <2>3 DEF Store!Query
<1>. QED BY <1>3, <1>4

LEMMA ResizeDone ==
    ASSUME Ready, NEW n \in Lens, Resize(n)
    PROVE  ZInv' /\ Store!Resize(n)
<1>0. n \in Nat /\ n <= MaxLen /\ used \in Nat /\ used <= len /\ len \in Nat /\ mem \in Memory(len)
  BY ZbuffAssumption, ReadyIs
<1>1. CASE Refuse
  <2>1. ZInv' /\ Store!Refuse
    BY <1>1, RefuseDone
  <2>. QED BY <2>1 DEF Store!Resize
<1>2. CASE /\ len' = n /\ mem' = Resized(mem, used, n) /\ used' = Least(used, n)
           /\ Answer(0, <<>>) /\ spill' = 0
  <2>1. PICK m : m = Resized(mem, used, n)
    OBVIOUS
  <2>2. /\ m \in Memory(n)
        /\ \A i \in 0 .. n - 1 : m[i] = IF i < used THEN mem[i] ELSE Undef
    BY <1>0, <2>1, ResizedIs
  <2>3. PICK u : u = Least(used, n)
    OBVIOUS
  <2>4. u \in Nat /\ u <= n /\ u <= used /\ Store!Within(used, n) = u
    BY <1>0, <2>3 DEF Least, Store!Within
  <2>5. Came(n, m, u, 0) /\ Store!Answer(0, <<>>)
    BY <1>0, <1>2, <2>1, <2>2, <2>3, <2>4 DEF Came, Answer, Store!Answer
  <2>6. ZInv'
    BY <1>2, <2>4, <2>5, CameIs
  <2>7. PICK w : w = Whole
    OBVIOUS
  <2>8. w \in Seq(Cells) /\ Len(w) = len /\ \A i \in 1 .. len : w[i] = mem[i - 1]
    BY <2>7, WholeIs
  <2>9. PICK v : v = Whole'
    OBVIOUS
  <2>10. v \in Seq(Cells) /\ Len(v) = n /\ \A i \in 1 .. n : v[i] = m[i - 1]
    BY <2>5, <2>9, WholeThen
  <2>11. \A i \in 1 .. u : v[i] = w[i]
    <3>. TAKE i \in 1 .. u
    <3>1. i \in 1 .. n /\ i \in 1 .. len /\ i - 1 \in 0 .. n - 1 /\ i - 1 < used
      BY <1>0, <2>4
    <3>. QED BY <2>2, <2>8, <2>10, <3>1
  <2>12. used' = u
    BY <1>2, <2>3
  <2>. QED BY <2>4, <2>5, <2>6, <2>7, <2>9, <2>10, <2>11, <2>12 DEF Store!Resize
<1>. QED BY <1>1, <1>2 DEF Resize

LEMMA SetDone ==
    ASSUME Ready, NEW start \in Starts \cup {Nil}, NEW request \in Starts \cup {Nil},
           NEW b \in Bytes, Set(start, request, b)
    PROVE  ZInv' /\ Store!Set(start, request, b)
<1>a. PICK at : at = Given(start, 0)
  OBVIOUS
<1>b. PICK asked : asked = Given(request, len)
  OBVIOUS
<1>c. PICK n : n = IF at + asked > len THEN len - at ELSE asked
  OBVIOUS
<1>d. PICK d : d = [i \in 1 .. n |-> b]
  OBVIOUS
<1>0. used \in Nat /\ used <= len /\ len <= MaxLen /\ len \in Nat
  BY ReadyIs
<1>1. /\ at \in 0 .. len /\ asked \in Nat
      /\ Store!Default(start, 0) = at /\ Store!Default(request, len) = asked
  <2>1. at \in 0 .. len /\ asked >= 0
    BY <1>a, <1>b DEF Set
  <2>2. asked \in Int
    BY <1>0, <1>b, ZbuffAssumption DEF Given
  <2>. QED BY <1>a, <1>b, <2>1, <2>2, GivenIs
<1>2. /\ len' = len /\ used' = used /\ spill' = 0 /\ reply' = [n |-> 0, data |-> <<>>]
      /\ mem' = Stored(mem, at, d)
  BY <1>a, <1>b, <1>c, <1>d DEF Set, Answer
<1>3. n \in Nat /\ n = Store!Within(asked, len - at)
  BY <1>0, <1>1, <1>c DEF Store!Within
<1>4. d \in Seq(Cells) /\ Len(d) = n
  <2>1. d \in Seq(Bytes) /\ Len(d) = n
    BY <1>3, <1>d
  <2>. QED BY <2>1, BytesAreCells
<1>5. mem' \in Memory(len) /\ Store!Written(at, d)
  <2>1. at \in Int /\ Len(d) <= Len(d) /\ Len(d) \in Nat
    BY <1>0, <1>1, <1>3, <1>4
  <2>. QED BY <1>2, <1>4, <2>1, WrittenIs
<1>6. Came(len, mem', used, 0)
  BY <1>0, <1>2, <1>5 DEF Came
<1>7. ZInv'
  BY <1>0, <1>2, <1>6, CameIs
<1>8. Len(Whole) = len /\ Store!Answer(0, <<>>)
  BY <1>2, WholeIs DEF Store!Answer
<1>9. Store!Set(start, request, b)
  BY <1>1, <1>2, <1>3, <1>5, <1>8, <1>d DEF Store!Set
<1>. QED BY <1>7, <1>9

LEMMA IndexDone ==
    ASSUME Ready, NEW o \in Starts, Index(o)
    PROVE  ZInv' /\ Store!Index(o)
<1>0. len \in Nat /\ Len(Whole) = len
  BY ReadyIs, WholeIs
<1>1. CASE o \in 0 .. len - 1
  <2>1. /\ reply' = [n |-> 1, data |-> Slice(mem, o, 1)] /\ spill' = 0
        /\ UNCHANGED <<len, mem, used>>
    BY <1>1 DEF Index, Answer
  <2>2. o \in Nat /\ o + 1 <= len /\ 1 \in Nat
    BY <1>0, <1>1
  <2>3. /\ ZInv' /\ Whole' = Whole /\ used' = used
        /\ Store!Answer(1, SubSeq(Whole, o + 1, o + 1))
    BY <2>1, <2>2, GetDone
  <2>4. SubSeq(Whole, o + 1, o + 1) = <<Whole[o + 1]>>
    <3>1. PICK w : w = Whole
      OBVIOUS
    <3>2. w \in Seq(Cells) /\ Len(w) = len
      BY <3>1, WholeIs
    <3>3. PICK k \in 1 .. len : k = o + 1
      BY <1>0, <2>2
    <3>4. PICK t : t = SubSeq(w, k, k)
      OBVIOUS
    <3>5. t \in Seq(Cells) /\ Len(t) = 1 /\ t[1] = w[k]
      BY <1>0, <3>2, <3>3, <3>4
    <3>6. t = <<w[k]>>
      BY <3>5
    <3>. QED BY <3>1, <3>3, <3>4, <3>6
  <2>. QED BY <1>0, <1>1, <2>3, <2>4 DEF Store!Index
<1>2. CASE o \notin 0 .. len - 1
  <2>1. ZInv' /\ Store!Refuse
    BY <1>2, RefuseDone DEF Index
  <2>. QED BY <1>0, <1>2, <2>1 DEF Store!Index
<1>. QED BY <1>1, <1>2

LEMMA NewIndexDone ==
    ASSUME Ready, NEW o \in Starts, NEW b \in Bytes, NewIndex(o, b)
    PROVE  ZInv' /\ Store!NewIndex(o, b)
<1>0. used \in Nat /\ used <= len /\ len <= MaxLen /\ len \in Nat /\ o \in Int
  BY ReadyIs, ZbuffAssumption
<1>1. CASE o \in 0 .. len
  <2>1. /\ mem' = Stored(mem, o, <<b>>) /\ spill' \in Nat
        /\ reply' = [n |-> 0, data |-> <<>>] /\ len' = len /\ used' = used
    BY <1>1 DEF NewIndex, Answer
  <2>2. PICK d : d = <<b>>
    OBVIOUS
  <2>3. d \in Seq(Cells) /\ Len(d) = 1
    BY <2>2 DEF Cells
  <2>4. mem' \in Memory(len) /\ Store!Written(o, d)
    <3>1. Len(d) <= Len(d) /\ Len(d) \in Nat /\ mem' = Stored(mem, o, d)
      BY <2>1, <2>2, <2>3
    <3>. QED BY <1>0, <2>1, <2>3, <3>1, WrittenIs
  <2>5. Came(len, mem', used, 0)
    BY <1>0, <2>1, <2>4 DEF Came
  <2>6. ZInv'
    BY <1>0, <2>1, <2>5, CameIs
  <2>. QED BY <2>1, <2>2, <2>4, <2>6 DEF Store!NewIndex, Store!Answer
<1>2. CASE o \notin 0 .. len
  <2>1. ZInv' /\ Store!Refuse
    BY <1>2, RefuseDone DEF NewIndex
  <2>2. PICK w : w = Whole
    OBVIOUS
  <2>3. w \in Seq(Cells) /\ Len(w) = len
    BY <2>2, WholeIs
  <2>4. Whole' = w /\ used' = used /\ Store!Answer(0, <<>>)
    BY <2>1, <2>2 DEF Store!Refuse
  <2>5. PICK d : d = <<b>>
    OBVIOUS
  <2>6. \A i \in 1 .. len : i \notin o + 1 .. o + Len(d)
    BY <1>0, <1>2, <2>5
  <2>7. Store!Written(o, d)
    BY <2>2, <2>3, <2>4, <2>6 DEF Store!Written
  <2>. QED BY <2>1, <2>4, <2>5, <2>7 DEF Store!NewIndex
<1>. QED BY <1>1, <1>2

LEMMA ToStrDone ==
    ASSUME Ready, NEW start \in Starts \cup {Nil}, NEW request \in Starts \cup {Nil},
           ToStr(start, request)
    PROVE  ZInv' /\ Store!ToStr(start, request)
<1>a. PICK at : at = IF Given(start, 0) \in 0 .. len THEN Given(start, 0) ELSE len
  OBVIOUS
<1>b. PICK asked : asked = Given(request, len)
  OBVIOUS
<1>c. PICK n : n = Least(asked, len - at)
  OBVIOUS
<1>0. len \in Nat /\ Len(Whole) = len
  BY ReadyIs, WholeIs
<1>1. /\ at \in 0 .. len /\ asked \in Int /\ Store!Default(request, len) = asked
  BY <1>0, <1>a, <1>b, ZbuffAssumption, GivenIs DEF Given
<1>2. /\ asked >= 0 /\ reply' = [n |-> n, data |-> Slice(mem, at, n)] /\ spill' = 0
      /\ UNCHANGED <<len, mem, used>>
  BY <1>a, <1>b, <1>c DEF ToStr, Answer
<1>3. /\ at \in Nat /\ n \in Nat /\ at + n <= len /\ n = Store!Within(asked, len - at)
  BY <1>0, <1>1, <1>2, <1>c DEF Least, Store!Within
<1>4. at = IF start = Nil THEN 0 ELSE IF start \in 0 .. len THEN start ELSE len
  <2>1. 0 \in 0 .. len
    BY <1>0
  <2>2. CASE start = Nil
    BY <1>a, <2>1, <2>2 DEF Given
  <2>3. CASE start # Nil
    BY <1>a, <2>3 DEF Given
  <2>. QED BY <2>2, <2>3
<1>5. /\ ZInv' /\ Whole' = Whole /\ used' = used
      /\ Store!Answer(n, SubSeq(Whole, at + 1, at + n))
  BY <1>2, <1>3, GetDone
<1>6. Store!ToStr(start, request)
  BY <1>0, <1>1, <1>3, <1>4, <1>5 DEF Store!ToStr
<1>. QED BY <1>5, <1>6

LEMMA StringDone ==
    ASSUME Ready, String
    PROVE  ZInv'
<1>1. CASE \E start \in Starts \cup {Nil}, d \in Data : Copy(start, d)
  BY <1>1, CopyDone
<1>2. CASE CopySelf \/ \E start \in Starts, d \in Ints : CopyInts(start, d)
  BY <1>2, CopySelfDone, CopyIntsDone
<1>3. CASE \E start, n \in Starts \cup {Nil} : Del(start, n) \/ Query(start, n)
  BY <1>3, DelDone, QueryDone
<1>4. CASE \E n \in Lens : Resize(n)
  BY <1>4, ResizeDone
<1>5. CASE \E start, n \in Starts \cup {Nil}, b \in Bytes : Set(start, n, b)
  BY <1>5, SetDone
<1>6. CASE \E o \in Starts, b \in Bytes : Index(o) \/ NewIndex(o, b)
  BY <1>6, IndexDone, NewIndexDone
<1>7. CASE \E start, n \in Starts \cup {Nil} : ToStr(start, n)
  BY <1>7, ToStrDone
<1>. QED BY <1>1, <1>2, <1>3, <1>4, <1>5, <1>6, <1>7 DEF String

LEMMA StringCallDone ==
    ASSUME Ready
    PROVE  StringCall
<1>1. /\ \A start \in Starts \cup {Nil}, d \in Data : Copy(start, d) => Store!Copy(start, d)
      /\ CopySelf => Store!CopySelf
      /\ \A start \in Starts, d \in Ints :
            CopyInts(start, d) /\ spill' = 0 => Store!Copy(start, d)
  BY CopyDone, CopySelfDone, CopyIntsDone
<1>2. \A start, n \in Starts \cup {Nil} :
         /\ Del(start, n) => Store!Del(start, n)
         /\ Query(start, n) => Store!Query(start, n)
         /\ ToStr(start, n) => Store!ToStr(start, n)
  BY DelDone, QueryDone, ToStrDone
<1>3. \A n \in Lens : Resize(n) => Store!Resize(n)
  BY ResizeDone
<1>4. \A start, n \in Starts \cup {Nil}, b \in Bytes :
         Set(start, n, b) => Store!Set(start, n, b)
  BY SetDone
<1>5. \A o \in Starts, b \in Bytes :
         /\ Index(o) => Store!Index(o)
         /\ NewIndex(o, b) => Store!NewIndex(o, b)
  BY IndexDone, NewIndexDone
<1>. QED BY <1>1, <1>2, <1>3, <1>4, <1>5 DEF StringCall
-----------------------------------------------------------------------------
(* What was packed is in the memory *)

PackedIn(l, m, p) ==
    /\ Packable(p.format, p.numbers)
    /\ p.at \in Nat
    /\ p.n \in Nat
    /\ p.at + p.n <= l
    /\ \A i \in 1 .. p.n : m[p.at + i - 1] = Packing(p.format, p.numbers)[i]

PackedInv == PackedIn(len, mem, packed)

LEMMA NothingPacked ==
    ASSUME NEW l \in Nat, NEW m
    PROVE  PackedIn(l, m, Nothing)
<1>1. Packable(<<>>, <<>>)
  BY DEF Packable, Fields
<1>. QED BY <1>1 DEF PackedIn, Nothing

LEMMA PackKeepsPacked ==
    ASSUME Ready, NEW format \in Formats, NEW numbers \in Numbers, Pack(format, numbers)
    PROVE  PackedInv'
<1>. DEFINE bytes == Packing(format, numbers)
            n == Least(Len(bytes), len - used)
<1>1. /\ len' = len /\ mem' = Stored(mem, used, SubSeq(bytes, 1, n))
      /\ packed' = [at |-> used, format |-> format, numbers |-> numbers, n |-> n]
  BY DEF Pack
<1>2. Packable(format, numbers) /\ bytes \in Seq(Bytes)
  BY PacksPackable, PackingIs
<1>. HIDE DEF bytes
<1>3. /\ len \in Nat /\ mem \in Memory(len) /\ used \in Nat /\ used <= len
      /\ n \in Nat /\ n <= Len(bytes) /\ n <= len - used
  <2>1. len - used \in Nat
    BY ReadyIs
  <2>. QED BY <1>2, <2>1, ReadyIs DEF Least
<1>. HIDE DEF n
<1>4. PICK e : e = SubSeq(bytes, 1, n)
  OBVIOUS
<1>5. e \in Seq(Cells) /\ Len(e) = n /\ \A i \in 1 .. n : e[i] = bytes[i]
  <2>1. e \in Seq(Bytes) /\ Len(e) = n /\ \A i \in 1 .. n : e[i] = bytes[i]
    BY <1>2, <1>3, <1>4
  <2>. QED BY <2>1, BytesAreCells
<1>6. PICK m : m = Stored(mem, used, e)
  OBVIOUS
<1>7. \A i \in 0 .. len - 1 :
         m[i] = IF i \in used .. used + Len(e) - 1 THEN e[i - used + 1] ELSE mem[i]
  <2>1. used \in Int
    BY <1>3
  <2>. QED BY <1>5, <1>6, <2>1, StoredHere
<1>8. \A i \in 1 .. n : m[used + i - 1] = bytes[i]
  <2>. TAKE i \in 1 .. n
  <2>1. /\ used + i - 1 \in 0 .. len - 1 /\ used + i - 1 \in used .. used + Len(e) - 1
        /\ (used + i - 1) - used + 1 = i
    BY <1>3, <1>5
  <2>. QED BY <1>5, <1>7, <2>1
<1>9. PackedIn(len, m, [at |-> used, format |-> format, numbers |-> numbers, n |-> n])
  <2>1. used + n <= len
    BY <1>3
  <2>. QED BY <1>2, <1>3, <1>8, <2>1 DEF PackedIn, bytes
<1>. QED BY <1>1, <1>4, <1>6, <1>9 DEF PackedInv

\* Every other call overwrites or replaces the memory, or leaves it.
LEMMA OthersKeepPacked ==
    ASSUME Ready, PackedInv, ZInv', packed' = Nothing \/ UNCHANGED <<len, mem, packed>>
    PROVE  PackedInv'
<1>1. CASE packed' = Nothing
  <2>1. len' \in Nat
    BY ZbuffAssumption DEF ZInv, ZTypeOK
  <2>. QED BY <1>1, <2>1, NothingPacked DEF PackedInv
<1>2. CASE UNCHANGED <<len, mem, packed>>
  BY <1>2 DEF PackedInv
<1>. QED BY <1>1, <1>2

LEMMA NextKeepsPacked ==
    ASSUME Ready, PackedInv, Stream \/ String
    PROVE  PackedInv'
<1>1. ZInv'
  BY StreamDone, StringDone
<1>. DEFINE Other == packed' = Nothing \/ UNCHANGED <<len, mem, packed>>
<1>2. CASE \E format \in Formats, numbers \in Numbers : Pack(format, numbers)
  BY <1>2, PackKeepsPacked
<1>3. CASE /\ Stream
           /\ ~ \E format \in Formats, numbers \in Numbers : Pack(format, numbers)
  <2>1. Other
    BY <1>3 DEF Stream, Write, Read, ReadTyped, WriteTyped, Seek, Unpack, Take, Refuse
  <2>. QED BY <1>1, <2>1, OthersKeepPacked
<1>4. CASE String
  <2>1. ASSUME NEW start, NEW d, Copy(start, d) \/ CopyInts(start, d) PROVE Other
    BY <2>1 DEF Copy, CopyInts, CopyTo, Refuse
  <2>2. CopySelf => Other
    BY DEF CopySelf, CopyTo, Refuse
  <2>3. ASSUME NEW start, NEW n, Del(start, n) \/ Query(start, n) PROVE Other
    BY <2>3 DEF Del, Query, Refuse
  <2>4. ASSUME NEW n, Resize(n) PROVE Other
    BY <2>4 DEF Resize, Refuse
  <2>5. ASSUME NEW start, NEW n, NEW b, Set(start, n, b) PROVE Other
    BY <2>5 DEF Set
  <2>6. ASSUME NEW o, NEW b, Index(o) \/ NewIndex(o, b) PROVE Other
    BY <2>6 DEF Index, NewIndex, Refuse
  <2>7. ASSUME NEW start, NEW n, ToStr(start, n) PROVE Other
    BY <2>7 DEF ToStr
  <2>8. Other
    BY <1>4, <2>1, <2>2, <2>3, <2>4, <2>5, <2>6, <2>7 DEF String
  <2>. QED BY <1>1, <2>8, OthersKeepPacked
<1>. QED BY <1>2, <1>3, <1>4

\* A field that was written in full lies in the memory in full.
LEMMA FittingGrows ==
    ASSUME NEW format \in Fields, NEW n \in Nat, NEW left \in Nat, n <= left
    PROVE  Fitting(format, n) <= Fitting(format, left)
<1>. DEFINE at == Place(format)  K == Fitting(format, n)  F == Fitting(format, left)
<1>1. /\ K \in 0 .. Len(format) /\ at[K + 1] <= n
      /\ F \in 0 .. Len(format) /\ (F < Len(format) => at[F + 2] > left)
  BY FittingIs
<1>2. Len(format) \in Nat
  BY DEF Fields
<1>. SUFFICES ASSUME F < K PROVE FALSE
  BY <1>1
<1>. HIDE DEF K, F
<1>3. /\ F + 2 \in 1 .. Len(format) + 1 /\ K + 1 \in F + 2 .. Len(format) + 1
      /\ K + 1 \in 1 .. Len(format) + 1
  BY <1>1, <1>2
<1>4. at[F + 2] <= at[K + 1] /\ at[F + 2] \in Nat /\ at[K + 1] \in Nat
  BY <1>3, PlaceGrows, PlaceType
<1>. HIDE DEF at
<1>. QED BY <1>1, <1>2, <1>4

LEMMA PackedIsRead ==
    ASSUME ZTypeOK, PackedInv
    PROVE  PackedReadsBack
<1>. PICK format, numbers, n, start :
        format = packed.format /\ numbers = packed.numbers /\ n = packed.n /\ start = packed.at
  OBVIOUS
<1>1. /\ Packable(format, numbers) /\ start \in Nat /\ n \in Nat /\ start + n <= len
      /\ \A i \in 1 .. n : mem[start + i - 1] = Packing(format, numbers)[i]
  BY DEF PackedInv, PackedIn
<1>2. len \in Nat /\ mem \in Memory(len)
  BY ZbuffAssumption DEF ZTypeOK, Memory
<1>3. format \in Fields /\ Len(format) \in Nat
  BY <1>1 DEF Packable, Fields
<1>. DEFINE at == Place(format)  K == Fitting(format, n)
<1>4. len - start \in Nat /\ n <= len - start
  BY <1>1, <1>2
<1>5. K <= Fitting(format, len - start)
  BY <1>1, <1>3, <1>4, FittingGrows
<1>6. K \in 0 .. Len(format) /\ at[K + 1] <= n /\ Fitting(format, len - start) \in 0 .. Len(format)
  BY <1>1, <1>3, <1>4, FittingIs
<1>7. ASSUME NEW k \in 1 .. K PROVE Unpacked(format, start)[k] = numbers[k]
  <2>. DEFINE field == format[k]  s == Slice(mem, start + at[k], field[2])
              e == Encoded(field, numbers[k])
  <2>. HIDE DEF K
  <2>1. k \in 1 .. Len(format) /\ k \in 1 .. Fitting(format, len - start)
    BY <1>3, <1>5, <1>6
  <2>2. Unpacked(format, start)[k] = Decoded(field, s)
    BY <2>1 DEF Unpacked
  <2>3. field \in Field /\ FitsInto(numbers[k], field) /\ field[2] \in {1, 2}
    BY <1>1, <1>3, <2>1 DEF Packable, Fields, Field
  <2>4. e \in Seq(Bytes) /\ Len(e) = field[2] /\ Decoded(field, e) = numbers[k]
    BY <2>3, DecodeEncode
  <2>5. at[k] \in Nat /\ at[k] + field[2] <= n
    <3>1. /\ k \in 1 .. Len(format) + 1 /\ k + 1 \in 1 .. Len(format) + 1
          /\ K + 1 \in k + 1 .. Len(format) + 1 /\ K + 1 \in 1 .. Len(format) + 1
      BY <1>3, <1>6, <2>1
    <3>2. at[k] \in Nat /\ at[k + 1] \in Nat /\ at[K + 1] \in Nat /\ at[k + 1] <= at[K + 1]
      BY <1>3, <3>1, PlaceType, PlaceGrows
    <3>3. at[k + 1] = at[k] + field[2]
      BY <1>3, <2>1, PlaceIs
    <3>. HIDE DEF at, field
    <3>. QED BY <1>1, <1>6, <2>3, <3>2, <3>3
  <2>6. \A i \in 1 .. 2 : i <= field[2] => Packing(format, numbers)[at[k] + i] = e[i]
    BY <1>1, <2>1, PackingIs
  <2>. HIDE DEF at, field, e
  <2>7. /\ s \in Seq(Cells) /\ Len(s) = field[2]
        /\ \A i \in 1 .. field[2] :
              s[i] = IF start + at[k] + i - 1 \in 0 .. len - 1
                       THEN mem[start + at[k] + i - 1] ELSE Undef
    <3>1. start + at[k] \in Int /\ field[2] \in Nat
      BY <1>1, <2>3, <2>5
    <3>. QED BY ONLY <1>2, <3>1, SliceIs DEF s
  <2>. HIDE DEF s
  <2>8. \A i \in 1 .. field[2] : s[i] = e[i]
    <3>. TAKE i \in 1 .. field[2]
    <3>1. i \in 1 .. 2 /\ i <= field[2] /\ i \in Nat
      BY <2>3
    <3>2. at[k] + i \in 1 .. n
      BY <1>1, <2>3, <2>5, <3>1
    <3>3. start + (at[k] + i) - 1 = start + at[k] + i - 1 /\ start + at[k] + i - 1 \in 0 .. len - 1
      BY <1>1, <1>2, <2>5, <3>1, <3>2
    <3>4. mem[start + (at[k] + i) - 1] = Packing(format, numbers)[at[k] + i]
      BY <1>1, <3>2
    <3>. QED BY <2>6, <2>7, <3>1, <3>3, <3>4
  <2>9. s = e
    BY <2>3, <2>4, <2>7, <2>8
  <2>. QED BY <2>2, <2>4, <2>9
<1>. QED BY <1>7 DEF PackedReadsBack
-----------------------------------------------------------------------------
(* Theorems *)

LEMMA InitDone == Init => ZInv /\ PackedInv
<1>. SUFFICES ASSUME Init PROVE ZInv /\ PackedInv
  OBVIOUS
<1>1. /\ len \in Nat /\ len \in 0 .. MaxLen /\ spill = 0
      /\ reply = [n |-> 0, data |-> <<>>] /\ packed = Nothing
  BY ZbuffAssumption DEF Init
<1>2. PackedInv
  BY <1>1, NothingPacked DEF PackedInv
\* What is in the memory.
<1>3. ASSUME mem \in Memory(len), used \in Nat, used <= len
      PROVE  ZInv
  BY <1>1, <1>3 DEF ZInv, ZTypeOK, UsedFits, Memory
<1>4. CASE \E b \in Bytes : mem = [i \in 0 .. len - 1 |-> b] /\ used = 0
  <2>1. mem \in Memory(len)
    BY <1>4 DEF Memory, Cells
  <2>2. used \in Nat /\ used <= len
    BY <1>1, <1>4
  <2>. QED BY <1>2, <1>3, <2>1, <2>2
<1>5. CASE \E d \in Data :
             /\ used = Least(Len(d), len)
             /\ mem = [i \in 0 .. len - 1 |-> IF i < used THEN d[i + 1] ELSE Undef]
  <2>1. PICK d \in Data :
             /\ used = Least(Len(d), len)
             /\ mem = [i \in 0 .. len - 1 |-> IF i < used THEN d[i + 1] ELSE Undef]
    BY <1>5
  <2>2. d \in Seq(Bytes) /\ Len(d) \in Nat
    BY ZbuffAssumption
  <2>3. used \in Nat /\ used <= len /\ used <= Len(d)
    BY <1>1, <2>1, <2>2 DEF Least
  <2>4. mem \in Memory(len)
    <3>1. \A i \in 0 .. len - 1 : i < used => d[i + 1] \in Cells
      <4>. TAKE i \in 0 .. len - 1
      <4>1. i < used => i + 1 \in 1 .. Len(d)
        BY <1>1, <2>2, <2>3
      <4>. QED BY <2>2, <4>1 DEF Cells
    <3>2. Undef \in Cells
      BY DEF Cells
    <3>. QED BY <2>1, <3>1, <3>2 DEF Memory
  <2>. QED BY <1>2, <1>3, <2>3, <2>4
<1>. QED BY <1>4, <1>5 DEF Init

LEMMA NextDone ==
    ASSUME ZInv, [Next]_vars
    PROVE  ZInv'
<1>1. CASE Next
  BY <1>1, StreamDone, StringDone DEF Ready, ZInv, Next
<1>2. CASE UNCHANGED vars
  BY <1>2 DEF vars, ZInv, ZTypeOK, UsedFits
<1>. QED BY <1>1, <1>2

\* The length is between zero and its bound, the memory has that many cells, and
\* the number that is both the cursor and the amount of data is a natural, as
\* are the counts that the functions return: seek and del, which subtract from
\* them, stop at zero.
THEOREM ZTypesCorrect == Spec => []ZTypeOK
<1>1. Init => ZInv
  BY InitDone
<1>2. ZInv /\ [Next]_vars => ZInv'
  BY NextDone
<1>3. ZInv => ZTypeOK
  BY DEF ZInv
<1>. QED BY <1>1, <1>2, <1>3, PTL DEF Spec

\* Every function computes the room that is left as an unsigned len - used: it
\* never wraps around, whatever the lengths, the strings, the formats and the
\* offsets are and however the calls of the stream and of the string are mixed,
\* unless the last call has written past the memory.
THEOREM DataFits == Spec => []UsedFits
<1>1. Init => ZInv
  BY InitDone
<1>2. ZInv /\ [Next]_vars => ZInv'
  BY NextDone
<1>3. ZInv => UsedFits
  BY DEF ZInv
<1>. QED BY <1>1, <1>2, <1>3, PTL DEF Spec

\* To a script a zbuff is a string of bytes: each function, with whatever arguments,
\* leaves the bytes and returns the bytes that ByteString derives from the same
\* arguments, whatever it does to the memory.  Only a copy of integers that writes
\* past the memory is excepted.
THEOREM ByteStringImplemented == Spec => ImplementsByteString
<1>1. Init => ZInv
  BY InitDone
<1>2. ZInv /\ [Next]_vars => ZInv'
  BY NextDone
<1>3. ZInv /\ [Next]_vars => [StreamCall /\ StringCall]_vars
  <2>. SUFFICES ASSUME ZInv, Next PROVE StreamCall /\ StringCall
    OBVIOUS
  <2>1. Ready
    BY DEF Ready, ZInv, Next
  <2>. QED BY <2>1, StreamCallDone, StringCallDone
<1>. QED BY <1>1, <1>2, <1>3, PTL DEF Spec, ImplementsByteString

\* unpack returns the numbers that pack was given, for every format of bytes and
\* shorts in either byte order and as many of the fields as fitted into the
\* memory, until the memory is written again or replaced.
THEOREM PackReadBack == Spec => []PackedReadsBack
<1>1. Init => ZInv /\ PackedInv
  BY InitDone
<1>2. ZInv /\ PackedInv /\ [Next]_vars => ZInv' /\ PackedInv'
  <2>. SUFFICES ASSUME ZInv, PackedInv, [Next]_vars PROVE ZInv' /\ PackedInv'
    OBVIOUS
  <2>1. ZInv'
    BY NextDone
  <2>2. CASE Next
    <3>1. Ready /\ (Stream \/ String)
      BY <2>2 DEF Ready, ZInv, Next
    <3>. QED BY <2>1, <3>1, NextKeepsPacked
  <2>3. CASE UNCHANGED vars
    BY <2>1, <2>3 DEF vars, PackedInv
  <2>. QED BY <2>2, <2>3
<1>3. ZInv /\ PackedInv => PackedReadsBack
  BY PackedIsRead DEF ZInv
<1>. QED BY <1>1, <1>2, <1>3, PTL DEF Spec
=============================================================================
