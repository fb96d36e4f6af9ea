----------------------------- MODULE FileProofs -----------------------------
(***************************************************************************)
(* Proofs about the file of Controller's interface, for any sets, any      *)
(* calls and any page size: nothing is written beyond the bytes getSize    *)
(* counts, and the two parsers read back what was written.  The offsets,   *)
(* the sums of sizes and the parsers are recursive functions: what they    *)
(* compute is proved by Induction, which is itself derived here from the   *)
(* well-foundedness of the subset ordering on finite sets.                 *)
(***************************************************************************)
EXTENDS ControllerProofs, FiniteSetTheorems

-----------------------------------------------------------------------------
(* Induction on numbers *)

\* A set of numbers has a least one.
LEMMA LeastNumber ==
  ASSUME NEW T \in SUBSET Nat, T # {}
  PROVE  \E n \in T : \A m \in T : n <= m
<1> DEFINE below == {0..(n - 1) : n \in T}
<1>1. below \subseteq FiniteSubsetsOf(Nat)
  <2>1. ASSUME NEW n \in T PROVE 0..(n - 1) \in SUBSET Nat /\ IsFiniteSet(0..(n - 1))
    <3>1. 0 \in Int /\ n - 1 \in Int
      OBVIOUS
    <3> QED
      BY <3>1, FS_Interval
  <2> QED
    BY <2>1 DEF FiniteSubsetsOf
<1>2. PICK x \in below : \A y \in below : ~(<<y, x>> \in StrictSubsetOrdering(Nat))
  <2>1. below # {}
    OBVIOUS
  <2> QED
    BY <1>1, <2>1, FS_StrictSubsetOrderingWellFounded, WFMin, Zenon
<1>3. PICK n \in T : x = 0..(n - 1)
  OBVIOUS
<1>4. ASSUME NEW m \in T, m < n PROVE FALSE
  <2>1. 0..(m - 1) \in below /\ m - 1 < n - 1 /\ m - 1 \in Int /\ n - 1 \in Nat
    BY <1>4
  <2>2. 0..(m - 1) \subseteq 0..(n - 1) /\ 0..(m - 1) # 0..(n - 1)
    BY <2>1
  <2>3. <<0..(m - 1), x>> \in StrictSubsetOrdering(Nat)
    BY <1>3, <2>1, <2>2 DEF StrictSubsetOrdering
  <2> QED
    BY <1>2, <2>1, <2>3
<1> QED
  BY <1>4

\* A set of numbers that has 0, and with each number below N the next one, has 0..N.
LEMMA Induction ==
  ASSUME NEW N \in Nat, NEW S, 0 \in S, \A n \in 0..(N - 1) : n \in S => n + 1 \in S
  PROVE  0..N \subseteq S
<1> SUFFICES ASSUME 0..N \ S # {} PROVE FALSE
  OBVIOUS
<1>1. 0..N \ S \in SUBSET Nat
  OBVIOUS
<1>2. PICK n \in 0..N \ S : \A m \in 0..N \ S : n <= m
  BY <1>1, LeastNumber
<1>3. n # 0 /\ n - 1 \in 0..(N - 1)
  BY <1>2
<1>4. n - 1 \in S
  BY <1>2, <1>3
<1> QED
  BY <1>2, <1>3, <1>4
-----------------------------------------------------------------------------
(* Lines and their offsets *)

\* A sequence of lines, none of them without a byte.
Sized(lines) == /\ Len(lines) \in Nat /\ DOMAIN lines = 1..Len(lines)
                /\ \A k \in 1..Len(lines) : LineSize(lines[k]) \in Nat \ {0}

\* The first offset is the given one, and each line begins where the one before ends.
LEMMA Offsets ==
  ASSUME NEW p \in Nat, NEW lines, Sized(lines)
  PROVE  /\ LineOffsets(p, lines) \in [1..(Len(lines) + 1) -> Nat]
         /\ LineOffsets(p, lines)[1] = p
         /\ \A k \in 1..Len(lines) :
               LineOffsets(p, lines)[k + 1] = LineOffsets(p, lines)[k] + LineSize(lines[k])
<1> DEFINE N == Len(lines)
           Next1(k, n) == n + LineSize(lines[k])
           at == LineOffsets(p, lines)
           Good(n) == \E g \in [1..(n + 1) -> Nat] :
                         g[1] = p /\ \A k \in 1..n : g[k + 1] = Next1(k, g[k])
           S == {n \in Nat : Good(n)}
<1>1. N \in Nat /\ \A k \in 1..N : \A n \in Nat : Next1(k, n) \in Nat
  BY DEF Sized
<1> HIDE DEF Next1, N
<1>2. 0 \in S
  <2> DEFINE g == [k \in 1..(0 + 1) |-> p]
  <2>1. g \in [1..(0 + 1) -> Nat] /\ g[1] = p /\ \A k \in 1..0 : g[k + 1] = Next1(k, g[k])
    OBVIOUS
  <2> HIDE DEF g
  <2>2. Good(0)
    BY <2>1
  <2> HIDE DEF Good
  <2> QED
    BY <2>2
<1>3. ASSUME NEW n \in 0..(N - 1), n \in S PROVE n + 1 \in S
  <2>1. PICK g \in [1..(n + 1) -> Nat] :
               g[1] = p /\ \A k \in 1..n : g[k + 1] = Next1(k, g[k])
    BY <1>3
  <2> DEFINE h == [k \in 1..(n + 2) |-> IF k <= n + 1 THEN g[k] ELSE Next1(n + 1, g[n + 1])]
  <2>2. n + 1 \in 1..N /\ n \in Nat
    BY <1>1
  <2>3. h \in [1..(n + 2) -> Nat]
    <3>1. n + 1 \in 1..(n + 1) /\ g[n + 1] \in Nat /\ Next1(n + 1, g[n + 1]) \in Nat
      BY <1>1, <2>2
    <3>2. ASSUME NEW k \in 1..(n + 2)
          PROVE  (IF k <= n + 1 THEN g[k] ELSE Next1(n + 1, g[n + 1])) \in Nat
      BY <2>2, <3>1
    <3> QED
      BY <3>2
  <2>4. h[1] = p
    BY <2>1, <2>2
  <2>5. ASSUME NEW k \in 1..(n + 1) PROVE h[k + 1] = Next1(k, h[k])
    <3>1. CASE k <= n
      <4>1. k \in 1..n /\ k + 1 <= n + 1 /\ k + 1 \in 1..(n + 2) /\ k \in 1..(n + 2)
        BY <2>2, <3>1
      <4> QED
        BY <2>1, <2>2, <4>1
    <3>2. CASE k = n + 1
      BY <2>2, <3>2
    <3> QED
      BY <2>2, <3>1, <3>2
  <2>6. (n + 1) + 1 = n + 2
    BY <2>2
  <2> HIDE DEF h
  <2>7. Good(n + 1)
    BY <2>3, <2>4, <2>5, <2>6
  <2> HIDE DEF Good
  <2> QED
    BY <2>2, <2>7
<1>4. N \in S
  <2> HIDE DEF S
  <2>1. 0..N \subseteq S
    BY <1>1, <1>2, <1>3, Induction
  <2> QED
    BY <1>1, <2>1
<1>5. PICK g \in [1..(N + 1) -> Nat] :
             g[1] = p /\ \A k \in 1..N : g[k + 1] = Next1(k, g[k])
  BY <1>4
<1> DEFINE Body(f) == [k \in 1..(N + 1) |-> IF k = 1 THEN p ELSE Next1(k - 1, f[k - 1])]
<1>6. g = Body(g)
  <2>1. ASSUME NEW k \in 1..(N + 1), k # 1 PROVE k - 1 \in 1..N /\ (k - 1) + 1 = k
    BY <1>1, <2>1
  <2> QED
    BY <1>1, <1>5, <2>1
<1>7. at = (CHOOSE f : f = Body(f))
  BY DEF LineOffsets, Next1, N
<1>8. at = Body(at)
  BY <1>6, <1>7
<1> HIDE DEF at
<1>9. at[1] = p /\ DOMAIN at = 1..(N + 1) /\ at = [k \in 1..(N + 1) |-> at[k]]
  BY <1>1, <1>8
<1>10. ASSUME NEW k \in 1..N PROVE at[k + 1] = Next1(k, at[k])
  <2>1. k + 1 \in 1..(N + 1) /\ k + 1 # 1 /\ (k + 1) - 1 = k
    BY <1>1
  <2> QED
    BY <1>8, <2>1
<1>11. 0..N \subseteq {n \in Nat : at[n + 1] \in Nat}
  <2>1. ASSUME NEW n \in 0..(N - 1), at[n + 1] \in Nat PROVE at[(n + 1) + 1] \in Nat
    <3>1. n + 1 \in 1..N
      BY <1>1
    <3> QED
      BY <1>1, <1>10, <2>1, <3>1
  <2>2. 0 \in {n \in Nat : at[n + 1] \in Nat}
    BY <1>9
  <2>3. \A n \in 0..(N - 1) : n \in {m \in Nat : at[m + 1] \in Nat} =>
                                 n + 1 \in {m \in Nat : at[m + 1] \in Nat}
    BY <2>1
  <2> QED
    BY <1>1, <2>2, <2>3, Induction
<1>12. ASSUME NEW k \in 1..(N + 1) PROVE at[k] \in Nat
  <2>1. k - 1 \in 0..N /\ (k - 1) + 1 = k
    BY <1>1
  <2> QED
    BY <1>11, <2>1
<1> QED
  BY <1>9, <1>10, <1>12 DEF Next1, N, at

\* Lines do not overlap.
LEMMA OffsetsIncrease ==
  ASSUME NEW p \in Nat, NEW lines, Sized(lines),
         NEW j \in 1..Len(lines), NEW k \in 1..(Len(lines) + 1), j < k
  PROVE  LineOffsets(p, lines)[j] + LineSize(lines[j]) <= LineOffsets(p, lines)[k]
<1> DEFINE N == Len(lines)
           at == LineOffsets(p, lines)
           S == {d \in Nat : j + 1 + d <= N + 1 => at[j] + LineSize(lines[j]) <= at[j + 1 + d]}
<1>1. /\ at \in [1..(N + 1) -> Nat]
      /\ \A m \in 1..N : at[m + 1] = at[m] + LineSize(lines[m])
  <2>1. at \in [1..(N + 1) -> Nat]
    BY Offsets, Zenon
  <2>2. \A m \in 1..N : at[m + 1] = at[m] + LineSize(lines[m])
    BY Offsets
  <2> QED
    BY <2>1, <2>2
<1>2. N \in Nat /\ \A m \in 1..N : LineSize(lines[m]) \in Nat \ {0}
  BY DEF Sized
<1> HIDE DEF at, N
<1>3. 0 \in S
  <2>1. j \in 1..N /\ j \in 1..(N + 1) /\ j + 1 \in 1..(N + 1) /\ j + 1 + 0 = j + 1
    BY <1>2 DEF N
  <2>2. at[j + 1] = at[j] + LineSize(lines[j]) /\ at[j] \in Nat /\ LineSize(lines[j]) \in Nat
    BY <1>1, <1>2, <2>1
  <2> QED
    BY <2>1, <2>2
<1>4. ASSUME NEW d \in 0..(N - 1), d \in S PROVE d + 1 \in S
  <2>1. SUFFICES ASSUME j + 1 + (d + 1) <= N + 1
                 PROVE  at[j] + LineSize(lines[j]) <= at[j + 1 + (d + 1)]
    OBVIOUS
  <2>2. j + 1 + d \in 1..N /\ j \in 1..N /\ j + 1 + (d + 1) = (j + 1 + d) + 1
    BY <1>2, <2>1 DEF N
  <2>3. at[j] + LineSize(lines[j]) <= at[j + 1 + d]
    BY <1>2, <1>4, <2>2
  <2>4. at[(j + 1 + d) + 1] = at[j + 1 + d] + LineSize(lines[j + 1 + d])
    BY <1>1, <2>2
  <2>5. /\ at[j] \in Nat /\ at[j + 1 + d] \in Nat
        /\ LineSize(lines[j]) \in Nat /\ LineSize(lines[j + 1 + d]) \in Nat
    <3>1. j \in 1..(N + 1) /\ j + 1 + d \in 1..(N + 1)
      BY <1>2, <2>2
    <3> QED
      BY <1>1, <1>2, <2>2, <3>1
  <2> QED
    BY <2>2, <2>3, <2>4, <2>5
<1>5. 0..N \subseteq S
  BY <1>2, <1>3, <1>4, Induction
<1>6. k - (j + 1) \in 0..N /\ j + 1 + (k - (j + 1)) = k
  BY <1>2 DEF N
<1>7. at[j] + LineSize(lines[j]) <= at[k]
  <2>1. k - (j + 1) \in S
    BY <1>5, <1>6
  <2>2. k <= N + 1
    BY <1>2 DEF N
  <2> QED
    BY <1>6, <2>1, <2>2
<1> QED
  BY <1>7 DEF at

\* Offsets are determined by the first one and the sizes.
LEMMA OffsetsUnique ==
  ASSUME NEW p \in Nat, NEW lines, Sized(lines), NEW g,
         g[1] = p, \A k \in 1..Len(lines) : g[k + 1] = g[k] + LineSize(lines[k])
  PROVE  \A k \in 1..(Len(lines) + 1) : LineOffsets(p, lines)[k] = g[k]
<1> DEFINE N == Len(lines)
           at == LineOffsets(p, lines)
           S == {n \in Nat : at[n + 1] = g[n + 1]}
<1>1. at[1] = p /\ \A k \in 1..N : at[k + 1] = at[k] + LineSize(lines[k])
  BY Offsets
<1>2. N \in Nat
  BY DEF Sized
<1> HIDE DEF at
<1>3. 0 \in S
  BY <1>1
<1>4. ASSUME NEW n \in 0..(N - 1), n \in S PROVE n + 1 \in S
  <2>1. n + 1 \in 1..N
    BY <1>2
  <2> QED
    BY <1>1, <1>4, <2>1
<1>5. 0..N \subseteq S
  BY <1>2, <1>3, <1>4, Induction
<1>6. ASSUME NEW k \in 1..(N + 1) PROVE at[k] = g[k]
  <2>1. k - 1 \in 0..N /\ (k - 1) + 1 = k
    BY <1>2
  <2> QED
    BY <1>5, <2>1
<1> QED
  BY <1>6 DEF at

\* Lines of the same sizes have offsets at the same distances.
SameSized(lines, others) ==
    /\ Sized(lines) /\ Sized(others) /\ Len(others) = Len(lines)
    /\ \A k \in 1..Len(lines) : LineSize(others[k]) = LineSize(lines[k])

LEMMA OffsetsShift ==
  ASSUME NEW p \in Nat, NEW q \in Nat, NEW lines, NEW others, SameSized(lines, others)
  PROVE  \A k \in 1..(Len(lines) + 1) :
            LineOffsets(p + q, lines)[k] = p + LineOffsets(q, others)[k]
<1> DEFINE N == Len(lines)
           at == LineOffsets(q, others)
           g == [k \in 1..(N + 1) |-> p + at[k]]
<1>0. Sized(lines) /\ Sized(others) /\ Len(others) = N
  BY DEF SameSized
<1>1. /\ at \in [1..(N + 1) -> Nat] /\ at[1] = q
      /\ \A k \in 1..N : at[k + 1] = at[k] + LineSize(lines[k])
  <2>1. at \in [1..(Len(others) + 1) -> Nat]
    BY <1>0, Offsets, Zenon
  <2>2. at[1] = q /\ \A k \in 1..Len(others) : at[k + 1] = at[k] + LineSize(others[k])
    BY <1>0, Offsets
  <2> HIDE DEF at
  <2>3. \A k \in 1..N : LineSize(others[k]) = LineSize(lines[k])
    BY DEF SameSized
  <2> QED
    BY <1>0, <2>1, <2>2, <2>3
<1>2. N \in Nat /\ \A k \in 1..N : LineSize(lines[k]) \in Nat
  BY <1>0 DEF Sized
<1> HIDE DEF at
<1>3. g[1] = p + q
  BY <1>1, <1>2
<1>4. ASSUME NEW k \in 1..N PROVE g[k + 1] = g[k] + LineSize(lines[k])
  <2>1. k \in 1..(N + 1) /\ k + 1 \in 1..(N + 1)
    BY <1>2
  <2> QED
    <3>1. at[k + 1] = at[k] + LineSize(lines[k]) /\ at[k] \in Nat /\ LineSize(lines[k]) \in Nat
      BY <1>1, <1>2, <2>1
    <3>2. g[k] = p + at[k] /\ g[k + 1] = p + at[k + 1]
      BY <2>1
    <3> QED
      BY <3>1, <3>2
<1>5. p + q \in Nat
  OBVIOUS
<1>6. \A k \in 1..(N + 1) : LineOffsets(p + q, lines)[k] = g[k]
  <2> HIDE DEF g
  <2> QED
    BY <1>0, <1>3, <1>4, <1>5, OffsetsUnique
<1> QED
  BY <1>6 DEF at

-----------------------------------------------------------------------------
(* The lines of a set *)

\* SetToSeq lists a finite set, each element once.
LEMMA SetSequence ==
  ASSUME NEW S, IsFiniteSet(S)
  PROVE  /\ Cardinality(S) \in Nat
         /\ SetToSeq(S) \in Seq(S)
         /\ Len(SetToSeq(S)) = Cardinality(S)
         /\ DOMAIN SetToSeq(S) = 1..Cardinality(S)
         /\ {SetToSeq(S)[j] : j \in 1..Cardinality(S)} = S
         /\ SetToSeq(S) = <<>> <=> S = {}
<1> DEFINE n == Cardinality(S)
           f == SetToSeq(S)
<1>1. n \in Nat /\ ExistsBijection(1..n, S)
  BY FS_CardinalityType
<1>2. PICK g \in [1..n -> S] : IsInjective(g)
  BY <1>1 DEF ExistsBijection, Bijection, Injection
<1>3. f \in [1..n -> S] /\ IsInjective(f)
  BY <1>2 DEF SetToSeq
<1> HIDE DEF f
<1>4. f \in Surjection(1..n, S)
  <2>1. IsFiniteSet(1..n) /\ Cardinality(1..n) = n
    BY <1>1, FS_Interval
  <2>2. f \in Injection(1..n, S)
    BY <1>3 DEF Injection
  <2> QED
    BY <2>1, <2>2, FS_Injection
<1>5. {f[j] : j \in 1..n} = S
  BY <1>3, <1>4 DEF Surjection
<1>6. f \in Seq(S) /\ Len(f) = n /\ DOMAIN f = 1..n
  BY <1>1, <1>3
<1>7. f = <<>> <=> S = {}
  <2>1. ASSUME f = <<>> PROVE S = {}
    <3>1. n = 0
      BY <1>6, <2>1, EmptySeq
    <3> QED
      BY <1>5, <3>1
  <2>2. ASSUME f # <<>> PROVE S # {}
    <3>1. n \in Nat \ {0}
      BY <1>6, <2>2, EmptySeq
    <3>2. f[1] \in S
      BY <1>3, <3>1
    <3> QED
      BY <3>2
  <2> QED
    BY <2>1, <2>2
<1> QED
  BY <1>1, <1>5, <1>6, <1>7 DEF f

\* The lines there are, and that each of them has at least its newline.
LineKinds == {Mask(m) : m \in SUBSET Cores} \cup {Number(n) : n \in Nat}
             \cup {Name(f) : f \in Names} \cup {Blank}

LEMMA LineSizes ==
  /\ \A m : LineSize(Mask(m)) = 9
  /\ \A n \in Nat : LineSize(Number(n)) = Digits(n) + 1 /\ Digits(n) \in Nat \ {0}
  /\ LineSize(Blank) = 1
  /\ \A f \in Names : LineSize(Name(f)) \in Nat \ {0}
<1>1. \A m : LineSize(Mask(m)) = 9
  BY DEF LineSize, Mask
<1>2. \A n \in Nat : LineSize(Number(n)) = Digits(n) + 1 /\ Digits(n) \in Nat \ {0}
  BY DEF LineSize, Number, Digits
<1>3. LineSize(Blank) = 1
  BY DEF LineSize, Blank
<1>4. ASSUME NEW f \in Names PROVE LineSize(Name(f)) \in Nat \ {0}
  <2>1. NameLen[f] \in Nat
    BY IpcInterfaceAssumption DEF Names
  <2>2. LineSize(Name(f)) = 1 + NameLen[f]
    BY DEF LineSize, Name
  <2> QED
    BY <2>1, <2>2
<1> QED
  BY <1>1, <1>2, <1>3, <1>4

LEMMA KindSizes == \A l \in LineKinds : LineSize(l) \in Nat \ {0}
<1> SUFFICES ASSUME NEW l \in LineKinds PROVE LineSize(l) \in Nat \ {0}
  OBVIOUS
<1>1. CASE \E m : l = Mask(m)
  BY <1>1, LineSizes
<1>2. CASE \E n \in Nat : l = Number(n)
  BY <1>2, LineSizes
<1>3. CASE \E f \in Names : l = Name(f)
  BY <1>3, LineSizes
<1>4. CASE l = Blank
  BY <1>4, LineSizes
<1> QED
  BY <1>1, <1>2, <1>3, <1>4 DEF LineKinds

LEMMA SizedLines == \A lines \in Seq(LineKinds) : Sized(lines)
<1> SUFFICES ASSUME NEW lines \in Seq(LineKinds) PROVE Sized(lines)
  OBVIOUS
<1>1. Len(lines) \in Nat /\ DOMAIN lines = 1..Len(lines)
  BY LenProperties
<1>2. \A k \in 1..Len(lines) : LineSize(lines[k]) \in Nat \ {0}
  BY ElementOfSeq, KindSizes
<1> QED
  BY <1>1, <1>2 DEF Sized

\* The masks, the number of names, and the names or an empty line.
BytesOf(b, s, entry, exit) ==
    LET names == SetToSeq(functions[s])
        n     == Cardinality(functions[s])
    IN /\ b \in Seq(LineKinds) /\ n \in Nat
       /\ Len(b) = 3 + (IF n = 0 THEN 1 ELSE n)
       /\ b[1] = Mask(entry) /\ b[2] = Mask(exit) /\ b[3] = Number(n)
       /\ n = 0 <=> functions[s] = {}
       /\ n = 0 => b[4] = Blank
       /\ \A j \in 1..n : b[3 + j] = Name(names[j])

LEMMA SetBytes ==
  ASSUME NEW s \in FunctionSets, NEW entry \in SUBSET Cores, NEW exit \in SUBSET Cores
  PROVE  BytesOf(bytes(s, entry, exit), s, entry, exit)
<1> DEFINE names == SetToSeq(functions[s])
           n     == Cardinality(functions[s])
           head  == <<Mask(entry), Mask(exit), Number(n)>>
           tail  == IF names = <<>> THEN <<Blank>> ELSE [k \in 1..n |-> Name(names[k])]
<1>1. IsFiniteSet(functions[s]) /\ functions[s] \subseteq Names
  BY IpcInterfaceAssumption, NamesOf
<1>2. /\ n \in Nat /\ names \in Seq(functions[s]) /\ Len(names) = n /\ DOMAIN names = 1..n
      /\ {names[j] : j \in 1..n} = functions[s]
      /\ names = <<>> <=> functions[s] = {}
  BY <1>1, SetSequence
<1>3. n = 0 <=> functions[s] = {}
  <2>1. functions[s] = {} => n = 0
    BY FS_EmptySet
  <2>2. n = 0 => functions[s] = {}
    BY <1>2
  <2> QED
    BY <2>1, <2>2
<1>4. bytes(s, entry, exit) = head \o tail
  BY <1>2 DEF bytes
<1>5. head \in Seq(LineKinds) /\ Len(head) = 3
  <2>1. Mask(entry) \in LineKinds /\ Mask(exit) \in LineKinds /\ Number(n) \in LineKinds
    BY <1>2 DEF LineKinds
  <2> QED
    BY <2>1
<1>6. /\ tail \in Seq(LineKinds)
      /\ Len(tail) = (IF n = 0 THEN 1 ELSE n)
      /\ n = 0 => tail[1] = Blank
      /\ \A j \in 1..n : tail[j] = Name(names[j])
  <2>1. CASE n = 0
    <3>1. tail = <<Blank>>
      BY <1>2, <1>3, <2>1
    <3>2. Blank \in LineKinds
      BY DEF LineKinds
    <3> QED
      BY <2>1, <3>1, <3>2
  <2>2. CASE n # 0
    <3>1. tail = [k \in 1..n |-> Name(names[k])]
      BY <1>2, <1>3, <2>2
    <3>2. \A k \in 1..n : Name(names[k]) \in LineKinds
      BY <1>1, <1>2 DEF LineKinds
    <3>3. tail \in Seq(LineKinds) /\ Len(tail) = n
      <4>1. tail \in [1..n -> LineKinds]
        BY <3>1, <3>2
      <4> HIDE DEF tail
      <4> QED
        BY <1>2, <4>1
    <3> QED
      BY <2>2, <3>1, <3>3
  <2> QED
    BY <2>1, <2>2
<1>7. /\ head \o tail \in Seq(LineKinds)
      /\ Len(head \o tail) = 3 + Len(tail)
      /\ \A k \in 1..(3 + Len(tail)) :
            (head \o tail)[k] = IF k <= 3 THEN head[k] ELSE tail[k - 3]
  <2>1. head \in Seq(LineKinds) /\ tail \in Seq(LineKinds)
    BY <1>5, <1>6
  <2> HIDE DEF head, tail
  <2>2. /\ head \o tail \in Seq(LineKinds)
        /\ Len(head \o tail) = Len(head) + Len(tail)
        /\ \A k \in 1..Len(head) + Len(tail) :
              (head \o tail)[k] = IF k <= Len(head) THEN head[k] ELSE tail[k - Len(head)]
    BY <2>1, ConcatProperties, Zenon
  <2> QED
    BY <1>5, <2>2
<1>8. head[1] = Mask(entry) /\ head[2] = Mask(exit) /\ head[3] = Number(n)
  OBVIOUS
<1> HIDE DEF head, tail, n, names
<1>9. /\ (head \o tail)[1] = Mask(entry) /\ (head \o tail)[2] = Mask(exit)
      /\ (head \o tail)[3] = Number(n)
  BY <1>2, <1>6, <1>7, <1>8
<1>10. n = 0 => (head \o tail)[4] = Blank
  BY <1>6, <1>7
<1>11. \A j \in 1..n : (head \o tail)[3 + j] = Name(names[j])
  <2> SUFFICES ASSUME NEW j \in 1..n PROVE (head \o tail)[3 + j] = Name(names[j])
    OBVIOUS
  <2>1. 3 + j \in 1..(3 + Len(tail)) /\ ~(3 + j <= 3) /\ (3 + j) - 3 = j
    BY <1>2, <1>6
  <2> QED
    BY <1>6, <1>7, <2>1
<1> QED
  BY <1>2, <1>3, <1>4, <1>6, <1>7, <1>9, <1>10, <1>11 DEF n, names, BytesOf

\* The masks do not change the sizes of a set's lines.
LEMMA SameSizes ==
  ASSUME NEW s \in FunctionSets,
         NEW entry \in SUBSET Cores, NEW exit \in SUBSET Cores,
         NEW entry2 \in SUBSET Cores, NEW exit2 \in SUBSET Cores
  PROVE  SameSized(bytes(s, entry, exit), bytes(s, entry2, exit2))
<1> DEFINE b == bytes(s, entry, exit)
           c == bytes(s, entry2, exit2)
           names == SetToSeq(functions[s])
           n     == Cardinality(functions[s])
<1>1. /\ b \in Seq(LineKinds) /\ n \in Nat
      /\ Len(b) = 3 + (IF n = 0 THEN 1 ELSE n)
      /\ b[1] = Mask(entry) /\ b[2] = Mask(exit) /\ b[3] = Number(n)
      /\ n = 0 => b[4] = Blank
      /\ \A j \in 1..n : b[3 + j] = Name(names[j])
  <2>1. BytesOf(b, s, entry, exit)
    BY SetBytes
  <2> QED
    BY <2>1 DEF BytesOf
<1>2. /\ c \in Seq(LineKinds)
      /\ Len(c) = 3 + (IF n = 0 THEN 1 ELSE n)
      /\ c[1] = Mask(entry2) /\ c[2] = Mask(exit2) /\ c[3] = Number(n)
      /\ n = 0 => c[4] = Blank
      /\ \A j \in 1..n : c[3 + j] = Name(names[j])
  <2>1. BytesOf(c, s, entry2, exit2)
    BY SetBytes
  <2> QED
    BY <2>1 DEF BytesOf
<1> HIDE DEF b, c, n, names
<1>3. Sized(b) /\ Sized(c)
  BY <1>1, <1>2, SizedLines
<1>4. ASSUME NEW k \in 1..Len(b) PROVE LineSize(c[k]) = LineSize(b[k])
  <2>1. k = 1 \/ k = 2 \/ k = 3 \/ (n = 0 /\ k = 4) \/ (k - 3 \in 1..n /\ k = 3 + (k - 3))
    BY <1>1
  <2>2. CASE k \in {1, 2}
    <3>1. \A m : LineSize(Mask(m)) = 9
      BY LineSizes
    <3>2. b[k] \in {Mask(entry), Mask(exit)} /\ c[k] \in {Mask(entry2), Mask(exit2)}
      BY <1>1, <1>2, <2>2
    <3> QED
      BY <3>1, <3>2
  <2>3. CASE k = 3
    BY <1>1, <1>2, <2>3
  <2>4. CASE n = 0 /\ k = 4
    BY <1>1, <1>2, <2>4
  <2>5. CASE k - 3 \in 1..n /\ k = 3 + (k - 3)
    BY <1>1, <1>2, <2>5
  <2> QED
    BY <2>1, <2>2, <2>3, <2>4, <2>5
<1> QED
  BY <1>1, <1>2, <1>3, <1>4 DEF b, c, SameSized

\* Wherever it begins, and whatever its masks, a set takes the bytes that len counts; its
\* two masks are the first eighteen of them.
LEMMA SetEnd ==
  ASSUME NEW s \in FunctionSets, NEW entry \in SUBSET Cores, NEW exit \in SUBSET Cores,
         NEW p \in Nat
  PROVE  /\ SetSize(s) \in Nat /\ SetSize(s) >= 18
         /\ End(p, bytes(s, entry, exit)) = p + SetSize(s)
         /\ LineOffsets(p, bytes(s, entry, exit))[1] = p
         /\ LineOffsets(p, bytes(s, entry, exit))[2] = p + 9
         /\ LineOffsets(p, bytes(s, entry, exit))[3] = p + 18
<1> DEFINE b == bytes(s, entry, exit)
           z == bytes(s, {}, {})
           at == LineOffsets(p, b)
           az == LineOffsets(0, z)
<1>0. SameSized(b, z)
  BY SameSizes
<1>1. Sized(b) /\ Sized(z) /\ Len(z) = Len(b)
  BY <1>0 DEF SameSized
<1>2. Len(b) \in Nat /\ Len(b) >= 4 /\ z[1] = Mask({}) /\ z[2] = Mask({})
  <2>1. BytesOf(b, s, entry, exit)
    BY SetBytes
  <2>2. {} \in SUBSET Cores
    OBVIOUS
  <2>3. BytesOf(z, s, {}, {})
    BY <2>2, SetBytes
  <2> HIDE DEF b, z
  <2> QED
    BY <2>1, <2>3 DEF BytesOf
<1> HIDE DEF b, z
<1>3. \A k \in 1..(Len(b) + 1) : LineOffsets(p + 0, b)[k] = p + az[k]
  <2>1. 0 \in Nat
    OBVIOUS
  <2>2. \A k \in 1..(Len(b) + 1) : LineOffsets(p + 0, b)[k] = p + LineOffsets(0, z)[k]
    BY <1>0, <2>1, OffsetsShift
  <2> QED
    BY <2>2
<1>4. \A k \in 1..(Len(b) + 1) : at[k] = p + az[k]
  BY <1>3
<1>5. az \in [1..(Len(z) + 1) -> Nat]
  BY <1>1, Offsets, Zenon
<1>6. az[1] = 0 /\ \A k \in 1..Len(z) : az[k + 1] = az[k] + LineSize(z[k])
  BY <1>1, Offsets
<1>7. az[3] + LineSize(z[3]) <= az[Len(z) + 1]
  <2>1. 3 \in 1..Len(z) /\ Len(z) + 1 \in 1..(Len(z) + 1) /\ 3 < Len(z) + 1
    BY <1>1, <1>2
  <2> QED
    BY <1>1, <2>1, OffsetsIncrease
<1>8. LineSize(z[3]) \in Nat
  BY <1>1, <1>2 DEF Sized
<1> HIDE DEF at, az
<1>9. az[2] = 9 /\ az[3] = 18
  <2>1. 1 \in 1..Len(z) /\ 2 \in 1..Len(z)
    BY <1>1, <1>2
  <2>2. LineSize(z[1]) = 9 /\ LineSize(z[2]) = 9
    <3>1. \A m : LineSize(Mask(m)) = 9
      BY LineSizes
    <3> QED
      BY <1>2, <3>1
  <2>3. az[1 + 1] = az[1] + LineSize(z[1]) /\ az[2 + 1] = az[2] + LineSize(z[2])
    BY <1>6, <2>1
  <2> QED
    BY <1>6, <2>2, <2>3
<1>10. at[1] = p /\ at[2] = p + 9 /\ at[3] = p + 18
  BY <1>2, <1>4, <1>6, <1>9, SMTT(30)
<1>11. at[Len(b) + 1] = p + az[Len(z) + 1] /\ az[Len(z) + 1] \in Nat
  BY <1>1, <1>2, <1>4, <1>5
<1> QED
  BY <1>1, <1>7, <1>8, <1>9, <1>10, <1>11 DEF End, SetSize, at, az, b, z

\* The masks that randomizeMasks writes, and the line initIpc begins with.
LEMMA MaskLines ==
  ASSUME NEW entry \in SUBSET Cores, NEW exit \in SUBSET Cores, NEW p \in Nat
  PROVE  LET lines == <<Mask(entry), Mask(exit)>>
         IN /\ Sized(lines) /\ Len(lines) = 2 /\ DOMAIN lines = {1, 2}
            /\ LineOffsets(p, lines)[1] = p
            /\ LineOffsets(p, lines)[2] = p + 9
            /\ LineOffsets(p, lines)[3] = p + 18
<1> DEFINE lines == <<Mask(entry), Mask(exit)>>
           at == LineOffsets(p, lines)
<1>1. lines \in Seq(LineKinds) /\ Len(lines) = 2 /\ DOMAIN lines = {1, 2}
      /\ lines[1] = Mask(entry) /\ lines[2] = Mask(exit)
  <2>1. Mask(entry) \in LineKinds /\ Mask(exit) \in LineKinds
    BY DEF LineKinds
  <2> QED
    BY <2>1
<1> HIDE DEF lines
<1>2. Sized(lines)
  BY <1>1, SizedLines
<1>3. at[1] = p /\ \A k \in 1..Len(lines) : at[k + 1] = at[k] + LineSize(lines[k])
  BY <1>2, Offsets
<1> HIDE DEF at
<1>4. at[1 + 1] = at[1] + 9 /\ at[2 + 1] = at[2] + 9
  <2>1. LineSize(lines[1]) = 9 /\ LineSize(lines[2]) = 9
    BY <1>1, LineSizes
  <2> QED
    BY <1>1, <1>3, <2>1
<1> QED
  BY <1>1, <1>2, <1>3, <1>4 DEF at, lines

LEMMA CountLine ==
  ASSUME NEW n \in Nat
  PROVE  LET lines == <<Number(n)>>
         IN /\ Sized(lines) /\ Len(lines) = 1 /\ DOMAIN lines = {1}
            /\ LineOffsets(0, lines)[1] = 0
            /\ LineOffsets(0, lines)[2] = Digits(n) + 1
<1> DEFINE lines == <<Number(n)>>
           at == LineOffsets(0, lines)
<1>1. lines \in Seq(LineKinds) /\ Len(lines) = 1 /\ DOMAIN lines = {1}
      /\ lines[1] = Number(n)
  <2>1. Number(n) \in LineKinds
    BY DEF LineKinds
  <2> QED
    BY <2>1
<1> HIDE DEF lines
<1>2. Sized(lines)
  BY <1>1, SizedLines
<1>3. at[1] = 0 /\ \A k \in 1..Len(lines) : at[k + 1] = at[k] + LineSize(lines[k])
  BY <1>2, Offsets
<1> HIDE DEF at
<1>4. at[1 + 1] = at[1] + (Digits(n) + 1) /\ Digits(n) \in Nat
  <2>1. LineSize(lines[1]) = Digits(n) + 1 /\ Digits(n) \in Nat
    BY <1>1, LineSizes
  <2> QED
    BY <1>1, <1>3, <2>1
<1> QED
  BY <1>1, <1>2, <1>3, <1>4 DEF at, lines
-----------------------------------------------------------------------------
(* Where the sets begin *)

\* The sums of the sizes: each set begins where the one before ends, the last one ends
\* with the file.
LEMMA Starts ==
  ASSUME functionSetList \in Seq(FunctionSets)
  PROVE  LET N == Len(functionSetList) IN
         /\ N \in Nat
         /\ \A k \in 1..(N + 1) : SetStart(k) \in Nat
         /\ SetStart(1) = Digits(N) + 1
         /\ \A k \in 1..N : SetStart(k + 1) = SetStart(k) + SetSize(functionSetList[k])
         /\ SetStart(N + 1) = size
<1> DEFINE N == Len(functionSetList)
           Plus(k, n) == n + SetSize(functionSetList[k])
           Good(n) == \E g \in [0..n -> Nat] :
                         g[0] = 0 /\ \A k \in 1..n : g[k] = Plus(k, g[k - 1])
           S == {n \in Nat : Good(n)}
<1>1. N \in Nat /\ \A k \in 1..N : functionSetList[k] \in FunctionSets
  BY LenProperties, ElementOfSeq
<1>2. \A k \in 1..N : SetSize(functionSetList[k]) \in Nat
  <2>1. {} \in SUBSET Cores /\ 0 \in Nat
    OBVIOUS
  <2> QED
    BY <1>1, <2>1, SetEnd
<1>3. \A k \in 1..N : \A n \in Nat : Plus(k, n) \in Nat
  BY <1>2
<1> HIDE DEF Plus, N
<1>4. 0 \in S
  <2> DEFINE g == [k \in 0..0 |-> 0]
  <2>1. g \in [0..0 -> Nat] /\ g[0] = 0 /\ \A k \in 1..0 : g[k] = Plus(k, g[k - 1])
    OBVIOUS
  <2> HIDE DEF g
  <2>2. Good(0)
    BY <2>1
  <2> HIDE DEF Good
  <2> QED
    BY <2>2
<1>5. ASSUME NEW n \in 0..(N - 1), n \in S PROVE n + 1 \in S
  <2>1. PICK g \in [0..n -> Nat] : g[0] = 0 /\ \A k \in 1..n : g[k] = Plus(k, g[k - 1])
    BY <1>5
  <2> DEFINE h == [k \in 0..(n + 1) |-> IF k <= n THEN g[k] ELSE Plus(n + 1, g[n])]
  <2>2. n + 1 \in 1..N /\ n \in Nat
    BY <1>1
  <2>3. h \in [0..(n + 1) -> Nat]
    <3>1. n \in 0..n /\ g[n] \in Nat /\ Plus(n + 1, g[n]) \in Nat
      BY <1>3, <2>2
    <3>2. ASSUME NEW k \in 0..(n + 1)
          PROVE  (IF k <= n THEN g[k] ELSE Plus(n + 1, g[n])) \in Nat
      BY <2>2, <3>1
    <3> QED
      BY <3>2
  <2>4. h[0] = 0
    BY <2>1, <2>2
  <2>5. ASSUME NEW k \in 1..(n + 1) PROVE h[k] = Plus(k, h[k - 1])
    <3>1. CASE k <= n
      <4>1. k \in 1..n /\ k - 1 <= n /\ k - 1 \in 0..(n + 1) /\ k \in 0..(n + 1)
        BY <2>2, <3>1
      <4> QED
        BY <2>1, <2>2, <3>1, <4>1
    <3>2. CASE k = n + 1
      BY <2>2, <3>2
    <3> QED
      BY <2>2, <3>1, <3>2
  <2> HIDE DEF h
  <2>6. Good(n + 1)
    BY <2>3, <2>4, <2>5
  <2> HIDE DEF Good
  <2> QED
    BY <2>2, <2>6
<1>6. N \in S
  <2> HIDE DEF S
  <2>1. 0..N \subseteq S
    BY <1>1, <1>4, <1>5, Induction
  <2> QED
    BY <1>1, <2>1
<1>7. PICK g \in [0..N -> Nat] : g[0] = 0 /\ \A k \in 1..N : g[k] = Plus(k, g[k - 1])
  BY <1>6
<1> DEFINE Body(f) == [k \in 0..N |-> IF k = 0 THEN 0 ELSE Plus(k, f[k - 1])]
<1>8. g = Body(g)
  BY <1>1, <1>7
<1>9. SetSums = (CHOOSE f : f = Body(f))
  BY DEF SetSums, Plus, N
<1>10. SetSums = Body(SetSums)
  BY <1>8, <1>9
<1>11. SetSums[0] = 0 /\ \A k \in 1..N : SetSums[k] = Plus(k, SetSums[k - 1])
  BY <1>1, <1>10
<1>12. 0..N \subseteq {n \in Nat : SetSums[n] \in Nat}
  <2>1. ASSUME NEW n \in 0..(N - 1), SetSums[n] \in Nat PROVE SetSums[n + 1] \in Nat
    <3>1. n + 1 \in 1..N /\ (n + 1) - 1 = n
      BY <1>1
    <3> QED
      BY <1>3, <1>11, <2>1, <3>1
  <2>2. 0 \in {n \in Nat : SetSums[n] \in Nat}
    BY <1>11
  <2>3. \A n \in 0..(N - 1) : n \in {m \in Nat : SetSums[m] \in Nat} =>
                                 n + 1 \in {m \in Nat : SetSums[m] \in Nat}
    BY <2>1
  <2> QED
    BY <1>1, <2>2, <2>3, Induction
<1>13. Digits(N) \in Nat
  BY <1>1, LineSizes
<1>14. \A k \in 1..(N + 1) : SetStart(k) \in Nat
  <2> SUFFICES ASSUME NEW k \in 1..(N + 1) PROVE SetStart(k) \in Nat
    OBVIOUS
  <2>1. k - 1 \in 0..N
    BY <1>1
  <2>2. SetSums[k - 1] \in Nat
    BY <1>12, <2>1
  <2> QED
    BY <1>13, <2>2 DEF SetStart, N
<1>15. SetStart(1) = Digits(N) + 1
  BY <1>11, <1>13 DEF SetStart, N
<1>16. ASSUME NEW k \in 1..N PROVE SetStart(k + 1) = SetStart(k) + SetSize(functionSetList[k])
  <2>1. k - 1 \in 0..N /\ (k + 1) - 1 = k
    BY <1>1
  <2>2. SetSums[k - 1] \in Nat /\ SetSums[k] = SetSums[k - 1] + SetSize(functionSetList[k])
    BY <1>11, <1>12, <2>1 DEF Plus
  <2> QED
    BY <1>2, <1>13, <2>1, <2>2 DEF SetStart, N
<1>17. SetStart(N + 1) = size
  <2>1. (N + 1) - 1 = N /\ SetSums[N] \in Nat
    BY <1>1, <1>12
  <2> QED
    BY <1>13, <2>1 DEF SetStart, size, getSize, SumOfSets, N
<1> QED
  BY <1>1, <1>14, <1>15, <1>16, <1>17 DEF N

\* Later sets begin later.
LEMMA StartsGrow ==
  ASSUME functionSetList \in Seq(FunctionSets),
         NEW j \in 1..(Len(functionSetList) + 1), NEW k \in 1..(Len(functionSetList) + 1), j <= k
  PROVE  SetStart(j) <= SetStart(k)
<1> DEFINE N == Len(functionSetList)
           S == {d \in Nat : j + d <= N + 1 => SetStart(j) <= SetStart(j + d)}
<1>1. /\ N \in Nat
      /\ \A m \in 1..(N + 1) : SetStart(m) \in Nat
      /\ \A m \in 1..N : SetStart(m + 1) = SetStart(m) + SetSize(functionSetList[m])
  BY Starts
<1>2. \A m \in 1..N : SetSize(functionSetList[m]) \in Nat
  <2>1. {} \in SUBSET Cores /\ 0 \in Nat
    OBVIOUS
  <2> QED
    BY <2>1, SetEnd, ElementOfSeq
<1> HIDE DEF N
<1>3. 0 \in S
  BY <1>1 DEF N
<1>4. ASSUME NEW d \in 0..(N - 1), d \in S PROVE d + 1 \in S
  <2>1. SUFFICES ASSUME j + (d + 1) <= N + 1 PROVE SetStart(j) <= SetStart(j + (d + 1))
    OBVIOUS
  <2>2. j + d \in 1..N /\ j + (d + 1) = (j + d) + 1 /\ j \in 1..(N + 1) /\ j + d \in 1..(N + 1)
    BY <1>1, <2>1 DEF N
  <2>3. SetStart(j) <= SetStart(j + d)
    BY <1>1, <1>4, <2>2
  <2>4. SetStart((j + d) + 1) = SetStart(j + d) + SetSize(functionSetList[j + d])
    BY <1>1, <2>2
  <2>5. SetStart(j) \in Nat /\ SetStart(j + d) \in Nat
    BY <1>1, <2>2
  <2>6. SetSize(functionSetList[j + d]) \in Nat
    BY <1>2, <2>2
  <2> QED
    BY <2>2, <2>3, <2>4, <2>5, <2>6
<1>5. 0..N \subseteq S
  <2> HIDE DEF S
  <2> QED
    BY <1>1, <1>3, <1>4, Induction
<1>6. k - j \in 0..N /\ j + (k - j) = k /\ k <= N + 1
  BY <1>1 DEF N
<1>7. k - j \in S
  BY <1>5, <1>6
<1> QED
  BY <1>6, <1>7

\* Nothing but addSet moves them.
LEMMA SameStarts ==
  ASSUME functionSetList' = functionSetList
  PROVE  size' = size /\ \A k : SetStart(k)' = SetStart(k)
BY DEF size, getSize, SumOfSets, SetStart, SetSums
-----------------------------------------------------------------------------
(* Writing *)


\* The lines of a function, and their sizes.
Lines(f) == \A q \in DOMAIN f : q \in Nat /\ LineSize(f[q]) \in Nat \ {0}

\* W is the file with lines written over it from p to end.
WrittenOver(W, p, lines, end) ==
    LET at == LineOffsets(p, lines) IN
    /\ \A j \in 1..Len(lines) : at[j] \in DOMAIN W /\ W[at[j]] = lines[j]
    /\ \A q \in DOMAIN file : q + LineSize(file[q]) <= p \/ end <= q =>
                                 q \in DOMAIN W /\ W[q] = file[q]
    /\ \A q \in DOMAIN W : \/ q \in DOMAIN file /\ W[q] = file[q]
                           \/ \E j \in 1..Len(lines) : q = at[j] /\ W[q] = lines[j]

\* Lines lie between the first offset and the end.
LEMMA OffsetBounds ==
  ASSUME NEW p \in Nat, NEW lines, Sized(lines)
  PROVE  /\ End(p, lines) \in Nat
         /\ \A j \in 1..Len(lines) :
               /\ LineOffsets(p, lines)[j] \in Nat
               /\ p <= LineOffsets(p, lines)[j]
               /\ LineOffsets(p, lines)[j] + LineSize(lines[j]) <= End(p, lines)
<1> DEFINE N    == Len(lines)
           at   == LineOffsets(p, lines)
<1>1. N \in Nat /\ \A k \in 1..N : LineSize(lines[k]) \in Nat \ {0}
  BY DEF Sized
<1>2. at \in [1..(N + 1) -> Nat]
  BY Offsets, Zenon
<1>3. at[1] = p
  BY Offsets
<1>4. \A j \in 1..N : \A k \in 1..(N + 1) : j < k => at[j] + LineSize(lines[j]) <= at[k]
  BY OffsetsIncrease
<1>5. End(p, lines) = at[N + 1]
  BY DEF End
<1> HIDE DEF at, N
<1>6. ASSUME NEW j \in 1..N
      PROVE  at[j] \in Nat /\ p <= at[j] /\ at[j] + LineSize(lines[j]) <= at[N + 1]
  <2>1. at[j] \in Nat /\ LineSize(lines[j]) \in Nat \ {0} /\ p \in Nat
    BY <1>1, <1>2
  <2>2. at[j] + LineSize(lines[j]) <= at[N + 1]
    BY <1>1, <1>4
  <2>3. p <= at[j]
    <3>1. CASE j = 1
      BY <1>3, <2>1, <3>1
    <3>2. CASE j # 1
      <4>1. 1 \in 1..N /\ j \in 1..(N + 1) /\ 1 < j
        BY <1>1, <3>2
      <4>2. at[1] + LineSize(lines[1]) <= at[j] /\ LineSize(lines[1]) \in Nat
        BY <1>1, <1>4, <4>1
      <4> QED
        BY <1>3, <2>1, <4>2
    <3> QED
      BY <3>1, <3>2
  <2> QED
    BY <2>1, <2>2, <2>3
<1>7. at[N + 1] \in Nat
  BY <1>1, <1>2
<1> QED
  BY <1>5, <1>6, <1>7 DEF at, N

\* What is written is there, and what it does not overlap is still there.
LEMMA WriteEffect ==
  ASSUME NEW p \in Nat, NEW lines, Sized(lines), Lines(file)
  PROVE  WrittenOver(WriteLines(p, lines), p, lines, End(p, lines))
<1> DEFINE N    == Len(lines)
           at   == LineOffsets(p, lines)
           end  == at[N + 1]
           kept == {q \in DOMAIN file : q + LineSize(file[q]) <= p \/ end <= q}
           new  == {at[k] : k \in 1..N}
           W    == [q \in kept \cup new |->
                       IF q \in kept THEN file[q] ELSE lines[CHOOSE k \in 1..N : at[k] = q]]
<1>1. N \in Nat /\ DOMAIN lines = 1..N /\ \A k \in 1..N : LineSize(lines[k]) \in Nat \ {0}
  BY DEF Sized
<1>2. at \in [1..(N + 1) -> Nat]
  BY Offsets, Zenon
<1>3. \A j \in 1..N : at[j] \in Nat /\ p <= at[j] /\ at[j] + LineSize(lines[j]) <= end
  BY OffsetBounds DEF End
<1>4. \A j \in 1..N : \A k \in 1..(N + 1) : j < k => at[j] + LineSize(lines[j]) <= at[k]
  BY OffsetsIncrease
<1>5. WriteLines(p, lines) = W
  <2>1. Len(at) = N + 1
    <3> HIDE DEF at, N
    <3> QED
      BY <1>1, <1>2
  <2> QED
    BY <1>1, <2>1 DEF WriteLines
<1>6. End(p, lines) = end
  BY DEF End
<1> HIDE DEF at, N
<1>7. ASSUME NEW j \in 1..N
      PROVE  /\ at[j] \in Nat /\ p <= at[j] /\ at[j] + LineSize(lines[j]) <= end
             /\ at[j] < at[j] + LineSize(lines[j])
  BY <1>1, <1>3
<1>8. end \in Nat
  BY <1>1, <1>2
<1> HIDE DEF end
<1>9. ASSUME NEW j \in 1..N, NEW k \in 1..N, at[j] = at[k] PROVE j = k
  <2>1. ASSUME NEW a \in 1..N, NEW b \in 1..N, a < b PROVE at[a] # at[b]
    <3>1. b \in 1..(N + 1) /\ at[b] \in Nat
      BY <1>1, <1>7
    <3>2. at[a] + LineSize(lines[a]) <= at[b] /\ at[a] < at[a] + LineSize(lines[a])
          /\ LineSize(lines[a]) \in Nat /\ at[a] \in Nat
      BY <1>1, <1>4, <1>7, <2>1, <3>1
    <3> QED
      BY <3>1, <3>2
  <2>2. j \in Nat /\ k \in Nat
    BY <1>1
  <2>3. ~(j < k) /\ ~(k < j)
    BY <1>9, <2>1
  <2> QED
    BY <2>2, <2>3
<1>10. ASSUME NEW j \in 1..N PROVE at[j] \notin kept
  <2> SUFFICES ASSUME at[j] \in kept PROVE FALSE
    OBVIOUS
  <2>1. at[j] \in DOMAIN file /\ LineSize(file[at[j]]) \in Nat \ {0}
    BY DEF Lines
  <2>2. at[j] + LineSize(file[at[j]]) <= p \/ end <= at[j]
    OBVIOUS
  <2>3. /\ at[j] \in Nat /\ p <= at[j] /\ at[j] + LineSize(lines[j]) <= end
        /\ LineSize(lines[j]) \in Nat \ {0}
    BY <1>1, <1>7
  <2> QED
    BY <1>8, <2>1, <2>2, <2>3
<1>11. ASSUME NEW j \in 1..N PROVE at[j] \in DOMAIN W /\ W[at[j]] = lines[j]
  <2>1. at[j] \in kept \cup new
    OBVIOUS
  <2>2. (CHOOSE k \in 1..N : at[k] = at[j]) = j
    BY <1>9
  <2> QED
    BY <1>10, <2>1, <2>2
<1>12. \A q \in kept : q \in DOMAIN W /\ W[q] = file[q]
  OBVIOUS
<1>13. ASSUME NEW q \in DOMAIN W
       PROVE  \/ q \in DOMAIN file /\ W[q] = file[q]
              \/ \E j \in 1..N : q = at[j] /\ W[q] = lines[j]
  <2>1. q \in kept \cup new
    OBVIOUS
  <2>2. CASE q \in kept
    BY <1>12, <2>2
  <2>3. CASE q \in new
    <3>1. PICK j \in 1..N : q = at[j]
      BY <2>3
    <3> QED
      BY <1>11, <3>1
  <2> QED
    BY <2>1, <2>2, <2>3
<1>14. \A q \in DOMAIN file : q + LineSize(file[q]) <= p \/ end <= q =>
                                 q \in DOMAIN W /\ W[q] = file[q]
  BY <1>12
<1> HIDE DEF W
<1>15. WrittenOver(W, p, lines, end)
  BY <1>11, <1>13, <1>14 DEF WrittenOver, at, N
<1> QED
  BY <1>5, <1>6, <1>15

\* Lines that end within the file leave everything in it.
LEMMA WriteInside ==
  ASSUME NEW p \in Nat, NEW lines, Sized(lines), FileInside,
         file' = WriteLines(p, lines), End(p, lines) <= size, size \in Nat,
         End(p, lines) \in Nat, size' = size
  PROVE  FileInside'
<1> DEFINE at == LineOffsets(p, lines)
<1>1. Lines(file)
  BY DEF Lines, FileInside
<1>2. /\ WrittenOver(file', p, lines, End(p, lines))
      /\ \A j \in 1..Len(lines) : /\ at[j] \in Nat
                                  /\ at[j] + LineSize(lines[j]) <= End(p, lines)
  BY <1>1, WriteEffect, OffsetBounds
<1> HIDE DEF at
<1>3. ASSUME NEW q \in DOMAIN file'
      PROVE  /\ q \in Nat /\ LineSize(file'[q]) \in Nat \ {0}
             /\ q + LineSize(file'[q]) <= size
  <2>1. \/ q \in DOMAIN file /\ file'[q] = file[q]
        \/ \E j \in 1..Len(lines) : q = at[j] /\ file'[q] = lines[j]
    BY <1>2 DEF WrittenOver, at
  <2>2. CASE q \in DOMAIN file /\ file'[q] = file[q]
    BY <2>2 DEF FileInside
  <2>3. CASE \E j \in 1..Len(lines) : q = at[j] /\ file'[q] = lines[j]
    <3>1. PICK j \in 1..Len(lines) : q = at[j] /\ file'[q] = lines[j]
      BY <2>3
    <3>2. LineSize(lines[j]) \in Nat \ {0}
      BY DEF Sized
    <3>3. at[j] \in Nat /\ at[j] + LineSize(lines[j]) <= End(p, lines)
      BY <1>2
    <3> QED
      BY <3>1, <3>2, <3>3
  <2> QED
    BY <2>1, <2>2, <2>3
<1> QED
  BY <1>3 DEF FileInside

-----------------------------------------------------------------------------
(* The calls the two programs make, and where they are then *)

\* The content that Prepare finds, as far as it lies inside the file.
Found(content) == [p \in {q \in DOMAIN content : q + LineSize(content[q]) <= size} |-> content[p]]

LEMMA Calls ==
  ASSUME [Next]_vars
  PROVE  \/ UNCHANGED ipcVars /\ (pc' \in {"sets", "self test"} => pc' = pc)
         \/ /\ \E fSet \in Seq(FunctionSets) : addSet(fSet)
            /\ pc \in {"sets", "self test"} /\ pc' \in {pc, "exception"}
         \/ /\ \E content \in Leftovers \cup {<<>>} : Allocate(Found(content))
            /\ pc = "sets" /\ pc' = "initIpc"
         \/ initIpc /\ pc \in {"initIpc", "self test"} /\ pc' = pc
         \/ /\ randomizeMasks
            /\ \/ pc = "self test" /\ pc' = pc
               \/ pc = "stopped" /\ pc' = "randomize"
         \/ ipcStep /\ pc \in {"initIpc", "randomize", "self test"} /\ pc' = pc
<1>1. CASE TestStep
  BY <1>1, ControllerAssumption DEF TestStep
<1>2. CASE AddSet
  BY <1>2, ControllerAssumption DEF AddSet, Goto
<1>3. CASE Prepare
  BY <1>3 DEF Prepare, Goto, Found
<1>4. CASE CallInitIpc \/ IpcLoop
  BY <1>4 DEF CallInitIpc, IpcLoop, script
<1>5. CASE CallRandomizeMasks
  BY <1>5 DEF CallRandomizeMasks, Goto
<1>6. CASE LeaveInitIpc \/ Launch \/ Connect \/ Retry \/ Signal \/ Navigate \/ WaitEvent
  BY <1>6 DEF LeaveInitIpc, Launch, Connect, Retry, Signal, Navigate, WaitEvent, Goto
<1>7. CASE EvaluateStart \/ EvaluateDuration \/ EvaluateRaises \/ Check \/ StopLoading
             \/ LeaveRandomize \/ Close \/ Kill \/ WriteLog
  BY <1>7 DEF EvaluateStart, EvaluateDuration, EvaluateRaises, Check, StopLoading,
              LeaveRandomize, Close, Kill, WriteLog, Goto
<1>8. CASE Chrome
  BY <1>8 DEF Chrome, script
<1>9. CASE UNCHANGED vars
  BY <1>9 DEF vars, script
<1> QED
  BY <1>1, <1>2, <1>3, <1>4, <1>5, <1>6, <1>7, <1>8, <1>9 DEF Next, Script, Terminating

\* Before initIpc nothing is in the file.
LEMMA BeforeStep ==
  ASSUME BeforeInv, PlaceInv, [Next]_vars
  PROVE  BeforeInv'
<1>1. CASE UNCHANGED ipcVars /\ (pc' \in {"sets", "self test"} => pc' = pc)
  BY <1>1 DEF BeforeInv, ipcVars
<1>2. CASE /\ \E fSet \in Seq(FunctionSets) : addSet(fSet)
           /\ pc \in {"sets", "self test"} /\ pc' \in {pc, "exception"}
  BY <1>2 DEF BeforeInv, addSet, Raise
<1>3. CASE pc' = "initIpc"
  BY <1>3 DEF BeforeInv
<1>4. CASE initIpc /\ pc \in {"initIpc", "self test"} /\ pc' = pc
  BY <1>4 DEF BeforeInv, initIpc, Raise
<1>5. CASE randomizeMasks /\ (pc' = pc \/ pc' = "randomize")
  BY <1>5 DEF BeforeInv, randomizeMasks, Raise
<1>6. CASE ipcStep /\ pc \in {"initIpc", "randomize", "self test"} /\ pc' = pc
  <2>1. ipcWritable /\ ipcWritable' = ipcWritable
    BY <1>6 DEF PlaceInv, ipcStep, initIpcSet, randomizeMasksSet, endLoop
  <2> QED
    BY <1>6, <2>1 DEF BeforeInv
<1> QED
  BY <1>1, <1>2, <1>3, <1>4, <1>5, <1>6, Calls

-----------------------------------------------------------------------------
(* Inside the file *)

\* The masks that are drawn are sets of cores.
LEMMA DrawnMasks == \A c : maskFromConfig(c) \subseteq SUBSET Cores
BY DEF maskFromConfig, kSubset, Cores

\* What a set's turn writes ends within the file, wherever it begins.
LEMMA TurnInside ==
  ASSUME IpcTypes, NEW j \in 1..i, i <= Len(functionSetList)
  PROVE  /\ SetStart(j) \in Nat /\ SetStart(j + 1) \in Nat /\ SetStart(j + 1) <= size
         /\ size \in Nat
         /\ functionSetList[j] \in FunctionSets /\ functionSetList[i] \in FunctionSets
         /\ SetStart(j + 1) = SetStart(j) + SetSize(functionSetList[j])
         /\ SetStart(j) + 18 <= SetStart(j + 1)
<1> DEFINE N == Len(functionSetList)
<1>1. functionSetList \in Seq(FunctionSets)
  BY DEF IpcTypes
<1>2. /\ N \in Nat
      /\ \A m \in 1..(N + 1) : SetStart(m) \in Nat
      /\ \A m \in 1..N : SetStart(m + 1) = SetStart(m) + SetSize(functionSetList[m])
      /\ SetStart(N + 1) = size
  BY <1>1, Starts
<1>3. i \in 1..N /\ j \in 1..N /\ j + 1 \in 1..(N + 1) /\ j + 1 <= N + 1 /\ N + 1 \in 1..(N + 1)
      /\ j \in 1..(N + 1)
  BY <1>2 DEF IpcTypes
<1> HIDE DEF N
<1>4. functionSetList[j] \in FunctionSets /\ functionSetList[i] \in FunctionSets
  BY <1>1, <1>3, ElementOfSeq DEF N
<1>5. SetStart(j + 1) <= SetStart(N + 1)
  BY <1>1, <1>3, StartsGrow DEF N
<1>6. SetSize(functionSetList[j]) \in Nat /\ SetSize(functionSetList[j]) >= 18
  <2>1. {} \in SUBSET Cores /\ 0 \in Nat
    OBVIOUS
  <2> QED
    BY <1>4, <2>1, SetEnd
<1>7. SetStart(j) \in Nat /\ SetStart(j + 1) \in Nat /\ size \in Nat
  BY <1>2, <1>3
<1> QED
  BY <1>2, <1>3, <1>4, <1>5, <1>6, <1>7

\* Where sets were written before they may not be added to: the first turns of both loops.
LEMMA FirstStart ==
  ASSUME IpcTypes
  PROVE  /\ size \in Nat /\ SetStart(1) \in Nat /\ SetStart(1) <= size
         /\ SetStart(1) = Digits(Len(functionSetList)) + 1
         /\ Len(functionSetList) \in Nat
<1> DEFINE N == Len(functionSetList)
<1>1. functionSetList \in Seq(FunctionSets)
  BY DEF IpcTypes
<1>2. /\ N \in Nat
      /\ \A m \in 1..(N + 1) : SetStart(m) \in Nat
      /\ SetStart(1) = Digits(N) + 1
      /\ SetStart(N + 1) = size
  BY <1>1, Starts
<1>3. 1 \in 1..(N + 1) /\ N + 1 \in 1..(N + 1) /\ 1 <= N + 1
  BY <1>2
<1>4. SetStart(1) <= SetStart(N + 1)
  BY <1>1, <1>3, StartsGrow
<1> QED
  BY <1>2, <1>3, <1>4

\* An empty file has no lines.
LEMMA EmptyDomain == DOMAIN <<>> = {}
<1>1. <<>> \in Seq({}) /\ Len(<<>>) = 0
  BY EmptySeq
<1> QED
  BY <1>1, LenProperties

LEMMA PlaceAdd ==
  ASSUME IpcTypes, BeforeInv, PlaceInv, pc \in {"sets", "self test"},
         NEW fSet \in Seq(FunctionSets), addSet(fSet)
  PROVE  PlaceInv'
<1>1. IpcTypes'
  BY AddEffect
<1>2. CASE ipcWritable
  <2>1. UNCHANGED <<functionSetList, ipcWritable, offset, file, op, i, pos, drawn>>
    BY <1>2 DEF addSet, Raise
  <2>2. size' = size /\ \A k : SetStart(k)' = SetStart(k)
    BY <2>1, SameStarts
  <2> QED
    BY <2>1, <2>2 DEF PlaceInv, FileInside
<1>3. CASE ~ipcWritable
  <2>1. UNCHANGED <<ipcWritable, offset, file, op, pos, drawn>>
    BY <1>3 DEF addSet
  <2>2. file = <<>> /\ op = "none" /\ \A s \in FunctionSets : offset[s] = None
    BY <1>3 DEF BeforeInv, PlaceInv
  <2>3. FileInside'
    <3>1. DOMAIN <<>> = {}
      BY EmptyDomain
    <3>2. DOMAIN file' = {}
      BY <2>1, <2>2, <3>1
    <3> QED
      BY <3>2 DEF FileInside
  <2>4. \A k \in DOMAIN functionSetList' : functionSetList'[k] \in FunctionSets
    <3>1. functionSetList' \in Seq(FunctionSets)
      BY <1>1 DEF IpcTypes
    <3> QED
      BY <3>1, LenProperties, ElementOfSeq
  <2> QED
    BY <2>1, <2>2, <2>3, <2>4 DEF PlaceInv
<1> QED
  BY <1>2, <1>3

LEMMA PlaceAllocate ==
  ASSUME PlaceInv, NEW content \in Leftovers \cup {<<>>}, Allocate(Found(content))
  PROVE  PlaceInv'
<1>1. UNCHANGED <<functionSetList, ipcWritable, offset, op, i, pos, drawn>>
      /\ file' = Found(content)
  BY DEF Allocate
<1>2. size' = size /\ \A k : SetStart(k)' = SetStart(k)
  BY <1>1, SameStarts
<1>3. \A p \in DOMAIN content : p \in Nat /\ LineSize(content[p]) \in Nat \ {0}
  BY ControllerAssumption
<1>4. FileInside'
  BY <1>1, <1>2, <1>3 DEF FileInside, Found
<1> QED
  BY <1>1, <1>2, <1>4 DEF PlaceInv

LEMMA PlaceInitIpc ==
  ASSUME IpcTypes, PlaceInv, initIpc
  PROVE  PlaceInv'
<1>1. CASE ipcWritable
  <2>1. UNCHANGED <<functionSetList, ipcWritable, offset, file, op, i, pos, drawn>>
    BY <1>1 DEF initIpc, Raise
  <2>2. size' = size /\ \A k : SetStart(k)' = SetStart(k)
    BY <2>1, SameStarts
  <2> QED
    BY <2>1, <2>2 DEF PlaceInv, FileInside
<1>2. CASE ~ipcWritable
  <2> DEFINE N == Len(functionSetList)
             count == <<Number(N)>>
  <2>1. /\ UNCHANGED <<functionSetList, offset, drawn>>
        /\ file' = WriteLines(0, count) /\ pos' = End(0, count)
        /\ ipcWritable' = TRUE /\ op' = "init" /\ i' = 1
    BY <1>2 DEF initIpc
  <2>2. size' = size /\ \A k : SetStart(k)' = SetStart(k)
    BY <2>1, SameStarts
  <2>3. /\ size \in Nat /\ SetStart(1) \in Nat /\ SetStart(1) <= size
        /\ SetStart(1) = Digits(N) + 1 /\ N \in Nat
    BY FirstStart
  <2>4. Sized(count) /\ End(0, count) = SetStart(1)
    BY <2>3, CountLine DEF End
  <2>5. FileInside'
    <3>1. FileInside /\ 0 \in Nat
      BY DEF PlaceInv
    <3> HIDE DEF count
    <3> QED
      BY <2>1, <2>2, <2>3, <2>4, <3>1, WriteInside
  <2>6. \A s \in FunctionSets : offset[s] = None
    BY <1>2 DEF PlaceInv
  <2>7. \A k \in DOMAIN functionSetList : functionSetList[k] \in FunctionSets
    BY LenProperties, ElementOfSeq DEF IpcTypes
  <2> HIDE DEF count, N
  <2> QED
    BY <2>1, <2>2, <2>3, <2>4, <2>5, <2>6, <2>7 DEF PlaceInv
<1> QED
  BY <1>1, <1>2

LEMMA PlaceInitIpcSet ==
  ASSUME IpcTypes, PlaceInv, initIpcSet
  PROVE  PlaceInv'
<1> DEFINE s == functionSetList[i]
<1>1. PICK entry \in maskFromConfig(entryConfig[s]), exit \in maskFromConfig(exitConfig[s]) :
             /\ file' = WriteLines(pos, bytes(s, entry, exit))
             /\ drawn' = [drawn EXCEPT ![s] = <<entry, exit>>]
             /\ IF offset[s] = None
                THEN /\ offset' = [offset EXCEPT ![s] = End(pos, bytes(s, entry, exit))]
                     /\ i' = i + 1 /\ pos' = offset'[s]
                     /\ UNCHANGED <<op, raised>>
                ELSE /\ op' = "none" /\ i' = 1 /\ pos' = 0
                     /\ raised' = TRUE
                     /\ UNCHANGED offset
  BY DEF initIpcSet
<1>2. /\ op = "init" /\ i <= Len(functionSetList)
      /\ UNCHANGED <<functionSetList, ipcWritable>>
  BY DEF initIpcSet
<1>3. /\ size' = size /\ \A k : SetStart(k)' = SetStart(k)
  BY <1>2, SameStarts
<1>4. entry \in SUBSET Cores /\ exit \in SUBSET Cores
  BY DrawnMasks
<1>5. i \in Nat /\ i \in 1..i
  BY DEF IpcTypes
<1>6. /\ SetStart(i) \in Nat /\ SetStart(i + 1) \in Nat /\ SetStart(i + 1) <= size
      /\ size \in Nat /\ s \in FunctionSets
      /\ SetStart(i + 1) = SetStart(i) + SetSize(s)
  BY <1>2, <1>5, TurnInside
<1>7. /\ pos = SetStart(i) /\ FileInside /\ ipcWritable
      /\ \A k \in 1..(i - 1) : offset[functionSetList[k]] # None
      /\ offset \in [FunctionSets -> Nat \cup {None}]
      /\ drawn \in [FunctionSets -> (SUBSET Cores) \X (SUBSET Cores)]
  BY <1>2 DEF PlaceInv
<1> DEFINE b == bytes(s, entry, exit)
<1>8. Sized(b)
  BY <1>4, <1>6, SameSizes DEF SameSized
<1>9. End(pos, b) = SetStart(i + 1)
  BY <1>4, <1>6, <1>7, SetEnd
<1> HIDE DEF b, s
<1>10. FileInside'
  BY <1>1, <1>3, <1>6, <1>7, <1>8, <1>9, WriteInside DEF b
<1>11. drawn' \in [FunctionSets -> (SUBSET Cores) \X (SUBSET Cores)]
  BY <1>1, <1>4, <1>7
<1>12. DOMAIN functionSetList = 1..Len(functionSetList) /\ Len(functionSetList) \in Nat
       /\ \A k \in DOMAIN functionSetList : functionSetList[k] \in FunctionSets
  BY LenProperties, ElementOfSeq DEF IpcTypes
<1>13. CASE offset[s] = None
  <2>1. /\ offset' = [offset EXCEPT ![s] = SetStart(i + 1)]
        /\ i' = i + 1 /\ pos' = offset'[s] /\ op' = "init"
    BY <1>1, <1>2, <1>9, <1>13 DEF b
  <2>2. /\ offset' \in [FunctionSets -> Nat \cup {None}]
        /\ offset'[s] = SetStart(i + 1) /\ offset'[s] # None
        /\ \A t \in FunctionSets : t # s => offset'[t] = offset[t]
    BY <1>6, <1>7, <2>1, IpcInterfaceAssumption
  <2>3. pos' = SetStart(i')
    BY <2>1, <2>2
  <2>4. ASSUME NEW k \in 1..(i' - 1) PROVE offset'[functionSetList[k]] # None
    <3>1. k \in DOMAIN functionSetList
      BY <1>2, <1>5, <1>12, <2>1
    <3>2. CASE k = i
      BY <2>2, <3>2 DEF s
    <3>3. CASE k # i
      <4>1. k \in 1..(i - 1)
        BY <1>5, <2>1, <3>3
      <4> QED
        BY <1>7, <1>12, <2>2, <3>1, <4>1
    <3> QED
      BY <3>2, <3>3
  <2>5. s \in ToSet(functionSetList)
    BY <1>2, <1>5, <1>12 DEF ToSet, s
  <2>6. \A t \in FunctionSets : offset'[t] # None => t \in ToSet(functionSetList)
    BY <2>2, <2>5 DEF PlaceInv
  <2>7. ASSUME NEW k \in DOMAIN functionSetList, offset'[functionSetList[k]] # None
        PROVE  \E j \in 1..k : offset'[functionSetList[k]] = SetStart(j + 1)
    <3>1. CASE functionSetList[k] = s
      <4>1. k \notin 1..(i - 1)
        BY <1>7, <1>13, <3>1
      <4>2. i \in 1..k
        BY <1>5, <1>12, <4>1
      <4> QED
        BY <2>2, <3>1, <4>2
    <3>2. CASE functionSetList[k] # s
      BY <1>12, <2>2, <2>7, <3>2 DEF PlaceInv
    <3> QED
      BY <3>1, <3>2
  <2> QED
    BY <1>2, <1>3, <1>7, <1>10, <1>11, <2>1, <2>2, <2>3, <2>4, <2>6, <2>7 DEF PlaceInv
<1>14. CASE offset[s] # None
  <2>1. op' = "none" /\ pos' = 0 /\ offset' = offset
    BY <1>1, <1>14
  <2> QED
    BY <1>2, <1>3, <1>7, <1>10, <1>11, <2>1 DEF PlaceInv
<1> QED
  BY <1>13, <1>14

LEMMA PlaceRandomize ==
  ASSUME IpcTypes, PlaceInv, randomizeMasks
  PROVE  PlaceInv'
<1>1. UNCHANGED <<functionSetList, ipcWritable, offset, file, drawn>>
  BY DEF randomizeMasks, Raise
<1>2. size' = size /\ \A k : SetStart(k)' = SetStart(k)
  BY <1>1, SameStarts
<1>3. CASE ~ipcWritable
  <2>1. UNCHANGED <<op, i, pos>>
    BY <1>3 DEF randomizeMasks, Raise
  <2> QED
    BY <1>1, <1>2, <2>1 DEF PlaceInv, FileInside
<1>4. CASE ipcWritable
  <2>1. op' = "randomize" /\ i' = 1 /\ pos' = Digits(Len(functionSetList)) + 1
    BY <1>4 DEF randomizeMasks
  <2>2. pos' = SetStart(1) /\ 1 \in 1..i'
    BY <2>1, FirstStart
  <2>3. \E j \in 1..i' : pos' = SetStart(j)
    BY <2>2
  <2> QED
    BY <1>1, <1>2, <1>4, <2>1, <2>3 DEF PlaceInv, FileInside
<1> QED
  BY <1>3, <1>4

LEMMA PlaceRandomizeSet ==
  ASSUME IpcTypes, PlaceInv, randomizeMasksSet
  PROVE  PlaceInv'
<1> DEFINE s == functionSetList[i]
<1>1. PICK entry \in maskFromConfig(entryConfig[s]), exit \in maskFromConfig(exitConfig[s]) :
             /\ file' = WriteLines(pos, <<Mask(entry), Mask(exit)>>)
             /\ drawn' = [drawn EXCEPT ![s] = <<entry, exit>>]
             /\ IF offset[s] # None
                THEN i' = i + 1 /\ pos' = offset[s] /\ UNCHANGED <<op, raised>>
                ELSE op' = "none" /\ i' = 1 /\ pos' = 0 /\ raised' = TRUE
  BY DEF randomizeMasksSet
<1>2. /\ op = "randomize" /\ i <= Len(functionSetList)
      /\ UNCHANGED <<functionSetList, ipcWritable, offset>>
  BY DEF randomizeMasksSet
<1>3. /\ size' = size /\ \A k : SetStart(k)' = SetStart(k)
  BY <1>2, SameStarts
<1>4. entry \in SUBSET Cores /\ exit \in SUBSET Cores
  BY DrawnMasks
<1>5. PICK j \in 1..i : pos = SetStart(j)
  BY <1>2 DEF PlaceInv
<1>6. /\ SetStart(j) \in Nat /\ SetStart(j + 1) \in Nat /\ SetStart(j + 1) <= size
      /\ size \in Nat /\ s \in FunctionSets /\ SetStart(j) + 18 <= SetStart(j + 1)
  BY <1>2, TurnInside
<1>7. /\ FileInside /\ ipcWritable
      /\ drawn \in [FunctionSets -> (SUBSET Cores) \X (SUBSET Cores)]
  BY <1>2 DEF PlaceInv
<1> DEFINE lines == <<Mask(entry), Mask(exit)>>
<1>8. Sized(lines) /\ End(pos, lines) = pos + 18
  BY <1>4, <1>5, <1>6, MaskLines DEF End
<1> HIDE DEF s, lines
<1>9. FileInside'
  BY <1>1, <1>3, <1>5, <1>6, <1>7, <1>8, WriteInside DEF lines
<1>10. drawn' \in [FunctionSets -> (SUBSET Cores) \X (SUBSET Cores)]
  BY <1>1, <1>4, <1>7
<1>11. i \in Nat /\ i \in DOMAIN functionSetList
  BY <1>2, LenProperties DEF IpcTypes
<1>12. CASE offset[s] # None
  <2>1. i' = i + 1 /\ pos' = offset[s] /\ op' = "randomize"
    BY <1>1, <1>2, <1>12
  <2>2. PICK m \in 1..i : offset[s] = SetStart(m + 1)
    BY <1>11, <1>12 DEF PlaceInv, s
  <2>3. m + 1 \in 1..i'
    BY <1>11, <2>1
  <2>4. \E k \in 1..i' : pos' = SetStart(k)
    BY <2>1, <2>2, <2>3
  <2> QED
    BY <1>2, <1>3, <1>7, <1>9, <1>10, <2>1, <2>4 DEF PlaceInv
<1>13. CASE offset[s] = None
  <2>1. op' = "none" /\ pos' = 0
    BY <1>1, <1>13
  <2> QED
    BY <1>2, <1>3, <1>7, <1>9, <1>10, <2>1 DEF PlaceInv
<1> QED
  BY <1>12, <1>13

LEMMA PlaceEnd ==
  ASSUME IpcTypes, PlaceInv, endLoop
  PROVE  PlaceInv'
<1>1. /\ UNCHANGED <<functionSetList, ipcWritable, offset, file, drawn>>
      /\ op' = "none" /\ pos' = 0
  BY DEF endLoop
<1>2. size' = size /\ \A k : SetStart(k)' = SetStart(k)
  BY <1>1, SameStarts
<1> QED
  BY <1>1, <1>2 DEF PlaceInv, FileInside

LEMMA PlaceStep ==
  ASSUME IpcTypes, BeforeInv, PlaceInv, [Next]_vars
  PROVE  PlaceInv'
<1>1. CASE UNCHANGED ipcVars
  <2>1. UNCHANGED <<functionSetList, ipcWritable, offset, file, op, i, pos, drawn>>
    BY <1>1 DEF ipcVars
  <2>2. size' = size /\ \A k : SetStart(k)' = SetStart(k)
    BY <2>1, SameStarts
  <2> QED
    BY <2>1, <2>2 DEF PlaceInv, FileInside
<1>2. CASE ipcStep
  BY <1>2, PlaceInitIpcSet, PlaceRandomizeSet, PlaceEnd DEF ipcStep
<1> QED
  BY <1>1, <1>2, PlaceAdd, PlaceAllocate, PlaceInitIpc, PlaceRandomize, Calls

LEMMA PlaceInside ==
  ASSUME IpcTypes, PlaceInv
  PROVE  InsideTheFile
<1> DEFINE N == Len(functionSetList)
<1>1. functionSetList \in Seq(FunctionSets)
  BY DEF IpcTypes
<1>2. N \in Nat /\ \A k \in 1..(N + 1) : SetStart(k) \in Nat
  BY <1>1, Starts
<1>3. SetStart(N + 1) = size
  BY <1>1, Starts
<1>4. ASSUME NEW k \in 1..(N + 1) PROVE SetStart(k) \in 0..size
  <2>1. N + 1 \in 1..(N + 1) /\ k <= N + 1
    BY <1>2
  <2>2. SetStart(k) <= SetStart(N + 1)
    BY <1>1, <2>1, StartsGrow
  <2> QED
    BY <1>2, <1>3, <2>1, <2>2
<1>5. size \in Nat /\ DOMAIN functionSetList = 1..N
  BY <1>1, <1>2, <1>3, FirstStart, LenProperties
<1>6. pos \in 0..size
  <2>1. CASE op = "none"
    BY <1>5, <2>1 DEF PlaceInv
  <2>2. CASE op = "init"
    BY <1>4, <2>2 DEF PlaceInv, IpcTypes
  <2>3. CASE op = "randomize"
    <3>1. PICK j \in 1..i : pos = SetStart(j)
      BY <2>3 DEF PlaceInv
    <3>2. j \in 1..(N + 1)
      BY <1>2 DEF IpcTypes
    <3> QED
      BY <1>4, <3>1, <3>2
  <2> QED
    BY <2>1, <2>2, <2>3 DEF IpcTypes
<1>7. ASSUME NEW s \in FunctionSets, offset[s] # None PROVE offset[s] \in 0..size
  <2>1. PICK k \in DOMAIN functionSetList : functionSetList[k] = s
    BY <1>7 DEF PlaceInv, ToSet
  <2>2. PICK j \in 1..k : offset[s] = SetStart(j + 1)
    BY <1>7, <2>1 DEF PlaceInv
  <2>3. j + 1 \in 1..(N + 1)
    BY <1>2, <1>5
  <2> QED
    BY <1>4, <2>2, <2>3
<1>8. \A q \in DOMAIN file : q >= 0 /\ q + LineSize(file[q]) <= size
  BY DEF PlaceInv, FileInside
<1> QED
  BY <1>6, <1>7, <1>8 DEF InsideTheFile

LEMMA PlaceInit == Init => PlaceInv /\ BeforeInv
<1> SUFFICES ASSUME Init PROVE PlaceInv /\ BeforeInv
  OBVIOUS
<1>1. /\ functionSetList = <<>> /\ ipcWritable = FALSE /\ offset = [s \in FunctionSets |-> None]
      /\ file = <<>> /\ op = "none" /\ pos = 0
      /\ drawn = [s \in FunctionSets |-> <<{}, {}>>]
  BY DEF Init, IpcInit
<1>2. DOMAIN file = {} /\ DOMAIN functionSetList = {}
  <2>1. DOMAIN <<>> = {}
    BY EmptyDomain
  <2> QED
    BY <1>1, <2>1
<1>3. FileInside
  BY <1>2 DEF FileInside
<1>4. /\ offset \in [FunctionSets -> Nat \cup {None}]
      /\ \A s \in FunctionSets : offset[s] = None
  BY <1>1
<1>5. drawn \in [FunctionSets -> (SUBSET Cores) \X (SUBSET Cores)]
  BY <1>1
<1> QED
  BY <1>1, <1>2, <1>3, <1>4, <1>5 DEF PlaceInv, BeforeInv

\* Whatever was in the file and whatever calls were made, every write, every offset that
\* is remembered and every line lies within the bytes that getSize counted.
THEOREM Inside == Spec => []InsideTheFile
<1>1. IInv => IpcTypes
  BY TypeParts DEF IInv
<1>2. IInv /\ PlaceInv /\ BeforeInv /\ [Next]_vars => (PlaceInv /\ BeforeInv)'
  BY <1>1, PlaceStep, BeforeStep
<1>3. IInv /\ PlaceInv => InsideTheFile
  BY <1>1, PlaceInside
<1> QED
  BY <1>2, <1>3, PlaceInit, Inductive, PTL DEF Spec

-----------------------------------------------------------------------------
(* The layout *)

\* Lines that a write does not overlap are still there.
LEMMA KeptLines ==
  ASSUME NEW W, NEW p \in Nat, NEW lines, NEW end \in Nat, WrittenOver(W, p, lines, end),
         NEW q \in Nat, NEW others, Sized(others), Holds(file, q, others),
         End(q, others) <= p \/ end <= q
  PROVE  Holds(W, q, others)
<1> SUFFICES ASSUME NEW j \in 1..Len(others)
             PROVE  /\ LineOffsets(q, others)[j] \in DOMAIN W
                    /\ W[LineOffsets(q, others)[j]] = others[j]
  BY DEF Holds, Sized
<1> DEFINE x == LineOffsets(q, others)[j]
<1>1. x \in DOMAIN file /\ file[x] = others[j]
  BY DEF Holds, Sized
<1>2. x \in Nat /\ q <= x /\ x + LineSize(others[j]) <= End(q, others) /\ End(q, others) \in Nat
  BY OffsetBounds
<1>3. LineSize(others[j]) \in Nat
  BY DEF Sized
<1> HIDE DEF x
<1>4. x + LineSize(file[x]) <= p \/ end <= x
  BY <1>1, <1>2, <1>3
<1>5. x \in DOMAIN W /\ W[x] = file[x]
  BY <1>1, <1>4 DEF WrittenOver
<1> QED
  BY <1>1, <1>5 DEF x

\* Lines that are written are there.
LEMMA NewLines ==
  ASSUME NEW W, NEW p, NEW lines, NEW end, WrittenOver(W, p, lines, end), Sized(lines)
  PROVE  Holds(W, p, lines)
BY DEF Holds, Sized, WrittenOver

\* A set reaches to where the next one begins.
LEMMA SetExtent ==
  ASSUME IpcTypes, PlaceInv, NEW k \in 1..Len(functionSetList)
  PROVE  /\ SetStart(k) \in Nat /\ SetStart(k + 1) \in Nat
         /\ functionSetList[k] \in FunctionSets
         /\ drawn[functionSetList[k]][1] \in SUBSET Cores
         /\ drawn[functionSetList[k]][2] \in SUBSET Cores
         /\ Sized(SetLines(k))
         /\ End(SetStart(k), SetLines(k)) = SetStart(k + 1)
         /\ SetStart(k) + 18 <= SetStart(k + 1)
<1> DEFINE s == functionSetList[k]
<1>1. functionSetList \in Seq(FunctionSets)
  BY DEF IpcTypes
<1>2. /\ Len(functionSetList) \in Nat
      /\ \A m \in 1..(Len(functionSetList) + 1) : SetStart(m) \in Nat
      /\ \A m \in 1..Len(functionSetList) :
            SetStart(m + 1) = SetStart(m) + SetSize(functionSetList[m])
  BY <1>1, Starts
<1>3. SetStart(k) \in Nat /\ SetStart(k + 1) \in Nat /\ SetStart(k + 1) = SetStart(k) + SetSize(s)
  BY <1>2
<1>4. s \in FunctionSets
  BY <1>1, ElementOfSeq
<1>5. drawn[s][1] \in SUBSET Cores /\ drawn[s][2] \in SUBSET Cores
  BY <1>4 DEF PlaceInv
<1> HIDE DEF s
<1>6. Sized(bytes(s, drawn[s][1], drawn[s][2]))
  BY <1>4, <1>5, SameSizes DEF SameSized
<1>7. /\ End(SetStart(k), bytes(s, drawn[s][1], drawn[s][2])) = SetStart(k) + SetSize(s)
      /\ SetSize(s) \in Nat /\ SetSize(s) >= 18
  <2> DEFINE entry == drawn[s][1]
             exit  == drawn[s][2]
             p     == SetStart(k)
  <2>1. entry \in SUBSET Cores /\ exit \in SUBSET Cores /\ p \in Nat
    BY <1>3, <1>5
  <2> HIDE DEF entry, exit, p
  <2>2. End(p, bytes(s, entry, exit)) = p + SetSize(s) /\ SetSize(s) \in Nat /\ SetSize(s) >= 18
    BY <1>4, <2>1, SetEnd, SMTT(30)
  <2> QED
    BY <2>2 DEF entry, exit, p
<1>8. SetLines(k) = bytes(s, drawn[s][1], drawn[s][2])
  BY DEF SetLines, s
<1> QED
  BY <1>3, <1>4, <1>5, <1>6, <1>7, <1>8 DEF s

\* What the layout says of the k-th set: not reached yet, or written.
LayoutOf(k) ==
    LET s == functionSetList[k] IN
    IF op = "init" /\ k >= i THEN offset[s] = None
    ELSE offset[s] = SetStart(k + 1) /\ Holds(file, SetStart(k), SetLines(k))

LEMMA LayoutParts ==
  LayoutInv <=> (Distinct /\ ipcWritable =>
                    /\ Holds(file, 0, <<Number(Len(functionSetList))>>)
                    /\ op = "randomize" => pos = SetStart(i)
                    /\ \A k \in DOMAIN functionSetList : LayoutOf(k))
BY DEF LayoutInv, LayoutOf

LEMMA LayoutFrame ==
  ASSUME LayoutInv,
         UNCHANGED <<functionSetList, ipcWritable, offset, file, op, i, pos, drawn>>
  PROVE  LayoutInv'
<1>1. size' = size /\ \A k : SetStart(k)' = SetStart(k)
  BY SameStarts
<1>2. \A k : SetLines(k)' = SetLines(k)
  BY DEF SetLines
<1> QED
  BY <1>1, <1>2 DEF LayoutInv, Distinct

LEMMA LayoutInitIpc ==
  ASSUME IpcTypes, PlaceInv, LayoutInv, initIpc
  PROVE  LayoutInv'
<1>1. CASE ipcWritable
  <2>1. UNCHANGED <<functionSetList, ipcWritable, offset, file, op, i, pos, drawn>>
    BY <1>1 DEF initIpc, Raise
  <2> QED
    BY <2>1, LayoutFrame
<1>2. CASE ~ipcWritable
  <2> DEFINE count == <<Number(Len(functionSetList))>>
  <2>1. /\ UNCHANGED <<functionSetList, offset, drawn>>
        /\ file' = WriteLines(0, count) /\ op' = "init" /\ i' = 1
    BY <1>2 DEF initIpc
  <2>2. Len(functionSetList) \in Nat /\ DOMAIN functionSetList = 1..Len(functionSetList)
        /\ \A k \in DOMAIN functionSetList : functionSetList[k] \in FunctionSets
    BY LenProperties, ElementOfSeq DEF IpcTypes
  <2>3. Sized(count)
    BY <2>2, CountLine
  <2> HIDE DEF count
  <2>4. Holds(file', 0, count)
    <3>1. Lines(file) /\ 0 \in Nat
      BY DEF PlaceInv, FileInside, Lines
    <3> QED
      BY <2>1, <2>3, <3>1, WriteEffect, NewLines
  <2>5. ASSUME NEW k \in DOMAIN functionSetList PROVE offset[functionSetList[k]] = None /\ k >= 1
    BY <1>2, <2>2 DEF PlaceInv
  <2> QED
    BY <2>1, <2>4, <2>5 DEF LayoutInv, count
<1> QED
  BY <1>1, <1>2

\* Two sets of the list: the earlier one ends before the later one begins.
LEMMA SetOrder ==
  ASSUME IpcTypes, NEW j \in 1..Len(functionSetList), NEW k \in 1..Len(functionSetList), j < k
  PROVE  SetStart(j + 1) <= SetStart(k) /\ SetStart(1) <= SetStart(k)
<1> DEFINE N == Len(functionSetList)
<1>1. functionSetList \in Seq(FunctionSets) /\ N \in Nat
  BY LenProperties DEF IpcTypes
<1>2. /\ j + 1 \in 1..(N + 1) /\ k \in 1..(N + 1) /\ j + 1 <= k
      /\ 1 \in 1..(N + 1) /\ 1 <= k
  BY <1>1
<1> QED
  BY <1>1, <1>2, StartsGrow

\* The count ends where the first set begins, which no set precedes.
LEMMA CountExtent ==
  ASSUME IpcTypes
  PROVE  LET count == <<Number(Len(functionSetList))>> IN
         /\ Sized(count) /\ End(0, count) = SetStart(1) /\ SetStart(1) \in Nat
         /\ \A k \in 1..Len(functionSetList) : SetStart(1) <= SetStart(k)
<1> DEFINE N == Len(functionSetList)
<1>1. functionSetList \in Seq(FunctionSets)
  BY DEF IpcTypes
<1>2. N \in Nat /\ SetStart(1) = Digits(N) + 1 /\ SetStart(1) \in Nat
  BY FirstStart
<1>3. Sized(<<Number(N)>>) /\ End(0, <<Number(N)>>) = SetStart(1)
  BY <1>2, CountLine DEF End
<1>4. ASSUME NEW k \in 1..N PROVE SetStart(1) <= SetStart(k)
  <2>1. 1 \in 1..(N + 1) /\ k \in 1..(N + 1) /\ 1 <= k
    BY <1>2
  <2> QED
    BY <1>1, <2>1, StartsGrow
<1> QED
  BY <1>2, <1>3, <1>4

LEMMA LayoutInitIpcSet ==
  ASSUME IpcTypes, PlaceInv, LayoutInv, initIpcSet
  PROVE  LayoutInv'
<1> DEFINE N == Len(functionSetList)
           s == functionSetList[i]
           count == <<Number(N)>>
<1>1. PICK entry \in maskFromConfig(entryConfig[s]), exit \in maskFromConfig(exitConfig[s]) :
             /\ file' = WriteLines(pos, bytes(s, entry, exit))
             /\ drawn' = [drawn EXCEPT ![s] = <<entry, exit>>]
             /\ IF offset[s] = None
                THEN /\ offset' = [offset EXCEPT ![s] = End(pos, bytes(s, entry, exit))]
                     /\ i' = i + 1 /\ pos' = offset'[s]
                     /\ UNCHANGED <<op, raised>>
                ELSE /\ op' = "none" /\ i' = 1 /\ pos' = 0
                     /\ raised' = TRUE
                     /\ UNCHANGED offset
  BY DEF initIpcSet
<1>2. /\ op = "init" /\ i <= N /\ UNCHANGED <<functionSetList, ipcWritable>>
  BY DEF initIpcSet
<1>3. /\ N \in Nat /\ DOMAIN functionSetList = 1..N /\ i \in 1..N
      /\ \A k \in 1..N : functionSetList[k] \in FunctionSets
  BY <1>2, LenProperties, ElementOfSeq DEF IpcTypes
<1> SUFFICES ASSUME Distinct PROVE LayoutInv'
  BY <1>2 DEF LayoutInv, Distinct
<1>4. /\ pos = SetStart(i) /\ FileInside /\ ipcWritable
      /\ offset \in [FunctionSets -> Nat \cup {None}]
      /\ drawn \in [FunctionSets -> (SUBSET Cores) \X (SUBSET Cores)]
  BY <1>2 DEF PlaceInv
<1>5. /\ Holds(file, 0, count)
      /\ \A k \in 1..N : LayoutOf(k)
  BY <1>3, <1>4, LayoutParts
<1>6. s \in FunctionSets /\ \A k \in 1..N : k # i => functionSetList[k] # s
  BY <1>3 DEF Distinct
<1>7. offset[s] = None
  BY <1>2, <1>3, <1>5 DEF LayoutOf
<1>8. entry \in SUBSET Cores /\ exit \in SUBSET Cores
  BY DrawnMasks
<1> DEFINE b == bytes(s, entry, exit)
<1>9. SetStart(i) \in Nat /\ SetStart(i + 1) \in Nat /\ SetStart(i + 1) = SetStart(i) + SetSize(s)
  <2>1. i \in 1..i
    BY <1>3
  <2> QED
    BY <1>2, <2>1, TurnInside
<1>10. Sized(b)
  BY <1>6, <1>8, SameSizes DEF SameSized
<1>11. End(pos, b) = SetStart(i + 1)
  BY <1>4, <1>6, <1>8, <1>9, SetEnd
<1> HIDE DEF b, s, N, count
<1>12. WrittenOver(file', SetStart(i), b, SetStart(i + 1))
  <2>1. Lines(file)
    BY <1>4 DEF FileInside, Lines
  <2> QED
    BY <1>1, <1>4, <1>9, <1>10, <1>11, <2>1, WriteEffect DEF b
<1>13. /\ offset' = [offset EXCEPT ![s] = SetStart(i + 1)]
       /\ i' = i + 1 /\ op' = "init"
  BY <1>1, <1>2, <1>7, <1>11 DEF b
<1>14. /\ \A k : SetStart(k)' = SetStart(k)
  BY <1>2, SameStarts
<1>15. Holds(file', 0, count)
  <2>1. Sized(count) /\ End(0, count) <= SetStart(i) /\ 0 \in Nat
    BY <1>3, CountExtent DEF count, N
  <2> QED
    BY <1>5, <1>9, <1>12, <2>1, KeptLines
<1>16. ASSUME NEW k \in 1..N
       PROVE  IF k >= i' THEN offset'[functionSetList[k]] = None
              ELSE /\ offset'[functionSetList[k]] = SetStart(k + 1)
                   /\ Holds(file', SetStart(k), SetLines(k)')
  <2>1. CASE k > i
    <3>1. k >= i' /\ functionSetList[k] # s /\ k >= i
      BY <1>3, <1>6, <1>13, <2>1
    <3>2. offset[functionSetList[k]] = None
      BY <1>2, <1>5, <3>1 DEF LayoutOf
    <3> QED
      BY <1>3, <1>4, <1>13, <3>1, <3>2
  <2>2. CASE k = i
    <3>1. ~(k >= i')
      BY <1>3, <1>13, <2>2
    <3>2. offset'[s] = SetStart(i + 1)
      BY <1>4, <1>6, <1>13
    <3>3. SetLines(k)' = b
      <4>1. drawn'[s] = <<entry, exit>>
        BY <1>1, <1>4, <1>6
      <4>2. functionSetList'[k] = s
        BY <1>2, <2>2 DEF s
      <4> QED
        BY <4>1, <4>2 DEF SetLines, b
    <3>4. Holds(file', SetStart(i), b)
      BY <1>10, <1>12, NewLines
    <3> QED
      BY <2>2, <3>1, <3>2, <3>3, <3>4 DEF s
  <2>3. CASE k < i
    <3>1. ~(k >= i') /\ ~(k >= i) /\ functionSetList[k] # s
      BY <1>3, <1>6, <1>13, <2>3
    <3>2. /\ offset[functionSetList[k]] = SetStart(k + 1)
          /\ Holds(file, SetStart(k), SetLines(k))
      BY <1>5, <3>1 DEF LayoutOf
    <3>3. offset'[functionSetList[k]] = SetStart(k + 1)
      BY <1>3, <1>4, <1>13, <3>1, <3>2
    <3>4. SetLines(k)' = SetLines(k)
      <4>1. drawn'[functionSetList[k]] = drawn[functionSetList[k]]
        BY <1>1, <1>3, <1>4, <3>1
      <4> QED
        BY <1>2, <4>1 DEF SetLines
    <3>5. /\ Sized(SetLines(k)) /\ SetStart(k) \in Nat
          /\ End(SetStart(k), SetLines(k)) = SetStart(k + 1)
      BY SetExtent DEF N
    <3>6. SetStart(k + 1) <= SetStart(i)
      BY <1>3, <2>3, SetOrder DEF N
    <3>7. Holds(file', SetStart(k), SetLines(k))
      BY <1>9, <1>12, <3>2, <3>5, <3>6, KeptLines
    <3> QED
      BY <3>1, <3>3, <3>4, <3>7
  <2> QED
    BY <1>3, <2>1, <2>2, <2>3
<1>17. DOMAIN functionSetList' = 1..N /\ functionSetList' = functionSetList
  BY <1>2, <1>3
<1> QED
  BY <1>13, <1>14, <1>15, <1>16, <1>17 DEF LayoutInv, count, N

LEMMA LayoutRandomize ==
  ASSUME IpcTypes, PlaceInv, LayoutInv, randomizeMasks
  PROVE  LayoutInv'
<1>1. CASE ~ipcWritable
  <2>1. UNCHANGED <<functionSetList, ipcWritable, offset, file, op, i, pos, drawn>>
    BY <1>1 DEF randomizeMasks, Raise
  <2> QED
    BY <2>1, LayoutFrame
<1>2. CASE ipcWritable
  <2>1. /\ UNCHANGED <<functionSetList, ipcWritable, offset, file, drawn>>
        /\ op = "none" /\ op' = "randomize" /\ i' = 1
        /\ pos' = Digits(Len(functionSetList)) + 1
    BY <1>2 DEF randomizeMasks, Idle
  <2>2. pos' = SetStart(1)
    BY <2>1, FirstStart
  <2>3. \A k : SetStart(k)' = SetStart(k)
    BY <2>1, SameStarts
  <2>4. \A k : SetLines(k)' = SetLines(k)
    BY <2>1 DEF SetLines
  <2> QED
    BY <1>2, <2>1, <2>2, <2>3, <2>4 DEF LayoutInv, Distinct
<1> QED
  BY <1>1, <1>2

LEMMA LayoutEnd ==
  ASSUME IpcTypes, PlaceInv, LayoutInv, endLoop
  PROVE  LayoutInv'
<1>1. /\ UNCHANGED <<functionSetList, ipcWritable, offset, file, drawn>>
      /\ op' = "none" /\ op # "none" /\ i > Len(functionSetList)
  BY DEF endLoop
<1>2. /\ Len(functionSetList) \in Nat /\ DOMAIN functionSetList = 1..Len(functionSetList)
      /\ i \in Nat
  BY LenProperties DEF IpcTypes
<1>3. \A k \in DOMAIN functionSetList : ~(k >= i)
  BY <1>1, <1>2
<1>4. \A k : SetStart(k)' = SetStart(k)
  BY <1>1, SameStarts
<1>5. \A k : SetLines(k)' = SetLines(k)
  BY <1>1 DEF SetLines
<1> QED
  BY <1>1, <1>3, <1>4, <1>5 DEF LayoutInv, Distinct

\* Only the first two lines of a set depend on its masks.
SameFrom3(b, c) == \A j \in 3..Len(b) : c[j] = b[j]

LEMMA SameNames ==
  ASSUME NEW s \in FunctionSets,
         NEW entry \in SUBSET Cores, NEW exit \in SUBSET Cores,
         NEW entry2 \in SUBSET Cores, NEW exit2 \in SUBSET Cores
  PROVE  SameFrom3(bytes(s, entry, exit), bytes(s, entry2, exit2))
<1> DEFINE b == bytes(s, entry, exit)
           c == bytes(s, entry2, exit2)
           n == Cardinality(functions[s])
<1> SUFFICES ASSUME NEW j \in 3..Len(b) PROVE c[j] = b[j]
  BY DEF SameFrom3
<1>1. BytesOf(b, s, entry, exit) /\ BytesOf(c, s, entry2, exit2)
  BY SetBytes
<1> HIDE DEF b, c
<1>2. n \in Nat /\ Len(b) = 3 + (IF n = 0 THEN 1 ELSE n)
  BY <1>1 DEF BytesOf
<1>3. j = 3 \/ (n = 0 /\ j = 4) \/ (j - 3 \in 1..n /\ j = 3 + (j - 3))
  BY <1>2 DEF b
<1>4. CASE j = 3 \/ (n = 0 /\ j = 4)
  BY <1>1, <1>4 DEF BytesOf, b, c
<1>5. CASE j - 3 \in 1..n /\ j = 3 + (j - 3)
  <2>1. b[3 + (j - 3)] = Name(SetToSeq(functions[s])[j - 3])
    BY <1>1, <1>5 DEF BytesOf
  <2>2. c[3 + (j - 3)] = Name(SetToSeq(functions[s])[j - 3])
    BY <1>1, <1>5 DEF BytesOf
  <2> QED
    BY <1>5, <2>1, <2>2 DEF b, c
<1> QED
  BY <1>3, <1>4, <1>5

\* New masks written over those of a set leave its names where they are.
LEMMA MasksReplaced ==
  ASSUME NEW s \in FunctionSets,
         NEW entry \in SUBSET Cores, NEW exit \in SUBSET Cores,
         NEW entry2 \in SUBSET Cores, NEW exit2 \in SUBSET Cores,
         NEW p \in Nat, NEW W, WrittenOver(W, p, <<Mask(entry2), Mask(exit2)>>, p + 18),
         Lines(file), Holds(file, p, bytes(s, entry, exit))
  PROVE  Holds(W, p, bytes(s, entry2, exit2))
<1> DEFINE b == bytes(s, entry, exit)
           c == bytes(s, entry2, exit2)
           lines == <<Mask(entry2), Mask(exit2)>>
<1>1. SameSized(c, b)
  BY SameSizes
<1>2. Sized(b) /\ Sized(c) /\ Len(b) = Len(c)
  BY <1>1 DEF SameSized
<1>3. BytesOf(b, s, entry, exit) /\ BytesOf(c, s, entry2, exit2)
  BY SetBytes
<1>4. LineOffsets(p, c)[1] = p /\ LineOffsets(p, c)[2] = p + 9
      /\ LineOffsets(p, b)[3] = p + 18
  BY SetEnd
<1>5. /\ LineOffsets(p, lines)[1] = p /\ LineOffsets(p, lines)[2] = p + 9
      /\ Len(lines) = 2
  BY MaskLines
<1>6. SameFrom3(b, c)
  BY SameNames
<1>7. lines[1] = Mask(entry2) /\ lines[2] = Mask(exit2)
  OBVIOUS
<1> HIDE DEF b, c, lines
<1>8. Len(b) \in Nat /\ Len(b) >= 4 /\ c[1] = Mask(entry2) /\ c[2] = Mask(exit2)
  BY <1>3 DEF BytesOf
<1>9. \A j \in 1..(Len(c) + 1) : LineOffsets(p, c)[j] = LineOffsets(p, b)[j]
  <2> DEFINE g == LineOffsets(p, b)
  <2>1. g[1] = p /\ \A j \in 1..Len(b) : g[j + 1] = g[j] + LineSize(b[j])
    BY <1>2, Offsets
  <2> HIDE DEF g
  <2>2. \A j \in 1..Len(c) : LineSize(b[j]) = LineSize(c[j])
    BY <1>1 DEF SameSized
  <2>3. \A j \in 1..Len(c) : g[j + 1] = g[j] + LineSize(c[j])
    BY <1>2, <2>1, <2>2
  <2>4. \A j \in 1..(Len(c) + 1) : LineOffsets(p, c)[j] = g[j]
    BY <1>2, <2>1, <2>3, OffsetsUnique
  <2> QED
    BY <2>4 DEF g
<1> SUFFICES ASSUME NEW j \in 1..Len(c)
             PROVE  /\ LineOffsets(p, c)[j] \in DOMAIN W
                    /\ W[LineOffsets(p, c)[j]] = c[j]
  BY <1>2 DEF Holds, Sized, c
<1>10. CASE j \in {1, 2}
  <2>1. /\ LineOffsets(p, lines)[j] \in DOMAIN W
        /\ W[LineOffsets(p, lines)[j]] = lines[j]
    BY <1>5, <1>10 DEF WrittenOver, lines
  <2> QED
    BY <1>4, <1>5, <1>7, <1>8, <1>10, <2>1
<1>11. CASE j \notin {1, 2}
  <2> DEFINE x == LineOffsets(p, b)[j]
  <2>1. j \in 3..Len(b) /\ j \in DOMAIN b /\ 3 \in 1..Len(b) /\ j \in 1..(Len(b) + 1)
    BY <1>2, <1>8, <1>11 DEF Sized
  <2>2. x \in DOMAIN file /\ file[x] = b[j]
    BY <2>1 DEF Holds, b
  <2>3. x \in Nat
    BY <1>2, <2>1, OffsetBounds
  <2>4. p + 18 <= x
    <3>1. CASE j = 3
      BY <1>4, <3>1
    <3>2. CASE j # 3
      <4>1. LineOffsets(p, b)[3] + LineSize(b[3]) <= x
        BY <1>2, <2>1, <3>2, OffsetsIncrease
      <4>2. LineSize(b[3]) \in Nat
        BY <1>2, <2>1 DEF Sized
      <4> HIDE DEF x
      <4> QED
        BY <1>4, <2>3, <4>1, <4>2
    <3> QED
      BY <3>1, <3>2
  <2>5. LineOffsets(p, c)[j] = x /\ c[j] = b[j]
    BY <1>2, <1>6, <1>9, <2>1 DEF SameFrom3
  <2> HIDE DEF x
  <2>6. x \in DOMAIN W /\ W[x] = file[x]
    BY <2>2, <2>4 DEF WrittenOver
  <2> QED
    BY <2>2, <2>5, <2>6
<1> QED
  BY <1>10, <1>11

LEMMA LayoutRandomizeSet ==
  ASSUME IpcTypes, PlaceInv, LayoutInv, randomizeMasksSet
  PROVE  LayoutInv'
<1> DEFINE N == Len(functionSetList)
           s == functionSetList[i]
           count == <<Number(N)>>
<1>1. PICK entry \in maskFromConfig(entryConfig[s]), exit \in maskFromConfig(exitConfig[s]) :
             /\ file' = WriteLines(pos, <<Mask(entry), Mask(exit)>>)
             /\ drawn' = [drawn EXCEPT ![s] = <<entry, exit>>]
             /\ IF offset[s] # None
                THEN i' = i + 1 /\ pos' = offset[s] /\ UNCHANGED <<op, raised>>
                ELSE op' = "none" /\ i' = 1 /\ pos' = 0 /\ raised' = TRUE
  BY DEF randomizeMasksSet
<1>2. /\ op = "randomize" /\ i <= N /\ UNCHANGED <<functionSetList, ipcWritable, offset>>
  BY DEF randomizeMasksSet
<1>3. /\ N \in Nat /\ DOMAIN functionSetList = 1..N /\ i \in 1..N
      /\ \A k \in 1..N : functionSetList[k] \in FunctionSets
  BY <1>2, LenProperties, ElementOfSeq DEF IpcTypes
<1> SUFFICES ASSUME Distinct PROVE LayoutInv'
  BY <1>2 DEF LayoutInv, Distinct
<1>4. /\ FileInside /\ ipcWritable
      /\ offset \in [FunctionSets -> Nat \cup {None}]
      /\ drawn \in [FunctionSets -> (SUBSET Cores) \X (SUBSET Cores)]
  BY <1>2 DEF PlaceInv
<1>5. /\ Holds(file, 0, count) /\ pos = SetStart(i)
      /\ \A k \in 1..N : LayoutOf(k)
  BY <1>2, <1>3, <1>4, LayoutParts
<1>6. s \in FunctionSets /\ \A k \in 1..N : k # i => functionSetList[k] # s
  BY <1>3 DEF Distinct
<1>7. \A k \in 1..N : /\ offset[functionSetList[k]] = SetStart(k + 1)
                      /\ Holds(file, SetStart(k), SetLines(k))
  BY <1>2, <1>5 DEF LayoutOf
<1>8. entry \in SUBSET Cores /\ exit \in SUBSET Cores
  BY DrawnMasks
<1>9. /\ SetStart(i) \in Nat /\ SetStart(i + 1) \in Nat
      /\ SetStart(i) + 18 <= SetStart(i + 1)
      /\ drawn[s][1] \in SUBSET Cores /\ drawn[s][2] \in SUBSET Cores
  BY <1>3, SetExtent
<1> DEFINE lines == <<Mask(entry), Mask(exit)>>
<1>10. Sized(lines) /\ End(pos, lines) = SetStart(i) + 18
  <2> DEFINE p == SetStart(i)
  <2>1. p \in Nat /\ pos = p
    BY <1>5, <1>9
  <2> HIDE DEF p
  <2>2. Sized(lines) /\ Len(lines) = 2 /\ LineOffsets(p, lines)[3] = p + 18
    BY <1>8, <2>1, MaskLines
  <2> HIDE DEF lines
  <2>3. End(p, lines) = p + 18
    BY <2>2 DEF End
  <2> QED
    BY <2>1, <2>2, <2>3 DEF p
<1> HIDE DEF lines, s, N, count
<1>11. Lines(file)
  BY <1>4 DEF FileInside, Lines
<1>12. WrittenOver(file', SetStart(i), lines, SetStart(i) + 18)
  BY <1>1, <1>5, <1>9, <1>10, <1>11, WriteEffect DEF lines
<1>13. i' = i + 1 /\ pos' = SetStart(i + 1) /\ op' = "randomize"
  <2>1. offset[s] = SetStart(i + 1)
    BY <1>3, <1>7 DEF s
  <2>2. offset[s] # None
    BY <1>9, <2>1, IpcInterfaceAssumption
  <2> QED
    BY <1>1, <1>2, <2>1, <2>2
<1>14. \A k : SetStart(k)' = SetStart(k)
  BY <1>2, SameStarts
<1>15. Holds(file', 0, count)
  <2>1. Sized(count) /\ End(0, count) <= SetStart(i) /\ 0 \in Nat
    BY <1>3, CountExtent DEF count, N
  <2>2. SetStart(i) + 18 \in Nat
    BY <1>9
  <2> QED
    BY <1>5, <1>9, <1>12, <2>1, <2>2, KeptLines
<1>16. ASSUME NEW k \in 1..N PROVE Holds(file', SetStart(k), SetLines(k)')
  <2>1. CASE k = i
    <3>1. SetLines(k)' = bytes(s, entry, exit)
      <4>1. drawn'[s] = <<entry, exit>>
        BY <1>1, <1>4, <1>6
      <4>2. functionSetList'[k] = s
        BY <1>2, <2>1 DEF s
      <4> QED
        BY <4>1, <4>2 DEF SetLines
    <3>2. Holds(file, SetStart(i), bytes(s, drawn[s][1], drawn[s][2]))
      BY <1>3, <1>7 DEF SetLines, s
    <3> DEFINE entry1 == drawn[s][1]
               exit1  == drawn[s][2]
               p      == SetStart(i)
    <3>3. entry1 \in SUBSET Cores /\ exit1 \in SUBSET Cores /\ p \in Nat
          /\ Holds(file, p, bytes(s, entry1, exit1))
          /\ WrittenOver(file', p, <<Mask(entry), Mask(exit)>>, p + 18)
      BY <1>9, <1>12, <3>2 DEF s, lines
    <3> HIDE DEF entry1, exit1, p
    <3>4. Holds(file', p, bytes(s, entry, exit))
      BY <1>6, <1>8, <1>11, <3>3, MasksReplaced
    <3> QED
      BY <2>1, <3>1, <3>4 DEF p
  <2>2. CASE k # i
    <3>1. functionSetList[k] # s /\ functionSetList[k] \in FunctionSets
      BY <1>3, <1>6, <2>2
    <3>2. SetLines(k)' = SetLines(k)
      <4>1. drawn'[functionSetList[k]] = drawn[functionSetList[k]]
        BY <1>1, <1>4, <3>1
      <4> QED
        BY <1>2, <4>1 DEF SetLines
    <3>3. /\ Sized(SetLines(k)) /\ SetStart(k) \in Nat /\ SetStart(k + 1) \in Nat
          /\ End(SetStart(k), SetLines(k)) = SetStart(k + 1)
      BY SetExtent DEF N
    <3>4. SetStart(k + 1) <= SetStart(i) \/ SetStart(i) + 18 <= SetStart(k)
      <4>1. CASE k < i
        BY <1>3, <4>1, SetOrder DEF N
      <4>2. CASE i < k
        <5>1. SetStart(i + 1) <= SetStart(k)
          BY <1>3, <4>2, SetOrder DEF N
        <5> QED
          BY <1>9, <3>3, <5>1
      <4> QED
        BY <1>3, <2>2, <4>1, <4>2
    <3>5. SetStart(i) + 18 \in Nat /\ Holds(file, SetStart(k), SetLines(k))
      BY <1>7, <1>9
    <3>6. Holds(file', SetStart(k), SetLines(k))
      BY <1>9, <1>12, <3>3, <3>4, <3>5, KeptLines
    <3> QED
      BY <3>2, <3>6
  <2> QED
    BY <2>1, <2>2
<1>17. DOMAIN functionSetList' = 1..N /\ functionSetList' = functionSetList
  BY <1>2, <1>3
<1>18. \A k \in 1..N : offset'[functionSetList[k]] = SetStart(k + 1)
  BY <1>2, <1>7
<1> QED
  BY <1>13, <1>14, <1>15, <1>16, <1>17, <1>18 DEF LayoutInv, count, N

LEMMA LayoutStep ==
  ASSUME IpcTypes, BeforeInv, PlaceInv, LayoutInv, [Next]_vars
  PROVE  LayoutInv'
<1>1. CASE UNCHANGED ipcVars
  BY <1>1, LayoutFrame DEF ipcVars
<1>2. CASE \E fSet \in Seq(FunctionSets) : addSet(fSet)
  <2>1. CASE ipcWritable
    BY <1>2, <2>1, LayoutFrame DEF addSet, Raise
  <2>2. CASE ~ipcWritable
    BY <1>2, <2>2 DEF addSet, LayoutInv
  <2> QED
    BY <2>1, <2>2
<1>3. CASE (\E content \in Leftovers \cup {<<>>} : Allocate(Found(content))) /\ pc = "sets"
  BY <1>3 DEF Allocate, BeforeInv, LayoutInv
<1>4. CASE ipcStep
  BY <1>4, LayoutInitIpcSet, LayoutRandomizeSet, LayoutEnd DEF ipcStep
<1> QED
  BY <1>1, <1>2, <1>3, <1>4, LayoutInitIpc, LayoutRandomize, Calls

-----------------------------------------------------------------------------
(* Reading: tokenize *)

\* The lines from p on, when t are those from the end of the line at p on.
Line(p, t) ==
    IF p = size THEN <<>>
    ELSE IF p \notin DOMAIN file THEN <<Torn>>
    ELSE IF p + LineSize(file[p]) > size THEN <<Torn>>
    ELSE <<file[p]>> \o t

To(p) == p + LineSize(file[p])

\* From is what tokenize reads from each offset on.
IsFrom(From) == From = [p \in 0..size |-> Line(p, From[To(p)])]

LEMMA LineDepends ==
  ASSUME FileInside, NEW p \in 0..size, NEW t, NEW u,
         p # size /\ p \in DOMAIN file => t = u
  PROVE  Line(p, t) = Line(p, u)
BY DEF Line

\* There is such a function, because every line is longer than nothing.
LEMMA TokenizeFrom ==
  ASSUME FileInside, size \in Nat
  PROVE  \E From : IsFrom(From) /\ tokenize = From[0]
<1> DEFINE Z == size
           Good(n) == \E g : g = [p \in (Z - n)..Z |-> Line(p, g[To(p)])]
           S == {n \in Nat : Good(n)}
<1>1. Z \in Nat
  OBVIOUS
<1>2. \A p \in DOMAIN file : p \in Nat /\ To(p) \in Nat /\ p < To(p) /\ To(p) <= Z
  BY DEF FileInside, To
<1>3. \A p \in 0..Z : \A t, u : (p \in DOMAIN file => t = u) => Line(p, t) = Line(p, u)
  BY LineDepends
<1> HIDE DEF Z
<1>4. 0 \in S
  <2> DEFINE g == [p \in (Z - 0)..Z |-> <<>>]
  <2>1. \A p \in (Z - 0)..Z : \A t : Line(p, t) = <<>>
    BY <1>1 DEF Line, Z
  <2>2. g = [p \in (Z - 0)..Z |-> Line(p, g[To(p)])]
    BY <2>1
  <2> HIDE DEF g
  <2>3. Good(0)
    BY <2>2
  <2> HIDE DEF Good
  <2> QED
    BY <2>3
<1>5. ASSUME NEW n \in 0..(Z - 1), n \in S PROVE n + 1 \in S
  <2>1. PICK g : g = [p \in (Z - n)..Z |-> Line(p, g[To(p)])]
    BY <1>5
  <2> DEFINE h == [p \in (Z - (n + 1))..Z |-> IF p >= Z - n THEN g[p] ELSE Line(p, g[To(p)])]
  <2>2. ASSUME NEW p \in (Z - (n + 1))..Z PROVE h[p] = Line(p, h[To(p)])
    <3>1. p \in 0..Z
      BY <1>1
    <3>2. p \in DOMAIN file => h[To(p)] = g[To(p)]
      <4>1. SUFFICES ASSUME p \in DOMAIN file PROVE h[To(p)] = g[To(p)]
        OBVIOUS
      <4>2. To(p) \in (Z - (n + 1))..Z /\ To(p) >= Z - n
        BY <1>1, <1>2, <4>1
      <4> QED
        BY <4>2
    <3>3. Line(p, h[To(p)]) = Line(p, g[To(p)])
      BY <1>3, <3>1, <3>2
    <3>4. h[p] = Line(p, g[To(p)])
      <4>1. CASE p >= Z - n
        <5>1. p \in (Z - n)..Z
          BY <1>1, <4>1
        <5> QED
          BY <2>1, <4>1, <5>1
      <4>2. CASE ~(p >= Z - n)
        BY <4>2
      <4> QED
        BY <4>1, <4>2
    <3> QED
      BY <3>3, <3>4
  <2>3. h = [p \in (Z - (n + 1))..Z |-> h[p]]
    OBVIOUS
  <2> HIDE DEF h
  <2>4. h = [p \in (Z - (n + 1))..Z |-> Line(p, h[To(p)])]
    BY <2>2, <2>3
  <2>5. Good(n + 1) /\ n + 1 \in Nat
    BY <1>1, <2>4
  <2> HIDE DEF Good
  <2> QED
    BY <2>5
<1>6. Z \in S
  <2> HIDE DEF S
  <2>1. 0..Z \subseteq S
    BY <1>1, <1>4, <1>5, Induction
  <2> QED
    BY <1>1, <2>1
<1>7. PICK g : g = [p \in 0..Z |-> Line(p, g[To(p)])]
  <2>1. Z - Z = 0
    BY <1>1
  <2> QED
    BY <1>6, <2>1
<1> DEFINE From == CHOOSE f : f = [p \in 0..Z |-> Line(p, f[To(p)])]
<1>8. IsFrom(From)
  BY <1>7 DEF IsFrom, Z
<1>9. tokenize = From[0]
  BY DEF tokenize, Line, To, Z
<1> QED
  BY <1>8, <1>9

\* All of what tokenize reads are sequences of lines.
FileLines == {file[q] : q \in DOMAIN file} \cup {Torn}

LEMMA FromSequences ==
  ASSUME FileInside, size \in Nat, NEW From, IsFrom(From)
  PROVE  \A p \in 0..size : From[p] \in Seq(FileLines)
<1> DEFINE Z == size
           S == {n \in Nat : \A p \in (Z - n)..Z : p >= 0 => From[p] \in Seq(FileLines)}
<1>1. Z \in Nat
  OBVIOUS
<1>2. \A p \in DOMAIN file : p \in Nat /\ To(p) \in Nat /\ p < To(p) /\ To(p) <= Z
  BY DEF FileInside, To
<1>3. \A p \in 0..Z : From[p] = Line(p, From[To(p)])
  BY DEF IsFrom
<1>4. <<>> \in Seq(FileLines) /\ <<Torn>> \in Seq(FileLines)
      /\ \A q \in DOMAIN file : <<file[q]>> \in Seq(FileLines)
  <2>1. Torn \in FileLines /\ \A q \in DOMAIN file : file[q] \in FileLines
    BY DEF FileLines
  <2> QED
    BY <2>1
<1>5. ASSUME NEW p \in 0..Z, p \in DOMAIN file => From[To(p)] \in Seq(FileLines)
      PROVE  From[p] \in Seq(FileLines)
  <2>1. CASE p \in DOMAIN file /\ p # Z
    <3>1. From[p] = <<file[p]>> \o From[To(p)]
      <4>1. ~(p + LineSize(file[p]) > size)
        BY <2>1 DEF FileInside
      <4> QED
        BY <1>3, <2>1, <4>1 DEF Line
    <3> QED
      BY <1>4, <1>5, <2>1, <3>1, ConcatProperties
  <2>2. CASE p \notin DOMAIN file \/ p = Z
    <3>1. From[p] \in {<<>>, <<Torn>>}
      BY <1>3, <2>2 DEF Line
    <3> QED
      BY <1>4, <3>1
  <2> QED
    BY <2>1, <2>2
<1> HIDE DEF Z
<1>6. 0 \in S
  <2>1. ASSUME NEW p \in (Z - 0)..Z PROVE From[p] \in Seq(FileLines)
    <3>1. p = Z /\ p \in 0..Z
      BY <1>1
    <3>2. p \notin DOMAIN file
      BY <1>1, <1>2, <3>1
    <3> QED
      BY <1>5, <3>1, <3>2
  <2> QED
    BY <2>1
<1>7. ASSUME NEW n \in 0..(Z - 1), n \in S PROVE n + 1 \in S
  <2>1. ASSUME NEW p \in (Z - (n + 1))..Z, p >= 0 PROVE From[p] \in Seq(FileLines)
    <3>1. p \in 0..Z
      BY <1>1, <2>1
    <3>2. p \in DOMAIN file => To(p) \in (Z - n)..Z /\ To(p) >= 0
      BY <1>1, <1>2
    <3> QED
      BY <1>5, <1>7, <3>1, <3>2
  <2> QED
    BY <2>1
<1>8. Z \in S
  <2> HIDE DEF S
  <2>1. 0..Z \subseteq S
    BY <1>1, <1>6, <1>7, Induction
  <2> QED
    BY <1>1, <2>1
<1>9. \A p \in 0..Z : From[p] \in Seq(FileLines)
  <2>1. Z - Z = 0 /\ \A p \in 0..Z : p >= 0
    BY <1>1
  <2> QED
    BY <1>8, <2>1
<1> QED
  BY <1>9 DEF Z

\* From the t-th on, what was read are these lines.
Come(tokens, t, lines) ==
    \A j \in 1..Len(lines) : t - 1 + j \in DOMAIN tokens /\ tokens[t - 1 + j] = lines[j]

\* From line t on, the lines read are those that begin at q.
LeftFrom(From, q, t) == t \in Nat \ {0} /\ Come(From[0], t, From[q])

\* A line that is in the file is read, then the one that begins where it ends.
LEMMA ReadLine ==
  ASSUME FileInside, size \in Nat, NEW From, IsFrom(From),
         NEW q \in DOMAIN file, NEW t, LeftFrom(From, q, t)
  PROVE  /\ t \in DOMAIN From[0] /\ From[0][t] = file[q]
         /\ LeftFrom(From, To(q), t + 1)
<1>1. q \in 0..size /\ To(q) \in 0..size /\ q # size
  BY DEF FileInside, To
<1>2. From[q] = <<file[q]>> \o From[To(q)]
  <2>1. From[q] = Line(q, From[To(q)])
    BY <1>1 DEF IsFrom
  <2> QED
    BY <1>1, <2>1 DEF Line, To
<1> DEFINE rest == From[To(q)]
           one  == <<file[q]>>
<1>3. rest \in Seq(FileLines) /\ Len(rest) \in Nat
  BY <1>1, FromSequences, LenProperties
<1>4. one \in Seq(FileLines) /\ Len(one) = 1 /\ one[1] = file[q]
  BY DEF FileLines
<1> HIDE DEF rest, one
<1>5. /\ Len(one \o rest) = Len(one) + Len(rest)
      /\ \A x \in 1..Len(one) + Len(rest) :
            (one \o rest)[x] = IF x <= Len(one) THEN one[x] ELSE rest[x - Len(one)]
  BY <1>3, <1>4, ConcatProperties
<1>6. Len(From[q]) = 1 + Len(rest) /\ From[q][1] = file[q]
  BY <1>2, <1>3, <1>4, <1>5 DEF rest, one
<1>7. \A x \in 1..Len(rest) : From[q][x + 1] = rest[x]
  <2> SUFFICES ASSUME NEW x \in 1..Len(rest) PROVE (one \o rest)[x + 1] = rest[x]
    BY <1>2 DEF rest, one
  <2>1. x + 1 \in 1..Len(one) + Len(rest) /\ ~(x + 1 <= Len(one)) /\ (x + 1) - Len(one) = x
    BY <1>3, <1>4
  <2> QED
    BY <1>5, <2>1
<1>8. t \in Nat \ {0}
  BY DEF LeftFrom
<1>9. t \in DOMAIN From[0] /\ From[0][t] = file[q]
  <2>1. 1 \in 1..Len(From[q]) /\ t - 1 + 1 = t
    BY <1>3, <1>6, <1>8
  <2> QED
    BY <1>6, <2>1 DEF LeftFrom, Come
<1>10. ASSUME NEW x \in 1..Len(rest)
       PROVE  /\ (t + 1) - 1 + x \in DOMAIN From[0]
              /\ From[0][(t + 1) - 1 + x] = rest[x]
  <2>1. x + 1 \in 1..Len(From[q]) /\ t - 1 + (x + 1) = (t + 1) - 1 + x
    BY <1>3, <1>6, <1>8
  <2>2. /\ t - 1 + (x + 1) \in DOMAIN From[0]
        /\ From[0][t - 1 + (x + 1)] = From[q][x + 1]
    BY <2>1 DEF LeftFrom, Come
  <2> QED
    BY <1>7, <2>1, <2>2
<1>11. t + 1 \in Nat \ {0}
  BY <1>8
<1> QED
  BY <1>9, <1>10, <1>11 DEF LeftFrom, Come, rest

\* All lines that the file has from p on are read one after the other.
LEMMA ReadLines ==
  ASSUME FileInside, size \in Nat, NEW From, IsFrom(From),
         NEW p \in Nat, NEW lines, Sized(lines), Holds(file, p, lines),
         NEW t, LeftFrom(From, p, t)
  PROVE  Come(From[0], t, lines) /\ LeftFrom(From, End(p, lines), t + Len(lines))
<1> DEFINE N  == Len(lines)
           at == LineOffsets(p, lines)
           S  == {n \in Nat : n <= N =>
                     /\ LeftFrom(From, at[n + 1], t + n)
                     /\ \A j \in 1..n : t - 1 + j \in DOMAIN From[0] /\ From[0][t - 1 + j] = lines[j]}
<1>1. N \in Nat /\ t \in Nat \ {0}
  BY DEF Sized, LeftFrom
<1>2. at[1] = p /\ \A k \in 1..N : at[k + 1] = at[k] + LineSize(lines[k])
  BY Offsets
<1>3. \A k \in 1..N : at[k] \in DOMAIN file /\ file[at[k]] = lines[k]
  BY DEF Holds, Sized
<1>4. End(p, lines) = at[N + 1]
  BY DEF End
<1> HIDE DEF at, N
<1>5. 0 \in S
  BY <1>1, <1>2
<1>6. ASSUME NEW n \in 0..(N - 1), n \in S PROVE n + 1 \in S
  <2>1. n + 1 \in 1..N /\ n <= N /\ n \in Nat
    BY <1>1
  <2>2. /\ LeftFrom(From, at[n + 1], t + n)
        /\ \A j \in 1..n : t - 1 + j \in DOMAIN From[0] /\ From[0][t - 1 + j] = lines[j]
    BY <1>6, <2>1
  <2>3. at[n + 1] \in DOMAIN file /\ file[at[n + 1]] = lines[n + 1]
    BY <1>3, <2>1
  <2>4. To(at[n + 1]) = at[(n + 1) + 1]
    BY <1>2, <2>1, <2>3 DEF To
  <2>5. /\ t + n \in DOMAIN From[0] /\ From[0][t + n] = lines[n + 1]
        /\ LeftFrom(From, at[(n + 1) + 1], (t + n) + 1)
    BY <2>2, <2>3, <2>4, ReadLine
  <2>6. (t + n) + 1 = t + (n + 1) /\ t - 1 + (n + 1) = t + n
    BY <1>1, <2>1
  <2>7. ASSUME NEW j \in 1..(n + 1)
        PROVE  t - 1 + j \in DOMAIN From[0] /\ From[0][t - 1 + j] = lines[j]
    <3>1. j \in 1..n \/ j = n + 1
      BY <2>1
    <3> QED
      BY <2>2, <2>5, <2>6, <3>1
  <2> QED
    BY <2>1, <2>5, <2>6, <2>7
<1>7. N \in S
  <2> HIDE DEF S
  <2>1. 0..N \subseteq S
    BY <1>1, <1>5, <1>6, Induction
  <2> QED
    BY <1>1, <2>1
<1> QED
  BY <1>1, <1>4, <1>7 DEF N, Come

-----------------------------------------------------------------------------
(* Reading: ipc_update_funcmap *)

\* Before the first turn, the line after the count is next.
NoMap == [ok |-> TRUE, line |-> 2, map |-> [f \in {} |-> None]]

\* After is what the loop over the sets has done after each of its turns.
LEMMA LoopTurns ==
  ASSUME size % PageSize # 0, NEW N \in Nat, tokenize[1][2] = N
  PROVE  \E After : /\ After[0] = NoMap
                    /\ \A n \in 1..N : After[n] = ReadSet(tokenize, After[n - 1])
                    /\ ipc_update_funcmap = IF Is("number", tokenize, 1) /\ After[N].ok
                                            THEN After[N].map ELSE None
<1> DEFINE lines == tokenize
           Turn(m) == ReadSet(lines, m)
           Good(n) == \E g : g = [k \in 0..n |-> IF k = 0 THEN NoMap ELSE Turn(g[k - 1])]
           S == {n \in Nat : Good(n)}
<1> HIDE DEF Turn
<1>1. 0 \in S
  <2> DEFINE g == [k \in 0..0 |-> NoMap]
  <2>1. g = [k \in 0..0 |-> IF k = 0 THEN NoMap ELSE Turn(g[k - 1])]
    OBVIOUS
  <2> HIDE DEF g
  <2>2. Good(0)
    BY <2>1
  <2> HIDE DEF Good
  <2> QED
    BY <2>2
<1>2. ASSUME NEW n \in 0..(N - 1), n \in S PROVE n + 1 \in S
  <2>1. PICK g : g = [k \in 0..n |-> IF k = 0 THEN NoMap ELSE Turn(g[k - 1])]
    BY <1>2
  <2> DEFINE h == [k \in 0..(n + 1) |-> IF k <= n THEN g[k] ELSE Turn(g[n])]
  <2>2. n \in Nat
    OBVIOUS
  <2>3. ASSUME NEW k \in 0..(n + 1) PROVE h[k] = IF k = 0 THEN NoMap ELSE Turn(h[k - 1])
    <3>1. CASE k <= n /\ k # 0
      <4>1. k \in 0..n /\ k - 1 \in 0..(n + 1) /\ k - 1 <= n
        BY <2>2, <3>1
      <4>2. h[k] = g[k] /\ h[k - 1] = g[k - 1]
        BY <3>1, <4>1
      <4>3. g[k] = Turn(g[k - 1])
        BY <2>1, <3>1, <4>1
      <4> QED
        BY <3>1, <4>2, <4>3
    <3>2. CASE k = 0
      <4>1. h[0] = g[0] /\ g[0] = NoMap
        BY <2>1, <2>2
      <4> QED
        BY <3>2, <4>1
    <3>3. CASE k = n + 1
      <4>1. k # 0 /\ ~(k <= n) /\ k - 1 = n /\ n \in 0..(n + 1) /\ n <= n
        BY <2>2, <3>3
      <4>2. h[k] = Turn(g[n]) /\ h[n] = g[n]
        BY <4>1
      <4> QED
        BY <4>1, <4>2
    <3> QED
      BY <2>2, <3>1, <3>2, <3>3
  <2>4. h = [k \in 0..(n + 1) |-> h[k]]
    OBVIOUS
  <2> HIDE DEF h
  <2>5. h = [k \in 0..(n + 1) |-> IF k = 0 THEN NoMap ELSE Turn(h[k - 1])]
    BY <2>3, <2>4
  <2>6. Good(n + 1) /\ n + 1 \in Nat
    BY <2>2, <2>5
  <2> HIDE DEF Good
  <2> QED
    BY <2>6
<1>3. N \in S
  <2> HIDE DEF S
  <2>1. 0..N \subseteq S
    BY <1>1, <1>2, Induction
  <2> QED
    BY <2>1
<1>4. PICK g : g = [k \in 0..N |-> IF k = 0 THEN NoMap ELSE Turn(g[k - 1])]
  BY <1>3
<1> DEFINE Body(f) == [k \in 0..N |-> IF k = 0 THEN NoMap ELSE Turn(f[k - 1])]
           After   == CHOOSE f : f = Body(f)
<1>5. After = Body(After)
  BY <1>4
<1>6. ipc_update_funcmap = IF Is("number", lines, 1) /\ After[N].ok THEN After[N].map ELSE None
  <2> DEFINE All(L) == CHOOSE f : f = [n \in 0..L[1][2] |->
                                         IF n = 0 THEN NoMap ELSE ReadSet(L, f[n - 1])]
             Final(L) == All(L)[L[1][2]]
             Map(L) == IF Is("number", L, 1) /\ Final(L).ok THEN Final(L).map ELSE None
  <2>1. ipc_update_funcmap = Map(IF size % PageSize = 0 THEN <<Torn>> ELSE tokenize)
    BY DEF ipc_update_funcmap, NoMap
  <2> HIDE DEF Map
  <2>2. ipc_update_funcmap = Map(lines)
    BY <2>1
  <2> USE DEF Map
  <2>3. lines[1][2] = N
    OBVIOUS
  <2>4. All(lines) = After
    BY DEF Turn
  <2> HIDE DEF All, After, lines
  <2>5. Final(lines) = After[N]
    BY <2>3, <2>4
  <2> HIDE DEF Final
  <2> QED
    BY <2>2, <2>5
<1> HIDE DEF After
<1>7. After[0] = NoMap /\ \A n \in 1..N : After[n] = Turn(After[n - 1])
  BY <1>5
<1> QED
  BY <1>6, <1>7 DEF Turn

\* The map with the functions of a set, which get its masks.
With(map, s, entry, exit) == [f \in DOMAIN map \cup functions[s] |->
                                IF f \in functions[s] THEN <<entry, exit>> ELSE map[f]]

\* A turn of the loop reads the lines of a set: its functions get its masks.
LEMMA ReadOneSet ==
  ASSUME NEW s \in FunctionSets, NEW entry \in SUBSET Cores, NEW exit \in SUBSET Cores,
         NEW tokens, NEW t \in Nat \ {0}, NEW map, Come(tokens, t, bytes(s, entry, exit))
  PROVE  ReadSet(tokens, [ok |-> TRUE, line |-> t, map |-> map]) =
            [ok   |-> TRUE, line |-> t + 3 + Cardinality(functions[s]),
             map  |-> With(map, s, entry, exit)]
<1> DEFINE b     == bytes(s, entry, exit)
           n     == Cardinality(functions[s])
           names == SetToSeq(functions[s])
           m     == [ok |-> TRUE, line |-> t, map |-> map]
           fs    == {tokens[t + 2 + j][2] : j \in 1..n}
<1>1. BytesOf(b, s, entry, exit)
  BY SetBytes
<1>2. {names[j] : j \in 1..n} = functions[s]
  BY SetSequence, IpcInterfaceAssumption
<1> HIDE DEF b, n, names
<1>3. /\ n \in Nat /\ Len(b) = 3 + (IF n = 0 THEN 1 ELSE n)
      /\ b[1] = Mask(entry) /\ b[2] = Mask(exit) /\ b[3] = Number(n)
      /\ \A j \in 1..n : b[3 + j] = Name(names[j])
  BY <1>1 DEF BytesOf, n, names
<1>4. \A j \in 1..Len(b) : t - 1 + j \in DOMAIN tokens /\ tokens[t - 1 + j] = b[j]
  BY DEF b, Come
<1>5. /\ t \in DOMAIN tokens /\ tokens[t] = Mask(entry)
      /\ t + 1 \in DOMAIN tokens /\ tokens[t + 1] = Mask(exit)
      /\ t + 2 \in DOMAIN tokens /\ tokens[t + 2] = Number(n)
  <2>1. /\ 1 \in 1..Len(b) /\ 2 \in 1..Len(b) /\ 3 \in 1..Len(b)
        /\ t - 1 + 1 = t /\ t - 1 + 2 = t + 1 /\ t - 1 + 3 = t + 2
    BY <1>3
  <2> QED
    BY <1>3, <1>4, <2>1
<1>6. ASSUME NEW j \in 1..n
      PROVE  t + 2 + j \in DOMAIN tokens /\ tokens[t + 2 + j] = Name(names[j])
  <2>1. 3 + j \in 1..Len(b) /\ t - 1 + (3 + j) = t + 2 + j
    BY <1>3
  <2> QED
    BY <1>3, <1>4, <2>1
<1>7. tokens[t][2] = entry /\ tokens[t + 1][2] = exit /\ tokens[t + 2][2] = n
  BY <1>5 DEF Mask, Number
<1>8. IsSet(tokens, t)
  <2>1. Is("mask", tokens, t) /\ Is("mask", tokens, t + 1) /\ Is("number", tokens, t + 2)
    BY <1>5 DEF Is, Mask, Number
  <2>2. \A j \in 1..n : Is("name", tokens, t + 2 + j)
    BY <1>6 DEF Is, Name
  <2> QED
    BY <1>7, <2>1, <2>2 DEF IsSet
<1>9. fs = functions[s]
  <2>1. \A j \in 1..n : tokens[t + 2 + j][2] = names[j]
    BY <1>6 DEF Name
  <2> QED
    BY <1>2, <2>1
<1>10. m.ok = TRUE /\ m.line = t /\ m.map = map
  OBVIOUS
<1> HIDE DEF m
<1>11. ReadSet(tokens, m) =
         [ok   |-> TRUE, line |-> t + 3 + n,
          map  |-> [f \in DOMAIN map \cup fs |-> IF f \in fs THEN <<entry, exit>> ELSE map[f]]]
  <2> DEFINE count == tokens[m.line + 2][2]
             read  == {tokens[m.line + 2 + j][2] : j \in 1..count}
  <2>1. count = n
    BY <1>7, <1>10
  <2>2. read = fs
    BY <1>10, <2>1
  <2>3. ReadSet(tokens, m) =
          IF ~m.ok \/ ~IsSet(tokens, m.line) THEN [m EXCEPT !.ok = FALSE]
          ELSE [ok   |-> TRUE,
                line |-> m.line + 3 + count,
                map  |-> [f \in DOMAIN m.map \cup read |->
                           IF f \in read THEN <<tokens[m.line][2], tokens[m.line + 1][2]>>
                                         ELSE m.map[f]]]
    BY DEF ReadSet
  <2> HIDE DEF count, read, fs
  <2> QED
    BY <1>7, <1>8, <1>10, <2>1, <2>2, <2>3
<1> HIDE DEF fs
<1> QED
  BY <1>9, <1>11 DEF m, n, With

-----------------------------------------------------------------------------
(* Reading: what a process gets *)

\* The set a function is in.
OwnerOf(f) == CHOOSE s \in ToSet(functionSetList) : f \in functions[s]

\* The functions of the first n sets, each with the masks last drawn for its set.
AssignedUpTo(n) == [f \in UNION {functions[functionSetList[j]] : j \in 1..n} |-> drawn[OwnerOf(f)]]

\* A set that is listed twice has no function, and only one place for it.
LEMMA DistinctSets ==
  ASSUME IpcTypes, OneSetPerFunction, WellFormed
  PROVE  Distinct
<1> SUFFICES ASSUME NEW j \in DOMAIN functionSetList, NEW k \in DOMAIN functionSetList,
                    j # k, functionSetList[j] = functionSetList[k]
             PROVE  FALSE
  BY DEF Distinct
<1>1. functions[functionSetList[j]] = {} /\ functions[functionSetList[k]] = {}
  BY DEF OneSetPerFunction
<1>2. j = Len(functionSetList) /\ k = Len(functionSetList)
  BY <1>1 DEF WellFormed
<1> QED
  BY <1>2

\* The set of a function is found.
LEMMA SetOwner ==
  ASSUME IpcTypes, OneSetPerFunction,
         NEW k \in 1..Len(functionSetList), NEW f \in functions[functionSetList[k]]
  PROVE  OwnerOf(f) = functionSetList[k]
<1>1. k \in DOMAIN functionSetList
  BY LenProperties DEF IpcTypes
<1>2. functionSetList[k] \in ToSet(functionSetList)
  BY <1>1 DEF ToSet
<1>3. ASSUME NEW s \in ToSet(functionSetList), f \in functions[s] PROVE s = functionSetList[k]
  <2>1. PICK j \in DOMAIN functionSetList : s = functionSetList[j]
    BY DEF ToSet
  <2> QED
    BY <1>1, <1>3, <2>1 DEF OneSetPerFunction
<1> QED
  BY <1>2, <1>3 DEF OwnerOf

LEMMA AssignedToAll ==
  ASSUME IpcTypes, OneSetPerFunction
  PROVE  AssignedUpTo(Len(functionSetList)) = Assigned
<1>1. DOMAIN functionSetList = 1..Len(functionSetList)
  BY LenProperties DEF IpcTypes
<1>2. globalSet = UNION {functions[functionSetList[j]] : j \in 1..Len(functionSetList)}
  BY <1>1 DEF OneSetPerFunction
<1> QED
  BY <1>2 DEF AssignedUpTo, Assigned, OwnerOf

LEMMA AssignedToNext ==
  ASSUME IpcTypes, PlaceInv, OneSetPerFunction, NEW n \in Nat, n + 1 <= Len(functionSetList)
  PROVE  LET s == functionSetList[n + 1]
         IN AssignedUpTo(n + 1) = With(AssignedUpTo(n), s, drawn[s][1], drawn[s][2])
<1> DEFINE s == functionSetList[n + 1]
           D(m) == UNION {functions[functionSetList[j]] : j \in 1..m}
<1>1. n + 1 \in 1..Len(functionSetList) /\ s \in FunctionSets
  <2>1. Len(functionSetList) \in Nat
    BY LenProperties DEF IpcTypes
  <2>2. n + 1 \in 1..Len(functionSetList)
    BY <2>1
  <2> QED
    BY <2>2, ElementOfSeq DEF IpcTypes
<1>2. D(n + 1) = D(n) \cup functions[s]
  <2>1. 1..(n + 1) = (1..n) \cup {n + 1}
    OBVIOUS
  <2> QED
    BY <2>1
<1>3. drawn[s] = <<drawn[s][1], drawn[s][2]>>
  <2>1. drawn[s] \in (SUBSET Cores) \X (SUBSET Cores)
    BY <1>1 DEF PlaceInv
  <2> QED
    BY <2>1
<1>4. \A f \in functions[s] : OwnerOf(f) = s
  BY <1>1, SetOwner
<1>5. \A m : AssignedUpTo(m) = [f \in D(m) |-> drawn[OwnerOf(f)]]
  BY DEF AssignedUpTo
<1> HIDE DEF D, s
<1>6. AssignedUpTo(n + 1) = [f \in D(n) \cup functions[s] |->
                               IF f \in functions[s] THEN <<drawn[s][1], drawn[s][2]>>
                                                     ELSE AssignedUpTo(n)[f]]
  <2>1. ASSUME NEW f \in D(n) \cup functions[s]
        PROVE  drawn[OwnerOf(f)] = IF f \in functions[s] THEN <<drawn[s][1], drawn[s][2]>>
                                                         ELSE AssignedUpTo(n)[f]
    <3>1. CASE f \in functions[s]
      BY <1>3, <1>4, <3>1
    <3>2. CASE f \notin functions[s]
      BY <1>5, <3>2
    <3> QED
      BY <3>1, <3>2
  <2> QED
    BY <1>2, <1>5, <2>1
<1>7. DOMAIN AssignedUpTo(n) = D(n)
  BY <1>5
<1> QED
  BY <1>6, <1>7 DEF s, With

\* One turn of the loop over the sets, when the lines of the next set are the next lines.
LEMMA ReadTurn ==
  ASSUME IpcTypes, PlaceInv, OneSetPerFunction, size \in Nat,
         NEW From, IsFrom(From), tokenize = From[0],
         NEW n \in Nat, n + 1 <= Len(functionSetList),
         Holds(file, SetStart(n + 1), SetLines(n + 1)),
         NEW t, LeftFrom(From, SetStart(n + 1), t)
  PROVE  \E u : /\ ReadSet(tokenize, [ok |-> TRUE, line |-> t, map |-> AssignedUpTo(n)])
                      = [ok |-> TRUE, line |-> u, map |-> AssignedUpTo(n + 1)]
                /\ functions[functionSetList[n + 1]] # {} => LeftFrom(From, SetStart(n + 2), u)
<1> DEFINE k     == n + 1
           s     == functionSetList[k]
           entry == drawn[s][1]
           exit  == drawn[s][2]
           b     == bytes(s, entry, exit)
           c     == Cardinality(functions[s])
           u     == t + 3 + c
<1>1. k \in 1..Len(functionSetList) /\ k + 1 = n + 2
  <2>1. Len(functionSetList) \in Nat
    BY LenProperties DEF IpcTypes
  <2> QED
    BY <2>1
<1>2. /\ SetStart(k) \in Nat /\ s \in FunctionSets
      /\ entry \in SUBSET Cores /\ exit \in SUBSET Cores
      /\ Sized(SetLines(k)) /\ End(SetStart(k), SetLines(k)) = SetStart(k + 1)
  BY <1>1, SetExtent
<1>3. SetLines(k) = b
  BY DEF SetLines
<1>4. Holds(file, SetStart(k), SetLines(k)) /\ LeftFrom(From, SetStart(k), t) /\ t \in Nat \ {0}
  BY DEF LeftFrom
<1>5. AssignedUpTo(k) = With(AssignedUpTo(n), s, entry, exit)
  BY AssignedToNext
<1>6. FileInside
  BY DEF PlaceInv
<1> HIDE DEF k, s, entry, exit
<1>7. Come(From[0], t, b) /\ LeftFrom(From, SetStart(k + 1), t + Len(b))
  <2> DEFINE p == SetStart(k)
             lines == SetLines(k)
  <2>1. p \in Nat /\ Sized(lines) /\ Holds(file, p, lines) /\ LeftFrom(From, p, t)
    BY <1>2, <1>4
  <2>2. End(p, lines) = SetStart(k + 1) /\ lines = b
    BY <1>2, <1>3
  <2> HIDE DEF p, lines, b
  <2>3. Come(From[0], t, lines) /\ LeftFrom(From, End(p, lines), t + Len(lines))
    BY <1>6, <2>1, ReadLines
  <2> QED
    BY <2>2, <2>3
<1>8. /\ c \in Nat /\ Len(b) = 3 + (IF c = 0 THEN 1 ELSE c)
      /\ c = 0 <=> functions[s] = {}
  <2>1. BytesOf(b, s, entry, exit)
    BY <1>2, SetBytes
  <2> HIDE DEF b
  <2> QED
    BY <2>1 DEF BytesOf
<1>9. ReadSet(tokenize, [ok |-> TRUE, line |-> t, map |-> AssignedUpTo(n)])
         = [ok |-> TRUE, line |-> u, map |-> AssignedUpTo(k)]
  <2> DEFINE map    == AssignedUpTo(n)
             tokens == tokenize
  <2>1. Come(tokens, t, b)
    BY <1>7
  <2> HIDE DEF map, tokens
  <2>2. ReadSet(tokens, [ok |-> TRUE, line |-> t, map |-> map]) =
           [ok |-> TRUE, line |-> u, map |-> With(map, s, entry, exit)]
    BY <1>2, <1>4, <2>1, ReadOneSet
  <2> QED
    BY <1>5, <2>2 DEF map, tokens
<1>10. functions[s] # {} => LeftFrom(From, SetStart(k + 1), u)
  <2>1. functions[s] # {} => u = t + Len(b)
    BY <1>4, <1>8
  <2> QED
    BY <1>7, <2>1
<1> QED
  BY <1>1, <1>9, <1>10 DEF k, s

\* The count is the first line that is read.
LEMMA ReadCount ==
  ASSUME IpcTypes, FileInside, size \in Nat, NEW From, IsFrom(From), tokenize = From[0],
         Holds(file, 0, <<Number(Len(functionSetList))>>)
  PROVE  /\ 1 \in DOMAIN tokenize /\ tokenize[1] = Number(Len(functionSetList))
         /\ LeftFrom(From, SetStart(1), 2)
<1> DEFINE count == <<Number(Len(functionSetList))>>
<1>1. Sized(count) /\ End(0, count) = SetStart(1)
  BY CountExtent
<1>2. Len(count) = 1 /\ count[1] = Number(Len(functionSetList)) /\ Holds(file, 0, count)
  OBVIOUS
<1>3. LeftFrom(From, 0, 1)
  <2>1. 0 \in 0..size
    OBVIOUS
  <2>2. From[0] \in Seq(FileLines)
    BY <2>1, FromSequences
  <2>3. DOMAIN From[0] = 1..Len(From[0])
    BY <2>2, LenProperties
  <2>4. Come(From[0], 1, From[0])
    BY <2>3 DEF Come
  <2> QED
    BY <2>4 DEF LeftFrom
<1> HIDE DEF count
<1>4. Come(From[0], 1, count) /\ LeftFrom(From, End(0, count), 1 + Len(count))
  <2>1. 0 \in Nat
    OBVIOUS
  <2> QED
    BY <1>1, <1>2, <1>3, <2>1, ReadLines
<1>5. 1 \in DOMAIN From[0] /\ From[0][1] = count[1]
  BY <1>2, <1>4 DEF Come
<1>6. 1 + Len(count) = 2
  BY <1>2
<1> QED
  BY <1>1, <1>2, <1>4, <1>5, <1>6

\* When every set lies where the layout says, the map that is read is the one that was
\* written: each turn of the loop reads one more set.
LEMMA ReadAll ==
  ASSUME IpcTypes, PlaceInv, LayoutInv, OneSetPerFunction
  PROVE  ReadsWhatWasWritten
<1> SUFFICES ASSUME ipcWritable, Idle, WellFormed PROVE ipc_update_funcmap = Assigned
  BY DEF ReadsWhatWasWritten
<1> DEFINE N == Len(functionSetList)
<1>1. N \in Nat /\ DOMAIN functionSetList = 1..N
  BY LenProperties DEF IpcTypes
<1>2. size \in Nat
  BY FirstStart
<1>3. /\ Holds(file, 0, <<Number(N)>>)
      /\ \A k \in 1..N : Holds(file, SetStart(k), SetLines(k))
  BY <1>1, DistinctSets DEF LayoutInv, Idle
<1>4. FileInside
  BY DEF PlaceInv
<1>5. PICK From : IsFrom(From) /\ tokenize = From[0]
  BY <1>2, <1>4, TokenizeFrom
<1>6. /\ 1 \in DOMAIN tokenize /\ tokenize[1] = Number(N)
      /\ LeftFrom(From, SetStart(1), 2)
  BY <1>2, <1>3, <1>4, <1>5, ReadCount
<1>7. tokenize[1][2] = N /\ Is("number", tokenize, 1)
  BY <1>6 DEF Number, Is
<1>8. \A k \in 1..(N - 1) : functions[functionSetList[k]] # {}
  BY <1>1 DEF WellFormed
<1>9. size % PageSize # 0
  BY DEF WellFormed
<1> HIDE DEF N
<1>10. PICK After : /\ After[0] = NoMap
                    /\ \A n \in 1..N : After[n] = ReadSet(tokenize, After[n - 1])
                    /\ ipc_update_funcmap = IF Is("number", tokenize, 1) /\ After[N].ok
                                            THEN After[N].map ELSE None
  BY <1>1, <1>7, <1>9, LoopTurns
<1> DEFINE Read(n, t) == After[n] = [ok |-> TRUE, line |-> t, map |-> AssignedUpTo(n)]
           S == {n \in Nat : \E t : Read(n, t) /\ (n < N => LeftFrom(From, SetStart(n + 1), t))}
<1>11. 0 \in S
  <2>1. AssignedUpTo(0) = [f \in {} |-> None]
    BY DEF AssignedUpTo
  <2>2. Read(0, 2)
    BY <1>10, <2>1 DEF NoMap
  <2> HIDE DEF Read
  <2>3. SetStart(0 + 1) = SetStart(1)
    OBVIOUS
  <2> QED
    BY <1>6, <2>2, <2>3
<1>12. ASSUME NEW n \in 0..(N - 1), n \in S PROVE n + 1 \in S
  <2>1. n \in Nat /\ n < N /\ n + 1 \in 1..N /\ n + 1 <= N /\ (n + 1) - 1 = n /\ (n + 1) + 1 = n + 2
    BY <1>1
  <2>2. PICK t : Read(n, t) /\ LeftFrom(From, SetStart(n + 1), t)
    BY <1>12, <2>1
  <2>3. Holds(file, SetStart(n + 1), SetLines(n + 1))
    BY <1>3, <2>1
  <2>4. PICK u :
          /\ ReadSet(tokenize, [ok |-> TRUE, line |-> t, map |-> AssignedUpTo(n)])
                = [ok |-> TRUE, line |-> u, map |-> AssignedUpTo(n + 1)]
          /\ functions[functionSetList[n + 1]] # {} => LeftFrom(From, SetStart(n + 2), u)
    BY <1>2, <1>5, <2>1, <2>2, <2>3, ReadTurn DEF N
  <2>5. After[n + 1] = ReadSet(tokenize, After[n])
    BY <1>10, <2>1
  <2>6. Read(n + 1, u)
    BY <2>2, <2>4, <2>5
  <2>7. n + 1 < N => LeftFrom(From, SetStart((n + 1) + 1), u)
    <3>1. n + 1 < N => n + 1 \in 1..(N - 1)
      BY <1>1, <2>1
    <3> QED
      BY <1>8, <2>1, <2>4, <3>1
  <2> HIDE DEF Read
  <2> QED
    BY <2>1, <2>6, <2>7
<1>13. N \in S
  <2> HIDE DEF S
  <2>1. 0..N \subseteq S
    BY <1>1, <1>11, <1>12, Induction
  <2> QED
    BY <1>1, <2>1
<1>14. PICK t : Read(N, t)
  BY <1>13
<1>15. AssignedUpTo(N) = Assigned
  BY AssignedToAll DEF N
<1> QED
  BY <1>7, <1>10, <1>14, <1>15

\* Nothing has been written before initIpc.
LEMMA LayoutInit == Init => LayoutInv
BY DEF Init, IpcInit, LayoutInv

\* Whatever sets were added, whatever the file held before and however often masks were
\* drawn again: a process that reads the file between two calls gets exactly the functions
\* that were added, each with the masks last drawn for its set.
THEOREM ReadBack == Spec => []ReadsWhatWasWritten
<1>1. IInv => IpcTypes /\ OneSetPerFunction
  BY TypeParts DEF IInv
<1>2. IInv /\ PlaceInv /\ BeforeInv /\ LayoutInv /\ [Next]_vars
         => (PlaceInv /\ BeforeInv /\ LayoutInv)'
  BY <1>1, PlaceStep, BeforeStep, LayoutStep
<1>3. IInv /\ PlaceInv /\ LayoutInv => ReadsWhatWasWritten
  BY <1>1, ReadAll
<1> QED
  BY <1>2, <1>3, PlaceInit, LayoutInit, Inductive, PTL DEF Spec
=============================================================================
