--------------------------- MODULE AdapterProofs ---------------------------
(***************************************************************************)
(* The GStreamer adapters: the safety of SampleDecrypt for all frames,       *)
(* subsample maps and numbers of frames, and of OutputRetry, which repeats   *)
(* such a decryption, for every timeout, interval and length of an attempt. *)
(*                                                                         *)
(* First what the operators on sequences and subsample maps do, by           *)
(* induction over the natural numbers: where the bytes of joined sequences    *)
(* are, that a CDM which is given several frames in one block and their maps *)
(* in a row decrypts each with its own map, that bytes which were collected  *)
(* are put back where they were, and what padding a map leaves unchanged.     *)
(* Then the invariant of SampleDecrypt, what each of the five functions plans *)
(* for a frame, and one lemma per action.  OutputRetry is at the end.         *)
(***************************************************************************)
EXTENDS SampleDecrypt, OutputRetry, WellFoundedInduction, SequenceTheorems, TLAPS

-----------------------------------------------------------------------------
(* Sequences and sums *)

\* A function from 1..n is a sequence of n elements.
LEMMA FunctionIsSeq ==
  ASSUME NEW S, NEW n \in Nat, NEW f \in [1..n -> S]
  PROVE  f \in Seq(S) /\ Len(f) = n
OBVIOUS

\* Induction over the natural numbers, of sets in place of predicates: the least
\* number that is not in S would have a predecessor that is.
LEMMA Induction ==
  ASSUME NEW S, 0 \in S, \A n \in Nat : n \in S => n + 1 \in S
  PROVE  Nat \subseteq S
<1> DEFINE Less == OpToRel(<, Nat)
           T == Nat \ S
<1>1. SUFFICES ASSUME T # {} PROVE FALSE
  OBVIOUS
<1>2. IsWellFoundedOn(Less, Nat)
  BY NatLessThanWellFounded
<1>3. \E x \in T : \A y \in T : ~ (<<y, x>> \in Less)
  <2> HIDE DEF Less
  <2> QED BY <1>1, <1>2, WFMin
<1>4. PICK x \in T : \A y \in T : ~ (<<y, x>> \in Less)
  BY <1>3
<1>5. x \in Nat /\ x # 0 /\ x - 1 \in Nat /\ x - 1 < x
  OBVIOUS
<1>6. <<x - 1, x>> \in Less
  BY <1>5 DEF OpToRel
<1>7. x - 1 \in S
  BY <1>4, <1>5, <1>6
<1> QED BY <1>5, <1>7

\* There is a function of the sums of the first n numbers.
LEMMA SumsExist ==
  ASSUME NEW s \in Seq(Nat)
  PROVE  \E g \in [0..Len(s) -> Nat] : g[0] = 0 /\ \A k \in 1..Len(s) : g[k] = g[k - 1] + s[k]
<1> DEFINE Upto(n) == \E g \in [0..n -> Nat] : g[0] = 0 /\ \A k \in 1..n : g[k] = g[k - 1] + s[k]
           S == {n \in Nat : n <= Len(s) => Upto(n)}
<1>1. Upto(0)
  <2>1. [k \in 0..0 |-> 0] \in [0..0 -> Nat] /\ [k \in 0..0 |-> 0][0] = 0 /\ 1..0 = {}
    OBVIOUS
  <2> QED BY <2>1
<1>2. ASSUME NEW n \in Nat, n + 1 <= Len(s), Upto(n) PROVE Upto(n + 1)
  <2>2. PICK g \in [0..n -> Nat] : g[0] = 0 /\ \A k \in 1..n : g[k] = g[k - 1] + s[k]
    BY <1>2
  <2>3. s[n + 1] \in Nat
    BY <1>2, LenProperties, ElementOfSeq
  <2> DEFINE h == [k \in 0..n + 1 |-> IF k = n + 1 THEN g[n] + s[n + 1] ELSE g[k]]
  <2>4. h \in [0..n + 1 -> Nat]
    BY <2>2, <2>3
  <2>5. h[0] = 0 /\ \A k \in 1..n + 1 : h[k] = h[k - 1] + s[k]
    BY <2>2, <2>3
  <2> HIDE DEF h
  <2> QED BY <2>4, <2>5
<1>3. Nat \subseteq S
  <2> HIDE DEF Upto
  <2>1. 0 \in S
    BY <1>1
  <2>2. \A n \in Nat : n \in S => n + 1 \in S
    BY <1>2, LenProperties
  <2> HIDE DEF S
  <2> QED BY <2>1, <2>2, Induction
<1>4. Upto(Len(s))
  <2> HIDE DEF Upto
  <2> QED BY <1>3, LenProperties
<1> QED BY <1>4

\* The recursive definition of Sums has a solution, so it is one.
LEMMA SumsUnfold ==
  ASSUME NEW s, NEW g, g = [k \in 0..Len(s) |-> IF k = 0 THEN 0 ELSE g[k - 1] + s[k]]
  PROVE  Sums(s) = [k \in 0..Len(s) |-> IF k = 0 THEN 0 ELSE Sums(s)[k - 1] + s[k]]
BY Zenon DEF Sums

\* What the sums of a sequence are.
LEMMA SumsAre ==
  ASSUME NEW s \in Seq(Nat)
  PROVE  /\ Sums(s) \in [0..Len(s) -> Nat]
         /\ Sums(s)[0] = 0
         /\ \A k \in 1..Len(s) : Sums(s)[k] = Sums(s)[k - 1] + s[k]
<1>0. Len(s) \in Nat /\ \A k \in 1..Len(s) : s[k] \in Nat
  BY LenProperties, ElementOfSeq
<1>1. PICK g \in [0..Len(s) -> Nat] : g[0] = 0 /\ \A k \in 1..Len(s) : g[k] = g[k - 1] + s[k]
  BY SumsExist
<1>2. g = [k \in 0..Len(s) |-> IF k = 0 THEN 0 ELSE g[k - 1] + s[k]]
  BY <1>0, <1>1
<1>3. Sums(s) = [k \in 0..Len(s) |-> IF k = 0 THEN 0 ELSE Sums(s)[k - 1] + s[k]]
  BY <1>2, SumsUnfold
<1>4. /\ Sums(s)[0] = 0
      /\ \A k \in 1..Len(s) : Sums(s)[k] = Sums(s)[k - 1] + s[k]
  BY <1>0, <1>3
<1> DEFINE S == {n \in Nat : n <= Len(s) => Sums(s)[n] \in Nat}
<1>5. 0 \in S
  BY <1>4
<1>6. ASSUME NEW n \in Nat, n \in S PROVE n + 1 \in S
  <2>1. SUFFICES ASSUME n + 1 <= Len(s) PROVE Sums(s)[n + 1] \in Nat
    OBVIOUS
  <2>2. n + 1 \in 1..Len(s) /\ (n + 1) - 1 = n
    BY <1>0, <2>1
  <2>3. Sums(s)[n + 1] = Sums(s)[n] + s[n + 1] /\ s[n + 1] \in Nat
    BY <1>0, <1>4, <2>2
  <2> QED BY <1>0, <1>6, <2>1, <2>3
<1>7. Nat \subseteq S
  <2> HIDE DEF S
  <2> QED BY <1>5, <1>6, Induction
<1>8. \A k \in 0..Len(s) : Sums(s)[k] \in Nat
  BY <1>0, <1>7
<1> QED BY <1>3, <1>4, <1>8

\* Sums do not become smaller.
LEMMA SumsGrow ==
  ASSUME NEW s \in Seq(Nat), NEW i \in 0..Len(s), NEW j \in i..Len(s)
  PROVE  Sums(s)[i] <= Sums(s)[j]
<1>0. Len(s) \in Nat /\ \A k \in 1..Len(s) : s[k] \in Nat
  BY LenProperties, ElementOfSeq
<1>00. i \in Nat /\ i + 0 = i /\ Sums(s)[i] \in Nat
  <2>1. Sums(s) \in [0..Len(s) -> Nat]
    BY SumsAre
  <2>2. i \in 0..Len(s)
    OBVIOUS
  <2> QED BY <1>0, <2>1, <2>2
<1> DEFINE S == {n \in Nat : i + n <= Len(s) => Sums(s)[i] <= Sums(s)[i + n]}
<1>1. 0 \in S
  BY <1>00
<1>2. ASSUME NEW n \in Nat, n \in S PROVE n + 1 \in S
  <2>1. SUFFICES ASSUME i + n + 1 <= Len(s) PROVE Sums(s)[i] <= Sums(s)[i + n + 1]
    OBVIOUS
  <2>2. /\ i + n \in 0..Len(s) /\ i + n + 1 \in 1..Len(s) /\ (i + n + 1) - 1 = i + n
    BY <1>0, <2>1
  <2>3. Sums(s)[i + n + 1] = Sums(s)[i + n] + s[i + n + 1]
    BY <2>2, SumsAre
  <2>4. Sums(s)[i] \in Nat /\ Sums(s)[i + n] \in Nat /\ s[i + n + 1] \in Nat
    BY <1>0, <2>2, SumsAre
  <2> QED BY <1>2, <2>2, <2>3, <2>4
<1>3. Nat \subseteq S
  <2> HIDE DEF S
  <2> QED BY <1>1, <1>2, Induction
<1>4. j - i \in Nat /\ i + (j - i) = j /\ j <= Len(s)
  BY <1>0
<1>5. j - i \in S
  BY <1>3, <1>4
<1> QED BY <1>4, <1>5

\* The sums of the joined sequence: those of the first, and those of the second on top.
LEMMA SumsOfConcat ==
  ASSUME NEW s \in Seq(Nat), NEW t \in Seq(Nat)
  PROVE  /\ \A k \in 0..Len(s) : Sums(s \o t)[k] = Sums(s)[k]
         /\ \A k \in 0..Len(t) : Sums(s \o t)[Len(s) + k] = Sums(s)[Len(s)] + Sums(t)[k]
<1>0. /\ Len(s) \in Nat /\ Len(t) \in Nat
      /\ s \o t \in Seq(Nat) /\ Len(s \o t) = Len(s) + Len(t)
      /\ \A k \in 1..Len(s) : (s \o t)[k] = s[k]
      /\ \A k \in 1..Len(t) : (s \o t)[Len(s) + k] = t[k]
  BY LenProperties, ConcatProperties
<1> DEFINE S == {n \in Nat : n <= Len(s) => Sums(s \o t)[n] = Sums(s)[n]}
           T == {n \in Nat : n <= Len(t) => Sums(s \o t)[Len(s) + n] = Sums(s)[Len(s)] + Sums(t)[n]}
<1>1. 0 \in S
  BY <1>0, SumsAre
<1>2. ASSUME NEW n \in Nat, n \in S PROVE n + 1 \in S
  <2>1. SUFFICES ASSUME n + 1 <= Len(s) PROVE Sums(s \o t)[n + 1] = Sums(s)[n + 1]
    OBVIOUS
  <2>2. n + 1 \in 1..Len(s) /\ n + 1 \in 1..Len(s \o t) /\ (n + 1) - 1 = n
    BY <1>0, <2>1
  <2>3. Sums(s)[n + 1] = Sums(s)[n] + s[n + 1]
    BY <2>2, SumsAre
  <2>4. Sums(s \o t)[n + 1] = Sums(s \o t)[n] + (s \o t)[n + 1]
    BY <1>0, <2>2, SumsAre
  <2> QED BY <1>0, <1>2, <2>1, <2>2, <2>3, <2>4
<1>3. Nat \subseteq S
  <2> HIDE DEF S
  <2> QED BY <1>1, <1>2, Induction
<1>4. \A k \in 0..Len(s) : Sums(s \o t)[k] = Sums(s)[k]
  BY <1>0, <1>3
<1>5. 0 \in T
  <2>1. Sums(t)[0] = 0 /\ Sums(s)[Len(s)] \in Nat
    BY <1>0, SumsAre
  <2> QED BY <1>0, <1>4, <2>1
<1>6. ASSUME NEW n \in Nat, n \in T PROVE n + 1 \in T
  <2>1. SUFFICES ASSUME n + 1 <= Len(t)
                 PROVE Sums(s \o t)[Len(s) + (n + 1)] = Sums(s)[Len(s)] + Sums(t)[n + 1]
    OBVIOUS
  <2>2. /\ n + 1 \in 1..Len(t) /\ Len(s) + (n + 1) \in 1..Len(s \o t)
        /\ (n + 1) - 1 = n /\ (Len(s) + (n + 1)) - 1 = Len(s) + n
    BY <1>0, <2>1
  <2>3. Sums(t)[n + 1] = Sums(t)[n] + t[n + 1]
    BY <2>2, SumsAre
  <2>4. Sums(s \o t)[Len(s) + (n + 1)] = Sums(s \o t)[Len(s) + n] + (s \o t)[Len(s) + (n + 1)]
    BY <1>0, <2>2, SumsAre
  <2>5. Sums(t)[n] \in Nat /\ t[n + 1] \in Nat /\ Sums(s)[Len(s)] \in Nat
    <3>1. n \in 0..Len(t) /\ Len(s) \in 0..Len(s)
      BY <1>0, <2>2
    <3> QED BY <2>2, <3>1, SumsAre, ElementOfSeq
  <2> QED BY <1>0, <1>6, <2>1, <2>2, <2>3, <2>4, <2>5
<1>7. Nat \subseteq T
  <2> HIDE DEF T
  <2> QED BY <1>5, <1>6, Induction
<1> QED BY <1>0, <1>4, <1>7

\* There is a function of the first n sequences, joined.
LEMMA JoinsExist ==
  ASSUME NEW S, NEW s \in Seq(Seq(S))
  PROVE  \E g \in [0..Len(s) -> Seq(S)] :
           g[0] = <<>> /\ \A k \in 1..Len(s) : g[k] = g[k - 1] \o s[k]
<1> DEFINE Upto(n) == \E g \in [0..n -> Seq(S)] : g[0] = <<>> /\ \A k \in 1..n : g[k] = g[k - 1] \o s[k]
           T == {n \in Nat : n <= Len(s) => Upto(n)}
<1>1. Upto(0)
  <2>0. <<>> \in Seq(S)
    OBVIOUS
  <2>1. [k \in 0..0 |-> <<>>] \in [0..0 -> Seq(S)] /\ [k \in 0..0 |-> <<>>][0] = <<>> /\ 1..0 = {}
    BY <2>0
  <2> QED BY <2>1
<1>2. ASSUME NEW n \in Nat, n + 1 <= Len(s), Upto(n) PROVE Upto(n + 1)
  <2>2. PICK g \in [0..n -> Seq(S)] : g[0] = <<>> /\ \A k \in 1..n : g[k] = g[k - 1] \o s[k]
    BY <1>2
  <2>3. s[n + 1] \in Seq(S)
    BY <1>2, LenProperties, ElementOfSeq
  <2> DEFINE next == g[n] \o s[n + 1]
             h == [k \in 0..n + 1 |-> IF k = n + 1 THEN next ELSE g[k]]
  <2>4. next \in Seq(S)
    BY <2>2, <2>3, ConcatProperties
  <2>5. h \in [0..n + 1 -> Seq(S)]
    <3> HIDE DEF next
    <3> QED BY <2>2, <2>4
  <2>6. h[0] = <<>> /\ h[n + 1] = next /\ \A k \in 0..n : h[k] = g[k]
    <3> HIDE DEF next
    <3> QED BY <2>2
  <2>7. \A k \in 1..n + 1 : h[k] = h[k - 1] \o s[k]
    <3> SUFFICES ASSUME NEW k \in 1..n + 1 PROVE h[k] = h[k - 1] \o s[k]
      OBVIOUS
    <3> HIDE DEF h
    <3>1. CASE k = n + 1
      <4>1. k - 1 = n /\ n \in 0..n
        BY <3>1
      <4>2. h[k] = g[n] \o s[k]
        BY <2>6, <3>1
      <4>3. h[k - 1] = g[n]
        BY <2>6, <4>1
      <4> QED BY <4>2, <4>3
    <3>2. CASE k \in 1..n
      <4>1. k - 1 \in 0..n /\ k \in 0..n
        BY <3>2
      <4>2. h[k] = g[k] /\ h[k - 1] = g[k - 1]
        BY <2>6, <4>1
      <4>3. g[k] = g[k - 1] \o s[k]
        BY <2>2, <3>2
      <4> QED BY <4>2, <4>3
    <3>3. k = n + 1 \/ k \in 1..n
      OBVIOUS
    <3> QED BY <3>1, <3>2, <3>3
  <2> HIDE DEF h
  <2> QED BY <2>5, <2>6, <2>7
<1>3. Nat \subseteq T
  <2> HIDE DEF Upto
  <2>1. 0 \in T
    BY <1>1
  <2>2. \A n \in Nat : n \in T => n + 1 \in T
    BY <1>2, LenProperties
  <2> HIDE DEF T
  <2> QED BY <2>1, <2>2, Induction
<1>4. Upto(Len(s))
  <2> HIDE DEF Upto
  <2> QED BY <1>3, LenProperties
<1> QED BY <1>4

\* FlattenSeq is what its recursive function, which exists, comes to.
LEMMA FlattenUnfold ==
  ASSUME NEW s, Len(s) # 0, NEW g,
         g = [i \in 1..Len(s) |-> IF i = 1 THEN s[i] ELSE g[i - 1] \o s[i]]
  PROVE  \E f : /\ f = [i \in 1..Len(s) |-> IF i = 1 THEN s[i] ELSE f[i - 1] \o s[i]]
                /\ FlattenSeq(s) = f[Len(s)]
BY Zenon DEF FlattenSeq

\* The joined sequence is the last of those that join the first k.
LEMMA FlattenIs ==
  ASSUME NEW S, NEW s \in Seq(Seq(S))
  PROVE  \E f \in [0..Len(s) -> Seq(S)] :
           /\ f[0] = <<>>
           /\ \A k \in 1..Len(s) : f[k] = f[k - 1] \o s[k]
           /\ FlattenSeq(s) = f[Len(s)]
<1>0. Len(s) \in Nat /\ \A k \in 1..Len(s) : s[k] \in Seq(S)
  BY LenProperties, ElementOfSeq
<1>1. PICK g \in [0..Len(s) -> Seq(S)] :
        g[0] = <<>> /\ \A k \in 1..Len(s) : g[k] = g[k - 1] \o s[k]
  BY JoinsExist
<1>2. CASE Len(s) = 0
  <2>1. s = <<>> /\ FlattenSeq(s) = s
    BY <1>2, EmptySeq DEF FlattenSeq
  <2> QED BY <1>1, <1>2, <2>1
<1>3. CASE Len(s) # 0
  <2> DEFINE h == [k \in 1..Len(s) |-> g[k]]
  <2>1. g[1] = s[1]
    <3>1. 1 \in 1..Len(s) /\ s[1] \in Seq(S)
      BY <1>0, <1>3
    <3>2. g[1] = g[1 - 1] \o s[1]
      BY <1>1, <3>1, Zenon
    <3>3. g[1 - 1] = <<>>
      BY <1>1
    <3>4. g[1] = <<>> \o s[1]
      BY <3>2, <3>3
    <3> QED BY <3>1, <3>4, ConcatEmptySeq
  <2>2. h = [i \in 1..Len(s) |-> IF i = 1 THEN s[i] ELSE h[i - 1] \o s[i]]
    <3>1. ASSUME NEW i \in 1..Len(s) PROVE g[i] = IF i = 1 THEN s[i] ELSE h[i - 1] \o s[i]
      <4>1. g[i] = g[i - 1] \o s[i]
        BY <1>1
      <4>2. i # 1 => h[i - 1] = g[i - 1]
        BY <1>0
      <4> HIDE DEF h
      <4> QED BY <2>1, <4>1, <4>2
    <3> QED BY <3>1
  <2>3. PICK f : /\ f = [i \in 1..Len(s) |-> IF i = 1 THEN s[i] ELSE f[i - 1] \o s[i]]
                 /\ FlattenSeq(s) = f[Len(s)]
    <3> HIDE DEF h
    <3> QED BY <1>3, <2>2, FlattenUnfold
  <2>4. f[1] = s[1] /\ \A i \in 1..Len(s) : i # 1 => f[i] = f[i - 1] \o s[i]
    <3>1. \A i \in 1..Len(s) : f[i] = IF i = 1 THEN s[i] ELSE f[i - 1] \o s[i]
      BY <2>3, Zenon
    <3>2. 1 \in 1..Len(s)
      BY <1>0, <1>3
    <3> QED BY <3>1, <3>2, Zenon
  <2> DEFINE T == {n \in Nat : n + 1 <= Len(s) => f[n + 1] = g[n + 1]}
  <2>5. 0 \in T
    BY <2>1, <2>4
  <2>6. ASSUME NEW n \in Nat, n \in T PROVE n + 1 \in T
    <3>1. SUFFICES ASSUME (n + 1) + 1 <= Len(s) PROVE f[(n + 1) + 1] = g[(n + 1) + 1]
      OBVIOUS
    <3>2. (n + 1) + 1 \in 1..Len(s) /\ (n + 1) + 1 # 1 /\ ((n + 1) + 1) - 1 = n + 1 /\ n + 1 <= Len(s)
      BY <1>0, <3>1
    <3>3. f[(n + 1) + 1] = f[n + 1] \o s[(n + 1) + 1]
      BY <2>4, <3>2
    <3>4. g[(n + 1) + 1] = g[n + 1] \o s[(n + 1) + 1]
      BY <1>1, <3>2
    <3> QED BY <2>6, <3>2, <3>3, <3>4
  <2>7. Nat \subseteq T
    <3> HIDE DEF T
    <3> QED BY <2>5, <2>6, Induction
  <2>8. Len(s) - 1 \in Nat /\ (Len(s) - 1) + 1 = Len(s)
    BY <1>0, <1>3
  <2>9. f[Len(s)] = g[Len(s)]
    <3>1. Len(s) - 1 \in T
      BY <2>7, <2>8
    <3> QED BY <1>0, <2>8, <3>1
  <2> QED BY <1>1, <2>3, <2>9
<1> QED BY <1>2, <1>3

\* How long each of the sequences is.
Lengths(s) == [i \in DOMAIN s |-> Len(s[i])]

\* There are as many of them as sequences.
LEMMA LengthsAre ==
  ASSUME NEW S, NEW s \in Seq(Seq(S))
  PROVE  /\ Lengths(s) \in Seq(Nat) /\ Len(Lengths(s)) = Len(s)
         /\ \A i \in 1..Len(s) : Lengths(s)[i] = Len(s[i]) /\ Len(s[i]) \in Nat /\ s[i] \in Seq(S)
<1>1. Len(s) \in Nat /\ DOMAIN s = 1..Len(s)
  BY LenProperties
<1>2. \A i \in 1..Len(s) : s[i] \in Seq(S) /\ Len(s[i]) \in Nat
  BY ElementOfSeq, LenProperties
<1> QED BY <1>1, <1>2 DEF Lengths

\* ConcatProperties, one sequence at a time.
LEMMA ConcatParts ==
  ASSUME NEW S, NEW s \in Seq(S), NEW t \in Seq(S)
  PROVE  /\ Len(s) \in Nat /\ Len(t) \in Nat
         /\ s \o t \in Seq(S) /\ Len(s \o t) = Len(s) + Len(t)
         /\ \A p \in 1..Len(s) : (s \o t)[p] = s[p]
         /\ \A p \in 1..Len(t) : (s \o t)[Len(s) + p] = t[p]
BY LenProperties, ConcatProperties

\* Where the elements of each sequence are in the joined one.
LEMMA FlattenIndex ==
  ASSUME NEW S, NEW s \in Seq(Seq(S))
  PROVE  /\ FlattenSeq(s) \in Seq(S)
         /\ Len(FlattenSeq(s)) = Sums(Lengths(s))[Len(s)]
         /\ \A i \in 1..Len(s) : \A j \in 1..Len(s[i]) :
              FlattenSeq(s)[Sums(Lengths(s))[i - 1] + j] = s[i][j]
<1> DEFINE ends == Sums(Lengths(s))
<1>0. /\ Len(s) \in Nat
      /\ \A i \in 1..Len(s) : Len(s[i]) \in Nat /\ s[i] \in Seq(S)
      /\ ends \in [0..Len(s) -> Nat] /\ ends[0] = 0
      /\ \A k \in 1..Len(s) : ends[k] = ends[k - 1] + Len(s[k])
      /\ \A i \in 0..Len(s) : \A j \in i..Len(s) : ends[i] <= ends[j]
  BY LenProperties, LengthsAre, SumsAre, SumsGrow
<1>1. PICK f \in [0..Len(s) -> Seq(S)] :
           /\ f[0] = <<>>
           /\ \A k \in 1..Len(s) : f[k] = f[k - 1] \o s[k]
           /\ FlattenSeq(s) = f[Len(s)]
  BY FlattenIs
<1> DEFINE Right(n) == /\ Len(f[n]) = ends[n]
                       /\ \A i \in 1..n : \A j \in 1..Len(s[i]) : f[n][ends[i - 1] + j] = s[i][j]
           T == {n \in Nat : n <= Len(s) => Right(n)}
<1> HIDE DEF ends
<1>2. Right(0)
  BY <1>0, <1>1
<1>3. ASSUME NEW n \in Nat, n + 1 <= Len(s), Right(n) PROVE Right(n + 1)
  <2>1. n \in 0..Len(s) /\ n + 1 \in 1..Len(s) /\ (n + 1) - 1 = n
    BY <1>0, <1>3
  <2>2. /\ s[n + 1] \in Seq(S) /\ Len(s[n + 1]) \in Nat
        /\ ends[n] \in Nat /\ ends[n + 1] = ends[n] + Len(s[n + 1])
    BY <1>0, <2>1
  <2>3. f[n] \in Seq(S) /\ Len(f[n]) = ends[n] /\ f[n + 1] = f[n] \o s[n + 1]
    BY <1>1, <1>3, <2>1
  <2>4. /\ Len(f[n + 1]) = ends[n + 1]
        /\ \A p \in 1..ends[n] : f[n + 1][p] = f[n][p]
        /\ \A j \in 1..Len(s[n + 1]) : f[n + 1][ends[n] + j] = s[n + 1][j]
    <3> DEFINE a == f[n]
               b == s[n + 1]
    <3>1. /\ Len(a \o b) = Len(a) + Len(b)
          /\ \A p \in 1..Len(a) : (a \o b)[p] = a[p]
          /\ \A p \in 1..Len(b) : (a \o b)[Len(a) + p] = b[p]
      <4>1. a \in Seq(S) /\ b \in Seq(S)
        BY <2>2, <2>3
      <4> HIDE DEF a, b
      <4> QED BY <4>1, ConcatParts
    <3>2. f[n + 1] = a \o b /\ Len(a) = ends[n]
      BY <2>3
    <3> QED BY <2>2, <3>1, <3>2
  <2>5. ASSUME NEW i \in 1..n + 1, NEW j \in 1..Len(s[i]) PROVE f[n + 1][ends[i - 1] + j] = s[i][j]
    <3>1. CASE i = n + 1
      BY <2>1, <2>4, <3>1
    <3>2. CASE i \in 1..n
      <4>1. i \in 1..Len(s) /\ i - 1 \in 0..Len(s) /\ i \in 0..Len(s) /\ n \in i..Len(s)
        BY <1>0, <2>1, <3>2
      <4>2. /\ ends[i - 1] \in Nat /\ Len(s[i]) \in Nat
            /\ ends[i] = ends[i - 1] + Len(s[i]) /\ ends[i] <= ends[n]
        BY <1>0, <4>1
      <4>3. ends[i - 1] + j \in 1..ends[n]
        <5>1. j \in Nat /\ 1 <= j /\ j <= Len(s[i])
          BY <4>2
        <5> DEFINE e == ends[i - 1]
                   l == Len(s[i])
                   total == ends[n]
        <5>2. e \in Nat /\ l \in Nat /\ total \in Nat /\ e + l <= total /\ j <= l
          BY <2>2, <4>2, <5>1
        <5> HIDE DEF e, l, total
        <5>3. e + j \in 1..total
          BY <5>1, <5>2
        <5> QED BY <5>3 DEF e, total
      <4>4. f[n][ends[i - 1] + j] = s[i][j]
        BY <1>3, <3>2
      <4> QED BY <2>4, <4>3, <4>4
    <3>3. i = n + 1 \/ i \in 1..n
      OBVIOUS
    <3> QED BY <3>1, <3>2, <3>3
  <2> QED BY <2>4, <2>5
<1>4. Nat \subseteq T
  <2> HIDE DEF Right
  <2>1. 0 \in T
    BY <1>2
  <2>2. \A n \in Nat : n \in T => n + 1 \in T
    BY <1>0, <1>3
  <2> HIDE DEF T
  <2> QED BY <2>1, <2>2, Induction
<1>5. Right(Len(s)) /\ f[Len(s)] \in Seq(S)
  <2> HIDE DEF Right
  <2> QED BY <1>0, <1>1, <1>4
<1> QED BY <1>1, <1>5 DEF ends

\* Joining one sequence changes nothing.
LEMMA FlattenOne ==
  ASSUME NEW S, NEW x \in Seq(S)
  PROVE  FlattenSeq(<<x>>) = x
<1>1. <<x>> \in Seq(Seq(S)) /\ Len(<<x>>) = 1 /\ <<x>>[1] = x
  OBVIOUS
<1>2. PICK f \in [0..1 -> Seq(S)] : /\ f[0] = <<>>
                                    /\ \A k \in 1..1 : f[k] = f[k - 1] \o <<x>>[k]
                                    /\ FlattenSeq(<<x>>) = f[1]
  BY <1>1, FlattenIs
<1>3. f[1] = <<>> \o x
  BY <1>1, <1>2
<1> QED BY <1>2, <1>3, ConcatEmptySeq

\* Every element of the sequences is in the joined one.
LEMMA FlattenHas ==
  ASSUME NEW S, NEW s \in Seq(Seq(S)), NEW i \in 1..Len(s), NEW j \in 1..Len(s[i])
  PROVE  \E k \in 1..Len(FlattenSeq(s)) : FlattenSeq(s)[k] = s[i][j]
<1>1. /\ Len(FlattenSeq(s)) = Sums(Lengths(s))[Len(s)]
      /\ FlattenSeq(s)[Sums(Lengths(s))[i - 1] + j] = s[i][j]
  BY FlattenIndex
<1>2. /\ Lengths(s) \in Seq(Nat) /\ Len(Lengths(s)) = Len(s)
      /\ Lengths(s)[i] = Len(s[i]) /\ Len(s[i]) \in Nat
  BY LengthsAre
<1>3. Len(s) \in Nat
  BY LenProperties
<1> DEFINE l == Lengths(s)
           g == Sums(l)
           e == g[i - 1]
           n == Len(s[i])
           total == g[Len(s)]
<1>4. l \in Seq(Nat) /\ Len(l) = Len(s)
  BY <1>2
<1> HIDE DEF l
<1>5. g \in [0..Len(s) -> Nat] /\ g[i] = e + l[i]
  BY <1>4, SumsAre
<1>6. g[i] <= g[Len(s)]
  <2>1. i \in 0..Len(l) /\ Len(s) \in i..Len(l)
    BY <1>3, <1>4
  <2> QED BY <1>4, <2>1, SumsGrow
<1>7. e \in Nat /\ n \in Nat /\ total \in Nat /\ l[i] = n
  <2>1. i - 1 \in 0..Len(s) /\ Len(s) \in 0..Len(s)
    BY <1>3
  <2> QED BY <1>2, <1>5, <2>1 DEF l
<1>8. e + n <= total /\ j \in 1..n
  BY <1>5, <1>6, <1>7
<1> HIDE DEF e, n, total
<1>9. e + j \in 1..total
  BY <1>7, <1>8
<1> QED BY <1>1, <1>9 DEF e, total, g, l

-----------------------------------------------------------------------------
(* Subsample maps *)

\* The numbers of bytes of a map's entries.
Sizes(m) == [k \in DOMAIN m |-> m[k].clear + m[k].encrypted]
DataSizes(m) == [k \in DOMAIN m |-> m[k].encrypted]

\* A subsample map is a sequence of pairs of numbers, and so are the lists of its sizes.
LEMMA EntriesAre ==
  ASSUME NEW m \in Seq(Entries)
  PROVE  /\ Len(m) \in Nat /\ DOMAIN m = 1..Len(m)
         /\ \A k \in 1..Len(m) : m[k].clear \in Nat /\ m[k].encrypted \in Nat
         /\ Sizes(m) \in Seq(Nat) /\ Len(Sizes(m)) = Len(m)
         /\ DataSizes(m) \in Seq(Nat) /\ Len(DataSizes(m)) = Len(m)
<1>1. Len(m) \in Nat /\ DOMAIN m = 1..Len(m) /\ \A k \in 1..Len(m) : m[k] \in Entries
  BY LenProperties, ElementOfSeq
<1>2. \A k \in 1..Len(m) : m[k].clear \in Nat /\ m[k].encrypted \in Nat
  BY <1>1 DEF Entries
<1>3. \A k \in 1..Len(m) : m[k].clear + m[k].encrypted \in Nat
  BY <1>2
<1>4. Sizes(m) \in Seq(Nat) /\ Len(Sizes(m)) = Len(m)
  BY <1>1, <1>3 DEF Sizes
<1>5. DataSizes(m) \in Seq(Nat) /\ Len(DataSizes(m)) = Len(m)
  BY <1>1, <1>2 DEF DataSizes
<1> QED BY <1>1, <1>2, <1>4, <1>5

\* Where the entries of a map begin and end.
LEMMA EndsAre ==
  ASSUME NEW m \in Seq(Entries)
  PROVE  /\ Ends(m) \in [0..Len(m) -> Nat] /\ Ends(m)[0] = 0
         /\ Bytes(m) \in Nat /\ Bytes(m) = Ends(m)[Len(m)]
         /\ \A k \in 1..Len(m) :
              /\ Ends(m)[k - 1] \in Nat /\ Ends(m)[k] \in Nat
              /\ Before(m, k) \in Nat /\ Before(m, k) = Ends(m)[k - 1] + m[k].clear
              /\ Ends(m)[k] = Before(m, k) + m[k].encrypted
              /\ Ends(m)[k] <= Bytes(m)
<1>0. Ends(m) = Sums(Sizes(m))
  BY DEF Ends, Sizes
<1>1. /\ Len(m) \in Nat /\ DOMAIN m = 1..Len(m)
      /\ \A k \in 1..Len(m) : m[k].clear \in Nat /\ m[k].encrypted \in Nat
      /\ Sizes(m) \in Seq(Nat) /\ Len(Sizes(m)) = Len(m)
  BY EntriesAre
<1>2. /\ Ends(m) \in [0..Len(m) -> Nat] /\ Ends(m)[0] = 0
      /\ \A k \in 1..Len(m) : Ends(m)[k] = Ends(m)[k - 1] + Sizes(m)[k]
  BY <1>0, <1>1, SumsAre
<1>3. Len(m) \in 0..Len(m) /\ Bytes(m) \in Nat /\ Bytes(m) = Ends(m)[Len(m)]
  BY <1>1, <1>2 DEF Bytes
<1>4. ASSUME NEW k \in 1..Len(m)
      PROVE  /\ Ends(m)[k - 1] \in Nat /\ Ends(m)[k] \in Nat
             /\ Before(m, k) \in Nat /\ Before(m, k) = Ends(m)[k - 1] + m[k].clear
             /\ Ends(m)[k] = Before(m, k) + m[k].encrypted
             /\ Ends(m)[k] <= Bytes(m)
  <2>1. k \in 0..Len(m) /\ k - 1 \in 0..Len(m) /\ Len(m) \in k..Len(m)
    BY <1>1
  <2>2. Ends(m)[k - 1] \in Nat /\ Ends(m)[k] \in Nat
    BY <1>2, <2>1
  <2>3. m[k].clear \in Nat /\ m[k].encrypted \in Nat /\ Sizes(m)[k] = m[k].clear + m[k].encrypted
    BY <1>1 DEF Sizes
  <2>4. Ends(m)[k] = Ends(m)[k - 1] + Sizes(m)[k]
    BY <1>2
  <2>5. Ends(m)[k] <= Bytes(m)
    BY <1>0, <1>1, <1>3, <2>1, SumsGrow
  <2>6. Before(m, k) = Ends(m)[k - 1] + m[k].clear
    BY DEF Before
  <2> QED BY <2>2, <2>3, <2>4, <2>5, <2>6
<1> QED BY <1>2, <1>3, <1>4

\* Where their encrypted bytes are in the data that is collected.
LEMMA DataEndsAre ==
  ASSUME NEW m \in Seq(Entries)
  PROVE  /\ DataEnds(m) = Sums(DataSizes(m))
         /\ DataEnds(m) \in [0..Len(m) -> Nat] /\ DataEnds(m)[0] = 0
         /\ EncryptedBytes(m) \in Nat /\ EncryptedBytes(m) = DataEnds(m)[Len(m)]
         /\ \A k \in 1..Len(m) :
              /\ DataEnds(m)[k - 1] \in Nat
              /\ DataEnds(m)[k] = DataEnds(m)[k - 1] + m[k].encrypted
              /\ DataEnds(m)[k] <= EncryptedBytes(m)
<1>0. DataEnds(m) = Sums(DataSizes(m))
  BY DEF DataEnds, DataSizes
<1>1. /\ Len(m) \in Nat /\ DOMAIN m = 1..Len(m)
      /\ DataSizes(m) \in Seq(Nat) /\ Len(DataSizes(m)) = Len(m)
  BY EntriesAre
<1>2. /\ DataEnds(m) \in [0..Len(m) -> Nat] /\ DataEnds(m)[0] = 0
      /\ \A k \in 1..Len(m) : DataEnds(m)[k] = DataEnds(m)[k - 1] + DataSizes(m)[k]
  BY <1>0, <1>1, SumsAre
<1>3. Len(m) \in 0..Len(m) /\ EncryptedBytes(m) \in Nat /\ EncryptedBytes(m) = DataEnds(m)[Len(m)]
  BY <1>1, <1>2 DEF EncryptedBytes
<1>4. ASSUME NEW k \in 1..Len(m)
      PROVE  /\ DataEnds(m)[k - 1] \in Nat
             /\ DataEnds(m)[k] = DataEnds(m)[k - 1] + m[k].encrypted
             /\ DataEnds(m)[k] <= EncryptedBytes(m)
  <2>1. k \in 0..Len(m) /\ k - 1 \in 0..Len(m) /\ Len(m) \in k..Len(m)
    BY <1>1
  <2>2. DataEnds(m)[k - 1] \in Nat
    BY <1>2, <2>1
  <2>3. DataSizes(m)[k] = m[k].encrypted
    BY <1>1 DEF DataSizes
  <2>4. DataEnds(m)[k] = DataEnds(m)[k - 1] + DataSizes(m)[k]
    BY <1>2
  <2>5. DataEnds(m)[k] <= EncryptedBytes(m)
    BY <1>0, <1>1, <1>3, <2>1, SumsGrow
  <2> QED BY <2>2, <2>3, <2>4, <2>5
<1> QED BY <1>0, <1>2, <1>3, <1>4

\* A map's encrypted bytes are the map's.
LEMMA EncryptedAre ==
  ASSUME NEW m \in Seq(Entries)
  PROVE  /\ \A p : p \in Encrypted(m) <=>
                     \E k \in 1..Len(m) : p \in (Before(m, k) + 1)..(Before(m, k) + m[k].encrypted)
         /\ Encrypted(m) \subseteq 1..Bytes(m)
<1>1. DOMAIN m = 1..Len(m)
  BY EntriesAre
<1>2. \A p : p \in Encrypted(m) <=>
               \E k \in 1..Len(m) : p \in (Before(m, k) + 1)..(Before(m, k) + m[k].encrypted)
  BY <1>1 DEF Encrypted
<1>3. ASSUME NEW k \in 1..Len(m), NEW p \in (Before(m, k) + 1)..(Before(m, k) + m[k].encrypted)
      PROVE  p \in 1..Bytes(m)
  <2>1. /\ Before(m, k) \in Nat /\ Bytes(m) \in Nat /\ m[k].encrypted \in Nat
        /\ Before(m, k) + m[k].encrypted <= Bytes(m)
    BY EndsAre, EntriesAre
  <2> QED BY <2>1
<1> QED BY <1>2, <1>3

\* The map of joined frames is the maps of the frames, one after the other, each
\* shifted by the bytes of those before it.
LEMMA ConcatMap ==
  ASSUME NEW m \in Seq(Entries), NEW n \in Seq(Entries)
  PROVE  /\ m \o n \in Seq(Entries)
         /\ Bytes(m \o n) = Bytes(m) + Bytes(n)
         /\ Encrypted(m \o n) = Encrypted(m) \cup {Bytes(m) + p : p \in Encrypted(n)}
<1> DEFINE j == m \o n
<1>1. /\ Len(m) \in Nat /\ Len(n) \in Nat
      /\ j \in Seq(Entries) /\ Len(j) = Len(m) + Len(n)
      /\ \A k \in 1..Len(m) : j[k] = m[k]
      /\ \A k \in 1..Len(n) : j[Len(m) + k] = n[k]
  BY ConcatParts
<1>2. Sizes(j) = Sizes(m) \o Sizes(n)
  <2>1. /\ Sizes(m) \in Seq(Nat) /\ Len(Sizes(m)) = Len(m)
        /\ Sizes(n) \in Seq(Nat) /\ Len(Sizes(n)) = Len(n)
        /\ Sizes(j) \in Seq(Nat) /\ Len(Sizes(j)) = Len(j)
        /\ DOMAIN m = 1..Len(m) /\ DOMAIN n = 1..Len(n) /\ DOMAIN j = 1..Len(j)
    BY <1>1, EntriesAre
  <2>2. /\ Sizes(m) \o Sizes(n) \in Seq(Nat) /\ Len(Sizes(m) \o Sizes(n)) = Len(m) + Len(n)
        /\ \A k \in 1..Len(m) : (Sizes(m) \o Sizes(n))[k] = Sizes(m)[k]
        /\ \A k \in 1..Len(n) : (Sizes(m) \o Sizes(n))[Len(m) + k] = Sizes(n)[k]
    <3> DEFINE a == Sizes(m)
               b == Sizes(n)
    <3>1. Len(a) = Len(m) /\ Len(b) = Len(n)
      BY <2>1
    <3>0. a \in Seq(Nat) /\ b \in Seq(Nat)
      BY <2>1
    <3> HIDE DEF a, b
    <3>2. /\ a \o b \in Seq(Nat) /\ Len(a \o b) = Len(a) + Len(b)
          /\ \A k \in 1..Len(a) : (a \o b)[k] = a[k]
          /\ \A k \in 1..Len(b) : (a \o b)[Len(a) + k] = b[k]
      BY <3>0, ConcatParts
    <3> QED BY <3>1, <3>2 DEF a, b
  <2>3. ASSUME NEW k \in 1..Len(j) PROVE Sizes(j)[k] = (Sizes(m) \o Sizes(n))[k]
    <3> HIDE DEF j
    <3>1. CASE k \in 1..Len(m)
      BY <1>1, <2>1, <2>2, <3>1 DEF Sizes
    <3>2. CASE k \notin 1..Len(m)
      <4>1. k - Len(m) \in 1..Len(n) /\ Len(m) + (k - Len(m)) = k
        BY <1>1, <3>2
      <4>2. j[k] = n[k - Len(m)]
        BY <1>1, <4>1
      <4>3. (Sizes(m) \o Sizes(n))[k] = Sizes(n)[k - Len(m)]
        BY <2>2, <4>1
      <4> QED BY <2>1, <4>1, <4>2, <4>3 DEF Sizes
    <3> QED BY <3>1, <3>2
  <2> HIDE DEF j
  <2> QED BY <1>1, <2>1, <2>2, <2>3, SeqEqual
<1>3. /\ \A k \in 0..Len(m) : Ends(j)[k] = Ends(m)[k]
      /\ \A k \in 0..Len(n) : Ends(j)[Len(m) + k] = Bytes(m) + Ends(n)[k]
  <2>1. Sizes(m) \in Seq(Nat) /\ Sizes(n) \in Seq(Nat) /\ Len(Sizes(m)) = Len(m) /\ Len(Sizes(n)) = Len(n)
    BY EntriesAre
  <2>2. Ends(j) = Sums(Sizes(m) \o Sizes(n)) /\ Ends(m) = Sums(Sizes(m)) /\ Ends(n) = Sums(Sizes(n))
    BY <1>2 DEF Ends, Sizes
  <2>3. Bytes(m) = Sums(Sizes(m))[Len(m)]
    BY <2>2 DEF Bytes
  <2> DEFINE a == Sizes(m)
             b == Sizes(n)
  <2> HIDE DEF j, a, b
  <2>4. /\ \A k \in 0..Len(a) : Sums(a \o b)[k] = Sums(a)[k]
        /\ \A k \in 0..Len(b) : Sums(a \o b)[Len(a) + k] = Sums(a)[Len(a)] + Sums(b)[k]
    BY <2>1, SumsOfConcat DEF a, b
  <2>5. /\ Ends(j) = Sums(a \o b) /\ Ends(m) = Sums(a) /\ Ends(n) = Sums(b)
        /\ Len(a) = Len(m) /\ Len(b) = Len(n) /\ Bytes(m) = Sums(a)[Len(m)]
    BY <2>1, <2>2, <2>3 DEF a, b
  <2> QED BY <2>4, <2>5
<1> HIDE DEF j
<1>4. Bytes(j) = Bytes(m) + Bytes(n)
  <2>1. Len(n) \in 0..Len(n)
    BY <1>1
  <2> QED BY <1>1, <1>3, <2>1 DEF Bytes
<1>5. ASSUME NEW k \in 1..Len(m) PROVE Before(j, k) = Before(m, k) /\ j[k] = m[k] /\ k \in 1..Len(j)
  <2>1. k - 1 \in 0..Len(m)
    BY <1>1
  <2> QED BY <1>1, <1>3, <2>1 DEF Before
<1>6. ASSUME NEW k \in 1..Len(n)
      PROVE  Before(j, Len(m) + k) = Bytes(m) + Before(n, k) /\ j[Len(m) + k] = n[k] /\ Len(m) + k \in 1..Len(j)
  <2>1. k - 1 \in 0..Len(n) /\ (Len(m) + k) - 1 = Len(m) + (k - 1)
    BY <1>1
  <2>2. Ends(j)[(Len(m) + k) - 1] = Bytes(m) + Ends(n)[k - 1] /\ j[Len(m) + k] = n[k]
    BY <1>1, <1>3, <2>1
  <2>3. Bytes(m) \in Nat /\ Ends(n)[k - 1] \in Nat /\ n[k].clear \in Nat
    BY EndsAre, EntriesAre
  <2>4. Before(n, k) = Ends(n)[k - 1] + n[k].clear
    BY DEF Before
  <2>5. Before(j, Len(m) + k) = Ends(j)[(Len(m) + k) - 1] + j[Len(m) + k].clear
    BY DEF Before
  <2> QED BY <1>1, <2>2, <2>3, <2>4, <2>5
<1>7. ASSUME NEW p \in Encrypted(j) PROVE p \in Encrypted(m) \cup {Bytes(m) + q : q \in Encrypted(n)}
  <2>1. PICK k \in 1..Len(j) : p \in (Before(j, k) + 1)..(Before(j, k) + j[k].encrypted)
    BY <1>1, EncryptedAre
  <2>2. CASE k \in 1..Len(m)
    BY <1>5, <2>1, <2>2, EncryptedAre
  <2>3. CASE k \notin 1..Len(m)
    <3> DEFINE i == k - Len(m)
    <3>1. i \in 1..Len(n) /\ Len(m) + i = k
      BY <1>1, <2>3
    <3> HIDE DEF i
    <3>2. /\ Bytes(m) \in Nat /\ Before(n, i) \in Nat /\ n[i].encrypted \in Nat
          /\ Before(j, k) = Bytes(m) + Before(n, i) /\ j[k] = n[i]
      BY <1>6, <3>1, EndsAre, EntriesAre
    <3>3. p - Bytes(m) \in (Before(n, i) + 1)..(Before(n, i) + n[i].encrypted) /\ Bytes(m) + (p - Bytes(m)) = p
      <4> DEFINE x == Bytes(m)
                 y == Before(n, i)
                 z == n[i].encrypted
      <4>1. x \in Nat /\ y \in Nat /\ z \in Nat /\ p \in (x + y + 1)..(x + y + z)
        BY <2>1, <3>2
      <4> HIDE DEF x, y, z
      <4>2. p - x \in (y + 1)..(y + z) /\ x + (p - x) = p
        BY <4>1
      <4> QED BY <4>2 DEF x, y, z
    <3>4. p - Bytes(m) \in Encrypted(n)
      BY <3>1, <3>3, EncryptedAre
    <3> QED BY <3>3, <3>4
  <2> QED BY <2>2, <2>3
<1>8. Encrypted(m) \subseteq Encrypted(j)
  BY <1>1, <1>5, EncryptedAre
<1>9. ASSUME NEW q \in Encrypted(n) PROVE Bytes(m) + q \in Encrypted(j)
  <2>1. PICK k \in 1..Len(n) : q \in (Before(n, k) + 1)..(Before(n, k) + n[k].encrypted)
    BY EncryptedAre
  <2>2. Bytes(m) \in Nat /\ Before(n, k) \in Nat /\ n[k].encrypted \in Nat
    BY EndsAre, EntriesAre
  <2>3. Bytes(m) + q \in (Before(j, Len(m) + k) + 1)..(Before(j, Len(m) + k) + j[Len(m) + k].encrypted)
    <3> DEFINE x == Bytes(m)
               y == Before(n, k)
               z == n[k].encrypted
    <3>1. x \in Nat /\ y \in Nat /\ z \in Nat /\ q \in (y + 1)..(y + z)
      BY <2>1, <2>2
    <3>2. Before(j, Len(m) + k) = x + y /\ j[Len(m) + k].encrypted = z
      BY <1>6
    <3> HIDE DEF x, y, z
    <3>3. x + q \in (x + y + 1)..(x + y + z)
      BY <3>1
    <3>4. x + q \in (Before(j, Len(m) + k) + 1)..(Before(j, Len(m) + k) + j[Len(m) + k].encrypted)
      BY <3>1, <3>2, <3>3
    <3> QED BY <3>4 DEF x
  <2> QED BY <1>1, <1>6, <2>3, EncryptedAre
<1>10. Encrypted(j) = Encrypted(m) \cup {Bytes(m) + p : p \in Encrypted(n)}
  BY <1>7, <1>8, <1>9
<1> QED BY <1>1, <1>4, <1>10 DEF j

\* What Decrypt makes of a frame, byte by byte.
LEMMA DecryptIs ==
  ASSUME NEW F \in Seq(Int), NEW m
  PROVE  /\ Decrypt(F, m) \in Seq(Int) /\ Len(Decrypt(F, m)) = Len(F)
         /\ \A p \in 1..Len(F) :
              /\ p \in Encrypted(m) => Decrypt(F, m)[p] = -F[p]
              /\ p \notin Encrypted(m) => Decrypt(F, m)[p] = F[p]
<1>1. Len(F) \in Nat /\ DOMAIN F = 1..Len(F) /\ \A p \in 1..Len(F) : F[p] \in Int
  BY LenProperties, ElementOfSeq
<1>2. Decrypt(F, m) = [p \in 1..Len(F) |-> IF p \in Encrypted(m) THEN -F[p] ELSE F[p]]
  BY <1>1 DEF Decrypt
<1>3. \A p \in 1..Len(F) : (IF p \in Encrypted(m) THEN -F[p] ELSE F[p]) \in Int
  BY <1>1
<1>4. Decrypt(F, m) \in Seq(Int) /\ Len(Decrypt(F, m)) = Len(F)
  BY <1>1, <1>2, <1>3
<1> QED BY <1>2, <1>4

\* A CDM that is given two blocks in one, and their maps in a row, decrypts each of
\* them with its own map, if the first map covers the first block.
LEMMA DecryptConcat ==
  ASSUME NEW F \in Seq(Int), NEW G \in Seq(Int), NEW m \in Seq(Entries), NEW n \in Seq(Entries)
  PROVE  Len(F) = Bytes(m) => Decrypt(F \o G, m \o n) = Decrypt(F, m) \o Decrypt(G, n)
<1>1. /\ Len(F) \in Nat /\ Len(G) \in Nat /\ F \o G \in Seq(Int) /\ Len(F \o G) = Len(F) + Len(G)
      /\ \A p \in 1..Len(F) : (F \o G)[p] = F[p]
      /\ \A p \in 1..Len(G) : (F \o G)[Len(F) + p] = G[p]
  BY ConcatParts
<1> HAVE Len(F) = Bytes(m)
<1> DEFINE J == F \o G
           D == Decrypt(J, m \o n)
           A == Decrypt(F, m)
           B == Decrypt(G, n)
<1>2. /\ D \in Seq(Int) /\ Len(D) = Len(F) + Len(G)
      /\ \A p \in 1..Len(F) + Len(G) :
           /\ p \in Encrypted(m \o n) => D[p] = -J[p]
           /\ p \notin Encrypted(m \o n) => D[p] = J[p]
  <2>1. J \in Seq(Int) /\ Len(J) = Len(F) + Len(G)
    BY <1>1
  <2> HIDE DEF J
  <2>2. /\ D \in Seq(Int) /\ Len(D) = Len(J)
        /\ \A p \in 1..Len(J) : /\ p \in Encrypted(m \o n) => D[p] = -J[p]
                                /\ p \notin Encrypted(m \o n) => D[p] = J[p]
    <3>1. J \in Seq(Int)
      BY <2>1
    <3> QED BY <3>1, DecryptIs
  <2> QED BY <2>1, <2>2
<1>3. /\ A \in Seq(Int) /\ Len(A) = Len(F)
      /\ \A p \in 1..Len(F) : /\ p \in Encrypted(m) => A[p] = -F[p]
                              /\ p \notin Encrypted(m) => A[p] = F[p]
  BY DecryptIs
<1>4. /\ B \in Seq(Int) /\ Len(B) = Len(G)
      /\ \A p \in 1..Len(G) : /\ p \in Encrypted(n) => B[p] = -G[p]
                              /\ p \notin Encrypted(n) => B[p] = G[p]
  BY DecryptIs
<1>5. /\ Encrypted(m \o n) = Encrypted(m) \cup {Len(F) + p : p \in Encrypted(n)}
      /\ Encrypted(m) \subseteq 1..Len(F) /\ Encrypted(n) \subseteq 1..Bytes(n) /\ Bytes(n) \in Nat
  BY ConcatMap, EncryptedAre, EndsAre
<1> HIDE DEF D, A, B
<1>6. /\ A \o B \in Seq(Int) /\ Len(A \o B) = Len(F) + Len(G)
      /\ \A p \in 1..Len(F) : (A \o B)[p] = A[p]
      /\ \A p \in 1..Len(G) : (A \o B)[Len(F) + p] = B[p]
  <2>1. /\ A \o B \in Seq(Int) /\ Len(A \o B) = Len(A) + Len(B)
        /\ \A p \in 1..Len(A) : (A \o B)[p] = A[p]
        /\ \A p \in 1..Len(B) : (A \o B)[Len(A) + p] = B[p]
    <3>1. A \in Seq(Int) /\ B \in Seq(Int)
      BY <1>3, <1>4
    <3> QED BY <3>1, ConcatParts
  <2> QED BY <2>1, <1>3, <1>4
<1>7. ASSUME NEW p \in 1..Len(F) PROVE D[p] = (A \o B)[p]
  <2>1. p \in Encrypted(m \o n) <=> p \in Encrypted(m)
    <3>1. \A q \in Encrypted(n) : p # Len(F) + q
      BY <1>1, <1>5
    <3> QED BY <1>5, <3>1
  <2>2. p \in 1..Len(F) + Len(G) /\ J[p] = F[p] /\ (A \o B)[p] = A[p]
    BY <1>1, <1>6
  <2>3. CASE p \in Encrypted(m)
    BY <1>2, <1>3, <2>1, <2>2, <2>3
  <2>4. CASE p \notin Encrypted(m)
    BY <1>2, <1>3, <2>1, <2>2, <2>4
  <2> QED BY <2>3, <2>4
<1>8. ASSUME NEW p \in 1..Len(G) PROVE D[Len(F) + p] = (A \o B)[Len(F) + p]
  <2>1. Len(F) + p \in Encrypted(m \o n) <=> p \in Encrypted(n)
    <3>1. Len(F) + p \notin Encrypted(m)
      BY <1>1, <1>5
    <3>2. \A q \in Encrypted(n) : Len(F) + p = Len(F) + q <=> p = q
      <4>1. \A q \in Encrypted(n) : q \in Nat
        BY <1>5
      <4> QED BY <1>1, <4>1
    <3> QED BY <1>5, <3>1, <3>2
  <2>0. Len(F) + p \in 1..Len(F) + Len(G)
    <3> DEFINE x == Len(F)
               y == Len(G)
    <3>1. x \in Nat /\ y \in Nat /\ p \in 1..y
      BY <1>1
    <3> HIDE DEF x, y
    <3>2. x + p \in 1..x + y
      BY <3>1
    <3> QED BY <3>2 DEF x, y
  <2>2. Len(F) + p \in 1..Len(F) + Len(G) /\ J[Len(F) + p] = G[p] /\ (A \o B)[Len(F) + p] = B[p]
    BY <1>1, <1>6, <2>0
  <2>3. CASE p \in Encrypted(n)
    BY <1>2, <1>4, <2>1, <2>2, <2>3
  <2>4. CASE p \notin Encrypted(n)
    BY <1>2, <1>4, <2>1, <2>2, <2>4
  <2> QED BY <2>3, <2>4
<1>9. ASSUME NEW p \in 1..Len(D) PROVE D[p] = (A \o B)[p]
  <2>1. CASE p \in 1..Len(F)
    BY <1>7, <2>1
  <2>2. CASE p \notin 1..Len(F)
    <3>1. p - Len(F) \in 1..Len(G) /\ Len(F) + (p - Len(F)) = p
      BY <1>1, <1>2, <2>2
    <3> QED BY <1>8, <3>1
  <2> QED BY <2>1, <2>2
<1>10. D = A \o B
  BY <1>2, <1>6, <1>9, SeqEqual
<1> QED BY <1>10 DEF D, A, B

\* And so for any number of blocks.
LEMMA DecryptJoined ==
  ASSUME NEW Fs \in Seq(Seq(Int)), NEW ms \in Seq(Seq(Entries)), Len(ms) = Len(Fs),
         \A i \in 1..Len(Fs) : Len(Fs[i]) = Bytes(ms[i])
  PROVE  Decrypt(FlattenSeq(Fs), FlattenSeq(ms)) = FlattenSeq([i \in 1..Len(Fs) |-> Decrypt(Fs[i], ms[i])])
<1> DEFINE Ds == [i \in 1..Len(Fs) |-> Decrypt(Fs[i], ms[i])]
<1>0. Len(Fs) \in Nat /\ \A i \in 1..Len(Fs) : Fs[i] \in Seq(Int) /\ ms[i] \in Seq(Entries)
  BY LenProperties, ElementOfSeq
<1>1. Ds \in Seq(Seq(Int)) /\ Len(Ds) = Len(Fs) /\ \A i \in 1..Len(Fs) : Ds[i] = Decrypt(Fs[i], ms[i])
  <2>1. \A i \in 1..Len(Fs) : Decrypt(Fs[i], ms[i]) \in Seq(Int)
    BY <1>0, DecryptIs
  <2> QED BY <1>0, <2>1
<1> HIDE DEF Ds
<1>2. PICK f \in [0..Len(Fs) -> Seq(Int)] : /\ f[0] = <<>>
                                            /\ \A k \in 1..Len(Fs) : f[k] = f[k - 1] \o Fs[k]
                                            /\ FlattenSeq(Fs) = f[Len(Fs)]
  BY FlattenIs
<1>3. PICK g \in [0..Len(Fs) -> Seq(Entries)] : /\ g[0] = <<>>
                                                /\ \A k \in 1..Len(Fs) : g[k] = g[k - 1] \o ms[k]
                                                /\ FlattenSeq(ms) = g[Len(Fs)]
  <2>1. PICK g \in [0..Len(ms) -> Seq(Entries)] : /\ g[0] = <<>>
                                                  /\ \A k \in 1..Len(ms) : g[k] = g[k - 1] \o ms[k]
                                                  /\ FlattenSeq(ms) = g[Len(ms)]
    BY FlattenIs
  <2> QED BY <2>1
<1>4. PICK d \in [0..Len(Fs) -> Seq(Int)] : /\ d[0] = <<>>
                                            /\ \A k \in 1..Len(Fs) : d[k] = d[k - 1] \o Ds[k]
                                            /\ FlattenSeq(Ds) = d[Len(Fs)]
  <2>1. Ds \in Seq(Seq(Int))
    BY <1>1
  <2>2. PICK d \in [0..Len(Ds) -> Seq(Int)] : /\ d[0] = <<>>
                                              /\ \A k \in 1..Len(Ds) : d[k] = d[k - 1] \o Ds[k]
                                              /\ FlattenSeq(Ds) = d[Len(Ds)]
    BY <2>1, FlattenIs
  <2> QED BY <1>1, <2>2
<1> DEFINE Right(n) == Len(f[n]) = Bytes(g[n]) /\ Decrypt(f[n], g[n]) = d[n]
           T == {n \in Nat : n <= Len(Fs) => Right(n)}
<1>5. Right(0)
  <2>1. <<>> \in Seq(Entries) /\ <<>> \in Seq(Int) /\ Len(<<>>) = 0
    OBVIOUS
  <2>2. Bytes(<<>>) = 0
    BY <2>1, EndsAre
  <2>3. Decrypt(<<>>, <<>>) \in Seq(Int) /\ Len(Decrypt(<<>>, <<>>)) = 0
    BY <2>1, DecryptIs
  <2>4. Decrypt(<<>>, <<>>) = <<>>
    BY <2>3, EmptySeq
  <2> QED BY <1>2, <1>3, <1>4, <2>1, <2>2, <2>4
<1>6. ASSUME NEW n \in Nat, n + 1 <= Len(Fs), Right(n) PROVE Right(n + 1)
  <2>1. n \in 0..Len(Fs) /\ n + 1 \in 1..Len(Fs) /\ (n + 1) - 1 = n
    BY <1>0, <1>6
  <2> DEFINE a == f[n]
             b == Fs[n + 1]
             m == g[n]
             k == ms[n + 1]
  <2>2. /\ a \in Seq(Int) /\ b \in Seq(Int) /\ m \in Seq(Entries) /\ k \in Seq(Entries)
        /\ Len(a) = Bytes(m) /\ Len(b) = Bytes(k)
        /\ f[n + 1] = a \o b /\ g[n + 1] = m \o k /\ d[n + 1] = d[n] \o Ds[n + 1]
        /\ d[n] = Decrypt(a, m) /\ Ds[n + 1] = Decrypt(b, k)
    <3>1. f[n + 1] = a \o b
      BY <1>2, <2>1
    <3>2. g[n + 1] = m \o k
      BY <1>3, <2>1
    <3>3. d[n + 1] = d[n] \o Ds[n + 1]
      BY <1>4, <2>1
    <3> QED BY <1>0, <1>1, <1>6, <2>1, <3>1, <3>2, <3>3
  <2> HIDE DEF a, b, m, k
  <2>3. Decrypt(a \o b, m \o k) = Decrypt(a, m) \o Decrypt(b, k)
    BY <2>2, DecryptConcat
  <2>4. Len(a \o b) = Len(a) + Len(b) /\ Bytes(m \o k) = Bytes(m) + Bytes(k)
    <3>1. a \in Seq(Int) /\ b \in Seq(Int)
      BY <2>2
    <3>2. Len(a \o b) = Len(a) + Len(b)
      BY <3>1, ConcatParts
    <3>3. m \in Seq(Entries) /\ k \in Seq(Entries)
      BY <2>2
    <3>4. Bytes(m \o k) = Bytes(m) + Bytes(k)
      BY <3>3, ConcatMap
    <3> QED BY <3>2, <3>4
  <2> QED BY <2>2, <2>3, <2>4
<1>7. Nat \subseteq T
  <2> HIDE DEF Right
  <2>1. 0 \in T
    BY <1>5
  <2>2. \A n \in Nat : n \in T => n + 1 \in T
    BY <1>0, <1>6
  <2> HIDE DEF T
  <2> QED BY <2>1, <2>2, Induction
<1>8. Right(Len(Fs))
  <2> HIDE DEF Right
  <2> QED BY <1>0, <1>7
<1> QED BY <1>2, <1>3, <1>4, <1>8 DEF Ds

\* A part of a sequence, within it.
LEMMA PartOf ==
  ASSUME NEW S, NEW s \in Seq(S), NEW b \in Nat, NEW n \in Nat, b + n <= Len(s)
  PROVE  /\ SubSeq(s, b + 1, b + n) \in Seq(S) /\ Len(SubSeq(s, b + 1, b + n)) = n
         /\ \A j \in 1..n : SubSeq(s, b + 1, b + n)[j] = s[b + j]
<1>1. Len(s) \in Nat /\ \A i \in 1..Len(s) : s[i] \in S
  BY LenProperties, ElementOfSeq
<1>2. SubSeq(s, b + 1, b + n) = [j \in 1..n |-> s[b + j]]
  <2>1. SubSeq(s, b + 1, b + n) = [j \in 1..(1 + (b + n) - (b + 1)) |-> s[j + (b + 1) - 1]]
    OBVIOUS
  <2>2. 1 + (b + n) - (b + 1) = n /\ \A j \in 1..n : j + (b + 1) - 1 = b + j
    OBVIOUS
  <2> QED BY <2>1, <2>2
<1>3. \A j \in 1..n : s[b + j] \in S
  BY <1>1
<1> QED BY <1>2, <1>3

\* Collecting the encrypted bytes of a frame, decrypting all of them and putting them
\* back decrypts what the map says, and nothing else.
Pieces(F, m) == [k \in DOMAIN m |-> SubSeq(F, Before(m, k) + 1, Before(m, k) + m[k].encrypted)]

\* Collecting the encrypted bytes of a frame (the loop over the subsamples that
\* fills the block) keeps their order, and leaves none out.
LEMMA GatherIs ==
  ASSUME NEW F \in Seq(Int), NEW m \in Seq(Entries)
  PROVE  Bytes(m) <= Len(F) =>
         /\ Gather(F, m) \in Seq(Int) /\ Len(Gather(F, m)) = EncryptedBytes(m)
         /\ \A k \in 1..Len(m) : \A j \in 1..m[k].encrypted :
              Gather(F, m)[DataEnds(m)[k - 1] + j] = F[Before(m, k) + j]
<1>0. Len(F) \in Nat
  BY LenProperties
<1>1. /\ Len(m) \in Nat /\ DOMAIN m = 1..Len(m)
      /\ \A k \in 1..Len(m) : m[k].encrypted \in Nat
  BY EntriesAre
<1>2. /\ Bytes(m) \in Nat
      /\ \A k \in 1..Len(m) : /\ Before(m, k) \in Nat
                              /\ Before(m, k) + m[k].encrypted <= Bytes(m)
  BY EndsAre
<1> HAVE Bytes(m) <= Len(F)
<1>3. ASSUME NEW k \in 1..Len(m)
      PROVE  /\ Pieces(F, m)[k] \in Seq(Int) /\ Len(Pieces(F, m)[k]) = m[k].encrypted
             /\ \A j \in 1..m[k].encrypted : Pieces(F, m)[k][j] = F[Before(m, k) + j]
  <2> DEFINE b == Before(m, k)
             n == m[k].encrypted
  <2>1. b \in Nat /\ n \in Nat /\ b + n <= Len(F)
    BY <1>0, <1>1, <1>2
  <2>2. Pieces(F, m)[k] = SubSeq(F, b + 1, b + n)
    BY <1>1 DEF Pieces
  <2> HIDE DEF b, n
  <2>3. /\ SubSeq(F, b + 1, b + n) \in Seq(Int) /\ Len(SubSeq(F, b + 1, b + n)) = n
        /\ \A j \in 1..n : SubSeq(F, b + 1, b + n)[j] = F[b + j]
    BY <2>1, PartOf
  <2> QED BY <2>2, <2>3 DEF b, n
<1>4. Pieces(F, m) \in Seq(Seq(Int)) /\ Len(Pieces(F, m)) = Len(m) /\ DOMAIN Pieces(F, m) = 1..Len(m)
  <2>1. \A k \in 1..Len(m) : Pieces(F, m)[k] \in Seq(Int)
    BY <1>3
  <2>2. Pieces(F, m) = [k \in 1..Len(m) |-> Pieces(F, m)[k]]
    BY <1>1 DEF Pieces
  <2> QED BY <1>1, <2>1, <2>2
<1>5. Sums(Lengths(Pieces(F, m))) = DataEnds(m)
  <2>1. Lengths(Pieces(F, m)) = DataSizes(m)
    BY <1>1, <1>3, <1>4 DEF Lengths, DataSizes
  <2> QED BY <2>1, DataEndsAre
<1>6. Gather(F, m) = FlattenSeq(Pieces(F, m))
  BY DEF Gather, Pieces
<1>7. /\ Gather(F, m) \in Seq(Int) /\ Len(Gather(F, m)) = DataEnds(m)[Len(m)]
      /\ \A k \in 1..Len(m) : \A j \in 1..Len(Pieces(F, m)[k]) :
           Gather(F, m)[DataEnds(m)[k - 1] + j] = Pieces(F, m)[k][j]
  <2> DEFINE ps == Pieces(F, m)
  <2>1. ps \in Seq(Seq(Int))
    BY <1>4
  <2>2. Len(ps) = Len(m) /\ Sums(Lengths(ps)) = DataEnds(m) /\ Gather(F, m) = FlattenSeq(ps)
    BY <1>4, <1>5, <1>6
  <2> HIDE DEF ps
  <2>3. /\ FlattenSeq(ps) \in Seq(Int)
        /\ Len(FlattenSeq(ps)) = Sums(Lengths(ps))[Len(ps)]
        /\ \A i \in 1..Len(ps) : \A j \in 1..Len(ps[i]) :
             FlattenSeq(ps)[Sums(Lengths(ps))[i - 1] + j] = ps[i][j]
    BY <2>1, FlattenIndex
  <2>4. /\ Gather(F, m) \in Seq(Int) /\ Len(Gather(F, m)) = DataEnds(m)[Len(m)]
        /\ \A k \in 1..Len(m) : \A j \in 1..Len(ps[k]) :
             Gather(F, m)[DataEnds(m)[k - 1] + j] = ps[k][j]
    BY <2>2, <2>3
  <2> QED BY <2>4 DEF ps
<1>8. EncryptedBytes(m) = DataEnds(m)[Len(m)]
  BY DataEndsAre
<1> QED BY <1>3, <1>7, <1>8

\* Collecting the encrypted bytes of a frame, decrypting all of them and putting them
\* back decrypts what the map says, and nothing else.
LEMMA GatherScatter ==
  ASSUME NEW F \in Seq(Int), NEW m \in Seq(Entries), Bytes(m) <= Len(F)
  PROVE  Scatter(F, [p \in DOMAIN Gather(F, m) |-> -Gather(F, m)[p]], m) = Decrypt(F, m)
<1> DEFINE G == Gather(F, m)
           N == [p \in DOMAIN G |-> -G[p]]
<1>1. /\ G \in Seq(Int) /\ Len(G) = EncryptedBytes(m)
      /\ \A k \in 1..Len(m) : \A j \in 1..m[k].encrypted : G[DataEnds(m)[k - 1] + j] = F[Before(m, k) + j]
  BY GatherIs
<1>2. /\ Len(m) \in Nat /\ DOMAIN m = 1..Len(m)
      /\ \A k \in 1..Len(m) : m[k].encrypted \in Nat
  BY EntriesAre
<1>3. \A k \in 1..Len(m) : Before(m, k) \in Nat
  BY EndsAre
<1>4. /\ EncryptedBytes(m) \in Nat
      /\ \A k \in 1..Len(m) :
              /\ DataEnds(m)[k - 1] \in Nat
              /\ DataEnds(m)[k] = DataEnds(m)[k - 1] + m[k].encrypted
              /\ DataEnds(m)[k] <= EncryptedBytes(m)
  BY DataEndsAre
<1>5. DOMAIN G = 1..EncryptedBytes(m)
  <2> HIDE DEF G
  <2> QED BY <1>1, LenProperties
<1> HIDE DEF G
<1>6. ASSUME NEW p \in Encrypted(m), NEW k \in 1..Len(m),
             p \in (Before(m, k) + 1)..(Before(m, k) + m[k].encrypted)
      PROVE  N[DataEnds(m)[k - 1] + p - Before(m, k)] = -F[p]
  <2> DEFINE x == DataEnds(m)[k - 1]
             b == Before(m, k)
             n == m[k].encrypted
             e == EncryptedBytes(m)
  <2>1. x \in Nat /\ b \in Nat /\ n \in Nat /\ e \in Nat /\ x + n <= e /\ p \in (b + 1)..(b + n)
    BY <1>2, <1>3, <1>4, <1>6
  <2>2. DOMAIN G = 1..e /\ \A j \in 1..n : G[x + j] = F[b + j]
    BY <1>1, <1>5
  <2> HIDE DEF x, b, n, e
  <2>3. p - b \in 1..n /\ x + (p - b) = x + p - b /\ b + (p - b) = p /\ x + p - b \in 1..e
    BY <2>1
  <2>4. G[x + p - b] = F[p]
    <3>1. G[x + (p - b)] = F[b + (p - b)]
      BY <2>2, <2>3
    <3> QED BY <2>3, <3>1
  <2>5. N[x + p - b] = -G[x + p - b]
    BY <2>2, <2>3
  <2> HIDE DEF N
  <2>6. N[x + p - b] = -F[p]
    BY <2>4, <2>5
  <2> QED BY <2>6 DEF x, b
<1>7. ASSUME NEW p \in Encrypted(m) PROVE Scatter(F, N, m)[p] = -F[p] \/ p \notin DOMAIN F
  <2> DEFINE k == CHOOSE k \in DOMAIN m : p \in (Before(m, k) + 1)..(Before(m, k) + m[k].encrypted)
  <2>1. k \in 1..Len(m) /\ p \in (Before(m, k) + 1)..(Before(m, k) + m[k].encrypted)
    <3>1. \E i \in DOMAIN m : p \in (Before(m, i) + 1)..(Before(m, i) + m[i].encrypted)
      BY <1>2, EncryptedAre
    <3> QED BY <1>2, <3>1
  <2> HIDE DEF N
  <2>2. p \in DOMAIN F => Scatter(F, N, m)[p] = N[DataEnds(m)[k - 1] + p - Before(m, k)]
    BY DEF Scatter
  <2> HIDE DEF k
  <2>3. N[DataEnds(m)[k - 1] + p - Before(m, k)] = -F[p]
    BY <1>6, <2>1
  <2> QED BY <2>2, <2>3
<1> HIDE DEF N
<1>8. \A p \in DOMAIN F : p \notin Encrypted(m) => Scatter(F, N, m)[p] = F[p]
  BY DEF Scatter
<1>9. \A p \in DOMAIN F : p \in Encrypted(m) => Scatter(F, N, m)[p] = -F[p]
  BY <1>7
<1>10. Scatter(F, N, m) = [p \in DOMAIN F |-> Scatter(F, N, m)[p]]
  BY DEF Scatter
<1>11. Scatter(F, N, m) = Decrypt(F, m)
  BY <1>8, <1>9, <1>10 DEF Decrypt
<1> QED BY <1>11 DEF N, G

\* A map that says nothing is encrypted.
LEMMA NoneEncrypted ==
  ASSUME NEW m \in Seq(Entries)
  PROVE  /\ EncryptedBytes(m) = 0 => \A k \in 1..Len(m) : m[k].encrypted = 0
         /\ (\A k \in 1..Len(m) : m[k].encrypted = 0) => Encrypted(m) = {}
<1>1. ASSUME NEW k \in 1..Len(m), EncryptedBytes(m) = 0 PROVE m[k].encrypted = 0
  <2> DEFINE x == DataEnds(m)[k - 1]
             n == m[k].encrypted
  <2>1. x \in Nat /\ n \in Nat /\ x + n <= 0
    BY <1>1, DataEndsAre, EntriesAre
  <2> HIDE DEF x, n
  <2>2. n = 0
    BY <2>1
  <2> QED BY <2>2 DEF n
<1>2. ASSUME \A k \in 1..Len(m) : m[k].encrypted = 0 PROVE Encrypted(m) = {}
  <2>1. \A k \in 1..Len(m) : Before(m, k) \in Nat
    BY EndsAre
  <2>2. \A p : ~ \E k \in 1..Len(m) : p \in (Before(m, k) + 1)..(Before(m, k) + m[k].encrypted)
    BY <1>2, <2>1
  <2> QED BY <2>2, EncryptedAre
<1> QED BY <1>1, <1>2

\* How many full entries the padding needs.
LEMMA PaddingCount ==
  ASSUME NEW n \in Nat, NEW c, c = (n + MaxClear - 1) \div MaxClear
  PROVE  /\ c \in Nat
         /\ n = 0 => c = 0
         /\ n > 0 => c > 0 /\ (c - 1) * MaxClear < n /\ n <= (c - 1) * MaxClear + MaxClear
<1>1. MaxClear \in Nat /\ MaxClear > 0
  BY MapAssumption
<1> DEFINE M == MaxClear
           x == n + M - 1
<1>2. x \in Nat /\ c \in Int /\ M * c <= x /\ x < M * (c + 1)
  <2>1. x \in Nat /\ c = x \div M
    BY <1>1
  <2> HIDE DEF x
  <2> QED BY <1>1, <2>1
<1>3. x = n + M - 1 /\ M \in Nat /\ M > 0
  BY <1>1
<1> HIDE DEF M, x
<1>4. M * (c + 1) = M * c + M /\ (c - 1) * M = M * c - M
  BY <1>2, <1>3
<1>5. c \in Nat
  <2>1. ASSUME c + 1 <= 0 PROVE FALSE
    <3> DEFINE z == M * (c + 1)
    <3>1. z <= 0
      BY <1>2, <1>3, <2>1
    <3>2. x < z /\ x \in Nat /\ z \in Int
      BY <1>2, <1>3
    <3> HIDE DEF z
    <3> QED BY <3>1, <3>2
  <2> QED BY <1>2, <2>1
<1>6. n = 0 => c = 0
  <2>1. CASE c >= 1
    <3>1. M * c >= M
      BY <1>2, <1>3, <2>1
    <3> QED BY <1>2, <1>3, <3>1
  <2> QED BY <1>5, <2>1
<1>7. n > 0 => c > 0
  <2>1. CASE c = 0
    <3>1. M * (c + 1) = M
      BY <1>3, <2>1
    <3> QED BY <1>2, <1>3, <3>1
  <2> QED BY <1>5, <2>1
<1> DEFINE y == M * c
<1>8. y \in Int /\ y <= x /\ x < y + M /\ (c - 1) * M = y - M
  BY <1>2, <1>3, <1>4
<1> HIDE DEF y
<1>9. n > 0 => (c - 1) * M < n /\ n <= (c - 1) * M + M
  BY <1>3, <1>8
<1> QED BY <1>5, <1>6, <1>7, <1>9 DEF M

\* The padding is so many clear bytes.
LEMMA PaddingIs ==
  ASSUME NEW n \in Nat
  PROVE  /\ Padding(n) \in Seq(Entries) /\ Bytes(Padding(n)) = n
         /\ \A k \in 1..Len(Padding(n)) : Padding(n)[k].encrypted = 0
<1> DEFINE c == (n + MaxClear - 1) \div MaxClear
           rest == n - (c - 1) * MaxClear
           P == [k \in 1..c |-> [clear |-> IF k < c THEN MaxClear ELSE rest, encrypted |-> 0]]
<1>0. P = Padding(n)
  BY DEF Padding
<1>1. MaxClear \in Nat
  BY MapAssumption
<1>2. /\ c \in Nat
      /\ n = 0 => c = 0
      /\ n > 0 => c > 0 /\ (c - 1) * MaxClear < n /\ n <= (c - 1) * MaxClear + MaxClear
  BY PaddingCount
<1>3. c > 0 => rest \in Nat /\ rest + (c - 1) * MaxClear = n
  <2>1. rest = n - (c - 1) * MaxClear
    OBVIOUS
  <2> HIDE DEF c, rest
  <2> QED BY <1>1, <1>2, <2>1
<1> HIDE DEF rest, c
<1>4. P \in Seq(Entries) /\ Len(P) = c /\ DOMAIN P = 1..c
  <2>1. \A k \in 1..c : [clear |-> IF k < c THEN MaxClear ELSE rest, encrypted |-> 0] \in Entries
    BY <1>1, <1>2, <1>3 DEF Entries
  <2>2. P \in [1..c -> Entries]
    BY <2>1
  <2> HIDE DEF P
  <2> QED BY <1>2, <2>2
<1>5. /\ \A k \in 1..c : P[k].encrypted = 0
      /\ \A k \in 1..c : k < c => P[k].clear = MaxClear
      /\ c > 0 => P[c].clear = rest
  BY <1>2
<1> HIDE DEF P
<1>6. /\ Ends(P)[0] = 0
      /\ \A k \in 1..c : /\ Ends(P)[k - 1] \in Nat
                         /\ Ends(P)[k] = Ends(P)[k - 1] + P[k].clear
  <2>1. P \in Seq(Entries)
    BY <1>4
  <2>2. /\ Ends(P)[0] = 0
        /\ \A k \in 1..Len(P) :
              /\ Ends(P)[k - 1] \in Nat
              /\ Before(P, k) = Ends(P)[k - 1] + P[k].clear
              /\ Ends(P)[k] = Before(P, k) + P[k].encrypted
    BY <2>1, EndsAre
  <2>3. \A k \in 1..Len(P) : P[k].clear \in Nat
    BY <2>1, EntriesAre
  <2>4. ASSUME NEW k \in 1..c
        PROVE  Ends(P)[k - 1] \in Nat /\ Ends(P)[k] = Ends(P)[k - 1] + P[k].clear
    <3>1. k \in 1..Len(P) /\ P[k].encrypted = 0
      BY <1>4, <1>5
    <3> DEFINE x == Ends(P)[k - 1]
               y == Before(P, k)
               z == P[k].clear
    <3>2. x \in Nat /\ z \in Nat /\ y = x + z /\ Ends(P)[k] = y + 0
      BY <2>2, <2>3, <3>1
    <3> HIDE DEF x, y, z
    <3>3. Ends(P)[k] = x + z
      BY <3>2
    <3> QED BY <3>2, <3>3 DEF x, z
  <2> QED BY <2>2, <2>4
<1> DEFINE T == {k \in Nat : k < c => Ends(P)[k] = k * MaxClear}
<1>7. 0 \in T
  BY <1>1, <1>6
<1>8. ASSUME NEW k \in Nat, k \in T PROVE k + 1 \in T
  <2>1. SUFFICES ASSUME k + 1 < c PROVE Ends(P)[k + 1] = (k + 1) * MaxClear
    OBVIOUS
  <2>2. k + 1 \in 1..c /\ (k + 1) - 1 = k /\ k < c
    BY <1>2, <2>1
  <2>3. Ends(P)[k + 1] = Ends(P)[k] + MaxClear
    BY <1>5, <1>6, <2>1, <2>2
  <2>4. Ends(P)[k] = k * MaxClear
    BY <1>8, <2>2
  <2> QED BY <1>1, <2>3, <2>4
<1>9. Nat \subseteq T
  <2> HIDE DEF T
  <2> QED BY <1>7, <1>8, Induction
<1>10. Bytes(P) = n
  <2>0. Bytes(P) = Ends(P)[c]
    BY <1>4 DEF Bytes
  <2>1. CASE c = 0
    BY <1>2, <1>6, <2>0, <2>1
  <2>2. CASE c > 0
    <3>1. c - 1 \in Nat /\ c - 1 < c /\ c \in 1..c
      BY <1>2, <2>2
    <3>2. Ends(P)[c - 1] = (c - 1) * MaxClear
      BY <1>9, <3>1
    <3>3. Ends(P)[c] = Ends(P)[c - 1] + rest
      BY <1>5, <1>6, <2>2, <3>1
    <3>4. rest + (c - 1) * MaxClear = n /\ rest \in Nat /\ (c - 1) * MaxClear \in Nat
      BY <1>1, <1>3, <2>2, <3>1
    <3> QED BY <2>0, <3>2, <3>3, <3>4
  <2> QED BY <1>2, <2>1, <2>2
<1> QED BY <1>0, <1>4, <1>5, <1>10

\* A map that is fitted to its frame covers it, and says the same of its bytes.
LEMMA ExtendIs ==
  ASSUME NEW m \in Seq(Entries), NEW size \in Nat, Bytes(m) < Word, Bytes(m) % Word <= size
  PROVE  /\ Extend(m, size) \in Seq(Entries) /\ Bytes(Extend(m, size)) = size
         /\ Encrypted(Extend(m, size)) = Encrypted(m)
<1>1. Bytes(m) \in Nat /\ Bytes(m) % Word = Bytes(m)
  BY EndsAre, MapAssumption
<1> DEFINE n == size - Bytes(m)
           p == Padding(n)
<1>2. n \in Nat
  BY <1>1
<1>3. Extend(m, size) = m \o p
  BY <1>1 DEF Extend
<1>4. Bytes(m) + n = size
  BY <1>1
<1> HIDE DEF n
<1>5. p \in Seq(Entries) /\ Bytes(p) = n /\ \A k \in 1..Len(p) : p[k].encrypted = 0
  BY <1>2, PaddingIs
<1> HIDE DEF p
<1>6. Encrypted(p) = {}
  BY <1>5, NoneEncrypted
<1>7. /\ m \o p \in Seq(Entries) /\ Bytes(m \o p) = Bytes(m) + Bytes(p)
      /\ Encrypted(m \o p) = Encrypted(m) \cup {Bytes(m) + q : q \in Encrypted(p)}
  BY <1>5, ConcatMap
<1> QED BY <1>3, <1>4, <1>5, <1>6, <1>7

\* A frame that is encrypted as a whole.
LEMMA WholeIs ==
  ASSUME NEW size \in Nat, NEW m, m = <<[clear |-> 0, encrypted |-> size]>>
  PROVE  m \in Seq(Entries) /\ Bytes(m) = size /\ Encrypted(m) = 1..size
<1>1. m \in Seq(Entries) /\ Len(m) = 1 /\ m[1].clear = 0 /\ m[1].encrypted = size
  BY DEF Entries
<1>2. 1 \in 1..Len(m) /\ 1 - 1 = 0
  BY <1>1
<1>3. /\ Ends(m)[0] = 0 /\ Bytes(m) = Ends(m)[1]
      /\ Before(m, 1) = Ends(m)[1 - 1] + m[1].clear
      /\ Ends(m)[1] = Before(m, 1) + m[1].encrypted
  BY <1>1, <1>2, EndsAre
<1>4. Before(m, 1) = 0 /\ Bytes(m) = size
  BY <1>1, <1>2, <1>3
<1>5. \A p : p \in Encrypted(m) <=> p \in 1..size
  <2>1. \A p : p \in Encrypted(m) <=> \E k \in 1..1 : p \in (Before(m, k) + 1)..(Before(m, k) + m[k].encrypted)
    BY <1>1, EncryptedAre
  <2>2. (Before(m, 1) + 1)..(Before(m, 1) + m[1].encrypted) = 1..size
    BY <1>1, <1>4
  <2>3. 1..1 = {1}
    OBVIOUS
  <2> QED BY <2>1, <2>2, <2>3
<1> QED BY <1>1, <1>4, <1>5

\* The encrypted bytes are some of the map's.
LEMMA DataWithin ==
  ASSUME NEW m \in Seq(Entries)
  PROVE  EncryptedBytes(m) <= Bytes(m)
<1> DEFINE T == {k \in Nat : k <= Len(m) => DataEnds(m)[k] <= Ends(m)[k]}
<1>0. Len(m) \in Nat
  BY EntriesAre
<1>1. 0 \in T
  BY EndsAre, DataEndsAre
<1>2. ASSUME NEW k \in Nat, k \in T PROVE k + 1 \in T
  <2>1. SUFFICES ASSUME k + 1 <= Len(m) PROVE DataEnds(m)[k + 1] <= Ends(m)[k + 1]
    OBVIOUS
  <2>2. k + 1 \in 1..Len(m) /\ (k + 1) - 1 = k /\ k <= Len(m)
    BY <1>0, <2>1
  <2> DEFINE d == DataEnds(m)[k]
             e == Ends(m)[k]
             c == m[k + 1].clear
             n == m[k + 1].encrypted
             b == Before(m, k + 1)
  <2>3. d \in Nat /\ DataEnds(m)[k + 1] = d + n
    BY <2>2, DataEndsAre
  <2>4. e \in Nat /\ b = e + c /\ Ends(m)[k + 1] = b + n
    BY <2>2, EndsAre
  <2>5. c \in Nat /\ n \in Nat /\ d <= e
    BY <1>2, <2>2, EntriesAre
  <2> HIDE DEF d, e, c, n, b
  <2>6. d + n <= b + n
    BY <2>3, <2>4, <2>5
  <2> QED BY <2>3, <2>4, <2>6
<1>3. Nat \subseteq T
  <2> HIDE DEF T
  <2> QED BY <1>1, <1>2, Induction
<1> QED BY <1>0, <1>3 DEF EncryptedBytes, Bytes

-----------------------------------------------------------------------------
(* The invariant of a decryption of buffers *)

\* The steps before the result is put back, and those after the call is decided.

Early == {"map", "tell", "prepare", "decrypt", "putback"}
Over == {"unmap", "returned"}

Succeeding == result = "NONE"

\* One frame, except of "multi"; a frame without a map has no subsamples.
CallOK ==
  /\ pc = "idle" => frames = <<>> /\ mapped = {} /\ plan = <<>>
  /\ path # "multi" => Len(frames) <= 1
  /\ pc \in {"map", "prepare"} /\ path \in OneBlock => Bytes(frames[1].map) <= frames[1].size
  /\ path \notin OneBlock => \A i \in DOMAIN frames : frames[i].map = <<>> => frames[i].subs = "null"
  /\ pc # "idle" => Len(frames) > 0

\* How far the call is says whether it has failed and what is planned.
Placed ==
  /\ pc \in {"idle", "map", "prepare", "putback", "clear"} => Succeeding
  /\ pc \in {"idle", "map"} \/ (pc = "tell" /\ path = "buffer") => plan = <<>>
  /\ pc = "tell" => path \in {"buffer", "multi"}
  /\ pc = "tell" /\ path = "buffer" => Succeeding
  /\ Succeeding /\ (pc \in {"decrypt", "putback", "clear"} \cup Over \/ (pc = "tell" /\ path = "multi"))
       => Len(plan) = Len(frames)
  /\ pc \in {"idle", "map", "prepare", "decrypt", "tell"} => ~revoked
  /\ revoked => path \in {"buffer", "multi"}

\* Nothing is changed before the result is put back, and nothing after a failure.
Untouched == \A i \in DOMAIN frames : content[i] = Bytewise(frames[i]) /\ handed[i] = 0

Handed ==
  /\ pc \in Early \/ ~Succeeding => Untouched
  /\ pc = "clear" =>
       \A i \in DOMAIN frames : handed[i] = IF plan[i].do = "decrypt" /\ path \in Rdk THEN 1 ELSE 0
  /\ pc \in Over /\ Succeeding /\ path \in Rdk => \A i \in DOMAIN frames : handed[i] = 1

\* The frames of these two are refused without an IV.
NeedsIv(i) == path = "gstBuffer" \/ (path = "multi" /\ frames[i].meta)

\* What may be mapped when this part is looked at: what the function unmaps if it
\* cannot be mapped, and the data when the metadata is looked for.
Earlier(p, part) == IF part = "meta" THEN {"data"} ELSE Unmaps(p)[part]

\* Nothing is mapped before what comes earlier.
InOrder ==
  \A k \in DOMAIN todo :
    /\ mapped \subseteq {1} \X Earlier(path, todo[k][2])
    /\ \A j \in 1..(k - 1) : todo[j][1] = 1 /\ todo[j][2] \in Earlier(path, todo[k][2]) \cup {"meta"}

Mapping ==
  /\ pc = "map" =>
       /\ \A i \in DOMAIN frames :
            NeedsIv(i) => frames[i].iv # "null" \/ \E k \in DOMAIN todo : todo[k] = <<i, "iv">>
       /\ \A k \in DOMAIN todo : todo[k][2] = "meta" => path \in {"buffer", "gstBuffer"}
       /\ path # "multi" => InOrder
  /\ pc \in {"prepare", "tell", "decrypt", "putback", "clear"} =>
       \A i \in DOMAIN frames : NeedsIv(i) => frames[i].iv # "null"
  /\ \A m \in mapped : frames[m[1]][m[2]] = "ok"
  /\ path = "gstOnce" /\ Clear(frames[1]) => todo = <<>> /\ mapped = {}
  /\ MapsReleased

Knows ==
  /\ missed \/ svp = told
  /\ (path = "buffer" /\ pc \in {"prepare", "decrypt", "putback", "clear"})
       \/ (path = "multi" /\ pc \in {"decrypt", "putback", "clear"})
     => (caps # "none" => told = (caps = "host"))

\* What is planned for a frame decrypts what is meant.
Means(b, d) ==
  /\ d.do # "decrypt" => d.map = <<>>
  /\ d.do = "decrypt" /\ path \in OneBlock => Bytes(d.map) <= b.size
  /\ Usable(b) =>
       IF d.do = "decrypt"
       THEN /\ Decrypt(Bytewise(b), d.map) = AsMeant(b)
            /\ path = "multi" => Bytes(d.map) = b.size
       ELSE AsMeant(b) = Bytewise(b)

Planned ==
  Succeeding => \A i \in DOMAIN plan : plan[i].do # "refuse" /\ Means(frames[i], plan[i])

CdmOf(data) ==
  IF path \in OneBlock THEN [p \in DOMAIN data |-> -data[p]]
  ELSE Decrypt(data, FlattenSeq([i \in DOMAIN plan |-> plan[i].map]))

AllUsable == \A i \in DOMAIN frames : Usable(frames[i])

Data ==
  /\ Succeeding /\ (pc = "decrypt" \/ (pc = "tell" /\ path = "multi")) => block = Collect(plan)
  /\ pc = "putback" => block = IF revoked THEN Collect(plan) ELSE CdmOf(Collect(plan))
  /\ Succeeding /\ pc \in {"clear"} \cup Over /\ ~revoked /\ AllUsable
       => \A i \in DOMAIN frames : content[i] = AsMeant(frames[i])

IInv == TypeOK /\ CallOK /\ Placed /\ Handed /\ Mapping /\ Knows /\ Planned /\ Data

-----------------------------------------------------------------------------
(* Frames, and what is planned for them *)

\* What is known of a frame, and the bytes it came with.
LEMMA FrameIs ==
  ASSUME NEW b \in Frames
  PROVE  /\ b.size \in Nat /\ b.map \in Seq(Entries) /\ b.meta \in BOOLEAN /\ b.short \in BOOLEAN
         /\ Bytewise(b) \in Seq(Int) /\ Len(Bytewise(b)) = b.size /\ DOMAIN Bytewise(b) = 1..b.size
         /\ Bytewise(b) \in [1..b.size -> Int]
<1>1. /\ b.size \in Nat /\ b.map \in Seq(Entries) /\ b.meta \in BOOLEAN /\ b.short \in BOOLEAN
  BY SampleAssumption
<1> DEFINE n == b.size
           F == [p \in 1..n |-> p]
<1>2. n \in Nat /\ Bytewise(b) = F
  BY <1>1 DEF Bytewise
<1> HIDE DEF n
<1>3. F \in [1..n -> Int]
  BY <1>2
<1> HIDE DEF F
<1>4. F \in Seq(Int) /\ Len(F) = n /\ DOMAIN F = 1..n
  BY <1>2, <1>3
<1> QED BY <1>1, <1>2, <1>3, <1>4 DEF n

\* Only what a map says is encrypted matters to what is decrypted.
LEMMA SameDecrypt ==
  ASSUME NEW F, NEW m, NEW n, Encrypted(m) = Encrypted(n)
  PROVE  Decrypt(F, m) = Decrypt(F, n)
BY DEF Decrypt

\* A map without encrypted bytes leaves the frame as it came.
LEMMA NoneDecrypts ==
  ASSUME NEW b \in Frames, NEW m, Encrypted(m) = {}
  PROVE  Decrypt(Bytewise(b), m) = Bytewise(b)
BY FrameIs DEF Decrypt, Bytewise

\* There is nothing to decrypt in a frame without bytes.
LEMMA EmptyFrame ==
  ASSUME NEW b \in Frames, NEW m, b.size = 0
  PROVE  Decrypt(Bytewise(b), m) = Bytewise(b) /\ [p \in 1..b.size |-> -p] = Bytewise(b)
<1>1. 1..b.size = {}
  OBVIOUS
<1>2. DOMAIN Bytewise(b) = {}
  BY <1>1, FrameIs
<1> QED BY <1>1, <1>2 DEF Decrypt, Bytewise

\* The one entry of a frame without subsamples stands for all its bytes.
LEMMA WholeDecrypts ==
  ASSUME NEW b \in Frames
  PROVE  /\ Whole(b).map \in Seq(Entries) /\ Bytes(Whole(b).map) = b.size
         /\ Decrypt(Bytewise(b), Whole(b).map) = [p \in 1..b.size |-> -p]
         /\ Whole(b).do = "decrypt" /\ Whole(b) = [do |-> "decrypt", map |-> Whole(b).map]
<1> DEFINE m == <<[clear |-> 0, encrypted |-> b.size]>>
<1>1. Whole(b).map = m /\ Whole(b).do = "decrypt" /\ Whole(b) = [do |-> "decrypt", map |-> Whole(b).map]
  BY DEF Whole, Decrypted
<1>2. m \in Seq(Entries) /\ Bytes(m) = b.size /\ Encrypted(m) = 1..b.size
  BY FrameIs, WholeIs
<1> HIDE DEF m
<1>3. Decrypt(Bytewise(b), m) = [p \in 1..b.size |-> -p]
  <2>1. DOMAIN Bytewise(b) = 1..b.size /\ \A p \in 1..b.size : Bytewise(b)[p] = p
    BY FrameIs DEF Bytewise
  <2> QED BY <1>2, <2>1 DEF Decrypt
<1> QED BY <1>1, <1>2, <1>3

\* A map that has no encrypted bytes as far as the code can tell has none.
LEMMA CountedNone ==
  ASSUME NEW m \in Seq(Entries), Bytes(m) < Word, EncryptedBytes(m) % Word = 0
  PROVE  EncryptedBytes(m) = 0 /\ Encrypted(m) = {}
<1>1. EncryptedBytes(m) \in Nat /\ Bytes(m) \in Nat /\ EncryptedBytes(m) <= Bytes(m)
  BY DataWithin, EndsAre, DataEndsAre
<1>2. EncryptedBytes(m) = 0
  <2> DEFINE e == EncryptedBytes(m)
  <2>1. e \in Nat /\ e < Word /\ Word \in Nat \ {0} /\ e % Word = 0
    BY <1>1, MapAssumption
  <2> HIDE DEF e
  <2>2. e = 0
    BY <2>1
  <2> QED BY <2>2 DEF e
<1> QED BY <1>2, NoneEncrypted

Plans == [do : {"decrypt", "clear", "leave", "refuse"}, map : Seq(Entries)]

\* The plans are what the constructors say.
LEMMA PlansAre ==
  /\ \A what \in {"clear", "leave", "refuse"} :
       No(what) \in Plans /\ No(what).do = what /\ No(what).map = <<>>
  /\ \A m \in Seq(Entries) :
       Decrypted(m) \in Plans /\ Decrypted(m).do = "decrypt" /\ Decrypted(m).map = m
<1>1. <<>> \in Seq(Entries)
  OBVIOUS
<1> QED BY <1>1 DEF Plans, No, Decrypted

\* What is asked of each of the plans.
Sound(b, d) == d \in Plans /\ (d.do # "refuse" => Means(b, d))

\* A frame that is meant to stay as it is may be left alone.
LEMMA SoundClear ==
  ASSUME NEW b, NEW what \in {"clear", "leave", "refuse"}, Usable(b) => AsMeant(b) = Bytewise(b)
  PROVE  Sound(b, No(what))
BY PlansAre DEF Sound, Means

\* A refusal promises nothing of the frame.
LEMMA SoundRefuse ==
  ASSUME NEW b
  PROVE  Sound(b, No("refuse"))
BY PlansAre DEF Sound, Means

\* A map that decrypts what is meant is a good plan.
LEMMA SoundDecrypt ==
  ASSUME NEW b, NEW m \in Seq(Entries),
         path \in OneBlock => Bytes(m) <= b.size,
         Usable(b) => Decrypt(Bytewise(b), m) = AsMeant(b),
         Usable(b) /\ path = "multi" => Bytes(m) = b.size
  PROVE  Sound(b, Decrypted(m))
BY PlansAre DEF Sound, Means

\* So is the whole frame if all of it is meant.
LEMMA SoundWhole ==
  ASSUME NEW b \in Frames, AsMeant(b) = [p \in 1..b.size |-> -p]
  PROVE  Sound(b, Whole(b))
<1>1. /\ Whole(b).map \in Seq(Entries) /\ Bytes(Whole(b).map) = b.size /\ b.size \in Nat
      /\ Decrypt(Bytewise(b), Whole(b).map) = [p \in 1..b.size |-> -p]
      /\ Whole(b) = Decrypted(Whole(b).map)
  BY WholeDecrypts, FrameIs DEF Decrypted
<1> DEFINE m == Whole(b).map
<1> HIDE DEF m
<1>2. m \in Seq(Entries) /\ Bytes(m) = b.size /\ b.size <= b.size /\ Decrypt(Bytewise(b), m) = AsMeant(b) /\ Whole(b) = Decrypted(m)
  BY <1>1 DEF m
<1>3. Sound(b, Decrypted(m))
  BY <1>2, SoundDecrypt
<1> QED BY <1>2, <1>3

\* opencdm_gstreamer_session_decrypt_once decrypts what is meant, although it counts
\* the encrypted bytes in 32 bits.
LEMMA OncePlanIsSound ==
  ASSUME NEW b \in Frames, path = "once", Bytes(b.map) <= b.size
  PROVE  Sound(b, OncePlan(b)) /\ OncePlan(b).do # "refuse"
<1>0. b.map \in Seq(Entries) /\ path # "multi" /\ path \in OneBlock
  BY FrameIs DEF OneBlock
<1>1. CASE Clear(b)
  <2>1. AsMeant(b) = Bytewise(b) /\ OncePlan(b) = No("clear")
    BY <1>1 DEF AsMeant, OncePlan
  <2> QED BY <2>1, SoundClear, PlansAre
<1>2. CASE ~Clear(b) /\ b.subs # "ok"
  <2>1. AsMeant(b) = [p \in 1..b.size |-> -p] /\ OncePlan(b) = Whole(b)
    BY <1>0, <1>2 DEF AsMeant, OncePlan
  <2> QED BY <2>1, SoundWhole, WholeDecrypts
<1>3. CASE ~Clear(b) /\ b.subs = "ok" /\ EncryptedBytes(b.map) % Word > 0
  <2>1. AsMeant(b) = Decrypt(Bytewise(b), b.map) /\ OncePlan(b) = Decrypted(b.map)
    BY <1>0, <1>3 DEF AsMeant, OncePlan
  <2> QED BY <1>0, <2>1, SoundDecrypt, PlansAre
<1>4. CASE ~Clear(b) /\ b.subs = "ok" /\ ~(EncryptedBytes(b.map) % Word > 0)
  <2>1. AsMeant(b) = Decrypt(Bytewise(b), b.map) /\ OncePlan(b) = No("clear")
    BY <1>0, <1>4 DEF AsMeant, OncePlan
  <2>2. EncryptedBytes(b.map) % Word = 0
    BY <1>0, <1>4, DataEndsAre, MapAssumption
  <2>3. Usable(b) => AsMeant(b) = Bytewise(b)
    <3>1. SUFFICES ASSUME Usable(b) PROVE AsMeant(b) = Bytewise(b)
      OBVIOUS
    <3>2. Bytes(b.map) < Word
      BY <1>4, <3>1 DEF Usable
    <3>3. Encrypted(b.map) = {}
      BY <1>0, <2>2, <3>2, CountedNone
    <3> QED BY <2>1, <3>3, NoneDecrypts
  <2> QED BY <2>1, <2>3, SoundClear, PlansAre
<1> QED BY <1>1, <1>2, <1>3, <1>4

\* And opencdm_gstreamer_session_decrypt.
LEMMA GstOncePlanIsSound ==
  ASSUME NEW b \in Frames, path = "gstOnce", Bytes(b.map) <= b.size
  PROVE  Sound(b, GstOncePlan(b)) /\ GstOncePlan(b).do # "refuse"
<1>0. b.map \in Seq(Entries) /\ path # "multi" /\ path \in OneBlock
  BY FrameIs DEF OneBlock
<1>1. CASE Clear(b)
  <2>1. AsMeant(b) = Bytewise(b) /\ GstOncePlan(b) = No("leave")
    BY <1>1 DEF AsMeant, GstOncePlan
  <2> QED BY <2>1, SoundClear, PlansAre
<1>2. CASE ~Clear(b) /\ b.subs # "ok"
  <2>1. AsMeant(b) = [p \in 1..b.size |-> -p] /\ GstOncePlan(b) = Whole(b)
    BY <1>0, <1>2 DEF AsMeant, GstOncePlan
  <2> QED BY <2>1, SoundWhole, WholeDecrypts
<1>3. CASE ~Clear(b) /\ b.subs = "ok"
  <2>1. AsMeant(b) = Decrypt(Bytewise(b), b.map) /\ GstOncePlan(b) = Decrypted(b.map)
    BY <1>0, <1>3 DEF AsMeant, GstOncePlan
  <2> QED BY <1>0, <2>1, SoundDecrypt, PlansAre
<1> QED BY <1>1, <1>2, <1>3

\* A usable map is not cut off by the uint8_t its length is stored in.
LEMMA CountedIsSound ==
  ASSUME NEW b \in Frames, NEW map \in Seq(Entries), map # <<>>,
         path \notin OneBlock, path # "multi",
         AsMeant(b) = Decrypt(Bytewise(b), b.map),
         Usable(b) => Len(map) <= MaxCount /\ Encrypted(map) = Encrypted(b.map)
  PROVE  Sound(b, Counted(map, b)) /\ Counted(map, b).do # "refuse"
<1> DEFINE count == Len(map) % (MaxCount + 1)
<1>1. Counted(map, b) = IF count = 0 THEN Whole(b) ELSE Decrypted(SubSeq(map, 1, count))
  BY DEF Counted
<1>2. Len(map) \in Nat /\ Len(map) # 0 /\ MaxCount \in Nat
  BY LenProperties, EmptySeq, SampleAssumption
<1>3. count \in 0..Len(map) /\ (Len(map) <= MaxCount => count = Len(map))
  <2> DEFINE l == Len(map)
  <2>1. l \in Nat /\ MaxCount \in Nat
    BY <1>2
  <2> HIDE DEF l
  <2>2. l % (MaxCount + 1) \in 0..l /\ (l <= MaxCount => l % (MaxCount + 1) = l)
    BY <2>1
  <2> QED BY <2>2 DEF l
<1> HIDE DEF count
<1>4. CASE count = 0
  <2>1. ~Usable(b)
    BY <1>2, <1>3, <1>4
  <2>2. Counted(map, b) = Decrypted(Whole(b).map) /\ Whole(b).map \in Seq(Entries)
    BY <1>1, <1>4, WholeDecrypts DEF Decrypted
  <2> QED BY <2>1, <2>2, SoundDecrypt, PlansAre
<1>5. CASE count # 0
  <2> DEFINE m == SubSeq(map, 1, count)
  <2>1. m \in Seq(Entries)
    <3>1. \A i \in 1..count : map[i] \in Entries
      BY <1>2, <1>3, ElementOfSeq
    <3>2. count \in Int
      BY <1>3
    <3> QED BY <3>1, <3>2, SubSeqProperties
  <2>2. ASSUME Usable(b) PROVE Decrypt(Bytewise(b), m) = AsMeant(b)
    <3>1. m = map
      BY <1>3, <2>2, SubSeqFull
    <3>2. Encrypted(m) = Encrypted(b.map)
      BY <2>2, <3>1
    <3> QED BY <3>2, SameDecrypt
  <2>3. Counted(map, b) = Decrypted(m)
    BY <1>1, <1>5
  <2> HIDE DEF m
  <2> QED BY <2>1, <2>2, <2>3, SoundDecrypt, PlansAre
<1> QED BY <1>4, <1>5

\* And opencdm_gstreamer_session_decrypt_buffer, which has refused a frame without IV.
LEMMA GstBufferPlanIsSound ==
  ASSUME NEW b \in Frames, path = "gstBuffer", b.iv # "null", b.map = <<>> => b.subs = "null"
  PROVE  Sound(b, GstBufferPlan(b)) /\ GstBufferPlan(b).do # "refuse"
<1>0. b.map \in Seq(Entries) /\ path # "multi" /\ path \notin OneBlock /\ ~Clear(b)
  BY FrameIs DEF OneBlock, Clear
<1>2. CASE b.subs # "ok"
  <2>1. AsMeant(b) = [p \in 1..b.size |-> -p] /\ GstBufferPlan(b) = Whole(b)
    BY <1>0, <1>2 DEF AsMeant, GstBufferPlan
  <2> QED BY <2>1, SoundWhole, WholeDecrypts
<1>3. CASE b.subs = "ok"
  <2>1. AsMeant(b) = Decrypt(Bytewise(b), b.map) /\ GstBufferPlan(b) = Counted(b.map, b)
    BY <1>0, <1>3 DEF AsMeant, GstBufferPlan
  <2>2. b.map # <<>>
    BY <1>3
  <2>3. Usable(b) => Len(b.map) <= MaxCount
    BY <1>3 DEF Usable
  <2> QED BY <1>0, <2>1, <2>2, <2>3, CountedIsSound
<1> QED BY <1>2, <1>3

\* A map that is extended to the end of its frame is one, also if its sum has wrapped.
LEMMA ExtendTyped ==
  ASSUME NEW m \in Seq(Entries), NEW size \in Nat, Bytes(m) % Word <= size
  PROVE  Extend(m, size) \in Seq(Entries)
<1> DEFINE n == size - (Bytes(m) % Word)
           p == Padding(n)
<1>1. n \in Nat
  <2>1. Bytes(m) \in Nat /\ Word \in Nat \ {0}
    BY EndsAre, MapAssumption
  <2>2. Bytes(m) % Word \in Nat
    BY <2>1
  <2> QED BY <2>2
<1>2. Extend(m, size) = m \o p
  BY DEF Extend
<1> HIDE DEF n
<1>3. p \in Seq(Entries)
  BY <1>1, PaddingIs
<1> HIDE DEF p
<1> QED BY <1>2, <1>3, ConcatMap

\* A map that is fitted to its frame says the same of it.
LEMMA FittedIs ==
  ASSUME NEW b \in Frames, Fits(b.map, b.size)
  PROVE  /\ Fitted(b.map, b.size) \in Seq(Entries)
         /\ Bytes(b.map) < Word => Encrypted(Fitted(b.map, b.size)) = Encrypted(b.map)
<1>1. b.map \in Seq(Entries) /\ b.size \in Nat
  BY FrameIs
<1>2. CASE b.size = 0 \/ b.map = <<>>
  <2>1. Fitted(b.map, b.size) = b.map
    BY <1>2 DEF Fitted
  <2> QED BY <1>1, <2>1
<1>3. CASE ~(b.size = 0 \/ b.map = <<>>)
  <2>1. Fitted(b.map, b.size) = Extend(b.map, b.size)
    BY <1>3 DEF Fitted
  <2>2. Bytes(b.map) % Word <= b.size
    BY <1>1, <1>3 DEF Fits
  <2>3. Extend(b.map, b.size) \in Seq(Entries)
    BY <1>1, <2>2, ExtendTyped
  <2>4. Bytes(b.map) < Word => Encrypted(Extend(b.map, b.size)) = Encrypted(b.map)
    BY <1>1, <2>2, ExtendIs
  <2> QED BY <2>1, <2>3, <2>4
<1> QED BY <1>2, <1>3

\* opencdm_gstreamer_session_decrypt_buffer_once decrypts what is meant: with a usable
\* map neither the padding nor the uint8_t its length is stored in changes it.
LEMMA BufferPlanIsSound ==
  ASSUME NEW b \in Frames, path = "buffer"
  PROVE  Sound(b, BufferPlan(b))
<1>0. b.map \in Seq(Entries) /\ b.size \in Nat /\ path # "multi" /\ path \notin OneBlock
  BY FrameIs DEF OneBlock
<1>1. CASE Clear(b)
  <2>1. AsMeant(b) = Bytewise(b) /\ BufferPlan(b) = No("clear")
    BY <1>1 DEF AsMeant, BufferPlan
  <2> QED BY <2>1, SoundClear
<1>2. CASE ~Clear(b) /\ b.subs # "ok"
  <2>1. AsMeant(b) = [p \in 1..b.size |-> -p]
    BY <1>0, <1>2 DEF AsMeant
  <2>2. CASE b.size > 0
    <3>1. BufferPlan(b) = Whole(b)
      BY <1>2, <2>2 DEF BufferPlan
    <3> QED BY <2>1, <3>1, SoundWhole
  <2>3. CASE b.size = 0
    <3>1. BufferPlan(b) = No("clear")
      BY <1>2, <2>3 DEF BufferPlan
    <3>2. AsMeant(b) = Bytewise(b)
      BY <2>1, <2>3, EmptyFrame
    <3> QED BY <3>1, <3>2, SoundClear
  <2> QED BY <1>0, <2>2, <2>3
<1>3. CASE ~Clear(b) /\ b.subs = "ok"
  <2>0. AsMeant(b) = Decrypt(Bytewise(b), b.map)
    BY <1>0, <1>3 DEF AsMeant
  <2>1. CASE ~Fits(b.map, b.size)
    <3>1. BufferPlan(b) = No("refuse")
      BY <1>3, <2>1 DEF BufferPlan
    <3> QED BY <3>1, SoundRefuse
  <2>2. CASE Fits(b.map, b.size) /\ EncryptedBytes(b.map) % Word = 0
    <3>1. BufferPlan(b) = No("clear")
      BY <1>3, <2>2 DEF BufferPlan
    <3>2. Usable(b) => AsMeant(b) = Bytewise(b)
      <4>1. SUFFICES ASSUME Usable(b) PROVE AsMeant(b) = Bytewise(b)
        OBVIOUS
      <4>2. Bytes(b.map) < Word
        BY <1>3, <4>1 DEF Usable
      <4>3. Encrypted(b.map) = {}
        BY <1>0, <2>2, <4>2, CountedNone
      <4> QED BY <2>0, <4>3, NoneDecrypts
    <3> QED BY <3>1, <3>2, SoundClear
  <2>3. CASE Fits(b.map, b.size) /\ EncryptedBytes(b.map) % Word # 0
    <3> DEFINE map == Fitted(b.map, b.size)
    <3>1. map \in Seq(Entries) /\ (Bytes(b.map) < Word => Encrypted(map) = Encrypted(b.map))
      BY <2>3, FittedIs
    <3>2. BufferPlan(b) = Counted(map, b)
      BY <1>3, <2>3 DEF BufferPlan
    <3>3. b.map # <<>>
      <4>1. EncryptedBytes(<<>>) = 0
        <5>1. <<>> \in Seq(Entries) /\ Len(<<>>) = 0
          OBVIOUS
        <5> QED BY <5>1, DataEndsAre
      <4> QED BY <2>3, <4>1, MapAssumption
    <3>4. Usable(b) => Bytes(b.map) < Word /\ Len(map) <= MaxCount
      BY <1>0, <1>3 DEF Usable
    <3>5. map # <<>>
      <4>1. CASE b.size = 0 \/ b.map = <<>>
        BY <3>3, <4>1 DEF Fitted
      <4>2. CASE ~(b.size = 0 \/ b.map = <<>>)
        <5>1. map = Extend(b.map, b.size) /\ Bytes(b.map) % Word <= b.size
          BY <1>0, <2>3, <4>2 DEF Fitted, Fits
        <5> DEFINE n == b.size - (Bytes(b.map) % Word)
                   p == Padding(n)
        <5>2. n \in Nat
          <6>1. Bytes(b.map) \in Nat /\ Word \in Nat \ {0}
            BY <1>0, EndsAre, MapAssumption
          <6>2. Bytes(b.map) % Word \in Nat
            BY <6>1
          <6> QED BY <1>0, <5>1, <6>2
        <5>3. map = b.map \o p
          BY <5>1 DEF Extend
        <5> HIDE DEF map, n
        <5>4. p \in Seq(Entries)
          BY <5>2, PaddingIs
        <5> HIDE DEF p
        <5>5. Len(b.map \o p) = Len(b.map) + Len(p) /\ Len(p) \in Nat /\ Len(b.map) \in Nat
          BY <1>0, <5>4, ConcatParts
        <5>6. Len(b.map) # 0
          BY <1>0, <3>3, EmptySeq
        <5>7. Len(map) # 0
          BY <5>3, <5>5, <5>6
        <5> QED BY <5>7
      <4> QED BY <4>1, <4>2
    <3> HIDE DEF map
    <3>6. Usable(b) => Len(map) <= MaxCount /\ Encrypted(map) = Encrypted(b.map)
      BY <3>1, <3>4
    <3>7. Sound(b, Counted(map, b))
      BY <1>0, <2>0, <3>1, <3>5, <3>6, CountedIsSound
    <3> QED BY <3>2, <3>7
  <2> QED BY <2>1, <2>2, <2>3
<1> QED BY <1>1, <1>2, <1>3

\* opencdm_gstreamer_session_decrypt_buffer_multi_once plans a map that covers the
\* frame, so that the frames behind it stay where their own maps say.
LEMMA MultiPlanIsSound ==
  ASSUME NEW b \in Frames, NEW key, path = "multi", b.meta => b.iv # "null"
  PROVE  Sound(b, MultiPlan(b, key))
<1>0. /\ b.map \in Seq(Entries) /\ b.size \in Nat /\ path \notin OneBlock
      /\ b.meta => ~Clear(b)
      /\ b.meta \in BOOLEAN
  BY FrameIs DEF OneBlock, Clear
<1> DEFINE map == IF b.subs = "ok" THEN Extend(b.map, b.size) ELSE Whole(b).map
           Nothing == b.size = 0 \/ (b.subs = "ok" /\ \A k \in DOMAIN b.map : b.map[k].encrypted = 0)
<1>1. CASE ~b.meta
  <2>1. AsMeant(b) = Bytewise(b) /\ MultiPlan(b, key) = No("clear")
    BY <1>1 DEF AsMeant, MultiPlan
  <2> QED BY <2>1, SoundClear
<1>2. CASE MultiPlan(b, key) = No("refuse")
  BY <1>2, SoundRefuse
<1>3. CASE b.meta /\ Nothing /\ MultiPlan(b, key) = No("clear")
  <2>1. AsMeant(b) = IF b.subs = "ok" THEN Decrypt(Bytewise(b), b.map) ELSE [p \in 1..b.size |-> -p]
    BY <1>0, <1>3 DEF AsMeant
  <2>2. CASE b.size = 0
    <3>1. AsMeant(b) = Bytewise(b)
      BY <2>1, <2>2, EmptyFrame
    <3> QED BY <1>3, <3>1, SoundClear
  <2>3. CASE b.subs = "ok" /\ \A k \in DOMAIN b.map : b.map[k].encrypted = 0
    <3>1. Encrypted(b.map) = {}
      BY <1>0, <2>3, EntriesAre, NoneEncrypted
    <3>2. AsMeant(b) = Bytewise(b)
      BY <2>1, <2>3, <3>1, NoneDecrypts
    <3> QED BY <1>3, <3>2, SoundClear
  <2> QED BY <1>3, <2>2, <2>3
<1>4. CASE /\ b.meta /\ MultiPlan(b, key) = Decrypted(map)
           /\ b.subs = "ok" => FitsMulti(b.map, b.size)
  <2>1. AsMeant(b) = IF b.subs = "ok" THEN Decrypt(Bytewise(b), b.map) ELSE [p \in 1..b.size |-> -p]
    BY <1>0, <1>4 DEF AsMeant
  <2>2. CASE b.subs # "ok"
    <3>1. map = Whole(b).map /\ AsMeant(b) = [p \in 1..b.size |-> -p]
      BY <2>1, <2>2
    <3>2. MultiPlan(b, key) = Whole(b)
      BY <1>4, <3>1, WholeDecrypts DEF Decrypted
    <3> QED BY <3>1, <3>2, SoundWhole
  <2>3. CASE b.subs = "ok"
    <3>1. map = Extend(b.map, b.size) /\ AsMeant(b) = Decrypt(Bytewise(b), b.map)
      BY <2>1, <2>3
    <3>2. Bytes(b.map) % Word <= b.size
      <4>1. Bytes(b.map) \in Nat /\ Word \in Nat \ {0}
        BY <1>0, EndsAre, MapAssumption
      <4>2. Bytes(b.map) % Word \in Nat
        BY <4>1
      <4> QED BY <1>0, <1>4, <2>3, <4>2 DEF FitsMulti
    <3> HIDE DEF map
    <3>3. map \in Seq(Entries)
      BY <1>0, <3>1, <3>2, ExtendTyped
    <3>4. Usable(b) => Bytes(map) = b.size /\ Encrypted(map) = Encrypted(b.map)
      BY <1>0, <2>3, <3>1, <3>2, ExtendIs DEF Usable
    <3>5. Usable(b) => Decrypt(Bytewise(b), map) = AsMeant(b)
      BY <3>1, <3>4, SameDecrypt
    <3>6. Sound(b, Decrypted(map))
      BY <1>0, <3>3, <3>4, <3>5, SoundDecrypt
    <3> QED BY <1>4, <3>6
  <2> QED BY <2>2, <2>3
<1>5. \/ ~b.meta
      \/ MultiPlan(b, key) = No("refuse")
      \/ b.meta /\ Nothing /\ MultiPlan(b, key) = No("clear")
      \/ /\ b.meta /\ MultiPlan(b, key) = Decrypted(map)
         /\ b.subs = "ok" => FitsMulti(b.map, b.size)
  BY Zenon DEF MultiPlan
<1> QED BY <1>1, <1>2, <1>3, <1>4, <1>5

-----------------------------------------------------------------------------
(* The invariant is kept *)

\* What depends on the call only.
LEMMA SameInput ==
  ASSUME UNCHANGED input
  PROVE  /\ \A i : NeedsIv(i)' <=> NeedsIv(i)
         /\ \A b : Usable(b)' <=> Usable(b)
         /\ \A b : AsMeant(b)' = AsMeant(b)
         /\ \A b, d : Means(b, d)' <=> Means(b, d)
         /\ AllUsable' <=> AllUsable
<1>1. path' = path /\ frames' = frames
  BY DEF input
<1>2. \A i : NeedsIv(i)' <=> NeedsIv(i)
  BY <1>1 DEF NeedsIv
<1>3. \A b : Usable(b)' <=> Usable(b)
  BY <1>1 DEF Usable
<1>4. \A b : AsMeant(b)' = AsMeant(b)
  BY <1>1 DEF AsMeant
<1>5. \A b, d : Means(b, d)' <=> Means(b, d)
  BY <1>1, <1>3, <1>4 DEF Means
<1>6. AllUsable' <=> AllUsable
  BY <1>1, <1>3 DEF AllUsable
<1> QED BY <1>2, <1>3, <1>4, <1>5, <1>6

\* What the types say of the frames and their plans.
LEMMA TypeFacts ==
  ASSUME TypeOK
  PROVE  /\ Len(frames) \in Nat /\ DOMAIN frames = 1..Len(frames)
         /\ \A i \in DOMAIN frames : frames[i] \in Frames
         /\ Len(plan) \in Nat /\ DOMAIN plan = 1..Len(plan)
         /\ \A i \in DOMAIN plan : plan[i] \in Plans /\ plan[i].map \in Seq(Entries) /\ i \in DOMAIN frames
<1>1. Len(frames) \in Nat /\ DOMAIN frames = 1..Len(frames) /\ \A i \in DOMAIN frames : frames[i] \in Frames
  <2>1. frames \in Seq(Frames)
    BY DEF TypeOK
  <2> QED BY <2>1, LenProperties, ElementOfSeq
<1>2. Len(plan) \in Nat /\ DOMAIN plan = 1..Len(plan) /\ \A i \in DOMAIN plan : plan[i] \in Plans
  <2>1. plan \in Seq(Plans)
    BY DEF TypeOK, Plans
  <2> QED BY <2>1, LenProperties, ElementOfSeq
<1>3. \A i \in DOMAIN plan : plan[i].map \in Seq(Entries)
  BY <1>2 DEF Plans
<1>4. \A i \in DOMAIN plan : i \in DOMAIN frames
  BY <1>1, <1>2 DEF TypeOK
<1> QED BY <1>1, <1>2, <1>3, <1>4

\* Before the first call nothing is mapped, planned or handed over.
LEMMA InitIInv == Init => IInv
<1> SUFFICES ASSUME Init PROVE IInv
  OBVIOUS
<1>0. /\ Len(<<>>) = 0 /\ DOMAIN <<>> = {}
      /\ <<>> \in Seq(Frames) /\ <<>> \in Seq(Int) /\ <<>> \in Seq((DOMAIN <<>>) \X Parts)
      /\ <<>> \in Seq([do : {"decrypt", "clear", "leave", "refuse"}, map : Seq(Entries)])
      /\ MaxFrames \in Nat \ {0}
  BY SampleAssumption
<1>1. TypeOK
  <2>1. frames = <<>> /\ todo = <<>> /\ plan = <<>> /\ block = <<>> /\ content = <<>> /\ handed = <<>>
    BY DEF Init
  <2>2. /\ frames \in Seq(Frames) /\ block \in Seq(Int) /\ todo \in Seq((DOMAIN frames) \X Parts)
        /\ plan \in Seq([do : {"decrypt", "clear", "leave", "refuse"}, map : Seq(Entries)])
    BY <1>0, <2>1, Zenon
  <2>3. /\ Len(frames) <= MaxFrames /\ Len(plan) <= Len(frames)
        /\ DOMAIN frames = {} /\ DOMAIN content = DOMAIN frames /\ DOMAIN handed = DOMAIN frames
    BY <1>0, <2>1
  <2>4. \A i \in DOMAIN frames : content[i] \in [1..frames[i].size -> Int] /\ handed[i] \in Nat
    BY <2>3
  <2>5. /\ pc = "idle" /\ path = "once" /\ caps = "none" /\ mapped = {}
        /\ revoked = FALSE /\ result = "NONE" /\ told = None /\ svp = None /\ missed = FALSE
    BY DEF Init
  <2>6. /\ pc \in {"idle", "map", "tell", "prepare", "decrypt", "putback", "clear", "unmap", "returned"}
        /\ path \in Paths /\ caps \in {"none", "host", "secure"}
        /\ mapped \subseteq (DOMAIN frames) \X Buffers
        /\ revoked \in BOOLEAN
        /\ result \in {"NONE", "INVALID_DECRYPT_BUFFER", "FAIL", "OUT_OF_MEMORY"}
        /\ told \in BOOLEAN \cup {None} /\ svp \in BOOLEAN \cup {None} /\ missed \in BOOLEAN
    BY <2>5 DEF Paths
  <2> QED BY <2>2, <2>3, <2>4, <2>6 DEF TypeOK
<1>2. CallOK
  BY <1>0 DEF Init, CallOK
<1>3. Placed
  BY DEF Init, Placed, Succeeding, Over
<1>4. Handed
  BY DEF Init, Handed, Early, Over, Succeeding
<1>5. Mapping
  BY DEF Init, Mapping, MapsReleased
<1>6. Knows
  BY DEF Init, Knows
<1>7. Planned
  BY <1>0 DEF Init, Planned
<1>8. Data
  BY DEF Init, Data, Over
<1> QED BY <1>1, <1>2, <1>3, <1>4, <1>5, <1>6, <1>7, <1>8 DEF IInv

\* The list of what is to be mapped: of frame i, its parts in their order.
PartsOf(p, b) ==
  CASE p = "once" -> OnceParts(b)
    [] p = "gstOnce" -> GstOnceParts(b)
    [] p = "multi" -> MultiParts(b)
    [] OTHER -> BufferParts

ItsParts(p, fs, i) == [k \in DOMAIN PartsOf(p, fs[i]) |-> <<i, PartsOf(p, fs[i])[k]>>]

\* The parts are buffers, and the metadata of "buffer" and "gstBuffer".
LEMMA PartsOfAre ==
  ASSUME NEW p \in Paths, NEW b
  PROVE  /\ PartsOf(p, b) \in Seq(Parts)
         /\ p \notin {"buffer", "gstBuffer"} => PartsOf(p, b) \in Seq(Buffers)
         /\ p \in {"buffer", "gstBuffer"} => PartsOf(p, b) = BufferParts
         /\ p = "multi" /\ b.meta => PartsOf(p, b) = <<"subs", "iv", "data", "kid">>
<1>1. /\ BufferParts \in Seq(Parts) /\ <<>> \in Seq(Buffers) /\ <<"data">> \in Seq(Buffers)
      /\ <<"data", "iv", "kid", "subs">> \in Seq(Buffers) /\ <<"subs", "iv", "data", "kid">> \in Seq(Buffers)
  BY DEF BufferParts, Parts, Buffers
<1>2. OnceParts(b) \in Seq(Buffers) /\ GstOnceParts(b) \in Seq(Buffers) /\ MultiParts(b) \in Seq(Buffers)
  BY <1>1 DEF OnceParts, GstOnceParts, MultiParts
<1>3. /\ p = "once" => PartsOf(p, b) = OnceParts(b)
      /\ p = "gstOnce" => PartsOf(p, b) = GstOnceParts(b)
      /\ p = "multi" => PartsOf(p, b) = MultiParts(b)
      /\ p \in {"buffer", "gstBuffer"} => PartsOf(p, b) = BufferParts
  BY DEF PartsOf
<1>4. \A s \in Seq(Buffers) : s \in Seq(Parts)
  <2>1. Buffers \subseteq Parts
    BY DEF Parts
  <2> QED BY <2>1, SeqMonotonic
<1> QED BY <1>1, <1>2, <1>3, <1>4 DEF Paths, MultiParts

\* The list of a frame names the frame with each part.
LEMMA ItsPartsAre ==
  ASSUME NEW p \in Paths, NEW fs, NEW i, NEW S, PartsOf(p, fs[i]) \in Seq(S)
  PROVE  /\ ItsParts(p, fs, i) \in Seq({i} \X S)
         /\ Len(ItsParts(p, fs, i)) = Len(PartsOf(p, fs[i]))
<1> DEFINE q == PartsOf(p, fs[i])
<1>1. Len(q) \in Nat /\ DOMAIN q = 1..Len(q) /\ \A k \in 1..Len(q) : q[k] \in S
  BY LenProperties, ElementOfSeq
<1>2. ItsParts(p, fs, i) = [k \in 1..Len(q) |-> <<i, q[k]>>]
  BY <1>1 DEF ItsParts
<1> HIDE DEF q
<1>3. \A k \in 1..Len(q) : <<i, q[k]>> \in {i} \X S
  BY <1>1
<1>4. ItsParts(p, fs, i) \in [1..Len(q) -> {i} \X S]
  BY <1>2, <1>3
<1>5. ItsParts(p, fs, i) \in Seq({i} \X S) /\ Len(ItsParts(p, fs, i)) = Len(q)
  BY <1>1, <1>4
<1> QED BY <1>5 DEF q

\* What is to be mapped is of the frames of the call; "multi" has the IV of every frame
\* with metadata on its list, and the list of the others is that of their frame.
LEMMA ToMapIs ==
  ASSUME NEW p \in Paths, NEW n \in Nat, NEW fs \in [1..n -> Frames], p # "multi" => n <= 1
  PROVE  /\ ToMap(p, fs) \in Seq((1..n) \X Parts)
         /\ p \notin {"buffer", "gstBuffer"} => ToMap(p, fs) \in Seq((1..n) \X Buffers)
         /\ p = "multi" => \A i \in 1..n : fs[i].meta => \E k \in DOMAIN ToMap(p, fs) : ToMap(p, fs)[k] = <<i, "iv">>
         /\ n = 1 => ToMap(p, fs) = ItsParts(p, fs, 1)
<1> DEFINE L == [i \in 1..n |-> ItsParts(p, fs, i)]
<1>0. DOMAIN fs = 1..n
  OBVIOUS
<1>1. ToMap(p, fs) = FlattenSeq(L)
  BY <1>0 DEF ToMap, ItsParts, PartsOf
<1>2. ASSUME NEW S, \A i \in 1..n : PartsOf(p, fs[i]) \in Seq(S)
      PROVE  L \in Seq(Seq((1..n) \X S)) /\ Len(L) = n
  <2>1. \A i \in 1..n : ItsParts(p, fs, i) \in Seq((1..n) \X S)
    <3>1. ASSUME NEW i \in 1..n PROVE ItsParts(p, fs, i) \in Seq((1..n) \X S)
      <4>1. ItsParts(p, fs, i) \in Seq({i} \X S)
        BY <1>2, ItsPartsAre
      <4>2. {i} \X S \subseteq (1..n) \X S
        OBVIOUS
      <4> QED BY <4>1, <4>2, SeqMonotonic
    <3> QED BY <3>1
  <2> DEFINE X == Seq((1..n) \X S)
  <2>2. \A i \in 1..n : ItsParts(p, fs, i) \in X
    BY <2>1
  <2> HIDE DEF X
  <2>3. L \in [1..n -> X]
    BY <2>2
  <2> HIDE DEF L
  <2>4. L \in Seq(X) /\ Len(L) = n
    BY <2>3
  <2> QED BY <2>4 DEF X
<1>3. L \in Seq(Seq((1..n) \X Parts)) /\ Len(L) = n
  <2>1. \A i \in 1..n : PartsOf(p, fs[i]) \in Seq(Parts)
    BY PartsOfAre
  <2> QED BY <1>2, <2>1
<1>4. ToMap(p, fs) \in Seq((1..n) \X Parts)
  <2> HIDE DEF L
  <2>1. FlattenSeq(L) \in Seq((1..n) \X Parts)
    BY <1>3, FlattenIndex
  <2> QED BY <1>1, <2>1
<1>5. ASSUME p \notin {"buffer", "gstBuffer"} PROVE ToMap(p, fs) \in Seq((1..n) \X Buffers)
  <2>1. \A i \in 1..n : PartsOf(p, fs[i]) \in Seq(Buffers)
    BY <1>5, PartsOfAre
  <2>2. L \in Seq(Seq((1..n) \X Buffers))
    BY <1>2, <2>1
  <2> HIDE DEF L
  <2>3. FlattenSeq(L) \in Seq((1..n) \X Buffers)
    BY <2>2, FlattenIndex
  <2> QED BY <1>1, <2>3
<1>6. ASSUME p = "multi", NEW i \in 1..n, fs[i].meta
      PROVE  \E k \in DOMAIN ToMap(p, fs) : ToMap(p, fs)[k] = <<i, "iv">>
  <2>1. PartsOf(p, fs[i]) = <<"subs", "iv", "data", "kid">>
    BY <1>6, PartsOfAre
  <2>2. L[i] = ItsParts(p, fs, i)
    OBVIOUS
  <2>3. DOMAIN PartsOf(p, fs[i]) = 1..4 /\ PartsOf(p, fs[i])[2] = "iv" /\ PartsOf(p, fs[i]) \in Seq(Parts)
    BY <2>1 DEF Parts, Buffers
  <2>4. L[i][2] = <<i, "iv">>
    BY <2>2, <2>3 DEF ItsParts
  <2>5. Len(L[i]) = 4
    <3>1. Len(ItsParts(p, fs, i)) = Len(PartsOf(p, fs[i]))
      BY <2>3, ItsPartsAre
    <3>2. Len(PartsOf(p, fs[i])) = 4
      BY <2>1
    <3> QED BY <2>2, <3>1, <3>2
  <2> HIDE DEF L
  <2>6. i \in 1..Len(L) /\ 2 \in 1..Len(L[i])
    BY <1>3, <2>5
  <2>7. \E k \in 1..Len(FlattenSeq(L)) : FlattenSeq(L)[k] = L[i][2]
    <3>1. L \in Seq(Seq((1..n) \X Parts))
      BY <1>3
    <3> DEFINE X == (1..n) \X Parts
    <3>2. L \in Seq(Seq(X))
      BY <3>1
    <3> HIDE DEF X
    <3> QED BY <2>6, <3>2, FlattenHas
  <2>8. DOMAIN ToMap(p, fs) = 1..Len(FlattenSeq(L))
    BY <1>1, <1>4, LenProperties
  <2> QED BY <1>1, <2>4, <2>7, <2>8
<1>7. ASSUME n = 1 PROVE ToMap(p, fs) = ItsParts(p, fs, 1)
  <2> DEFINE x == ItsParts(p, fs, 1)
  <2>1. L = <<x>>
    <3>1. L = [i \in 1..1 |-> ItsParts(p, fs, i)]
      BY <1>7
    <3> QED BY <3>1
  <2>2. PartsOf(p, fs[1]) \in Seq(Parts)
    BY PartsOfAre
  <2>3. x \in Seq({1} \X Parts)
    BY <2>2, ItsPartsAre
  <2> HIDE DEF x, L
  <2>4. FlattenSeq(<<x>>) = x
    <3> DEFINE X == {1} \X Parts
    <3>1. x \in Seq(X)
      BY <2>3
    <3> HIDE DEF X
    <3> QED BY <3>1, FlattenOne
  <2> QED BY <1>1, <2>1, <2>4 DEF x
<1> QED BY <1>4, <1>5, <1>6, <1>7

\* The parts that each function unmaps are those it has looked at before.
LEMMA EarlierIs ==
  /\ \A p \in OneBlock : /\ Earlier(p, "iv") = {"data"} /\ Earlier(p, "kid") = {"data", "iv"}
                         /\ Earlier(p, "subs") = {"kid", "iv", "data"}
  /\ \A p \in {"buffer", "gstBuffer"} :
       /\ Earlier(p, "meta") = {"data"} /\ Earlier(p, "subs") = {"data"}
       /\ Earlier(p, "iv") = {"data", "subs"} /\ Earlier(p, "kid") = {"data", "subs", "iv"}
BY DEF Earlier, Unmaps, OneBlock, OnceUnmaps, GstOnceUnmaps, BufferUnmaps, GstBufferUnmaps

\* The list of a frame names each part behind those that come earlier.
LEMMA ListsAreInOrder ==
  ASSUME NEW p \in Paths, p # "multi", NEW fs, NEW q, q = ItsParts(p, fs, 1)
  PROVE  /\ \A k \in DOMAIN q : q[k][2] = "meta" => p \in {"buffer", "gstBuffer"}
         /\ \A k \in DOMAIN q : \A j \in 1..(k - 1) :
              q[j][1] = 1 /\ q[j][2] \in Earlier(p, q[k][2]) \cup {"meta"}
         /\ p = "gstBuffer" => \E k \in DOMAIN q : q[k] = <<1, "iv">>
         /\ p = "gstOnce" /\ Clear(fs[1]) => q = <<>>
<1> DEFINE r == PartsOf(p, fs[1])
<1>1. q = [k \in DOMAIN r |-> <<1, r[k]>>]
  BY DEF ItsParts
<1>2. \/ r = <<>> /\ p = "gstOnce"
      \/ r = <<"data">> /\ p = "once"
      \/ r = <<"data", "iv", "kid", "subs">> /\ p \in OneBlock /\ (p = "gstOnce" => ~Clear(fs[1]))
      \/ r = <<"data", "meta", "subs", "iv", "kid">> /\ p \in {"buffer", "gstBuffer"}
  BY DEF PartsOf, OnceParts, GstOnceParts, BufferParts, Paths, OneBlock
<1> HIDE DEF r
<1>3. CASE r = <<>> /\ p = "gstOnce"
  <2>1. DOMAIN r = {}
    BY <1>3
  <2>2. DOMAIN q = {} /\ q = <<>>
    <3>1. [k \in {} |-> <<1, r[k]>>] = <<>>
      OBVIOUS
    <3> QED BY <1>1, <2>1, <3>1
  <2> QED BY <1>3, <2>2
<1>4. CASE r = <<"data">> /\ p = "once"
  <2>1. DOMAIN r = 1..1 /\ r[1] = "data"
    BY <1>4
  <2>2. \A k \in DOMAIN q : k = 1 /\ q[k] = <<1, "data">> /\ 1..(k - 1) = {}
    BY <1>1, <2>1
  <2> QED BY <1>4, <2>2
<1>5. CASE r = <<"data", "iv", "kid", "subs">> /\ p \in OneBlock /\ (p = "gstOnce" => ~Clear(fs[1]))
  <2>1. DOMAIN r = 1..4 /\ r[1] = "data" /\ r[2] = "iv" /\ r[3] = "kid" /\ r[4] = "subs"
    BY <1>5
  <2>2. /\ DOMAIN q = 1..4 /\ q[1] = <<1, "data">> /\ q[2] = <<1, "iv">> /\ q[3] = <<1, "kid">> /\ q[4] = <<1, "subs">>
    BY <1>1, <2>1
  <2>3. ASSUME NEW k \in 1..4, NEW j \in 1..(k - 1)
        PROVE  q[j][1] = 1 /\ q[j][2] \in Earlier(p, q[k][2])
    <3>1. \/ k = 2 /\ j = 1
          \/ k = 3 /\ (j = 1 \/ j = 2)
          \/ k = 4 /\ (j = 1 \/ j = 2 \/ j = 3)
      OBVIOUS
    <3> QED BY <1>5, <2>2, <3>1, EarlierIs
  <2>4. \A k \in 1..4 : q[k][2] # "meta"
    <3>1. \A k \in 1..4 : k = 1 \/ k = 2 \/ k = 3 \/ k = 4
      OBVIOUS
    <3> QED BY <2>2, <3>1
  <2>5. p \notin {"buffer", "gstBuffer"}
    BY <1>5 DEF OneBlock
  <2> QED BY <1>5, <2>2, <2>3, <2>4, <2>5
<1>6. CASE r = <<"data", "meta", "subs", "iv", "kid">> /\ p \in {"buffer", "gstBuffer"}
  <2>1. /\ DOMAIN r = 1..5 /\ r[1] = "data" /\ r[2] = "meta" /\ r[3] = "subs" /\ r[4] = "iv" /\ r[5] = "kid"
    BY <1>6
  <2>2. /\ DOMAIN q = 1..5 /\ q[1] = <<1, "data">> /\ q[2] = <<1, "meta">> /\ q[3] = <<1, "subs">>
        /\ q[4] = <<1, "iv">> /\ q[5] = <<1, "kid">>
    BY <1>1, <2>1
  <2>3. ASSUME NEW k \in 1..5, NEW j \in 1..(k - 1)
        PROVE  q[j][1] = 1 /\ q[j][2] \in Earlier(p, q[k][2]) \cup {"meta"}
    <3>1. \/ k = 2 /\ j = 1
          \/ k = 3 /\ (j = 1 \/ j = 2)
          \/ k = 4 /\ (j = 1 \/ j = 2 \/ j = 3)
          \/ k = 5 /\ (j = 1 \/ j = 2 \/ j = 3 \/ j = 4)
      OBVIOUS
    <3> QED BY <1>6, <2>2, <3>1, EarlierIs
  <2>4. p # "gstOnce" /\ 4 \in DOMAIN q
    BY <1>6, <2>2
  <2> QED BY <1>6, <2>2, <2>3, <2>4
<1> QED BY <1>2, <1>3, <1>4, <1>5, <1>6

\* A map without entries.
LEMMA EmptyMap == <<>> \in Seq(Entries) /\ Bytes(<<>>) = 0 /\ Encrypted(<<>>) = {}
<1>1. <<>> \in Seq(Entries) /\ Len(<<>>) = 0
  OBVIOUS
<1>2. Bytes(<<>>) = 0
  BY <1>1, EndsAre
<1>3. Encrypted(<<>>) = {}
  <2>1. Encrypted(<<>>) \subseteq 1..Bytes(<<>>)
    BY <1>1, EncryptedAre
  <2> QED BY <1>2, <2>1
<1> QED BY <1>1, <1>2, <1>3

\* A call begins with frames as they came.
LEMMA CallKeepsIInv ==
  ASSUME IInv, NEW p \in Paths, NEW n \in 1..MaxFrames, NEW c \in {"none", "host", "secure"},
         NEW fs \in [1..n -> Frames], Call(p, fs, c)
  PROVE  IInv'
<1>0. /\ pc' = "map" /\ path' = p /\ frames' = fs /\ caps' = c
      /\ todo' = ToMap(p, fs)
      /\ content' = [i \in DOMAIN fs |-> Bytewise(fs[i])]
      /\ handed' = [i \in DOMAIN fs |-> 0]
      /\ UNCHANGED <<mapped, plan, block, revoked, result, session>>
      /\ pc = "idle"
      /\ p # "multi" => Len(fs) = 1
      /\ p \in OneBlock => fs[1].map = <<>> \/ Bytes(fs[1].map) <= fs[1].size
      /\ p \notin OneBlock => \A i \in 1..Len(fs) : fs[i].map = <<>> => fs[i].subs = "null"
  BY DEF Call
<1>1. /\ n \in Nat /\ n > 0 /\ n <= MaxFrames /\ fs \in Seq(Frames) /\ Len(fs) = n /\ DOMAIN fs = 1..n
  <2>1. n \in Nat /\ n > 0 /\ n <= MaxFrames /\ DOMAIN fs = 1..n
    BY SampleAssumption
  <2> QED BY <2>1, FunctionIsSeq
<1>2. mapped = {} /\ plan = <<>> /\ Succeeding /\ ~revoked
  BY <1>0 DEF IInv, CallOK, Placed
<1>3. p # "multi" => n <= 1
  BY <1>0, <1>1
<1>4. /\ ToMap(p, fs) \in Seq((1..n) \X Parts)
      /\ p \notin {"buffer", "gstBuffer"} => ToMap(p, fs) \in Seq((1..n) \X Buffers)
      /\ p = "multi" => \A i \in 1..n : fs[i].meta => \E k \in DOMAIN ToMap(p, fs) : ToMap(p, fs)[k] = <<i, "iv">>
      /\ n = 1 => ToMap(p, fs) = ItsParts(p, fs, 1)
  BY <1>1, <1>3, ToMapIs
<1>5. /\ plan' = <<>> /\ mapped' = {} /\ block' = block /\ revoked' = revoked /\ result' = result
      /\ told' = told /\ svp' = svp /\ missed' = missed
  BY <1>0, <1>2 DEF session
<1>6. \A i \in 1..n : /\ content'[i] = Bytewise(fs[i]) /\ handed'[i] = 0
                      /\ Bytewise(fs[i]) \in [1..fs[i].size -> Int]
  BY <1>0, <1>1, FrameIs
<1>7. TypeOK'
  <2>1. block \in Seq(Int) /\ revoked \in BOOLEAN /\ result \in {"NONE", "INVALID_DECRYPT_BUFFER", "FAIL", "OUT_OF_MEMORY"}
        /\ told \in BOOLEAN \cup {None} /\ svp \in BOOLEAN \cup {None} /\ missed \in BOOLEAN
    BY DEF IInv, TypeOK
  <2>2. frames' \in Seq(Frames) /\ Len(frames') <= MaxFrames /\ DOMAIN frames' = 1..n
    BY <1>0, <1>1
  <2>3. todo' \in Seq((DOMAIN frames') \X Parts)
    BY <1>0, <1>4, <2>2
  <2>4. plan' \in Seq([do : {"decrypt", "clear", "leave", "refuse"}, map : Seq(Entries)]) /\ Len(plan') <= Len(frames')
    <3>1. <<>> \in Seq([do : {"decrypt", "clear", "leave", "refuse"}, map : Seq(Entries)]) /\ Len(<<>>) = 0
      OBVIOUS
    <3> QED BY <1>0, <1>1, <1>5, <3>1
  <2>5. DOMAIN content' = DOMAIN frames' /\ DOMAIN handed' = DOMAIN frames'
    BY <1>0
  <2>6. \A i \in DOMAIN frames' : content'[i] \in [1..frames'[i].size -> Int] /\ handed'[i] \in Nat
    BY <1>0, <1>6, <2>2
  <2>7. /\ pc' \in {"idle", "map", "tell", "prepare", "decrypt", "putback", "clear", "unmap", "returned"}
        /\ path' \in Paths /\ caps' \in {"none", "host", "secure"} /\ mapped' \subseteq (DOMAIN frames') \X Buffers
    BY <1>0, <1>5
  <2> QED BY <1>5, <2>1, <2>2, <2>3, <2>4, <2>5, <2>6, <2>7 DEF TypeOK
<1>8. CallOK'
  <2>1. 1 \in 1..n /\ fs[1] \in Frames
    BY <1>1
  <2>2. p \in OneBlock => Bytes(fs[1].map) <= fs[1].size
    BY <1>0, <2>1, FrameIs, EmptyMap
  <2>3. p \notin OneBlock => \A i \in DOMAIN fs : fs[i].map = <<>> => fs[i].subs = "null"
    BY <1>0, <1>1
  <2> QED BY <1>0, <1>1, <1>3, <2>2, <2>3 DEF CallOK
<1>9. Placed'
  BY <1>0, <1>2, <1>5 DEF Placed, Succeeding, Over
<1>10. Handed'
  BY <1>0, <1>1, <1>2, <1>5, <1>6 DEF Handed, Untouched, Succeeding, Over
<1>11. Mapping'
  <2>1. ASSUME p # "multi" PROVE n = 1 /\ todo' = ItsParts(p, fs, 1)
    BY <1>0, <1>1, <1>3, <1>4, <2>1
  <2>2. ASSUME p # "multi"
        PROVE  /\ \A k \in DOMAIN todo' : todo'[k][2] = "meta" => p \in {"buffer", "gstBuffer"}
               /\ \A k \in DOMAIN todo' : \A j \in 1..(k - 1) :
                    todo'[j][1] = 1 /\ todo'[j][2] \in Earlier(p, todo'[k][2]) \cup {"meta"}
               /\ p = "gstBuffer" => \E k \in DOMAIN todo' : todo'[k] = <<1, "iv">>
               /\ p = "gstOnce" /\ Clear(fs[1]) => todo' = <<>>
    <3> DEFINE q == ItsParts(p, fs, 1)
    <3>1. todo' = q
      BY <2>1, <2>2
    <3>2. /\ \A k \in DOMAIN q : q[k][2] = "meta" => p \in {"buffer", "gstBuffer"}
          /\ \A k \in DOMAIN q : \A j \in 1..(k - 1) :
               q[j][1] = 1 /\ q[j][2] \in Earlier(p, q[k][2]) \cup {"meta"}
          /\ p = "gstBuffer" => \E k \in DOMAIN q : q[k] = <<1, "iv">>
          /\ p = "gstOnce" /\ Clear(fs[1]) => q = <<>>
      BY <2>2, ListsAreInOrder
    <3> HIDE DEF q
    <3> QED BY <3>1, <3>2
  <2>3. ASSUME NEW i \in DOMAIN frames', NeedsIv(i)' PROVE \E k \in DOMAIN todo' : todo'[k] = <<i, "iv">>
    <3>1. i \in 1..n
      BY <1>0, <1>1
    <3>2. CASE p = "multi"
      BY <1>0, <1>4, <2>3, <3>1, <3>2 DEF NeedsIv
    <3>3. CASE p = "gstBuffer"
      <4>1. i = 1
        BY <1>1, <1>3, <3>1, <3>3
      <4> QED BY <2>2, <3>3, <4>1
    <3> QED BY <1>0, <2>3, <3>2, <3>3 DEF NeedsIv
  <2>4. ASSUME p = "multi", NEW k \in DOMAIN todo' PROVE todo'[k][2] # "meta"
    <3>1. todo' \in Seq((1..n) \X Buffers)
      BY <1>0, <1>4, <2>4
    <3>2. todo'[k] \in (1..n) \X Buffers
      <4>1. DOMAIN todo' = 1..Len(todo')
        BY <3>1, LenProperties
      <4> QED BY <2>4, <3>1, <4>1, ElementOfSeq
    <3>3. todo'[k][2] \in Buffers
      BY <3>2
    <3> QED BY <3>3 DEF Buffers
  <2>5. p # "multi" => InOrder'
    BY <1>0, <1>5, <2>2 DEF InOrder
  <2>6. \A k \in DOMAIN todo' : todo'[k][2] = "meta" => p \in {"buffer", "gstBuffer"}
    BY <2>2, <2>4
  <2>7. p = "gstOnce" /\ Clear(fs[1]) => todo' = <<>>
    BY <2>2
  <2> QED BY <1>0, <1>5, <2>3, <2>5, <2>6, <2>7 DEF Mapping, MapsReleased
<1>12. Knows'
  BY <1>0, <1>5 DEF IInv, Knows
<1>13. Planned'
  <2>1. DOMAIN plan' = {}
    BY <1>5
  <2> QED BY <2>1 DEF Planned
<1>14. Data'
  BY <1>0 DEF Data, Over
<1> QED BY <1>7, <1>8, <1>9, <1>10, <1>11, <1>12, <1>13, <1>14 DEF IInv

\* The head and the tail of what is to be mapped.
LEMMA TodoIs ==
  ASSUME TypeOK, todo # <<>>
  PROVE  /\ Head(todo) = todo[1] /\ 1 \in DOMAIN todo
         /\ \A k \in DOMAIN todo : todo[k] \in (DOMAIN frames) \X Parts
         /\ Tail(todo) \in Seq((DOMAIN frames) \X Parts)
         /\ \A k \in DOMAIN Tail(todo) : k \in Nat /\ k + 1 \in DOMAIN todo /\ Tail(todo)[k] = todo[k + 1]
         /\ \A k \in DOMAIN todo : k # 1 => k - 1 \in DOMAIN Tail(todo) /\ Tail(todo)[k - 1] = todo[k]
<1> DEFINE S == (DOMAIN frames) \X Parts
<1>1. todo \in Seq(S)
  BY DEF TypeOK
<1> HIDE DEF S
<1>2. Len(todo) \in Nat /\ DOMAIN todo = 1..Len(todo) /\ Len(todo) # 0 /\ \A k \in 1..Len(todo) : todo[k] \in S
  BY <1>1, LenProperties, EmptySeq, ElementOfSeq
<1>3. /\ Tail(todo) \in Seq(S) /\ Len(Tail(todo)) = Len(todo) - 1
      /\ \A i \in 1..Len(Tail(todo)) : Tail(todo)[i] = todo[i + 1]
  BY <1>1, HeadTailProperties
<1>4. DOMAIN Tail(todo) = 1..(Len(todo) - 1)
  BY <1>3, LenProperties
<1>5. Head(todo) = todo[1] /\ 1 \in DOMAIN todo
  BY <1>1, <1>2
<1>6. ASSUME NEW k \in DOMAIN Tail(todo) PROVE k \in Nat /\ k + 1 \in DOMAIN todo /\ Tail(todo)[k] = todo[k + 1]
  BY <1>2, <1>3, <1>4
<1>7. ASSUME NEW k \in DOMAIN todo, k # 1 PROVE k - 1 \in DOMAIN Tail(todo) /\ Tail(todo)[k - 1] = todo[k]
  <2>1. k - 1 \in DOMAIN Tail(todo) /\ (k - 1) + 1 = k
    BY <1>2, <1>4, <1>7
  <2> QED BY <1>6, <2>1
<1> QED BY <1>2, <1>3, <1>5, <1>6, <1>7 DEF S

\* A part is mapped or the call fails; a frame without metadata is met before anything
\* but its data is mapped, and a missing IV before anything is planned.
LEMMA MapPartKeepsIInv ==
  ASSUME IInv, MapPart
  PROVE  IInv'
<1> DEFINE part == Head(todo)
           b == frames[part[1]]
<1>0. /\ TypeOK /\ CallOK /\ Placed /\ Handed /\ Mapping /\ Knows /\ Planned /\ Data
  BY DEF IInv
<1>1. /\ pc = "map" /\ todo # <<>> /\ todo' = Tail(todo)
      /\ path' = path /\ frames' = frames /\ caps' = caps /\ plan' = plan /\ block' = block
      /\ content' = content /\ handed' = handed /\ revoked' = revoked
      /\ told' = told /\ svp' = svp /\ missed' = missed /\ UNCHANGED input
  BY DEF MapPart, session, input
<1>2. IF Refused(path, part[2], b)
      THEN /\ result' = "INVALID_DECRYPT_BUFFER"
           /\ IF path = "multi" THEN pc' = "unmap" /\ mapped' = mapped
              ELSE pc' = "returned" /\ mapped' = Without(part[1], Unmaps(path)[part[2]])
      ELSE /\ mapped' = IF part[2] # "meta" /\ b[part[2]] = "ok" THEN mapped \cup {part} ELSE mapped
           /\ pc' = pc /\ result' = result
  BY DEF MapPart
<1>3. /\ part = todo[1] /\ 1 \in DOMAIN todo /\ part \in (DOMAIN frames) \X Parts
      /\ Tail(todo) \in Seq((DOMAIN frames) \X Parts)
      /\ \A k \in DOMAIN todo' : k \in Nat /\ k + 1 \in DOMAIN todo /\ todo'[k] = todo[k + 1]
      /\ \A k \in DOMAIN todo : k # 1 => k - 1 \in DOMAIN todo' /\ todo'[k - 1] = todo[k]
  BY <1>0, <1>1, TodoIs
<1> HIDE DEF part, b
<1>4. part[1] \in DOMAIN frames /\ part[2] \in Parts /\ part = <<part[1], part[2]>>
  BY <1>3
<1>5. /\ Succeeding /\ Untouched /\ plan = <<>> /\ ~revoked /\ Len(frames) > 0
      /\ path # "multi" => Len(frames) <= 1
      /\ path \in OneBlock => Bytes(frames[1].map) <= frames[1].size
      /\ Len(frames) \in Nat /\ DOMAIN frames = 1..Len(frames)
  BY <1>0, <1>1, TypeFacts DEF CallOK, Placed, Handed, Early
<1>6. /\ \A i : NeedsIv(i)' <=> NeedsIv(i)
  BY <1>1, SameInput
<1>7. pc' \in {"map", "returned", "unmap"} /\ (pc' = "map" <=> Succeeding')
  BY <1>1, <1>2, <1>5 DEF Succeeding
<1>8. TypeOK'
  <2>1. mapped' \subseteq (DOMAIN frames') \X Buffers
    BY <1>0, <1>1, <1>2, <1>4 DEF TypeOK, Parts, Without
  <2>2. todo' \in Seq((DOMAIN frames') \X Parts)
    BY <1>1, <1>3
  <2>3. result' \in {"NONE", "INVALID_DECRYPT_BUFFER", "FAIL", "OUT_OF_MEMORY"}
    BY <1>0, <1>2 DEF TypeOK
  <2> QED BY <1>0, <1>1, <1>7, <2>1, <2>2, <2>3 DEF TypeOK
<1>9. CallOK'
  BY <1>0, <1>1, <1>5, <1>7 DEF CallOK
<1>10. Placed'
  BY <1>1, <1>5, <1>7 DEF Placed, Succeeding, Over
<1>11. Handed'
  BY <1>1, <1>5, <1>7 DEF Handed, Untouched, Over, Early
<1>12. Mapping'
  <2>1. CASE ~Refused(path, part[2], b)
    <3>0. pc' = "map" /\ mapped' \subseteq mapped \cup {part}
      BY <1>1, <1>2, <2>1
    <3>1. ASSUME NEW i \in DOMAIN frames, NeedsIv(i), frames[i].iv = "null"
          PROVE  \E k \in DOMAIN todo' : todo'[k] = <<i, "iv">>
      <4>1. PICK k \in DOMAIN todo : todo[k] = <<i, "iv">>
        BY <1>0, <1>1, <3>1 DEF Mapping
      <4>2. k # 1
        <5>1. ASSUME k = 1 PROVE FALSE
          <6>1. part[1] = i /\ part[2] = "iv"
            BY <1>3, <4>1, <5>1
          <6>2. b["iv"] = "null" /\ path # "buffer"
            BY <3>1, <6>1 DEF b, NeedsIv
          <6>3. Refused(path, "iv", b)
            BY <6>2 DEF Refused, NullIsFine
          <6> QED BY <2>1, <6>1, <6>3
        <5> QED BY <5>1
      <4> QED BY <1>3, <4>1, <4>2
    <3>2. \A k \in DOMAIN todo' : todo'[k][2] = "meta" => path \in {"buffer", "gstBuffer"}
      BY <1>0, <1>1, <1>3 DEF Mapping
    <3>3. ASSUME path # "multi" PROVE InOrder'
      <4>1. SUFFICES ASSUME NEW k \in DOMAIN todo'
                     PROVE  /\ mapped' \subseteq {1} \X Earlier(path, todo'[k][2])
                            /\ \A j \in 1..(k - 1) :
                                 todo'[j][1] = 1 /\ todo'[j][2] \in Earlier(path, todo'[k][2]) \cup {"meta"}
        BY <1>1 DEF InOrder
      <4>2. k \in Nat /\ k # 0 /\ k + 1 \in DOMAIN todo /\ todo'[k] = todo[k + 1] /\ DOMAIN todo' = 1..Len(todo') /\ Len(todo') \in Nat
        <5>1. DOMAIN todo' = 1..Len(todo') /\ Len(todo') \in Nat
          BY <1>1, <1>3, LenProperties
        <5> QED BY <1>3, <5>1
      <4> DEFINE early == Earlier(path, todo'[k][2])
      <4>3. /\ mapped \subseteq {1} \X early
            /\ \A j \in 1..k : todo[j][1] = 1 /\ todo[j][2] \in early \cup {"meta"}
        <5>1. InOrder
          BY <1>0, <1>1, <3>3 DEF Mapping
        <5> QED BY <4>2, <5>1 DEF InOrder
      <4> HIDE DEF early
      <4>4. part[1] = 1 /\ part[2] \in early \cup {"meta"}
        <5>1. 1 \in 1..k
          BY <4>2
        <5> QED BY <1>3, <4>3, <5>1
      <4>5. mapped' \subseteq {1} \X early
        <5>1. CASE part[2] = "meta"
          BY <1>2, <2>1, <4>3, <5>1
        <5>2. CASE part[2] # "meta"
          <6>1. part \in {1} \X early
            BY <1>4, <4>4, <5>2
          <6> QED BY <3>0, <4>3, <6>1
        <5> QED BY <5>1, <5>2
      <4>6. ASSUME NEW j \in 1..(k - 1) PROVE todo'[j][1] = 1 /\ todo'[j][2] \in early \cup {"meta"}
        <5>1. j \in DOMAIN todo' /\ j + 1 \in 1..k
          BY <4>1, <4>2
        <5>2. todo'[j] = todo[j + 1]
          BY <1>3, <5>1
        <5> QED BY <4>3, <5>1, <5>2
      <4> QED BY <4>5, <4>6 DEF early
    <3>4. \A m \in mapped' : frames[m[1]][m[2]] = "ok"
      BY <1>0, <1>2, <2>1 DEF Mapping, b
    <3>5. ~(path = "gstOnce" /\ Clear(frames[1]))
      BY <1>0, <1>1 DEF Mapping
    <3> QED BY <1>1, <1>6, <3>0, <3>1, <3>2, <3>3, <3>4, <3>5 DEF Mapping, MapsReleased
  <2>2. CASE Refused(path, part[2], b)
    <3>1. mapped' \subseteq mapped /\ pc' \in {"returned", "unmap"} /\ (pc' = "returned" => path # "multi")
      BY <1>2, <2>2 DEF Without
    <3>2. \A m \in mapped' : frames[m[1]][m[2]] = "ok"
      BY <1>0, <3>1 DEF Mapping
    <3>3. ~(path = "gstOnce" /\ Clear(frames[1]))
      BY <1>0, <1>1 DEF Mapping
    <3>4. ASSUME path # "multi", pc' = "returned"
          PROVE  mapped' \subseteq IF path \in {"buffer", "gstBuffer"} /\ ~frames[1].meta
                                    THEN {<<1, "data">>} ELSE {}
      <4>1. part[1] = 1
        BY <1>4, <1>5, <3>4
      <4>2. mapped \subseteq {1} \X Earlier(path, part[2])
        <5>1. InOrder
          BY <1>0, <1>1, <3>4 DEF Mapping
        <5> QED BY <1>3, <5>1 DEF InOrder
      <4>3. mapped' = mapped \ ({1} \X Unmaps(path)[part[2]])
        BY <1>2, <2>2, <3>4, <4>1 DEF Without
      <4>4. CASE part[2] = "meta"
        <5>1. path \in {"buffer", "gstBuffer"}
          BY <1>0, <1>1, <1>3, <4>4 DEF Mapping
        <5>2. ~frames[1].meta
          BY <2>2, <4>1, <4>4 DEF Refused, b
        <5>3. mapped \subseteq {1} \X {"data"}
          BY <4>2, <4>4 DEF Earlier
        <5>4. mapped' \subseteq {<<1, "data">>}
          BY <4>3, <5>3
        <5> QED BY <5>1, <5>2, <5>4
      <4>5. CASE part[2] # "meta"
        <5>1. mapped' = {}
          BY <4>2, <4>3, <4>5 DEF Earlier
        <5> QED BY <5>1
      <4> QED BY <4>4, <4>5
    <3> QED BY <1>1, <3>1, <3>2, <3>3, <3>4 DEF Mapping, MapsReleased
  <2> QED BY <2>1, <2>2
<1>13. Knows'
  BY <1>0, <1>1, <1>7 DEF Knows
<1>14. Planned'
  <2>1. DOMAIN plan' = {}
    BY <1>1, <1>5
  <2> QED BY <2>1 DEF Planned
<1>15. Data'
  BY <1>7 DEF Data, Over
<1> QED BY <1>8, <1>9, <1>10, <1>11, <1>12, <1>13, <1>14, <1>15 DEF IInv

\* With everything mapped, every frame that needs an IV has one.
LEMMA AllMappedKeepsIInv ==
  ASSUME IInv, AllMapped
  PROVE  IInv'
<1>0. /\ TypeOK /\ CallOK /\ Placed /\ Handed /\ Mapping /\ Knows /\ Planned /\ Data
  BY DEF IInv
<1>1. /\ pc = "map" /\ todo = <<>> /\ pc' = IF path = "buffer" THEN "tell" ELSE "prepare"
      /\ path' = path /\ frames' = frames /\ caps' = caps /\ plan' = plan /\ block' = block
      /\ content' = content /\ handed' = handed /\ revoked' = revoked /\ todo' = todo /\ mapped' = mapped
      /\ told' = told /\ svp' = svp /\ missed' = missed /\ UNCHANGED input /\ result' = result
  BY DEF AllMapped, session, input
<1>2. pc' \in {"tell", "prepare"} /\ (pc' = "tell" <=> path = "buffer") /\ Succeeding /\ plan = <<>> /\ ~revoked
  BY <1>0, <1>1 DEF Placed
<1>3. TypeOK'
  BY <1>0, <1>1, <1>2 DEF TypeOK
<1>4. CallOK'
  BY <1>0, <1>1, <1>2 DEF CallOK
<1>5. Placed'
  BY <1>0, <1>1, <1>2 DEF Placed, Succeeding, Over
<1>6. Handed'
  BY <1>0, <1>1, <1>2 DEF Handed, Untouched, Over, Early, Succeeding
<1>7. Mapping'
  <2>1. \A i : NeedsIv(i)' <=> NeedsIv(i)
    BY <1>1, SameInput
  <2>2. \A i \in DOMAIN frames : NeedsIv(i) => frames[i].iv # "null"
    BY <1>0, <1>1 DEF Mapping
  <2> QED BY <1>0, <1>1, <1>2, <2>1, <2>2 DEF Mapping, MapsReleased
<1>8. Knows'
  BY <1>0, <1>1, <1>2 DEF Knows
<1>9. Planned'
  <2>1. DOMAIN plan' = {}
    BY <1>1, <1>2
  <2> QED BY <2>1 DEF Planned
<1>10. Data'
  BY <1>1, <1>2 DEF Data, Over
<1> QED BY <1>3, <1>4, <1>5, <1>6, <1>7, <1>8, <1>9, <1>10 DEF IInv

\* The session and SVP agree on what the caps say once SVP was told, unless it refused.
LEMMA TellKeepsIInv ==
  ASSUME IInv, Tell
  PROVE  IInv'
<1>0. /\ TypeOK /\ CallOK /\ Placed /\ Handed /\ Mapping /\ Knows /\ Planned /\ Data
  BY DEF IInv
<1>1. /\ pc = "tell" /\ pc' = IF path = "buffer" THEN "prepare" ELSE "decrypt"
      /\ path' = path /\ frames' = frames /\ caps' = caps /\ plan' = plan /\ block' = block
      /\ content' = content /\ handed' = handed /\ revoked' = revoked /\ todo' = todo /\ mapped' = mapped
      /\ UNCHANGED input /\ result' = result
  BY DEF Tell, input
<1>2. PICK toHost \in DecryptToHost, accepted \in BOOLEAN :
        IF told = toHost THEN UNCHANGED session
        ELSE /\ told' = toHost
             /\ svp' = IF accepted THEN toHost ELSE svp
             /\ missed' = ~accepted
  BY DEF Tell
<1>3. path \in {"buffer", "multi"} /\ ~revoked /\ pc' \in {"prepare", "decrypt"} /\ (pc' = "prepare" <=> path = "buffer")
      /\ (path = "buffer" => Succeeding /\ plan = <<>>)
      /\ (path = "multi" /\ Succeeding => Len(plan) = Len(frames))
  BY <1>0, <1>1 DEF Placed
<1>4. toHost \in BOOLEAN /\ caps \in {"none", "host", "secure"}
  BY <1>0 DEF DecryptToHost, TypeOK
<1>5. told' = toHost
  BY <1>2 DEF session
<1>6. /\ svp' \in BOOLEAN \cup {None} /\ missed' \in BOOLEAN
      /\ missed' \/ svp' = told'
  <2>1. CASE told = toHost
    BY <1>0, <1>2, <2>1 DEF session, TypeOK, Knows
  <2>2. CASE told # toHost
    BY <1>0, <1>2, <1>4, <2>2 DEF TypeOK
  <2> QED BY <2>1, <2>2
<1>7. caps # "none" => told' = (caps = "host")
  <2>1. caps = "host" => toHost = TRUE
    BY DEF DecryptToHost
  <2>2. caps = "secure" => toHost = FALSE
    BY DEF DecryptToHost
  <2> QED BY <1>4, <1>5, <2>1, <2>2
<1>8. TypeOK'
  BY <1>0, <1>1, <1>3, <1>4, <1>5, <1>6 DEF TypeOK
<1>9. CallOK'
  BY <1>0, <1>1, <1>3 DEF CallOK, OneBlock
<1>10. Placed'
  BY <1>0, <1>1, <1>3 DEF Placed, Succeeding, Over
<1>11. Handed'
  BY <1>0, <1>1, <1>3 DEF Handed, Untouched, Over, Early, Succeeding
<1>12. Mapping'
  <2>1. \A i : NeedsIv(i)' <=> NeedsIv(i)
    BY <1>1, SameInput
  <2>2. \A i \in DOMAIN frames : NeedsIv(i) => frames[i].iv # "null"
    BY <1>0, <1>1 DEF Mapping
  <2> QED BY <1>0, <1>1, <1>3, <2>1, <2>2 DEF Mapping, MapsReleased
<1>13. Knows'
  BY <1>1, <1>6, <1>7 DEF Knows
<1>14. Planned'
  BY <1>0, <1>1, SameInput DEF Planned, Succeeding
<1>15. Data'
  <2>1. Collect(plan)' = Collect(plan)
    BY <1>1 DEF Collect
  <2>2. Succeeding' /\ pc' = "decrypt" => block' = Collect(plan)'
    BY <1>0, <1>1, <1>3, <2>1 DEF Data, Succeeding
  <2> QED BY <1>3, <2>2 DEF Data, Over
<1> QED BY <1>8, <1>9, <1>10, <1>11, <1>12, <1>13, <1>14, <1>15 DEF IInv

\* If no frame is to be decrypted, leaving them alone is what is meant of each.
LEMMA NothingToDecryptKeepsIInv ==
  ASSUME IInv, NothingToDecrypt
  PROVE  IInv'
<1>0. /\ TypeOK /\ CallOK /\ Placed /\ Handed /\ Mapping /\ Knows /\ Planned /\ Data
  BY DEF IInv
<1>1. /\ pc = "decrypt" /\ (result # "NONE" \/ ToDecrypt(plan) = {})
      /\ pc' = IF result = "NONE" THEN "clear" ELSE "unmap"
      /\ path' = path /\ frames' = frames /\ caps' = caps /\ plan' = plan /\ block' = block
      /\ content' = content /\ handed' = handed /\ revoked' = revoked /\ todo' = todo /\ mapped' = mapped
      /\ told' = told /\ svp' = svp /\ missed' = missed /\ UNCHANGED input /\ result' = result
  BY DEF NothingToDecrypt, session, input
<1>2. /\ pc' \in {"clear", "unmap"} /\ (pc' = "clear" <=> Succeeding) /\ (Succeeding' <=> Succeeding)
      /\ ~revoked /\ Untouched
      /\ Succeeding => Len(plan) = Len(frames)
  BY <1>0, <1>1 DEF Placed, Succeeding, Handed, Early
<1>3. TypeOK'
  BY <1>0, <1>1, <1>2 DEF TypeOK
<1>4. CallOK'
  BY <1>0, <1>1, <1>2 DEF CallOK
<1>5. Placed'
  BY <1>0, <1>1, <1>2 DEF Placed, Over
<1>6. DOMAIN plan = 1..Len(plan) /\ DOMAIN frames = 1..Len(frames)
  BY <1>0, TypeFacts
<1>7. Succeeding => \A i \in DOMAIN frames : i \in DOMAIN plan /\ plan[i].do # "decrypt"
  BY <1>1, <1>2, <1>6 DEF Succeeding, ToDecrypt
<1>8. Handed'
  BY <1>1, <1>2, <1>7 DEF Handed, Untouched, Over, Early
<1>9. Mapping'
  <2>1. \A i : NeedsIv(i)' <=> NeedsIv(i)
    BY <1>1, SameInput
  <2>2. \A i \in DOMAIN frames : NeedsIv(i) => frames[i].iv # "null"
    BY <1>0, <1>1 DEF Mapping
  <2> QED BY <1>0, <1>1, <1>2, <2>1, <2>2 DEF Mapping, MapsReleased
<1>10. Knows'
  BY <1>0, <1>1, <1>2 DEF Knows
<1>11. Planned'
  BY <1>0, <1>1, SameInput DEF Planned, Succeeding
<1>12. Data'
  <2>1. ASSUME Succeeding, AllUsable, NEW i \in DOMAIN frames PROVE content[i] = AsMeant(frames[i])
    <3>1. Means(frames[i], plan[i]) /\ plan[i].do # "decrypt" /\ Usable(frames[i]) /\ content[i] = Bytewise(frames[i])
      BY <1>0, <1>2, <1>7, <2>1 DEF Planned, AllUsable, Untouched
    <3> QED BY <3>1 DEF Means
  <2>2. (AllUsable' <=> AllUsable) /\ \A b : AsMeant(b)' = AsMeant(b)
    BY <1>1, SameInput
  <2>3. Succeeding' /\ AllUsable' => \A i \in DOMAIN frames' : content'[i] = AsMeant(frames[i])'
    BY <1>1, <1>2, <2>1, <2>2
  <2> QED BY <1>1, <1>2, <2>3 DEF Data, Over
<1> QED BY <1>3, <1>4, <1>5, <1>8, <1>9, <1>10, <1>11, <1>12 DEF IInv

\* The clear frames are handed over, and the decrypted ones are not a second time.
LEMMA HandClearKeepsIInv ==
  ASSUME IInv, HandClear
  PROVE  IInv'
<1>0. /\ TypeOK /\ CallOK /\ Placed /\ Handed /\ Mapping /\ Knows /\ Planned /\ Data
  BY DEF IInv
<1>1. /\ pc = "clear" /\ pc' = "unmap"
      /\ handed' = [i \in DOMAIN frames |->
                     IF path \in Rdk /\ i \notin ToDecrypt(plan) THEN handed[i] + 1 ELSE handed[i]]
      /\ path' = path /\ frames' = frames /\ caps' = caps /\ plan' = plan /\ block' = block
      /\ content' = content /\ revoked' = revoked /\ todo' = todo /\ mapped' = mapped
      /\ told' = told /\ svp' = svp /\ missed' = missed /\ UNCHANGED input /\ result' = result
  BY DEF HandClear, session, input
<1>2. Succeeding /\ Len(plan) = Len(frames) /\ DOMAIN plan = 1..Len(plan) /\ DOMAIN frames = 1..Len(frames)
  BY <1>0, <1>1, TypeFacts DEF Placed
<1>3. \A i \in DOMAIN frames : /\ i \in ToDecrypt(plan) <=> plan[i].do = "decrypt"
                               /\ handed[i] = IF plan[i].do = "decrypt" /\ path \in Rdk THEN 1 ELSE 0
  BY <1>0, <1>1, <1>2 DEF ToDecrypt, Handed
<1>4. \A i \in DOMAIN frames : handed'[i] = IF path \in Rdk THEN 1 ELSE 0
  BY <1>1, <1>3
<1>5. TypeOK'
  <2>1. DOMAIN handed' = DOMAIN frames' /\ \A i \in DOMAIN frames' : handed'[i] \in Nat
    BY <1>1, <1>4
  <2> QED BY <1>0, <1>1, <2>1 DEF TypeOK
<1>6. CallOK'
  BY <1>0, <1>1 DEF CallOK
<1>7. Placed'
  BY <1>0, <1>1, <1>2 DEF Placed, Succeeding, Over
<1>8. Handed'
  BY <1>1, <1>2, <1>4 DEF Handed, Succeeding, Early
<1>9. Mapping'
  BY <1>0, <1>1 DEF Mapping, MapsReleased
<1>10. Knows'
  BY <1>0, <1>1 DEF Knows
<1>11. Planned'
  BY <1>0, <1>1, SameInput DEF Planned, Succeeding
<1>12. Data'
  BY <1>0, <1>1, SameInput DEF Data, Succeeding, Over
<1> QED BY <1>5, <1>6, <1>7, <1>8, <1>9, <1>10, <1>11, <1>12 DEF IInv

\* At its end each function unmaps whatever may be mapped then: of a part that is a null
\* pointer there is nothing, and of a clear frame "once" and "buffer" have mapped the
\* data alone.
LEMMA AllAtEnd ==
  ASSUME TypeOK, CallOK, Mapping, NEW m \in mapped
  PROVE  m[2] \in AtEnd(frames[m[1]])
<1> DEFINE b == frames[m[1]]
<1>1. m[1] \in DOMAIN frames /\ m[2] \in Buffers /\ b[m[2]] = "ok"
  BY DEF TypeOK, Mapping
<1>2. path # "multi" => m[1] = 1
  <2>1. Len(frames) \in Nat /\ DOMAIN frames = 1..Len(frames)
    BY TypeFacts
  <2> QED BY <1>1, <2>1 DEF CallOK
<1> HIDE DEF b
<1>3. Clear(b) => m[2] = "data"
  <2>1. m[2] = "data" \/ m[2] = "subs" \/ m[2] = "iv" \/ m[2] = "kid"
    BY <1>1 DEF Buffers
  <2> QED BY <1>1, <2>1 DEF Clear
<1>4. \A parts : m[2] \in parts => m[2] \in Present(b, parts)
  BY <1>1 DEF Present
<1>5. CASE path = "once"
  BY <1>1, <1>3, <1>4, <1>5 DEF AtEnd, OnceEnd, Buffers, b
<1>6. CASE path = "gstOnce"
  <2>1. ~Clear(b)
    BY <1>2, <1>6 DEF Mapping, b
  <2> QED BY <1>1, <1>4, <1>6, <2>1 DEF AtEnd, GstOnceEnd, Buffers, b
<1>7. CASE path = "buffer"
  BY <1>1, <1>3, <1>4, <1>7 DEF AtEnd, BufferEnd, Buffers, b
<1>8. CASE path = "gstBuffer"
  BY <1>1, <1>4, <1>8 DEF AtEnd, GstBufferEnd, Buffers, b
<1>9. CASE path = "multi"
  BY <1>1, <1>9 DEF AtEnd, MultiEnd
<1> QED BY <1>5, <1>6, <1>7, <1>8, <1>9 DEF TypeOK, Paths

\* Nothing stays mapped.
LEMMA UnmapKeepsIInv ==
  ASSUME IInv, Unmap
  PROVE  IInv'
<1>0. /\ TypeOK /\ CallOK /\ Placed /\ Handed /\ Mapping /\ Knows /\ Planned /\ Data
  BY DEF IInv
<1>1. /\ pc = "unmap" /\ pc' = "returned" /\ mapped' = {m \in mapped : m[2] \notin AtEnd(frames[m[1]])}
      /\ path' = path /\ frames' = frames /\ caps' = caps /\ plan' = plan /\ block' = block
      /\ content' = content /\ handed' = handed /\ revoked' = revoked /\ todo' = todo
      /\ told' = told /\ svp' = svp /\ missed' = missed /\ UNCHANGED input /\ result' = result
  BY DEF Unmap, session, input
<1>10. mapped' = {}
  BY <1>0, <1>1, AllAtEnd
<1>2. TypeOK'
  BY <1>0, <1>1, <1>10 DEF TypeOK
<1>3. CallOK'
  BY <1>0, <1>1 DEF CallOK
<1>4. Placed'
  BY <1>0, <1>1 DEF Placed, Succeeding, Over
<1>5. Handed'
  BY <1>0, <1>1 DEF Handed, Untouched, Succeeding, Early, Over
<1>6. Mapping'
  BY <1>0, <1>1, <1>10 DEF Mapping, MapsReleased
<1>7. Knows'
  BY <1>0, <1>1 DEF Knows
<1>8. Planned'
  BY <1>0, <1>1, SameInput DEF Planned, Succeeding
<1>9. Data'
  BY <1>0, <1>1, SameInput DEF Data, Succeeding, Over
<1> QED BY <1>2, <1>3, <1>4, <1>5, <1>6, <1>7, <1>8, <1>9 DEF IInv

\* The session alone outlives the call.
LEMMA ReturnKeepsIInv ==
  ASSUME IInv, Return
  PROVE  IInv'
<1>1. /\ pc' = "idle" /\ path' = "once" /\ frames' = <<>> /\ caps' = "none"
      /\ todo' = <<>> /\ mapped' = {} /\ plan' = <<>> /\ block' = <<>>
      /\ content' = <<>> /\ handed' = <<>> /\ revoked' = FALSE /\ result' = "NONE"
      /\ told' = told /\ svp' = svp /\ missed' = missed
  BY DEF Return, session
<1>2. TypeOK'
  <2>0. /\ Len(<<>>) = 0 /\ DOMAIN <<>> = {}
        /\ <<>> \in Seq(Frames) /\ <<>> \in Seq(Int) /\ <<>> \in Seq((DOMAIN <<>>) \X Parts)
        /\ <<>> \in Seq([do : {"decrypt", "clear", "leave", "refuse"}, map : Seq(Entries)])
        /\ MaxFrames \in Nat \ {0}
    BY SampleAssumption
  <2>1. /\ frames' \in Seq(Frames) /\ block' \in Seq(Int) /\ todo' \in Seq((DOMAIN frames') \X Parts)
        /\ plan' \in Seq([do : {"decrypt", "clear", "leave", "refuse"}, map : Seq(Entries)])
    BY <1>1, <2>0, Zenon
  <2>2. /\ Len(frames') <= MaxFrames /\ Len(plan') <= Len(frames')
        /\ DOMAIN frames' = {} /\ DOMAIN content' = DOMAIN frames' /\ DOMAIN handed' = DOMAIN frames'
    BY <1>1, <2>0
  <2>3. \A i \in DOMAIN frames' : content'[i] \in [1..frames'[i].size -> Int] /\ handed'[i] \in Nat
    BY <2>2
  <2>4. /\ pc' \in {"idle", "map", "tell", "prepare", "decrypt", "putback", "clear", "unmap", "returned"}
        /\ path' \in Paths /\ caps' \in {"none", "host", "secure"}
        /\ mapped' \subseteq (DOMAIN frames') \X Buffers
        /\ revoked' \in BOOLEAN
        /\ result' \in {"NONE", "INVALID_DECRYPT_BUFFER", "FAIL", "OUT_OF_MEMORY"}
    BY <1>1 DEF Paths
  <2>5. told' \in BOOLEAN \cup {None} /\ svp' \in BOOLEAN \cup {None} /\ missed' \in BOOLEAN
    BY <1>1 DEF IInv, TypeOK
  <2> QED BY <2>1, <2>2, <2>3, <2>4, <2>5 DEF TypeOK
<1>3. CallOK'
  <2>1. Len(<<>>) = 0
    OBVIOUS
  <2> QED BY <1>1, <2>1 DEF CallOK
<1>4. Placed'
  BY <1>1 DEF Placed, Succeeding, Over
<1>5. Handed'
  BY <1>1 DEF Handed, Early, Over, Succeeding
<1>6. Mapping'
  BY <1>1 DEF Mapping, MapsReleased
<1>7. Knows'
  BY <1>1 DEF IInv, Knows
<1>8. Planned'
  <2>1. DOMAIN plan' = {}
    BY <1>1
  <2> QED BY <2>1 DEF Planned
<1>9. Data'
  BY <1>1 DEF Data, Over
<1> QED BY <1>2, <1>3, <1>4, <1>5, <1>6, <1>7, <1>8, <1>9 DEF IInv

\* Each of the five functions plans what is meant of the next frame or fails the call.
LEMMA PrepareKeepsIInv ==
  ASSUME IInv, Prepare
  PROVE  IInv'
<1> DEFINE i == Len(plan) + 1
           b == frames[i]
           next == PlanFor(b)
<1>0. /\ TypeOK /\ CallOK /\ Placed /\ Handed /\ Mapping /\ Knows /\ Planned /\ Data
  BY DEF IInv
<1>1. /\ pc = "prepare" /\ Len(plan) < Len(frames)
      /\ plan' = Append(plan, next)
      /\ IF next.do = "refuse"
         THEN /\ result' = "INVALID_DECRYPT_BUFFER"
              /\ IF path = "multi" THEN pc' = "tell" /\ mapped' = mapped
                 ELSE pc' = "returned" /\ mapped' = Without(1, MisfitUnmaps)
         ELSE result' = result /\ pc' = pc /\ mapped' = mapped
      /\ path' = path /\ frames' = frames /\ caps' = caps /\ block' = block
      /\ content' = content /\ handed' = handed /\ revoked' = revoked /\ todo' = todo
      /\ told' = told /\ svp' = svp /\ missed' = missed /\ UNCHANGED input
  BY DEF Prepare, session, input
<1>2. /\ Len(frames) \in Nat /\ DOMAIN frames = 1..Len(frames) /\ \A j \in DOMAIN frames : frames[j] \in Frames
      /\ Len(plan) \in Nat /\ DOMAIN plan = 1..Len(plan)
  BY <1>0, TypeFacts
<1>3. i \in DOMAIN frames /\ i \in Nat /\ b \in Frames
  BY <1>1, <1>2
<1>4. Succeeding /\ Untouched /\ ~revoked /\ (NeedsIv(i) => b.iv # "null")
  BY <1>0, <1>1, <1>3 DEF Placed, Handed, Early, Mapping
<1>5. path # "multi" => Len(frames) = 1 /\ i = 1
  BY <1>0, <1>1, <1>2 DEF CallOK
<1>6. /\ path \in OneBlock => Bytes(b.map) <= b.size
      /\ path \notin OneBlock => (b.map = <<>> => b.subs = "null")
  BY <1>0, <1>1, <1>3, <1>5 DEF CallOK, OneBlock
<1>7. Sound(b, next) /\ (path \in {"once", "gstOnce", "gstBuffer"} => next.do # "refuse")
  <2> HIDE DEF b, i
  <2>1. CASE path = "once"
    BY <1>3, <1>6, <2>1, OncePlanIsSound DEF PlanFor, OneBlock
  <2>2. CASE path = "gstOnce"
    BY <1>3, <1>6, <2>2, GstOncePlanIsSound DEF PlanFor, OneBlock
  <2>3. CASE path = "buffer"
    BY <1>3, <2>3, BufferPlanIsSound DEF PlanFor
  <2>4. CASE path = "gstBuffer"
    BY <1>3, <1>4, <1>6, <2>4, GstBufferPlanIsSound DEF PlanFor, NeedsIv, OneBlock
  <2>5. CASE path = "multi"
    <3>1. b.meta => b.iv # "null"
      BY <1>4, <2>5 DEF NeedsIv, b
    <3>2. next = MultiPlan(b, Key)
      BY <2>5 DEF PlanFor
    <3> QED BY <1>3, <2>5, <3>1, <3>2, MultiPlanIsSound
  <2> QED BY <1>0, <2>1, <2>2, <2>3, <2>4, <2>5 DEF TypeOK, Paths
<1> HIDE DEF next
<1>8. /\ plan' \in Seq(Plans) /\ Len(plan') = i /\ DOMAIN plan' = 1..i
      /\ plan'[i] = next /\ \A j \in DOMAIN plan : plan'[j] = plan[j]
  <2>1. plan \in Seq(Plans) /\ next \in Plans
    BY <1>0, <1>7 DEF TypeOK, Plans, Sound
  <2> DEFINE q == Append(plan, next)
  <2>2. /\ q \in Seq(Plans) /\ Len(q) = Len(plan) + 1
        /\ \A j \in 1..Len(plan) : q[j] = plan[j]
        /\ q[Len(plan) + 1] = next
    BY <2>1, AppendProperties
  <2> HIDE DEF q
  <2>3. DOMAIN q = 1..Len(q)
    BY <2>2, LenProperties
  <2>4. plan' = q
    BY <1>1 DEF q
  <2> QED BY <1>2, <2>2, <2>3, <2>4
<1> HIDE DEF i, b
<1>9. /\ pc' \in {"prepare", "tell", "returned"}
      /\ pc' = "prepare" <=> Succeeding'
      /\ pc' = "tell" => path = "multi"
      /\ pc' # "prepare" => next.do = "refuse" /\ path \in {"buffer", "multi"}
      /\ pc' = "returned" => path = "buffer" /\ mapped' = Without(1, MisfitUnmaps)
      /\ mapped' \subseteq mapped
  BY <1>0, <1>1, <1>4, <1>7 DEF Succeeding, TypeOK, Paths, Without
<1>10. TypeOK'
  <2>1. Len(plan') <= Len(frames')
    BY <1>1, <1>2, <1>3, <1>8
  <2>2. plan' \in Seq([do : {"decrypt", "clear", "leave", "refuse"}, map : Seq(Entries)])
    BY <1>8 DEF Plans
  <2>3. result' \in {"NONE", "INVALID_DECRYPT_BUFFER", "FAIL", "OUT_OF_MEMORY"}
    BY <1>0, <1>1 DEF TypeOK
  <2>4. pc' \in {"idle", "map", "tell", "prepare", "decrypt", "putback", "clear", "unmap", "returned"}
    BY <1>9
  <2>5. mapped' \subseteq (DOMAIN frames') \X Buffers
    BY <1>0, <1>1, <1>9 DEF TypeOK
  <2> QED BY <1>0, <1>1, <2>1, <2>2, <2>3, <2>4, <2>5 DEF TypeOK
<1>11. CallOK'
  <2>1. pc # "idle"
    BY <1>1
  <2> QED BY <1>0, <1>1, <1>9, <2>1 DEF CallOK
<1>12. Placed'
  BY <1>1, <1>4, <1>9 DEF Placed, Over
<1>13. Handed'
  BY <1>1, <1>4, <1>9 DEF Handed, Untouched, Over, Early
<1>14. Mapping'
  <2>1. \A j : NeedsIv(j)' <=> NeedsIv(j)
    BY <1>1, SameInput
  <2>2. \A j \in DOMAIN frames : NeedsIv(j) => frames[j].iv # "null"
    BY <1>0, <1>1 DEF Mapping
  <2>3. ASSUME pc' = "returned" PROVE mapped' = {}
    <3>1. Len(frames) = 1 /\ mapped \subseteq {1} \X Buffers
      BY <1>0, <1>2, <1>5, <1>9, <2>3 DEF TypeOK
    <3> QED BY <1>9, <2>3, <3>1 DEF Without, MisfitUnmaps, Buffers
  <2>4. /\ \A m \in mapped' : frames[m[1]][m[2]] = "ok"
        /\ path = "gstOnce" /\ Clear(frames[1]) => todo = <<>> /\ mapped' = {}
    BY <1>0, <1>9 DEF Mapping
  <2> QED BY <1>1, <1>9, <2>1, <2>2, <2>3, <2>4 DEF Mapping, MapsReleased
<1>15. Knows'
  BY <1>0, <1>1, <1>9 DEF Knows
<1>16. Planned'
  <2>1. SUFFICES ASSUME Succeeding', NEW j \in DOMAIN plan'
                 PROVE  plan'[j].do # "refuse" /\ Means(frames[j], plan'[j])
    BY <1>1, SameInput DEF Planned
  <2>2. next.do # "refuse"
    BY <1>1, <1>9, <2>1
  <2>3. CASE j = i
    BY <1>7, <1>8, <2>2, <2>3 DEF Sound, b
  <2>4. CASE j # i
    <3>1. j \in DOMAIN plan
      BY <1>2, <1>8, <2>4 DEF i
    <3> QED BY <1>0, <1>4, <1>8, <3>1 DEF Planned
  <2> QED BY <2>3, <2>4
<1>17. Data'
  BY <1>9 DEF Data, Over
<1> QED BY <1>10, <1>11, <1>12, <1>13, <1>14, <1>15, <1>16, <1>17 DEF IInv

-----------------------------------------------------------------------------
(* The block *)

\* A frame has as many bytes in a call as it came with.
LEMMA ContentsAre ==
  ASSUME TypeOK, NEW i \in DOMAIN frames
  PROVE  /\ content[i] \in Seq(Int) /\ Len(content[i]) = frames[i].size /\ frames[i].size \in Nat
         /\ frames[i] \in Frames
<1>1. frames[i] \in Frames
  BY TypeFacts
<1> DEFINE n == frames[i].size
<1>2. n \in Nat /\ content[i] \in [1..n -> Int]
  BY <1>1, FrameIs DEF TypeOK
<1> HIDE DEF n
<1>3. content[i] \in Seq(Int) /\ Len(content[i]) = n
  BY <1>2, FunctionIsSeq
<1> QED BY <1>1, <1>2, <1>3 DEF n

\* What each frame contributes to the block.
Given(i) ==
  IF plan[i].do # "decrypt" THEN <<>>
  ELSE IF path \in OneBlock THEN Gather(content[i], plan[i].map)
  ELSE content[i]
AllGiven == [i \in DOMAIN plan |-> Given(i)]
Maps == [i \in DOMAIN plan |-> plan[i].map]
Shares == [i \in DOMAIN plan |-> IF plan[i].do = "decrypt" THEN frames[i].size ELSE 0]

\* The block is what each frame contributes, joined.
LEMMA GivenAre ==
  ASSUME TypeOK, Planned, Succeeding
  PROVE  /\ Collect(plan) = FlattenSeq(AllGiven)
         /\ AllGiven \in Seq(Seq(Int)) /\ Len(AllGiven) = Len(plan)
         /\ \A i \in DOMAIN plan : AllGiven[i] = Given(i)
         /\ Maps \in Seq(Seq(Entries)) /\ Len(Maps) = Len(plan)
         /\ \A i \in DOMAIN plan : Maps[i] = plan[i].map
<1>1. /\ Len(plan) \in Nat /\ DOMAIN plan = 1..Len(plan)
      /\ \A i \in DOMAIN plan : plan[i].map \in Seq(Entries) /\ i \in DOMAIN frames
  BY TypeFacts
<1>2. ASSUME NEW i \in DOMAIN plan PROVE Given(i) \in Seq(Int)
  <2>1. content[i] \in Seq(Int) /\ Len(content[i]) = frames[i].size /\ <<>> \in Seq(Int)
    BY <1>1, ContentsAre
  <2>2. CASE plan[i].do = "decrypt" /\ path \in OneBlock
    <3>1. Bytes(plan[i].map) <= Len(content[i])
      BY <2>1, <2>2 DEF Planned, Means
    <3>2. Gather(content[i], plan[i].map) \in Seq(Int)
      BY <1>1, <2>1, <3>1, GatherIs
    <3> QED BY <2>2, <3>2 DEF Given
  <2> QED BY <2>1, <2>2 DEF Given
<1>3. AllGiven \in Seq(Seq(Int)) /\ Len(AllGiven) = Len(plan)
  <2> DEFINE S == Seq(Int)
  <2>1. \A i \in DOMAIN plan : Given(i) \in S
    BY <1>2
  <2> HIDE DEF S
  <2>2. AllGiven \in [1..Len(plan) -> S]
    BY <1>1, <2>1 DEF AllGiven
  <2>3. AllGiven \in Seq(S) /\ Len(AllGiven) = Len(plan)
    BY <1>1, <2>2, FunctionIsSeq
  <2> QED BY <2>3 DEF S
<1>4. Maps \in Seq(Seq(Entries)) /\ Len(Maps) = Len(plan)
  <2> DEFINE S == Seq(Entries)
  <2>1. \A i \in DOMAIN plan : plan[i].map \in S
    BY <1>1
  <2> HIDE DEF S
  <2>2. Maps \in [1..Len(plan) -> S]
    BY <1>1, <2>1 DEF Maps
  <2>3. Maps \in Seq(S) /\ Len(Maps) = Len(plan)
    BY <1>1, <2>2, FunctionIsSeq
  <2> QED BY <2>3 DEF S
<1>5. Collect(plan) = FlattenSeq(AllGiven)
  BY DEF Collect, AllGiven, Given
<1>6. \A i \in DOMAIN plan : AllGiven[i] = Given(i) /\ Maps[i] = plan[i].map
  BY DEF AllGiven, Maps
<1> QED BY <1>3, <1>4, <1>5, <1>6

\* What is collected, and what the CDM makes of it, are bytes.
LEMMA CollectIs ==
  ASSUME TypeOK, Planned, Succeeding
  PROVE  Collect(plan) \in Seq(Int) /\ CdmOf(Collect(plan)) \in Seq(Int)
<1>1. Collect(plan) \in Seq(Int)
  <2>1. AllGiven \in Seq(Seq(Int))
    BY GivenAre
  <2>2. FlattenSeq(AllGiven) \in Seq(Int)
    BY <2>1, FlattenIndex
  <2> QED BY <2>2, GivenAre
<1> DEFINE data == Collect(plan)
<1> HIDE DEF data
<1>2. data \in Seq(Int)
  BY <1>1 DEF data
<1>3. [p \in DOMAIN data |-> -data[p]] \in Seq(Int)
  <2>1. Len(data) \in Nat /\ DOMAIN data = 1..Len(data) /\ \A p \in 1..Len(data) : -data[p] \in Int
    BY <1>2, LenProperties, ElementOfSeq
  <2>2. [p \in DOMAIN data |-> -data[p]] \in [1..Len(data) -> Int]
    BY <2>1
  <2> QED BY <2>1, <2>2, FunctionIsSeq
<1>4. CdmOf(data) \in Seq(Int)
  BY <1>2, <1>3, DecryptIs DEF CdmOf
<1> QED BY <1>1, <1>4 DEF data

\* The shares of the frames in the block, if it is not of encrypted bytes alone.
LEMMA SharesAre ==
  ASSUME TypeOK, Planned, Succeeding, path \notin OneBlock
  PROVE  /\ Shares = Lengths(AllGiven) /\ Len(Collect(plan)) = Sums(Shares)[Len(plan)]
         /\ Shares \in Seq(Nat) /\ Len(Shares) = Len(plan)
<1>1. /\ Len(plan) \in Nat /\ DOMAIN plan = 1..Len(plan)
      /\ \A i \in DOMAIN plan : i \in DOMAIN frames
  BY TypeFacts
<1>2. /\ Collect(plan) = FlattenSeq(AllGiven)
      /\ AllGiven \in Seq(Seq(Int)) /\ Len(AllGiven) = Len(plan)
      /\ \A i \in DOMAIN plan : AllGiven[i] = Given(i)
  BY GivenAre
<1>3. \A i \in DOMAIN plan : Len(Given(i)) = IF plan[i].do = "decrypt" THEN frames[i].size ELSE 0
  <2>1. Len(<<>>) = 0
    OBVIOUS
  <2> QED BY <1>1, <2>1, ContentsAre DEF Given
<1>4. Shares = Lengths(AllGiven)
  <2>1. DOMAIN AllGiven = DOMAIN plan
    BY DEF AllGiven
  <2> QED BY <1>2, <1>3, <2>1 DEF Shares, Lengths
<1>5. /\ Len(FlattenSeq(AllGiven)) = Sums(Lengths(AllGiven))[Len(AllGiven)]
      /\ Lengths(AllGiven) \in Seq(Nat) /\ Len(Lengths(AllGiven)) = Len(AllGiven)
  <2>1. AllGiven \in Seq(Seq(Int))
    BY <1>2
  <2> QED BY <2>1, FlattenIndex, LengthsAre
<1> QED BY <1>2, <1>4, <1>5

\* The share of a frame is as long as the frame and lies behind those before it.
LEMMA ShareIs ==
  ASSUME TypeOK, Planned, Succeeding, path \notin OneBlock,
         block \in Seq(Int), Len(block) = Len(Collect(plan)),
         NEW i \in DOMAIN plan, plan[i].do = "decrypt"
  PROVE  /\ Share(i) \in Seq(Int) /\ Len(Share(i)) = frames[i].size
         /\ \A j \in 1..frames[i].size : Share(i)[j] = block[Sums(Shares)[i - 1] + j]
<1>1. /\ Len(plan) \in Nat /\ DOMAIN plan = 1..Len(plan) /\ i \in DOMAIN frames
  BY TypeFacts
<1>2. frames[i].size \in Nat
  BY <1>1, ContentsAre
<1>3. Shares \in Seq(Nat) /\ Len(Shares) = Len(plan) /\ Len(block) = Sums(Shares)[Len(plan)]
  BY SharesAre
<1> DEFINE g == Sums(Shares)
           e == g[i - 1]
           n == frames[i].size
<1>4. g \in [0..Len(plan) -> Nat] /\ g[i] = e + Shares[i] /\ g[i] <= g[Len(plan)]
  <2>1. Shares \in Seq(Nat)
    BY <1>3
  <2>2. i \in 0..Len(Shares) /\ Len(plan) \in i..Len(Shares) /\ i \in 1..Len(Shares)
    BY <1>1, <1>3
  <2> QED BY <1>3, <2>1, <2>2, SumsAre, SumsGrow
<1>5. Shares[i] = n
  BY DEF Shares
<1>6. Share(i) = SubSeq(block, e + 1, e + n)
  BY DEF Share, Shares
<1>7. e \in Nat /\ n \in Nat /\ e + n <= Len(block)
  <2>1. i - 1 \in 0..Len(plan)
    BY <1>1
  <2> QED BY <1>2, <1>3, <1>4, <1>5, <2>1
<1> HIDE DEF e, n
<1>8. /\ SubSeq(block, e + 1, e + n) \in Seq(Int) /\ Len(SubSeq(block, e + 1, e + n)) = n
      /\ \A j \in 1..n : SubSeq(block, e + 1, e + n)[j] = block[e + j]
  BY <1>7, PartOf
<1> QED BY <1>6, <1>8 DEF e, n, g

-----------------------------------------------------------------------------
(* Putting it back *)

Back(i) ==
  IF plan[i].do # "decrypt" THEN content[i]
  ELSE IF path \in OneBlock THEN Scatter(content[i], block, plan[i].map)
  ELSE Share(i)

\* One frame: the joined sequence is its own.
LEMMA OneGiven ==
  ASSUME TypeOK, Planned, Succeeding, Len(plan) = 1
  PROVE  Collect(plan) = Given(1) /\ FlattenSeq(Maps) = plan[1].map /\ 1 \in DOMAIN plan /\ 1 \in DOMAIN frames
<1>1. DOMAIN plan = 1..1 /\ 1 \in DOMAIN plan /\ plan[1].map \in Seq(Entries) /\ 1 \in DOMAIN frames
  BY TypeFacts
<1>2. Collect(plan) = FlattenSeq(AllGiven) /\ AllGiven \in Seq(Seq(Int)) /\ Len(AllGiven) = 1 /\ AllGiven[1] = Given(1)
  BY <1>1, GivenAre
<1>3. AllGiven = <<Given(1)>> /\ Maps = <<plan[1].map>>
  BY <1>1 DEF AllGiven, Maps
<1>4. Given(1) \in Seq(Int)
  BY <1>2, ElementOfSeq
<1>5. FlattenSeq(<<Given(1)>>) = Given(1)
  BY <1>4, FlattenOne
<1>6. FlattenSeq(<<plan[1].map>>) = plan[1].map
  BY <1>1, FlattenOne
<1> QED BY <1>1, <1>2, <1>3, <1>5, <1>6

\* The encrypted bytes were collected: they go back to where they were taken from.
LEMMA ScatterBack ==
  ASSUME TypeOK, Planned, Succeeding, path \in OneBlock, Len(plan) = 1,
         block = CdmOf(Collect(plan)), NEW i \in DOMAIN plan, plan[i].do = "decrypt"
  PROVE  Back(i) = Decrypt(content[i], plan[i].map)
<1>1. DOMAIN plan = 1..1 /\ plan[i].map \in Seq(Entries) /\ i \in DOMAIN frames
  BY TypeFacts
<1>2. i = 1
  BY <1>1
<1>3. Collect(plan) = Given(1) /\ Given(1) = Gather(content[1], plan[1].map)
  BY <1>2, OneGiven DEF Given
<1> DEFINE F == content[1]
           m == plan[1].map
           G == Gather(F, m)
<1>4. F \in Seq(Int) /\ m \in Seq(Entries) /\ Bytes(m) <= Len(F)
  BY <1>1, <1>2, ContentsAre DEF Planned, Means
<1>5. block = [p \in DOMAIN G |-> -G[p]]
  BY <1>3 DEF CdmOf
<1> HIDE DEF F, m
<1>6. Scatter(F, [p \in DOMAIN G |-> -G[p]], m) = Decrypt(F, m)
  BY <1>4, GatherScatter
<1> QED BY <1>2, <1>5, <1>6 DEF Back, F, m

\* The frames were joined: each gets its share of the block.
LEMMA ShareBack ==
  ASSUME TypeOK, Planned, Succeeding, path \notin OneBlock, Len(plan) = 1 \/ path = "multi",
         block = CdmOf(Collect(plan)), AllUsable,
         NEW i \in DOMAIN plan, plan[i].do = "decrypt"
  PROVE  Share(i) = Decrypt(content[i], plan[i].map)
<1>1. /\ Len(plan) \in Nat /\ DOMAIN plan = 1..Len(plan)
      /\ \A j \in DOMAIN plan : plan[j].map \in Seq(Entries) /\ j \in DOMAIN frames
  BY TypeFacts
<1>2. /\ Collect(plan) = FlattenSeq(AllGiven)
      /\ AllGiven \in Seq(Seq(Int)) /\ Len(AllGiven) = Len(plan)
      /\ \A j \in DOMAIN plan : AllGiven[j] = Given(j)
      /\ Maps \in Seq(Seq(Entries)) /\ Len(Maps) = Len(plan)
      /\ \A j \in DOMAIN plan : Maps[j] = plan[j].map
  BY GivenAre
<1>3. block = Decrypt(FlattenSeq(AllGiven), FlattenSeq(Maps))
  BY <1>2 DEF CdmOf, Maps
<1>4. Collect(plan) \in Seq(Int) /\ block \in Seq(Int) /\ Len(block) = Len(Collect(plan))
  <2>1. Collect(plan) \in Seq(Int)
    BY CollectIs
  <2> DEFINE data == Collect(plan)
  <2>2. data \in Seq(Int) /\ block = Decrypt(data, FlattenSeq(Maps))
    BY <1>2, <1>3, <2>1
  <2> HIDE DEF data
  <2>3. block \in Seq(Int) /\ Len(block) = Len(data)
    BY <2>2, DecryptIs
  <2> QED BY <2>1, <2>3 DEF data
<1>5. /\ Share(i) \in Seq(Int) /\ Len(Share(i)) = frames[i].size
      /\ \A j \in 1..frames[i].size : Share(i)[j] = block[Sums(Shares)[i - 1] + j]
  BY <1>4, ShareIs
<1>6. content[i] \in Seq(Int) /\ Len(content[i]) = frames[i].size /\ Given(i) = content[i]
  BY <1>1, ContentsAre DEF Given
<1> DEFINE D == Decrypt(content[i], plan[i].map)
<1>7. D \in Seq(Int) /\ Len(D) = frames[i].size
  BY <1>6, DecryptIs
<1>8. ASSUME NEW j \in 1..frames[i].size PROVE block[Sums(Shares)[i - 1] + j] = D[j]
  <2>1. CASE Len(plan) = 1
    <3>1. i = 1 /\ i - 1 = 0
      BY <1>1, <2>1
    <3>2. block = D
      BY <1>2, <1>3, <1>6, <2>1, <3>1, OneGiven
    <3>3. Sums(Shares)[0] = 0
      <4>1. Shares \in Seq(Nat)
        BY SharesAre
      <4> QED BY <4>1, SumsAre
    <3>4. 0 + j = j
      OBVIOUS
    <3> QED BY <3>1, <3>2, <3>3, <3>4, Zenon
  <2>2. CASE path = "multi"
    <3> DEFINE Ds == [k \in 1..Len(AllGiven) |-> Decrypt(AllGiven[k], Maps[k])]
    <3>1. \A k \in 1..Len(AllGiven) : Len(AllGiven[k]) = Bytes(Maps[k])
      <4>1. SUFFICES ASSUME NEW k \in DOMAIN plan PROVE Len(Given(k)) = Bytes(plan[k].map)
        BY <1>1, <1>2
      <4>2. Means(frames[k], plan[k]) /\ Usable(frames[k])
        BY <1>1 DEF Planned, AllUsable
      <4>3. CASE plan[k].do = "decrypt"
        <5>1. Len(content[k]) = frames[k].size
          BY <1>1, ContentsAre
        <5> QED BY <2>2, <4>2, <4>3, <5>1 DEF Given, Means
      <4>4. CASE plan[k].do # "decrypt"
        <5>1. Len(<<>>) = 0
          OBVIOUS
        <5> QED BY <4>2, <4>4, <5>1, EmptyMap DEF Given, Means
      <4> QED BY <4>3, <4>4
    <3>2. Decrypt(FlattenSeq(AllGiven), FlattenSeq(Maps)) = FlattenSeq(Ds)
      <4>1. AllGiven \in Seq(Seq(Int)) /\ Maps \in Seq(Seq(Entries)) /\ Len(Maps) = Len(AllGiven)
        BY <1>2
      <4> QED BY <3>1, <4>1, DecryptJoined
    <3>3. \A k \in 1..Len(plan) : Ds[k] = Decrypt(AllGiven[k], Maps[k])
      BY <1>2
    <3>4. \A k \in 1..Len(plan) : Ds[k] \in Seq(Int) /\ Len(Ds[k]) = Len(AllGiven[k])
      <4>1. ASSUME NEW k \in 1..Len(plan) PROVE Ds[k] \in Seq(Int) /\ Len(Ds[k]) = Len(AllGiven[k])
        <5> HIDE DEF Ds
        <5> DEFINE a == AllGiven[k]
                   m == Maps[k]
        <5>1. a \in Seq(Int) /\ Ds[k] = Decrypt(a, m)
          BY <1>2, <3>3, ElementOfSeq
        <5> HIDE DEF a, m
        <5>2. Decrypt(a, m) \in Seq(Int) /\ Len(Decrypt(a, m)) = Len(a)
          BY <5>1, DecryptIs
        <5> QED BY <5>1, <5>2 DEF a
      <4> QED BY <4>1
    <3>5. Ds \in Seq(Seq(Int)) /\ Len(Ds) = Len(plan) /\ DOMAIN Ds = 1..Len(plan)
      <4> DEFINE S == Seq(Int)
      <4>1. \A k \in 1..Len(plan) : Decrypt(AllGiven[k], Maps[k]) \in S
        BY <3>3, <3>4
      <4> HIDE DEF S
      <4>2. Ds \in [1..Len(plan) -> S]
        BY <1>2, <4>1
      <4> HIDE DEF Ds
      <4>3. Ds \in Seq(S) /\ Len(Ds) = Len(plan)
        BY <1>1, <4>2, FunctionIsSeq
      <4> QED BY <4>2, <4>3 DEF S
    <3> HIDE DEF Ds
    <3>6. Lengths(Ds) = Shares
      <4>1. Lengths(AllGiven) = Shares
        BY SharesAre
      <4>2. DOMAIN AllGiven = 1..Len(plan)
        BY <1>1 DEF AllGiven
      <4>3. Lengths(Ds) = Lengths(AllGiven)
        BY <3>4, <3>5, <4>2 DEF Lengths
      <4> QED BY <4>1, <4>3
    <3>7. Len(Ds[i]) = frames[i].size /\ Ds[i] = D
      BY <1>1, <1>2, <1>6, <3>3, <3>4
    <3>8. i \in 1..Len(Ds) /\ j \in 1..Len(Ds[i])
      BY <1>1, <3>5, <3>7
    <3>9. FlattenSeq(Ds)[Sums(Lengths(Ds))[i - 1] + j] = Ds[i][j]
      <4>1. Ds \in Seq(Seq(Int))
        BY <3>5
      <4> QED BY <3>8, <4>1, FlattenIndex
    <3> HIDE DEF D
    <3> QED BY <1>3, <3>2, <3>6, <3>7, <3>9
  <2> QED BY <2>1, <2>2
<1> HIDE DEF D
<1>9. \A j \in 1..frames[i].size : Share(i)[j] = D[j]
  BY <1>5, <1>8
<1>10. Share(i) = D
  BY <1>5, <1>7, <1>9, SeqEqual
<1> QED BY <1>10 DEF D

-----------------------------------------------------------------------------
(* Decrypting, and the theorems *)

\* The block is collected from frames nothing has changed.
LEMMA PreparedKeepsIInv ==
  ASSUME IInv, Prepared
  PROVE  IInv'
<1>0. /\ TypeOK /\ CallOK /\ Placed /\ Handed /\ Mapping /\ Knows /\ Planned /\ Data
  BY DEF IInv
<1>1. /\ pc = "prepare" /\ Len(plan) = Len(frames)
      /\ block' = Collect(plan) /\ pc' = IF path = "multi" THEN "tell" ELSE "decrypt"
      /\ path' = path /\ frames' = frames /\ caps' = caps /\ plan' = plan
      /\ content' = content /\ handed' = handed /\ revoked' = revoked /\ todo' = todo /\ mapped' = mapped
      /\ told' = told /\ svp' = svp /\ missed' = missed /\ UNCHANGED input /\ result' = result
  BY DEF Prepared, session, input
<1>2. Succeeding /\ Untouched /\ ~revoked /\ pc' \in {"tell", "decrypt"} /\ (pc' = "tell" <=> path = "multi")
  BY <1>0, <1>1 DEF Placed, Handed, Early
<1>3. Collect(plan) \in Seq(Int)
  BY <1>0, <1>2, CollectIs
<1>4. TypeOK'
  BY <1>0, <1>1, <1>2, <1>3 DEF TypeOK
<1>5. CallOK'
  BY <1>0, <1>1, <1>2 DEF CallOK
<1>6. Placed'
  BY <1>0, <1>1, <1>2 DEF Placed, Succeeding, Over
<1>7. Handed'
  BY <1>1, <1>2 DEF Handed, Untouched, Over, Early
<1>8. Mapping'
  <2>1. \A i : NeedsIv(i)' <=> NeedsIv(i)
    BY <1>1, SameInput
  <2>2. \A i \in DOMAIN frames : NeedsIv(i) => frames[i].iv # "null"
    BY <1>0, <1>1 DEF Mapping
  <2> QED BY <1>0, <1>1, <1>2, <2>1, <2>2 DEF Mapping, MapsReleased
<1>9. Knows'
  BY <1>0, <1>1, <1>2 DEF Knows
<1>10. Planned'
  BY <1>0, <1>1, SameInput DEF Planned, Succeeding
<1>11. Data'
  <2>1. block' = Collect(plan)'
    BY <1>1 DEF Collect
  <2> QED BY <1>2, <2>1 DEF Data, Over
<1> QED BY <1>4, <1>5, <1>6, <1>7, <1>8, <1>9, <1>10, <1>11 DEF IInv

\* The CDM decrypts the block, or fails; or SVP took it back, and it stays encrypted.
LEMMA DecryptBlockKeepsIInv ==
  ASSUME IInv, DecryptBlock
  PROVE  IInv'
<1>0. /\ TypeOK /\ CallOK /\ Placed /\ Handed /\ Mapping /\ Knows /\ Planned /\ Data
  BY DEF IInv
<1>1. /\ pc = "decrypt" /\ result = "NONE"
      /\ path' = path /\ frames' = frames /\ caps' = caps /\ plan' = plan
      /\ content' = content /\ handed' = handed /\ todo' = todo /\ mapped' = mapped
      /\ told' = told /\ svp' = svp /\ missed' = missed /\ UNCHANGED input
  BY DEF DecryptBlock, session, input
<1>2. \/ block' = ByCdm /\ pc' = "putback" /\ revoked' = revoked /\ result' = result
      \/ result' = "FAIL" /\ pc' = "unmap" /\ revoked' = revoked /\ block' = block
      \/ /\ path \in {"buffer", "multi"}
         /\ revoked' = TRUE /\ pc' = "putback" /\ block' = block /\ result' = result
      \/ /\ path = "multi" /\ result' = "OUT_OF_MEMORY" /\ pc' = "unmap"
         /\ revoked' = revoked /\ block' = block
  BY DEF DecryptBlock
<1>3. /\ Succeeding /\ Untouched /\ revoked = FALSE /\ Len(plan) = Len(frames) /\ block = Collect(plan)
  BY <1>0, <1>1 DEF Placed, Handed, Early, Succeeding, Data, TypeOK
<1>4. ByCdm = CdmOf(Collect(plan))
  BY <1>3 DEF ByCdm, CdmOf
<1>5. Collect(plan) \in Seq(Int) /\ CdmOf(Collect(plan)) \in Seq(Int)
  BY <1>0, <1>3, CollectIs
<1>6. /\ pc' \in {"putback", "unmap"} /\ (pc' = "putback" <=> Succeeding')
      /\ revoked' \in BOOLEAN /\ (revoked' => path \in {"buffer", "multi"} /\ pc' = "putback")
      /\ result' \in {"NONE", "FAIL", "OUT_OF_MEMORY"}
      /\ pc' = "putback" => block' = IF revoked' THEN Collect(plan) ELSE CdmOf(Collect(plan))
      /\ pc' = "unmap" => block' = block
  BY <1>1, <1>2, <1>3, <1>4 DEF Succeeding
<1>7. block' \in Seq(Int)
  BY <1>3, <1>5, <1>6
<1>8. TypeOK'
  BY <1>0, <1>1, <1>6, <1>7 DEF TypeOK
<1>9. CallOK'
  BY <1>0, <1>1, <1>6 DEF CallOK
<1>10. Placed'
  BY <1>1, <1>3, <1>6 DEF Placed, Over
<1>11. Handed'
  BY <1>1, <1>3, <1>6 DEF Handed, Untouched, Over, Early
<1>12. Mapping'
  <2>1. \A i : NeedsIv(i)' <=> NeedsIv(i)
    BY <1>1, SameInput
  <2>2. \A i \in DOMAIN frames : NeedsIv(i) => frames[i].iv # "null"
    BY <1>0, <1>1 DEF Mapping
  <2> QED BY <1>0, <1>1, <1>6, <2>1, <2>2 DEF Mapping, MapsReleased
<1>13. Knows'
  BY <1>0, <1>1, <1>6 DEF Knows
<1>14. Planned'
  BY <1>0, <1>1, <1>3, SameInput DEF Planned
<1>15. Data'
  <2>1. Collect(plan)' = Collect(plan) /\ CdmOf(Collect(plan))' = CdmOf(Collect(plan))
    BY <1>1 DEF Collect, CdmOf
  <2> QED BY <1>6, <2>1 DEF Data, Over
<1> QED BY <1>8, <1>9, <1>10, <1>11, <1>12, <1>13, <1>14, <1>15 DEF IInv

\* Each frame has its bytes back, and the right ones.
LEMMA BackIs ==
  ASSUME IInv, pc = "putback", NEW i \in DOMAIN frames
  PROVE  /\ Back(i) \in [1..frames[i].size -> Int]
         /\ ~revoked /\ AllUsable => Back(i) = AsMeant(frames[i])
<1>0. /\ TypeOK /\ CallOK /\ Placed /\ Handed /\ Planned /\ Data
  BY DEF IInv
<1>1. /\ Succeeding /\ Untouched /\ Len(plan) = Len(frames)
      /\ block = IF revoked THEN Collect(plan) ELSE CdmOf(Collect(plan))
      /\ revoked => path \in {"buffer", "multi"}
      /\ path # "multi" => Len(frames) <= 1
      /\ path \in Paths
  BY <1>0 DEF Placed, Handed, Early, Data, CallOK, TypeOK
<1>2. /\ Len(frames) \in Nat /\ DOMAIN frames = 1..Len(frames) /\ DOMAIN plan = 1..Len(plan)
      /\ \A k \in DOMAIN plan : plan[k].map \in Seq(Entries)
  BY <1>0, TypeFacts
<1>3. i \in DOMAIN plan /\ content[i] = Bytewise(frames[i]) /\ plan[i].map \in Seq(Entries)
  BY <1>1, <1>2 DEF Untouched
<1>4. path # "multi" => Len(plan) = 1
  BY <1>1, <1>2
<1>5. Means(frames[i], plan[i]) /\ (AllUsable => Usable(frames[i]))
  BY <1>0, <1>1, <1>3 DEF Planned, AllUsable
<1>6. content[i] \in Seq(Int) /\ Len(content[i]) = frames[i].size /\ frames[i].size \in Nat
  BY <1>0, ContentsAre
<1> DEFINE n == frames[i].size
           D == Decrypt(content[i], plan[i].map)
<1>7. D \in Seq(Int) /\ Len(D) = n
  BY <1>6, DecryptIs
<1>8. \A s \in Seq(Int) : Len(s) = n => s \in [1..n -> Int]
  BY <1>6
<1>9. CASE plan[i].do # "decrypt"
  <2>1. Back(i) = content[i]
    BY <1>9 DEF Back
  <2> QED BY <1>3, <1>5, <1>6, <1>8, <1>9, <2>1 DEF Means
<1>10. CASE plan[i].do = "decrypt" /\ path \in OneBlock
  <2>1. ~revoked /\ Len(plan) = 1 /\ block = CdmOf(Collect(plan))
    BY <1>1, <1>4, <1>10 DEF OneBlock
  <2>2. Back(i) = D
    BY <1>0, <1>1, <1>3, <1>10, <2>1, ScatterBack
  <2>3. AllUsable => D = AsMeant(frames[i])
    BY <1>3, <1>5, <1>10 DEF Means
  <2> HIDE DEF D
  <2> QED BY <1>7, <1>8, <2>2, <2>3
<1>11. CASE plan[i].do = "decrypt" /\ path \notin OneBlock
  <2>1. Back(i) = Share(i)
    BY <1>11 DEF Back
  <2>2. block \in Seq(Int) /\ Len(block) = Len(Collect(plan))
    <3> DEFINE data == Collect(plan)
               maps == FlattenSeq([k \in DOMAIN plan |-> plan[k].map])
    <3>1. data \in Seq(Int)
      BY <1>0, <1>1, CollectIs
    <3>2. block = data \/ block = Decrypt(data, maps)
      BY <1>1, <1>11 DEF CdmOf
    <3> HIDE DEF data, maps
    <3>3. Decrypt(data, maps) \in Seq(Int) /\ Len(Decrypt(data, maps)) = Len(data)
      BY <3>1, DecryptIs
    <3> QED BY <3>1, <3>2, <3>3 DEF data
  <2>3. Share(i) \in Seq(Int) /\ Len(Share(i)) = n
    BY <1>0, <1>1, <1>3, <1>11, <2>2, ShareIs
  <2>4. ~revoked /\ AllUsable => Share(i) = D
    BY <1>0, <1>1, <1>3, <1>4, <1>11, ShareBack
  <2>5. AllUsable => D = AsMeant(frames[i])
    BY <1>3, <1>5, <1>11 DEF Means
  <2> HIDE DEF D
  <2> QED BY <1>8, <2>1, <2>3, <2>4, <2>5
<1> QED BY <1>9, <1>10, <1>11

\* All frames get their bytes at once, and are handed over, or none does.
LEMMA PutBackKeepsIInv ==
  ASSUME IInv, PutBack
  PROVE  IInv'
<1>0. /\ TypeOK /\ CallOK /\ Placed /\ Handed /\ Mapping /\ Knows /\ Planned /\ Data
  BY DEF IInv
<1>1. /\ pc = "putback"
      /\ path' = path /\ frames' = frames /\ caps' = caps /\ plan' = plan /\ block' = block
      /\ revoked' = revoked /\ todo' = todo /\ mapped' = mapped
      /\ told' = told /\ svp' = svp /\ missed' = missed /\ UNCHANGED input
  BY DEF PutBack, session, input
<1>2. \/ /\ content' = [i \in DOMAIN frames |-> Back(i)]
         /\ handed' = [i \in DOMAIN frames |->
                        IF plan[i].do = "decrypt" /\ path \in Rdk THEN handed[i] + 1 ELSE handed[i]]
         /\ pc' = "clear" /\ result' = result
      \/ /\ path = "multi" /\ result' = "FAIL" /\ pc' = "unmap"
         /\ content' = content /\ handed' = handed
  BY DEF PutBack, Back
<1>3. Succeeding /\ Untouched /\ Len(plan) = Len(frames)
  BY <1>0, <1>1 DEF Placed, Handed, Early
<1>4. /\ pc' \in {"clear", "unmap"} /\ (pc' = "clear" <=> Succeeding')
      /\ pc' = "unmap" => content' = content /\ handed' = handed
      /\ pc' = "clear" => content' = [i \in DOMAIN frames |-> Back(i)]
      /\ result' \in {"NONE", "FAIL"}
  BY <1>2, <1>3 DEF Succeeding
<1>5. pc' = "clear" =>
        /\ DOMAIN handed' = DOMAIN frames
        /\ \A i \in DOMAIN frames : handed'[i] = IF plan[i].do = "decrypt" /\ path \in Rdk THEN 1 ELSE 0
  BY <1>2, <1>3 DEF Untouched
<1>6. TypeOK'
  <2>1. CASE pc' = "clear"
    <3>1. DOMAIN content' = DOMAIN frames /\ DOMAIN handed' = DOMAIN frames
      BY <1>4, <1>5, <2>1
    <3>2. ASSUME NEW i \in DOMAIN frames PROVE content'[i] \in [1..frames[i].size -> Int] /\ handed'[i] \in Nat
      <4>1. content'[i] = Back(i)
        BY <1>4, <2>1
      <4>2. handed'[i] \in Nat
        BY <1>5, <2>1
      <4> QED BY <1>1, <4>1, <4>2, BackIs
    <3> QED BY <1>0, <1>1, <1>4, <2>1, <3>1, <3>2 DEF TypeOK
  <2>2. CASE pc' = "unmap"
    BY <1>0, <1>1, <1>4, <2>2 DEF TypeOK
  <2> QED BY <1>4, <2>1, <2>2
<1>7. CallOK'
  BY <1>0, <1>1, <1>4 DEF CallOK
<1>8. Placed'
  BY <1>0, <1>1, <1>3, <1>4 DEF Placed, Over
<1>9. Handed'
  <2>1. pc' = "unmap" => Untouched'
    BY <1>1, <1>3, <1>4 DEF Untouched
  <2> QED BY <1>1, <1>4, <1>5, <2>1 DEF Handed, Over, Early
<1>10. Mapping'
  <2>1. \A i : NeedsIv(i)' <=> NeedsIv(i)
    BY <1>1, SameInput
  <2>2. \A i \in DOMAIN frames : NeedsIv(i) => frames[i].iv # "null"
    BY <1>0, <1>1 DEF Mapping
  <2> QED BY <1>0, <1>1, <1>4, <2>1, <2>2 DEF Mapping, MapsReleased
<1>11. Knows'
  BY <1>0, <1>1, <1>4 DEF Knows
<1>12. Planned'
  BY <1>0, <1>1, <1>3, SameInput DEF Planned
<1>13. Data'
  <2>1. (AllUsable' <=> AllUsable) /\ \A b : AsMeant(b)' = AsMeant(b)
    BY <1>1, SameInput
  <2>2. ASSUME pc' = "clear", ~revoked, AllUsable, NEW i \in DOMAIN frames
        PROVE  content'[i] = AsMeant(frames[i])
    <3>1. content'[i] = Back(i)
      BY <1>4, <2>2
    <3> QED BY <1>1, <2>2, <3>1, BackIs
  <2>3. pc' = "clear" /\ ~revoked' /\ AllUsable' => \A i \in DOMAIN frames' : content'[i] = AsMeant(frames[i])'
    BY <1>1, <2>1, <2>2
  <2> QED BY <1>4, <2>3 DEF Data, Over
<1> QED BY <1>6, <1>7, <1>8, <1>9, <1>10, <1>11, <1>12, <1>13 DEF IInv

\* A step of something else changes nothing.
LEMMA StutterKeepsIInv == IInv /\ UNCHANGED vars => IInv'
<1> SUFFICES ASSUME IInv, UNCHANGED vars PROVE IInv'
  OBVIOUS
<1>0. /\ TypeOK /\ CallOK /\ Placed /\ Handed /\ Mapping /\ Knows /\ Planned /\ Data
  BY DEF IInv
<1>1. /\ pc' = pc /\ path' = path /\ frames' = frames /\ caps' = caps /\ todo' = todo /\ mapped' = mapped
      /\ plan' = plan /\ block' = block /\ content' = content /\ handed' = handed
      /\ revoked' = revoked /\ result' = result /\ told' = told /\ svp' = svp /\ missed' = missed
      /\ UNCHANGED input
  BY DEF vars, input
<1>2. TypeOK'
  BY <1>0, <1>1 DEF TypeOK
<1>3. CallOK'
  BY <1>0, <1>1 DEF CallOK
<1>4. Placed'
  BY <1>0, <1>1 DEF Placed, Succeeding
<1>5. Handed'
  BY <1>0, <1>1 DEF Handed, Untouched, Succeeding
<1>6. Mapping'
  BY <1>0, <1>1, SameInput DEF Mapping, MapsReleased, InOrder
<1>7. Knows'
  BY <1>0, <1>1 DEF Knows
<1>8. Planned'
  BY <1>0, <1>1, SameInput DEF Planned, Succeeding
<1>9. Data'
  <2>1. Collect(plan)' = Collect(plan) /\ CdmOf(Collect(plan))' = CdmOf(Collect(plan))
    BY <1>1 DEF Collect, CdmOf
  <2> QED BY <1>0, <1>1, <2>1, SameInput DEF Data, Succeeding
<1> QED BY <1>2, <1>3, <1>4, <1>5, <1>6, <1>7, <1>8, <1>9 DEF IInv

\* Every step keeps the invariant.
LEMMA NextIInv == IInv /\ [Next]_vars => IInv'
<1> SUFFICES ASSUME IInv, [Next]_vars PROVE IInv'
  OBVIOUS
<1>1. ASSUME NEW p \in Paths, NEW n \in 1..MaxFrames, NEW c \in {"none", "host", "secure"},
             NEW fs \in [1..n -> Frames], Call(p, fs, c)
      PROVE  IInv'
  BY <1>1, CallKeepsIInv
<1>2. CASE MapPart
  BY <1>2, MapPartKeepsIInv
<1>3. CASE AllMapped
  BY <1>3, AllMappedKeepsIInv
<1>4. CASE Tell
  BY <1>4, TellKeepsIInv
<1>5. CASE Prepare
  BY <1>5, PrepareKeepsIInv
<1>6. CASE Prepared
  BY <1>6, PreparedKeepsIInv
<1>7. CASE DecryptBlock
  BY <1>7, DecryptBlockKeepsIInv
<1>8. CASE PutBack
  BY <1>8, PutBackKeepsIInv
<1>9. CASE NothingToDecrypt
  BY <1>9, NothingToDecryptKeepsIInv
<1>10. CASE HandClear
  BY <1>10, HandClearKeepsIInv
<1>11. CASE Unmap
  BY <1>11, UnmapKeepsIInv
<1>12. CASE Return
  BY <1>12, ReturnKeepsIInv
<1>13. CASE UNCHANGED vars
  BY <1>13, StutterKeepsIInv
<1> QED BY <1>1, <1>2, <1>3, <1>4, <1>5, <1>6, <1>7, <1>8, <1>9, <1>10, <1>11, <1>12, <1>13 DEF Next

\* The invariant holds in every state of every behaviour.
THEOREM IInvHolds == Spec => []IInv
BY InitIInv, NextIInv, PTL DEF Spec

\* Whatever the frames are like, and however many, the call keeps to its frames:
\* each keeps its number of bytes, and what is mapped and planned is of them.
THEOREM TypeCorrect == Spec => []TypeOK
<1>1. IInv => TypeOK
  BY DEF IInv
<1> QED BY <1>1, IInvHolds, PTL

\* A successful call of any of the five functions decrypts the bytes that the maps say
\* and no others, for all frames, maps and numbers of frames.
THEOREM ExactlyDecrypted == Spec => []DecryptedExactly
<1>1. IInv => DecryptedExactly
  BY DEF IInv, Data, DecryptedExactly, Succeeding, Over, AllUsable
<1> QED BY <1>1, IInvHolds, PTL

\* A call that fails, at whichever step, has changed no frame and handed none over; one
\* that succeeds in adapter/rdk has handed over each exactly once.
THEOREM NothingOrAll == Spec => []AllOrNothing
<1>1. IInv => AllOrNothing
  BY DEF IInv, Handed, AllOrNothing, Succeeding, Over, Untouched
<1> QED BY <1>1, IInvHolds, PTL

\* Whatever goes wrong, what was mapped is unmapped, but for the frame without metadata.
THEOREM AllReleased == Spec => []MapsReleased
<1>1. IInv => MapsReleased
  BY DEF IInv, Mapping
<1> QED BY <1>1, IInvHolds, PTL

\* No decryption starts before SVP was told where the stream may be decrypted to.
THEOREM SvpIsTold == Spec => []SvpKnows
<1>1. IInv => SvpKnows
  BY DEF IInv, Knows, SvpKnows
<1> QED BY <1>1, IInvHolds, PTL

-----------------------------------------------------------------------------
(* OutputRetry.  The inductive invariant says, for each place of the call, how  *)
(* much of the clock its attempts and pauses have paid for.                    *)

\* Pauses: attempts that have been made and slept after.
Paid == attempts * Interval <= time

PaidButOne == attempts > 0 => (attempts - 1) * Interval <= time

StillEncrypted == sample = "encrypted" /\ last # "NONE"

Answered == last = "NONE" <=> sample # "encrypted"

PlaceOf ==
  /\ place \in {"idle", "once"} => time = 0 /\ attempts = 0 /\ StillEncrypted
  /\ place = "test" => Paid /\ time < Timeout + MaxAttempt + Interval /\ StillEncrypted
  /\ place = "attempt" => Paid /\ time < Timeout /\ StillEncrypted
  /\ place = "judge" => attempts > 0 /\ PaidButOne /\ time < Timeout + MaxAttempt /\ Answered
  /\ place = "sleep" => PaidButOne /\ time < Timeout + MaxAttempt /\ StillEncrypted
  /\ place = "done" => PaidButOne /\ time <= Timeout + MaxAttempt + Interval /\ Answered

RetryIInv == RetryTypeOK /\ PlaceOf

\* Multiples of the interval: what the clock's arithmetic needs of a product.
LEMMA Multiples ==
  ASSUME NEW n \in Nat
  PROVE  /\ n * Interval \in Nat
         /\ n <= n * Interval
         /\ (n + 1) * Interval = n * Interval + Interval
         /\ n > 0 => (n - 1) * Interval = n * Interval - Interval
<1>1. Interval \in Nat /\ Interval >= 1
  BY RetryAssumption
<1>2. n * Interval \in Nat
  BY <1>1
<1>3. (n + 1) * Interval = n * Interval + Interval
  BY <1>1
<1>4. n > 0 => (n - 1) * Interval = n * Interval - Interval
  BY <1>1
<1>5. n <= n * Interval
  BY <1>1
<1> QED BY <1>2, <1>3, <1>4, <1>5

\* A call begins with nothing done.
LEMMA RetryInitIInv == RetryInit => RetryIInv
<1> SUFFICES ASSUME RetryInit PROVE RetryIInv
  OBVIOUS
<1>1. RetryTypeOK
  BY RetryAssumption DEF RetryInit, RetryTypeOK
<1>2. PlaceOf
  BY DEF RetryInit, PlaceOf, StillEncrypted
<1> QED BY <1>1, <1>2 DEF RetryIInv

\* The attempt: whatever it leaves, it took no longer than MaxAttempt.
LEMMA AttemptKeepsRetryIInv ==
  ASSUME RetryIInv, Attempt
  PROVE  RetryIInv'
<1> USE RetryAssumption
<1>1. PICK d \in 0 .. MaxAttempt : AttemptFailsEarly(d) \/ AttemptFails(d) \/ AttemptSucceeds(d)
  BY DEF Attempt
<1>2. /\ Attempting /\ AfterAttempt
      /\ time' = time + d /\ attempts' = attempts + 1
      /\ UNCHANGED <<status, last15>>
      /\ iv' \in {"given", "reversed"}
  BY <1>1 DEF AttemptFailsEarly, AttemptFails, AttemptSucceeds, RetryIInv, RetryTypeOK, IvUsed, Opposite
<1>3. /\ StillEncrypted /\ RetryTypeOK
      /\ place = "once" => time = 0 /\ attempts = 0
      /\ place = "attempt" => Paid /\ time < Timeout
  BY <1>2 DEF RetryIInv, PlaceOf, Attempting
<1>4. /\ Answered'
      /\ last' \in {"ERR", "NONE"}
      /\ sample' \in {"encrypted", "clear", "garbled", "skipped"}
  BY <1>1, <1>3 DEF AttemptFailsEarly, AttemptFails, AttemptSucceeds, StillEncrypted, Answered
<1>5. attempts' \in 0 .. Timeout + 1 /\ attempts' > 0 /\ time' \in Nat
  <2>1. attempts \in Nat /\ time \in Nat
    BY <1>3 DEF RetryTypeOK
  <2>2. CASE place = "once"
    BY <1>2, <1>3, <2>1, <2>2
  <2>3. CASE place = "attempt"
    BY <1>2, <1>3, <2>1, <2>3, Multiples DEF Paid
  <2> QED BY <1>2, <2>2, <2>3 DEF Attempting
<1>6. PaidButOne'
  <2>1. attempts \in Nat /\ time \in Nat /\ attempts' - 1 = attempts
    BY <1>2, <1>3 DEF RetryTypeOK
  <2>2. CASE place = "once"
    BY <1>2, <1>3, <2>1, <2>2 DEF PaidButOne
  <2>3. CASE place = "attempt"
    BY <1>2, <1>3, <2>1, <2>3, Multiples DEF PaidButOne, Paid
  <2> QED BY <1>2, <2>2, <2>3 DEF Attempting
<1>7. RetryTypeOK'
  BY <1>2, <1>3, <1>4, <1>5 DEF RetryTypeOK, AfterAttempt
<1>8. PlaceOf'
  <2>1. CASE place = "once"
    BY <1>2, <1>3, <1>4, <1>6, <2>1 DEF PlaceOf, AfterAttempt
  <2>2. CASE place = "attempt"
    BY <1>2, <1>3, <1>4, <1>5, <1>6, <2>2 DEF PlaceOf, AfterAttempt, RetryTypeOK
  <2> QED BY <1>2, <2>1, <2>2 DEF Attempting
<1> QED BY <1>7, <1>8 DEF RetryIInv

\* Every step keeps the invariant.
LEMMA RetryNextIInv == RetryIInv /\ [RetryNext]_retryVars => RetryIInv'
<1> SUFFICES ASSUME RetryIInv, [RetryNext]_retryVars PROVE RetryIInv'
  OBVIOUS
<1> USE RetryAssumption
<1>0. attempts \in Nat /\ time \in Nat
  BY DEF RetryIInv, RetryTypeOK
<1>1. CASE StatusChanges
  BY <1>1 DEF StatusChanges, RetryIInv, RetryTypeOK, PlaceOf, StillEncrypted, Answered, Paid, PaidButOne
<1>2. CASE Begin
  BY <1>0, <1>2, Multiples DEF Begin, RetryIInv, RetryTypeOK, PlaceOf, StillEncrypted, Answered, Paid, PaidButOne
<1>3. CASE TimedOut
  <2>1. PaidButOne
    BY <1>0, <1>3, Multiples DEF TimedOut, RetryIInv, PlaceOf, Paid, PaidButOne
  <2> QED BY <1>0, <1>3, <2>1 DEF TimedOut, RetryIInv, RetryTypeOK, PlaceOf, StillEncrypted, Answered, PaidButOne
<1>4. CASE BeforeAttempt
  <2>1. PaidButOne
    BY <1>0, <1>4, Multiples DEF BeforeAttempt, RetryIInv, PlaceOf, Paid, PaidButOne
  <2>2. status \in Statuses /\ time < Timeout /\ Paid /\ StillEncrypted /\ place = "test"
    BY <1>4 DEF BeforeAttempt, RetryIInv, RetryTypeOK, PlaceOf
  <2>3. CASE status = "other"
    BY <1>0, <1>4, <2>1, <2>2, <2>3 DEF BeforeAttempt, RetryIInv, RetryTypeOK, PlaceOf, StillEncrypted, Answered, PaidButOne
  <2>4. CASE status = "usable"
    BY <1>0, <1>4, <2>2, <2>4 DEF BeforeAttempt, RetryIInv, RetryTypeOK, PlaceOf, StillEncrypted, Paid
  <2>5. CASE status = "restricted"
    BY <1>0, <1>4, <2>1, <2>2, <2>5 DEF BeforeAttempt, RetryIInv, RetryTypeOK, PlaceOf, StillEncrypted, PaidButOne
  <2> QED BY <2>2, <2>3, <2>4, <2>5 DEF Statuses
<1>5. CASE Attempt
  BY <1>5, AttemptKeepsRetryIInv
<1>6. CASE Judge
  BY <1>0, <1>6 DEF Judge, RetryIInv, RetryTypeOK, PlaceOf, StillEncrypted, Answered, PaidButOne
<1>7. CASE Sleep
  <2>1. Paid'
    BY <1>0, <1>7, Multiples DEF Sleep, RetryIInv, PlaceOf, Paid, PaidButOne
  <2> QED BY <1>0, <1>7, <2>1 DEF Sleep, RetryIInv, RetryTypeOK, PlaceOf, StillEncrypted
<1>8. CASE UNCHANGED retryVars
  BY <1>8 DEF retryVars, RetryIInv, RetryTypeOK, PlaceOf, StillEncrypted, Answered, Paid, PaidButOne
<1> QED BY <1>1, <1>2, <1>3, <1>4, <1>5, <1>6, <1>7, <1>8 DEF RetryNext, CallStep

\* The invariant holds in every state of every behaviour.
THEOREM RetryIInvHolds == RetrySpec => []RetryIInv
<1> QED BY RetryInitIInv, RetryNextIInv, PTL DEF RetrySpec

\* Whatever the timeout and the interval, the number of attempts of
\* decryptWithOutputRestrictedRetry is bounded and its variables keep their types.
THEOREM RetryTypeCorrect == RetrySpec => []RetryTypeOK
<1>1. RetryIInv => RetryTypeOK
  BY DEF RetryIInv
<1> QED BY <1>1, RetryIInvHolds, PTL

\* No attempt is ever made on a buffer that was already decrypted.
THEOREM NothingIsDecryptedTwice == RetrySpec => []DecryptedOnce
<1>1. RetryIInv => DecryptedOnce
  BY DEF RetryIInv, PlaceOf, DecryptedOnce, Attempting, StillEncrypted
<1> QED BY <1>1, RetryIInvHolds, PTL

\* The result of the call tells whether the buffer was handled.
THEOREM ResultsMatch == RetrySpec => []ResultMatchesBuffer
<1>1. RetryIInv => ResultMatchesBuffer
  BY DEF RetryIInv, PlaceOf, ResultMatchesBuffer, Answered
<1> QED BY <1>1, RetryIInvHolds, PTL

\* Attempts are an interval apart.
THEOREM AttemptsKeepTheirPace == RetrySpec => []AttemptsArePaced
<1>1. ASSUME RetryIInv PROVE AttemptsArePaced
  <2>0. attempts \in Nat /\ time \in Nat
    BY <1>1 DEF RetryIInv, RetryTypeOK
  <2>1. CASE place \in {"test", "attempt"}
    BY <1>1, <2>0, <2>1, Multiples, RetryAssumption DEF RetryIInv, PlaceOf, Paid, AttemptsArePaced
  <2>2. CASE place \in {"idle", "once", "judge", "sleep", "done"}
    BY <1>1, <2>0, <2>2 DEF RetryIInv, PlaceOf, PaidButOne, AttemptsArePaced
  <2> QED BY <1>1, <2>1, <2>2 DEF RetryIInv, RetryTypeOK
<1> QED BY <1>1, RetryIInvHolds, PTL

\* The call never runs longer than its timeout, an attempt and a pause.
THEOREM OverrunsAreBounded == RetrySpec => []OverrunIsBounded
<1>1. ASSUME RetryIInv PROVE OverrunIsBounded
  BY <1>1, RetryAssumption DEF RetryIInv, RetryTypeOK, PlaceOf, OverrunIsBounded
<1> QED BY <1>1, RetryIInvHolds, PTL

=============================================================================
