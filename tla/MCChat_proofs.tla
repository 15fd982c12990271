----------------------------- MODULE MCChat_proofs -----------------------------
(***************************************************************************)
(* Theorems about the chat that MCChat composes: the rate limiter and the   *)
(* history, for all keys, limits, windows, turns and budgets.               *)
(*                                                                         *)
(* Both are loops over sequences.  The induction they need is that of the   *)
(* natural numbers as a set: a set of them that is not empty has a least    *)
(* element.                                                                 *)
(***************************************************************************)
EXTENDS MCChat, AnswerPipeline_proofs, SequenceTheorems, WellFoundedInduction

-----------------------------------------------------------------------------
(* Induction over the natural numbers *)

Less == OpToRel(<, Nat)

LEMMA Least ==
    ASSUME NEW T, T \subseteq Nat, T # {}
    PROVE  \E n \in T : \A m \in T : n <= m
<1>1. IsWellFoundedOn(Less, Nat)
  BY NatLessThanWellFounded DEF Less
<1>2. PICK n \in T : \A m \in T : ~ (<<m, n>> \in Less)
  BY <1>1, WFMin
<1>3. \A m \in T : <<m, n>> \in Less <=> m < n
  BY DEF Less, OpToRel
<1>4. \A m \in T : m \in Nat /\ n \in Nat /\ ~(m < n)
  BY <1>2, <1>3
<1>5. \A m \in T : n <= m
  BY <1>4
<1> QED
  BY <1>5

LEMMA Induction ==
    ASSUME NEW T, 0 \in T, \A n \in Nat : n \in T => n + 1 \in T
    PROVE  Nat \subseteq T
<1> SUFFICES ASSUME Nat \ T # {} PROVE FALSE
  OBVIOUS
<1>1. PICK n \in Nat \ T : \A m \in Nat \ T : n <= m
  BY Least
<1>2. n # 0 /\ n - 1 \in Nat /\ n - 1 \in T
  BY <1>1
<1> QED
  BY <1>1, <1>2

\* The same up to a bound.
LEMMA InductionTo ==
    ASSUME NEW n \in Nat, NEW T, 0 \in T, \A i \in 0..n : i \in T /\ i < n => i + 1 \in T
    PROVE  0..n \subseteq T
<1> DEFINE U == {i \in Nat : i <= n => i \in T}
<1>1. 0 \in U
  OBVIOUS
<1>2. \A i \in Nat : i \in U => i + 1 \in U
  OBVIOUS
<1> HIDE DEF U
<1>3. Nat \subseteq U
  BY <1>1, <1>2, Induction
<1> QED
  BY <1>3 DEF U

-----------------------------------------------------------------------------
(* A loop of n steps *)

IsLoop(n, V, base, step) == n \in Nat /\ base \in V /\ step \in [(1..n) \X V -> V]
HasRun(n, V, base, step) ==
    \E f \in [0..n -> V] : f[0] = base /\ \A i \in 1..n : f[i] = step[<<i, f[i - 1]>>]

LEMMA LoopExists ==
    ASSUME NEW n, NEW V, NEW base, NEW step, IsLoop(n, V, base, step)
    PROVE  HasRun(n, V, base, step)
<1> USE DEF IsLoop
<1> DEFINE Runs(f, m) == f[0] = base /\ \A i \in 1..m : f[i] = step[<<i, f[i - 1]>>]
           T == {m \in Nat : \E f \in [0..m -> V] : Runs(f, m)}
<1>1. 0 \in T
  <2>1. [i \in 0..0 |-> base] \in [0..0 -> V] /\ Runs([i \in 0..0 |-> base], 0)
    OBVIOUS
  <2> QED
    BY <2>1
<1>2. ASSUME NEW m \in 0..n, m \in T, m < n PROVE m + 1 \in T
  <2>1. PICK f \in [0..m -> V] : Runs(f, m)
    BY <1>2
  <2> DEFINE g == [i \in 0..(m + 1) |-> IF i <= m THEN f[i] ELSE step[<<m + 1, f[m]>>]]
  <2>2. step[<<m + 1, f[m]>>] \in V
    BY <1>2
  <2>3. g \in [0..(m + 1) -> V]
    BY <2>2
  <2>4. \A i \in 0..m : g[i] = f[i]
    OBVIOUS
  <2>5. g[m + 1] = step[<<m + 1, g[m]>>]
    OBVIOUS
  <2>6. g[0] = base
    BY <2>1
  <2>7. ASSUME NEW i \in 1..(m + 1) PROVE g[i] = step[<<i, g[i - 1]>>]
    <3>1. CASE i = m + 1
      BY <2>5, <3>1
    <3>2. CASE i \in 1..m
      <4>1. i - 1 \in 0..m /\ i \in 0..m
        BY <3>2
      <4> QED
        BY <2>1, <2>4, <3>2, <4>1
    <3> QED
      BY <3>1, <3>2
  <2> HIDE DEF g
  <2> QED
    BY <2>3, <2>6, <2>7
<1>3. n \in T
  <2>1. \A m \in 0..n : m \in T /\ m < n => m + 1 \in T
    BY <1>2
  <2> HIDE DEF T
  <2>2. 0..n \subseteq T
    BY <1>1, <2>1, InductionTo
  <2> QED
    BY <2>2
<1> QED
  BY <1>3 DEF HasRun

\* A property of <<>> that Append keeps is one of every sequence.
LEMMA SequenceInduction ==
    ASSUME NEW X, NEW T, <<>> \in T,
           \A s \in Seq(X), x \in X : s \in T => Append(s, x) \in T
    PROVE  Seq(X) \subseteq T
<1> DEFINE U == {n \in Nat : \A s \in Seq(X) : Len(s) = n => s \in T}
<1>1. 0 \in U
  <2>1. \A s \in Seq(X) : Len(s) = 0 => s = <<>>
    OBVIOUS
  <2> QED
    BY <2>1
<1>2. ASSUME NEW n \in Nat, n \in U PROVE n + 1 \in U
  <2>1. ASSUME NEW s \in Seq(X), Len(s) = n + 1 PROVE s \in T
    <3> DEFINE r == SubSeq(s, 1, n)
    <3>1. r \in Seq(X) /\ Len(r) = n /\ s[n + 1] \in X
      BY <2>1
    <3>2. s = Append(r, s[n + 1])
      BY <2>1
    <3> HIDE DEF r
    <3>3. r \in T
      BY <1>2, <3>1
    <3> QED
      BY <3>1, <3>2, <3>3
  <2> QED
    BY <2>1
<1>3. Nat \subseteq U
  <2>1. \A n \in Nat : n \in U => n + 1 \in U
    BY <1>2
  <2> HIDE DEF U
  <2> QED
    BY <1>1, <2>1, Induction
<1>4. ASSUME NEW s \in Seq(X) PROVE s \in T
  <2>1. Len(s) \in U
    <3>1. Len(s) \in Nat
      OBVIOUS
    <3> HIDE DEF U
    <3> QED
      BY <1>3, <3>1
  <2> QED
    BY <2>1
<1> QED
  BY <1>4

LEMMA WiderSeq ==
    ASSUME NEW X, NEW Y, X \subseteq Y, NEW s \in Seq(X)
    PROVE  s \in Seq(Y)
<1>1. Len(s) \in Nat /\ s = [i \in 1..Len(s) |-> s[i]] /\ \A i \in 1..Len(s) : s[i] \in Y
  OBVIOUS
<1> QED
  BY <1>1

LEMMA AppendToConcat ==
    ASSUME NEW s \in Seq(Nat), NEW r \in Seq(Nat), NEW t \in Nat
    PROVE  Append(s \o r, t) = s \o Append(r, t)
<1>1. s \o r \in Seq(Nat)
  BY ConcatProperties
<1>2. <<t>> \in Seq(Nat)
  OBVIOUS
<1>3. Append(s \o r, t) = (s \o r) \o <<t>> /\ Append(r, t) = r \o <<t>>
  BY <1>1, AppendIsConcat
<1>4. (s \o r) \o <<t>> = s \o (r \o <<t>>)
  BY <1>2, ConcatAssociative
<1> QED
  BY <1>3, <1>4

LEMMA NoElements == ASSUME NEW X PROVE <<>> \in Seq(X) /\ Len(<<>>) = 0
OBVIOUS

LEMMA AppendType ==
    ASSUME NEW X, NEW s \in Seq(X), NEW t \in X
    PROVE  Append(s, t) \in Seq(X) /\ Len(Append(s, t)) = Len(s) + 1 /\ Len(s) \in Nat
OBVIOUS

\* The end of a sequence that starts at i, <<>> after its last element.
LEMMA EndType ==
    ASSUME NEW X, NEW s \in Seq(X), NEW i \in 1..(Len(s) + 1)
    PROVE  /\ SubSeq(s, i, Len(s)) \in Seq(X)
           /\ Len(SubSeq(s, i, Len(s))) = Len(s) - i + 1
           /\ \A m \in 1..(Len(s) - i + 1) : SubSeq(s, i, Len(s))[m] = s[m + i - 1]
OBVIOUS

-----------------------------------------------------------------------------
(* The filter of the rate limiter *)

KeptNext(times, w, i, kept) == IF times[i] + Window > w THEN Append(kept, times[i]) ELSE kept
Kept(times, w) ==
    CHOOSE kept : kept = [i \in 0..Len(times) |->
                             IF i = 0 THEN <<>> ELSE KeptNext(times, w, i, kept[i - 1])]

LEMMA FilterIs ==
    ASSUME NEW times, NEW w
    PROVE  Limiter!After(times, w) = Kept(times, w)[Len(times)]
BY DEF Limiter!After, Kept, KeptNext

LEMMA KeptSteps ==
    ASSUME NEW times \in Seq(Nat), NEW w \in Nat
    PROVE  /\ Kept(times, w)[0] = <<>>
           /\ \A i \in 1..Len(times) : Kept(times, w)[i] = KeptNext(times, w, i, Kept(times, w)[i - 1])
<1> DEFINE n == Len(times)
           V == Seq(Nat)
           base == <<>>
           step == [p \in (1..n) \X V |-> KeptNext(times, w, p[1], p[2])]
           Is(kept) == kept = [i \in 0..n |->
                                 IF i = 0 THEN <<>> ELSE KeptNext(times, w, i, kept[i - 1])]
<1>1. n \in Nat /\ \A i \in 1..n : times[i] \in Nat
  OBVIOUS
<1>2. \A i \in 1..n, s \in Seq(Nat) : KeptNext(times, w, i, s) \in Seq(Nat)
  BY <1>1 DEF KeptNext
<1>3. step \in [(1..n) \X V -> V]
  BY <1>2
<1>4. \A i \in 1..n, s \in Seq(Nat) : step[<<i, s>>] = KeptNext(times, w, i, s)
  OBVIOUS
<1>5. base \in V
  OBVIOUS
<1> HIDE DEF step, n, V, base
<1>6. HasRun(n, V, base, step)
  <2>1. IsLoop(n, V, base, step)
    BY <1>1, <1>3, <1>5 DEF IsLoop
  <2> QED
    BY <2>1, LoopExists
<1>7. PICK f \in [0..n -> V] :
          f[0] = base /\ \A i \in 1..n : f[i] = step[<<i, f[i - 1]>>]
  BY <1>6 DEF HasRun
<1>8. \A i \in 0..n : f[i] = IF i = 0 THEN <<>> ELSE KeptNext(times, w, i, f[i - 1])
  <2> SUFFICES ASSUME NEW i \in 0..n PROVE f[i] = IF i = 0 THEN <<>> ELSE KeptNext(times, w, i, f[i - 1])
    OBVIOUS
  <2>1. CASE i = 0
    BY <1>7, <2>1 DEF base
  <2>2. CASE i # 0
    <3>1. i \in 1..n /\ i - 1 \in 0..n
      BY <1>1, <2>2
    <3>2. f[i] = step[<<i, f[i - 1]>>] /\ f[i - 1] \in Seq(Nat)
      BY <1>7, <3>1 DEF V
    <3> QED
      BY <1>4, <2>2, <3>1, <3>2
  <2> QED
    BY <2>1, <2>2
<1>9. Is(f)
  BY <1>8
<1>10. Is(Kept(times, w))
  BY <1>9 DEF Kept, n
<1>11. \A i \in 0..n : Kept(times, w)[i] =
                          IF i = 0 THEN <<>> ELSE KeptNext(times, w, i, Kept(times, w)[i - 1])
  BY <1>10
<1> QED
  BY <1>1, <1>11 DEF n

LEMMA KeptSucc ==
    ASSUME NEW times \in Seq(Nat), NEW w \in Nat, NEW i, NEW j \in 1..Len(times), j - 1 = i
    PROVE  Kept(times, w)[j] = KeptNext(times, w, j, Kept(times, w)[i])
BY KeptSteps

LEMMA KeptType ==
    ASSUME NEW times \in Seq(Nat), NEW w \in Nat, NEW i \in 0..Len(times)
    PROVE  Kept(times, w)[i] \in Seq(Nat)
<1> DEFINE T == {j \in 0..Len(times) : Kept(times, w)[j] \in Seq(Nat)}
<1>1. 0 \in T
  <2>1. 0 \in 0..Len(times) /\ <<>> \in Seq(Nat)
    OBVIOUS
  <2> QED
    BY <2>1, KeptSteps
<1>2. ASSUME NEW j \in 0..Len(times), j \in T, j < Len(times) PROVE j + 1 \in T
  <2>1. j + 1 \in 1..Len(times) /\ (j + 1) - 1 = j /\ times[j + 1] \in Nat
    BY <1>2
  <2>2. Kept(times, w)[j + 1] = KeptNext(times, w, j + 1, Kept(times, w)[j])
    BY <2>1, KeptSteps
  <2>3. Kept(times, w)[j] \in Seq(Nat) /\ j + 1 \in 0..Len(times)
    BY <1>2, <2>1
  <2>4. Kept(times, w)[j + 1] \in Seq(Nat)
    BY <2>1, <2>2, <2>3 DEF KeptNext
  <2> QED
    BY <2>3, <2>4
<1>3. \A j \in 0..Len(times) : j \in T /\ j < Len(times) => j + 1 \in T
  BY <1>2
<1>4. Len(times) \in Nat
  OBVIOUS
<1> HIDE DEF T
<1>5. i \in T
  BY <1>1, <1>3, <1>4, InductionTo
<1> QED
  BY <1>5 DEF T

LEMMA FilterEmpty == ASSUME NEW w \in Nat PROVE Limiter!After(<<>>, w) = <<>>
<1>1. <<>> \in Seq(Nat) /\ Len(<<>>) = 0
  OBVIOUS
<1> QED
  BY <1>1, FilterIs, KeptSteps

\* One time more is looked at when the filter is done with the others.
LEMMA FilterAppend ==
    ASSUME NEW s \in Seq(Nat), NEW t \in Nat, NEW w \in Nat
    PROVE  /\ Limiter!After(s, w) \in Seq(Nat)
           /\ Limiter!After(Append(s, t), w) =
                 IF t + Window > w THEN Append(Limiter!After(s, w), t) ELSE Limiter!After(s, w)
<1> DEFINE r == Append(s, t)
<1>1. /\ r \in Seq(Nat) /\ Len(r) = Len(s) + 1 /\ r[Len(r)] = t
      /\ Len(s) \in Nat /\ \A i \in 1..Len(s) : r[i] = s[i]
  OBVIOUS
<1> HIDE DEF r
<1> DEFINE T == {j \in 0..Len(s) : Kept(r, w)[j] = Kept(s, w)[j]}
<1>2. 0 \in T
  BY <1>1, KeptSteps
<1>3. ASSUME NEW j \in 0..Len(s), j \in T, j < Len(s) PROVE j + 1 \in T
  <2>1. j + 1 \in 1..Len(s) /\ j + 1 \in 1..Len(r) /\ (j + 1) - 1 = j /\ r[j + 1] = s[j + 1]
    BY <1>1, <1>3
  <2>2. Kept(s, w)[j + 1] = KeptNext(s, w, j + 1, Kept(s, w)[j])
    BY <2>1, KeptSucc
  <2>3. Kept(r, w)[j + 1] = KeptNext(r, w, j + 1, Kept(r, w)[j])
    BY <1>1, <2>1, KeptSucc
  <2> QED
    BY <1>3, <2>1, <2>2, <2>3 DEF KeptNext
<1>4. Len(s) \in T
  <2>1. \A j \in 0..Len(s) : j \in T /\ j < Len(s) => j + 1 \in T
    BY <1>3
  <2> HIDE DEF T
  <2>2. 0..Len(s) \subseteq T
    BY <1>1, <1>2, <2>1, InductionTo
  <2> QED
    BY <1>1, <2>2
<1>5. Kept(r, w)[Len(r)] = KeptNext(r, w, Len(r), Kept(r, w)[Len(s)])
  <2>1. Len(r) \in 1..Len(r) /\ Len(r) - 1 = Len(s)
    BY <1>1
  <2> QED
    BY <1>1, <2>1, KeptSteps
<1>6. /\ Limiter!After(s, w) = Kept(s, w)[Len(s)]
      /\ Limiter!After(r, w) = Kept(r, w)[Len(r)]
  BY FilterIs
<1>7. Kept(s, w)[Len(s)] \in Seq(Nat)
  BY <1>1, KeptType
<1> QED
  BY <1>1, <1>4, <1>5, <1>6, <1>7 DEF r, KeptNext

LEMMA FilterTyped ==
    ASSUME NEW X, X \subseteq Nat, NEW s \in Seq(X), NEW w \in Nat
    PROVE  Limiter!After(s, w) \in Seq(X) /\ Len(Limiter!After(s, w)) <= Len(s)
<1> DEFINE T == {r \in Seq(X) : Limiter!After(r, w) \in Seq(X)
                                    /\ Len(Limiter!After(r, w)) <= Len(r)}
<1>1. <<>> \in T
  <2>1. <<>> \in Seq(X) /\ Limiter!After(<<>>, w) = <<>> /\ Len(<<>>) <= Len(<<>>)
    BY FilterEmpty, NoElements
  <2> QED
    BY <2>1, Zenon
<1>2. ASSUME NEW r \in Seq(X), NEW t \in X, r \in T PROVE Append(r, t) \in T
  <2>1. r \in Seq(Nat) /\ t \in Nat
    BY WiderSeq
  <2>2. Limiter!After(Append(r, t), w) =
          IF t + Window > w THEN Append(Limiter!After(r, w), t) ELSE Limiter!After(r, w)
    BY <2>1, FilterAppend
  <2> DEFINE kept == Limiter!After(r, w)
  <2>3. kept \in Seq(X) /\ Len(kept) <= Len(r)
    BY <1>2
  <2> HIDE DEF kept
  <2>4. Append(kept, t) \in Seq(X) /\ Len(Append(kept, t)) = Len(kept) + 1 /\ Len(kept) \in Nat
    BY <2>3, AppendType
  <2>5. Append(r, t) \in Seq(X) /\ Len(Append(r, t)) = Len(r) + 1 /\ Len(r) \in Nat
    BY AppendType
  <2>6. CASE t + Window > w
    <3>1. Limiter!After(Append(r, t), w) = Append(kept, t)
      BY <2>2, <2>6 DEF kept
    <3>2. Len(Append(kept, t)) <= Len(Append(r, t))
      BY <2>3, <2>4, <2>5
    <3> QED
      BY <2>4, <2>5, <3>1, <3>2
  <2>7. CASE ~ (t + Window > w)
    <3>1. Limiter!After(Append(r, t), w) = kept
      BY <2>2, <2>7 DEF kept
    <3>2. Len(kept) <= Len(Append(r, t))
      BY <2>3, <2>4, <2>5
    <3> QED
      BY <2>3, <2>5, <3>1, <3>2
  <2> QED
    BY <2>6, <2>7
<1>3. \A r \in Seq(X), t \in X : r \in T => Append(r, t) \in T
  BY <1>2
<1> HIDE DEF T
<1>4. s \in T
  BY <1>1, <1>3, SequenceInduction
<1> QED
  BY <1>4 DEF T

LEMMA FilterConcat ==
    ASSUME NEW s \in Seq(Nat), NEW r \in Seq(Nat), NEW w \in Nat
    PROVE  Limiter!After(s \o r, w) = Limiter!After(s, w) \o Limiter!After(r, w)
<1> DEFINE T == {q \in Seq(Nat) :
                    Limiter!After(s \o q, w) = Limiter!After(s, w) \o Limiter!After(q, w)}
<1>1. <<>> \in T
  <2>1. s \o <<>> = s /\ <<>> \in Seq(Nat)
    OBVIOUS
  <2>2. Limiter!After(s, w) \in Seq(Nat)
    BY FilterTyped
  <2>3. Limiter!After(s, w) \o <<>> = Limiter!After(s, w)
    BY <2>2
  <2> QED
    BY <2>1, <2>3, FilterEmpty
<1>2. ASSUME NEW q \in Seq(Nat), NEW t \in Nat, q \in T PROVE Append(q, t) \in T
  <2> DEFINE fs == Limiter!After(s, w)
             fq == Limiter!After(q, w)
  <2>1. fs \in Seq(Nat) /\ fq \in Seq(Nat)
    BY FilterTyped
  <2>2. /\ s \o q \in Seq(Nat) /\ Append(q, t) \in Seq(Nat)
        /\ s \o Append(q, t) = Append(s \o q, t)
    OBVIOUS
  <2>3. Limiter!After(s \o q, w) = fs \o fq
    BY <1>2
  <2>4. /\ Limiter!After(Append(s \o q, t), w) = IF t + Window > w THEN Append(fs \o fq, t) ELSE fs \o fq
        /\ Limiter!After(Append(q, t), w) = IF t + Window > w THEN Append(fq, t) ELSE fq
    BY <2>2, <2>3, FilterAppend
  <2> HIDE DEF fs, fq
  <2>5. Append(fs \o fq, t) = fs \o Append(fq, t)
    BY <2>1, AppendToConcat
  <2> QED
    BY <2>2, <2>4, <2>5 DEF fs
<1>3. \A q \in Seq(Nat), t \in Nat : q \in T => Append(q, t) \in T
  BY <1>2
<1> HIDE DEF T
<1>4. r \in T
  BY <1>1, <1>3, SequenceInduction
<1> QED
  BY <1>4 DEF T

\* A later window takes nothing that an earlier one has dropped.
LEMMA FilterTwice ==
    ASSUME NEW s \in Seq(Nat), NEW v \in Nat, NEW w \in Nat, v <= w, Window \in Nat
    PROVE  Limiter!After(Limiter!After(s, v), w) = Limiter!After(s, w)
<1> DEFINE T == {q \in Seq(Nat) : Limiter!After(Limiter!After(q, v), w) = Limiter!After(q, w)}
<1>1. <<>> \in T
  BY FilterEmpty
<1>2. ASSUME NEW q \in Seq(Nat), NEW t \in Nat, q \in T PROVE Append(q, t) \in T
  <2> DEFINE fv == Limiter!After(q, v)
             fw == Limiter!After(q, w)
  <2>1. fv \in Seq(Nat) /\ Append(q, t) \in Seq(Nat)
    BY FilterTyped
  <2>2. /\ Limiter!After(Append(q, t), v) = IF t + Window > v THEN Append(fv, t) ELSE fv
        /\ Limiter!After(Append(q, t), w) = IF t + Window > w THEN Append(fw, t) ELSE fw
    BY FilterAppend
  <2>3. Limiter!After(fv, w) = fw
    BY <1>2
  <2>4. Limiter!After(Append(fv, t), w) = IF t + Window > w THEN Append(fw, t) ELSE fw
    BY <2>1, <2>3, FilterAppend
  <2> HIDE DEF fv, fw
  <2>5. Limiter!After(Limiter!After(Append(q, t), v), w) = Limiter!After(Append(q, t), w)
    <3>1. CASE t + Window > v
      BY <2>2, <2>4, <3>1
    <3>2. CASE ~ (t + Window > v)
      <4>1. ~ (t + Window > w)
        BY <3>2
      <4> QED
        BY <2>2, <2>3, <3>2, <4>1
    <3> QED
      BY <3>1, <3>2
  <2> QED
    BY <2>1, <2>5
<1>3. \A q \in Seq(Nat), t \in Nat : q \in T => Append(q, t) \in T
  BY <1>2
<1> HIDE DEF T
<1>4. s \in T
  BY <1>1, <1>3, SequenceInduction
<1> QED
  BY <1>4 DEF T

-----------------------------------------------------------------------------
(* The limiter *)

Times == 0..MaxTime

LEMMA LimiterConstants ==
    /\ Limit \in [Keys -> Nat \ {0}]
    /\ Window \in Nat \ {0}
    /\ Evicted \in Nat \ {0} /\ MaxKeys \in Nat /\ Evicted <= MaxKeys
    /\ MaxTime \in Nat /\ Times \subseteq Nat
BY PartsAssumption DEF Limiter!RateAssumption, Times

LEMMA RecentType ==
    ASSUME NEW s \in Seq(Times), NEW w \in Nat
    PROVE  Limiter!After(s, w) \in Seq(Times) /\ Len(Limiter!After(s, w)) <= Len(s)
BY LimiterConstants, FilterTyped

\* What a key was granted within the window ends in what rateHits remembers of it,
\* and is that when the key was never evicted.
Remembered ==
    \A k \in Keys : \E lost \in Seq(Times) :
        /\ granted[k] = lost \o Limiter!Recent(hits[k])
        /\ k \notin forgotten => lost = <<>>

LimiterInv == Limiter!TypeOK /\ Remembered

LEMMA InsertedType ==
    ASSUME Limiter!TypeOK, NEW k \in Keys
    PROVE  /\ Limiter!Inserted(k) \in Seq(Keys)
           /\ Len(Limiter!Inserted(k)) <= MaxKeys + 1
           /\ \A j \in Limiter!SeenKeys \union {k} :
                  \E i \in 1..Len(Limiter!Inserted(k)) : Limiter!Inserted(k)[i] = j
<1> USE LimiterConstants
<1>1. CASE k \in Limiter!SeenKeys
  <2>1. Limiter!Inserted(k) = order /\ order \in Seq(Keys) /\ Len(order) <= MaxKeys
    BY <1>1 DEF Limiter!TypeOK, Limiter!Inserted
  <2>2. \A j \in Limiter!SeenKeys \union {k} : \E i \in 1..Len(order) : order[i] = j
    BY <1>1 DEF Limiter!SeenKeys
  <2>3. Len(order) <= MaxKeys + 1
    BY <2>1
  <2> QED
    BY <2>1, <2>2, <2>3
<1>2. CASE k \notin Limiter!SeenKeys
  <2>1. /\ Limiter!Inserted(k) = Append(order, k)
        /\ order \in Seq(Keys) /\ Len(order) <= MaxKeys
    BY <1>2 DEF Limiter!TypeOK, Limiter!Inserted
  <2>2. /\ Append(order, k) \in Seq(Keys) /\ Len(Append(order, k)) = Len(order) + 1
        /\ Len(order) \in Nat /\ Append(order, k)[Len(order) + 1] = k
        /\ \A i \in 1..Len(order) : Append(order, k)[i] = order[i]
    BY <2>1
  <2>3. ASSUME NEW j \in Limiter!SeenKeys \union {k}
        PROVE  \E i \in 1..(Len(order) + 1) : Append(order, k)[i] = j
    <3>1. CASE j = k
      BY <2>2, <3>1
    <3>2. CASE j \in Limiter!SeenKeys
      <4>1. PICK i \in 1..Len(order) : order[i] = j
        BY <3>2 DEF Limiter!SeenKeys
      <4>2. i \in 1..(Len(order) + 1) /\ Append(order, k)[i] = j
        BY <2>2, <4>1
      <4> QED
        BY <4>2
    <3> QED
      BY <3>1, <3>2
  <2> QED
    BY <2>1, <2>2, <2>3
<1> QED
  BY <1>1, <1>2

\* The keys that stay are the ones that are not dropped.
LEMMA Eviction ==
    ASSUME NEW keys \in Seq(Keys), Len(keys) <= MaxKeys + 1
    PROVE  /\ Limiter!Youngest(keys) \in Seq(Keys)
           /\ Len(Limiter!Youngest(keys)) <= MaxKeys
           /\ Limiter!Oldest(keys) \subseteq Keys
           /\ \A i \in 1..Len(keys) :
                  \/ keys[i] \in Limiter!Oldest(keys)
                  \/ \E m \in 1..Len(Limiter!Youngest(keys)) : Limiter!Youngest(keys)[m] = keys[i]
<1> USE LimiterConstants
<1>1. CASE Limiter!Over(keys)
  <2> DEFINE rest == SubSeq(keys, Evicted + 1, Len(keys))
  <2>1. Limiter!Youngest(keys) = rest /\ Limiter!Oldest(keys) = {keys[i] : i \in 1..Evicted}
    BY <1>1 DEF Limiter!Youngest, Limiter!Oldest
  <2>2. Len(keys) \in Nat /\ Len(keys) = MaxKeys + 1
    BY <1>1 DEF Limiter!Over
  <2>3. /\ rest \in Seq(Keys) /\ Len(rest) = Len(keys) - Evicted
        /\ \A m \in 1..Len(rest) : rest[m] = keys[Evicted + m]
    <3>1. Evicted + 1 \in 1..(Len(keys) + 1) /\ Len(keys) - (Evicted + 1) + 1 = Len(keys) - Evicted
      BY <2>2
    <3>2. /\ rest \in Seq(Keys) /\ Len(rest) = Len(keys) - Evicted
          /\ \A m \in 1..(Len(keys) - Evicted) : rest[m] = keys[m + (Evicted + 1) - 1]
      BY <3>1, EndType
    <3>3. \A m \in 1..(Len(keys) - Evicted) : m + (Evicted + 1) - 1 = Evicted + m
      BY <2>2
    <3> QED
      BY <3>2, <3>3
  <2> HIDE DEF rest
  <2>4. {keys[i] : i \in 1..Evicted} \subseteq Keys
    BY <2>2
  <2>5. ASSUME NEW i \in 1..Len(keys), i \notin 1..Evicted
        PROVE  \E m \in 1..Len(rest) : rest[m] = keys[i]
    <3>1. i - Evicted \in 1..Len(rest) /\ Evicted + (i - Evicted) = i
      BY <2>2, <2>3, <2>5
    <3>2. rest[i - Evicted] = keys[Evicted + (i - Evicted)]
      BY <2>3, <3>1
    <3> QED
      BY <3>1, <3>2
  <2>6. Len(rest) <= MaxKeys
    BY <2>2, <2>3
  <2> QED
    BY <2>1, <2>3, <2>4, <2>5, <2>6
<1>2. CASE ~ Limiter!Over(keys)
  BY <1>2 DEF Limiter!Over, Limiter!Youngest, Limiter!Oldest
<1> QED
  BY <1>1, <1>2

LEMMA InitLimiter == Limiter!Init => LimiterInv
<1> SUFFICES ASSUME Limiter!Init PROVE LimiterInv
  OBVIOUS
<1> USE DEF Limiter!Init
<1>1. <<>> \in Seq(Keys) /\ <<>> \in Seq(Times) /\ Len(<<>>) = 0 /\ <<>> \o <<>> = <<>>
  OBVIOUS
<1>2. Limiter!TypeOK
  <2>1. now \in 0..MaxTime /\ order \in Seq(Keys) /\ forgotten \subseteq Keys
    BY <1>1, LimiterConstants
  <2>2. hits \in [Keys -> Seq(0..MaxTime)] /\ granted \in [Keys -> Seq(0..MaxTime)]
    BY <1>1 DEF Times
  <2>3. Len(order) <= MaxKeys
    BY <1>1, LimiterConstants
  <2>4. \A k \in Keys : Len(hits[k]) <= Limit[k] /\ hits[k] = <<>>
    BY <1>1, LimiterConstants
  <2>5. \A k \in Keys : Len(hits[k]) <= Limit[k] /\ (hits[k] # <<>> => k \in Limiter!SeenKeys)
    BY <2>4, Zenon
  <2> QED
    BY <2>1, <2>2, <2>3, <2>5 DEF Limiter!TypeOK
<1>3. \A k \in Keys : Limiter!Recent(hits[k]) = <<>>
  BY LimiterConstants, FilterEmpty DEF Limiter!Recent
<1> QED
  BY <1>1, <1>2, <1>3 DEF LimiterInv, Remembered

LEMMA LimiterTypes ==
    ASSUME LimiterInv, NEW k \in Keys
    PROVE  /\ now \in Times /\ now \in Nat
           /\ hits[k] \in Seq(Times) /\ Len(hits[k]) <= Limit[k] /\ Limit[k] \in Nat \ {0}
           /\ granted[k] \in Seq(Times)
           /\ Limiter!Recent(hits[k]) \in Seq(Times)
           /\ Len(Limiter!Recent(hits[k])) <= Len(hits[k])
<1>1. /\ now \in Times /\ now \in Nat /\ hits[k] \in Seq(Times) /\ Len(hits[k]) <= Limit[k]
      /\ granted[k] \in Seq(Times) /\ Limit[k] \in Nat \ {0}
  BY LimiterConstants DEF LimiterInv, Limiter!TypeOK, Times
<1> QED
  BY <1>1, RecentType DEF Limiter!Recent

\* What is remembered now is remembered whole, and looking again drops nothing.
LEMMA RecentTwice ==
    ASSUME LimiterInv, NEW k \in Keys
    PROVE  Limiter!Recent(Limiter!Recent(hits[k])) = Limiter!Recent(hits[k])
<1>1. hits[k] \in Seq(Times) /\ now \in Nat /\ now <= now /\ Window \in Nat /\ Times \subseteq Nat
  BY LimiterTypes, LimiterConstants
<1>2. hits[k] \in Seq(Nat)
  BY <1>1, WiderSeq
<1> QED
  BY <1>1, <1>2, FilterTwice DEF Limiter!Recent

LEMMA TypingGrant ==
    ASSUME LimiterInv, NEW k \in Keys, Limiter!Grant(k)
    PROVE  Limiter!TypeOK'
<1> DEFINE keys == Limiter!Inserted(k)
           kept == Limiter!Recent(hits[k])
<1>1. Limiter!TypeOK
  BY DEF LimiterInv
<1>2. /\ keys \in Seq(Keys) /\ Len(keys) <= MaxKeys + 1
      /\ \A j \in Limiter!SeenKeys \union {k} : \E i \in 1..Len(keys) : keys[i] = j
  BY <1>1, InsertedType
<1>3. /\ order' = Limiter!Youngest(keys)
      /\ forgotten' = forgotten \union Limiter!Oldest(keys)
      /\ hits' = [j \in Keys |-> IF j \in Limiter!Oldest(keys) THEN <<>>
                                ELSE IF j = k THEN Append(kept, now) ELSE hits[j]]
      /\ granted' = [granted EXCEPT ![k] = Append(@, now)]
      /\ now' = now
      /\ Len(kept) < Limit[k]
  BY DEF Limiter!Grant
<1>4. /\ kept \in Seq(Times) /\ now \in Times /\ Limit[k] \in Nat \ {0} /\ granted[k] \in Seq(Times)
  BY LimiterTypes
<1> HIDE DEF keys, kept
<1>5. /\ order' \in Seq(Keys) /\ Len(order') <= MaxKeys
      /\ Limiter!Oldest(keys) \subseteq Keys
      /\ \A i \in 1..Len(keys) :
             keys[i] \in Limiter!Oldest(keys) \/ \E m \in 1..Len(order') : order'[m] = keys[i]
  BY <1>2, <1>3, Eviction
<1>6. /\ Append(kept, now) \in Seq(Times) /\ Len(Append(kept, now)) <= Limit[k]
      /\ Append(granted[k], now) \in Seq(Times)
      /\ <<>> \in Seq(Times) /\ Len(<<>>) = 0
  <2>1. /\ Append(kept, now) \in Seq(Times) /\ Len(Append(kept, now)) = Len(kept) + 1 /\ Len(kept) \in Nat
        /\ Append(granted[k], now) \in Seq(Times)
    BY <1>4, AppendType
  <2> QED
    BY <1>3, <1>4, <2>1, NoElements
<1>7. ASSUME NEW j \in Keys
      PROVE  hits'[j] \in Seq(Times) /\ Len(hits'[j]) <= Limit[j] /\ (hits'[j] # <<>> => j \in Limiter!SeenKeys')
  <2>0. hits[j] \in Seq(Times) /\ Len(hits[j]) <= Limit[j] /\ Limit[j] \in Nat \ {0}
    BY LimiterTypes
  <2>1. CASE j \in Limiter!Oldest(keys)
    <3>1. hits'[j] = <<>>
      BY <1>3, <2>1
    <3> QED
      BY <1>6, <2>0, <3>1
  <2>2. CASE j \notin Limiter!Oldest(keys) /\ hits'[j] # <<>>
    <3>1. j \in Limiter!SeenKeys \union {k}
      <4>1. CASE j # k
        <5>1. hits[j] # <<>>
          BY <1>3, <2>2, <4>1
        <5> QED
          BY <1>1, <5>1 DEF Limiter!TypeOK
      <4> QED
        BY <4>1
    <3>2. PICK i \in 1..Len(keys) : keys[i] = j
      BY <1>2, <3>1
    <3>3. \E m \in 1..Len(order') : order'[m] = j
      BY <1>5, <2>2, <3>2
    <3>4. j \in Limiter!SeenKeys'
      BY <3>3 DEF Limiter!SeenKeys
    <3>5. CASE j = k
      BY <1>3, <1>6, <2>2, <3>4, <3>5
    <3>6. CASE j # k
      BY <1>3, <2>0, <2>2, <3>4, <3>6
    <3> QED
      BY <3>5, <3>6
  <2>3. CASE hits'[j] = <<>>
    BY <1>6, <2>0, <2>3
  <2> QED
    BY <2>1, <2>2, <2>3
<1>8. hits' \in [Keys -> Seq(Times)]
  <2>1. DOMAIN hits' = Keys /\ hits' = [j \in Keys |-> hits'[j]]
    BY <1>3
  <2> QED
    BY <1>7, <2>1
<1>9. granted' \in [Keys -> Seq(Times)]
  <2>1. granted \in [Keys -> Seq(Times)]
    BY <1>1 DEF Limiter!TypeOK, Times
  <2> QED
    BY <1>3, <1>6, <2>1
<1> QED
  BY <1>1, <1>3, <1>5, <1>7, <1>8, <1>9 DEF Limiter!TypeOK, Times

LEMMA RememberedGrant ==
    ASSUME LimiterInv, NEW k \in Keys, Limiter!Grant(k)
    PROVE  Remembered'
<1> DEFINE keys == Limiter!Inserted(k)
           kept == Limiter!Recent(hits[k])
<1>1. /\ forgotten' = forgotten \union Limiter!Oldest(keys)
      /\ hits' = [j \in Keys |-> IF j \in Limiter!Oldest(keys) THEN <<>>
                                ELSE IF j = k THEN Append(kept, now) ELSE hits[j]]
      /\ granted' = [granted EXCEPT ![k] = Append(@, now)]
      /\ now' = now
  BY DEF Limiter!Grant
<1>2. granted \in [Keys -> Seq(Times)] /\ now \in Times /\ now \in Nat /\ now <= now
  BY LimiterTypes, LimiterConstants DEF LimiterInv, Limiter!TypeOK, Times
<1>3. \A s : (Limiter!Recent(s))' = Limiter!After(s', now)
  BY <1>1 DEF Limiter!Recent
<1> SUFFICES ASSUME NEW j \in Keys
             PROVE  \E lost \in Seq(Times) :
                        /\ granted'[j] = lost \o (Limiter!Recent(hits[j]))'
                        /\ j \notin forgotten' => lost = <<>>
  BY DEF Remembered
<1>4. PICK lost \in Seq(Times) :
          granted[j] = lost \o Limiter!Recent(hits[j]) /\ (j \notin forgotten => lost = <<>>)
  BY DEF LimiterInv, Remembered
<1>5. Limiter!Recent(hits[j]) \in Seq(Times)
  BY LimiterTypes
<1>6. CASE j \in Limiter!Oldest(keys)
  <2>1. (Limiter!Recent(hits[j]))' = <<>>
    <3>1. hits'[j] = <<>>
      BY <1>1, <1>6
    <3> QED
      BY <1>2, <1>3, <3>1, FilterEmpty
  <2>2. j \in forgotten'
    BY <1>1, <1>6
  <2>3. granted'[j] \in Seq(Times)
    BY <1>2, <1>1, AppendType
  <2>4. granted'[j] = granted'[j] \o <<>>
    BY <2>3
  <2> QED
    BY <2>1, <2>2, <2>3, <2>4
<1>7. CASE j \notin Limiter!Oldest(keys) /\ j = k
  <2>1. hits'[j] = Append(kept, now) /\ granted'[j] = Append(granted[j], now)
    BY <1>1, <1>2, <1>7
  <2>2. kept \in Seq(Nat) /\ Limiter!After(kept, now) = kept /\ lost \in Seq(Nat)
    BY <1>5, <1>7, RecentTwice, WiderSeq, LimiterConstants DEF Limiter!Recent
  <2>3. (Limiter!Recent(hits[j]))' = Append(kept, now)
    <3>1. Limiter!After(Append(kept, now), now) = Append(kept, now)
      <4>1. now + Window > now
        BY <1>2, LimiterConstants
      <4> QED
        BY <1>2, <2>2, <4>1, FilterAppend
    <3> QED
      BY <1>3, <2>1, <3>1
  <2>4. granted'[j] = lost \o Append(kept, now)
    <3>1. granted[j] = lost \o kept
      BY <1>4, <1>7
    <3> HIDE DEF kept
    <3>2. Append(lost \o kept, now) = lost \o Append(kept, now)
      BY <1>2, <2>2, AppendToConcat
    <3> QED
      BY <2>1, <3>1, <3>2
  <2>5. j \notin forgotten' => lost = <<>>
    BY <1>1, <1>4
  <2> QED
    BY <2>3, <2>4, <2>5
<1>8. CASE j \notin Limiter!Oldest(keys) /\ j # k
  <2>1. hits'[j] = hits[j] /\ granted'[j] = granted[j]
    BY <1>1, <1>2, <1>8
  <2>2. (Limiter!Recent(hits[j]))' = Limiter!Recent(hits[j])
    BY <1>3, <2>1 DEF Limiter!Recent
  <2>3. j \notin forgotten' => lost = <<>>
    BY <1>1, <1>4
  <2> QED
    BY <1>4, <2>1, <2>2, <2>3
<1> QED
  BY <1>6, <1>7, <1>8

LEMMA StepRefuse ==
    ASSUME LimiterInv, NEW k \in Keys, Limiter!Refuse(k)
    PROVE  LimiterInv'
<1>1. /\ hits' = [hits EXCEPT ![k] = Limiter!Recent(hits[k])]
      /\ UNCHANGED <<now, order, granted, forgotten>>
  BY DEF Limiter!Refuse, Limiter!NotCounted
<1>2. /\ hits \in [Keys -> Seq(Times)]
      /\ \A j \in Keys : Len(hits[j]) <= Limit[j] /\ (hits[j] # <<>> => j \in Limiter!SeenKeys)
  BY DEF LimiterInv, Limiter!TypeOK, Times
<1>3. Limiter!Recent(hits[k]) \in Seq(Times) /\ Len(Limiter!Recent(hits[k])) <= Len(hits[k])
  BY LimiterTypes
<1>4. hits' \in [Keys -> Seq(Times)]
  BY <1>1, <1>2, <1>3
<1>5. ASSUME NEW j \in Keys
      PROVE  Len(hits'[j]) <= Limit[j] /\ (hits'[j] # <<>> => j \in Limiter!SeenKeys)
  <2>1. CASE j # k
    BY <1>1, <1>2, <2>1
  <2>2. CASE j = k
    <3>1. hits'[k] = Limiter!Recent(hits[k])
      BY <1>1, <1>2
    <3>2. Len(hits[k]) <= Limit[k] /\ Limit[k] \in Nat /\ hits[k] \in Seq(Times)
      BY LimiterTypes
    <3> DEFINE kept == Limiter!Recent(hits[k])
    <3>3. kept \in Seq(Times) /\ Len(kept) <= Len(hits[k])
      BY <1>3
    <3> HIDE DEF kept
    <3>4. Len(kept) <= Limit[k]
      BY <3>2, <3>3
    <3>5. kept # <<>> => hits[k] # <<>>
      BY <3>2, <3>3
    <3> QED
      BY <1>2, <2>2, <3>1, <3>4, <3>5 DEF kept
  <2> QED
    BY <2>1, <2>2
<1>6. Limiter!SeenKeys' = Limiter!SeenKeys
  BY <1>1 DEF Limiter!SeenKeys
<1>7. Limiter!TypeOK'
  BY <1>1, <1>4, <1>5, <1>6 DEF LimiterInv, Limiter!TypeOK, Times
<1>8. ASSUME NEW j \in Keys PROVE (Limiter!Recent(hits[j]))' = Limiter!Recent(hits[j])
  <2>1. CASE j # k
    BY <1>1, <1>2, <2>1 DEF Limiter!Recent
  <2>2. CASE j = k
    <3>1. hits'[k] = Limiter!Recent(hits[k])
      BY <1>1, <1>2
    <3>2. (Limiter!Recent(hits[k]))' = Limiter!Recent(Limiter!Recent(hits[k]))
      BY <1>1, <3>1 DEF Limiter!Recent
    <3> QED
      BY <2>2, <3>2, RecentTwice
  <2> QED
    BY <2>1, <2>2
<1>9. Remembered'
  BY <1>1, <1>8 DEF LimiterInv, Remembered
<1> QED
  BY <1>7, <1>9 DEF LimiterInv

LEMMA StepTick ==
    ASSUME LimiterInv, Limiter!Tick
    PROVE  LimiterInv'
<1>1. /\ now < MaxTime /\ now' = now + 1
      /\ granted' = [k \in Keys |-> Limiter!After(granted[k], now + 1)]
      /\ UNCHANGED <<order, hits, forgotten>>
  BY DEF Limiter!Tick
<1>2. now \in Nat /\ now + 1 \in Times /\ now + 1 \in Nat /\ now <= now + 1
  BY <1>1, LimiterConstants DEF LimiterInv, Limiter!TypeOK, Times
<1>3. granted' \in [Keys -> Seq(Times)]
  <2>1. \A k \in Keys : Limiter!After(granted[k], now + 1) \in Seq(Times)
    BY <1>2, LimiterTypes, RecentType
  <2> QED
    BY <1>1, <2>1
<1>4. Limiter!TypeOK'
  BY <1>1, <1>2, <1>3 DEF LimiterInv, Limiter!TypeOK, Limiter!SeenKeys, Times
<1>5. ASSUME NEW k \in Keys
      PROVE  \E lost \in Seq(Times) :
                 /\ granted'[k] = lost \o (Limiter!Recent(hits[k]))'
                 /\ k \notin forgotten' => lost = <<>>
  <2>1. PICK lost \in Seq(Times) :
            granted[k] = lost \o Limiter!Recent(hits[k]) /\ (k \notin forgotten => lost = <<>>)
    BY DEF LimiterInv, Remembered
  <2>2. (Limiter!Recent(hits[k]))' = Limiter!After(hits[k], now + 1)
    BY <1>1 DEF Limiter!Recent
  <2>3. /\ lost \in Seq(Nat) /\ hits[k] \in Seq(Nat)
        /\ Limiter!Recent(hits[k]) \in Seq(Nat) /\ Window \in Nat
    BY LimiterTypes, WiderSeq, LimiterConstants
  <2>4. Limiter!After(Limiter!Recent(hits[k]), now + 1) = Limiter!After(hits[k], now + 1)
    BY <1>2, <2>3, FilterTwice DEF Limiter!Recent
  <2>5. granted'[k] = Limiter!After(lost, now + 1) \o Limiter!After(hits[k], now + 1)
    <3> DEFINE kept == Limiter!Recent(hits[k])
               next == now + 1
    <3>1. granted'[k] = Limiter!After(lost \o kept, next)
      BY <1>1, <2>1
    <3>2. lost \in Seq(Nat) /\ kept \in Seq(Nat) /\ next \in Nat
      BY <1>2, <2>3
    <3>3. Limiter!After(kept, next) = Limiter!After(hits[k], next)
      BY <2>4
    <3> HIDE DEF kept, next
    <3>4. granted'[k] = Limiter!After(lost, next) \o Limiter!After(hits[k], next)
      BY <3>1, <3>2, <3>3, FilterConcat
    <3> QED
      BY <3>4 DEF next
  <2>6. Limiter!After(lost, now + 1) \in Seq(Times)
    BY <1>2, RecentType
  <2>7. k \notin forgotten' => Limiter!After(lost, now + 1) = <<>>
    BY <1>1, <1>2, <2>1, FilterEmpty
  <2> QED
    BY <2>2, <2>5, <2>6, <2>7
<1>6. Remembered'
  BY <1>5 DEF Remembered
<1> QED
  BY <1>4, <1>6 DEF LimiterInv

LEMMA StepLimiter == LimiterInv /\ Limiter!Next => LimiterInv'
<1> SUFFICES ASSUME LimiterInv, Limiter!Next PROVE LimiterInv'
  OBVIOUS
<1>1. CASE Limiter!Tick
  BY <1>1, StepTick
<1>2. CASE \E k \in Keys : Limiter!Grant(k)
  BY <1>2, TypingGrant, RememberedGrant DEF LimiterInv
<1>3. CASE \E k \in Keys : Limiter!Refuse(k)
  BY <1>3, StepRefuse
<1> QED
  BY <1>1, <1>2, <1>3 DEF Limiter!Next

LEMMA LimiterIsExact == LimiterInv => LimitIsExact
<1> SUFFICES ASSUME LimiterInv, NEW k \in Keys
             PROVE  /\ k \notin forgotten => Len(granted[k]) <= Limit[k]
                    /\ Len(Limiter!Recent(hits[k])) >= Limit[k] => Len(granted[k]) >= Limit[k]
  BY DEF LimitIsExact, Limiter!LimitIsExact
<1> DEFINE kept == Limiter!Recent(hits[k])
<1>1. PICK lost \in Seq(Times) : granted[k] = lost \o kept /\ (k \notin forgotten => lost = <<>>)
  BY DEF LimiterInv, Remembered
<1>2. /\ kept \in Seq(Times) /\ Len(kept) <= Len(hits[k]) /\ Len(hits[k]) \in Nat
      /\ Len(hits[k]) <= Limit[k] /\ Limit[k] \in Nat
  BY LimiterTypes
<1> HIDE DEF kept
<1>3. Len(lost \o kept) = Len(lost) + Len(kept) /\ Len(lost) \in Nat /\ Len(kept) \in Nat
  BY <1>2
<1>4. k \notin forgotten => Len(lost) = 0
  BY <1>1
<1> QED
  BY <1>1, <1>2, <1>3, <1>4 DEF kept

-----------------------------------------------------------------------------
(* What a conversation adds up to *)

Sums(lengths) ==
    CHOOSE sum : sum = [i \in 0..Len(lengths) |->
                           IF i = 0 THEN 0 ELSE sum[i - 1] + lengths[i]]

LEMMA TotalIs ==
    ASSUME NEW lengths
    PROVE  History!Total(lengths) = Sums(lengths)[Len(lengths)]
BY DEF History!Total, Sums

LEMMA SumSteps ==
    ASSUME NEW lengths \in Seq(Nat)
    PROVE  /\ Sums(lengths)[0] = 0
           /\ \A i \in 1..Len(lengths) :
                  /\ Sums(lengths)[i] = Sums(lengths)[i - 1] + lengths[i]
                  /\ Sums(lengths)[i] \in Nat /\ Sums(lengths)[i - 1] \in Nat
<1> DEFINE n == Len(lengths)
           V == Nat
           base == 0
           step == [p \in (1..n) \X V |-> p[2] + lengths[p[1]]]
           Is(sum) == sum = [i \in 0..n |-> IF i = 0 THEN 0 ELSE sum[i - 1] + lengths[i]]
<1>1. n \in Nat /\ \A i \in 1..n : lengths[i] \in Nat
  OBVIOUS
<1>2. \A i \in 1..n, m \in Nat : m + lengths[i] \in Nat
  BY <1>1
<1>3. step \in [(1..n) \X V -> V]
  BY <1>2
<1>4. \A i \in 1..n, m \in Nat : step[<<i, m>>] = m + lengths[i]
  OBVIOUS
<1>5. base \in V
  OBVIOUS
<1> HIDE DEF step, n, V, base
<1>6. HasRun(n, V, base, step)
  <2>1. IsLoop(n, V, base, step)
    BY <1>1, <1>3, <1>5 DEF IsLoop
  <2> QED
    BY <2>1, LoopExists
<1>7. PICK f \in [0..n -> V] :
          f[0] = base /\ \A i \in 1..n : f[i] = step[<<i, f[i - 1]>>]
  BY <1>6 DEF HasRun
<1>8. \A i \in 0..n : f[i] \in Nat /\ f[i] = IF i = 0 THEN 0 ELSE f[i - 1] + lengths[i]
  <2> SUFFICES ASSUME NEW i \in 0..n PROVE f[i] \in Nat /\ f[i] = IF i = 0 THEN 0 ELSE f[i - 1] + lengths[i]
    OBVIOUS
  <2>0. f[i] \in Nat
    BY <1>7 DEF V
  <2>1. CASE i = 0
    BY <1>7, <2>0, <2>1 DEF base
  <2>2. CASE i # 0
    <3>1. i \in 1..n /\ i - 1 \in 0..n
      BY <1>1, <2>2
    <3>2. f[i] = step[<<i, f[i - 1]>>] /\ f[i - 1] \in Nat
      BY <1>7, <3>1 DEF V
    <3> QED
      BY <1>4, <2>0, <2>2, <3>1, <3>2
  <2> QED
    BY <2>1, <2>2
<1>9. Is(f)
  BY <1>8
<1>10. Is(Sums(lengths))
  BY <1>9 DEF Sums, n
<1>11. \A i \in 0..n : Sums(lengths)[i] = IF i = 0 THEN 0 ELSE Sums(lengths)[i - 1] + lengths[i]
  BY <1>10
<1> DEFINE T == {i \in 0..n : Sums(lengths)[i] \in Nat}
<1>12. 0 \in T
  BY <1>1, <1>11
<1>13. \A i \in 0..n : i \in T /\ i < n => i + 1 \in T
  <2> SUFFICES ASSUME NEW i \in 0..n, i \in T, i < n PROVE i + 1 \in T
    OBVIOUS
  <2>1. i + 1 \in 1..n /\ i + 1 \in 0..n /\ (i + 1) - 1 = i /\ i + 1 # 0
    BY <1>1
  <2>2. Sums(lengths)[i + 1] = Sums(lengths)[i] + lengths[i + 1]
    BY <1>11, <2>1
  <2> QED
    BY <1>1, <2>1, <2>2
<1> HIDE DEF T
<1>14. 0..n \subseteq T
  BY <1>1, <1>12, <1>13, InductionTo
<1>15. \A i \in 0..n : Sums(lengths)[i] \in Nat
  BY <1>14 DEF T
<1>16. \A i \in 1..n : i \in 0..n /\ i - 1 \in 0..n /\ i # 0
  BY <1>1
<1>17. \A i \in 1..n : /\ Sums(lengths)[i] = Sums(lengths)[i - 1] + lengths[i]
                      /\ Sums(lengths)[i] \in Nat /\ Sums(lengths)[i - 1] \in Nat
  BY <1>11, <1>15, <1>16
<1>18. Sums(lengths)[0] = 0
  BY <1>1, <1>11
<1> QED
  BY <1>17, <1>18 DEF n

LEMMA TotalType ==
    ASSUME NEW lengths \in Seq(Nat)
    PROVE  History!Total(lengths) \in Nat /\ (Len(lengths) = 0 => History!Total(lengths) = 0)
<1>1. Len(lengths) \in Nat /\ (Len(lengths) # 0 => Len(lengths) \in 1..Len(lengths))
  OBVIOUS
<1> QED
  BY <1>1, SumSteps, TotalIs

\* A length more in front is one more summand.
InFront(r, s, m) ==
    /\ \A i \in 1..m : s[i] \in Nat /\ r[i + 1] = s[i]
    /\ r[1] \in Nat /\ Sums(r)[0] = 0 /\ Sums(s)[0] = 0
    /\ \A i \in 1..m : Sums(s)[i] = Sums(s)[i - 1] + s[i] /\ Sums(s)[i - 1] \in Nat
    /\ \A i \in 1..(m + 1) : Sums(r)[i] = Sums(r)[i - 1] + r[i]

LEMMA SumsInFront ==
    ASSUME NEW r, NEW s, NEW m \in Nat, InFront(r, s, m)
    PROVE  Sums(r)[m + 1] = r[1] + Sums(s)[m]
<1> DEFINE F == Sums(r)
           G == Sums(s)
<1>0. /\ \A i \in 1..m : G[i] = G[i - 1] + s[i] /\ G[i - 1] \in Nat
      /\ \A i \in 1..(m + 1) : F[i] = F[i - 1] + r[i]
      /\ F[0] = 0 /\ G[0] = 0
      /\ r[1] \in Nat /\ \A i \in 1..m : s[i] \in Nat /\ r[i + 1] = s[i]
  BY DEF InFront
<1> HIDE DEF F, G
<1> DEFINE T == {i \in 0..m : F[i + 1] = r[1] + G[i]}
<1>1. 0 \in T
  BY <1>0
<1>2. ASSUME NEW i \in 0..m, i \in T, i < m PROVE i + 1 \in T
  <2>1. i + 1 \in 1..m /\ (i + 1) - 1 = i /\ (i + 1) + 1 \in 1..(m + 1) /\ ((i + 1) + 1) - 1 = i + 1
    BY <1>2
  <2>2. G[i + 1] = G[i] + s[i + 1] /\ G[i] \in Nat /\ s[i + 1] \in Nat
    BY <1>0, <2>1
  <2>3. F[(i + 1) + 1] = F[i + 1] + r[(i + 1) + 1] /\ r[(i + 1) + 1] = s[i + 1]
    BY <1>0, <2>1
  <2>4. F[i + 1] = r[1] + G[i] /\ r[1] \in Nat
    BY <1>0, <1>2
  <2>5. F[(i + 1) + 1] = r[1] + G[i + 1]
    BY <2>2, <2>3, <2>4
  <2> QED
    BY <2>1, <2>5
<1>3. \A i \in 0..m : i \in T /\ i < m => i + 1 \in T
  BY <1>2
<1> HIDE DEF T
<1>4. 0..m \subseteq T
  BY <1>1, <1>3, InductionTo
<1> QED
  BY <1>4 DEF T, F, G

LEMMA TotalFront ==
    ASSUME NEW r \in Seq(Nat), NEW s \in Seq(Nat), Len(r) = Len(s) + 1,
           \A i \in 1..Len(s) : r[i + 1] = s[i]
    PROVE  History!Total(r) = r[1] + History!Total(s)
<1>1. Len(s) \in Nat /\ r[1] \in Nat
  OBVIOUS
<1>2. \A i \in 1..Len(s) : s[i] \in Nat /\ r[i + 1] = s[i]
  OBVIOUS
<1>3. \A i \in 1..Len(s) : Sums(s)[i] = Sums(s)[i - 1] + s[i] /\ Sums(s)[i - 1] \in Nat
  BY SumSteps
<1>4. \A i \in 1..(Len(s) + 1) : Sums(r)[i] = Sums(r)[i - 1] + r[i]
  BY SumSteps
<1>5. Sums(r)[0] = 0 /\ Sums(s)[0] = 0
  BY SumSteps
<1>6. InFront(r, s, Len(s))
  BY <1>1, <1>2, <1>3, <1>4, <1>5 DEF InFront
<1>7. Sums(r)[Len(s) + 1] = r[1] + Sums(s)[Len(s)]
  BY <1>1, <1>6, SumsInFront
<1> QED
  BY <1>7, TotalIs

\* No length is shorter than the shortest.
LEMMA TotalBound ==
    ASSUME NEW s \in Seq(Nat), NEW least \in Nat, \A i \in 1..Len(s) : least <= s[i]
    PROVE  Len(s) * least <= History!Total(s)
<1> DEFINE T == {i \in 0..Len(s) : i * least <= Sums(s)[i]}
<1>1. Len(s) \in Nat
  OBVIOUS
<1>2. 0 \in T
  <2>1. 0 * least = 0 /\ 0 \in 0..Len(s)
    BY <1>1
  <2> QED
    BY <2>1, SumSteps
<1>3. \A i \in 0..Len(s) : i \in T /\ i < Len(s) => i + 1 \in T
  <2> SUFFICES ASSUME NEW i \in 0..Len(s), i \in T, i < Len(s) PROVE i + 1 \in T
    OBVIOUS
  <2>1. i + 1 \in 1..Len(s) /\ i + 1 \in 0..Len(s) /\ (i + 1) - 1 = i
    BY <1>1
  <2>2. /\ Sums(s)[i + 1] = Sums(s)[i] + s[i + 1] /\ Sums(s)[i] \in Nat
        /\ s[i + 1] \in Nat /\ least <= s[i + 1]
    BY <2>1, SumSteps
  <2>3. (i + 1) * least = i * least + least /\ i * least \in Nat
    OBVIOUS
  <2>4. i * least <= Sums(s)[i]
    OBVIOUS
  <2>5. (i + 1) * least <= Sums(s)[i + 1]
    BY <2>2, <2>3, <2>4
  <2> QED
    BY <2>1, <2>5
<1> HIDE DEF T
<1>4. Len(s) \in T
  <2>1. 0..Len(s) \subseteq T
    BY <1>1, <1>2, <1>3, InductionTo
  <2> QED
    BY <1>1, <2>1
<1> QED
  BY <1>4, TotalIs DEF T

-----------------------------------------------------------------------------
(* The turns of a conversation *)

Said == Prompts \union Replies

LEMMA SaidType ==
    /\ Prompts \subseteq History!Turn("user") /\ Replies \subseteq History!Turn("assistant")
    /\ \A t \in Said : /\ t \in History!Turns /\ t.units \in Nat /\ t.bytes \in Nat
                      /\ Shortest <= t.units
    /\ Said \subseteq History!Turns
BY PartsAssumption DEF History!HistoryAssumption, History!Turn, History!Turns, Said

LEMMA HistoryConstants ==
    /\ Budget \in Nat /\ MaxSent \in Nat /\ Overhead \in Nat /\ MaxTurns \in Nat
    /\ MaxCrashes \in Nat /\ Shortest \in Nat \ {0}
    /\ Overhead + Budget <= MaxSent
    /\ Budget <= Shortest * (MaxSent - Overhead - Budget)
BY PartsAssumption DEF History!HistoryAssumption

UnitsOf(turns) == [i \in 1..Len(turns) |-> turns[i].units]

LEMMA UnitsOfType ==
    ASSUME NEW turns \in Seq(Said)
    PROVE  /\ UnitsOf(turns) \in Seq(Nat) /\ Len(UnitsOf(turns)) = Len(turns)
           /\ Len(turns) \in Nat
           /\ \A i \in 1..Len(turns) : UnitsOf(turns)[i] = turns[i].units /\ Shortest <= turns[i].units
           /\ History!Units(turns) = History!Total(UnitsOf(turns))
<1>1. Len(turns) \in Nat /\ \A i \in 1..Len(turns) : turns[i] \in Said
  OBVIOUS
<1>2. \A i \in 1..Len(turns) : turns[i].units \in Nat /\ Shortest <= turns[i].units
  BY <1>1, SaidType
<1>3. UnitsOf(turns) \in Seq(Nat) /\ Len(UnitsOf(turns)) = Len(turns)
  BY <1>1, <1>2 DEF UnitsOf
<1>4. \A i \in 1..Len(turns) : UnitsOf(turns)[i] = turns[i].units
  BY DEF UnitsOf
<1> QED
  BY <1>1, <1>2, <1>3, <1>4 DEF History!Units, UnitsOf

LEMMA UnitsType ==
    ASSUME NEW turns \in Seq(Said)
    PROVE  /\ History!Units(turns) \in Nat
           /\ Len(turns) = 0 => History!Units(turns) = 0
           /\ Len(turns) * Shortest <= History!Units(turns)
<1>1. /\ UnitsOf(turns) \in Seq(Nat) /\ Len(UnitsOf(turns)) = Len(turns)
      /\ History!Units(turns) = History!Total(UnitsOf(turns))
      /\ \A i \in 1..Len(UnitsOf(turns)) : Shortest <= UnitsOf(turns)[i]
  BY UnitsOfType
<1>2. History!Total(UnitsOf(turns)) \in Nat /\ (Len(UnitsOf(turns)) = 0 => History!Total(UnitsOf(turns)) = 0)
  BY <1>1, TotalType
<1>3. Shortest \in Nat
  BY HistoryConstants
<1>4. Len(UnitsOf(turns)) * Shortest <= History!Total(UnitsOf(turns))
  BY <1>1, <1>3, TotalBound
<1> QED
  BY <1>1, <1>2, <1>4

\* An end of the conversation is its first turn and the end after that.
LEMMA EndStep ==
    ASSUME NEW turns \in Seq(Said), NEW i \in 1..Len(turns)
    PROVE  /\ turns[i] \in Said
           /\ History!EndFrom(turns, i) = <<turns[i]>> \o History!EndFrom(turns, i + 1)
           /\ History!Units(History!EndFrom(turns, i)) =
                 turns[i].units + History!Units(History!EndFrom(turns, i + 1))
<1> DEFINE n == Len(turns)
           long == History!EndFrom(turns, i)
           short == History!EndFrom(turns, i + 1)
<1>1. n \in Nat /\ turns[i] \in Said
  OBVIOUS
<1>2. /\ long \in Seq(Said) /\ Len(long) = n - i + 1
      /\ \A m \in 1..(n - i + 1) : long[m] = turns[m + i - 1]
  <2>1. i \in 1..(Len(turns) + 1)
    BY <1>1
  <2> QED
    BY <2>1, EndType DEF History!EndFrom
<1>3. /\ short \in Seq(Said) /\ Len(short) = n - i
      /\ \A m \in 1..(n - i) : short[m] = turns[m + i]
  <2>1. i + 1 \in 1..(Len(turns) + 1) /\ Len(turns) - (i + 1) + 1 = n - i
    BY <1>1
  <2>2. /\ short \in Seq(Said) /\ Len(short) = n - i
        /\ \A m \in 1..(n - i) : short[m] = turns[m + (i + 1) - 1]
    BY <2>1, EndType DEF History!EndFrom
  <2>3. \A m \in 1..(n - i) : m + (i + 1) - 1 = m + i
    BY <1>1
  <2> QED
    BY <2>2, <2>3
<1> HIDE DEF long, short
<1>4. long[1] = turns[i] /\ \A m \in 1..(n - i) : long[m + 1] = short[m]
  <2>1. 1 \in 1..(n - i + 1) /\ 1 + i - 1 = i
    BY <1>1
  <2>2. \A m \in 1..(n - i) : m + 1 \in 1..(n - i + 1) /\ (m + 1) + i - 1 = m + i
    BY <1>1
  <2> QED
    BY <1>2, <1>3, <2>1, <2>2
<1>5. long = <<turns[i]>> \o short
  <2> DEFINE both == <<turns[i]>> \o short
  <2>1. /\ both \in Seq(Said) /\ Len(both) = n - i + 1 /\ both[1] = turns[i]
        /\ \A m \in 1..(n - i) : both[m + 1] = short[m]
    BY <1>1, <1>3
  <2> HIDE DEF both
  <2>2. ASSUME NEW m \in 1..(n - i + 1) PROVE long[m] = both[m]
    <3>1. CASE m = 1
      BY <1>4, <2>1, <3>1
    <3>2. CASE m # 1
      <4>1. m - 1 \in 1..(n - i) /\ (m - 1) + 1 = m
        BY <1>1, <3>2
      <4> QED
        BY <1>4, <2>1, <4>1
    <3> QED
      BY <3>1, <3>2
  <2>3. long = both
    BY <1>2, <2>1, <2>2, SeqEqual
  <2> QED
    BY <2>3 DEF both
<1>6. History!Units(long) = turns[i].units + History!Units(short)
  <2>1. /\ UnitsOf(long) \in Seq(Nat) /\ UnitsOf(short) \in Seq(Nat)
        /\ Len(UnitsOf(long)) = n - i + 1 /\ Len(UnitsOf(short)) = n - i
        /\ \A m \in 1..(n - i + 1) : UnitsOf(long)[m] = long[m].units
        /\ \A m \in 1..(n - i) : UnitsOf(short)[m] = short[m].units
        /\ History!Units(long) = History!Total(UnitsOf(long))
        /\ History!Units(short) = History!Total(UnitsOf(short))
    BY <1>2, <1>3, UnitsOfType
  <2>2. UnitsOf(long)[1] = turns[i].units /\ Len(UnitsOf(long)) = Len(UnitsOf(short)) + 1
    BY <1>1, <1>4, <2>1
  <2>3. \A m \in 1..Len(UnitsOf(short)) : UnitsOf(long)[m + 1] = UnitsOf(short)[m]
    <3>1. \A m \in 1..(n - i) : m + 1 \in 1..(n - i + 1)
      BY <1>1
    <3> QED
      BY <1>4, <2>1, <3>1
  <2> QED
    BY <2>1, <2>2, <2>3, TotalFront
<1> QED
  BY <1>1, <1>5, <1>6 DEF long, short

LEMMA EndIsSaid ==
    ASSUME NEW turns \in Seq(Said), NEW i \in 1..(Len(turns) + 1)
    PROVE  /\ History!EndFrom(turns, i) \in Seq(Said)
           /\ Len(History!EndFrom(turns, i)) = Len(turns) - i + 1
           /\ History!Units(History!EndFrom(turns, i)) \in Nat
BY EndType, UnitsType DEF History!EndFrom

\* An end that starts later is no longer.
LEMMA LaterIsShorter ==
    ASSUME NEW turns \in Seq(Said), NEW i \in 1..Len(turns), NEW j \in i..Len(turns)
    PROVE  History!Units(History!EndFrom(turns, j)) <= History!Units(History!EndFrom(turns, i))
<1> DEFINE d == j - i
           U(m) == History!Units(History!EndFrom(turns, m))
           T == {m \in 0..d : U(i + m) <= U(i)}
<1>1. /\ Len(turns) \in Nat /\ d \in Nat /\ i + d = j /\ i + 0 = i
      /\ \A m \in 0..d : i + m \in 1..Len(turns)
  OBVIOUS
<1>2. \A m \in 1..(Len(turns) + 1) : U(m) \in Nat
  BY EndIsSaid
<1>3. \A m \in 1..Len(turns) : U(m + 1) <= U(m)
  <2> SUFFICES ASSUME NEW m \in 1..Len(turns) PROVE U(m + 1) <= U(m)
    OBVIOUS
  <2>1. U(m) = turns[m].units + U(m + 1) /\ turns[m] \in Said
    BY EndStep
  <2>2. turns[m].units \in Nat
    BY <2>1, SaidType
  <2>3. U(m + 1) \in Nat
    <3>1. m + 1 \in 1..(Len(turns) + 1)
      BY <1>1
    <3> QED
      BY <1>2, <3>1
  <2> HIDE DEF U
  <2> QED
    BY <2>1, <2>2, <2>3
<1>4. \A m \in 0..d : U(i + m) \in Nat
  <2>1. \A m \in 0..d : i + m \in 1..(Len(turns) + 1)
    BY <1>1
  <2> QED
    BY <1>2, <2>1
<1> HIDE DEF U, d
<1>5. 0 \in T
  <2>1. 0 \in 0..d
    BY <1>1
  <2>2. U(i + 0) \in Nat /\ U(i + 0) = U(i)
    BY <1>1, <1>4, <2>1
  <2>3. U(i + 0) <= U(i)
    BY <2>2
  <2> QED
    BY <2>1, <2>3
<1>6. \A m \in 0..d : m \in T /\ m < d => m + 1 \in T
  <2> SUFFICES ASSUME NEW m \in 0..d, m \in T, m < d PROVE m + 1 \in T
    OBVIOUS
  <2>1. m + 1 \in 0..d /\ i + (m + 1) = (i + m) + 1 /\ i + m \in 1..Len(turns) /\ 0 \in 0..d
    BY <1>1
  <2>2. U(i + (m + 1)) <= U(i + m)
    BY <1>3, <2>1
  <2>3. U(i + m) <= U(i) /\ U(i + m) \in Nat /\ U(i + (m + 1)) \in Nat /\ U(i) \in Nat
    BY <1>1, <1>4, <2>1
  <2>4. U(i + (m + 1)) <= U(i)
    BY <2>2, <2>3
  <2> QED
    BY <2>1, <2>4
<1> HIDE DEF T
<1>7. d \in T
  <2>1. 0..d \subseteq T
    BY <1>1, <1>5, <1>6, InductionTo
  <2> QED
    BY <1>1, <2>1
<1> QED
  BY <1>1, <1>7 DEF T, U

-----------------------------------------------------------------------------
(* buildMessages *)

Built(turns) ==
    CHOOSE kept : kept = [i \in 0..Len(turns) |->
                             IF i = 0 THEN History!NothingKept
                             ELSE History!Keep(turns[Len(turns) - i + 1], kept[i - 1])]

LEMMA BuiltIs ==
    ASSUME NEW turns
    PROVE  History!BuildMessages(turns) = Built(turns)[Len(turns)]
BY DEF History!BuildMessages, Built

Selection == [messages : Seq(Said), size : Nat, truncated : BOOLEAN]

Drops(turn, kept) == kept.truncated \/ History!TooLong(kept, turn)

LEMMA KeepType ==
    ASSUME NEW turn \in Said, NEW kept \in Selection
    PROVE  /\ History!Keep(turn, kept) \in Selection
           /\ Drops(turn, kept) =>
                 /\ History!Keep(turn, kept).messages = kept.messages
                 /\ History!Keep(turn, kept).size = kept.size
                 /\ History!Keep(turn, kept).truncated
           /\ ~ Drops(turn, kept) =>
                 /\ History!Keep(turn, kept).messages = <<turn>> \o kept.messages
                 /\ History!Keep(turn, kept).size = kept.size + turn.units
                 /\ ~ History!Keep(turn, kept).truncated
<1>1. turn.units \in Nat
  BY SaidType
<1>2. kept.messages \in Seq(Said) /\ kept.size \in Nat /\ kept.truncated \in BOOLEAN
  BY DEF Selection
<1>3. <<turn>> \o kept.messages \in Seq(Said) /\ kept.size + turn.units \in Nat
  BY <1>1, <1>2
<1>4. CASE Drops(turn, kept)
  <2>1. History!Keep(turn, kept) = [kept EXCEPT !.truncated = TRUE]
    BY <1>4 DEF History!Keep, Drops
  <2>2. [kept EXCEPT !.truncated = TRUE] \in Selection
    BY DEF Selection
  <2>3. /\ [kept EXCEPT !.truncated = TRUE].messages = kept.messages
        /\ [kept EXCEPT !.truncated = TRUE].size = kept.size
        /\ [kept EXCEPT !.truncated = TRUE].truncated
    BY DEF Selection
  <2> QED
    BY <1>4, <2>1, <2>2, <2>3
<1>5. CASE ~ Drops(turn, kept)
  <2> DEFINE more == <<turn>> \o kept.messages
             size == kept.size + turn.units
             next == [kept EXCEPT !.messages = more, !.size = size]
  <2>1. History!Keep(turn, kept) = next
    BY <1>5 DEF History!Keep, Drops
  <2>2. more \in Seq(Said) /\ size \in Nat
    BY <1>3
  <2>4. ~ kept.truncated
    BY <1>5 DEF Drops
  <2> HIDE DEF more, size
  <2>3. /\ next \in Selection /\ next.messages = more /\ next.size = size
        /\ next.truncated = kept.truncated
    BY <2>2 DEF Selection
  <2> HIDE DEF next
  <2> QED
    BY <1>5, <2>1, <2>3, <2>4 DEF more, size
<1> QED
  BY <1>4, <1>5

LEMMA BuiltSteps ==
    ASSUME NEW turns \in Seq(Said)
    PROVE  /\ Built(turns)[0] = History!NothingKept
           /\ \A i \in 0..Len(turns) : Built(turns)[i] \in Selection
           /\ \A i \in 1..Len(turns) :
                  Built(turns)[i] = History!Keep(turns[Len(turns) - i + 1], Built(turns)[i - 1])
<1> DEFINE n == Len(turns)
           V == Selection
           base == History!NothingKept
           step == [p \in (1..n) \X V |-> History!Keep(turns[n - p[1] + 1], p[2])]
           Is(kept) == kept = [i \in 0..n |-> IF i = 0 THEN History!NothingKept
                                             ELSE History!Keep(turns[n - i + 1], kept[i - 1])]
<1>1. n \in Nat /\ \A i \in 1..n : turns[n - i + 1] \in Said
  OBVIOUS
<1>2. \A i \in 1..n, kept \in Selection : History!Keep(turns[n - i + 1], kept) \in Selection
  BY <1>1, KeepType
<1>3. step \in [(1..n) \X V -> V]
  BY <1>2
<1>4. \A i \in 1..n, kept \in Selection : step[<<i, kept>>] = History!Keep(turns[n - i + 1], kept)
  OBVIOUS
<1>5. base \in V
  <2>1. <<>> \in Seq(Said) /\ 0 \in Nat /\ FALSE \in BOOLEAN
    BY NoElements
  <2> QED
    BY <2>1 DEF History!NothingKept, Selection
<1> HIDE DEF step, n, V, base
<1>6. HasRun(n, V, base, step)
  <2>1. IsLoop(n, V, base, step)
    BY <1>1, <1>3, <1>5 DEF IsLoop
  <2> QED
    BY <2>1, LoopExists
<1>7. PICK f \in [0..n -> V] :
          f[0] = base /\ \A i \in 1..n : f[i] = step[<<i, f[i - 1]>>]
  BY <1>6 DEF HasRun
<1>8. \A i \in 0..n : f[i] = IF i = 0 THEN History!NothingKept
                             ELSE History!Keep(turns[n - i + 1], f[i - 1])
  <2> SUFFICES ASSUME NEW i \in 0..n
               PROVE  f[i] = IF i = 0 THEN History!NothingKept
                             ELSE History!Keep(turns[n - i + 1], f[i - 1])
    OBVIOUS
  <2>1. CASE i = 0
    BY <1>7, <2>1 DEF base
  <2>2. CASE i # 0
    <3>1. i \in 1..n /\ i - 1 \in 0..n
      BY <1>1, <2>2
    <3>2. f[i] = step[<<i, f[i - 1]>>] /\ f[i - 1] \in Selection
      BY <1>7, <3>1 DEF V
    <3> QED
      BY <1>4, <2>2, <3>1, <3>2
  <2> QED
    BY <2>1, <2>2
<1>9. Is(f)
  BY <1>7, <1>8
<1>10. Is(Built(turns))
  BY <1>9 DEF Built, n
<1>11. \A i \in 0..n : Built(turns)[i] = IF i = 0 THEN History!NothingKept
                                         ELSE History!Keep(turns[n - i + 1], Built(turns)[i - 1])
  BY <1>10
<1>12. Built(turns)[0] = History!NothingKept
  BY <1>1, <1>11
<1>13. \A i \in 1..n : /\ i - 1 \in 0..n
                      /\ Built(turns)[i] = History!Keep(turns[n - i + 1], Built(turns)[i - 1])
  <2>1. \A i \in 1..n : i \in 0..n /\ i # 0 /\ i - 1 \in 0..n
    BY <1>1
  <2> QED
    BY <1>11, <2>1
<1> DEFINE T == {i \in 0..n : Built(turns)[i] \in Selection}
<1>14. 0 \in T
  BY <1>1, <1>5, <1>12 DEF base, V
<1>15. \A i \in 0..n : i \in T /\ i < n => i + 1 \in T
  <2> SUFFICES ASSUME NEW i \in 0..n, i \in T, i < n PROVE i + 1 \in T
    OBVIOUS
  <2>1. i + 1 \in 1..n /\ i + 1 \in 0..n /\ (i + 1) - 1 = i
    BY <1>1
  <2>2. Built(turns)[i + 1] = History!Keep(turns[n - (i + 1) + 1], Built(turns)[i])
    BY <1>13, <2>1
  <2>3. Built(turns)[i + 1] \in Selection
    BY <1>2, <2>1, <2>2
  <2> QED
    BY <2>1, <2>3
<1> HIDE DEF T
<1>16. 0..n \subseteq T
  BY <1>1, <1>14, <1>15, InductionTo
<1> QED
  BY <1>12, <1>13, <1>16 DEF T, n

\* After the i newest turns: an end of the conversation, and when turns were left
\* out, one that the turn before it would take over the budget.
Selected(turns, kept, i) ==
    \E f \in 1..(Len(turns) + 1) :
        /\ kept.messages = History!EndFrom(turns, f)
        /\ kept.size = History!Units(History!EndFrom(turns, f))
        /\ f >= Len(turns) \/ kept.size <= Budget
        /\ kept.truncated =>
              f \in 2..Len(turns) /\ History!Units(History!EndFrom(turns, f - 1)) > Budget
        /\ ~ kept.truncated => f = Len(turns) - i + 1

LEMMA SelectedNothing ==
    ASSUME NEW turns \in Seq(Said)
    PROVE  Selected(turns, History!NothingKept, 0)
<1> DEFINE n == Len(turns)
<1>1. n \in Nat /\ n + 1 \in 1..(n + 1) /\ n - (n + 1) + 1 = 0 /\ n - 0 + 1 = n + 1
  OBVIOUS
<1>2. /\ History!EndFrom(turns, n + 1) \in Seq(Said)
      /\ Len(History!EndFrom(turns, n + 1)) = 0
  BY <1>1, EndIsSaid
<1>3. History!EndFrom(turns, n + 1) = <<>>
  BY <1>2
<1>4. History!Units(History!EndFrom(turns, n + 1)) = 0
  BY <1>2, UnitsType
<1>5. /\ History!NothingKept.messages = <<>> /\ History!NothingKept.size = 0
      /\ History!NothingKept.truncated = FALSE
  BY DEF History!NothingKept
<1> QED
  BY <1>1, <1>3, <1>4, <1>5 DEF Selected

LEMMA SelectedStep ==
    ASSUME NEW turns \in Seq(Said), NEW i \in 0..Len(turns), i < Len(turns),
           NEW kept \in Selection, Selected(turns, kept, i)
    PROVE  Selected(turns, History!Keep(turns[Len(turns) - i], kept), i + 1)
<1> DEFINE n == Len(turns)
           turn == turns[n - i]
           next == History!Keep(turn, kept)
           U(m) == History!Units(History!EndFrom(turns, m))
<1>1. n \in Nat /\ n - i \in 1..n /\ turn \in Said
  OBVIOUS
<1>2. PICK f \in 1..(n + 1) :
          /\ kept.messages = History!EndFrom(turns, f) /\ kept.size = U(f)
          /\ f >= n \/ kept.size <= Budget
          /\ kept.truncated => f \in 2..n /\ U(f - 1) > Budget
          /\ ~ kept.truncated => f = n - i + 1
  BY DEF Selected
<1>3. /\ Drops(turn, kept) => next.messages = kept.messages /\ next.size = kept.size /\ next.truncated
      /\ ~ Drops(turn, kept) => /\ next.messages = <<turn>> \o kept.messages
                                /\ next.size = kept.size + turn.units /\ ~ next.truncated
  BY <1>1, KeepType
<1>4. kept.messages = <<>> <=> f = n + 1
  <2>1. /\ kept.messages \in Seq(Said) /\ Len(kept.messages) = n - f + 1
    BY <1>2, EndIsSaid
  <2>2. kept.messages = <<>> <=> Len(kept.messages) = 0
    BY <2>1
  <2> QED
    BY <1>1, <2>1, <2>2
<1>5. /\ History!EndFrom(turns, n - i) = <<turn>> \o History!EndFrom(turns, n - i + 1)
      /\ U(n - i) = turn.units + U(n - i + 1)
      /\ turn.units \in Nat /\ U(n - i + 1) \in Nat /\ Budget \in Nat
  <2>1. n - i + 1 \in 1..(n + 1)
    BY <1>1
  <2> QED
    BY <1>1, <2>1, EndStep, EndIsSaid, SaidType, HistoryConstants
<1> HIDE DEF U, next, turn
<1>6. CASE kept.truncated
  <2>1. Drops(turn, kept)
    BY <1>6 DEF Drops
  <2> QED
    BY <1>2, <1>3, <1>6, <2>1 DEF Selected, U, next, turn
<1>7. CASE ~ kept.truncated /\ Drops(turn, kept)
  <2>1. kept.size + turn.units > Budget /\ kept.messages # <<>>
    BY <1>7 DEF Drops, History!TooLong
  <2>2. f = n - i + 1 /\ f \in 2..n /\ f - 1 = n - i
    BY <1>1, <1>2, <1>4, <1>7, <2>1
  <2>3. U(f - 1) > Budget
    BY <1>2, <1>5, <2>1, <2>2
  <2> QED
    BY <1>2, <1>3, <1>7, <2>2, <2>3 DEF Selected, U, next, turn
<1>8. CASE ~ Drops(turn, kept)
  <2>1. ~ kept.truncated /\ (kept.size + turn.units <= Budget \/ kept.messages = <<>>)
    <3>1. ~ kept.truncated /\ ~ (kept.size + turn.units > Budget /\ kept.messages # <<>>)
      BY <1>8 DEF Drops, History!TooLong
    <3>2. kept.size \in Nat
      BY DEF Selection
    <3> QED
      BY <1>5, <3>1, <3>2
  <2>2. f = n - i + 1
    BY <1>2, <2>1
  <2>3. next.messages = History!EndFrom(turns, n - i) /\ next.size = U(n - i) /\ ~ next.truncated
    <3>1. kept.size + turn.units = U(n - i)
      BY <1>2, <1>5, <2>2
    <3> QED
      BY <1>2, <1>3, <1>5, <1>8, <2>2, <3>1
  <2>4. n - i >= n \/ next.size <= Budget
    BY <1>1, <1>2, <1>3, <1>4, <1>8, <2>1, <2>2
  <2>5. n - i \in 1..(n + 1) /\ n - i = n - (i + 1) + 1
    BY <1>1
  <2> QED
    BY <2>3, <2>4, <2>5 DEF Selected, U, next, turn
<1> QED
  BY <1>6, <1>7, <1>8

LEMMA BuiltSelects ==
    ASSUME NEW turns \in Seq(Said)
    PROVE  /\ History!BuildMessages(turns) \in Selection
           /\ Selected(turns, History!BuildMessages(turns), Len(turns))
<1> DEFINE n == Len(turns)
           T == {i \in 0..n : Selected(turns, Built(turns)[i], i)}
<1>1. n \in Nat /\ 0 \in 0..n /\ n \in 0..n
  OBVIOUS
<1>2. 0 \in T
  BY <1>1, SelectedNothing, BuiltSteps
<1>3. \A i \in 0..n : i \in T /\ i < n => i + 1 \in T
  <2> SUFFICES ASSUME NEW i \in 0..n, i \in T, i < n PROVE i + 1 \in T
    OBVIOUS
  <2>1. i + 1 \in 1..n /\ i + 1 \in 0..n /\ (i + 1) - 1 = i /\ n - (i + 1) + 1 = n - i
    BY <1>1
  <2>2. Built(turns)[i + 1] = History!Keep(turns[n - i], Built(turns)[i])
    BY <2>1, BuiltSteps
  <2>3. Built(turns)[i] \in Selection /\ Selected(turns, Built(turns)[i], i)
    BY BuiltSteps
  <2>4. Selected(turns, Built(turns)[i + 1], i + 1)
    BY <2>2, <2>3, SelectedStep
  <2> QED
    BY <2>1, <2>4
<1> HIDE DEF T
<1>4. n \in T
  <2>1. 0..n \subseteq T
    BY <1>1, <1>2, <1>3, InductionTo
  <2> QED
    BY <1>1, <2>1
<1>5. Built(turns)[n] \in Selection
  BY <1>1, BuiltSteps
<1> QED
  BY <1>4, <1>5, BuiltIs DEF T

\* What is kept of a whole conversation is its longest end that fits.
Fits(turns) ==
    {i \in 1..Len(turns) : i = Len(turns) \/ History!Units(History!EndFrom(turns, i)) <= Budget}
First(turns) == CHOOSE i \in Fits(turns) : \A j \in Fits(turns) : i <= j

LEMMA SelectsLongest ==
    ASSUME NEW turns \in Seq(Said), turns # <<>>,
           NEW kept \in Selection, Selected(turns, kept, Len(turns))
    PROVE  /\ First(turns) \in 1..Len(turns)
           /\ kept.messages = History!EndFrom(turns, First(turns))
           /\ First(turns) = Len(turns) \/ History!Units(kept.messages) <= Budget
           /\ kept.truncated = (First(turns) > 1)
<1> DEFINE n == Len(turns)
           U(m) == History!Units(History!EndFrom(turns, m))
<1>1. n \in Nat /\ n >= 1
  OBVIOUS
<1>2. PICK f \in 1..(n + 1) :
          /\ kept.messages = History!EndFrom(turns, f) /\ kept.size = U(f)
          /\ f >= n \/ kept.size <= Budget
          /\ kept.truncated => f \in 2..n /\ U(f - 1) > Budget
          /\ ~ kept.truncated => f = n - n + 1
  BY DEF Selected
<1>3. f \in 1..n /\ kept.truncated = (f > 1)
  <2>1. kept.truncated \in BOOLEAN
    BY DEF Selection
  <2>2. CASE kept.truncated
    <3>1. f \in 1..n /\ f > 1
      BY <1>1, <1>2, <2>2
    <3>2. kept.truncated = TRUE /\ (f > 1) = TRUE
      BY <2>1, <2>2, <3>1
    <3> QED
      BY <3>1, <3>2
  <2>3. CASE ~ kept.truncated
    <3>1. f \in 1..n /\ ~ (f > 1)
      BY <1>1, <1>2, <2>3
    <3>2. kept.truncated = FALSE /\ (f > 1) = FALSE
      BY <2>1, <2>3, <3>1
    <3> QED
      BY <3>1, <3>2
  <2> QED
    BY <2>2, <2>3
<1>4. f \in Fits(turns)
  BY <1>1, <1>2, <1>3 DEF Fits
<1>5. ASSUME NEW j \in Fits(turns) PROVE f <= j
  <2> SUFFICES ASSUME j < f PROVE FALSE
    BY <1>1, <1>3 DEF Fits
  <2>1. j \in 1..n /\ (j = n \/ U(j) <= Budget)
    BY DEF Fits
  <2>2. j # n /\ f > 1 /\ j \in 1..(f - 1) /\ f - 1 \in 1..n /\ f - 1 \in j..n
    BY <1>1, <1>3, <2>1
  <2>3. U(f - 1) > Budget
    BY <1>2, <1>3, <2>2
  <2>4. U(f - 1) <= U(j)
    BY <2>1, <2>2, LaterIsShorter
  <2>5. U(j) \in Nat /\ U(f - 1) \in Nat /\ Budget \in Nat
    <3>1. j \in 1..(n + 1) /\ f - 1 \in 1..(n + 1)
      BY <1>1, <2>1, <2>2
    <3> QED
      BY <3>1, EndIsSaid, HistoryConstants
  <2> HIDE DEF U
  <2> QED
    BY <2>1, <2>2, <2>3, <2>4, <2>5
<1>6. First(turns) = f
  <2>1. /\ First(turns) \in Fits(turns) /\ \A j \in Fits(turns) : First(turns) <= j
    BY <1>4, <1>5 DEF First
  <2>2. First(turns) <= f /\ f <= First(turns) /\ First(turns) \in 1..n
    BY <1>4, <1>5, <2>1 DEF Fits
  <2> QED
    BY <1>1, <1>3, <2>2
<1>7. f = n \/ U(f) <= Budget
  BY <1>1, <1>2, <1>3
<1> QED
  BY <1>2, <1>3, <1>6, <1>7

-----------------------------------------------------------------------------
(* The history *)

Alternate(turns) ==
    /\ Len(turns) % 2 = 0
    /\ \A i \in 1..Len(turns) : turns[i].role = IF i % 2 = 1 THEN "user" ELSE "assistant"

HistoryInv ==
    /\ history \in Seq(Said) /\ snapshot \in Seq(Said) /\ asking \in Seq(Said)
    /\ truncated \in BOOLEAN /\ restarts \in 0..MaxCrashes
    /\ Alternate(history) /\ Alternate(snapshot)
    /\ asking # <<>> =>
          /\ History!Last(asking) \in Prompts
          /\ Len(asking) = 1 \/ History!Units(asking) <= Budget
    /\ History!LongestEndThatFits

LEMMA InitHistory == History!Init => HistoryInv
<1> SUFFICES ASSUME History!Init PROVE HistoryInv
  OBVIOUS
<1>1. <<>> \in Seq(Said) /\ Alternate(<<>>) /\ 0 \in 0..MaxCrashes
  BY HistoryConstants, NoElements DEF Alternate
<1> QED
  BY <1>1 DEF History!Init, HistoryInv, History!LongestEndThatFits

LEMMA StepAsk ==
    ASSUME HistoryInv, NEW prompt \in Prompts, History!Ask(prompt)
    PROVE  HistoryInv'
<1> DEFINE turns == Append(history, prompt)
           built == History!BuildMessages(turns)
<1>1. /\ asking' = built.messages /\ truncated' = built.truncated
      /\ UNCHANGED <<history, snapshot, restarts>>
  BY DEF History!Ask
<1>2. /\ history \in Seq(Said) /\ prompt \in Said /\ turns \in Seq(Said)
      /\ Len(history) \in Nat /\ Len(turns) = Len(history) + 1 /\ turns[Len(turns)] = prompt
      /\ turns # <<>>
  BY DEF HistoryInv, Said
<1>3. built \in Selection /\ Selected(turns, built, Len(turns))
  BY <1>2, BuiltSelects
<1> HIDE DEF built, turns
<1>4. /\ First(turns) \in 1..Len(turns)
      /\ asking' = History!EndFrom(turns, First(turns))
      /\ First(turns) = Len(turns) \/ History!Units(asking') <= Budget
      /\ truncated' = (First(turns) > 1)
  BY <1>1, <1>2, <1>3, SelectsLongest
<1>5. /\ asking' \in Seq(Said) /\ Len(asking') = Len(turns) - First(turns) + 1
      /\ asking'[Len(asking')] = prompt
  <2>1. First(turns) \in 1..(Len(turns) + 1)
    BY <1>2, <1>4
  <2>2. /\ asking' \in Seq(Said) /\ Len(asking') = Len(turns) - First(turns) + 1
        /\ \A m \in 1..(Len(turns) - First(turns) + 1) : asking'[m] = turns[m + First(turns) - 1]
    BY <1>2, <1>4, <2>1, EndType DEF History!EndFrom
  <2>3. Len(asking') \in 1..(Len(turns) - First(turns) + 1) /\ Len(asking') + First(turns) - 1 = Len(turns)
    BY <1>2, <1>4, <2>2
  <2> QED
    BY <1>2, <2>2, <2>3
<1>6. History!Last(asking)' = prompt
  BY <1>5 DEF History!Last
<1>7. Len(asking') = 1 \/ History!Units(asking)' <= Budget
  BY <1>2, <1>4, <1>5
<1>8. History!LongestEndThatFits'
  <2>1. Append(history', History!Last(asking)') = turns
    BY <1>1, <1>6 DEF turns
  <2> QED
    BY <1>4, <2>1 DEF History!LongestEndThatFits, First, Fits
<1>9. truncated' \in BOOLEAN
  BY <1>1, <1>3 DEF Selection
<1> QED
  BY <1>1, <1>5, <1>6, <1>7, <1>8, <1>9 DEF HistoryInv

LEMMA LastType ==
    ASSUME HistoryInv, asking # <<>>
    PROVE  History!Last(asking) \in Said /\ History!Last(asking) \in Prompts
BY DEF HistoryInv, Said

\* A prompt and a reply are one exchange more.
LEMMA ExchangeAdded ==
    ASSUME NEW turns \in Seq(Said), Alternate(turns), NEW prompt \in Prompts, NEW reply \in Replies
    PROVE  turns \o <<prompt, reply>> \in Seq(Said) /\ Alternate(turns \o <<prompt, reply>>)
<1> DEFINE n == Len(turns)
           more == turns \o <<prompt, reply>>
<1>1. prompt \in Said /\ reply \in Said /\ prompt.role = "user" /\ reply.role = "assistant"
  BY SaidType DEF Said, History!Turn
<1>2. n \in Nat /\ n % 2 = 0 /\ (n + 1) % 2 = 1 /\ (n + 2) % 2 = 0
  BY DEF Alternate
<1>3. /\ more \in Seq(Said) /\ Len(more) = n + 2
      /\ more[n + 1] = prompt /\ more[n + 2] = reply
      /\ \A i \in 1..n : more[i] = turns[i]
  BY <1>1
<1> HIDE DEF more
<1>4. ASSUME NEW i \in 1..(n + 2)
      PROVE  more[i].role = IF i % 2 = 1 THEN "user" ELSE "assistant"
  <2>1. CASE i = n + 1
    BY <1>1, <1>2, <1>3, <2>1
  <2>2. CASE i = n + 2
    BY <1>1, <1>2, <1>3, <2>2
  <2>3. CASE i \in 1..n
    BY <1>3, <2>3 DEF Alternate
  <2> QED
    BY <1>2, <2>1, <2>2, <2>3
<1>5. Alternate(more)
  BY <1>2, <1>3, <1>4 DEF Alternate
<1> QED
  BY <1>3, <1>5 DEF more

LEMMA StepRemember ==
    ASSUME HistoryInv, NEW reply \in Replies, History!Remember(reply)
    PROVE  HistoryInv'
<1>1. /\ asking # <<>> /\ snapshot' = history /\ asking' = <<>>
      /\ history' = history \o <<History!Last(asking), reply>>
      /\ UNCHANGED <<truncated, restarts>>
  BY DEF History!Remember, History!Pair
<1>2. history' \in Seq(Said) /\ Alternate(history')
  BY <1>1, LastType, ExchangeAdded DEF HistoryInv
<1>3. asking' \in Seq(Said)
  BY <1>1, NoElements
<1>4. History!LongestEndThatFits'
  BY <1>1 DEF History!LongestEndThatFits
<1> QED
  BY <1>1, <1>2, <1>3, <1>4 DEF HistoryInv

LEMMA StepQuiet ==
    ASSUME HistoryInv, History!Forget \/ History!Persist \/ History!CrashRestart
    PROVE  HistoryInv'
<1>1. <<>> \in Seq(Said)
  BY NoElements
<1>2. CASE History!Forget
  BY <1>1, <1>2 DEF History!Forget, HistoryInv, History!LongestEndThatFits
<1>3. CASE History!Persist
  BY <1>3 DEF History!Persist, HistoryInv, History!LongestEndThatFits
<1>4. CASE History!CrashRestart
  <2>1. restarts' \in 0..MaxCrashes
    BY <1>4, HistoryConstants DEF History!CrashRestart, HistoryInv
  <2>2. history' = snapshot /\ asking' = <<>> /\ UNCHANGED <<snapshot, truncated>>
    BY <1>4 DEF History!CrashRestart, History!Restored
  <2> QED
    BY <1>1, <2>1, <2>2 DEF HistoryInv, History!LongestEndThatFits
<1> QED
  BY <1>2, <1>3, <1>4

LEMMA StepHistory == HistoryInv /\ History!Next => HistoryInv'
<1> SUFFICES ASSUME HistoryInv, History!Next PROVE HistoryInv'
  OBVIOUS
<1>1. CASE \E p \in Prompts : History!Ask(p)
  BY <1>1, StepAsk
<1>2. CASE \E r \in Replies : History!Remember(r)
  BY <1>2, StepRemember
<1>3. CASE History!Forget \/ History!Persist \/ History!CrashRestart
  BY <1>3, StepQuiet
<1> QED
  BY <1>1, <1>2, <1>3 DEF History!Next

LEMMA HistoryType == HistoryInv => History!TypeOK
<1> SUFFICES ASSUME HistoryInv PROVE History!TypeOK
  OBVIOUS
<1>1. history \in Seq(Said) /\ snapshot \in Seq(Said) /\ asking \in Seq(Said)
  BY DEF HistoryInv
<1>2. history \in Seq(History!Turns) /\ snapshot \in Seq(History!Turns) /\ asking \in Seq(History!Turns)
  BY <1>1, SaidType, WiderSeq
<1> QED
  BY <1>2 DEF HistoryInv, History!TypeOK

\* A comma a turn: as many turns as fit the budget fit beside it.
LEMMA CommasFit ==
    ASSUME NEW turns \in Seq(Said), History!Units(turns) <= Budget
    PROVE  Overhead + History!Units(turns) + Len(turns) <= MaxSent
<1> DEFINE n == Len(turns)
           u == History!Units(turns)
           room == MaxSent - Overhead - Budget
<1>1. n \in Nat /\ u \in Nat /\ u <= Budget /\ n * Shortest <= u
  BY UnitsType
<1>2. /\ Budget \in Nat /\ MaxSent \in Nat /\ Overhead \in Nat /\ Shortest \in Nat \ {0}
      /\ room \in Nat /\ Budget <= Shortest * room
  BY HistoryConstants
<1> HIDE DEF n, u, room
<1>3. n <= room
  <2> SUFFICES ASSUME n >= room + 1 PROVE FALSE
    BY <1>1, <1>2
  <2>1. n * Shortest >= (room + 1) * Shortest
    BY <1>1, <1>2
  <2>2. (room + 1) * Shortest = Shortest * room + Shortest
    BY <1>2
  <2>3. /\ n * Shortest \in Nat /\ (room + 1) * Shortest \in Nat /\ Shortest * room \in Nat
    BY <1>1, <1>2
  <2> QED
    BY <1>1, <1>2, <2>1, <2>2, <2>3
<1> QED
  BY <1>1, <1>2, <1>3 DEF n, u, room

LEMMA HistoryAscii == HistoryInv => AsciiFits
<1> SUFFICES ASSUME HistoryInv,
                    \A i \in 1..Len(asking) : asking[i].bytes = asking[i].units,
                    asking # <<>> => History!Last(asking).units <= Budget
             PROVE  Overhead + History!Bytes(asking) + Len(asking) <= MaxSent
  BY DEF AsciiFits, History!AsciiFits, History!Sent
<1>1. asking \in Seq(Said) /\ Len(asking) \in Nat
  BY DEF HistoryInv
<1>2. History!Bytes(asking) = History!Units(asking)
  <2>1. [i \in 1..Len(asking) |-> asking[i].bytes] = [i \in 1..Len(asking) |-> asking[i].units]
    OBVIOUS
  <2> QED
    BY <2>1 DEF History!Bytes, History!Units
<1>3. History!Units(asking) <= Budget
  <2>1. CASE asking = <<>>
    <3>1. Len(asking) = 0
      BY <2>1
    <3> QED
      <4>1. History!Units(asking) = 0 /\ Budget \in Nat
        BY <1>1, <3>1, UnitsType, HistoryConstants
      <4> QED
        BY <4>1
  <2>2. CASE asking # <<>> /\ Len(asking) = 1
    <3>1. 1 \in 1..Len(asking) /\ History!Last(asking) = asking[1]
      BY <2>2 DEF History!Last
    <3>2. /\ History!EndFrom(asking, 1) = asking
          /\ Len(History!EndFrom(asking, 2)) = 0 /\ History!EndFrom(asking, 2) \in Seq(Said)
      BY <1>1, <2>2 DEF History!EndFrom
    <3>3. History!Units(asking) = asking[1].units + History!Units(History!EndFrom(asking, 1 + 1)) /\ asking[1] \in Said
      BY <1>1, <3>1, <3>2, EndStep
    <3>4. History!Units(History!EndFrom(asking, 2)) = 0
      BY <3>2, UnitsType
    <3>5. asking[1].units \in Nat /\ asking[1].units <= Budget
      BY <2>2, <3>1, <3>3, SaidType
    <3> QED
      BY <3>3, <3>4, <3>5
  <2>3. CASE asking # <<>> /\ History!Units(asking) <= Budget
    BY <2>3
  <2> QED
    BY <2>1, <2>2, <2>3 DEF HistoryInv
<1> QED
  BY <1>1, <1>2, <1>3, CommasFit

-----------------------------------------------------------------------------
(* The chat *)

chatVars == <<part, vars, limiterVars, historyVars>>

ChatInv == PipeInv /\ LimiterInv /\ HistoryInv

LEMMA InitChat == ChatInit => ChatInv
BY InitPipe, InitLimiter, InitHistory DEF ChatInit, ChatInv

\* A step of one part leaves the variables of the others alone.
LEMMA LimiterStays == LimiterInv /\ UNCHANGED limiterVars => LimiterInv'
BY DEF limiterVars, LimiterInv, Limiter!TypeOK, Limiter!SeenKeys, Remembered,
       Limiter!Recent

LEMMA HistoryStays == HistoryInv /\ UNCHANGED historyVars => HistoryInv'
BY DEF historyVars, HistoryInv, History!LongestEndThatFits

LEMMA StepChat == ChatInv /\ [ChatNext]_chatVars => ChatInv'
<1> SUFFICES ASSUME ChatInv, [ChatNext]_chatVars PROVE ChatInv'
  OBVIOUS
<1> USE DEF ChatInv
<1>1. PipeInv'
  <2>1. Next \/ UNCHANGED vars
    BY DEF ChatNext, chatVars
  <2> QED
    BY <2>1, StepPipe
<1>2. LimiterInv'
  <2>1. Limiter!Next \/ UNCHANGED limiterVars
    BY DEF ChatNext, chatVars
  <2> QED
    BY <2>1, StepLimiter, LimiterStays
<1>3. HistoryInv'
  <2>1. History!Next \/ UNCHANGED historyVars
    BY DEF ChatNext, chatVars
  <2> QED
    BY <2>1, StepHistory, HistoryStays
<1> QED
  BY <1>1, <1>2, <1>3

LEMMA Chatting == ChatSpec => []ChatInv
BY InitChat, StepChat, PTL DEF ChatSpec, chatVars

\* Every variable of the pipeline, the limiter and the history keeps its type, and
\* the Map of the limiter its size (server.js:193-345).
THEOREM ChatTyping == ChatSpec => []ChatTypeOK
<1>1. ChatInv => ChatTypeOK
  BY HistoryType DEF ChatInv, LimiterInv, PipeInv, ChatTypeOK
<1> QED
  BY <1>1, Chatting, PTL

\* A client that was not evicted gets no more than its limit in any window, and is
\* refused only when it had all of it in the window before (server.js:312-321).
THEOREM LimitExact == ChatSpec => []LimitIsExact
<1>1. ChatInv => LimitIsExact
  BY LimiterIsExact DEF ChatInv
<1> QED
  BY <1>1, Chatting, PTL

\* What is sent to the model is the longest end of the conversation that fits the
\* budget, or the prompt alone (server.js:195-206).
THEOREM LongestEnd == ChatSpec => []LongestEndThatFits
<1>1. ChatInv => LongestEndThatFits
  BY DEF ChatInv, HistoryInv, LongestEndThatFits
<1> QED
  BY <1>1, Chatting, PTL

\* A conversation is made of whole exchanges, over failures and crashes
\* (server.js:519-524).
THEOREM Exchanges == ChatSpec => []WholeExchanges
<1>1. ChatInv => WholeExchanges
  BY DEF ChatInv, HistoryInv, Alternate, WholeExchanges, History!WholeExchanges
<1> QED
  BY <1>1, Chatting, PTL

\* A request in ASCII whose prompt is within the budget fits MAX_SENT_DATA
\* (server.js:193-195).
THEOREM AsciiRequestFits == ChatSpec => []AsciiFits
<1>1. ChatInv => AsciiFits
  BY HistoryAscii DEF ChatInv
<1> QED
  BY <1>1, Chatting, PTL
=============================================================================
