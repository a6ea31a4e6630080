---------------------------- MODULE SequenceFacts ----------------------------
(***************************************************************************)
(* Facts about sequences that the proofs of several components need.       *)
(***************************************************************************)
EXTENDS Integers, SequencesExt, FiniteSetTheorems, SequenceTheorems, TLAPS

\* Induction: a set of numbers has a least.
LEMMA LeastNat == ASSUME NEW T \in SUBSET Nat, T # {} PROVE \E m \in T : \A k \in T : m <= k
<1>1. IsWellFoundedOn(OpToRel(<, Nat), Nat)
  BY NatLessThanWellFounded
<1>2. PICK m \in T : \A k \in T : ~(<<k, m>> \in OpToRel(<, Nat))
  BY <1>1, WFMin
<1>3. \A k \in T : ~(k < m)
  BY <1>2 DEF OpToRel
<1> QED
  BY <1>3

-----------------------------------------------------------------------------
(* Permutations.                                                           *)

\* What is a permutation of a sequence has its elements, each as often.
Permutes(p, n, r, s) ==
    /\ n \in Nat /\ DOMAIN r = 1 .. n /\ DOMAIN s = 1 .. n
    /\ p \in [1 .. n -> 1 .. n] /\ \A i, j \in 1 .. n : i # j => p[i] # p[j]
    /\ \A i \in 1 .. n : s[i] = r[p[i]]

\* A set of numbers up to n has a greatest.
LEMMA MaxIs ==
    ASSUME NEW n \in Nat, NEW T \in SUBSET (0 .. n), T # {}
    PROVE  Max(T) \in T /\ \A k \in T : k <= Max(T)
<1> DEFINE U == {n - k : k \in T}
<1>1. U \in SUBSET Nat /\ U # {}
  <2>1. \A k \in T : k \in Nat /\ k <= n /\ n - k \in Nat
    OBVIOUS
  <2>2. PICK k \in T : TRUE
    OBVIOUS
  <2>3. n - k \in U
    OBVIOUS
  <2> QED
    BY <2>1, <2>3
<1>2. PICK u \in U : \A v \in U : u <= v
  <2> HIDE DEF U
  <2> QED
    BY <1>1, LeastNat
<1>3. PICK m \in T : u = n - m
  BY <1>2
<1>4. \A k \in T : m >= k
  <2> TAKE k \in T
  <2>1. n - m <= n - k
    BY <1>2, <1>3
  <2> QED
    BY <2>1
<1>5. Max(T) \in T /\ \A k \in T : Max(T) >= k
  BY <1>4 DEF Max
<1> QED
  BY <1>5

LEMMA SameBag == ASSUME NEW p, NEW n, NEW r, NEW s, Permutes(p, n, r, s) PROVE ToBag(s) = ToBag(r)
<1> USE DEF Permutes
<1> DEFINE places(q, x) == {i \in DOMAIN q : q[i] = x}
<1>1. IsFiniteSet(1 .. n)
  BY FS_Interval
<1>2. p \in Injection(1 .. n, 1 .. n)
  BY DEF Injection, IsInjective
<1>3. p \in Surjection(1 .. n, 1 .. n)
  BY <1>1, <1>2, FS_Injection
<1>4. \A j \in 1 .. n : \E i \in 1 .. n : p[i] = j
  BY <1>3 DEF Surjection
<1>5. ASSUME NEW x PROVE Cardinality(places(s, x)) = Cardinality(places(r, x))
  <2>1. [i \in places(s, x) |-> p[i]] \in Injection(places(s, x), places(r, x))
    BY DEF Injection, IsInjective
  <2>2. [i \in places(s, x) |-> p[i]] \in Surjection(places(s, x), places(r, x))
    <3> DEFINE image == [i \in places(s, x) |-> p[i]]
    <3>1. image \in [places(s, x) -> places(r, x)]
      OBVIOUS
    <3>2. ASSUME NEW j \in places(r, x) PROVE \E i \in places(s, x) : image[i] = j
      <4>1. PICK i \in 1 .. n : p[i] = j
        BY <1>4
      <4>2. i \in places(s, x)
        BY <4>1
      <4> QED
        BY <4>1, <4>2
    <3> QED
      BY <3>1, <3>2 DEF Surjection
  <2>3. ExistsBijection(places(s, x), places(r, x))
    BY <2>1, <2>2 DEF ExistsBijection, Bijection
  <2>4. IsFiniteSet(places(s, x))
    BY <1>1, FS_Subset
  <2> QED
    BY <2>3, <2>4, FS_Bijection
<1>6. Range(s) = Range(r)
  <2>1. \A i \in 1 .. n : s[i] \in Range(r)
    BY DEF Range
  <2>2. \A j \in 1 .. n : r[j] \in Range(s)
    <3> TAKE j \in 1 .. n
    <3>1. PICK i \in 1 .. n : p[i] = j
      BY <1>4
    <3>2. s[i] = r[j]
      BY <3>1
    <3> QED
      BY <3>2 DEF Range
  <2> QED
    BY <2>1, <2>2 DEF Range
<1> HIDE DEF Permutes
<1>7. /\ ToBag(s) = [x \in Range(s) |-> Cardinality(places(s, x))]
      /\ ToBag(r) = [x \in Range(r) |-> Cardinality(places(r, x))]
  BY DEF ToBag
<1> HIDE DEF places
<1> QED
  BY <1>5, <1>6, <1>7

\* Where a record goes that is taken out and put behind the chosen ones.
Taken(c, l, i) == Append(c, l[i]) \o RemoveAt(l, i)

LEMMA Extracted ==
    ASSUME NEW S, NEW c \in Seq(S), NEW l \in Seq(S), NEW i \in 1 .. Len(l)
    PROVE  /\ Append(c, l[i]) \in Seq(S) /\ RemoveAt(l, i) \in Seq(S)
           /\ Len(Taken(c, l, i)) = Len(c \o l) /\ ToBag(Taken(c, l, i)) = ToBag(c \o l)
           /\ \A k \in 1 .. Len(c \o l) :
                 Taken(c, l, i)[k] = IF k <= Len(c) \/ k > Len(c) + i THEN (c \o l)[k]
                                     ELSE IF k = Len(c) + 1 THEN l[i] ELSE l[k - Len(c) - 1]
<1> DEFINE C == Len(c)
           N == Len(l)
           head == Append(c, l[i])
           before == SubSeq(l, 1, i - 1)
           after == SubSeq(l, i + 1, N)
           tail == RemoveAt(l, i)
           new == head \o tail
           all == c \o l
           p == [k \in 1 .. C + N |-> IF k <= C \/ k > C + i THEN k ELSE IF k = C + 1 THEN C + i ELSE k - 1]
<1>1. /\ C \in Nat /\ N \in Nat /\ i \in 1 .. N /\ l[i] \in S
      /\ \A k \in 1 .. C : c[k] \in S
      /\ \A k \in 1 .. N : l[k] \in S
  BY LenProperties, ElementOfSeq
<1>2. head \in Seq(S) /\ Len(head) = C + 1 /\ head[C + 1] = l[i] /\ \A k \in 1 .. C : head[k] = c[k]
  BY <1>1, AppendProperties
<1>3. before \in Seq(S) /\ Len(before) = i - 1 /\ \A k \in 1 .. i - 1 : before[k] = l[k]
  BY <1>1
<1>4. after \in Seq(S) /\ Len(after) = N - i /\ \A k \in 1 .. N - i : after[k] = l[i + k]
  <2>1. i + 1 \in Int /\ N \in Int /\ \A k \in i + 1 .. N : l[k] \in S
    BY <1>1
  <2>2. /\ after \in Seq(S) /\ Len(after) = (IF i + 1 <= N THEN N - (i + 1) + 1 ELSE 0)
        /\ \A k \in 1 .. N - (i + 1) + 1 : after[k] = l[i + 1 + k - 1]
    <3> HIDE DEF N
    <3> QED
      BY <2>1, SubSeqProperties
  <2> HIDE DEF after, N
  <2> QED
    BY <2>2, <1>1
<1> HIDE DEF C, N, head, before, after
<1>5. /\ tail \in Seq(S) /\ Len(tail) = N - 1
      /\ \A k \in 1 .. N - 1 : tail[k] = IF k < i THEN l[k] ELSE l[k + 1]
  <2>1. tail = before \o after
    BY DEF RemoveAt, before, after, N
  <2>2. /\ before \o after \in Seq(S) /\ Len(before \o after) = N - 1
        /\ \A k \in 1 .. N - 1 :
              (before \o after)[k] = IF k <= i - 1 THEN before[k] ELSE after[k - (i - 1)]
    <3> HIDE DEF tail, new, all, p
    <3>1. /\ before \o after \in Seq(S) /\ Len(before \o after) = Len(before) + Len(after)
          /\ \A k \in 1 .. Len(before) + Len(after) :
                (before \o after)[k] = IF k <= Len(before) THEN before[k] ELSE after[k - Len(before)]
      BY <1>3, <1>4, ConcatProperties
    <3>2. Len(before) + Len(after) = N - 1
      BY <1>1, <1>3, <1>4
    <3> QED
      BY <1>3, <3>1, <3>2
  <2> HIDE DEF tail
  <2>3. \A k \in 1 .. N - 1 : tail[k] = IF k < i THEN l[k] ELSE l[k + 1]
    <3> TAKE k \in 1 .. N - 1
    <3>1. CASE k < i
      BY <1>1, <1>3, <2>1, <2>2, <3>1
    <3>2. CASE ~(k < i)
      <4>1. k - (i - 1) \in 1 .. N - i /\ i + (k - (i - 1)) = k + 1
        BY <1>1, <3>2
      <4> QED
        BY <1>1, <1>4, <2>1, <2>2, <3>2, <4>1
    <3> QED
      BY <3>1, <3>2
  <2> QED
    BY <1>1, <2>1, <2>2, <2>3
<1>6. /\ all \in Seq(S) /\ Len(all) = C + N
      /\ \A k \in 1 .. C + N : all[k] = IF k <= C THEN c[k] ELSE l[k - C]
  BY ConcatProperties DEF C, N
<1> HIDE DEF tail
<1>7. /\ new \in Seq(S) /\ Len(new) = C + N
      /\ \A k \in 1 .. C + N : new[k] = IF k <= C + 1 THEN head[k] ELSE tail[k - (C + 1)]
  <2> HIDE DEF all, p
  <2>1. /\ new \in Seq(S) /\ Len(new) = Len(head) + Len(tail)
        /\ \A k \in 1 .. Len(head) + Len(tail) :
              new[k] = IF k <= Len(head) THEN head[k] ELSE tail[k - Len(head)]
    BY <1>2, <1>5, ConcatProperties
  <2>2. Len(head) + Len(tail) = C + N
    BY <1>1, <1>2, <1>5
  <2> HIDE DEF new
  <2> QED
    BY <1>2, <2>1, <2>2
<1> HIDE DEF new, all
<1>8. \A k \in 1 .. C + N : new[k] = IF k <= C \/ k > C + i THEN all[k]
                                     ELSE IF k = C + 1 THEN l[i] ELSE l[k - C - 1]
  <2> HIDE DEF p, head
  <2> TAKE k \in 1 .. C + N
  <2>0. /\ new[k] = IF k <= C + 1 THEN head[k] ELSE tail[k - (C + 1)]
        /\ all[k] = IF k <= C THEN c[k] ELSE l[k - C]
    BY <1>6, <1>7
  <2>1. CASE k <= C
    <3>1. new[k] = head[k] /\ all[k] = c[k]
      BY <1>1, <2>0, <2>1
    <3>2. head[k] = c[k]
      BY <1>1, <1>2, <2>1
    <3> QED
      BY <2>1, <3>1, <3>2
  <2>2. CASE k = C + 1
    BY <1>1, <1>2, <1>6, <1>7, <2>2
  <2>3. CASE k > C + 1
    <3>1. k - (C + 1) \in 1 .. N - 1 /\ new[k] = tail[k - (C + 1)] /\ all[k] = l[k - C]
      BY <1>1, <1>6, <1>7, <2>3
    <3>2. new[k] = IF k - (C + 1) < i THEN l[k - (C + 1)] ELSE l[k - (C + 1) + 1]
      BY <1>5, <3>1
    <3>3. k - (C + 1) = k - C - 1 /\ k - (C + 1) + 1 = k - C /\ (k - (C + 1) < i <=> ~(k > C + i))
      BY <1>1
    <3>4. k - (C + 1) < i => new[k] = l[k - C - 1]
      BY <3>2, <3>3
    <3>5. ~(k - (C + 1) < i) => new[k] = all[k]
      BY <3>1, <3>2, <3>3
    <3> QED
      BY <1>1, <2>3, <3>3, <3>4, <3>5
  <2> QED
    BY <1>1, <2>1, <2>2, <2>3
<1>9. ToBag(new) = ToBag(all)
  <2>1. p \in [1 .. C + N -> 1 .. C + N]
    BY <1>1
  <2>2. \A j, k \in 1 .. C + N : j # k => p[j] # p[k]
    BY <1>1
  <2>3. \A k \in 1 .. C + N : new[k] = all[p[k]]
    <3> TAKE k \in 1 .. C + N
    <3>1. CASE k <= C \/ k > C + i
      BY <1>8, <3>1
    <3>2. CASE k = C + 1
      BY <1>1, <1>6, <1>8, <3>2
    <3>3. CASE k > C + 1 /\ k <= C + i
      <4>1. /\ p[k] = k - 1 /\ k - 1 \in 1 .. C + N /\ ~(k - 1 <= C) /\ k - 1 - C = k - C - 1
            /\ ~(k <= C \/ k > C + i) /\ k # C + 1
        BY <1>1, <3>3
      <4>2. all[k - 1] = l[k - C - 1]
        BY <1>6, <4>1
      <4>3. new[k] = l[k - C - 1]
        BY <1>8, <4>1
      <4> QED
        BY <4>1, <4>2, <4>3
    <3> QED
      BY <1>1, <3>1, <3>2, <3>3
  <2>4. C + N \in Nat /\ DOMAIN new = 1 .. C + N /\ DOMAIN all = 1 .. C + N
    BY <1>1, <1>6, <1>7
  <2> HIDE DEF p
  <2>5. Permutes(p, C + N, all, new)
    BY <2>1, <2>2, <2>3, <2>4 DEF Permutes
  <2> QED
    BY <2>5, SameBag
<1> QED
  BY <1>2, <1>5, <1>6, <1>7, <1>8, <1>9 DEF Taken, new, all, head, tail, C, N

\* Among equals it does not matter which.

-----------------------------------------------------------------------------
(* Concatenations.                                                         *)

\* FlattenSeq() puts one sequence after the other.
Flattens(f, ss, n) == f = [i \in 1 .. n |-> IF i = 1 THEN ss[i] ELSE f[i - 1] \o ss[i]]

LEMMA FlattensExists ==
    ASSUME NEW S, NEW ss \in Seq(Seq(S)), NEW n \in 0 .. Len(ss)
    PROVE  \E f \in [1 .. n -> Seq(S)] : Flattens(f, ss, n)
<1> DEFINE N == Len(ss)
           Found(m) == \E f \in [1 .. m -> Seq(S)] : Flattens(f, ss, m)
           T == {m \in 0 .. N : ~Found(m)}
<1>0. N \in Nat /\ \A i \in 1 .. N : ss[i] \in Seq(S)
  OBVIOUS
<1> HIDE DEF N
<1> SUFFICES ASSUME T # {} PROVE FALSE
  BY DEF N
<1>1. PICK m \in T : \A k \in T : m <= k
  <2> HIDE DEF Found
  <2>1. T \in SUBSET Nat
    BY <1>0
  <2> HIDE DEF T
  <2> QED
    BY <2>1, LeastNat
<1>2. m # 0
  <2>1. [i \in 1 .. 0 |-> <<>>] \in [1 .. 0 -> Seq(S)] /\ Flattens([i \in 1 .. 0 |-> <<>>], ss, 0)
    BY DEF Flattens
  <2> QED
    BY <1>1, <2>1
<1>3. m \in 1 .. N /\ m - 1 \in 0 .. N /\ Found(m - 1)
  <2> HIDE DEF Found
  <2>1. m \in 1 .. N /\ m - 1 \in 0 .. N /\ ~(m <= m - 1)
    BY <1>0, <1>1, <1>2
  <2> QED
    BY <1>1, <2>1
<1>4. PICK f \in [1 .. m - 1 -> Seq(S)] : Flattens(f, ss, m - 1)
  BY <1>3
<1> DEFINE g == [i \in 1 .. m |-> IF i < m THEN f[i] ELSE IF m = 1 THEN ss[m] ELSE f[m - 1] \o ss[m]]
<1>5. \A i \in 1 .. m - 1 : f[i] = IF i = 1 THEN ss[i] ELSE f[i - 1] \o ss[i]
  BY <1>4 DEF Flattens
<1>6. g \in [1 .. m -> Seq(S)]
  BY <1>0, <1>3, <1>4
<1>7. ASSUME NEW i \in 1 .. m PROVE g[i] = IF i = 1 THEN ss[i] ELSE g[i - 1] \o ss[i]
  <2>1. CASE i < m
    <3>1. i \in 1 .. m - 1 /\ (i # 1 => i - 1 \in 1 .. m /\ i - 1 < m)
      BY <2>1, <1>3, <1>0
    <3>2. g[i] = f[i] /\ (i # 1 => g[i - 1] = f[i - 1])
      BY <2>1, <3>1
    <3> HIDE DEF g
    <3> QED
      BY <1>5, <3>1, <3>2
  <2>2. CASE i = m
    <3>1. i # 1 => i - 1 \in 1 .. m /\ i - 1 < m
      BY <2>2, <1>3, <1>0
    <3>2. i # 1 => g[i - 1] = f[i - 1]
      BY <3>1
    <3>3. g[i] = IF m = 1 THEN ss[m] ELSE f[m - 1] \o ss[m]
      BY <2>2
    <3> HIDE DEF g
    <3> QED
      BY <2>2, <3>2, <3>3
  <2> QED
    BY <2>1, <2>2, <1>3, <1>0
<1>8. Flattens(g, ss, m)
  <2> HIDE DEF g
  <2> QED
    BY <1>6, <1>7 DEF Flattens
<1> QED
  BY <1>1, <1>6, <1>8

LEMMA Flattened ==
    ASSUME NEW S, NEW ss \in Seq(Seq(S))
    PROVE  \E f \in [0 .. Len(ss) -> Seq(S)] :
              /\ f[0] = <<>> /\ f[Len(ss)] = FlattenSeq(ss)
              /\ \A i \in 1 .. Len(ss) : f[i] = f[i - 1] \o ss[i]
<1> DEFINE N == Len(ss)
<1>0. N \in Nat /\ \A i \in 1 .. N : ss[i] \in Seq(S)
  OBVIOUS
<1>1. CASE N = 0
  <2>1. FlattenSeq(ss) = <<>>
    BY <1>1 DEF FlattenSeq
  <2> DEFINE f == [i \in 0 .. 0 |-> <<>>]
  <2>2. f \in [0 .. 0 -> Seq(S)] /\ f[0] = <<>>
    OBVIOUS
  <2>3. \A i \in 1 .. 0 : f[i] = f[i - 1] \o ss[i]
    OBVIOUS
  <2> HIDE DEF f
  <2> QED
    BY <1>1, <2>1, <2>2, <2>3
<1>2. CASE N # 0
  <2>1. PICK h \in [1 .. N -> Seq(S)] : Flattens(h, ss, N)
    BY <1>0, FlattensExists
  <2>2. PICK g : Flattens(g, ss, N) /\ FlattenSeq(ss) = g[N]
    BY <1>2, <2>1 DEF FlattenSeq, Flattens
  <2> HIDE DEF N
  <2>3. \A i \in 1 .. N : g[i] = IF i = 1 THEN ss[i] ELSE g[i - 1] \o ss[i]
    BY <2>2 DEF Flattens
  <2>4. \A i \in 1 .. N : g[i] \in Seq(S)
    <3> DEFINE T == {i \in 1 .. N : g[i] \notin Seq(S)}
    <3> SUFFICES ASSUME T # {} PROVE FALSE
      OBVIOUS
    <3>1. PICK m \in T : \A k \in T : m <= k
      <4>1. T \in SUBSET Nat
        BY <1>0
      <4> HIDE DEF T
      <4> QED
        BY <4>1, LeastNat
    <3>2. m # 1 => m - 1 \in 1 .. N /\ g[m - 1] \in Seq(S)
      <4>1. m # 1 => m - 1 \in 1 .. N /\ ~(m <= m - 1)
        BY <3>1, <1>0
      <4> QED
        BY <3>1, <4>1
    <3>3. g[m] = (IF m = 1 THEN ss[m] ELSE g[m - 1] \o ss[m]) /\ ss[m] \in Seq(S)
      BY <1>0, <2>3, <3>1
    <3>4. g[m] \in Seq(S)
      <4>1. CASE m = 1
        BY <3>3, <4>1
      <4>2. CASE m # 1
        <5>1. g[m] = g[m - 1] \o ss[m] /\ ss[m] \in Seq(S) /\ g[m - 1] \in Seq(S)
          BY <3>2, <3>3, <4>2
        <5> HIDE DEF T
        <5> QED
          BY <5>1
      <4> QED
        BY <4>1, <4>2
    <3> QED
      BY <3>4
  <2> DEFINE f == [i \in 0 .. N |-> IF i = 0 THEN <<>> ELSE g[i]]
  <2>5. f \in [0 .. N -> Seq(S)] /\ f[0] = <<>> /\ f[N] = FlattenSeq(ss)
    BY <1>0, <1>2, <2>2, <2>4
  <2>6. ASSUME NEW i \in 1 .. N PROVE f[i] = f[i - 1] \o ss[i]
    <3>1. i - 1 \in 0 .. N /\ f[i] = g[i] /\ (i # 1 => f[i - 1] = g[i - 1]) /\ (i = 1 => f[i - 1] = <<>>)
      BY <1>0
    <3> HIDE DEF f
    <3>2. g[i] = (IF i = 1 THEN ss[i] ELSE g[i - 1] \o ss[i]) /\ ss[i] \in Seq(S)
      BY <1>0, <2>3
    <3>3. <<>> \o ss[i] = ss[i]
      BY <3>2
    <3> QED
      BY <3>1, <3>2, <3>3
  <2> HIDE DEF f
  <2> QED
    BY <2>5, <2>6 DEF N
<1> QED
  BY <1>1, <1>2

\* The first of the sequences, one after the other.
Upto(ss, i) == FlattenSeq(SubSeq(ss, 1, i))

LEMMA FlattenAppend ==
    ASSUME NEW S, NEW ss \in Seq(Seq(S)), NEW s \in Seq(S)
    PROVE  FlattenSeq(Append(ss, s)) = FlattenSeq(ss) \o s /\ FlattenSeq(ss) \in Seq(S)
<1> DEFINE N == Len(ss)
           more == Append(ss, s)
<1>1. /\ N \in Nat /\ more \in Seq(Seq(S)) /\ Len(more) = N + 1
      /\ more[N + 1] = s /\ \A i \in 1 .. N : more[i] = ss[i]
  BY AppendProperties
<1>2. PICK f \in [0 .. N -> Seq(S)] :
         f[0] = <<>> /\ f[N] = FlattenSeq(ss) /\ \A i \in 1 .. N : f[i] = f[i - 1] \o ss[i]
  BY Flattened
<1>3. PICK g \in [0 .. N + 1 -> Seq(S)] :
         g[0] = <<>> /\ g[N + 1] = FlattenSeq(more) /\ \A i \in 1 .. N + 1 : g[i] = g[i - 1] \o more[i]
  BY <1>1, Flattened
<1> HIDE DEF N, more
<1>4. \A i \in 0 .. N : f[i] = g[i]
  <2> DEFINE T == {i \in 0 .. N : f[i] # g[i]}
  <2> SUFFICES ASSUME T # {} PROVE FALSE
    OBVIOUS
  <2>1. PICK m \in T : \A k \in T : m <= k
    <3>1. T \in SUBSET Nat
      BY <1>1
    <3> HIDE DEF T
    <3> QED
      BY <3>1, LeastNat
  <2>2. m # 0
    BY <1>2, <1>3, <2>1
  <2>3. m \in 1 .. N /\ m - 1 \in 0 .. N /\ ~(m <= m - 1)
    BY <1>1, <2>1, <2>2
  <2>4. f[m - 1] = g[m - 1]
    BY <2>1, <2>3
  <2>5. f[m] = f[m - 1] \o ss[m] /\ g[m] = g[m - 1] \o more[m] /\ more[m] = ss[m]
    <3>1. m \in 1 .. N + 1
      BY <1>1, <2>3
    <3> QED
      BY <1>1, <1>2, <1>3, <2>3, <3>1
  <2> QED
    BY <2>1, <2>4, <2>5
<1>5. g[N + 1] = g[N] \o s
  <2>1. PICK n \in Nat : n = N + 1
    BY <1>1
  <2>2. n \in 1 .. N + 1 /\ n - 1 = N /\ more[n] = s
    BY <1>1, <2>1
  <2>3. g[n] = g[n - 1] \o more[n]
    BY <1>3, <2>2
  <2> QED
    BY <2>1, <2>2, <2>3
<1>6. f[N] = g[N] /\ f[N] \in Seq(S)
  BY <1>1, <1>2, <1>4
<1> QED
  BY <1>2, <1>3, <1>5, <1>6 DEF more

\* piece is what is in whole after its first p.
IsPiece(piece, whole, p) == /\ p \in Nat /\ p + Len(piece) <= Len(whole)
                            /\ \A i \in 1 .. Len(piece) : piece[i] = whole[p + i]

LEMMA FirstPiece ==
    ASSUME NEW piece, NEW whole, IsPiece(piece, whole, 0)
    PROVE  \A i \in 1 .. Len(piece) : piece[i] = whole[i]
<1> TAKE i \in 1 .. Len(piece)
<1>1. i \in Nat => 0 + i = i
  OBVIOUS
<1>2. piece[i] = whole[0 + i]
  BY DEF IsPiece
<1>3. i \in Nat
  OBVIOUS
<1> QED
  BY <1>1, <1>2, <1>3

LEMMA PieceOfPiece ==
    ASSUME NEW S, NEW whole \in Seq(S), NEW part \in Seq(S), NEW piece \in Seq(S), NEW p, NEW q,
           IsPiece(part, whole, p), IsPiece(piece, part, q)
    PROVE  IsPiece(piece, whole, p + q)
<1>1. Len(whole) \in Nat /\ Len(part) \in Nat /\ Len(piece) \in Nat /\ p \in Nat /\ q \in Nat
  BY DEF IsPiece
<1>2. p + Len(part) <= Len(whole) /\ q + Len(piece) <= Len(part)
  BY DEF IsPiece
<1>3. ASSUME NEW i \in 1 .. Len(piece) PROVE piece[i] = whole[p + q + i]
  <2>1. q + i \in 1 .. Len(part) /\ p + (q + i) = p + q + i
    BY <1>1, <1>2
  <2>2. piece[i] = part[q + i] /\ part[q + i] = whole[p + (q + i)]
    BY <2>1 DEF IsPiece
  <2> QED
    BY <2>1, <2>2
<1> QED
  BY <1>1, <1>2, <1>3 DEF IsPiece

LEMMA Cut ==
    ASSUME NEW S, NEW s \in Seq(S), NEW i \in Nat, NEW j \in Nat, i <= j, j <= Len(s)
    PROVE  /\ SubSeq(s, i + 1, j) \in Seq(S) /\ Len(SubSeq(s, i + 1, j)) = j - i
           /\ IsPiece(SubSeq(s, i + 1, j), s, i)
<1> DEFINE piece == SubSeq(s, i + 1, j)
<1>1. piece \in Seq(S) /\ Len(piece) = j - i /\ \A k \in 1 .. j - i : piece[k] = s[i + k]
  <2>1. Len(s) \in Nat /\ i + 1 \in Int /\ j \in Int /\ \A k \in i + 1 .. j : s[k] \in S
    BY ElementOfSeq
  <2> QED
    BY <2>1, SubSeqProperties
<1> HIDE DEF piece
<1> QED
  BY <1>1 DEF IsPiece, piece

LEMMA Together ==
    ASSUME NEW S, NEW s \in Seq(S), NEW t \in Seq(S)
    PROVE  /\ s \o t \in Seq(S) /\ Len(s \o t) = Len(s) + Len(t)
           /\ IsPiece(s, s \o t, 0) /\ IsPiece(t, s \o t, Len(s))
<1> DEFINE both == s \o t
<1>1. Len(s) \in Nat /\ Len(t) \in Nat
  BY LenProperties
<1>2. /\ both \in Seq(S) /\ Len(both) = Len(s) + Len(t)
      /\ \A i \in 1 .. Len(s) + Len(t) : both[i] = IF i <= Len(s) THEN s[i] ELSE t[i - Len(s)]
  BY ConcatProperties
<1> HIDE DEF both
<1>3. IsPiece(s, both, 0)
  BY <1>1, <1>2 DEF IsPiece
<1>4. IsPiece(t, both, Len(s))
  <2>1. ASSUME NEW i \in 1 .. Len(t) PROVE t[i] = both[Len(s) + i]
    <3>1. Len(s) + i \in 1 .. Len(s) + Len(t) /\ ~(Len(s) + i <= Len(s)) /\ Len(s) + i - Len(s) = i
      BY <1>1
    <3> QED
      BY <1>2, <3>1
  <2> QED
    BY <1>1, <1>2, <2>1 DEF IsPiece
<1> QED
  BY <1>2, <1>3, <1>4 DEF both

\* Two pieces side by side are one.
LEMMA Adjoin ==
    ASSUME NEW S, NEW whole \in Seq(S), NEW s \in Seq(S), NEW t \in Seq(S), NEW p,
           IsPiece(s, whole, p), IsPiece(t, whole, p + Len(s))
    PROVE  IsPiece(s \o t, whole, p)
<1> DEFINE both == s \o t
<1>1. Len(s) \in Nat /\ Len(t) \in Nat /\ p \in Nat /\ p + Len(s) + Len(t) <= Len(whole)
  BY LenProperties DEF IsPiece
<1>2. /\ Len(both) = Len(s) + Len(t)
      /\ \A i \in 1 .. Len(s) + Len(t) : both[i] = IF i <= Len(s) THEN s[i] ELSE t[i - Len(s)]
  BY ConcatProperties
<1> HIDE DEF both
<1>3. ASSUME NEW i \in 1 .. Len(s) + Len(t) PROVE both[i] = whole[p + i]
  <2>1. CASE i <= Len(s)
    <3>1. both[i] = s[i] /\ i \in 1 .. Len(s)
      BY <1>1, <1>2, <2>1
    <3> QED
      BY <3>1 DEF IsPiece
  <2>2. CASE i > Len(s)
    <3>1. i - Len(s) \in 1 .. Len(t) /\ p + Len(s) + (i - Len(s)) = p + i /\ ~(i <= Len(s))
      BY <1>1, <2>2
    <3>2. both[i] = t[i - Len(s)]
      BY <1>2, <3>1
    <3> QED
      BY <3>1, <3>2 DEF IsPiece
  <2> QED
    BY <1>1, <2>1, <2>2
<1> QED
  BY <1>1, <1>2, <1>3 DEF IsPiece, both

LEMMA WholePiece ==
    ASSUME NEW S, NEW s \in Seq(S), NEW t \in Seq(S), IsPiece(s, t, 0), Len(s) = Len(t)
    PROVE  s = t
<1>1. \A i \in 1 .. Len(s) : s[i] = t[i]
  BY DEF IsPiece
<1> QED
  BY <1>1, SeqEqual

LEMMA Pieces ==
    ASSUME NEW S, NEW ss \in Seq(Seq(S))
    PROVE  /\ FlattenSeq(ss) \in Seq(S)
           /\ \A i \in 0 .. Len(ss) : Upto(ss, i) \in Seq(S) /\ IsPiece(Upto(ss, i), FlattenSeq(ss), 0)
           /\ Upto(ss, 0) = <<>> /\ Upto(ss, Len(ss)) = FlattenSeq(ss)
           /\ \A i \in 1 .. Len(ss) : /\ Upto(ss, i) = Upto(ss, i - 1) \o ss[i]
                                       /\ IsPiece(ss[i], FlattenSeq(ss), Len(Upto(ss, i - 1)))
<1> DEFINE N == Len(ss)
           whole == FlattenSeq(ss)
<1>1. N \in Nat /\ \A i \in 1 .. N : ss[i] \in Seq(S)
  BY LenProperties, ElementOfSeq
<1>2. \A i \in 0 .. N : SubSeq(ss, 1, i) \in Seq(Seq(S)) /\ Len(SubSeq(ss, 1, i)) = i
  <2> TAKE i \in 0 .. N
  <2>1. 0 \in Nat /\ i \in Nat /\ 0 <= i /\ i <= Len(ss) /\ i - 0 = i /\ 0 + 1 = 1
    BY <1>1
  <2> HIDE DEF N
  <2>2. ss \in Seq(Seq(S))
    OBVIOUS
  <2>3. SubSeq(ss, 0 + 1, i) \in Seq(Seq(S)) /\ Len(SubSeq(ss, 0 + 1, i)) = i - 0
    BY <2>1, <2>2, Cut
  <2> QED
    BY <2>1, <2>3
<1>3. \A i \in 0 .. N : Upto(ss, i) \in Seq(S)
  <2> TAKE i \in 0 .. N
  <2>1. SubSeq(ss, 1, i) \in Seq(Seq(S)) /\ <<>> \in Seq(S)
    BY <1>2
  <2>2. FlattenSeq(SubSeq(ss, 1, i)) \in Seq(S)
    BY <2>1, FlattenAppend
  <2> QED
    BY <2>2 DEF Upto
<1>4. SubSeq(ss, 1, N) = ss
  BY SubSeqFull
<1>5. Upto(ss, N) = whole
  BY <1>4 DEF Upto
<1>6. Upto(ss, 0) = <<>>
  <2>1. Len(SubSeq(ss, 1, 0)) = 0 /\ SubSeq(ss, 1, 0) \in Seq(Seq(S))
    BY <1>1, <1>2
  <2>2. SubSeq(ss, 1, 0) = <<>>
    BY <2>1, EmptySeq
  <2> QED
    BY <2>2 DEF Upto, FlattenSeq
<1>7. ASSUME NEW i \in 1 .. N PROVE Upto(ss, i) = Upto(ss, i - 1) \o ss[i]
  <2>1. SubSeq(ss, 1, i) = Append(SubSeq(ss, 1, i - 1), ss[i])
    BY <1>1
  <2>2. SubSeq(ss, 1, i - 1) \in Seq(Seq(S)) /\ ss[i] \in Seq(S)
    BY <1>1, <1>2
  <2> QED
    BY <2>1, <2>2, FlattenAppend DEF Upto
<1> HIDE DEF N, whole
<1>8. whole \in Seq(S)
  BY <1>1, <1>3, <1>5
<1>9. \A i \in 0 .. N : IsPiece(Upto(ss, i), whole, 0)
  <2> DEFINE T == {k \in 0 .. N : ~IsPiece(Upto(ss, N - k), whole, 0)}
  <2>1. T = {}
    <3> SUFFICES ASSUME T # {} PROVE FALSE
      OBVIOUS
    <3>1. PICK m \in T : \A k \in T : m <= k
      <4>1. T \in SUBSET Nat
        BY <1>1
      <4> HIDE DEF T
      <4> QED
        BY <4>1, LeastNat
    <3>2. m # 0
      <4>1. IsPiece(whole, whole, 0)
        <5>1. Len(whole) \in Nat
          BY <1>8, LenProperties
        <5> QED
          BY <5>1 DEF IsPiece
      <4> QED
        BY <1>1, <1>5, <3>1, <4>1
    <3>3. m - 1 \in 0 .. N /\ ~(m <= m - 1) /\ N - m \in 0 .. N /\ N - (m - 1) \in 1 .. N /\ N - (m - 1) - 1 = N - m
      BY <1>1, <3>1, <3>2
    <3>4. IsPiece(Upto(ss, N - (m - 1)), whole, 0)
      BY <3>1, <3>3
    <3>5. Upto(ss, N - (m - 1)) = Upto(ss, N - m) \o ss[N - (m - 1)]
      BY <1>7, <3>3
    <3>6. Upto(ss, N - m) \in Seq(S) /\ Upto(ss, N - (m - 1)) \in Seq(S) /\ ss[N - (m - 1)] \in Seq(S)
      BY <1>1, <1>3, <3>3
    <3>7. IsPiece(Upto(ss, N - m), Upto(ss, N - (m - 1)), 0)
      BY <3>5, <3>6, Together
    <3>8. IsPiece(Upto(ss, N - m), whole, 0 + 0)
      BY <1>8, <3>4, <3>6, <3>7, PieceOfPiece
    <3> QED
      BY <3>1, <3>8
  <2> QED
    <3> TAKE i \in 0 .. N
    <3>1. N - i \in 0 .. N /\ N - (N - i) = i
      BY <1>1
    <3> QED
      BY <2>1, <3>1
<1>10. ASSUME NEW i \in 1 .. N PROVE IsPiece(ss[i], whole, Len(Upto(ss, i - 1)))
  <2>1. i - 1 \in 0 .. N /\ i \in 0 .. N
    BY <1>1
  <2>2. Upto(ss, i - 1) \in Seq(S) /\ Upto(ss, i) \in Seq(S) /\ ss[i] \in Seq(S)
    BY <1>1, <1>3, <2>1
  <2>3. IsPiece(ss[i], Upto(ss, i), Len(Upto(ss, i - 1)))
    BY <1>7, <2>2, Together
  <2>4. IsPiece(ss[i], whole, 0 + Len(Upto(ss, i - 1)))
    BY <1>8, <1>9, <2>1, <2>2, <2>3, PieceOfPiece
  <2>5. Len(Upto(ss, i - 1)) \in Nat
    BY <2>2, LenProperties
  <2> QED
    BY <2>4, <2>5
<1> QED
  BY <1>3, <1>5, <1>6, <1>7, <1>8, <1>9, <1>10 DEF N, whole
=============================================================================
