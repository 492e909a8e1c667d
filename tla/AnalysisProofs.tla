--------------------------- MODULE AnalysisProofs ----------------------------
(***************************************************************************)
(* What is proved of the end of a run of the workflow, for every number of *)
(* papers, every size of a batch, every number of attempts, every delay    *)
(* and whatever the model answers.                                         *)
(*                                                                         *)
(* The model's folds over sequences are opened once, as a sequence of      *)
(* steps (FindingsSteps, DistinctSteps); what they compute follows by      *)
(* induction on the steps, which NatSetInduction states for a set.         *)
(***************************************************************************)
EXTENDS Analysis, TLAPS, FiniteSetTheorems, WellFoundedInduction

-----------------------------------------------------------------------------
(* Induction and the powers of two.                                        *)

(* A set with 0 and the successor of each of its numbers has all numbers.  *)
LEMMA NatSetInduction ==
  ASSUME NEW S, 0 \in S, \A n \in Nat : n \in S => n + 1 \in S
  PROVE  Nat \subseteq S
<1> SUFFICES ASSUME Nat \ S # {} PROVE FALSE
  OBVIOUS
<1> DEFINE R == OpToRel(<, Nat)
<1>1. IsWellFoundedOn(R, Nat)
  BY NatLessThanWellFounded
<1>2. \A x, y \in Nat : y < x => <<y, x>> \in R
  BY DEF OpToRel
<1> HIDE DEF R
<1>3. PICK x \in Nat \ S : \A y \in Nat \ S : <<y, x>> \notin R
  BY <1>1, WFMin
<1>4. x \in Nat /\ x # 0 /\ x \notin S
  OBVIOUS
<1>5. x - 1 \in Nat /\ <<x - 1, x>> \in R
  BY <1>2, <1>4
<1>6. x - 1 \in S
  BY <1>3, <1>5
<1>7. (x - 1) + 1 = x
  BY <1>4
<1> QED
  BY <1>4, <1>5, <1>6, <1>7

(* The powers of two, which count the subsets of an interval.              *)
LEMMA PowerOfTwo ==
  ASSUME NEW k \in Nat
  PROVE  2^0 = 1 /\ 2^k \in Nat /\ 2^(k + 1) = 2 * 2^k
<1> DEFINE S == SUBSET (1..k)
           T == {s \union {k + 1} : s \in S}
           f == [s \in S |-> s \union {k + 1}]
<1>1. \A n \in Nat : IsFiniteSet(1..n) /\ Cardinality(1..n) = n
  BY FS_Interval
<1>2. \A n \in Nat : /\ IsFiniteSet(SUBSET (1..n)) /\ Cardinality(SUBSET (1..n)) = 2^n
                     /\ 2^n \in Nat
  BY <1>1, FS_SUBSET, FS_CardinalityType
<1>3. SUBSET (1..(k + 1)) = S \union T
  <2>1. ASSUME NEW s \in SUBSET (1..(k + 1)) PROVE s \in S \union T
    <3>1. s \ {k + 1} \in S
      OBVIOUS
    <3>2. CASE k + 1 \in s
      <4>1. s = (s \ {k + 1}) \union {k + 1}
        BY <3>2
      <4> QED BY <3>1, <4>1
    <3>3. CASE k + 1 \notin s
      BY <3>1, <3>3
    <3> QED BY <3>2, <3>3
  <2>2. \A s \in S : s \in SUBSET (1..(k + 1)) /\ s \union {k + 1} \in SUBSET (1..(k + 1))
    OBVIOUS
  <2>3. S \union T \subseteq SUBSET (1..(k + 1))
    <3>1. S \subseteq SUBSET (1..(k + 1)) /\ T \subseteq SUBSET (1..(k + 1))
      BY <2>2
    <3> HIDE DEF S, T
    <3> QED BY <3>1
  <2> HIDE DEF S, T
  <2> QED BY <2>1, <2>3
<1>4. S \intersect T = {}
  OBVIOUS
<1>5. ExistsBijection(S, T)
  <2>1. f \in [S -> T] /\ \A t \in T : \E s \in S : f[s] = t
    OBVIOUS
  <2>2. \A r, s \in S : f[r] = f[s] => r = s
    <3> SUFFICES ASSUME NEW r \in S, NEW s \in S, f[r] = f[s] PROVE r = s
      OBVIOUS
    <3>1. r = (r \union {k + 1}) \ {k + 1} /\ s = (s \union {k + 1}) \ {k + 1}
      OBVIOUS
    <3> QED BY <3>1
  <2> QED
    BY <2>1, <2>2 DEF ExistsBijection, Bijection, Injection, Surjection, IsInjective
<1>6. IsFiniteSet(T) /\ Cardinality(T) = Cardinality(S)
  BY <1>2, <1>5, FS_Bijection
<1>7. Cardinality(S \union T) = Cardinality(S) + Cardinality(S)
  <2>1. Cardinality(S \intersect T) = 0
    BY <1>4, FS_EmptySet
  <2>2. IsFiniteSet(S) /\ Cardinality(S) \in Nat
    BY <1>2
  <2> HIDE DEF S, T
  <2>3. Cardinality(S \union T) =
          Cardinality(S) + Cardinality(T) - Cardinality(S \intersect T)
    BY <1>6, <2>2, FS_Union
  <2> QED
    BY <1>6, <2>1, <2>2, <2>3
<1>8. 2^k = Cardinality(S) /\ 2^k \in Nat /\ 2^(k + 1) = Cardinality(S \union T)
  <2>1. k + 1 \in Nat
    OBVIOUS
  <2>2. Cardinality(S \union T) = Cardinality(SUBSET (1..(k + 1)))
    BY <1>3
  <2>3. Cardinality(SUBSET (1..(k + 1))) = 2^(k + 1)
    BY <1>2, <2>1
  <2>4. Cardinality(S) = 2^k /\ 2^k \in Nat
    BY <1>2
  <2> HIDE DEF S, T
  <2> QED
    BY <2>2, <2>3, <2>4
<1> HIDE DEF S, T
<1> QED
  BY <1>7, <1>8

-----------------------------------------------------------------------------
(* Folds.                                                                  *)

(* FoldLeft reads the fold over all places of a sequence from a table of   *)
(* the folds over every set of them.                                       *)
FoldTable(n, T, base, step, f) ==
  /\ f \in [SUBSET (1..n) -> T]
  /\ \A s \in SUBSET (1..n) :
       /\ s # {} => Max(s) \in s
       /\ f[s] = IF s = {} THEN base ELSE step[Max(s)][f[s \ {Max(s)}]]

(* There is such a table, whatever a step does.                            *)
LEMMA FoldTableExists ==
  ASSUME NEW n \in Nat, NEW T, NEW base \in T, NEW step \in [1..n -> [T -> T]]
  PROVE  \E f : FoldTable(n, T, base, step, f)
<1> DEFINE Has(k) == \E f : FoldTable(k, T, base, step, f)
           Good == {k \in Nat : k <= n => Has(k)}
<1>1. Has(0)
  <2> DEFINE f == [s \in SUBSET (1..0) |-> base]
  <2>1. f \in [SUBSET (1..0) -> T] /\ \A s \in SUBSET (1..0) : s = {} /\ f[s] = base
    OBVIOUS
  <2> HIDE DEF f
  <2>2. FoldTable(0, T, base, step, f)
    BY <2>1 DEF FoldTable
  <2> QED
    BY <2>1, <2>2
<1>2. ASSUME NEW k \in Nat, k + 1 <= n, Has(k) PROVE Has(k + 1)
  <2>1. PICK f : FoldTable(k, T, base, step, f)
    BY <1>2
  <2> DEFINE g == [s \in SUBSET (1..(k + 1)) |->
                     IF k + 1 \in s THEN step[k + 1][f[s \ {k + 1}]] ELSE f[s]]
  <2>2. \A s \in SUBSET (1..(k + 1)) :
          /\ s \ {k + 1} \in SUBSET (1..k)
          /\ k + 1 \notin s => s \in SUBSET (1..k)
    OBVIOUS
  <2>3. g \in [SUBSET (1..(k + 1)) -> T]
    <3>1. step[k + 1] \in [T -> T]
      BY <1>2
    <3> QED
      BY <2>1, <2>2, <3>1 DEF FoldTable
  <2>4. ASSUME NEW s \in SUBSET (1..(k + 1))
        PROVE  /\ s # {} => Max(s) \in s
               /\ g[s] = IF s = {} THEN base ELSE step[Max(s)][g[s \ {Max(s)}]]
    <3>1. CASE k + 1 \in s
      <4>1. \A x \in s : (\A y \in s : x >= y) <=> x = k + 1
        BY <3>1
      <4>2. Max(s) = k + 1
        BY <3>1, <4>1 DEF Max
      <4>3. g[s \ {k + 1}] = f[s \ {k + 1}]
        BY <2>2
      <4> QED
        BY <3>1, <4>2, <4>3
    <3>2. CASE k + 1 \notin s
      <4>1. s \in SUBSET (1..k) /\ s \ {Max(s)} \in SUBSET (1..k)
        BY <2>2, <3>2
      <4>2. g[s] = f[s] /\ g[s \ {Max(s)}] = f[s \ {Max(s)}]
        <5>1. k + 1 \notin s \ {Max(s)} /\ s \ {Max(s)} \in SUBSET (1..(k + 1))
          BY <3>2
        <5> HIDE DEF Max
        <5> QED
          BY <3>2, <5>1
      <4> QED
        BY <2>1, <4>1, <4>2 DEF FoldTable
    <3> QED
      BY <3>1, <3>2
  <2>5. FoldTable(k + 1, T, base, step, g)
    <3> HIDE DEF g
    <3> QED
      BY <2>3, <2>4 DEF FoldTable
  <2> QED
    BY <2>5
<1>3. Has(n)
  <2> HIDE DEF Has
  <2>1. 0 \in Good /\ \A k \in Nat : k \in Good => k + 1 \in Good
    BY <1>1, <1>2
  <2>2. n \in Good
    <3> HIDE DEF Good
    <3> QED
      BY <2>1, NatSetInduction
  <2> QED
    BY <2>2
<1> QED
  BY <1>3

(* An interval loses its last place.                                       *)
LEMMA LastPlace ==
  ASSUME NEW k \in Nat \ {0}
  PROVE  Max(1..k) = k /\ (1..k) \ {k} = 1..(k - 1) /\ 1..k # {}
<1>1. \A x \in 1..k : (\A y \in 1..k : x >= y) <=> x = k
  OBVIOUS
<1> QED
  BY <1>1 DEF Max

(* The sources, one reference after the other.                             *)
LEMMA DistinctSteps ==
  ASSUME NEW refs \in Seq(Refs)
  PROVE  \E g : /\ g[0] = <<>>
                /\ \A k \in 1..Len(refs) :
                     g[k] = IF \E i \in DOMAIN g[k - 1] :
                                 SourceKey(g[k - 1][i]) = SourceKey(refs[k])
                            THEN g[k - 1] ELSE Append(g[k - 1], refs[k])
                /\ Distinct(refs) = g[Len(refs)]
<1> DEFINE n == Len(refs)
           T == Seq(Refs)
           Op(q, r) ==
             IF \E i \in DOMAIN q : SourceKey(q[i]) = SourceKey(r) THEN q ELSE Append(q, r)
           step == [k \in 1..n |-> [q \in T |-> Op(q, refs[k])]]
           Is(f) == f = [s \in SUBSET (1..n) |->
                          IF s = {} THEN <<>>
                          ELSE Op(f[s \ {Max(s)}], refs[Max(s)])]
<1>1. n \in Nat /\ DOMAIN refs = 1..n
  OBVIOUS
<1>2. step \in [1..n -> [T -> T]] /\ <<>> \in T
  OBVIOUS
<1>3. \E f : Is(f)
  <2>1. PICK f : FoldTable(n, T, <<>>, step, f)
    <3> HIDE DEF step, T, n
    <3> QED
      BY <1>1, <1>2, FoldTableExists
  <2>2. f \in [SUBSET (1..n) -> T] /\ \A s \in SUBSET (1..n) : s # {} => Max(s) \in s
    BY <2>1 DEF FoldTable
  <2>3. ASSUME NEW s \in SUBSET (1..n), s # {}
        PROVE  step[Max(s)][f[s \ {Max(s)}]] = Op(f[s \ {Max(s)}], refs[Max(s)])
    <3>1. Max(s) \in 1..n /\ f[s \ {Max(s)}] \in T
      BY <2>2, <2>3
    <3> HIDE DEF Op, n
    <3> QED
      BY <3>1
  <2>4. Is(f)
    <3> HIDE DEF step, Op, T, n
    <3> QED
      BY <2>1, <2>3 DEF FoldTable
  <2> QED
    BY <2>4
<1> DEFINE f == CHOOSE f : Is(f)
           g == [k \in 0..n |-> f[1..k]]
<1>4. Distinct(refs) = f[1..n]
  BY <1>1 DEF Distinct, FoldLeft, MapThenFoldSet
<1>5. Is(f)
  <2> HIDE DEF Is
  <2> QED
    BY <1>3
<1> HIDE DEF f
<1>6. ASSUME NEW k \in 1..n PROVE f[1..k] = Op(f[1..(k - 1)], refs[k])
  <2>1. 1..k \in SUBSET (1..n) /\ k \in Nat \ {0}
    BY <1>1
  <2>2. Max(1..k) = k /\ (1..k) \ {k} = 1..(k - 1) /\ 1..k # {}
    BY <2>1, LastPlace
  <2> HIDE DEF Op, n
  <2> QED
    BY <1>5, <2>1, <2>2
<1>7. f[1..0] = <<>>
  BY <1>1, <1>5
<1>8. /\ g[0] = <<>> /\ Distinct(refs) = g[n]
      /\ \A k \in 1..n : g[k] = Op(g[k - 1], refs[k])
  <2>1. /\ 0 \in 0..n /\ n \in 0..n
        /\ \A k \in 1..n : k \in 0..n /\ k - 1 \in 0..n
    BY <1>1
  <2> HIDE DEF Op, n
  <2> QED
    BY <1>4, <1>6, <1>7, <2>1
<1> HIDE DEF g
<1> QED
  BY <1>8

(* What the sources are: references, one for every key, and no key twice.  *)
LEMMA DistinctSources ==
  ASSUME NEW refs \in Seq(Refs)
  PROVE  /\ Distinct(refs) \in Seq(Refs)
         /\ \A j \in DOMAIN Distinct(refs) : \E i \in DOMAIN refs :
              Distinct(refs)[j] = refs[i]
         /\ \A i \in DOMAIN refs : \E j \in DOMAIN Distinct(refs) :
              SourceKey(Distinct(refs)[j]) = SourceKey(refs[i])
         /\ \A i, j \in DOMAIN Distinct(refs) :
              i # j => SourceKey(Distinct(refs)[i]) # SourceKey(Distinct(refs)[j])
<1>1. PICK g : /\ g[0] = <<>>
               /\ \A k \in 1..Len(refs) :
                    g[k] = IF \E i \in DOMAIN g[k - 1] :
                                SourceKey(g[k - 1][i]) = SourceKey(refs[k])
                           THEN g[k - 1] ELSE Append(g[k - 1], refs[k])
               /\ Distinct(refs) = g[Len(refs)]
  BY DistinctSteps
<1> DEFINE Good(k, q) ==
             /\ q \in Seq(Refs)
             /\ \A j \in DOMAIN q : \E i \in 1..k : q[j] = refs[i]
             /\ \A i \in 1..k : \E j \in DOMAIN q : SourceKey(q[j]) = SourceKey(refs[i])
             /\ \A i, j \in DOMAIN q : i # j => SourceKey(q[i]) # SourceKey(q[j])
           n == Len(refs)
           S == {k \in Nat : k <= n => Good(k, g[k])}
<1>2. n \in Nat /\ DOMAIN refs = 1..n /\ \A i \in 1..n : refs[i] \in Refs
  OBVIOUS
<1>3. Good(0, g[0])
  BY <1>1
<1>4. ASSUME NEW k \in Nat, k + 1 <= n, Good(k, g[k]) PROVE Good(k + 1, g[k + 1])
  <2> DEFINE q == g[k]
             r == refs[k + 1]
             a == Append(q, r)
  <2>1. k + 1 \in 1..n /\ (k + 1) - 1 = k /\ r \in Refs
    BY <1>2, <1>4
  <2>2. g[k + 1] = IF \E i \in DOMAIN q : SourceKey(q[i]) = SourceKey(r) THEN q ELSE a
    BY <1>1, <2>1
  <2>3. Good(k, q)
    BY <1>4
  <2>4. /\ \A i \in 1..(k + 1) : i \in 1..k \/ i = k + 1
        /\ 1..k \subseteq 1..(k + 1) /\ k + 1 \in 1..(k + 1)
    OBVIOUS
  <2> HIDE DEF q
  <2>5. ASSUME \E i \in DOMAIN q : SourceKey(q[i]) = SourceKey(r) PROVE Good(k + 1, q)
    <3>1. \A j \in DOMAIN q : \E i \in 1..(k + 1) : q[j] = refs[i]
      BY <2>3, <2>4
    <3>2. \A i \in 1..(k + 1) : \E j \in DOMAIN q : SourceKey(q[j]) = SourceKey(refs[i])
      BY <2>3, <2>4, <2>5
    <3> QED
      BY <2>3, <3>1, <3>2
  <2>6. ASSUME \A i \in DOMAIN q : SourceKey(q[i]) # SourceKey(r) PROVE Good(k + 1, a)
    <3>1. /\ a \in Seq(Refs)
          /\ \A j \in DOMAIN q : j \in DOMAIN a /\ a[j] = q[j]
          /\ Len(q) + 1 \in DOMAIN a /\ a[Len(q) + 1] = r
          /\ \A j \in DOMAIN a : j \in DOMAIN q \/ j = Len(q) + 1
      BY <2>1, <2>3
    <3> HIDE DEF a
    <3>2. ASSUME NEW j \in DOMAIN a PROVE \E i \in 1..(k + 1) : a[j] = refs[i]
      <4>1. CASE j \in DOMAIN q
        <5>1. PICK i \in 1..k : q[j] = refs[i]
          BY <2>3, <4>1
        <5> QED
          BY <2>4, <3>1, <4>1, <5>1
      <4>2. CASE j = Len(q) + 1
        BY <2>4, <3>1, <4>2
      <4> QED
        BY <3>1, <4>1, <4>2
    <3>3. ASSUME NEW i \in 1..(k + 1)
          PROVE  \E j \in DOMAIN a : SourceKey(a[j]) = SourceKey(refs[i])
      <4>1. CASE i \in 1..k
        <5>1. PICK j \in DOMAIN q : SourceKey(q[j]) = SourceKey(refs[i])
          BY <2>3, <4>1
        <5> QED
          BY <3>1, <5>1
      <4>2. CASE i = k + 1
        BY <3>1, <4>2
      <4> QED
        BY <2>4, <4>1, <4>2
    <3>4. ASSUME NEW i \in DOMAIN a, NEW j \in DOMAIN a, i # j
          PROVE  SourceKey(a[i]) # SourceKey(a[j])
      <4>1. CASE i \in DOMAIN q /\ j \in DOMAIN q
        BY <2>3, <3>1, <3>4, <4>1
      <4>2. CASE i \in DOMAIN q /\ j = Len(q) + 1
        BY <2>6, <3>1, <4>2
      <4>3. CASE i = Len(q) + 1 /\ j \in DOMAIN q
        BY <2>6, <3>1, <4>3
      <4> QED
        BY <3>1, <3>4, <4>1, <4>2, <4>3
    <3> QED
      BY <3>1, <3>2, <3>3, <3>4
  <2> HIDE DEF Good, a, r
  <2> QED
    BY <2>2, <2>5, <2>6
<1>5. Good(n, g[n])
  <2> HIDE DEF Good, n
  <2>1. 0 \in S /\ \A k \in Nat : k \in S => k + 1 \in S
    BY <1>2, <1>3, <1>4
  <2>2. n \in S
    <3> HIDE DEF S
    <3> QED
      BY <1>2, <2>1, NatSetInduction
  <2> QED
    BY <1>2, <2>2
<1> QED
  BY <1>1, <1>2, <1>5

(* The findings of a batch, one paper after the other.                     *)
LEMMA FindingsSteps ==
  ASSUME answer \in [Calls -> Findings \union {None}], NEW batch
  PROVE  \E g : /\ g[0] = <<>>
                /\ \A k \in Papers :
                     g[k] = IF k \in batch /\ Kept(k) THEN Append(g[k - 1], answer[k])
                            ELSE g[k - 1]
                /\ FindingsOf(batch) = g[NumPapers]
<1> DEFINE n == NumPapers
           T == Seq(Findings \union {None})
           Op(q, p) == IF p \in batch /\ Kept(p) THEN Append(q, answer[p]) ELSE q
           step == [k \in 1..n |-> [q \in T |-> Op(q, k)]]
           ps == [p \in Papers |-> p]
           Is(f) == f = [s \in SUBSET (1..n) |->
                          IF s = {} THEN <<>>
                          ELSE Op(f[s \ {Max(s)}], ps[Max(s)])]
<1>1. n \in Nat /\ Papers = 1..n /\ DOMAIN ps = 1..n /\ \A p \in 1..n : ps[p] = p
  BY PapersAssumption DEF Papers
<1>2. step \in [1..n -> [T -> T]] /\ <<>> \in T
  BY <1>1 DEF Calls
<1>3. \E f : Is(f)
  <2>1. PICK f : FoldTable(n, T, <<>>, step, f)
    <3> HIDE DEF step, T, n
    <3> QED
      BY <1>1, <1>2, FoldTableExists
  <2>2. f \in [SUBSET (1..n) -> T] /\ \A s \in SUBSET (1..n) : s # {} => Max(s) \in s
    BY <2>1 DEF FoldTable
  <2>3. ASSUME NEW s \in SUBSET (1..n), s # {}
        PROVE  step[Max(s)][f[s \ {Max(s)}]] = Op(f[s \ {Max(s)}], ps[Max(s)])
    <3>1. Max(s) \in 1..n /\ f[s \ {Max(s)}] \in T /\ ps[Max(s)] = Max(s)
      BY <1>1, <2>2, <2>3
    <3> HIDE DEF Op, T, n, ps
    <3> QED
      BY <3>1
  <2>4. Is(f)
    <3> HIDE DEF step, Op, T, n, ps
    <3> QED
      BY <2>1, <2>3 DEF FoldTable
  <2> QED
    BY <2>4
<1> DEFINE f == CHOOSE f : Is(f)
           g == [k \in 0..n |-> f[1..k]]
<1>4. FindingsOf(batch) = f[1..n]
  BY <1>1 DEF FindingsOf, FoldLeft, MapThenFoldSet
<1>5. Is(f)
  <2> HIDE DEF Is
  <2> QED
    BY <1>3
<1> HIDE DEF f
<1>6. ASSUME NEW k \in 1..n PROVE f[1..k] = Op(f[1..(k - 1)], k)
  <2>1. 1..k \in SUBSET (1..n) /\ k \in Nat \ {0} /\ ps[k] = k
    BY <1>1
  <2>2. Max(1..k) = k /\ (1..k) \ {k} = 1..(k - 1) /\ 1..k # {}
    BY <2>1, LastPlace
  <2> HIDE DEF Op, n, ps
  <2>3. f[1..k] = Op(f[(1..k) \ {Max(1..k)}], ps[Max(1..k)])
    BY <1>5, <2>1, <2>2
  <2> QED
    BY <2>1, <2>2, <2>3
<1>7. f[1..0] = <<>>
  BY <1>1, <1>5
<1>8. /\ g[0] = <<>> /\ FindingsOf(batch) = g[n]
      /\ \A k \in 1..n : g[k] = Op(g[k - 1], k)
  <2>1. /\ 0 \in 0..n /\ n \in 0..n
        /\ \A k \in 1..n : k \in 0..n /\ k - 1 \in 0..n
    BY <1>1
  <2> HIDE DEF Op, n
  <2> QED
    BY <1>4, <1>6, <1>7, <2>1
<1> HIDE DEF g
<1> QED
  BY <1>1, <1>8

-----------------------------------------------------------------------------
(* Type correctness.                                                       *)

(* What is known of a call at each place.                                  *)
InCall(c) ==
  /\ pc[c] = "idle" => attempt[c] = 1 /\ limited[c] = 0 /\ slept[c] = 0
  /\ pc[c] = "asking" => limited[c] < attempt[c]
  /\ pc[c] = "sleeping" => attempt[c] < MaxRetries
  /\ pc[c] = "failed" => attempt[c] = MaxRetries

(* The calls of the batches that have ended have come to an end, and those *)
(* of later ones have not started; an answer is the finding of its paper.  *)
BatchByBatch ==
  /\ \A p \in Papers : p < first => pc[p] \in {"answered", "failed"}
  /\ \A p \in Papers : first + BatchSize <= p => pc[p] = "idle"
  /\ first <= NumPapers => pc[0] = "idle"
  /\ \A p \in Papers : pc[p] = "answered" =>
       answer[p] \in Findings /\ answer[p].paper = p

Inv ==
  /\ TypeOK
  /\ limited \in [Calls -> Nat]
  /\ \A c \in Calls : InCall(c)
  /\ BatchByBatch

(* The call of the report is none of a paper.                              *)
LEMMA CallsOf ==
  /\ 0 \in Calls /\ 0 \notin Papers /\ Papers \subseteq Calls
  /\ NumPapers \in Nat /\ BatchSize \in Nat /\ BatchSize > 0
  /\ MaxRetries \in Nat /\ MaxRetries > 0 /\ Papers \subseteq Nat /\ Calls \subseteq Nat
  BY PapersAssumption, RetriesAssumption DEF Calls, Papers

(* The delays are numbers.                                                 *)
LEMMA DelayType ==
  ASSUME NEW k \in Nat \ {0}, NEW limit \in BOOLEAN
  PROVE  Delay(k, limit) \in Nat
<1>1. k - 1 \in Nat /\ BaseDelay \in Nat /\ LimitDelay \in Nat
  BY DelaysAssumption
<1>2. 2^(k - 1) \in Nat
  BY <1>1, PowerOfTwo
<1> DEFINE d == BaseDelay * 2^(k - 1)
<1>3. d \in Nat
  BY <1>1, <1>2
<1> HIDE DEF d
<1>4. (IF limit /\ d < LimitDelay THEN LimitDelay ELSE d) \in Nat
  BY <1>1, <1>3
<1> QED
  BY <1>4 DEF Delay, d

(* Nothing has been asked of the model but the first batch.                *)
LEMMA InitInv == Init => Inv
<1> SUFFICES ASSUME Init PROVE Inv
  OBVIOUS
<1>1. TypeOK
  <2>1. pc \in [Calls -> {"idle", "asking", "sleeping", "answered", "failed"}]
    BY DEF Init
  <2> QED
    BY <2>1, CallsOf DEF Init, TypeOK
<1>2. \A c \in Calls : InCall(c)
  BY DEF Init, InCall
<1>3. BatchByBatch
  BY CallsOf DEF Init, BatchByBatch, Started, Batch, Papers
<1> QED
  BY <1>1, <1>2, <1>3 DEF Inv, Init

(* The steps of one call keep what is known of the others and of the       *)
(* batches.                                                                *)
LEMMA CallStep ==
  ASSUME Inv, NEW c \in Calls, pc[c] \in {"asking", "sleeping"},
         NEW place \in {"asking", "sleeping", "answered", "failed"},
         pc' = [pc EXCEPT ![c] = place],
         NEW a \in 1..MaxRetries, attempt' = [attempt EXCEPT ![c] = a],
         NEW l \in 0..a, limited' = [limited EXCEPT ![c] = l],
         NEW s \in Nat, slept' = [slept EXCEPT ![c] = s],
         place = "asking" => l < a,
         place = "sleeping" => a < MaxRetries,
         place = "failed" => a = MaxRetries,
         NEW f, answer' = [answer EXCEPT ![c] = f],
         \/ f = answer[c] /\ (place = "answered" => c = 0)
         \/ f \in Findings /\ f.paper = c,
         UNCHANGED <<first, findings>>, sources' \in Seq(Refs)
  PROVE  Inv'
<1>1. /\ pc \in [Calls -> {"idle", "asking", "sleeping", "answered", "failed"}]
      /\ attempt \in [Calls -> 1..MaxRetries] /\ limited \in [Calls -> Nat]
      /\ slept \in [Calls -> Nat] /\ answer \in [Calls -> Findings \union {None}]
      /\ first \in 1..(NumPapers + BatchSize)
  BY DEF Inv, TypeOK
<1>2. TypeOK'
  <2>1. \A d \in Calls : limited'[d] \in 0..attempt'[d]
    BY <1>1, CallsOf DEF Inv, TypeOK
  <2>2. f \in Findings \union {None}
    BY <1>1
  <2>3. answer' \in [Calls -> Findings \union {None}]
    BY <1>1, <2>2
  <2> QED
    BY <1>1, <2>1, <2>3 DEF Inv, TypeOK
<1>3. limited' \in [Calls -> Nat]
  BY <1>1, CallsOf
<1>4. \A d \in Calls : InCall(d)'
  BY <1>1 DEF Inv, InCall
<1>5. BatchByBatch'
  <2>1. \A p \in Papers : first + BatchSize <= p => p # c
    BY DEF Inv, BatchByBatch
  <2>2. \A p \in Papers : p < first => p # c
    BY DEF Inv, BatchByBatch
  <2>3. first <= NumPapers => c # 0
    BY DEF Inv, BatchByBatch
  <2>4. ASSUME NEW p \in Papers, pc'[p] = "answered"
        PROVE  answer'[p] \in Findings /\ answer'[p].paper = p
    <3>1. CASE p = c
      BY <1>1, <2>4, <3>1, CallsOf
    <3>2. CASE p # c
      BY <1>1, <2>4, <3>2, CallsOf DEF Inv, BatchByBatch
    <3> QED
      BY <3>1, <3>2
  <2> QED
    BY <1>1, <2>1, <2>2, <2>3, <2>4, CallsOf DEF Inv, BatchByBatch
<1> QED
  BY <1>2, <1>3, <1>4, <1>5 DEF Inv

(* What the findings of a batch are: the answers for its papers that are   *)
(* kept, one for each, in the order of the papers.                         *)
LEMMA FindingsOfBatch ==
  ASSUME Inv, NEW batch \in SUBSET Papers
  PROVE  /\ FindingsOf(batch) \in Seq(Findings)
         /\ \A i \in DOMAIN FindingsOf(batch) :
              /\ FindingsOf(batch)[i].paper \in batch
              /\ Kept(FindingsOf(batch)[i].paper)
              /\ FindingsOf(batch)[i] = answer[FindingsOf(batch)[i].paper]
         /\ \A p \in batch : Kept(p) =>
              \E i \in DOMAIN FindingsOf(batch) : FindingsOf(batch)[i].paper = p
         /\ \A i, j \in DOMAIN FindingsOf(batch) :
              i < j => FindingsOf(batch)[i].paper < FindingsOf(batch)[j].paper
<1>1. PICK g : /\ g[0] = <<>>
               /\ \A k \in Papers :
                    g[k] = IF k \in batch /\ Kept(k) THEN Append(g[k - 1], answer[k])
                           ELSE g[k - 1]
               /\ FindingsOf(batch) = g[NumPapers]
  BY FindingsSteps DEF Inv, TypeOK
<1> DEFINE Good(k, q) ==
             /\ q \in Seq(Findings)
             /\ \A i \in DOMAIN q : /\ q[i].paper \in batch /\ q[i].paper <= k
                                    /\ Kept(q[i].paper) /\ q[i] = answer[q[i].paper]
             /\ \A p \in batch : p <= k /\ Kept(p) => \E i \in DOMAIN q : q[i].paper = p
             /\ \A i, j \in DOMAIN q : i < j => q[i].paper < q[j].paper
           n == NumPapers
           S == {k \in Nat : k <= n => Good(k, g[k])}
<1>2. n \in Nat /\ Papers = 1..n /\ batch \subseteq 1..n
  BY CallsOf DEF Papers
<1>3. Good(0, g[0])
  <2>1. /\ <<>> \in Seq(Findings) /\ DOMAIN <<>> = {}
        /\ \A p \in batch : ~(p <= 0)
    BY <1>2
  <2> QED
    BY <1>1, <2>1
<1>4. ASSUME NEW k \in Nat, k + 1 <= n, Good(k, g[k]) PROVE Good(k + 1, g[k + 1])
  <2> DEFINE q == g[k]
             p == k + 1
             a == Append(q, answer[p])
  <2>1. p \in Papers /\ p - 1 = k /\ p \in 1..n
    BY <1>2, <1>4
  <2>2. g[p] = IF p \in batch /\ Kept(p) THEN a ELSE q
    BY <1>1, <2>1
  <2>3. Good(k, q)
    BY <1>4
  <2>4. \A r \in batch : r <= p <=> r <= k \/ r = p
    BY <1>2
  <2> HIDE DEF q
  <2>5. ASSUME ~(p \in batch /\ Kept(p)) PROVE Good(p, q)
    <3>1. \A i \in DOMAIN q : q[i].paper <= p
      BY <2>3, <2>4
    <3>2. \A r \in batch : r <= p /\ Kept(r) => \E i \in DOMAIN q : q[i].paper = r
      BY <2>3, <2>4, <2>5
    <3> QED
      BY <2>3, <3>1, <3>2
  <2>6. ASSUME p \in batch, Kept(p) PROVE Good(p, a)
    <3>1. answer[p] \in Findings /\ answer[p].paper = p
      BY <2>1, <2>6 DEF Kept, Inv, BatchByBatch
    <3>2. /\ a \in Seq(Findings) /\ Len(q) \in Nat /\ DOMAIN q = 1..Len(q)
          /\ \A i \in DOMAIN q : i \in DOMAIN a /\ a[i] = q[i]
          /\ Len(q) + 1 \in DOMAIN a /\ a[Len(q) + 1] = answer[p]
          /\ DOMAIN a = 1..(Len(q) + 1)
          /\ \A i \in DOMAIN a : i \in DOMAIN q \/ i = Len(q) + 1
      BY <2>3, <3>1
    <3> HIDE DEF a, p
    <3>3. ASSUME NEW i \in DOMAIN a
          PROVE  /\ a[i].paper \in batch /\ a[i].paper <= p
                 /\ Kept(a[i].paper) /\ a[i] = answer[a[i].paper]
      <4>1. CASE i \in DOMAIN q
        BY <2>3, <2>4, <3>2, <4>1
      <4>2. CASE i = Len(q) + 1
        <5>1. a[i] = answer[p] /\ a[i].paper = p /\ p <= p
          BY <2>1, <3>1, <3>2, <4>2 DEF p
        <5> QED
          BY <2>6, <5>1
      <4> QED
        BY <3>2, <4>1, <4>2
    <3>4. ASSUME NEW r \in batch, r <= p, Kept(r) PROVE \E i \in DOMAIN a : a[i].paper = r
      <4>1. CASE r <= k
        <5>1. PICK i \in DOMAIN q : q[i].paper = r
          BY <2>3, <3>4, <4>1
        <5> QED
          BY <3>2, <5>1
      <4>2. CASE r = p
        BY <3>1, <3>2, <4>2
      <4> QED
        BY <2>4, <3>4, <4>1, <4>2
    <3>5. ASSUME NEW i \in DOMAIN a, NEW j \in DOMAIN a, i < j
          PROVE  a[i].paper < a[j].paper
      <4>1. i \in DOMAIN q
        BY <3>2, <3>5
      <4>2. CASE j \in DOMAIN q
        BY <2>3, <3>2, <3>5, <4>1, <4>2
      <4>3. CASE j = Len(q) + 1
        <5>1. q[i].paper \in batch /\ q[i].paper <= k
          BY <2>3, <4>1
        <5>2. \A r \in batch : r <= k => r < p
          BY <1>2 DEF p
        <5> QED
          BY <3>1, <3>2, <4>1, <4>3, <5>1, <5>2
      <4> QED
        BY <3>2, <4>2, <4>3
    <3> QED
      BY <3>2, <3>3, <3>4, <3>5
  <2> HIDE DEF Good, a
  <2> QED
    BY <2>2, <2>5, <2>6
<1>5. Good(n, g[n])
  <2> HIDE DEF Good, n
  <2>1. 0 \in S /\ \A k \in Nat : k \in S => k + 1 \in S
    BY <1>2, <1>3, <1>4
  <2>2. n \in S
    <3> HIDE DEF S
    <3> QED
      BY <1>2, <2>1, NatSetInduction
  <2> QED
    BY <1>2, <2>2
<1> QED
  BY <1>1, <1>2, <1>5

(* The end of a batch starts the calls of the next one.                    *)
LEMMA EndBatchStep ==
  ASSUME Inv, EndBatch
  PROVE  Inv'
<1>1. /\ pc \in [Calls -> {"idle", "asking", "sleeping", "answered", "failed"}]
      /\ attempt \in [Calls -> 1..MaxRetries] /\ limited \in [Calls -> Nat]
      /\ answer \in [Calls -> Findings \union {None}]
      /\ first \in 1..(NumPapers + BatchSize) /\ first <= NumPapers
      /\ findings \in Seq(Findings) /\ first' = first + BatchSize
      /\ UNCHANGED <<attempt, limited, slept, answer, sources>>
      /\ pc' = [c \in Calls |->
                  IF c \in Started(first + BatchSize) THEN "asking" ELSE pc[c]]
  BY DEF Inv, TypeOK, EndBatch
<1>2. findings' \in Seq(Findings)
  <2>1. Batch(first) \in SUBSET Papers
    BY DEF Batch
  <2>2. FindingsOf(Batch(first)) \in Seq(Findings)
    BY <2>1, FindingsOfBatch
  <2> QED
    BY <1>1, <2>2 DEF EndBatch
<1>3. \A c \in Calls : c \in Started(first + BatchSize) => pc[c] = "idle"
  BY <1>1, CallsOf DEF Started, Batch, Inv, BatchByBatch
<1>4. pc' \in [Calls -> {"idle", "asking", "sleeping", "answered", "failed"}]
  BY <1>1
<1>5. TypeOK'
  <2>1. first' \in 1..(NumPapers + BatchSize)
    BY <1>1, CallsOf
  <2> QED
    BY <1>1, <1>2, <1>4, <2>1 DEF Inv, TypeOK
<1>6. \A c \in Calls : InCall(c)'
  BY <1>1, <1>3, CallsOf DEF Inv, InCall
<1>7. BatchByBatch'
  <2>1. ASSUME NEW p \in Papers, p < first' PROVE pc'[p] \in {"answered", "failed"}
    <3>1. p \notin Started(first + BatchSize)
      BY <1>1, <2>1, CallsOf DEF Started, Batch
    <3>2. p < first \/ p \in Batch(first)
      BY <1>1, <2>1, CallsOf DEF Batch
    <3>3. pc[p] \in {"answered", "failed"}
      BY <3>2 DEF Inv, BatchByBatch, EndBatch
    <3> QED
      BY <1>1, <3>1, <3>3, CallsOf
  <2>2. ASSUME NEW p \in Papers, first' + BatchSize <= p PROVE pc'[p] = "idle"
    <3>1. p \notin Started(first + BatchSize) /\ first + BatchSize <= p
      BY <1>1, <2>2, CallsOf DEF Started, Batch
    <3>2. pc[p] = "idle"
      BY <3>1 DEF Inv, BatchByBatch
    <3> QED
      BY <1>1, <3>1, <3>2, CallsOf
  <2>3. first' <= NumPapers => pc'[0] = "idle"
    BY <1>1, CallsOf DEF Started, Batch, Inv, BatchByBatch
  <2>4. \A p \in Papers : pc'[p] = "answered" =>
          answer'[p] \in Findings /\ answer'[p].paper = p
    BY <1>1, CallsOf DEF Inv, BatchByBatch
  <2> QED
    BY <2>1, <2>2, <2>3, <2>4 DEF BatchByBatch
<1> QED
  BY <1>1, <1>5, <1>6, <1>7 DEF Inv

(* The steps of a call: Fail, WakeUp, Answer and Write.                    *)
LEMMA StepKeepsInv ==
  ASSUME Inv, NEW c \in Calls, Step(c) \/ WakeUp(c)
  PROVE  Inv'
<1>1. /\ pc \in [Calls -> {"idle", "asking", "sleeping", "answered", "failed"}]
      /\ attempt \in [Calls -> 1..MaxRetries] /\ limited \in [Calls -> Nat]
      /\ slept \in [Calls -> Nat] /\ answer \in [Calls -> Findings \union {None}]
      /\ attempt[c] \in 1..MaxRetries /\ limited[c] \in 0..attempt[c]
      /\ slept[c] \in Nat /\ sources \in Seq(Refs) /\ findings \in Seq(Findings)
  BY DEF Inv, TypeOK
<1>2. /\ attempt = [attempt EXCEPT ![c] = attempt[c]]
      /\ slept = [slept EXCEPT ![c] = slept[c]]
      /\ limited = [limited EXCEPT ![c] = limited[c]]
      /\ answer = [answer EXCEPT ![c] = answer[c]]
  BY <1>1
<1>3. ASSUME NEW limit \in BOOLEAN, Fail(c, limit) PROVE Inv'
  <2> DEFINE l == IF limit THEN limited[c] + 1 ELSE limited[c]
  <2>1. limited[c] < attempt[c]
    BY <1>3 DEF Fail, Inv, InCall
  <2>2. l \in 0..attempt[c]
    BY <1>1, <2>1, CallsOf
  <2>3. /\ pc[c] = "asking" /\ limited' = [limited EXCEPT ![c] = l]
        /\ UNCHANGED <<first, attempt, answer, findings, sources>>
    BY <1>3 DEF Fail
  <2> HIDE DEF l
  <2>4. CASE /\ attempt[c] >= MaxRetries
             /\ pc' = [pc EXCEPT ![c] = "failed"] /\ UNCHANGED slept
    <3>1. attempt[c] = MaxRetries
      BY <1>1, <2>4, CallsOf
    <3> QED
      BY <1>1, <1>2, <2>2, <2>3, <2>4, <3>1, CallStep
  <2>5. CASE /\ attempt[c] < MaxRetries /\ pc' = [pc EXCEPT ![c] = "sleeping"]
             /\ slept' = [slept EXCEPT ![c] = @ + Delay(attempt[c], limit)]
    <3> DEFINE s == slept[c] + Delay(attempt[c], limit)
    <3>1. attempt[c] \in Nat \ {0}
      BY <1>1, CallsOf
    <3>2. s \in Nat /\ slept' = [slept EXCEPT ![c] = s]
      BY <1>1, <2>5, <3>1, DelayType
    <3> HIDE DEF s
    <3> QED
      BY <1>1, <1>2, <2>2, <2>3, <2>5, <3>2, CallStep
  <2> QED
    BY <1>3, <2>4, <2>5 DEF Fail
<1>4. CASE WakeUp(c)
  <2> DEFINE a == attempt[c] + 1
  <2>1. pc[c] = "sleeping" /\ attempt[c] < MaxRetries
    BY <1>4 DEF WakeUp, Inv, InCall
  <2>2. a \in 1..MaxRetries /\ limited[c] \in 0..a /\ limited[c] < a
    BY <1>1, <2>1, CallsOf
  <2>3. /\ attempt' = [attempt EXCEPT ![c] = a] /\ pc' = [pc EXCEPT ![c] = "asking"]
        /\ UNCHANGED <<first, limited, slept, answer, findings, sources>>
    BY <1>4 DEF WakeUp
  <2> HIDE DEF a
  <2> QED
    BY <1>1, <1>2, <2>1, <2>2, <2>3, CallStep
<1>5. ASSUME c # 0, NEW r \in Relevances, NEW ref \in Refs, Answer(c, r, ref) PROVE Inv'
  <2> DEFINE own == IF ref.title = "" THEN RefOf[c] ELSE ref
             f == [paper |-> c, relevance |-> r, ref |-> own]
  <2>1. c \in Papers
    BY <1>5 DEF Calls
  <2>2. own \in Refs
    BY <2>1, RefsAssumption DEF Papers
  <2>3. answer' = [answer EXCEPT ![c] = f]
    BY <1>5 DEF Answer
  <2> HIDE DEF own
  <2>4. f \in Findings /\ f.paper = c
    BY <2>1, <2>2 DEF Findings
  <2>5. /\ pc[c] = "asking" /\ pc' = [pc EXCEPT ![c] = "answered"]
        /\ UNCHANGED <<first, attempt, limited, slept, findings, sources>>
    BY <1>5 DEF Answer
  <2>6. /\ attempt' = [attempt EXCEPT ![c] = attempt[c]]
        /\ slept' = [slept EXCEPT ![c] = slept[c]]
        /\ limited' = [limited EXCEPT ![c] = limited[c]]
        /\ sources' \in Seq(Refs)
    BY <1>1, <1>2, <2>5
  <2> HIDE DEF f
  <2> QED
    BY <1>1, <2>3, <2>4, <2>5, <2>6, CallStep
<1>6. CASE c = 0 /\ Write
  <2> DEFINE refs == [i \in DOMAIN findings |-> findings[i].ref]
  <2>1. refs \in Seq(Refs)
    <3>1. DOMAIN findings = 1..Len(findings) /\ Len(findings) \in Nat
      BY <1>1
    <3>2. \A i \in DOMAIN findings : findings[i] \in Findings
      BY <1>1
    <3>3. \A i \in DOMAIN findings : findings[i].ref \in Refs
      BY <3>2 DEF Findings
    <3> QED
      BY <3>1, <3>3
  <2>2. sources' \in Seq(Refs)
    BY <1>6, <2>1, DistinctSources DEF Write
  <2>3. /\ pc[c] = "asking" /\ pc' = [pc EXCEPT ![c] = "answered"]
        /\ UNCHANGED <<first, attempt, limited, slept, answer, findings>>
    BY <1>6 DEF Write
  <2>4. /\ attempt' = [attempt EXCEPT ![c] = attempt[c]]
        /\ slept' = [slept EXCEPT ![c] = slept[c]]
        /\ limited' = [limited EXCEPT ![c] = limited[c]]
        /\ answer' = [answer EXCEPT ![c] = answer[c]]
    BY <1>2, <2>3
  <2> DEFINE f == answer[c]
             a == attempt[c]
             l == limited[c]
             s == slept[c]
  <2>5. /\ attempt' = [attempt EXCEPT ![c] = a] /\ slept' = [slept EXCEPT ![c] = s]
        /\ limited' = [limited EXCEPT ![c] = l] /\ answer' = [answer EXCEPT ![c] = f]
        /\ a \in 1..MaxRetries /\ l \in 0..a /\ s \in Nat /\ f = answer[c] /\ c = 0
    BY <1>1, <1>6, <2>4
  <2> HIDE DEF f, a, l, s
  <2> QED
    BY <2>2, <2>3, <2>5, CallStep
<1> QED
  BY <1>3, <1>4, <1>5, <1>6 DEF Step

(* Ends of batches and the steps of calls keep the invariant.              *)
LEMMA NextInv == Inv /\ [Next]_vars => Inv'
<1> SUFFICES ASSUME Inv, [Next]_vars PROVE Inv'
  OBVIOUS
<1>1. CASE UNCHANGED vars
  <2>1. TypeOK' /\ (\A c \in Calls : InCall(c)') /\ BatchByBatch'
    BY <1>1 DEF vars, Inv, TypeOK, InCall, BatchByBatch
  <2> QED
    BY <1>1, <2>1 DEF vars, Inv
<1> QED
  BY <1>1, EndBatchStep, StepKeepsInv DEF Next

(* The invariant: types, what is known of a call at each place, and that   *)
(* the calls go batch by batch.                                            *)
LEMMA Invariant == Spec => []Inv
  BY InitInv, NextInv, PTL DEF Spec

(* Every reachable state is well typed: no call makes more attempts than   *)
(* max_retries, and every finding is one the model gave for a paper.       *)
THEOREM TypeCorrect == Spec => []TypeOK
<1>1. Inv => TypeOK
  BY DEF Inv
<1> QED
  BY <1>1, Invariant, PTL

-----------------------------------------------------------------------------
(* The findings.                                                           *)

(* A call of a batch that has ended makes no step.                         *)
LEMMA JudgedPapersStay ==
  ASSUME Inv, NEW c \in Calls, Step(c) \/ WakeUp(c)
  PROVE  /\ UNCHANGED <<first, findings>>
         /\ \A p \in Papers : p < first =>
              pc'[p] = pc[p] /\ answer'[p] = answer[p] /\ attempt'[p] = attempt[p]
<1>1. pc[c] \in {"asking", "sleeping"} /\ (c = 0 \/ c \in Papers)
  BY DEF Step, WakeUp, Fail, Answer, Write, Calls
<1>2. \A p \in Papers : p < first => p # c
  BY <1>1 DEF Inv, BatchByBatch
<1>3. /\ pc \in [Calls -> {"idle", "asking", "sleeping", "answered", "failed"}]
      /\ attempt \in [Calls -> 1..MaxRetries]
      /\ answer \in [Calls -> Findings \union {None}]
  BY DEF Inv, TypeOK
<1>4. Write => \A p \in Papers : p < first => pc'[p] = pc[p]
  BY <1>3, CallsOf DEF Write
<1> QED
  BY <1>2, <1>3, <1>4, CallsOf DEF Step, WakeUp, Fail, Answer, Write

(* FindingsInOrder as its parts.                                           *)
FindingsRight ==
  /\ \A i \in DOMAIN findings : findings[i] = answer[findings[i].paper]
  /\ \A i, j \in DOMAIN findings : i < j => findings[i].paper < findings[j].paper
  /\ \A i \in DOMAIN findings :
       /\ findings[i].paper \in Papers /\ findings[i].paper < first
       /\ Kept(findings[i].paper)
  /\ \A p \in Papers :
       p < first /\ Kept(p) => \E i \in DOMAIN findings : findings[i].paper = p
  /\ \A p \in Papers : p < first => Kept(p) \/ pc[p] = "answered" \/ attempt[p] = MaxRetries

(* FindingsInOrder, with its parts named.                                  *)
LEMMA FindingsInOrderIs == FindingsInOrder <=> FindingsRight
<1> DEFINE kept == {p \in {p \in Papers : p < first} : Kept(p)}
           given == {findings[i].paper : i \in DOMAIN findings}
<1>1. given = kept <=>
        /\ \A i \in DOMAIN findings :
             /\ findings[i].paper \in Papers /\ findings[i].paper < first
             /\ Kept(findings[i].paper)
        /\ \A p \in Papers :
             p < first /\ Kept(p) => \E i \in DOMAIN findings : findings[i].paper = p
  <2>1. \A p : p \in kept <=> p \in Papers /\ p < first /\ Kept(p)
    OBVIOUS
  <2>2. \A p : p \in given <=> \E i \in DOMAIN findings : findings[i].paper = p
    OBVIOUS
  <2> HIDE DEF kept, given
  <2> QED
    BY <2>1, <2>2
<1> QED
  BY <1>1 DEF FindingsInOrder, FindingsRight

(* A batch adds the findings of its papers after those of earlier ones.    *)
LEMMA EndBatchInOrder ==
  ASSUME Inv, FindingsRight, EndBatch
  PROVE  FindingsRight'
<1> DEFINE q == FindingsOf(Batch(first))
<1>1. /\ Batch(first) \in SUBSET Papers /\ first \in Nat /\ first <= NumPapers
      /\ first' = first + BatchSize /\ findings' = findings \o q
      /\ UNCHANGED <<attempt, answer>> /\ findings \in Seq(Findings)
      /\ \A p \in Batch(first) : pc[p] \in {"answered", "failed"}
      /\ pc \in [Calls -> {"idle", "asking", "sleeping", "answered", "failed"}]
  BY CallsOf DEF EndBatch, Batch, Inv, TypeOK
<1>2. /\ q \in Seq(Findings)
      /\ \A i \in DOMAIN q : /\ q[i].paper \in Batch(first) /\ Kept(q[i].paper)
                             /\ q[i] = answer[q[i].paper]
      /\ \A p \in Batch(first) : Kept(p) => \E i \in DOMAIN q : q[i].paper = p
      /\ \A i, j \in DOMAIN q : i < j => q[i].paper < q[j].paper
  BY <1>1, FindingsOfBatch
<1> HIDE DEF q
<1>3. /\ \A p \in Papers : p < first' <=> p < first \/ p \in Batch(first)
      /\ \A p \in Batch(first) : first <= p
  BY <1>1, CallsOf DEF Batch
<1>4. \A p \in Papers : p < first' => pc'[p] = pc[p]
  <2>1. \A p \in Papers : p < first' => p \notin Started(first + BatchSize)
    BY <1>1, CallsOf DEF Started, Batch
  <2> QED
    BY <1>1, <2>1, CallsOf DEF EndBatch
<1>5. \A p \in Papers : p < first' => (Kept(p)' <=> Kept(p))
  BY <1>1, <1>4 DEF Kept
<1>6. /\ \A i \in DOMAIN findings : i \in DOMAIN findings' /\ findings'[i] = findings[i]
      /\ \A i \in DOMAIN q : /\ i + Len(findings) \in DOMAIN findings'
                             /\ findings'[i + Len(findings)] = q[i]
      /\ \A i \in DOMAIN findings' : i \in DOMAIN findings \/ i - Len(findings) \in DOMAIN q
      /\ DOMAIN findings = 1..Len(findings) /\ Len(findings) \in Nat
      /\ DOMAIN q = 1..Len(q) /\ Len(q) \in Nat
      /\ DOMAIN findings' = 1..(Len(findings) + Len(q))
  BY <1>1, <1>2
<1>7. ASSUME NEW i \in DOMAIN findings'
      PROVE  \/ i \in DOMAIN findings /\ findings'[i] = findings[i]
             \/ \E m \in DOMAIN q : i = m + Len(findings) /\ findings'[i] = q[m]
  <2>1. CASE i \in DOMAIN findings
    BY <1>6, <2>1
  <2>2. CASE i - Len(findings) \in DOMAIN q
    <3>1. i = (i - Len(findings)) + Len(findings)
      BY <1>6
    <3> QED
      BY <1>6, <2>2, <3>1
  <2> QED
    BY <1>6, <2>1, <2>2
<1>8. (\A i \in DOMAIN findings :
         /\ findings[i] = answer[findings[i].paper]
         /\ findings[i].paper \in Papers /\ findings[i].paper < first
         /\ Kept(findings[i].paper))'
  <2> SUFFICES ASSUME NEW i \in DOMAIN findings'
               PROVE  (/\ findings[i] = answer[findings[i].paper]
                       /\ findings[i].paper \in Papers /\ findings[i].paper < first
                       /\ Kept(findings[i].paper))'
    OBVIOUS
  <2> DEFINE p == findings'[i].paper
  <2>1. findings'[i] = answer[p] /\ p \in Papers /\ p < first' /\ Kept(p)
    <3>1. CASE i \in DOMAIN findings /\ findings'[i] = findings[i]
      BY <1>3, <3>1 DEF FindingsRight
    <3>2. ASSUME NEW m \in DOMAIN q, findings'[i] = q[m]
          PROVE  findings'[i] = answer[p] /\ p \in Papers /\ p < first' /\ Kept(p)
      BY <1>1, <1>2, <1>3, <3>2
    <3> QED
      BY <1>7, <3>1, <3>2
  <2>2. PICK r : r = p
    OBVIOUS
  <2>3. r \in Papers /\ r < first' /\ Kept(r)'
    BY <1>5, <2>1, <2>2
  <2>4. pc'[r] = "answered" /\ answer'[r].relevance >= MinRelevance
    BY <2>3 DEF Kept
  <2>5. Kept(findings[i].paper)'
    BY <2>2, <2>4 DEF Kept
  <2> QED
    BY <1>1, <2>1, <2>5
<1>9. ASSUME NEW i \in DOMAIN findings', NEW j \in DOMAIN findings', i < j
      PROVE  findings'[i].paper < findings'[j].paper
  <2>1. CASE i \in DOMAIN findings /\ j \in DOMAIN findings
    BY <1>6, <1>9, <2>1 DEF FindingsRight
  <2>2. ASSUME i \in DOMAIN findings, NEW m \in DOMAIN q, findings'[j] = q[m]
        PROVE  findings'[i].paper < findings'[j].paper
    <3>1. findings'[i].paper \in Papers /\ findings'[i].paper < first
      BY <1>6, <2>2 DEF FindingsRight
    <3>2. findings'[j].paper \in Papers /\ first <= findings'[j].paper
      BY <1>1, <1>2, <1>3, <2>2
    <3>3. \A u, v \in Papers : u < first /\ first <= v => u < v
      BY <1>1, CallsOf
    <3> QED
      BY <3>1, <3>2, <3>3
  <2>3. ASSUME NEW l \in DOMAIN q, i = l + Len(findings), findings'[i] = q[l],
               NEW m \in DOMAIN q, j = m + Len(findings), findings'[j] = q[m]
        PROVE  findings'[i].paper < findings'[j].paper
    <3>1. l < m
      BY <1>6, <1>9, <2>3
    <3> QED
      BY <1>2, <2>3, <3>1
  <2>4. i \in DOMAIN findings \/ j \notin DOMAIN findings
    BY <1>6, <1>9
  <2> QED
    BY <1>7, <2>1, <2>2, <2>3, <2>4
<1>10. ASSUME NEW p \in Papers, p < first', Kept(p)'
       PROVE  \E i \in DOMAIN findings' : findings'[i].paper = p
  <2>1. Kept(p)
    BY <1>5, <1>10
  <2>2. CASE p < first
    <3>1. PICK i \in DOMAIN findings : findings[i].paper = p
      BY <2>1, <2>2 DEF FindingsRight
    <3> QED
      BY <1>6, <3>1
  <2>3. CASE p \in Batch(first)
    <3>1. PICK i \in DOMAIN q : q[i].paper = p
      BY <1>2, <2>1, <2>3
    <3> QED
      BY <1>6, <3>1
  <2> QED
    BY <1>3, <1>10, <2>2, <2>3
<1>11. \A p \in Papers : p < first' => pc'[p] = "answered" \/ attempt'[p] = MaxRetries
  <2>1. \A p \in Papers : p < first' => pc[p] \in {"answered", "failed"}
    BY <1>1, <1>3 DEF Inv, BatchByBatch
  <2>2. \A p \in Papers : pc[p] = "failed" => attempt[p] = MaxRetries
    BY CallsOf DEF Inv, InCall
  <2> QED
    BY <1>1, <1>4, <2>1, <2>2
<1> QED
  BY <1>8, <1>9, <1>10, <1>11 DEF FindingsRight

(* The findings are those of the papers judged relevant, in their order,   *)
(* whichever calls of a batch come first and whichever fail.               *)
THEOREM FindingsStayInOrder == Spec => []FindingsInOrder
<1>1. Init => FindingsRight
  BY CallsOf DEF Init, FindingsRight
<1>2. Inv /\ FindingsRight /\ [Next]_vars => FindingsRight'
  <2>1. CASE UNCHANGED vars
    BY <2>1 DEF vars, FindingsRight, Kept
  <2>2. ASSUME Inv, FindingsRight, NEW c \in Calls, Step(c) \/ WakeUp(c)
        PROVE  FindingsRight'
    <3>1. /\ UNCHANGED <<first, findings>>
          /\ \A p \in Papers : p < first =>
               pc'[p] = pc[p] /\ answer'[p] = answer[p] /\ attempt'[p] = attempt[p]
      BY <2>2, JudgedPapersStay
    <3>2. \A p \in Papers : p < first => (Kept(p)' <=> Kept(p))
      BY <3>1 DEF Kept
    <3>3. ASSUME NEW i \in DOMAIN findings
          PROVE  (/\ findings[i] = answer[findings[i].paper]
                  /\ findings[i].paper \in Papers /\ findings[i].paper < first
                  /\ Kept(findings[i].paper))'
      <4> DEFINE p == findings[i].paper
      <4>1. p \in Papers /\ p < first /\ Kept(p) /\ findings[i] = answer[p]
        BY <2>2 DEF FindingsRight
      <4>2. p = findings'[i].paper /\ pc'[p] = pc[p] /\ answer'[p] = answer[p]
        BY <3>1, <4>1
      <4> QED
        BY <3>1, <4>1, <4>2 DEF Kept
    <3>4. \A i, j \in DOMAIN findings' : i < j => findings'[i].paper < findings'[j].paper
      BY <2>2, <3>1 DEF FindingsRight
    <3>5. \A p \in Papers : p < first' /\ Kept(p)' =>
            \E i \in DOMAIN findings' : findings'[i].paper = p
      BY <2>2, <3>1, <3>2 DEF FindingsRight
    <3>6. \A p \in Papers : p < first' =>
            Kept(p)' \/ pc'[p] = "answered" \/ attempt'[p] = MaxRetries
      BY <2>2, <3>1, <3>2 DEF FindingsRight
    <3> QED
      BY <3>1, <3>3, <3>4, <3>5, <3>6 DEF FindingsRight
  <2> QED
    BY <2>1, <2>2, EndBatchInOrder DEF Next
<1>3. Spec => []FindingsRight
  BY <1>1, <1>2, Invariant, PTL DEF Spec
<1> QED
  BY <1>3, FindingsInOrderIs, PTL

-----------------------------------------------------------------------------
(* The backoff.                                                            *)

(* What a call has slept at each place: SleepAddsUp, call by call.         *)
Sleeps(place, a) == IF place = "sleeping" THEN a ELSE a - 1

Hits(place, l) == IF place = "failed" THEN l - 1 ELSE l

SleptRight(place, a, l, s) ==
  /\ s >= BaseDelay * (2^Sleeps(place, a) - 1)
  /\ s >= Hits(place, l) * LimitDelay
  /\ s <= BaseDelay * (2^Sleeps(place, a) - 1) + l * LimitDelay

AllSleptRight == \A c \in Calls : SleptRight(pc[c], attempt[c], limited[c], slept[c])

(* SleepAddsUp, with its parts named.                                      *)
LEMMA SleepAddsUpIs == SleepAddsUp <=> AllSleptRight
  BY DEF SleepAddsUp, AllSleptRight, SleptRight, Sleeps, Hits

(* A factor more or less.                                                  *)
LEMMA TimesType ==
  ASSUME NEW m \in Int, NEW n \in Int
  PROVE  m * n \in Int
  OBVIOUS

(* What one more rate limit adds.                                          *)
LEMMA OnceMore ==
  ASSUME NEW n \in Nat, NEW d \in Nat
  PROVE  /\ n * d \in Nat /\ (n + 1) * d = n * d + d /\ (n - 1) * d = n * d - d
         /\ 0 * d = 0
  OBVIOUS

(* The powers of two of a backoff.                                         *)
LEMMA Series ==
  ASSUME NEW a \in Nat \ {0}
  PROVE  /\ BaseDelay * 2^(a - 1) \in Nat
         /\ BaseDelay * (2^(a - 1) - 1) \in Int
         /\ BaseDelay * (2^a - 1) = BaseDelay * (2^(a - 1) - 1) + BaseDelay * 2^(a - 1)
<1> DEFINE p == 2^(a - 1)
<1>1. a - 1 \in Nat /\ (a - 1) + 1 = a /\ BaseDelay \in Nat
  BY DelaysAssumption
<1>2. p \in Nat /\ 2^a = 2 * p
  BY <1>1, PowerOfTwo
<1> HIDE DEF p
<1>3. BaseDelay * (2 * p - 1) = BaseDelay * (p - 1) + BaseDelay * p
  BY <1>1, <1>2
<1>4. BaseDelay * p \in Nat /\ BaseDelay * (p - 1) \in Int
  BY <1>1, <1>2
<1> QED
  BY <1>2, <1>3, <1>4 DEF p

(* An attempt that fails and is not the last adds its delay.               *)
LEMMA SleepsOnceMore ==
  ASSUME NEW a \in Nat \ {0}, NEW l \in Nat, NEW s \in Nat, NEW limit \in BOOLEAN,
         SleptRight("asking", a, l, s)
  PROVE  SleptRight("sleeping", a, IF limit THEN l + 1 ELSE l, s + Delay(a, limit))
<1> DEFINE d == BaseDelay * 2^(a - 1)
           old == BaseDelay * (2^(a - 1) - 1)
           new == BaseDelay * (2^a - 1)
           hits == l * LimitDelay
           more == (l + 1) * LimitDelay
           delay == Delay(a, limit)
<1>1. /\ d \in Nat /\ old \in Int /\ new = old + d /\ LimitDelay \in Nat
      /\ hits \in Nat /\ more = hits + LimitDelay
  BY DelaysAssumption, Series, OnceMore
<1>2. s >= old /\ s >= hits /\ s <= old + hits
  BY DEF SleptRight, Sleeps, Hits
<1>3. delay = IF limit /\ d < LimitDelay THEN LimitDelay ELSE d
  BY DEF Delay
<1>4. /\ SleptRight("sleeping", a, l, s + delay) <=>
           s + delay >= new /\ s + delay >= hits /\ s + delay <= new + hits
      /\ SleptRight("sleeping", a, l + 1, s + delay) <=>
           s + delay >= new /\ s + delay >= more /\ s + delay <= new + more
  BY DEF SleptRight, Sleeps, Hits
<1> HIDE DEF d, old, new, hits, more, delay
<1>5. CASE limit
  BY <1>1, <1>2, <1>3, <1>4, <1>5 DEF delay
<1>6. CASE ~limit
  BY <1>1, <1>2, <1>3, <1>4, <1>6 DEF delay
<1> QED
  BY <1>5, <1>6

(* The last attempt fails, and nobody sleeps.                              *)
LEMMA SleepsNoMore ==
  ASSUME NEW a \in Nat \ {0}, NEW l \in Nat, NEW s \in Nat, NEW limit \in BOOLEAN,
         SleptRight("asking", a, l, s)
  PROVE  SleptRight("failed", a, IF limit THEN l + 1 ELSE l, s)
<1> DEFINE old == BaseDelay * (2^(a - 1) - 1)
           hits == l * LimitDelay
           more == (l + 1) * LimitDelay
           less == (l - 1) * LimitDelay
<1>1. /\ old \in Int /\ LimitDelay \in Nat
      /\ hits \in Nat /\ more = hits + LimitDelay /\ less = hits - LimitDelay
      /\ (l + 1) - 1 = l
  BY DelaysAssumption, Series, OnceMore
<1>2. s >= old /\ s >= hits /\ s <= old + hits
  BY DEF SleptRight, Sleeps, Hits
<1>3. /\ SleptRight("failed", a, l, s) <=> s >= old /\ s >= less /\ s <= old + hits
      /\ SleptRight("failed", a, l + 1, s) <=> s >= old /\ s >= hits /\ s <= old + more
  BY <1>1 DEF SleptRight, Sleeps, Hits
<1> HIDE DEF old, hits, more, less
<1> QED
  BY <1>1, <1>2, <1>3

(* A call that goes on has slept what its attempts ask for.                *)
LEMMA StepSleepsRight ==
  ASSUME Inv, AllSleptRight, NEW c \in Calls, Step(c) \/ WakeUp(c)
  PROVE  AllSleptRight'
<1>1. /\ pc \in [Calls -> {"idle", "asking", "sleeping", "answered", "failed"}]
      /\ attempt \in [Calls -> 1..MaxRetries] /\ limited \in [Calls -> Nat]
      /\ slept \in [Calls -> Nat]
      /\ attempt[c] \in Nat \ {0} /\ limited[c] \in Nat /\ slept[c] \in Nat
  BY CallsOf DEF Inv, TypeOK
<1>2. SleptRight(pc[c], attempt[c], limited[c], slept[c])
  BY DEF AllSleptRight
<1>3. \A d \in Calls : d # c =>
        pc'[d] = pc[d] /\ attempt'[d] = attempt[d] /\ limited'[d] = limited[d]
        /\ slept'[d] = slept[d]
  BY <1>1 DEF Step, WakeUp, Fail, Answer, Write
<1>4. SleptRight(pc'[c], attempt'[c], limited'[c], slept'[c])
  <2>1. ASSUME NEW limit \in BOOLEAN, Fail(c, limit)
        PROVE  SleptRight(pc'[c], attempt'[c], limited'[c], slept'[c])
    <3> DEFINE l == IF limit THEN limited[c] + 1 ELSE limited[c]
    <3>1. pc[c] = "asking" /\ attempt'[c] = attempt[c] /\ limited'[c] = l
      BY <1>1, <2>1 DEF Fail
    <3>2. \/ pc'[c] = "failed" /\ slept'[c] = slept[c]
          \/ pc'[c] = "sleeping" /\ slept'[c] = slept[c] + Delay(attempt[c], limit)
      BY <1>1, <2>1 DEF Fail
    <3>3. /\ SleptRight("failed", attempt[c], l, slept[c])
          /\ SleptRight("sleeping", attempt[c], l, slept[c] + Delay(attempt[c], limit))
      BY <1>1, <1>2, <3>1, SleepsOnceMore, SleepsNoMore
    <3> HIDE DEF l
    <3> QED
      BY <3>1, <3>2, <3>3
  <2>2. CASE WakeUp(c)
    <3>1. /\ pc[c] = "sleeping" /\ pc'[c] = "asking" /\ attempt'[c] = attempt[c] + 1
          /\ limited'[c] = limited[c] /\ slept'[c] = slept[c]
          /\ (attempt[c] + 1) - 1 = attempt[c]
      BY <1>1, <2>2 DEF WakeUp
    <3> QED
      BY <1>2, <3>1 DEF SleptRight, Sleeps, Hits
  <2>3. CASE (c = 0 /\ Write) \/ (\E r \in Relevances, ref \in Refs : Answer(c, r, ref))
    <3>1. UNCHANGED <<attempt, limited, slept>> /\ pc[c] = "asking"
      BY <2>3 DEF Write, Answer
    <3>2. pc'[c] = "answered"
      <4>1. CASE c = 0 /\ Write
        BY <1>1, <4>1 DEF Write
      <4>2. CASE \E r \in Relevances, ref \in Refs : Answer(c, r, ref)
        BY <1>1, <4>2 DEF Answer
      <4> QED
        BY <2>3, <4>1, <4>2
    <3> QED
      BY <1>2, <3>1, <3>2 DEF SleptRight, Sleeps, Hits
  <2> QED
    BY <2>1, <2>2, <2>3 DEF Step
<1> QED
  BY <1>3, <1>4 DEF AllSleptRight

(* However its attempts fail, a call sleeps the series of the backoff, and *)
(* more only for the rate limits it has hit.                               *)
THEOREM SleepsAddUp == Spec => []SleepAddsUp
<1>1. Init => AllSleptRight
  <2>1. SleptRight("idle", 1, 0, 0) /\ SleptRight("asking", 1, 0, 0)
    <3>1. 1 - 1 = 0 /\ 2^0 = 1 /\ BaseDelay * (1 - 1) = 0 /\ 0 * LimitDelay = 0
      BY DelaysAssumption, PowerOfTwo
    <3> QED
      BY <3>1 DEF SleptRight, Sleeps, Hits
  <2> QED
    BY <2>1 DEF Init, AllSleptRight
<1>2. Inv /\ AllSleptRight /\ [Next]_vars => AllSleptRight'
  <2>1. CASE UNCHANGED vars
    BY <2>1 DEF vars, AllSleptRight
  <2>2. ASSUME Inv, AllSleptRight, EndBatch PROVE AllSleptRight'
    <3>1. UNCHANGED <<attempt, limited, slept>>
      BY <2>2 DEF EndBatch
    <3>2. \A c \in Calls : pc'[c] = pc[c] \/ (pc[c] = "idle" /\ pc'[c] = "asking")
      BY <2>2, CallsOf DEF EndBatch, Started, Batch, Inv, BatchByBatch
    <3>3. \A a, l, s : SleptRight("idle", a, l, s) <=> SleptRight("asking", a, l, s)
      BY DEF SleptRight, Sleeps, Hits
    <3> QED
      BY <2>2, <3>1, <3>2, <3>3 DEF AllSleptRight
  <2> QED
    BY <2>1, <2>2, StepSleepsRight DEF Next
<1>3. Spec => []AllSleptRight
  BY <1>1, <1>2, Invariant, PTL DEF Spec
<1> QED
  BY <1>3, SleepAddsUpIs, PTL

-----------------------------------------------------------------------------
(* The report.                                                             *)

(* The key of a source is its title and ids, which determine how it is     *)
(* cited if it has an id.                                                  *)
LEMMA SourceKeyIs ==
  ASSUME NEW r, NEW s
  PROVE  /\ SourceKey(r) = SourceKey(s) <=> SameReference(r, s)
         /\ SameReference(r, s) /\ (HasId(r.doi) \/ HasId(r.arxiv)) => Citation(s) = Citation(r)
  BY DEF SourceKey, SameReference, Citation

(* The report lists the references of the findings.                        *)
LEMMA WriteBacksReport ==
  ASSUME Inv, Write
  PROVE  ReportIsBacked'
<1> DEFINE refs == [i \in DOMAIN findings |-> findings[i].ref]
           d == Distinct(refs)
<1>1. refs \in Seq(Refs) /\ DOMAIN refs = DOMAIN findings
  <2>1. /\ DOMAIN findings = 1..Len(findings) /\ Len(findings) \in Nat
        /\ \A i \in DOMAIN findings : findings[i] \in Findings
    BY DEF Inv, TypeOK
  <2>2. \A i \in DOMAIN findings : findings[i].ref \in Refs
    BY <2>1 DEF Findings
  <2> QED
    BY <2>1, <2>2
<1>2. \A i \in DOMAIN findings : refs[i] = findings[i].ref
  OBVIOUS
<1>3. findings' = findings /\ sources' = d
  BY DEF Write
<1> HIDE DEF refs
<1>4. /\ \A j \in DOMAIN d : \E i \in DOMAIN refs : d[j] = refs[i]
      /\ \A i \in DOMAIN refs : \E j \in DOMAIN d : SourceKey(d[j]) = SourceKey(refs[i])
      /\ \A i, j \in DOMAIN d : i # j => SourceKey(d[i]) # SourceKey(d[j])
  BY <1>1, DistinctSources
<1> HIDE DEF d
<1>5. \A j, k \in DOMAIN d : j # k => ~SameReference(d[j], d[k])
  BY <1>4, SourceKeyIs
<1>6. \A j \in DOMAIN d : \E i \in DOMAIN findings : findings[i].ref = d[j]
  <2> SUFFICES ASSUME NEW j \in DOMAIN d
               PROVE  \E i \in DOMAIN findings : findings[i].ref = d[j]
    OBVIOUS
  <2>1. PICK i \in DOMAIN refs : d[j] = refs[i]
    BY <1>4
  <2> QED
    BY <1>1, <1>2, <2>1
<1>7. ASSUME NEW i \in DOMAIN findings
      PROVE  \E j \in DOMAIN d :
               LET ref == findings[i].ref IN
               /\ SameReference(ref, d[j])
               /\ HasId(ref.doi) \/ HasId(ref.arxiv) => Citation(d[j]) = Citation(ref)
  <2>1. PICK j \in DOMAIN d : SourceKey(d[j]) = SourceKey(findings[i].ref)
    BY <1>1, <1>2, <1>4
  <2> QED
    BY <2>1, SourceKeyIs
<1> QED
  BY <1>3, <1>5, <1>6, <1>7 DEF ReportIsBacked

(* The sources of a report are the references of its findings, with those  *)
(* of one title and the same ids listed once.                              *)
THEOREM ReportsAreBacked == Spec => []ReportIsBacked
<1>1. Init => ReportIsBacked
  BY CallsOf DEF Init, ReportIsBacked
<1>2. Inv /\ ReportIsBacked /\ [Next]_vars => ReportIsBacked'
  <2>1. CASE UNCHANGED vars
    BY <2>1 DEF vars, ReportIsBacked
  <2>2. ASSUME Inv, ReportIsBacked, EndBatch PROVE ReportIsBacked'
    <3>1. pc[0] = "idle" /\ pc'[0] # "answered"
      BY <2>2, CallsOf DEF EndBatch, Inv, BatchByBatch
    <3> QED
      BY <3>1 DEF ReportIsBacked
  <2>3. ASSUME Inv, ReportIsBacked, NEW c \in Calls, Step(c) \/ WakeUp(c), ~Write
        PROVE  ReportIsBacked'
    <3>1. UNCHANGED <<findings, sources>>
      BY <2>3 DEF Step, WakeUp, Fail, Answer
    <3>2. pc'[0] = "answered" => pc[0] = "answered"
      BY <2>3, CallsOf DEF Inv, TypeOK, Step, WakeUp, Fail, Answer
    <3> QED
      BY <2>3, <3>1, <3>2 DEF ReportIsBacked
  <2> QED
    BY <2>1, <2>2, <2>3, WriteBacksReport DEF Next
<1> QED
  BY <1>1, <1>2, Invariant, PTL DEF Spec
=============================================================================
