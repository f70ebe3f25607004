-------------------------- MODULE BenchmarkProofs ---------------------------
(***************************************************************************)
(* What a benchmark series guarantees for every set of command lines and   *)
(* every outcome of the runs: lemmas about flattened and folded sequences  *)
(* and about the summarizer first, then the invariant that ties the files, *)
(* the counters and the loop together; then lemmas about mapped sequences, *)
(* totals and the stable sort, and the second part of the invariant, that  *)
(* ties what the summarizer holds to the rows of the raw files.            *)
(***************************************************************************)
EXTENDS Benchmark, SequenceTheorems, FiniteSetTheorems, WellFoundedInduction, TLAPS

-----------------------------------------------------------------------------
(* Flattened sequences *)

\* Induction over the naturals, for a set instead of a predicate.
LEMMA AllOfNat ==
  ASSUME NEW T \in SUBSET Nat, 0 \in T, \A n \in T : n + 1 \in T
  PROVE  T = Nat
<1> SUFFICES ASSUME T # Nat PROVE FALSE
  OBVIOUS
<1>1. \E m \in Nat \ T : \A n \in Nat \ T : <<n, m>> \notin OpToRel(<, Nat)
  <2> DEFINE U == Nat \ T
  <2>1. U \subseteq Nat /\ U # {}
    OBVIOUS
  <2> HIDE DEF U
  <2> QED BY <2>1, NatLessThanWellFounded, WFMin DEF U
<1>2. PICK m \in Nat \ T : \A n \in Nat \ T : ~(n < m)
  BY <1>1 DEF OpToRel
<1>3. m # 0 /\ m - 1 \in Nat
  BY <1>2
<1>4. m - 1 \in T
  BY <1>2, <1>3
<1> QED BY <1>2, <1>3, <1>4

\* f is the flattening of the first n of seqs, at every length.
Flattens(f, seqs, n) ==
  f = [i \in 1 .. n |-> IF i = 1 THEN seqs[i] ELSE f[i - 1] \o seqs[i]]

LEMMA FlattensStep ==
  ASSUME NEW f, NEW seqs, NEW n \in Nat, Flattens(f, seqs, n), NEW i \in 1 .. n
  PROVE  f[i] = IF i = 1 THEN seqs[i] ELSE f[i - 1] \o seqs[i]
<1> DEFINE g == [j \in 1 .. n |-> IF j = 1 THEN seqs[j] ELSE f[j - 1] \o seqs[j]]
<1>1. f = g
  BY DEF Flattens
<1>2. g[i] = IF i = 1 THEN seqs[i] ELSE f[i - 1] \o seqs[i]
  OBVIOUS
<1> HIDE DEF g
<1> QED BY <1>1, <1>2

LEMMA FlattensExists ==
  ASSUME NEW seqs, NEW n \in Nat
  PROVE  \E f : Flattens(f, seqs, n)
<1> DEFINE T == {k \in Nat : \E f : Flattens(f, seqs, k)}
<1>1. 0 \in T
  <2>1. [i \in 1 .. 0 |-> seqs[1]]
          = [i \in 1 .. 0 |-> IF i = 1 THEN seqs[i]
                               ELSE [j \in 1 .. 0 |-> seqs[1]][i - 1] \o seqs[i]]
    OBVIOUS
  <2> QED BY <2>1 DEF Flattens
<1>2. ASSUME NEW k \in T PROVE k + 1 \in T
  <2>1. PICK f : Flattens(f, seqs, k)
    OBVIOUS
  <2> DEFINE g == [i \in 1 .. k + 1 |-> IF i = k + 1
                     THEN IF i = 1 THEN seqs[i] ELSE f[k] \o seqs[i]
                     ELSE f[i]]
  <2>2. ASSUME NEW i \in 1 .. k + 1
        PROVE  g[i] = IF i = 1 THEN seqs[i] ELSE g[i - 1] \o seqs[i]
    <3>1. CASE i = k + 1
      BY <3>1
    <3>2. CASE i # k + 1
      <4>1. i \in 1 .. k /\ (i # 1 => i - 1 \in 1 .. k /\ i - 1 # k + 1)
        BY <3>2
      <4>2. f[i] = IF i = 1 THEN seqs[i] ELSE f[i - 1] \o seqs[i]
        BY <2>1, <4>1, FlattensStep
      <4> QED BY <3>2, <4>1, <4>2
    <3> QED BY <3>1, <3>2
  <2>3. g = [i \in 1 .. k + 1 |-> IF i = 1 THEN seqs[i] ELSE g[i - 1] \o seqs[i]]
    <3> DEFINE h == [i \in 1 .. k + 1 |-> IF i = 1 THEN seqs[i] ELSE g[i - 1] \o seqs[i]]
    <3>1. DOMAIN g = 1 .. k + 1 /\ DOMAIN h = 1 .. k + 1
      OBVIOUS
    <3>2. \A i \in 1 .. k + 1 : g[i] = h[i]
      BY <2>2
    <3>3. g = [i \in 1 .. k + 1 |-> g[i]] /\ h = [i \in 1 .. k + 1 |-> h[i]]
      OBVIOUS
    <3> HIDE DEF g, h
    <3>4. g = h
      BY <3>2, <3>3
    <3> QED BY <3>4 DEF h
  <2>4. \E gg : Flattens(gg, seqs, k + 1)
    BY <2>3 DEF Flattens
  <2> QED BY <2>4
<1>3. T = Nat
  <2> HIDE DEF T
  <2>1. T \subseteq Nat
    BY DEF T
  <2> QED BY <1>1, <1>2, <2>1, AllOfNat
<1> QED BY <1>3

LEMMA FlattensUnique ==
  ASSUME NEW seqs, NEW more, NEW n \in Nat, NEW m \in Nat, n <= m,
         \A i \in 1 .. n : more[i] = seqs[i],
         NEW f, Flattens(f, seqs, n), NEW g, Flattens(g, more, m)
  PROVE  \A i \in 1 .. n : g[i] = f[i]
<1> DEFINE T == {k \in Nat : k \in 1 .. n => g[k] = f[k]}
<1>1. 0 \in T
  OBVIOUS
<1>2. ASSUME NEW k \in T, k + 1 \in 1 .. n PROVE g[k + 1] = f[k + 1]
  <2>1. k + 1 \in 1 .. m /\ (k + 1 # 1 => k \in 1 .. n) /\ k + 1 - 1 = k
    BY <1>2
  <2>2. f[k + 1] = IF k + 1 = 1 THEN seqs[k + 1] ELSE f[k] \o seqs[k + 1]
    BY <1>2, <2>1, FlattensStep
  <2>3. g[k + 1] = IF k + 1 = 1 THEN more[k + 1] ELSE g[k] \o more[k + 1]
    BY <2>1, FlattensStep
  <2> QED BY <1>2, <2>1, <2>2, <2>3
<1>3. T = Nat
  <2>1. \A k \in T : k + 1 \in T
    BY <1>2
  <2>2. T \subseteq Nat
    OBVIOUS
  <2> HIDE DEF T
  <2> QED BY <1>1, <2>1, <2>2, AllOfNat
<1> QED BY <1>3

\* FlattenSeq is a flattening.
LEMMA FlattenIsLast ==
  ASSUME NEW seqs, NEW n \in Nat \ {0}, Len(seqs) = n, NEW f, Flattens(f, seqs, n)
  PROVE  FlattenSeq(seqs) = f[n]
<1> DEFINE g == CHOOSE h : h = [i \in 1 .. Len(seqs) |->
                     IF i = 1 THEN seqs[i] ELSE h[i - 1] \o seqs[i]]
<1>1. FlattenSeq(seqs) = g[Len(seqs)]
  BY DEF FlattenSeq
<1>2. Flattens(g, seqs, n)
  BY DEF Flattens
<1> HIDE DEF g
<1>3. g[n] = f[n]
  BY <1>2, FlattensUnique
<1> QED BY <1>1, <1>3

LEMMA FlattenEmpty == FlattenSeq(<<>>) = <<>>
BY DEF FlattenSeq

LEMMA FlattenTyped ==
  ASSUME NEW S, NEW seqs \in Seq(Seq(S))
  PROVE  FlattenSeq(seqs) \in Seq(S)
<1>1. CASE seqs = <<>>
  BY <1>1, FlattenEmpty, EmptySeq
<1>2. CASE seqs # <<>>
  <2> DEFINE n == Len(seqs)
  <2>1. n \in Nat \ {0}
    BY <1>2, EmptySeq
  <2>2. PICK f : Flattens(f, seqs, n)
    BY <2>1, FlattensExists
  <2> DEFINE T == {k \in Nat : k \in 1 .. n => f[k] \in Seq(S)}
  <2>3. \A k \in 1 .. n : seqs[k] \in Seq(S)
    BY ElementOfSeq
  <2> HIDE DEF n
  <2>4. ASSUME NEW k \in T, k + 1 \in 1 .. n PROVE f[k + 1] \in Seq(S)
    <3>1. (k + 1 # 1 => k \in 1 .. n) /\ k + 1 - 1 = k
      BY <2>1, <2>4
    <3>2. f[k + 1] = IF k + 1 = 1 THEN seqs[k + 1] ELSE f[k] \o seqs[k + 1]
      BY <2>1, <2>2, <2>4, <3>1, FlattensStep
    <3>3. seqs[k + 1] \in Seq(S)
      BY <2>3, <2>4
    <3>4. k + 1 # 1 => f[k] \in Seq(S)
      BY <2>4, <3>1
    <3>5. k + 1 # 1 => f[k] \o seqs[k + 1] \in Seq(S)
      BY <3>3, <3>4, ConcatProperties
    <3> QED BY <3>2, <3>3, <3>5
  <2>5. T = Nat
    <3>1. \A k \in T : k + 1 \in T
      BY <2>4
    <3>2. T \subseteq Nat /\ 0 \in T
      OBVIOUS
    <3> HIDE DEF T
    <3> QED BY <3>1, <3>2, AllOfNat
  <2>6. n \in 1 .. n
    BY <2>1
  <2>7. f[n] \in Seq(S)
    BY <2>5, <2>6
  <2> QED BY <2>1, <2>2, <2>7, FlattenIsLast DEF n
<1> QED BY <1>1, <1>2

\* One sequence more is flattened behind the others.
LEMMA FlattenOneMore ==
  ASSUME NEW seqs, NEW more, NEW n \in Nat, Len(seqs) = n, Len(more) = n + 1,
         \A i \in 1 .. n : more[i] = seqs[i]
  PROVE  FlattenSeq(more) = IF n = 0 THEN more[1] ELSE FlattenSeq(seqs) \o more[n + 1]
<1>1. PICK g : Flattens(g, more, n + 1)
  BY FlattensExists
<1>2. FlattenSeq(more) = g[n + 1]
  BY <1>1, FlattenIsLast
<1>3. g[n + 1] = IF n = 0 THEN more[1] ELSE g[n] \o more[n + 1]
  <2>1. n + 1 \in 1 .. n + 1 /\ (n + 1) - 1 = n /\ (n + 1 = 1 <=> n = 0) /\ n + 1 \in Nat
    OBVIOUS
  <2>2. g[n + 1] = IF n + 1 = 1 THEN more[n + 1] ELSE g[(n + 1) - 1] \o more[n + 1]
    BY <1>1, <2>1, FlattensStep
  <2> QED BY <2>1, <2>2
<1>4. ASSUME n # 0 PROVE FlattenSeq(seqs) = g[n]
  <2>1. PICK f : Flattens(f, seqs, n)
    BY FlattensExists
  <2>2. FlattenSeq(seqs) = f[n]
    BY <1>4, <2>1, FlattenIsLast
  <2>3. n <= n + 1 /\ n + 1 \in Nat /\ n \in 1 .. n
    BY <1>4
  <2>4. \A i \in 1 .. n : g[i] = f[i]
    BY <1>1, <2>1, <2>3, FlattensUnique
  <2> QED BY <2>2, <2>3, <2>4
<1> QED BY <1>2, <1>3, <1>4

LEMMA FlattenAppended ==
  ASSUME NEW S, NEW seqs \in Seq(Seq(S)), NEW more \in Seq(Seq(S)),
         Len(more) = Len(seqs) + 1, \A i \in 1 .. Len(seqs) : more[i] = seqs[i]
  PROVE  FlattenSeq(more) = FlattenSeq(seqs) \o more[Len(more)]
<1>1. Len(seqs) \in Nat /\ more[Len(seqs) + 1] \in Seq(S)
  BY LenProperties, ElementOfSeq
<1>2. FlattenSeq(more) = IF Len(seqs) = 0 THEN more[1]
                         ELSE FlattenSeq(seqs) \o more[Len(seqs) + 1]
  BY <1>1, FlattenOneMore
<1>3. CASE Len(seqs) = 0
  <2>1. FlattenSeq(seqs) = <<>>
    BY <1>3, FlattenEmpty, EmptySeq
  <2>2. <<>> \o more[1] = more[1]
    BY <1>1, <1>3, ConcatEmptySeq
  <2> QED BY <1>2, <1>3, <2>1, <2>2
<1> QED BY <1>2, <1>3

-----------------------------------------------------------------------------
(* Folds over a sequence, which take a set of positions from its maximum down *)

LEMMA MaxIsLast ==
  ASSUME NEW n \in Nat, NEW s \in SUBSET (1 .. n + 1), n + 1 \in s
  PROVE  Max(s) = n + 1
<1>1. \A x \in s : \A y \in s : x >= y /\ y >= x => x = y
  OBVIOUS
<1>2. \A y \in s : n + 1 >= y
  OBVIOUS
<1>3. \A x \in s : (\A y \in s : x >= y) => x = n + 1
  BY <1>1, <1>2
<1> QED BY <1>2, <1>3 DEF Max

LEMMA MaxOfInterval ==
  ASSUME NEW n \in Nat \ {0}
  PROVE  Max(1 .. n) = n /\ (1 .. n) \ {n} = 1 .. n - 1
<1>1. (n - 1) + 1 = n /\ n - 1 \in Nat /\ n \in 1 .. n
  OBVIOUS
<1>2. Max(1 .. n) = n
  <2>1. ASSUME NEW k \in Nat, k + 1 = n PROVE Max(1 .. k + 1) = k + 1
    BY MaxIsLast
  <2> QED BY <1>1, <2>1
<1> QED BY <1>2

\* f folds with step the positions in each subset of 1 .. n, from base.
FoldsUp(f, step, base, n) ==
  f = [s \in SUBSET (1 .. n) |->
         IF s = {} THEN base ELSE step[<<f[s \ {Max(s)}], Max(s)>>]]

LEMMA FoldExists ==
  ASSUME NEW T, NEW base \in T, NEW n \in Nat, NEW step \in [T \X (1 .. n) -> T]
  PROVE  \E f \in [SUBSET (1 .. n) -> T] :
           /\ FoldsUp(f, step, base, n)
           /\ \A s \in SUBSET (1 .. n) : s # {} => Max(s) \in s
<1> DEFINE P(f, k) == /\ f \in [SUBSET (1 .. k) -> T]
                      /\ \A s \in SUBSET (1 .. k) : s # {} => Max(s) \in s
                      /\ f[{}] = base
                      /\ \A s \in SUBSET (1 .. k) : s # {} =>
                           f[s] = step[<<f[s \ {Max(s)}], Max(s)>>]
           N == {k \in Nat : k <= n => \E f : P(f, k)}
<1>1. 0 \in N
  <2> DEFINE f == [s \in SUBSET (1 .. 0) |-> base]
  <2>1. 1 .. 0 = {}
    OBVIOUS
  <2>2. P(f, 0)
    BY <2>1
  <2> HIDE DEF P
  <2> QED BY <2>2
<1>2. ASSUME NEW k \in N PROVE k + 1 \in N
  <2> SUFFICES ASSUME k + 1 <= n PROVE \E g : P(g, k + 1)
    <3> HIDE DEF P
    <3> QED OBVIOUS
  <2>1. PICK f : P(f, k)
    <3>1. k <= n
      OBVIOUS
    <3> HIDE DEF P
    <3> QED BY <3>1
  <2> DEFINE g == [s \in SUBSET (1 .. k + 1) |->
                     IF k + 1 \in s THEN step[<<f[s \ {k + 1}], k + 1>>] ELSE f[s]]
  <2>2. /\ k \in Nat /\ k + 1 \in 1 .. n
        /\ SUBSET (1 .. k) \subseteq SUBSET (1 .. k + 1)
        /\ \A s \in SUBSET (1 .. k) : k + 1 \notin s
        /\ \A s \in SUBSET (1 .. k + 1) : s \ {k + 1} \in SUBSET (1 .. k)
        /\ \A s \in SUBSET (1 .. k + 1) : k + 1 \notin s => s \in SUBSET (1 .. k)
    OBVIOUS
  <2>3. \A s \in SUBSET (1 .. k + 1) : k + 1 \in s => Max(s) = k + 1
    BY <2>2, MaxIsLast
  <2>4. \A s \in SUBSET (1 .. k) : g[s] = f[s]
    BY <2>2
  <2>5. \A s \in SUBSET (1 .. k + 1) : g[s] \in T
    <3> SUFFICES ASSUME NEW s \in SUBSET (1 .. k + 1) PROVE g[s] \in T
      OBVIOUS
    <3>1. CASE k + 1 \in s
      <4>1. f[s \ {k + 1}] \in T
        BY <2>1, <2>2
      <4> QED BY <2>2, <3>1, <4>1
    <3>2. CASE k + 1 \notin s
      BY <2>1, <2>2, <3>2
    <3> QED BY <3>1, <3>2
  <2>6. \A s \in SUBSET (1 .. k + 1) : s # {} => Max(s) \in s
    BY <2>1, <2>2, <2>3
  <2>7. g[{}] = base
    <3>1. {} \in SUBSET (1 .. k)
      OBVIOUS
    <3> QED BY <2>1, <2>4, <3>1
  <2>8. ASSUME NEW s \in SUBSET (1 .. k + 1), s # {}
        PROVE  g[s] = step[<<g[s \ {Max(s)}], Max(s)>>]
    <3>1. CASE k + 1 \in s
      <4>1. Max(s) = k + 1 /\ s \ {k + 1} \in SUBSET (1 .. k)
        BY <2>2, <2>3, <3>1
      <4>2. g[s \ {k + 1}] = f[s \ {k + 1}]
        BY <2>4, <4>1
      <4>3. g[s] = step[<<f[s \ {k + 1}], k + 1>>]
        BY <3>1
      <4> QED BY <4>1, <4>2, <4>3
    <3>2. CASE k + 1 \notin s
      <4>1. s \in SUBSET (1 .. k) /\ s \ {Max(s)} \in SUBSET (1 .. k)
        BY <2>2, <3>2
      <4>2. g[s] = f[s] /\ g[s \ {Max(s)}] = f[s \ {Max(s)}]
        BY <2>4, <4>1
      <4>3. f[s] = step[<<f[s \ {Max(s)}], Max(s)>>]
        BY <2>1, <2>8, <4>1
      <4> QED BY <4>2, <4>3
    <3> QED BY <3>1, <3>2
  <2>9. g \in [SUBSET (1 .. k + 1) -> T]
    BY <2>5
  <2>10. P(g, k + 1)
    <3> HIDE DEF g
    <3> QED BY <2>6, <2>7, <2>8, <2>9
  <2> HIDE DEF P, g
  <2> QED BY <2>10
<1>3. N = Nat
  <2>1. N \subseteq Nat /\ \A k \in N : k + 1 \in N
    BY <1>2
  <2> HIDE DEF N
  <2> QED BY <1>1, <2>1, AllOfNat
<1>4. PICK f : P(f, n)
  <2>1. n \in N
    <3> HIDE DEF N
    <3> QED BY <1>3
  <2> HIDE DEF P
  <2> QED BY <2>1
<1>5. FoldsUp(f, step, base, n)
  <2> DEFINE g == [s \in SUBSET (1 .. n) |->
                     IF s = {} THEN base ELSE step[<<f[s \ {Max(s)}], Max(s)>>]]
  <2>1. \A s \in SUBSET (1 .. n) : f[s] = g[s]
    BY <1>4
  <2>2. f = [s \in SUBSET (1 .. n) |-> f[s]] /\ g = [s \in SUBSET (1 .. n) |-> g[s]]
    BY <1>4
  <2> HIDE DEF g
  <2>3. f = g
    BY <2>1, <2>2
  <2> QED BY <2>3 DEF FoldsUp, g
<1> QED BY <1>4, <1>5

-----------------------------------------------------------------------------
(* The summarizer *)

Summarizers(K, R) ==
  [order : Seq(K), samples : UNION {[D -> Seq(Nat)] : D \in SUBSET K}, runs : R]

KeyOf(n, n3, r) == [n |-> n, n3 |-> n3, role |-> r.actor.role, operation |-> r.phase]

\* The summarizer s with record number i of a run of (n, n3) added.
AddNth(s, n, n3, recs, i) == add_record(s, KeyOf(n, n3, recs[i]), recs[i].micros)

\* The summarizer s with a run of (n, n3) counted.
Counted(s, n, n3) ==
  [s EXCEPT !.runs = Put(@, <<n, n3>>, 1 + IF <<n, n3>> \in DOMAIN @ THEN @[<<n, n3>>] ELSE 0)]

LEMMA AddRecordTyped ==
  ASSUME NEW K, NEW R, NEW s \in Summarizers(K, R), NEW key \in K, NEW micros \in Nat
  PROVE  /\ add_record(s, key, micros) \in Summarizers(K, R)
         /\ add_record(s, key, micros).runs = s.runs
<1>1. PICK D \in SUBSET K : s.samples \in [D -> Seq(Nat)]
  BY DEF Summarizers
<1>2. s.order \in Seq(K) /\ s.runs \in R
  BY DEF Summarizers
<1>3. s = [order |-> s.order, samples |-> s.samples, runs |-> s.runs]
  BY DEF Summarizers
<1>4. CASE key \in DOMAIN s.samples
  <2> DEFINE samples == [s.samples EXCEPT ![key] = Append(@, micros)]
  <2>1. Append(s.samples[key], micros) \in Seq(Nat)
    BY <1>1, <1>4
  <2>2. samples \in [D -> Seq(Nat)]
    BY <1>1, <1>4, <2>1
  <2>3. add_record(s, key, micros) = [s EXCEPT !.samples = samples]
    BY <1>4 DEF add_record
  <2> HIDE DEF samples
  <2>4. [s EXCEPT !.samples = samples]
          = [order |-> s.order, samples |-> samples, runs |-> s.runs]
    BY <1>3
  <2> QED BY <1>1, <1>2, <2>2, <2>3, <2>4 DEF Summarizers
<1>5. CASE key \notin DOMAIN s.samples
  <2> DEFINE samples == Put(s.samples, key, <<micros>>)
             order == Append(s.order, key)
  <2>1. <<micros>> \in Seq(Nat)
    OBVIOUS
  <2>2. samples \in [D \cup {key} -> Seq(Nat)] /\ D \cup {key} \in SUBSET K
    BY <1>1, <2>1 DEF Put
  <2>3. order \in Seq(K)
    BY <1>2
  <2>4. add_record(s, key, micros) = [s EXCEPT !.order = order, !.samples = samples]
    BY <1>5 DEF add_record
  <2> DEFINE M == UNION {[E -> Seq(Nat)] : E \in SUBSET K}
  <2>5. samples \in M
    BY <2>2
  <2>6. s \in [order : Seq(K), samples : M, runs : R]
    BY DEF Summarizers
  <2> HIDE DEF samples, order, M
  <2>7. /\ [s EXCEPT !.order = order, !.samples = samples]
             \in [order : Seq(K), samples : M, runs : R]
        /\ [s EXCEPT !.order = order, !.samples = samples].runs = s.runs
    BY <2>3, <2>5, <2>6
  <2> QED BY <2>4, <2>7 DEF Summarizers, M
<1> QED BY <1>4, <1>5

\* add_run adds the records one after the other: its stages.
LEMMA AddRunStages ==
  ASSUME NEW K, NEW R, NEW s, NEW n, NEW n3, NEW len \in Nat, NEW recs,
         DOMAIN recs = 1 .. len,
         Counted(s, n, n3) \in Summarizers(K, R),
         \A i \in 1 .. len : KeyOf(n, n3, recs[i]) \in K /\ recs[i].micros \in Nat
  PROVE  \E f : /\ f \in [0 .. len -> Summarizers(K, R)]
                /\ f[0] = Counted(s, n, n3)
                /\ \A i \in 1 .. len : f[i] = AddNth(f[i - 1], n, n3, recs, i)
                /\ f[len] = add_run(s, n, n3, recs)
<1> DEFINE T == Summarizers(K, R)
           base == Counted(s, n, n3)
           step == [p \in T \X (1 .. len) |-> AddNth(p[1], n, n3, recs, p[2])]
           g == CHOOSE h : h = [u \in SUBSET (1 .. len) |->
                  IF u = {} THEN base ELSE AddNth(h[u \ {Max(u)}], n, n3, recs, Max(u))]
<1>1. \A a \in T, i \in 1 .. len : AddNth(a, n, n3, recs, i) \in T
  BY AddRecordTyped DEF AddNth
<1>2. add_run(s, n, n3, recs) = g[1 .. len]
  BY DEF add_run, FoldLeft, MapThenFoldSet, Counted, AddNth, KeyOf
<1>3. step \in [T \X (1 .. len) -> T]
  BY <1>1
<1>4. PICK h \in [SUBSET (1 .. len) -> T] :
        /\ FoldsUp(h, step, base, len)
        /\ \A u \in SUBSET (1 .. len) : u # {} => Max(u) \in u
  <2> HIDE DEF T, step, base
  <2>1. base \in T
    BY DEF T, base
  <2> QED BY <1>3, <2>1, FoldExists
<1>5. h = [u \in SUBSET (1 .. len) |->
             IF u = {} THEN base ELSE AddNth(h[u \ {Max(u)}], n, n3, recs, Max(u))]
  <2> DEFINE hh == [u \in SUBSET (1 .. len) |->
               IF u = {} THEN base ELSE AddNth(h[u \ {Max(u)}], n, n3, recs, Max(u))]
             hs == [u \in SUBSET (1 .. len) |->
               IF u = {} THEN base ELSE step[<<h[u \ {Max(u)}], Max(u)>>]]
  <2>1. ASSUME NEW u \in SUBSET (1 .. len), u # {}
        PROVE  step[<<h[u \ {Max(u)}], Max(u)>>] = AddNth(h[u \ {Max(u)}], n, n3, recs, Max(u))
    <3>1. h[u \ {Max(u)}] \in T /\ Max(u) \in 1 .. len
      BY <1>4, <2>1
    <3>2. \A a \in T, i \in 1 .. len : step[<<a, i>>] = AddNth(a, n, n3, recs, i)
      OBVIOUS
    <3> HIDE DEF step, T
    <3> QED BY <3>1, <3>2
  <2> HIDE DEF step, T, base
  <2>2. hh = hs
    BY <2>1, Zenon
  <2>3. h = hs
    BY <1>4 DEF FoldsUp
  <2> QED BY <2>2, <2>3
<1>6. g = [u \in SUBSET (1 .. len) |->
             IF u = {} THEN base ELSE AddNth(g[u \ {Max(u)}], n, n3, recs, Max(u))]
  <2> HIDE DEF base
  <2> QED BY <1>5
<1>7. /\ g[1 .. 0] = base
      /\ \A i \in 1 .. len : g[1 .. i] = AddNth(g[1 .. i - 1], n, n3, recs, i)
  <2> HIDE DEF g, base
  <2>1. \A u \in SUBSET (1 .. len) : g[u] = IF u = {} THEN base
          ELSE AddNth(g[u \ {Max(u)}], n, n3, recs, Max(u))
    BY <1>6
  <2>2. g[1 .. 0] = base
    <3>1. 1 .. 0 = {} /\ {} \in SUBSET (1 .. len)
      OBVIOUS
    <3> QED BY <2>1, <3>1
  <2>3. ASSUME NEW i \in 1 .. len
        PROVE  g[1 .. i] = AddNth(g[1 .. i - 1], n, n3, recs, i)
    <3>1. i \in Nat \ {0} /\ i \in 1 .. i /\ \A j \in 1 .. i : j \in 1 .. len
      OBVIOUS
    <3>2. Max(1 .. i) = i /\ (1 .. i) \ {i} = 1 .. i - 1
      BY <3>1, MaxOfInterval
    <3> QED BY <2>1, <3>1, <3>2
  <2> QED BY <2>2, <2>3
<1> DEFINE f == [i \in 0 .. len |-> g[1 .. i]]
<1>8. /\ f[0] = base
      /\ \A i \in 1 .. len : f[i] = AddNth(f[i - 1], n, n3, recs, i)
      /\ f[len] = add_run(s, n, n3, recs)
      /\ DOMAIN f = 0 .. len
  <2> HIDE DEF g, base
  <2>1. \A i \in 1 .. len : i \in 0 .. len /\ i - 1 \in 0 .. len
    OBVIOUS
  <2>2. 0 \in 0 .. len /\ len \in 0 .. len
    OBVIOUS
  <2> QED BY <1>2, <1>7, <2>1, <2>2
<1>9. \A i \in 0 .. len : f[i] \in T
  <2> DEFINE N == {i \in Nat : i <= len => f[i] \in T}
  <2> HIDE DEF f, g, T, base
  <2>1. base \in T
    BY DEF base, T
  <2>2. 0 \in N
    BY <1>8, <2>1
  <2>3. ASSUME NEW i \in N PROVE i + 1 \in N
    <3>1. i + 1 <= len => i <= len /\ i + 1 \in 1 .. len /\ (i + 1) - 1 = i
      OBVIOUS
    <3> QED BY <1>1, <1>8, <3>1
  <2>4. N = Nat
    <3>1. N \subseteq Nat
      OBVIOUS
    <3> HIDE DEF N
    <3> QED BY <2>2, <2>3, <3>1, AllOfNat
  <2> QED BY <2>4
<1> HIDE DEF f, g
<1>10. f \in [0 .. len -> Summarizers(K, R)]
  <2>1. f = [i \in 0 .. len |-> f[i]]
    BY DEF f
  <2> QED BY <1>9, <2>1
<1> QED BY <1>8, <1>10

\* The summary has a row per key, with the runs counted for its scenario.
LEMMA SummariesFacts ==
  ASSUME NEW K, NEW R, NEW s \in Summarizers(K, R)
  PROVE  /\ IsSequence(summaries(s))
         /\ \A i \in DOMAIN summaries(s) :
              summaries(s)[i].runs = s.runs[<<summaries(s)[i].key.n, summaries(s)[i].key.n3>>]
<1> DEFINE keys == SortedKeys(s.order)
           len == Len(s.order)
<1>1. DOMAIN s.order = 1 .. len /\ len \in Nat
  BY LenProperties DEF Summarizers
<1>2. DOMAIN keys = 1 .. len
  BY <1>1 DEF SortedKeys
<1>3. summaries(s) = [i \in 1 .. len |-> Row(s, keys[i])]
  <2> HIDE DEF keys, len
  <2> QED BY <1>2 DEF summaries, keys
<1> HIDE DEF keys, len
<1>4. \A i \in 1 .. len : summaries(s)[i] = Row(s, keys[i])
  BY <1>3
<1>5. IsSequence(summaries(s))
  <2>1. summaries(s) \in [1 .. len -> ToSet(summaries(s))]
    BY <1>3 DEF ToSet
  <2> QED BY <1>1, <2>1 DEF IsSequence
<1>6. \A key : Row(s, key).runs = s.runs[<<Row(s, key).key.n, Row(s, key).key.n3>>]
  BY DEF Row
<1> QED BY <1>3, <1>4, <1>5, <1>6

LEMMA NoSummaries == summaries(EmptySummarizer) = <<>>
<1>1. SortedKeys(<<>>) = <<>>
  BY DEF SortedKeys
<1> QED BY <1>1 DEF summaries, EmptySummarizer

-----------------------------------------------------------------------------
(* Parts of sequences *)

\* t begins with s: IsPrefix, element by element.
Begins(s, t) == Len(s) <= Len(t) /\ \A i \in 1 .. Len(s) : t[i] = s[i]

LEMMA BeginsIsPrefix ==
  ASSUME NEW S, NEW s \in Seq(S), NEW t \in Seq(S), Begins(s, t)
  PROVE  IsPrefix(s, t)
<1> DEFINE u == SubSeq(t, 1, Len(s))
<1>1. Len(s) \in Nat /\ Len(t) \in Nat /\ Len(s) <= Len(t)
  BY LenProperties DEF Begins
<1>2. \A i \in 1 .. Len(s) : t[i] \in S
  <2>1. \A i \in 1 .. Len(s) : i \in 1 .. Len(t)
    BY <1>1
  <2> QED BY <2>1, ElementOfSeq
<1>3. /\ u \in Seq(S)
      /\ Len(u) = IF 1 <= Len(s) THEN Len(s) - 1 + 1 ELSE 0
      /\ \A i \in 1 .. Len(s) - 1 + 1 : u[i] = t[1 + i - 1]
  BY <1>1, <1>2, SubSeqProperties
<1> HIDE DEF u
<1>4. Len(u) = Len(s) /\ \A i \in 1 .. Len(u) : u[i] = s[i]
  BY <1>1, <1>3 DEF Begins
<1>5. u = s
  BY <1>3, <1>4, SeqEqual
<1>6. SubSeq(s, 1, Len(s)) = s
  BY SubSeqFull
<1> QED BY <1>1, <1>5, <1>6 DEF IsPrefix, u

LEMMA ConcatParts ==
  ASSUME NEW S, NEW s \in Seq(S), NEW t \in Seq(S)
  PROVE  /\ Begins(s, s \o t)
         /\ SubSeq(s \o t, Len(s) + 1, Len(s \o t)) = t
<1>1. /\ s \o t \in Seq(S) /\ Len(s \o t) = Len(s) + Len(t)
      /\ Len(s) \in Nat /\ Len(t) \in Nat
      /\ \A i \in 1 .. Len(s) + Len(t) : (s \o t)[i] = IF i <= Len(s) THEN s[i]
                                                      ELSE t[i - Len(s)]
  BY ConcatProperties, LenProperties
<1>2. Begins(s, s \o t)
  <2>1. Len(s) <= Len(s) + Len(t) /\ \A i \in 1 .. Len(s) : i \in 1 .. Len(s) + Len(t)
    BY <1>1
  <2> QED BY <1>1, <2>1 DEF Begins
<1>3. SubSeq(s \o t, Len(s) + 1, Len(s) + Len(t)) = t
  <2> DEFINE w == SubSeq(s \o t, Len(s) + 1, Len(s) + Len(t))
  <2>1. \A i \in Len(s) + 1 .. Len(s) + Len(t) : (s \o t)[i] \in S
    <3>1. \A i \in Len(s) + 1 .. Len(s) + Len(t) : i \in 1 .. Len(s \o t)
      BY <1>1
    <3> QED BY <1>1, <3>1, ElementOfSeq
  <2>2. Len(s) + 1 \in Int /\ Len(s) + Len(t) \in Int
    BY <1>1
  <2>3. /\ w \in Seq(S)
        /\ Len(w) = IF Len(s) + 1 <= Len(s) + Len(t)
                      THEN (Len(s) + Len(t)) - (Len(s) + 1) + 1 ELSE 0
        /\ \A i \in 1 .. (Len(s) + Len(t)) - (Len(s) + 1) + 1 :
             w[i] = (s \o t)[(Len(s) + 1) + i - 1]
    BY <2>1, <2>2, SubSeqProperties
  <2> HIDE DEF w
  <2>4. Len(w) = Len(t) /\ \A i \in 1 .. Len(w) : w[i] = (s \o t)[(Len(s) + 1) + i - 1]
    <3>1. /\ (Len(s) + Len(t)) - (Len(s) + 1) + 1 = Len(t)
          /\ ~(Len(s) + 1 <= Len(s) + Len(t)) => Len(t) = 0
      BY <1>1
    <3>2. Len(w) = Len(t)
      BY <2>3, <3>1
    <3> QED BY <2>3, <3>1, <3>2
  <2>5. ASSUME NEW i \in 1 .. Len(w) PROVE w[i] = t[i]
    <3>1. /\ (Len(s) + 1) + i - 1 \in 1 .. Len(s) + Len(t)
          /\ ~((Len(s) + 1) + i - 1 <= Len(s))
          /\ ((Len(s) + 1) + i - 1) - Len(s) = i
      BY <1>1, <2>4
    <3> QED BY <1>1, <2>4, <3>1
  <2>6. w = t
    BY <2>3, <2>4, <2>5, SeqEqual
  <2> QED BY <2>6 DEF w
<1> QED BY <1>1, <1>2, <1>3

\* The first k elements of a sequence.
LEMMA FirstElements ==
  ASSUME NEW S, NEW s \in Seq(S), NEW k \in 0 .. Len(s)
  PROVE  /\ SubSeq(s, 1, k) \in Seq(S) /\ Len(SubSeq(s, 1, k)) = k
         /\ \A i \in 1 .. k : SubSeq(s, 1, k)[i] = s[i]
<1> DEFINE u == SubSeq(s, 1, k)
<1>1. \A i \in 1 .. k : s[i] \in S
  <2>1. \A i \in 1 .. k : i \in 1 .. Len(s)
    BY LenProperties
  <2> QED BY <2>1, ElementOfSeq
<1>2. /\ u \in Seq(S)
      /\ Len(u) = IF 1 <= k THEN k - 1 + 1 ELSE 0
      /\ \A i \in 1 .. k - 1 + 1 : u[i] = s[1 + i - 1]
  <2>1. 1 \in Int /\ k \in Int
    OBVIOUS
  <2> QED BY <1>1, <2>1, SubSeqProperties
<1> HIDE DEF u
<1>3. Len(u) = k /\ \A i \in 1 .. k : u[i] = s[i]
  BY <1>2
<1> QED BY <1>2, <1>3 DEF u

\* The flattening of the first sequences is the beginning of that of all.
LEMMA FlattenBegins ==
  ASSUME NEW S, NEW seqs \in Seq(Seq(S)), NEW k \in 0 .. Len(seqs)
  PROVE  Begins(FlattenSeq(SubSeq(seqs, 1, k)), FlattenSeq(seqs))
<1> DEFINE First(j) == SubSeq(seqs, 1, j)
           P(j) == Begins(FlattenSeq(First(k)), FlattenSeq(First(j)))
           N == {d \in Nat : k + d <= Len(seqs) => P(k + d)}
<1>1. Len(seqs) \in Nat /\ k \in Nat
  BY LenProperties
<1>2. ASSUME NEW j \in 0 .. Len(seqs)
      PROVE  /\ First(j) \in Seq(Seq(S)) /\ Len(First(j)) = j
             /\ \A i \in 1 .. j : First(j)[i] = seqs[i]
             /\ FlattenSeq(First(j)) \in Seq(S)
  <2>1. /\ First(j) \in Seq(Seq(S)) /\ Len(First(j)) = j
        /\ \A i \in 1 .. j : First(j)[i] = seqs[i]
    BY FirstElements
  <2> HIDE DEF First
  <2> QED BY <2>1, FlattenTyped
<1>3. 0 \in N
  <2>1. k + 0 = k /\ Len(FlattenSeq(First(k))) \in Nat
    BY <1>1, <1>2, LenProperties
  <2> HIDE DEF First
  <2> QED BY <2>1 DEF Begins
<1>4. ASSUME NEW d \in N, k + (d + 1) <= Len(seqs) PROVE P(k + (d + 1))
  <2> DEFINE s1 == First(k + d)
             s2 == First(k + (d + 1))
  <2>1. d \in Nat /\ k + d \in 0 .. Len(seqs) /\ k + (d + 1) \in 0 .. Len(seqs)
    BY <1>1, <1>4
  <2>2. P(k + d)
    <3> HIDE DEF P
    <3> QED BY <1>1, <2>1
  <2>3. /\ s1 \in Seq(Seq(S)) /\ s2 \in Seq(Seq(S))
        /\ Len(s1) = k + d /\ Len(s2) = k + (d + 1)
        /\ \A i \in 1 .. k + d : s1[i] = seqs[i]
        /\ \A i \in 1 .. k + (d + 1) : s2[i] = seqs[i]
        /\ FlattenSeq(s1) \in Seq(S)
    BY <1>2, <2>1
  <2>4. Begins(FlattenSeq(First(k)), FlattenSeq(s1)) /\ FlattenSeq(First(k)) \in Seq(S)
    BY <1>2, <2>2
  <2> HIDE DEF First, s1, s2
  <2>5. Len(s2) = Len(s1) + 1 /\ \A i \in 1 .. Len(s1) : s2[i] = s1[i]
    <3>1. k + (d + 1) = (k + d) + 1 /\ \A i \in 1 .. k + d : i \in 1 .. k + (d + 1)
      BY <1>1, <2>1
    <3> QED BY <2>3, <3>1
  <2>6. s2[Len(s2)] \in Seq(S)
    <3>1. Len(s2) \in 1 .. Len(s2)
      BY <1>1, <2>1, <2>3
    <3> QED BY <2>3, <3>1, ElementOfSeq
  <2>7. FlattenSeq(s2) = FlattenSeq(s1) \o s2[Len(s2)]
    BY <2>3, <2>5, FlattenAppended
  <2>8. Begins(FlattenSeq(s1), FlattenSeq(s2))
    BY <2>3, <2>6, <2>7, ConcatParts
  <2>9. /\ Len(FlattenSeq(First(k))) \in Nat /\ Len(FlattenSeq(s1)) \in Nat
        /\ Len(FlattenSeq(s2)) \in Nat
    <3>1. FlattenSeq(s2) \in Seq(S)
      BY <2>3, FlattenTyped
    <3> QED BY <2>3, <2>4, <3>1, LenProperties
  <2>10. Begins(FlattenSeq(First(k)), FlattenSeq(s2))
    BY <2>4, <2>8, <2>9 DEF Begins
  <2> QED BY <2>10 DEF s2
<1>5. N = Nat
  <2>1. N \subseteq Nat
    OBVIOUS
  <2>2. \A d \in N : d + 1 \in N
    <3> HIDE DEF P
    <3> QED BY <1>4
  <2> HIDE DEF N
  <2> QED BY <1>3, <2>1, <2>2, AllOfNat
<1>6. P(Len(seqs))
  <2>1. Len(seqs) - k \in Nat /\ k + (Len(seqs) - k) = Len(seqs)
    BY <1>1
  <2>2. Len(seqs) - k \in N
    <3> HIDE DEF N
    <3> QED BY <1>5, <2>1
  <2>3. P(k + (Len(seqs) - k))
    <3> HIDE DEF P
    <3> QED BY <1>1, <2>1, <2>2
  <2> HIDE DEF P
  <2> QED BY <2>1, <2>3
<1> QED BY <1>6, SubSeqFull

\* A last element is last after a sequence in front, and alone behind it.
LEMMA ConcatAppend ==
  ASSUME NEW S, NEW s \in Seq(S), NEW t \in Seq(S), NEW x \in S
  PROVE  s \o Append(t, x) = Append(s \o t, x) /\ t \o <<x>> = Append(t, x)
<1>1. /\ s \o t \in Seq(S) /\ Len(s \o t) = Len(s) + Len(t)
      /\ Len(s) \in Nat /\ Len(t) \in Nat
      /\ \A i \in 1 .. Len(s) + Len(t) : (s \o t)[i] = IF i <= Len(s) THEN s[i]
                                                      ELSE t[i - Len(s)]
  BY ConcatProperties, LenProperties
<1>2. /\ Append(t, x) \in Seq(S) /\ Len(Append(t, x)) = Len(t) + 1
      /\ \A i \in 1 .. Len(t) : Append(t, x)[i] = t[i]
      /\ Append(t, x)[Len(t) + 1] = x
  BY AppendProperties
<1> DEFINE u == s \o Append(t, x)
           w == Append(s \o t, x)
<1>3. /\ u \in Seq(S) /\ Len(u) = Len(s) + (Len(t) + 1)
      /\ \A i \in 1 .. Len(s) + (Len(t) + 1) : u[i] = IF i <= Len(s) THEN s[i]
                                                 ELSE Append(t, x)[i - Len(s)]
  BY <1>2, ConcatProperties
<1>4. /\ w \in Seq(S) /\ Len(w) = Len(s) + Len(t) + 1
      /\ \A i \in 1 .. Len(s) + Len(t) : w[i] = (s \o t)[i]
      /\ w[Len(s) + Len(t) + 1] = x
  BY <1>1, AppendProperties
<1> HIDE DEF u, w
<1>5. Len(u) = Len(w) /\ \A i \in 1 .. Len(u) : u[i] = w[i]
  <2>1. Len(u) = Len(w) /\ Len(u) = Len(s) + Len(t) + 1
    BY <1>1, <1>3, <1>4
  <2>2. ASSUME NEW i \in 1 .. Len(u), i <= Len(s) PROVE u[i] = w[i]
    <3>1. i \in 1 .. Len(s) + Len(t) /\ i \in 1 .. Len(s) + (Len(t) + 1)
      BY <1>1, <2>1, <2>2
    <3> QED BY <1>1, <1>3, <1>4, <2>2, <3>1
  <2>3. ASSUME NEW i \in 1 .. Len(u), ~(i <= Len(s)), i # Len(s) + Len(t) + 1 PROVE u[i] = w[i]
    <3>1. i \in 1 .. Len(s) + Len(t) /\ i \in 1 .. Len(s) + (Len(t) + 1)
          /\ i - Len(s) \in 1 .. Len(t)
      BY <1>1, <2>1, <2>3
    <3>2. u[i] = Append(t, x)[i - Len(s)] /\ w[i] = (s \o t)[i]
      BY <1>3, <1>4, <2>3, <3>1
    <3> QED BY <1>1, <1>2, <2>3, <3>1, <3>2
  <2>4. u[Len(s) + Len(t) + 1] = x
    <3>1. Len(s) + Len(t) + 1 \in 1 .. Len(s) + (Len(t) + 1)
          /\ ~(Len(s) + Len(t) + 1 <= Len(s)) /\ Len(s) + Len(t) + 1 - Len(s) = Len(t) + 1
      BY <1>1
    <3> QED BY <1>2, <1>3, <3>1
  <2> QED BY <1>4, <2>1, <2>2, <2>3, <2>4
<1>6. u = w
  BY <1>3, <1>4, <1>5, SeqEqual
<1>7. t \o <<x>> = Append(t, x)
  BY AppendIsConcat
<1> QED BY <1>6, <1>7 DEF u, w

\* Moving the head of a sequence behind the one in front of it.
LEMMA MoveHead ==
  ASSUME NEW S, NEW s \in Seq(S), NEW t \in Seq(S), t # <<>>
  PROVE  Append(s, Head(t)) \o Tail(t) = s \o t
<1>1. /\ Head(t) \in S /\ Tail(t) \in Seq(S)
      /\ Len(Tail(t)) = Len(t) - 1 /\ Head(t) = t[1]
      /\ \A i \in 1 .. Len(Tail(t)) : Tail(t)[i] = t[i + 1]
      /\ Len(s) \in Nat /\ Len(t) \in Nat /\ Len(t) > 0
  BY HeadTailProperties, LenProperties, EmptySeq
<1> DEFINE u == Append(s, Head(t)) \o Tail(t)
           w == s \o t
           a == Append(s, Head(t))
<1>2. /\ a \in Seq(S) /\ Len(a) = Len(s) + 1
      /\ \A i \in 1 .. Len(s) : a[i] = s[i]
      /\ a[Len(s) + 1] = t[1]
  BY <1>1, AppendProperties
<1> HIDE DEF a
<1>3. /\ w \in Seq(S) /\ Len(w) = Len(s) + Len(t)
      /\ \A i \in 1 .. Len(s) + Len(t) : w[i] = IF i <= Len(s) THEN s[i] ELSE t[i - Len(s)]
  BY ConcatProperties
<1>4. /\ u \in Seq(S) /\ Len(u) = Len(a) + Len(Tail(t))
      /\ \A i \in 1 .. Len(a) + Len(Tail(t)) : u[i] = IF i <= Len(a) THEN a[i]
                                                     ELSE Tail(t)[i - Len(a)]
  BY <1>1, <1>2, ConcatProperties DEF a
<1> HIDE DEF u, w
<1>5. Len(u) = Len(w) /\ Len(u) = Len(s) + Len(t) /\ Len(a) + Len(Tail(t)) = Len(s) + Len(t)
  BY <1>1, <1>2, <1>3, <1>4
<1>6. ASSUME NEW i \in 1 .. Len(u) PROVE u[i] = w[i]
  <2>1. CASE i <= Len(s)
    BY <1>1, <1>2, <1>3, <1>4, <1>5, <2>1
  <2>2. CASE i = Len(s) + 1
    BY <1>1, <1>2, <1>3, <1>4, <1>5, <2>2
  <2>3. CASE i > Len(s) + 1
    <3>1. i - Len(a) \in 1 .. Len(Tail(t)) /\ ~(i <= Len(a)) /\ ~(i <= Len(s))
          /\ (i - Len(a)) + 1 = i - Len(s)
      BY <1>1, <1>2, <1>5, <2>3
    <3>2. u[i] = Tail(t)[i - Len(a)] /\ w[i] = t[i - Len(s)]
      BY <1>3, <1>4, <1>5, <3>1
    <3> QED BY <1>1, <3>1, <3>2
  <2> QED BY <1>1, <1>5, <2>1, <2>2, <2>3
<1>7. u = w
  BY <1>3, <1>4, <1>5, <1>6, SeqEqual
<1> QED BY <1>7 DEF u, w, a


-----------------------------------------------------------------------------
(* What the constants provide *)

\* The suites that may be asked for, and how their runs may end.
Suites == {parse_args(args) : args \in {a \in Args : ValidArgs(a)}}

Ended ==
  UNION {UNION {Outcomes(suite[s].n, suite[s].n3) : s \in DOMAIN suite} : suite \in Suites}

Outputs == UNION {ToSet(outcome.outputs) : outcome \in Ended}
Actors == {output.actor : output \in Outputs}
BenchLines == {line \in UNION {ToSet(output.stdout) : output \in Outputs} : IsBenchLine(line)}
Phases == {line[2] : line \in BenchLines}

RecordSet == [actor : Actors, phase : Phases, micros : Nat]

RunSet == [n : Nat, n3 : Nat, run : Nat, ok : BOOLEAN, records : Seq(RecordSet)]

RowSet == {RawRow(p[1], p[2], p[3], p[4]) : p \in Nat \X Nat \X Nat \X RecordSet}

Keys == [n : Nat, n3 : Nat, role : DOMAIN RoleRank, operation : Phases]
RunCounts == UNION {[D -> Nat] : D \in SUBSET (Nat \X Nat)}

\* What records a run leaves.
RecordsOf(outcome) ==
  FlattenSeq([i \in DOMAIN outcome.outputs |->
    collect_records(outcome.outputs[i].actor, outcome.outputs[i].stdout)])

\* A suite names a scenario once, and asks for at least one run of it.
LEMMA SuiteFacts ==
  ASSUME NEW suite \in Suites
  PROVE  /\ suite \in Seq(Scenarios) /\ Len(suite) \in Nat \ {0}
         /\ \A s \in DOMAIN suite : suite[s].repeats >= 1
         /\ \A s, t \in DOMAIN suite :
              suite[s].n = suite[t].n /\ suite[s].n3 = suite[t].n3 => s = t
<1>1. PICK args \in Args : ValidArgs(args) /\ suite = parse_args(args)
  BY DEF Suites
<1>2. CASE args = <<>>
  <2>1. suite = default_scenarios
    BY <1>1, <1>2 DEF parse_args
  <2>2. default_scenarios \in Seq(Scenarios) /\ Len(default_scenarios) = 8
    BY DEF default_scenarios, Scenarios
  <2>3. \A s \in DOMAIN default_scenarios : default_scenarios[s].repeats >= 1
    BY DEF default_scenarios
  <2>4. \A s, t \in DOMAIN default_scenarios :
          default_scenarios[s].n = default_scenarios[t].n
            /\ default_scenarios[s].n3 = default_scenarios[t].n3 => s = t
    BY DEF default_scenarios
  <2>5. Len(default_scenarios) \in Nat \ {0}
    BY <2>2
  <2> HIDE DEF default_scenarios
  <2> QED BY <2>1, <2>2, <2>3, <2>4, <2>5, Zenon
<1>3. CASE args # <<>>
  <2> DEFINE only == [n |-> args[1], n3 |-> args[2],
                      repeats |-> IF Len(args) = 3 THEN args[3] ELSE 1]
  <2>1. suite = <<only>>
    BY <1>1, <1>3 DEF parse_args
  <2>2. args \in Seq(Nat) /\ Len(args) \in {2, 3} /\ \A i \in DOMAIN args : args[i] >= 1
    <3>1. args \in Seq(Nat)
      BY BenchmarkAssumption
    <3>2. Len(args) \in {2, 3}
      BY <1>1, <1>3, <3>1, EmptySeq DEF ValidArgs
    <3> QED BY <1>1, <3>1, <3>2 DEF ValidArgs
  <2>3. only \in Scenarios /\ only.repeats >= 1
    <3>1. 1 \in DOMAIN args /\ 2 \in DOMAIN args /\ (Len(args) = 3 => 3 \in DOMAIN args)
      BY <2>2
    <3>2. \A i \in DOMAIN args : args[i] \in Nat
      BY <2>2
    <3> QED BY <2>2, <3>1, <3>2 DEF Scenarios
  <2> HIDE DEF only
  <2> QED BY <2>1, <2>3
<1> QED BY <1>2, <1>3

LEMMA OutputFacts ==
  /\ \A outcome \in Ended : outcome.ok \in BOOLEAN /\ IsSequence(outcome.outputs)
  /\ \A output \in Outputs :
       /\ output.actor.role \in DOMAIN RoleRank
       /\ IsSequence(output.stdout)
       /\ \A line \in ToSet(output.stdout) : IsBenchLine(line) => line[3] \in Nat
<1>1. ASSUME NEW outcome \in Ended
      PROVE  /\ outcome.ok \in BOOLEAN /\ IsSequence(outcome.outputs)
             /\ \A i \in DOMAIN outcome.outputs :
                  /\ outcome.outputs[i].actor.role \in DOMAIN RoleRank
                  /\ IsSequence(outcome.outputs[i].stdout)
                  /\ \A line \in ToSet(outcome.outputs[i].stdout) :
                       IsBenchLine(line) => line[3] \in Nat
  <2>1. PICK suite \in Suites : \E s \in DOMAIN suite :
               outcome \in Outcomes(suite[s].n, suite[s].n3)
    BY DEF Ended
  <2>2. PICK args \in Args : ValidArgs(args) /\ suite = parse_args(args)
    BY DEF Suites
  <2>3. PICK s \in DOMAIN parse_args(args) :
          outcome \in Outcomes(parse_args(args)[s].n, parse_args(args)[s].n3)
    BY <2>1, <2>2
  <2> QED BY <2>2, <2>3, BenchmarkAssumption
<1>2. ASSUME NEW output \in Outputs
      PROVE  /\ output.actor.role \in DOMAIN RoleRank
             /\ IsSequence(output.stdout)
             /\ \A line \in ToSet(output.stdout) : IsBenchLine(line) => line[3] \in Nat
  <2>1. PICK outcome \in Ended : output \in ToSet(outcome.outputs)
    BY DEF Outputs
  <2>2. PICK i \in DOMAIN outcome.outputs : output = outcome.outputs[i]
    BY <2>1 DEF ToSet
  <2> QED BY <1>1, <2>2
<1> QED BY <1>1, <1>2

LEMMA SequenceDomain ==
  ASSUME NEW s, IsSequence(s)
  PROVE  /\ Len(s) \in Nat /\ DOMAIN s = 1 .. Len(s)
         /\ \A i \in DOMAIN s : s[i] \in ToSet(s)
<1>1. s \in Seq(ToSet(s))
  BY DEF IsSequence
<1> QED BY <1>1, LenProperties, ElementOfSeq

LEMMA RecordsTyped ==
  ASSUME NEW outcome \in Ended
  PROVE  RecordsOf(outcome) \in Seq(RecordSet)
<1> DEFINE found == [i \in DOMAIN outcome.outputs |->
                       collect_records(outcome.outputs[i].actor, outcome.outputs[i].stdout)]
<1>1. /\ Len(outcome.outputs) \in Nat /\ DOMAIN outcome.outputs = 1 .. Len(outcome.outputs)
      /\ \A i \in DOMAIN outcome.outputs : outcome.outputs[i] \in Outputs
  <2>1. IsSequence(outcome.outputs)
    BY OutputFacts
  <2> QED BY <2>1, SequenceDomain DEF Outputs
<1>2. ASSUME NEW output \in Outputs
      PROVE  collect_records(output.actor, output.stdout) \in Seq(RecordSet)
  <2> DEFINE actor == output.actor
             stdout == output.stdout
             parts == [i \in DOMAIN stdout |->
               IF IsBenchLine(stdout[i])
                 THEN <<[actor |-> actor, phase |-> stdout[i][2], micros |-> stdout[i][3]]>>
                 ELSE <<>>]
  <2>1. /\ Len(stdout) \in Nat /\ DOMAIN stdout = 1 .. Len(stdout)
        /\ \A i \in DOMAIN stdout : stdout[i] \in ToSet(stdout)
    BY OutputFacts, SequenceDomain
  <2>2. ASSUME NEW i \in DOMAIN stdout PROVE parts[i] \in Seq(RecordSet)
    <3>1. actor \in Actors /\ (IsBenchLine(stdout[i]) => stdout[i][2] \in Phases)
      BY <2>1 DEF Phases, BenchLines, Actors
    <3>2. IsBenchLine(stdout[i]) => stdout[i][3] \in Nat
      BY <2>1, OutputFacts
    <3>3. IsBenchLine(stdout[i]) =>
            [actor |-> actor, phase |-> stdout[i][2], micros |-> stdout[i][3]] \in RecordSet
      BY <3>1, <3>2 DEF RecordSet
    <3> HIDE DEF actor, stdout
    <3> QED BY <3>3, EmptySeq
  <2>3. parts \in [1 .. Len(stdout) -> Seq(RecordSet)]
    <3>1. parts = [i \in DOMAIN stdout |-> parts[i]]
      OBVIOUS
    <3> HIDE DEF parts
    <3> QED BY <2>1, <2>2, <3>1
  <2>4. parts \in Seq(Seq(RecordSet))
    BY <2>1, <2>3
  <2>5. collect_records(actor, stdout) = FlattenSeq(parts)
    BY DEF collect_records
  <2> HIDE DEF parts
  <2> QED BY <2>4, <2>5, FlattenTyped
<1>3. found \in [1 .. Len(outcome.outputs) -> Seq(RecordSet)]
  BY <1>1, <1>2
<1>4. found \in Seq(Seq(RecordSet))
  BY <1>1, <1>3
<1>5. RecordsOf(outcome) = FlattenSeq(found)
  BY DEF RecordsOf
<1> HIDE DEF found
<1> QED BY <1>4, <1>5, FlattenTyped


-----------------------------------------------------------------------------
(* The inductive invariant *)

\* The loop is on, or has ended.
Looping == pc \in {"run", "write_raw", "add_run", "write_summary"} \/ exit \in {0, 1}

\* Where the series is, in what was asked for.
Position ==
  /\ pc \in Creating \cup {"args", "build", "run", "write_raw", "add_run",
                           "write_summary", "exited", "panicked", "interrupted"}
  /\ scenarios = <<>> \/ scenarios \in Suites
  /\ scenarios = <<>> => pc \in {"args", "exited", "interrupted"} /\ exit \notin {0, 1}
  /\ pc = "args" \/ exit = 2 => scenarios = <<>>
  /\ index \in 1 .. Len(scenarios) + 1
  /\ run \in 1 .. IF index \in DOMAIN scenarios THEN Current.repeats ELSE 1
  /\ pc \in {"write_raw", "add_run", "write_summary"} => index \in DOMAIN scenarios
  /\ exit \in {-1, 0, 1, 2}
  /\ pc # "exited" => exit = -1
  /\ pc = "exited" => exit # -1
  /\ exit \in {0, 1} => index = Len(scenarios) + 1
  /\ exit = 0 => failures = 0
  /\ exit = 1 => failures # 0

\* What the runs left behind.
Collected ==
  /\ ok \in BOOLEAN
  /\ records \in Seq(RecordSet)
  /\ written \in 0 .. Len(records)
  /\ done \in Seq(RunSet)
  /\ failures \in 0 .. Len(done)
  /\ failures = 0 => \A i \in DOMAIN done : done[i].ok
  /\ failures # 0 => \E i \in DOMAIN done : ~done[i].ok
  /\ summarizer \in Summarizers(Keys, RunCounts)
  /\ pc \in Creating \cup {"args", "build"} =>
       index = 1 /\ run = 1 /\ done = <<>> /\ failures = 0 /\ summarizer = EmptySummarizer
  /\ pc = "panicked" => done = <<>>

\* The completed runs are those asked for, as far as the loop has come.
Triple == Nat \X Nat \X Nat
Made(ds) == [i \in DOMAIN ds |-> <<ds[i].n, ds[i].n3, ds[i].run>>]
RunsOf(s, k) == [r \in 1 .. k |-> <<scenarios[s].n, scenarios[s].n3, r>>]
AskedBefore(i) == FlattenSeq([s \in 1 .. i - 1 |-> RunsOf(s, scenarios[s].repeats)])

MadeHere == IF pc \in {"add_run", "write_summary"} THEN run ELSE run - 1

Progress == Looping => Made(done) = AskedBefore(index) \o RunsOf(index, MadeHere)

\* As long as no run fails the summarizer counts the runs made.
CountedHere == IF pc = "write_summary" THEN run ELSE run - 1

CountOf(s) ==
  IF s < index THEN scenarios[s].repeats ELSE IF s = index THEN CountedHere ELSE 0

Counting ==
  Looping /\ failures = 0 =>
    \A s \in DOMAIN scenarios :
      LET scenario == <<scenarios[s].n, scenarios[s].n3>>
      IN  /\ scenario \in DOMAIN summarizer.runs => summarizer.runs[scenario] = CountOf(s)
          /\ scenario \notin DOMAIN summarizer.runs => CountOf(s) = 0

\* The summary file holds the rows of the summarizer, those yet to write excepted.
SummaryInv ==
  /\ pc = "build" => summary = <<>>
  /\ Looping /\ pc # "write_summary" => summary = summaries(summarizer)
  /\ pc = "write_summary" =>
       /\ summary \in Seq(ToSet(summaries(summarizer)))
       /\ rows \in Seq(ToSet(summaries(summarizer)))
       /\ summary \o rows = summaries(summarizer)
  /\ pc \in Creating \cup {"args"} => summary = OldRows

\* The rows of the first k records of the run that is being written.
Writing(role, k) ==
  Records(role, [n |-> Current.n, n3 |-> Current.n3, run |-> run,
          records |-> SubSeq(records, 1, k)])

RawInv ==
  /\ DOMAIN raw = DOMAIN RoleRank
  /\ pc \in {"create_combiner", "create_tracer", "create_summary"} => raw["Signer"] = <<>>
  /\ pc \in {"create_tracer", "create_summary"} => raw["Combiner"] = <<>>
  /\ pc = "create_summary" => raw["Tracer"] = <<>>
  /\ pc \in {"build", "panicked"} \/ (Looping /\ pc # "write_raw") =>
       \A role \in DOMAIN RoleRank : raw[role] = Kept(role)
  /\ pc = "write_raw" =>
       \A role \in DOMAIN RoleRank : raw[role] = Kept(role) \o Writing(role, written)
  /\ pc = "interrupted" =>
       \/ summary = OldRows
       \/ \A role \in DOMAIN RoleRank : raw[role] = Kept(role)
       \/ /\ index \in DOMAIN scenarios
          /\ \A role \in DOMAIN RoleRank : raw[role] = Kept(role) \o Writing(role, written)

IInv == Position /\ Collected /\ Progress /\ Counting /\ SummaryInv /\ RawInv

LEMMA NoRuns ==
  ASSUME done = <<>>
  PROVE  Made(done) = <<>> /\ \A role : Kept(role) = <<>>
BY FlattenEmpty DEF Made, Kept

LEMMA InitIInv == Init => IInv
<1> SUFFICES ASSUME Init PROVE IInv
  OBVIOUS
<1> USE DEF Init
<1>1. Position
  BY DEF Position
<1>2. Collected
  <2>1. EmptySummarizer \in Summarizers(Keys, RunCounts)
    <3>1. <<>> \in [{} -> Seq(Nat)] /\ <<>> \in [{} -> Nat] /\ <<>> \in Seq(Keys)
      OBVIOUS
    <3>2. <<>> \in UNION {[D -> Seq(Nat)] : D \in SUBSET Keys} /\ <<>> \in RunCounts
      BY <3>1 DEF RunCounts
    <3> QED BY <3>1, <3>2 DEF EmptySummarizer, Summarizers
  <2>2. <<>> \in Seq(RecordSet) /\ <<>> \in Seq(RunSet) /\ Len(<<>>) = 0 /\ DOMAIN <<>> = {}
    OBVIOUS
  <2> QED BY <2>1, <2>2 DEF Collected
<1>3. ~Looping
  BY DEF Looping
<1>4. SummaryInv
  BY <1>3 DEF SummaryInv
<1>5. RawInv
  BY <1>3 DEF RawInv
<1> QED BY <1>1, <1>2, <1>3, <1>4, <1>5 DEF IInv, Progress, Counting

LEMMA ParseArgsStep == IInv /\ ParseArgs => IInv'
<1> SUFFICES ASSUME IInv, ParseArgs PROVE IInv'
  OBVIOUS
<1>1. /\ pc = "args" /\ pc' \in {"create", "exited"}
      /\ pc' = "create" => scenarios' \in Suites /\ exit' = exit
      /\ pc' = "exited" => scenarios' = scenarios /\ exit' = 2
      /\ UNCHANGED <<index, run, ok, records, written, raw, summary, summarizer, rows,
                     failures, done>>
  <2>1. PICK args \in Args :
          IF ValidArgs(args) THEN /\ scenarios' = parse_args(args)
                                  /\ pc' = "create" /\ UNCHANGED exit
                             ELSE /\ pc' = "exited" /\ exit' = 2
                                  /\ UNCHANGED scenarios
    BY DEF ParseArgs
  <2> QED BY <2>1 DEF ParseArgs, Suites, runVars, fileVars
<1>2. /\ exit = -1 /\ index = 1 /\ run = 1 /\ done = <<>> /\ failures = 0
      /\ summarizer = EmptySummarizer /\ summary = OldRows
  BY <1>1 DEF IInv, Position, Collected, SummaryInv
<1>3. Position'
  <2>1. CASE pc' = "create"
    <3>1. /\ Len(scenarios') \in Nat \ {0} /\ scenarios' \in Seq(Scenarios)
          /\ scenarios'[1].repeats \in Nat \ {0}
      <4>1. /\ Len(scenarios') \in Nat \ {0} /\ scenarios' \in Seq(Scenarios)
            /\ \A s \in DOMAIN scenarios' : scenarios'[s].repeats >= 1
        BY <1>1, <2>1, SuiteFacts
      <4>2. 1 \in DOMAIN scenarios' /\ scenarios'[1] \in Scenarios
        BY <4>1
      <4> QED BY <4>1, <4>2 DEF Scenarios
    <3>2. 1 \in DOMAIN scenarios' /\ scenarios' # <<>>
      BY <3>1
    <3> QED BY <1>1, <1>2, <2>1, <3>1, <3>2 DEF Position, Current, Creating
  <2>2. CASE pc' = "exited"
    BY <1>1, <1>2, <2>2 DEF IInv, Position, Current
  <2> QED BY <1>1, <2>1, <2>2
<1>4. Collected'
  BY <1>1, <1>2 DEF IInv, Collected
<1>5. ~Looping'
  BY <1>1, <1>2 DEF Looping
<1>6. SummaryInv'
  BY <1>1, <1>2, <1>5 DEF SummaryInv
<1>7. RawInv'
  BY <1>1, <1>5 DEF IInv, RawInv
<1> QED BY <1>3, <1>4, <1>5, <1>6, <1>7 DEF IInv, Progress, Counting

LEMMA CreateRawStep ==
  ASSUME IInv, NEW role \in DOMAIN RoleRank, NEW from, NEW to, CreateRaw(role, from, to),
         <<role, from, to>> \in {<<"Signer", "create", "create_combiner">>,
                                <<"Combiner", "create_combiner", "create_tracer">>,
                                <<"Tracer", "create_tracer", "create_summary">>}
  PROVE  IInv'
<1>1. /\ pc = from /\ pc' = to /\ raw' = [raw EXCEPT ![role] = <<>>]
      /\ pc \in Creating /\ pc' \in Creating
      /\ UNCHANGED <<scenarios, index, run, ok, records, written, summary, summarizer, rows,
                     failures, exit, done>>
  BY DEF CreateRaw, configVars, runVars, Creating
<1>2. exit = -1 /\ done = <<>> /\ summary = OldRows
  BY <1>1 DEF IInv, Position, Collected, SummaryInv, Creating
<1>3. Position'
  BY <1>1 DEF IInv, Position, Current, Creating
<1>4. Collected'
  BY <1>1 DEF IInv, Collected, Creating
<1>5. ~Looping'
  BY <1>1, <1>2 DEF Looping, Creating
<1>6. SummaryInv'
  BY <1>1, <1>2, <1>5 DEF SummaryInv, Creating
<1>7. RawInv'
  <2>1. DOMAIN raw = DOMAIN RoleRank /\ {"Signer", "Combiner", "Tracer"} = DOMAIN RoleRank
    BY DEF IInv, RawInv, RoleRank
  <2>2. /\ DOMAIN raw' = DOMAIN RoleRank /\ raw'[role] = <<>>
        /\ \A other \in DOMAIN RoleRank : other # role => raw'[other] = raw[other]
    BY <1>1, <2>1
  <2>3. /\ pc = "create_combiner" => raw["Signer"] = <<>>
        /\ pc = "create_tracer" => raw["Signer"] = <<>> /\ raw["Combiner"] = <<>>
    BY DEF IInv, RawInv
  <2> QED BY <1>1, <1>5, <2>1, <2>2, <2>3 DEF RawInv
<1> QED BY <1>3, <1>4, <1>5, <1>6, <1>7 DEF IInv, Progress, Counting

LEMMA CreateRawFilesStep == IInv /\ CreateRawFiles => IInv'
<1>1. {"Signer", "Combiner", "Tracer"} \subseteq DOMAIN RoleRank
  BY DEF RoleRank
<1> QED BY <1>1, CreateRawStep DEF CreateRawFiles

LEMMA CreateSummaryStep == IInv /\ CreateSummary => IInv'
<1> SUFFICES ASSUME IInv, CreateSummary PROVE IInv'
  OBVIOUS
<1>1. /\ pc = "create_summary" /\ pc' = "build" /\ summary' = <<>>
      /\ UNCHANGED <<scenarios, index, run, ok, records, written, raw, summarizer, rows,
                     failures, exit, done>>
  BY DEF CreateSummary, configVars, runVars
<1>2. exit = -1 /\ done = <<>>
  BY <1>1 DEF IInv, Position, Collected, Creating
<1>3. Position'
  BY <1>1 DEF IInv, Position, Current, Creating
<1>4. Collected'
  BY <1>1 DEF IInv, Collected, Creating
<1>5. ~Looping'
  BY <1>1, <1>2 DEF Looping
<1>6. SummaryInv'
  BY <1>1, <1>5 DEF SummaryInv, Creating
<1>7. RawInv'
  <2>1. \A role : Kept(role)' = <<>>
    BY <1>1, <1>2, FlattenEmpty DEF Kept
  <2>2. \A role \in DOMAIN RoleRank : role \in {"Signer", "Combiner", "Tracer"}
    BY DEF RoleRank
  <2>3. DOMAIN raw' = DOMAIN RoleRank /\ \A role \in DOMAIN RoleRank : raw'[role] = <<>>
    BY <1>1, <2>2 DEF IInv, RawInv
  <2> QED BY <1>1, <1>5, <2>1, <2>3 DEF RawInv
<1> QED BY <1>3, <1>4, <1>5, <1>6, <1>7 DEF IInv, Progress, Counting

\* What stays the same when the completed runs and the suite do.
LEMMA SameRuns ==
  ASSUME UNCHANGED <<done, scenarios>>
  PROVE  /\ Made(done)' = Made(done) /\ \A role : Kept(role)' = Kept(role)
         /\ \A i : AskedBefore(i)' = AskedBefore(i)
         /\ \A s, k : RunsOf(s, k)' = RunsOf(s, k)
BY DEF Made, Kept, AskedBefore, RunsOf

LEMMA NothingAsked == AskedBefore(1) \o RunsOf(1, 0) = <<>>
<1>1. AskedBefore(1) = FlattenSeq(<<>>) /\ RunsOf(1, 0) = <<>>
  BY DEF AskedBefore, RunsOf
<1> QED BY <1>1, FlattenEmpty

LEMMA BuildStep == IInv /\ Build => IInv'
<1> SUFFICES ASSUME IInv, Build PROVE IInv'
  OBVIOUS
<1>1. /\ pc = "build" /\ pc' \in {"run", "panicked"}
      /\ UNCHANGED <<scenarios, index, run, ok, records, written, raw, summary, summarizer,
                     rows, failures, exit, done>>
  BY DEF Build, configVars, runVars, fileVars
<1>2. /\ exit = -1 /\ index = 1 /\ run = 1 /\ done = <<>> /\ failures = 0
      /\ summarizer = EmptySummarizer /\ summary = <<>>
      /\ scenarios \in Suites
  BY <1>1 DEF IInv, Position, Collected, SummaryInv
<1>3. Position'
  BY <1>1 DEF IInv, Position, Current
<1>4. Collected'
  BY <1>1 DEF IInv, Collected
<1>5. Looping' => pc' = "run"
  BY <1>1, <1>2 DEF Looping
<1>6. Progress'
  <2>1. CASE pc' = "run"
    <3>1. MadeHere' = 0
      BY <1>1, <1>2, <2>1 DEF MadeHere
    <3>2. AskedBefore(index)' \o RunsOf(index, 0)' = <<>>
      BY <1>1, <1>2, SameRuns, NothingAsked
    <3>3. Made(done)' = <<>>
      BY <1>1, <1>2, SameRuns, NoRuns
    <3> QED BY <1>1, <3>1, <3>2, <3>3 DEF Progress
  <2> QED BY <1>5, <2>1 DEF Progress
<1>7. Counting'
  <2>1. CASE pc' = "run"
    <3>1. DOMAIN summarizer'.runs = {}
      BY <1>1, <1>2 DEF EmptySummarizer
    <3>2. \A s \in DOMAIN scenarios' : CountOf(s)' = 0
      <4>1. CountedHere' = 0
        BY <1>1, <1>2, <2>1 DEF CountedHere
      <4>2. \A s \in DOMAIN scenarios : s \in Nat \ {0}
        BY <1>2, SuiteFacts
      <4> QED BY <1>1, <1>2, <4>1, <4>2 DEF CountOf
    <3> QED BY <3>1, <3>2 DEF Counting
  <2> QED BY <1>5, <2>1 DEF Counting
<1>8. SummaryInv'
  BY <1>1, <1>2, <1>5, NoSummaries DEF SummaryInv, Creating
<1>9. RawInv'
  BY <1>1, <1>5, SameRuns DEF IInv, RawInv
<1> QED BY <1>3, <1>4, <1>6, <1>7, <1>8, <1>9 DEF IInv

\* No record written is no row written.
LEMMA NothingWritten ==
  ASSUME NEW role
  PROVE  Writing(role, 0) = <<>>
<1> DEFINE recs == SubSeq(records, 1, 0)
<1>1. recs = <<>>
  OBVIOUS
<1> QED BY <1>1, FlattenEmpty DEF Writing, Records

\* The rows of the runs completed are rows.
LEMMA RowsTyped ==
  /\ \A role, d : d \in RunSet => Records(role, d) \in Seq(RowSet)
  /\ \A role, n, n3, k, recs :
       n \in Nat /\ n3 \in Nat /\ k \in Nat /\ recs \in Seq(RecordSet) =>
         Records(role, [n |-> n, n3 |-> n3, run |-> k, records |-> recs]) \in Seq(RowSet)
<1>1. ASSUME NEW role, NEW d, d.n \in Nat, d.n3 \in Nat, d.run \in Nat,
             d.records \in Seq(RecordSet)
      PROVE  Records(role, d) \in Seq(RowSet)
  <2> DEFINE found == [i \in DOMAIN d.records |->
               IF d.records[i].actor.role = role THEN <<RawRow(d.n, d.n3, d.run, d.records[i])>>
                                                 ELSE <<>>]
  <2>1. DOMAIN d.records = 1 .. Len(d.records) /\ Len(d.records) \in Nat
    BY <1>1, LenProperties
  <2>2. ASSUME NEW i \in DOMAIN d.records PROVE found[i] \in Seq(RowSet)
    <3>1. d.records[i] \in RecordSet
      BY <1>1, <2>1, ElementOfSeq
    <3>2. RawRow(d.n, d.n3, d.run, d.records[i]) \in RowSet
      <4>1. <<d.n, d.n3, d.run, d.records[i]>> \in Nat \X Nat \X Nat \X RecordSet
        BY <1>1, <3>1
      <4> QED BY <4>1 DEF RowSet
    <3> DEFINE row == RawRow(d.n, d.n3, d.run, d.records[i])
    <3>3. found[i] = <<row>> \/ found[i] = <<>>
      OBVIOUS
    <3> HIDE DEF found, row
    <3>4. row \in RowSet
      BY <3>2 DEF row
    <3>5. <<row>> \in Seq(RowSet) /\ <<>> \in Seq(RowSet)
      BY <3>4
    <3> QED BY <3>3, <3>5
  <2>3. found = [i \in 1 .. Len(d.records) |-> found[i]]
    BY <2>1
  <2>4. Records(role, d) = FlattenSeq(found)
    BY DEF Records
  <2> HIDE DEF found
  <2>5. found \in [1 .. Len(d.records) -> Seq(RowSet)]
    BY <2>1, <2>2, <2>3
  <2>6. found \in Seq(Seq(RowSet))
    BY <2>1, <2>5
  <2> QED BY <2>4, <2>6, FlattenTyped
<1>2. \A role, d : d \in RunSet => Records(role, d) \in Seq(RowSet)
  BY <1>1 DEF RunSet
<1>3. ASSUME NEW role, NEW n \in Nat, NEW n3 \in Nat, NEW k \in Nat, NEW recs \in Seq(RecordSet)
      PROVE  Records(role, [n |-> n, n3 |-> n3, run |-> k, records |-> recs]) \in Seq(RowSet)
  <2> DEFINE d == [n |-> n, n3 |-> n3, run |-> k, records |-> recs]
  <2>1. d.n \in Nat /\ d.n3 \in Nat /\ d.run \in Nat /\ d.records \in Seq(RecordSet)
    OBVIOUS
  <2> HIDE DEF d
  <2>2. Records(role, d) \in Seq(RowSet)
    BY <1>1, <2>1
  <2> QED BY <2>2 DEF d
<1> QED BY <1>2, <1>3

LEMMA KeptTyped ==
  ASSUME done \in Seq(RunSet), NEW role
  PROVE  /\ Kept(role) \in Seq(RowSet)
         /\ [i \in DOMAIN done |-> Records(role, done[i])] \in Seq(Seq(RowSet))
<1> DEFINE parts == [i \in DOMAIN done |-> Records(role, done[i])]
<1>1. DOMAIN done = 1 .. Len(done) /\ Len(done) \in Nat
  BY LenProperties
<1>2. \A i \in DOMAIN done : done[i] \in RunSet
  BY <1>1, ElementOfSeq
<1>3. \A i \in DOMAIN done : Records(role, done[i]) \in Seq(RowSet)
  BY <1>2, RowsTyped
<1>4. parts \in Seq(Seq(RowSet))
  BY <1>1, <1>3
<1>5. Kept(role) = FlattenSeq(parts)
  BY DEF Kept
<1> HIDE DEF parts
<1>6. Kept(role) \in Seq(RowSet)
  BY <1>4, <1>5, FlattenTyped
<1> QED BY <1>4, <1>6 DEF parts


\* The scenario the loop is at.
LEMMA CurrentFacts ==
  ASSUME Position, index \in DOMAIN scenarios
  PROVE  /\ scenarios \in Suites /\ Current \in Scenarios
         /\ Current.n \in Nat /\ Current.n3 \in Nat /\ Current.repeats \in Nat
         /\ run \in Nat /\ 1 <= run /\ run <= Current.repeats
         /\ index \in Nat /\ 1 <= index /\ index <= Len(scenarios) /\ Len(scenarios) \in Nat
<1>1. scenarios \in Suites
  BY DEF Position
<1>2. scenarios \in Seq(Scenarios) /\ Len(scenarios) \in Nat
  BY <1>1, SuiteFacts
<1>3. Current \in Scenarios
  BY <1>2, ElementOfSeq DEF Current
<1>4. Current.n \in Nat /\ Current.n3 \in Nat /\ Current.repeats \in Nat
  BY <1>3 DEF Scenarios
<1>5. run \in 1 .. Current.repeats
  BY DEF Position
<1>6. index \in 1 .. Len(scenarios)
  BY <1>2
<1> QED BY <1>1, <1>2, <1>3, <1>4, <1>5, <1>6

LEMMA RunScenarioStep == IInv /\ RunScenario => IInv'
<1> SUFFICES ASSUME IInv, RunScenario PROVE IInv'
  OBVIOUS
<1>1. PICK outcome \in Outcomes(Current.n, Current.n3) :
        ok' = outcome.ok /\ records' = RecordsOf(outcome)
  BY DEF RunScenario, RecordsOf
<1>2. /\ pc = "run" /\ pc' = "write_raw" /\ written' = 0 /\ index <= Len(scenarios)
      /\ UNCHANGED <<scenarios, index, run, raw, summary, summarizer, rows, failures, exit,
              done>>
  BY DEF RunScenario, configVars, fileVars
<1>3. /\ Position /\ scenarios \in Suites /\ exit = -1
  BY <1>2 DEF IInv, Position
<1>4. index \in DOMAIN scenarios
  <2>1. DOMAIN scenarios = 1 .. Len(scenarios) /\ Len(scenarios) \in Nat
    BY <1>3, SuiteFacts
  <2> QED BY <1>2, <1>3, <2>1 DEF Position
<1>5. outcome \in Ended
  BY <1>3, <1>4 DEF Ended, Current
<1>6. ok' \in BOOLEAN /\ records' \in Seq(RecordSet)
  BY <1>1, <1>5, OutputFacts, RecordsTyped
<1>7. Looping /\ Looping' /\ MadeHere' = MadeHere /\ CountedHere' = CountedHere
  BY <1>2 DEF Looping, MadeHere, CountedHere
<1>8. Position'
  BY <1>2, <1>3, <1>4 DEF IInv, Position, Current
<1>9. Collected'
  <2>1. Len(records') \in Nat
    BY <1>6, LenProperties
  <2> QED BY <1>2, <1>6, <2>1 DEF IInv, Collected, Creating
<1>10. Progress'
  BY <1>2, <1>7, SameRuns DEF IInv, Progress
<1>11. Counting'
  BY <1>2, <1>7 DEF IInv, Counting, CountOf
<1>12. SummaryInv'
  BY <1>2, <1>7 DEF IInv, SummaryInv, Creating
<1>13. RawInv'
  <2>1. \A role \in DOMAIN RoleRank : raw[role] = Kept(role)
    BY <1>2, <1>7 DEF IInv, RawInv
  <2>2. ASSUME NEW role \in DOMAIN RoleRank
        PROVE  raw'[role] = Kept(role)' \o Writing(role, written)'
    <3>1. Writing(role, 0)' = <<>>
      <4> DEFINE recs == SubSeq(records', 1, 0)
      <4>1. recs = <<>>
        OBVIOUS
      <4> QED BY <4>1, FlattenEmpty DEF Writing, Records
    <3>2. Kept(role) \in Seq(RowSet)
      BY KeptTyped DEF IInv, Collected
    <3>3. Kept(role) \o <<>> = Kept(role)
      BY <3>2, ConcatEmptySeq
    <3>4. Writing(role, written)' = Writing(role, 0)'
      BY <1>2 DEF Writing
    <3> QED BY <1>2, <2>1, <3>1, <3>3, <3>4, SameRuns
  <2> QED BY <1>2, <2>2 DEF IInv, RawInv
<1> QED BY <1>8, <1>9, <1>10, <1>11, <1>12, <1>13 DEF IInv

\* A record more is a row more in the file of its role, and none in the others.
LEMMA WritingOneMore ==
  ASSUME Position, Collected, index \in DOMAIN scenarios, written < Len(records), NEW role
  PROVE  LET r == records[written + 1]
             row == RawRow(Current.n, Current.n3, run, r)
         IN  /\ row \in RowSet /\ r.actor.role \in DOMAIN RoleRank
             /\ Writing(role, written) \in Seq(RowSet)
             /\ Writing(role, written + 1) = IF r.actor.role = role
                                               THEN Append(Writing(role, written), row)
                                               ELSE Writing(role, written)
<1> DEFINE r == records[written + 1]
           row == RawRow(Current.n, Current.n3, run, r)
           part(k) == SubSeq(records, 1, k)
           rowsOf(k) == [i \in DOMAIN part(k) |->
             IF part(k)[i].actor.role = role
               THEN <<RawRow(Current.n, Current.n3, run, part(k)[i])>> ELSE <<>>]
<1>1. records \in Seq(RecordSet) /\ written \in Nat /\ Len(records) \in Nat
      /\ written + 1 \in 1 .. Len(records)
  BY LenProperties DEF Collected
<1>2. r \in RecordSet
  BY <1>1, ElementOfSeq
<1>3. \A k \in 0 .. Len(records) :
        /\ part(k) \in Seq(RecordSet) /\ Len(part(k)) = k /\ DOMAIN part(k) = 1 .. k
        /\ \A i \in 1 .. k : part(k)[i] = records[i]
  BY <1>1, FirstElements
<1>4. \A k : Writing(role, k) = FlattenSeq(rowsOf(k))
  BY DEF Writing, Records
<1>5. row \in RowSet
  <2>1. <<Current.n, Current.n3, run, r>> \in Nat \X Nat \X Nat \X RecordSet
    BY <1>2, CurrentFacts
  <2> QED BY <2>1 DEF RowSet
<1>6. r.actor.role \in DOMAIN RoleRank
  <2>1. r.actor \in Actors
    BY <1>2 DEF RecordSet
  <2> QED BY <2>1, OutputFacts DEF Actors
<1> HIDE DEF part, r, row
<1>7. \A k \in 0 .. Len(records) : DOMAIN rowsOf(k) = 1 .. k /\ Len(rowsOf(k)) = k
  BY <1>1, <1>3
<1>8. ASSUME NEW i \in 1 .. written PROVE rowsOf(written + 1)[i] = rowsOf(written)[i]
  <2>1. /\ i \in DOMAIN part(written) /\ i \in DOMAIN part(written + 1)
        /\ part(written + 1)[i] = part(written)[i]
    <3>1. written \in 0 .. Len(records) /\ written + 1 \in 0 .. Len(records)
          /\ i \in 1 .. written + 1
      BY <1>1
    <3>2. DOMAIN part(written) = 1 .. written /\ part(written)[i] = records[i]
      BY <1>3, <3>1
    <3>3. DOMAIN part(written + 1) = 1 .. written + 1 /\ part(written + 1)[i] = records[i]
      BY <1>3, <3>1
    <3> QED BY <3>1, <3>2, <3>3
  <2> QED BY <2>1
<1>9. rowsOf(written + 1)[written + 1] = IF r.actor.role = role THEN <<row>> ELSE <<>>
  <2>1. part(written + 1)[written + 1] = r /\ written + 1 \in DOMAIN part(written + 1)
    BY <1>1, <1>3 DEF r
  <2>2. rowsOf(written + 1)[written + 1] =
          IF part(written + 1)[written + 1].actor.role = role
            THEN <<RawRow(Current.n, Current.n3, run, part(written + 1)[written + 1])>> ELSE <<>>
    BY <2>1
  <2> HIDE DEF rowsOf
  <2> QED BY <2>1, <2>2 DEF row
<1> HIDE DEF rowsOf
<1>10. FlattenSeq(rowsOf(written + 1)) = IF written = 0 THEN rowsOf(written + 1)[1]
         ELSE FlattenSeq(rowsOf(written)) \o rowsOf(written + 1)[written + 1]
  <2>1. written \in 0 .. Len(records) /\ written + 1 \in 0 .. Len(records)
    BY <1>1
  <2>2. Len(rowsOf(written)) = written /\ Len(rowsOf(written + 1)) = written + 1
    BY <1>7, <2>1
  <2> QED BY <1>1, <1>8, <2>2, FlattenOneMore
<1>11. Writing(role, written) \in Seq(RowSet)
  <2>1. part(written) \in Seq(RecordSet)
    BY <1>1, <1>3
  <2> QED BY <2>1, CurrentFacts, RowsTyped DEF Writing, part
<1>12. written = 0 => Writing(role, written) = <<>>
  BY NothingWritten
<1>13. Writing(role, written + 1) = Writing(role, written) \o rowsOf(written + 1)[written + 1]
  <2>1. CASE written = 0
    <3>1. written + 1 = 1 /\ Writing(role, written + 1) = rowsOf(written + 1)[written + 1]
      BY <1>4, <1>10, <2>1
    <3>2. rowsOf(written + 1)[written + 1] = <<row>> \/ rowsOf(written + 1)[written + 1] = <<>>
      BY <1>9
    <3>3. <<row>> \in Seq(RowSet) /\ <<>> \in Seq(RowSet)
      BY <1>5
    <3>4. rowsOf(written + 1)[written + 1] \in Seq(RowSet)
      BY <3>2, <3>3
    <3> QED BY <1>12, <2>1, <3>1, <3>4, ConcatEmptySeq
  <2>2. CASE written # 0
    BY <1>4, <1>10, <2>2
  <2> QED BY <2>1, <2>2
<1>14. Writing(role, written) \o <<row>> = Append(Writing(role, written), row)
       /\ Writing(role, written) \o <<>> = Writing(role, written)
  BY <1>5, <1>11, ConcatAppend, ConcatEmptySeq
<1> QED BY <1>5, <1>6, <1>9, <1>11, <1>13, <1>14 DEF r, row

LEMMA WriteRawStep == IInv /\ WriteRaw => IInv'
<1> SUFFICES ASSUME IInv, WriteRaw PROVE IInv'
  OBVIOUS
<1> DEFINE r == records[written + 1]
           row == RawRow(Current.n, Current.n3, run, r)
<1>1. /\ pc = "write_raw" /\ written < Len(records) /\ written' = written + 1
      /\ raw' = [raw EXCEPT ![r.actor.role] = Append(@, row)]
      /\ UNCHANGED <<pc, scenarios, index, run, ok, records, summary, summarizer, rows,
                     failures, exit, done>>
  BY DEF WriteRaw, configVars
<1>2. Position /\ Collected /\ index \in DOMAIN scenarios
  BY <1>1 DEF IInv, Position
<1>3. Looping' = Looping /\ MadeHere' = MadeHere /\ CountedHere' = CountedHere
  BY <1>1 DEF Looping, MadeHere, CountedHere
<1>4. Position'
  BY <1>1, <1>2 DEF Position, Current
<1>5. Collected'
  <2>1. Len(records) \in Nat /\ written' \in 0 .. Len(records)
    BY <1>1, <1>2, LenProperties DEF Collected
  <2> QED BY <1>1, <1>2, <2>1 DEF Collected
<1>6. Progress'
  BY <1>1, <1>3, SameRuns DEF IInv, Progress
<1>7. Counting'
  BY <1>1, <1>3 DEF IInv, Counting, CountOf
<1>8. SummaryInv'
  BY <1>1, <1>3 DEF IInv, SummaryInv
<1>9. RawInv'
  <2>1. DOMAIN raw = DOMAIN RoleRank
        /\ \A role \in DOMAIN RoleRank : raw[role] = Kept(role) \o Writing(role, written)
    BY <1>1 DEF IInv, RawInv
  <2>2. ASSUME NEW role \in DOMAIN RoleRank
        PROVE  raw'[role] = Kept(role)' \o Writing(role, written)'
    <3>1. /\ row \in RowSet
          /\ Writing(role, written) \in Seq(RowSet)
          /\ Writing(role, written + 1) = IF r.actor.role = role
                                            THEN Append(Writing(role, written), row)
                                            ELSE Writing(role, written)
      BY <1>1, <1>2, WritingOneMore
    <3>2. Kept(role) \in Seq(RowSet)
      BY <1>2, KeptTyped DEF Collected
    <3>3. Kept(role) \o Append(Writing(role, written), row)
            = Append(Kept(role) \o Writing(role, written), row)
      BY <3>1, <3>2, ConcatAppend
    <3>4. Writing(role, written)' = Writing(role, written + 1)
      BY <1>1 DEF Writing, Current
    <3>5. Kept(role)' = Kept(role)
      BY <1>1, SameRuns
    <3>6. raw'[role] = IF r.actor.role = role THEN Append(raw[role], row) ELSE raw[role]
      BY <1>1, <2>1
    <3> HIDE DEF r, row
    <3> QED BY <2>1, <3>1, <3>3, <3>4, <3>5, <3>6
  <2>3. DOMAIN raw' = DOMAIN RoleRank
    BY <1>1, <2>1
  <2>4. Looping /\ pc \notin {"build", "panicked", "interrupted"}
    BY <1>1 DEF Looping
  <2> QED BY <1>1, <2>2, <2>3, <2>4 DEF RawInv
<1> QED BY <1>4, <1>5, <1>6, <1>7, <1>8, <1>9 DEF IInv


\* What was asked for, scenario by scenario.
LEMMA AskedTyped ==
  ASSUME scenarios \in Suites
  PROVE  /\ \A s \in DOMAIN scenarios, k \in Nat : RunsOf(s, k) \in Seq(Triple)
         /\ \A i \in 1 .. Len(scenarios) + 1 :
              /\ [s \in 1 .. i - 1 |-> RunsOf(s, scenarios[s].repeats)] \in Seq(Seq(Triple))
              /\ AskedBefore(i) \in Seq(Triple)
<1>1. /\ scenarios \in Seq(Scenarios) /\ Len(scenarios) \in Nat
      /\ DOMAIN scenarios = 1 .. Len(scenarios)
  BY SuiteFacts, LenProperties
<1>2. \A s \in DOMAIN scenarios :
        scenarios[s].n \in Nat /\ scenarios[s].n3 \in Nat /\ scenarios[s].repeats \in Nat
  <2>1. \A s \in DOMAIN scenarios : scenarios[s] \in Scenarios
    BY <1>1, ElementOfSeq
  <2> QED BY <2>1 DEF Scenarios
<1>3. ASSUME NEW s \in DOMAIN scenarios, NEW k \in Nat PROVE RunsOf(s, k) \in Seq(Triple)
  <2>1. \A r \in 1 .. k : <<scenarios[s].n, scenarios[s].n3, r>> \in Triple
    BY <1>2 DEF Triple
  <2>2. RunsOf(s, k) \in [1 .. k -> Triple]
    BY <2>1 DEF RunsOf
  <2> QED BY <2>2
<1>4. ASSUME NEW i \in 1 .. Len(scenarios) + 1
      PROVE  /\ [s \in 1 .. i - 1 |-> RunsOf(s, scenarios[s].repeats)] \in Seq(Seq(Triple))
             /\ AskedBefore(i) \in Seq(Triple)
  <2> DEFINE all == [s \in 1 .. i - 1 |-> RunsOf(s, scenarios[s].repeats)]
  <2>1. i - 1 \in Nat /\ \A s \in 1 .. i - 1 : s \in DOMAIN scenarios
    BY <1>1
  <2>2. \A s \in 1 .. i - 1 : RunsOf(s, scenarios[s].repeats) \in Seq(Triple)
    BY <1>2, <1>3, <2>1
  <2>3. all \in Seq(Seq(Triple))
    BY <2>1, <2>2
  <2>4. AskedBefore(i) = FlattenSeq(all)
    BY DEF AskedBefore
  <2> HIDE DEF all
  <2>5. AskedBefore(i) \in Seq(Triple)
    BY <2>3, <2>4, FlattenTyped
  <2> QED BY <2>3, <2>5 DEF all
<1> QED BY <1>3, <1>4

\* Asking for the next scenario too.
LEMMA AskedOneMore ==
  ASSUME scenarios \in Suites, NEW i \in 1 .. Len(scenarios)
  PROVE  AskedBefore(i + 1) = AskedBefore(i) \o RunsOf(i, scenarios[i].repeats)
<1> DEFINE all(j) == [s \in 1 .. j - 1 |-> RunsOf(s, scenarios[s].repeats)]
<1>1. Len(scenarios) \in Nat /\ i \in Nat \ {0} /\ (i + 1) - 1 = i
      /\ i \in 1 .. Len(scenarios) + 1 /\ i + 1 \in 1 .. Len(scenarios) + 1
  BY SuiteFacts
<1>2. all(i) \in Seq(Seq(Triple)) /\ all(i + 1) \in Seq(Seq(Triple))
  BY <1>1, AskedTyped
<1>3. Len(all(i)) = i - 1 /\ Len(all(i + 1)) = i
  BY <1>1
<1>4. \A s \in 1 .. i - 1 : all(i + 1)[s] = all(i)[s]
  BY <1>1
<1>5. all(i + 1)[i] = RunsOf(i, scenarios[i].repeats)
  BY <1>1
<1>6. AskedBefore(i) = FlattenSeq(all(i)) /\ AskedBefore(i + 1) = FlattenSeq(all(i + 1))
  BY DEF AskedBefore
<1> HIDE DEF all
<1>7. Len(all(i + 1)) = Len(all(i)) + 1
  BY <1>1, <1>3
<1>8. FlattenSeq(all(i + 1)) = FlattenSeq(all(i)) \o all(i + 1)[Len(all(i + 1))]
  BY <1>2, <1>3, <1>4, <1>7, FlattenAppended
<1> QED BY <1>3, <1>5, <1>6, <1>8

\* The end of the loop's body moves on in what was asked for.
LEMMA NextRunMoves ==
  ASSUME Position, index \in DOMAIN scenarios, NextRun, UNCHANGED scenarios
  PROVE  /\ index' \in 1 .. Len(scenarios) + 1
         /\ run' \in 1 .. IF index' \in DOMAIN scenarios THEN scenarios[index'].repeats ELSE 1
         /\ AskedBefore(index') \o RunsOf(index', run' - 1)
              = AskedBefore(index) \o RunsOf(index, run)
         /\ \A s \in DOMAIN scenarios :
              (IF s < index' THEN scenarios[s].repeats ELSE IF s = index' THEN run' - 1 ELSE 0)
                = IF s < index THEN scenarios[s].repeats ELSE IF s = index THEN run ELSE 0
<1>1. /\ scenarios \in Suites /\ Current.repeats \in Nat
      /\ run \in Nat /\ 1 <= run /\ run <= Current.repeats
      /\ index \in Nat /\ 1 <= index /\ index <= Len(scenarios) /\ Len(scenarios) \in Nat
  BY CurrentFacts
<1>2. \A s \in DOMAIN scenarios : scenarios[s].repeats \in Nat /\ scenarios[s].repeats >= 1
  <2>1. \A s \in DOMAIN scenarios : scenarios[s] \in Scenarios
    BY <1>1, SuiteFacts, ElementOfSeq
  <2> QED BY <1>1, <2>1, SuiteFacts DEF Scenarios
<1>3. DOMAIN scenarios = 1 .. Len(scenarios)
  BY <1>1, SuiteFacts
<1>4. CASE run < Current.repeats
  <2>1. run' = run + 1 /\ index' = index /\ run' - 1 = run
    BY <1>1, <1>4 DEF NextRun
  <2> QED BY <1>1, <1>3, <1>4, <2>1 DEF Current
<1>5. CASE ~(run < Current.repeats)
  <2>1. run' = 1 /\ index' = index + 1 /\ run' - 1 = 0 /\ run = scenarios[index].repeats
    BY <1>1, <1>5 DEF NextRun, Current
  <2>2. index' \in 1 .. Len(scenarios) + 1
    BY <1>1, <2>1
  <2>3. run' \in 1 .. IF index' \in DOMAIN scenarios THEN scenarios[index'].repeats ELSE 1
    BY <1>2, <2>1
  <2>4. AskedBefore(index') \o RunsOf(index', run' - 1)
          = AskedBefore(index) \o RunsOf(index, run)
    <3>1. AskedBefore(index') = AskedBefore(index) \o RunsOf(index, run)
      <4>1. index \in 1 .. Len(scenarios)
        BY <1>1
      <4>2. AskedBefore(index + 1)
              = AskedBefore(index) \o RunsOf(index, scenarios[index].repeats)
        BY <1>1, <4>1, AskedOneMore
      <4> QED BY <2>1, <4>2, Zenon
    <3>2. RunsOf(index', run' - 1) = <<>>
      <4>1. RunsOf(index', 0) = <<>>
        BY DEF RunsOf
      <4> QED BY <2>1, <4>1
    <3>3. AskedBefore(index') \in Seq(Triple)
      BY <1>1, <2>2, AskedTyped
    <3> QED BY <3>1, <3>2, <3>3, ConcatEmptySeq
  <2>5. \A s \in DOMAIN scenarios :
          (IF s < index' THEN scenarios[s].repeats ELSE IF s = index' THEN run' - 1 ELSE 0)
            = IF s < index THEN scenarios[s].repeats ELSE IF s = index THEN run ELSE 0
    BY <1>1, <1>2, <1>3, <2>1
  <2> QED BY <2>2, <2>3, <2>4, <2>5
<1> QED BY <1>4, <1>5

\* A run recorded is one more that was asked for, and all its rows are written.
LEMMA RunRecordedFacts ==
  ASSUME IInv, RunRecorded, UNCHANGED scenarios
  PROVE  /\ done' \in Seq(RunSet) /\ Len(done') = Len(done) + 1
         /\ \A i \in 1 .. Len(done) : done'[i] = done[i]
         /\ done'[Len(done) + 1].ok = ok
         /\ \A role \in DOMAIN RoleRank : Kept(role)' = raw[role]
         /\ Made(done)' = AskedBefore(index) \o RunsOf(index, run)
<1> DEFINE d == [n |-> Current.n, n3 |-> Current.n3, run |-> run, ok |-> ok, records |-> records]
           x == <<Current.n, Current.n3, run>>
<1>1. /\ pc = "write_raw" /\ written = Len(records) /\ done' = Append(done, d)
      /\ Position /\ Collected /\ index \in DOMAIN scenarios /\ Looping
  BY DEF RunRecorded, IInv, Position, Looping
<1>2. /\ scenarios \in Suites /\ Current.n \in Nat /\ Current.n3 \in Nat
      /\ run \in Nat /\ 1 <= run
  BY <1>1, CurrentFacts
<1>3. /\ done \in Seq(RunSet) /\ ok \in BOOLEAN /\ records \in Seq(RecordSet)
      /\ Len(done) \in Nat /\ DOMAIN done = 1 .. Len(done)
  BY <1>1, LenProperties DEF Collected
<1>4. d \in RunSet /\ d.ok = ok
  BY <1>2, <1>3 DEF RunSet
<1>5. /\ done' \in Seq(RunSet) /\ Len(done') = Len(done) + 1
      /\ \A i \in 1 .. Len(done) : done'[i] = done[i]
      /\ done'[Len(done) + 1] = d
  <2> HIDE DEF d
  <2> QED BY <1>1, <1>3, <1>4, AppendProperties
<1>6. DOMAIN done' = 1 .. Len(done) + 1
  BY <1>5
<1>7. ASSUME NEW role \in DOMAIN RoleRank PROVE Kept(role)' = raw[role]
  <2> DEFINE old == [i \in DOMAIN done |-> Records(role, done[i])]
             new == [i \in DOMAIN done' |-> Records(role, done'[i])]
  <2>1. Kept(role)' = FlattenSeq(new) /\ Kept(role) = FlattenSeq(old)
    BY DEF Kept
  <2>2. old \in Seq(Seq(RowSet))
    BY <1>3, KeptTyped
  <2>3. new \in Seq(Seq(RowSet))
    <3>1. \A i \in DOMAIN done' : done'[i] \in RunSet
      BY <1>5, ElementOfSeq
    <3>2. \A i \in DOMAIN done' : Records(role, done'[i]) \in Seq(RowSet)
      BY <3>1, RowsTyped
    <3> QED BY <1>3, <1>6, <3>2
  <2>4. /\ Len(old) = Len(done) /\ Len(new) = Len(done) + 1
        /\ \A i \in 1 .. Len(done) : new[i] = old[i]
        /\ new[Len(done) + 1] = Records(role, d)
    <3> HIDE DEF d
    <3> QED BY <1>3, <1>5, <1>6
  <2> HIDE DEF old, new, d
  <2>5. FlattenSeq(new) = FlattenSeq(old) \o Records(role, d)
    <3>1. Len(new) = Len(old) + 1 /\ \A i \in 1 .. Len(old) : new[i] = old[i]
      BY <2>4
    <3>2. FlattenSeq(new) = FlattenSeq(old) \o new[Len(new)]
      BY <2>2, <2>3, <3>1, FlattenAppended
    <3> QED BY <2>4, <3>2
  <2>6. Records(role, d) = Writing(role, written)
    <3>1. SubSeq(records, 1, written) = records
      BY <1>1, <1>3, SubSeqFull
    <3> QED BY <3>1 DEF Records, Writing, d
  <2>7. raw[role] = Kept(role) \o Writing(role, written)
    BY <1>1 DEF IInv, RawInv
  <2> QED BY <2>1, <2>5, <2>6, <2>7
<1>8. Made(done)' = AskedBefore(index) \o RunsOf(index, run)
  <2>1. Made(done) = AskedBefore(index) \o RunsOf(index, run - 1)
    BY <1>1 DEF IInv, Progress, MadeHere
  <2>2. Made(done)' = Append(Made(done), x)
    <3>1. Made(done)' = [i \in DOMAIN done' |-> <<done'[i].n, done'[i].n3, done'[i].run>>]
      BY DEF Made
    <3>2. Append(Made(done), x) = [i \in 1 .. Len(done) + 1 |->
            IF i = Len(done) + 1 THEN x ELSE <<done[i].n, done[i].n3, done[i].run>>]
      BY <1>3 DEF Made
    <3>3. ASSUME NEW i \in 1 .. Len(done) + 1
          PROVE  <<done'[i].n, done'[i].n3, done'[i].run>> =
                   IF i = Len(done) + 1 THEN x ELSE <<done[i].n, done[i].n3, done[i].run>>
      <4>1. CASE i = Len(done) + 1
        BY <1>5, <4>1
      <4>2. CASE i # Len(done) + 1
        BY <1>3, <1>5, <4>2
      <4> QED BY <4>1, <4>2
    <3> HIDE DEF x
    <3> QED BY <1>6, <3>1, <3>2, <3>3
  <2>3. RunsOf(index, run) = Append(RunsOf(index, run - 1), x)
    BY <1>2 DEF RunsOf, Current
  <2>4. /\ AskedBefore(index) \in Seq(Triple) /\ RunsOf(index, run - 1) \in Seq(Triple)
        /\ x \in Triple
    <3>1. index \in 1 .. Len(scenarios) + 1 /\ run - 1 \in Nat
      BY <1>1, <1>2 DEF Position
    <3>2. AskedBefore(index) \in Seq(Triple) /\ RunsOf(index, run - 1) \in Seq(Triple)
      BY <1>1, <1>2, <3>1, AskedTyped
    <3> QED BY <1>2, <3>2 DEF Triple
  <2> HIDE DEF x
  <2>5. AskedBefore(index) \o Append(RunsOf(index, run - 1), x)
          = Append(AskedBefore(index) \o RunsOf(index, run - 1), x)
    BY <2>4, ConcatAppend
  <2> QED BY <2>1, <2>2, <2>3, <2>5
<1> QED BY <1>4, <1>5, <1>7, <1>8


LEMMA RunFailedStep == IInv /\ RunFailed => IInv'
<1> SUFFICES ASSUME IInv, RunFailed PROVE IInv'
  OBVIOUS
<1>1. /\ RunRecorded /\ NextRun /\ ~ok /\ failures' = failures + 1
      /\ pc = "write_raw" /\ pc' = "run"
      /\ UNCHANGED <<scenarios, ok, records, written, raw, summary, summarizer, rows, exit>>
  BY DEF RunFailed, RunRecorded, NextRun, runVars, fileVars
<1>2. Position /\ Collected /\ index \in DOMAIN scenarios /\ exit = -1
  BY <1>1 DEF IInv, Position
<1>3. /\ done' \in Seq(RunSet) /\ Len(done') = Len(done) + 1
      /\ \A i \in 1 .. Len(done) : done'[i] = done[i]
      /\ done'[Len(done) + 1].ok = ok
      /\ \A role \in DOMAIN RoleRank : Kept(role)' = raw[role]
      /\ Made(done)' = AskedBefore(index) \o RunsOf(index, run)
  BY <1>1, RunRecordedFacts
<1>4. /\ index' \in 1 .. Len(scenarios) + 1
      /\ run' \in 1 .. IF index' \in DOMAIN scenarios THEN scenarios[index'].repeats ELSE 1
      /\ AskedBefore(index') \o RunsOf(index', run' - 1)
           = AskedBefore(index) \o RunsOf(index, run)
  BY <1>1, <1>2, NextRunMoves
<1>5. failures \in 0 .. Len(done) /\ Len(done) \in Nat /\ DOMAIN done' = 1 .. Len(done) + 1
  BY <1>2, <1>3, LenProperties DEF Collected
<1>6. Looping /\ Looping' /\ failures' # 0
  BY <1>1, <1>5 DEF Looping
<1>7. Position'
  BY <1>1, <1>2, <1>4 DEF Position, Current
<1>8. Collected'
  <2>1. failures' \in 0 .. Len(done')
    BY <1>1, <1>3, <1>5
  <2>2. Len(done) + 1 \in DOMAIN done' /\ ~done'[Len(done) + 1].ok
    BY <1>1, <1>3, <1>5
  <2> QED BY <1>1, <1>2, <1>3, <1>6, <2>1, <2>2 DEF Collected, Creating
<1>9. Progress'
  <2>1. MadeHere' = run' - 1
    BY <1>1 DEF MadeHere
  <2>2. AskedBefore(index)' \o RunsOf(index, MadeHere)'
          = AskedBefore(index') \o RunsOf(index', run' - 1)
    BY <1>1, <2>1 DEF AskedBefore, RunsOf
  <2> QED BY <1>3, <1>4, <2>2 DEF Progress
<1>10. Counting'
  BY <1>6 DEF Counting
<1>11. SummaryInv'
  BY <1>1, <1>6 DEF IInv, SummaryInv, Creating
<1>12. RawInv'
  BY <1>1, <1>3 DEF IInv, RawInv
<1> QED BY <1>7, <1>8, <1>9, <1>10, <1>11, <1>12 DEF IInv

LEMMA RunSucceededStep == IInv /\ RunSucceeded => IInv'
<1> SUFFICES ASSUME IInv, RunSucceeded PROVE IInv'
  OBVIOUS
<1>1. /\ RunRecorded /\ ok /\ pc = "write_raw" /\ pc' = "add_run"
      /\ UNCHANGED <<scenarios, index, run, ok, records, written, raw, summary, summarizer,
                     rows, failures, exit>>
  BY DEF RunSucceeded, RunRecorded, configVars, runVars, fileVars
<1>2. Position /\ Collected /\ index \in DOMAIN scenarios /\ exit = -1
  BY <1>1 DEF IInv, Position
<1>3. /\ done' \in Seq(RunSet) /\ Len(done') = Len(done) + 1
      /\ \A i \in 1 .. Len(done) : done'[i] = done[i]
      /\ done'[Len(done) + 1].ok = ok
      /\ \A role \in DOMAIN RoleRank : Kept(role)' = raw[role]
      /\ Made(done)' = AskedBefore(index) \o RunsOf(index, run)
  BY <1>1, RunRecordedFacts
<1>4. /\ failures \in 0 .. Len(done) /\ Len(done) \in Nat /\ DOMAIN done' = 1 .. Len(done) + 1
      /\ DOMAIN done = 1 .. Len(done)
  BY <1>2, <1>3, LenProperties DEF Collected
<1>5. Looping /\ Looping' /\ CountedHere' = CountedHere
  BY <1>1 DEF Looping, CountedHere
<1>6. Position'
  BY <1>1, <1>2 DEF Position, Current
<1>7. Collected'
  <2>1. failures' \in 0 .. Len(done')
    BY <1>1, <1>3, <1>4
  <2>2. failures' = 0 => \A i \in DOMAIN done' : done'[i].ok
    <3>1. \A i \in DOMAIN done' : i = Len(done) + 1 \/ i \in DOMAIN done
      BY <1>4
    <3>2. failures' = 0 => \A i \in DOMAIN done : done'[i].ok
      BY <1>1, <1>2, <1>3, <1>4 DEF Collected
    <3> QED BY <1>1, <1>3, <3>1, <3>2
  <2>3. failures' # 0 => \E i \in DOMAIN done' : ~done'[i].ok
    <3>1. failures' # 0 => \E i \in DOMAIN done : ~done'[i].ok
      BY <1>1, <1>2, <1>3, <1>4 DEF Collected
    <3>2. \A i \in DOMAIN done : i \in DOMAIN done'
      BY <1>4
    <3> QED BY <3>1, <3>2
  <2> QED BY <1>1, <1>2, <1>3, <2>1, <2>2, <2>3 DEF Collected, Creating
<1>8. Progress'
  <2>1. MadeHere' = run
    BY <1>1 DEF MadeHere
  <2>2. AskedBefore(index)' \o RunsOf(index, MadeHere)'
          = AskedBefore(index) \o RunsOf(index, run)
    BY <1>1, <2>1 DEF AskedBefore, RunsOf
  <2> QED BY <1>3, <2>2 DEF Progress
<1>9. Counting'
  BY <1>1, <1>5 DEF IInv, Counting, CountOf
<1>10. SummaryInv'
  BY <1>1, <1>5 DEF IInv, SummaryInv, Creating
<1>11. RawInv'
  BY <1>1, <1>3, <1>5 DEF IInv, RawInv
<1> QED BY <1>6, <1>7, <1>8, <1>9, <1>10, <1>11 DEF IInv

LEMMA WriteSummaryStep == IInv /\ WriteSummary => IInv'
<1> SUFFICES ASSUME IInv, WriteSummary PROVE IInv'
  OBVIOUS
<1>1. /\ pc = "write_summary" /\ rows # <<>>
      /\ summary' = Append(summary, Head(rows)) /\ rows' = Tail(rows)
      /\ UNCHANGED <<pc, scenarios, index, run, ok, records, written, raw, summarizer,
                     failures, exit, done>>
  BY DEF WriteSummary, configVars, runVars
<1>2. Looping' = Looping /\ MadeHere' = MadeHere /\ CountedHere' = CountedHere
  BY <1>1 DEF Looping, MadeHere, CountedHere
<1>3. Position'
  BY <1>1 DEF IInv, Position, Current
<1>4. Collected'
  BY <1>1 DEF IInv, Collected
<1>5. Progress'
  BY <1>1, <1>2, SameRuns DEF IInv, Progress
<1>6. Counting'
  BY <1>1, <1>2 DEF IInv, Counting, CountOf
<1>7. SummaryInv'
  <2> DEFINE S == ToSet(summaries(summarizer))
  <2>1. summary \in Seq(S) /\ rows \in Seq(S) /\ summary \o rows = summaries(summarizer)
    BY <1>1 DEF IInv, SummaryInv
  <2>2. Head(rows) \in S /\ Tail(rows) \in Seq(S)
    BY <1>1, <2>1, HeadTailProperties
  <2>3. summary' \in Seq(S) /\ rows' \in Seq(S)
    BY <1>1, <2>1, <2>2
  <2>4. summary' \o rows' = summary \o rows
    BY <1>1, <2>1, MoveHead
  <2> QED BY <1>1, <2>1, <2>3, <2>4 DEF SummaryInv, Creating
<1>8. RawInv'
  BY <1>1, <1>2, SameRuns DEF IInv, RawInv
<1> QED BY <1>3, <1>4, <1>5, <1>6, <1>7, <1>8 DEF IInv

LEMMA SummaryWrittenStep == IInv /\ SummaryWritten => IInv'
<1> SUFFICES ASSUME IInv, SummaryWritten PROVE IInv'
  OBVIOUS
<1>1. /\ NextRun /\ pc = "write_summary" /\ rows = <<>> /\ pc' = "run"
      /\ UNCHANGED <<scenarios, ok, records, written, raw, summary, summarizer, rows,
                     failures, exit, done>>
  BY DEF SummaryWritten, NextRun, runVars, fileVars
<1>2. Position /\ Collected /\ index \in DOMAIN scenarios /\ exit = -1
  BY <1>1 DEF IInv, Position
<1>3. /\ index' \in 1 .. Len(scenarios) + 1
      /\ run' \in 1 .. IF index' \in DOMAIN scenarios THEN scenarios[index'].repeats ELSE 1
      /\ AskedBefore(index') \o RunsOf(index', run' - 1)
           = AskedBefore(index) \o RunsOf(index, run)
      /\ \A s \in DOMAIN scenarios :
           (IF s < index' THEN scenarios[s].repeats ELSE IF s = index' THEN run' - 1 ELSE 0)
             = IF s < index THEN scenarios[s].repeats ELSE IF s = index THEN run ELSE 0
  BY <1>1, <1>2, NextRunMoves
<1>4. Looping /\ Looping'
  BY <1>1 DEF Looping
<1>5. Position'
  BY <1>1, <1>2, <1>3 DEF Position, Current
<1>6. Collected'
  BY <1>1, <1>2 DEF Collected, Creating
<1>7. Progress'
  <2>1. MadeHere = run /\ MadeHere' = run' - 1
    BY <1>1 DEF MadeHere
  <2>2. AskedBefore(index)' \o RunsOf(index, MadeHere)'
          = AskedBefore(index') \o RunsOf(index', run' - 1)
    BY <1>1, <2>1 DEF AskedBefore, RunsOf
  <2>3. Made(done)' = Made(done)
    BY <1>1, SameRuns
  <2> QED BY <1>3, <1>4, <2>1, <2>2, <2>3 DEF IInv, Progress
<1>8. Counting'
  <2>1. CountedHere = run /\ CountedHere' = run' - 1
    BY <1>1 DEF CountedHere
  <2>2. \A s \in DOMAIN scenarios : CountOf(s)' = CountOf(s)
    BY <1>1, <1>3, <2>1 DEF CountOf
  <2> QED BY <1>1, <1>4, <2>2 DEF IInv, Counting
<1>9. SummaryInv'
  <2> DEFINE S == ToSet(summaries(summarizer))
  <2>1. summary \in Seq(S) /\ summary \o <<>> = summaries(summarizer)
    BY <1>1 DEF IInv, SummaryInv
  <2>2. summary = summaries(summarizer)
    BY <2>1, ConcatEmptySeq
  <2> QED BY <1>1, <1>4, <2>2 DEF SummaryInv, Creating
<1>10. RawInv'
  BY <1>1, <1>4, SameRuns DEF IInv, RawInv
<1> QED BY <1>5, <1>6, <1>7, <1>8, <1>9, <1>10 DEF IInv


LEMMA CountedFacts ==
  ASSUME NEW s \in Summarizers(Keys, RunCounts), NEW n \in Nat, NEW n3 \in Nat
  PROVE  /\ Counted(s, n, n3) \in Summarizers(Keys, RunCounts)
         /\ DOMAIN Counted(s, n, n3).runs = DOMAIN s.runs \cup {<<n, n3>>}
         /\ \A k \in DOMAIN s.runs : k # <<n, n3>> => Counted(s, n, n3).runs[k] = s.runs[k]
         /\ Counted(s, n, n3).runs[<<n, n3>>] =
              1 + IF <<n, n3>> \in DOMAIN s.runs THEN s.runs[<<n, n3>>] ELSE 0
<1> DEFINE key == <<n, n3>>
           count == 1 + IF key \in DOMAIN s.runs THEN s.runs[key] ELSE 0
           M == UNION {[E -> Seq(Nat)] : E \in SUBSET Keys}
           runs == Put(s.runs, key, count)
<1>1. PICK D \in SUBSET (Nat \X Nat) : s.runs \in [D -> Nat]
  BY DEF Summarizers, RunCounts
<1>2. s \in [order : Seq(Keys), samples : M, runs : RunCounts]
  BY DEF Summarizers
<1>3. key \in Nat \X Nat
  OBVIOUS
<1>4. Counted(s, n, n3) = [s EXCEPT !.runs = runs]
  BY <1>2 DEF Counted
<1> HIDE DEF key, M
<1>5. count \in Nat
  BY <1>1
<1> HIDE DEF count
<1>6. runs \in [D \cup {key} -> Nat] /\ D \cup {key} \in SUBSET (Nat \X Nat)
  BY <1>1, <1>3, <1>5 DEF Put
<1>7. /\ DOMAIN runs = DOMAIN s.runs \cup {key} /\ runs[key] = count
      /\ \A k \in DOMAIN s.runs : k # key => runs[k] = s.runs[k]
  BY <1>1 DEF Put
<1> HIDE DEF runs
<1>8. runs \in RunCounts
  BY <1>6 DEF RunCounts
<1>9. /\ [s EXCEPT !.runs = runs] \in [order : Seq(Keys), samples : M, runs : RunCounts]
      /\ [s EXCEPT !.runs = runs].runs = runs
  BY <1>2, <1>8
<1> QED BY <1>4, <1>7, <1>9 DEF Summarizers, M, key, count

\* Adding the records of a run keeps the summarizer well formed, and its runs.
LEMMA AddRunKeeps ==
  ASSUME NEW K, NEW R, NEW s, NEW n, NEW n3, NEW len \in Nat, NEW recs,
         DOMAIN recs = 1 .. len,
         Counted(s, n, n3) \in Summarizers(K, R),
         \A i \in 1 .. len : KeyOf(n, n3, recs[i]) \in K /\ recs[i].micros \in Nat
  PROVE  /\ add_run(s, n, n3, recs) \in Summarizers(K, R)
         /\ add_run(s, n, n3, recs).runs = Counted(s, n, n3).runs
<1>1. PICK f : /\ f \in [0 .. len -> Summarizers(K, R)]
               /\ f[0] = Counted(s, n, n3)
               /\ \A i \in 1 .. len : f[i] = AddNth(f[i - 1], n, n3, recs, i)
               /\ f[len] = add_run(s, n, n3, recs)
  BY AddRunStages
<1> DEFINE N == {i \in Nat : i <= len => f[i].runs = Counted(s, n, n3).runs}
<1>2. 0 \in N
  BY <1>1
<1>3. ASSUME NEW i \in N PROVE i + 1 \in N
  <2> SUFFICES ASSUME i + 1 <= len PROVE f[i + 1].runs = Counted(s, n, n3).runs
    OBVIOUS
  <2> DEFINE key == KeyOf(n, n3, recs[i + 1])
             micros == recs[i + 1].micros
  <2>1. i + 1 \in 1 .. len /\ i \in 0 .. len /\ (i + 1) - 1 = i /\ i <= len
    OBVIOUS
  <2>2. f[i + 1] = add_record(f[i], key, micros)
    BY <1>1, <2>1 DEF AddNth
  <2>3. f[i] \in Summarizers(K, R) /\ key \in K /\ micros \in Nat
    BY <1>1, <2>1
  <2> HIDE DEF key, micros
  <2>4. add_record(f[i], key, micros).runs = f[i].runs
    BY <2>3, AddRecordTyped
  <2>5. f[i].runs = Counted(s, n, n3).runs
    BY <1>3, <2>1
  <2> QED BY <2>2, <2>4, <2>5
<1>4. N = Nat
  <2>1. N \subseteq Nat
    OBVIOUS
  <2> HIDE DEF N
  <2> QED BY <1>2, <1>3, <2>1, AllOfNat
<1>5. len \in N /\ len \in 0 .. len
  <2> HIDE DEF N
  <2> QED BY <1>4
<1> QED BY <1>1, <1>5

\* The same of a run with well-formed records.
LEMMA AddRunFacts ==
  ASSUME NEW s \in Summarizers(Keys, RunCounts), NEW n \in Nat, NEW n3 \in Nat,
         NEW recs \in Seq(RecordSet)
  PROVE  /\ add_run(s, n, n3, recs) \in Summarizers(Keys, RunCounts)
         /\ add_run(s, n, n3, recs).runs = Counted(s, n, n3).runs
<1>1. Len(recs) \in Nat /\ DOMAIN recs = 1 .. Len(recs)
  BY LenProperties
<1>2. Counted(s, n, n3) \in Summarizers(Keys, RunCounts)
  BY CountedFacts
<1>3. \A i \in 1 .. Len(recs) : KeyOf(n, n3, recs[i]) \in Keys /\ recs[i].micros \in Nat
  <2> SUFFICES ASSUME NEW i \in 1 .. Len(recs)
               PROVE  KeyOf(n, n3, recs[i]) \in Keys /\ recs[i].micros \in Nat
    OBVIOUS
  <2>1. recs[i] \in RecordSet
    BY <1>1, ElementOfSeq
  <2>2. recs[i].actor \in Actors /\ recs[i].phase \in Phases /\ recs[i].micros \in Nat
    BY <2>1 DEF RecordSet
  <2>3. recs[i].actor.role \in DOMAIN RoleRank
    BY <2>2, OutputFacts DEF Actors
  <2> QED BY <2>2, <2>3 DEF KeyOf, Keys
<1> QED BY <1>1, <1>2, <1>3, AddRunKeeps

LEMMA AddRunStep == IInv /\ AddRun => IInv'
<1> SUFFICES ASSUME IInv, AddRun PROVE IInv'
  OBVIOUS
<1>1. /\ pc = "add_run" /\ pc' = "write_summary"
      /\ summarizer' = add_run(summarizer, Current.n, Current.n3, records)
      /\ rows' = summaries(summarizer') /\ summary' = <<>>
      /\ UNCHANGED <<scenarios, index, run, ok, records, written, raw, failures, exit, done>>
  BY DEF AddRun, configVars, runVars
<1>2. Position /\ Collected /\ index \in DOMAIN scenarios /\ exit = -1 /\ Looping /\ Looping'
  BY <1>1 DEF IInv, Position, Looping
<1>3. /\ scenarios \in Suites /\ Current.n \in Nat /\ Current.n3 \in Nat /\ run \in Nat
      /\ index \in Nat
  BY <1>2, CurrentFacts
<1>4. /\ summarizer' \in Summarizers(Keys, RunCounts)
      /\ summarizer'.runs = Counted(summarizer, Current.n, Current.n3).runs
  BY <1>1, <1>2, <1>3, AddRunFacts DEF Collected
<1>5. Position'
  BY <1>1, <1>2 DEF Position, Current
<1>6. Collected'
  BY <1>1, <1>2, <1>4 DEF Collected, Creating
<1>7. Progress'
  <2>1. MadeHere' = MadeHere
    BY <1>1 DEF MadeHere
  <2> QED BY <1>1, <1>2, <2>1, SameRuns DEF IInv, Progress
<1>8. Counting'
  <2> SUFFICES ASSUME failures = 0, NEW s \in DOMAIN scenarios
               PROVE  LET scenario == <<scenarios[s].n, scenarios[s].n3>>
                      IN  /\ scenario \in DOMAIN summarizer'.runs =>
                               summarizer'.runs[scenario] = CountOf(s)'
                          /\ scenario \notin DOMAIN summarizer'.runs => CountOf(s)' = 0
    BY <1>1 DEF Counting
  <2> DEFINE scenario == <<scenarios[s].n, scenarios[s].n3>>
             here == <<Current.n, Current.n3>>
  <2>1. /\ scenario \in DOMAIN summarizer.runs => summarizer.runs[scenario] = CountOf(s)
        /\ scenario \notin DOMAIN summarizer.runs => CountOf(s) = 0
    BY <1>2 DEF IInv, Counting
  <2>2. /\ DOMAIN summarizer'.runs = DOMAIN summarizer.runs \cup {here}
        /\ \A k \in DOMAIN summarizer.runs :
             k # here => summarizer'.runs[k] = summarizer.runs[k]
        /\ summarizer'.runs[here] =
             1 + IF here \in DOMAIN summarizer.runs THEN summarizer.runs[here] ELSE 0
    <3>1. summarizer \in Summarizers(Keys, RunCounts)
      BY <1>2 DEF Collected
    <3> QED BY <1>3, <1>4, <3>1, CountedFacts
  <2>3. CASE s = index
    <3>1. scenario = here
      BY <2>3 DEF Current
    <3>2. CountOf(s) = run - 1 /\ CountOf(s)' = run
      BY <1>1, <1>3, <2>3 DEF CountOf, CountedHere
    <3> HIDE DEF scenario, here
    <3> QED BY <1>3, <2>1, <2>2, <3>1, <3>2 DEF scenario
  <2>4. CASE s # index
    <3>1. scenario # here
      <4>1. ~(scenarios[s].n = scenarios[index].n /\ scenarios[s].n3 = scenarios[index].n3)
        BY <1>2, <1>3, <2>4, SuiteFacts
      <4> QED BY <4>1 DEF Current
    <3>2. CountOf(s)' = CountOf(s)
      BY <1>1, <2>4 DEF CountOf, CountedHere
    <3> HIDE DEF scenario, here
    <3> QED BY <2>1, <2>2, <3>1, <3>2 DEF scenario
  <2> QED BY <2>3, <2>4
<1>9. SummaryInv'
  <2> DEFINE S == ToSet(summaries(summarizer'))
  <2>1. rows' \in Seq(S)
    <3>1. IsSequence(summaries(summarizer'))
      BY <1>4, SummariesFacts
    <3> QED BY <1>1, <3>1 DEF IsSequence
  <2>2. summary' \in Seq(S) /\ summary' \o rows' = rows'
    BY <1>1, <2>1, ConcatEmptySeq
  <2> QED BY <1>1, <2>1, <2>2 DEF SummaryInv, Creating
<1>10. RawInv'
  BY <1>1, <1>2, SameRuns DEF IInv, RawInv
<1> QED BY <1>5, <1>6, <1>7, <1>8, <1>9, <1>10 DEF IInv

LEMMA ExitStep == IInv /\ Exit => IInv'
<1> SUFFICES ASSUME IInv, Exit PROVE IInv'
  OBVIOUS
<1>1. /\ pc = "run" /\ pc' = "exited" /\ index > Len(scenarios)
      /\ exit' = IF failures > 0 THEN 1 ELSE 0
      /\ UNCHANGED <<scenarios, index, run, ok, records, written, raw, summary, summarizer,
                     rows, failures, done>>
  BY DEF Exit, configVars, runVars, fileVars
<1>2. /\ Looping /\ Looping' /\ MadeHere' = MadeHere /\ CountedHere' = CountedHere
  BY <1>1 DEF Looping, MadeHere, CountedHere
<1>3. failures \in Nat
  <2>1. failures \in 0 .. Len(done) /\ Len(done) \in Nat
    BY LenProperties DEF IInv, Collected
  <2> QED BY <2>1
<1>4. exit' \in {0, 1} /\ (exit' = 0 => failures = 0) /\ (exit' = 1 => failures # 0)
  BY <1>1, <1>3
<1>5. Position'
  <2>1. index = Len(scenarios) + 1 /\ scenarios # <<>>
    <3>1. scenarios \in Suites /\ scenarios # <<>>
      BY <1>1 DEF IInv, Position
    <3> QED BY <1>1, <3>1, SuiteFacts DEF IInv, Position
  <2> QED BY <1>1, <1>4, <2>1 DEF IInv, Position, Current
<1>6. Collected'
  BY <1>1 DEF IInv, Collected, Creating
<1>7. Progress'
  BY <1>1, <1>2, SameRuns DEF IInv, Progress
<1>8. Counting'
  BY <1>1, <1>2 DEF IInv, Counting, CountOf
<1>9. SummaryInv'
  BY <1>1, <1>2 DEF IInv, SummaryInv, Creating
<1>10. RawInv'
  BY <1>1, <1>2, SameRuns DEF IInv, RawInv
<1> QED BY <1>5, <1>6, <1>7, <1>8, <1>9, <1>10 DEF IInv

LEMMA InterruptStep == IInv /\ Interrupt => IInv'
<1> SUFFICES ASSUME IInv, Interrupt PROVE IInv'
  OBVIOUS
<1>1. /\ pc' = "interrupted" /\ pc \notin {"exited", "panicked", "interrupted"}
      /\ UNCHANGED <<scenarios, index, run, ok, records, written, raw, summary, summarizer,
                     rows, failures, exit, done>>
  BY DEF Interrupt, Running, configVars, runVars, fileVars
<1>2. exit = -1 /\ ~Looping'
  BY <1>1 DEF IInv, Position, Looping
<1>3. Position'
  BY <1>1, <1>2 DEF IInv, Position, Current
<1>4. Collected'
  BY <1>1 DEF IInv, Collected, Creating
<1>5. SummaryInv'
  BY <1>1, <1>2 DEF SummaryInv, Creating
<1>6. RawInv'
  <2>1. Position /\ SummaryInv /\ RawInv
    BY DEF IInv
  <2>2. DOMAIN raw' = DOMAIN RoleRank
    BY <1>1, <2>1 DEF RawInv
  <2>3. \/ summary = OldRows
        \/ \A role \in DOMAIN RoleRank : raw[role] = Kept(role)
        \/ /\ index \in DOMAIN scenarios
           /\ \A role \in DOMAIN RoleRank : raw[role] = Kept(role) \o Writing(role, written)
    <3>1. CASE pc \in Creating \cup {"args"}
      BY <2>1, <3>1 DEF SummaryInv
    <3>2. CASE pc = "write_raw"
      BY <2>1, <3>2 DEF Position, RawInv
    <3>3. CASE pc \in {"build", "run", "add_run", "write_summary"}
      <4>1. pc \in {"build", "panicked"} \/ (Looping /\ pc # "write_raw")
        BY <3>3 DEF Looping
      <4> QED BY <2>1, <4>1 DEF RawInv
    <3> QED BY <1>1, <2>1, <3>1, <3>2, <3>3 DEF Position
  <2>4. \A role, k : Writing(role, k)' = Writing(role, k)
    BY <1>1 DEF Writing, Current
  <2>5. \A role : Kept(role)' = Kept(role)
    BY <1>1, SameRuns
  <2>6. \/ summary' = OldRows
        \/ \A role \in DOMAIN RoleRank : raw'[role] = Kept(role)'
        \/ /\ index' \in DOMAIN scenarios'
           /\ \A role \in DOMAIN RoleRank : raw'[role] = Kept(role)' \o Writing(role, written)'
    <3>1. \A role : Writing(role, written)' = Writing(role, written)
      BY <1>1 DEF Writing, Current
    <3> QED BY <1>1, <2>3, <2>5, <3>1
  <2> QED BY <1>1, <1>2, <2>2, <2>6 DEF RawInv
<1> QED BY <1>2, <1>3, <1>4, <1>5, <1>6 DEF IInv, Progress, Counting

LEMMA StutterStep == IInv /\ UNCHANGED vars => IInv'
<1> SUFFICES ASSUME IInv, UNCHANGED vars PROVE IInv'
  OBVIOUS
<1>1. UNCHANGED <<pc, scenarios, index, run, ok, records, written, raw, summary, summarizer,
                  rows, failures, exit, done>>
  BY DEF vars, configVars, runVars, fileVars
<1>2. Looping' = Looping /\ MadeHere' = MadeHere /\ CountedHere' = CountedHere
  BY <1>1 DEF Looping, MadeHere, CountedHere
<1>3. Position' /\ Collected' /\ SummaryInv'
  BY <1>1, <1>2 DEF IInv, Position, Collected, SummaryInv, Current
<1>4. Progress'
  BY <1>1, <1>2, SameRuns DEF IInv, Progress
<1>5. Counting'
  BY <1>1, <1>2 DEF IInv, Counting, CountOf
<1>6. RawInv'
  <2>1. \A role : Writing(role, written)' = Writing(role, written) /\ Kept(role)' = Kept(role)
    BY <1>1, SameRuns DEF Writing, Current
  <2> QED BY <1>1, <1>2, <2>1 DEF IInv, RawInv
<1> QED BY <1>3, <1>4, <1>5, <1>6 DEF IInv

LEMMA IInvTheorem == Spec => []IInv
<1>1. IInv /\ [Next]_vars => IInv'
  BY ParseArgsStep, CreateRawFilesStep, CreateSummaryStep, BuildStep, RunScenarioStep,
     WriteRawStep, RunFailedStep, RunSucceededStep, AddRunStep, WriteSummaryStep, SummaryWrittenStep, ExitStep,
     InterruptStep, StutterStep DEF Next
<1> QED BY <1>1, InitIInv, PTL DEF Spec


-----------------------------------------------------------------------------
(* Mapping a sequence to sequences, and flattening *)

\* Induction over the sequences of S, for a set instead of a predicate.
LEMMA AllOfSeq ==
  ASSUME NEW S, NEW T \in SUBSET Seq(S), <<>> \in T,
         \A s \in T : \A x \in S : Append(s, x) \in T
  PROVE  T = Seq(S)
<1> DEFINE N == {n \in Nat : \A s \in Seq(S) : Len(s) = n => s \in T}
<1>1. 0 \in N
  BY EmptySeq
<1>2. ASSUME NEW n \in N PROVE n + 1 \in N
  <2> SUFFICES ASSUME NEW s \in Seq(S), Len(s) = n + 1 PROVE s \in T
    OBVIOUS
  <2>1. s # <<>>
    BY EmptySeq
  <2>2. PICK u \in Seq(S), x \in S : s = Append(u, x)
    BY <2>1, SequenceEmptyOrAppend
  <2>3. Len(u) = n
    BY <2>2, AppendProperties, LenProperties
  <2> QED BY <2>2, <2>3
<1>3. N = Nat
  <2>1. N \subseteq Nat
    OBVIOUS
  <2> HIDE DEF N
  <2> QED BY <1>1, <1>2, <2>1, AllOfNat
<1>4. ASSUME NEW s \in Seq(S) PROVE s \in T
  <2>1. Len(s) \in N
    <3> HIDE DEF N
    <3> QED BY <1>3, LenProperties
  <2> QED BY <2>1
<1> QED BY <1>4

FlatMap(f, s) == FlattenSeq([i \in DOMAIN s |-> f[s[i]]])

LEMMA FlatMapTyped ==
  ASSUME NEW S, NEW T, NEW f \in [S -> Seq(T)], NEW s \in Seq(S)
  PROVE  /\ FlatMap(f, s) \in Seq(T)
         /\ [i \in DOMAIN s |-> f[s[i]]] \in Seq(Seq(T))
         /\ Len([i \in DOMAIN s |-> f[s[i]]]) = Len(s)
<1> DEFINE parts == [i \in DOMAIN s |-> f[s[i]]]
<1>1. DOMAIN s = 1 .. Len(s) /\ Len(s) \in Nat /\ \A i \in DOMAIN s : s[i] \in S
  BY LenProperties, ElementOfSeq
<1>2. parts \in [1 .. Len(s) -> Seq(T)]
  BY <1>1
<1>3. parts \in Seq(Seq(T)) /\ Len(parts) = Len(s)
  BY <1>1, <1>2
<1>4. FlatMap(f, s) = FlattenSeq(parts)
  BY DEF FlatMap
<1> HIDE DEF parts
<1>5. FlatMap(f, s) \in Seq(T)
  BY <1>3, <1>4, FlattenTyped
<1> QED BY <1>3, <1>5 DEF parts

LEMMA FlatMapEmpty ==
  ASSUME NEW f
  PROVE  FlatMap(f, <<>>) = <<>>
<1>1. [i \in DOMAIN <<>> |-> f[<<>>[i]]] = <<>>
  OBVIOUS
<1> QED BY <1>1, FlattenEmpty DEF FlatMap

LEMMA FlatMapAppend ==
  ASSUME NEW S, NEW T, NEW f \in [S -> Seq(T)], NEW s \in Seq(S), NEW x \in S
  PROVE  FlatMap(f, Append(s, x)) = FlatMap(f, s) \o f[x]
<1> DEFINE t == Append(s, x)
           parts == [i \in DOMAIN s |-> f[s[i]]]
           more == [i \in DOMAIN t |-> f[t[i]]]
<1>1. /\ t \in Seq(S) /\ Len(t) = Len(s) + 1 /\ Len(s) \in Nat
      /\ DOMAIN s = 1 .. Len(s) /\ DOMAIN t = 1 .. Len(s) + 1
      /\ \A i \in 1 .. Len(s) : t[i] = s[i]
      /\ t[Len(s) + 1] = x
  BY AppendProperties, LenProperties
<1> HIDE DEF t
<1>2. /\ parts \in Seq(Seq(T)) /\ Len(parts) = Len(s)
      /\ more \in Seq(Seq(T)) /\ Len(more) = Len(t)
  BY <1>1, FlatMapTyped
<1>3. \A i \in 1 .. Len(s) : more[i] = parts[i]
  <2>1. \A i \in 1 .. Len(s) : i \in 1 .. Len(s) + 1
    BY <1>1
  <2> QED BY <1>1, <2>1
<1>4. more[Len(s) + 1] = f[x]
  BY <1>1
<1>5. FlatMap(f, t) = FlattenSeq(more) /\ FlatMap(f, s) = FlattenSeq(parts)
  BY DEF FlatMap
<1> HIDE DEF parts, more
<1>6. Len(more) = Len(parts) + 1 /\ \A i \in 1 .. Len(parts) : more[i] = parts[i]
  BY <1>1, <1>2, <1>3
<1>7. FlattenSeq(more) = FlattenSeq(parts) \o more[Len(more)]
  BY <1>2, <1>6, FlattenAppended
<1> QED BY <1>1, <1>2, <1>4, <1>5, <1>7 DEF t

LEMMA FlatMapConcat ==
  ASSUME NEW S, NEW T, NEW f \in [S -> Seq(T)], NEW s \in Seq(S), NEW t \in Seq(S)
  PROVE  FlatMap(f, s \o t) = FlatMap(f, s) \o FlatMap(f, t)
<1> DEFINE M == {u \in Seq(S) : FlatMap(f, s \o u) = FlatMap(f, s) \o FlatMap(f, u)}
<1>1. <<>> \in M
  <2>1. s \o <<>> = s /\ FlatMap(f, s) \o <<>> = FlatMap(f, s) /\ <<>> \in Seq(S)
    BY FlatMapTyped, ConcatEmptySeq, EmptySeq
  <2> QED BY <2>1, FlatMapEmpty
<1>2. ASSUME NEW u \in M, NEW x \in S PROVE Append(u, x) \in M
  <2>1. u \in Seq(S) /\ FlatMap(f, s \o u) = FlatMap(f, s) \o FlatMap(f, u)
    OBVIOUS
  <2>2. Append(u, x) \in Seq(S) /\ s \o u \in Seq(S)
    BY <2>1, AppendProperties, ConcatProperties
  <2>3. s \o Append(u, x) = Append(s \o u, x)
    BY <2>1, ConcatAppend
  <2>4. FlatMap(f, Append(s \o u, x)) = FlatMap(f, s \o u) \o f[x]
    BY <2>2, FlatMapAppend
  <2>5. FlatMap(f, Append(u, x)) = FlatMap(f, u) \o f[x]
    BY <2>1, FlatMapAppend
  <2>6. FlatMap(f, s) \in Seq(T) /\ FlatMap(f, u) \in Seq(T) /\ f[x] \in Seq(T)
    BY <2>1, FlatMapTyped
  <2>7. (FlatMap(f, s) \o FlatMap(f, u)) \o f[x] = FlatMap(f, s) \o (FlatMap(f, u) \o f[x])
    BY <2>6, ConcatAssociative
  <2>8. FlatMap(f, s \o Append(u, x)) = FlatMap(f, s) \o FlatMap(f, Append(u, x))
    BY <2>1, <2>3, <2>4, <2>5, <2>7, Zenon
  <2> QED BY <2>2, <2>8
<1>3. M = Seq(S)
  <2>1. M \in SUBSET Seq(S)
    OBVIOUS
  <2> HIDE DEF M
  <2> QED BY <1>1, <1>2, <2>1, AllOfSeq
<1> QED BY <1>3

IsMap(f, S, T) == f \in [S -> Seq(T)]

LEMMA FlatMapConcats ==
  ASSUME NEW S, NEW T, NEW f, IsMap(f, S, T)
  PROVE  \A s, t \in Seq(S) : FlatMap(f, s \o t) = FlatMap(f, s) \o FlatMap(f, t)
<1>1. f \in [S -> Seq(T)]
  BY DEF IsMap
<1> SUFFICES ASSUME NEW s \in Seq(S), NEW t \in Seq(S)
             PROVE  FlatMap(f, s \o t) = FlatMap(f, s) \o FlatMap(f, t)
  OBVIOUS
<1> QED BY <1>1, FlatMapConcat

LEMMA FlatMapAppends ==
  ASSUME NEW S, NEW T, NEW f \in [S -> Seq(T)]
  PROVE  \A s \in Seq(S), x \in S : FlatMap(f, Append(s, x)) = FlatMap(f, s) \o f[x]
<1> SUFFICES ASSUME NEW s \in Seq(S), NEW x \in S
             PROVE  FlatMap(f, Append(s, x)) = FlatMap(f, s) \o f[x]
  OBVIOUS
<1> QED BY FlatMapAppend

\* Mapping twice.
Twice(S, f, g) == [x \in S |-> FlatMap(g, f[x])]

LEMMA FlatMapTwice ==
  ASSUME NEW S, NEW T, NEW U, NEW f, NEW g, IsMap(f, S, T), IsMap(g, T, U)
  PROVE  \A s \in Seq(S) :
           FlatMap(g, FlatMap(f, s)) = FlatMap(Twice(S, f, g), s)
<1>0. \A a, b \in Seq(T) : FlatMap(g, a \o b) = FlatMap(g, a) \o FlatMap(g, b)
  BY FlatMapConcats
<1>5. f \in [S -> Seq(T)] /\ g \in [T -> Seq(U)]
  BY DEF IsMap
<1> DEFINE h == Twice(S, f, g)
<1>4. h \in [S -> Seq(U)] /\ \A x \in S : h[x] = FlatMap(g, f[x])
  BY <1>5, FlatMapTyped DEF Twice
<1> HIDE DEF h
<1> DEFINE M == {u \in Seq(S) : FlatMap(g, FlatMap(f, u)) = FlatMap(h, u)}
<1>1. <<>> \in M
  <2>1. FlatMap(f, <<>>) = <<>> /\ FlatMap(g, <<>>) = <<>> /\ FlatMap(h, <<>>) = <<>>
    BY FlatMapEmpty
  <2> QED BY <2>1, EmptySeq
<1>2. ASSUME NEW u \in M, NEW x \in S PROVE Append(u, x) \in M
  <2>1. u \in Seq(S) /\ FlatMap(g, FlatMap(f, u)) = FlatMap(h, u)
    OBVIOUS
  <2>2. Append(u, x) \in Seq(S) /\ f[x] \in Seq(T) /\ FlatMap(f, u) \in Seq(T)
    BY <1>5, <2>1, AppendProperties, FlatMapTyped
  <2>3. FlatMap(f, Append(u, x)) = FlatMap(f, u) \o f[x]
    BY <1>5, <2>1, FlatMapAppend
  <2>4. FlatMap(g, FlatMap(f, u) \o f[x]) = FlatMap(g, FlatMap(f, u)) \o FlatMap(g, f[x])
    BY <1>0, <2>2
  <2>5. FlatMap(h, Append(u, x)) = FlatMap(h, u) \o h[x]
    BY <1>4, <2>1, FlatMapAppend
  <2>6. FlatMap(g, FlatMap(f, Append(u, x))) = FlatMap(h, Append(u, x))
    <3>1. h[x] = FlatMap(g, f[x])
      BY <1>4
    <3> QED BY <2>1, <2>3, <2>4, <2>5, <3>1, Zenon
  <2> QED BY <2>2, <2>6
<1>3. M = Seq(S)
  <2>1. M \in SUBSET Seq(S)
    OBVIOUS
  <2> HIDE DEF M
  <2> QED BY <1>1, <1>2, <2>1, AllOfSeq
<1> QED BY <1>3 DEF h

LEMMA FlatMapNone ==
  ASSUME NEW S, NEW T, NEW f \in [S -> Seq(T)], NEW s \in Seq(S),
         \A i \in 1 .. Len(s) : f[s[i]] = <<>>
  PROVE  FlatMap(f, s) = <<>>
<1> DEFINE M == {u \in Seq(S) : (\A i \in 1 .. Len(u) : f[u[i]] = <<>>) => FlatMap(f, u) = <<>>}
<1>1. <<>> \in M
  BY FlatMapEmpty, EmptySeq
<1>2. ASSUME NEW u \in M, NEW x \in S PROVE Append(u, x) \in M
  <2> SUFFICES ASSUME \A i \in 1 .. Len(Append(u, x)) : f[Append(u, x)[i]] = <<>>
               PROVE  FlatMap(f, Append(u, x)) = <<>>
    BY AppendProperties
  <2>1. u \in Seq(S) /\ ((\A i \in 1 .. Len(u) : f[u[i]] = <<>>) => FlatMap(f, u) = <<>>)
    OBVIOUS
  <2>2. /\ Len(Append(u, x)) = Len(u) + 1 /\ Len(u) \in Nat
        /\ \A i \in 1 .. Len(u) : Append(u, x)[i] = u[i]
        /\ Append(u, x)[Len(u) + 1] = x
    BY <2>1, AppendProperties, LenProperties
  <2>3. \A i \in 1 .. Len(u) : i \in 1 .. Len(u) + 1
    BY <2>2
  <2>4. f[x] = <<>> /\ \A i \in 1 .. Len(u) : f[u[i]] = <<>>
    <3>1. Len(u) + 1 \in 1 .. Len(u) + 1
      BY <2>2
    <3> QED BY <2>2, <2>3, <3>1
  <2>5. FlatMap(f, Append(u, x)) = FlatMap(f, u) \o f[x]
    BY <2>1, FlatMapAppend
  <2>6. <<>> \o <<>> = <<>>
    OBVIOUS
  <2> QED BY <2>1, <2>4, <2>5, <2>6
<1>3. M = Seq(S)
  <2>1. M \in SUBSET Seq(S)
    OBVIOUS
  <2> HIDE DEF M
  <2> QED BY <1>1, <1>2, <2>1, AllOfSeq
<1> QED BY <1>3

-----------------------------------------------------------------------------
(* Totals *)

\* A total is reached adding one value after the other.
LEMMA TotalStages ==
  ASSUME NEW n \in Nat, NEW v \in [1 .. n -> Int]
  PROVE  \E f : /\ f \in [0 .. n -> Int]
                /\ f[0] = 0
                /\ \A i \in 1 .. n : f[i] = f[i - 1] + v[i]
                /\ f[n] = Total(v)
<1> DEFINE step == [p \in Int \X (1 .. n) |-> p[1] + v[p[2]]]
           g == CHOOSE h : h = [u \in SUBSET (1 .. n) |->
                  IF u = {} THEN 0 ELSE h[u \ {Max(u)}] + v[Max(u)]]
<1>1. Total(v) = g[1 .. n]
  BY DEF Total, FoldLeft, MapThenFoldSet
<1>2. step \in [Int \X (1 .. n) -> Int] /\ 0 \in Int
  OBVIOUS
<1>3. PICK h \in [SUBSET (1 .. n) -> Int] :
        /\ FoldsUp(h, step, 0, n)
        /\ \A u \in SUBSET (1 .. n) : u # {} => Max(u) \in u
  <2> HIDE DEF step
  <2> QED BY <1>2, FoldExists
<1>4. h = [u \in SUBSET (1 .. n) |-> IF u = {} THEN 0 ELSE h[u \ {Max(u)}] + v[Max(u)]]
  <2> DEFINE hh == [u \in SUBSET (1 .. n) |->
               IF u = {} THEN 0 ELSE h[u \ {Max(u)}] + v[Max(u)]]
             hs == [u \in SUBSET (1 .. n) |->
               IF u = {} THEN 0 ELSE step[<<h[u \ {Max(u)}], Max(u)>>]]
  <2>1. ASSUME NEW u \in SUBSET (1 .. n), u # {}
        PROVE  step[<<h[u \ {Max(u)}], Max(u)>>] = h[u \ {Max(u)}] + v[Max(u)]
    <3>1. h[u \ {Max(u)}] \in Int /\ Max(u) \in 1 .. n
      BY <1>3, <2>1
    <3>2. \A a \in Int, i \in 1 .. n : step[<<a, i>>] = a + v[i]
      OBVIOUS
    <3> HIDE DEF step
    <3> QED BY <3>1, <3>2
  <2> HIDE DEF step
  <2>2. hh = hs
    BY <2>1, Zenon
  <2>3. h = hs
    BY <1>3 DEF FoldsUp
  <2> QED BY <2>2, <2>3
<1>5. g = [u \in SUBSET (1 .. n) |-> IF u = {} THEN 0 ELSE g[u \ {Max(u)}] + v[Max(u)]]
  BY <1>4
<1>6. /\ g[1 .. 0] = 0
      /\ \A i \in 1 .. n : g[1 .. i] = g[1 .. i - 1] + v[i]
  <2> HIDE DEF g
  <2>1. \A u \in SUBSET (1 .. n) : g[u] = IF u = {} THEN 0 ELSE g[u \ {Max(u)}] + v[Max(u)]
    BY <1>5
  <2>2. g[1 .. 0] = 0
    <3>1. 1 .. 0 = {} /\ {} \in SUBSET (1 .. n)
      OBVIOUS
    <3> QED BY <2>1, <3>1
  <2>3. ASSUME NEW i \in 1 .. n
        PROVE  g[1 .. i] = g[1 .. i - 1] + v[i]
    <3>1. i \in Nat \ {0} /\ i \in 1 .. i /\ \A j \in 1 .. i : j \in 1 .. n
      OBVIOUS
    <3>2. Max(1 .. i) = i /\ (1 .. i) \ {i} = 1 .. i - 1
      BY <3>1, MaxOfInterval
    <3>3. 1 .. i \in SUBSET (1 .. n) /\ 1 .. i # {}
      BY <3>1
    <3> QED BY <2>1, <3>2, <3>3
  <2> QED BY <2>2, <2>3
<1> DEFINE f == [i \in 0 .. n |-> g[1 .. i]]
<1>7. /\ f[0] = 0
      /\ \A i \in 1 .. n : f[i] = f[i - 1] + v[i]
      /\ f[n] = Total(v)
      /\ DOMAIN f = 0 .. n
  <2> HIDE DEF g
  <2>1. \A i \in 1 .. n : i \in 0 .. n /\ i - 1 \in 0 .. n
    OBVIOUS
  <2>2. 0 \in 0 .. n /\ n \in 0 .. n
    OBVIOUS
  <2> QED BY <1>1, <1>6, <2>1, <2>2
<1>8. \A i \in 0 .. n : f[i] \in Int
  <2> DEFINE N == {i \in Nat : i <= n => f[i] \in Int}
  <2> HIDE DEF f, g
  <2>1. 0 \in N
    BY <1>7
  <2>2. ASSUME NEW i \in N PROVE i + 1 \in N
    <3>1. i + 1 <= n => i <= n /\ i + 1 \in 1 .. n /\ (i + 1) - 1 = i
      OBVIOUS
    <3> QED BY <1>7, <3>1
  <2>3. N = Nat
    <3>1. N \subseteq Nat
      OBVIOUS
    <3> HIDE DEF N
    <3> QED BY <2>1, <2>2, <3>1, AllOfNat
  <2> QED BY <2>3
<1> HIDE DEF f, g
<1>9. f \in [0 .. n -> Int]
  <2>1. f = [i \in 0 .. n |-> f[i]]
    BY DEF f
  <2> QED BY <1>8, <2>1
<1> QED BY <1>7, <1>9

LEMMA TotalFacts ==
  ASSUME NEW n \in Nat, NEW v \in [1 .. n -> Int]
  PROVE  /\ Total(v) \in Int
         /\ n = 0 => Total(v) = 0
         /\ \A w \in [1 .. n + 1 -> Int] :
              (\A i \in 1 .. n : w[i] = v[i]) => Total(w) = Total(v) + w[n + 1]
<1>1. PICK f : /\ f \in [0 .. n -> Int] /\ f[0] = 0
               /\ \A i \in 1 .. n : f[i] = f[i - 1] + v[i]
               /\ f[n] = Total(v)
  BY TotalStages
<1>2. Total(v) \in Int /\ (n = 0 => Total(v) = 0)
  BY <1>1
<1>3. ASSUME NEW w \in [1 .. n + 1 -> Int], \A i \in 1 .. n : w[i] = v[i]
      PROVE  Total(w) = Total(v) + w[n + 1]
  <2>1. n + 1 \in Nat
    OBVIOUS
  <2>2. PICK g : /\ g \in [0 .. n + 1 -> Int] /\ g[0] = 0
                 /\ \A i \in 1 .. n + 1 : g[i] = g[i - 1] + w[i]
                 /\ g[n + 1] = Total(w)
    BY <2>1, TotalStages
  <2> DEFINE N == {i \in Nat : i <= n => g[i] = f[i]}
  <2>3. 0 \in N
    BY <1>1, <2>2
  <2>4. ASSUME NEW i \in N PROVE i + 1 \in N
    <3> SUFFICES ASSUME i + 1 <= n PROVE g[i + 1] = f[i + 1]
      OBVIOUS
    <3>1. i + 1 \in 1 .. n /\ i + 1 \in 1 .. n + 1 /\ (i + 1) - 1 = i /\ i <= n
      OBVIOUS
    <3>2. g[i] = f[i]
      BY <3>1
    <3>3. g[i + 1] = g[i] + w[i + 1] /\ f[i + 1] = f[i] + v[i + 1]
      BY <1>1, <2>2, <3>1
    <3> QED BY <1>3, <3>1, <3>2, <3>3
  <2>5. N = Nat
    <3>1. N \subseteq Nat
      OBVIOUS
    <3> HIDE DEF N
    <3> QED BY <2>3, <2>4, <3>1, AllOfNat
  <2>6. g[n] = f[n]
    BY <2>5
  <2>7. n + 1 \in 1 .. n + 1 /\ (n + 1) - 1 = n
    OBVIOUS
  <2>8. g[n + 1] = g[n] + w[n + 1]
    BY <2>2, <2>7
  <2> QED BY <1>1, <2>2, <2>6, <2>8
<1> QED BY <1>2, <1>3

LEMMA Expand ==
  ASSUME NEW k \in Int, NEW x \in Int, NEW t \in Int, NEW q \in Int, NEW u \in Int, NEW c \in Int
  PROVE  /\ (k * (x * x) - 2 * (x * t) + q) + (x - u) * (x - u)
              = (k + 1) * (x * x) - 2 * (x * (t + u)) + (q + u * u)
         /\ (k * q - t * t) + (k * (x * x) - 2 * (x * t) + q)
              = (k + 1) * (q + x * x) - (t + x) * (t + x)
         /\ ((c * c) * q - 2 * ((c * x) * t) + k * (x * x)) + (c * u - x) * (c * u - x)
              = (c * c) * (q + u * u) - 2 * ((c * x) * (t + u)) + (k + 1) * (x * x)
         /\ (k * k) * q - 2 * ((k * t) * t) + k * (t * t) = k * (k * q - t * t)
OBVIOUS

\* Of the first k of the values v: themselves, their squares, the squares of
\* their distances to x, of their deviations from t / c, and for each the total
\* of the squared distances to those before it.
Firsts(v, k) == [i \in 1 .. k |-> v[i]]
Squares(v, k) == [i \in 1 .. k |-> v[i] * v[i]]
Distances(v, x, k) == [i \in 1 .. k |-> (x - v[i]) * (x - v[i])]
Deviations(v, c, t, k) == [i \in 1 .. k |-> (c * v[i] - t) * (c * v[i] - t)]
Gaps(v, k) == [j \in 1 .. k |-> Total([i \in 1 .. j - 1 |-> (v[j] - v[i]) * (v[j] - v[i])])]

LEMMA TotalOneMore ==
  ASSUME NEW k \in Nat, NEW v \in [1 .. k -> Int], NEW w \in [1 .. k + 1 -> Int],
         \A i \in 1 .. k : w[i] = v[i]
  PROVE  Total(v) \in Int /\ Total(w) = Total(v) + w[k + 1]
BY TotalFacts

LEMMA TotalOfNone ==
  ASSUME NEW v \in [1 .. 0 -> Int]
  PROVE  Total(v) = 0
BY TotalFacts

LEMMA DistanceTotals ==
  ASSUME NEW n \in Nat, NEW v \in [1 .. n -> Int], NEW x \in Int, NEW k \in 0 .. n
  PROVE  /\ Total(Firsts(v, k)) \in Int /\ Total(Squares(v, k)) \in Int
         /\ Total(Distances(v, x, k))
              = k * (x * x) - 2 * (x * Total(Firsts(v, k))) + Total(Squares(v, k))
<1> DEFINE N == {m \in Nat : m <= n =>
                   /\ Total(Firsts(v, m)) \in Int /\ Total(Squares(v, m)) \in Int
                   /\ Total(Distances(v, x, m))
                        = m * (x * x) - 2 * (x * Total(Firsts(v, m))) + Total(Squares(v, m))}
<1>1. ASSUME NEW m \in 0 .. n
      PROVE  /\ Firsts(v, m) \in [1 .. m -> Int] /\ Squares(v, m) \in [1 .. m -> Int]
             /\ Distances(v, x, m) \in [1 .. m -> Int]
  <2>1. \A i \in 1 .. m : i \in 1 .. n
    OBVIOUS
  <2>2. \A i \in 1 .. m : v[i] \in Int
    BY <2>1
  <2> QED BY <2>2 DEF Firsts, Squares, Distances
<1>2. 0 \in N
  <2>1. /\ Firsts(v, 0) \in [1 .. 0 -> Int] /\ Squares(v, 0) \in [1 .. 0 -> Int]
        /\ Distances(v, x, 0) \in [1 .. 0 -> Int]
    BY <1>1
  <2>2. Total(Firsts(v, 0)) = 0 /\ Total(Squares(v, 0)) = 0 /\ Total(Distances(v, x, 0)) = 0
    BY <2>1, TotalOfNone
  <2> QED BY <2>2
<1>3. ASSUME NEW m \in N, m + 1 <= n
      PROVE  /\ Total(Firsts(v, m + 1)) \in Int /\ Total(Squares(v, m + 1)) \in Int
             /\ Total(Distances(v, x, m + 1))
                  = (m + 1) * (x * x) - 2 * (x * Total(Firsts(v, m + 1)))
                    + Total(Squares(v, m + 1))
  <2> DEFINE t == Total(Firsts(v, m))
             q == Total(Squares(v, m))
             d == Total(Distances(v, x, m))
             u == v[m + 1]
  <2>1. m \in Nat /\ m \in 0 .. n /\ m + 1 \in 0 .. n /\ m + 1 \in 1 .. n /\ m + 1 \in 1 .. m + 1
    BY <1>3
  <2>2. t \in Int /\ q \in Int /\ d = m * (x * x) - 2 * (x * t) + q
    BY <1>3, <2>1
  <2>3. u \in Int
    BY <2>1
  <2>4. /\ Firsts(v, m) \in [1 .. m -> Int] /\ Squares(v, m) \in [1 .. m -> Int]
        /\ Distances(v, x, m) \in [1 .. m -> Int]
        /\ Firsts(v, m + 1) \in [1 .. m + 1 -> Int] /\ Squares(v, m + 1) \in [1 .. m + 1 -> Int]
        /\ Distances(v, x, m + 1) \in [1 .. m + 1 -> Int]
    BY <1>1, <2>1
  <2>5. /\ \A i \in 1 .. m : Firsts(v, m + 1)[i] = Firsts(v, m)[i]
        /\ \A i \in 1 .. m : Squares(v, m + 1)[i] = Squares(v, m)[i]
        /\ \A i \in 1 .. m : Distances(v, x, m + 1)[i] = Distances(v, x, m)[i]
    <3>1. \A i \in 1 .. m : i \in 1 .. m + 1
      BY <2>1
    <3> QED BY <3>1 DEF Firsts, Squares, Distances
  <2>6. /\ Firsts(v, m + 1)[m + 1] = u /\ Squares(v, m + 1)[m + 1] = u * u
        /\ Distances(v, x, m + 1)[m + 1] = (x - u) * (x - u)
    BY <2>1 DEF Firsts, Squares, Distances
  <2> HIDE DEF N, u
  <2>7. Total(Firsts(v, m + 1)) = t + u
    BY <2>1, <2>4, <2>5, <2>6, TotalOneMore
  <2>8. Total(Squares(v, m + 1)) = q + u * u
    BY <2>1, <2>4, <2>5, <2>6, TotalOneMore
  <2>9. Total(Distances(v, x, m + 1)) = d + (x - u) * (x - u)
    BY <2>1, <2>4, <2>5, <2>6, TotalOneMore
  <2> HIDE DEF t, q, d
  <2>10. (m * (x * x) - 2 * (x * t) + q) + (x - u) * (x - u)
           = (m + 1) * (x * x) - 2 * (x * (t + u)) + (q + u * u)
    BY <2>1, <2>2, <2>3, Expand
  <2>11. t + u \in Int /\ q + u * u \in Int
    BY <2>2, <2>3
  <2> QED BY <2>2, <2>7, <2>8, <2>9, <2>10, <2>11
<1>4. N = Nat
  <2>1. N \subseteq Nat
    OBVIOUS
  <2>2. \A m \in N : m + 1 \in N
    BY <1>3
  <2> HIDE DEF N
  <2> QED BY <1>2, <2>1, <2>2, AllOfNat
<1>5. k \in N
  <2> HIDE DEF N
  <2> QED BY <1>4
<1> QED BY <1>5

LEMMA GapTotals ==
  ASSUME NEW n \in Nat, NEW v \in [1 .. n -> Int], NEW k \in 0 .. n
  PROVE  Total(Gaps(v, k)) = k * Total(Squares(v, k)) - Total(Firsts(v, k)) * Total(Firsts(v, k))
<1> DEFINE N == {m \in Nat : m <= n =>
                   Total(Gaps(v, m)) = m * Total(Squares(v, m))
                                       - Total(Firsts(v, m)) * Total(Firsts(v, m))}
<1>1. ASSUME NEW m \in 0 .. n
      PROVE  Firsts(v, m) \in [1 .. m -> Int] /\ Squares(v, m) \in [1 .. m -> Int]
  <2>1. \A i \in 1 .. m : i \in 1 .. n
    OBVIOUS
  <2>2. \A i \in 1 .. m : v[i] \in Int
    BY <2>1
  <2> QED BY <2>2 DEF Firsts, Squares
<1>2. ASSUME NEW j \in 1 .. n
      PROVE  /\ v[j] \in Int
             /\ Total([i \in 1 .. j - 1 |-> (v[j] - v[i]) * (v[j] - v[i])])
                  = (j - 1) * (v[j] * v[j]) - 2 * (v[j] * Total(Firsts(v, j - 1)))
                    + Total(Squares(v, j - 1))
             /\ Total(Firsts(v, j - 1)) \in Int /\ Total(Squares(v, j - 1)) \in Int
  <2>1. v[j] \in Int /\ j - 1 \in 0 .. n
    OBVIOUS
  <2> DEFINE x == v[j]
             k1 == j - 1
  <2>2. x \in Int /\ k1 \in 0 .. n
    BY <2>1
  <2> HIDE DEF x, k1
  <2>3. /\ Total(Distances(v, x, k1)) = k1 * (x * x) - 2 * (x * Total(Firsts(v, k1)))
                                        + Total(Squares(v, k1))
        /\ Total(Firsts(v, k1)) \in Int /\ Total(Squares(v, k1)) \in Int
    BY <2>2, DistanceTotals
  <2> QED BY <2>1, <2>3 DEF Distances, x, k1
<1>3. ASSUME NEW m \in 0 .. n PROVE Gaps(v, m) \in [1 .. m -> Int]
  <2>1. ASSUME NEW j \in 1 .. m
        PROVE  Total([i \in 1 .. j - 1 |-> (v[j] - v[i]) * (v[j] - v[i])]) \in Int
    <3> DEFINE w == [i \in 1 .. j - 1 |-> (v[j] - v[i]) * (v[j] - v[i])]
    <3>1. j \in 1 .. n /\ j - 1 \in Nat /\ \A i \in 1 .. j - 1 : i \in 1 .. n
      OBVIOUS
    <3>2. w \in [1 .. j - 1 -> Int]
      BY <3>1
    <3> HIDE DEF w
    <3>3. Total(w) \in Int
      BY <3>1, <3>2, TotalFacts
    <3> QED BY <3>3 DEF w
  <2> QED BY <2>1 DEF Gaps
<1>4. 0 \in N
  <2>1. /\ Firsts(v, 0) \in [1 .. 0 -> Int] /\ Squares(v, 0) \in [1 .. 0 -> Int]
        /\ Gaps(v, 0) \in [1 .. 0 -> Int]
    BY <1>1, <1>3
  <2>2. Total(Firsts(v, 0)) = 0 /\ Total(Squares(v, 0)) = 0 /\ Total(Gaps(v, 0)) = 0
    BY <2>1, TotalOfNone
  <2> QED BY <2>2
<1>5. ASSUME NEW m \in N, m + 1 <= n
      PROVE  Total(Gaps(v, m + 1)) = (m + 1) * Total(Squares(v, m + 1))
                                     - Total(Firsts(v, m + 1)) * Total(Firsts(v, m + 1))
  <2> DEFINE t == Total(Firsts(v, m))
             q == Total(Squares(v, m))
             p == Total(Gaps(v, m))
             u == v[m + 1]
  <2>1. m \in Nat /\ m \in 0 .. n /\ m + 1 \in 0 .. n /\ m + 1 \in 1 .. n /\ m + 1 \in 1 .. m + 1
        /\ (m + 1) - 1 = m
    BY <1>5
  <2>2. p = m * q - t * t
    BY <1>5, <2>1
  <2>3. /\ u \in Int /\ t \in Int /\ q \in Int
        /\ Gaps(v, m + 1)[m + 1] = m * (u * u) - 2 * (u * t) + q
    <3>1. /\ v[m + 1] \in Int
          /\ Total([i \in 1 .. (m + 1) - 1 |-> (v[m + 1] - v[i]) * (v[m + 1] - v[i])])
               = ((m + 1) - 1) * (v[m + 1] * v[m + 1])
                 - 2 * (v[m + 1] * Total(Firsts(v, (m + 1) - 1))) 
                 + Total(Squares(v, (m + 1) - 1))
          /\ Total(Firsts(v, (m + 1) - 1)) \in Int /\ Total(Squares(v, (m + 1) - 1)) \in Int
      BY <1>2, <2>1
    <3>2. Gaps(v, m + 1)[m + 1]
            = Total([i \in 1 .. (m + 1) - 1 |-> (v[m + 1] - v[i]) * (v[m + 1] - v[i])])
      BY <2>1 DEF Gaps
    <3> QED BY <2>1, <3>1, <3>2
  <2>4. /\ Firsts(v, m) \in [1 .. m -> Int] /\ Squares(v, m) \in [1 .. m -> Int]
        /\ Gaps(v, m) \in [1 .. m -> Int]
        /\ Firsts(v, m + 1) \in [1 .. m + 1 -> Int] /\ Squares(v, m + 1) \in [1 .. m + 1 -> Int]
        /\ Gaps(v, m + 1) \in [1 .. m + 1 -> Int]
    BY <1>1, <1>3, <2>1
  <2>5. /\ \A i \in 1 .. m : Firsts(v, m + 1)[i] = Firsts(v, m)[i]
        /\ \A i \in 1 .. m : Squares(v, m + 1)[i] = Squares(v, m)[i]
        /\ \A i \in 1 .. m : Gaps(v, m + 1)[i] = Gaps(v, m)[i]
    <3>1. \A i \in 1 .. m : i \in 1 .. m + 1
      BY <2>1
    <3> QED BY <3>1 DEF Firsts, Squares, Gaps
  <2>6. Firsts(v, m + 1)[m + 1] = u /\ Squares(v, m + 1)[m + 1] = u * u
    BY <2>1 DEF Firsts, Squares
  <2> HIDE DEF N, u
  <2>7. Total(Firsts(v, m + 1)) = t + u
    BY <2>1, <2>4, <2>5, <2>6, TotalOneMore
  <2>8. Total(Squares(v, m + 1)) = q + u * u
    BY <2>1, <2>4, <2>5, <2>6, TotalOneMore
  <2>9. Total(Gaps(v, m + 1)) = p + (m * (u * u) - 2 * (u * t) + q)
    BY <2>1, <2>3, <2>4, <2>5, TotalOneMore
  <2> HIDE DEF t, q, p
  <2>10. (m * q - t * t) + (m * (u * u) - 2 * (u * t) + q)
           = (m + 1) * (q + u * u) - (t + u) * (t + u)
    BY <2>1, <2>3, Expand
  <2> QED BY <2>2, <2>7, <2>8, <2>9, <2>10
<1>6. N = Nat
  <2>1. N \subseteq Nat
    OBVIOUS
  <2>2. \A m \in N : m + 1 \in N
    BY <1>5
  <2> HIDE DEF N
  <2> QED BY <1>4, <2>1, <2>2, AllOfNat
<1>7. k \in N
  <2> HIDE DEF N
  <2> QED BY <1>6
<1> QED BY <1>7

LEMMA DeviationTotals ==
  ASSUME NEW n \in Nat, NEW v \in [1 .. n -> Int], NEW c \in Int, NEW x \in Int, NEW k \in 0 .. n
  PROVE  Total(Deviations(v, c, x, k))
           = (c * c) * Total(Squares(v, k)) - 2 * ((c * x) * Total(Firsts(v, k))) + k * (x * x)
<1> DEFINE N == {m \in Nat : m <= n =>
                   Total(Deviations(v, c, x, m))
                     = (c * c) * Total(Squares(v, m)) - 2 * ((c * x) * Total(Firsts(v, m)))
                       + m * (x * x)}
<1>1. ASSUME NEW m \in 0 .. n
      PROVE  /\ Firsts(v, m) \in [1 .. m -> Int] /\ Squares(v, m) \in [1 .. m -> Int]
             /\ Deviations(v, c, x, m) \in [1 .. m -> Int]
  <2>1. \A i \in 1 .. m : i \in 1 .. n
    OBVIOUS
  <2>2. \A i \in 1 .. m : v[i] \in Int
    BY <2>1
  <2> QED BY <2>2 DEF Firsts, Squares, Deviations
<1>2. 0 \in N
  <2>1. /\ Firsts(v, 0) \in [1 .. 0 -> Int] /\ Squares(v, 0) \in [1 .. 0 -> Int]
        /\ Deviations(v, c, x, 0) \in [1 .. 0 -> Int]
    BY <1>1
  <2>2. Total(Firsts(v, 0)) = 0 /\ Total(Squares(v, 0)) = 0 /\ Total(Deviations(v, c, x, 0)) = 0
    BY <2>1, TotalOfNone
  <2> QED BY <2>2
<1>3. ASSUME NEW m \in N, m + 1 <= n
      PROVE  Total(Deviations(v, c, x, m + 1))
               = (c * c) * Total(Squares(v, m + 1)) - 2 * ((c * x) * Total(Firsts(v, m + 1)))
                 + (m + 1) * (x * x)
  <2> DEFINE t == Total(Firsts(v, m))
             q == Total(Squares(v, m))
             d == Total(Deviations(v, c, x, m))
             u == v[m + 1]
  <2>1. m \in Nat /\ m \in 0 .. n /\ m + 1 \in 0 .. n /\ m + 1 \in 1 .. n /\ m + 1 \in 1 .. m + 1
    BY <1>3
  <2>2. d = (c * c) * q - 2 * ((c * x) * t) + m * (x * x)
    BY <1>3, <2>1
  <2>3. u \in Int /\ t \in Int /\ q \in Int
    BY <2>1, DistanceTotals
  <2>4. /\ Firsts(v, m) \in [1 .. m -> Int] /\ Squares(v, m) \in [1 .. m -> Int]
        /\ Deviations(v, c, x, m) \in [1 .. m -> Int]
        /\ Firsts(v, m + 1) \in [1 .. m + 1 -> Int] /\ Squares(v, m + 1) \in [1 .. m + 1 -> Int]
        /\ Deviations(v, c, x, m + 1) \in [1 .. m + 1 -> Int]
    BY <1>1, <2>1
  <2>5. /\ \A i \in 1 .. m : Firsts(v, m + 1)[i] = Firsts(v, m)[i]
        /\ \A i \in 1 .. m : Squares(v, m + 1)[i] = Squares(v, m)[i]
        /\ \A i \in 1 .. m : Deviations(v, c, x, m + 1)[i] = Deviations(v, c, x, m)[i]
    <3>1. \A i \in 1 .. m : i \in 1 .. m + 1
      BY <2>1
    <3> QED BY <3>1 DEF Firsts, Squares, Deviations
  <2>6. /\ Firsts(v, m + 1)[m + 1] = u /\ Squares(v, m + 1)[m + 1] = u * u
        /\ Deviations(v, c, x, m + 1)[m + 1] = (c * u - x) * (c * u - x)
    BY <2>1 DEF Firsts, Squares, Deviations
  <2> HIDE DEF N, u
  <2>7. Total(Firsts(v, m + 1)) = t + u
    BY <2>1, <2>4, <2>5, <2>6, TotalOneMore
  <2>8. Total(Squares(v, m + 1)) = q + u * u
    BY <2>1, <2>4, <2>5, <2>6, TotalOneMore
  <2>9. Total(Deviations(v, c, x, m + 1)) = d + (c * u - x) * (c * u - x)
    BY <2>1, <2>4, <2>5, <2>6, TotalOneMore
  <2> HIDE DEF t, q, d
  <2>10. ((c * c) * q - 2 * ((c * x) * t) + m * (x * x)) + (c * u - x) * (c * u - x)
           = (c * c) * (q + u * u) - 2 * ((c * x) * (t + u)) + (m + 1) * (x * x)
    BY <2>1, <2>3, Expand
  <2> QED BY <2>2, <2>7, <2>8, <2>9, <2>10
<1>4. N = Nat
  <2>1. N \subseteq Nat
    OBVIOUS
  <2>2. \A m \in N : m + 1 \in N
    BY <1>3
  <2> HIDE DEF N
  <2> QED BY <1>2, <2>1, <2>2, AllOfNat
<1>5. k \in N
  <2> HIDE DEF N
  <2> QED BY <1>4
<1> QED BY <1>5

\* The squared deviations from the mean add up, but for the scale, to the squared
\* pairwise differences.
LEMMA Variance ==
  ASSUME NEW n \in Nat, NEW v \in [1 .. n -> Int]
  PROVE  Total([i \in 1 .. n |-> (n * v[i] - Total(v)) * (n * v[i] - Total(v))])
           = n * Total([j \in 1 .. n |-> Total([i \in 1 .. j - 1 |->
                          (v[j] - v[i]) * (v[j] - v[i])])])
<1> DEFINE t == Total(v)
           q == Total(Squares(v, n))
<1>1. Firsts(v, n) = v /\ n \in 0 .. n
  BY DEF Firsts
<1>2. t \in Int /\ q \in Int
  <2>1. 0 \in Int
    OBVIOUS
  <2> QED BY <1>1, <2>1, DistanceTotals
<1>3. Total(Gaps(v, n)) = n * q - t * t
  BY <1>1, GapTotals
<1>4. Total(Deviations(v, n, t, n)) = (n * n) * q - 2 * ((n * t) * t) + n * (t * t)
  <2> HIDE DEF q
  <2>1. \A x \in Int : Total(Deviations(v, n, x, n))
          = (n * n) * Total(Squares(v, n)) - 2 * ((n * x) * Total(Firsts(v, n))) + n * (x * x)
    BY <1>1, DeviationTotals
  <2> QED BY <1>1, <1>2, <2>1 DEF q
<1> HIDE DEF t, q
<1>5. (n * n) * q - 2 * ((n * t) * t) + n * (t * t) = n * (n * q - t * t)
  BY <1>2, Expand
<1>6. Total(Deviations(v, n, t, n)) = n * Total(Gaps(v, n))
  BY <1>3, <1>4, <1>5
<1> QED BY <1>6 DEF Deviations, Gaps, t

-----------------------------------------------------------------------------
(* The stable sort *)

LEMMA KeyLessFacts ==
  /\ \A k \in Keys : ~KeyLess(k, k)
  /\ \A k, l \in Keys : KeyLess(k, l) => ~KeyLess(l, k)
  /\ \A k, l, m \in Keys : KeyLess(k, l) /\ KeyLess(l, m) => KeyLess(k, m)
  /\ \A k, l, m \in Keys : ~KeyLess(k, l) /\ ~KeyLess(l, m) => ~KeyLess(k, m)
  /\ \A k, l \in Keys : ~KeyLess(k, l) /\ ~KeyLess(l, k)
                          => k.n = l.n /\ k.n3 = l.n3 /\ k.role = l.role
<1>1. \A k \in Keys : /\ k.n \in Nat /\ k.n3 \in Nat /\ RoleRank[k.role] \in Nat
                      /\ k.role \in DOMAIN RoleRank
  BY DEF Keys, RoleRank
<1>2. \A k, l \in Keys : RoleRank[k.role] = RoleRank[l.role] => k.role = l.role
  BY DEF Keys, RoleRank
<1>3. ASSUME NEW k \in Keys, NEW l \in Keys
      PROVE  /\ KeyLess(k, l) => ~KeyLess(l, k)
             /\ ~KeyLess(k, l) /\ ~KeyLess(l, k)
                  => k.n = l.n /\ k.n3 = l.n3 /\ RoleRank[k.role] = RoleRank[l.role]
  BY <1>1 DEF KeyLess
<1>4. ASSUME NEW k \in Keys, NEW l \in Keys, NEW m \in Keys
      PROVE  /\ KeyLess(k, l) /\ KeyLess(l, m) => KeyLess(k, m)
             /\ ~KeyLess(k, l) /\ ~KeyLess(l, m) => ~KeyLess(k, m)
  BY <1>1 DEF KeyLess
<1> QED BY <1>2, <1>3, <1>4

LEMMA SortedFacts ==
  ASSUME NEW n \in Nat, NEW order, DOMAIN order = 1 .. n, \A i \in 1 .. n : order[i] \in Keys
  PROVE  \E at \in [1 .. n -> 1 .. n] :
           /\ \A k \in 1 .. n : SortedKeys(order)[k] = order[at[k]]
           /\ \A j \in 1 .. n : \E k \in 1 .. n : at[k] = j
           /\ \A k, l \in 1 .. n : k < l =>
                \/ KeyLess(order[at[k]], order[at[l]])
                \/ at[k] < at[l] /\ ~KeyLess(order[at[l]], order[at[k]])
<1> DEFINE Comes(i, j) == KeyLess(order[i], order[j]) \/ (i < j /\ ~KeyLess(order[j], order[i]))
           Upto(j) == {i \in 1 .. n : \/ KeyLess(order[i], order[j])
                                      \/ i <= j /\ ~KeyLess(order[j], order[i])}
           place == [j \in 1 .. n |-> Cardinality(Upto(j))]
           at == [k \in 1 .. n |-> CHOOSE j \in 1 .. n : place[j] = k]
<1>1. ASSUME NEW i \in 1 .. n, NEW j \in 1 .. n, i # j
      PROVE  /\ i \in Upto(j) <=> Comes(i, j)
             /\ Comes(i, j) \/ Comes(j, i)
             /\ ~(Comes(i, j) /\ Comes(j, i))
  BY <1>1, KeyLessFacts
<1>2. \A j \in 1 .. n : j \in Upto(j) /\ Upto(j) \subseteq 1 .. n
  BY KeyLessFacts
<1>3. ASSUME NEW h \in 1 .. n, NEW i \in 1 .. n, NEW j \in 1 .. n, Comes(i, j), h \in Upto(i)
      PROVE  h \in Upto(j)
  <2>1. order[h] \in Keys /\ order[i] \in Keys /\ order[j] \in Keys
    OBVIOUS
  <2>2. CASE KeyLess(order[i], order[j])
    <3>1. ~KeyLess(order[i], order[h]) \/ KeyLess(order[h], order[i])
      BY <1>3
    <3>2. KeyLess(order[h], order[j])
      <4>1. CASE KeyLess(order[h], order[i])
        BY <2>1, <2>2, <4>1, KeyLessFacts
      <4>2. CASE ~KeyLess(order[i], order[h])
        BY <2>1, <2>2, <4>2, KeyLessFacts
      <4> QED BY <3>1, <4>1, <4>2
    <3> QED BY <3>2
  <2>3. CASE i < j /\ ~KeyLess(order[j], order[i])
    <3>1. CASE KeyLess(order[h], order[i])
      <4>1. KeyLess(order[h], order[j])
        BY <2>1, <2>3, <3>1, KeyLessFacts
      <4> QED BY <4>1
    <3>2. CASE h <= i /\ ~KeyLess(order[i], order[h])
      <4>1. ~KeyLess(order[j], order[h]) /\ h <= j
        BY <2>1, <2>3, <3>2, KeyLessFacts
      <4> QED BY <4>1
    <3> QED BY <1>3, <3>1, <3>2
  <2> QED BY <1>3, <2>2, <2>3
<1> HIDE DEF Upto, Comes
<1>4. ASSUME NEW j \in 1 .. n
      PROVE  IsFiniteSet(Upto(j)) /\ Cardinality(Upto(j)) \in 1 .. n
  <2>1. IsFiniteSet(1 .. n) /\ Cardinality(1 .. n) = n
    BY FS_Interval
  <2>2. IsFiniteSet(Upto(j)) /\ Cardinality(Upto(j)) <= n
    BY <1>2, <2>1, FS_Subset
  <2>3. Cardinality(Upto(j)) \in Nat /\ Cardinality(Upto(j)) # 0
    BY <1>2, <2>2, FS_CardinalityType, FS_EmptySet
  <2> QED BY <2>2, <2>3
<1>5. ASSUME NEW i \in 1 .. n, NEW j \in 1 .. n, i # j, Comes(i, j)
      PROVE  Cardinality(Upto(i)) < Cardinality(Upto(j))
  <2>1. Upto(i) \in SUBSET Upto(j) /\ j \notin Upto(i) /\ j \in Upto(j)
    BY <1>1, <1>2, <1>3, <1>5
  <2>2. IsFiniteSet(Upto(j)) /\ Cardinality(Upto(j)) \in 1 .. n
          /\ Cardinality(Upto(i)) \in 1 .. n
    BY <1>4
  <2>3. Cardinality(Upto(i)) <= Cardinality(Upto(j))
          /\ Cardinality(Upto(i)) # Cardinality(Upto(j))
    BY <2>1, <2>2, FS_Subset
  <2> QED BY <2>2, <2>3
<1>6. place \in [1 .. n -> 1 .. n] /\ \A j \in 1 .. n : place[j] = Cardinality(Upto(j))
  BY <1>4
<1> HIDE DEF place
<1>7. \A i, j \in 1 .. n : i # j => place[i] # place[j]
  <2> SUFFICES ASSUME NEW i \in 1 .. n, NEW j \in 1 .. n, i # j, place[i] = place[j] PROVE FALSE
    OBVIOUS
  <2>1. Comes(i, j) \/ Comes(j, i)
    BY <1>1
  <2>2. Cardinality(Upto(i)) < Cardinality(Upto(j))
          \/ Cardinality(Upto(j)) < Cardinality(Upto(i))
    BY <1>5, <2>1
  <2> QED BY <1>4, <1>6, <2>2
<1>8. \A k \in 1 .. n : \E j \in 1 .. n : place[j] = k
  <2>1. place \in Injection(1 .. n, 1 .. n)
    BY <1>6, <1>7 DEF Injection, IsInjective
  <2>2. IsFiniteSet(1 .. n)
    BY FS_Interval
  <2>3. place \in Surjection(1 .. n, 1 .. n)
    BY <2>1, <2>2, FS_Injection
  <2> QED BY <2>3 DEF Surjection
<1>9. at \in [1 .. n -> 1 .. n] /\ \A k \in 1 .. n : place[at[k]] = k
  <2>1. \A k \in 1 .. n : at[k] \in 1 .. n /\ place[at[k]] = k
    BY <1>8
  <2> QED BY <2>1
<1>10. \A k \in 1 .. n : SortedKeys(order)[k] = order[at[k]]
  <2>1. SortedKeys(order) = [k \in 1 .. n |-> order[CHOOSE j \in 1 .. n : place[j] = k]]
    BY DEF SortedKeys, place, Upto
  <2> QED BY <2>1
<1> HIDE DEF at
<1>11. ASSUME NEW j \in 1 .. n PROVE \E k \in 1 .. n : at[k] = j
  <2>1. place[j] \in 1 .. n /\ place[at[place[j]]] = place[j] /\ at[place[j]] \in 1 .. n
    BY <1>6, <1>9
  <2> QED BY <1>7, <2>1
<1>12. ASSUME NEW k \in 1 .. n, NEW l \in 1 .. n, k < l
       PROVE  Comes(at[k], at[l])
  <2>1. at[k] \in 1 .. n /\ at[l] \in 1 .. n /\ place[at[k]] = k /\ place[at[l]] = l
    BY <1>9
  <2>2. at[k] # at[l]
    BY <1>12, <2>1
  <2>3. ASSUME Comes(at[l], at[k]) PROVE FALSE
    <3>1. Cardinality(Upto(at[l])) < Cardinality(Upto(at[k]))
      BY <1>5, <2>1, <2>2, <2>3
    <3> QED BY <1>6, <1>12, <2>1, <3>1
  <2> QED BY <1>1, <2>1, <2>2, <2>3
<1> QED BY <1>9, <1>10, <1>11, <1>12 DEF Comes

-----------------------------------------------------------------------------
(* What the summarizer pools *)

Roles == DOMAIN RoleRank
SampleSet == [key : Keys, micros : Nat]

\* The summarizer s holds what the samples pooled for each role say: their
\* keys in the order of first appearance, and under each key its values.
Pools(s, pool) ==
  /\ \A i \in DOMAIN s.order : s.order[i] \in DOMAIN s.samples
  /\ \A k \in DOMAIN s.samples : \E i \in DOMAIN s.order : s.order[i] = k
  /\ \A i, j \in DOMAIN s.order : i < j =>
       /\ s.order[i] # s.order[j]
       /\ s.order[i].role = s.order[j].role =>
            Sooner(pool[s.order[i].role], s.order[i], s.order[j])
  /\ \A k \in Keys :
       k \in DOMAIN s.samples <=> \E p \in DOMAIN pool[k.role] : pool[k.role][p].key = k
  /\ \A k \in DOMAIN s.samples : s.samples[k] = Values(pool[k.role], k)

LEMMA ValuesOfMore ==
  ASSUME NEW pool \in Seq(SampleSet), NEW sample \in SampleSet, NEW k \in Keys
  PROVE  /\ Values(pool, k) \in Seq(Nat)
         /\ Values(Append(pool, sample), k) =
              IF sample.key = k THEN Append(Values(pool, k), sample.micros) ELSE Values(pool, k)
         /\ (\A p \in DOMAIN pool : pool[p].key # k) => Values(pool, k) = <<>>
<1> DEFINE f == [x \in SampleSet |-> IF x.key = k THEN <<x.micros>> ELSE <<>>]
<1>1. f \in [SampleSet -> Seq(Nat)]
  <2>1. \A x \in SampleSet : <<x.micros>> \in Seq(Nat) /\ <<>> \in Seq(Nat)
    BY DEF SampleSet
  <2> QED BY <2>1
<1>2. ASSUME NEW s \in Seq(SampleSet) PROVE Values(s, k) = FlatMap(f, s)
  <2>1. \A i \in DOMAIN s : s[i] \in SampleSet
    BY ElementOfSeq, LenProperties
  <2>2. [i \in DOMAIN s |-> IF s[i].key = k THEN <<s[i].micros>> ELSE <<>>]
          = [i \in DOMAIN s |-> f[s[i]]]
    BY <2>1
  <2> HIDE DEF f
  <2> QED BY <2>2 DEF Values, FlatMap
<1>3. f[sample] = IF sample.key = k THEN <<sample.micros>> ELSE <<>>
  OBVIOUS
<1>4. (\A p \in DOMAIN pool : pool[p].key # k) => \A i \in 1 .. Len(pool) : f[pool[i]] = <<>>
  <2>1. \A i \in 1 .. Len(pool) : i \in DOMAIN pool /\ pool[i] \in SampleSet
    BY ElementOfSeq, LenProperties
  <2> QED BY <2>1
<1> HIDE DEF f
<1>5. FlatMap(f, pool) \in Seq(Nat)
  BY <1>1, FlatMapTyped
<1>6. Append(pool, sample) \in Seq(SampleSet)
  BY AppendProperties
<1>7. FlatMap(f, Append(pool, sample)) = FlatMap(f, pool) \o f[sample]
  BY <1>1, FlatMapAppend
<1>8. /\ FlatMap(f, pool) \o <<>> = FlatMap(f, pool)
      /\ FlatMap(f, pool) \o <<sample.micros>> = Append(FlatMap(f, pool), sample.micros)
  <2>1. sample.micros \in Nat
    BY DEF SampleSet
  <2> QED BY <1>5, <2>1, ConcatEmptySeq, AppendIsConcat
<1>9. (\A p \in DOMAIN pool : pool[p].key # k) => FlatMap(f, pool) = <<>>
  BY <1>1, <1>4, FlatMapNone
<1>10. Values(pool, k) = FlatMap(f, pool)
        /\ Values(Append(pool, sample), k) = FlatMap(f, Append(pool, sample))
  BY <1>2, <1>6
<1> QED BY <1>3, <1>5, <1>7, <1>8, <1>9, <1>10

\* More samples behind the others change nothing of what comes sooner, and what
\* comes now for the first time comes after all that came before.
LEMMA SoonerWithMore ==
  ASSUME NEW pool \in Seq(SampleSet), NEW sample \in SampleSet, NEW k, NEW l
  PROVE  /\ Sooner(pool, k, l) => Sooner(Append(pool, sample), k, l)
         /\ (\E p \in DOMAIN pool : pool[p].key = k) /\ (\A p \in DOMAIN pool : pool[p].key # l)
              => Sooner(Append(pool, sample), k, l)
         /\ \A p \in DOMAIN pool : p \in DOMAIN Append(pool, sample)
                                   /\ Append(pool, sample)[p] = pool[p]
         /\ \A p \in DOMAIN Append(pool, sample) :
              p \in DOMAIN pool \/ Append(pool, sample)[p] = sample
         /\ \E p \in DOMAIN Append(pool, sample) : Append(pool, sample)[p] = sample
<1> DEFINE more == Append(pool, sample)
<1>1. /\ Len(pool) \in Nat /\ DOMAIN pool = 1 .. Len(pool) /\ DOMAIN more = 1 .. Len(pool) + 1
      /\ \A i \in 1 .. Len(pool) : more[i] = pool[i]
      /\ more[Len(pool) + 1] = sample
  BY AppendProperties, LenProperties
<1> HIDE DEF more
<1>2. \A p \in DOMAIN pool : p \in DOMAIN more /\ more[p] = pool[p]
  BY <1>1
<1>3. \A p \in DOMAIN more : p \in DOMAIN pool \/ more[p] = sample
  BY <1>1
<1>4. \E p \in DOMAIN more : more[p] = sample
  <2>1. Len(pool) + 1 \in 1 .. Len(pool) + 1
    BY <1>1
  <2> QED BY <1>1, <2>1
<1>5. \A p \in DOMAIN pool : \A q \in 1 .. p : q \in DOMAIN pool
  BY <1>1
<1>6. Sooner(pool, k, l) => Sooner(more, k, l)
  BY <1>2, <1>5 DEF Sooner
<1>7. (\E p \in DOMAIN pool : pool[p].key = k) /\ (\A p \in DOMAIN pool : pool[p].key # l)
        => Sooner(more, k, l)
  BY <1>2, <1>5 DEF Sooner
<1> QED BY <1>2, <1>3, <1>4, <1>6, <1>7 DEF more

\* What one sample more changes.
MoreSays(longer, shorter, sample) ==
  /\ \A k, l : Sooner(shorter, k, l) => Sooner(longer, k, l)
  /\ \A k, l : (\E p \in DOMAIN shorter : shorter[p].key = k)
               /\ (\A p \in DOMAIN shorter : shorter[p].key # l)
                 => Sooner(longer, k, l)
  /\ \A k : (\E p \in DOMAIN longer : longer[p].key = k)
              <=> sample.key = k \/ \E p \in DOMAIN shorter : shorter[p].key = k
  /\ \A k \in Keys :
       /\ Values(longer, k) = IF sample.key = k
            THEN Append(Values(shorter, k), sample.micros) ELSE Values(shorter, k)
       /\ (\A p \in DOMAIN shorter : shorter[p].key # k) => Values(shorter, k) = <<>>

LEMMA PoolMore ==
  ASSUME NEW sample \in SampleSet, NEW q \in Seq(SampleSet)
  PROVE  MoreSays(Append(q, sample), q, sample)
<1> DEFINE more == Append(q, sample)
<1>2. ASSUME NEW k, NEW l PROVE Sooner(q, k, l) => Sooner(more, k, l)
  BY SoonerWithMore
<1>3. ASSUME NEW k, NEW l
      PROVE  (\E p \in DOMAIN q : q[p].key = k) /\ (\A p \in DOMAIN q : q[p].key # l)
               => Sooner(more, k, l)
  BY SoonerWithMore
<1>4. /\ \A p \in DOMAIN q : p \in DOMAIN more /\ more[p] = q[p]
      /\ \A p \in DOMAIN more : p \in DOMAIN q \/ more[p] = sample
      /\ \E p \in DOMAIN more : more[p] = sample
  <2>1. ASSUME NEW k, NEW l
        PROVE  /\ \A p \in DOMAIN q : p \in DOMAIN more /\ more[p] = q[p]
               /\ \A p \in DOMAIN more : p \in DOMAIN q \/ more[p] = sample
               /\ \E p \in DOMAIN more : more[p] = sample
    BY SoonerWithMore
  <2> HIDE DEF more
  <2> QED BY <2>1
<1>5. ASSUME NEW k
      PROVE  (\E p \in DOMAIN more : more[p].key = k)
               <=> sample.key = k \/ \E p \in DOMAIN q : q[p].key = k
  <2> HIDE DEF more
  <2> QED BY <1>4
<1>6. ASSUME NEW k \in Keys
      PROVE  /\ Values(more, k) = IF sample.key = k
                  THEN Append(Values(q, k), sample.micros) ELSE Values(q, k)
             /\ (\A p \in DOMAIN q : q[p].key # k) => Values(q, k) = <<>>
  BY ValuesOfMore
<1> HIDE DEF more
<1> QED BY <1>2, <1>3, <1>5, <1>6 DEF MoreSays, more

\* A record more.
Grows(pool, key, micros, more) ==
  \A role \in Roles : more[role] = IF role = key.role
    THEN Append(pool[role], [key |-> key, micros |-> micros]) ELSE pool[role]

LEMMA AddRecordPools ==
  ASSUME NEW R, NEW s \in Summarizers(Keys, R), NEW pool \in [Roles -> Seq(SampleSet)],
         NEW key \in Keys, NEW micros \in Nat, Pools(s, pool),
         NEW more \in [Roles -> Seq(SampleSet)], Grows(pool, key, micros, more)
  PROVE  Pools(add_record(s, key, micros), more)
<1> DEFINE sample == [key |-> key, micros |-> micros]
           t == add_record(s, key, micros)
<1>1. sample \in SampleSet /\ sample.key = key /\ sample.micros = micros
  BY DEF SampleSet
<1>2. /\ key.role \in Roles /\ \A k \in Keys : k.role \in Roles
      /\ \A role \in Roles : pool[role] \in Seq(SampleSet)
  BY DEF Keys, Roles
<1>3. \A role \in Roles : more[role] = IF role = key.role THEN Append(pool[role], sample)
                                                         ELSE pool[role]
  BY DEF Grows
<1>12. \A role \in Roles : role = key.role => MoreSays(more[role], pool[role], sample)
  <2> HIDE DEF sample
  <2>1. \A q \in Seq(SampleSet) : MoreSays(Append(q, sample), q, sample)
    BY <1>1, PoolMore
  <2> QED BY <1>2, <1>3, <2>1
<1>4. PICK D \in SUBSET Keys : s.samples \in [D -> Seq(Nat)]
  BY DEF Summarizers
<1>5. s.order \in Seq(Keys) /\ Len(s.order) \in Nat /\ DOMAIN s.order = 1 .. Len(s.order)
  BY LenProperties DEF Summarizers
<1> HIDE DEF sample
<1>6. /\ t \in Summarizers(Keys, R)
      /\ DOMAIN t.samples = DOMAIN s.samples \cup {key}
      /\ \A k \in DOMAIN s.samples : k # key => t.samples[k] = s.samples[k]
      /\ key \in DOMAIN s.samples => t.samples[key] = Append(s.samples[key], micros)
      /\ key \notin DOMAIN s.samples => t.samples[key] = <<micros>>
      /\ t.order = IF key \in DOMAIN s.samples THEN s.order ELSE Append(s.order, key)
  <2> DEFINE M == UNION {[E -> Seq(Nat)] : E \in SUBSET Keys}
  <2>1. s \in [order : Seq(Keys), samples : M, runs : R]
    BY DEF Summarizers
  <2>2. t \in Summarizers(Keys, R)
    BY AddRecordTyped
  <2>3. CASE key \in DOMAIN s.samples
    <3> DEFINE samples == [s.samples EXCEPT ![key] = Append(@, micros)]
    <3>1. t = [s EXCEPT !.samples = samples]
      BY <2>3 DEF add_record
    <3>2. /\ DOMAIN samples = DOMAIN s.samples
          /\ \A k \in DOMAIN s.samples : k # key => samples[k] = s.samples[k]
          /\ samples[key] = Append(s.samples[key], micros)
      BY <1>4, <2>3
    <3> HIDE DEF samples, M, t
    <3>3. t.samples = samples /\ t.order = s.order
      BY <2>1, <3>1
    <3> QED BY <2>2, <2>3, <3>2, <3>3
  <2>4. CASE key \notin DOMAIN s.samples
    <3> DEFINE samples == Put(s.samples, key, <<micros>>)
               order == Append(s.order, key)
    <3>1. t = [s EXCEPT !.order = order, !.samples = samples]
      BY <2>4 DEF add_record
    <3>2. /\ DOMAIN samples = DOMAIN s.samples \cup {key}
          /\ \A k \in DOMAIN s.samples : k # key => samples[k] = s.samples[k]
          /\ samples[key] = <<micros>>
      BY DEF Put
    <3> HIDE DEF samples, order, M, t
    <3>3. t.samples = samples /\ t.order = order
      BY <2>1, <3>1
    <3> QED BY <2>2, <2>4, <3>2, <3>3 DEF order
  <2> QED BY <2>3, <2>4
<1> HIDE DEF t
\* The keys.
<1>7. \A k \in Keys : k \in DOMAIN t.samples
        <=> \E p \in DOMAIN more[k.role] : more[k.role][p].key = k
  <2> SUFFICES ASSUME NEW k \in Keys
               PROVE  k \in DOMAIN t.samples
                       <=> \E p \in DOMAIN more[k.role] : more[k.role][p].key = k
    OBVIOUS
  <2>1. k \in DOMAIN s.samples <=> \E p \in DOMAIN pool[k.role] : pool[k.role][p].key = k
    BY DEF Pools
  <2>2. CASE k.role # key.role
    <3>1. k # key /\ more[k.role] = pool[k.role]
      BY <1>2, <1>3, <2>2
    <3> QED BY <1>6, <2>1, <3>1
  <2>3. CASE k.role = key.role
    <3>1. MoreSays(more[k.role], pool[k.role], sample)
      BY <1>2, <1>12, <2>3
    <3>2. (\E p \in DOMAIN more[k.role] : more[k.role][p].key = k)
            <=> sample.key = k \/ \E p \in DOMAIN pool[k.role] : pool[k.role][p].key = k
      BY <3>1 DEF MoreSays
    <3> QED BY <1>1, <1>6, <2>1, <3>2
  <2> QED BY <2>2, <2>3
\* The values.
<1>8. \A k \in DOMAIN t.samples : t.samples[k] = Values(more[k.role], k)
  <2> SUFFICES ASSUME NEW k \in DOMAIN t.samples PROVE t.samples[k] = Values(more[k.role], k)
    OBVIOUS
  <2>1. k \in Keys /\ k.role \in Roles
    BY <1>2, <1>4, <1>6
  <2>2. k \in DOMAIN s.samples => s.samples[k] = Values(pool[k.role], k)
    BY DEF Pools
  <2>3. CASE k.role # key.role
    <3>1. k # key /\ more[k.role] = pool[k.role]
      BY <1>3, <2>1, <2>3
    <3> QED BY <1>6, <2>2, <3>1
  <2>4. CASE k.role = key.role
    <3>1. MoreSays(more[k.role], pool[k.role], sample)
      BY <1>12, <2>1, <2>4
    <3>6. /\ Values(more[k.role], k) = IF sample.key = k
               THEN Append(Values(pool[k.role], k), sample.micros) ELSE Values(pool[k.role], k)
          /\ (\A p \in DOMAIN pool[k.role] : pool[k.role][p].key # k)
                  => Values(pool[k.role], k) = <<>>
      BY <2>1, <3>1 DEF MoreSays
    <3>2. /\ Values(more[k.role], k) = IF key = k THEN Append(Values(pool[k.role], k), micros)
                                       ELSE Values(pool[k.role], k)
          /\ (\A p \in DOMAIN pool[k.role] : pool[k.role][p].key # k)
                  => Values(pool[k.role], k) = <<>>
      BY <1>1, <3>6
    <3>3. CASE k # key
      BY <1>6, <2>2, <3>2, <3>3
    <3>4. CASE k = key /\ k \in DOMAIN s.samples
      BY <1>6, <2>2, <3>2, <3>4
    <3>5. CASE k = key /\ k \notin DOMAIN s.samples
      <4>1. \A p \in DOMAIN pool[k.role] : pool[k.role][p].key # k
        BY <2>1, <3>5 DEF Pools
      <4>2. Append(<<>>, micros) = <<micros>>
        OBVIOUS
      <4> QED BY <1>6, <3>2, <3>5, <4>1, <4>2
    <3> QED BY <3>3, <3>4, <3>5
  <2> QED BY <2>3, <2>4
\* The order.
<1>9. ASSUME NEW k, NEW l, k \in Keys, l \in Keys, k.role = l.role, Sooner(pool[k.role], k, l)
      PROVE  Sooner(more[k.role], k, l)
  <2>1. k.role \in Roles
    BY <1>2, <1>9
  <2>2. CASE more[k.role] = pool[k.role]
    BY <1>9, <2>2
  <2>3. CASE MoreSays(more[k.role], pool[k.role], sample)
    <3>1. \A a, b : Sooner(pool[k.role], a, b) => Sooner(more[k.role], a, b)
      BY <2>3 DEF MoreSays
    <3> QED BY <1>9, <3>1
  <2> QED BY <1>3, <1>12, <2>1, <2>2, <2>3
<1>10. CASE key \in DOMAIN s.samples
  <2>1. t.order = s.order /\ DOMAIN t.samples = DOMAIN s.samples
    BY <1>6, <1>10
  <2>2. \A i \in DOMAIN s.order : s.order[i] \in Keys
    BY <1>5, ElementOfSeq
  <2>3. ASSUME NEW i \in DOMAIN s.order, NEW j \in DOMAIN s.order, i < j,
               s.order[i].role = s.order[j].role
        PROVE  Sooner(more[s.order[i].role], s.order[i], s.order[j])
    <3>1. Sooner(pool[s.order[i].role], s.order[i], s.order[j])
      BY <2>3 DEF Pools
    <3> QED BY <1>9, <2>2, <2>3, <3>1
  <2>4. /\ \A i \in DOMAIN t.order : t.order[i] \in DOMAIN t.samples
        /\ \A k \in DOMAIN t.samples : \E i \in DOMAIN t.order : t.order[i] = k
        /\ \A i, j \in DOMAIN t.order : i < j => t.order[i] # t.order[j]
    BY <2>1 DEF Pools
  <2> QED BY <1>7, <1>8, <2>1, <2>3, <2>4 DEF Pools, t
<1>11. CASE key \notin DOMAIN s.samples
  <2> DEFINE n == Len(s.order)
             order == Append(s.order, key)
  <2>1. /\ t.order = order /\ DOMAIN order = 1 .. n + 1 /\ n \in Nat /\ DOMAIN s.order = 1 .. n
        /\ \A i \in 1 .. n : order[i] = s.order[i]
        /\ order[n + 1] = key
    BY <1>5, <1>6, <1>11, AppendProperties, LenProperties
  <2>2. \A i \in 1 .. n : s.order[i] \in Keys /\ s.order[i] \in DOMAIN s.samples
          /\ s.order[i] # key
    BY <1>5, <1>11, <2>1, ElementOfSeq DEF Pools
  <2> HIDE DEF n, order
  <2>3. \A i \in DOMAIN t.order : i \in 1 .. n \/ i = n + 1
    BY <2>1
  <2>4. \A i \in DOMAIN t.order : t.order[i] \in DOMAIN t.samples
    BY <1>6, <2>1, <2>2, <2>3
  <2>5. \A k \in DOMAIN t.samples : \E i \in DOMAIN t.order : t.order[i] = k
    <3>1. n + 1 \in DOMAIN t.order /\ \A i \in 1 .. n : i \in DOMAIN t.order
      BY <2>1
    <3>2. \A k \in DOMAIN s.samples : \E i \in 1 .. n : s.order[i] = k
      BY <2>1 DEF Pools
    <3> QED BY <1>6, <2>1, <3>1, <3>2
  <2>6. ASSUME NEW i \in DOMAIN t.order, NEW j \in DOMAIN t.order, i < j
        PROVE  /\ t.order[i] # t.order[j]
               /\ t.order[i].role = t.order[j].role =>
                    Sooner(more[t.order[i].role], t.order[i], t.order[j])
    <3>1. i \in 1 .. n /\ t.order[i] = s.order[i]
      BY <2>1, <2>6
    <3>2. CASE j \in 1 .. n
      <4>1. t.order[j] = s.order[j]
        BY <2>1, <3>2
      <4>2. /\ s.order[i] # s.order[j]
            /\ s.order[i].role = s.order[j].role =>
                 Sooner(pool[s.order[i].role], s.order[i], s.order[j])
        BY <2>1, <2>6, <3>1, <3>2 DEF Pools
      <4> QED BY <1>9, <2>2, <3>1, <3>2, <4>1, <4>2
    <3>3. CASE j = n + 1
      <4> DEFINE k == s.order[i]
      <4>1. t.order[j] = key /\ t.order[i] = k /\ k \in Keys /\ k \in DOMAIN s.samples /\ k # key
        BY <2>1, <2>2, <3>1, <3>3
      <4> HIDE DEF k
      <4>2. ASSUME k.role = key.role PROVE Sooner(more[k.role], k, key)
        <5>1. MoreSays(more[k.role], pool[k.role], sample)
          BY <1>2, <1>12, <4>2
        <5>2. \E p \in DOMAIN pool[k.role] : pool[k.role][p].key = k
          BY <4>1 DEF Pools
        <5>3. \A p \in DOMAIN pool[k.role] : pool[k.role][p].key # key
          BY <1>11, <4>2 DEF Pools
        <5>4. \A a, b : (\E p \in DOMAIN pool[k.role] : pool[k.role][p].key = a)
                        /\ (\A p \in DOMAIN pool[k.role] : pool[k.role][p].key # b)
                          => Sooner(more[k.role], a, b)
          BY <5>1 DEF MoreSays
        <5> QED BY <5>2, <5>3, <5>4
      <4> QED BY <4>1, <4>2
    <3> QED BY <2>3, <3>2, <3>3
  <2> QED BY <1>7, <1>8, <2>4, <2>5, <2>6 DEF Pools, t
<1> QED BY <1>10, <1>11

\* The samples of a role in the records of a run of (n, n3).
SampleOf(role, n, n3) ==
  [r \in RecordSet |-> IF r.actor.role = role
                         THEN <<[key |-> KeyOf(n, n3, r), micros |-> r.micros]>> ELSE <<>>]

RunPool(role, n, n3, recs) == FlatMap(SampleOf(role, n, n3), recs)

LEMMA RecordFacts ==
  ASSUME NEW n \in Nat, NEW n3 \in Nat, NEW r \in RecordSet
  PROVE  /\ KeyOf(n, n3, r) \in Keys /\ r.micros \in Nat
         /\ KeyOf(n, n3, r).role = r.actor.role /\ r.actor.role \in Roles
         /\ KeyOf(n, n3, r).n = n /\ KeyOf(n, n3, r).n3 = n3
         /\ [key |-> KeyOf(n, n3, r), micros |-> r.micros] \in SampleSet
<1>1. r.actor \in Actors /\ r.phase \in Phases /\ r.micros \in Nat
  BY DEF RecordSet
<1>2. r.actor.role \in DOMAIN RoleRank
  BY <1>1, OutputFacts DEF Actors
<1>3. /\ KeyOf(n, n3, r) \in Keys /\ KeyOf(n, n3, r).role = r.actor.role
      /\ KeyOf(n, n3, r).n = n /\ KeyOf(n, n3, r).n3 = n3
  BY <1>1, <1>2 DEF KeyOf, Keys
<1> QED BY <1>1, <1>2, <1>3 DEF SampleSet, Roles

LEMMA SampleTyped ==
  ASSUME NEW n \in Nat, NEW n3 \in Nat, NEW role
  PROVE  /\ SampleOf(role, n, n3) \in [RecordSet -> Seq(SampleSet)]
         /\ \A recs \in Seq(RecordSet) : RunPool(role, n, n3, recs) \in Seq(SampleSet)
<1>1. ASSUME NEW r \in RecordSet
      PROVE  (IF r.actor.role = role THEN <<[key |-> KeyOf(n, n3, r), micros |-> r.micros]>>
                                     ELSE <<>>) \in Seq(SampleSet)
  <2> DEFINE sample == [key |-> KeyOf(n, n3, r), micros |-> r.micros]
  <2>1. sample \in SampleSet
    BY RecordFacts
  <2> HIDE DEF sample
  <2>2. <<sample>> \in Seq(SampleSet) /\ <<>> \in Seq(SampleSet)
    BY <2>1
  <2> QED BY <2>2 DEF sample
<1>2. SampleOf(role, n, n3) \in [RecordSet -> Seq(SampleSet)]
  BY <1>1 DEF SampleOf
<1>3. ASSUME NEW recs \in Seq(RecordSet) PROVE RunPool(role, n, n3, recs) \in Seq(SampleSet)
  BY <1>2, FlatMapTyped DEF RunPool
<1> QED BY <1>2, <1>3

LEMMA ConcatAppends ==
  ASSUME NEW S
  PROVE  \A s, t \in Seq(S), x \in S :
           s \o Append(t, x) = Append(s \o t, x) /\ t \o <<x>> = Append(t, x)
<1> SUFFICES ASSUME NEW s \in Seq(S), NEW t \in Seq(S), NEW x \in S
             PROVE  s \o Append(t, x) = Append(s \o t, x) /\ t \o <<x>> = Append(t, x)
  OBVIOUS
<1> QED BY ConcatAppend

\* One record more in a run, for the pool of a role.
LEMMA StagePool ==
  ASSUME NEW n \in Nat, NEW n3 \in Nat, NEW r \in RecordSet, NEW role
  PROVE  \A recs \in Seq(RecordSet), pool \in Seq(SampleSet) :
           pool \o RunPool(role, n, n3, Append(recs, r)) =
             IF role = KeyOf(n, n3, r).role
               THEN Append(pool \o RunPool(role, n, n3, recs),
                           [key |-> KeyOf(n, n3, r), micros |-> r.micros])
               ELSE pool \o RunPool(role, n, n3, recs)
<1>0. \A s, t \in Seq(SampleSet), x \in SampleSet :
        s \o Append(t, x) = Append(s \o t, x) /\ t \o <<x>> = Append(t, x)
  BY ConcatAppends
<1>5. \A recs \in Seq(RecordSet), x \in RecordSet :
        RunPool(role, n, n3, Append(recs, x))
          = RunPool(role, n, n3, recs) \o SampleOf(role, n, n3)[x]
  BY SampleTyped, FlatMapAppends DEF RunPool
<1> SUFFICES ASSUME NEW recs \in Seq(RecordSet), NEW pool \in Seq(SampleSet)
             PROVE  pool \o RunPool(role, n, n3, Append(recs, r)) =
                      IF role = KeyOf(n, n3, r).role
                        THEN Append(pool \o RunPool(role, n, n3, recs),
                                    [key |-> KeyOf(n, n3, r), micros |-> r.micros])
                        ELSE pool \o RunPool(role, n, n3, recs)
  OBVIOUS
<1> DEFINE sample == [key |-> KeyOf(n, n3, r), micros |-> r.micros]
           before == RunPool(role, n, n3, recs)
           last == SampleOf(role, n, n3)[r]
<1>1. sample \in SampleSet /\ KeyOf(n, n3, r).role = r.actor.role
  BY RecordFacts
<1>2. before \in Seq(SampleSet)
  BY SampleTyped
<1>3. RunPool(role, n, n3, Append(recs, r)) = before \o last
  BY <1>5
<1>4. last = IF role = KeyOf(n, n3, r).role THEN <<sample>> ELSE <<>>
  BY <1>1 DEF SampleOf
<1> HIDE DEF sample, before, last
<1>6. before \o <<>> = before
  BY <1>2, ConcatEmptySeq
<1>7. before \o <<sample>> = Append(before, sample)
      /\ pool \o Append(before, sample) = Append(pool \o before, sample)
  BY <1>0, <1>1, <1>2
<1> QED BY <1>3, <1>4, <1>6, <1>7 DEF sample, before

LEMMA StagePools ==
  ASSUME NEW n \in Nat, NEW n3 \in Nat
  PROVE  \A r \in RecordSet : \A role : \A recs \in Seq(RecordSet), pool \in Seq(SampleSet) :
           pool \o RunPool(role, n, n3, Append(recs, r)) =
             IF role = KeyOf(n, n3, r).role
               THEN Append(pool \o RunPool(role, n, n3, recs),
                           [key |-> KeyOf(n, n3, r), micros |-> r.micros])
               ELSE pool \o RunPool(role, n, n3, recs)
BY StagePool

LEMMA RunStages ==
  ASSUME NEW s \in Summarizers(Keys, RunCounts), NEW n \in Nat, NEW n3 \in Nat,
         NEW recs \in Seq(RecordSet)
  PROVE  \E f : /\ f \in [0 .. Len(recs) -> Summarizers(Keys, RunCounts)]
                /\ f[0] = Counted(s, n, n3)
                /\ \A i \in 1 .. Len(recs) : f[i] = AddNth(f[i - 1], n, n3, recs, i)
                /\ f[Len(recs)] = add_run(s, n, n3, recs)
<1>1. Len(recs) \in Nat /\ DOMAIN recs = 1 .. Len(recs)
  BY LenProperties
<1>2. Counted(s, n, n3) \in Summarizers(Keys, RunCounts)
  BY CountedFacts
<1>3. \A i \in 1 .. Len(recs) : KeyOf(n, n3, recs[i]) \in Keys /\ recs[i].micros \in Nat
  BY <1>1, ElementOfSeq, RecordFacts
<1> QED BY <1>1, <1>2, <1>3, AddRunStages

LEMMA FirstsGrow ==
  ASSUME NEW S, NEW seq \in Seq(S), NEW i \in 1 .. Len(seq)
  PROVE  SubSeq(seq, 1, i) = Append(SubSeq(seq, 1, i - 1), seq[i])
<1> DEFINE u == SubSeq(seq, 1, i)
           v == SubSeq(seq, 1, i - 1)
           w == Append(v, seq[i])
<1>1. /\ Len(seq) \in Nat /\ i \in 0 .. Len(seq) /\ i - 1 \in 0 .. Len(seq)
      /\ i \in Nat /\ i - 1 \in Nat /\ (i - 1) + 1 = i
      /\ seq[i] \in S
  BY LenProperties, ElementOfSeq
<1>2. /\ u \in Seq(S) /\ Len(u) = i /\ \A j \in 1 .. i : u[j] = seq[j]
      /\ v \in Seq(S) /\ Len(v) = i - 1 /\ \A j \in 1 .. i - 1 : v[j] = seq[j]
  BY <1>1, FirstElements
<1> HIDE DEF u, v
<1>3. /\ w \in Seq(S) /\ Len(w) = i
      /\ \A j \in 1 .. i - 1 : w[j] = v[j]
      /\ w[i] = seq[i]
  BY <1>1, <1>2, AppendProperties
<1> HIDE DEF w
<1>4. \A j \in 1 .. i : u[j] = w[j]
  <2>1. \A j \in 1 .. i : j = i \/ j \in 1 .. i - 1
    BY <1>1
  <2> QED BY <1>2, <1>3, <2>1
<1>5. Len(u) = Len(w) /\ \A j \in 1 .. Len(u) : u[j] = w[j]
  BY <1>2, <1>3, <1>4
<1>6. u \in Seq(S) /\ w \in Seq(S)
  BY <1>2, <1>3
<1>7. u = w
  BY <1>5, <1>6, SeqEqual, ZenonT(60)
<1> QED BY <1>7 DEF u, v, w

\* A run more.
LEMMA AddRunPools ==
  ASSUME NEW s \in Summarizers(Keys, RunCounts), NEW n \in Nat, NEW n3 \in Nat,
         NEW recs \in Seq(RecordSet), NEW pool \in [Roles -> Seq(SampleSet)], Pools(s, pool)
  PROVE  Pools(add_run(s, n, n3, recs),
               [role \in Roles |-> pool[role] \o RunPool(role, n, n3, recs)])
<1> DEFINE len == Len(recs)
           after == [i \in 0 .. len |->
             [role \in Roles |-> pool[role] \o RunPool(role, n, n3, SubSeq(recs, 1, i))]]
<1>1. len \in Nat /\ DOMAIN recs = 1 .. len
  BY LenProperties
<1>2. \A i \in 1 .. len : recs[i] \in RecordSet
  BY <1>1, ElementOfSeq
<1>3. \A r \in RecordSet : \A role : \A rs \in Seq(RecordSet), p \in Seq(SampleSet) :
        p \o RunPool(role, n, n3, Append(rs, r)) =
          IF role = KeyOf(n, n3, r).role
            THEN Append(p \o RunPool(role, n, n3, rs),
                        [key |-> KeyOf(n, n3, r), micros |-> r.micros])
            ELSE p \o RunPool(role, n, n3, rs)
  BY StagePools
<1>4. \A i \in 1 .. len : KeyOf(n, n3, recs[i]) \in Keys /\ recs[i].micros \in Nat
  BY <1>2, RecordFacts
<1>5. PICK f : /\ f \in [0 .. len -> Summarizers(Keys, RunCounts)]
               /\ f[0] = Counted(s, n, n3)
               /\ \A i \in 1 .. len : f[i] = AddNth(f[i - 1], n, n3, recs, i)
               /\ f[len] = add_run(s, n, n3, recs)
  BY RunStages
<1>6. ASSUME NEW i \in 0 .. len PROVE SubSeq(recs, 1, i) \in Seq(RecordSet)
  BY FirstElements
<1>7. \A i \in 0 .. len : after[i] \in [Roles -> Seq(SampleSet)]
  <2> SUFFICES ASSUME NEW i \in 0 .. len, NEW role \in Roles
               PROVE  pool[role] \o RunPool(role, n, n3, SubSeq(recs, 1, i)) \in Seq(SampleSet)
    OBVIOUS
  <2>1. RunPool(role, n, n3, SubSeq(recs, 1, i)) \in Seq(SampleSet)
          /\ pool[role] \in Seq(SampleSet)
    BY <1>6, SampleTyped
  <2> QED BY <2>1, ConcatProperties
<1>8. ASSUME NEW i \in 1 .. len
      PROVE  SubSeq(recs, 1, i) = Append(SubSeq(recs, 1, i - 1), recs[i])
  BY FirstsGrow
<1>9. Pools(f[0], after[0])
  <2>1. SubSeq(recs, 1, 0) = <<>>
    OBVIOUS
  <2>2. \A role \in Roles : pool[role] \o RunPool(role, n, n3, <<>>) = pool[role]
    BY FlatMapEmpty, ConcatEmptySeq DEF RunPool
  <2>3. after[0] = pool
    <3>1. 0 \in 0 .. len
      BY <1>1
    <3> QED BY <2>1, <2>2, <3>1
  <2>4. f[0].order = s.order /\ f[0].samples = s.samples
    <3> DEFINE M == UNION {[E -> Seq(Nat)] : E \in SUBSET Keys}
    <3>1. s \in [order : Seq(Keys), samples : M, runs : RunCounts]
      BY DEF Summarizers
    <3> HIDE DEF M
    <3> QED BY <1>5, <3>1 DEF Counted
  <2> HIDE DEF after
  <2> QED BY <2>3, <2>4 DEF Pools
<1>10. ASSUME NEW i \in 1 .. len, Pools(f[i - 1], after[i - 1])
       PROVE  Pools(f[i], after[i])
  <2> DEFINE r == recs[i]
             key == KeyOf(n, n3, r)
             old == after[i - 1]
             new == after[i]
  <2>1. i \in 0 .. len /\ i - 1 \in 0 .. len
    BY <1>1
  <2>2. r \in RecordSet /\ key \in Keys /\ r.micros \in Nat
    BY <1>2, <1>4
  <2>3. ASSUME NEW role \in Roles
        PROVE  new[role] = IF role = key.role
                 THEN Append(old[role], [key |-> key, micros |-> r.micros]) ELSE old[role]
    <3> DEFINE part == SubSeq(recs, 1, i - 1)
    <3>1. /\ new[role] = pool[role] \o RunPool(role, n, n3, Append(part, r))
          /\ old[role] = pool[role] \o RunPool(role, n, n3, part)
          /\ part \in Seq(RecordSet)
      BY <1>6, <1>8, <2>1
    <3> HIDE DEF part, old, new, r, key
    <3>2. pool[role] \in Seq(SampleSet)
      OBVIOUS
    <3>4. \A rs \in Seq(RecordSet), p \in Seq(SampleSet) :
            p \o RunPool(role, n, n3, Append(rs, r)) =
              IF role = KeyOf(n, n3, r).role
                THEN Append(p \o RunPool(role, n, n3, rs),
                            [key |-> KeyOf(n, n3, r), micros |-> r.micros])
                ELSE p \o RunPool(role, n, n3, rs)
      BY <1>3, <2>2, Zenon
    <3>3. pool[role] \o RunPool(role, n, n3, Append(part, r)) =
            IF role = KeyOf(n, n3, r).role
              THEN Append(pool[role] \o RunPool(role, n, n3, part),
                          [key |-> KeyOf(n, n3, r), micros |-> r.micros])
              ELSE pool[role] \o RunPool(role, n, n3, part)
      BY <3>1, <3>2, <3>4
    <3> QED BY <3>1, <3>3 DEF key
  <2>4. f[i] = add_record(f[i - 1], key, r.micros) /\ f[i - 1] \in Summarizers(Keys, RunCounts)
    BY <1>5, <2>1 DEF AddNth
  <2>5. old \in [Roles -> Seq(SampleSet)] /\ new \in [Roles -> Seq(SampleSet)]
    BY <1>7, <2>1
  <2>6. Pools(f[i - 1], old)
    BY <1>10
  <2> DEFINE micros == r.micros
  <2>7. key \in Keys /\ micros \in Nat
    BY <2>2
  <2>8. Grows(old, key, micros, new)
    BY <2>3 DEF Grows
  <2>9. f[i] = add_record(f[i - 1], key, micros)
    BY <2>4
  <2> HIDE DEF key, old, new, micros, r, after
  <2>10. Pools(add_record(f[i - 1], key, micros), new)
    BY <2>4, <2>5, <2>6, <2>7, <2>8, AddRecordPools
  <2> QED BY <2>9, <2>10 DEF new
<1> DEFINE N == {i \in Nat : i <= len => Pools(f[i], after[i])}
<1> HIDE DEF after
<1>11. 0 \in N
  BY <1>9
<1>12. ASSUME NEW i \in N PROVE i + 1 \in N
  <2>1. i + 1 <= len => i <= len /\ i + 1 \in 1 .. len /\ (i + 1) - 1 = i
    BY <1>1
  <2> QED BY <1>10, <2>1
<1>13. N = Nat
  <2>1. N \subseteq Nat
    OBVIOUS
  <2> HIDE DEF N
  <2> QED BY <1>11, <1>12, <2>1, AllOfNat
<1>14. Pools(f[len], after[len])
  <2>1. len \in N /\ len <= len
    BY <1>1, <1>13
  <2> QED BY <2>1
<1>15. after[len] = [role \in Roles |-> pool[role] \o RunPool(role, n, n3, recs)]
  <2>1. SubSeq(recs, 1, len) = recs /\ len \in 0 .. len
    BY <1>1, SubSeqFull
  <2> QED BY <2>1 DEF after
<1> QED BY <1>5, <1>14, <1>15

-----------------------------------------------------------------------------
(* The pools of the raw files are those of the completed runs *)

TripleOf(d) == <<d.n, d.n3, d.run>>

\* The rows of a role that a completed run left.
RowsOf(role) == [d \in RunSet |-> Records(role, d)]

\* What a row adds to the pool of a role in a summary of some runs.
RowSample(role, runs) ==
  [row \in RowSet |->
     IF <<row.n, row.n3, row.run>> \in runs
       THEN <<[key |-> [n |-> row.n, n3 |-> row.n3, role |-> role, operation |-> row.phase],
               micros |-> row.micros]>>
       ELSE <<>>]

\* What a completed run adds to it.
RunSamples(role) ==
  [d \in RunSet |-> IF d.ok THEN RunPool(role, d.n, d.n3, d.records) ELSE <<>>]

PoolsOf(ds) == [role \in Roles |-> FlatMap(RunSamples(role), ds)]

LEMMA FlatMapOne ==
  ASSUME NEW S, NEW T, NEW f \in [S -> Seq(T)], NEW x \in S
  PROVE  FlatMap(f, <<x>>) = f[x]
<1>1. <<>> \in Seq(S) /\ <<x>> = Append(<<>>, x)
  OBVIOUS
<1>2. FlatMap(f, Append(<<>>, x)) = FlatMap(f, <<>>) \o f[x]
  BY <1>1, FlatMapAppend
<1>3. f[x] \in Seq(T)
  OBVIOUS
<1>4. <<>> \o f[x] = f[x]
  BY <1>3, ConcatEmptySeq
<1> QED BY <1>1, <1>2, <1>4, FlatMapEmpty

LEMMA FlatMapSame ==
  ASSUME NEW f, NEW g, NEW s, \A i \in DOMAIN s : f[s[i]] = g[s[i]]
  PROVE  FlatMap(f, s) = FlatMap(g, s)
<1>1. [i \in DOMAIN s |-> f[s[i]]] = [i \in DOMAIN s |-> g[s[i]]]
  OBVIOUS
<1> QED BY <1>1 DEF FlatMap

LEMMA RowSampleTyped ==
  ASSUME NEW role \in Roles, NEW runs
  PROVE  RowSample(role, runs) \in [RowSet -> Seq(SampleSet)]
<1>1. ASSUME NEW row \in RowSet
      PROVE  (IF <<row.n, row.n3, row.run>> \in runs
                THEN <<[key |-> [n |-> row.n, n3 |-> row.n3, role |-> role,
                                 operation |-> row.phase],
                        micros |-> row.micros]>>
                ELSE <<>>) \in Seq(SampleSet)
  <2> DEFINE key == [n |-> row.n, n3 |-> row.n3, role |-> role, operation |-> row.phase]
             sample == [key |-> key, micros |-> row.micros]
  <2>1. row.n \in Nat /\ row.n3 \in Nat /\ row.phase \in Phases /\ row.micros \in Nat
    BY DEF RowSet, RawRow, RecordSet
  <2>2. key \in Keys
    BY <2>1 DEF Keys, Roles
  <2> HIDE DEF key
  <2>3. sample \in SampleSet
    BY <2>1, <2>2 DEF SampleSet
  <2> HIDE DEF sample
  <2>4. <<sample>> \in Seq(SampleSet) /\ <<>> \in Seq(SampleSet)
    BY <2>3
  <2> QED BY <2>4 DEF sample, key
<1> QED BY <1>1 DEF RowSample

LEMMA RowsOfTyped ==
  ASSUME NEW role
  PROVE  /\ RowsOf(role) \in [RunSet -> Seq(RowSet)]
         /\ RunSamples(role) \in [RunSet -> Seq(SampleSet)]
<1>1. RowsOf(role) \in [RunSet -> Seq(RowSet)]
  BY RowsTyped DEF RowsOf
<1>2. ASSUME NEW d \in RunSet
      PROVE  (IF d.ok THEN RunPool(role, d.n, d.n3, d.records) ELSE <<>>) \in Seq(SampleSet)
  <2> DEFINE n == d.n
             n3 == d.n3
             recs == d.records
  <2>1. n \in Nat /\ n3 \in Nat /\ recs \in Seq(RecordSet)
    BY DEF RunSet
  <2> HIDE DEF n, n3, recs
  <2>3. \A rs \in Seq(RecordSet) : RunPool(role, n, n3, rs) \in Seq(SampleSet)
    BY <2>1, SampleTyped
  <2>2. RunPool(role, d.n, d.n3, d.records) \in Seq(SampleSet) /\ <<>> \in Seq(SampleSet)
    BY <2>1, <2>3 DEF n, n3, recs
  <2> QED BY <2>2
<1>3. RunSamples(role) \in [RunSet -> Seq(SampleSet)]
  BY <1>2 DEF RunSamples
<1> QED BY <1>1, <1>3

\* The rows of a run that is counted are its samples, those of others are none.
LEMMA RowsPooled ==
  ASSUME NEW role \in Roles, NEW runs, NEW d \in RunSet
  PROVE  FlatMap(RowSample(role, runs), Records(role, d)) =
           IF TripleOf(d) \in runs THEN RunPool(role, d.n, d.n3, d.records) ELSE <<>>
<1> DEFINE g == [r \in RecordSet |-> IF r.actor.role = role
                   THEN <<RawRow(d.n, d.n3, d.run, r)>> ELSE <<>>]
           h == [r \in RecordSet |-> FlatMap(RowSample(role, runs), g[r])]
<1>1. /\ d.n \in Nat /\ d.n3 \in Nat /\ d.run \in Nat /\ d.records \in Seq(RecordSet)
      /\ Len(d.records) \in Nat /\ DOMAIN d.records = 1 .. Len(d.records)
      /\ \A i \in DOMAIN d.records : d.records[i] \in RecordSet
  <2>1. d.n \in Nat /\ d.n3 \in Nat /\ d.run \in Nat /\ d.records \in Seq(RecordSet)
    BY DEF RunSet
  <2> QED BY <2>1, LenProperties, ElementOfSeq
<1>2. \A r \in RecordSet : RawRow(d.n, d.n3, d.run, r) \in RowSet
  <2> SUFFICES ASSUME NEW r \in RecordSet PROVE RawRow(d.n, d.n3, d.run, r) \in RowSet
    OBVIOUS
  <2>1. <<d.n, d.n3, d.run, r>> \in Nat \X Nat \X Nat \X RecordSet
    BY <1>1
  <2> QED BY <2>1 DEF RowSet
<1>3. g \in [RecordSet -> Seq(RowSet)]
  <2> SUFFICES ASSUME NEW r \in RecordSet
               PROVE  (IF r.actor.role = role THEN <<RawRow(d.n, d.n3, d.run, r)>> ELSE <<>>)
                        \in Seq(RowSet)
    OBVIOUS
  <2> DEFINE row == RawRow(d.n, d.n3, d.run, r)
  <2>1. row \in RowSet
    BY <1>2
  <2> HIDE DEF row
  <2>2. <<row>> \in Seq(RowSet) /\ <<>> \in Seq(RowSet)
    BY <2>1
  <2> QED BY <2>2 DEF row
<1>4. Records(role, d) = FlatMap(g, d.records)
  <2>1. [i \in DOMAIN d.records |->
          IF d.records[i].actor.role = role THEN <<RawRow(d.n, d.n3, d.run, d.records[i])>>
                                            ELSE <<>>]
          = [i \in DOMAIN d.records |-> g[d.records[i]]]
    BY <1>1
  <2> QED BY <2>1 DEF Records, FlatMap
<1>5. \A r \in RecordSet : g[r] = IF r.actor.role = role
                             THEN <<RawRow(d.n, d.n3, d.run, r)>> ELSE <<>>
  OBVIOUS
<1>6. RowSample(role, runs) \in [RowSet -> Seq(SampleSet)]
  BY RowSampleTyped
<1> HIDE DEF g
<1>7. FlatMap(RowSample(role, runs), FlatMap(g, d.records)) = FlatMap(h, d.records)
  <2>1. \A s \in Seq(RecordSet) :
          FlatMap(RowSample(role, runs), FlatMap(g, s))
            = FlatMap(Twice(RecordSet, g, RowSample(role, runs)), s)
    <3>1. IsMap(g, RecordSet, RowSet) /\ IsMap(RowSample(role, runs), RowSet, SampleSet)
      BY <1>3, <1>6 DEF IsMap
    <3> QED BY <3>1, FlatMapTwice
  <2>2. h = Twice(RecordSet, g, RowSample(role, runs))
    BY DEF Twice
  <2> HIDE DEF h
  <2> DEFINE recs == d.records
  <2>3. recs \in Seq(RecordSet)
    BY <1>1
  <2> HIDE DEF recs
  <2>4. FlatMap(RowSample(role, runs), FlatMap(g, recs))
          = FlatMap(Twice(RecordSet, g, RowSample(role, runs)), recs)
    BY <2>1, <2>3
  <2> QED BY <2>2, <2>4 DEF recs
<1>8. ASSUME NEW r \in RecordSet
      PROVE  FlatMap(RowSample(role, runs), g[r]) =
               IF TripleOf(d) \in runs THEN SampleOf(role, d.n, d.n3)[r] ELSE <<>>
  <2> DEFINE row == RawRow(d.n, d.n3, d.run, r)
  <2>1. CASE r.actor.role # role
    <3>1. g[r] = <<>> /\ SampleOf(role, d.n, d.n3)[r] = <<>>
      BY <1>5, <2>1 DEF SampleOf
    <3> QED BY <3>1, FlatMapEmpty
  <2>2. CASE r.actor.role = role
    <3>1. g[r] = <<row>> /\ row \in RowSet
      BY <1>2, <1>5, <2>2
    <3>2. /\ row.n = d.n /\ row.n3 = d.n3 /\ row.run = d.run
          /\ row.phase = r.phase /\ row.micros = r.micros
      BY DEF RawRow
    <3> HIDE DEF row
    <3>3. FlatMap(RowSample(role, runs), <<row>>) = RowSample(role, runs)[row]
      BY <1>6, <3>1, FlatMapOne
    <3>4. RowSample(role, runs)[row] =
            IF TripleOf(d) \in runs
              THEN <<[key |-> [n |-> d.n, n3 |-> d.n3, role |-> role, operation |-> r.phase],
                      micros |-> r.micros]>>
              ELSE <<>>
      BY <3>1, <3>2 DEF RowSample, TripleOf
    <3>5. SampleOf(role, d.n, d.n3)[r] =
            <<[key |-> [n |-> d.n, n3 |-> d.n3, role |-> role, operation |-> r.phase],
               micros |-> r.micros]>>
      BY <2>2 DEF SampleOf, KeyOf
    <3> QED BY <3>1, <3>3, <3>4, <3>5
  <2> QED BY <2>1, <2>2
<1>9. CASE TripleOf(d) \in runs
  <2>1. \A i \in DOMAIN d.records : h[d.records[i]] = SampleOf(role, d.n, d.n3)[d.records[i]]
    BY <1>1, <1>8, <1>9
  <2> HIDE DEF h
  <2>2. FlatMap(h, d.records) = FlatMap(SampleOf(role, d.n, d.n3), d.records)
    BY <2>1, FlatMapSame
  <2> QED BY <1>4, <1>7, <1>9, <2>2 DEF RunPool
<1>10. CASE TripleOf(d) \notin runs
  <2>1. \A r \in RecordSet : h[r] = <<>>
    BY <1>8, <1>10
  <2>2. <<>> \in Seq(SampleSet)
    OBVIOUS
  <2>3. h \in [RecordSet -> Seq(SampleSet)]
    <3>1. h = [r \in RecordSet |-> h[r]]
      OBVIOUS
    <3> HIDE DEF h
    <3> QED BY <2>1, <2>2, <3>1
  <2> HIDE DEF h
  <2>4. \A i \in 1 .. Len(d.records) : h[d.records[i]] = <<>>
    BY <1>1, <2>1
  <2> DEFINE recs == d.records
  <2>5. recs \in Seq(RecordSet) /\ \A i \in 1 .. Len(recs) : h[recs[i]] = <<>>
    BY <1>1, <2>4
  <2> HIDE DEF recs
  <2>6. FlatMap(h, recs) = <<>>
    BY <2>3, <2>5, FlatMapNone
  <2> QED BY <1>4, <1>7, <1>10, <2>6 DEF recs
<1> QED BY <1>9, <1>10

\* A summary of the successful runs among some pools what these left, whatever
\* else is in the file: the rows of any other run do not count.
LEMMA PooledFrom ==
  ASSUME NEW role \in Roles, NEW ds \in Seq(RunSet), NEW rest \in Seq(RowSet),
         raw[role] = FlatMap(RowsOf(role), ds) \o rest,
         \A i, j \in DOMAIN ds : TripleOf(ds[i]) = TripleOf(ds[j]) => i = j,
         \A i \in 1 .. Len(rest), j \in DOMAIN ds :
           <<rest[i].n, rest[i].n3, rest[i].run>> # TripleOf(ds[j])
  PROVE  Pooled(role, Successful(ds)) = FlatMap(RunSamples(role), ds)
<1> DEFINE runs == Successful(ds)
           f == RowSample(role, runs)
           g == RowsOf(role)
           kept == FlatMap(g, ds)
<1>1. /\ Len(ds) \in Nat /\ DOMAIN ds = 1 .. Len(ds) /\ Len(rest) \in Nat
      /\ \A i \in DOMAIN ds : ds[i] \in RunSet
      /\ \A i \in 1 .. Len(rest) : rest[i] \in RowSet
  <2>1. Len(rest) \in Nat /\ \A i \in 1 .. Len(rest) : rest[i] \in RowSet
    BY LenProperties, ElementOfSeq
  <2>2. Len(ds) \in Nat /\ DOMAIN ds = 1 .. Len(ds) /\ \A i \in 1 .. Len(ds) : ds[i] \in RunSet
    BY LenProperties, ElementOfSeq
  <2> QED BY <2>1, <2>2
<1>2. f \in [RowSet -> Seq(SampleSet)]
  BY RowSampleTyped
<1>3. g \in [RunSet -> Seq(RowSet)]
  BY RowsOfTyped
<1>4. \A i \in DOMAIN ds : TripleOf(ds[i]) \in runs <=> ds[i].ok
  <2>1. runs = {TripleOf(ds[i]) : i \in {i \in DOMAIN ds : ds[i].ok}}
    BY DEF Successful, TripleOf
  <2> HIDE DEF runs
  <2> QED BY <2>1
<1>5. \A i \in 1 .. Len(rest) : f[rest[i]] = <<>>
  <2>1. \A i \in 1 .. Len(rest) : <<rest[i].n, rest[i].n3, rest[i].run>> \notin runs
    BY DEF Successful, TripleOf
  <2> HIDE DEF runs
  <2> QED BY <1>1, <2>1 DEF RowSample
<1>6. Pooled(role, runs) = FlatMap(f, raw[role])
  <2>1. raw[role] \in Seq(RowSet)
    <3>1. kept \in Seq(RowSet)
      BY <1>3, FlatMapTyped
    <3> HIDE DEF kept
    <3>2. kept \o rest \in Seq(RowSet)
      BY <3>1, ConcatProperties
    <3> QED BY <3>2 DEF kept
  <2> HIDE DEF runs
  <2>2. \A i \in DOMAIN raw[role] : raw[role][i] \in RowSet
    BY <2>1, LenProperties, ElementOfSeq
  <2>3. [i \in DOMAIN raw[role] |->
           LET row == raw[role][i]
               key == [n |-> row.n, n3 |-> row.n3, role |-> role, operation |-> row.phase]
           IN  IF <<row.n, row.n3, row.run>> \in runs
                 THEN <<[key |-> key, micros |-> row.micros]>> ELSE <<>>]
          = [i \in DOMAIN raw[role] |-> f[raw[role][i]]]
    BY <2>2 DEF RowSample
  <2> QED BY <2>3 DEF Pooled, FlatMap
<1>7. \A i \in DOMAIN ds : Twice(RunSet, g, f)[ds[i]] = RunSamples(role)[ds[i]]
  <2> SUFFICES ASSUME NEW i \in DOMAIN ds
               PROVE  Twice(RunSet, g, f)[ds[i]] = RunSamples(role)[ds[i]]
    OBVIOUS
  <2> DEFINE d == ds[i]
  <2>1. d \in RunSet /\ (TripleOf(d) \in runs <=> d.ok)
    BY <1>1, <1>4
  <2> HIDE DEF d, runs
  <2>2. Twice(RunSet, g, f)[d] = FlatMap(f, Records(role, d))
    BY <2>1 DEF Twice, RowsOf
  <2>3. FlatMap(f, Records(role, d))
          = IF TripleOf(d) \in runs THEN RunPool(role, d.n, d.n3, d.records) ELSE <<>>
    BY <2>1, RowsPooled
  <2>4. RunSamples(role)[d] = IF d.ok THEN RunPool(role, d.n, d.n3, d.records) ELSE <<>>
    BY <2>1 DEF RunSamples
  <2> QED BY <2>1, <2>2, <2>3, <2>4 DEF d
<1> HIDE DEF runs, f, g
<1>8. FlatMap(f, kept \o rest) = FlatMap(f, kept) \o FlatMap(f, rest)
  <2>1. \A s, t \in Seq(RowSet) : FlatMap(f, s \o t) = FlatMap(f, s) \o FlatMap(f, t)
    <3>1. IsMap(f, RowSet, SampleSet)
      BY <1>2 DEF IsMap
    <3> QED BY <3>1, FlatMapConcats
  <2>2. kept \in Seq(RowSet)
    BY <1>3, FlatMapTyped
  <2> HIDE DEF kept
  <2> QED BY <2>1, <2>2
<1>9. FlatMap(f, rest) = <<>>
  BY <1>2, <1>5, FlatMapNone
<1>10. FlatMap(f, kept) = FlatMap(Twice(RunSet, g, f), ds)
  <2>1. \A s \in Seq(RunSet) : FlatMap(f, FlatMap(g, s)) = FlatMap(Twice(RunSet, g, f), s)
    <3>1. IsMap(g, RunSet, RowSet) /\ IsMap(f, RowSet, SampleSet)
      BY <1>2, <1>3 DEF IsMap
    <3> QED BY <3>1, FlatMapTwice
  <2> QED BY <2>1
<1>11. FlatMap(Twice(RunSet, g, f), ds) = FlatMap(RunSamples(role), ds)
  BY <1>7, FlatMapSame
<1>12. FlatMap(RunSamples(role), ds) \o <<>> = FlatMap(RunSamples(role), ds)
  <2>1. FlatMap(RunSamples(role), ds) \in Seq(SampleSet)
    BY RowsOfTyped, FlatMapTyped
  <2> QED BY <2>1, ConcatEmptySeq
<1> QED BY <1>6, <1>8, <1>9, <1>10, <1>11, <1>12 DEF kept, g, runs

-----------------------------------------------------------------------------
(* What the summary says: the second part of the invariant *)

\* Run k of scenario s is among those made when made of scenario i are.
UpTo(s, k, i, made) == s < i \/ (s = i /\ k <= made)

\* A completed run is one of the suite, as far as the loop has come, and there
\* is one of each.
DoneInv ==
  /\ \A i \in DOMAIN done : \E s \in DOMAIN scenarios :
       /\ done[i].n = scenarios[s].n /\ done[i].n3 = scenarios[s].n3
       /\ pc # "interrupted" => UpTo(s, done[i].run, index, MadeHere)
  /\ \A i, j \in DOMAIN done : TripleOf(done[i]) = TripleOf(done[j]) => i = j

RowsInv == rows # <<>> => pc \in {"write_summary", "interrupted"}

\* None of the rows is one of a run in ds.
Foreign(rest, ds) ==
  \A i \in 1 .. Len(rest), j \in DOMAIN ds :
    <<rest[i].n, rest[i].n3, rest[i].run>> # TripleOf(ds[j])

\* The files of the series are the rows of the summarizer, and the rows of the
\* completed runs with rows of no completed run behind them.
FilesInv ==
  Created =>
    /\ summary \o rows = summaries(summarizer)
    /\ rows = <<>> => summary = summaries(summarizer)
    /\ \A role \in Roles : \E rest \in Seq(RowSet) :
         raw[role] = Kept(role) \o rest /\ Foreign(rest, done)

\* The summarizer holds the samples and counts the runs of ds that succeeded.
CountsRuns(counts, triples) ==
  /\ IsFiniteSet(triples)
  /\ DOMAIN counts = {<<t[1], t[2]>> : t \in triples}
  /\ \A k \in DOMAIN counts :
       counts[k] = Cardinality({t \in triples : t[1] = k[1] /\ t[2] = k[2]})

Summarized(ds) ==
  Pools(summarizer, PoolsOf(ds)) /\ CountsRuns(summarizer.runs, Successful(ds))

LastRun == done[Len(done)]
EarlierRuns == SubSeq(done, 1, Len(done) - 1)

\* They are all the runs, or all but the one that add_run is adding.
SummarizerInv ==
  \/ pc # "add_run" /\ Summarized(done)
  \/ /\ pc \in {"add_run", "interrupted"} /\ rows = <<>>
     /\ done # <<>> /\ LastRun.ok /\ Summarized(EarlierRuns)
     /\ pc = "add_run" => /\ LastRun.n = Current.n /\ LastRun.n3 = Current.n3
                          /\ LastRun.records = records

SInv == DoneInv /\ RowsInv /\ FilesInv /\ SummarizerInv

LEMMA PoolsAppend ==
  ASSUME NEW ds \in Seq(RunSet), NEW d \in RunSet
  PROVE  /\ PoolsOf(ds) \in [Roles -> Seq(SampleSet)]
         /\ d.ok => PoolsOf(Append(ds, d)) =
              [role \in Roles |-> PoolsOf(ds)[role] \o RunPool(role, d.n, d.n3, d.records)]
         /\ ~d.ok => PoolsOf(Append(ds, d)) = PoolsOf(ds)
<1>1. ASSUME NEW role \in Roles
      PROVE  /\ FlatMap(RunSamples(role), ds) \in Seq(SampleSet)
             /\ FlatMap(RunSamples(role), Append(ds, d))
                  = FlatMap(RunSamples(role), ds) \o RunSamples(role)[d]
             /\ FlatMap(RunSamples(role), ds) \o <<>> = FlatMap(RunSamples(role), ds)
  <2>1. RunSamples(role) \in [RunSet -> Seq(SampleSet)]
    BY RowsOfTyped
  <2>2. FlatMap(RunSamples(role), ds) \in Seq(SampleSet)
    BY <2>1, FlatMapTyped
  <2>3. FlatMap(RunSamples(role), Append(ds, d))
          = FlatMap(RunSamples(role), ds) \o RunSamples(role)[d]
    BY <2>1, FlatMapAppend
  <2> QED BY <2>2, <2>3, ConcatEmptySeq
<1>2. \A role \in Roles : RunSamples(role)[d] =
        IF d.ok THEN RunPool(role, d.n, d.n3, d.records) ELSE <<>>
  BY DEF RunSamples
<1>3. PoolsOf(ds) \in [Roles -> Seq(SampleSet)]
  BY <1>1 DEF PoolsOf
<1>4. ASSUME d.ok
      PROVE  PoolsOf(Append(ds, d)) =
               [role \in Roles |-> PoolsOf(ds)[role] \o RunPool(role, d.n, d.n3, d.records)]
  <2>1. \A role \in Roles : FlatMap(RunSamples(role), Append(ds, d))
          = FlatMap(RunSamples(role), ds) \o RunPool(role, d.n, d.n3, d.records)
    BY <1>1, <1>2, <1>4
  <2>2. \A role \in Roles : PoolsOf(ds)[role] = FlatMap(RunSamples(role), ds)
    BY DEF PoolsOf
  <2> QED BY <2>1, <2>2 DEF PoolsOf
<1>5. ASSUME ~d.ok PROVE PoolsOf(Append(ds, d)) = PoolsOf(ds)
  <2>1. \A role \in Roles : FlatMap(RunSamples(role), Append(ds, d))
          = FlatMap(RunSamples(role), ds)
    BY <1>1, <1>2, <1>5
  <2> QED BY <2>1 DEF PoolsOf
<1> QED BY <1>3, <1>4, <1>5

LEMMA SuccessfulAppend ==
  ASSUME NEW ds \in Seq(RunSet), NEW d \in RunSet
  PROVE  Successful(Append(ds, d)) =
           IF d.ok THEN Successful(ds) \cup {TripleOf(d)} ELSE Successful(ds)
<1> DEFINE more == Append(ds, d)
           n == Len(ds)
<1>1. /\ n \in Nat /\ DOMAIN ds = 1 .. n /\ DOMAIN more = 1 .. n + 1
      /\ \A i \in 1 .. n : more[i] = ds[i]
      /\ more[n + 1] = d
  BY AppendProperties, LenProperties
<1>2. \A i \in DOMAIN more : i \in DOMAIN ds \/ i = n + 1
  BY <1>1
<1>3. \A i \in DOMAIN ds : i \in DOMAIN more
  BY <1>1
<1>4. n + 1 \in DOMAIN more
  BY <1>1
<1> HIDE DEF more, n
<1>5. /\ Successful(more) = {TripleOf(more[i]) : i \in {i \in DOMAIN more : more[i].ok}}
      /\ Successful(ds) = {TripleOf(ds[i]) : i \in {i \in DOMAIN ds : ds[i].ok}}
  BY DEF Successful, TripleOf
<1>6. \A x \in Successful(more) : x \in Successful(ds) \/ (d.ok /\ x = TripleOf(d))
  BY <1>1, <1>2, <1>5
<1>7. Successful(ds) \subseteq Successful(more)
  BY <1>1, <1>3, <1>5
<1>8. d.ok => TripleOf(d) \in Successful(more)
  BY <1>1, <1>4, <1>5
<1> QED BY <1>6, <1>7, <1>8 DEF more

LEMMA NoneSuccessful ==
  /\ Successful(<<>>) = {} /\ \A role : FlatMap(RunSamples(role), <<>>) = <<>>
BY FlatMapEmpty DEF Successful

\* A run more is counted.
LEMMA CountsMore ==
  ASSUME NEW s \in Summarizers(Keys, RunCounts), NEW triples,
         NEW n \in Nat, NEW n3 \in Nat, NEW k, <<n, n3, k>> \notin triples,
         CountsRuns(s.runs, triples)
  PROVE  CountsRuns(Counted(s, n, n3).runs, triples \cup {<<n, n3, k>>})
<1> DEFINE new == <<n, n3, k>>
           key == <<n, n3>>
           all == triples \cup {new}
           of(ts, x) == {t \in ts : t[1] = x[1] /\ t[2] = x[2]}
           counts == Counted(s, n, n3).runs
<1>1. /\ DOMAIN counts = DOMAIN s.runs \cup {key}
      /\ \A x \in DOMAIN s.runs : x # key => counts[x] = s.runs[x]
      /\ counts[key] = 1 + IF key \in DOMAIN s.runs THEN s.runs[key] ELSE 0
  BY CountedFacts
<1>2. /\ new[1] = n /\ new[2] = n3 /\ key[1] = n /\ key[2] = n3
  OBVIOUS
<1>3. PICK D \in SUBSET (Nat \X Nat) : s.runs \in [D -> Nat]
  BY DEF Summarizers, RunCounts
<1>4. \A x \in DOMAIN s.runs : x = <<x[1], x[2]>>
  BY <1>3
<1> HIDE DEF counts
<1>5. IsFiniteSet(all)
  BY FS_AddElement DEF CountsRuns
<1>6. DOMAIN counts = {<<t[1], t[2]>> : t \in all}
  <2>1. <<new[1], new[2]>> = key
    BY <1>2
  <2>2. DOMAIN s.runs = {<<t[1], t[2]>> : t \in triples}
    BY DEF CountsRuns
  <2> HIDE DEF new, key
  <2> QED BY <1>1, <2>1, <2>2
<1>7. ASSUME NEW x \in DOMAIN counts PROVE counts[x] = Cardinality(of(all, x))
  <2>1. IsFiniteSet(of(triples, x))
    BY FS_Subset DEF CountsRuns
  <2>2. CASE x = key
    <3>1. of(all, x) = of(triples, x) \cup {new} /\ new \notin of(triples, x)
      BY <1>2, <2>2
    <3>2. Cardinality(of(all, x)) = Cardinality(of(triples, x)) + 1
      <4> HIDE DEF of, new
      <4> QED BY <2>1, <3>1, FS_AddElement
    <3>3. CASE key \in DOMAIN s.runs
      <4>1. s.runs[x] = Cardinality(of(triples, x)) /\ s.runs[x] \in Nat
        BY <1>3, <2>2, <3>3 DEF CountsRuns
      <4> HIDE DEF of, new, key
      <4> QED BY <1>1, <2>2, <3>2, <3>3, <4>1
    <3>4. CASE key \notin DOMAIN s.runs
      <4>1. of(triples, x) = {}
        <5>1. \A t \in triples : <<t[1], t[2]>> \in DOMAIN s.runs
          BY DEF CountsRuns
        <5> QED BY <1>2, <2>2, <3>4, <5>1
      <4>2. Cardinality(of(triples, x)) = 0
        <5> HIDE DEF of
        <5> QED BY <4>1, FS_EmptySet
      <4> HIDE DEF of, new, key
      <4> QED BY <1>1, <2>2, <3>2, <3>4, <4>2
    <3> QED BY <3>3, <3>4
  <2>3. CASE x # key
    <3>1. x \in DOMAIN s.runs /\ counts[x] = s.runs[x]
      BY <1>1, <2>3
    <3>2. ~(n = x[1] /\ n3 = x[2])
      BY <1>4, <2>3, <3>1
    <3>3. of(all, x) = of(triples, x)
      BY <1>2, <3>2
    <3>4. s.runs[x] = Cardinality(of(triples, x))
      BY <3>1 DEF CountsRuns
    <3> HIDE DEF of, all
    <3> QED BY <3>1, <3>3, <3>4
  <2> QED BY <2>2, <2>3
<1> QED BY <1>5, <1>6, <1>7 DEF CountsRuns, counts

\* The runs but for the last.
LEMMA DoneSplit ==
  ASSUME done \in Seq(RunSet), done # <<>>
  PROVE  /\ done = Append(EarlierRuns, LastRun)
         /\ EarlierRuns \in Seq(RunSet) /\ LastRun \in RunSet
<1> DEFINE n == Len(done)
<1>1. n \in Nat /\ n # 0 /\ DOMAIN done = 1 .. n
  BY LenProperties, EmptySeq
<1>2. n - 1 \in 0 .. n /\ n \in 1 .. n
  BY <1>1
<1>3. LastRun \in RunSet
  BY <1>1, <1>2, ElementOfSeq DEF LastRun
<1>4. /\ EarlierRuns \in Seq(RunSet) /\ Len(EarlierRuns) = n - 1
      /\ \A i \in 1 .. n - 1 : EarlierRuns[i] = done[i]
  BY <1>2, FirstElements DEF EarlierRuns
<1>5. done[n] = LastRun
  BY DEF LastRun
<1> DEFINE e == EarlierRuns
           w == Append(e, LastRun)
<1>6. e \in Seq(RunSet) /\ Len(e) = n - 1 /\ \A i \in 1 .. n - 1 : e[i] = done[i]
  BY <1>4
<1> HIDE DEF n, e
<1>7. /\ w \in Seq(RunSet) /\ Len(w) = (n - 1) + 1
      /\ \A i \in 1 .. n - 1 : w[i] = e[i]
      /\ w[(n - 1) + 1] = LastRun
  BY <1>3, <1>6, AppendProperties
<1> HIDE DEF w
<1>8. Len(w) = n /\ \A i \in 1 .. n : w[i] = done[i]
  <2>1. (n - 1) + 1 = n /\ \A i \in 1 .. n : i \in 1 .. n - 1 \/ i = n
    BY <1>1
  <2> QED BY <1>5, <1>6, <1>7, <2>1
<1>9. w = done
  BY <1>7, <1>8, SeqEqual DEF n
<1> QED BY <1>3, <1>4, <1>9 DEF w, e

\* The end of the loop's body loses no run.
LEMMA NextReached ==
  ASSUME Position, index \in DOMAIN scenarios, NextRun
  PROVE  \A s, k \in Nat : UpTo(s, k, index, run)
                             => UpTo(s, k, index', run' - 1)
<1>1. /\ run \in Nat /\ index \in Nat
  BY CurrentFacts
<1>2. \/ run' = run + 1 /\ index' = index
      \/ run' = 1 /\ index' = index + 1
  BY DEF NextRun
<1> QED BY <1>1, <1>2 DEF UpTo

LEMMA RunNumbers ==
  ASSUME IInv
  PROVE  /\ \A i \in DOMAIN done : done[i] \in RunSet /\ done[i].run \in Nat
         /\ \A s \in DOMAIN scenarios : s \in Nat
         /\ done \in Seq(RunSet) /\ Len(done) \in Nat /\ DOMAIN done = 1 .. Len(done)
<1>1. done \in Seq(RunSet) /\ Len(done) \in Nat /\ DOMAIN done = 1 .. Len(done)
  BY LenProperties DEF IInv, Collected
<1>2. \A i \in DOMAIN done : done[i] \in RunSet
  BY <1>1, ElementOfSeq
<1>3. \A s \in DOMAIN scenarios : s \in Nat
  <2>1. CASE scenarios = <<>>
    BY <2>1
  <2>2. CASE scenarios \in Suites
    <3>1. scenarios \in Seq(Scenarios) /\ Len(scenarios) \in Nat
      BY <2>2, SuiteFacts
    <3>2. DOMAIN scenarios = 1 .. Len(scenarios)
      BY <3>1, LenProperties
    <3> QED BY <3>1, <3>2
  <2> QED BY <2>1, <2>2 DEF IInv, Position
<1> QED BY <1>1, <1>2, <1>3 DEF RunSet

\* What a recorded run adds to the completed ones.
LEMMA RecordedOnce ==
  ASSUME IInv, DoneInv, RunRecorded
  PROVE  \E d \in RunSet :
           /\ done' = Append(done, d)
           /\ d.n = Current.n /\ d.n3 = Current.n3 /\ d.run = run /\ d.ok = ok
           /\ d.records = records
           /\ \A i \in DOMAIN done : TripleOf(done[i]) # TripleOf(d)
           /\ \A i \in DOMAIN done : \E s \in DOMAIN scenarios :
                /\ done[i].n = scenarios[s].n /\ done[i].n3 = scenarios[s].n3
                /\ UpTo(s, done[i].run, index, run)
<1> DEFINE d == [n |-> Current.n, n3 |-> Current.n3, run |-> run, ok |-> ok, records |-> records]
<1>1. pc = "write_raw" /\ done' = Append(done, d) /\ Position /\ index \in DOMAIN scenarios
  BY DEF RunRecorded, IInv, Position
<1>2. /\ Current.n \in Nat /\ Current.n3 \in Nat /\ run \in Nat /\ index \in Nat
      /\ scenarios \in Suites
  BY <1>1, CurrentFacts
<1>3. ok \in BOOLEAN /\ records \in Seq(RecordSet)
  BY DEF IInv, Collected
<1>4. d \in RunSet
  BY <1>2, <1>3 DEF RunSet
<1>5. /\ d.n = Current.n /\ d.n3 = Current.n3 /\ d.run = run /\ d.ok = ok
      /\ d.records = records
  OBVIOUS
<1>6. MadeHere = run - 1
  BY <1>1 DEF MadeHere
<1>7. ASSUME NEW i \in DOMAIN done
      PROVE  /\ TripleOf(done[i]) # TripleOf(d)
             /\ \E s \in DOMAIN scenarios :
                  /\ done[i].n = scenarios[s].n /\ done[i].n3 = scenarios[s].n3
                  /\ UpTo(s, done[i].run, index, run)
  <2>1. PICK s \in DOMAIN scenarios :
          /\ done[i].n = scenarios[s].n /\ done[i].n3 = scenarios[s].n3
          /\ UpTo(s, done[i].run, index, MadeHere)
    BY <1>1 DEF DoneInv
  <2>2. s \in Nat /\ done[i].run \in Nat
    BY RunNumbers
  <2>3. UpTo(s, done[i].run, index, run - 1)
    BY <1>6, <2>1
  <2>4. ASSUME TripleOf(done[i]) = TripleOf(d) PROVE FALSE
    <3>1. /\ scenarios[s].n = scenarios[index].n /\ scenarios[s].n3 = scenarios[index].n3
          /\ done[i].run = run
      BY <1>5, <2>1, <2>4 DEF TripleOf, Current
    <3>2. s = index
      BY <1>1, <1>2, <3>1, SuiteFacts
    <3> QED BY <1>2, <2>2, <2>3, <3>1, <3>2 DEF UpTo
  <2>5. UpTo(s, done[i].run, index, run)
    BY <1>2, <2>2, <2>3 DEF UpTo
  <2> QED BY <2>1, <2>4, <2>5
<1> HIDE DEF d
<1> QED BY <1>1, <1>4, <1>5, <1>7

\* The completed runs are the same.
LEMMA DoneSame ==
  ASSUME DoneInv, UNCHANGED <<done, scenarios>>,
         pc' # "interrupted" => pc # "interrupted"
                 /\ \A i \in DOMAIN done, s \in DOMAIN scenarios :
           UpTo(s, done[i].run, index, MadeHere) => UpTo(s, done[i].run, index', MadeHere')
  PROVE  DoneInv'
<1>1. \A i \in DOMAIN done' : \E s \in DOMAIN scenarios' :
        /\ done'[i].n = scenarios'[s].n /\ done'[i].n3 = scenarios'[s].n3
        /\ pc' # "interrupted" => UpTo(s, done'[i].run, index', MadeHere')
  BY DEF DoneInv
<1>2. \A i, j \in DOMAIN done' : TripleOf(done[i])' = TripleOf(done[j])' => i = j
  BY DEF DoneInv, TripleOf
<1> QED BY <1>1, <1>2 DEF DoneInv

\* A run is recorded, and the loop has come to it.
LEMMA DoneMore ==
  ASSUME IInv, DoneInv, RunRecorded, UNCHANGED scenarios, pc' # "interrupted",
         \A s, k \in Nat : UpTo(s, k, index, run) => UpTo(s, k, index', MadeHere')
  PROVE  DoneInv'
<1>1. PICK d \in RunSet :
           /\ done' = Append(done, d)
           /\ d.n = Current.n /\ d.n3 = Current.n3 /\ d.run = run
           /\ \A i \in DOMAIN done : TripleOf(done[i]) # TripleOf(d)
           /\ \A i \in DOMAIN done : \E s \in DOMAIN scenarios :
                /\ done[i].n = scenarios[s].n /\ done[i].n3 = scenarios[s].n3
                /\ UpTo(s, done[i].run, index, run)
  BY RecordedOnce
<1>2. /\ done \in Seq(RunSet) /\ Len(done) \in Nat /\ DOMAIN done = 1 .. Len(done)
      /\ \A i \in DOMAIN done : done[i].run \in Nat
      /\ \A s \in DOMAIN scenarios : s \in Nat
  BY RunNumbers
<1>3. /\ DOMAIN done' = 1 .. Len(done) + 1
      /\ \A i \in DOMAIN done : done'[i] = done[i]
      /\ done'[Len(done) + 1] = d
  BY <1>1, <1>2, AppendProperties, LenProperties
<1>4. \A i \in DOMAIN done' : i \in DOMAIN done \/ i = Len(done) + 1
  BY <1>2, <1>3
<1>5. index \in DOMAIN scenarios /\ index \in Nat /\ run \in Nat
  <2>1. index \in DOMAIN scenarios /\ Position
    BY DEF IInv, RunRecorded, Position
  <2> QED BY <2>1, CurrentFacts
<1>6. ASSUME NEW i \in DOMAIN done'
      PROVE  \E s \in DOMAIN scenarios' :
               /\ done'[i].n = scenarios'[s].n /\ done'[i].n3 = scenarios'[s].n3
               /\ pc' # "interrupted" => UpTo(s, done'[i].run, index', MadeHere')
  <2>1. CASE i \in DOMAIN done
    <3>1. PICK s \in DOMAIN scenarios :
            /\ done[i].n = scenarios[s].n /\ done[i].n3 = scenarios[s].n3
            /\ UpTo(s, done[i].run, index, run)
      BY <1>1, <2>1
    <3>2. UpTo(s, done[i].run, index', MadeHere')
      BY <1>2, <2>1, <3>1
    <3>3. done'[i] = done[i]
      BY <1>3, <2>1
    <3> QED BY <3>1, <3>2, <3>3
  <2>2. CASE i = Len(done) + 1
    <3>1. done'[i] = d /\ d.n = scenarios[index].n /\ d.n3 = scenarios[index].n3
      BY <1>1, <1>3, <2>2 DEF Current
    <3>2. UpTo(index, run, index', MadeHere')
      BY <1>5 DEF UpTo
    <3> QED BY <1>1, <1>5, <3>1, <3>2
  <2> QED BY <1>4, <2>1, <2>2
<1>7. ASSUME NEW i \in DOMAIN done', NEW j \in DOMAIN done',
             TripleOf(done'[i]) = TripleOf(done'[j])
      PROVE  i = j
  <2>1. \A a, b \in DOMAIN done : TripleOf(done[a]) = TripleOf(done[b]) => a = b
    BY DEF DoneInv
  <2> QED BY <1>1, <1>3, <1>4, <1>7, <2>1
<1> QED BY <1>6, <1>7 DEF DoneInv

LEMMA DoneStep == IInv /\ DoneInv /\ [Next]_vars => DoneInv'
<1> SUFFICES ASSUME IInv, DoneInv, [Next]_vars PROVE DoneInv'
  OBVIOUS
<1>1. Position /\ Collected
  BY DEF IInv
<1>2. CASE done = <<>> /\ done' = <<>>
  <2>1. DOMAIN done' = {}
    BY <1>2
  <2> QED BY <2>1 DEF DoneInv
<1>3. CASE ParseArgs \/ CreateRawFiles \/ CreateSummary \/ Build
  <2>1. pc \in Creating \cup {"args", "build"} /\ done' = done
    BY <1>3 DEF ParseArgs, CreateRawFiles, CreateRaw, CreateSummary, Build, Creating
  <2>2. done = <<>>
    BY <1>1, <2>1 DEF Collected
  <2> QED BY <1>2, <2>1, <2>2
<1>4. CASE RunScenario \/ WriteRaw \/ AddRun \/ WriteSummary \/ Exit
  <2>1. /\ UNCHANGED <<scenarios, index, run, done>> /\ pc # "interrupted"
        /\ pc \in {"add_run", "write_summary"} <=> pc' \in {"add_run", "write_summary"}
    BY <1>4 DEF RunScenario, WriteRaw, AddRun, WriteSummary, Exit, configVars
  <2>2. MadeHere' = MadeHere /\ index' = index
    BY <2>1 DEF MadeHere
  <2> QED BY <2>1, <2>2, DoneSame
<1>5. CASE RunFailed
  <2>1. RunRecorded /\ NextRun /\ UNCHANGED scenarios /\ pc' = "run"
    BY <1>5 DEF RunFailed, NextRun
  <2>2. index \in DOMAIN scenarios
    BY <1>1, <2>1 DEF RunRecorded, Position
  <2>3. MadeHere' = run' - 1
    BY <2>1 DEF MadeHere
  <2>4. \A s, k \in Nat : UpTo(s, k, index, run) => UpTo(s, k, index', MadeHere')
    BY <1>1, <2>1, <2>2, <2>3, NextReached
  <2> QED BY <2>1, <2>4, DoneMore
<1>6. CASE RunSucceeded
  <2>1. RunRecorded /\ UNCHANGED <<scenarios, index, run>> /\ pc' = "add_run"
    BY <1>6 DEF RunSucceeded, configVars
  <2>2. MadeHere' = run /\ index' = index
    BY <2>1 DEF MadeHere
  <2>3. \A s, k \in Nat : UpTo(s, k, index, run) => UpTo(s, k, index', MadeHere')
    BY <2>2
  <2> QED BY <2>1, <2>3, DoneMore
<1>7. CASE SummaryWritten
  <2>1. /\ NextRun /\ UNCHANGED <<scenarios, done>> /\ pc = "write_summary" /\ pc' = "run"
    BY <1>7 DEF SummaryWritten, NextRun
  <2>2. index \in DOMAIN scenarios
    BY <1>1, <2>1 DEF Position
  <2>3. MadeHere = run /\ MadeHere' = run' - 1
    BY <2>1 DEF MadeHere
  <2>4. \A s, k \in Nat : UpTo(s, k, index, run) => UpTo(s, k, index', MadeHere')
    BY <1>1, <2>1, <2>2, <2>3, NextReached
  <2>5. /\ \A i \in DOMAIN done : done[i].run \in Nat
        /\ \A s \in DOMAIN scenarios : s \in Nat
    BY RunNumbers
  <2> QED BY <2>1, <2>3, <2>4, <2>5, DoneSame
<1>8. CASE Interrupt
  <2>1. UNCHANGED <<scenarios, done>> /\ pc' = "interrupted"
    BY <1>8 DEF Interrupt, configVars
  <2> QED BY <2>1, DoneSame
<1>9. CASE UNCHANGED vars
  <2>1. UNCHANGED <<pc, scenarios, index, run, done>>
    BY <1>9 DEF vars, configVars
  <2>2. MadeHere' = MadeHere /\ index' = index
    BY <2>1 DEF MadeHere
  <2> QED BY <2>1, <2>2, DoneSame
<1> QED BY <1>3, <1>4, <1>5, <1>6, <1>7, <1>8, <1>9 DEF Next

LEMMA RowsStep == IInv /\ RowsInv /\ [Next]_vars => RowsInv'
<1> SUFFICES ASSUME IInv, RowsInv, [Next]_vars PROVE RowsInv'
  OBVIOUS
<1>1. CASE AddRun \/ WriteSummary
  BY <1>1 DEF AddRun, WriteSummary, RowsInv
<1>2. CASE SummaryWritten
  BY <1>2 DEF SummaryWritten, RowsInv
<1>3. CASE ParseArgs \/ CreateRawFiles \/ CreateSummary \/ Build
  BY <1>3 DEF ParseArgs, CreateRawFiles, CreateRaw, CreateSummary, Build, RowsInv
<1>7. CASE RunScenario \/ Exit
  BY <1>7 DEF RunScenario, Exit, RowsInv
<1>4. CASE WriteRaw \/ RunFailed \/ RunSucceeded
  BY <1>4 DEF WriteRaw, RunFailed, RunSucceeded, RunRecorded, RowsInv
<1>5. CASE Interrupt
  BY <1>5 DEF Interrupt, RowsInv
<1>6. CASE UNCHANGED vars
  BY <1>6 DEF vars, RowsInv
<1> QED BY <1>1, <1>2, <1>3, <1>4, <1>5, <1>6, <1>7 DEF Next

\* While the series goes on the files follow from the first part of the invariant.
Going == pc \notin {"interrupted", "panicked"}

LEMMA GoingFiles == IInv /\ DoneInv /\ RowsInv /\ Going => FilesInv
<1> SUFFICES ASSUME IInv, DoneInv, RowsInv, Going, Created PROVE
        /\ summary \o rows = summaries(summarizer)
        /\ rows = <<>> => summary = summaries(summarizer)
        /\ \A role \in Roles : \E rest \in Seq(RowSet) :
             raw[role] = Kept(role) \o rest /\ Foreign(rest, done)
  BY DEF FilesInv
<1>1. Position /\ Collected /\ SummaryInv /\ RawInv
  BY DEF IInv
<1>2. /\ summarizer \in Summarizers(Keys, RunCounts) /\ done \in Seq(RunSet)
      /\ records \in Seq(RecordSet) /\ Len(records) \in Nat /\ written \in 0 .. Len(records)
  BY <1>1, LenProperties DEF Collected
<1>3. pc = "build" \/ Looping
  <2>1. pc \notin Creating \cup {"args"} /\ scenarios # <<>>
    BY DEF Created
  <2> QED BY <1>1, <2>1 DEF Looping, Position, Going
<1>4. /\ summary \o rows = summaries(summarizer)
      /\ rows = <<>> => summary = summaries(summarizer)
  <2>1. CASE pc = "write_summary"
    <3>1. /\ summary \in Seq(ToSet(summaries(summarizer)))
          /\ summary \o rows = summaries(summarizer)
      BY <1>1, <2>1 DEF SummaryInv
    <3>2. summary \o <<>> = summary
      BY <3>1, ConcatEmptySeq
    <3> QED BY <3>1, <3>2
  <2>2. CASE pc # "write_summary"
    <3>1. rows = <<>>
      BY <2>2 DEF RowsInv, Going
    <3>2. summary = summaries(summarizer)
      <4>1. CASE pc = "build"
        BY <1>1, <4>1, NoSummaries DEF SummaryInv, Collected
      <4>2. CASE Looping
        BY <1>1, <2>2, <4>2 DEF SummaryInv
      <4> QED BY <1>3, <4>1, <4>2
    <3>3. IsSequence(summaries(summarizer))
      BY <1>2, SummariesFacts
    <3> DEFINE t == summaries(summarizer)
    <3>4. t \in Seq(ToSet(t))
      BY <3>3 DEF IsSequence
    <3> HIDE DEF t
    <3>5. t \o <<>> = t
      BY <3>4, ConcatEmptySeq
    <3> QED BY <3>1, <3>2, <3>5 DEF t
  <2> QED BY <2>1, <2>2
<1>5. ASSUME NEW role \in Roles
      PROVE  \E rest \in Seq(RowSet) : raw[role] = Kept(role) \o rest /\ Foreign(rest, done)
  <2>1. role \in DOMAIN RoleRank /\ Kept(role) \in Seq(RowSet)
    BY <1>2, KeptTyped DEF Roles
  <2>2. CASE pc # "write_raw"
    <3>1. raw[role] = Kept(role)
      BY <1>1, <1>3, <2>1, <2>2 DEF RawInv
    <3>2. <<>> \in Seq(RowSet) /\ Len(<<>>) = 0 /\ Kept(role) \o <<>> = Kept(role)
      BY <2>1, ConcatEmptySeq
    <3>3. Foreign(<<>>, done)
      BY <3>2 DEF Foreign
    <3> QED BY <3>1, <3>2, <3>3
  <2>3. CASE pc = "write_raw"
    <3> DEFINE rest == Writing(role, written)
               part == SubSeq(records, 1, written)
               S == {row \in RowSet : row.n = Current.n /\ row.n3 = Current.n3 /\ row.run = run}
               found == [i \in DOMAIN part |-> IF part[i].actor.role = role
                           THEN <<RawRow(Current.n, Current.n3, run, part[i])>> ELSE <<>>]
    <3>1. raw[role] = Kept(role) \o rest
      BY <1>1, <2>1, <2>3 DEF RawInv
    <3>2. index \in DOMAIN scenarios /\ Current.n \in Nat /\ Current.n3 \in Nat /\ run \in Nat
          /\ index \in Nat /\ scenarios \in Suites
      <4>1. index \in DOMAIN scenarios
        BY <1>1, <2>3 DEF Position
      <4> QED BY <1>1, <4>1, CurrentFacts
    <3>3. /\ part \in Seq(RecordSet) /\ Len(part) = written /\ written \in Nat
          /\ DOMAIN part = 1 .. written /\ \A i \in DOMAIN part : part[i] \in RecordSet
      <4>1. part \in Seq(RecordSet) /\ Len(part) = written
        BY <1>2, FirstElements
      <4>2. written \in Nat
        BY <1>2
      <4> HIDE DEF part
      <4> QED BY <4>1, <4>2, LenProperties, ElementOfSeq
    <3>4. rest = FlattenSeq(found)
      BY DEF Writing, Records
    <3>5. ASSUME NEW i \in DOMAIN part PROVE found[i] \in Seq(S)
      <4> DEFINE row == RawRow(Current.n, Current.n3, run, part[i])
      <4>1. found[i] = <<row>> \/ found[i] = <<>>
        OBVIOUS
      <4>2. part[i] \in RecordSet
        BY <3>3
      <4>3. row \in RowSet
        <5> DEFINE r == part[i]
        <5>1. r \in RecordSet
          BY <4>2
        <5> HIDE DEF r, part, found, S, rest
        <5>2. <<Current.n, Current.n3, run, r>> \in Nat \X Nat \X Nat \X RecordSet
          BY <3>2, <5>1
        <5>3. RawRow(Current.n, Current.n3, run, r) \in RowSet
          BY <5>2 DEF RowSet
        <5> QED BY <5>3 DEF r
      <4>4. row.n = Current.n /\ row.n3 = Current.n3 /\ row.run = run
        BY DEF RawRow
      <4> HIDE DEF found, row
      <4>5. row \in S
        BY <4>3, <4>4
      <4> HIDE DEF S
      <4>6. <<row>> \in Seq(S) /\ <<>> \in Seq(S)
        BY <4>5
      <4> QED BY <4>1, <4>6
    <3>6. found \in Seq(Seq(S))
      <4>1. found = [i \in 1 .. written |-> found[i]]
        BY <3>3
      <4> HIDE DEF found, part, S
      <4>2. found \in [1 .. written -> Seq(S)]
        BY <3>3, <3>5, <4>1
      <4> QED BY <3>3, <4>2
    <3>7. rest \in Seq(S)
      <4> HIDE DEF found, S, rest
      <4> QED BY <3>4, <3>6, FlattenTyped
    <3>8. rest \in Seq(RowSet)
      <4> HIDE DEF rest, found, part
      <4>1. S \subseteq RowSet
        OBVIOUS
      <4> HIDE DEF S
      <4> QED BY <3>7, <4>1, SeqMonotonic
    <3>9. Foreign(rest, done)
      <4> SUFFICES ASSUME NEW i \in 1 .. Len(rest), NEW j \in DOMAIN done,
                          <<rest[i].n, rest[i].n3, rest[i].run>> = TripleOf(done[j])
                   PROVE  FALSE
        BY DEF Foreign
      <4>1. rest[i] \in S
        <5> HIDE DEF S, rest
        <5> QED BY <3>7, ElementOfSeq
      <4>2. done[j].n = Current.n /\ done[j].n3 = Current.n3 /\ done[j].run = run
        <5> HIDE DEF rest
        <5> QED BY <4>1 DEF TripleOf
      <4>3. PICK s \in DOMAIN scenarios :
              /\ done[j].n = scenarios[s].n /\ done[j].n3 = scenarios[s].n3
              /\ UpTo(s, done[j].run, index, MadeHere)
        BY <2>3 DEF DoneInv
      <4>4. s = index
        BY <3>2, <4>2, <4>3, SuiteFacts DEF Current
      <4>5. MadeHere = run - 1
        BY <2>3 DEF MadeHere
      <4> QED BY <3>2, <4>2, <4>3, <4>4, <4>5 DEF UpTo
    <3> QED BY <3>1, <3>8, <3>9
  <2> QED BY <2>2, <2>3
<1> QED BY <1>4, <1>5

\* When it stops they are left as they are.
LEMMA StoppedFiles == IInv /\ FilesInv /\ [Next]_vars /\ ~Going' => FilesInv'
<1> SUFFICES ASSUME IInv, FilesInv, [Next]_vars, ~Going' PROVE FilesInv'
  OBVIOUS
<1>1. Interrupt \/ Build \/ UNCHANGED vars
  <2>1. RunScenario \/ WriteRaw \/ AddRun \/ WriteSummary \/ SummaryWritten \/ Exit => FALSE
    BY DEF RunScenario, WriteRaw, AddRun, WriteSummary, SummaryWritten, NextRun, Exit, Going
  <2>3. ParseArgs \/ CreateRawFiles \/ CreateSummary => FALSE
    BY DEF ParseArgs, CreateRawFiles, CreateRaw, CreateSummary, Going
  <2>2. RunFailed \/ RunSucceeded => FALSE
    BY DEF RunFailed, RunSucceeded, RunRecorded, NextRun, Going
  <2> QED BY <2>1, <2>2, <2>3 DEF Next
<1>2. /\ UNCHANGED <<scenarios, summary, rows, summarizer, raw, done>>
      /\ pc' \in {"interrupted", "panicked"}
      /\ pc \in Creating \cup {"args"} => summary = OldRows
  BY <1>1 DEF Interrupt, Build, vars, configVars, fileVars, Going, IInv, SummaryInv
<1>3. Created' => Created
  BY <1>2 DEF Created
<1>4. \A role : Kept(role)' = Kept(role)
  BY <1>2, SameRuns
<1>5. \A rest : Foreign(rest, done)' = Foreign(rest, done)
  BY <1>2 DEF Foreign, TripleOf
<1>6. CASE Created'
  <2>1. /\ summary' \o rows' = summaries(summarizer')
        /\ rows' = <<>> => summary' = summaries(summarizer')
    BY <1>2, <1>3, <1>6 DEF FilesInv
  <2>2. \A role \in Roles : \E rest \in Seq(RowSet) :
          raw'[role] = Kept(role)' \o rest /\ Foreign(rest, done)'
    BY <1>2, <1>3, <1>4, <1>5, <1>6 DEF FilesInv
  <2> QED BY <2>1, <2>2 DEF FilesInv
<1> QED BY <1>6 DEF FilesInv

LEMMA FilesStep == IInv /\ FilesInv /\ IInv' /\ DoneInv' /\ RowsInv' /\ [Next]_vars => FilesInv'
<1>1. (IInv /\ DoneInv /\ RowsInv /\ Going)' => FilesInv'
  BY GoingFiles, PTL
<1> QED BY <1>1, StoppedFiles

\* The summarizer and the completed runs stay, and it says the same of them.
LEMMA SummarizedSame ==
  ASSUME UNCHANGED <<summarizer, done>>
  PROVE  /\ Summarized(done)' <=> Summarized(done)
         /\ Summarized(EarlierRuns)' <=> Summarized(EarlierRuns)
         /\ LastRun' = LastRun
BY DEF Summarized, EarlierRuns, LastRun

LEMMA RunFailedSummarizer ==
  ASSUME IInv, DoneInv, SummarizerInv, RunFailed
  PROVE  SummarizerInv'
<1>1. RunRecorded /\ pc = "write_raw" /\ pc' = "run" /\ ~ok /\ summarizer' = summarizer
  BY DEF RunFailed, RunRecorded, NextRun
<1>2. PICK d \in RunSet : done' = Append(done, d) /\ d.ok = ok
  BY <1>1, RecordedOnce
<1>3. done \in Seq(RunSet) /\ Summarized(done)
  BY <1>1 DEF IInv, Collected, SummarizerInv
<1>4. PoolsOf(Append(done, d)) = PoolsOf(done)
  BY <1>1, <1>2, <1>3, PoolsAppend
<1>5. Successful(Append(done, d)) = Successful(done)
  BY <1>1, <1>2, <1>3, SuccessfulAppend
<1>6. Summarized(done)'
  BY <1>1, <1>2, <1>3, <1>4, <1>5 DEF Summarized
<1> QED BY <1>1, <1>6 DEF SummarizerInv

LEMMA RunSucceededSummarizer ==
  ASSUME IInv, DoneInv, RowsInv, SummarizerInv, RunSucceeded
  PROVE  SummarizerInv'
<1>1. /\ RunRecorded /\ pc = "write_raw" /\ pc' = "add_run" /\ ok
      /\ UNCHANGED <<scenarios, index, records, summarizer, rows>>
  BY DEF RunSucceeded, RunRecorded, configVars, runVars
<1>2. PICK d \in RunSet :
        /\ done' = Append(done, d) /\ d.ok = ok /\ d.records = records
        /\ d.n = Current.n /\ d.n3 = Current.n3
  BY <1>1, RecordedOnce
<1>3. done \in Seq(RunSet) /\ Summarized(done)
  BY <1>1 DEF IInv, Collected, SummarizerInv
<1>4. /\ done' \in Seq(RunSet) /\ done' # <<>> /\ LastRun' = d /\ EarlierRuns' = done
  <2> DEFINE more == Append(done, d)
             n == Len(done)
             firsts == SubSeq(more, 1, n)
  <2>1. /\ n \in Nat /\ more \in Seq(RunSet) /\ Len(more) = n + 1
        /\ \A i \in 1 .. n : more[i] = done[i]
        /\ more[n + 1] = d
    BY <1>3, AppendProperties, LenProperties
  <2>2. n \in 0 .. Len(more) /\ Len(more) - 1 = n
    BY <2>1
  <2>3. firsts \in Seq(RunSet) /\ Len(firsts) = n /\ \A i \in 1 .. n : firsts[i] = more[i]
    <3> HIDE DEF more, n
    <3> QED BY <2>1, <2>2, FirstElements
  <2>4. firsts = done
    <3> HIDE DEF firsts, more
    <3> QED BY <1>3, <2>1, <2>3, SeqEqual
  <2>5. more # <<>>
    <3> HIDE DEF more
    <3> QED BY <2>1
  <2> QED BY <1>2, <2>1, <2>2, <2>4, <2>5 DEF LastRun, EarlierRuns
<1>5. rows' = <<>>
  BY <1>1 DEF RowsInv
<1>6. Summarized(EarlierRuns)'
  BY <1>1, <1>3, <1>4 DEF Summarized
<1>7. Current' = Current
  BY <1>1 DEF Current
<1> QED BY <1>1, <1>2, <1>4, <1>5, <1>6, <1>7 DEF SummarizerInv

LEMMA AddRunSummarizer ==
  ASSUME IInv, DoneInv, SummarizerInv, AddRun
  PROVE  SummarizerInv'
<1>1. /\ pc = "add_run" /\ pc' = "write_summary" /\ done' = done
      /\ summarizer' = add_run(summarizer, Current.n, Current.n3, records)
  BY DEF AddRun
<1>2. /\ done # <<>> /\ LastRun.ok /\ Summarized(EarlierRuns)
      /\ LastRun.n = Current.n /\ LastRun.n3 = Current.n3 /\ LastRun.records = records
  BY <1>1 DEF SummarizerInv
<1>3. /\ done = Append(EarlierRuns, LastRun)
      /\ EarlierRuns \in Seq(RunSet) /\ LastRun \in RunSet
  BY <1>2, DoneSplit DEF IInv, Collected
<1> DEFINE n == Current.n
           n3 == Current.n3
           es == EarlierRuns
           d == LastRun
           pool == PoolsOf(es)
           s == summarizer
           t == add_run(s, n, n3, records)
<1>4. /\ n \in Nat /\ n3 \in Nat /\ s \in Summarizers(Keys, RunCounts)
      /\ records \in Seq(RecordSet) /\ es \in Seq(RunSet) /\ d \in RunSet
  <2>1. index \in DOMAIN scenarios
    BY <1>1 DEF IInv, Position
  <2> QED BY <1>3, <2>1, CurrentFacts DEF IInv, Collected
<1>5. d.n = n /\ d.n3 = n3 /\ d.records = records /\ d.ok /\ done = Append(es, d)
  BY <1>2, <1>3
<1>6. Pools(s, pool) /\ CountsRuns(s.runs, Successful(es))
  BY <1>2 DEF Summarized
<1>7. TripleOf(d) \notin Successful(es)
  <2>1. \A i \in DOMAIN es : i \in DOMAIN done /\ es[i] = done[i] /\ i # Len(done)
    <3>1. /\ Len(es) \in Nat /\ DOMAIN es = 1 .. Len(es)
          /\ Len(done) = Len(es) + 1 /\ DOMAIN done = 1 .. Len(es) + 1
          /\ \A i \in 1 .. Len(es) : done[i] = es[i]
      <4> HIDE DEF es, d
      <4> QED BY <1>4, <1>5, AppendProperties, LenProperties
    <3> HIDE DEF es, d
    <3>2. \A i \in 1 .. Len(es) : i \in 1 .. Len(es) + 1 /\ i # Len(es) + 1
      BY <3>1
    <3> QED BY <3>1, <3>2
  <2>2. Len(done) \in DOMAIN done
    <3>1. Len(done) \in Nat /\ DOMAIN done = 1 .. Len(done) /\ Len(done) # 0
      BY <1>2, LenProperties, EmptySeq DEF IInv, Collected
    <3> QED BY <3>1
  <2>3. \A i \in DOMAIN es : TripleOf(es[i]) # TripleOf(d)
    BY <2>1, <2>2 DEF DoneInv, LastRun
  <2> HIDE DEF es, d
  <2> QED BY <2>3 DEF Successful, TripleOf
<1> HIDE DEF n, n3, es, d, s
<1>8. pool \in [Roles -> Seq(SampleSet)]
  BY <1>4, PoolsAppend
<1>9. PoolsOf(Append(es, d)) = [role \in Roles |-> pool[role] \o RunPool(role, n, n3, records)]
  <2> HIDE DEF t
  <2>1. d.ok => PoolsOf(Append(es, d))
                  = [role \in Roles |-> PoolsOf(es)[role] \o RunPool(role, d.n, d.n3, d.records)]
    BY <1>4, PoolsAppend, Zenon
  <2> QED BY <1>5, <2>1, Zenon
<1>10. Successful(Append(es, d)) = Successful(es) \cup {TripleOf(d)}
  BY <1>4, <1>5, SuccessfulAppend
<1> HIDE DEF pool
<1>11. Pools(t, [role \in Roles |-> pool[role] \o RunPool(role, n, n3, records)])
  BY <1>4, <1>6, <1>8, AddRunPools
<1>12. t.runs = Counted(s, n, n3).runs
  BY <1>4, AddRunFacts
<1>13. TripleOf(d) = <<n, n3, d.run>>
  BY <1>5 DEF TripleOf
<1>14. CountsRuns(t.runs, Successful(es) \cup {TripleOf(d)})
  <2> DEFINE triples == Successful(es)
             k == d.run
  <2>1. CountsRuns(s.runs, triples) /\ <<n, n3, k>> \notin triples
    BY <1>6, <1>7, <1>13
  <2> HIDE DEF triples, k
  <2>2. CountsRuns(Counted(s, n, n3).runs, triples \cup {<<n, n3, k>>})
    BY <1>4, <2>1, CountsMore
  <2> QED BY <1>12, <1>13, <2>2 DEF triples, k
<1> HIDE DEF t
<1>15. summarizer' = t /\ done' = Append(es, d)
  BY <1>1, <1>5 DEF t, s, n, n3
<1>16. Summarized(done)'
  BY <1>9, <1>10, <1>11, <1>14, <1>15 DEF Summarized
<1> QED BY <1>1, <1>16 DEF SummarizerInv

LEMMA SummarizerStep ==
  IInv /\ DoneInv /\ RowsInv /\ SummarizerInv /\ [Next]_vars => SummarizerInv'
<1> SUFFICES ASSUME IInv, DoneInv, RowsInv, SummarizerInv, [Next]_vars PROVE SummarizerInv'
  OBVIOUS
<1>1. CASE \/ ParseArgs \/ CreateRawFiles \/ CreateSummary \/ Build \/ RunScenario \/ WriteRaw
           \/ WriteSummary \/ SummaryWritten \/ Exit
  <2>1. /\ pc \notin {"add_run", "interrupted"} /\ pc' # "add_run"
        /\ UNCHANGED <<summarizer, done>>
    <3>1. CASE ParseArgs \/ Build \/ RunScenario
      BY <3>1 DEF ParseArgs, Build, RunScenario
    <3>3. CASE CreateRawFiles \/ CreateSummary
      BY <3>3 DEF CreateRawFiles, CreateRaw, CreateSummary
    <3>2. CASE WriteRaw \/ WriteSummary \/ SummaryWritten \/ Exit
      BY <3>2 DEF WriteRaw, WriteSummary, SummaryWritten, NextRun, Exit
    <3> QED BY <1>1, <3>1, <3>2, <3>3
  <2> QED BY <2>1, SummarizedSame DEF SummarizerInv
<1>2. CASE Interrupt
  <2>1. UNCHANGED <<summarizer, done, rows>> /\ pc' = "interrupted"
    BY <1>2 DEF Interrupt
  <2> QED BY <2>1, SummarizedSame DEF SummarizerInv
<1>3. CASE UNCHANGED vars
  <2>1. UNCHANGED <<pc, summarizer, done, rows, scenarios, index, records>>
    BY <1>3 DEF vars, configVars, runVars
  <2>2. Current' = Current
    BY <2>1 DEF Current
  <2> QED BY <2>1, <2>2, SummarizedSame DEF SummarizerInv
<1> QED BY <1>1, <1>2, <1>3, RunFailedSummarizer, RunSucceededSummarizer,
        AddRunSummarizer DEF Next

LEMMA NothingSummarized ==
  /\ Pools(EmptySummarizer, PoolsOf(<<>>)) /\ CountsRuns(EmptySummarizer.runs, Successful(<<>>))
<1>1. EmptySummarizer.order = <<>> /\ EmptySummarizer.samples = <<>>
        /\ EmptySummarizer.runs = <<>>
  BY DEF EmptySummarizer
<1>2. DOMAIN <<>> = {} /\ \A role \in Roles : PoolsOf(<<>>)[role] = <<>>
  BY NoneSuccessful DEF PoolsOf
<1>3. \A k \in Keys : k.role \in Roles
  BY DEF Keys, Roles
<1>4. Pools(EmptySummarizer, PoolsOf(<<>>))
  BY <1>1, <1>2, <1>3 DEF Pools
<1>5. CountsRuns(EmptySummarizer.runs, Successful(<<>>))
  BY <1>1, <1>2, NoneSuccessful, FS_EmptySet DEF CountsRuns
<1> QED BY <1>4, <1>5

LEMMA InitSInv == Init => SInv
<1> SUFFICES ASSUME Init PROVE SInv
  OBVIOUS
<1>1. pc = "args" /\ done = <<>> /\ rows = <<>> /\ summarizer = EmptySummarizer
  BY DEF Init
<1>2. DOMAIN done = {}
  BY <1>1
<1>3. DoneInv /\ RowsInv
  BY <1>1, <1>2 DEF DoneInv, RowsInv
<1>4. FilesInv
  BY <1>1 DEF FilesInv, Created
<1>5. SummarizerInv
  BY <1>1, NothingSummarized DEF SummarizerInv, Summarized
<1> QED BY <1>3, <1>4, <1>5 DEF SInv

LEMMA SInvTheorem == Spec => []SInv
<1>1. IInv /\ IInv' /\ SInv /\ [Next]_vars => SInv'
  BY DoneStep, RowsStep, FilesStep, SummarizerStep DEF SInv
<1> QED BY <1>1, InitSInv, IInvTheorem, PTL DEF Spec

-----------------------------------------------------------------------------
(* What is pooled comes from the runs of the suite *)

LEMMA FlatMapWithin ==
  ASSUME NEW S, NEW T, NEW f, NEW s \in Seq(S), \A i \in 1 .. Len(s) : f[s[i]] \in Seq(T)
  PROVE  FlatMap(f, s) \in Seq(T)
<1> DEFINE parts == [i \in 1 .. Len(s) |-> f[s[i]]]
<1>1. Len(s) \in Nat /\ DOMAIN s = 1 .. Len(s)
  BY LenProperties
<1>2. FlatMap(f, s) = FlattenSeq(parts)
  BY <1>1 DEF FlatMap
<1>3. parts \in [1 .. Len(s) -> Seq(T)]
  OBVIOUS
<1> HIDE DEF parts
<1>4. parts \in Seq(Seq(T))
  BY <1>1, <1>3
<1> QED BY <1>2, <1>4, FlattenTyped

\* The rows of a run have its number.
LEMMA RowsOwn ==
  ASSUME NEW role, NEW d \in RunSet
  PROVE  \A i \in 1 .. Len(Records(role, d)) :
           LET row == Records(role, d)[i]
           IN  <<row.n, row.n3, row.run>> = TripleOf(d)
<1> DEFINE T == {row \in RowSet : row.n = d.n /\ row.n3 = d.n3 /\ row.run = d.run}
           recs == d.records
           f == [r \in RecordSet |-> IF r.actor.role = role
                   THEN <<RawRow(d.n, d.n3, d.run, r)>> ELSE <<>>]
<1>1. d.n \in Nat /\ d.n3 \in Nat /\ d.run \in Nat /\ recs \in Seq(RecordSet)
  BY DEF RunSet
<1>2. ASSUME NEW r \in RecordSet PROVE f[r] \in Seq(T)
  <2> DEFINE row == RawRow(d.n, d.n3, d.run, r)
  <2>1. f[r] = <<row>> \/ f[r] = <<>>
    OBVIOUS
  <2>2. row \in RowSet
    <3>1. <<d.n, d.n3, d.run, r>> \in Nat \X Nat \X Nat \X RecordSet
      BY <1>1
    <3> HIDE DEF f, T, recs
    <3> QED BY <3>1 DEF RowSet
  <2>3. row.n = d.n /\ row.n3 = d.n3 /\ row.run = d.run
    BY DEF RawRow
  <2> HIDE DEF f, row
  <2>4. row \in T
    BY <2>2, <2>3
  <2> HIDE DEF T
  <2>5. <<row>> \in Seq(T) /\ <<>> \in Seq(T)
    BY <2>4
  <2> QED BY <2>1, <2>5
<1>3. \A i \in 1 .. Len(recs) : recs[i] \in RecordSet
  <2> HIDE DEF recs
  <2> QED BY <1>1, ElementOfSeq
<1>4. Records(role, d) = FlatMap(f, recs)
  <2>1. DOMAIN recs = 1 .. Len(recs)
    BY <1>1, LenProperties
  <2>2. [i \in DOMAIN recs |->
          IF recs[i].actor.role = role THEN <<RawRow(d.n, d.n3, d.run, recs[i])>> ELSE <<>>]
          = [i \in DOMAIN recs |-> f[recs[i]]]
    BY <1>3, <2>1
  <2> QED BY <2>2 DEF Records, FlatMap
<1> HIDE DEF f, recs
<1>5. FlatMap(f, recs) \in Seq(T)
  <2>1. \A i \in 1 .. Len(recs) : f[recs[i]] \in Seq(T)
    BY <1>2, <1>3
  <2> QED BY <1>1, <2>1, FlatMapWithin
<1> DEFINE all == Records(role, d)
<1>6. all \in Seq(T)
  BY <1>4, <1>5
<1> HIDE DEF all
<1>7. \A i \in 1 .. Len(all) : all[i] \in T
  <2> HIDE DEF T
  <2> QED BY <1>6, ElementOfSeq
<1>8. \A i \in 1 .. Len(all) : <<all[i].n, all[i].n3, all[i].run>> = TripleOf(d)
  BY <1>7 DEF TripleOf
<1> QED BY <1>8 DEF all

\* A sample pooled for a role has that role, and comes from a successful run.
LEMMA PoolFrom ==
  ASSUME NEW role \in Roles, NEW ds \in Seq(RunSet)
  PROVE  LET pool == PoolsOf(ds)[role]
         IN  /\ pool \in Seq(SampleSet)
             /\ \A p \in DOMAIN pool :
                  /\ pool[p].key \in Keys /\ pool[p].key.role = role
                  /\ \E i \in DOMAIN ds : /\ ds[i].ok
                                          /\ ds[i].n = pool[p].key.n /\ ds[i].n3 = pool[p].key.n3
<1> DEFINE T == {sample \in SampleSet :
                   /\ sample.key.role = role
                   /\ \E i \in DOMAIN ds : /\ ds[i].ok
                                           /\ ds[i].n = sample.key.n /\ ds[i].n3 = sample.key.n3}
           pool == PoolsOf(ds)[role]
<1>1. /\ Len(ds) \in Nat /\ DOMAIN ds = 1 .. Len(ds)
      /\ \A i \in DOMAIN ds : ds[i] \in RunSet
  BY LenProperties, ElementOfSeq
<1>2. pool = FlatMap(RunSamples(role), ds)
  BY DEF PoolsOf
<1>3. ASSUME NEW i \in DOMAIN ds PROVE RunSamples(role)[ds[i]] \in Seq(T)
  <2> DEFINE d == ds[i]
             n == d.n
             n3 == d.n3
             recs == d.records
             f == SampleOf(role, n, n3)
  <2>1. d \in RunSet
    BY <1>1
  <2>2. n \in Nat /\ n3 \in Nat /\ recs \in Seq(RecordSet)
    <3> HIDE DEF d
    <3> QED BY <2>1 DEF RunSet
  <2>3. CASE ~d.ok
    <3>1. RunSamples(role)[d] = <<>>
      <4> HIDE DEF d, T
      <4> QED BY <2>1, <2>3 DEF RunSamples
    <3> HIDE DEF T, d
    <3>2. <<>> \in Seq(T)
      OBVIOUS
    <3> QED BY <3>1, <3>2 DEF d
  <2>4. CASE d.ok
    <3>1. RunSamples(role)[d] = FlatMap(f, recs)
      <4> HIDE DEF d, T
      <4> QED BY <2>1, <2>4 DEF RunSamples, RunPool
    <3>2. ASSUME NEW r \in RecordSet PROVE f[r] \in Seq(T)
      <4> DEFINE sample == [key |-> KeyOf(n, n3, r), micros |-> r.micros]
      <4>1. (f[r] = <<sample>> /\ r.actor.role = role) \/ f[r] = <<>>
        <5> HIDE DEF T, n, n3, recs, d
        <5> QED BY DEF SampleOf
      <4>2. /\ sample \in SampleSet /\ sample.key.role = r.actor.role
            /\ sample.key.n = n /\ sample.key.n3 = n3
        <5> HIDE DEF T, f, n, n3, recs, d
        <5>0. sample \in SampleSet
          BY <2>2, RecordFacts, Zenon
        <5>1. sample \in SampleSet /\ sample.key = KeyOf(n, n3, r)
          BY <5>0
        <5>2. KeyOf(n, n3, r).role = r.actor.role /\ KeyOf(n, n3, r).n = n
                /\ KeyOf(n, n3, r).n3 = n3
          BY DEF KeyOf
        <5> HIDE DEF sample
        <5> QED BY <5>1, <5>2
      <4> HIDE DEF sample, f
      <4>3. r.actor.role = role => sample \in T
        BY <2>4, <4>2
      <4> HIDE DEF T, d
      <4>4. /\ <<>> \in Seq(T)
            /\ sample \in T => <<sample>> \in Seq(T)
        OBVIOUS
      <4> QED BY <4>1, <4>3, <4>4
    <3> HIDE DEF f, recs, T
    <3>3. \A k \in 1 .. Len(recs) : recs[k] \in RecordSet
      BY <2>2, ElementOfSeq
    <3>4. FlatMap(f, recs) \in Seq(T)
      <4>1. \A k \in 1 .. Len(recs) : f[recs[k]] \in Seq(T)
        BY <3>2, <3>3
      <4> QED BY <2>2, <4>1, FlatMapWithin
    <3> QED BY <3>1, <3>4 DEF d
  <2> QED BY <2>3, <2>4
<1> HIDE DEF T, pool
<1>4. pool \in Seq(T)
  BY <1>1, <1>2, <1>3, FlatMapWithin
<1>5. DOMAIN pool = 1 .. Len(pool) /\ \A p \in DOMAIN pool : pool[p] \in T
  BY <1>4, LenProperties, ElementOfSeq
<1>6. \A p \in DOMAIN pool : pool[p].key \in Keys
  BY <1>5 DEF T, SampleSet
<1>7. \A p \in DOMAIN pool :
        /\ pool[p].key.role = role
        /\ \E i \in DOMAIN ds : ds[i].ok /\ ds[i].n = pool[p].key.n /\ ds[i].n3 = pool[p].key.n3
  BY <1>5 DEF T
<1>8. pool \in Seq(SampleSet)
  <2>1. T \subseteq SampleSet
    BY DEF T
  <2> QED BY <1>4, <2>1, SeqMonotonic
<1> QED BY <1>6, <1>7, <1>8 DEF pool

\* The scenarios of a suite are in the order of their sizes.
LEMMA SuiteSorted ==
  ASSUME NEW suite \in Suites, NEW s \in DOMAIN suite, NEW t \in DOMAIN suite, s < t
  PROVE  suite[s].n < suite[t].n \/ (suite[s].n = suite[t].n /\ suite[s].n3 < suite[t].n3)
<1>1. PICK args \in Args : ValidArgs(args) /\ suite = parse_args(args)
  BY DEF Suites
<1>2. CASE args = <<>>
  <2>1. suite = default_scenarios
    BY <1>1, <1>2 DEF parse_args
  <2>2. \A i, j \in DOMAIN default_scenarios : i < j =>
          \/ default_scenarios[i].n < default_scenarios[j].n
          \/ /\ default_scenarios[i].n = default_scenarios[j].n
             /\ default_scenarios[i].n3 < default_scenarios[j].n3
    BY DEF default_scenarios
  <2> HIDE DEF default_scenarios
  <2> QED BY <2>1, <2>2
<1>3. CASE args # <<>>
  <2> DEFINE only == [n |-> args[1], n3 |-> args[2],
                      repeats |-> IF Len(args) = 3 THEN args[3] ELSE 1]
  <2>1. suite = <<only>>
    BY <1>1, <1>3 DEF parse_args
  <2> HIDE DEF only
  <2>2. DOMAIN suite = {1}
    BY <2>1
  <2> QED BY <2>2
<1> QED BY <1>2, <1>3

\* A summarizer that holds the runs of ds has the rows of their summary.
LEMMA SummaryIs ==
  ASSUME NEW ds \in Seq(RunSet), scenarios \in Suites,
         summarizer \in Summarizers(Keys, RunCounts), Summarized(ds),
         \A role \in Roles : Pooled(role, Successful(ds)) = PoolsOf(ds)[role],
         \A i \in DOMAIN ds : \E s \in DOMAIN scenarios :
           ds[i].n = scenarios[s].n /\ ds[i].n3 = scenarios[s].n3
  PROVE  IsSummary(summaries(summarizer), Successful(ds))
<1> DEFINE runs == Successful(ds)
           pool == PoolsOf(ds)
           order == summarizer.order
           samples == summarizer.samples
           n == Len(order)
           table == summaries(summarizer)
<1>1. /\ n \in Nat /\ DOMAIN order = 1 .. n /\ \A i \in 1 .. n : order[i] \in Keys
  <2>1. order \in Seq(Keys)
    BY DEF Summarizers
  <2> HIDE DEF order
  <2> QED BY <2>1, LenProperties, ElementOfSeq
<1>2. PICK D \in SUBSET Keys : samples \in [D -> Seq(Nat)]
  BY DEF Summarizers
<1>3. Pools(summarizer, pool) /\ CountsRuns(summarizer.runs, runs)
  BY DEF Summarized
<1>4. \A role \in Roles : Pooled(role, runs) = pool[role]
  OBVIOUS
<1>5. \A k \in Keys : k.role \in Roles
  BY DEF Keys, Roles
<1>6. /\ \A i \in 1 .. n : order[i] \in DOMAIN samples
      /\ \A k \in DOMAIN samples : \E i \in 1 .. n : order[i] = k
      /\ \A i, j \in 1 .. n : i < j /\ order[i].role = order[j].role =>
           Sooner(pool[order[i].role], order[i], order[j])
      /\ \A k \in Keys : k \in DOMAIN samples
              <=> \E p \in DOMAIN pool[k.role] : pool[k.role][p].key = k
      /\ \A k \in DOMAIN samples : samples[k] = Values(pool[k.role], k)
  <2> HIDE DEF pool, runs, table, n
  <2>1. Pools(summarizer, pool)
    BY <1>3
  <2> QED BY <1>1, <2>1 DEF Pools
<1>7. ASSUME NEW role \in Roles
      PROVE  /\ pool[role] \in Seq(SampleSet)
             /\ \A p \in DOMAIN pool[role] :
                  /\ pool[role][p].key \in Keys /\ pool[role][p].key.role = role
                  /\ \E i \in DOMAIN ds :
                       /\ ds[i].ok /\ ds[i].n = pool[role][p].key.n
                       /\ ds[i].n3 = pool[role][p].key.n3
  BY PoolFrom
<1>8. PICK at \in [1 .. n -> 1 .. n] :
        /\ \A k \in 1 .. n : SortedKeys(order)[k] = order[at[k]]
        /\ \A j \in 1 .. n : \E k \in 1 .. n : at[k] = j
        /\ \A k, l \in 1 .. n : k < l =>
             \/ KeyLess(order[at[k]], order[at[l]])
             \/ at[k] < at[l] /\ ~KeyLess(order[at[l]], order[at[k]])
  <2> HIDE DEF order, n
  <2> QED BY <1>1, SortedFacts
<1>9. /\ DOMAIN table = 1 .. n
      /\ \A i \in 1 .. n : table[i] = Row(summarizer, order[at[i]])
              /\ table[i].key = order[at[i]]
  <2>1. DOMAIN SortedKeys(order) = 1 .. n
    <3> HIDE DEF order, n
    <3> QED BY <1>1 DEF SortedKeys
  <2>2. \A key : Row(summarizer, key).key = key
    BY DEF Row
  <2>3. table = [i \in DOMAIN SortedKeys(order) |-> Row(summarizer, SortedKeys(order)[i])]
    BY DEF summaries
  <2> HIDE DEF table, order, n
  <2> QED BY <1>8, <2>1, <2>2, <2>3
<1>10. \A k \in 1 .. n : at[k] \in 1 .. n /\ at[k] \in Nat /\ order[at[k]] \in Keys
  <2> HIDE DEF order, n
  <2> QED BY <1>1, <1>8
\* Every key has samples, of a run that was successful, in a scenario of the suite.
<1>11. ASSUME NEW k \in 1 .. n
       PROVE  /\ \E i \in DOMAIN ds : ds[i].ok /\ ds[i].n = order[k].n /\ ds[i].n3 = order[k].n3
              /\ \E s \in DOMAIN scenarios :
                   order[k].n = scenarios[s].n /\ order[k].n3 = scenarios[s].n3
  <2> DEFINE key == order[k]
  <2>1. key \in Keys /\ key.role \in Roles
    BY <1>1, <1>5
  <2>2. PICK p \in DOMAIN pool[key.role] : pool[key.role][p].key = key
    <3>1. order[k] \in DOMAIN samples
      BY <1>6
    <3> HIDE DEF order, n, pool, samples
    <3> QED BY <1>6, <2>1, <3>1
  <2> DEFINE role == key.role
  <2> HIDE DEF key, pool
  <2>3. role \in Roles /\ p \in DOMAIN pool[role] /\ pool[role][p].key = key
    BY <2>1, <2>2
  <2> HIDE DEF role
  <2>4. \E i \in DOMAIN ds :
          ds[i].ok /\ ds[i].n = pool[role][p].key.n /\ ds[i].n3 = pool[role][p].key.n3
    BY <1>7, <2>3, Zenon
  <2>5. PICK i \in DOMAIN ds : ds[i].ok /\ ds[i].n = key.n /\ ds[i].n3 = key.n3
    BY <2>3, <2>4, Zenon
  <2>6. \E s \in DOMAIN scenarios : ds[i].n = scenarios[s].n /\ ds[i].n3 = scenarios[s].n3
    OBVIOUS
  <2>7. /\ \E j \in DOMAIN ds : ds[j].ok /\ ds[j].n = key.n /\ ds[j].n3 = key.n3
        /\ \E s \in DOMAIN scenarios : key.n = scenarios[s].n /\ key.n3 = scenarios[s].n3
    BY <2>5, <2>6, Zenon
  <2> QED BY <2>7 DEF key
<1>12. ASSUME NEW i \in 1 .. n, NEW j \in 1 .. n, i < j
       PROVE  RowBefore(order[at[i]], order[at[j]], runs)
  <2> DEFINE k == order[at[i]]
             l == order[at[j]]
  <2>1. k \in Keys /\ l \in Keys /\ at[i] \in 1 .. n /\ at[j] \in 1 .. n
    BY <1>10
  <2>2. PICK s \in DOMAIN scenarios : k.n = scenarios[s].n /\ k.n3 = scenarios[s].n3
    BY <1>11, <2>1
  <2>3. PICK t \in DOMAIN scenarios : l.n = scenarios[t].n /\ l.n3 = scenarios[t].n3
    BY <1>11, <2>1
  <2>4. KeyLess(k, l) \/ (at[i] < at[j] /\ ~KeyLess(l, k))
    BY <1>8, <1>12
  <2>5. k.role = l.role /\ at[i] < at[j] => Sooner(pool[k.role], k, l)
    <3> HIDE DEF order, pool, n
    <3> QED BY <1>6, <2>1 DEF k, l
  <2>6. k.role \in Roles /\ Pooled(k.role, runs) = pool[k.role]
    <3> HIDE DEF k, pool, runs
    <3> QED BY <1>4, <1>5, <2>1
  <2>7. s \in Nat /\ t \in Nat
    BY SuiteFacts, LenProperties
  <2> HIDE DEF k, l, pool, runs, order, n
  <2>8. \/ s < t
        \/ s = t /\ RoleRank[k.role] < RoleRank[l.role]
        \/ s = t /\ k.role = l.role /\ Sooner(Pooled(k.role, runs), k, l)
    <3>1. CASE KeyLess(k, l)
      <4>1. /\ k.n \in Nat /\ k.n3 \in Nat /\ l.n \in Nat /\ l.n3 \in Nat
        BY <2>1 DEF Keys
      <4>2. t < s => \/ l.n < k.n
                     \/ l.n = k.n /\ l.n3 < k.n3
        BY <2>2, <2>3, SuiteSorted
      <4>3. ~(t < s)
        BY <3>1, <4>1, <4>2 DEF KeyLess
      <4>4. s = t => RoleRank[k.role] < RoleRank[l.role]
        BY <2>2, <2>3, <3>1, <4>1 DEF KeyLess
      <4> QED BY <2>7, <4>3, <4>4
    <3>2. CASE ~KeyLess(k, l)
      <4>1. k.n = l.n /\ k.n3 = l.n3 /\ k.role = l.role /\ at[i] < at[j]
        BY <2>1, <2>4, <3>2, KeyLessFacts
      <4>2. s = t
        BY <2>2, <2>3, <4>1, SuiteFacts
      <4> QED BY <2>5, <2>6, <4>1, <4>2
    <3> QED BY <3>1, <3>2
  <2>9. RowBefore(k, l, runs)
    BY <2>2, <2>3, <2>8 DEF RowBefore
  <2> QED BY <2>9 DEF k, l
<1>13. \A i, j \in DOMAIN table : i < j => RowBefore(table[i].key, table[j].key, runs)
  <2> HIDE DEF table, order, runs, n
  <2> QED BY <1>9, <1>12
\* The keys are those of the samples.
<1>14. {table[i].key : i \in DOMAIN table} =
         UNION {{sample.key : sample \in ToSet(Pooled(role, runs))} : role \in DOMAIN RoleRank}
  <2> HIDE DEF table, order, runs, n, pool, samples
  <2>1. ASSUME NEW i \in DOMAIN table
        PROVE  \E role \in Roles : \E sample \in ToSet(Pooled(role, runs)) :
                 sample.key = table[i].key
    <3> DEFINE key == order[at[i]]
    <3>1. at[i] \in 1 .. n /\ table[i].key = key /\ key \in Keys
      BY <1>9, <1>10
    <3>2. key \in DOMAIN samples
      BY <1>6, <3>1
    <3> HIDE DEF key
    <3>3. key.role \in Roles /\ Pooled(key.role, runs) = pool[key.role]
      BY <1>4, <1>5, <3>1
    <3>4. PICK p \in DOMAIN pool[key.role] : pool[key.role][p].key = key
      BY <1>6, <3>1, <3>2
    <3>5. pool[key.role][p] \in ToSet(pool[key.role])
      BY DEF ToSet
    <3> QED BY <3>1, <3>3, <3>4, <3>5
  <2>2. ASSUME NEW role \in Roles, NEW sample \in ToSet(Pooled(role, runs))
        PROVE  \E i \in DOMAIN table : table[i].key = sample.key
    <3>1. PICK p \in DOMAIN pool[role] : pool[role][p] = sample
      BY <1>4, <2>2 DEF ToSet
    <3> DEFINE key == sample.key
    <3>2. key \in Keys /\ key.role = role
      BY <1>7, <3>1
    <3>3. key \in DOMAIN samples
      BY <1>6, <3>1, <3>2
    <3> HIDE DEF key
    <3>4. PICK j \in 1 .. n : order[j] = key
      BY <1>6, <3>3
    <3>5. PICK k \in 1 .. n : at[k] = j
      BY <1>8
    <3>6. table[k].key = key /\ k \in DOMAIN table
      BY <1>9, <3>4, <3>5
    <3> QED BY <3>6 DEF key
  <2> QED BY <2>1, <2>2 DEF Roles
\* Each row is the reference row.
<1>15. ASSUME NEW i \in 1 .. n
       PROVE  Row(summarizer, order[at[i]]) = ReferenceRow(order[at[i]], runs)
  <2> DEFINE key == order[at[i]]
             values == samples[key]
             count == Len(values)
  <2>1. key \in Keys /\ at[i] \in 1 .. n
    BY <1>10
  <2>2. key \in DOMAIN samples
    BY <1>6, <2>1
  <2>3. /\ values \in Seq(Nat)
    <3> HIDE DEF key, samples
    <3> QED BY <1>2, <2>2
  <2>4. values = Values(Pooled(key.role, runs), key)
    <3> HIDE DEF key, samples, pool, runs, order, n
    <3>1. samples[key] = Values(pool[key.role], key)
      BY <1>6, <2>2
    <3> QED BY <1>4, <1>5, <2>1, <3>1
  <2>5. count \in Nat /\ DOMAIN values = 1 .. count /\ values \in [1 .. count -> Int]
    <3> HIDE DEF values
    <3>1. count \in Nat /\ DOMAIN values = 1 .. count /\ \A j \in 1 .. count : values[j] \in Nat
      BY <2>3, LenProperties, ElementOfSeq
    <3>2. \A j \in 1 .. count : values[j] \in Int
      BY <3>1
    <3>3. values = [j \in 1 .. count |-> values[j]]
      BY <2>3, <3>1
    <3> HIDE DEF count
    <3> QED BY <3>1, <3>2, <3>3
  <2> DEFINE deviations == [j \in DOMAIN values |->
               (count * values[j] - Total(values)) * (count * values[j] - Total(values))]
             gaps == [j \in DOMAIN values |-> Total([h \in 1 .. j - 1 |->
                        (values[j] - values[h]) * (values[j] - values[h])])]
  <2>6. Total(deviations) = count * Total(gaps)
    <3> DEFINE v == values
               c == count
    <3>1. c \in Nat /\ v \in [1 .. c -> Int] /\ DOMAIN v = 1 .. c
      BY <2>5
    <3> HIDE DEF v, c
    <3>2. Total([j \in 1 .. c |-> (c * v[j] - Total(v)) * (c * v[j] - Total(v))])
            = c * Total([j \in 1 .. c |-> Total([h \in 1 .. j - 1 |->
                           (v[j] - v[h]) * (v[j] - v[h])])])
      BY <3>1, Variance
    <3>3. Total([j \in DOMAIN v |-> (c * v[j] - Total(v)) * (c * v[j] - Total(v))])
            = c * Total([j \in DOMAIN v |-> Total([h \in 1 .. j - 1 |->
                           (v[j] - v[h]) * (v[j] - v[h])])])
      BY <3>1, <3>2
    <3> QED BY <3>3 DEF v, c
  <2>7. summarizer.runs[<<key.n, key.n3>>] = Cardinality({r \in runs : r[1] = key.n
          /\ r[2] = key.n3})
    <3>1. PICK j \in DOMAIN ds : ds[j].ok /\ ds[j].n = key.n /\ ds[j].n3 = key.n3
      BY <1>11, <2>1
    <3> DEFINE k == <<key.n, key.n3>>
               tr == <<ds[j].n, ds[j].n3, ds[j].run>>
    <3> HIDE DEF key
    <3>2. tr \in runs /\ <<tr[1], tr[2]>> = k
      BY <3>1 DEF Successful
    <3> HIDE DEF runs, tr
    <3>3. k \in DOMAIN summarizer.runs
      <4> HIDE DEF k
      <4> QED BY <1>3, <3>2 DEF CountsRuns
    <3>4. summarizer.runs[k] = Cardinality({r \in runs : r[1] = k[1] /\ r[2] = k[2]})
      <4> HIDE DEF k
      <4> QED BY <1>3, <3>3 DEF CountsRuns
    <3>5. k[1] = key.n /\ k[2] = key.n3
      OBVIOUS
    <3> QED BY <3>4, <3>5
  <2>8. Row(summarizer, key) =
          [key |-> key, runs |-> summarizer.runs[<<key.n, key.n3>>],
           samples |-> count, total |-> Total(values), squares |-> Total(deviations),
           min |-> Min(ToSet(values)), max |-> Max(ToSet(values))]
    <3> HIDE DEF key
    <3> QED BY DEF Row
  <2> DEFINE reference == Values(Pooled(key.role, runs), key)
             refGaps == [j \in DOMAIN reference |-> Total([h \in 1 .. j - 1 |->
                           (reference[j] - reference[h]) * (reference[j] - reference[h])])]
  <2>9. ReferenceRow(key, runs) =
          [key |-> key, runs |-> Cardinality({r \in runs : r[1] = key.n /\ r[2] = key.n3}),
           samples |-> Len(reference), total |-> Total(reference),
           squares |-> Len(reference) * Total(refGaps),
           min |-> Min(ToSet(reference)), max |-> Max(ToSet(reference))]
    <3> HIDE DEF key, runs
    <3> QED BY DEF ReferenceRow
  <2>10. reference = values
    BY <2>4
  <2>11. refGaps = gaps
    <3> HIDE DEF reference, values
    <3> QED BY <2>10
  <2> HIDE DEF reference, values, gaps, refGaps, deviations, key, runs, pool, samples, order, n
  <2>12. Row(summarizer, key) = ReferenceRow(key, runs)
    BY <2>6, <2>7, <2>8, <2>9, <2>10, <2>11 DEF count
  <2> QED BY <2>12 DEF key
<1>16. \A i \in DOMAIN table : table[i] = ReferenceRow(table[i].key, runs)
  <2> HIDE DEF table, order, runs, n
  <2> QED BY <1>9, <1>15
<1> QED BY <1>13, <1>14, <1>16 DEF IsSummary

LEMMA KeptIsMap ==
  ASSUME NEW role, done \in Seq(RunSet)
  PROVE  Kept(role) = FlatMap(RowsOf(role), done)
<1>1. \A i \in DOMAIN done : done[i] \in RunSet
  BY LenProperties, ElementOfSeq
<1>2. [i \in DOMAIN done |-> Records(role, done[i])]
        = [i \in DOMAIN done |-> RowsOf(role)[done[i]]]
  BY <1>1 DEF RowsOf
<1> QED BY <1>2 DEF Kept, FlatMap

\* The files pool what the completed runs left.
LEMMA AllPooled ==
  ASSUME IInv, SInv, Created
  PROVE  \A role \in Roles : Pooled(role, Successful(done)) = PoolsOf(done)[role]
<1> SUFFICES ASSUME NEW role \in Roles
             PROVE  Pooled(role, Successful(done)) = FlatMap(RunSamples(role), done)
  BY DEF PoolsOf
<1>1. done \in Seq(RunSet)
  BY DEF IInv, Collected
<1>2. PICK rest \in Seq(RowSet) : raw[role] = Kept(role) \o rest /\ Foreign(rest, done)
  BY DEF SInv, FilesInv
<1>3. raw[role] = FlatMap(RowsOf(role), done) \o rest
  BY <1>1, <1>2, KeptIsMap
<1>4. \A i, j \in DOMAIN done : TripleOf(done[i]) = TripleOf(done[j]) => i = j
  BY DEF SInv, DoneInv
<1>5. \A i \in 1 .. Len(rest), j \in DOMAIN done :
        <<rest[i].n, rest[i].n3, rest[i].run>> # TripleOf(done[j])
  BY <1>2 DEF Foreign
<1> QED BY <1>1, <1>3, <1>4, <1>5, PooledFrom

\* The same of the runs but for the last: its rows are among those that do not count.
LEMMA EarlierPooled ==
  ASSUME IInv, SInv, Created, done # <<>>
  PROVE  /\ \A role \in Roles : Pooled(role, Successful(EarlierRuns))
          = PoolsOf(EarlierRuns)[role]
         /\ EarlierRuns \in Seq(RunSet)
         /\ \A i \in DOMAIN EarlierRuns : i \in DOMAIN done /\ EarlierRuns[i] = done[i]
<1> DEFINE es == EarlierRuns
           d == LastRun
<1>1. done \in Seq(RunSet)
  BY DEF IInv, Collected
<1>2. done = Append(es, d) /\ es \in Seq(RunSet) /\ d \in RunSet
  BY <1>1, DoneSplit
<1> HIDE DEF es, d
<1>3. /\ Len(es) \in Nat /\ DOMAIN es = 1 .. Len(es) /\ DOMAIN done = 1 .. Len(es) + 1
      /\ \A i \in 1 .. Len(es) : done[i] = es[i]
      /\ done[Len(es) + 1] = d
  BY <1>2, AppendProperties, LenProperties
<1>4. /\ \A i \in 1 .. Len(es) : i \in 1 .. Len(es) + 1 /\ i # Len(es) + 1
      /\ Len(es) + 1 \in 1 .. Len(es) + 1
  BY <1>3
<1>5. /\ \A i \in DOMAIN es : i \in DOMAIN done /\ es[i] = done[i] /\ i # Len(es) + 1
      /\ Len(es) + 1 \in DOMAIN done
  BY <1>3, <1>4
<1>6. \A i, j \in DOMAIN done : TripleOf(done[i]) = TripleOf(done[j]) => i = j
  BY DEF SInv, DoneInv
<1>7. /\ \A i, j \in DOMAIN es : TripleOf(es[i]) = TripleOf(es[j]) => i = j
      /\ \A j \in DOMAIN es : TripleOf(d) # TripleOf(es[j])
  BY <1>3, <1>5, <1>6
<1>8. ASSUME NEW role \in Roles
      PROVE  Pooled(role, Successful(es)) = FlatMap(RunSamples(role), es)
  <2>1. PICK rest \in Seq(RowSet) : raw[role] = Kept(role) \o rest /\ Foreign(rest, done)
    BY DEF SInv, FilesInv
  <2> DEFINE own == Records(role, d)
             kept == FlatMap(RowsOf(role), es)
             more == own \o rest
  <2>2. own \in Seq(RowSet) /\ kept \in Seq(RowSet)
    <3>1. RowsOf(role) \in [RunSet -> Seq(RowSet)] /\ RowsOf(role)[d] = own
      BY <1>2, RowsOfTyped DEF RowsOf
    <3>2. kept \in Seq(RowSet)
      BY <1>2, <3>1, FlatMapTyped
    <3>3. own \in Seq(RowSet)
      BY <1>2, <3>1
    <3> QED BY <3>2, <3>3
  <2>3. Kept(role) = kept \o own
    <3>1. RowsOf(role) \in [RunSet -> Seq(RowSet)] /\ RowsOf(role)[d] = own
      BY <1>2, RowsOfTyped DEF RowsOf
    <3>2. FlatMap(RowsOf(role), Append(es, d)) = kept \o RowsOf(role)[d]
      BY <1>2, <3>1, FlatMapAppend
    <3> QED BY <1>1, <1>2, <3>1, <3>2, KeptIsMap
  <2>4. \A i \in 1 .. Len(own) : <<own[i].n, own[i].n3, own[i].run>> = TripleOf(d)
    BY <1>2, RowsOwn
  <2>5. \A i \in 1 .. Len(rest), j \in DOMAIN es :
          <<rest[i].n, rest[i].n3, rest[i].run>> # TripleOf(es[j])
    BY <1>5, <2>1 DEF Foreign
  <2> HIDE DEF own, kept
  <2>6. raw[role] = kept \o more
    BY <2>1, <2>2, <2>3, ConcatAssociative
  <2>7. /\ more \in Seq(RowSet)
        /\ \A i \in 1 .. Len(more) :
             \/ i \in 1 .. Len(own) /\ more[i] = own[i]
             \/ i - Len(own) \in 1 .. Len(rest) /\ more[i] = rest[i - Len(own)]
    <3>1. /\ Len(own) \in Nat /\ Len(rest) \in Nat
          /\ more \in Seq(RowSet) /\ Len(more) = Len(own) + Len(rest)
          /\ \A i \in 1 .. Len(own) + Len(rest) :
               more[i] = IF i <= Len(own) THEN own[i] ELSE rest[i - Len(own)]
      BY <2>2, ConcatProperties, LenProperties
    <3> HIDE DEF more
    <3> QED BY <3>1
  <2> HIDE DEF more
  <2>8. \A i \in 1 .. Len(more), j \in DOMAIN es :
          <<more[i].n, more[i].n3, more[i].run>> # TripleOf(es[j])
    BY <1>7, <2>4, <2>5, <2>7
  <2> QED BY <1>2, <1>7, <2>6, <2>7, <2>8, PooledFrom DEF kept
<1>9. \A role \in Roles : PoolsOf(es)[role] = FlatMap(RunSamples(role), es)
  BY DEF PoolsOf
<1> QED BY <1>2, <1>5, <1>8, <1>9 DEF es

-----------------------------------------------------------------------------
(* Theorems *)

\* Type correctness: the loop stays within the suite that was asked for.
THEOREM TypeCorrect == Spec => []TypeOK
<1>1. IInv => TypeOK
  <2> SUFFICES ASSUME IInv PROVE TypeOK
    OBVIOUS
  <2>1. \A i \in DOMAIN scenarios : scenarios[i] \in Scenarios
    <3>1. CASE scenarios = <<>>
      BY <3>1
    <3>2. CASE scenarios \in Suites
      BY <3>2, SuiteFacts, ElementOfSeq
    <3> QED BY <3>1, <3>2 DEF IInv, Position
  <2> QED BY <2>1 DEF IInv, Position, Collected, RawInv, TypeOK
<1> QED BY <1>1, IInvTheorem, PTL

\* Whenever the series stops, and while it goes on, every raw file holds the rows
\* of the completed runs in order, failed runs included, and behind them at most
\* the first rows of the run that write_raw is at (write_raw, src/bin/benchmark.rs).
THEOREM RawKeepsCompletedRunsTheorem == Spec => []RawKeepsCompletedRuns
<1>1. IInv => RawKeepsCompletedRuns
  <2> SUFFICES ASSUME IInv, Created, NEW role \in DOMAIN RoleRank
               PROVE  LET rest == SubSeq(raw[role], Len(Kept(role)) + 1, Len(raw[role]))
                      IN  /\ IsPrefix(Kept(role), raw[role])
                          /\ rest # <<>> => IsPrefix(rest, Records(role,
                               [n |-> Current.n, n3 |-> Current.n3, run |-> run,
                                records |-> records]))
    BY DEF RawKeepsCompletedRuns
  <2> DEFINE d == [n |-> Current.n, n3 |-> Current.n3, run |-> run, records |-> records]
  <2>1. Position /\ Collected /\ Kept(role) \in Seq(RowSet)
    BY KeptTyped DEF IInv, Collected
  <2>2. \/ raw[role] = Kept(role)
        \/ index \in DOMAIN scenarios /\ raw[role] = Kept(role) \o Writing(role, written)
    <3>1. scenarios # <<>> /\ pc \notin Creating \cup {"args"} /\ summary # OldRows
      BY DEF Created
    <3>2. CASE pc \in {"build", "panicked"} \/ (Looping /\ pc # "write_raw")
      BY <3>2 DEF IInv, RawInv
    <3>3. CASE pc = "write_raw"
      BY <3>3 DEF IInv, RawInv, Position
    <3>4. CASE pc = "interrupted"
      BY <3>1, <3>4 DEF IInv, RawInv
    <3>5. CASE pc = "exited" /\ exit = 2
      BY <2>1, <3>1, <3>5 DEF IInv, Position, RawInv
    <3> QED BY <2>1, <3>1, <3>2, <3>3, <3>4, <3>5 DEF Position, Looping
  <2>3. CASE raw[role] = Kept(role)
    <3>1. Kept(role) \o <<>> = Kept(role) /\ <<>> \in Seq(RowSet)
      BY <2>1, ConcatEmptySeq
    <3>2. Begins(Kept(role), Kept(role))
          /\ SubSeq(Kept(role), Len(Kept(role)) + 1, Len(Kept(role))) = <<>>
      BY <2>1, <3>1, ConcatParts
    <3> QED BY <2>1, <2>3, <3>2, BeginsIsPrefix
  <2>4. CASE index \in DOMAIN scenarios /\ raw[role] = Kept(role) \o Writing(role, written)
    <3> DEFINE found == [i \in DOMAIN records |->
                  IF records[i].actor.role = role
                    THEN <<RawRow(Current.n, Current.n3, run, records[i])>> ELSE <<>>]
               first == SubSeq(found, 1, written)
               part == SubSeq(records, 1, written)
    <3>1. /\ records \in Seq(RecordSet) /\ Len(records) \in Nat
          /\ DOMAIN records = 1 .. Len(records) /\ written \in 0 .. Len(records)
          /\ Current.n \in Nat /\ Current.n3 \in Nat /\ run \in Nat
      BY <2>1, <2>4, CurrentFacts, LenProperties DEF Collected
    <3>2. part \in Seq(RecordSet) /\ Len(part) = written
          /\ \A i \in 1 .. written : part[i] = records[i]
      BY <3>1, FirstElements
    <3>3. Writing(role, written) \in Seq(RowSet)
      BY <3>1, <3>2, RowsTyped DEF Writing
    <3>4. /\ Begins(Kept(role), raw[role]) /\ raw[role] \in Seq(RowSet)
          /\ SubSeq(raw[role], Len(Kept(role)) + 1, Len(raw[role])) = Writing(role, written)
      BY <2>1, <2>4, <3>3, ConcatParts, ConcatProperties
    <3>5. found \in Seq(Seq(RowSet)) /\ Len(found) = Len(records)
            /\ Records(role, d) = FlattenSeq(found)
      <4>1. ASSUME NEW i \in DOMAIN records PROVE found[i] \in Seq(RowSet)
        <5> DEFINE row == RawRow(Current.n, Current.n3, run, records[i])
        <5>1. found[i] = <<row>> \/ found[i] = <<>>
          OBVIOUS
        <5>2. records[i] \in RecordSet
          BY <3>1, ElementOfSeq
        <5>3. row \in RowSet
          <6>1. <<Current.n, Current.n3, run, records[i]>> \in Nat \X Nat \X Nat \X RecordSet
            BY <3>1, <5>2
          <6> QED BY <6>1 DEF RowSet
        <5> HIDE DEF found, row
        <5>4. <<row>> \in Seq(RowSet) /\ <<>> \in Seq(RowSet)
          BY <5>3
        <5> QED BY <5>1, <5>4
      <4>2. found = [i \in 1 .. Len(records) |-> found[i]]
        BY <3>1
      <4>3. Records(role, d) = FlattenSeq(found)
        BY DEF Records
      <4> HIDE DEF found, d
      <4>4. found \in [1 .. Len(records) -> Seq(RowSet)]
        BY <3>1, <4>1, <4>2
      <4> QED BY <3>1, <4>3, <4>4
    <3>6. Writing(role, written) = FlattenSeq(first)
      <4> DEFINE shown == [i \in DOMAIN part |->
                    IF part[i].actor.role = role
                      THEN <<RawRow(Current.n, Current.n3, run, part[i])>> ELSE <<>>]
      <4>1. Writing(role, written) = FlattenSeq(shown)
        BY DEF Writing, Records
      <4>2. DOMAIN part = 1 .. written /\ written \in Nat
            /\ \A i \in 1 .. written : i \in DOMAIN records
        BY <3>1, <3>2
      <4>3. \A i \in 1 .. written : shown[i] = found[i]
        BY <3>2, <4>2
      <4>4. shown = [i \in 1 .. written |-> shown[i]]
        BY <4>2
      <4> HIDE DEF found, part, shown
      <4>5. /\ first \in Seq(Seq(RowSet)) /\ Len(first) = written
            /\ \A i \in 1 .. written : first[i] = found[i]
        BY <3>1, <3>5, FirstElements
      <4>6. first = [i \in 1 .. written |-> first[i]]
        BY <4>5
      <4>7. first = shown
        <5> HIDE DEF first
        <5> QED BY <4>3, <4>4, <4>5, <4>6
      <4> QED BY <4>1, <4>7
    <3>7. Begins(Writing(role, written), Records(role, d))
      <4> HIDE DEF found, d
      <4> QED BY <3>1, <3>5, <3>6, FlattenBegins
    <3>8. Records(role, d) \in Seq(RowSet)
      <4> HIDE DEF found, d
      <4> QED BY <3>5, FlattenTyped
    <3>9. IsPrefix(Kept(role), raw[role]) /\ IsPrefix(Writing(role, written), Records(role, d))
      <4> HIDE DEF d
      <4> QED BY <2>1, <3>3, <3>4, <3>7, <3>8, BeginsIsPrefix
    <3> QED BY <3>4, <3>9
  <2> QED BY <2>2, <2>3, <2>4
<1> QED BY <1>1, IInvTheorem, PTL

\* The exit code (the end of main, src/bin/benchmark.rs) is 0 or 1 only when every
\* run asked for was made, once and in order; it is 0 exactly if they all
\* succeeded, and then the summary counts all the runs of each scenario.
THEOREM ExitTellsFailuresTheorem == Spec => []ExitTellsFailures
<1>1. IInv => ExitTellsFailures
  <2> SUFFICES ASSUME IInv, exit \in {0, 1}
               PROVE  LET asked == FlattenSeq([s \in DOMAIN scenarios |->
                            [r \in 1 .. scenarios[s].repeats |->
                               <<scenarios[s].n, scenarios[s].n3, r>>]])
                      IN  /\ [i \in DOMAIN done |-> <<done[i].n, done[i].n3,
                              done[i].run>>] = asked
                          /\ exit = 0 <=> \A i \in DOMAIN done : done[i].ok
                          /\ exit = 0 => \A i \in DOMAIN summary : \A s \in DOMAIN scenarios :
                               summary[i].key.n = scenarios[s].n
                                 /\ summary[i].key.n3 = scenarios[s].n3
                                 => summary[i].runs = scenarios[s].repeats
    BY DEF ExitTellsFailures
  <2>1. /\ pc = "exited" /\ index = Len(scenarios) + 1 /\ scenarios \in Suites /\ Looping
        /\ run = 1
    <3>1. pc = "exited" /\ index = Len(scenarios) + 1 /\ scenarios \in Suites
      BY DEF IInv, Position
    <3>2. index \notin DOMAIN scenarios
      BY <3>1, SuiteFacts
    <3> QED BY <3>1, <3>2 DEF IInv, Position, Looping
  <2>2. Len(scenarios) \in Nat /\ DOMAIN scenarios = 1 .. Len(scenarios)
    BY <2>1, SuiteFacts
  <2>3. Made(done) = FlattenSeq([s \in DOMAIN scenarios |->
                       [r \in 1 .. scenarios[s].repeats |-> <<scenarios[s].n,
                               scenarios[s].n3, r>>]])
    <3>1. MadeHere = 0
      BY <2>1 DEF MadeHere
    <3>2. RunsOf(index, 0) = <<>>
      BY DEF RunsOf
    <3>3. AskedBefore(index) \in Seq(Triple)
      BY <2>1, <2>2, AskedTyped
    <3>4. Made(done) = AskedBefore(index) \o RunsOf(index, MadeHere)
      BY <2>1 DEF IInv, Progress
    <3>5. Made(done) = AskedBefore(index)
      BY <3>1, <3>2, <3>3, <3>4, ConcatEmptySeq
    <3>6. 1 .. index - 1 = DOMAIN scenarios
      BY <2>1, <2>2
    <3> QED BY <3>5, <3>6 DEF AskedBefore, RunsOf
  <2>4. exit = 0 <=> \A i \in DOMAIN done : done[i].ok
    BY DEF IInv, Position, Collected
  <2>5. ASSUME exit = 0, NEW i \in DOMAIN summary, NEW s \in DOMAIN scenarios,
               summary[i].key.n = scenarios[s].n, summary[i].key.n3 = scenarios[s].n3
        PROVE  summary[i].runs = scenarios[s].repeats
    <3> DEFINE scenario == <<scenarios[s].n, scenarios[s].n3>>
    <3>1. summary = summaries(summarizer) /\ summarizer \in Summarizers(Keys, RunCounts)
      BY <2>1 DEF IInv, SummaryInv, Collected
    <3>2. summary[i].runs = summarizer.runs[scenario]
      BY <2>5, <3>1, SummariesFacts
    <3>3. CountOf(s) = scenarios[s].repeats /\ scenarios[s].repeats # 0
      <4>1. s < index
        BY <2>1, <2>2
      <4>2. scenarios[s].repeats >= 1
        BY <2>1, SuiteFacts
      <4> QED BY <4>1, <4>2 DEF CountOf
    <3>4. failures = 0
      BY <2>5 DEF IInv, Position
    <3>5. /\ scenario \in DOMAIN summarizer.runs => summarizer.runs[scenario] = CountOf(s)
          /\ scenario \notin DOMAIN summarizer.runs => CountOf(s) = 0
      BY <2>1, <3>4 DEF IInv, Counting
    <3> QED BY <3>2, <3>3, <3>5
  <2> QED BY <2>3, <2>4, <2>5 DEF Made
<1> QED BY <1>1, IInvTheorem, PTL

\* The summary file (Summarizer, src/bench_stats.rs; write_summary,
\* src/bin/benchmark.rs) says what the raw files say: whenever write_summary is
\* not writing it, be it that the series goes on, has ended or was interrupted,
\* its rows are, in the order of the suite, the roles and the first appearance,
\* one for each key of the successful runs, with the statistics of the values
\* that the raw files hold for it; of all these runs, or of all but the one
\* that is being added.
THEOREM SummaryFromRawTheorem == Spec => []SummaryFromRaw
<1>1. IInv /\ SInv => SummaryFromRaw
  <2> SUFFICES ASSUME IInv, SInv, Created
               PROVE  /\ rows # <<>> => pc \in {"write_summary", "interrupted"}
                      /\ rows = <<>> =>
                           \/ pc # "add_run" /\ IsSummary(summary, Successful(done))
                           \/ /\ pc \in {"add_run", "interrupted"}
                              /\ IsSummary(summary, Successful(EarlierRuns))
    BY DEF SummaryFromRaw, EarlierRuns
  <2>1. scenarios \in Suites
    BY DEF IInv, Position, Created
  <2>2. done \in Seq(RunSet) /\ summarizer \in Summarizers(Keys, RunCounts)
    BY DEF IInv, Collected
  <2>3. rows # <<>> => pc \in {"write_summary", "interrupted"}
    BY DEF SInv, RowsInv
  <2>4. /\ summary \o rows = summaries(summarizer)
        /\ rows = <<>> => summary = summaries(summarizer)
    BY DEF SInv, FilesInv
  <2>5. \A i \in DOMAIN done : \E s \in DOMAIN scenarios :
          done[i].n = scenarios[s].n /\ done[i].n3 = scenarios[s].n3
    BY DEF SInv, DoneInv
  <2>6. CASE pc # "add_run" /\ Summarized(done)
    <3>1. \A role \in Roles : Pooled(role, Successful(done)) = PoolsOf(done)[role]
      BY AllPooled
    <3>2. IsSummary(summaries(summarizer), Successful(done))
      BY <2>1, <2>2, <2>5, <2>6, <3>1, SummaryIs
    <3> QED BY <2>3, <2>4, <2>6, <3>2
  <2>7. CASE /\ pc \in {"add_run", "interrupted"} /\ rows = <<>>
             /\ done # <<>> /\ Summarized(EarlierRuns)
    <3> DEFINE es == EarlierRuns
    <3>1. /\ \A role \in Roles : Pooled(role, Successful(es)) = PoolsOf(es)[role]
          /\ es \in Seq(RunSet)
          /\ \A i \in DOMAIN es : i \in DOMAIN done /\ es[i] = done[i]
      BY <2>7, EarlierPooled
    <3>2. \A i \in DOMAIN es : \E s \in DOMAIN scenarios :
            es[i].n = scenarios[s].n /\ es[i].n3 = scenarios[s].n3
      BY <2>5, <3>1
    <3>3. Summarized(es)
      BY <2>7
    <3> HIDE DEF es
    <3>4. IsSummary(summaries(summarizer), Successful(es))
      BY <2>1, <2>2, <3>1, <3>2, <3>3, SummaryIs
    <3>5. IsSummary(summary, Successful(EarlierRuns))
      BY <2>4, <2>7, <3>4 DEF es
    <3> QED BY <2>3, <2>7, <3>5
  <2> QED BY <2>6, <2>7 DEF SInv, SummarizerInv
<1> QED BY <1>1, IInvTheorem, SInvTheorem, PTL

=============================================================================
