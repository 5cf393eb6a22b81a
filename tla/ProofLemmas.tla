----------------------------- MODULE ProofLemmas -----------------------------
(***************************************************************************)
(* What the proofs of several modules need of numbers, functions and       *)
(* sequences.                                                              *)
(*                                                                         *)
(* Induction and recursion: what the library states with an operator       *)
(* parameter (a predicate, or the body of a recursive function) is stated  *)
(* here with sets: the elements for which a claim holds, and the body as a *)
(* function of the element and of the function it calls.  rank[x] <        *)
(* rank[y] says that x comes before y.                                     *)
(***************************************************************************)
EXTENDS Texts, SequenceTheorems, FiniteSetTheorems, TLAPS

-------------------------------------------------------------------------------
(* Induction and recursion *)

\* A set of natural numbers has a least one.
LEMMA NatMin ==
  ASSUME NEW T \in SUBSET Nat, T # {}
  PROVE \E n \in T : \A m \in T : n <= m
<1> DEFINE R == StrictSubsetOrdering(Nat)
           S == FiniteSubsetsOf(Nat)
           U == {0 .. n : n \in T}
<1>1. IsWellFoundedOn(R, S)
  BY FS_StrictSubsetOrderingWellFounded
<1>2. U \subseteq S
  <2>1. ASSUME NEW n \in T PROVE 0 .. n \in S
    <3>1. IsFiniteSet(0 .. n)
      BY FS_Interval
    <3> QED BY <3>1 DEF FiniteSubsetsOf
  <2> QED BY <2>1
<1>3. U # {}
  OBVIOUS
<1>4. PICK x \in U : \A y \in U : ~ (<<y, x>> \in R)
  <2> HIDE DEF R, S, U
  <2> QED BY <1>1, <1>2, <1>3, WFMin
<1>5. PICK n \in T : x = 0 .. n
  OBVIOUS
<1>6. ASSUME NEW m \in T, m < n PROVE FALSE
  <2>1. 0 .. m \in U
    OBVIOUS
  <2>2. 0 .. m \in SUBSET Nat /\ 0 .. n \in SUBSET Nat
    OBVIOUS
  <2>3. 0 .. m \subseteq 0 .. n /\ 0 .. m # 0 .. n
    <3>1. n \in 0 .. n /\ n \notin 0 .. m
      BY <1>6
    <3>2. 0 .. m \subseteq 0 .. n
      BY <1>6
    <3> QED BY <3>1, <3>2
  <2>4. <<0 .. m, 0 .. n>> \in R
    BY <2>2, <2>3 DEF StrictSubsetOrdering
  <2> HIDE DEF R, U
  <2> QED BY <2>1, <2>4, <1>4, <1>5
<1> QED BY <1>6

\* A bounded one that is not empty has a greatest.
LEMMA NatMax ==
  ASSUME NEW T \in SUBSET Nat, T # {}, NEW N \in Nat, \A n \in T : n <= N
  PROVE \E n \in T : \A m \in T : m <= n
<1> DEFINE U == {k \in Nat : \A m \in T : m <= k}
<1>1. U \in SUBSET Nat /\ U # {}
  OBVIOUS
<1>2. PICK k \in U : \A l \in U : k <= l
  <2> HIDE DEF U
  <2> QED BY <1>1, NatMin
<1>3. k \in T
  <2> SUFFICES ASSUME k \notin T PROVE FALSE
    OBVIOUS
  <2>1. PICK m \in T : TRUE
    OBVIOUS
  <2>2. \A l \in T : l < k /\ l <= k - 1
    BY SMT
  <2>3. k - 1 \in U
    BY <2>1, <2>2
  <2> QED BY <2>3, <1>2
<1> QED BY <1>3

\* Induction: a set that holds every element whose predecessors it holds is the
\* whole set.
THEOREM RankInduction ==
  ASSUME NEW S, NEW rank \in [S -> Nat], NEW T,
         \A x \in S : (\A y \in S : rank[y] < rank[x] => y \in T) => x \in T
  PROVE S \subseteq T
<1> SUFFICES ASSUME NEW z \in S, z \notin T PROVE FALSE
  OBVIOUS
<1> DEFINE U == {rank[x] : x \in S \ T}
<1>1. U \in SUBSET Nat /\ U # {}
  OBVIOUS
<1>2. PICK n \in U : \A m \in U : n <= m
  <2> HIDE DEF U
  <2> QED BY <1>1, NatMin
<1>3. PICK x \in S \ T : rank[x] = n
  OBVIOUS
<1>4. ASSUME NEW y \in S, rank[y] < rank[x], y \notin T PROVE FALSE
  <2>1. rank[y] \in U
    BY <1>4
  <2> HIDE DEF U
  <2> QED BY <2>1, <1>2, <1>3, <1>4
<1> QED BY <1>3, <1>4

\* F, which is given an element and a function, calls the function only for
\* predecessors of the element.
LooksBack(F, S, V, rank) ==
  \A x \in S : \A g, h \in [S -> V] :
    (\A y \in S : rank[y] < rank[x] => g[y] = h[y]) => F[x][g] = F[x][h]

Ranks(rank, S, N) == rank \in [S -> Nat] /\ \A x \in S : rank[x] <= N

Solves(f, F, S, V) == f \in [S -> V] /\ \A x \in S : f[x] = F[x][f]

\* Recursion: there is a function that such an F describes.
THEOREM RankRecursion ==
  ASSUME NEW S, NEW V, V # {}, NEW rank, NEW N \in Nat, Ranks(rank, S, N),
         NEW F, F \in [S -> [[S -> V] -> V]], LooksBack(F, S, V, rank)
  PROVE \E f : Solves(f, F, S, V)
<1> USE DEF Ranks, LooksBack
<1> DEFINE Good(k) == \E g \in [S -> V] : \A x \in S : rank[x] < k => g[x] = F[x][g]
           T == {k \in Nat : ~ Good(k)}
<1>1. Good(0)
  <2>1. PICK v \in V : TRUE
    OBVIOUS
  <2>2. [x \in S |-> v] \in [S -> V] /\ \A x \in S : ~ (rank[x] < 0)
    OBVIOUS
  <2> QED BY <2>2
<1>2. ASSUME NEW k \in Nat, Good(k) PROVE Good(k + 1)
  <2>1. PICK g \in [S -> V] : \A x \in S : rank[x] < k => g[x] = F[x][g]
    BY <1>2
  <2> DEFINE h == [x \in S |-> IF rank[x] = k THEN F[x][g] ELSE g[x]]
  <2>2. h \in [S -> V]
    OBVIOUS
  <2>3. \A x \in S : h[x] = IF rank[x] = k THEN F[x][g] ELSE g[x]
    OBVIOUS
  <2> HIDE DEF h
  <2>4. ASSUME NEW x \in S, rank[x] < k + 1 PROVE h[x] = F[x][h]
    <3>1. \A y \in S : rank[y] < rank[x] => g[y] = h[y]
      BY <2>3, <2>4
    <3>2. F[x][g] = F[x][h]
      BY <3>1, <2>2
    <3> DEFINE r == rank[x]
    <3>3. r \in Nat /\ r < k + 1
      BY <2>4
    <3>4. r = k \/ r < k
      <4> HIDE DEF r
      <4> QED BY <3>3
    <3> QED BY <3>2, <3>4, <2>1, <2>3
  <2> QED BY <2>2, <2>4
<1>3. T = {}
  <2> SUFFICES ASSUME T # {} PROVE FALSE
    OBVIOUS
  <2> HIDE DEF Good
  <2>1. T \in SUBSET Nat
    OBVIOUS
  <2>2. PICK k \in T : \A l \in T : k <= l
    <3> HIDE DEF T
    <3> QED BY <2>1, NatMin
  <2>3. k # 0 /\ k - 1 \in Nat
    BY <1>1
  <2>4. Good(k - 1)
    BY <2>2, <2>3
  <2>5. Good((k - 1) + 1)
    BY <2>3, <2>4, <1>2
  <2> QED BY <2>5
<1>4. Good(N + 1)
  <2> HIDE DEF Good
  <2> QED BY <1>3
<1>5. PICK f \in [S -> V] : \A x \in S : rank[x] < N + 1 => f[x] = F[x][f]
  BY <1>4
<1> QED BY <1>5 DEF Solves

-------------------------------------------------------------------------------
(* Parts of sequences *)

LEMMA PartProperties ==
  ASSUME NEW S, NEW s \in Seq(S), NEW m \in 1 .. Len(s) + 1, NEW n \in m - 1 .. Len(s)
  PROVE  /\ SubSeq(s, m, n) \in Seq(S)
         /\ Len(SubSeq(s, m, n)) = n - m + 1
         /\ \A i \in 1 .. n - m + 1 : SubSeq(s, m, n)[i] = s[m + i - 1]
<1>1. Len(s) \in Nat /\ m \in Int /\ n \in Int /\ m - 1 <= n
  OBVIOUS
<1>2. \A i \in m .. n : s[i] \in S
  <2>1. \A i \in m .. n : i \in 1 .. Len(s)
    BY <1>1
  <2> QED BY <2>1, ElementOfSeq
<1>3. /\ SubSeq(s, m, n) \in Seq(S)
      /\ Len(SubSeq(s, m, n)) = IF m <= n THEN n - m + 1 ELSE 0
      /\ \A i \in 1 .. n - m + 1 : SubSeq(s, m, n)[i] = s[m + i - 1]
  BY <1>1, <1>2, SubSeqProperties
<1> QED BY <1>1, <1>3

LEMMA PartOfAppend ==
  ASSUME NEW S, NEW s \in Seq(S), NEW e \in S,
         NEW m \in 1 .. Len(s) + 1, NEW n \in m - 1 .. Len(s)
  PROVE  SubSeq(Append(s, e), m, n) = SubSeq(s, m, n)
<1> DEFINE t == Append(s, e)
<1>1. /\ t \in Seq(S) /\ Len(t) = Len(s) + 1 /\ Len(s) \in Nat
      /\ \A i \in 1 .. Len(s) : t[i] = s[i]
  BY AppendProperties
<1> HIDE DEF t
<1>2. /\ SubSeq(s, m, n) \in Seq(S) /\ Len(SubSeq(s, m, n)) = n - m + 1
      /\ \A i \in 1 .. n - m + 1 : SubSeq(s, m, n)[i] = s[m + i - 1]
  BY PartProperties
<1>3. /\ SubSeq(t, m, n) \in Seq(S) /\ Len(SubSeq(t, m, n)) = n - m + 1
      /\ \A i \in 1 .. n - m + 1 : SubSeq(t, m, n)[i] = t[m + i - 1]
  <2>1. m \in 1 .. Len(t) + 1 /\ n \in m - 1 .. Len(t)
    BY <1>1
  <2> QED BY <1>1, <2>1, PartProperties
<1>4. \A i \in 1 .. n - m + 1 : m + i - 1 \in 1 .. Len(s)
  BY <1>1
<1>5. \A i \in 1 .. n - m + 1 : SubSeq(t, m, n)[i] = SubSeq(s, m, n)[i]
  BY <1>1, <1>2, <1>3, <1>4
<1>6. SubSeq(t, m, n) = SubSeq(s, m, n)
  BY <1>2, <1>3, <1>5, SeqEqual
<1> QED BY <1>6 DEF t

LEMMA PartToEnd ==
  ASSUME NEW S, NEW s \in Seq(S), NEW m \in 1 .. Len(s), NEW n \in m - 1 .. Len(s) - 1
  PROVE  SubSeq(s, m, n + 1) = Append(SubSeq(s, m, n), s[n + 1])
<1> DEFINE t == SubSeq(s, m, n)
           k == n + 1
<1>1. /\ Len(s) \in Nat /\ n \in Int /\ k \in m .. Len(s) /\ k - 1 = n
      /\ s[k] \in S
  BY ElementOfSeq
<1>2. t \in Seq(S)
  <2>1. m \in 1 .. Len(s) + 1 /\ n \in m - 1 .. Len(s)
    BY <1>1
  <2> QED BY <2>1, PartProperties
<1>3. SubSeq(s, m, k) = t \o <<s[k]>>
  <2> HIDE DEF k
  <2>1. SubSeq(s, m, k) = SubSeq(s, m, k - 1) \o <<s[k]>>
    BY <1>1, SubSeqRecursiveSecond
  <2> QED BY <1>1, <2>1
<1>4. Append(t, s[k]) = t \o <<s[k]>>
  <2> HIDE DEF t, k
  <2> QED BY <1>1, <1>2, AppendIsConcat
<1> QED BY <1>3, <1>4

LEMMA PartOfConcat ==
  ASSUME NEW S, NEW s \in Seq(S), NEW t \in Seq(S), NEW n \in 0 .. Len(s)
  PROVE  SubSeq(s \o t, 1, n) = SubSeq(s, 1, n)
<1>1. CASE n = 0
  <2>1. SubSeq(s \o t, 1, 0) = <<>> /\ SubSeq(s, 1, 0) = <<>>
    BY SubSeqEmpty
  <2> QED BY <1>1, <2>1
<1>2. CASE n # 0
  <2>1. 1 \in 1 .. Len(s) /\ n \in 1 .. Len(s)
    BY <1>2
  <2> QED BY <2>1, SubSeqOfConcat1
<1> QED BY <1>1, <1>2

LEMMA PartOfPart ==
  ASSUME NEW S, NEW s \in Seq(S), NEW m \in 1 .. Len(s) + 1, NEW n \in m - 1 .. Len(s),
         NEW a \in 1 .. n - m + 2, NEW b \in a - 1 .. n - m + 1
  PROVE  SubSeq(SubSeq(s, m, n), a, b) = SubSeq(s, m + a - 1, m + b - 1)
<1> DEFINE t == SubSeq(s, m, n)
           u == SubSeq(t, a, b)
           v == SubSeq(s, m + a - 1, m + b - 1)
<1>1. /\ t \in Seq(S) /\ Len(t) = n - m + 1 /\ Len(s) \in Nat
      /\ \A i \in 1 .. n - m + 1 : t[i] = s[m + i - 1]
  BY PartProperties
<1> HIDE DEF t
<1>2. /\ u \in Seq(S) /\ Len(u) = b - a + 1
      /\ \A i \in 1 .. b - a + 1 : u[i] = t[a + i - 1]
  <2>1. a \in 1 .. Len(t) + 1 /\ b \in a - 1 .. Len(t)
    BY <1>1
  <2> QED BY <1>1, <2>1, PartProperties
<1>3. /\ v \in Seq(S) /\ Len(v) = b - a + 1
      /\ \A i \in 1 .. b - a + 1 : v[i] = s[(m + a - 1) + i - 1]
  <2>1. /\ m + a - 1 \in 1 .. Len(s) + 1 /\ m + b - 1 \in (m + a - 1) - 1 .. Len(s)
        /\ (m + b - 1) - (m + a - 1) + 1 = b - a + 1
    BY <1>1
  <2> QED BY <2>1, PartProperties
<1> HIDE DEF u, v
<1>4. \A i \in 1 .. b - a + 1 :
        a + i - 1 \in 1 .. n - m + 1 /\ m + (a + i - 1) - 1 = (m + a - 1) + i - 1
  BY <1>1
<1>5. \A i \in 1 .. b - a + 1 : u[i] = v[i]
  BY <1>1, <1>2, <1>3, <1>4
<1>6. u = v
  BY <1>2, <1>3, <1>5, SeqEqual
<1> QED BY <1>6 DEF t, u, v

-------------------------------------------------------------------------------
(* Passing over a sequence, with a step for each element *)

\* f[n] is what init has become behind the first n elements.
PassesOver(f, init, step, s, V) ==
  /\ \A n \in 0 .. Len(s) : f[n] \in V
  /\ f[0] = init
  /\ \A n \in 1 .. Len(s) : f[n] = step[<<f[n - 1], s[n]>>]

THEOREM PassExists ==
  ASSUME NEW S, NEW s \in Seq(S), NEW V, NEW init \in V, NEW step \in [V \X S -> V]
  PROVE  \E f \in [0 .. Len(s) -> V] : PassesOver(f, init, step, s, V)
<1> DEFINE L == Len(s)
           D == 0 .. L
           rank == [n \in D |-> n]
           F == [n \in D |-> [g \in [D -> V] |->
                   IF n = 0 THEN init ELSE step[<<g[n - 1], s[n]>>]]]
<1>1. L \in Nat /\ \A n \in 1 .. L : s[n] \in S
  BY ElementOfSeq
<1>2. F \in [D -> [[D -> V] -> V]]
  <2>1. ASSUME NEW n \in D, NEW g \in [D -> V]
        PROVE (IF n = 0 THEN init ELSE step[<<g[n - 1], s[n]>>]) \in V
    <3>1. CASE n = 0
      BY <3>1
    <3>2. CASE n # 0
      <4>1. n - 1 \in D /\ n \in 1 .. L
        BY <1>1, <3>2
      <4>2. <<g[n - 1], s[n]>> \in V \X S
        BY <4>1, <1>1
      <4> QED BY <3>2, <4>2
    <3> QED BY <3>1, <3>2
  <2> HIDE DEF D
  <2> QED BY <2>1
<1>3. Ranks(rank, D, L)
  BY <1>1 DEF Ranks
<1>4. LooksBack(F, D, V, rank)
  <2> SUFFICES ASSUME NEW n \in D, NEW g \in [D -> V], NEW h \in [D -> V],
                      \A y \in D : rank[y] < rank[n] => g[y] = h[y]
               PROVE F[n][g] = F[n][h]
    BY DEF LooksBack
  <2>1. n # 0 => g[n - 1] = h[n - 1]
    BY <1>1
  <2> QED BY <2>1
<1>5. \E f : Solves(f, F, D, V)
  <2> HIDE DEF D, F, rank, L
  <2> QED BY <1>1, <1>2, <1>3, <1>4, RankRecursion
<1>6. PICK f : Solves(f, F, D, V)
  BY <1>5
<1>7. f \in [D -> V] /\ \A n \in D : f[n] = F[n][f]
  BY <1>6 DEF Solves
<1>8. \A n \in D : f[n] = IF n = 0 THEN init ELSE step[<<f[n - 1], s[n]>>]
  BY <1>7
<1>9. 0 \in D /\ \A n \in 1 .. L : n \in D /\ n # 0
  BY <1>1
<1>10. f[0] = init /\ \A n \in 1 .. L : f[n] = step[<<f[n - 1], s[n]>>]
  BY <1>8, <1>9
<1> QED BY <1>7, <1>10 DEF PassesOver

\* What follows the step where the values are in V is such a pass.
THEOREM PassTyped ==
  ASSUME NEW S, NEW s \in Seq(S), NEW V, NEW init \in V, NEW step \in [V \X S -> V],
         NEW f, f[0] = init,
         \A n \in 1 .. Len(s) : f[n - 1] \in V => f[n] = step[<<f[n - 1], s[n]>>]
  PROVE  PassesOver(f, init, step, s, V)
<1> DEFINE L == Len(s)
           D == 0 .. L
           rank == [n \in D |-> n]
           T == {n \in D : f[n] \in V}
<1>1. L \in Nat /\ \A n \in 1 .. L : s[n] \in S
  BY ElementOfSeq
<1>2. rank \in [D -> Nat]
  BY <1>1
<1>3. ASSUME NEW n \in D, \A y \in D : rank[y] < rank[n] => y \in T PROVE n \in T
  <2>1. CASE n = 0
    BY <2>1
  <2>2. CASE n # 0
    <3>1. n - 1 \in D /\ n \in 1 .. L /\ rank[n - 1] < rank[n]
      BY <1>1, <2>2
    <3>2. f[n - 1] \in V
      BY <1>3, <3>1
    <3>3. <<f[n - 1], s[n]>> \in V \X S
      BY <3>1, <3>2, <1>1
    <3> QED BY <3>1, <3>2, <3>3
  <2> QED BY <2>1, <2>2
<1>4. D \subseteq T
  <2> HIDE DEF D, rank, T
  <2> QED BY <1>2, <1>3, RankInduction
<1>5. \A n \in 1 .. L : n - 1 \in D
  BY <1>1
<1> QED BY <1>4, <1>5 DEF PassesOver

\* Two passes over sequences that begin alike agree on that beginning.
THEOREM PassesAgree ==
  ASSUME NEW s, Len(s) \in Nat, NEW t, NEW init, NEW step, NEW V, NEW f, NEW g,
         PassesOver(f, init, step, s, V), PassesOver(g, init, step, t, V),
         Len(t) \in Nat, Len(s) <= Len(t), \A i \in 1 .. Len(s) : t[i] = s[i]
  PROVE  \A n \in 0 .. Len(s) : g[n] = f[n]
<1> DEFINE L == Len(s)
           D == 0 .. L
           rank == [n \in D |-> n]
           T == {n \in D : g[n] = f[n]}
<1>1. rank \in [D -> Nat]
  OBVIOUS
<1>2. ASSUME NEW n \in D, \A y \in D : rank[y] < rank[n] => y \in T PROVE n \in T
  <2>1. CASE n = 0
    BY <2>1 DEF PassesOver
  <2>2. CASE n # 0
    <3>1. n - 1 \in D /\ n \in 1 .. L /\ n \in 1 .. Len(t) /\ rank[n - 1] < rank[n]
      BY <2>2
    <3>2. g[n - 1] = f[n - 1] /\ t[n] = s[n]
      BY <1>2, <3>1
    <3>3. f[n] = step[<<f[n - 1], s[n]>>] /\ g[n] = step[<<g[n - 1], t[n]>>]
      BY <3>1 DEF PassesOver
    <3> QED BY <3>2, <3>3
  <2> QED BY <2>1, <2>2
<1>3. D \subseteq T
  <2> HIDE DEF D, rank, T
  <2> QED BY <1>1, <1>2, RankInduction
<1> QED BY <1>3

-------------------------------------------------------------------------------
(* Sequences that grow *)

\* Induction over sequences.
THEOREM SeqInduction ==
  ASSUME NEW S, NEW T, <<>> \in T,
         \A s \in Seq(S) : \A e \in S : s \in T => Append(s, e) \in T
  PROVE  Seq(S) \subseteq T
<1> SUFFICES ASSUME NEW s \in Seq(S) PROVE s \in T
  OBVIOUS
<1> DEFINE L == Len(s)
           D == 0 .. L
           rank == [n \in D |-> n]
           G == {n \in D : SubSeq(s, 1, n) \in T}
<1>1. L \in Nat
  OBVIOUS
<1>2. rank \in [D -> Nat]
  BY <1>1
<1>3. ASSUME NEW n \in D, \A y \in D : rank[y] < rank[n] => y \in G PROVE n \in G
  <2>1. CASE n = 0
    <3>1. SubSeq(s, 1, 0) = <<>>
      BY SubSeqEmpty
    <3> QED BY <2>1, <3>1
  <2>2. CASE n # 0
    <3>1. /\ n - 1 \in D /\ rank[n - 1] < rank[n] /\ n \in 1 .. L
          /\ 1 \in 1 .. Len(s) + 1 /\ n - 1 \in 1 - 1 .. Len(s)
          /\ 1 \in 1 .. Len(s) /\ n - 1 \in 1 - 1 .. Len(s) - 1
          /\ (n - 1) + 1 = n
      BY <1>1, <2>2
    <3>2. SubSeq(s, 1, n - 1) \in T /\ SubSeq(s, 1, n - 1) \in Seq(S) /\ s[n] \in S
      BY <1>3, <3>1, PartProperties, ElementOfSeq
    <3>3. SubSeq(s, 1, (n - 1) + 1) = Append(SubSeq(s, 1, n - 1), s[(n - 1) + 1])
      BY <3>1, PartToEnd
    <3>4. SubSeq(s, 1, n) = Append(SubSeq(s, 1, n - 1), s[n])
      BY <3>1, <3>3
    <3> QED BY <3>2, <3>4
  <2> QED BY <2>1, <2>2
<1>4. D \subseteq G
  <2> HIDE DEF D, rank, G
  <2> QED BY <1>2, <1>3, RankInduction
<1>5. SubSeq(s, 1, L) = s
  <2>1. /\ 1 \in 1 .. Len(s) + 1 /\ L \in 1 - 1 .. Len(s) /\ L - 1 + 1 = L
        /\ \A i \in 1 .. L : 1 + i - 1 = i
    BY <1>1
  <2>2. /\ SubSeq(s, 1, L) \in Seq(S) /\ Len(SubSeq(s, 1, L)) = L
        /\ \A i \in 1 .. L : SubSeq(s, 1, L)[i] = s[i]
    BY <2>1, PartProperties
  <2> QED BY <2>2, SeqEqual
<1>6. L \in G
  BY <1>1, <1>4
<1> QED BY <1>5, <1>6

LEMMA WholePart ==
  ASSUME NEW S, NEW s \in Seq(S)
  PROVE  SubSeq(s, 1, Len(s)) = s
<1>1. /\ 1 \in 1 .. Len(s) + 1 /\ Len(s) \in 1 - 1 .. Len(s) /\ Len(s) - 1 + 1 = Len(s)
      /\ \A i \in 1 .. Len(s) : 1 + i - 1 = i
  OBVIOUS
<1>2. /\ SubSeq(s, 1, Len(s)) \in Seq(S) /\ Len(SubSeq(s, 1, Len(s))) = Len(s)
      /\ \A i \in 1 .. Len(s) : SubSeq(s, 1, Len(s))[i] = s[i]
  BY <1>1, PartProperties
<1> QED BY <1>2, SeqEqual

LEMMA ConcatOfAppend ==
  ASSUME NEW S, NEW s \in Seq(S), NEW t \in Seq(S), NEW e \in S
  PROVE  s \o Append(t, e) = Append(s \o t, e)
<1>1. s \o t \in Seq(S) /\ <<e>> \in Seq(S)
  BY ConcatProperties
<1>2. Append(t, e) = t \o <<e>> /\ Append(s \o t, e) = (s \o t) \o <<e>>
  BY <1>1, AppendIsConcat
<1>3. s \o (t \o <<e>>) = (s \o t) \o <<e>>
  BY <1>1, ConcatAssociative
<1> QED BY <1>2, <1>3

-------------------------------------------------------------------------------
(* Texts *)

LEMMA TrimType ==
  ASSUME NEW S, NEW s \in Seq(S)
  PROVE  Trim(s) \in Seq(S)
<1> DEFINE solid == {i \in 1 .. Len(s) : s[i] # "sp"}
           First(i) == i \in solid /\ \A k \in solid : i <= k
           Last(i) == i \in solid /\ \A k \in solid : k <= i
           m == CHOOSE i : First(i)
           n == CHOOSE i : Last(i)
<1>1. Trim(s) = IF solid = {} THEN <<>> ELSE SubSeq(s, m, n)
  BY DEF Trim
<1>2. Len(s) \in Nat /\ solid \in SUBSET Nat /\ \A i \in solid : i <= Len(s)
  OBVIOUS
<1>3. CASE solid = {}
  BY <1>1, <1>3, EmptySeq
<1>4. CASE solid # {}
  <2>1. (\E i : First(i)) /\ (\E i : Last(i))
    <3>1. \E i \in solid : \A k \in solid : i <= k
      <4> HIDE DEF solid
      <4> QED BY <1>2, <1>4, NatMin
    <3>2. \E i \in solid : \A k \in solid : k <= i
      <4> HIDE DEF solid
      <4> QED BY <1>2, <1>4, NatMax
    <3> QED BY <3>1, <3>2
  <2>2. First(m) /\ Last(n)
    <3> HIDE DEF First, Last
    <3> QED BY <2>1
  <2> HIDE DEF m, n
  <2>3. m \in 1 .. Len(s) /\ n \in 1 .. Len(s) /\ m <= n
    BY <2>2
  <2>4. \A i \in m .. n : s[i] \in S
    <3>1. \A i \in m .. n : i \in 1 .. Len(s)
      BY <2>3
    <3> QED BY <3>1, ElementOfSeq
  <2>5. SubSeq(s, m, n) \in Seq(S)
    <3>1. m \in Int /\ n \in Int
      BY <2>3
    <3> QED BY <2>4, <3>1, SubSeqProperties
  <2> QED BY <1>1, <1>4, <2>5
<1> QED BY <1>3, <1>4

\* The step of Without.
TakesOut(S, c) ==
  [p \in Seq(S \ {c}) \X S |-> IF p[2] = c THEN p[1] ELSE Append(p[1], p[2])]

LEMMA TakesOutType ==
  ASSUME NEW S, NEW c
  PROVE  TakesOut(S, c) \in [Seq(S \ {c}) \X S -> Seq(S \ {c})]
<1> SUFFICES ASSUME NEW t \in Seq(S \ {c}), NEW e \in S
             PROVE (IF e = c THEN t ELSE Append(t, e)) \in Seq(S \ {c})
  BY DEF TakesOut
<1>1. e # c => e \in S \ {c}
  OBVIOUS
<1> QED BY <1>1, AppendProperties

LEMMA WithoutPasses ==
  ASSUME NEW S, NEW s \in Seq(S), NEW c
  PROVE  \E f : /\ PassesOver(f, <<>>, TakesOut(S, c), s, Seq(S \ {c}))
                /\ Without(s, c) = f[Len(s)]
<1> DEFINE kept == CHOOSE kept : kept = [n \in 0 .. Len(s) |->
                     IF n = 0 THEN <<>>
                     ELSE IF s[n] = c THEN kept[n - 1] ELSE Append(kept[n - 1], s[n])]
<1>1. Without(s, c) = kept[Len(s)]
  BY DEF Without
<1>2. /\ Len(s) \in Nat /\ \A n \in 1 .. Len(s) : s[n] \in S
      /\ \A n \in 1 .. Len(s) : n - 1 \in 0 .. Len(s) /\ n \in 0 .. Len(s) /\ n # 0
      /\ \A n \in 0 .. Len(s) : n # 0 => n \in 1 .. Len(s)
      /\ 0 \in 0 .. Len(s)
      /\ <<>> \in Seq(S \ {c})
  BY ElementOfSeq, EmptySeq
<1>3. ASSUME NEW t \in Seq(S \ {c}), NEW e \in S
      PROVE TakesOut(S, c)[<<t, e>>] = IF e = c THEN t ELSE Append(t, e)
  BY DEF TakesOut
<1>4. PICK f \in [0 .. Len(s) -> Seq(S \ {c})] :
        PassesOver(f, <<>>, TakesOut(S, c), s, Seq(S \ {c}))
  BY <1>2, TakesOutType, PassExists
<1>5. f = [n \in 0 .. Len(s) |->
             IF n = 0 THEN <<>>
             ELSE IF s[n] = c THEN f[n - 1] ELSE Append(f[n - 1], s[n])]
  <2>1. f = [n \in 0 .. Len(s) |-> f[n]]
    OBVIOUS
  <2>2. ASSUME NEW n \in 0 .. Len(s)
        PROVE f[n] = IF n = 0 THEN <<>>
                     ELSE IF s[n] = c THEN f[n - 1] ELSE Append(f[n - 1], s[n])
    <3>1. n # 0 => f[n - 1] \in Seq(S \ {c}) /\ s[n] \in S
      BY <1>2
    <3>2. n # 0 => f[n] = TakesOut(S, c)[<<f[n - 1], s[n]>>]
      BY <1>2, <1>4 DEF PassesOver
    <3>3. f[0] = <<>>
      BY <1>4 DEF PassesOver
    <3> QED BY <3>1, <3>2, <3>3, <1>3
  <2> QED BY <2>1, <2>2
<1>6. kept = [n \in 0 .. Len(s) |->
                IF n = 0 THEN <<>>
                ELSE IF s[n] = c THEN kept[n - 1] ELSE Append(kept[n - 1], s[n])]
  BY <1>5
<1> HIDE DEF kept
<1>7. kept[0] = <<>>
  BY <1>2, <1>6
<1>8. ASSUME NEW n \in 1 .. Len(s), kept[n - 1] \in Seq(S \ {c})
      PROVE kept[n] = TakesOut(S, c)[<<kept[n - 1], s[n]>>]
  <2>1. kept[n] = IF s[n] = c THEN kept[n - 1] ELSE Append(kept[n - 1], s[n])
    BY <1>2, <1>6
  <2> QED BY <2>1, <1>2, <1>3, <1>8
<1>9. PassesOver(kept, <<>>, TakesOut(S, c), s, Seq(S \ {c}))
  BY <1>2, <1>7, <1>8, TakesOutType, PassTyped
<1> QED BY <1>1, <1>9

\* What one element more changes.
WithoutGrows(S, c, s, e) ==
  /\ Without(s, c) \in Seq(S \ {c})
  /\ e = c => Without(Append(s, e), c) = Without(s, c)
  /\ e # c => Without(Append(s, e), c) = Append(Without(s, c), e)

LEMMA WithoutAppend ==
  ASSUME NEW S, NEW c, NEW s \in Seq(S), NEW e \in S
  PROVE  WithoutGrows(S, c, s, e)
<1> DEFINE t == Append(s, e)
           L == Len(s)
           V == Seq(S \ {c})
           step == TakesOut(S, c)
<1>1. /\ t \in Seq(S) /\ Len(t) = L + 1 /\ L \in Nat
      /\ \A i \in 1 .. L : t[i] = s[i]
      /\ t[L + 1] = e
  BY AppendProperties
<1> HIDE DEF t
<1>2. PICK f : PassesOver(f, <<>>, step, s, V) /\ Without(s, c) = f[L]
  BY WithoutPasses
<1>3. PICK g : PassesOver(g, <<>>, step, t, V) /\ Without(t, c) = g[L + 1]
  BY <1>1, WithoutPasses
<1>4. g[L] = f[L]
  <2>1. Len(t) \in Nat /\ Len(s) <= Len(t)
    BY <1>1
  <2> HIDE DEF step, V
  <2>2. \A n \in 0 .. Len(s) : g[n] = f[n]
    BY <1>1, <1>2, <1>3, <2>1, PassesAgree
  <2> QED BY <1>1, <2>2
<1>5. f[L] \in V
  BY <1>1, <1>2 DEF PassesOver
<1>6. g[L + 1] = step[<<g[L], e>>]
  <2>1. L + 1 \in 1 .. Len(t) /\ (L + 1) - 1 = L
    BY <1>1
  <2> HIDE DEF step
  <2> QED BY <2>1, <1>1, <1>3 DEF PassesOver
<1>7. step[<<f[L], e>>] = IF e = c THEN f[L] ELSE Append(f[L], e)
  BY <1>5 DEF TakesOut
<1> QED BY <1>2, <1>3, <1>4, <1>5, <1>6, <1>7 DEF t, WithoutGrows

LEMMA WithoutEmpty == ASSUME NEW c PROVE Without(<<>>, c) = <<>>
<1> PICK S : S = {c}
  OBVIOUS
<1>1. <<>> \in Seq(S) /\ Len(<<>>) = 0
  BY EmptySeq
<1>2. PICK f : /\ PassesOver(f, <<>>, TakesOut(S, c), <<>>, Seq(S \ {c}))
               /\ Without(<<>>, c) = f[Len(<<>>)]
  BY <1>1, WithoutPasses
<1> QED BY <1>1, <1>2 DEF PassesOver

LEMMA WithoutConcat ==
  ASSUME NEW S, NEW s \in Seq(S), NEW t \in Seq(S), NEW c
  PROVE  Without(s \o t, c) = Without(s, c) \o Without(t, c)
<1>9. ASSUME NEW u \in Seq(S), NEW e \in S
      PROVE  /\ Without(u, c) \in Seq(S \ {c})
             /\ e = c => Without(Append(u, e), c) = Without(u, c)
             /\ e # c => Without(Append(u, e), c) = Append(Without(u, c), e)
  <2>1. WithoutGrows(S, c, u, e)
    BY WithoutAppend
  <2> QED BY <2>1 DEF WithoutGrows
<1> DEFINE T == {u \in Seq(S) : Without(s \o u, c) = Without(s, c) \o Without(u, c)}
<1>0. S # {} => Without(s, c) \in Seq(S \ {c})
  BY <1>9
<1>1. <<>> \in T
  <2>1. s \o <<>> = s /\ <<>> \in Seq(S)
    BY ConcatEmptySeq, EmptySeq
  <2>2. Without(s, c) \o <<>> = Without(s, c)
    <3>1. CASE S # {}
      BY <1>0, <3>1, ConcatEmptySeq
    <3>2. CASE S = {}
      <4>1. s = <<>>
        BY <3>2, EmptySeq
      <4>2. <<>> \in Seq(S) /\ <<>> \o <<>> = <<>>
        BY <2>1, <4>1
      <4> QED BY <4>1, <4>2, WithoutEmpty
    <3> QED BY <3>1, <3>2
  <2> QED BY <2>1, <2>2, WithoutEmpty
<1>2. ASSUME NEW u \in Seq(S), NEW e \in S, u \in T PROVE Append(u, e) \in T
  <2>1. Append(u, e) \in Seq(S) /\ s \o u \in Seq(S)
    BY AppendProperties, ConcatProperties
  <2>2. s \o Append(u, e) = Append(s \o u, e)
    BY ConcatOfAppend
  <2>3. /\ e = c => Without(Append(s \o u, e), c) = Without(s \o u, c)
        /\ e # c => Without(Append(s \o u, e), c) = Append(Without(s \o u, c), e)
        /\ e = c => Without(Append(u, e), c) = Without(u, c)
        /\ e # c => Without(Append(u, e), c) = Append(Without(u, c), e)
        /\ Without(u, c) \in Seq(S \ {c}) /\ Without(s, c) \in Seq(S \ {c})
    <3>1. /\ e = c => Without(Append(s \o u, e), c) = Without(s \o u, c)
          /\ e # c => Without(Append(s \o u, e), c) = Append(Without(s \o u, c), e)
      BY <2>1, <1>9
    <3>2. /\ Without(u, c) \in Seq(S \ {c})
          /\ e = c => Without(Append(u, e), c) = Without(u, c)
          /\ e # c => Without(Append(u, e), c) = Append(Without(u, c), e)
      BY <1>9
    <3>3. Without(s, c) \in Seq(S \ {c})
      BY <1>9
    <3> QED BY <3>1, <3>2, <3>3
  <2>4. Without(s \o u, c) = Without(s, c) \o Without(u, c)
    BY <1>2
  <2>5. e # c => Without(s, c) \o Append(Without(u, c), e)
                   = Append(Without(s, c) \o Without(u, c), e)
    <3>1. e # c => e \in S \ {c}
      OBVIOUS
    <3> QED BY <2>3, <3>1, ConcatOfAppend
  <2>6. Without(s \o Append(u, e), c) = Without(s, c) \o Without(Append(u, e), c)
    BY <2>2, <2>3, <2>4, <2>5
  <2> QED BY <2>1, <2>6
<1>3. Seq(S) \subseteq T
  <2> HIDE DEF T
  <2> QED BY <1>1, <1>2, SeqInduction
<1> QED BY <1>3

\* The step of Concat.
Joins(S) == [p \in Seq(S) \X Seq(S) |-> p[1] \o p[2]]

LEMMA ConcatPasses ==
  ASSUME NEW S, NEW ss \in Seq(Seq(S))
  PROVE  \E f : /\ PassesOver(f, <<>>, Joins(S), ss, Seq(S))
                /\ Concat(ss) = f[Len(ss)]
<1> DEFINE all == CHOOSE all : all = [n \in 0 .. Len(ss) |->
                     IF n = 0 THEN <<>> ELSE all[n - 1] \o ss[n]]
<1>1. Concat(ss) = all[Len(ss)]
  BY DEF Concat
<1>2. /\ Len(ss) \in Nat /\ \A n \in 1 .. Len(ss) : ss[n] \in Seq(S)
      /\ \A n \in 1 .. Len(ss) : n - 1 \in 0 .. Len(ss) /\ n \in 0 .. Len(ss) /\ n # 0
      /\ \A n \in 0 .. Len(ss) : n # 0 => n \in 1 .. Len(ss)
      /\ 0 \in 0 .. Len(ss)
      /\ <<>> \in Seq(S)
  BY ElementOfSeq, EmptySeq
<1>3. Joins(S) \in [Seq(S) \X Seq(S) -> Seq(S)]
  <2> SUFFICES ASSUME NEW s \in Seq(S), NEW t \in Seq(S) PROVE s \o t \in Seq(S)
    BY DEF Joins
  <2> QED BY ConcatProperties
<1>4. ASSUME NEW s \in Seq(S), NEW t \in Seq(S) PROVE Joins(S)[<<s, t>>] = s \o t
  BY DEF Joins
<1>5. PICK f \in [0 .. Len(ss) -> Seq(S)] :
        PassesOver(f, <<>>, Joins(S), ss, Seq(S))
  <2> DEFINE J == Joins(S)
             V == Seq(S)
  <2>1. J \in [V \X V -> V] /\ <<>> \in V /\ ss \in Seq(V)
    BY <1>2, <1>3
  <2> HIDE DEF J, V
  <2>2. \E f \in [0 .. Len(ss) -> V] : PassesOver(f, <<>>, J, ss, V)
    BY <2>1, PassExists
  <2> QED BY <2>2 DEF J, V
<1>6. f = [n \in 0 .. Len(ss) |-> IF n = 0 THEN <<>> ELSE f[n - 1] \o ss[n]]
  <2>1. f = [n \in 0 .. Len(ss) |-> f[n]]
    OBVIOUS
  <2>2. ASSUME NEW n \in 0 .. Len(ss)
        PROVE f[n] = IF n = 0 THEN <<>> ELSE f[n - 1] \o ss[n]
    <3>1. n # 0 => f[n - 1] \in Seq(S) /\ ss[n] \in Seq(S)
      BY <1>2
    <3>2. n # 0 => f[n] = Joins(S)[<<f[n - 1], ss[n]>>]
      BY <1>2, <1>5 DEF PassesOver
    <3>3. f[0] = <<>>
      BY <1>5 DEF PassesOver
    <3> QED BY <3>1, <3>2, <3>3, <1>4
  <2> QED BY <2>1, <2>2
<1>7. all = [n \in 0 .. Len(ss) |-> IF n = 0 THEN <<>> ELSE all[n - 1] \o ss[n]]
  BY <1>6
<1> HIDE DEF all
<1>8. all[0] = <<>>
  BY <1>2, <1>7
<1>9. ASSUME NEW n \in 1 .. Len(ss), all[n - 1] \in Seq(S)
      PROVE all[n] = Joins(S)[<<all[n - 1], ss[n]>>]
  <2>1. all[n] = all[n - 1] \o ss[n]
    BY <1>2, <1>7
  <2> QED BY <2>1, <1>2, <1>4, <1>9
<1>10. PassesOver(all, <<>>, Joins(S), ss, Seq(S))
  <2> DEFINE J == Joins(S)
             V == Seq(S)
  <2>1. /\ J \in [V \X V -> V] /\ <<>> \in V /\ ss \in Seq(V) /\ all[0] = <<>>
        /\ \A n \in 1 .. Len(ss) : all[n - 1] \in V => all[n] = J[<<all[n - 1], ss[n]>>]
    BY <1>2, <1>3, <1>8, <1>9
  <2> HIDE DEF J, V
  <2>2. PassesOver(all, <<>>, J, ss, V)
    BY <2>1, PassTyped
  <2> QED BY <2>2 DEF J, V
<1> QED BY <1>1, <1>10

\* What one text more changes.
ConcatGrows(S, ss, s) ==
  /\ Concat(ss) \in Seq(S)
  /\ Concat(Append(ss, s)) = Concat(ss) \o s

LEMMA ConcatAppend ==
  ASSUME NEW S, NEW ss \in Seq(Seq(S)), NEW s \in Seq(S)
  PROVE  ConcatGrows(S, ss, s)
<1> DEFINE tt == Append(ss, s)
           L == Len(ss)
           V == Seq(S)
           J == Joins(S)
<1>1. /\ tt \in Seq(V) /\ Len(tt) = L + 1 /\ L \in Nat
      /\ \A i \in 1 .. L : tt[i] = ss[i]
      /\ tt[L + 1] = s
  BY AppendProperties
<1> HIDE DEF tt
<1>2. PICK f : PassesOver(f, <<>>, J, ss, V) /\ Concat(ss) = f[L]
  BY ConcatPasses
<1>3. PICK g : PassesOver(g, <<>>, J, tt, V) /\ Concat(tt) = g[L + 1]
  BY <1>1, ConcatPasses
<1>4. g[L] = f[L]
  <2>1. Len(tt) \in Nat /\ Len(ss) <= Len(tt)
    BY <1>1
  <2> HIDE DEF J, V
  <2>2. \A n \in 0 .. Len(ss) : g[n] = f[n]
    BY <1>1, <1>2, <1>3, <2>1, PassesAgree
  <2> QED BY <1>1, <2>2
<1>5. f[L] \in V
  BY <1>1, <1>2 DEF PassesOver
<1>6. g[L + 1] = J[<<g[L], s>>]
  <2>1. L + 1 \in 1 .. Len(tt) /\ (L + 1) - 1 = L
    BY <1>1
  <2> HIDE DEF J
  <2> QED BY <2>1, <1>1, <1>3 DEF PassesOver
<1>7. J[<<f[L], s>>] = f[L] \o s
  BY <1>5 DEF Joins
<1> QED BY <1>2, <1>3, <1>4, <1>5, <1>6, <1>7 DEF tt, ConcatGrows

LEMMA ConcatOfNone == Concat(<<>>) = <<>>
<1> PICK S : S = {}
  OBVIOUS
<1>1. <<>> \in Seq(Seq(S)) /\ Len(<<>>) = 0
  BY EmptySeq
<1>2. PICK f : PassesOver(f, <<>>, Joins(S), <<>>, Seq(S)) /\ Concat(<<>>) = f[Len(<<>>)]
  BY <1>1, ConcatPasses
<1> QED BY <1>1, <1>2 DEF PassesOver

\* Without its blanks nothing is left of a text of blanks.
LEMMA WithoutOfBlank ==
  ASSUME NEW S, NEW s \in Seq(S), Blank(s)
  PROVE  Without(s, "sp") = <<>>
<1> DEFINE T == {u \in Seq(S) : Blank(u) => Without(u, "sp") = <<>>}
<1>1. <<>> \in T
  BY WithoutEmpty, EmptySeq
<1>2. ASSUME NEW u \in Seq(S), NEW e \in S, u \in T PROVE Append(u, e) \in T
  <2> DEFINE v == Append(u, e)
  <2>1. /\ v \in Seq(S) /\ Len(v) = Len(u) + 1 /\ Len(u) \in Nat
        /\ \A i \in 1 .. Len(u) : v[i] = u[i]
        /\ v[Len(u) + 1] = e
    BY AppendProperties
  <2> HIDE DEF v
  <2>2. ASSUME Blank(v) PROVE Without(v, "sp") = <<>>
    <3>1. Blank(u) /\ e = "sp"
      BY <2>1, <2>2 DEF Blank
    <3>2. WithoutGrows(S, "sp", u, e)
      BY WithoutAppend
    <3> QED BY <1>2, <3>1, <3>2 DEF v, WithoutGrows
  <2> QED BY <2>1, <2>2 DEF v
<1>3. Seq(S) \subseteq T
  <2> HIDE DEF T
  <2> QED BY <1>1, <1>2, SeqInduction
<1> QED BY <1>3

\* Trim takes only blanks away.
LEMMA WithoutOfTrim ==
  ASSUME NEW S, NEW s \in Seq(S)
  PROVE  Without(Trim(s), "sp") = Without(s, "sp")
<1> DEFINE solid == {i \in 1 .. Len(s) : s[i] # "sp"}
           First(i) == i \in solid /\ \A k \in solid : i <= k
           Last(i) == i \in solid /\ \A k \in solid : k <= i
           m == CHOOSE i : First(i)
           n == CHOOSE i : Last(i)
<1>1. Trim(s) = IF solid = {} THEN <<>> ELSE SubSeq(s, m, n)
  BY DEF Trim
<1>2. Len(s) \in Nat /\ solid \in SUBSET Nat /\ \A i \in solid : i <= Len(s)
  OBVIOUS
<1>3. CASE solid = {}
  <2>1. Blank(s)
    BY <1>3 DEF Blank
  <2> QED BY <1>1, <1>3, <2>1, WithoutOfBlank, WithoutEmpty
<1>4. CASE solid # {}
  <2>1. (\E i : First(i)) /\ (\E i : Last(i))
    <3>1. \E i \in solid : \A k \in solid : i <= k
      <4> HIDE DEF solid
      <4> QED BY <1>2, <1>4, NatMin
    <3>2. \E i \in solid : \A k \in solid : k <= i
      <4> HIDE DEF solid
      <4> QED BY <1>2, <1>4, NatMax
    <3> QED BY <3>1, <3>2
  <2>2. First(m) /\ Last(n)
    <3> HIDE DEF First, Last
    <3> QED BY <2>1
  <2> HIDE DEF m, n
  <2>3. /\ m \in 1 .. Len(s) /\ n \in 1 .. Len(s) /\ m <= n
        /\ \A i \in 1 .. Len(s) : i < m \/ i > n => s[i] = "sp"
    BY <2>2
  <2> HIDE DEF solid, First, Last
  <2> DEFINE a == SubSeq(s, 1, m - 1)
             b == SubSeq(s, m, n)
             c == SubSeq(s, n + 1, Len(s))
  <2>4. a \in Seq(S) /\ Blank(a)
    <3>1. 1 \in 1 .. Len(s) + 1 /\ m - 1 \in 1 - 1 .. Len(s) /\ m - 1 - 1 + 1 = m - 1
      BY <1>2, <2>3
    <3>2. /\ a \in Seq(S) /\ Len(a) = m - 1
          /\ \A i \in 1 .. m - 1 : a[i] = s[1 + i - 1]
      BY <3>1, PartProperties
    <3>3. \A i \in 1 .. m - 1 : 1 + i - 1 = i /\ i \in 1 .. Len(s) /\ i < m
      BY <1>2, <2>3
    <3> HIDE DEF a
    <3> QED BY <3>2, <3>3, <2>3 DEF Blank
  <2>5. b \in Seq(S)
    <3>1. m \in 1 .. Len(s) + 1 /\ n \in m - 1 .. Len(s)
      BY <1>2, <2>3
    <3> QED BY <3>1, PartProperties
  <2>6. c \in Seq(S) /\ Blank(c)
    <3>1. /\ n + 1 \in 1 .. Len(s) + 1 /\ Len(s) \in n + 1 - 1 .. Len(s)
          /\ Len(s) - (n + 1) + 1 = Len(s) - n
      BY <1>2, <2>3
    <3>2. /\ c \in Seq(S) /\ Len(c) = Len(s) - n
          /\ \A i \in 1 .. Len(s) - n : c[i] = s[n + 1 + i - 1]
      BY <3>1, PartProperties
    <3>3. \A i \in 1 .. Len(s) - n : n + 1 + i - 1 \in 1 .. Len(s) /\ n + 1 + i - 1 > n
      BY <1>2, <2>3
    <3> HIDE DEF c
    <3> QED BY <3>2, <3>3, <2>3 DEF Blank
  <2>7. a \o (b \o c) = s
    <3>1. /\ m \in 1 .. Len(s) + 1 /\ n \in m - 1 .. Len(s)
          /\ 1 \in 1 .. Len(s) + 1 /\ m - 1 \in 1 - 1 .. Len(s) /\ m - 1 + 1 = m
          /\ Len(s) \in n .. Len(s) /\ Len(s) \in m - 1 .. Len(s)
      BY <1>2, <2>3
    <3>2. b \o c = SubSeq(s, m, Len(s))
      BY <3>1, ConcatAdjacentSubSeq
    <3>3. a \o SubSeq(s, m - 1 + 1, Len(s)) = SubSeq(s, 1, Len(s))
      BY <3>1, ConcatAdjacentSubSeq
    <3> QED BY <3>1, <3>2, <3>3, WholePart
  <2> HIDE DEF a, b, c
  <2>8. /\ Without(a, "sp") = <<>> /\ Without(c, "sp") = <<>>
        /\ b \o c \in Seq(S)
    BY <2>4, <2>5, <2>6, WithoutOfBlank, ConcatProperties
  <2>9. /\ Without(a \o (b \o c), "sp") = Without(a, "sp") \o Without(b \o c, "sp")
        /\ Without(b \o c, "sp") = Without(b, "sp") \o Without(c, "sp")
    <3>1. Without(a \o (b \o c), "sp") = Without(a, "sp") \o Without(b \o c, "sp")
      <4> DEFINE d == b \o c
      <4>1. d \in Seq(S) /\ a \in Seq(S)
        BY <2>4, <2>8
      <4> HIDE DEF d
      <4>2. Without(a \o d, "sp") = Without(a, "sp") \o Without(d, "sp")
        BY <4>1, WithoutConcat
      <4> QED BY <4>2 DEF d
    <3>2. Without(b \o c, "sp") = Without(b, "sp") \o Without(c, "sp")
      BY <2>5, <2>6, WithoutConcat
    <3> QED BY <3>1, <3>2
  <2>10. Without(b, "sp") \in Seq(S \ {"sp"})
    <3>1. PICK e \in S : TRUE
      <4>1. s[m] \in S
        BY <2>3, ElementOfSeq
      <4> QED BY <4>1
    <3>2. WithoutGrows(S, "sp", b, e)
      BY <2>5, WithoutAppend
    <3> QED BY <3>2 DEF WithoutGrows
  <2>11. /\ Without(b, "sp") \o <<>> = Without(b, "sp")
         /\ <<>> \o Without(b, "sp") = Without(b, "sp")
    BY <2>10, ConcatEmptySeq
  <2>12. Without(s, "sp") = Without(b, "sp")
    BY <2>7, <2>8, <2>9, <2>11
  <2> QED BY <1>1, <1>4, <2>12 DEF b
<1> QED BY <1>3, <1>4
=============================================================================
