---------------------------- MODULE MethodCallProofs ----------------------------
(***************************************************************************)
(* What holds of MethodCall for parameters of any number, size and depth.  *)
(***************************************************************************)
EXTENDS MethodCall, ProofLemmas

-------------------------------------------------------------------------------
(* Trees of objects *)

Below(h, k) == ToSet(h[k].items) \ {0}

\* Items are older than their owner.
Shaped(h) ==
  /\ DOMAIN h \subseteq Nat \ {0}
  /\ \E top \in Nat : \A k \in DOMAIN h : k <= top
  /\ \A k \in DOMAIN h : \A i \in Below(h, k) : i \in DOMAIN h /\ i < k

\* With an object the set has its items.
ClosedBelow(h, set) == \A k \in set : Below(h, k) \subseteq set

Trees(h) ==
  /\ Tree(h) \in [DOMAIN h -> SUBSET DOMAIN h]
  /\ \A k \in DOMAIN h :
       Tree(h)[k] = {k} \cup UNION {Tree(h)[i] : i \in Below(h, k)}

\* The function that Tree chooses exists.
LEMMA TreeExists ==
  ASSUME NEW h, Shaped(h)
  PROVE  Trees(h)
<1> DEFINE S == DOMAIN h
           V == SUBSET S
           rank == [k \in S |-> k]
           Grown(k, g) == {k} \cup UNION {g[i] : i \in Below(h, k)}
           F == [k \in S |-> [g \in [S -> V] |-> Grown(k, g)]]
<1>1. PICK top \in Nat : \A k \in S : k <= top
  BY DEF Shaped
<1>2. Ranks(rank, S, top)
  BY <1>1 DEF Ranks, Shaped
<1>3. \A k \in S : Below(h, k) \subseteq S /\ \A i \in Below(h, k) : i < k
  BY DEF Shaped
<1>4. \A k \in S : \A g \in [S -> V] : Grown(k, g) \in V
  BY <1>3
<1>5. F \in [S -> [[S -> V] -> V]]
  BY <1>4
<1>6. LooksBack(F, S, V, rank)
  <2>1. ASSUME NEW k \in S, NEW f \in [S -> V], NEW g \in [S -> V],
               \A j \in S : rank[j] < rank[k] => f[j] = g[j]
        PROVE  F[k][f] = F[k][g]
    <3>1. \A i \in Below(h, k) : f[i] = g[i]
      BY <1>3, <2>1
    <3>2. Grown(k, f) = Grown(k, g)
      BY <3>1
    <3> QED BY <3>2
  <2> QED BY <2>1 DEF LooksBack
<1>7. V # {}
  OBVIOUS
<1>8. \E f : Solves(f, F, S, V)
  <2> HIDE DEF S, V, rank, F
  <2> QED BY <1>2, <1>5, <1>6, <1>7, RankRecursion
<1>9. PICK f : Solves(f, F, S, V)
  BY <1>8
<1>10. f = [k \in S |-> Grown(k, f)]
  BY <1>9 DEF Solves
<1> DEFINE tree == CHOOSE t : t = [k \in DOMAIN h |->
                     {k} \cup UNION {t[i] : i \in ToSet(h[k].items) \ {0}}]
<1> DEFINE Is(g) == g = [k \in S |-> Grown(k, g)]
<1>11. Is(tree)
  BY <1>10 DEF Below
<1>12. Tree(h) = tree
  BY DEF Tree
<1> HIDE DEF tree, Is
<1> DEFINE t == Tree(h)
<1>13. Is(t)
  BY <1>11, <1>12
<1> USE DEF Is
<1>14. t \in [S -> V]
  <2> DEFINE T == {k \in S : t[k] \subseteq S}
  <2>1. rank \in [S -> Nat]
    BY DEF Shaped
  <2>2. ASSUME NEW k \in S, \A j \in S : rank[j] < rank[k] => j \in T
        PROVE  k \in T
    <3>1. \A i \in Below(h, k) : t[i] \subseteq S
      BY <1>3, <2>2
    <3>2. t[k] = Grown(k, t)
      BY <1>13
    <3> QED BY <3>1, <3>2
  <2>3. S \subseteq T
    <3> HIDE DEF S, T, rank
    <3> QED BY <2>1, <2>2, RankInduction
  <2> QED BY <1>13, <2>3
<1> QED BY <1>13, <1>14 DEF Trees

\* Every closed set with an object has all of its tree.
LEMMA TreeLeast ==
  ASSUME NEW h, Shaped(h), NEW set, ClosedBelow(h, set)
  PROVE  \A k \in DOMAIN h \cap set : Tree(h)[k] \subseteq set
<1> DEFINE S == DOMAIN h
           rank == [k \in S |-> k]
           T == {k \in S : k \in set => Tree(h)[k] \subseteq set}
<1>1. rank \in [S -> Nat]
  BY DEF Shaped
<1>2. ASSUME NEW k \in S, \A j \in S : rank[j] < rank[k] => j \in T
      PROVE  k \in T
  <2>1. \A i \in Below(h, k) : i \in S /\ rank[i] < rank[k]
    BY DEF Shaped
  <2>2. Tree(h)[k] = {k} \cup UNION {Tree(h)[i] : i \in Below(h, k)}
    BY TreeExists DEF Trees
  <2>3. ASSUME k \in set PROVE Tree(h)[k] \subseteq set
    <3>1. Below(h, k) \subseteq set
      BY <2>3 DEF ClosedBelow
    <3>2. \A i \in Below(h, k) : Tree(h)[i] \subseteq set
      BY <1>2, <2>1, <3>1
    <3> QED BY <2>2, <2>3, <3>2
  <2> QED BY <2>3
<1>3. S \subseteq T
  <2> HIDE DEF S, T, rank
  <2> QED BY <1>1, <1>2, RankInduction
<1> QED BY <1>3

LEMMA TreeClosed ==
  ASSUME NEW h, Shaped(h)
  PROVE  \A k \in DOMAIN h : ClosedBelow(h, Tree(h)[k])
<1> DEFINE S == DOMAIN h
           rank == [k \in S |-> k]
           T == {k \in S : ClosedBelow(h, Tree(h)[k])}
<1>1. rank \in [S -> Nat]
  BY DEF Shaped
<1>2. ASSUME NEW k \in S, \A j \in S : rank[j] < rank[k] => j \in T
      PROVE  k \in T
  <2>1. \A i \in Below(h, k) : i \in S /\ rank[i] < rank[k]
    BY DEF Shaped
  <2>2. Tree(h)[k] = {k} \cup UNION {Tree(h)[i] : i \in Below(h, k)}
    BY TreeExists DEF Trees
  <2>0. \A i \in S : i \in Tree(h)[i]
    BY TreeExists DEF Trees
  <2>3. \A i \in Below(h, k) : ClosedBelow(h, Tree(h)[i]) /\ i \in Tree(h)[i]
    BY <1>2, <2>0, <2>1
  <2>4. ASSUME NEW j \in Tree(h)[k] PROVE Below(h, j) \subseteq Tree(h)[k]
    <3>1. CASE j = k
      BY <2>2, <2>3, <3>1
    <3>2. CASE \E i \in Below(h, k) : j \in Tree(h)[i]
      BY <2>2, <2>3, <3>2 DEF ClosedBelow
    <3> QED BY <2>2, <3>1, <3>2
  <2> QED BY <2>4 DEF ClosedBelow
<1>3. S \subseteq T
  <2> HIDE DEF S, T, rank
  <2> QED BY <1>1, <1>2, RankInduction
<1> QED BY <1>3

\* What the objects ids own: themselves, what is below, and nothing else.
Owning(h, ids, owned) ==
  /\ ids \ {0} \subseteq owned
  /\ owned \subseteq DOMAIN h
  /\ ClosedBelow(h, owned)
  /\ \A i \in owned : i \in ids \/ \E j \in owned : i \in Below(h, j)

LEMMA OwnedLeast ==
  ASSUME NEW h, Shaped(h), NEW ids, ids \ {0} \subseteq DOMAIN h,
         NEW set, ids \ {0} \subseteq set, ClosedBelow(h, set)
  PROVE  Owned(h, ids) \subseteq set
BY TreeLeast DEF Owned

LEMMA OwnedOwns ==
  ASSUME NEW h, Shaped(h), NEW ids, ids \ {0} \subseteq DOMAIN h
  PROVE  Owning(h, ids, Owned(h, ids))
<1> DEFINE owned == Owned(h, ids)
           based == {i \in owned : i \in ids \/ \E j \in owned : i \in Below(h, j)}
<1>1. ids \ {0} \subseteq owned /\ owned \subseteq DOMAIN h
  BY TreeExists DEF Trees, Owned
<1>2. ClosedBelow(h, owned)
  BY TreeClosed DEF Owned, ClosedBelow
<1>3. ids \ {0} \subseteq based
  BY <1>1
<1>4. ClosedBelow(h, based)
  BY <1>2 DEF ClosedBelow
<1>5. owned \subseteq based
  <2> HIDE DEF based, owned
  <2> QED BY <1>3, <1>4, OwnedLeast DEF owned
<1> QED BY <1>1, <1>2, <1>5 DEF Owning

\* A heap with the same objects, and perhaps more, has the same trees.
Extends(g, h) ==
  DOMAIN h \subseteq DOMAIN g /\ \A k \in DOMAIN h : g[k].items = h[k].items

LEMMA OwnedSame ==
  ASSUME NEW h, Shaped(h), NEW g, Shaped(g), Extends(g, h),
         NEW ids, ids \ {0} \subseteq DOMAIN h
  PROVE  Owned(g, ids) = Owned(h, ids)
<1>1. ids \ {0} \subseteq DOMAIN g
  BY DEF Extends
<1>2. Owning(h, ids, Owned(h, ids)) /\ Owning(g, ids, Owned(g, ids))
  BY <1>1, OwnedOwns
<1>3. \A k \in DOMAIN h : Below(g, k) = Below(h, k)
  BY DEF Extends, Below
<1>4. ClosedBelow(g, Owned(h, ids))
  BY <1>2, <1>3 DEF Owning, ClosedBelow
<1>5. Owned(g, ids) \subseteq Owned(h, ids)
  BY <1>1, <1>2, <1>4, OwnedLeast DEF Owning
<1>6. ClosedBelow(h, Owned(g, ids))
  BY <1>2, <1>3, <1>5 DEF Owning, ClosedBelow
<1>7. Owned(h, ids) \subseteq Owned(g, ids)
  BY <1>2, <1>6, OwnedLeast DEF Owning
<1> QED BY <1>5, <1>7

SingleOwner(h) ==
  \A k \in DOMAIN h : \A l \in DOMAIN h \ {k} : Below(h, k) \cap Below(h, l) = {}

Ownerless(h, ids) == \A k \in DOMAIN h : Below(h, k) \cap ids = {}

\* Where nothing has two owners, objects without owners have nothing in common.
LEMMA TreesApart ==
  ASSUME NEW h, Shaped(h), SingleOwner(h),
         NEW ids, ids \ {0} \subseteq DOMAIN h, Ownerless(h, ids),
         NEW others, others \ {0} \subseteq DOMAIN h, Ownerless(h, others),
         ids \cap others \subseteq {0}
  PROVE  Owned(h, ids) \cap Owned(h, others) = {}
<1> DEFINE apart == Owned(h, ids) \ Owned(h, others)
<1>1. Owning(h, ids, Owned(h, ids)) /\ Owning(h, others, Owned(h, others))
  BY OwnedOwns
<1>2. ids \ {0} \subseteq apart
  BY <1>1 DEF Owning, Ownerless
<1>3. ClosedBelow(h, apart)
  <2>1. ASSUME NEW k \in apart, NEW i \in Below(h, k) PROVE i \in apart
    <3>1. i \in Owned(h, ids)
      BY <1>1, <2>1 DEF Owning, ClosedBelow
    <3>2. k \in DOMAIN h
      BY <1>1 DEF Owning
    <3>3. ASSUME i \in Owned(h, others) PROVE FALSE
      <4>1. i \notin others
        BY <2>1, <3>2 DEF Ownerless
      <4>2. PICK j \in Owned(h, others) : i \in Below(h, j)
        BY <1>1, <3>3, <4>1 DEF Owning
      <4>3. j \in DOMAIN h /\ j # k
        BY <1>1 DEF Owning
      <4> QED BY <2>1, <3>2, <4>2, <4>3 DEF SingleOwner
    <3> QED BY <3>1, <3>3
  <2> QED BY <2>1 DEF ClosedBelow
<1>4. Owned(h, ids) \subseteq apart
  <2> HIDE DEF apart
  <2> QED BY <1>2, <1>3, OwnedLeast
<1> QED BY <1>4

-------------------------------------------------------------------------------
(* Null pointers *)

NullBelow(h, k) == 0 \in ToSet(h[k].items)

Reaching(h) ==
  /\ ReachesNull(h)[0]
  /\ \A k \in DOMAIN h :
       ReachesNull(h)[k] <=> \/ NullBelow(h, k)
                             \/ \E i \in Below(h, k) : ReachesNull(h)[i]

LEMMA ReachingExists ==
  ASSUME NEW h, Shaped(h)
  PROVE  Reaching(h)
<1> DEFINE S == {0} \cup DOMAIN h
           rank == [k \in S |-> k]
           Reach(k, g) == k = 0 \/ \E i \in ToSet(h[k].items) : g[i]
           F == [k \in S |-> [g \in [S -> BOOLEAN] |-> Reach(k, g)]]
<1>1. PICK top \in Nat : \A k \in DOMAIN h : k <= top
  BY DEF Shaped
<1>2. Ranks(rank, S, top)
  BY <1>1 DEF Ranks, Shaped
<1>3. \A k \in DOMAIN h : \A i \in ToSet(h[k].items) : i \in S /\ i < k
  BY DEF Shaped, Below
<1>4. F \in [S -> [[S -> BOOLEAN] -> BOOLEAN]]
  OBVIOUS
<1>5. LooksBack(F, S, BOOLEAN, rank)
  <2>1. ASSUME NEW k \in S, NEW f \in [S -> BOOLEAN], NEW g \in [S -> BOOLEAN],
               \A j \in S : rank[j] < rank[k] => f[j] = g[j]
        PROVE  F[k][f] = F[k][g]
    <3>1. CASE k = 0
      BY <3>1
    <3>2. CASE k # 0
      <4>1. \A i \in ToSet(h[k].items) : f[i] = g[i]
        BY <1>3, <2>1, <3>2
      <4>2. Reach(k, f) <=> Reach(k, g)
        BY <4>1
      <4> QED BY <4>2
    <3> QED BY <3>1, <3>2
  <2> QED BY <2>1 DEF LooksBack
<1>6. \E f : Solves(f, F, S, BOOLEAN)
  <2>1. BOOLEAN # {}
    OBVIOUS
  <2> HIDE DEF S, rank, F
  <2> QED BY <1>2, <1>4, <1>5, <2>1, RankRecursion
<1>7. PICK f : Solves(f, F, S, BOOLEAN)
  BY <1>6
<1>8. f = [k \in S |-> Reach(k, f)]
  BY <1>7 DEF Solves
<1> DEFINE reaches == CHOOSE r : r = [k \in {0} \cup DOMAIN h |->
                        k = 0 \/ \E i \in ToSet(h[k].items) : r[i]]
           Is(g) == g = [k \in S |-> Reach(k, g)]
<1>9. Is(reaches)
  BY <1>8
<1>10. ReachesNull(h) = reaches
  BY DEF ReachesNull
<1> HIDE DEF reaches, Is
<1>11. Is(ReachesNull(h))
  BY <1>9, <1>10
<1>12. /\ ReachesNull(h)[0]
       /\ \A k \in DOMAIN h : k # 0 =>
            (ReachesNull(h)[k] <=> \E i \in ToSet(h[k].items) : ReachesNull(h)[i])
  BY <1>11 DEF Is
<1> QED BY <1>12 DEF Reaching, NullBelow, Below, Shaped

\* What the log reads is what can be read.
LEMMA NullReached ==
  ASSUME NEW h, Shaped(h)
  PROVE  \A k \in {0} \cup DOMAIN h : ReachesNull(h)[k] <=> ~Dumps(h, k)
<1> DEFINE S == DOMAIN h
           rank == [k \in S |-> k]
           Null(k) == \E j \in Tree(h)[k] : NullBelow(h, j)
           T == {k \in S : ReachesNull(h)[k] <=> Null(k)}
<1>1. rank \in [S -> Nat]
  BY DEF Shaped
<1>2. ASSUME NEW k \in S, \A j \in S : rank[j] < rank[k] => j \in T
      PROVE  k \in T
  <2>1. \A i \in Below(h, k) : ReachesNull(h)[i] <=> Null(i)
    BY <1>2 DEF Shaped
  <2>2. Tree(h)[k] = {k} \cup UNION {Tree(h)[i] : i \in Below(h, k)}
    BY TreeExists DEF Trees
  <2>3. Null(k) <=> NullBelow(h, k) \/ \E i \in Below(h, k) : Null(i)
    BY <2>2
  <2>4. ReachesNull(h)[k] <=> NullBelow(h, k) \/ \E i \in Below(h, k) : ReachesNull(h)[i]
    BY ReachingExists DEF Reaching
  <2> QED BY <2>1, <2>3, <2>4
<1>3. S \subseteq T
  <2> HIDE DEF S, T, rank
  <2> QED BY <1>1, <1>2, RankInduction
<1>4. \A k \in S : Dumps(h, k) <=> ~Null(k)
  BY DEF Dumps, Owned, NullBelow, Shaped
<1>5. ReachesNull(h)[0] /\ ~Dumps(h, 0)
  BY ReachingExists DEF Reaching, Dumps
<1> QED BY <1>3, <1>4, <1>5

-------------------------------------------------------------------------------
(* Owners *)

Distinct(seq) == \A i, j \in DOMAIN seq : seq[i] = seq[j] /\ seq[i] # 0 => i = j

LEMMA SetOfConcat ==
  ASSUME NEW S, NEW s \in Seq(S), NEW t \in Seq(S)
  PROVE  ToSet(s \o t) = ToSet(s) \cup ToSet(t)
<1>1. ASSUME NEW i \in DOMAIN s PROVE s[i] \in ToSet(s \o t)
  <2>1. i \in DOMAIN (s \o t) /\ (s \o t)[i] = s[i]
    OBVIOUS
  <2> QED BY <2>1 DEF ToSet
<1>2. ASSUME NEW i \in DOMAIN t PROVE t[i] \in ToSet(s \o t)
  <2>1. Len(s) + i \in DOMAIN (s \o t) /\ (s \o t)[Len(s) + i] = t[i]
    OBVIOUS
  <2> QED BY <2>1 DEF ToSet
<1>3. ASSUME NEW i \in DOMAIN (s \o t) PROVE (s \o t)[i] \in ToSet(s) \cup ToSet(t)
  <2>1. CASE i <= Len(s)
    BY <2>1 DEF ToSet
  <2>2. CASE i > Len(s)
    <3>1. i - Len(s) \in DOMAIN t /\ (s \o t)[i] = t[i - Len(s)]
      BY <2>2
    <3> QED BY <3>1 DEF ToSet
  <2> QED BY <2>1, <2>2
<1> QED BY <1>1, <1>2, <1>3 DEF ToSet

LEMMA DistinctConcat ==
  ASSUME NEW S, NEW s \in Seq(S), NEW t \in Seq(S)
  PROVE  Distinct(s \o t) <=> /\ Distinct(s) /\ Distinct(t)
                              /\ ToSet(s) \cap ToSet(t) \subseteq {0}
<1> DEFINE st == s \o t
<1>1. /\ \A i \in DOMAIN s : i \in DOMAIN st /\ st[i] = s[i]
      /\ \A i \in DOMAIN t : Len(s) + i \in DOMAIN st /\ st[Len(s) + i] = t[i]
      /\ \A i \in DOMAIN st : \/ i \in DOMAIN s
                              \/ i - Len(s) \in DOMAIN t /\ st[i] = t[i - Len(s)]
  OBVIOUS
<1>2. DOMAIN s = 1 .. Len(s) /\ DOMAIN t = 1 .. Len(t) /\ DOMAIN st \subseteq Nat
      /\ Len(s) \in Nat
  OBVIOUS
<1>3. ASSUME Distinct(st)
      PROVE  Distinct(s) /\ Distinct(t) /\ ToSet(s) \cap ToSet(t) \subseteq {0}
  <2>1. Distinct(s)
    BY <1>1, <1>3 DEF Distinct
  <2>2. ASSUME NEW i \in DOMAIN t, NEW j \in DOMAIN t, t[i] = t[j], t[i] # 0
        PROVE  i = j
    <3>1. Len(s) + i = Len(s) + j
      BY <1>1, <1>3, <2>2 DEF Distinct
    <3> QED BY <1>2, <3>1
  <2>3. ASSUME NEW i \in DOMAIN s, NEW j \in DOMAIN t, s[i] = t[j] PROVE s[i] = 0
    <3>1. s[i] # 0 => i = Len(s) + j
      BY <1>1, <1>3, <2>3 DEF Distinct
    <3> QED BY <1>2, <3>1
  <2> QED BY <2>1, <2>2, <2>3 DEF ToSet, Distinct
<1>4. ASSUME Distinct(s), Distinct(t), ToSet(s) \cap ToSet(t) \subseteq {0}
      PROVE  Distinct(st)
  <2>1. \A i \in DOMAIN s, j \in DOMAIN t : s[i] = t[j] => s[i] = 0
    BY <1>4 DEF ToSet
  <2>2. ASSUME NEW i \in DOMAIN st, NEW j \in DOMAIN st, st[i] = st[j], st[i] # 0
        PROVE  i = j
    <3> HIDE DEF st
    <3>1. CASE i \in DOMAIN s /\ j \in DOMAIN s
      BY <1>1, <1>4, <2>2, <3>1 DEF Distinct
    <3>2. CASE i \in DOMAIN s /\ j \notin DOMAIN s
      BY <1>1, <2>1, <2>2, <3>2
    <3>3. CASE i \notin DOMAIN s /\ j \in DOMAIN s
      BY <1>1, <2>1, <2>2, <3>3
    <3>4. CASE i \notin DOMAIN s /\ j \notin DOMAIN s
      <4>1. i - Len(s) = j - Len(s)
        BY <1>1, <1>4, <2>2, <3>4 DEF Distinct
      <4> QED BY <1>2, <4>1
    <3> QED BY <3>1, <3>2, <3>3, <3>4
  <2> QED BY <2>2 DEF Distinct
<1> QED BY <1>3, <1>4

\* Heap h with the objects m that Walk has made, the parameters p and the lost
\* objects l: what all of them point to is there.
Fits(h, m, p, l) ==
  /\ Shaped(h)
  /\ m \in Seq(Nat) /\ p \in Seq(Nat)
  /\ ToSet(m) \cup ToSet(p) \subseteq {0} \cup DOMAIN h
  /\ l \subseteq DOMAIN h

Roots(m, p, l) == ToSet(m) \cup ToSet(p) \cup l

\* OneOwner in parts.
Owners(h, m, p, l) ==
  /\ \A k \in DOMAIN h : Distinct(h[k].items)
  /\ Ownerless(h, Roots(m, p, l))
  /\ SingleOwner(h)
  /\ Distinct(m) /\ Distinct(p) /\ ToSet(m) \cap ToSet(p) \subseteq {0}
  /\ ToSet(m) \cap l = {} /\ ToSet(p) \cap l = {}

\* Nothing is forgotten.
Rooted(h, m, p, l) == DOMAIN h \subseteq Owned(h, Roots(m, p, l))

Sound(h, m, p, l) == Fits(h, m, p, l) /\ Owners(h, m, p, l) /\ Rooted(h, m, p, l)

\* The items of a new object are those taken, but for null pointers and gone.
Takes(items, taken, gone) ==
  /\ items \in Seq(Nat) /\ Distinct(items)
  /\ ToSet(items) \subseteq ToSet(taken) \cup {0}
  /\ gone \subseteq ToSet(taken) \ {0}
  /\ ToSet(items) \cap gone = {}
  /\ ToSet(taken) \subseteq ToSet(items) \cup gone \cup {0}

LEMMA LastAndRest ==
  ASSUME NEW S, NEW m \in Seq(S), NEW k \in 0 .. Len(m)
  PROVE  /\ LastOf(m, k) \in Seq(S) /\ Len(LastOf(m, k)) = k
         /\ SubSeq(m, 1, Len(m) - k) \in Seq(S)
         /\ m = SubSeq(m, 1, Len(m) - k) \o LastOf(m, k)
<1> DEFINE a == SubSeq(m, 1, Len(m) - k)
           b == LastOf(m, k)
<1>1. /\ b \in Seq(S) /\ Len(b) = k
      /\ \A i \in 1 .. k : b[i] = m[Len(m) - k + i]
  BY PartProperties DEF LastOf
<1>2. /\ a \in Seq(S) /\ Len(a) = Len(m) - k
      /\ \A i \in 1 .. Len(m) - k : a[i] = m[i]
  BY PartProperties
<1> HIDE DEF a, b
<1>0. Len(m) \in Nat /\ k \in Nat /\ Len(m) - k \in Nat
  OBVIOUS
<1>3. /\ a \o b \in Seq(S) /\ Len(a \o b) = Len(a) + Len(b)
      /\ \A i \in 1 .. Len(a) + Len(b) :
           (a \o b)[i] = IF i <= Len(a) THEN a[i] ELSE b[i - Len(a)]
  BY <1>1, <1>2, ConcatProperties
<1>4. ASSUME NEW i \in 1 .. Len(m) PROVE (a \o b)[i] = m[i]
  <2>1. Len(a) = Len(m) - k /\ Len(b) = k
    BY <1>1, <1>2
  <2>2. i \in 1 .. Len(a) + Len(b) /\ i \in Int
    BY <1>0, <2>1
  <2>3. CASE i <= Len(a)
    <3>1. (a \o b)[i] = a[i] /\ i \in 1 .. Len(m) - k
      BY <1>0, <1>3, <2>1, <2>2, <2>3
    <3> QED BY <1>2, <3>1
  <2>4. CASE ~(i <= Len(a))
    <3>1. (a \o b)[i] = b[i - Len(a)] /\ i - Len(a) \in 1 .. k
      BY <1>0, <1>3, <2>1, <2>2, <2>4
    <3>2. Len(m) - k + (i - Len(a)) = i
      BY <1>0, <2>1, <2>2
    <3> QED BY <1>1, <3>1, <3>2
  <2> QED BY <2>3, <2>4
<1>5. m = a \o b
  <2>1. Len(a \o b) = Len(m)
    BY <1>0, <1>1, <1>2, <1>3
  <2> QED BY <1>3, <1>4, <2>1, SeqEqual
<1> QED BY <1>1, <1>2, <1>5 DEF a, b

\* Walk makes one object more, which takes the last of those made.
LEMMA AddObject ==
  ASSUME NEW h \in Seq(Object), NEW m, NEW p, NEW l, Sound(h, m, p, l),
         NEW k \in 0 .. Len(m), NEW o \in Object, NEW gone,
         Takes(o.items, LastOf(m, k), gone)
  PROVE  Sound(Append(h, o), Append(SubSeq(m, 1, Len(m) - k), Len(h) + 1), p, l \cup gone)
<1> DEFINE n == Len(h)
           g == Append(h, o)
           front == SubSeq(m, 1, Len(m) - k)
           last == LastOf(m, k)
           m2 == Append(front, n + 1)
           l2 == l \cup gone
<1>1. /\ n \in Nat /\ DOMAIN h = 1 .. n /\ DOMAIN g = 1 .. n + 1
      /\ g[n + 1] = o /\ \A i \in 1 .. n : g[i] = h[i]
  OBVIOUS
<1>2. /\ Shaped(h) /\ m \in Seq(Nat) /\ p \in Seq(Nat)
      /\ ToSet(m) \cup ToSet(p) \subseteq 0 .. n
      /\ l \subseteq 1 .. n
  BY <1>1 DEF Sound, Fits
<1>3. /\ last \in Seq(Nat) /\ front \in Seq(Nat) /\ m = front \o last
  BY <1>2, LastAndRest
<1>4. ToSet(m) = ToSet(front) \cup ToSet(last)
  <2> HIDE DEF front, last
  <2> QED BY <1>3, SetOfConcat
<1>5. ToSet(m2) = ToSet(front) \cup {n + 1} /\ m2 \in Seq(Nat)
  <2> DEFINE one == <<n + 1>>
  <2>1. one \in Seq(Nat) /\ m2 = front \o one /\ ToSet(one) = {n + 1}
    BY <1>1, <1>3 DEF ToSet
  <2> HIDE DEF one, m2, front
  <2>2. ToSet(front \o one) = ToSet(front) \cup ToSet(one) /\ front \o one \in Seq(Nat)
    BY <1>3, <2>1, SetOfConcat
  <2> QED BY <2>1, <2>2
<1>6. Distinct(front) /\ Distinct(last) /\ ToSet(front) \cap ToSet(last) \subseteq {0}
  <2> HIDE DEF front, last
  <2> QED BY <1>3, DistinctConcat DEF Sound, Owners
<1>7. /\ ToSet(o.items) \subseteq ToSet(last) \cup {0} /\ gone \subseteq ToSet(last) \ {0}
      /\ ToSet(o.items) \cap gone = {} /\ Distinct(o.items)
      /\ ToSet(last) \subseteq ToSet(o.items) \cup gone \cup {0}
  BY DEF Takes
<1> HIDE DEF n, g, front, last, m2
<1>8. /\ \A i \in 1 .. n : Below(g, i) = Below(h, i) /\ Below(h, i) \subseteq 1 .. i - 1
      /\ Below(g, n + 1) = ToSet(o.items) \ {0}
      /\ Below(g, n + 1) \subseteq 1 .. n
  <2>1. \A i \in 1 .. n : Below(g, i) = Below(h, i)
    BY <1>1 DEF Below
  <2>2. \A i \in 1 .. n : Below(h, i) \subseteq 1 .. i - 1
    <3>1. \A i \in 1 .. n : \A j \in Below(h, i) : j \in 1 .. n /\ j < i
      BY <1>1, <1>2 DEF Shaped
    <3>2. \A i, j \in 1 .. n : j < i => j \in 1 .. i - 1
      BY <1>1
    <3> QED BY <3>1, <3>2
  <2>3. Below(g, n + 1) = ToSet(o.items) \ {0}
    BY <1>1 DEF Below
  <2> QED BY <1>2, <1>4, <1>7, <2>1, <2>2, <2>3
<1>9. Shaped(g)
  <2>1. DOMAIN g \subseteq Nat \ {0} /\ \E top \in Nat : \A i \in DOMAIN g : i <= top
    BY <1>1
  <2> QED BY <1>1, <1>8, <2>1 DEF Shaped
<1>10. Fits(g, m2, p, l2)
  <2>1. ToSet(m2) \subseteq {0} \cup 1 .. n + 1 /\ l2 \subseteq 1 .. n + 1
    <3>1. 0 .. n \subseteq {0} \cup 1 .. n + 1 /\ 1 .. n \subseteq 1 .. n + 1
          /\ n + 1 \in 1 .. n + 1 /\ 0 .. n \ {0} \subseteq 1 .. n
      BY <1>1
    <3>2. ToSet(front) \subseteq 0 .. n /\ gone \subseteq 1 .. n
      BY <1>2, <1>4, <1>7, <3>1
    <3> QED BY <1>2, <1>5, <3>1, <3>2
  <2>2. ToSet(p) \subseteq {0} \cup 1 .. n + 1
    BY <1>1, <1>2
  <2> QED BY <1>1, <1>2, <1>5, <1>9, <2>1, <2>2 DEF Fits
<1>11. Owners(g, m2, p, l2)
  <2>1. \A i \in DOMAIN g : Distinct(g[i].items)
    BY <1>1, <1>7 DEF Sound, Owners
  <2>2. \A i \in 1 .. n : Below(h, i) \cap (ToSet(m) \cup ToSet(p) \cup l) = {}
    BY <1>1 DEF Sound, Owners, Ownerless, Roots
  <2>3. Ownerless(g, Roots(m2, p, l2))
    <3>1. ASSUME NEW i \in 1 .. n PROVE Below(g, i) \cap Roots(m2, p, l2) = {}
      BY <1>1, <1>4, <1>5, <1>7, <1>8, <2>2 DEF Roots
    <3>2. Below(g, n + 1) \cap Roots(m2, p, l2) = {}
      <4>1. ToSet(o.items) \cap ToSet(front) \subseteq {0}
        BY <1>6, <1>7
      <4>2. /\ ToSet(o.items) \cap ToSet(p) \subseteq {0}
            /\ ToSet(o.items) \cap l \subseteq {0}
        BY <1>4, <1>7 DEF Sound, Owners
      <4>3. n + 1 \notin Below(g, n + 1)
        BY <1>1, <1>8
      <4>4. Below(g, n + 1) \subseteq ToSet(o.items) \ {0} /\ ToSet(o.items) \cap gone = {}
        BY <1>7, <1>8
      <4>5. Roots(m2, p, l2) = ToSet(front) \cup {n + 1} \cup ToSet(p) \cup l \cup gone
        BY <1>5 DEF Roots
      <4> QED BY <4>1, <4>2, <4>3, <4>4, <4>5
    <3>3. \A i \in DOMAIN g : i \in 1 .. n \/ i = n + 1
      BY <1>1
    <3> QED BY <3>1, <3>2, <3>3 DEF Ownerless
  <2>4. SingleOwner(g)
    <3>1. \A i \in 1 .. n : Below(g, i) \cap Below(g, n + 1) = {}
      BY <1>4, <1>7, <1>8, <2>2
    <3>2. \A i \in 1 .. n : \A j \in 1 .. n \ {i} : Below(g, i) \cap Below(g, j) = {}
      BY <1>1, <1>8 DEF Sound, Owners, SingleOwner
    <3> QED BY <1>1, <3>1, <3>2 DEF SingleOwner
  <2>5. Distinct(m2)
    <3>1. n + 1 \notin ToSet(front)
      BY <1>1, <1>2, <1>4
    <3> DEFINE one == <<n + 1>>
    <3>2. n + 1 \in Nat /\ m2 = front \o one
      BY <1>1, <1>3 DEF m2
    <3>3. one \in Seq(Nat) /\ ToSet(one) = {n + 1} /\ Distinct(one)
      BY <3>2 DEF ToSet, Distinct
    <3> HIDE DEF one
    <3>4. one \in Seq(Nat) /\ m2 = front \o one /\ ToSet(one) = {n + 1} /\ Distinct(one)
      BY <3>2, <3>3
    <3> QED BY <1>3, <1>6, <3>1, <3>4, DistinctConcat
  <2>6. /\ ToSet(m2) \cap ToSet(p) \subseteq {0} /\ ToSet(m2) \cap l2 = {}
        /\ ToSet(p) \cap l2 = {} /\ Distinct(p)
    <3>1. /\ ToSet(m) \cap ToSet(p) \subseteq {0} /\ ToSet(m) \cap l = {}
          /\ ToSet(p) \cap l = {} /\ Distinct(p)
      BY DEF Sound, Owners
    <3> QED BY <1>1, <1>2, <1>4, <1>5, <1>6, <1>7, <3>1
  <2> QED BY <2>1, <2>3, <2>4, <2>5, <2>6 DEF Owners
<1>12. Rooted(g, m2, p, l2)
  <2> DEFINE ids == Roots(m, p, l)
             ids2 == Roots(m2, p, l2)
             all == Owned(g, ids2)
             old == all \cap 1 .. n
  <2>1. /\ ids = ToSet(front) \cup ToSet(last) \cup ToSet(p) \cup l
        /\ ids2 = ToSet(front) \cup {n + 1} \cup ToSet(p) \cup l \cup gone
    BY <1>4, <1>5 DEF Roots
  <2>2. ids \ {0} \subseteq 1 .. n /\ ids2 \ {0} \subseteq 1 .. n + 1
    <3>1. 0 .. n \ {0} \subseteq 1 .. n /\ {n + 1} \cup 1 .. n \subseteq 1 .. n + 1
      BY <1>1
    <3>2. ids \ {0} \subseteq 1 .. n
      BY <1>2, <1>4, <2>1, <3>1
    <3>3. ids2 \subseteq ids \cup {n + 1}
      BY <1>7, <2>1
    <3> HIDE DEF ids, ids2
    <3> QED BY <3>1, <3>2, <3>3
  <2>3. DOMAIN h \subseteq Owned(h, ids)
    BY DEF Sound, Rooted
  <2> HIDE DEF ids, ids2
  <2>4. Owning(g, ids2, all)
    BY <1>1, <1>9, <2>2, OwnedOwns
  <2> HIDE DEF all
  <2>5. n + 1 \in all
    BY <1>1, <2>1, <2>4 DEF Owning
  <2>6. ToSet(o.items) \ {0} \subseteq all
    BY <1>8, <2>4, <2>5 DEF Owning, ClosedBelow
  <2>7. ids \ {0} \subseteq all
    BY <1>7, <2>1, <2>4, <2>6 DEF Owning
  <2>8. ClosedBelow(h, old)
    <3>1. \A i \in 1 .. n : Below(h, i) \subseteq 1 .. n
      BY <1>1, <1>2 DEF Shaped
    <3> QED BY <1>8, <2>4, <3>1 DEF Owning, ClosedBelow
  <2>9. ids \ {0} \subseteq old
    BY <2>2, <2>7
  <2>10. Owned(h, ids) \subseteq old
    <3> HIDE DEF old
    <3> QED BY <1>1, <1>2, <2>2, <2>8, <2>9, OwnedLeast
  <2>11. 1 .. n + 1 \subseteq all
    BY <1>1, <2>3, <2>5, <2>10
  <2> QED BY <1>1, <2>11 DEF Rooted, all, ids2
<1> QED BY <1>10, <1>11, <1>12 DEF Sound, n, g, front, m2

-------------------------------------------------------------------------------
(* The objects of DuplicateParameter's answer *)

\* The heap before a call that the functions can read.
Ready ==
  /\ TypeOK
  /\ heap \in Seq(Object) /\ \A k \in DOMAIN heap : heap[k].frees = 0
  /\ params \in Seq(Nat) /\ Sound(heap, <<>>, params, lost)
  /\ Readable

Copied == Owned(heap, ToSet(params))

LEMMA CopiedIsRead ==
  ASSUME Ready
  PROVE  /\ Owning(heap, ToSet(params), Copied)
         /\ 0 \notin ToSet(params) /\ ToSet(params) \subseteq Copied
         /\ DOMAIN heap = 1 .. Len(heap) /\ Len(heap) \in Nat
         /\ Copied \subseteq 1 .. Len(heap)
         /\ \A j \in Copied : /\ 0 \notin ToSet(heap[j].items)
                              /\ ToSet(heap[j].items) \subseteq Copied
                              /\ \A i \in ToSet(heap[j].items) : i < j
<1>1. Owning(heap, ToSet(params), Copied)
  BY OwnedOwns DEF Ready, Sound, Fits, Copied
<1>2. \A i \in ToSet(params) : Dumps(heap, i)
  BY DEF Ready, Readable, ToSet
<1>3. 0 \notin ToSet(params)
  BY <1>2 DEF Dumps
<1>4. \A j \in Copied : 0 \notin ToSet(heap[j].items)
  BY <1>2 DEF Dumps, Copied, Owned
<1>5. DOMAIN heap = 1 .. Len(heap) /\ Len(heap) \in Nat
  BY DEF Ready
<1>6. Copied \subseteq DOMAIN heap /\ ToSet(params) \subseteq Copied
  BY <1>1, <1>3 DEF Owning
<1>7. \A j \in Copied : /\ ToSet(heap[j].items) \subseteq Copied
                        /\ \A i \in ToSet(heap[j].items) : i < j
  <2>1. \A j \in Copied : Below(heap, j) = ToSet(heap[j].items)
    BY <1>4 DEF Below
  <2>2. \A j \in DOMAIN heap : \A i \in Below(heap, j) : i < j
    BY DEF Ready, Sound, Fits, Shaped
  <2> QED BY <1>1, <1>6, <2>1, <2>2 DEF Owning, ClosedBelow
<1> QED BY <1>1, <1>3, <1>4, <1>5, <1>6, <1>7

\* WithResults, object by object.
IsWithResults(h, junk) ==
  LET n == Len(heap)
  IN  /\ DOMAIN h = 1 .. n \cup {n + j : j \in Copied} \cup {2 * n + j : j \in Copied}
                      \cup 3 * n + 1 .. 3 * n + 9
      /\ \A k \in 1 .. n : h[k] = heap[k]
      /\ \A j \in Copied : /\ h[n + j] = Copy(heap[j], n, FALSE, junk)
                           /\ h[2 * n + j] = Copy(heap[j], 2 * n, TRUE, junk)
      /\ \A i \in 1 .. 9 : h[3 * n + i] = Made(n)[i]

LEMMA WithResultsIs ==
  ASSUME Ready, NEW junk
  PROVE  IsWithResults(WithResults(junk), junk)
<1> DEFINE n == Len(heap)
           h == WithResults(junk)
           one == {n + j : j \in Copied}
           two == {2 * n + j : j \in Copied}
           dom == 1 .. n \cup one \cup two \cup 3 * n + 1 .. 3 * n + 9
           Value(k) ==
             CASE k \in 1 .. n -> heap[k]
               [] k \in one -> Copy(heap[k - n], n, FALSE, junk)
               [] k \in two -> Copy(heap[k - 2 * n], 2 * n, TRUE, junk)
               [] k > 3 * n -> Made(n)[k - 3 * n]
<1>1. n \in Nat /\ Copied \subseteq 1 .. n /\ DOMAIN heap = 1 .. n
  BY CopiedIsRead
<1>2. h = [k \in dom |-> Value(k)]
  BY <1>1 DEF WithResults, Copied
<1> HIDE DEF h, n
<1>3. /\ \A k \in one : k \in n + 1 .. 2 * n /\ k \in Int
      /\ \A k \in two : k \in 2 * n + 1 .. 3 * n /\ k \in Int
  BY <1>1
<1>4. \A k \in 1 .. n : h[k] = heap[k]
  <2>1. \A k \in 1 .. n : k \notin one /\ k \notin two /\ ~(k > 3 * n)
    BY <1>1, <1>3
  <2> HIDE DEF one, two
  <2> QED BY <1>2, <2>1
<1>5. ASSUME NEW j \in Copied PROVE h[n + j] = Copy(heap[j], n, FALSE, junk)
  <2> DEFINE k == n + j
  <2>1. k \in one /\ k \notin 1 .. n /\ k \notin two /\ ~(k > 3 * n) /\ k - n = j
    BY <1>1, <1>3
  <2> HIDE DEF one, two, k
  <2>2. h[k] = Copy(heap[k - n], n, FALSE, junk)
    BY <1>2, <2>1
  <2> QED BY <2>1, <2>2 DEF k
<1>6. ASSUME NEW j \in Copied PROVE h[2 * n + j] = Copy(heap[j], 2 * n, TRUE, junk)
  <2> DEFINE k == 2 * n + j
  <2>1. k \in two /\ k \notin 1 .. n /\ k \notin one /\ ~(k > 3 * n) /\ k - 2 * n = j
    BY <1>1, <1>3
  <2> HIDE DEF one, two, k
  <2>2. h[k] = Copy(heap[k - 2 * n], 2 * n, TRUE, junk)
    BY <1>2, <2>1
  <2> QED BY <2>1, <2>2 DEF k
<1>7. ASSUME NEW i \in 1 .. 9 PROVE h[3 * n + i] = Made(n)[i]
  <2> DEFINE k == 3 * n + i
  <2>1. /\ k \in 3 * n + 1 .. 3 * n + 9 /\ k > 3 * n /\ k - 3 * n = i
        /\ k \notin 1 .. n /\ k \notin one /\ k \notin two
    BY <1>1, <1>3
  <2> HIDE DEF one, two, k
  <2>2. h[k] = Made(n)[k - 3 * n]
    BY <1>2, <2>1
  <2> QED BY <2>1, <2>2 DEF k
<1>8. DOMAIN h = dom
  BY <1>2
<1> QED BY <1>4, <1>5, <1>6, <1>7, <1>8 DEF IsWithResults, h, n

\* The items of a copy.
Shift(s, d) == [i \in 1 .. Len(s) |-> s[i] + d]

LEMMA ShiftedItems ==
  ASSUME NEW s \in Seq(Nat), NEW d \in Nat, 0 \notin ToSet(s)
  PROVE  /\ Shift(s, d) \in Seq(Nat) /\ Len(Shift(s, d)) = Len(s)
         /\ ToSet(Shift(s, d)) = {x + d : x \in ToSet(s)}
         /\ 0 \notin ToSet(Shift(s, d))
         /\ Distinct(s) => Distinct(Shift(s, d))
<1> DEFINE t == Shift(s, d)
<1>1. t \in Seq(Nat) /\ Len(t) = Len(s) /\ \A i \in 1 .. Len(s) : t[i] = s[i] + d
  BY DEF Shift
<1>2. DOMAIN s = 1 .. Len(s) /\ DOMAIN t = 1 .. Len(s)
  BY <1>1
<1> HIDE DEF t
<1>3. ToSet(t) = {x + d : x \in ToSet(s)}
  BY <1>1, <1>2 DEF ToSet
<1>4. \A x \in ToSet(s) : x \in Nat /\ x # 0
  BY DEF ToSet
<1>5. 0 \notin ToSet(t)
  BY <1>3, <1>4
<1>6. ASSUME Distinct(s) PROVE Distinct(t)
  <2>1. \A i \in 1 .. Len(s) : s[i] \in Nat /\ s[i] # 0
    BY <1>2, <1>4 DEF ToSet
  <2>2. \A i, j \in 1 .. Len(s) : s[i] + d = s[j] + d => s[i] = s[j]
    BY <2>1
  <2> QED BY <1>1, <1>2, <1>6, <2>1, <2>2 DEF Distinct
<1> QED BY <1>1, <1>3, <1>5, <1>6 DEF t

\* The double among the results, in thirds of a millionth and as it is shown.
OwnDouble == -60660000
OwnDoubleShown == -20220000

LEMMA OwnDoubleIs ==
  /\ OwnDouble \in Int /\ OwnDoubleShown \in Int
  /\ Digits("double", OwnDouble) = OwnDoubleShown
<1>1. \A q \in Int : (3 * q + 1) \div 3 = q
  BY SMT
<1>2. OwnDouble \in Int /\ OwnDoubleShown \in Int /\ OwnDouble = 3 * OwnDoubleShown
  BY SMTT(60) DEF OwnDouble, OwnDoubleShown
<1>3. (OwnDouble + 1) \div 3 = OwnDoubleShown
  BY <1>1, <1>2
<1> QED BY <1>2, <1>3 DEF Digits

LEMMA NewTyped ==
  ASSUME NEW t \in Type, NEW v \in Int, NEW s \in Seq(Nat)
  PROVE  /\ New(t, v, s) \in Object /\ New(t, v, s).frees = 0
         /\ New(t, v, s).type = t /\ New(t, v, s).value = v /\ New(t, v, s).items = s
BY DEF New, Object

LEMMA CopyOf ==
  ASSUME NEW o, NEW d, NEW twice, NEW junk
  PROVE  /\ Copy(o, d, twice, junk).type = o.type
         /\ Copy(o, d, twice, junk).value = CopiedValue(o, twice, junk)
         /\ Copy(o, d, twice, junk).items = Shift(o.items, d)
BY DEF Copy, New, Shift

\* What DuplicateParameter makes, one by one.
MadeAre(n) ==
  /\ Made(n)[1] = New("array", 0, Shift(params, n))
  /\ Made(n)[2] = New("array", 0, Shift(params, 2 * n))
  /\ Made(n)[3] = New("int", -10, <<>>)
  /\ Made(n)[4] = New("double", OwnDouble, <<>>)
  /\ Made(n)[5] = New("string", 6, <<>>)
  /\ Made(n)[6] = New("string", 9, <<>>)
  /\ Made(n)[7] = New("member", 9, <<3 * n + 6>>)
  /\ Made(n)[8] = New("struct", 0, <<3 * n + 7>>)
  /\ Made(n)[9] = New("boolean", 0, <<>>)

LEMMA MadeIs == \A n : MadeAre(n)
BY SMTT(60) DEF MadeAre, Made, Shift, OwnDouble

\* Whose item an item is.
ItemOf(k, i) ==
  LET n == Len(heap)
  IN  \/ k \in 1 .. n /\ i \in Below(heap, k)
      \/ \E j \in Copied : k = n + j /\ \E x \in Below(heap, j) : i = x + n
      \/ \E j \in Copied : k = 2 * n + j /\ \E x \in Below(heap, j) : i = x + 2 * n
      \/ k = 3 * n + 1 /\ \E x \in ToSet(params) : i = x + n
      \/ k = 3 * n + 2 /\ \E x \in ToSet(params) : i = x + 2 * n
      \/ k = 3 * n + 7 /\ i = 3 * n + 6
      \/ k = 3 * n + 8 /\ i = 3 * n + 7

LEMMA ResultItems ==
  ASSUME Ready, NEW junk, NEW h, IsWithResults(h, junk)
  PROVE  LET n == Len(heap)
         IN  /\ \A k \in 1 .. n : h[k].items = heap[k].items
             /\ \A j \in Copied : /\ h[n + j].items = Shift(heap[j].items, n)
                                  /\ h[2 * n + j].items = Shift(heap[j].items, 2 * n)
             /\ h[3 * n + 1].items = Shift(params, n)
             /\ h[3 * n + 2].items = Shift(params, 2 * n)
             /\ h[3 * n + 7].items = <<3 * n + 6>>
             /\ h[3 * n + 8].items = <<3 * n + 7>>
             /\ \A i \in {3, 4, 5, 6, 9} : h[3 * n + i].items = <<>>
<1> DEFINE n == Len(heap)
<1>1. \A k \in 1 .. n : h[k].items = heap[k].items
  BY Zenon DEF IsWithResults
<1>2. \A j \in Copied : /\ h[n + j].items = Shift(heap[j].items, n)
                        /\ h[2 * n + j].items = Shift(heap[j].items, 2 * n)
  <2> SUFFICES ASSUME NEW j \in Copied
               PROVE  /\ h[n + j].items = Shift(heap[j].items, n)
                      /\ h[2 * n + j].items = Shift(heap[j].items, 2 * n)
    OBVIOUS
  <2>1. /\ h[n + j] = Copy(heap[j], n, FALSE, junk)
        /\ h[2 * n + j] = Copy(heap[j], 2 * n, TRUE, junk)
    BY DEF IsWithResults
  <2>2. /\ Copy(heap[j], n, FALSE, junk).items = Shift(heap[j].items, n)
        /\ Copy(heap[j], 2 * n, TRUE, junk).items = Shift(heap[j].items, 2 * n)
    BY DEF Copy, New, Shift
  <2> QED BY <2>1, <2>2
<1> DEFINE Was(i) == h[3 * n + i].items
<1>3. \A i \in 1 .. 9 : Was(i) = Made(n)[i].items
  BY Zenon DEF IsWithResults
<1>4. MadeAre(n)
  BY MadeIs
<1>5. Made(n)[1].items = Shift(params, n) /\ Made(n)[2].items = Shift(params, 2 * n)
  BY <1>4 DEF MadeAre, New
<1>6. Made(n)[7].items = <<3 * n + 6>> /\ Made(n)[8].items = <<3 * n + 7>>
  BY <1>4 DEF MadeAre, New
<1>7. /\ Made(n)[3].items = <<>> /\ Made(n)[4].items = <<>> /\ Made(n)[5].items = <<>>
      /\ Made(n)[6].items = <<>> /\ Made(n)[9].items = <<>>
  BY <1>4 DEF MadeAre, New
<1> DEFINE Item(i) == Made(n)[i].items
           One(i) == <<3 * n + i>>
           twice == 2 * n
<1>8. /\ \A i \in 1 .. 9 : Was(i) = Item(i)
      /\ Item(1) = Shift(params, n) /\ Item(2) = Shift(params, twice)
      /\ Item(7) = One(6) /\ Item(8) = One(7)
      /\ Item(3) = <<>> /\ Item(4) = <<>> /\ Item(5) = <<>>
      /\ Item(6) = <<>> /\ Item(9) = <<>>
  BY <1>3, <1>5, <1>6, <1>7, Zenon
<1> HIDE DEF Was, Item, One, twice, n
<1>9. \A i \in {3, 4, 5, 6, 9} : Was(i) = <<>>
  BY <1>8
<1>10. /\ Was(1) = Shift(params, n) /\ Was(2) = Shift(params, twice)
       /\ Was(7) = One(6) /\ Was(8) = One(7)
  BY <1>8
<1> QED BY <1>1, <1>2, <1>9, <1>10, Zenon DEF Was, One, twice, n

LEMMA ItemOfResult ==
  ASSUME Ready, NEW c \in 1 .. 9, NEW i
  PROVE  LET n == Len(heap)
         IN  ItemOf(3 * n + c, i) <=> \/ c = 1 /\ \E x \in ToSet(params) : i = x + n
                                      \/ c = 2 /\ \E x \in ToSet(params) : i = x + 2 * n
                                      \/ c = 7 /\ i = 3 * n + 6
                                      \/ c = 8 /\ i = 3 * n + 7
<1> DEFINE n == Len(heap)
           k == 3 * n + c
           InFirst == \E x \in ToSet(params) : i = x + n
           InSecond == \E x \in ToSet(params) : i = x + 2 * n
           IsSixth == i = 3 * n + 6
           IsSeventh == i = 3 * n + 7
           Own == k \in 1 .. n /\ i \in Below(heap, k)
           InOne == \E j \in Copied : k = n + j /\ \E x \in Below(heap, j) : i = x + n
           InTwo == \E j \in Copied : k = 2 * n + j /\ \E x \in Below(heap, j) : i = x + 2 * n
<1>1. n \in Nat /\ \A j \in Copied : j \in 1 .. n
  BY CopiedIsRead
<1>2. ItemOf(k, i) <=> \/ Own
                       \/ InOne
                       \/ InTwo
                       \/ k = 3 * n + 1 /\ InFirst
                       \/ k = 3 * n + 2 /\ InSecond
                       \/ k = 3 * n + 7 /\ IsSixth
                       \/ k = 3 * n + 8 /\ IsSeventh
  BY Zenon DEF ItemOf
<1>3. ~Own
  <2> HIDE DEF n
  <2> QED BY <1>1
<1>4. \A j \in Copied : k # n + j /\ k # 2 * n + j
  <2> HIDE DEF n
  <2> QED BY <1>1
<1>5. ~InOne /\ ~InTwo
  <2> HIDE DEF k, n
  <2> QED BY <1>4, Zenon
<1>6. /\ k = 3 * n + 1 <=> c = 1
      /\ k = 3 * n + 2 <=> c = 2
      /\ k = 3 * n + 7 <=> c = 7
      /\ k = 3 * n + 8 <=> c = 8
  <2> HIDE DEF n
  <2> QED BY <1>1
<1> HIDE DEF InFirst, InSecond, IsSixth, IsSeventh, Own, InOne, InTwo
<1>7. ItemOf(k, i) <=> \/ c = 1 /\ InFirst
                       \/ c = 2 /\ InSecond
                       \/ c = 7 /\ IsSixth
                       \/ c = 8 /\ IsSeventh
  BY <1>2, <1>3, <1>5, <1>6, Zenon
<1> QED BY <1>7, Zenon DEF InFirst, InSecond, IsSixth, IsSeventh

LEMMA ItemsOfResults ==
  ASSUME Ready, NEW junk, NEW h, IsWithResults(h, junk)
  PROVE  /\ \A k \in DOMAIN h : /\ h[k].items \in Seq(Nat) /\ Distinct(h[k].items)
                                /\ \A i : i \in Below(h, k) <=> ItemOf(k, i)
         /\ \A k \in DOMAIN h : 0 \in ToSet(h[k].items) => k \in DOMAIN heap
<1> DEFINE n == Len(heap)
           Good(k) == /\ h[k].items \in Seq(Nat) /\ Distinct(h[k].items)
                      /\ \A i : i \in Below(h, k) <=> ItemOf(k, i)
                      /\ 0 \in ToSet(h[k].items) => k \in DOMAIN heap
<1>1. /\ n \in Nat /\ DOMAIN heap = 1 .. n /\ Copied \subseteq 1 .. n
      /\ 0 \notin ToSet(params) /\ ToSet(params) \subseteq 1 .. n
      /\ \A j \in Copied : 0 \notin ToSet(heap[j].items)
  BY CopiedIsRead
<1>2. /\ params \in Seq(Nat) /\ Distinct(params)
      /\ \A k \in 1 .. n : heap[k].items \in Seq(Nat) /\ Distinct(heap[k].items)
  <2>1. params \in Seq(Nat) /\ heap \in Seq(Object) /\ Owners(heap, <<>>, params, lost)
    BY DEF Ready, Sound
  <2>2. Distinct(params) /\ \A k \in DOMAIN heap : Distinct(heap[k].items)
    BY <2>1 DEF Owners
  <2>3. ASSUME NEW k \in DOMAIN heap PROVE heap[k].items \in Seq(Nat)
    <3>1. heap[k] \in Object
      BY <2>1
    <3> QED BY <3>1 DEF Object
  <2> HIDE DEF n
  <2> QED BY <1>1, <2>1, <2>2, <2>3, Zenon
<1>3. ASSUME NEW k \in 1 .. n PROVE Good(k)
  <2>1. h[k].items = heap[k].items
    BY ResultItems
  <2>2. \A i : ItemOf(k, i) <=> i \in Below(heap, k)
    BY <1>1 DEF ItemOf
  <2> QED BY <1>1, <1>2, <2>1, <2>2 DEF Below
<1>4. ASSUME NEW j \in Copied, NEW d \in {n, 2 * n} PROVE Good(d + j)
  <2> DEFINE s == heap[j].items
             t == h[d + j].items
  <2>1. s \in Seq(Nat) /\ 0 \notin ToSet(s) /\ Distinct(s) /\ d \in Nat
    BY <1>1, <1>2
  <2>2. t = Shift(s, d)
    BY ResultItems
  <2> HIDE DEF s, t
  <2>3. /\ t \in Seq(Nat) /\ ToSet(t) = {x + d : x \in ToSet(s)}
        /\ 0 \notin ToSet(t) /\ Distinct(t)
    BY <2>1, <2>2, ShiftedItems
  <2>4. Below(h, d + j) = ToSet(t) /\ Below(heap, j) = ToSet(s)
    BY <2>1, <2>3 DEF Below, s, t
  <2>5. \A i : ItemOf(d + j, i) <=> \E x \in Below(heap, j) : i = x + d
    <3>1. CASE d = n
      BY <1>1, <3>1 DEF ItemOf
    <3>2. CASE d = 2 * n
      BY <1>1, <3>2 DEF ItemOf
    <3> QED BY <3>1, <3>2
  <2>6. \A i : i \in Below(h, d + j) <=> ItemOf(d + j, i)
    BY <2>3, <2>4, <2>5
  <2> QED BY <2>3, <2>6 DEF t
<1>5. ASSUME NEW c \in {1, 2}, NEW d, (c = 1 /\ d = n) \/ (c = 2 /\ d = 2 * n)
      PROVE  Good(3 * n + c)
  <2> DEFINE t == h[3 * n + c].items
  <2>1. d \in Nat
    BY <1>1, <1>5
  <2>2. t = Shift(params, d)
    <3>1. CASE c = 1
      BY <1>5, <3>1, ResultItems
    <3>2. CASE c = 2
      BY <1>5, <3>2, ResultItems
    <3> QED BY <3>1, <3>2
  <2> HIDE DEF t
  <2>3. /\ t \in Seq(Nat) /\ ToSet(t) = {x + d : x \in ToSet(params)}
        /\ 0 \notin ToSet(t) /\ Distinct(t)
    BY <1>1, <1>2, <2>1, <2>2, ShiftedItems
  <2>4. Below(h, 3 * n + c) = ToSet(t)
    BY <2>3 DEF Below, t
  <2>5. \A i : ItemOf(3 * n + c, i) <=> \E x \in ToSet(params) : i = x + d
    <3>1. CASE c = 1
      <4>1. \A i : ItemOf(3 * n + c, i) <=> \E x \in ToSet(params) : i = x + n
        BY <3>1, ItemOfResult
      <4> QED BY <1>5, <3>1, <4>1
    <3>2. CASE c = 2
      <4>1. \A i : ItemOf(3 * n + c, i) <=> \E x \in ToSet(params) : i = x + 2 * n
        BY <3>2, ItemOfResult
      <4> QED BY <1>5, <3>2, <4>1
    <3> QED BY <3>1, <3>2
  <2>6. \A i : i \in Below(h, 3 * n + c) <=> ItemOf(3 * n + c, i)
    BY <2>3, <2>4, <2>5, Zenon
  <2> QED BY <2>3, <2>6 DEF t
<1>6. ASSUME NEW c \in {7, 8} PROVE Good(3 * n + c)
  <2> DEFINE x == 3 * n + c - 1
             one == <<x>>
  <2>1. h[3 * n + c].items = one
    <3>1. h[3 * n + 7].items = <<3 * n + 6>> /\ h[3 * n + 8].items = <<3 * n + 7>>
      BY ResultItems, Zenon
    <3>2. (c = 7 => x = 3 * n + 6) /\ (c = 8 => x = 3 * n + 7)
      <4> HIDE DEF n
      <4> QED BY <1>1
    <3> QED BY <3>1, <3>2, Zenon
  <2>2. x \in Nat /\ x # 0 /\ one \in Seq(Nat) /\ ToSet(one) = {x} /\ Distinct(one)
    BY <1>1 DEF ToSet, Distinct
  <2>3. \A i : ItemOf(3 * n + c, i) <=> i = x
    <3>1. CASE c = 7
      <4>1. x = 3 * n + 6
        BY <1>1, <3>1
      <4> HIDE DEF x
      <4> QED BY <3>1, <4>1, ItemOfResult
    <3>2. CASE c = 8
      <4>1. x = 3 * n + 7
        BY <1>1, <3>2
      <4> HIDE DEF x
      <4> QED BY <3>2, <4>1, ItemOfResult
    <3> QED BY <3>1, <3>2
  <2> HIDE DEF x, one
  <2> QED BY <2>1, <2>2, <2>3 DEF Below
<1>7. ASSUME NEW c \in {3, 4, 5, 6, 9} PROVE Good(3 * n + c)
  <2> DEFINE none == <<>>
             it == h[3 * n + c].items
  <2>1. it = none
    BY ResultItems, Zenon
  <2>2. none \in Seq(Nat) /\ ToSet(none) = {} /\ Distinct(none)
    BY EmptySeq DEF ToSet, Distinct
  <2>3. \A i : ~ItemOf(3 * n + c, i)
    <3>1. c \in 1 .. 9 /\ c # 1 /\ c # 2 /\ c # 7 /\ c # 8
      OBVIOUS
    <3> QED BY <3>1, ItemOfResult, Zenon
  <2> HIDE DEF none, it
  <2>4. it \in Seq(Nat) /\ ToSet(it) = {} /\ Distinct(it)
    BY <2>1, <2>2
  <2> QED BY <2>3, <2>4, Zenon DEF Below, it
<1>8. ASSUME NEW k \in DOMAIN h PROVE Good(k)
  <2>1. \/ k \in 1 .. n
        \/ \E j \in Copied : k = n + j
        \/ \E j \in Copied : k = 2 * n + j
        \/ k \in 3 * n + 1 .. 3 * n + 9
    BY DEF IsWithResults
  <2>2. k \in 3 * n + 1 .. 3 * n + 9 => \E c \in 1 .. 9 : k = 3 * n + c
    BY <1>1
  <2> HIDE DEF Good, n
  <2>3. ASSUME NEW j \in Copied PROVE Good(n + j) /\ Good(2 * n + j)
    BY <1>4
  <2>4. ASSUME NEW c \in 1 .. 9 PROVE Good(3 * n + c)
    <3>1. c = 1 => Good(3 * n + c)
      BY <1>5
    <3>2. c = 2 => Good(3 * n + c)
      BY <1>5
    <3>3. c \in {1, 2, 3, 4, 5, 6, 7, 8, 9}
      OBVIOUS
    <3> QED BY <1>6, <1>7, <3>1, <3>2, <3>3, Zenon
  <2> QED BY <1>3, <2>1, <2>2, <2>3, <2>4, Zenon
<1> QED BY <1>8

\* The object k of the copies at distance d, the list of their roots being c, has the
\* copy of x.
CopyOwns(d, c, k, x) ==
  \/ \E j \in Copied : k = d + j /\ x \in Below(heap, j)
  \/ k = c /\ x \in ToSet(params)

CopiedItem(d, c, k, i) == \E x \in Copied : i = d + x /\ CopyOwns(d, c, k, x)
OwnItem(k, i) == k \in 1 .. Len(heap) /\ i \in Below(heap, k)
NamedItem(k, i) ==
  \/ k = 3 * Len(heap) + 7 /\ i = 3 * Len(heap) + 6
  \/ k = 3 * Len(heap) + 8 /\ i = 3 * Len(heap) + 7

ItemInPart(k, i) ==
  \/ OwnItem(k, i)
  \/ CopiedItem(Len(heap), 3 * Len(heap) + 1, k, i)
  \/ CopiedItem(2 * Len(heap), 3 * Len(heap) + 2, k, i)
  \/ NamedItem(k, i)

LEMMA ItemIsInPart ==
  ASSUME Ready, NEW k, NEW i, ItemOf(k, i)
  PROVE  ItemInPart(k, i)
<1> DEFINE n == Len(heap)
<1>1. /\ n \in Nat /\ Copied \subseteq Nat /\ ToSet(params) \subseteq Copied
      /\ \A j \in Copied : Below(heap, j) \subseteq Copied
  BY CopiedIsRead DEF Below
<1>2. ASSUME NEW d \in Nat, NEW c, NEW j \in Copied, NEW x \in Below(heap, j),
             k = d + j, i = x + d
      PROVE  CopiedItem(d, c, k, i)
  <2>1. x \in Copied
    BY <1>1, Zenon
  <2>2. x \in Nat
    BY <1>1, <2>1, Zenon
  <2>3. i = d + x
    BY <1>2, <2>2
  <2> QED BY <1>2, <2>1, <2>3, Zenon DEF CopiedItem, CopyOwns
<1>3. ASSUME NEW d \in Nat, NEW c, NEW x \in ToSet(params), k = c, i = x + d
      PROVE  CopiedItem(d, c, k, i)
  <2>1. x \in Copied
    BY <1>1, Zenon
  <2>2. x \in Nat
    BY <1>1, <2>1, Zenon
  <2>3. i = d + x
    BY <1>3, <2>2
  <2> QED BY <1>3, <2>1, <2>3, Zenon DEF CopiedItem, CopyOwns
<1>4. n \in Nat /\ 2 * n \in Nat
  BY <1>1
<1> QED BY <1>2, <1>3, <1>4, Zenon DEF ItemOf, ItemInPart, OwnItem, NamedItem

\* The seven results.
Results ==
  LET n == 3 * Len(heap)
  IN  {n + 1, n + 2, n + 3, n + 4, n + 5, n + 8, n + 9}

LEMMA ResultsSound ==
  ASSUME Ready, NEW junk, NEW h, IsWithResults(h, junk)
  PROVE  /\ Shaped(h) /\ Extends(h, heap)
         /\ Owners(h, <<>>, params, lost)
         /\ Results \subseteq DOMAIN h
         /\ Owned(h, Results) = DOMAIN h \ DOMAIN heap
<1> DEFINE n == Len(heap)
<1>1. /\ n \in Nat /\ DOMAIN heap = 1 .. n /\ Copied \subseteq 1 .. n
      /\ 0 \notin ToSet(params) /\ ToSet(params) \subseteq Copied
      /\ \A j \in Copied : /\ 0 \notin ToSet(heap[j].items)
                           /\ ToSet(heap[j].items) \subseteq Copied
                           /\ \A i \in ToSet(heap[j].items) : i < j
  BY CopiedIsRead
<1>2. DOMAIN h = 1 .. n \cup {n + j : j \in Copied} \cup {2 * n + j : j \in Copied}
                   \cup 3 * n + 1 .. 3 * n + 9
  BY DEF IsWithResults
<1>3. \A k \in 1 .. n : Below(heap, k) \subseteq 1 .. n /\ \A i \in Below(heap, k) : i < k
  BY <1>1 DEF Ready, Sound, Fits, Shaped
<1>4. \A j \in Copied : Below(heap, j) = ToSet(heap[j].items)
  BY <1>1 DEF Below
<1>5. \A k \in DOMAIN h : \A i : i \in Below(h, k) <=> ItemOf(k, i)
  BY ItemsOfResults
<1> HIDE DEF n
<1>6. Shaped(h)
  <2>1. DOMAIN h \subseteq 1 .. 3 * n + 9
    BY <1>1, <1>2
  <2>2. ASSUME NEW k \in DOMAIN h, NEW i, ItemOf(k, i) PROVE i \in DOMAIN h /\ i < k
    <3>1. CASE OwnItem(k, i)
      BY <1>2, <1>3, <3>1 DEF OwnItem, n
    <3>2. ASSUME NEW d \in {n, 2 * n}, NEW c \in {3 * n + 1, 3 * n + 2}, CopiedItem(d, c, k, i)
          PROVE  i \in DOMAIN h /\ i < k
      <4>1. PICK x \in Copied : i = d + x /\ CopyOwns(d, c, k, x)
        BY <3>2 DEF CopiedItem
      <4>2. x \in 1 .. n /\ i \in DOMAIN h /\ d \in Nat /\ d <= 2 * n
        BY <1>1, <1>2, <4>1
      <4>3. CASE \E j \in Copied : k = d + j /\ x \in Below(heap, j)
        <5>1. PICK j \in Copied : k = d + j /\ x \in Below(heap, j)
          BY <4>3
        <5>2. x < j
          BY <1>1, <1>4, <5>1, Zenon
        <5>3. j \in Nat
          BY <1>1
        <5> QED BY <4>1, <4>2, <5>1, <5>2, <5>3
      <4>4. CASE k = c
        BY <1>1, <4>1, <4>2, <4>4
      <4> QED BY <4>1, <4>3, <4>4 DEF CopyOwns
    <3>3. CASE NamedItem(k, i)
      BY <1>1, <1>2, <3>3 DEF NamedItem, n
    <3> QED BY <2>2, <3>1, <3>2, <3>3, ItemIsInPart, Zenon DEF ItemInPart, n
  <2>3. DOMAIN h \subseteq Nat \ {0} /\ \A k \in DOMAIN h : k <= 3 * n + 9
    BY <1>1, <2>1
  <2> QED BY <1>1, <1>5, <2>2, <2>3 DEF Shaped
<1>7. Extends(h, heap)
  BY <1>1, <1>2, ResultItems DEF Extends, n
<1>12. ASSUME NEW d, NEW c, NEW k, NEW i, CopiedItem(d, c, k, i)
       PROVE  (d = n => i \in n + 1 .. 2 * n) /\ (d = 2 * n => i \in 2 * n + 1 .. 3 * n)
  <2>1. PICK x \in Copied : i = d + x
    BY <1>12 DEF CopiedItem
  <2> QED BY <1>1, <2>1
<1>13. ASSUME NEW k, NEW i, NamedItem(k, i) PROVE i \in 3 * n + 1 .. 3 * n + 9
  BY <1>1, <1>13 DEF NamedItem, n
<1>14. ASSUME NEW k, NEW i, OwnItem(k, i) PROVE i \in 1 .. n
  BY <1>3, <1>14 DEF OwnItem, n
<1>15. /\ 1 .. n \cap (n + 1 .. 2 * n) = {} /\ 1 .. n \cap (2 * n + 1 .. 3 * n) = {}
       /\ 1 .. n \cap (3 * n + 1 .. 3 * n + 9) = {}
       /\ (n + 1 .. 2 * n) \cap (2 * n + 1 .. 3 * n) = {}
       /\ (n + 1 .. 2 * n) \cap (3 * n + 1 .. 3 * n + 9) = {}
       /\ (2 * n + 1 .. 3 * n) \cap (3 * n + 1 .. 3 * n + 9) = {}
  BY <1>1
<1>16. ASSUME NEW k, NEW i, ItemOf(k, i)
       PROVE  /\ i \in 1 .. n => OwnItem(k, i)
              /\ i \in n + 1 .. 2 * n => CopiedItem(n, 3 * n + 1, k, i)
              /\ i \in 2 * n + 1 .. 3 * n => CopiedItem(2 * n, 3 * n + 2, k, i)
              /\ i \in 3 * n + 1 .. 3 * n + 9 => NamedItem(k, i)
              /\ i \in 1 .. n \/ i \in n + 1 .. 2 * n \/ i \in 2 * n + 1 .. 3 * n
                   \/ i \in 3 * n + 1 .. 3 * n + 9
  <2> DEFINE A == 1 .. n
             B == n + 1 .. 2 * n
             C == 2 * n + 1 .. 3 * n
             D == 3 * n + 1 .. 3 * n + 9
             d == 2 * n
             b == 3 * n + 1
             c == 3 * n + 2
  <2>1. \/ OwnItem(k, i) /\ i \in A
        \/ CopiedItem(n, b, k, i) /\ i \in B
        \/ CopiedItem(d, c, k, i) /\ i \in C
        \/ NamedItem(k, i) /\ i \in D
    <3>1. ItemInPart(k, i)
      BY <1>16, ItemIsInPart
    <3> QED BY <1>12, <1>13, <1>14, <3>1, Zenon DEF ItemInPart, n
  <2>2. A \cap B = {} /\ A \cap C = {} /\ A \cap D = {} /\ B \cap C = {} /\ B \cap D = {}
        /\ C \cap D = {}
    BY <1>15, Zenon
  <2> HIDE DEF A, B, C, D, b, c, d
  <2>3. /\ i \in A => OwnItem(k, i)
        /\ i \in B => CopiedItem(n, b, k, i)
        /\ i \in C => CopiedItem(d, c, k, i)
        /\ i \in D => NamedItem(k, i)
        /\ i \in A \/ i \in B \/ i \in C \/ i \in D
    BY <2>1, <2>2
  <2> QED BY <2>3, Zenon DEF A, B, C, D, b, c, d
<1>9. ASSUME NEW k \in DOMAIN h, NEW i \in 1 .. n, ItemOf(k, i)
      PROVE  k \in 1 .. n /\ i \in Below(heap, k)
  BY <1>9, <1>16, Zenon DEF OwnItem, n
<1>8. Owners(h, <<>>, params, lost)
  <2>1. \A k \in DOMAIN h : Distinct(h[k].items)
    BY ItemsOfResults
  <2>2. /\ Distinct(params) /\ Distinct(<<>>) /\ ToSet(<<>>) = {}
        /\ ToSet(params) \cap lost = {}
    BY DEF Ready, Sound, Owners, ToSet
  <2>3. Roots(<<>>, params, lost) \subseteq 1 .. n
    BY <1>1, <2>2 DEF Roots, Ready, Sound, Fits, n
  <2>5. Ownerless(h, Roots(<<>>, params, lost))
    <3>1. ASSUME NEW k \in DOMAIN h, NEW i \in Roots(<<>>, params, lost), ItemOf(k, i)
          PROVE  FALSE
      <4>1. k \in 1 .. n /\ i \in Below(heap, k)
        BY <1>9, <2>3, <3>1
      <4> QED BY <1>1, <3>1, <4>1 DEF Ready, Sound, Owners, Ownerless
    <3> QED BY <1>5, <3>1 DEF Ownerless
  <2>6. SingleOwner(h)
    <3>1. ASSUME NEW k \in DOMAIN h, NEW l \in DOMAIN h, NEW i, ItemOf(k, i), ItemOf(l, i)
          PROVE  k = l
      <4>1. \A a \in 1 .. n : \A b \in 1 .. n : \A x :
              x \in Below(heap, a) /\ x \in Below(heap, b) => a = b
        BY <1>1 DEF Ready, Sound, Owners, SingleOwner
      <4>2. \A a \in 1 .. n : \A x \in ToSet(params) : x \notin Below(heap, a)
        BY <1>1 DEF Ready, Sound, Owners, Ownerless, Roots
      <4>3. \A a \in Copied : a \in 1 .. n /\ Below(heap, a) \subseteq 1 .. n
        BY <1>1, <1>3
      <4>4. CASE i \in 1 .. n
        BY <1>9, <3>1, <4>1, <4>4
      <4>5. ASSUME NEW d, NEW c, \A j \in Copied : c # d + j, d \in Nat,
                   CopiedItem(d, c, k, i), CopiedItem(d, c, l, i)
            PROVE  k = l
        <5>1. PICK x \in Copied : i = d + x /\ CopyOwns(d, c, k, x)
          BY <4>5 DEF CopiedItem
        <5>2. PICK y \in Copied : i = d + y /\ CopyOwns(d, c, l, y)
          BY <4>5 DEF CopiedItem
        <5>3. x = y
          BY <1>1, <4>5, <5>1, <5>2
        <5>4. \A a, b \in Copied : x \in Below(heap, a) /\ x \in Below(heap, b) => a = b
          BY <4>1, <4>3
        <5>5. \A a \in Copied : x \in ToSet(params) => x \notin Below(heap, a)
          BY <4>2, <4>3
        <5>6. CASE k = c
          <6>1. x \in ToSet(params)
            BY <4>5, <5>1, <5>6, Zenon DEF CopyOwns
          <6> QED BY <5>2, <5>3, <5>5, <5>6, <6>1, Zenon DEF CopyOwns
        <5>7. CASE l = c
          <6>1. x \in ToSet(params)
            BY <4>5, <5>2, <5>3, <5>7, Zenon DEF CopyOwns
          <6> QED BY <5>1, <5>5, <5>7, <6>1, Zenon DEF CopyOwns
        <5>8. CASE k # c /\ l # c
          <6>1. PICK a \in Copied : k = d + a /\ x \in Below(heap, a)
            BY <5>1, <5>8, Zenon DEF CopyOwns
          <6>2. PICK b \in Copied : l = d + b /\ x \in Below(heap, b)
            BY <5>2, <5>3, <5>8, Zenon DEF CopyOwns
          <6>3. a = b
            BY <5>4, <6>1, <6>2, Zenon
          <6> QED BY <6>1, <6>2, <6>3
        <5> QED BY <5>6, <5>7, <5>8
      <4>6. \A j \in Copied : 3 * n + 1 # n + j /\ 3 * n + 2 # 2 * n + j
        BY <1>1
      <4>7. CASE NamedItem(k, i) /\ NamedItem(l, i)
        BY <1>1, <4>7 DEF NamedItem, n
      <4>8. n \in Nat /\ 2 * n \in Nat
        BY <1>1
      <4>9. /\ i \in n + 1 .. 2 * n => k = l
            /\ i \in 2 * n + 1 .. 3 * n => k = l
        <5> DEFINE two == 2 * n
                   one == 3 * n + 1
                   other == 3 * n + 2
        <5>1. two \in Nat /\ n \in Nat
          BY <1>1
        <5>2. (\A j \in Copied : one # n + j) /\ (\A j \in Copied : other # two + j)
          BY <4>6
        <5>3. /\ i \in n + 1 .. two => CopiedItem(n, one, k, i) /\ CopiedItem(n, one, l, i)
              /\ i \in two + 1 .. 3 * n =>
                   CopiedItem(two, other, k, i) /\ CopiedItem(two, other, l, i)
          BY <1>16, <3>1, Zenon
        <5> HIDE DEF two, one, other
        <5>4. CopiedItem(n, one, k, i) /\ CopiedItem(n, one, l, i) => k = l
          BY <4>5, <5>1, <5>2
        <5>5. CopiedItem(two, other, k, i) /\ CopiedItem(two, other, l, i) => k = l
          BY <4>5, <5>1, <5>2
        <5> QED BY <5>3, <5>4, <5>5, Zenon DEF two
      <4> QED BY <1>16, <3>1, <4>4, <4>7, <4>9, Zenon
    <3> QED BY <1>5, <3>1 DEF SingleOwner
  <2> QED BY <2>1, <2>2, <2>5, <2>6 DEF Owners
<1>10. Results \subseteq DOMAIN h /\ 0 \notin Results
  BY <1>1, <1>2 DEF Results, n
<1>11. Owned(h, Results) = DOMAIN h \ DOMAIN heap
  <2> DEFINE all == Owned(h, Results)
             others == DOMAIN h \ 1 .. n
             twice == {j \in Copied : n + j \in all /\ 2 * n + j \in all}
  <2>1. Owning(h, Results, all)
    BY <1>6, <1>10, OwnedOwns
  <2>2. Results \subseteq others
    BY <1>1, <1>10 DEF Results, n
  <2>3. ClosedBelow(h, others)
    BY <1>5, <1>6, <1>9 DEF ClosedBelow, Shaped
  <2>4. all \subseteq others
    <3> HIDE DEF others
    <3> QED BY <1>6, <1>10, <2>2, <2>3, OwnedLeast
  <2> HIDE DEF all
  <2>5. \A k \in all : \A i : ItemOf(k, i) => i \in all
    BY <1>5, <2>1 DEF Owning, ClosedBelow
  <2>6. {3 * n + 1, 3 * n + 2, 3 * n + 3, 3 * n + 4, 3 * n + 5, 3 * n + 8, 3 * n + 9}
          \subseteq all
    BY <1>10, <2>1 DEF Owning, Results, n
  <2>7. 3 * n + 7 \in all
    BY <1>1, <2>5, <2>6 DEF ItemOf, n
  <2>8. 3 * n + 6 \in all
    BY <1>1, <2>5, <2>7 DEF ItemOf, n
  <2>9. ToSet(params) \subseteq twice
    <3>1. ASSUME NEW x \in ToSet(params) PROVE n + x \in all /\ 2 * n + x \in all
      <4>1. ItemOf(3 * n + 1, x + n) /\ ItemOf(3 * n + 2, x + 2 * n)
        BY DEF ItemOf, n
      <4>2. x \in Nat
        <5>1. x \in Copied
          BY <1>1, Zenon
        <5> QED BY <1>1, <5>1
      <4> QED BY <1>1, <2>5, <2>6, <4>1, <4>2
    <3> QED BY <1>1, <3>1
  <2>10. ClosedBelow(heap, twice)
    <3>1. ASSUME NEW j \in twice, NEW x \in Below(heap, j) PROVE x \in twice
      <4>1. ItemOf(n + j, x + n) /\ ItemOf(2 * n + j, x + 2 * n)
        BY <3>1 DEF ItemOf, n
      <4>2. x \in Copied /\ x \in Nat
        <5>1. x \in Copied
          BY <1>1, <1>4, <3>1, Zenon
        <5> QED BY <1>1, <5>1
      <4> QED BY <1>1, <2>5, <3>1, <4>1, <4>2
    <3> QED BY <3>1 DEF ClosedBelow
  <2>11. Copied \subseteq twice
    <3>1. Shaped(heap) /\ ToSet(params) \ {0} \subseteq DOMAIN heap
      BY <1>1 DEF Ready, Sound, Fits
    <3> HIDE DEF twice
    <3> QED BY <2>9, <2>10, <3>1, OwnedLeast DEF Copied
  <2>12. 3 * n + 1 .. 3 * n + 9 \subseteq all
    <3>1. \A k \in 3 * n + 1 .. 3 * n + 9 : \E c \in 1 .. 9 : k = 3 * n + c
      BY <1>1
    <3> QED BY <2>6, <2>7, <2>8, <3>1
  <2>13. others \subseteq all
    BY <1>2, <2>11, <2>12
  <2> QED BY <1>1, <2>4, <2>13 DEF all
<1> QED BY <1>6, <1>7, <1>8, <1>10, <1>11

-------------------------------------------------------------------------------
(* The inductive invariant *)

\* Without a vector there are no parameters.
Parameters == IF params = NULL THEN <<>> ELSE params

Plain(o) ==
  /\ o.type \in Scalar => o.items = <<>>
  /\ o.type \in {"array", "struct"} => o.value = 0
  /\ o.type = "int" => o.value \in IntRange

Pending == Walking \cup {"closed"}

\* Until the call nothing is deleted, and every object is owned or lost.
Building ==
  /\ heap \in Seq(Object)
  /\ \A k \in DOMAIN heap : heap[k].frees = 0 /\ Plain(heap[k])
  /\ Rooted(heap, made, Parameters, lost)

\* The failures are what loses more than a member gives up.
LostFits == outcome \notin {"stuck", "cut"} => lost = replaced

IInv ==
  /\ TypeOK
  /\ Fits(heap, made, Parameters, lost)
  /\ Owners(heap, made, Parameters, lost)
  /\ outcome \in Pending => Building
  /\ outcome \in Walking => params # NULL
  /\ outcome \notin Walking => made = <<>>
  /\ DeletedOrLost
  /\ NullIsNeverAnswered

LEMMA SetOfNone == ToSet(<<>>) = {} /\ Distinct(<<>>) /\ <<>> \in Seq(Nat)
BY EmptySeq DEF ToSet, Distinct

LEMMA InitOK == Init => IInv
<1> SUFFICES ASSUME Init PROVE IInv
  OBVIOUS
<1> DEFINE none == <<>>
<1>1. /\ heap = none /\ made = none /\ Parameters = none /\ params = none /\ lost = {}
      /\ replaced = {} /\ outcome = "building" /\ params # NULL
  BY CallAssumption, EmptySeq DEF Init, Parameters
<1>2. /\ none \in Seq(Nat) /\ none \in Seq(Object) /\ ToSet(none) = {} /\ Distinct(none)
      /\ DOMAIN none = {}
  BY SetOfNone, EmptySeq
<1> HIDE DEF none
<1>3. Shaped(heap)
  BY <1>1, <1>2 DEF Shaped
<1>4. Fits(heap, made, Parameters, lost)
  BY <1>1, <1>2, <1>3 DEF Fits
<1>5. Owners(heap, made, Parameters, lost)
  BY <1>1, <1>2 DEF Owners, Ownerless, SingleOwner
<1>6. Building
  BY <1>1, <1>2 DEF Building, Rooted
<1>7. TypeOK
  BY <1>1, <1>2 DEF TypeOK, Outcome, Walking
<1>8. DeletedOrLost /\ NullIsNeverAnswered
  BY <1>1, <1>2 DEF DeletedOrLost, NullIsNeverAnswered
<1>9. outcome \in Walking
  BY <1>1 DEF Walking
<1> QED BY <1>1, <1>4, <1>5, <1>6, <1>7, <1>8, <1>9 DEF IInv

\* While the call is built nothing is deleted or answered.
LEMMA BuildKept ==
  ASSUME TypeOK', Sound(heap, made, Parameters, lost)', outcome' \in Pending,
         outcome' \in Walking => params' # NULL,
         outcome' \notin Walking => made' = <<>>, LostFits', heap' \in Seq(Object),
         \A k \in DOMAIN heap' : heap'[k].frees = 0 /\ Plain(heap'[k])
  PROVE  IInv'
<1>1. /\ Building'
      /\ Fits(heap, made, Parameters, lost)'
      /\ Owners(heap, made, Parameters, lost)'
  BY DEF Building, Sound
<1>2. DeletedOrLost' /\ NullIsNeverAnswered'
  BY DEF DeletedOrLost, NullIsNeverAnswered, LostFits, Pending, Walking
<1> QED BY <1>1, <1>2 DEF IInv

LEMMA MakeKept ==
  ASSUME IInv, NEW type \in Type, NEW value \in Int, NEW items, NEW k \in 0 .. Len(made),
         NEW gone, Make(type, value, items, k),
         lost' = lost \cup gone, replaced' = replaced \cup gone,
         Takes(items, LastOf(made, k), gone), Plain(New(type, value, items)),
         type = "struct" => \A i \in ToSet(items) : IsMember(i),
         type = "member" => Len(items) = 1
  PROVE  IInv'
<1> DEFINE o == New(type, value, items)
           n == Len(heap)
<1>1. /\ outcome \in Walking /\ outcome' = outcome /\ params # NULL
      /\ Parameters = params /\ Parameters' = params /\ params' = params
      /\ heap' = Append(heap, o)
      /\ made' = Append(SubSeq(made, 1, Len(made) - k), n + 1)
  BY DEF Make, Parameters, IInv
<1>2. heap \in Seq(Object) /\ \A i \in DOMAIN heap : heap[i].frees = 0 /\ Plain(heap[i])
  BY <1>1 DEF IInv, Building, Pending
<1>3. o \in Object /\ o.items = items /\ o.type = type /\ o.frees = 0 /\ Plain(o)
  BY DEF New, Object, Takes
<1> HIDE DEF o
<1>4. /\ n \in Nat /\ DOMAIN heap = 1 .. n /\ DOMAIN heap' = 1 .. n + 1
      /\ heap' \in Seq(Object)
      /\ heap'[n + 1] = o /\ \A i \in 1 .. n : heap'[i] = heap[i]
  BY <1>1, <1>2, <1>3
<1>5. Sound(heap, made, params, lost)
  BY <1>1 DEF IInv, Building, Pending, Sound
<1>6. Sound(heap', made', params, lost')
  BY <1>1, <1>2, <1>3, <1>5, AddObject
<1>7. \A i \in DOMAIN heap' : heap'[i].frees = 0 /\ Plain(heap'[i])
  <2>1. \A i \in DOMAIN heap' : i \in 1 .. n \/ i = n + 1
    BY <1>4
  <2> QED BY <1>2, <1>3, <1>4, <2>1
<1>8. TypeOK'
  <2>1. \A i \in 1 .. n : IsMember(i) => IsMember(i)'
    BY <1>4 DEF IsMember
  <2>2. \A i \in 1 .. n : /\ heap[i] \in Object
                          /\ heap[i].type = "struct" =>
                                \A j \in ToSet(heap[i].items) : IsMember(j) /\ j \in 1 .. n
                          /\ heap[i].type = "member" => Len(heap[i].items) = 1
    <3>1. \A i \in 1 .. n : \A j \in ToSet(heap[i].items) : j # 0 => j \in 1 .. n
      BY <1>4, <1>5 DEF Sound, Fits, Shaped, Below
    <3> QED BY <1>4, <3>1 DEF IInv, TypeOK, IsMember
  <2>3. type = "struct" => \A j \in ToSet(items) : IsMember(j)'
    <3>1. \A j \in ToSet(items) : j = 0 \/ j \in 1 .. n
      <4>1. Shaped(heap')
        BY <1>6 DEF Sound, Fits
      <4>2. Below(heap', n + 1) = ToSet(items) \ {0} /\ n + 1 \in DOMAIN heap'
        BY <1>3, <1>4 DEF Below
      <4>3. \A j \in ToSet(items) \ {0} : j \in DOMAIN heap' /\ j < n + 1
        BY <4>1, <4>2 DEF Shaped
      <4> QED BY <1>4, <4>3
    <3> QED BY <2>1, <3>1 DEF IsMember
  <2>4. \A i \in DOMAIN heap' :
          /\ heap'[i] \in Object
          /\ heap'[i].type = "struct" => \A j \in ToSet(heap'[i].items) : IsMember(j)'
          /\ heap'[i].type = "member" => Len(heap'[i].items) = 1
    <3>1. \A i \in DOMAIN heap' : i \in 1 .. n \/ i = n + 1
      BY <1>4
    <3> QED BY <1>3, <1>4, <2>1, <2>2, <2>3, <3>1
  <2>5. /\ made' \in Seq(Nat)
        /\ params' \in Seq(Nat) \cup {NULL}
        /\ lost' \subseteq DOMAIN heap' /\ replaced' \subseteq lost'
    BY <1>1, <1>6 DEF Sound, Fits, IInv, TypeOK
  <2>6. DOMAIN heap' \subseteq Nat
    BY <1>4
  <2> QED BY <1>1, <2>4, <2>5, <2>6 DEF TypeOK, Outcome
<1>9. Sound(heap, made, Parameters, lost)'
  BY <1>1, <1>6
<1>10. LostFits'
  BY <1>1 DEF IInv, DeletedOrLost, LostFits
<1>11. /\ outcome' \in Pending /\ params' # NULL
       /\ outcome' \notin Walking => made' = <<>>
  BY <1>1 DEF Pending
<1> QED BY <1>4, <1>7, <1>8, <1>9, <1>10, <1>11, BuildKept

\* The last objects that Walk has made, one by one.
LEMMA LastMade ==
  ASSUME IInv, NEW k \in 0 .. Len(made)
  PROVE  /\ LastOf(made, k) \in Seq(Nat) /\ Len(LastOf(made, k)) = k
         /\ Distinct(LastOf(made, k))
         /\ ToSet(LastOf(made, k)) \subseteq ToSet(made)
<1> DEFINE front == SubSeq(made, 1, Len(made) - k)
           last == LastOf(made, k)
<1>1. made \in Seq(Nat) /\ Distinct(made)
  BY DEF IInv, TypeOK, Owners
<1>2. /\ front \in Seq(Nat) /\ last \in Seq(Nat) /\ Len(last) = k
      /\ made = front \o last
  BY <1>1, LastAndRest
<1> HIDE DEF front, last
<1>3. Distinct(last) /\ ToSet(made) = ToSet(front) \cup ToSet(last)
  BY <1>1, <1>2, DistinctConcat, SetOfConcat
<1> QED BY <1>2, <1>3 DEF last

LEMMA MakeScalarKept ==
  ASSUME IInv, MakeScalar
  PROVE  IInv'
<1> DEFINE none == <<>>
<1>1. PICK type \in Scalar, value \in Int :
        /\ Make(type, value, none, 0) /\ lost' = lost /\ replaced' = replaced
        /\ type = "int" => value \in IntRange
  BY CallAssumption DEF MakeScalar, IntRange, Scalar
<1>2. /\ type \in Type /\ type # "struct" /\ type # "member" /\ type # "array"
      /\ 0 \in 0 .. Len(made)
  BY DEF Type, Scalar, IInv, TypeOK
<1>3. ToSet(LastOf(made, 0)) = {}
  BY <1>2, LastMade DEF ToSet
<1>4. Takes(none, LastOf(made, 0), {})
  BY <1>3, SetOfNone DEF Takes
<1>5. Plain(New(type, value, none))
  BY <1>1, <1>2 DEF Plain, New
<1> HIDE DEF none
<1>6. lost' = lost \cup {} /\ replaced' = replaced \cup {}
  BY <1>1
<1> QED BY <1>1, <1>2, <1>4, <1>5, <1>6, MakeKept

LEMMA MakeArrayKept ==
  ASSUME IInv, NEW k \in 0 .. Len(made), MakeArray(k)
  PROVE  IInv'
<1> DEFINE items == LastOf(made, k)
<1>1. Takes(items, items, {})
  BY LastMade DEF Takes
<1>2. Plain(New("array", 0, items)) /\ "array" \in Type
  BY DEF Plain, New, Scalar, Type
<1>3. /\ Make("array", 0, items, k)
      /\ lost' = lost \cup {} /\ replaced' = replaced \cup {}
  BY DEF MakeArray
<1> HIDE DEF items
<1> QED BY <1>1, <1>2, <1>3, MakeKept DEF items

LEMMA MakeStructKept ==
  ASSUME IInv, NEW k \in 0 .. Len(made), MakeStruct(k)
  PROVE  IInv'
<1> DEFINE items == LastOf(made, k)
<1>1. Takes(items, items, {})
  BY LastMade DEF Takes
<1>2. Plain(New("struct", 0, items)) /\ "struct" \in Type
  BY DEF Plain, New, Scalar, Type
<1>3. /\ Make("struct", 0, items, k)
      /\ lost' = lost \cup {} /\ replaced' = replaced \cup {}
  BY DEF MakeStruct
<1>4. \A i \in ToSet(items) : IsMember(i)
  BY LastMade DEF MakeStruct, ToSet
<1> HIDE DEF items
<1> QED BY <1>1, <1>2, <1>3, <1>4, MakeKept DEF items

\* The member keeps the last value that is not null and loses those before.
LEMMA MakeMemberKept ==
  ASSUME IInv, NEW k \in 0 .. Len(made), NEW label \in Strings,
         MakeMember(label, k)
  PROVE  IInv'
<1> DEFINE values == LastOf(made, k)
           set == {i \in 1 .. k : values[i] # 0}
           kept == IF set = {} THEN 0 ELSE values[Max(set)]
           gone == {values[i] : i \in {j \in set : \E l \in set : j < l}}
           items == <<kept>>
<1>1. values \in Seq(Nat) /\ Len(values) = k /\ Distinct(values) /\ DOMAIN values = 1 .. k
  BY LastMade
<1>2. /\ Make("member", label, items, k)
      /\ lost' = lost \cup gone /\ replaced' = replaced \cup gone
  BY DEF MakeMember
<1> HIDE DEF values
<1>3. /\ items \in Seq(Nat) /\ ToSet(items) = {kept} /\ Distinct(items) /\ Len(items) = 1
      /\ kept \in {0} \cup ToSet(values)
      /\ kept \notin gone
      /\ gone \subseteq ToSet(values) \ {0}
      /\ ToSet(values) \subseteq {0, kept} \cup gone
  <2>1. \A i \in 1 .. k : values[i] \in Nat /\ values[i] \in ToSet(values)
    BY <1>1 DEF ToSet
  <2>2. gone \subseteq ToSet(values) \ {0}
    BY <2>1
  <2>3. /\ kept \in {0} \cup ToSet(values) /\ kept \notin gone /\ kept \in Nat
        /\ \A i \in 1 .. k : values[i] \in {0, kept} \cup gone
    <3>1. CASE set = {}
      BY <3>1
    <3>2. CASE set # {}
      <4>1. set \in SUBSET Nat /\ \A i \in set : i <= k
        OBVIOUS
      <4>2. \E i \in set : \A j \in set : j <= i
        <5>1. k \in Nat
          BY <1>1
        <5> HIDE DEF set
        <5> QED BY <3>2, <4>1, <5>1, NatMax
      <4>3. Max(set) \in set /\ \A j \in set : j <= Max(set)
        <5>1. \E i \in set : \A j \in set : i >= j
          BY <4>1, <4>2
        <5> HIDE DEF set
        <5>2. Max(set) \in set /\ \A j \in set : Max(set) >= j
          BY <5>1 DEF Max
        <5> QED BY <4>1, <5>2
      <4> DEFINE top == Max(set)
      <4>4. top \in 1 .. k /\ values[top] # 0 /\ kept = values[top]
        BY <3>2, <4>3
      <4>5. \A j \in set : j # top => j < top
        BY <4>1, <4>3
      <4> HIDE DEF top
      <4>6. kept \notin gone
        <5>1. ASSUME NEW i \in set, NEW l \in set, i < l, values[i] = values[top] PROVE FALSE
          <6>1. i = top
            BY <1>1, <4>4, <5>1 DEF Distinct
          <6> QED BY <4>1, <4>3, <5>1, <6>1 DEF top
        <5> QED BY <4>4, <5>1
      <4>7. ASSUME NEW i \in 1 .. k PROVE values[i] \in {0, kept} \cup gone
        <5>1. i \in set => i = top \/ i < top
          BY <4>5
        <5>2. top \in set
          BY <4>3 DEF top
        <5> QED BY <4>4, <5>1, <5>2
      <4> QED BY <2>1, <4>4, <4>6, <4>7
    <3> QED BY <3>1, <3>2
  <2>4. ToSet(values) \subseteq {0, kept} \cup gone
    BY <1>1, <2>3 DEF ToSet
  <2> HIDE DEF kept, gone
  <2>5. items \in Seq(Nat) /\ ToSet(items) = {kept} /\ Distinct(items) /\ Len(items) = 1
    BY <2>3 DEF ToSet, Distinct
  <2> QED BY <2>2, <2>3, <2>4, <2>5
<1> HIDE DEF kept, gone, items
<1>4. Takes(items, values, gone)
  BY <1>3 DEF Takes
<1>5. Plain(New("member", label, items)) /\ "member" \in Type /\ label \in Int
  BY CallAssumption DEF Plain, New, Scalar, Type
<1> QED BY <1>2, <1>3, <1>4, <1>5, MakeKept DEF values

\* The same objects in other places.
LEMMA MoveSound ==
  ASSUME IInv, outcome \in Pending, outcome' \in Outcome,
         heap' = heap, replaced' = replaced,
         made' \in Seq(Nat), Parameters' \in Seq(Nat), params' \in Seq(Nat) \cup {NULL},
         lost \subseteq lost', 0 \notin lost',
         Distinct(made'), Distinct(Parameters'),
         ToSet(made') \cap ToSet(Parameters') \subseteq {0},
         ToSet(made') \cap lost' = {}, ToSet(Parameters') \cap lost' = {},
         Roots(made', Parameters', lost') \ {0} = Roots(made, Parameters, lost) \ {0}
  PROVE  TypeOK' /\ Sound(heap, made, Parameters, lost)'
<1>1. Building
  BY DEF IInv
<1>2. Roots(made, Parameters, lost) \subseteq {0} \cup DOMAIN heap
  BY DEF IInv, Fits, Roots
<1>3. Roots(made', Parameters', lost') \subseteq {0} \cup DOMAIN heap
  BY <1>2
<1>4. lost' \subseteq DOMAIN heap /\ replaced' \subseteq lost'
  BY <1>3 DEF Roots, IInv, TypeOK
<1>5. TypeOK'
  BY <1>4 DEF IInv, TypeOK, IsMember
<1>6. Fits(heap, made, Parameters, lost)'
  BY <1>3, <1>4 DEF IInv, Fits, Roots
<1>7. Owners(heap, made, Parameters, lost)'
  <2>1. \A k \in DOMAIN heap : 0 \notin Below(heap, k)
    BY DEF Below
  <2>2. Ownerless(heap, Roots(made', Parameters', lost'))
    BY <2>1 DEF IInv, Owners, Ownerless
  <2> QED BY <2>2 DEF IInv, Owners
<1>8. Rooted(heap, made, Parameters, lost)'
  <2>1. Owned(heap, Roots(made', Parameters', lost')) = Owned(heap, Roots(made, Parameters, lost))
    BY DEF Owned
  <2> QED BY <1>1, <2>1 DEF Building, Rooted
<1> QED BY <1>5, <1>6, <1>7, <1>8 DEF Sound

\* They are still built.
LEMMA MoveKept ==
  ASSUME IInv, outcome \in Pending, outcome' \in Pending, heap' = heap,
         TypeOK', Sound(heap, made, Parameters, lost)', LostFits',
         outcome' \in Walking => params' # NULL,
         outcome' \notin Walking => made' = <<>>
  PROVE  IInv'
<1>1. heap' \in Seq(Object) /\ \A k \in DOMAIN heap' : heap'[k].frees = 0 /\ Plain(heap'[k])
  BY DEF IInv, Building
<1> QED BY <1>1, BuildKept

\* What MoveSound and MoveKept ask of where the objects are now.
LEMMA Places ==
  ASSUME IInv
  PROVE  /\ made \in Seq(Nat) /\ Parameters \in Seq(Nat)
         /\ Distinct(made) /\ Distinct(Parameters)
         /\ ToSet(made) \cap ToSet(Parameters) \subseteq {0}
         /\ ToSet(made) \cap lost = {} /\ ToSet(Parameters) \cap lost = {}
         /\ 0 \notin lost /\ LostFits
BY DEF IInv, Fits, Owners, Shaped, DeletedOrLost, LostFits

LEMMA MakeNullKept ==
  ASSUME IInv, MakeNull
  PROVE  IInv'
<1> DEFINE none == <<0>>
<1>0. made \in Seq(Nat)
  BY Places
<1>1. made' = made \o none /\ none \in Seq(Nat) /\ ToSet(none) = {0} /\ Distinct(none)
  BY <1>0 DEF MakeNull, ToSet, Distinct
<1> HIDE DEF none
<1>2. made' \in Seq(Nat) /\ ToSet(made') = ToSet(made) \cup {0} /\ Distinct(made')
  BY <1>1, Places, SetOfConcat, DistinctConcat
<1>3. /\ outcome \in Walking /\ outcome' = outcome /\ heap' = heap /\ lost' = lost
      /\ replaced' = replaced /\ params' = params /\ Parameters' = Parameters
      /\ params # NULL
  BY DEF MakeNull, Parameters, IInv
<1>4. outcome \in Pending /\ outcome' \in Outcome /\ LostFits'
      /\ params' \in Seq(Nat) \cup {NULL}
  BY <1>3, Places DEF Pending, Outcome, LostFits, IInv, TypeOK
<1>5. Roots(made', Parameters', lost') \ {0} = Roots(made, Parameters, lost) \ {0}
  BY <1>2, <1>3 DEF Roots
<1>6. /\ ToSet(made') \cap ToSet(Parameters') \subseteq {0}
      /\ ToSet(made') \cap lost' = {} /\ ToSet(Parameters') \cap lost' = {}
  BY <1>2, <1>3, Places
<1>7. TypeOK' /\ Sound(heap, made, Parameters, lost)'
  BY <1>2, <1>3, <1>4, <1>5, <1>6, Places, MoveSound
<1> QED BY <1>3, <1>4, <1>7, MoveKept

LEMMA CloseParamKept ==
  ASSUME IInv, CloseParam
  PROVE  IInv'
<1>1. /\ outcome = "building" /\ outcome' = outcome /\ heap' = heap /\ lost' = lost
      /\ replaced' = replaced /\ params' = params \o made /\ made' = <<>>
  BY DEF CloseParam
<1>2. outcome \in Walking /\ params # NULL /\ Parameters = params
  BY <1>1 DEF Walking, IInv, Parameters
<1> DEFINE all == params \o made
<1>3. all \in Seq(Nat) /\ ToSet(all) = ToSet(params) \cup ToSet(made) /\ Distinct(all)
  BY <1>2, Places, SetOfConcat, DistinctConcat
<1>4. params' = all
  BY <1>1
<1> HIDE DEF all
<1>5. Parameters' = all /\ params' # NULL /\ params' \in Seq(Nat) \cup {NULL}
  BY <1>3, <1>4, CallAssumption DEF Parameters
<1>6. ToSet(made') = {} /\ Distinct(made') /\ made' \in Seq(Nat)
  BY <1>1, SetOfNone
<1>7. outcome \in Pending /\ outcome' \in Outcome /\ LostFits'
  BY <1>1, <1>2, Places DEF Pending, Outcome, LostFits
<1>8. Roots(made', Parameters', lost') \ {0} = Roots(made, Parameters, lost) \ {0}
  BY <1>1, <1>2, <1>3, <1>5, <1>6 DEF Roots
<1>9. /\ ToSet(made') \cap ToSet(Parameters') \subseteq {0}
      /\ ToSet(made') \cap lost' = {} /\ ToSet(Parameters') \cap lost' = {}
  BY <1>1, <1>2, <1>3, <1>5, <1>6, Places
<1>10. TypeOK' /\ Sound(heap, made, Parameters, lost)'
  BY <1>1, <1>3, <1>5, <1>6, <1>7, <1>8, <1>9, Places, MoveSound
<1> QED BY <1>1, <1>2, <1>5, <1>7, <1>10, MoveKept

\* The vector changes its owner, or is left with the builder, empty.
LEMMA CloseParamsKept ==
  ASSUME IInv, CloseParams \/ DropParams
  PROVE  IInv'
<1>1. /\ outcome = "building" /\ outcome' = "closed" /\ heap' = heap /\ lost' = lost
      /\ replaced' = replaced /\ made' = made /\ made = <<>>
      /\ params' = params \/ (params' = NULL /\ params = <<>>)
  BY DEF CloseParams, DropParams
<1>2. Parameters' = Parameters /\ params' \in Seq(Nat) \cup {NULL}
  BY <1>1 DEF Parameters, IInv, TypeOK
<1>3. outcome \in Pending /\ outcome' \in Pending /\ outcome' \in Outcome
      /\ outcome' \notin Walking /\ LostFits'
  BY <1>1, Places DEF Pending, Walking, Outcome, LostFits
<1>4. TypeOK' /\ Sound(heap, made, Parameters, lost)'
  BY <1>1, <1>2, <1>3, Places, MoveSound
<1> QED BY <1>1, <1>3, <1>4, MoveKept

\* What Walk had begun is lost.
LEMMA ConversionFailsKept ==
  ASSUME IInv, ConversionFails
  PROVE  IInv'
<1>1. /\ outcome \in Walking /\ outcome' = "stuck" /\ heap' = heap
      /\ replaced' = replaced /\ made' = <<>>
      /\ params' = params /\ Parameters' = Parameters /\ params # NULL
      /\ lost' = lost \cup ToSet(made)
  BY DEF ConversionFails, Parameters, IInv
<1>2. 0 \notin ToSet(made)
  BY DEF ConversionFails, Around, ToSet, IInv, TypeOK
<1>3. outcome \in Pending /\ outcome' \in Pending /\ outcome' \in Outcome
      /\ outcome' \in Walking /\ LostFits'
  BY <1>1 DEF Pending, Walking, Outcome, LostFits
<1>4. ToSet(made') = {} /\ Distinct(made') /\ made' \in Seq(Nat)
  BY <1>1, SetOfNone
<1>5. Roots(made', Parameters', lost') \ {0} = Roots(made, Parameters, lost) \ {0}
  BY <1>1, <1>4 DEF Roots
<1>6. /\ lost \subseteq lost' /\ 0 \notin lost'
      /\ ToSet(made') \cap ToSet(Parameters') \subseteq {0}
      /\ ToSet(made') \cap lost' = {} /\ ToSet(Parameters') \cap lost' = {}
      /\ params' \in Seq(Nat) \cup {NULL}
  <2>1. params \in Seq(Nat) \cup {NULL}
    BY DEF IInv, TypeOK
  <2> QED BY <1>1, <1>2, <1>4, <2>1, Places
<1>7. TypeOK' /\ Sound(heap, made, Parameters, lost)'
  BY <1>1, <1>3, <1>4, <1>5, <1>6, Places, MoveSound
<1> QED BY <1>1, <1>3, <1>7, MoveKept

\* All parameters are lost, and with them every object.
LEMMA CutRequestKept ==
  ASSUME IInv, CutRequest
  PROVE  IInv'
<1> DEFINE all == ToSet(params) \ {0}
<1>1. /\ outcome \in Walking /\ outcome' = "cut" /\ heap' = heap
      /\ replaced' = replaced /\ made' = made /\ made = <<>> /\ params' = NULL
      /\ lost' = lost \cup all
      /\ Parameters = params /\ Parameters' = <<>>
  BY DEF CutRequest, Parameters, IInv
<1>2. outcome \in Pending /\ outcome' \in Outcome
  BY <1>1 DEF Pending, Outcome
<1>3. /\ ToSet(made') = {} /\ Distinct(made') /\ made' \in Seq(Nat)
      /\ ToSet(Parameters') = {} /\ Distinct(Parameters') /\ Parameters' \in Seq(Nat)
  BY <1>1, SetOfNone
<1>4. ToSet(made) = {}
  BY <1>1, SetOfNone
<1>5. Roots(made', Parameters', lost') \ {0} = Roots(made, Parameters, lost) \ {0}
  BY <1>1, <1>3, <1>4 DEF Roots
<1>6. /\ lost \subseteq lost' /\ 0 \notin lost' /\ params' \in Seq(Nat) \cup {NULL}
      /\ ToSet(made') \cap ToSet(Parameters') \subseteq {0}
      /\ ToSet(made') \cap lost' = {} /\ ToSet(Parameters') \cap lost' = {}
  BY <1>1, <1>3, Places
<1>7. TypeOK' /\ Sound(heap, made, Parameters, lost)'
  BY <1>1, <1>2, <1>3, <1>5, <1>6, MoveSound
<1>8. DOMAIN heap' \subseteq Owned(heap', lost')
  <2>1. DOMAIN heap' \subseteq Owned(heap', Roots(made', Parameters', lost'))
    BY <1>7 DEF Sound, Rooted
  <2>2. Roots(made', Parameters', lost') = lost'
    BY <1>3 DEF Roots
  <2> QED BY <2>1, <2>2
<1>9. DeletedOrLost'
  <2>1. \A k \in DOMAIN heap' : heap'[k].frees = 0
    BY <1>1, <1>2 DEF IInv, Building
  <2> QED BY <1>1, <1>8, <2>1 DEF DeletedOrLost
<1>10. NullIsNeverAnswered'
  BY <1>1 DEF NullIsNeverAnswered
<1>11. outcome' \notin Pending /\ outcome' \notin Walking
  BY <1>1 DEF Pending, Walking
<1> QED BY <1>1, <1>7, <1>9, <1>10, <1>11 DEF IInv, Sound

-------------------------------------------------------------------------------
(* Calls *)

Mine == IF params = NULL THEN {} ELSE Owned(heap, ToSet(params))

LEMMA RootedParts ==
  ASSUME IInv
  PROVE  /\ Mine = Owned(heap, ToSet(Parameters))
         /\ Owned(heap, Roots(made, Parameters, lost)) =
              Owned(heap, ToSet(made)) \cup Mine \cup Owned(heap, lost)
         /\ made = <<>> => Owned(heap, ToSet(made)) = {}
         /\ Mine \subseteq DOMAIN heap /\ Owned(heap, lost) \subseteq DOMAIN heap
         /\ Mine \cap Owned(heap, lost) = {}
<1>1. ToSet(<<>>) = {} /\ Owned(heap, {}) = {}
  BY SetOfNone DEF Owned
<1>2. Mine = Owned(heap, ToSet(Parameters))
  BY <1>1 DEF Mine, Parameters
<1>3. Owned(heap, Roots(made, Parameters, lost)) =
        Owned(heap, ToSet(made)) \cup Owned(heap, ToSet(Parameters)) \cup Owned(heap, lost)
  BY DEF Roots, Owned
<1>4. /\ ToSet(Parameters) \ {0} \subseteq DOMAIN heap /\ lost \ {0} \subseteq DOMAIN heap
      /\ Shaped(heap) /\ SingleOwner(heap)
      /\ Ownerless(heap, ToSet(Parameters)) /\ Ownerless(heap, lost)
      /\ ToSet(Parameters) \cap lost \subseteq {0}
  BY DEF IInv, Fits, Owners, Ownerless, Roots
<1>5. Owned(heap, ToSet(Parameters)) \cap Owned(heap, lost) = {}
  BY <1>4, TreesApart
<1>6. /\ Owned(heap, ToSet(Parameters)) \subseteq DOMAIN heap
      /\ Owned(heap, lost) \subseteq DOMAIN heap
  BY <1>4, OwnedOwns DEF Owning
<1> QED BY <1>1, <1>2, <1>3, <1>5, <1>6

\* What the handlers can read is what reaches no null pointer.
LEMMA ReadableIs ==
  ASSUME IInv
  PROVE  Readable <=> ~(\/ params = NULL
                        \/ \E i \in 1 .. Len(params) : ReachesNull(heap)[params[i]])
<1>1. CASE params = NULL
  BY <1>1 DEF Readable
<1>2. CASE params # NULL
  <2>1. params \in Seq(Nat) /\ \A i \in 1 .. Len(params) : params[i] \in {0} \cup DOMAIN heap
    BY <1>2 DEF IInv, TypeOK, Fits, Parameters, ToSet
  <2>2. \A i \in 1 .. Len(params) : ReachesNull(heap)[params[i]] <=> ~Dumps(heap, params[i])
    BY <2>1, NullReached DEF IInv, Fits
  <2> QED BY <1>2, <2>2 DEF Readable
<1> QED BY <1>1, <1>2

LEMMA OutcomeKept ==
  ASSUME IInv, outcome = "closed", made = <<>>,
         UNCHANGED <<heap, made, params, lost, replaced>>,
         \/ outcome' = "crashed" /\ name' \in Registered /\ ~Readable
         \/ outcome' \in {"answered", "fault"} /\ (name' \notin Registered \/ Readable)
  PROVE  IInv'
<1>1. Parameters' = Parameters /\ Mine' = Mine
  BY DEF Parameters, Mine
<1>2. /\ TypeOK'
      /\ Fits(heap, made, Parameters, lost)'
      /\ Owners(heap, made, Parameters, lost)'
  BY <1>1 DEF IInv, TypeOK, Fits, Owners, IsMember, Outcome
<1>3. (\/ params = NULL
       \/ \E i \in 1 .. Len(params) : ReachesNull(heap)[params[i]]) <=> ~Readable
  BY ReadableIs
<1>4. NullIsNeverAnswered'
  BY <1>3 DEF NullIsNeverAnswered
<1>5. Building /\ LostFits
  BY Places DEF IInv, Pending
<1>6. DOMAIN heap \subseteq Mine \cup Owned(heap, lost)
  BY <1>5, RootedParts DEF Building, Rooted
<1>7. \A k \in DOMAIN heap : heap[k].frees = 0
  BY <1>5 DEF Building
<1>8. DeletedOrLost'
  BY <1>5, <1>6, <1>7 DEF DeletedOrLost, Mine, LostFits
<1>9. outcome' \notin Pending /\ outcome' \notin Walking
  BY DEF Pending, Walking
<1> QED BY <1>2, <1>4, <1>8, <1>9 DEF IInv

LEMMA DeletedIs ==
  ASSUME NEW h, NEW ids, \A k \in DOMAIN h : h[k] \in Object
  PROVE  /\ DOMAIN Deleted(h, ids) = DOMAIN h
         /\ \A k \in DOMAIN h :
              /\ Deleted(h, ids)[k] \in Object
              /\ Deleted(h, ids)[k].items = h[k].items
              /\ Deleted(h, ids)[k].type = h[k].type
              /\ Deleted(h, ids)[k].value = h[k].value
              /\ Deleted(h, ids)[k].frees =
                   IF k \in Owned(h, ids) THEN h[k].frees + 1 ELSE h[k].frees
BY DEF Deleted, Object

\* Deletion changes no item.
LEMMA SameItems ==
  ASSUME NEW h, NEW g, DOMAIN g = DOMAIN h, \A k \in DOMAIN h : g[k].items = h[k].items,
         Shaped(h), NEW m, NEW p, NEW l, Owners(h, m, p, l)
  PROVE  Shaped(g) /\ Owners(g, m, p, l) /\ Extends(g, h)
<1>1. \A k \in DOMAIN h : Below(g, k) = Below(h, k)
  BY DEF Below
<1>2. Shaped(g)
  BY <1>1 DEF Shaped
<1>3. Ownerless(g, Roots(m, p, l)) /\ SingleOwner(g)
  BY <1>1 DEF Owners, Ownerless, SingleOwner
<1>4. \A k \in DOMAIN g : Distinct(g[k].items)
  BY DEF Owners
<1> QED BY <1>2, <1>3, <1>4 DEF Owners, Extends

LEMMA DumpsSame ==
  ASSUME NEW h, Shaped(h), NEW g, Shaped(g), Extends(g, h), NEW k \in {0} \cup DOMAIN h
  PROVE  Dumps(g, k) <=> Dumps(h, k)
<1>1. CASE k = 0
  BY <1>1 DEF Dumps
<1>2. CASE k # 0
  <2>1. {k} \ {0} \subseteq DOMAIN h
    BY <1>2
  <2>2. Owned(g, {k}) = Owned(h, {k})
    BY <2>1, OwnedSame
  <2>3. Owned(h, {k}) \subseteq DOMAIN h
    BY <2>1, OwnedOwns DEF Owning
  <2> QED BY <2>2, <2>3 DEF Dumps, Extends
<1> QED BY <1>1, <1>2

\* ~Method
LEMMA DeleteKept ==
  ASSUME IInv, DeleteParameters
  PROVE  IInv'
<1>1. /\ outcome \in {"closed", "answered", "fault"} /\ outcome' = "deleted"
      /\ made' = made /\ params' = params /\ lost' = lost /\ made = <<>>
      /\ replaced' = replaced /\ Parameters' = Parameters
  BY DEF DeleteParameters, IInv, Parameters, Walking
<1>2. \A k \in DOMAIN heap : heap[k] \in Object
  BY DEF IInv, TypeOK
<1>3. /\ DOMAIN heap' = DOMAIN heap
      /\ \A k \in DOMAIN heap :
           /\ heap'[k] \in Object
           /\ heap'[k].items = heap[k].items
           /\ heap'[k].type = heap[k].type
           /\ heap'[k].frees = IF k \in Mine THEN heap[k].frees + 1 ELSE heap[k].frees
  BY <1>2, DeletedIs DEF DeleteParameters, Mine
<1>4. Shaped(heap') /\ Owners(heap', made, Parameters, lost) /\ Extends(heap', heap)
  BY <1>3, SameItems DEF IInv, Fits
<1>5. Fits(heap, made, Parameters, lost)' /\ Owners(heap, made, Parameters, lost)'
  BY <1>1, <1>3, <1>4 DEF IInv, Fits
<1>6. TypeOK'
  <2>1. \A i \in {0} \cup DOMAIN heap : IsMember(i) <=> IsMember(i)'
    BY <1>3 DEF IsMember
  <2>2. \A k \in DOMAIN heap : \A i \in ToSet(heap[k].items) : i \in {0} \cup DOMAIN heap
    BY DEF IInv, Fits, Shaped, Below
  <2> QED BY <1>1, <1>3, <2>1, <2>2 DEF IInv, TypeOK, Outcome
<1>7. Owned(heap', lost) = Owned(heap, lost)
  <2>1. lost \ {0} \subseteq DOMAIN heap /\ Shaped(heap)
    BY DEF IInv, Fits
  <2> QED BY <1>4, <2>1, OwnedSame
<1>8. DeletedOrLost'
  <2>1. \A k \in DOMAIN heap :
          heap[k].frees = IF k \in Owned(heap, lost) \/ k \in Mine THEN 0 ELSE 1
    <3>1. CASE outcome = "closed"
      <4>1. Building
        BY <3>1 DEF IInv, Pending
      <4>2. DOMAIN heap \subseteq Mine \cup Owned(heap, lost)
        BY <1>1, <4>1, RootedParts DEF Building, Rooted
      <4> QED BY <4>1, <4>2 DEF Building
    <3>2. CASE outcome # "closed"
      BY <1>1, <3>2 DEF IInv, DeletedOrLost, Mine, Walking
    <3> QED BY <3>1, <3>2
  <2>2. \A k \in DOMAIN heap : heap'[k].frees = IF k \in Owned(heap, lost) THEN 0 ELSE 1
    BY <1>3, <2>1, RootedParts
  <2> QED BY <1>1, <1>3, <1>7, <2>2, Places DEF DeletedOrLost, LostFits, Walking
<1>9. NullIsNeverAnswered'
  BY <1>1 DEF NullIsNeverAnswered
<1>10. outcome' \notin Pending /\ outcome' \notin Walking
  BY <1>1 DEF Pending, Walking
<1> QED BY <1>1, <1>5, <1>6, <1>8, <1>9, <1>10 DEF IInv

LEMMA IsReady ==
  ASSUME IInv, outcome = "closed", made = <<>>, Readable
  PROVE  /\ Ready /\ Parameters = params /\ params # NULL
         /\ \A k \in DOMAIN heap : Plain(heap[k])
<1>1. params # NULL /\ Parameters = params
  BY DEF Readable, Parameters
<1>2. Building
  BY DEF IInv, Pending
<1> QED BY <1>1, <1>2 DEF IInv, Building, Ready, Sound, Fits

\* Copies are objects of the same type.
LEMMA ResultsTyped ==
  ASSUME Ready, NEW junk \in Junk, NEW h, IsWithResults(h, junk)
  PROVE  \A k \in DOMAIN h :
           /\ h[k] \in Object /\ h[k].frees = 0
           /\ h[k].type = "struct" =>
                \A i \in ToSet(h[k].items) : i \in DOMAIN h /\ h[i].type = "member"
           /\ h[k].type = "member" => Len(h[k].items) = 1
<1> DEFINE n == Len(heap)
           Good(k) == /\ h[k] \in Object /\ h[k].frees = 0
                      /\ h[k].type = "struct" =>
                           \A i \in ToSet(h[k].items) : i \in DOMAIN h /\ h[i].type = "member"
                      /\ h[k].type = "member" => Len(h[k].items) = 1
<1>1. /\ n \in Nat /\ DOMAIN heap = 1 .. n /\ Copied \subseteq 1 .. n
      /\ \A j \in Copied : 0 \notin ToSet(heap[j].items) /\ ToSet(heap[j].items) \subseteq Copied
      /\ 0 \notin ToSet(params) /\ params \in Seq(Nat)
  BY CopiedIsRead DEF Ready
<1>2. DOMAIN h = 1 .. n \cup {n + j : j \in Copied} \cup {2 * n + j : j \in Copied}
                   \cup 3 * n + 1 .. 3 * n + 9
  BY DEF IsWithResults
<1>3. \A k \in 1 .. n :
        /\ heap[k] \in Object /\ heap[k].frees = 0
        /\ heap[k].type = "struct" =>
             \A i \in ToSet(heap[k].items) : i \in 1 .. n /\ heap[i].type = "member"
        /\ heap[k].type = "member" => Len(heap[k].items) = 1
  <2>1. \A k \in 1 .. n : \A i \in ToSet(heap[k].items) : i # 0 => i \in 1 .. n
    BY <1>1 DEF Ready, Sound, Fits, Shaped, Below
  <2> QED BY <1>1, <2>1 DEF Ready, TypeOK, IsMember
<1>4. ASSUME NEW k \in 1 .. n PROVE Good(k)
  <2>1. h[k] = heap[k] /\ \A i \in 1 .. n : h[i] = heap[i]
    BY DEF IsWithResults
  <2> QED BY <1>2, <1>3, <2>1
<1>5. ASSUME NEW o \in Object, NEW twice \in BOOLEAN
      PROVE  CopiedValue(o, twice, junk) \in Int
  <2>1. o.value \in Int /\ 2 * o.value \in Int /\ junk \in Int
    BY CallAssumption DEF Object, IntRange
  <2>2. ToInt(2 * o.value, junk) \in Int
    BY <2>1 DEF ToInt
  <2> QED BY <2>1, <2>2 DEF CopiedValue
<1>6. ASSUME NEW j \in Copied, NEW d \in {n, 2 * n} PROVE Good(d + j)
  <2> DEFINE s == heap[j].items
  <2>1. PICK t \in BOOLEAN : h[d + j] = Copy(heap[j], d, t, junk)
    BY DEF IsWithResults
  <2>2. s \in Seq(Nat) /\ heap[j] \in Object /\ heap[j].type \in Type /\ 0 \notin ToSet(s)
        /\ d \in Nat
    BY <1>1, <1>3 DEF Object
  <2>3. Shift(s, d) \in Seq(Nat) /\ Len(Shift(s, d)) = Len(s)
        /\ ToSet(Shift(s, d)) = {x + d : x \in ToSet(s)}
    <3> HIDE DEF s
    <3> QED BY <2>2, ShiftedItems
  <2>4. h[d + j] = New(heap[j].type, CopiedValue(heap[j], t, junk), Shift(s, d))
    BY <2>1 DEF Copy, Shift
  <2>5. /\ h[d + j] \in Object /\ h[d + j].frees = 0
        /\ h[d + j].type = heap[j].type /\ h[d + j].items = Shift(s, d)
    BY <1>5, <2>2, <2>3, <2>4 DEF New, Object
  <2>6. ASSUME NEW i \in Copied PROVE d + i \in DOMAIN h /\ h[d + i].type = heap[i].type
    <3>1. PICK u \in BOOLEAN : h[d + i] = Copy(heap[i], d, u, junk)
      BY DEF IsWithResults
    <3>2. d + i \in DOMAIN h
      BY <1>2
    <3>3. Copy(heap[i], d, u, junk).type = heap[i].type
      BY CopyOf
    <3> QED BY <3>1, <3>2, <3>3
  <2>7. ASSUME heap[j].type = "struct", NEW x \in ToSet(s)
        PROVE  x + d \in DOMAIN h /\ h[x + d].type = "member"
    <3>1. x \in Copied /\ x \in Nat /\ heap[x].type = "member"
      BY <1>1, <1>3, <2>7
    <3>2. x + d = d + x
      BY <2>2, <3>1
    <3> QED BY <2>6, <3>1, <3>2
  <2>8. heap[j].type = "member" => Len(s) = 1
    BY <1>1, <1>3
  <2> QED BY <2>3, <2>5, <2>7, <2>8
<1>7. \A c \in 1 .. 9 : h[3 * n + c] = Made(n)[c]
  BY DEF IsWithResults
<1>8. ASSUME NEW c \in {1, 2} PROVE Good(3 * n + c)
  <2> DEFINE o == h[3 * n + c]
  <2>1. PICK d \in Nat : Made(n)[c] = New("array", 0, Shift(params, d))
    <3>1. n \in Nat /\ 2 * n \in Nat
      BY <1>1
    <3> QED BY <3>1, MadeIs DEF MadeAre
  <2>2. Shift(params, d) \in Seq(Nat)
    BY <1>1, ShiftedItems
  <2>3. o = New("array", 0, Shift(params, d))
    <3>1. c \in 1 .. 9
      OBVIOUS
    <3> QED BY <1>7, <2>1, <3>1, Zenon
  <2>4. "array" \in Type /\ 0 \in Int
    BY DEF Type
  <2> HIDE DEF o
  <2>5. o \in Object /\ o.frees = 0 /\ o.type = "array"
    BY <2>2, <2>3, <2>4, NewTyped
  <2> QED BY <2>5 DEF o
<1>9. ASSUME NEW c \in 3 .. 9 PROVE Good(3 * n + c)
  <2> DEFINE none == <<>>
             six == <<3 * n + 6>>
             seven == <<3 * n + 7>>
             o == h[3 * n + c]
  <2>1. /\ none \in Seq(Nat) /\ six \in Seq(Nat) /\ seven \in Seq(Nat)
        /\ Len(six) = 1 /\ ToSet(seven) = {3 * n + 7}
    BY <1>1, EmptySeq DEF ToSet
  <2>2. /\ Made(n)[3] = New("int", -10, none) /\ Made(n)[4] = New("double", OwnDouble, none)
        /\ Made(n)[5] = New("string", 6, none) /\ Made(n)[6] = New("string", 9, none)
        /\ Made(n)[7] = New("member", 9, six) /\ Made(n)[8] = New("struct", 0, seven)
        /\ Made(n)[9] = New("boolean", 0, none) /\ OwnDouble \in Int
    BY MadeIs, OwnDoubleIs DEF MadeAre
  <2>3. c = 3 \/ c = 4 \/ c = 5 \/ c = 6 \/ c = 7 \/ c = 8 \/ c = 9
    OBVIOUS
  <2>4. o = Made(n)[c]
    <3>1. c \in 1 .. 9
      OBVIOUS
    <3> QED BY <1>7, <3>1, Zenon
  <2>5. CASE c \in {3, 4, 5, 6, 9}
    <3>1. PICK t \in {"int", "double", "string", "boolean"}, v \in Int : o = New(t, v, none)
      <4>1. -10 \in Int /\ 6 \in Int /\ 9 \in Int /\ 0 \in Int
        OBVIOUS
      <4> HIDE DEF none, o
      <4> QED BY <2>2, <2>4, <2>5, <4>1
    <3>2. t \in Type /\ t # "struct" /\ t # "member"
      BY DEF Type, Scalar
    <3> HIDE DEF none, o
    <3>3. o \in Object /\ o.frees = 0 /\ o.type = t
      BY <2>1, <3>1, <3>2, NewTyped
    <3> QED BY <3>2, <3>3 DEF o
  <2>6. CASE c = 7
    <3>1. "member" \in Type /\ 9 \in Int /\ o = New("member", 9, six)
      BY <2>2, <2>4, <2>6 DEF Type
    <3> HIDE DEF o, six
    <3>2. o \in Object /\ o.frees = 0 /\ o.type = "member" /\ o.items = six
      BY <2>1, <3>1, NewTyped
    <3> QED BY <2>1, <3>2 DEF o
  <2>7. CASE c = 8
    <3>1. h[3 * n + 7].type = "member" /\ 3 * n + 7 \in DOMAIN h
      <4>1. 7 \in 1 .. 9 /\ 3 * n + 7 \in DOMAIN h
        BY <1>1, <1>2
      <4>2. h[3 * n + 7] = New("member", 9, six)
        BY <1>7, <2>2, <4>1, Zenon
      <4> QED BY <4>1, <4>2 DEF New
    <3>2. "struct" \in Type /\ 0 \in Int /\ o = New("struct", 0, seven)
      BY <2>2, <2>4, <2>7 DEF Type
    <3> HIDE DEF o, seven
    <3>3. o \in Object /\ o.frees = 0 /\ o.type = "struct" /\ o.items = seven
      BY <2>1, <3>2, NewTyped
    <3> QED BY <2>1, <3>1, <3>3 DEF o
  <2> QED BY <2>3, <2>5, <2>6, <2>7
<1>10. ASSUME NEW k \in DOMAIN h PROVE Good(k)
  <2>1. \/ k \in 1 .. n
        \/ \E j \in Copied : k = n + j
        \/ \E j \in Copied : k = 2 * n + j
        \/ k \in 3 * n + 1 .. 3 * n + 9
    BY <1>2
  <2>2. k \in 3 * n + 1 .. 3 * n + 9 => \E c \in 1 .. 9 : k = 3 * n + c
    <3>1. n \in Nat
      BY <1>1
    <3> HIDE DEF n
    <3>2. ASSUME NEW l \in Int, l \in 3 * n + 1 .. 3 * n + 9
          PROVE  l - 3 * n \in 1 .. 9 /\ l = 3 * n + (l - 3 * n)
      BY <3>1, <3>2
    <3>3. k \in 3 * n + 1 .. 3 * n + 9 => k \in Int
      BY <3>1
    <3> QED BY <3>2, <3>3
  <2>3. \A c \in 1 .. 9 : c \in {1, 2} \/ c \in 3 .. 9
    OBVIOUS
  <2> HIDE DEF Good, n
  <2> QED BY <1>4, <1>6, <1>8, <1>9, <2>1, <2>2, <2>3
<1> QED BY <1>10

LEMMA DuplicateKept ==
  ASSUME IInv, outcome = "closed", made = <<>>, Readable,
         NEW junk \in Junk, DuplicateParameter(junk), outcome' = "answered",
         UNCHANGED <<made, params, lost, replaced>>
  PROVE  IInv'
<1> DEFINE h == WithResults(junk)
           n == Len(heap)
<1>1. /\ Ready /\ Parameters = params /\ Parameters' = params /\ params # NULL
  BY IsReady DEF Parameters
<1>2. IsWithResults(h, junk)
  BY <1>1, WithResultsIs
<1>3. heap' = Deleted(h, Results)
  <2> DEFINE m == 3 * Len(heap)
             results == <<m + 1, m + 2, m + 3, m + 4, m + 5, m + 8, m + 9>>
  <2>1. heap' = Deleted(h, ToSet(results))
    BY DEF DuplicateParameter
  <2>2. ToSet(results) = Results
    <3> HIDE DEF m
    <3>1. ToSet(results) = {m + 1, m + 2, m + 3, m + 4, m + 5, m + 8, m + 9}
      BY DEF ToSet
    <3> QED BY <3>1 DEF Results, m
  <2> QED BY <2>1, <2>2
<1> HIDE DEF h
<1>4. /\ Shaped(h) /\ Extends(h, heap) /\ Owners(h, <<>>, params, lost)
      /\ Results \subseteq DOMAIN h
      /\ Owned(h, Results) = DOMAIN h \ DOMAIN heap
  BY <1>1, <1>2, ResultsSound
<1>5. \A k \in DOMAIN h :
        /\ h[k] \in Object /\ h[k].frees = 0
        /\ h[k].type = "struct" =>
             \A i \in ToSet(h[k].items) : i \in DOMAIN h /\ h[i].type = "member"
        /\ h[k].type = "member" => Len(h[k].items) = 1
  BY <1>1, <1>2, ResultsTyped
<1>6. /\ DOMAIN heap' = DOMAIN h
      /\ \A k \in DOMAIN h :
           /\ heap'[k] \in Object
           /\ heap'[k].items = h[k].items /\ heap'[k].type = h[k].type
           /\ heap'[k].frees = IF k \in DOMAIN heap THEN 0 ELSE 1
  <2>1. /\ DOMAIN heap' = DOMAIN h
        /\ \A k \in DOMAIN h :
             /\ heap'[k] \in Object
             /\ heap'[k].items = h[k].items /\ heap'[k].type = h[k].type
             /\ heap'[k].frees = IF k \in Owned(h, Results) THEN h[k].frees + 1 ELSE h[k].frees
    BY <1>3, <1>5, DeletedIs
  <2> QED BY <1>4, <1>5, <2>1
<1>7. Shaped(heap') /\ Owners(heap', <<>>, params, lost) /\ Extends(heap', h)
  <2> DEFINE none == <<>>
  <2> HIDE DEF none
  <2>1. Owners(h, none, params, lost)
    BY <1>4 DEF none
  <2>2. Shaped(heap') /\ Owners(heap', none, params, lost) /\ Extends(heap', h)
    BY <1>4, <1>6, <2>1, SameItems
  <2> QED BY <2>2 DEF none
<1>8. Extends(heap', heap) /\ Shaped(heap) /\ DOMAIN heap \subseteq DOMAIN heap'
  BY <1>4, <1>6, <1>7 DEF Extends, IInv, Fits
<1>9. Fits(heap, made, Parameters, lost)' /\ Owners(heap, made, Parameters, lost)'
  BY <1>1, <1>7, <1>8 DEF IInv, Fits
<1>10. TypeOK'
  <2>1. \A k \in DOMAIN h : heap'[k].type = "struct" =>
          \A i \in ToSet(heap'[k].items) : IsMember(i)'
    <3>1. 0 \notin DOMAIN h
      BY <1>4 DEF Shaped
    <3> QED BY <1>5, <1>6, <3>1 DEF IsMember
  <2>2. DOMAIN heap' \subseteq Nat
    BY <1>7 DEF Shaped
  <2> QED BY <1>5, <1>6, <1>8, <2>1, <2>2 DEF IInv, TypeOK, Outcome
<1>11. Mine' = Mine /\ Owned(heap', lost) = Owned(heap, lost)
  <2>1. lost \ {0} \subseteq DOMAIN heap /\ ToSet(params) \ {0} \subseteq DOMAIN heap
    BY <1>1 DEF IInv, Fits
  <2>2. /\ Owned(heap', lost) = Owned(heap, lost)
        /\ Owned(heap', ToSet(params)) = Owned(heap, ToSet(params))
    BY <1>7, <1>8, <2>1, OwnedSame
  <2> QED BY <1>1, <2>2 DEF Mine
<1>12. DeletedOrLost'
  <2>1. /\ DOMAIN heap \subseteq Mine \cup Owned(heap, lost)
        /\ Mine \subseteq DOMAIN heap /\ Owned(heap, lost) \subseteq DOMAIN heap
    BY RootedParts DEF IInv, Building, Rooted, Pending
  <2>2. LostFits'
    BY Places DEF LostFits
  <2>3. \A k \in DOMAIN heap' :
          heap'[k].frees = IF k \in Owned(heap', lost) \/ k \in Mine' THEN 0 ELSE 1
    BY <1>6, <1>11, <2>1
  <2> QED BY <2>2, <2>3 DEF DeletedOrLost, Mine, LostFits, Walking
<1>13. NullIsNeverAnswered'
  <2>1. \A i \in 1 .. Len(params) :
          params[i] \in {0} \cup DOMAIN heap /\ params[i] \in {0} \cup DOMAIN heap'
    BY <1>1, <1>8 DEF IInv, Fits, ToSet
  <2>2. \A i \in 1 .. Len(params) : Dumps(heap, params[i])
    BY DEF Readable
  <2>3. \A i \in 1 .. Len(params) : Dumps(heap', params[i])
    BY <1>7, <1>8, <2>1, <2>2, DumpsSame
  <2>4. \A i \in 1 .. Len(params) : ~ReachesNull(heap')[params[i]]
    BY <1>7, <2>1, <2>3, NullReached
  <2> QED BY <1>1, <2>4 DEF NullIsNeverAnswered
<1>14. outcome' \notin Pending /\ outcome' \notin Walking
  BY DEF Pending, Walking
<1> QED BY <1>9, <1>10, <1>12, <1>13, <1>14 DEF IInv

LEMMA DoCallKept ==
  ASSUME IInv, NEW method, DoCall(method)
  PROVE  IInv'
<1>1. /\ outcome = "closed"
      /\ made = <<>>
      /\ name' = method
      /\ UNCHANGED <<made, params, lost, replaced>>
  BY DEF DoCall, IInv, Walking
<1>2. CASE Found(method) /\ ~Readable /\ outcome' = "crashed" /\ UNCHANGED <<heap, answer>>
  BY <1>1, <1>2, OutcomeKept DEF Found
<1>3. CASE /\ ~Found(method) \/ (method = "Add" /\ Readable /\ ~HasIntValues)
           /\ outcome' = "fault" /\ UNCHANGED <<heap, answer>>
  BY <1>1, <1>3, OutcomeKept DEF Found
<1>4. ASSUME Readable, outcome' = "answered", NEW junk \in Junk, Add(junk)
      PROVE  IInv'
  BY <1>1, <1>4, OutcomeKept DEF Add
<1>5. ASSUME Readable, outcome' = "answered", NEW junk \in Junk, DuplicateParameter(junk)
      PROVE  IInv'
  BY <1>1, <1>5, DuplicateKept
<1> QED BY <1>2, <1>3, <1>4, <1>5 DEF DoCall

LEMMA StepOK == IInv /\ [Next]_vars => IInv'
<1> SUFFICES ASSUME IInv, [Next]_vars PROVE IInv'
  OBVIOUS
<1>1. CASE UNCHANGED vars
  <2>1. UNCHANGED <<heap, made, params, name, answer, outcome, lost, replaced>>
    BY <1>1 DEF vars
  <2>2. /\ TypeOK'
        /\ Fits(heap, made, Parameters, lost)'
        /\ Owners(heap, made, Parameters, lost)'
    BY <2>1 DEF IInv, TypeOK, IsMember, Parameters, Fits, Owners
  <2>3. outcome \in Pending => Building'
    BY <2>1 DEF IInv, Building, Parameters, Rooted
  <2>4. DeletedOrLost' /\ NullIsNeverAnswered'
    BY <2>1 DEF IInv, DeletedOrLost, NullIsNeverAnswered
  <2> QED BY <2>1, <2>2, <2>3, <2>4 DEF IInv
<1>2. CASE Walk
  BY <1>2, MakeScalarKept, MakeNullKept, MakeArrayKept, MakeStructKept, MakeMemberKept,
     ConversionFailsKept, CloseParamKept DEF Walk
<1>5. CASE CloseParams \/ DropParams
  BY <1>5, CloseParamsKept
<1>6. CASE CutRequest
  BY <1>6, CutRequestKept
<1>3. ASSUME NEW method, DoCall(method) PROVE IInv'
  BY <1>3, DoCallKept
<1>4. CASE DeleteParameters
  BY <1>4, DeleteKept
<1> QED BY <1>1, <1>2, <1>3, <1>4, <1>5, <1>6 DEF Next

LEMMA InvariantHolds == Spec => []IInv
BY InitOK, StepOK, PTL DEF Spec

\* Every object is of its type: structs hold members and nothing else, and a member
\* has one value, in the parameters and in what is made for an answer
\* (methodbuilder.cpp:258-331, testserverobjects.cpp:25-134).
THEOREM TypeCorrect == Spec => []TypeOK
BY InvariantHolds, PTL DEF IInv

\* No object ever has two owners, those of an answer included: copies share
\* nothing with what they copy (testserverobjects.cpp:70-134).
THEOREM OwnedByOne == Spec => []OneOwner
<1>1. IInv => OneOwner
  <2> SUFFICES ASSUME IInv PROVE OneOwner
    OBVIOUS
  <2> DEFINE roots == {made[i] : i \in DOMAIN made} \cup lost
                        \cup (IF params = NULL THEN {} ELSE ToSet(params))
  <2>1. roots = Roots(made, Parameters, lost)
    BY SetOfNone DEF Roots, Parameters, ToSet
  <2>2. \A k \in DOMAIN heap :
          /\ Distinct(heap[k].items)
          /\ ToSet(heap[k].items) \cap roots \subseteq {0}
          /\ \A l \in DOMAIN heap \ {k} :
               ToSet(heap[k].items) \cap ToSet(heap[l].items) \subseteq {0}
    BY <2>1 DEF IInv, Owners, Ownerless, SingleOwner, Below
  <2>3. params # NULL => Distinct(made \o params)
    BY DistinctConcat DEF IInv, Owners, Fits, Parameters
  <2>4. /\ Distinct(made) /\ ToSet(made) \cap lost = {}
        /\ params # NULL => ToSet(params) \cap lost = {}
    BY DEF IInv, Owners, Parameters
  <2> QED BY <2>2, <2>3, <2>4 DEF OneOwner, Distinct
<1> QED BY <1>1, InvariantHolds, PTL

\* Every object of any request is deleted once, the parameters behind the answer,
\* or is lost: a value that its member gave up, what a failed conversion had made,
\* the parameters of a request cut before </params>; without such a failure only
\* the first (method.cpp:40-49, 187-198, methodbuilder.cpp:18-24, 121-136).
THEOREM AllDeletedOrLost == Spec => []DeletedOrLost
BY InvariantHolds, PTL DEF IInv

\* However deep a null pointer is in the parameters, it is met before an answer,
\* and only by a function that is registered (method.cpp:55-61).
THEOREM NullsAreMet == Spec => []NullIsNeverAnswered
BY InvariantHolds, PTL DEF IInv

-------------------------------------------------------------------------------
(* The client that reads an answer *)

NodeT == [type : Tag \cup {"none"}, value : Int, items : Seq(Nat)]
State == [open : Seq(NodeT), read : Seq(NodeT)]

\* The state in which f is the innermost element, within those of o.
At(o, f, rd) == [open |-> Append(o, f), read |-> rd]

LEMMA NodeTyped ==
  ASSUME NEW t \in Tag \cup {"none"}, NEW v \in Int, NEW s \in Seq(Nat)
  PROVE  /\ Node(t, v, s) \in NodeT
         /\ Node(t, v, s).type = t /\ Node(t, v, s).value = v /\ Node(t, v, s).items = s
BY DEF Node, NodeT

LEMMA ClosedTyped ==
  ASSUME NEW f \in NodeT, NEW g \in NodeT, NEW k \in Nat
  PROVE  Closed(f, g, k) \in NodeT
<1>1. f.items \in Seq(Nat) /\ g.items \in Seq(Nat) /\ g.value \in Int
  BY DEF NodeT
<1>2. f.items \o g.items \in Seq(Nat) /\ Append(f.items, k) \in Seq(Nat)
  BY <1>1, ConcatProperties, AppendProperties
<1>3. /\ [f EXCEPT !.value = g.value] \in NodeT
      /\ [f EXCEPT !.items = f.items \o g.items] \in NodeT
      /\ [f EXCEPT !.items = Append(f.items, k)] \in NodeT
  BY <1>1, <1>2 DEF NodeT
<1> QED BY <1>3 DEF Closed

LEMMA ReadTyped ==
  ASSUME NEW s \in State, NEW token \in Token
  PROVE  ReadToken(s, token) \in State
<1> DEFINE n == Len(s.open)
           last == s.open[n]
<1>1. s.open \in Seq(NodeT) /\ s.read \in Seq(NodeT) /\ n \in Nat
  BY DEF State
<1>2. s = [open |-> s.open, read |-> s.read]
  BY DEF State
<1>3. CASE token.kind = "open"
  <2>1. token.tag \in Tag
    BY <1>3 DEF Token
  <2>2. Node(token.tag, 0, <<>>) \in NodeT
    <3> DEFINE none == <<>>
    <3>1. none \in Seq(Nat)
      BY EmptySeq
    <3> HIDE DEF none
    <3>2. Node(token.tag, 0, none) \in NodeT
      BY <2>1, <3>1 DEF Node, NodeT
    <3> QED BY <3>2 DEF none
  <2>3. Append(s.open, Node(token.tag, 0, <<>>)) \in Seq(NodeT)
    BY <1>1, <2>2, AppendProperties
  <2>4. ReadToken(s, token) = [s EXCEPT !.open = Append(s.open, Node(token.tag, 0, <<>>))]
    BY <1>3 DEF ReadToken
  <2> QED BY <2>3, <2>4 DEF State
<1>4. CASE token.kind = "text"
  <2>1. token.value \in Int
    BY <1>4 DEF Token
  <2>2. CASE n = 0
    BY <1>4, <2>2 DEF ReadToken
  <2>3. CASE n # 0
    <3> DEFINE g == [last EXCEPT !.value = token.value]
               open == [s.open EXCEPT ![n] = g]
    <3>1. n \in 1 .. n /\ last \in NodeT
      BY <1>1, <2>3, ElementOfSeq
    <3>2. g \in NodeT
      BY <3>1, <2>1 DEF NodeT
    <3>3. open \in Seq(NodeT)
      BY <1>1, <3>1, <3>2, ExceptSeq
    <3>4. ReadToken(s, token) = [s EXCEPT !.open = open]
      BY <1>4, <2>3 DEF ReadToken
    <3> QED BY <3>3, <3>4 DEF State
  <2> QED BY <2>2, <2>3
<1>5. CASE token.kind = "close"
  <2>1. CASE n < 2 \/ last.type # token.tag
    BY <1>5, <2>1 DEF ReadToken
  <2>2. CASE ~(n < 2 \/ last.type # token.tag)
    <3> DEFINE c == Closed(s.open[n - 1], last, Len(s.read) + 1)
               o == SubSeq(s.open, 1, n - 2)
    <3>1. last \in NodeT /\ s.open[n - 1] \in NodeT /\ Len(s.read) + 1 \in Nat
      BY <1>1, <2>2, ElementOfSeq
    <3>2. c \in NodeT
      BY <3>1, ClosedTyped
    <3>3. o \in Seq(NodeT)
      BY <1>1, <2>2, PartProperties
    <3>4. Append(o, c) \in Seq(NodeT) /\ Append(s.read, last) \in Seq(NodeT)
      BY <1>1, <3>1, <3>2, <3>3, AppendProperties
    <3>5. ReadToken(s, token) =
            [open |-> Append(o, c),
             read |-> IF last.type \in Type THEN Append(s.read, last) ELSE s.read]
      BY <1>5, <2>2 DEF ReadToken
    <3> HIDE DEF c, o, last
    <3> QED BY <1>1, <3>4, <3>5 DEF State
  <2> QED BY <2>1, <2>2
<1> QED BY <1>3, <1>4, <1>5 DEF Token

\* The step of ReadText.
Reads == [p \in State \X Token |-> ReadToken(p[1], p[2])]

LEMMA ReadPasses ==
  ASSUME NEW start \in State, NEW text \in Seq(Token)
  PROVE  \E f : /\ PassesOver(f, start, Reads, text, State)
                /\ ReadText(start, text) = f[Len(text)]
<1> DEFINE state == CHOOSE t : t = [n \in 0 .. Len(text) |->
                      IF n = 0 THEN start ELSE ReadToken(t[n - 1], text[n])]
           Is(t) == t = [n \in 0 .. Len(text) |->
                      IF n = 0 THEN start ELSE ReadToken(t[n - 1], text[n])]
<1>1. ReadText(start, text) = state[Len(text)]
  BY DEF ReadText
<1>2. /\ Len(text) \in Nat /\ \A n \in 1 .. Len(text) : text[n] \in Token
      /\ \A n \in 1 .. Len(text) : n - 1 \in 0 .. Len(text) /\ n \in 0 .. Len(text) /\ n # 0
      /\ \A n \in 0 .. Len(text) : n # 0 => n \in 1 .. Len(text)
      /\ 0 \in 0 .. Len(text)
  BY ElementOfSeq
<1>3. Reads \in [State \X Token -> State]
  BY ReadTyped DEF Reads
<1>4. \A s \in State, e \in Token : Reads[<<s, e>>] = ReadToken(s, e)
  BY DEF Reads
<1>5. PICK f \in [0 .. Len(text) -> State] : PassesOver(f, start, Reads, text, State)
  <2> HIDE DEF Is, state
  <2> QED BY <1>3, PassExists
<1>6. Is(f)
  <2>1. f = [n \in 0 .. Len(text) |-> f[n]]
    OBVIOUS
  <2>2. ASSUME NEW n \in 0 .. Len(text)
        PROVE f[n] = IF n = 0 THEN start ELSE ReadToken(f[n - 1], text[n])
    <3>1. n # 0 => f[n - 1] \in State /\ text[n] \in Token
      BY <1>2
    <3>2. n # 0 => f[n] = Reads[<<f[n - 1], text[n]>>]
      BY <1>2, <1>5 DEF PassesOver
    <3>3. f[0] = start
      BY <1>5 DEF PassesOver
    <3> QED BY <3>1, <3>2, <3>3, <1>4
  <2> QED BY <2>1, <2>2
<1>7. Is(state)
  BY <1>6
<1> HIDE DEF state
<1>8. state[0] = start
  BY <1>2, <1>7
<1>9. ASSUME NEW n \in 1 .. Len(text), state[n - 1] \in State
      PROVE state[n] = Reads[<<state[n - 1], text[n]>>]
  <2>1. state[n] = ReadToken(state[n - 1], text[n])
    BY <1>2, <1>7
  <2> QED BY <2>1, <1>2, <1>4, <1>9
<1> HIDE DEF Is
<1>10. PassesOver(state, start, Reads, text, State)
  BY <1>3, <1>8, <1>9, PassTyped
<1> QED BY <1>1, <1>10

\* What one token more changes.
ReadsOn(start, text, token) ==
  /\ ReadText(start, text) \in State
  /\ ReadText(start, Append(text, token)) = ReadToken(ReadText(start, text), token)

LEMMA ReadAppend ==
  ASSUME NEW start \in State, NEW text \in Seq(Token), NEW token \in Token
  PROVE  ReadsOn(start, text, token)
<1> DEFINE more == Append(text, token)
           L == Len(text)
<1>1. /\ more \in Seq(Token) /\ Len(more) = L + 1 /\ L \in Nat
      /\ \A i \in 1 .. L : more[i] = text[i]
      /\ more[L + 1] = token
  BY AppendProperties
<1> HIDE DEF more
<1>2. PICK f : PassesOver(f, start, Reads, text, State) /\ ReadText(start, text) = f[L]
  BY ReadPasses
<1>3. PICK g : PassesOver(g, start, Reads, more, State) /\ ReadText(start, more) = g[L + 1]
  BY <1>1, ReadPasses
<1>4. g[L] = f[L]
  <2>1. Len(more) \in Nat /\ Len(text) <= Len(more)
    BY <1>1
  <2>2. \A n \in 0 .. Len(text) : g[n] = f[n]
    BY <1>1, <1>2, <1>3, <2>1, PassesAgree
  <2> QED BY <1>1, <2>2
<1>5. f[L] \in State
  BY <1>1, <1>2 DEF PassesOver
<1>6. g[L + 1] = Reads[<<g[L], token>>]
  <2>1. L + 1 \in 1 .. Len(more) /\ (L + 1) - 1 = L
    BY <1>1
  <2> QED BY <2>1, <1>1, <1>3 DEF PassesOver
<1>7. Reads[<<f[L], token>>] = ReadToken(f[L], token)
  BY <1>5 DEF Reads
<1> QED BY <1>2, <1>3, <1>4, <1>5, <1>6, <1>7 DEF more, ReadsOn

LEMMA ReadNothing ==
  ASSUME NEW start \in State
  PROVE  ReadText(start, <<>>) = start
<1>1. <<>> \in Seq(Token) /\ Len(<<>>) = 0
  BY EmptySeq
<1>2. PICK f : PassesOver(f, start, Reads, <<>>, State) /\ ReadText(start, <<>>) = f[Len(<<>>)]
  BY <1>1, ReadPasses
<1> QED BY <1>1, <1>2 DEF PassesOver

LEMMA ReadConcat ==
  ASSUME NEW start \in State, NEW s \in Seq(Token), NEW t \in Seq(Token)
  PROVE  /\ ReadText(start, s) \in State
         /\ ReadText(start, s \o t) = ReadText(ReadText(start, s), t)
<1> DEFINE mid == ReadText(start, s)
           T == {u \in Seq(Token) : ReadText(start, s \o u) = ReadText(mid, u)}
<1>1. mid \in State
  <2>1. PICK f : PassesOver(f, start, Reads, s, State) /\ mid = f[Len(s)]
    BY ReadPasses
  <2> QED BY <2>1 DEF PassesOver
<1> HIDE DEF mid
<1>2. <<>> \in T
  <2> DEFINE none == <<>>
  <2>1. s \o none = s /\ none \in Seq(Token)
    BY ConcatEmptySeq, EmptySeq
  <2>2. ReadText(mid, none) = mid
    BY <1>1, ReadNothing
  <2> QED BY <2>1, <2>2 DEF mid
<1>3. ASSUME NEW u \in Seq(Token), NEW e \in Token, u \in T PROVE Append(u, e) \in T
  <2> DEFINE su == s \o u
  <2>1. Append(u, e) \in Seq(Token) /\ su \in Seq(Token)
    BY AppendProperties, ConcatProperties
  <2>2. s \o Append(u, e) = Append(su, e)
    BY ConcatOfAppend
  <2> HIDE DEF su
  <2>3. ReadsOn(start, su, e) /\ ReadsOn(mid, u, e)
    BY <1>1, <2>1, ReadAppend
  <2>4. ReadText(start, su) = ReadText(mid, u)
    BY <1>3 DEF su
  <2>5. ReadText(start, Append(su, e)) = ReadText(mid, Append(u, e))
    BY <2>3, <2>4 DEF ReadsOn
  <2> QED BY <2>1, <2>2, <2>5
<1>4. Seq(Token) \subseteq T
  <2> HIDE DEF T
  <2> QED BY <1>2, <1>3, SeqInduction
<1> QED BY <1>1, <1>4 DEF mid

LEMMA ReadOne ==
  ASSUME NEW start \in State, NEW token \in Token
  PROVE  ReadText(start, <<token>>) = ReadToken(start, token)
<1> DEFINE none == <<>>
<1>1. none \in Seq(Token) /\ Append(none, token) = <<token>>
  BY EmptySeq
<1>2. ReadText(start, none) = start
  BY ReadNothing
<1> HIDE DEF none
<1>3. ReadsOn(start, none, token)
  BY <1>1, ReadAppend
<1> QED BY <1>1, <1>2, <1>3 DEF ReadsOn

-------------------------------------------------------------------------------
(* What a text gives to a client *)

\* What is said of an object that was read stays true as more is read.
Stable(C) ==
  \A rd \in Seq(NodeT), more \in Seq(NodeT), r \in Nat :
    <<rd, r>> \in C => <<rd \o more, r>> \in C

\* Claims on an object that was read, by its number: the objects read and the number.
Claim == {C \in SUBSET (Seq(NodeT) \X Nat) : Stable(C)}

Met(Cs, rd, rs) ==
  Len(rs) = Len(Cs) /\ \A i \in 1 .. Len(Cs) : <<rd, rs[i]>> \in Cs[i]

Gain(f, rs) == [f EXCEPT !.items = @ \o rs]

\* The text adds objects that meet the claims to the element it is in.
Lands(text, o, f, rd, Cs) ==
  \E more \in Seq(NodeT), rs \in Seq(Nat) :
    /\ ReadText(At(o, f, rd), text) = At(o, Gain(f, rs), rd \o more)
    /\ Met(Cs, rd \o more, rs)

Gives(text, Cs) ==
  \A o \in Seq(NodeT), f \in NodeT, rd \in Seq(NodeT) : Lands(text, o, f, rd, Cs)

LEMMA MetMore ==
  ASSUME NEW Cs \in Seq(Claim), NEW rd \in Seq(NodeT), NEW more \in Seq(NodeT),
         NEW rs \in Seq(Nat), Met(Cs, rd, rs)
  PROVE  Met(Cs, rd \o more, rs)
<1>1. \A i \in 1 .. Len(Cs) : Cs[i] \in Claim /\ rs[i] \in Nat
  BY ElementOfSeq DEF Met
<1>2. \A i \in 1 .. Len(Cs) : <<rd \o more, rs[i]>> \in Cs[i]
  BY <1>1 DEF Met, Claim, Stable
<1> QED BY <1>2 DEF Met

LEMMA MetBoth ==
  ASSUME NEW As \in Seq(Claim), NEW Bs \in Seq(Claim), NEW rd,
         NEW as \in Seq(Nat), NEW bs \in Seq(Nat), Met(As, rd, as), Met(Bs, rd, bs)
  PROVE  Met(As \o Bs, rd, as \o bs)
<1> DEFINE Cs == As \o Bs
           cs == as \o bs
<1>1. /\ Cs \in Seq(Claim) /\ Len(Cs) = Len(As) + Len(Bs)
      /\ \A i \in 1 .. Len(As) + Len(Bs) :
           Cs[i] = IF i <= Len(As) THEN As[i] ELSE Bs[i - Len(As)]
  BY ConcatProperties
<1>2. /\ cs \in Seq(Nat) /\ Len(cs) = Len(as) + Len(bs)
      /\ \A i \in 1 .. Len(as) + Len(bs) :
           cs[i] = IF i <= Len(as) THEN as[i] ELSE bs[i - Len(as)]
  BY ConcatProperties
<1>3. Len(as) = Len(As) /\ Len(bs) = Len(Bs) /\ Len(As) \in Nat /\ Len(Bs) \in Nat
  BY DEF Met
<1> HIDE DEF Cs, cs
<1>4. ASSUME NEW i \in 1 .. Len(As) + Len(Bs) PROVE <<rd, cs[i]>> \in Cs[i]
  <2>1. CASE i <= Len(As)
    <3>1. i \in 1 .. Len(As) /\ i \in 1 .. Len(as) + Len(bs) /\ i <= Len(as)
      BY <1>3, <2>1
    <3>2. Cs[i] = As[i] /\ cs[i] = as[i]
      BY <1>1, <1>2, <2>1, <3>1
    <3> QED BY <3>1, <3>2 DEF Met
  <2>2. CASE ~(i <= Len(As))
    <3>1. /\ i - Len(As) \in 1 .. Len(Bs) /\ i \in 1 .. Len(as) + Len(bs)
          /\ ~(i <= Len(as)) /\ i - Len(as) = i - Len(As)
      BY <1>3, <2>2
    <3>2. Cs[i] = Bs[i - Len(As)] /\ cs[i] = bs[i - Len(As)]
      BY <1>1, <1>2, <2>2, <3>1
    <3> QED BY <3>1, <3>2 DEF Met
  <2> QED BY <2>1, <2>2
<1> QED BY <1>1, <1>2, <1>3, <1>4 DEF Met, Cs, cs

LEMMA AtTyped ==
  ASSUME NEW o \in Seq(NodeT), NEW f \in NodeT, NEW rd \in Seq(NodeT)
  PROVE  At(o, f, rd) \in State
BY AppendProperties DEF At, State

LEMMA GainTyped ==
  ASSUME NEW f \in NodeT, NEW rs \in Seq(Nat), NEW qs \in Seq(Nat)
  PROVE  /\ Gain(f, rs) \in NodeT
         /\ Gain(f, rs).type = f.type /\ Gain(f, rs).value = f.value
         /\ Gain(f, rs).items = f.items \o rs
         /\ Gain(Gain(f, rs), qs) = Gain(f, rs \o qs)
<1>1. f.items \in Seq(Nat) /\ f.items \o rs \in Seq(Nat)
  BY ConcatProperties DEF NodeT
<1>2. /\ Gain(f, rs) \in NodeT
      /\ Gain(f, rs).type = f.type /\ Gain(f, rs).value = f.value
      /\ Gain(f, rs).items = f.items \o rs
  BY <1>1 DEF Gain, NodeT
<1>3. (f.items \o rs) \o qs = f.items \o (rs \o qs)
  <2> DEFINE ps == f.items
  <2>1. ps \in Seq(Nat)
    BY <1>1
  <2> HIDE DEF ps
  <2>2. (ps \o rs) \o qs = ps \o (rs \o qs)
    BY <2>1, ConcatAssociative, SMTT(60)
  <2> QED BY <2>2 DEF ps
<1>4. Gain(Gain(f, rs), qs) = [f EXCEPT !.items = (f.items \o rs) \o qs]
  BY <1>1, <1>2 DEF Gain, NodeT
<1> QED BY <1>2, <1>3, <1>4 DEF Gain

LEMMA GainNothing ==
  ASSUME NEW f \in NodeT
  PROVE  Gain(f, <<>>) = f
<1>1. f.items \o <<>> = f.items
  BY ConcatEmptySeq DEF NodeT
<1> QED BY <1>1 DEF Gain, NodeT

LEMMA GivesNothing == Gives(<<>>, <<>>)
<1> DEFINE none == <<>>
<1>1. /\ none \in Seq(NodeT) /\ none \in Seq(Nat) /\ Len(none) = 0
      /\ \A rd \in Seq(NodeT) : rd \o none = rd
      /\ \A f \in NodeT : Gain(f, none) = f
      /\ \A s \in State : ReadText(s, none) = s
  BY EmptySeq, ConcatEmptySeq, GainNothing, ReadNothing
<1> HIDE DEF none
<1>2. \A rd : Met(none, rd, none)
  BY <1>1 DEF Met
<1>3. ASSUME NEW o \in Seq(NodeT), NEW f \in NodeT, NEW rd \in Seq(NodeT)
      PROVE  Lands(none, o, f, rd, none)
  <2>1. ReadText(At(o, f, rd), none) = At(o, Gain(f, none), rd \o none)
    BY <1>1, AtTyped
  <2> QED BY <1>1, <1>2, <2>1 DEF Lands
<1> QED BY <1>3 DEF Gives, none

LEMMA NodesConcat ==
  ASSUME NEW a \in Seq(NodeT), NEW b \in Seq(NodeT), NEW c \in Seq(NodeT)
  PROVE  (a \o b) \o c = a \o (b \o c)
BY ConcatAssociative

LEMMA GivesBoth ==
  ASSUME NEW s \in Seq(Token), NEW t \in Seq(Token),
         NEW As \in Seq(Claim), NEW Bs \in Seq(Claim), Gives(s, As), Gives(t, Bs)
  PROVE  Gives(s \o t, As \o Bs)
<1> SUFFICES ASSUME NEW o \in Seq(NodeT), NEW f \in NodeT, NEW rd \in Seq(NodeT)
             PROVE  Lands(s \o t, o, f, rd, As \o Bs)
  BY DEF Gives
<1>1. PICK more \in Seq(NodeT), rs \in Seq(Nat) :
        /\ ReadText(At(o, f, rd), s) = At(o, Gain(f, rs), rd \o more)
        /\ Met(As, rd \o more, rs)
  BY DEF Gives, Lands
<1> DEFINE g == Gain(f, rs)
           rm == rd \o more
<1>2. g \in NodeT /\ rm \in Seq(NodeT)
  BY GainTyped, ConcatProperties
<1>3. PICK more2 \in Seq(NodeT), qs \in Seq(Nat) :
        /\ ReadText(At(o, g, rm), t) = At(o, Gain(g, qs), rm \o more2)
        /\ Met(Bs, rm \o more2, qs)
  <2> HIDE DEF g, rm
  <2> QED BY <1>2 DEF Gives, Lands
<1>4. ReadText(At(o, f, rd), s \o t) = At(o, Gain(g, qs), rm \o more2)
  <2>1. ReadText(At(o, f, rd), s \o t) = ReadText(ReadText(At(o, f, rd), s), t)
    BY AtTyped, ReadConcat
  <2> QED BY <1>1, <1>3, <2>1
<1>5. Gain(g, qs) = Gain(f, rs \o qs) /\ rs \o qs \in Seq(Nat)
  BY GainTyped, ConcatProperties
<1>6. rm \o more2 = rd \o (more \o more2) /\ more \o more2 \in Seq(NodeT)
  <2>1. rm \o more2 = rd \o (more \o more2)
    BY NodesConcat, Zenon
  <2>2. more \o more2 \in Seq(NodeT)
    BY ConcatProperties
  <2> QED BY <2>1, <2>2
<1>7. Met(As, rm, rs)
  BY <1>1
<1> HIDE DEF g, rm
<1>8. Met(As, rm \o more2, rs)
  BY <1>2, <1>7, MetMore
<1>9. Met(As \o Bs, rm \o more2, rs \o qs)
  BY <1>3, <1>8, MetBoth
<1> QED BY <1>4, <1>5, <1>6, <1>9 DEF Lands

\* A list of elements, each of which gives one object.
LEMMA GivesList ==
  ASSUME NEW list \in Seq(Seq(Token)), NEW Cs \in Seq(Claim), Len(Cs) = Len(list),
         \A i \in 1 .. Len(list) : Gives(list[i], <<Cs[i]>>)
  PROVE  Gives(Concat(list), Cs)
<1> DEFINE All(l, D) == \A i \in 1 .. Len(l) : Gives(l[i], <<D[i]>>)
           T == {l \in Seq(Seq(Token)) : \A D \in Seq(Claim) :
                   Len(D) = Len(l) /\ All(l, D) => Gives(Concat(l), D)}
<1>1. <<>> \in T
  <2> DEFINE none == <<>>
  <2>1. none \in Seq(Seq(Token)) /\ Len(none) = 0 /\ Concat(none) = none /\ Gives(none, none)
    BY EmptySeq, ConcatOfNone, GivesNothing
  <2>2. ASSUME NEW D \in Seq(Claim), Len(D) = 0 PROVE D = none
    BY <2>2, EmptySeq
  <2> HIDE DEF none, All
  <2>3. none \in T
    BY <2>1, <2>2
  <2> QED BY <2>3 DEF none
<1>2. ASSUME NEW l \in Seq(Seq(Token)), NEW t \in Seq(Token), l \in T PROVE Append(l, t) \in T
  <2> DEFINE lt == Append(l, t)
             n == Len(l)
  <2>1. /\ lt \in Seq(Seq(Token)) /\ Len(lt) = n + 1 /\ n \in Nat
        /\ \A i \in 1 .. n : lt[i] = l[i]
        /\ lt[n + 1] = t
    BY AppendProperties
  <2>2. Concat(l) \in Seq(Token) /\ Concat(lt) = Concat(l) \o t
    BY ConcatAppend DEF ConcatGrows
  <2> HIDE DEF lt
  <2>3. ASSUME NEW D \in Seq(Claim), Len(D) = Len(lt), All(lt, D)
        PROVE  Gives(Concat(lt), D)
    <3> DEFINE E == SubSeq(D, 1, n)
               one == <<D[n + 1]>>
    <3>1. 1 \in 1 .. Len(D) /\ n \in 1 - 1 .. Len(D) - 1 /\ n + 1 = Len(D)
          /\ n + 1 \in 1 .. Len(D) /\ n \in 1 - 1 .. Len(D) /\ 1 \in 1 .. Len(D) + 1
          /\ n - 1 + 1 = n
          /\ \A i \in 1 .. n : 1 + i - 1 = i
      BY <2>1, <2>3
    <3>2. E \in Seq(Claim) /\ Len(E) = n /\ \A i \in 1 .. n : E[i] = D[i]
      BY <3>1, PartProperties
    <3>3. D[n + 1] \in Claim
      BY <3>1, ElementOfSeq
    <3>4. D = Append(E, D[n + 1])
      <4>1. SubSeq(D, 1, n + 1) = Append(E, D[n + 1])
        BY <3>1, PartToEnd
      <4> QED BY <3>1, <4>1, WholePart
    <3>5. one \in Seq(Claim) /\ Append(E, D[n + 1]) = E \o one
      <4> HIDE DEF E
      <4> QED BY <3>2, <3>3, AppendIsConcat
    <3>6. Gives(t, one)
      BY <2>1, <2>3
    <3> HIDE DEF E, one
    <3>7. All(l, E)
      <4>1. \A i \in 1 .. n : Gives(lt[i], <<D[i]>>)
        BY <2>1, <2>3
      <4> QED BY <2>1, <3>2, <4>1
    <3> HIDE DEF All
    <3>8. Gives(Concat(l), E)
      BY <1>2, <3>2, <3>7
    <3>9. Gives(Concat(l) \o t, E \o one)
      BY <2>2, <3>2, <3>5, <3>6, <3>8, GivesBoth
    <3> QED BY <2>2, <3>4, <3>5, <3>9
  <2> HIDE DEF All
  <2>4. lt \in T
    BY <2>1, <2>3
  <2> QED BY <2>4 DEF lt
<1>3. Seq(Seq(Token)) \subseteq T
  <2> DEFINE V == Seq(Token)
  <2>1. \A s \in Seq(V) : \A e \in V : s \in T => Append(s, e) \in T
    BY <1>2
  <2> HIDE DEF T, V
  <2>2. Seq(V) \subseteq T
    BY <1>1, <2>1, SeqInduction
  <2> QED BY <2>2 DEF V
<1>4. list \in T
  BY <1>3
<1> QED BY <1>4

LEMMA GivesLess ==
  ASSUME NEW text, NEW A, NEW B, A \subseteq B, Gives(text, <<A>>)
  PROVE  Gives(text, <<B>>)
<1>1. \A rd, rs : Met(<<A>>, rd, rs) => Met(<<B>>, rd, rs)
  BY DEF Met
<1>2. \A o, f, rd : Lands(text, o, f, rd, <<A>>) => Lands(text, o, f, rd, <<B>>)
  BY <1>1 DEF Lands
<1> QED BY <1>2 DEF Gives

-------------------------------------------------------------------------------
(* Elements *)

LEMMA Tokens ==
  /\ \A tag \in Tag : Opening(tag) \in Token /\ Closing(tag) \in Token
  /\ \A v \in Int : Text(v) \in Token
  /\ Type \cap Through = {} /\ "name" \notin Type /\ "name" \notin Through
  /\ Type \subseteq Tag /\ Through \subseteq Tag /\ "name" \in Tag /\ Scalar \subseteq Type
BY DEF Opening, Closing, Text, Token, Tag, Type, Through, Scalar

LEMMA ElementTyped ==
  ASSUME NEW tag \in Tag, NEW inside \in Seq(Token)
  PROVE  Element(tag, inside) \in Seq(Token)
<1> DEFINE a == <<Opening(tag)>>
           z == <<Closing(tag)>>
<1>1. a \in Seq(Token) /\ z \in Seq(Token)
  BY Tokens
<1> HIDE DEF a, z
<1>2. a \o inside \in Seq(Token)
  BY <1>1, ConcatProperties
<1>3. (a \o inside) \o z \in Seq(Token)
  BY <1>1, <1>2, ConcatProperties
<1> QED BY <1>3 DEF Element, a, z

\* A node between the tags of its type.
LEMMA ElementReads ==
  ASSUME NEW o \in Seq(NodeT), NEW f \in NodeT, NEW rd \in Seq(NodeT),
         NEW tag \in Tag, NEW inside \in Seq(Token),
         NEW g \in NodeT, NEW rd2 \in Seq(NodeT), g.type = tag,
         ReadText(At(Append(o, f), Node(tag, 0, <<>>), rd), inside) = At(Append(o, f), g, rd2)
  PROVE  ReadText(At(o, f, rd), Element(tag, inside)) =
           At(o, Closed(f, g, Len(rd2) + 1), IF tag \in Type THEN Append(rd2, g) ELSE rd2)
<1> DEFINE a == <<Opening(tag)>>
           z == <<Closing(tag)>>
           of == Append(o, f)
           node == Node(tag, 0, <<>>)
           s0 == At(o, f, rd)
           s1 == At(of, node, rd)
           s2 == At(of, g, rd2)
<1>1. a \in Seq(Token) /\ z \in Seq(Token) /\ Opening(tag) \in Token /\ Closing(tag) \in Token
  BY Tokens
<1>2. s0 \in State /\ s2 \in State
  BY AtTyped, AppendProperties
<1>3. ReadText(s0, a) = s1
  <2>1. ReadText(s0, a) = ReadToken(s0, Opening(tag))
    BY <1>1, <1>2, ReadOne
  <2>2. ReadToken(s0, Opening(tag)) = s1
    BY DEF ReadToken, Opening, At
  <2> QED BY <2>1, <2>2
<1>4. ReadText(s2, z) =
        At(o, Closed(f, g, Len(rd2) + 1), IF tag \in Type THEN Append(rd2, g) ELSE rd2)
  <2> DEFINE open == Append(of, g)
             n == Len(open)
  <2>1. ReadText(s2, z) = ReadToken(s2, Closing(tag))
    BY <1>1, <1>2, ReadOne
  <2>2. /\ of \in Seq(NodeT) /\ Len(of) = Len(o) + 1 /\ of[Len(o) + 1] = f
        /\ \A i \in 1 .. Len(o) : of[i] = o[i]
    BY AppendProperties
  <2>3. /\ open \in Seq(NodeT) /\ Len(open) = Len(of) + 1 /\ open[Len(of) + 1] = g
        /\ \A i \in 1 .. Len(of) : open[i] = of[i]
    <3> HIDE DEF of
    <3> QED BY <2>2, AppendProperties
  <2>4. n = Len(o) + 2 /\ open[n] = g /\ open[n - 1] = f /\ ~(n < 2) /\ n - 2 = Len(o)
    <3> HIDE DEF of, open
    <3> QED BY <2>2, <2>3
  <2>5. SubSeq(open, 1, n - 2) = o
    <3> HIDE DEF of, open
    <3>0. Len(o) \in Nat
      OBVIOUS
    <3>1. /\ 1 \in 1 .. Len(open) + 1 /\ Len(o) \in 1 - 1 .. Len(open)
          /\ Len(o) - 1 + 1 = Len(o)
          /\ \A i \in 1 .. Len(o) : 1 + i - 1 = i /\ i \in 1 .. Len(of)
      BY <2>2, <2>3, <3>0
    <3> DEFINE p == SubSeq(open, 1, Len(o))
    <3>2. p \in Seq(NodeT) /\ Len(p) = Len(o) /\ \A i \in 1 .. Len(o) : p[i] = open[1 + i - 1]
      BY <2>3, <3>1, PartProperties
    <3> HIDE DEF p
    <3>3. \A i \in 1 .. Len(o) : p[i] = o[i]
      BY <2>2, <2>3, <3>1, <3>2
    <3>4. p = o
      BY <3>2, <3>3, SeqEqual
    <3> QED BY <2>4, <3>4 DEF p
  <2>6. s2.open = open /\ s2.read = rd2
    BY DEF At
  <2> HIDE DEF open, s2, of
  <2>7. Closing(tag).kind = "close" /\ Closing(tag).tag = tag
    BY DEF Closing
  <2>8. ReadToken(s2, Closing(tag)) =
          [open |-> Append(o, Closed(f, g, Len(rd2) + 1)),
           read |-> IF tag \in Type THEN Append(rd2, g) ELSE rd2]
    BY <2>4, <2>5, <2>6, <2>7 DEF ReadToken
  <2> QED BY <2>1, <2>8 DEF At
<1>5. ReadText(s1, inside) = s2
  OBVIOUS
<1> HIDE DEF a, z, s0, s1, s2, of, node
<1>6. a \o inside \in Seq(Token)
  BY <1>1, ConcatProperties
<1>7. ReadText(s0, (a \o inside) \o z) = ReadText(ReadText(s0, a \o inside), z)
  BY <1>1, <1>2, <1>6, ReadConcat
<1>8. ReadText(s0, a \o inside) = ReadText(ReadText(s0, a), inside)
  BY <1>1, <1>2, ReadConcat
<1> QED BY <1>3, <1>4, <1>5, <1>7, <1>8 DEF Element, a, z, s0

\* An element of no type of its own passes on what is in it.
LEMMA GivesThrough ==
  ASSUME NEW tag \in Through, NEW inside \in Seq(Token), NEW Cs, Gives(inside, Cs)
  PROVE  Gives(Element(tag, inside), Cs)
<1> SUFFICES ASSUME NEW o \in Seq(NodeT), NEW f \in NodeT, NEW rd \in Seq(NodeT)
             PROVE  Lands(Element(tag, inside), o, f, rd, Cs)
  BY DEF Gives
<1> DEFINE of == Append(o, f)
           none == <<>>
           node == Node(tag, 0, none)
<1>1. tag \in Tag /\ tag \notin Type /\ tag # "name"
  BY Tokens
<1>2. of \in Seq(NodeT) /\ none \in Seq(Nat)
  BY AppendProperties, EmptySeq
<1>3. node \in NodeT /\ node.type = tag /\ node.items = none
  <2> HIDE DEF none
  <2> QED BY <1>1, <1>2, NodeTyped
<1>4. PICK more \in Seq(NodeT), rs \in Seq(Nat) :
        /\ ReadText(At(of, node, rd), inside) = At(of, Gain(node, rs), rd \o more)
        /\ Met(Cs, rd \o more, rs)
  <2> HIDE DEF of, node
  <2> QED BY <1>2, <1>3 DEF Gives, Lands
<1> DEFINE g == Gain(node, rs)
           rd2 == rd \o more
<1>5. g \in NodeT /\ g.type = tag /\ g.items = rs /\ rd2 \in Seq(NodeT)
  <2>1. g \in NodeT /\ g.type = node.type /\ g.items = node.items \o rs
    <3> HIDE DEF node
    <3> QED BY <1>3, GainTyped
  <2>2. none \o rs = rs
    BY ConcatEmptySeq
  <2> HIDE DEF none, node, g
  <2> QED BY <1>3, <2>1, <2>2, ConcatProperties
<1>6. Closed(f, g, Len(rd2) + 1) = Gain(f, rs)
  <2> HIDE DEF g
  <2> QED BY <1>1, <1>5 DEF Closed, Gain
<1>7. ReadText(At(o, f, rd), Element(tag, inside)) =
        At(o, Closed(f, g, Len(rd2) + 1), IF tag \in Type THEN Append(rd2, g) ELSE rd2)
  <2>1. ReadText(At(Append(o, f), Node(tag, 0, <<>>), rd), inside) = At(Append(o, f), g, rd2)
    BY <1>4
  <2> HIDE DEF g, rd2
  <2> QED BY <1>1, <1>5, <2>1, ElementReads
<1> QED BY <1>1, <1>4, <1>6, <1>7 DEF Lands

\* An object of this type and value, whose items meet claims of their own.
Is(type, value, Cs) ==
  {p \in Seq(NodeT) \X Nat :
     /\ p[2] \in DOMAIN p[1]
     /\ p[1][p[2]].type = type /\ p[1][p[2]].value = value
     /\ Met(Cs, p[1], p[1][p[2]].items)}

LEMMA IsClaim ==
  ASSUME NEW type, NEW value, NEW Cs \in Seq(Claim)
  PROVE  Is(type, value, Cs) \in Claim
<1> DEFINE C == Is(type, value, Cs)
<1>1. C \in SUBSET (Seq(NodeT) \X Nat)
  BY DEF Is
<1>2. ASSUME NEW rd \in Seq(NodeT), NEW more \in Seq(NodeT), NEW r \in Nat, <<rd, r>> \in C
      PROVE  <<rd \o more, r>> \in C
  <2> DEFINE rm == rd \o more
  <2>1. /\ r \in DOMAIN rd /\ rd[r].type = type /\ rd[r].value = value
        /\ Met(Cs, rd, rd[r].items)
    BY <1>2 DEF Is
  <2>2. /\ rm \in Seq(NodeT) /\ Len(rm) = Len(rd) + Len(more)
        /\ \A i \in 1 .. Len(rd) + Len(more) :
             rm[i] = IF i <= Len(rd) THEN rd[i] ELSE more[i - Len(rd)]
    BY ConcatProperties
  <2>3. r \in 1 .. Len(rd) /\ rd[r] \in NodeT /\ Len(rd) \in Nat /\ Len(more) \in Nat
    BY <2>1, ElementOfSeq
  <2>4. rd[r].items \in Seq(Nat)
    BY <2>3 DEF NodeT
  <2>5. Met(Cs, rm, rd[r].items)
    BY <2>1, <2>4, MetMore
  <2> HIDE DEF rm
  <2>6. r \in DOMAIN rm /\ rm[r] = rd[r]
    BY <2>2, <2>3
  <2>7. <<rm, r>> \in C
    BY <2>1, <2>2, <2>5, <2>6 DEF Is
  <2> QED BY <2>7 DEF rm
<1> QED BY <1>1, <1>2 DEF Claim, Stable

\* What is between the tags of an object of this type and value.
Fills(inside, type, value, Cs) ==
  \A o \in Seq(NodeT), rd \in Seq(NodeT) :
    \E more \in Seq(NodeT), rs \in Seq(Nat) :
      /\ ReadText(At(o, Node(type, 0, <<>>), rd), inside) =
           At(o, Node(type, value, rs), rd \o more)
      /\ Met(Cs, rd \o more, rs)

LEMMA GivesObject ==
  ASSUME NEW type \in Type, NEW value \in Int, NEW Cs \in Seq(Claim),
         NEW inside \in Seq(Token), Fills(inside, type, value, Cs)
  PROVE  Gives(Element(type, inside), <<Is(type, value, Cs)>>)
<1> DEFINE C == <<Is(type, value, Cs)>>
<1> SUFFICES ASSUME NEW o \in Seq(NodeT), NEW f \in NodeT, NEW rd \in Seq(NodeT)
             PROVE  Lands(Element(type, inside), o, f, rd, C)
  BY DEF Gives
<1> DEFINE of == Append(o, f)
<1>1. type \in Tag /\ type \notin Through /\ type # "name"
  BY Tokens
<1>2. of \in Seq(NodeT)
  BY AppendProperties
<1>3. PICK more \in Seq(NodeT), rs \in Seq(Nat) :
        /\ ReadText(At(of, Node(type, 0, <<>>), rd), inside) =
             At(of, Node(type, value, rs), rd \o more)
        /\ Met(Cs, rd \o more, rs)
  <2> HIDE DEF of
  <2> QED BY <1>2 DEF Fills
<1> DEFINE g == Node(type, value, rs)
           rd2 == rd \o more
           r == Len(rd2) + 1
           one == <<r>>
           rd3 == Append(rd2, g)
<1>4. g \in NodeT /\ g.type = type /\ g.value = value /\ g.items = rs
  BY <1>1, NodeTyped
<1>5. rd2 \in Seq(NodeT) /\ r \in Nat /\ one \in Seq(Nat) /\ Len(one) = 1 /\ one[1] = r
  BY ConcatProperties
<1>6. Append(f.items, r) = f.items \o one /\ Closed(f, g, r) = Gain(f, one)
  <2>1. f.items \in Seq(Nat)
    BY DEF NodeT
  <2>2. Append(f.items, r) = f.items \o one
    <3> HIDE DEF r
    <3> QED BY <1>5, <2>1, AppendIsConcat
  <2> HIDE DEF g, one, r
  <2> QED BY <1>1, <1>4, <2>2 DEF Closed, Gain
<1>7. ReadText(At(o, f, rd), Element(type, inside)) =
        At(o, Closed(f, g, r), IF type \in Type THEN Append(rd2, g) ELSE rd2)
  <2>1. ReadText(At(Append(o, f), Node(type, 0, <<>>), rd), inside) = At(Append(o, f), g, rd2)
    BY <1>3
  <2> HIDE DEF g, rd2
  <2> QED BY <1>1, <1>4, <1>5, <2>1, ElementReads
<1>8. rd3 = rd \o (more \o <<g>>) /\ more \o <<g>> \in Seq(NodeT)
  <2> DEFINE gs == <<g>>
  <2> HIDE DEF g
  <2>1. gs \in Seq(NodeT)
    BY <1>4
  <2>2. rd3 = rd2 \o gs
    <3> HIDE DEF rd2
    <3> QED BY <1>4, <1>5, AppendIsConcat
  <2> HIDE DEF gs
  <2>3. more \o gs \in Seq(NodeT)
    BY <2>1, ConcatProperties
  <2>4. (rd \o more) \o gs = rd \o (more \o gs)
    BY <2>1, NodesConcat, Zenon
  <2> QED BY <2>2, <2>3, <2>4 DEF gs
<1>9. Met(C, rd3, one)
  <2>1. /\ rd3 \in Seq(NodeT) /\ Len(rd3) = Len(rd2) + 1 /\ rd3[r] = g
    <3> HIDE DEF rd2, g
    <3> QED BY <1>4, <1>5, AppendProperties
  <2>2. Met(Cs, rd3, rs)
    <3> DEFINE gs == <<g>>
    <3> HIDE DEF g
    <3>1. gs \in Seq(NodeT) /\ rd3 = rd2 \o gs
      <4> HIDE DEF rd2
      <4> QED BY <1>4, <1>5, AppendIsConcat
    <3> HIDE DEF gs, rd3
    <3>2. Met(Cs, rd2 \o gs, rs)
      <4>1. Met(Cs, rd2, rs)
        BY <1>3
      <4> HIDE DEF rd2
      <4> QED BY <1>5, <3>1, <4>1, MetMore
    <3> QED BY <3>1, <3>2
  <2> HIDE DEF rd3, g
  <2>3. r \in DOMAIN rd3
    <3> HIDE DEF rd2
    <3> QED BY <1>5, <2>1
  <2>4. <<rd3, r>> \in Is(type, value, Cs)
    <3> HIDE DEF r
    <3> QED BY <1>4, <1>5, <2>1, <2>2, <2>3 DEF Is
  <2>5. Len(C) = 1 /\ C[1] = Is(type, value, Cs)
    OBVIOUS
  <2> HIDE DEF r, one, C
  <2>6. \A i \in 1 .. 1 : i = 1
    OBVIOUS
  <2>7. <<rd3, one[1]>> \in C[1]
    BY <1>5, <2>4, <2>5
  <2> QED BY <1>5, <2>5, <2>6, <2>7 DEF Met
<1> HIDE DEF g, one, rd3, C
<1>10. ReadText(At(o, f, rd), Element(type, inside)) = At(o, Gain(f, one), rd3)
  BY <1>6, <1>7 DEF rd3
<1> QED BY <1>5, <1>8, <1>9, <1>10 DEF Lands

WithValue(f, v) == [f EXCEPT !.value = v]

LEMMA NodeChanged ==
  ASSUME NEW t, NEW v, NEW w, NEW a, NEW b
  PROVE  /\ WithValue(Node(t, v, a), w) = Node(t, w, a)
         /\ Gain(Node(t, v, a), b) = Node(t, v, a \o b)
         /\ Node(t, v, a).type = t /\ Node(t, v, a).value = v
<1> DEFINE n == [type |-> t, value |-> v, items |-> a]
           c == a \o b
<1>1. [n EXCEPT !.value = w] = [type |-> t, value |-> w, items |-> a]
  OBVIOUS
<1>2. n.type = t /\ n.value = v /\ n.items = a
  OBVIOUS
<1>3. [n EXCEPT !.items = c] = [type |-> t, value |-> v, items |-> c]
  <2> HIDE DEF c
  <2> QED OBVIOUS
<1>4. Node(t, v, a) = n
  BY DEF Node
<1> HIDE DEF n
<1>5. Gain(n, b) = Node(t, v, c)
  BY <1>2, <1>3 DEF Gain, Node
<1>6. WithValue(n, w) = Node(t, w, a)
  BY <1>1 DEF WithValue, Node
<1> QED BY <1>2, <1>4, <1>5, <1>6

\* A text is the value of the element it is in.
LEMMA TextReads ==
  ASSUME NEW o \in Seq(NodeT), NEW rd \in Seq(NodeT), NEW tag \in Tag, NEW v \in Int
  PROVE  ReadText(At(o, Node(tag, 0, <<>>), rd), <<Text(v)>>) = At(o, Node(tag, v, <<>>), rd)
<1> DEFINE none == <<>>
           f == Node(tag, 0, none)
           g == Node(tag, v, none)
           open == Append(o, f)
           n == Len(open)
           s == At(o, f, rd)
<1>1. none \in Seq(Nat)
  BY EmptySeq
<1> HIDE DEF none
<1>2. f \in NodeT /\ g \in NodeT /\ g = [f EXCEPT !.value = v]
  <2>1. f \in NodeT /\ g \in NodeT
    BY <1>1 DEF Node, NodeT
  <2>2. g = WithValue(f, v)
    BY NodeChanged
  <2> HIDE DEF f, g
  <2> QED BY <2>1, <2>2 DEF WithValue
<1> HIDE DEF f, g
<1>3. /\ open \in Seq(NodeT) /\ n = Len(o) + 1 /\ open[n] = f /\ Len(o) \in Nat
      /\ \A i \in 1 .. Len(o) : open[i] = o[i]
  BY <1>2, AppendProperties
<1>4. s \in State /\ s.open = open /\ s.read = rd
  BY <1>2, AtTyped DEF At
<1>5. ReadText(s, <<Text(v)>>) = ReadToken(s, Text(v))
  BY <1>4, Tokens, ReadOne
<1>6. ReadToken(s, Text(v)) = [s EXCEPT !.open[n].value = v]
  <2>1. n # 0
    BY <1>3
  <2> QED BY <2>1, <1>4 DEF ReadToken, Text
<1>7. [open EXCEPT ![n] = g] = Append(o, g)
  <2> DEFINE a == [open EXCEPT ![n] = g]
             b == Append(o, g)
  <2>1. n \in 1 .. Len(open)
    BY <1>3
  <2>2. /\ a \in Seq(NodeT) /\ Len(a) = n
        /\ \A i \in 1 .. n : a[i] = IF i = n THEN g ELSE open[i]
    <3> HIDE DEF open
    <3> QED BY <1>2, <1>3, <2>1, ExceptSeq
  <2>3. /\ b \in Seq(NodeT) /\ Len(b) = Len(o) + 1 /\ b[Len(o) + 1] = g
        /\ \A i \in 1 .. Len(o) : b[i] = o[i]
    BY <1>2, AppendProperties
  <2> HIDE DEF a, b, open
  <2>4. \A i \in 1 .. n : i = n \/ i \in 1 .. Len(o)
    BY <1>3
  <2>5. \A i \in 1 .. n : a[i] = b[i]
    BY <1>3, <2>2, <2>3, <2>4
  <2>6. a = b
    BY <1>3, <2>2, <2>3, <2>5, SeqEqual
  <2> QED BY <2>6 DEF a, b
<1>8. [s EXCEPT !.open[n].value = v] = [open |-> [open EXCEPT ![n] = g], read |-> rd]
  <2>1. s = [open |-> open, read |-> rd]
    BY DEF At
  <2> HIDE DEF s
  <2>2. [s EXCEPT !.open[n].value = v] =
          [open |-> [open EXCEPT ![n] = [open[n] EXCEPT !.value = v]], read |-> rd]
    <3> HIDE DEF open, n
    <3> QED BY <2>1, SMTT(30)
  <2> QED BY <1>2, <1>3, <2>2
<1>9. ReadText(s, <<Text(v)>>) = At(o, g, rd)
  BY <1>5, <1>6, <1>7, <1>8 DEF At
<1> QED BY <1>9 DEF s, f, g, none

LEMMA FillsScalar ==
  ASSUME NEW type \in Type, NEW v \in Int
  PROVE  Fills(<<Text(v)>>, type, v, <<>>)
<1> DEFINE none == <<>>
           text == <<Text(v)>>
<1>1. /\ none \in Seq(NodeT) /\ none \in Seq(Nat) /\ Len(none) = 0
      /\ \A rd \in Seq(NodeT) : rd \o none = rd
  BY EmptySeq, ConcatEmptySeq
<1>2. \A o \in Seq(NodeT), rd \in Seq(NodeT) :
        ReadText(At(o, Node(type, 0, none), rd), text) = At(o, Node(type, v, none), rd)
  BY Tokens, TextReads
<1> HIDE DEF none, text
<1>3. \A rd : Met(none, rd, none)
  BY <1>1 DEF Met
<1>4. ASSUME NEW o \in Seq(NodeT), NEW rd \in Seq(NodeT)
      PROVE \E more \in Seq(NodeT), rs \in Seq(Nat) :
              /\ ReadText(At(o, Node(type, 0, none), rd), text)
                   = At(o, Node(type, v, rs), rd \o more)
              /\ Met(none, rd \o more, rs)
  <2>1. ReadText(At(o, Node(type, 0, none), rd), text) = At(o, Node(type, v, none), rd \o none)
    BY <1>1, <1>2
  <2> QED BY <1>1, <1>3, <2>1
<1> QED BY <1>4 DEF Fills, none, text

LEMMA FillsObject ==
  ASSUME NEW type \in Type, NEW inside, NEW Cs, Gives(inside, Cs)
  PROVE  Fills(inside, type, 0, Cs)
<1> DEFINE none == <<>>
           f == Node(type, 0, none)
<1>1. none \in Seq(Nat)
  BY EmptySeq
<1>2. f \in NodeT /\ \A rs \in Seq(Nat) : Gain(f, rs) = Node(type, 0, rs)
  <2>1. \A rs \in Seq(Nat) : none \o rs = rs
    BY ConcatEmptySeq
  <2> HIDE DEF none
  <2>2. f \in NodeT
    BY <1>1, Tokens DEF Node, NodeT
  <2>3. \A rs : Gain(f, rs) = Node(type, 0, none \o rs)
    BY NodeChanged
  <2> QED BY <2>1, <2>2, <2>3
<1> HIDE DEF f
<1>3. ASSUME NEW o \in Seq(NodeT), NEW rd \in Seq(NodeT)
      PROVE \E more \in Seq(NodeT), rs \in Seq(Nat) :
              /\ ReadText(At(o, f, rd), inside) = At(o, Node(type, 0, rs), rd \o more)
              /\ Met(Cs, rd \o more, rs)
  <2>1. Lands(inside, o, f, rd, Cs)
    BY <1>2 DEF Gives
  <2> QED BY <1>2, <2>1 DEF Lands
<1> QED BY <1>3 DEF Fills, f

LEMMA FillsMember ==
  ASSUME NEW label \in Int, NEW b \in Seq(Token), NEW Cs, Gives(b, Cs)
  PROVE  Fills(Element("name", <<Text(label)>>) \o b, "member", label, Cs)
<1> DEFINE none == <<>>
           f == Node("member", 0, none)
           g == Node("member", label, none)
           nm == Node("name", label, none)
           text == <<Text(label)>>
           el == Element("name", text)
<1>1. none \in Seq(Nat) /\ 0 \in Int
  BY EmptySeq
<1>2. text \in Seq(Token) /\ el \in Seq(Token) /\ "name" \in Tag /\ "member" \in Tag
      /\ "name" \notin Type
  <2>1. text \in Seq(Token) /\ "name" \in Tag /\ "member" \in Tag /\ "name" \notin Type
    BY Tokens DEF Type
  <2> HIDE DEF text
  <2> QED BY <2>1, ElementTyped
<1>3. \A o \in Seq(NodeT), rd \in Seq(NodeT) :
        ReadText(At(o, Node("name", 0, none), rd), text) = At(o, nm, rd)
  BY <1>2, TextReads
<1>4. \A rs \in Seq(Nat) : Gain(g, rs) = Node("member", label, rs)
  <2>1. \A rs \in Seq(Nat) : none \o rs = rs
    BY ConcatEmptySeq
  <2> HIDE DEF none
  <2>2. \A rs : Gain(g, rs) = Node("member", label, none \o rs)
    BY NodeChanged
  <2> HIDE DEF g
  <2> QED BY <2>1, <2>2
<1> HIDE DEF none
<1>5. f \in NodeT /\ g \in NodeT /\ nm \in NodeT /\ nm.type = "name" /\ nm.value = label
  BY <1>1, <1>2 DEF Node, NodeT
<1>6. \A k : Closed(f, nm, k) = g
  <2>1. WithValue(f, label) = g
    BY NodeChanged
  <2>2. nm.type = "name" /\ nm.value = label /\ "name" \notin Through
    BY NodeChanged, Tokens
  <2> HIDE DEF f, g, nm
  <2> QED BY <2>1, <2>2 DEF Closed, WithValue
<1> HIDE DEF f, g, nm, text, el
<1>7. ASSUME NEW o \in Seq(NodeT), NEW rd \in Seq(NodeT)
      PROVE  ReadText(At(o, f, rd), el) = At(o, g, rd)
  <2> DEFINE of == Append(o, f)
  <2>1. of \in Seq(NodeT)
    BY <1>5, AppendProperties
  <2> HIDE DEF of
  <2>2. ReadText(At(of, Node("name", 0, none), rd), text) = At(of, nm, rd)
    BY <1>3, <2>1
  <2>3. ReadText(At(Append(o, f), Node("name", 0, <<>>), rd), text) = At(Append(o, f), nm, rd)
    BY <2>2 DEF none, of
  <2>4. ReadText(At(o, f, rd), Element("name", text)) =
          At(o, Closed(f, nm, Len(rd) + 1), IF "name" \in Type THEN Append(rd, nm) ELSE rd)
    BY <1>2, <1>5, <2>3, ElementReads
  <2> QED BY <1>2, <1>6, <2>4 DEF el
<1>8. ASSUME NEW o \in Seq(NodeT), NEW rd \in Seq(NodeT)
      PROVE \E more \in Seq(NodeT), rs \in Seq(Nat) :
              /\ ReadText(At(o, f, rd), el \o b) = At(o, Node("member", label, rs), rd \o more)
              /\ Met(Cs, rd \o more, rs)
  <2>1. ReadText(At(o, f, rd), el \o b) = ReadText(ReadText(At(o, f, rd), el), b)
    BY <1>2, <1>5, AtTyped, ReadConcat
  <2>2. Lands(b, o, g, rd, Cs)
    BY <1>5 DEF Gives
  <2> QED BY <1>4, <1>7, <2>1, <2>2 DEF Lands
<1> QED BY <1>8 DEF Fills, f, el, text, none

-------------------------------------------------------------------------------
(* What the objects' toXmlTag gives *)

\* The text gives objects that meet the claims, one for each.
Tells(text, Cs) == text \in Seq(Token) /\ Cs \in Seq(Claim) /\ Gives(text, Cs)

\* Every text of a list gives one object.
TellAll(texts, Cs) ==
  /\ texts \in Seq(Seq(Token)) /\ Cs \in Seq(Claim) /\ Len(Cs) = Len(texts)
  /\ \A i \in 1 .. Len(texts) : Gives(texts[i], <<Cs[i]>>)

LEMMA ConcatTyped ==
  ASSUME NEW S, NEW ss \in Seq(Seq(S))
  PROVE  Concat(ss) \in Seq(S)
<1>1. PICK f : PassesOver(f, <<>>, Joins(S), ss, Seq(S)) /\ Concat(ss) = f[Len(ss)]
  BY ConcatPasses
<1>2. Len(ss) \in 0 .. Len(ss)
  OBVIOUS
<1> QED BY <1>1, <1>2 DEF PassesOver

LEMMA ListTells ==
  ASSUME NEW texts, NEW Cs, TellAll(texts, Cs)
  PROVE  Tells(Concat(texts), Cs)
BY ConcatTyped, GivesList DEF TellAll, Tells

LEMMA ThroughTells ==
  ASSUME NEW tag \in Through, NEW inside, NEW Cs, Tells(inside, Cs)
  PROVE  Tells(Element(tag, inside), Cs)
<1>1. tag \in Tag
  BY Tokens
<1> QED BY <1>1, ElementTyped, GivesThrough DEF Tells

LEMMA ObjectTells ==
  ASSUME NEW type \in Type, NEW value \in Int, NEW Cs \in Seq(Claim),
         NEW inside \in Seq(Token), Fills(inside, type, value, Cs)
  PROVE  Tells(Element(type, inside), <<Is(type, value, Cs)>>)
<1>1. Is(type, value, Cs) \in Claim /\ type \in Tag
  BY IsClaim, Tokens
<1>2. <<Is(type, value, Cs)>> \in Seq(Claim)
  BY <1>1
<1> QED BY <1>1, <1>2, ElementTyped, GivesObject DEF Tells

LEMMA ValuesTell ==
  ASSUME NEW texts, NEW Cs, TellAll(texts, Cs)
  PROVE  Tells(Values(texts), Cs)
<1> DEFINE E == [i \in 1 .. Len(texts) |-> Element("value", texts[i])]
           L == Len(texts)
<1>1. "value" \in Through /\ "value" \in Tag
  BY Tokens DEF Through
<1>2. \A i \in 1 .. L : texts[i] \in Seq(Token)
  BY ElementOfSeq DEF TellAll
<1>3. \A i \in 1 .. L : /\ Element("value", texts[i]) \in Seq(Token)
                        /\ Gives(Element("value", texts[i]), <<Cs[i]>>)
  BY <1>1, <1>2, ElementTyped, GivesThrough DEF TellAll
<1>4. E \in Seq(Seq(Token)) /\ Len(E) = L /\ \A i \in 1 .. L : E[i] = Element("value", texts[i])
  <2> DEFINE V == Seq(Token)
  <2>1. L \in Nat
    BY DEF TellAll
  <2>3. \A i \in 1 .. L : Element("value", texts[i]) \in V
    BY <1>3
  <2> HIDE DEF V
  <2>2. E \in Seq(V) /\ Len(E) = L /\ \A i \in 1 .. L : E[i] = Element("value", texts[i])
    BY <2>1, <2>3
  <2> QED BY <2>2 DEF V
<1> HIDE DEF E
<1>5. TellAll(E, Cs)
  BY <1>3, <1>4 DEF TellAll
<1>6. Tells(Concat(E), Cs)
  BY <1>5, ListTells
<1> QED BY <1>6 DEF Values, E

LEMMA DigitsInt == \A type, v : v \in Int => Digits(type, v) \in Int
BY DEF Digits

LEMMA ScalarTells ==
  ASSUME NEW type \in Scalar, NEW v \in Int
  PROVE  Tells(ScalarTag(type, v), <<Is(type, Digits(type, v), <<>>)>>)
<1> DEFINE d == Digits(type, v)
           text == <<Text(d)>>
           none == <<>>
<1>1. d \in Int /\ type \in Type
  BY DigitsInt, Tokens
<1> HIDE DEF d
<1>2. text \in Seq(Token) /\ none \in Seq(Claim)
  BY <1>1, Tokens, EmptySeq
<1>3. Fills(text, type, d, none)
  BY <1>1, FillsScalar
<1> HIDE DEF text, none
<1>4. Tells(Element(type, text), <<Is(type, d, none)>>)
  BY <1>1, <1>2, <1>3, ObjectTells
<1> QED BY <1>4 DEF ScalarTag, text, none, d

LEMMA ArrayTells ==
  ASSUME NEW texts, NEW Cs, TellAll(texts, Cs)
  PROVE  Tells(ArrayTag(texts), <<Is("array", 0, Cs)>>)
<1> DEFINE inside == Element("data", Values(texts))
<1>1. "data" \in Through /\ "array" \in Type
  BY DEF Through, Type
<1>2. Tells(inside, Cs)
  BY <1>1, ValuesTell, ThroughTells
<1> HIDE DEF inside
<1>3. Fills(inside, "array", 0, Cs)
  BY <1>1, <1>2, FillsObject DEF Tells
<1>4. Tells(Element("array", inside), <<Is("array", 0, Cs)>>)
  BY <1>1, <1>2, <1>3, ObjectTells DEF Tells
<1> QED BY <1>4 DEF ArrayTag, inside

LEMMA StructTells ==
  ASSUME NEW texts, NEW Cs, TellAll(texts, Cs)
  PROVE  Tells(StructTag(texts), <<Is("struct", 0, Cs)>>)
<1> DEFINE inside == Concat(texts)
<1>1. "struct" \in Type
  BY DEF Type
<1>2. Tells(inside, Cs)
  BY ListTells
<1> HIDE DEF inside
<1>3. Fills(inside, "struct", 0, Cs)
  BY <1>1, <1>2, FillsObject DEF Tells
<1>4. Tells(Element("struct", inside), <<Is("struct", 0, Cs)>>)
  BY <1>1, <1>2, <1>3, ObjectTells DEF Tells
<1> QED BY <1>4 DEF StructTag, inside

LEMMA MemberTells ==
  ASSUME NEW label \in Int, NEW texts, NEW Cs, TellAll(texts, Cs)
  PROVE  Tells(MemberTag(label, texts), <<Is("member", label, Cs)>>)
<1> DEFINE b == Values(texts)
           text == <<Text(label)>>
           el == Element("name", text)
           inside == el \o b
<1>1. "member" \in Type
  BY DEF Type
<1>2. Tells(b, Cs)
  BY ValuesTell
<1>3. text \in Seq(Token) /\ el \in Seq(Token)
  <2>1. text \in Seq(Token) /\ "name" \in Tag
    BY Tokens
  <2> HIDE DEF text
  <2> QED BY <2>1, ElementTyped
<1> HIDE DEF b
<1>4. Fills(inside, "member", label, Cs)
  BY <1>2, FillsMember DEF Tells
<1> HIDE DEF text, el
<1>5. inside \in Seq(Token)
  BY <1>2, <1>3, ConcatProperties DEF Tells
<1> HIDE DEF inside
<1>6. Tells(Element("member", inside), <<Is("member", label, Cs)>>)
  BY <1>1, <1>2, <1>4, <1>5, ObjectTells DEF Tells
<1> QED BY <1>6 DEF MemberTag, inside, el, text, b

-------------------------------------------------------------------------------
(* The functions over the heap *)

\* What the object that is o says of itself, given the texts of its items.
OwnTag(o, below) ==
  CASE o.type \in Scalar -> ScalarTag(o.type, o.value)
    [] o.type = "array" -> ArrayTag(below)
    [] o.type = "struct" -> StructTag(below)
    [] o.type = "member" -> MemberTag(o.value, below)

ItemTags(o, tag) ==
  [i \in 1 .. Len(o.items) |-> IF o.items[i] = 0 THEN <<>> ELSE tag[o.items[i]]]

LEMMA ValuesTyped ==
  ASSUME NEW texts \in Seq(Seq(Token))
  PROVE  Values(texts) \in Seq(Token)
<1> DEFINE E == [i \in 1 .. Len(texts) |-> Element("value", texts[i])]
           L == Len(texts)
           V == Seq(Token)
<1>1. "value" \in Tag
  BY Tokens DEF Through
<1>2. \A i \in 1 .. L : texts[i] \in V
  BY ElementOfSeq
<1>3. L \in Nat /\ \A i \in 1 .. L : Element("value", texts[i]) \in V
  BY <1>1, <1>2, ElementTyped
<1>4. E \in Seq(V)
  <2> HIDE DEF V
  <2> QED BY <1>3
<1> HIDE DEF E
<1>5. Concat(E) \in Seq(Token)
  BY <1>4, ConcatTyped
<1> QED BY <1>5 DEF Values, E

LEMMA OwnTagTyped ==
  ASSUME NEW o \in Object, NEW below \in Seq(Seq(Token))
  PROVE  OwnTag(o, below) \in Seq(Token)
<1>1. o.type \in Type /\ o.value \in Int
  BY DEF Object
<1>2. \A tag \in {"data", "array", "struct", "member", "name"} : tag \in Tag
  BY DEF Tag, Through, Type
<1>3. \A type \in Scalar : ScalarTag(type, o.value) \in Seq(Token)
  BY <1>1, ScalarTells DEF Tells
<1>4. Values(below) \in Seq(Token) /\ Concat(below) \in Seq(Token)
  BY ValuesTyped, ConcatTyped
<1>5. ArrayTag(below) \in Seq(Token)
  BY <1>2, <1>4, ElementTyped DEF ArrayTag
<1>6. StructTag(below) \in Seq(Token)
  BY <1>2, <1>4, ElementTyped DEF StructTag
<1>7. MemberTag(o.value, below) \in Seq(Token)
  <2> DEFINE text == <<Text(o.value)>>
             v == Values(below)
             el == Element("name", text)
  <2>1. text \in Seq(Token)
    BY <1>1, Tokens
  <2> HIDE DEF text
  <2>2. el \in Seq(Token) /\ v \in Seq(Token)
    BY <1>2, <1>4, <2>1, ElementTyped
  <2> HIDE DEF el, v
  <2>3. el \o v \in Seq(Token)
    BY <2>2, ConcatProperties
  <2>4. Element("member", el \o v) \in Seq(Token)
    BY <1>2, <2>3, ElementTyped
  <2> QED BY <2>4 DEF MemberTag, el, v, text
<1>8. o.type \in Scalar \/ o.type = "array" \/ o.type = "struct" \/ o.type = "member"
  BY <1>1 DEF Type
<1>9. "array" \notin Scalar /\ "struct" \notin Scalar /\ "member" \notin Scalar
  BY DEF Scalar
<1> QED BY <1>3, <1>5, <1>6, <1>7, <1>8, <1>9 DEF OwnTag

\* The tags of the objects of a heap.
Tagged(h) == \A k \in DOMAIN h : ToXmlTag(h)[k] = OwnTag(h[k], ItemTags(h[k], ToXmlTag(h)))

LEMMA TagsExist ==
  ASSUME NEW h, Shaped(h), \A k \in DOMAIN h : h[k] \in Object
  PROVE  Tagged(h)
<1> DEFINE S == DOMAIN h
           V == Seq(Token)
           rank == [k \in S |-> k]
           Tg(k, g) == OwnTag(h[k], ItemTags(h[k], g))
           F == [k \in S |-> [g \in [S -> V] |-> Tg(k, g)]]
<1>1. PICK top \in Nat : \A k \in S : k <= top
  BY DEF Shaped
<1>2. Ranks(rank, S, top)
  BY <1>1 DEF Ranks, Shaped
<1>3. \A k \in S : /\ h[k].items \in Seq(Nat) /\ Len(h[k].items) \in Nat
                   /\ \A i \in 1 .. Len(h[k].items) :
                        h[k].items[i] # 0 => h[k].items[i] \in S /\ h[k].items[i] < k
  BY DEF Shaped, Below, ToSet, Object
<1>4. \A k \in S : \A g \in [S -> V] : Tg(k, g) \in V
  <2> SUFFICES ASSUME NEW k \in S, NEW g \in [S -> V] PROVE Tg(k, g) \in V
    OBVIOUS
  <2> DEFINE below == ItemTags(h[k], g)
             L == Len(h[k].items)
  <2>1. <<>> \in V
    BY EmptySeq
  <2> HIDE DEF V
  <2>2. \A i \in 1 .. L : (IF h[k].items[i] = 0 THEN <<>> ELSE g[h[k].items[i]]) \in V
    BY <1>3, <2>1
  <2>3. below \in Seq(V)
    BY <1>3, <2>2 DEF ItemTags
  <2> HIDE DEF below
  <2>4. OwnTag(h[k], below) \in V
    BY <2>3, OwnTagTyped DEF V
  <2> QED BY <2>4 DEF below
<1>5. F \in [S -> [[S -> V] -> V]]
  BY <1>4
<1>6. LooksBack(F, S, V, rank)
  <2>1. ASSUME NEW k \in S, NEW f \in [S -> V], NEW g \in [S -> V],
               \A j \in S : rank[j] < rank[k] => f[j] = g[j]
        PROVE  F[k][f] = F[k][g]
    <3>1. \A i \in 1 .. Len(h[k].items) :
            h[k].items[i] # 0 => f[h[k].items[i]] = g[h[k].items[i]]
      BY <1>3, <2>1
    <3>2. ItemTags(h[k], f) = ItemTags(h[k], g)
      BY <3>1 DEF ItemTags
    <3>3. Tg(k, f) = Tg(k, g)
      BY <3>2
    <3> QED BY <3>3
  <2> QED BY <2>1 DEF LooksBack
<1>7. V # {}
  BY EmptySeq
<1>8. \E f : Solves(f, F, S, V)
  <2> HIDE DEF S, V, rank, F
  <2> QED BY <1>2, <1>5, <1>6, <1>7, RankRecursion
<1>9. PICK f : Solves(f, F, S, V)
  BY <1>8
<1>10. f = [k \in S |-> Tg(k, f)]
  BY <1>9 DEF Solves
<1> DEFINE tree == CHOOSE tag : tag = [k \in DOMAIN h |->
              LET o == h[k]
                  below == [i \in 1 .. Len(o.items) |->
                              IF o.items[i] = 0 THEN <<>> ELSE tag[o.items[i]]]
              IN  CASE o.type \in Scalar -> ScalarTag(o.type, o.value)
                    [] o.type = "array" -> ArrayTag(below)
                    [] o.type = "struct" -> StructTag(below)
                    [] o.type = "member" -> MemberTag(o.value, below)]
           IsTg(g) == g = [k \in S |-> Tg(k, g)]
<1>11. IsTg(tree)
  BY <1>10 DEF OwnTag, ItemTags
<1>12. ToXmlTag(h) = tree
  BY DEF ToXmlTag
<1> HIDE DEF tree, IsTg
<1> DEFINE t == ToXmlTag(h)
<1>13. IsTg(t)
  BY <1>11, <1>12
<1> QED BY <1>13 DEF Tagged, IsTg

\* The objects read that give back object k, given those that give back its items.
OwnBack(h, read, factor, junk, k, back) ==
  {r \in DOMAIN read :
     /\ read[r].type = h[k].type
     /\ read[r].value = Due(h[k], factor, junk)
     /\ Len(read[r].items) = Len(h[k].items)
     /\ \A i \in 1 .. Len(h[k].items) :
          h[k].items[i] # 0 /\ read[r].items[i] \in back[h[k].items[i]]}

GivenBack(h, read, factor, junk) ==
  \A k \in DOMAIN h :
    GivesBack(h, read, factor, junk)[k] =
      OwnBack(h, read, factor, junk, k, GivesBack(h, read, factor, junk))

LEMMA BackExists ==
  ASSUME NEW h, Shaped(h), NEW read, NEW factor, NEW junk
  PROVE  GivenBack(h, read, factor, junk)
<1> DEFINE S == DOMAIN h
           V == SUBSET DOMAIN read
           rank == [k \in S |-> k]
           B(k, g) == OwnBack(h, read, factor, junk, k, g)
           F == [k \in S |-> [g \in [S -> V] |-> B(k, g)]]
<1>1. PICK top \in Nat : \A k \in S : k <= top
  BY DEF Shaped
<1>2. Ranks(rank, S, top)
  BY <1>1 DEF Ranks, Shaped
<1>3. \A k \in S : \A i \in DOMAIN h[k].items :
        h[k].items[i] # 0 => h[k].items[i] \in S /\ h[k].items[i] < k
  BY DEF Shaped, Below, ToSet
<1>4. F \in [S -> [[S -> V] -> V]]
  BY DEF OwnBack
<1>6. LooksBack(F, S, V, rank)
  <2>1. ASSUME NEW k \in S, NEW f \in [S -> V], NEW g \in [S -> V],
               \A j \in S : rank[j] < rank[k] => f[j] = g[j]
        PROVE  F[k][f] = F[k][g]
    <3>1. \A i \in DOMAIN h[k].items : h[k].items[i] # 0 => f[h[k].items[i]] = g[h[k].items[i]]
      BY <1>3, <2>1
    <3>2. B(k, f) = B(k, g)
      BY <3>1 DEF OwnBack
    <3> QED BY <3>2
  <2> QED BY <2>1 DEF LooksBack
<1>8. \E f : Solves(f, F, S, V)
  <2>1. V # {}
    OBVIOUS
  <2> HIDE DEF S, V, rank, F
  <2> QED BY <1>2, <1>4, <1>6, <2>1, RankRecursion
<1>9. PICK f : Solves(f, F, S, V)
  BY <1>8
<1>10. f = [k \in S |-> B(k, f)]
  BY <1>9 DEF Solves
<1> DEFINE tree == CHOOSE back : back = [k \in DOMAIN h |->
        {r \in DOMAIN read :
           /\ read[r].type = h[k].type
           /\ read[r].value = Due(h[k], factor, junk)
           /\ Len(read[r].items) = Len(h[k].items)
           /\ \A i \in 1 .. Len(h[k].items) :
                h[k].items[i] # 0 /\ read[r].items[i] \in back[h[k].items[i]]}]
           IsB(g) == g = [k \in S |-> B(k, g)]
<1>11. IsB(tree)
  BY <1>10 DEF OwnBack
<1>12. GivesBack(h, read, factor, junk) = tree
  BY DEF GivesBack
<1> HIDE DEF tree, IsB
<1> DEFINE t == GivesBack(h, read, factor, junk)
<1>13. IsB(t)
  BY <1>11, <1>12
<1> QED BY <1>13 DEF GivenBack, IsB

\* What gives object k back is a claim on an object that was read.
Back(g, k, factor, junk) ==
  {p \in Seq(NodeT) \X Nat : p[2] \in GivesBack(g, p[1], factor, junk)[k]}

LEMMA BackClaim ==
  ASSUME NEW g, Shaped(g), NEW factor, NEW junk
  PROVE  \A k \in DOMAIN g : Back(g, k, factor, junk) \in Claim
<1> DEFINE S == DOMAIN g
           rank == [k \in S |-> k]
           T == {k \in S : Stable(Back(g, k, factor, junk))}
<1>1. rank \in [S -> Nat]
  BY DEF Shaped
<1>2. ASSUME NEW k \in S, \A j \in S : rank[j] < rank[k] => j \in T
      PROVE  k \in T
  <2> SUFFICES ASSUME NEW rd \in Seq(NodeT), NEW more \in Seq(NodeT), NEW r \in Nat,
                      <<rd, r>> \in Back(g, k, factor, junk)
               PROVE  <<rd \o more, r>> \in Back(g, k, factor, junk)
    BY DEF Stable
  <2> DEFINE rm == rd \o more
             old == GivesBack(g, rd, factor, junk)
             new == GivesBack(g, rm, factor, junk)
  <2>1. rm \in Seq(NodeT) /\ Len(rm) = Len(rd) + Len(more)
        /\ \A i \in 1 .. Len(rd) + Len(more) :
             rm[i] = IF i <= Len(rd) THEN rd[i] ELSE more[i - Len(rd)]
    BY ConcatProperties
  <2> HIDE DEF rm
  <2>2. /\ old[k] = OwnBack(g, rd, factor, junk, k, old)
        /\ new[k] = OwnBack(g, rm, factor, junk, k, new)
    BY BackExists DEF GivenBack
  <2>3. r \in old[k]
    BY DEF Back
  <2> HIDE DEF old, new
  <2>4. r \in DOMAIN rd /\ rd[r] \in NodeT /\ r \in DOMAIN rm /\ rm[r] = rd[r]
    <3>1. r \in DOMAIN rd
      BY <2>2, <2>3 DEF OwnBack
    <3>2. r \in 1 .. Len(rd) /\ Len(rd) \in Nat /\ Len(more) \in Nat
      BY <3>1
    <3> QED BY <2>1, <3>1, <3>2, ElementOfSeq
  <2>5. \A i \in 1 .. Len(g[k].items) : rd[r].items[i] \in new[g[k].items[i]]
    <3> SUFFICES ASSUME NEW i \in 1 .. Len(g[k].items)
                 PROVE  rd[r].items[i] \in new[g[k].items[i]]
      OBVIOUS
    <3> DEFINE j == g[k].items[i]
               q == rd[r].items[i]
    <3>1. j # 0 /\ q \in old[j] /\ Len(rd[r].items) = Len(g[k].items)
      BY <2>2, <2>3 DEF OwnBack
    <3>2. q \in Nat
      <4>1. rd[r].items \in Seq(Nat)
        BY <2>4 DEF NodeT
      <4> QED BY <3>1, <4>1, ElementOfSeq
    <3>3. j \in S /\ j < k
      <4>1. j \in Below(g, k)
        <5>1. i \in DOMAIN g[k].items
          BY DEF Shaped
        <5> QED BY <3>1, <5>1 DEF Below, ToSet
      <4> QED BY <4>1 DEF Shaped
    <3>4. Stable(Back(g, j, factor, junk))
      BY <1>2, <3>3
    <3> HIDE DEF j, q
    <3>5. <<rd, q>> \in Back(g, j, factor, junk)
      BY <3>1, <3>2 DEF Back, old
    <3>6. <<rm, q>> \in Back(g, j, factor, junk)
      BY <3>2, <3>4, <3>5 DEF Stable, rm
    <3>7. q \in new[j]
      BY <3>6 DEF Back, new
    <3> QED BY <3>7 DEF q, j
  <2>6. /\ rm[r].type = g[k].type /\ rm[r].value = Due(g[k], factor, junk)
        /\ Len(rm[r].items) = Len(g[k].items)
        /\ \A i \in 1 .. Len(g[k].items) : g[k].items[i] # 0
    <3>1. /\ rd[r].type = g[k].type /\ rd[r].value = Due(g[k], factor, junk)
          /\ Len(rd[r].items) = Len(g[k].items)
          /\ \A i \in 1 .. Len(g[k].items) : g[k].items[i] # 0
      BY <2>2, <2>3 DEF OwnBack
    <3> QED BY <2>4, <3>1
  <2>7. \A i \in 1 .. Len(g[k].items) : rm[r].items[i] \in new[g[k].items[i]]
    BY <2>4, <2>5
  <2>8. r \in OwnBack(g, rm, factor, junk, k, new)
    BY <2>4, <2>6, <2>7 DEF OwnBack
  <2>9. r \in new[k]
    BY <2>2, <2>8
  <2> QED BY <2>1, <2>9 DEF Back, new, rm
<1>3. S \subseteq T
  <2> HIDE DEF S, T, rank
  <2> QED BY <1>1, <1>2, RankInduction
<1> QED BY <1>3 DEF Claim, Back

\* Cs claims what gives the items of k back.
ItemsBack(g, k, factor, junk, Cs) ==
  /\ Cs \in Seq(Claim) /\ Len(Cs) = Len(g[k].items)
  /\ \A i \in 1 .. Len(g[k].items) :
       g[k].items[i] # 0 /\ Cs[i] = Back(g, g[k].items[i], factor, junk)

LEMMA BackOfItems ==
  ASSUME NEW g, Shaped(g), NEW k \in DOMAIN g, NEW factor, NEW junk, NEW Cs,
         ItemsBack(g, k, factor, junk, Cs)
  PROVE  Is(g[k].type, Due(g[k], factor, junk), Cs) \subseteq Back(g, k, factor, junk)
<1> DEFINE C == Is(g[k].type, Due(g[k], factor, junk), Cs)
<1> SUFFICES ASSUME NEW p \in C PROVE p \in Back(g, k, factor, junk)
  OBVIOUS
<1> DEFINE rd == p[1]
           r == p[2]
           back == GivesBack(g, rd, factor, junk)
<1>1. /\ p \in Seq(NodeT) \X Nat /\ r \in DOMAIN rd
      /\ rd[r].type = g[k].type /\ rd[r].value = Due(g[k], factor, junk)
      /\ Met(Cs, rd, rd[r].items)
  BY DEF Is
<1>2. Len(rd[r].items) = Len(Cs) /\ \A i \in 1 .. Len(Cs) : <<rd, rd[r].items[i]>> \in Cs[i]
  BY <1>1 DEF Met
<1>3. \A i \in 1 .. Len(g[k].items) :
        g[k].items[i] # 0 /\ rd[r].items[i] \in back[g[k].items[i]]
  <2> SUFFICES ASSUME NEW i \in 1 .. Len(g[k].items)
               PROVE  g[k].items[i] # 0 /\ rd[r].items[i] \in back[g[k].items[i]]
    OBVIOUS
  <2> DEFINE x == rd[r].items[i]
  <2>1. g[k].items[i] # 0 /\ Cs[i] = Back(g, g[k].items[i], factor, junk) /\ i \in 1 .. Len(Cs)
    BY DEF ItemsBack
  <2>2. <<rd, x>> \in Cs[i]
    BY <1>2, <2>1
  <2> HIDE DEF x, rd, r
  <2>3. x \in GivesBack(g, rd, factor, junk)[g[k].items[i]]
    BY <2>1, <2>2 DEF Back
  <2> QED BY <2>1, <2>3 DEF x
<1>4. back[k] = OwnBack(g, rd, factor, junk, k, back)
  BY BackExists DEF GivenBack
<1>5. r \in back[k]
  BY <1>1, <1>2, <1>3, <1>4 DEF OwnBack, ItemsBack
<1> QED BY <1>1, <1>5 DEF Back

LEMMA NearestIs == \A t \in Int : Nearest(t) = (t + 1) \div 3
<1> SUFFICES ASSUME NEW t \in Int PROVE Nearest(t) = (t + 1) \div 3
  OBVIOUS
<1> DEFINE q == t \div 3
           w == (t + 1) \div 3
<1>1. /\ q \in Int /\ 3 * q <= t /\ t < 3 * q + 3
      /\ w \in Int /\ 3 * w <= t + 1 /\ t + 1 < 3 * w + 3
  OBVIOUS
<1> HIDE DEF q, w
<1>2. w \in {q, q + 1} /\ 3 * w - t \in -1 .. 1
  BY <1>1
<1>3. \A m \in {q, q + 1} : 3 * m - t \in -1 .. 1 => m = w
  BY <1>1
<1>4. (CHOOSE m \in {q, q + 1} : 3 * m - t \in -1 .. 1) = w
  BY <1>2, <1>3
<1> QED BY <1>4 DEF Nearest, q, w

\* Copies as they are, and doubled.
Doubling(factor, twice) ==
  \/ factor = 1 /\ twice = FALSE
  \/ factor = 2 /\ twice = TRUE

LEMMA DigitsAreDue ==
  ASSUME NEW o \in Object, o.type \in Scalar, Plain(o), NEW junk,
         NEW factor, NEW twice, Doubling(factor, twice)
  PROVE  Digits(o.type, CopiedValue(o, twice, junk)) = Due(o, factor, junk)
<1>1. o.value \in Int /\ factor \in Nat
  BY DEF Object, Doubling
<1>2. CASE o.type = "int"
  <2>1. o.value \in IntRange
    BY <1>2 DEF Plain
  <2>2. CASE factor = 1 /\ twice = FALSE
    <3>1. CopiedValue(o, twice, junk) = o.value
      BY <2>2 DEF CopiedValue
    <3>2. Due(o, factor, junk) = o.value
      BY <1>1, <1>2, <2>1, <2>2 DEF Due
    <3> QED BY <1>2, <3>1, <3>2 DEF Digits
  <2>3. CASE factor = 2 /\ twice = TRUE
    <3>1. CopiedValue(o, twice, junk) = ToInt(2 * o.value, junk)
      BY <1>2, <2>3 DEF CopiedValue
    <3>2. Due(o, factor, junk) = ToInt(2 * o.value, junk)
      BY <1>2, <2>3 DEF Due, ToInt
    <3> QED BY <1>2, <3>1, <3>2 DEF Digits
  <2> QED BY <2>2, <2>3 DEF Doubling
<1>3. CASE o.type = "double"
  <2> DEFINE t == factor * o.value
  <2>1. t \in Int
    BY <1>1
  <2>2. CopiedValue(o, twice, junk) = t
    BY <1>1, <1>3 DEF Doubling, CopiedValue
  <2>3. Due(o, factor, junk) = Nearest(t)
    BY <1>3 DEF Due
  <2> HIDE DEF t
  <2>4. Nearest(t) = (t + 1) \div 3
    BY <2>1, NearestIs
  <2> QED BY <1>3, <2>2, <2>3, <2>4 DEF Digits
<1>4. CASE o.type = "string"
  BY <1>1, <1>4 DEF Doubling, CopiedValue, Due, Digits
<1>5. CASE o.type = "boolean"
  BY <1>1, <1>5 DEF Doubling, CopiedValue, Due, Digits
<1> QED BY <1>2, <1>3, <1>4, <1>5 DEF Scalar

\* A heap in which the parameters are as they were.
Keeps(g) ==
  /\ Shaped(g) /\ Extends(g, heap)
  /\ \A k \in DOMAIN heap : g[k].type = heap[k].type /\ g[k].value = heap[k].value

\* How far away the copies are.
Distance(d, factor, twice) == Doubling(factor, twice) /\ d = factor * Len(heap)

LEMMA CopyIs ==
  ASSUME Ready, NEW junk \in Junk, NEW h, IsWithResults(h, junk),
         NEW d, NEW factor, NEW twice, Distance(d, factor, twice), NEW k \in Copied
  PROVE  /\ d \in Nat /\ Doubling(factor, twice) /\ d + k \in DOMAIN h
         /\ h[d + k].type = heap[k].type
         /\ h[d + k].value = CopiedValue(heap[k], twice, junk)
         /\ h[d + k].items = Shift(heap[k].items, d)
<1>1. Len(heap) \in Nat /\ 2 * Len(heap) \in Nat
  BY CopiedIsRead
<1>2. h[d + k] = Copy(heap[k], d, twice, junk) /\ d + k \in DOMAIN h /\ d \in Nat
  <2>1. CASE factor = 1 /\ twice = FALSE
    <3>1. d = Len(heap)
      BY <1>1, <2>1 DEF Distance
    <3> QED BY <1>1, <2>1, <3>1 DEF IsWithResults
  <2>2. CASE factor = 2 /\ twice = TRUE
    <3>1. d = 2 * Len(heap)
      BY <1>1, <2>2 DEF Distance
    <3> QED BY <1>1, <2>2, <3>1 DEF IsWithResults
  <2> QED BY <2>1, <2>2 DEF Distance, Doubling
<1>3. Doubling(factor, twice)
  BY DEF Distance
<1>4. /\ Copy(heap[k], d, twice, junk).type = heap[k].type
      /\ Copy(heap[k], d, twice, junk).value = CopiedValue(heap[k], twice, junk)
      /\ Copy(heap[k], d, twice, junk).items = Shift(heap[k].items, d)
  BY DEF Copy, New, Shift
<1> QED BY <1>2, <1>3, <1>4

\* The claims of what follows from those of its items.
LEMMA OwnTagTells ==
  ASSUME NEW o \in Object, NEW below, NEW Cs, TellAll(below, Cs),
         NEW g, Shaped(g), NEW k \in DOMAIN g, NEW factor, NEW junk,
         ItemsBack(g, k, factor, junk, Cs), o.type = g[k].type,
         o.type \in Scalar =>
           Cs = <<>> /\ Digits(o.type, o.value) = Due(g[k], factor, junk),
         o.type \notin Scalar => o.value = Due(g[k], factor, junk),
         o.type \in {"array", "struct"} => o.value = 0
  PROVE  Tells(OwnTag(o, below), <<Back(g, k, factor, junk)>>)
<1> DEFINE due == Due(g[k], factor, junk)
           C == Is(o.type, due, Cs)
           one == <<C>>
           bone == <<Back(g, k, factor, junk)>>
<1>1. o.type \in Type /\ o.value \in Int
  BY DEF Object
<1>2. /\ o.type \in Scalar \/ o.type = "array" \/ o.type = "struct" \/ o.type = "member"
      /\ "array" \notin Scalar /\ "struct" \notin Scalar /\ "member" \notin Scalar
  BY <1>1 DEF Type, Scalar
<1>3. Tells(OwnTag(o, below), one)
  <2>1. CASE o.type \in Scalar
    <3>1. Tells(ScalarTag(o.type, o.value), <<Is(o.type, Digits(o.type, o.value), <<>>)>>)
      BY <1>1, <2>1, ScalarTells
    <3>2. Digits(o.type, o.value) = due /\ Cs = <<>>
      BY <2>1
    <3>3. Tells(ScalarTag(o.type, o.value), one)
      BY <3>1, <3>2
    <3>4. OwnTag(o, below) = ScalarTag(o.type, o.value)
      BY <1>2, <2>1 DEF OwnTag
    <3> QED BY <3>3, <3>4
  <2>2. CASE o.type = "array"
    <3>1. Tells(ArrayTag(below), <<Is("array", 0, Cs)>>)
      BY ArrayTells
    <3>2. OwnTag(o, below) = ArrayTag(below) /\ due = 0
      BY <1>2, <2>2 DEF OwnTag
    <3> QED BY <2>2, <3>1, <3>2
  <2>3. CASE o.type = "struct"
    <3>1. Tells(StructTag(below), <<Is("struct", 0, Cs)>>)
      BY StructTells
    <3>2. OwnTag(o, below) = StructTag(below) /\ due = 0
      BY <1>2, <2>3 DEF OwnTag
    <3> QED BY <2>3, <3>1, <3>2
  <2>4. CASE o.type = "member"
    <3>1. Tells(MemberTag(o.value, below), <<Is("member", o.value, Cs)>>)
      BY <1>1, MemberTells
    <3>2. OwnTag(o, below) = MemberTag(o.value, below) /\ due = o.value
      BY <1>2, <2>4 DEF OwnTag
    <3> QED BY <2>4, <3>1, <3>2
  <2> QED BY <1>2, <2>1, <2>2, <2>3, <2>4
<1>4. C \subseteq Back(g, k, factor, junk)
  BY BackOfItems
<1>5. Back(g, k, factor, junk) \in Claim
  BY BackClaim
<1>6. bone \in Seq(Claim)
  BY <1>5
<1> HIDE DEF C
<1>7. Gives(OwnTag(o, below), bone)
  BY <1>3, <1>4, GivesLess DEF Tells
<1> QED BY <1>3, <1>6, <1>7 DEF Tells

LEMMA CopyTells ==
  ASSUME Ready, \A k \in DOMAIN heap : Plain(heap[k]), NEW junk \in Junk,
         NEW h, IsWithResults(h, junk), NEW g, Keeps(g),
         NEW d, NEW factor, NEW twice, Distance(d, factor, twice)
  PROVE  \A k \in Copied : Tells(ToXmlTag(h)[d + k], <<Back(g, k, factor, junk)>>)
<1> DEFINE S == Copied
           rank == [k \in S |-> k]
           tag == ToXmlTag(h)
           T == {k \in S : Tells(tag[d + k], <<Back(g, k, factor, junk)>>)}
<1>1. /\ Len(heap) \in Nat /\ DOMAIN heap = 1 .. Len(heap) /\ S \subseteq DOMAIN heap
      /\ \A j \in S : /\ 0 \notin ToSet(heap[j].items)
                      /\ ToSet(heap[j].items) \subseteq S
                      /\ \A i \in ToSet(heap[j].items) : i < j
  BY CopiedIsRead
<1>2. rank \in [S -> Nat]
  BY <1>1
<1>3. Tagged(h) /\ \A k \in DOMAIN h : h[k] \in Object
  BY ResultsSound, ResultsTyped, TagsExist
<1>4. Shaped(g) /\ DOMAIN heap \subseteq DOMAIN g /\ \A k \in DOMAIN heap :
        g[k].type = heap[k].type /\ g[k].value = heap[k].value /\ g[k].items = heap[k].items
  BY DEF Keeps, Extends
<1> HIDE DEF S, tag
<1>5. ASSUME NEW k \in S, \A j \in S : rank[j] < rank[k] => j \in T
      PROVE  k \in T
  <2> DEFINE o == h[d + k]
             items == heap[k].items
             L == Len(items)
             below == ItemTags(o, tag)
             Cs == [i \in 1 .. L |-> Back(g, items[i], factor, junk)]
  <2>1. /\ d \in Nat /\ Doubling(factor, twice) /\ d + k \in DOMAIN h
        /\ o.type = heap[k].type /\ o.value = CopiedValue(heap[k], twice, junk)
        /\ o.items = Shift(items, d)
    BY CopyIs DEF S
  <2>2. /\ heap[k] \in Object /\ Plain(heap[k]) /\ k \in DOMAIN heap
        /\ items \in Seq(Nat) /\ L \in Nat
    <3>1. k \in DOMAIN heap
      BY <1>1
    <3>2. heap[k] \in Object
      BY <3>1, ElementOfSeq DEF Ready
    <3> QED BY <3>1, <3>2 DEF Object
  <2>3. \A i \in 1 .. L : items[i] \in S /\ items[i] \in Nat /\ items[i] # 0 /\ items[i] < k
    <3>1. \A i \in 1 .. L : items[i] \in ToSet(items) /\ items[i] \in Nat
      BY <2>2 DEF ToSet
    <3> QED BY <1>1, <3>1
  <2>4. Len(o.items) = L /\ \A i \in 1 .. L : o.items[i] = items[i] + d
    BY <2>1, <2>2 DEF Shift
  <2>5. below = [i \in 1 .. L |-> tag[d + items[i]]]
    <3>1. \A i \in 1 .. L : o.items[i] # 0 /\ o.items[i] = d + items[i]
      BY <2>1, <2>3, <2>4
    <3> HIDE DEF o, items, L
    <3> QED BY <2>4, <3>1 DEF ItemTags
  <2>6. \A i \in 1 .. L : Tells(tag[d + items[i]], <<Back(g, items[i], factor, junk)>>)
    BY <1>5, <2>3
  <2>7. /\ Cs \in Seq(Claim) /\ Len(Cs) = L
        /\ \A i \in 1 .. L : Cs[i] = Back(g, items[i], factor, junk)
    <3>1. \A i \in 1 .. L : Back(g, items[i], factor, junk) \in Claim
      BY <1>1, <1>4, <2>3, BackClaim
    <3> HIDE DEF items, L
    <3> QED BY <2>2, <3>1
  <2> HIDE DEF Cs, items
  <2>8. TellAll(below, Cs)
    <3> DEFINE V == Seq(Token)
    <3>1. \A i \in 1 .. L : tag[d + items[i]] \in V /\ Gives(tag[d + items[i]], <<Cs[i]>>)
      BY <2>6, <2>7 DEF Tells
    <3> HIDE DEF V, L, below
    <3>2. L \in Nat /\ \A i \in 1 .. L : tag[d + items[i]] \in V
      BY <2>2, <3>1
    <3>3. below \in Seq(V) /\ Len(below) = L
      BY <2>5, <3>2
    <3>4. \A i \in 1 .. L : below[i] = tag[d + items[i]]
      BY <2>5
    <3>5. \A i \in 1 .. L : Gives(below[i], <<Cs[i]>>)
      BY <3>1, <3>4
    <3> QED BY <2>7, <3>3, <3>5 DEF TellAll, V
  <2>9. ItemsBack(g, k, factor, junk, Cs)
    BY <1>4, <2>2, <2>3, <2>7 DEF ItemsBack, items
  <2>10. Due(g[k], factor, junk) = Due(heap[k], factor, junk)
    BY <1>4, <2>2 DEF Due
  <2>11. o.type \in Scalar => Cs = <<>> /\ Digits(o.type, o.value) = Due(g[k], factor, junk)
    <3> SUFFICES ASSUME o.type \in Scalar
                 PROVE Cs = <<>> /\ Digits(o.type, o.value) = Due(g[k], factor, junk)
      OBVIOUS
    <3>1. L = 0
      BY <2>1, <2>2 DEF Plain, items
    <3>2. Digits(o.type, o.value) = Due(heap[k], factor, junk)
      BY <2>1, <2>2, DigitsAreDue
    <3> QED BY <2>7, <2>10, <3>1, <3>2, EmptySeq
  <2>12. o.type \notin Scalar =>
           o.value = heap[k].value /\ Due(heap[k], factor, junk) = heap[k].value
    BY <2>1 DEF CopiedValue, Due, Scalar
  <2>13. o.type \in {"array", "struct"} => o.value = 0
    <3>1. "array" \notin Scalar /\ "struct" \notin Scalar
      BY DEF Scalar
    <3> QED BY <2>1, <2>2, <2>12, <3>1 DEF Plain
  <2>14. o \in Object /\ tag[d + k] = OwnTag(o, below) /\ k \in DOMAIN g /\ o.type = g[k].type
    BY <1>3, <1>4, <2>1, <2>2 DEF Tagged, tag
  <2> HIDE DEF o, below
  <2>15. Tells(OwnTag(o, below), <<Back(g, k, factor, junk)>>)
    BY <1>4, <2>8, <2>9, <2>10, <2>11, <2>12, <2>13, <2>14, OwnTagTells
  <2> QED BY <2>14, <2>15
<1>6. S \subseteq T
  <2> HIDE DEF S, T, rank
  <2> QED BY <1>2, <1>5, RankInduction
<1> QED BY <1>6 DEF S, tag

-------------------------------------------------------------------------------
(* The answer of DuplicateParameter *)

Copies(g, factor, junk) == [i \in 1 .. Len(params) |-> Back(g, params[i], factor, junk)]

\* The items of a result that are not null.
LEMMA ResultTag ==
  ASSUME Ready, NEW junk \in Junk, NEW h, IsWithResults(h, junk), NEW c \in 1 .. 9
  PROVE  LET k == 3 * Len(heap) + c
         IN  /\ ToXmlTag(h)[k] = OwnTag(Made(Len(heap))[c],
                                        ItemTags(Made(Len(heap))[c], ToXmlTag(h)))
             /\ k \in DOMAIN h
<1> DEFINE k == 3 * Len(heap) + c
<1>1. Tagged(h)
  BY ResultsSound, ResultsTyped, TagsExist
<1>2. Len(heap) \in Nat
  BY CopiedIsRead
<1>3. k \in DOMAIN h /\ h[k] = Made(Len(heap))[c]
  <2>1. \A i \in 1 .. 9 : h[3 * Len(heap) + i] = Made(Len(heap))[i]
    BY DEF IsWithResults
  <2>2. 3 * Len(heap) + 1 .. 3 * Len(heap) + 9 \subseteq DOMAIN h
    BY DEF IsWithResults
  <2>3. k \in 3 * Len(heap) + 1 .. 3 * Len(heap) + 9
    BY <1>2
  <2> QED BY <2>1, <2>2, <2>3
<1> HIDE DEF k
<1>4. ToXmlTag(h)[k] = OwnTag(h[k], ItemTags(h[k], ToXmlTag(h)))
  BY <1>1, <1>3 DEF Tagged
<1> QED BY <1>3, <1>4 DEF k

LEMMA OwnTagIs ==
  ASSUME NEW type, NEW value, NEW items, NEW below
  PROVE  LET o == New(type, value, items)
         IN  /\ type \in Scalar => OwnTag(o, below) = ScalarTag(type, value)
             /\ type = "array" => OwnTag(o, below) = ArrayTag(below)
             /\ type = "struct" => OwnTag(o, below) = StructTag(below)
             /\ type = "member" => OwnTag(o, below) = MemberTag(value, below)
<1> DEFINE o == New(type, value, items)
<1>1. o.type = type /\ o.value = value
  BY DEF New
<1> HIDE DEF o
<1>2. "array" \notin Scalar /\ "struct" \notin Scalar /\ "member" \notin Scalar
  BY DEF Scalar
<1>3. /\ type \in Scalar => OwnTag(o, below) = ScalarTag(type, value)
      /\ type = "array" => OwnTag(o, below) = ArrayTag(below)
      /\ type = "struct" => OwnTag(o, below) = StructTag(below)
      /\ type = "member" => OwnTag(o, below) = MemberTag(value, below)
  BY <1>1, <1>2 DEF OwnTag
<1> QED BY <1>3 DEF o

\* The scalars among the results.
LEMMA ScalarResult ==
  ASSUME Ready, NEW junk \in Junk, NEW h, IsWithResults(h, junk), NEW c \in 1 .. 9,
         NEW type \in Scalar, NEW value \in Int, Made(Len(heap))[c] = New(type, value, <<>>)
  PROVE  Tells(ToXmlTag(h)[3 * Len(heap) + c], <<Is(type, Digits(type, value), <<>>)>>)
<1> DEFINE below == ItemTags(Made(Len(heap))[c], ToXmlTag(h))
<1>1. ToXmlTag(h)[3 * Len(heap) + c] = OwnTag(Made(Len(heap))[c], below)
  BY ResultTag
<1>2. OwnTag(New(type, value, <<>>), below) = ScalarTag(type, value)
  BY OwnTagIs
<1>3. Tells(ScalarTag(type, value), <<Is(type, Digits(type, value), <<>>)>>)
  BY ScalarTells
<1> QED BY <1>1, <1>2, <1>3

\* Both arrays of copies.
LEMMA ArrayResult ==
  ASSUME Ready, \A k \in DOMAIN heap : Plain(heap[k]), NEW junk \in Junk,
         NEW h, IsWithResults(h, junk), NEW g, Keeps(g), NEW c \in 1 .. 2
  PROVE  Tells(ToXmlTag(h)[3 * Len(heap) + c], <<Is("array", 0, Copies(g, c, junk))>>)
<1> DEFINE n == Len(heap)
           d == c * n
           o == Made(n)[c]
           tag == ToXmlTag(h)
           below == ItemTags(o, tag)
           L == Len(params)
           Cs == Copies(g, c, junk)
<1>1. /\ n \in Nat /\ d \in Nat /\ params \in Seq(Nat) /\ L \in Nat
      /\ \A i \in 1 .. L : params[i] \in Copied /\ params[i] \in Nat /\ params[i] # 0
  <2>1. /\ n \in Nat /\ params \in Seq(Nat)
        /\ 0 \notin ToSet(params) /\ ToSet(params) \subseteq Copied
    BY CopiedIsRead DEF Ready
  <2> QED BY <2>1 DEF ToSet
<1>2. o = New("array", 0, Shift(params, d))
  <2>1. CASE c = 1
    <3>1. d = n
      BY <1>1, <2>1
    <3> HIDE DEF d, n
    <3> QED BY <2>1, <3>1, MadeIs DEF MadeAre
  <2>2. CASE c = 2
    <3>1. d = 2 * n
      BY <1>1, <2>2
    <3> HIDE DEF d, n
    <3> QED BY <2>2, <3>1, MadeIs DEF MadeAre
  <2> QED BY <2>1, <2>2
<1>3. o.items = Shift(params, d)
  BY <1>2 DEF New
<1>4. Len(o.items) = L /\ \A i \in 1 .. L : o.items[i] = d + params[i] /\ o.items[i] # 0
  <2> HIDE DEF o, d, L
  <2> QED BY <1>1, <1>3 DEF Shift, L
<1>5. below = [i \in 1 .. L |-> tag[d + params[i]]]
  <2> HIDE DEF o, L
  <2> QED BY <1>4 DEF ItemTags
<1>6. tag[3 * n + c] = ArrayTag(below)
  <2>1. tag[3 * n + c] = OwnTag(o, below)
    <3>1. c \in 1 .. 9
      OBVIOUS
    <3> QED BY <3>1, ResultTag
  <2>2. OwnTag(New("array", 0, Shift(params, d)), below) = ArrayTag(below)
    BY OwnTagIs
  <2> QED BY <1>2, <2>1, <2>2
<1>7. PICK twice : Distance(d, c, twice)
  <2>1. CASE c = 1
    <3>0. PICK twice : twice = FALSE
      OBVIOUS
    <3>1. Doubling(c, twice)
      BY <2>1, <3>0 DEF Doubling
    <3>2. d = c * Len(heap)
      OBVIOUS
    <3>3. Distance(d, c, twice)
      BY <3>1, <3>2, Zenon DEF Distance
    <3> QED BY <3>3
  <2>2. CASE c = 2
    <3>1. Distance(d, c, TRUE)
      BY <2>2 DEF Distance, Doubling
    <3> QED BY <3>1
  <2> QED BY <2>1, <2>2
<1>8. \A i \in 1 .. L : Tells(tag[d + params[i]], <<Back(g, params[i], c, junk)>>)
  <2>1. \A k \in Copied : Tells(ToXmlTag(h)[d + k], <<Back(g, k, c, junk)>>)
    BY <1>7, CopyTells
  <2> QED BY <1>1, <2>1
<1>9. Cs \in Seq(Claim) /\ Len(Cs) = L /\ \A i \in 1 .. L : Cs[i] = Back(g, params[i], c, junk)
  <2>1. \A i \in 1 .. L : Back(g, params[i], c, junk) \in Claim
    <3>1. Shaped(g) /\ DOMAIN heap \subseteq DOMAIN g /\ Copied \subseteq DOMAIN heap
      BY CopiedIsRead DEF Keeps, Extends
    <3> QED BY <1>1, <3>1, BackClaim
  <2> QED BY <1>1, <2>1 DEF Copies
<1>10. TellAll(below, Cs)
  <2> DEFINE V == Seq(Token)
  <2>1. \A i \in 1 .. L : tag[d + params[i]] \in V /\ Gives(tag[d + params[i]], <<Cs[i]>>)
    BY <1>8, <1>9 DEF Tells
  <2> HIDE DEF V, L, below, Cs, d, tag
  <2>2. \A i \in 1 .. L : tag[d + params[i]] \in V
    BY <2>1
  <2>3. below \in Seq(V) /\ Len(below) = L
    BY <1>1, <1>5, <2>2
  <2>4. \A i \in 1 .. L : below[i] = tag[d + params[i]]
    BY <1>5
  <2>5. \A i \in 1 .. L : Gives(below[i], <<Cs[i]>>)
    BY <2>1, <2>4
  <2> QED BY <1>9, <2>3, <2>5 DEF TellAll, V
<1>11. Tells(ArrayTag(below), <<Is("array", 0, Cs)>>)
  BY <1>10, ArrayTells
<1> QED BY <1>6, <1>11

Entry == <<Is("string", 9, <<>>)>>
Entries == <<Is("member", 9, Entry)>>

\* A list of one text.
LEMMA TellOne ==
  ASSUME NEW text, NEW C, Tells(text, <<C>>)
  PROVE  TellAll(<<text>>, <<C>>)
<1> DEFINE texts == <<text>>
           Cs == <<C>>
           V == Seq(Token)
<1>1. text \in V /\ Cs \in Seq(Claim) /\ Gives(text, Cs)
  BY DEF Tells
<1>2. Len(texts) = 1 /\ texts[1] = text /\ Len(Cs) = 1 /\ Cs[1] = C
  OBVIOUS
<1>3. texts \in Seq(V)
  <2> HIDE DEF V
  <2> QED BY <1>1
<1>4. \A i \in 1 .. 1 : i = 1
  OBVIOUS
<1> HIDE DEF texts
<1>5. \A i \in 1 .. Len(texts) : Gives(texts[i], <<Cs[i]>>)
  BY <1>1, <1>2, <1>4
<1> HIDE DEF Cs
<1>6. TellAll(texts, Cs)
  BY <1>1, <1>2, <1>3, <1>5 DEF TellAll
<1> QED BY <1>6 DEF texts, Cs

LEMMA StructResult ==
  ASSUME Ready, NEW junk \in Junk, NEW h, IsWithResults(h, junk)
  PROVE  Tells(ToXmlTag(h)[3 * Len(heap) + 8], <<Is("struct", 0, Entries)>>)
<1> DEFINE n == Len(heap)
           tag == ToXmlTag(h)
           k6 == 3 * n + 6
           k7 == 3 * n + 7
           six == <<k6>>
           seven == <<k7>>
           o7 == New("member", 9, six)
           o8 == New("struct", 0, seven)
<1>1. n \in Nat /\ k6 \in Nat /\ k6 # 0 /\ k7 \in Nat /\ k7 # 0
  BY CopiedIsRead
<1>2. Made(n)[6] = New("string", 9, <<>>) /\ Made(n)[7] = o7 /\ Made(n)[8] = o8
  BY MadeIs DEF MadeAre
<1>3. Tells(tag[k6], Entry)
  <2>1. "string" \in Scalar /\ Digits("string", 9) = 9 /\ 9 \in Int /\ 6 \in 1 .. 9
    BY DEF Scalar, Digits
  <2>2. Tells(tag[3 * Len(heap) + 6], <<Is("string", Digits("string", 9), <<>>)>>)
    BY <1>2, <2>1, ScalarResult
  <2> QED BY <2>1, <2>2 DEF Entry
<1>4. Tells(tag[k7], Entries)
  <2> DEFINE below == ItemTags(o7, tag)
             text == tag[k6]
  <2>1. tag[k7] = OwnTag(Made(n)[7], ItemTags(Made(n)[7], tag))
    <3>1. 7 \in 1 .. 9
      OBVIOUS
    <3> QED BY <3>1, ResultTag
  <2>2. OwnTag(o7, below) = MemberTag(9, below)
    BY OwnTagIs
  <2>3. below = <<text>>
    <3>1. o7.items = six
      BY DEF New
    <3>2. Len(six) = 1 /\ six[1] = k6
      OBVIOUS
    <3> HIDE DEF o7, six, k6
    <3> QED BY <1>1, <3>1, <3>2 DEF ItemTags
  <2> HIDE DEF text
  <2>4. TellAll(<<text>>, Entry)
    BY <1>3, TellOne DEF Entry, text
  <2>5. Tells(MemberTag(9, <<text>>), <<Is("member", 9, Entry)>>)
    BY <2>4, MemberTells
  <2> QED BY <1>2, <2>1, <2>2, <2>3, <2>5 DEF Entries
<1>5. Tells(tag[3 * n + 8], <<Is("struct", 0, Entries)>>)
  <2> DEFINE below == ItemTags(o8, tag)
             text == tag[k7]
  <2>1. tag[3 * n + 8] = OwnTag(Made(n)[8], ItemTags(Made(n)[8], tag))
    <3>1. 8 \in 1 .. 9
      OBVIOUS
    <3> QED BY <3>1, ResultTag
  <2>2. OwnTag(o8, below) = StructTag(below)
    BY OwnTagIs
  <2>3. below = <<text>>
    <3>1. o8.items = seven
      BY DEF New
    <3>2. Len(seven) = 1 /\ seven[1] = k7
      OBVIOUS
    <3> HIDE DEF o8, seven, k7
    <3> QED BY <1>1, <3>1, <3>2 DEF ItemTags
  <2> HIDE DEF text
  <2>4. TellAll(<<text>>, Entries)
    BY <1>4, TellOne DEF Entries, text
  <2>5. Tells(StructTag(<<text>>), <<Is("struct", 0, Entries)>>)
    BY <2>4, StructTells
  <2> QED BY <1>2, <2>1, <2>2, <2>3, <2>5
<1> QED BY <1>5

\* What the seven results claim.
Seven(g, junk) ==
  << Is("array", 0, Copies(g, 1, junk)), Is("array", 0, Copies(g, 2, junk)),
     Is("int", -10, <<>>), Is("double", OwnDoubleShown, <<>>), Is("string", 6, <<>>),
     Is("struct", 0, Entries), Is("boolean", 0, <<>>) >>

ResultNumbers ==
  LET n == 3 * Len(heap)
  IN  <<n + 1, n + 2, n + 3, n + 4, n + 5, n + 8, n + 9>>

LEMMA ResponseTells ==
  ASSUME NEW text, NEW Cs, Tells(text, Cs)
  PROVE  Tells(Response(text), Cs)
<1> DEFINE p == Element("param", text)
           ps == Element("params", p)
<1>1. /\ "param" \in Through /\ "params" \in Through /\ "methodResponse" \in Through
  BY DEF Through
<1>2. Tells(p, Cs)
  BY <1>1, ThroughTells
<1> HIDE DEF p
<1>3. Tells(ps, Cs)
  BY <1>1, <1>2, ThroughTells
<1> HIDE DEF ps
<1>4. Tells(Element("methodResponse", ps), Cs)
  BY <1>1, <1>3, ThroughTells
<1> QED BY <1>4 DEF Response, ps, p

LEMMA SevenTell ==
  ASSUME Ready, \A k \in DOMAIN heap : Plain(heap[k]), NEW junk \in Junk,
         NEW h, IsWithResults(h, junk), NEW g, Keeps(g)
  PROVE  TellAll([i \in 1 .. Len(ResultNumbers) |-> ToXmlTag(h)[ResultNumbers[i]]],
                 Seven(g, junk))
<1> DEFINE n == Len(heap)
           tag == ToXmlTag(h)
           texts == [i \in 1 .. Len(ResultNumbers) |-> tag[ResultNumbers[i]]]
           none == <<>>
           C1 == Is("array", 0, Copies(g, 1, junk))
           C2 == Is("array", 0, Copies(g, 2, junk))
           C3 == Is("int", -10, none)
           C4 == Is("double", OwnDoubleShown, none)
           C5 == Is("string", 6, none)
           C6 == Is("struct", 0, Entries)
           C7 == Is("boolean", 0, none)
           Cs == <<C1, C2, C3, C4, C5, C6, C7>>
           V == Seq(Token)
<1>1. /\ Made(n)[3] = New("int", -10, none) /\ Made(n)[4] = New("double", OwnDouble, none)
      /\ Made(n)[5] = New("string", 6, none) /\ Made(n)[9] = New("boolean", 0, none)
  BY MadeIs DEF MadeAre
<1>2. /\ "int" \in Scalar /\ "double" \in Scalar /\ "string" \in Scalar /\ "boolean" \in Scalar
      /\ Digits("int", -10) = -10 /\ Digits("double", OwnDouble) = OwnDoubleShown
      /\ Digits("string", 6) = 6 /\ Digits("boolean", 0) = 0
      /\ -10 \in Int /\ OwnDouble \in Int /\ 6 \in Int /\ 0 \in Int
      /\ \A c \in {3, 4, 5, 9} : c \in 1 .. 9
      /\ 1 \in 1 .. 2 /\ 2 \in 1 .. 2
  BY OwnDoubleIs DEF Scalar, Digits
<1>3. Tells(tag[3 * n + 1], <<C1>>)
  BY <1>2, ArrayResult
<1>4. Tells(tag[3 * n + 2], <<C2>>)
  BY <1>2, ArrayResult
<1>5. Tells(tag[3 * n + 3], <<C3>>)
  <2>1. Tells(tag[3 * n + 3], <<Is("int", Digits("int", -10), none)>>)
    BY <1>1, <1>2, ScalarResult
  <2> QED BY <1>2, <2>1
<1>6. Tells(tag[3 * n + 4], <<C4>>)
  <2>1. Tells(tag[3 * n + 4], <<Is("double", Digits("double", OwnDouble), none)>>)
    BY <1>1, <1>2, ScalarResult
  <2> QED BY <1>2, <2>1
<1>7. Tells(tag[3 * n + 5], <<C5>>)
  <2>1. Tells(tag[3 * n + 5], <<Is("string", Digits("string", 6), none)>>)
    BY <1>1, <1>2, ScalarResult
  <2> QED BY <1>2, <2>1
<1>8. Tells(tag[3 * n + 8], <<C6>>)
  BY StructResult
<1>9. Tells(tag[3 * n + 9], <<C7>>)
  <2>1. Tells(tag[3 * n + 9], <<Is("boolean", Digits("boolean", 0), none)>>)
    BY <1>1, <1>2, ScalarResult
  <2> QED BY <1>2, <2>1
<1>10. /\ texts = [i \in 1 .. 7 |-> tag[ResultNumbers[i]]]
       /\ ResultNumbers[1] = 3 * n + 1 /\ ResultNumbers[2] = 3 * n + 2
       /\ ResultNumbers[3] = 3 * n + 3 /\ ResultNumbers[4] = 3 * n + 4
       /\ ResultNumbers[5] = 3 * n + 5 /\ ResultNumbers[6] = 3 * n + 8
       /\ ResultNumbers[7] = 3 * n + 9
  BY DEF ResultNumbers
<1> HIDE DEF C1, C2, C3, C4, C5, C6, C7, tag
<1>11. \A C : \A text : Tells(text, <<C>>) => C \in Claim /\ text \in V /\ Gives(text, <<C>>)
  <2> SUFFICES ASSUME NEW C, NEW text, Tells(text, <<C>>)
               PROVE  C \in Claim /\ text \in V /\ Gives(text, <<C>>)
    OBVIOUS
  <2> DEFINE one == <<C>>
  <2>1. one \in Seq(Claim) /\ text \in V /\ Gives(text, one) /\ 1 \in 1 .. Len(one) /\ one[1] = C
    BY DEF Tells
  <2>2. C \in Claim
    <3> HIDE DEF one
    <3> QED BY <2>1, ElementOfSeq
  <2> QED BY <2>1, <2>2
<1>12. /\ Cs \in Seq(Claim) /\ Len(Cs) = 7
       /\ Cs[1] = C1 /\ Cs[2] = C2 /\ Cs[3] = C3 /\ Cs[4] = C4 /\ Cs[5] = C5
       /\ Cs[6] = C6 /\ Cs[7] = C7
  <2>1. /\ C1 \in Claim /\ C2 \in Claim /\ C3 \in Claim /\ C4 \in Claim /\ C5 \in Claim
        /\ C6 \in Claim /\ C7 \in Claim
    BY <1>3, <1>4, <1>5, <1>6, <1>7, <1>8, <1>9, <1>11
  <2> QED BY <2>1
<1>13. \A i \in 1 .. 7 : i = 1 \/ i = 2 \/ i = 3 \/ i = 4 \/ i = 5 \/ i = 6 \/ i = 7
  OBVIOUS
<1> HIDE DEF Cs, V
<1>14. \A i \in 1 .. 7 : Tells(tag[ResultNumbers[i]], <<Cs[i]>>)
  BY <1>3, <1>4, <1>5, <1>6, <1>7, <1>8, <1>9, <1>10, <1>12, <1>13
<1>15. \A i \in 1 .. 7 : tag[ResultNumbers[i]] \in V /\ Gives(tag[ResultNumbers[i]], <<Cs[i]>>)
  BY <1>11, <1>14
<1> HIDE DEF texts
<1>16. texts \in Seq(V) /\ Len(texts) = 7 /\ \A i \in 1 .. 7 : texts[i] = tag[ResultNumbers[i]]
  <2>1. \A i \in 1 .. 7 : tag[ResultNumbers[i]] \in V
    BY <1>15
  <2> QED BY <1>10, <2>1
<1>17. TellAll(texts, Cs)
  BY <1>12, <1>15, <1>16 DEF TellAll, V
<1> QED BY <1>17 DEF texts, Cs, Seven, C1, C2, C3, C4, C5, C6, C7, tag

-------------------------------------------------------------------------------
(* What a client reads in an answer *)

Start == [open |-> <<Outside>>, read |-> <<>>]

\* The client has read one object that meets the claim.
ReadOut(text, rd, root, C) ==
  /\ ReadText(Start, text) = [open |-> <<Node("none", 0, <<root>>)>>, read |-> rd]
  /\ <<rd, root>> \in C

LEMMA OneOf ==
  ASSUME NEW rs \in Seq(Nat), Len(rs) = 1
  PROVE  rs = <<rs[1]>> /\ rs[1] \in Nat
<1> DEFINE x == rs[1]
           one == <<x>>
<1>1. x \in Nat
  BY ElementOfSeq
<1> HIDE DEF x
<1>2. one \in Seq(Nat) /\ Len(one) = 1 /\ one[1] = x
  BY <1>1
<1> HIDE DEF one
<1>3. \A i \in 1 .. Len(rs) : rs[i] = one[i]
  BY <1>2 DEF x
<1>4. rs = one
  BY <1>2, <1>3, SeqEqual
<1> QED BY <1>1, <1>4 DEF one, x

LEMMA AnswerRead ==
  ASSUME NEW text, NEW C, Tells(text, <<C>>)
  PROVE  \E rd \in Seq(NodeT), root \in Nat : ReadOut(text, rd, root, C)
<1> DEFINE none == <<>>
           Cs == <<C>>
<1>1. /\ none \in Seq(NodeT) /\ none \in Seq(Nat) /\ Outside \in NodeT
      /\ Outside = Node("none", 0, none)
  <2>1. none \in Seq(NodeT) /\ none \in Seq(Nat)
    BY EmptySeq
  <2> HIDE DEF none
  <2>2. Node("none", 0, none) \in NodeT
    <3>1. "none" \in Tag \cup {"none"} /\ 0 \in Int
      OBVIOUS
    <3> QED BY <2>1, <3>1, NodeTyped
  <2> QED BY <2>1, <2>2 DEF Outside, none
<1>2. /\ \A rs \in Seq(Nat) : none \o rs = rs
      /\ \A rd \in Seq(NodeT) : none \o rd = rd
      /\ \A f : Append(none, f) = <<f>>
  BY ConcatEmptySeq
<1> HIDE DEF none
<1>3. \A f, rd : At(none, f, rd) = [open |-> <<f>>, read |-> rd]
  BY <1>2 DEF At
<1>4. PICK more \in Seq(NodeT), rs \in Seq(Nat) :
        /\ ReadText(At(none, Outside, none), text) = At(none, Gain(Outside, rs), none \o more)
        /\ Met(Cs, none \o more, rs)
  <2> HIDE DEF Cs
  <2>1. Gives(text, Cs)
    BY DEF Tells, Cs
  <2> QED BY <1>1, <2>1 DEF Gives, Lands
<1>5. Gain(Outside, rs) = Node("none", 0, rs)
  <2> DEFINE f == Node("none", 0, none)
             all == none \o rs
  <2>1. f.items = none
    BY DEF Node
  <2>2. f = [type |-> "none", value |-> 0, items |-> none]
    BY DEF Node
  <2>3. all = rs
    BY <1>2
  <2> HIDE DEF all
  <2>4. [f EXCEPT !.items = all] = Node("none", 0, all)
    <3> HIDE DEF f
    <3> QED BY <2>2 DEF Node
  <2>5. Gain(f, rs) = [f EXCEPT !.items = all]
    BY <2>1 DEF Gain, all
  <2> QED BY <1>1, <2>3, <2>4, <2>5
<1>6. none \o more = more
  BY <1>2
<1>7. Len(rs) = 1 /\ <<more, rs[1]>> \in C
  <2>1. Len(Cs) = 1 /\ Cs[1] = C /\ 1 \in 1 .. Len(Cs)
    OBVIOUS
  <2> HIDE DEF Cs
  <2> QED BY <1>4, <1>6, <2>1 DEF Met
<1>8. rs = <<rs[1]>> /\ rs[1] \in Nat
  BY <1>7, OneOf
<1>9. ReadText(Start, text) = [open |-> <<Node("none", 0, rs)>>, read |-> more]
  BY <1>3, <1>4, <1>5, <1>6 DEF Start, none
<1>10. ReadOut(text, more, rs[1], C)
  BY <1>7, <1>8, <1>9 DEF ReadOut
<1> QED BY <1>8, <1>10

\* An object that was read, and its items.
IsParts(rd, r, type, value, Cs) ==
  /\ r \in DOMAIN rd /\ rd[r].type = type /\ rd[r].value = value
  /\ rd[r] = Node(type, value, rd[r].items)
  /\ rd[r].items \in Seq(Nat) /\ Len(rd[r].items) = Len(Cs)
  /\ \A i \in 1 .. Len(Cs) : <<rd, rd[r].items[i]>> \in Cs[i]

LEMMA PartsOf ==
  ASSUME NEW rd, NEW r, NEW type, NEW value, NEW Cs, <<rd, r>> \in Is(type, value, Cs)
  PROVE  IsParts(rd, r, type, value, Cs)
<1>1. /\ rd \in Seq(NodeT) /\ r \in DOMAIN rd
      /\ rd[r].type = type /\ rd[r].value = value /\ Met(Cs, rd, rd[r].items)
  BY DEF Is
<1>2. rd[r] \in NodeT
  BY <1>1, ElementOfSeq
<1>3. rd[r] = Node(type, value, rd[r].items) /\ rd[r].items \in Seq(Nat)
  BY <1>1, <1>2 DEF NodeT, Node
<1> QED BY <1>1, <1>3 DEF Met, IsParts

LEMMA LeafOf ==
  ASSUME NEW rd, NEW r, NEW type, NEW value, <<rd, r>> \in Is(type, value, <<>>)
  PROVE  rd[r] = Node(type, value, <<>>) /\ r \in DOMAIN rd
<1> DEFINE none == <<>>
<1>1. IsParts(rd, r, type, value, none)
  BY PartsOf
<1>2. Len(none) = 0
  OBVIOUS
<1> HIDE DEF none
<1>3. rd[r].items \in Seq(Nat) /\ Len(rd[r].items) = 0
  BY <1>1, <1>2 DEF IsParts
<1>4. rd[r].items = none
  BY <1>3, EmptySeq DEF none
<1> QED BY <1>1, <1>4 DEF IsParts, none

\* An object that was read and has one item.
HasOnly(rd, r, type, value, C) ==
  \E x \in Nat : /\ rd[r] = Node(type, value, <<x>>) /\ r \in DOMAIN rd
                 /\ <<rd, x>> \in C

LEMMA OnlyOf ==
  ASSUME NEW rd, NEW r, NEW type, NEW value, NEW C, <<rd, r>> \in Is(type, value, <<C>>)
  PROVE  HasOnly(rd, r, type, value, C)
<1> DEFINE Cs == <<C>>
<1>1. IsParts(rd, r, type, value, Cs)
  BY PartsOf
<1>2. Len(Cs) = 1 /\ Cs[1] = C /\ 1 \in 1 .. Len(Cs)
  OBVIOUS
<1> HIDE DEF Cs
<1> DEFINE s == rd[r].items
<1>3. s \in Seq(Nat) /\ Len(s) = 1 /\ <<rd, s[1]>> \in C
  BY <1>1, <1>2 DEF IsParts
<1> HIDE DEF s
<1>4. s = <<s[1]>> /\ s[1] \in Nat
  BY <1>3, OneOf
<1>5. rd[r] = Node(type, value, s) /\ r \in DOMAIN rd
  BY <1>1 DEF IsParts, s
<1> QED BY <1>3, <1>4, <1>5 DEF HasOnly

\* AreDuplicates, of the parameters ps as they are in a heap g.
Duplicated(g, ps, read, items, junk) ==
  /\ Len(items) = 7
  /\ \A factor \in 1 .. 2 :
       LET copies == read[items[factor]]
       IN  /\ copies.type = "array"
           /\ Len(copies.items) = Len(ps)
           /\ \A i \in 1 .. Len(ps) :
                copies.items[i] \in GivesBack(g, read, factor, junk)[ps[i]]
  /\ read[items[3]] = Node("int", -10, <<>>)
  /\ read[items[4]] = Node("double", OwnDoubleShown, <<>>)
  /\ read[items[5]] = Node("string", 6, <<>>)
  /\ read[items[7]] = Node("boolean", 0, <<>>)
  /\ \E m, v \in DOMAIN read :
       /\ read[items[6]] = Node("struct", 0, <<m>>)
       /\ read[m] = Node("member", 9, <<v>>)
       /\ read[v] = Node("string", 9, <<>>)

DuplicatesMatch ==
  \A read, items, junk :
    AreDuplicates(read, items, junk) <=> Duplicated(heap, params, read, items, junk)

LEMMA DuplicatesAre == DuplicatesMatch
BY SMTT(60) DEF DuplicatesMatch, AreDuplicates, Duplicated, OwnDoubleShown

LEMMA SevenMean ==
  ASSUME NEW g, NEW junk, params \in Seq(Nat), NEW rd, NEW root,
         <<rd, root>> \in Is("array", 0, Seven(g, junk))
  PROVE  /\ root \in DOMAIN rd /\ rd[root].type = "array"
         /\ Duplicated(g, params, rd, rd[root].items, junk)
<1> DEFINE none == <<>>
           Cs == Seven(g, junk)
           s == rd[root].items
<1>1. IsParts(rd, root, "array", 0, Cs)
  BY PartsOf
<1>2. /\ Len(Cs) = 7
      /\ Cs[1] = Is("array", 0, Copies(g, 1, junk))
      /\ Cs[2] = Is("array", 0, Copies(g, 2, junk))
      /\ Cs[3] = Is("int", -10, none)
      /\ Cs[4] = Is("double", OwnDoubleShown, none)
      /\ Cs[5] = Is("string", 6, none)
      /\ Cs[6] = Is("struct", 0, Entries)
      /\ Cs[7] = Is("boolean", 0, none)
  BY DEF Seven
<1> HIDE DEF Cs
<1>3. Len(s) = 7 /\ \A i \in 1 .. 7 : <<rd, s[i]>> \in Cs[i]
  BY <1>1, <1>2 DEF IsParts
<1> HIDE DEF s
<1>4. ASSUME NEW factor \in 1 .. 2
      PROVE  /\ rd[s[factor]].type = "array"
             /\ Len(rd[s[factor]].items) = Len(params)
             /\ \A i \in 1 .. Len(params) :
                  rd[s[factor]].items[i] \in GivesBack(g, rd, factor, junk)[params[i]]
  <2> DEFINE Ds == Copies(g, factor, junk)
             r == s[factor]
  <2>1. <<rd, r>> \in Is("array", 0, Ds)
    <3>1. factor \in 1 .. 7 /\ (factor = 1 \/ factor = 2)
      OBVIOUS
    <3> QED BY <1>2, <1>3, <3>1
  <2> HIDE DEF r
  <2>2. /\ Len(Ds) = Len(params)
        /\ \A i \in 1 .. Len(params) : Ds[i] = Back(g, params[i], factor, junk)
    BY DEF Copies
  <2> HIDE DEF Ds
  <2>3. IsParts(rd, r, "array", 0, Ds)
    BY <2>1, PartsOf
  <2>4. rd[r].type = "array" /\ Len(rd[r].items) = Len(params)
    BY <2>2, <2>3 DEF IsParts
  <2>5. ASSUME NEW i \in 1 .. Len(params)
        PROVE  rd[r].items[i] \in GivesBack(g, rd, factor, junk)[params[i]]
    <3> DEFINE x == rd[r].items[i]
    <3>1. <<rd, x>> \in Back(g, params[i], factor, junk)
      BY <2>2, <2>3 DEF IsParts
    <3> HIDE DEF x
    <3>2. x \in GivesBack(g, rd, factor, junk)[params[i]]
      BY <3>1 DEF Back
    <3> QED BY <3>2 DEF x
  <2> QED BY <2>4, <2>5 DEF r
<1>5. /\ <<rd, s[3]>> \in Is("int", -10, none) /\ <<rd, s[4]>> \in Is("double", OwnDoubleShown, none)
      /\ <<rd, s[5]>> \in Is("string", 6, none) /\ <<rd, s[7]>> \in Is("boolean", 0, none)
      /\ <<rd, s[6]>> \in Is("struct", 0, Entries)
  <2>1. 3 \in 1 .. 7 /\ 4 \in 1 .. 7 /\ 5 \in 1 .. 7 /\ 6 \in 1 .. 7 /\ 7 \in 1 .. 7
    OBVIOUS
  <2> QED BY <1>2, <1>3, <2>1
<1>6. rd[s[3]] = Node("int", -10, none)
  BY <1>5, LeafOf
<1>7. rd[s[4]] = Node("double", OwnDoubleShown, none)
  BY <1>5, LeafOf
<1>8. rd[s[5]] = Node("string", 6, none)
  BY <1>5, LeafOf
<1>9. rd[s[7]] = Node("boolean", 0, none)
  BY <1>5, LeafOf
<1>10. \E m, v \in DOMAIN rd : /\ rd[s[6]] = Node("struct", 0, <<m>>)
                               /\ rd[m] = Node("member", 9, <<v>>)
                               /\ rd[v] = Node("string", 9, none)
  <2>1. PICK m \in Nat : /\ rd[s[6]] = Node("struct", 0, <<m>>)
                         /\ <<rd, m>> \in Is("member", 9, Entry)
    <3> DEFINE D == Is("member", 9, Entry)
    <3>1. <<rd, s[6]>> \in Is("struct", 0, <<D>>)
      BY <1>5 DEF Entries
    <3> HIDE DEF D
    <3>2. HasOnly(rd, s[6], "struct", 0, D)
      BY <3>1, OnlyOf
    <3> QED BY <3>2, Zenon DEF HasOnly, D
  <2>2. PICK v \in Nat : /\ rd[m] = Node("member", 9, <<v>>) /\ m \in DOMAIN rd
                         /\ <<rd, v>> \in Is("string", 9, none)
    <3> DEFINE D == Is("string", 9, none)
    <3>1. <<rd, m>> \in Is("member", 9, <<D>>)
      BY <2>1 DEF Entry
    <3> HIDE DEF D
    <3>2. HasOnly(rd, m, "member", 9, D)
      BY <3>1, OnlyOf
    <3> QED BY <3>2, Zenon DEF HasOnly, D
  <2>3. rd[v] = Node("string", 9, none) /\ v \in DOMAIN rd
    BY <2>2, LeafOf
  <2> QED BY <2>1, <2>2, <2>3
<1>11. Duplicated(g, params, rd, s, junk)
  BY <1>3, <1>4, <1>6, <1>7, <1>8, <1>9, <1>10 DEF Duplicated
<1> QED BY <1>1, <1>11 DEF IsParts, s

LEMMA SumTells ==
  ASSUME NEW sum \in Int
  PROVE  Tells(IntAnswer(sum), <<Is("array", 0, <<Is("int", sum, <<>>)>>)>>)
<1> DEFINE text == ScalarTag("int", sum)
           C == Is("int", sum, <<>>)
<1>1. "int" \in Scalar /\ Digits("int", sum) = sum
  BY DEF Scalar, Digits
<1>2. Tells(text, <<Is("int", Digits("int", sum), <<>>)>>)
  BY <1>1, ScalarTells
<1>3. Tells(text, <<C>>)
  BY <1>1, <1>2
<1> HIDE DEF text, C
<1>4. TellAll(<<text>>, <<C>>)
  BY <1>3, TellOne
<1>5. Tells(ArrayTag(<<text>>), <<Is("array", 0, <<C>>)>>)
  BY <1>4, ArrayTells
<1>6. Tells(Response(ArrayTag(<<text>>)), <<Is("array", 0, <<C>>)>>)
  BY <1>5, ResponseTells
<1> QED BY <1>6 DEF IntAnswer, text, C

-------------------------------------------------------------------------------
(* The answer is what the client reads *)

LEMMA Backs ==
  ASSUME NEW rd, NEW root \in DOMAIN rd, NEW junk \in Junk,
         ReadText(Start, answer') = [open |-> <<Node("none", 0, <<root>>)>>, read |-> rd],
         rd[root].type = "array",
         \/ name' = "Add" /\ IsSum(rd, rd[root].items, junk)'
         \/ name' # "Add" /\ AreDuplicates(rd, rd[root].items, junk)'
  PROVE  AnswerReadsBack'
<1> PICK end : end = ReadText(Start, answer')
  OBVIOUS
<1>1. /\ end.read = rd /\ end.open = <<Node("none", 0, <<root>>)>>
  OBVIOUS
<1>2. end = ReadText([open |-> <<Outside>>, read |-> <<>>], answer')
  BY DEF Start
<1>3. IF name' = "Add" THEN IsSum(end.read, end.read[root].items, junk)'
      ELSE AreDuplicates(end.read, end.read[root].items, junk)'
  <2>1. CASE name' = "Add"
    <3>1. IsSum(end.read, end.read[root].items, junk)'
      BY <1>1, <2>1
    <3> QED BY <2>1, <3>1
  <2>2. CASE name' # "Add"
    <3>1. AreDuplicates(end.read, end.read[root].items, junk)'
      BY <1>1, <2>2
    <3> QED BY <2>2, <3>1
  <2> QED BY <2>1, <2>2
<1> QED BY <1>1, <1>2, <1>3, Zenon DEF AnswerReadsBack

LEMMA AddReadsBack ==
  ASSUME IInv, outcome = "closed", made = <<>>, Readable, NEW junk \in Junk, Add(junk),
         UNCHANGED params, name' = "Add"
  PROVE  AnswerReadsBack'
<1> DEFINE a == heap[params[1]].value + heap[params[2]].value
           sum == ToInt(a, junk)
<1>1. sum \in Int /\ sum = IF a \in IntRange THEN a ELSE junk
  <2>1. Ready
    BY IsReady
  <2>2. params[1] \in DOMAIN heap /\ params[2] \in DOMAIN heap
    <3>1. /\ 0 \notin ToSet(params) /\ ToSet(params) \subseteq Copied
          /\ DOMAIN heap = 1 .. Len(heap)
          /\ Copied \subseteq 1 .. Len(heap)
      BY <2>1, CopiedIsRead
    <3>2. Len(params) >= 2 /\ params \in Seq(Nat)
      BY <2>1 DEF Add, HasIntValues, Ready
    <3>3. params[1] \in ToSet(params) /\ params[2] \in ToSet(params)
      BY <3>2 DEF ToSet
    <3> QED BY <3>1, <3>3
  <2>3. heap[params[1]].value \in Int /\ heap[params[2]].value \in Int
    <3>1. \A i \in DOMAIN heap : heap[i] \in Object
      BY <2>1 DEF Ready
    <3>2. \A o \in Object : o.value \in Int
      BY DEF Object
    <3> QED BY <2>2, <3>1, <3>2
  <2>4. a \in Int /\ junk \in Int
    BY <2>3, CallAssumption DEF IntRange
  <2> HIDE DEF a
  <2> QED BY <2>4 DEF ToInt
<1>2. answer' = IntAnswer(sum) /\ heap' = heap
  BY DEF Add
<1> HIDE DEF sum
<1> DEFINE C == Is("array", 0, <<Is("int", sum, <<>>)>>)
<1>3. Tells(answer', <<C>>)
  BY <1>1, <1>2, SumTells
<1>4. PICK rd \in Seq(NodeT), root \in Nat : ReadOut(answer', rd, root, C)
  <2> HIDE DEF C
  <2>1. \A text : Tells(text, <<C>>) =>
          \E rd \in Seq(NodeT), root \in Nat : ReadOut(text, rd, root, C)
    BY AnswerRead
  <2> QED BY <1>3, <2>1
<1>5. PICK x \in Nat : /\ rd[root] = Node("array", 0, <<x>>) /\ root \in DOMAIN rd
                       /\ <<rd, x>> \in Is("int", sum, <<>>)
  <2> DEFINE D == Is("int", sum, <<>>)
  <2>1. <<rd, root>> \in Is("array", 0, <<D>>)
    BY <1>4 DEF ReadOut
  <2> HIDE DEF D
  <2>2. HasOnly(rd, root, "array", 0, D)
    BY <2>1, OnlyOf
  <2> QED BY <2>2, Zenon DEF HasOnly, D
<1>6. rd[x] = Node("int", sum, <<>>)
  BY <1>5, LeafOf
<1>7. rd[root].type = "array" /\ rd[root].items = <<x>>
  BY <1>5 DEF Node
<1>8. IsSum(rd, <<x>>, junk)'
  <2>1. Len(<<x>>) = 1 /\ <<x>>[1] = x
    OBVIOUS
  <2>2. heap'[params'[1]].value + heap'[params'[2]].value = a
    BY <1>2
  <2> QED BY <1>1, <1>6, <2>1, <2>2 DEF IsSum
<1>9. ReadText(Start, answer') = [open |-> <<Node("none", 0, <<root>>)>>, read |-> rd]
  BY <1>4 DEF ReadOut
<1>10. IsSum(rd, rd[root].items, junk)'
  BY <1>7, <1>8
<1> QED BY <1>5, <1>7, <1>9, <1>10, Backs

LEMMA DuplicateReadsBack ==
  ASSUME IInv, outcome = "closed", made = <<>>, Readable,
         NEW junk \in Junk, DuplicateParameter(junk),
         UNCHANGED params, name' = "DuplicateParameter"
  PROVE  AnswerReadsBack'
<1> DEFINE h == WithResults(junk)
           g == heap'
<1>1. Ready /\ \A k \in DOMAIN heap : Plain(heap[k])
  BY IsReady
<1>2. IsWithResults(h, junk)
  BY <1>1, WithResultsIs
<1>3. g = Deleted(h, ToSet(ResultNumbers))
      /\ answer' = Response(ArrayTag(
           [i \in 1 .. Len(ResultNumbers) |-> ToXmlTag(h)[ResultNumbers[i]]]))
  BY DEF DuplicateParameter, ResultNumbers
<1> HIDE DEF h
<1>4. /\ Shaped(h) /\ Extends(h, heap) /\ Owners(h, <<>>, params, lost)
      /\ \A k \in DOMAIN h : h[k] \in Object
  BY <1>1, <1>2, ResultsSound, ResultsTyped
<1>5. Keeps(g)
  <2>1. /\ DOMAIN g = DOMAIN h
        /\ \A k \in DOMAIN h : /\ g[k].items = h[k].items /\ g[k].type = h[k].type
                               /\ g[k].value = h[k].value
    BY <1>3, <1>4, DeletedIs
  <2>2. Shaped(g)
    <3>1. \A k \in DOMAIN h : Below(g, k) = Below(h, k)
      BY <2>1 DEF Below
    <3> HIDE DEF g
    <3> QED BY <1>4, <2>1, <3>1 DEF Shaped
  <2>3. \A k \in DOMAIN heap : h[k] = heap[k]
    BY <1>1, <1>2, CopiedIsRead DEF IsWithResults
  <2> HIDE DEF g
  <2> QED BY <1>4, <2>1, <2>2, <2>3 DEF Keeps, Extends
<1> DEFINE texts == [i \in 1 .. Len(ResultNumbers) |-> ToXmlTag(h)[ResultNumbers[i]]]
           C == Is("array", 0, Seven(g, junk))
<1>6. TellAll(texts, Seven(g, junk))
  <2> HIDE DEF g
  <2> QED BY <1>1, <1>2, <1>5, SevenTell
<1> HIDE DEF texts, g
<1>7. Tells(answer', <<C>>)
  <2>1. Tells(ArrayTag(texts), <<C>>)
    BY <1>6, ArrayTells
  <2> HIDE DEF C
  <2>2. Tells(Response(ArrayTag(texts)), <<C>>)
    BY <2>1, ResponseTells
  <2> QED BY <1>3, <2>2 DEF texts
<1>8. PICK rd \in Seq(NodeT), root \in Nat : ReadOut(answer', rd, root, C)
  <2> HIDE DEF C
  <2>1. \A text : Tells(text, <<C>>) =>
          \E rd \in Seq(NodeT), root \in Nat : ReadOut(text, rd, root, C)
    BY AnswerRead
  <2> QED BY <1>7, <2>1
<1>9. /\ root \in DOMAIN rd /\ rd[root].type = "array"
      /\ Duplicated(g, params, rd, rd[root].items, junk)
  BY <1>1, <1>8, SevenMean DEF ReadOut, Ready
<1>10. AreDuplicates(rd, rd[root].items, junk)'
  <2>1. DuplicatesMatch'
    BY DuplicatesAre, PTL
  <2>2. Duplicated(heap', params', rd, rd[root].items, junk)
    BY <1>9, Zenon DEF g
  <2> QED BY <2>1, <2>2, Zenon DEF DuplicatesMatch
<1>11. ReadText(Start, answer') = [open |-> <<Node("none", 0, <<root>>)>>, read |-> rd]
  BY <1>8 DEF ReadOut
<1> QED BY <1>9, <1>10, <1>11, Backs

\* A call of a registered function gives back what it was given, in any order and
\* depth: the client that reads the answer finds the sum, or both copies of the
\* parameters and the five values behind them (testserverobjects.cpp:6-134,
\* method.cpp:95-210).
THEOREM AnswersReadBack == Spec => []AnswerReadsBack
<1>1. Init => AnswerReadsBack
  BY DEF Init, AnswerReadsBack
<1>2. IInv /\ AnswerReadsBack /\ [Next]_vars => AnswerReadsBack'
  <2> SUFFICES ASSUME IInv, AnswerReadsBack, [Next]_vars PROVE AnswerReadsBack'
    OBVIOUS
  <2>1. CASE UNCHANGED vars
    <3>1. heap' = heap /\ params' = params /\ name' = name /\ answer' = answer
          /\ outcome' = outcome
      BY <2>1 DEF vars
    <3>2. DuplicatesMatch'
      BY DuplicatesAre, PTL
    <3>3. \A read, items, junk : AreDuplicates(read, items, junk)' <=>
                                 AreDuplicates(read, items, junk)
      BY <3>1, <3>2, DuplicatesAre, Zenon DEF DuplicatesMatch
    <3>4. \A read, items, junk : IsSum(read, items, junk)' <=> IsSum(read, items, junk)
      BY <3>1 DEF IsSum
    <3> QED BY <3>1, <3>3, <3>4, Zenon DEF AnswerReadsBack
  <2>2. CASE Walk \/ CloseParams \/ DropParams \/ CutRequest
    <3>1. outcome' # "answered"
      BY <2>2 DEF Walk, MakeScalar, MakeNull, MakeArray, MakeStruct, MakeMember, Make,
         ConversionFails, CloseParam, CloseParams, DropParams, CutRequest, Walking
    <3> QED BY <3>1 DEF AnswerReadsBack
  <2>3. ASSUME NEW method, DoCall(method) PROVE AnswerReadsBack'
    <3>1. /\ outcome = "closed" /\ made = <<>> /\ name' = method /\ UNCHANGED params
      BY <2>3 DEF DoCall, IInv, Walking
    <3>2. CASE outcome' # "answered"
      BY <3>2 DEF AnswerReadsBack
    <3>3. CASE outcome' = "answered"
      <4>1. Readable /\ \E junk \in Junk :
              \/ method = "Add" /\ Add(junk)
              \/ method = "DuplicateParameter" /\ DuplicateParameter(junk)
        BY <2>3, <3>3 DEF DoCall
      <4> QED BY <3>1, <4>1, AddReadsBack, DuplicateReadsBack
    <3> QED BY <3>2, <3>3
  <2>4. CASE DeleteParameters
    BY <2>4 DEF DeleteParameters, AnswerReadsBack
  <2> QED BY <2>1, <2>2, <2>3, <2>4 DEF Next
<1> QED BY <1>1, <1>2, InvariantHolds, PTL DEF Spec
================================================================================
