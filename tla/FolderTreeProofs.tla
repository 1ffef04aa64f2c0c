-------------------------- MODULE FolderTreeProofs --------------------------
(***************************************************************************)
(* Lemmas about the recursive queries over a table of folders, for any     *)
(* table of finitely many.  They are proved through two facts: what lies   *)
(* above a folder is closed under the parent, and is the least such set.   *)
(* Both come from the least number of rounds after which the query fails    *)
(* to grow, without induction over an operator.                            *)
(***************************************************************************)
EXTENDS FolderTree, FiniteSetTheorems, WellFoundedInduction, TLAPS

-----------------------------------------------------------------------------
(* The recursive queries.                                                  *)

\* A table of folders whose parents are in it.
Rooted(t) ==
  /\ IsFiniteSet(DOMAIN t) /\ Root \notin DOMAIN t
  /\ \A f \in DOMAIN t : t[f].parent \in DOMAIN t \cup {Root}

\* Lemma: a set of naturals has a least member.
LEMMA LeastMember ==
  ASSUME NEW S, S \subseteq Nat, S # {}
  PROVE  \E x \in S : \A y \in S : x <= y
<1>1. PICK x \in S : \A y \in S : ~ (<<y, x>> \in OpToRel(<, Nat))
  BY NatLessThanWellFounded, WFMin, Zenon
<1>2. \A y \in S : y < x => <<y, x>> \in OpToRel(<, Nat)
  BY DEF OpToRel
<1>3. \A y \in S : ~(y < x)
  BY <1>1, <1>2, Zenon
<1> QED
  BY <1>3

\* Lemma: counting up to N reaches every number.
LEMMA Upwards ==
  ASSUME NEW N \in Nat, NEW S, 0 \in S, \A n \in 1 .. N : n - 1 \in S => n \in S
  PROVE  0 .. N \subseteq S
<1> DEFINE Bad == (0 .. N) \ S
<1>1. SUFFICES ASSUME Bad # {} PROVE FALSE
  BY <1>1
<1>2. PICK m \in Bad : \A k \in Bad : m <= k
  <2>1. Bad \subseteq Nat
    OBVIOUS
  <2> HIDE DEF Bad
  <2> QED
    BY <1>1, <2>1, LeastMember
<1>3. m # 0 /\ m \in 1 .. N
  BY <1>2
<1>4. m - 1 \in S
  BY <1>2, <1>3
<1> QED
  BY <1>2, <1>3, <1>4

\* One round of the query for the folders above.
Wider(t, S) == S \cup ({t[g].parent : g \in S} \ {Root})
\* u is the recursion of the query for the folders above f, up to round N.
IsUp(u, t, f, N) == u = [n \in 0 .. N |-> IF n = 0 THEN {f} \cap DOMAIN t ELSE Wider(t, u[n - 1])]

\* Lemma: the rounds of the query exist.
LEMMA Rounds ==
  ASSUME NEW t, NEW f, NEW N \in Nat
  PROVE  \E up : IsUp(up, t, f, N)
<1> DEFINE Good == {m \in 0 .. N : \E up : IsUp(up, t, f, m)}
<1>1. 0 \in Good
  <2> DEFINE up == [n \in 0 .. 0 |-> {f} \cap DOMAIN t]
  <2>1. IsUp(up, t, f, 0)
    BY DEF IsUp
  <2> QED
    BY <2>1
<1>2. ASSUME NEW m \in 1 .. N, m - 1 \in Good PROVE m \in Good
  <2>2. PICK low : IsUp(low, t, f, m - 1)
    BY <1>2
  <2> DEFINE up == [n \in 0 .. m |-> IF n = m THEN Wider(t, low[m - 1]) ELSE low[n]]
  <2>3. \A n \in 0 .. m : up[n] = IF n = 0 THEN {f} \cap DOMAIN t ELSE Wider(t, up[n - 1])
    <3> SUFFICES ASSUME NEW n \in 0 .. m
                 PROVE  up[n] = IF n = 0 THEN {f} \cap DOMAIN t ELSE Wider(t, up[n - 1])
      OBVIOUS
    <3>1. CASE n = m
      BY <3>1
    <3>2. CASE n # m
      <4>1. n \in 0 .. m - 1
        BY <3>2
      <4>2. low[n] = IF n = 0 THEN {f} \cap DOMAIN t ELSE Wider(t, low[n - 1])
        BY <2>2, <4>1 DEF IsUp
      <4> QED
        BY <3>2, <4>1, <4>2
    <3> QED
      BY <3>1, <3>2
  <2>4. IsUp(up, t, f, m)
    BY <2>3 DEF IsUp
  <2> QED
    BY <2>4
<1>3. 0 .. N \subseteq Good
  <2> HIDE DEF Good
  <2> QED
  BY <1>1, <1>2, Upwards
<1> QED
  BY <1>3

\* Lemma: the query is as its recursion says.
LEMMA AboveRounds ==
  ASSUME NEW t, NEW f, IsFiniteSet(DOMAIN t)
  PROVE  \E up :
           /\ up[0] = {f} \cap DOMAIN t
           /\ \A n \in 1 .. Cardinality(DOMAIN t) : up[n] = Wider(t, up[n - 1])
           /\ Above(t, f) = up[Cardinality(DOMAIN t)]
<1> DEFINE N == Cardinality(DOMAIN t)
           up == CHOOSE u : IsUp(u, t, f, N)
<1>1. N \in Nat
  BY FS_CardinalityType
<1>3. IsUp(up, t, f, N)
  BY <1>1, Rounds
<1>4. Above(t, f) = up[N]
  BY DEF Above, IsUp, Wider
<1> HIDE DEF up
<1>5. up[0] = {f} \cap DOMAIN t
  BY <1>1, <1>3 DEF IsUp
<1>6. \A n \in 1 .. N : up[n] = Wider(t, up[n - 1])
  <2> HIDE DEF N
  <2> TAKE n \in 1 .. N
  <2>1. n \in 0 .. N /\ n # 0
    BY <1>1
  <2> QED
    BY <2>1, <1>1, <1>3 DEF IsUp
<1> QED
  BY <1>4, <1>5, <1>6

\* A set of folders that the folders' parents do not leave.
ClosedUp(t, S) == \A g \in S \cap DOMAIN t : t[g].parent \in S \cup {Root}

\* Lemma: the query returns folders, and with each the folder it lies in.
LEMMA AboveClosed ==
  ASSUME NEW t, NEW f, Rooted(t)
  PROVE  /\ Above(t, f) \subseteq DOMAIN t
         /\ f \in DOMAIN t => f \in Above(t, f)
         /\ ClosedUp(t, Above(t, f))
<1> DEFINE N == Cardinality(DOMAIN t)
<1>1. IsFiniteSet(DOMAIN t) /\ N \in Nat
  BY FS_CardinalityType DEF Rooted
<1>2. PICK up : /\ up[0] = {f} \cap DOMAIN t
                /\ \A n \in 1 .. N : up[n] = Wider(t, up[n - 1])
                /\ Above(t, f) = up[N]
  BY <1>1, AboveRounds
<1> DEFINE Good == {n \in 0 .. N : /\ up[n] \subseteq DOMAIN t /\ {f} \cap DOMAIN t \subseteq up[n]
                                   /\ up[n] = Wider(t, up[n]) \/ Cardinality(up[n]) > n}
<1> HIDE DEF N
<1>3. 0 \in Good
  <2>1. CASE f \in DOMAIN t
    <3>1. up[0] = {f} /\ Cardinality({f}) = 1
      BY <1>2, <2>1, FS_Singleton
    <3>2. Cardinality(up[0]) > 0
      BY <3>1
    <3> QED
      BY <1>1, <2>1, <3>1, <3>2
  <2>2. CASE f \notin DOMAIN t
    BY <1>1, <1>2, <2>2 DEF Wider
  <2> QED
    BY <2>1, <2>2
<1>4. ASSUME NEW n \in 1 .. N, n - 1 \in Good PROVE n \in Good
  <2>1. up[n] = Wider(t, up[n - 1])
    BY <1>2
  <2>2. up[n - 1] \subseteq up[n] /\ up[n] \subseteq DOMAIN t /\ {f} \cap DOMAIN t \subseteq up[n]
    <3>1. up[n - 1] \subseteq DOMAIN t /\ {f} \cap DOMAIN t \subseteq up[n - 1]
      BY <1>4
    <3>2. {t[g].parent : g \in up[n - 1]} \ {Root} \subseteq DOMAIN t
      BY <3>1 DEF Rooted
    <3> QED
      BY <2>1, <3>1, <3>2 DEF Wider
  <2>3. CASE up[n] = up[n - 1]
    <3>1. up[n] = Wider(t, up[n])
      BY <2>1, <2>3
    <3> QED
      BY <1>1, <2>2, <3>1
  <2>4. CASE up[n] # up[n - 1]
    <3>1. Cardinality(up[n - 1]) > n - 1
      BY <1>4, <2>1, <2>4
    <3>2. IsFiniteSet(up[n]) /\ IsFiniteSet(up[n - 1])
      BY <1>1, <2>2, FS_Subset
    <3>3. Cardinality(up[n - 1]) < Cardinality(up[n])
      <4>1. up[n - 1] \in SUBSET up[n]
        BY <2>2
      <4>2. /\ Cardinality(up[n - 1]) <= Cardinality(up[n])
            /\ Cardinality(up[n]) = Cardinality(up[n - 1]) => up[n] = up[n - 1]
        BY <3>2, <4>1, FS_Subset
      <4>3. Cardinality(up[n - 1]) \in Nat /\ Cardinality(up[n]) \in Nat
        BY <3>2, FS_CardinalityType
      <4> QED
        BY <2>4, <4>2, <4>3
    <3>4. Cardinality(up[n - 1]) \in Nat /\ Cardinality(up[n]) \in Nat
      BY <3>2, FS_CardinalityType
    <3> QED
      BY <1>1, <2>2, <3>1, <3>3, <3>4
  <2> QED
    BY <2>3, <2>4
<1>5. N \in Good
  <2> HIDE DEF Good
  <2> QED
    BY <1>1, <1>3, <1>4, Upwards
<1>6. Cardinality(up[N]) <= N
  BY <1>1, <1>5, FS_Subset DEF N
<1>7. up[N] = Wider(t, up[N])
  <2>1. Cardinality(up[N]) \in Nat
    BY <1>1, <1>5, FS_Subset, FS_CardinalityType
  <2> QED
    BY <1>1, <1>5, <1>6, <2>1
<1> QED
  BY <1>2, <1>5, <1>7 DEF Wider, ClosedUp

\* Lemma: and no other folder.
LEMMA AboveLeast ==
  ASSUME NEW t, NEW f, NEW S, IsFiniteSet(DOMAIN t), {f} \cap DOMAIN t \subseteq S, S \subseteq DOMAIN t,
         ClosedUp(t, S)
  PROVE  Above(t, f) \subseteq S
<1> DEFINE N == Cardinality(DOMAIN t)
<1>1. N \in Nat
  BY FS_CardinalityType
<1>2. PICK up : /\ up[0] = {f} \cap DOMAIN t
                /\ \A n \in 1 .. N : up[n] = Wider(t, up[n - 1])
                /\ Above(t, f) = up[N]
  BY <1>1, AboveRounds
<1> DEFINE Good == {n \in 0 .. N : up[n] \subseteq S}
<1> HIDE DEF N
<1>3. 0 \in Good
  BY <1>1, <1>2
<1>4. ASSUME NEW n \in 1 .. N, n - 1 \in Good PROVE n \in Good
  <2>1. up[n] = Wider(t, up[n - 1]) /\ up[n - 1] \subseteq S
    BY <1>2, <1>4
  <2> QED
    BY <2>1 DEF Wider, ClosedUp
<1>5. N \in Good
  <2> HIDE DEF Good
  <2> QED
    BY <1>1, <1>3, <1>4, Upwards
<1> QED
  BY <1>2, <1>5

\* Lemma: nothing is above what is not a folder.
LEMMA AboveNothing ==
  ASSUME NEW t, NEW f, Rooted(t), f \notin DOMAIN t
  PROVE  Above(t, f) = {}
<1>1. ClosedUp(t, {}) /\ IsFiniteSet(DOMAIN t) /\ {f} \cap DOMAIN t \subseteq {} /\ {} \subseteq DOMAIN t
  BY DEF Rooted, ClosedUp
<1>2. Above(t, f) \subseteq {}
  BY <1>1, AboveLeast
<1> QED
  BY <1>2

\* Lemma: what is above a folder above is above.
LEMMA AboveTrans ==
  ASSUME NEW t, Rooted(t), NEW f, NEW g \in Above(t, f)
  PROVE  Above(t, g) \subseteq Above(t, f)
<1>1. Above(t, f) \subseteq DOMAIN t /\ ClosedUp(t, Above(t, f))
  BY AboveClosed
<1> QED
  BY <1>1, AboveLeast DEF Rooted

\* Lemma: above a folder are the folder and all above its parent.
LEMMA AboveStep ==
  ASSUME NEW t, Rooted(t), NEW f \in DOMAIN t
  PROVE  Above(t, f) = {f} \cup Above(t, t[f].parent)
<1> DEFINE p == t[f].parent
           S == {f} \cup Above(t, p)
<1>1. /\ Above(t, p) \subseteq DOMAIN t /\ ClosedUp(t, Above(t, p))
      /\ p \in DOMAIN t => p \in Above(t, p)
  BY AboveClosed
<1>2. /\ f \in Above(t, f) /\ Above(t, f) \subseteq DOMAIN t /\ ClosedUp(t, Above(t, f))
  BY AboveClosed
<1>3. p \in DOMAIN t \cup {Root}
  BY DEF Rooted
<1>4. Above(t, f) \subseteq S
  <2>1. ClosedUp(t, S)
    BY <1>1, <1>3 DEF ClosedUp
  <2> QED
    BY <1>1, <2>1, AboveLeast DEF Rooted
<1>5. Above(t, p) \subseteq Above(t, f)
  <2>1. CASE p \in DOMAIN t
    <3>1. p \in Above(t, f)
      BY <1>2, <2>1 DEF ClosedUp, Rooted
    <3> QED
      BY <3>1, AboveTrans
  <2>2. CASE p \notin DOMAIN t
    BY <2>2, AboveNothing
  <2> QED
    BY <2>1, <2>2
<1> QED
  BY <1>2, <1>4, <1>5

\* Lemma: only the parents of the folders above decide what is above.
LEMMA AboveSame ==
  ASSUME NEW t, NEW u, Rooted(t), Rooted(u), NEW f, f \in DOMAIN t <=> f \in DOMAIN u,
         \A g \in Above(t, f) : g \in DOMAIN u /\ u[g].parent = t[g].parent
  PROVE  Above(u, f) = Above(t, f)
<1>1. /\ Above(t, f) \subseteq DOMAIN t /\ ClosedUp(t, Above(t, f))
      /\ f \in DOMAIN t => f \in Above(t, f)
  BY AboveClosed
<1>2. /\ Above(u, f) \subseteq DOMAIN u /\ ClosedUp(u, Above(u, f))
      /\ f \in DOMAIN u => f \in Above(u, f)
  BY AboveClosed
<1>3. Above(u, f) \subseteq Above(t, f)
  <2>1. ClosedUp(u, Above(t, f))
    BY <1>1 DEF ClosedUp
  <2> QED
    BY <1>1, <2>1, AboveLeast DEF Rooted
<1>4. Above(t, f) \subseteq Above(u, f)
  <2> DEFINE S == Above(u, f) \cap Above(t, f)
  <2>1. ClosedUp(t, S)
    BY <1>1, <1>2, <1>3 DEF ClosedUp, Rooted
  <2>2. {f} \cap DOMAIN t \subseteq S /\ S \subseteq DOMAIN t
    BY <1>1, <1>2
  <2> HIDE DEF S
  <2>3. Above(t, f) \subseteq S
    BY <2>1, <2>2, AboveLeast DEF Rooted
  <2> QED
    BY <2>3 DEF S
<1> QED
  BY <1>3, <1>4

\* Lemma: in a tree two different folders are not above each other.
LEMMA AboveOrder ==
  ASSUME NEW t, Rooted(t), Acyclic(t), NEW f, NEW g \in Above(t, f), f \in Above(t, g)
  PROVE  f = g
<1>1. SUFFICES ASSUME f # g PROVE FALSE
  OBVIOUS
<1>2. f \in DOMAIN t
  BY AboveClosed
<1>3. g \in Above(t, t[f].parent)
  BY <1>1, <1>2, AboveStep
<1>4. f \in Above(t, t[f].parent)
  BY <1>3, AboveTrans
<1> QED
  BY <1>2, <1>4 DEF Acyclic, OnCycle

\* Lemma: of two folders above a third one is above the other.
LEMMA AboveChain ==
  ASSUME NEW t, Rooted(t), NEW f, NEW g \in Above(t, f), NEW h \in Above(t, f)
  PROVE  g \in Above(t, h) \/ h \in Above(t, g)
<1> DEFINE S == {x \in Above(t, f) : x \in Above(t, g) \/ g \in Above(t, x)}
<1>1. /\ Above(t, f) \subseteq DOMAIN t /\ ClosedUp(t, Above(t, f))
      /\ f \in DOMAIN t => f \in Above(t, f)
  BY AboveClosed
<1>2. /\ Above(t, g) \subseteq DOMAIN t /\ ClosedUp(t, Above(t, g)) /\ g \in Above(t, g)
  BY <1>1, AboveClosed
<1>3. ASSUME NEW x \in S PROVE t[x].parent \in S \cup {Root}
  <2>1. t[x].parent \in Above(t, f) \cup {Root}
    BY <1>1, <1>3 DEF ClosedUp
  <2>2. CASE x \in Above(t, g)
    BY <1>2, <2>1, <2>2 DEF ClosedUp
  <2>3. CASE x \notin Above(t, g)
    <3>1. g \in Above(t, x) /\ x # g
      BY <1>2, <1>3, <2>3
    <3>2. g \in Above(t, t[x].parent)
      BY <1>1, <3>1, AboveStep
    <3> QED
      BY <2>1, <3>2
  <2> QED
    BY <2>2, <2>3
<1>4. ClosedUp(t, S) /\ S \subseteq DOMAIN t /\ {f} \cap DOMAIN t \subseteq S
  BY <1>1, <1>3 DEF ClosedUp
<1> HIDE DEF S
<1>5. Above(t, f) \subseteq S
  BY <1>4, AboveLeast DEF Rooted
<1> QED
  BY <1>5 DEF S

\* Lemma: the depth counts the folders from the first level on.
LEMMA DepthFacts ==
  ASSUME NEW t, Rooted(t), NEW f
  PROVE  /\ Depth(t, f) \in Nat /\ IsFiniteSet(Above(t, f))
         /\ f \notin DOMAIN t => Depth(t, f) = 0
         /\ \A g \in Above(t, f) : Depth(t, g) \in Nat /\ Depth(t, g) <= Depth(t, f)
<1>1. IsFiniteSet(Above(t, f))
  BY AboveClosed, FS_Subset DEF Rooted
<1>2. Depth(t, f) \in Nat
  BY <1>1, FS_CardinalityType DEF Depth
<1>3. f \notin DOMAIN t => Depth(t, f) = 0
  BY AboveNothing, FS_EmptySet DEF Depth
<1>4. ASSUME NEW g \in Above(t, f) PROVE Depth(t, g) \in Nat /\ Depth(t, g) <= Depth(t, f)
  <2>1. Above(t, g) \in SUBSET Above(t, f)
    BY AboveTrans
  <2> QED
    BY <1>1, <2>1, FS_Subset, FS_CardinalityType DEF Depth
<1> QED
  BY <1>1, <1>2, <1>3, <1>4

\* Lemma: where no cycle is, a folder is one deeper than the one it lies in.
LEMMA DepthStep ==
  ASSUME NEW t, Rooted(t), NEW f \in DOMAIN t, ~OnCycle(t, f)
  PROVE  Depth(t, f) = Depth(t, t[f].parent) + 1
<1>1. f \notin Above(t, t[f].parent)
  BY DEF OnCycle
<1>2. IsFiniteSet(Above(t, t[f].parent))
  BY DepthFacts
<1>3. Above(t, f) = Above(t, t[f].parent) \cup {f}
  BY AboveStep
<1> QED
  BY <1>1, <1>2, <1>3, FS_AddElement DEF Depth

\* Lemma: a set of integers with a bound has a greatest member.
LEMMA MaxFacts ==
  ASSUME NEW S, S \subseteq Int, S # {}, NEW N \in Int, \A x \in S : x <= N
  PROVE  Max(S) \in S /\ \A y \in S : Max(S) >= y
<1> DEFINE D == {N - x : x \in S}
<1>1. D \subseteq Nat /\ D # {}
  <2>1. \A x \in S : N - x \in Nat
    OBVIOUS
  <2> QED
    BY <2>1
<1>2. PICK d \in D : \A e \in D : d <= e
  <2> HIDE DEF D
  <2> QED
    BY <1>1, LeastMember
<1>3. PICK x \in S : d = N - x
  OBVIOUS
<1>4. ASSUME NEW y \in S PROVE x >= y
  <2>1. d <= N - y
    BY <1>2
  <2> QED
    BY <1>3, <2>1
<1> QED
  BY <1>4 DEF Max

\* The folders between f and x, both included.
Between(t, f, x) == {g \in Above(t, f) : x \in Above(t, g)}

\* Lemma: how many they are.
LEMMA BetweenFacts ==
  ASSUME NEW t, Rooted(t), Acyclic(t), NEW f, NEW x \in Above(t, f)
  PROVE  /\ IsFiniteSet(Between(t, f, x))
         /\ Cardinality(Between(t, f, x)) = Depth(t, f) - Depth(t, x) + 1
<1> DEFINE B == Between(t, f, x)
<1>1. Above(t, f) \subseteq DOMAIN t /\ x \in DOMAIN t /\ x \in Above(t, x)
  BY AboveClosed
<1>2. IsFiniteSet(Above(t, f)) /\ IsFiniteSet(Above(t, x)) /\ B \in SUBSET Above(t, f)
  BY DepthFacts DEF Between
<1>3. IsFiniteSet(B)
  BY <1>2, FS_Subset
<1>4. B \cup Above(t, x) = Above(t, f)
  <2>1. Above(t, x) \subseteq Above(t, f)
    BY AboveTrans
  <2>2. \A g \in Above(t, f) : x \in Above(t, g) \/ g \in Above(t, x)
    BY AboveChain
  <2> QED
    BY <2>1, <2>2 DEF Between
<1>5. B \cap Above(t, x) = {x}
  <2>1. \A g \in B \cap Above(t, x) : g = x
    BY AboveOrder DEF Between
  <2> QED
    BY <1>1, <2>1 DEF Between
<1>6. Cardinality({x}) = 1
  BY FS_Singleton
<1>7. Cardinality(Above(t, f)) = Cardinality(B) + Cardinality(Above(t, x)) - 1
  BY <1>2, <1>3, <1>4, <1>5, <1>6, FS_Union
<1>8. Cardinality(B) \in Nat /\ Cardinality(Above(t, x)) \in Nat
  BY <1>2, <1>3, FS_CardinalityType
<1> QED
  BY <1>3, <1>7, <1>8 DEF Depth

\* Lemma: the height bounds the way from every folder below up to the folder.
LEMMA HeightFacts ==
  ASSUME NEW t, Rooted(t), NEW f
  PROVE  /\ Height(t, f) \in Nat
         /\ \A g \in Below(t, f) : Depth(t, g) - Depth(t, f) + 1 <= Height(t, f)
<1> DEFINE S == {0} \cup {Depth(t, g) - Depth(t, f) + 1 : g \in Below(t, f)}
           N == Cardinality(DOMAIN t) + 1
<1>1. N \in Int /\ \A g : Depth(t, g) \in Nat /\ Depth(t, g) + 1 <= N
  <2>1. IsFiniteSet(DOMAIN t)
    BY DEF Rooted
  <2>2. \A g : Above(t, g) \in SUBSET DOMAIN t
    BY AboveClosed
  <2>3. \A g : Cardinality(Above(t, g)) <= Cardinality(DOMAIN t)
    BY <2>1, <2>2, FS_Subset
  <2>4. Cardinality(DOMAIN t) \in Nat /\ \A g : Depth(t, g) \in Nat
    BY <2>1, FS_CardinalityType, DepthFacts
  <2> QED
    BY <2>3, <2>4 DEF Depth
<1>2. S \subseteq Int /\ S # {} /\ \A x \in S : x <= N
  <2>1. \A g \in Below(t, f) :
          /\ Depth(t, g) - Depth(t, f) + 1 \in Int
          /\ Depth(t, g) - Depth(t, f) + 1 <= N
    BY <1>1
  <2>2. 0 <= N
    BY <1>1
  <2> QED
    BY <2>1, <2>2
<1>3. Height(t, f) = Max(S)
  BY DEF Height
<1>4. Height(t, f) \in S /\ \A y \in S : Height(t, f) >= y
  <2> HIDE DEF S, N
  <2> QED
    BY <1>1, <1>2, <1>3, MaxFacts
<1>5. 0 \in S /\ \A g \in Below(t, f) : Depth(t, g) - Depth(t, f) + 1 \in S
  OBVIOUS
<1>6. Height(t, f) \in Int
  BY <1>2, <1>4
<1>7. Height(t, f) \in Nat
  BY <1>4, <1>5, <1>6
<1>8. \A g \in Below(t, f) : Depth(t, g) - Depth(t, f) + 1 <= Height(t, f)
  <2> HIDE DEF S
  <2> QED
    BY <1>1, <1>4, <1>5, <1>6
<1> QED
  BY <1>7, <1>8

\* Lemma: a table that keeps some of the folders with their parents.
LEMMA KeptAbove ==
  ASSUME NEW t, NEW u, Rooted(t), Rooted(u), DOMAIN u \subseteq DOMAIN t,
         \A f \in DOMAIN u : u[f].parent = t[f].parent
  PROVE  \A f \in DOMAIN u : Above(u, f) = Above(t, f)
<1> TAKE f \in DOMAIN u
<1>1. Above(u, f) \subseteq DOMAIN u /\ f \in Above(u, f) /\ ClosedUp(u, Above(u, f))
  BY AboveClosed
<1>2. \A g \in Above(u, f) : g \in DOMAIN t /\ u[g].parent = t[g].parent
  BY <1>1
<1> QED
  BY <1>1, <1>2, AboveSame

\* Lemma: a new folder goes below p.
LEMMA InsertAbove ==
  ASSUME NEW t, NEW u, Rooted(t), Rooted(u), NEW x, x \notin DOMAIN t, DOMAIN u = DOMAIN t \cup {x},
         \A f \in DOMAIN t : u[f].parent = t[f].parent
  PROVE  /\ \A f : f # x => Above(u, f) = Above(t, f)
         /\ u[x].parent # x => Above(u, x) = {x} \cup Above(t, u[x].parent)
<1>1. ASSUME NEW f, f # x PROVE Above(u, f) = Above(t, f)
  <2>1. \A g \in Above(t, f) : g \in DOMAIN u /\ u[g].parent = t[g].parent
    BY AboveClosed
  <2>2. f \in DOMAIN t <=> f \in DOMAIN u
    BY <1>1
  <2> QED
    BY <2>1, <2>2, AboveSame
<1>2. Above(u, x) = {x} \cup Above(u, u[x].parent)
  BY AboveStep
<1> QED
  BY <1>1, <1>2

\* Lemma: folder x moves to p, which does not lie below it.
LEMMA MoveAbove ==
  ASSUME NEW t, NEW u, Rooted(t), Rooted(u), Acyclic(t), NEW x \in DOMAIN t, DOMAIN u = DOMAIN t,
         \A f \in DOMAIN t \ {x} : u[f].parent = t[f].parent,
         NEW p, u[x].parent = p, x \notin Above(t, p)
  PROVE  /\ \A f : x \notin Above(t, f) => Above(u, f) = Above(t, f)
         /\ \A f : x \in Above(t, f) => Above(u, f) = Between(t, f, x) \cup Above(t, p)
<1>1. ASSUME NEW f, x \notin Above(t, f) PROVE Above(u, f) = Above(t, f)
  <2>1. \A g \in Above(t, f) : g \in DOMAIN u /\ u[g].parent = t[g].parent
    BY <1>1, AboveClosed
  <2> QED
    BY <2>1, AboveSame
<1>2. Above(u, p) = Above(t, p)
  BY <1>1
<1>3. ASSUME NEW f, x \in Above(t, f) PROVE Above(u, f) = Between(t, f, x) \cup Above(t, p)
  <2>1. /\ Above(t, f) \subseteq DOMAIN t /\ ClosedUp(t, Above(t, f))
        /\ f \in DOMAIN t => f \in Above(t, f)
    BY AboveClosed
  <2>2. /\ Above(u, f) \subseteq DOMAIN u /\ ClosedUp(u, Above(u, f))
        /\ f \in DOMAIN u => f \in Above(u, f)
    BY AboveClosed
  <2>3. /\ Above(t, p) \subseteq DOMAIN t /\ ClosedUp(t, Above(t, p))
        /\ p \in DOMAIN t => p \in Above(t, p)
    BY AboveClosed
  <2>4. f \in DOMAIN t
    BY <1>3, AboveNothing
  <2>5. x \in Above(t, x)
    BY AboveClosed
  <2>6. Above(u, f) \subseteq Between(t, f, x) \cup Above(t, p)
    <3> DEFINE S == Between(t, f, x) \cup Above(t, p)
    <3>1. ASSUME NEW g \in S PROVE u[g].parent \in S \cup {Root}
      <4>1. CASE g = x
        BY <2>3, <4>1 DEF Rooted
      <4>2. CASE g # x /\ g \in Above(t, p)
        BY <2>3, <4>2 DEF ClosedUp
      <4>3. CASE g # x /\ g \in Between(t, f, x)
        <5>1. g \in Above(t, f) /\ x \in Above(t, g) /\ g \in DOMAIN t
          BY <2>1, <4>3 DEF Between
        <5>2. x \in Above(t, t[g].parent)
          BY <4>3, <5>1, AboveStep
        <5> QED
          BY <2>1, <4>3, <5>1, <5>2 DEF Between, ClosedUp
      <4> QED
        BY <4>1, <4>2, <4>3
    <3>2. ClosedUp(u, S)
      BY <3>1 DEF ClosedUp
    <3>3. f \in S /\ S \subseteq DOMAIN u
      BY <1>3, <2>1, <2>3, <2>4 DEF Between
    <3> HIDE DEF S
    <3>4. Above(u, f) \subseteq S
      BY <3>2, <3>3, AboveLeast DEF Rooted
    <3> QED
      BY <3>4 DEF S
  <2>7. Between(t, f, x) \subseteq Above(u, f)
    <3> DEFINE S == {g \in Above(t, f) : x \in Above(t, g) => g \in Above(u, f)}
    <3>1. ASSUME NEW g \in S, t[g].parent # Root, x \in Above(t, t[g].parent)
          PROVE  t[g].parent \in Above(u, f)
      <4>1. g \in DOMAIN t
        BY <2>1
      <4>2. x \in Above(t, g)
        BY <3>1, <4>1, AboveStep
      <4>3. g \in Above(u, f)
        BY <4>2
      <4>4. g # x
        BY <3>1 DEF Acyclic, OnCycle
      <4>5. u[g].parent = t[g].parent
        BY <4>1, <4>4
      <4> QED
        BY <2>2, <3>1, <4>3, <4>5 DEF ClosedUp
    <3>2. ClosedUp(t, S)
      BY <2>1, <3>1 DEF ClosedUp
    <3>3. {f} \cap DOMAIN t \subseteq S /\ S \subseteq DOMAIN t
      BY <2>1, <2>2
    <3> HIDE DEF S
    <3>4. Above(t, f) \subseteq S
      BY <3>2, <3>3, AboveLeast DEF Rooted
    <3> QED
      BY <3>4 DEF S, Between
  <2>8. Above(t, p) \subseteq Above(u, f)
    <3>1. x \in Above(u, f)
      BY <1>3, <2>5, <2>7 DEF Between
    <3>2. Above(u, x) \subseteq Above(u, f)
      BY <3>1, AboveTrans
    <3>3. Above(u, p) \subseteq Above(u, x)
      BY AboveStep
    <3> QED
      BY <1>2, <3>2, <3>3
  <2> QED
    BY <2>6, <2>7, <2>8
<1> QED
  BY <1>1, <1>3

\* Lemma: and the tables stay a tree.
LEMMA MoveAcyclic ==
  ASSUME NEW t, NEW u, Rooted(t), Rooted(u), Acyclic(t), NEW x \in DOMAIN t, DOMAIN u = DOMAIN t,
         \A f \in DOMAIN t \ {x} : u[f].parent = t[f].parent,
         NEW p, u[x].parent = p, x \notin Above(t, p)
  PROVE  Acyclic(u)
<1>1. SUFFICES ASSUME NEW f \in DOMAIN t, f \in Above(u, u[f].parent) PROVE FALSE
  BY DEF Acyclic, OnCycle
<1>2. CASE f = x
  BY <1>1, <1>2, MoveAbove
<1>3. CASE f # x
  <2> DEFINE q == t[f].parent
  <2>1. f \in Above(u, q) /\ f \notin Above(t, q)
    BY <1>1, <1>3 DEF Acyclic, OnCycle
  <2>2. x \in Above(t, q) /\ f \in Above(t, p)
    BY <2>1, MoveAbove DEF Between
  <2>3. x \in Above(t, f)
    BY <2>2, AboveStep
  <2> QED
    BY <2>2, <2>3, AboveTrans
<1> QED
  BY <1>2, <1>3

\* Lemma: a folder below x gets as deep as its way up to x and p's depth.
LEMMA MoveDepth ==
  ASSUME NEW t, NEW u, Rooted(t), Rooted(u), Acyclic(t), NEW x \in DOMAIN t, DOMAIN u = DOMAIN t,
         \A f \in DOMAIN t \ {x} : u[f].parent = t[f].parent,
         NEW p, u[x].parent = p, x \notin Above(t, p),
         NEW f, x \in Above(t, f)
  PROVE  Depth(u, f) <= Cardinality(Between(t, f, x)) + Depth(t, p)
<1>1. Above(u, f) = Between(t, f, x) \cup Above(t, p)
  BY MoveAbove
<1>2. IsFiniteSet(Between(t, f, x)) /\ IsFiniteSet(Above(t, p))
  BY BetweenFacts, DepthFacts
<1> DEFINE B == Between(t, f, x)
           A == Above(t, p)
<1>3. Cardinality(B \cup A) = Cardinality(B) + Cardinality(A) - Cardinality(B \cap A)
  BY <1>2, FS_Union
<1>4. IsFiniteSet(B \cap A)
  BY <1>2, FS_Intersection
<1>5. Cardinality(B) \in Nat /\ Cardinality(A) \in Nat /\ Cardinality(B \cap A) \in Nat
  BY <1>2, <1>4, FS_CardinalityType
<1> QED
  BY <1>1, <1>3, <1>5 DEF Depth

\* Lemma: folder x goes, what lay in it lies where it lay.
LEMMA PromoteAbove ==
  ASSUME NEW t, NEW u, Rooted(t), Rooted(u), Acyclic(t), NEW x \in DOMAIN t, DOMAIN u = DOMAIN t \ {x},
         \A f \in DOMAIN u : u[f].parent = IF t[f].parent = x THEN t[x].parent ELSE t[f].parent
  PROVE  /\ \A f : f # x => Above(u, f) = Above(t, f) \ {x}
         /\ Acyclic(u)
<1> DEFINE p == t[x].parent
<1>1. p # x /\ p \in DOMAIN t \cup {Root} /\ x # Root
  BY AboveClosed DEF Acyclic, OnCycle, Rooted
<1>2. ASSUME NEW f \in DOMAIN u PROVE Above(u, f) = Above(t, f) \ {x}
  <2>1. /\ Above(t, f) \subseteq DOMAIN t /\ ClosedUp(t, Above(t, f)) /\ f \in Above(t, f)
    BY AboveClosed
  <2>2. /\ Above(u, f) \subseteq DOMAIN u /\ ClosedUp(u, Above(u, f)) /\ f \in Above(u, f)
    BY AboveClosed
  <2>3. Above(u, f) \subseteq Above(t, f) \ {x}
    <3> DEFINE S == Above(t, f) \ {x}
    <3>1. ASSUME NEW g \in S PROVE u[g].parent \in S \cup {Root}
      <4>1. g \in DOMAIN u
        BY <2>1
      <4>2. CASE t[g].parent = x
        <5>1. x \in Above(t, f)
          BY <1>1, <2>1, <4>2 DEF ClosedUp
        <5> QED
          BY <1>1, <2>1, <4>1, <4>2, <5>1 DEF ClosedUp
      <4>3. CASE t[g].parent # x
        BY <2>1, <4>1, <4>3 DEF ClosedUp
      <4> QED
        BY <4>2, <4>3
    <3>2. ClosedUp(u, S)
      BY <3>1 DEF ClosedUp
    <3>3. f \in S /\ S \subseteq DOMAIN u
      BY <2>1
    <3> HIDE DEF S
    <3>4. Above(u, f) \subseteq S
      BY <3>2, <3>3, AboveLeast DEF Rooted
    <3> QED
      BY <3>4 DEF S
  <2>4. Above(t, f) \subseteq Above(u, f) \cup {x}
    <3> DEFINE S == {g \in Above(t, f) : IF g = x THEN p \in Above(u, f) \cup {Root} ELSE g \in Above(u, f)}
    <3>1. ASSUME NEW g \in S PROVE t[g].parent \in S \cup {Root}
      <4>1. t[g].parent \in Above(t, f) \cup {Root}
        BY <2>1, <3>1 DEF ClosedUp
      <4>2. CASE g = x
        BY <1>1, <3>1, <4>1, <4>2
      <4>3. CASE g # x
        <5>1. u[g].parent \in Above(u, f) \cup {Root} /\ g \in DOMAIN u
          BY <2>2, <3>1, <4>3 DEF ClosedUp
        <5> QED
          BY <4>1, <5>1
      <4> QED
        BY <4>2, <4>3
    <3>2. ClosedUp(t, S)
      BY <3>1 DEF ClosedUp
    <3>3. f \in S /\ S \subseteq DOMAIN t
      BY <2>1, <2>2
    <3> HIDE DEF S
    <3>4. Above(t, f) \subseteq S
      BY <3>2, <3>3, AboveLeast DEF Rooted
    <3> QED
      BY <3>4 DEF S
  <2> QED
    BY <2>2, <2>3, <2>4
<1>3. ASSUME NEW f, f # x PROVE Above(u, f) = Above(t, f) \ {x}
  <2>1. CASE f \in DOMAIN u
    BY <1>2, <2>1
  <2>2. CASE f \notin DOMAIN u
    <3>1. f \notin DOMAIN t
      BY <1>3, <2>2
    <3> QED
      BY <2>2, <3>1, AboveNothing
  <2> QED
    BY <2>1, <2>2
<1>4. Acyclic(u)
  <2>1. SUFFICES ASSUME NEW f \in DOMAIN u, f \in Above(u, u[f].parent) PROVE FALSE
    BY DEF Acyclic, OnCycle
  <2>2. u[f].parent # x
    BY <1>1
  <2>3. f \in Above(t, u[f].parent)
    BY <1>3, <2>1, <2>2
  <2>4. CASE t[f].parent = x
    <3>1. Above(t, x) = {x} \cup Above(t, p)
      BY AboveStep
    <3>2. f \in Above(t, t[f].parent)
      BY <2>3, <2>4, <3>1
    <3> QED
      BY <3>2 DEF Acyclic, OnCycle
  <2>5. CASE t[f].parent # x
    BY <2>3, <2>5 DEF Acyclic, OnCycle
  <2> QED
    BY <2>4, <2>5
<1> QED
  BY <1>3, <1>4
=============================================================================
