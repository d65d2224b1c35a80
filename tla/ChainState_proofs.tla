------------------------- MODULE ChainState_proofs -------------------------
(***************************************************************************)
(* What holds of the chain state for any tree of blocks: the coins are     *)
(* those of the active chain, whatever a death leaves on disk can be       *)
(* brought back to the recorded tip, the blocks of the active chain are    *)
(* valid in their places, and the indexes and the queues for the mempool   *)
(* follow every move of the tip.                                           *)
(***************************************************************************)
EXTENDS ChainState, SequenceTheorems, WellFoundedInduction, TLAPS

-----------------------------------------------------------------------------
(* The tree *)

\* A set of natural numbers that is not empty has a least member.
LEMMA Least ==
    ASSUME NEW T, T \subseteq Nat, T # {}
    PROVE  \E m \in T : \A y \in T : m <= y
<1> DEFINE R == OpToRel(<, Nat)
<1>1. PICK m \in T : \A y \in T : ~ (<<y, m>> \in R)
  BY WFMin, NatLessThanWellFounded
<1>2. \A y \in T : ~ (y < m)
  BY <1>1 DEF OpToRel
<1> QED BY <1>2

\* Heights count the blocks from the genesis block, which is the only one at 0.
LEMMA TreeFacts ==
    /\ Genesis \in Hash
    /\ \A b \in Hash \ {Genesis} : Parent[b] \in Hash /\ Height[b] = Height[Parent[b]] + 1
    /\ \A b \in Hash : Height[b] \in Nat /\ (Height[b] = 0 <=> b = Genesis)
<1>1. Genesis \in Hash /\ Height \in [Hash -> Nat] /\ Height[Genesis] = 0
  BY TreeAssumption, LedgerAssumption
<1>2. \A b \in Hash \ {Genesis} : Parent[b] \in Hash /\ Height[b] = Height[Parent[b]] + 1
  BY TreeAssumption
<1> QED BY <1>1, <1>2

\* What holds of the genesis block and passes from a parent to its children holds
\* of every block.
LEMMA TreeInduction ==
    ASSUME NEW S, S \subseteq Hash, Genesis \in S,
           \A b \in Hash \ {Genesis} : Parent[b] \in S => b \in S
    PROVE  S = Hash
<1> DEFINE Out == {h \in Nat : \E b \in Hash \ S : Height[b] = h}
<1>1. SUFFICES ASSUME Out # {} PROVE FALSE
  BY TreeFacts
<1>2. PICK m \in Out : \A y \in Out : m <= y
  BY <1>1, Least
<1>3. PICK b \in Hash \ S : Height[b] = m
  BY <1>2
<1>4. Parent[b] \in S
  BY <1>2, <1>3, TreeFacts
<1> QED BY <1>3, <1>4

\* A function on blocks may be defined by its value at the genesis block and the
\* step from a parent to its child.
LEMMA TreeRecursion ==
    ASSUME NEW A, NEW e \in A, NEW G \in [Hash -> [A -> A]]
    PROVE  \E f \in [Hash -> A] :
               /\ f[Genesis] = e
               /\ \A b \in Hash \ {Genesis} : f[b] = G[b][f[Parent[b]]]
<1> DEFINE Good(f, n) == /\ f \in [Hash -> A]
                         /\ f[Genesis] = e
                         /\ \A b \in Hash \ {Genesis} :
                                Height[b] <= n => f[b] = G[b][f[Parent[b]]]
<1>1. \A n \in Nat : \E f : Good(f, n)
  <2> DEFINE Bad == {n \in Nat : ~ \E f : Good(f, n)}
  <2>1. SUFFICES ASSUME Bad # {} PROVE FALSE
    OBVIOUS
  <2>2. PICK m \in Bad : \A y \in Bad : m <= y
    BY <2>1, Least
  <2>3. CASE m = 0
    <3>1. Good([b \in Hash |-> e], 0)
      BY TreeFacts
    <3> QED BY <2>2, <2>3, <3>1
  <2>4. CASE m # 0
    <3>1. m - 1 \in Nat /\ m - 1 \notin Bad
      BY <2>2, <2>4
    <3>2. PICK f : Good(f, m - 1)
      BY <3>1
    <3> DEFINE g == [b \in Hash |-> IF Height[b] = m THEN G[b][f[Parent[b]]] ELSE f[b]]
    <3>3. g \in [Hash -> A] /\ g[Genesis] = e
      BY <2>4, <3>2, TreeFacts
    <3>4. ASSUME NEW b \in Hash \ {Genesis}, Height[b] <= m
          PROVE  g[b] = G[b][g[Parent[b]]]
      <4>1. g[Parent[b]] = f[Parent[b]]
        BY <3>4, TreeFacts
      <4>2. Height[b] = m \/ Height[b] <= m - 1
        BY <3>4, TreeFacts
      <4> QED BY <3>2, <4>1, <4>2, <3>1
    <3>5. Good(g, m)
      BY <3>3, <3>4
    <3> QED BY <2>2, <3>5
  <2> QED BY <2>3, <2>4
<1>2. ASSUME NEW f, NEW g, NEW n \in Nat, NEW m \in Nat, Good(f, n), Good(g, m)
      PROVE  \A b \in Hash : Height[b] <= n /\ Height[b] <= m => f[b] = g[b]
  <2> DEFINE S == {b \in Hash : Height[b] <= n /\ Height[b] <= m => f[b] = g[b]}
  <2>1. Genesis \in S
    BY <1>2, TreeFacts
  <2>2. ASSUME NEW b \in Hash \ {Genesis}, Parent[b] \in S PROVE b \in S
    <3>1. SUFFICES ASSUME Height[b] <= n, Height[b] <= m PROVE f[b] = g[b]
      OBVIOUS
    <3>2. f[Parent[b]] = g[Parent[b]]
      BY <2>2, <3>1, TreeFacts
    <3> QED BY <1>2, <3>1, <3>2
  <2> HIDE DEF S
  <2>3. S = Hash
    <3>1. S \subseteq Hash
      BY DEF S
    <3> QED BY <2>1, <2>2, <3>1, TreeInduction
  <2> QED BY <2>3 DEF S
<1> DEFINE Pick(b) == CHOOSE g : Good(g, Height[b])
           F == [b \in Hash |-> Pick(b)[b]]
<1>3. \A b \in Hash : Good(Pick(b), Height[b])
  BY <1>1, TreeFacts
<1>4. F \in [Hash -> A] /\ F[Genesis] = e
  BY <1>3, TreeFacts
<1>5. ASSUME NEW b \in Hash \ {Genesis} PROVE F[b] = G[b][F[Parent[b]]]
  <2>1. Parent[b] \in Hash /\ Height[b] \in Nat /\ Height[Parent[b]] \in Nat
        /\ Height[Parent[b]] <= Height[b]
    BY TreeFacts
  <2>2. Good(Pick(b), Height[b]) /\ Good(Pick(Parent[b]), Height[Parent[b]])
    BY <1>3, <2>1
  <2> HIDE DEF Pick
  <2>3. Pick(b)[b] = G[b][Pick(b)[Parent[b]]]
    BY <2>1, <2>2
  <2> HIDE DEF Good
  <2>4. Pick(b)[Parent[b]] = Pick(Parent[b])[Parent[b]]
    BY <1>2, <2>1, <2>2
  <2> QED BY <2>1, <2>3, <2>4
<1> QED BY <1>4, <1>5

\* The recursive definition of the branch to a block, unfolded once.
LEMMA PathEquation ==
    /\ PathTo \in [Hash -> Seq(Hash)]
    /\ PathTo[Genesis] = <<Genesis>>
    /\ \A b \in Hash \ {Genesis} : PathTo[b] = Append(PathTo[Parent[b]], b)
<1> DEFINE G == [b \in Hash |-> [s \in Seq(Hash) |-> Append(s, b)]]
           Eq(f) == f = [b \in Hash |-> IF b = Genesis THEN <<b>>
                                        ELSE Append(f[Parent[b]], b)]
<1>1. G \in [Hash -> [Seq(Hash) -> Seq(Hash)]] /\ <<Genesis>> \in Seq(Hash)
  BY TreeFacts
<1>2. PICK f \in [Hash -> Seq(Hash)] :
          /\ f[Genesis] = <<Genesis>>
          /\ \A b \in Hash \ {Genesis} : f[b] = G[b][f[Parent[b]]]
  <2> DEFINE A == Seq(Hash)
             e == <<Genesis>>
  <2>1. e \in A /\ G \in [Hash -> [A -> A]]
    BY <1>1
  <2> HIDE DEF G, A, e
  <2>2. \E f \in [Hash -> A] : /\ f[Genesis] = e
                               /\ \A b \in Hash \ {Genesis} : f[b] = G[b][f[Parent[b]]]
    BY <2>1, TreeRecursion
  <2> QED BY <2>2 DEF A, e
<1>3. Eq(f)
  <2>1. ASSUME NEW b \in Hash \ {Genesis} PROVE f[b] = Append(f[Parent[b]], b)
    BY <1>2, TreeFacts
  <2> QED BY <1>2, <2>1
<1>4. Eq(PathTo)
  BY <1>3 DEF PathTo
<1>5. /\ PathTo[Genesis] = <<Genesis>>
      /\ \A b \in Hash \ {Genesis} : PathTo[b] = Append(PathTo[Parent[b]], b)
  BY <1>4, TreeFacts
<1> DEFINE S == {b \in Hash : PathTo[b] \in Seq(Hash)}
<1>6. Genesis \in S /\ S \subseteq Hash
  <2>1. PathTo[Genesis] \in Seq(Hash)
    BY <1>1, <1>5
  <2> QED BY <2>1, TreeFacts
<1>7. \A b \in Hash \ {Genesis} : Parent[b] \in S => b \in S
  <2> SUFFICES ASSUME NEW b \in Hash \ {Genesis}, PathTo[Parent[b]] \in Seq(Hash)
               PROVE  PathTo[b] \in Seq(Hash)
    OBVIOUS
  <2>1. Append(PathTo[Parent[b]], b) \in Seq(Hash)
    OBVIOUS
  <2> QED BY <1>5, <2>1
<1>8. S = Hash
  <2> HIDE DEF S
  <2> QED BY <1>6, <1>7, TreeInduction
<1> QED BY <1>4, <1>5, <1>8

\* A branch is a line of parents, one block for every height.
LEMMA PathShape ==
    ASSUME NEW b \in Hash
    PROVE  /\ Len(PathTo[b]) = Height[b] + 1
           /\ PathTo[b][Height[b] + 1] = b
           /\ \A i \in 1..(Height[b] + 1) : Height[PathTo[b][i]] = i - 1
           /\ \A i \in 2..(Height[b] + 1) : Parent[PathTo[b][i]] = PathTo[b][i - 1]
<1> DEFINE P(x) == /\ Len(PathTo[x]) = Height[x] + 1
                   /\ PathTo[x][Height[x] + 1] = x
                   /\ \A i \in 1..(Height[x] + 1) : Height[PathTo[x][i]] = i - 1
                   /\ \A i \in 2..(Height[x] + 1) : Parent[PathTo[x][i]] = PathTo[x][i - 1]
           S == {x \in Hash : P(x)}
<1>1. P(Genesis)
  <2>1. PathTo[Genesis] = <<Genesis>> /\ Height[Genesis] = 0
    BY PathEquation, TreeFacts
  <2>2. Len(<<Genesis>>) = 1 /\ <<Genesis>>[1] = Genesis
    OBVIOUS
  <2>3. 1..(Height[Genesis] + 1) = {1} /\ 2..(Height[Genesis] + 1) = {}
    BY <2>1
  <2> QED BY <2>1, <2>2, <2>3
<1>2. ASSUME NEW x \in Hash \ {Genesis}, P(Parent[x]) PROVE P(x)
  <2>1. PICK h \in Nat : h = Height[Parent[x]]
    BY TreeFacts
  <2>2. Height[x] = h + 1 /\ Parent[x] \in Hash /\ PathTo[Parent[x]] \in Seq(Hash)
    BY <2>1, TreeFacts, PathEquation
  <2>3. PathTo[x] = Append(PathTo[Parent[x]], x) /\ Len(PathTo[Parent[x]]) = h + 1
    BY <1>2, <2>1, PathEquation
  <2>4. /\ Len(PathTo[x]) = h + 2
        /\ PathTo[x][h + 2] = x
        /\ \A i \in 1..(h + 1) : PathTo[x][i] = PathTo[Parent[x]][i]
    BY <2>2, <2>3
  <2>5. PathTo[x][h + 1] = Parent[x]
    <3>1. PathTo[Parent[x]][h + 1] = Parent[x]
      BY <1>2, <2>1
    <3>2. h + 1 \in 1..(h + 1)
      OBVIOUS
    <3> QED BY <2>4, <3>1, <3>2
  <2>6. ASSUME NEW i \in 1..(h + 2) PROVE Height[PathTo[x][i]] = i - 1
    <3>1. i = h + 2 \/ i \in 1..(h + 1)
      OBVIOUS
    <3>2. \A j \in 1..(h + 1) : Height[PathTo[Parent[x]][j]] = j - 1
      BY <1>2, <2>1
    <3>3. Height[PathTo[x][h + 2]] = h + 1 /\ (h + 2) - 1 = h + 1
      BY <2>2, <2>4
    <3> QED BY <2>4, <3>1, <3>2, <3>3
  <2>7. ASSUME NEW i \in 2..(h + 2) PROVE Parent[PathTo[x][i]] = PathTo[x][i - 1]
    <3>1. CASE i = h + 2
      BY <2>4, <2>5, <3>1
    <3>2. CASE i # h + 2
      <4>1. i \in 2..(h + 1) /\ i \in 1..(h + 1) /\ i - 1 \in 1..(h + 1)
        BY <3>2
      <4> QED BY <1>2, <2>1, <2>4, <4>1
    <3> QED BY <3>1, <3>2
  <2> QED BY <2>2, <2>4, <2>6, <2>7
<1> HIDE DEF P
<1>3. S = Hash
  <2>1. S \subseteq Hash /\ \A x \in Hash \ {Genesis} : Parent[x] \in S => x \in S
    BY <1>2
  <2>2. Genesis \in S
    BY <1>1, TreeFacts
  <2> HIDE DEF S
  <2> QED BY <2>1, <2>2, TreeInduction
<1>4. P(b)
  BY <1>3
<1> QED BY <1>4 DEF P

\* The ancestors of a block are itself and those of its parent.
LEMMA AncestorsStep ==
    /\ Ancestors(Genesis) = {Genesis}
    /\ \A b \in Hash \ {Genesis} : Ancestors(b) = Ancestors(Parent[b]) \cup {b}
<1>1. Ancestors(Genesis) = {Genesis}
  BY PathEquation DEF Ancestors, ToSet
<1>2. ASSUME NEW b \in Hash \ {Genesis}
      PROVE  Ancestors(b) = Ancestors(Parent[b]) \cup {b}
  <2>1. PICK s \in Seq(Hash) : s = PathTo[Parent[b]] /\ PathTo[b] = Append(s, b)
    BY PathEquation, TreeFacts
  <2>2. PICK n \in Nat : n = Len(s)
    BY <2>1
  <2>3. /\ DOMAIN s = 1..n /\ DOMAIN Append(s, b) = 1..(n + 1)
        /\ Append(s, b)[n + 1] = b
        /\ \A i \in 1..n : Append(s, b)[i] = s[i]
    BY <2>1, <2>2
  <2>4. 1..(n + 1) = 1..n \cup {n + 1}
    BY <2>2
  <2> QED BY <2>1, <2>3, <2>4 DEF Ancestors, ToSet
<1> QED BY <1>1, <1>2

\* Ancestry is transitive and goes down in height.
LEMMA AncestorFacts ==
    ASSUME NEW b \in Hash
    PROVE  /\ Genesis \in Ancestors(b) /\ b \in Ancestors(b)
           /\ \A a \in Ancestors(b) :
                  /\ a \in Hash
                  /\ Height[a] <= Height[b]
                  /\ a = b \/ (Height[a] < Height[b] /\ Work[a] < Work[b])
                  /\ Ancestors(a) \subseteq Ancestors(b)
<1> DEFINE P(x) == /\ Genesis \in Ancestors(x) /\ x \in Ancestors(x)
                   /\ \A a \in Ancestors(x) :
                          /\ a \in Hash
                          /\ Height[a] <= Height[x]
                          /\ a = x \/ (Height[a] < Height[x] /\ Work[a] < Work[x])
                          /\ Ancestors(a) \subseteq Ancestors(x)
           S == {x \in Hash : P(x)}
<1>1. P(Genesis)
  BY AncestorsStep, TreeFacts
<1>2. ASSUME NEW x \in Hash \ {Genesis}, P(Parent[x]) PROVE P(x)
  <2>1. Work[Parent[x]] < Work[x] /\ Work \in [Hash -> Nat]
    BY TreeAssumption
  <2>2. Ancestors(x) = Ancestors(Parent[x]) \cup {x}
    BY AncestorsStep
  <2>3. ASSUME NEW a \in Ancestors(Parent[x])
        PROVE  /\ a \in Hash /\ Height[a] < Height[x] /\ Work[a] < Work[x]
               /\ Ancestors(a) \subseteq Ancestors(x)
    <3>1. /\ a \in Hash /\ Height[a] <= Height[Parent[x]] /\ Ancestors(a) \subseteq Ancestors(Parent[x])
          /\ a = Parent[x] \/ Work[a] < Work[Parent[x]]
      BY <1>2
    <3>2. Height[x] = Height[Parent[x]] + 1 /\ Height[a] \in Nat /\ Height[Parent[x]] \in Nat
      BY <3>1, TreeFacts
    <3>3. Height[a] < Height[x]
      BY <3>1, <3>2
    <3>4. Work[a] < Work[x]
      BY <2>1, <3>1, TreeFacts
    <3> QED BY <2>2, <3>1, <3>3, <3>4
  <2> QED BY <1>2, <2>2, <2>3, TreeFacts
<1> HIDE DEF P
<1>3. S = Hash
  <2>1. S \subseteq Hash /\ \A x \in Hash \ {Genesis} : Parent[x] \in S => x \in S
    BY <1>2
  <2>2. Genesis \in S
    BY <1>1, TreeFacts
  <2> HIDE DEF S
  <2> QED BY <2>1, <2>2, TreeInduction
<1>4. P(b)
  BY <1>3
<1> QED BY <1>4 DEF P

\* An ancestor stands in the branch at its own height.
LEMMA AncestorPlace ==
    ASSUME NEW b \in Hash, NEW a \in Ancestors(b)
    PROVE  PathTo[b][Height[a] + 1] = a
<1>1. PICK h \in Nat : h = Height[b]
  BY TreeFacts
<1>2. DOMAIN PathTo[b] = 1..(h + 1)
  BY <1>1, PathShape, PathEquation
<1>3. PICK i \in 1..(h + 1) : a = PathTo[b][i]
  BY <1>2 DEF Ancestors, ToSet
<1>4. Height[a] = i - 1
  BY <1>1, <1>3, PathShape
<1>5. Height[a] + 1 = i
  BY <1>4
<1> QED BY <1>3, <1>5

\* The common ancestor of two blocks is the highest block both descend from.
LEMMA CommonFacts ==
    ASSUME NEW a \in Hash, NEW b \in Hash
    PROVE  /\ CommonAncestor(a, b) \in Ancestors(a) \cap Ancestors(b)
           /\ \A d \in Ancestors(a) \cap Ancestors(b) : Height[d] <= Height[CommonAncestor(a, b)]
<1> DEFINE Both == Ancestors(a) \cap Ancestors(b)
           Gap == {n \in Nat : \E d \in Both : n = Height[b] - Height[d]}
<1>1. \A d \in Both : Height[b] - Height[d] \in Nat /\ Height[d] \in Nat
  BY AncestorFacts, TreeFacts
<1>2. Gap # {}
  BY <1>1, AncestorFacts
<1>3. PICK m \in Gap : \A y \in Gap : m <= y
  BY <1>2, Least
<1>4. PICK c \in Both : m = Height[b] - Height[c]
  BY <1>3
<1>5. \A d \in Both : Height[d] <= Height[c]
  BY <1>1, <1>3, <1>4, TreeFacts
<1> QED BY <1>4, <1>5 DEF CommonAncestor

\* Blocks that follow each other from a on.
Linked(a, s) ==
    \A i \in DOMAIN s : /\ s[i] \in Hash \ {Genesis}
                        /\ Parent[s[i]] = IF i = 1 THEN a ELSE s[i - 1]

\* The blocks above an ancestor follow each other and end in the block.
LEMMA BranchFacts ==
    ASSUME NEW b \in Hash, NEW a \in Ancestors(b)
    PROVE  /\ PathFrom(a, b) \in Seq(Hash)
           /\ Linked(a, PathFrom(a, b))
           /\ \A i \in DOMAIN PathFrom(a, b) : PathFrom(a, b)[i] \in Ancestors(b)
           /\ a # b => PathFrom(a, b) # <<>>
<1>1. PICK h \in Nat, k \in Nat : h = Height[a] /\ h + k = Height[b]
  <2>1. Height[a] \in Nat /\ Height[b] \in Nat /\ Height[a] <= Height[b]
    BY AncestorFacts, TreeFacts
  <2>2. Height[b] - Height[a] \in Nat /\ Height[a] + (Height[b] - Height[a]) = Height[b]
    BY <2>1
  <2> QED BY <2>1, <2>2
<1>2. PICK p \in Seq(Hash) : p = PathTo[b]
  BY PathEquation
<1>3. /\ Len(p) = h + k + 1
      /\ \A i \in 1..(h + k + 1) : Height[p[i]] = i - 1 /\ p[i] \in Hash
      /\ \A i \in 2..(h + k + 1) : Parent[p[i]] = p[i - 1]
  BY <1>1, <1>2, PathShape
<1>4. p[h + 1] = a
  BY <1>1, <1>2, AncestorPlace
<1>5. PICK q : q = PathFrom(a, b)
  OBVIOUS
<1>6. q = SubSeq(p, h + 2, h + k + 1)
  BY <1>1, <1>2, <1>5 DEF PathFrom
<1>7. q = [i \in 1..k |-> p[i + h + 1]]
  <2>1. q = [i \in 1..(1 + (h + k + 1) - (h + 2)) |-> p[i + (h + 2) - 1]]
    BY <1>6
  <2>2. 1 + (h + k + 1) - (h + 2) = k /\ \A i \in 1..k : i + (h + 2) - 1 = i + h + 1
    OBVIOUS
  <2> QED BY <2>1, <2>2
<1>8. \A i \in 1..k : i + h + 1 \in 1..(h + k + 1) /\ i + h + 1 \in 2..(h + k + 1)
  OBVIOUS
<1>9. q \in Seq(Hash) /\ DOMAIN q = 1..k
  BY <1>3, <1>7, <1>8
<1>10. ASSUME NEW i \in 1..k
       PROVE  /\ q[i] \in Hash \ {Genesis} /\ q[i] \in Ancestors(b)
              /\ Parent[q[i]] = IF i = 1 THEN a ELSE q[i - 1]
  <2>1. q[i] = p[i + h + 1] /\ Height[q[i]] = i + h /\ q[i] \in Hash
    BY <1>3, <1>7, <1>8
  <2>2. q[i] # Genesis
    BY <2>1, TreeFacts
  <2>3. q[i] \in Ancestors(b)
    <3>1. DOMAIN p = 1..(h + k + 1)
      BY <1>3
    <3> QED BY <1>2, <1>8, <2>1, <3>1 DEF Ancestors, ToSet
  <2>4. Parent[q[i]] = p[i + h]
    <3>1. Parent[p[i + h + 1]] = p[(i + h + 1) - 1] /\ (i + h + 1) - 1 = i + h
      BY <1>3, <1>8
    <3> QED BY <2>1, <3>1
  <2>5. i # 1 => q[i - 1] = p[i + h]
    <3>1. i # 1 => i - 1 \in 1..k /\ (i - 1) + h + 1 = i + h
      OBVIOUS
    <3> QED BY <1>7, <3>1
  <2>6. i = 1 => p[i + h] = a
    <3>1. i = 1 => i + h = h + 1
      OBVIOUS
    <3> QED BY <1>4, <3>1
  <2> QED BY <2>1, <2>2, <2>3, <2>4, <2>5, <2>6
<1>11. a # b => q # <<>>
  <2>1. a # b => k # 0
    BY <1>1, AncestorFacts, TreeFacts
  <2> QED BY <1>9, <2>1
<1> QED BY <1>5, <1>9, <1>10, <1>11 DEF Linked

\* Between a block and its parent there is one block to connect, or to take off.
LEMMA OneAbove ==
    ASSUME NEW b \in Hash \ {Genesis}
    PROVE  /\ CommonAncestor(Parent[b], b) = Parent[b]
           /\ CommonAncestor(b, Parent[b]) = Parent[b]
           /\ PathFrom(Parent[b], b) = <<b>>
           /\ PathFrom(Parent[b], Parent[b]) = <<>>
<1>1. PICK a \in Hash, h \in Nat : a = Parent[b] /\ h = Height[a] /\ Height[b] = h + 1
  BY TreeFacts
<1>2. Ancestors(a) \subseteq Ancestors(b) /\ a \in Ancestors(a)
  BY <1>1, AncestorsStep, AncestorFacts
<1>3. \A c \in Ancestors(a) : Height[c] = Height[a] => c = a
  BY <1>1, AncestorFacts, TreeFacts
<1>4. \A c \in Ancestors(a) : Height[c] <= Height[a] /\ Height[c] \in Nat
  BY <1>1, AncestorFacts, TreeFacts
<1>5. CommonAncestor(a, b) = a
  <2>1. CommonAncestor(a, b) \in Ancestors(a) /\ Height[a] <= Height[CommonAncestor(a, b)]
    BY <1>1, <1>2, CommonFacts
  <2> QED BY <1>1, <1>3, <1>4, <2>1
<1>6. CommonAncestor(b, a) = a
  <2>1. CommonAncestor(b, a) \in Ancestors(a) /\ Height[a] <= Height[CommonAncestor(b, a)]
    BY <1>1, <1>2, CommonFacts
  <2> QED BY <1>1, <1>3, <1>4, <2>1
<1>7. PathFrom(a, b) = <<b>>
  <2>1. PathTo[b] \in Seq(Hash) /\ PathTo[b][h + 2] = b /\ Len(PathTo[b]) = h + 2
    <3>1. Height[b] + 1 = h + 2
      BY <1>1
    <3>2. PathTo[b][Height[b] + 1] = b /\ Len(PathTo[b]) = Height[b] + 1
      BY PathShape
    <3> QED BY <3>1, <3>2, PathEquation
  <2>2. PathFrom(a, b) = SubSeq(PathTo[b], h + 2, h + 2)
    <3>1. Height[b] + 1 = h + 2 /\ Height[a] + 2 = h + 2
      BY <1>1
    <3> QED BY <3>1 DEF PathFrom
  <2>3. SubSeq(PathTo[b], h + 2, h + 2) = [i \in 1..1 |-> PathTo[b][i + h + 1]]
    BY <2>1
  <2>4. \A i \in 1..1 : PathTo[b][i + h + 1] = b
    BY <2>1
  <2>5. SubSeq(PathTo[b], h + 2, h + 2) = [i \in 1..1 |-> b]
    BY <2>3, <2>4
  <2>6. [i \in 1..1 |-> b] = <<b>>
    OBVIOUS
  <2> QED BY <2>2, <2>5, <2>6
<1>8. PathFrom(a, a) = <<>>
  <2>1. PathTo[a] \in Seq(Hash) /\ Len(PathTo[a]) = h + 1
    BY <1>1, PathShape, PathEquation
  <2>2. PathFrom(a, a) = SubSeq(PathTo[a], h + 2, h + 1)
    BY <1>1 DEF PathFrom
  <2> QED BY <2>1, <2>2
<1> QED BY <1>1, <1>5, <1>6, <1>7, <1>8

-----------------------------------------------------------------------------
(* The ledger of a branch *)

NoCoins == [o \in Outpoint |-> NoCoin]
View == [Outpoint -> Coin \cup {NoCoin}]

\* Coins and leaves before block b.
Pre(b) == IF b = Genesis THEN NoCoins ELSE CoinsAt[Parent[b]]
PreL(b) == IF b = Genesis THEN {} ELSE LeavesAt(Parent[b])

\* What b makes of the coins before it.
After(b, c) ==
    [o \in Outpoint |-> IF o \in Creates(b)
                        THEN NewCoin(Height[b], CreatedByCoinbase(b, o))
                        ELSE IF o \in Consumes(b) THEN NoCoin ELSE c[o]]

\* A block holds transactions, with inputs and outputs among the outpoints.
LEMMA TxFacts ==
    ASSUME NEW b \in Hash
    PROVE  /\ BlockTxs[b] \in Seq(Tx) /\ TxsOf(b) \subseteq Tx
           /\ \A t \in TxsOf(b) : Ins[t] \subseteq Outpoint /\ Outs[t] \subseteq Outpoint
  BY TreeAssumption, LedgerAssumption DEF TxsOf, ToSet

\* Applying a block to a view gives a view.
LEMMA AfterType ==
    ASSUME NEW b \in Hash, NEW c \in View
    PROVE  After(b, c) \in View
<1>1. Height[b] \in Heights
  BY TreeAssumption
<1>2. \A o : NewCoin(Height[b], CreatedByCoinbase(b, o)) \in Coin
  BY <1>1 DEF NewCoin, Coin, CreatedByCoinbase
<1> QED BY <1>2 DEF After, View

\* The ledger of a branch is that of its parent with the last block applied.
LEMMA CoinsEquation ==
    /\ CoinsAt \in [Hash -> View]
    /\ \A b \in Hash : CoinsAt[b] = After(b, Pre(b))
<1> DEFINE G == [b \in Hash |-> [c \in View |-> After(b, c)]]
           e == After(Genesis, NoCoins)
           Eq(f) == f = [b \in Hash |->
                            After(b, IF b = Genesis THEN NoCoins ELSE f[Parent[b]])]
<1>1. G \in [Hash -> [View -> View]] /\ e \in View /\ NoCoins \in View
  <2>1. NoCoins \in View
    BY DEF NoCoins, View
  <2> QED BY <2>1, AfterType, TreeFacts
<1>2. PICK f \in [Hash -> View] :
          /\ f[Genesis] = e
          /\ \A b \in Hash \ {Genesis} : f[b] = G[b][f[Parent[b]]]
  <2> DEFINE A == View
  <2>1. e \in A /\ G \in [Hash -> [A -> A]]
    BY <1>1
  <2> HIDE DEF G, A, e
  <2>2. \E f \in [Hash -> A] : /\ f[Genesis] = e
                               /\ \A b \in Hash \ {Genesis} : f[b] = G[b][f[Parent[b]]]
    BY <2>1, TreeRecursion
  <2> QED BY <2>2 DEF A
<1>3. Eq(f)
  <2>1. ASSUME NEW b \in Hash \ {Genesis} PROVE f[b] = After(b, f[Parent[b]])
    BY <1>2, TreeFacts
  <2> QED BY <1>2, <2>1
<1>4. Eq(CoinsAt)
  BY <1>3 DEF CoinsAt, After, NoCoins
<1>5. \A b \in Hash : CoinsAt[b] = After(b, Pre(b))
  BY <1>4 DEF Pre
<1> DEFINE S == {b \in Hash : CoinsAt[b] \in View}
<1>6. Genesis \in S /\ S \subseteq Hash
  BY <1>1, <1>5, AfterType, TreeFacts DEF Pre
<1>7. \A b \in Hash \ {Genesis} : Parent[b] \in S => b \in S
  BY <1>5, AfterType DEF Pre
<1>8. S = Hash
  <2> HIDE DEF S
  <2> QED BY <1>6, <1>7, TreeInduction
<1>9. CoinsAt = [b \in Hash |-> CoinsAt[b]]
  BY <1>4
<1> QED BY <1>5, <1>8, <1>9

\* The coins before a block are a view.
LEMMA PreType ==
    ASSUME NEW b \in Hash
    PROVE  Pre(b) \in View /\ CoinsAt[b] \in View
  BY CoinsEquation, TreeFacts DEF Pre, NoCoins, View

\* The leaves of a branch are those of its parent and those of the last block.
LEMMA LeavesEquation ==
    ASSUME NEW b \in Hash
    PROVE  LeavesAt(b) = PreL(b) \cup UNION {Lvs[t] : t \in TxsOf(b)}
<1>1. CASE b = Genesis
  BY <1>1, AncestorsStep DEF LeavesAt, BranchTxs, PreL
<1>2. CASE b # Genesis
  <2>1. Ancestors(b) = Ancestors(Parent[b]) \cup {b}
    BY <1>2, AncestorsStep
  <2>2. BranchTxs(b) = BranchTxs(Parent[b]) \cup TxsOf(b)
    BY <2>1 DEF BranchTxs
  <2> QED BY <1>2, <2>2 DEF LeavesAt, PreL
<1> QED BY <1>1, <1>2

\* An outpoint names the transaction that creates it.
LEMMA OneCreator ==
    ASSUME NEW t \in Tx, NEW u \in Tx, NEW o, o \in Outs[t], o \in Outs[u]
    PROVE  t = u
  BY OriginAssumption

\* Every coin was created by a transaction of the branch, and has the height of
\* the block that transaction is in.
LEMMA Created ==
    ASSUME NEW b \in Hash, NEW o \in Outpoint, CoinsAt[b][o] # NoCoin
    PROVE  \E a \in Ancestors(b) : \E t \in TxsOf(a) :
               o \in Outs[t] /\ CoinsAt[b][o] = NewCoin(Height[a], t \in Coinbase)
<1> DEFINE P(x) == CoinsAt[x][o] # NoCoin =>
                       \E a \in Ancestors(x) : \E t \in TxsOf(a) :
                           o \in Outs[t] /\ CoinsAt[x][o] = NewCoin(Height[a], t \in Coinbase)
           S == {x \in Hash : P(x)}
<1>1. ASSUME NEW x \in Hash, o \in Creates(x) PROVE P(x)
  <2>1. PICK t \in TxsOf(x) : o \in Outs[t]
    BY <1>1 DEF Creates
  <2>2. CreatedByCoinbase(x, o) = (t \in Coinbase)
    <3>1. CreatedByCoinbase(x, o) <=> t \in Coinbase
      BY <2>1, TxFacts, OneCreator DEF CreatedByCoinbase
    <3>2. CreatedByCoinbase(x, o) \in BOOLEAN
      BY DEF CreatedByCoinbase
    <3> QED BY <3>1, <3>2
  <2>3. CoinsAt[x][o] = NewCoin(Height[x], CreatedByCoinbase(x, o))
    BY <1>1, CoinsEquation DEF After
  <2> QED BY <2>1, <2>2, <2>3, AncestorFacts
<1>2. P(Genesis)
  <2>1. CASE o \in Creates(Genesis)
    BY <1>1, <2>1, TreeFacts
  <2>2. CASE o \notin Creates(Genesis)
    BY <2>2, CoinsEquation, TreeFacts DEF After, Pre, NoCoins
  <2> QED BY <2>1, <2>2
<1>3. ASSUME NEW x \in Hash \ {Genesis}, P(Parent[x]) PROVE P(x)
  <2>1. CASE o \in Creates(x)
    BY <1>1, <2>1
  <2>2. CASE o \notin Creates(x)
    <3>1. CoinsAt[x][o] = NoCoin \/ CoinsAt[x][o] = CoinsAt[Parent[x]][o]
      BY <2>2, CoinsEquation DEF After, Pre
    <3>2. Ancestors(Parent[x]) \subseteq Ancestors(x)
      BY AncestorsStep
    <3> QED BY <1>3, <3>1, <3>2
  <2> QED BY <2>1, <2>2
<1> HIDE DEF P
<1>4. S = Hash
  <2>1. S \subseteq Hash /\ \A x \in Hash \ {Genesis} : Parent[x] \in S => x \in S
    BY <1>3
  <2>2. Genesis \in S
    BY <1>2, TreeFacts
  <2> HIDE DEF S
  <2> QED BY <2>1, <2>2, TreeInduction
<1>5. P(b)
  BY <1>4
<1> QED BY <1>5 DEF P

-----------------------------------------------------------------------------
(* The inductive invariant *)

\* The steps between whose writes the process may die.
Survivable == {"idle", "boot", "genesis", "replay", "accept", "connect", "disconnect"}

Touches(t) == Ins[t] \cup Outs[t]

\* No transaction of b spends an output of b.
Flat(b) == \A t, u \in TxsOf(b) : Ins[t] \cap Outs[u] = {}

\* Nothing before b has the outputs of t or reveals its leaves.
FreshTx(t, b) ==
    /\ \A o \in Outs[t] : Pre(b)[o] = NoCoin
    /\ Lvs[t] \cap PreL(b) = {}

\* What the transactions D of b take: its undo record.
Taken(b, D) == [o \in UNION {Ins[t] : t \in D} |-> Pre(b)[o]]

\* Coins on their way through b: each is the one before b or the one after it.
Between(c, b) == \A o \in Outpoint : c[o] = Pre(b)[o] \/ c[o] = CoinsAt[b][o]

\* Only coins that D touches are still (or already) the ones after b.
Retreat(c, b, D) ==
    \A o \in Outpoint : \/ c[o] = Pre(b)[o]
                        \/ c[o] = CoinsAt[b][o] /\ \E t \in D : o \in Touches(t)

\* Only coins that D touches are still the ones before b.
Advance(c, b, D) ==
    \A o \in Outpoint : \/ c[o] = CoinsAt[b][o]
                        \/ c[o] = Pre(b)[o] /\ \E t \in D : o \in Touches(t)

LeavesBack(lv, b, D) ==
    PreL(b) \subseteq lv /\ lv \subseteq PreL(b) \cup UNION {Lvs[t] : t \in D}

LeavesOn(lv, b, D) ==
    lv \subseteq LeavesAt(b) /\ LeavesAt(b) \subseteq lv \cup UNION {Lvs[t] : t \in D}

ChainTypes ==
    /\ coins \in View /\ dCoins \in View
    /\ index \subseteq Hash
    /\ undo = [b \in Hash |-> undo[b]]
    /\ chainBest \in Hash \cup {NoKey}
    /\ mBestChain \in Hash \cup {Zero}
    /\ branch \in Seq(Hash) /\ back \in Seq(Hash)
    /\ todo \in Seq(Tx) /\ applied \in Seq(Tx)

\* Whatever is in the block index was accepted with its parent known.
IndexInv == \A b \in index : Flat(b) /\ (b # Genesis => Parent[b] \in index)

\* An undo record holds what its block took, and its block created nothing old.
UndoInv ==
    \A b \in Hash : undo[b] # NoKey =>
        /\ b \in index \ {Genesis}
        /\ \A t \in TxsOf(b) : FreshTx(t, b)
        /\ undo[b] = Taken(b, TxsOf(b))

(* What the disk may hold. *)

Empty ==
    /\ chainBest = NoKey /\ dHeads = NoKey /\ dBest = NoKey
    /\ dCoins = NoCoins /\ dLeaves = {}

Committed(b) ==
    /\ dHeads = NoKey /\ dBest = b
    /\ dCoins = CoinsAt[b] /\ dLeaves = LeavesAt(b)

\* The recorded tip is b and the UTXO database belongs to the block before it.
Forward(b) ==
    /\ Between(dCoins, b)
    /\ dLeaves = PreL(b)
    /\ \/ dHeads = NoKey /\ dBest = IF b = Genesis THEN NoKey ELSE Parent[b]
       \/ dBest = NoKey /\ dHeads = <<b, IF b = Genesis THEN Zero ELSE Parent[b]>>

\* The recorded tip is the parent of b and the UTXO database belongs to b.
Backward(b) ==
    /\ b \in Hash \ {Genesis}
    /\ undo[b] # NoKey
    /\ chainBest = Parent[b]
    /\ Between(dCoins, b)
    /\ dLeaves = LeavesAt(b)
    /\ \/ dHeads = NoKey /\ dBest = b
       \/ dBest = NoKey /\ dHeads = <<Parent[b], b>>

Torn == Forward(chainBest) \/ Backward(DiskSource)

(* What the methods rely on, step by step. *)

AtTip ==
    /\ mBestChain = chainBest /\ best = chainBest /\ chainBest \in index
    /\ coins = CoinsAt[chainBest] /\ leaves = LeavesAt(chainBest)

Path(a) ==
    /\ branch # <<>>
    /\ Linked(a, branch)
    /\ \A i \in DOMAIN branch : branch[i] \in index

Phases ==
    {<<"down", "idle">>, <<"check", "boot">>, <<"ready", "boot">>, <<"idle", "idle">>,
     <<"apply", "genesis">>, <<"index", "genesis">>, <<"index", "accept">>,
     <<"rollback", "replay">>, <<"undo", "replay">>, <<"reapply", "replay">>,
     <<"disconnect", "connect">>, <<"undo", "undo">>, <<"flushed", "disconnect">>,
     <<"connect", "connect">>, <<"apply", "connect">>, <<"unapply", "connect">>,
     <<"tip", "connect">>, <<"flushed", "connect">>, <<"rollback", "connect">>}
    \cup {"flush", "flushing"} \X {"genesis", "replay", "connect", "disconnect", "sync", "close"}

PhaseInv ==
    /\ <<pc, op>> \in Phases
    /\ pc = "flushing" /\ op # "close" => mode = "flushing"

\* Between blocks: nothing is half applied and nothing is to be flushed.
Resting ==
    \/ pc \in {"idle", "ready", "flushed", "disconnect", "connect"}
    \/ pc = "index" /\ op = "accept"
    \/ pc = "rollback" /\ op = "connect"
    \/ pc = "flush" /\ op \in {"sync", "close"}

RestInv == Resting => AtTip /\ Committed(chainBest)

FlushInv ==
    pc \in {"flush", "flushing"} =>
        /\ AtTip
        /\ op \notin {"sync", "close"} => Torn
        /\ pc = "flushing" /\ op \in {"sync", "close"} =>
               /\ dBest = NoKey /\ dHeads = <<chainBest, chainBest>>
               /\ dCoins = coins /\ dLeaves = leaves

BootInv ==
    /\ pc = "down" =>
           \/ Empty
           \/ chainBest \in index /\ (Committed(chainBest) \/ Torn)
    /\ pc = "check" =>
           /\ chainBest \in index /\ mBestChain = chainBest
           /\ coins = dCoins /\ leaves = dLeaves
           /\ best = IF dBest = NoKey THEN Zero ELSE dBest
           /\ Committed(chainBest) \/ Torn

GenesisInv ==
    /\ op = "genesis" /\ pc \in {"apply", "index"} => Empty
    /\ op = "genesis" /\ pc = "apply" =>
           /\ Advance(coins, Genesis, ToSet(todo))
           /\ LeavesOn(leaves, Genesis, ToSet(todo))
           /\ ToSet(todo) \subseteq TxsOf(Genesis)
    /\ op = "genesis" /\ pc = "index" =>
           /\ coins = CoinsAt[Genesis] /\ leaves = LeavesAt(Genesis)
           /\ Genesis \in index

ReplayInv ==
    /\ op = "replay" /\ pc \in {"rollback", "undo", "reapply"} =>
           mBestChain = chainBest /\ chainBest \in index
    /\ op = "replay" /\ pc = "rollback" =>
           \/ /\ back = <<DiskSource>> /\ branch = <<>>
              /\ Backward(DiskSource)
              /\ Between(coins, DiskSource) /\ leaves = LeavesAt(DiskSource)
           \/ /\ back = <<>> /\ branch = <<chainBest>>
              /\ Forward(chainBest)
              /\ Between(coins, chainBest) /\ leaves = PreL(chainBest)
           \/ /\ back = <<>> /\ branch = <<>>
              /\ Torn
              /\ coins = CoinsAt[chainBest] /\ leaves = LeavesAt(chainBest)
    /\ op = "replay" /\ pc = "undo" =>
           /\ back = <<>> /\ branch = <<>>
           /\ Backward(DiskSource)
           /\ spent = undo[DiskSource]
           /\ ToSet(todo) \subseteq TxsOf(DiskSource)
           /\ Retreat(coins, DiskSource, ToSet(todo))
           /\ LeavesBack(leaves, DiskSource, ToSet(todo))
    /\ pc = "reapply" =>
           /\ back = <<>> /\ branch = <<chainBest>>
           /\ Forward(chainBest)
           /\ ToSet(todo) \subseteq TxsOf(chainBest)
           /\ Advance(coins, chainBest, ToSet(todo))
           /\ LeavesOn(leaves, chainBest, ToSet(todo))

\* The blocks to connect follow each other from where the next one goes.
BranchInv ==
    /\ pc = "index" => branch # <<>>
    /\ pc = "index" /\ op = "accept" => Head(branch) \in index \ {Genesis}
    /\ pc = "disconnect" \/ (op \in {"undo", "disconnect"} /\ ~failed) => Path(fork)
    /\ pc \in {"connect", "unapply", "tip"} \/ (pc = "apply" /\ op = "connect") => Path(chainBest)
    /\ pc \in {"flush", "flushing", "flushed"} /\ op = "connect" =>
           /\ Path(Parent[chainBest])
           /\ Head(branch) = chainBest
    /\ pc = "rollback" /\ op = "connect" => failed

ConnectInv ==
    /\ pc \in {"unapply", "tip"} \/ (pc = "apply" /\ op = "connect") =>
           /\ mBestChain = chainBest /\ best = chainBest /\ chainBest \in index
           /\ Committed(chainBest)
    /\ pc = "apply" /\ op = "connect" =>
           /\ TxsOf(Head(branch)) = ToSet(applied) \cup ToSet(todo)
           /\ Retreat(coins, Head(branch), ToSet(applied))
           /\ Advance(coins, Head(branch), ToSet(todo))
           /\ LeavesBack(leaves, Head(branch), ToSet(applied))
           /\ LeavesOn(leaves, Head(branch), ToSet(todo))
           /\ \A t \in ToSet(applied) : FreshTx(t, Head(branch))
           /\ spent = Taken(Head(branch), ToSet(applied))
    /\ pc = "unapply" =>
           /\ Retreat(coins, Head(branch), ToSet(applied))
           /\ LeavesBack(leaves, Head(branch), ToSet(applied))
           /\ \A t \in ToSet(applied) :
                  /\ t \in TxsOf(Head(branch)) /\ FreshTx(t, Head(branch))
                  /\ \A o \in Ins[t] : spent[o] = Pre(Head(branch))[o]
    /\ pc = "tip" =>
           /\ coins = CoinsAt[Head(branch)] /\ leaves = LeavesAt(Head(branch))
           /\ undo[Head(branch)] # NoKey

UndoneInv ==
    pc = "undo" /\ op = "undo" =>
        /\ mBestChain = chainBest /\ best = chainBest /\ chainBest \in index \ {Genesis}
        /\ undo[chainBest] # NoKey /\ spent = undo[chainBest]
        /\ dHeads = NoKey /\ dBest = chainBest
        /\ Between(dCoins, chainBest) /\ dLeaves = LeavesAt(chainBest)
        /\ ToSet(todo) \subseteq TxsOf(chainBest)
        /\ Retreat(coins, chainBest, ToSet(todo))
        /\ LeavesBack(leaves, chainBest, ToSet(todo))

\* What a block leaves behind in the local variables.
ScratchInv ==
    /\ pc \notin {"apply", "unapply"} => applied = <<>>
    /\ pc \notin {"apply", "unapply", "undo"} => spent = NoSpent

StepInv ==
    /\ RestInv /\ FlushInv /\ BootInv /\ GenesisInv /\ ReplayInv /\ BranchInv
    /\ ConnectInv /\ UndoneInv /\ ScratchInv

ChainInv == ChainTypes /\ IndexInv /\ UndoInv /\ PhaseInv /\ StepInv

-----------------------------------------------------------------------------
(* Transactions and the coins on their way *)

\* What taking an element off either end of a sequence leaves of its set.
LEMMA SeqSets ==
    ASSUME NEW S, NEW s \in Seq(S)
    PROVE  /\ ToSet(s) \subseteq S
           /\ s = <<>> => ToSet(s) = {}
           /\ \A x \in S : Append(s, x) \in Seq(S) /\ ToSet(Append(s, x)) = ToSet(s) \cup {x}
           /\ s # <<>> => /\ Head(s) \in ToSet(s) /\ Tail(s) \in Seq(S)
                          /\ ToSet(s) = ToSet(Tail(s)) \cup {Head(s)}
                          /\ Last(s) \in ToSet(s) /\ Front(s) \in Seq(S)
                          /\ ToSet(s) = ToSet(Front(s)) \cup {Last(s)}
<1>1. PICK n \in Nat : Len(s) = n /\ DOMAIN s = 1..n
  OBVIOUS
<1>2. ToSet(s) \subseteq S /\ (s = <<>> => ToSet(s) = {})
  BY DEF ToSet
<1>3. ASSUME NEW x \in S
      PROVE  Append(s, x) \in Seq(S) /\ ToSet(Append(s, x)) = ToSet(s) \cup {x}
  <2>1. /\ Append(s, x) \in Seq(S) /\ DOMAIN Append(s, x) = 1..(n + 1)
        /\ Append(s, x)[n + 1] = x /\ \A i \in 1..n : Append(s, x)[i] = s[i]
    BY <1>1
  <2>2. 1..(n + 1) = 1..n \cup {n + 1}
    OBVIOUS
  <2> QED BY <1>1, <2>1, <2>2 DEF ToSet
<1>4. ASSUME s # <<>>
      PROVE  /\ Head(s) \in ToSet(s) /\ Tail(s) \in Seq(S)
             /\ ToSet(s) = ToSet(Tail(s)) \cup {Head(s)}
  <2>1. n # 0 /\ Head(s) = s[1] /\ Tail(s) \in Seq(S)
    BY <1>1, <1>4
  <2>2. DOMAIN Tail(s) = 1..(n - 1) /\ \A i \in 1..(n - 1) : Tail(s)[i] = s[i + 1]
    BY <1>1, <1>4
  <2>3. ASSUME NEW i \in 1..n PROVE i = 1 \/ \E j \in 1..(n - 1) : i = j + 1
    <3>1. i # 1 => i - 1 \in 1..(n - 1) /\ i = (i - 1) + 1
      OBVIOUS
    <3> QED BY <3>1
  <2>4. 1 \in 1..n /\ \A j \in 1..(n - 1) : j + 1 \in 1..n
    BY <2>1
  <2>5. ToSet(s) = {s[i] : i \in 1..n}
    BY <1>1 DEF ToSet
  <2>6. ToSet(Tail(s)) = {s[j + 1] : j \in 1..(n - 1)}
    BY <2>2 DEF ToSet
  <2>7. {s[i] : i \in 1..n} = {s[j + 1] : j \in 1..(n - 1)} \cup {s[1]}
    BY <2>3, <2>4
  <2> QED BY <2>1, <2>5, <2>6, <2>7
<1>5. ASSUME s # <<>>
      PROVE  /\ Last(s) \in ToSet(s) /\ Front(s) \in Seq(S)
             /\ ToSet(s) = ToSet(Front(s)) \cup {Last(s)}
  <2>1. n # 0 /\ Last(s) = s[n]
    BY <1>1, <1>5 DEF Last
  <2>2. /\ Front(s) \in Seq(S) /\ DOMAIN Front(s) = 1..(n - 1)
        /\ \A i \in 1..(n - 1) : Front(s)[i] = s[i]
    BY <1>1, <2>1 DEF Front
  <2>3. 1..n = 1..(n - 1) \cup {n}
    BY <2>1
  <2> QED BY <1>1, <2>1, <2>2, <2>3 DEF ToSet
<1> QED BY <1>2, <1>3, <1>4, <1>5

\* What no transaction of b touches is the same before and after b.
LEMMA Untouched ==
    ASSUME NEW b \in Hash, NEW o \in Outpoint, \A t \in TxsOf(b) : o \notin Touches(t)
    PROVE  CoinsAt[b][o] = Pre(b)[o]
  BY CoinsEquation DEF After, Creates, Consumes, Touches

\* What a transaction of a flat block leaves behind is what the block leaves behind.
LEMMA TouchedAfter ==
    ASSUME NEW b \in Hash, Flat(b), NEW t \in TxsOf(b), NEW o \in Outpoint
    PROVE  /\ o \in Outs[t] => CoinsAt[b][o] = NewCoin(Height[b], t \in Coinbase)
           /\ o \in Ins[t] => CoinsAt[b][o] = NoCoin
<1>1. ASSUME o \in Outs[t] PROVE CoinsAt[b][o] = NewCoin(Height[b], t \in Coinbase)
  <2>1. CreatedByCoinbase(b, o) <=> t \in Coinbase
    BY <1>1, TxFacts, OneCreator DEF CreatedByCoinbase
  <2>2. CreatedByCoinbase(b, o) = (t \in Coinbase)
    <3>1. CreatedByCoinbase(b, o) \in BOOLEAN
      BY DEF CreatedByCoinbase
    <3> QED BY <2>1, <3>1
  <2> QED BY <1>1, <2>2, CoinsEquation DEF After, Creates
<1>2. ASSUME o \in Ins[t] PROVE CoinsAt[b][o] = NoCoin
  <2>1. o \notin Creates(b) /\ o \in Consumes(b)
    BY <1>2 DEF Flat, Creates, Consumes
  <2> QED BY <2>1, CoinsEquation DEF After
<1> QED BY <1>1, <1>2

\* A transaction of b leaves the coins it touches as they are after b.
LEMMA AppliedCoin ==
    ASSUME NEW b \in Hash, Flat(b), NEW t \in TxsOf(b), NEW c \in View
    PROVE  /\ AppliedTo(c, t, Height[b]) \in View
           /\ \A o \in Outpoint : AppliedTo(c, t, Height[b])[o] =
                  IF o \in Touches(t) THEN CoinsAt[b][o] ELSE c[o]
<1>1. NewCoin(Height[b], t \in Coinbase) \in Coin
  BY TreeAssumption DEF NewCoin, Coin
<1>2. AppliedTo(c, t, Height[b]) \in View
  BY <1>1 DEF AppliedTo, With, Without, View
<1>3. ASSUME NEW o \in Outpoint
      PROVE  AppliedTo(c, t, Height[b])[o] = IF o \in Touches(t) THEN CoinsAt[b][o] ELSE c[o]
  BY TouchedAfter DEF AppliedTo, With, Without, Touches
<1> QED BY <1>2, <1>3

\* ApplyTransaction and ReplayTransaction bring the coins a transaction further.
LEMMA ApplyOne ==
    ASSUME NEW b \in Hash, Flat(b), NEW t \in TxsOf(b), NEW c \in View, NEW D
    PROVE  /\ Advance(c, b, D \cup {t}) => Advance(AppliedTo(c, t, Height[b]), b, D)
           /\ Retreat(c, b, D) => Retreat(AppliedTo(c, t, Height[b]), b, D \cup {t})
<1>1. PICK d \in View : d = AppliedTo(c, t, Height[b])
  BY AppliedCoin
<1>2. \A o \in Outpoint : d[o] = IF o \in Touches(t) THEN CoinsAt[b][o] ELSE c[o]
  BY <1>1, AppliedCoin
<1>3. Advance(c, b, D \cup {t}) => Advance(d, b, D)
  BY <1>2 DEF Advance
<1>4. Retreat(c, b, D) => Retreat(d, b, D \cup {t})
  BY <1>2 DEF Retreat
<1> QED BY <1>1, <1>3, <1>4

\* UndoTransaction takes them a transaction back, when the record has what it took.
LEMMA UndoOne ==
    ASSUME NEW b \in Hash, NEW t \in TxsOf(b), FreshTx(t, b), NEW c \in View, NEW D,
           NEW sp, DOMAIN sp = Ins[t], \A o \in Ins[t] : sp[o] = Pre(b)[o]
    PROVE  /\ Restored(Without(c, Outs[t]), sp) \in View
           /\ Retreat(c, b, D \cup {t}) => Retreat(Restored(Without(c, Outs[t]), sp), b, D)
<1>1. PICK d : d = Restored(Without(c, Outs[t]), sp)
  OBVIOUS
<1>2. ASSUME NEW o \in Outpoint PROVE d[o] = IF o \in Touches(t) THEN Pre(b)[o] ELSE c[o]
  BY <1>1 DEF Restored, Without, Touches, FreshTx
<1>3. d \in View
  <2>1. d = [o \in Outpoint |-> d[o]]
    BY <1>1 DEF Restored
  <2>2. ASSUME NEW o \in Outpoint PROVE d[o] \in Coin \cup {NoCoin}
    BY <1>2, PreType DEF View
  <2> QED BY <2>1, <2>2 DEF View
<1>4. Retreat(c, b, D \cup {t}) => Retreat(d, b, D)
  BY <1>2 DEF Retreat
<1> QED BY <1>1, <1>3, <1>4

\* The outputs UndoTransaction erases on disk were not there before the block.
LEMMA EraseOne ==
    ASSUME NEW b \in Hash, NEW t, FreshTx(t, b), NEW c \in View
    PROVE  /\ Without(c, Outs[t]) \in View
           /\ Between(c, b) => Between(Without(c, Outs[t]), b)
           /\ c = Pre(b) => Without(c, Outs[t]) = c
<1>1. Without(c, Outs[t]) \in View
  BY DEF Without, View
<1>2. Between(c, b) => Between(Without(c, Outs[t]), b)
  BY DEF Between, Without, FreshTx
<1>3. ASSUME c = Pre(b) PROVE Without(c, Outs[t]) = c
  BY <1>3 DEF Without, View, FreshTx
<1> QED BY <1>1, <1>2, <1>3

\* With nothing left to touch, the coins on their way have arrived.
LEMMA Ends ==
    ASSUME NEW b \in Hash, NEW c \in View
    PROVE  /\ Advance(c, b, {}) => c = CoinsAt[b]
           /\ Retreat(c, b, {}) => c = Pre(b)
           /\ c = Pre(b) => Retreat(c, b, {}) /\ Between(c, b)
           /\ c = CoinsAt[b] => Between(c, b)
           /\ Between(c, b) => Advance(c, b, TxsOf(b)) /\ Retreat(c, b, TxsOf(b))
<1>1. Advance(c, b, {}) => c = CoinsAt[b]
  BY PreType DEF Advance, View
<1>2. Retreat(c, b, {}) => c = Pre(b)
  BY PreType DEF Retreat, View
<1>3. (c = Pre(b) => Retreat(c, b, {}) /\ Between(c, b)) /\ (c = CoinsAt[b] => Between(c, b))
  BY DEF Retreat, Between
<1>4. ASSUME Between(c, b) PROVE Advance(c, b, TxsOf(b)) /\ Retreat(c, b, TxsOf(b))
  BY <1>4, Untouched DEF Between, Advance, Retreat
<1> QED BY <1>1, <1>2, <1>3, <1>4

\* What a transaction adds to, or undoing it takes from, the leaves on their way.
LEMMA LeafSteps ==
    ASSUME NEW b \in Hash, NEW t \in TxsOf(b), NEW lv, NEW D
    PROVE  /\ LeavesOn(lv, b, D \cup {t}) => LeavesOn(lv \cup Lvs[t], b, D)
           /\ LeavesBack(lv, b, D) => LeavesBack(lv \cup Lvs[t], b, D \cup {t})
           /\ FreshTx(t, b) /\ LeavesBack(lv, b, D \cup {t}) => LeavesBack(lv \ Lvs[t], b, D)
<1>1. LeavesAt(b) = PreL(b) \cup UNION {Lvs[u] : u \in TxsOf(b)}
  BY LeavesEquation
<1>2. LeavesOn(lv, b, D \cup {t}) => LeavesOn(lv \cup Lvs[t], b, D)
  BY <1>1 DEF LeavesOn
<1>3. LeavesBack(lv, b, D) => LeavesBack(lv \cup Lvs[t], b, D \cup {t})
  BY DEF LeavesBack
<1>4. FreshTx(t, b) /\ LeavesBack(lv, b, D \cup {t}) => LeavesBack(lv \ Lvs[t], b, D)
  BY DEF LeavesBack, FreshTx
<1> QED BY <1>2, <1>3, <1>4

\* With nothing left to reveal, the leaves on their way have arrived.
LEMMA LeafEnds ==
    ASSUME NEW b \in Hash, NEW lv
    PROVE  /\ LeavesOn(lv, b, {}) => lv = LeavesAt(b)
           /\ LeavesBack(lv, b, {}) => lv = PreL(b)
           /\ lv = PreL(b) => LeavesOn(lv, b, TxsOf(b)) /\ LeavesBack(lv, b, {})
           /\ lv = LeavesAt(b) => LeavesBack(lv, b, TxsOf(b))
  BY LeavesEquation DEF LeavesOn, LeavesBack

\* A transaction that ApplyTransaction accepts is new to the branch: a payment by
\* its leaves, a coinbase by its height.
LEMMA AppliedIsFresh ==
    ASSUME NEW b \in Hash, NEW t \in TxsOf(b),
           t \notin Coinbase => Lvs[t] # {} /\ Lvs[t] \cap PreL(b) = {}
    PROVE  FreshTx(t, b)
<1>1. Lvs[t] \cap PreL(b) = {}
  BY TxFacts, LedgerAssumption
<1>2. ASSUME NEW o \in Outs[t], Pre(b)[o] # NoCoin PROVE FALSE
  <2>1. o \in Outpoint
    BY TxFacts
  <2>2. b # Genesis
    BY <1>2, <2>1 DEF Pre, NoCoins
  <2>3. PICK p \in Hash : p = Parent[b] /\ Height[b] = Height[p] + 1 /\ Pre(b) = CoinsAt[p]
    BY <2>2, TreeFacts DEF Pre
  <2>4. PICK a \in Ancestors(p) : \E u \in TxsOf(a) : o \in Outs[u]
    BY <1>2, <2>1, <2>3, Created
  <2>5. a \in Hash /\ Height[a] < Height[b]
    BY <2>3, <2>4, AncestorFacts, TreeFacts
  <2>6. t \in TxsOf(a)
    BY <2>4, <2>5, TxFacts, OneCreator
  <2>7. CASE t \in Coinbase
    BY <2>5, <2>6, <2>7, OriginAssumption, TreeFacts
  <2>8. CASE t \notin Coinbase
    <3>1. Lvs[t] \subseteq LeavesAt(p)
      BY <2>4, <2>6 DEF LeavesAt, BranchTxs
    <3>2. PreL(b) = LeavesAt(p)
      BY <2>2, <2>3 DEF PreL
    <3> QED BY <2>8, <3>1, <3>2
  <2> QED BY <2>7, <2>8
<1> QED BY <1>1, <1>2 DEF FreshTx

\* A block that ValidateBlock accepts at some tip spends none of its own outputs:
\* the leaves of its payments and the age of its coinbase rule it out.
LEMMA AcceptedIsFlat ==
    ASSUME NEW b \in Hash, NEW x \in Hash, ValidateBlock(b, CoinsAt[x], LeavesAt(x))
    PROVE  Flat(b)
<1> SUFFICES ASSUME NEW t \in TxsOf(b), NEW u \in TxsOf(b), NEW o \in Ins[t] \cap Outs[u]
             PROVE  FALSE
  BY DEF Flat
<1>1. o \in Outpoint /\ t \notin Coinbase
  BY TxFacts, LedgerAssumption
<1>2. /\ CoinsAt[x][o] # NoCoin
      /\ CoinsAt[x][o].isCoinbase => Height[b] >= CoinsAt[x][o].height + Maturity
  BY <1>1 DEF ValidateBlock, CheckBlockTransactionsWithUTXO, CheckTransactionWithUTXO
<1>3. PICK a \in Ancestors(x) : \E v \in TxsOf(a) :
          o \in Outs[v] /\ CoinsAt[x][o] = NewCoin(Height[a], v \in Coinbase)
  BY <1>1, <1>2, Created
<1>4. a \in Hash
  BY <1>3, AncestorFacts
<1>5. /\ u \in TxsOf(a)
      /\ CoinsAt[x][o] = NewCoin(Height[a], u \in Coinbase)
  BY <1>3, <1>4, TxFacts, OneCreator
<1>6. CASE u \in Coinbase
  <2>1. CoinsAt[x][o].isCoinbase /\ CoinsAt[x][o].height = Height[a]
    <3>1. CoinsAt[x][o] = [height |-> Height[a], isCoinbase |-> u \in Coinbase]
      BY <1>5 DEF NewCoin
    <3>2. /\ [height |-> Height[a], isCoinbase |-> u \in Coinbase].height = Height[a]
          /\ [height |-> Height[a], isCoinbase |-> u \in Coinbase].isCoinbase = (u \in Coinbase)
      OBVIOUS
    <3> QED BY <1>6, <3>1, <3>2
  <2>2. Height[a] = Height[b]
    BY <1>3, <1>4, <1>5, <1>6, OriginAssumption
  <2>3. Height[b] \in Nat /\ Maturity \in Nat /\ Maturity > 0
    BY TreeFacts, TreeAssumption, OriginAssumption
  <2> QED BY <1>2, <2>1, <2>2, <2>3
<1>7. CASE u \notin Coinbase
  <2>1. Lvs[u] # {} /\ Lvs[u] \cap LeavesAt(x) = {}
    BY <1>7 DEF ValidateBlock, CheckBlockTransactionsWithUTXO, LeavesUnused
  <2>2. Lvs[u] \subseteq LeavesAt(x)
    BY <1>3, <1>5 DEF LeavesAt, BranchTxs
  <2> QED BY <2>1, <2>2
<1> QED BY <1>6, <1>7

-----------------------------------------------------------------------------
(* Every step keeps the invariant *)

LEMMA ChainInit == Init => ChainInv
<1> SUFFICES ASSUME Init PROVE ChainInv
  OBVIOUS
<1>1. ChainTypes
  BY DEF Init, StoreInit, ChainTypes, View
<1>2. IndexInv /\ UndoInv /\ PhaseInv
  BY DEF Init, IndexInv, UndoInv, PhaseInv, Phases
<1>3. Empty
  BY DEF Init, StoreInit, Empty, NoCoins
<1>4. RestInv /\ FlushInv /\ BootInv /\ GenesisInv /\ ReplayInv /\ BranchInv
  BY <1>3 DEF Init, RestInv, Resting, FlushInv, BootInv, GenesisInv, ReplayInv, BranchInv
<1>5. ConnectInv /\ UndoneInv /\ ScratchInv
  BY DEF Init, ConnectInv, UndoneInv, ScratchInv
<1> QED BY <1>1, <1>2, <1>4, <1>5 DEF ChainInv, StepInv

LEMMA RolledBackKeeps ==
    ASSUME ChainInv, RolledBack
    PROVE  ChainInv'
<1>1. pc = "rollback" /\ op = "connect" /\ pc' = "idle" /\ op' = "idle"
  BY DEF ChainInv, PhaseInv, Phases, RolledBack, Return, Goto
<1>2. UNCHANGED <<mode, coins, leaves, best, dCoins, dLeaves, dBest, dHeads>>
  BY DEF RolledBack, storeVars
<1>3. UNCHANGED <<index, undo, chainBest, mBestChain, back, todo, applied, spent>> /\ branch' = <<>>
  BY DEF RolledBack, chainDisk, tipVars, txVars, Return
<1>4. ChainTypes' /\ IndexInv' /\ UndoInv' /\ PhaseInv'
  BY <1>1, <1>2, <1>3 DEF ChainInv, ChainTypes, IndexInv, UndoInv, PhaseInv, Phases
<1>5. AtTip /\ Committed(chainBest)
  BY <1>1 DEF ChainInv, StepInv, RestInv, Resting
<1>6. AtTip' /\ Committed(chainBest)'
  BY <1>2, <1>3, <1>5 DEF AtTip, Committed
<1>7. StepInv'
  BY <1>1, <1>3, <1>6 DEF ChainInv, StepInv, RestInv, Resting, FlushInv, BootInv, GenesisInv, ReplayInv,
     BranchInv, ConnectInv, UndoneInv, ScratchInv
<1> QED BY <1>4, <1>7 DEF ChainInv

LEMMA IndexTxKeeps ==
    ASSUME ChainInv, IndexTx
    PROVE  ChainInv'
<1>1. pc = "index" /\ op \in {"genesis", "accept"} /\ pc' = pc /\ op' = op /\ todo' \in Seq(Tx)
  <2>1. pc = "index" /\ op \in {"genesis", "accept"} /\ pc' = pc /\ op' = op
    BY DEF ChainInv, PhaseInv, Phases, IndexTx
  <2>2. todo' \in Seq(Tx)
    BY SeqSets DEF IndexTx, ChainInv, ChainTypes
  <2> QED BY <2>1, <2>2
<1>2. UNCHANGED <<mode, coins, leaves, best, dCoins, dLeaves, dBest, dHeads>>
  BY DEF IndexTx, storeVars
<1>3. UNCHANGED <<index, undo, chainBest, mBestChain, branch, back, applied, spent>>
  BY DEF IndexTx, tipVars, plan
<1>4. ChainTypes' /\ IndexInv' /\ UndoInv' /\ PhaseInv'
  BY <1>1, <1>2, <1>3 DEF ChainInv, ChainTypes, IndexInv, UndoInv, PhaseInv, Phases
<1>5. op = "accept" => AtTip' /\ Committed(chainBest)'
  <2>1. op = "accept" => AtTip /\ Committed(chainBest)
    BY <1>1 DEF ChainInv, StepInv, RestInv, Resting
  <2> QED BY <1>2, <1>3, <2>1 DEF AtTip, Committed
<1>6. op = "genesis" => Empty'
  <2>1. op = "genesis" => Empty
    BY <1>1 DEF ChainInv, StepInv, GenesisInv
  <2> QED BY <1>2, <1>3, <2>1 DEF Empty
<1>7. StepInv'
  BY <1>1, <1>2, <1>3, <1>5, <1>6 DEF ChainInv, StepInv, RestInv, Resting, FlushInv, BootInv,
     GenesisInv, ReplayInv, BranchInv, ConnectInv, UndoneInv, ScratchInv
<1> QED BY <1>4, <1>7 DEF ChainInv

LEMMA InitializedKeeps ==
    ASSUME ChainInv, Initialized
    PROVE  ChainInv'
<1>1. pc = "ready" /\ op = "boot" /\ pc' = "idle" /\ op' = "idle"
  BY DEF ChainInv, PhaseInv, Phases, Initialized, Ready, Goto
<1>2. UNCHANGED <<mode, coins, leaves, best, dCoins, dLeaves, dBest, dHeads>>
  BY DEF Initialized, storeVars
<1>3. UNCHANGED <<index, undo, chainBest, mBestChain, branch, back, todo, applied, spent>>
  BY DEF Initialized, chainDisk, plan, txVars
<1>4. ChainTypes' /\ IndexInv' /\ UndoInv' /\ PhaseInv'
  BY <1>1, <1>2, <1>3 DEF ChainInv, ChainTypes, IndexInv, UndoInv, PhaseInv, Phases
<1>5. AtTip /\ Committed(chainBest)
  BY <1>1 DEF ChainInv, StepInv, RestInv, Resting
<1>6. AtTip' /\ Committed(chainBest)'
  BY <1>2, <1>3, <1>5 DEF AtTip, Committed
<1>7. StepInv'
  BY <1>1, <1>3, <1>6 DEF ChainInv, StepInv, RestInv, Resting, FlushInv, BootInv, GenesisInv,
     ReplayInv, BranchInv, ConnectInv, UndoneInv, ScratchInv
<1> QED BY <1>4, <1>7 DEF ChainInv

LEMMA FlushKeeps ==
    ASSUME ChainInv, NEW o \in {"sync", "close"}, Flush(o)
    PROVE  ChainInv'
<1>1. pc = "idle" /\ op = "idle" /\ pc' = "flush" /\ op' = o
  BY DEF ChainInv, PhaseInv, Phases, Flush, Goto
<1>2. UNCHANGED <<mode, coins, leaves, best, dCoins, dLeaves, dBest, dHeads>>
  BY DEF Flush, storeVars
<1>3. UNCHANGED <<index, undo, chainBest, mBestChain, branch, back, todo, applied, spent>>
  BY DEF Flush, chainDisk, plan, txVars, tipVars
<1>4. ChainTypes' /\ IndexInv' /\ UndoInv' /\ PhaseInv'
  BY <1>1, <1>2, <1>3 DEF ChainInv, ChainTypes, IndexInv, UndoInv, PhaseInv, Phases
<1>5. AtTip /\ Committed(chainBest)
  BY <1>1 DEF ChainInv, StepInv, RestInv, Resting
<1>6. AtTip' /\ Committed(chainBest)'
  BY <1>2, <1>3, <1>5 DEF AtTip, Committed
<1>7. StepInv'
  BY <1>1, <1>3, <1>6 DEF ChainInv, StepInv, RestInv, Resting, FlushInv, BootInv, GenesisInv,
     ReplayInv, BranchInv, ConnectInv, UndoneInv, ScratchInv
<1> QED BY <1>4, <1>7 DEF ChainInv

LEMMA TakeMempoolSyncKeeps ==
    ASSUME ChainInv, TakeMempoolSync
    PROVE  ChainInv'
<1>1. pc = "idle" /\ op = "idle" /\ pc' = "idle" /\ op' = "idle"
  BY DEF ChainInv, PhaseInv, Phases, TakeMempoolSync
<1>2. UNCHANGED <<mode, coins, leaves, best, dCoins, dLeaves, dBest, dHeads>>
  BY DEF TakeMempoolSync, storeVars
<1>3. UNCHANGED <<index, undo, chainBest, mBestChain, branch, back, todo, applied, spent>>
  BY DEF TakeMempoolSync, chainDisk, plan, txVars, tipVars
<1>4. ChainTypes' /\ IndexInv' /\ UndoInv' /\ PhaseInv'
  BY <1>1, <1>2, <1>3 DEF ChainInv, ChainTypes, IndexInv, UndoInv, PhaseInv, Phases
<1>5. AtTip /\ Committed(chainBest)
  BY <1>1 DEF ChainInv, StepInv, RestInv, Resting
<1>6. AtTip' /\ Committed(chainBest)'
  BY <1>2, <1>3, <1>5 DEF AtTip, Committed
<1>7. StepInv'
  BY <1>1, <1>3, <1>6 DEF ChainInv, StepInv, RestInv, Resting, FlushInv, BootInv, GenesisInv,
     ReplayInv, BranchInv, ConnectInv, UndoneInv, ScratchInv
<1> QED BY <1>4, <1>7 DEF ChainInv

LEMMA DisconnectedKeeps ==
    ASSUME ChainInv, Disconnected
    PROVE  ChainInv'
<1>1. /\ pc = "flushed" /\ op = "disconnect" /\ op' = "connect" /\ failed' = failed
      /\ pc' = IF failed THEN "rollback" ELSE "disconnect"
  BY DEF Disconnected, Goto
<1>2. UNCHANGED <<mode, coins, leaves, best, dCoins, dLeaves, dBest, dHeads>>
  BY DEF Disconnected, storeVars
<1>3. UNCHANGED <<index, undo, chainBest, mBestChain, fork, branch, back, applied, spent>> /\ todo' = <<>>
  BY DEF Disconnected, chainDisk, tipVars
<1>4. ChainTypes' /\ IndexInv' /\ UndoInv' /\ PhaseInv'
  BY <1>1, <1>2, <1>3 DEF ChainInv, ChainTypes, IndexInv, UndoInv, PhaseInv, Phases
<1>5. AtTip /\ Committed(chainBest) /\ (~failed => Path(fork))
  BY <1>1 DEF ChainInv, StepInv, RestInv, Resting, BranchInv
<1>6. AtTip' /\ Committed(chainBest)' /\ (~failed => Path(fork)')
  BY <1>2, <1>3, <1>5 DEF AtTip, Committed, Path
<1>7. StepInv'
  BY <1>1, <1>3, <1>6 DEF ChainInv, StepInv, RestInv, Resting, FlushInv, BootInv, GenesisInv,
     ReplayInv, BranchInv, ConnectInv, UndoneInv, ScratchInv
<1> QED BY <1>4, <1>7 DEF ChainInv

\* Once its first block is connected, the rest of a branch follows from it.
LEMMA LinkedTail ==
    ASSUME NEW a, NEW s \in Seq(Hash), s # <<>>, Linked(a, s)
    PROVE  /\ Head(s) \in Hash \ {Genesis} /\ Parent[Head(s)] = a
           /\ Linked(Head(s), Tail(s))
           /\ \A i \in DOMAIN Tail(s) : i + 1 \in DOMAIN s /\ Tail(s)[i] = s[i + 1]
<1>1. PICK n \in Nat : Len(s) = n /\ DOMAIN s = 1..n
  OBVIOUS
<1>2. n # 0 /\ 1 \in 1..n /\ Head(s) = s[1]
  BY <1>1
<1>3. DOMAIN Tail(s) = 1..(n - 1) /\ \A i \in 1..(n - 1) : Tail(s)[i] = s[i + 1]
  BY <1>1, <1>2
<1>4. Head(s) \in Hash \ {Genesis} /\ Parent[Head(s)] = a
  BY <1>1, <1>2 DEF Linked
<1>5. ASSUME NEW i \in 1..(n - 1)
      PROVE  /\ i + 1 \in 1..n
             /\ Tail(s)[i] \in Hash \ {Genesis}
             /\ Parent[Tail(s)[i]] = IF i = 1 THEN Head(s) ELSE Tail(s)[i - 1]
  <2>1. i + 1 \in 1..n /\ i + 1 # 1 /\ (i + 1) - 1 = i
    BY <1>1
  <2>2. s[i + 1] \in Hash \ {Genesis} /\ Parent[s[i + 1]] = s[i]
    BY <1>1, <2>1 DEF Linked
  <2>3. i # 1 => i - 1 \in 1..(n - 1) /\ (i - 1) + 1 = i
    BY <1>1
  <2>4. IF i = 1 THEN Head(s) = s[i] ELSE Tail(s)[i - 1] = s[i]
    BY <1>2, <1>3, <2>3
  <2> QED BY <1>3, <2>1, <2>2, <2>4
<1> QED BY <1>1, <1>3, <1>4, <1>5 DEF Linked

LEMMA ConnectedKeeps ==
    ASSUME ChainInv, Connected
    PROVE  ChainInv'
<1>1. pc = "flushed" /\ op = "connect"
  BY DEF Connected
<1>2. UNCHANGED <<mode, coins, leaves, best, dCoins, dLeaves, dBest, dHeads>>
  BY DEF Connected, storeVars
<1>3. UNCHANGED <<index, undo, chainBest, mBestChain, back, todo, applied, spent>>
  BY DEF Connected, chainDisk, tipVars, txVars
<1>4. AtTip /\ Committed(chainBest) /\ Path(Parent[chainBest]) /\ Head(branch) = chainBest
  BY <1>1 DEF ChainInv, StepInv, RestInv, Resting, BranchInv
<1>5. AtTip' /\ Committed(chainBest)'
  BY <1>2, <1>3, <1>4 DEF AtTip, Committed
<1>6. CASE Tail(branch) = <<>>
  <2>1. pc' = "idle" /\ op' = "idle" /\ branch' = <<>>
    BY <1>6 DEF Connected, Return, Goto
  <2>2. ChainTypes' /\ IndexInv' /\ UndoInv' /\ PhaseInv'
    BY <1>2, <1>3, <2>1 DEF ChainInv, ChainTypes, IndexInv, UndoInv, PhaseInv, Phases
  <2>3. StepInv'
    BY <1>1, <1>3, <1>5, <2>1 DEF ChainInv, StepInv, RestInv, Resting, FlushInv, BootInv, GenesisInv,
       ReplayInv, BranchInv, ConnectInv, UndoneInv, ScratchInv
  <2> QED BY <2>2, <2>3 DEF ChainInv
<1>7. CASE Tail(branch) # <<>>
  <2>1. pc' = "connect" /\ op' = "connect" /\ branch' = Tail(branch)
    BY <1>7 DEF Connected, Goto
  <2>2. branch \in Seq(Hash) /\ branch # <<>> /\ Linked(Parent[chainBest], branch)
        /\ \A i \in DOMAIN branch : branch[i] \in index
    BY <1>4 DEF ChainInv, ChainTypes, Path
  <2>3. branch' \in Seq(Hash)
    BY <2>1, <2>2, SeqSets
  <2>4. ChainTypes' /\ IndexInv' /\ UndoInv' /\ PhaseInv'
    BY <1>2, <1>3, <2>1, <2>3 DEF ChainInv, ChainTypes, IndexInv, UndoInv, PhaseInv, Phases
  <2>5. /\ Linked(chainBest, Tail(branch))
        /\ \A i \in DOMAIN Tail(branch) : Tail(branch)[i] \in index
    BY <1>4, <2>2, LinkedTail
  <2>6. Path(chainBest)'
    BY <1>3, <1>7, <2>1, <2>5 DEF Path
  <2>7. StepInv'
    BY <1>1, <1>3, <1>5, <2>1, <2>6 DEF ChainInv, StepInv, RestInv, Resting, FlushInv, BootInv,
       GenesisInv, ReplayInv, BranchInv, ConnectInv, UndoneInv, ScratchInv
  <2> QED BY <2>4, <2>7 DEF ChainInv
<1> QED BY <1>6, <1>7

\* The next block to connect stands on the tip.
LEMMA NextBlock ==
    ASSUME ChainInv, Path(chainBest)
    PROVE  /\ Head(branch) \in index \ {Genesis} /\ Head(branch) \in Hash /\ Flat(Head(branch))
           /\ Parent[Head(branch)] = chainBest
           /\ Pre(Head(branch)) = CoinsAt[chainBest] /\ PreL(Head(branch)) = LeavesAt(chainBest)
<1>1. branch \in Seq(Hash) /\ branch # <<>> /\ Linked(chainBest, branch)
      /\ \A i \in DOMAIN branch : branch[i] \in index
  BY DEF ChainInv, ChainTypes, Path
<1>2. Head(branch) \in Hash \ {Genesis} /\ Parent[Head(branch)] = chainBest
  BY <1>1, LinkedTail
<1>3. Head(branch) \in index
  <2>1. Head(branch) = branch[1] /\ 1 \in DOMAIN branch
    BY <1>1
  <2> QED BY <1>1, <2>1
<1>4. Flat(Head(branch))
  BY <1>3 DEF ChainInv, IndexInv
<1> QED BY <1>2, <1>3, <1>4 DEF Pre, PreL

\* The undo record of no transaction is empty.
LEMMA TakenNone ==
    ASSUME NEW b
    PROVE  Taken(b, {}) = NoSpent
  BY DEF Taken, NoSpent

LEMMA ConnectBlockKeeps ==
    ASSUME ChainInv, ConnectBlock
    PROVE  ChainInv'
<1> DEFINE h == Head(branch)
<1>1. pc \in {"disconnect", "connect"} /\ op = "connect"
  BY DEF ChainInv, PhaseInv, Phases, ConnectBlock
<1>2. UNCHANGED <<mode, coins, leaves, best, dCoins, dLeaves, dBest, dHeads>>
  BY DEF ConnectBlock, storeVars
<1>3. UNCHANGED <<index, undo, chainBest, mBestChain, branch, back, applied, spent>>
  BY DEF ConnectBlock, chainDisk, tipVars
<1>4. /\ AtTip /\ Committed(chainBest) /\ Path(chainBest) /\ applied = <<>> /\ spent = NoSpent
  <2>1. AtTip /\ Committed(chainBest) /\ applied = <<>> /\ spent = NoSpent
    BY <1>1 DEF ChainInv, StepInv, RestInv, Resting, ScratchInv
  <2>2. (pc = "disconnect" => Path(fork)) /\ (pc = "connect" => Path(chainBest))
    BY DEF ChainInv, StepInv, BranchInv
  <2>3. pc = "disconnect" => fork = chainBest
    BY <2>1 DEF ConnectBlock, AtTip
  <2> QED BY <1>1, <2>1, <2>2, <2>3
<1>5. AtTip' /\ Committed(chainBest)' /\ Path(chainBest)'
  BY <1>2, <1>3, <1>4 DEF AtTip, Committed, Path
<1>6. CASE h \in HeaderOK
  <2>1. pc' = "apply" /\ op' = "connect" /\ todo' = BlockTxs[h] /\ failed' = failed
    BY <1>6 DEF ConnectBlock, Goto
  <2>2. h \in Hash /\ coins = Pre(h) /\ leaves = PreL(h) /\ coins \in View
    BY <1>4, NextBlock DEF AtTip, ChainInv, ChainTypes
  <2>3. ToSet(todo') = TxsOf(h) /\ ToSet(applied) = {} /\ todo' \in Seq(Tx)
    BY <1>4, <2>1, <2>2, TxFacts DEF TxsOf, ToSet
  <2>4. ChainTypes' /\ IndexInv' /\ UndoInv' /\ PhaseInv'
    BY <1>2, <1>3, <2>1, <2>3 DEF ChainInv, ChainTypes, IndexInv, UndoInv, PhaseInv, Phases
  <2> HIDE DEF h
  <2>5. /\ Retreat(coins, h, {}) /\ Advance(coins, h, TxsOf(h))
        /\ LeavesBack(leaves, h, {}) /\ LeavesOn(leaves, h, TxsOf(h))
    BY <2>2, Ends, LeafEnds
  <2>6. spent = Taken(h, {})
    BY <1>4, TakenNone
  <2>7. ConnectInv'
    <3>1. /\ (TxsOf(Head(branch)) = ToSet(applied) \cup ToSet(todo))'
          /\ Retreat(coins, Head(branch), ToSet(applied))'
          /\ Advance(coins, Head(branch), ToSet(todo))'
          /\ LeavesBack(leaves, Head(branch), ToSet(applied))'
          /\ LeavesOn(leaves, Head(branch), ToSet(todo))'
          /\ (\A t \in ToSet(applied) : FreshTx(t, Head(branch)))'
          /\ (spent = Taken(Head(branch), ToSet(applied)))'
      BY <1>2, <1>3, <2>3, <2>5, <2>6 DEF h
    <3> QED BY <1>5, <2>1, <3>1 DEF ConnectInv, AtTip
  <2>8. StepInv'
    BY <1>1, <1>3, <1>5, <2>1, <2>7 DEF ChainInv, StepInv, RestInv, Resting, FlushInv, BootInv,
       GenesisInv, ReplayInv, BranchInv, UndoneInv, ScratchInv
  <2> QED BY <2>4, <2>8 DEF ChainInv
<1>7. CASE h \notin HeaderOK
  <2>1. pc' = "rollback" /\ op' = "connect" /\ todo' = todo /\ failed' = TRUE
    BY <1>7 DEF ConnectBlock, Goto
  <2>2. ChainTypes' /\ IndexInv' /\ UndoInv' /\ PhaseInv'
    BY <1>2, <1>3, <2>1 DEF ChainInv, ChainTypes, IndexInv, UndoInv, PhaseInv, Phases
  <2>3. StepInv'
    BY <1>1, <1>3, <1>4, <1>5, <2>1 DEF ChainInv, StepInv, RestInv, Resting, FlushInv, BootInv,
       GenesisInv, ReplayInv, BranchInv, ConnectInv, UndoneInv, ScratchInv
  <2> QED BY <2>2, <2>3 DEF ChainInv
<1> QED BY <1>6, <1>7

LEMMA DisconnectTipKeeps ==
    ASSUME ChainInv, DisconnectTip
    PROVE  ChainInv'
<1>1. /\ op = "connect"
      /\ pc = "disconnect" \/ (pc = "rollback" /\ failed)
  <2>1. op = "connect" /\ pc \in {"disconnect", "rollback"}
    BY DEF ChainInv, PhaseInv, Phases, DisconnectTip
  <2> QED BY <2>1 DEF ChainInv, StepInv, BranchInv
<1>2. UNCHANGED <<mode, coins, leaves, best, dCoins, dLeaves, dBest, dHeads>>
  BY DEF DisconnectTip, storeVars
<1>3. UNCHANGED <<index, undo, chainBest, mBestChain, back, applied>>
  BY DEF DisconnectTip, chainDisk, tipVars
<1>4. /\ AtTip /\ Committed(chainBest) /\ applied = <<>> /\ spent = NoSpent
      /\ pc = "disconnect" => Path(fork)
  BY <1>1 DEF ChainInv, StepInv, RestInv, Resting, ScratchInv, BranchInv
<1>5. CASE undo[mBestChain] = NoKey
  <2>1. pc' = "idle" /\ op' = "idle" /\ branch' = <<>> /\ todo' = todo /\ spent' = spent
    BY <1>5 DEF DisconnectTip, Return, Goto
  <2>2. ChainTypes' /\ IndexInv' /\ UndoInv' /\ PhaseInv'
    BY <1>2, <1>3, <2>1 DEF ChainInv, ChainTypes, IndexInv, UndoInv, PhaseInv, Phases
  <2>3. AtTip' /\ Committed(chainBest)'
    BY <1>2, <1>3, <1>4 DEF AtTip, Committed
  <2>4. StepInv'
    BY <1>3, <1>4, <2>1, <2>3 DEF ChainInv, StepInv, RestInv, Resting, FlushInv, BootInv,
       GenesisInv, ReplayInv, BranchInv, ConnectInv, UndoneInv, ScratchInv
  <2> QED BY <2>2, <2>4 DEF ChainInv
<1>6. CASE undo[mBestChain] # NoKey
  <2>1. /\ pc' = "undo" /\ op' = "undo" /\ todo' = BlockTxs[mBestChain] /\ spent' = undo[mBestChain]
        /\ UNCHANGED <<fork, branch, failed>>
    BY <1>6 DEF DisconnectTip, Goto
  <2>2. /\ mBestChain = chainBest /\ best = chainBest /\ chainBest \in index /\ chainBest \in Hash
        /\ coins = CoinsAt[chainBest] /\ leaves = LeavesAt(chainBest)
        /\ dCoins = CoinsAt[chainBest] /\ dLeaves = LeavesAt(chainBest)
        /\ dHeads = NoKey /\ dBest = chainBest /\ coins \in View
    BY <1>4 DEF AtTip, Committed, ChainInv, ChainTypes
  <2>3. chainBest # Genesis
    BY <1>6, <2>2 DEF ChainInv, UndoInv
  <2>4. todo' \in Seq(Tx) /\ ToSet(todo') = TxsOf(chainBest)
    BY <2>1, <2>2, TxFacts DEF TxsOf
  <2>5. ChainTypes' /\ IndexInv' /\ UndoInv' /\ PhaseInv'
    BY <1>2, <1>3, <2>1, <2>4 DEF ChainInv, ChainTypes, IndexInv, UndoInv, PhaseInv, Phases
  <2>6. /\ Between(coins, chainBest) /\ Retreat(coins, chainBest, TxsOf(chainBest))
        /\ LeavesBack(leaves, chainBest, TxsOf(chainBest))
    BY <2>2, Ends, LeafEnds
  <2>7. /\ Between(dCoins, chainBest)'
        /\ (ToSet(todo) \subseteq TxsOf(chainBest))'
        /\ Retreat(coins, chainBest, ToSet(todo))'
        /\ LeavesBack(leaves, chainBest, ToSet(todo))'
    BY <1>2, <1>3, <2>2, <2>4, <2>6
  <2>8. UndoneInv'
    BY <1>2, <1>3, <1>6, <2>1, <2>2, <2>3, <2>7 DEF UndoneInv
  <2>9. ~failed' => Path(fork)'
    BY <1>1, <1>3, <1>4, <2>1 DEF Path
  <2>10. StepInv'
    BY <1>3, <1>4, <2>1, <2>8, <2>9 DEF StepInv, RestInv, Resting, FlushInv, BootInv,
       GenesisInv, ReplayInv, BranchInv, ConnectInv, ScratchInv
  <2> QED BY <2>5, <2>10 DEF ChainInv
<1> QED BY <1>5, <1>6

LEMMA ApplyFailsKeeps ==
    ASSUME ChainInv, ApplyFails
    PROVE  ChainInv'
<1> DEFINE h == Head(branch)
<1>1. pc = "apply" /\ op = "connect" /\ pc' = "unapply" /\ op' = "connect"
  BY DEF ApplyFails, Goto
<1>2. UNCHANGED <<mode, coins, leaves, best, dCoins, dLeaves, dBest, dHeads>>
  BY DEF ApplyFails, storeVars
<1>3. UNCHANGED <<index, undo, chainBest, mBestChain, branch, back, todo, applied, spent>>
  BY DEF ApplyFails, chainDisk, tipVars, plan, txVars
<1>4. ChainTypes' /\ IndexInv' /\ UndoInv' /\ PhaseInv'
  BY <1>1, <1>2, <1>3 DEF ChainInv, ChainTypes, IndexInv, UndoInv, PhaseInv, Phases
<1>5. /\ mBestChain = chainBest /\ best = chainBest /\ chainBest \in index
      /\ Committed(chainBest) /\ Path(chainBest)
      /\ Retreat(coins, h, ToSet(applied)) /\ LeavesBack(leaves, h, ToSet(applied))
      /\ TxsOf(h) = ToSet(applied) \cup ToSet(todo)
      /\ \A t \in ToSet(applied) : FreshTx(t, h)
      /\ spent = Taken(h, ToSet(applied))
  BY <1>1 DEF ChainInv, StepInv, ConnectInv, BranchInv
<1>6. \A t \in ToSet(applied) : \A o \in Ins[t] : spent[o] = Pre(h)[o]
  BY <1>5 DEF Taken
<1> HIDE DEF h
<1>7. Committed(chainBest)' /\ Path(chainBest)'
  BY <1>2, <1>3, <1>5 DEF Committed, Path
<1>8. /\ Retreat(coins, Head(branch), ToSet(applied))'
      /\ LeavesBack(leaves, Head(branch), ToSet(applied))'
      /\ (\A t \in ToSet(applied) : /\ t \in TxsOf(Head(branch)) /\ FreshTx(t, Head(branch))
                                    /\ \A o \in Ins[t] : spent[o] = Pre(Head(branch))[o])'
  BY <1>2, <1>3, <1>5, <1>6 DEF h
<1>9. ConnectInv'
  BY <1>1, <1>2, <1>3, <1>5, <1>7, <1>8 DEF ConnectInv
<1>10. StepInv'
  BY <1>1, <1>3, <1>7, <1>9 DEF StepInv, RestInv, Resting, FlushInv, BootInv,
     GenesisInv, ReplayInv, BranchInv, UndoneInv, ScratchInv
<1> QED BY <1>4, <1>10 DEF ChainInv

LEMMA AcceptBlockKeeps ==
    ASSUME ChainInv, NEW b \in Hash \ {Genesis}, AcceptBlock(b)
    PROVE  ChainInv'
<1>1. pc = "idle" /\ op = "idle" /\ pc' = "index" /\ op' = "accept"
  BY DEF ChainInv, PhaseInv, Phases, AcceptBlock, Goto
<1>2. UNCHANGED <<mode, coins, leaves, best, dCoins, dLeaves, dBest, dHeads>>
  BY DEF AcceptBlock, storeVars
<1>3. /\ UNCHANGED <<undo, chainBest, mBestChain, back, applied, spent>>
      /\ index' = index \cup {b} /\ branch' = <<b>> /\ todo' = BlockTxs[b]
  BY DEF AcceptBlock, StoreBlock, tipVars
<1>4. AtTip /\ Committed(chainBest) /\ applied = <<>> /\ spent = NoSpent
  BY <1>1 DEF ChainInv, StepInv, RestInv, Resting, ScratchInv
<1>5. Flat(b) /\ Parent[b] \in index
  <2>1. chainBest \in Hash /\ coins = CoinsAt[chainBest] /\ leaves = LeavesAt(chainBest)
    BY <1>4 DEF AtTip, ChainInv, ChainTypes
  <2>2. ValidateBlock(b, coins, leaves) /\ Parent[b] \in index
    BY DEF AcceptBlock, Acceptable
  <2> QED BY <2>1, <2>2, AcceptedIsFlat
<1>6. <<b>> \in Seq(Hash) /\ <<b>> # <<>> /\ Head(<<b>>) = b /\ BlockTxs[b] \in Seq(Tx)
  BY TxFacts
<1>7. ChainTypes'
  BY <1>2, <1>3, <1>6 DEF ChainInv, ChainTypes
<1>8. IndexInv'
  BY <1>3, <1>5 DEF ChainInv, IndexInv
<1>9. UndoInv' /\ PhaseInv'
  BY <1>1, <1>3 DEF ChainInv, UndoInv, PhaseInv, Phases
<1>10. AtTip' /\ Committed(chainBest)'
  BY <1>2, <1>3, <1>4 DEF AtTip, Committed
<1>11. StepInv'
  BY <1>1, <1>3, <1>4, <1>6, <1>10 DEF StepInv, RestInv, Resting, FlushInv, BootInv,
     GenesisInv, ReplayInv, BranchInv, ConnectInv, UndoneInv, ScratchInv
<1> QED BY <1>7, <1>8, <1>9, <1>11 DEF ChainInv

\* The index holds whole branches.
LEMMA IndexClosed ==
    ASSUME IndexInv, index \subseteq Hash, NEW b \in index
    PROVE  Ancestors(b) \subseteq index
<1> DEFINE S == {x \in Hash : x \in index => Ancestors(x) \subseteq index}
<1>1. Genesis \in S /\ S \subseteq Hash
  BY AncestorsStep, TreeFacts
<1>2. ASSUME NEW x \in Hash \ {Genesis}, Parent[x] \in S PROVE x \in S
  <2>1. x \in index => Parent[x] \in index
    BY DEF IndexInv
  <2>2. Ancestors(x) = Ancestors(Parent[x]) \cup {x}
    BY AncestorsStep
  <2> QED BY <1>2, <2>1, <2>2
<1>3. S = Hash
  <2> HIDE DEF S
  <2> QED BY <1>1, <1>2, TreeInduction
<1> QED BY <1>3

LEMMA ActivateKeeps ==
    ASSUME ChainInv, Activate
    PROVE  ChainInv'
<1>1. pc = "index" /\ op = "accept"
  BY DEF Activate
<1>2. UNCHANGED <<mode, coins, leaves, best, dCoins, dLeaves, dBest, dHeads>>
  BY DEF Activate, storeVars
<1>3. UNCHANGED <<index, undo, chainBest, mBestChain, back, todo, applied, spent>>
  BY DEF Activate, chainDisk, tipVars, txVars
<1>4. /\ AtTip /\ Committed(chainBest) /\ applied = <<>> /\ spent = NoSpent
      /\ Head(branch) \in index \ {Genesis}
  BY <1>1 DEF ChainInv, StepInv, RestInv, Resting, ScratchInv, BranchInv
<1>5. AtTip' /\ Committed(chainBest)'
  BY <1>2, <1>3, <1>4 DEF AtTip, Committed
<1>6. CASE ~MoreWork(Head(branch))
  <2>1. pc' = "idle" /\ op' = "idle" /\ branch' = <<>>
    BY <1>6 DEF Activate, Return, Goto
  <2>2. ChainTypes' /\ IndexInv' /\ UndoInv' /\ PhaseInv'
    BY <1>2, <1>3, <2>1 DEF ChainInv, ChainTypes, IndexInv, UndoInv, PhaseInv, Phases
  <2>3. StepInv'
    BY <1>3, <1>4, <1>5, <2>1 DEF StepInv, RestInv, Resting, FlushInv, BootInv,
       GenesisInv, ReplayInv, BranchInv, ConnectInv, UndoneInv, ScratchInv
  <2> QED BY <2>2, <2>3 DEF ChainInv
<1>7. CASE MoreWork(Head(branch))
  <2>1. PICK b \in index \ {Genesis} : b = Head(branch)
    BY <1>4
  <2>2. b \in Hash /\ mBestChain \in Hash /\ Work[b] > Work[mBestChain]
    BY <1>4, <1>7, <2>1 DEF AtTip, ChainInv, ChainTypes, MoreWork
  <2>3. PICK a \in Ancestors(b) \cap Ancestors(mBestChain) : a = CommonAncestor(b, mBestChain)
    BY <2>2, CommonFacts
  <2>4. /\ pc' = "disconnect" /\ op' = "connect"
        /\ fork' = a /\ branch' = PathFrom(a, b)
    BY <1>7, <2>1, <2>3 DEF Activate, ForkPoint, Goto
  <2>5. a # b
    <3>1. Work[b] \in Nat /\ Work[mBestChain] \in Nat
      BY <2>2, TreeAssumption
    <3>2. a = mBestChain \/ Work[a] < Work[mBestChain]
      BY <2>2, <2>3, AncestorFacts
    <3> QED BY <2>2, <3>1, <3>2
  <2>6. /\ PathFrom(a, b) \in Seq(Hash) /\ Linked(a, PathFrom(a, b)) /\ PathFrom(a, b) # <<>>
        /\ \A i \in DOMAIN PathFrom(a, b) : PathFrom(a, b)[i] \in Ancestors(b)
    BY <2>2, <2>3, <2>5, BranchFacts
  <2>7. Ancestors(b) \subseteq index
    BY <2>1, IndexClosed DEF ChainInv, ChainTypes
  <2>8. Path(fork)'
    BY <1>3, <2>4, <2>6, <2>7 DEF Path
  <2>9. ChainTypes' /\ IndexInv' /\ UndoInv' /\ PhaseInv'
    BY <1>2, <1>3, <2>4, <2>6 DEF ChainInv, ChainTypes, IndexInv, UndoInv, PhaseInv, Phases
  <2>10. StepInv'
    BY <1>3, <1>4, <1>5, <2>4, <2>8 DEF StepInv, RestInv, Resting, FlushInv, BootInv,
       GenesisInv, ReplayInv, BranchInv, ConnectInv, UndoneInv, ScratchInv
  <2> QED BY <2>9, <2>10 DEF ChainInv
<1> QED BY <1>6, <1>7

\* The genesis block starts from nothing and spends nothing of its own.
LEMMA GenesisFacts ==
    /\ Genesis \in Hash /\ Flat(Genesis) /\ Pre(Genesis) = NoCoins /\ PreL(Genesis) = {}
    /\ Height[Genesis] = 0
<1>1. ASSUME NEW t \in TxsOf(Genesis), NEW u \in TxsOf(Genesis) PROVE t = u
  <2>1. BlockTxs[Genesis] \in Seq(Tx) /\ Len(BlockTxs[Genesis]) = 1
    BY TxFacts, TreeFacts, OriginAssumption
  <2>2. DOMAIN BlockTxs[Genesis] = 1..1
    BY <2>1
  <2>3. \A i, j \in 1..1 : i = j
    OBVIOUS
  <2> QED BY <2>2, <2>3 DEF TxsOf, ToSet
<1>2. \A t \in TxsOf(Genesis) : Ins[t] \cap Outs[t] = {}
  BY TxFacts, TreeFacts, LedgerAssumption
<1> QED BY <1>1, <1>2, TreeFacts DEF Flat, Pre, PreL

LEMMA StartKeeps ==
    ASSUME ChainInv, Start
    PROVE  ChainInv'
<1>1. pc = "down" /\ op = "idle"
  BY DEF ChainInv, PhaseInv, Phases, Start
<1>2. /\ coins' = dCoins /\ leaves' = dLeaves /\ best' = IF dBest = NoKey THEN Zero ELSE dBest
      /\ UNCHANGED <<dCoins, dLeaves, dBest, dHeads>>
  BY DEF Start, Open, diskVars
<1>3. /\ UNCHANGED <<index, undo, chainBest, branch, back, applied, spent>>
      /\ mBestChain' = IF chainBest = NoKey THEN Zero ELSE chainBest
  BY DEF Start, chainDisk, plan
<1>4. /\ Empty \/ (chainBest \in index /\ (Committed(chainBest) \/ Torn))
      /\ applied = <<>> /\ spent = NoSpent
  BY <1>1 DEF ChainInv, StepInv, BootInv, ScratchInv
<1>5. chainBest \in index => chainBest \in Hash /\ chainBest # NoKey
  BY AbsenceAssumption DEF ChainInv, ChainTypes
<1>6. CASE chainBest = NoKey
  <2>1. pc' = "apply" /\ op' = "genesis" /\ todo' = BlockTxs[Genesis]
    BY <1>6 DEF Start, Goto
  <2>2. Empty
    BY <1>4, <1>5, <1>6
  <2>3. Empty' /\ coins' = NoCoins /\ leaves' = {}
    BY <1>2, <1>3, <2>2 DEF Empty
  <2>4. todo' \in Seq(Tx) /\ ToSet(todo') = TxsOf(Genesis)
    BY <2>1, TxFacts, TreeFacts DEF TxsOf
  <2>5. ChainTypes' /\ IndexInv' /\ UndoInv' /\ PhaseInv'
    BY <1>2, <1>3, <2>1, <2>4 DEF ChainInv, ChainTypes, IndexInv, UndoInv, PhaseInv, Phases
  <2>6. NoCoins \in View /\ Between(NoCoins, Genesis)
    BY PreType, GenesisFacts, Ends
  <2>7. Advance(NoCoins, Genesis, TxsOf(Genesis)) /\ LeavesOn({}, Genesis, TxsOf(Genesis))
    BY <2>6, GenesisFacts, Ends, LeafEnds
  <2>8. /\ Advance(coins, Genesis, ToSet(todo))'
        /\ LeavesOn(leaves, Genesis, ToSet(todo))'
        /\ (ToSet(todo) \subseteq TxsOf(Genesis))'
    BY <2>3, <2>4, <2>7
  <2>9. StepInv'
    BY <1>3, <2>1, <2>3, <2>8 DEF StepInv, RestInv, Resting, FlushInv, BootInv,
       GenesisInv, ReplayInv, BranchInv, ConnectInv, UndoneInv, ScratchInv
  <2> QED BY <2>5, <2>9 DEF ChainInv
<1>7. CASE chainBest # NoKey
  <2>1. pc' = "check" /\ op' = "boot" /\ todo' = <<>>
    BY <1>7 DEF Start, Goto
  <2>2. chainBest \in index /\ (Committed(chainBest) \/ Torn)
    BY <1>4, <1>7 DEF Empty
  <2>3. Committed(chainBest)' \/ Torn'
    BY <1>2, <1>3, <2>2 DEF Committed, Torn, Forward, Backward, DiskSource
  <2>4. ChainTypes' /\ IndexInv' /\ UndoInv' /\ PhaseInv'
    BY <1>2, <1>3, <1>7, <2>1 DEF ChainInv, ChainTypes, IndexInv, UndoInv, PhaseInv, Phases
  <2>5. StepInv'
    BY <1>2, <1>3, <1>4, <1>7, <2>1, <2>2, <2>3 DEF StepInv, RestInv, Resting, FlushInv, BootInv,
       GenesisInv, ReplayInv, BranchInv, ConnectInv, UndoneInv, ScratchInv
  <2> QED BY <2>4, <2>5 DEF ChainInv
<1> QED BY <1>6, <1>7

LEMMA StoreGenesisKeeps ==
    ASSUME ChainInv, StoreGenesis
    PROVE  ChainInv'
<1>1. pc = "apply" /\ op = "genesis" /\ todo = <<>> /\ pc' = "index" /\ op' = "genesis"
  BY DEF StoreGenesis, Goto
<1>2. UNCHANGED <<mode, coins, leaves, best, dCoins, dLeaves, dBest, dHeads>>
  BY DEF StoreGenesis, storeVars
<1>3. /\ UNCHANGED <<undo, chainBest, mBestChain, back>>
      /\ index' = index \cup {Genesis} /\ branch' = <<Genesis>> /\ todo' = BlockTxs[Genesis]
      /\ applied' = <<>> /\ spent' = NoSpent
  BY DEF StoreGenesis, StoreBlock, tipVars
<1>4. /\ Empty /\ Advance(coins, Genesis, {}) /\ LeavesOn(leaves, Genesis, {}) /\ coins \in View
  <2>1. ToSet(todo) = {}
    BY <1>1 DEF ToSet
  <2> QED BY <1>1, <2>1 DEF ChainInv, StepInv, GenesisInv, ChainTypes
<1>5. coins = CoinsAt[Genesis] /\ leaves = LeavesAt(Genesis)
  BY <1>4, GenesisFacts, Ends, LeafEnds
<1>6. <<Genesis>> \in Seq(Hash) /\ <<Genesis>> # <<>> /\ BlockTxs[Genesis] \in Seq(Tx)
  BY TxFacts, TreeFacts
<1>7. ChainTypes'
  BY <1>2, <1>3, <1>6, TreeFacts DEF ChainInv, ChainTypes
<1>8. IndexInv' /\ UndoInv' /\ PhaseInv'
  BY <1>1, <1>3, GenesisFacts DEF ChainInv, IndexInv, UndoInv, PhaseInv, Phases
<1>9. Empty'
  BY <1>2, <1>3, <1>4 DEF Empty
<1>10. StepInv'
  BY <1>1, <1>2, <1>3, <1>5, <1>6, <1>9 DEF StepInv, RestInv, Resting, FlushInv, BootInv,
     GenesisInv, ReplayInv, BranchInv, ConnectInv, UndoneInv, ScratchInv
<1> QED BY <1>7, <1>8, <1>10 DEF ChainInv

LEMMA GenesisTipKeeps ==
    ASSUME ChainInv, GenesisTip
    PROVE  ChainInv'
<1>1. pc = "index" /\ op = "genesis" /\ pc' = "flush" /\ op' = "genesis"
  BY DEF GenesisTip, Goto
<1>2. UNCHANGED <<coins, leaves, dCoins, dLeaves, dBest, dHeads>> /\ best' = Genesis
  BY DEF GenesisTip, SetBest, diskVars
<1>3. /\ UNCHANGED <<index, undo, back, todo, applied, spent>>
      /\ chainBest' = Genesis /\ mBestChain' = Genesis /\ branch' = <<>>
  BY DEF GenesisTip, txVars
<1>4. /\ Empty /\ coins = CoinsAt[Genesis] /\ leaves = LeavesAt(Genesis) /\ Genesis \in index
      /\ applied = <<>> /\ spent = NoSpent
  BY <1>1 DEF ChainInv, StepInv, GenesisInv, ScratchInv
<1>5. ChainTypes' /\ IndexInv' /\ UndoInv' /\ PhaseInv'
  BY <1>1, <1>2, <1>3, GenesisFacts DEF ChainInv, ChainTypes, IndexInv, UndoInv, PhaseInv, Phases
<1>6. AtTip'
  BY <1>2, <1>3, <1>4 DEF AtTip
<1>7. Between(NoCoins, Genesis)
  BY PreType, GenesisFacts, Ends
<1>8. Torn'
  <2>1. Between(dCoins, chainBest)'
    BY <1>2, <1>3, <1>4, <1>7 DEF Empty
  <2> QED BY <1>2, <1>3, <1>4, <2>1, GenesisFacts DEF Torn, Forward, Empty
<1>9. StepInv'
  BY <1>1, <1>3, <1>4, <1>6, <1>8 DEF StepInv, RestInv, Resting, FlushInv, BootInv,
     GenesisInv, ReplayInv, BranchInv, ConnectInv, UndoneInv, ScratchInv
<1> QED BY <1>5, <1>9 DEF ChainInv

\* Where the replay of a directory that a death left torn starts from.
LEMMA SourceOf ==
    ASSUME NEW b \in Hash
    PROVE  /\ Forward(b) => DiskSource = (IF b # Genesis THEN Parent[b]
                                          ELSE IF dHeads = NoKey THEN NoKey ELSE Zero)
           /\ Backward(b) => DiskSource = b
<1>1. ASSUME NEW x \in Hash \cup {Zero}, NEW y \in Hash \cup {Zero}
      PROVE  <<x, y>> # NoKey /\ <<x, y>>[2] = y
  <2>1. <<x, y>> \in (Hash \cup {Zero}) \X (Hash \cup {Zero})
    OBVIOUS
  <2> QED BY <2>1, AbsenceAssumption
<1>2. Zero \in Hash \cup {Zero} /\ (b # Genesis => Parent[b] \in Hash \cup {Zero})
  BY TreeFacts
<1>3. ASSUME Forward(b)
      PROVE  DiskSource = (IF b # Genesis THEN Parent[b]
                           ELSE IF dHeads = NoKey THEN NoKey ELSE Zero)
  <2>1. CASE dHeads = NoKey /\ dBest = IF b = Genesis THEN NoKey ELSE Parent[b]
    BY <2>1 DEF DiskSource
  <2>2. CASE dHeads = <<b, IF b = Genesis THEN Zero ELSE Parent[b]>>
    <3>1. PICK y \in Hash \cup {Zero} : y = IF b = Genesis THEN Zero ELSE Parent[b]
      BY <1>2
    <3>2. dHeads # NoKey /\ dHeads[2] = y
      BY <1>1, <2>2, <3>1
    <3> QED BY <3>1, <3>2 DEF DiskSource
  <2> QED BY <1>3, <2>1, <2>2 DEF Forward
<1>4. ASSUME Backward(b) PROVE DiskSource = b
  <2>1. CASE dHeads = NoKey /\ dBest = b
    BY <2>1 DEF DiskSource
  <2>2. CASE dHeads = <<Parent[b], b>>
    <3>1. dHeads # NoKey /\ dHeads[2] = b
      BY <1>1, <1>2, <1>4, <2>2 DEF Backward
    <3> QED BY <3>1 DEF DiskSource
  <2> QED BY <1>4, <2>1, <2>2 DEF Backward
<1> QED BY <1>3, <1>4

LEMMA CheckKeeps ==
    ASSUME ChainInv, Check
    PROVE  ChainInv'
<1>1. pc = "check" /\ op = "boot"
  BY DEF ChainInv, PhaseInv, Phases, Check
<1>2. UNCHANGED <<mode, coins, leaves, best, dCoins, dLeaves, dBest, dHeads>>
  BY DEF Check, storeVars
<1>3. UNCHANGED <<index, undo, chainBest, mBestChain, todo, applied, spent>>
  BY DEF Check, chainDisk, txVars
<1>4. /\ chainBest \in index /\ mBestChain = chainBest
      /\ coins = dCoins /\ leaves = dLeaves
      /\ best = IF dBest = NoKey THEN Zero ELSE dBest
      /\ Committed(chainBest) \/ Torn
      /\ applied = <<>> /\ spent = NoSpent
  BY <1>1 DEF ChainInv, StepInv, BootInv, ScratchInv
<1>5. /\ chainBest \in Hash /\ NoKey \notin Hash /\ Zero # NoKey /\ Zero \notin Hash
      /\ coins \in View
  BY <1>4, AbsenceAssumption, OriginAssumption DEF ChainInv, ChainTypes
<1>6. CASE Committed(chainBest)
  <2>1. dHeads = NoKey /\ best = mBestChain
    BY <1>4, <1>5, <1>6 DEF Committed
  <2>2. pc' = "idle" /\ op' = "idle" /\ branch' = branch /\ back' = back
    BY <2>1 DEF Check, NothingToReplay, Ready, Goto
  <2>3. ChainTypes' /\ IndexInv' /\ UndoInv' /\ PhaseInv'
    BY <1>2, <1>3, <2>2 DEF ChainInv, ChainTypes, IndexInv, UndoInv, PhaseInv, Phases
  <2>4. AtTip' /\ Committed(chainBest)'
    BY <1>2, <1>3, <1>4, <1>6, <2>1 DEF AtTip, Committed
  <2>5. StepInv'
    BY <1>3, <1>4, <2>2, <2>4 DEF StepInv, RestInv, Resting, FlushInv, BootInv,
       GenesisInv, ReplayInv, BranchInv, ConnectInv, UndoneInv, ScratchInv
  <2> QED BY <2>3, <2>5 DEF ChainInv
<1>7. CASE Forward(chainBest)
  <2>1. ReplaySource = IF chainBest = Genesis THEN Zero ELSE Parent[chainBest]
    <3>1. ReplaySource = IF DiskSource = NoKey THEN Zero ELSE DiskSource
      BY <1>4, <1>5, <1>7, SourceOf, TreeFacts DEF DiskSource, ReplaySource
    <3> QED BY <1>5, <1>7, <3>1, SourceOf, TreeFacts
  <2>2. chainBest # Genesis =>
            /\ Parent[chainBest] \in index /\ Parent[chainBest] \in Hash
            /\ Parent[chainBest] # chainBest
    BY <1>4, <1>5, TreeFacts DEF ChainInv, IndexInv
  <2>3. ReplaySource # mBestChain
    BY <1>4, <1>5, <2>1, <2>2
  <2>4. ~(dHeads = NoKey /\ best = mBestChain)
    BY <2>3 DEF ReplaySource
  <2>5. CanReplay(ReplaySource)
    <3>1. CASE chainBest = Genesis
      BY <2>1, <3>1 DEF CanReplay
    <3>2. CASE chainBest # Genesis
      <4>1. CommonAncestor(Parent[chainBest], chainBest) = Parent[chainBest]
        BY <1>5, <3>2, OneAbove
      <4>2. Height[Parent[chainBest]] \in Nat /\ Height[chainBest] \in Nat
        BY <1>5, <2>2, <3>2, TreeFacts
      <4>3. Height[Parent[chainBest]] <= Height[Parent[chainBest]] + (Height[chainBest] + 2)
        BY <4>2
      <4> QED BY <1>4, <2>1, <2>2, <3>2, <4>1, <4>3 DEF CanReplay, MaxSteps
    <3> QED BY <3>1, <3>2
  <2>6. /\ pc' = "rollback" /\ op' = "replay"
        /\ branch' = IF ReplaySource = Zero THEN PathTo[mBestChain]
                     ELSE PathFrom(CommonAncestor(ReplaySource, mBestChain), mBestChain)
        /\ back' = IF ReplaySource = Zero THEN <<>>
                   ELSE Reverse(PathFrom(CommonAncestor(ReplaySource, mBestChain), ReplaySource))
    BY <2>3, <2>4, <2>5 DEF Check, NothingToReplay, Goto
  <2>7. branch' = <<chainBest>> /\ back' = <<>>
    <3>1. CASE chainBest = Genesis
      BY <1>4, <2>1, <2>6, <3>1, PathEquation
    <3>2. CASE chainBest # Genesis
      <4>1. ReplaySource = Parent[chainBest] /\ ReplaySource # Zero
        BY <1>5, <2>1, <2>2, <3>2
      <4>2. /\ CommonAncestor(Parent[chainBest], chainBest) = Parent[chainBest]
            /\ PathFrom(Parent[chainBest], chainBest) = <<chainBest>>
            /\ PathFrom(Parent[chainBest], Parent[chainBest]) = <<>>
        BY <1>5, <3>2, OneAbove
      <4>3. Reverse(<<>>) = <<>>
        BY DEF Reverse
      <4> QED BY <1>4, <2>6, <4>1, <4>2, <4>3
    <3> QED BY <3>1, <3>2
  <2>8. ChainTypes' /\ IndexInv' /\ UndoInv' /\ PhaseInv'
    <3>1. branch' \in Seq(Hash) /\ back' \in Seq(Hash)
      BY <1>5, <2>7
    <3> QED BY <1>2, <1>3, <2>6, <3>1 DEF ChainInv, ChainTypes, IndexInv, UndoInv, PhaseInv, Phases
  <2>9. Between(coins, chainBest) /\ leaves = PreL(chainBest)
    BY <1>4, <1>7 DEF Forward
  <2>10. Forward(chainBest)' /\ Between(coins, chainBest)' /\ leaves' = PreL(chainBest)'
    BY <1>2, <1>3, <1>7, <2>9 DEF Forward
  <2>11. StepInv'
    BY <1>3, <1>4, <2>6, <2>7, <2>10 DEF StepInv, RestInv, Resting, FlushInv, BootInv,
       GenesisInv, ReplayInv, BranchInv, ConnectInv, UndoneInv, ScratchInv
  <2> QED BY <2>8, <2>11 DEF ChainInv
<1>8. CASE Backward(DiskSource)
  <2>1. PICK S \in Hash \ {Genesis} : S = DiskSource
    BY <1>8 DEF Backward
  <2>2. S \in index /\ chainBest = Parent[S] /\ S # chainBest /\ S # Zero
    BY <1>5, <1>8, <2>1, TreeFacts DEF Backward, ChainInv, UndoInv
  <2>3. ReplaySource = S
    BY <1>4, <1>5, <2>1 DEF DiskSource, ReplaySource
  <2>4. ~(dHeads = NoKey /\ best = mBestChain)
    BY <1>4, <2>2, <2>3 DEF ReplaySource
  <2>5. /\ CommonAncestor(S, chainBest) = chainBest
        /\ PathFrom(chainBest, S) = <<S>> /\ PathFrom(chainBest, chainBest) = <<>>
    BY <2>2, OneAbove
  <2>6. CanReplay(S)
    <3>1. Height[S] = Height[chainBest] + 1 /\ Height[chainBest] \in Nat
      BY <1>5, <2>2, TreeFacts
    <3>2. Height[S] <= Height[chainBest] + (Height[chainBest] + 2)
      BY <3>1
    <3> QED BY <1>4, <2>2, <2>5, <3>2 DEF CanReplay, MaxSteps
  <2>7. /\ pc' = "rollback" /\ op' = "replay"
        /\ branch' = PathFrom(CommonAncestor(S, mBestChain), mBestChain)
        /\ back' = Reverse(PathFrom(CommonAncestor(S, mBestChain), S))
    BY <1>4, <2>2, <2>3, <2>4, <2>6 DEF Check, NothingToReplay, Goto
  <2>8. branch' = <<>> /\ back' = <<S>>
    <3>1. Reverse(<<S>>) = <<S>>
      <4>1. Len(<<S>>) = 1 /\ <<S>>[1] = S
        OBVIOUS
      <4>2. Reverse(<<S>>) = [i \in 1..1 |-> <<S>>[(1 - i) + 1]]
        BY <4>1 DEF Reverse
      <4>3. \A i \in 1..1 : (1 - i) + 1 = 1
        OBVIOUS
      <4>4. Reverse(<<S>>) = [i \in 1..1 |-> S]
        BY <4>1, <4>2, <4>3
      <4>5. [i \in 1..1 |-> S] = <<S>>
        OBVIOUS
      <4> QED BY <4>4, <4>5
    <3> QED BY <1>4, <2>5, <2>7, <3>1
  <2>9. ChainTypes' /\ IndexInv' /\ UndoInv' /\ PhaseInv'
    <3>1. branch' \in Seq(Hash) /\ back' \in Seq(Hash)
      BY <2>8
    <3> QED BY <1>2, <1>3, <2>7, <3>1 DEF ChainInv, ChainTypes, IndexInv, UndoInv, PhaseInv, Phases
  <2>10. Between(coins, DiskSource) /\ leaves = LeavesAt(DiskSource)
    BY <1>4, <1>8 DEF Backward
  <2>11. DiskSource' = DiskSource
    BY <1>2 DEF DiskSource
  <2>12. /\ Backward(DiskSource)' /\ Between(coins, DiskSource)'
         /\ leaves' = LeavesAt(DiskSource)' /\ back' = <<DiskSource>>'
    BY <1>2, <1>3, <1>8, <2>1, <2>8, <2>10, <2>11 DEF Backward
  <2>13. StepInv'
    BY <1>3, <1>4, <2>7, <2>8, <2>12 DEF StepInv, RestInv, Resting, FlushInv, BootInv,
       GenesisInv, ReplayInv, BranchInv, ConnectInv, UndoneInv, ScratchInv
  <2> QED BY <2>9, <2>13 DEF ChainInv
<1> QED BY <1>4, <1>6, <1>7, <1>8 DEF Torn

LEMMA ReplayBackKeeps ==
    ASSUME ChainInv, ReplayBack
    PROVE  ChainInv'
<1>1. pc = "rollback" /\ op = "replay" /\ back # <<>>
  BY DEF ReplayBack
<1>2. UNCHANGED <<mode, coins, leaves, best, dCoins, dLeaves, dBest, dHeads>>
  BY DEF ReplayBack, storeVars
<1>3. UNCHANGED <<index, undo, chainBest, mBestChain, branch, applied>>
  BY DEF ReplayBack, chainDisk, tipVars
<1>4. /\ mBestChain = chainBest /\ chainBest \in index
      /\ back = <<DiskSource>> /\ branch = <<>>
      /\ Backward(DiskSource)
      /\ Between(coins, DiskSource) /\ leaves = LeavesAt(DiskSource)
      /\ applied = <<>>
  BY <1>1 DEF ChainInv, StepInv, ReplayInv, ScratchInv
<1>5. PICK S \in Hash : S = DiskSource
  BY <1>4 DEF Backward
<1>6. Head(back) = S /\ Tail(back) = <<>> /\ undo[S] # NoKey
  BY <1>4, <1>5 DEF Backward
<1>7. /\ pc' = "undo" /\ op' = "replay" /\ back' = <<>>
      /\ todo' = BlockTxs[S] /\ spent' = undo[S]
  BY <1>6 DEF ReplayBack, Goto
<1>8. todo' \in Seq(Tx) /\ ToSet(todo') = TxsOf(S)
  BY <1>7, TxFacts DEF TxsOf
<1>9. ChainTypes' /\ IndexInv' /\ UndoInv' /\ PhaseInv'
  BY <1>2, <1>3, <1>7, <1>8 DEF ChainInv, ChainTypes, IndexInv, UndoInv, PhaseInv, Phases
<1>10. Retreat(coins, S, TxsOf(S)) /\ LeavesBack(leaves, S, TxsOf(S))
  BY <1>4, <1>5, Ends, LeafEnds DEF ChainInv, ChainTypes
<1>11. DiskSource' = S
  BY <1>2, <1>5 DEF DiskSource
<1>12. /\ Backward(DiskSource)'
       /\ (spent = undo[DiskSource])'
       /\ (ToSet(todo) \subseteq TxsOf(DiskSource))'
       /\ Retreat(coins, DiskSource, ToSet(todo))'
       /\ LeavesBack(leaves, DiskSource, ToSet(todo))'
  BY <1>2, <1>3, <1>4, <1>5, <1>7, <1>8, <1>10, <1>11 DEF Backward
<1>13. StepInv'
  BY <1>3, <1>4, <1>7, <1>12 DEF StepInv, RestInv, Resting, FlushInv, BootInv,
     GenesisInv, ReplayInv, BranchInv, ConnectInv, UndoneInv, ScratchInv
<1> QED BY <1>9, <1>13 DEF ChainInv

LEMMA ReplayForwardKeeps ==
    ASSUME ChainInv, ReplayForward
    PROVE  ChainInv'
<1>1. /\ pc = "rollback" /\ op = "replay" /\ back = <<>> /\ branch # <<>>
      /\ pc' = "reapply" /\ op' = "replay"
  BY DEF ReplayForward, Goto
<1>2. UNCHANGED <<mode, coins, leaves, best, dCoins, dLeaves, dBest, dHeads>>
  BY DEF ReplayForward, storeVars
<1>3. UNCHANGED <<index, undo, chainBest, mBestChain, branch, back, applied, spent>>
  BY DEF ReplayForward, chainDisk, tipVars, plan
<1>4. /\ mBestChain = chainBest /\ chainBest \in index /\ branch = <<chainBest>>
      /\ Forward(chainBest) /\ Between(coins, chainBest) /\ leaves = PreL(chainBest)
      /\ applied = <<>> /\ spent = NoSpent
  BY <1>1 DEF ChainInv, StepInv, ReplayInv, ScratchInv
<1>5. chainBest \in Hash /\ coins \in View
  BY <1>4 DEF ChainInv, ChainTypes
<1>6. todo' = BlockTxs[chainBest]
  BY <1>4 DEF ReplayForward
<1>7. todo' \in Seq(Tx) /\ ToSet(todo') = TxsOf(chainBest)
  BY <1>5, <1>6, TxFacts DEF TxsOf
<1>8. ChainTypes' /\ IndexInv' /\ UndoInv' /\ PhaseInv'
  BY <1>1, <1>2, <1>3, <1>7 DEF ChainInv, ChainTypes, IndexInv, UndoInv, PhaseInv, Phases
<1>9. Advance(coins, chainBest, TxsOf(chainBest)) /\ LeavesOn(leaves, chainBest, TxsOf(chainBest))
  BY <1>4, <1>5, Ends, LeafEnds
<1>10. /\ Forward(chainBest)'
       /\ (ToSet(todo) \subseteq TxsOf(chainBest))'
       /\ Advance(coins, chainBest, ToSet(todo))'
       /\ LeavesOn(leaves, chainBest, ToSet(todo))'
  BY <1>2, <1>3, <1>4, <1>7, <1>9 DEF Forward
<1>11. StepInv'
  BY <1>1, <1>3, <1>4, <1>10 DEF StepInv, RestInv, Resting, FlushInv, BootInv,
     GenesisInv, ReplayInv, BranchInv, ConnectInv, UndoneInv, ScratchInv
<1> QED BY <1>8, <1>11 DEF ChainInv

LEMMA ReapplyTxKeeps ==
    ASSUME ChainInv, ReapplyTx
    PROVE  ChainInv'
<1>1. pc = "reapply" /\ op = "replay" /\ pc' = "reapply" /\ op' = "replay" /\ todo # <<>>
  BY DEF ChainInv, PhaseInv, Phases, ReapplyTx
<1>2. UNCHANGED <<index, undo, chainBest, mBestChain, branch, back, applied, spent>>
  BY DEF ReapplyTx, chainDisk, tipVars, plan
<1>3. /\ mBestChain = chainBest /\ chainBest \in index /\ back = <<>> /\ branch = <<chainBest>>
      /\ Forward(chainBest)
      /\ ToSet(todo) \subseteq TxsOf(chainBest)
      /\ Advance(coins, chainBest, ToSet(todo))
      /\ LeavesOn(leaves, chainBest, ToSet(todo))
      /\ applied = <<>> /\ spent = NoSpent
  BY <1>1 DEF ChainInv, StepInv, ReplayInv, ScratchInv
<1>4. chainBest \in Hash /\ coins \in View /\ Flat(chainBest) /\ todo \in Seq(Tx)
  BY <1>3 DEF ChainInv, ChainTypes, IndexInv
<1>5. PICK t \in TxsOf(chainBest) :
          /\ t = Head(todo) /\ ToSet(todo) = ToSet(Tail(todo)) \cup {t}
          /\ Tail(todo) \in Seq(Tx)
  <2>1. /\ Head(todo) \in ToSet(todo) /\ Tail(todo) \in Seq(Tx)
        /\ ToSet(todo) = ToSet(Tail(todo)) \cup {Head(todo)}
    <3>1. todo \in Seq(Tx) /\ todo # <<>>
      BY <1>1, <1>4
    <3>2. Head(todo) \in ToSet(todo)
      BY <3>1, SeqSets
    <3>3. Tail(todo) \in Seq(Tx)
      BY <3>1, SeqSets
    <3>4. ToSet(todo) = ToSet(Tail(todo)) \cup {Head(todo)}
      BY <3>1, SeqSets
    <3> QED BY <3>2, <3>3, <3>4
  <2> QED BY <1>3, <2>1
<1>5a. PICK D : D = ToSet(Tail(todo))
  OBVIOUS
<1>6. /\ coins' = AppliedTo(coins, t, Height[chainBest]) /\ leaves' = leaves \cup Lvs[t]
      /\ UNCHANGED <<mode, best, dCoins, dLeaves, dBest, dHeads>>
      /\ todo' = Tail(todo)
  BY <1>3, <1>5 DEF ReapplyTx, Reapply, diskVars
<1>7. /\ coins' \in View /\ Advance(coins', chainBest, D) /\ LeavesOn(leaves', chainBest, D)
  BY <1>3, <1>4, <1>5, <1>5a, <1>6, AppliedCoin, ApplyOne, LeafSteps
<1>8. ChainTypes' /\ IndexInv' /\ UndoInv' /\ PhaseInv'
  BY <1>1, <1>2, <1>5, <1>6, <1>7 DEF ChainInv, ChainTypes, IndexInv, UndoInv, PhaseInv, Phases
<1>9. /\ Forward(chainBest)'
      /\ (ToSet(todo) \subseteq TxsOf(chainBest))'
      /\ Advance(coins, chainBest, ToSet(todo))'
      /\ LeavesOn(leaves, chainBest, ToSet(todo))'
  <2>1. Forward(chainBest)'
    BY <1>2, <1>3, <1>6 DEF Forward
  <2>2. chainBest' = chainBest /\ ToSet(todo)' = D
    BY <1>2, <1>5a, <1>6
  <2> QED BY <1>3, <1>5, <1>5a, <1>7, <2>1, <2>2
<1>10. StepInv'
  BY <1>1, <1>2, <1>3, <1>9 DEF StepInv, RestInv, Resting, FlushInv, BootInv,
     GenesisInv, ReplayInv, BranchInv, ConnectInv, UndoneInv, ScratchInv
<1> QED BY <1>8, <1>10 DEF ChainInv

LEMMA ReapplyDoneKeeps ==
    ASSUME ChainInv, ReapplyDone
    PROVE  ChainInv'
<1>1. /\ pc = "reapply" /\ op = "replay" /\ todo = <<>>
      /\ pc' = "rollback" /\ op' = "replay"
  BY DEF ChainInv, PhaseInv, Phases, ReapplyDone, Goto
<1>2. UNCHANGED <<mode, coins, leaves, best, dCoins, dLeaves, dBest, dHeads>>
  BY DEF ReapplyDone, storeVars
<1>3. UNCHANGED <<index, undo, chainBest, mBestChain, back, todo, applied, spent>>
  BY DEF ReapplyDone, chainDisk, tipVars, txVars
<1>4. /\ mBestChain = chainBest /\ chainBest \in index /\ back = <<>> /\ branch = <<chainBest>>
      /\ Forward(chainBest)
      /\ Advance(coins, chainBest, {}) /\ LeavesOn(leaves, chainBest, {})
      /\ applied = <<>> /\ spent = NoSpent
  <2>1. ToSet(todo) = {}
    BY <1>1 DEF ToSet
  <2> QED BY <1>1, <2>1 DEF ChainInv, StepInv, ReplayInv, ScratchInv
<1>5. coins = CoinsAt[chainBest] /\ leaves = LeavesAt(chainBest)
  BY <1>4, Ends, LeafEnds DEF ChainInv, ChainTypes
<1>6. branch' = <<>>
  BY <1>4 DEF ReapplyDone
<1>7. ChainTypes' /\ IndexInv' /\ UndoInv' /\ PhaseInv'
  BY <1>1, <1>2, <1>3, <1>6 DEF ChainInv, ChainTypes, IndexInv, UndoInv, PhaseInv, Phases
<1>8. Torn'
  BY <1>2, <1>3, <1>4 DEF Torn, Forward
<1>9. StepInv'
  BY <1>1, <1>2, <1>3, <1>4, <1>5, <1>6, <1>8 DEF StepInv, RestInv, Resting, FlushInv, BootInv,
     GenesisInv, ReplayInv, BranchInv, ConnectInv, UndoneInv, ScratchInv
<1> QED BY <1>7, <1>9 DEF ChainInv

LEMMA ReplayDoneKeeps ==
    ASSUME ChainInv, ReplayDone
    PROVE  ChainInv'
<1>1. /\ pc = "rollback" /\ op = "replay" /\ back = <<>> /\ branch = <<>>
      /\ pc' = "flush" /\ op' = "replay"
  BY DEF ReplayDone, Goto
<1>2. UNCHANGED <<coins, leaves, dCoins, dLeaves, dBest, dHeads>> /\ best' = mBestChain
  BY DEF ReplayDone, SetBest, diskVars
<1>3. UNCHANGED <<index, undo, chainBest, mBestChain, branch, back, todo, applied, spent>>
  BY DEF ReplayDone, chainDisk, tipVars, plan, txVars
<1>4. /\ mBestChain = chainBest /\ chainBest \in index /\ Torn
      /\ coins = CoinsAt[chainBest] /\ leaves = LeavesAt(chainBest)
      /\ applied = <<>> /\ spent = NoSpent
  BY <1>1 DEF ChainInv, StepInv, ReplayInv, ScratchInv
<1>5. ChainTypes' /\ IndexInv' /\ UndoInv' /\ PhaseInv'
  BY <1>1, <1>2, <1>3 DEF ChainInv, ChainTypes, IndexInv, UndoInv, PhaseInv, Phases
<1>6. AtTip' /\ Torn'
  BY <1>2, <1>3, <1>4 DEF AtTip, Torn, Forward, Backward, DiskSource
<1>7. StepInv'
  BY <1>1, <1>3, <1>4, <1>6 DEF StepInv, RestInv, Resting, FlushInv, BootInv,
     GenesisInv, ReplayInv, BranchInv, ConnectInv, UndoneInv, ScratchInv
<1> QED BY <1>5, <1>7 DEF ChainInv

LEMMA UndoTxKeeps ==
    ASSUME ChainInv, UndoTx
    PROVE  ChainInv'
<1>1. pc = "undo" /\ op \in {"undo", "replay"} /\ pc' = "undo" /\ op' = op /\ todo # <<>>
  BY DEF ChainInv, PhaseInv, Phases, UndoTx
<1>2. UNCHANGED <<index, undo, chainBest, mBestChain, fork, branch, back, failed, applied, spent>>
  BY DEF UndoTx, chainDisk, tipVars, plan
<1>3. PICK b \in Hash : b = IF op = "undo" THEN chainBest ELSE DiskSource
  BY <1>1 DEF ChainInv, StepInv, ReplayInv, UndoneInv, Backward, ChainTypes
<1>4. /\ undo[b] # NoKey /\ spent = undo[b] /\ Between(dCoins, b)
      /\ ToSet(todo) \subseteq TxsOf(b)
      /\ Retreat(coins, b, ToSet(todo)) /\ LeavesBack(leaves, b, ToSet(todo))
      /\ applied = <<>>
  BY <1>1, <1>3 DEF ChainInv, StepInv, ReplayInv, UndoneInv, ScratchInv, Backward
<1>5. /\ spent = Taken(b, TxsOf(b)) /\ (\A t \in TxsOf(b) : FreshTx(t, b))
      /\ coins \in View /\ dCoins \in View /\ todo \in Seq(Tx)
  BY <1>4 DEF ChainInv, UndoInv, ChainTypes
<1>6. PICK t \in TxsOf(b) :
          /\ t = Last(todo) /\ ToSet(todo) = ToSet(Front(todo)) \cup {t}
          /\ Front(todo) \in Seq(Tx)
  BY <1>1, <1>4, <1>5, SeqSets
<1>6a. PICK D : D = ToSet(Front(todo))
  OBVIOUS
<1>7. DOMAIN SpentBy(t) = Ins[t] /\ \A o \in Ins[t] : SpentBy(t)[o] = Pre(b)[o]
  BY <1>5 DEF SpentBy, Taken
<1>8. /\ coins' = Restored(Without(coins, Outs[t]), SpentBy(t)) /\ leaves' = leaves \ Lvs[t]
      /\ dCoins' = Without(dCoins, Outs[t])
      /\ UNCHANGED <<mode, best, dLeaves, dBest, dHeads>>
      /\ todo' = Front(todo)
  BY <1>6 DEF UndoTx, Undo
<1>9. /\ coins' \in View /\ Retreat(coins', b, D) /\ LeavesBack(leaves', b, D)
      /\ dCoins' \in View /\ Between(dCoins', b)
  <2>1. PICK sp : sp = SpentBy(t)
    OBVIOUS
  <2>2. FreshTx(t, b)
    BY <1>5
  <2>3. coins' \in View /\ Retreat(coins', b, D)
    BY <1>4, <1>5, <1>6, <1>6a, <1>7, <1>8, <2>1, <2>2, UndoOne
  <2>4. LeavesBack(leaves', b, D)
    BY <1>4, <1>6, <1>6a, <1>8, <2>2, LeafSteps
  <2>5. dCoins' \in View /\ Between(dCoins', b)
    BY <1>4, <1>5, <1>8, <2>2, EraseOne
  <2> QED BY <2>3, <2>4, <2>5
<1>10. ChainTypes' /\ IndexInv' /\ UndoInv' /\ PhaseInv'
  BY <1>1, <1>2, <1>6, <1>8, <1>9 DEF ChainInv, ChainTypes, IndexInv, UndoInv, PhaseInv, Phases
<1>11. ToSet(todo)' = D /\ DiskSource' = DiskSource
  BY <1>6a, <1>8 DEF DiskSource
<1>12. CASE op = "undo"
  <2>1. /\ mBestChain = chainBest /\ best = chainBest /\ chainBest \in index \ {Genesis}
        /\ dHeads = NoKey /\ dBest = chainBest /\ dLeaves = LeavesAt(chainBest)
        /\ ~failed => Path(fork)
    BY <1>1, <1>12 DEF ChainInv, StepInv, UndoneInv, BranchInv
  <2>2. b = chainBest /\ chainBest' = chainBest
    BY <1>2, <1>3, <1>12
  <2>3. /\ Between(dCoins, chainBest)'
        /\ (ToSet(todo) \subseteq TxsOf(chainBest))'
        /\ Retreat(coins, chainBest, ToSet(todo))'
        /\ LeavesBack(leaves, chainBest, ToSet(todo))'
    BY <1>4, <1>6, <1>6a, <1>9, <1>11, <2>2
  <2>4. UndoneInv'
    BY <1>1, <1>2, <1>4, <1>8, <2>1, <2>2, <2>3 DEF UndoneInv
  <2>5. ~failed' => Path(fork)'
    BY <1>2, <2>1 DEF Path
  <2>6. StepInv'
    BY <1>1, <1>2, <1>4, <1>12, <2>4, <2>5 DEF StepInv, RestInv, Resting, FlushInv, BootInv,
       GenesisInv, ReplayInv, BranchInv, ConnectInv, ScratchInv
  <2> QED BY <1>10, <2>6 DEF ChainInv
<1>13. CASE op = "replay"
  <2>1. /\ mBestChain = chainBest /\ chainBest \in index /\ back = <<>> /\ branch = <<>>
        /\ Backward(DiskSource)
    BY <1>1, <1>13 DEF ChainInv, StepInv, ReplayInv
  <2>2. b = DiskSource
    BY <1>3, <1>13
  <2>3. Backward(DiskSource)'
    BY <1>2, <1>8, <1>9, <1>11, <2>1, <2>2 DEF Backward
  <2>4. /\ (spent = undo[DiskSource])'
        /\ (ToSet(todo) \subseteq TxsOf(DiskSource))'
        /\ Retreat(coins, DiskSource, ToSet(todo))'
        /\ LeavesBack(leaves, DiskSource, ToSet(todo))'
    BY <1>2, <1>4, <1>6, <1>6a, <1>9, <1>11, <2>2
  <2>5. StepInv'
    BY <1>1, <1>2, <1>4, <1>13, <2>1, <2>3, <2>4 DEF StepInv, RestInv, Resting, FlushInv, BootInv,
       GenesisInv, ReplayInv, BranchInv, ConnectInv, UndoneInv, ScratchInv
  <2> QED BY <1>10, <2>5 DEF ChainInv
<1> QED BY <1>1, <1>12, <1>13

LEMMA ReplayUndoneKeeps ==
    ASSUME ChainInv, ReplayUndone
    PROVE  ChainInv'
<1>1. pc = "undo" /\ op = "replay" /\ todo = <<>> /\ pc' = "rollback" /\ op' = "replay"
  BY DEF ReplayUndone, Goto
<1>2. UNCHANGED <<mode, coins, leaves, best, dCoins, dLeaves, dBest, dHeads>>
  BY DEF ReplayUndone, storeVars
<1>3. /\ UNCHANGED <<index, undo, chainBest, mBestChain, branch, back, todo, applied>>
      /\ spent' = NoSpent
  BY DEF ReplayUndone, chainDisk, tipVars, plan
<1>4. /\ mBestChain = chainBest /\ chainBest \in index /\ back = <<>> /\ branch = <<>>
      /\ Backward(DiskSource)
      /\ Retreat(coins, DiskSource, {}) /\ LeavesBack(leaves, DiskSource, {})
      /\ applied = <<>> /\ coins \in View
  <2>1. ToSet(todo) = {}
    BY <1>1 DEF ToSet
  <2> QED BY <1>1, <2>1 DEF ChainInv, StepInv, ReplayInv, ScratchInv, ChainTypes
<1>5. coins = CoinsAt[chainBest] /\ leaves = LeavesAt(chainBest)
  <2>1. PICK S \in Hash \ {Genesis} : S = DiskSource /\ chainBest = Parent[S]
    BY <1>4 DEF Backward
  <2>2. coins = Pre(S) /\ leaves = PreL(S)
    BY <1>4, <2>1, Ends, LeafEnds
  <2> QED BY <2>1, <2>2 DEF Pre, PreL
<1>6. ChainTypes' /\ IndexInv' /\ UndoInv' /\ PhaseInv'
  BY <1>1, <1>2, <1>3 DEF ChainInv, ChainTypes, IndexInv, UndoInv, PhaseInv, Phases
<1>7. Torn'
  BY <1>2, <1>3, <1>4 DEF Torn, Backward, DiskSource
<1>8. StepInv'
  BY <1>1, <1>2, <1>3, <1>4, <1>5, <1>7 DEF StepInv, RestInv, Resting, FlushInv, BootInv,
     GenesisInv, ReplayInv, BranchInv, ConnectInv, UndoneInv, ScratchInv
<1> QED BY <1>6, <1>8 DEF ChainInv

LEMMA TipBackKeeps ==
    ASSUME ChainInv, TipBack
    PROVE  ChainInv'
<1>1. pc = "undo" /\ op = "undo" /\ todo = <<>> /\ pc' = "flush" /\ op' = "disconnect"
  BY DEF TipBack, Goto
<1>2. /\ mBestChain = chainBest /\ best = chainBest /\ chainBest \in index \ {Genesis}
      /\ undo[chainBest] # NoKey
      /\ dHeads = NoKey /\ dBest = chainBest
      /\ Between(dCoins, chainBest) /\ dLeaves = LeavesAt(chainBest)
      /\ Retreat(coins, chainBest, {}) /\ LeavesBack(leaves, chainBest, {})
      /\ applied = <<>> /\ coins \in View
      /\ ~failed => Path(fork)
  <2>1. ToSet(todo) = {}
    BY <1>1 DEF ToSet
  <2> QED BY <1>1, <2>1 DEF ChainInv, StepInv, UndoneInv, ScratchInv, BranchInv, ChainTypes
<1>3. PICK b \in Hash \ {Genesis} : b = chainBest
  BY <1>2 DEF ChainInv, ChainTypes
<1>4. UNCHANGED <<coins, leaves, dCoins, dLeaves, dBest, dHeads>> /\ best' = Parent[b]
  BY <1>2, <1>3 DEF TipBack, SetBest, diskVars
<1>5. /\ UNCHANGED <<index, undo, fork, branch, back, failed, applied>>
      /\ chainBest' = Parent[b] /\ mBestChain' = Parent[b]
      /\ todo' = BlockTxs[b] /\ spent' = NoSpent
  BY <1>2, <1>3 DEF TipBack, plan
<1>6. coins = CoinsAt[Parent[b]] /\ leaves = LeavesAt(Parent[b])
  <2>1. coins = Pre(b) /\ leaves = PreL(b)
    BY <1>2, <1>3, Ends, LeafEnds
  <2> QED BY <2>1 DEF Pre, PreL
<1>7. Parent[b] \in index /\ Parent[b] \in Hash /\ todo' \in Seq(Tx)
  BY <1>2, <1>3, <1>5, TxFacts DEF ChainInv, IndexInv, ChainTypes
<1>8. ChainTypes' /\ IndexInv' /\ UndoInv' /\ PhaseInv'
  BY <1>1, <1>4, <1>5, <1>7 DEF ChainInv, ChainTypes, IndexInv, UndoInv, PhaseInv, Phases
<1>9. AtTip'
  BY <1>4, <1>5, <1>6, <1>7 DEF AtTip
<1>10. Torn'
  <2>1. DiskSource' = b
    BY <1>2, <1>3, <1>4 DEF DiskSource
  <2>2. Backward(DiskSource)'
    BY <1>2, <1>3, <1>4, <1>5, <2>1 DEF Backward
  <2> QED BY <2>2 DEF Torn
<1>11. ~failed' => Path(fork)'
  BY <1>2, <1>5 DEF Path
<1>12. StepInv'
  BY <1>1, <1>2, <1>5, <1>9, <1>10, <1>11 DEF StepInv, RestInv, Resting, FlushInv, BootInv,
     GenesisInv, ReplayInv, BranchInv, ConnectInv, UndoneInv, ScratchInv
<1> QED BY <1>8, <1>12 DEF ChainInv

LEMMA ApplyTxKeeps ==
    ASSUME ChainInv, ApplyTx
    PROVE  ChainInv'
<1>1. pc = "apply" /\ op \in {"genesis", "connect"} /\ pc' = "apply" /\ op' = op /\ todo # <<>>
  BY DEF ChainInv, PhaseInv, Phases, ApplyTx
<1>2. UNCHANGED <<index, undo, chainBest, mBestChain, branch, back>>
  BY DEF ApplyTx, chainDisk, tipVars, plan
<1>3. todo \in Seq(Tx) /\ applied \in Seq(Tx) /\ coins \in View
  BY DEF ChainInv, ChainTypes
<1>4. /\ Head(todo) \in ToSet(todo) /\ Head(todo) \in Tx /\ Tail(todo) \in Seq(Tx)
      /\ ToSet(todo) = ToSet(Tail(todo)) \cup {Head(todo)}
  <2>1. Head(todo) \in ToSet(todo) /\ ToSet(todo) \subseteq Tx
    BY <1>1, <1>3, SeqSets
  <2>2. Tail(todo) \in Seq(Tx)
    BY <1>1, <1>3, SeqSets
  <2>3. ToSet(todo) = ToSet(Tail(todo)) \cup {Head(todo)}
    BY <1>1, <1>3, SeqSets
  <2> QED BY <2>1, <2>2, <2>3
<1>5. PICK t \in Tx : t = Head(todo)
  BY <1>4
<1>6. PICK D, E : D = ToSet(Tail(todo)) /\ E = ToSet(applied)
  OBVIOUS
<1>7. /\ coins' = AppliedTo(coins, t, ApplyHeight) /\ leaves' = leaves \cup Lvs[t]
      /\ UNCHANGED <<mode, best, dCoins, dLeaves, dBest, dHeads>>
      /\ \A o \in Ins[t] : coins[o] # NoCoin
      /\ t \notin Coinbase => Lvs[t] # {} /\ Lvs[t] \cap leaves = {}
      /\ todo' = Tail(todo) /\ applied' = Append(applied, t)
      /\ spent' = [o \in DOMAIN spent \cup Ins[t] |-> IF o \in Ins[t] THEN coins[o] ELSE spent[o]]
  BY <1>5 DEF ApplyTx, Apply, CanApply, diskVars
<1>8. todo' \in Seq(Tx) /\ applied' \in Seq(Tx) /\ ToSet(todo)' = D /\ ToSet(applied)' = E \cup {t}
  <2>1. Append(applied, t) \in Seq(Tx) /\ ToSet(Append(applied, t)) = ToSet(applied) \cup {t}
    BY <1>3, SeqSets
  <2> QED BY <1>4, <1>6, <1>7, <2>1
<1>9. CASE op = "genesis"
  <2>1. /\ Empty /\ Advance(coins, Genesis, D \cup {t}) /\ LeavesOn(leaves, Genesis, D \cup {t})
        /\ D \cup {t} \subseteq TxsOf(Genesis)
    BY <1>1, <1>4, <1>5, <1>6, <1>9 DEF ChainInv, StepInv, GenesisInv
  <2>2. coins' = AppliedTo(coins, t, Height[Genesis])
    BY <1>7, <1>9, GenesisFacts DEF ApplyHeight
  <2>3. coins' \in View /\ Advance(coins', Genesis, D) /\ LeavesOn(leaves', Genesis, D)
    <3>1. t \in TxsOf(Genesis) /\ Genesis \in Hash /\ Flat(Genesis)
      BY <2>1, GenesisFacts
    <3>2. coins' \in View
      BY <1>3, <2>2, <3>1, AppliedCoin
    <3>3. Advance(coins', Genesis, D)
      BY <1>3, <2>1, <2>2, <3>1, ApplyOne
    <3>4. LeavesOn(leaves', Genesis, D)
      BY <1>7, <2>1, <3>1, LeafSteps
    <3> QED BY <3>2, <3>3, <3>4
  <2>4. ChainTypes' /\ IndexInv' /\ UndoInv' /\ PhaseInv'
    BY <1>1, <1>2, <1>7, <1>8, <2>3 DEF ChainInv, ChainTypes, IndexInv, UndoInv, PhaseInv, Phases
  <2>5. /\ Empty'
        /\ Advance(coins, Genesis, ToSet(todo))'
        /\ LeavesOn(leaves, Genesis, ToSet(todo))'
        /\ (ToSet(todo) \subseteq TxsOf(Genesis))'
    <3>1. Empty'
      BY <1>2, <1>7, <2>1 DEF Empty
    <3> QED BY <1>8, <2>1, <2>3, <3>1
  <2>6. StepInv'
    BY <1>1, <1>9, <2>5 DEF StepInv, RestInv, Resting, FlushInv, BootInv,
       GenesisInv, ReplayInv, BranchInv, ConnectInv, UndoneInv, ScratchInv
  <2> QED BY <2>4, <2>6 DEF ChainInv
<1>10. CASE op = "connect"
  <2>1. /\ mBestChain = chainBest /\ best = chainBest /\ chainBest \in index
        /\ Committed(chainBest) /\ Path(chainBest)
    BY <1>1, <1>10 DEF ChainInv, StepInv, ConnectInv, BranchInv
  <2>2. PICK h \in Hash : /\ h = Head(branch) /\ Flat(h) /\ h # Genesis /\ Parent[h] = chainBest
    BY <2>1, NextBlock
  <2>3. /\ TxsOf(h) = E \cup (D \cup {t})
        /\ Retreat(coins, h, E) /\ Advance(coins, h, D \cup {t})
        /\ LeavesBack(leaves, h, E) /\ LeavesOn(leaves, h, D \cup {t})
        /\ \A u \in E : FreshTx(u, h)
        /\ spent = Taken(h, E)
    BY <1>1, <1>4, <1>5, <1>6, <1>10, <2>2 DEF ChainInv, StepInv, ConnectInv
  <2>4. coins' = AppliedTo(coins, t, Height[h])
    BY <1>7, <1>10, <2>1, <2>2, TreeFacts DEF ApplyHeight
  <2>5. t \in TxsOf(h)
    BY <2>3
  <2>6. FreshTx(t, h)
    BY <1>7, <2>3, <2>5, AppliedIsFresh DEF LeavesBack
  <2>7. coins' \in View
    BY <1>3, <2>2, <2>4, <2>5, AppliedCoin
  <2>8. Advance(coins', h, D) /\ Retreat(coins', h, E \cup {t})
    BY <1>3, <2>2, <2>3, <2>4, <2>5, ApplyOne
  <2>9. LeavesOn(leaves', h, D) /\ LeavesBack(leaves', h, E \cup {t})
    BY <1>7, <2>3, <2>5, LeafSteps
  <2>10. ASSUME NEW o \in Ins[t] PROVE coins[o] = Pre(h)[o]
    <3>1. o \in Outpoint /\ coins[o] # NoCoin
      BY <1>7, <2>5, TxFacts
    <3>2. CoinsAt[h][o] = NoCoin
      BY <2>2, <2>5, <3>1, TouchedAfter
    <3> QED BY <2>3, <3>1, <3>2 DEF Retreat
  <2>11. spent' = Taken(h, E \cup {t})
    <3>1. DOMAIN spent = UNION {Ins[u] : u \in E} /\ \A o \in DOMAIN spent : spent[o] = Pre(h)[o]
      BY <2>3 DEF Taken
    <3>2. DOMAIN spent \cup Ins[t] = UNION {Ins[u] : u \in E \cup {t}}
      BY <3>1
    <3>3. \A o \in DOMAIN spent \cup Ins[t] :
              (IF o \in Ins[t] THEN coins[o] ELSE spent[o]) = Pre(h)[o]
      BY <2>10, <3>1
    <3> QED BY <1>7, <3>2, <3>3 DEF Taken
  <2>12. ChainTypes' /\ IndexInv' /\ UndoInv' /\ PhaseInv'
    BY <1>1, <1>2, <1>7, <1>8, <2>7 DEF ChainInv, ChainTypes, IndexInv, UndoInv, PhaseInv, Phases
  <2>13. Committed(chainBest)' /\ Path(chainBest)' /\ Head(branch)' = h
    BY <1>2, <1>7, <2>1, <2>2 DEF Committed, Path
  <2>14. /\ (TxsOf(Head(branch)) = ToSet(applied) \cup ToSet(todo))'
         /\ Retreat(coins, Head(branch), ToSet(applied))'
         /\ Advance(coins, Head(branch), ToSet(todo))'
         /\ LeavesBack(leaves, Head(branch), ToSet(applied))'
         /\ LeavesOn(leaves, Head(branch), ToSet(todo))'
         /\ (\A u \in ToSet(applied) : FreshTx(u, Head(branch)))'
         /\ (spent = Taken(Head(branch), ToSet(applied)))'
    BY <1>8, <2>3, <2>6, <2>8, <2>9, <2>11, <2>13
  <2>15. ConnectInv'
    BY <1>1, <1>2, <1>7, <1>10, <2>1, <2>13, <2>14 DEF ConnectInv
  <2>16. StepInv'
    BY <1>1, <1>10, <2>13, <2>15 DEF StepInv, RestInv, Resting, FlushInv, BootInv,
       GenesisInv, ReplayInv, BranchInv, UndoneInv, ScratchInv
  <2> QED BY <2>12, <2>16 DEF ChainInv
<1> QED BY <1>1, <1>9, <1>10

LEMMA UnapplyKeeps ==
    ASSUME ChainInv, Unapply
    PROVE  ChainInv'
<1>1. pc = "unapply" /\ op = "connect" /\ pc' = "unapply" /\ op' = "connect" /\ applied # <<>>
  BY DEF ChainInv, PhaseInv, Phases, Unapply
<1>2. UNCHANGED <<index, undo, chainBest, mBestChain, branch, back, todo, spent>>
  BY DEF Unapply, chainDisk, tipVars, plan
<1>3. /\ mBestChain = chainBest /\ best = chainBest /\ chainBest \in index
      /\ Committed(chainBest) /\ Path(chainBest)
      /\ applied \in Seq(Tx) /\ coins \in View /\ dCoins \in View
  BY <1>1 DEF ChainInv, StepInv, ConnectInv, BranchInv, ChainTypes
<1>4. PICK h \in Hash : h = Head(branch) /\ Pre(h) = CoinsAt[chainBest]
  BY <1>3, NextBlock
<1>5. /\ Retreat(coins, h, ToSet(applied)) /\ LeavesBack(leaves, h, ToSet(applied))
      /\ \A u \in ToSet(applied) : /\ u \in TxsOf(h) /\ FreshTx(u, h)
                                   /\ \A o \in Ins[u] : spent[o] = Pre(h)[o]
  BY <1>1, <1>4 DEF ChainInv, StepInv, ConnectInv
<1>6. /\ Last(applied) \in ToSet(applied) /\ Front(applied) \in Seq(Tx)
      /\ ToSet(applied) = ToSet(Front(applied)) \cup {Last(applied)}
  BY <1>1, <1>3, SeqSets
<1>7. PICK t \in TxsOf(h) : t = Last(applied) /\ FreshTx(t, h) /\ \A o \in Ins[t] : spent[o] = Pre(h)[o]
  BY <1>5, <1>6
<1>8. PICK E : E = ToSet(Front(applied)) /\ ToSet(applied) = E \cup {t}
  BY <1>6, <1>7
<1>9. /\ coins' = Restored(Without(coins, Outs[t]), SpentBy(t)) /\ leaves' = leaves \ Lvs[t]
      /\ dCoins' = Without(dCoins, Outs[t])
      /\ UNCHANGED <<mode, best, dLeaves, dBest, dHeads>>
      /\ applied' = Front(applied)
  BY <1>7 DEF Unapply, Undo
<1>10. coins' \in View /\ Retreat(coins', h, E)
  <2>1. PICK sp : sp = SpentBy(t)
    OBVIOUS
  <2>2. DOMAIN sp = Ins[t] /\ \A o \in Ins[t] : sp[o] = Pre(h)[o]
    BY <1>7, <2>1 DEF SpentBy
  <2> QED BY <1>3, <1>5, <1>7, <1>8, <1>9, <2>1, <2>2, UndoOne
<1>11. LeavesBack(leaves', h, E)
  BY <1>5, <1>7, <1>8, <1>9, LeafSteps
<1>12. dCoins' = dCoins
  <2>1. dCoins = Pre(h)
    BY <1>3, <1>4 DEF Committed
  <2> QED BY <1>3, <1>7, <1>9, <2>1, EraseOne
<1>13. ChainTypes' /\ IndexInv' /\ UndoInv' /\ PhaseInv'
  BY <1>1, <1>2, <1>6, <1>9, <1>10, <1>12 DEF ChainInv, ChainTypes, IndexInv, UndoInv, PhaseInv, Phases
<1>14. Committed(chainBest)' /\ Path(chainBest)' /\ Head(branch)' = h /\ ToSet(applied)' = E
  BY <1>2, <1>3, <1>4, <1>8, <1>9, <1>12 DEF Committed, Path
<1>15. /\ Retreat(coins, Head(branch), ToSet(applied))'
       /\ LeavesBack(leaves, Head(branch), ToSet(applied))'
       /\ (\A u \in ToSet(applied) : /\ u \in TxsOf(Head(branch)) /\ FreshTx(u, Head(branch))
                                     /\ \A o \in Ins[u] : spent[o] = Pre(Head(branch))[o])'
  BY <1>2, <1>5, <1>8, <1>10, <1>11, <1>14
<1>16. ConnectInv'
  BY <1>1, <1>2, <1>3, <1>9, <1>14, <1>15 DEF ConnectInv
<1>17. StepInv'
  BY <1>1, <1>14, <1>16 DEF StepInv, RestInv, Resting, FlushInv, BootInv,
     GenesisInv, ReplayInv, BranchInv, UndoneInv, ScratchInv
<1> QED BY <1>13, <1>17 DEF ChainInv

LEMMA UnappliedKeeps ==
    ASSUME ChainInv, Unapplied
    PROVE  ChainInv'
<1>1. /\ pc = "unapply" /\ op = "connect" /\ pc' = "rollback" /\ op' = "connect"
      /\ applied = <<>> /\ failed' = TRUE
  BY DEF ChainInv, PhaseInv, Phases, Unapplied, Goto
<1>2. UNCHANGED <<mode, coins, leaves, best, dCoins, dLeaves, dBest, dHeads>>
  BY DEF Unapplied, storeVars
<1>3. /\ UNCHANGED <<index, undo, chainBest, mBestChain, branch, back, applied>>
      /\ todo' = <<>> /\ spent' = NoSpent
  BY DEF Unapplied, chainDisk, tipVars
<1>4. /\ mBestChain = chainBest /\ best = chainBest /\ chainBest \in index
      /\ Committed(chainBest) /\ Path(chainBest) /\ coins \in View
  BY <1>1 DEF ChainInv, StepInv, ConnectInv, BranchInv, ChainTypes
<1>5. PICK h \in Hash : /\ h = Head(branch) /\ Pre(h) = CoinsAt[chainBest]
                        /\ PreL(h) = LeavesAt(chainBest)
  BY <1>4, NextBlock
<1>6. Retreat(coins, h, {}) /\ LeavesBack(leaves, h, {})
  <2>1. ToSet(applied) = {}
    BY <1>1 DEF ToSet
  <2> QED BY <1>1, <1>5, <2>1 DEF ChainInv, StepInv, ConnectInv
<1>7. coins = CoinsAt[chainBest] /\ leaves = LeavesAt(chainBest)
  BY <1>4, <1>5, <1>6, Ends, LeafEnds
<1>8. ChainTypes' /\ IndexInv' /\ UndoInv' /\ PhaseInv'
  BY <1>1, <1>2, <1>3 DEF ChainInv, ChainTypes, IndexInv, UndoInv, PhaseInv, Phases
<1>9. AtTip' /\ Committed(chainBest)'
  BY <1>2, <1>3, <1>4, <1>7 DEF AtTip, Committed
<1>10. StepInv'
  BY <1>1, <1>3, <1>9 DEF StepInv, RestInv, Resting, FlushInv, BootInv,
     GenesisInv, ReplayInv, BranchInv, ConnectInv, UndoneInv, ScratchInv
<1> QED BY <1>8, <1>10 DEF ChainInv

LEMMA RecordBlockKeeps ==
    ASSUME ChainInv, RecordBlock
    PROVE  ChainInv'
<1>1. pc = "apply" /\ op = "connect" /\ todo = <<>> /\ pc' = "tip" /\ op' = "connect"
  BY DEF RecordBlock, Goto
<1>2. UNCHANGED <<mode, coins, leaves, best, dCoins, dLeaves, dBest, dHeads>>
  BY DEF RecordBlock, storeVars
<1>3. /\ mBestChain = chainBest /\ best = chainBest /\ chainBest \in index
      /\ Committed(chainBest) /\ Path(chainBest) /\ coins \in View
  BY <1>1 DEF ChainInv, StepInv, ConnectInv, BranchInv, ChainTypes
<1>4. PICK h \in Hash : h = Head(branch) /\ h \in index \ {Genesis}
  BY <1>3, NextBlock
<1>5. /\ UNCHANGED <<index, chainBest, mBestChain, branch, back, todo>>
      /\ undo' = [undo EXCEPT ![h] = spent]
      /\ applied' = <<>> /\ spent' = NoSpent
  BY <1>4 DEF RecordBlock, tipVars, plan
<1>6. /\ Advance(coins, h, {}) /\ LeavesOn(leaves, h, {})
      /\ \A t \in TxsOf(h) : FreshTx(t, h)
      /\ spent = Taken(h, TxsOf(h))
  <2>1. ToSet(todo) = {}
    BY <1>1 DEF ToSet
  <2> QED BY <1>1, <1>4, <2>1 DEF ChainInv, StepInv, ConnectInv
<1>7. coins = CoinsAt[h] /\ leaves = LeavesAt(h)
  BY <1>3, <1>6, Ends, LeafEnds
<1>8. spent # NoKey
  <2>1. Taken(h, TxsOf(h)) \in [Consumes(h) -> Coin \cup {NoCoin}]
    BY TxFacts, PreType DEF Taken, Consumes, View
  <2> QED BY <1>6, <2>1, OriginAssumption
<1>9. undo' = [b \in Hash |-> IF b = h THEN spent ELSE undo[b]]
  BY <1>5 DEF ChainInv, ChainTypes
<1>10. UndoInv'
  BY <1>4, <1>5, <1>6, <1>9 DEF ChainInv, UndoInv
<1>11. ChainTypes' /\ IndexInv' /\ PhaseInv'
  BY <1>1, <1>2, <1>5, <1>9 DEF ChainInv, ChainTypes, IndexInv, PhaseInv, Phases
<1>12. Committed(chainBest)' /\ Path(chainBest)'
  BY <1>2, <1>3, <1>5 DEF Committed, Path
<1>13. ConnectInv'
  BY <1>1, <1>2, <1>3, <1>4, <1>5, <1>7, <1>8, <1>9, <1>12 DEF ConnectInv
<1>14. StepInv'
  BY <1>1, <1>5, <1>12, <1>13 DEF StepInv, RestInv, Resting, FlushInv, BootInv,
     GenesisInv, ReplayInv, BranchInv, UndoneInv, ScratchInv
<1> QED BY <1>10, <1>11, <1>14 DEF ChainInv

LEMMA TipForwardKeeps ==
    ASSUME ChainInv, TipForward
    PROVE  ChainInv'
<1>1. pc = "tip" /\ op = "connect" /\ pc' = "flush" /\ op' = "connect"
  BY DEF TipForward, Goto
<1>2. /\ mBestChain = chainBest /\ best = chainBest /\ chainBest \in index
      /\ Committed(chainBest) /\ Path(chainBest)
      /\ applied = <<>> /\ spent = NoSpent
      /\ coins = CoinsAt[Head(branch)] /\ leaves = LeavesAt(Head(branch))
  BY <1>1 DEF ChainInv, StepInv, ConnectInv, BranchInv, ScratchInv
<1>3. PICK h \in Hash : /\ h = Head(branch) /\ h \in index \ {Genesis} /\ Parent[h] = chainBest
                        /\ Pre(h) = CoinsAt[chainBest] /\ PreL(h) = LeavesAt(chainBest)
  BY <1>2, NextBlock
<1>4. UNCHANGED <<coins, leaves, dCoins, dLeaves, dBest, dHeads>> /\ best' = h
  BY <1>3 DEF TipForward, MoveTip, SetBest, diskVars
<1>5. /\ UNCHANGED <<index, undo, branch, back, todo, applied, spent>>
      /\ chainBest' = h /\ mBestChain' = h
  BY <1>3 DEF TipForward, MoveTip, plan, txVars
<1>6. ChainTypes' /\ IndexInv' /\ UndoInv' /\ PhaseInv'
  BY <1>1, <1>4, <1>5 DEF ChainInv, ChainTypes, IndexInv, UndoInv, PhaseInv, Phases
<1>7. AtTip'
  BY <1>2, <1>3, <1>4, <1>5 DEF AtTip
<1>8. Torn'
  <2>1. dCoins = Pre(h) /\ dLeaves = PreL(h) /\ dHeads = NoKey /\ dBest = Parent[h]
    BY <1>2, <1>3 DEF Committed
  <2>2. Between(dCoins, h)
    BY <2>1, PreType, Ends
  <2>3. Forward(chainBest)'
    BY <1>3, <1>4, <1>5, <2>1, <2>2 DEF Forward
  <2> QED BY <2>3 DEF Torn
<1>9. Path(Parent[chainBest])' /\ Head(branch)' = chainBest'
  BY <1>2, <1>3, <1>5 DEF Path
<1>10. StepInv'
  BY <1>1, <1>2, <1>5, <1>7, <1>8, <1>9 DEF StepInv, RestInv, Resting, FlushInv, BootInv,
     GenesisInv, ReplayInv, BranchInv, ConnectInv, UndoneInv, ScratchInv
<1> QED BY <1>6, <1>10 DEF ChainInv

\* While a commit is written the disk keeps its two blocks.
LEMMA TornBatch ==
    ASSUME NEW S, AtTip, Torn, coins \in View, dCoins \in View, chainBest \in Hash,
           dCoins' = Patch(dCoins, coins, S),
           UNCHANGED <<dLeaves, dBest, dHeads, chainBest, undo>>
    PROVE  Torn'
<1>1. \A o \in Outpoint : dCoins'[o] = IF o \in S THEN CoinsAt[chainBest][o] ELSE dCoins[o]
  BY DEF Patch, AtTip
<1>2. CASE Forward(chainBest)
  <2>1. Between(dCoins', chainBest)
    BY <1>1, <1>2 DEF Forward, Between
  <2>2. Forward(chainBest)'
    BY <1>2, <2>1 DEF Forward
  <2> QED BY <2>2 DEF Torn
<1>3. CASE Backward(DiskSource)
  <2>1. PICK b \in Hash \ {Genesis} : b = DiskSource /\ chainBest = Parent[b]
    BY <1>3 DEF Backward
  <2>2. Pre(b) = CoinsAt[chainBest]
    BY <2>1 DEF Pre
  <2>3. Between(dCoins', b)
    BY <1>1, <1>3, <2>1, <2>2 DEF Backward, Between
  <2>4. DiskSource' = b
    BY <2>1 DEF DiskSource
  <2>5. Backward(DiskSource)'
    BY <1>3, <2>1, <2>3, <2>4 DEF Backward
  <2> QED BY <2>5 DEF Torn
<1> QED BY <1>2, <1>3 DEF Torn

\* The marker of a commit keeps the block an earlier, interrupted one started from.
LEMMA TornMarker ==
    ASSUME AtTip, Torn, chainBest \in Hash,
           dBest' = NoKey, dHeads' = <<best, OldTip>>,
           UNCHANGED <<dCoins, dLeaves, chainBest, undo>>
    PROVE  Torn'
<1>1. best = chainBest /\ NoKey \notin Hash /\ Zero # NoKey
  BY AbsenceAssumption DEF AtTip
<1>2. CASE Forward(chainBest)
  <2>1. OldTip = IF chainBest = Genesis THEN Zero ELSE Parent[chainBest]
    <3>1. DiskSource = (IF chainBest # Genesis THEN Parent[chainBest]
                        ELSE IF dHeads = NoKey THEN NoKey ELSE Zero)
      BY <1>2, SourceOf
    <3>2. dHeads = NoKey \/ dBest = NoKey
      BY <1>2 DEF Forward
    <3>3. OldTip = IF DiskSource = NoKey THEN Zero ELSE DiskSource
      BY <1>1, <3>1, <3>2, TreeFacts DEF OldTip, DiskSource
    <3> QED BY <1>1, <3>1, <3>3, TreeFacts
  <2>2. Forward(chainBest)'
    BY <1>1, <1>2, <2>1 DEF Forward
  <2> QED BY <2>2 DEF Torn
<1>3. CASE Backward(DiskSource)
  <2>1. PICK b \in Hash \ {Genesis} : b = DiskSource /\ chainBest = Parent[b]
    BY <1>3 DEF Backward
  <2>2. dHeads = NoKey \/ dBest = NoKey
    BY <1>3 DEF Backward
  <2>3. OldTip = b
    BY <1>1, <2>1, <2>2 DEF OldTip, DiskSource
  <2>4. Backward(b)'
    BY <1>1, <1>3, <2>1, <2>3 DEF Backward
  <2>5. DiskSource' = b
    <3>1. <<chainBest, b>> \in (Hash \cup {Zero}) \X (Hash \cup {Zero})
      OBVIOUS
    <3>2. dHeads' # NoKey /\ dHeads'[2] = b
      BY <1>1, <2>3, <3>1, AbsenceAssumption
    <3> QED BY <3>2 DEF DiskSource
  <2>6. Backward(DiskSource)'
    BY <2>4, <2>5
  <2> QED BY <2>6 DEF Torn
<1> QED BY <1>2, <1>3 DEF Torn

LEMMA FlushBeginKeeps ==
    ASSUME ChainInv, FlushBegin
    PROVE  ChainInv'
<1>1. /\ pc = "flush" /\ op \in {"genesis", "replay", "connect", "disconnect", "sync", "close"}
      /\ pc' = "flushing" /\ op' = op
  BY DEF ChainInv, PhaseInv, Phases, FlushBegin, Goto
<1>2. /\ dBest' = NoKey /\ dHeads' = <<best, OldTip>>
      /\ op # "close" => mode' = "flushing"
      /\ UNCHANGED <<coins, leaves, best, dCoins, dLeaves>>
  BY DEF FlushBegin, BeginFlush
<1>3. UNCHANGED <<index, undo, chainBest, mBestChain, fork, branch, back, failed, todo, applied, spent>>
  BY DEF FlushBegin, chainDisk, tipVars, plan, txVars
<1>4. AtTip /\ applied = <<>> /\ spent = NoSpent
  BY <1>1 DEF ChainInv, StepInv, FlushInv, ScratchInv
<1>5. chainBest \in Hash /\ chainBest # NoKey
  BY <1>4, AbsenceAssumption DEF AtTip, ChainInv, ChainTypes
<1>6. ChainTypes' /\ IndexInv' /\ UndoInv' /\ PhaseInv'
  BY <1>1, <1>2, <1>3 DEF ChainInv, ChainTypes, IndexInv, UndoInv, PhaseInv, Phases
<1>7. AtTip'
  BY <1>2, <1>3, <1>4 DEF AtTip
<1>8. op \notin {"sync", "close"} => Torn'
  <2>1. op \notin {"sync", "close"} => Torn
    BY <1>1 DEF ChainInv, StepInv, FlushInv
  <2> QED BY <1>2, <1>3, <1>4, <1>5, <2>1, TornMarker
<1>9. op \in {"sync", "close"} =>
          /\ (dHeads = <<chainBest, chainBest>>)'
          /\ (dCoins = coins)' /\ (dLeaves = leaves)'
  <2>1. op \in {"sync", "close"} => Committed(chainBest)
    BY <1>1 DEF ChainInv, StepInv, RestInv, Resting
  <2> QED BY <1>2, <1>3, <1>4, <1>5, <2>1 DEF Committed, AtTip, OldTip
<1>10. FlushInv'
  BY <1>1, <1>2, <1>7, <1>8, <1>9 DEF FlushInv
<1>11. BranchInv'
  <2>1. op = "connect" => Path(Parent[chainBest]) /\ Head(branch) = chainBest
    BY <1>1 DEF ChainInv, StepInv, BranchInv
  <2>2. op = "disconnect" /\ ~failed => Path(fork)
    BY <1>1 DEF ChainInv, StepInv, BranchInv
  <2>3. op = "connect" => Path(Parent[chainBest])' /\ Head(branch)' = chainBest'
    BY <1>3, <2>1 DEF Path
  <2>4. op = "disconnect" /\ ~failed' => Path(fork)'
    BY <1>3, <2>2 DEF Path
  <2> QED BY <1>1, <2>3, <2>4 DEF BranchInv
<1>12. StepInv'
  BY <1>1, <1>3, <1>4, <1>10, <1>11 DEF StepInv, RestInv, Resting, BootInv,
     GenesisInv, ReplayInv, ConnectInv, UndoneInv, ScratchInv
<1> QED BY <1>6, <1>12 DEF ChainInv

LEMMA FlushSomeKeeps ==
    ASSUME ChainInv, FlushSome
    PROVE  ChainInv'
<1>1. /\ pc = "flushing" /\ op \in {"genesis", "replay", "connect", "disconnect", "sync", "close"}
      /\ pc' = pc /\ op' = op
  BY DEF ChainInv, PhaseInv, Phases, FlushSome
<1>2. PICK S : WriteSome(S)
  BY DEF FlushSome
<1>3. /\ dCoins' = Patch(dCoins, coins, S)
      /\ UNCHANGED <<mode, coins, leaves, best, dLeaves, dBest, dHeads>>
  BY <1>2 DEF WriteSome
<1>4. UNCHANGED <<index, undo, chainBest, mBestChain, fork, branch, back, failed, todo, applied, spent>>
  BY DEF FlushSome, chainDisk, tipVars, plan, txVars
<1>5. AtTip /\ applied = <<>> /\ spent = NoSpent
  BY <1>1 DEF ChainInv, StepInv, FlushInv, ScratchInv
<1>6. chainBest \in Hash /\ coins \in View /\ dCoins \in View
  BY <1>5 DEF AtTip, ChainInv, ChainTypes
<1>7. dCoins' \in View /\ (dCoins = coins => dCoins' = coins)
  BY <1>3, <1>6 DEF Patch, View
<1>8. ChainTypes' /\ IndexInv' /\ UndoInv' /\ PhaseInv'
  BY <1>1, <1>3, <1>4, <1>7 DEF ChainInv, ChainTypes, IndexInv, UndoInv, PhaseInv, Phases
<1>9. AtTip'
  BY <1>3, <1>4, <1>5 DEF AtTip
<1>10. op \notin {"sync", "close"} => Torn'
  <2>1. op \notin {"sync", "close"} => Torn
    BY <1>1 DEF ChainInv, StepInv, FlushInv
  <2> QED BY <1>3, <1>4, <1>5, <1>6, <2>1, TornBatch
<1>11. FlushInv'
  <2>1. op \in {"sync", "close"} =>
            /\ dBest = NoKey /\ dHeads = <<chainBest, chainBest>>
            /\ dCoins = coins /\ dLeaves = leaves
    BY <1>1 DEF ChainInv, StepInv, FlushInv
  <2>2. op \in {"sync", "close"} =>
            /\ dBest' = NoKey /\ dHeads' = <<chainBest, chainBest>>'
            /\ dCoins' = coins' /\ dLeaves' = leaves'
    BY <1>3, <1>4, <1>7, <2>1
  <2> QED BY <1>1, <1>9, <1>10, <2>2 DEF FlushInv
<1>12. BranchInv'
  <2>1. op = "connect" => Path(Parent[chainBest]) /\ Head(branch) = chainBest
    BY <1>1 DEF ChainInv, StepInv, BranchInv
  <2>2. op = "disconnect" /\ ~failed => Path(fork)
    BY <1>1 DEF ChainInv, StepInv, BranchInv
  <2>3. op = "connect" => Path(Parent[chainBest])' /\ Head(branch)' = chainBest'
    BY <1>4, <2>1 DEF Path
  <2>4. op = "disconnect" /\ ~failed' => Path(fork)'
    BY <1>4, <2>2 DEF Path
  <2> QED BY <1>1, <2>3, <2>4 DEF BranchInv
<1>13. StepInv'
  BY <1>1, <1>4, <1>5, <1>11, <1>12 DEF StepInv, RestInv, Resting, BootInv,
     GenesisInv, ReplayInv, ConnectInv, UndoneInv, ScratchInv
<1> QED BY <1>8, <1>13 DEF ChainInv

LEMMA FlushEndKeeps ==
    ASSUME ChainInv, FlushEnd
    PROVE  ChainInv'
<1>1. /\ pc = "flushing" /\ mode = "flushing"
      /\ \/ op \in {"connect", "disconnect"} /\ pc' = "flushed" /\ op' = op
         \/ op = "genesis" /\ pc' = "check" /\ op' = "boot"
         \/ op = "replay" /\ pc' = "ready" /\ op' = "boot"
         \/ op = "sync" /\ pc' = "idle" /\ op' = "idle"
  <2>1. pc = "flushing" /\ op # "close"
    BY DEF FlushEnd
  <2>2. mode = "flushing" /\ op # "repair"
    BY <2>1 DEF ChainInv, PhaseInv, Phases
  <2> QED BY <2>1, <2>2 DEF FlushEnd, Goto
<1>2. /\ dCoins' = coins /\ dLeaves' = leaves /\ dBest' = best /\ dHeads' = NoKey
      /\ UNCHANGED <<coins, leaves, best>>
  BY <1>1 DEF FlushEnd, Commit
<1>3. UNCHANGED <<index, undo, chainBest, mBestChain, fork, branch, back, failed, todo, applied, spent>>
  BY DEF FlushEnd, chainDisk, tipVars, plan, txVars
<1>4. AtTip /\ applied = <<>> /\ spent = NoSpent
  BY <1>1 DEF ChainInv, StepInv, FlushInv, ScratchInv
<1>5. chainBest \in Hash /\ chainBest # NoKey
  BY <1>4, AbsenceAssumption DEF AtTip, ChainInv, ChainTypes
<1>6. ChainTypes' /\ IndexInv' /\ UndoInv' /\ PhaseInv'
  BY <1>1, <1>2, <1>3 DEF ChainInv, ChainTypes, IndexInv, UndoInv, PhaseInv, Phases
<1>7. AtTip' /\ Committed(chainBest)'
  BY <1>2, <1>3, <1>4 DEF AtTip, Committed
<1>8. BootInv'
  BY <1>1, <1>2, <1>3, <1>4, <1>5, <1>7 DEF BootInv, AtTip
<1>9. BranchInv'
  <2>1. op = "connect" => Path(Parent[chainBest]) /\ Head(branch) = chainBest
    BY <1>1 DEF ChainInv, StepInv, BranchInv
  <2>2. op = "disconnect" /\ ~failed => Path(fork)
    BY <1>1 DEF ChainInv, StepInv, BranchInv
  <2>3. op = "connect" => Path(Parent[chainBest])' /\ Head(branch)' = chainBest'
    BY <1>3, <2>1 DEF Path
  <2>4. op = "disconnect" /\ ~failed' => Path(fork)'
    BY <1>3, <2>2 DEF Path
  <2> QED BY <1>1, <2>3, <2>4 DEF BranchInv
<1>10. StepInv'
  BY <1>1, <1>3, <1>4, <1>7, <1>8, <1>9 DEF StepInv, RestInv, Resting, FlushInv,
     GenesisInv, ReplayInv, ConnectInv, UndoneInv, ScratchInv
<1> QED BY <1>6, <1>10 DEF ChainInv

LEMMA ClosedKeeps ==
    ASSUME ChainInv, Closed
    PROVE  ChainInv'
<1>1. pc = "flushing" /\ op = "close" /\ pc' = "down" /\ op' = "idle"
  BY DEF Closed, Goto
<1>2. /\ dCoins' = coins /\ dLeaves' = leaves /\ dBest' = best /\ dHeads' = NoKey
      /\ UNCHANGED <<coins, leaves>>
  BY DEF Closed, Commit
<1>3. /\ UNCHANGED <<index, undo, chainBest>>
      /\ mBestChain' = Zero /\ branch' = <<>> /\ back' = <<>> /\ todo' = <<>> /\ applied' = <<>>
      /\ spent' = NoSpent
  BY DEF Closed, Blank, chainDisk
<1>4. AtTip
  BY <1>1 DEF ChainInv, StepInv, FlushInv
<1>5. ChainTypes' /\ IndexInv' /\ UndoInv' /\ PhaseInv'
  BY <1>1, <1>2, <1>3 DEF ChainInv, ChainTypes, IndexInv, UndoInv, PhaseInv, Phases
<1>6. Committed(chainBest)' /\ (chainBest \in index)'
  BY <1>2, <1>3, <1>4 DEF AtTip, Committed
<1>7. StepInv'
  BY <1>1, <1>3, <1>6 DEF StepInv, RestInv, Resting, FlushInv, BootInv,
     GenesisInv, ReplayInv, BranchInv, ConnectInv, UndoneInv, ScratchInv
<1> QED BY <1>5, <1>7 DEF ChainInv

LEMMA CrashKeeps ==
    ASSUME ChainInv, Crash, CrashAt \subseteq Survivable
    PROVE  ChainInv'
<1>1. op \in Survivable /\ pc # "down" /\ pc' = "down" /\ op' = "idle"
  BY DEF Crash, Goto
<1>2. coins' = dCoins /\ UNCHANGED <<dCoins, dLeaves, dBest, dHeads>>
  BY DEF Crash, Die, diskVars
<1>3. /\ UNCHANGED <<index, undo, chainBest>>
      /\ mBestChain' = Zero /\ branch' = <<>> /\ back' = <<>> /\ todo' = <<>> /\ applied' = <<>>
      /\ spent' = NoSpent
  BY DEF Crash, Blank, chainDisk
<1>4. ChainTypes' /\ IndexInv' /\ UndoInv' /\ PhaseInv'
  BY <1>1, <1>2, <1>3 DEF ChainInv, ChainTypes, IndexInv, UndoInv, PhaseInv, Phases
<1>5. Empty \/ (chainBest \in index /\ (Committed(chainBest) \/ Torn))
  <2>1. CASE Resting
    BY <2>1 DEF ChainInv, StepInv, RestInv, AtTip
  <2>2. CASE pc \in {"flush", "flushing"}
    <3>1. op \notin {"sync", "close"}
      BY <1>1 DEF Survivable
    <3> QED BY <2>2, <3>1 DEF ChainInv, StepInv, FlushInv, AtTip
  <2>3. CASE pc = "check"
    BY <2>3 DEF ChainInv, StepInv, BootInv
  <2>4. CASE op = "genesis" /\ pc \in {"apply", "index"}
    BY <2>4 DEF ChainInv, StepInv, GenesisInv
  <2>5. CASE op = "replay" /\ pc \in {"rollback", "undo", "reapply"}
    BY <2>5 DEF ChainInv, StepInv, ReplayInv, Torn
  <2>6. CASE op = "connect" /\ pc \in {"apply", "unapply", "tip"}
    BY <2>6 DEF ChainInv, StepInv, ConnectInv
  <2>7. op # "undo"
    BY <1>1 DEF Survivable
  <2> QED BY <1>1, <2>1, <2>2, <2>3, <2>4, <2>5, <2>6, <2>7
          DEF ChainInv, PhaseInv, Phases, Resting
<1>6. Empty' \/ ((chainBest \in index)' /\ (Committed(chainBest)' \/ Torn'))
  BY <1>2, <1>3, <1>5 DEF Empty, Committed, Torn, Forward, Backward, DiskSource
<1>7. StepInv'
  BY <1>1, <1>3, <1>6 DEF StepInv, RestInv, Resting, FlushInv, BootInv,
     GenesisInv, ReplayInv, BranchInv, ConnectInv, UndoneInv, ScratchInv
<1> QED BY <1>4, <1>7 DEF ChainInv

LEMMA StutterKeeps ==
    ASSUME ChainInv, UNCHANGED vars
    PROVE  ChainInv'
<1>1. /\ UNCHANGED <<mode, coins, leaves, best, dCoins, dLeaves, dBest, dHeads>>
      /\ UNCHANGED <<index, undo, chainBest, mBestChain, fork, branch, back, failed, todo, applied,
                     spent, pc, op>>
  BY DEF vars, storeVars, chainDisk, tipVars, plan, txVars
<1>2. ChainTypes' /\ IndexInv' /\ UndoInv' /\ PhaseInv'
  BY <1>1 DEF ChainInv, ChainTypes, IndexInv, UndoInv, PhaseInv
<1>3. /\ AtTip' <=> AtTip
      /\ Committed(chainBest)' <=> Committed(chainBest)
      /\ Torn' <=> Torn
      /\ Empty' <=> Empty
  BY <1>1 DEF AtTip, Committed, Torn, Forward, Backward, DiskSource, Empty
<1>4. /\ Path(fork)' <=> Path(fork)
      /\ Path(chainBest)' <=> Path(chainBest)
      /\ Path(Parent[chainBest])' <=> Path(Parent[chainBest])
  BY <1>1 DEF Path
<1>5. /\ Forward(chainBest)' <=> Forward(chainBest)
      /\ Backward(DiskSource)' <=> Backward(DiskSource)
      /\ DiskSource' = DiskSource
  BY <1>1 DEF Forward, Backward, DiskSource
<1>6. RestInv' /\ FlushInv' /\ BootInv'
  BY <1>1, <1>3 DEF ChainInv, StepInv, RestInv, Resting, FlushInv, BootInv
<1>7. GenesisInv' /\ BranchInv' /\ ScratchInv'
  BY <1>1, <1>3, <1>4 DEF ChainInv, StepInv, GenesisInv, BranchInv, ScratchInv
<1>8. ReplayInv'
  BY <1>1, <1>3, <1>5 DEF ChainInv, StepInv, ReplayInv
<1>9. ConnectInv' /\ UndoneInv'
  BY <1>1, <1>3 DEF ChainInv, StepInv, ConnectInv, UndoneInv
<1> QED BY <1>2, <1>6, <1>7, <1>8, <1>9 DEF ChainInv, StepInv

LEMMA ChainNext ==
    ASSUME ChainInv, [Next]_vars, CrashAt \subseteq Survivable
    PROVE  ChainInv'
<1>1. CASE Start \/ StoreGenesis \/ IndexTx \/ GenesisTip \/ Check \/ Activate
  BY <1>1, StartKeeps, StoreGenesisKeeps, IndexTxKeeps, GenesisTipKeeps, CheckKeeps, ActivateKeeps
<1>2. CASE ReplayBack \/ ReplayForward \/ ReapplyTx \/ ReapplyDone \/ ReplayDone
  BY <1>2, ReplayBackKeeps, ReplayForwardKeeps, ReapplyTxKeeps, ReapplyDoneKeeps, ReplayDoneKeeps
<1>3. CASE DisconnectTip \/ UndoTx \/ ReplayUndone \/ TipBack \/ Disconnected
  BY <1>3, DisconnectTipKeeps, UndoTxKeeps, ReplayUndoneKeeps, TipBackKeeps, DisconnectedKeeps
<1>4. CASE ConnectBlock \/ ApplyTx \/ ApplyFails \/ Unapply \/ Unapplied
  BY <1>4, ConnectBlockKeeps, ApplyTxKeeps, ApplyFailsKeeps, UnapplyKeeps, UnappliedKeeps
<1>5. CASE RecordBlock \/ TipForward \/ Connected \/ RolledBack
  BY <1>5, RecordBlockKeeps, TipForwardKeeps, ConnectedKeeps, RolledBackKeeps
<1>6. CASE FlushBegin \/ FlushEnd \/ Initialized \/ Closed \/ FlushSome
  BY <1>6, FlushBeginKeeps, FlushEndKeeps, InitializedKeeps, ClosedKeeps, FlushSomeKeeps
<1>7. CASE \E b \in Hash \ {Genesis} : AcceptBlock(b)
  BY <1>7, AcceptBlockKeeps
<1>8. CASE \E o \in {"sync", "close"} : Flush(o)
  BY <1>8, FlushKeeps
<1>9. CASE TakeMempoolSync \/ Crash
  BY <1>9, TakeMempoolSyncKeeps, CrashKeeps
<1>10. CASE UNCHANGED vars
  BY <1>10, StutterKeeps
<1> QED BY <1>1, <1>2, <1>3, <1>4, <1>5, <1>6, <1>7, <1>8, <1>9, <1>10 DEF Next, Step

-----------------------------------------------------------------------------
(* The theorems *)

\* What a death at any survivable step finds on disk.
LEMMA OnDisk ==
    ASSUME ChainInv, op # "undo"
    PROVE  \/ Empty
           \/ /\ chainBest \in Hash
              /\ \/ Committed(chainBest)
                 \/ Torn
                 \/ /\ dHeads = <<chainBest, chainBest>>
                    /\ dCoins = CoinsAt[chainBest] /\ dLeaves = LeavesAt(chainBest)
<1>1. chainBest \in index => chainBest \in Hash
  BY DEF ChainInv, ChainTypes
<1>2. CASE Resting
  BY <1>1, <1>2 DEF ChainInv, StepInv, RestInv, AtTip
<1>3. CASE pc \in {"flush", "flushing"} /\ ~Resting
  <2>1. chainBest \in Hash
    BY <1>1, <1>3 DEF ChainInv, StepInv, FlushInv, AtTip
  <2>2. CASE op \notin {"sync", "close"}
    BY <1>3, <2>1, <2>2 DEF ChainInv, StepInv, FlushInv
  <2>3. CASE op \in {"sync", "close"}
    <3>1. pc = "flushing"
      BY <1>3, <2>3 DEF Resting
    <3>2. AtTip /\ dHeads = <<chainBest, chainBest>> /\ dCoins = coins /\ dLeaves = leaves
      BY <2>3, <3>1 DEF ChainInv, StepInv, FlushInv
    <3> QED BY <2>1, <3>2 DEF AtTip
  <2> QED BY <2>2, <2>3
<1>4. CASE pc \in {"down", "check"}
  BY <1>1, <1>4 DEF ChainInv, StepInv, BootInv
<1>5. CASE op = "genesis" /\ pc \in {"apply", "index"}
  BY <1>5 DEF ChainInv, StepInv, GenesisInv
<1>6. CASE op = "replay" /\ pc \in {"rollback", "undo", "reapply"}
  BY <1>1, <1>6 DEF ChainInv, StepInv, ReplayInv, Torn
<1>7. CASE op = "connect" /\ pc \in {"apply", "unapply", "tip"}
  BY <1>1, <1>7 DEF ChainInv, StepInv, ConnectInv
<1> QED BY <1>2, <1>3, <1>4, <1>5, <1>6, <1>7 DEF ChainInv, PhaseInv, Phases, Resting

\* Each such disk mixes the coins of at most two blocks, the ones the marker or
\* the two records of the best block name.
LEMMA DiskIsRecoverable ==
    ASSUME ChainInv
    PROVE  Recoverable
<1> SUFFICES ASSUME op # "undo"
             PROVE  /\ \A o \in Outpoint :
                           dCoins[o] \in {CoinsOf(DiskSource)[o], CoinsOf(chainBest)[o]}
                    /\ dLeaves = LeavesOf(DiskSource)
  BY DEF Recoverable
<1>1. /\ \A b \in Hash : CoinsOf(b) = CoinsAt[b] /\ LeavesOf(b) = LeavesAt(b)
      /\ \A k \in {NoKey, Zero} : CoinsOf(k) = NoCoins /\ LeavesOf(k) = {}
  BY AbsenceAssumption, OriginAssumption DEF CoinsOf, LeavesOf, NoCoins
<1>2. CASE Empty
  BY <1>1, <1>2 DEF Empty, DiskSource
<1>3. CASE chainBest \in Hash /\ Committed(chainBest)
  BY <1>1, <1>3 DEF Committed, DiskSource
<1>4. CASE /\ chainBest \in Hash
           /\ dHeads = <<chainBest, chainBest>>
           /\ dCoins = CoinsAt[chainBest] /\ dLeaves = LeavesAt(chainBest)
  <2>1. dHeads \in (Hash \cup {Zero}) \X (Hash \cup {Zero}) /\ dHeads[2] = chainBest
    BY <1>4
  <2>2. DiskSource = chainBest
    BY <2>1, AbsenceAssumption DEF DiskSource
  <2> QED BY <1>1, <1>4, <2>2
<1>5. CASE chainBest \in Hash /\ Forward(chainBest)
  <2>1. CoinsOf(DiskSource) = Pre(chainBest) /\ LeavesOf(DiskSource) = PreL(chainBest)
    <3>1. CASE chainBest = Genesis
      <4>1. DiskSource \in {NoKey, Zero}
        BY <1>5, <3>1, SourceOf
      <4> QED BY <1>1, <3>1, <4>1 DEF Pre, PreL
    <3>2. CASE chainBest # Genesis
      <4>1. DiskSource = Parent[chainBest] /\ Parent[chainBest] \in Hash
        BY <1>5, <3>2, SourceOf, TreeFacts
      <4> QED BY <1>1, <3>2, <4>1 DEF Pre, PreL
    <3> QED BY <3>1, <3>2
  <2> QED BY <1>1, <1>5, <2>1 DEF Forward, Between
<1>6. CASE Backward(DiskSource)
  <2>1. /\ DiskSource \in Hash \ {Genesis} /\ chainBest = Parent[DiskSource]
        /\ Between(dCoins, DiskSource) /\ dLeaves = LeavesAt(DiskSource)
    BY <1>6 DEF Backward
  <2>2. chainBest \in Hash
    BY <2>1, TreeFacts
  <2>3. Pre(DiskSource) = CoinsOf(chainBest)
    BY <1>1, <2>1, <2>2 DEF Pre
  <2> QED BY <1>1, <2>1, <2>3 DEF Between
<1> QED BY <1>2, <1>3, <1>4, <1>5, <1>6, OnDisk DEF Torn

\* The inductive invariant holds throughout, whatever the tree of blocks, their
\* order of arrival and the number of deaths, as long as the process does not
\* die while DisconnectTip runs or while a commit with nothing new is written.
LEMMA ChainInvariant ==
    ASSUME CrashAt \subseteq Survivable
    PROVE  Spec => []ChainInv
<1>1. Init => ChainInv
  BY ChainInit
<1>2. ChainInv /\ [Next]_vars => ChainInv'
  BY ChainNext
<1> QED BY <1>1, <1>2, PTL DEF Spec

\* Once Initialize or AcceptBlock has returned, the UTXO set and the spent leaves
\* are the ones the branch to mBestChain defines: after any sequence of connects,
\* disconnects, failed activations, deaths and replays no coin is missing, left
\* over or at another height, and ReplayBlocksLocked ends in the same state as
\* ConnectBlock and DisconnectTip.
THEOREM StateAlwaysMatchesTip ==
    ASSUME CrashAt \subseteq Survivable
    PROVE  Spec => []StateMatchesTip
<1>1. ChainInv => StateMatchesTip
  BY DEF ChainInv, StepInv, RestInv, Resting, AtTip, StateMatchesTip
<1> QED BY <1>1, ChainInvariant, PTL

\* Whenever the process dies outside DisconnectTip, each coin in the UTXO database
\* is the one of the block ReplayBlocksLocked starts from or the one of the
\* recorded tip, and the leaves are those of the former.
THEOREM AlwaysRecoverable ==
    ASSUME CrashAt \subseteq Survivable
    PROVE  Spec => []Recoverable
<1>1. ChainInv => Recoverable
  BY DiskIsRecoverable
<1> QED BY <1>1, ChainInvariant, PTL

\* Between two methods both databases hold what memory holds and name the same
\* block: UTXOSet::Flush has run after every tip that ConnectBlock and DisconnectTip
\* wrote, and nothing but the mempool queues could be lost.
THEOREM IdleAlwaysDurable ==
    ASSUME CrashAt \subseteq Survivable
    PROVE  Spec => []IdleIsDurable
<1>1. ChainInv => IdleIsDurable
  BY DEF ChainInv, StepInv, RestInv, Resting, AtTip, Committed, IdleIsDurable
<1> QED BY <1>1, ChainInvariant, PTL

-----------------------------------------------------------------------------
(* Deaths at any moment *)

\* A death inside DisconnectTip, or inside a commit with nothing new in it, leaves
\* a UTXO database from which ReplayBlocksLocked cannot rebuild the tip's set: coins
\* may be missing and leaves of blocks that left the chain may stay.  What no death
\* and no number of them can do is the other direction, and most of what the node
\* promises needs only that.

\* A set of coins that may lack some of b's and has no other.
Below(c, b) == \A o \in Outpoint : c[o] = NoCoin \/ c[o] = CoinsAt[b][o]

\* The same, where the coins that b takes may still be there.
Trails(c, b) ==
    \A o \in Outpoint : c[o] = NoCoin \/ c[o] = CoinsAt[b][o] \/ o \in Consumes(b)

\* Coins on their way through b, of which only D has made its own.
Partly(c, b, D) ==
    \A o \in Outpoint : \/ c[o] = NoCoin \/ c[o] = Pre(b)[o]
                        \/ c[o] = CoinsAt[b][o] /\ \E t \in D : o \in Outs[t]

\* Coins and leaves that lack at most what the transactions D will bring, and have
\* at most what D will take.
Lacks(c, lv, b, D) ==
    /\ \A o \in Outpoint : \/ c[o] = NoCoin \/ c[o] = CoinsAt[b][o]
                           \/ \E t \in D : o \in Touches(t)
    /\ LeavesAt(b) \subseteq lv \cup UNION {Lvs[t] : t \in D}

\* The UTXO database belongs to the recorded tip, or does not know what it belongs to.
Still ==
    /\ DiskSource \in {chainBest, Zero}
    /\ Below(dCoins, chainBest) /\ LeavesAt(chainBest) \subseteq dLeaves

\* It belongs to the block before the tip, or does not know.
Lagging ==
    /\ \/ DiskSource \in {Zero, NoKey}
       \/ /\ chainBest # Genesis /\ DiskSource = Parent[chainBest]
          /\ PreL(chainBest) \subseteq dLeaves
    /\ Trails(dCoins, chainBest)

\* It belongs to a block on the tip, which was being taken off.
Leading ==
    /\ DiskSource \in Hash \ {Genesis}
    /\ Parent[DiskSource] = chainBest /\ undo[DiskSource] # NoKey
    /\ Below(dCoins, chainBest) /\ LeavesAt(chainBest) \subseteq dLeaves

\* What a death leaves behind at any moment, several deaths in a row included.
DiskInv ==
    /\ dHeads # NoKey => dBest = NoKey /\ dHeads[2] # NoKey
    /\ Empty \/ (chainBest \in index /\ (Still \/ Lagging \/ Leading))

\* The view of a running node.
Sound ==
    /\ mBestChain = chainBest /\ best \in {chainBest, Zero} /\ chainBest \in index
    /\ Below(coins, chainBest) /\ LeavesAt(chainBest) \subseteq leaves

SafePhases == Phases \cup {"flush", "flushing"} \X {"repair"}

HeldInv ==
    /\ <<pc, op>> \in SafePhases
    /\ pc = "flushing" /\ op # "close" => mode = "flushing"
    /\ Resting => Sound /\ Still
    /\ pc \in {"flush", "flushing"} => Sound

\* The last blocks of the recorded chain.
EndOfChain(s) ==
    /\ Len(s) <= Height[chainBest] + 1
    /\ \A i \in DOMAIN s : s[i] = PathTo[chainBest][Height[chainBest] + 1 - Len(s) + i]

TxsIn(s) == UNION {TxsOf(b) : b \in ToSet(s)}

RedoInv ==
    /\ pc = "check" =>
           /\ mBestChain = chainBest /\ chainBest \in index
           /\ coins = dCoins /\ leaves = dLeaves
           /\ best = IF dBest = NoKey THEN Zero ELSE dBest
    /\ op = "replay" /\ pc \in {"rollback", "undo", "reapply"} =>
           /\ mBestChain = chainBest /\ chainBest \in index
           /\ EndOfChain(branch)
    /\ op = "replay" /\ pc = "rollback" =>
           /\ back # <<>> => back = <<DiskSource>> /\ branch = <<>> /\ Leading
           /\ Lacks(coins, leaves, chainBest, TxsIn(branch))
    /\ op = "replay" /\ pc = "undo" =>
           /\ back = <<>> /\ branch = <<>> /\ Leading
           /\ spent = undo[DiskSource]
           /\ ToSet(todo) \subseteq TxsOf(DiskSource)
           /\ Lacks(coins, leaves, chainBest, {})
    /\ pc = "reapply" =>
           /\ back = <<>> /\ branch # <<>>
           /\ ToSet(todo) \subseteq TxsOf(Head(branch))
           /\ Lacks(coins, leaves, chainBest, ToSet(todo) \cup TxsIn(Tail(branch)))

JoinInv ==
    /\ pc \in {"unapply", "tip"} \/ (pc = "apply" /\ op = "connect") =>
           /\ mBestChain = chainBest /\ best \in {chainBest, Zero} /\ chainBest \in index
           /\ Still
           /\ PreL(Head(branch)) \subseteq leaves
    /\ pc = "apply" /\ op = "connect" =>
           /\ TxsOf(Head(branch)) = ToSet(applied) \cup ToSet(todo)
           /\ Partly(coins, Head(branch), ToSet(applied))
           /\ \A t \in ToSet(applied) :
                  /\ FreshTx(t, Head(branch)) /\ Lvs[t] \subseteq leaves
                  /\ \A o \in Ins[t] : coins[o] = NoCoin
           /\ spent = Taken(Head(branch), ToSet(applied))
    /\ pc = "unapply" =>
           /\ Partly(coins, Head(branch), ToSet(applied))
           /\ \A t \in ToSet(applied) :
                  /\ t \in TxsOf(Head(branch)) /\ FreshTx(t, Head(branch))
                  /\ \A o \in Ins[t] : spent[o] = Pre(Head(branch))[o]
    /\ pc = "tip" =>
           /\ Below(coins, Head(branch)) /\ LeavesAt(Head(branch)) \subseteq leaves
           /\ undo[Head(branch)] # NoKey

LeaveInv ==
    pc = "undo" /\ op = "undo" =>
        /\ mBestChain = chainBest /\ best \in {chainBest, Zero}
        /\ chainBest \in index \ {Genesis}
        /\ undo[chainBest] # NoKey /\ spent = undo[chainBest]
        /\ Still
        /\ ToSet(todo) \subseteq TxsOf(chainBest)
        /\ Partly(dCoins, chainBest, ToSet(todo))
        /\ Partly(coins, chainBest, ToSet(todo))
        /\ PreL(chainBest) \subseteq leaves

SafeStep ==
    /\ HeldInv /\ GenesisInv /\ RedoInv /\ BranchInv /\ JoinInv /\ LeaveInv /\ ScratchInv

SafeInv == ChainTypes /\ IndexInv /\ UndoInv /\ DiskInv /\ SafeStep

-----------------------------------------------------------------------------

LEMMA SafeInit == Init => SafeInv
<1> SUFFICES ASSUME Init PROVE SafeInv
  OBVIOUS
<1>1. ChainTypes
  BY DEF Init, StoreInit, ChainTypes, View
<1>2. IndexInv /\ UndoInv
  BY DEF Init, IndexInv, UndoInv
<1>3. DiskInv
  BY DEF Init, StoreInit, DiskInv, Empty, NoCoins
<1>4. SafeStep
  BY DEF Init, SafeStep, HeldInv, SafePhases, Phases, Resting, GenesisInv, RedoInv, BranchInv,
     JoinInv, LeaveInv, ScratchInv
<1> QED BY <1>1, <1>2, <1>3, <1>4 DEF SafeInv

\* Nothing but a commit or an undone transaction changes what the disk may hold.
LEMMA DiskFrame ==
    ASSUME UNCHANGED <<dCoins, dLeaves, dBest, dHeads, chainBest, undo>>, index \subseteq index'
    PROVE  /\ DiskSource' = DiskSource
           /\ Still => Still'
           /\ Leading => Leading'
           /\ DiskInv => DiskInv'
<1>1. DiskSource' = DiskSource
  BY DEF DiskSource
<1>2. Still => Still'
  BY <1>1 DEF Still, Below
<1>3. Leading => Leading'
  BY <1>1 DEF Leading, Below
<1>4. Lagging => Lagging'
  BY <1>1 DEF Lagging, Trails
<1>5. Empty => Empty'
  BY DEF Empty
<1>6. DiskInv => DiskInv'
  BY <1>2, <1>3, <1>4, <1>5 DEF DiskInv
<1> QED BY <1>1, <1>2, <1>3, <1>6

LEMMA SoundFrame ==
    ASSUME UNCHANGED <<coins, leaves, best, chainBest, mBestChain>>, index \subseteq index'
    PROVE  Sound => Sound'
  BY DEF Sound, Below

\* Between two blocks the node may rest.
LEMMA SafeRest ==
    ASSUME SafeInv, Resting
    PROVE  Sound /\ Still /\ applied = <<>> /\ spent = NoSpent
<1>1. HeldInv /\ ScratchInv
  BY DEF SafeInv, SafeStep
<1>2. pc \notin {"apply", "unapply", "undo"}
  BY DEF Resting
<1> QED BY <1>1, <1>2 DEF HeldInv, ScratchInv

LEMMA RolledBackSafe ==
    ASSUME SafeInv, RolledBack
    PROVE  SafeInv'
<1>1. pc = "rollback" /\ op = "connect" /\ pc' = "idle" /\ op' = "idle"
  BY DEF SafeInv, SafeStep, HeldInv, SafePhases, Phases, RolledBack, Return, Goto
<1>2. UNCHANGED <<mode, coins, leaves, best, dCoins, dLeaves, dBest, dHeads>>
  BY DEF RolledBack, storeVars
<1>3. UNCHANGED <<index, undo, chainBest, mBestChain, back, todo, applied, spent>> /\ branch' = <<>>
  BY DEF RolledBack, chainDisk, tipVars, txVars, Return
<1>4. Sound /\ Still /\ applied = <<>> /\ spent = NoSpent
  BY <1>1, SafeRest DEF Resting
<1>5. ChainTypes' /\ IndexInv' /\ UndoInv'
  BY <1>2, <1>3 DEF SafeInv, ChainTypes, IndexInv, UndoInv
<1>6. Sound' /\ Still' /\ DiskInv'
  BY <1>2, <1>3, <1>4, DiskFrame, SoundFrame DEF SafeInv
<1>7. SafeStep'
  BY <1>1, <1>3, <1>4, <1>6 DEF SafeStep, HeldInv, SafePhases, Phases, Resting, GenesisInv, RedoInv,
     BranchInv, JoinInv, LeaveInv, ScratchInv
<1> QED BY <1>5, <1>6, <1>7 DEF SafeInv

LEMMA IndexTxSafe ==
    ASSUME SafeInv, IndexTx
    PROVE  SafeInv'
<1>1. pc = "index" /\ op \in {"genesis", "accept"} /\ pc' = pc /\ op' = op
  BY DEF SafeInv, SafeStep, HeldInv, SafePhases, Phases, IndexTx
<1>2. UNCHANGED <<mode, coins, leaves, best, dCoins, dLeaves, dBest, dHeads>>
  BY DEF IndexTx, storeVars
<1>3. UNCHANGED <<index, undo, chainBest, mBestChain, branch, back, applied, spent>>
  BY DEF IndexTx, tipVars, plan
<1>4. todo' \in Seq(Tx)
  BY SeqSets DEF IndexTx, SafeInv, ChainTypes
<1>5. ChainTypes' /\ IndexInv' /\ UndoInv' /\ DiskInv'
  <2>1. DiskInv'
    BY <1>2, <1>3, DiskFrame DEF SafeInv
  <2> QED BY <1>2, <1>3, <1>4, <2>1 DEF SafeInv, ChainTypes, IndexInv, UndoInv
<1>6. op = "accept" => Sound' /\ Still'
  <2>1. op = "accept" => Sound /\ Still
    BY <1>1, SafeRest DEF Resting
  <2> QED BY <1>2, <1>3, <2>1, DiskFrame, SoundFrame
<1>7. op = "genesis" => Empty'
  <2>1. op = "genesis" => Empty
    BY <1>1 DEF SafeInv, SafeStep, GenesisInv
  <2> QED BY <1>2, <1>3, <2>1 DEF Empty
<1>8. SafeStep'
  BY <1>1, <1>2, <1>3, <1>6, <1>7 DEF SafeInv, SafeStep, HeldInv, SafePhases, Phases, Resting,
     GenesisInv, RedoInv, BranchInv, JoinInv, LeaveInv, ScratchInv
<1> QED BY <1>5, <1>8 DEF SafeInv

LEMMA InitializedSafe ==
    ASSUME SafeInv, Initialized
    PROVE  SafeInv'
<1>1. pc = "ready" /\ pc' = "idle" /\ op' = "idle"
  BY DEF Initialized, Ready, Goto
<1>2. UNCHANGED <<mode, coins, leaves, best, dCoins, dLeaves, dBest, dHeads>>
  BY DEF Initialized, storeVars
<1>3. UNCHANGED <<index, undo, chainBest, mBestChain, branch, back, todo, applied, spent>>
  BY DEF Initialized, chainDisk, plan, txVars
<1>4. Sound /\ Still /\ applied = <<>> /\ spent = NoSpent
  BY <1>1, SafeRest DEF Resting
<1>5. ChainTypes' /\ IndexInv' /\ UndoInv'
  BY <1>2, <1>3 DEF SafeInv, ChainTypes, IndexInv, UndoInv
<1>6. Sound' /\ Still' /\ DiskInv'
  BY <1>2, <1>3, <1>4, DiskFrame, SoundFrame DEF SafeInv
<1>7. SafeStep'
  BY <1>1, <1>3, <1>4, <1>6 DEF SafeStep, HeldInv, SafePhases, Phases, Resting, GenesisInv, RedoInv,
     BranchInv, JoinInv, LeaveInv, ScratchInv
<1> QED BY <1>5, <1>6, <1>7 DEF SafeInv

LEMMA FlushSafe ==
    ASSUME SafeInv, NEW o \in {"sync", "close"}, Flush(o)
    PROVE  SafeInv'
<1>1. pc = "idle" /\ pc' = "flush" /\ op' = o
  BY DEF SafeInv, SafeStep, HeldInv, SafePhases, Phases, Flush, Goto
<1>2. UNCHANGED <<mode, coins, leaves, best, dCoins, dLeaves, dBest, dHeads>>
  BY DEF Flush, storeVars
<1>3. UNCHANGED <<index, undo, chainBest, mBestChain, branch, back, todo, applied, spent>>
  BY DEF Flush, chainDisk, plan, txVars, tipVars
<1>4. Sound /\ Still /\ applied = <<>> /\ spent = NoSpent
  BY <1>1, SafeRest DEF Resting
<1>5. ChainTypes' /\ IndexInv' /\ UndoInv'
  BY <1>2, <1>3 DEF SafeInv, ChainTypes, IndexInv, UndoInv
<1>6. Sound' /\ Still' /\ DiskInv'
  BY <1>2, <1>3, <1>4, DiskFrame, SoundFrame DEF SafeInv
<1>7. SafeStep'
  BY <1>1, <1>3, <1>4, <1>6 DEF SafeStep, HeldInv, SafePhases, Phases, Resting, GenesisInv, RedoInv,
     BranchInv, JoinInv, LeaveInv, ScratchInv
<1> QED BY <1>5, <1>6, <1>7 DEF SafeInv

LEMMA TakeMempoolSyncSafe ==
    ASSUME SafeInv, TakeMempoolSync
    PROVE  SafeInv'
<1>1. pc = "idle" /\ op = "idle" /\ pc' = "idle" /\ op' = "idle"
  BY DEF SafeInv, SafeStep, HeldInv, SafePhases, Phases, TakeMempoolSync
<1>2. UNCHANGED <<mode, coins, leaves, best, dCoins, dLeaves, dBest, dHeads>>
  BY DEF TakeMempoolSync, storeVars
<1>3. UNCHANGED <<index, undo, chainBest, mBestChain, branch, back, todo, applied, spent>>
  BY DEF TakeMempoolSync, chainDisk, plan, txVars, tipVars
<1>4. Sound /\ Still /\ applied = <<>> /\ spent = NoSpent
  BY <1>1, SafeRest DEF Resting
<1>5. ChainTypes' /\ IndexInv' /\ UndoInv'
  BY <1>2, <1>3 DEF SafeInv, ChainTypes, IndexInv, UndoInv
<1>6. Sound' /\ Still' /\ DiskInv'
  BY <1>2, <1>3, <1>4, DiskFrame, SoundFrame DEF SafeInv
<1>7. SafeStep'
  BY <1>1, <1>3, <1>4, <1>6 DEF SafeStep, HeldInv, SafePhases, Phases, Resting, GenesisInv, RedoInv,
     BranchInv, JoinInv, LeaveInv, ScratchInv
<1> QED BY <1>5, <1>6, <1>7 DEF SafeInv

LEMMA DisconnectedSafe ==
    ASSUME SafeInv, Disconnected
    PROVE  SafeInv'
<1>1. /\ pc = "flushed" /\ op = "disconnect" /\ op' = "connect" /\ failed' = failed
      /\ pc' = IF failed THEN "rollback" ELSE "disconnect"
  BY DEF Disconnected, Goto
<1>2. UNCHANGED <<mode, coins, leaves, best, dCoins, dLeaves, dBest, dHeads>>
  BY DEF Disconnected, storeVars
<1>3. UNCHANGED <<index, undo, chainBest, mBestChain, fork, branch, back, applied, spent>> /\ todo' = <<>>
  BY DEF Disconnected, chainDisk, tipVars
<1>4. Sound /\ Still /\ applied = <<>> /\ spent = NoSpent
  BY <1>1, SafeRest DEF Resting
<1>5. ChainTypes' /\ IndexInv' /\ UndoInv'
  BY <1>2, <1>3 DEF SafeInv, ChainTypes, IndexInv, UndoInv
<1>6. Sound' /\ Still' /\ DiskInv'
  BY <1>2, <1>3, <1>4, DiskFrame, SoundFrame DEF SafeInv
<1>7. ~failed => Path(fork)'
  <2>1. ~failed => Path(fork)
    BY <1>1 DEF SafeInv, SafeStep, BranchInv
  <2> QED BY <1>3, <2>1 DEF Path
<1>8. SafeStep'
  BY <1>1, <1>3, <1>4, <1>6, <1>7 DEF SafeStep, HeldInv, SafePhases, Phases, Resting, GenesisInv,
     RedoInv, BranchInv, JoinInv, LeaveInv, ScratchInv
<1> QED BY <1>5, <1>6, <1>8 DEF SafeInv

LEMMA ConnectedSafe ==
    ASSUME SafeInv, Connected
    PROVE  SafeInv'
<1>1. pc = "flushed" /\ op = "connect"
  BY DEF Connected
<1>2. UNCHANGED <<mode, coins, leaves, best, dCoins, dLeaves, dBest, dHeads>>
  BY DEF Connected, storeVars
<1>3. UNCHANGED <<index, undo, chainBest, mBestChain, back, todo, applied, spent>>
  BY DEF Connected, chainDisk, tipVars, txVars
<1>4. Sound /\ Still /\ applied = <<>> /\ spent = NoSpent
  BY <1>1, SafeRest DEF Resting
<1>5. Sound' /\ Still' /\ DiskInv'
  BY <1>2, <1>3, <1>4, DiskFrame, SoundFrame DEF SafeInv
<1>6. CASE Tail(branch) = <<>>
  <2>1. pc' = "idle" /\ op' = "idle" /\ branch' = <<>>
    BY <1>6 DEF Connected, Return, Goto
  <2>2. ChainTypes' /\ IndexInv' /\ UndoInv'
    BY <1>2, <1>3, <2>1 DEF SafeInv, ChainTypes, IndexInv, UndoInv
  <2>3. SafeStep'
    BY <1>3, <1>4, <1>5, <2>1 DEF SafeStep, HeldInv, SafePhases, Phases, Resting, GenesisInv,
       RedoInv, BranchInv, JoinInv, LeaveInv, ScratchInv
  <2> QED BY <1>5, <2>2, <2>3 DEF SafeInv
<1>7. CASE Tail(branch) # <<>>
  <2>1. pc' = "connect" /\ op' = "connect" /\ branch' = Tail(branch)
    BY <1>7 DEF Connected, Goto
  <2>2. /\ branch \in Seq(Hash) /\ branch # <<>> /\ Linked(Parent[chainBest], branch)
        /\ \A i \in DOMAIN branch : branch[i] \in index
        /\ Head(branch) = chainBest
    BY <1>1 DEF SafeInv, SafeStep, BranchInv, ChainTypes, Path
  <2>3. branch' \in Seq(Hash)
    BY <2>1, <2>2, SeqSets
  <2>4. ChainTypes' /\ IndexInv' /\ UndoInv'
    BY <1>2, <1>3, <2>3 DEF SafeInv, ChainTypes, IndexInv, UndoInv
  <2>5. /\ Linked(chainBest, Tail(branch))
        /\ \A i \in DOMAIN Tail(branch) : Tail(branch)[i] \in index
    BY <2>2, LinkedTail
  <2>6. Path(chainBest)'
    BY <1>3, <1>7, <2>1, <2>5 DEF Path
  <2>7. SafeStep'
    BY <1>3, <1>4, <1>5, <2>1, <2>6 DEF SafeStep, HeldInv, SafePhases, Phases, Resting, GenesisInv,
       RedoInv, BranchInv, JoinInv, LeaveInv, ScratchInv
  <2> QED BY <1>5, <2>4, <2>7 DEF SafeInv
<1> QED BY <1>6, <1>7

LEMMA ActivateSafe ==
    ASSUME SafeInv, Activate
    PROVE  SafeInv'
<1>1. pc = "index" /\ op = "accept"
  BY DEF Activate
<1>2. UNCHANGED <<mode, coins, leaves, best, dCoins, dLeaves, dBest, dHeads>>
  BY DEF Activate, storeVars
<1>3. UNCHANGED <<index, undo, chainBest, mBestChain, back, todo, applied, spent>>
  BY DEF Activate, chainDisk, tipVars, txVars
<1>4. Sound /\ Still /\ applied = <<>> /\ spent = NoSpent
  BY <1>1, SafeRest DEF Resting
<1>5. Sound' /\ Still' /\ DiskInv'
  BY <1>2, <1>3, <1>4, DiskFrame, SoundFrame DEF SafeInv
<1>6. CASE ~MoreWork(Head(branch))
  <2>1. pc' = "idle" /\ op' = "idle" /\ branch' = <<>>
    BY <1>6 DEF Activate, Return, Goto
  <2>2. ChainTypes' /\ IndexInv' /\ UndoInv'
    BY <1>2, <1>3, <2>1 DEF SafeInv, ChainTypes, IndexInv, UndoInv
  <2>3. SafeStep'
    BY <1>3, <1>4, <1>5, <2>1 DEF SafeStep, HeldInv, SafePhases, Phases, Resting, GenesisInv,
       RedoInv, BranchInv, JoinInv, LeaveInv, ScratchInv
  <2> QED BY <1>5, <2>2, <2>3 DEF SafeInv
<1>7. CASE MoreWork(Head(branch))
  <2>1. PICK b \in index \ {Genesis} : b = Head(branch)
    BY <1>1 DEF SafeInv, SafeStep, BranchInv
  <2>2. b \in Hash /\ mBestChain \in Hash /\ Work[b] > Work[mBestChain]
    BY <1>4, <1>7, <2>1 DEF Sound, SafeInv, ChainTypes, MoreWork
  <2>3. PICK a \in Ancestors(b) \cap Ancestors(mBestChain) : a = CommonAncestor(b, mBestChain)
    BY <2>2, CommonFacts
  <2>4. /\ pc' = "disconnect" /\ op' = "connect"
        /\ fork' = a /\ branch' = PathFrom(a, b)
    BY <1>7, <2>1, <2>3 DEF Activate, ForkPoint, Goto
  <2>5. a # b
    <3>1. Work[b] \in Nat /\ Work[mBestChain] \in Nat
      BY <2>2, TreeAssumption
    <3>2. a = mBestChain \/ Work[a] < Work[mBestChain]
      BY <2>2, <2>3, AncestorFacts
    <3> QED BY <2>2, <3>1, <3>2
  <2>6. /\ PathFrom(a, b) \in Seq(Hash) /\ Linked(a, PathFrom(a, b)) /\ PathFrom(a, b) # <<>>
        /\ \A i \in DOMAIN PathFrom(a, b) : PathFrom(a, b)[i] \in Ancestors(b)
    BY <2>2, <2>3, <2>5, BranchFacts
  <2>7. Ancestors(b) \subseteq index
    BY <2>1, IndexClosed DEF SafeInv, ChainTypes
  <2>8. Path(fork)'
    BY <1>3, <2>4, <2>6, <2>7 DEF Path
  <2>9. ChainTypes' /\ IndexInv' /\ UndoInv'
    BY <1>2, <1>3, <2>4, <2>6 DEF SafeInv, ChainTypes, IndexInv, UndoInv
  <2>10. SafeStep'
    BY <1>3, <1>4, <1>5, <2>4, <2>8 DEF SafeStep, HeldInv, SafePhases, Phases, Resting, GenesisInv,
       RedoInv, BranchInv, JoinInv, LeaveInv, ScratchInv
  <2> QED BY <1>5, <2>9, <2>10 DEF SafeInv
<1> QED BY <1>6, <1>7

\* What is valid against part of a tip's coins is valid against all of them.
LEMMA SoundView ==
    ASSUME NEW b \in Hash, NEW x \in Hash, Below(coins, x), LeavesAt(x) \subseteq leaves,
           ValidateBlock(b, coins, leaves)
    PROVE  ValidateBlock(b, CoinsAt[x], LeavesAt(x))
<1>1. ASSUME NEW t \in TxsOf(b) \ Coinbase
      PROVE  CheckTransactionWithUTXO(t, Height[b], CoinsAt[x]) /\ LeavesUnused(t, LeavesAt(x))
  <2>1. CheckTransactionWithUTXO(t, Height[b], coins) /\ LeavesUnused(t, leaves)
    BY DEF ValidateBlock, CheckBlockTransactionsWithUTXO
  <2>2. \A o \in Ins[t] : coins[o] = CoinsAt[x][o]
    BY <2>1, TxFacts DEF Below, CheckTransactionWithUTXO
  <2>3. CheckTransactionWithUTXO(t, Height[b], CoinsAt[x])
    BY <2>1, <2>2 DEF CheckTransactionWithUTXO
  <2>4. LeavesUnused(t, LeavesAt(x))
    BY <2>1 DEF LeavesUnused
  <2> QED BY <2>3, <2>4
<1> QED BY <1>1 DEF ValidateBlock, CheckBlockTransactionsWithUTXO

LEMMA AcceptBlockSafe ==
    ASSUME SafeInv, NEW b \in Hash \ {Genesis}, AcceptBlock(b)
    PROVE  SafeInv'
<1>1. pc = "idle" /\ pc' = "index" /\ op' = "accept"
  BY DEF AcceptBlock, Goto
<1>2. UNCHANGED <<mode, coins, leaves, best, dCoins, dLeaves, dBest, dHeads>>
  BY DEF AcceptBlock, storeVars
<1>3. /\ UNCHANGED <<undo, chainBest, mBestChain, back, applied, spent>>
      /\ index' = index \cup {b} /\ branch' = <<b>> /\ todo' = BlockTxs[b]
  BY DEF AcceptBlock, StoreBlock, tipVars
<1>4. Sound /\ Still /\ applied = <<>> /\ spent = NoSpent
  BY <1>1, SafeRest DEF Resting
<1>5. Flat(b) /\ Parent[b] \in index
  <2>1. chainBest \in Hash /\ Below(coins, chainBest) /\ LeavesAt(chainBest) \subseteq leaves
    BY <1>4 DEF Sound, SafeInv, ChainTypes
  <2>2. ValidateBlock(b, coins, leaves) /\ Parent[b] \in index
    BY DEF AcceptBlock, Acceptable
  <2>3. ValidateBlock(b, CoinsAt[chainBest], LeavesAt(chainBest))
    BY <2>1, <2>2, SoundView
  <2> QED BY <2>1, <2>2, <2>3, AcceptedIsFlat
<1>6. <<b>> \in Seq(Hash) /\ <<b>> # <<>> /\ Head(<<b>>) = b /\ BlockTxs[b] \in Seq(Tx)
  BY TxFacts
<1>7. ChainTypes'
  BY <1>2, <1>3, <1>6 DEF SafeInv, ChainTypes
<1>8. IndexInv' /\ UndoInv'
  BY <1>3, <1>5 DEF SafeInv, IndexInv, UndoInv
<1>9. Sound' /\ Still' /\ DiskInv'
  <2>1. index \subseteq index'
    BY <1>3
  <2> QED BY <1>2, <1>3, <1>4, <2>1, DiskFrame, SoundFrame DEF SafeInv
<1>10. SafeStep'
  BY <1>1, <1>3, <1>4, <1>6, <1>9 DEF SafeStep, HeldInv, SafePhases, Phases, Resting, GenesisInv,
     RedoInv, BranchInv, JoinInv, LeaveInv, ScratchInv
<1> QED BY <1>7, <1>8, <1>9, <1>10 DEF SafeInv

LEMMA StartSafe ==
    ASSUME SafeInv, Start
    PROVE  SafeInv'
<1>1. pc = "down"
  BY DEF Start
<1>2. /\ coins' = dCoins /\ leaves' = dLeaves /\ best' = IF dBest = NoKey THEN Zero ELSE dBest
      /\ UNCHANGED <<dCoins, dLeaves, dBest, dHeads>>
  BY DEF Start, Open, diskVars
<1>3. /\ UNCHANGED <<index, undo, chainBest, branch, back, applied, spent>>
      /\ mBestChain' = IF chainBest = NoKey THEN Zero ELSE chainBest
  BY DEF Start, chainDisk, plan
<1>4. /\ Empty \/ chainBest \in index
      /\ applied = <<>> /\ spent = NoSpent
  BY <1>1 DEF SafeInv, SafeStep, DiskInv, ScratchInv
<1>5. chainBest \in index => chainBest \in Hash /\ chainBest # NoKey
  BY AbsenceAssumption DEF SafeInv, ChainTypes
<1>6. DiskInv'
  BY <1>2, <1>3, DiskFrame DEF SafeInv
<1>7. CASE chainBest = NoKey
  <2>1. pc' = "apply" /\ op' = "genesis" /\ todo' = BlockTxs[Genesis]
    BY <1>7 DEF Start, Goto
  <2>2. Empty
    BY <1>4, <1>5, <1>7
  <2>3. Empty' /\ coins' = NoCoins /\ leaves' = {}
    BY <1>2, <1>3, <2>2 DEF Empty
  <2>4. todo' \in Seq(Tx) /\ ToSet(todo') = TxsOf(Genesis)
    BY <2>1, TxFacts, TreeFacts DEF TxsOf
  <2>5. ChainTypes' /\ IndexInv' /\ UndoInv'
    BY <1>2, <1>3, <2>1, <2>4 DEF SafeInv, ChainTypes, IndexInv, UndoInv
  <2>6. NoCoins \in View /\ Between(NoCoins, Genesis)
    BY PreType, GenesisFacts, Ends
  <2>7. Advance(NoCoins, Genesis, TxsOf(Genesis)) /\ LeavesOn({}, Genesis, TxsOf(Genesis))
    BY <2>6, GenesisFacts, Ends, LeafEnds
  <2>8. /\ Advance(coins, Genesis, ToSet(todo))'
        /\ LeavesOn(leaves, Genesis, ToSet(todo))'
        /\ (ToSet(todo) \subseteq TxsOf(Genesis))'
    BY <2>3, <2>4, <2>7
  <2>9. SafeStep'
    BY <2>1, <2>3, <2>8 DEF SafeStep, HeldInv, SafePhases, Phases, Resting, GenesisInv,
       RedoInv, BranchInv, JoinInv, LeaveInv, ScratchInv
  <2> QED BY <1>6, <2>5, <2>9 DEF SafeInv
<1>8. CASE chainBest # NoKey
  <2>1. pc' = "check" /\ op' = "boot" /\ todo' = <<>>
    BY <1>8 DEF Start, Goto
  <2>2. chainBest \in index
    BY <1>4, <1>8 DEF Empty
  <2>3. ChainTypes' /\ IndexInv' /\ UndoInv'
    BY <1>2, <1>3, <1>8, <2>1 DEF SafeInv, ChainTypes, IndexInv, UndoInv
  <2>4. SafeStep'
    BY <1>2, <1>3, <1>4, <1>8, <2>1, <2>2 DEF SafeStep, HeldInv, SafePhases, Phases, Resting,
       GenesisInv, RedoInv, BranchInv, JoinInv, LeaveInv, ScratchInv
  <2> QED BY <1>6, <2>3, <2>4 DEF SafeInv
<1> QED BY <1>7, <1>8

LEMMA StoreGenesisSafe ==
    ASSUME SafeInv, StoreGenesis
    PROVE  SafeInv'
<1>1. pc = "apply" /\ op = "genesis" /\ todo = <<>> /\ pc' = "index" /\ op' = "genesis"
  BY DEF StoreGenesis, Goto
<1>2. UNCHANGED <<mode, coins, leaves, best, dCoins, dLeaves, dBest, dHeads>>
  BY DEF StoreGenesis, storeVars
<1>3. /\ UNCHANGED <<undo, chainBest, mBestChain, back>>
      /\ index' = index \cup {Genesis} /\ branch' = <<Genesis>> /\ todo' = BlockTxs[Genesis]
      /\ applied' = <<>> /\ spent' = NoSpent
  BY DEF StoreGenesis, StoreBlock, tipVars
<1>4. /\ Empty /\ Advance(coins, Genesis, {}) /\ LeavesOn(leaves, Genesis, {}) /\ coins \in View
  <2>1. ToSet(todo) = {}
    BY <1>1 DEF ToSet
  <2> QED BY <1>1, <2>1 DEF SafeInv, SafeStep, GenesisInv, ChainTypes
<1>5. coins = CoinsAt[Genesis] /\ leaves = LeavesAt(Genesis)
  BY <1>4, GenesisFacts, Ends, LeafEnds
<1>6. <<Genesis>> \in Seq(Hash) /\ <<Genesis>> # <<>> /\ BlockTxs[Genesis] \in Seq(Tx)
  BY TxFacts, TreeFacts
<1>7. ChainTypes'
  BY <1>2, <1>3, <1>6, TreeFacts DEF SafeInv, ChainTypes
<1>8. IndexInv' /\ UndoInv'
  BY <1>1, <1>3, GenesisFacts DEF SafeInv, IndexInv, UndoInv
<1>9. Empty' /\ DiskInv'
  <2>1. Empty'
    BY <1>2, <1>3, <1>4 DEF Empty
  <2> QED BY <2>1 DEF DiskInv, Empty
<1>10. SafeStep'
  BY <1>1, <1>2, <1>3, <1>5, <1>6, <1>9 DEF SafeStep, HeldInv, SafePhases, Phases, Resting,
     GenesisInv, RedoInv, BranchInv, JoinInv, LeaveInv, ScratchInv
<1> QED BY <1>7, <1>8, <1>9, <1>10 DEF SafeInv

LEMMA GenesisTipSafe ==
    ASSUME SafeInv, GenesisTip
    PROVE  SafeInv'
<1>1. pc = "index" /\ op = "genesis" /\ pc' = "flush" /\ op' = "genesis"
  BY DEF GenesisTip, Goto
<1>2. UNCHANGED <<coins, leaves, dCoins, dLeaves, dBest, dHeads>> /\ best' = Genesis
  BY DEF GenesisTip, SetBest, diskVars
<1>3. /\ UNCHANGED <<index, undo, back, todo, applied, spent>>
      /\ chainBest' = Genesis /\ mBestChain' = Genesis /\ branch' = <<>>
  BY DEF GenesisTip, txVars
<1>4. /\ Empty /\ coins = CoinsAt[Genesis] /\ leaves = LeavesAt(Genesis) /\ Genesis \in index
      /\ applied = <<>> /\ spent = NoSpent
  BY <1>1 DEF SafeInv, SafeStep, GenesisInv, ScratchInv
<1>5. ChainTypes' /\ IndexInv' /\ UndoInv'
  BY <1>2, <1>3, GenesisFacts DEF SafeInv, ChainTypes, IndexInv, UndoInv
<1>6. Sound'
  BY <1>2, <1>3, <1>4 DEF Sound, Below
<1>7. DiskInv'
  <2>1. DiskSource' = NoKey
    BY <1>2, <1>4 DEF DiskSource, Empty
  <2>2. Trails(dCoins, chainBest)'
    BY <1>2, <1>3, <1>4 DEF Trails, Empty, NoCoins
  <2>3. Lagging'
    BY <2>1, <2>2 DEF Lagging
  <2> QED BY <1>2, <1>3, <1>4, <2>3 DEF DiskInv, Empty
<1>8. SafeStep'
  BY <1>1, <1>3, <1>4, <1>6 DEF SafeStep, HeldInv, SafePhases, Phases, Resting, GenesisInv, RedoInv,
     BranchInv, JoinInv, LeaveInv, ScratchInv
<1> QED BY <1>5, <1>7, <1>8 DEF SafeInv

\* The next block to connect stands on the tip.
LEMMA NextOnTip ==
    ASSUME ChainTypes, IndexInv, Path(chainBest)
    PROVE  /\ Head(branch) \in index \ {Genesis} /\ Head(branch) \in Hash /\ Flat(Head(branch))
           /\ Parent[Head(branch)] = chainBest
           /\ Pre(Head(branch)) = CoinsAt[chainBest] /\ PreL(Head(branch)) = LeavesAt(chainBest)
<1>1. branch \in Seq(Hash) /\ branch # <<>> /\ Linked(chainBest, branch)
      /\ \A i \in DOMAIN branch : branch[i] \in index
  BY DEF ChainTypes, Path
<1>2. Head(branch) \in Hash \ {Genesis} /\ Parent[Head(branch)] = chainBest
  BY <1>1, LinkedTail
<1>3. Head(branch) \in index
  <2>1. Head(branch) = branch[1] /\ 1 \in DOMAIN branch
    BY <1>1
  <2> QED BY <1>1, <2>1
<1>4. Flat(Head(branch))
  BY <1>3 DEF IndexInv
<1> QED BY <1>2, <1>3, <1>4 DEF Pre, PreL

\* Where the coins on their way through a block start and end.
LEMMA PartlyEnds ==
    ASSUME NEW b \in Hash, NEW c
    PROVE  /\ Partly(c, b, {}) <=> \A o \in Outpoint : c[o] = NoCoin \/ c[o] = Pre(b)[o]
           /\ Below(c, b) => Partly(c, b, TxsOf(b))
           /\ /\ Partly(c, b, TxsOf(b))
              /\ \A t \in TxsOf(b) : FreshTx(t, b) /\ \A o \in Ins[t] : c[o] = NoCoin
              => Below(c, b)
<1>1. Partly(c, b, {}) <=> \A o \in Outpoint : c[o] = NoCoin \/ c[o] = Pre(b)[o]
  BY DEF Partly
<1>2. ASSUME Below(c, b) PROVE Partly(c, b, TxsOf(b))
  <2>1. ASSUME NEW o \in Outpoint
        PROVE  \/ CoinsAt[b][o] = NoCoin \/ CoinsAt[b][o] = Pre(b)[o]
               \/ \E t \in TxsOf(b) : o \in Outs[t]
    BY CoinsEquation DEF After, Creates
  <2> QED BY <1>2, <2>1 DEF Below, Partly
<1>3. ASSUME Partly(c, b, TxsOf(b)), NEW o \in Outpoint,
             \A t \in TxsOf(b) : FreshTx(t, b) /\ \A p \in Ins[t] : c[p] = NoCoin
      PROVE  c[o] = NoCoin \/ c[o] = CoinsAt[b][o]
  <2>1. CASE \A t \in TxsOf(b) : o \notin Touches(t)
    BY <1>3, <2>1, Untouched DEF Partly
  <2>2. ASSUME NEW t \in TxsOf(b), o \in Touches(t)
        PROVE  c[o] = NoCoin \/ c[o] = CoinsAt[b][o]
    BY <1>3, <2>2 DEF Partly, Touches, FreshTx
  <2> QED BY <2>1, <2>2
<1> QED BY <1>1, <1>2, <1>3 DEF Below

LEMMA ConnectBlockSafe ==
    ASSUME SafeInv, ConnectBlock
    PROVE  SafeInv'
<1> DEFINE h == Head(branch)
<1>1. pc \in {"disconnect", "connect"} /\ op = "connect"
  BY DEF SafeInv, SafeStep, HeldInv, SafePhases, Phases, ConnectBlock
<1>2. UNCHANGED <<mode, coins, leaves, best, dCoins, dLeaves, dBest, dHeads>>
  BY DEF ConnectBlock, storeVars
<1>3. UNCHANGED <<index, undo, chainBest, mBestChain, branch, back, applied, spent>>
  BY DEF ConnectBlock, chainDisk, tipVars
<1>4. Sound /\ Still /\ applied = <<>> /\ spent = NoSpent
  BY <1>1, SafeRest DEF Resting
<1>5. Path(chainBest)
  <2>1. (pc = "disconnect" => Path(fork)) /\ (pc = "connect" => Path(chainBest))
    BY DEF SafeInv, SafeStep, BranchInv
  <2>2. pc = "disconnect" => fork = chainBest
    BY <1>4 DEF ConnectBlock, Sound
  <2> QED BY <1>1, <2>1, <2>2
<1>6. Sound' /\ Still' /\ DiskInv' /\ Path(chainBest)'
  <2>1. Path(chainBest)'
    BY <1>3, <1>5 DEF Path
  <2> QED BY <1>2, <1>3, <1>4, <2>1, DiskFrame, SoundFrame DEF SafeInv
<1>7. CASE h \in HeaderOK
  <2>1. pc' = "apply" /\ op' = "connect" /\ todo' = BlockTxs[h] /\ failed' = failed
    BY <1>7 DEF ConnectBlock, Goto
  <2>2. h \in Hash /\ Pre(h) = CoinsAt[chainBest] /\ PreL(h) = LeavesAt(chainBest)
    BY <1>5, NextOnTip DEF SafeInv
  <2>3. ToSet(todo') = TxsOf(h) /\ ToSet(applied) = {} /\ todo' \in Seq(Tx)
    BY <1>4, <2>1, <2>2, TxFacts DEF TxsOf, ToSet
  <2>4. ChainTypes' /\ IndexInv' /\ UndoInv'
    BY <1>2, <1>3, <2>1, <2>3 DEF SafeInv, ChainTypes, IndexInv, UndoInv
  <2> HIDE DEF h
  <2>5. Partly(coins, h, {}) /\ PreL(h) \subseteq leaves
    BY <1>4, <2>2 DEF Sound, Below, Partly
  <2>6. spent = Taken(h, {})
    BY <1>4, TakenNone
  <2>7. JoinInv'
    <3>1. /\ (TxsOf(Head(branch)) = ToSet(applied) \cup ToSet(todo))'
          /\ Partly(coins, Head(branch), ToSet(applied))'
          /\ (PreL(Head(branch)) \subseteq leaves)'
          /\ ToSet(applied)' = {}
          /\ (spent = Taken(Head(branch), ToSet(applied)))'
      BY <1>2, <1>3, <2>3, <2>5, <2>6 DEF h
    <3> QED BY <1>6, <2>1, <3>1 DEF JoinInv, Sound
  <2>8. SafeStep'
    BY <1>1, <1>3, <1>6, <2>1, <2>7 DEF SafeInv, SafeStep, HeldInv, SafePhases, Phases, Resting,
       GenesisInv, RedoInv, BranchInv, LeaveInv, ScratchInv
  <2> QED BY <1>6, <2>4, <2>8 DEF SafeInv
<1>8. CASE h \notin HeaderOK
  <2>1. pc' = "rollback" /\ op' = "connect" /\ todo' = todo /\ failed' = TRUE
    BY <1>8 DEF ConnectBlock, Goto
  <2>2. ChainTypes' /\ IndexInv' /\ UndoInv'
    BY <1>2, <1>3, <2>1 DEF SafeInv, ChainTypes, IndexInv, UndoInv
  <2>3. SafeStep'
    BY <1>3, <1>4, <1>6, <2>1 DEF SafeStep, HeldInv, SafePhases, Phases, Resting, GenesisInv,
       RedoInv, BranchInv, JoinInv, LeaveInv, ScratchInv
  <2> QED BY <1>6, <2>2, <2>3 DEF SafeInv
<1> QED BY <1>7, <1>8

LEMMA DisconnectTipSafe ==
    ASSUME SafeInv, DisconnectTip
    PROVE  SafeInv'
<1>1. /\ op = "connect"
      /\ pc = "disconnect" \/ (pc = "rollback" /\ failed)
  <2>1. op = "connect" /\ pc \in {"disconnect", "rollback"}
    BY DEF SafeInv, SafeStep, HeldInv, SafePhases, Phases, DisconnectTip
  <2> QED BY <2>1 DEF SafeInv, SafeStep, BranchInv
<1>2. UNCHANGED <<mode, coins, leaves, best, dCoins, dLeaves, dBest, dHeads>>
  BY DEF DisconnectTip, storeVars
<1>3. UNCHANGED <<index, undo, chainBest, mBestChain, back, applied>>
  BY DEF DisconnectTip, chainDisk, tipVars
<1>4. Sound /\ Still /\ applied = <<>> /\ spent = NoSpent
  BY <1>1, SafeRest DEF Resting
<1>5. Sound' /\ Still' /\ DiskInv'
  BY <1>2, <1>3, <1>4, DiskFrame, SoundFrame DEF SafeInv
<1>6. CASE undo[mBestChain] = NoKey
  <2>1. pc' = "idle" /\ op' = "idle" /\ branch' = <<>> /\ todo' = todo /\ spent' = spent
    BY <1>6 DEF DisconnectTip, Return, Goto
  <2>2. ChainTypes' /\ IndexInv' /\ UndoInv'
    BY <1>2, <1>3, <2>1 DEF SafeInv, ChainTypes, IndexInv, UndoInv
  <2>3. SafeStep'
    BY <1>3, <1>4, <1>5, <2>1 DEF SafeStep, HeldInv, SafePhases, Phases, Resting, GenesisInv,
       RedoInv, BranchInv, JoinInv, LeaveInv, ScratchInv
  <2> QED BY <1>5, <2>2, <2>3 DEF SafeInv
<1>7. CASE undo[mBestChain] # NoKey
  <2>1. /\ pc' = "undo" /\ op' = "undo" /\ todo' = BlockTxs[mBestChain] /\ spent' = undo[mBestChain]
        /\ UNCHANGED <<fork, branch, failed>>
    BY <1>7 DEF DisconnectTip, Goto
  <2>2. /\ mBestChain = chainBest /\ best \in {chainBest, Zero}
        /\ chainBest \in index /\ chainBest \in Hash
        /\ Below(coins, chainBest) /\ LeavesAt(chainBest) \subseteq leaves
        /\ Below(dCoins, chainBest)
    BY <1>4 DEF Sound, Still, SafeInv, ChainTypes
  <2>3. chainBest # Genesis
    BY <1>7, <2>2 DEF SafeInv, UndoInv
  <2>4. todo' \in Seq(Tx) /\ ToSet(todo') = TxsOf(chainBest)
    BY <2>1, <2>2, TxFacts DEF TxsOf
  <2>5. ChainTypes' /\ IndexInv' /\ UndoInv'
    BY <1>2, <1>3, <2>1, <2>4 DEF SafeInv, ChainTypes, IndexInv, UndoInv
  <2>6. /\ Partly(coins, chainBest, TxsOf(chainBest)) /\ Partly(dCoins, chainBest, TxsOf(chainBest))
        /\ PreL(chainBest) \subseteq leaves
    BY <2>2, PartlyEnds, LeavesEquation
  <2>7. /\ Partly(coins, chainBest, ToSet(todo))'
        /\ Partly(dCoins, chainBest, ToSet(todo))'
        /\ (ToSet(todo) \subseteq TxsOf(chainBest))'
        /\ (PreL(chainBest) \subseteq leaves)'
    BY <1>2, <1>3, <2>2, <2>4, <2>6
  <2>8. LeaveInv'
    BY <1>2, <1>3, <1>5, <1>7, <2>1, <2>2, <2>3, <2>7 DEF LeaveInv
  <2>9. ~failed' => Path(fork)'
    <3>1. pc = "disconnect" => Path(fork)
      BY DEF SafeInv, SafeStep, BranchInv
    <3> QED BY <1>1, <1>3, <2>1, <3>1 DEF Path
  <2>10. SafeStep'
    BY <1>3, <1>4, <2>1, <2>8, <2>9 DEF SafeStep, HeldInv, SafePhases, Phases, Resting, GenesisInv,
       RedoInv, BranchInv, JoinInv, ScratchInv
  <2> QED BY <1>5, <2>5, <2>10 DEF SafeInv
<1> QED BY <1>6, <1>7

LEMMA ApplyFailsSafe ==
    ASSUME SafeInv, ApplyFails
    PROVE  SafeInv'
<1> DEFINE h == Head(branch)
<1>1. pc = "apply" /\ op = "connect" /\ pc' = "unapply" /\ op' = "connect"
  BY DEF ApplyFails, Goto
<1>2. UNCHANGED <<mode, coins, leaves, best, dCoins, dLeaves, dBest, dHeads>>
  BY DEF ApplyFails, storeVars
<1>3. UNCHANGED <<index, undo, chainBest, mBestChain, branch, back, todo, applied, spent>>
  BY DEF ApplyFails, chainDisk, tipVars, plan, txVars
<1>4. ChainTypes' /\ IndexInv' /\ UndoInv'
  BY <1>2, <1>3 DEF SafeInv, ChainTypes, IndexInv, UndoInv
<1>5. /\ mBestChain = chainBest /\ best \in {chainBest, Zero} /\ chainBest \in index
      /\ Still /\ Path(chainBest) /\ PreL(h) \subseteq leaves
      /\ Partly(coins, h, ToSet(applied))
      /\ TxsOf(h) = ToSet(applied) \cup ToSet(todo)
      /\ \A t \in ToSet(applied) : FreshTx(t, h)
      /\ spent = Taken(h, ToSet(applied))
  BY <1>1 DEF SafeInv, SafeStep, JoinInv, BranchInv
<1>6. \A t \in ToSet(applied) : \A o \in Ins[t] : spent[o] = Pre(h)[o]
  BY <1>5 DEF Taken
<1> HIDE DEF h
<1>7. Still' /\ DiskInv' /\ Path(chainBest)'
  <2>1. Path(chainBest)'
    BY <1>3, <1>5 DEF Path
  <2> QED BY <1>2, <1>3, <1>5, <2>1, DiskFrame DEF SafeInv
<1>8. /\ Partly(coins, Head(branch), ToSet(applied))'
      /\ (PreL(Head(branch)) \subseteq leaves)'
      /\ (\A t \in ToSet(applied) : /\ t \in TxsOf(Head(branch)) /\ FreshTx(t, Head(branch))
                                    /\ \A o \in Ins[t] : spent[o] = Pre(Head(branch))[o])'
  BY <1>2, <1>3, <1>5, <1>6 DEF h
<1>9. JoinInv'
  BY <1>1, <1>2, <1>3, <1>5, <1>7, <1>8 DEF JoinInv
<1>10. SafeStep'
  BY <1>1, <1>3, <1>7, <1>9 DEF SafeStep, HeldInv, SafePhases, Phases, Resting, GenesisInv, RedoInv,
     BranchInv, LeaveInv, ScratchInv
<1> QED BY <1>4, <1>7, <1>10 DEF SafeInv

\* The steps of ApplyTransaction and UndoTransaction on coins that may lack some.
LEMMA PartlyApply ==
    ASSUME NEW b \in Hash, Flat(b), NEW t \in TxsOf(b), NEW c \in View, NEW D,
           Partly(c, b, D)
    PROVE  Partly(AppliedTo(c, t, Height[b]), b, D \cup {t})
<1>1. PICK d \in View : d = AppliedTo(c, t, Height[b])
  BY AppliedCoin
<1>2. \A o \in Outpoint : d[o] = IF o \in Touches(t) THEN CoinsAt[b][o] ELSE c[o]
  BY <1>1, AppliedCoin
<1>3. \A o \in Ins[t] : o \in Outpoint => CoinsAt[b][o] = NoCoin
  BY TouchedAfter
<1>4. ASSUME NEW o \in Outpoint
      PROVE  \/ d[o] = NoCoin \/ d[o] = Pre(b)[o]
             \/ d[o] = CoinsAt[b][o] /\ \E u \in D \cup {t} : o \in Outs[u]
  <2>1. CASE o \in Outs[t]
    BY <1>2, <2>1 DEF Touches
  <2>2. CASE o \in Ins[t]
    BY <1>2, <1>3, <2>2 DEF Touches
  <2>3. CASE o \notin Touches(t)
    BY <1>2, <2>3 DEF Partly
  <2> QED BY <2>1, <2>2, <2>3 DEF Touches
<1> QED BY <1>1, <1>4 DEF Partly

LEMMA PartlyUndo ==
    ASSUME NEW b \in Hash, NEW t \in TxsOf(b), FreshTx(t, b), NEW c \in View, NEW D,
           NEW sp, DOMAIN sp = Ins[t], \A o \in Ins[t] : sp[o] = Pre(b)[o],
           Partly(c, b, D \cup {t})
    PROVE  /\ Restored(Without(c, Outs[t]), sp) \in View
           /\ Partly(Restored(Without(c, Outs[t]), sp), b, D)
<1>1. PICK d : d = Restored(Without(c, Outs[t]), sp)
  OBVIOUS
<1>2. d \in View
  BY <1>1, UndoOne
<1>3. ASSUME NEW o \in Outpoint PROVE d[o] = IF o \in Touches(t) THEN Pre(b)[o] ELSE c[o]
  BY <1>1 DEF Restored, Without, Touches, FreshTx
<1>4. Partly(d, b, D)
  BY <1>3 DEF Partly, Touches
<1> QED BY <1>1, <1>2, <1>4

LEMMA PartlyErase ==
    ASSUME NEW b, NEW x, NEW t, NEW c \in View, NEW D
    PROVE  /\ Without(c, Outs[t]) \in View
           /\ Partly(c, b, D \cup {t}) => Partly(Without(c, Outs[t]), b, D)
           /\ Below(c, x) => Below(Without(c, Outs[t]), x)
<1>1. Without(c, Outs[t]) \in View
  BY DEF Without, View
<1>2. Partly(c, b, D \cup {t}) => Partly(Without(c, Outs[t]), b, D)
  BY DEF Partly, Without
<1>3. Below(c, x) => Below(Without(c, Outs[t]), x)
  BY DEF Below, Without
<1> QED BY <1>1, <1>2, <1>3

LEMMA ApplyTxSafe ==
    ASSUME SafeInv, ApplyTx
    PROVE  SafeInv'
<1>1. pc = "apply" /\ op \in {"genesis", "connect"} /\ pc' = "apply" /\ op' = op /\ todo # <<>>
  BY DEF SafeInv, SafeStep, HeldInv, SafePhases, Phases, ApplyTx
<1>2. UNCHANGED <<index, undo, chainBest, mBestChain, branch, back>>
  BY DEF ApplyTx, chainDisk, tipVars, plan
<1>3. todo \in Seq(Tx) /\ applied \in Seq(Tx) /\ coins \in View
  BY DEF SafeInv, ChainTypes
<1>4. /\ Head(todo) \in ToSet(todo) /\ Head(todo) \in Tx /\ Tail(todo) \in Seq(Tx)
      /\ ToSet(todo) = ToSet(Tail(todo)) \cup {Head(todo)}
  <2>1. Head(todo) \in ToSet(todo) /\ ToSet(todo) \subseteq Tx
    BY <1>1, <1>3, SeqSets
  <2>2. Tail(todo) \in Seq(Tx)
    BY <1>1, <1>3, SeqSets
  <2>3. ToSet(todo) = ToSet(Tail(todo)) \cup {Head(todo)}
    BY <1>1, <1>3, SeqSets
  <2> QED BY <2>1, <2>2, <2>3
<1>5. PICK t \in Tx : t = Head(todo)
  BY <1>4
<1>6. PICK D, E : D = ToSet(Tail(todo)) /\ E = ToSet(applied)
  OBVIOUS
<1>7. /\ coins' = AppliedTo(coins, t, ApplyHeight) /\ leaves' = leaves \cup Lvs[t]
      /\ UNCHANGED <<mode, best, dCoins, dLeaves, dBest, dHeads>>
      /\ \A o \in Ins[t] : coins[o] # NoCoin
      /\ t \notin Coinbase => Lvs[t] # {} /\ Lvs[t] \cap leaves = {}
      /\ todo' = Tail(todo) /\ applied' = Append(applied, t)
      /\ spent' = [o \in DOMAIN spent \cup Ins[t] |-> IF o \in Ins[t] THEN coins[o] ELSE spent[o]]
  BY <1>5 DEF ApplyTx, Apply, CanApply, diskVars
<1>8. todo' \in Seq(Tx) /\ applied' \in Seq(Tx) /\ ToSet(todo)' = D /\ ToSet(applied)' = E \cup {t}
  <2>1. Append(applied, t) \in Seq(Tx) /\ ToSet(Append(applied, t)) = ToSet(applied) \cup {t}
    BY <1>3, SeqSets
  <2> QED BY <1>4, <1>6, <1>7, <2>1
<1>9. DiskInv' /\ (Still => Still')
  BY <1>2, <1>7, DiskFrame DEF SafeInv
<1>10. CASE op = "genesis"
  <2>1. /\ Empty /\ Advance(coins, Genesis, D \cup {t}) /\ LeavesOn(leaves, Genesis, D \cup {t})
        /\ D \cup {t} \subseteq TxsOf(Genesis)
    BY <1>1, <1>4, <1>5, <1>6, <1>10 DEF SafeInv, SafeStep, GenesisInv
  <2>2. coins' = AppliedTo(coins, t, Height[Genesis])
    BY <1>7, <1>10, GenesisFacts DEF ApplyHeight
  <2>3. coins' \in View /\ Advance(coins', Genesis, D) /\ LeavesOn(leaves', Genesis, D)
    <3>1. t \in TxsOf(Genesis) /\ Genesis \in Hash /\ Flat(Genesis)
      BY <2>1, GenesisFacts
    <3>2. coins' \in View
      BY <1>3, <2>2, <3>1, AppliedCoin
    <3>3. Advance(coins', Genesis, D)
      BY <1>3, <2>1, <2>2, <3>1, ApplyOne
    <3>4. LeavesOn(leaves', Genesis, D)
      BY <1>7, <2>1, <3>1, LeafSteps
    <3> QED BY <3>2, <3>3, <3>4
  <2>4. ChainTypes' /\ IndexInv' /\ UndoInv'
    BY <1>1, <1>2, <1>7, <1>8, <2>3 DEF SafeInv, ChainTypes, IndexInv, UndoInv
  <2>5. /\ Empty'
        /\ Advance(coins, Genesis, ToSet(todo))'
        /\ LeavesOn(leaves, Genesis, ToSet(todo))'
        /\ (ToSet(todo) \subseteq TxsOf(Genesis))'
    <3>1. Empty'
      BY <1>2, <1>7, <2>1 DEF Empty
    <3> QED BY <1>8, <2>1, <2>3, <3>1
  <2>6. SafeStep'
    BY <1>1, <1>10, <2>5 DEF SafeStep, HeldInv, SafePhases, Phases, Resting, GenesisInv, RedoInv,
       BranchInv, JoinInv, LeaveInv, ScratchInv
  <2> QED BY <1>9, <2>4, <2>6 DEF SafeInv
<1>11. CASE op = "connect"
  <2>1. /\ mBestChain = chainBest /\ best \in {chainBest, Zero} /\ chainBest \in index
        /\ Still /\ Path(chainBest)
    BY <1>1, <1>11 DEF SafeInv, SafeStep, JoinInv, BranchInv
  <2>2. PICK h \in Hash : /\ h = Head(branch) /\ Flat(h) /\ h # Genesis /\ Parent[h] = chainBest
    BY <2>1, NextOnTip DEF SafeInv
  <2>3. /\ TxsOf(h) = E \cup (D \cup {t})
        /\ Partly(coins, h, E) /\ PreL(h) \subseteq leaves
        /\ \A u \in E : /\ FreshTx(u, h) /\ Lvs[u] \subseteq leaves
                        /\ \A o \in Ins[u] : coins[o] = NoCoin
        /\ spent = Taken(h, E)
    BY <1>1, <1>4, <1>5, <1>6, <1>11, <2>2 DEF SafeInv, SafeStep, JoinInv
  <2>4. coins' = AppliedTo(coins, t, Height[h])
    BY <1>7, <1>11, <2>1, <2>2, TreeFacts DEF ApplyHeight
  <2>5. t \in TxsOf(h)
    BY <2>3
  <2>6. FreshTx(t, h)
    BY <1>7, <2>3, <2>5, AppliedIsFresh
  <2>7. /\ coins' \in View /\ Partly(coins', h, E \cup {t})
        /\ \A o \in Outpoint : coins'[o] = IF o \in Touches(t) THEN CoinsAt[h][o] ELSE coins[o]
    <3>1. /\ coins' \in View
          /\ \A o \in Outpoint : coins'[o] = IF o \in Touches(t) THEN CoinsAt[h][o] ELSE coins[o]
      BY <1>3, <2>2, <2>4, <2>5, AppliedCoin
    <3>2. Partly(coins', h, E \cup {t})
      BY <1>3, <2>2, <2>3, <2>4, <2>5, PartlyApply
    <3> QED BY <3>1, <3>2
  <2>8. ASSUME NEW u \in E \cup {t}, NEW o \in Ins[u] PROVE coins'[o] = NoCoin
    <3>1. o \in Outpoint /\ u \in TxsOf(h)
      BY <2>3, <2>5, TxFacts
    <3>2. CoinsAt[h][o] = NoCoin
      BY <2>2, <3>1, TouchedAfter
    <3>3. u = t => o \in Touches(t)
      BY DEF Touches
    <3> QED BY <2>3, <2>7, <3>1, <3>2, <3>3
  <2>9. ASSUME NEW o \in Ins[t] PROVE coins[o] = Pre(h)[o]
    <3>1. o \in Outpoint /\ coins[o] # NoCoin
      BY <1>7, <2>5, TxFacts
    <3>2. \A u \in E : o \notin Outs[u]
      BY <2>2, <2>3, <2>5 DEF Flat
    <3> QED BY <2>3, <3>1, <3>2 DEF Partly
  <2>10. spent' = Taken(h, E \cup {t})
    <3>1. DOMAIN spent = UNION {Ins[u] : u \in E} /\ \A o \in DOMAIN spent : spent[o] = Pre(h)[o]
      BY <2>3 DEF Taken
    <3>2. DOMAIN spent \cup Ins[t] = UNION {Ins[u] : u \in E \cup {t}}
      BY <3>1
    <3>3. \A o \in DOMAIN spent \cup Ins[t] :
              (IF o \in Ins[t] THEN coins[o] ELSE spent[o]) = Pre(h)[o]
      BY <2>9, <3>1
    <3> QED BY <1>7, <3>2, <3>3 DEF Taken
  <2>11. ChainTypes' /\ IndexInv' /\ UndoInv'
    BY <1>1, <1>2, <1>7, <1>8, <2>7 DEF SafeInv, ChainTypes, IndexInv, UndoInv
  <2>12. Still' /\ Path(chainBest)' /\ Head(branch)' = h
    BY <1>2, <1>9, <2>1, <2>2 DEF Path
  <2>13. /\ (TxsOf(Head(branch)) = ToSet(applied) \cup ToSet(todo))'
         /\ Partly(coins, Head(branch), ToSet(applied))'
         /\ (PreL(Head(branch)) \subseteq leaves)'
         /\ (spent = Taken(Head(branch), ToSet(applied)))'
    BY <1>7, <1>8, <2>3, <2>7, <2>10, <2>12
  <2>14. (\A u \in ToSet(applied) :
              /\ FreshTx(u, Head(branch)) /\ Lvs[u] \subseteq leaves
              /\ \A o \in Ins[u] : coins[o] = NoCoin)'
    BY <1>7, <1>8, <2>3, <2>6, <2>8, <2>12
  <2>15. JoinInv'
    BY <1>1, <1>2, <1>7, <1>11, <2>1, <2>12, <2>13, <2>14 DEF JoinInv
  <2>16. SafeStep'
    BY <1>1, <1>11, <2>12, <2>15 DEF SafeStep, HeldInv, SafePhases, Phases, Resting, GenesisInv,
       RedoInv, BranchInv, LeaveInv, ScratchInv
  <2> QED BY <1>9, <2>11, <2>16 DEF SafeInv
<1> QED BY <1>1, <1>10, <1>11

LEMMA UnapplySafe ==
    ASSUME SafeInv, Unapply
    PROVE  SafeInv'
<1>1. pc = "unapply" /\ op = "connect" /\ pc' = "unapply" /\ op' = "connect" /\ applied # <<>>
  BY DEF SafeInv, SafeStep, HeldInv, SafePhases, Phases, Unapply
<1>2. UNCHANGED <<index, undo, chainBest, mBestChain, branch, back, todo, spent>>
  BY DEF Unapply, chainDisk, tipVars, plan
<1>3. /\ mBestChain = chainBest /\ best \in {chainBest, Zero} /\ chainBest \in index
      /\ Still /\ Path(chainBest)
      /\ applied \in Seq(Tx) /\ coins \in View /\ dCoins \in View
  BY <1>1 DEF SafeInv, SafeStep, JoinInv, BranchInv, ChainTypes
<1>4. PICK h \in Hash : h = Head(branch)
  BY <1>3, NextOnTip DEF SafeInv
<1>5. /\ Partly(coins, h, ToSet(applied)) /\ PreL(h) \subseteq leaves
      /\ \A u \in ToSet(applied) : /\ u \in TxsOf(h) /\ FreshTx(u, h)
                                   /\ \A o \in Ins[u] : spent[o] = Pre(h)[o]
  BY <1>1, <1>4 DEF SafeInv, SafeStep, JoinInv
<1>6. /\ Last(applied) \in ToSet(applied) /\ Front(applied) \in Seq(Tx)
      /\ ToSet(applied) = ToSet(Front(applied)) \cup {Last(applied)}
  BY <1>1, <1>3, SeqSets
<1>7. PICK t \in TxsOf(h) : t = Last(applied) /\ FreshTx(t, h) /\ \A o \in Ins[t] : spent[o] = Pre(h)[o]
  BY <1>5, <1>6
<1>8. PICK E : E = ToSet(Front(applied)) /\ ToSet(applied) = E \cup {t}
  BY <1>6, <1>7
<1>9. /\ coins' = Restored(Without(coins, Outs[t]), SpentBy(t)) /\ leaves' = leaves \ Lvs[t]
      /\ dCoins' = Without(dCoins, Outs[t])
      /\ UNCHANGED <<mode, best, dLeaves, dBest, dHeads>>
      /\ applied' = Front(applied)
  BY <1>7 DEF Unapply, Undo
<1>10. coins' \in View /\ Partly(coins', h, E)
  <2>1. PICK sp : sp = SpentBy(t)
    OBVIOUS
  <2>2. DOMAIN sp = Ins[t] /\ \A o \in Ins[t] : sp[o] = Pre(h)[o]
    BY <1>7, <2>1 DEF SpentBy
  <2> QED BY <1>3, <1>5, <1>7, <1>8, <1>9, <2>1, <2>2, PartlyUndo
<1>11. PreL(h) \subseteq leaves'
  BY <1>5, <1>7, <1>9 DEF FreshTx
<1>12. dCoins' \in View /\ Still'
  <2>1. dCoins' \in View /\ Below(dCoins', chainBest)
    BY <1>3, <1>9, PartlyErase DEF Still
  <2>2. DiskSource' = DiskSource
    BY <1>9 DEF DiskSource
  <2> QED BY <1>2, <1>3, <1>9, <2>1, <2>2 DEF Still
<1>13. ChainTypes' /\ IndexInv' /\ UndoInv' /\ DiskInv'
  <2>1. DiskInv'
    BY <1>2, <1>3, <1>9, <1>12 DEF SafeInv, DiskInv
  <2> QED BY <1>1, <1>2, <1>6, <1>9, <1>10, <1>12, <2>1 DEF SafeInv, ChainTypes, IndexInv, UndoInv
<1>14. Path(chainBest)' /\ Head(branch)' = h /\ ToSet(applied)' = E
  BY <1>2, <1>3, <1>4, <1>8, <1>9 DEF Path
<1>15. /\ Partly(coins, Head(branch), ToSet(applied))'
       /\ (PreL(Head(branch)) \subseteq leaves)'
       /\ (\A u \in ToSet(applied) : /\ u \in TxsOf(Head(branch)) /\ FreshTx(u, Head(branch))
                                     /\ \A o \in Ins[u] : spent[o] = Pre(Head(branch))[o])'
  BY <1>2, <1>5, <1>8, <1>10, <1>11, <1>14
<1>16. JoinInv'
  BY <1>1, <1>2, <1>3, <1>9, <1>12, <1>15 DEF JoinInv
<1>17. SafeStep'
  BY <1>1, <1>14, <1>16 DEF SafeStep, HeldInv, SafePhases, Phases, Resting, GenesisInv, RedoInv,
     BranchInv, LeaveInv, ScratchInv
<1> QED BY <1>13, <1>17 DEF SafeInv

LEMMA UnappliedSafe ==
    ASSUME SafeInv, Unapplied
    PROVE  SafeInv'
<1>1. /\ pc = "unapply" /\ op = "connect" /\ pc' = "rollback" /\ op' = "connect"
      /\ applied = <<>> /\ failed' = TRUE
  BY DEF SafeInv, SafeStep, HeldInv, SafePhases, Phases, Unapplied, Goto
<1>2. UNCHANGED <<mode, coins, leaves, best, dCoins, dLeaves, dBest, dHeads>>
  BY DEF Unapplied, storeVars
<1>3. /\ UNCHANGED <<index, undo, chainBest, mBestChain, branch, back, applied>>
      /\ todo' = <<>> /\ spent' = NoSpent
  BY DEF Unapplied, chainDisk, tipVars
<1>4. /\ mBestChain = chainBest /\ best \in {chainBest, Zero} /\ chainBest \in index
      /\ Still /\ Path(chainBest)
  BY <1>1 DEF SafeInv, SafeStep, JoinInv, BranchInv
<1>5. PICK h \in Hash : /\ h = Head(branch) /\ Pre(h) = CoinsAt[chainBest]
                        /\ PreL(h) = LeavesAt(chainBest)
  BY <1>4, NextOnTip DEF SafeInv
<1>6. Partly(coins, h, {}) /\ PreL(h) \subseteq leaves
  <2>1. ToSet(applied) = {}
    BY <1>1 DEF ToSet
  <2> QED BY <1>1, <1>5, <2>1 DEF SafeInv, SafeStep, JoinInv
<1>7. Sound
  BY <1>4, <1>5, <1>6, PartlyEnds DEF Sound, Below
<1>8. ChainTypes' /\ IndexInv' /\ UndoInv'
  BY <1>1, <1>2, <1>3 DEF SafeInv, ChainTypes, IndexInv, UndoInv
<1>9. Sound' /\ Still' /\ DiskInv'
  BY <1>2, <1>3, <1>4, <1>7, DiskFrame, SoundFrame DEF SafeInv
<1>10. SafeStep'
  BY <1>1, <1>3, <1>9 DEF SafeStep, HeldInv, SafePhases, Phases, Resting, GenesisInv, RedoInv,
     BranchInv, JoinInv, LeaveInv, ScratchInv
<1> QED BY <1>8, <1>9, <1>10 DEF SafeInv

LEMMA RecordBlockSafe ==
    ASSUME SafeInv, RecordBlock
    PROVE  SafeInv'
<1>1. pc = "apply" /\ op = "connect" /\ todo = <<>> /\ pc' = "tip" /\ op' = "connect"
  BY DEF RecordBlock, Goto
<1>2. UNCHANGED <<mode, coins, leaves, best, dCoins, dLeaves, dBest, dHeads>>
  BY DEF RecordBlock, storeVars
<1>3. /\ mBestChain = chainBest /\ best \in {chainBest, Zero} /\ chainBest \in index
      /\ Still /\ Path(chainBest)
  BY <1>1 DEF SafeInv, SafeStep, JoinInv, BranchInv
<1>4. PICK h \in Hash : h = Head(branch) /\ h \in index \ {Genesis}
  BY <1>3, NextOnTip DEF SafeInv
<1>5. /\ UNCHANGED <<index, chainBest, mBestChain, branch, back, todo>>
      /\ undo' = [undo EXCEPT ![h] = spent]
      /\ applied' = <<>> /\ spent' = NoSpent
  BY <1>4 DEF RecordBlock, tipVars, plan
<1>6. /\ Partly(coins, h, TxsOf(h)) /\ PreL(h) \subseteq leaves
      /\ \A t \in TxsOf(h) : /\ FreshTx(t, h) /\ Lvs[t] \subseteq leaves
                             /\ \A o \in Ins[t] : coins[o] = NoCoin
      /\ spent = Taken(h, TxsOf(h))
  <2>1. ToSet(todo) = {}
    BY <1>1 DEF ToSet
  <2>2. ToSet(applied) = TxsOf(h)
    BY <1>1, <1>4, <2>1 DEF SafeInv, SafeStep, JoinInv
  <2> QED BY <1>1, <1>4, <2>2 DEF SafeInv, SafeStep, JoinInv
<1>7. Below(coins, h) /\ LeavesAt(h) \subseteq leaves
  <2>1. Below(coins, h)
    BY <1>6, PartlyEnds
  <2>2. LeavesAt(h) = PreL(h) \cup UNION {Lvs[t] : t \in TxsOf(h)}
    BY LeavesEquation
  <2> QED BY <1>6, <2>1, <2>2
<1>8. spent # NoKey
  <2>1. Taken(h, TxsOf(h)) \in [Consumes(h) -> Coin \cup {NoCoin}]
    BY TxFacts, PreType DEF Taken, Consumes, View
  <2> QED BY <1>6, <2>1, OriginAssumption
<1>9. undo' = [b \in Hash |-> IF b = h THEN spent ELSE undo[b]]
  BY <1>5 DEF SafeInv, ChainTypes
<1>10. UndoInv'
  BY <1>4, <1>5, <1>6, <1>9 DEF SafeInv, UndoInv
<1>11. ChainTypes' /\ IndexInv'
  BY <1>1, <1>2, <1>5, <1>9 DEF SafeInv, ChainTypes, IndexInv
<1>12. Still' /\ DiskInv' /\ Path(chainBest)'
  <2>1. DiskSource' = DiskSource
    BY <1>2 DEF DiskSource
  <2>2. Still'
    BY <1>2, <1>3, <1>5, <2>1 DEF Still, Below
  <2> QED BY <1>2, <1>3, <1>5, <2>2 DEF SafeInv, DiskInv, Path
<1>13. Head(branch)' = h
  BY <1>4, <1>5
<1>14. JoinInv'
  BY <1>1, <1>2, <1>3, <1>4, <1>5, <1>6, <1>7, <1>8, <1>9, <1>12, <1>13 DEF JoinInv, Below
<1>15. SafeStep'
  BY <1>1, <1>5, <1>12, <1>14 DEF SafeStep, HeldInv, SafePhases, Phases, Resting, GenesisInv, RedoInv,
     BranchInv, LeaveInv, ScratchInv
<1> QED BY <1>10, <1>11, <1>12, <1>15 DEF SafeInv

LEMMA TipForwardSafe ==
    ASSUME SafeInv, TipForward
    PROVE  SafeInv'
<1>1. pc = "tip" /\ op = "connect" /\ pc' = "flush" /\ op' = "connect"
  BY DEF TipForward, Goto
<1>2. /\ chainBest \in index /\ Still /\ Path(chainBest)
      /\ applied = <<>> /\ spent = NoSpent
  BY <1>1 DEF SafeInv, SafeStep, JoinInv, BranchInv, ScratchInv
<1>3. PICK h \in Hash : /\ h = Head(branch) /\ h \in index \ {Genesis} /\ Parent[h] = chainBest
                        /\ Pre(h) = CoinsAt[chainBest] /\ PreL(h) = LeavesAt(chainBest)
  BY <1>2, NextOnTip DEF SafeInv
<1>4. /\ Below(coins, h) /\ LeavesAt(h) \subseteq leaves /\ undo[h] # NoKey
  BY <1>1, <1>3 DEF SafeInv, SafeStep, JoinInv
<1>5. UNCHANGED <<coins, leaves, dCoins, dLeaves, dBest, dHeads>> /\ best' = h
  BY <1>3 DEF TipForward, MoveTip, SetBest, diskVars
<1>6. /\ UNCHANGED <<index, undo, branch, back, todo, applied, spent>>
      /\ chainBest' = h /\ mBestChain' = h
  BY <1>3 DEF TipForward, MoveTip, plan, txVars
<1>7. ChainTypes' /\ IndexInv' /\ UndoInv'
  BY <1>1, <1>5, <1>6 DEF SafeInv, ChainTypes, IndexInv, UndoInv
<1>8. Sound'
  BY <1>3, <1>4, <1>5, <1>6 DEF Sound, Below
<1>9. DiskInv'
  <2>1. \A t \in TxsOf(h) : FreshTx(t, h)
    BY <1>4 DEF SafeInv, UndoInv
  <2>2. Trails(dCoins, h)
    <3> SUFFICES ASSUME NEW o \in Outpoint, dCoins[o] # NoCoin, o \notin Consumes(h)
                 PROVE  dCoins[o] = CoinsAt[h][o]
      BY DEF Trails
    <3>1. dCoins[o] = Pre(h)[o]
      BY <1>2, <1>3 DEF Still, Below
    <3>2. \A t \in TxsOf(h) : o \notin Touches(t)
      BY <2>1, <3>1 DEF FreshTx, Consumes, Touches
    <3> QED BY <3>1, <3>2, Untouched
  <2>3. DiskSource' = DiskSource
    BY <1>5 DEF DiskSource
  <2>4. Lagging'
    BY <1>2, <1>3, <1>5, <1>6, <2>2, <2>3 DEF Lagging, Still, Trails
  <2> QED BY <1>3, <1>5, <1>6, <2>4 DEF SafeInv, DiskInv
<1>10. Path(Parent[chainBest])' /\ Head(branch)' = chainBest'
  BY <1>2, <1>3, <1>6 DEF Path
<1>11. SafeStep'
  BY <1>1, <1>2, <1>6, <1>8, <1>10 DEF SafeStep, HeldInv, SafePhases, Phases, Resting, GenesisInv,
     RedoInv, BranchInv, JoinInv, LeaveInv, ScratchInv
<1> QED BY <1>7, <1>9, <1>11 DEF SafeInv

LEMMA TipBackSafe ==
    ASSUME SafeInv, TipBack
    PROVE  SafeInv'
<1>1. pc = "undo" /\ op = "undo" /\ todo = <<>> /\ pc' = "flush" /\ op' = "disconnect"
  BY DEF TipBack, Goto
<1>2. /\ mBestChain = chainBest /\ chainBest \in index \ {Genesis}
      /\ undo[chainBest] # NoKey /\ Still
      /\ Partly(dCoins, chainBest, {}) /\ Partly(coins, chainBest, {})
      /\ PreL(chainBest) \subseteq leaves
      /\ applied = <<>>
      /\ ~failed => Path(fork)
  <2>1. ToSet(todo) = {}
    BY <1>1 DEF ToSet
  <2> QED BY <1>1, <2>1 DEF SafeInv, SafeStep, LeaveInv, ScratchInv, BranchInv
<1>3. PICK b \in Hash \ {Genesis} : b = chainBest
  BY <1>2 DEF SafeInv, ChainTypes
<1>4. UNCHANGED <<coins, leaves, dCoins, dLeaves, dBest, dHeads>> /\ best' = Parent[b]
  BY <1>2, <1>3 DEF TipBack, SetBest, diskVars
<1>5. /\ UNCHANGED <<index, undo, fork, branch, back, failed, applied>>
      /\ chainBest' = Parent[b] /\ mBestChain' = Parent[b]
      /\ todo' = BlockTxs[b] /\ spent' = NoSpent
  BY <1>2, <1>3 DEF TipBack, plan
<1>6. /\ Below(coins, Parent[b]) /\ Below(dCoins, Parent[b])
      /\ LeavesAt(Parent[b]) = PreL(b)
  <2>1. Pre(b) = CoinsAt[Parent[b]] /\ LeavesAt(Parent[b]) = PreL(b)
    BY DEF Pre, PreL
  <2> QED BY <1>2, <1>3, <2>1, PartlyEnds DEF Below
<1>7. Parent[b] \in index /\ Parent[b] \in Hash /\ todo' \in Seq(Tx)
  BY <1>2, <1>3, <1>5, TxFacts DEF SafeInv, IndexInv, ChainTypes
<1>8. ChainTypes' /\ IndexInv' /\ UndoInv'
  BY <1>1, <1>4, <1>5, <1>7 DEF SafeInv, ChainTypes, IndexInv, UndoInv
<1>9. Sound'
  BY <1>2, <1>3, <1>4, <1>5, <1>6, <1>7 DEF Sound, Below
<1>10. DiskInv'
  <2>1. DiskSource' = DiskSource /\ DiskSource \in {b, Zero}
    BY <1>2, <1>3, <1>4 DEF DiskSource, Still
  <2>2. Below(dCoins, chainBest)' /\ (LeavesAt(chainBest) \subseteq dLeaves)'
    <3>1. PreL(b) \subseteq dLeaves
      BY <1>2, <1>3, LeavesEquation DEF Still
    <3> QED BY <1>4, <1>5, <1>6, <3>1 DEF Below
  <2>3. CASE DiskSource = b
    <3>1. Leading'
      BY <1>2, <1>3, <1>5, <2>1, <2>2, <2>3 DEF Leading
    <3> QED BY <1>4, <1>5, <1>7, <3>1 DEF SafeInv, DiskInv
  <2>4. CASE DiskSource = Zero
    <3>1. Still'
      BY <2>1, <2>2, <2>4 DEF Still
    <3> QED BY <1>4, <1>5, <1>7, <3>1 DEF SafeInv, DiskInv
  <2> QED BY <2>1, <2>3, <2>4
<1>11. ~failed' => Path(fork)'
  BY <1>2, <1>5 DEF Path
<1>12. SafeStep'
  BY <1>1, <1>2, <1>5, <1>9, <1>11 DEF SafeStep, HeldInv, SafePhases, Phases, Resting, GenesisInv,
     RedoInv, BranchInv, JoinInv, LeaveInv, ScratchInv
<1> QED BY <1>8, <1>10, <1>12 DEF SafeInv

LEMMA UndoTxSafe ==
    ASSUME SafeInv, UndoTx
    PROVE  SafeInv'
<1>1. pc = "undo" /\ op \in {"undo", "replay"} /\ pc' = "undo" /\ op' = op /\ todo # <<>>
  BY DEF SafeInv, SafeStep, HeldInv, SafePhases, Phases, UndoTx
<1>2. UNCHANGED <<index, undo, chainBest, mBestChain, fork, branch, back, failed, applied, spent>>
  BY DEF UndoTx, chainDisk, tipVars, plan
<1>3. PICK b \in Hash : b = IF op = "undo" THEN chainBest ELSE DiskSource
  BY <1>1 DEF SafeInv, SafeStep, RedoInv, LeaveInv, Leading, ChainTypes
<1>4. /\ undo[b] # NoKey /\ spent = undo[b] /\ ToSet(todo) \subseteq TxsOf(b) /\ applied = <<>>
  BY <1>1, <1>3 DEF SafeInv, SafeStep, RedoInv, LeaveInv, ScratchInv, Leading
<1>5. /\ spent = Taken(b, TxsOf(b)) /\ (\A t \in TxsOf(b) : FreshTx(t, b))
      /\ coins \in View /\ dCoins \in View /\ todo \in Seq(Tx)
  BY <1>4 DEF SafeInv, UndoInv, ChainTypes
<1>6. PICK t \in TxsOf(b) :
          /\ t = Last(todo) /\ ToSet(todo) = ToSet(Front(todo)) \cup {t}
          /\ Front(todo) \in Seq(Tx)
  BY <1>1, <1>4, <1>5, SeqSets
<1>7. PICK D : D = ToSet(Front(todo))
  OBVIOUS
<1>8. PICK sp : /\ sp = SpentBy(t) /\ DOMAIN sp = Ins[t]
                /\ \A o \in Ins[t] : sp[o] = Pre(b)[o]
  <2>1. \A o \in Ins[t] : spent[o] = Pre(b)[o]
    BY <1>5 DEF Taken
  <2>2. DOMAIN SpentBy(t) = Ins[t] /\ \A o \in Ins[t] : SpentBy(t)[o] = Pre(b)[o]
    BY <2>1 DEF SpentBy
  <2> QED BY <2>2
<1>9. /\ coins' = Restored(Without(coins, Outs[t]), sp) /\ leaves' = leaves \ Lvs[t]
      /\ dCoins' = Without(dCoins, Outs[t])
      /\ UNCHANGED <<mode, best, dLeaves, dBest, dHeads>>
      /\ todo' = Front(todo)
  BY <1>6, <1>8 DEF UndoTx, Undo
<1>10. FreshTx(t, b)
  BY <1>5
<1>11. /\ coins' \in View /\ dCoins' \in View
       /\ Below(dCoins, chainBest) => Below(dCoins', chainBest)
  <2>1. coins' \in View
    BY <1>5, <1>8, <1>9, <1>10, UndoOne
  <2> QED BY <1>5, <1>9, <2>1, PartlyErase
<1>12. ChainTypes' /\ IndexInv' /\ UndoInv'
  BY <1>1, <1>2, <1>6, <1>9, <1>11 DEF SafeInv, ChainTypes, IndexInv, UndoInv
<1>13. ToSet(todo)' = D /\ DiskSource' = DiskSource
  BY <1>7, <1>9 DEF DiskSource
<1>14. CASE op = "undo"
  <2>1. /\ mBestChain = chainBest /\ best \in {chainBest, Zero} /\ chainBest \in index \ {Genesis}
        /\ Still /\ b = chainBest
        /\ Partly(dCoins, b, D \cup {t}) /\ Partly(coins, b, D \cup {t}) /\ PreL(b) \subseteq leaves
        /\ ~failed => Path(fork)
    BY <1>1, <1>3, <1>6, <1>7, <1>14 DEF SafeInv, SafeStep, LeaveInv, BranchInv
  <2>2. Partly(dCoins', b, D)
    BY <1>5, <1>9, <2>1, PartlyErase
  <2>3. Partly(coins', b, D)
    BY <1>5, <1>8, <1>9, <1>10, <2>1, PartlyUndo
  <2>4. Still'
    BY <1>2, <1>9, <1>11, <1>13, <2>1 DEF Still
  <2>5. /\ (ToSet(todo) \subseteq TxsOf(chainBest))'
        /\ Partly(dCoins, chainBest, ToSet(todo))'
        /\ Partly(coins, chainBest, ToSet(todo))'
        /\ (PreL(chainBest) \subseteq leaves)'
    <3>1. PreL(b) \subseteq leaves'
      BY <1>9, <1>10, <2>1 DEF FreshTx
    <3>2. chainBest' = b /\ D \subseteq TxsOf(b)
      BY <1>2, <1>4, <1>6, <1>7, <2>1
    <3> QED BY <1>13, <2>2, <2>3, <3>1, <3>2
  <2>6. LeaveInv'
    BY <1>2, <1>4, <1>9, <2>1, <2>4, <2>5 DEF LeaveInv
  <2>7. DiskInv'
    BY <1>2, <1>9, <2>1, <2>4 DEF SafeInv, DiskInv
  <2>8. ~failed' => Path(fork)'
    BY <1>2, <2>1 DEF Path
  <2>9. SafeStep'
    BY <1>1, <1>2, <1>4, <1>14, <2>6, <2>8 DEF SafeStep, HeldInv, SafePhases, Phases, Resting,
       GenesisInv, RedoInv, BranchInv, JoinInv, ScratchInv
  <2> QED BY <1>12, <2>7, <2>9 DEF SafeInv
<1>15. CASE op = "replay"
  <2>1. /\ mBestChain = chainBest /\ chainBest \in index /\ EndOfChain(branch)
        /\ back = <<>> /\ branch = <<>> /\ Leading /\ b = DiskSource
        /\ Lacks(coins, leaves, chainBest, {})
    BY <1>1, <1>3, <1>15 DEF SafeInv, SafeStep, RedoInv
  <2>2. Pre(b) = CoinsAt[chainBest] /\ PreL(b) = LeavesAt(chainBest)
    BY <2>1 DEF Leading, Pre, PreL
  <2>3. Leading'
    BY <1>2, <1>9, <1>11, <1>13, <2>1 DEF Leading
  <2>4. Lacks(coins', leaves', chainBest, {})
    <3>1. ASSUME NEW o \in Outpoint PROVE coins'[o] = IF o \in Touches(t) THEN Pre(b)[o] ELSE coins[o]
      BY <1>8, <1>9, <1>10 DEF Restored, Without, Touches, FreshTx
    <3>2. LeavesAt(chainBest) \subseteq leaves'
      BY <1>9, <1>10, <2>1, <2>2 DEF FreshTx, Lacks
    <3> QED BY <2>1, <2>2, <3>1, <3>2 DEF Lacks
  <2>5. /\ (spent = undo[DiskSource])'
        /\ (ToSet(todo) \subseteq TxsOf(DiskSource))'
        /\ Lacks(coins, leaves, chainBest, {})'
        /\ EndOfChain(branch)'
    BY <1>2, <1>4, <1>6, <1>7, <1>13, <2>1, <2>4 DEF EndOfChain
  <2>6. DiskInv'
    BY <1>2, <1>9, <2>1, <2>3 DEF SafeInv, DiskInv
  <2>7. SafeStep'
    BY <1>1, <1>2, <1>4, <1>15, <2>1, <2>3, <2>5 DEF SafeStep, HeldInv, SafePhases, Phases, Resting,
       GenesisInv, RedoInv, BranchInv, JoinInv, LeaveInv, ScratchInv
  <2> QED BY <1>12, <2>6, <2>7 DEF SafeInv
<1> QED BY <1>1, <1>14, <1>15

LEMMA ReplayUndoneSafe ==
    ASSUME SafeInv, ReplayUndone
    PROVE  SafeInv'
<1>1. pc = "undo" /\ op = "replay" /\ pc' = "rollback" /\ op' = "replay"
  BY DEF ReplayUndone, Goto
<1>2. UNCHANGED <<mode, coins, leaves, best, dCoins, dLeaves, dBest, dHeads>>
  BY DEF ReplayUndone, storeVars
<1>3. /\ UNCHANGED <<index, undo, chainBest, mBestChain, branch, back, todo, applied>>
      /\ spent' = NoSpent
  BY DEF ReplayUndone, chainDisk, tipVars, plan
<1>4. /\ mBestChain = chainBest /\ chainBest \in index /\ EndOfChain(branch)
      /\ back = <<>> /\ branch = <<>>
      /\ Lacks(coins, leaves, chainBest, {})
      /\ applied = <<>>
  BY <1>1 DEF SafeInv, SafeStep, RedoInv, ScratchInv
<1>5. ChainTypes' /\ IndexInv' /\ UndoInv' /\ DiskInv'
  <2>1. DiskInv'
    BY <1>2, <1>3, DiskFrame DEF SafeInv
  <2> QED BY <1>2, <1>3, <2>1 DEF SafeInv, ChainTypes, IndexInv, UndoInv
<1>6. Lacks(coins, leaves, chainBest, TxsIn(branch))' /\ EndOfChain(branch)'
  <2>1. TxsIn(<<>>) = {}
    BY DEF TxsIn, ToSet
  <2> QED BY <1>2, <1>3, <1>4, <2>1 DEF EndOfChain
<1>7. SafeStep'
  BY <1>1, <1>3, <1>4, <1>6 DEF SafeStep, HeldInv, SafePhases, Phases, Resting, GenesisInv, RedoInv,
     BranchInv, JoinInv, LeaveInv, ScratchInv
<1> QED BY <1>5, <1>7 DEF SafeInv

\* Wherever a commit stands, the marker on disk names the block that it was before.
LEMMA MarkerKept ==
    ASSUME SafeInv, Sound, dBest' = NoKey, dHeads' = <<best, OldTip>>
    PROVE  /\ DiskSource' = IF DiskSource = NoKey THEN Zero ELSE DiskSource
           /\ dHeads'[2] # NoKey
<1>1. chainBest \in Hash /\ best \in Hash \cup {Zero} /\ NoKey \notin Hash /\ Zero # NoKey
  BY AbsenceAssumption DEF Sound, SafeInv, ChainTypes
<1>2. DiskSource \in Hash \cup {Zero, NoKey}
  BY <1>1, TreeFacts DEF SafeInv, DiskInv, Empty, Still, Lagging, Leading
<1>3. OldTip = IF DiskSource = NoKey THEN Zero ELSE DiskSource
  <2>1. dHeads = NoKey \/ dBest = NoKey
    BY DEF SafeInv, DiskInv
  <2>2. CASE dHeads = NoKey
    BY <2>2 DEF OldTip, DiskSource
  <2>3. CASE dHeads # NoKey /\ dBest = NoKey
    <3>1. OldTip = dHeads[2] /\ DiskSource = dHeads[2]
      BY <2>3 DEF OldTip, DiskSource
    <3>2. dHeads[2] # NoKey
      BY <2>3 DEF SafeInv, DiskInv
    <3> QED BY <3>1, <3>2
  <2> QED BY <2>1, <2>2, <2>3
<1>4. <<best, OldTip>> \in (Hash \cup {Zero}) \X (Hash \cup {Zero})
  BY <1>1, <1>2, <1>3
<1>5. dHeads' # NoKey /\ dHeads'[2] = OldTip
  BY <1>4, AbsenceAssumption
<1> QED BY <1>1, <1>3, <1>5 DEF DiskSource

LEMMA FlushBeginSafe ==
    ASSUME SafeInv, FlushBegin
    PROVE  SafeInv'
<1>1. /\ pc = "flush" /\ <<pc, op>> \in SafePhases /\ pc' = "flushing" /\ op' = op
  BY DEF SafeInv, SafeStep, HeldInv, FlushBegin, Goto
<1>2. /\ dBest' = NoKey /\ dHeads' = <<best, OldTip>>
      /\ op # "close" => mode' = "flushing"
      /\ UNCHANGED <<coins, leaves, best, dCoins, dLeaves>>
  BY DEF FlushBegin, BeginFlush
<1>3. UNCHANGED <<index, undo, chainBest, mBestChain, fork, branch, back, failed, todo, applied, spent>>
  BY DEF FlushBegin, chainDisk, tipVars, plan, txVars
<1>4. Sound /\ applied = <<>> /\ spent = NoSpent
  BY <1>1 DEF SafeInv, SafeStep, HeldInv, ScratchInv
<1>5. chainBest \in Hash /\ chainBest # NoKey /\ Zero # NoKey
  BY <1>4, AbsenceAssumption DEF Sound, SafeInv, ChainTypes
<1>6. ChainTypes' /\ IndexInv' /\ UndoInv'
  BY <1>2, <1>3 DEF SafeInv, ChainTypes, IndexInv, UndoInv
<1>7. Sound'
  BY <1>2, <1>3, <1>4, SoundFrame
<1>8. /\ DiskSource' = IF DiskSource = NoKey THEN Zero ELSE DiskSource
      /\ dHeads'[2] # NoKey
  BY <1>2, <1>4, MarkerKept
<1>9. DiskInv'
  <2>1. Still \/ Lagging \/ Leading
    BY <1>5 DEF SafeInv, DiskInv, Empty
  <2>2. Still => Still'
    BY <1>2, <1>3, <1>5, <1>8 DEF Still, Below
  <2>3. Lagging => Lagging'
    BY <1>2, <1>3, <1>8 DEF Lagging, Trails
  <2>4. Leading => Leading'
    <3>1. NoKey \notin Hash
      BY AbsenceAssumption
    <3> QED BY <1>2, <1>3, <1>8, <3>1 DEF Leading, Below
  <2>5. (chainBest \in index)'
    BY <1>7 DEF Sound
  <2> QED BY <1>2, <1>8, <2>1, <2>2, <2>3, <2>4, <2>5 DEF DiskInv
<1>10. BranchInv'
  <2>1. op = "connect" => Path(Parent[chainBest]) /\ Head(branch) = chainBest
    BY <1>1 DEF SafeInv, SafeStep, BranchInv
  <2>2. op = "disconnect" /\ ~failed => Path(fork)
    BY <1>1 DEF SafeInv, SafeStep, BranchInv
  <2>3. op = "connect" => Path(Parent[chainBest])' /\ Head(branch)' = chainBest'
    BY <1>3, <2>1 DEF Path
  <2>4. op = "disconnect" /\ ~failed' => Path(fork)'
    BY <1>3, <2>2 DEF Path
  <2>5. op # "undo"
    BY <1>1 DEF SafePhases, Phases
  <2> QED BY <1>1, <2>3, <2>4, <2>5 DEF BranchInv
<1>11. <<pc, op>>' \in SafePhases
  BY <1>1 DEF SafePhases, Phases
<1>12. SafeStep'
  BY <1>1, <1>2, <1>3, <1>4, <1>7, <1>10, <1>11 DEF SafeStep, HeldInv, Resting, GenesisInv, RedoInv,
     JoinInv, LeaveInv, ScratchInv
<1> QED BY <1>6, <1>9, <1>12 DEF SafeInv

LEMMA FlushSomeSafe ==
    ASSUME SafeInv, FlushSome
    PROVE  SafeInv'
<1>1. pc = "flushing" /\ <<pc, op>> \in SafePhases /\ pc' = pc /\ op' = op
  BY DEF SafeInv, SafeStep, HeldInv, FlushSome
<1>2. PICK S : WriteSome(S)
  BY DEF FlushSome
<1>3. /\ dCoins' = Patch(dCoins, coins, S)
      /\ UNCHANGED <<mode, coins, leaves, best, dLeaves, dBest, dHeads>>
  BY <1>2 DEF WriteSome
<1>4. UNCHANGED <<index, undo, chainBest, mBestChain, fork, branch, back, failed, todo, applied, spent>>
  BY DEF FlushSome, chainDisk, tipVars, plan, txVars
<1>5. Sound /\ applied = <<>> /\ spent = NoSpent
  BY <1>1 DEF SafeInv, SafeStep, HeldInv, ScratchInv
<1>6. chainBest \in Hash /\ chainBest # NoKey /\ coins \in View /\ dCoins \in View
  BY <1>5, AbsenceAssumption DEF Sound, SafeInv, ChainTypes
<1>7. dCoins' \in View
  BY <1>3, <1>6 DEF Patch, View
<1>8. ChainTypes' /\ IndexInv' /\ UndoInv'
  BY <1>3, <1>4, <1>7 DEF SafeInv, ChainTypes, IndexInv, UndoInv
<1>9. Sound'
  BY <1>3, <1>4, <1>5, SoundFrame
<1>10. DiskInv'
  <2>1. Still \/ Lagging \/ Leading
    BY <1>6 DEF SafeInv, DiskInv, Empty
  <2>2. DiskSource' = DiskSource
    BY <1>3 DEF DiskSource
  <2>3. \A o \in Outpoint : dCoins'[o] = IF o \in S THEN coins[o] ELSE dCoins[o]
    BY <1>3 DEF Patch
  <2>4. Below(dCoins, chainBest) => Below(dCoins, chainBest)'
    BY <1>4, <1>5, <2>3 DEF Below, Sound
  <2>5. Trails(dCoins, chainBest) => Trails(dCoins, chainBest)'
    BY <1>4, <1>5, <2>3 DEF Below, Sound, Trails
  <2>6. Still => Still'
    BY <1>3, <1>4, <2>2, <2>4 DEF Still
  <2>7. Lagging => Lagging'
    BY <1>3, <1>4, <2>2, <2>5 DEF Lagging
  <2>8. Leading => Leading'
    BY <1>3, <1>4, <2>2, <2>4 DEF Leading
  <2>9. (chainBest \in index)'
    BY <1>9 DEF Sound
  <2> QED BY <1>3, <2>1, <2>6, <2>7, <2>8, <2>9 DEF SafeInv, DiskInv
<1>11. BranchInv'
  <2>1. op = "connect" => Path(Parent[chainBest]) /\ Head(branch) = chainBest
    BY <1>1 DEF SafeInv, SafeStep, BranchInv
  <2>2. op = "disconnect" /\ ~failed => Path(fork)
    BY <1>1 DEF SafeInv, SafeStep, BranchInv
  <2>3. op = "connect" => Path(Parent[chainBest])' /\ Head(branch)' = chainBest'
    BY <1>4, <2>1 DEF Path
  <2>4. op = "disconnect" /\ ~failed' => Path(fork)'
    BY <1>4, <2>2 DEF Path
  <2>5. op # "undo"
    BY <1>1 DEF SafePhases, Phases
  <2> QED BY <1>1, <2>3, <2>4, <2>5 DEF BranchInv
<1>12. <<pc, op>>' \in SafePhases /\ (pc = "flushing" /\ op # "close" => mode = "flushing")'
  BY <1>1, <1>3 DEF SafeInv, SafeStep, HeldInv
<1>13. SafeStep'
  BY <1>1, <1>4, <1>5, <1>9, <1>11, <1>12 DEF SafeStep, HeldInv, Resting, GenesisInv, RedoInv,
     JoinInv, LeaveInv, ScratchInv
<1> QED BY <1>8, <1>10, <1>13 DEF SafeInv

LEMMA FlushEndSafe ==
    ASSUME SafeInv, FlushEnd
    PROVE  SafeInv'
<1>1. /\ pc = "flushing" /\ mode = "flushing"
      /\ \/ op \in {"connect", "disconnect"} /\ pc' = "flushed" /\ op' = op
         \/ op = "genesis" /\ pc' = "check" /\ op' = "boot"
         \/ op \in {"replay", "repair"} /\ pc' = "ready" /\ op' = "boot"
         \/ op = "sync" /\ pc' = "idle" /\ op' = "idle"
  BY DEF SafeInv, SafeStep, HeldInv, FlushEnd, Goto
<1>2. /\ dCoins' = coins /\ dLeaves' = leaves /\ dBest' = best /\ dHeads' = NoKey
      /\ UNCHANGED <<coins, leaves, best>>
  BY <1>1 DEF FlushEnd, Commit
<1>3. UNCHANGED <<index, undo, chainBest, mBestChain, fork, branch, back, failed, todo, applied, spent>>
  BY DEF FlushEnd, chainDisk, tipVars, plan, txVars
<1>4. Sound /\ applied = <<>> /\ spent = NoSpent
  BY <1>1 DEF SafeInv, SafeStep, HeldInv, ScratchInv
<1>5. chainBest \in Hash /\ NoKey \notin Hash /\ Zero # NoKey
  BY <1>4, AbsenceAssumption DEF Sound, SafeInv, ChainTypes
<1>6. ChainTypes' /\ IndexInv' /\ UndoInv'
  BY <1>2, <1>3 DEF SafeInv, ChainTypes, IndexInv, UndoInv
<1>7. Sound'
  BY <1>2, <1>3, <1>4, SoundFrame
<1>8. Still' /\ DiskInv'
  <2>1. DiskSource' = best /\ best \in {chainBest, Zero}
    BY <1>2, <1>4 DEF DiskSource, Sound
  <2>2. Still'
    BY <1>2, <1>3, <1>4, <2>1 DEF Still, Sound, Below
  <2> QED BY <1>2, <1>7, <2>2 DEF DiskInv, Sound
<1>9. BranchInv'
  <2>1. op = "connect" => Path(Parent[chainBest]) /\ Head(branch) = chainBest
    BY <1>1 DEF SafeInv, SafeStep, BranchInv
  <2>2. op = "disconnect" /\ ~failed => Path(fork)
    BY <1>1 DEF SafeInv, SafeStep, BranchInv
  <2>3. op = "connect" => Path(Parent[chainBest])' /\ Head(branch)' = chainBest'
    BY <1>3, <2>1 DEF Path
  <2>4. op = "disconnect" /\ ~failed' => Path(fork)'
    BY <1>3, <2>2 DEF Path
  <2> QED BY <1>1, <2>3, <2>4 DEF BranchInv
<1>10. RedoInv'
  BY <1>1, <1>2, <1>4, <1>5, <1>7 DEF RedoInv, Sound
<1>11. SafeStep'
  BY <1>1, <1>3, <1>4, <1>7, <1>8, <1>9, <1>10 DEF SafeStep, HeldInv, SafePhases, Phases, Resting,
     GenesisInv, JoinInv, LeaveInv, ScratchInv
<1> QED BY <1>6, <1>8, <1>11 DEF SafeInv

LEMMA ClosedSafe ==
    ASSUME SafeInv, Closed
    PROVE  SafeInv'
<1>1. pc = "flushing" /\ op = "close" /\ pc' = "down" /\ op' = "idle"
  BY DEF Closed, Goto
<1>2. /\ dCoins' = coins /\ dLeaves' = leaves /\ dBest' = best /\ dHeads' = NoKey
      /\ UNCHANGED <<coins, leaves>>
  BY DEF Closed, Commit
<1>3. /\ UNCHANGED <<index, undo, chainBest>>
      /\ mBestChain' = Zero /\ branch' = <<>> /\ back' = <<>> /\ todo' = <<>> /\ applied' = <<>>
      /\ spent' = NoSpent
  BY DEF Closed, Blank, chainDisk
<1>4. Sound
  BY <1>1 DEF SafeInv, SafeStep, HeldInv
<1>5. ChainTypes' /\ IndexInv' /\ UndoInv'
  BY <1>2, <1>3 DEF SafeInv, ChainTypes, IndexInv, UndoInv
<1>6. DiskInv'
  <2>1. DiskSource' = best /\ best \in {chainBest, Zero}
    BY <1>2, <1>4 DEF DiskSource, Sound
  <2>2. Still'
    BY <1>2, <1>3, <1>4, <2>1 DEF Still, Sound, Below
  <2> QED BY <1>2, <1>3, <1>4, <2>2 DEF DiskInv, Sound
<1>7. SafeStep'
  BY <1>1, <1>3 DEF SafeStep, HeldInv, SafePhases, Phases, Resting, GenesisInv, RedoInv, BranchInv,
     JoinInv, LeaveInv, ScratchInv
<1> QED BY <1>5, <1>6, <1>7 DEF SafeInv

\* A death at any step leaves the disk as it is.
LEMMA CrashSafe ==
    ASSUME SafeInv, Crash
    PROVE  SafeInv'
<1>1. pc' = "down" /\ op' = "idle"
  BY DEF Crash, Goto
<1>2. coins' = dCoins /\ UNCHANGED <<dCoins, dLeaves, dBest, dHeads>>
  BY DEF Crash, Die, diskVars
<1>3. /\ UNCHANGED <<index, undo, chainBest>>
      /\ mBestChain' = Zero /\ branch' = <<>> /\ back' = <<>> /\ todo' = <<>> /\ applied' = <<>>
      /\ spent' = NoSpent
  BY DEF Crash, Blank, chainDisk
<1>4. ChainTypes' /\ IndexInv' /\ UndoInv'
  BY <1>2, <1>3 DEF SafeInv, ChainTypes, IndexInv, UndoInv
<1>5. DiskInv'
  BY <1>2, <1>3, DiskFrame DEF SafeInv
<1>6. SafeStep'
  BY <1>1, <1>3 DEF SafeStep, HeldInv, SafePhases, Phases, Resting, GenesisInv, RedoInv, BranchInv,
     JoinInv, LeaveInv, ScratchInv
<1> QED BY <1>4, <1>5, <1>6 DEF SafeInv

LEMMA StutterSafe ==
    ASSUME SafeInv, UNCHANGED vars
    PROVE  SafeInv'
<1>1. /\ UNCHANGED <<mode, coins, leaves, best, dCoins, dLeaves, dBest, dHeads>>
      /\ UNCHANGED <<index, undo, chainBest, mBestChain, fork, branch, back, failed, todo, applied,
                     spent, pc, op>>
  BY DEF vars, storeVars, chainDisk, tipVars, plan, txVars
<1>2. ChainTypes' /\ IndexInv' /\ UndoInv'
  BY <1>1 DEF SafeInv, ChainTypes, IndexInv, UndoInv
<1>3. /\ DiskSource' = DiskSource
      /\ Still => Still'
      /\ Leading => Leading'
      /\ DiskInv'
      /\ Sound => Sound'
  BY <1>1, DiskFrame, SoundFrame DEF SafeInv
<1>4. /\ Path(fork)' <=> Path(fork)
      /\ Path(chainBest)' <=> Path(chainBest)
      /\ Path(Parent[chainBest])' <=> Path(Parent[chainBest])
      /\ Empty' <=> Empty
      /\ EndOfChain(branch)' <=> EndOfChain(branch)
  BY <1>1 DEF Path, Empty, EndOfChain
<1>5. HeldInv'
  BY <1>1, <1>3 DEF SafeInv, SafeStep, HeldInv, Resting
<1>6. GenesisInv' /\ BranchInv' /\ ScratchInv'
  BY <1>1, <1>4 DEF SafeInv, SafeStep, GenesisInv, BranchInv, ScratchInv
<1>7. RedoInv'
  BY <1>1, <1>3, <1>4 DEF SafeInv, SafeStep, RedoInv
<1>8. JoinInv' /\ LeaveInv'
  BY <1>1, <1>3 DEF SafeInv, SafeStep, JoinInv, LeaveInv
<1> QED BY <1>2, <1>3, <1>5, <1>6, <1>7, <1>8 DEF SafeInv, SafeStep

\* A coin that no later block of a branch touches stays as it is.
LEMMA Later ==
    ASSUME NEW b \in Hash, NEW a \in Ancestors(b), NEW o \in Outpoint,
           \A c \in Ancestors(b) : Height[c] > Height[a] => \A t \in TxsOf(c) : o \notin Touches(t)
    PROVE  CoinsAt[b][o] = CoinsAt[a][o]
<1> DEFINE P(x) == a \in Ancestors(x)
                       /\ (\A c \in Ancestors(x) : Height[c] > Height[a] =>
                               \A t \in TxsOf(c) : o \notin Touches(t))
                   => CoinsAt[x][o] = CoinsAt[a][o]
<1> DEFINE S == {x \in Hash : P(x)}
<1>1. P(Genesis)
  BY AncestorsStep
<1>2. ASSUME NEW x \in Hash \ {Genesis}, P(Parent[x]) PROVE P(x)
  <2>1. SUFFICES ASSUME a \in Ancestors(x), a # x,
                        \A c \in Ancestors(x) : Height[c] > Height[a] =>
                            \A t \in TxsOf(c) : o \notin Touches(t)
                 PROVE  CoinsAt[x][o] = CoinsAt[a][o]
    OBVIOUS
  <2>2. Ancestors(x) = Ancestors(Parent[x]) \cup {x}
    BY AncestorsStep
  <2>3. CoinsAt[Parent[x]][o] = CoinsAt[a][o]
    BY <1>2, <2>1, <2>2
  <2>4. Height[x] > Height[a]
    <3>1. Height[a] < Height[x] /\ Height[a] \in Nat /\ Height[x] \in Nat
      BY <2>1, AncestorFacts, TreeFacts
    <3> QED BY <3>1
  <2>5. CoinsAt[x][o] = Pre(x)[o]
    BY <2>1, <2>2, <2>4, Untouched
  <2> QED BY <2>3, <2>5 DEF Pre
<1>3. S = Hash
  <2>1. \A x \in Hash \ {Genesis} : Parent[x] \in S => x \in S
    BY <1>2
  <2>2. Genesis \in S
    BY <1>1, TreeFacts
  <2> HIDE DEF S
  <2> QED BY <2>1, <2>2, TreeInduction DEF S
<1>4. P(b)
  BY <1>3
<1> QED BY <1>4

\* The end of the chain that a replay still has to apply.
LEMMA EndFacts ==
    ASSUME chainBest \in Hash, NEW s \in Seq(Hash), EndOfChain(s), s # <<>>
    PROVE  /\ Head(s) \in Ancestors(chainBest)
           /\ EndOfChain(Tail(s))
           /\ \A c \in Ancestors(chainBest) : Height[c] > Height[Head(s)] => c \in ToSet(Tail(s))
<1>0. PICK H \in Nat, n \in Nat : H = Height[chainBest] /\ n = Len(s)
  BY TreeFacts
<1>1. H \in Nat /\ n \in Nat /\ n > 0 /\ n <= H + 1 /\ DOMAIN s = 1..n
  BY <1>0 DEF EndOfChain
<1>2. \A i \in 1..n : s[i] = PathTo[chainBest][H + 1 - n + i]
  BY <1>0, <1>1 DEF EndOfChain
<1>3. /\ PathTo[chainBest] \in Seq(Hash) /\ Len(PathTo[chainBest]) = H + 1
      /\ \A i \in 1..(H + 1) : Height[PathTo[chainBest][i]] = i - 1
  BY <1>0, PathEquation, PathShape
<1>4. Head(s) = PathTo[chainBest][H + 2 - n] /\ H + 2 - n \in 1..(H + 1)
  BY <1>1, <1>2
<1>5. Height[Head(s)] = H + 1 - n
  <2>1. PICK k \in 1..(H + 1) : k = H + 2 - n
    BY <1>4
  <2>2. Height[Head(s)] = k - 1
    BY <1>3, <1>4, <2>1
  <2> QED BY <1>1, <2>1, <2>2
<1>6. Head(s) \in Ancestors(chainBest)
  BY <1>3, <1>4 DEF Ancestors, ToSet
<1>7. /\ Tail(s) \in Seq(Hash) /\ Len(Tail(s)) = n - 1
      /\ \A i \in 1..(n - 1) : Tail(s)[i] = s[i + 1]
  BY <1>0, <1>1
<1>8. EndOfChain(Tail(s))
  <2>1. DOMAIN Tail(s) = 1..(n - 1) /\ Len(Tail(s)) <= H + 1
    BY <1>1, <1>7
  <2>2. ASSUME NEW i \in 1..(n - 1)
        PROVE  Tail(s)[i] = PathTo[chainBest][H + 1 - Len(Tail(s)) + i]
    <3>1. H + 1 - n + (i + 1) = H + 1 - Len(Tail(s)) + i /\ i + 1 \in 1..n
      BY <1>1, <1>7
    <3> QED BY <1>2, <1>7, <3>1
  <2> QED BY <1>0, <2>1, <2>2 DEF EndOfChain
<1>9. ASSUME NEW c \in Ancestors(chainBest), Height[c] > Height[Head(s)]
      PROVE  c \in ToSet(Tail(s))
  <2>1. PICK h \in Nat : h = Height[c] /\ h <= H
    BY <1>0, AncestorFacts, TreeFacts
  <2>2. PathTo[chainBest][h + 1] = c
    BY <2>1, AncestorPlace
  <2>3. PICK i \in 1..(n - 1) : i = h - H + n - 1
    BY <1>1, <1>5, <1>9, <2>1
  <2>4. Tail(s)[i] = s[i + 1] /\ s[i + 1] = PathTo[chainBest][H + 1 - n + (i + 1)]
    BY <1>1, <1>2, <1>7, <2>3
  <2>5. H + 1 - n + (i + 1) = h + 1
    <3>1. i \in Int /\ i = h - H + n - 1 /\ h \in Int /\ H \in Int /\ n \in Int
      BY <2>3
    <3> QED BY ONLY <3>1
  <2>6. Tail(s)[i] = c
    BY <2>2, <2>4, <2>5
  <2>7. DOMAIN Tail(s) = 1..(n - 1)
    BY <1>1, <1>7
  <2> QED BY <2>3, <2>6, <2>7 DEF ToSet
<1> QED BY <1>6, <1>8, <1>9

LEMMA TxsSplit ==
    ASSUME NEW s \in Seq(Hash), s # <<>>
    PROVE  TxsIn(s) = TxsOf(Head(s)) \cup TxsIn(Tail(s))
<1>1. ToSet(s) = ToSet(Tail(s)) \cup {Head(s)}
  BY SeqSets
<1> QED BY <1>1 DEF TxsIn

LEMMA ReplayBackSafe ==
    ASSUME SafeInv, ReplayBack
    PROVE  SafeInv'
<1>1. pc = "rollback" /\ op = "replay" /\ back # <<>>
  BY DEF ReplayBack
<1>2. UNCHANGED <<mode, coins, leaves, best, dCoins, dLeaves, dBest, dHeads>>
  BY DEF ReplayBack, storeVars
<1>3. UNCHANGED <<index, undo, chainBest, mBestChain, branch, applied>>
  BY DEF ReplayBack, chainDisk, tipVars
<1>4. /\ mBestChain = chainBest /\ chainBest \in index
      /\ back = <<DiskSource>> /\ branch = <<>> /\ Leading /\ EndOfChain(branch)
      /\ Lacks(coins, leaves, chainBest, TxsIn(branch))
      /\ applied = <<>>
  BY <1>1 DEF SafeInv, SafeStep, RedoInv, ScratchInv
<1>5. PICK S \in Hash : S = DiskSource
  BY <1>4 DEF Leading
<1>6. Head(back) = S /\ Tail(back) = <<>> /\ undo[S] # NoKey
  BY <1>4, <1>5 DEF Leading
<1>7. /\ pc' = "undo" /\ op' = "replay" /\ back' = <<>>
      /\ todo' = BlockTxs[S] /\ spent' = undo[S]
  BY <1>6 DEF ReplayBack, Goto
<1>8. todo' \in Seq(Tx) /\ ToSet(todo') = TxsOf(S)
  BY <1>7, TxFacts DEF TxsOf
<1>9. ChainTypes' /\ IndexInv' /\ UndoInv' /\ DiskInv'
  <2>1. DiskInv'
    BY <1>2, <1>3, DiskFrame DEF SafeInv
  <2> QED BY <1>2, <1>3, <1>7, <1>8, <2>1 DEF SafeInv, ChainTypes, IndexInv, UndoInv
<1>10. DiskSource' = S /\ Leading'
  BY <1>2, <1>3, <1>4, <1>5, DiskFrame
<1>11. Lacks(coins, leaves, chainBest, {})
  <2>1. TxsIn(<<>>) = {}
    BY DEF TxsIn, ToSet
  <2> QED BY <1>4, <2>1
<1>12. /\ (spent = undo[DiskSource])'
       /\ (ToSet(todo) \subseteq TxsOf(DiskSource))'
       /\ Lacks(coins, leaves, chainBest, {})'
       /\ EndOfChain(branch)'
  BY <1>2, <1>3, <1>4, <1>7, <1>8, <1>10, <1>11 DEF EndOfChain
<1>13. SafeStep'
  BY <1>3, <1>4, <1>7, <1>10, <1>12 DEF SafeStep, HeldInv, SafePhases, Phases, Resting, GenesisInv,
     RedoInv, BranchInv, JoinInv, LeaveInv, ScratchInv
<1> QED BY <1>9, <1>13 DEF SafeInv

LEMMA ReplayForwardSafe ==
    ASSUME SafeInv, ReplayForward
    PROVE  SafeInv'
<1>1. /\ pc = "rollback" /\ op = "replay" /\ back = <<>> /\ branch # <<>>
      /\ pc' = "reapply" /\ op' = "replay"
  BY DEF ReplayForward, Goto
<1>2. UNCHANGED <<mode, coins, leaves, best, dCoins, dLeaves, dBest, dHeads>>
  BY DEF ReplayForward, storeVars
<1>3. UNCHANGED <<index, undo, chainBest, mBestChain, branch, back, applied, spent>>
  BY DEF ReplayForward, chainDisk, tipVars, plan
<1>4. /\ mBestChain = chainBest /\ chainBest \in index /\ EndOfChain(branch)
      /\ Lacks(coins, leaves, chainBest, TxsIn(branch))
      /\ applied = <<>> /\ spent = NoSpent
  BY <1>1 DEF SafeInv, SafeStep, RedoInv, ScratchInv
<1>5. PICK h \in Hash : h = Head(branch)
  BY <1>1 DEF SafeInv, ChainTypes
<1>6. todo' = BlockTxs[h]
  BY <1>5 DEF ReplayForward
<1>7. todo' \in Seq(Tx) /\ ToSet(todo') = TxsOf(h)
  BY <1>6, TxFacts DEF TxsOf
<1>8. ChainTypes' /\ IndexInv' /\ UndoInv' /\ DiskInv'
  <2>1. DiskInv'
    BY <1>2, <1>3, DiskFrame DEF SafeInv
  <2> QED BY <1>2, <1>3, <1>7, <2>1 DEF SafeInv, ChainTypes, IndexInv, UndoInv
<1>9. TxsIn(branch) = ToSet(todo') \cup TxsIn(Tail(branch))
  BY <1>1, <1>5, <1>7, TxsSplit DEF SafeInv, ChainTypes
<1>10. /\ (ToSet(todo) \subseteq TxsOf(Head(branch)))'
       /\ Lacks(coins, leaves, chainBest, ToSet(todo) \cup TxsIn(Tail(branch)))'
       /\ EndOfChain(branch)'
  BY <1>2, <1>3, <1>4, <1>5, <1>7, <1>9 DEF EndOfChain
<1>11. SafeStep'
  BY <1>1, <1>3, <1>4, <1>10 DEF SafeStep, HeldInv, SafePhases, Phases, Resting, GenesisInv,
     RedoInv, BranchInv, JoinInv, LeaveInv, ScratchInv
<1> QED BY <1>8, <1>11 DEF SafeInv

LEMMA ReapplyTxSafe ==
    ASSUME SafeInv, ReapplyTx
    PROVE  SafeInv'
<1>1. pc = "reapply" /\ op = "replay" /\ pc' = "reapply" /\ op' = "replay" /\ todo # <<>>
  BY DEF SafeInv, SafeStep, HeldInv, SafePhases, Phases, ReapplyTx
<1>2. UNCHANGED <<index, undo, chainBest, mBestChain, branch, back, applied, spent>>
  BY DEF ReapplyTx, chainDisk, tipVars, plan
<1>3. /\ mBestChain = chainBest /\ chainBest \in index /\ back = <<>> /\ branch # <<>>
      /\ EndOfChain(branch)
      /\ ToSet(todo) \subseteq TxsOf(Head(branch))
      /\ Lacks(coins, leaves, chainBest, ToSet(todo) \cup TxsIn(Tail(branch)))
      /\ applied = <<>> /\ spent = NoSpent
  BY <1>1 DEF SafeInv, SafeStep, RedoInv, ScratchInv
<1>4. /\ chainBest \in Hash /\ coins \in View /\ todo \in Seq(Tx) /\ branch \in Seq(Hash)
      /\ index \subseteq Hash
  BY <1>3 DEF SafeInv, ChainTypes
<1>5. PICK h \in Ancestors(chainBest) :
          /\ h = Head(branch)
          /\ \A c \in Ancestors(chainBest) : Height[c] > Height[h] => c \in ToSet(Tail(branch))
  BY <1>3, <1>4, EndFacts
<1>6. h \in Hash /\ Flat(h)
  BY <1>3, <1>4, AncestorFacts, IndexClosed DEF SafeInv, IndexInv
<1>7. PICK t \in TxsOf(h) :
          /\ t = Head(todo) /\ ToSet(todo) = ToSet(Tail(todo)) \cup {t}
          /\ Tail(todo) \in Seq(Tx)
  <2>1. todo \in Seq(Tx) /\ todo # <<>>
    BY <1>1, <1>4
  <2>2. Head(todo) \in ToSet(todo)
    BY <2>1, SeqSets
  <2>3. Tail(todo) \in Seq(Tx)
    BY <2>1, SeqSets
  <2>4. ToSet(todo) = ToSet(Tail(todo)) \cup {Head(todo)}
    BY <2>1, SeqSets
  <2> QED BY <1>3, <1>5, <2>2, <2>3, <2>4
<1>8. PICK D : D = ToSet(Tail(todo))
  OBVIOUS
<1>9. PICK E : E = TxsIn(Tail(branch))
  OBVIOUS
<1>10. /\ coins' = AppliedTo(coins, t, Height[h]) /\ leaves' = leaves \cup Lvs[t]
       /\ UNCHANGED <<mode, best, dCoins, dLeaves, dBest, dHeads>>
       /\ todo' = Tail(todo)
  BY <1>5, <1>7 DEF ReapplyTx, Reapply, diskVars
<1>11. /\ coins' \in View
       /\ \A o \in Outpoint : coins'[o] = IF o \in Touches(t) THEN CoinsAt[h][o] ELSE coins[o]
  BY <1>4, <1>6, <1>10, AppliedCoin
<1>12. Lacks(coins', leaves', chainBest, D \cup E)
  <2>1. /\ \A o \in Outpoint : \/ coins[o] = NoCoin \/ coins[o] = CoinsAt[chainBest][o]
                               \/ \E u \in D \cup {t} \cup E : o \in Touches(u)
        /\ LeavesAt(chainBest) \subseteq leaves \cup UNION {Lvs[u] : u \in D \cup {t} \cup E}
    BY <1>3, <1>7, <1>8, <1>9 DEF Lacks
  <2>2. ASSUME NEW o \in Outpoint
        PROVE  \/ coins'[o] = NoCoin \/ coins'[o] = CoinsAt[chainBest][o]
               \/ \E u \in D \cup E : o \in Touches(u)
    <3>1. CASE o \notin Touches(t)
      BY <1>11, <2>1, <3>1
    <3>2. CASE o \in Touches(t) /\ \A u \in E : o \notin Touches(u)
      <4>1. \A c \in Ancestors(chainBest) : Height[c] > Height[h] =>
                \A u \in TxsOf(c) : o \notin Touches(u)
        BY <1>5, <1>9, <3>2 DEF TxsIn
      <4>2. CoinsAt[chainBest][o] = CoinsAt[h][o]
        BY <1>4, <4>1, Later
      <4> QED BY <1>11, <3>2, <4>2
    <3> QED BY <3>1, <3>2
  <2>3. LeavesAt(chainBest) \subseteq leaves' \cup UNION {Lvs[u] : u \in D \cup E}
    BY <1>10, <2>1
  <2> QED BY <2>2, <2>3 DEF Lacks
<1>13. ChainTypes' /\ IndexInv' /\ UndoInv' /\ DiskInv'
  <2>1. DiskInv'
    BY <1>2, <1>10, DiskFrame DEF SafeInv
  <2> QED BY <1>2, <1>7, <1>10, <1>11, <2>1 DEF SafeInv, ChainTypes, IndexInv, UndoInv
<1>14. /\ (ToSet(todo) \subseteq TxsOf(Head(branch)))'
       /\ Lacks(coins, leaves, chainBest, ToSet(todo) \cup TxsIn(Tail(branch)))'
       /\ EndOfChain(branch)'
  <2>1. ToSet(todo)' = D /\ TxsIn(Tail(branch))' = E /\ chainBest' = chainBest /\ branch' = branch
    BY <1>2, <1>8, <1>9, <1>10 DEF TxsIn
  <2>2. EndOfChain(branch)'
    BY <1>3, <2>1 DEF EndOfChain
  <2> QED BY <1>3, <1>7, <1>8, <1>12, <2>1, <2>2
<1>15. SafeStep'
  BY <1>1, <1>2, <1>3, <1>14 DEF SafeStep, HeldInv, SafePhases, Phases, Resting, GenesisInv,
     RedoInv, BranchInv, JoinInv, LeaveInv, ScratchInv
<1> QED BY <1>13, <1>15 DEF SafeInv

LEMMA ReapplyDoneSafe ==
    ASSUME SafeInv, ReapplyDone
    PROVE  SafeInv'
<1>1. /\ pc = "reapply" /\ op = "replay" /\ todo = <<>>
      /\ pc' = "rollback" /\ op' = "replay"
  BY DEF SafeInv, SafeStep, HeldInv, SafePhases, Phases, ReapplyDone, Goto
<1>2. UNCHANGED <<mode, coins, leaves, best, dCoins, dLeaves, dBest, dHeads>>
  BY DEF ReapplyDone, storeVars
<1>3. /\ UNCHANGED <<index, undo, chainBest, mBestChain, back, todo, applied, spent>>
      /\ branch' = Tail(branch)
  BY DEF ReapplyDone, chainDisk, tipVars, txVars
<1>4. /\ mBestChain = chainBest /\ chainBest \in index /\ back = <<>> /\ branch # <<>>
      /\ EndOfChain(branch)
      /\ Lacks(coins, leaves, chainBest, TxsIn(Tail(branch)))
      /\ applied = <<>> /\ spent = NoSpent
  <2>1. ToSet(todo) \cup TxsIn(Tail(branch)) = TxsIn(Tail(branch))
    BY <1>1 DEF ToSet
  <2> QED BY <1>1, <2>1 DEF SafeInv, SafeStep, RedoInv, ScratchInv
<1>5. branch \in Seq(Hash) /\ chainBest \in Hash
  BY <1>4 DEF SafeInv, ChainTypes
<1>6. EndOfChain(Tail(branch)) /\ Tail(branch) \in Seq(Hash)
  BY <1>4, <1>5, EndFacts
<1>7. ChainTypes' /\ IndexInv' /\ UndoInv' /\ DiskInv'
  <2>1. DiskInv'
    BY <1>2, <1>3, DiskFrame DEF SafeInv
  <2> QED BY <1>2, <1>3, <1>6, <2>1 DEF SafeInv, ChainTypes, IndexInv, UndoInv
<1>8. EndOfChain(branch)' /\ Lacks(coins, leaves, chainBest, TxsIn(branch))'
  BY <1>2, <1>3, <1>4, <1>6 DEF EndOfChain
<1>9. SafeStep'
  BY <1>1, <1>3, <1>4, <1>8 DEF SafeStep, HeldInv, SafePhases, Phases, Resting, GenesisInv,
     RedoInv, BranchInv, JoinInv, LeaveInv, ScratchInv
<1> QED BY <1>7, <1>9 DEF SafeInv

LEMMA ReplayDoneSafe ==
    ASSUME SafeInv, ReplayDone
    PROVE  SafeInv'
<1>1. /\ pc = "rollback" /\ op = "replay" /\ back = <<>> /\ branch = <<>>
      /\ pc' = "flush" /\ op' = "replay"
  BY DEF ReplayDone, Goto
<1>2. UNCHANGED <<coins, leaves, dCoins, dLeaves, dBest, dHeads>> /\ best' = mBestChain
  BY DEF ReplayDone, SetBest, diskVars
<1>3. UNCHANGED <<index, undo, chainBest, mBestChain, branch, back, todo, applied, spent>>
  BY DEF ReplayDone, chainDisk, tipVars, plan, txVars
<1>4. /\ mBestChain = chainBest /\ chainBest \in index
      /\ Lacks(coins, leaves, chainBest, {})
      /\ applied = <<>> /\ spent = NoSpent
  <2>1. TxsIn(branch) = {}
    BY <1>1 DEF TxsIn, ToSet
  <2> QED BY <1>1, <2>1 DEF SafeInv, SafeStep, RedoInv, ScratchInv
<1>5. ChainTypes' /\ IndexInv' /\ UndoInv' /\ DiskInv'
  <2>1. DiskInv'
    BY <1>2, <1>3, DiskFrame DEF SafeInv
  <2> QED BY <1>2, <1>3, <2>1 DEF SafeInv, ChainTypes, IndexInv, UndoInv
<1>6. Sound'
  <2>1. Below(coins, chainBest) /\ LeavesAt(chainBest) \subseteq leaves
    BY <1>4 DEF Lacks, Below
  <2> QED BY <1>2, <1>3, <1>4, <2>1 DEF Sound, Below
<1>7. SafeStep'
  BY <1>1, <1>3, <1>4, <1>6 DEF SafeStep, HeldInv, SafePhases, Phases, Resting, GenesisInv, RedoInv,
     BranchInv, JoinInv, LeaveInv, ScratchInv
<1> QED BY <1>5, <1>7 DEF SafeInv

\* Initialize finds the block the replay starts from where the marker or the best
\* block of the UTXO database says, and that is the tip, nothing, its parent or its child.
LEMMA CheckSafe ==
    ASSUME SafeInv, Check
    PROVE  SafeInv'
<1>1. pc = "check" /\ op = "boot"
  BY DEF SafeInv, SafeStep, HeldInv, SafePhases, Phases, Check
<1>2. UNCHANGED <<mode, coins, leaves, best, dCoins, dLeaves, dBest, dHeads>>
  BY DEF Check, storeVars
<1>3. UNCHANGED <<index, undo, chainBest, mBestChain, todo, applied, spent>>
  BY DEF Check, chainDisk, txVars
<1>4. /\ mBestChain = chainBest /\ chainBest \in index
      /\ coins = dCoins /\ leaves = dLeaves
      /\ best = IF dBest = NoKey THEN Zero ELSE dBest
      /\ applied = <<>> /\ spent = NoSpent
  BY <1>1 DEF SafeInv, SafeStep, RedoInv, ScratchInv
<1>5. /\ chainBest \in Hash /\ NoKey \notin Hash /\ Zero # NoKey /\ Zero \notin Hash
      /\ branch \in Seq(Hash) /\ back \in Seq(Hash)
  BY <1>4, AbsenceAssumption, OriginAssumption DEF SafeInv, ChainTypes
<1>6. Still \/ Lagging \/ Leading
  BY <1>5 DEF SafeInv, DiskInv, Empty
<1>7. ReplaySource = IF DiskSource = NoKey THEN Zero ELSE DiskSource
  BY <1>4 DEF ReplaySource, DiskSource, SafeInv, DiskInv
<1>8. dHeads = NoKey /\ best = mBestChain => ReplaySource = mBestChain
  BY DEF ReplaySource
<1>9. IndexInv' /\ UndoInv' /\ DiskInv' /\ DiskSource' = DiskSource
  BY <1>2, <1>3, DiskFrame DEF SafeInv, IndexInv, UndoInv
<1>10. ASSUME branch' \in Seq(Hash), back' \in Seq(Hash), pc' = "rollback", op' = "replay",
              EndOfChain(branch'), Lacks(coins, leaves, chainBest, TxsIn(branch')),
              back' # <<>> => back' = <<DiskSource>> /\ branch' = <<>> /\ Leading
       PROVE  SafeInv'
  <2>1. ChainTypes'
    BY <1>2, <1>3, <1>10 DEF SafeInv, ChainTypes
  <2>2. EndOfChain(branch)' /\ Lacks(coins, leaves, chainBest, TxsIn(branch))'
    BY <1>2, <1>3, <1>10 DEF EndOfChain
  <2>3. Leading => Leading'
    BY <1>2, <1>3, DiskFrame
  <2>4. (back # <<>> => back = <<DiskSource>> /\ branch = <<>> /\ Leading)'
    BY <1>9, <1>10, <2>3
  <2>5. SafeStep'
    BY <1>3, <1>4, <1>10, <2>2, <2>4 DEF SafeStep, HeldInv, SafePhases, Phases, Resting,
       GenesisInv, RedoInv, BranchInv, JoinInv, LeaveInv, ScratchInv
  <2> QED BY <1>9, <2>1, <2>5 DEF SafeInv
<1>11. CASE ReplaySource = mBestChain
  <2>1. DiskSource = chainBest
    BY <1>4, <1>5, <1>7, <1>11
  <2>2. Still
    <3>1. ~Lagging /\ ~Leading
      BY <1>5, <2>1, TreeFacts DEF Lagging, Leading
    <3> QED BY <1>6, <3>1
  <2>3. Sound
    <3>1. best \in {chainBest, Zero}
      BY <1>4, <2>1 DEF DiskSource, SafeInv, DiskInv
    <3> QED BY <1>4, <2>2, <3>1 DEF Sound, Still
  <2>4. /\ branch' = branch /\ back' = back
        /\ \/ pc' = "idle" /\ op' = "idle"
           \/ pc' = "flush" /\ op' = "repair"
    BY <1>11 DEF Check, NothingToReplay, Ready, Goto
  <2>5. ChainTypes' /\ Sound' /\ Still'
    BY <1>2, <1>3, <2>2, <2>3, <2>4, DiskFrame, SoundFrame DEF SafeInv, ChainTypes
  <2>6. SafeStep'
    BY <1>3, <1>4, <2>4, <2>5 DEF SafeStep, HeldInv, SafePhases, Phases, Resting, GenesisInv,
       RedoInv, BranchInv, JoinInv, LeaveInv, ScratchInv
  <2> QED BY <1>9, <2>5, <2>6 DEF SafeInv
<1>12. ASSUME ReplaySource # mBestChain, CanReplay(ReplaySource)
       PROVE  /\ pc' = "rollback" /\ op' = "replay"
              /\ branch' = IF ReplaySource = Zero THEN PathTo[mBestChain]
                           ELSE PathFrom(CommonAncestor(ReplaySource, mBestChain), mBestChain)
              /\ back' = IF ReplaySource = Zero THEN <<>>
                         ELSE Reverse(PathFrom(CommonAncestor(ReplaySource, mBestChain), ReplaySource))
  BY <1>8, <1>12 DEF Check, NothingToReplay, Goto
<1>13. CASE ReplaySource = Zero
  <2>1. CanReplay(ReplaySource) /\ ReplaySource # mBestChain
    BY <1>4, <1>5, <1>13 DEF CanReplay
  <2>2. pc' = "rollback" /\ op' = "replay" /\ branch' = PathTo[chainBest] /\ back' = <<>>
    BY <1>4, <1>12, <1>13, <2>1
  <2>3. EndOfChain(PathTo[chainBest]) /\ PathTo[chainBest] \in Seq(Hash)
    <3>1. PICK H \in Nat : H = Height[chainBest]
      BY <1>5, TreeFacts
    <3>2. PathTo[chainBest] \in Seq(Hash) /\ Len(PathTo[chainBest]) = H + 1
      BY <1>5, <3>1, PathEquation, PathShape
    <3>3. \A i \in 1..(H + 1) : H + 1 - (H + 1) + i = i
      BY <3>1
    <3> QED BY <3>1, <3>2, <3>3 DEF EndOfChain
  <2>4. TxsIn(PathTo[chainBest]) = BranchTxs(chainBest)
    BY DEF TxsIn, BranchTxs, Ancestors
  <2>5. Lacks(coins, leaves, chainBest, BranchTxs(chainBest))
    <3>1. LeavesAt(chainBest) \subseteq UNION {Lvs[t] : t \in BranchTxs(chainBest)}
      BY DEF LeavesAt
    <3>2. TxsOf(chainBest) \subseteq BranchTxs(chainBest)
      BY <1>5, AncestorFacts DEF BranchTxs
    <3>3. \A o \in Consumes(chainBest) : \E t \in BranchTxs(chainBest) : o \in Touches(t)
      BY <3>2 DEF Consumes, Touches
    <3>4. Trails(coins, chainBest)
      <4>1. ~Leading
        BY <1>5, <1>7, <1>13 DEF Leading
      <4> QED BY <1>4, <1>6, <4>1 DEF Still, Lagging, Below, Trails
    <3> QED BY <3>1, <3>3, <3>4 DEF Lacks, Trails
  <2> QED BY <1>10, <2>2, <2>3, <2>4, <2>5
<1>14. CASE Lagging /\ ReplaySource # Zero
  <2>1. /\ chainBest # Genesis /\ ReplaySource = Parent[chainBest]
        /\ PreL(chainBest) \subseteq dLeaves /\ Trails(dCoins, chainBest)
    BY <1>7, <1>14 DEF Lagging
  <2>2. /\ Parent[chainBest] \in index /\ Parent[chainBest] \in Hash
        /\ Parent[chainBest] # chainBest
    BY <1>4, <1>5, <2>1, TreeFacts DEF SafeInv, IndexInv
  <2>3. /\ CommonAncestor(Parent[chainBest], chainBest) = Parent[chainBest]
        /\ PathFrom(Parent[chainBest], chainBest) = <<chainBest>>
        /\ PathFrom(Parent[chainBest], Parent[chainBest]) = <<>>
    BY <1>5, <2>1, OneAbove
  <2>4. CanReplay(ReplaySource)
    <3>1. Height[Parent[chainBest]] \in Nat /\ Height[chainBest] \in Nat
      BY <1>5, <2>2, TreeFacts
    <3>2. Height[Parent[chainBest]] <= Height[Parent[chainBest]] + (Height[chainBest] + 2)
      BY <3>1
    <3> QED BY <1>4, <2>1, <2>2, <2>3, <3>2 DEF CanReplay, MaxSteps
  <2>5. pc' = "rollback" /\ op' = "replay" /\ branch' = <<chainBest>> /\ back' = <<>>
    <3>1. Reverse(<<>>) = <<>>
      BY DEF Reverse
    <3> QED BY <1>4, <1>12, <1>14, <2>1, <2>2, <2>3, <2>4, <3>1
  <2>6. EndOfChain(<<chainBest>>)
    <3>1. PICK H \in Nat : H = Height[chainBest]
      BY <1>5, TreeFacts
    <3>2. H + 1 - 1 + 1 = H + 1 /\ 1 <= H + 1
      BY <3>1
    <3>3. PathTo[chainBest][H + 1] = chainBest
      BY <1>5, <3>1, PathShape
    <3>4. Len(<<chainBest>>) = 1 /\ DOMAIN <<chainBest>> = {1} /\ <<chainBest>>[1] = chainBest
      OBVIOUS
    <3> QED BY <3>1, <3>2, <3>3, <3>4 DEF EndOfChain
  <2>7. TxsIn(<<chainBest>>) = TxsOf(chainBest)
    BY DEF TxsIn, ToSet
  <2>8. Lacks(coins, leaves, chainBest, TxsOf(chainBest))
    <3>1. \A o \in Consumes(chainBest) : \E t \in TxsOf(chainBest) : o \in Touches(t)
      BY DEF Consumes, Touches
    <3>2. LeavesAt(chainBest) \subseteq leaves \cup UNION {Lvs[t] : t \in TxsOf(chainBest)}
      BY <1>4, <1>5, <2>1, LeavesEquation
    <3> QED BY <1>4, <2>1, <3>1, <3>2 DEF Lacks, Trails
  <2> QED BY <1>5, <1>10, <2>5, <2>6, <2>7, <2>8
<1>15. CASE Leading
  <2>1. PICK S \in Hash \ {Genesis} : S = DiskSource
    BY <1>15 DEF Leading
  <2>2. S \in index /\ chainBest = Parent[S] /\ S # chainBest /\ S # Zero /\ S # NoKey
    BY <1>5, <1>15, <2>1, TreeFacts DEF Leading, SafeInv, UndoInv
  <2>3. ReplaySource = S
    BY <1>7, <2>1, <2>2
  <2>4. /\ CommonAncestor(S, chainBest) = chainBest
        /\ PathFrom(chainBest, S) = <<S>> /\ PathFrom(chainBest, chainBest) = <<>>
    BY <2>2, OneAbove
  <2>5. CanReplay(S)
    <3>1. Height[S] = Height[chainBest] + 1 /\ Height[chainBest] \in Nat
      BY <1>5, <2>2, TreeFacts
    <3>2. Height[S] <= Height[chainBest] + (Height[chainBest] + 2)
      BY <3>1
    <3> QED BY <1>4, <2>2, <2>4, <3>2 DEF CanReplay, MaxSteps
  <2>6. /\ pc' = "rollback" /\ op' = "replay"
        /\ branch' = PathFrom(CommonAncestor(S, mBestChain), mBestChain)
        /\ back' = Reverse(PathFrom(CommonAncestor(S, mBestChain), S))
    BY <1>4, <1>12, <2>2, <2>3, <2>5
  <2>7. branch' = <<>> /\ back' = <<S>>
    <3>1. Reverse(<<S>>) = <<S>>
      <4>1. Len(<<S>>) = 1 /\ <<S>>[1] = S
        OBVIOUS
      <4>2. Reverse(<<S>>) = [i \in 1..1 |-> <<S>>[(1 - i) + 1]]
        BY <4>1 DEF Reverse
      <4>3. \A i \in 1..1 : (1 - i) + 1 = 1
        OBVIOUS
      <4>4. Reverse(<<S>>) = [i \in 1..1 |-> S]
        BY <4>1, <4>2, <4>3
      <4>5. [i \in 1..1 |-> S] = <<S>>
        OBVIOUS
      <4> QED BY <4>4, <4>5
    <3> QED BY <1>4, <2>4, <2>6, <3>1
  <2>8. EndOfChain(<<>>)
    <3>1. Height[chainBest] \in Nat /\ Len(<<>>) = 0
      BY <1>5, TreeFacts
    <3> QED BY <3>1 DEF EndOfChain
  <2>9. TxsIn(<<>>) = {}
    BY DEF TxsIn, ToSet
  <2>10. Lacks(coins, leaves, chainBest, {})
    BY <1>4, <1>15 DEF Leading, Below, Lacks
  <2>11. EndOfChain(branch') /\ Lacks(coins, leaves, chainBest, TxsIn(branch'))
    BY <2>7, <2>8, <2>9, <2>10
  <2>12. branch' \in Seq(Hash) /\ back' \in Seq(Hash) /\ back' = <<DiskSource>> /\ branch' = <<>>
    BY <2>1, <2>7
  <2> QED BY <1>10, <1>15, <2>6, <2>11, <2>12
<1>16. CASE Still
  BY <1>4, <1>7, <1>11, <1>13, <1>16 DEF Still
<1> QED BY <1>6, <1>13, <1>14, <1>15, <1>16

LEMMA SafeNext ==
    ASSUME SafeInv, [Next]_vars
    PROVE  SafeInv'
<1>1. CASE Start \/ StoreGenesis \/ IndexTx \/ GenesisTip \/ Check \/ Activate
  BY <1>1, StartSafe, StoreGenesisSafe, IndexTxSafe, GenesisTipSafe, CheckSafe, ActivateSafe
<1>2. CASE ReplayBack \/ ReplayForward \/ ReapplyTx \/ ReapplyDone \/ ReplayDone
  BY <1>2, ReplayBackSafe, ReplayForwardSafe, ReapplyTxSafe, ReapplyDoneSafe, ReplayDoneSafe
<1>3. CASE DisconnectTip \/ UndoTx \/ ReplayUndone \/ TipBack \/ Disconnected
  BY <1>3, DisconnectTipSafe, UndoTxSafe, ReplayUndoneSafe, TipBackSafe, DisconnectedSafe
<1>4. CASE ConnectBlock \/ ApplyTx \/ ApplyFails \/ Unapply \/ Unapplied
  BY <1>4, ConnectBlockSafe, ApplyTxSafe, ApplyFailsSafe, UnapplySafe, UnappliedSafe
<1>5. CASE RecordBlock \/ TipForward \/ Connected \/ RolledBack
  BY <1>5, RecordBlockSafe, TipForwardSafe, ConnectedSafe, RolledBackSafe
<1>6. CASE FlushBegin \/ FlushEnd \/ Initialized \/ Closed \/ FlushSome
  BY <1>6, FlushBeginSafe, FlushEndSafe, InitializedSafe, ClosedSafe, FlushSomeSafe
<1>7. CASE \E b \in Hash \ {Genesis} : AcceptBlock(b)
  BY <1>7, AcceptBlockSafe
<1>8. CASE \E o \in {"sync", "close"} : Flush(o)
  BY <1>8, FlushSafe
<1>9. CASE TakeMempoolSync \/ Crash
  BY <1>9, TakeMempoolSyncSafe, CrashSafe
<1>10. CASE UNCHANGED vars
  BY <1>10, StutterSafe
<1> QED BY <1>1, <1>2, <1>3, <1>4, <1>5, <1>6, <1>7, <1>8, <1>9, <1>10 DEF Next, Step

\* The weaker inductive invariant, which no death breaks, whatever CrashAt is.
LEMMA SafeInvariant == Spec => []SafeInv
<1>1. Init => SafeInv
  BY SafeInit
<1>2. SafeInv /\ [Next]_vars => SafeInv'
  BY SafeNext
<1> QED BY <1>1, <1>2, PTL DEF Spec

\* Once Initialize or AcceptBlock has returned, wherever and however often the
\* process died before: the UTXO set has no coin that the active chain does not have,
\* with another height or after it was spent, and every leaf the active chain
\* revealed counts as spent.  ReplayBlocksLocked may lose coins and keep leaves; it
\* never brings a spent coin or a used leaf back.
THEOREM NothingEverRevived == Spec => []NothingRevived
<1>1. SafeInv => NothingRevived
  <2> SUFFICES ASSUME SafeInv, pc = "idle"
               PROVE  /\ \A o \in Outpoint : coins[o] \in {NoCoin, CoinsAt[mBestChain][o]}
                      /\ LeavesAt(mBestChain) \subseteq leaves
    BY DEF NothingRevived
  <2>1. Sound
    BY SafeRest DEF Resting
  <2> QED BY <2>1 DEF Sound, Below
<1> QED BY <1>1, SafeInvariant, PTL

\* Initialize never throws on a data directory this code wrote, whenever it died: the
\* walk of LastCommonAncestorLocked is long enough, both ends are in the block index,
\* and RollbackBlockLocked finds the undo record of every block it takes off.
THEOREM NodeNeverRefuses == Spec => []NeverRefuses
<1>1. SafeInv => NeverRefuses
  BY DEF SafeInv, SafeStep, HeldInv, SafePhases, Phases, NeverRefuses
<1> QED BY <1>1, SafeInvariant, PTL
-----------------------------------------------------------------------------
(* Blocks of the active chain are valid *)

\* What ValidateBlock found of b when it arrived that holds wherever b stands.
Vetted(b) ==
    /\ b \in WellFormed
    /\ \A t \in TxsOf(b) \ Coinbase :
           /\ PaysFee(t) /\ Lvs[t] # {}
           /\ \A c \in Hash : \A u \in TxsOf(c) \cap Coinbase :
                  Outs[u] \cap Ins[t] # {} => Height[b] >= Height[c] + Maturity
    /\ \A t, u \in TxsOf(b) \ Coinbase : t # u => /\ Ins[t] \cap Ins[u] = {}
                                                  /\ Lvs[t] \cap Lvs[u] = {}
    /\ \A t \in TxsOf(b) \cap Coinbase : Amount(Outs[t]) <= Subsidy[Height[b]]

\* The coins t spends are there when b, the block it is in, is connected.
Funded(t, b) == \A o \in Ins[t] : Pre(b)[o] # NoCoin

\* The two checks of a block, on arrival and on connection, and that every block
\* of the active chain went through both.
ValidInv ==
    /\ \A b \in index \ {Genesis} : Vetted(b)
    /\ \A b \in Hash : undo[b] # NoKey => b \in HeaderOK /\ \A t \in TxsOf(b) : Funded(t, b)
    /\ chainBest # NoKey => \A a \in Ancestors(chainBest) \ {Genesis} : undo[a] # NoKey
    /\ pc = "apply" /\ op = "connect" =>
           /\ Head(branch) \in HeaderOK
           /\ \A t \in ToSet(applied) : Funded(t, Head(branch))

\* The height and the coinbase flag of a coin, which say when it may be spent.
LEMMA CoinFields ==
    ASSUME NEW h, NEW f
    PROVE  NewCoin(h, f).height = h /\ NewCoin(h, f).isCoinbase = f
  BY DEF NewCoin

\* The age of a coinbase is the same on every branch, and the rest of what
\* ValidateBlock looks at that Vetted names does not depend on the tip.
LEMMA VettedOnArrival ==
    ASSUME NEW b \in Hash, NEW x \in Hash, ValidateBlock(b, CoinsAt[x], LeavesAt(x))
    PROVE  Vetted(b)
<1>1. /\ b \in WellFormed
      /\ \A t \in TxsOf(b) \ Coinbase :
             /\ CheckTransactionWithUTXO(t, Height[b], CoinsAt[x])
             /\ LeavesUnused(t, LeavesAt(x))
      /\ \A t, u \in TxsOf(b) \ Coinbase : t # u => /\ Ins[t] \cap Ins[u] = {}
                                                    /\ Lvs[t] \cap Lvs[u] = {}
      /\ \A t \in TxsOf(b) \cap Coinbase : Amount(Outs[t]) <= Subsidy[Height[b]]
  BY DEF ValidateBlock, CheckBlockTransactionsWithUTXO
<1>2. ASSUME NEW t \in TxsOf(b) \ Coinbase, NEW c \in Hash, NEW u \in TxsOf(c) \cap Coinbase,
             NEW o \in Outs[u] \cap Ins[t]
      PROVE  Height[b] >= Height[c] + Maturity
  <2>1. o \in Outpoint
    BY TxFacts
  <2>2. /\ CoinsAt[x][o] # NoCoin
        /\ CoinsAt[x][o].isCoinbase => Height[b] >= CoinsAt[x][o].height + Maturity
    BY <1>1 DEF CheckTransactionWithUTXO
  <2>3. PICK a \in Ancestors(x) : \E v \in TxsOf(a) :
            o \in Outs[v] /\ CoinsAt[x][o] = NewCoin(Height[a], v \in Coinbase)
    BY <2>1, <2>2, Created
  <2>4. a \in Hash
    BY <2>3, AncestorFacts
  <2>5. u \in TxsOf(a) /\ CoinsAt[x][o] = NewCoin(Height[a], u \in Coinbase)
    BY <2>3, <2>4, TxFacts, OneCreator
  <2>6. Height[a] = Height[c]
    BY <2>4, <2>5, OriginAssumption
  <2>7. CoinsAt[x][o].isCoinbase = (u \in Coinbase) /\ CoinsAt[x][o].height = Height[a]
    BY <2>5, CoinFields
  <2> QED BY <2>2, <2>6, <2>7
<1>3. \A t \in TxsOf(b) \ Coinbase : PaysFee(t) /\ Lvs[t] # {}
  BY <1>1 DEF CheckTransactionWithUTXO, LeavesUnused
<1> QED BY <1>1, <1>2, <1>3 DEF Vetted

\* A block that passed both checks is valid after its own ancestors.
LEMMA ConnectedIsValid ==
    ASSUME NEW b \in Hash \ {Genesis}, Vetted(b), b \in HeaderOK,
           \A t \in TxsOf(b) : FreshTx(t, b) /\ Funded(t, b)
    PROVE  ValidInContext(b)
<1>1. PICK p \in Hash : p = Parent[b] /\ Pre(b) = CoinsAt[p] /\ PreL(b) = LeavesAt(p)
  BY TreeFacts DEF Pre, PreL
<1>2. ASSUME NEW t \in TxsOf(b) \ Coinbase, NEW o \in Ins[t]
      PROVE  /\ CoinsAt[p][o] # NoCoin
             /\ CoinsAt[p][o].isCoinbase => Height[b] >= CoinsAt[p][o].height + Maturity
  <2>1. o \in Outpoint /\ CoinsAt[p][o] # NoCoin
    BY <1>1, TxFacts DEF Funded
  <2>2. PICK a \in Ancestors(p) : \E v \in TxsOf(a) :
            o \in Outs[v] /\ CoinsAt[p][o] = NewCoin(Height[a], v \in Coinbase)
    BY <2>1, Created
  <2>3. PICK v \in TxsOf(a) :
            o \in Outs[v] /\ CoinsAt[p][o] = NewCoin(Height[a], v \in Coinbase)
    BY <2>2
  <2>4. CoinsAt[p][o].isCoinbase = (v \in Coinbase) /\ CoinsAt[p][o].height = Height[a]
    BY <2>3, CoinFields
  <2>5. a \in Hash
    BY <2>2, AncestorFacts
  <2>6. v \in Coinbase => Height[b] >= Height[a] + Maturity
    BY <2>3, <2>5 DEF Vetted
  <2> QED BY <2>1, <2>4, <2>6
<1>3. \A t \in TxsOf(b) \ Coinbase :
          CheckTransactionWithUTXO(t, Height[b], CoinsAt[p]) /\ LeavesUnused(t, LeavesAt(p))
  BY <1>1, <1>2 DEF CheckTransactionWithUTXO, LeavesUnused, Vetted, FreshTx
<1>4. CheckBlockTransactionsWithUTXO(b, CoinsAt[p], LeavesAt(p))
  BY <1>3 DEF CheckBlockTransactionsWithUTXO, Vetted
<1> QED BY <1>1, <1>4 DEF ValidInContext, ValidateBlock, Vetted

\* Steps that neither store a block, record one nor move the recorded tip.
LEMMA ValidFrame ==
    ASSUME ValidInv, UNCHANGED <<index, undo, chainBest>>,
           ~(pc' = "apply" /\ op' = "connect")
    PROVE  ValidInv'
  BY DEF ValidInv
LEMMA ValidInit == Init => ValidInv
  BY AbsenceAssumption DEF Init, ValidInv

\* The genesis block is the tip.
LEMMA GenesisTipValid ==
    ASSUME SafeInv, ValidInv, GenesisTip
    PROVE  ValidInv'
<1>1. UNCHANGED <<index, undo>> /\ chainBest' = Genesis /\ pc' = "flush"
  BY DEF GenesisTip, Goto
<1>2. Ancestors(Genesis) = {Genesis}
  BY AncestorsStep, TreeFacts
<1> QED BY <1>1, <1>2 DEF ValidInv

\* A block that is stored was validated against the coins of the tip.
LEMMA AcceptBlockValid ==
    ASSUME NEW b \in Hash \ {Genesis}, SafeInv, ValidInv, AcceptBlock(b)
    PROVE  ValidInv'
<1>1. /\ index' = index \cup {b} /\ UNCHANGED <<undo, chainBest>> /\ pc' = "index"
      /\ pc = "idle" /\ ValidateBlock(b, coins, leaves)
  BY DEF AcceptBlock, Acceptable, StoreBlock, Goto
<1>2. chainBest \in Hash /\ Below(coins, chainBest) /\ LeavesAt(chainBest) \subseteq leaves
  BY <1>1 DEF SafeInv, ChainTypes, SafeStep, HeldInv, Resting, Sound
<1>3. Vetted(b)
  BY <1>1, <1>2, SoundView, VettedOnArrival
<1> QED BY <1>1, <1>3 DEF ValidInv

\* ConnectBlock checks the header before the first transaction.
LEMMA ConnectBlockValid ==
    ASSUME SafeInv, ValidInv, ConnectBlock
    PROVE  ValidInv'
<1>1. UNCHANGED <<index, undo, chainBest, branch, applied>>
  BY DEF ConnectBlock, chainDisk
<1>2. applied = <<>>
  BY DEF ConnectBlock, SafeInv, SafeStep, ScratchInv
<1>3. pc' = "apply" => Head(branch) \in HeaderOK
  BY DEF ConnectBlock, Goto
<1>4. ToSet(applied) = {}
  BY <1>2 DEF ToSet
<1> QED BY <1>1, <1>3, <1>4 DEF ValidInv

\* The coins a transaction spends at its turn were there before the block, since
\* no transaction of the block makes them.
LEMMA ApplyTxValid ==
    ASSUME SafeInv, SafeInv', ValidInv, ApplyTx
    PROVE  ValidInv'
<1>1. UNCHANGED <<index, undo, chainBest, branch, pc, op>> /\ pc = "apply"
  BY DEF ApplyTx, chainDisk, plan
<1>2. CASE op # "connect"
  BY <1>1, <1>2, ValidFrame
<1>3. CASE op = "connect"
  <2>1. PICK t \in Tx : t = Head(todo)
    BY DEF SafeInv, ChainTypes, ApplyTx
  <2>2. /\ applied' = Append(applied, t) /\ \A o \in Ins[t] : coins[o] # NoCoin
        /\ spent' = [o \in DOMAIN spent \cup Ins[t] |->
                        IF o \in Ins[t] THEN coins[o] ELSE spent[o]]
    BY <2>1 DEF ApplyTx, Applies, CanApply
  <2>3. applied \in Seq(Tx)
    BY DEF SafeInv, ChainTypes
  <2>4. ToSet(applied') = ToSet(applied) \cup {t}
    <3>1. PICK s \in Seq(Tx) : s = applied
      BY <2>3
    <3>2. ToSet(Append(s, t)) = ToSet(s) \cup {t}
      BY SeqSets
    <3> QED BY <2>2, <3>1, <3>2
  <2>5. PICK h : h = Head(branch)
    OBVIOUS
  <2>6. spent' = Taken(h, ToSet(applied'))
    <3>1. (spent = Taken(Head(branch), ToSet(applied)))'
      BY <1>1, <1>3 DEF SafeInv, SafeStep, JoinInv
    <3> QED BY <1>1, <2>5, <3>1
  <2>7. Funded(t, h)
    <3>1. ASSUME NEW o \in Ins[t] PROVE Pre(h)[o] # NoCoin
      <4>1. spent'[o] = coins[o] /\ coins[o] # NoCoin
        BY <2>2
      <4>2. spent'[o] = Pre(h)[o]
        BY <2>4, <2>6 DEF Taken
      <4> QED BY <4>1, <4>2
    <3> QED BY <3>1 DEF Funded
  <2>8. h \in HeaderOK /\ \A u \in ToSet(applied) : Funded(u, h)
    BY <1>1, <1>3, <2>5 DEF ValidInv
  <2>9. \A u \in ToSet(applied)' : Funded(u, h)
    BY <2>4, <2>7, <2>8
  <2> QED BY <1>1, <2>5, <2>8, <2>9 DEF ValidInv
<1> QED BY <1>2, <1>3

\* Only a block all of whose transactions were applied gets an undo record.
LEMMA RecordBlockValid ==
    ASSUME SafeInv, SafeInv', ValidInv, RecordBlock
    PROVE  ValidInv'
<1>1. pc = "apply" /\ op = "connect" /\ todo = <<>> /\ pc' = "tip"
  BY DEF RecordBlock, Goto
<1>2. PICK h \in Hash : h = Head(branch) /\ h \in index \ {Genesis}
  <2>1. Path(chainBest)
    BY <1>1 DEF SafeInv, SafeStep, BranchInv
  <2> QED BY <2>1, NextOnTip DEF SafeInv
<1>3. /\ UNCHANGED <<index, chainBest, branch>>
      /\ undo' = [undo EXCEPT ![h] = spent]
  BY <1>2 DEF RecordBlock, plan
<1>4. undo = [b \in Hash |-> undo[b]] /\ undo'[h] # NoKey
  BY <1>1, <1>2, <1>3 DEF SafeInv, ChainTypes, SafeStep, JoinInv
<1>5. TxsOf(h) = ToSet(applied)
  <2>1. ToSet(todo) = {}
    BY <1>1 DEF ToSet
  <2> QED BY <1>1, <1>2, <2>1 DEF SafeInv, SafeStep, JoinInv
<1>6. h \in HeaderOK /\ \A t \in TxsOf(h) : Funded(t, h)
  BY <1>1, <1>2, <1>5 DEF ValidInv
<1>7. \A b \in Hash : b # h => undo'[b] = undo[b]
  BY <1>3, <1>4
<1>8. \A b \in Hash : undo'[b] # NoKey => b \in HeaderOK /\ \A t \in TxsOf(b) : Funded(t, b)
  BY <1>6, <1>7 DEF ValidInv
<1>9. ASSUME chainBest # NoKey, NEW a \in Ancestors(chainBest) \ {Genesis}
      PROVE  undo'[a] # NoKey
  <2>1. a \in Hash
    BY <1>9, AncestorFacts DEF SafeInv, ChainTypes
  <2> QED BY <1>4, <1>7, <1>9, <2>1 DEF ValidInv
<1> QED BY <1>1, <1>3, <1>8, <1>9 DEF ValidInv

\* The tip moves to its parent: a shorter branch of the same blocks.
LEMMA TipBackValid ==
    ASSUME SafeInv, ValidInv, TipBack
    PROVE  ValidInv'
<1>1. /\ mBestChain = chainBest /\ chainBest \in Hash \ {Genesis}
  BY DEF TipBack, SafeInv, ChainTypes, SafeStep, LeaveInv
<1>2. UNCHANGED <<index, undo>> /\ chainBest' = Parent[chainBest] /\ pc' = "flush"
  BY <1>1 DEF TipBack, Goto
<1>3. Ancestors(Parent[chainBest]) \subseteq Ancestors(chainBest) /\ chainBest # NoKey
  BY <1>1, AncestorsStep, AbsenceAssumption
<1> QED BY <1>2, <1>3 DEF ValidInv

\* The tip moves to a block that has its undo record.
LEMMA TipForwardValid ==
    ASSUME SafeInv, ValidInv, TipForward
    PROVE  ValidInv'
<1>1. pc = "tip" /\ op = "connect"
  BY DEF TipForward
<1>2. Path(chainBest) /\ chainBest \in Hash /\ undo[Head(branch)] # NoKey
  BY <1>1 DEF SafeInv, ChainTypes, SafeStep, BranchInv, JoinInv
<1>3. PICK h \in Hash : h = Head(branch) /\ h # Genesis /\ Parent[h] = chainBest
  BY <1>2, NextOnTip DEF SafeInv
<1>4. UNCHANGED <<index, undo>> /\ chainBest' = h /\ pc' = "flush"
  BY <1>3 DEF TipForward, MoveTip, Goto
<1>5. Ancestors(h) = Ancestors(chainBest) \cup {h} /\ chainBest # NoKey
  BY <1>2, <1>3, AncestorsStep, AbsenceAssumption
<1> QED BY <1>2, <1>3, <1>4, <1>5 DEF ValidInv

LEMMA ValidNext ==
    ASSUME SafeInv, SafeInv', ValidInv, [Next]_vars
    PROVE  ValidInv'
<1>1. CASE Start \/ IndexTx \/ Check \/ Activate \/ UNCHANGED vars
  <2>1. \/ /\ UNCHANGED <<index, undo, chainBest>>
           /\ ~(pc' = "apply" /\ op' = "connect")
        \/ UNCHANGED <<index, undo, chainBest, branch, applied, pc, op>>
    BY <1>1 DEF Start, IndexTx, Check, Activate, Ready, Return, Goto, chainDisk, vars, plan,
       txVars
  <2> QED BY <2>1, ValidFrame DEF ValidInv
<1>2. CASE StoreGenesis
  BY <1>2 DEF StoreGenesis, StoreBlock, Goto, ValidInv
<1>3. CASE ReplayBack \/ ReplayForward \/ ReapplyTx \/ ReapplyDone \/ ReplayDone \/ ReplayUndone
  BY <1>3, ValidFrame DEF ReplayBack, ReplayForward, ReapplyTx, ReapplyDone, ReplayDone,
     ReplayUndone, Goto, chainDisk
<1>4. CASE DisconnectTip \/ UndoTx \/ Disconnected \/ Connected \/ RolledBack
  BY <1>4, ValidFrame DEF DisconnectTip, UndoTx, Disconnected, Connected, RolledBack, Return,
     Goto, chainDisk
<1>5. CASE ApplyFails \/ Unapply \/ Unapplied
  BY <1>5, ValidFrame DEF ApplyFails, Unapply, Unapplied, Goto, chainDisk
<1>6. CASE FlushBegin \/ FlushEnd \/ Initialized \/ Closed \/ FlushSome
  BY <1>6, ValidFrame DEF FlushBegin, FlushEnd, Initialized, Closed, FlushSome, Ready, Goto,
     chainDisk
<1>7. CASE (\E o \in {"sync", "close"} : Flush(o)) \/ TakeMempoolSync \/ Crash
  BY <1>7, ValidFrame DEF Flush, TakeMempoolSync, Crash, Goto, chainDisk
<1>8. CASE GenesisTip \/ ConnectBlock \/ ApplyTx \/ RecordBlock \/ TipBack \/ TipForward
  BY <1>8, GenesisTipValid, ConnectBlockValid, ApplyTxValid, RecordBlockValid, TipBackValid,
     TipForwardValid
<1>9. CASE \E b \in Hash \ {Genesis} : AcceptBlock(b)
  BY <1>9, AcceptBlockValid
<1> QED BY <1>1, <1>2, <1>3, <1>4, <1>5, <1>6, <1>7, <1>8, <1>9 DEF Next, Step

\* Every block of the active chain passed both checks, in its place.
LEMMA ValidInvariant == Spec => [](SafeInv /\ ValidInv)
<1>1. Init => ValidInv
  BY ValidInit
<1>2. SafeInv /\ SafeInv' /\ ValidInv /\ [Next]_vars => ValidInv'
  BY ValidNext
<1> QED BY <1>1, <1>2, SafeInvariant, PTL DEF Spec

\* Every block of the active chain is valid after its own ancestors (inputs there,
\* coinbases mature, leaves unused, header fitting), although AcceptBlock validated
\* it against whatever the UTXO set was when it arrived and ConnectBlock repeats
\* neither the maturity nor the fees.
THEOREM ActiveAlwaysValid == Spec => []ActiveChainValid
<1>1. SafeInv /\ ValidInv => ActiveChainValid
  <2> SUFFICES ASSUME SafeInv, ValidInv, pc = "idle",
                      NEW a \in Ancestors(mBestChain)
               PROVE  ValidInContext(a)
    BY DEF ActiveChainValid, ValidBranch
  <2>1. mBestChain = chainBest /\ chainBest \in Hash /\ chainBest # NoKey
    BY AbsenceAssumption DEF SafeInv, ChainTypes, SafeStep, HeldInv, Resting, Sound
  <2>2. a \in Hash
    BY <2>1, AncestorFacts
  <2>3. CASE a # Genesis
    <3>1. undo[a] # NoKey
      BY <2>1, <2>3 DEF ValidInv
    <3>2. a \in index /\ \A t \in TxsOf(a) : FreshTx(t, a)
      BY <2>2, <3>1 DEF SafeInv, UndoInv
    <3>3. Vetted(a) /\ a \in HeaderOK /\ \A t \in TxsOf(a) : Funded(t, a)
      BY <2>2, <2>3, <3>1, <3>2 DEF ValidInv
    <3> QED BY <2>2, <2>3, <3>2, <3>3, ConnectedIsValid
  <2> QED BY <2>3 DEF ValidInContext
<1> QED BY <1>1, ValidInvariant, PTL
-----------------------------------------------------------------------------
(* The height table and the queues of the mempool *)

\* Initialize has returned.
Running == pc \notin {"down", "check", "ready"} /\ op \notin {"genesis", "replay", "repair"}

\* The transactions of a block that joined or left the active chain and is not
\* queued yet.
Arriving == IF op = "connect" /\ pc \in {"flush", "flushing", "flushed"}
            THEN TxsOf(mBestChain) ELSE {}
Leaving == IF op = "disconnect" THEN ToSet(todo) ELSE {}

\* The block that is being taken off.
LeavingInv ==
    op = "disconnect" =>
        \E b \in Hash \ {Genesis} :
            todo = BlockTxs[b] /\ Parent[b] = mBestChain /\ undo[b] # NoKey

HeightInv == Running => mChainByHeight = PathTo[mBestChain]

SyncInv ==
    /\ mSyncConnected \in Seq(Tx) /\ mSyncDisconnected \in Seq(Tx)
    /\ ~Running => mSyncDisconnected = <<>>
    /\ Running =>
           /\ PaymentsOn(mBestChain) \ PaymentsOn(syncedTip) \subseteq
                  ToSet(mSyncConnected) \cup Arriving
           /\ \/ Len(mSyncDisconnected) = MaxDisconnected
              \/ PaymentsOn(syncedTip) \ PaymentsOn(mBestChain) \subseteq
                     ToSet(mSyncDisconnected) \cup Leaving

\* A payment that p feeds was queued before p, or p is still (or again) on the chain.
OrderInv ==
    \A i \in DOMAIN mSyncDisconnected : \A p \in Tx \ Coinbase :
        Outs[p] \cap Ins[mSyncDisconnected[i]] # {} =>
            \/ p \in BranchTxs(mBestChain) \cup Leaving
            \/ \E j \in DOMAIN mSyncDisconnected : j > i /\ mSyncDisconnected[j] = p

QueuesInv == LeavingInv /\ HeightInv /\ SyncInv /\ OrderInv

\* Two sequences, one after the other.
LEMMA Joined ==
    ASSUME NEW S, NEW s \in Seq(S), NEW r \in Seq(S)
    PROVE  /\ s \o r \in Seq(S) /\ Len(s \o r) = Len(s) + Len(r)
           /\ \A i \in 1..Len(s) : (s \o r)[i] = s[i]
           /\ \A i \in 1..Len(r) : (s \o r)[Len(s) + i] = r[i]
           /\ ToSet(s \o r) = ToSet(s) \cup ToSet(r)
<1>1. PICK m \in Nat, n \in Nat : Len(s) = m /\ Len(r) = n
  OBVIOUS
<1>2. PICK q \in Seq(S) : q = s \o r
  BY ConcatProperties
<1>3. /\ Len(q) = m + n
      /\ \A i \in 1..m : q[i] = s[i]
      /\ \A i \in 1..n : q[m + i] = r[i]
  <2>1. /\ Len(q) = m + n
        /\ \A i \in 1..(m + n) : q[i] = IF i <= m THEN s[i] ELSE r[i - m]
    BY <1>1, <1>2, ConcatProperties
  <2>2. ASSUME NEW i \in 1..m PROVE q[i] = s[i]
    <3>1. i \in 1..(m + n) /\ i <= m
      OBVIOUS
    <3> QED BY <2>1, <3>1
  <2>3. ASSUME NEW i \in 1..n PROVE q[m + i] = r[i]
    <3>1. m + i \in 1..(m + n) /\ ~(m + i <= m) /\ (m + i) - m = i
      OBVIOUS
    <3>2. q[m + i] = r[(m + i) - m]
      BY <2>1, <3>1
    <3> QED BY <3>1, <3>2
  <2> QED BY <2>1, <2>2, <2>3
<1>4. DOMAIN s = 1..m /\ DOMAIN r = 1..n /\ DOMAIN q = 1..(m + n)
  BY <1>1, <1>3
<1>5. ToSet(q) \subseteq ToSet(s) \cup ToSet(r)
  <2> SUFFICES ASSUME NEW i \in 1..(m + n) PROVE q[i] \in ToSet(s) \cup ToSet(r)
    BY <1>4 DEF ToSet
  <2>1. CASE i <= m
    <3>1. i \in 1..m
      BY <2>1
    <3> QED BY <1>3, <1>4, <3>1 DEF ToSet
  <2>2. CASE i > m
    <3>1. PICK j \in 1..n : i = m + j
      <4>1. i - m \in 1..n /\ i = m + (i - m)
        BY <2>2
      <4> QED BY <4>1
    <3> QED BY <1>3, <1>4, <3>1 DEF ToSet
  <2> QED BY <2>1, <2>2
<1>6. ToSet(s) \subseteq ToSet(q)
  <2> SUFFICES ASSUME NEW i \in 1..m PROVE s[i] \in ToSet(q)
    BY <1>4 DEF ToSet
  <2>1. i \in 1..(m + n) /\ q[i] = s[i]
    BY <1>3
  <2> QED BY <1>4, <2>1 DEF ToSet
<1>7. ToSet(r) \subseteq ToSet(q)
  <2> SUFFICES ASSUME NEW i \in 1..n PROVE r[i] \in ToSet(q)
    BY <1>4 DEF ToSet
  <2>1. m + i \in 1..(m + n) /\ q[m + i] = r[i]
    BY <1>3
  <2> QED BY <1>4, <2>1 DEF ToSet
<1> QED BY <1>1, <1>2, <1>3, <1>5, <1>6, <1>7

\* Turning a sequence round keeps its elements.
LEMMA Turned ==
    ASSUME NEW S, NEW s \in Seq(S)
    PROVE  Reverse(s) \in Seq(S) /\ ToSet(Reverse(s)) = ToSet(s)
<1>1. PICK n \in Nat : Len(s) = n /\ DOMAIN s = 1..n
  OBVIOUS
<1>2. PICK q : q = Reverse(s)
  OBVIOUS
<1>3. q = [i \in 1..n |-> s[(n - i) + 1]]
  BY <1>1, <1>2 DEF Reverse
<1>4. \A i \in 1..n : (n - i) + 1 \in 1..n /\ (n - ((n - i) + 1)) + 1 = i
  OBVIOUS
<1>5. q \in Seq(S) /\ DOMAIN q = 1..n /\ \A i \in 1..n : q[i] = s[(n - i) + 1]
  BY <1>1, <1>3, <1>4
<1>6. ToSet(q) \subseteq ToSet(s)
  BY <1>1, <1>4, <1>5 DEF ToSet
<1>7. ASSUME NEW i \in 1..n PROVE s[i] \in ToSet(q)
  <2>1. PICK j \in 1..n : j = (n - i) + 1 /\ (n - j) + 1 = i
    BY <1>4
  <2>2. q[j] = s[i]
    BY <1>5, <2>1
  <2> QED BY <1>5, <2>1, <2>2 DEF ToSet
<1>8. ToSet(s) \subseteq ToSet(q)
  BY <1>1, <1>7 DEF ToSet
<1> QED BY <1>2, <1>5, <1>6, <1>8

\* What the buffer keeps of a sequence: all of it, or as much of its end as fits.
LEMMA CappedFacts ==
    ASSUME NEW s \in Seq(Tx)
    PROVE  \E k \in Nat :
               /\ Capped(s) \in Seq(Tx) /\ Len(s) = Len(Capped(s)) + k
               /\ \A i \in 1..Len(Capped(s)) : Capped(s)[i] = s[i + k]
               /\ Len(Capped(s)) = MaxDisconnected \/ (Capped(s) = s /\ Len(s) < MaxDisconnected)
<1>1. PICK m \in Nat, n \in Nat : Len(s) = n /\ MaxDisconnected = m
  BY BufferAssumption
<1>2. CASE n > m
  <2>1. PICK k \in Nat : n = m + k
    <3>1. n - m \in Nat /\ n = m + (n - m)
      BY <1>2
    <3> QED BY <3>1
  <2>2. Capped(s) = SubSeq(s, k + 1, n)
    BY <1>1, <1>2, <2>1 DEF Capped
  <2>3. PICK q : q = SubSeq(s, k + 1, n)
    OBVIOUS
  <2>4. q \in Seq(Tx) /\ Len(q) = m /\ \A i \in 1..m : q[i] = s[i + k]
    <3>1. \A i \in (k + 1)..n : s[i] \in Tx
      BY <1>1
    <3>2. q \in Seq(Tx) /\ Len(q) = IF k + 1 <= n THEN n - (k + 1) + 1 ELSE 0
      BY <1>1, <2>1, <2>3, <3>1
    <3>3. Len(q) = m
      BY <2>1, <3>2
    <3>4. ASSUME NEW i \in 1..m PROVE q[i] = s[i + k]
      BY <1>1, <2>1, <2>3
    <3> QED BY <3>2, <3>3, <3>4
  <2> QED BY <1>1, <2>1, <2>2, <2>3, <2>4
<1>3. CASE ~(n > m)
  <2>1. Capped(s) = s
    BY <1>1, <1>3 DEF Capped
  <2>2. n = m \/ n < m
    BY <1>3
  <2>3. \A i \in 1..n : i + 0 = i
    OBVIOUS
  <2> QED BY <1>1, <2>1, <2>2, <2>3
<1> QED BY <1>2, <1>3

\* QueueConnected and QueueDisconnected queue the transactions but the coinbase.
LEMMA PaymentsFacts ==
    ASSUME NEW b \in Hash
    PROVE  /\ Payments(BlockTxs[b]) \in Seq(Tx)
           /\ ToSet(Payments(BlockTxs[b])) = TxsOf(b) \ Coinbase
<1>1. PICK s \in Seq(Tx) : s = BlockTxs[b]
  BY TxFacts
<1>2. PICK n \in Nat : Len(s) = n /\ DOMAIN s = 1..n
  OBVIOUS
<1>3. \A i \in 1..n : s[i] \in Coinbase <=> i = 1
  BY <1>1, <1>2, TreeAssumption
<1>4. CASE s = <<>>
  BY <1>1, <1>4 DEF Payments, TxsOf, ToSet
<1>5. CASE s # <<>>
  <2>1. PICK q \in Seq(Tx) : q = Tail(s)
    BY <1>5, HeadTailProperties
  <2>2. PICK m \in Nat : n = m + 1 /\ Len(q) = m /\ DOMAIN q = 1..m
    <3>1. n # 0 /\ Len(q) = n - 1
      BY <1>2, <1>5, <2>1
    <3>2. n - 1 \in Nat /\ n = (n - 1) + 1
      BY <3>1
    <3> QED BY <3>1, <3>2
  <2>3. \A i \in 1..m : q[i] = s[i + 1]
    BY <1>2, <1>5, <2>1, <2>2
  <2>4. ToSet(q) \subseteq ToSet(s) \ Coinbase
    <3> SUFFICES ASSUME NEW i \in 1..m PROVE q[i] \in ToSet(s) \ Coinbase
      BY <2>2 DEF ToSet
    <3>1. i + 1 \in 1..n /\ i + 1 # 1
      BY <2>2
    <3> QED BY <1>2, <1>3, <2>3, <3>1 DEF ToSet
  <2>5. ToSet(s) \ Coinbase \subseteq ToSet(q)
    <3> SUFFICES ASSUME NEW i \in 1..n, i # 1 PROVE s[i] \in ToSet(q)
      BY <1>2, <1>3 DEF ToSet
    <3>1. PICK j \in 1..m : i = j + 1
      <4>1. i - 1 \in 1..m /\ i = (i - 1) + 1
        BY <2>2
      <4> QED BY <4>1
    <3> QED BY <2>2, <2>3, <3>1 DEF ToSet
  <2> QED BY <1>1, <1>5, <2>1, <2>4, <2>5 DEF Payments, TxsOf
<1> QED BY <1>4, <1>5

\* What a block adds to the transactions of its branch.
LEMMA BranchStep ==
    ASSUME NEW b \in Hash \ {Genesis}
    PROVE  /\ BranchTxs(b) = BranchTxs(Parent[b]) \cup TxsOf(b)
           /\ PaymentsOn(b) = PaymentsOn(Parent[b]) \cup (TxsOf(b) \ Coinbase)
<1>1. Ancestors(b) = Ancestors(Parent[b]) \cup {b}
  BY AncestorsStep
<1>2. BranchTxs(b) = BranchTxs(Parent[b]) \cup TxsOf(b)
  BY <1>1 DEF BranchTxs
<1> QED BY <1>2 DEF PaymentsOn
LEMMA QueuesInit == Init => QueuesInv
<1> SUFFICES ASSUME Init PROVE QueuesInv
  OBVIOUS
<1>1. /\ pc = "down" /\ op = "idle" /\ mSyncConnected = <<>> /\ mSyncDisconnected = <<>>
  BY DEF Init
<1>2. <<>> \in Seq(Tx) /\ DOMAIN <<>> = {}
  OBVIOUS
<1> QED BY <1>1, <1>2 DEF QueuesInv, LeavingInv, HeightInv, SyncInv, OrderInv, Running

\* Steps of a method that move no tip and touch no queue.
LEMMA QueuesFrame ==
    ASSUME QueuesInv,
           UNCHANGED <<mBestChain, mChainByHeight, mSyncConnected, mSyncDisconnected, syncedTip>>,
           Running' <=> Running, Arriving' = Arriving, Leaving' = Leaving,
           op' = "disconnect" => op = "disconnect" /\ UNCHANGED <<todo, undo>>
    PROVE  QueuesInv'
<1>1. LeavingInv'
  BY DEF QueuesInv, LeavingInv
<1>2. HeightInv'
  BY DEF QueuesInv, HeightInv
<1>3. SyncInv'
  BY DEF QueuesInv, SyncInv
<1>4. OrderInv'
  BY DEF QueuesInv, OrderInv
<1> QED BY <1>1, <1>2, <1>3, <1>4 DEF QueuesInv

\* Until Initialize returns nothing is queued.
LEMMA QueuesBoot ==
    ASSUME QueuesInv, ~Running', op' # "disconnect",
           \/ ~Running /\ UNCHANGED <<mSyncConnected, mSyncDisconnected>>
           \/ mSyncConnected' = <<>> /\ mSyncDisconnected' = <<>>
    PROVE  QueuesInv'
<1>1. <<>> \in Seq(Tx) /\ DOMAIN <<>> = {}
  OBVIOUS
<1>2. mSyncConnected' \in Seq(Tx) /\ mSyncDisconnected' = <<>>
  BY <1>1 DEF QueuesInv, SyncInv
<1> QED BY <1>1, <1>2 DEF QueuesInv, LeavingInv, HeightInv, SyncInv, OrderInv

\* Initialize returns with the height table built and nothing to hand over.
LEMMA ReadyQueues ==
    ASSUME QueuesInv, ~Running, Ready, UNCHANGED <<queues, mBestChain>>
    PROVE  QueuesInv'
<1>1. /\ pc' = "idle" /\ op' = "idle" /\ mChainByHeight' = PathTo[mBestChain]
      /\ syncedTip' = mBestChain
      /\ UNCHANGED <<mBestChain, mSyncConnected, mSyncDisconnected>>
  BY DEF Ready, Goto, queues
<1>2. mSyncConnected \in Seq(Tx) /\ mSyncDisconnected = <<>>
  BY DEF QueuesInv, SyncInv
<1>3. <<>> \in Seq(Tx) /\ DOMAIN <<>> = {}
  OBVIOUS
<1>4. LeavingInv' /\ HeightInv'
  BY <1>1 DEF LeavingInv, HeightInv
<1>5. PaymentsOn(mBestChain)' \ PaymentsOn(syncedTip)' = {}
      /\ PaymentsOn(syncedTip)' \ PaymentsOn(mBestChain)' = {}
  BY <1>1
<1>6. SyncInv'
  BY <1>1, <1>2, <1>3, <1>5 DEF SyncInv, Running
<1>7. OrderInv'
  BY <1>1, <1>2, <1>3 DEF OrderInv
<1> QED BY <1>4, <1>6, <1>7 DEF QueuesInv

\* TakeMempoolSync hands over both queues.
LEMMA TakeMempoolSyncQueues ==
    ASSUME SafeInv, QueuesInv, TakeMempoolSync
    PROVE  QueuesInv'
<1>1. /\ pc = "idle" /\ op = "idle" /\ UNCHANGED <<pc, op, mBestChain, mChainByHeight>>
      /\ mSyncConnected' = <<>> /\ mSyncDisconnected' = <<>> /\ syncedTip' = mBestChain
  BY DEF TakeMempoolSync, tipVars, SafeInv, SafeStep, HeldInv, SafePhases, Phases
<1>2. <<>> \in Seq(Tx) /\ DOMAIN <<>> = {}
  OBVIOUS
<1>3. LeavingInv' /\ HeightInv'
  BY <1>1 DEF QueuesInv, LeavingInv, HeightInv, Running
<1>4. PaymentsOn(mBestChain)' \ PaymentsOn(syncedTip)' = {}
      /\ PaymentsOn(syncedTip)' \ PaymentsOn(mBestChain)' = {}
  BY <1>1
<1>5. SyncInv'
  BY <1>1, <1>2, <1>4 DEF SyncInv, Running
<1>6. OrderInv'
  BY <1>1, <1>2 DEF OrderInv
<1> QED BY <1>3, <1>5, <1>6 DEF QueuesInv

\* DisconnectTip takes the tip off the height table; its payments are leaving.
LEMMA TipBackQueues ==
    ASSUME SafeInv, QueuesInv, TipBack
    PROVE  QueuesInv'
<1>1. pc = "undo" /\ op = "undo" /\ pc' = "flush" /\ op' = "disconnect"
  BY DEF TipBack, Goto
<1>2. PICK b \in Hash \ {Genesis} : b = mBestChain /\ undo[b] # NoKey
  BY <1>1 DEF SafeInv, ChainTypes, SafeStep, LeaveInv
<1>3. PICK p \in Hash : p = Parent[b] /\ Height[b] = Height[p] + 1 /\ Height[p] \in Nat
  BY TreeFacts
<1>4. /\ mBestChain' = p /\ todo' = BlockTxs[b] /\ mChainByHeight' = Popped(p)
      /\ UNCHANGED <<undo, mSyncConnected, mSyncDisconnected, syncedTip>>
  BY <1>2, <1>3 DEF TipBack, queues, history
<1>5. Running /\ Arriving = {} /\ Leaving = {}
  BY <1>1 DEF Running, Arriving, Leaving
<1>6. Running' /\ Arriving' = {} /\ Leaving' = TxsOf(b)
  BY <1>1, <1>4 DEF Running, Arriving, Leaving, TxsOf
<1>7. LeavingInv'
  BY <1>2, <1>3, <1>4 DEF LeavingInv
<1>8. HeightInv'
  <2>1. PICK s \in Seq(Hash) : s = PathTo[p] /\ Len(s) = Height[p] + 1
    BY PathEquation, PathShape
  <2>2. mChainByHeight = Append(s, b)
    BY <1>2, <1>3, <1>5, <2>1, PathEquation DEF QueuesInv, HeightInv
  <2>3. PICK n \in Nat : Len(s) = n
    OBVIOUS
  <2>4. Len(Append(s, b)) = n + 1 /\ Front(Append(s, b)) = s
    BY <2>3 DEF Front
  <2>5. Popped(p) = s
    BY <1>3, <2>1, <2>2, <2>3, <2>4 DEF Popped
  <2> QED BY <1>4, <2>1, <2>5 DEF HeightInv
<1>9. /\ BranchTxs(b) = BranchTxs(p) \cup TxsOf(b)
      /\ PaymentsOn(b) = PaymentsOn(p) \cup (TxsOf(b) \ Coinbase)
  BY <1>3, BranchStep
<1>10. SyncInv'
  <2>1. /\ mSyncConnected \in Seq(Tx) /\ mSyncDisconnected \in Seq(Tx)
        /\ PaymentsOn(b) \ PaymentsOn(syncedTip) \subseteq ToSet(mSyncConnected)
        /\ \/ Len(mSyncDisconnected) = MaxDisconnected
           \/ PaymentsOn(syncedTip) \ PaymentsOn(b) \subseteq ToSet(mSyncDisconnected)
    BY <1>2, <1>5 DEF QueuesInv, SyncInv
  <2>2. PaymentsOn(p) \ PaymentsOn(syncedTip) \subseteq ToSet(mSyncConnected)
    BY <1>9, <2>1
  <2>3. \/ Len(mSyncDisconnected) = MaxDisconnected
        \/ PaymentsOn(syncedTip) \ PaymentsOn(p) \subseteq ToSet(mSyncDisconnected) \cup TxsOf(b)
    BY <1>9, <2>1
  <2>4. /\ PaymentsOn(mBestChain)' = PaymentsOn(p) /\ PaymentsOn(syncedTip)' = PaymentsOn(syncedTip)
    BY <1>4
  <2> QED BY <1>4, <1>6, <2>1, <2>2, <2>3, <2>4 DEF SyncInv
<1>11. OrderInv'
  <2>1. BranchTxs(mBestChain)' \cup Leaving' = BranchTxs(mBestChain) \cup Leaving
    BY <1>2, <1>4, <1>5, <1>6, <1>9
  <2> QED BY <1>4, <2>1 DEF QueuesInv, OrderInv
<1> QED BY <1>7, <1>8, <1>10, <1>11 DEF QueuesInv

\* ConnectBlock puts the new tip on the height table; its payments are arriving.
LEMMA TipForwardQueues ==
    ASSUME SafeInv, QueuesInv, TipForward
    PROVE  QueuesInv'
<1>1. pc = "tip" /\ op = "connect" /\ pc' = "flush" /\ op' = "connect"
  BY DEF TipForward, Goto
<1>2. Path(chainBest) /\ chainBest \in Hash /\ mBestChain = chainBest
  BY <1>1 DEF SafeInv, ChainTypes, SafeStep, BranchInv, JoinInv
<1>3. PICK b \in Hash \ {Genesis} : b = Head(branch) /\ Parent[b] = mBestChain
  BY <1>2, NextOnTip DEF SafeInv
<1>4. /\ mBestChain' = b /\ mChainByHeight' = Pushed(b)
      /\ UNCHANGED <<mSyncConnected, mSyncDisconnected, syncedTip>>
  BY <1>3 DEF TipForward, MoveTip, queues, history
<1>5. Running /\ Arriving = {} /\ Leaving = {}
  BY <1>1 DEF Running, Arriving, Leaving
<1>6. Running' /\ Arriving' = TxsOf(b) /\ Leaving' = {}
  BY <1>1, <1>4 DEF Running, Arriving, Leaving
<1>7. LeavingInv'
  BY <1>1 DEF LeavingInv
<1>8. HeightInv'
  <2>1. Len(PathTo[mBestChain]) = Height[mBestChain] + 1
    BY <1>2, PathShape
  <2>2. Pushed(b) = PathTo[b]
    BY <1>3, <1>5, <2>1, PathEquation DEF QueuesInv, HeightInv, Pushed
  <2> QED BY <1>4, <2>2 DEF HeightInv
<1>9. /\ BranchTxs(b) = BranchTxs(mBestChain) \cup TxsOf(b)
      /\ PaymentsOn(b) = PaymentsOn(mBestChain) \cup (TxsOf(b) \ Coinbase)
  BY <1>3, BranchStep
<1>10. SyncInv'
  <2>1. /\ mSyncConnected \in Seq(Tx) /\ mSyncDisconnected \in Seq(Tx)
        /\ PaymentsOn(mBestChain) \ PaymentsOn(syncedTip) \subseteq ToSet(mSyncConnected)
        /\ \/ Len(mSyncDisconnected) = MaxDisconnected
           \/ PaymentsOn(syncedTip) \ PaymentsOn(mBestChain) \subseteq ToSet(mSyncDisconnected)
    BY <1>5 DEF QueuesInv, SyncInv
  <2>2. PaymentsOn(b) \ PaymentsOn(syncedTip) \subseteq ToSet(mSyncConnected) \cup TxsOf(b)
    BY <1>9, <2>1
  <2>3. \/ Len(mSyncDisconnected) = MaxDisconnected
        \/ PaymentsOn(syncedTip) \ PaymentsOn(b) \subseteq ToSet(mSyncDisconnected)
    BY <1>9, <2>1
  <2>4. /\ PaymentsOn(mBestChain)' = PaymentsOn(b) /\ PaymentsOn(syncedTip)' = PaymentsOn(syncedTip)
    BY <1>4
  <2> QED BY <1>4, <1>6, <2>1, <2>2, <2>3, <2>4 DEF SyncInv
<1>11. OrderInv'
  <2>1. BranchTxs(mBestChain) \cup Leaving \subseteq BranchTxs(mBestChain)' \cup Leaving'
    BY <1>4, <1>5, <1>9
  <2> QED BY <1>4, <2>1 DEF QueuesInv, OrderInv
<1> QED BY <1>7, <1>8, <1>10, <1>11 DEF QueuesInv

\* QueueConnected queues what arrived.
LEMMA ConnectedQueues ==
    ASSUME SafeInv, QueuesInv, Connected
    PROVE  QueuesInv'
<1>1. /\ pc = "flushed" /\ op = "connect" /\ op' \in {"idle", "connect"}
      /\ pc' \in {"idle", "connect"}
  BY DEF Connected, Return, Goto
<1>2. PICK b \in Hash : b = mBestChain
  BY <1>1 DEF SafeInv, ChainTypes, SafeStep, HeldInv, Resting, Sound
<1>3. /\ mSyncConnected' = mSyncConnected \o Payments(BlockTxs[b])
      /\ UNCHANGED <<mBestChain, mChainByHeight, mSyncDisconnected, syncedTip>>
  BY <1>2 DEF Connected, QueueConnected, tipVars, history
<1>4. Running /\ Arriving = TxsOf(b) /\ Leaving = {}
  BY <1>1, <1>2 DEF Running, Arriving, Leaving
<1>5. Running' /\ Arriving' = {} /\ Leaving' = {}
  BY <1>1 DEF Running, Arriving, Leaving
<1>6. LeavingInv' /\ HeightInv' /\ OrderInv'
  BY <1>1, <1>3, <1>4, <1>5 DEF QueuesInv, LeavingInv, HeightInv, OrderInv
<1>7. SyncInv'
  <2>1. /\ mSyncConnected \in Seq(Tx) /\ mSyncDisconnected \in Seq(Tx)
        /\ PaymentsOn(mBestChain) \ PaymentsOn(syncedTip) \subseteq
               ToSet(mSyncConnected) \cup TxsOf(b)
        /\ \/ Len(mSyncDisconnected) = MaxDisconnected
           \/ PaymentsOn(syncedTip) \ PaymentsOn(mBestChain) \subseteq ToSet(mSyncDisconnected)
    BY <1>4 DEF QueuesInv, SyncInv
  <2>2. /\ mSyncConnected' \in Seq(Tx)
        /\ ToSet(mSyncConnected') = ToSet(mSyncConnected) \cup (TxsOf(b) \ Coinbase)
    BY <1>3, <2>1, Joined, PaymentsFacts
  <2>3. PaymentsOn(mBestChain) \ PaymentsOn(syncedTip) \subseteq ToSet(mSyncConnected')
    BY <2>1, <2>2 DEF PaymentsOn
  <2>4. /\ PaymentsOn(mBestChain)' = PaymentsOn(mBestChain)
        /\ PaymentsOn(syncedTip)' = PaymentsOn(syncedTip)
    BY <1>3
  <2> QED BY <1>3, <1>5, <2>1, <2>2, <2>3, <2>4 DEF SyncInv
<1> QED BY <1>6, <1>7 DEF QueuesInv
\* QueueDisconnected queues what left, last transaction first, and drops the oldest
\* entries.  What a payment of the block spends was made by an older block, which
\* is still on the chain.
LEMMA DisconnectedQueues ==
    ASSUME SafeInv, ValidInv, QueuesInv, Disconnected
    PROVE  QueuesInv'
<1>1. pc = "flushed" /\ op = "disconnect" /\ op' = "connect" /\ pc' \in {"rollback", "disconnect"}
  BY DEF Disconnected, Goto
<1>2. PICK b \in Hash \ {Genesis} :
          todo = BlockTxs[b] /\ Parent[b] = mBestChain /\ undo[b] # NoKey
  BY <1>1 DEF QueuesInv, LeavingInv
<1>3. PICK r \in Seq(Tx) : r = Reverse(Payments(BlockTxs[b])) /\ ToSet(r) = TxsOf(b) \ Coinbase
  BY PaymentsFacts, Turned
<1>4. mSyncConnected \in Seq(Tx) /\ mSyncDisconnected \in Seq(Tx)
  BY DEF QueuesInv, SyncInv
<1>5. PICK m \in Nat, n \in Nat :
          /\ Len(mSyncDisconnected) = m /\ DOMAIN mSyncDisconnected = 1..m
          /\ Len(r) = n /\ DOMAIN r = 1..n
  BY <1>4
<1>6. PICK s \in Seq(Tx) :
          /\ s = mSyncDisconnected \o r /\ Len(s) = m + n
          /\ \A i \in 1..m : s[i] = mSyncDisconnected[i]
          /\ \A i \in 1..n : s[m + i] = r[i]
          /\ ToSet(s) = ToSet(mSyncDisconnected) \cup ToSet(r)
  <2>1. PICK d \in Seq(Tx) : d = mSyncDisconnected
    BY <1>4
  <2>2. PICK s \in Seq(Tx) :
            /\ s = d \o r /\ Len(s) = Len(d) + Len(r)
            /\ \A i \in 1..Len(d) : s[i] = d[i]
            /\ \A i \in 1..Len(r) : s[Len(d) + i] = r[i]
            /\ ToSet(s) = ToSet(d) \cup ToSet(r)
    BY Joined
  <2> QED BY <1>5, <2>1, <2>2
<1>7. PICK q : q = Capped(s)
  OBVIOUS
<1>8. PICK k \in Nat :
          /\ q \in Seq(Tx) /\ Len(s) = Len(q) + k
          /\ \A i \in 1..Len(q) : q[i] = s[i + k]
          /\ Len(q) = MaxDisconnected \/ (q = s /\ Len(s) < MaxDisconnected)
  BY <1>7, CappedFacts
<1>9. /\ mSyncDisconnected' = q
      /\ UNCHANGED <<mBestChain, mChainByHeight, mSyncConnected, syncedTip>>
  BY <1>2, <1>3, <1>6, <1>7 DEF Disconnected, tipVars, history
<1>10. Running /\ Arriving = {} /\ Leaving = TxsOf(b)
  BY <1>1, <1>2 DEF Running, Arriving, Leaving, TxsOf
<1>11. Running' /\ Arriving' = {} /\ Leaving' = {}
  BY <1>1 DEF Running, Arriving, Leaving
<1>12. LeavingInv' /\ HeightInv'
  BY <1>1, <1>9, <1>10 DEF QueuesInv, LeavingInv, HeightInv
<1>13. SyncInv'
  <2>1. /\ PaymentsOn(mBestChain) \ PaymentsOn(syncedTip) \subseteq ToSet(mSyncConnected)
        /\ \/ m = MaxDisconnected
           \/ PaymentsOn(syncedTip) \ PaymentsOn(mBestChain) \subseteq
                  ToSet(mSyncDisconnected) \cup TxsOf(b)
    BY <1>5, <1>10 DEF QueuesInv, SyncInv
  <2>2. \/ Len(q) = MaxDisconnected
        \/ PaymentsOn(syncedTip) \ PaymentsOn(mBestChain) \subseteq ToSet(q)
    <3>1. CASE q = s /\ Len(s) < MaxDisconnected
      <4>1. m # MaxDisconnected
        BY <1>6, <3>1, BufferAssumption
      <4>2. ToSet(q) = ToSet(mSyncDisconnected) \cup (TxsOf(b) \ Coinbase)
        BY <1>3, <1>6, <3>1
      <4> QED BY <2>1, <4>1, <4>2 DEF PaymentsOn
    <3> QED BY <1>8, <3>1
  <2>3. /\ PaymentsOn(mBestChain)' = PaymentsOn(mBestChain)
        /\ PaymentsOn(syncedTip)' = PaymentsOn(syncedTip)
    BY <1>9
  <2> QED BY <1>4, <1>8, <1>9, <1>11, <2>1, <2>2, <2>3 DEF SyncInv
<1>14. ASSUME NEW i \in 1..(m + n), NEW p \in Tx \ Coinbase, Outs[p] \cap Ins[s[i]] # {}
       PROVE  p \in BranchTxs(mBestChain) \/ \E j \in 1..(m + n) : j > i /\ s[j] = p
  <2>1. CASE i <= m
    <3>1. i \in 1..m /\ s[i] = mSyncDisconnected[i]
      BY <1>6, <2>1
    <3>2. \/ p \in BranchTxs(mBestChain) \cup TxsOf(b)
          \/ \E j \in 1..m : j > i /\ mSyncDisconnected[j] = p
      BY <1>5, <1>10, <1>14, <3>1 DEF QueuesInv, OrderInv
    <3>3. CASE p \in TxsOf(b)
      <4>1. PICK j \in 1..n : r[j] = p
        BY <1>3, <1>5, <3>3 DEF ToSet
      <4>2. m + j \in 1..(m + n) /\ m + j > i /\ s[m + j] = p
        BY <1>6, <2>1, <4>1
      <4> QED BY <4>2
    <3>4. CASE \E j \in 1..m : j > i /\ mSyncDisconnected[j] = p
      <4>1. PICK j \in 1..m : j > i /\ mSyncDisconnected[j] = p
        BY <3>4
      <4>2. j \in 1..(m + n) /\ s[j] = p
        BY <1>6, <4>1
      <4> QED BY <4>1, <4>2
    <3> QED BY <3>2, <3>3, <3>4
  <2>2. CASE i > m
    <3>1. PICK t \in TxsOf(b) : t = s[i]
      <4>1. i - m \in 1..n /\ m + (i - m) = i
        BY <2>2
      <4>2. s[i] = r[i - m]
        BY <1>6, <4>1
      <4> QED BY <1>3, <1>5, <4>1, <4>2 DEF ToSet
    <3>2. PICK o \in Outs[p] \cap Ins[t] : TRUE
      BY <1>14, <3>1
    <3>3. o \in Outpoint /\ CoinsAt[mBestChain][o] # NoCoin /\ mBestChain \in Hash
      BY <1>2, <3>1, <3>2, TxFacts, TreeFacts DEF ValidInv, Funded, Pre
    <3>4. PICK a \in Ancestors(mBestChain) : \E v \in TxsOf(a) : o \in Outs[v]
      BY <3>3, Created
    <3>5. a \in Hash
      BY <3>3, <3>4, AncestorFacts
    <3>6. p \in TxsOf(a)
      BY <3>2, <3>4, <3>5, TxFacts, OneCreator
    <3> QED BY <3>4, <3>6 DEF BranchTxs
  <2> QED BY <2>1, <2>2
<1>15. OrderInv'
  <2>1. PICK w \in Nat : Len(q) = w /\ DOMAIN q = 1..w /\ w + k = m + n
    BY <1>6, <1>8
  <2>2. ASSUME NEW i \in 1..w, NEW p \in Tx \ Coinbase, Outs[p] \cap Ins[q[i]] # {}
        PROVE  p \in BranchTxs(mBestChain) \/ \E j \in 1..w : j > i /\ q[j] = p
    <3>1. PICK i2 \in 1..(m + n) : i2 = i + k /\ q[i] = s[i2]
      BY <1>8, <2>1
    <3>2. CASE \E j \in 1..(m + n) : j > i2 /\ s[j] = p
      <4>1. PICK j \in 1..(m + n) : j > i2 /\ s[j] = p
        BY <3>2
      <4>2. PICK j1 \in 1..w : j = j1 + k /\ j1 > i
        <5>1. j - k \in 1..w /\ j = (j - k) + k /\ j - k > i
          BY <2>1, <3>1, <4>1
        <5> QED BY <5>1
      <4>3. q[j1] = p
        BY <1>8, <2>1, <4>1, <4>2
      <4> QED BY <4>2, <4>3
    <3> QED BY <1>14, <2>2, <3>1, <3>2
  <2>3. \A i \in DOMAIN q : \A p \in Tx \ Coinbase : Outs[p] \cap Ins[q[i]] # {} =>
            p \in BranchTxs(mBestChain) \/ \E j \in DOMAIN q : j > i /\ q[j] = p
    BY <2>1, <2>2
  <2>4. BranchTxs(mBestChain)' = BranchTxs(mBestChain)
    BY <1>9
  <2> QED BY <1>9, <2>3, <2>4 DEF OrderInv
<1> QED BY <1>12, <1>13, <1>15 DEF QueuesInv
\* The steps of a start.
LEMMA StartQueues ==
    ASSUME SafeInv, SafeInv', QueuesInv,
           \/ Start \/ StoreGenesis \/ GenesisTip \/ ReplayBack \/ ReplayForward \/ ReapplyTx
           \/ ReapplyDone \/ ReplayDone \/ ReplayUndone
    PROVE  QueuesInv'
<1>1. UNCHANGED <<mSyncConnected, mSyncDisconnected>>
  BY DEF Start, StoreGenesis, GenesisTip, ReplayBack, ReplayForward, ReapplyTx, ReapplyDone,
     ReplayDone, ReplayUndone, queues
<1>2. ~Running
  BY DEF Start, StoreGenesis, GenesisTip, ReplayBack, ReplayForward, ReapplyTx, ReapplyDone,
     ReplayDone, ReplayUndone, Running, SafeInv, SafeStep, HeldInv, SafePhases, Phases
<1>3. pc' # "refused" /\ (pc = "reapply" => op = "replay")
  BY DEF SafeInv, SafeStep, HeldInv, SafePhases, Phases
<1>4. ~Running' /\ op' # "disconnect"
  BY <1>3 DEF Start, StoreGenesis, GenesisTip, ReplayBack, ReplayForward, ReapplyTx,
     ReapplyDone, ReplayDone, ReplayUndone, Running, Goto
<1> QED BY <1>1, <1>2, <1>4, QueuesBoot

LEMMA CheckQueues ==
    ASSUME SafeInv', QueuesInv, Check
    PROVE  QueuesInv'
<1>1. pc = "check" /\ ~Running /\ UNCHANGED <<queues, mBestChain>>
  BY DEF Check, Running
<1>2. pc' # "refused"
  BY DEF SafeInv, SafeStep, HeldInv, SafePhases, Phases
<1>3. CASE Ready
  BY <1>1, <1>3, ReadyQueues
<1>4. CASE ~Ready
  <2>1. (pc' = "rollback" /\ op' = "replay") \/ (pc' = "flush" /\ op' = "repair")
    BY <1>2, <1>4 DEF Check, NothingToReplay, Goto
  <2> QED BY <1>1, <2>1, QueuesBoot DEF Running, queues
<1> QED BY <1>3, <1>4

LEMMA StayQueues ==
    ASSUME SafeInv, QueuesInv, IndexTx \/ UndoTx \/ ApplyTx \/ FlushSome \/ UNCHANGED vars
    PROVE  QueuesInv'
<1>1. UNCHANGED <<pc, op, mBestChain, mChainByHeight, mSyncConnected, mSyncDisconnected, syncedTip,
                  undo>>
  BY DEF IndexTx, UndoTx, ApplyTx, FlushSome, vars, queues, tipVars, history, chainDisk
<1>2. op = "disconnect" => UNCHANGED todo
  BY DEF IndexTx, UndoTx, ApplyTx, FlushSome, vars, txVars, SafeInv, SafeStep, HeldInv, SafePhases, Phases
<1>3. (Running' <=> Running) /\ Arriving' = Arriving /\ Leaving' = Leaving
  BY <1>1, <1>2 DEF Running, Arriving, Leaving
<1> QED BY <1>1, <1>2, <1>3, QueuesFrame

LEMMA FlushQueues ==
    ASSUME SafeInv, SafeInv', QueuesInv,
           FlushBegin \/ FlushEnd \/ \E o \in {"sync", "close"} : Flush(o)
    PROVE  QueuesInv'
<1>1. UNCHANGED <<mBestChain, mChainByHeight, mSyncConnected, mSyncDisconnected, syncedTip,
                  undo, todo>>
  BY DEF FlushBegin, FlushEnd, Flush, queues, tipVars, history, chainDisk, txVars
<1>2. \/ pc = "flush" /\ pc' = "flushing" /\ op' = op
      \/ pc = "flushing" /\ op \in {"connect", "disconnect"} /\ pc' = "flushed" /\ op' = op
      \/ pc = "flushing" /\ op = "genesis" /\ pc' = "check" /\ op' = "boot"
      \/ pc = "flushing" /\ op \in {"replay", "repair"} /\ pc' = "ready" /\ op' = "boot"
      \/ pc = "flushing" /\ op = "sync" /\ pc' = "idle" /\ op' = "idle"
      \/ pc = "idle" /\ op = "idle" /\ pc' = "flush" /\ op' \in {"sync", "close"}
  BY DEF FlushBegin, FlushEnd, Flush, Goto, SafeInv, SafeStep, HeldInv, SafePhases, Phases
<1>3. (Running' <=> Running) /\ Arriving' = Arriving /\ Leaving' = Leaving
  BY <1>1, <1>2 DEF Running, Arriving, Leaving
<1>4. op' = "disconnect" => op = "disconnect"
  BY <1>2
<1> QED BY <1>1, <1>3, <1>4, QueuesFrame

\* The steps of AcceptBlock that move no tip.
LEMMA BetweenTipsQueues ==
    ASSUME SafeInv, QueuesInv,
           \/ \E b \in Hash \ {Genesis} : AcceptBlock(b)
           \/ Activate \/ DisconnectTip \/ ConnectBlock \/ ApplyFails \/ Unapply \/ Unapplied
           \/ RecordBlock \/ RolledBack
    PROVE  QueuesInv'
<1>1. UNCHANGED <<mBestChain, mChainByHeight, mSyncConnected, mSyncDisconnected, syncedTip>>
  BY DEF AcceptBlock, Activate, DisconnectTip, ConnectBlock, ApplyFails, Unapply, Unapplied,
     RecordBlock, RolledBack, queues, tipVars, history
<1>2. <<pc, op>> \in SafePhases
  BY DEF SafeInv, SafeStep, HeldInv
<1>3. /\ op \notin {"disconnect", "genesis", "replay", "repair"}
      /\ pc \notin {"down", "check", "ready", "flush", "flushing", "flushed"}
      /\ pc = "unapply" => op = "connect"
  BY <1>2 DEF AcceptBlock, Activate, DisconnectTip, ConnectBlock, ApplyFails, Unapply,
     Unapplied, RecordBlock, RolledBack, SafePhases, Phases
<1>4. /\ op' \in {"idle", "accept", "connect", "undo"}
      /\ pc' \in {"index", "disconnect", "undo", "idle", "apply", "rollback", "unapply", "tip"}
  BY <1>3 DEF AcceptBlock, Activate, DisconnectTip, ConnectBlock, ApplyFails, Unapply,
     Unapplied, RecordBlock, RolledBack, Return, Goto
<1>5. Running' /\ Running /\ Arriving' = Arriving /\ Leaving' = Leaving
  BY <1>3, <1>4 DEF Running, Arriving, Leaving
<1> QED BY <1>1, <1>4, <1>5, QueuesFrame

LEMMA QueuesNext ==
    ASSUME SafeInv, SafeInv', ValidInv, QueuesInv, [Next]_vars
    PROVE  QueuesInv'
<1>1. CASE \/ Start \/ StoreGenesis \/ GenesisTip \/ ReplayBack \/ ReplayForward \/ ReapplyTx
           \/ ReapplyDone \/ ReplayDone \/ ReplayUndone
  BY <1>1, StartQueues
<1>2. CASE Check
  BY <1>2, CheckQueues
<1>3. CASE Initialized
  BY <1>3, ReadyQueues DEF Initialized, Running
<1>4. CASE Closed \/ Crash
  BY <1>4, QueuesBoot DEF Closed, Crash, Blank, Goto, Running
<1>5. CASE IndexTx \/ UndoTx \/ ApplyTx \/ FlushSome \/ UNCHANGED vars
  BY <1>5, StayQueues
<1>6. CASE FlushBegin \/ FlushEnd \/ \E o \in {"sync", "close"} : Flush(o)
  BY <1>6, FlushQueues
<1>7. CASE \/ \E b \in Hash \ {Genesis} : AcceptBlock(b)
           \/ Activate \/ DisconnectTip \/ ConnectBlock \/ ApplyFails \/ Unapply \/ Unapplied
           \/ RecordBlock \/ RolledBack
  BY <1>7, BetweenTipsQueues
<1>8. CASE TipBack \/ TipForward \/ Connected \/ Disconnected \/ TakeMempoolSync
  BY <1>8, TipBackQueues, TipForwardQueues, ConnectedQueues, DisconnectedQueues,
     TakeMempoolSyncQueues
<1> QED BY <1>1, <1>2, <1>3, <1>4, <1>5, <1>6, <1>7, <1>8 DEF Next, Step

\* The height table and the queues are what the moves of the tip make them.
LEMMA QueuesInvariant == Spec => [](SafeInv /\ QueuesInv)
<1>1. Init => QueuesInv
  BY QueuesInit
<1>2. SafeInv /\ SafeInv' /\ ValidInv /\ QueuesInv /\ [Next]_vars => QueuesInv'
  BY QueuesNext
<1> QED BY <1>1, <1>2, ValidInvariant, PTL DEF Spec

\* Nothing is half queued while no method runs.
LEMMA IdleQueues ==
    ASSUME SafeInv, QueuesInv, pc = "idle"
    PROVE  Running /\ Arriving = {} /\ Leaving = {}
  BY DEF SafeInv, SafeStep, HeldInv, SafePhases, Phases, Running, Arriving, Leaving

\* The height table that BuildHeightIndexLocked makes, and that connecting and
\* disconnecting blocks only extend and shorten, is the active chain: it is never
\* stale, and never given up for the walk over the block index.
THEOREM HeightTableExact == Spec => []HeightsExact
<1>1. SafeInv /\ QueuesInv => HeightsExact
  BY IdleQueues DEF QueuesInv, HeightInv, HeightsExact
<1> QED BY <1>1, QueuesInvariant, PTL

\* Every payment that joined the active chain since the last TakeMempoolSync is in
\* the first queue, every one that left it in the second, unless that buffer is
\* full: whatever reorganisations, failed ones included, lie between.
THEOREM SyncIsComplete == Spec => []SyncCovers
<1>1. SafeInv /\ QueuesInv => SyncCovers
  BY IdleQueues DEF QueuesInv, SyncInv, SyncCovers
<1> QED BY <1>1, QueuesInvariant, PTL

\* SyncMempoolWithChain puts the second queue back from its end.  No payment then
\* comes before one it spends from, also when the buffer dropped entries: what it
\* needs is on the chain or was queued later.
THEOREM ResurrectionInOrder == Spec => []ResurrectionOrder
<1>1. SafeInv /\ QueuesInv => ResurrectionOrder
  BY IdleQueues DEF QueuesInv, OrderInv, ResurrectionOrder
<1> QED BY <1>1, QueuesInvariant, PTL
-----------------------------------------------------------------------------
(* The transaction index *)

\* No two blocks share a coinbase.  Its extra nonce is the clock in milliseconds,
\* so nothing but time and the miner's address keep rivals of one height apart.
DistinctCoinbases ==
    \A b, c \in Hash : b # c => TxsOf(b) \cap TxsOf(c) \cap Coinbase = {}

\* The index leads from a transaction of the recorded chain to its block there, and
\* what WriteBlock is about to index is on that chain nowhere.
LookupInv ==
    /\ txIndex = [t \in Tx |-> txIndex[t]]
    /\ chainBest # NoKey => \A a \in Ancestors(chainBest) : \A t \in TxsOf(a) : txIndex[t] = a
    /\ pc = "index" /\ op = "accept" => ToSet(todo) \cap BranchTxs(chainBest) = {}
    /\ pc = "index" /\ op = "genesis" =>
           /\ Head(branch) = Genesis
           /\ \A t \in TxsOf(Genesis) : t \in ToSet(todo) \/ txIndex[t] = Genesis
    /\ pc = "tip" => \A t \in TxsOf(Head(branch)) : txIndex[t] = Head(branch)

\* A branch has used up the leaves of its transactions.
LEMMA LeavesOfBranch ==
    ASSUME NEW b, NEW t \in BranchTxs(b)
    PROVE  Lvs[t] \subseteq LeavesAt(b)
  BY DEF LeavesAt

\* A block can repeat no transaction of a branch whose leaves its payments avoid.
LEMMA NothingTwice ==
    ASSUME DistinctCoinbases, NEW b \in Hash, NEW x \in Hash, b \notin Ancestors(x),
           \A t \in TxsOf(b) \ Coinbase : Lvs[t] # {} /\ Lvs[t] \cap LeavesAt(x) = {}
    PROVE  TxsOf(b) \cap BranchTxs(x) = {}
<1> SUFFICES ASSUME NEW t \in TxsOf(b), t \in BranchTxs(x) PROVE FALSE
  OBVIOUS
<1>1. CASE t \notin Coinbase
  BY <1>1, LeavesOfBranch
<1>2. CASE t \in Coinbase
  <2>1. PICK a \in Ancestors(x) : t \in TxsOf(a)
    BY DEF BranchTxs
  <2>2. a \in Hash /\ a # b
    BY <2>1, AncestorFacts
  <2> QED BY <1>2, <2>1, <2>2 DEF DistinctCoinbases
<1> QED BY <1>1, <1>2

LEMMA LookupInit == Init => LookupInv
  BY DEF Init, LookupInv

\* Steps that write no entry and move no recorded tip.
LEMMA LookupFrame ==
    ASSUME LookupInv, UNCHANGED <<txIndex, chainBest>>, pc' \notin {"index", "tip"}
    PROVE  LookupInv'
  BY DEF LookupInv

\* WriteBlock indexes one transaction more.
LEMMA IndexTxLookup ==
    ASSUME SafeInv, LookupInv, IndexTx
    PROVE  LookupInv'
<1>1. pc = "index" /\ op \in {"genesis", "accept"} /\ UNCHANGED <<pc, op, chainBest, branch>>
  BY DEF IndexTx, SafeInv, SafeStep, HeldInv, SafePhases, Phases, plan
<1>2. todo \in Seq(Tx) /\ todo # <<>>
  BY DEF IndexTx, SafeInv, ChainTypes
<1>3. PICK t \in Tx : t = Head(todo) /\ ToSet(todo) = ToSet(Tail(todo)) \cup {t}
  <2>1. Head(todo) \in Tx
    BY <1>2
  <2>2. ToSet(todo) = ToSet(Tail(todo)) \cup {Head(todo)}
    BY <1>2, SeqSets
  <2> QED BY <2>1, <2>2
<1>4. txIndex' = [txIndex EXCEPT ![t] = Head(branch)] /\ todo' = Tail(todo)
  BY <1>3 DEF IndexTx
<1>5. txIndex = [u \in Tx |-> txIndex[u]]
  BY DEF LookupInv
<1>6. /\ txIndex' = [u \in Tx |-> txIndex'[u]]
      /\ txIndex'[t] = Head(branch)
      /\ \A u \in Tx : u # t => txIndex'[u] = txIndex[u]
  BY <1>4, <1>5
<1>7. CASE op = "genesis"
  <2>1. chainBest = NoKey /\ Head(branch) = Genesis
    BY <1>1, <1>7 DEF SafeInv, SafeStep, GenesisInv, Empty, LookupInv
  <2>2. ASSUME NEW u \in TxsOf(Genesis) PROVE u \in ToSet(todo') \/ txIndex'[u] = Genesis
    <3>1. u \in Tx
      BY TreeFacts, TxFacts
    <3>2. u \in ToSet(todo) \/ txIndex[u] = Genesis
      BY <1>1, <1>7 DEF LookupInv
    <3> QED BY <1>3, <1>4, <1>6, <2>1, <3>1, <3>2
  <2> QED BY <1>1, <1>6, <1>7, <2>1, <2>2 DEF LookupInv
<1>8. CASE op = "accept"
  <2>1. ToSet(todo) \cap BranchTxs(chainBest) = {} /\ chainBest \in Hash
    BY <1>1, <1>8 DEF LookupInv, SafeInv, ChainTypes, SafeStep, HeldInv, Resting, Sound
  <2>2. ASSUME chainBest # NoKey, NEW a \in Ancestors(chainBest), NEW u \in TxsOf(a)
        PROVE  txIndex'[u] = a
    <3>1. u \in BranchTxs(chainBest)
      BY DEF BranchTxs
    <3>2. u \in Tx /\ u # t
      BY <1>3, <2>1, <3>1, AncestorFacts, TxFacts
    <3> QED BY <1>6, <2>2, <3>2 DEF LookupInv
  <2>3. ToSet(todo') \cap BranchTxs(chainBest) = {}
    BY <1>3, <1>4, <2>1
  <2> QED BY <1>1, <1>6, <1>8, <2>2, <2>3 DEF LookupInv
<1> QED BY <1>1, <1>7, <1>8

\* The genesis block is indexed before it is recorded.
LEMMA GenesisLookup ==
    ASSUME SafeInv, LookupInv, StoreGenesis \/ GenesisTip
    PROVE  LookupInv'
<1>1. CASE StoreGenesis
  <2>1. /\ UNCHANGED <<txIndex, chainBest>> /\ pc' = "index" /\ op' = "genesis"
        /\ branch' = <<Genesis>> /\ todo' = BlockTxs[Genesis]
    BY <1>1 DEF StoreGenesis, StoreBlock, Goto
  <2>2. Head(branch') = Genesis /\ ToSet(todo') = TxsOf(Genesis)
    BY <2>1 DEF TxsOf
  <2> QED BY <2>1, <2>2 DEF LookupInv
<1>2. CASE GenesisTip
  <2>1. /\ UNCHANGED txIndex /\ chainBest' = Genesis /\ pc' = "flush"
        /\ pc = "index" /\ op = "genesis" /\ todo = <<>>
    BY <1>2 DEF GenesisTip, Goto
  <2>2. ToSet(todo) = {}
    BY <2>1 DEF ToSet
  <2>3. \A t \in TxsOf(Genesis) : txIndex[t] = Genesis
    BY <2>1, <2>2 DEF LookupInv
  <2> QED BY <2>1, <2>3, AncestorsStep DEF LookupInv
<1> QED BY <1>1, <1>2

\* A block that is accepted repeats no transaction of the active chain.
LEMMA AcceptBlockLookup ==
    ASSUME DistinctCoinbases, NEW b \in Hash \ {Genesis}, SafeInv, LookupInv, AcceptBlock(b)
    PROVE  LookupInv'
<1>1. /\ UNCHANGED <<txIndex, chainBest>> /\ pc' = "index" /\ op' = "accept"
      /\ todo' = BlockTxs[b] /\ pc = "idle" /\ b \notin index
      /\ ValidateBlock(b, coins, leaves)
  BY DEF AcceptBlock, Acceptable, StoreBlock, Goto
<1>2. chainBest \in index /\ chainBest \in Hash /\ LeavesAt(chainBest) \subseteq leaves
  BY <1>1 DEF SafeInv, ChainTypes, SafeStep, HeldInv, Resting, Sound
<1>3. Ancestors(chainBest) \subseteq index
  BY <1>2, IndexClosed DEF SafeInv, ChainTypes
<1>4. \A t \in TxsOf(b) \ Coinbase : Lvs[t] # {} /\ Lvs[t] \cap LeavesAt(chainBest) = {}
  BY <1>1, <1>2 DEF ValidateBlock, CheckBlockTransactionsWithUTXO, LeavesUnused
<1>5. TxsOf(b) \cap BranchTxs(chainBest) = {}
  BY <1>1, <1>2, <1>3, <1>4, NothingTwice
<1>6. ToSet(todo') = TxsOf(b)
  BY <1>1 DEF TxsOf
<1> QED BY <1>1, <1>5, <1>6 DEF LookupInv

\* WriteBlockConnected indexes a block that repeats no transaction of its branch.
LEMMA RecordBlockLookup ==
    ASSUME DistinctCoinbases, SafeInv, SafeInv', ValidInv, LookupInv, RecordBlock
    PROVE  LookupInv'
<1>1. pc = "apply" /\ op = "connect" /\ pc' = "tip" /\ op' = "connect"
  BY DEF RecordBlock, Goto
<1>2. PICK h \in Hash \ {Genesis} :
          /\ h = Head(branch) /\ h \in index \ {Genesis} /\ Parent[h] = chainBest
          /\ PreL(h) = LeavesAt(chainBest)
  <2>1. Path(chainBest)
    BY <1>1 DEF SafeInv, SafeStep, BranchInv
  <2> QED BY <2>1, NextOnTip DEF SafeInv
<1>3. /\ UNCHANGED <<chainBest, branch>>
      /\ txIndex' = [t \in Tx |-> IF t \in TxsOf(h) THEN h ELSE txIndex[t]]
  BY <1>2 DEF RecordBlock, plan
<1>4. \A t \in TxsOf(h) : FreshTx(t, h)
  <2>1. undo'[h] # NoKey
    BY <1>1, <1>2, <1>3 DEF SafeInv, SafeStep, JoinInv
  <2> QED BY <2>1 DEF SafeInv, UndoInv
<1>5. \A t \in TxsOf(h) \ Coinbase : Lvs[t] # {} /\ Lvs[t] \cap LeavesAt(chainBest) = {}
  BY <1>2, <1>4 DEF ValidInv, Vetted, FreshTx
<1>6. chainBest \in Hash /\ h \notin Ancestors(chainBest)
  <2>1. chainBest \in Hash /\ Height[h] = Height[chainBest] + 1 /\ Height[chainBest] \in Nat
    BY <1>2, TreeFacts
  <2>2. \A a \in Ancestors(chainBest) : Height[a] <= Height[chainBest]
    BY <2>1, AncestorFacts
  <2> QED BY <2>1, <2>2
<1>7. TxsOf(h) \cap BranchTxs(chainBest) = {}
  BY <1>5, <1>6, NothingTwice
<1>8. ASSUME chainBest # NoKey, NEW a \in Ancestors(chainBest), NEW t \in TxsOf(a)
      PROVE  txIndex'[t] = a
  <2>1. t \in Tx /\ t \notin TxsOf(h)
    BY <1>6, <1>7, AncestorFacts, TxFacts DEF BranchTxs
  <2> QED BY <1>3, <1>8, <2>1 DEF LookupInv
<1>9. \A t \in TxsOf(h) : txIndex'[t] = h
  BY <1>3, TxFacts
<1>10. txIndex' = [t \in Tx |-> txIndex'[t]]
  BY <1>3
<1> QED BY <1>1, <1>2, <1>3, <1>8, <1>9, <1>10 DEF LookupInv

\* The recorded tip moves.
LEMMA TipLookup ==
    ASSUME SafeInv, LookupInv, TipBack \/ TipForward
    PROVE  LookupInv'
<1>1. CASE TipBack
  <2>1. mBestChain = chainBest /\ chainBest \in Hash \ {Genesis}
    BY <1>1 DEF TipBack, SafeInv, ChainTypes, SafeStep, LeaveInv
  <2>2. UNCHANGED txIndex /\ chainBest' = Parent[chainBest] /\ pc' = "flush"
    BY <1>1, <2>1 DEF TipBack, Goto
  <2>3. Ancestors(Parent[chainBest]) \subseteq Ancestors(chainBest) /\ chainBest # NoKey
    BY <2>1, AncestorsStep, AbsenceAssumption
  <2> QED BY <2>2, <2>3 DEF LookupInv
<1>2. CASE TipForward
  <2>1. pc = "tip" /\ Path(chainBest) /\ chainBest \in Hash /\ chainBest # NoKey
    BY <1>2, AbsenceAssumption
       DEF TipForward, SafeInv, ChainTypes, SafeStep, BranchInv, JoinInv
  <2>2. PICK h \in Hash \ {Genesis} : h = Head(branch) /\ Parent[h] = chainBest
    BY <2>1, NextOnTip DEF SafeInv
  <2>3. UNCHANGED txIndex /\ chainBest' = h /\ pc' = "flush"
    BY <1>2, <2>2 DEF TipForward, MoveTip, Goto
  <2>4. Ancestors(h) = Ancestors(chainBest) \cup {h}
    BY <2>2, AncestorsStep
  <2>5. \A t \in TxsOf(h) : txIndex[t] = h
    BY <2>1, <2>2 DEF LookupInv
  <2> QED BY <2>1, <2>3, <2>4, <2>5 DEF LookupInv
<1> QED BY <1>1, <1>2

LEMMA LookupNext ==
    ASSUME DistinctCoinbases, SafeInv, SafeInv', ValidInv, LookupInv, [Next]_vars
    PROVE  LookupInv'
<1>1. CASE Start \/ Check \/ Activate \/ Initialized
  BY <1>1, LookupFrame DEF Start, Check, Activate, Initialized, Ready, Return, Goto, chainDisk
<1>2. CASE ReplayBack \/ ReplayForward \/ ReapplyTx \/ ReapplyDone \/ ReplayDone \/ ReplayUndone
  BY <1>2, LookupFrame DEF ReplayBack, ReplayForward, ReapplyTx, ReapplyDone, ReplayDone,
     ReplayUndone, Goto, chainDisk
<1>3. CASE DisconnectTip \/ UndoTx \/ Disconnected \/ Connected \/ RolledBack
  BY <1>3, LookupFrame DEF DisconnectTip, UndoTx, Disconnected, Connected, RolledBack, Return,
     Goto, chainDisk
<1>4. CASE ConnectBlock \/ ApplyTx \/ ApplyFails \/ Unapply \/ Unapplied
  BY <1>4, LookupFrame DEF ConnectBlock, ApplyTx, ApplyFails, Unapply, Unapplied, Goto,
     chainDisk
<1>5. CASE FlushBegin \/ FlushEnd \/ Closed \/ FlushSome
  BY <1>5, LookupFrame DEF FlushBegin, FlushEnd, Closed, FlushSome, Goto, chainDisk
<1>6. CASE (\E o \in {"sync", "close"} : Flush(o)) \/ TakeMempoolSync \/ Crash
  BY <1>6, LookupFrame DEF Flush, TakeMempoolSync, Crash, Goto, chainDisk
<1>7. CASE UNCHANGED vars
  <2>1. UNCHANGED <<txIndex, chainBest, pc, op, todo, branch>>
    BY <1>7 DEF vars, chainDisk, txVars, plan
  <2> QED BY <2>1 DEF LookupInv
<1>8. CASE StoreGenesis \/ GenesisTip \/ IndexTx \/ RecordBlock \/ TipBack \/ TipForward
  BY <1>8, GenesisLookup, IndexTxLookup, RecordBlockLookup, TipLookup
<1>9. CASE \E b \in Hash \ {Genesis} : AcceptBlock(b)
  BY <1>9, AcceptBlockLookup
<1> QED BY <1>1, <1>2, <1>3, <1>4, <1>5, <1>6, <1>7, <1>8, <1>9 DEF Next, Step

\* If no two blocks share a coinbase, GetTransaction finds every transaction of the
\* active chain in its active block, although AcceptBlock indexes the transactions
\* of blocks that stay on other branches, and the height table is exact.
THEOREM BothIndexesExact ==
    ASSUME DistinctCoinbases
    PROVE  Spec => []IndexesExact
<1>1. Init => LookupInv
  BY LookupInit
<1>2. SafeInv /\ SafeInv' /\ ValidInv /\ LookupInv /\ [Next]_vars => LookupInv'
  BY LookupNext
<1>3. SafeInv /\ LookupInv /\ HeightsExact => IndexesExact
  <2> SUFFICES ASSUME SafeInv, LookupInv, HeightsExact, pc = "idle",
                      NEW b \in Ancestors(mBestChain), NEW t \in TxsOf(b)
               PROVE  txIndex[t] = b
    BY DEF IndexesExact
  <2>1. mBestChain = chainBest /\ chainBest # NoKey
    BY AbsenceAssumption DEF SafeInv, ChainTypes, SafeStep, HeldInv, Resting, Sound
  <2> QED BY <2>1 DEF LookupInv
<1>4. Spec => []LookupInv
  BY <1>1, <1>2, ValidInvariant, PTL DEF Spec
<1> QED BY <1>3, <1>4, SafeInvariant, HeightTableExact, PTL
-----------------------------------------------------------------------------
(* The store the chain state is built on *)

\* What CoinStore allows keeps its variables in their sets, whoever calls it.
LEMMA StoreStepTyped ==
    ASSUME StoreTypeOK, [StoreNext]_storeVars
    PROVE  StoreTypeOK'
<1>1. StoreTypeOK /\ coins \in View /\ dCoins \in View
  BY DEF StoreTypeOK, View
<1>2. CASE Open \/ Revert \/ Commit \/ Die
  BY <1>2 DEF StoreTypeOK, Open, Revert, Commit, Die, diskVars
<1>3. CASE \E t \in Tx, h \in Heights : Apply(t, h) \/ Reapply(t, h)
  <2>1. PICK t \in Tx, h \in Heights : Apply(t, h) \/ Reapply(t, h)
    BY <1>3
  <2>2. /\ coins' = AppliedTo(coins, t, h) /\ leaves' = leaves \cup Lvs[t]
        /\ UNCHANGED <<mode, best, diskVars>>
    BY <2>1 DEF Apply, Reapply
  <2>3. Lvs[t] \subseteq Leaf /\ NewCoin(h, t \in Coinbase) \in Coin
    BY LedgerAssumption DEF NewCoin, Coin
  <2>4. coins' \in [Outpoint -> Coin \cup {NoCoin}]
    BY <1>1, <2>2, <2>3 DEF AppliedTo, With, Without, View
  <2> QED BY <2>2, <2>3, <2>4 DEF StoreTypeOK, diskVars
<1>4. CASE \E t \in Tx : (\E s \in [Ins[t] -> Coin] : Undo(t, s)) \/ UndoRefused(t)
  <2>1. PICK t \in Tx : (\E s \in [Ins[t] -> Coin] : Undo(t, s)) \/ UndoRefused(t)
    BY <1>4
  <2>2. CASE UndoRefused(t)
    BY <1>1, <2>2 DEF UndoRefused, Without, StoreTypeOK
  <2>3. CASE \E s \in [Ins[t] -> Coin] : Undo(t, s)
    <3>1. PICK s \in [Ins[t] -> Coin] : Undo(t, s)
      BY <2>3
    <3>2. Restored(Without(coins, Outs[t]), s) \in [Outpoint -> Coin \cup {NoCoin}]
      BY <1>1 DEF Restored, Without, View
    <3>3. Without(dCoins, Outs[t]) \in [Outpoint -> Coin \cup {NoCoin}]
      BY <1>1 DEF Without, View
    <3> QED BY <3>1, <3>2, <3>3 DEF Undo, StoreTypeOK
  <2> QED BY <2>1, <2>2, <2>3
<1>5. CASE \E o \in Outpoint : SpendOne(o) \/ \E c \in Coin : AddOne(o, c)
  BY <1>5 DEF StoreTypeOK, SpendOne, AddOne, diskVars
<1>6. CASE \E l \in Leaf : MarkLeaf(l) \/ UnmarkLeaf(l)
  BY <1>6 DEF StoreTypeOK, MarkLeaf, UnmarkLeaf, diskVars
<1>7. CASE \E b \in Hash \cup {Zero} : SetBest(b)
  BY <1>7 DEF StoreTypeOK, SetBest, diskVars
<1>8. CASE \E m \in {"flushing", "closing"} : BeginFlush(m)
  <2>1. OldTip \in Hash \cup {Zero}
    BY <1>1 DEF StoreTypeOK, OldTip
  <2> QED BY <1>8, <2>1 DEF StoreTypeOK, BeginFlush
<1>9. CASE \E S \in SUBSET Outpoint : WriteSome(S)
  BY <1>9 DEF StoreTypeOK, WriteSome, Patch
<1>10. CASE UNCHANGED storeVars
  BY <1>10 DEF StoreTypeOK, storeVars
<1> QED BY <1>2, <1>3, <1>4, <1>5, <1>6, <1>7, <1>8, <1>9, <1>10 DEF StoreNext

\* The coins a failed block took, which UndoTransaction puts back, were coins.
TornInv ==
    pc = "unapply" => \A t \in ToSet(applied) : Funded(t, Head(branch))

LEMMA TornInit == Init => TornInv
  BY DEF Init, TornInv

LEMMA TornNext ==
    ASSUME SafeInv, ValidInv, TornInv, [Next]_vars
    PROVE  TornInv'
<1>1. CASE ApplyFails
  BY <1>1 DEF ApplyFails, Goto, plan, txVars, ValidInv, TornInv, Funded
<1>2. CASE Unapply
  <2>1. applied \in Seq(Tx) /\ applied # <<>> /\ pc = "unapply"
    BY <1>2 DEF Unapply, SafeInv, ChainTypes
  <2>2. ToSet(Front(applied)) \subseteq ToSet(applied)
    BY <2>1, SeqSets
  <2> QED BY <1>2, <2>1, <2>2 DEF Unapply, plan, TornInv, Funded
<1>3. CASE UNCHANGED vars
  BY <1>3 DEF vars, plan, txVars, TornInv, Funded
<1>4. CASE ~ (ApplyFails \/ Unapply \/ UNCHANGED vars)
  <2>1. pc' # "unapply"
    <3>1. CASE Start \/ StoreGenesis \/ IndexTx \/ GenesisTip \/ Check \/ Activate
      BY <3>1 DEF Start, StoreGenesis, IndexTx, GenesisTip, Check, Activate, Ready, Return, Goto
    <3>2. CASE ReplayBack \/ ReplayForward \/ ReapplyTx \/ ReapplyDone \/ ReplayDone
      BY <3>2 DEF ReplayBack, ReplayForward, ReapplyTx, ReapplyDone, ReplayDone, Goto
    <3>3. CASE DisconnectTip \/ UndoTx \/ ReplayUndone \/ TipBack \/ Disconnected
      BY <3>3 DEF DisconnectTip, UndoTx, ReplayUndone, TipBack, Disconnected, Return, Goto
    <3>4. CASE ConnectBlock \/ ApplyTx \/ Unapplied \/ RecordBlock \/ TipForward
      BY <3>4 DEF ConnectBlock, ApplyTx, Unapplied, RecordBlock, TipForward, Goto
    <3>5. CASE Connected \/ RolledBack \/ FlushBegin \/ FlushEnd \/ Initialized \/ Closed
      BY <3>5 DEF Connected, RolledBack, FlushBegin, FlushEnd, Initialized, Closed, Ready,
         Return, Goto
    <3>6. CASE \/ FlushSome \/ (\E b \in Hash \ {Genesis} : AcceptBlock(b))
               \/ (\E o \in {"sync", "close"} : Flush(o)) \/ TakeMempoolSync \/ Crash
      BY <3>6 DEF FlushSome, AcceptBlock, Flush, TakeMempoolSync, Crash, Goto
    <3> QED BY <1>4, <3>1, <3>2, <3>3, <3>4, <3>5, <3>6 DEF Next, Step
  <2> QED BY <2>1 DEF TornInv
<1> QED BY <1>1, <1>2, <1>3, <1>4

\* One transaction, applied or replayed at the height of its block.
LEMMA ApplyIsAStoreStep ==
    ASSUME SafeInv, ApplyTx \/ ReapplyTx
    PROVE  \E t \in Tx, h \in Heights : Apply(t, h) \/ Reapply(t, h)
<1>1. todo \in Seq(Tx) /\ todo # <<>>
  BY DEF ApplyTx, ReapplyTx, SafeInv, ChainTypes
<1>2. Head(todo) \in Tx
  BY <1>1
<1>3. \A b \in Hash : Height[b] \in Heights
  BY TreeAssumption
<1>4. CASE ReapplyTx
  <2>1. branch \in Seq(Hash) /\ branch # <<>>
    BY <1>4 DEF ReapplyTx, SafeInv, ChainTypes, SafeStep, RedoInv
  <2>2. Height[Head(branch)] \in Heights
    BY <1>3, <2>1
  <2> QED BY <1>2, <1>4, <2>2 DEF ReapplyTx
<1>5. CASE ApplyTx /\ op = "genesis"
  <2>1. ApplyHeight \in Heights
    BY <1>3, <1>5, TreeFacts DEF ApplyHeight
  <2> QED BY <1>2, <1>5, <2>1 DEF ApplyTx
<1>6. CASE ApplyTx /\ op # "genesis"
  <2>1. pc = "apply" /\ op = "connect"
    BY <1>6 DEF ApplyTx, SafeInv, SafeStep, HeldInv, SafePhases, Phases
  <2>2. Path(chainBest) /\ mBestChain = chainBest /\ chainBest \in Hash
    BY <2>1 DEF SafeInv, ChainTypes, SafeStep, BranchInv, JoinInv
  <2>3. PICK h \in Hash \ {Genesis} : h = Head(branch) /\ Parent[h] = chainBest
    BY <2>2, NextOnTip DEF SafeInv
  <2>4. ApplyHeight = Height[h]
    BY <2>1, <2>2, <2>3, TreeFacts DEF ApplyHeight
  <2> QED BY <1>2, <1>3, <1>6, <2>4 DEF ApplyTx
<1> QED BY <1>4, <1>5, <1>6

\* One transaction, undone with coins that were in the set.
LEMMA UndoIsAStoreStep ==
    ASSUME SafeInv, ValidInv, TornInv, UndoTx \/ Unapply
    PROVE  \E t \in Tx : \E s \in [Ins[t] -> Coin] : Undo(t, s)
<1>1. PICK t \in Tx, b \in Hash :
          /\ Undo(t, SpentBy(t)) /\ Funded(t, b)
          /\ \A o \in Ins[t] : spent[o] = Pre(b)[o]
  <2>1. CASE UndoTx
    <3>1. pc = "undo" /\ op \in {"undo", "replay"} /\ todo \in Seq(Tx) /\ todo # <<>>
      BY <2>1 DEF UndoTx, SafeInv, ChainTypes, SafeStep, HeldInv, SafePhases, Phases
    <3>2. PICK b \in Hash : undo[b] # NoKey /\ spent = undo[b] /\ ToSet(todo) \subseteq TxsOf(b)
      <4>1. CASE op = "undo"
        BY <3>1, <4>1 DEF SafeInv, SafeStep, ChainTypes, LeaveInv
      <4>2. CASE op = "replay"
        BY <3>1, <4>2 DEF SafeInv, SafeStep, RedoInv, Leading
      <4> QED BY <3>1, <4>1, <4>2
    <3>3. PICK t \in Tx : t = Last(todo) /\ t \in ToSet(todo)
      BY <3>1, SeqSets
    <3>4. Funded(t, b) /\ spent = Taken(b, TxsOf(b)) /\ t \in TxsOf(b)
      BY <3>2, <3>3 DEF ValidInv, SafeInv, UndoInv
    <3>5. \A o \in Ins[t] : spent[o] = Pre(b)[o]
      BY <3>4 DEF Taken
    <3> QED BY <2>1, <3>3, <3>4, <3>5 DEF UndoTx
  <2>2. CASE Unapply
    <3>1. pc = "unapply" /\ applied \in Seq(Tx) /\ applied # <<>>
      BY <2>2 DEF Unapply, SafeInv, ChainTypes
    <3>2. Path(chainBest) /\ chainBest \in Hash
      BY <3>1 DEF SafeInv, ChainTypes, SafeStep, BranchInv, JoinInv
    <3>3. PICK h \in Hash : h = Head(branch)
      BY <3>2, NextOnTip DEF SafeInv
    <3>4. PICK t \in Tx : t = Last(applied) /\ t \in ToSet(applied)
      BY <3>1, SeqSets
    <3>5. Funded(t, h) /\ \A o \in Ins[t] : spent[o] = Pre(h)[o]
      BY <3>1, <3>3, <3>4 DEF TornInv, SafeInv, SafeStep, JoinInv
    <3> QED BY <2>2, <3>4, <3>5 DEF Unapply
  <2> QED BY <2>1, <2>2
<1>2. Ins[t] \subseteq Outpoint
  BY LedgerAssumption
<1>3. Pre(b) \in View
  BY PreType
<1>4. \A o \in Ins[t] : spent[o] \in Coin
  BY <1>1, <1>2, <1>3 DEF Funded, View
<1>5. SpentBy(t) \in [Ins[t] -> Coin]
  BY <1>4 DEF SpentBy
<1> QED BY <1>1, <1>5

\* Every step of the chain state leaves the UTXO set alone or is one call of it.
LEMMA StepIsAStoreStep ==
    ASSUME SafeInv, ValidInv, TornInv, [Next]_vars
    PROVE  [StoreNext]_storeVars
<1>1. CASE Start
  BY <1>1 DEF Start, StoreNext
<1>2. CASE ApplyTx \/ ReapplyTx
  BY <1>2, ApplyIsAStoreStep DEF StoreNext
<1>3. CASE UndoTx \/ Unapply
  BY <1>3, UndoIsAStoreStep DEF StoreNext
<1>4. CASE GenesisTip \/ ReplayDone \/ TipForward \/ TipBack
  <2>1. PICK b \in Hash \cup {Zero} : SetBest(b)
    <3>1. CASE GenesisTip
      BY <3>1, TreeFacts DEF GenesisTip
    <3>2. CASE ReplayDone
      BY <3>2 DEF ReplayDone, SafeInv, ChainTypes
    <3>3. CASE TipForward
      <4>1. pc = "tip" /\ Path(chainBest) /\ chainBest \in Hash
        BY <3>3 DEF TipForward, SafeInv, ChainTypes, SafeStep, BranchInv, JoinInv
      <4>2. Head(branch) \in Hash
        BY <4>1, NextOnTip DEF SafeInv
      <4> QED BY <3>3, <4>2 DEF TipForward, MoveTip
    <3>4. CASE TipBack
      <4>1. mBestChain \in Hash \ {Genesis}
        BY <3>4 DEF TipBack, SafeInv, ChainTypes, SafeStep, LeaveInv
      <4>2. Parent[mBestChain] \in Hash
        BY <4>1, TreeFacts
      <4> QED BY <3>4, <4>2 DEF TipBack
    <3> QED BY <1>4, <3>1, <3>2, <3>3, <3>4
  <2> QED BY <2>1 DEF StoreNext
<1>5. CASE FlushBegin
  <2>1. PICK m \in {"flushing", "closing"} : BeginFlush(m)
    BY <1>5 DEF FlushBegin
  <2> QED BY <2>1 DEF StoreNext
<1>6. CASE FlushSome
  <2>1. PICK S \in SUBSET Outpoint : WriteSome(S)
    BY <1>6 DEF FlushSome, Unwritten
  <2> QED BY <2>1 DEF StoreNext
<1>7. CASE FlushEnd \/ Closed \/ Crash
  BY <1>7 DEF FlushEnd, Closed, Crash, StoreNext
<1>8. CASE StoreGenesis \/ IndexTx \/ Check \/ Activate \/ ReplayBack \/ ReplayForward
  BY <1>8 DEF StoreGenesis, IndexTx, Check, Activate, ReplayBack, ReplayForward
<1>9. CASE ReapplyDone \/ DisconnectTip \/ ReplayUndone \/ Disconnected \/ ConnectBlock
  BY <1>9 DEF ReapplyDone, DisconnectTip, ReplayUndone, Disconnected, ConnectBlock
<1>10. CASE ApplyFails \/ Unapplied \/ RecordBlock \/ Connected \/ RolledBack \/ Initialized
  BY <1>10 DEF ApplyFails, Unapplied, RecordBlock, Connected, RolledBack, Initialized
<1>11. CASE \/ (\E b \in Hash \ {Genesis} : AcceptBlock(b))
            \/ (\E o \in {"sync", "close"} : Flush(o)) \/ TakeMempoolSync \/ UNCHANGED vars
  BY <1>11 DEF AcceptBlock, Flush, TakeMempoolSync, vars
<1> QED BY <1>1, <1>2, <1>3, <1>4, <1>5, <1>6, <1>7, <1>8, <1>9, <1>10, <1>11 DEF Next, Step

\* ChainState asks of the UTXO set only what CoinStore describes: it applies and
\* replays at the heights of blocks, hands UndoTransaction only coins that the block
\* took, and calls SetBestBlock with a block or none.  UTXOSet_proofs shows that
\* the cached set implements the same CoinStore; the two meet there.
THEOREM UsesTheStore == Spec => StoreSpec
<1>1. Init => StoreInit
  BY DEF Init
<1>2. SafeInv /\ ValidInv /\ TornInv /\ [Next]_vars => TornInv' /\ [StoreNext]_storeVars
  BY TornNext, StepIsAStoreStep
<1>3. Spec => []TornInv
  BY <1>2, TornInit, ValidInvariant, PTL DEF Spec
<1> QED BY <1>1, <1>2, <1>3, ValidInvariant, PTL DEF Spec, StoreSpec

\* The coins, the leaves and the records on disk stay in their sets under every
\* caller of the store, and so under the chain state.
THEOREM StoreTypes == Spec => []StoreTypeOK
<1>1. StoreInit => StoreTypeOK
  BY DEF StoreInit, StoreTypeOK
<1>2. StoreTypeOK /\ [StoreNext]_storeVars => StoreTypeOK'
  BY StoreStepTyped
<1>3. StoreSpec => []StoreTypeOK
  BY <1>1, <1>2, PTL DEF StoreSpec
<1> QED BY <1>3, UsesTheStore, PTL
=============================================================================
