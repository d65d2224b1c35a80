------------------------ MODULE BlockDownload_proofs ------------------------
(***************************************************************************)
(* What holds of the block download for any peers, chain and limits.       *)
(***************************************************************************)
EXTENDS BlockDownload, FiniteSetTheorems, WellFoundedInduction, TLAPS

\* What the io thread is working on: a peer that goes is taken out at once.
InvInv ==
    inv \in [peer : up \cup {None, Gone}, todo : Seq(1..net), batch : SUBSET (1..net)]

\* Nothing is asked for, sent or parked that the peers do not have.
KnownInv ==
    /\ \A p \in Peer : wanted[p] \subseteq 1..net /\ pushed[p] \subseteq 1..net
    /\ \A i \in DOMAIN parked : parked[i] \in 1..net

\* A block stays parked only while its parent is missing: the frontier loop
\* takes every block the chain has reached.
NoneStranded == \A i \in DOMAIN parked : parked[i] > height + 1

DownloadInv == DownloadTypeOK /\ InvInv /\ KnownInv /\ NoneStranded /\ RequestIsReal

-----------------------------------------------------------------------------
(* Numbers and sets *)

LEMMA Bounds ==
    /\ MaxHeight \in Nat /\ Start \in Nat /\ Start <= MaxHeight
    /\ MaxPerPeer \in Nat /\ Window \in Nat /\ MaxOrphans \in Nat \ {0} /\ ExpireChecks \in Nat
    /\ None \notin Peer /\ Gone \notin Peer /\ None # Gone
  BY DownloadAssumption

\* A set of natural numbers that is not empty has a least member.
LEMMA Least ==
    ASSUME NEW T, T \subseteq Nat, T # {}
    PROVE  \E m \in T : \A y \in T : m <= y
<1> DEFINE R == OpToRel(<, Nat)
<1>1. PICK m \in T : \A y \in T : ~ (<<y, m>> \in R)
  BY WFMin, NatLessThanWellFounded
<1>2. \A y \in T : ~ (y < m)
  BY <1>1 DEF OpToRel
<1> QED BY <1>2

LEMMA BlocksFinite ==
    ASSUME NEW S, S \subseteq Block
    PROVE  IsFiniteSet(S) /\ Cardinality(S) \in Nat
<1>1. IsFiniteSet(Block)
  BY Bounds, FS_Interval DEF Block
<1> QED BY <1>1, FS_Subset, FS_CardinalityType

LEMMA SeqOfMore ==
    ASSUME NEW S, NEW T, S \subseteq T, NEW s \in Seq(S)
    PROVE  s \in Seq(T)
  OBVIOUS

LEMMA HeadAndTail ==
    ASSUME NEW S, NEW s \in Seq(S), s # <<>>
    PROVE  Head(s) \in S /\ Tail(s) \in Seq(S)
  OBVIOUS

\* Each position but the last is followed by one: K has a j-th member for every j
\* up to its size.
LEMMA NthExists ==
    ASSUME NEW n \in Nat, NEW K, K \subseteq 1..n, NEW j \in Nat \ {0}, j <= Cardinality(K)
    PROVE  Nth(K, j) \in K
<1> DEFINE Upto(i) == {k \in K : k <= i}
           T == {i \in Nat : Cardinality(Upto(i)) >= j}
<1>0. \A k \in K : k \in Nat /\ 1 <= k /\ k <= n
  OBVIOUS
<1>1. \A i \in Nat : IsFiniteSet(Upto(i)) /\ Cardinality(Upto(i)) \in Nat
  <2>1. IsFiniteSet(1..n)
    BY FS_Interval
  <2> QED BY <2>1, FS_Subset, FS_CardinalityType
<1>2. Upto(n) = K /\ Upto(0) = {}
  <2>1. \A k \in K : k <= n /\ ~ (k <= 0)
    BY <1>0
  <2> QED BY <2>1
<1>3. \A i \in Nat \ {0} : /\ i \in K => Upto(i) = Upto(i - 1) \cup {i}
                           /\ i \notin K => Upto(i) = Upto(i - 1)
                           /\ i \notin Upto(i - 1)
  <2> SUFFICES ASSUME NEW i \in Nat \ {0}
               PROVE  /\ i \in K => Upto(i) = Upto(i - 1) \cup {i}
                      /\ i \notin K => Upto(i) = Upto(i - 1)
                      /\ i \notin Upto(i - 1)
    OBVIOUS
  <2>1. \A k \in Nat : k <= i <=> k <= i - 1 \/ k = i
    OBVIOUS
  <2>2. ~ (i <= i - 1)
    OBVIOUS
  <2> QED BY <1>0, <2>1, <2>2
<1> HIDE DEF Upto
<1>4. n \in T
  BY <1>2
<1>5. PICK i \in T : \A y \in T : i <= y
  <2>1. T \subseteq Nat /\ T # {}
    BY <1>4
  <2> HIDE DEF T
  <2> QED BY <2>1, Least
<1>6. i \in Nat /\ Cardinality(Upto(i)) >= j
  BY <1>5
<1>7. i # 0
  <2>1. Cardinality(Upto(0)) = 0
    BY <1>2, FS_EmptySet
  <2> QED BY <1>6, <2>1
<1>8. i - 1 \in Nat /\ i - 1 \notin T
  <2>1. i - 1 \in Nat /\ ~ (i <= i - 1)
    BY <1>6, <1>7
  <2> QED BY <1>5, <2>1
<1>9. Cardinality(Upto(i - 1)) < j /\ Cardinality(Upto(i - 1)) \in Nat
  BY <1>1, <1>8
<1>10. i \in K
  <2>1. SUFFICES ASSUME i \notin K PROVE FALSE
    OBVIOUS
  <2>2. Upto(i) = Upto(i - 1)
    BY <1>3, <1>6, <1>7, <2>1
  <2> QED BY <1>6, <1>9, <2>2
<1>11. Cardinality(Upto(i)) = Cardinality(Upto(i - 1)) + 1
  <2>1. Upto(i) = Upto(i - 1) \cup {i} /\ i \notin Upto(i - 1)
    BY <1>3, <1>6, <1>7, <1>10
  <2>2. IsFiniteSet(Upto(i - 1))
    BY <1>1, <1>8
  <2> QED BY <2>1, <2>2, FS_AddElement
<1>12. Cardinality(Upto(i)) = j
  BY <1>6, <1>9, <1>11
<1>13. \E k \in K : Cardinality({l \in K : l <= k}) = j
  BY <1>10, <1>12 DEF Upto
<1> QED BY <1>13 DEF Nth

\* The frontier loop ends, at a block the peers have or at the one that came in.
LEMMA FrontierEnds ==
    ASSUME parked \in Seq(Block), NEW b \in Block
    PROVE  /\ Frontier(b) \in b..MaxHeight
           /\ Frontier(b) = b \/ Frontier(b) \in ToSet(parked)
           /\ Frontier(b) + 1 \notin ToSet(parked)
<1> DEFINE T == {t \in Nat : t >= b /\ t + 1 \notin ToSet(parked)}
<1>1. ToSet(parked) \subseteq Block
  BY DEF ToSet
<1>2. b \in Nat /\ MaxHeight \in Nat /\ b <= MaxHeight
  BY Bounds DEF Block
<1>3. MaxHeight \in T
  BY <1>1, <1>2 DEF Block
<1>4. PICK t \in T : \A y \in T : t <= y
  <2>1. T \subseteq Nat /\ T # {}
    BY <1>3
  <2> HIDE DEF T
  <2> QED BY <2>1, Least
<1>5. t \in b..MaxHeight /\ t + 1 \notin ToSet(parked)
  BY <1>2, <1>3, <1>4
<1>6. \A c \in (b + 1)..t : c \in ToSet(parked)
  <2> SUFFICES ASSUME NEW c \in (b + 1)..t PROVE c \in ToSet(parked)
    OBVIOUS
  <2>1. c - 1 \in Nat /\ c - 1 >= b /\ c - 1 < t /\ (c - 1) + 1 = c
    BY <1>2, <1>5
  <2>2. c - 1 \notin T
    BY <1>2, <1>4, <1>5, <2>1
  <2> QED BY <2>1, <2>2
<1>7. /\ Frontier(b) \in b..MaxHeight
      /\ \A c \in (b + 1)..Frontier(b) : c \in ToSet(parked)
      /\ Frontier(b) + 1 \notin ToSet(parked)
  <2> HIDE DEF T
  <2>1. \E s \in b..MaxHeight : /\ \A c \in (b + 1)..s : c \in ToSet(parked)
                                /\ s + 1 \notin ToSet(parked)
    BY <1>5, <1>6
  <2> QED BY <2>1 DEF Frontier
<1>8. Frontier(b) # b => Frontier(b) \in (b + 1)..Frontier(b)
  BY <1>2, <1>7
<1> QED BY <1>7, <1>8

\* What TakeOrphansOf leaves was parked before, and is not on the frontier.
LEMMA OrphansLeft ==
    ASSUME parked \in Seq(Block), NEW b \in Block
    PROVE  /\ TakeOrphansOf(b) \in Seq(Block)
           /\ Len(TakeOrphansOf(b)) <= Len(parked)
           /\ \A j \in DOMAIN TakeOrphansOf(b) :
                 \E i \in DOMAIN parked : /\ TakeOrphansOf(b)[j] = parked[i]
                                          /\ parked[i] \notin (b + 1)..Frontier(b)
<1>1. PICK n \in Nat : n = Len(parked) /\ DOMAIN parked = 1..n
  OBVIOUS
<1>2. PICK K : K = {i \in DOMAIN parked : parked[i] \notin (b + 1)..Frontier(b)}
  OBVIOUS
<1>3. K \subseteq 1..n
  BY <1>1, <1>2
<1>4. PICK m \in Nat : m = Cardinality(K) /\ m <= n
  <2>1. IsFiniteSet(1..n) /\ Cardinality(1..n) = n
    BY FS_Interval
  <2>2. Cardinality(K) <= n /\ IsFiniteSet(K)
    BY <1>3, <2>1, FS_Subset
  <2> QED BY <2>2, FS_CardinalityType
<1>5. \A j \in 1..m : Nth(K, j) \in K
  <2> SUFFICES ASSUME NEW j \in 1..m PROVE Nth(K, j) \in K
    OBVIOUS
  <2>1. j \in Nat \ {0} /\ j <= Cardinality(K)
    BY <1>4
  <2> QED BY <1>3, <2>1, NthExists
<1>6. TakeOrphansOf(b) = [j \in 1..m |-> parked[Nth(K, j)]]
  BY <1>2, <1>4 DEF TakeOrphansOf
<1>7. \A j \in 1..m : parked[Nth(K, j)] \in Block
  <2>1. \A i \in 1..n : parked[i] \in Block
    BY <1>1
  <2> QED BY <1>3, <1>5, <2>1
<1>8. TakeOrphansOf(b) \in Seq(Block) /\ Len(TakeOrphansOf(b)) = m
  BY <1>4, <1>6, <1>7
<1>9. ASSUME NEW j \in 1..m
      PROVE  \E i \in DOMAIN parked : /\ TakeOrphansOf(b)[j] = parked[i]
                                      /\ parked[i] \notin (b + 1)..Frontier(b)
  <2>1. Nth(K, j) \in DOMAIN parked /\ parked[Nth(K, j)] \notin (b + 1)..Frontier(b)
    BY <1>2, <1>5
  <2>2. TakeOrphansOf(b)[j] = parked[Nth(K, j)]
    BY <1>6
  <2> QED BY <2>1, <2>2
<1>10. DOMAIN TakeOrphansOf(b) = 1..m
  BY <1>6
<1> QED BY <1>1, <1>4, <1>8, <1>9, <1>10

-----------------------------------------------------------------------------
(* The limits on requests *)

Flights == [Block -> [peer : Peer \cup {None, Gone}, age : 0..(ExpireChecks + 1)]]

Owed(p) == {b \in InFlight : mBlocksInFlight[b].peer = p}

Limits ==
    /\ Cardinality(InFlight) <= Window
    /\ \A p \in Peer : Cardinality(Owed(p)) <= MaxPerPeer

Types ==
    /\ height \in 0..net /\ net \in 0..MaxHeight
    /\ parked \in Seq(Block) /\ Len(parked) <= MaxOrphans
    /\ up \subseteq Peer /\ best \in [Peer -> 0..MaxHeight]
    /\ asked \subseteq up
    /\ wanted \in [Peer -> SUBSET Block] /\ pushed \in [Peer -> SUBSET Block]
    /\ mBlocksInFlight \in Flights

LEMMA TypeParts == DownloadTypeOK <=> Types /\ Limits
  BY DEF DownloadTypeOK, Types, Limits, Flights, Owed

\* Requests that are answered, taken back or only grow older break no limit.
LEMMA FewerRequests ==
    ASSUME Limits, \A b \in Block : mBlocksInFlight'[b].peer \in {mBlocksInFlight[b].peer, None}
    PROVE  Limits'
<1>1. InFlight \subseteq Block /\ InFlight' \subseteq InFlight
  BY DEF InFlight
<1>2. Cardinality(InFlight') <= Cardinality(InFlight)
  BY <1>1, BlocksFinite, FS_Subset
<1>3. Cardinality(InFlight') \in Nat /\ Cardinality(InFlight) \in Nat
  BY <1>1, BlocksFinite
<1>4. Cardinality(InFlight') <= Window
  BY <1>2, <1>3, Bounds DEF Limits
<1>5. ASSUME NEW p \in Peer PROVE Cardinality(Owed(p)') <= MaxPerPeer
  <2>1. Owed(p)' \subseteq Owed(p) /\ Owed(p) \subseteq Block
    BY <1>1, Bounds DEF Owed, InFlight
  <2>2. /\ Cardinality(Owed(p)') <= Cardinality(Owed(p))
        /\ Cardinality(Owed(p)') \in Nat /\ Cardinality(Owed(p)) \in Nat
    BY <2>1, BlocksFinite, FS_Subset
  <2> QED BY <2>2, Bounds DEF Limits
<1> QED BY <1>4, <1>5 DEF Limits

\* A request that ShouldRequestBlock allows fills the window and the peer's share
\* at most.
LEMMA OneMoreRequest ==
    ASSUME mBlocksInFlight \in Flights, Limits, NEW b \in Block, NEW q \in Peer \cup {Gone},
           ShouldRequestBlock(b, q),
           mBlocksInFlight' = [Unexpired EXCEPT ![b] = [peer |-> q, age |-> 0]]
    PROVE  Limits'
<1> DEFINE live == InFlight \ Expired
<1>1. live \subseteq Block /\ b \notin live /\ q # None
  BY Bounds DEF ShouldRequestBlock, InFlight
<1>2. \A c \in Block : mBlocksInFlight'[c].peer =
                          IF c = b THEN q ELSE IF c \in Expired THEN None ELSE mBlocksInFlight[c].peer
  BY DEF Unexpired, NoRequest
<1>3. InFlight' = live \cup {b}
  <2>1. \A c \in Block : c \in InFlight' <=> c = b \/ (c \notin Expired /\ c \in InFlight)
    BY <1>1, <1>2 DEF InFlight
  <2>2. InFlight' \subseteq Block
    BY DEF InFlight
  <2> QED BY <1>1, <2>1, <2>2
<1>4. Cardinality(InFlight') = Cardinality(live) + 1 /\ Cardinality(live) \in Nat
  BY <1>1, <1>3, BlocksFinite, FS_AddElement
<1>5. Cardinality(InFlight') <= Window
  BY <1>4, Bounds DEF ShouldRequestBlock
<1>6. ASSUME NEW p \in Peer PROVE Cardinality(Owed(p)') <= MaxPerPeer
  <2>1. PICK S : S = {c \in live : mBlocksInFlight[c].peer = p}
    OBVIOUS
  <2>2. S \subseteq Owed(p) /\ Owed(p) \subseteq Block /\ b \notin S /\ S \subseteq Block
    BY <1>1, <2>1 DEF Owed, InFlight
  <2>3. Owed(p)' = IF p = q THEN S \cup {b} ELSE S
    BY <1>1, <1>2, <1>3, <2>1 DEF Owed
  <2>4. CASE p = q
    <3>1. Cardinality(S) < MaxPerPeer
      BY <2>1, <2>4 DEF ShouldRequestBlock
    <3>2. Cardinality(S \cup {b}) = Cardinality(S) + 1 /\ Cardinality(S) \in Nat
      BY <2>2, BlocksFinite, FS_AddElement
    <3> QED BY <2>3, <2>4, <3>1, <3>2, Bounds
  <2>5. CASE p # q
    <3>1. /\ Cardinality(S) <= Cardinality(Owed(p))
          /\ Cardinality(S) \in Nat /\ Cardinality(Owed(p)) \in Nat
      BY <2>2, BlocksFinite, FS_Subset
    <3>2. Cardinality(Owed(p)) <= MaxPerPeer
      BY DEF Limits
    <3>3. Cardinality(S) <= MaxPerPeer
      BY <3>1, <3>2, Bounds
    <3> QED BY <2>3, <2>5, <3>3
  <2> QED BY <2>4, <2>5
<1> QED BY <1>5, <1>6 DEF Limits

-----------------------------------------------------------------------------
(* The steps *)

PartsInv == Types /\ Limits /\ InvInv /\ KnownInv /\ NoneStranded /\ RequestIsReal

LEMMA DownloadParts == DownloadInv <=> PartsInv
  BY TypeParts DEF DownloadInv, PartsInv

LEMMA DownloadInit == Init => DownloadInv
<1> SUFFICES ASSUME Init PROVE PartsInv
  BY DownloadParts
<1>1. InFlight = {}
  BY DEF Init, InFlight, NoRequest
<1>2. Types
  <2>1. mBlocksInFlight \in Flights
    BY Bounds DEF Init, Flights, NoRequest
  <2> QED BY <2>1, Bounds DEF Init, Types
<1>3. Limits
  <2>1. \A p \in Peer : Owed(p) = {}
    BY <1>1 DEF Owed
  <2> QED BY <1>1, <2>1, FS_EmptySet, Bounds DEF Limits
<1>4. InvInv /\ KnownInv /\ NoneStranded
  BY DEF Init, InvInv, NoInv, KnownInv, NoneStranded
<1>5. RequestIsReal
  BY <1>1 DEF RequestIsReal
<1> QED BY <1>2, <1>3, <1>4, <1>5 DEF PartsInv

\* The download thread or the io thread drops the peers in D: their requests, the
\* places of those requests on the wire and the inventory go together.
LEMMA DropStep ==
    ASSUME PartsInv, NEW D, None \notin D, NEW F \in Flights,
           \A b \in Block : F[b].peer = mBlocksInFlight[b].peer,
           DisconnectNodes(D), mBlocksInFlight' = ClearInFlightForPeers(D \ {Gone}, F),
           asked' \subseteq up', UNCHANGED <<height, parked, net, best>>
    PROVE  PartsInv'
<1>1. /\ up' = up \ D
      /\ wanted' = [p \in Peer |-> IF p \in D THEN {} ELSE wanted[p]]
      /\ pushed' = [p \in Peer |-> IF p \in D THEN {} ELSE pushed[p]]
      /\ inv' = IF inv.peer \in D THEN [inv EXCEPT !.peer = Gone] ELSE inv
  BY DEF DisconnectNodes
<1>2. \A b \in Block : mBlocksInFlight'[b] = IF F[b].peer \in D \ {Gone} THEN NoRequest ELSE F[b]
  BY DEF ClearInFlightForPeers
<1>3. mBlocksInFlight' \in Flights
  <2>1. NoRequest \in [peer : Peer \cup {None, Gone}, age : 0..(ExpireChecks + 1)]
    BY Bounds DEF NoRequest
  <2> QED BY <2>1 DEF ClearInFlightForPeers, Flights
<1>4. Types'
  BY <1>1, <1>3 DEF PartsInv, Types
<1>5. \A b \in Block : mBlocksInFlight'[b].peer \in {mBlocksInFlight[b].peer, None}
  BY <1>2 DEF NoRequest
<1>6. Limits'
  BY <1>5, FewerRequests DEF PartsInv
<1>7. /\ inv'.peer \in up' \cup {None, Gone} /\ inv'.todo = inv.todo /\ inv'.batch = inv.batch
      /\ inv'.peer = IF inv.peer \in D THEN Gone ELSE inv.peer
      /\ InvInv'
  BY <1>1 DEF PartsInv, InvInv
<1>8. KnownInv' /\ NoneStranded'
  BY <1>1 DEF PartsInv, KnownInv, NoneStranded
<1>9. RequestIsReal'
  <2> SUFFICES ASSUME NEW b \in InFlight', mBlocksInFlight'[b].peer \in Peer
               PROVE  LET p == mBlocksInFlight'[b].peer
                      IN p \in up' /\ b \in wanted'[p] \cup (IF inv'.peer = p THEN inv'.batch ELSE {})
    BY DEF RequestIsReal
  <2>1. PICK p \in Peer : p = mBlocksInFlight'[b].peer
    OBVIOUS
  <2>2. b \in Block /\ p # None /\ p # Gone
    BY Bounds DEF InFlight
  <2>3. mBlocksInFlight[b].peer = p /\ p \notin D
    <3>1. CASE F[b].peer \in D \ {Gone}
      BY ONLY <1>2, <2>1, <2>2, <3>1 DEF NoRequest
    <3>2. CASE F[b].peer \notin D \ {Gone}
      <4>1. mBlocksInFlight'[b] = F[b]
        BY <1>2, <2>2, <3>2
      <4>2. F[b].peer = p /\ mBlocksInFlight[b].peer = p
        BY <2>1, <2>2, <4>1
      <4> QED BY <2>2, <3>2, <4>2
    <3> QED BY <3>1, <3>2
  <2>4. b \in InFlight
    BY <2>2, <2>3 DEF InFlight
  <2>5. p \in up /\ b \in wanted[p] \cup (IF inv.peer = p THEN inv.batch ELSE {})
    BY <2>3, <2>4 DEF PartsInv, RequestIsReal
  <2> QED BY <1>1, <1>7, <2>1, <2>3, <2>5
<1> QED BY <1>4, <1>6, <1>7, <1>8, <1>9 DEF PartsInv

LEMMA ConnectStep ==
    ASSUME PartsInv, NEW p \in Peer, Connect(p)
    PROVE  PartsInv'
<1>1. /\ UNCHANGED <<height, parked, net, wanted, pushed, mBlocksInFlight, inv>>
      /\ up' = up \cup {p} /\ asked' \subseteq asked \cup {p}
  BY DEF Connect, chainVars, flightVars
<1>2. best' \in [Peer -> 0..MaxHeight]
  <2>1. PICK h \in IF p \in Honest THEN {net} ELSE {0, MaxHeight} : best' = [best EXCEPT ![p] = h]
    BY DEF Connect
  <2>2. h \in 0..MaxHeight
    BY <2>1, Bounds DEF PartsInv, Types
  <2> QED BY <2>1, <2>2 DEF PartsInv, Types
<1>3. Types'
  BY <1>1, <1>2 DEF PartsInv, Types
<1>4. Limits'
  BY <1>1, FewerRequests DEF PartsInv
<1>5. InvInv' /\ KnownInv' /\ NoneStranded'
  BY <1>1 DEF PartsInv, InvInv, KnownInv, NoneStranded
<1>6. RequestIsReal'
  BY <1>1 DEF PartsInv, RequestIsReal, InFlight
<1> QED BY <1>3, <1>4, <1>5, <1>6 DEF PartsInv

LEMMA BreakStep ==
    ASSUME PartsInv, NEW p \in Peer, Break(p)
    PROVE  PartsInv'
<1>1. /\ DisconnectNodes({p}) /\ mBlocksInFlight' = ClearInFlightForPeers({p}, mBlocksInFlight)
      /\ asked' = asked \ {p} /\ up' = up \ {p} /\ UNCHANGED <<height, parked, net, best>>
  BY DEF Break, DisconnectNodes, chainVars
<1>2. None \notin {p} /\ {p} \ {Gone} = {p}
  BY Bounds
<1>3. asked' \subseteq up' /\ mBlocksInFlight \in Flights
  BY <1>1 DEF PartsInv, Types
<1>4. mBlocksInFlight' = ClearInFlightForPeers({p} \ {Gone}, mBlocksInFlight)
  BY <1>1, <1>2
<1> QED BY <1>1, <1>2, <1>3, <1>4, DropStep

LEMMA GrowStep ==
    ASSUME PartsInv, Grow
    PROVE  PartsInv'
<1>1. /\ UNCHANGED <<height, parked, up, best, asked, wanted, mBlocksInFlight, inv>>
      /\ net < MaxHeight /\ net' = net + 1
      /\ pushed' = [p \in Peer |-> IF p \in up THEN pushed[p] \cup {net + 1} ELSE pushed[p]]
  BY DEF Grow, flightVars
<1>2. /\ net' \in 0..MaxHeight /\ height \in 0..net' /\ 1..net \subseteq 1..net'
      /\ net + 1 \in Block /\ net + 1 \in 1..net'
  BY <1>1, Bounds DEF PartsInv, Types, Block
<1>3. Types'
  BY <1>1, <1>2 DEF PartsInv, Types
<1>4. Limits'
  BY <1>1, FewerRequests DEF PartsInv
<1>5. InvInv'
  <2>1. inv.todo \in Seq(1..net')
    BY <1>2, SeqOfMore DEF PartsInv, InvInv
  <2> QED BY <1>1, <1>2, <2>1 DEF PartsInv, InvInv
<1>6. KnownInv' /\ NoneStranded'
  BY <1>1, <1>2 DEF PartsInv, KnownInv, NoneStranded
<1>7. RequestIsReal'
  BY <1>1 DEF PartsInv, RequestIsReal, InFlight
<1> QED BY <1>3, <1>4, <1>5, <1>6, <1>7 DEF PartsInv

LEMMA HandleInvStep ==
    ASSUME PartsInv, NEW p \in up, HandleInv(p)
    PROVE  PartsInv'
<1>1. /\ UNCHANGED <<height, parked, net, up, best, wanted, pushed, mBlocksInFlight>>
      /\ inv.peer = None /\ asked' = asked \ {p}
      /\ inv' = IF height = net THEN NoInv
                ELSE [peer |-> p, todo |-> [i \in 1..(net - height) |-> height + i], batch |-> {}]
  BY DEF HandleInv, chainVars, flightVars
<1>2. Types'
  BY <1>1 DEF PartsInv, Types
<1>3. Limits'
  BY <1>1, FewerRequests DEF PartsInv
<1>4. InvInv'
  <2>1. PICK k \in Nat : k = net - height /\ height \in Nat /\ net = height + k
    BY Bounds DEF PartsInv, Types
  <2>2. [i \in 1..k |-> height + i] \in Seq(1..net)
    BY <2>1
  <2>3. <<>> \in Seq(1..net)
    OBVIOUS
  <2> QED BY <1>1, <2>1, <2>2, <2>3 DEF InvInv, NoInv
<1>5. KnownInv' /\ NoneStranded'
  BY <1>1 DEF PartsInv, KnownInv, NoneStranded
<1>6. RequestIsReal'
  BY <1>1, Bounds DEF PartsInv, RequestIsReal, InFlight
<1> QED BY <1>2, <1>3, <1>4, <1>5, <1>6 DEF PartsInv

LEMMA HandleItemStep ==
    ASSUME PartsInv, HandleInvItem
    PROVE  PartsInv'
<1> DEFINE b == Head(inv.todo)
<1>1. /\ UNCHANGED <<height, parked, net, up, best, asked, wanted, pushed>>
      /\ inv.peer # None /\ inv.todo # <<>>
      /\ \/ /\ inv' = [inv EXCEPT !.todo = Tail(@)]
            /\ mBlocksInFlight' = mBlocksInFlight \/ mBlocksInFlight' = Unexpired
         \/ /\ ShouldRequestBlock(b, inv.peer)
            /\ mBlocksInFlight' = [Unexpired EXCEPT ![b] = [peer |-> inv.peer, age |-> 0]]
            /\ inv' = [inv EXCEPT !.todo = Tail(@), !.batch = @ \cup {b}]
  BY DEF HandleInvItem, chainVars, peerVars
<1>2. /\ b \in 1..net /\ b \in Block /\ Tail(inv.todo) \in Seq(1..net)
      /\ inv.peer \in up \cup {Gone} /\ inv.peer \in Peer \cup {Gone}
  <2>1. inv.todo \in Seq(1..net) /\ net \in 0..MaxHeight /\ up \subseteq Peer
        /\ inv.peer \in up \cup {None, Gone}
    BY DEF PartsInv, InvInv, Types
  <2>2. Head(inv.todo) \in 1..net /\ Tail(inv.todo) \in Seq(1..net)
    BY <1>1, <2>1, HeadAndTail
  <2>3. 1..net \subseteq Block
    BY <2>1, Bounds DEF Block
  <2> QED BY <1>1, <2>1, <2>2, <2>3
<1> HIDE DEF b
<1>3. /\ inv'.peer = inv.peer
      /\ inv'.batch = inv.batch \/ inv'.batch = inv.batch \cup {b}
      /\ InvInv'
  BY <1>1, <1>2 DEF PartsInv, InvInv
<1>4. NoRequest \in [peer : Peer \cup {None, Gone}, age : 0..(ExpireChecks + 1)]
  BY Bounds DEF NoRequest
<1>5. Unexpired \in Flights /\ mBlocksInFlight \in Flights
  BY <1>4 DEF PartsInv, Types, Flights, Unexpired
<1>6. \A c \in Block : Unexpired[c].peer \in {mBlocksInFlight[c].peer, None}
  BY DEF Unexpired, NoRequest
<1>7. KnownInv' /\ NoneStranded'
  BY <1>1 DEF PartsInv, KnownInv, NoneStranded
<1>8. CASE mBlocksInFlight' = mBlocksInFlight \/ mBlocksInFlight' = Unexpired
  <2>1. Types'
    BY <1>1, <1>5, <1>8 DEF PartsInv, Types
  <2>2. \A c \in Block : mBlocksInFlight'[c].peer \in {mBlocksInFlight[c].peer, None}
    BY <1>6, <1>8
  <2>3. Limits'
    BY <2>2, FewerRequests DEF PartsInv
  <2>4. RequestIsReal'
    <3> SUFFICES ASSUME NEW c \in InFlight', mBlocksInFlight'[c].peer \in Peer
                 PROVE  LET p == mBlocksInFlight'[c].peer
                        IN p \in up' /\ c \in wanted'[p] \cup (IF inv'.peer = p THEN inv'.batch ELSE {})
      BY DEF RequestIsReal
    <3>1. PICK p \in Peer : p = mBlocksInFlight'[c].peer
      OBVIOUS
    <3>2. c \in InFlight /\ mBlocksInFlight[c].peer = p
      BY <2>2, <3>1, Bounds DEF InFlight
    <3>3. p \in up /\ c \in wanted[p] \cup (IF inv.peer = p THEN inv.batch ELSE {})
      BY <3>2 DEF PartsInv, RequestIsReal
    <3> QED BY <1>1, <1>3, <3>1, <3>3
  <2> QED BY <1>3, <1>7, <2>1, <2>3, <2>4 DEF PartsInv
<1>9. CASE /\ ShouldRequestBlock(b, inv.peer)
           /\ mBlocksInFlight' = [Unexpired EXCEPT ![b] = [peer |-> inv.peer, age |-> 0]]
           /\ inv' = [inv EXCEPT !.todo = Tail(@), !.batch = @ \cup {b}]
  <2>1. mBlocksInFlight' \in Flights
    <3>1. [peer |-> inv.peer, age |-> 0] \in [peer : Peer \cup {None, Gone}, age : 0..(ExpireChecks + 1)]
      BY <1>2, Bounds
    <3> QED BY <1>2, <1>5, <1>9, <3>1 DEF Flights
  <2>2. Types'
    BY <1>1, <2>1 DEF PartsInv, Types
  <2>3. Limits'
    BY <1>2, <1>5, <1>9, OneMoreRequest DEF PartsInv
  <2>4. RequestIsReal'
    <3> SUFFICES ASSUME NEW c \in InFlight', mBlocksInFlight'[c].peer \in Peer
                 PROVE  LET p == mBlocksInFlight'[c].peer
                        IN p \in up' /\ c \in wanted'[p] \cup (IF inv'.peer = p THEN inv'.batch ELSE {})
      BY DEF RequestIsReal
    <3>1. PICK p \in Peer : p = mBlocksInFlight'[c].peer
      OBVIOUS
    <3>2. inv'.batch = inv.batch \cup {b} /\ c \in Block
      BY <1>9 DEF PartsInv, InvInv, InFlight
    <3>3. CASE c = b
      <4>1. p = inv.peer
        BY <1>2, <1>5, <1>9, <3>1, <3>3 DEF Flights
      <4> QED BY <1>1, <1>2, <1>3, <3>1, <3>2, <3>3, <4>1, Bounds
    <3>4. CASE c # b
      <4>1. mBlocksInFlight'[c] = Unexpired[c]
        BY <1>5, <1>9, <3>2, <3>4 DEF Flights
      <4>2. c \in InFlight /\ mBlocksInFlight[c].peer = p
        BY <1>6, <3>1, <3>2, <4>1, Bounds DEF InFlight
      <4>3. p \in up /\ c \in wanted[p] \cup (IF inv.peer = p THEN inv.batch ELSE {})
        BY <4>2 DEF PartsInv, RequestIsReal
      <4> QED BY <1>1, <1>3, <3>1, <3>2, <4>3
    <3> QED BY <3>3, <3>4
  <2> QED BY <1>3, <1>7, <2>2, <2>3, <2>4 DEF PartsInv
<1> QED BY <1>1, <1>8, <1>9

LEMMA SendGetDataStep ==
    ASSUME PartsInv, SendGetData
    PROVE  PartsInv'
<1>1. /\ UNCHANGED <<height, parked, net, up, best, asked, pushed, mBlocksInFlight>>
      /\ inv' = NoInv
      /\ wanted' = [p \in Peer |-> IF p = inv.peer THEN wanted[p] \cup inv.batch ELSE wanted[p]]
  BY DEF SendGetData, chainVars, flightVars
<1>2. inv.batch \subseteq 1..net /\ 1..net \subseteq Block
  BY Bounds DEF PartsInv, InvInv, Types, Block
<1>3. Types'
  BY <1>1, <1>2 DEF PartsInv, Types
<1>4. Limits'
  BY <1>1, FewerRequests DEF PartsInv
<1>5. InvInv'
  BY <1>1 DEF InvInv, NoInv
<1>6. KnownInv' /\ NoneStranded'
  BY <1>1, <1>2 DEF PartsInv, KnownInv, NoneStranded
<1>7. RequestIsReal'
  BY <1>1 DEF PartsInv, RequestIsReal, InFlight
<1> QED BY <1>3, <1>4, <1>5, <1>6, <1>7 DEF PartsInv

\* The queue of parked blocks keeps within its limit.
LEMMA ParkStays ==
    ASSUME parked \in Seq(Block), Len(parked) <= MaxOrphans, NEW b \in Block
    PROVE  /\ ParkOrphanBlock(b) \in Seq(Block) /\ Len(ParkOrphanBlock(b)) <= MaxOrphans
           /\ \A i \in DOMAIN ParkOrphanBlock(b) :
                \/ ParkOrphanBlock(b)[i] = b
                \/ \E k \in DOMAIN parked : ParkOrphanBlock(b)[i] = parked[k]
<1>1. CASE b \in ToSet(parked)
  BY <1>1 DEF ParkOrphanBlock
<1>2. CASE b \notin ToSet(parked)
  <2>1. PICK s : s = IF Len(parked) >= MaxOrphans THEN Tail(parked) ELSE parked
    OBVIOUS
  <2>2. ParkOrphanBlock(b) = Append(s, b)
    BY <1>2, <2>1 DEF ParkOrphanBlock
  <2>3. PICK n \in Nat : n = Len(parked) /\ DOMAIN parked = 1..n
    OBVIOUS
  <2>4. /\ s \in Seq(Block) /\ Len(s) < MaxOrphans
        /\ \A i \in DOMAIN s : \E k \in DOMAIN parked : s[i] = parked[k]
    <3>1. CASE n >= MaxOrphans
      <4>1. n \in Nat \ {0} /\ parked # <<>> /\ s = Tail(parked)
        BY <2>1, <2>3, <3>1, Bounds
      <4>2. s \in Seq(Block) /\ Len(s) = n - 1 /\ DOMAIN s = 1..(n - 1)
        BY <2>3, <4>1
      <4>3. \A i \in 1..(n - 1) : s[i] = parked[i + 1] /\ i + 1 \in 1..n
        BY <2>3, <4>1
      <4>4. n - 1 < MaxOrphans
        BY <2>3, Bounds
      <4> QED BY <2>3, <4>2, <4>3, <4>4
    <3>2. CASE ~ (n >= MaxOrphans)
      BY <2>1, <2>3, <3>2, Bounds
    <3> QED BY <3>1, <3>2
  <2>5. PICK m \in Nat : m = Len(s) /\ DOMAIN s = 1..m
    BY <2>4
  <2>6. /\ Append(s, b) \in Seq(Block) /\ Len(Append(s, b)) = m + 1
        /\ DOMAIN Append(s, b) = 1..(m + 1) /\ Append(s, b)[m + 1] = b
        /\ \A i \in 1..m : Append(s, b)[i] = s[i]
    BY <2>4, <2>5
  <2>7. \A i \in 1..(m + 1) : i = m + 1 \/ i \in 1..m
    BY <2>5
  <2>8. m + 1 <= MaxOrphans
    BY <2>4, <2>5, Bounds
  <2> QED BY <2>2, <2>4, <2>5, <2>6, <2>7, <2>8
<1> QED BY <1>1, <1>2

LEMMA ReceiveStep ==
    ASSUME PartsInv, NEW p \in up, NEW b \in Block, ReceiveBlock(p, b)
    PROVE  PartsInv'
<1>1. /\ UNCHANGED <<net, up, best, inv>> /\ inv.peer = None
      /\ b \in wanted[p] \cup pushed[p]
      /\ wanted' = [wanted EXCEPT ![p] = @ \ {b}]
      /\ pushed' = [pushed EXCEPT ![p] = @ \ {b}]
      /\ mBlocksInFlight' = [mBlocksInFlight EXCEPT ![b] = NoRequest]
      /\ asked' \subseteq asked \cup {p}
  BY DEF ReceiveBlock
<1>2. /\ p \in Peer /\ height \in Nat /\ net \in Nat /\ height <= net /\ net <= MaxHeight
      /\ b \in Nat /\ b <= net /\ MaxHeight \in Nat /\ 1..net \subseteq Block
  BY <1>1, Bounds DEF PartsInv, Types, KnownInv, Block
<1>3. PICK n \in Nat : n = Len(parked) /\ DOMAIN parked = 1..n
  BY DEF PartsInv, Types
<1>4. parked \in Seq(Block) /\ Len(parked) <= MaxOrphans
  BY DEF PartsInv, Types
<1>5. /\ height' \in 0..net /\ parked' \in Seq(Block) /\ Len(parked') <= MaxOrphans
      /\ \A i \in DOMAIN parked' : parked'[i] \in 1..net /\ parked'[i] > height' + 1
  <2>1. CASE b <= height /\ UNCHANGED <<height, parked>>
    BY <1>2, <1>4, <2>1 DEF PartsInv, KnownInv, NoneStranded
  <2>2. CASE b > height + 1 /\ parked' = ParkOrphanBlock(b) /\ UNCHANGED height
    <3>1. /\ parked' \in Seq(Block) /\ Len(parked') <= MaxOrphans
          /\ \A i \in DOMAIN parked' : \/ parked'[i] = b
                                        \/ \E k \in DOMAIN parked : parked'[i] = parked[k]
      BY <1>4, <2>2, ParkStays
    <3>2. b \in 1..net
      BY <1>2, <2>2
    <3> QED BY <1>2, <2>2, <3>1, <3>2 DEF PartsInv, KnownInv, NoneStranded
  <2>3. CASE b = height + 1 /\ height' = Frontier(b) /\ parked' = TakeOrphansOf(b)
    <3>1. PICK f : f = Frontier(b)
      OBVIOUS
    <3>2. /\ f \in b..MaxHeight /\ f + 1 \notin ToSet(parked)
          /\ f = b \/ f \in ToSet(parked)
      BY <1>4, <3>1, FrontierEnds
    <3>3. \A c \in ToSet(parked) : c \in 1..net /\ c > height + 1
      BY DEF ToSet, PartsInv, KnownInv, NoneStranded
    <3>4. f \in 0..net
      BY <1>2, <3>2, <3>3
    <3>5. parked' \in Seq(Block) /\ Len(parked') <= Len(parked)
      BY <1>4, <2>3, OrphansLeft
    <3>6. \A j \in DOMAIN parked' : \E i \in DOMAIN parked : /\ parked'[j] = parked[i]
                                                             /\ parked[i] \notin (b + 1)..f
      BY <1>4, <2>3, <3>1, OrphansLeft
    <3>7. Len(parked') <= MaxOrphans
      <4>1. Len(parked') \in Nat
        BY <3>5
      <4> QED BY <1>3, <1>4, <3>5, <4>1, Bounds
    <3>8. ASSUME NEW j \in DOMAIN parked' PROVE parked'[j] \in 1..net /\ parked'[j] > f + 1
      <4>1. PICK c \in ToSet(parked) : c = parked'[j] /\ c \notin (b + 1)..f
        BY <3>6 DEF ToSet
      <4>2. c \in 1..net /\ c > b /\ c # f + 1
        BY <2>3, <3>2, <3>3, <4>1
      <4>3. c > f + 1
        BY <1>2, <3>2, <4>1, <4>2
      <4> QED BY <4>1, <4>2, <4>3
    <3> QED BY <2>3, <3>1, <3>4, <3>5, <3>7, <3>8
  <2> QED BY <2>1, <2>2, <2>3 DEF ReceiveBlock
<1>6. mBlocksInFlight' \in Flights
  <2>1. NoRequest \in [peer : Peer \cup {None, Gone}, age : 0..(ExpireChecks + 1)]
    BY Bounds DEF NoRequest
  <2> QED BY <1>1, <2>1 DEF PartsInv, Types, Flights
<1>7. /\ wanted' \in [Peer -> SUBSET Block] /\ pushed' \in [Peer -> SUBSET Block]
      /\ \A q \in Peer : wanted'[q] \subseteq wanted[q] /\ pushed'[q] \subseteq pushed[q]
      /\ \A q \in Peer, c \in Block : c \in wanted[q] /\ c # b => c \in wanted'[q]
  BY <1>1, <1>2 DEF PartsInv, Types
<1>8. Types'
  BY <1>1, <1>5, <1>6, <1>7 DEF PartsInv, Types
<1>9. \A c \in Block : mBlocksInFlight'[c] = IF c = b THEN NoRequest ELSE mBlocksInFlight[c]
  BY <1>1 DEF PartsInv, Types, Flights
<1>10. Limits'
  <2>1. \A c \in Block : mBlocksInFlight'[c].peer \in {mBlocksInFlight[c].peer, None}
    BY <1>9 DEF NoRequest
  <2> QED BY <2>1, FewerRequests DEF PartsInv
<1>11. InvInv'
  BY <1>1 DEF PartsInv, InvInv
<1>12. KnownInv' /\ NoneStranded'
  BY <1>1, <1>5, <1>7 DEF PartsInv, KnownInv, NoneStranded
<1>13. RequestIsReal'
  <2> SUFFICES ASSUME NEW c \in InFlight', mBlocksInFlight'[c].peer \in Peer
               PROVE  LET q == mBlocksInFlight'[c].peer
                      IN q \in up' /\ c \in wanted'[q] \cup (IF inv'.peer = q THEN inv'.batch ELSE {})
    BY DEF RequestIsReal
  <2>1. PICK q \in Peer : q = mBlocksInFlight'[c].peer
    OBVIOUS
  <2>2. c \in Block /\ c # b
    BY <1>9, Bounds DEF InFlight, NoRequest
  <2>3. c \in InFlight /\ mBlocksInFlight[c].peer = q
    BY <1>9, <2>1, <2>2, Bounds DEF InFlight
  <2>4. q \in up /\ c \in wanted[q]
    BY <1>1, <2>3, Bounds DEF PartsInv, RequestIsReal
  <2> QED BY <1>1, <1>7, <2>1, <2>2, <2>4
<1> QED BY <1>8, <1>10, <1>11, <1>12, <1>13 DEF PartsInv

LEMMA CheckStep ==
    ASSUME PartsInv, DownloadCheck
    PROVE  PartsInv'
<1>1. UNCHANGED <<height, parked, net>>
  BY DEF DownloadCheck, chainVars
<1>2. CASE /\ SyncFrom({})
           /\ UNCHANGED <<up, best, wanted, pushed, inv, mBlocksInFlight>>
  <2>1. asked' \subseteq up
    BY <1>2 DEF SyncFrom, PartsInv, Types
  <2>2. Types'
    BY <1>1, <1>2, <2>1 DEF PartsInv, Types
  <2>3. Limits'
    BY <1>2, FewerRequests DEF PartsInv
  <2>4. InvInv' /\ KnownInv' /\ NoneStranded' /\ RequestIsReal'
    BY <1>1, <1>2 DEF PartsInv, InvInv, KnownInv, NoneStranded, RequestIsReal, InFlight
  <2> QED BY <2>2, <2>3, <2>4 DEF PartsInv
<1>3. ASSUME NEW q \in Blockers, NEW D, D \subseteq {q} \cup TimedOut,
             DisconnectNodes(D), mBlocksInFlight' = ClearInFlightForPeers(D \ {Gone}, Aged),
             SyncFrom(D), UNCHANGED best
      PROVE  PartsInv'
  <2>1. None \notin D
    BY <1>3 DEF Blockers, TimedOut, Downloading, InFlight
  <2>2. /\ Aged \in Flights
        /\ \A b \in Block : Aged[b].peer = mBlocksInFlight[b].peer
    <3>1. mBlocksInFlight \in Flights
      BY DEF PartsInv, Types
    <3>2. ASSUME NEW b \in Block
          PROVE  /\ Aged[b] \in [peer : Peer \cup {None, Gone}, age : 0..(ExpireChecks + 1)]
                 /\ Aged[b].peer = mBlocksInFlight[b].peer
      <4>1. mBlocksInFlight[b] \in [peer : Peer \cup {None, Gone}, age : 0..(ExpireChecks + 1)]
        BY <3>1 DEF Flights
      <4>2. CASE b \in InFlight /\ mBlocksInFlight[b].age <= ExpireChecks
        <5>1. Aged[b] = [mBlocksInFlight[b] EXCEPT !.age = mBlocksInFlight[b].age + 1]
          BY <4>1, <4>2 DEF Aged
        <5>2. mBlocksInFlight[b].age + 1 \in 0..(ExpireChecks + 1)
          BY <4>1, <4>2, Bounds
        <5> QED BY <4>1, <5>1, <5>2
      <4>3. CASE ~ (b \in InFlight /\ mBlocksInFlight[b].age <= ExpireChecks)
        BY <4>1, <4>3 DEF Aged
      <4> QED BY <4>2, <4>3
    <3> QED BY <3>2 DEF Flights, Aged
  <2>3. up' = up \ D
    BY <1>3 DEF DisconnectNodes
  <2>4. asked' \subseteq up'
    BY <1>3, <2>3 DEF SyncFrom, PartsInv, Types
  <2> QED BY <1>1, <1>3, <2>1, <2>2, <2>4, DropStep
<1> QED BY <1>2, <1>3 DEF DownloadCheck

LEMMA DownloadStep == DownloadInv /\ [Next]_vars => DownloadInv'
<1> SUFFICES ASSUME PartsInv, [Next]_vars PROVE PartsInv'
  <2>1. DownloadInv' <=> PartsInv'
    BY DownloadParts, PTL
  <2> QED BY <2>1, DownloadParts
<1>1. CASE UNCHANGED vars
  <2>1. UNCHANGED <<height, parked, net, up, best, asked, wanted, pushed, mBlocksInFlight, inv>>
    BY <1>1 DEF vars, chainVars, peerVars, flightVars
  <2>2. Limits'
    BY <2>1, FewerRequests DEF PartsInv
  <2> QED BY <2>1, <2>2 DEF PartsInv, Types, InvInv, KnownInv, NoneStranded, RequestIsReal, InFlight
<1> QED
  BY <1>1, ConnectStep, BreakStep, GrowStep, HandleInvStep, HandleItemStep, SendGetDataStep,
     ReceiveStep, CheckStep DEF Next

LEMMA DownloadAlways == Spec => []DownloadInv
  BY DownloadInit, DownloadStep, PTL DEF Spec

-----------------------------------------------------------------------------
(* The theorems *)

\* The download keeps its types and its limits: never more requests than the
\* window, never more of one peer than its share, never more parked blocks than
\* MAX_ORPHAN_BLOCKS, and no height the peers do not have.
THEOREM LimitsHold == Spec => []DownloadTypeOK
<1>1. DownloadInv => DownloadTypeOK
  BY DEF DownloadInv
<1> QED BY <1>1, DownloadAlways, PTL

\* Every request on the books is owned by a peer that is connected and has been
\* or is about to be asked, whatever breaks, expires or is dropped in between.
THEOREM EveryRequestIsReal == Spec => []RequestIsReal
<1>1. DownloadInv => RequestIsReal
  BY DEF DownloadInv
<1> QED BY <1>1, DownloadAlways, PTL

\* No parked block is left behind once the chain has reached its parent: the
\* frontier loop of onBlock takes it.
THEOREM NoOrphanStranded == Spec => []NoneStranded
<1>1. DownloadInv => NoneStranded
  BY DEF DownloadInv
<1> QED BY <1>1, DownloadAlways, PTL
=============================================================================
