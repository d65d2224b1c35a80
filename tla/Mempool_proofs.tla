--------------------------- MODULE Mempool_proofs ---------------------------
(***************************************************************************)
(* What holds of the mempool for any transactions, limits and fee rates.   *)
(*                                                                         *)
(* Three inductive invariants, each built on the one before: the indexes   *)
(* (IndexInv), the fee rate (RateInv) and the bytes (BudgetInv).           *)
(***************************************************************************)
EXTENDS Mempool, FiniteSetTheorems, TLAPS

\* Types of the entries and their indexes.
IndexTypes ==
    /\ mIndex \subseteq Tx
    /\ mSpends \in [Outpoint -> Tx \cup {None}]
    /\ mLeafSpends \in [Leaf -> Tx \cup {None}]
    /\ adding \in Tx \cup {None}

\* The inductive invariant of the indexes.
IndexInv == IndexTypes /\ IndexesAgree

\* The inductive invariant of the fee rate: until it may decay, the minimum is a
\* step above every rate it was raised for.
RateInv ==
    /\ mRollingMinFeeRate \in Nat
    /\ mBlockSinceFeeBump \in BOOLEAN
    /\ evicted \subseteq Nat
    /\ ~mBlockSinceFeeBump => \A rate \in evicted : rate + Increment <= mRollingMinFeeRate

\* The order of admission speaks of entries, and AddTransaction is at one of its steps.
OrderInv ==
    /\ mOrder \subseteq mIndex \X mIndex
    /\ lock \in {"free", "add", "trim"}

\* The inductive invariant of the budget: the count is that of the bytes held, and
\* outside AddTransaction and while it has not yet inserted there is room.
BudgetInv ==
    /\ IsFiniteSet(Content(mIndex))
    /\ mTotalBytes = Bytes(mIndex)
    /\ lock # "trim" => mTotalBytes <= MaxBytes

-----------------------------------------------------------------------------
(* RemoveLocked *)

\* Removing entries of any kind keeps the indexes exact.
LEMMA RemoveKeepsIndex ==
    ASSUME IndexInv, NEW D, Remove(D), adding' \in Tx \cup {None}
    PROVE  IndexInv'
<1>1. IndexTypes'
  BY DEF IndexInv, IndexTypes, Remove, Free
<1>2. ASSUME NEW o \in Outpoint, NEW t \in Tx
      PROVE  mSpends'[o] = t <=> t \in mIndex' /\ o \in Ins[t]
  <2>1. mSpends'[o] = IF \E u \in D \cap mIndex : o \in Ins[u] THEN None ELSE mSpends[o]
    BY DEF Remove, Free
  <2>2. mIndex' = mIndex \ D
    BY DEF Remove
  <2>3. mSpends[o] = t <=> t \in mIndex /\ o \in Ins[t]
    BY DEF IndexInv, IndexesAgree
  <2>4. \A u \in D \cap mIndex : o \in Ins[u] => mSpends[o] = u
    BY DEF IndexInv, IndexesAgree, IndexTypes
  <2>5. None \notin Tx
    BY PoolAssumption
  <2> QED BY <2>1, <2>2, <2>3, <2>4, <2>5
<1>3. ASSUME NEW l \in Leaf, NEW t \in Tx
      PROVE  mLeafSpends'[l] = t <=> t \in mIndex' /\ l \in Lvs[t]
  <2>1. mLeafSpends'[l] = IF \E u \in D \cap mIndex : l \in Lvs[u] THEN None
                          ELSE mLeafSpends[l]
    BY DEF Remove, Free
  <2>2. mIndex' = mIndex \ D
    BY DEF Remove
  <2>3. mLeafSpends[l] = t <=> t \in mIndex /\ l \in Lvs[t]
    BY DEF IndexInv, IndexesAgree
  <2>4. \A u \in D \cap mIndex : l \in Lvs[u] => mLeafSpends[l] = u
    BY DEF IndexInv, IndexesAgree, IndexTypes
  <2>5. None \notin Tx
    BY PoolAssumption
  <2> QED BY <2>1, <2>2, <2>3, <2>4, <2>5
<1> QED BY <1>1, <1>2, <1>3 DEF IndexInv, IndexesAgree

\* RemoveRecursive leaves no child of what it removes.
LEMMA RecursiveTakesChildren ==
    ASSUME IndexInv, NEW S, RemoveRecursive(S)
    PROVE  \A t \in mIndex \ mIndex', u \in mIndex' : Outs[t] \cap Ins[u] = {}
<1> DEFINE D == CollectDescendants(S)
<1>1. mIndex' = mIndex \ D
  BY DEF RemoveRecursive, Remove
<1> SUFFICES ASSUME NEW t \in mIndex \cap D, NEW u \in mIndex \ D,
                    NEW o \in Outs[t] \cap Ins[u]
             PROVE  FALSE
  BY <1>1
<1>2. t \in Tx /\ u \in Tx /\ o \in Outpoint
  BY LedgerAssumption DEF IndexInv, IndexTypes
<1>3. mSpends[o] = u
  BY <1>2 DEF IndexInv, IndexesAgree
<1>4. u # None
  BY <1>2, PoolAssumption
<1>5. ASSUME NEW C \in SUBSET Tx, S \subseteq C, Spenders(C) \subseteq C
      PROVE  u \in C
  <2>1. t \in C
    BY <1>5 DEF CollectDescendants
  <2>2. o \in UNION {Outs[x] : x \in C \cap mIndex}
    BY <2>1
  <2>3. u \in Spenders(C)
    BY <1>3, <1>4, <2>2 DEF Spenders
  <2> QED BY <2>3, <1>5
<1>6. u \in D
  BY <1>2, <1>5 DEF CollectDescendants
<1> QED BY <1>6

-----------------------------------------------------------------------------
(* The indexes *)

LEMMA IndexInit == PoolInit => IndexInv
  BY PoolAssumption DEF PoolInit, IndexInv, IndexTypes, IndexesAgree

LEMMA InsertKeepsIndex ==
    ASSUME IndexInv, NEW r, Insert(r)
    PROVE  IndexInv'
<1>1. adding \in Tx /\ adding' = adding /\ NoConflict(adding) /\ adding \notin mIndex
  BY PoolAssumption DEF Insert
<1>2. IndexTypes'
  BY <1>1 DEF IndexInv, IndexTypes, Insert
<1>3. ASSUME NEW o \in Outpoint, NEW t \in Tx
      PROVE  mSpends'[o] = t <=> t \in mIndex' /\ o \in Ins[t]
  <2>1. mSpends'[o] = IF o \in Ins[adding] THEN adding ELSE mSpends[o]
    BY DEF Insert
  <2>2. mIndex' = mIndex \cup {adding}
    BY DEF Insert
  <2>3. mSpends[o] = t <=> t \in mIndex /\ o \in Ins[t]
    BY DEF IndexInv, IndexesAgree
  <2>4. o \in Ins[adding] => mSpends[o] = None
    BY <1>1 DEF NoConflict
  <2>5. None \notin Tx
    BY PoolAssumption
  <2> QED BY <1>1, <2>1, <2>2, <2>3, <2>4, <2>5
<1>4. ASSUME NEW l \in Leaf, NEW t \in Tx
      PROVE  mLeafSpends'[l] = t <=> t \in mIndex' /\ l \in Lvs[t]
  <2>1. mLeafSpends'[l] = IF l \in Lvs[adding] THEN adding ELSE mLeafSpends[l]
    BY DEF Insert
  <2>2. mIndex' = mIndex \cup {adding}
    BY DEF Insert
  <2>3. mLeafSpends[l] = t <=> t \in mIndex /\ l \in Lvs[t]
    BY DEF IndexInv, IndexesAgree
  <2>4. l \in Lvs[adding] => mLeafSpends[l] = None
    BY <1>1 DEF NoConflict
  <2>5. None \notin Tx
    BY PoolAssumption
  <2> QED BY <1>1, <2>1, <2>2, <2>3, <2>4, <2>5
<1> QED BY <1>2, <1>3, <1>4 DEF IndexInv, IndexesAgree

LEMMA IndexStep ==
    ASSUME IndexInv, [PoolNext]_poolVars
    PROVE  IndexInv'
<1> USE DEF IndexInv
<1>1. ASSUME UNCHANGED <<mIndex, mSpends, mLeafSpends>>, adding' \in Tx \cup {None}
      PROVE  IndexInv'
  BY <1>1 DEF IndexTypes, IndexesAgree
<1>2. CASE RefuseConflict
  BY <1>1, <1>2 DEF RefuseConflict, Return, indexVars
<1>3. CASE Added
  BY <1>1, <1>3 DEF Added, Return, indexVars
<1>4. ASSUME NEW r \in 0..mRollingMinFeeRate, RefusePolicy(r)
      PROVE  IndexInv'
  BY <1>1, <1>4 DEF RefusePolicy, Return, indexVars
<1>5. ASSUME NEW r \in 0..mRollingMinFeeRate, Insert(r)
      PROVE  IndexInv'
  BY <1>5, InsertKeepsIndex
<1>6. ASSUME NEW c \in mIndex, Trim(c)
      PROVE  IndexInv'
  BY <1>6, RemoveKeepsIndex DEF Trim, Evict, RemoveRecursive, IndexTypes
<1>7. ASSUME NEW t \in Tx, NEW S \in SUBSET mIndex, AddTransaction(t, S)
      PROVE  IndexInv'
  BY <1>7, RemoveKeepsIndex DEF AddTransaction
<1>8. ASSUME NEW t \in Tx, RemoveTransaction(t)
      PROVE  IndexInv'
  BY <1>8, RemoveKeepsIndex DEF RemoveTransaction, IndexTypes
<1>9. ASSUME NEW B \in SUBSET Tx, RemoveForBlock(B)
      PROVE  IndexInv'
  BY <1>9, RemoveKeepsIndex DEF RemoveForBlock, RemoveRecursive, IndexTypes
<1>10. CASE Clear
  BY <1>10, PoolAssumption DEF Clear, IndexTypes, IndexesAgree
<1>11. CASE UNCHANGED poolVars
  BY <1>11, <1>1 DEF poolVars, IndexTypes
<1>12. ASSUME NEW r \in 0..mRollingMinFeeRate, GetMinFeeRate(r)
       PROVE  IndexInv'
  BY <1>12, <1>1 DEF GetMinFeeRate, indexVars, IndexTypes
<1> QED
  BY <1>12, <1>2, <1>3, <1>4, <1>5, <1>6, <1>7, <1>8, <1>9, <1>10, <1>11 DEF PoolNext, Adding

LEMMA IndexInvariant == PoolSpec => []IndexInv
  BY IndexInit, IndexStep, PTL DEF PoolSpec

\* The outpoint and leaf indexes of the mempool are exact in every reachable state.
THEOREM ExactIndexes == PoolSpec => []IndexesAgree
  BY IndexInvariant, PTL DEF IndexInv

\* Two pending transactions never spend one outpoint or reveal one noise leaf
\* (AddTransaction, RemoveLocked and every path that removes).
THEOREM ConflictFree == PoolSpec => []NoPendingConflict
<1>1. IndexInv => NoPendingConflict
  <2> SUFFICES ASSUME IndexInv, NEW t \in mIndex, NEW u \in mIndex, t # u
               PROVE  Ins[t] \cap Ins[u] = {} /\ Lvs[t] \cap Lvs[u] = {}
    BY DEF NoPendingConflict
  <2>1. t \in Tx /\ u \in Tx
    BY DEF IndexInv, IndexTypes
  <2>2. Ins[t] \cap Ins[u] \subseteq Outpoint /\ Lvs[t] \cap Lvs[u] \subseteq Leaf
    BY <2>1, LedgerAssumption
  <2>3. \A o \in Ins[t] \cap Ins[u] : mSpends[o] = t /\ mSpends[o] = u
    BY <2>1, <2>2 DEF IndexInv, IndexesAgree
  <2>4. \A l \in Lvs[t] \cap Lvs[u] : mLeafSpends[l] = t /\ mLeafSpends[l] = u
    BY <2>1, <2>2 DEF IndexInv, IndexesAgree
  <2> QED BY <2>3, <2>4
<1> QED BY <1>1, IndexInvariant, PTL

-----------------------------------------------------------------------------
(* Removal *)

\* TrimLocked and RemoveForBlock leave no child of an entry they take out.
THEOREM NoChildLeft == PoolSpec => ChildrenGoAlong
<1> DEFINE Closed == (lock = "trim" \/ \E B \in SUBSET Tx : RemoveForBlock(B)) =>
               \A t \in mIndex \ mIndex', u \in mIndex' : Outs[t] \cap Ins[u] = {}
<1>1. ASSUME IndexInv, [PoolNext]_poolVars
      PROVE  [Closed]_poolVars
  <2> SUFFICES ASSUME PoolNext PROVE Closed
    BY <1>1
  <2>1. ASSUME NEW B \in SUBSET Tx, RemoveForBlock(B)
        PROVE  Closed
    BY <1>1, <2>1, RecursiveTakesChildren DEF RemoveForBlock
  <2>2. CASE lock = "trim"
    <3>1. Added \/ \E c \in mIndex : Trim(c)
      BY <2>2 DEF PoolNext, Adding, RefuseConflict, RefusePolicy, Insert, AddTransaction,
                  RemoveTransaction, RemoveForBlock, Clear, GetMinFeeRate
    <3>2. ASSUME NEW c \in mIndex, Trim(c) PROVE Closed
      BY <1>1, <3>2, RecursiveTakesChildren DEF Trim, Evict
    <3>3. CASE Added
      BY <3>3 DEF Added, indexVars
    <3> QED BY <3>1, <3>2, <3>3
  <2> QED BY <2>1, <2>2
<1> QED BY <1>1, IndexInvariant, PTL DEF PoolSpec, ChildrenGoAlong

\* After RemoveForBlock nothing in the pool was confirmed or contradicted by the block.
THEOREM ClearedOfBlock == PoolSpec => BlockIsCleared
<1> DEFINE Clears(B) == RemoveForBlock(B) =>
                \A t \in mIndex', b \in B : /\ t # b
                                            /\ Ins[t] \cap Ins[b] = {}
                                            /\ Lvs[t] \cap Lvs[b] = {}
<1>1. ASSUME IndexInv, NEW B \in SUBSET (Tx \ Coinbase)
      PROVE  Clears(B)
  <2> SUFFICES ASSUME RemoveForBlock(B), NEW t \in mIndex', NEW b \in B
               PROVE  /\ t # b
                      /\ Ins[t] \cap Ins[b] = {}
                      /\ Lvs[t] \cap Lvs[b] = {}
    OBVIOUS
  <2>1. B \ Coinbase = B
    OBVIOUS
  <2>2. t \in mIndex /\ t \notin CollectDescendants(Conflicts(B))
    BY <2>1 DEF RemoveForBlock, RemoveRecursive, Remove
  <2>3. t \in Tx /\ b \in Tx
    BY <1>1, <2>2 DEF IndexInv, IndexTypes
  <2>4. t \notin Conflicts(B)
    BY <2>2, <2>3 DEF CollectDescendants
  <2>5. t # None
    BY <2>3, PoolAssumption
  <2>6. ASSUME NEW o \in Ins[t] \cap Ins[b] PROVE FALSE
    <3>1. o \in Outpoint
      BY <2>3, LedgerAssumption
    <3>2. mSpends[o] = t
      BY <1>1, <2>2, <2>3, <3>1 DEF IndexInv, IndexesAgree
    <3> QED BY <2>4, <2>5, <3>2 DEF Conflicts
  <2>7. ASSUME NEW l \in Lvs[t] \cap Lvs[b] PROVE FALSE
    <3>1. l \in Leaf
      BY <2>3, LedgerAssumption
    <3>2. mLeafSpends[l] = t
      BY <1>1, <2>2, <2>3, <3>1 DEF IndexInv, IndexesAgree
    <3> QED BY <2>4, <2>5, <3>2 DEF Conflicts
  <2> QED BY <2>4, <2>6, <2>7 DEF Conflicts
<1>2. ASSUME IndexInv
      PROVE  [\A B \in SUBSET (Tx \ Coinbase) : Clears(B)]_poolVars
  BY <1>1, <1>2
<1> QED BY <1>2, IndexInvariant, PTL DEF PoolSpec, BlockIsCleared

-----------------------------------------------------------------------------
(* The minimum fee rate *)

LEMMA RateInit == PoolInit => RateInv
<1> SUFFICES ASSUME PoolInit PROVE RateInv
  OBVIOUS
<1>1. mRollingMinFeeRate \in Nat
  BY DEF PoolInit
<1>2. mBlockSinceFeeBump \in BOOLEAN /\ evicted = {}
  BY Zenon DEF PoolInit
<1> QED BY <1>1, <1>2 DEF RateInv

LEMMA TrimKeepsRate ==
    ASSUME RateInv, NEW entry \in Tx, Trim(entry)
    PROVE  RateInv'
<1> DEFINE c == FeePerK[entry]
<1>1. c \in Nat /\ Increment \in Nat
  BY PoolAssumption
<1>2. CASE c + Increment > mRollingMinFeeRate
  <2>1. mRollingMinFeeRate' = c + Increment /\ mBlockSinceFeeBump' = FALSE
    BY <1>2 DEF Trim, Bump
  <2>2. evicted' = (IF mBlockSinceFeeBump THEN {} ELSE evicted) \cup {c}
    BY DEF Trim
  <2> HIDE DEF c
  <2>3. \A rate \in evicted' : rate + Increment <= c + Increment
    <3> SUFFICES ASSUME NEW rate \in evicted' PROVE rate + Increment <= c + Increment
      OBVIOUS
    <3>1. CASE rate = c
      BY <3>1, <1>1
    <3>2. CASE ~mBlockSinceFeeBump /\ rate \in evicted
      BY <3>2, <1>1, <1>2 DEF RateInv
    <3> QED BY <2>2, <3>1, <3>2
  <2>4. evicted' \subseteq Nat
    BY <1>1, <2>2 DEF RateInv
  <2>5. mBlockSinceFeeBump' \in BOOLEAN
    BY <2>1, Zenon
  <2>6. mRollingMinFeeRate' \in Nat
    BY <1>1, <2>1
  <2> QED BY <2>1, <2>3, <2>4, <2>5, <2>6 DEF RateInv
<1>3. CASE ~(c + Increment > mRollingMinFeeRate)
  <2>1. mRollingMinFeeRate' = mRollingMinFeeRate /\ mBlockSinceFeeBump' = mBlockSinceFeeBump
    BY <1>3 DEF Trim, Bump
  <2>2. evicted' = (IF mBlockSinceFeeBump THEN {} ELSE evicted) \cup {c}
    BY DEF Trim
  <2> HIDE DEF c
  <2>3. c + Increment <= mRollingMinFeeRate
    BY <1>1, <1>3 DEF RateInv
  <2>4. ASSUME ~mBlockSinceFeeBump, NEW rate \in evicted'
        PROVE  rate + Increment <= mRollingMinFeeRate
    <3>1. CASE rate = c
      BY <3>1, <2>3
    <3>2. CASE rate \in evicted
      BY <3>2, <2>4 DEF RateInv
    <3> QED BY <2>2, <3>1, <3>2
  <2>5. evicted' \subseteq Nat
    BY <1>1, <2>2 DEF RateInv
  <2> QED BY <2>1, <2>4, <2>5 DEF RateInv
<1> QED BY <1>2, <1>3

LEMMA RateStep ==
    ASSUME RateInv, IndexInv, [PoolNext]_poolVars
    PROVE  RateInv'
<1>1. ASSUME UNCHANGED feeVars PROVE RateInv'
  BY <1>1 DEF RateInv, feeVars
<1>2. CASE RefuseConflict \/ Added \/ Clear \/ UNCHANGED poolVars
  BY <1>1, <1>2 DEF RefuseConflict, Added, Clear, poolVars, feeVars
<1>3. ASSUME NEW r \in 0..mRollingMinFeeRate, RefusePolicy(r) \/ Insert(r)
      PROVE  RateInv'
  <2>1. /\ mRollingMinFeeRate' = r
        /\ UNCHANGED <<mBlockSinceFeeBump, evicted>>
        /\ r \in Decayed
    BY <1>3 DEF RefusePolicy, Insert
  <2>2. ~mBlockSinceFeeBump => r = mRollingMinFeeRate
    BY <2>1 DEF Decayed
  <2> QED BY <2>1, <2>2 DEF RateInv
<1>4. ASSUME NEW c \in mIndex, Trim(c)
      PROVE  RateInv'
  BY <1>4, TrimKeepsRate DEF IndexInv, IndexTypes
<1>5. ASSUME NEW t \in Tx, NEW S \in SUBSET mIndex, AddTransaction(t, S)
      PROVE  RateInv'
  BY <1>1, <1>5 DEF AddTransaction
<1>6. ASSUME NEW t \in Tx, RemoveTransaction(t)
      PROVE  RateInv'
  BY <1>1, <1>6 DEF RemoveTransaction
<1>7. ASSUME NEW B \in SUBSET Tx, RemoveForBlock(B)
      PROVE  RateInv'
  BY <1>7 DEF RemoveForBlock, RateInv
<1>8. ASSUME NEW r \in 0..mRollingMinFeeRate, GetMinFeeRate(r)
      PROVE  RateInv'
  <2>1. /\ mRollingMinFeeRate' = r
        /\ UNCHANGED <<mBlockSinceFeeBump, evicted>>
        /\ r \in Decayed
    BY <1>8 DEF GetMinFeeRate
  <2>2. ~mBlockSinceFeeBump => r = mRollingMinFeeRate
    BY <2>1 DEF Decayed
  <2> QED BY <2>1, <2>2 DEF RateInv
<1> QED BY <1>2, <1>3, <1>4, <1>5, <1>6, <1>7, <1>8 DEF PoolNext, Adding

LEMMA RateInvariant == PoolSpec => []RateInv
<1>1. RateInv /\ IndexInv /\ [PoolNext]_poolVars => RateInv'
  BY RateStep
<1> QED BY <1>1, RateInit, IndexInvariant, PTL DEF PoolSpec

\* Until the minimum fee rate may decay (GetMinFeeRateLocked), every entry admitted
\* pays strictly more than what TrimLocked evicted.
THEOREM EvictionIsFinal == PoolSpec => EvictedStayOut
<1> DEFINE Dearer == \A t \in mIndex' \ mIndex :
                        ~mBlockSinceFeeBump => \A rate \in evicted : FeePerK[t] > rate
<1>1. ASSUME RateInv, IndexInv, PoolNext
      PROVE  Dearer
  <2>1. ASSUME NEW r \in 0..mRollingMinFeeRate, Insert(r), ~mBlockSinceFeeBump
        PROVE  \A rate \in evicted : FeePerK[adding] > rate
    <3>1. r = mRollingMinFeeRate /\ MinFeeRate(r) = r
      BY <2>1 DEF Insert, Decayed, MinFeeRate
    <3>2. FeePerK[adding] >= mRollingMinFeeRate /\ FeePerK[adding] \in Nat
      BY <2>1, <3>1, PoolAssumption DEF Insert
    <3>3. Increment \in Nat \ {0}
      BY PoolAssumption
    <3> QED BY <1>1, <2>1, <3>2, <3>3 DEF RateInv
  <2>2. ASSUME NEW r \in 0..mRollingMinFeeRate, Insert(r)
        PROVE  Dearer
    BY <2>1, <2>2 DEF Insert
  <2>3. ASSUME mIndex' \subseteq mIndex
        PROVE  Dearer
    BY <2>3
  <2>4. mIndex' \subseteq mIndex \/ \E r \in 0..mRollingMinFeeRate : Insert(r)
    BY <1>1 DEF PoolNext, Adding, RefuseConflict, RefusePolicy, Added, Trim, Evict,
                AddTransaction, RemoveTransaction, RemoveForBlock, RemoveRecursive, Remove,
                GetMinFeeRate, Clear, indexVars
  <2> QED BY <2>2, <2>3, <2>4
<1>2. RateInv /\ IndexInv /\ [PoolNext]_poolVars => [Dearer]_poolVars
  BY <1>1
<1> QED BY <1>2, RateInvariant, IndexInvariant, PTL DEF PoolSpec, EvictedStayOut

-----------------------------------------------------------------------------
(* The budget *)

\* Whatever is removed, the bytes subtracted are those the removed entries held.
LEMMA BytesRemoved ==
    ASSUME mIndex \subseteq Tx, NEW D, IsFiniteSet(Content(mIndex))
    PROVE  /\ IsFiniteSet(Content(mIndex \ D))
           /\ Bytes(mIndex \ D) = Bytes(mIndex) - Bytes(D \cap mIndex)
           /\ Bytes(mIndex \ D) \in Nat
           /\ Bytes(mIndex \ D) <= Bytes(mIndex)
<1> DEFINE kept == Content(mIndex \ D)
           gone == Content(D \cap mIndex)
<1>1. Content(mIndex) = kept \cup gone
  BY DEF Content
<1>2. kept \cap gone = {}
  BY DEF Content
<1> HIDE DEF kept, gone
<1>3. IsFiniteSet(kept) /\ IsFiniteSet(gone)
  BY <1>1, FS_Subset
<1>4. Cardinality(kept \cup gone) = Cardinality(kept) + Cardinality(gone) - Cardinality({})
  BY <1>2, <1>3, FS_Union
<1>5. Cardinality(kept) \in Nat /\ Cardinality(gone) \in Nat /\ Cardinality({}) = 0
  BY <1>3, FS_CardinalityType, FS_EmptySet
<1>6. Cardinality(Content(mIndex)) = Cardinality(kept) + Cardinality(gone)
  BY <1>1, <1>4, <1>5
<1> QED BY <1>3, <1>5, <1>6 DEF Bytes, kept, gone

\* A new entry adds its size.
LEMMA BytesAdded ==
    ASSUME mIndex \subseteq Tx, NEW t \in Tx \ mIndex, IsFiniteSet(Content(mIndex))
    PROVE  /\ IsFiniteSet(Content(mIndex \cup {t}))
           /\ Bytes(mIndex \cup {t}) = Bytes(mIndex) + Size[t]
<1> DEFINE held == Content(mIndex)
           new == {t} \X (1..Size[t])
<1>1. Content(mIndex \cup {t}) = held \cup new
  BY DEF Content
<1>2. held \cap new = {}
  BY DEF Content
<1>3. Size[t] \in Nat
  BY PoolAssumption
<1>4. IsFiniteSet({t}) /\ Cardinality({t}) = 1
  BY FS_Singleton
<1>5. IsFiniteSet(1..Size[t]) /\ Cardinality(1..Size[t]) = Size[t]
  BY <1>3, FS_Interval
<1>6. IsFiniteSet(new) /\ Cardinality(new) = Size[t]
  <2>1. IsFiniteSet(new) /\ Cardinality(new) = Cardinality({t}) * Cardinality(1..Size[t])
    BY <1>4, <1>5, FS_Product, Zenon
  <2>2. Cardinality(new) = 1 * Size[t]
    BY <2>1, <1>4, <1>5
  <2> QED BY <2>1, <2>2, <1>3
<1> HIDE DEF held, new
<1>7. IsFiniteSet(held)
  BY DEF held
<1>8. /\ IsFiniteSet(held \cup new)
      /\ Cardinality(held \cup new) = Cardinality(held) + Size[t] - Cardinality({})
  BY <1>2, <1>6, <1>7, FS_Union
<1>9. Cardinality(held) \in Nat /\ Cardinality({}) = 0
  BY <1>7, FS_CardinalityType, FS_EmptySet
<1>10. Cardinality(held \cup new) = Cardinality(held) + Size[t]
  BY <1>3, <1>8, <1>9
<1> QED BY <1>1, <1>8, <1>10 DEF Bytes, held

LEMMA NothingIsFree == IsFiniteSet(Content({})) /\ Bytes({}) = 0
<1>1. Content({}) = {}
  BY DEF Content
<1> QED BY <1>1, FS_EmptySet DEF Bytes

LEMMA RemoveKeepsBudget ==
    ASSUME BudgetInv, IndexInv, NEW D, Remove(D), lock # "trim" \/ lock' = "trim"
    PROVE  BudgetInv'
<1>1. mIndex \subseteq Tx
  BY DEF IndexInv, IndexTypes
<1>2. /\ IsFiniteSet(Content(mIndex \ D))
      /\ Bytes(mIndex \ D) = Bytes(mIndex) - Bytes(D \cap mIndex)
      /\ Bytes(mIndex \ D) \in Nat
      /\ Bytes(mIndex \ D) <= Bytes(mIndex)
  BY <1>1, BytesRemoved DEF BudgetInv
<1>3. mIndex' = mIndex \ D /\ mTotalBytes' = mTotalBytes - Bytes(D \cap mIndex)
  BY DEF Remove
<1>4. Bytes(mIndex)' = Bytes(mIndex \ D) /\ Content(mIndex)' = Content(mIndex \ D)
  BY <1>3 DEF Bytes, Content
<1>5. mTotalBytes = Bytes(mIndex) /\ MaxBytes \in Nat
  BY PoolAssumption DEF BudgetInv
<1>6. Bytes(mIndex) \in Nat
  BY FS_CardinalityType DEF BudgetInv, Bytes
<1> QED BY <1>2, <1>3, <1>4, <1>5, <1>6 DEF BudgetInv

LEMMA BudgetStep ==
    ASSUME BudgetInv, IndexInv, OrderInv, [PoolNext]_poolVars
    PROVE  BudgetInv'
<1>1. ASSUME UNCHANGED <<mIndex, mTotalBytes>>, lock # "trim" \/ lock' = "trim" \/ Done
      PROVE  BudgetInv'
  <2>1. mIndex = {} => mTotalBytes = 0
    BY NothingIsFree DEF BudgetInv
  <2>2. Done => mTotalBytes <= MaxBytes
    BY <2>1, PoolAssumption DEF Done
  <2>3. Content(mIndex)' = Content(mIndex) /\ Bytes(mIndex)' = Bytes(mIndex)
    BY <1>1 DEF Content, Bytes
  <2> QED BY <1>1, <2>2, <2>3 DEF BudgetInv
<1>2. CASE RefuseConflict
  BY <1>1, <1>2 DEF RefuseConflict, Return, indexVars
<1>3. CASE Added
  BY <1>1, <1>3 DEF Added, Return, indexVars
<1>4. ASSUME NEW r \in 0..mRollingMinFeeRate, RefusePolicy(r)
      PROVE  BudgetInv'
  BY <1>1, <1>4 DEF RefusePolicy, Return, indexVars
<1>5. ASSUME NEW r \in 0..mRollingMinFeeRate, Insert(r)
      PROVE  BudgetInv'
  <2>1. adding \in Tx \ mIndex /\ mIndex \subseteq Tx
    BY <1>5, PoolAssumption DEF Insert, IndexInv, IndexTypes
  <2>2. /\ IsFiniteSet(Content(mIndex \cup {adding}))
        /\ Bytes(mIndex \cup {adding}) = Bytes(mIndex) + Size[adding]
    BY <2>1, BytesAdded DEF BudgetInv
  <2>3. /\ mIndex' = mIndex \cup {adding}
        /\ mTotalBytes' = mTotalBytes + Size[adding]
        /\ lock' = "trim"
    BY <1>5 DEF Insert
  <2>4. /\ Content(mIndex)' = Content(mIndex \cup {adding})
        /\ Bytes(mIndex)' = Bytes(mIndex \cup {adding})
    BY <2>3 DEF Content, Bytes
  <2> QED BY <2>2, <2>3, <2>4 DEF BudgetInv
<1>6. ASSUME NEW c \in mIndex, Trim(c)
      PROVE  BudgetInv'
  BY <1>6, RemoveKeepsBudget DEF Trim, Evict, RemoveRecursive
<1>7. ASSUME NEW t \in Tx, NEW S \in SUBSET mIndex, AddTransaction(t, S)
      PROVE  BudgetInv'
  BY <1>7, RemoveKeepsBudget DEF AddTransaction
<1>8. ASSUME NEW t \in Tx, RemoveTransaction(t)
      PROVE  BudgetInv'
  BY <1>8, RemoveKeepsBudget DEF RemoveTransaction
<1>9. ASSUME NEW B \in SUBSET Tx, RemoveForBlock(B)
      PROVE  BudgetInv'
  BY <1>9, RemoveKeepsBudget DEF RemoveForBlock, RemoveRecursive
<1>10. CASE Clear
  <2>1. Content(mIndex)' = Content({}) /\ Bytes(mIndex)' = Bytes({}) /\ mTotalBytes' = 0
    BY <1>10 DEF Clear, Content, Bytes
  <2> QED BY <2>1, NothingIsFree, PoolAssumption DEF BudgetInv
<1>11. CASE UNCHANGED poolVars
  BY <1>11, <1>1 DEF poolVars
<1>12. ASSUME NEW r \in 0..mRollingMinFeeRate, GetMinFeeRate(r)
       PROVE  BudgetInv'
  BY <1>12, <1>1 DEF GetMinFeeRate, indexVars
<1> QED
  BY <1>12, <1>2, <1>3, <1>4, <1>5, <1>6, <1>7, <1>8, <1>9, <1>10, <1>11 DEF PoolNext, Adding

LEMMA BudgetInit == PoolInit => BudgetInv
<1> SUFFICES ASSUME PoolInit PROVE BudgetInv
  OBVIOUS
<1>1. mIndex = {} /\ mTotalBytes = 0
  BY DEF PoolInit
<1> QED BY <1>1, NothingIsFree, PoolAssumption DEF BudgetInv

LEMMA OrderInvariant == PoolSpec => []OrderInv
<1>1. PoolInit => OrderInv
  BY DEF PoolInit, OrderInv
<1>2. ASSUME OrderInv, [PoolNext]_poolVars
      PROVE  OrderInv'
  <2>1. lock' \in {"free", "add", "trim"}
    BY <1>2 DEF OrderInv, PoolNext, Adding, RefuseConflict, RefusePolicy, Insert, Added,
                Return, Trim, AddTransaction, RemoveTransaction, RemoveForBlock,
                GetMinFeeRate, Clear, poolVars
  <2>2. ASSUME NEW D, Remove(D)
        PROVE  mOrder' \subseteq mIndex' \X mIndex'
    BY <1>2, <2>2 DEF Remove, OrderInv
  <2>3. ASSUME NEW r, Insert(r)
        PROVE  mOrder' \subseteq mIndex' \X mIndex'
    BY <1>2, <2>3 DEF Insert, OrderInv
  <2>4. mOrder' \subseteq mIndex' \X mIndex'
    BY <1>2, <2>2, <2>3
       DEF OrderInv, PoolNext, Adding, RefuseConflict, RefusePolicy, Added, Trim, Evict,
           AddTransaction, RemoveTransaction, RemoveForBlock, RemoveRecursive,
           GetMinFeeRate, Clear, indexVars, poolVars
  <2> QED BY <2>1, <2>4 DEF OrderInv
<1> QED BY <1>1, <1>2, PTL DEF PoolSpec

LEMMA BudgetInvariant == PoolSpec => []BudgetInv
<1>1. BudgetInv /\ IndexInv /\ OrderInv /\ [PoolNext]_poolVars => BudgetInv'
  BY BudgetStep
<1> QED BY <1>1, BudgetInit, IndexInvariant, OrderInvariant, PTL DEF PoolSpec

\* mTotalBytes is the sum of the sizes of the entries after any sequence of
\* insertions and removals, and no method returns with more than mMaxBytes:
\* TrimLocked cannot run out of entries first.
THEOREM BudgetKept == PoolSpec => []WithinBudget
<1>1. BudgetInv => WithinBudget
  BY DEF BudgetInv, WithinBudget
<1> QED BY <1>1, BudgetInvariant, PTL

\* Types of the whole pool: in particular mTotalBytes, an unsigned size_t from which
\* RemoveLocked subtracts, never goes below zero.
THEOREM PoolTypes == PoolSpec => []PoolTypeOK
<1>1. IndexInv /\ RateInv /\ OrderInv /\ BudgetInv => PoolTypeOK
  <2> SUFFICES ASSUME IndexInv, RateInv, OrderInv, BudgetInv PROVE PoolTypeOK
    OBVIOUS
  <2>1. mTotalBytes \in Nat
    BY FS_CardinalityType DEF BudgetInv, Bytes
  <2> QED BY <2>1 DEF IndexInv, IndexTypes, RateInv, OrderInv, PoolTypeOK
<1> QED BY <1>1, IndexInvariant, RateInvariant, OrderInvariant, BudgetInvariant, PTL
=============================================================================
