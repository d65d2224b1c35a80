------------------------------- MODULE Mempool -------------------------------
(***************************************************************************)
(* MONEU::Mempool: the pending payments, two indexes that find who spends  *)
(* an outpoint or a noise leaf, a budget in bytes and a minimum fee rate   *)
(* that rises with every eviction and decays after a block.                *)
(*                                                                         *)
(* Every public method holds mMutex throughout.  AddTransaction is several *)
(* steps because it loops: `lock' says that it is running, and no other    *)
(* method runs until it returns.                                           *)
(*                                                                         *)
(* mByFeeRate and mByTime sort the entries by (feePerK, seq) and           *)
(* (entryTime, seq); the order of admission that seq and entryTime record  *)
(* is the relation mOrder.  There is no clock: any time may pass between   *)
(* two calls (it never runs backwards), so the entries that are too old    *)
(* are the oldest few, however many, and the rate, a double in the code    *)
(* and a natural number here, has decayed to any lower value.              *)
(***************************************************************************)
EXTENDS Ledger, FiniteSets

CONSTANTS
    Relayable,      \* transactions ValidateForPool accepts whatever the pool holds
    Size,           \* Size[t]: serialized bytes
    FeePerK,        \* FeePerK[t]: fee * 1000 / size
    MaxBytes,       \* mMaxBytes
    MaxAncestors,   \* MAX_ANCESTORS
    MaxDescendants, \* MAX_DESCENDANTS
    Increment,      \* INCREMENTAL_FEE_PER_K
    None            \* no transaction

ASSUME PoolAssumption ==
    /\ Relayable \subseteq Tx \ Coinbase
    /\ Size \in [Tx -> Nat \ {0}]
    /\ FeePerK \in [Tx -> Nat]
    /\ {MaxBytes, MaxAncestors, MaxDescendants} \subseteq Nat
    /\ Increment \in Nat \ {0}
    /\ None \notin Tx

VARIABLES
    mIndex,             \* the entries
    mOrder,             \* <<t, u>>: t was admitted before u
    mSpends,            \* [Outpoint -> the entry that spends it, or None]
    mLeafSpends,        \* [Leaf -> the entry that reveals it, or None]
    mTotalBytes,
    mRollingMinFeeRate,
    mBlockSinceFeeBump,
    lock,               \* "free", or the part of AddTransaction that runs
    adding,             \* its argument
    evicted             \* history: fee rates evicted since the minimum last decayed

indexVars == <<mIndex, mOrder, mSpends, mLeafSpends, mTotalBytes>>
feeVars == <<mRollingMinFeeRate, mBlockSinceFeeBump, evicted>>
poolVars == <<mIndex, mOrder, mSpends, mLeafSpends, mTotalBytes,
              mRollingMinFeeRate, mBlockSinceFeeBump, lock, adding, evicted>>

PoolInit ==
    /\ mIndex = {}
    /\ mOrder = {}
    /\ mSpends = [o \in Outpoint |-> None]
    /\ mLeafSpends = [l \in Leaf |-> None]
    /\ mTotalBytes = 0
    /\ mRollingMinFeeRate = 0
    /\ mBlockSinceFeeBump = FALSE
    /\ lock = "free"
    /\ adding = None
    /\ evicted = {}

-----------------------------------------------------------------------------
(* Relatives in the pool *)

\* What the entries of S hold, byte by byte, and the sum of their sizes.
Content(S) == UNION {{t} \X (1..Size[t]) : t \in S}
Bytes(S) == Cardinality(Content(S))

\* Who the breadth-first search of CollectDescendantsLocked reaches from S in a step.
Spenders(S) == {mSpends[o] : o \in UNION {Outs[t] : t \in S \cap mIndex}} \ {None}

\* S and every descendant of it, the least set closed under Spenders.
CollectDescendants(S) ==
    {u \in Tx : \A C \in SUBSET Tx : S \subseteq C /\ Spenders(C) \subseteq C => u \in C}

Parents(S) == {p \in mIndex : \E t \in S : Outs[p] \cap Ins[t] # {}}

\* The entries t would sit on top of.
Ancestors(t) ==
    {u \in mIndex : \A C \in SUBSET mIndex :
        Parents({t}) \subseteq C /\ Parents(C) \subseteq C => u \in C}

CountAncestors(t) == Cardinality(Ancestors(t)) + 1
CountDescendants(p) == Cardinality(CollectDescendants({p}))

-----------------------------------------------------------------------------
(* RemoveLocked, for a set of entries *)

\* Mutant: the leaves of a removed entry stay reserved.
FreeOutpointsOnly(D) ==
    /\ mSpends' = [o \in Outpoint |-> IF \E t \in D : o \in Ins[t] THEN None
                                      ELSE mSpends[o]]
    /\ mLeafSpends' = mLeafSpends

Free(D) ==
    /\ mSpends' = [o \in Outpoint |-> IF \E t \in D : o \in Ins[t] THEN None
                                      ELSE mSpends[o]]
    /\ mLeafSpends' = [l \in Leaf |-> IF \E t \in D : l \in Lvs[t] THEN None
                                      ELSE mLeafSpends[l]]

Remove(D) ==
    /\ mIndex' = mIndex \ D
    /\ mOrder' = {p \in mOrder : p[1] \notin D /\ p[2] \notin D}
    /\ Free(D \cap mIndex)
    /\ mTotalBytes' = mTotalBytes - Bytes(D \cap mIndex)

RemoveRecursive(S) == Remove(CollectDescendants(S))

-----------------------------------------------------------------------------
(* AddTransaction *)

\* The oldest entries, as many as ExpireLocked finds too old.
Oldest(S) == S \subseteq mIndex /\ \A p \in mOrder : p[2] \in S => p[1] \in S

AddTransaction(t, S) ==
    /\ lock = "free"
    /\ Oldest(S)
    /\ Remove(S)
    /\ lock' = "add"
    /\ adding' = t
    /\ UNCHANGED feeVars

Return ==
    /\ lock' = "free"
    /\ adding' = None

\* Mutant: only the outpoints are looked up.
NoOutpointConflict(t) == \A o \in Ins[t] : mSpends[o] = None

NoConflict(t) ==
    /\ \A o \in Ins[t] : mSpends[o] = None
    /\ \A l \in Lvs[t] : mLeafSpends[l] = None

\* What GetMinFeeRateLocked may leave in mRollingMinFeeRate.
Decayed ==
    IF mBlockSinceFeeBump
    THEN {r \in 0..mRollingMinFeeRate : r = 0 \/ 2 * r >= Increment \/ r = mRollingMinFeeRate}
    ELSE {mRollingMinFeeRate}

\* ... and what it returns.
MinFeeRate(r) == IF mBlockSinceFeeBump /\ r # 0 /\ r < Increment THEN Increment ELSE r

WithinLimits(t) ==
    /\ CountAncestors(t) <= MaxAncestors
    /\ \A p \in Parents({t}) : CountDescendants(p) + 1 <= MaxDescendants

\* Turned down before the fee rate is looked at.
RefuseConflict ==
    /\ lock = "add"
    /\ adding \notin Relayable \/ adding \in mIndex \/ ~NoConflict(adding)
    /\ Return
    /\ UNCHANGED <<indexVars, feeVars>>

\* Turned down for its fee rate or its relatives; the rate has decayed meanwhile.
RefusePolicy(r) ==
    /\ lock = "add"
    /\ adding \in Relayable \ mIndex /\ NoConflict(adding)
    /\ r \in Decayed
    /\ FeePerK[adding] < MinFeeRate(r) \/ ~WithinLimits(adding)
    /\ mRollingMinFeeRate' = r
    /\ Return
    /\ UNCHANGED <<indexVars, mBlockSinceFeeBump, evicted>>

Insert(r) ==
    /\ lock = "add"
    /\ adding \in Relayable \ mIndex /\ NoConflict(adding)
    /\ r \in Decayed
    /\ FeePerK[adding] >= MinFeeRate(r)
    /\ WithinLimits(adding)
    /\ mRollingMinFeeRate' = r
    /\ mIndex' = mIndex \cup {adding}
    /\ mOrder' = mOrder \cup (mIndex \X {adding})
    /\ mSpends' = [o \in Outpoint |-> IF o \in Ins[adding] THEN adding ELSE mSpends[o]]
    /\ mLeafSpends' = [l \in Leaf |-> IF l \in Lvs[adding] THEN adding ELSE mLeafSpends[l]]
    /\ mTotalBytes' = mTotalBytes + Size[adding]
    /\ lock' = "trim"
    /\ UNCHANGED <<mBlockSinceFeeBump, evicted, adding>>

\* c is the first entry of mByFeeRate.
Cheapest(c) ==
    \A u \in mIndex :
        \/ FeePerK[c] < FeePerK[u]
        \/ FeePerK[c] = FeePerK[u] /\ (c = u \/ <<c, u>> \in mOrder)

\* Mutant: the minimum becomes the rate just evicted, without the step above it.
BumpToEvicted(rate) ==
    IF rate > mRollingMinFeeRate
    THEN mRollingMinFeeRate' = rate /\ mBlockSinceFeeBump' = FALSE
    ELSE UNCHANGED <<mRollingMinFeeRate, mBlockSinceFeeBump>>

Bump(rate) ==
    IF rate + Increment > mRollingMinFeeRate
    THEN mRollingMinFeeRate' = rate + Increment /\ mBlockSinceFeeBump' = FALSE
    ELSE UNCHANGED <<mRollingMinFeeRate, mBlockSinceFeeBump>>

\* Mutant: the entry goes, its descendants stay.
EvictAlone(c) == Remove({c})

Evict(c) == RemoveRecursive({c})

\* TrimLocked, one turn of its loop.
Trim(c) ==
    /\ lock = "trim"
    /\ mTotalBytes > MaxBytes
    /\ c \in mIndex /\ Cheapest(c)
    /\ Bump(FeePerK[c])
    /\ Evict(c)
    /\ evicted' = (IF mBlockSinceFeeBump THEN {} ELSE evicted) \cup {FeePerK[c]}
    /\ UNCHANGED <<lock, adding>>

\* Mutant: trimming stops a byte too early.
DoneEarly == mTotalBytes <= MaxBytes + 1 \/ mIndex = {}

Done == mTotalBytes <= MaxBytes \/ mIndex = {}

Added ==
    /\ lock = "trim"
    /\ Done
    /\ Return
    /\ UNCHANGED <<indexVars, feeVars>>

-----------------------------------------------------------------------------
(* The other public methods that change state *)

RemoveTransaction(t) ==
    /\ lock = "free"
    /\ Remove({t})
    /\ UNCHANGED <<feeVars, lock, adding>>

\* Mutant: pending payments that reveal a leaf of the block are kept.
SpendConflicts(B) == B \cup ({mSpends[o] : o \in UNION {Ins[t] : t \in B}} \ {None})

\* The entries a block confirms or contradicts.
Conflicts(B) ==
    B \cup (({mSpends[o] : o \in UNION {Ins[t] : t \in B}}
             \cup {mLeafSpends[l] : l \in UNION {Lvs[t] : t \in B}}) \ {None})

\* Removing one with its descendants never uncovers or hides another, so the loops
\* over the transactions of the block, their inputs and leaves are one removal.
RemoveForBlock(B) ==
    /\ lock = "free"
    /\ RemoveRecursive(Conflicts(B \ Coinbase))
    /\ mBlockSinceFeeBump' = TRUE
    /\ evicted' = {}
    /\ UNCHANGED <<mRollingMinFeeRate, lock, adding>>

\* GetMinFeeRate, which applies the decay that is due.
GetMinFeeRate(r) ==
    /\ lock = "free"
    /\ r \in Decayed
    /\ mRollingMinFeeRate' = r
    /\ UNCHANGED <<indexVars, mBlockSinceFeeBump, evicted, lock, adding>>

Clear ==
    /\ lock = "free"
    /\ mIndex' = {}
    /\ mOrder' = {}
    /\ mSpends' = [o \in Outpoint |-> None]
    /\ mLeafSpends' = [l \in Leaf |-> None]
    /\ mTotalBytes' = 0
    /\ UNCHANGED <<feeVars, lock, adding>>

\* AddTransaction once it runs.
Adding ==
    \/ RefuseConflict \/ Added
    \/ \E c \in mIndex : Trim(c)
    \/ \E r \in 0..mRollingMinFeeRate : RefusePolicy(r) \/ Insert(r)

PoolNext ==
    \/ Adding
    \/ \E t \in Tx, S \in SUBSET mIndex : AddTransaction(t, S)
    \/ \E t \in Tx : RemoveTransaction(t)
    \/ \E B \in SUBSET Tx : RemoveForBlock(B)
    \/ \E r \in 0..mRollingMinFeeRate : GetMinFeeRate(r)
    \/ Clear

PoolSpec == PoolInit /\ [][PoolNext]_poolVars

-----------------------------------------------------------------------------
(* Properties *)

\* Types: the order speaks of entries only, and the byte count never falls below zero.
PoolTypeOK ==
    /\ mIndex \subseteq Tx
    /\ mOrder \subseteq mIndex \X mIndex
    /\ mSpends \in [Outpoint -> Tx \cup {None}]
    /\ mLeafSpends \in [Leaf -> Tx \cup {None}]
    /\ mTotalBytes \in Nat
    /\ mRollingMinFeeRate \in Nat
    /\ mBlockSinceFeeBump \in BOOLEAN
    /\ lock \in {"free", "add", "trim"}
    /\ adding \in Tx \cup {None}
    /\ evicted \subseteq Nat

\* The two indexes are exact: an outpoint or a leaf is reserved by the entry that
\* uses it, and by no entry once that one has left by whatever path.
IndexesAgree ==
    /\ \A o \in Outpoint, t \in Tx : mSpends[o] = t <=> t \in mIndex /\ o \in Ins[t]
    /\ \A l \in Leaf, t \in Tx : mLeafSpends[l] = t <=> t \in mIndex /\ l \in Lvs[t]

\* "two pending transactions can never spend the same output" and "can never consume
\* the same (KPS, leafIndex)".
NoPendingConflict ==
    \A t, u \in mIndex : t # u => Ins[t] \cap Ins[u] = {} /\ Lvs[t] \cap Lvs[u] = {}

\* The byte count is exact after any sequence of removals, and no call returns with
\* the pool over its budget.
WithinBudget ==
    /\ mTotalBytes = Bytes(mIndex)
    /\ lock = "free" => mTotalBytes <= MaxBytes

\* "Re-entering after eviction always costs strictly more than what was evicted",
\* until a block lets the rate decay.
EvictedStayOut ==
    [][\A t \in mIndex' \ mIndex :
          ~mBlockSinceFeeBump => \A rate \in evicted : FeePerK[t] > rate]_poolVars

\* Neither an eviction nor a block leaves a child behind whose parent it took out.
ChildrenGoAlong ==
    [][(lock = "trim" \/ \E B \in SUBSET Tx : RemoveForBlock(B)) =>
          \A t \in mIndex \ mIndex', u \in mIndex' : Outs[t] \cap Ins[u] = {}]_poolVars

\* After RemoveForBlock nothing in the pool was confirmed by the block, spends what
\* the block spent or reveals a leaf the block revealed.
BlockIsCleared ==
    [][\A B \in SUBSET (Tx \ Coinbase) : RemoveForBlock(B) =>
          \A t \in mIndex', b \in B : /\ t # b
                                      /\ Ins[t] \cap Ins[b] = {}
                                      /\ Lvs[t] \cap Lvs[b] = {}]_poolVars
=============================================================================
