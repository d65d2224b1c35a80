------------------------------- MODULE UTXOSet -------------------------------
(***************************************************************************)
(* storage::UTXOSet: a write-back cache of coins over a LevelDB database,  *)
(* and three sets that do the same for spent noise leaves.                 *)
(*                                                                         *)
(* Every public method runs under mMutex, so each is one action; a flush   *)
(* is several because the process can die between its batches.  Nothing    *)
(* else runs between them: the mutex is held throughout (mode).            *)
(*                                                                         *)
(* UTXOEntry.isNew is written and never read; it is left out.              *)
(***************************************************************************)
EXTENDS Ledger, FiniteSets

CONSTANTS
    Absent,         \* no entry in mCache for this outpoint
    BatchEntries    \* dirty entries that fill a batch: MAX_BATCH_SIZE in entries

ASSUME BatchAssumption == BatchEntries \in Nat \ {0}

VARIABLES
    mode,               \* who holds mMutex for a flush, and whether the object exists
    mCache,             \* [Outpoint -> Entry or Absent]
    mSpentLeafCache,    \* leaves marked since the object was built
    mSpentLeafDirty,    \* of those, the ones not on disk yet
    mErasedLeafDirty,   \* leaves unmarked and not yet erased on disk
    mBestBlock,
    dbCoins, dbLeaves,  \* the coin and leaf records of mDB
    dbBest, dbHeads     \* DB_UTXO_BEST and DB_UTXO_HEADS

leafVars == <<mSpentLeafCache, mSpentLeafDirty, mErasedLeafDirty>>
memVars == <<mCache, mSpentLeafCache, mSpentLeafDirty, mErasedLeafDirty, mBestBlock>>
dbVars == <<dbCoins, dbLeaves, dbBest, dbHeads>>
vars == <<mode, mCache, mSpentLeafCache, mSpentLeafDirty, mErasedLeafDirty,
          mBestBlock, dbCoins, dbLeaves, dbBest, dbHeads>>

Entry == [coin : Coin, isSpent : BOOLEAN, isDirty : BOOLEAN]

ASSUME AbsentAssumption == Absent \notin Entry

EmptyCache == [o \in Outpoint |-> Absent]

Init ==
    /\ mode = "closed"
    /\ mCache = EmptyCache
    /\ mSpentLeafCache = {}
    /\ mSpentLeafDirty = {}
    /\ mErasedLeafDirty = {}
    /\ mBestBlock = Zero
    /\ dbCoins = [o \in Outpoint |-> NoCoin]
    /\ dbLeaves = {}
    /\ dbBest = NoKey
    /\ dbHeads = NoKey

-----------------------------------------------------------------------------
(* Reads: the cache answers first, the database otherwise. *)

GetCoin(o) ==
    IF mCache[o] # Absent
    THEN IF mCache[o].isSpent THEN NoCoin ELSE mCache[o].coin
    ELSE dbCoins[o]

IsNoiseLeafSpent(l) ==
    \/ l \in mSpentLeafCache
    \/ l \notin mErasedLeafDirty /\ l \in dbLeaves

\* The leaves GetHighestSpentNoiseLeaf considers when it looks for the highest.
ConsideredLeaves == (mSpentLeafCache \cup dbLeaves) \ mErasedLeafDirty

CoinView == [o \in Outpoint |-> GetCoin(o)]
LeafView == {l \in Leaf : IsNoiseLeafSpent(l)}

-----------------------------------------------------------------------------
(* Cache updates *)

UnspentEntry(c) == [coin |-> c, isSpent |-> FALSE, isDirty |-> TRUE]

\* Mutant: spending does not mark the entry dirty.
SpentEntryClean(c) == [coin |-> c, isSpent |-> TRUE, isDirty |-> FALSE]

SpentEntry(c) == [coin |-> c, isSpent |-> TRUE, isDirty |-> TRUE]

\* SpendCoinIfPresentLocked over a set of outpoints; a coin that is not there is skipped.
SpendIfPresent(S) ==
    [o \in Outpoint |-> IF o \in S /\ GetCoin(o) # NoCoin
                        THEN SpentEntry(GetCoin(o)) ELSE mCache[o]]

\* AddCoinOverwriteLocked: an entry of any kind is replaced.
Overwrite(cache, S, c) ==
    [o \in Outpoint |-> IF o \in S THEN UnspentEntry(c) ELSE cache[o]]

MarkNoiseLeafSpentLocked(S) ==
    /\ mSpentLeafCache' = mSpentLeafCache \cup S
    /\ mSpentLeafDirty' = mSpentLeafDirty \cup S
    /\ mErasedLeafDirty' = mErasedLeafDirty \ S

UnmarkNoiseLeafSpentLocked(S) ==
    /\ mSpentLeafCache' = mSpentLeafCache \ S
    /\ mSpentLeafDirty' = mSpentLeafDirty \ S
    /\ mErasedLeafDirty' = mErasedLeafDirty \cup S

-----------------------------------------------------------------------------
(* The public methods that change state *)

Construct ==
    /\ mode = "closed"
    /\ mode' = "open"
    /\ mBestBlock' = IF dbBest = NoKey THEN Zero ELSE dbBest
    /\ UNCHANGED <<mCache, leafVars, dbVars>>

ApplyTransaction(t, h) ==
    /\ mode = "open"
    /\ \A o \in Ins[t] : GetCoin(o) # NoCoin
    /\ t \notin Coinbase => /\ Lvs[t] # {}
                            /\ \A l \in Lvs[t] : ~IsNoiseLeafSpent(l)
    /\ mCache' = Overwrite(SpendIfPresent(Ins[t]), Outs[t],
                           NewCoin(h, t \in Coinbase))
    /\ MarkNoiseLeafSpentLocked(Lvs[t])
    /\ UNCHANGED <<mode, mBestBlock, dbVars>>

ApplyTransactionForReplay(t, h) ==
    /\ mode = "open"
    /\ mCache' = Overwrite(SpendIfPresent(Ins[t]), Outs[t],
                           NewCoin(h, t \in Coinbase))
    /\ MarkNoiseLeafSpentLocked(Lvs[t])
    /\ UNCHANGED <<mode, mBestBlock, dbVars>>

\* Mutant: the undone outputs leave the cache but stay in the database.
KeepOutputs(t) == dbCoins' = dbCoins

EraseOutputs(t) ==
    dbCoins' = [o \in Outpoint |-> IF o \in Outs[t] THEN NoCoin ELSE dbCoins[o]]

UndoTransaction(t, spentCoins) ==
    /\ mode = "open"
    /\ EraseOutputs(t)
    /\ mCache' = [o \in Outpoint |->
                    IF o \in Ins[t] THEN UnspentEntry(spentCoins[o])
                    ELSE IF o \in Outs[t] THEN Absent ELSE mCache[o]]
    /\ UnmarkNoiseLeafSpentLocked(Lvs[t])
    /\ UNCHANGED <<mode, mBestBlock, dbLeaves, dbBest, dbHeads>>

\* spentCoins.size() # tx.GetInputCount(): found out after the outputs are erased.
UndoTransactionMismatch(t) ==
    /\ mode = "open"
    /\ t \notin Coinbase
    /\ EraseOutputs(t)
    /\ mCache' = [o \in Outpoint |-> IF o \in Outs[t] THEN Absent ELSE mCache[o]]
    /\ UNCHANGED <<mode, leafVars, mBestBlock, dbLeaves, dbBest, dbHeads>>

AddCoin(o, c) ==
    /\ mode = "open"
    /\ GetCoin(o) = NoCoin
    /\ mCache' = Overwrite(mCache, {o}, c)
    /\ UNCHANGED <<mode, leafVars, mBestBlock, dbVars>>

SpendCoin(o) ==
    /\ mode = "open"
    /\ GetCoin(o) # NoCoin
    /\ mCache' = SpendIfPresent({o})
    /\ UNCHANGED <<mode, leafVars, mBestBlock, dbVars>>

MarkNoiseLeafSpent(l) ==
    /\ mode = "open"
    /\ MarkNoiseLeafSpentLocked({l})
    /\ UNCHANGED <<mode, mCache, mBestBlock, dbVars>>

UnmarkNoiseLeafSpent(l) ==
    /\ mode = "open"
    /\ UnmarkNoiseLeafSpentLocked({l})
    /\ UNCHANGED <<mode, mCache, mBestBlock, dbVars>>

SetBestBlock(b) ==
    /\ mode = "open"
    /\ mBestBlock' = b
    /\ UNCHANGED <<mode, mCache, leafVars, dbVars>>

Forget ==
    /\ mCache' = EmptyCache
    /\ mSpentLeafCache' = {}
    /\ mSpentLeafDirty' = {}
    /\ mErasedLeafDirty' = {}
    /\ mBestBlock' = Zero

Clear ==
    /\ mode = "open"
    /\ Forget
    /\ UNCHANGED <<mode, dbVars>>

-----------------------------------------------------------------------------
(* FlushCache, one action per batch *)

Dirty == {o \in Outpoint : mCache[o] # Absent /\ mCache[o].isDirty}

OldTip ==
    IF dbBest # NoKey THEN dbBest
    ELSE IF dbHeads # NoKey THEN dbHeads[2] ELSE Zero

\* Flush() and Sync() return to the caller ("flushing"); the destructor's does not.
FlushBegin(m) ==
    /\ mode = "open"
    /\ mode' = m
    /\ dbBest' = NoKey
    /\ dbHeads' = <<mBestBlock, OldTip>>
    /\ UNCHANGED <<memVars, dbCoins, dbLeaves>>

Written(S) == [o \in Outpoint |-> IF o \in S THEN GetCoin(o) ELSE dbCoins[o]]

Cleaned(S) == [o \in Outpoint |-> IF o \in S THEN [mCache[o] EXCEPT !.isDirty = FALSE]
                                  ELSE mCache[o]]

\* The map is unordered: a full batch holds any BatchEntries of the dirty entries.
FlushBatch(S) ==
    /\ mode \in {"flushing", "closing"}
    /\ S \subseteq Dirty
    /\ Cardinality(S) = BatchEntries
    /\ dbCoins' = Written(S)
    /\ mCache' = Cleaned(S)
    /\ UNCHANGED <<mode, leafVars, mBestBlock, dbLeaves, dbBest, dbHeads>>

\* Mutant: the erased leaves are left on disk.
FlushKeepsErased ==
    /\ mode \in {"flushing", "closing"}
    /\ Cardinality(Dirty) < BatchEntries
    /\ dbCoins' = Written(Dirty)
    /\ dbLeaves' = dbLeaves \cup mSpentLeafDirty
    /\ dbHeads' = NoKey
    /\ dbBest' = mBestBlock

\* The last batch carries what is left of the coins, the leaves and the best block.
FlushWrites ==
    /\ mode \in {"flushing", "closing"}
    /\ Cardinality(Dirty) < BatchEntries
    /\ dbCoins' = Written(Dirty)
    /\ dbLeaves' = (dbLeaves \cup mSpentLeafDirty) \ mErasedLeafDirty
    /\ dbHeads' = NoKey
    /\ dbBest' = mBestBlock

FlushCommit ==
    /\ FlushWrites
    /\ mode = "flushing"
    /\ mode' = "open"
    /\ mCache' = [o \in Outpoint |->
                    IF mCache[o] # Absent /\ ~mCache[o].isSpent
                    THEN [mCache[o] EXCEPT !.isDirty = FALSE] ELSE Absent]
    /\ mSpentLeafDirty' = {}
    /\ mErasedLeafDirty' = {}
    /\ UNCHANGED <<mSpentLeafCache, mBestBlock>>

\* The destructor: the same commit, after which the object is gone.
Destroy ==
    /\ FlushWrites
    /\ mode = "closing"
    /\ mode' = "closed"
    /\ Forget

\* The process dies: memory is lost, every batch already written stays.
Crash ==
    /\ mode # "closed"
    /\ mode' = "closed"
    /\ Forget
    /\ UNCHANGED dbVars

\* A batch that cannot be written throws DBError out of FlushCache.  The entries
\* put into it are already marked clean; the lock is released by the unwinding and
\* the caller's handler (ConnManager::HandleBlock) lets the node run on.
FlushThrows(S) ==
    /\ mode \in {"flushing", "closing"}
    /\ S \subseteq Dirty
    /\ \/ Cardinality(S) = BatchEntries
       \/ S = Dirty /\ Cardinality(S) < BatchEntries
    /\ \/ mode = "flushing" /\ mode' = "open" /\ mCache' = Cleaned(S)
          /\ UNCHANGED <<leafVars, mBestBlock>>
       \/ mode = "closing" /\ mode' = "closed" /\ Forget
    /\ UNCHANGED dbVars

Next ==
    \/ Construct
    \/ \E t \in Tx, h \in Heights : ApplyTransaction(t, h)
    \/ \E t \in Tx, h \in Heights : ApplyTransactionForReplay(t, h)
    \/ \E t \in Tx : \E spentCoins \in [Ins[t] -> Coin] : UndoTransaction(t, spentCoins)
    \/ \E t \in Tx : UndoTransactionMismatch(t)
    \/ \E o \in Outpoint, c \in Coin : AddCoin(o, c)
    \/ \E o \in Outpoint : SpendCoin(o)
    \/ \E l \in Leaf : MarkNoiseLeafSpent(l)
    \/ \E l \in Leaf : UnmarkNoiseLeafSpent(l)
    \/ \E b \in Hash \cup {Zero} : SetBestBlock(b)
    \/ Clear
    \/ \E m \in {"flushing", "closing"} : FlushBegin(m)
    \/ \E S \in SUBSET Outpoint : FlushBatch(S)
    \/ FlushCommit
    \/ Destroy
    \/ Crash

Spec == Init /\ [][Next]_vars

\* The same set on a disk whose writes can fail.
FailNext == Next \/ \E S \in SUBSET Outpoint : FlushThrows(S)

FailSpec == Init /\ [][FailNext]_vars

-----------------------------------------------------------------------------
(* Properties *)

\* Every variable has its type.
TypeOK ==
    /\ mode \in {"closed", "open", "flushing", "closing"}
    /\ mCache \in [Outpoint -> Entry \cup {Absent}]
    /\ mSpentLeafCache \subseteq Leaf
    /\ mSpentLeafDirty \subseteq Leaf
    /\ mErasedLeafDirty \subseteq Leaf
    /\ mBestBlock \in Hash \cup {Zero}
    /\ dbCoins \in [Outpoint -> Coin \cup {NoCoin}]
    /\ dbLeaves \subseteq Leaf
    /\ dbBest \in Hash \cup {Zero, NoKey}
    /\ dbHeads \in ((Hash \cup {Zero}) \X (Hash \cup {Zero})) \cup {NoKey}

\* A cached entry that is not dirty says what the database says: FlushCache skips
\* it, and nothing is lost when it does.
CleanEntriesAreOnDisk ==
    \A o \in Outpoint :
        mCache[o] # Absent /\ ~mCache[o].isDirty
            => dbCoins[o] = IF mCache[o].isSpent THEN NoCoin ELSE mCache[o].coin

\* Outside a flush no spent entry is clean, so none can outlive its flush and hide
\* a coin that is written to the database later.
NoSpentCleanEntry ==
    mode = "open" => \A o \in Outpoint :
        mCache[o] # Absent /\ mCache[o].isSpent => mCache[o].isDirty

\* The leaf sets never contradict each other, and a cached leaf that is not waiting
\* to be written is already on disk.
LeafSetsAgree ==
    /\ mSpentLeafDirty \subseteq mSpentLeafCache
    /\ mSpentLeafCache \cap mErasedLeafDirty = {}
    /\ mSpentLeafCache \ mSpentLeafDirty \subseteq dbLeaves

\* Nothing survives in memory while the object does not exist.
ClosedIsEmpty ==
    mode = "closed" => /\ mCache = EmptyCache
                       /\ mSpentLeafCache = {}
                       /\ mErasedLeafDirty = {}

\* Together: the cache and the database tell one story at every step.
CacheCoherent ==
    CleanEntriesAreOnDisk /\ NoSpentCleanEntry /\ LeafSetsAgree /\ ClosedIsEmpty

\* GetHighestSpentNoiseLeaf, from which the wallet takes its next leaf, considers
\* exactly the leaves IsNoiseLeafSpent calls spent, although it reads the sets and
\* the database in another way.
LeafReadsAgree == ConsideredLeaves = LeafView

\* When a flush has written the best block the disk holds everything a reader saw:
\* the block recorded on disk is never ahead of, or behind, the coins beside it.
CommitIsComplete ==
    [][(mode = "flushing" \/ mode = "closing") /\ dbBest' # NoKey
         => dbCoins' = CoinView /\ dbLeaves' = LeafView]_vars

-----------------------------------------------------------------------------
(* Refinement: with the cache read through, this is a CoinStore. *)

Store == INSTANCE CoinStore WITH
    coins <- CoinView, leaves <- LeafView, best <- mBestBlock,
    dCoins <- dbCoins, dLeaves <- dbLeaves, dBest <- dbBest, dHeads <- dbHeads

\* Every behaviour of the cached set is one of the store it stands for.
RefinesCoinStore == Store!StoreSpec
=============================================================================
