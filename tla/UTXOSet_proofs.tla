--------------------------- MODULE UTXOSet_proofs ---------------------------
(***************************************************************************)
(* Proofs about UTXOSet for every set of transactions, outpoints, leaves   *)
(* and blocks: its type invariant, the coherence of the cache with the     *)
(* database, that a commit is complete, and that the cached set implements *)
(* CoinStore.                                                              *)
(***************************************************************************)
EXTENDS UTXOSet, TLAPS

\* The types are preserved by every method.
THEOREM TypeCorrect == Spec => []TypeOK
<1> USE LedgerAssumption, AbsenceAssumption, AbsentAssumption DEF TypeOK
<1>1. Init => TypeOK
  BY DEF Init, EmptyCache
<1>2. TypeOK /\ [Next]_vars => TypeOK'
  <2> SUFFICES ASSUME TypeOK, [Next]_vars PROVE TypeOK'
    OBVIOUS
  <2>0. ASSUME NEW o \in Outpoint PROVE GetCoin(o) \in Coin \cup {NoCoin}
    BY DEF GetCoin, Entry
  <2>1. CASE Construct
    BY <2>1 DEF Construct, leafVars, dbVars
  <2>2. ASSUME NEW t \in Tx, NEW h \in Heights, ApplyTransaction(t, h) PROVE TypeOK'
    <3>1. NewCoin(h, t \in Coinbase) \in Coin
      BY DEF NewCoin, Coin
    <3>2. mCache' \in [Outpoint -> Entry \cup {Absent}]
      BY <2>0, <2>2, <3>1 DEF ApplyTransaction, Overwrite, SpendIfPresent,
         UnspentEntry, SpentEntry, Entry
    <3> QED
      BY <2>2, <3>2 DEF ApplyTransaction, MarkNoiseLeafSpentLocked, dbVars
  <2>3. ASSUME NEW t \in Tx, NEW h \in Heights, ApplyTransactionForReplay(t, h)
        PROVE TypeOK'
    <3>1. NewCoin(h, t \in Coinbase) \in Coin
      BY DEF NewCoin, Coin
    <3>2. mCache' \in [Outpoint -> Entry \cup {Absent}]
      BY <2>0, <2>3, <3>1 DEF ApplyTransactionForReplay, Overwrite,
         SpendIfPresent, UnspentEntry, SpentEntry, Entry
    <3> QED
      BY <2>3, <3>2 DEF ApplyTransactionForReplay, MarkNoiseLeafSpentLocked, dbVars
  <2>4. ASSUME NEW t \in Tx, NEW spentCoins \in [Ins[t] -> Coin],
               UndoTransaction(t, spentCoins)
        PROVE TypeOK'
    <3>1. mCache' \in [Outpoint -> Entry \cup {Absent}]
      BY <2>4 DEF UndoTransaction, UnspentEntry, Entry
    <3>2. dbCoins' \in [Outpoint -> Coin \cup {NoCoin}]
      BY <2>4 DEF UndoTransaction, EraseOutputs
    <3> QED
      BY <2>4, <3>1, <3>2 DEF UndoTransaction, UnmarkNoiseLeafSpentLocked
  <2>5. ASSUME NEW t \in Tx, UndoTransactionMismatch(t) PROVE TypeOK'
    BY <2>5 DEF UndoTransactionMismatch, EraseOutputs, leafVars
  <2>6. ASSUME NEW o \in Outpoint, NEW c \in Coin, AddCoin(o, c) PROVE TypeOK'
    <3>1. mCache' \in [Outpoint -> Entry \cup {Absent}]
      BY <2>6 DEF AddCoin, Overwrite, UnspentEntry, Entry
    <3> QED
      BY <2>6, <3>1 DEF AddCoin, leafVars, dbVars
  <2>7. ASSUME NEW o \in Outpoint, SpendCoin(o) PROVE TypeOK'
    <3>1. mCache' \in [Outpoint -> Entry \cup {Absent}]
      BY <2>0, <2>7 DEF SpendCoin, SpendIfPresent, SpentEntry, Entry
    <3> QED
      BY <2>7, <3>1 DEF SpendCoin, leafVars, dbVars
  <2>8. ASSUME NEW l \in Leaf, MarkNoiseLeafSpent(l) PROVE TypeOK'
    BY <2>8 DEF MarkNoiseLeafSpent, MarkNoiseLeafSpentLocked, dbVars
  <2>9. ASSUME NEW l \in Leaf, UnmarkNoiseLeafSpent(l) PROVE TypeOK'
    BY <2>9 DEF UnmarkNoiseLeafSpent, UnmarkNoiseLeafSpentLocked, dbVars
  <2>10. ASSUME NEW b \in Hash \cup {Zero}, SetBestBlock(b) PROVE TypeOK'
    BY <2>10 DEF SetBestBlock, leafVars, dbVars
  <2>11. CASE Clear
    BY <2>11 DEF Clear, Forget, EmptyCache, dbVars
  <2>12. ASSUME NEW m \in {"flushing", "closing"}, FlushBegin(m) PROVE TypeOK'
    <3>1. OldTip \in Hash \cup {Zero}
      BY DEF OldTip
    <3> QED
      BY <2>12, <3>1 DEF FlushBegin, memVars
  <2>13. ASSUME NEW S \in SUBSET Outpoint, FlushBatch(S) PROVE TypeOK'
    <3>1. dbCoins' \in [Outpoint -> Coin \cup {NoCoin}]
      BY <2>0, <2>13 DEF FlushBatch, Written
    <3>2. mCache' \in [Outpoint -> Entry \cup {Absent}]
      <4>1. \A e \in Entry : [e EXCEPT !.isDirty = FALSE] \in Entry
        BY DEF Entry
      <4>2. \A o \in S : mCache[o] \in Entry
        BY <2>13 DEF FlushBatch, Dirty
      <4> QED
        BY <2>13, <4>1, <4>2 DEF FlushBatch, Cleaned
    <3> QED
      BY <2>13, <3>1, <3>2 DEF FlushBatch, leafVars
  <2>14. ASSUME FlushWrites
         PROVE  /\ dbCoins' \in [Outpoint -> Coin \cup {NoCoin}]
                /\ dbLeaves' \subseteq Leaf
                /\ dbBest' \in Hash \cup {Zero, NoKey}
                /\ dbHeads' \in ((Hash \cup {Zero}) \X (Hash \cup {Zero})) \cup {NoKey}
    BY <2>0, <2>14 DEF FlushWrites, Written
  <2>15. CASE FlushCommit
    <3>1. mCache' \in [Outpoint -> Entry \cup {Absent}]
      BY <2>15 DEF FlushCommit, Entry
    <3> QED
      BY <2>14, <2>15, <3>1 DEF FlushCommit
  <2>16. CASE Destroy
    BY <2>14, <2>16 DEF Destroy, Forget, EmptyCache
  <2>17. CASE Crash
    BY <2>17 DEF Crash, Forget, EmptyCache, dbVars
  <2>18. CASE UNCHANGED vars
    BY <2>18 DEF vars
  <2> QED
    BY <2>1, <2>2, <2>3, <2>4, <2>5, <2>6, <2>7, <2>8, <2>9, <2>10, <2>11, <2>12,
       <2>13, <2>15, <2>16, <2>17, <2>18 DEF Next
<1> QED
  BY <1>1, <1>2, PTL DEF Spec

-----------------------------------------------------------------------------
(* Coherence.  CleanEntriesAreOnDisk, NoSpentCleanEntry and LeafSetsAgree     *)
(* are inductive together with the types: an entry becomes clean only in the  *)
(* batch that writes it, and a leaf leaves mSpentLeafDirty only in the batch  *)
(* that writes it or when it is unmarked.                                     *)

\* Applying a transaction touches only entries it makes dirty.
LEMMA AppliedEntries ==
    ASSUME NEW t \in Tx, NEW c \in Coin, NEW o \in Outpoint, TypeOK,
           mCache' = Overwrite(SpendIfPresent(Ins[t]), Outs[t], c),
           mCache'[o] # mCache[o]
    PROVE  mCache'[o] # Absent /\ mCache'[o].isDirty
<1>1. UnspentEntry(c) # Absent /\ UnspentEntry(c).isDirty
  <2>1. UnspentEntry(c) \in Entry /\ UnspentEntry(c).isDirty = TRUE
    BY DEF UnspentEntry, Entry
  <2> QED
    BY <2>1, AbsentAssumption
<1>2. GetCoin(o) # NoCoin => SpentEntry(GetCoin(o)) # Absent /\ SpentEntry(GetCoin(o)).isDirty
  <2>1. GetCoin(o) \in Coin \cup {NoCoin}
    BY DEF GetCoin, TypeOK, Entry
  <2>2. GetCoin(o) # NoCoin => /\ SpentEntry(GetCoin(o)) \in Entry
                               /\ SpentEntry(GetCoin(o)).isDirty = TRUE
    BY <2>1 DEF SpentEntry, Entry
  <2> QED
    BY <2>2, AbsentAssumption
<1>3. \/ mCache'[o] = UnspentEntry(c)
      \/ mCache'[o] = SpentEntry(GetCoin(o)) /\ GetCoin(o) # NoCoin
      \/ mCache'[o] = mCache[o]
  BY DEF Overwrite, SpendIfPresent
<1> QED
  BY <1>1, <1>2, <1>3

\* The cache never contradicts the database: every method and every batch of a
\* flush keeps clean entries equal to what is on disk.
THEOREM Coherence == Spec => []CacheCoherent
<1> USE LedgerAssumption, AbsenceAssumption, AbsentAssumption
<1>1. Init => CacheCoherent
  BY DEF Init, EmptyCache, CacheCoherent, CleanEntriesAreOnDisk, NoSpentCleanEntry,
         LeafSetsAgree, ClosedIsEmpty
<1>2. TypeOK /\ TypeOK' /\ CacheCoherent /\ [Next]_vars => CacheCoherent'
  <2> SUFFICES ASSUME TypeOK, TypeOK', CacheCoherent, [Next]_vars
               PROVE  CacheCoherent'
    OBVIOUS
  <2> USE DEF CacheCoherent, CleanEntriesAreOnDisk, NoSpentCleanEntry, LeafSetsAgree,
              ClosedIsEmpty
  <2>1. CASE Construct
    BY <2>1 DEF Construct, leafVars, dbVars, EmptyCache
  <2>2. ASSUME NEW t \in Tx, NEW h \in Heights,
               ApplyTransaction(t, h) \/ ApplyTransactionForReplay(t, h)
        PROVE  CacheCoherent'
    <3>1. NewCoin(h, t \in Coinbase) \in Coin
      BY DEF NewCoin, Coin
    <3>2. mCache' = Overwrite(SpendIfPresent(Ins[t]), Outs[t], NewCoin(h, t \in Coinbase))
      BY <2>2 DEF ApplyTransaction, ApplyTransactionForReplay
    <3>3. \A o \in Outpoint : mCache'[o] # mCache[o]
                                => mCache'[o] # Absent /\ mCache'[o].isDirty
      BY <3>1, <3>2, AppliedEntries
    <3>4. mode = "open" /\ mode' = "open" /\ dbCoins' = dbCoins /\ dbLeaves' = dbLeaves
      BY <2>2 DEF ApplyTransaction, ApplyTransactionForReplay, dbVars
    <3>5. CleanEntriesAreOnDisk' /\ NoSpentCleanEntry'
      BY <3>3, <3>4
    <3>6. LeafSetsAgree'
      BY <2>2, <3>4 DEF ApplyTransaction, ApplyTransactionForReplay,
         MarkNoiseLeafSpentLocked
    <3> QED
      BY <3>4, <3>5, <3>6
  <2>3. ASSUME NEW t \in Tx, NEW spentCoins \in [Ins[t] -> Coin],
               UndoTransaction(t, spentCoins)
        PROVE  CacheCoherent'
    <3>1. CleanEntriesAreOnDisk' /\ NoSpentCleanEntry'
      BY <2>3 DEF UndoTransaction, EraseOutputs, UnspentEntry, TypeOK
    <3>2. LeafSetsAgree'
      BY <2>3 DEF UndoTransaction, UnmarkNoiseLeafSpentLocked
    <3> QED
      BY <2>3, <3>1, <3>2 DEF UndoTransaction
  <2>4. ASSUME NEW t \in Tx, UndoTransactionMismatch(t) PROVE CacheCoherent'
    <3>1. CleanEntriesAreOnDisk' /\ NoSpentCleanEntry'
      BY <2>4 DEF UndoTransactionMismatch, EraseOutputs, TypeOK
    <3>2. LeafSetsAgree'
      BY <2>4 DEF UndoTransactionMismatch, leafVars
    <3> QED
      BY <2>4, <3>1, <3>2 DEF UndoTransactionMismatch
  <2>5. ASSUME NEW o \in Outpoint, NEW c \in Coin, AddCoin(o, c) PROVE CacheCoherent'
    BY <2>5 DEF AddCoin, Overwrite, UnspentEntry, leafVars, dbVars, TypeOK
  <2>6. ASSUME NEW o \in Outpoint, SpendCoin(o) PROVE CacheCoherent'
    BY <2>6 DEF SpendCoin, SpendIfPresent, SpentEntry, leafVars, dbVars, TypeOK
  <2>7. ASSUME NEW l \in Leaf, MarkNoiseLeafSpent(l) PROVE CacheCoherent'
    BY <2>7 DEF MarkNoiseLeafSpent, MarkNoiseLeafSpentLocked, dbVars
  <2>8. ASSUME NEW l \in Leaf, UnmarkNoiseLeafSpent(l) PROVE CacheCoherent'
    BY <2>8 DEF UnmarkNoiseLeafSpent, UnmarkNoiseLeafSpentLocked, dbVars
  <2>9. ASSUME NEW b \in Hash \cup {Zero}, SetBestBlock(b) PROVE CacheCoherent'
    BY <2>9 DEF SetBestBlock, leafVars, dbVars
  <2>10. ASSUME Forget PROVE CacheCoherent'
    BY <2>10 DEF Forget, EmptyCache
  <2>11. ASSUME NEW m \in {"flushing", "closing"}, FlushBegin(m) PROVE CacheCoherent'
    BY <2>11 DEF FlushBegin, memVars
  <2>12. ASSUME NEW S \in SUBSET Outpoint, FlushBatch(S) PROVE CacheCoherent'
    <3>1. LeafSetsAgree' /\ NoSpentCleanEntry'
      BY <2>12 DEF FlushBatch, leafVars
    <3>2. ASSUME NEW o \in Outpoint, mCache'[o] # Absent, ~mCache'[o].isDirty
          PROVE  dbCoins'[o] = IF mCache'[o].isSpent THEN NoCoin ELSE mCache'[o].coin
      <4>1. CASE o \in S
        <5>1. mCache[o] # Absent /\ mCache[o] \in Entry
          BY <2>12, <4>1 DEF FlushBatch, Dirty, TypeOK
        <5>2. mCache'[o] = [mCache[o] EXCEPT !.isDirty = FALSE]
          BY <2>12, <4>1 DEF FlushBatch, Cleaned
        <5>3. dbCoins'[o] = GetCoin(o)
          BY <2>12, <4>1 DEF FlushBatch, Written
        <5> QED
          BY <5>1, <5>2, <5>3 DEF GetCoin, Entry
      <4>2. CASE o \notin S
        BY <2>12, <3>2, <4>2 DEF FlushBatch, Cleaned, Written
      <4> QED
        BY <4>1, <4>2
    <3> QED
      BY <2>12, <3>1, <3>2 DEF FlushBatch
  <2>13. CASE FlushCommit
    <3>1. LeafSetsAgree'
      BY <2>13 DEF FlushCommit, FlushWrites
    <3>2. ASSUME NEW o \in Outpoint, mCache'[o] # Absent
          PROVE  ~mCache'[o].isSpent /\ dbCoins'[o] = mCache'[o].coin
      <4>1. mCache[o] # Absent /\ mCache[o] \in Entry /\ ~mCache[o].isSpent
        BY <2>13, <3>2 DEF FlushCommit, TypeOK
      <4>2. mCache'[o] = [mCache[o] EXCEPT !.isDirty = FALSE]
        BY <2>13, <4>1 DEF FlushCommit
      <4>3. dbCoins'[o] = mCache[o].coin
        BY <2>13, <4>1 DEF FlushCommit, FlushWrites, Written, Dirty, GetCoin
      <4> QED
        BY <4>1, <4>2, <4>3 DEF Entry
    <3> QED
      BY <2>13, <3>1, <3>2 DEF FlushCommit
  <2>14. CASE UNCHANGED vars
    BY <2>14 DEF vars
  <2> QED
    BY <2>1, <2>2, <2>3, <2>4, <2>5, <2>6, <2>7, <2>8, <2>9, <2>10, <2>11, <2>12,
       <2>13, <2>14 DEF Next, Clear, Destroy, Crash
<1> QED
  BY <1>1, <1>2, TypeCorrect, PTL DEF Spec

-----------------------------------------------------------------------------
(* What a commit leaves behind, and the refinement. *)

\* While a flush runs the disk says so: no best block, a marker instead.
MarkerDuringFlush ==
    mode \in {"flushing", "closing"} => dbBest = NoKey /\ dbHeads # NoKey

\* Nothing but the first and the last batch of a flush touches the two records.
LEMMA MarkerInvariant == Spec => []MarkerDuringFlush
<1> USE AbsenceAssumption DEF MarkerDuringFlush
<1>1. Init => MarkerDuringFlush
  BY DEF Init
<1>2. TypeOK /\ MarkerDuringFlush /\ [Next]_vars => MarkerDuringFlush'
  <2> SUFFICES ASSUME TypeOK, MarkerDuringFlush, [Next]_vars PROVE MarkerDuringFlush'
    OBVIOUS
  <2>1. ASSUME NEW m \in {"flushing", "closing"}, FlushBegin(m) PROVE MarkerDuringFlush'
    <3>1. mBestBlock \in Hash \cup {Zero} /\ OldTip \in Hash \cup {Zero}
      BY DEF OldTip, TypeOK
    <3> QED
      BY <2>1, <3>1 DEF FlushBegin
  <2>2. ASSUME NEW S \in SUBSET Outpoint, FlushBatch(S) PROVE MarkerDuringFlush'
    BY <2>2 DEF FlushBatch
  <2>3. CASE FlushCommit \/ Destroy \/ Crash \/ Construct \/ Clear
    BY <2>3 DEF FlushCommit, Destroy, Crash, Construct, Clear, dbVars
  <2>4. ASSUME NEW t \in Tx, NEW h \in Heights,
               ApplyTransaction(t, h) \/ ApplyTransactionForReplay(t, h)
        PROVE  MarkerDuringFlush'
    BY <2>4 DEF ApplyTransaction, ApplyTransactionForReplay
  <2>5. ASSUME NEW t \in Tx, NEW spentCoins \in [Ins[t] -> Coin],
               UndoTransaction(t, spentCoins)
        PROVE  MarkerDuringFlush'
    BY <2>5 DEF UndoTransaction
  <2>6. ASSUME NEW t \in Tx, UndoTransactionMismatch(t) PROVE MarkerDuringFlush'
    BY <2>6 DEF UndoTransactionMismatch
  <2>7. ASSUME NEW o \in Outpoint, SpendCoin(o) \/ \E c \in Coin : AddCoin(o, c)
        PROVE  MarkerDuringFlush'
    BY <2>7 DEF SpendCoin, AddCoin
  <2>8. ASSUME NEW l \in Leaf, MarkNoiseLeafSpent(l) \/ UnmarkNoiseLeafSpent(l)
        PROVE  MarkerDuringFlush'
    BY <2>8 DEF MarkNoiseLeafSpent, UnmarkNoiseLeafSpent
  <2>9. ASSUME NEW b \in Hash \cup {Zero}, SetBestBlock(b) PROVE MarkerDuringFlush'
    BY <2>9 DEF SetBestBlock
  <2>10. CASE UNCHANGED vars
    BY <2>10 DEF vars
  <2> QED
    BY <2>1, <2>2, <2>3, <2>4, <2>5, <2>6, <2>7, <2>8, <2>9, <2>10 DEF Next
<1> QED
  BY <1>1, <1>2, TypeCorrect, PTL DEF Spec

\* GetHighestSpentNoiseLeaf and IsNoiseLeafSpent speak of the same leaves, because no
\* leaf is cached as spent and queued for erasure at once.
THEOREM OneLeafView == Spec => []LeafReadsAgree
<1>1. TypeOK /\ CacheCoherent => LeafReadsAgree
  BY DEF LeafReadsAgree, ConsideredLeaves, LeafView, IsNoiseLeafSpent, TypeOK,
         CacheCoherent, LeafSetsAgree
<1> QED
  BY <1>1, TypeCorrect, Coherence, PTL

\* The last batch makes the disk equal to what readers see.
LEMMA CommittedDisk ==
    ASSUME TypeOK, CacheCoherent
    PROVE  /\ Written(Dirty) = CoinView
           /\ (dbLeaves \cup mSpentLeafDirty) \ mErasedLeafDirty = LeafView
<1>1. ASSUME NEW o \in Outpoint PROVE Written(Dirty)[o] = CoinView[o]
  BY DEF Written, Dirty, CoinView, GetCoin, CacheCoherent, CleanEntriesAreOnDisk
<1>2. Written(Dirty) = CoinView
  BY <1>1 DEF Written, CoinView
<1>3. (dbLeaves \cup mSpentLeafDirty) \ mErasedLeafDirty = LeafView
  BY DEF LeafView, IsNoiseLeafSpent, TypeOK, CacheCoherent, LeafSetsAgree
<1> QED
  BY <1>2, <1>3

\* A flush that records its block has written every coin and every leaf.
THEOREM CommitComplete == Spec => CommitIsComplete
<1>1. TypeOK /\ CacheCoherent /\ MarkerDuringFlush /\ [Next]_vars
        => [(mode = "flushing" \/ mode = "closing") /\ dbBest' # NoKey
              => dbCoins' = CoinView /\ dbLeaves' = LeafView]_vars
  <2> SUFFICES ASSUME TypeOK, CacheCoherent, MarkerDuringFlush, Next,
                      mode = "flushing" \/ mode = "closing", dbBest' # NoKey
               PROVE  dbCoins' = CoinView /\ dbLeaves' = LeafView
    OBVIOUS
  <2>1. dbBest = NoKey
    BY DEF MarkerDuringFlush
  <2>2. FlushCommit \/ Destroy
    BY <2>1 DEF Next, Construct, ApplyTransaction, ApplyTransactionForReplay,
       UndoTransaction, UndoTransactionMismatch, AddCoin, SpendCoin,
       MarkNoiseLeafSpent, UnmarkNoiseLeafSpent, SetBestBlock, Clear, FlushBegin,
       FlushBatch, Crash, dbVars
  <2>3. FlushWrites
    BY <2>2 DEF FlushCommit, Destroy
  <2> QED
    BY <2>3, CommittedDisk DEF FlushWrites
<1> QED
  BY <1>1, TypeCorrect, Coherence, MarkerInvariant, PTL DEF Spec, CommitIsComplete

\* What the two kinds of fresh cache entry look like.
LEMMA FreshEntries ==
    ASSUME NEW c \in Coin
    PROVE  /\ UnspentEntry(c) # Absent
           /\ UnspentEntry(c).isSpent = FALSE
           /\ UnspentEntry(c).coin = c
           /\ SpentEntry(c) # Absent
           /\ SpentEntry(c).isSpent = TRUE
<1>1. UnspentEntry(c) \in Entry /\ SpentEntry(c) \in Entry
  BY DEF UnspentEntry, SpentEntry, Entry
<1>2. /\ UnspentEntry(c).isSpent = FALSE
      /\ UnspentEntry(c).coin = c
      /\ SpentEntry(c).isSpent = TRUE
  BY DEF UnspentEntry, SpentEntry
<1> QED
  BY <1>1, <1>2, AbsentAssumption

\* How a reader's view changes when a transaction is applied.
LEMMA AppliedView ==
    ASSUME NEW t \in Tx, NEW c \in Coin, TypeOK, dbCoins' = dbCoins,
           mCache' = Overwrite(SpendIfPresent(Ins[t]), Outs[t], c)
    PROVE  CoinView' = [o \in Outpoint |->
                          IF o \in Outs[t] THEN c
                          ELSE IF o \in Ins[t] THEN NoCoin ELSE CoinView[o]]
<1>1. ASSUME NEW o \in Outpoint
      PROVE  GetCoin(o)' = IF o \in Outs[t] THEN c
                           ELSE IF o \in Ins[t] THEN NoCoin ELSE GetCoin(o)
  <2>1. CASE o \in Outs[t]
    <3>1. mCache'[o] = UnspentEntry(c)
      BY <2>1 DEF Overwrite
    <3> QED
      BY <2>1, <3>1, FreshEntries DEF GetCoin
  <2>2. CASE o \notin Outs[t] /\ o \in Ins[t] /\ GetCoin(o) # NoCoin
    <3>1. mCache'[o] = SpentEntry(GetCoin(o))
      BY <2>2 DEF Overwrite, SpendIfPresent
    <3>2. GetCoin(o) \in Coin
      BY <2>2 DEF Entry, GetCoin, TypeOK
    <3>3. mCache'[o] # Absent /\ mCache'[o].isSpent = TRUE
      BY <3>1, <3>2, FreshEntries
    <3> QED
      BY <2>2, <3>3 DEF GetCoin
  <2>3. CASE o \notin Outs[t] /\ ~(o \in Ins[t] /\ GetCoin(o) # NoCoin)
    <3>1. mCache'[o] = mCache[o]
      BY <2>3 DEF Overwrite, SpendIfPresent
    <3> QED
      BY <2>3, <3>1 DEF GetCoin
  <2> QED
    BY <2>1, <2>2, <2>3
<1> QED
  BY <1>1 DEF CoinView

\* How the set of spent leaves changes when leaves are marked or unmarked.
LEMMA LeafViewChange ==
    ASSUME NEW S \in SUBSET Leaf, TypeOK, LeafSetsAgree, dbLeaves' = dbLeaves
    PROVE  /\ MarkNoiseLeafSpentLocked(S) => LeafView' = LeafView \cup S
           /\ UnmarkNoiseLeafSpentLocked(S) => LeafView' = LeafView \ S
BY DEF MarkNoiseLeafSpentLocked, UnmarkNoiseLeafSpentLocked, LeafView, IsNoiseLeafSpent,
       TypeOK, LeafSetsAgree

\* Forgetting the memory leaves readers with what is on disk.
LEMMA ForgottenView ==
    ASSUME Forget, TypeOK'
    PROVE  CoinView' = dbCoins' /\ LeafView' = dbLeaves' /\ mBestBlock' = Zero
<1>1. CoinView' = dbCoins'
  BY DEF Forget, EmptyCache, CoinView, GetCoin, TypeOK
<1>2. LeafView' = dbLeaves'
  BY DEF Forget, LeafView, IsNoiseLeafSpent, TypeOK
<1> QED
  BY <1>1, <1>2 DEF Forget

\* The cached, batched set implements the store without a cache: every method and
\* every batch is a step of CoinStore or changes nothing a reader or the disk shows.
THEOREM Refinement == Spec => RefinesCoinStore
<1> USE LedgerAssumption, AbsenceAssumption, AbsentAssumption
<1>1. Init => Store!StoreInit
  BY DEF Init, EmptyCache, CoinView, LeafView, GetCoin, IsNoiseLeafSpent, Store!StoreInit
<1>2. TypeOK /\ TypeOK' /\ CacheCoherent /\ [Next]_vars
        => [Store!StoreNext]_(Store!storeVars)
  <2> SUFFICES ASSUME TypeOK, TypeOK', CacheCoherent, Next
               PROVE  Store!StoreNext \/ UNCHANGED Store!storeVars
    <3>1. UNCHANGED vars => UNCHANGED Store!storeVars
      BY DEF vars, Store!storeVars, CoinView, LeafView, GetCoin, IsNoiseLeafSpent
    <3> QED
      BY <3>1
  <2>0. LeafSetsAgree
    BY DEF CacheCoherent
  <2>1. CASE Construct
    <3>1. CoinView' = dbCoins
      BY <2>1 DEF Construct, CacheCoherent, ClosedIsEmpty, EmptyCache, CoinView,
         GetCoin, dbVars, TypeOK
    <3>2. LeafView' = dbLeaves
      BY <2>1 DEF Construct, CacheCoherent, ClosedIsEmpty, LeafView,
         IsNoiseLeafSpent, leafVars, dbVars, TypeOK
    <3>3. Store!Open
      BY <2>1, <3>1, <3>2 DEF Construct, dbVars, Store!Open, Store!diskVars
    <3> QED
      BY <3>3 DEF Store!StoreNext
  <2>2. ASSUME NEW t \in Tx, NEW h \in Heights,
               ApplyTransaction(t, h) \/ ApplyTransactionForReplay(t, h)
        PROVE  Store!StoreNext
    <3>1. NewCoin(h, t \in Coinbase) \in Coin
      BY DEF NewCoin, Coin
    <3>2. mode = "open" /\ UNCHANGED <<mode, mBestBlock, dbCoins, dbLeaves, dbBest, dbHeads>>
      BY <2>2 DEF ApplyTransaction, ApplyTransactionForReplay, dbVars
    <3>3. CoinView' = Store!AppliedTo(CoinView, t, h)
      <4>1. mCache' = Overwrite(SpendIfPresent(Ins[t]), Outs[t],
                                NewCoin(h, t \in Coinbase))
        BY <2>2 DEF ApplyTransaction, ApplyTransactionForReplay
      <4> QED
        BY <3>1, <3>2, <4>1, AppliedView DEF Store!AppliedTo, Store!With, Store!Without,
           NewCoin, Store!NewCoin
    <3>4. LeafView' = LeafView \cup Lvs[t]
      BY <2>0, <2>2, <3>2, LeafViewChange DEF ApplyTransaction, ApplyTransactionForReplay
    <3>5. Store!Reapply(t, h)
      BY <3>2, <3>3, <3>4 DEF Store!Reapply, Store!diskVars
    <3> QED
      BY <3>5 DEF Store!StoreNext
  <2>3. ASSUME NEW t \in Tx, NEW spentCoins \in [Ins[t] -> Coin],
               UndoTransaction(t, spentCoins)
        PROVE  Store!StoreNext
    <3>1. CoinView' = Store!Restored(Store!Without(CoinView, Outs[t]), spentCoins)
      <4>1. ASSUME NEW o \in Outpoint
            PROVE  GetCoin(o)' = IF o \in Ins[t] THEN spentCoins[o]
                                 ELSE IF o \in Outs[t] THEN NoCoin ELSE GetCoin(o)
        <5>1. CASE o \in Ins[t]
          <6>1. mCache'[o] = UnspentEntry(spentCoins[o]) /\ spentCoins[o] \in Coin
            BY <2>3, <5>1 DEF UndoTransaction
          <6> QED
            BY <5>1, <6>1, FreshEntries DEF GetCoin
        <5>2. CASE o \notin Ins[t]
          BY <2>3, <5>2 DEF UndoTransaction, EraseOutputs, GetCoin
        <5> QED
          BY <5>1, <5>2
      <4> QED
        BY <4>1 DEF CoinView, Store!Restored, Store!Without
    <3>2. LeafView' = LeafView \ Lvs[t]
      BY <2>0, <2>3, LeafViewChange DEF UndoTransaction
    <3>3. Store!Undo(t, spentCoins)
      BY <2>3, <3>1, <3>2 DEF UndoTransaction, EraseOutputs, Store!Undo, Store!Without
    <3> QED
      BY <3>3 DEF Store!StoreNext, Store!Coin, Coin
  <2>4. ASSUME NEW t \in Tx, UndoTransactionMismatch(t) PROVE Store!StoreNext
    <3>1. CoinView' = Store!Without(CoinView, Outs[t])
      BY <2>4 DEF UndoTransactionMismatch, EraseOutputs, CoinView, GetCoin,
         Store!Without, TypeOK
    <3>2. LeafView' = LeafView
      BY <2>4 DEF UndoTransactionMismatch, leafVars, LeafView, IsNoiseLeafSpent
    <3>3. Store!UndoRefused(t)
      BY <2>4, <3>1, <3>2 DEF UndoTransactionMismatch, EraseOutputs, Store!UndoRefused,
         Store!Without
    <3> QED
      BY <3>3 DEF Store!StoreNext
  <2>5. ASSUME NEW o \in Outpoint, NEW c \in Coin, AddCoin(o, c) PROVE Store!StoreNext
    <3>1. CoinView' = [CoinView EXCEPT ![o] = c]
      <4>1. UnspentEntry(c) \in Entry
        BY DEF UnspentEntry, Entry
      <4>2. \A p \in Outpoint : GetCoin(p)' = IF p = o THEN c ELSE GetCoin(p)
        BY <2>5, <4>1 DEF AddCoin, Overwrite, UnspentEntry, GetCoin, dbVars
      <4> QED
        BY <4>2 DEF CoinView
    <3>2. LeafView' = LeafView /\ CoinView[o] = NoCoin
      BY <2>5 DEF AddCoin, leafVars, dbVars, LeafView, IsNoiseLeafSpent, CoinView
    <3>3. Store!AddOne(o, c)
      BY <2>5, <3>1, <3>2 DEF AddCoin, dbVars, Store!AddOne, Store!diskVars
    <3> QED
      BY <3>3 DEF Store!StoreNext, Store!Coin, Coin
  <2>6. ASSUME NEW o \in Outpoint, SpendCoin(o) PROVE Store!StoreNext
    <3>1. CoinView' = [CoinView EXCEPT ![o] = NoCoin]
      <4>1. GetCoin(o) # NoCoin /\ SpentEntry(GetCoin(o)) \in Entry
        BY <2>6 DEF SpendCoin, SpentEntry, Entry, GetCoin, TypeOK
      <4>2. \A p \in Outpoint : GetCoin(p)' = IF p = o THEN NoCoin ELSE GetCoin(p)
        BY <2>6, <4>1 DEF SpendCoin, SpendIfPresent, SpentEntry, GetCoin, dbVars
      <4> QED
        BY <4>2 DEF CoinView
    <3>2. LeafView' = LeafView /\ CoinView[o] # NoCoin
      BY <2>6 DEF SpendCoin, leafVars, dbVars, LeafView, IsNoiseLeafSpent, CoinView
    <3>3. Store!SpendOne(o)
      BY <2>6, <3>1, <3>2 DEF SpendCoin, dbVars, Store!SpendOne, Store!diskVars
    <3> QED
      BY <3>3 DEF Store!StoreNext
  <2>7. ASSUME NEW l \in Leaf, MarkNoiseLeafSpent(l) PROVE Store!StoreNext
    <3>1. LeafView' = LeafView \cup {l}
      BY <2>0, <2>7, LeafViewChange DEF MarkNoiseLeafSpent, dbVars
    <3>2. CoinView' = CoinView
      BY <2>7 DEF MarkNoiseLeafSpent, dbVars, CoinView, GetCoin
    <3>3. Store!MarkLeaf(l)
      BY <2>7, <3>1, <3>2 DEF MarkNoiseLeafSpent, dbVars, Store!MarkLeaf, Store!diskVars
    <3> QED
      BY <3>3 DEF Store!StoreNext
  <2>8. ASSUME NEW l \in Leaf, UnmarkNoiseLeafSpent(l) PROVE Store!StoreNext
    <3>1. LeafView' = LeafView \ {l}
      BY <2>0, <2>8, LeafViewChange DEF UnmarkNoiseLeafSpent, dbVars
    <3>2. CoinView' = CoinView
      BY <2>8 DEF UnmarkNoiseLeafSpent, dbVars, CoinView, GetCoin
    <3>3. Store!UnmarkLeaf(l)
      BY <2>8, <3>1, <3>2 DEF UnmarkNoiseLeafSpent, dbVars, Store!UnmarkLeaf, Store!diskVars
    <3> QED
      BY <3>3 DEF Store!StoreNext
  <2>9. ASSUME NEW b \in Hash \cup {Zero}, SetBestBlock(b) PROVE Store!StoreNext
    <3>1. CoinView' = CoinView /\ LeafView' = LeafView
      BY <2>9 DEF SetBestBlock, leafVars, dbVars, CoinView, GetCoin, LeafView,
         IsNoiseLeafSpent
    <3>2. Store!SetBest(b)
      BY <2>9, <3>1 DEF SetBestBlock, dbVars, Store!SetBest, Store!diskVars
    <3> QED
      BY <3>2 DEF Store!StoreNext
  <2>10. CASE Clear
    <3>1. Store!Revert
      BY <2>10, ForgottenView DEF Clear, dbVars, Store!Revert, Store!diskVars
    <3> QED
      BY <3>1 DEF Store!StoreNext
  <2>11. ASSUME NEW m \in {"flushing", "closing"}, FlushBegin(m) PROVE Store!StoreNext
    <3>1. CoinView' = CoinView /\ LeafView' = LeafView
      BY <2>11 DEF FlushBegin, memVars, CoinView, GetCoin, LeafView, IsNoiseLeafSpent
    <3>2. Store!BeginFlush(m)
      BY <2>11, <3>1 DEF FlushBegin, memVars, OldTip, Store!BeginFlush, Store!OldTip
    <3> QED
      BY <3>2 DEF Store!StoreNext
  <2>12. ASSUME NEW S \in SUBSET Outpoint, FlushBatch(S) PROVE Store!StoreNext
    <3>1. ASSUME NEW o \in Outpoint PROVE GetCoin(o)' = GetCoin(o)
      <4>1. CASE o \in S
        <5>1. mCache[o] # Absent /\ mCache[o] \in Entry
          BY <2>12, <4>1 DEF FlushBatch, Dirty, TypeOK
        <5>2. mCache'[o] = [mCache[o] EXCEPT !.isDirty = FALSE]
          BY <2>12, <4>1 DEF FlushBatch, Cleaned
        <5>3. mCache'[o] \in Entry /\ mCache'[o].isSpent = mCache[o].isSpent
                /\ mCache'[o].coin = mCache[o].coin
          BY <5>1, <5>2 DEF Entry
        <5> QED
          BY <5>1, <5>3 DEF GetCoin
      <4>2. CASE o \notin S
        BY <2>12, <4>2 DEF FlushBatch, Cleaned, Written, GetCoin
      <4> QED
        BY <4>1, <4>2
    <3>2. CoinView' = CoinView
      BY <3>1 DEF CoinView
    <3>3. LeafView' = LeafView
      BY <2>12 DEF FlushBatch, leafVars, LeafView, IsNoiseLeafSpent
    <3>4. dbCoins' = Store!Patch(dbCoins, CoinView, S)
      BY <2>12 DEF FlushBatch, Written, Store!Patch, CoinView
    <3>5. Store!WriteSome(S)
      BY <2>12, <3>2, <3>3, <3>4 DEF FlushBatch, Store!WriteSome
    <3> QED
      BY <3>5 DEF Store!StoreNext
  <2>13. CASE FlushCommit
    <3>1. FlushWrites /\ dbCoins' = CoinView /\ dbLeaves' = LeafView
      BY <2>13, CommittedDisk DEF FlushCommit, FlushWrites
    <3>2. ASSUME NEW o \in Outpoint PROVE GetCoin(o)' = GetCoin(o)
      <4>1. CASE mCache[o] # Absent /\ ~mCache[o].isSpent
        <5>1. mCache'[o] = [mCache[o] EXCEPT !.isDirty = FALSE] /\ mCache[o] \in Entry
          BY <2>13, <4>1 DEF FlushCommit, TypeOK
        <5>2. mCache'[o] \in Entry /\ ~mCache'[o].isSpent /\ mCache'[o].coin = mCache[o].coin
          BY <4>1, <5>1 DEF Entry
        <5> QED
          BY <4>1, <5>2 DEF GetCoin
      <4>2. CASE ~(mCache[o] # Absent /\ ~mCache[o].isSpent)
        <5>1. mCache'[o] = Absent
          BY <2>13, <4>2 DEF FlushCommit
        <5> QED
          BY <3>1, <5>1 DEF GetCoin, CoinView
      <4> QED
        BY <4>1, <4>2
    <3>3. CoinView' = CoinView
      BY <3>2 DEF CoinView
    <3>4. LeafView' = LeafView
      BY <2>0, <2>13, <3>1 DEF FlushCommit, LeafView, IsNoiseLeafSpent, LeafSetsAgree,
         TypeOK
    <3>5. Store!Commit
      BY <2>13, <3>1, <3>3, <3>4 DEF FlushCommit, FlushWrites, Store!Commit
    <3> QED
      BY <3>5 DEF Store!StoreNext
  <2>14. CASE Destroy
    <3>1. FlushWrites /\ dbCoins' = CoinView /\ dbLeaves' = LeafView
      BY <2>14, CommittedDisk DEF Destroy, FlushWrites
    <3>2. CoinView' = CoinView /\ LeafView' = LeafView /\ mBestBlock' = Zero
      BY <2>14, <3>1, ForgottenView DEF Destroy
    <3>3. Store!Commit
      BY <2>14, <3>1, <3>2 DEF Destroy, FlushWrites, Store!Commit
    <3> QED
      BY <3>3 DEF Store!StoreNext
  <2>15. CASE Crash
    <3>1. Store!Die
      BY <2>15, ForgottenView DEF Crash, dbVars, Store!Die, Store!diskVars
    <3> QED
      BY <3>1 DEF Store!StoreNext
  <2> QED
    BY <2>1, <2>2, <2>3, <2>4, <2>5, <2>6, <2>7, <2>8, <2>9, <2>10, <2>11, <2>12,
       <2>13, <2>14, <2>15 DEF Next
<1> QED
  BY <1>1, <1>2, TypeCorrect, Coherence, PTL DEF Spec, RefinesCoinStore, Store!StoreSpec
=============================================================================
