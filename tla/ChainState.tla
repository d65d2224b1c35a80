----------------------------- MODULE ChainState -----------------------------
(***************************************************************************)
(* storage::ChainState over BlockData (block files, block index, undo      *)
(* records, transaction index), its own database (DB_CHAIN_BEST) and a     *)
(* UTXO set, here the CoinStore that UTXOSet is proved to implement.       *)
(*                                                                         *)
(* Every public method runs under mMutex, so methods do not interleave;    *)
(* what cuts them in two is the death of the process.  A method is one     *)
(* action per write that reaches a disk, and `pc' and `op' say where it    *)
(* stands.  The three databases are separate: no write spans two of them.  *)
(*                                                                         *)
(* DB_CHAIN_GENESIS only guards against a data directory of another        *)
(* network and is left out.                                                *)
(***************************************************************************)
EXTENDS BlockTree

CONSTANTS
    MaxDisconnected,    \* MAX_DISCONNECTED_TX_BYTES, in transactions
    CrashAt,            \* the values of op at which the process may die
    MaxCrashes          \* bound on the number of deaths

ASSUME BufferAssumption == MaxDisconnected \in Nat

VARIABLES
    index,              \* blocks in the block index (and in the block files)
    undo,               \* undo records: coins spent, or NoKey
    txIndex,            \* transaction index: the block a transaction was last stored with
    chainBest,          \* DB_CHAIN_BEST
    mBestChain,
    mChainByHeight,     \* <<>>, or the block at every height from 0
    mSyncConnected, mSyncDisconnected,
    pc,                 \* the next step of the method that holds mMutex
    op,                 \* what that method is doing
    fork,               \* ActivateBestChain: the block both branches share
    branch,             \* blocks still to connect (or replay), lowest first
    connected,          \* ActivateBestChain: blocks connected so far
    back,               \* ReplayBlocks: blocks still to roll back
    failed,             \* RollbackConnected is running
    todo, applied,      \* transactions of the current block, to do and done
    spent,              \* coins they spent: the undo record being built or used
    syncedTip,          \* history: the tip at the last TakeMempoolSync
    crashes             \* deaths so far

chainDisk == <<index, undo, txIndex, chainBest>>
queues == <<mSyncConnected, mSyncDisconnected>>
tipVars == <<mBestChain, mChainByHeight>>
plan == <<fork, branch, connected, back, failed>>
txVars == <<todo, applied, spent>>
history == <<syncedTip, crashes>>
vars == <<storeVars, chainDisk, queues, tipVars, plan, txVars, history, pc, op>>

Ops == {"idle", "boot", "genesis", "replay", "repair", "accept", "connect", "undo",
        "disconnect", "sync", "close"}

NoSpent == [o \in {} |-> NoCoin]

\* What the process loses when it dies.
Blank ==
    /\ mBestChain' = Zero
    /\ mChainByHeight' = <<>>
    /\ mSyncConnected' = <<>>
    /\ mSyncDisconnected' = <<>>
    /\ fork' = Zero
    /\ branch' = <<>>
    /\ connected' = <<>>
    /\ back' = <<>>
    /\ failed' = FALSE
    /\ todo' = <<>>
    /\ applied' = <<>>
    /\ spent' = NoSpent

Init ==
    /\ StoreInit
    /\ index = {}
    /\ undo = [b \in Hash |-> NoKey]
    /\ txIndex = [t \in Tx |-> NoKey]
    /\ chainBest = NoKey
    /\ mBestChain = Zero /\ mChainByHeight = <<>>
    /\ mSyncConnected = <<>> /\ mSyncDisconnected = <<>>
    /\ fork = Zero /\ branch = <<>> /\ connected = <<>> /\ back = <<>>
    /\ failed = FALSE
    /\ todo = <<>> /\ applied = <<>> /\ spent = NoSpent
    /\ syncedTip = Zero /\ crashes = 0
    /\ pc = "down" /\ op = "idle"

Goto(p, o) == pc' = p /\ op' = o

\* AcceptBlock returns; its local variables are gone.
Return ==
    /\ fork' = Zero
    /\ branch' = <<>>
    /\ connected' = <<>>
    /\ failed' = FALSE
    /\ Goto("idle", "idle")

-----------------------------------------------------------------------------
(* Initialize *)

\* The constructor opens the databases; LoadBestChain reads the recorded tip.
Start ==
    /\ pc = "down"
    /\ Open
    /\ mBestChain' = IF chainBest = NoKey THEN Zero ELSE chainBest
    /\ IF chainBest = NoKey
       THEN Goto("apply", "genesis") /\ todo' = BlockTxs[Genesis]
       ELSE Goto("check", "boot") /\ todo' = <<>>
    /\ UNCHANGED <<chainDisk, queues, mChainByHeight, plan, applied, spent, history>>

\* WriteBlock: the index entry, then one entry of the transaction index at a time.
StoreBlock(b) ==
    /\ index' = index \cup {b}
    /\ branch' = <<b>>
    /\ todo' = BlockTxs[b]

IndexTx ==
    /\ pc = "index"
    /\ todo # <<>>
    /\ txIndex' = [txIndex EXCEPT ![Head(todo)] = Head(branch)]
    /\ todo' = Tail(todo)
    /\ UNCHANGED <<storeVars, index, undo, chainBest, queues, tipVars, plan, applied,
                   spent, history, pc, op>>

\* InitializeGenesisLocked, once the transactions are applied.
StoreGenesis ==
    /\ pc = "apply" /\ todo = <<>> /\ op = "genesis"
    /\ StoreBlock(Genesis)
    /\ applied' = <<>>
    /\ spent' = NoSpent
    /\ Goto("index", "genesis")
    /\ UNCHANGED <<storeVars, undo, txIndex, chainBest, queues, tipVars, fork, connected,
                   back, failed, history>>

GenesisTip ==
    /\ pc = "index" /\ todo = <<>> /\ op = "genesis"
    /\ mBestChain' = Genesis
    /\ mChainByHeight' = <<Genesis>>
    /\ chainBest' = Genesis
    /\ SetBest(Genesis)
    /\ branch' = <<>>
    /\ Goto("flush", "genesis")
    /\ UNCHANGED <<index, undo, txIndex, queues, fork, connected, back, failed, txVars,
                   history>>

Ready ==
    /\ mChainByHeight' = PathTo[mBestChain]     \* BuildHeightIndexLocked
    /\ syncedTip' = mBestChain
    /\ Goto("idle", "idle")

\* The block whose coins the replay starts from.
ReplaySource == IF dHeads # NoKey THEN dHeads[2] ELSE best

\* Mutant: the walk stops short of a source that lies above the tip.
MaxStepsTight == Height[mBestChain]

\* LastCommonAncestorLocked and AncestorPathLocked walk at most this many blocks.
MaxSteps == Height[mBestChain] + 2

CanReplay(source) ==
    \/ source = Zero
    \/ /\ {source, mBestChain} \subseteq index
       /\ Height[source] <= Height[CommonAncestor(source, mBestChain)] + MaxSteps

\* Mutant: a start that finds no marker trusts the tip it reads.
NoMarker == dHeads = NoKey

NothingToReplay == dHeads = NoKey /\ best = mBestChain

\* Nothing to reconcile, or ReplayBlocksLocked decides how.  `refused' is the
\* DBError that keeps the node from starting.
Check ==
    /\ pc = "check"
    /\ LET source == ReplaySource
           common == CommonAncestor(source, mBestChain)
       IN  IF NothingToReplay
           THEN Ready /\ UNCHANGED <<branch, back>>
           ELSE IF source = mBestChain
           THEN /\ Goto("flush", "repair")
                /\ UNCHANGED <<mChainByHeight, syncedTip, branch, back>>
           ELSE /\ IF CanReplay(source) THEN Goto("rollback", "replay")
                   ELSE Goto("refused", "boot")
                /\ branch' = IF source = Zero THEN PathTo[mBestChain]
                             ELSE PathFrom(common, mBestChain)
                /\ back' = IF source = Zero THEN <<>>
                           ELSE Reverse(PathFrom(common, source))
                /\ UNCHANGED <<mChainByHeight, syncedTip>>
    /\ UNCHANGED <<storeVars, chainDisk, queues, mBestChain, fork, connected, failed,
                   txVars, crashes>>

\* RollbackBlockLocked needs the undo record; without it the node does not start.
ReplayBack ==
    /\ pc = "rollback" /\ op = "replay" /\ back # <<>>
    /\ IF undo[Head(back)] = NoKey
       THEN Goto("refused", "boot") /\ UNCHANGED <<back, todo, spent>>
       ELSE /\ Goto("undo", "replay")
            /\ todo' = BlockTxs[Head(back)]
            /\ spent' = undo[Head(back)]
            /\ back' = Tail(back)
    /\ UNCHANGED <<storeVars, chainDisk, queues, tipVars, fork, branch, connected,
                   failed, applied, history>>

ReplayForward ==
    /\ pc = "rollback" /\ op = "replay" /\ back = <<>> /\ branch # <<>>
    /\ todo' = BlockTxs[Head(branch)]
    /\ Goto("reapply", "replay")
    /\ UNCHANGED <<storeVars, chainDisk, queues, tipVars, plan, applied, spent, history>>

\* RollforwardBlockLocked, one transaction.
ReapplyTx ==
    /\ pc = "reapply"
    /\ todo # <<>>
    /\ Reapply(Head(todo), Height[Head(branch)])
    /\ todo' = Tail(todo)
    /\ UNCHANGED <<chainDisk, queues, tipVars, plan, applied, spent, history, pc, op>>

ReapplyDone ==
    /\ pc = "reapply"
    /\ todo = <<>>
    /\ branch' = Tail(branch)
    /\ Goto("rollback", "replay")
    /\ UNCHANGED <<storeVars, chainDisk, queues, tipVars, fork, connected, back, failed,
                   txVars, history>>

ReplayDone ==
    /\ pc = "rollback" /\ op = "replay" /\ back = <<>> /\ branch = <<>>
    /\ SetBest(mBestChain)
    /\ Goto("flush", "replay")
    /\ UNCHANGED <<chainDisk, queues, tipVars, plan, txVars, history>>

-----------------------------------------------------------------------------
(* AcceptBlock *)

\* LastCheckpointHeight: the last checkpoint in the list whose block is held.
HeldCheckpoints == {i \in DOMAIN Checkpoints : Checkpoints[i] \in index}
LastCheckpointHeight ==
    LET i == CHOOSE i \in HeldCheckpoints : \A j \in HeldCheckpoints : j <= i
    IN  Height[Checkpoints[i]]

BelowCheckpoint(b) == HeldCheckpoints # {} /\ Height[b] < LastCheckpointHeight

\* Mutant: only blocks on top of the tip are stored.
AcceptableOnTip(b) ==
    /\ b \notin index
    /\ Parent[b] = mBestChain
    /\ ~BelowCheckpoint(b)
    /\ ValidateBlock(b, coins, leaves)

\* A block that is stored: new, with a known parent, not below a checkpoint, and
\* valid against the coins of the tip of the moment, whatever branch it is on.
Acceptable(b) ==
    /\ b \notin index
    /\ Parent[b] \in index
    /\ ~BelowCheckpoint(b)
    /\ ValidateBlock(b, coins, leaves)

\* IsOnActiveChainLocked stops above genesis, hence the second case of the walk;
\* both lead to the last common ancestor.
ForkPoint(b) == CommonAncestor(b, mBestChain)

MoreWork(b) == Work[b] > Work[mBestChain]

AcceptBlock(b) ==
    /\ pc = "idle"
    /\ Acceptable(b)
    /\ StoreBlock(b)
    /\ Goto("index", "accept")
    /\ UNCHANGED <<storeVars, undo, txIndex, chainBest, queues, tipVars, fork, connected,
                   back, failed, applied, spent, history>>

\* The block is stored: ActivateBestChain if its branch now has more work.
Activate ==
    /\ pc = "index" /\ todo = <<>> /\ op = "accept"
    /\ LET b == Head(branch)
       IN  IF MoreWork(b)
           THEN /\ fork' = ForkPoint(b)
                /\ branch' = PathFrom(ForkPoint(b), b)
                /\ Goto("disconnect", "connect")
                /\ UNCHANGED <<connected, failed>>
           ELSE Return
    /\ UNCHANGED <<storeVars, chainDisk, queues, tipVars, back, txVars, history>>

-----------------------------------------------------------------------------
(* DisconnectTip *)

\* ActivateBestChain takes blocks off until the fork; RollbackConnected takes off
\* the blocks this activation had connected, and nothing puts the old ones back.
DisconnectTip ==
    /\ \/ pc = "disconnect" /\ mBestChain # fork
       \/ pc = "rollback" /\ op # "replay" /\ connected # <<>>
    /\ IF undo[mBestChain] = NoKey
       THEN Return /\ UNCHANGED <<todo, spent>>
       ELSE /\ Goto("undo", "undo")
            /\ todo' = BlockTxs[mBestChain]
            /\ spent' = undo[mBestChain]
            /\ UNCHANGED <<fork, branch, connected, failed>>
    /\ UNCHANGED <<storeVars, chainDisk, queues, tipVars, back, applied, history>>

SpentBy(t) == [o \in Ins[t] |-> spent[o]]

\* UndoBlockTwoPhase, one transaction, last one first; shared with the replay.
UndoTx ==
    /\ pc = "undo"
    /\ todo # <<>>
    /\ Undo(Last(todo), SpentBy(Last(todo)))
    /\ todo' = Front(todo)
    /\ UNCHANGED <<chainDisk, queues, tipVars, plan, applied, spent, history, pc, op>>

ReplayUndone ==
    /\ pc = "undo" /\ todo = <<>> /\ op = "replay"
    /\ Goto("rollback", "replay")
    /\ spent' = NoSpent
    /\ UNCHANGED <<storeVars, chainDisk, queues, tipVars, plan, todo, applied, history>>

Popped(parent) ==
    IF Len(mChainByHeight) = Height[parent] + 2 THEN Front(mChainByHeight) ELSE <<>>

\* The parent becomes the tip, in memory and in the chain database.
TipBack ==
    /\ pc = "undo" /\ todo = <<>> /\ op = "undo"
    /\ LET parent == Parent[mBestChain]
       IN  /\ mBestChain' = parent
           /\ mChainByHeight' = Popped(parent)
           /\ chainBest' = parent
           /\ SetBest(parent)
    /\ todo' = BlockTxs[mBestChain]
    /\ spent' = NoSpent
    /\ Goto("flush", "disconnect")
    /\ UNCHANGED <<index, undo, txIndex, queues, plan, applied, history>>

\* The transactions of a block but its coinbase, which is the first and the only
\* one (TreeAssumption).
Payments(txs) == IF txs = <<>> THEN <<>> ELSE Tail(txs)

\* Mutant: the buffer keeps its oldest entries.
CappedOldest(s) == IF Len(s) > MaxDisconnected THEN SubSeq(s, 1, MaxDisconnected) ELSE s

\* The buffer keeps its newest entries.
Capped(s) ==
    IF Len(s) > MaxDisconnected
    THEN SubSeq(s, Len(s) - MaxDisconnected + 1, Len(s)) ELSE s

\* QueueDisconnected, and back into the loop that asked.
Disconnected ==
    /\ pc = "flushed" /\ op = "disconnect"
    /\ mSyncDisconnected' = Capped(mSyncDisconnected \o Reverse(Payments(todo)))
    /\ todo' = <<>>
    /\ connected' = IF failed THEN Front(connected) ELSE connected
    /\ Goto(IF failed THEN "rollback" ELSE "disconnect", "connect")
    /\ UNCHANGED <<storeVars, chainDisk, mSyncConnected, tipVars, fork, branch, back,
                   failed, applied, spent, history>>

-----------------------------------------------------------------------------
(* ConnectBlock *)

\* The fork is reached; the header of the next block is checked in its place.
ConnectBlock ==
    /\ \/ pc = "disconnect" /\ mBestChain = fork
       \/ pc = "connect"
    /\ IF Head(branch) \in HeaderOK
       THEN /\ Goto("apply", "connect")
            /\ todo' = BlockTxs[Head(branch)]
            /\ UNCHANGED failed
       ELSE /\ Goto("rollback", "connect")
            /\ failed' = TRUE
            /\ UNCHANGED todo
    /\ UNCHANGED <<storeVars, chainDisk, queues, tipVars, fork, branch, connected, back,
                   applied, spent, history>>

\* Mutant: coins get the height of the tip they were built on.
ApplyHeightOfTip == IF op = "genesis" THEN 0 ELSE Height[mBestChain]

ApplyHeight == IF op = "genesis" THEN 0 ELSE Height[mBestChain] + 1

\* ApplyBlockTwoPhase (and the loop of InitializeGenesis), one transaction.
Applies(t) == CanApply(t) /\ (t \notin Coinbase => Amount(Ins[t]) >= Amount(Outs[t]))

ApplyTx ==
    /\ pc = "apply" /\ todo # <<>>
    /\ Applies(Head(todo))
    /\ Apply(Head(todo), ApplyHeight)
    /\ spent' = [o \in DOMAIN spent \cup Ins[Head(todo)] |->
                    IF o \in Ins[Head(todo)] THEN coins[o] ELSE spent[o]]
    /\ applied' = Append(applied, Head(todo))
    /\ todo' = Tail(todo)
    /\ UNCHANGED <<chainDisk, queues, tipVars, plan, history, pc, op>>

ApplyFails ==
    /\ pc = "apply" /\ todo # <<>>
    /\ op = "connect"
    /\ ~Applies(Head(todo))
    /\ Goto("unapply", "connect")
    /\ UNCHANGED <<storeVars, chainDisk, queues, tipVars, plan, txVars, history>>

Unapply ==
    /\ pc = "unapply" /\ applied # <<>>
    /\ Undo(Last(applied), SpentBy(Last(applied)))
    /\ applied' = Front(applied)
    /\ UNCHANGED <<chainDisk, queues, tipVars, plan, todo, spent, history, pc, op>>

Unapplied ==
    /\ pc = "unapply" /\ applied = <<>>
    /\ todo' = <<>> /\ spent' = NoSpent
    /\ failed' = TRUE
    /\ Goto("rollback", "connect")
    /\ UNCHANGED <<storeVars, chainDisk, queues, tipVars, fork, branch, connected, back,
                   applied, history>>

RecordBlockNoTxIndex ==
    /\ pc = "apply" /\ todo = <<>> /\ op = "connect"
    /\ index' = index \cup {Head(branch)}
    /\ undo' = [undo EXCEPT ![Head(branch)] = spent]
    /\ applied' = <<>>
    /\ spent' = NoSpent
    /\ Goto("tip", "connect")
    /\ UNCHANGED <<storeVars, txIndex, chainBest, queues, tipVars, plan, todo, history>>

\* WriteBlockConnected: index entry, undo record and transaction index in one batch.
RecordBlock ==
    /\ pc = "apply" /\ todo = <<>> /\ op = "connect"
    /\ index' = index \cup {Head(branch)}
    /\ undo' = [undo EXCEPT ![Head(branch)] = spent]
    /\ txIndex' = [t \in Tx |-> IF t \in TxsOf(Head(branch)) THEN Head(branch)
                                ELSE txIndex[t]]
    /\ applied' = <<>>
    /\ spent' = NoSpent
    /\ Goto("tip", "connect")
    /\ UNCHANGED <<storeVars, chainBest, queues, tipVars, plan, todo, history>>

Pushed(b) ==
    IF Len(mChainByHeight) = Height[mBestChain] + 1 THEN Append(mChainByHeight, b) ELSE <<>>

MoveTip(b) ==
    /\ mBestChain' = b
    /\ mChainByHeight' = Pushed(b)
    /\ chainBest' = b
    /\ SetBest(b)

\* Mutant: the new tip is not followed by a commit of the UTXO set.
TipWithoutFlush ==
    /\ pc = "tip" /\ op = "connect"
    /\ MoveTip(Head(branch))
    /\ Goto("flushed", "connect")
    /\ UNCHANGED <<index, undo, txIndex, queues, plan, txVars, history>>

TipForward ==
    /\ pc = "tip" /\ op = "connect"
    /\ MoveTip(Head(branch))
    /\ Goto("flush", "connect")
    /\ UNCHANGED <<index, undo, txIndex, queues, plan, txVars, history>>

\* Mutant: only the last block of a new branch is queued.
QueueConnectedLast(b) ==
    IF Tail(branch) = <<>> THEN mSyncConnected \o Payments(BlockTxs[b]) ELSE mSyncConnected

QueueConnected(b) == mSyncConnected \o Payments(BlockTxs[b])

\* The block is queued for the mempool; the next block of the branch, or AcceptBlock returns.
Connected ==
    /\ pc = "flushed" /\ op = "connect"
    /\ mSyncConnected' = QueueConnected(mBestChain)
    /\ IF Tail(branch) = <<>>
       THEN Return
       ELSE /\ branch' = Tail(branch)
            /\ connected' = Append(connected, Head(branch))
            /\ Goto("connect", "connect")
            /\ UNCHANGED <<fork, failed>>
    /\ UNCHANGED <<storeVars, chainDisk, mSyncDisconnected, tipVars, back, txVars, history>>

\* RollbackConnected has nothing left to take off: AcceptBlock returns false.
RolledBack ==
    /\ pc = "rollback" /\ op # "replay" /\ connected = <<>>
    /\ Return
    /\ UNCHANGED <<storeVars, chainDisk, queues, tipVars, back, txVars, history>>

-----------------------------------------------------------------------------
(* Committing the UTXO set *)

FlushBegin ==
    /\ pc = "flush"
    /\ BeginFlush(IF op = "close" THEN "closing" ELSE "flushing")
    /\ Goto("flushing", op)
    /\ UNCHANGED <<chainDisk, queues, tipVars, plan, txVars, history>>

Unwritten == {o \in Outpoint : coins[o] # dCoins[o]}

FlushSome ==
    /\ pc = "flushing"
    /\ \E S \in SUBSET Unwritten \ {{}, Unwritten} : WriteSome(S)
    /\ UNCHANGED <<chainDisk, queues, tipVars, plan, txVars, history, pc, op>>

\* The commit, and what the method that asked for it does next.
FlushEnd ==
    /\ pc = "flushing" /\ op # "close"
    /\ Commit
    /\ \/ op \in {"connect", "disconnect"} /\ Goto("flushed", op)
       \/ op = "genesis" /\ Goto("check", "boot")
       \/ op \in {"replay", "repair"} /\ Goto("ready", "boot")
       \/ op = "sync" /\ Goto("idle", "idle")
    /\ UNCHANGED <<chainDisk, queues, tipVars, plan, txVars, history>>

Initialized ==
    /\ pc = "ready"
    /\ Ready
    /\ UNCHANGED <<storeVars, chainDisk, queues, mBestChain, plan, txVars, crashes>>

\* ChainState::Flush and Sync, and the destructor, which also runs when
\* Initialize throws.
Flush(o) ==
    /\ pc = "idle" \/ (pc = "refused" /\ o = "close")
    /\ Goto("flush", o)
    /\ UNCHANGED <<storeVars, chainDisk, queues, tipVars, plan, txVars, history>>

Closed ==
    /\ pc = "flushing" /\ op = "close"
    /\ Commit
    /\ Blank
    /\ Goto("down", "idle")
    /\ UNCHANGED <<chainDisk, history>>

TakeMempoolSync ==
    /\ pc = "idle"
    /\ mSyncConnected \o mSyncDisconnected # <<>>
    /\ mSyncConnected' = <<>>
    /\ mSyncDisconnected' = <<>>
    /\ syncedTip' = mBestChain
    /\ UNCHANGED <<storeVars, chainDisk, tipVars, plan, txVars, crashes, pc, op>>

\* The process dies; the files stay as they are.
Crash ==
    /\ pc \notin {"down", "refused"}
    /\ op \in CrashAt
    /\ crashes < MaxCrashes
    /\ Die
    /\ Blank
    /\ crashes' = crashes + 1
    /\ Goto("down", "idle")
    /\ UNCHANGED <<chainDisk, syncedTip>>

-----------------------------------------------------------------------------

Step ==
    \/ Start \/ StoreGenesis \/ IndexTx \/ GenesisTip \/ Check \/ Activate
    \/ ReplayBack \/ ReplayForward \/ ReapplyTx \/ ReapplyDone \/ ReplayDone
    \/ DisconnectTip \/ UndoTx \/ ReplayUndone \/ TipBack \/ Disconnected
    \/ ConnectBlock \/ ApplyTx \/ ApplyFails \/ Unapply \/ Unapplied
    \/ RecordBlock \/ TipForward \/ Connected \/ RolledBack
    \/ FlushBegin \/ FlushEnd \/ Initialized \/ Closed

Next ==
    \/ Step
    \/ FlushSome
    \/ \E b \in Hash \ {Genesis} : AcceptBlock(b)
    \/ \E o \in {"sync", "close"} : Flush(o)
    \/ TakeMempoolSync
    \/ Crash

Spec == Init /\ [][Next]_vars

\* A method that has started runs to its end, and every block is offered again
\* and again (peers re-announce what a node lacks, and it asks again).
FairSpec ==
    /\ Spec
    /\ WF_vars(Step)
    /\ \A b \in Hash \ {Genesis} : SF_vars(AcceptBlock(b))

-----------------------------------------------------------------------------
(* Properties *)

\* Types, and the bound QueueDisconnectedLocked keeps its buffer within.
ChainTypeOK ==
    /\ StoreTypeOK
    /\ index \subseteq Hash
    /\ \A b \in Hash : undo[b] = NoKey \/ undo[b] \in [Consumes(b) -> Coin]
    /\ txIndex \in [Tx -> Hash \cup {NoKey}]
    /\ chainBest \in Hash \cup {NoKey}
    /\ mBestChain \in Hash \cup {Zero}
    /\ mChainByHeight \in Seq(Hash)
    /\ {mSyncConnected, mSyncDisconnected} \subseteq Seq(Tx \ Coinbase)
    /\ Len(mSyncDisconnected) <= MaxDisconnected
    /\ fork \in Hash \cup {Zero} /\ failed \in BOOLEAN
    /\ {branch, connected, back} \subseteq Seq(Hash)
    /\ {todo, applied} \subseteq Seq(Tx)
    /\ \A o \in DOMAIN spent : o \in Outpoint /\ spent[o] \in Coin
    /\ op \in Ops

\* Between two methods the UTXO set is exactly the one the active chain defines:
\* no coin missing, none left over, each with the height it was confirmed at, and
\* the spent leaves are those of the active chain (Initialize, AcceptBlock).
StateMatchesTip ==
    pc = "idle" => /\ coins = CoinsAt[mBestChain]
                   /\ leaves = LeavesAt(mBestChain)

\* Wherever the process died, ReplayBlocksLocked may leave coins missing and leaves of
\* blocks that left the chain marked, but no coin the active chain does not have,
\* at its height and unspent, and no leaf it revealed unmarked.
NothingRevived ==
    pc = "idle" => /\ \A o \in Outpoint : coins[o] \in {NoCoin, CoinsAt[mBestChain][o]}
                   /\ LeavesAt(mBestChain) \subseteq leaves

CoinsOf(b) == IF b \in Hash THEN CoinsAt[b] ELSE [o \in Outpoint |-> NoCoin]
LeavesOf(b) == IF b \in Hash THEN LeavesAt(b) ELSE {}

\* The block ReplayBlocksLocked would start from if the process died now.
DiskSource == IF dHeads # NoKey THEN dHeads[2] ELSE dBest

\* Whenever the process dies, each coin on disk is the one of the block the replay
\* starts from or the one of the recorded tip, and the leaves are those of the
\* former.  While a block is taken off (op "undo") this does not hold.
Recoverable ==
    op # "undo" =>
        /\ \A o \in Outpoint : dCoins[o] \in {CoinsOf(DiskSource)[o], CoinsOf(chainBest)[o]}
        /\ dLeaves = LeavesOf(DiskSource)

\* Between two methods nothing but the mempool queues would be lost by a crash.
IdleIsDurable ==
    pc = "idle" => /\ dCoins = coins /\ dLeaves = leaves
                   /\ dHeads = NoKey /\ dBest = mBestChain
                   /\ best = mBestChain /\ chainBest = mBestChain

\* The set names the tip it belongs to once Initialize or AcceptBlock has returned
\* ("replay finished, the UTXO set now matches the tip").
UtxoNamesTip == pc = "idle" => best = mBestChain

\* A data directory the node wrote itself never keeps the node from starting.
NeverRefuses == pc # "refused"

\* The height table is never stale and never given up after a reorganisation.
HeightsExact == pc = "idle" => mChainByHeight = PathTo[mBestChain]

\* The height table is exact, and GetTransaction finds every transaction of the
\* active chain in its active block, although WriteBlock also indexes blocks of
\* other branches.
IndexesExact ==
    /\ HeightsExact
    /\ pc = "idle" => \A b \in Ancestors(mBestChain) : \A t \in TxsOf(b) : txIndex[t] = b

\* Every block of the active chain is valid after its own ancestors, although it
\* was validated against whatever the UTXO set was when it arrived.
ActiveChainValid == pc = "idle" => ValidBranch(mBestChain)

PaymentsOn(b) == BranchTxs(b) \ Coinbase

\* TakeMempoolSync hands over every payment that joined the active chain and every
\* payment that left it since the last call, unless the buffer was full.
SyncCovers ==
    pc = "idle" =>
        /\ PaymentsOn(mBestChain) \ PaymentsOn(syncedTip) \subseteq ToSet(mSyncConnected)
        /\ \/ Len(mSyncDisconnected) = MaxDisconnected
           \/ PaymentsOn(syncedTip) \ PaymentsOn(mBestChain) \subseteq ToSet(mSyncDisconnected)

\* Put back in the reverse of the order they were queued in, disconnected payments
\* never come before the payment whose output they spend, even when the buffer
\* dropped some.
ResurrectionOrder ==
    pc = "idle" =>
        \A i \in DOMAIN mSyncDisconnected : \A p \in Tx \ Coinbase :
            Outs[p] \cap Ins[mSyncDisconnected[i]] # {} =>
                \/ p \in BranchTxs(mBestChain)
                \/ \E j \in DOMAIN mSyncDisconnected : j > i /\ mSyncDisconnected[j] = p

\* "Which chain is the right one is decided by the greatest total work": no valid
\* branch the node holds has more work than the active one.
BestIsHeaviest ==
    pc = "idle" => \A b \in index : ValidBranch(b) => Work[b] <= Work[mBestChain]

\* The block at a checkpoint's height on the active chain is the checkpoint.
CheckpointHolds ==
    pc = "idle" => \A i \in HeldCheckpoints :
        LET h == Height[Checkpoints[i]]
        IN  Height[mBestChain] >= h => PathTo[mBestChain][h + 1] = Checkpoints[i]

Fees(b) == MapThenSumSet(LAMBDA t : Amount(Ins[t]) - Amount(Outs[t]),
                         TxsOf(b) \ Coinbase)

\* "The whole fee goes to the miner": a block on the tip whose payments are valid is
\* accepted when its coinbase takes the subsidy and the fees of its payments.
FeesAreClaimable ==
    pc = "idle" =>
        \A b \in WellFormed \ index :
            /\ Parent[b] = mBestChain
            /\ \A t \in TxsOf(b) \ Coinbase :
                   CheckTransactionWithUTXO(t, Height[b], coins) /\ LeavesUnused(t, leaves)
            /\ \A t \in TxsOf(b) \cap Coinbase :
                   Amount(Outs[t]) <= Subsidy[Height[b]] + Fees(b)
            => Acceptable(b)

HeaviestWork == CHOOSE w \in {Work[b] : b \in ValidBlocks} :
                    \A b \in ValidBlocks : Work[b] <= w

\* Every node that is offered all blocks ends up on a valid branch of the greatest
\* work, whatever order they come in.
Convergence == <>[](pc = "idle" => Work[mBestChain] = HeaviestWork)
=============================================================================
