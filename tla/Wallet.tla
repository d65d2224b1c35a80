------------------------------- MODULE Wallet -------------------------------
(***************************************************************************)
(* node::WalletManager and the life of a payment: the RPC threads that     *)
(* build, sign and submit it, the wallet file, the pool and the chain it   *)
(* passes through, and the callback that tells the wallet about blocks.    *)
(*                                                                         *)
(* Every method of WalletManager holds mMutex, so a step of an RPC thread  *)
(* is one call of a method, of the pool or of the UTXO set.  The wallet    *)
(* file is replaced by a rename, so a save happens whole or fails.         *)
(*                                                                         *)
(* The id of a transaction fixes its inputs, its leaves and the change     *)
(* address it pays; which of the affordable inputs the wallet selects      *)
(* depends on amounts that are left out.  A change or receiving address is *)
(* its key index: the wallet knows the addresses below the next index.     *)
(* A block carries one payment.                                            *)
(***************************************************************************)
EXTENDS Ledger, Sequences, FiniteSets, FiniteSetsExt

CONSTANTS
    Thread,         \* the worker threads of the RPC server
    ChangeIx,       \* ChangeIx[t]: index of the change address t pays, or None
    Malformed,      \* payments that name one of their inputs twice
    Mined,          \* outpoints the wallet owns from the start
    None,           \* no transaction, no index, no file
    MaxKeys,        \* bound on receiving addresses
    MaxEvents       \* bound on failed saves, reloads, locks, restarts, blocks and resends

\* What wallet.dat and the loaded noise hold.
Images == [key : Nat, change : Nat, next : Nat, used : SUBSET Leaf]
Leaves == [next : Nat, used : SUBSET Leaf]

ASSUME WalletAssumption ==
    /\ Coinbase = {}
    /\ IsFiniteSet(Leaf) /\ Leaf = 0..(Cardinality(Leaf) - 1)
    /\ ChangeIx \in [Tx -> Nat \cup {None}]
    /\ Malformed \subseteq Tx
    /\ \A t \in Tx : Ins[t] # {} => Lvs[t] # {}    \* every input reveals a leaf
    /\ Mined \subseteq Outpoint
    /\ None \notin Tx \cup Nat \cup Images \cup Leaves
    /\ {MaxKeys, MaxEvents} \subseteq Nat

VARIABLES
    file,               \* wallet.dat, or None
    noiseDat,           \* noise.dat exists
    mInitialized,
    mUnlockedSeed,      \* the seed is in memory: the wallet is unlocked
    mNextKeyIndex, mNextChangeIndex, mNoiseNextLeaf, mNoiseUsed,
    mNoiseFile,         \* the loaded noise: [next, used], or None
    mHeldOutpoints,     \* [Outpoint -> the payment that took it, or None]
    rpc,                \* [Thread -> [pc, tx, view]], view its snapshot of the pool
    pool,               \* payments in the mempool
    chain,              \* payments confirmed, in order
    connected, disconnected,    \* what TakeMempoolSync will hand over
    sync,               \* where SyncMempoolWithChain stands
    events,             \* counts what MaxEvents bounds
    sent,               \* history: payments SignTransaction returned
    session,            \* history: those of this run whose block was not detached
    strayed             \* history: payments built before a reload forgot their change

fileVars == <<file, noiseDat>>
addressVars == <<mNextKeyIndex, mNextChangeIndex>>
leafVars == <<mNoiseNextLeaf, mNoiseUsed, mNoiseFile>>
stateVars == <<mInitialized, mUnlockedSeed>>
walletVars == <<fileVars, addressVars, leafVars, stateVars, mHeldOutpoints>>
chainVars == <<chain, connected, disconnected, sync>>
history == <<sent, session, strayed>>
vars == <<walletVars, rpc, pool, chainVars, events, history>>

Free == [pc |-> "idle", tx |-> None, view |-> {}]
NoSync == [pc |-> "idle", connected |-> {}, disconnected |-> <<>>]

Init ==
    /\ file = None /\ noiseDat = FALSE
    /\ mInitialized = FALSE /\ mUnlockedSeed = FALSE
    /\ mNextKeyIndex = 0 /\ mNextChangeIndex = 0
    /\ mNoiseNextLeaf = 0 /\ mNoiseUsed = {} /\ mNoiseFile = None
    /\ mHeldOutpoints = [o \in Outpoint |-> None]
    /\ rpc = [r \in Thread |-> Free]
    /\ pool = {}
    /\ chain = <<>> /\ connected = {} /\ disconnected = <<>> /\ sync = NoSync
    /\ events = 0
    /\ sent = {} /\ session = {} /\ strayed = {}

-----------------------------------------------------------------------------
(* The chain and the pool as a payment meets them *)

Spent == UNION {Ins[chain[i]] : i \in DOMAIN chain}
SpentLeaves == UNION {Lvs[chain[i]] : i \in DOMAIN chain}
Coins == (Mined \cup UNION {Outs[chain[i]] : i \in DOMAIN chain}) \ Spent

\* CheckTransaction and CheckTransactionWithUTXO.
Valid(t) ==
    /\ t \notin Malformed
    /\ Ins[t] \subseteq Coins
    /\ Lvs[t] \cap SpentLeaves = {}

\* Mempool::AddTransaction finds nothing pending in the way; a fee too low may
\* still refuse the payment.
Admissible(t) ==
    /\ t \notin pool
    /\ \A u \in pool : Ins[t] \cap Ins[u] = {} /\ Lvs[t] \cap Lvs[u] = {}

\* C, the pending payments it conflicts with, and what descends from them.
Cleared(C) ==
    LET hit == {u \in pool : \E c \in C : \/ u = c
                                          \/ Ins[u] \cap Ins[c] # {}
                                          \/ Lvs[u] \cap Lvs[c] # {}}
    IN {u \in pool : \A S \in SUBSET pool :
            /\ hit \subseteq S
            /\ \A p \in S, v \in pool : Outs[p] \cap Ins[v] # {} => v \in S
            => u \in S}

-----------------------------------------------------------------------------
(* The wallet file *)

\* Mutant: the file is written before the new address is in the list.
ImageBehind(key, change, next, used) ==
    [key |-> key, change |-> IF change = 0 THEN 0 ELSE change - 1, next |-> next, used |-> used]

\* What SaveToFile writes when the wallet holds these addresses and leaves.
Image(key, change, next, used) ==
    [key |-> key, change |-> change, next |-> next, used |-> used]

\* SaveToFile: a temporary file, written and synced, takes the old one's place.
SaveToFile(key, change, next, used) ==
    /\ file' = Image(key, change, next, used)
    /\ UNCHANGED events

Happens == events < MaxEvents /\ events' = events + 1

SaveFails == Happens /\ UNCHANGED file

\* LoadFromFile: the addresses and the leaf map become those of the file.
LoadFromFile ==
    /\ file # None
    /\ mNextKeyIndex' = file.key
    /\ mNextChangeIndex' = file.change
    /\ mNoiseNextLeaf' = file.next
    /\ mNoiseUsed' = file.used
    /\ strayed' = strayed \cup {rpc[r].tx : r \in {s \in Thread :
                        /\ rpc[s].pc \in {"built", "rebuilt"}
                        /\ ChangeIx[rpc[s].tx] # None
                        /\ ChangeIx[rpc[s].tx] >= file.change}}
    /\ UNCHANGED <<fileVars, mNoiseFile, sent, session>>

Goto(r, pc) == rpc' = [rpc EXCEPT ![r].pc = pc]

Return(r) == rpc' = [rpc EXCEPT ![r] = Free]

\* Mutant: a wallet that exists on disk does not stop createwallet.
CreateOver(r) ==
    /\ rpc[r].pc = "idle"
    /\ ~mInitialized
    /\ mInitialized' = TRUE
    /\ \/ SaveToFile(mNextKeyIndex, mNextChangeIndex, mNoiseNextLeaf, mNoiseUsed)
       \/ SaveFails
    /\ UNCHANGED <<noiseDat, addressVars, leafVars, mUnlockedSeed, mHeldOutpoints, rpc, pool,
                   chainVars, history>>

\* createwallet.  A failed save is reported, and the wallet is in memory all the same.
Create(r) ==
    /\ rpc[r].pc = "idle"
    /\ ~mInitialized
    /\ ~noiseDat
    /\ mInitialized' = TRUE
    /\ \/ SaveToFile(mNextKeyIndex, mNextChangeIndex, mNoiseNextLeaf, mNoiseUsed)
       \/ SaveFails
    /\ UNCHANGED <<noiseDat, addressVars, leafVars, mUnlockedSeed, mHeldOutpoints, rpc, pool,
                   chainVars, history>>

\* The makenoise program writes noise.dat once.
MakeNoise ==
    /\ ~noiseDat
    /\ noiseDat' = TRUE
    /\ UNCHANGED <<file, addressVars, leafVars, stateVars, mHeldOutpoints, rpc, pool,
                   chainVars, events, history>>

\* loadwallet: a wrong passphrase is noticed only after the file was read.
Load(r) ==
    /\ rpc[r].pc = "idle"
    /\ Happens
    /\ LoadFromFile
    /\ mInitialized' \in {TRUE, mInitialized}
    /\ UNCHANGED <<mUnlockedSeed, mHeldOutpoints, rpc, pool, chainVars>>

\* walletlock.
Lock(r) ==
    /\ rpc[r].pc = "idle"
    /\ mUnlockedSeed
    /\ Happens
    /\ mUnlockedSeed' = FALSE
    /\ UNCHANGED <<fileVars, addressVars, leafVars, mInitialized, mHeldOutpoints, rpc, pool,
                   chainVars, history>>

\* walletunlock, first call: Load when the wallet is not in memory.
UnlockLoads(r) ==
    /\ rpc[r].pc = "idle"
    /\ ~mInitialized
    /\ LoadFromFile
    /\ mInitialized' = TRUE
    /\ Goto(r, "unlock")
    /\ UNCHANGED <<mUnlockedSeed, mHeldOutpoints, pool, chainVars, events>>

\* Unlock.
Unlock(r) ==
    /\ \/ rpc[r].pc = "unlock"
       \/ rpc[r].pc = "idle" /\ mInitialized
    /\ mUnlockedSeed' = TRUE
    /\ IF noiseDat THEN Goto(r, "noise") ELSE Return(r)
    /\ UNCHANGED <<fileVars, addressVars, leafVars, mInitialized, mHeldOutpoints, pool,
                   chainVars, events, history>>

\* LoadNoiseFile: the leaf map and the pointer are the wallet's.
LoadNoiseFile(r) ==
    /\ rpc[r].pc = "noise"
    /\ mNoiseFile' = [next |-> mNoiseNextLeaf, used |-> mNoiseUsed]
    /\ Goto(r, "leaves")
    /\ UNCHANGED <<fileVars, addressVars, mNoiseNextLeaf, mNoiseUsed, stateVars, mHeldOutpoints,
                   pool, chainVars, events, history>>

\* SyncNoiseLeafPointer: the leaves the chain has seen are marked when the
\* highest of them lies past the pointer, and only then.
SyncNoiseLeafPointer(r) ==
    /\ rpc[r].pc = "leaves"
    /\ LET next == IF SpentLeaves = {} THEN 0 ELSE Max(SpentLeaves) + 1
           used == mNoiseUsed \cup SpentLeaves
       IN IF next > mNoiseFile.next
          THEN /\ mNoiseNextLeaf' = next
               /\ mNoiseUsed' = used
               /\ mNoiseFile' = [next |-> next, used |-> mNoiseFile.used \cup SpentLeaves]
               /\ SaveToFile(mNextKeyIndex, mNextChangeIndex, next, used) \/ SaveFails
          ELSE UNCHANGED <<leafVars, file, events>>
    /\ Return(r)
    /\ UNCHANGED <<noiseDat, addressVars, stateVars, mHeldOutpoints, pool, chainVars, history>>

\* getnewaddress: the address is handed out whether or not it was saved.
GetNewAddress(r) ==
    /\ rpc[r].pc = "idle"
    /\ mUnlockedSeed /\ mNoiseFile # None
    /\ mNextKeyIndex < MaxKeys
    /\ mNextKeyIndex' = mNextKeyIndex + 1
    /\ \/ SaveToFile(mNextKeyIndex + 1, mNextChangeIndex, mNoiseNextLeaf, mNoiseUsed)
       \/ SaveFails
    /\ UNCHANGED <<noiseDat, mNextChangeIndex, leafVars, stateVars, mHeldOutpoints, rpc, pool,
                   chainVars, history>>

-----------------------------------------------------------------------------
(* sendtoaddress *)

\* The outpoint pays an address the wallet knows.
Mine(o) ==
    \/ o \in Mined /\ mNextKeyIndex > 0
    \/ \E t \in Tx : /\ o \in Outs[t]
                     /\ ChangeIx[t] # None
                     /\ ChangeIx[t] < mNextChangeIndex

Unheld(S) == {o \in S : Mine(o) /\ mHeldOutpoints[o] = None}

\* Spendable coins of the UTXO set, and outputs of the pending payments in view
\* that none of them spends.  An outpoint may be offered by both.
FromCoins == Unheld(Coins)
FromPool(view) == Unheld(UNION {Outs[p] : p \in view} \ UNION {Ins[p] : p \in view})

Released(t) == [o \in Outpoint |-> IF mHeldOutpoints[o] = t THEN None ELSE mHeldOutpoints[o]]

\* The snapshot of the pool the payment is built from.
SnapshotPool(r) ==
    /\ rpc[r].pc = "idle"
    /\ mUnlockedSeed /\ mNoiseFile # None
    /\ rpc' = [rpc EXCEPT ![r] = [pc |-> "view", tx |-> None, view |-> pool]]
    /\ UNCHANGED <<walletVars, pool, chainVars, events, history>>

\* Inputs CreateTransaction may select for t, and the change address it takes.
Selects(t, view) ==
    /\ Ins[t] \subseteq FromCoins \cup FromPool(view)
    /\ t \in Malformed => Ins[t] \cap FromCoins \cap FromPool(view) # {}
    /\ ChangeIx[t] \in {None, mNextChangeIndex}

\* Mutant: nothing is held until the payment is signed.
CreateTransactionLate(r, t) ==
    /\ rpc[r].pc \in {"view", "again"}
    /\ mUnlockedSeed /\ mNoiseFile # None
    /\ Selects(t, rpc[r].view)
    /\ rpc' = [rpc EXCEPT ![r].pc = IF @ = "view" THEN "built" ELSE "rebuilt", ![r].tx = t]
    /\ IF ChangeIx[t] = None
       THEN UNCHANGED <<mNextChangeIndex, file, events>>
       ELSE /\ mNextChangeIndex' = mNextChangeIndex + 1
            /\ \/ SaveToFile(mNextKeyIndex, mNextChangeIndex + 1, mNoiseNextLeaf, mNoiseUsed)
               \/ SaveFails
    /\ UNCHANGED <<noiseDat, mNextKeyIndex, leafVars, stateVars, mHeldOutpoints, pool,
                   chainVars, history>>

\* CreateTransaction, GetChangeAddress included, whose save may fail unnoticed.
CreateTransaction(r, t) ==
    /\ rpc[r].pc \in {"view", "again"}
    /\ mUnlockedSeed /\ mNoiseFile # None
    /\ Selects(t, rpc[r].view)
    /\ rpc' = [rpc EXCEPT ![r].pc = IF @ = "view" THEN "built" ELSE "rebuilt", ![r].tx = t]
    /\ IF ChangeIx[t] = None
       THEN UNCHANGED <<mNextChangeIndex, file, events>>
       ELSE /\ mNextChangeIndex' = mNextChangeIndex + 1
            /\ \/ SaveToFile(mNextKeyIndex, mNextChangeIndex + 1, mNoiseNextLeaf, mNoiseUsed)
               \/ SaveFails
    /\ mHeldOutpoints' = [o \in Outpoint |-> IF o \in Ins[t] THEN t ELSE mHeldOutpoints[o]]
    /\ UNCHANGED <<noiseDat, mNextKeyIndex, leafVars, stateVars, pool, chainVars, history>>

\* The wallet is locked, or no selection of coins reaches the amount.
CreateFails(r) ==
    /\ rpc[r].pc \in {"view", "again"}
    /\ Return(r)
    /\ UNCHANGED <<walletVars, pool, chainVars, events, history>>

\* The size asks for a higher fee: release what was taken, and build again when
\* the fee was the node's choice, or refuse the call when it was the caller's.
FeeTooLow(r) ==
    /\ rpc[r].pc = "built"
    /\ mHeldOutpoints' = Released(rpc[r].tx)
    /\ \/ rpc' = [rpc EXCEPT ![r].pc = "again", ![r].tx = None]
       \/ Return(r)
    /\ UNCHANGED <<fileVars, addressVars, leafVars, stateVars, pool, chainVars, events, history>>

\* Mutant: nobody asks whether a leaf was used before.
CanSignAnyLeaf(t) ==
    /\ mUnlockedSeed /\ mNoiseFile # None
    /\ \A o \in Ins[t] : Mine(o)
    /\ Cardinality(Leaf \ mNoiseFile.used) >= Cardinality(Ins[t])

\* SignTransaction makes the proofs: a key for every input, enough leaves, none of
\* them used before.
CanSign(t) ==
    /\ mUnlockedSeed /\ mNoiseFile # None
    /\ \A o \in Ins[t] : Mine(o)
    /\ Cardinality(Leaf \ mNoiseFile.used) >= Cardinality(Ins[t])
    /\ Lvs[t] \cap mNoiseUsed = {}

\* The leaves are used up when the proofs are made; the payment leaves the wallet
\* only when the file says so.
SignTransaction(r) ==
    /\ rpc[r].pc \in {"built", "rebuilt"}
    /\ CanSign(rpc[r].tx)
    /\ LET t == rpc[r].tx
       IN /\ mNoiseUsed' = mNoiseUsed \cup Lvs[t]
          /\ mNoiseFile' = [mNoiseFile EXCEPT !.used = @ \cup Lvs[t]]
          /\ \/ /\ SaveToFile(mNextKeyIndex, mNextChangeIndex, mNoiseNextLeaf,
                              mNoiseUsed \cup Lvs[t])
                /\ Goto(r, "signed")
                /\ sent' = sent \cup {t}
                /\ session' = session \cup {t}
             \/ /\ SaveFails
                /\ Return(r)
                /\ UNCHANGED <<sent, session>>
    /\ UNCHANGED <<noiseDat, addressVars, mNoiseNextLeaf, stateVars, mHeldOutpoints, pool,
                   chainVars, strayed>>

\* Locked meanwhile, an input without a key, no leaves left, or a leaf used before.
SignFails(r) ==
    /\ rpc[r].pc \in {"built", "rebuilt"}
    /\ ~CanSign(rpc[r].tx)
    /\ Return(r)
    /\ UNCHANGED <<walletVars, pool, chainVars, events, history>>

\* ValidateAndComputeFee.
Validate(r) ==
    /\ rpc[r].pc = "signed"
    /\ IF Valid(rpc[r].tx) THEN Goto(r, "valid") ELSE Return(r)
    /\ UNCHANGED <<walletVars, pool, chainVars, events, history>>

\* AddTransaction, and the relay of what it accepted.
Submit(r) ==
    /\ rpc[r].pc = "valid"
    /\ \/ Admissible(rpc[r].tx) /\ pool' = pool \cup {rpc[r].tx}
       \/ UNCHANGED pool
    /\ Return(r)
    /\ UNCHANGED <<walletVars, chainVars, events, history>>

\* sendrawtransaction with a payment the wallet signed before.
SendRaw(r, t) ==
    /\ rpc[r].pc = "idle"
    /\ t \in sent
    /\ Happens
    /\ rpc' = [rpc EXCEPT ![r] = [pc |-> "signed", tx |-> t, view |-> {}]]
    /\ UNCHANGED <<walletVars, pool, chainVars, history>>

-----------------------------------------------------------------------------
(* Blocks and SyncMempoolWithChain *)

\* TrimLocked evicts a payment and what descends from it; ExpireLocked removes it
\* alone.  Which, and when, depends on the clock and on the payments of others.
Drop(t) ==
    /\ t \in pool
    /\ pool' \in {pool \ Cleared({t}), pool \ {t}}
    /\ UNCHANGED <<walletVars, rpc, chainVars, events, history>>

\* A block with a payment of this wallet joins the active chain.
Connect(t) ==
    /\ t \in sent /\ Valid(t)
    /\ Happens
    /\ chain' = Append(chain, t)
    /\ connected' = connected \cup {t}
    /\ UNCHANGED <<walletVars, rpc, pool, disconnected, sync, history>>

\* A reorganisation detaches the last block.
Disconnect ==
    /\ chain # <<>>
    /\ chain' = SubSeq(chain, 1, Len(chain) - 1)
    /\ disconnected' = Append(disconnected, chain[Len(chain)])
    /\ session' = session \ {chain[Len(chain)]}
    /\ UNCHANGED <<walletVars, rpc, pool, connected, sync, events, sent, strayed>>

\* TakeMempoolSync and RemoveForBlock.
SyncTake ==
    /\ sync.pc = "idle"
    /\ connected # {} \/ disconnected # <<>>
    /\ pool' = pool \ Cleared(connected)
    /\ sync' = [pc |-> "release",
                connected |-> connected \cup {disconnected[i] : i \in DOMAIN disconnected},
                disconnected |-> disconnected]
    /\ connected' = {} /\ disconnected' = <<>>
    /\ UNCHANGED <<walletVars, rpc, chain, events, history>>

\* ReleaseOutpointsFor each payment of the blocks, connected or detached.
SyncRelease ==
    /\ sync.pc = "release"
    /\ \/ /\ sync.connected = {}
          /\ sync' = [sync EXCEPT !.pc = IF sync.disconnected = <<>> THEN "idle" ELSE "accept"]
          /\ UNCHANGED mHeldOutpoints
       \/ \E t \in sync.connected :
            /\ mHeldOutpoints' = Released(t)
            /\ sync' = [sync EXCEPT !.connected = @ \ {t}]
    /\ UNCHANGED <<fileVars, addressVars, leafVars, stateVars, rpc, pool, chain, connected,
                   disconnected, events, history>>

Resurrected == [sync EXCEPT !.disconnected = Tail(@),
                            !.pc = IF Tail(sync.disconnected) = <<>> THEN "idle" ELSE "accept"]

\* AcceptToMempool of a detached payment: the check, then the addition.
SyncAccept ==
    /\ sync.pc = "accept"
    /\ sync' = IF Valid(Head(sync.disconnected)) THEN [sync EXCEPT !.pc = "add"] ELSE Resurrected
    /\ UNCHANGED <<walletVars, rpc, pool, chain, connected, disconnected, events, history>>

SyncAdd ==
    /\ sync.pc = "add"
    /\ LET t == Head(sync.disconnected)
       IN \/ Admissible(t) /\ pool' = pool \cup {t}
          \/ UNCHANGED pool
    /\ sync' = Resurrected
    /\ UNCHANGED <<walletVars, rpc, chain, connected, disconnected, events, history>>

\* The process ends: the files and the chain remain.
Restart ==
    /\ Happens
    /\ mInitialized' = FALSE /\ mUnlockedSeed' = FALSE
    /\ mNextKeyIndex' = 0 /\ mNextChangeIndex' = 0
    /\ mNoiseNextLeaf' = 0 /\ mNoiseUsed' = {} /\ mNoiseFile' = None
    /\ mHeldOutpoints' = [o \in Outpoint |-> None]
    /\ rpc' = [r \in Thread |-> Free]
    /\ connected' = {} /\ disconnected' = <<>> /\ sync' = NoSync
    /\ session' = {}
    /\ UNCHANGED <<fileVars, chain, sent, strayed>>

\* It dies, and the pool with it.
Crash ==
    /\ Restart
    /\ pool' = {}

\* It is stopped and started: mempool.dat brings back what is still valid.
StopAndStart ==
    /\ Restart
    /\ \A r \in Thread : rpc[r].pc = "idle"
    /\ sync.pc = "idle" /\ connected = {} /\ disconnected = <<>>
    /\ pool' = {t \in pool : Valid(t)}

Next ==
    \/ MakeNoise
    \/ \E r \in Thread :
        \/ Create(r) \/ Load(r) \/ Lock(r) \/ UnlockLoads(r) \/ Unlock(r)
        \/ LoadNoiseFile(r) \/ SyncNoiseLeafPointer(r) \/ GetNewAddress(r)
        \/ SnapshotPool(r) \/ CreateFails(r) \/ FeeTooLow(r)
        \/ SignTransaction(r) \/ SignFails(r) \/ Validate(r) \/ Submit(r)
        \/ \E t \in Tx : CreateTransaction(r, t) \/ SendRaw(r, t)
    \/ \E t \in Tx : Drop(t) \/ Connect(t)
    \/ Disconnect \/ SyncTake \/ SyncRelease \/ SyncAccept \/ SyncAdd
    \/ Crash \/ StopAndStart

Spec == Init /\ [][Next]_vars

-----------------------------------------------------------------------------
(* Properties *)

Pcs == {"idle", "unlock", "noise", "leaves", "view", "again", "built", "rebuilt", "signed",
        "valid"}

Calls == [pc : Pcs, tx : Tx \cup {None}, view : SUBSET Tx]

\* The state stays within its types, the thread-local copies of payments included.
WalletTypeOK ==
    /\ file \in Images \cup {None}
    /\ noiseDat \in BOOLEAN /\ mInitialized \in BOOLEAN /\ mUnlockedSeed \in BOOLEAN
    /\ mNextKeyIndex \in Nat /\ mNextChangeIndex \in Nat /\ mNoiseNextLeaf \in Nat
    /\ mNoiseUsed \in SUBSET Leaf
    /\ mNoiseFile \in Leaves \cup {None}
    /\ mHeldOutpoints \in [Outpoint -> Tx \cup {None}]
    /\ rpc \in [Thread -> Calls]
    /\ \A r \in Thread :
        rpc[r].pc \in {"built", "rebuilt", "signed", "valid"} <=> rpc[r].tx \in Tx
    /\ \A r \in Thread : rpc[r].pc \in {"signed", "valid"} => rpc[r].tx \in sent
    /\ \A r \in Thread : rpc[r].pc = "leaves" => mNoiseFile # None
    /\ chain \in Seq(sent) /\ disconnected \in Seq(sent)
    /\ sync \in [pc : {"idle", "release", "accept", "add"}, connected : SUBSET sent,
                 disconnected : Seq(sent)]
    /\ sync.pc \in {"accept", "add"} => sync.disconnected # <<>>
    /\ pool \subseteq sent /\ connected \subseteq sent
    /\ sent \subseteq Tx /\ session \subseteq sent

\* SignTransaction: "The leaf pointer must reach the disk before this transaction is
\* allowed to leave the wallet."  The leaves of every payment that left are on
\* disk at any later moment, through failed saves, reloads, crashes and a second
\* createwallet.
SentIsRecorded ==
    sent # {} => file # None /\ \A t \in sent : Lvs[t] \subseteq file.used

\* A leaf authorises one payment: no two that left the wallet reveal the same one.
NoLeafReuse ==
    \A s, t \in sent : s # t => Lvs[s] \cap Lvs[t] = {}

Confirmed == {chain[i] : i \in DOMAIN chain}

\* The holds keep the wallet from spending an output twice: payments of one run of
\* the node that no block has confirmed share no input, while none was detached.
NoSelfConflict ==
    \A s, t \in session \ Confirmed : s # t => Ins[s] \cap Ins[t] = {}

\* wallet_manager.h: "the wallet should never have built it", of a payment that
\* reaches for an output an earlier one took.  No payment is made whose input a
\* payment of the same run has taken, confirmed or not.
NeverRespent ==
    \A s, t \in session : s # t => Ins[s] \cap Ins[t] = {}

\* The change of a payment that left goes to an address the wallet file knows,
\* although GetChangeAddress ignores a failed save; a reload between building and
\* signing is the exception.
ChangeIsKnown ==
    \A t \in sent \ strayed : ChangeIx[t] # None => ChangeIx[t] < file.change

\* wallet_manager.h: "an output is never held after the spend that claimed it has
\* gone".  A held output belongs to a payment that is being made, is pending, or
\* is in a block the wallet has still to be told about.
HeldIsAlive ==
    \A o \in Outpoint : mHeldOutpoints[o] # None =>
        \/ \E r \in Thread : rpc[r].tx = mHeldOutpoints[o]
        \/ mHeldOutpoints[o] \in pool \cup connected \cup sync.connected
=============================================================================
