# A TLA+ model of the MONEU / Qmask-Core node

The repository holds a proof-of-work node in C++ (`src/src/`): a UTXO ledger whose
inputs are authorised by one-time *noise leaves*, a LevelDB-backed chain state, a
mempool, a CPU miner, a P2P layer, a wallet and an RPC server. This directory
specifies the parts of it that keep state across calls, across threads and across
process deaths, checks them with TLC and proves what can be proved with TLAPS.

Paths below are relative to `src/src/` unless they say otherwise. `src/src/main.cpp`,
`src/src/net.cpp`, `src/src/chainparams.cpp` and `src/src/consensus/pow.cpp` are
reduced stand-ins; the complete `main.cpp`, `chainparams.cpp` and `pow.cpp` the node
code is written against are under `src/reference/MONEU-main/MONEU-main/src/`.

## 1. The system

| Component | State | Operations | Hard behaviour | What makes it correct |
|---|---|---|---|---|
| UTXO set (`storage/utxo_set.cpp`) | `mCache` of coins with dirty and spent flags, three leaf sets, `mBestBlock`, a database | apply, replay and undo a transaction, add or spend a coin, mark or unmark a leaf, flush, clear | a coin lives in two places; a flush is many batches; some writes bypass the cache | cache and database never contradict each other; a commit is complete; it behaves as one store |
| Chain state (`storage/chain_state.cpp`) | tip, height table, queues for the mempool, `DB_CHAIN_BEST` | `Initialize` (genesis, replay), `AcceptBlock`, `ActivateBestChain`, connect, disconnect, `Flush`, `TakeMempoolSync` | three databases without a common transaction; death between any two writes; reorganisations that fail half way | the coins are those of the active chain; the disk can always be reconciled; the greatest work wins |
| Block store (`storage/block_data.cpp`) | block files, block index, undo records, transaction index | `WriteBlock`, `WriteBlockConnected`, reads | `WriteBlock` is several writes, `WriteBlockConnected` one batch | undo record and index agree with the active chain |
| Validation (`validation/*.cpp`) | none | check a block or transaction against coins and leaves | used against the coins of the tip of the moment, for blocks of any branch | what is connected is valid where it stands |
| Mempool (`consensus/mempool.cpp`) | entries, indexes of spent outpoints and leaves, byte count, rolling minimum fee | add, remove, remove for block, expire, trim, save, load | admission races with connected blocks; limits on ancestors, descendants and size | no two entries conflict; no child outlives an evicted parent; what was evicted stays out |
| Miner (`miner.cpp`) | two atomic flags, worker threads, queue of found blocks | start, stop, build template, search, submit | template read under three locks; submitter may end before workers; Start and Stop run on several threads without a lock | no found block is lost; Stop returns, and threads are left only while a Stop joins them; a torn template is given up |
| P2P: block download (`net/net.cpp`, `onBlock` in `main.cpp`) | blocks in flight, the stalling peer, parked orphans | inventory, request, receive, check every 20 s | late answers after a timeout; a peer dropped while its inventory is handled | requests on the books are on the wire and end; the height an honest peer reported is reached |
| P2P: connections (`net/net.cpp`) | table of nodes, connections per address, `connected` flags, handshake timers | accept, connect, handshake, evict, disconnect | any thread may disconnect any node, the flag is tested and reset in two steps; VERSION and VERACK come in any order or not at all | no place leaks; inbound peers stay bounded; silent peers lose their slot, but for one case |
| Wallet (`node/wallet_manager.cpp`, `wallet/*`) | seed, address indexes, used leaves, held outpoints, `wallet.dat` | create, load, lock, unlock, new address, build, sign, release | saves that fail, reloads, two RPC threads, reorganisations, restarts | no leaf and no coin is used twice; what left the wallet is on disk |
| RPC server (`rpc/rpc_server.cpp`) | connections with deadlines, work queue, worker pool, warmup and queue switches | accept, read, dispatch, execute, write, interrupt, stop | event thread, workers and main thread share connections and node | one writer per socket; every queued request is answered; slots come back |
| Node start and shutdown (`main.cpp`) | shutdown flag, the parts of the node | end of warmup, `Shutdown`, `SyncMempoolWithChain`, `AcceptToMempool` | parts are destroyed while threads still use them | a shutdown ends, and nothing uses what it destroyed |
| Logging, primitives, cryptography | - | serialisation, hashing | - | - |

`AcceptBlock` is called by the P2P handler, by the miner and by the RPC server; all of
it runs under `ChainState::mMutex`. After it returns the caller asks
`TakeMempoolSync` for the payments that joined and left the active chain and passes
them to the mempool. Readers (RPC, wallet, miner) go through the same mutex, the UTXO
set has one of its own below it. So the methods of the storage layer do not interleave
with each other; what cuts them in two is an exception or the death of the process. The
miner, the network, the wallet's callers and the RPC server are where threads
interleave, and each of their models says what one step of a thread is.

`PROJECT.json` lists the components with their status and the hazards with the line
where each bites.

## 2. Modules

| Module | Models | Notes |
|---|---|---|
| `Ledger` | transactions, outpoints, leaves, coins | constants only; a coin keeps its height and coinbase flag |
| `CoinStore` | what `UTXOSet` promises: one view of coins and leaves, its copy on disk, the commit marker | the abstract specification; `ChainState` is built over its actions |
| `UTXOSet` | `storage::UTXOSet` with cache, dirty flags, leaf sets and flush batches | implements `CoinStore` (`RefinesCoinStore`) |
| `UTXOSet_proofs` | theorems about `UTXOSet` | TLAPS |
| `BlockTree` | the tree of blocks a node may be offered, validation, and the reference ledger `CoinsAt`, `LeavesAt` | blocks are atoms, their contents constant functions |
| `ChainState` | `storage::ChainState` with `BlockData` and the two databases | one action per write that reaches a disk |
| `ChainState_proofs` | theorems about `ChainState` | TLAPS |
| `Mempool` | `Mempool`, in memory | `AddTransaction` is several steps, the other methods one |
| `Mempool_proofs` | theorems about `Mempool` | TLAPS |
| `Miner` | `node::Miner`: workers, submitter, the callers of Start and Stop | one access to shared state per step |
| `Miner_proofs` | theorems about `Miner` | TLAPS |
| `Wallet` | `node::WalletManager` with the RPC threads that pay, the wallet file, the pool, the chain and `SyncMempoolWithChain` | composes wallet, pool and chain at the level of payments; extends `Ledger` |
| `Wallet_proofs` | theorems about `Wallet` | TLAPS |
| `BlockDownload` | requests, timeouts and orphans of `net::ConnManager` and `onBlock` | time counted in checks of the download thread |
| `BlockDownload_proofs` | theorems about `BlockDownload` | TLAPS |
| `Peers` | who is connected: `AcceptLoop`, `ConnectToAddress`, handshake, eviction, `DisconnectNode` | four threads |
| `Peers_proofs` | theorems about `Peers` | TLAPS |
| `RPCServer` | `RPCConnection`, `RPCServer`, and `Shutdown` in `main.cpp` | event thread, workers, main thread |
| `RPCServer_proofs` | theorems about `RPCServer` | TLAPS |
| `MCUTXOSet`, `MCChainState`, `MCMempool`, `MCMiner`, `MCWallet` | the small instances; the others take plain values in their cfg | |

### UTXOSet

Each public method that changes state is one action, because each holds `mMutex`
throughout. A flush is split: `FlushBegin` writes the marker and erases the best block
(one batch), `FlushBatch` writes `BatchEntries` dirty entries in any order (the map is
unordered), `FlushCommit` writes the rest, the leaves and the best block, then drops
spent entries. `Destroy` is the same last batch in the destructor. `Crash` may come
between any two of them. `FlushThrows` (only in `FailSpec`) is a batch whose write
throws `DBError`; the entries in it are already marked clean.

`UndoTransaction` erases each output in the database by a write of its own; the erasures
of one transaction are one action, so a crash between two outputs of the same
transaction is not distinguished. `UTXOEntry.isNew` is never read and is left out.

### ChainState

The variables are the ones of the class, the records of the three databases, and the
local variables a method keeps across a write (`fork`, `branch`, `connected`, `todo`,
`applied`, `spent`). `pc` is the next step, `op` the method that takes it:

- `Start`, `Check`, `ReplayBack`, `ReplayForward`, `ReapplyTx`, `ReapplyDone`,
  `ReplayUndone`, `ReplayDone`, `Initialized` - `Initialize` and
  `ReplayBlocksLocked`; `ApplyTx`, `StoreGenesis`, `IndexTx`, `GenesisTip` on an empty
  directory. `refused` is the exception that keeps a node from starting.
- `AcceptBlock`, `IndexTx`, `Activate` - `AcceptBlock` up to the comparison of work. A
  block that is refused or known changes nothing and is not an action.
- `DisconnectTip`, `UndoTx`, `TipBack`, flush, `Disconnected` - `DisconnectTipLocked`.
- `ConnectBlock`, `ApplyTx` or `ApplyFails`, `Unapply`, `Unapplied`, `RecordBlock`,
  `TipForward`, flush, `Connected` - `ConnectBlockLocked` and `ApplyBlockTwoPhase`.
- `RolledBack` - `RollbackConnectedLocked` when it is done.
- `FlushBegin`, `FlushSome`, `FlushEnd`, `Closed` - the commit of the UTXO set, through
  the actions of `CoinStore`. `Crash` - the process dies where `CrashAt` allows.

Left out: `DB_CHAIN_GENESIS` (guards against the directory of another network), block
files and their statistics, exceptions of the chain and block databases, and power
loss (writes that were acknowledged but not synced). The difficulty a block must have
and the median time it must exceed depend only on its own branch; the verdict on them
is the constant `HeaderOK`.

### Mempool

Every public method holds `mMutex`, so methods do not interleave. `AddTransaction`
(t, S) is a call with argument `t` that first expires the entries `S`; it goes on with
`RefuseConflict` (`ValidateForPool` and the two indexes), `RefusePolicy` (fee rate,
ancestors, descendants) or `Insert`, then one `Trim` per turn of `TrimLocked` and
`Added`. `lock` and `adding` are where it stands. `RemoveTransaction`, `RemoveForBlock`,
`GetMinFeeRate` (it applies the decay that is due) and `Clear` are one action each.
`mByFeeRate` and `mByTime` are the relation `mOrder` with `FeePerK`; `evicted` is a
history variable for one property. There is no clock: expiry takes any number of the
oldest entries and the rate may decay to any lower value, within what
`GetMinFeeRateLocked` can leave. A descendant set is the least set closed under one step
of the breadth-first search, which TLC can evaluate and TLAPS can reason about.

The callers may offer any payment at any time. How the node checks a payment before it is
added, and puts the payments of a detached block back, is part of `Wallet`.

### Miner

A worker goes round `ReadHeight`, `ReadBits`, `ReadPrev` (the three locked reads of
`BuildBlockTemplate`), then `FindNonce` or `GiveUp`, then `Push`; `TemplateFails` is an
exception while the template is built. The submitter goes round `SubmitLoop` (its
condition, read without the mutex), `Woken`, `Take`, `SubmitBlock`, `Drained`.
`tips` is the sequence of tips the chain had, and `TipMoves` is a block from elsewhere.
A template is torn when its height or bits belong to another tip than its parent.

`Start` and `Stop` are called by RPC workers (`startmining`, `rpc_server.cpp:3118`;
`stopmining`, `:3139`) and by the main thread (`Shutdown`, `main.cpp:427`), and no lock is
held over them. Each `Caller` takes them apart: `Start` (the test of `mMining`, `miner.cpp:460`),
`StartFlags`, `StartThreads`; `Stop` (the test, line 497), `StopFlags`, `JoinWorkers`,
`JoinSubmitter`. Calls meet in three ways:

- a `Stop` that finds `mMining` down goes to `returned` at once, and `Return` is its
  caller going on. The flag may be down because another `Stop` stored it (line 499) and is
  still joining: `Shutdown` then proceeds while the threads `stopmining` stops still run.
  `StopLeavesNobody` (section 6) is violated by this; what holds is `StoppedIsJoined`:
  threads are left with the flag down only while some `Stop` has yet to join them;
- a `Start` passes its test while a `Stop` is joining;
- two `Start` or two `Stop` pass their tests together.

In the last two both calls come to use `mWorkers`, `mWorkerRates` and `mSubmitter`, which
nothing protects: a data race, a join of one thread by two, or an assignment to a joinable
`std::thread`, which terminates the process. `Collide` is that moment; it sets `broken` and
the model stops, since the language gives what follows no meaning. `CallsKeepApart`
(section 6) is violated by it. The properties speak of executions up to the first
collision, and `Shutdown`'s own next steps are in `RPCServer`.

A block that is pushed after the submitter has left waits in `mFound` for the next
`Start`, which `NoneLost` and `FoundIsSubmitted` allow.

### Wallet

A payment is an atom whose inputs, leaves and change index are constant functions; which
of them `CreateTransaction` may build is `Selects`. A step of an RPC thread is one call of
a method of the wallet, the pool or the UTXO set, so everything else may happen between
the calls of `sendtoaddress`: `SnapshotPool`, `CreateTransaction` (with
`GetChangeAddress` and its save), `FeeTooLow` and a second build, `SignTransaction`,
`Validate`, `Submit`. `walletunlock` is `UnlockLoads`, `Unlock`, `LoadNoiseFile`,
`SyncNoiseLeafPointer`. Each save happens whole or fails (`SaveFails`), and what the
caller does then is what the code does: `SignTransaction` gives up, the others go on.
`Connect` and `Disconnect` move the chain, `SyncTake`, `SyncRelease`, `SyncAccept`,
`SyncAdd` are `SyncMempoolWithChain` and `AcceptToMempool` with what may come between
their reads and writes. `Crash` loses memory and pool, `StopAndStart` keeps
`mempool.dat`. `sent`, `session` and `strayed` are history variables.

What the model makes visible beside its properties: the pool is copied before the UTXO
set is read, so a block in between offers one output twice and the payment names it
twice (`Malformed`; it is refused after its leaves were used up). Change of a pending
payment is offered for spending although admission accepts only inputs of the UTXO set.
Held outpoints are lost in a restart and released when a block is detached, so the wallet
may then build a rival of its own pending payment; `NoSelfConflict` is stated of one
run of the node for that reason. It is also stated only of payments no block has
confirmed: once one is confirmed its holds are released, and a thread that copied the
pool before that builds on the outputs it spent (`NeverRespent`, section 6). `SyncNoiseLeafPointer` marks the leaves of the chain only
when the pointer moves. A `loadwallet` between building and signing forgets a change
address whose save had failed (`strayed`). `ImportMnemonic` has no caller in the node.

### BlockDownload

The peers share one chain, a block is its height. The io thread handles one message at a
time, `HandleInv` starting on an inventory, `HandleInvItem` per item, `SendGetData` at its
end; the download thread's `DownloadCheck` (`CheckDownloadProgress` and
`SyncFromAllPeers`) may come between two items. `ReceiveBlock` is `HandleBlock` with
`onBlock`: known, parked, or connected with the parked blocks that follow (`TakeOrphansOf`). A peer that
comes back has a new id; what still names the old one names `Gone`. Clocks are counts
of checks, ordered as the constants of the code are. An honest peer answers within
`AnswerChecks`; any other may report any height and never answer. A handshake here is
VERSION and then VERACK; a peer that keeps one back is part of `Peers`.

`ReportedIsReached` speaks of the height in an honest peer's VERSION, because the node never
updates it: when the peers' chain has grown since, a block in flight at a silent peer is
skipped in the inventory of the others, and after the drop nobody is asked until a next
block is announced. Parked blocks are downloaded again when they are listed again, since
the test for a known block does not look among the orphans. A request entered for a peer
that went while its inventory was handled is freed only by its expiry.

### Peers

Each thread has a program counter, because `DisconnectNode` is `Enter` (the test of the
flag), `Close` (flag, timer, socket, count) and `RemoveNode`, and the accept thread runs
it in the middle of an eviction. A place of an address is counted in `Accept` or
`Connect`, before there is a node, and given back by `Close`, `Refuse` or `ConnectFails`.
Node objects are reused when nothing refers to them, which bounds the model. A peer sends
VERSION and VERACK in either order, one of them, or none (`HandleVersion`,
`HandleVerack`), and may fall silent at any moment. `HandleVerack` cancels the handshake
timer without asking for VERSION (`net.cpp:808-810`), as the code does. A peer that sends
VERACK alone (`HalfShaken`) has no timer from then on, and is not fully connected, so the
ping loop and the eviction pass it by: it is the exception `SlotsComeBack` makes, and
`EverySlotComesBack` (section 6) is violated by it. Bans, network groups and the ranking
among candidates are left out: any candidate may be chosen.

An address has one port: where `IsAlreadyConnected` compares address and port over all
nodes (`net.cpp:528-529`), the model compares addresses over the outbound ones, because
those who connected to us have ports of their own. `AddNode` runs on RPC workers
(`rpc_server.cpp:1926`) beside `ConnectLoop`; the model gives both to one connect thread,
so two connection attempts to one address never overlap. No property depends on either.

The opposite error of a leak does happen: two threads may both find the flag up, and the
address is then counted down twice, so that it gets a place more than
`MAX_CONNECTIONS_PER_IP`; with `MaxConnections = 3`, `MaxPerIP = 2` and `MaxNodes = 3`
TLC shows it for `count[ip] >= Holders(ip)`. `AddNode` does not look at `maxOutbound`.

### RPCServer

The event thread runs one handler at a time: `OnAccept`, `OnAcceptForbidden`, the
outcomes of a read (`OnReadClosed`, `OnReadError`, `OnReadBad`, `Dispatch`),
`OnDeadline`; a refusal is written on that thread (`RefusalWritten`). The workers `Wait`,
`Take`, run `BuildResponseBody` and `CommandsEnd`, and write (`ReplyWritten`). The main
thread leaves warmup and, once `gShutdown` is set, goes through `Shutdown`: `StopMiner`,
`Interrupt`, `InterruptWaiters`, `FreeConnManager`, `FreeChainState`, `StopServer`. A
connection lives as long as a handler, the queue or a thread holds it (`Alive`), which is
also what `mActiveConnections` counts. Cancelling a timer whose time has passed leaves its
handler in the queue. The commands are those that act on threads of the node: `stop`
and `startmining`; every other command only uses the node while it runs.

## 3. Runs

| Run | Instance | Shows |
|---|---|---|
| `utxo_cache` | two transactions (one coinbase), three outpoints, one leaf, batches of two, crashes anywhere | coherence, complete commits, refinement of `CoinStore` |
| `chain_crash` | 8 blocks on 4 branches, two invalid on connection, 2 deaths where `Survivable` allows | the disk is always recoverable, nothing is lost between methods, coins and leaves are those of the active chain |
| `chain_reorg` | 9 blocks on 4 branches, two invalid on connection, 2 deaths at any step | no spent coin or used leaf comes back, the node always restarts, height table and transaction index, validity and mempool queues after every reorganisation, failed ones included |
| `chain_converge` | 6 blocks on 3 branches, fair | the greatest work wins in every arrival order |
| `mempool` | five payments: a chain of three, a rival for an outpoint, a rival for a leaf; room for three bytes | exact indexes and byte count, no conflicts, budget, eviction that lasts, no child left behind, blocks cleared |
| `miner` | one worker, two callers of Start and Stop, two foreign blocks, two found, two starts, bits that change | no found block lost or doubled, Stop returns, threads left only while a Stop joins them, found blocks are submitted, torn templates dropped |
| `wallet` | two RPC threads, four related payments, three leaves, two events | leaves and change on disk before a payment leaves, no leaf twice, no coin twice |
| `download` | an honest and a silent peer, three blocks, a window of two | limits and books of requests, their end, the reported height is reached |
| `rpc` | three clients, two workers, two connections at once | one writer, queued requests answered, slots returned, shutdown ends |
| `peers` | one address, three nodes, two places, room for one | no leak, inbound bound, no dead entry, slots of silent peers come back unless all are half shaken |
| `chain_undo_crash` | 4 blocks, one death in the undo of a block | violation, see section 6 |
| `rpc_shutdown` | one client, one worker | violation, see section 6 |

The type invariants of the modules whose runs do not list one (`TypeOK`, `ChainTypeOK`,
`PoolTypeOK`, `MinerTypeOK`, `WalletTypeOK`, `RPCTypeOK`, `PeersTypeOK`) hold on the same
instances; they state the types the proofs start from.

`MCMempool` has room for less than the chain, so evictions happen with and without
descendants, and a rate step of two over fee rates one to three, so that a payment at the
minimum, just below and just above it all exist. Two ancestors are allowed, so the third
link of the chain is refused in one order of arrival and admitted in another.

`MCChainState` draws the tree. It was chosen so that the interesting cases happen:
the same payment on two branches (A1 and B2), a payment that spends another (A2 spends
A1's), a block that is valid when it arrives and not when it is connected (B3 repeats a
leaf of B2), a header that fails only on connection (D1), branches of different length
and of different work (A2 is lower than B3 and C2 has more work than A2), and
a coinbase with a fee (F1). Two deaths are enough to interrupt the repair of an
interrupted commit; a third meets the same states on disk. `MaxDisconnected` is 1 or 2,
so the buffer overflows. Batches of two of three outpoints give full and partial
batches. `chain_crash` leaves out deaths while a block is being taken off and while an
idle node flushes: its three invariants do not survive those (section 6).
`chain_reorg` allows every death (`CrashAt` is the set of all methods) and states what
does.

`MCWallet` is a table of payments from which a cfg picks. In the run, `a` and `d` spend
two coins with different change addresses and `d` calls for the leaf `a` uses, `f` spends
the change of `a` while it may be pending, and `ee` names that change twice.
`MaxEvents` bounds what the environment and the operator do: a failed save, a
reload, a lock, a restart, a block, a resend. Two of them suffice for a failed save
followed by a restart, a block between two steps followed by its detachment (which costs
nothing), and a reload after a failed save. In `MCMiner` the bits change at height 2,
so a template may be torn in its bits, its height or both, and one foreign tip is
enough for each; the second start meets a block the first stop left in the queue. Two
callers are enough, because calls meet in pairs. One worker is: workers meet one another only
in the queue and in the tips, one worker may queue two blocks found on one tip, and
`TipMoves` changes the tip under it; the theorems about `Miner` hold for any workers and
callers. In
`BlockDownload` the silent peer may take the only free request for the block the honest
one has, stall, time out or expire; a window of two with a share of one makes both
limits bind. In `RPCServer` three clients against two connections and a queue of two
reach the refusal and a deadline that passes at every stage. In `Peers` a
table for one with two places per address makes every accept meet capacity, evict or be
refused, and three nodes let one be closed while two others are opened.

Deadlock is not checked where a state may rightly be the last: `miner` and `peers` stop
at their bounds, `rpc` ends with the process, and in `wallet` a `noise.dat` made before
the wallet keeps `createwallet` from ever working.

## 4. Fairness

`ChainState`: `FairSpec` assumes weak fairness of `Step`: a method that holds the mutex
runs to its end, which is how threads work, no step of a method waits for anything. It
assumes strong fairness of `AcceptBlock(b)` for every block: the node is idle again and
again, and a block it lacks is offered again and again, because peers announce their
tip, `CheckDownloadProgress` requests what is missing, and a block whose parent was
unknown is asked for again. Nothing is assumed of `Crash`, `Flush`, `TakeMempoolSync` or
of how a flush divides its batches.

`Miner`: threads run, and a call of `Start` or `Stop` that has begun goes on, each caller for
itself, until two collide; a worker reaches `GiveUp` because
`TEMPLATE_REFRESH_MS` passes, the submitter leaves its wait because `wait_for` times out.
Finding a nonce, foreign blocks, failures, `Start` and `Stop` are not assumed.

`BlockDownload`: the two threads run on; an honest peer can be connected to, answers its
GETBLOCKS and its GETDATA, and the answer is handled although the io thread has other
messages in between (strong fairness: it is free again and again). Nothing is assumed of
the other peers. That an honest peer answers within `AnswerChecks` checks is a guard of
the clock, not fairness.

`RPCServer`: deadlines pass and their handlers run, a send ends within the timeout the code
sets on the socket, commands return, every thread runs. Clients and signals owe nothing.

`Peers`: a disconnect that has begun goes on, the handshake timer expires and is handled,
the ping loop finds a silent peer it looks at. Nothing is assumed of peers, not even the
order of their messages, of the accept and connect threads, or of the operator.

`UTXOSet`, `Mempool` and `Wallet` state safety only.

## 5. Proofs

`UTXOSet_proofs` proves, for any transactions, outpoints, leaves and batch size:

- `TypeCorrect`: `Spec => []TypeOK`.
- `Coherence`: `Spec => []CacheCoherent`. The inductive invariant is
  `TypeOK /\ CacheCoherent`, whose conjuncts need each other:
  `CleanEntriesAreOnDisk` alone is not preserved by a commit, which drops spent entries
  only because `NoSpentCleanEntry` and the written batch say the database holds nothing
  for them; `LeafSetsAgree` keeps the union and difference a commit writes equal to what
  readers saw; `ClosedIsEmpty` is what makes a restart read the disk and nothing else.
- `OneLeafView`: `Spec => []LeafReadsAgree`. `GetHighestSpentNoiseLeaf`, from which the
  wallet takes its next leaf, considers the leaves `IsNoiseLeafSpent` calls spent; it
  needs the disjointness in `LeafSetsAgree`.
- `CommitComplete`: the action property `CommitIsComplete`, from the same invariant.
- `Refinement`: `Spec => RefinesCoinStore`. Each action of `UTXOSet` maps to one of
  `CoinStore` under the mapping that reads the cache through; a batch and a dropped
  entry leave the view unchanged because clean entries are on disk.

`ChainState_proofs` proves every invariant the runs check of `ChainState`, for any tree of
blocks, any order of arrival, any number of deaths and any limit of the buffer. It does so
from two inductive invariants, because two things are true of a node that dies.

Where `CrashAt \subseteq Survivable` (the process does not die while `DisconnectTip` undoes
a block, nor while a flush that was asked for by `Flush`, `Sync` or the destructor is
written), the state is exact. This is a hypothesis of three theorems only:

- `StateAlwaysMatchesTip`, `AlwaysRecoverable` and `IdleAlwaysDurable`
  from `ChainInv`. It names, for each step of a method, the block whose coins are in memory
  and the blocks whose coins are on disk. On disk there are four cases: `Empty`,
  `Committed` to the recorded tip, `Forward` (the tip is recorded, the UTXO database
  belongs to its parent, each coin on either side of the block) and `Backward` (the same
  after a block was taken off). In memory a block on its way is described from both
  ends: `Advance` says which coins may still be the old ones, `Retreat` which may already
  be the new ones, so that completing a block, giving it up half way and replaying it over
  an unknown mixture are all instances of the same two lemmas. `UndoInv` says that an undo
  record is what its block took and that its block made nothing that was there before;
  without the second half undoing is not the inverse of applying. That a block spends
  none of its own outputs (`Flat`) follows from validation against a tip: the leaves of a
  payment it would spend from would be used, a coinbase would be immature.

A death at any step, and any number of them, can lose coins and can leave leaves used that
no block of the active chain reveals (section 6). It can do nothing in the other
direction. The remaining theorems have no hypothesis about deaths:

- `NothingEverRevived` (`NothingRevived`) and `NodeNeverRefuses` (`NeverRefuses`) from
  `SafeInv`, which replaces the equalities of `ChainInv` by bounds. `Below`: a set that may
  lack coins of a block and has no others. `Lacks`: one that lacks at most what a replay has
  still to bring. `Partly`: one on its way through a block, with the new coins of the applied
  transactions only. On disk `Still` is a database that belongs to the tip or forgot what
  it belongs to (an interrupted idle flush, repaired, commits the zero hash), `Lagging` one
  a block behind and `Leading` one a block ahead. After `Zero` a replay starts from the
  genesis block over coins that are already those of the tip: `ReplayBlocksLocked` only
  repeats transactions, so a coin spent on the way is put back and taken again, and the
  argument is that what is left to apply (`EndOfChain`) takes it. A replay walks back at most
  one block, and only one whose undo record is there, so it never refuses.
- `ActiveAlwaysValid` (`ActiveChainValid`) from `ValidInv`: what `AcceptBlock` checks of a
  block that holds wherever it stands (`Vetted`), what `ConnectBlock` checks in its place
  (`Funded`, the header, the leaves), and that every block of the active chain has its
  undo record, which only a completed connection writes. A set that lacks coins and has
  too many leaves refuses more blocks and accepts none it should not, so deaths do not
  matter. `ConnectBlock` does not repeat
  the maturity of coinbases; it holds because a coinbase has one height on all branches.
- `HeightTableExact`, `SyncIsComplete` (`SyncCovers`) and `ResurrectionInOrder`
  (`ResurrectionOrder`) from `QueuesInv`, which accounts for the block between the move of
  the tip and the queue (`Arriving`, `Leaving`). The order rests on `ValidInv`: what a
  payment spends was made by an older block.
- `BothIndexesExact` (`IndexesExact`) from `LookupInv`, under the hypothesis
  `DistinctCoinbases`. The extra nonce is the clock in milliseconds (`miner.cpp:146`), so
  two workers can make equal coinbases at one height; then `WriteBlock` of the rival
  redirects the entry of the active coinbase. Payments need no hypothesis: a block that
  repeats a payment of the active chain is not accepted.

- `UsesTheStore`: `Spec => StoreSpec`. Every step of the chain state is one step of
  `CoinStore` or leaves its variables alone: transactions are applied at the heights of
  blocks, and what is handed to `UndoTransaction` are coins (`TornInv` and `ValidInv`).
  Together with `Refinement` this closes the seam between the two modules: what
  `ChainState` asks for is what `UTXOSet` implements. `StoreTypes` (`StoreTypeOK`) follows from
  `CoinStore` alone.

The tree lemmas (`PathEquation`, `CoinsEquation` and what follows from them) unfold the
recursive functions of `BlockTree` by well-founded induction over heights.

`Mempool_proofs` proves, for any payments, sizes, fee rates and limits:

- `ExactIndexes` and `ConflictFree`: `PoolSpec => []IndexesAgree` and
  `PoolSpec => []NoPendingConflict`. Conflict freedom is not inductive: `AddTransaction`
  looks only at the indexes, so it rests on their being exact, which every way out of
  the pool has to preserve. The inductive invariant is `IndexInv`.
- `BudgetKept` (`WithinBudget`) and `PoolTypes` (`PoolTypeOK`). The byte count is kept by hand,
  added to and subtracted from entry by entry, and unsigned. The sum of the sizes is
  written as the cardinality of the set of all bytes (`Content`), so that adding and
  removing an entry are facts about disjoint finite sets and no induction over the pool
  is needed. That a call never returns over the budget is the exit of the loop of
  `TrimLocked`: with nothing left to evict the sum is zero.
- `NoChildLeft` and `ClearedOfBlock`: the action properties of `TrimLocked` and
  `RemoveForBlock`, from `IndexInv` and the lemma that a descendant set is closed.
- `EvictionIsFinal`: `PoolSpec => EvictedStayOut`, from `RateInv`: while the rate may not
  decay it is at least a step above every rate evicted since.

`Miner_proofs` proves, for any workers, callers and bounds, `StoppedIsJoined`
(`EveryThreadIsJoined`) and `NoneLost` (`NoFoundBlockLost`) from `MinerInv`, which adds to
the types (`MinerTypes`)

- `StopInv`: at most one call uses the threads until two collide; while it joins, `mMining`
  is down, and behind its first join no worker is left; a `Start` that makes threads finds
  none. It is needed because `StoppedIsJoined` alone does not say that the call that joins
  is the only one, so that no other makes threads under it;
- `PlaceInv`: a block is in one hand at a time, a worker's, the queue's, the submitter's
  or the chain's. `NoneLost` alone is not inductive, since a block could be in two places
  and one of them be emptied.

`Wallet_proofs` proves, for any payments, leaves, threads and saves that fail:

- `LeavesOnDisk` and `OneLeafPayment` (`SentIsRecorded`, `NoLeafReuse`) from `LeafInv`: the
  leaves of every payment that left the wallet are marked in the file, and in memory
  while a wallet is loaded. A `loadwallet`, a lock and an unlock, a failed save and a
  restart keep it because signing gives up when its save fails, and because a noise file
  is only made when there was none and nothing was sent.
- `ChangeOnDisk` (`ChangeIsKnown`) from `ChangeInv`: the change address of a payment is known
  to memory from the moment it is built, unless a reload forgot it (`strayed`), and to
  the file once it left.
- `NoInputTwice` (`NoSelfConflict`) from `HoldInv`: the inputs of every payment that is being
  built, or was sent in this run and no block confirmed, are held for it, and whatever
  `SyncRelease` or a thread releases needs no hold any more.

`RPCServer_proofs` proves `OneWriter` (`SingleWriter`) for any clients, workers and queue
length from `ServerInv`: a connection has one owner, a handler of the event thread, the
queue or one worker (`OwnerInv`), and connections are numbered as they were accepted
(`AcceptedInOrder`), so that an accept makes a new one.

`Peers_proofs` proves `NoPlaceLeaks` (`EveryPlaceComesBack`), `InboundBounded`
(`InboundWithinLimit`) and `TableIsLive` (`NoDeadEntries`) for any addresses, nodes and
limits. The inductive invariant `PeersInv` says which node each thread works on
(`ThreadInv`), which objects the table may name (`TableInv`, `ObjectInv`) and that an
accept that went past the capacity test still has its room (`RoomInv`): all threads but
the accept thread only take inbound nodes away.

`BlockDownload_proofs` proves `DownloadTypeOK` with its limits (`LimitsHold`),
`RequestIsReal` (`EveryRequestIsReal`) and `NoOrphanStranded`: no parked block has a known
parent while no block is being handled. `InvInv` says what the inventory being handled may
name while its peer may be dropped, `KnownInv` that nothing is asked for, sent or parked
that the peers do not have.
That `TakeOrphansOf` takes every block the chain has reached needs an induction. It is done
through the least element of a set of naturals (`WellFoundedInduction`), the form of
induction that takes no operator.

The assumptions are those the modules state of their constants, and TLC
evaluates them in the runs: in `Ledger` and `UTXOSet` an outpoint is not both consumed and
created by one transaction, a coinbase has no inputs and no leaves, absence markers are no
coins, a batch holds at least one entry; in the pool sizes and the fee step are positive and
no coinbase is relayable; in the wallet every payment with inputs reveals a leaf; in
`BlockTree` an outpoint has one creator, the maturity is positive, the genesis block holds
a coinbase only, and blocks that share a coinbase have the same height
(`OriginAssumption`). The last is how `BuildCoinbase` makes blocks, from the height and the
clock, and not something `AcceptBlock` checks: the theorems about `ChainState` do not cover
a branch that repeats a coinbase, where a second block would overwrite the coin of the
first and undoing it would remove both. Elsewhere, that limits are naturals and markers are not members of the sets they mark
absence in.

Every invariant and every safety property of the passing runs is proved. Only
model-checked are the liveness properties (`Convergence`, those of `Miner`,
`BlockDownload`, `RPCServer`, `Peers`), which need fairness and `ENABLED` and are out of the
prover's reach.

## 6. Statements the code does not keep

Each of these is a definition of a module and a cfg under which TLC prints the trace. The
first two are runs of the project; the others are run with `tlc -config <cfg> <module>`.

| Property, cfg, module | The code does | The text says |
|---|---|---|
| `StateMatchesTip`, `ChainUndoCrash`, `MCChainState` | a death while the tip is undone leaves its outputs erased and nothing to replay (`utxo_set.cpp:461`) | "the unconditional form is both correct and cheap" (`utxo_set.cpp:456`) |
| `ActiveRequestFinishes`, `RPCShutdown`, `RPCServer` | `Shutdown` destroys the chain state while a worker executes a command or a miner started behind it runs (`main.cpp:464`) | "libevent finishes the active request before shutting down" (`rpc_server.cpp:1437`) |
| `CommitIsComplete` under `FailSpec`, `UTXOFlushFails`, `MCUTXOSet` | after a batch throws, its entries count as clean and the next flush commits a best block without them (`utxo_set.cpp:90`) | the block "will be replayed at the next start" (`chain_state.cpp:879`) |
| `UtxoNamesTip`, `ChainFlushCrash`, `MCChainState` | the repair of an interrupted idle flush commits the zero hash as best block (`chain_state.cpp:411`) | "the UTXO set now matches the tip" (`chain_state.cpp:154`) |
| `StateMatchesTip`, `ChainFlushReorg`, `MCChainState` | after such a repair a death in the next reorganisation is replayed from the genesis block, which adds leaves and removes none: the leaves of the block that was taken off stay spent (`chain_state.cpp:411`) | "In this way the set of spent leaves always matches the active chain." (white paper, line 146) |
| `BestIsHeaviest`, `ChainFailedReorg`, `MCChainState` | a branch that fails on connection leaves the node on the fork; the old branch is not put back (`chain_state.cpp:1210`) | "decided by the greatest total work" (white paper, line 167) |
| `Convergence`, `ChainStuck`, `MCChainState` | a block that spends an output of its own inactive branch is refused for ever (`chain_state.cpp:1114`) | every node "reaches the same state" (white paper, line 169) |
| `CheckpointHolds`, `ChainCheckpoint`, `MCChainState` | a rival at the height of the checkpoint is stored and becomes active with more work (`chain_state.cpp:1104`) | "every node refuses a chain that disagrees with it" (white paper, line 173) |
| `FeesAreClaimable`, `ChainFees`, `MCChainState` | `totalFees` is never added to, so a coinbase that takes the fees is refused (`block_validation.cpp:220`) | "The whole fee goes to the miner" (white paper, line 205) |
| `HeldIsAlive`, `WalletHeld`, `MCWallet` | a hold stays when its payment cannot be signed, validated or admitted, or is evicted | "an output is never held after the spend that claimed it has gone" (`wallet_manager.h:131`) |
| `NeverRespent`, `WalletStale`, `MCWallet` | a thread that copied the pool before another payment was confirmed builds on an output that payment spent: `SyncRelease` has released its hold (`rpc_server.cpp:2591`, `wallet_manager.cpp:579`) | "the wallet should never have built it" (`wallet_manager.h:276`) |
| `StallIsReal`, `DownloadStall`, `BlockDownload` | a peer that delivers and takes the next request stays marked as stalling from the first check on, and may be dropped for it (`net.cpp:1500`) | "Download window is not advancing; ... holds the oldest outstanding request" (`net.cpp:1503`) |
| `StopLeavesNobody`, `MinerStopTwice`, `MCMiner` | a `Stop` that finds the flag down returns although another `Stop` still joins the threads (`miner.cpp:497`), so `Shutdown` goes on to destroy what they use | "stopmining - Stop background proof-of-work mining" (`rpc_server.cpp:3133`), answered with `"mining": false` |
| `CallsKeepApart`, `MinerCollide`, `MCMiner` | a `Start` passes its test during the joins of a `Stop`, or two calls pass theirs together, and both use the unprotected threads (`miner.cpp:460`) | the caller is told "Could not start mining (already mining?)" (`rpc_server.cpp:3120`) |
| `EverySlotComesBack`, `PeersVerack`, `Peers` | a VERACK without VERSION cancels the handshake timer, and no other timeout looks at the peer (`net.cpp:810`) | "Handshake complete with peer=" (`net.cpp:811`) |

`chain_crash` and `chain_converge` leave these cases out of their instances or, as
`Recoverable` does, name them as exceptions; `chain_reorg` states what holds in spite of
the first, the fourth and the fifth.

## 7. Plan

1. Retarget arithmetic (`GetExpectedBitsLocked`, PNC) against a reference definition.
2. `ChainState` on a chain database that throws, and a power loss that keeps a later
   write and loses an earlier one.
3. How many coins a death can cost: `NothingRevived` bounds what is left over, not what
   is missing.

## 8. Not modelled

- Address manager (`net/addrman.cpp`): its tables are filled, aged and saved, but
  `ConnectLoop` takes its candidates from `mKnownAddresses`; nothing else the node does
  depends on them.
- Transaction inventory, address gossip, misbehaviour scores and bans of the P2P layer.
- RPC commands that only read, parsing and formatting; logging and the lock-order checker.
- Serialisation, hashing, signatures, noise trees and proofs: blocks and payments are
  atoms, a leaf is a number.
- Block files, `mempool.dat` and `wallet.dat` as formats; power loss (acknowledged writes
  that were not synced); exceptions of the chain and block databases.
- `snapshot.cpp` and `tx_verify.cpp`, which the node does not call, the stand-alone demo
  programs beside the node, and the two reference trees, of which only the complete
  `main.cpp`, `chainparams.cpp` and `pow.cpp` are used.
