------------------------------ MODULE BlockTree ------------------------------
(***************************************************************************)
(* The blocks a node may be sent: an immutable tree rooted at the genesis  *)
(* block.  A block is named by its hash.  What can be decided from the     *)
(* block and its ancestors alone (height, cumulative work, proof of work,  *)
(* size, merkle and leaf roots, timestamp, difficulty) is a constant;      *)
(* everything that depends on the coins is an operator, ValidateBlock.     *)
(***************************************************************************)
EXTENDS CoinStore, Sequences, SequencesExt

CONSTANTS
    Genesis,        \* the genesis block, in Hash
    Parent,         \* Parent[b]: hdr.GetPrevBlockHash(), for every b but Genesis
    Height,         \* Height[b]: the block's distance from Genesis
    Work,           \* Work[b]: chain work of the branch that ends in b
    BlockTxs,       \* BlockTxs[b]: its transactions, the coinbase first
    WellFormed,     \* blocks that pass every check needing no other state
    HeaderOK,       \* blocks whose time and bits fit their own branch
    Checkpoints,    \* the compiled-in checkpoints, lowest first
    Value,          \* Value[o]: the amount the output under o carries
    Subsidy,        \* Subsidy[h]: GetBlockSubsidy
    MinFee,         \* GetMinimumFee, the same for every transaction here
    Maturity        \* COINBASE_MATURITY

ASSUME TreeAssumption ==
    /\ Genesis \in Hash
    /\ Parent \in [Hash \ {Genesis} -> Hash]
    /\ Height \in [Hash -> Heights]
    /\ Height[Genesis] = 0
    /\ \A b \in Hash \ {Genesis} : Height[b] = Height[Parent[b]] + 1
    /\ Work \in [Hash -> Nat]
    /\ \A b \in Hash \ {Genesis} : Work[b] > Work[Parent[b]]
    /\ BlockTxs \in [Hash -> Seq(Tx)]
    /\ \A b \in Hash : \A i \in 1..Len(BlockTxs[b]) :
           BlockTxs[b][i] \in Coinbase <=> i = 1
    /\ WellFormed \subseteq Hash /\ HeaderOK \subseteq Hash
    /\ Checkpoints \in Seq(Hash)
    /\ Value \in [Outpoint -> Nat]
    /\ Maturity \in Nat /\ MinFee \in Nat

-----------------------------------------------------------------------------
(* Branches *)

TxsOf(b) == ToSet(BlockTxs[b])

\* The branch from the genesis block to b.
PathTo[b \in Hash] ==
    IF b = Genesis THEN <<b>> ELSE Append(PathTo[Parent[b]], b)

Ancestors(b) == ToSet(PathTo[b])    \* b included

\* The blocks above the ancestor a on the way to b, lowest first.
PathFrom(a, b) == SubSeq(PathTo[b], Height[a] + 2, Height[b] + 1)

\* The highest block two branches share.
CommonAncestor(a, b) ==
    CHOOSE c \in Ancestors(a) \cap Ancestors(b) :
        \A d \in Ancestors(a) \cap Ancestors(b) : Height[d] <= Height[c]

BranchTxs(b) == UNION {TxsOf(a) : a \in Ancestors(b)}

\* Reference ledger: the coins and spent leaves the branch ending in b defines.
Creates(b) == UNION {Outs[t] : t \in TxsOf(b)}
Consumes(b) == UNION {Ins[t] : t \in TxsOf(b)}
CreatedByCoinbase(b, o) == \E t \in TxsOf(b) \cap Coinbase : o \in Outs[t]

CoinsAt[b \in Hash] ==
    LET before == IF b = Genesis THEN [o \in Outpoint |-> NoCoin]
                  ELSE CoinsAt[Parent[b]]
    IN  [o \in Outpoint |->
            IF o \in Creates(b)
            THEN NewCoin(Height[b], CreatedByCoinbase(b, o))
            ELSE IF o \in Consumes(b) THEN NoCoin ELSE before[o]]

LeavesAt(b) == UNION {Lvs[t] : t \in BranchTxs(b)}

\* What identifies a transaction and a block: an outpoint names the transaction
\* that creates it, the coinbase that BuildCoinbase makes holds a height and the
\* time (validation compares neither with the block, so this is how blocks are
\* made and not what AcceptBlock enforces), BuildGenesisBlock has a coinbase only,
\* and no block has the zero hash.
ASSUME OriginAssumption ==
    /\ \A t, u \in Tx : t # u => Outs[t] \cap Outs[u] = {}
    /\ \A b, c \in Hash : TxsOf(b) \cap TxsOf(c) \cap Coinbase # {} => Height[b] = Height[c]
    /\ Len(BlockTxs[Genesis]) = 1
    /\ Zero \notin Hash
    /\ \A b \in Hash : NoKey \notin [Consumes(b) -> Coin \cup {NoCoin}]
    /\ Maturity > 0

-----------------------------------------------------------------------------
(* Validation against a set of coins *)

Amount(S) == MapThenSumSet(LAMBDA o : Value[o], S)

\* No transaction creates value, and each leaves at least the minimum fee.
PaysFee(t) == Amount(Ins[t]) >= Amount(Outs[t]) + MinFee

\* TxValidation::CheckTransactionWithUTXO, at the height of the block to come.
CheckTransactionWithUTXO(t, h, c) ==
    /\ \A o \in Ins[t] : /\ c[o] # NoCoin
                         /\ c[o].isCoinbase => h >= c[o].height + Maturity
    /\ PaysFee(t)

\* TxValidation::VerifyTransactionSignatures, as far as it depends on state.
LeavesUnused(t, lv) == Lvs[t] # {} /\ Lvs[t] \cap lv = {}

\* BlockValidation::CheckBlockTransactionsWithUTXO.  The fees are never added to
\* totalFees, so the coinbase may claim the subsidy and nothing else.
CheckBlockTransactionsWithUTXO(b, c, lv) ==
    LET payments == TxsOf(b) \ Coinbase
    IN  /\ \A t \in payments : /\ CheckTransactionWithUTXO(t, Height[b], c)
                               /\ LeavesUnused(t, lv)
        /\ \A t, u \in payments : t # u => /\ Ins[t] \cap Ins[u] = {}
                                           /\ Lvs[t] \cap Lvs[u] = {}
        /\ \A t \in TxsOf(b) \cap Coinbase : Amount(Outs[t]) <= Subsidy[Height[b]]

ValidateBlock(b, c, lv) ==
    /\ b \in WellFormed
    /\ CheckBlockTransactionsWithUTXO(b, c, lv)

\* Reference: the block is valid where it stands, after its own ancestors.
ValidInContext(b) ==
    \/ b = Genesis
    \/ /\ b \in HeaderOK
       /\ ValidateBlock(b, CoinsAt[Parent[b]], LeavesAt(Parent[b]))

ValidBranch(b) == \A a \in Ancestors(b) : ValidInContext(a)

ValidBlocks == {b \in Hash : ValidBranch(b)}
=============================================================================
