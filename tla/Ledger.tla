------------------------------- MODULE Ledger -------------------------------
(***************************************************************************)
(* The vocabulary shared by the storage modules: transactions, the         *)
(* outpoints they consume and create, the noise leaves they use up, and    *)
(* the coin an output becomes.                                             *)
(*                                                                         *)
(* A transaction is immutable, so what it contains is given by constant    *)
(* functions.  The value and the owner of a coin are determined by its     *)
(* outpoint; the part of a Coin (utxo_set.h) that depends on where its     *)
(* transaction was confirmed is the height and the coinbase flag, and that *)
(* is what is kept.  Outputs that are unspendable, worthless or not        *)
(* pay-to-pubkey-hash never enter the set and are left out of Outs.        *)
(***************************************************************************)
EXTENDS Naturals

CONSTANTS
    Tx,         \* every transaction, coinbases included
    Coinbase,   \* the coinbase transactions
    Outpoint,   \* (transaction hash, output index) pairs
    Leaf,       \* (kps, leafIndex) pairs of the noise trees
    Ins,        \* Ins[t]: the outpoints t spends
    Outs,       \* Outs[t]: the outpoints t creates
    Lvs,        \* Lvs[t]: the noise leaves the inputs of t reveal
    Heights,    \* the block heights that occur
    Hash,       \* block hashes
    Zero,       \* the all-zero hash
    NoCoin,     \* there is no coin under this outpoint
    NoKey       \* the key is absent from the database

ASSUME LedgerAssumption ==
    /\ Coinbase \subseteq Tx
    /\ Heights \subseteq Nat
    /\ Ins \in [Tx -> SUBSET Outpoint]
    /\ Outs \in [Tx -> SUBSET Outpoint]
    /\ Lvs \in [Tx -> SUBSET Leaf]
    /\ \A t \in Coinbase : Ins[t] = {} /\ Lvs[t] = {}
    /\ \A t \in Tx : Ins[t] \cap Outs[t] = {}

\* A coin as ApplyTransaction builds it; isSpent lives in the cache entry only.
Coin == [height : Heights, isCoinbase : BOOLEAN]

ASSUME AbsenceAssumption ==
    /\ NoCoin \notin Coin
    /\ NoKey \notin Hash \cup {Zero}
    /\ NoKey \notin (Hash \cup {Zero}) \X (Hash \cup {Zero})

\* The coin an output becomes when its transaction is confirmed at height h.
NewCoin(h, isCoinbase) == [height |-> h, isCoinbase |-> isCoinbase]
=============================================================================
