------------------------------ MODULE CoinStore ------------------------------
(***************************************************************************)
(* What storage::UTXOSet promises the rest of the node, without its cache: *)
(* one set of unspent coins and one set of spent noise leaves (the view    *)
(* every reader sees), and the copy of them on disk with the record of     *)
(* which block that copy belongs to.                                       *)
(*                                                                         *)
(* A commit is not one write.  Its first batch replaces the best-block     *)
(* record by a marker (new, old), coin batches follow, and the last batch  *)
(* removes the marker and names the block the set now belongs to.  Between *)
(* the batches the process may die, and the disk is then a mixture of the  *)
(* two states the marker names.                                            *)
(***************************************************************************)
EXTENDS Ledger

VARIABLES
    mode,       \* "closed", "open", "flushing" or "closing" (destructor's flush)
    coins,      \* the view: [Outpoint -> Coin or NoCoin]
    leaves,     \* the view: leaves that count as spent
    best,       \* mBestBlock
    dCoins,     \* coins on disk
    dLeaves,    \* spent leaves on disk
    dBest,      \* DB_UTXO_BEST
    dHeads      \* DB_UTXO_HEADS, <<new, old>>

storeVars == <<mode, coins, leaves, best, dCoins, dLeaves, dBest, dHeads>>
diskVars == <<dCoins, dLeaves, dBest, dHeads>>

StoreTypeOK ==
    /\ mode \in {"closed", "open", "flushing", "closing"}
    /\ coins \in [Outpoint -> Coin \cup {NoCoin}]
    /\ leaves \subseteq Leaf
    /\ best \in Hash \cup {Zero}
    /\ dCoins \in [Outpoint -> Coin \cup {NoCoin}]
    /\ dLeaves \subseteq Leaf
    /\ dBest \in Hash \cup {Zero, NoKey}
    /\ dHeads \in ((Hash \cup {Zero}) \X (Hash \cup {Zero})) \cup {NoKey}

StoreInit ==
    /\ mode = "closed"
    /\ coins = [o \in Outpoint |-> NoCoin]
    /\ leaves = {}
    /\ best = Zero
    /\ dCoins = [o \in Outpoint |-> NoCoin]
    /\ dLeaves = {}
    /\ dBest = NoKey
    /\ dHeads = NoKey

-----------------------------------------------------------------------------
(* Functions on coin views *)

Without(c, S) == [o \in Outpoint |-> IF o \in S THEN NoCoin ELSE c[o]]

With(c, S, coin) == [o \in Outpoint |-> IF o \in S THEN coin ELSE c[o]]

Restored(c, spent) ==
    [o \in Outpoint |-> IF o \in DOMAIN spent THEN spent[o] ELSE c[o]]

Patch(c, d, S) == [o \in Outpoint |-> IF o \in S THEN d[o] ELSE c[o]]

\* The transaction's effect on a view, confirmed at height h.
AppliedTo(c, t, h) ==
    With(Without(c, Ins[t]), Outs[t], NewCoin(h, t \in Coinbase))

\* Mutant: a leaf that was used before is accepted.
CanApplyAnyLeaf(t) ==
    /\ \A o \in Ins[t] : coins[o] # NoCoin
    /\ t \notin Coinbase => Lvs[t] # {}

\* The conditions under which ApplyTransaction succeeds.
CanApply(t) ==
    /\ \A o \in Ins[t] : coins[o] # NoCoin
    /\ t \notin Coinbase => Lvs[t] # {} /\ Lvs[t] \cap leaves = {}

-----------------------------------------------------------------------------
(* Operations *)

Open ==
    /\ mode = "closed"
    /\ mode' = "open"
    /\ coins' = dCoins
    /\ leaves' = dLeaves
    /\ best' = IF dBest = NoKey THEN Zero ELSE dBest
    /\ UNCHANGED diskVars

Apply(t, h) ==
    /\ mode = "open"
    /\ CanApply(t)
    /\ coins' = AppliedTo(coins, t, h)
    /\ leaves' = leaves \cup Lvs[t]
    /\ UNCHANGED <<mode, best, diskVars>>

\* Replay repeats what may already have been done: nothing is refused.
Reapply(t, h) ==
    /\ mode = "open"
    /\ coins' = AppliedTo(coins, t, h)
    /\ leaves' = leaves \cup Lvs[t]
    /\ UNCHANGED <<mode, best, diskVars>>

\* Undoing reaches the disk at once for the outputs, and the view for the rest.
Undo(t, spent) ==
    /\ mode = "open"
    /\ DOMAIN spent = Ins[t]
    /\ coins' = Restored(Without(coins, Outs[t]), spent)
    /\ leaves' = leaves \ Lvs[t]
    /\ dCoins' = Without(dCoins, Outs[t])
    /\ UNCHANGED <<mode, best, dLeaves, dBest, dHeads>>

\* An undo record of the wrong size is refused after the outputs are gone.
UndoRefused(t) ==
    /\ mode = "open"
    /\ t \notin Coinbase
    /\ coins' = Without(coins, Outs[t])
    /\ dCoins' = Without(dCoins, Outs[t])
    /\ UNCHANGED <<mode, leaves, best, dLeaves, dBest, dHeads>>

AddOne(o, c) ==
    /\ mode = "open"
    /\ coins[o] = NoCoin
    /\ coins' = [coins EXCEPT ![o] = c]
    /\ UNCHANGED <<mode, leaves, best, diskVars>>

SpendOne(o) ==
    /\ mode = "open"
    /\ coins[o] # NoCoin
    /\ coins' = [coins EXCEPT ![o] = NoCoin]
    /\ UNCHANGED <<mode, leaves, best, diskVars>>

MarkLeaf(l) ==
    /\ mode = "open"
    /\ leaves' = leaves \cup {l}
    /\ UNCHANGED <<mode, coins, best, diskVars>>

UnmarkLeaf(l) ==
    /\ mode = "open"
    /\ leaves' = leaves \ {l}
    /\ UNCHANGED <<mode, coins, best, diskVars>>

SetBest(b) ==
    /\ mode = "open"
    /\ best' = b
    /\ UNCHANGED <<mode, coins, leaves, diskVars>>

\* Clear() forgets everything that is not on disk.
Revert ==
    /\ mode = "open"
    /\ coins' = dCoins
    /\ leaves' = dLeaves
    /\ best' = Zero
    /\ UNCHANGED <<mode, diskVars>>

\* Mutant: the marker of an earlier, interrupted commit is forgotten.
OldTipForgetsMarker == IF dBest # NoKey THEN dBest ELSE Zero

\* The block the disk belonged to before this commit.
OldTip ==
    IF dBest # NoKey THEN dBest
    ELSE IF dHeads # NoKey THEN dHeads[2] ELSE Zero

BeginFlush(m) ==
    /\ mode = "open"
    /\ mode' = m
    /\ dBest' = NoKey
    /\ dHeads' = <<best, OldTip>>
    /\ UNCHANGED <<coins, leaves, best, dCoins, dLeaves>>

WriteSome(S) ==
    /\ mode \in {"flushing", "closing"}
    /\ dCoins' = Patch(dCoins, coins, S)
    /\ UNCHANGED <<mode, coins, leaves, best, dLeaves, dBest, dHeads>>

Commit ==
    /\ mode \in {"flushing", "closing"}
    /\ mode' = IF mode = "flushing" THEN "open" ELSE "closed"
    /\ dCoins' = coins
    /\ dLeaves' = leaves
    /\ dBest' = best
    /\ dHeads' = NoKey
    /\ best' = IF mode = "flushing" THEN best ELSE Zero
    /\ UNCHANGED <<coins, leaves>>

Die ==
    /\ mode # "closed"
    /\ mode' = "closed"
    /\ coins' = dCoins
    /\ leaves' = dLeaves
    /\ best' = Zero
    /\ UNCHANGED diskVars

StoreNext ==
    \/ Open \/ Revert \/ Commit \/ Die
    \/ \E t \in Tx, h \in Heights : Apply(t, h) \/ Reapply(t, h)
    \/ \E t \in Tx : \/ \E spent \in [Ins[t] -> Coin] : Undo(t, spent)
                     \/ UndoRefused(t)
    \/ \E o \in Outpoint : SpendOne(o) \/ \E c \in Coin : AddOne(o, c)
    \/ \E l \in Leaf : MarkLeaf(l) \/ UnmarkLeaf(l)
    \/ \E b \in Hash \cup {Zero} : SetBest(b)
    \/ \E m \in {"flushing", "closing"} : BeginFlush(m)
    \/ \E S \in SUBSET Outpoint : WriteSome(S)

StoreSpec == StoreInit /\ [][StoreNext]_storeVars
=============================================================================
