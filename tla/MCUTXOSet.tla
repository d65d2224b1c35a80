----------------------------- MODULE MCUTXOSet -----------------------------
(***************************************************************************)
(* A coinbase, a transaction that spends its output, every public method   *)
(* callable in any order with any coin, and a crash anywhere.              *)
(***************************************************************************)
EXTENDS UTXOSet, TLC

CONSTANTS cb, tx, oCb, oPay, oChange, leaf, hA

MCTx == {cb, tx}
MCCoinbase == {cb}
MCOutpoint == {oCb, oPay, oChange}
MCLeaf == {leaf}
MCIns == (cb :> {}) @@ (tx :> {oCb})
MCOuts == (cb :> {oCb}) @@ (tx :> {oPay, oChange})
MCLvs == (cb :> {}) @@ (tx :> {leaf})
MCHash == {hA}
MCHeights == {1}

\* Nothing tells the two outputs of tx apart.
OutputSymmetry == Permutations({oPay, oChange})
=============================================================================
