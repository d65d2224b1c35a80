----------------------------- MODULE MCMempool -----------------------------
(***************************************************************************)
(* A chain of three payments (a, b spends a, c spends b), a rival of b for *)
(* its outpoint, and a payment that reveals the leaf of c, in a pool too   *)
(* small for the chain and two generations deep.                           *)
(***************************************************************************)
EXTENDS Mempool

MCTx == {"a", "b", "c", "rival", "reuse"}
MCOutpoint == {"x", "a0", "b0", "y"}
MCLeaf == {"la", "lb", "lc", "lr"}
MCIns == [a |-> {"x"}, b |-> {"a0"}, c |-> {"b0"}, rival |-> {"a0"}, reuse |-> {"y"}]
MCOuts == [a |-> {"a0"}, b |-> {"b0"}, c |-> {}, rival |-> {}, reuse |-> {}]
MCLvs == [a |-> {"la"}, b |-> {"lb"}, c |-> {"lc"}, rival |-> {"lr"}, reuse |-> {"lc"}]
MCSize == [a |-> 1, b |-> 2, c |-> 1, rival |-> 1, reuse |-> 1]
MCFeePerK == [a |-> 1, b |-> 3, c |-> 2, rival |-> 2, reuse |-> 1]
=============================================================================
