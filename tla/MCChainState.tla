--------------------------- MODULE MCChainState ---------------------------
(***************************************************************************)
(* The blocks and transactions the runs of ChainState choose from.  A run  *)
(* picks its set of blocks in its .cfg; everything else follows.           *)
(*                                                                         *)
(*            A1 {t1} -- A2 {t2}                                           *)
(*          /                                                              *)
(*        G -- B1 {} --- B2 {t1} -- B3 {t3}                                *)
(*          |\ C1 {t4} -- C2 {}                                            *)
(*          | \                                                            *)
(*         D1   F1 {t5}                                                    *)
(*                                                                         *)
(* t2 spends an output of t1.  t3 reveals the noise leaf t1 reveals, so B3 *)
(* is invalid after B2 and valid against a set that does not hold t1.  The *)
(* bits of D1 are wrong for its height.  The coinbase of F1 claims the fee *)
(* of t5 on top of the subsidy.                                            *)
(***************************************************************************)
EXTENDS ChainState

ParentOf == [A1 |-> "G", A2 |-> "A1", B1 |-> "G", B2 |-> "B1", B3 |-> "B2",
             C1 |-> "G", C2 |-> "C1", D1 |-> "G", F1 |-> "G"]
HeightOf == [G |-> 0, A1 |-> 1, A2 |-> 2, B1 |-> 1, B2 |-> 2, B3 |-> 3,
             C1 |-> 1, C2 |-> 2, D1 |-> 1, F1 |-> 1]
WorkOf == [G |-> 1, A1 |-> 2, A2 |-> 4, B1 |-> 2, B2 |-> 3, B3 |-> 6,
           C1 |-> 2, C2 |-> 5, D1 |-> 7, F1 |-> 2]
PaymentsOf == [G |-> <<>>, A1 |-> <<"t1">>, A2 |-> <<"t2">>, B1 |-> <<>>,
               B2 |-> <<"t1">>, B3 |-> <<"t3">>, C1 |-> <<"t4">>, C2 |-> <<>>, D1 |-> <<>>,
               F1 |-> <<"t5">>]
\* A coinbase is named by its block.
TxIns == [t1 |-> {"g1"}, t2 |-> {"p1"}, t3 |-> {"g2"}, t4 |-> {"g2"}, t5 |-> {"g1"}]
TxOuts == [t1 |-> {"p1"}, t2 |-> {"p2"}, t3 |-> {"p3"}, t4 |-> {"p4"}, t5 |-> {"p5"},
           G |-> {"g1", "g2"}, A1 |-> {"a1"}, A2 |-> {"a2"}, B1 |-> {"b1"},
           B2 |-> {"b2"}, B3 |-> {"b3"}, C1 |-> {"c1"}, C2 |-> {"c2"}, D1 |-> {"d1"}, F1 |-> {"f1"}]
TxLeaves == [t1 |-> {"l1"}, t2 |-> {"l2"}, t3 |-> {"l1"}, t4 |-> {"l4"}, t5 |-> {"l5"}]
ValueOf == [g1 |-> 5, g2 |-> 5, p1 |-> 4, p2 |-> 3, p3 |-> 4, p4 |-> 4, p5 |-> 4,
            a1 |-> 2, a2 |-> 2, b1 |-> 2, b2 |-> 2, b3 |-> 2, c1 |-> 2, c2 |-> 2, d1 |-> 2,
            f1 |-> 3]

MCPayments == UNION {ToSet(PaymentsOf[b]) : b \in Hash}
MCTx == Hash \cup MCPayments
MCCoinbase == Hash
MCOutpoint == UNION {TxOuts[t] : t \in MCTx}
MCLeaf == UNION {TxLeaves[t] : t \in MCPayments}
MCIns == [t \in MCTx |-> IF t \in MCPayments THEN TxIns[t] ELSE {}]
MCOuts == [t \in MCTx |-> TxOuts[t]]
MCLvs == [t \in MCTx |-> IF t \in MCPayments THEN TxLeaves[t] ELSE {}]
MCHeights == {HeightOf[b] : b \in Hash}
MCParent == [b \in Hash \ {"G"} |-> ParentOf[b]]
MCHeight == [b \in Hash |-> HeightOf[b]]
MCWork == [b \in Hash |-> WorkOf[b]]
MCBlockTxs == [b \in Hash |-> <<b>> \o PaymentsOf[b]]
MCWellFormed == Hash
MCHeaderOK == Hash \ {"D1"}
MCValue == [o \in MCOutpoint |-> ValueOf[o]]
MCSubsidy == [h \in MCHeights |-> 2]
NoCheckpoints == <<>>
CheckpointA1 == <<"G", "A1">>
=============================================================================
