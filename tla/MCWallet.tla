------------------------------ MODULE MCWallet ------------------------------
(***************************************************************************)
(* Two coins x and y.  a spends x with the first change address; d spends  *)
(* y with the second and calls for the leaf of a.  e and f spend the       *)
(* change of a with leaves of their own, and ee names it twice.  A cfg     *)
(* picks the payments it needs.                                            *)
(***************************************************************************)
EXTENDS Wallet, TLC

MCOutpoint == {"x", "y", "a1"}
InsOf == [a |-> {"x"}, d |-> {"y"}, e |-> {"a1"}, ee |-> {"a1"}, f |-> {"a1"}]
OutsOf == [a |-> {"a1"}, d |-> {}, e |-> {}, ee |-> {}, f |-> {}]
LvsOf == [a |-> {0}, d |-> {0}, e |-> {2}, ee |-> {2}, f |-> {1}]
ChangeOf == [a |-> 0, d |-> 1, e |-> None, ee |-> None, f |-> None]
MCIns == [t \in Tx |-> InsOf[t]]
MCOuts == [t \in Tx |-> OutsOf[t]]
MCLvs == [t \in Tx |-> LvsOf[t]]
MCChangeIx == [t \in Tx |-> ChangeOf[t]]
MCSymmetry == Permutations(Thread)
=============================================================================
