------------------------------- MODULE MCTxPool -------------------------------
(* Instances of TxPool: connections and callers are alike. *)
EXTENDS TxPool, TLC

McSymmetry == Permutations(Callers) \cup Permutations(Conns)
=============================================================================
