----------------------------- MODULE MCWstkWorker -----------------------------
(* WstkWorker on small sets.  Jobs are only compared with each other, so    *)
(* they may be permuted in the runs that check invariants.                  *)
EXTENDS WstkWorker, TLC

JobSymmetry == Permutations(Jobs)
=============================================================================
