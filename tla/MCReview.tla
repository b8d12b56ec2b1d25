------------------------------ MODULE MCReview ------------------------------
(* The review desk on a small instance.                                    *)
EXTENDS ReviewDesk, TLC

(* A business is only compared with others: which is which does not matter.*)
Exchangeable == Permutations(Businesses)
=============================================================================
