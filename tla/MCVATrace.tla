----------------------------- MODULE MCVATrace -----------------------------
(* Instances of VATrace for TLC.                                           *)
EXTENDS VATraceInv, TLC

Symmetry == Permutations(Thread) \cup Permutations(VAContextID)
              \cup Permutations(Address \ {VirtualCtx})

=============================================================================
