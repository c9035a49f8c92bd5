------------------------------ MODULE MCCredit ------------------------------
(* Model checking Credit.  A byte of the model stands for 4 MiB, so that a *)
(* fragment has two, and the counters wrap at Modulus.                     *)
EXTENDS Credit, TLC

NodeOps == {"send", "receive", "isLimited", "check"}
ClientOps == {"receive", "pay"}
AllOps == NodeOps \cup ClientOps

\* Handlers are interchangeable; accounts are not when some are Legacy.
Symmetry == Permutations(Handlers)

=============================================================================
