--------------------------- MODULE MCUploadQueue ---------------------------
(* Model checking UploadQueue. *)
EXTENDS UploadQueue, TLC

CONSTANTS c1, c2, f1, f2

\* Two calls upload different files, or the same file.
DifferentOrSame == {c1 :> f1 @@ c2 :> f2, c1 :> f1 @@ c2 :> f1}

\* Every call has its fragments in c.tmpDir.
OneDir == [f \in Files |-> "tmpDir"]

=============================================================================
