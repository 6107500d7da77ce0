---------------------------- MODULE MCOutputWriter -----------------------------
(***************************************************************************)
(* A tree with a file, a file below that name, and a third file.           *)
(***************************************************************************)
EXTENDS OutputWriter, TLC

Below == 1 :> {} @@ 2 :> {1} @@ 3 :> {}
=============================================================================
