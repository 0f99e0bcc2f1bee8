----------------------------- MODULE MCStorage ------------------------------
(***************************************************************************)
(* The instance of Storage for TLC.                                        *)
(***************************************************************************)
EXTENDS Storage

CONSTANTS x, y

(* A new file, one of an earlier version and a current one.                *)
Files == {0, 1, MaxVersion}

=============================================================================
