------------------------------- MODULE MCBoot -------------------------------
(***************************************************************************)
(* Boot with two descriptor directories, so that an old link differs from  *)
(* the new one.                                                            *)
(***************************************************************************)
EXTENDS Boot

\* Every input may be missing.
AllInputs == Required \cup Tolerated
=============================================================================
