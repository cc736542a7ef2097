--------------------------- MODULE MCPackageInfo ---------------------------
(***************************************************************************)
(* PackageInfo with few entries to a commit: two full commits and a part   *)
(* of a third.                                                             *)
(***************************************************************************)
EXTENDS PackageInfo
=============================================================================
