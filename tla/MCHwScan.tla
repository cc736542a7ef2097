------------------------------ MODULE MCHwScan ------------------------------
(***************************************************************************)
(* HwScan with four daemons, the name of one beginning with another's;     *)
(* which of them are h/w daemons is any choice.                            *)
(***************************************************************************)
EXTENDS HwScan

AllDaemons == {"ops-sysd", "ops-fan", "ops-fan-tray", "ops-tempd"}

Namesakes == [d \in AllDaemons |-> IF d = "ops-fan" THEN {d, "ops-fan-tray"} ELSE {d}]
=============================================================================
