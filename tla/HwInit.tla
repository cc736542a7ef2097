------------------------------- MODULE HwInit -------------------------------
(***************************************************************************)
(* What System:cur_hw promises the configuration daemon (the comment of    *)
(* sysd_chk_if_hw_daemons_done()): the h/w daemons report one by one, and  *)
(* once all of them have, the system is declared ready, for good.          *)
(***************************************************************************)
CONSTANT HwDaemons      \* the daemons that process the h/w description files

VARIABLES
    reported,           \* h/w daemons whose row says cur_hw > 0
    ready               \* System:cur_hw = 1

Init == reported = {} /\ ready = FALSE

Report(S) ==
    /\ reported' = reported \cup S
    /\ UNCHANGED ready

Declare ==
    /\ reported = HwDaemons
    /\ ready' = TRUE
    /\ UNCHANGED reported

Next == (\E S \in SUBSET HwDaemons : Report(S)) \/ Declare

Spec == Init /\ [][Next]_<<reported, ready>>
=============================================================================
