----------------------------- MODULE MCSysdRun -----------------------------
(***************************************************************************)
(* Instances of SysdRun: the shipped kind of manifest (sysd itself, two    *)
(* more h/w daemons, one that is not), and fault budgets for each run.     *)
(***************************************************************************)
EXTENDS SysdRun, TLC

CONSTANTS sysd, fand, tempd, restd

MCHwDaemons == {sysd, fand, tempd}
MCSelfDone  == {sysd}

\* No name is a prefix of another.
MCDistinctNames == [d \in Daemons |-> {d}]

Budget(disconnect, error, oom, crash, file) ==
    [k \in FaultKinds |->
        CASE k = "disconnect" -> disconnect
          [] k = "error"      -> error
          [] k = "oom"        -> oom
          [] k = "crash"      -> crash
          [] k = "file"       -> file]

\* The assumed budgets, in the order of Budget's parameters.
AllFaults       == Budget(1, 1, 1, 1, 1)
TwoDrops        == Budget(2, 0, 0, 1, 0)
DropErrorCrash  == Budget(1, 1, 0, 1, 0)
OneCrash        == Budget(0, 0, 0, 1, 0)
OneDrop         == Budget(1, 0, 0, 0, 0)
OneRelease      == Budget(0, 0, 0, 0, 1)

ProcSymmetry == Permutations(Procs)
=============================================================================
