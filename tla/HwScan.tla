------------------------------- MODULE HwScan -------------------------------
(***************************************************************************)
(* The daemons of image.manifest, from the manifest to the decision that   *)
(* all h/w daemons are done: _sysd_process_daemons() and                   *)
(* sysd_set_num_hw_daemons() in src/sysd_util.c,                           *)
(* sysd_chk_if_hw_daemons_done() and sysd_dump() in src/sysd_ovsdb_if.c.   *)
(*                                                                         *)
(* The order of daemons[] is that of a hash table, and so is the order in  *)
(* which the IDL walks the Daemon rows: each is any order.  SysdRun takes  *)
(* the scan as one step with the outcomes CanFindAllDone and               *)
(* CanFindNotDone; here it is the loop itself.                             *)
(***************************************************************************)
EXTENDS Naturals, FiniteSets, Sequences, SequencesExt

CONSTANTS
    Daemons,        \* the daemons of image.manifest
    SelfDone,       \* those whose row is born with cur_hw = 1
    NameExtends     \* NameExtends[d]: daemons whose name begins with d's name

ASSUME DaemonsAssumption ==
    /\ IsFiniteSet(Daemons)
    /\ SelfDone \subseteq Daemons
    /\ NameExtends \in [Daemons -> SUBSET Daemons]
    /\ \A d \in Daemons : d \in NameExtends[d]

VARIABLES
    HwDaemons,      \* the daemons with "is_hw_handler": true; constant
    daemons,        \* daemons[]
    num_hw_daemons,
    rows,           \* the rows of table Daemon, in the order the IDL walks them
    done,           \* the rows with cur_hw > 0
    i, num_found, not_set,  \* locals of the scan
    verdict,        \* what the last scan decided, "none" when a report is newer
    shown,          \* what ops-sysd/dump showed
    pc

locals == <<i, num_found, not_set>>
vars   == <<HwDaemons, daemons, num_hw_daemons, rows, done, locals, verdict, shown, pc>>

SeqsOver(S) == {s \in UNION {[1..n -> S] : n \in 0..Cardinality(S)} : IsInjective(s)}

TypeOK ==
    /\ HwDaemons \subseteq Daemons
    /\ daemons \in SeqsOver(Daemons)
    /\ num_hw_daemons \in 0..Cardinality(HwDaemons)
    /\ rows \in SeqsOver(Daemons)
    /\ done \subseteq ToSet(rows)
    /\ i \in 1..Len(daemons) + 1
    /\ num_found \in 0..num_hw_daemons
    /\ not_set \in BOOLEAN
    /\ verdict \in {"none", "wait", "done"}
    /\ shown \in SeqsOver(Daemons)
    /\ pc \in {"manifest", "push", "loop", "scan", "ready"}

Init ==
    /\ HwDaemons \in SUBSET Daemons
    /\ daemons = <<>>
    /\ num_hw_daemons = 0
    /\ rows = <<>>
    /\ done = {}
    /\ i = 1 /\ num_found = 0 /\ not_set = FALSE
    /\ verdict = "none"
    /\ shown = <<>>
    /\ pc = "manifest"

-----------------------------------------------------------------------------
\* The manifest's object "daemons" is a hash table: its entries come in any order.
ReadDaemon ==
    /\ pc = "manifest"
    /\ \E d \in Daemons \ ToSet(daemons) : daemons' = Append(daemons, d)
    /\ UNCHANGED <<HwDaemons, num_hw_daemons, rows, done, locals, verdict, shown, pc>>

\* sysd_set_num_hw_daemons()
SetNumHwDaemons ==
    /\ pc = "manifest"
    /\ ToSet(daemons) = Daemons
    /\ num_hw_daemons' = Cardinality({k \in 1..Len(daemons) : daemons[k] \in HwDaemons})
    /\ pc' = "push"
    /\ UNCHANGED <<HwDaemons, daemons, rows, done, locals, verdict, shown>>

\* The initial push, with all Daemon rows or, when an allocation failed, with none.
PushDaemons ==
    /\ pc = "push"
    /\ \/ rows' \in {s \in SeqsOver(Daemons) : ToSet(s) = Daemons} /\ done' = SelfDone
       \/ UNCHANGED <<rows, done>>
    /\ pc' = "loop"
    /\ UNCHANGED <<HwDaemons, daemons, num_hw_daemons, locals, verdict, shown>>

\* A daemon has processed the hardware description and sets its cur_hw.
Report(d) ==
    /\ pc = "loop"
    /\ d \in ToSet(rows) \ done
    /\ done' = done \cup {d}
    /\ verdict' = "none"
    /\ UNCHANGED <<HwDaemons, daemons, num_hw_daemons, rows, locals, shown, pc>>

-----------------------------------------------------------------------------
(***************************************************************************)
(* sysd_chk_if_hw_daemons_done()                                           *)
(***************************************************************************)

\* Faulty variant: not_set survives from one scan to the next.
BeginScanKeepNotSet ==
    /\ pc = "loop"
    /\ IF num_hw_daemons = 0
       THEN verdict' = "done" /\ pc' = "ready"
       ELSE verdict' = verdict /\ pc' = "scan"
    /\ i' = 1 /\ num_found' = 0
    /\ UNCHANGED <<HwDaemons, daemons, num_hw_daemons, rows, done, not_set, shown>>

BeginScan ==
    /\ pc = "loop"
    /\ IF num_hw_daemons = 0
       THEN verdict' = "done" /\ pc' = "ready"
       ELSE verdict' = verdict /\ pc' = "scan"
    /\ i' = 1 /\ num_found' = 0 /\ not_set' = FALSE
    /\ UNCHANGED <<HwDaemons, daemons, num_hw_daemons, rows, done, shown>>

\* Where rows stand for d: those of h/w handlers with d's name, or one that begins so.
Matching(d) == {k \in 1..Len(rows) : rows[k] \in HwDaemons \cap NameExtends[d]}

\* Faulty variant: not_set is what the last daemon says.
ScanDaemonLastWins ==
    /\ pc = "scan"
    /\ i <= Len(daemons)
    /\ i' = i + 1
    /\ LET found == Matching(daemons[i]) IN
       IF daemons[i] \in HwDaemons /\ found # {}
       THEN IF rows[Min(found)] \in done
            THEN num_found' = num_found + 1 /\ not_set' = FALSE
            ELSE not_set' = TRUE /\ UNCHANGED num_found
       ELSE UNCHANGED <<num_found, not_set>>
    /\ UNCHANGED <<HwDaemons, daemons, num_hw_daemons, rows, done, verdict, shown, pc>>

\* Faulty variant: every row that matches is counted.
ScanDaemonCountAll ==
    /\ pc = "scan"
    /\ i <= Len(daemons) /\ ~not_set
    /\ i' = i + 1
    /\ LET found == Matching(daemons[i]) IN
       IF daemons[i] \in HwDaemons /\ found # {}
       THEN IF rows[Min(found)] \in done
            THEN num_found' = num_found + Cardinality(found) /\ UNCHANGED not_set
            ELSE not_set' = TRUE /\ UNCHANGED num_found
       ELSE UNCHANGED <<num_found, not_set>>
    /\ UNCHANGED <<HwDaemons, daemons, num_hw_daemons, rows, done, verdict, shown, pc>>

\* The next h/w daemon of daemons[]: the first row that matches decides.
ScanDaemon ==
    /\ pc = "scan"
    /\ i <= Len(daemons) /\ ~not_set
    /\ i' = i + 1
    /\ LET found == Matching(daemons[i]) IN
       IF daemons[i] \in HwDaemons /\ found # {}
       THEN IF rows[Min(found)] \in done
            THEN num_found' = num_found + 1 /\ UNCHANGED not_set
            ELSE not_set' = TRUE /\ UNCHANGED num_found
       ELSE UNCHANGED <<num_found, not_set>>
    /\ UNCHANGED <<HwDaemons, daemons, num_hw_daemons, rows, done, verdict, shown, pc>>

\* Faulty variant: no daemon that is not done means that all are.
EndScanUncounted ==
    /\ pc = "scan"
    /\ i > Len(daemons) \/ not_set
    /\ IF not_set
       THEN verdict' = "wait" /\ pc' = "loop"
       ELSE verdict' = "done" /\ pc' = "ready"
    /\ UNCHANGED <<HwDaemons, daemons, num_hw_daemons, rows, done, locals, shown>>

\* After sysd_set_hw_done() there are no more scans.
EndScan ==
    /\ pc = "scan"
    /\ i > Len(daemons) \/ not_set
    /\ IF not_set \/ num_found = 0
       THEN verdict' = "wait" /\ pc' = "loop"
       ELSE verdict' = "done" /\ pc' = "ready"
    /\ UNCHANGED <<HwDaemons, daemons, num_hw_daemons, rows, done, locals, shown>>

\* ops-appctl ops-sysd/dump, between two rounds of the loop: sysd_dump() walks
\* daemons[] up to num_hw_daemons.
Dump ==
    /\ pc \in {"loop", "ready"}
    /\ shown' = SubSeq(daemons, 1, num_hw_daemons)
    /\ UNCHANGED <<HwDaemons, daemons, num_hw_daemons, rows, done, locals, verdict, pc>>

Next ==
    \/ ReadDaemon \/ SetNumHwDaemons \/ PushDaemons
    \/ \E d \in Daemons : Report(d)
    \/ BeginScan \/ ScanDaemon \/ EndScan
    \/ Dump

Spec == Init /\ [][Next]_vars

-----------------------------------------------------------------------------
(***************************************************************************)
(* Properties.                                                             *)
(***************************************************************************)

MatchingRows(d) == ToSet(rows) \cap HwDaemons \cap NameExtends[d]

CanFindAllDone ==
    \/ HwDaemons = {}
    \/ /\ \E d \in HwDaemons : MatchingRows(d) # {}
       /\ \A d \in HwDaemons : MatchingRows(d) # {} => MatchingRows(d) \cap done # {}

CanFindNotDone ==
    /\ HwDaemons # {}
    /\ \/ \A d \in HwDaemons : MatchingRows(d) = {}
       \/ \E d \in HwDaemons : MatchingRows(d) \ done # {}

\* The loop decides only what SysdRun lets its scan decide, for every order of the
\* manifest and of the rows.
ScanIsCanFind ==
    /\ verdict = "done" => CanFindAllDone
    /\ verdict = "wait" => CanFindNotDone

\* Where the scan passes over a daemon that has not reported, a namesake that has
\* reported stood for it; order alone hides no daemon.
OnlyNamesakesHide ==
    verdict = "done" =>
        \A d \in HwDaemons \ done : (NameExtends[d] \ {d}) \cap done # {}

\* A scan that says "wait" waits for a report that can still come, unless the push
\* has left the table without rows.
WaitsForSomeone ==
    verdict = "wait" => rows = <<>> \/ HwDaemons \ done # {}
=============================================================================
