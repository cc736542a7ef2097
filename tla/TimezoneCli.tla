---------------------------- MODULE TimezoneCli -----------------------------
(***************************************************************************)
(* The time zone in the hands of its users: "timezone set", its no form    *)
(* and "show system timezone" of src/cli/system_vty.c in any number of     *)
(* vtysh sessions, the running configuration, and the validator of         *)
(* opsplugins/system.py.  A session is a process with its own replica of   *)
(* the database and its own list of zones, run by one of the users of the  *)
(* switch; a command reads the replica in one step and commits in another. *)
(***************************************************************************)
EXTENDS Naturals, Sequences, FiniteSets

CONSTANTS
    Sessions,
    Users,          \* accounts that run vtysh
    Superusers,     \* those that may remove and write everybody's files
    Zones,          \* the files below /usr/share/zoneinfo/posix
    lower,          \* [Zones -> names], tolower() of a zone's name
    Dirs,           \* [Zones -> the directories above them]
    UTC,            \* DFLT_TIMEZONE; its lower case is DEFAULT_TIMEZONE
    NoZone,         \* an empty timezone column
    MaxTimezones,   \* MAX_TIMEZONES
    NULL

\* The zone directory: names differ in more than case, no directory entry is in lower
\* case already, and the arrays of the CLI hold them all.
ASSUME ZonesAssumption ==
    /\ IsFiniteSet(Zones) /\ UTC \in Zones /\ NoZone \notin Zones
    /\ NULL \notin Zones \cup {NoZone} \cup [zone : Zones \cup {NoZone}, subsystem : BOOLEAN]
    /\ MaxTimezones \in Nat /\ Cardinality(Zones) <= MaxTimezones
    /\ DOMAIN lower = Zones /\ DOMAIN Dirs = Zones
    /\ Superusers \subseteq Users /\ NULL \notin Users
    /\ \A y, z \in Zones : (lower[y] = lower[z] => y = z) /\ lower[y] # z

VARIABLES
    db,             \* System:timezone and whether there is a Subsystem row; NULL before the push
    rep,            \* [session -> its replica of db]
    zoneList,       \* [session -> list_of_zones and list_of_zones_caps]
    pc,
    new,            \* [session -> the zone its transaction sets]
    user,           \* [session -> the user that runs it]
    file,           \* the reports in /tmp/timezone_info
    fileOwner,      \* its owner; NULL when there is no such file
    kept            \* [session -> its remove() of the file failed, which it does not look at]

cliVars  == <<rep, zoneList, pc, new, user>>
fileVars == <<file, fileOwner, kept>>
vars     == <<db, cliVars, fileVars>>

Names   == {lower[z] : z \in Zones}
Systems == [zone : Zones \cup Names \cup {NoZone}, subsystem : BOOLEAN] \cup {NULL}

\* A report of timedatectl, told apart by the sessions whose command was under way then.
Reports == SUBSET Sessions

TypeOK ==
    /\ db \in Systems
    /\ rep \in [Sessions -> Systems]
    /\ \A s \in Sessions : /\ zoneList[s] \in Seq([lower : Names, caps : Zones \cup Names])
                           /\ Len(zoneList[s]) <= MaxTimezones
    /\ pc \in [Sessions -> {"off", "idle", "commit", "removed", "reported"}]
    /\ new \in [Sessions -> Zones \cup Names \cup {NULL}]
    /\ user \in [Sessions -> Users \cup {NULL}]
    /\ file \subseteq Reports
    /\ fileOwner \in Users \cup {NULL}
    /\ kept \in [Sessions -> BOOLEAN]

Init ==
    /\ db = NULL
    /\ rep = [s \in Sessions |-> NULL]
    /\ zoneList = [s \in Sessions |-> <<>>]
    /\ pc = [s \in Sessions |-> "off"]
    /\ new = [s \in Sessions |-> NULL]
    /\ user = [s \in Sessions |-> NULL]
    /\ file = {} /\ fileOwner = NULL
    /\ kept = [s \in Sessions |-> FALSE]

-----------------------------------------------------------------------------
(***************************************************************************)
(* The rest of the switch.                                                 *)
(***************************************************************************)

\* ops-sysd's initial push.  Where memory fails, it ends before the zone, or before the
\* Subsystem row: see InitialPush.
Push ==
    /\ db = NULL
    /\ db' \in {[zone |-> UTC, subsystem |-> TRUE], [zone |-> NoZone, subsystem |-> TRUE],
               [zone |-> NoZone, subsystem |-> FALSE]}
    /\ UNCHANGED <<cliVars, fileVars>>

\* Faulty variant: the validator knows names in any case.
RestAcceptsAnyCase(name) == name \in Zones \cup Names

\* check_valid_timezone(): the exact name of a file below the zone directory.
RestAccepts(name) == name \in Zones

\* A REST request with a zone, right or wrong.
RestSet(name) ==
    /\ db # NULL /\ RestAccepts(name)
    /\ db' = [db EXCEPT !.zone = name]
    /\ UNCHANGED <<cliVars, fileVars>>

\* The replica catches up; not while "timezone set" holds the vtysh lock.
Deliver(s) ==
    /\ pc[s] \in {"idle", "removed", "reported"} /\ rep[s] # db
    /\ rep' = [rep EXCEPT ![s] = db]
    /\ UNCHANGED <<db, zoneList, pc, new, user, fileVars>>

-----------------------------------------------------------------------------
(***************************************************************************)
(* A session.                                                              *)
(***************************************************************************)

\* The walk finds the zones below the directories that can be opened, in any order.
Walks ==
    LET Found == {{z \in Zones : Dirs[z] \subseteq D} : D \in SUBSET UNION {Dirs[z] : z \in Zones}} IN
    UNION {{w \in [1..Cardinality(Z) -> Z] : \A z \in Z : \E n \in DOMAIN w : w[n] = z} : Z \in Found}

\* Faulty variant: the commands are installed twice and zone_count goes on.
StartTwice(s) ==
    /\ pc[s] = "off"
    /\ \E w \in Walks :
          zoneList' = [zoneList EXCEPT ![s] =
                          [n \in 1..2 * Len(w) |-> LET z == w[IF n > Len(w) THEN n - Len(w) ELSE n] IN
                                                   [lower |-> lower[z], caps |-> z]]]
    /\ \E u \in Users : user' = [user EXCEPT ![s] = u]
    /\ pc' = [pc EXCEPT ![s] = "idle"]
    /\ UNCHANGED <<db, rep, new, fileVars>>

\* cli_pre_init(): populate_zone_db() for each zone found, lower case beside the name.
Start(s) ==
    /\ pc[s] = "off"
    /\ \E w \in Walks :
          zoneList' = [zoneList EXCEPT ![s] =
                          [n \in 1..Len(w) |-> [lower |-> lower[w[n]], caps |-> w[n]]]]
    /\ \E u \in Users : user' = [user EXCEPT ![s] = u]
    /\ pc' = [pc EXCEPT ![s] = "idle"]
    /\ UNCHANGED <<db, rep, new, fileVars>>

\* Faulty variant: the index is one too far.
TranslateNext(s, name) ==
    LET at == {n \in 1..Len(zoneList[s]) : n > 1 /\ zoneList[s][n - 1].lower = name} IN
    IF at = {} THEN NULL ELSE zoneList[s][CHOOSE n \in at : \A m \in at : n <= m].caps

\* translate_cmd_to_filepath(): the first zone of the list with that name.
Translate(s, name) ==
    LET at == {n \in 1..Len(zoneList[s]) : zoneList[s][n].lower = name} IN
    IF at = {} THEN NULL ELSE zoneList[s][CHOOSE n \in at : \A m \in at : n <= m].caps

\* The zone cli_set_timezone() sets, NULL when it refuses: a no form that names another
\* zone than the replica has, or a name that is not in the list.  With an empty column
\* neither form looks at the name: timezone_cmd keeps its first value, the default.
Target(s, name, no) ==
    IF rep[s].zone = NoZone THEN Translate(s, lower[UTC])
    ELSE IF no /\ lower[rep[s].zone] # name THEN NULL
    ELSE Translate(s, IF no THEN lower[UTC] ELSE name)

\* "timezone set NAME" or its no form, for a name of the list, up to the transaction's
\* commit.  Without a System row nothing happens.
SetTimezone(s, name, no) ==
    /\ pc[s] = "idle" /\ rep[s] # NULL
    /\ \E n \in 1..Len(zoneList[s]) : zoneList[s][n].lower = name
    /\ Target(s, name, no) # NULL
    /\ new' = [new EXCEPT ![s] = Target(s, name, no)]
    /\ pc' = [pc EXCEPT ![s] = "commit"]
    /\ UNCHANGED <<db, rep, zoneList, user, fileVars>>

\* cli_do_config_finish(): nothing is verified, so that the last commit wins; it may fail.
Commit(s) ==
    /\ pc[s] = "commit"
    /\ \/ /\ db' = [db EXCEPT !.zone = new[s]]
          /\ rep' = [rep EXCEPT ![s] = db']
       \/ UNCHANGED <<db, rep>>
    /\ pc' = [pc EXCEPT ![s] = "idle"]
    /\ new' = [new EXCEPT ![s] = NULL]
    /\ UNCHANGED <<zoneList, user, fileVars>>

\* The file is in /tmp, where only its owner may remove or write it.
MayReplace(s) == fileOwner \in {NULL, user[s]} \/ user[s] \in Superusers

\* Faulty variant: the old file is left, and the new report appended to it.
RemoveReportNot(s) ==
    /\ pc[s] = "idle"
    /\ pc' = [pc EXCEPT ![s] = "removed"]
    /\ UNCHANGED <<db, rep, zoneList, new, user, fileVars>>

\* "show system timezone" removes the file that all sessions share; where that fails the
\* command goes on all the same,
RemoveReport(s) ==
    /\ pc[s] = "idle"
    /\ IF MayReplace(s) THEN file' = {} /\ fileOwner' = NULL ELSE UNCHANGED <<file, fileOwner>>
    /\ kept' = [kept EXCEPT ![s] = ~MayReplace(s)]
    /\ pc' = [pc EXCEPT ![s] = "removed"]
    /\ UNCHANGED <<db, rep, zoneList, new, user>>

\* appends what timedatectl says now, unless the shell may not write the file; timedatectl
\* may also fail, which leaves the file, perhaps a new one, as it is,
AppendReport(s) ==
    /\ pc[s] = "removed"
    /\ \/ /\ MayReplace(s)
          /\ \/ file' = file \cup {{t \in Sessions : pc[t] \in {"removed", "reported"}}}
             \/ file' = file
          /\ fileOwner' = IF fileOwner = NULL THEN user[s] ELSE fileOwner
       \/ UNCHANGED <<file, fileOwner>>
    /\ pc' = [pc EXCEPT ![s] = "reported"]
    /\ UNCHANGED <<db, rep, zoneList, new, user, kept>>

\* and shows what it reads: another session may have put its report there too, or have
\* removed the file.
ReadReport(s) ==
    /\ pc[s] = "reported"
    /\ pc' = [pc EXCEPT ![s] = "idle"]
    /\ kept' = [kept EXCEPT ![s] = FALSE]
    /\ UNCHANGED <<db, rep, zoneList, new, user, file, fileOwner>>

\* The process of a session ends with all it has, and another may be started.
EndSession(s) ==
    /\ pc' = [pc EXCEPT ![s] = "off"]
    /\ rep' = [rep EXCEPT ![s] = NULL]
    /\ zoneList' = [zoneList EXCEPT ![s] = <<>>]
    /\ user' = [user EXCEPT ![s] = NULL]
    /\ kept' = [kept EXCEPT ![s] = FALSE]
    /\ UNCHANGED <<db, new, file, fileOwner>>

\* popen() fails and pclose() is given a null pointer.
PopenFails(s) == pc[s] = "removed" /\ EndSession(s)

\* "show system" reads through a null pointer when there is no Subsystem row.
ShowSystem(s) ==
    /\ pc[s] = "idle"
    /\ rep[s] # NULL => ~rep[s].subsystem
    /\ EndSession(s)

Next ==
    \/ Push
    \/ \E name \in Zones \cup Names : RestSet(name)
    \/ \E s \in Sessions :
          \/ Deliver(s) \/ Start(s)
          \/ \E name \in Names, no \in BOOLEAN : SetTimezone(s, name, no)
          \/ Commit(s)
          \/ RemoveReport(s) \/ AppendReport(s) \/ ReadReport(s)
          \/ PopenFails(s) \/ ShowSystem(s)

Spec == Init /\ [][Next]_vars

-----------------------------------------------------------------------------
(***************************************************************************)
(* Properties.                                                             *)
(***************************************************************************)

\* Whoever set it and in whatever order, the time zone is a file that exists, written as
\* the file is, so that the link ops-sysd makes from it is not broken; it is empty only
\* after a push that failed.
ZoneExists == db # NULL => db.zone \in Zones \cup {NoZone}

\* The command that "show running-config" prints for a zone, in lower case.
RunningConfig(z) == lower[z]

\* Printed by one session and typed into any other that sees a zone configured, the
\* running configuration sets the zone it came from or is refused, and refused only
\* where a directory could not be read; what REST accepts the CLI can set and print.
RunningConfigRestores ==
    \A s \in Sessions, z \in Zones :
        rep[s] # NULL /\ rep[s].zone # NoZone /\ pc[s] # "off" /\ RestAccepts(z) =>
            LET set == Target(s, RunningConfig(z), FALSE) IN
            /\ set \in {z, NULL}
            /\ Len(zoneList[s]) = Cardinality(Zones) => set = z

\* The file is shared and not locked; still no session reads a report from it that was
\* taken before its command began, whoever has put it there, unless the file was another
\* user's that it could not remove.
ShownIsFresh ==
    \A s \in Sessions : pc[s] = "reported" /\ ~kept[s] => \A r \in file : s \in r
=============================================================================
