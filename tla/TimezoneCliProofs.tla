-------------------------- MODULE TimezoneCliProofs --------------------------
(***************************************************************************)
(* The properties of TimezoneCli for any number of sessions, any zones and *)
(* any directories.                                                        *)
(***************************************************************************)
EXTENDS TimezoneCli, FiniteSetTheorems, SequenceTheorems, WellFoundedInduction, TLAPS

Entries == [lower : Names, caps : Zones]
SystemRow == [zone : Zones \cup {NoZone}, subsystem : BOOLEAN]

TypeInv ==
    /\ db \in SystemRow \cup {NULL}
    /\ rep \in [Sessions -> SystemRow \cup {NULL}]
    /\ zoneList \in [Sessions -> Seq(Entries)]
    /\ pc \in [Sessions -> {"off", "idle", "commit", "removed", "reported"}]
    /\ new \in [Sessions -> Zones \cup {NULL}]
    /\ user \in [Sessions -> Users \cup {NULL}]
    /\ file \subseteq Reports
    /\ fileOwner \in Users \cup {NULL}
    /\ kept \in [Sessions -> BOOLEAN]

\* The list of session s holds the zones of Z, each under its own name.
Holds(s, Z) ==
    /\ Len(zoneList[s]) = Cardinality(Z)
    /\ \A n \in 1..Len(zoneList[s]) : zoneList[s][n].lower = lower[zoneList[s][n].caps]
    /\ \A z \in Z : \E n \in 1..Len(zoneList[s]) : zoneList[s][n].caps = z

ListInv == \A s \in Sessions : \E Z \in SUBSET Zones : Holds(s, Z)

\* A command that is about to commit has a System row and a zone to set.
CommitInv ==
    \A s \in Sessions :
        /\ rep[s] # NULL => db # NULL
        /\ pc[s] = "commit" => rep[s] # NULL /\ new[s] \in Zones

\* Every report in the file was taken under every command that may still read it and
\* has removed what was there before.
FreshInv ==
    \A s \in Sessions : pc[s] \in {"removed", "reported"} /\ ~kept[s] => \A r \in file : s \in r

Inv == TypeInv /\ ListInv /\ CommitInv /\ FreshInv

-----------------------------------------------------------------------------
\* A set of positions that is not empty has a first one.
LEMMA FirstPosition ==
    ASSUME NEW S, S \subseteq Nat, S # {}
    PROVE  (CHOOSE n \in S : \A m \in S : n <= m) \in S
<1> DEFINE Less == OpToRel(<, Nat)
<1>1. IsWellFoundedOn(Less, Nat)
  BY NatLessThanWellFounded
<1> HIDE DEF Less
<1>2. PICK n \in S : \A m \in S : ~ (<<m, n>> \in Less)
  BY <1>1, WFMin
<1>3. ASSUME NEW m \in S PROVE n <= m
  <2>1. n \in Nat /\ m \in Nat
    OBVIOUS
  <2>2. m < n => <<m, n>> \in Less
    BY <2>1 DEF Less, OpToRel
  <2>. QED  BY <1>2, <2>1, <2>2
<1>. QED  BY <1>2, <1>3

\* translate_cmd_to_filepath() finds a zone exactly if the list has the name, and then
\* one of that name.
LEMMA TranslateFinds ==
    ASSUME TypeInv, NEW s \in Sessions, NEW Z \in SUBSET Zones, Holds(s, Z), NEW name
    PROVE  /\ Translate(s, name) = NULL \/
                 (Translate(s, name) \in Zones /\ lower[Translate(s, name)] = name)
           /\ (\E z \in Z : lower[z] = name) => Translate(s, name) # NULL
<1> DEFINE at == {n \in 1..Len(zoneList[s]) : zoneList[s][n].lower = name}
           first == CHOOSE n \in at : \A m \in at : n <= m
<1>1. zoneList[s] \in Seq(Entries)
  BY DEF TypeInv
<1>2. \A n \in 1..Len(zoneList[s]) : zoneList[s][n] \in Entries
  BY <1>1
<1>3. at # {} => first \in at
  <2>1. at \subseteq Nat
    BY <1>1
  <2> HIDE DEF at
  <2>. QED  BY <2>1, FirstPosition
<1>4. Translate(s, name) = IF at = {} THEN NULL ELSE zoneList[s][first].caps
  BY DEF Translate
<1>5. ASSUME NEW n \in at PROVE zoneList[s][n].caps \in Zones /\ lower[zoneList[s][n].caps] = name
  BY <1>2 DEF Holds, Entries
<1>6. (\E z \in Z : lower[z] = name) => at # {}
  BY DEF Holds
<1>7. NULL \notin Zones
  BY ZonesAssumption
<1> HIDE DEF at, first
<1>. QED  BY <1>3, <1>4, <1>5, <1>6, <1>7

-----------------------------------------------------------------------------
LEMMA InitInv == Init => Inv
<1> SUFFICES ASSUME Init PROVE Inv
  OBVIOUS
<1>1. TypeInv
  BY DEF Init, TypeInv, Reports
<1>2. ListInv
  <2> SUFFICES ASSUME NEW s \in Sessions PROVE Holds(s, {})
    BY DEF ListInv
  <2>1. zoneList[s] = <<>>
    BY DEF Init
  <2>2. Len(zoneList[s]) = 0
    BY <2>1
  <2>. QED  BY <2>2, FS_EmptySet DEF Holds
<1>3. CommitInv /\ FreshInv
  BY DEF Init, CommitInv, FreshInv
<1>. QED  BY <1>1, <1>2, <1>3 DEF Inv

\* A step that leaves the list of zones and keeps what Holds speaks of.
LEMMA ListKept == ListInv /\ UNCHANGED zoneList => ListInv'
<1> SUFFICES ASSUME ListInv, zoneList' = zoneList PROVE ListInv'
  OBVIOUS
<1>1. \A s \in Sessions, Z \in SUBSET Zones : Holds(s, Z) => Holds(s, Z)'
  BY DEF Holds
<1>. QED  BY <1>1 DEF ListInv

LEMMA PushKeeps == Inv /\ Push => Inv'
<1> SUFFICES ASSUME Inv, Push PROVE Inv'
  OBVIOUS
<1> USE DEF Inv
<1>1. db' \in SystemRow
  <2>1. UTC \in Zones \cup {NoZone} /\ NoZone \in Zones \cup {NoZone}
    BY ZonesAssumption
  <2>2. \A z \in Zones \cup {NoZone}, b \in BOOLEAN : [zone |-> z, subsystem |-> b] \in SystemRow
    BY DEF SystemRow
  <2>3. PICK z \in {UTC, NoZone}, b \in BOOLEAN : db' = [zone |-> z, subsystem |-> b]
    BY Zenon DEF Push
  <2>. QED  BY <2>1, <2>2, <2>3
<1>2. UNCHANGED <<rep, zoneList, pc, new, user, file, fileOwner, kept>>
  BY DEF Push, cliVars, fileVars
<1>3. db' # NULL
  BY <1>1, ZonesAssumption DEF SystemRow
<1>4. TypeInv' /\ ListInv' /\ FreshInv'
  BY <1>1, <1>2, ListKept DEF TypeInv, FreshInv
<1>5. CommitInv'
  BY <1>2, <1>3 DEF CommitInv
<1>. QED  BY <1>4, <1>5

LEMMA RestSetKeeps == ASSUME NEW name PROVE Inv /\ RestSet(name) => Inv'
<1> SUFFICES ASSUME Inv, RestSet(name) PROVE Inv'
  OBVIOUS
<1> USE DEF Inv
<1>1. db \in SystemRow /\ db' = [db EXCEPT !.zone = name] /\ name \in Zones
  BY DEF RestSet, RestAccepts, TypeInv
<1>2. UNCHANGED <<rep, zoneList, pc, new, user, file, fileOwner, kept>>
  BY DEF RestSet, cliVars, fileVars
<1>3. db' \in SystemRow
  BY <1>1 DEF SystemRow
<1>4. db' # NULL
  BY <1>3, ZonesAssumption DEF SystemRow
<1>5. TypeInv' /\ ListInv' /\ FreshInv'
  BY <1>2, <1>3, ListKept DEF TypeInv, FreshInv
<1>6. CommitInv'
  BY <1>2, <1>4 DEF CommitInv
<1>. QED  BY <1>5, <1>6

LEMMA DeliverKeeps == ASSUME NEW s \in Sessions PROVE Inv /\ Deliver(s) => Inv'
<1> SUFFICES ASSUME Inv, Deliver(s) PROVE Inv'
  OBVIOUS
<1> USE DEF Inv
<1>1. /\ UNCHANGED <<db, zoneList, pc, new, user, file, fileOwner, kept>>
      /\ rep' = [rep EXCEPT ![s] = db]
  BY DEF Deliver, fileVars
<1>2. TypeInv' /\ ListInv' /\ FreshInv'
  BY <1>1, ListKept DEF TypeInv, FreshInv
<1>3. \A t \in Sessions : rep'[t] = IF t = s THEN db ELSE rep[t]
  BY <1>1 DEF TypeInv
<1>4. pc[s] # "commit"
  BY DEF Deliver
<1>5. CommitInv'
  BY <1>1, <1>3, <1>4 DEF CommitInv
<1>. QED  BY <1>2, <1>5

\* The list of a session that starts is one of the walks.
LEMMA StartKeeps == ASSUME NEW s \in Sessions PROVE Inv /\ Start(s) => Inv'
<1> SUFFICES ASSUME Inv, Start(s) PROVE Inv'
  OBVIOUS
<1> USE DEF Inv
<1>1. PICK w \in Walks : zoneList' = [zoneList EXCEPT ![s] =
                              [n \in 1..Len(w) |-> [lower |-> lower[w[n]], caps |-> w[n]]]]
  BY DEF Start
<1>2. /\ UNCHANGED <<db, rep, new, file, fileOwner, kept>>
      /\ pc' = [pc EXCEPT ![s] = "idle"]
      /\ \E u \in Users : user' = [user EXCEPT ![s] = u]
  BY DEF Start, fileVars
<1>3. PICK Z \in SUBSET Zones : /\ w \in [1..Cardinality(Z) -> Z]
                                /\ \A z \in Z : \E n \in DOMAIN w : w[n] = z
  BY DEF Walks
<1>4. Cardinality(Z) \in Nat
  BY ZonesAssumption, FS_Subset, FS_CardinalityType
<1>5. w \in Seq(Z) /\ Len(w) = Cardinality(Z)
  BY <1>3, <1>4
<1> DEFINE l == [n \in 1..Len(w) |-> [lower |-> lower[w[n]], caps |-> w[n]]]
<1>6. \A n \in 1..Len(w) : w[n] \in Zones /\ [lower |-> lower[w[n]], caps |-> w[n]] \in Entries
  BY <1>5 DEF Entries, Names
<1>7. l \in Seq(Entries) /\ Len(l) = Cardinality(Z)
  BY <1>4, <1>5, <1>6
<1>8. zoneList'[s] = l /\ \A t \in Sessions : t # s => zoneList'[t] = zoneList[t]
  BY <1>1 DEF TypeInv
<1>9. Holds(s, Z)'
  <2>1. \A n \in 1..Len(w) : l[n].lower = lower[w[n]] /\ l[n].caps = w[n]
    OBVIOUS
  <2>2. \A z \in Z : \E n \in 1..Len(w) : l[n].caps = z
    BY <1>3, <1>5, <2>1
  <2> HIDE DEF l
  <2>. QED  BY <1>5, <1>7, <1>8, <2>1, <2>2 DEF Holds
<1> HIDE DEF l
<1>10. ListInv'
  <2>1. \A t \in Sessions, Y \in SUBSET Zones : t # s /\ Holds(t, Y) => Holds(t, Y)'
    BY <1>8 DEF Holds
  <2>. QED  BY <1>9, <2>1 DEF ListInv
<1>11. TypeInv'
  <2>1. zoneList' \in [Sessions -> Seq(Entries)]
    BY <1>1, <1>7 DEF TypeInv, l
  <2>. QED  BY <1>2, <2>1 DEF TypeInv
<1>12. \A t \in Sessions : pc'[t] = IF t = s THEN "idle" ELSE pc[t]
  BY <1>2 DEF TypeInv
<1>13. CommitInv' /\ FreshInv'
  BY <1>2, <1>12 DEF CommitInv, FreshInv
<1>. QED  BY <1>10, <1>11, <1>13

LEMMA SetTimezoneKeeps ==
    ASSUME NEW s \in Sessions, NEW name \in Names, NEW no \in BOOLEAN
    PROVE  Inv /\ SetTimezone(s, name, no) => Inv'
<1> SUFFICES ASSUME Inv, SetTimezone(s, name, no) PROVE Inv'
  OBVIOUS
<1> USE DEF Inv
<1> DEFINE target == Target(s, name, no)
<1>1. /\ UNCHANGED <<db, rep, zoneList, user, file, fileOwner, kept>>
      /\ new' = [new EXCEPT ![s] = target]
      /\ pc' = [pc EXCEPT ![s] = "commit"]
  BY DEF SetTimezone, fileVars
<1>2. rep[s] # NULL /\ target # NULL
  BY DEF SetTimezone
<1>3. PICK Z \in SUBSET Zones : Holds(s, Z)
  BY DEF ListInv
<1>4. target \in {Translate(s, lower[UTC]), Translate(s, name)}
  BY <1>2 DEF Target
<1>5. target \in Zones
  BY <1>2, <1>3, <1>4, TranslateFinds
<1> HIDE DEF target
<1>6. TypeInv' /\ ListInv'
  BY <1>1, <1>5, ListKept DEF TypeInv
<1>7. \A t \in Sessions : /\ pc'[t] = IF t = s THEN "commit" ELSE pc[t]
                          /\ new'[t] = IF t = s THEN target ELSE new[t]
  BY <1>1 DEF TypeInv
<1>8. CommitInv'
  BY <1>1, <1>2, <1>5, <1>7 DEF CommitInv
<1>9. FreshInv'
  BY <1>1, <1>7 DEF FreshInv
<1>. QED  BY <1>6, <1>8, <1>9

LEMMA CommitKeeps == ASSUME NEW s \in Sessions PROVE Inv /\ Commit(s) => Inv'
<1> SUFFICES ASSUME Inv, Commit(s) PROVE Inv'
  OBVIOUS
<1> USE DEF Inv
<1>1. /\ UNCHANGED <<zoneList, user, file, fileOwner, kept>>
      /\ new' = [new EXCEPT ![s] = NULL]
      /\ pc' = [pc EXCEPT ![s] = "idle"]
  BY DEF Commit, fileVars
<1>2. db \in SystemRow /\ db # NULL /\ new[s] \in Zones
  BY DEF Commit, CommitInv, TypeInv
<1>3. db' \in SystemRow /\ rep' \in [Sessions -> SystemRow \cup {NULL}]
  <2>1. [db EXCEPT !.zone = new[s]] \in SystemRow
    BY <1>2 DEF SystemRow
  <2>2. CASE UNCHANGED <<db, rep>>
    BY <1>2, <2>2 DEF TypeInv
  <2>3. CASE db' = [db EXCEPT !.zone = new[s]] /\ rep' = [rep EXCEPT ![s] = db']
    <3>1. db' \in SystemRow
      BY <2>1, <2>3
    <3>. QED  BY <2>3, <3>1 DEF TypeInv
  <2>. QED  BY <2>2, <2>3 DEF Commit
<1>4. db' # NULL
  BY <1>3, ZonesAssumption DEF SystemRow
<1>5. TypeInv' /\ ListInv'
  BY <1>1, <1>3, ListKept DEF TypeInv
<1>6. \A t \in Sessions : /\ pc'[t] = IF t = s THEN "idle" ELSE pc[t]
                          /\ t # s => new'[t] = new[t] /\ rep'[t] = rep[t]
  BY <1>1 DEF Commit, TypeInv
<1>7. CommitInv'
  BY <1>4, <1>6 DEF CommitInv
<1>8. FreshInv'
  BY <1>1, <1>6 DEF FreshInv
<1>. QED  BY <1>5, <1>7, <1>8

\* The three steps of "show system timezone".
LEMMA ReportKeeps ==
    ASSUME NEW s \in Sessions
    PROVE  Inv /\ (RemoveReport(s) \/ AppendReport(s) \/ ReadReport(s)) => Inv'
<1> SUFFICES ASSUME Inv, RemoveReport(s) \/ AppendReport(s) \/ ReadReport(s) PROVE Inv'
  OBVIOUS
<1> USE DEF Inv
<1>1. UNCHANGED <<db, rep, zoneList, new, user>>
  BY DEF RemoveReport, AppendReport, ReadReport
<1>2. PICK to \in {"idle", "removed", "reported"} : pc' = [pc EXCEPT ![s] = to]
  BY DEF RemoveReport, AppendReport, ReadReport
<1>3. \A t \in Sessions : pc'[t] = IF t = s THEN to ELSE pc[t]
  BY <1>2 DEF TypeInv
<1>4. /\ kept' \in [Sessions -> BOOLEAN]
      /\ \A t \in Sessions : t # s => kept'[t] = kept[t]
  BY Zenon DEF RemoveReport, AppendReport, ReadReport, TypeInv
<1>5. file' \subseteq Reports /\ fileOwner' \in Users \cup {NULL}
  BY DEF RemoveReport, AppendReport, ReadReport, Reports, TypeInv
<1>6. TypeInv' /\ ListInv'
  BY <1>1, <1>2, <1>4, <1>5, ListKept DEF TypeInv
<1>7. CommitInv'
  BY <1>1, <1>3 DEF CommitInv
<1>8. FreshInv'
  <2>1. CASE RemoveReport(s)
    <3>1. CASE MayReplace(s)
      BY <2>1, <3>1 DEF RemoveReport, FreshInv
    <3>2. CASE ~MayReplace(s)
      <4>1. file' = file /\ kept'[s]
        BY <2>1, <3>2 DEF RemoveReport, TypeInv
      <4>. QED  BY <1>3, <1>4, <4>1 DEF FreshInv
    <3>. QED  BY <3>1, <3>2
  <2>2. CASE AppendReport(s)
    <3>1. pc[s] = "removed" /\ to = "reported" /\ kept' = kept
      BY <1>2, <2>2 DEF AppendReport, TypeInv
    <3>2. file' \subseteq file \cup {{t \in Sessions : pc[t] \in {"removed", "reported"}}}
      BY <2>2 DEF AppendReport
    <3>. QED  BY <1>3, <3>1, <3>2 DEF FreshInv
  <2>3. CASE ReadReport(s)
    <3>1. file' = file /\ to = "idle"
      BY <1>2, <2>3 DEF ReadReport, TypeInv
    <3>. QED  BY <1>3, <1>4, <3>1 DEF FreshInv
  <2>. QED  BY <2>1, <2>2, <2>3
<1>. QED  BY <1>6, <1>7, <1>8

\* The commands that a null pointer ends the session in.
LEMMA EndSessionKeeps ==
    ASSUME NEW s \in Sessions
    PROVE  Inv /\ (PopenFails(s) \/ ShowSystem(s)) => Inv'
<1> SUFFICES ASSUME Inv, PopenFails(s) \/ ShowSystem(s) PROVE Inv'
  OBVIOUS
<1> USE DEF Inv
<1>1. /\ UNCHANGED <<db, new, file, fileOwner>>
      /\ pc' = [pc EXCEPT ![s] = "off"]
      /\ rep' = [rep EXCEPT ![s] = NULL] /\ zoneList' = [zoneList EXCEPT ![s] = <<>>]
      /\ user' = [user EXCEPT ![s] = NULL] /\ kept' = [kept EXCEPT ![s] = FALSE]
  BY DEF PopenFails, ShowSystem, EndSession
<1>2. <<>> \in Seq(Entries)
  OBVIOUS
<1>3. TypeInv'
  BY <1>1, <1>2 DEF TypeInv
<1>4. \A t \in Sessions : /\ pc'[t] = IF t = s THEN "off" ELSE pc[t]
                          /\ rep'[t] = IF t = s THEN NULL ELSE rep[t]
                          /\ zoneList'[t] = IF t = s THEN <<>> ELSE zoneList[t]
                          /\ t # s => kept'[t] = kept[t]
  BY <1>1 DEF TypeInv
<1>5. ListInv'
  <2>1. zoneList'[s] = <<>> /\ Len(zoneList'[s]) = 0
    BY <1>4
  <2>2. Holds(s, {})'
    BY <2>1, FS_EmptySet DEF Holds
  <2>3. \A t \in Sessions, Z \in SUBSET Zones : t # s /\ Holds(t, Z) => Holds(t, Z)'
    BY <1>4 DEF Holds
  <2>. QED  BY <2>2, <2>3 DEF ListInv
<1>6. CommitInv'
  <2> SUFFICES ASSUME NEW t \in Sessions
               PROVE  /\ rep'[t] # NULL => db' # NULL
                      /\ pc'[t] = "commit" => rep'[t] # NULL /\ new'[t] \in Zones
    BY Zenon DEF CommitInv
  <2>1. CASE t = s
    BY <1>4, <2>1
  <2>2. CASE t # s
    BY <1>1, <1>4, <2>2 DEF CommitInv
  <2>. QED  BY <2>1, <2>2
<1>7. FreshInv'
  <2> SUFFICES ASSUME NEW t \in Sessions, (pc[t] \in {"removed", "reported"} /\ ~kept[t])'
               PROVE  (\A r \in file : t \in r)'
    BY Zenon DEF FreshInv
  <2>1. t # s /\ pc[t] \in {"removed", "reported"} /\ ~kept[t]
    BY <1>4
  <2>. QED  BY <1>1, <2>1 DEF FreshInv
<1>. QED  BY <1>3, <1>5, <1>6, <1>7

-----------------------------------------------------------------------------
LEMMA NextInv == Inv /\ [Next]_vars => Inv'
<1> SUFFICES ASSUME Inv, [Next]_vars PROVE Inv'
  OBVIOUS
<1>1. CASE UNCHANGED vars
  <2>1. UNCHANGED <<db, rep, zoneList, pc, new, user, file, fileOwner, kept>>
    BY <1>1 DEF vars, cliVars, fileVars
  <2>2. TypeInv' /\ ListInv'
    BY <2>1, ListKept DEF Inv, TypeInv
  <2>3. CommitInv' /\ FreshInv'
    BY <2>1 DEF Inv, CommitInv, FreshInv
  <2>. QED  BY <2>2, <2>3 DEF Inv
<1>2. CASE Next
  BY <1>2, PushKeeps, RestSetKeeps, DeliverKeeps, StartKeeps, SetTimezoneKeeps, CommitKeeps,
     ReportKeeps, EndSessionKeeps DEF Next
<1>. QED  BY <1>1, <1>2

LEMMA InvHolds == Spec => []Inv
  BY InitInv, NextInv, PTL DEF Spec

\* What the lists of cli_pre_init() mean for the running configuration: the name that is
\* printed for a zone sets that zone, or nothing.
LEMMA ListRestores == Inv => RunningConfigRestores
<1> SUFFICES ASSUME Inv, NEW s \in Sessions, NEW z \in Zones, rep[s].zone # NoZone
             PROVE  LET set == Target(s, RunningConfig(z), FALSE) IN
                    /\ set \in {z, NULL}
                    /\ Len(zoneList[s]) = Cardinality(Zones) => set = z
  BY DEF RunningConfigRestores
<1>1. PICK Z \in SUBSET Zones : Holds(s, Z)
  BY DEF Inv, ListInv
<1> DEFINE set == Translate(s, lower[z])
<1>2. set = NULL \/ (set \in Zones /\ lower[set] = lower[z])
  BY <1>1, TranslateFinds DEF Inv
<1>3. set \in {z, NULL}
  BY <1>2, ZonesAssumption
<1>4. ASSUME Len(zoneList[s]) = Cardinality(Zones) PROVE set = z
  <2>1. Cardinality(Z) = Cardinality(Zones)
    BY <1>1, <1>4 DEF Holds
  <2>2. Z = Zones
    BY <2>1, ZonesAssumption, FS_Subset
  <2>3. set # NULL
    BY <1>1, <2>2, TranslateFinds DEF Inv
  <2>. QED  BY <1>3, <2>3
<1>5. Target(s, RunningConfig(z), FALSE) = set
  BY DEF Target, RunningConfig
<1> HIDE DEF set
<1>. QED  BY <1>3, <1>4, <1>5

\* Every list fits the arrays of the CLI, for any number of zones up to MAX_TIMEZONES.
THEOREM TimezoneTypes == Spec => []TypeOK
<1>1. Inv => TypeOK
  <2> SUFFICES ASSUME Inv PROVE TypeOK
    OBVIOUS
  <2>1. SystemRow \cup {NULL} \subseteq Systems
    BY DEF SystemRow, Systems
  <2>2. ASSUME NEW s \in Sessions PROVE Len(zoneList[s]) <= MaxTimezones
    <3>1. PICK Z \in SUBSET Zones : Len(zoneList[s]) = Cardinality(Z)
      BY DEF Inv, ListInv, Holds
    <3>2. Cardinality(Z) <= Cardinality(Zones) /\ Cardinality(Z) \in Nat /\ Cardinality(Zones) \in Nat
      BY ZonesAssumption, FS_Subset, FS_CardinalityType
    <3>. QED  BY <3>1, <3>2, ZonesAssumption
  <2>3. ASSUME NEW s \in Sessions PROVE zoneList[s] \in Seq([lower : Names, caps : Zones \cup Names])
    <3>1. zoneList[s] \in Seq(Entries)
      BY DEF Inv, TypeInv
    <3>2. Entries \subseteq [lower : Names, caps : Zones \cup Names]
      BY DEF Entries
    <3>. QED  BY <3>1, <3>2, SeqMonotonic
  <2>4. db \in Systems /\ rep \in [Sessions -> Systems]
    BY <2>1 DEF Inv, TypeInv
  <2>5. new \in [Sessions -> Zones \cup Names \cup {NULL}]
    BY DEF Inv, TypeInv
  <2>. QED  BY <2>2, <2>3, <2>4, <2>5 DEF Inv, TypeInv, TypeOK
<1>. QED  BY <1>1, InvHolds, PTL

\* Whoever sets it, in any number of sessions or by REST, the zone is one that exists.
THEOREM ZoneIsAFile == Spec => []ZoneExists
<1>1. Inv => ZoneExists
  BY DEF Inv, TypeInv, SystemRow, ZoneExists
<1>. QED  BY <1>1, InvHolds, PTL

\* The running configuration of any session restores its zone in every other that sees
\* a zone configured.
THEOREM ConfigRestores == Spec => []RunningConfigRestores
  BY InvHolds, ListRestores, PTL

\* No session whose remove() succeeded shows a report that is older than its command, for
\* any number of sessions and users that share the file.
THEOREM ReportsFresh == Spec => []ShownIsFresh
<1>1. Inv => ShownIsFresh
  BY DEF Inv, FreshInv, ShownIsFresh
<1>. QED  BY <1>1, InvHolds, PTL
=============================================================================
