----------------------------- MODULE BootProofs -----------------------------
(***************************************************************************)
(* Proofs about Boot, for any directories, any inputs that are missing at  *)
(* a time, and any number of crashes and image updates between the boots.  *)
(***************************************************************************)
EXTENDS Boot, TLAPS

PCs == {"off", "failed", "died", "loop", "exiting"} \cup Stages

\* Stages behind the one named, in the order of main().
AfterManifest   == {"platform", "unlink", "mkdir", "symlink"} \cup {"yaml", "subsystem", "interfaces", "loop", "exiting"}
AfterLink       == {"yaml", "subsystem", "interfaces", "loop", "exiting"}
AfterYaml       == {"subsystem", "interfaces", "loop", "exiting"}
AfterSubsystem  == {"interfaces", "loop", "exiting"}

TypeInv ==
    /\ pc \in PCs
    /\ missing \in Faults
    /\ dir \in Dirs
    /\ link \in Dirs \cup {NoDir}
    /\ linkPath \in BOOLEAN
    /\ parsed \in Dirs \cup {NoDir}
    /\ mgmt_intf \in BOOLEAN
    /\ fru \in {"none", "yaml", "eeprom"}
    /\ fruYaml \in BOOLEAN
    /\ led \in {"off", "good", "flashing"}
    /\ pushed \in BOOLEAN
    /\ crashes \in 0..MaxCrashes

\* An old link survives its removal only where nothing can be written; the new one leads
\* to this boot's directory.
LinkInv ==
    /\ pc \in {"mkdir", "symlink"} => link = NoDir \/ "writable" \in missing
    /\ pc \in AfterLink => link = dir

\* What is in memory has come from this boot's files.
MemoryInv ==
    /\ pc \in AfterManifest => (mgmt_intf <=> "mgmt_intf" \notin missing)
    /\ pc \in AfterYaml => parsed = dir
    /\ pc \in AfterSubsystem => fru = FruSource
    /\ pc \in Stages \ AfterSubsystem => fru = "none"

LedInv == pc = "loop" => led = "good"

Inv == TypeInv /\ LinkInv /\ MemoryInv /\ LedInv /\ FailsForCause

-----------------------------------------------------------------------------
\* A stage that needs some inputs of Required goes on, or fails for one of them.
LEMMA NeedsFacts ==
    ASSUME NEW inputs \in SUBSET Required, NEW next, Needs(inputs, next)
    PROVE  \/ pc' = next /\ inputs \cap missing = {}
           \/ pc' = "failed" /\ missing \cap Required # {}
  BY DEF Needs, Goto

\* So does one whose allocation fails.
LEMMA MemoryFacts ==
    OutOfMemory => pc' = "failed" /\ missing \cap Required # {}
  BY DEF OutOfMemory, Goto, Required

LEMMA InitInv == Init => Inv
<1> SUFFICES ASSUME Init PROVE Inv
  OBVIOUS
<1>1. TypeInv
  <2>1. crashes \in 0..MaxCrashes
    BY BootAssumption DEF Init
  <2>2. mgmt_intf \in BOOLEAN /\ pushed \in BOOLEAN /\ linkPath \in BOOLEAN /\ fruYaml \in BOOLEAN
    BY Zenon DEF Init
  <2>. QED  BY <2>1, <2>2 DEF Init, TypeInv, PCs
<1>2. LinkInv /\ MemoryInv /\ LedInv /\ FailsForCause
  BY DEF Init, LinkInv, MemoryInv, LedInv, FailsForCause, AfterManifest, AfterLink, AfterYaml,
         AfterSubsystem, Stages
<1>. QED  BY <1>1, <1>2 DEF Inv

LEMMA InvStep == Inv /\ [Next]_vars => Inv'
<1> SUFFICES ASSUME Inv, [Next]_vars PROVE Inv'
  OBVIOUS
<1> USE DEF Inv, TypeInv, LinkInv, MemoryInv, LedInv, FailsForCause, PCs, Stages,
            AfterManifest, AfterLink, AfterYaml, AfterSubsystem, FruSource, files, memory, Goto
<1>1. CASE Start
  <2>1. {"appctl"} \in SUBSET Required
    BY DEF Required
  <2>2. pc' = "manifest" \/ (pc' = "failed" /\ missing \cap Required # {})
    BY <1>1, <2>1, NeedsFacts DEF Start
  <2>. QED  BY <1>1, <2>2 DEF Start
<1>2. CASE ReadManifest
  <2>1. {"manifest"} \in SUBSET Required
    BY DEF Required
  <2>2. \/ pc' = "platform"
        \/ pc' = "failed" /\ missing \cap Required # {}
        \/ pc' = "died" /\ "memory" \in missing
    BY <1>2, <2>1, NeedsFacts, MemoryFacts DEF ReadManifest
  <2>. QED  BY <1>2, <2>2 DEF ReadManifest
<1>3. CASE FindPlatform
  <2>1. {"platform", "descriptors"} \in SUBSET Required
    BY DEF Required
  <2>2. pc' = "unlink" \/ (pc' = "failed" /\ missing \cap Required # {})
    BY <1>3, <2>1, NeedsFacts DEF FindPlatform
  <2>. QED  BY <1>3, <2>2 DEF FindPlatform
<1>4. CASE RemoveOldLink
  BY <1>4 DEF RemoveOldLink
<1>5. CASE MakeLinkPath
  <2>1. "writable" \in Required
    BY DEF Required
  <2>. QED  BY <1>5, <2>1 DEF MakeLinkPath
<1>6. CASE MakeLink
  <2>1. "writable" \in Required
    BY DEF Required
  <2>. QED  BY <1>6, <2>1 DEF MakeLink
<1>7. CASE InitYaml
  <2> DEFINE inputs == {"devices", "ports", "fru_device"} \cup (IF fruYaml THEN {"fru_yaml"} ELSE {})
  <2>1. inputs \in SUBSET Required
    BY DEF Required
  <2>2. Needs(inputs, "subsystem")
    BY <1>7 DEF InitYaml
  <2> HIDE DEF inputs
  <2>3. pc' = "subsystem" \/ (pc' = "failed" /\ missing \cap Required # {})
    BY <2>1, <2>2, NeedsFacts
  <2>. QED  BY <1>7, <2>3 DEF InitYaml
<1>8. CASE GetSubsystemInfo
  <2>1. FruInputs \in SUBSET Required
    BY DEF Required, FruInputs
  <2>2. pc' = "interfaces" \/ (pc' = "failed" /\ missing \cap Required # {})
    BY <1>8, <2>1, NeedsFacts, MemoryFacts DEF GetSubsystemInfo
  <2>. QED  BY <1>8, <2>2 DEF GetSubsystemInfo
<1>9. CASE GetInterfaceInfo
  <2>1. {"port_info"} \in SUBSET Required
    BY DEF Required
  <2>2. pc' = "loop" \/ (pc' = "failed" /\ missing \cap Required # {})
    BY <1>9, <2>1, NeedsFacts, MemoryFacts DEF GetInterfaceInfo
  <2>. QED  BY <1>9, <2>2 DEF GetInterfaceInfo
<1>10. CASE Push
  BY <1>10 DEF Push
<1>11. CASE DumpWithoutMgmt
  BY <1>11 DEF DumpWithoutMgmt
<1>12. CASE Exit
  BY <1>12 DEF Exit
<1>13. CASE LeaveLoop
  BY <1>13 DEF LeaveLoop
<1>14. CASE Crash
  BY <1>14, BootAssumption DEF Crash, Down
<1>15. CASE Update
  BY <1>15 DEF Update, Down
<1>16. CASE UNCHANGED vars
  BY <1>16 DEF vars
<1>. QED
  BY <1>1, <1>2, <1>3, <1>4, <1>5, <1>6, <1>7, <1>8, <1>9, <1>10, <1>11, <1>12, <1>13,
     <1>14, <1>15, <1>16 DEF Next

LEMMA InvHolds == Spec => []Inv
  BY InitInv, InvStep, PTL DEF Spec

-----------------------------------------------------------------------------
\* The state of the boot, on disk and in memory, is well-typed.
THEOREM BootTypes == Spec => []TypeOK
<1>1. Inv => TypeOK
  BY DEF Inv, TypeInv, TypeOK, PCs, MemoryInv, Stages, AfterSubsystem, Down, FruSource
<1>. QED  BY <1>1, InvHolds, PTL

\* When main() reaches its loop, link, parsed files, FRU data and LED are those of this
\* boot, however many boots have ended before it at whatever step.
THEOREM LoopIsReady == Spec => []ReadyInLoop
<1>1. Inv => ReadyInLoop
  BY DEF Inv, LinkInv, MemoryInv, LedInv, ReadyInLoop, AfterLink, AfterYaml, AfterSubsystem
<1>. QED  BY <1>1, InvHolds, PTL

\* exit(-1) has its cause in an input that the boot needs, and a crash of the daemon's own
\* in the manifest or in the memory to read it.
THEOREM FailuresHaveCauses == Spec => []FailsForCause
<1>1. Inv => FailsForCause
  BY DEF Inv
<1>. QED  BY <1>1, InvHolds, PTL
=============================================================================
