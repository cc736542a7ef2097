-------------------------------- MODULE Boot --------------------------------
(***************************************************************************)
(* The way of ops-sysd to its main loop: main() in src/sysd.c with         *)
(* sysd_read_manifest_file() and sysd_create_link_to_hwdesc_files() in     *)
(* src/sysd_util.c, sysd_cfg_yaml_init() in src/sysd_cfg_yaml.c and        *)
(* sysd_read_fru_eeprom() in src/sysd_fru.c; and the way out.              *)
(*                                                                         *)
(* One instance, started again and again, which may crash between any two  *)
(* steps.  While it is down an image update may change the inputs and the  *)
(* directory of this platform's descriptor files.  SysdRun says what the   *)
(* loop does; here it is the first push, the dump command and exit.        *)
(***************************************************************************)
EXTENDS Naturals, FiniteSets

CONSTANTS
    Dirs,           \* directories of hardware description files
    NoDir,          \* no link; no platform determined
    Inputs,         \* the inputs that may be missing or wrong, see Required
    MaxFaults,      \* how many of them may be missing or wrong at a time
    MaxCrashes      \* how often a crash may strike

\* Inputs whose absence ends the boot, in the order they are needed.
\* ("memory" missing: it is short, and an allocation may fail.)
Required == {"appctl", "memory", "manifest", "platform", "descriptors", "writable", "devices",
             "ports", "fru_yaml", "fru_device", "fru_data", "port_info"}

\* Inputs whose absence is only logged, or not noticed at all.
Tolerated == {"mgmt_intf", "qos", "acl"}

ASSUME BootAssumption ==
    /\ IsFiniteSet(Dirs)
    /\ NoDir \notin Dirs
    /\ Inputs \subseteq Required \cup Tolerated
    /\ MaxFaults \in Nat /\ MaxCrashes \in Nat

VARIABLES
    pc,             \* where main() is
    missing,        \* the inputs that are missing or wrong
    dir,            \* the directory of this platform's descriptor files
    link,           \* where /etc/openswitch/hwdesc leads
    linkPath,       \* /etc/openswitch exists: HWDESC_FILE_LINK_PATH
    parsed,         \* the directory the YAML files in memory come from
    mgmt_intf,      \* mgmt_intf # NULL
    fru,            \* the FRU data in memory come from "yaml" or "eeprom"
    fruYaml,        \* there is a fru.yaml; constant while the daemon is up
    led,            \* the status LED
    pushed,         \* the database has a System row
    crashes         \* crashes so far

Faults == {faults \in SUBSET Inputs : Cardinality(faults) <= MaxFaults}

files   == <<missing, dir, fruYaml>>
memory  == <<parsed, mgmt_intf, fru>>
vars    == <<pc, files, link, linkPath, memory, led, pushed, crashes>>

Stages == {"manifest", "platform", "unlink", "mkdir", "symlink", "yaml", "subsystem",
           "interfaces"}

Down == pc \in {"off", "failed", "died"}

TypeOK ==
    /\ pc \in {"off", "failed", "died", "loop", "exiting"} \cup Stages
    /\ missing \in Faults
    /\ dir \in Dirs
    /\ link \in Dirs \cup {NoDir}
    /\ linkPath \in BOOLEAN
    /\ parsed \in Dirs \cup {NoDir}
    /\ mgmt_intf \in BOOLEAN
    /\ fru \in {"none", "yaml", "eeprom"}
    /\ fruYaml \in BOOLEAN
    /\ led \in {"off", "good", "flashing"}
    /\ pushed \in BOOLEAN
    /\ crashes \in 0..MaxCrashes
    \* FRU data are taken from fru.yaml only where there is one.
    /\ ~Down /\ fru = "yaml" => fruYaml

Init ==
    /\ pc = "off"
    /\ missing \in Faults
    /\ dir \in Dirs
    /\ link = NoDir
    /\ linkPath \in BOOLEAN
    /\ parsed = NoDir
    /\ mgmt_intf = FALSE
    /\ fru = "none"
    /\ fruYaml \in BOOLEAN
    /\ led = "off"
    /\ pushed = FALSE
    /\ crashes = 0

Goto(l) == pc' = l

\* The boot needs these inputs at this stage: it goes on, or exit(-1).
Needs(inputs, next) ==
    IF inputs \cap missing = {} THEN Goto(next) ELSE Goto("failed")

\* An allocation of this stage fails: exit(-1).
OutOfMemory == "memory" \in missing /\ Goto("failed")

-----------------------------------------------------------------------------
(***************************************************************************)
(* The stages of main().                                                   *)
(***************************************************************************)

\* A new process; the socket of ovs-appctl is created first.
Start ==
    /\ Down
    /\ Needs({"appctl"}, "manifest")
    /\ parsed' = NoDir
    /\ mgmt_intf' = FALSE
    /\ fru' = "none"
    /\ UNCHANGED <<files, link, linkPath, led, pushed, crashes>>

\* sysd_read_manifest_file(): a manifest with no "mgmt_intf" object is accepted, and
\* leaves mgmt_intf at NULL.  calloc() is tested; the realloc() before it is not, and
\* xcalloc() aborts.
ReadManifest ==
    /\ pc = "manifest"
    /\ \/ Needs({"manifest"}, "platform")
       \/ OutOfMemory
       \/ "memory" \in missing /\ Goto("died")
    /\ mgmt_intf' = (pc' = "platform" /\ "mgmt_intf" \notin missing)
    /\ UNCHANGED <<files, link, linkPath, parsed, fru, led, pushed, crashes>>

\* Manufacturer and product name lead to a directory; stat() finds it.
FindPlatform ==
    /\ pc = "platform"
    /\ Needs({"platform", "descriptors"}, "unlink")
    /\ UNCHANGED <<files, link, linkPath, memory, led, pushed, crashes>>

\* Faulty variant: a link that is there saves making one.
ReuseOldLink ==
    /\ pc = "unlink"
    /\ IF link = NoDir THEN Goto("mkdir") ELSE Goto("yaml")
    /\ UNCHANGED <<files, link, linkPath, memory, led, pushed, crashes>>

\* remove(HWDESC_FILE_LINK), whose failure goes unnoticed.
RemoveOldLink ==
    /\ pc = "unlink"
    /\ Goto("mkdir")
    /\ link' = IF "writable" \in missing THEN link ELSE NoDir
    /\ UNCHANGED <<files, linkPath, memory, led, pushed, crashes>>

\* mkdir(HWDESC_FILE_LINK_PATH): EEXIST is no error.
MakeLinkPath ==
    /\ pc = "mkdir"
    /\ IF linkPath \/ "writable" \notin missing
       THEN Goto("symlink") /\ linkPath' = TRUE
       ELSE Goto("failed") /\ UNCHANGED linkPath
    /\ UNCHANGED <<files, link, memory, led, pushed, crashes>>

\* symlink() to the directory; an existing link is an error.
MakeLink ==
    /\ pc = "symlink"
    /\ IF link = NoDir /\ "writable" \notin missing
       THEN Goto("yaml") /\ link' = dir
       ELSE Goto("failed") /\ UNCHANGED link
    /\ UNCHANGED <<files, linkPath, memory, led, pushed, crashes>>

\* Faulty variant: failures of the QoS and ACL descriptions end the boot.
InitYamlStrict ==
    /\ pc = "yaml"
    /\ Needs({"devices", "ports", "fru_device", "qos", "acl"}, "subsystem")
    /\ parsed' = dir
    /\ UNCHANGED <<files, link, linkPath, mgmt_intf, fru, led, pushed, crashes>>

\* sysd_cfg_yaml_init(): devices, ports and fru_eeprom are needed, fru.yaml must be
\* right if it is there; failures of the QoS and ACL descriptions are only logged.
InitYaml ==
    /\ pc = "yaml"
    /\ Needs({"devices", "ports", "fru_device"} \cup (IF fruYaml THEN {"fru_yaml"} ELSE {}),
             "subsystem")
    /\ parsed' = dir
    /\ UNCHANGED <<files, link, linkPath, mgmt_intf, fru, led, pushed, crashes>>

\* sysd_read_fru_eeprom(): fru.yaml, which the parser has read, else the EEPROM, whose
\* header, length, CRC and contents must be right.
FruSource == IF fruYaml THEN "yaml" ELSE "eeprom"
FruInputs == IF fruYaml THEN {} ELSE {"fru_data"}

\* Faulty variant: the flag fru_yaml, which is born true, is never cleared.
GetSubsystemInfoFromYaml ==
    /\ pc = "subsystem"
    /\ Goto("interfaces")
    /\ fru' = "yaml"
    /\ UNCHANGED <<files, link, linkPath, parsed, mgmt_intf, led, pushed, crashes>>

\* sysd_get_subsystem_info(): memory for the base subsystem and its FRU data.
GetSubsystemInfo ==
    /\ pc = "subsystem"
    /\ Needs(FruInputs, "interfaces") \/ OutOfMemory
    /\ fru' = IF pc' = "interfaces" THEN FruSource ELSE fru
    /\ UNCHANGED <<files, link, linkPath, parsed, mgmt_intf, led, pushed, crashes>>

\* sysd_get_interface_info(), then the LED is set to 'good'.
GetInterfaceInfo ==
    /\ pc = "interfaces"
    /\ Needs({"port_info"}, "loop") \/ OutOfMemory
    /\ led' = IF pc' = "loop" THEN "good" ELSE led
    /\ UNCHANGED <<files, link, linkPath, memory, pushed, crashes>>

-----------------------------------------------------------------------------
(***************************************************************************)
(* The loop.                                                               *)
(***************************************************************************)

\* sysd_initial_configure() of an empty database reads mgmt_intf->name first.
Push ==
    /\ pc = "loop"
    /\ ~pushed
    /\ IF mgmt_intf
       THEN pushed' = TRUE /\ UNCHANGED pc
       ELSE Goto("died") /\ UNCHANGED pushed
    /\ UNCHANGED <<files, link, linkPath, memory, led, crashes>>

\* ovs-appctl ops-sysd/dump reads it, too.
DumpWithoutMgmt ==
    /\ pc = "loop"
    /\ ~mgmt_intf
    /\ Goto("died")
    /\ UNCHANGED <<files, link, linkPath, memory, led, pushed, crashes>>

\* ovs-appctl exit: the LED flashes, and the loop ends at its next test.
Exit ==
    /\ pc = "loop"
    /\ Goto("exiting")
    /\ led' = "flashing"
    /\ UNCHANGED <<files, link, linkPath, memory, pushed, crashes>>

LeaveLoop ==
    /\ pc = "exiting"
    /\ Goto("off")
    /\ UNCHANGED <<files, link, linkPath, memory, led, pushed, crashes>>

Crash ==
    /\ ~Down
    /\ crashes < MaxCrashes
    /\ crashes' = crashes + 1
    /\ Goto("off")
    /\ UNCHANGED <<files, link, linkPath, memory, led, pushed>>

\* An image update while the daemon is down.
Update ==
    /\ Down
    /\ Goto("off")
    /\ missing' \in Faults
    /\ dir' \in Dirs
    /\ fruYaml' \in BOOLEAN
    /\ UNCHANGED <<link, linkPath, memory, led, pushed, crashes>>

Next ==
    \/ Start \/ ReadManifest \/ FindPlatform
    \/ RemoveOldLink \/ MakeLinkPath \/ MakeLink
    \/ InitYaml \/ GetSubsystemInfo \/ GetInterfaceInfo
    \/ Push \/ DumpWithoutMgmt \/ Exit \/ LeaveLoop
    \/ Crash \/ Update

Spec == Init /\ [][Next]_vars

-----------------------------------------------------------------------------
(***************************************************************************)
(* Properties.                                                             *)
(***************************************************************************)

\* In the loop the link the platform daemons follow leads to the directory sysd itself
\* has parsed, whatever earlier boots, crashes and image updates left behind; and the
\* FRU data, the ports and the LED are those of this boot.
ReadyInLoop ==
    pc = "loop" =>
        /\ link = dir /\ parsed = dir
        /\ fru = FruSource
        /\ led = "good"

\* A boot gives up only for an input it needs: never for what an earlier boot, ended
\* at any step, left on the disk, and never for the QoS or ACL descriptions.  Otherwise
\* only a manifest that names no management interface, or memory that runs out while the
\* manifest is read, ends the daemon.
FailsForCause ==
    /\ pc = "failed" => missing \cap Required # {}
    /\ pc = "died" => missing \cap {"mgmt_intf", "memory"} # {}
=============================================================================
