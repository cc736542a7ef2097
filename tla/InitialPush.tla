---------------------------- MODULE InitialPush -----------------------------
(***************************************************************************)
(* sysd_initial_configure() in src/sysd_ovsdb_if.c, from the description   *)
(* read at boot to the rows of the one transaction its caller commits.     *)
(* Composes Subsystem, SplitPorts, OsRelease and QosInit.  SysdRun takes   *)
(* the whole push as one step, with its failing calloc() as                *)
(* ConfigurePartly.                                                        *)
(***************************************************************************)
EXTENDS HwDesc, FiniteSets

VARIABLES
    desc,
    fru, tlv, num_free_macs, nxt_mac_addr, mgmt_mac_addr, system_mac_addr, fruPc,
    interfaces, shash, port, splitPc,
    line, osNames, version_id, build_id, swInfo, relPc,
    sysQos, qProfiles, schedules, entry, qosPc,
    sys,            \* the System row's other columns; NULL before it is inserted
    subsys,         \* the Subsystem row
    intfMac,        \* hw_intf_info:mac_addr of the Interface rows; all have the same
    phase

fruVars   == <<fru, tlv, num_free_macs, nxt_mac_addr, mgmt_mac_addr, system_mac_addr, fruPc>>
splitVars == <<interfaces, shash, port, splitPc>>
relVars   == <<line, osNames, version_id, build_id, swInfo, relPc>>
qosVars   == <<sysQos, qProfiles, schedules, entry, qosPc>>
rowVars   == <<sys, subsys, intfMac>>
vars      == <<desc, fruVars, splitVars, relVars, qosVars, rowVars, phase>>

Fru   == INSTANCE Subsystem
Split == INSTANCE SplitPorts
Rel   == INSTANCE OsRelease
Qos   == INSTANCE QosInit

Macs == 0..MacSpace - 1

SystemRow == [bridge : {"bridge_normal"}, vrf : {"vrf_default"},
              management_mac : Macs, system_mac : Macs,
              subsystems : BOOLEAN, daemons : BOOLEAN,
              timezone : {"UTC", NULL}, acl_limits : BOOLEAN]

SubsystemRow == [fru : Fru!FruRow, interfaces : SUBSET PortNames,
                 next_mac_address : Macs \cup {NULL}, macs_remaining : 0..Uint16 - 1 \cup {NULL}]

\* A row that is there is not NULL.
ASSUME RowsAssumption ==
    /\ NULL \notin SystemRow \cup SubsystemRow \cup (Texts \X Texts) \cup {"UTC"}
    /\ Qos!NullIsNoRow

TypeOK ==
    /\ Fru!TypeOK /\ Split!TypeOK /\ Rel!TypeOK /\ Qos!TypeOK
    /\ sys \in SystemRow \cup {NULL}
    /\ subsys \in SubsystemRow \cup {NULL}
    /\ subsys # NULL => subsys.fru = fru /\ subsys.interfaces \in {Split!Names, {}}
    /\ intfMac \in Macs \cup {NULL}
    /\ phase \in {"fru", "ports", "system", "subsystem", "split", "daemons", "release",
                  "qos", "commit", "exit"}

Init ==
    /\ desc \in Descriptions
    /\ Fru!Start /\ Split!Start /\ Rel!Start /\ Qos!Start
    /\ sys = NULL /\ subsys = NULL /\ intfMac = NULL
    /\ phase = "fru"

-----------------------------------------------------------------------------
(***************************************************************************)
(* Before the loop: what main() reads.                                     *)
(***************************************************************************)
ReadFru ==
    /\ phase = "fru" /\ Fru!Next
    /\ UNCHANGED <<splitVars, relVars, qosVars, rowVars, phase>>

EndFru ==
    /\ phase = "fru" /\ fruPc \in {"ready", "exit"}
    /\ phase' = IF fruPc = "ready" THEN "ports" ELSE "exit"
    /\ UNCHANGED <<desc, fruVars, splitVars, relVars, qosVars, rowVars>>

\* sysd_get_interface_info(): no ports, a port without data or no memory end the boot.
GetInterfaceInfo ==
    /\ phase = "ports"
    /\ phase' \in IF desc.ports = <<>> THEN {"exit"} ELSE {"system", "exit"}
    /\ UNCHANGED <<desc, fruVars, splitVars, relVars, qosVars, rowVars>>

-----------------------------------------------------------------------------
(***************************************************************************)
(* sysd_initial_configure()                                                *)
(***************************************************************************)

\* ops_ether_ulong_long_to_string(): the six low bytes.
MacString(addr) == addr % MacSpace

\* The System row with bridge, VRF and the two addresses, then the list of subsystems,
\* for which there may be no memory.
InsertSystem ==
    /\ phase = "system"
    /\ sys' = [bridge |-> "bridge_normal", vrf |-> "vrf_default",
               management_mac |-> MacString(mgmt_mac_addr),
               system_mac     |-> MacString(system_mac_addr),
               subsystems |-> FALSE, daemons |-> FALSE, timezone |-> NULL, acl_limits |-> FALSE]
    /\ phase' \in {"subsystem", "commit"}
    /\ UNCHANGED <<desc, fruVars, splitVars, relVars, qosVars, subsys, intfMac>>

\* The rows of the interfaces, with the system address unless there is none.
AddInterfaces ==
    /\ Split!AddInterfaces
    /\ intfMac' = IF system_mac_addr = 0 THEN NULL ELSE MacString(system_mac_addr)

\* Faulty variant: the pool's columns are set before the memory for interfaces is had.
InsertSubsystemPoolFirst ==
    /\ phase = "subsystem"
    /\ subsys' = [fru |-> fru, interfaces |-> {},
                  next_mac_address |-> MacString(nxt_mac_addr), macs_remaining |-> num_free_macs]
    /\ \/ AddInterfaces /\ phase' = "split" /\ UNCHANGED sys
       \/ /\ phase' = "daemons" /\ sys' = [sys EXCEPT !.subsystems = TRUE]
          /\ UNCHANGED <<splitVars, intfMac>>
    /\ UNCHANGED <<desc, fruVars, relVars, qosVars>>

\* sysd_initial_subsystem_add(): without memory for the interfaces the row is
\* returned as it is.
InsertSubsystem ==
    /\ phase = "subsystem"
    /\ subsys' = [fru |-> fru, interfaces |-> {}, next_mac_address |-> NULL, macs_remaining |-> NULL]
    /\ \/ AddInterfaces /\ phase' = "split" /\ UNCHANGED sys
       \/ /\ phase' = "daemons" /\ sys' = [sys EXCEPT !.subsystems = TRUE]
          /\ UNCHANGED <<splitVars, intfMac>>
    /\ UNCHANGED <<desc, fruVars, relVars, qosVars>>

SetSplittablePortInfo ==
    /\ phase = "split" /\ (Split!Collect \/ Split!ReferPort \/ Split!EndRefer)
    /\ UNCHANGED <<fruVars, relVars, qosVars, rowVars, phase>>

\* The pool's columns and the list of interfaces.
EndSubsystem ==
    /\ phase = "split" /\ splitPc = "done"
    /\ subsys' = [subsys EXCEPT !.interfaces = DOMAIN interfaces,
                                !.next_mac_address = MacString(nxt_mac_addr),
                                !.macs_remaining = num_free_macs]
    /\ sys' = [sys EXCEPT !.subsystems = TRUE]
    /\ phase' = "daemons"
    /\ UNCHANGED <<desc, fruVars, splitVars, relVars, qosVars, intfMac>>

\* Daemon rows; without memory for the list the push ends here.
InsertDaemons ==
    /\ phase = "daemons"
    /\ \/ /\ sys' = [sys EXCEPT !.daemons = TRUE]
          /\ phase' = "release"
       \/ phase' = "commit" /\ UNCHANGED sys
    /\ UNCHANGED <<desc, fruVars, splitVars, relVars, qosVars, subsys, intfMac>>

UpdateSwInfo ==
    /\ phase = "release" /\ Rel!Next
    /\ UNCHANGED <<fruVars, splitVars, qosVars, rowVars, phase>>

SetTimezone ==
    /\ phase = "release" /\ relPc = "done"
    /\ sys' = [sys EXCEPT !.timezone = "UTC"]
    /\ phase' = "qos"
    /\ UNCHANGED <<desc, fruVars, splitVars, relVars, qosVars, subsys, intfMac>>

InitQos ==
    /\ phase = "qos" /\ Qos!Next
    /\ UNCHANGED <<fruVars, splitVars, relVars, rowVars, phase>>

\* acl_init_limits(), the last step.
InitAclLimits ==
    /\ phase = "qos" /\ qosPc = "done"
    /\ sys' = [sys EXCEPT !.acl_limits = TRUE]
    /\ phase' = "commit"
    /\ UNCHANGED <<desc, fruVars, splitVars, relVars, qosVars, subsys, intfMac>>

\* The caller commits, or the process has ended; nothing else is an end.
Ended == phase \in {"commit", "exit"} /\ UNCHANGED vars

Next ==
    \/ ReadFru \/ EndFru \/ GetInterfaceInfo
    \/ InsertSystem \/ InsertSubsystem \/ SetSplittablePortInfo \/ EndSubsystem
    \/ InsertDaemons \/ UpdateSwInfo \/ SetTimezone \/ InitQos \/ InitAclLimits
    \/ Ended

Spec == Init /\ [][Next]_vars

-----------------------------------------------------------------------------
(***************************************************************************)
(* Properties.                                                             *)
(***************************************************************************)
AcceptedMeansIntact  == Fru!AcceptedMeansIntact
ReferencesExist      == Split!ReferencesExist
SplitMutual          == Split!SplitMutual
VersionAsReleased    == Rel!VersionAsReleased
QueuesAsDescribed    == Qos!QueuesAsDescribed
SchedulesAsDescribed == Qos!SchedulesAsDescribed
FactoryDefaultIsCopy == Qos!FactoryDefaultIsCopy

\* No address is given out twice and none is lost: what the committed columns say of the
\* management address, the system address and the rest of the pool is the pool the FRU
\* describes, also when that is empty or has a single address, or ends at the last of
\* all addresses; and interfaces carry the system address exactly if there is one.
PoolAccounted ==
    phase = "commit" /\ subsys # NULL /\ subsys.macs_remaining # NULL =>
        LET pool  == {MacString(fru.base + n) : n \in 0..fru.num_macs - 1}
            given == (IF fru.num_macs > 0 THEN {sys.management_mac} ELSE {})
                       \cup (IF fru.num_macs > 1 THEN {sys.system_mac} ELSE {})
            left  == {MacString(subsys.next_mac_address + n) : n \in 0..subsys.macs_remaining - 1}
        IN  /\ Cardinality(given) + subsys.macs_remaining = fru.num_macs
            /\ given \cap left = {}
            /\ given \cup left = pool
            /\ intfMac = IF fru.num_macs > 1 THEN sys.system_mac ELSE NULL

\* When memory fails, the caller commits what stands: each part is whole or absent, and
\* no part is there without those before it.
PartsWhole ==
    phase = "commit" =>
        /\ sys # NULL
        /\ sys.subsystems <=> subsys # NULL
        /\ subsys # NULL =>
              (subsys.interfaces = {} <=> subsys.macs_remaining = NULL)
        /\ sys.daemons => sys.subsystems
        /\ sys.daemons <=> sys.timezone # NULL
        /\ sys.acl_limits <=> sys.daemons
        /\ sys.acl_limits <=> qosPc = "done"
        /\ subsys # NULL /\ subsys.interfaces # {} => splitPc = "done"
=============================================================================
