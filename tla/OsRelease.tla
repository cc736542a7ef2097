----------------------------- MODULE OsRelease ------------------------------
(***************************************************************************)
(* sysd_update_sw_info() in src/sysd_ovsdb_if.c: the columns software_info *)
(* and switch_version of the System row, read line by line from            *)
(* /etc/os-release.                                                        *)
(***************************************************************************)
EXTENDS HwDesc

VARIABLES
    desc,           \* the files read; constant
    line,           \* number of the next line
    osNames,        \* the values in the smap, all under the key os_name
    version_id, build_id,
    swInfo,         \* the two columns
    relPc

vars == <<desc, line, osNames, version_id, build_id, swInfo, relPc>>

NLines == Len(desc.os_release)
Values == Texts \cup {NULL}

TypeOK ==
    /\ desc \in Description
    /\ line \in Nat \ {0}
    /\ osNames \subseteq Texts
    /\ version_id \in Values /\ build_id \in Values
    /\ swInfo \in [os_name : Values, switch_version : (Texts \X Texts) \cup {NULL}]
    /\ relPc \in {"open", "read", "done"}

Start ==
    /\ line = 1
    /\ osNames = {}
    /\ version_id = NULL /\ build_id = NULL
    /\ swInfo = [os_name |-> NULL, switch_version |-> NULL]
    /\ relPc = "open"

Init == desc \in Descriptions /\ Start

\* Without the file the columns stay as they are.
OpenRelease ==
    /\ relPc = "open"
    /\ relPc' = IF desc.os_release = NULL THEN "done" ELSE "read"
    /\ UNCHANGED <<desc, line, osNames, version_id, build_id, swInfo>>

\* Faulty variant: an empty value is passed over, so that an earlier one stays.
ReadLineKeep ==
    /\ relPc = "read" /\ line <= NLines
    /\ LET l == desc.os_release[line] IN
       /\ osNames' = osNames \cup (IF l.name = "NAME" THEN {l.value} \ {NULL} ELSE {})
       /\ version_id' = IF l.name = "VERSION_ID" /\ l.value # NULL THEN l.value ELSE version_id
       /\ build_id' = IF l.name = "BUILD_ID" /\ l.value # NULL THEN l.value ELSE build_id
    /\ line' = line + 1
    /\ UNCHANGED <<desc, swInfo, relPc>>

\* One line: a name is added unless it is empty, a version or a build replaces the last.
ReadLine ==
    /\ relPc = "read" /\ line <= NLines
    /\ LET l == desc.os_release[line] IN
       /\ osNames' = osNames \cup (IF l.name = "NAME" THEN {l.value} \ {NULL} ELSE {})
       /\ version_id' = IF l.name = "VERSION_ID" THEN l.value ELSE version_id
       /\ build_id' = IF l.name = "BUILD_ID" THEN l.value ELSE build_id
    /\ line' = line + 1
    /\ UNCHANGED <<desc, swInfo, relPc>>

\* smap_add() allows a key twice; the column keeps one of the values.
SetSwInfo ==
    /\ relPc = "read" /\ line > NLines
    /\ \E n \in IF osNames = {} THEN {swInfo.os_name} ELSE osNames :
          swInfo' = [os_name |-> n,
                     switch_version |-> IF NULL \in {version_id, build_id} THEN swInfo.switch_version
                                        ELSE <<version_id, build_id>>]
    /\ relPc' = "done"
    /\ UNCHANGED <<desc, line, osNames, version_id, build_id>>

Next == OpenRelease \/ ReadLine \/ SetSwInfo

Spec == Init /\ [][Next]_vars

-----------------------------------------------------------------------------
(***************************************************************************)
(* Properties.                                                             *)
(***************************************************************************)

\* The values of the last line of that name: none when the file has no such line, or it
\* is empty.
LastValue(name) ==
    LET at == {n \in 1..NLines : desc.os_release[n].name = name} IN
    {desc.os_release[n].value : n \in {m \in at : \A k \in at : k <= m}} \ {NULL}

\* The version and the build are those with which the file ends, and stand in the column
\* together or not at all: no version beside the build of another release.
VersionAsReleased ==
    relPc = "done" /\ desc.os_release # NULL =>
        {swInfo.switch_version} \ {NULL} = LastValue("VERSION_ID") \X LastValue("BUILD_ID")
=============================================================================
