----------------------------- MODULE SplitPorts -----------------------------
(***************************************************************************)
(* The references between split ports: sysd_set_splittable_port_info() in  *)
(* src/sysd_ovsdb_if.c, over the Interface rows that the loop of           *)
(* sysd_initial_subsystem_add() inserts for the described ports.           *)
(***************************************************************************)
EXTENDS HwDesc

VARIABLES
    desc,           \* the description read; constant
    interfaces,     \* [name -> row] of the rows inserted
    shash,          \* names in ovs_intf_shash
    port,           \* number of the port at hand
    splitPc

vars == <<desc, interfaces, shash, port, splitPc>>

NPorts == Len(desc.ports)
Names  == {desc.ports[n].name : n \in 1..NPorts}
Row    == [split_parent : PortNames \cup {NULL}, split_children : SUBSET PortNames]

TypeOK ==
    /\ desc \in Description
    /\ interfaces \in [{}  -> Row] \cup [Names -> Row]
    /\ shash \subseteq Names
    /\ port \in 1..NPorts + 1
    /\ splitPc \in {"add", "collect", "refer", "done"}

Start ==
    /\ interfaces = [n \in {} |-> NULL]
    /\ shash = {}
    /\ port = 1
    /\ splitPc = "add"

Init == desc \in Descriptions /\ Start

\* sysd_initial_interface_add() for every port of the description.
AddInterfaces ==
    /\ splitPc = "add"
    /\ interfaces' = [n \in Names |-> [split_parent |-> NULL, split_children |-> {}]]
    /\ splitPc' = "collect"
    /\ UNCHANGED <<desc, shash, port>>

\* Faulty variant: only ports that can be split are collected.
CollectParents ==
    /\ splitPc = "collect"
    /\ shash' = {desc.ports[n].name : n \in {m \in 1..NPorts : desc.ports[m].subports # <<>>}}
    /\ splitPc' = "refer"
    /\ UNCHANGED <<desc, interfaces, port>>

\* The first pass: the ports that take part in a split.
Collect ==
    /\ splitPc = "collect"
    /\ shash' = {desc.ports[n].name : n \in {m \in 1..NPorts :
                    desc.ports[m].subports # <<>> \/ desc.ports[m].parent_port # NULL}}
    /\ splitPc' = "refer"
    /\ UNCHANGED <<desc, interfaces, port>>

Subports(p) == {p.subports[k] : k \in 1..Len(p.subports)}

\* Faulty variant: the children are taken as they are named.
ReferUnchecked(row, p) ==
    [split_parent   |-> IF p.parent_port \in shash THEN p.parent_port ELSE row.split_parent,
     split_children |-> Subports(p)]

\* The row of p: names that are not in the hash are warned of and left out.
Refer(row, p) ==
    [split_parent   |-> IF p.parent_port \in shash THEN p.parent_port ELSE row.split_parent,
     split_children |-> IF p.subports # <<>> THEN Subports(p) \cap shash ELSE row.split_children]

\* The second pass, port by port.
ReferPort ==
    /\ splitPc = "refer" /\ port <= NPorts
    /\ interfaces' = [interfaces EXCEPT ![desc.ports[port].name] = Refer(@, desc.ports[port])]
    /\ port' = port + 1
    /\ UNCHANGED <<desc, shash, splitPc>>

EndRefer ==
    /\ splitPc = "refer" /\ port > NPorts
    /\ splitPc' = "done"
    /\ UNCHANGED <<desc, interfaces, shash, port>>

Next == AddInterfaces \/ Collect \/ ReferPort \/ EndRefer

Spec == Init /\ [][Next]_vars

-----------------------------------------------------------------------------
(***************************************************************************)
(* Properties.                                                             *)
(***************************************************************************)

Parent(m, n) == desc.ports[m].parent_port = desc.ports[n].name
Child(m, n)  == desc.ports[m].name \in Subports(desc.ports[n])

\* No reference to a row that does not exist, wherever the push stands: an OVSDB
\* transaction with one is refused.
ReferencesExist ==
    \A n \in DOMAIN interfaces :
        /\ interfaces[n].split_parent \in DOMAIN interfaces \cup {NULL}
        /\ interfaces[n].split_children \subseteq DOMAIN interfaces

\* Where the description says the same of parent and child, so do their rows, with no
\* described pair left out and whatever the order of the ports.
SplitMutual ==
    splitPc = "done" =>
        \A m, n \in 1..NPorts :
            (Parent(m, n) <=> Child(m, n)) =>
                LET child == desc.ports[m].name   parent == desc.ports[n].name IN
                /\ Parent(m, n) <=> interfaces[child].split_parent = parent
                /\ Child(m, n) <=> child \in interfaces[parent].split_children
=============================================================================
