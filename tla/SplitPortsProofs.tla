-------------------------- MODULE SplitPortsProofs ---------------------------
(***************************************************************************)
(* The references between split ports, for any number of ports in any      *)
(* order and whatever they say of each other.                              *)
(***************************************************************************)
EXTENDS SplitPorts, TLAPS

BlankRow  == [split_parent |-> NULL, split_children |-> {}]
Collected == {desc.ports[n].name : n \in {m \in 1..NPorts :
                  desc.ports[m].subports # <<>> \/ desc.ports[m].parent_port # NULL}}

\* The row of port n: as inserted before the second pass comes to it, then as Refer says.
RowOf(n) == IF n < port THEN Refer(BlankRow, desc.ports[n]) ELSE BlankRow

Inv ==
    /\ desc \in Descriptions
    /\ port \in 1..NPorts + 1
    /\ splitPc \in {"add", "collect", "refer", "done"}
    /\ splitPc \in {"add", "collect"} => port = 1 /\ shash = {}
    /\ splitPc \in {"refer", "done"} => shash = Collected
    /\ splitPc = "add" => interfaces = [n \in {} |-> NULL]
    /\ splitPc # "add" =>
          /\ interfaces \in [Names -> Row]
          /\ \A n \in 1..NPorts : interfaces[desc.ports[n].name] = RowOf(n)
    /\ splitPc = "done" => port > NPorts

-----------------------------------------------------------------------------
\* What the description guarantees of a port.
LEMMA PortsOf ==
    ASSUME desc \in Descriptions
    PROVE  /\ NPorts \in Nat
           /\ \A n \in 1..NPorts :
                 /\ desc.ports[n].name \in PortNames
                 /\ desc.ports[n].parent_port \in PortNames \cup {NULL}
                 /\ desc.ports[n].subports \in Seq(PortNames)
           /\ \A m, n \in 1..NPorts : desc.ports[m].name = desc.ports[n].name => m = n
           /\ Names \subseteq PortNames /\ NULL \notin PortNames
<1>1. desc.ports \in Seq(Port)
  BY DescriptionsAssumption DEF Description
<1>2. \A n \in 1..NPorts : desc.ports[n] \in Port
  BY <1>1 DEF NPorts
<1>3. NULL \notin PortNames
  BY DescriptionsAssumption
<1>4. \A m, n \in 1..NPorts : desc.ports[m].name = desc.ports[n].name => m = n
  BY DescriptionsAssumption DEF NPorts
<1>. QED  BY <1>1, <1>2, <1>3, <1>4 DEF Port, Names, NPorts

LEMMA ReferRow ==
    ASSUME desc \in Descriptions, shash \subseteq PortNames, NEW n \in 1..NPorts
    PROVE  /\ BlankRow \in Row
           /\ Refer(BlankRow, desc.ports[n]) \in Row
<1>1. BlankRow \in Row
  BY DEF BlankRow, Row
<1>2. Refer(BlankRow, desc.ports[n]).split_children \subseteq PortNames
  BY DEF Refer, BlankRow
<1>. QED  BY <1>1, <1>2, PortsOf DEF Refer, BlankRow, Row

LEMMA CollectedNames ==
    ASSUME desc \in Descriptions PROVE Collected \subseteq Names /\ Collected \subseteq PortNames
  BY PortsOf DEF Collected, Names

-----------------------------------------------------------------------------
LEMMA InitInv == Init => Inv
  BY PortsOf DEF Init, Start, Inv

LEMMA AddInterfacesKeeps == Inv /\ AddInterfaces => Inv'
<1> SUFFICES ASSUME Inv, AddInterfaces PROVE Inv'
  OBVIOUS
<1>1. UNCHANGED <<desc, shash, port>> /\ splitPc' = "collect" /\ port = 1 /\ shash = {}
  BY DEF AddInterfaces, Inv
<1>2. Names' = Names /\ NPorts' = NPorts
  BY <1>1 DEF Names, NPorts
<1>3. interfaces' = [n \in Names |-> BlankRow]
  BY DEF AddInterfaces, BlankRow
<1>4. interfaces' \in [Names -> Row]
  BY <1>3 DEF BlankRow, Row
<1>5. \A n \in 1..NPorts : interfaces'[desc.ports[n].name] = BlankRow
  BY <1>3 DEF Names
<1>6. \A n \in 1..NPorts : RowOf(n)' = BlankRow
  BY <1>1 DEF RowOf, BlankRow
<1>. QED  BY <1>1, <1>2, <1>4, <1>5, <1>6 DEF Inv

LEMMA CollectKeeps == Inv /\ Collect => Inv'
<1> SUFFICES ASSUME Inv, Collect PROVE Inv'
  OBVIOUS
<1>1. UNCHANGED <<desc, interfaces, port>> /\ splitPc' = "refer" /\ port = 1
  BY DEF Collect, Inv
<1>2. Names' = Names /\ NPorts' = NPorts /\ Collected' = Collected
  BY <1>1 DEF Names, NPorts, Collected
<1>3. shash' = Collected'
  BY <1>2 DEF Collect, Collected
<1>4. \A n \in 1..NPorts : RowOf(n)' = RowOf(n)
  BY <1>1 DEF RowOf, BlankRow
<1>5. splitPc = "collect"
  BY DEF Collect
<1>. QED  BY <1>1, <1>2, <1>3, <1>4, <1>5 DEF Inv

LEMMA ReferPortKeeps == Inv /\ ReferPort => Inv'
<1> SUFFICES ASSUME Inv, ReferPort PROVE Inv'
  OBVIOUS
<1>1. UNCHANGED <<desc, shash, splitPc>> /\ port' = port + 1 /\ splitPc = "refer"
  BY DEF ReferPort
<1>2. Names' = Names /\ NPorts' = NPorts /\ Collected' = Collected
  BY <1>1 DEF Names, NPorts, Collected
<1>3. port \in 1..NPorts
  BY PortsOf DEF ReferPort, Inv
<1> DEFINE name == desc.ports[port].name
<1>4. /\ interfaces \in [Names -> Row] /\ name \in Names
      /\ interfaces[name] = BlankRow
  BY <1>1, <1>3 DEF Inv, Names, RowOf
<1>5. interfaces' = [interfaces EXCEPT ![name] = Refer(BlankRow, desc.ports[port])]
  BY <1>4 DEF ReferPort
<1>6. interfaces' \in [Names -> Row]
  <2>1. shash \subseteq PortNames
    BY <1>1, CollectedNames DEF Inv
  <2>. QED  BY <1>3, <1>4, <1>5, <2>1, ReferRow DEF Inv
<1>7. ASSUME NEW n \in 1..NPorts PROVE interfaces'[desc.ports[n].name] = RowOf(n)'
  <2>1. Refer(BlankRow, desc.ports[n])' = Refer(BlankRow, desc.ports[n]) /\ BlankRow' = BlankRow
    BY <1>1 DEF Refer, BlankRow, Subports
  <2>2. RowOf(n)' = IF n <= port THEN Refer(BlankRow, desc.ports[n]) ELSE BlankRow
    BY <1>1, <1>3, <2>1 DEF RowOf
  <2>3. CASE n = port
    BY <1>4, <1>5, <2>2, <2>3, <1>3
  <2>4. CASE n # port
    <3>1. desc.ports[n].name # name /\ desc.ports[n].name \in Names
      BY <1>3, <2>4, PortsOf DEF Inv, Names
    <3>2. interfaces'[desc.ports[n].name] = RowOf(n)
      BY <1>1, <1>4, <1>5, <3>1 DEF Inv
    <3>. QED  BY <1>3, <2>2, <2>4, <3>2 DEF RowOf
  <2>. QED  BY <2>3, <2>4
<1>8. port' \in 1..NPorts' + 1
  <2>1. NPorts \in Nat
    BY PortsOf DEF Inv
  <2>. QED  BY <1>1, <1>2, <1>3, <2>1
<1>. QED  BY <1>1, <1>2, <1>6, <1>7, <1>8 DEF Inv

LEMMA EndReferKeeps == Inv /\ (EndRefer \/ UNCHANGED vars) => Inv'
<1> SUFFICES ASSUME Inv, EndRefer \/ UNCHANGED vars PROVE Inv'
  OBVIOUS
<1>1. UNCHANGED <<desc, interfaces, shash, port>>
  BY DEF EndRefer, vars
<1>2. Names' = Names /\ NPorts' = NPorts /\ Collected' = Collected
  BY <1>1 DEF Names, NPorts, Collected
<1>3. \A n \in 1..NPorts : RowOf(n)' = RowOf(n)
  BY <1>1 DEF RowOf, BlankRow, Refer, Subports
<1>4. splitPc' = splitPc \/ (splitPc = "refer" /\ splitPc' = "done" /\ port > NPorts)
  BY DEF EndRefer, vars
<1>. QED  BY <1>1, <1>2, <1>3, <1>4 DEF Inv

LEMMA InvHolds == Spec => []Inv
<1>1. Inv /\ [Next]_vars => Inv'
  BY AddInterfacesKeeps, CollectKeeps, ReferPortKeeps, EndReferKeeps DEF Next
<1>. QED  BY <1>1, InitInv, PTL DEF Spec

-----------------------------------------------------------------------------
\* No row of the transaction refers to an Interface row that was not inserted, at any
\* point of sysd_set_splittable_port_info() and for any description.
THEOREM ReferencesAreRows == Spec => []ReferencesExist
<1>1. Inv => ReferencesExist
  <2> SUFFICES ASSUME Inv, NEW m \in DOMAIN interfaces
               PROVE  /\ interfaces[m].split_parent \in DOMAIN interfaces \cup {NULL}
                      /\ interfaces[m].split_children \subseteq DOMAIN interfaces
    BY DEF ReferencesExist
  <2>1. splitPc # "add" /\ DOMAIN interfaces = Names
    BY DEF Inv
  <2>2. PICK n \in 1..NPorts : desc.ports[n].name = m
    BY <2>1 DEF Names
  <2>3. interfaces[m] = RowOf(n)
    BY <2>1, <2>2 DEF Inv
  <2>4. shash \subseteq Names
    BY CollectedNames DEF Inv
  <2>. QED  BY <2>1, <2>3, <2>4 DEF RowOf, BlankRow, Refer
<1>. QED  BY <1>1, InvHolds, PTL

\* Parent and child refer to each other in the rows wherever they do in the description,
\* for any number of ports in any order.
THEOREM SplitsAreMutual == Spec => []SplitMutual
<1>1. Inv => SplitMutual
  <2> SUFFICES ASSUME Inv, splitPc = "done", NEW m \in 1..NPorts, NEW n \in 1..NPorts,
                      Parent(m, n) <=> Child(m, n)
               PROVE  LET child == desc.ports[m].name   parent == desc.ports[n].name IN
                      /\ Parent(m, n) <=> interfaces[child].split_parent = parent
                      /\ Child(m, n) <=> child \in interfaces[parent].split_children
    BY DEF SplitMutual
  <2> DEFINE child == desc.ports[m].name
             parent == desc.ports[n].name
  <2>1. interfaces[child] = Refer(BlankRow, desc.ports[m]) /\ interfaces[parent] = Refer(BlankRow, desc.ports[n])
    BY PortsOf DEF Inv, RowOf
  <2>2. shash = Collected
    BY DEF Inv
  <2>3. parent # NULL
    BY PortsOf DEF Inv
  <2>4. Child(m, n) => desc.ports[n].subports # <<>>
    BY DEF Child, Subports
  <2>5. Child(m, n) => parent \in shash
    BY <2>2, <2>4 DEF Collected
  <2>6. Parent(m, n) => child \in shash
    BY <2>2, <2>3 DEF Collected, Parent
  <2>7. Parent(m, n) <=> interfaces[child].split_parent = parent
    BY <2>1, <2>3, <2>5 DEF Parent, Refer, BlankRow
  <2>8. Child(m, n) <=> child \in interfaces[parent].split_children
    BY <2>1, <2>4, <2>6 DEF Child, Refer, BlankRow
  <2>. QED  BY <2>7, <2>8
<1>. QED  BY <1>1, InvHolds, PTL
=============================================================================
