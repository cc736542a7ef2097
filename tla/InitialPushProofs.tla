------------------------- MODULE InitialPushProofs --------------------------
(***************************************************************************)
(* The push as a composition: each of its parts runs as its own module     *)
(* says, and what is proved of a part alone holds of the push.             *)
(***************************************************************************)
EXTENDS InitialPush, FiniteSetTheorems, TLAPS

SplitPush == INSTANCE SplitPortsProofs

-----------------------------------------------------------------------------
\* No part changes the description that all of them read.
LEMMA FruKeepsDesc == Fru!Next => UNCHANGED desc
  BY DEF Fru!Next, Fru!ReadFruYaml, Fru!ReadHeader, Fru!ReadRest, Fru!ProcessTlv,
         Fru!RejectTlv, Fru!EndTlvs, Fru!BeginMacs, Fru!SaveMgmtMac, Fru!SaveSystemMac

LEMMA RelKeepsDesc == Rel!Next => UNCHANGED desc
  BY DEF Rel!Next, Rel!OpenRelease, Rel!ReadLine, Rel!SetSwInfo

LEMMA QosKeepsDesc == Qos!Next => UNCHANGED desc
  BY DEF Qos!Next, Qos!InitTrust, Qos!InitDscpMap, Qos!InitCosMap,
         Qos!BeginQueueProfile, Qos!AddQueueEntry, Qos!UseQueueProfile, Qos!MarkQueueProfile,
         Qos!BeginSchedule, Qos!AddScheduleEntry, Qos!UseSchedule, Qos!MarkSchedule

LEMMA SplitKeepsDesc == Split!Next => UNCHANGED desc
  BY DEF Split!Next, Split!AddInterfaces, Split!Collect, Split!ReferPort, Split!EndRefer

\* What a step of the push does to each part: a step of its own, or nothing.
LEMMA PartsStep ==
    ASSUME [Next]_vars
    PROVE  /\ [Fru!Next]_(Fru!vars)
           /\ [Split!Next]_(Split!vars)
           /\ [Rel!Next]_(Rel!vars)
           /\ [Qos!Next]_(Qos!vars)
<1> USE DEF fruVars, splitVars, relVars, qosVars, rowVars,
            Fru!vars, Fru!macVars, Split!vars, Rel!vars, Qos!vars
<1>1. CASE ReadFru
  BY <1>1, FruKeepsDesc DEF ReadFru
<1>2. CASE EndFru
  BY <1>2 DEF EndFru
<1>3. CASE GetInterfaceInfo
  BY <1>3 DEF GetInterfaceInfo
<1>4. CASE InsertSystem
  BY <1>4 DEF InsertSystem
<1>5. CASE InsertSubsystem
  <2>1. Split!AddInterfaces => Split!Next
    BY DEF Split!Next
  <2>. QED  BY <1>5, <2>1, SplitKeepsDesc DEF InsertSubsystem, AddInterfaces
<1>6. CASE SetSplittablePortInfo
  <2>1. Split!Next
    BY <1>6 DEF SetSplittablePortInfo, Split!Next
  <2>. QED  BY <1>6, <2>1, SplitKeepsDesc DEF SetSplittablePortInfo
<1>7. CASE EndSubsystem
  BY <1>7 DEF EndSubsystem
<1>8. CASE InsertDaemons
  BY <1>8 DEF InsertDaemons
<1>9. CASE UpdateSwInfo
  BY <1>9, RelKeepsDesc DEF UpdateSwInfo
<1>10. CASE SetTimezone
  BY <1>10 DEF SetTimezone
<1>11. CASE InitQos
  BY <1>11, QosKeepsDesc DEF InitQos
<1>12. CASE InitAclLimits
  BY <1>12 DEF InitAclLimits
<1>13. CASE UNCHANGED vars
  BY <1>13 DEF vars
<1>. QED
  BY <1>1, <1>2, <1>3, <1>4, <1>5, <1>6, <1>7, <1>8, <1>9, <1>10, <1>11, <1>12, <1>13 DEF Next, Ended

-----------------------------------------------------------------------------
\* sysd_initial_configure() is the composition of its parts: a behaviour of the push is
\* one of the FRU's, of the split ports', of the release file's and of QoS', as each of
\* these modules has it.
THEOREM Composition == Spec => Fru!Spec /\ Split!Spec /\ Rel!Spec /\ Qos!Spec
<1>1. Init => Fru!Init /\ Split!Init /\ Rel!Init /\ Qos!Init
  BY DEF Init, Fru!Init, Split!Init, Rel!Init, Qos!Init
<1>2. [Next]_vars => /\ [Fru!Next]_(Fru!vars) /\ [Split!Next]_(Split!vars)
                     /\ [Rel!Next]_(Rel!vars) /\ [Qos!Next]_(Qos!vars)
  BY PartsStep
<1>. QED  BY <1>1, <1>2, PTL DEF Spec, Fru!Spec, Split!Spec, Rel!Spec, Qos!Spec

\* SplitPortsProofs speaks of the same part.
LEMMA SamePart == Split!Spec => SplitPush!Spec
<1>1. Split!Init => SplitPush!Init
  BY DEF Split!Init, SplitPush!Init, Split!Start, SplitPush!Start
<1>2. [Split!Next]_(Split!vars) => [SplitPush!Next]_(SplitPush!vars)
  BY DEF Split!Next, SplitPush!Next, Split!vars, SplitPush!vars,
         Split!AddInterfaces, SplitPush!AddInterfaces, Split!Collect, SplitPush!Collect,
         Split!ReferPort, SplitPush!ReferPort, Split!EndRefer, SplitPush!EndRefer,
         Split!Refer, SplitPush!Refer, Split!Subports, SplitPush!Subports,
         Split!Names, SplitPush!Names, Split!NPorts, SplitPush!NPorts
<1>. QED  BY <1>1, <1>2, PTL DEF Split!Spec, SplitPush!Spec

\* What it assumes of the descriptions is what InitialPush assumes.
LEMMA SameAssumption == SplitPush!DescriptionsAssumption
  BY DescriptionsAssumption
     DEF SplitPush!DescriptionsAssumption, Description, SplitPush!Description,
         Port, SplitPush!Port, FruInfo, SplitPush!FruInfo, Eeprom, SplitPush!Eeprom,
         Tlv, SplitPush!Tlv, QosInfo, SplitPush!QosInfo, QueueEntry, SplitPush!QueueEntry,
         ScheduleEntry, SplitPush!ScheduleEntry, MapEntry, SplitPush!MapEntry,
         ReleaseLine, SplitPush!ReleaseLine, Low24, SplitPush!Low24, MacSpace, SplitPush!MacSpace

\* No row of the push refers to an Interface row that it does not insert, for any
\* description.
THEOREM PushRefersToRows == Spec => []ReferencesExist
<1>1. SplitPush!Spec => []SplitPush!ReferencesExist
  BY SplitPush!ReferencesAreRows, SameAssumption
<1>2. SplitPush!ReferencesExist => ReferencesExist
  BY DEF ReferencesExist, Split!ReferencesExist, SplitPush!ReferencesExist
<1>. QED  BY <1>1, <1>2, SamePart, Composition, PTL

\* The push's Interface rows name parent and child in both directions wherever the
\* description does.
THEOREM PushSplitsMutually == Spec => []SplitMutual
<1>1. SplitPush!Spec => []SplitPush!SplitMutual
  BY SplitPush!SplitsAreMutual, SameAssumption
<1>2. SplitPush!SplitMutual => SplitMutual
  BY DEF SplitMutual, Split!SplitMutual, SplitPush!SplitMutual, Split!Parent, SplitPush!Parent,
         Split!Child, SplitPush!Child, Split!Subports, SplitPush!Subports,
         Split!NPorts, SplitPush!NPorts
<1>. QED  BY <1>1, <1>2, SamePart, Composition, PTL

-----------------------------------------------------------------------------
(***************************************************************************)
(* The FRU: what has been read of it, and the pool.                        *)
(***************************************************************************)
NTlvs == Len(desc.eeprom.tlvs)

\* The TLVs of a code that have been processed, and the last of them.
Before(c)     == {n \in Fru!TlvsOf(c) : n < tlv}
LastBefore(c) == {n \in Before(c) : \A m \in Before(c) : m <= n}

\* The fields are those the TLVs processed so far give, the last of a code prevailing.
FieldsRead ==
    /\ Before("num_macs") = {} => fru.num_macs = 0
    /\ \A n \in LastBefore("num_macs") : fru.num_macs = Fru!Value(n)[1] * Byte + Fru!Value(n)[2]
    /\ Before("base_mac_address") = {} => fru.base = 0
    /\ \A n \in LastBefore("base_mac_address") : fru.base = Fru!Value(n)
    /\ \A c \in TextFields :
          /\ Before(c) = {} => fru.text[c] = NULL
          /\ \A n \in LastBefore(c) : fru.text[c] = Fru!Value(n)

\* None of them was illegal, and a CRC was right and in its place.
TlvsAccepted ==
    \A n \in 1..NTlvs :
        n < tlv => /\ desc.eeprom.tlvs[n].code # "illegal"
                   /\ desc.eeprom.tlvs[n].code = "crc" => desc.eeprom.intact /\ n = NTlvs

ReadInv ==
    /\ fruPc \in {"fru", "rest"} => fru = Fru!ZeroFru /\ tlv = 1
    /\ fruPc \in {"rest", "tlvs"} => ~desc.fru_yaml
    /\ ~desc.fru_yaml =>
          /\ fruPc \notin {"fru", "exit"} => desc.eeprom.version <= 1
          /\ fruPc \in {"macs", "mgmt", "system", "ready"} => tlv > NTlvs
          /\ FieldsRead /\ TlvsAccepted

\* The addresses taken so far are the first of the pool, in this order, and what is left
\* begins behind them.
PoolInv ==
    /\ fruPc \in {"fru", "rest", "tlvs", "macs", "exit"} =>
          num_free_macs = 0 /\ nxt_mac_addr = 0 /\ mgmt_mac_addr = 0 /\ system_mac_addr = 0
    /\ fruPc = "mgmt" =>
          /\ num_free_macs = fru.num_macs /\ nxt_mac_addr = fru.base
          /\ mgmt_mac_addr = 0 /\ system_mac_addr = 0
    /\ fruPc = "system" =>
          /\ mgmt_mac_addr = (IF fru.num_macs > 0 THEN fru.base ELSE 0) /\ system_mac_addr = 0
          /\ num_free_macs = (IF fru.num_macs > 0 THEN fru.num_macs - 1 ELSE 0)
          /\ nxt_mac_addr = (IF fru.num_macs > 0 THEN fru.base + 1 ELSE fru.base)
    /\ fruPc = "ready" =>
          /\ mgmt_mac_addr = (IF fru.num_macs > 0 THEN fru.base ELSE 0)
          /\ system_mac_addr = (IF fru.num_macs > 1 THEN fru.base + 1 ELSE 0)
          /\ num_free_macs = (IF fru.num_macs > 1 THEN fru.num_macs - 2 ELSE 0)
          /\ nxt_mac_addr = (IF fru.num_macs > 1 THEN fru.base + 2 ELSE fru.base + fru.num_macs)

FruInv ==
    /\ desc \in Descriptions
    /\ fru \in Fru!FruRow
    /\ tlv \in 1..NTlvs + 1
    /\ fruPc \in {"fru", "rest", "tlvs", "macs", "mgmt", "system", "ready", "exit"}
    /\ ReadInv /\ PoolInv

\* A number of two digits in base B.
LEMMA TwoDigits ==
    ASSUME NEW B \in Nat, NEW a \in 0..B - 1, NEW b \in 0..B - 1
    PROVE  a * B + b \in 0..B * B - 1
<1>1. PICK d \in Nat : B = a + 1 + d
  <2>1. B - 1 - a \in Nat /\ B = a + 1 + (B - 1 - a)
    OBVIOUS
  <2>. QED  BY <2>1
<1>2. B * B = a * B + B + d * B
  BY <1>1
<1>3. a * B \in Nat /\ d * B \in Nat
  OBVIOUS
<1>. QED  BY <1>2, <1>3

\* The widths are positive, and a pool is no larger than the space of addresses.
LEMMA Widths ==
    /\ Byte \in Nat \ {0} /\ Uint16 \in Nat \ {0} /\ Low24 \in Nat \ {0} /\ MacSpace \in Nat \ {0}
    /\ Uint16 <= MacSpace
<1>1. \A x, y \in Nat \ {0} : x * y \in Nat \ {0} /\ x <= x * y
  <2> SUFFICES ASSUME NEW x \in Nat \ {0}, NEW y \in Nat \ {0}
               PROVE  x * y \in Nat \ {0} /\ x <= x * y
    OBVIOUS
  <2>1. PICK k \in Nat : y = k + 1
    <3>1. y - 1 \in Nat /\ y = (y - 1) + 1
      OBVIOUS
    <3>. QED  BY <3>1
  <2>2. x * y = x * k + x /\ x * k \in Nat
    BY <2>1
  <2>. QED  BY <2>2
<1>2. Byte \in Nat \ {0}
  BY DescriptionsAssumption
<1>3. Uint16 \in Nat \ {0}
  BY <1>1, <1>2 DEF Uint16
<1>4. Low24 = Uint16 * Byte /\ Low24 \in Nat \ {0} /\ Uint16 <= Low24
  BY <1>1, <1>2, <1>3 DEF Low24, Uint16
<1>5. MacSpace \in Nat \ {0} /\ Low24 <= MacSpace
  BY <1>1, <1>4 DEF MacSpace
<1>. QED  BY <1>2, <1>3, <1>4, <1>5

\* The part has the same widths.
LEMMA FruWidths ==
    /\ Fru!Uint16 = Uint16 /\ Fru!Low24 = Low24 /\ Fru!MacSpace = MacSpace
    /\ Fru!FruRow = [num_macs : 0..Uint16 - 1, base : 0..MacSpace - 1,
                     text : [TextFields -> Texts \cup {NULL}]]
  BY DEF Fru!Uint16, Uint16, Fru!Low24, Low24, Fru!MacSpace, MacSpace, Fru!FruRow

\* What a description has of the FRU.
LEMMA FruOf ==
    ASSUME desc \in Descriptions
    PROVE  /\ NTlvs \in Nat
           /\ desc.eeprom.tlvs \in Seq(Tlv)
           /\ \A n \in 1..NTlvs : desc.eeprom.tlvs[n] \in Tlv
           /\ desc.eeprom.version \in Nat
           /\ desc.fru_info \in FruInfo \cup {NULL}
<1>1. desc \in Description
  BY DescriptionsAssumption
<1>2. desc.eeprom \in Eeprom /\ desc.fru_info \in FruInfo \cup {NULL}
  BY <1>1 DEF Description
<1>3. desc.eeprom.tlvs \in Seq(Tlv) /\ desc.eeprom.version \in Nat
  BY <1>2 DEF Eeprom
<1>. QED  BY <1>2, <1>3 DEF NTlvs

\* A TLV fits the field it sets.
LEMMA FieldType ==
    ASSUME NEW f \in Fru!FruRow, NEW t \in Tlv
    PROVE  /\ Fru!FieldSet(f, t) \in Fru!FruRow
           /\ t.code = "num_macs" =>
                 Fru!FieldSet(f, t) = [f EXCEPT !.num_macs = t.value[1] * Byte + t.value[2]]
           /\ t.code = "base_mac_address" => Fru!FieldSet(f, t) = [f EXCEPT !.base = t.value]
           /\ t.code \in TextFields => Fru!FieldSet(f, t) = [f EXCEPT !.text[t.code] = t.value]
           /\ t.code \notin {"num_macs", "base_mac_address"} \cup TextFields =>
                 Fru!FieldSet(f, t) = f
<1>1. "num_macs" \notin TextFields /\ "base_mac_address" \notin TextFields
  BY DescriptionsAssumption
<1>2. ASSUME t.code = "num_macs"
      PROVE  Fru!FieldSet(f, t) = [f EXCEPT !.num_macs = t.value[1] * Byte + t.value[2]]
  BY <1>1, <1>2 DEF Fru!FieldSet
<1>3. ASSUME t.code = "base_mac_address"
      PROVE  Fru!FieldSet(f, t) = [f EXCEPT !.base = t.value]
  BY <1>1, <1>3 DEF Fru!FieldSet
<1>4. ASSUME t.code \in TextFields
      PROVE  Fru!FieldSet(f, t) = [f EXCEPT !.text[t.code] = t.value]
  BY <1>1, <1>4 DEF Fru!FieldSet
<1>5. ASSUME t.code \notin {"num_macs", "base_mac_address"} \cup TextFields
      PROVE  Fru!FieldSet(f, t) = f
  BY <1>5 DEF Fru!FieldSet
<1>6. Fru!FieldSet(f, t) \in Fru!FruRow
  <2>1. CASE t.code = "num_macs"
    <3>1. t.value \in (0..Byte - 1) \X (0..Byte - 1)
      BY <1>1, <2>1, DescriptionsAssumption DEF Tlv
    <3>2. t.value[1] * Byte + t.value[2] \in 0..Uint16 - 1
      BY <3>1, TwoDigits, Widths DEF Uint16
    <3>3. \A v \in 0..Uint16 - 1 : [f EXCEPT !.num_macs = v] \in Fru!FruRow
      BY FruWidths
    <3>. QED  BY <1>2, <2>1, <3>2, <3>3
  <2>2. CASE t.code = "base_mac_address"
    <3>1. t.value \in 0..MacSpace - 1
      BY <1>1, <2>2, DescriptionsAssumption DEF Tlv
    <3>2. \A v \in 0..MacSpace - 1 : [f EXCEPT !.base = v] \in Fru!FruRow
      BY FruWidths
    <3>. QED  BY <1>3, <2>2, <3>1, <3>2
  <2>3. CASE t.code \in TextFields
    <3>1. t.value \in Texts
      BY <1>1, <2>3, DescriptionsAssumption DEF Tlv
    <3>. QED  BY <1>4, <2>3, <3>1, FruWidths
  <2>. QED  BY <1>5, <2>1, <2>2, <2>3
<1>. QED  BY <1>2, <1>3, <1>4, <1>5, <1>6, Zenon

\* A TLV that is processed becomes the last of its code; the other codes' stay.
LEMMA BeforeStep ==
    ASSUME desc' = desc, desc \in Descriptions, tlv' = tlv + 1, tlv \in 1..NTlvs, NEW c
    PROVE  /\ c = desc.eeprom.tlvs[tlv].code => LastBefore(c)' = {tlv} /\ Before(c)' # {}
           /\ c # desc.eeprom.tlvs[tlv].code =>
                 Before(c)' = Before(c) /\ LastBefore(c)' = LastBefore(c)
<1>1. NTlvs \in Nat /\ NTlvs = Len(desc.eeprom.tlvs)
  BY FruOf DEF NTlvs
<1>2. \A n \in 1..NTlvs : n < tlv' <=> n < tlv \/ n = tlv
  BY <1>1
<1>3. CASE c = desc.eeprom.tlvs[tlv].code
  <2>1. Before(c)' = Before(c) \cup {tlv}
    BY <1>1, <1>2, <1>3 DEF Before, Fru!TlvsOf
  <2>2. \A n \in Before(c) : n \in Nat /\ n < tlv
    BY <1>1 DEF Before, Fru!TlvsOf
  <2>3. tlv \in Nat /\ \A n \in Before(c)' : n <= tlv
    BY <1>1, <2>1, <2>2
  <2>4. \A n \in Before(c)' : (\A m \in Before(c)' : m <= n) <=> n = tlv
    BY <2>1, <2>2, <2>3
  <2>5. LastBefore(c)' = {tlv}
    BY <2>1, <2>4 DEF LastBefore
  <2>. QED  BY <1>3, <2>1, <2>5
<1>4. CASE c # desc.eeprom.tlvs[tlv].code
  <2>1. Before(c)' = Before(c)
    BY <1>1, <1>2, <1>4 DEF Before, Fru!TlvsOf
  <2>. QED  BY <1>4, <2>1 DEF LastBefore
<1>. QED  BY <1>3, <1>4

\* Before the first TLV nothing has been read.
LEMMA NothingBefore ==
    ASSUME desc \in Descriptions, tlv = 1, fru = Fru!ZeroFru
    PROVE  FieldsRead /\ TlvsAccepted
<1>1. \A c : Before(c) = {} /\ LastBefore(c) = {}
  BY FruOf DEF Before, LastBefore, Fru!TlvsOf
<1>2. fru.num_macs = 0 /\ fru.base = 0 /\ \A c \in TextFields : fru.text[c] = NULL
  BY DEF Fru!ZeroFru
<1>3. TlvsAccepted
  BY FruOf DEF TlvsAccepted
<1>. QED  BY <1>1, <1>2, <1>3 DEF FieldsRead

LEMMA FruStart == Init => FruInv
<1> SUFFICES ASSUME Init PROVE FruInv
  OBVIOUS
<1>1. desc \in Descriptions /\ fru = Fru!ZeroFru /\ tlv = 1 /\ fruPc = "fru"
      /\ num_free_macs = 0 /\ nxt_mac_addr = 0 /\ mgmt_mac_addr = 0 /\ system_mac_addr = 0
  BY DEF Init, Fru!Start
<1>2. fru \in Fru!FruRow
  BY <1>1, Widths, FruWidths DEF Fru!ZeroFru
<1>3. tlv \in 1..NTlvs + 1
  BY <1>1, FruOf
<1>4. FieldsRead /\ TlvsAccepted
  BY <1>1, NothingBefore
<1>5. ReadInv
  BY <1>1, <1>4 DEF ReadInv
<1>6. PoolInv
  BY <1>1 DEF PoolInv
<1>. QED  BY <1>1, <1>2, <1>3, <1>5, <1>6 DEF FruInv

\* Reading the EEPROM's TLVs keeps it.
LEMMA TlvStep ==
    ASSUME FruInv, Fru!ProcessTlv
    PROVE  FruInv'
<1> DEFINE t == desc.eeprom.tlvs[tlv]
<1>1. /\ fruPc = "tlvs" /\ fruPc' = "tlvs" /\ tlv \in 1..NTlvs /\ tlv' = tlv + 1 /\ desc' = desc
      /\ ~Fru!Rejected(t) /\ fru' = Fru!FieldSet(fru, t)
      /\ UNCHANGED <<num_free_macs, nxt_mac_addr, mgmt_mac_addr, system_mac_addr>>
      /\ desc \in Descriptions /\ fru \in Fru!FruRow /\ t \in Tlv /\ NTlvs \in Nat
      /\ ~desc.fru_yaml
  BY FruOf DEF FruInv, ReadInv, Fru!ProcessTlv, NTlvs, Fru!macVars
<1>2. fru' \in Fru!FruRow /\ tlv' \in 1..NTlvs' + 1
  BY <1>1, FieldType DEF NTlvs
<1>3. FieldsRead'
  <2>0. FieldsRead
    BY <1>1 DEF FruInv, ReadInv
  <2>1. /\ \A c : c = t.code => LastBefore(c)' = {tlv} /\ Before(c)' # {}
        /\ \A c : c # t.code => Before(c)' = Before(c) /\ LastBefore(c)' = LastBefore(c)
    BY <1>1, BeforeStep
  <2>2. \A n : Fru!Value(n)' = Fru!Value(n)
    BY <1>1 DEF Fru!Value
  <2>3. Fru!Value(tlv) = t.value
    BY DEF Fru!Value
  <2>4. "num_macs" \notin TextFields /\ "base_mac_address" \notin TextFields
    BY DescriptionsAssumption
  <2>5. \A c \in TextFields : c \in DOMAIN fru.text
    BY <1>1, FruWidths
  <2>6. fru = [num_macs |-> fru.num_macs, base |-> fru.base, text |-> fru.text]
    BY <1>1, FruWidths
  <2>7. CASE t.code = "num_macs"
    <3>1. fru'.num_macs = t.value[1] * Byte + t.value[2]
          /\ fru'.base = fru.base /\ fru'.text = fru.text
      BY <1>1, <2>6, <2>7, FieldType
    <3>2. "base_mac_address" # t.code /\ \A c \in TextFields : c # t.code
      BY <2>4, <2>7
    <3>. QED  BY <2>0, <2>1, <2>2, <2>3, <2>7, <3>1, <3>2 DEF FieldsRead
  <2>8. CASE t.code = "base_mac_address"
    <3>1. fru'.base = t.value /\ fru'.num_macs = fru.num_macs /\ fru'.text = fru.text
      BY <1>1, <2>6, <2>8, FieldType
    <3>2. "num_macs" # t.code /\ \A c \in TextFields : c # t.code
      BY <2>4, <2>8
    <3>. QED  BY <2>0, <2>1, <2>2, <2>3, <2>8, <3>1, <3>2 DEF FieldsRead
  <2>9. CASE t.code \in TextFields
    <3>1. /\ fru'.num_macs = fru.num_macs /\ fru'.base = fru.base
          /\ fru'.text[t.code] = t.value
          /\ \A c \in TextFields : c # t.code => fru'.text[c] = fru.text[c]
      BY <1>1, <2>5, <2>6, <2>9, FieldType
    <3>2. "num_macs" # t.code /\ "base_mac_address" # t.code
      BY <2>4, <2>9
    <3>. QED  BY <2>0, <2>1, <2>2, <2>3, <2>9, <3>1, <3>2 DEF FieldsRead
  <2>10. CASE t.code \notin {"num_macs", "base_mac_address"} \cup TextFields
    <3>1. fru' = fru
      BY <1>1, <2>10, FieldType
    <3>. QED  BY <2>0, <2>1, <2>2, <2>10, <3>1 DEF FieldsRead
  <2>. QED  BY <2>7, <2>8, <2>9, <2>10
<1>4. TlvsAccepted'
  <2>1. TlvsAccepted
    BY <1>1 DEF FruInv, ReadInv
  <2>2. t.code # "illegal" /\ (t.code = "crc" => desc.eeprom.intact /\ tlv = NTlvs)
    BY <1>1 DEF Fru!Rejected, Fru!CrcMatches, NTlvs
  <2>3. NTlvs' = NTlvs /\ \A n \in 1..NTlvs : n < tlv' => n < tlv \/ n = tlv
    BY <1>1 DEF NTlvs
  <2>. QED  BY <1>1, <2>1, <2>2, <2>3 DEF TlvsAccepted
<1>5. ReadInv'
  BY <1>1, <1>3, <1>4 DEF FruInv, ReadInv
<1>6. PoolInv'
  BY <1>1 DEF FruInv, PoolInv
<1>. QED  BY <1>1, <1>2, <1>5, <1>6 DEF FruInv

\* What has been read of the FRU stays read as long as none of it changes.
LEMMA ReadKept ==
    ASSUME FruInv, desc' = desc, fru' = fru, tlv' = tlv
    PROVE  /\ desc' \in Descriptions /\ fru' \in Fru!FruRow /\ tlv' \in 1..NTlvs' + 1
           /\ FieldsRead => FieldsRead'
           /\ TlvsAccepted => TlvsAccepted'
<1>1. NTlvs' = NTlvs
  BY DEF NTlvs
<1>2. FieldsRead => FieldsRead'
  <2>1. \A c : Before(c)' = Before(c) /\ LastBefore(c)' = LastBefore(c)
    BY DEF Before, LastBefore, Fru!TlvsOf
  <2>2. \A n : Fru!Value(n)' = Fru!Value(n)
    BY DEF Fru!Value
  <2>. QED  BY <2>1, <2>2 DEF FieldsRead
<1>3. TlvsAccepted => TlvsAccepted'
  BY <1>1 DEF TlvsAccepted
<1>. QED  BY <1>1, <1>2, <1>3 DEF FruInv

\* The arithmetic of a pool of which up to two addresses are taken.
LEMMA FruNumbers ==
    ASSUME fru \in Fru!FruRow
    PROVE  fru.num_macs \in 0..Uint16 - 1 /\ fru.base \in 0..MacSpace - 1
  BY FruWidths

LEMMA FruStep == FruInv /\ [Fru!Next]_(Fru!vars) => FruInv'
<1> SUFFICES ASSUME FruInv, [Fru!Next]_(Fru!vars)
             PROVE  FruInv'
  OBVIOUS
<1> USE DEF Fru!macVars
<1>0. desc \in Descriptions /\ fru \in Fru!FruRow /\ tlv \in 1..NTlvs + 1 /\ NTlvs \in Nat
      /\ ReadInv /\ PoolInv /\ fru.num_macs \in Nat /\ fru.base \in Nat
  BY FruOf, FruNumbers, Widths DEF FruInv
<1>1. CASE Fru!ReadFruYaml
  <2>1. fru' \in Fru!FruRow
    <3>1. CASE fru' = fru
      BY <1>0, <3>1
    <3>2. ASSUME NEW low \in 0..Low24 - 1, desc.fru_info # NULL,
                 fru' = [num_macs |-> desc.fru_info.num_macs % Uint16,
                         base     |-> desc.fru_info.oui * Low24 + low,
                         text     |-> desc.fru_info.text]
          PROVE  fru' \in Fru!FruRow
      <4>1. desc.fru_info \in FruInfo
        BY <1>0, <3>2, FruOf
      <4>2. desc.fru_info.num_macs \in Nat /\ desc.fru_info.oui \in 0..Low24 - 1
            /\ desc.fru_info.text \in [TextFields -> Texts \cup {NULL}]
        BY <4>1 DEF FruInfo
      <4>3. desc.fru_info.num_macs % Uint16 \in 0..Uint16 - 1
        BY <4>2, Widths
      <4>4. desc.fru_info.oui * Low24 + low \in 0..MacSpace - 1
        BY <4>2, Widths, TwoDigits DEF MacSpace
      <4>. QED  BY <3>2, <4>2, <4>3, <4>4, FruWidths
    <3>. QED  BY <1>1, <3>1, <3>2, FruWidths DEF Fru!ReadFruYaml
  <2>2. desc' = desc /\ tlv' = tlv /\ desc.fru_yaml /\ fruPc = "fru" /\ fruPc' = "macs"
    BY <1>1 DEF Fru!ReadFruYaml
  <2>3. tlv' \in 1..NTlvs' + 1
    BY <1>0, <2>2 DEF NTlvs
  <2>4. ReadInv'
    BY <1>0, <2>2 DEF ReadInv
  <2>5. PoolInv'
    BY <1>0, <1>1, <2>2 DEF PoolInv, Fru!ReadFruYaml
  <2>. QED  BY <1>0, <2>1, <2>2, <2>3, <2>4, <2>5 DEF FruInv
<1>2. CASE Fru!ReadHeader
  <2>1. /\ desc' = desc /\ fru' = fru /\ tlv' = tlv /\ fruPc = "fru" /\ fruPc' \in {"rest", "exit"}
        /\ ~desc.fru_yaml
        /\ fruPc' = "rest" => desc.eeprom.version <= 1
        /\ UNCHANGED <<num_free_macs, nxt_mac_addr, mgmt_mac_addr, system_mac_addr>>
    BY <1>0, <1>2, FruOf DEF Fru!ReadHeader
  <2>2. ReadInv'
    BY <1>0, <2>1, ReadKept DEF ReadInv
  <2>3. PoolInv'
    BY <1>0, <2>1 DEF PoolInv
  <2>. QED  BY <1>0, <2>1, <2>2, <2>3, ReadKept DEF FruInv
<1>3. CASE Fru!ReadRest
  <2>1. /\ desc' = desc /\ fru' = fru /\ tlv' = tlv /\ fruPc = "rest" /\ fruPc' \in {"tlvs", "exit"}
        /\ UNCHANGED <<num_free_macs, nxt_mac_addr, mgmt_mac_addr, system_mac_addr>>
    BY <1>3 DEF Fru!ReadRest
  <2>2. ReadInv'
    BY <1>0, <2>1, ReadKept DEF ReadInv
  <2>3. PoolInv'
    BY <1>0, <2>1 DEF PoolInv
  <2>. QED  BY <1>0, <2>1, <2>2, <2>3, ReadKept DEF FruInv
<1>4. CASE Fru!ProcessTlv
  BY <1>4, TlvStep
<1>5. CASE Fru!RejectTlv
  <2>1. /\ desc' = desc /\ fru' = fru /\ tlv' = tlv /\ fruPc = "tlvs" /\ fruPc' = "exit"
        /\ UNCHANGED <<num_free_macs, nxt_mac_addr, mgmt_mac_addr, system_mac_addr>>
    BY <1>5 DEF Fru!RejectTlv
  <2>2. ReadInv'
    BY <1>0, <2>1, ReadKept DEF ReadInv
  <2>3. PoolInv'
    BY <1>0, <2>1 DEF PoolInv
  <2>. QED  BY <1>0, <2>1, <2>2, <2>3, ReadKept DEF FruInv
<1>6. CASE Fru!EndTlvs
  <2>1. /\ desc' = desc /\ fru' = fru /\ tlv' = tlv /\ fruPc = "tlvs" /\ fruPc' = "macs"
        /\ tlv > NTlvs
        /\ UNCHANGED <<num_free_macs, nxt_mac_addr, mgmt_mac_addr, system_mac_addr>>
    BY <1>6 DEF Fru!EndTlvs, NTlvs
  <2>2. ReadInv'
    BY <1>0, <2>1, ReadKept DEF ReadInv, NTlvs
  <2>3. PoolInv'
    BY <1>0, <2>1 DEF PoolInv
  <2>. QED  BY <1>0, <2>1, <2>2, <2>3, ReadKept DEF FruInv
<1>7. CASE Fru!BeginMacs
  <2>1. desc' = desc /\ fru' = fru /\ tlv' = tlv /\ fruPc = "macs" /\ fruPc' = "mgmt"
    BY <1>7 DEF Fru!BeginMacs
  <2>2. ReadInv'
    BY <1>0, <2>1, ReadKept DEF ReadInv, NTlvs
  <2>3. PoolInv'
    BY <1>0, <1>7, <2>1 DEF PoolInv, Fru!BeginMacs
  <2>. QED  BY <1>0, <2>1, <2>2, <2>3, ReadKept DEF FruInv
<1>8. CASE Fru!SaveMgmtMac
  <2>1. desc' = desc /\ fru' = fru /\ tlv' = tlv /\ fruPc = "mgmt" /\ fruPc' = "system"
    BY <1>8 DEF Fru!SaveMgmtMac
  <2>2. ReadInv'
    BY <1>0, <2>1, ReadKept DEF ReadInv, NTlvs
  <2>3. PoolInv'
    BY <1>0, <1>8, <2>1 DEF PoolInv, Fru!SaveMgmtMac, Fru!TakeMac
  <2>. QED  BY <1>0, <2>1, <2>2, <2>3, ReadKept DEF FruInv
<1>9. CASE Fru!SaveSystemMac
  <2>1. desc' = desc /\ fru' = fru /\ tlv' = tlv /\ fruPc = "system" /\ fruPc' = "ready"
    BY <1>9 DEF Fru!SaveSystemMac
  <2>2. ReadInv'
    BY <1>0, <2>1, ReadKept DEF ReadInv, NTlvs
  <2>3. PoolInv'
    BY <1>0, <1>9, <2>1 DEF PoolInv, Fru!SaveSystemMac, Fru!TakeMac
  <2>. QED  BY <1>0, <2>1, <2>2, <2>3, ReadKept DEF FruInv
<1>10. CASE UNCHANGED Fru!vars
  <2>1. /\ desc' = desc /\ fru' = fru /\ tlv' = tlv /\ fruPc' = fruPc
        /\ UNCHANGED <<num_free_macs, nxt_mac_addr, mgmt_mac_addr, system_mac_addr>>
    BY <1>10 DEF Fru!vars
  <2>2. ReadInv'
    BY <1>0, <2>1, ReadKept DEF ReadInv, NTlvs
  <2>3. PoolInv'
    BY <1>0, <2>1 DEF PoolInv
  <2>. QED  BY <1>0, <2>1, <2>2, <2>3, ReadKept DEF FruInv
<1>. QED
  BY <1>1, <1>2, <1>3, <1>4, <1>5, <1>6, <1>7, <1>8, <1>9, <1>10 DEF Fru!Next

\* What sysd_read_fru_eeprom() and sysd_get_subsystem_info() have made of the description
\* at each of their steps.
THEOREM FruInvariant == Spec => []FruInv
<1>1. Init => FruInv
  BY FruStart
<1>2. FruInv /\ [Fru!Next]_(Fru!vars) => FruInv'
  BY FruStep
<1>3. Init /\ Fru!Spec => []FruInv
  BY <1>1, <1>2, PTL DEF Fru!Spec
<1>. QED  BY <1>3, Composition, PTL DEF Spec

\* An EEPROM that is accepted has been read to its end and means what it says, whatever
\* TLVs it holds and in whatever order.
THEOREM AcceptedAreIntact == Spec => []AcceptedMeansIntact
<1>1. FruInv => AcceptedMeansIntact
  <2> SUFFICES ASSUME FruInv, fruPc = "ready", ~desc.fru_yaml
               PROVE  AcceptedMeansIntact
    BY DEF AcceptedMeansIntact, Fru!AcceptedMeansIntact
  <2>1. tlv > NTlvs /\ desc.eeprom.version <= 1 /\ FieldsRead /\ TlvsAccepted /\ NTlvs \in Nat
        /\ tlv \in Nat
    BY FruOf DEF FruInv, ReadInv
  <2>2. \A n \in 1..NTlvs : n < tlv
    BY <2>1
  <2>3. \A c : Before(c) = Fru!TlvsOf(c) /\ LastBefore(c) = Fru!LastTlv(c)
    <3>1. \A c : Before(c) = Fru!TlvsOf(c)
      BY <2>2 DEF Before, Fru!TlvsOf, NTlvs
    <3>. QED  BY <3>1 DEF LastBefore, Fru!LastTlv
  <2>4. \A n \in 1..NTlvs :
           /\ desc.eeprom.tlvs[n].code # "illegal"
           /\ desc.eeprom.tlvs[n].code = "crc" => desc.eeprom.intact /\ n = NTlvs
    BY <2>1, <2>2 DEF TlvsAccepted
  <2>. QED  BY <2>1, <2>3, <2>4 DEF AcceptedMeansIntact, Fru!AcceptedMeansIntact, FieldsRead, NTlvs
<1>. QED  BY <1>1, FruInvariant, PTL

-----------------------------------------------------------------------------
(***************************************************************************)
(* The release: what has been read of it.                                  *)
(***************************************************************************)

\* The last of the lines with a name, among all and among those read so far.
LinesOf(name)       == {n \in 1..Rel!NLines : desc.os_release[n].name = name}
LinesBefore(name)   == {n \in LinesOf(name) : n < line}
LastLine(name)      == {n \in LinesOf(name) : \A m \in LinesOf(name) : m <= n}
LastLineBefore(name) == {n \in LinesBefore(name) : \A m \in LinesBefore(name) : m <= n}
ValuesAt(S)         == {desc.os_release[n].value : n \in S} \ {NULL}

LinesRead ==
    /\ {version_id} \ {NULL} = ValuesAt(LastLineBefore("VERSION_ID"))
    /\ {build_id} \ {NULL} = ValuesAt(LastLineBefore("BUILD_ID"))

RelInv ==
    /\ desc \in Descriptions
    /\ line \in Nat \ {0} /\ osNames \subseteq Texts
    /\ version_id \in Texts \cup {NULL} /\ build_id \in Texts \cup {NULL}
    /\ relPc \in {"open", "read", "done"}
    /\ swInfo \in [os_name : Texts \cup {NULL}, switch_version : (Texts \X Texts) \cup {NULL}]
    /\ relPc \in {"open", "read"} => swInfo = [os_name |-> NULL, switch_version |-> NULL]
    /\ relPc = "open" => line = 1 /\ version_id = NULL /\ build_id = NULL
    /\ relPc = "read" => desc.os_release # NULL
    /\ relPc # "open" /\ desc.os_release # NULL => LinesRead
    /\ relPc = "done" /\ desc.os_release # NULL =>
          /\ line > Rel!NLines
          /\ swInfo.switch_version = (IF NULL \in {version_id, build_id} THEN NULL
                                      ELSE <<version_id, build_id>>)

\* What a description has of the release.
LEMMA ReleaseOf ==
    ASSUME desc \in Descriptions, desc.os_release # NULL
    PROVE  /\ Rel!NLines \in Nat
           /\ \A n \in 1..Rel!NLines : desc.os_release[n].value \in Texts \cup {NULL}
<1>1. desc.os_release \in Seq(ReleaseLine)
  BY DescriptionsAssumption DEF Description
<1>2. Rel!NLines \in Nat /\ \A n \in 1..Rel!NLines : desc.os_release[n] \in ReleaseLine
  BY <1>1 DEF Rel!NLines
<1>. QED  BY <1>2 DEF ReleaseLine

\* A line that is read becomes the last of its name; the other names' stay.
LEMMA LineStep ==
    ASSUME desc' = desc, desc \in Descriptions, desc.os_release # NULL,
           line' = line + 1, line \in 1..Rel!NLines, NEW name
    PROVE  ValuesAt(LastLineBefore(name))' =
              IF desc.os_release[line].name = name THEN {desc.os_release[line].value} \ {NULL}
              ELSE ValuesAt(LastLineBefore(name))
<1>1. Rel!NLines \in Nat /\ Rel!NLines' = Rel!NLines /\ LinesOf(name)' = LinesOf(name)
  BY ReleaseOf DEF LinesOf, Rel!NLines
<1>2. \A n \in 1..Rel!NLines : n < line' <=> n < line \/ n = line
  BY <1>1
<1>3. CASE desc.os_release[line].name = name
  <2>1. LinesBefore(name)' = LinesBefore(name) \cup {line}
    BY <1>1, <1>2, <1>3 DEF LinesBefore, LinesOf
  <2>2. \A n \in LinesBefore(name) : n \in Nat /\ n < line
    BY <1>1 DEF LinesBefore, LinesOf
  <2>3. \A n \in LinesBefore(name)' : (\A m \in LinesBefore(name)' : m <= n) <=> n = line
    BY <1>1, <2>1, <2>2
  <2>4. LastLineBefore(name)' = {line}
    BY <2>1, <2>3 DEF LastLineBefore
  <2>. QED  BY <1>3, <2>4 DEF ValuesAt
<1>4. CASE desc.os_release[line].name # name
  <2>1. LinesBefore(name)' = LinesBefore(name)
    BY <1>1, <1>2, <1>4 DEF LinesBefore, LinesOf
  <2>. QED  BY <1>4, <2>1 DEF LastLineBefore, ValuesAt
<1>. QED  BY <1>3, <1>4

LEMMA RelStart == Init => RelInv
<1>1. Init => swInfo \in [os_name : Texts \cup {NULL}, switch_version : (Texts \X Texts) \cup {NULL}]
  BY DEF Init, Rel!Start
<1>. QED  BY <1>1 DEF Init, Rel!Start, RelInv

LEMMA RelStep == RelInv /\ [Rel!Next]_(Rel!vars) => RelInv'
<1> SUFFICES ASSUME RelInv, [Rel!Next]_(Rel!vars)
             PROVE  RelInv'
  OBVIOUS
<1>1. ASSUME UNCHANGED <<desc, line, version_id, build_id>>
      PROVE  LinesRead => LinesRead'
  BY <1>1 DEF LinesRead, ValuesAt, LastLineBefore, LinesBefore, LinesOf, Rel!NLines
<1>2. CASE Rel!OpenRelease
  <2>1. /\ UNCHANGED <<desc, line, osNames, version_id, build_id, swInfo>>
        /\ relPc = "open" /\ relPc' = IF desc.os_release = NULL THEN "done" ELSE "read"
    BY <1>2 DEF Rel!OpenRelease
  <2>2. ASSUME desc.os_release # NULL PROVE LinesRead
    <3>1. Rel!NLines \in Nat /\ line = 1 /\ version_id = NULL /\ build_id = NULL
      BY <2>1, <2>2, ReleaseOf DEF RelInv
    <3>2. \A name : LinesBefore(name) = {}
      BY <3>1 DEF LinesBefore, LinesOf
    <3>3. \A name : ValuesAt(LastLineBefore(name)) = {}
      BY <3>2 DEF LastLineBefore, ValuesAt
    <3>. QED  BY <3>1, <3>3 DEF LinesRead
  <2>. QED  BY <1>1, <2>1, <2>2 DEF RelInv
<1>3. CASE Rel!ReadLine
  <2> DEFINE l == desc.os_release[line]
  <2>1. /\ relPc = "read" /\ relPc' = "read" /\ desc' = desc /\ swInfo' = swInfo
        /\ desc.os_release # NULL /\ line \in 1..Rel!NLines /\ line' = line + 1
        /\ desc \in Descriptions /\ l.value \in Texts \cup {NULL}
    BY <1>3, ReleaseOf DEF Rel!ReadLine, RelInv
  <2>2. /\ osNames' = osNames \cup (IF l.name = "NAME" THEN {l.value} \ {NULL} ELSE {})
        /\ version_id' = IF l.name = "VERSION_ID" THEN l.value ELSE version_id
        /\ build_id' = IF l.name = "BUILD_ID" THEN l.value ELSE build_id
    BY <1>3 DEF Rel!ReadLine
  <2>3. LinesRead
    BY <2>1 DEF RelInv
  <2>4. LinesRead'
    BY <2>1, <2>2, <2>3, LineStep DEF LinesRead
  <2>5. line' \in Nat \ {0} /\ osNames' \subseteq Texts
        /\ version_id' \in Texts \cup {NULL} /\ build_id' \in Texts \cup {NULL}
    BY <2>1, <2>2 DEF RelInv
  <2>. QED  BY <2>1, <2>4, <2>5 DEF RelInv
<1>4. CASE Rel!SetSwInfo
  <2>1. /\ relPc = "read" /\ relPc' = "done" /\ line > Rel!NLines
        /\ UNCHANGED <<desc, line, osNames, version_id, build_id>>
        /\ swInfo = [os_name |-> NULL, switch_version |-> NULL]
        /\ desc.os_release # NULL /\ Rel!NLines' = Rel!NLines
    BY <1>4 DEF Rel!SetSwInfo, RelInv, Rel!NLines
  <2>2. PICK n \in IF osNames = {} THEN {swInfo.os_name} ELSE osNames :
          swInfo' = [os_name |-> n,
                     switch_version |-> IF NULL \in {version_id, build_id} THEN swInfo.switch_version
                                        ELSE <<version_id, build_id>>]
    BY <1>4 DEF Rel!SetSwInfo
  <2>3. n \in Texts \cup {NULL} /\ version_id \in Texts \cup {NULL} /\ build_id \in Texts \cup {NULL}
    BY <2>1, <2>2 DEF RelInv
  <2>4. /\ swInfo' \in [os_name : Texts \cup {NULL}, switch_version : (Texts \X Texts) \cup {NULL}]
        /\ swInfo'.switch_version = (IF NULL \in {version_id, build_id} THEN NULL
                                     ELSE <<version_id, build_id>>)
    BY <2>1, <2>2, <2>3
  <2>. QED  BY <1>1, <2>1, <2>4 DEF RelInv
<1>5. CASE UNCHANGED Rel!vars
  BY <1>1, <1>5 DEF Rel!vars, RelInv, Rel!NLines
<1>. QED  BY <1>2, <1>3, <1>4, <1>5 DEF Rel!Next

\* What sysd_update_sw_info() keeps of the lines it has read.
THEOREM ReleaseInvariant == Spec => []RelInv
<1>1. Init => RelInv
  BY RelStart
<1>2. RelInv /\ [Rel!Next]_(Rel!vars) => RelInv'
  BY RelStep
<1>3. Init /\ Rel!Spec => []RelInv
  BY <1>1, <1>2, PTL DEF Rel!Spec
<1>. QED  BY <1>3, Composition, PTL DEF Spec

\* The switch's version and build are those the file ends with, both or none, for any
\* file in any order.
THEOREM VersionIsReleased == Spec => []VersionAsReleased
<1>1. RelInv => VersionAsReleased
  <2> SUFFICES ASSUME RelInv, relPc = "done", desc.os_release # NULL
               PROVE  {swInfo.switch_version} \ {NULL}
                        = Rel!LastValue("VERSION_ID") \X Rel!LastValue("BUILD_ID")
    BY DEF VersionAsReleased, Rel!VersionAsReleased
  <2>1. Rel!NLines \in Nat /\ line \in Nat /\ line > Rel!NLines /\ LinesRead
    BY ReleaseOf DEF RelInv
  <2>2. \A name : LinesBefore(name) = LinesOf(name)
    BY <2>1 DEF LinesBefore, LinesOf
  <2>3. \A name : Rel!LastValue(name) = ValuesAt(LastLineBefore(name))
    <3> SUFFICES ASSUME NEW name PROVE Rel!LastValue(name) = ValuesAt(LastLineBefore(name))
      OBVIOUS
    <3>1. LastLineBefore(name) = {m \in LinesOf(name) : \A k \in LinesOf(name) : k <= m}
      BY <2>2 DEF LastLineBefore
    <3>2. Rel!LastValue(name) =
            {desc.os_release[n].value :
                n \in {m \in LinesOf(name) : \A k \in LinesOf(name) : k <= m}} \ {NULL}
      BY DEF Rel!LastValue, LinesOf
    <3>. QED  BY <3>1, <3>2 DEF ValuesAt
  <2>4. /\ Rel!LastValue("VERSION_ID") = {version_id} \ {NULL}
        /\ Rel!LastValue("BUILD_ID") = {build_id} \ {NULL}
    BY <2>1, <2>3 DEF LinesRead
  <2>5. /\ swInfo.switch_version = (IF NULL \in {version_id, build_id} THEN NULL
                                    ELSE <<version_id, build_id>>)
        /\ version_id \in Texts \cup {NULL} /\ build_id \in Texts \cup {NULL}
    BY DEF RelInv
  <2>6. CASE NULL \in {version_id, build_id}
    BY <2>4, <2>5, <2>6
  <2>7. CASE NULL \notin {version_id, build_id}
    <3>1. <<version_id, build_id>> # NULL
      BY <2>5, <2>7, RowsAssumption
    <3>. QED  BY <2>4, <2>5, <2>7, <3>1
  <2>. QED  BY <2>6, <2>7
<1>. QED  BY <1>1, ReleaseInvariant, PTL

-----------------------------------------------------------------------------
(***************************************************************************)
(* The rows: at which step of the push which of them stands.               *)
(***************************************************************************)

\* What SplitPortsProofs shows of the Interface rows.
SplitInv ==
    /\ splitPc \in {"add", "collect", "refer", "done"}
    /\ splitPc = "add" => interfaces = [n \in {} |-> NULL]
    /\ splitPc # "add" => interfaces \in [Split!Names -> Split!Row]
    /\ shash \subseteq Split!Names
    /\ port \in 1..Split!NPorts + 1

\* The interface rows have their types throughout the push.
THEOREM SplitInvariant == Spec => []SplitInv
<1>1. SplitPush!Inv => SplitInv
  <2> SUFFICES ASSUME SplitPush!Inv PROVE SplitInv
    OBVIOUS
  <2>1. SplitPush!Names = Split!Names /\ SplitPush!NPorts = Split!NPorts /\ SplitPush!Row = Split!Row
    BY DEF SplitPush!Names, Split!Names, SplitPush!NPorts, Split!NPorts, SplitPush!Row, Split!Row
  <2>2. SplitPush!Collected \subseteq Split!Names
    BY <2>1 DEF SplitPush!Collected, SplitPush!Names
  <2>. QED  BY <2>1, <2>2 DEF SplitPush!Inv, SplitInv
<1>2. SplitPush!Spec => []SplitPush!Inv
  BY SplitPush!InvHolds, SameAssumption
<1>. QED  BY <1>1, <1>2, SamePart, Composition, PTL

\* The System row with the first n set of the columns that follow its insertion.
SystemAt(n) ==
    [bridge |-> "bridge_normal", vrf |-> "vrf_default",
     management_mac |-> MacString(mgmt_mac_addr), system_mac |-> MacString(system_mac_addr),
     subsystems |-> n >= 1, daemons |-> n >= 2, timezone |-> IF n >= 3 THEN "UTC" ELSE NULL,
     acl_limits |-> n >= 4]

\* hw_intf_info:mac_addr of the Interface rows.
IntfMac == IF system_mac_addr = 0 THEN NULL ELSE MacString(system_mac_addr)

\* The Subsystem row as it is inserted, and as it is completed.
PartSubsystem ==
    subsys = [fru |-> fru, interfaces |-> {}, next_mac_address |-> NULL, macs_remaining |-> NULL]

WholeSubsystem ==
    /\ splitPc = "done"
    /\ intfMac = IntfMac
    /\ subsys = [fru |-> fru, interfaces |-> Split!Names,
                 next_mac_address |-> MacString(nxt_mac_addr), macs_remaining |-> num_free_macs]

SubsystemAdded == (PartSubsystem /\ splitPc = "add" /\ intfMac = NULL) \/ WholeSubsystem

CommitInv ==
    phase = "commit" =>
       \/ /\ sys = SystemAt(0)
          /\ subsys = NULL /\ intfMac = NULL /\ qosPc = "trust"
       \/ sys = SystemAt(1) /\ SubsystemAdded /\ qosPc = "trust"
       \/ sys = SystemAt(4) /\ SubsystemAdded /\ qosPc = "done"

RowsInv ==
    /\ phase \in {"fru", "ports", "system", "subsystem", "split", "daemons", "release",
                  "qos", "commit", "exit"}
    /\ phase \notin {"fru", "exit"} => fruPc = "ready"
    /\ phase \notin {"fru", "ports", "exit"} => desc.ports # <<>>
    /\ phase \in {"fru", "ports", "system", "exit"} => sys = NULL
    /\ phase \in {"fru", "ports", "system", "subsystem", "exit"} =>
          subsys = NULL /\ intfMac = NULL /\ splitPc = "add"
    /\ phase \notin {"qos", "commit"} => qosPc = "trust"
    /\ phase \in {"subsystem", "split"} => sys = SystemAt(0)
    /\ phase = "split" =>
          /\ PartSubsystem
          /\ splitPc # "add"
          /\ intfMac = IntfMac
    /\ phase \in {"daemons", "release", "qos"} => SubsystemAdded
    /\ phase = "daemons" => sys = SystemAt(1)
    /\ phase = "release" => sys = SystemAt(2)
    /\ phase = "qos" => sys = SystemAt(3)
    /\ CommitInv

\* The rows' parts change with what they are made of, and with nothing else.
LEMMA RowsKept ==
    ASSUME UNCHANGED <<desc, fruVars>>
    PROVE  /\ \A n \in 0..4 : SystemAt(n)' = SystemAt(n)
           /\ IntfMac' = IntfMac
           /\ UNCHANGED subsys => PartSubsystem' = PartSubsystem
           /\ UNCHANGED <<splitVars, subsys, intfMac>> => SubsystemAdded' = SubsystemAdded
<1>1. MacString(mgmt_mac_addr)' = MacString(mgmt_mac_addr)
      /\ MacString(system_mac_addr)' = MacString(system_mac_addr)
      /\ MacString(nxt_mac_addr)' = MacString(nxt_mac_addr)
  BY DEF fruVars, MacString, IntfMac
<1>2. Split!Names' = Split!Names
  BY DEF Split!Names, Split!NPorts
<1>3. \A n \in 0..4 : SystemAt(n)' = SystemAt(n)
  BY <1>1 DEF SystemAt
<1>4. UNCHANGED subsys => PartSubsystem' = PartSubsystem
  BY DEF PartSubsystem, fruVars
<1>5. UNCHANGED <<splitVars, subsys, intfMac>> => WholeSubsystem' = WholeSubsystem
  BY <1>1, <1>2 DEF WholeSubsystem, IntfMac, fruVars, splitVars
<1>6. IntfMac' = IntfMac
  BY <1>1 DEF IntfMac, fruVars
<1>. QED  BY <1>3, <1>4, <1>5, <1>6 DEF SubsystemAdded, splitVars

\* The row as it is inserted, and setting the next column.
LEMMA SetColumn ==
    /\ SystemAt(0) =
         [bridge |-> "bridge_normal", vrf |-> "vrf_default",
          management_mac |-> MacString(mgmt_mac_addr), system_mac |-> MacString(system_mac_addr),
          subsystems |-> FALSE, daemons |-> FALSE, timezone |-> NULL, acl_limits |-> FALSE]
    /\ [SystemAt(0) EXCEPT !.subsystems = TRUE] = SystemAt(1)
    /\ [SystemAt(1) EXCEPT !.daemons = TRUE] = SystemAt(2)
    /\ [SystemAt(2) EXCEPT !.timezone = "UTC"] = SystemAt(3)
    /\ [SystemAt(3) EXCEPT !.acl_limits = TRUE] = SystemAt(4)
<1>1. /\ (0 >= 1) = FALSE /\ (0 >= 2) = FALSE /\ (0 >= 4) = FALSE
      /\ (1 >= 1) = TRUE /\ (1 >= 2) = FALSE /\ (1 >= 4) = FALSE
      /\ (2 >= 1) = TRUE /\ (2 >= 2) = TRUE /\ (2 >= 4) = FALSE
      /\ (3 >= 1) = TRUE /\ (3 >= 2) = TRUE /\ (3 >= 4) = FALSE
      /\ (4 >= 1) = TRUE /\ (4 >= 2) = TRUE /\ (4 >= 4) = TRUE
      /\ ~(0 >= 3) /\ ~(1 >= 3) /\ ~(2 >= 3) /\ 3 >= 3 /\ 4 >= 3
  OBVIOUS
<1> DEFINE R(s, d, t, a) ==
         [bridge |-> "bridge_normal", vrf |-> "vrf_default",
          management_mac |-> MacString(mgmt_mac_addr), system_mac |-> MacString(system_mac_addr),
          subsystems |-> s, daemons |-> d, timezone |-> t, acl_limits |-> a]
<1> DEFINE yes == TRUE
           no  == FALSE
           Subs(r, new)   == [r EXCEPT !.subsystems = new]
           Dmns(r, new)   == [r EXCEPT !.daemons = new]
           Zone(r, new)   == [r EXCEPT !.timezone = new]
           Limits(r, new) == [r EXCEPT !.acl_limits = new]
<1>2. /\ SystemAt(0) = R(no, no, NULL, no) /\ SystemAt(1) = R(yes, no, NULL, no)
      /\ SystemAt(2) = R(yes, yes, NULL, no) /\ SystemAt(3) = R(yes, yes, "UTC", no)
      /\ SystemAt(4) = R(yes, yes, "UTC", yes)
  BY <1>1, Zenon DEF SystemAt
<1>3. R(no, no, NULL, no) =
         [bridge |-> "bridge_normal", vrf |-> "vrf_default",
          management_mac |-> MacString(mgmt_mac_addr), system_mac |-> MacString(system_mac_addr),
          subsystems |-> FALSE, daemons |-> FALSE, timezone |-> NULL, acl_limits |-> FALSE]
  OBVIOUS
<1>4. \A s, d, t, a, new : /\ Subs(R(s, d, t, a), new) = R(new, d, t, a)
                           /\ Dmns(R(s, d, t, a), new) = R(s, new, t, a)
                           /\ Zone(R(s, d, t, a), new) = R(s, d, new, a)
                           /\ Limits(R(s, d, t, a), new) = R(s, d, t, new)
  OBVIOUS
<1> HIDE DEF R, Subs, Dmns, Zone, Limits, yes, no
<1>5. /\ Subs(SystemAt(0), yes) = SystemAt(1) /\ Dmns(SystemAt(1), yes) = SystemAt(2)
      /\ Zone(SystemAt(2), "UTC") = SystemAt(3) /\ Limits(SystemAt(3), yes) = SystemAt(4)
  BY <1>2, <1>4
<1>. QED  BY <1>2, <1>3, <1>5, Zenon DEF Subs, Dmns, Zone, Limits, yes

LEMMA RowsStart == Init => RowsInv
  BY DEF Init, Split!Start, Qos!Start, RowsInv, CommitInv

LEMMA RowsStep == SplitInv /\ RowsInv /\ [Next]_vars => RowsInv'
<1> SUFFICES ASSUME SplitInv, RowsInv, [Next]_vars
             PROVE  RowsInv'
  OBVIOUS
<1>1. CASE ReadFru
  <2>1. desc' = desc /\ UNCHANGED <<splitVars, relVars, qosVars, rowVars, phase>> /\ phase = "fru"
    BY <1>1, FruKeepsDesc DEF ReadFru
  <2>. QED  BY <2>1 DEF RowsInv, CommitInv, splitVars, qosVars, rowVars
<1>2. CASE EndFru \/ GetInterfaceInfo
  BY <1>2 DEF EndFru, GetInterfaceInfo, RowsInv, CommitInv, fruVars, splitVars, qosVars, rowVars
<1>3. CASE InsertSystem
  <2>1. /\ UNCHANGED <<desc, fruVars, splitVars, relVars, qosVars, subsys, intfMac>>
        /\ phase = "system" /\ phase' \in {"subsystem", "commit"}
        /\ sys' = SystemAt(0)
    BY <1>3, SetColumn DEF InsertSystem
  <2>. QED  BY <2>1, RowsKept DEF RowsInv, CommitInv, fruVars, splitVars, qosVars
<1>4. CASE InsertSubsystem
  <2>1. /\ UNCHANGED <<desc, fruVars, relVars, qosVars>>
        /\ phase = "subsystem" /\ splitPc = "add" /\ intfMac = NULL
        /\ sys = SystemAt(0)
        /\ desc.ports # <<>> /\ fruPc = "ready" /\ qosPc = "trust"
        /\ PartSubsystem'
    BY <1>4 DEF InsertSubsystem, RowsInv, PartSubsystem, fruVars
  <2>2. CASE AddInterfaces /\ phase' = "split" /\ UNCHANGED sys
    <3>1. splitPc' = "collect"
          /\ intfMac' = IntfMac'
      BY <2>1, <2>2 DEF AddInterfaces, Split!AddInterfaces, fruVars, MacString, IntfMac
    <3>. QED  BY <2>1, <2>2, <3>1, RowsKept DEF RowsInv, CommitInv, fruVars, qosVars
  <2>3. CASE phase' = "daemons" /\ sys' = [sys EXCEPT !.subsystems = TRUE]
             /\ UNCHANGED <<splitVars, intfMac>>
    <3>1. sys' = SystemAt(1)'
      BY <2>1, <2>3, SetColumn, RowsKept
    <3>2. SubsystemAdded'
      BY <2>1, <2>3 DEF SubsystemAdded, splitVars
    <3>. QED  BY <2>1, <2>3, <3>1, <3>2 DEF RowsInv, CommitInv, fruVars, qosVars
  <2>. QED  BY <1>4, <2>2, <2>3 DEF InsertSubsystem
<1>5. CASE SetSplittablePortInfo
  <2>1. /\ desc' = desc /\ UNCHANGED <<fruVars, relVars, qosVars, rowVars, phase>>
        /\ phase = "split" /\ splitPc' # "add"
    BY <1>5, SplitKeepsDesc
       DEF SetSplittablePortInfo, RowsInv, Split!Next, Split!Collect, Split!ReferPort, Split!EndRefer
  <2>2. IntfMac' = IntfMac
    BY <2>1 DEF fruVars, MacString, IntfMac
  <2>. QED  BY <2>1, <2>2, RowsKept DEF RowsInv, CommitInv, fruVars, qosVars, rowVars
<1>6. CASE EndSubsystem
  <2>1. /\ UNCHANGED <<desc, fruVars, splitVars, relVars, qosVars, intfMac>>
        /\ phase = "split" /\ phase' = "daemons" /\ splitPc = "done"
        /\ sys = SystemAt(0) /\ PartSubsystem
        /\ intfMac = IntfMac
        /\ desc.ports # <<>> /\ fruPc = "ready" /\ qosPc = "trust"
    BY <1>6 DEF EndSubsystem, RowsInv
  <2>2. sys' = SystemAt(1)'
    BY <1>6, <2>1, SetColumn, RowsKept DEF EndSubsystem
  <2>3. subsys' = [fru |-> fru, interfaces |-> Split!Names,
                   next_mac_address |-> MacString(nxt_mac_addr), macs_remaining |-> num_free_macs]
    <3>1. DOMAIN interfaces = Split!Names
      BY <2>1 DEF SplitInv
    <3>. QED  BY <1>6, <2>1, <3>1 DEF EndSubsystem, PartSubsystem
  <2>4. WholeSubsystem'
    <3>1. Split!Names' = Split!Names
      BY <2>1 DEF Split!Names, Split!NPorts
    <3>. QED  BY <2>1, <2>3, <3>1 DEF WholeSubsystem, fruVars, splitVars, MacString, IntfMac
  <2>. QED  BY <2>1, <2>2, <2>4 DEF RowsInv, CommitInv, SubsystemAdded, fruVars, qosVars
<1>7. CASE InsertDaemons
  <2>1. /\ UNCHANGED <<desc, fruVars, splitVars, relVars, qosVars, subsys, intfMac>>
        /\ phase = "daemons" /\ SubsystemAdded'
    BY <1>7, RowsKept DEF InsertDaemons, RowsInv
  <2>2. \/ phase' = "release" /\ sys' = SystemAt(2)'
        \/ phase' = "commit" /\ sys' = SystemAt(1)'
    <3>1. sys = SystemAt(1) /\ SystemAt(1)' = SystemAt(1) /\ SystemAt(2)' = SystemAt(2)
      BY <2>1, RowsKept DEF RowsInv
    <3>. QED  BY <1>7, <3>1, SetColumn DEF InsertDaemons
  <2>. QED  BY <2>1, <2>2 DEF RowsInv, CommitInv, fruVars, qosVars
<1>8. CASE UpdateSwInfo
  <2>1. desc' = desc /\ UNCHANGED <<fruVars, splitVars, qosVars, rowVars, phase>> /\ phase = "release"
    BY <1>8, RelKeepsDesc DEF UpdateSwInfo
  <2>. QED  BY <2>1, RowsKept DEF RowsInv, CommitInv, fruVars, qosVars, rowVars, splitVars
<1>9. CASE SetTimezone
  <2>1. /\ UNCHANGED <<desc, fruVars, splitVars, relVars, qosVars, subsys, intfMac>>
        /\ phase = "release" /\ phase' = "qos" /\ SubsystemAdded'
    BY <1>9, RowsKept DEF SetTimezone, RowsInv
  <2>2. sys' = SystemAt(3)'
    BY <1>9, <2>1, SetColumn, RowsKept DEF SetTimezone, RowsInv
  <2>. QED  BY <2>1, <2>2 DEF RowsInv, CommitInv, fruVars, qosVars
<1>10. CASE InitQos
  <2>1. desc' = desc /\ UNCHANGED <<fruVars, splitVars, relVars, rowVars, phase>> /\ phase = "qos"
    BY <1>10, QosKeepsDesc DEF InitQos
  <2>. QED  BY <2>1, RowsKept DEF RowsInv, CommitInv, fruVars, rowVars, splitVars
<1>11. CASE InitAclLimits
  <2>1. /\ UNCHANGED <<desc, fruVars, splitVars, relVars, qosVars, subsys, intfMac>>
        /\ phase = "qos" /\ phase' = "commit" /\ qosPc = "done" /\ SubsystemAdded'
    BY <1>11, RowsKept DEF InitAclLimits, RowsInv
  <2>2. sys' = SystemAt(4)'
    BY <1>11, <2>1, SetColumn, RowsKept DEF InitAclLimits, RowsInv
  <2>. QED  BY <2>1, <2>2 DEF RowsInv, CommitInv, fruVars, qosVars
<1>12. CASE UNCHANGED vars
  <2>1. UNCHANGED <<desc, fruVars, splitVars, relVars, qosVars, rowVars, phase>>
    BY <1>12 DEF vars
  <2>2. IntfMac' = IntfMac
    BY <2>1 DEF fruVars, MacString, IntfMac
  <2>. QED  BY <2>1, <2>2, RowsKept DEF RowsInv, CommitInv, fruVars, qosVars, rowVars, splitVars
<1>. QED
  BY <1>1, <1>2, <1>3, <1>4, <1>5, <1>6, <1>7, <1>8, <1>9, <1>10, <1>11, <1>12 DEF Next, Ended

\* Which rows stand in the transaction at each call of sysd_initial_configure().
THEOREM RowsInvariant == Spec => []RowsInv
<1>1. Init => RowsInv
  BY RowsStart
<1>2. SplitInv /\ RowsInv /\ [Next]_vars => RowsInv'
  BY RowsStep
<1>. QED  BY <1>1, <1>2, SplitInvariant, PTL DEF Spec

-----------------------------------------------------------------------------
\* A small number is its remainder, and one less than twice the divisor wraps once.
LEMMA ModOnce ==
    ASSUME NEW M \in Nat \ {0}, NEW x \in Nat, x < M + M
    PROVE  x % M = IF x < M THEN x ELSE x - M
  OBVIOUS

\* The numbers of the FRU as they stand when it has been read.
LEMMA PoolFacts ==
    ASSUME FruInv
    PROVE  /\ MacSpace \in Nat \ {0}
           /\ fru.num_macs \in Nat /\ fru.num_macs < MacSpace
           /\ fru.base \in Nat /\ fru.base < MacSpace
           /\ fruPc = "ready" =>
                 /\ num_free_macs \in Nat /\ nxt_mac_addr \in Nat
                 /\ mgmt_mac_addr \in Nat /\ system_mac_addr \in Nat
<1>1. fru.num_macs \in 0..Uint16 - 1 /\ fru.base \in 0..MacSpace - 1
  BY FruNumbers DEF FruInv
<1>2. /\ Uint16 \in Nat \ {0} /\ MacSpace \in Nat \ {0} /\ Uint16 <= MacSpace
  BY Widths
<1>3. fru.num_macs \in Nat /\ fru.num_macs < MacSpace /\ fru.base \in Nat /\ fru.base < MacSpace
  BY <1>1, <1>2
<1>4. ASSUME fruPc = "ready"
      PROVE  /\ num_free_macs \in Nat /\ nxt_mac_addr \in Nat
             /\ mgmt_mac_addr \in Nat /\ system_mac_addr \in Nat
  BY <1>3, <1>4 DEF FruInv, PoolInv
<1>. QED  BY <1>2, <1>3, <1>4

LEMMA SysIsRow ==
    ASSUME FruInv, fruPc = "ready", NEW n \in 0..4
    PROVE  SystemAt(n) \in SystemRow /\ SystemAt(n) # NULL
<1>1. MacString(mgmt_mac_addr) \in Macs /\ MacString(system_mac_addr) \in Macs
  BY PoolFacts DEF MacString, Macs
<1>2. (n >= 1) \in BOOLEAN /\ (n >= 2) \in BOOLEAN /\ (n >= 4) \in BOOLEAN
  OBVIOUS
<1>3. (IF n >= 3 THEN "UTC" ELSE NULL) \in {"UTC", NULL}
  BY Zenon
<1>4. SystemAt(n) \in SystemRow
  BY <1>1, <1>2, <1>3, Zenon DEF SystemAt, SystemRow
<1>. QED  BY <1>4, RowsAssumption

LEMMA NamesOf ==
    ASSUME desc \in Descriptions
    PROVE  Split!Names \subseteq PortNames /\ (desc.ports # <<>> => Split!Names # {})
<1>1. desc.ports \in Seq(Port)
  BY DescriptionsAssumption DEF Description
<1>2. \A n \in 1..Len(desc.ports) : desc.ports[n].name \in PortNames
  <2>1. \A n \in 1..Len(desc.ports) : desc.ports[n] \in Port
    BY <1>1
  <2>. QED  BY <2>1 DEF Port
<1>3. desc.ports # <<>> => 1 \in 1..Len(desc.ports)
  BY <1>1
<1>. QED  BY <1>2, <1>3 DEF Split!Names, Split!NPorts

LEMMA SubsysIsRow ==
    ASSUME FruInv, fruPc = "ready", PartSubsystem \/ WholeSubsystem
    PROVE  subsys \in SubsystemRow /\ subsys # NULL
<1>1. fru \in Fru!FruRow /\ Split!Names \subseteq PortNames
  BY NamesOf DEF FruInv
<1>2. MacString(nxt_mac_addr) \in Macs
  BY PoolFacts DEF MacString, Macs
<1>3. num_free_macs \in 0..Uint16 - 1
  <2>1. fru.num_macs \in 0..Uint16 - 1 /\ Uint16 \in Nat
    BY FruNumbers, Widths DEF FruInv
  <2>. QED  BY <2>1 DEF FruInv, PoolInv
<1>4. subsys \in SubsystemRow
  BY <1>1, <1>2, <1>3 DEF PartSubsystem, WholeSubsystem, SubsystemRow
<1>. QED  BY <1>4, RowsAssumption

\* Whatever memory fails, the caller commits whole parts, each after those before it.
THEOREM PartsAreWhole == Spec => []PartsWhole
<1>1. FruInv /\ RowsInv => PartsWhole
  <2> SUFFICES ASSUME FruInv, RowsInv, phase = "commit" PROVE PartsWhole
    BY DEF PartsWhole
  <2>1. fruPc = "ready" /\ desc.ports # <<>>
    BY DEF RowsInv
  <2>2. Split!Names # {}
    BY <2>1, NamesOf DEF FruInv
  <2>3. num_free_macs # NULL
    BY <2>1, PoolFacts, DescriptionsAssumption
  <2>4. SubsystemAdded =>
           /\ subsys # NULL
           /\ subsys.interfaces = {} <=> subsys.macs_remaining = NULL
           /\ subsys.interfaces # {} => splitPc = "done"
    BY <2>1, <2>2, <2>3, SubsysIsRow DEF SubsystemAdded, PartSubsystem, WholeSubsystem
  <2>5. "UTC" # NULL
    BY RowsAssumption
  <2>6. \A n \in 0..4 :
           /\ SystemAt(n) # NULL
           /\ SystemAt(n).subsystems <=> n >= 1
           /\ SystemAt(n).daemons <=> n >= 2
           /\ SystemAt(n).timezone # NULL <=> n >= 3
           /\ SystemAt(n).acl_limits <=> n >= 4
    BY <2>1, <2>5, SysIsRow DEF SystemAt
  <2>7. CASE sys = SystemAt(0) /\ subsys = NULL /\ qosPc = "trust"
    BY <2>6, <2>7 DEF PartsWhole
  <2>8. CASE sys = SystemAt(1) /\ SubsystemAdded /\ qosPc = "trust"
    BY <2>4, <2>6, <2>8 DEF PartsWhole
  <2>9. CASE sys = SystemAt(4) /\ SubsystemAdded /\ qosPc = "done"
    BY <2>4, <2>6, <2>9 DEF PartsWhole
  <2>. QED  BY <2>7, <2>8, <2>9 DEF RowsInv, CommitInv
<1>. QED  BY <1>1, FruInvariant, RowsInvariant, PTL

\* The n-th address of the pool the FRU describes.
Address(n) == MacString(fru.base + n)

\* The pool does not meet itself, and the rest of it is what begins at nxt_mac_addr.
LEMMA Addresses ==
    ASSUME FruInv, fruPc = "ready"
    PROVE  /\ \A i, j \in 0..fru.num_macs - 1 : Address(i) = Address(j) => i = j
           /\ fru.num_macs > 0 => MacString(mgmt_mac_addr) = Address(0)
           /\ fru.num_macs > 1 => MacString(system_mac_addr) = Address(1)
           /\ \A n \in 0..num_free_macs - 1 : MacString(MacString(nxt_mac_addr) + n) = Address(n + 2)
<1> DEFINE N == fru.num_macs
           b == fru.base
           M == MacSpace
           Wrap(x) == IF x < M THEN x ELSE x - M
<1>1. /\ M \in Nat \ {0} /\ N \in Nat /\ N < M /\ b \in Nat /\ b < M
  BY PoolFacts
<1>2. \A x \in Nat : x < M + M => MacString(x) = Wrap(x)
  BY <1>1, ModOnce DEF MacString
<1>3. /\ N > 0 => mgmt_mac_addr = b
      /\ N > 1 => system_mac_addr = b + 1 /\ nxt_mac_addr = b + 2 /\ num_free_macs = N - 2
      /\ N <= 1 => num_free_macs = 0
  BY <1>1 DEF FruInv, PoolInv
<1> HIDE DEF N, b, M
<1>4. \A i \in 0..N - 1 : MacString(b + i) = Wrap(b + i)
  BY <1>1, <1>2
<1>5. \A i, j \in 0..N - 1 : MacString(b + i) = MacString(b + j) => i = j
  <2> SUFFICES ASSUME NEW i \in 0..N - 1, NEW j \in 0..N - 1, Wrap(b + i) = Wrap(b + j)
               PROVE  i = j
    BY <1>4
  <2>. QED  BY <1>1
<1>6. N > 0 => MacString(mgmt_mac_addr) = MacString(b + 0)
  BY <1>1, <1>3
<1>7. ASSUME N > 1, NEW n \in 0..N - 3
      PROVE  MacString(MacString(b + 2) + n) = MacString(b + (n + 2))
  <2>1. MacString(b + 2) = Wrap(b + 2)
    BY <1>1, <1>2, <1>7
  <2>2. Wrap(b + 2) + n \in Nat /\ Wrap(b + 2) + n < M + M
    BY <1>1, <1>7
  <2>3. Wrap(Wrap(b + 2) + n) = Wrap(b + (n + 2)) /\ n + 2 \in 0..N - 1
    BY <1>1, <1>7
  <2>. QED  BY <1>2, <1>4, <2>1, <2>2, <2>3
<1>8. \A n \in 0..num_free_macs - 1 : MacString(MacString(nxt_mac_addr) + n) = MacString(b + (n + 2))
  BY <1>1, <1>3, <1>7
<1>. QED  BY <1>1, <1>3, <1>5, <1>6, <1>8 DEF Address, N, b

\* No address of the pool is given out twice and none is lost, for any FRU, any width and
\* wherever in the space of addresses the pool ends.
THEOREM PoolIsAccounted == Spec => []PoolAccounted
<1>1. FruInv /\ RowsInv => PoolAccounted
  <2> SUFFICES ASSUME FruInv, RowsInv, phase = "commit", subsys # NULL,
                      subsys.macs_remaining # NULL
               PROVE  PoolAccounted
    BY DEF PoolAccounted
  <2> DEFINE N     == fru.num_macs
             given == (IF N > 0 THEN {sys.management_mac} ELSE {})
                        \cup (IF N > 1 THEN {sys.system_mac} ELSE {})
             left  == {MacString(subsys.next_mac_address + n) : n \in 0..subsys.macs_remaining - 1}
             pool  == {MacString(fru.base + n) : n \in 0..N - 1}
  <2>1. fruPc = "ready" /\ WholeSubsystem
    BY DEF RowsInv, CommitInv, SubsystemAdded, PartSubsystem
  <2>2. /\ sys.management_mac = MacString(mgmt_mac_addr)
        /\ sys.system_mac = MacString(system_mac_addr)
    BY DEF RowsInv, CommitInv, SystemAt
  <2>3. /\ subsys.next_mac_address = MacString(nxt_mac_addr)
        /\ subsys.macs_remaining = num_free_macs
        /\ intfMac = IntfMac
    BY <2>1 DEF WholeSubsystem
  <2>4. /\ N \in Nat
        /\ num_free_macs = (IF N > 1 THEN N - 2 ELSE 0)
        /\ system_mac_addr = (IF N > 1 THEN fru.base + 1 ELSE 0)
        /\ fru.base \in Nat
    BY <2>1, PoolFacts DEF FruInv, PoolInv
  <2>5. pool = {Address(n) : n \in 0..N - 1}
    BY DEF Address
  <2>6. left = {Address(n) : n \in 2..N - 1}
    <3>1. left = {Address(n + 2) : n \in 0..num_free_macs - 1}
      BY <2>1, <2>3, Addresses
    <3>2. \A n \in 0..num_free_macs - 1 : n + 2 \in 2..N - 1
      BY <2>4
    <3>3. \A n \in 2..N - 1 : n - 2 \in 0..num_free_macs - 1 /\ (n - 2) + 2 = n
      BY <2>4
    <3>. QED  BY <3>1, <3>2, <3>3
  <2>7. given = {Address(n) : n \in {m \in 0..N - 1 : m < 2}}
    <3>1. CASE N = 0
      BY <3>1
    <3>2. CASE N = 1
      <4>1. {m \in 0..N - 1 : m < 2} = {0}
        BY <3>2
      <4>. QED  BY <2>1, <2>2, <3>2, <4>1, Addresses
    <3>3. CASE N > 1
      <4>1. {m \in 0..N - 1 : m < 2} = {0, 1}
        BY <2>4, <3>3
      <4>. QED  BY <2>1, <2>2, <2>4, <3>3, <4>1, Addresses
    <3>4. N = 0 \/ N = 1 \/ N > 1
      BY <2>4
    <3>. QED  BY <3>1, <3>2, <3>3, <3>4, Zenon
  <2>8. given \cup left = pool
    <3>1. 0..N - 1 = {m \in 0..N - 1 : m < 2} \cup (2..N - 1)
      BY <2>4
    <3>. QED  BY <2>5, <2>6, <2>7, <3>1
  <2>9. given \cap left = {}
    <3>1. \A i \in {m \in 0..N - 1 : m < 2}, j \in 2..N - 1 :
             i \in 0..N - 1 /\ j \in 0..N - 1 /\ i # j
      BY <2>4
    <3>2. \A i \in {m \in 0..N - 1 : m < 2}, j \in 2..N - 1 : Address(i) # Address(j)
      BY <2>1, <3>1, Addresses
    <3>. QED  BY <2>6, <2>7, <3>2
  <2>10. Cardinality(given) + subsys.macs_remaining = N
    <3>1. CASE N = 0
      BY <2>3, <2>4, <3>1, FS_EmptySet
    <3>2. CASE N = 1
      <4>1. given = {sys.management_mac}
        BY <3>2
      <4>2. Cardinality(given) = 1
        BY <4>1, FS_Singleton, Zenon
      <4>. QED  BY <2>3, <2>4, <3>2, <4>2
    <3>3. CASE N > 1
      <4>1. sys.management_mac # sys.system_mac
        <5>1. 0 \in 0..N - 1 /\ 1 \in 0..N - 1
          BY <2>4, <3>3
        <5>. QED  BY <2>1, <2>2, <2>4, <3>3, <5>1, Addresses
      <4>2. given = {sys.management_mac} \cup {sys.system_mac}
        BY <2>4, <3>3
      <4>3. Cardinality(given) = 2
        <5>1. IsFiniteSet({sys.management_mac}) /\ Cardinality({sys.management_mac}) = 1
          BY FS_Singleton, Zenon
        <5>2. Cardinality({sys.management_mac} \cup {sys.system_mac}) = 1 + 1
          BY <4>1, <5>1, FS_AddElement
        <5>. QED  BY <4>2, <5>2
      <4>. QED  BY <2>3, <2>4, <3>3, <4>3
    <3>. QED  BY <2>4, <3>1, <3>2, <3>3
  <2>11. intfMac = IF N > 1 THEN sys.system_mac ELSE NULL
    BY <2>2, <2>3, <2>4 DEF IntfMac
  <2>. QED  BY <2>8, <2>9, <2>10, <2>11 DEF PoolAccounted
<1>. QED  BY <1>1, FruInvariant, RowsInvariant, PTL

-----------------------------------------------------------------------------
(***************************************************************************)
(* QoS: QosInitProofs speaks of the same part.                             *)
(***************************************************************************)
QosPush == INSTANCE QosInitProofs

LEMMA QosSameSets ==
    /\ QosPush!DescriptionsAssumption
    /\ QosPush!NullIsNoRow
    /\ QosPush!Description = Description
    /\ QosPush!MapRow = Qos!MapRow
    /\ QosPush!QueueRow = Qos!QueueRow
    /\ QosPush!ScheduleRow = Qos!ScheduleRow
<1>1. /\ QosPush!Low24 = Low24 /\ QosPush!MacSpace = MacSpace
  BY DEF Low24, QosPush!Low24, MacSpace, QosPush!MacSpace
<1>2. /\ QosPush!QosInfo = QosInfo /\ QosPush!QueueEntry = QueueEntry
      /\ QosPush!ScheduleEntry = ScheduleEntry /\ QosPush!MapEntry = MapEntry
      /\ QosPush!Port = Port /\ QosPush!FruInfo = FruInfo /\ QosPush!ReleaseLine = ReleaseLine
      /\ QosPush!Eeprom = Eeprom
  BY <1>1 DEF QosInfo, QosPush!QosInfo, QueueEntry, QosPush!QueueEntry,
         ScheduleEntry, QosPush!ScheduleEntry, MapEntry, QosPush!MapEntry,
         Port, QosPush!Port, FruInfo, QosPush!FruInfo, ReleaseLine, QosPush!ReleaseLine,
         Eeprom, QosPush!Eeprom, Tlv, QosPush!Tlv
<1>3. QosPush!Description = Description
  BY <1>2 DEF Description, QosPush!Description
<1>4. QosPush!DescriptionsAssumption
  BY <1>2, <1>3, DescriptionsAssumption DEF QosPush!DescriptionsAssumption
<1>5. /\ QosPush!MapRow = Qos!MapRow /\ QosPush!QueueRow = Qos!QueueRow
      /\ QosPush!ScheduleRow = Qos!ScheduleRow
  BY Zenon DEF QosPush!MapRow, Qos!MapRow, QosPush!QueueRow, Qos!QueueRow,
               QosPush!ScheduleRow, Qos!ScheduleRow, QosPush!MapEntry, Qos!MapEntry
<1>6. \A R : QosPush!Profile(R) = Qos!Profile(R)
  BY DEF QosPush!Profile, Qos!Profile
<1>7. QosPush!NullIsNoRow
  BY <1>5, <1>6, RowsAssumption DEF QosPush!NullIsNoRow, Qos!NullIsNoRow
<1>. QED  BY <1>3, <1>4, <1>5, <1>7

\* The operators of the two instances are the same.
LEMMA QosSameOperators ==
    /\ \A n, list : QosPush!MapRows(n, list) = Qos!MapRows(n, list)
    /\ QosPush!NewProfile = Qos!NewProfile
    /\ \A p, name : QosPush!GetOrCreate(p, name) = Qos!GetOrCreate(p, name)
    /\ \A p : QosPush!MarkHwDefault(p) = Qos!MarkHwDefault(p)
    /\ \A pc : QosPush!ProfileName(pc) = Qos!ProfileName(pc)
    /\ \A r, e : QosPush!QueueRowSet(r, e) = Qos!QueueRowSet(r, e)
    /\ \A r, e : QosPush!ScheduleRowSet(r, e) = Qos!ScheduleRowSet(r, e)
    /\ \A name : QosPush!ClearSchedule(name) = Qos!ClearSchedule(name)
<1>1. QosPush!NewProfile = Qos!NewProfile
  BY Zenon DEF QosPush!NewProfile, Qos!NewProfile
<1>2. \A p, name : QosPush!GetOrCreate(p, name) = Qos!GetOrCreate(p, name)
  BY <1>1, Zenon DEF QosPush!GetOrCreate, Qos!GetOrCreate
<1>3. \A name : QosPush!ClearSchedule(name) = Qos!ClearSchedule(name)
  BY <1>2, Zenon DEF QosPush!ClearSchedule, Qos!ClearSchedule
<1>4. \A n, list : QosPush!MapRows(n, list) = Qos!MapRows(n, list)
  BY Zenon DEF QosPush!MapRows, Qos!MapRows, QosPush!BlankMapRow, Qos!BlankMapRow
<1>5. \A p : QosPush!MarkHwDefault(p) = Qos!MarkHwDefault(p)
  BY Zenon DEF QosPush!MarkHwDefault, Qos!MarkHwDefault
<1>6. \A pc : QosPush!ProfileName(pc) = Qos!ProfileName(pc)
  BY Zenon DEF QosPush!ProfileName, Qos!ProfileName
<1>7. \A r, e : QosPush!QueueRowSet(r, e) = Qos!QueueRowSet(r, e)
  BY Zenon DEF QosPush!QueueRowSet, Qos!QueueRowSet, QosPush!BlankQueue, Qos!BlankQueue
<1>8. \A r, e : QosPush!ScheduleRowSet(r, e) = Qos!ScheduleRowSet(r, e)
  BY Zenon DEF QosPush!ScheduleRowSet, Qos!ScheduleRowSet, QosPush!BlankSchedule, Qos!BlankSchedule
<1>. QED  BY <1>1, <1>2, <1>3, <1>4, <1>5, <1>6, <1>7, <1>8

LEMMA QosSameSteps == Qos!Next => QosPush!Next
<1>1. Qos!InitTrust => QosPush!InitTrust
  BY DEF Qos!InitTrust, QosPush!InitTrust
<1>2. Qos!InitDscpMap => QosPush!InitDscpMap
  BY QosSameOperators DEF Qos!InitDscpMap, QosPush!InitDscpMap
<1>3. Qos!InitCosMap => QosPush!InitCosMap
  BY QosSameOperators DEF Qos!InitCosMap, QosPush!InitCosMap
<1>4. Qos!BeginQueueProfile => QosPush!BeginQueueProfile
  BY QosSameOperators DEF Qos!BeginQueueProfile, QosPush!BeginQueueProfile
<1>5. Qos!AddQueueEntry => QosPush!AddQueueEntry
  BY QosSameOperators, Zenon DEF Qos!AddQueueEntry, QosPush!AddQueueEntry
<1>6. Qos!UseQueueProfile => QosPush!UseQueueProfile
  BY QosSameOperators DEF Qos!UseQueueProfile, QosPush!UseQueueProfile
<1>7. Qos!MarkQueueProfile => QosPush!MarkQueueProfile
  BY QosSameOperators DEF Qos!MarkQueueProfile, QosPush!MarkQueueProfile
<1>8. Qos!BeginSchedule => QosPush!BeginSchedule
  BY QosSameOperators DEF Qos!BeginSchedule, QosPush!BeginSchedule
<1>9. Qos!AddScheduleEntry => QosPush!AddScheduleEntry
  BY QosSameOperators, Zenon DEF Qos!AddScheduleEntry, QosPush!AddScheduleEntry
<1>10. Qos!UseSchedule => QosPush!UseSchedule
  BY QosSameOperators DEF Qos!UseSchedule, QosPush!UseSchedule
<1>11. Qos!MarkSchedule => QosPush!MarkSchedule
  BY QosSameOperators DEF Qos!MarkSchedule, QosPush!MarkSchedule
<1>. QED
  BY <1>1, <1>2, <1>3, <1>4, <1>5, <1>6, <1>7, <1>8, <1>9, <1>10, <1>11
     DEF Qos!Next, QosPush!Next

LEMMA QosSamePart == Qos!Spec => QosPush!Spec
<1>1. Qos!Init => QosPush!Init
  BY DEF Qos!Init, QosPush!Init, Qos!Start, QosPush!Start
<1>2. [Qos!Next]_(Qos!vars) => [QosPush!Next]_(QosPush!vars)
  BY QosSameSteps DEF Qos!vars, QosPush!vars
<1>. QED  BY <1>1, <1>2, PTL DEF Qos!Spec, QosPush!Spec

\* The queues of the push have every priority described for them, and the last
\* description, however often and in whatever order the entries come.
THEOREM PushDescribesQueues == Spec => []QueuesAsDescribed
<1>1. QosPush!Spec => []QosPush!QueuesAsDescribed
  BY QosPush!QueuesAreDescribed, QosSameSets
<1>2. QosPush!QueuesAsDescribed => QueuesAsDescribed
  BY DEF QueuesAsDescribed, Qos!QueuesAsDescribed, QosPush!QueuesAsDescribed,
         Qos!ProfileNames, QosPush!ProfileNames, Qos!EntriesOf, QosPush!EntriesOf,
         Qos!Last, QosPush!Last
<1>. QED  BY <1>1, <1>2, QosSamePart, Composition, PTL

\* The queues of the push are scheduled as their last entries say, and weighted just
\* when they are not strict.
THEOREM PushDescribesSchedules == Spec => []SchedulesAsDescribed
<1>1. QosPush!Spec => []QosPush!SchedulesAsDescribed
  BY QosPush!SchedulesAreDescribed, QosSameSets
<1>2. QosPush!SchedulesAsDescribed => SchedulesAsDescribed
  BY DEF SchedulesAsDescribed, Qos!SchedulesAsDescribed, QosPush!SchedulesAsDescribed,
         Qos!ProfileNames, QosPush!ProfileNames, Qos!EntriesOf, QosPush!EntriesOf,
         Qos!Last, QosPush!Last
<1>. QED  BY <1>1, <1>2, QosSamePart, Composition, PTL

\* The factory defaults the push writes are the default profiles, with every row marked
\* as the hardware's, also when the description gives both one name.
THEOREM PushCopiesDefaults == Spec => []FactoryDefaultIsCopy
<1>1. QosPush!Spec => []QosPush!FactoryDefaultIsCopy
  BY QosPush!FactoryDefaultsAreCopies, QosSameSets
<1>2. QosPush!FactoryDefaultIsCopy => FactoryDefaultIsCopy
  BY QosSameOperators, Zenon DEF FactoryDefaultIsCopy, Qos!FactoryDefaultIsCopy, QosPush!FactoryDefaultIsCopy
<1>. QED  BY <1>1, <1>2, QosSamePart, Composition, PTL

-----------------------------------------------------------------------------
(***************************************************************************)
(* The types of the whole.                                                 *)
(***************************************************************************)

\* Each part means the same by a description.
LEMMA SameDescriptions ==
    /\ Fru!Description = Description /\ Split!Description = Description
    /\ Rel!Description = Description /\ Qos!Description = Description
<1>1. Fru!Description = Description
  BY DEF Description, Fru!Description, Eeprom, Fru!Eeprom, Tlv, Fru!Tlv, FruInfo, Fru!FruInfo,
         Port, Fru!Port, QosInfo, Fru!QosInfo, QueueEntry, Fru!QueueEntry,
         ScheduleEntry, Fru!ScheduleEntry, MapEntry, Fru!MapEntry, ReleaseLine, Fru!ReleaseLine,
         Low24, Fru!Low24, MacSpace, Fru!MacSpace
<1>2. Split!Description = Description
  BY DEF Description, Split!Description, Eeprom, Split!Eeprom, Tlv, Split!Tlv, FruInfo, Split!FruInfo,
         Port, Split!Port, QosInfo, Split!QosInfo, QueueEntry, Split!QueueEntry,
         ScheduleEntry, Split!ScheduleEntry, MapEntry, Split!MapEntry, ReleaseLine, Split!ReleaseLine,
         Low24, Split!Low24, MacSpace, Split!MacSpace
<1>3. Rel!Description = Description
  BY DEF Description, Rel!Description, Eeprom, Rel!Eeprom, Tlv, Rel!Tlv, FruInfo, Rel!FruInfo,
         Port, Rel!Port, QosInfo, Rel!QosInfo, QueueEntry, Rel!QueueEntry,
         ScheduleEntry, Rel!ScheduleEntry, MapEntry, Rel!MapEntry, ReleaseLine, Rel!ReleaseLine,
         Low24, Rel!Low24, MacSpace, Rel!MacSpace
<1>4. Qos!Description = Description
  BY DEF Description, Qos!Description, Eeprom, Qos!Eeprom, Tlv, Qos!Tlv, FruInfo, Qos!FruInfo,
         Port, Qos!Port, QosInfo, Qos!QosInfo, QueueEntry, Qos!QueueEntry,
         ScheduleEntry, Qos!ScheduleEntry, MapEntry, Qos!MapEntry, ReleaseLine, Qos!ReleaseLine,
         Low24, Qos!Low24, MacSpace, Qos!MacSpace
<1>. QED  BY <1>1, <1>2, <1>3, <1>4

\* The columns and rows that the push makes are of the types the schema gives them, the
\* counter of free addresses within its 16 bits and no address more than two beyond the
\* last, whatever the description.
THEOREM PushTypes == Spec => []TypeOK
<1>1. FruInv => Fru!TypeOK
  <2> SUFFICES ASSUME FruInv PROVE Fru!TypeOK
    OBVIOUS
  <2>1. desc \in Fru!Description
    BY DescriptionsAssumption, SameDescriptions DEF FruInv
  <2>2. fru.num_macs \in 0..Uint16 - 1 /\ fru.base \in 0..MacSpace - 1
        /\ Uint16 \in Nat \ {0} /\ MacSpace \in Nat \ {0}
    BY FruNumbers, Widths DEF FruInv
  <2>3. /\ num_free_macs \in 0..Uint16 - 1
        /\ nxt_mac_addr \in 0..MacSpace + 1 /\ mgmt_mac_addr \in 0..MacSpace + 1
        /\ system_mac_addr \in 0..MacSpace + 1
    <3>1. CASE fruPc \in {"fru", "rest", "tlvs", "macs", "exit"}
      BY <2>2, <3>1 DEF FruInv, PoolInv
    <3>2. CASE fruPc = "mgmt"
      BY <2>2, <3>2 DEF FruInv, PoolInv
    <3>3. CASE fruPc = "system"
      BY <2>2, <3>3 DEF FruInv, PoolInv
    <3>4. CASE fruPc = "ready"
      BY <2>2, <3>4 DEF FruInv, PoolInv
    <3>. QED  BY <3>1, <3>2, <3>3, <3>4 DEF FruInv
  <2>. QED  BY <2>1, <2>3, FruWidths DEF FruInv, NTlvs, Fru!TypeOK
<1>2. FruInv /\ SplitInv => Split!TypeOK
  <2> SUFFICES ASSUME FruInv, SplitInv PROVE Split!TypeOK
    OBVIOUS
  <2>1. desc \in Split!Description
    BY DescriptionsAssumption, SameDescriptions DEF FruInv
  <2>2. [n \in {} |-> NULL] \in [{} -> Split!Row]
    OBVIOUS
  <2>. QED  BY <2>1, <2>2 DEF SplitInv, Split!TypeOK
<1>3. RelInv => Rel!TypeOK
  BY DescriptionsAssumption, SameDescriptions DEF RelInv, Rel!TypeOK, Rel!Values
<1>4. QosPush!TypeOK => Qos!TypeOK
  <2>1. \A R : QosPush!Profile(R) = Qos!Profile(R)
    BY DEF QosPush!Profile, Qos!Profile
  <2>2. QosPush!Pcs = Qos!Pcs
    BY DEF QosPush!Pcs, Qos!Pcs
  <2>. QED
    BY <2>1, <2>2, QosSameSets, SameDescriptions DEF QosPush!TypeOK, Qos!TypeOK
<1>5. QosPush!Spec => []QosPush!TypeOK
  BY QosPush!TypeInvariant, QosSameSets
<1>6. FruInv /\ RowsInv => /\ sys \in SystemRow \cup {NULL}
                           /\ subsys \in SubsystemRow \cup {NULL}
                           /\ subsys # NULL => subsys.fru = fru /\ subsys.interfaces \in {Split!Names, {}}
                           /\ intfMac \in Macs \cup {NULL}
                           /\ phase \in {"fru", "ports", "system", "subsystem", "split", "daemons",
                                         "release", "qos", "commit", "exit"}
  <2> SUFFICES ASSUME FruInv, RowsInv
               PROVE  /\ sys \in SystemRow \cup {NULL}
                      /\ subsys \in SubsystemRow \cup {NULL}
                      /\ subsys # NULL => subsys.fru = fru /\ subsys.interfaces \in {Split!Names, {}}
                      /\ intfMac \in Macs \cup {NULL}
                      /\ phase \in {"fru", "ports", "system", "subsystem", "split", "daemons",
                                    "release", "qos", "commit", "exit"}
    OBVIOUS
  <2>1. phase \in {"fru", "ports", "system", "subsystem", "split", "daemons",
                   "release", "qos", "commit", "exit"}
    BY DEF RowsInv
  <2>2. CASE phase \in {"fru", "exit", "ports"}
    BY <2>2 DEF RowsInv
  <2>3. CASE phase \notin {"fru", "exit", "ports"}
    <3>1. fruPc = "ready"
      BY <2>3 DEF RowsInv
    <3>2. \A n \in 0..4 : SystemAt(n) \in SystemRow
      BY <3>1, SysIsRow
    <3>3. sys = NULL \/ \E n \in 0..4 : sys = SystemAt(n)
      BY <2>1, <2>3 DEF RowsInv, CommitInv
    <3>4. subsys = NULL \/ PartSubsystem \/ WholeSubsystem
      BY <2>1, <2>3 DEF RowsInv, CommitInv, SubsystemAdded
    <3>5. PartSubsystem \/ WholeSubsystem =>
             subsys.fru = fru /\ subsys.interfaces \in {Split!Names, {}}
      BY DEF PartSubsystem, WholeSubsystem
    <3>6. intfMac \in {IntfMac, NULL}
      BY <2>1, <2>3 DEF RowsInv, CommitInv, SubsystemAdded, WholeSubsystem
    <3>7. IntfMac \in Macs \cup {NULL}
      BY <3>1, PoolFacts DEF IntfMac, MacString, Macs
    <3>8. subsys \in SubsystemRow \cup {NULL}
      BY <3>1, <3>4, SubsysIsRow
    <3>. QED  BY <2>1, <3>2, <3>3, <3>4, <3>5, <3>6, <3>7, <3>8
  <2>. QED  BY <2>2, <2>3
<1>7. FruInv /\ SplitInv /\ RelInv /\ RowsInv /\ QosPush!TypeOK => TypeOK
  BY <1>1, <1>2, <1>3, <1>4, <1>6 DEF TypeOK
<1>. QED
  BY <1>5, <1>7, FruInvariant, SplitInvariant, ReleaseInvariant, RowsInvariant,
     QosSamePart, Composition, PTL
=============================================================================
