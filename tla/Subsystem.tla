----------------------------- MODULE Subsystem ------------------------------
(***************************************************************************)
(* The base subsystem: sysd_read_fru_eeprom() and sysd_process_eeprom() in *)
(* src/sysd_fru.c, sysd_cfg_yaml_get_fru_info() in src/sysd_cfg_yaml.c and *)
(* sysd_get_subsystem_info() in src/sysd.c, which takes two addresses from *)
(* the pool the FRU describes.                                             *)
(***************************************************************************)
EXTENDS HwDesc

VARIABLES
    desc,           \* the description read; constant
    fru,            \* fru_eeprom_t
    tlv,            \* number of the next TLV of the EEPROM
    num_free_macs, nxt_mac_addr, mgmt_mac_addr, system_mac_addr,    \* of subsystems[0]
    fruPc

macVars == <<num_free_macs, nxt_mac_addr, mgmt_mac_addr, system_mac_addr>>
vars    == <<desc, fru, tlv, macVars, fruPc>>

FruRow == [num_macs : 0..Uint16 - 1, base : 0..MacSpace - 1,
           text : [TextFields -> Texts \cup {NULL}]]

ZeroFru == [num_macs |-> 0, base |-> 0, text |-> [f \in TextFields |-> NULL]]

TypeOK ==
    /\ desc \in Description
    /\ fru \in FruRow
    /\ tlv \in 1..Len(desc.eeprom.tlvs) + 1
    /\ num_free_macs \in 0..Uint16 - 1
    /\ {nxt_mac_addr, mgmt_mac_addr, system_mac_addr} \subseteq 0..MacSpace + 1
    /\ fruPc \in {"fru", "rest", "tlvs", "macs", "mgmt", "system", "ready", "exit"}

Start ==
    /\ fru = ZeroFru
    /\ tlv = 1
    /\ num_free_macs = 0 /\ nxt_mac_addr = 0 /\ mgmt_mac_addr = 0 /\ system_mac_addr = 0
    /\ fruPc = "fru"

Init == desc \in Descriptions /\ Start

-----------------------------------------------------------------------------
\* With a fru.yaml.  rc is a bool, so that the -1 of a missing fru_info passes for
\* success and the FRU stays zero.
ReadFruYaml ==
    /\ fruPc = "fru" /\ desc.fru_yaml
    /\ \/ desc.fru_info = NULL /\ UNCHANGED fru
       \/ /\ desc.fru_info # NULL
          /\ \E low \in 0..Low24 - 1 :
                fru' = [num_macs |-> desc.fru_info.num_macs % Uint16,
                        base     |-> desc.fru_info.oui * Low24 + low,
                        text     |-> desc.fru_info.text]
    /\ fruPc' = "macs"
    /\ UNCHANGED <<desc, tlv, macVars>>

\* The header of the EEPROM; the read may fail.
ReadHeader ==
    /\ fruPc = "fru" /\ ~desc.fru_yaml
    /\ fruPc' \in IF desc.eeprom.version > 1 THEN {"exit"} ELSE {"rest", "exit"}
    /\ UNCHANGED <<desc, fru, tlv, macVars>>

\* The rest of it; the calloc() or the read may fail.
ReadRest ==
    /\ fruPc = "rest"
    /\ fruPc' \in {"tlvs", "exit"}
    /\ UNCHANGED <<desc, fru, tlv, macVars>>

\* Faulty variant: the CRC covers what stands before it, whatever follows.
CrcMatchesPrefix == desc.eeprom.intact

\* The CRC is computed over total_length and the header less the CRC's own value,
\* whatever the place of the TLV: it is the writer's only in the last one.
CrcMatches == desc.eeprom.intact /\ tlv = Len(desc.eeprom.tlvs)

\* The field of fru_eeprom_t a TLV sets; a vendor extension and a CRC set none.
FieldSet(f, t) ==
    CASE t.code = "num_macs" -> [f EXCEPT !.num_macs = t.value[1] * Byte + t.value[2]]
      [] t.code = "base_mac_address" -> [f EXCEPT !.base = t.value]
      [] t.code \in TextFields -> [f EXCEPT !.text[t.code] = t.value]
      [] OTHER -> f

Rejected(t) == t.code = "illegal" \/ (t.code = "crc" /\ ~CrcMatches)

ProcessTlv ==
    /\ fruPc = "tlvs" /\ tlv <= Len(desc.eeprom.tlvs)
    /\ LET t == desc.eeprom.tlvs[tlv] IN
       /\ ~Rejected(t)
       /\ fru' = FieldSet(fru, t)
    /\ tlv' = tlv + 1
    /\ UNCHANGED <<desc, macVars, fruPc>>

RejectTlv ==
    /\ fruPc = "tlvs" /\ tlv <= Len(desc.eeprom.tlvs)
    /\ Rejected(desc.eeprom.tlvs[tlv])
    /\ fruPc' = "exit"
    /\ UNCHANGED <<desc, fru, tlv, macVars>>

EndTlvs ==
    /\ fruPc = "tlvs" /\ tlv > Len(desc.eeprom.tlvs)
    /\ fruPc' = "macs"
    /\ UNCHANGED <<desc, fru, tlv, macVars>>

-----------------------------------------------------------------------------
BeginMacs ==
    /\ fruPc = "macs"
    /\ num_free_macs' = fru.num_macs
    /\ nxt_mac_addr' = fru.base
    /\ fruPc' = "mgmt"
    /\ UNCHANGED <<desc, fru, tlv, mgmt_mac_addr, system_mac_addr>>

\* Faulty variant: an empty pool is not noticed.
TakeMacUnchecked(mac, mac_new) ==
    /\ mac_new = nxt_mac_addr
    /\ num_free_macs' = num_free_macs - 1
    /\ nxt_mac_addr' = nxt_mac_addr + 1

\* Faulty variant: the pool's count is not decreased.
TakeMacUncounted(mac, mac_new) ==
    IF num_free_macs > 0
    THEN /\ mac_new = nxt_mac_addr
         /\ nxt_mac_addr' = nxt_mac_addr + 1
         /\ UNCHANGED num_free_macs
    ELSE /\ mac_new = mac
         /\ UNCHANGED <<num_free_macs, nxt_mac_addr>>

\* Take the next address of the pool, if there is one, for mac.
TakeMac(mac, mac_new) ==
    IF num_free_macs > 0
    THEN /\ mac_new = nxt_mac_addr
         /\ num_free_macs' = num_free_macs - 1
         /\ nxt_mac_addr' = nxt_mac_addr + 1
    ELSE /\ mac_new = mac
         /\ UNCHANGED <<num_free_macs, nxt_mac_addr>>

SaveMgmtMac ==
    /\ fruPc = "mgmt"
    /\ TakeMac(mgmt_mac_addr, mgmt_mac_addr')
    /\ fruPc' = "system"
    /\ UNCHANGED <<desc, fru, tlv, system_mac_addr>>

SaveSystemMac ==
    /\ fruPc = "system"
    /\ TakeMac(system_mac_addr, system_mac_addr')
    /\ fruPc' = "ready"
    /\ UNCHANGED <<desc, fru, tlv, mgmt_mac_addr>>

Next ==
    \/ ReadFruYaml \/ ReadHeader \/ ReadRest
    \/ ProcessTlv \/ RejectTlv \/ EndTlvs
    \/ BeginMacs \/ SaveMgmtMac \/ SaveSystemMac

Spec == Init /\ [][Next]_vars

-----------------------------------------------------------------------------
(***************************************************************************)
(* Properties.                                                             *)
(***************************************************************************)

TlvsOf(c)  == {n \in 1..Len(desc.eeprom.tlvs) : desc.eeprom.tlvs[n].code = c}
LastTlv(c) == {n \in TlvsOf(c) : \A m \in TlvsOf(c) : m <= n}
Value(n)   == desc.eeprom.tlvs[n].value

\* An EEPROM that is accepted has been read to the end and means what it says: every
\* field is the one its last TLV gives, no TLV is illegal, and when there is a CRC the
\* contents are what the writer stored, all of them covered by it.
AcceptedMeansIntact ==
    fruPc = "ready" /\ ~desc.fru_yaml =>
        /\ desc.eeprom.version <= 1
        /\ TlvsOf("num_macs") = {} => fru.num_macs = 0
        /\ \A n \in LastTlv("num_macs") : fru.num_macs = Value(n)[1] * Byte + Value(n)[2]
        /\ TlvsOf("base_mac_address") = {} => fru.base = 0
        /\ \A n \in LastTlv("base_mac_address") : fru.base = Value(n)
        /\ \A c \in TextFields :
              /\ TlvsOf(c) = {} => fru.text[c] = NULL
              /\ \A n \in LastTlv(c) : fru.text[c] = Value(n)
        /\ \A n \in 1..Len(desc.eeprom.tlvs) :
              /\ desc.eeprom.tlvs[n].code # "illegal"
              /\ desc.eeprom.tlvs[n].code = "crc" =>
                    desc.eeprom.intact /\ n = Len(desc.eeprom.tlvs)
=============================================================================
