------------------------- MODULE PackageInfoProofs -------------------------
(***************************************************************************)
(* Proofs about PackageInfo, for every size of the file and of a           *)
(* transaction: the machine never breaks the transaction discipline, and   *)
(* inserts each entry once and in order.                                   *)
(*                                                                         *)
(* NeverAborts is not inductive.  What opens and closes the transaction is *)
(* the counter, what writes into it is the key; KeyInv says how far the    *)
(* entry is, TxnInv ties counter and transaction to that, NamesInv says    *)
(* which rows there are.                                                   *)
(***************************************************************************)
EXTENDS PackageInfo, SequenceTheorems, TLAPS

\* The row of the entry is inserted, the entry still goes on.
MidEntry == entry > 0 /\ given["PKG"] # "absent" /\ given["TYPE"] = "absent"

TypeInv ==
    /\ entry \in Nat
    /\ given \in [Keys -> Texts]
    /\ current_state \in Keys \cup {"VALUE"}
    /\ pending \in BOOLEAN
    /\ record_count \in Nat
    /\ open \in BOOLEAN
    /\ txn \in Seq(Row)
    /\ table \in Seq(Row)
    /\ refused \in Seq(Row)
    /\ pc \in {"read", "done", "aborted"}

KeyInv ==
    /\ entry <= MaxEntries
    /\ entry = 0 => given = NothingGiven /\ ~pending
    /\ pending /\ current_state = "PKG" => entry > 0 /\ given = NothingGiven
    /\ pending /\ current_state # "PKG" => MidEntry
    /\ ~pending /\ entry > 0 => given["PKG"] # "absent"
    /\ given["PKG"] = "absent" => given["TYPE"] = "absent"

TxnInv ==
    /\ pc # "aborted"
    /\ record_count = IF BetweenEntries THEN entry ELSE entry - 1
    /\ pc = "read" =>
          /\ MidEntry => open
          /\ ~MidEntry => (open <=> ~AtBoundary(record_count))
          /\ open <=> txn # <<>>
    /\ pc = "done" => txn = <<>>

NamesInv ==
    refused = <<>> =>
        /\ Len(table) + Len(txn) = Inserted
        /\ \A i \in 1..Len(table) : table[i].name = i
        /\ \A i \in 1..Len(txn) : txn[i].name = Len(table) + i

Inv == TypeInv /\ KeyInv /\ TxnInv /\ NamesInv

-----------------------------------------------------------------------------
\* Sequences as the actions change them.

LEMMA ReplaceLast ==
    ASSUME NEW s \in Seq(Row), s # <<>>, NEW r \in Row
    PROVE  /\ [s EXCEPT ![Len(s)] = r] \in Seq(Row)
           /\ Len([s EXCEPT ![Len(s)] = r]) = Len(s)
           /\ [s EXCEPT ![Len(s)] = r] # <<>>
           /\ r.name = s[Len(s)].name =>
                 \A i \in 1..Len(s) : [s EXCEPT ![Len(s)] = r][i].name = s[i].name
  OBVIOUS

LEMMA EmptyRows == <<>> \in Seq(Row)
  BY EmptySeq

LEMMA ConcatRows ==
    ASSUME NEW s \in Seq(Row), NEW t \in Seq(Row)
    PROVE  s \o t \in Seq(Row) /\ Len(s \o t) = Len(s) + Len(t)
  BY ConcatProperties

LEMMA AppendRow ==
    ASSUME NEW s \in Seq(Row), NEW r \in Row
    PROVE  /\ Append(s, r) \in Seq(Row)
           /\ Append(s, r) # <<>>
           /\ Len(Append(s, r)) = Len(s) + 1
           /\ \A i \in 1..Len(s) : Append(s, r)[i] = s[i]
           /\ Append(s, r)[Len(s) + 1] = r
  BY AppendProperties

LEMMA LastIsRow ==
    ASSUME NEW s \in Seq(Row), s # <<>>
    PROVE  s[Len(s)] \in Row /\ Len(s) \in Nat /\ Len(s) > 0
  OBVIOUS

LEMMA NewRowType == ASSUME NEW n \in Nat PROVE NewRow(n) \in Row /\ NewRow(n).name = n
  BY DEF NewRow, Row

LEMMA BoundaryAtZero == AtBoundary(0)
  BY PackageAssumption DEF AtBoundary

\* A commit with the rows of the transaction keeps what NamesInv says.
LEMMA CommitKeeps ==
    ASSUME TypeInv, NEW new \in Seq(Row), new # <<>>,
           Len(new) = Len(txn),
           \A i \in 1..Len(txn) : new[i].name = txn[i].name,
           CommitRows(new)
    PROVE  /\ open' = FALSE /\ txn' = <<>> /\ table' \in Seq(Row) /\ refused' \in Seq(Row)
           /\ refused' = <<>> =>
                 /\ refused = <<>>
                 /\ Len(table') = Len(table) + Len(txn)
                 /\ \A i \in 1..Len(table) : table'[i] = table[i]
                 /\ \A i \in 1..Len(txn) : table'[Len(table) + i].name = txn[i].name
<1>1. open' = FALSE /\ txn' = <<>> /\ table \in Seq(Row) /\ refused \in Seq(Row)
  BY DEF CommitRows, TypeInv
<1>2. CASE table' = table \o new /\ UNCHANGED refused
  <2>1. table' \in Seq(Row) /\ Len(table') = Len(table) + Len(txn)
    BY <1>1, <1>2, ConcatRows
  <2>2. \A i \in 1..Len(table) : table'[i] = table[i]
    BY <1>1, <1>2
  <2>3. \A i \in 1..Len(txn) : table'[Len(table) + i].name = txn[i].name
    <3> SUFFICES ASSUME NEW i \in 1..Len(txn) PROVE table'[Len(table) + i].name = txn[i].name
      OBVIOUS
    <3>1. table'[Len(table) + i] = new[i]
      BY <1>1, <1>2
    <3> QED
      BY <3>1
  <2> QED
    BY <1>1, <1>2, <2>1, <2>2, <2>3
<1>3. CASE refused' = refused \o new /\ UNCHANGED table
  <2>1. refused' \in Seq(Row) /\ refused' # <<>>
    BY <1>1, <1>3
  <2> QED
    BY <1>1, <1>3, <2>1
<1> QED
  BY <1>2, <1>3 DEF CommitRows

-----------------------------------------------------------------------------
LEMMA InitEstablishes == Init => Inv
<1> SUFFICES ASSUME Init PROVE Inv
  OBVIOUS
<1>1. TypeInv
  BY EmptySeq DEF Init, TypeInv, NothingGiven, Keys, Texts
<1>4. NamesInv
  BY DEF Init, NamesInv, Inserted
<1>2. KeyInv
  BY PackageAssumption DEF Init, KeyInv, MidEntry, NothingGiven, Keys
<1>3. TxnInv
  BY BoundaryAtZero DEF Init, TxnInv, MidEntry, BetweenEntries
<1> QED
  BY <1>1, <1>2, <1>3, <1>4 DEF Inv

\* The file goes on; the machine only takes note of the key.
LEMMA ReadPkgKeeps == Inv /\ ReadPkg => Inv'
<1> SUFFICES ASSUME Inv, ReadPkg PROVE Inv'
  OBVIOUS
<1>1. TypeInv'
  BY DEF Inv, ReadPkg, TypeInv, NothingGiven, Keys, Texts, rows
<1>2. KeyInv'
  BY PackageAssumption DEF Inv, ReadPkg, TypeInv, KeyInv, NothingGiven, Keys, Texts, MidEntry
<1>3. ~MidEntry /\ ~MidEntry' /\ BetweenEntries /\ ~BetweenEntries'
  BY DEF Inv, ReadPkg, MidEntry, BetweenEntries, TypeInv, NothingGiven, Keys
<1>4. TxnInv'
  BY <1>3 DEF Inv, ReadPkg, TxnInv, TypeInv, rows
<1>5. Inserted' = Inserted
  BY DEF Inv, ReadPkg, Inserted, KeyInv, TypeInv, NothingGiven, Keys
<1>6. NamesInv'
  BY <1>5 DEF Inv, ReadPkg, NamesInv, rows
<1> QED
  BY <1>1, <1>2, <1>4, <1>6 DEF Inv

LEMMA ReadKeyKeeps ==
    ASSUME NEW k \in Keys \ {"PKG"}
    PROVE  Inv /\ ReadKey(k) => Inv'
<1> SUFFICES ASSUME Inv, ReadKey(k) PROVE Inv'
  OBVIOUS
<1>1. MidEntry /\ MidEntry'
  BY DEF Inv, ReadKey, MidEntry, BetweenEntries, KeyInv, TypeInv
<1>2. TypeInv' /\ KeyInv'
  BY <1>1 DEF Inv, ReadKey, TypeInv, KeyInv, rows, MidEntry
<1>3. TxnInv' /\ NamesInv'
  BY <1>1 DEF Inv, ReadKey, TxnInv, NamesInv, Inserted, BetweenEntries, rows, MidEntry
<1> QED
  BY <1>2, <1>3 DEF Inv

\* PKG: between two entries the transaction is open exactly off a boundary.
LEMMA PkgValueKeeps == Inv /\ PkgValue => Inv'
<1> SUFFICES ASSUME Inv, PkgValue PROVE Inv'
  OBVIOUS
<1>1. /\ pc = "read" /\ entry \in Nat /\ entry > 0 /\ given = NothingGiven /\ ~MidEntry
      /\ entry' = entry /\ pending' = FALSE /\ given' = [given EXCEPT !["PKG"] = "text"]
  BY DEF Inv, PkgValue, ReadValue, KeyInv, TypeInv, MidEntry, NothingGiven, Keys
<1>2. AtBoundary(record_count) # open
  BY <1>1 DEF Inv, TxnInv, TypeInv, AtBoundary
<1>3. /\ open' = TRUE /\ txn' = Append(txn, NewRow(entry))
      /\ UNCHANGED <<record_count, table, refused, pc>>
  BY <1>2 DEF PkgValue
<1>4. /\ txn' \in Seq(Row) /\ txn' # <<>> /\ Len(txn') = Len(txn) + 1
      /\ \A i \in 1..Len(txn) : txn'[i] = txn[i]
      /\ txn'[Len(txn) + 1].name = entry
  <2>1. NewRow(entry) \in Row /\ NewRow(entry).name = entry
    BY <1>1, NewRowType
  <2> QED
    BY <1>3, <2>1, AppendRow DEF Inv, TypeInv
<1>5. TypeInv' /\ KeyInv'
  BY <1>1, <1>3, <1>4
     DEF Inv, PkgValue, ReadValue, TypeInv, KeyInv, MidEntry, NothingGiven, Keys, Texts
<1>6. TxnInv'
  BY <1>1, <1>3, <1>4
     DEF Inv, TxnInv, TypeInv, MidEntry, BetweenEntries, NothingGiven, Keys
<1>7. Inserted = entry - 1 /\ Inserted' = entry
  BY <1>1 DEF Inserted, NothingGiven, Keys
<1>8. NamesInv'
  <2> SUFFICES ASSUME refused = <<>> PROVE NamesInv'
    BY <1>3 DEF NamesInv
  <2>1. /\ Len(table) \in Nat /\ Len(txn) \in Nat /\ Len(table) + Len(txn) = entry - 1
        /\ table' = table
        /\ \A i \in 1..Len(table) : table[i].name = i
        /\ \A i \in 1..Len(txn) : txn[i].name = Len(table) + i
    BY <1>3, <1>7 DEF Inv, NamesInv, TypeInv
  <2>2. ASSUME NEW i \in 1..Len(txn') PROVE txn'[i].name = Len(table) + i
    <3>1. CASE i \in 1..Len(txn)
      BY <1>4, <2>1, <3>1
    <3>2. CASE i = Len(txn) + 1
      <4>1. txn'[i].name = entry
        BY <1>4, <3>2
      <4>2. Len(table) + i = entry
        BY <1>1, <2>1, <3>2
      <4> QED
        BY <4>1, <4>2
    <3> QED
      BY <1>4, <2>1, <3>1, <3>2
  <2> QED
    BY <1>1, <1>4, <1>7, <2>1, <2>2 DEF NamesInv
<1> QED
  BY <1>5, <1>6, <1>8 DEF Inv

\* A value after PKG and before TYPE leaves the phase of the entry as it is.
LEMMA PhaseStays ==
    ASSUME Inv, NEW k \in {"PV", "SRCREV", "SRC_URL"}, NEW text \in {"text", "INVALID"},
           ReadValue(k, text)
    PROVE  /\ pc = "read" /\ MidEntry /\ MidEntry' /\ open /\ txn # <<>>
           /\ KeyInv' /\ Inserted' = Inserted /\ BetweenEntries' = BetweenEntries
           /\ entry' = entry /\ given' \in [Keys -> Texts] /\ pending' \in BOOLEAN
           /\ current_state' = current_state
  BY DEF Inv, ReadValue, KeyInv, TypeInv, TxnInv, MidEntry, Inserted, BetweenEntries,
         NothingGiven, Keys, Texts

\* A column other than name is written.
LEMMA WriteKeeps ==
    ASSUME Inv, NEW k \in {"PV", "SRCREV", "SRC_URL"}, NEW text \in {"text", "INVALID"},
           ReadValue(k, text), NEW r \in Row, r.name = Last.name, Write(r)
    PROVE  Inv'
<1>0. /\ pc = "read" /\ MidEntry /\ MidEntry' /\ open /\ txn # <<>>
      /\ KeyInv' /\ Inserted' = Inserted /\ BetweenEntries' = BetweenEntries
      /\ entry' = entry
  BY PhaseStays
<1>1. /\ txn' = [txn EXCEPT ![Len(txn)] = r]
      /\ UNCHANGED <<record_count, open, table, refused, pc>>
  BY PhaseStays DEF Write
<1>2. /\ txn' \in Seq(Row) /\ Len(txn') = Len(txn) /\ txn' # <<>>
      /\ \A i \in 1..Len(txn) : txn'[i].name = txn[i].name
  BY <1>1, PhaseStays, ReplaceLast DEF Inv, TypeInv, Last
<1>3. TypeInv'
  BY <1>1, <1>2, PhaseStays DEF Inv, TypeInv
<1>4. TxnInv'
  BY <1>0, <1>1, <1>2 DEF Inv, TxnInv
<1>5. NamesInv'
  BY <1>1, <1>2, PhaseStays DEF Inv, NamesInv
<1> QED
  BY <1>3, <1>4, <1>5, PhaseStays DEF Inv

LEMMA PvValueKeeps == Inv /\ PvValue => Inv'
<1> SUFFICES ASSUME Inv, PvValue PROVE Inv'
  OBVIOUS
<1> DEFINE r == [Last EXCEPT !.version = entry, !.by = "PV"]
<1>1. ReadValue("PV", "text") /\ Write(r)
  BY DEF PvValue
<1>2. Last \in Row /\ entry \in Nat
  BY <1>1, PhaseStays, LastIsRow DEF Inv, TypeInv, Last
<1>3. r \in Row /\ r.name = Last.name
  BY <1>2 DEF Row
<1> QED
  BY <1>1, <1>3, WriteKeeps

LEMMA SrcrevValueKeeps == Inv /\ SrcrevValue => Inv'
<1> SUFFICES ASSUME Inv, SrcrevValue PROVE Inv'
  OBVIOUS
<1> DEFINE r == [Last EXCEPT !.version = entry, !.by = "SRCREV"]
<1>1. CASE ReadValue("SRCREV", "text") /\ Write(r)
  <2>1. Last \in Row /\ entry \in Nat
    BY <1>1, PhaseStays, LastIsRow DEF Inv, TypeInv, Last
  <2>2. r \in Row /\ r.name = Last.name
    BY <2>1 DEF Row
  <2> QED
    BY <1>1, <2>2, WriteKeeps
<1>2. CASE ReadValue("SRCREV", "INVALID") /\ UNCHANGED <<record_count, rows, pc>>
  <2>1. TypeInv' /\ KeyInv'
    BY <1>2, PhaseStays DEF Inv, TypeInv, rows
  <2>2. TxnInv' /\ NamesInv'
    BY <1>2, PhaseStays DEF Inv, TxnInv, NamesInv, rows
  <2> QED
    BY <2>1, <2>2 DEF Inv
<1> QED
  BY <1>1, <1>2 DEF SrcrevValue

LEMMA SrcUrlValueKeeps == Inv /\ SrcUrlValue => Inv'
<1> SUFFICES ASSUME Inv, SrcUrlValue PROVE Inv'
  OBVIOUS
<1> DEFINE r == [Last EXCEPT !.src_url = entry]
<1>1. ReadValue("SRC_URL", "text") /\ Write(r)
  BY DEF SrcUrlValue
<1>2. Last \in Row /\ entry \in Nat
  BY <1>1, PhaseStays, LastIsRow DEF Inv, TypeInv, Last
<1>3. r \in Row /\ r.name = Last.name
  BY <1>2 DEF Row
<1> QED
  BY <1>1, <1>3, WriteKeeps

\* TYPE: the counter moves with the entry, the transaction closes at a boundary.
LEMMA TypeValueKeeps == Inv /\ TypeValue => Inv'
<1> SUFFICES ASSUME Inv, TypeValue PROVE Inv'
  OBVIOUS
<1> DEFINE new == [txn EXCEPT ![Len(txn)].src_type = entry]
           r   == [Last EXCEPT !.src_type = entry]
<1>1. /\ pc = "read" /\ MidEntry /\ open /\ txn # <<>> /\ entry \in Nat /\ entry > 0
      /\ entry' = entry /\ pending' = FALSE /\ current_state' = current_state
      /\ given' = [given EXCEPT !["TYPE"] = "text"]
  BY DEF Inv, TypeValue, ReadValue, KeyInv, TypeInv, TxnInv, MidEntry
<1>2. Last \in Row /\ r \in Row /\ r.name = Last.name
  <2>1. Last \in Row
    BY <1>1, LastIsRow DEF Inv, TypeInv, Last
  <2> QED
    BY <1>1, <2>1 DEF Row
<1>3. /\ new \in Seq(Row) /\ Len(new) = Len(txn) /\ new # <<>>
      /\ \A i \in 1..Len(txn) : new[i].name = txn[i].name
  <2>1. new = [txn EXCEPT ![Len(txn)] = r]
    BY DEF Last
  <2> QED
    BY <1>1, <1>2, <2>1, ReplaceLast DEF Inv, TypeInv, Last
<1> HIDE DEF new, r
<1>4. /\ record_count' = record_count + 1 /\ pc' = pc
      /\ IF AtBoundary(record_count')
         THEN CommitRows(new)
         ELSE txn' = new /\ UNCHANGED <<open, table, refused>>
  BY <1>1 DEF TypeValue, new
<1>5. /\ ~MidEntry' /\ BetweenEntries' /\ ~BetweenEntries /\ record_count = entry - 1
      /\ Inserted' = Inserted /\ given' \in [Keys -> Texts]
  BY <1>1
     DEF Inv, TypeInv, TxnInv, MidEntry, BetweenEntries, Inserted, Keys, Texts
<1>6. KeyInv'
  BY <1>1, <1>5 DEF Inv, KeyInv, TypeInv, MidEntry, Keys, NothingGiven
<1>7. CASE AtBoundary(record_count')
  <2>1. /\ open' = FALSE /\ txn' = <<>> /\ table' \in Seq(Row) /\ refused' \in Seq(Row)
        /\ refused' = <<>> =>
              /\ refused = <<>>
              /\ Len(table') = Len(table) + Len(txn)
              /\ \A i \in 1..Len(table) : table'[i] = table[i]
              /\ \A i \in 1..Len(txn) : table'[Len(table) + i].name = txn[i].name
    BY <1>3, <1>4, <1>7, CommitKeeps DEF Inv
  <2>2. TypeInv'
    <3>1. /\ entry' \in Nat /\ record_count' \in Nat /\ pc' \in {"read", "done", "aborted"}
          /\ current_state' \in Keys \cup {"VALUE"}
      BY <1>1, <1>4 DEF Inv, TypeInv
    <3>2. /\ pending' \in BOOLEAN /\ open' \in BOOLEAN
          /\ txn' \in Seq(Row) /\ table' \in Seq(Row) /\ refused' \in Seq(Row)
      BY <1>1, <2>1, EmptyRows DEF Inv, TypeInv
    <3> QED
      BY <1>5, <3>1, <3>2 DEF TypeInv
  <2>3. TxnInv'
    BY <1>1, <1>4, <1>5, <1>7, <2>1 DEF TxnInv
  <2>4. NamesInv'
    <3> SUFFICES ASSUME refused' = <<>> PROVE NamesInv'
      BY DEF NamesInv
    <3>1. Len(table) \in Nat /\ Len(txn) \in Nat
      BY DEF Inv, TypeInv
    <3>2. \A i \in 1..Len(table') : table'[i].name = i
      <4> SUFFICES ASSUME NEW i \in 1..Len(table') PROVE table'[i].name = i
        OBVIOUS
      <4>1. CASE i \in 1..Len(table)
        BY <2>1, <4>1 DEF Inv, NamesInv
      <4>2. CASE i \notin 1..Len(table)
        <5>1. i - Len(table) \in 1..Len(txn) /\ i = Len(table) + (i - Len(table))
          BY <2>1, <3>1, <4>2
        <5> QED
          BY <2>1, <3>1, <5>1 DEF Inv, NamesInv
      <4> QED
        BY <4>1, <4>2
    <3> QED
      BY <1>5, <2>1, <3>1, <3>2 DEF Inv, NamesInv
  <2> QED
    BY <1>6, <2>2, <2>3, <2>4 DEF Inv
<1>8. CASE ~AtBoundary(record_count')
  <2>1. txn' = new /\ UNCHANGED <<open, table, refused>>
    BY <1>4, <1>8
  <2>2. TypeInv'
    <3>1. /\ entry' \in Nat /\ record_count' \in Nat /\ pc' \in {"read", "done", "aborted"}
          /\ current_state' \in Keys \cup {"VALUE"}
      BY <1>1, <1>4 DEF Inv, TypeInv
    <3>2. /\ pending' \in BOOLEAN /\ open' \in BOOLEAN
          /\ txn' \in Seq(Row) /\ table' \in Seq(Row) /\ refused' \in Seq(Row)
      BY <1>1, <1>3, <2>1 DEF Inv, TypeInv
    <3> QED
      BY <1>5, <3>1, <3>2 DEF TypeInv
  <2>3. TxnInv'
    BY <1>1, <1>3, <1>4, <1>5, <1>8, <2>1 DEF TxnInv
  <2>4. NamesInv'
    BY <1>3, <1>5, <2>1 DEF Inv, NamesInv
  <2> QED
    BY <1>6, <2>2, <2>3, <2>4 DEF Inv
<1> QED
  BY <1>7, <1>8

\* The end of the file.
LEMMA FinishKeeps == Inv /\ Finish => Inv'
<1> SUFFICES ASSUME Inv, Finish PROVE Inv'
  OBVIOUS
<1>1. UNCHANGED <<entry, given, current_state, pending, record_count>> /\ pc' = "done" /\ pc = "read"
  BY DEF Finish, file
<1>2. KeyInv' /\ Inserted' = Inserted /\ BetweenEntries' = BetweenEntries
  BY <1>1 DEF Inv, KeyInv, Inserted, BetweenEntries, MidEntry
<1>3. CASE open
  <2>1. CommitRows(txn) /\ txn # <<>> /\ txn \in Seq(Row)
    BY <1>1, <1>3 DEF Inv, Finish, TxnInv, TypeInv
  <2>2. /\ open' = FALSE /\ txn' = <<>> /\ table' \in Seq(Row) /\ refused' \in Seq(Row)
        /\ refused' = <<>> =>
              /\ refused = <<>>
              /\ Len(table') = Len(table) + Len(txn)
              /\ \A i \in 1..Len(table) : table'[i] = table[i]
              /\ \A i \in 1..Len(txn) : table'[Len(table) + i].name = txn[i].name
    BY <2>1, CommitKeeps DEF Inv
  <2>3. TypeInv' /\ TxnInv'
    <3>1. TypeInv'
      BY <1>1, <2>2, EmptyRows DEF Inv, TypeInv
    <3>2. TxnInv'
      BY <1>1, <1>2, <2>2 DEF Inv, TxnInv
    <3> QED
      BY <3>1, <3>2
  <2>4. NamesInv'
    <3> SUFFICES ASSUME refused' = <<>> PROVE NamesInv'
      BY DEF NamesInv
    <3>1. Len(table) \in Nat /\ Len(txn) \in Nat
      BY DEF Inv, TypeInv
    <3>2. \A i \in 1..Len(table') : table'[i].name = i
      <4> SUFFICES ASSUME NEW i \in 1..Len(table') PROVE table'[i].name = i
        OBVIOUS
      <4>1. CASE i \in 1..Len(table)
        BY <2>2, <4>1 DEF Inv, NamesInv
      <4>2. CASE i \notin 1..Len(table)
        <5>1. i - Len(table) \in 1..Len(txn) /\ i = Len(table) + (i - Len(table))
          BY <2>2, <3>1, <4>2
        <5> QED
          BY <2>2, <3>1, <5>1 DEF Inv, NamesInv
      <4> QED
        BY <4>1, <4>2
    <3> QED
      BY <1>2, <2>2, <3>1, <3>2 DEF Inv, NamesInv
  <2> QED
    BY <1>2, <2>3, <2>4 DEF Inv
<1>4. CASE ~open
  <2>1. UNCHANGED <<open, txn, table, refused>> /\ txn = <<>>
    BY <1>1, <1>4 DEF Inv, Finish, TxnInv, rows
  <2> QED
    BY <1>1, <1>2, <2>1 DEF Inv, TypeInv, TxnInv, NamesInv
<1> QED
  BY <1>3, <1>4

LEMMA StutterKeeps == Inv /\ UNCHANGED vars => Inv'
  BY DEF Inv, TypeInv, KeyInv, TxnInv, NamesInv, Inserted, MidEntry, BetweenEntries,
         vars, file, rows

\* The invariant holds in every reachable state of read_pkg_info.
THEOREM Invariance == Spec => []Inv
<1>1. Inv /\ [Next]_vars => Inv'
  BY ReadPkgKeeps, ReadKeyKeeps, PkgValueKeeps, PvValueKeeps, SrcrevValueKeeps,
     SrcUrlValueKeeps, TypeValueKeeps, FinishKeeps, StutterKeeps DEF Next
<1> QED
  BY InitEstablishes, <1>1, PTL DEF Spec

-----------------------------------------------------------------------------
\* sysd_add_package_info() keeps the types of its variables and the counter within the
\* entries of the file.
THEOREM PackageTypes == Spec => []TypeOK
<1>1. Inv => TypeOK
  BY PackageAssumption DEF Inv, TypeInv, KeyInv, TxnInv, TypeOK, BetweenEntries
<1> QED
  BY Invariance, <1>1, PTL

\* The event machine never creates a transaction while one is open and never writes a
\* row without one.
THEOREM TransactionDiscipline == Spec => []NeverAborts
<1>1. Inv => NeverAborts
  BY DEF Inv, TxnInv, NeverAborts
<1> QED
  BY Invariance, <1>1, PTL

\* While commits succeed, Package_Info and the open transaction hold every entry read,
\* once and in order, and in the end the table holds them all.
THEOREM EveryEntryInserted == Spec => []EveryEntryOnce
<1>1. Inv => EveryEntryOnce
  <2> SUFFICES ASSUME Inv, refused = <<>>
               PROVE  /\ Names(table \o txn) = [i \in 1..Inserted |-> i]
                      /\ pc = "done" => txn = <<>>
    BY DEF EveryEntryOnce
  <2>1. table \in Seq(Row) /\ txn \in Seq(Row)
    BY DEF Inv, TypeInv
  <2>2. Len(table \o txn) = Inserted
    BY <2>1 DEF Inv, NamesInv
  <2>3. ASSUME NEW i \in 1..Inserted PROVE (table \o txn)[i].name = i
    <3>1. CASE i \in 1..Len(table)
      BY <2>1, <3>1 DEF Inv, NamesInv
    <3>2. CASE i \notin 1..Len(table)
      <4>1. i - Len(table) \in 1..Len(txn) /\ i = Len(table) + (i - Len(table))
        BY <2>1, <2>2, <2>3, <3>2
      <4>2. (table \o txn)[i] = txn[i - Len(table)]
        BY <2>1, <2>2, <3>2, <4>1
      <4> QED
        BY <2>1, <4>1, <4>2 DEF Inv, NamesInv
    <3> QED
      BY <3>1, <3>2
  <2> QED
    BY <2>2, <2>3 DEF Names, Inv, TxnInv
<1> QED
  BY Invariance, <1>1, PTL

-----------------------------------------------------------------------------
(***************************************************************************)
(* How full the transactions are.                                          *)
(***************************************************************************)
BatchInv ==
    /\ Len(table) + Len(refused) + Len(txn) = Inserted
    /\ Len(txn) <= PkgInfoEntriesPerCommit
    /\ pc = "read" => AtBoundary(Len(table)) /\ AtBoundary(Len(refused))

\* Boundaries are the multiples of the size of a transaction.
LEMMA Boundaries ==
    ASSUME NEW a \in Nat
    PROVE  AtBoundary(a) <=> \E k \in Nat : a = k * PkgInfoEntriesPerCommit
<1> DEFINE N == PkgInfoEntriesPerCommit
<1>1. N \in Nat \ {0}
  BY PackageAssumption
<1> HIDE DEF N
<1>2. a = N * (a \div N) + (a % N) /\ a \div N \in Nat /\ a % N \in 0..N - 1
  BY <1>1
<1>3. ASSUME a % N = 0 PROVE \E k \in Nat : a = k * N
  <2>1. a = (a \div N) * N
    BY <1>1, <1>2, <1>3
  <2>. QED  BY <1>2, <2>1
<1>4. ASSUME NEW k \in Nat, a = k * N PROVE a % N = 0
  <2> DEFINE q == a \div N
             r == a % N
  <2>1. q \in Nat /\ r \in 0..N - 1 /\ k * N = N * q + r
    BY <1>2, <1>4
  <2> HIDE DEF q, r
  <2>2. r = (k - q) * N
    BY <1>1, <2>1
  <2>3. CASE k - q <= 0
    <3>1. PICK d \in Nat : k - q = -d
      <4>1. q - k \in Nat /\ k - q = -(q - k)
        BY <2>1, <2>3
      <4>. QED  BY <4>1
    <3>2. r = -(d * N) /\ d * N \in Nat
      BY <1>1, <2>2, <3>1
    <3>3. r = 0
      BY <2>1, <3>2
    <3>. QED  BY <3>3 DEF r
  <2>4. CASE k - q >= 1
    <3>1. PICK d \in Nat : k - q = 1 + d
      <4>1. k - q - 1 \in Nat /\ k - q = 1 + (k - q - 1)
        BY <2>1, <2>4
      <4>. QED  BY <4>1
    <3>2. r = N + d * N /\ d * N \in Nat
      BY <1>1, <2>2, <3>1
    <3>. QED  BY <1>1, <2>1, <3>2
  <2>. QED  BY <2>1, <2>3, <2>4
<1>. QED  BY <1>3, <1>4 DEF AtBoundary, N

LEMMA BoundarySums ==
    ASSUME NEW a \in Nat, NEW b \in Nat, AtBoundary(a), AtBoundary(b),
           NEW c \in 0..PkgInfoEntriesPerCommit
    PROVE  /\ AtBoundary(a + b + c) <=> c \in {0, PkgInfoEntriesPerCommit}
           /\ c = PkgInfoEntriesPerCommit => AtBoundary(a + c)
<1> DEFINE N == PkgInfoEntriesPerCommit
<1>1. N \in Nat \ {0}
  BY PackageAssumption
<1>2. PICK j \in Nat : a = j * N
  BY Boundaries
<1>3. PICK k \in Nat : b = k * N
  BY Boundaries
<1> HIDE DEF N
<1>4. a + b = (j + k) * N /\ j + k \in Nat
  BY <1>1, <1>2, <1>3
<1>5. ASSUME c = 0 PROVE AtBoundary(a + b + c)
  <2>1. a + b + c = (j + k) * N /\ a + b + c \in Nat
    BY <1>4, <1>5
  <2>. QED  BY <1>4, <2>1, Boundaries DEF N
<1>6. ASSUME c = N PROVE AtBoundary(a + b + c) /\ AtBoundary(a + c)
  <2>1. a + b + c = (j + k + 1) * N /\ a + b + c \in Nat /\ j + k + 1 \in Nat
    BY <1>1, <1>4, <1>6
  <2>2. a + c = (j + 1) * N /\ a + c \in Nat /\ j + 1 \in Nat
    BY <1>1, <1>2, <1>6
  <2>. QED  BY <2>1, <2>2, Boundaries DEF N
<1>7. ASSUME AtBoundary(a + b + c) PROVE c \in {0, N}
  <2>1. c \in 0..N /\ a + b + c \in Nat
    BY <1>1 DEF N
  <2>2. PICK m \in Nat : a + b + c = m * N
    BY <1>7, <2>1, Boundaries DEF N
  <2>3. c = (m - (j + k)) * N
    BY <1>1, <1>4, <2>1, <2>2
  <2>4. CASE m - (j + k) <= -1
    <3>1. PICK d \in Nat : m - (j + k) = -1 - d
      <4>1. -1 - (m - (j + k)) \in Nat
        BY <2>4
      <4>. QED  BY <4>1
    <3>2. c = -N - d * N /\ d * N \in Nat
      BY <1>1, <2>3, <3>1
    <3>. QED  BY <1>1, <2>1, <3>2
  <2>5. CASE m - (j + k) >= 2
    <3>1. PICK d \in Nat : m - (j + k) = 2 + d
      <4>1. m - (j + k) - 2 \in Nat
        BY <2>5
      <4>. QED  BY <4>1
    <3>2. c = N + N + d * N /\ d * N \in Nat
      BY <1>1, <2>3, <3>1
    <3>. QED  BY <1>1, <2>1, <3>2
  <2>6. CASE m - (j + k) = 0 \/ m - (j + k) = 1
    BY <1>1, <2>1, <2>3, <2>6
  <2>. QED  BY <2>4, <2>5, <2>6
<1>. QED  BY <1>5, <1>6, <1>7 DEF N

\* How many rows a step adds to which sequence.
LEMMA CommitLengths ==
    ASSUME TypeInv, NEW new \in Seq(Row), CommitRows(new)
    PROVE  /\ txn' = <<>> /\ Len(txn') = 0
           /\ \/ Len(table') = Len(table) + Len(new) /\ refused' = refused
              \/ Len(refused') = Len(refused) + Len(new) /\ table' = table
  BY ConcatRows DEF CommitRows, TypeInv

\* A transaction between two entries has room for one more.
LEMMA RoomLeft ==
    ASSUME Inv, BatchInv, pc = "read", ~MidEntry
    PROVE  Len(txn) < PkgInfoEntriesPerCommit
<1>1. /\ Len(table) \in Nat /\ Len(refused) \in Nat /\ Len(txn) \in Nat
      /\ PkgInfoEntriesPerCommit \in Nat \ {0}
  BY PackageAssumption DEF Inv, TypeInv
<1>2. record_count = Inserted
  BY DEF Inv, TypeInv, TxnInv, KeyInv, MidEntry, BetweenEntries, Inserted, NothingGiven, Keys
<1> SUFFICES ASSUME Len(txn) = PkgInfoEntriesPerCommit PROVE FALSE
  BY <1>1 DEF BatchInv
<1>3. AtBoundary(Len(table) + Len(refused) + Len(txn))
  <2>1. AtBoundary(Len(table)) /\ AtBoundary(Len(refused))
    BY DEF BatchInv
  <2>2. Len(txn) \in 0..PkgInfoEntriesPerCommit
    BY <1>1
  <2>. QED  BY <1>1, <2>1, <2>2, BoundarySums
<1>4. AtBoundary(record_count)
  BY <1>2, <1>3 DEF BatchInv
<1>5. txn = <<>>
  BY <1>4 DEF Inv, TxnInv, TypeInv, AtBoundary
<1>. QED  BY <1>1, <1>5

LEMMA BatchStep == Inv /\ BatchInv /\ [Next]_vars => BatchInv'
<1> SUFFICES ASSUME Inv, BatchInv, [Next]_vars PROVE BatchInv'
  OBVIOUS
<1>0. /\ Len(table) \in Nat /\ Len(refused) \in Nat /\ Len(txn) \in Nat
      /\ PkgInfoEntriesPerCommit \in Nat \ {0}
      /\ TypeInv
  BY PackageAssumption DEF Inv, TypeInv
<1>1. CASE ReadPkg
  <2>1. Inserted' = Inserted
    BY <1>1 DEF Inv, ReadPkg, Inserted, KeyInv, TypeInv, NothingGiven, Keys
  <2>. QED  BY <1>1, <2>1 DEF BatchInv, ReadPkg, rows, AtBoundary
<1>2. ASSUME NEW k \in Keys \ {"PKG"}, ReadKey(k) PROVE BatchInv'
  BY <1>2 DEF BatchInv, ReadKey, rows, Inserted, AtBoundary
<1>3. CASE PkgValue
  <2>1. /\ pc = "read" /\ entry \in Nat /\ entry > 0 /\ given = NothingGiven /\ ~MidEntry
        /\ entry' = entry /\ given' = [given EXCEPT !["PKG"] = "text"]
    BY <1>3 DEF Inv, PkgValue, ReadValue, KeyInv, TypeInv, MidEntry, NothingGiven, Keys
  <2>2. AtBoundary(record_count) # open
    BY <2>1 DEF Inv, TxnInv, TypeInv, AtBoundary
  <2>3. txn' = Append(txn, NewRow(entry)) /\ UNCHANGED <<table, refused, pc>>
    BY <1>3, <2>2 DEF PkgValue
  <2>4. Len(txn') = Len(txn) + 1
    BY <1>0, <2>1, <2>3, AppendRow, NewRowType DEF TypeInv
  <2>5. Inserted = entry - 1 /\ Inserted' = entry
    BY <2>1 DEF Inserted, NothingGiven, Keys
  <2>6. Len(txn) < PkgInfoEntriesPerCommit
    BY <2>1, RoomLeft
  <2>. QED  BY <1>0, <2>1, <2>3, <2>4, <2>5, <2>6 DEF BatchInv, AtBoundary
<1>4. ASSUME NEW k \in {"PV", "SRCREV", "SRC_URL"}, NEW text \in {"text", "INVALID"},
             ReadValue(k, text), Len(txn') = Len(txn), UNCHANGED <<table, refused, pc>>
      PROVE  BatchInv'
  BY <1>4, PhaseStays DEF BatchInv, AtBoundary
<1>5. ASSUME NEW k \in {"PV", "SRCREV", "SRC_URL"}, NEW text \in {"text", "INVALID"},
             ReadValue(k, text), NEW r \in Row, Write(r)
      PROVE  BatchInv'
  <2>1. txn' = [txn EXCEPT ![Len(txn)] = r] /\ UNCHANGED <<table, refused, pc>> /\ txn # <<>>
    BY <1>5, PhaseStays DEF Write
  <2>2. Len(txn') = Len(txn)
    BY <1>0, <2>1, ReplaceLast DEF TypeInv
  <2>. QED  BY <1>4, <1>5, <2>1, <2>2
<1>6. ASSUME open, txn # <<>>
      PROVE  /\ [Last EXCEPT !.version = entry, !.by = "PV"] \in Row
             /\ [Last EXCEPT !.version = entry, !.by = "SRCREV"] \in Row
             /\ [Last EXCEPT !.src_url = entry] \in Row
  <2>1. Last \in Row /\ entry \in Nat
    BY <1>0, <1>6, LastIsRow DEF TypeInv, Last
  <2>. QED  BY <2>1 DEF Row
<1>7. CASE PvValue \/ SrcrevValue \/ SrcUrlValue
  <2>1. CASE PvValue
    <3>1. ReadValue("PV", "text") /\ Write([Last EXCEPT !.version = entry, !.by = "PV"])
      BY <2>1 DEF PvValue
    <3>2. open /\ txn # <<>>
      BY <3>1, PhaseStays
    <3>. QED  BY <1>5, <1>6, <3>1, <3>2
  <2>2. CASE ReadValue("SRCREV", "text") /\ Write([Last EXCEPT !.version = entry, !.by = "SRCREV"])
    <3>1. open /\ txn # <<>>
      BY <2>2, PhaseStays
    <3>. QED  BY <1>5, <1>6, <2>2, <3>1
  <2>3. CASE ReadValue("SRCREV", "INVALID") /\ UNCHANGED <<record_count, rows, pc>>
    BY <1>4, <2>3 DEF rows
  <2>4. CASE SrcUrlValue
    <3>1. ReadValue("SRC_URL", "text") /\ Write([Last EXCEPT !.src_url = entry])
      BY <2>4 DEF SrcUrlValue
    <3>2. open /\ txn # <<>>
      BY <3>1, PhaseStays
    <3>. QED  BY <1>5, <1>6, <3>1, <3>2
  <2>. QED  BY <1>7, <2>1, <2>2, <2>3, <2>4 DEF SrcrevValue
<1>8. CASE TypeValue
  <2> DEFINE new == [txn EXCEPT ![Len(txn)].src_type = entry]
             r   == [Last EXCEPT !.src_type = entry]
  <2>1. /\ pc = "read" /\ MidEntry /\ open /\ txn # <<>> /\ entry \in Nat /\ entry > 0
        /\ entry' = entry /\ given' = [given EXCEPT !["TYPE"] = "text"]
    BY <1>8 DEF Inv, TypeValue, ReadValue, KeyInv, TypeInv, TxnInv, MidEntry
  <2>2. new \in Seq(Row) /\ Len(new) = Len(txn)
    <3>1. Last \in Row
      BY <1>0, <2>1, LastIsRow DEF TypeInv, Last
    <3>2. r \in Row
      BY <2>1, <3>1 DEF Row
    <3>3. new = [txn EXCEPT ![Len(txn)] = r]
      BY DEF Last
    <3>. QED  BY <1>0, <2>1, <3>2, <3>3, ReplaceLast DEF TypeInv
  <2> HIDE DEF new, r
  <2>3. /\ record_count' = record_count + 1 /\ pc' = pc
        /\ IF AtBoundary(record_count')
           THEN CommitRows(new)
           ELSE txn' = new /\ UNCHANGED <<open, table, refused>>
    BY <1>8, <2>1 DEF TypeValue, new
  <2>4. record_count' = Inserted /\ Inserted' = Inserted
    BY <2>1, <2>3 DEF Inv, TypeInv, TxnInv, MidEntry, BetweenEntries, Inserted, Keys, Texts
  <2>5. AtBoundary(record_count') <=> Len(txn) \in {0, PkgInfoEntriesPerCommit}
    <3>1. record_count' = Len(table) + Len(refused) + Len(txn)
          /\ Len(txn) \in 0..PkgInfoEntriesPerCommit
      BY <1>0, <2>4 DEF BatchInv
    <3>. QED  BY <1>0, <2>1, <3>1, BoundarySums DEF BatchInv
  <2>6. Len(txn) # 0
    BY <1>0, <2>1 DEF TypeInv
  <2>7. CASE AtBoundary(record_count')
    <3>1. Len(txn) = PkgInfoEntriesPerCommit
      BY <2>5, <2>6, <2>7
    <3>2. /\ Len(txn') = 0
          /\ \/ Len(table') = Len(table) + Len(txn) /\ refused' = refused
             \/ Len(refused') = Len(refused) + Len(txn) /\ table' = table
      BY <1>0, <2>2, <2>3, <2>7, CommitLengths
    <3>3. AtBoundary(Len(table) + Len(txn)) /\ AtBoundary(Len(refused) + Len(txn))
      <4>1. AtBoundary(Len(table)) /\ AtBoundary(Len(refused))
        BY <2>1 DEF BatchInv
      <4>2. Len(txn) \in 0..PkgInfoEntriesPerCommit
        BY <1>0, <3>1
      <4>. QED  BY <1>0, <3>1, <4>1, <4>2, BoundarySums
    <3>4. AtBoundary(Len(table))' /\ AtBoundary(Len(refused))'
      BY <2>1, <3>2, <3>3 DEF BatchInv, AtBoundary
    <3>. QED  BY <1>0, <2>4, <3>1, <3>2, <3>4 DEF BatchInv
  <2>8. CASE ~AtBoundary(record_count')
    BY <2>2, <2>3, <2>4, <2>8 DEF BatchInv, AtBoundary
  <2>. QED  BY <2>7, <2>8
<1>9. CASE Finish
  <2>1. UNCHANGED <<entry, given>> /\ pc' = "done"
    BY <1>9 DEF Finish, file
  <2>2. Inserted' = Inserted
    BY <2>1 DEF Inserted
  <2>3. CASE open
    <3>1. txn \in Seq(Row) /\ CommitRows(txn)
      BY <1>0, <1>9, <2>3 DEF Finish, TypeInv
    <3>2. /\ Len(txn') = 0
          /\ \/ Len(table') = Len(table) + Len(txn) /\ refused' = refused
             \/ Len(refused') = Len(refused) + Len(txn) /\ table' = table
      BY <1>0, <3>1, CommitLengths
    <3>. QED  BY <1>0, <2>1, <2>2, <3>2 DEF BatchInv
  <2>4. CASE ~open
    BY <1>9, <2>1, <2>2, <2>4 DEF Finish, rows, BatchInv
  <2>. QED  BY <2>3, <2>4
<1>10. CASE UNCHANGED vars
  BY <1>10 DEF vars, file, rows, BatchInv, Inserted, AtBoundary
<1>. QED
  BY <1>1, <1>2, <1>3, <1>7, <1>8, <1>9, <1>10 DEF Next

\* A failed commit loses its own rows and no others, and every transaction but the last
\* is full, for files and transactions of any size.
THEOREM TransactionsFull == Spec => []BatchesFull
<1>1. Init => BatchInv
  BY BoundaryAtZero, PackageAssumption DEF Init, BatchInv, Inserted, AtBoundary
<1>2. Inv /\ BatchInv => BatchesFull
  BY DEF BatchInv, BatchesFull
<1>. QED  BY <1>1, <1>2, Invariance, BatchStep, PTL DEF Spec

-----------------------------------------------------------------------------
(***************************************************************************)
(* What the columns say.                                                   *)
(***************************************************************************)

\* No column of a row is another entry's.
Own(r) == {r.version, r.src_url, r.src_type} \subseteq {0, r.name}

\* The version of the row at hand is by the key that should give it.
VersionBy(g, r) ==
    /\ g["SRCREV"] # "text" => r.by # "SRCREV"
    /\ g["SRCREV"] = "text" /\ g["PV"] = "absent" => r.by = "SRCREV"

ColumnInv ==
    /\ \A i \in 1..Len(table) : Own(table[i])
    /\ \A i \in 1..Len(txn) : Own(txn[i])
    /\ pc = "read" /\ MidEntry => Last.name = entry
    /\ given["PKG"] = "absent" => given = NothingGiven
    /\ pending => given[current_state] = "absent"
    /\ open /\ txn # <<>> /\ given["PKG"] # "absent" => VersionBy(given, Last)

\* A row at the end that is as it should be, in a sequence that is.
LEMMA OwnRows ==
    ASSUME NEW s \in Seq(Row), \A i \in 1..Len(s) : Own(s[i]), NEW r \in Row, Own(r)
    PROVE  /\ \A i \in 1..Len(Append(s, r)) : Own(Append(s, r)[i])
           /\ s # <<>> => /\ \A i \in 1..Len([s EXCEPT ![Len(s)] = r]) : Own([s EXCEPT ![Len(s)] = r][i])
                          /\ [s EXCEPT ![Len(s)] = r][Len([s EXCEPT ![Len(s)] = r])] = r
           /\ Append(s, r)[Len(Append(s, r))] = r
<1>1. Len(s) \in Nat /\ Len(Append(s, r)) = Len(s) + 1
      /\ \A i \in 1..Len(s) : Append(s, r)[i] = s[i]
      /\ Append(s, r)[Len(s) + 1] = r
  BY AppendRow
<1>2. \A i \in 1..Len(s) + 1 : i \in 1..Len(s) \/ i = Len(s) + 1
  BY <1>1
<1>3. \A i \in 1..Len(Append(s, r)) : Own(Append(s, r)[i])
  BY <1>1, <1>2
<1>4. ASSUME s # <<>>
      PROVE  /\ Len([s EXCEPT ![Len(s)] = r]) = Len(s)
             /\ \A i \in 1..Len(s) : [s EXCEPT ![Len(s)] = r][i] = IF i = Len(s) THEN r ELSE s[i]
             /\ Len(s) \in 1..Len(s)
  BY <1>4
<1>. QED  BY <1>1, <1>3, <1>4

LEMMA OwnConcat ==
    ASSUME NEW s \in Seq(Row), NEW t \in Seq(Row),
           \A i \in 1..Len(s) : Own(s[i]), \A i \in 1..Len(t) : Own(t[i])
    PROVE  \A i \in 1..Len(s \o t) : Own((s \o t)[i])
<1>1. Len(s) \in Nat /\ Len(t) \in Nat /\ Len(s \o t) = Len(s) + Len(t)
  BY ConcatRows
<1> SUFFICES ASSUME NEW i \in 1..Len(s \o t) PROVE Own((s \o t)[i])
  OBVIOUS
<1>2. CASE i \in 1..Len(s)
  <2>1. (s \o t)[i] = s[i]
    BY <1>2
  <2>. QED  BY <1>2, <2>1
<1>3. CASE i \notin 1..Len(s)
  <2>1. i - Len(s) \in 1..Len(t)
    BY <1>1, <1>3
  <2>2. (s \o t)[i] = t[i - Len(s)]
    BY <1>1, <1>3, <2>1
  <2>. QED  BY <2>1, <2>2
<1>. QED  BY <1>2, <1>3

LEMMA ColumnStep == Inv /\ ColumnInv /\ [Next]_vars => ColumnInv'
<1> SUFFICES ASSUME Inv, ColumnInv, [Next]_vars PROVE ColumnInv'
  OBVIOUS
<1>0. TypeInv /\ table \in Seq(Row) /\ txn \in Seq(Row) /\ entry \in Nat
      /\ given \in [Keys -> Texts] /\ "PKG" \in Keys /\ "SRCREV" \in Keys /\ "PV" \in Keys
  BY DEF Inv, TypeInv, Keys
<1>1. CASE ReadPkg
  <2>1. /\ given' = NothingGiven /\ given'["PKG"] = "absent"
        /\ UNCHANGED <<open, txn, table, refused, pc>> /\ current_state' = "PKG"
    BY <1>1 DEF ReadPkg, rows, NothingGiven, Keys
  <2>2. ~MidEntry' /\ NothingGiven' = NothingGiven
    BY <2>1 DEF MidEntry, NothingGiven
  <2>. QED  BY <2>1, <2>2 DEF ColumnInv
<1>2. ASSUME NEW k \in Keys \ {"PKG"}, ReadKey(k) PROVE ColumnInv'
  BY <1>2 DEF ColumnInv, ReadKey, rows, MidEntry, Last, VersionBy, NothingGiven
<1>3. CASE PkgValue
  <2>1. /\ pc = "read" /\ entry > 0 /\ given = NothingGiven /\ ~MidEntry
        /\ entry' = entry /\ given' = [given EXCEPT !["PKG"] = "text"] /\ ~pending'
    BY <1>3 DEF Inv, PkgValue, ReadValue, KeyInv, TypeInv, MidEntry, NothingGiven, Keys
  <2>2. AtBoundary(record_count) # open
    BY <2>1 DEF Inv, TxnInv, TypeInv, AtBoundary
  <2>3. txn' = Append(txn, NewRow(entry)) /\ UNCHANGED <<table, refused, pc>>
    BY <1>3, <2>2 DEF PkgValue
  <2>4. NewRow(entry) \in Row /\ NewRow(entry).name = entry /\ Own(NewRow(entry))
        /\ NewRow(entry).by = ""
    BY <1>0 DEF NewRow, Row, Own
  <2>5. (\A i \in 1..Len(txn') : Own(txn'[i])) /\ Last' = NewRow(entry)
    BY <1>0, <2>3, <2>4, OwnRows DEF ColumnInv, Last
  <2>6. given'["SRCREV"] = "absent" /\ given'["PKG"] # "absent"
    BY <2>1 DEF NothingGiven, Keys
  <2>7. VersionBy(given', Last')
    BY <2>4, <2>5, <2>6 DEF VersionBy
  <2>. QED  BY <2>1, <2>3, <2>4, <2>5, <2>6, <2>7 DEF ColumnInv
<1>4. ASSUME NEW k \in {"PV", "SRCREV", "SRC_URL"}, NEW text \in {"text", "INVALID"},
             ReadValue(k, text), NEW r \in Row, Write(r), Own(r), r.name = entry,
             VersionBy(given', r)
      PROVE  ColumnInv'
  <2>1. /\ txn' = [txn EXCEPT ![Len(txn)] = r] /\ UNCHANGED <<table, refused, pc>>
        /\ txn # <<>> /\ MidEntry /\ entry' = entry /\ ~pending'
        /\ given' = [given EXCEPT ![k] = text]
    BY <1>4, PhaseStays DEF Write, ReadValue
  <2>2. (\A i \in 1..Len(txn') : Own(txn'[i])) /\ Last' = r
    BY <1>0, <1>4, <2>1, OwnRows DEF ColumnInv, Last
  <2>3. given'["PKG"] # "absent"
    BY <1>0, <2>1 DEF MidEntry
  <2>. QED  BY <1>4, <2>1, <2>2, <2>3 DEF ColumnInv, VersionBy
<1>5. ASSUME NEW k \in {"PV", "SRCREV", "SRC_URL"}, NEW text \in {"text", "INVALID"},
             ReadValue(k, text)
      PROVE  /\ Last \in Row /\ Own(Last) /\ Last.name = entry /\ VersionBy(given, Last)
             /\ given' = [given EXCEPT ![k] = text] /\ given[k] = "absent" 
  <2>1. pc = "read" /\ MidEntry /\ open /\ txn # <<>>
    BY <1>5, PhaseStays
  <2>2. Last \in Row /\ Len(txn) \in 1..Len(txn)
    BY <1>0, <2>1, LastIsRow DEF Last
  <2>. QED  BY <1>5, <2>1, <2>2 DEF ColumnInv, Last, MidEntry, ReadValue
<1>6. CASE PvValue
  <2>1. ReadValue("PV", "text") /\ Write([Last EXCEPT !.version = entry, !.by = "PV"])
    BY <1>6 DEF PvValue
  <2>2. PICK r \in Row : /\ r = [Last EXCEPT !.version = entry, !.by = "PV"]
                         /\ Own(r) /\ r.name = entry /\ r.by = "PV"
    <3> DEFINE x == [Last EXCEPT !.version = entry, !.by = "PV"]
    <3>1. x \in Row /\ Own(x) /\ x.name = entry /\ x.by = "PV"
      BY <1>0, <1>5, <2>1 DEF Row, Own
    <3>. QED  BY <3>1
  <2>3. given'["PV"] = "text"
    BY <1>0, <1>5, <2>1
  <2>4. VersionBy(given', r)
    BY <2>2, <2>3 DEF VersionBy
  <2>5. Write(r)
    BY <2>1, <2>2
  <2>. QED  BY <1>4, <2>1, <2>2, <2>4, <2>5
<1>7. CASE SrcrevValue
  <2>1. CASE ReadValue("SRCREV", "text") /\ Write([Last EXCEPT !.version = entry, !.by = "SRCREV"])
    <3>1. PICK r \in Row : /\ r = [Last EXCEPT !.version = entry, !.by = "SRCREV"]
                           /\ Own(r) /\ r.name = entry /\ r.by = "SRCREV"
      <4> DEFINE x == [Last EXCEPT !.version = entry, !.by = "SRCREV"]
      <4>1. x \in Row /\ Own(x) /\ x.name = entry /\ x.by = "SRCREV"
        BY <1>0, <1>5, <2>1 DEF Row, Own
      <4>. QED  BY <4>1
    <3>2. given'["SRCREV"] = "text"
      BY <1>0, <1>5, <2>1
    <3>3. VersionBy(given', r)
      BY <3>1, <3>2 DEF VersionBy
    <3>4. Write(r)
      BY <2>1, <3>1
    <3>. QED  BY <1>4, <2>1, <3>1, <3>3, <3>4
  <2>2. CASE ReadValue("SRCREV", "INVALID") /\ UNCHANGED <<record_count, rows, pc>>
    <3>1. /\ Last.name = entry /\ VersionBy(given, Last) /\ given["SRCREV"] = "absent"
          /\ given' = [given EXCEPT !["SRCREV"] = "INVALID"]
      BY <1>5, <2>2
    <3>2. /\ UNCHANGED <<open, txn, table, refused, pc>> /\ entry' = entry /\ ~pending'
          /\ given["PKG"] # "absent"
      BY <2>2, PhaseStays DEF rows, ReadValue, MidEntry
    <3>3. VersionBy(given', Last') /\ given'["PKG"] # "absent"
      BY <1>0, <3>1, <3>2 DEF VersionBy, Last
    <3>. QED  BY <3>1, <3>2, <3>3 DEF ColumnInv, Last
  <2>. QED  BY <1>7, <2>1, <2>2 DEF SrcrevValue
<1>8. CASE SrcUrlValue
  <2>1. ReadValue("SRC_URL", "text") /\ Write([Last EXCEPT !.src_url = entry])
    BY <1>8 DEF SrcUrlValue
  <2>2. PICK r \in Row : /\ r = [Last EXCEPT !.src_url = entry]
                         /\ Own(r) /\ r.name = entry /\ r.by = Last.by
    <3> DEFINE x == [Last EXCEPT !.src_url = entry]
    <3>1. x \in Row /\ Own(x) /\ x.name = entry /\ x.by = Last.by
      BY <1>0, <1>5, <2>1 DEF Row, Own
    <3>. QED  BY <3>1
  <2>3. VersionBy(given, Last) /\ given' = [given EXCEPT !["SRC_URL"] = "text"]
    BY <1>5, <2>1
  <2>4. VersionBy(given', r)
    BY <1>0, <2>2, <2>3 DEF VersionBy
  <2>5. Write(r)
    BY <2>1, <2>2
  <2>. QED  BY <1>4, <2>1, <2>2, <2>4, <2>5
<1>9. CASE TypeValue
  <2> DEFINE new == [txn EXCEPT ![Len(txn)].src_type = entry]
  <2>1. /\ pc = "read" /\ MidEntry /\ open /\ txn # <<>> /\ ~pending'
        /\ entry' = entry /\ given' = [given EXCEPT !["TYPE"] = "text"]
    BY <1>9 DEF Inv, TypeValue, ReadValue, KeyInv, TypeInv, TxnInv, MidEntry
  <2>2. Last \in Row /\ Own(Last) /\ Last.name = entry /\ VersionBy(given, Last)
    <3>1. Last \in Row /\ Len(txn) \in 1..Len(txn)
      BY <1>0, <2>1, LastIsRow DEF Last
    <3>. QED  BY <2>1, <3>1 DEF ColumnInv, Last, MidEntry
  <2>3. PICK r \in Row : /\ r = [Last EXCEPT !.src_type = entry]
                         /\ Own(r) /\ r.name = entry /\ r.by = Last.by
    <3> DEFINE x == [Last EXCEPT !.src_type = entry]
    <3>1. x \in Row /\ Own(x) /\ x.name = entry /\ x.by = Last.by
      BY <1>0, <2>2 DEF Row, Own
    <3>. QED  BY <3>1
  <2>4. new = [txn EXCEPT ![Len(txn)] = r]
    BY <2>3 DEF Last
  <2> HIDE DEF new
  <2>5. /\ new \in Seq(Row) /\ \A i \in 1..Len(new) : Own(new[i])
        /\ new[Len(new)] = r
    <3>1. new \in Seq(Row)
      BY <1>0, <2>1, <2>4, ReplaceLast
    <3>2. \A i \in 1..Len(txn) : Own(txn[i])
      BY DEF ColumnInv
    <3>3. /\ \A i \in 1..Len([txn EXCEPT ![Len(txn)] = r]) : Own([txn EXCEPT ![Len(txn)] = r][i])
          /\ [txn EXCEPT ![Len(txn)] = r][Len([txn EXCEPT ![Len(txn)] = r])] = r
      BY <1>0, <2>1, <2>3, <3>2, OwnRows
    <3>. QED  BY <2>4, <3>1, <3>3
  <2>6. /\ pc' = pc
        /\ IF AtBoundary(record_count')
           THEN CommitRows(new)
           ELSE txn' = new /\ UNCHANGED <<open, table, refused>>
    BY <1>9, <2>1 DEF TypeValue, new
  <2>7. ~MidEntry' /\ given'["PKG"] # "absent"
        /\ given'["SRCREV"] = given["SRCREV"] /\ given'["PV"] = given["PV"]
    BY <1>0, <2>1 DEF MidEntry, Keys
  <2>8. CASE AtBoundary(record_count')
    <3>1. txn' = <<>> /\ (table' = table \o new \/ table' = table)
      BY <2>6, <2>8 DEF CommitRows
    <3>2. \A i \in 1..Len(table') : Own(table'[i])
      BY <1>0, <2>5, <3>1, OwnConcat DEF ColumnInv
    <3>. QED  BY <2>1, <2>7, <3>1, <3>2 DEF ColumnInv
  <2>9. CASE ~AtBoundary(record_count')
    <3>1. txn' = new /\ table' = table /\ Last' = r
      BY <2>5, <2>6, <2>9 DEF Last
    <3>2. VersionBy(given', Last')
      BY <2>2, <2>3, <2>7, <3>1 DEF VersionBy
    <3>. QED  BY <2>1, <2>5, <2>7, <3>1, <3>2 DEF ColumnInv
  <2>. QED  BY <2>8, <2>9
<1>10. CASE Finish
  <2>1. UNCHANGED <<entry, given, current_state, pending>> /\ pc' = "done"
    BY <1>10 DEF Finish, file
  <2>2. CASE open
    <3>1. txn' = <<>> /\ (table' = table \o txn \/ table' = table)
      BY <1>10, <2>2 DEF Finish, CommitRows
    <3>2. \A i \in 1..Len(table') : Own(table'[i])
      BY <1>0, <3>1, OwnConcat DEF ColumnInv
    <3>. QED  BY <2>1, <3>1, <3>2 DEF ColumnInv, NothingGiven
  <2>3. CASE ~open
    BY <1>10, <2>1, <2>3 DEF Finish, rows, ColumnInv, NothingGiven
  <2>. QED  BY <2>2, <2>3
<1>11. CASE UNCHANGED vars
  BY <1>11 DEF vars, file, rows, ColumnInv, MidEntry, Last, VersionBy, NothingGiven
<1>. QED
  BY <1>1, <1>2, <1>3, <1>6, <1>7, <1>8, <1>9, <1>10, <1>11 DEF Next

\* Columns of two entries never mix, commits that fail in between included, and a
\* revision that is "INVALID" is never the version.
THEOREM ColumnsOwn == Spec => []ColumnsCoherent
<1>1. Init => ColumnInv
  BY DEF Init, ColumnInv, MidEntry, NothingGiven, Keys
<1>2. Inv /\ ColumnInv => ColumnsCoherent
  <2> SUFFICES ASSUME Inv, ColumnInv PROVE ColumnsCoherent
    OBVIOUS
  <2>1. table \in Seq(Row) /\ txn \in Seq(Row)
    BY DEF Inv, TypeInv
  <2>2. \A i \in 1..Len(table \o txn) : Own((table \o txn)[i])
    BY <2>1, OwnConcat DEF ColumnInv
  <2>3. open /\ txn # <<>> =>
          /\ given["SRCREV"] = "INVALID" => Last.by # "SRCREV"
          /\ given["SRCREV"] = "text" /\ given["PV"] = "absent" => Last.by = "SRCREV"
    <3>1. NothingGiven["SRCREV"] = "absent"
      BY DEF NothingGiven, Keys
    <3>. QED  BY <3>1 DEF ColumnInv, VersionBy
  <2>. QED  BY <2>2, <2>3 DEF ColumnsCoherent, Own
<1>. QED  BY <1>1, <1>2, Invariance, ColumnStep, PTL DEF Spec
=============================================================================
