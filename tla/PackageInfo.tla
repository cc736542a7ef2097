---------------------------- MODULE PackageInfo ----------------------------
(***************************************************************************)
(* sysd_add_package_info() in src/sysd_ovsdb_if.c: the scalars of          *)
(* /var/lib/version_detail.yaml drive an event machine that fills the      *)
(* Package_Info table, PkgInfoEntriesPerCommit rows to a transaction.      *)
(*                                                                         *)
(* The file is a list of entries.  An entry begins with PKG, ends with     *)
(* TYPE, and has no key twice; each scalar is chosen when it is read.      *)
(***************************************************************************)
EXTENDS Naturals, Sequences

CONSTANTS
    PkgInfoEntriesPerCommit,    \* PKG_INFO_ENTRIES_PER_COMMIT
    MaxEntries                  \* entries the file has at most

ASSUME PackageAssumption ==
    /\ PkgInfoEntriesPerCommit \in Nat \ {0}
    /\ MaxEntries \in Nat

VARIABLES
    entry,          \* number of the entry being read, 0 before the first
    given,          \* what this entry has given for each key
    current_state,  \* the last key read, "VALUE" before the first
    pending,        \* the value of that key is still to come
    record_count,   \* entries whose TYPE has been read
    open,           \* a transaction is open
    txn,            \* the rows inserted into it; the last one is row
    table,          \* rows the server has taken into Package_Info
    refused,        \* rows of commits that failed
    pc              \* "read", "done", or "aborted" by an assertion of the IDL

file  == <<entry, given, current_state, pending>>
rows  == <<open, txn, table, refused>>
vars  == <<file, record_count, rows, pc>>

Keys == {"PKG", "PV", "SRCREV", "SRC_URL", "TYPE"}

\* A revision is "INVALID" where the build has none; other texts matter only by the
\* entry they belong to.
Texts == {"absent", "text", "INVALID"}

NothingGiven == [k \in Keys |-> "absent"]

\* A row: the entry that each column's text comes from, 0 if the column is unset, and
\* the key that gave the version.
Row == [name : Nat, version : Nat, by : {"", "PV", "SRCREV"}, src_url : Nat, src_type : Nat]

NewRow(n) == [name |-> n, version |-> 0, by |-> "", src_url |-> 0, src_type |-> 0]

TypeOK ==
    /\ entry \in 0..MaxEntries
    /\ given \in [Keys -> Texts]
    /\ current_state \in Keys \cup {"VALUE"}
    /\ pending \in BOOLEAN
    /\ record_count \in 0..entry
    /\ open \in BOOLEAN
    /\ txn \in Seq(Row)
    /\ table \in Seq(Row)
    /\ refused \in Seq(Row)
    /\ pc \in {"read", "done", "aborted"}

Init ==
    /\ entry = 0
    /\ given = NothingGiven
    /\ current_state = "VALUE"
    /\ pending = FALSE
    /\ record_count = 0
    /\ open = FALSE
    /\ txn = <<>>
    /\ table = <<>>
    /\ refused = <<>>
    /\ pc = "read"

-----------------------------------------------------------------------------
(***************************************************************************)
(* What the file has next.                                                 *)
(***************************************************************************)

\* No entry is being read: the last one has had its TYPE.
BetweenEntries == entry = 0 \/ given["TYPE"] # "absent"

\* The scalar "PKG", of a new entry.
ReadPkg ==
    /\ pc = "read"
    /\ ~pending
    /\ BetweenEntries
    /\ entry < MaxEntries
    /\ entry' = entry + 1
    /\ given' = NothingGiven
    /\ current_state' = "PKG"
    /\ pending' = TRUE
    /\ UNCHANGED <<record_count, rows, pc>>

\* The scalar of another key of the same entry.
ReadKey(k) ==
    /\ pc = "read"
    /\ ~pending
    /\ ~BetweenEntries
    /\ given[k] = "absent"
    /\ current_state' = k
    /\ pending' = TRUE
    /\ UNCHANGED <<entry, given, record_count, rows, pc>>

\* The scalar after key k: what package_info_mapping_check_key() takes for a value.
ReadValue(k, text) ==
    /\ pc = "read"
    /\ pending
    /\ current_state = k
    /\ pending' = FALSE
    /\ given' = [given EXCEPT ![k] = text]
    /\ UNCHANGED <<entry, current_state>>

-----------------------------------------------------------------------------
(***************************************************************************)
(* What the machine does with a value.                                     *)
(***************************************************************************)

\* The IDL asserts that a transaction is not created while one is open, and that a
\* row is only written while one is.
Abort ==
    /\ pc' = "aborted"
    /\ UNCHANGED <<record_count, rows>>

AtBoundary(n) == n % PkgInfoEntriesPerCommit = 0

Last == txn[Len(txn)]

\* ovsdb_idl_txn_commit_block() and ovsdb_idl_txn_destroy() of a transaction that has
\* inserted new: the server takes the rows, or the failure is logged.
CommitRows(new) ==
    /\ open' = FALSE
    /\ txn' = <<>>
    /\ \/ table' = table \o new /\ UNCHANGED refused
       \/ refused' = refused \o new /\ UNCHANGED table

\* A column of row is written: row becomes r.
Write(r) ==
    IF open
    THEN /\ txn' = [txn EXCEPT ![Len(txn)] = r]
         /\ UNCHANGED <<record_count, open, table, refused, pc>>
    ELSE Abort

\* Faulty variant: the transaction is created at the entry before the boundary.
PkgValueEarly ==
    /\ ReadValue("PKG", "text")
    /\ IF AtBoundary(record_count + 1) = open
       THEN Abort
       ELSE /\ open' = TRUE
            /\ txn' = Append(txn, NewRow(entry))
            /\ UNCHANGED <<record_count, table, refused, pc>>

\* PKG: at a boundary a transaction is created; a row is inserted and named.
PkgValue ==
    /\ ReadValue("PKG", "text")
    /\ IF AtBoundary(record_count) = open
       THEN Abort
       ELSE /\ open' = TRUE
            /\ txn' = Append(txn, NewRow(entry))
            /\ UNCHANGED <<record_count, table, refused, pc>>

\* Faulty variant: every value is counted as an entry.
PvValueCounting ==
    /\ ReadValue("PV", "text")
    /\ record_count' = record_count + 1
    /\ txn' = [txn EXCEPT ![Len(txn)] = [Last EXCEPT !.version = entry, !.by = "PV"]]
    /\ UNCHANGED <<open, table, refused, pc>>

\* PV: the version.
PvValue ==
    /\ ReadValue("PV", "text")
    /\ Write([Last EXCEPT !.version = entry, !.by = "PV"])

\* Faulty variant: the revision replaces the version even if it is "INVALID".
SrcrevValueUnchecked ==
    /\ \E text \in {"text", "INVALID"} : ReadValue("SRCREV", text)
    /\ Write([Last EXCEPT !.version = entry, !.by = "SRCREV"])

\* SRCREV: the version, too, unless the revision is "INVALID".
SrcrevValue ==
    \/ /\ ReadValue("SRCREV", "text")
       /\ Write([Last EXCEPT !.version = entry, !.by = "SRCREV"])
    \/ /\ ReadValue("SRCREV", "INVALID")
       /\ UNCHANGED <<record_count, rows, pc>>

\* SRC_URL: the source.
SrcUrlValue ==
    /\ ReadValue("SRC_URL", "text")
    /\ Write([Last EXCEPT !.src_url = entry])

\* Faulty variant: the boundary is tested before the entry is counted.
TypeValueCountLate ==
    /\ ReadValue("TYPE", "text")
    /\ IF open
       THEN LET new == [txn EXCEPT ![Len(txn)].src_type = entry] IN
            /\ record_count' = record_count + 1
            /\ pc' = pc
            /\ IF AtBoundary(record_count)
               THEN CommitRows(new)
               ELSE txn' = new /\ UNCHANGED <<open, table, refused>>
       ELSE Abort

\* TYPE: the entry counts; at a boundary the transaction is committed.
TypeValue ==
    /\ ReadValue("TYPE", "text")
    /\ IF open
       THEN LET new == [txn EXCEPT ![Len(txn)].src_type = entry] IN
            /\ record_count' = record_count + 1
            /\ pc' = pc
            /\ IF AtBoundary(record_count')
               THEN CommitRows(new)
               ELSE txn' = new /\ UNCHANGED <<open, table, refused>>
       ELSE Abort

\* Faulty variant: a last transaction that is not full is not committed.
FinishWithoutCommit ==
    /\ pc = "read"
    /\ pc' = "done"
    /\ open' = FALSE
    /\ txn' = <<>>
    /\ UNCHANGED <<file, record_count, table, refused>>

\* The end of the file, or a parse error anywhere in it: what is open is committed.
Finish ==
    /\ pc = "read"
    /\ pc' = "done"
    /\ IF open THEN CommitRows(txn) ELSE UNCHANGED rows
    /\ UNCHANGED <<file, record_count>>

Next ==
    \/ ReadPkg
    \/ \E k \in Keys \ {"PKG"} : ReadKey(k)
    \/ PkgValue \/ PvValue \/ SrcrevValue \/ SrcUrlValue \/ TypeValue
    \/ Finish

Spec == Init /\ [][Next]_vars

-----------------------------------------------------------------------------
(***************************************************************************)
(* Properties.                                                             *)
(***************************************************************************)

\* The discipline the IDL asserts: the tests of record_count at the first key of an
\* entry and at its last open and close transactions in turn.
NeverAborts == pc # "aborted"

Names(s) == [i \in 1..Len(s) |-> s[i].name]

\* Entries whose row has been inserted.
Inserted == IF given["PKG"] = "absent" /\ entry > 0 THEN entry - 1 ELSE entry

\* No entry is lost or doubled between two transactions: as long as no commit fails,
\* the table and the open transaction hold the entries read, in their order, and at
\* the end all of them are in the table.
EveryEntryOnce ==
    pc # "aborted" /\ refused = <<>> =>
        /\ Names(table \o txn) = [i \in 1..Inserted |-> i]
        /\ pc = "done" => txn = <<>>

\* A failed commit loses its own rows and no others: all rows together are as many as
\* the entries, and each transaction is as full as it may be.
BatchesFull ==
    /\ pc # "aborted" => Len(table) + Len(refused) + Len(txn) = Inserted
    /\ Len(txn) <= PkgInfoEntriesPerCommit
    /\ pc = "read" => /\ AtBoundary(Len(table))
                      /\ AtBoundary(Len(refused))

\* The columns of two entries never mix, and "INVALID" is never a version.
ColumnsCoherent ==
    /\ \A r \in {(table \o txn)[i] : i \in 1..Len(table \o txn)} :
          {r.version, r.src_url, r.src_type} \subseteq {0, r.name}
    /\ open /\ txn # <<>> /\ Last.name = entry =>
          /\ given["SRCREV"] = "INVALID" => Last.by # "SRCREV"
          /\ given["SRCREV"] = "text" /\ given["PV"] = "absent" => Last.by = "SRCREV"

=============================================================================
