----------------------------- MODULE VpsSource -----------------------------
(***************************************************************************)
(* The table sja.m_karyawan of the VPS MySQL server as the gateway sees it *)
(* (it is only ever read), and the incremental query of                    *)
(* internal/vpsmysql/client.go against it.                                 *)
(*                                                                         *)
(* A row keeps two things the sync can tell apart: which write produced    *)
(* its content (ver) and its updated_at stamp in seconds (ts).  The column *)
(* is a DATETIME, so two writes may carry one stamp.                       *)
(***************************************************************************)
EXTENDS Naturals, FiniteSets

CONSTANTS
    Nik,        \* the employees' NIK_HRIS, numbered in the order MySQL sorts them
    BatchSize   \* SYNC_BATCH_SIZE, the LIMIT of the incremental query

ASSUME NikAssumption   == Nik \subseteq Nat /\ IsFiniteSet(Nik)
ASSUME BatchAssumption == BatchSize \in Nat \ {0}

Epoch == 0                          \* time.Unix(0, 0): older than every stamp
Row   == [ver : Nat, ts : Nat]
NoRow == [ver |-> 0, ts |-> Epoch]  \* the employee is not in the table

(* A fetched KaryawanRow: whose row it is, and what the row held.          *)
Fetched == [nik : Nik, row : Row]

(* ORDER BY updated_at ASC, NIK_HRIS ASC                                   *)
Before(x, y) ==
    \/ x.row.ts < y.row.ts
    \/ x.row.ts = y.row.ts /\ x.nik < y.nik

(* WHERE updated_at > ?                                                    *)
NewerThan(table, since) ==
    {x \in {[nik |-> n, row |-> table[n]] : n \in Nik} : x.row.ts > since}

(* The first `limit` members of S in the order of the query.               *)
FirstOf(S, limit) ==
    {x \in S : Cardinality({y \in S : Before(y, x)}) < limit}

(* A bug to catch: no ORDER BY, so LIMIT keeps rows in the order of NIK.   *)
FetchUnordered(table, since) ==
    LET S == NewerThan(table, since)
    IN  {x \in S : Cardinality({y \in S : y.nik < x.nik}) < BatchSize}

FetchKaryawanUpdatedSince(table, since) ==
    FirstOf(NewerThan(table, since), BatchSize)
=============================================================================
