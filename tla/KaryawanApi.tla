---------------------------- MODULE KaryawanApi ----------------------------
(***************************************************************************)
(* internal/api and internal/karyawan: GET /api/v1/karyawan, the list with *)
(* filter, limit and offset, and GET /api/v1/karyawan/{nik_hris}, for an   *)
(* application that walks through the pages of the list while svc-sync     *)
(* writes the table.  A request runs two queries one after the other, the  *)
(* count and the page, and nothing keeps writes out from between them or   *)
(* from between two pages.  Requests do not write, so one walk is enough.  *)
(*                                                                         *)
(* Of the six filters on a column one stands for all; status_aktif is the  *)
(* one that takes no value into its query.                                 *)
(***************************************************************************)
EXTENDS Integers, FiniteSets

CONSTANTS
    Nik,           \* the employees' NIK_HRIS, numbered in the order of the list
    Dept,          \* what a filtered column may hold
    Row,           \* what a row may hold: dept, and gone when TGL_KELUAR is set
    Absent,        \* no row
    DefaultLimit,  \* 50
    MaxLimit,      \* 500
    Limits,        \* what requests say for limit; 0 when they say nothing
    Statuses,      \* and for status_aktif
    MaxFaults      \* bound: queries that fail

ASSUME NikAssumption   == Nik \subseteq Nat /\ IsFiniteSet(Nik)
ASSUME RowAssumption   == Row \subseteq [dept : Dept, gone : BOOLEAN] /\ Absent \notin Row
ASSUME LimitAssumption ==
    DefaultLimit \in Nat \ {0} /\ MaxLimit \in Nat \ {0} /\ Limits \subseteq Int
ASSUME StatusAssumption == Statuses \subseteq {"unset", "true", "false"}
ASSUME BoundAssumption  == MaxFaults \in Nat

VARIABLES
    table,                  \* karyawan
    filter, limit, offset,  \* the request
    pc,                     \* idle, count, page, answered
    total, quiet,           \* the count; has the table been left alone since
    code, data,             \* the answer
    seen,                   \* rows the walk has been shown
    stayed,                 \* rows that have matched ever since it began
    left,                   \* has one ceased to match
    lost,                   \* was a GET of a row seen answered 404
    broken, faults          \* has a query of this request failed; in all

request == <<filter, limit, offset>>
walk    == <<seen, stayed, left>>
answer  == <<total, quiet, code, data>>
vars    == <<table, request, pc, answer, walk, lost, broken, faults>>

Init ==
    /\ table = [n \in Nik |-> Absent]
    /\ filter = [dept |-> "unset", status |-> "unset"] /\ limit = 0 /\ offset = 0
    /\ pc = "idle" /\ total = 0 /\ quiet = TRUE /\ code = 200 /\ data = {}
    /\ seen = {} /\ stayed = {} /\ left = FALSE
    /\ lost = FALSE
    /\ broken = FALSE /\ faults = 0

-----------------------------------------------------------------------------
(* WHERE                                                                   *)

Matches(row, f) ==
    /\ row # Absent
    /\ f.dept # "unset" => row.dept = f.dept
    /\ f.status = "true" => ~ row.gone
    /\ f.status = "false" => row.gone

Matching(t, f) == {n \in Nik : Matches(t[n], f)}

(* The clauses there are; add gives each an argument, but the one for      *)
(* status_aktif, tgl_keluar IS (NOT) NULL, has no placeholder for its own, *)
(* and the driver refuses a query whose arguments are not the number of    *)
(* its placeholders.                                                       *)
Clauses(f)      == {c \in {"dept", "status"} : f[c] # "unset"}
Placeholders(f) == Clauses(f) \ {"status"}
Executable(f)   == Cardinality(Placeholders(f)) = Cardinality(Clauses(f))

(* Bugs to catch: the limit as it was asked for; no upper end.             *)
ClampLimitNot(in) == in
PageSizeNoMax(in) == IF in <= 0 THEN DefaultLimit ELSE in

(* In the handler and in the repo.                                         *)
ClampLimit(in) == IF in <= 0 \/ in > MaxLimit THEN DefaultLimit ELSE in
PageSize(in)   == IF in <= 0 \/ in > MaxLimit THEN DefaultLimit ELSE in

(* ORDER BY nik_hris ASC LIMIT max OFFSET skip; Rank counts from 1.        *)
Rank(S, n) == Cardinality({m \in S : m <= n})

(* A bug to catch: OFFSET counts pages.                                    *)
PageOfPages(S, skip, max) ==
    {n \in S : skip * max < Rank(S, n) /\ Rank(S, n) <= skip * max + max}

PageOf(S, skip, max) == {n \in S : skip < Rank(S, n) /\ Rank(S, n) <= skip + max}

Skip == IF offset < 0 THEN 0 ELSE offset

-----------------------------------------------------------------------------
(* The application.                                                        *)

StartWalk ==
    /\ pc \in {"idle", "done"}
    /\ filter' \in [dept : Dept \cup {"unset"}, status : Statuses]
    /\ limit' \in Limits /\ offset' \in {-1, 0}
    /\ seen' = {} /\ left' = FALSE
    /\ stayed' = Matching(table, filter')
    /\ pc' = "count" /\ broken' = FALSE
    /\ UNCHANGED <<table, answer, lost, faults>>

Short == Cardinality(data) < ClampLimit(limit)

(* It goes on by the limit of the answer until a page is not full, and     *)
(* asks again after an error.                                              *)
TakeAnswer ==
    /\ pc = "answered"
    /\ IF code = 200
       THEN /\ seen' = seen \cup data
            /\ offset' = offset + ClampLimit(limit)
            /\ pc' = IF Short THEN "done" ELSE "count"
       ELSE /\ pc' = "count"
            /\ UNCHANGED <<seen, offset>>
    /\ total' = 0 /\ quiet' = TRUE /\ code' = 200 /\ data' = {}
    /\ broken' = FALSE
    /\ UNCHANGED <<table, filter, limit, stayed, left, lost, faults>>

-----------------------------------------------------------------------------
(* The handlers.                                                           *)

(* SELECT COUNT( * ), and the answer if it fails.                          *)
Count ==
    /\ pc = "count"
    /\ IF Executable(filter)
       THEN /\ total' = Cardinality(Matching(table, filter))
            /\ quiet' = TRUE
            /\ pc' = "page"
            /\ UNCHANGED <<code, data>>
       ELSE /\ pc' = "answered" /\ code' = 500
            /\ UNCHANGED <<total, quiet, data>>
    /\ UNCHANGED <<table, request, walk, lost, broken, faults>>

ListPage ==
    /\ pc = "page"
    /\ data' = PageOf(Matching(table, filter), Skip, PageSize(limit))
    /\ code' = 200
    /\ pc' = "answered"
    /\ UNCHANGED <<table, request, total, quiet, walk, lost, broken, faults>>

QueryFails ==
    /\ pc \in {"count", "page"}
    /\ faults < MaxFaults
    /\ faults' = faults + 1
    /\ broken' = TRUE
    /\ code' = 500
    /\ pc' = "answered"
    /\ UNCHANGED <<table, request, total, quiet, data, walk, lost>>

(* A bug to catch: the filter of the list applies here too.                *)
FindsFiltered(n) == Matches(table[n], filter)

(* GetByNIK                                                                *)
Finds(n) == table[n] # Absent

Get(n) ==
    /\ lost' = (lost \/ (n \in seen /\ ~ Finds(n)))
    /\ UNCHANGED <<table, request, pc, answer, walk, broken, faults>>

(* svc-sync: repo.Upsert.  Rows are never deleted.                         *)
Upsert(n) ==
    /\ \E row \in Row : table' = [table EXCEPT ![n] = row]
    /\ stayed' = stayed \cap Matching(table', filter)
    /\ left' = (left \/ ~ Matching(table, filter) \subseteq Matching(table', filter))
    /\ quiet' = (quiet /\ pc # "page")
    /\ UNCHANGED <<request, pc, total, code, data, seen, lost, broken, faults>>

Next ==
    \/ StartWalk \/ TakeAnswer
    \/ Count \/ ListPage \/ QueryFails
    \/ \E n \in Nik : Get(n) \/ Upsert(n)

Spec == Init /\ [][Next]_vars

(* Requests are answered, and the application goes on.                     *)
FairSpec == Spec /\ WF_vars(Count) /\ WF_vars(ListPage) /\ WF_vars(TakeAnswer)

-----------------------------------------------------------------------------
(* Type invariant.                                                         *)
TypeOK ==
    /\ table \in [Nik -> Row \cup {Absent}]
    /\ filter \in [dept : Dept \cup {"unset"}, status : Statuses \cup {"unset"}]
    /\ limit \in Int /\ offset \in Int
    /\ pc \in {"idle", "count", "page", "answered", "done"}
    /\ total \in Nat /\ quiet \in BOOLEAN
    /\ code \in {200, 500} /\ data \subseteq Nik
    /\ Cardinality(data) <= ClampLimit(limit)
    /\ seen \subseteq Nik /\ stayed \subseteq Nik /\ left \in BOOLEAN
    /\ lost \in BOOLEAN
    /\ broken \in BOOLEAN /\ faults \in Nat

(* A walk that has come to its last page has been shown every row that     *)
(* matched from its beginning to its end, though rows were written between *)
(* its pages, unless one of them left the filter and moved others up.      *)
WalkSeesAll == pc = "done" /\ ~ left => stayed \subseteq seen

(* No employee the list has shown is unknown to GET from then on.          *)
ListedIsFound == ~ lost

(* The two queries of a request agree when nothing was written between     *)
(* them: the page has what total leaves beyond the offset, up to the       *)
(* limit the answer names.                                                 *)
PageFitsTotal ==
    pc = "answered" /\ code = 200 /\ quiet =>
        LET beyond == IF total > Skip THEN total - Skip ELSE 0
        IN  Cardinality(data) = IF beyond < ClampLimit(limit) THEN beyond ELSE ClampLimit(limit)

(* Every walk comes to its last page, whatever limit it asks for.          *)
WalkEnds == pc = "count" ~> pc = "done"

(* `status_aktif`: "`true` means TGL_KELUAR IS NULL, `false` means the     *)
(* opposite" (README): a request with the documented parameters is         *)
(* answered, if the database answers its queries.                          *)
AnsweredUnlessBroken == pc = "answered" /\ code = 500 => broken
=============================================================================
