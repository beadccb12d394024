------------------------------- MODULE Syncer -------------------------------
(***************************************************************************)
(* internal/sync: SyncKaryawan, the run that copies what changed in the    *)
(* VPS table into the local karyawan table and moves the watermark.  A run *)
(* holds one transaction from beginning to end.  The transaction owns the  *)
(* advisory lock, the run's row in sync_runs and the new watermark; the    *)
(* karyawan rows, and the read of the watermark, go through other          *)
(* connections of the pool and are not part of it.                         *)
(*                                                                         *)
(* Runs of the svc-sync daemon overlap (each cron tick starts one whatever *)
(* became of the last) and svc-setup starts one of its own, so Run is a    *)
(* set of slots, each executing one call of SyncKaryawan after another.    *)
(***************************************************************************)
EXTENDS VpsSource

CONSTANTS
    Run,           \* slots for calls of SyncKaryawan
    None,          \* nobody holds the lock
    StrictSource,  \* TRUE: no two writes of the source carry one stamp
    MaxWrites,     \* bound: writes of the source
    Faults,        \* the kinds of fault that may strike
    MaxFaults      \* bound: how many do

FaultKinds == {"sql", "kill", "commit", "stray", "lockloss", "late"}
LooseKinds == {"stray", "lockloss"}  \* a run's statement outlives its lock

ASSUME NoneAssumption  == None \notin Run
ASSUME BoundAssumption == MaxWrites \in Nat /\ MaxFaults \in Nat
ASSUME FlagAssumption  == StrictSource \in BOOLEAN /\ Faults \subseteq FaultKinds

VARIABLES
    src, clock, writes,       \* the source: its table, its clock, writes so far
    late,                     \* whose row became visible after a newer stamp
    mirror, wm, status, audit,\* Postgres, committed: karyawan, sync_state, sync_runs
    stray,                    \* upserts the server has not executed for a caller gone
    holder,                   \* the transaction that owns the advisory lock
    pc,                       \* the statement a run executes next
    open,                     \* is the run's transaction alive
    pendRun, pendState,       \* what it has written to sync_runs and to sync_state
    maxTs, todo,              \* the run's locals: newest stamp, rows yet to upsert
    result,                   \* what the slot's last run returned
    faults,                   \* faults so far
    loose,                    \* history: the LooseKinds among them
    marks                     \* history: every value the watermark has had

source   == <<src, clock, writes, late>>
watermark == <<wm, marks>>
postgres == <<mirror, watermark, status, audit, stray>>
pending  == <<pendRun, pendState>>
runs     == <<holder, pc, open, pending, maxTs, todo, result>>
harm     == <<faults, loose>>
vars     == <<source, postgres, runs, harm>>

TxStatements   == {"lock", "insert", "state", "finalize", "markFailed", "commit"}
PoolStatements == {"readWatermark", "fetch", "upsert"}

Init ==
    /\ src = [n \in Nik |-> NoRow] /\ clock = Epoch /\ writes = 0 /\ late = {}
    /\ mirror = [n \in Nik |-> NoRow] /\ wm = Epoch /\ status = "none"
    /\ audit = [w \in Run |-> "none"]
    /\ stray = {}
    /\ holder = None
    /\ pc = [w \in Run |-> "idle"]
    /\ open = [w \in Run |-> FALSE]
    /\ pendRun = [w \in Run |-> "none"] /\ pendState = [w \in Run |-> "none"]
    /\ maxTs = [w \in Run |-> Epoch]
    /\ todo = [w \in Run |-> {}]
    /\ result = [w \in Run |-> "none"]
    /\ faults = 0 /\ loose = {} /\ marks = {Epoch}

-----------------------------------------------------------------------------
(* The source: an employee is inserted or updated.  Nothing in the gateway *)
(* notices until a query runs.                                             *)

SourceWrite(n) ==
    /\ writes < MaxWrites
    /\ \E now \in {clock, clock + 1} :
          /\ now > Epoch
          /\ StrictSource => now > clock
          /\ clock' = now
          /\ src' = [src EXCEPT ![n] = [ver |-> writes + 1, ts |-> now]]
    /\ writes' = writes + 1 /\ late' = late \ {n}
    /\ UNCHANGED <<postgres, runs, harm>>

-----------------------------------------------------------------------------
(* A run, statement by statement.                                          *)

Goto(w, label) == pc' = [pc EXCEPT ![w] = label]

(* A bug to catch: a session lock (pg_advisory_lock), never given back.    *)
UnlockedNever(w) == holder

Unlocked(w) == IF holder = w THEN None ELSE holder

(* The transaction is over, committed or rolled back; so is the lock.      *)
EndTx(w) ==
    /\ open'      = [open EXCEPT ![w] = FALSE]
    /\ pendRun'   = [pendRun EXCEPT ![w] = "none"]
    /\ pendState' = [pendState EXCEPT ![w] = "none"]
    /\ holder'    = Unlocked(w)

(* SyncKaryawan returns r, ending its transaction; its locals are gone.    *)
Return(w, r) ==
    /\ Goto(w, "idle")
    /\ EndTx(w)
    /\ maxTs'  = [maxTs EXCEPT ![w] = Epoch]
    /\ todo'   = [todo EXCEPT ![w] = {}]
    /\ result' = [result EXCEPT ![w] = r]

Begin(w) ==
    /\ pc[w] = "idle"
    /\ Goto(w, "lock")
    /\ open'   = [open EXCEPT ![w] = TRUE]
    /\ audit'  = [audit EXCEPT ![w] = "none"]
    /\ result' = [result EXCEPT ![w] = "none"]
    /\ UNCHANGED <<source, mirror, watermark, status, stray, holder, pending, maxTs, todo, harm>>

(* A bug to catch: pg_try_advisory_xact_lock, its answer not looked at.    *)
AcquireLockTry(w) ==
    /\ pc[w] = "lock"
    /\ open[w]
    /\ holder' = w
    /\ Goto(w, "insert")
    /\ UNCHANGED <<source, postgres, open, pending, maxTs, todo, result, harm>>

AcquireLock(w) ==
    /\ pc[w] = "lock"
    /\ open[w]
    /\ holder = None
    /\ holder' = w
    /\ Goto(w, "insert")
    /\ UNCHANGED <<source, postgres, open, pending, maxTs, todo, result, harm>>

(* A bug to catch: the row is inserted through the pool, hence committed.  *)
InsertRunThroughPool(w) ==
    /\ pc[w] = "insert"
    /\ open[w]
    /\ audit' = [audit EXCEPT ![w] = "running"]
    /\ Goto(w, "readWatermark")
    /\ UNCHANGED <<source, mirror, watermark, status, stray, holder, open, pending,
                   maxTs, todo, result, harm>>

InsertRun(w) ==
    /\ pc[w] = "insert"
    /\ open[w]
    /\ pendRun' = [pendRun EXCEPT ![w] = "running"]
    /\ Goto(w, "readWatermark")
    /\ UNCHANGED <<source, postgres, holder, open, pendState, maxTs, todo, result, harm>>

(* A bug to catch: the query overlaps the last one by a second.            *)
ReadWatermarkOverlap(w) ==
    /\ pc[w] = "readWatermark"
    /\ maxTs' = [maxTs EXCEPT ![w] = wm - 1]
    /\ Goto(w, "fetch")
    /\ UNCHANGED <<source, postgres, holder, open, pending, todo, result, harm>>

(* Through the pool: the committed watermark.  No row and NULL both read   *)
(* as the epoch, which is what wm starts as.                               *)
ReadWatermark(w) ==
    /\ pc[w] = "readWatermark"
    /\ maxTs' = [maxTs EXCEPT ![w] = wm]
    /\ Goto(w, "fetch")
    /\ UNCHANGED <<source, postgres, holder, open, pending, todo, result, harm>>

Fetch(w) ==
    /\ pc[w] = "fetch"
    /\ todo' = [todo EXCEPT ![w] = FetchKaryawanUpdatedSince(src, maxTs[w])]
    /\ Goto(w, IF todo'[w] = {} THEN "state" ELSE "upsert")
    /\ UNCHANGED <<source, postgres, holder, open, pending, maxTs, result, harm>>

(* The next row of the loop over the fetched rows, in the query's order.   *)
NextRow(w, x) ==
    /\ x \in todo[w]
    /\ \A y \in todo[w] : ~ Before(y, x)

(* One row: repo.Upsert, committed at once whatever becomes of the run.    *)
Upsert(w) ==
    /\ pc[w] = "upsert"
    /\ \E x \in todo[w] :
          /\ NextRow(w, x)
          /\ mirror' = [mirror EXCEPT ![x.nik] = x.row]
          /\ maxTs'  = [maxTs EXCEPT ![w] = IF x.row.ts > @ THEN x.row.ts ELSE @]
          /\ todo'   = [todo EXCEPT ![w] = @ \ {x}]
    /\ Goto(w, IF todo'[w] = {} THEN "state" ELSE "upsert")
    /\ UNCHANGED <<source, watermark, status, audit, stray, holder, open, pending, result, harm>>

MoveWatermark(t) == wm' = t /\ marks' = marks \cup {t}

(* A bug to catch: sync_state is written through the pool.                 *)
WriteStateThroughPool(w) ==
    /\ pc[w] = "state"
    /\ MoveWatermark(maxTs[w])
    /\ status' = "success"
    /\ Goto(w, "finalize")
    /\ UNCHANGED <<source, mirror, audit, stray, holder, open, pending,
                   maxTs, todo, result, harm>>

(* INSERT INTO sync_state ... DO UPDATE: maxTs and 'success'.              *)
WriteState(w) ==
    /\ pc[w] = "state"
    /\ open[w]
    /\ pendState' = [pendState EXCEPT ![w] = "success"]
    /\ Goto(w, "finalize")
    /\ UNCHANGED <<source, postgres, holder, open, pendRun, maxTs, todo, result, harm>>

FinalizeRun(w) ==
    /\ pc[w] = "finalize"
    /\ open[w]
    /\ pendRun' = [pendRun EXCEPT ![w] = "success"]
    /\ Goto(w, "commit")
    /\ UNCHANGED <<source, postgres, holder, open, pendState, maxTs, todo, result, harm>>

MarkRunFailed(w) ==
    /\ pc[w] = "markFailed"
    /\ open[w]
    /\ pendRun'   = [pendRun EXCEPT ![w] = "failed"]
    /\ pendState' = [pendState EXCEPT ![w] = "failed"]
    /\ Goto(w, "commit")
    /\ UNCHANGED <<source, postgres, holder, open, maxTs, todo, result, harm>>

(* A bug to catch: a failed run stores the stamp it got to as well.        *)
MakeVisibleAlways(w) ==
    /\ audit'  = [audit EXCEPT ![w] = pendRun[w]]
    /\ status' = pendState[w]
    /\ MoveWatermark(maxTs[w])
    /\ UNCHANGED <<mirror, stray>>

(* What the transaction wrote becomes visible, all of it.  The statement   *)
(* of markRunFailed leaves the watermark as it is.                         *)
MakeVisible(w) ==
    /\ audit'  = [audit EXCEPT ![w] = pendRun[w]]
    /\ status' = pendState[w]
    /\ MoveWatermark(IF pendState[w] = "success" THEN maxTs[w] ELSE wm)
    /\ UNCHANGED <<mirror, stray>>

Commit(w) ==
    /\ pc[w] = "commit"
    /\ open[w]
    /\ MakeVisible(w)
    /\ Return(w, IF pendState[w] = "success" THEN "ok" ELSE "error")
    /\ UNCHANGED <<source, harm>>

-----------------------------------------------------------------------------
(* What goes wrong.                                                        *)

Fault(kind) ==
    /\ kind \in Faults
    /\ faults < MaxFaults
    /\ faults' = faults + 1
    /\ loose' = loose \cup ({kind} \cap LooseKinds)

(* A transaction of the HR system commits only now what it stamped before  *)
(* rows that can be seen already.                                          *)
SourceWriteLate(n) ==
    /\ writes < MaxWrites
    /\ Fault("late")
    /\ \E then \in (Epoch + 1)..clock :
          src' = [src EXCEPT ![n] = [ver |-> writes + 1, ts |-> then]]
    /\ writes' = writes + 1 /\ late' = late \cup {n}
    /\ UNCHANGED <<clock, postgres, runs>>

(* A statement of the transaction fails.  The transaction can only be      *)
(* rolled back: markRunFailed and Commit after it (and the "best effort"   *)
(* commit after a failed final UPDATE) do not revive it.                   *)
TxStatementFails(w) ==
    /\ pc[w] \in TxStatements
    /\ open[w]
    /\ Fault("sql")
    /\ Return(w, "error")
    /\ UNCHANGED <<source, postgres>>

(* A bug to catch: the error of the last Commit is not looked at.          *)
FindTxGoneIgnored(w) ==
    /\ pc[w] \in TxStatements
    /\ ~ open[w]
    /\ Return(w, IF pc[w] = "commit" THEN "ok" ELSE "error")
    /\ UNCHANGED <<source, postgres, harm>>

(* A statement of a transaction whose connection the server has closed.    *)
FindTxGone(w) ==
    /\ pc[w] \in TxStatements
    /\ ~ open[w]
    /\ Return(w, "error")
    /\ UNCHANGED <<source, postgres, harm>>

(* The upsert under way when its caller gives up: executed or not.         *)
MaybeUpserted(w) ==
    \/ UNCHANGED mirror
    \/ /\ pc[w] = "upsert"
       /\ \E x \in todo[w] :
             NextRow(w, x) /\ mirror' = [mirror EXCEPT ![x.nik] = x.row]

(* A bug to catch: a failed row is skipped and the run goes on.            *)
PoolStatementSkipped(w) ==
    /\ pc[w] \in PoolStatements
    /\ Fault("sql")
    /\ \E x \in todo[w] :
          /\ NextRow(w, x)
          /\ maxTs' = [maxTs EXCEPT ![w] = x.row.ts]
          /\ todo'  = [todo EXCEPT ![w] = @ \ {x}]
    /\ Goto(w, IF todo'[w] = {} THEN "state" ELSE "upsert")
    /\ UNCHANGED <<source, postgres, holder, open, pending, result>>

(* A statement outside it fails: the run records its failure instead.      *)
PoolStatementFails(w) ==
    /\ pc[w] \in PoolStatements
    /\ Fault("sql")
    /\ MaybeUpserted(w)
    /\ todo' = [todo EXCEPT ![w] = {}]
    /\ Goto(w, "markFailed")
    /\ UNCHANGED <<source, watermark, status, audit, stray, holder, open, pending, maxTs, result>>

(* The run's ten minutes are over, or its process dies.  Every further     *)
(* statement fails, the connection closes and the transaction rolls back.  *)
Kill(w) ==
    /\ pc[w] # "idle"
    /\ Fault("kill")
    /\ MaybeUpserted(w)
    /\ Return(w, "error")
    /\ UNCHANGED <<source, watermark, status, audit, stray>>

(* As Kill, but the upsert under way has reached the server and waits      *)
(* there: it is executed later, though nobody waits for it any more.       *)
KillLeavingUpsert(w) ==
    /\ pc[w] = "upsert"
    /\ Fault("stray")
    /\ \E x \in todo[w] : NextRow(w, x) /\ stray' = stray \cup {x}
    /\ Return(w, "error")
    /\ UNCHANGED <<source, mirror, watermark, status, audit>>

ExecuteStray ==
    /\ \E x \in stray :
          /\ mirror' = [mirror EXCEPT ![x.nik] = x.row]
          /\ stray'  = stray \ {x}
    /\ UNCHANGED <<source, watermark, status, audit, runs, harm>>

(* Commit reports an error although the server has committed.              *)
CommitReplyLost(w) ==
    /\ pc[w] = "commit"
    /\ open[w]
    /\ Fault("commit")
    /\ MakeVisible(w)
    /\ Return(w, "error")
    /\ UNCHANGED source

(* The server drops the connection that holds the transaction (a restart,  *)
(* pg_terminate_backend).  The lock is free at once; the run learns of it  *)
(* at its next statement in the transaction, and meanwhile goes on with    *)
(* the statements it sends over other connections.                         *)
LoseConnection(w) ==
    /\ open[w]
    /\ Fault("lockloss")
    /\ EndTx(w)
    /\ UNCHANGED <<source, postgres, pc, maxTs, todo, result>>

(* Start of svc-sync: rows left in 'running' for long are marked failed.   *)
CleanupStaleRuns ==
    /\ \E old \in SUBSET Run :
          audit' = [w \in Run |-> IF w \in old /\ audit[w] = "running"
                                  THEN "failed" ELSE audit[w]]
    /\ UNCHANGED <<source, mirror, watermark, status, stray, runs, harm>>

-----------------------------------------------------------------------------
Step(w) ==
    \/ AcquireLock(w) \/ InsertRun(w) \/ ReadWatermark(w) \/ Fetch(w)
    \/ Upsert(w) \/ WriteState(w) \/ FinalizeRun(w)
    \/ MarkRunFailed(w) \/ Commit(w)

Failure(w) ==
    \/ TxStatementFails(w) \/ FindTxGone(w) \/ PoolStatementFails(w)
    \/ Kill(w) \/ KillLeavingUpsert(w) \/ CommitReplyLost(w) \/ LoseConnection(w)

Next ==
    \/ \E n \in Nik : SourceWrite(n) \/ SourceWriteLate(n)
    \/ \E w \in Run : Begin(w) \/ Step(w) \/ Failure(w)
    \/ ExecuteStray
    \/ CleanupStaleRuns

Spec == Init /\ [][Next]_vars

(* cron starts a run every interval, a goroutine that can run does run,    *)
(* and a statement sent on a closed connection fails.                      *)
Fairness ==
    /\ \A w \in Run : /\ WF_vars(Begin(w))
                      /\ WF_vars(Step(w))
                      /\ WF_vars(FindTxGone(w))
    /\ WF_vars(ExecuteStray)

FairSpec == Spec /\ Fairness

-----------------------------------------------------------------------------
(* What is true of it.                                                     *)

Labels == TxStatements \cup PoolStatements \cup {"idle"}

(* Type invariant.                                                         *)
TypeOK ==
    /\ src \in [Nik -> Row] /\ clock \in Nat /\ writes \in Nat
    /\ late \subseteq Nik /\ (late # {} => "late" \in Faults)
    /\ mirror \in [Nik -> Row] /\ wm \in Nat
    /\ status \in {"none", "failed", "success"}
    /\ audit \in [Run -> {"none", "running", "failed", "success"}]
    /\ stray \subseteq Fetched
    /\ holder \in Run \cup {None}
    /\ pc \in [Run -> Labels]
    /\ open \in [Run -> BOOLEAN]
    /\ pendRun \in [Run -> {"none", "running", "failed", "success"}]
    /\ pendState \in [Run -> {"none", "failed", "success"}]
    /\ maxTs \in [Run -> Nat]
    /\ todo \in [Run -> SUBSET Fetched]
    /\ result \in [Run -> {"none", "ok", "error"}]
    /\ faults \in Nat /\ loose \subseteq Faults \cap LooseKinds
    /\ marks \subseteq Nat

(* A run past the lock: it may read the watermark and write rows.          *)
Working(w) == pc[w] \notin {"idle", "lock"}

(* Runs are serialized from the lock on: none reads the watermark or       *)
(* writes rows while another is past the lock, as long as no connection    *)
(* that holds it has been lost.                                            *)
OneRunAtATime ==
    "lockloss" \notin loose => \A v, w \in Run : Working(v) /\ Working(w) => v = w

(* No stamp comes twice, none out of order.                                *)
Orderly == StrictSource /\ "late" \notin Faults

(* A row the query may have passed by: one stamped in a second at which    *)
(* the watermark has stood, of which others may have been left out by a    *)
(* batch or come after it; and one that came after a newer stamp.          *)
Elusive(n) == n \in late \/ (~ Orderly /\ src[n].ts \in marks)

(* Whatever the source holds up to the watermark is in the mirror, in the  *)
(* version the source has, elusive rows apart, and as long as no statement *)
(* has outlived its lock: nothing behind the watermark will be fetched     *)
(* again, so what is missing there is missing for good.                    *)
MirrorCoversWatermark ==
    loose = {} =>
        \A n \in Nik : src[n].ts <= wm => mirror[n] = src[n] \/ Elusive(n)

(* "a crash mid-sync leaves no 'running' leak" (SyncKaryawan): no run is   *)
(* ever seen running, whatever interrupts it.                              *)
NoRunningLeak == \A w \in Run : audit[w] # "running"

(* A run that reports success to its caller has its row in sync_runs say   *)
(* so, whoever else is running.                                            *)
SuccessIsRecorded ==
    \A w \in Run : result[w] = "ok" => audit[w] = "success" /\ status # "none"

(* No row of the mirror is replaced by an older version of itself, as long *)
(* as no statement outlives its lock.                                      *)
NoRowGoesBack ==
    [][loose' = {} => \A n \in Nik : mirror'[n].ver >= mirror[n].ver]_vars

(* The watermark never moves back, also when a run that has lost its lock  *)
(* is still at work beside another, and never past the clock by which the  *)
(* source stamps: what is written after it is not older than it.           *)
WatermarkMonotone == [][wm <= wm' /\ wm' <= clock']_vars

(* The watermark moves only in a step that also publishes a run's success, *)
(* in sync_runs and in sync_state: no failed run carries it forward.       *)
WatermarkNeedsSuccess ==
    [][wm' # wm => /\ status' = "success"
                   /\ \E w \in Run : audit[w] = "none" /\ audit'[w] = "success"]_vars

(* Once the source rests and faults are over the mirror ends up equal to   *)
(* it, as "a VPS outage now only delays new changes until the next         *)
(* successful sync" (README) has it.                                       *)
Converges == <>[](mirror = src)

(* The run that is at work does what the abstract specification allows.    *)
Abstract == INSTANCE Mirror WITH
    Row <- [ver : 0..MaxWrites, ts : 0..MaxWrites]
ImplementsMirror == Abstract!Spec
=============================================================================
