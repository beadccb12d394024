---------------------------- MODULE SyncerProofs ----------------------------
(* Theorems about Syncer, for every value of its constants.                *)
EXTENDS Syncer, TLAPS

(* What the query returns are rows of the table it is asked of.            *)
LEMMA FetchType ==
    ASSUME NEW table \in [Nik -> Row], NEW since
    PROVE  FetchKaryawanUpdatedSince(table, since) \subseteq Fetched
BY DEF FetchKaryawanUpdatedSince, FirstOf, NewerThan, Fetched

LEMMA InitType == Init => TypeOK
BY BoundAssumption, NoneAssumption
   DEF Init, TypeOK, Row, NoRow, Epoch, Labels, TxStatements, PoolStatements

(* Returning from a run keeps the types of what it resets.                 *)
LEMMA ReturnType ==
    ASSUME TypeOK, NEW w \in Run, NEW r \in {"none", "ok", "error"}, Return(w, r)
    PROVE  /\ holder' \in Run \cup {None}
           /\ pc' \in [Run -> Labels]
           /\ open' \in [Run -> BOOLEAN]
           /\ pendRun' \in [Run -> {"none", "running", "failed", "success"}]
           /\ pendState' \in [Run -> {"none", "failed", "success"}]
           /\ maxTs' \in [Run -> Nat]
           /\ todo' \in [Run -> SUBSET Fetched]
           /\ result' \in [Run -> {"none", "ok", "error"}]
BY DEF TypeOK, Return, EndTx, Goto, Unlocked, Labels, Epoch

(* The transaction's writes have the types of what they replace.           *)
LEMMA VisibleType ==
    ASSUME TypeOK, NEW w \in Run, MakeVisible(w)
    PROVE  /\ mirror' \in [Nik -> Row] /\ wm' \in Nat /\ marks' \subseteq Nat
           /\ status' \in {"none", "failed", "success"}
           /\ audit' \in [Run -> {"none", "running", "failed", "success"}]
           /\ stray' \subseteq Fetched
BY DEF TypeOK, MakeVisible, MoveWatermark

LEMMA FaultType ==
    \A k : TypeOK /\ Fault(k) => faults' \in Nat /\ loose' \subseteq Faults \cap LooseKinds
BY DEF TypeOK, Fault

LEMMA MaybeUpsertedType ==
    ASSUME TypeOK, NEW w \in Run, MaybeUpserted(w)
    PROVE  mirror' \in [Nik -> Row]
BY DEF TypeOK, MaybeUpserted, NextRow, Fetched

LEMMA StepType == TypeOK /\ [Next]_vars => TypeOK'
<1> SUFFICES ASSUME TypeOK, [Next]_vars PROVE TypeOK'
  OBVIOUS
<1> USE DEF source, watermark, postgres, pending, runs, harm
<1>1. ASSUME NEW n \in Nik, SourceWrite(n) PROVE TypeOK'
  BY <1>1 DEF TypeOK, SourceWrite, Row, Epoch
<1>22. ASSUME NEW n \in Nik, SourceWriteLate(n) PROVE TypeOK'
  <2> PICK then \in (Epoch + 1)..clock :
          src' = [src EXCEPT ![n] = [ver |-> writes + 1, ts |-> then]]
    BY <1>22 DEF SourceWriteLate
  <2>1. then \in Nat
    BY DEF TypeOK, Epoch
  <2> QED
    BY <1>22, <2>1, FaultType DEF TypeOK, SourceWriteLate, Fault, Row
<1>2. ASSUME NEW w \in Run, Begin(w) PROVE TypeOK'
  BY <1>2 DEF TypeOK, Begin, Goto, Labels, TxStatements
<1>3. ASSUME NEW w \in Run, AcquireLock(w) PROVE TypeOK'
  BY <1>3 DEF TypeOK, AcquireLock, Goto, Labels, TxStatements
<1>4. ASSUME NEW w \in Run, InsertRun(w) PROVE TypeOK'
  BY <1>4 DEF TypeOK, InsertRun, Goto, Labels, PoolStatements
<1>5. ASSUME NEW w \in Run, ReadWatermark(w) PROVE TypeOK'
  BY <1>5 DEF TypeOK, ReadWatermark, Goto, Labels, PoolStatements
<1>6. ASSUME NEW w \in Run, Fetch(w) PROVE TypeOK'
  BY <1>6, FetchType DEF TypeOK, Fetch, Goto, Labels, TxStatements, PoolStatements
<1>7. ASSUME NEW w \in Run, Upsert(w) PROVE TypeOK'
  <2> PICK x \in todo[w] :
          /\ mirror' = [mirror EXCEPT ![x.nik] = x.row]
          /\ maxTs'  = [maxTs EXCEPT ![w] = IF x.row.ts > @ THEN x.row.ts ELSE @]
          /\ todo'   = [todo EXCEPT ![w] = @ \ {x}]
    BY <1>7 DEF Upsert
  <2>1. x \in Fetched /\ x.row.ts \in Nat
    BY DEF TypeOK, Fetched, Row
  <2>2. mirror' \in [Nik -> Row] /\ maxTs' \in [Run -> Nat] /\ todo' \in [Run -> SUBSET Fetched]
    BY <2>1 DEF TypeOK, Fetched
  <2> QED
    BY <1>7, <2>2 DEF TypeOK, Upsert, Goto, Labels, TxStatements, PoolStatements
<1>8. ASSUME NEW w \in Run, WriteState(w) PROVE TypeOK'
  BY <1>8 DEF TypeOK, WriteState, Goto, Labels, TxStatements
<1>9. ASSUME NEW w \in Run, FinalizeRun(w) PROVE TypeOK'
  BY <1>9 DEF TypeOK, FinalizeRun, Goto, Labels, TxStatements
<1>10. ASSUME NEW w \in Run, MarkRunFailed(w) PROVE TypeOK'
  BY <1>10 DEF TypeOK, MarkRunFailed, Goto, Labels, TxStatements
<1>11. ASSUME NEW w \in Run, Commit(w) PROVE TypeOK'
  BY <1>11, ReturnType, VisibleType DEF TypeOK, Commit
<1>12. ASSUME NEW w \in Run, TxStatementFails(w) PROVE TypeOK'
  BY <1>12, ReturnType, FaultType DEF TypeOK, TxStatementFails
<1>13. ASSUME NEW w \in Run, FindTxGone(w) PROVE TypeOK'
  BY <1>13, ReturnType DEF TypeOK, FindTxGone
<1>14. ASSUME NEW w \in Run, PoolStatementFails(w) PROVE TypeOK'
  BY <1>14, FaultType, MaybeUpsertedType
     DEF TypeOK, PoolStatementFails, Goto, Labels, TxStatements
<1>15. ASSUME NEW w \in Run, Kill(w) PROVE TypeOK'
  BY <1>15, ReturnType, FaultType, MaybeUpsertedType DEF TypeOK, Kill
<1>16. ASSUME NEW w \in Run, KillLeavingUpsert(w) PROVE TypeOK'
  BY <1>16, ReturnType, FaultType DEF TypeOK, KillLeavingUpsert
<1>17. ASSUME NEW w \in Run, CommitReplyLost(w) PROVE TypeOK'
  BY <1>17, ReturnType, VisibleType, FaultType DEF TypeOK, CommitReplyLost
<1>18. ASSUME NEW w \in Run, LoseConnection(w) PROVE TypeOK'
  BY <1>18, FaultType DEF TypeOK, LoseConnection, EndTx, Unlocked
<1>19. CASE ExecuteStray
  BY <1>19 DEF TypeOK, ExecuteStray, Fetched
<1>20. CASE CleanupStaleRuns
  BY <1>20 DEF TypeOK, CleanupStaleRuns
<1>21. CASE UNCHANGED vars
  BY <1>21 DEF TypeOK, vars
<1> QED
  BY <1>1, <1>2, <1>3, <1>4, <1>5, <1>6, <1>7, <1>8, <1>9, <1>10, <1>11, <1>12, <1>13,
     <1>14, <1>15, <1>16, <1>17, <1>18, <1>19, <1>20, <1>21, <1>22
     DEF Next, Step, Failure

(* Types are kept through every interleaving of runs, faults and writes of *)
(* the source.                                                             *)
THEOREM TypeCorrect == Spec => []TypeOK
BY InitType, StepType, PTL DEF Spec

-----------------------------------------------------------------------------
(* The lock.  Its owner is the one run past the lock statement whose       *)
(* transaction is alive; it survives the loss of connections.              *)
LockInv ==
    \A w \in Run : /\ pc[w] = "idle" => ~ open[w]
                   /\ holder = w <=> open[w] /\ Working(w)

LEMMA LockInit == Init => LockInv
BY NoneAssumption DEF Init, LockInv, Working

(* Steps that neither move w past the lock nor end its transaction.        *)
LEMMA LockReturn ==
    ASSUME TypeOK, LockInv, NEW w \in Run, NEW r, Return(w, r)
    PROVE  LockInv'
BY NoneAssumption DEF TypeOK, LockInv, Return, EndTx, Goto, Unlocked, Working

LEMMA LockStep == TypeOK /\ LockInv /\ [Next]_vars => LockInv'
<1> SUFFICES ASSUME TypeOK, LockInv, [Next]_vars PROVE LockInv'
  OBVIOUS
<1> USE DEF source, watermark, postgres, pending, runs, harm
<1>1. ASSUME NEW n \in Nik, SourceWrite(n) \/ SourceWriteLate(n) PROVE LockInv'
  BY <1>1 DEF LockInv, SourceWrite, SourceWriteLate, Working
<1>2. ASSUME NEW w \in Run, Begin(w) PROVE LockInv'
  BY <1>2 DEF TypeOK, LockInv, Begin, Goto, Working
<1>3. ASSUME NEW w \in Run, AcquireLock(w) PROVE LockInv'
  BY <1>3, NoneAssumption DEF TypeOK, LockInv, AcquireLock, Goto, Working
<1>4. ASSUME NEW w \in Run, Step(w), ~ AcquireLock(w), ~ Commit(w) PROVE LockInv'
  <2>1. /\ \E l \in Labels \ {"idle", "lock"} : pc' = [pc EXCEPT ![w] = l]
        /\ pc[w] \notin {"idle", "lock"}
        /\ UNCHANGED <<open, holder>>
    BY <1>4 DEF Step, InsertRun, ReadWatermark, Fetch, Upsert, WriteState, FinalizeRun,
                MarkRunFailed, Goto, Labels, TxStatements, PoolStatements
  <2> QED
    BY <2>1 DEF TypeOK, LockInv, Working
<1>5. ASSUME NEW w \in Run, Commit(w) PROVE LockInv'
  BY <1>5, LockReturn DEF Commit
<1>6. ASSUME NEW w \in Run, Failure(w), ~ PoolStatementFails(w), ~ LoseConnection(w)
      PROVE  LockInv'
  BY <1>6, LockReturn
     DEF Failure, TxStatementFails, FindTxGone, Kill, KillLeavingUpsert, CommitReplyLost
<1>7. ASSUME NEW w \in Run, PoolStatementFails(w) PROVE LockInv'
  BY <1>7 DEF TypeOK, LockInv, PoolStatementFails, PoolStatements, Goto, Working
<1>8. ASSUME NEW w \in Run, LoseConnection(w) PROVE LockInv'
  BY <1>8, NoneAssumption DEF TypeOK, LockInv, LoseConnection, EndTx, Unlocked, Working
<1>9. CASE ExecuteStray \/ CleanupStaleRuns \/ UNCHANGED vars
  BY <1>9 DEF LockInv, ExecuteStray, CleanupStaleRuns, vars, Working
<1> QED
  BY <1>1, <1>2, <1>3, <1>4, <1>5, <1>6, <1>7, <1>8, <1>9 DEF Next

(* As long as the server has dropped no connection, a run that has begun   *)
(* has its transaction.                                                    *)
Connected == "lockloss" \notin loose => \A w \in Run : pc[w] # "idle" => open[w]

(* What has struck stays on the record.                                    *)
LEMMA LooseGrows == [Next]_vars => loose \subseteq loose'
BY DEF Next, Step, Failure, Fault, vars, harm, SourceWrite, SourceWriteLate, Begin,
       AcquireLock, InsertRun,
       ReadWatermark, Fetch, Upsert, WriteState, FinalizeRun, MarkRunFailed, Commit,
       TxStatementFails, FindTxGone, PoolStatementFails, Kill, KillLeavingUpsert,
       CommitReplyLost, LoseConnection, ExecuteStray, CleanupStaleRuns

LEMMA ConnectedStep == TypeOK /\ Connected /\ [Next]_vars => Connected'
<1> SUFFICES ASSUME TypeOK, Connected, [Next]_vars, "lockloss" \notin loose'
             PROVE  \A w \in Run : pc'[w] # "idle" => open'[w]
  BY DEF Connected
<1> USE DEF source, watermark, postgres, pending, runs, harm
<1>a. \A w \in Run : pc[w] # "idle" => open[w]
  BY LooseGrows DEF Connected
<1>1. ASSUME NEW w \in Run, NEW r, Return(w, r) PROVE Connected'
  BY <1>a, <1>1 DEF TypeOK, Connected, Return, EndTx, Goto
<1>2. ASSUME NEW w \in Run, Begin(w) PROVE Connected'
  BY <1>a, <1>2 DEF TypeOK, Connected, Begin, Goto
<1>3. ASSUME NEW w \in Run, Step(w), ~ Commit(w) PROVE Connected'
  <2>1. /\ pc' \in [Run -> Labels] /\ pc[w] # "idle"
        /\ \A v \in Run \ {w} : pc'[v] = pc[v]
        /\ UNCHANGED open
    BY <1>3, StepType
       DEF TypeOK, Step, AcquireLock, InsertRun, ReadWatermark, Fetch, Upsert, WriteState,
           FinalizeRun, MarkRunFailed, Goto, Labels, TxStatements, PoolStatements
  <2> QED
    BY <1>a, <2>1 DEF TypeOK, Connected
<1>4. ASSUME NEW w \in Run, Commit(w) PROVE Connected'
  BY <1>1, <1>4 DEF Commit
<1>5. ASSUME NEW w \in Run, Failure(w), ~ PoolStatementFails(w) PROVE Connected'
  BY <1>1, <1>5
     DEF Failure, TxStatementFails, FindTxGone, Kill, KillLeavingUpsert, CommitReplyLost,
         LoseConnection, Fault, LooseKinds
<1>6. ASSUME NEW w \in Run, PoolStatementFails(w) PROVE Connected'
  BY <1>a, <1>6 DEF TypeOK, Connected, PoolStatementFails, PoolStatements, Goto
<1>7. CASE \/ \E n \in Nik : SourceWrite(n) \/ SourceWriteLate(n)
          \/ ExecuteStray \/ CleanupStaleRuns \/ UNCHANGED vars
  BY <1>a, <1>7 DEF Connected, SourceWrite, SourceWriteLate, Fault, ExecuteStray, CleanupStaleRuns, vars
<1> QED
  BY <1>2, <1>3, <1>4, <1>5, <1>6, <1>7 DEF Next, Connected

(* The lock serializes runs, whatever else fails, until a connection that  *)
(* holds it is dropped under a run that goes on.                           *)
THEOREM Serialized == Spec => []OneRunAtATime
<1>1. Init => Connected
  BY DEF Init, Connected
<1>2. LockInv /\ Connected => OneRunAtATime
  BY DEF LockInv, Connected, OneRunAtATime, Working
<1> QED
  BY <1>1, <1>2, InitType, StepType, LockInit, LockStep, ConnectedStep, PTL DEF Spec

-----------------------------------------------------------------------------
(* The records.  What a run has written to its transaction agrees with     *)
(* where it is, and what is committed agrees with what it returned.        *)
RecordInv ==
    /\ \A w \in Run : pc[w] # "idle" => audit[w] = "none" /\ result[w] = "none"
    /\ \A w \in Run : open[w] /\ pc[w] = "finalize" => pendState[w] = "success"
    /\ \A w \in Run : open[w] /\ pc[w] = "commit" =>
          pendRun[w] = pendState[w] /\ pendRun[w] \in {"success", "failed"}
    /\ NoRunningLeak
    /\ SuccessIsRecorded

LEMMA RecordInit == Init => RecordInv
BY DEF Init, RecordInv, NoRunningLeak, SuccessIsRecorded

(* A run that ends having published nothing, and not claiming success.     *)
LEMMA RecordReturn ==
    ASSUME TypeOK, LockInv, RecordInv, NEW w \in Run, Return(w, "error"),
           UNCHANGED <<audit, status>>
    PROVE  RecordInv'
BY DEF TypeOK, LockInv, RecordInv, NoRunningLeak, SuccessIsRecorded, Return, EndTx, Goto

(* A run that ends publishing what it has written.                         *)
LEMMA RecordVisible ==
    ASSUME TypeOK, LockInv, RecordInv, NEW w \in Run, pc[w] = "commit", open[w],
           MakeVisible(w), NEW r \in {"ok", "error"}, Return(w, r),
           r = "ok" => pendState[w] = "success"
    PROVE  RecordInv'
BY DEF TypeOK, LockInv, RecordInv, NoRunningLeak, SuccessIsRecorded, Return, EndTx, Goto,
       MakeVisible, MoveWatermark

LEMMA RecordStep == TypeOK /\ LockInv /\ RecordInv /\ [Next]_vars => RecordInv'
<1> SUFFICES ASSUME TypeOK, LockInv, RecordInv, [Next]_vars PROVE RecordInv'
  OBVIOUS
<1> USE DEF source, watermark, postgres, pending, runs, harm, RecordInv, NoRunningLeak, SuccessIsRecorded
<1>1. ASSUME NEW w \in Run, Begin(w) PROVE RecordInv'
  BY <1>1 DEF TypeOK, Begin, Goto
<1>2. ASSUME NEW w \in Run, AcquireLock(w) \/ ReadWatermark(w) \/ Fetch(w) \/ Upsert(w)
      PROVE  RecordInv'
  BY <1>2 DEF TypeOK, AcquireLock, ReadWatermark, Fetch, Upsert, Goto
<1>3. ASSUME NEW w \in Run, InsertRun(w) PROVE RecordInv'
  BY <1>3 DEF TypeOK, InsertRun, Goto
<1>4. ASSUME NEW w \in Run, WriteState(w) PROVE RecordInv'
  BY <1>4 DEF TypeOK, WriteState, Goto
<1>5. ASSUME NEW w \in Run, FinalizeRun(w) PROVE RecordInv'
  BY <1>5 DEF TypeOK, FinalizeRun, Goto
<1>6. ASSUME NEW w \in Run, MarkRunFailed(w) PROVE RecordInv'
  BY <1>6 DEF TypeOK, MarkRunFailed, Goto
<1>7. ASSUME NEW w \in Run, Commit(w) PROVE RecordInv'
  BY <1>7, RecordVisible DEF Commit
<1>8. ASSUME NEW w \in Run, CommitReplyLost(w) PROVE RecordInv'
  BY <1>8, RecordVisible DEF CommitReplyLost
<1>9. ASSUME NEW w \in Run,
             TxStatementFails(w) \/ FindTxGone(w) \/ Kill(w) \/ KillLeavingUpsert(w)
      PROVE  RecordInv'
  BY <1>9, RecordReturn DEF TxStatementFails, FindTxGone, Kill, KillLeavingUpsert
<1>10. ASSUME NEW w \in Run, PoolStatementFails(w) PROVE RecordInv'
  BY <1>10 DEF TypeOK, PoolStatementFails, PoolStatements, Goto
<1>11. ASSUME NEW w \in Run, LoseConnection(w) PROVE RecordInv'
  BY <1>11 DEF TypeOK, LoseConnection, EndTx
<1>12. CASE CleanupStaleRuns
  <2>1. UNCHANGED audit
    BY <1>12 DEF TypeOK, CleanupStaleRuns
  <2> QED
    BY <1>12, <2>1 DEF CleanupStaleRuns
<1>13. CASE \/ \E n \in Nik : SourceWrite(n) \/ SourceWriteLate(n)
           \/ ExecuteStray \/ UNCHANGED vars
  BY <1>13 DEF SourceWrite, SourceWriteLate, ExecuteStray, vars
<1> QED
  BY <1>1, <1>2, <1>3, <1>4, <1>5, <1>6, <1>7, <1>8, <1>9, <1>10, <1>11, <1>12, <1>13
     DEF Next, Step, Failure

LEMMA RecordAlways == Spec => [](TypeOK /\ LockInv /\ RecordInv)
BY InitType, StepType, LockInit, LockStep, RecordInit, RecordStep, PTL DEF Spec

(* No row of sync_runs is ever seen in 'running', so CleanupStaleRuns has  *)
(* nothing to recover.                                                     *)
THEOREM RunningNeverLeaks == Spec => []NoRunningLeak
BY RecordAlways, PTL DEF RecordInv

(* A run that returns without an error has committed its success.          *)
THEOREM SuccessAlwaysRecorded == Spec => []SuccessIsRecorded
BY RecordAlways, PTL DEF RecordInv

-----------------------------------------------------------------------------
(* The watermark.  What the owner of the lock has read is not older than   *)
(* the watermark, which nobody else can move meanwhile.                    *)
WatermarkInv ==
    \A w \in Run :
        /\ open[w] /\ pc[w] \in {"fetch", "upsert", "state", "finalize"} => maxTs[w] >= wm
        /\ pendState[w] = "success" =>
              open[w] /\ maxTs[w] >= wm /\ pc[w] \in {"finalize", "commit"}

LEMMA WatermarkInit == Init => WatermarkInv
BY DEF Init, WatermarkInv

(* Ending a transaction, with or without moving the watermark: every other *)
(* live transaction still waits for the lock.                              *)
LEMMA WatermarkReturn ==
    ASSUME TypeOK, LockInv, WatermarkInv, NEW w \in Run, NEW r, Return(w, r),
           wm' = wm \/ (open[w] /\ pc[w] = "commit" /\ wm' = maxTs[w])
    PROVE  WatermarkInv'
<1>1. ASSUME NEW v \in Run, v # w
      PROVE  /\ open'[v] = open[v] /\ pc'[v] = pc[v]
             /\ maxTs'[v] = maxTs[v] /\ pendState'[v] = pendState[v]
  BY <1>1 DEF TypeOK, Return, EndTx, Goto
<1>4. ~ open'[w] /\ pendState'[w] = "none"
  BY DEF TypeOK, Return, EndTx
<1>2. CASE wm' = wm
  BY <1>4, <1>1, <1>2 DEF WatermarkInv
<1>3. CASE open[w] /\ pc[w] = "commit"
  <2>1. ASSUME NEW v \in Run, v # w, open[v] PROVE pc[v] \in {"idle", "lock"}
    BY <1>3, <2>1 DEF LockInv, Working
  <2> QED
    BY <1>4, <1>1, <2>1 DEF WatermarkInv
<1> QED
  BY <1>2, <1>3

LEMMA WatermarkStep ==
    TypeOK /\ LockInv /\ WatermarkInv /\ [Next]_vars => WatermarkInv'
<1> SUFFICES ASSUME TypeOK, LockInv, WatermarkInv, [Next]_vars PROVE WatermarkInv'
  OBVIOUS
<1> USE DEF source, watermark, postgres, pending, runs, harm
<1>1. ASSUME NEW w \in Run, Begin(w) PROVE WatermarkInv'
  BY <1>1 DEF TypeOK, LockInv, WatermarkInv, Begin, Goto
<1>2. ASSUME NEW w \in Run, AcquireLock(w) \/ InsertRun(w) PROVE WatermarkInv'
  BY <1>2 DEF TypeOK, WatermarkInv, AcquireLock, InsertRun, Goto
<1>3. ASSUME NEW w \in Run, ReadWatermark(w) PROVE WatermarkInv'
  BY <1>3 DEF TypeOK, WatermarkInv, ReadWatermark, Goto
<1>4. ASSUME NEW w \in Run, Fetch(w) PROVE WatermarkInv'
  BY <1>4 DEF TypeOK, WatermarkInv, Fetch, Goto
<1>5. ASSUME NEW w \in Run, Upsert(w) PROVE WatermarkInv'
  <2> PICK x \in todo[w] :
          maxTs' = [maxTs EXCEPT ![w] = IF x.row.ts > @ THEN x.row.ts ELSE @]
    BY <1>5 DEF Upsert
  <2>1. x.row.ts \in Nat
    BY DEF TypeOK, Fetched, Row
  <2>2. \A v \in Run : maxTs'[v] >= maxTs[v] /\ maxTs[v] \in Nat /\ maxTs'[v] \in Nat
    BY <2>1 DEF TypeOK
  <2>3. /\ UNCHANGED <<wm, open, pendState>> /\ wm \in Nat /\ pc[w] = "upsert"
        /\ \A v \in Run \ {w} : pc'[v] = pc[v]
    BY <1>5 DEF TypeOK, Upsert, Goto
  <2>4. pendState[w] # "success"
    BY <2>3 DEF WatermarkInv
  <2> QED
    BY <2>2, <2>3, <2>4 DEF WatermarkInv
<1>6. ASSUME NEW w \in Run, WriteState(w) PROVE WatermarkInv'
  BY <1>6 DEF TypeOK, WatermarkInv, WriteState, Goto
<1>7. ASSUME NEW w \in Run, FinalizeRun(w) \/ MarkRunFailed(w) PROVE WatermarkInv'
  BY <1>7 DEF TypeOK, WatermarkInv, FinalizeRun, MarkRunFailed, Goto
<1>8. ASSUME NEW w \in Run, Commit(w) \/ CommitReplyLost(w) PROVE WatermarkInv'
  <2>1. /\ pc[w] = "commit" /\ open[w] /\ \E r : Return(w, r)
        /\ wm' = IF pendState[w] = "success" THEN maxTs[w] ELSE wm
    BY <1>8 DEF Commit, CommitReplyLost, MakeVisible, MoveWatermark
  <2> QED
    BY <2>1, WatermarkReturn
<1>9. ASSUME NEW w \in Run,
             TxStatementFails(w) \/ FindTxGone(w) \/ Kill(w) \/ KillLeavingUpsert(w)
      PROVE  WatermarkInv'
  BY <1>9, WatermarkReturn DEF TxStatementFails, FindTxGone, Kill, KillLeavingUpsert
<1>10. ASSUME NEW w \in Run, PoolStatementFails(w) PROVE WatermarkInv'
  BY <1>10 DEF TypeOK, WatermarkInv, PoolStatementFails, PoolStatements, Goto
<1>11. ASSUME NEW w \in Run, LoseConnection(w) PROVE WatermarkInv'
  BY <1>11 DEF TypeOK, WatermarkInv, LoseConnection, EndTx
<1>12. CASE \/ \E n \in Nik : SourceWrite(n) \/ SourceWriteLate(n)
          \/ ExecuteStray \/ CleanupStaleRuns \/ UNCHANGED vars
  BY <1>12 DEF WatermarkInv, SourceWrite, SourceWriteLate, ExecuteStray, CleanupStaleRuns, vars
<1> QED
  BY <1>1, <1>2, <1>3, <1>4, <1>5, <1>6, <1>7, <1>8, <1>9, <1>10, <1>11, <1>12
     DEF Next, Step, Failure

(* Only a commit moves the watermark.                                      *)
LEMMA WatermarkMovers ==
    ASSUME [Next]_vars, wm' # wm
    PROVE  \E w \in Run : /\ pc[w] = "commit" /\ open[w] /\ pendState[w] = "success"
                          /\ MakeVisible(w)
BY DEF Next, Step, Failure, source, watermark, postgres, runs, vars, SourceWrite,
       SourceWriteLate, Begin, AcquireLock, InsertRun, ReadWatermark, Fetch, Upsert, WriteState, FinalizeRun, MarkRunFailed,
       Commit, TxStatementFails, FindTxGone, PoolStatementFails, Kill, MakeVisible, MoveWatermark,
       KillLeavingUpsert, CommitReplyLost, LoseConnection, ExecuteStray, CleanupStaleRuns

(* The watermark moves only together with the record of a success.         *)
THEOREM WatermarkMovesWithSuccess == Spec => WatermarkNeedsSuccess
<1> DEFINE Moved ==
        wm' # wm => /\ status' = "success"
                    /\ \E w \in Run : audit[w] = "none" /\ audit'[w] = "success"
<1>1. TypeOK /\ RecordInv /\ [Next]_vars => [Moved]_vars
  BY WatermarkMovers DEF TypeOK, RecordInv, MakeVisible
<1> QED
  BY <1>1, RecordAlways, PTL DEF Spec, WatermarkNeedsSuccess

-----------------------------------------------------------------------------
(* What is copied.  Rows in the mirror, in a run's hands or under way are  *)
(* versions the source has or had, under every fault.                      *)
Version == [ver : 0..MaxWrites, ts : 0..MaxWrites]

(* The source: its clock is the newest stamp, its last write the newest    *)
(* version; in an orderly one the stamps are distinct.                     *)
SourceInv ==
    /\ clock <= writes /\ writes <= MaxWrites
    /\ \A n \in Nik : src[n] \in Version /\ src[n].ts <= clock /\ src[n].ver <= writes
    /\ Orderly =>
          \A n, m \in Nik : src[n].ts = src[m].ts => n = m \/ src[n].ts = Epoch

(* A version r of n's row that the source has or had.                      *)
NotAhead(r, n) ==
    /\ r \in Version /\ r.ts <= clock /\ r.ver <= src[n].ver
    /\ n \notin late => r.ts <= src[n].ts
    /\ r.ver = src[n].ver => r = src[n]
    /\ Orderly /\ r.ts = src[n].ts => r = src[n]

FromSource(x) == NotAhead(x.row, x.nik)

AheadInv ==
    /\ SourceInv
    /\ wm <= clock /\ wm \in marks
    /\ \A n \in Nik : NotAhead(mirror[n], n)
    /\ \A x \in stray : FromSource(x)
    /\ \A w \in Run : maxTs[w] <= clock /\ \A x \in todo[w] : FromSource(x)

LEMMA AheadInit == TypeOK /\ Init => AheadInv
BY BoundAssumption
   DEF TypeOK, Init, AheadInv, SourceInv, NotAhead, FromSource, Version, NoRow, Epoch

(* A write of the source leaves every version seen so far behind it.       *)
LEMMA AheadWrite ==
    ASSUME TypeOK, AheadInv, NEW n \in Nik, SourceWrite(n)
    PROVE  AheadInv'
<1>1. PICK now \in {clock, clock + 1} :
          /\ StrictSource => now > clock
          /\ clock' = now
          /\ src' = [src EXCEPT ![n] = [ver |-> writes + 1, ts |-> now]]
  BY DEF SourceWrite
<1>2. /\ writes' = writes + 1 /\ writes < MaxWrites /\ late' = late \ {n}
      /\ UNCHANGED <<mirror, wm, marks, stray, maxTs, todo>>
  BY DEF SourceWrite, postgres, watermark, runs
<1>3. clock \in Nat /\ writes \in Nat /\ wm \in Nat /\ clock <= now /\ now \in Nat
  BY <1>1 DEF TypeOK
<1>4. /\ src'[n] = [ver |-> writes + 1, ts |-> now]
      /\ \A m \in Nik \ {n} : src'[m] = src[m]
  BY <1>1 DEF TypeOK
<1>5. SourceInv
  BY DEF AheadInv
<1>6. \A m \in Nik : src[m].ts \in Nat /\ src[m].ver \in Nat
  BY DEF TypeOK, Row
<1>7. SourceInv'
  <2>1. clock' <= writes' /\ writes' <= MaxWrites
    BY <1>1, <1>2, <1>3, <1>5, BoundAssumption DEF SourceInv
  <2>2. ASSUME NEW m \in Nik
        PROVE  src'[m] \in Version /\ src'[m].ts <= clock' /\ src'[m].ver <= writes'
    BY <1>1, <1>2, <1>3, <1>4, <1>5, <1>6, <2>1, BoundAssumption DEF SourceInv, Version
  <2>3. ASSUME Orderly, NEW m \in Nik, NEW l \in Nik, src'[m].ts = src'[l].ts
        PROVE  m = l \/ src'[m].ts = Epoch
    BY <1>1, <1>3, <1>4, <1>5, <1>6, <2>3 DEF SourceInv, Orderly
  <2> QED
    BY <2>1, <2>2, <2>3 DEF SourceInv, Orderly
<1>8. ASSUME NEW r, NEW m \in Nik, NotAhead(r, m) PROVE NotAhead(r, m)'
  <2>1. r.ts \in Nat /\ r.ver \in Nat /\ r.ts <= clock /\ r.ver <= src[m].ver
    BY <1>8, BoundAssumption DEF NotAhead, Version
  <2>2. CASE m # n
    BY <1>1, <1>2, <1>3, <1>4, <1>8, <2>1, <2>2 DEF NotAhead, Orderly
  <2>3. CASE m = n
    <3>1. r.ver < writes + 1 /\ src'[m].ver = writes + 1 /\ src'[m].ts = now
      BY <1>3, <1>4, <1>5, <1>6, <2>1, <2>3 DEF SourceInv
    <3> QED
      BY <1>1, <1>3, <1>8, <2>1, <3>1 DEF NotAhead, Orderly
  <2> QED
    BY <2>2, <2>3
<1>9. ASSUME NEW x \in Fetched, FromSource(x) PROVE FromSource(x)'
  BY <1>8, <1>9 DEF FromSource, Fetched
<1>10. stray \subseteq Fetched /\ \A w \in Run : todo[w] \subseteq Fetched /\ maxTs[w] \in Nat
  BY DEF TypeOK
<1> QED
  BY <1>1, <1>2, <1>3, <1>7, <1>8, <1>9, <1>10 DEF AheadInv

(* A write that becomes visible late: nothing that was read before is any   *)
(* the newer for it, and the employee counts as late from now on.          *)
LEMMA AheadWriteLate ==
    ASSUME TypeOK, AheadInv, NEW n \in Nik, SourceWriteLate(n)
    PROVE  AheadInv'
<1>1. PICK then \in (Epoch + 1)..clock :
          src' = [src EXCEPT ![n] = [ver |-> writes + 1, ts |-> then]]
  BY DEF SourceWriteLate
<1>2. /\ writes' = writes + 1 /\ writes < MaxWrites /\ late' = late \cup {n}
      /\ UNCHANGED <<clock, mirror, wm, marks, stray, maxTs, todo>>
  BY DEF SourceWriteLate, postgres, watermark, runs
<1>3. clock \in Nat /\ writes \in Nat /\ then \in Nat /\ then <= clock
  BY <1>1 DEF TypeOK, Epoch
<1>4. /\ src'[n] = [ver |-> writes + 1, ts |-> then]
      /\ \A m \in Nik \ {n} : src'[m] = src[m]
  BY <1>1 DEF TypeOK
<1>5. SourceInv /\ ~ Orderly
  BY DEF AheadInv, SourceWriteLate, Fault, Orderly
<1>6. \A m \in Nik : src[m].ts \in Nat /\ src[m].ver \in Nat
  BY DEF TypeOK, Row
<1>7. SourceInv'
  <2>1. clock' <= writes' /\ writes' <= MaxWrites
    BY <1>2, <1>3, <1>5, BoundAssumption DEF SourceInv
  <2>2. ASSUME NEW m \in Nik
        PROVE  src'[m] \in Version /\ src'[m].ts <= clock' /\ src'[m].ver <= writes'
    BY <1>2, <1>3, <1>4, <1>5, <1>6, <2>1, BoundAssumption DEF SourceInv, Version
  <2> QED
    BY <1>5, <2>1, <2>2 DEF SourceInv, Orderly
<1>8. ASSUME NEW r, NEW m \in Nik, NotAhead(r, m) PROVE NotAhead(r, m)'
  <2>1. r.ts \in Nat /\ r.ver \in Nat /\ r.ver <= src[m].ver
    BY <1>8, BoundAssumption DEF NotAhead, Version
  <2>2. CASE m # n
    BY <1>2, <1>4, <1>8, <2>2 DEF NotAhead, Orderly
  <2>3. CASE m = n
    <3>1. r.ver < writes + 1 /\ src'[m].ver = writes + 1 /\ n \in late'
      BY <1>2, <1>3, <1>4, <1>5, <1>6, <2>1, <2>3 DEF SourceInv
    <3> QED
      BY <1>2, <1>3, <1>5, <1>8, <2>1, <2>3, <3>1 DEF NotAhead, Orderly
  <2> QED
    BY <2>2, <2>3
<1>9. ASSUME NEW x \in Fetched, FromSource(x) PROVE FromSource(x)'
  BY <1>8, <1>9 DEF FromSource, Fetched
<1>10. stray \subseteq Fetched /\ \A w \in Run : todo[w] \subseteq Fetched
  BY DEF TypeOK
<1> QED
  BY <1>2, <1>7, <1>8, <1>9, <1>10 DEF AheadInv

(* A row of the table the source holds now.                                *)
LEMMA FetchAhead ==
    ASSUME TypeOK, AheadInv, NEW since, NEW x \in FetchKaryawanUpdatedSince(src, since)
    PROVE  FromSource(x)
BY DEF TypeOK, Row, AheadInv, SourceInv, FromSource, NotAhead, FetchKaryawanUpdatedSince,
       FirstOf, NewerThan

(* Any other step copies only what is in hand, under way or committed.     *)
LEMMA AheadCopies ==
    ASSUME TypeOK, AheadInv, UNCHANGED source,
           \/ UNCHANGED mirror
           \/ \E x \in stray \cup UNION {todo[w] : w \in Run} :
                 mirror' = [mirror EXCEPT ![x.nik] = x.row],
           \A x \in stray' : x \in stray \/ \E w \in Run : x \in todo[w],
           \A w \in Run : \A x \in todo'[w] : x \in todo[w] \/ FromSource(x),
           \A w \in Run : \/ maxTs'[w] \in {maxTs[w], wm, Epoch}
                          \/ \E x \in todo[w] : maxTs'[w] = x.row.ts,
           \/ UNCHANGED watermark
           \/ \E w \in Run : MoveWatermark(maxTs[w])
    PROVE  AheadInv'
<1>1. UNCHANGED <<src, clock, writes, late>>
  BY DEF source
<1>2. SourceInv' /\ \A r, n : NotAhead(r, n)' <=> NotAhead(r, n)
  BY <1>1 DEF AheadInv, SourceInv, NotAhead, Orderly
<1>3. \A x : FromSource(x)' <=> FromSource(x)
  BY <1>2 DEF FromSource
<1>4. \A x \in stray \cup UNION {todo[w] : w \in Run} : x \in Fetched /\ FromSource(x)
  BY DEF TypeOK, AheadInv
<1>5. ASSUME NEW n \in Nik PROVE NotAhead(mirror'[n], n)
  BY <1>4 DEF TypeOK, AheadInv, Fetched, FromSource
<1>6. clock \in Nat /\ wm \in Nat /\ \A n \in Nik : src[n].ts \in Nat /\ src[n].ts <= clock
  BY DEF TypeOK, Row, AheadInv, SourceInv
<1>7. ASSUME NEW w \in Run, NEW x \in todo[w] PROVE x.row.ts <= clock
  BY <1>4 DEF FromSource, NotAhead
<1>8. ASSUME NEW w \in Run PROVE maxTs'[w] <= clock
  BY <1>6, <1>7 DEF AheadInv, Epoch
<1>9. wm' <= clock /\ wm' \in marks'
  BY DEF AheadInv, MoveWatermark, watermark
<1> QED
  BY <1>1, <1>2, <1>3, <1>4, <1>5, <1>8, <1>9 DEF AheadInv

LEMMA AheadStep == TypeOK /\ AheadInv /\ [Next]_vars => AheadInv'
<1> SUFFICES ASSUME TypeOK, AheadInv, [Next]_vars PROVE AheadInv'
  OBVIOUS
<1> USE DEF watermark, postgres, pending, runs, harm
<1>1. ASSUME NEW n \in Nik, SourceWrite(n) \/ SourceWriteLate(n) PROVE AheadInv'
  BY <1>1, AheadWrite, AheadWriteLate
<1>2. ASSUME NEW w \in Run, Fetch(w) PROVE AheadInv'
  <2>1. \A v \in Run : \A x \in todo'[v] : x \in todo[v] \/ FromSource(x)
    BY <1>2, FetchAhead DEF TypeOK, Fetch
  <2> QED
    BY <1>2, <2>1, AheadCopies DEF Fetch
<1>3. ASSUME NEW w \in Run, Upsert(w) PROVE AheadInv'
  <2>1. PICK x \in todo[w] :
            /\ mirror' = [mirror EXCEPT ![x.nik] = x.row]
            /\ maxTs'  = [maxTs EXCEPT ![w] = IF x.row.ts > @ THEN x.row.ts ELSE @]
            /\ todo'   = [todo EXCEPT ![w] = @ \ {x}]
    BY <1>3 DEF Upsert
  <2>2. UNCHANGED <<source, wm, marks, stray>>
    BY <1>3 DEF Upsert
  <2>3. \A v \in Run : /\ todo'[v] \subseteq todo[v]
                       /\ maxTs'[v] = maxTs[v] \/ \E y \in todo[v] : maxTs'[v] = y.row.ts
    BY <2>1 DEF TypeOK
  <2> QED
    BY <2>1, <2>2, <2>3, AheadCopies
<1>4. ASSUME NEW w \in Run, Commit(w) \/ CommitReplyLost(w) PROVE AheadInv'
  <2>1. /\ UNCHANGED <<source, mirror, stray>>
        /\ (wm' = wm /\ marks' = marks \cup {wm}) \/ MoveWatermark(maxTs[w])
        /\ \E r : Return(w, r)
    BY <1>4 DEF Commit, CommitReplyLost, MakeVisible, MoveWatermark
  <2>2. \A v \in Run : todo'[v] \subseteq todo[v] /\ maxTs'[v] \in {maxTs[v], Epoch}
    BY <2>1 DEF TypeOK, Return
  <2>3. (wm' = wm /\ marks' = marks) \/ MoveWatermark(maxTs[w])
    BY <2>1 DEF AheadInv
  <2> QED
    BY <2>1, <2>2, <2>3, AheadCopies
<1>5. ASSUME NEW w \in Run, TxStatementFails(w) \/ FindTxGone(w) \/ Kill(w)
      PROVE  AheadInv'
  <2>1. UNCHANGED <<source, wm, marks, stray>> /\ Return(w, "error")
        /\ (UNCHANGED mirror \/ MaybeUpserted(w))
    BY <1>5 DEF TxStatementFails, FindTxGone, Kill
  <2>2. \A v \in Run : todo'[v] \subseteq todo[v] /\ maxTs'[v] \in {maxTs[v], Epoch}
    BY <2>1 DEF TypeOK, Return
  <2> QED
    BY <2>1, <2>2, AheadCopies DEF MaybeUpserted
<1>6. ASSUME NEW w \in Run, KillLeavingUpsert(w) PROVE AheadInv'
  <2>1. /\ UNCHANGED <<source, wm, marks, mirror>> /\ Return(w, "error")
        /\ \E x \in todo[w] : stray' = stray \cup {x}
    BY <1>6 DEF KillLeavingUpsert
  <2>2. \A v \in Run : todo'[v] \subseteq todo[v] /\ maxTs'[v] \in {maxTs[v], Epoch}
    BY <2>1 DEF TypeOK, Return
  <2> QED
    BY <2>1, <2>2, AheadCopies
<1>7. ASSUME NEW w \in Run, PoolStatementFails(w) PROVE AheadInv'
  <2>1. \A v \in Run : todo'[v] \subseteq todo[v]
    BY <1>7 DEF TypeOK, PoolStatementFails
  <2> QED
    BY <1>7, <2>1, AheadCopies DEF PoolStatementFails, MaybeUpserted
<1>8. ASSUME NEW w \in Run, Begin(w) \/ AcquireLock(w) \/ InsertRun(w) \/ ReadWatermark(w)
                             \/ WriteState(w) \/ FinalizeRun(w) \/ MarkRunFailed(w)
                             \/ LoseConnection(w)
      PROVE  AheadInv'
  <2>1. UNCHANGED <<source, mirror, wm, marks, stray, todo>>
    BY <1>8 DEF Begin, AcquireLock, InsertRun, ReadWatermark, WriteState, FinalizeRun,
                MarkRunFailed, LoseConnection
  <2>2. \A v \in Run : maxTs'[v] \in {maxTs[v], wm}
    BY <1>8 DEF TypeOK, Begin, AcquireLock, InsertRun, ReadWatermark, WriteState, FinalizeRun,
                MarkRunFailed, LoseConnection
  <2> QED
    BY <2>1, <2>2, AheadCopies
<1>9. CASE ExecuteStray
  BY <1>9, AheadCopies DEF ExecuteStray
<1>10. CASE CleanupStaleRuns \/ UNCHANGED vars
  BY <1>10, AheadCopies DEF CleanupStaleRuns, vars
<1> QED
  BY <1>1, <1>2, <1>3, <1>4, <1>5, <1>6, <1>7, <1>8, <1>9, <1>10 DEF Next, Step, Failure

LEMMA SafetyAlways ==
    Spec => [](TypeOK /\ LockInv /\ Connected /\ RecordInv /\ WatermarkInv /\ AheadInv)
<1>1. Init => Connected
  BY DEF Init, Connected
<1> QED
  BY <1>1, InitType, StepType, LockInit, LockStep, ConnectedStep, RecordInit, RecordStep,
     WatermarkInit, WatermarkStep, AheadInit, AheadStep, PTL DEF Spec

(* Whatever fails, stray statements included, the mirror is of no employee *)
(* ahead of the source: it has an older version, or the very row.          *)
THEOREM MirrorNeverAhead == Spec => [](\A n \in Nik : NotAhead(mirror[n], n))
BY SafetyAlways, PTL DEF AheadInv

(* The watermark never moves back, whatever fails and also while a run     *)
(* that has lost its lock is at work beside the next one; and as it is the *)
(* stamp of a row, never a clock of the gateway, the source's clock is not *)
(* behind it.                                                              *)
THEOREM WatermarkNeverMovesBack == Spec => WatermarkMonotone
<1>1. TypeOK /\ WatermarkInv /\ AheadInv /\ AheadInv' /\ [Next]_vars
      => [wm <= wm' /\ wm' <= clock']_vars
  BY WatermarkMovers DEF TypeOK, WatermarkInv, AheadInv, MakeVisible, MoveWatermark
<1> QED
  BY <1>1, SafetyAlways, PTL DEF Spec, WatermarkMonotone
=============================================================================
