--------------------------- MODULE GatewayProofs ---------------------------
(***************************************************************************)
(* Promises of the api process for any number of requests, rows, keys and  *)
(* connections and any timeouts, under every fault.                        *)
(***************************************************************************)
EXTENDS Gateway, FiniteSetTheorems, TLAPS

-----------------------------------------------------------------------------
(* Types.                                                                  *)

Stages  == OnPool \cup {"idle", "new", "limit", "writing"}
Answers == {None, "unauthorized", "unavailable", "limited", "error", "served", "cut"}

TableTyped ==
    /\ hash \in [Id -> Secret] /\ revoked \in [Id -> BOOLEAN] /\ changes \in Nat
    /\ ended \in [Id -> Nat]
    /\ strays \subseteq Id /\ late \subseteq Id

RequestTyped ==
    /\ stage \in [Request -> Stages]
    /\ key \in [Request -> Secret \cup {NoSecret}] /\ row \in [Request -> Id \cup {NoRow}]
    /\ conn \in [Request -> BOOLEAN] /\ age \in [Request -> Nat]
    /\ answer \in [Request -> Answers]
    /\ seen \in [Request -> SUBSET BOOLEAN]

MarkTyped ==
    /\ mark \in [Request -> {None, "waiting", "sent"}] /\ markAge \in [Request -> 0..MarkTimeout]
    /\ main \in {"down", "up", "draining", "closing"} /\ since \in Nat

(* A row is known from the lookup until the mark is over; there is no mark *)
(* before the key has been checked; only a handler that waits for Postgres *)
(* holds a connection; nobody is older than the deadline; nothing is left  *)
(* of a process that is down.                                              *)
Looked(q) ==
    /\ stage[q] = "known" => row[q] \in Id
    /\ mark[q] # None => row[q] \in Id
    /\ stage[q] \in Asking \cup {"new"} => mark[q] = None
    /\ stage[q] \in Asking => key[q] \in Secret
    /\ q \notin AtWork => key[q] = NoSecret /\ (mark[q] = None => row[q] = NoRow)
    /\ conn[q] => stage[q] \in OnPool
    /\ age[q] <= Deadline(q)
    /\ main = "down" => stage[q] = "idle" /\ mark[q] = None

Typed == TableTyped /\ RequestTyped /\ MarkTyped /\ \A q \in Request : Looked(q)

LEMMA SeeTyped ==
    ASSUME seen \in [Request -> SUBSET BOOLEAN], See
    PROVE  seen' \in [Request -> SUBSET BOOLEAN]
<1> SUFFICES ASSUME NEW q \in Request PROVE seen'[q] \in SUBSET BOOLEAN
  BY DEF See
<1>1. Good(key[q])' \in BOOLEAN
  BY DEF Good
<1>2. seen'[q] = seen[q] \cup {Good(key[q])'} \/ seen'[q] = seen[q]
  BY DEF See
<1> QED
  BY <1>1, <1>2

LEMMA StepTyped == Typed /\ [Next]_vars => Typed'
<1> SUFFICES ASSUME Typed, [Next]_vars PROVE Typed'
  OBVIOUS
<1> USE KeyAssumption, TimeAssumption
        DEF Typed, TableTyped, RequestTyped, MarkTyped, Looked, Stages, Answers, None, Asking,
            Handling, OnPool, AtWork, Deadline, keys, usage, table, request, marking, process
<1>1. CASE UNCHANGED vars
  BY <1>1 DEF vars
<1>2. ASSUME NEW r \in Request, Arrive(r) PROVE Typed'
  <2>1. PICK s \in Secret : /\ key' = [key EXCEPT ![r] = s]
                           /\ seen' = [seen EXCEPT ![r] = {Good(s)}]
    BY <1>2 DEF Arrive
  <2>2. {Good(s)} \in SUBSET BOOLEAN
    BY DEF Good
  <2>3. seen' \in [Request -> SUBSET BOOLEAN]
    BY <2>1, <2>2
  <2>4. /\ stage' = [stage EXCEPT ![r] = "lookup"] /\ age' = [age EXCEPT ![r] = 0]
        /\ stage[r] = "new" /\ mark[r] = None /\ main # "down"
        /\ UNCHANGED <<table, row, conn, answer, marking, process>>
    BY <1>2 DEF Arrive, Enter
  <2>5. key' \in [Request -> Secret \cup {NoSecret}] /\ key'[r] \in Secret
    BY <2>1
  <2>6. \A q \in Request : Looked(q)'
    BY <2>1, <2>4, <2>5
  <2> QED
    BY <2>3, <2>4, <2>5, <2>6
<1>3. ASSUME NEW r \in Request, ArriveWithoutKey(r) PROVE Typed'
  BY <1>3 DEF ArriveWithoutKey, Reply, Enter
<1>4. ASSUME NEW r \in Request, Acquire(r) PROVE Typed'
  BY <1>4 DEF Acquire
<1>5. ASSUME NEW r \in Request, Lookup(r) PROVE Typed'
  <2>1. Matching(key[r]) \subseteq Id
    BY DEF Matching
  <2>2. /\ row' \in [Request -> Id \cup {NoRow}]
        /\ stage' \in [Request -> Stages]
        /\ \A q \in Request : q # r => stage'[q] = stage[q] /\ row'[q] = row[q]
        /\ stage'[r] \in {"known", "unknown"} /\ (stage'[r] = "known" => row'[r] \in Id)
    BY <1>5, <2>1 DEF Lookup, Enter
  <2>3. stage[r] \in Asking /\ UNCHANGED <<table, key, conn, age, answer, seen, marking, process>>
    BY <1>5 DEF Lookup
  <2> QED
    BY <2>2, <2>3
<1>6. ASSUME NEW r \in Request, Refuse(r) PROVE Typed'
  BY <1>6 DEF Refuse, Reply, Enter
<1>7. ASSUME NEW r \in Request, Admit(r) PROVE Typed'
  <2>1. seen' \in [Request -> SUBSET BOOLEAN]
    <3>1. seen' = [seen EXCEPT ![r] = @ \ {FALSE}]
      BY <1>7 DEF Admit
    <3>2. seen[r] \ {FALSE} \in SUBSET BOOLEAN
      OBVIOUS
    <3> QED
      BY <3>1, <3>2
  <2>2. /\ stage' \in [Request -> Stages]
        /\ \A q \in Request : q # r => stage'[q] = stage[q]
        /\ stage[r] = "known" /\ stage'[r] \in {"limit"} \cup Handling
    BY <1>7 DEF Admit, Enter, Handler
  <2>3. /\ conn' = [conn EXCEPT ![r] = FALSE]
        /\ mark' = [mark EXCEPT ![r] = "waiting"] /\ markAge' = [markAge EXCEPT ![r] = 0]
        /\ key' = [key EXCEPT ![r] = NoSecret]
        /\ UNCHANGED <<table, row, age, answer, process>>
    BY <1>7 DEF Admit
  <2> QED
    BY <2>1, <2>2, <2>3
<1>8. ASSUME NEW r \in Request, Pass(r) PROVE Typed'
  BY <1>8 DEF Pass, Enter, Handler
<1>9. ASSUME NEW r \in Request, TurnAway(r) PROVE Typed'
  BY <1>9 DEF TurnAway, Reply, Enter
<1>10. ASSUME NEW r \in Request, Count(r) PROVE Typed'
  BY <1>10 DEF Count, Enter
<1>11. ASSUME NEW r \in Request, Read(r) PROVE Typed'
  BY <1>11 DEF Read, Reply, Enter
<1>12. ASSUME NEW r \in Request, Fail(r) PROVE Typed'
  BY <1>12 DEF Fail, Reply, Enter, ErrorAnswer
<1>13. ASSUME NEW r \in Request, GiveUp(r) PROVE Typed'
  BY <1>13 DEF GiveUp, Reply, Enter, ErrorAnswer
<1>14. ASSUME NEW r \in Request, ClientLeaves(r) PROVE Typed'
  BY <1>14 DEF ClientLeaves, Reply, Enter, ErrorAnswer
<1>15. ASSUME NEW r \in Request, MarkAcquire(r) PROVE Typed'
  BY <1>15 DEF MarkAcquire, MarkOverdue
<1>16. ASSUME NEW r \in Request, MarkDone(r) PROVE Typed'
  BY <1>16 DEF MarkDone, MarkOver, Executed
<1>17. ASSUME NEW r \in Request, MarkFails(r) PROVE Typed'
  BY <1>17 DEF MarkFails, MarkOver, Outlive
<1>18. ASSUME NEW r \in Request, MarkGivesUp(r) PROVE Typed'
  BY <1>18 DEF MarkGivesUp, MarkOver, MarkOverdue, Outlive
<1>19. ASSUME Start PROVE Typed'
  BY <1>19 DEF Start
<1>20. ASSUME Signal PROVE Typed'
  BY <1>20 DEF Signal
<1>21. ASSUME ClosePool PROVE Typed'
  BY <1>21 DEF ClosePool, CanClose
<1>22. ASSUME Exit PROVE Typed'
  BY <1>22 DEF Exit, CanExit, Gone, Outlive
<1>23. ASSUME Crash PROVE Typed'
  BY <1>23 DEF Crash, Gone, Outlive
<1>24. ASSUME Tick PROVE Typed'
  BY <1>24 DEF Tick, CanClose, CanExit
<1>25. ASSUME NEW i \in Id, Revoke(i) PROVE Typed'
  <2>1. seen' \in [Request -> SUBSET BOOLEAN]
    BY <1>25, SeeTyped DEF Revoke
  <2> QED
    BY <1>25, <2>1 DEF Revoke
<1>26. ASSUME NEW i \in Id, Replace(i) PROVE Typed'
  <2>1. seen' \in [Request -> SUBSET BOOLEAN]
    BY <1>26, SeeTyped DEF Replace
  <2> QED
    BY <1>26, <2>1 DEF Replace
<1>27. ASSUME NEW r \in Request, Connect(r) PROVE Typed'
  BY <1>27 DEF Connect, Enter
<1>28. ASSUME NEW r \in Request, Unheard(r) PROVE Typed'
  BY <1>28 DEF Unheard, Enter
<1>29. ASSUME NEW r \in Request, Written(r) PROVE Typed'
  BY <1>29 DEF Written, Enter
<1>30. ASSUME NEW i \in Id, StrayMark(i) PROVE Typed'
  BY <1>30 DEF StrayMark, Executed
<1> QED
  BY <1>1, <1>2, <1>3, <1>4, <1>5, <1>6, <1>7, <1>8, <1>9, <1>10, <1>11, <1>12, <1>13,
     <1>14, <1>15, <1>16, <1>17, <1>18, <1>19, <1>20, <1>21, <1>22, <1>23, <1>24, <1>25,
     <1>26, <1>27, <1>28, <1>29, <1>30 DEF Next, Step, MarkStep

-----------------------------------------------------------------------------
(* The pool.                                                               *)

Conns == {r \in Request : conn[r]}
Sent  == {r \in Request : mark[r] = "sent"}

LEMMA UsedTyped ==
    /\ IsFiniteSet(Conns) /\ IsFiniteSet(Sent)
    /\ Cardinality(Conns) \in Nat /\ Cardinality(Sent) \in Nat
    /\ InUse = Cardinality(Conns) + Cardinality(Sent)
<1>1. Conns \subseteq Request /\ Sent \subseteq Request
  BY DEF Conns, Sent
<1>2. IsFiniteSet(Conns) /\ IsFiniteSet(Sent)
  BY <1>1, RequestAssumption, FS_Subset
<1>3. Cardinality(Conns) \in Nat /\ Cardinality(Sent) \in Nat
  BY <1>2, FS_CardinalityType
<1> QED
  BY <1>2, <1>3 DEF InUse, Conns, Sent

LEMMA LendsNoMore ==
    ASSUME \A q \in Request : conn'[q] => conn[q],
           \A q \in Request : mark'[q] = "sent" => mark[q] = "sent"
    PROVE  InUse <= PoolSize => InUse' <= PoolSize
<1>1. Conns' \subseteq Conns /\ Sent' \subseteq Sent
  BY DEF Conns, Sent
<1>2. Cardinality(Conns') <= Cardinality(Conns) /\ Cardinality(Sent') <= Cardinality(Sent)
  BY <1>1, UsedTyped, FS_Subset
<1>3. Cardinality(Conns') \in Nat /\ Cardinality(Sent') \in Nat
  BY <1>1, UsedTyped, FS_Subset, FS_CardinalityType
<1>4. InUse' = Cardinality(Conns') + Cardinality(Sent')
  BY DEF InUse, Conns, Sent
<1> QED
  BY <1>2, <1>3, <1>4, UsedTyped, PoolAssumption

LEMMA StepPool == Typed /\ InUse <= PoolSize /\ [Next]_vars => (InUse <= PoolSize)'
<1> SUFFICES ASSUME Typed, InUse <= PoolSize, [Next]_vars PROVE InUse' <= PoolSize
  OBVIOUS
<1> USE PoolAssumption DEF RequestTyped, MarkTyped, None, keys, usage, table, request, marking, process
<1>0. RequestTyped /\ MarkTyped
  BY DEF Typed
<1>1. CASE UNCHANGED vars
  BY <1>1 DEF vars, InUse
<1>2. ASSUME NEW r \in Request, Arrive(r) PROVE InUse' <= PoolSize
  BY <1>2, <1>0, LendsNoMore DEF Arrive, Enter
<1>3. ASSUME NEW r \in Request, ArriveWithoutKey(r) PROVE InUse' <= PoolSize
  BY <1>3, <1>0, LendsNoMore DEF ArriveWithoutKey, Reply, Enter
<1>4. ASSUME NEW r \in Request, Acquire(r) PROVE InUse' <= PoolSize
  <2>1. /\ conn' = [conn EXCEPT ![r] = TRUE] /\ ~ conn[r] /\ mark' = mark /\ InUse < PoolSize
    BY <1>4 DEF Acquire, marking, HasRoom
  <2>2. Conns' = Conns \cup {r} /\ Sent' = Sent
    BY <1>0, <2>1 DEF Conns, Sent
  <2>3. r \notin Conns /\ InUse' = Cardinality(Conns') + Cardinality(Sent')
    BY <2>1 DEF InUse, Conns, Sent
  <2>4. Cardinality(Conns') = Cardinality(Conns) + 1
    BY <2>2, <2>3, FS_AddElement, UsedTyped
  <2> QED
    BY <2>1, <2>2, <2>3, <2>4, UsedTyped
<1>5. ASSUME NEW r \in Request, Lookup(r) PROVE InUse' <= PoolSize
  BY <1>5, <1>0, LendsNoMore DEF Lookup, Enter
<1>6. ASSUME NEW r \in Request, Refuse(r) PROVE InUse' <= PoolSize
  BY <1>6, <1>0, LendsNoMore DEF Refuse, Reply, Enter
<1>7. ASSUME NEW r \in Request, Admit(r) PROVE InUse' <= PoolSize
  BY <1>7, <1>0, LendsNoMore DEF Admit, Enter, Handler
<1>8. ASSUME NEW r \in Request, Pass(r) PROVE InUse' <= PoolSize
  BY <1>8, <1>0, LendsNoMore DEF Pass, Enter, Handler
<1>9. ASSUME NEW r \in Request, TurnAway(r) PROVE InUse' <= PoolSize
  BY <1>9, <1>0, LendsNoMore DEF TurnAway, Reply, Enter
<1>10. ASSUME NEW r \in Request, Count(r) PROVE InUse' <= PoolSize
  BY <1>10, <1>0, LendsNoMore DEF Count, Enter
<1>11. ASSUME NEW r \in Request, Read(r) PROVE InUse' <= PoolSize
  BY <1>11, <1>0, LendsNoMore DEF Read, Reply, Enter
<1>12. ASSUME NEW r \in Request, Fail(r) PROVE InUse' <= PoolSize
  BY <1>12, <1>0, LendsNoMore DEF Fail, Reply, Enter, ErrorAnswer
<1>13. ASSUME NEW r \in Request, GiveUp(r) PROVE InUse' <= PoolSize
  BY <1>13, <1>0, LendsNoMore DEF GiveUp, Reply, Enter, ErrorAnswer
<1>14. ASSUME NEW r \in Request, ClientLeaves(r) PROVE InUse' <= PoolSize
  BY <1>14, <1>0, LendsNoMore DEF ClientLeaves, Reply, Enter, ErrorAnswer
<1>15. ASSUME NEW r \in Request, MarkAcquire(r) PROVE InUse' <= PoolSize
  <2>1. /\ mark' = [mark EXCEPT ![r] = "sent"] /\ mark[r] = "waiting" /\ conn' = conn
        /\ InUse < PoolSize
    BY <1>15 DEF MarkAcquire, request, HasRoom
  <2>2. Sent' = Sent \cup {r} /\ r \notin Sent /\ Conns' = Conns
    BY <1>0, <2>1 DEF Conns, Sent
  <2>3. InUse' = Cardinality(Conns') + Cardinality(Sent')
    BY <2>1 DEF InUse, Conns, Sent
  <2>4. Cardinality(Sent') = Cardinality(Sent) + 1
    BY <2>2, FS_AddElement, UsedTyped
  <2> QED
    BY <2>1, <2>2, <2>3, <2>4, UsedTyped
<1>16. ASSUME NEW r \in Request, MarkDone(r) PROVE InUse' <= PoolSize
  BY <1>16, <1>0, LendsNoMore DEF MarkDone, MarkOver, Executed
<1>17. ASSUME NEW r \in Request, MarkFails(r) PROVE InUse' <= PoolSize
  BY <1>17, <1>0, LendsNoMore DEF MarkFails, MarkOver, Outlive
<1>18. ASSUME NEW r \in Request, MarkGivesUp(r) PROVE InUse' <= PoolSize
  BY <1>18, <1>0, LendsNoMore DEF MarkGivesUp, MarkOver, MarkOverdue, Outlive
<1>19. ASSUME Start PROVE InUse' <= PoolSize
  BY <1>19, <1>0, LendsNoMore DEF Start
<1>20. ASSUME Signal PROVE InUse' <= PoolSize
  BY <1>20, <1>0, LendsNoMore DEF Signal
<1>21. ASSUME ClosePool PROVE InUse' <= PoolSize
  BY <1>21, <1>0, LendsNoMore DEF ClosePool, CanClose
<1>22. ASSUME Exit PROVE InUse' <= PoolSize
  BY <1>22, <1>0, LendsNoMore DEF Exit, CanExit, Gone, Outlive
<1>23. ASSUME Crash PROVE InUse' <= PoolSize
  BY <1>23, <1>0, LendsNoMore DEF Crash, Gone, Outlive
<1>24. ASSUME Tick PROVE InUse' <= PoolSize
  BY <1>24, <1>0, LendsNoMore DEF Tick, CanClose, CanExit
<1>25. ASSUME NEW i \in Id, Revoke(i) PROVE InUse' <= PoolSize
  BY <1>25, <1>0, LendsNoMore DEF Revoke, See
<1>26. ASSUME NEW i \in Id, Replace(i) PROVE InUse' <= PoolSize
  BY <1>26, <1>0, LendsNoMore DEF Replace, See
<1>27. ASSUME NEW r \in Request, Connect(r) PROVE InUse' <= PoolSize
  BY <1>27, <1>0, LendsNoMore DEF Connect, Enter
<1>28. ASSUME NEW r \in Request, Unheard(r) PROVE InUse' <= PoolSize
  BY <1>28, <1>0, LendsNoMore DEF Unheard, Enter
<1>29. ASSUME NEW r \in Request, Written(r) PROVE InUse' <= PoolSize
  BY <1>29, <1>0, LendsNoMore DEF Written, Enter
<1>30. ASSUME NEW i \in Id, StrayMark(i) PROVE InUse' <= PoolSize
  BY <1>30, <1>0, LendsNoMore DEF StrayMark, Executed
<1> QED
  BY <1>1, <1>2, <1>3, <1>4, <1>5, <1>6, <1>7, <1>8, <1>9, <1>10, <1>11, <1>12, <1>13,
     <1>14, <1>15, <1>16, <1>17, <1>18, <1>19, <1>20, <1>21, <1>22, <1>23, <1>24, <1>25,
     <1>26, <1>27, <1>28, <1>29, <1>30 DEF Next, Step, MarkStep

-----------------------------------------------------------------------------
(* What a key has been while it was checked.                               *)

Checked(q) ==
    /\ answer[q] # None => stage[q] = "writing" \/ (main = "down" /\ answer[q] = "cut")
    /\ answer[q] \in {"served", "limited", "error"} => TRUE \in seen[q]
    /\ answer[q] = "unauthorized" => FALSE \in seen[q]
    /\ stage[q] = "lookup" => Good(key[q]) \in seen[q]
    /\ stage[q] \in {"known", "limit"} \cup Handling => TRUE \in seen[q]
    /\ stage[q] = "unknown" => FALSE \in seen[q]

SeenInv == \A q \in Request : Checked(q)

LEMMA GoodKept ==
    ASSUME UNCHANGED <<hash, revoked>>, NEW q \in Request, key'[q] = key[q]
    PROVE  Good(key[q])' = Good(key[q])
BY DEF Good, Matching

LEMMA StepSeen == Typed /\ SeenInv /\ [Next]_vars => SeenInv'
<1> SUFFICES ASSUME Typed, SeenInv, [Next]_vars PROVE SeenInv'
  OBVIOUS
<1> USE DEF SeenInv, Checked, RequestTyped, Stages, None, Asking, Handling, OnPool, AtWork, keys, usage,
            table, request, marking, process
<1>0. RequestTyped /\ (main = "down" => \A q \in Request : stage[q] = "idle")
  BY DEF Typed, Looked
<1>1. CASE UNCHANGED vars
  BY <1>1, GoodKept DEF vars
<1>2. ASSUME NEW r \in Request, Arrive(r) PROVE SeenInv'
  <2>1. PICK s \in Secret : /\ key' = [key EXCEPT ![r] = s]
                           /\ seen' = [seen EXCEPT ![r] = {Good(s)}]
    BY <1>2 DEF Arrive
  <2>2. stage[r] = "new" /\ stage' = [stage EXCEPT ![r] = "lookup"]
    BY <1>2 DEF Arrive, Enter
  <2>3. UNCHANGED <<table, answer, process>>
    BY <1>2 DEF Arrive
  <2>4. key'[r] = s /\ seen'[r] = {Good(s)} /\ stage'[r] = "lookup" /\ answer'[r] = None
    BY <1>0, <2>1, <2>2, <2>3
  <2>5. Good(key[r])' = Good(s)
    BY <2>3, <2>4 DEF Good, Matching
  <2>6. Checked(r)'
    BY <2>4, <2>5
  <2>7. ASSUME NEW q \in Request, q # r PROVE Checked(q)'
    BY <1>0, <2>1, <2>2, <2>3, <2>7, GoodKept
  <2> QED
    BY <2>6, <2>7
<1>3. ASSUME NEW r \in Request, ArriveWithoutKey(r) PROVE SeenInv'
  BY <1>3, <1>0, GoodKept DEF ArriveWithoutKey, Reply, Enter
<1>4. ASSUME NEW r \in Request, Acquire(r) PROVE SeenInv'
  BY <1>4, <1>0, GoodKept DEF Acquire
<1>5. ASSUME NEW r \in Request, Lookup(r) PROVE SeenInv'
  <2>1. \/ /\ stage' = [stage EXCEPT ![r] = "known"] /\ Good(key[r]) = TRUE
        \/ /\ stage' = [stage EXCEPT ![r] = "unknown"] /\ Good(key[r]) = FALSE
    BY <1>5 DEF Lookup, Enter, Good
  <2>2. stage[r] = "lookup" /\ UNCHANGED <<table, key, answer, seen>>
    BY <1>5 DEF Lookup
  <2> QED
    BY <1>0, <2>1, <2>2, GoodKept
<1>6. ASSUME NEW r \in Request, Refuse(r) PROVE SeenInv'
  BY <1>6, <1>0, GoodKept DEF Refuse, Reply, Enter
<1>7. ASSUME NEW r \in Request, Admit(r) PROVE SeenInv'
  BY <1>7, <1>0, GoodKept DEF Admit, Enter, Handler
<1>8. ASSUME NEW r \in Request, Pass(r) PROVE SeenInv'
  BY <1>8, <1>0, GoodKept DEF Pass, Enter, Handler
<1>9. ASSUME NEW r \in Request, TurnAway(r) PROVE SeenInv'
  BY <1>9, <1>0, GoodKept DEF TurnAway, Reply, Enter
<1>10. ASSUME NEW r \in Request, Count(r) PROVE SeenInv'
  BY <1>10, <1>0, GoodKept DEF Count, Enter
<1>11. ASSUME NEW r \in Request, Read(r) PROVE SeenInv'
  BY <1>11, <1>0, GoodKept DEF Read, Reply, Enter
<1>12. ASSUME NEW r \in Request, Fail(r) PROVE SeenInv'
  BY <1>12, <1>0, GoodKept DEF Fail, Reply, Enter, ErrorAnswer
<1>13. ASSUME NEW r \in Request, GiveUp(r) PROVE SeenInv'
  BY <1>13, <1>0, GoodKept DEF GiveUp, Reply, Enter, ErrorAnswer
<1>14. ASSUME NEW r \in Request, ClientLeaves(r) PROVE SeenInv'
  BY <1>14, <1>0, GoodKept DEF ClientLeaves, Reply, Enter, ErrorAnswer
<1>15. ASSUME NEW r \in Request, MarkAcquire(r) PROVE SeenInv'
  BY <1>15, <1>0, GoodKept DEF MarkAcquire, MarkOverdue
<1>16. ASSUME NEW r \in Request, MarkDone(r) PROVE SeenInv'
  BY <1>16, <1>0, GoodKept DEF MarkDone, MarkOver, Executed
<1>17. ASSUME NEW r \in Request, MarkFails(r) PROVE SeenInv'
  BY <1>17, <1>0, GoodKept DEF MarkFails, MarkOver, Outlive
<1>18. ASSUME NEW r \in Request, MarkGivesUp(r) PROVE SeenInv'
  BY <1>18, <1>0, GoodKept DEF MarkGivesUp, MarkOver, MarkOverdue, Outlive
<1>19. ASSUME Start PROVE SeenInv'
  BY <1>19, <1>0, GoodKept DEF Start
<1>20. ASSUME Signal PROVE SeenInv'
  BY <1>20, <1>0, GoodKept DEF Signal
<1>21. ASSUME ClosePool PROVE SeenInv'
  BY <1>21, <1>0, GoodKept DEF ClosePool, CanClose
<1>22. ASSUME Exit PROVE SeenInv'
  BY <1>22, <1>0, GoodKept DEF Exit, CanExit, Gone, Outlive
<1>23. ASSUME Crash PROVE SeenInv'
  BY <1>23, <1>0, GoodKept DEF Crash, Gone, Outlive
<1>24. ASSUME Tick PROVE SeenInv'
  BY <1>24, <1>0, GoodKept DEF Tick, Flying
<1>25. ASSUME NEW i \in Id, Revoke(i) PROVE SeenInv'
  BY <1>25, <1>0, GoodKept DEF Revoke, See
<1>26. ASSUME NEW i \in Id, Replace(i) PROVE SeenInv'
  BY <1>26, <1>0, GoodKept DEF Replace, See
<1>27. ASSUME NEW r \in Request, Connect(r) PROVE SeenInv'
  BY <1>27, <1>0, GoodKept DEF Connect, Enter
<1>28. ASSUME NEW r \in Request, Unheard(r) PROVE SeenInv'
  BY <1>28, <1>0, GoodKept DEF Unheard, Enter
<1>29. ASSUME NEW r \in Request, Written(r) PROVE SeenInv'
  BY <1>29, <1>0, GoodKept DEF Written, Enter
<1>30. ASSUME NEW i \in Id, StrayMark(i) PROVE SeenInv'
  BY <1>30, <1>0, GoodKept DEF StrayMark, Executed
<1> QED
  BY <1>1, <1>2, <1>3, <1>4, <1>5, <1>6, <1>7, <1>8, <1>9, <1>10, <1>11, <1>12, <1>13,
     <1>14, <1>15, <1>16, <1>17, <1>18, <1>19, <1>20, <1>21, <1>22, <1>23, <1>24, <1>25,
     <1>26, <1>27, <1>28, <1>29, <1>30 DEF Next, Step, MarkStep

-----------------------------------------------------------------------------
(* How long ago a row has been revoked, of which a request or a mark knows.*)

Recent(q) ==
    /\ stage[q] = "known" => ended[row[q]] <= age[q]
    /\ mark[q] # None => ended[row[q]] <= ReqTimeout + markAge[q]

MarkInv ==
    /\ late \subseteq strays
    /\ \A i \in Id : ~ revoked[i] => ended[i] = 0
    /\ \A q \in Request : Recent(q)

LEMMA TickAges ==
    ASSUME Typed, Tick, NEW q \in Request
    PROVE  /\ q \in AtWork => age'[q] = age[q] + 1 /\ age[q] < ReqTimeout
           /\ stage[q] = "new" => age'[q] = age[q] + 1
           /\ mark[q] # None => markAge'[q] = markAge[q] + 1 /\ markAge[q] < MarkTimeout
           /\ since' = since \/ since' = since + 1
<1> USE TimeAssumption DEF Typed, RequestTyped, MarkTyped, Looked
<1>0. age'[q] = IF age[q] < Deadline(q) THEN age[q] + 1 ELSE age[q]
  BY DEF Tick
<1>1. /\ q \in AtWork => age'[q] = age[q] + 1 /\ age[q] < ReqTimeout
      /\ stage[q] = "new" => age'[q] = age[q] + 1
  BY <1>0 DEF Tick, Done, Overdue, Deadline, AtWork
<1>2. mark[q] # None => markAge'[q] = markAge[q] + 1 /\ markAge[q] < MarkTimeout
  BY DEF Tick, MarkOverdue
<1>3. since' = since \/ since' = since + 1
  BY DEF Tick
<1> QED
  BY <1>1, <1>2, <1>3

LEMMA StepMark == Typed /\ MarkInv /\ [Next]_vars => MarkInv'
<1> SUFFICES ASSUME Typed, MarkInv, [Next]_vars PROVE MarkInv'
  OBVIOUS
<1> USE KeyAssumption, TimeAssumption
        DEF MarkInv, Recent, TableTyped, RequestTyped, MarkTyped, Looked, None, Asking, Handling,
            Stages, OnPool, AtWork, Deadline, keys, usage, table, request, marking, process
<1>0. TableTyped /\ RequestTyped /\ MarkTyped /\ \A q \in Request : Looked(q)
  BY DEF Typed
<1>1. CASE UNCHANGED vars
  BY <1>1 DEF vars
<1>2. ASSUME NEW r \in Request, Arrive(r) PROVE MarkInv'
  BY <1>2, <1>0 DEF Arrive, Enter
<1>3. ASSUME NEW r \in Request, ArriveWithoutKey(r) PROVE MarkInv'
  BY <1>3, <1>0 DEF ArriveWithoutKey, Reply, Enter
<1>4. ASSUME NEW r \in Request, Acquire(r) PROVE MarkInv'
  BY <1>4, <1>0 DEF Acquire
<1>5. ASSUME NEW r \in Request, Lookup(r) PROVE MarkInv'
  BY <1>5, <1>0 DEF Lookup, Enter, Matching
<1>6. ASSUME NEW r \in Request, Refuse(r) PROVE MarkInv'
  BY <1>6, <1>0 DEF Refuse, Reply, Enter
<1>7. ASSUME NEW r \in Request, Admit(r) PROVE MarkInv'
  BY <1>7, <1>0 DEF Admit, Enter, Handler
<1>8. ASSUME NEW r \in Request, Pass(r) PROVE MarkInv'
  BY <1>8, <1>0 DEF Pass, Enter, Handler
<1>9. ASSUME NEW r \in Request, TurnAway(r) PROVE MarkInv'
  BY <1>9, <1>0 DEF TurnAway, Reply, Enter
<1>10. ASSUME NEW r \in Request, Count(r) PROVE MarkInv'
  BY <1>10, <1>0 DEF Count, Enter
<1>11. ASSUME NEW r \in Request, Read(r) PROVE MarkInv'
  BY <1>11, <1>0 DEF Read, Reply, Enter
<1>12. ASSUME NEW r \in Request, Fail(r) PROVE MarkInv'
  BY <1>12, <1>0 DEF Fail, Reply, Enter, ErrorAnswer
<1>13. ASSUME NEW r \in Request, GiveUp(r) PROVE MarkInv'
  BY <1>13, <1>0 DEF GiveUp, Reply, Enter, ErrorAnswer
<1>14. ASSUME NEW r \in Request, ClientLeaves(r) PROVE MarkInv'
  BY <1>14, <1>0 DEF ClientLeaves, Reply, Enter, ErrorAnswer
<1>15. ASSUME NEW r \in Request, MarkAcquire(r) PROVE MarkInv'
  BY <1>15, <1>0 DEF MarkAcquire, MarkOverdue
<1>16. ASSUME NEW r \in Request, MarkDone(r) PROVE MarkInv'
  <2>1. row[r] \in Id /\ ended[row[r]] <= Longest
    BY <1>16, <1>0 DEF MarkDone, Longest
  <2>2. UNCHANGED <<strays, late>>
    BY <1>16, <1>0, <2>1 DEF MarkDone, Executed, Longest
  <2> QED
    BY <1>16, <1>0, <2>2 DEF MarkDone, MarkOver
<1>17. ASSUME NEW r \in Request, MarkFails(r) PROVE MarkInv'
  BY <1>17, <1>0 DEF MarkFails, MarkOver, Outlive
<1>18. ASSUME NEW r \in Request, MarkGivesUp(r) PROVE MarkInv'
  BY <1>18, <1>0 DEF MarkGivesUp, MarkOver, MarkOverdue, Outlive
<1>19. ASSUME Start PROVE MarkInv'
  BY <1>19, <1>0 DEF Start
<1>20. ASSUME Signal PROVE MarkInv'
  BY <1>20, <1>0 DEF Signal
<1>21. ASSUME ClosePool PROVE MarkInv'
  BY <1>21, <1>0 DEF ClosePool, CanClose
<1>22. ASSUME Exit PROVE MarkInv'
  BY <1>22, <1>0 DEF Exit, CanExit, Gone, Outlive
<1>23. ASSUME Crash PROVE MarkInv'
  BY <1>23, <1>0 DEF Crash, Gone, Outlive
<1>24. ASSUME Tick PROVE MarkInv'
  <2>1. ASSUME NEW i \in Id
        PROVE  /\ ended'[i] \in Nat /\ ended'[i] <= ended[i] + 1
               /\ ~ revoked[i] => ended'[i] = ended[i]
    BY <1>24, <1>0, <2>1 DEF Tick
  <2>2. UNCHANGED <<usage, stage, row, mark, revoked>>
    BY <1>24 DEF Tick
  <2>3. ASSUME NEW q \in Request PROVE Recent(q)'
    BY <1>24, <1>0, <2>1, <2>2, TickAges
  <2> QED
    BY <2>1, <2>2, <2>3
<1>25. ASSUME NEW i \in Id, Revoke(i) PROVE MarkInv'
  BY <1>25, <1>0 DEF Revoke, See
<1>26. ASSUME NEW i \in Id, Replace(i) PROVE MarkInv'
  BY <1>26, <1>0 DEF Replace, See
<1>27. ASSUME NEW r \in Request, Connect(r) PROVE MarkInv'
  BY <1>27, <1>0 DEF Connect, Enter
<1>28. ASSUME NEW r \in Request, Unheard(r) PROVE MarkInv'
  BY <1>28, <1>0 DEF Unheard, Enter
<1>29. ASSUME NEW r \in Request, Written(r) PROVE MarkInv'
  BY <1>29, <1>0 DEF Written, Enter
<1>30. ASSUME NEW i \in Id, StrayMark(i) PROVE MarkInv'
  BY <1>30, <1>0 DEF StrayMark, Executed
<1> QED
  BY <1>1, <1>2, <1>3, <1>4, <1>5, <1>6, <1>7, <1>8, <1>9, <1>10, <1>11, <1>12, <1>13,
     <1>14, <1>15, <1>16, <1>17, <1>18, <1>19, <1>20, <1>21, <1>22, <1>23, <1>24, <1>25,
     <1>26, <1>27, <1>28, <1>29, <1>30 DEF Next, Step, MarkStep

-----------------------------------------------------------------------------
(* The end of the process.                                                 *)

(* A connection that is there after the signal has come before it; its     *)
(* request has come before the header's timeout and, if it is to get a     *)
(* connection of the pool, in the grace period; one there when the pool is *)
(* closed has had its grace; a mark that holds a connection then has got   *)
(* it within the grace period.                                             *)
Ending(q) ==
    /\ main \in {"draining", "closing"} /\ stage[q] = "new" => since <= age[q]
    /\ main = "draining" /\ q \in AtWork => since <= age[q] + Latest
    /\ main = "closing" /\ conn[q] => since <= age[q] + Latest
    /\ main = "closing" /\ stage[q] # "idle" => since >= Grace
    /\ main = "closing" /\ mark[q] = "sent" => since <= Grace + markAge[q]
    /\ answer[q] = "cut" => main = "down" /\ since >= Grace

StopInv ==
    /\ main = "draining" => since <= Grace
    /\ main = "closing" => since <= Latest + ReqTimeout \/ since <= Grace + MarkTimeout
    /\ \A q \in Request : Ending(q)

LEMMA StepStop == Typed /\ StopInv /\ [Next]_vars => StopInv'
<1> SUFFICES ASSUME Typed, StopInv, [Next]_vars PROVE StopInv'
  OBVIOUS
<1> USE TimeAssumption
        DEF StopInv, Ending, Latest, RequestTyped, MarkTyped, Looked, None, Asking, Handling, OnPool,
            Stages, AtWork, Deadline, keys, usage, table, request, marking, process
<1>0. RequestTyped /\ MarkTyped /\ \A q \in Request : Looked(q)
  BY DEF Typed
<1>1. CASE UNCHANGED vars
  BY <1>1 DEF vars
<1>2. ASSUME NEW r \in Request, Arrive(r) PROVE StopInv'
  BY <1>2, <1>0 DEF Arrive, Enter
<1>3. ASSUME NEW r \in Request, ArriveWithoutKey(r) PROVE StopInv'
  BY <1>3, <1>0 DEF ArriveWithoutKey, Reply, Enter
<1>4. ASSUME NEW r \in Request, Acquire(r) PROVE StopInv'
  BY <1>4, <1>0 DEF Acquire, PoolOpen
<1>5. ASSUME NEW r \in Request, Lookup(r) PROVE StopInv'
  BY <1>5, <1>0 DEF Lookup, Enter
<1>6. ASSUME NEW r \in Request, Refuse(r) PROVE StopInv'
  BY <1>6, <1>0 DEF Refuse, Reply, Enter
<1>7. ASSUME NEW r \in Request, Admit(r) PROVE StopInv'
  BY <1>7, <1>0 DEF Admit, Enter, Handler
<1>8. ASSUME NEW r \in Request, Pass(r) PROVE StopInv'
  BY <1>8, <1>0 DEF Pass, Enter, Handler
<1>9. ASSUME NEW r \in Request, TurnAway(r) PROVE StopInv'
  BY <1>9, <1>0 DEF TurnAway, Reply, Enter
<1>10. ASSUME NEW r \in Request, Count(r) PROVE StopInv'
  BY <1>10, <1>0 DEF Count, Enter
<1>11. ASSUME NEW r \in Request, Read(r) PROVE StopInv'
  BY <1>11, <1>0 DEF Read, Reply, Enter
<1>12. ASSUME NEW r \in Request, Fail(r) PROVE StopInv'
  BY <1>12, <1>0 DEF Fail, Reply, Enter, ErrorAnswer
<1>13. ASSUME NEW r \in Request, GiveUp(r) PROVE StopInv'
  BY <1>13, <1>0 DEF GiveUp, Reply, Enter, ErrorAnswer
<1>14. ASSUME NEW r \in Request, ClientLeaves(r) PROVE StopInv'
  BY <1>14, <1>0 DEF ClientLeaves, Reply, Enter, ErrorAnswer
<1>15. ASSUME NEW r \in Request, MarkAcquire(r) PROVE StopInv'
  BY <1>15, <1>0 DEF MarkAcquire, MarkOverdue, PoolOpen
<1>16. ASSUME NEW r \in Request, MarkDone(r) PROVE StopInv'
  BY <1>16, <1>0 DEF MarkDone, MarkOver, Executed
<1>17. ASSUME NEW r \in Request, MarkFails(r) PROVE StopInv'
  BY <1>17, <1>0 DEF MarkFails, MarkOver, Outlive
<1>18. ASSUME NEW r \in Request, MarkGivesUp(r) PROVE StopInv'
  BY <1>18, <1>0 DEF MarkGivesUp, MarkOver, MarkOverdue, Outlive
<1>19. ASSUME Start PROVE StopInv'
  BY <1>19, <1>0 DEF Start
<1>20. ASSUME Signal PROVE StopInv'
  BY <1>20, <1>0 DEF Signal
<1>21. ASSUME ClosePool PROVE StopInv'
  BY <1>21, <1>0 DEF ClosePool, CanClose, Flying
<1>22. ASSUME Exit PROVE StopInv'
  BY <1>22, <1>0 DEF Exit, CanExit, Gone, Outlive
<1>23. ASSUME Crash PROVE StopInv'
  BY <1>23, <1>0 DEF Crash, Gone, Outlive
<1>24. ASSUME Tick PROVE StopInv'
  <2>0. /\ UNCHANGED <<stage, conn, answer, mark, main>>
        /\ since' = since \/ (main # "down" /\ since' = since + 1)
    BY <1>24 DEF Tick
  <2>1. main = "draining" => since # Grace
    BY <1>24 DEF Tick, CanClose
  <2>2. CASE main = "closing"
    <3>1. \E q \in Request : conn[q] \/ mark[q] = "sent"
      <4>1. Conns # {} \/ Sent # {}
        BY <1>24, <2>2, UsedTyped, FS_EmptySet DEF Tick, CanExit
      <4> QED
        BY <4>1 DEF Conns, Sent
    <3> QED
      BY <1>24, <1>0, <2>0, <2>2, <3>1, TickAges
  <2>3. CASE main # "closing"
    BY <1>24, <1>0, <2>0, <2>1, <2>3, TickAges
  <2> QED
    BY <2>2, <2>3
<1>25. ASSUME NEW i \in Id, Revoke(i) PROVE StopInv'
  BY <1>25, <1>0 DEF Revoke, See
<1>26. ASSUME NEW i \in Id, Replace(i) PROVE StopInv'
  BY <1>26, <1>0 DEF Replace, See
<1>27. ASSUME NEW r \in Request, Connect(r) PROVE StopInv'
  BY <1>27, <1>0 DEF Connect, Enter
<1>28. ASSUME NEW r \in Request, Unheard(r) PROVE StopInv'
  BY <1>28, <1>0 DEF Unheard, Enter
<1>29. ASSUME NEW r \in Request, Written(r) PROVE StopInv'
  BY <1>29, <1>0 DEF Written, Enter
<1>30. ASSUME NEW i \in Id, StrayMark(i) PROVE StopInv'
  BY <1>30, <1>0 DEF StrayMark, Executed
<1> QED
  BY <1>1, <1>2, <1>3, <1>4, <1>5, <1>6, <1>7, <1>8, <1>9, <1>10, <1>11, <1>12, <1>13,
     <1>14, <1>15, <1>16, <1>17, <1>18, <1>19, <1>20, <1>21, <1>22, <1>23, <1>24, <1>25,
     <1>26, <1>27, <1>28, <1>29, <1>30 DEF Next, Step, MarkStep

-----------------------------------------------------------------------------
(* The theorems.                                                           *)

IInv == Typed /\ InUse <= PoolSize /\ SeenInv /\ MarkInv /\ StopInv

LEMMA InitInv == Init => IInv
<1> SUFFICES ASSUME Init PROVE IInv
  OBVIOUS
<1> USE KeyAssumption, PoolAssumption, TimeAssumption DEF Init
<1>1. Typed
  BY DEF Typed, TableTyped, RequestTyped, MarkTyped, Looked, Answers, None, Asking,
     Handling, OnPool, Stages, Deadline, AtWork
<1>2. InUse <= PoolSize
  <2>1. Conns = {} /\ Sent = {}
    BY DEF Conns, Sent, None
  <2> QED
    BY <2>1, FS_EmptySet, UsedTyped
<1>3. SeenInv
  BY DEF SeenInv, Checked, Handling, None
<1>4. MarkInv /\ StopInv
  BY DEF MarkInv, Recent, StopInv, Ending, AtWork, None
<1> QED
  BY <1>1, <1>2, <1>3, <1>4 DEF IInv

LEMMA StepInv == IInv /\ [Next]_vars => IInv'
BY StepTyped, StepPool, StepSeen, StepMark, StepStop DEF IInv

(* Types, and never more connections in use than the pool has.             *)
THEOREM TypeCorrect == Spec => []TypeOK
<1>1. IInv => TypeOK
  BY DEF IInv, Typed, TableTyped, RequestTyped, MarkTyped, Looked, Stages, Answers, TypeOK
<1> QED
  BY <1>1, InitInv, StepInv, PTL DEF Spec

(* A request comes to the limiter or a handler only with a key that was    *)
(* good since it arrived, whatever is revoked or replaced meanwhile.       *)
THEOREM NobodyElseIsServed == Spec => []ServedOnlyIfGood
<1>1. IInv => ServedOnlyIfGood
  BY DEF IInv, SeenInv, Checked, ServedOnlyIfGood
<1> QED
  BY <1>1, InitInv, StepInv, PTL DEF Spec

(* 401 is never said because of a failure, a deadline or a closed pool.    *)
THEOREM FailuresAreNoRefusals == Spec => []RefusedOnlyIfBad
<1>1. IInv => RefusedOnlyIfBad
  BY DEF IInv, SeenInv, Checked, RefusedOnlyIfBad
<1> QED
  BY <1>1, InitInv, StepInv, PTL DEF Spec

(* No goroutine marks a row as used longer after its revocation than a     *)
(* request and the detached write may take together; what Postgres does    *)
(* with an UPDATE that has outlived its goroutine is the one exception.    *)
THEOREM MarksAreRecent == Spec => []MarkedSoonAfter
<1>1. IInv => MarkedSoonAfter
  BY DEF IInv, MarkInv, MarkedSoonAfter
<1> QED
  BY <1>1, InitInv, StepInv, PTL DEF Spec

(* A signal cuts no request before the grace period is over.               *)
THEOREM GraceIsKept == Spec => []CutOnlyAfterGrace
<1>1. IInv => CutOnlyAfterGrace
  BY DEF IInv, StopInv, Ending, CutOnlyAfterGrace
<1> QED
  BY <1>1, InitInv, StepInv, PTL DEF Spec

(* After a signal the process is gone in time, the latest request of the   *)
(* connections it had included: nothing without a deadline is ever waited  *)
(* for, the client that does not read its answer neither.                  *)
THEOREM EndsInTime == Spec => []GoneInTime
<1>1. IInv => GoneInTime
  BY TimeAssumption DEF IInv, StopInv, Typed, MarkTyped, GoneInTime
<1> QED
  BY <1>1, InitInv, StepInv, PTL DEF Spec

-----------------------------------------------------------------------------
(* Gateway implements Gate.                                                *)

Verdicts == [r \in Request |-> Verdict(stage[r])]
Owing    == {r \in Request : mark[r] # None}

(* A request that goes on to another stage takes its verdict with it.      *)
LEMMA VerdictMoves ==
    ASSUME Typed, NEW r \in Request, NEW s, Enter(r, s)
    PROVE  Verdicts' = [Verdicts EXCEPT ![r] = Verdict(s)]
BY DEF Typed, RequestTyped, Verdicts, Enter

LEMMA VerdictStays ==
    ASSUME Typed, NEW r \in Request, NEW s, Enter(r, s), Verdict(s) = Verdict(stage[r])
    PROVE  Verdicts' = Verdicts
<1>1. \A q \in Request : stage'[q] = IF q = r THEN s ELSE stage[q]
  BY DEF Typed, RequestTyped, Enter
<1>2. \A q \in Request : Verdict(stage'[q]) = Verdict(stage[q])
  BY <1>1
<1> QED
  BY <1>2 DEF Verdicts

(* A reply at any stage says what Gate allows of one that has come so far. *)
LEMMA ReplyResponds ==
    ASSUME Typed, NEW r \in Request, NEW a, Reply(r, a), r \in AtWork,
           a \in Abstract!Answers[Verdict(stage[r])],
           UNCHANGED <<hash, revoked, mark>>
    PROVE  Abstract!Respond(r)
<1>1. /\ Verdicts' = [Verdicts EXCEPT ![r] = "none"] /\ Owing' = Owing
      /\ Verdicts[r] = Verdict(stage[r])
  BY VerdictMoves DEF Reply, Verdict, Owing, Verdicts
<1>2. Abstract!UnderWay(r)
  BY DEF AtWork, Verdict, Abstract!UnderWay
<1>3. row' = [row EXCEPT ![r] = IF r \in Owing THEN @ ELSE NoRow]
  BY DEF Reply, Owing
<1> QED
  BY <1>1, <1>2, <1>3 DEF Reply, Abstract!Respond, Verdicts, Owing

(* What may be said at each stage.                                         *)
LEMMA StageAnswers ==
    ASSUME Typed, NEW r \in Request
    PROVE  /\ stage[r] \in OnPool => ErrorAnswer(r) \in Abstract!Answers[Verdict(stage[r])]
           /\ stage[r] = "limit" =>
                 {"limited", "error"} \subseteq Abstract!Answers[Verdict(stage[r])]
           /\ stage[r] = "read" => "served" \in Abstract!Answers[Verdict(stage[r])]
           /\ stage[r] = "unknown" => "unauthorized" \in Abstract!Answers[Verdict(stage[r])]
BY DEF Abstract!Answers, Verdict, ErrorAnswer, OnPool, Asking, Handling

(* Every step of the process is one of Gate, or none.                      *)
LEMMA StepGate == Typed /\ SeenInv /\ [Next]_vars => [Abstract!Next]_(Abstract!vars)
<1> SUFFICES ASSUME Typed, SeenInv, [Next]_vars PROVE [Abstract!Next]_(Abstract!vars)
  OBVIOUS
<1> USE DEF keys, usage, table, request, marking
<1>0. \A r \in Request : Abstract!UnderWay(r) <=> r \in AtWork
  BY DEF AtWork, Verdict, Abstract!UnderWay
  (* Connections, the process and its shutdown, a stage of the handler.    *)
<1>1. ASSUME UNCHANGED <<hash, revoked, key, row, answer>>,
             Verdicts' = Verdicts, Owing' = Owing
      PROVE  UNCHANGED Abstract!vars
  BY <1>1 DEF Abstract!vars, Verdicts, Owing
<1>2. CASE \/ \E r \in Request : Acquire(r)
           \/ \E i \in Id : StrayMark(i)
           \/ Signal \/ ClosePool \/ Tick \/ UNCHANGED vars
  BY <1>1, <1>2 DEF Acquire, StrayMark, Signal, ClosePool, Tick, vars, Verdicts, Owing
<1>3. ASSUME NEW r \in Request, MarkAcquire(r) PROVE UNCHANGED Abstract!vars
  <2>1. Owing' = Owing
    BY <1>3 DEF MarkAcquire, Typed, MarkTyped, Owing, None
  <2> QED
    BY <1>1, <1>3, <2>1 DEF MarkAcquire, Verdicts
<1>4. ASSUME NEW r \in Request, Pass(r) \/ Count(r) PROVE UNCHANGED Abstract!vars
  <2>1. Verdicts' = Verdicts
    <3>1. stage[r] \in {"limit", "count"} /\ \E s \in Handling : Enter(r, s)
      BY <1>4 DEF Pass, Count, Handler, Handling
    <3>2. \A s \in Handling : Verdict(s) = Verdict(stage[r])
      BY <3>1 DEF Handling, Verdict
    <3> QED
      BY <3>1, <3>2, VerdictStays
  <2> QED
    BY <1>1, <1>4, <2>1 DEF Pass, Count, Owing
  (* The request as its client sees it.                                    *)
<1>5. ASSUME NEW r \in Request, Arrive(r) PROVE Abstract!Ask(r)
  <2>1. Verdicts' = [Verdicts EXCEPT ![r] = "open"]
    BY <1>5, VerdictMoves DEF Arrive, Verdict
  <2>2. r \notin AtWork /\ mark[r] = None /\ answer[r] = None
    BY <1>5 DEF Arrive, AtWork, Typed, Looked, SeenInv, Checked, None
  <2>3. answer' = [answer EXCEPT ![r] = "none"]
    BY <1>5, <2>2 DEF Arrive, None, Typed, RequestTyped
  <2> QED
    BY <1>0, <1>5, <2>1, <2>2, <2>3 DEF Arrive, Abstract!Ask, Verdicts, Owing
<1>6. ASSUME NEW r \in Request, ArriveWithoutKey(r) PROVE Abstract!AskWithoutKey(r)
  <2>1. stage[r] = "new" /\ r \notin AtWork /\ mark[r] = None
    BY <1>6 DEF ArriveWithoutKey, AtWork, Typed, Looked
  <2>2. Verdicts' = Verdicts
    BY <1>6, <2>1, VerdictStays DEF ArriveWithoutKey, Reply, Verdict
  <2>3. UNCHANGED <<key, row>>
    BY <1>6, <2>1 DEF ArriveWithoutKey, Reply, Typed, RequestTyped, Looked
  <2> QED
    BY <1>0, <1>6, <2>1, <2>2, <2>3
       DEF ArriveWithoutKey, Reply, Abstract!AskWithoutKey, Verdicts, Owing
<1>7. ASSUME NEW r \in Request, Lookup(r) PROVE Abstract!Judge(r)
  <2>1. Verdicts[r] = "open"
    BY <1>7 DEF Lookup, Verdict, Verdicts
  <2>2. \A s : Abstract!Matching(s) = Matching(s)
    BY DEF Abstract!Matching, Matching
  <2>3. ASSUME NEW s \in {"known", "unknown"}, Enter(r, s)
        PROVE  Verdicts' = [Verdicts EXCEPT ![r] = IF s = "known" THEN "good" ELSE "bad"]
    BY <2>3, VerdictMoves DEF Verdict
  <2> QED
    BY <1>7, <2>1, <2>2, <2>3 DEF Lookup, Abstract!Judge, Verdicts
<1>8. ASSUME NEW r \in Request, Admit(r) PROVE Abstract!LetIn(r)
  <2>1. /\ Verdicts[r] = "good" /\ Verdicts' = [Verdicts EXCEPT ![r] = "in"]
    BY <1>8, VerdictMoves DEF Admit, Handler, Handling, Verdict, Verdicts
  <2>2. Owing' = Owing \cup {r}
    BY <1>8 DEF Admit, Typed, MarkTyped, Owing, None
  <2> QED
    BY <1>8, <2>1, <2>2 DEF Admit, Abstract!LetIn, Verdicts, Owing
<1>9. ASSUME NEW r \in Request,
             \/ Refuse(r) \/ TurnAway(r) \/ Read(r) \/ Fail(r) \/ GiveUp(r) \/ ClientLeaves(r)
      PROVE  Abstract!Respond(r)
  <2>1. PICK a : Reply(r, a) /\ a \in Abstract!Answers[Verdict(stage[r])]
    BY <1>9, StageAnswers
       DEF Refuse, TurnAway, Read, Fail, GiveUp, ClientLeaves, OnPool, Asking, Handling,
           AtWork, Stages, ErrorAnswer, Typed, RequestTyped
  <2>2. r \in AtWork /\ UNCHANGED <<hash, revoked, mark>>
    BY <1>9 DEF Refuse, TurnAway, Read, Fail, GiveUp, ClientLeaves, OnPool, Asking, Handling, AtWork
  <2> QED
    BY <2>1, <2>2, ReplyResponds
  (* The goroutine it has left behind.                                     *)
<1>10. ASSUME NEW r \in Request, MarkDone(r) \/ MarkFails(r) \/ MarkGivesUp(r)
       PROVE  Abstract!Settle(r)
  <2>1. MarkOver(r) /\ mark[r] # None
        /\ UNCHANGED <<hash, revoked, key, stage, answer>>
    BY <1>10 DEF MarkDone, MarkFails, MarkGivesUp, MarkOverdue, None
  <2>2. r \in Owing /\ Owing' = Owing \ {r}
    BY <2>1 DEF MarkOver, Typed, MarkTyped, Owing
  <2> QED
    BY <2>1, <2>2 DEF MarkOver, Abstract!Settle, Owing
  (* The process, time and the operator.                                   *)
<1>11. ASSUME Exit \/ Crash PROVE Abstract!Stop
  <2>1. PICK a \in {"none", "cut"} : Gone(a)
    BY <1>11 DEF Exit, Crash, None
  <2>2. Verdicts' = [r \in Request |-> "none"] /\ Owing' = {}
    BY <2>1 DEF Gone, Verdict, Verdicts, Owing
  <2>3. answer' \in [Request -> {"none", a}]
    BY <2>1 DEF Gone, None
  <2> QED
    BY <2>1, <2>2, <2>3 DEF Gone, Abstract!Stop, Verdicts, Owing
<1>12. ASSUME \/ Start
              \/ \E r \in Request : Written(r)
       PROVE  Abstract!Forget
  <2>1. \E S \in SUBSET Request :
           answer' = [r \in Request |-> IF r \in S THEN "none" ELSE answer[r]]
    <3>1. CASE Start
      BY <3>1 DEF Start, None
    <3>2. ASSUME NEW q \in Request, Written(q)
          PROVE  answer' = [r \in Request |-> IF r \in {q} THEN "none" ELSE answer[r]]
      BY <3>2 DEF Written, None, Typed, RequestTyped
    <3> QED
      BY <1>12, <3>1, <3>2
  <2>2. Verdicts' = Verdicts
    <3>1. CASE Start
      BY <3>1 DEF Start, Verdicts
    <3>2. ASSUME NEW q \in Request, Written(q) PROVE Verdicts' = Verdicts
      BY <3>2, VerdictStays DEF Written, Verdict
    <3> QED
      BY <1>12, <3>1, <3>2
  <2> QED
    BY <1>12, <2>1, <2>2 DEF Start, Written, Abstract!Forget, Verdicts, Owing
<1>15. ASSUME NEW r \in Request, Connect(r) \/ Unheard(r) PROVE UNCHANGED Abstract!vars
  <2>1. Verdicts' = Verdicts
    BY <1>15, VerdictStays DEF Connect, Unheard, Verdict
  <2> QED
    BY <1>1, <1>15, <2>1 DEF Connect, Unheard, Owing
<1>13. ASSUME NEW i \in Id, Revoke(i) PROVE Abstract!Revoke(i)
  BY <1>13 DEF Revoke, Abstract!Revoke
<1>14. ASSUME NEW i \in Id, Replace(i) PROVE Abstract!Replace(i)
  BY <1>14 DEF Replace, Abstract!Replace
<1> QED
  BY <1>2, <1>3, <1>4, <1>5, <1>6, <1>7, <1>8, <1>9, <1>10, <1>11, <1>12, <1>13, <1>14,
     <1>15 DEF Next, Step, MarkStep, Abstract!Next

(* The api process judges each key at one moment, by the table as it is    *)
(* then, and lets in, marks and answers accordingly, whatever is revoked,  *)
(* fails, hangs or is stopped before and after that moment.                *)
THEOREM GatewayImplementsGate == Spec => ImplementsGate
<1>1. Init => Abstract!Init
  BY KeyAssumption DEF Init, Abstract!Init, None, Verdict
<1>2. IInv => Typed /\ SeenInv
  BY DEF IInv
<1> QED
  BY <1>1, <1>2, InitInv, StepInv, StepGate, PTL DEF Spec, ImplementsGate, Abstract!Spec
=============================================================================
