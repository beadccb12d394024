-------------------------- MODULE SyncDaemonProofs --------------------------
(***************************************************************************)
(* Promises of the sync process for any number of runs and connections and *)
(* any interval and timeout, with crashes and signals at any moment.       *)
(***************************************************************************)
EXTENDS SyncDaemon, FiniteSetTheorems, TLAPS

-----------------------------------------------------------------------------
(* Types, and what a run holds at each stage.                              *)

Stages == Outside \cup {"idle", "begin", "lock", "fetch", "finish"}

Typed ==
    /\ main \in {"down", "up", "draining", "sourceClosed", "poolClosing"}
    /\ waited \in BOOLEAN
    /\ since \in 0..Interval
    /\ initial \in Run \cup {None}
    /\ stage \in [Run -> Stages]
    /\ age \in [Run -> 0..Timeout]
    /\ tx \in [Run -> BOOLEAN] /\ extra \in [Run -> BOOLEAN]
    /\ lock \in Run \cup {None, Setup}

(* A second connection is asked for under the lock only.                   *)
Holds(v) ==
    /\ tx[v] => stage[v] \notin {"idle", "begin"}
    /\ extra[v] => stage[v] \in Outside
    /\ stage[v] \in Outside \cup {"fetch"} => lock = v
    /\ main = "down" => stage[v] = "idle"

HoldInv == Typed /\ \A v \in Run : Holds(v)

LEMMA StepHold == HoldInv /\ [Next]_vars => HoldInv'
<1> SUFFICES ASSUME HoldInv, [Next]_vars PROVE HoldInv'
  OBVIOUS
<1> USE SizeAssumption, LockAssumption DEF HoldInv, Typed, Holds, Stages, Outside, process, held
<1>1. CASE UNCHANGED vars
  BY <1>1 DEF vars
<1>2. ASSUME NEW w \in Run, Begin(w) PROVE HoldInv'
  BY <1>2 DEF Begin, Enter
<1>3. ASSUME NEW w \in Run, AcquireLock(w) PROVE HoldInv'
  BY <1>3 DEF AcquireLock, Enter
<1>4. ASSUME NEW w \in Run, Acquire(w) PROVE HoldInv'
  BY <1>4 DEF Acquire
<1>5. ASSUME NEW w \in Run, Statement(w) PROVE HoldInv'
  BY <1>5 DEF Statement, Enter
<1>6. ASSUME NEW w \in Run, Fetch(w) PROVE HoldInv'
  BY <1>6 DEF Fetch, Enter
<1>7. ASSUME NEW w \in Run, FindPoolClosed(w) PROVE HoldInv'
  <2>1. CASE stage[w] = "begin" /\ Ended(w)
    BY <1>7, <2>1 DEF FindPoolClosed, Ended, Enter
  <2>2. CASE /\ stage[w] \in Outside /\ ~ extra[w]
             /\ stage' = [stage EXCEPT ![w] = "finish"]
             /\ UNCHANGED <<initial, age, held>>
    BY <1>7, <2>2 DEF FindPoolClosed
  <2> QED
    BY <1>7, <2>1, <2>2 DEF FindPoolClosed, Enter
<1>8. ASSUME NEW w \in Run, Finish(w) PROVE HoldInv'
  BY <1>8 DEF Finish, Ended, Enter
<1>9. ASSUME NEW w \in Run, GiveUp(w) PROVE HoldInv'
  BY <1>9 DEF GiveUp, Ended, Enter
<1>10. ASSUME Start PROVE HoldInv'
  <2>1. PICK w \in Run : Launch(w) /\ initial' = w
    BY <1>10 DEF Start
  <2>2. main' = "up" /\ waited' = FALSE /\ since' = 0 /\ UNCHANGED held
    BY <1>10 DEF Start
  <2>3. stage' = [stage EXCEPT ![w] = "begin"] /\ age' = [age EXCEPT ![w] = 0]
    BY <2>1 DEF Launch, Enter
  <2>4. Typed'
    <3>1. 0 \in 0..Interval /\ 0 \in 0..Timeout
      OBVIOUS
    <3> QED
      BY <2>1, <2>2, <2>3, <3>1
  <2>5. \A v \in Run : Holds(v)'
    BY <2>1, <2>2, <2>3 DEF Launch
  <2> QED
    BY <2>4, <2>5
<1>11. ASSUME Schedule PROVE HoldInv'
  BY <1>11 DEF Schedule, Launch, Enter
<1>12. ASSUME Signal PROVE HoldInv'
  BY <1>12 DEF Signal
<1>13. ASSUME WaitFifteenSeconds PROVE HoldInv'
  BY <1>13 DEF WaitFifteenSeconds
<1>14. ASSUME CloseSource PROVE HoldInv'
  BY <1>14 DEF CloseSource
<1>15. ASSUME ClosePool PROVE HoldInv'
  BY <1>15 DEF ClosePool
<1>16. ASSUME Exit PROVE HoldInv'
  <2>1. Typed'
    <3>1. 0 \in 0..Interval /\ 0 \in 0..Timeout
      OBVIOUS
    <3>2. /\ main' = "down" /\ waited' = FALSE /\ since' = 0 /\ initial' = None
          /\ stage' = [v \in Run |-> "idle"] /\ age' = [v \in Run |-> 0]
          /\ tx' = [v \in Run |-> FALSE] /\ extra' = [v \in Run |-> FALSE]
      BY <1>16 DEF Exit, Emptied
    <3>3. lock' \in Run \cup {None, Setup}
      BY <1>16 DEF Exit, Emptied
    <3> QED
      BY <3>1, <3>2, <3>3
  <2>2. ASSUME NEW v \in Run PROVE Holds(v)'
    BY <1>16 DEF Exit, Emptied
  <2> QED
    BY <2>1, <2>2
<1>17. ASSUME Crash PROVE HoldInv'
  <2>1. Typed'
    <3>1. 0 \in 0..Interval /\ 0 \in 0..Timeout
      OBVIOUS
    <3>2. /\ main' = "down" /\ waited' = FALSE /\ since' = 0 /\ initial' = None
          /\ stage' = [v \in Run |-> "idle"] /\ age' = [v \in Run |-> 0]
          /\ tx' = [v \in Run |-> FALSE] /\ extra' = [v \in Run |-> FALSE]
      BY <1>17 DEF Crash, Emptied
    <3>3. lock' \in Run \cup {None, Setup}
      BY <1>17 DEF Crash, Emptied
    <3> QED
      BY <3>1, <3>2, <3>3
  <2>2. ASSUME NEW v \in Run PROVE Holds(v)'
    BY <1>17 DEF Crash, Emptied
  <2> QED
    BY <2>1, <2>2
<1>18. ASSUME SetupLocks PROVE HoldInv'
  BY <1>18 DEF SetupLocks
<1>19. ASSUME SetupUnlocks PROVE HoldInv'
  BY <1>19 DEF SetupUnlocks
<1>20. ASSUME Tick PROVE HoldInv'
  BY <1>20 DEF Tick
<1> QED
  BY <1>1, <1>2, <1>3, <1>4, <1>5, <1>6, <1>7, <1>8, <1>9, <1>10, <1>11, <1>12, <1>13,
     <1>14, <1>15, <1>16, <1>17, <1>18, <1>19, <1>20 DEF Next, Step

-----------------------------------------------------------------------------
(* The pool.                                                               *)

Txs    == {v \in Run : tx[v]}
Extras == {v \in Run : extra[v]}

LEMMA UsedTyped ==
    /\ IsFiniteSet(Txs) /\ IsFiniteSet(Extras) /\ IsFiniteSet(Live)
    /\ Cardinality(Txs) \in Nat /\ Cardinality(Extras) \in Nat /\ Cardinality(Live) \in Nat
    /\ InUse = Cardinality(Txs) + Cardinality(Extras)
<1>1. Txs \subseteq Run /\ Extras \subseteq Run /\ Live \subseteq Run
  BY DEF Txs, Extras, Live
<1>2. IsFiniteSet(Txs) /\ IsFiniteSet(Extras) /\ IsFiniteSet(Live)
  BY <1>1, RunAssumption, FS_Subset
<1>3. Cardinality(Txs) \in Nat /\ Cardinality(Extras) \in Nat /\ Cardinality(Live) \in Nat
  BY <1>2, FS_CardinalityType
<1> QED
  BY <1>2, <1>3 DEF InUse, Txs, Extras

LEMMA LendsNoMore ==
    ASSUME \A v \in Run : tx'[v] => tx[v],
           \A v \in Run : extra'[v] => extra[v]
    PROVE  InUse <= PoolSize => InUse' <= PoolSize
<1>1. Txs' \subseteq Txs /\ Extras' \subseteq Extras
  BY DEF Txs, Extras
<1>2. Cardinality(Txs') <= Cardinality(Txs) /\ Cardinality(Extras') <= Cardinality(Extras)
  BY <1>1, UsedTyped, FS_Subset
<1>3. Cardinality(Txs') \in Nat /\ Cardinality(Extras') \in Nat
  BY <1>1, UsedTyped, FS_Subset, FS_CardinalityType
<1>4. InUse' = Cardinality(Txs') + Cardinality(Extras')
  BY DEF InUse, Txs, Extras
<1> QED
  BY <1>2, <1>3, <1>4, UsedTyped, SizeAssumption

LEMMA StepPool == HoldInv /\ InUse <= PoolSize /\ [Next]_vars => (InUse <= PoolSize)'
<1> SUFFICES ASSUME HoldInv, InUse <= PoolSize, [Next]_vars PROVE InUse' <= PoolSize
  OBVIOUS
<1> USE SizeAssumption DEF Typed, process, held
<1>0. HoldInv /\ Typed
  BY DEF HoldInv
<1>1. CASE UNCHANGED vars
  BY <1>1 DEF vars, InUse
<1>2. ASSUME NEW w \in Run, Begin(w) PROVE InUse' <= PoolSize
  <2>1. tx' = [tx EXCEPT ![w] = TRUE] /\ ~ tx[w] /\ extra' = extra /\ InUse < PoolSize
    BY <1>2, <1>0 DEF Begin, HasRoom, HoldInv, Holds
  <2>2. Txs' = Txs \cup {w} /\ w \notin Txs /\ Extras' = Extras
    BY <1>0, <2>1 DEF Txs, Extras
  <2>3. InUse' = Cardinality(Txs') + Cardinality(Extras')
    BY DEF InUse, Txs, Extras
  <2>4. Cardinality(Txs') = Cardinality(Txs) + 1
    BY <2>2, FS_AddElement, UsedTyped
  <2> QED
    BY <2>1, <2>2, <2>3, <2>4, UsedTyped
<1>3. ASSUME NEW w \in Run, AcquireLock(w) PROVE InUse' <= PoolSize
  BY <1>3, <1>0, LendsNoMore DEF AcquireLock, Enter
<1>4. ASSUME NEW w \in Run, Acquire(w) PROVE InUse' <= PoolSize
  <2>1. extra' = [extra EXCEPT ![w] = TRUE] /\ ~ extra[w] /\ tx' = tx /\ InUse < PoolSize
    BY <1>4 DEF Acquire, HasRoom
  <2>2. Extras' = Extras \cup {w} /\ w \notin Extras /\ Txs' = Txs
    BY <1>0, <2>1 DEF Txs, Extras
  <2>3. InUse' = Cardinality(Txs') + Cardinality(Extras')
    BY DEF InUse, Txs, Extras
  <2>4. Cardinality(Extras') = Cardinality(Extras) + 1
    BY <2>2, FS_AddElement, UsedTyped
  <2> QED
    BY <2>1, <2>2, <2>3, <2>4, UsedTyped
<1>5. ASSUME NEW w \in Run, Statement(w) PROVE InUse' <= PoolSize
  BY <1>5, <1>0, LendsNoMore DEF Statement, Enter
<1>6. ASSUME NEW w \in Run, Fetch(w) PROVE InUse' <= PoolSize
  BY <1>6, <1>0, LendsNoMore DEF Fetch, Enter
<1>7. ASSUME NEW w \in Run, FindPoolClosed(w) PROVE InUse' <= PoolSize
  BY <1>7, <1>0, LendsNoMore DEF FindPoolClosed, Ended, Enter
<1>8. ASSUME NEW w \in Run, Finish(w) PROVE InUse' <= PoolSize
  BY <1>8, <1>0, LendsNoMore DEF Finish, Ended, Enter
<1>9. ASSUME NEW w \in Run, GiveUp(w) PROVE InUse' <= PoolSize
  BY <1>9, <1>0, LendsNoMore DEF GiveUp, Ended, Enter
<1>10. ASSUME Start PROVE InUse' <= PoolSize
  BY <1>10, <1>0, LendsNoMore DEF Start, Launch, Enter
<1>11. ASSUME Schedule PROVE InUse' <= PoolSize
  BY <1>11, <1>0, LendsNoMore DEF Schedule, Launch, Enter
<1>12. ASSUME Signal PROVE InUse' <= PoolSize
  BY <1>12, <1>0, LendsNoMore DEF Signal
<1>13. ASSUME WaitFifteenSeconds PROVE InUse' <= PoolSize
  BY <1>13, <1>0, LendsNoMore DEF WaitFifteenSeconds
<1>14. ASSUME CloseSource PROVE InUse' <= PoolSize
  BY <1>14, <1>0, LendsNoMore DEF CloseSource
<1>15. ASSUME ClosePool PROVE InUse' <= PoolSize
  BY <1>15, <1>0, LendsNoMore DEF ClosePool
<1>16. ASSUME Exit PROVE InUse' <= PoolSize
  BY <1>16, <1>0, LendsNoMore DEF Exit, Emptied
<1>17. ASSUME Crash PROVE InUse' <= PoolSize
  BY <1>17, <1>0, LendsNoMore DEF Crash, Emptied
<1>18. ASSUME SetupLocks PROVE InUse' <= PoolSize
  BY <1>18, <1>0, LendsNoMore DEF SetupLocks
<1>19. ASSUME SetupUnlocks PROVE InUse' <= PoolSize
  BY <1>19, <1>0, LendsNoMore DEF SetupUnlocks
<1>20. ASSUME Tick PROVE InUse' <= PoolSize
  BY <1>20, <1>0, LendsNoMore DEF Tick
<1> QED
  BY <1>1, <1>2, <1>3, <1>4, <1>5, <1>6, <1>7, <1>8, <1>9, <1>10, <1>11, <1>12, <1>13,
     <1>14, <1>15, <1>16, <1>17, <1>18, <1>19, <1>20 DEF Next, Step

-----------------------------------------------------------------------------
(* How far apart in age the runs are.                                      *)

Spaced ==
    /\ \A v \in Run : main = "up" /\ stage[v] # "idle" => age[v] >= since
    /\ \A v, w \in Run : v # w /\ stage[v] # "idle" /\ stage[w] # "idle"
                          => age[v] >= age[w] + Interval \/ age[w] >= age[v] + Interval

LEMMA StepSpaced == HoldInv /\ Spaced /\ [Next]_vars => Spaced'
<1> SUFFICES ASSUME HoldInv, Spaced, [Next]_vars PROVE Spaced'
  OBVIOUS
<1> USE SizeAssumption DEF Spaced, Typed, Stages, Outside, process, held
<1>0. /\ Typed
      /\ main = "down" => \A v \in Run : stage[v] = "idle"
      /\ \A v \in Run : extra[v] => stage[v] # "idle"
  BY DEF HoldInv, Holds
<1>1. CASE UNCHANGED vars
  BY <1>1 DEF vars
<1>2. ASSUME NEW w \in Run, Begin(w) PROVE Spaced'
  BY <1>2, <1>0 DEF Begin, Enter
<1>3. ASSUME NEW w \in Run, AcquireLock(w) PROVE Spaced'
  BY <1>3, <1>0 DEF AcquireLock, Enter
<1>4. ASSUME NEW w \in Run, Acquire(w) PROVE Spaced'
  BY <1>4, <1>0 DEF Acquire
<1>5. ASSUME NEW w \in Run, Statement(w) PROVE Spaced'
  BY <1>5, <1>0 DEF Statement, Enter
<1>6. ASSUME NEW w \in Run, Fetch(w) PROVE Spaced'
  BY <1>6, <1>0 DEF Fetch, Enter
<1>7. ASSUME NEW w \in Run, FindPoolClosed(w) PROVE Spaced'
  BY <1>7, <1>0 DEF FindPoolClosed, Ended, Enter
<1>8. ASSUME NEW w \in Run, Finish(w) PROVE Spaced'
  BY <1>8, <1>0 DEF Finish, Ended, Enter
<1>9. ASSUME NEW w \in Run, GiveUp(w) PROVE Spaced'
  BY <1>9, <1>0 DEF GiveUp, Ended, Enter
<1>10. ASSUME Start PROVE Spaced'
  <2>1. PICK w \in Run : stage' = [stage EXCEPT ![w] = "begin"] /\ age' = [age EXCEPT ![w] = 0]
    BY <1>10 DEF Start, Launch, Enter
  <2>2. main' = "up" /\ since' = 0 /\ main = "down"
    BY <1>10 DEF Start
  <2> QED
    BY <1>0, <2>1, <2>2
<1>11. ASSUME Schedule PROVE Spaced'
  <2>1. PICK w \in Run : stage' = [stage EXCEPT ![w] = "begin"] /\ age' = [age EXCEPT ![w] = 0]
    BY <1>11 DEF Schedule, Launch, Enter
  <2>2. main' = main /\ since' = 0 /\ main = "up" /\ since = Interval
    BY <1>11 DEF Schedule
  <2> QED
    BY <1>0, <2>1, <2>2
<1>12. ASSUME Signal PROVE Spaced'
  BY <1>12, <1>0 DEF Signal
<1>13. ASSUME WaitFifteenSeconds PROVE Spaced'
  BY <1>13, <1>0 DEF WaitFifteenSeconds
<1>14. ASSUME CloseSource PROVE Spaced'
  BY <1>14, <1>0 DEF CloseSource
<1>15. ASSUME ClosePool PROVE Spaced'
  BY <1>15, <1>0 DEF ClosePool
<1>16. ASSUME Exit PROVE Spaced'
  BY <1>16, <1>0 DEF Exit, Emptied
<1>17. ASSUME Crash PROVE Spaced'
  BY <1>17, <1>0 DEF Crash, Emptied
<1>18. ASSUME SetupLocks PROVE Spaced'
  BY <1>18, <1>0 DEF SetupLocks
<1>19. ASSUME SetupUnlocks PROVE Spaced'
  BY <1>19, <1>0 DEF SetupUnlocks
<1>20. ASSUME Tick PROVE Spaced'
  <2>1. ASSUME NEW v \in Run, stage[v] # "idle" PROVE age'[v] = age[v] + 1
    BY <1>20, <1>0, <2>1 DEF Tick, Live, Overdue
  <2>2. stage' = stage /\ main' = main /\ (main = "up" => since' = since + 1)
    BY <1>20 DEF Tick
  <2> QED
    BY <1>0, <2>1, <2>2
<1> QED
  BY <1>1, <1>2, <1>3, <1>4, <1>5, <1>6, <1>7, <1>8, <1>9, <1>10, <1>11, <1>12, <1>13,
     <1>14, <1>15, <1>16, <1>17, <1>18, <1>19, <1>20 DEF Next, Step

(* Division by a positive number tells apart what is that far apart.       *)
LEMMA DivApart ==
    ASSUME NEW m \in Nat \ {0}, NEW x \in Nat, NEW y \in Nat
    PROVE  /\ x \div m \in Nat
           /\ x <= y => x \div m <= y \div m
           /\ x >= y + m => x \div m # y \div m
<1>1. x \div m \in Nat
  OBVIOUS
<1>2. x <= y => x \div m <= y \div m
  OBVIOUS
<1>3. x >= y + m => x \div m # y \div m
  OBVIOUS
<1> QED
  BY <1>1, <1>2, <1>3

(* Live runs are in different turns of the schedule.                       *)
LEMMA LiveAreFew ==
    ASSUME HoldInv, Spaced, NEW first \in {0, 1},
           first = 0 \/ \A v \in Live : age[v] >= Interval
    PROVE  Cardinality(Live) <= (Timeout \div Interval) + 1 - first
<1> DEFINE last  == Timeout \div Interval
           turn  == [v \in Live |-> age[v] \div Interval]
<1>1. last \in Nat
  BY DivApart, SizeAssumption
<1>2. ASSUME NEW v \in Live
      PROVE  v \in Run /\ stage[v] # "idle" /\ age[v] \in Nat /\ age[v] <= Timeout
  BY SizeAssumption DEF HoldInv, Typed, Live
<1>3. ASSUME NEW v \in Live PROVE age[v] \div Interval \in first..last
  <2>1. age[v] \div Interval \in Nat /\ age[v] \div Interval <= last
    BY <1>2, DivApart, SizeAssumption
  <2>2. age[v] >= Interval => age[v] \div Interval >= 1
    BY <1>2, SizeAssumption
  <2> QED
    BY <1>1, <2>1, <2>2
<1>4. turn \in [Live -> first..last]
  BY <1>3
<1>5. IsFiniteSet(first..last) /\ Cardinality(first..last) = last + 1 - first
  <2> HIDE DEF last
  <2> QED
    BY <1>1, FS_Interval
<1> SUFFICES ASSUME Cardinality(Live) > last + 1 - first PROVE FALSE
  BY <1>1, UsedTyped
<1>6. PICK v, w \in Live : v # w /\ turn[v] = turn[w]
  <2> DEFINE Turns == first..last
  <2>1. /\ IsFiniteSet(Turns) /\ IsFiniteSet(Live) /\ turn \in [Live -> Turns]
        /\ Cardinality(Turns) < Cardinality(Live)
    <3> HIDE DEF turn
    <3> QED
      BY <1>1, <1>4, <1>5, UsedTyped
  <2> HIDE DEF turn, Turns
  <2> QED
    BY <2>1, FS_PigeonHole
<1>7. age[v] \div Interval = age[w] \div Interval
  BY <1>6
<1>8. age[v] >= age[w] + Interval \/ age[w] >= age[v] + Interval
  BY <1>2, <1>6 DEF Spaced
<1> QED
  BY <1>2, <1>7, <1>8, DivApart, SizeAssumption

-----------------------------------------------------------------------------
(* The theorems.                                                           *)

IInv == HoldInv /\ InUse <= PoolSize /\ Spaced

LEMMA InitInv == Init => IInv
<1> SUFFICES ASSUME Init PROVE IInv
  OBVIOUS
<1> USE SizeAssumption DEF Init
<1>1. Typed
  <2>1. 0 \in 0..Interval /\ 0 \in 0..Timeout
    OBVIOUS
  <2> QED
    BY <2>1 DEF Typed, Stages
<1>2. InUse <= PoolSize
  <2>1. Txs = {} /\ Extras = {}
    BY DEF Txs, Extras
  <2> QED
    BY <2>1, FS_EmptySet, UsedTyped
<1>3. Spaced /\ \A v \in Run : Holds(v)
  BY DEF Spaced, Holds, Outside
<1> QED
  BY <1>1, <1>2, <1>3 DEF IInv, HoldInv

LEMMA StepInv == IInv /\ [Next]_vars => IInv'
BY StepHold, StepPool, StepSpaced DEF IInv

(* Types, and never more connections in use than the pool has.             *)
THEOREM TypeCorrect == Spec => []TypeOK
<1>1. IInv => TypeOK
  BY DEF IInv, HoldInv, Typed, Stages, TypeOK
<1> QED
  BY <1>1, InitInv, StepInv, PTL DEF Spec

(* The deadline and the interval bound the runs that are alive together:   *)
(* their ages lie an interval apart, and none is older than the deadline.  *)
THEOREM OverlapBounded == Spec => []OverlapIsBounded
<1>1. IInv => OverlapIsBounded
  BY LiveAreFew, DivApart, SizeAssumption DEF IInv, OverlapIsBounded
<1> QED
  BY <1>1, InitInv, StepInv, PTL DEF Spec

(* While connections outnumber runs, the run that has the lock finds a     *)
(* second one: nobody else has more than one.                              *)
THEOREM HolderServed == Spec => []HolderIsServed
<1>1. IInv => HolderIsServed
  <2> SUFFICES ASSUME IInv, NEW w \in Run, stage[w] \in Outside, ~ extra[w],
                      Cardinality(Live) < PoolSize
               PROVE  HasRoom
    BY DEF HolderIsServed
  <2>1. Extras = {}
    BY LockAssumption DEF IInv, HoldInv, Holds, Extras
  <2>2. Txs \subseteq Live
    BY DEF IInv, HoldInv, Holds, Txs, Live
  <2>3. Cardinality(Txs) <= Cardinality(Live)
    BY <2>2, UsedTyped, FS_Subset
  <2> QED
    BY <2>1, <2>3, UsedTyped, FS_EmptySet, SizeAssumption DEF HasRoom
<1> QED
  BY <1>1, InitInv, StepInv, PTL DEF Spec

(* A run that wants a connection: its first, or its second under the lock. *)
Wants(w) == stage[w] = "begin" \/ (stage[w] \in Outside /\ ~ extra[w])

(* A pool larger than the number of runs the deadline allows serves every  *)
(* run at once, not only the one with the lock: of all that wait for the   *)
(* lock or hold it none waits for a connection.                            *)
THEOREM PoolSuffices ==
    ASSUME PoolSize > (Timeout \div Interval) + 1
    PROVE  Spec => [](\A w \in Run : Wants(w) => HasRoom)
<1>1. IInv => \A w \in Run : Wants(w) => HasRoom
  <2> SUFFICES ASSUME IInv, NEW w \in Run, Wants(w) PROVE HasRoom
    OBVIOUS
  <2> USE DEF IInv
  <2>1. Txs \subseteq Live /\ w \in Live /\ Cardinality(Live) < PoolSize
    <3>1. Cardinality(Live) <= (Timeout \div Interval) + 1
      BY LiveAreFew, DivApart, SizeAssumption
    <3>2. Cardinality(Live) < PoolSize
      BY <3>1, DivApart, UsedTyped, SizeAssumption
    <3> QED
      BY <3>2 DEF HoldInv, Holds, Txs, Live, Wants, Outside
  <2>2. CASE stage[w] = "begin"
    <3>1. Txs \subseteq Live \ {w}
      BY <2>1, <2>2 DEF HoldInv, Holds, Txs
    <3>2. Cardinality(Txs) <= Cardinality(Live) - 1
      BY <2>1, <3>1, UsedTyped, FS_RemoveElement, FS_Subset
    <3>3. Extras \subseteq {lock}
      BY LockAssumption DEF HoldInv, Holds, Extras
    <3>4. Cardinality(Extras) <= 1
      <4>1. IsFiniteSet({lock}) /\ Cardinality({lock}) = 1
        BY FS_Singleton
      <4> QED
        BY <3>3, <4>1, FS_Subset
    <3> QED
      BY <2>1, <3>2, <3>4, UsedTyped, SizeAssumption DEF HasRoom
  <2>3. CASE stage[w] \in Outside /\ ~ extra[w]
    <3>1. Extras = {}
      BY <2>3, LockAssumption DEF HoldInv, Holds, Extras
    <3>2. Cardinality(Txs) <= Cardinality(Live)
      BY <2>1, UsedTyped, FS_Subset
    <3> QED
      BY <2>1, <3>1, <3>2, UsedTyped, FS_EmptySet, SizeAssumption DEF HasRoom
  <2> QED
    BY <2>2, <2>3 DEF Wants
<1> QED
  BY <1>1, InitInv, StepInv, PTL DEF Spec

(* The program starts as many goroutines as the schedule asks for; Run is  *)
(* finite.  It loses no behaviour: with more slots than the timeout has    *)
(* intervals there is a free one whenever a run is due.                    *)
THEOREM SlotsSuffice ==
    ASSUME Cardinality(Run) > Timeout \div Interval
    PROVE  Spec => [](main = "down" \/ (main = "up" /\ since = Interval)
                      => \E w \in Run : stage[w] = "idle")
<1>1. IInv => (main = "down" \/ (main = "up" /\ since = Interval)
               => \E w \in Run : stage[w] = "idle")
  <2> SUFFICES ASSUME IInv, main = "down" \/ (main = "up" /\ since = Interval),
                      \A w \in Run : stage[w] # "idle"
               PROVE  FALSE
    OBVIOUS
  <2> USE DEF IInv
  <2>1. Live = Run
    BY DEF Live
  <2>2. \A v \in Live : age[v] >= Interval
    BY <2>1 DEF HoldInv, Holds, Spaced
  <2>3. Cardinality(Live) <= Timeout \div Interval
    BY <2>2, LiveAreFew, DivApart, SizeAssumption, UsedTyped
  <2> QED
    BY <2>1, <2>3, UsedTyped, DivApart, SizeAssumption
<1> QED
  BY <1>1, InitInv, StepInv, PTL DEF Spec
=============================================================================
