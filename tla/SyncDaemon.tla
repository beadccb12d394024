----------------------------- MODULE SyncDaemon -----------------------------
(***************************************************************************)
(* cmd/sync: the process around the sync run.  It starts a run at once and *)
(* another every interval, whatever became of those before; a run gives up *)
(* after its timeout.  All runs draw on one pool of Postgres connections:  *)
(* each holds one for its transaction from beginning to end and takes a    *)
(* second for every statement outside it, with the advisory lock held.  On *)
(* a signal the process stops the schedule and closes the source, then the *)
(* pool.  svc-setup may hold the advisory lock too.                        *)
(*                                                                         *)
(* What a run does to the data is in Syncer; here it is what it holds and  *)
(* what it waits for.                                                      *)
(***************************************************************************)
EXTENDS Naturals, FiniteSets

CONSTANTS
    Run,        \* slots for runs
    None,       \* nobody has the advisory lock
    Setup,      \* svc-setup's initial sync has it
    PoolSize,   \* MaxConns
    Interval,   \* ticks between two runs of the schedule
    Timeout     \* ticks a run may take

ASSUME RunAssumption  == IsFiniteSet(Run)
ASSUME LockAssumption == None \notin Run /\ Setup \notin Run /\ None # Setup
ASSUME SizeAssumption == PoolSize \in Nat /\ Interval \in Nat \ {0} /\ Timeout \in Nat \ {0}

VARIABLES
    main,      \* where main is
    waited,    \* it has waited fifteen seconds for runs to end
    since,     \* ticks since the schedule last started a run
    initial,   \* the run started at once, which the signal cancels
    stage,     \* of each run
    age,       \* ticks since it started
    tx, extra, \* does it hold its first connection, its second
    lock       \* who has the advisory lock

process == <<main, waited, since, initial>>
held    == <<tx, extra, lock>>
vars    == <<process, stage, age, held>>

Live    == {w \in Run : stage[w] # "idle"}
InUse   == Cardinality({w \in Run : tx[w]}) + Cardinality({w \in Run : extra[w]})
HasRoom == InUse < PoolSize

SourceOpen == main \in {"up", "draining"}
PoolOpen   == main \in {"up", "draining", "sourceClosed"}

Init ==
    /\ main = "down" /\ waited = FALSE /\ since = 0 /\ initial = None
    /\ stage = [w \in Run |-> "idle"] /\ age = [w \in Run |-> 0]
    /\ tx = [w \in Run |-> FALSE] /\ extra = [w \in Run |-> FALSE]
    /\ lock = None

-----------------------------------------------------------------------------
(* A run.                                                                  *)

Enter(w, s) == stage' = [stage EXCEPT ![w] = s]

(* A bug to catch: the connection of the transaction is not given back.    *)
EndedLeaking(w) ==
    /\ Enter(w, "idle")
    /\ age' = [age EXCEPT ![w] = 0]
    /\ lock' = IF lock = w THEN None ELSE lock
    /\ extra' = [extra EXCEPT ![w] = FALSE]
    /\ tx' = tx
    /\ initial' = IF initial = w THEN None ELSE initial

(* The run is over: commit or rollback, and its connections go back.       *)
Ended(w) ==
    /\ Enter(w, "idle")
    /\ age' = [age EXCEPT ![w] = 0]
    /\ lock' = IF lock = w THEN None ELSE lock
    /\ extra' = [extra EXCEPT ![w] = FALSE]
    /\ tx' = [tx EXCEPT ![w] = FALSE]
    /\ initial' = IF initial = w THEN None ELSE initial

Begin(w) ==
    /\ stage[w] = "begin"
    /\ PoolOpen /\ HasRoom
    /\ tx' = [tx EXCEPT ![w] = TRUE]
    /\ Enter(w, "lock")
    /\ UNCHANGED <<process, age, extra, lock>>

AcquireLock(w) ==
    /\ stage[w] = "lock"
    /\ lock = None
    /\ lock' = w
    /\ Enter(w, "readWatermark")
    /\ UNCHANGED <<process, age, tx, extra>>

Outside == {"readWatermark", "upsert"}   \* stages on a second connection

(* A bug to catch: connections are not limited.                            *)
AcquireUnlimited(w) ==
    /\ stage[w] \in Outside /\ ~ extra[w]
    /\ extra' = [extra EXCEPT ![w] = TRUE]
    /\ UNCHANGED <<process, stage, age, tx, lock>>

Acquire(w) ==
    /\ stage[w] \in Outside /\ ~ extra[w]
    /\ PoolOpen /\ HasRoom
    /\ extra' = [extra EXCEPT ![w] = TRUE]
    /\ UNCHANGED <<process, stage, age, tx, lock>>

(* The statement is done, or has failed, and its connection goes back.     *)
Statement(w) ==
    /\ extra[w]
    /\ extra' = [extra EXCEPT ![w] = FALSE]
    /\ \E next \in {"finish", IF stage[w] = "upsert" THEN "upsert" ELSE "fetch"} :
          Enter(w, next)
    /\ UNCHANGED <<process, age, tx, lock>>

Fetch(w) ==
    /\ stage[w] = "fetch"
    /\ \E next \in {"finish"} \cup (IF SourceOpen THEN {"upsert"} ELSE {}) :
          Enter(w, next)
    /\ UNCHANGED <<process, age, held>>

(* A connection asked of a closed pool: an error.                          *)
FindPoolClosed(w) ==
    /\ ~ PoolOpen
    /\ \/ /\ stage[w] = "begin"
          /\ Ended(w)
       \/ /\ stage[w] \in Outside /\ ~ extra[w]
          /\ Enter(w, "finish")
          /\ UNCHANGED <<initial, age, held>>
    /\ UNCHANGED <<main, waited, since>>

Finish(w) ==
    /\ stage[w] = "finish"
    /\ Ended(w)
    /\ UNCHANGED <<main, waited, since>>

(* A bug to catch: a run started without a deadline.                       *)
OverdueNever(w) == FALSE

(* Its ten minutes are over, or it is the first run and a signal came.     *)
Overdue(w) ==
    /\ stage[w] # "idle"
    /\ age[w] = Timeout \/ (initial = w /\ main # "up")

GiveUp(w) ==
    /\ Overdue(w)
    /\ Ended(w)
    /\ UNCHANGED <<main, waited, since>>

-----------------------------------------------------------------------------
(* The process.                                                            *)

Launch(w) ==
    /\ stage[w] = "idle"
    /\ Enter(w, "begin")
    /\ age' = [age EXCEPT ![w] = 0]

(* main: go runOnce(ctx); c.Start().  Whatever fails before ends the       *)
(* process, and it is started again.                                       *)
Start ==
    /\ main = "down"
    /\ main' = "up" /\ waited' = FALSE /\ since' = 0
    /\ \E w \in Run : Launch(w) /\ initial' = w
    /\ UNCHANGED held

(* A bug to catch: the schedule takes a shorter interval for its own.      *)
ScheduleEarly ==
    /\ main = "up"
    /\ since > 0
    /\ since' = 0
    /\ \E w \in Run : Launch(w)
    /\ UNCHANGED <<main, waited, initial, held>>

(* cron: the schedule starts a run, whoever is still running.              *)
Schedule ==
    /\ main = "up"
    /\ since = Interval
    /\ since' = 0
    /\ \E w \in Run : Launch(w)
    /\ UNCHANGED <<main, waited, initial, held>>

(* SIGTERM: c.Stop() ends the schedule and returns; nobody looks at the    *)
(* context it returns, which would tell when the runs have ended.          *)
Signal ==
    /\ main = "up"
    /\ main' = "draining"
    /\ UNCHANGED <<waited, since, initial, stage, age, held>>

WaitFifteenSeconds ==
    /\ main = "draining"
    /\ ~ waited
    /\ waited' = TRUE
    /\ UNCHANGED <<main, since, initial, stage, age, held>>

(* The deferred vps.Close().                                               *)
CloseSource ==
    /\ main = "draining"
    /\ main' = "sourceClosed"
    /\ UNCHANGED <<waited, since, initial, stage, age, held>>

(* The deferred pool.Close(), which waits for the connections in use.      *)
ClosePool ==
    /\ main = "sourceClosed"
    /\ main' = "poolClosing"
    /\ UNCHANGED <<waited, since, initial, stage, age, held>>

Emptied ==
    /\ main' = "down" /\ waited' = FALSE /\ since' = 0 /\ initial' = None
    /\ stage' = [w \in Run |-> "idle"] /\ age' = [w \in Run |-> 0]
    /\ tx' = [w \in Run |-> FALSE] /\ extra' = [w \in Run |-> FALSE]
    /\ lock' = IF lock = Setup THEN Setup ELSE None

Exit ==
    /\ main = "poolClosing"
    /\ InUse = 0
    /\ Emptied

(* The process is killed; Postgres closes its sessions.                    *)
Crash ==
    /\ main # "down"
    /\ Emptied

-----------------------------------------------------------------------------
SetupLocks ==
    /\ lock = None
    /\ lock' = Setup
    /\ UNCHANGED <<process, stage, age, tx, extra>>

SetupUnlocks ==
    /\ lock = Setup
    /\ lock' = None
    /\ UNCHANGED <<process, stage, age, tx, extra>>

(* Time passes; what is due happens first.                                 *)
Tick ==
    /\ main # "down"
    /\ \A w \in Run : ~ Overdue(w)
    /\ main = "up" => since < Interval
    /\ since' = IF main = "up" THEN since + 1 ELSE since
    /\ age' = [w \in Run |-> IF w \in Live /\ age[w] < Timeout THEN age[w] + 1 ELSE age[w]]
    /\ UNCHANGED <<main, waited, initial, stage, held>>

Step(w) ==
    \/ Begin(w) \/ AcquireLock(w) \/ Acquire(w) \/ Statement(w) \/ Fetch(w)
    \/ FindPoolClosed(w) \/ Finish(w)

Next ==
    \/ \E w \in Run : Step(w) \/ GiveUp(w)
    \/ Start \/ Schedule \/ Signal \/ WaitFifteenSeconds
    \/ CloseSource \/ ClosePool \/ Exit \/ Crash
    \/ SetupLocks \/ SetupUnlocks
    \/ Tick

Spec == Init /\ [][Next]_vars

(* Goroutines that can run do, timers fire, svc-setup comes to an end.     *)
Fairness ==
    /\ \A w \in Run : WF_vars(Step(w)) /\ WF_vars(GiveUp(w))
    /\ WF_vars(CloseSource) /\ WF_vars(ClosePool) /\ WF_vars(Exit)
    /\ WF_vars(Schedule) /\ WF_vars(SetupUnlocks) /\ WF_vars(Tick)

FairSpec == Spec /\ Fairness

-----------------------------------------------------------------------------
(* Type invariant; the pool never lends more than it has.                  *)
TypeOK ==
    /\ main \in {"down", "up", "draining", "sourceClosed", "poolClosing"}
    /\ waited \in BOOLEAN
    /\ since \in 0..Interval
    /\ initial \in Run \cup {None}
    /\ stage \in [Run -> Outside \cup {"idle", "begin", "lock", "fetch", "finish"}]
    /\ age \in [Run -> 0..Timeout]
    /\ tx \in [Run -> BOOLEAN] /\ extra \in [Run -> BOOLEAN]
    /\ lock \in Run \cup {None, Setup}
    /\ InUse <= PoolSize

(* Though nothing keeps the schedule from starting a run beside others,    *)
(* the timeout keeps their number down.                                    *)
OverlapIsBounded == Cardinality(Live) <= (Timeout \div Interval) + 1

(* The run that has the lock, when it needs its second connection, finds   *)
(* one whenever fewer runs are alive than the pool has connections.        *)
HolderIsServed ==
    \A w \in Run : /\ stage[w] \in Outside /\ ~ extra[w] /\ PoolOpen
                   /\ Cardinality(Live) < PoolSize
                   => HasRoom

(* Every run ends, though the lock and the connections may be taken.       *)
EveryRunEnds == \A w \in Run : stage[w] # "idle" ~> stage[w] = "idle"

(* A signal ends the process, whatever its runs are waiting for.           *)
ShutdownCompletes == main = "draining" ~> main = "down"

(* "cron stop timed out; exiting with in-flight sync" (main): with runs of *)
(* the schedule in flight, the source is closed only when the fifteen      *)
(* seconds are over.                                                       *)
StopWaitsForRuns ==
    [][main = "draining" /\ main' = "sourceClosed" => Live \subseteq {initial} \/ waited]_vars
=============================================================================
