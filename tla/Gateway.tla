------------------------------ MODULE Gateway ------------------------------
(***************************************************************************)
(* cmd/api and internal/server: the process that answers requests.  A      *)
(* client connects and sends its request when it pleases, but soon.  The   *)
(* key is looked up in api_keys each time; a request let in leaves a       *)
(* goroutine behind that marks the row as used, under a deadline of its    *)
(* own, passes the rate limiter and comes to a handler of one or two       *)
(* queries.  All statements draw on one pool.  The answer is written to a  *)
(* client that may not read it.  Meanwhile keys are revoked and replaced,  *)
(* statements hang and fail, clients leave.  On a signal the process       *)
(* accepts no more connections, waits for those it has, but not longer     *)
(* than a grace period, and closes the pool, which waits for every         *)
(* connection to Postgres in use.                                          *)
(*                                                                         *)
(* What a handler's queries return is in KaryawanApi, the limiter's        *)
(* counting in RateLimit, how keys come to be replaced in Setup.           *)
(***************************************************************************)
EXTENDS Naturals, FiniteSets

CONSTANTS
    Request,      \* slots: a request and the goroutine it leaves behind
    Id, NoRow,    \* rows of api_keys; none
    Secret,       \* API keys, each standing for its hash too
    Issued,       \* those that the rows are for at first
    NoSecret,     \* no key
    PoolSize,     \* MaxConns
    HeaderTimeout,\* ticks a client may take to send its request
    ReqTimeout,   \* ticks a request may take
    MarkTimeout,  \* ticks the marking of a row may take
    Grace,        \* ticks that Shutdown waits for requests
    Limited,      \* is there a rate limiter
    Faults,       \* the kinds of fault that may strike
    MaxChanges    \* bound: changes of api_keys

ASSUME RequestAssumption == IsFiniteSet(Request)
ASSUME KeyAssumption  == NoRow \notin Id /\ NoSecret \notin Secret /\ Issued \subseteq Secret
ASSUME PoolAssumption == PoolSize \in Nat \ {0}
ASSUME TimeAssumption ==
    /\ HeaderTimeout \in Nat \ {0} /\ ReqTimeout \in Nat \ {0}
    /\ MarkTimeout \in Nat \ {0} /\ Grace \in Nat \ {0}
ASSUME FlagAssumption ==
    Limited \in BOOLEAN /\ Faults \subseteq {"postgres", "client", "crash"} /\ MaxChanges \in Nat

VARIABLES
    hash, revoked, \* api_keys
    ended,         \* ticks since a row was revoked
    changes,       \* changes of the table so far
    stage,         \* where a request is
    key, row,      \* the key it is judged by, the row found for it
    conn,          \* does it hold a connection
    age,           \* ticks since it, or its connection, arrived
    answer,        \* what it is being answered
    seen,          \* has its key been good, has it not, while it was checked
    mark, markAge, \* the goroutine it has left behind
    strays,        \* rows of which an UPDATE has outlived its goroutine
    late,          \* rows marked as used when long revoked
    main, since    \* where main is; ticks since the signal

keys    == <<hash, revoked, ended, changes>>
usage   == <<strays, late>>
table   == <<keys, usage>>
request == <<stage, key, row, conn, age, answer, seen>>
marking == <<mark, markAge>>
process == <<main, since>>
vars    == <<table, request, marking, process>>

None == "none"    \* no answer yet, no goroutine

Asking   == {"lookup", "known", "unknown"}  \* stages of APIKeyAuth
Handling == {"count", "read"}               \* the queries of List; Get has the second
OnPool   == Asking \cup Handling
Flying   == {r \in Request : stage[r] # "idle"}
AtWork   == {r \in Request : stage[r] \notin {"idle", "new", "writing"}}  \* in a handler

InUse    == Cardinality({r \in Request : conn[r]})
                + Cardinality({r \in Request : mark[r] = "sent"})
HasRoom  == InUse < PoolSize
PoolOpen == main \in {"up", "draining"}

(* The rows GetByHash may return.                                          *)
Matching(s) == {i \in Id : hash[i] = s /\ ~ revoked[i]}
Good(s) == Matching(s) # {}

Init ==
    /\ hash \in [Id -> Issued] /\ revoked = [i \in Id |-> FALSE] /\ changes = 0
    /\ ended = [i \in Id |-> 0] /\ strays = {} /\ late = {}
    /\ stage = [r \in Request |-> "idle"]
    /\ key = [r \in Request |-> NoSecret] /\ row = [r \in Request |-> NoRow]
    /\ conn = [r \in Request |-> FALSE] /\ age = [r \in Request |-> 0]
    /\ answer = [r \in Request |-> None] /\ seen = [r \in Request |-> {}]
    /\ mark = [r \in Request |-> None] /\ markAge = [r \in Request |-> 0]
    /\ main = "down" /\ since = 0

-----------------------------------------------------------------------------
(* A request.                                                              *)

Enter(r, s) == stage' = [stage EXCEPT ![r] = s]

(* Its context is done: the fifteen seconds are over.                      *)
DoneNever(r) == FALSE   \* a bug to catch: no middleware.Timeout
Done(r) == age[r] = ReqTimeout

(* The handler is through and writes; it holds no connection any more.     *)
Reply(r, a) ==
    /\ Enter(r, "writing")
    /\ answer' = [answer EXCEPT ![r] = a]
    /\ conn' = [conn EXCEPT ![r] = FALSE]
    /\ key' = [key EXCEPT ![r] = NoSecret]
    /\ age' = [age EXCEPT ![r] = 0]
    /\ row' = [row EXCEPT ![r] = IF mark[r] = None THEN NoRow ELSE @]

(* A connection is accepted, or kept after a request.                      *)
Connect(r) ==
    /\ main = "up"
    /\ stage[r] = "idle" /\ mark[r] = None
    /\ Enter(r, "new")
    /\ UNCHANGED <<table, key, row, conn, age, answer, seen, marking, process>>

(* Its request is read, be the listener open or not; its time begins.      *)
Arrive(r) ==
    /\ stage[r] = "new"
    /\ \E s \in Secret :
          /\ key' = [key EXCEPT ![r] = s]
          /\ seen' = [seen EXCEPT ![r] = {Good(s)}]
    /\ Enter(r, "lookup")
    /\ age' = [age EXCEPT ![r] = 0]
    /\ UNCHANGED <<table, row, conn, answer, marking, process>>

(* No X-API-Key header: 401 missing_api_key.                               *)
ArriveWithoutKey(r) ==
    /\ stage[r] = "new"
    /\ Reply(r, "unauthorized")
    /\ seen' = [seen EXCEPT ![r] = {FALSE}]
    /\ UNCHANGED <<table, marking, process>>

Overdue(r) == stage[r] = "new" /\ age[r] = HeaderTimeout

(* No request comes of it: it is too late, Shutdown closes it, or the      *)
(* client does.                                                            *)
Unheard(r) ==
    /\ stage[r] = "new"
    /\ Overdue(r) \/ main = "draining" \/ "client" \in Faults
    /\ Enter(r, "idle")
    /\ age' = [age EXCEPT ![r] = 0]
    /\ UNCHANGED <<table, key, row, conn, answer, seen, marking, process>>

(* A bug to catch: connections are not limited.                            *)
AcquireUnlimited(r) ==
    /\ stage[r] \in {"lookup"} \cup Handling /\ ~ conn[r]
    /\ PoolOpen /\ ~ Done(r)
    /\ conn' = [conn EXCEPT ![r] = TRUE]
    /\ UNCHANGED <<table, stage, key, row, age, answer, seen, marking, process>>

Acquire(r) ==
    /\ stage[r] \in {"lookup"} \cup Handling /\ ~ conn[r]
    /\ PoolOpen /\ HasRoom /\ ~ Done(r)
    /\ conn' = [conn EXCEPT ![r] = TRUE]
    /\ UNCHANGED <<table, stage, key, row, age, answer, seen, marking, process>>

(* A bug to catch: the query does not ask for revoked = false.             *)
LookupAny(r) ==
    /\ stage[r] = "lookup" /\ conn[r]
    /\ LET any == {i \in Id : hash[i] = key[r]} IN
          \/ \E i \in any : row' = [row EXCEPT ![r] = i] /\ Enter(r, "known")
          \/ any = {} /\ Enter(r, "unknown") /\ UNCHANGED row
    /\ UNCHANGED <<table, key, conn, age, answer, seen, marking, process>>

(* GetByHash, at Postgres.                                                 *)
Lookup(r) ==
    /\ stage[r] = "lookup" /\ conn[r]
    /\ \/ \E i \in Matching(key[r]) :
             /\ row' = [row EXCEPT ![r] = i]
             /\ Enter(r, "known")
       \/ /\ Matching(key[r]) = {}
          /\ Enter(r, "unknown")
          /\ UNCHANGED row
    /\ UNCHANGED <<table, key, conn, age, answer, seen, marking, process>>

(* A bug to catch: no return after the 401.                                *)
RefuseGoesOn(r) ==
    /\ stage[r] = "unknown"
    /\ Enter(r, IF Limited THEN "limit" ELSE "read")
    /\ conn' = [conn EXCEPT ![r] = FALSE]
    /\ answer' = [answer EXCEPT ![r] = "unauthorized"]
    /\ UNCHANGED <<table, key, row, age, seen, marking, process>>

(* Its answer arrives: not found is 401 invalid_api_key.                   *)
Refuse(r) ==
    /\ stage[r] = "unknown"
    /\ Reply(r, "unauthorized")
    /\ UNCHANGED <<table, seen, marking, process>>

Handler(r) == \E s \in Handling : Enter(r, s)   \* List or Get

(* Found: the goroutine of MarkUsed starts and the request goes on.        *)
Admit(r) ==
    /\ stage[r] = "known"
    /\ conn' = [conn EXCEPT ![r] = FALSE]
    /\ mark' = [mark EXCEPT ![r] = "waiting"]
    /\ markAge' = [markAge EXCEPT ![r] = 0]
    /\ IF Limited THEN Enter(r, "limit") ELSE Handler(r)
    /\ key' = [key EXCEPT ![r] = NoSecret]
    /\ seen' = [seen EXCEPT ![r] = @ \ {FALSE}]
    /\ UNCHANGED <<table, row, age, answer, process>>

(* Redis says yes or, when it fails, nothing at all: the request goes on.  *)
Pass(r) ==
    /\ stage[r] = "limit"
    /\ Handler(r)
    /\ UNCHANGED <<table, key, row, conn, age, answer, seen, marking, process>>

TurnAway(r) ==
    /\ stage[r] = "limit"
    /\ ~ Done(r)
    /\ Reply(r, "limited")
    /\ UNCHANGED <<table, seen, marking, process>>

(* List has counted; its connection goes back before it asks for the page. *)
Count(r) ==
    /\ stage[r] = "count" /\ conn[r]
    /\ Enter(r, "read")
    /\ conn' = [conn EXCEPT ![r] = FALSE]
    /\ UNCHANGED <<table, key, row, age, answer, seen, marking, process>>

(* The page of List, the row of Get or its 404.                            *)
Read(r) ==
    /\ stage[r] = "read" /\ conn[r]
    /\ Reply(r, "served")
    /\ UNCHANGED <<table, seen, marking, process>>

(* A bug to catch: every error of the lookup is taken for a bad key.       *)
ErrorAnswerBlunt(r) == IF stage[r] \in Asking THEN "unauthorized" ELSE "error"

(* 503 auth_backend_unavailable, 500 query_error.                          *)
ErrorAnswer(r) == IF stage[r] \in Asking THEN "unavailable" ELSE "error"

(* A statement returns an error: Postgres failed, the pool is closed.      *)
Fail(r) ==
    /\ stage[r] \in OnPool
    /\ "postgres" \in Faults \/ (~ conn[r] /\ ~ PoolOpen)
    /\ Reply(r, ErrorAnswer(r))
    /\ UNCHANGED <<table, seen, marking, process>>

(* A statement, or the wait for a connection, ends with the context.       *)
GiveUp(r) ==
    /\ stage[r] \in OnPool
    /\ Done(r)
    /\ Reply(r, ErrorAnswer(r))
    /\ UNCHANGED <<table, seen, marking, process>>

(* The client leaves and the context with it: whatever the request still   *)
(* tries returns an error, which nobody reads.                             *)
ClientLeaves(r) ==
    /\ "client" \in Faults
    /\ r \in AtWork
    /\ Reply(r, ErrorAnswer(r))
    /\ UNCHANGED <<table, seen, marking, process>>

(* The answer is written, or cannot be; nothing limits how long it takes.  *)
Written(r) ==
    /\ stage[r] = "writing"
    /\ Enter(r, "idle")
    /\ answer' = [answer EXCEPT ![r] = None]
    /\ seen' = [seen EXCEPT ![r] = {}]
    /\ UNCHANGED <<table, key, row, conn, age, marking, process>>

-----------------------------------------------------------------------------
(* MarkUsed.                                                               *)

MarkOverdueNever(r) == FALSE   \* a bug to catch: no deadline of its own
MarkOverdue(r) == mark[r] # None /\ markAge[r] = MarkTimeout

MarkAcquire(r) ==
    /\ mark[r] = "waiting"
    /\ PoolOpen /\ HasRoom /\ ~ MarkOverdue(r)
    /\ mark' = [mark EXCEPT ![r] = "sent"]
    /\ UNCHANGED <<table, request, markAge, process>>

MarkOver(r) ==
    /\ mark' = [mark EXCEPT ![r] = None]
    /\ markAge' = [markAge EXCEPT ![r] = 0]
    /\ row' = [row EXCEPT ![r] = NoRow]

Longest == ReqTimeout + MarkTimeout   \* from a lookup to the mark it leads to

(* UPDATE ... WHERE id = $1: the row, whatever has become of it.           *)
Executed(i) == late' = IF ended[i] > Longest THEN late \cup {i} ELSE late

(* The goroutines end; what they have sent Postgres may still execute.     *)
Outlive(R) == strays' = strays \cup {row[r] : r \in {q \in R : mark[q] = "sent"}}

MarkDone(r) ==
    /\ mark[r] = "sent"
    /\ Executed(row[r])
    /\ MarkOver(r)
    /\ UNCHANGED <<keys, strays, stage, key, conn, age, answer, seen, process>>

(* An error is only logged.  Without a connection, a closed pool.          *)
MarkFails(r) ==
    /\ mark[r] # None
    /\ "postgres" \in Faults \/ (mark[r] = "waiting" /\ ~ PoolOpen)
    /\ Outlive({r})
    /\ MarkOver(r)
    /\ UNCHANGED <<keys, late, stage, key, conn, age, answer, seen, process>>

(* Two seconds are over.                                                   *)
MarkGivesUp(r) ==
    /\ MarkOverdue(r)
    /\ Outlive({r})
    /\ MarkOver(r)
    /\ UNCHANGED <<keys, late, stage, key, conn, age, answer, seen, process>>

(* Postgres comes to an UPDATE that nobody waits for.                      *)
StrayMark(i) ==
    /\ i \in strays
    /\ Executed(i)
    /\ UNCHANGED <<keys, strays, request, marking, process>>

-----------------------------------------------------------------------------
(* The process.                                                            *)

(* main: bootstrap, routes, listener.  What fails before ends the process, *)
(* and it is started again.                                                *)
Start ==
    /\ main = "down"
    /\ main' = "up" /\ since' = 0
    /\ answer' = [r \in Request |-> None]
    /\ UNCHANGED <<table, stage, key, row, conn, age, seen, marking>>

(* SIGTERM: the listener is closed, nothing else yet.                      *)
Signal ==
    /\ main = "up"
    /\ main' = "draining" /\ since' = 0
    /\ UNCHANGED <<table, request, marking>>

CanClose == main = "draining" /\ (Flying = {} \/ since = Grace)

(* A bug to catch: nobody waits for Shutdown.                              *)
ClosePoolAtOnce ==
    /\ main = "draining"
    /\ main' = "closing"
    /\ UNCHANGED <<table, request, marking, since>>

(* Shutdown returns, no connection being left or the ten seconds over, and *)
(* main with it: the deferred Close closes the pool.                       *)
ClosePool ==
    /\ CanClose
    /\ main' = "closing"
    /\ UNCHANGED <<table, request, marking, since>>

(* Nothing of the process is left; a request in flight gets no answer, or  *)
(* not all of it.                                                          *)
Gone(a) ==
    /\ Outlive(Request)
    /\ main' = "down"
    /\ stage' = [r \in Request |-> "idle"] /\ key' = [r \in Request |-> NoSecret]
    /\ conn' = [r \in Request |-> FALSE] /\ age' = [r \in Request |-> 0]
    /\ answer' = [r \in Request |-> IF stage[r] \in {"idle", "new"} THEN None ELSE a]
    /\ mark' = [r \in Request |-> None] /\ markAge' = [r \in Request |-> 0]
    /\ row' = [r \in Request |-> NoRow] /\ seen' = [r \in Request |-> {}]
    /\ UNCHANGED <<keys, late, since>>

(* Pool.Close returns when no connection is in use.                        *)
CanExit == main = "closing" /\ InUse = 0
Exit == CanExit /\ Gone("cut")

(* The process is killed, or the listener fails: os.Exit, no Close.        *)
Crash ==
    /\ "crash" \in Faults
    /\ main # "down"
    /\ Gone(None)

-----------------------------------------------------------------------------
(* The table, and time.                                                    *)

See == seen' = [r \in Request |->
                   IF stage[r] \in Asking THEN seen[r] \cup {Good(key[r])'} ELSE seen[r]]

(* The operator: UPDATE api_keys SET revoked = true.                       *)
Revoke(i) ==
    /\ changes < MaxChanges
    /\ ~ revoked[i]
    /\ revoked' = [revoked EXCEPT ![i] = TRUE]
    /\ ended' = [ended EXCEPT ![i] = 0]
    /\ changes' = changes + 1
    /\ UNCHANGED <<hash, usage, stage, key, row, conn, age, answer, marking, process>>
    /\ See

(* svc-setup: the row gets another hash.                                   *)
Replace(i) ==
    /\ changes < MaxChanges
    /\ \E s \in Secret \ {hash[i]} : hash' = [hash EXCEPT ![i] = s]
    /\ changes' = changes + 1
    /\ UNCHANGED <<revoked, ended, usage, stage, key, row, conn, age, answer, marking,
                   process>>
    /\ See

Deadline(r) == IF r \in AtWork THEN ReqTimeout ELSE IF stage[r] = "new" THEN HeaderTimeout ELSE 0

(* Time passes; what is due happens first.                                 *)
Tick ==
    /\ \A r \in AtWork : ~ Done(r)
    /\ \A r \in Request : ~ Overdue(r) /\ ~ MarkOverdue(r)
    /\ ~ CanClose /\ ~ CanExit
    /\ age' = [r \in Request |-> IF age[r] < Deadline(r) THEN age[r] + 1 ELSE age[r]]
    /\ markAge' = [r \in Request |->
                      IF mark[r] # None /\ markAge[r] < MarkTimeout THEN markAge[r] + 1 ELSE markAge[r]]
    /\ since' = IF main \in {"draining", "closing"} /\ since <= Longest + Grace
                THEN since + 1 ELSE since
    /\ ended' = [i \in Id |-> IF revoked[i] /\ ended[i] <= Longest THEN ended[i] + 1 ELSE ended[i]]
    /\ UNCHANGED <<hash, revoked, changes, usage, stage, key, row, conn, answer, seen, mark, main>>

Step(r) ==
    \/ Connect(r) \/ Arrive(r) \/ ArriveWithoutKey(r) \/ Unheard(r) \/ Acquire(r)
    \/ Lookup(r) \/ Refuse(r) \/ Admit(r) \/ Pass(r) \/ TurnAway(r) \/ Count(r) \/ Read(r)
    \/ Fail(r) \/ GiveUp(r) \/ ClientLeaves(r) \/ Written(r)

MarkStep(r) == MarkAcquire(r) \/ MarkDone(r) \/ MarkFails(r) \/ MarkGivesUp(r)

Next ==
    \/ \E r \in Request : Step(r) \/ MarkStep(r)
    \/ Start \/ Signal \/ ClosePool \/ Exit \/ Crash
    \/ \E i \in Id : StrayMark(i) \/ Revoke(i) \/ Replace(i)
    \/ Tick

Spec == Init /\ [][Next]_vars

(* What is due: what a deadline ends, and what main then comes to.         *)
Due ==
    \/ \E r \in Request : \/ Overdue(r) /\ Unheard(r)
                          \/ GiveUp(r) \/ (Done(r) /\ Pass(r)) \/ MarkGivesUp(r)
    \/ ClosePool \/ Exit

(* Time passes and deadlines are kept; a statement, Redis or the writing   *)
(* of an answer may hang.                                                  *)
Fairness == WF_vars(Due \/ Tick)

FairSpec == Spec /\ Fairness

-----------------------------------------------------------------------------
(* Type invariant; the pool never lends more than it has.                  *)
TypeOK ==
    /\ hash \in [Id -> Secret] /\ revoked \in [Id -> BOOLEAN] /\ changes \in Nat
    /\ ended \in [Id -> Nat]
    /\ stage \in [Request -> OnPool \cup {"idle", "new", "limit", "writing"}]
    /\ key \in [Request -> Secret \cup {NoSecret}] /\ row \in [Request -> Id \cup {NoRow}]
    /\ conn \in [Request -> BOOLEAN] /\ age \in [Request -> Nat]
    /\ \A r \in Request : age[r] <= Deadline(r)
    /\ answer \in [Request -> {None, "unauthorized", "unavailable", "limited", "error",
                               "served", "cut"}]
    /\ seen \in [Request -> SUBSET BOOLEAN]
    /\ mark \in [Request -> {None, "waiting", "sent"}] /\ markAge \in [Request -> 0..MarkTimeout]
    /\ \A r \in Request : mark[r] # None => row[r] \in Id
    /\ strays \subseteq Id /\ late \subseteq Id
    /\ main \in {"down", "up", "draining", "closing"} /\ since \in Nat
    /\ InUse <= PoolSize

(* Whatever is revoked or replaced while requests are under way: a request *)
(* that came to the limiter or a handler carried a key that was good at    *)
(* some moment since it arrived.  A key revoked before is of no use.       *)
ServedOnlyIfGood ==
    \A r \in Request : answer[r] \in {"served", "limited", "error"} => TRUE \in seen[r]

(* "Real DB error -- don't misclassify as a bad key": whatever fails,      *)
(* hangs or is closed, 401 is said only of a key that was no good at some  *)
(* moment since the request arrived.                                       *)
RefusedOnlyIfBad ==
    \A r \in Request : answer[r] = "unauthorized" => FALSE \in seen[r]

(* The detached write can mark a key as used that has been revoked since.  *)
(* When that is longer ago than a request and the write may take, it is an *)
(* UPDATE that Postgres came to when its goroutine had failed, given up or *)
(* gone with the process: no goroutine waits that long for one.            *)
MarkedSoonAfter == late \subseteq strays

(* A signal that is not overtaken by a crash cuts no request that would    *)
(* have ended in the grace period.                                         *)
CutOnlyAfterGrace == \A r \in Request : main = "down" /\ answer[r] = "cut" => since >= Grace

Latest == IF HeaderTimeout < Grace THEN HeaderTimeout ELSE Grace

(* A connection accepted before the signal may bring its request until the *)
(* header's timeout or the grace period is over, and that request takes    *)
(* its whole time; a mark begun in the grace period has its own.  The      *)
(* process goes on no longer than the later of the two: the pool's Close   *)
(* does not wait for anything that has no deadline, nor for the writing of *)
(* an answer, which has none.                                              *)
GoneInTime ==
    main \in {"draining", "closing"} =>
        since <= Latest + ReqTimeout \/ since <= Grace + MarkTimeout

(* Every request comes to its answer, or the end of the process cuts it,   *)
(* and gives back what it holds, though statements hang, the limiter       *)
(* hangs, and the pool is taken.  How long the client takes to read the    *)
(* answer is another matter: no deadline is set for that.                  *)
EveryHandlerEnds == \A r \in Request : r \in AtWork ~> r \notin AtWork

(* A signal ends the process.                                              *)
SignalEnds == main = "draining" ~> main = "down"

(* Whatever comes in between, each key is judged at one moment, and what   *)
(* the request is let in to, marks and is answered follows from that.      *)
Verdict(s) == CASE s \in {"idle", "new", "writing"} -> "none"
                [] s = "lookup"  -> "open"
                [] s = "unknown" -> "bad"
                [] s = "known"   -> "good"
                [] OTHER         -> "in"

Abstract == INSTANCE Gate WITH
    verdict <- [r \in Request |-> Verdict(stage[r])],
    owing   <- {r \in Request : mark[r] # None}
ImplementsGate == Abstract!Spec
=============================================================================
