----------------------------- MODULE RateLimit -----------------------------
(***************************************************************************)
(* internal/redisx, Allow: the fixed-window limiter of one API key, and    *)
(* what the RateLimit middleware makes of its answer.  A call reads the    *)
(* clock of its api process, names the counter of the window it is in, and *)
(* has Redis run a script that increments the counter and, when the        *)
(* counter is new, lets it expire a window later.  Between the clock and   *)
(* the script time passes; two replicas of the api, whose clocks differ,   *)
(* share the counters; replies get lost and the Redis client repeats the   *)
(* script; Redis may lose its counters.                                    *)
(*                                                                         *)
(* Time is that of the process whose clock is furthest behind; PEXPIRE     *)
(* takes a duration, so Redis's own clock does not matter.  A window is    *)
(* named by the time it starts at, where the code has UnixMilli() /        *)
(* window: the two name the same windows.                                  *)
(***************************************************************************)
EXTENDS Integers

CONSTANTS
    Call,       \* slots for concurrent calls of Allow with one key
    Limit,      \* max: calls let through in a window
    Window,     \* its length, in ticks of the clock
    MaxSkew,    \* an api process's clock is ahead of another's by this at most
    Faults,     \* the kinds of fault that may strike
    MaxTime,    \* bound: ticks
    MaxScripts  \* bound: scripts run

ASSUME LimitAssumption  == Limit \in Nat \ {0}
ASSUME WindowAssumption == Window \in Nat \ {0} /\ MaxSkew \in 0..Window
ASSUME BoundAssumption  == MaxTime \in Nat /\ MaxScripts \in Nat
ASSUME FaultAssumption  == Faults \subseteq {"error", "retry", "flush"}

Time   == 0..(MaxTime + MaxSkew)
Bucket == Time   \* windows, by their start

VARIABLES
    now,       \* the slowest clock
    count,     \* the counters; 0 where there is none
    expires,   \* when a counter goes
    state,     \* of a call: idle, sent, answered; allowed, denied, open
    bucket,    \* the window it read off its clock
    reply,     \* the count it was answered
    passed,    \* calls of a window that have been given leave to pass
    lost,      \* leaves that were given, lost with the reply, and asked for again
    onTime,    \* leaves given inside their window, since Redis lost its counters
    early,     \* windows whose counter was made before they began, since then
    scripts    \* scripts run so far

leaves == <<passed, lost, onTime, early>>
redis == <<count, expires, leaves, scripts>>
calls == <<state, bucket, reply>>
vars  == <<now, redis, calls>>

Done == {"idle", "allowed", "denied", "open"}

Init ==
    /\ now = 0
    /\ count = [b \in Bucket |-> 0] /\ expires = [b \in Bucket |-> 0]
    /\ state = [c \in Call |-> "idle"]
    /\ bucket = [c \in Call |-> 0] /\ reply = [c \in Call |-> 0]
    /\ passed = [b \in Bucket |-> 0] /\ lost = [b \in Bucket |-> 0]
    /\ onTime = [b \in Bucket |-> 0] /\ early = {} /\ scripts = 0

Enter(c, s) == state' = [state EXCEPT ![c] = s]

(* A request arrives: the process reads its clock and sends the script.    *)
Send(c) ==
    /\ state[c] \in Done
    /\ \E skew \in 0..MaxSkew, b \in Bucket :
          /\ b % Window = 0
          /\ b <= now + skew /\ now + skew < b + Window
          /\ bucket' = [bucket EXCEPT ![c] = b]
    /\ reply' = [reply EXCEPT ![c] = 0]
    /\ Enter(c, "sent")
    /\ UNCHANGED <<now, redis>>

InWindow(b) == now < b + Window   \* for some process it is not over

(* A bug to catch: INCR and PEXPIRE sent one by one, the second lost.      *)
ExpiryLost(b, n) == expires

(* A bug to catch: milliseconds taken for something smaller.               *)
ExpiryShort(b, n) == IF n = 1 THEN [expires EXCEPT ![b] = now + 1] ELSE expires

(* PEXPIRE, when INCR has made the counter.                                *)
Expiry(b, n) == IF n = 1 THEN [expires EXCEPT ![b] = now + Window] ELSE expires

(* luaIncrExpire, at Redis, in one go.                                     *)
RunScript(c) ==
    /\ state[c] = "sent"
    /\ scripts < MaxScripts
    /\ scripts' = scripts + 1
    /\ LET b     == bucket[c]
           n     == count[b] + 1
           grant == IF n <= Limit THEN 1 ELSE 0
       IN  /\ count' = [count EXCEPT ![b] = n]
           /\ expires' = Expiry(b, n)
           /\ reply' = [reply EXCEPT ![c] = n]
           /\ passed' = [passed EXCEPT ![b] = @ + grant]
           /\ onTime' = IF InWindow(b) THEN [onTime EXCEPT ![b] = @ + grant] ELSE onTime
           /\ early' = IF n = 1 /\ now < b THEN early \cup {b} ELSE early
    /\ Enter(c, "answered")
    /\ UNCHANGED <<now, bucket, lost>>

(* A bug to catch: count >= max denies.                                    *)
DecideAtLimit(c) ==
    /\ state[c] = "answered"
    /\ Enter(c, IF reply[c] >= Limit THEN "denied" ELSE "allowed")
    /\ UNCHANGED <<now, redis, bucket, reply>>

(* count > max denies (429), anything else lets the request through.       *)
Decide(c) ==
    /\ state[c] = "answered"
    /\ Enter(c, IF reply[c] > Limit THEN "denied" ELSE "allowed")
    /\ UNCHANGED <<now, redis, bucket, reply>>

(* An error, before the script has run or after: the middleware lets the   *)
(* request through.                                                        *)
FailOpen(c) ==
    /\ "error" \in Faults
    /\ state[c] \in {"sent", "answered"}
    /\ Enter(c, "open")
    /\ UNCHANGED <<now, redis, bucket, reply>>

(* The reply is lost and the Redis client sends the script again.          *)
Retry(c) ==
    /\ "retry" \in Faults
    /\ state[c] = "answered"
    /\ Enter(c, "sent")
    /\ LET b    == bucket[c]
           gone == IF reply[c] <= Limit THEN 1 ELSE 0
       IN  /\ passed' = [passed EXCEPT ![b] = @ - gone]
           /\ lost' = [lost EXCEPT ![b] = @ + gone]
    /\ UNCHANGED <<now, count, expires, onTime, early, scripts, bucket, reply>>

(* Redis restarts without its counters.                                    *)
Flush ==
    /\ "flush" \in Faults
    /\ count' = [b \in Bucket |-> 0]
    /\ onTime' = [b \in Bucket |-> 0] /\ early' = {}
    /\ UNCHANGED <<now, expires, passed, lost, scripts, calls>>

(* A bug to catch: counters drain instead of expiring.                     *)
TickDrain ==
    /\ now < MaxTime
    /\ now' = now + 1
    /\ count' = [b \in Bucket |-> count[b] - 1]
    /\ UNCHANGED <<expires, leaves, scripts, calls>>

(* Time passes; counters whose time has come are gone.                     *)
Tick ==
    /\ now < MaxTime
    /\ now' = now + 1
    /\ count' = [b \in Bucket |-> IF expires[b] = now' THEN 0 ELSE count[b]]
    /\ UNCHANGED <<expires, leaves, scripts, calls>>

Next ==
    \/ \E c \in Call : Send(c) \/ RunScript(c) \/ Decide(c) \/ FailOpen(c) \/ Retry(c)
    \/ Flush
    \/ Tick

Spec == Init /\ [][Next]_vars

-----------------------------------------------------------------------------
(* Type invariant.                                                         *)
TypeOK ==
    /\ now \in 0..MaxTime
    /\ count \in [Bucket -> Nat] /\ expires \in [Bucket -> Nat]
    /\ state \in [Call -> Done \cup {"sent", "answered"}]
    /\ bucket \in [Call -> Bucket] /\ reply \in [Call -> Nat]
    /\ passed \in [Bucket -> Int] /\ lost \in [Bucket -> Nat]
    /\ onTime \in [Bucket -> Nat] /\ early \subseteq Bucket
    /\ scripts \in Nat

(* However calls overlap, are repeated or fail: while some process has it  *)
(* that a window is not over, Redis gives that window no more than Limit   *)
(* leaves to pass, counted from when Redis last lost its counters.  But a  *)
(* process whose clock is ahead may have the counter made before the       *)
(* others begin the window; it then expires before they end it, and starts *)
(* anew for them: twice as many, no more.                                  *)
LimitPerWindow ==
    \A b \in Bucket : onTime[b] <= IF b \in early THEN 2 * Limit ELSE Limit

(* Nobody is turned away while fewer than Limit other calls of that window *)
(* have been given leave, also after Redis has lost its counters; only a   *)
(* leave that was lost with its reply, its call having asked again, stands *)
(* for no call that passes, and each costs one other its place.            *)
NoEarlyDenial ==
    \A c \in Call :
        LET b   == bucket[c]
            own == IF reply[c] <= Limit THEN 1 ELSE 0
        IN  state[c] = "denied" => passed[b] + lost[b] >= Limit + own

(* "Atomicity prevents the 'Incr succeeded but Expire failed' failure mode *)
(* that would leave the counter immortal": every counter in Redis goes     *)
(* within a window.                                                        *)
NoImmortalCounter ==
    \A b \in Bucket :
        count[b] > 0 => now < expires[b] /\ expires[b] <= now + Window
=============================================================================
