-------------------------- MODULE RateLimitProofs --------------------------
(***************************************************************************)
(* The limiter for any number of calls, any limit, window and clock skew.  *)
(***************************************************************************)
EXTENDS RateLimit, TLAPS

(* Types are kept, whatever fails.                                         *)
LEMMA Typing == TypeOK /\ [Next]_vars => TypeOK'
<1> SUFFICES ASSUME TypeOK, [Next]_vars PROVE TypeOK'
  OBVIOUS
<1> USE LimitAssumption, WindowAssumption, BoundAssumption DEF TypeOK, Time, Bucket, Done
<1>1. CASE UNCHANGED vars
  BY <1>1 DEF vars, redis, leaves, calls
<1>2. ASSUME NEW c \in Call, Send(c) PROVE TypeOK'
  BY <1>2 DEF Send, Enter, redis, leaves
<1>3. ASSUME NEW c \in Call, RunScript(c) PROVE TypeOK'
  <2> DEFINE b == bucket[c]
             n == count[b] + 1
             grant == IF n <= Limit THEN 1 ELSE 0
  <2>1. b \in Bucket /\ n \in Nat /\ grant \in Nat
    OBVIOUS
  <2>2. count' = [count EXCEPT ![b] = n] /\ reply' = [reply EXCEPT ![c] = n]
    BY <1>3 DEF RunScript
  <2>3. expires' \in [Bucket -> Nat]
    <3>1. expires' = expires \/ expires' = [expires EXCEPT ![b] = now + Window]
      BY <1>3 DEF RunScript, Expiry
    <3>2. now + Window \in Nat
      OBVIOUS
    <3> QED
      BY <2>1, <3>1, <3>2
  <2>4. /\ passed' \in [Bucket -> Int] /\ onTime' \in [Bucket -> Nat]
        /\ early' \subseteq Bucket
    <3>1. /\ passed' = [passed EXCEPT ![b] = @ + grant]
          /\ onTime' = [onTime EXCEPT ![b] = @ + grant] \/ onTime' = onTime
          /\ early' = early \cup {b} \/ early' = early
      BY <1>3 DEF RunScript
    <3>2. passed[b] + grant \in Int /\ onTime[b] + grant \in Nat
      BY <2>1
    <3> QED
      BY <2>1, <3>1, <3>2
  <2>5. now' = now /\ bucket' = bucket /\ lost' = lost /\ scripts' = scripts + 1
    BY <1>3 DEF RunScript
  <2>6. state' = [state EXCEPT ![c] = "answered"]
    BY <1>3 DEF RunScript, Enter
  <2>7. count' \in [Bucket -> Nat] /\ reply' \in [Call -> Nat]
    BY <2>1, <2>2
  <2>8. state' \in [Call -> Done \cup {"sent", "answered"}]
    BY <2>6
  <2>9. /\ now' \in 0..MaxTime /\ bucket' \in [Call -> Bucket] /\ scripts' \in Nat
        /\ lost' \in [Bucket -> Nat]
    BY <2>5
  <2> QED
    BY <2>3, <2>4, <2>7, <2>8, <2>9, Zenon
<1>4. ASSUME NEW c \in Call, Decide(c) PROVE TypeOK'
  BY <1>4 DEF Decide, Enter, redis, leaves
<1>5. ASSUME NEW c \in Call, FailOpen(c) PROVE TypeOK'
  BY <1>5 DEF FailOpen, Enter, redis, leaves
<1>6. ASSUME NEW c \in Call, Retry(c) PROVE TypeOK'
  <2>1. \E g \in {0, 1} : /\ passed' = [passed EXCEPT ![bucket[c]] = @ - g]
                         /\ lost' = [lost EXCEPT ![bucket[c]] = @ + g]
    BY <1>6 DEF Retry
  <2>2. passed' \in [Bucket -> Int] /\ lost' \in [Bucket -> Nat]
    BY <2>1
  <2> QED
    BY <1>6, <2>2 DEF Retry, Enter
<1>7. CASE Flush
  BY <1>7 DEF Flush, calls
<1>8. CASE Tick
  <2>1. now' \in 0..MaxTime
    BY <1>8 DEF Tick
  <2>2. count' = [b \in Bucket |-> IF expires[b] = now' THEN 0 ELSE count[b]]
    BY <1>8 DEF Tick
  <2>3. \A b \in Bucket : (IF expires[b] = now' THEN 0 ELSE count[b]) \in Nat
    OBVIOUS
  <2>4. count' \in [Bucket -> Nat]
    BY <2>2, <2>3
  <2> QED
    BY <1>8, <2>1, <2>4 DEF Tick, leaves, calls
<1> QED
  BY <1>1, <1>2, <1>3, <1>4, <1>5, <1>6, <1>7, <1>8 DEF Next

(* Type correctness of the limiter.                                        *)
THEOREM LimiterTypes == Spec => []TypeOK
<1>1. Init => TypeOK
  BY LimitAssumption, WindowAssumption, BoundAssumption
  DEF Init, TypeOK, Time, Bucket, Done
<1> QED
  BY <1>1, Typing, PTL DEF Spec

-----------------------------------------------------------------------------
(* A counter that exists goes within a window, and not before its own      *)
(* window is over for the clocks that are furthest ahead.                  *)
Lifetime(b) ==
    count[b] > 0 => /\ now < expires[b]
                    /\ expires[b] <= now + Window
                    /\ b + Window <= expires[b] + MaxSkew

(* A call was stamped before it reached Redis.                             *)
Stamped ==
    \A c \in Call : state[c] \in {"sent", "answered"} => bucket[c] <= now + MaxSkew

LifeInv == Stamped /\ \A b \in Bucket : Lifetime(b)

(* While its window lasts a counter holds what was answered from it since  *)
(* Redis last lost it.  One made before its window began is gone when the  *)
(* window ends, but only after the window has begun; it has a successor,   *)
(* which is not gone.                                                      *)
Counted(b) ==
    /\ count[b] > 0 /\ b \notin early => expires[b] >= b + Window
    /\ count[b] = 0 /\ b \in early => now >= b
    /\ InWindow(b) => onTime[b] <= count[b] + IF b \in early THEN Limit ELSE 0
    /\ count[b] > 0 /\ expires[b] < b + Window => onTime[b] <= count[b] /\ onTime[b] <= Limit
    /\ onTime[b] <= IF b \in early THEN 2 * Limit ELSE Limit

CountInv == \A b \in Bucket : Counted(b)

(* A counter past a number stands for as many leaves to pass, up to Limit. *)
Given(b) == passed[b] + lost[b]
Spent(b) == Given(b) >= Limit
Justified ==
    /\ \A b \in Bucket : Spent(b) \/ count[b] <= Given(b)
    /\ \A c \in Call : state[c] = "answered" /\ reply[c] > Limit => Spent(bucket[c])
    /\ \A c \in Call : state[c] = "denied" => Spent(bucket[c]) /\ reply[c] > Limit

(* What RunScript does to its counter, for the proofs below.               *)
LEMMA ScriptStep ==
    ASSUME TypeOK, NEW c \in Call, RunScript(c)
    PROVE  LET b == bucket[c]
               n == count[b] + 1
           IN  /\ b \in Bucket /\ n \in Nat \ {0}
               /\ state[c] = "sent" /\ state' = [state EXCEPT ![c] = "answered"]
               /\ now' = now /\ bucket' = bucket
               /\ count' = [count EXCEPT ![b] = n]
               /\ reply' = [reply EXCEPT ![c] = n]
               /\ n = 1 => expires' = [expires EXCEPT ![b] = now + Window]
               /\ n # 1 => expires' = expires
               /\ \A d \in Bucket \ {b} : passed'[d] = passed[d] /\ onTime'[d] = onTime[d]
               /\ n > Limit => passed' = passed /\ onTime' = onTime
               /\ n <= Limit => passed'[b] = passed[b] + 1
               /\ n <= Limit /\ InWindow(b) => onTime'[b] = onTime[b] + 1
               /\ ~ InWindow(b) => onTime' = onTime
               /\ lost' = lost
               /\ early' = IF n = 1 /\ now < b THEN early \cup {b} ELSE early
<1> DEFINE b == bucket[c]
           n == count[b] + 1
           grant == IF n <= Limit THEN 1 ELSE 0
<1> USE LimitAssumption DEF TypeOK
<1>1. b \in Bucket /\ n \in Nat \ {0}
  OBVIOUS
<1>2. /\ state[c] = "sent" /\ state' = [state EXCEPT ![c] = "answered"]
      /\ now' = now /\ bucket' = bucket
      /\ count' = [count EXCEPT ![b] = n] /\ reply' = [reply EXCEPT ![c] = n]
  BY DEF RunScript, Enter
<1>3. (n = 1 => expires' = [expires EXCEPT ![b] = now + Window]) /\ (n # 1 => expires' = expires)
  BY DEF RunScript, Expiry
<1>4. /\ passed' = [passed EXCEPT ![b] = passed[b] + grant]
      /\ onTime' = IF InWindow(b) THEN [onTime EXCEPT ![b] = onTime[b] + grant] ELSE onTime
  BY DEF RunScript
<1>5. (n <= Limit => grant = 1) /\ (n > Limit => grant = 0)
  BY <1>1
<1>6. n > Limit => passed' = passed /\ onTime' = onTime
  BY <1>1, <1>4, <1>5
<1>7. n <= Limit => passed'[b] = passed[b] + 1
  BY <1>1, <1>4, <1>5
<1>8. \A d \in Bucket \ {b} : passed'[d] = passed[d] /\ onTime'[d] = onTime[d]
  BY <1>1, <1>4
<1>9. n <= Limit /\ InWindow(b) => onTime'[b] = onTime[b] + 1
  BY <1>1, <1>4, <1>5
<1>10. ~ InWindow(b) => onTime' = onTime
  BY <1>4
<1>11. lost' = lost /\ early' = IF n = 1 /\ now < b THEN early \cup {b} ELSE early
  BY DEF RunScript
<1> QED
  BY <1>1, <1>2, <1>3, <1>6, <1>7, <1>8, <1>9, <1>10, <1>11

(* Counters come and go in time, whatever fails.                           *)
LEMMA LifeStep == TypeOK /\ LifeInv /\ [Next]_vars => LifeInv'
<1> SUFFICES ASSUME TypeOK, LifeInv, [Next]_vars PROVE LifeInv'
  OBVIOUS
<1> USE WindowAssumption, BoundAssumption DEF TypeOK, LifeInv, Stamped, Lifetime, Done
<1>1. CASE UNCHANGED vars
  BY <1>1 DEF vars, redis, leaves, calls
<1>2. ASSUME NEW c \in Call, Send(c) PROVE LifeInv'
  <2>1. PICK skew \in 0..MaxSkew, b \in Bucket :
           b <= now + skew /\ bucket' = [bucket EXCEPT ![c] = b]
    BY <1>2 DEF Send
  <2>2. state' = [state EXCEPT ![c] = "sent"] /\ UNCHANGED <<now, count, expires>>
    BY <1>2 DEF Send, Enter, redis, leaves
  <2>3. b \in Nat /\ b <= now + MaxSkew
    BY <2>1 DEF Bucket, Time
  <2> QED
    BY <2>1, <2>2, <2>3
<1>3. ASSUME NEW c \in Call, RunScript(c) PROVE LifeInv'
  <2> DEFINE b == bucket[c]
             n == count[b] + 1
  <2>1. /\ b \in Bucket /\ n \in Nat \ {0} /\ now' = now /\ bucket' = bucket
        /\ state[c] = "sent" /\ state' = [state EXCEPT ![c] = "answered"]
        /\ count' = [count EXCEPT ![b] = n]
        /\ n = 1 => expires' = [expires EXCEPT ![b] = now + Window]
        /\ n # 1 => expires' = expires
    BY <1>3, ScriptStep
  <2>2. Stamped'
    BY <2>1
  <2>3. b <= now + MaxSkew /\ b \in Nat
    BY <2>1 DEF Bucket, Time
  <2>4. ASSUME NEW d \in Bucket PROVE Lifetime(d)'
    <3>1. CASE d # b
      BY <2>1, <3>1
    <3>2. CASE d = b /\ n = 1
      <4>1. expires'[b] = now + Window
        BY <2>1, <3>2
      <4> QED
        BY <2>1, <2>3, <3>2, <4>1
    <3>3. CASE d = b /\ n # 1
      BY <2>1, <3>3
    <3> QED
      BY <3>1, <3>2, <3>3
  <2> QED
    BY <2>2, <2>4
<1>4. ASSUME NEW c \in Call, Decide(c) \/ FailOpen(c) \/ Retry(c) PROVE LifeInv'
  BY <1>4 DEF Decide, FailOpen, Retry, Enter, redis, leaves
<1>5. CASE Flush
  BY <1>5 DEF Flush, calls
<1>6. CASE Tick
  <2>1. now' = now + 1 /\ UNCHANGED <<expires, state, bucket>>
    BY <1>6 DEF Tick, calls
  <2>2. Stamped'
    <3>1. ASSUME NEW c \in Call, state[c] \in {"sent", "answered"}
          PROVE  bucket[c] <= now + 1 + MaxSkew
      <4>1. bucket[c] <= now + MaxSkew
        BY <3>1
      <4>2. bucket[c] \in Nat
        BY DEF Bucket, Time
      <4> QED
        BY <4>1, <4>2
    <3>2. now' = now + 1 /\ state' = state /\ bucket' = bucket
      BY <2>1
    <3> QED
      BY <3>1, <3>2 DEF Stamped
  <2>3. ASSUME NEW d \in Bucket PROVE Lifetime(d)'
    <3>1. count'[d] = IF expires[d] = now + 1 THEN 0 ELSE count[d]
      BY <1>6 DEF Tick
    <3> QED
      BY <2>1, <3>1
  <2> QED
    BY <2>2, <2>3
<1> QED
  BY <1>1, <1>2, <1>3, <1>4, <1>5, <1>6 DEF Next

(* "Atomicity prevents [...] the counter immortal": for every counter.     *)
THEOREM CountersExpire == Spec => []NoImmortalCounter
<1>1. Init => LifeInv
  BY DEF Init, LifeInv, Stamped, Lifetime
<1>2. TypeOK /\ LifeInv => NoImmortalCounter
  BY DEF LifeInv, Lifetime, NoImmortalCounter
<1> QED
  BY <1>1, <1>2, LimiterTypes, LifeStep, PTL DEF Spec

-----------------------------------------------------------------------------
(* Within a window no more than Limit pass; a lost counter starts anew, and*)
(* so does, once, one that was made too early.                             *)
LEMMA CountedStep == TypeOK /\ LifeInv /\ CountInv /\ [Next]_vars => CountInv'
<1> SUFFICES ASSUME TypeOK, LifeInv, CountInv, [Next]_vars, NEW d \in Bucket
             PROVE  Counted(d)'
  BY DEF CountInv
<1> USE LimitAssumption, WindowAssumption, BoundAssumption DEF TypeOK, InWindow
<1>0. /\ d \in Nat /\ now \in Nat /\ count[d] \in Nat /\ expires[d] \in Nat /\ onTime[d] \in Nat
      /\ Counted(d) /\ Lifetime(d)
  BY DEF CountInv, LifeInv, Bucket, Time
<1>1. ASSUME UNCHANGED <<now, count, expires, onTime, early>> PROVE Counted(d)'
  BY <1>0, <1>1 DEF Counted
<1>2. CASE UNCHANGED vars
  BY <1>1, <1>2 DEF vars, redis, leaves
<1>3. ASSUME NEW c \in Call, Send(c) \/ Decide(c) \/ FailOpen(c) \/ Retry(c) PROVE Counted(d)'
  BY <1>1, <1>3 DEF Send, Decide, FailOpen, Retry, redis, leaves
<1>4. ASSUME NEW c \in Call, RunScript(c) PROVE Counted(d)'
  <2> DEFINE b == bucket[c]
             n == count[b] + 1
  <2>1. /\ b \in Bucket /\ n \in Nat \ {0} /\ now' = now
        /\ count' = [count EXCEPT ![b] = n]
        /\ n = 1 => expires' = [expires EXCEPT ![b] = now + Window]
        /\ n # 1 => expires' = expires
        /\ \A e \in Bucket \ {b} : onTime'[e] = onTime[e]
        /\ n > Limit => onTime' = onTime
        /\ n <= Limit /\ InWindow(b) => onTime'[b] = onTime[b] + 1
        /\ ~ InWindow(b) => onTime' = onTime
        /\ early' = IF n = 1 /\ now < b THEN early \cup {b} ELSE early
    BY <1>4, ScriptStep
  <2>2. CASE d # b
    <3>1. /\ now' = now /\ count'[d] = count[d] /\ expires'[d] = expires[d]
          /\ onTime'[d] = onTime[d] /\ (d \in early' <=> d \in early)
      BY <2>1, <2>2
    <3> QED
      BY <1>0, <3>1 DEF Counted
  <2>3. CASE d = b
    <3>1. /\ now' = now /\ count'[d] = count[d] + 1
          /\ expires'[d] = IF count[d] = 0 THEN now + Window ELSE expires[d]
          /\ onTime'[d] = IF count[d] + 1 <= Limit /\ InWindow(d)
                          THEN onTime[d] + 1 ELSE onTime[d]
          /\ d \in early' <=> d \in early \/ (count[d] = 0 /\ now < d)
      BY <1>0, <2>1, <2>3
    <3>2. CASE count[d] = 0
      BY <1>0, <3>1, <3>2 DEF Counted
    <3>3. CASE count[d] # 0
      BY <1>0, <3>1, <3>3 DEF Counted
    <3> QED
      BY <3>2, <3>3
  <2> QED
    BY <2>2, <2>3
<1>5. CASE Flush
  BY <1>0, <1>5 DEF Flush, Counted
<1>6. CASE Tick
  <2>1. /\ now' = now + 1 /\ onTime'[d] = onTime[d] /\ early' = early
        /\ expires'[d] = expires[d]
        /\ count'[d] = IF expires[d] = now + 1 THEN 0 ELSE count[d]
    BY <1>6 DEF Tick, leaves
  <2> QED
    BY <1>0, <2>1 DEF Counted, Lifetime
<1> QED
  BY <1>2, <1>3, <1>4, <1>5, <1>6 DEF Next

(* The limit holds in every window, from when Redis last lost its counters;*)
(* where the clocks differ, twice the limit.                               *)
THEOREM LimitHolds == Spec => []LimitPerWindow
<1>1. Init => LifeInv /\ CountInv
  BY LimitAssumption DEF Init, LifeInv, Stamped, Lifetime, CountInv, Counted
<1>2. CountInv => LimitPerWindow
  BY DEF CountInv, Counted, LimitPerWindow
<1> QED
  BY <1>1, <1>2, LimiterTypes, LifeStep, CountedStep, PTL DEF Spec

-----------------------------------------------------------------------------
(* Nobody is turned away early, whatever fails.                            *)
LEMMA JustifiedStep == TypeOK /\ Justified /\ [Next]_vars => Justified'
<1> SUFFICES ASSUME TypeOK, Justified, [Next]_vars PROVE Justified'
  OBVIOUS
<1> USE LimitAssumption DEF TypeOK, Justified, Spent, Given, Done
<1>1. CASE UNCHANGED vars
  BY <1>1 DEF vars, redis, leaves, calls
<1>2. ASSUME NEW c \in Call, Send(c) PROVE Justified'
  BY <1>2 DEF Send, Enter, redis, leaves
<1>3. ASSUME NEW c \in Call, RunScript(c) PROVE Justified'
  <2> DEFINE b == bucket[c]
             n == count[b] + 1
  <2>1. /\ b \in Bucket /\ n \in Nat \ {0} /\ bucket' = bucket
        /\ state[c] = "sent" /\ state' = [state EXCEPT ![c] = "answered"]
        /\ count' = [count EXCEPT ![b] = n]
        /\ reply' = [reply EXCEPT ![c] = n]
        /\ \A d \in Bucket \ {b} : passed'[d] = passed[d]
        /\ n > Limit => passed' = passed
        /\ n <= Limit => passed'[b] = passed[b] + 1
        /\ lost' = lost
    BY <1>3, ScriptStep
  <2>2. \A d \in Bucket : Given(d)' >= Given(d)
    <3>1. Given(b)' >= Given(b)
      BY <2>1
    <3> QED
      BY <2>1, <3>1
  <2>3. \A d \in Bucket : Given(d)' \in Int
    BY <1>3, Typing DEF Next
  <2>4. \A d \in Bucket : Spent(d) => Spent(d)'
    BY <2>2, <2>3
  <2>5. Spent(b)' \/ n <= Given(b)'
    BY <2>1, <2>4
  <2>6. n > Limit => Spent(b)'
    BY <2>1, <2>4
  <2>7. \A d \in Bucket : Spent(d)' \/ count'[d] <= Given(d)'
    BY <2>1, <2>4, <2>5
  <2>8. ASSUME NEW e \in Call PROVE /\ state'[e] = "answered" /\ reply'[e] > Limit => Spent(bucket[e])'
                                    /\ state'[e] = "denied" => Spent(bucket[e])'
    <3>1. CASE e = c
      BY <2>1, <2>6, <3>1
    <3>2. CASE e # c
      <4>1. state'[e] = state[e] /\ reply'[e] = reply[e] /\ bucket[e] \in Bucket
        BY <2>1, <3>2
      <4> QED
        BY <2>1, <2>4, <4>1
    <3> QED
      BY <3>1, <3>2
  <2> QED
    BY <2>1, <2>7, <2>8
<1>4. ASSUME NEW c \in Call, Decide(c) \/ FailOpen(c) PROVE Justified'
  BY <1>4 DEF Decide, FailOpen, Enter, redis, leaves
<1>7. ASSUME NEW c \in Call, Retry(c) PROVE Justified'
  <2>1. \E g \in {0, 1} : /\ passed' = [passed EXCEPT ![bucket[c]] = @ - g]
                         /\ lost' = [lost EXCEPT ![bucket[c]] = @ + g]
    BY <1>7 DEF Retry
  <2>2. \A b \in Bucket : Given(b)' = Given(b)
    BY <2>1
  <2>3. state' = [state EXCEPT ![c] = "sent"] /\ UNCHANGED <<count, bucket, reply>>
    BY <1>7 DEF Retry, Enter
  <2>4. \A b \in Bucket : Spent(b)' <=> Spent(b)
    BY <2>2
  <2> HIDE DEF Spent
  <2> QED
    BY <2>2, <2>3, <2>4
<1>5. CASE Flush
  BY <1>5 DEF Flush, calls
<1>6. CASE Tick
  BY <1>6 DEF Tick, leaves, calls
<1> QED
  BY <1>1, <1>2, <1>3, <1>4, <1>5, <1>6, <1>7 DEF Next

(* A denial always finds the window's leaves to pass given away.           *)
THEOREM DenialsJustified == Spec => []NoEarlyDenial
<1>1. Init => Justified
  BY LimitAssumption DEF Init, Justified, Spent, Given
<1>2. TypeOK /\ Justified => NoEarlyDenial
  BY LimitAssumption DEF TypeOK, Justified, Spent, Given, NoEarlyDenial
<1> QED
  BY <1>1, <1>2, LimiterTypes, JustifiedStep, PTL DEF Spec
=============================================================================
