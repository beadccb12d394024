-------------------------------- MODULE Gate --------------------------------
(***************************************************************************)
(* What the api promises of API keys, without connections, deadlines and   *)
(* the life of the process: the key of a request is judged once, at one    *)
(* moment while the request is under way, by the table as it is at that    *)
(* moment; only a request whose key was found is let in, it alone owes a   *)
(* mark to the row that was found, and what is answered says how far the   *)
(* request has come.  How it is done, and what happens between the query   *)
(* and its answer, is the business of Gateway, which implements this.      *)
(***************************************************************************)
CONSTANTS
    Request,           \* slots for requests
    Id, NoRow,         \* rows of api_keys; none
    Secret, NoSecret   \* API keys; none

VARIABLES
    hash, revoked, \* api_keys
    key,           \* the key that is being judged
    verdict,       \* "open", "bad", "good"; "in" once let in; "none" of no request
    row,           \* the row found for it
    owing,         \* requests whose row is still to be marked as used
    answer         \* the answers being given
vars == <<hash, revoked, key, verdict, row, owing, answer>>

Init ==
    /\ hash \in [Id -> Secret] /\ revoked = [i \in Id |-> FALSE]
    /\ key = [r \in Request |-> NoSecret] /\ verdict = [r \in Request |-> "none"]
    /\ row = [r \in Request |-> NoRow] /\ owing = {}
    /\ answer = [r \in Request |-> "none"]

UnderWay(r) == verdict[r] # "none"
Matching(s) == {i \in Id : hash[i] = s /\ ~ revoked[i]}

Ask(r) ==
    /\ ~ UnderWay(r) /\ r \notin owing
    /\ \E s \in Secret : key' = [key EXCEPT ![r] = s]
    /\ verdict' = [verdict EXCEPT ![r] = "open"]
    /\ answer' = [answer EXCEPT ![r] = "none"]
    /\ UNCHANGED <<hash, revoked, row, owing>>

AskWithoutKey(r) ==
    /\ ~ UnderWay(r) /\ r \notin owing
    /\ answer' = [answer EXCEPT ![r] = "unauthorized"]
    /\ UNCHANGED <<hash, revoked, key, verdict, row, owing>>

(* The one moment at which the table matters.                              *)
Judge(r) ==
    /\ verdict[r] = "open"
    /\ \/ \E i \in Matching(key[r]) :
             /\ row' = [row EXCEPT ![r] = i]
             /\ verdict' = [verdict EXCEPT ![r] = "good"]
       \/ /\ Matching(key[r]) = {}
          /\ verdict' = [verdict EXCEPT ![r] = "bad"]
          /\ UNCHANGED row
    /\ UNCHANGED <<hash, revoked, key, owing, answer>>

LetIn(r) ==
    /\ verdict[r] = "good"
    /\ verdict' = [verdict EXCEPT ![r] = "in"]
    /\ key' = [key EXCEPT ![r] = NoSecret]
    /\ owing' = owing \cup {r}
    /\ UNCHANGED <<hash, revoked, row, answer>>

(* What may be said of a request that has come so far.                     *)
Answers ==
    [open |-> {"unavailable"}, good |-> {"unavailable"},
     bad  |-> {"unavailable", "unauthorized"},
     in   |-> {"served", "limited", "error"}]

Respond(r) ==
    /\ UnderWay(r)
    /\ \E a \in Answers[verdict[r]] : answer' = [answer EXCEPT ![r] = a]
    /\ key' = [key EXCEPT ![r] = NoSecret]
    /\ verdict' = [verdict EXCEPT ![r] = "none"]
    /\ row' = [row EXCEPT ![r] = IF r \in owing THEN @ ELSE NoRow]
    /\ UNCHANGED <<hash, revoked, owing>>

(* The mark is made, or given up.                                          *)
Settle(r) ==
    /\ r \in owing
    /\ owing' = owing \ {r}
    /\ row' = [row EXCEPT ![r] = NoRow]
    /\ UNCHANGED <<hash, revoked, key, verdict, answer>>

(* The process ends and leaves nothing behind.                             *)
Stop ==
    /\ key' = [r \in Request |-> NoSecret] /\ verdict' = [r \in Request |-> "none"]
    /\ row' = [r \in Request |-> NoRow] /\ owing' = {}
    /\ \E a \in {"none", "cut"} : answer' \in [Request -> {"none", a}]
    /\ UNCHANGED <<hash, revoked>>

(* An answer has been read, or never will be.                              *)
Forget ==
    /\ \E S \in SUBSET Request :
          answer' = [r \in Request |-> IF r \in S THEN "none" ELSE answer[r]]
    /\ UNCHANGED <<hash, revoked, key, verdict, row, owing>>

Revoke(i) ==
    /\ revoked' = [revoked EXCEPT ![i] = TRUE]
    /\ UNCHANGED <<hash, key, verdict, row, owing, answer>>

Replace(i) ==
    /\ \E s \in Secret : hash' = [hash EXCEPT ![i] = s]
    /\ UNCHANGED <<revoked, key, verdict, row, owing, answer>>

Next ==
    \/ \E r \in Request : \/ Ask(r) \/ AskWithoutKey(r) \/ Judge(r) \/ LetIn(r)
                          \/ Respond(r) \/ Settle(r)
    \/ Stop \/ Forget
    \/ \E i \in Id : Revoke(i) \/ Replace(i)

Spec == Init /\ [][Next]_vars
=============================================================================
