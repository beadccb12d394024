------------------------------- MODULE Setup -------------------------------
(***************************************************************************)
(* cmd/setup and internal/setup: the wizard that writes the master key     *)
(* (.env), the configuration sealed with it (config.yaml) and the row of   *)
(* the API key (api_keys), one after the other and with nothing that holds *)
(* them together.  It can fail or be killed at every step, is run again    *)
(* and again, and an operator edits the file and the table in between.     *)
(* Both files are written aside and renamed, so a write happens or does    *)
(* not.  svc-sync has its key from its container's environment, where the  *)
(* operator has to put it: nothing takes it there from the wizard's .env.  *)
(* It reads config.yaml whenever it is started, perhaps in the middle of a *)
(* run of the wizard.  A secret stands for the plaintext of an API key and *)
(* for its hash.                                                           *)
(***************************************************************************)
EXTENDS Naturals, SequencesExt

CONSTANTS
    Key,       \* master keys
    NoKey,     \* none: no .env, no GATEWAY_MASTER_KEY, no config.yaml
    Secret,    \* API keys
    NoSecret,  \* no row in api_keys
    Given,     \* what GATEWAY_MASTER_KEY may be when the wizard is started
    Operator,  \* the kinds of things the operator does
    MaxRuns    \* bound: runs of the wizard

ASSUME KeyAssumption == NoKey \notin Key /\ NoSecret \notin Secret
ASSUME GivenAssumption == Given \subseteq Key \cup {NoKey}
ASSUME OperatorAssumption == Operator \subseteq {"front", "back", "damage", "revoke"}

Id == {"default", "app"}          \* the wizard's entry and one of the operator's
Entry == [id : Id, hash : Secret]

VARIABLES
    dotenv,         \* the key in .env
    sealed,         \* the key that config.yaml is sealed with
    keys, damaged,  \* its api.keys; does it fail to parse
    schema,         \* what schema_migrations says: "none", "dirty", "current"
    hash, revoked,  \* api_keys
    deployed,       \* the key in svc-sync's environment
    started,        \* has svc-sync come up with it
    pc,             \* the wizard's next step
    given, master, secret, merged, \* its locals: environment, keys, configuration
    rounds          \* runs so far

disk    == <<dotenv, sealed, keys, damaged>>
table   == <<schema, hash, revoked>>
service == <<deployed, started>>
locals  == <<given, master, secret, merged>>
vars    == <<disk, table, service, pc, locals, rounds>>

Init ==
    /\ dotenv = NoKey /\ sealed = NoKey /\ keys = <<>> /\ damaged = FALSE
    /\ schema = "none" /\ hash = [i \in Id |-> NoSecret] /\ revoked = [i \in Id |-> FALSE]
    /\ deployed = NoKey /\ started = FALSE
    /\ pc = "idle"
    /\ given = NoKey /\ master = NoKey /\ secret = NoSecret /\ merged = <<>>
    /\ rounds = 0

-----------------------------------------------------------------------------
(* The wizard.                                                             *)

(* The questions are answered; the connection to the source is tried       *)
(* before anything is written.  The API key is the operator's or is made.  *)
Ask ==
    /\ pc = "idle"
    /\ rounds < MaxRuns
    /\ rounds' = rounds + 1
    /\ given' \in Given
    /\ secret' \in Secret
    /\ pc' = "resolve"
    /\ UNCHANGED <<disk, table, service, master, merged>>

(* A random key: none that has been used.                                  *)
Fresh == Key \ {dotenv, sealed, deployed}

(* A bug to catch: a fresh key each time.                                  *)
ResolveFresh ==
    /\ pc = "resolve"
    /\ master' \in Fresh
    /\ pc' = "merge"
    /\ UNCHANGED <<disk, table, service, given, secret, merged, rounds>>

(* A bug to catch: none is made where there is none.                       *)
ResolveUnmade ==
    /\ pc = "resolve"
    /\ master' = IF given # NoKey THEN given ELSE dotenv
    /\ pc' = "merge"
    /\ UNCHANGED <<disk, table, service, given, secret, merged, rounds>>

(* The environment's key, else that of .env, else a fresh one.             *)
MasterKeys ==
    IF given # NoKey THEN {given}
    ELSE IF dotenv # NoKey THEN {dotenv} ELSE Fresh

Resolve ==
    /\ pc = "resolve"
    /\ master' \in MasterKeys
    /\ pc' = "merge"
    /\ UNCHANGED <<disk, table, service, given, secret, merged, rounds>>

NewEntry == [id |-> "default", hash |-> secret]

IsFirstDefault(ks, i) ==
    /\ ks[i].id = "default"
    /\ \A j \in 1..(i - 1) : ks[j].id # "default"

(* A bug to catch: an entry there already is left as it is.                *)
WithNewEntryKept(ks) ==
    IF \E i \in DOMAIN ks : ks[i].id = "default" THEN ks ELSE Append(ks, NewEntry)

(* A bug to catch: the list is written anew.                               *)
WithNewEntryOnly(ks) == <<NewEntry>>

WithNewEntry(ks) ==
    IF \E i \in DOMAIN ks : ks[i].id = "default"
    THEN [i \in DOMAIN ks |-> IF IsFirstDefault(ks, i) THEN NewEntry ELSE ks[i]]
    ELSE Append(ks, NewEntry)

(* The configuration there is, or an empty one when it cannot be read.     *)
Merge ==
    /\ pc = "merge"
    /\ merged' = WithNewEntry(IF sealed = NoKey \/ damaged THEN <<>> ELSE keys)
    /\ pc' = "dotenv"
    /\ UNCHANGED <<disk, table, service, given, master, secret, rounds>>

WriteDotenv ==
    /\ pc = "dotenv"
    /\ dotenv' = master
    /\ pc' = "config"
    /\ UNCHANGED <<sealed, keys, damaged, table, service, locals, rounds>>

SaveConfig ==
    /\ pc = "config"
    /\ sealed' = master /\ keys' = merged /\ damaged' = FALSE
    /\ pc' = "migrate"
    /\ UNCHANGED <<dotenv, table, service, locals, rounds>>

(* Up, once the key is printed: the one migration is marked dirty, run and *)
(* marked done.  A dirty schema is an error, one up to date is none.       *)
MigrateBegin ==
    /\ pc = "migrate" /\ schema = "none"
    /\ schema' = "dirty"
    /\ pc' = "migrating"
    /\ UNCHANGED <<disk, hash, revoked, service, locals, rounds>>

MigrateEnd ==
    /\ pc = "migrating"
    /\ schema' = "current"
    /\ pc' = "insert"
    /\ UNCHANGED <<disk, hash, revoked, service, locals, rounds>>

(* A bug to catch: every error is taken for ErrNoChange.                   *)
MigrateNothingBlunt ==
    /\ pc = "migrate" /\ schema # "none"
    /\ pc' = "insert"
    /\ UNCHANGED <<disk, table, service, locals, rounds>>

MigrateNothing ==
    /\ pc = "migrate" /\ schema = "current"
    /\ pc' = "insert"
    /\ UNCHANGED <<disk, table, service, locals, rounds>>

(* A bug to catch: the row is made anew, not revoked.                      *)
InsertKeyUnrevoked ==
    /\ pc = "insert"
    /\ hash' = [hash EXCEPT ![Head(merged).id] = secret]
    /\ revoked' = [revoked EXCEPT ![Head(merged).id] = FALSE]
    /\ pc' = "sync"
    /\ UNCHANGED <<disk, schema, service, locals, rounds>>

(* A bug to catch: the last entry is taken for the wizard's.               *)
InsertKeyLast ==
    /\ pc = "insert"
    /\ hash' = [hash EXCEPT ![Last(merged).id] = secret]
    /\ pc' = "sync"
    /\ UNCHANGED <<disk, schema, revoked, service, locals, rounds>>

(* The row of the configuration's first entry gets the new hash; revoked   *)
(* stays.                                                                  *)
InsertKey ==
    /\ pc = "insert"
    /\ hash' = [hash EXCEPT ![Head(merged).id] = secret]
    /\ pc' = "sync"
    /\ UNCHANGED <<disk, schema, revoked, service, locals, rounds>>

(* The initial sync, whose failure is only logged, and the end.            *)
InitialSync ==
    /\ pc = "sync"
    /\ pc' = "idle"
    /\ UNCHANGED <<disk, table, service, locals, rounds>>

(* A step fails, the schema is dirty, POSTGRES_DSN is not set, or the      *)
(* wizard is killed.                                                       *)
Abort ==
    /\ pc # "idle"
    /\ pc' = "idle"
    /\ UNCHANGED <<disk, table, service, locals, rounds>>

Wizard ==
    \/ Ask \/ Resolve \/ Merge \/ WriteDotenv \/ SaveConfig
    \/ MigrateBegin \/ MigrateEnd \/ MigrateNothing
    \/ InsertKey \/ InitialSync \/ Abort

-----------------------------------------------------------------------------
(* svc-sync.                                                               *)

(* Its container is made anew, with the GATEWAY_MASTER_KEY of the host or  *)
(* deploy/.env: what the operator has put there, if anything, be it right  *)
(* or wrong.  docker-compose.prod.yml gives it none at all.                *)
Deploy ==
    /\ deployed' \in Key \cup {NoKey}
    /\ started' = FALSE
    /\ UNCHANGED <<disk, table, pc, locals, rounds>>

ConfigLoads == deployed # NoKey
FileLoads   == sealed # NoKey /\ ~ damaged
Opens(k)    == k = sealed
CanStart    == ConfigLoads /\ FileLoads /\ Opens(deployed)

(* A start that fails ends the process; docker repeats it.                 *)
StartSync ==
    /\ CanStart
    /\ started' = TRUE
    /\ UNCHANGED <<disk, table, deployed, pc, locals, rounds>>

-----------------------------------------------------------------------------
(* The operator.                                                           *)

HasApp == \E i \in DOMAIN keys : keys[i].id = "app"

(* An application gets a key: an entry in config.yaml and a row.           *)
AddKey ==
    /\ pc = "idle"
    /\ sealed # NoKey /\ ~ HasApp /\ schema = "current"
    /\ \E s \in Secret \ {hash["default"]}, place \in Operator \cap {"front", "back"} :
          LET entry == [id |-> "app", hash |-> s]
          IN  /\ keys' = IF place = "front" THEN <<entry>> \o keys ELSE Append(keys, entry)
              /\ hash' = [hash EXCEPT !["app"] = s]
    /\ UNCHANGED <<dotenv, sealed, damaged, schema, revoked, service, pc, locals, rounds>>

Damage ==
    /\ pc = "idle"
    /\ "damage" \in Operator
    /\ sealed # NoKey
    /\ damaged' = TRUE
    /\ UNCHANGED <<dotenv, sealed, keys, table, service, pc, locals, rounds>>

Revoke(i) ==
    /\ "revoke" \in Operator
    /\ hash[i] # NoSecret
    /\ revoked' = [revoked EXCEPT ![i] = TRUE]
    /\ UNCHANGED <<disk, schema, hash, service, pc, locals, rounds>>

Next ==
    \/ Wizard
    \/ Deploy \/ StartSync
    \/ AddKey \/ Damage
    \/ \E i \in Id : Revoke(i)

Spec == Init /\ [][Next]_vars

-----------------------------------------------------------------------------
(* Type invariant; from Merge on there is a master key.                    *)
TypeOK ==
    /\ dotenv \in Key \cup {NoKey} /\ sealed \in Key \cup {NoKey}
    /\ keys \in Seq(Entry) /\ damaged \in BOOLEAN
    /\ schema \in {"none", "dirty", "current"}
    /\ hash \in [Id -> Secret \cup {NoSecret}] /\ revoked \in [Id -> BOOLEAN]
    /\ deployed \in Key \cup {NoKey} /\ started \in BOOLEAN
    /\ pc \in {"idle", "resolve", "merge", "dotenv", "config", "migrate", "migrating",
              "insert", "sync"}
    /\ given \in Key \cup {NoKey} /\ master \in Key \cup {NoKey}
    /\ pc \notin {"idle", "resolve"} => master # NoKey
    /\ secret \in Secret \cup {NoSecret} /\ merged \in Seq(Entry)
    /\ rounds \in 0..MaxRuns

(* "the .env still has the same master key as before, so a retry can       *)
(* succeed without bricking the previous encryption" (RunPromptFlow):      *)
(* wherever the wizard has stopped, the key in .env opens config.yaml.     *)
SealedKeyIsOnDisk == pc = "idle" /\ sealed # NoKey => dotenv = sealed

(* "the master key on disk still matches what the operator's deployed      *)
(* api/sync containers already loaded": svc-sync, once it has come up with *)
(* the key that its container has been given, does so again whenever it is *)
(* started, after any number of further, broken off runs and in the middle *)
(* of one.  That the container is given the right key is nobody's promise. *)
DeployedKeyFits == started /\ ~ damaged => CanStart

(* "reuses the value from dotenvPath if present (so re-running setup does  *)
(* not invalidate the previous key)": the key in .env never changes.       *)
DotenvKeyStays == [][dotenv # NoKey => dotenv' = dotenv]_vars

(* "Custom operator-added API keys (not the default one) are preserved     *)
(* across re-runs": no run takes the operator's entry out of a config.yaml *)
(* that can be read.                                                       *)
OperatorKeysSurvive ==
    [][~ damaged => \A i \in DOMAIN keys : keys[i].id = "app"
          => \E j \in DOMAIN keys' : keys'[j] = keys[i]]_vars

(* And no run of the wizard changes the row of that key, by which the      *)
(* application is let in.                                                  *)
OperatorRowKept == [][pc = "insert" => hash'["app"] = hash["app"]]_vars

(* "the same id is visible in the YAML audit trail and in the database":   *)
(* once inserted, the key printed is under one id in both, and the schema  *)
(* its row is in is whole, though a migration may have been killed.        *)
KeyIsFiledOnce ==
    pc = "sync" =>
        /\ schema = "current"
        /\ \E i \in DOMAIN keys : keys[i].hash = secret /\ hash[keys[i].id] = secret

(* "an operator who revoked a key on purpose is not silently un-revoked".  *)
RevokedStaysRevoked == [][\A i \in Id : revoked[i] => revoked'[i]]_vars
=============================================================================
