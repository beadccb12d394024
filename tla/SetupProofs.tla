---------------------------- MODULE SetupProofs ----------------------------
(***************************************************************************)
(* Promises of the wizard for any number of runs, broken off anywhere.     *)
(***************************************************************************)
EXTENDS Setup, TLAPS

(* GATEWAY_MASTER_KEY is the same whenever the wizard is started: never    *)
(* set, or always set to one key.                                          *)
OneEnvironment == \A g, h \in Given : g = h

(* The key of a run is that of the environment if it has one, else the one *)
(* in .env if there is one, and is in .env before config.yaml is sealed    *)
(* with it; a svc-sync that has come up has no other.                      *)
OneKey ==
    /\ pc # "idle" => given \in Given
    /\ dotenv # NoKey => Given \subseteq {NoKey, dotenv}
    /\ sealed # NoKey => dotenv = sealed
    /\ started => deployed # NoKey /\ deployed = sealed
    /\ pc \in {"merge", "dotenv", "config"} =>
          Given \subseteq {NoKey, master} /\ (dotenv # NoKey => master = dotenv)
    /\ pc = "config" => dotenv = master

LEMMA OneKeyStep ==
    ASSUME OneEnvironment, OneKey, [Next]_vars
    PROVE  OneKey' /\ (dotenv # NoKey => dotenv' = dotenv)
<1> USE DEF OneKey, disk, table, service, locals
<1>1. CASE UNCHANGED vars
  BY <1>1 DEF vars
<1>2. CASE Ask
  BY <1>2 DEF Ask
<1>3. CASE Resolve
  <2>1. given \in Given /\ Given \subseteq {given} /\ pc' = "merge" /\ pc = "resolve"
    BY <1>3 DEF Resolve, OneEnvironment
  <2>2. Given \subseteq {NoKey, master'} /\ (dotenv # NoKey => master' = dotenv)
    BY <1>3, <2>1 DEF Resolve, MasterKeys
  <2> QED
    BY <1>3, <2>1, <2>2 DEF Resolve
<1>4. CASE Merge
  BY <1>4 DEF Merge
<1>5. CASE WriteDotenv
  BY <1>5 DEF WriteDotenv
<1>6. CASE SaveConfig
  BY <1>6 DEF SaveConfig
<1>7. CASE MigrateBegin \/ MigrateEnd \/ MigrateNothing \/ InsertKey \/ InitialSync \/ Abort
  BY <1>7 DEF MigrateBegin, MigrateEnd, MigrateNothing, InsertKey, InitialSync, Abort
<1>8. CASE Deploy \/ StartSync
  BY <1>8 DEF Deploy, StartSync, CanStart, ConfigLoads, FileLoads, Opens
<1>9. CASE AddKey
  BY <1>9 DEF AddKey
<1>10. CASE Damage \/ \E i \in Id : Revoke(i)
  BY <1>10 DEF Damage, Revoke
<1> QED
  BY <1>1, <1>2, <1>3, <1>4, <1>5, <1>6, <1>7, <1>8, <1>9, <1>10 DEF Next, Wizard

LEMMA OneKeyAlways ==
    ASSUME OneEnvironment
    PROVE  Spec => []OneKey
<1>1. Init => OneKey
  BY DEF Init, OneKey
<1>2. OneKey /\ [Next]_vars => OneKey'
  BY OneKeyStep
<1> QED
  BY <1>1, <1>2, PTL DEF Spec

(* "the .env still has the same master key as before, so a retry can       *)
(* succeed without bricking the previous encryption": started in one       *)
(* environment the wizard, run and broken off any number of times, leaves  *)
(* a .env that opens config.yaml.                                          *)
THEOREM SealedKeyKept ==
    ASSUME OneEnvironment
    PROVE  Spec => []SealedKeyIsOnDisk
<1>1. OneKey => SealedKeyIsOnDisk
  BY DEF OneKey, SealedKeyIsOnDisk
<1> QED
  BY <1>1, OneKeyAlways, PTL

(* Nor is there a moment, in the middle of a run either, at which a        *)
(* svc-sync that has come up once could not come up again.                 *)
THEOREM DeployedKeyAlwaysFits ==
    ASSUME OneEnvironment
    PROVE  Spec => []DeployedKeyFits
<1>1. OneKey => DeployedKeyFits
  BY DEF OneKey, DeployedKeyFits, CanStart, ConfigLoads, FileLoads, Opens
<1> QED
  BY <1>1, OneKeyAlways, PTL

(* "reuses the value from dotenvPath if present": there is at most one     *)
(* master key in the life of an installation.  That the environment is the *)
(* same at each start is needed: setup_env_key shows why.                  *)
THEOREM KeyNeverChanges ==
    ASSUME OneEnvironment
    PROVE  Spec => DotenvKeyStays
<1>1. OneKey /\ [Next]_vars => [dotenv # NoKey => dotenv' = dotenv]_vars
  BY OneKeyStep
<1> QED
  BY <1>1, OneKeyAlways, PTL DEF Spec, DotenvKeyStays

-----------------------------------------------------------------------------
(* A revoked key stays revoked whatever the wizard and the operator do.    *)
Flags == revoked \in [Id -> BOOLEAN]

LEMMA FlagsStep ==
    ASSUME Flags, [Next]_vars
    PROVE  Flags' /\ \A i \in Id : revoked[i] => revoked'[i]
<1> USE DEF Flags, disk, table, service, locals
<1>1. CASE UNCHANGED vars
  BY <1>1 DEF vars
<1>2. CASE Wizard
  BY <1>2 DEF Wizard, Ask, Resolve, Merge, WriteDotenv, SaveConfig,
              MigrateBegin, MigrateEnd, MigrateNothing, InsertKey, InitialSync, Abort
<1>3. CASE Deploy \/ StartSync \/ AddKey \/ Damage
  BY <1>3 DEF Deploy, StartSync, AddKey, Damage
<1>4. CASE \E i \in Id : Revoke(i)
  <2>1. PICK i \in Id : revoked' = [revoked EXCEPT ![i] = TRUE]
    BY <1>4 DEF Revoke
  <2> QED
    BY <2>1
<1> QED
  BY <1>1, <1>2, <1>3, <1>4 DEF Next

(* "an operator who revoked a key on purpose is not silently un-revoked",  *)
(* by any number of runs of the wizard.                                    *)
THEOREM RevokedForGood == Spec => RevokedStaysRevoked
<1>1. Init => Flags
  BY DEF Init, Flags
<1>2. Flags /\ [Next]_vars => Flags'
  BY FlagsStep
<1>3. Flags /\ [Next]_vars => [\A i \in Id : revoked[i] => revoked'[i]]_vars
  BY FlagsStep
<1> QED
  BY <1>1, <1>2, <1>3, PTL DEF Spec, RevokedStaysRevoked

-----------------------------------------------------------------------------
(* Types.                                                                  *)

LEMMA EntryIsTyped ==
    ASSUME NEW ks \in Seq(Entry), secret \in Secret
    PROVE  WithNewEntry(ks) \in Seq(Entry)
<1> DEFINE Put == [i \in DOMAIN ks |-> IF IsFirstDefault(ks, i) THEN NewEntry ELSE ks[i]]
<1>1. NewEntry \in Entry
  BY DEF NewEntry, Entry, Id
<1>2. Append(ks, NewEntry) \in Seq(Entry)
  BY <1>1
<1>3. \A i \in DOMAIN ks : Put[i] \in Entry
  BY <1>1
<1>4. Put \in Seq(Entry)
  BY <1>3
<1> HIDE DEF Put
<1>5. WithNewEntry(ks) = Put \/ WithNewEntry(ks) = Append(ks, NewEntry)
  BY DEF WithNewEntry, Put
<1> QED
  BY <1>2, <1>4, <1>5

(* The wizard's locals are set from its questions on.                      *)
Typed ==
    /\ TypeOK
    /\ pc # "idle" => secret \in Secret
    /\ pc \in {"dotenv", "config", "migrate", "migrating", "insert", "sync"} => merged # <<>>

LEMMA TypedInit ==
    ASSUME MaxRuns \in Nat, Init
    PROVE  Typed
<1>1. /\ <<>> \in Seq(Entry) /\ 0 \in 0..MaxRuns
      /\ [i \in Id |-> NoSecret] \in [Id -> Secret \cup {NoSecret}]
      /\ [i \in Id |-> FALSE] \in [Id -> BOOLEAN]
  OBVIOUS
<1>2. TypeOK
  BY <1>1 DEF Init, TypeOK
<1> QED
  BY <1>2 DEF Init, Typed

LEMMA TypedStep ==
    ASSUME MaxRuns \in Nat, Typed, [Next]_vars
    PROVE  Typed'
<1> USE KeyAssumption, GivenAssumption DEF Typed, TypeOK, disk, table, service, locals
<1>1. CASE UNCHANGED vars
  BY <1>1 DEF vars
<1>2. CASE Ask
  BY <1>2 DEF Ask
<1>3. CASE Resolve
  BY <1>3 DEF Resolve, MasterKeys, Fresh
<1>4. CASE Merge
  <2> DEFINE there == IF sealed = NoKey \/ damaged THEN <<>> ELSE keys
  <2>1. there \in Seq(Entry) /\ secret \in Secret
    BY <1>4 DEF Merge
  <2>2. merged' = WithNewEntry(there)
    BY <1>4 DEF Merge
  <2>3. merged' \in Seq(Entry)
    BY <2>1, <2>2, EntryIsTyped
  <2>4. merged' # <<>>
    <3> HIDE DEF there
    <3>1. CASE \E i \in DOMAIN there : there[i].id = "default"
      <4>1. DOMAIN merged' = DOMAIN there /\ DOMAIN there # {}
        BY <2>2, <3>1 DEF WithNewEntry
      <4> QED
        BY <4>1
    <3>2. CASE ~ \E i \in DOMAIN there : there[i].id = "default"
      <4>1. merged' = Append(there, NewEntry)
        BY <2>2, <3>2 DEF WithNewEntry
      <4> QED
        BY <4>1, <2>1
    <3> QED
      BY <3>1, <3>2
  <2> QED
    BY <1>4, <2>3, <2>4 DEF Merge
<1>5. CASE WriteDotenv
  BY <1>5 DEF WriteDotenv
<1>6. CASE SaveConfig
  BY <1>6 DEF SaveConfig
<1>7. CASE InsertKey
  <2>1. hash' = [hash EXCEPT ![Head(merged).id] = secret] /\ secret \in Secret
    BY <1>7 DEF InsertKey
  <2>2. hash' \in [Id -> Secret \cup {NoSecret}]
    BY <2>1
  <2> QED
    BY <1>7, <2>2 DEF InsertKey
<1>8. CASE MigrateBegin \/ MigrateEnd \/ MigrateNothing \/ InitialSync \/ Abort
  BY <1>8 DEF MigrateBegin, MigrateEnd, MigrateNothing, InitialSync, Abort
<1>9. CASE Deploy \/ StartSync \/ Damage
  BY <1>9 DEF Deploy, StartSync, Damage
<1>10. CASE AddKey
  <2>1. PICK s \in Secret, place \in {"front", "back"} :
            LET entry == [id |-> "app", hash |-> s]
            IN  /\ keys' = IF place = "front" THEN <<entry>> \o keys ELSE Append(keys, entry)
                /\ hash' = [hash EXCEPT !["app"] = s]
    BY <1>10 DEF AddKey
  <2>2. [id |-> "app", hash |-> s] \in Entry
    BY DEF Entry, Id
  <2>3. keys' \in Seq(Entry)
    BY <2>1, <2>2
  <2>4. hash' \in [Id -> Secret \cup {NoSecret}]
    BY <2>1
  <2> QED
    BY <1>10, <2>3, <2>4 DEF AddKey
<1>11. CASE \E i \in Id : Revoke(i)
  BY <1>11 DEF Revoke
<1> QED
  BY <1>1, <1>2, <1>3, <1>4, <1>5, <1>6, <1>7, <1>8, <1>9, <1>10, <1>11 DEF Next, Wizard

(* Types; from Merge on there is a master key.                             *)
THEOREM TypeCorrect ==
    ASSUME MaxRuns \in Nat
    PROVE  Spec => []TypeOK
<1>1. Init => Typed
  BY TypedInit
<1>2. Typed /\ [Next]_vars => Typed'
  BY TypedStep
<1>3. Typed => TypeOK
  BY DEF Typed
<1> QED
  BY <1>1, <1>2, <1>3, PTL DEF Spec

-----------------------------------------------------------------------------
(* Nobody edits config.yaml while the wizard is at work.                   *)
Kept ==
    /\ keys \in Seq(Entry)
    /\ sealed = NoKey => keys = <<>>
    /\ pc \in {"dotenv", "config"} /\ ~ damaged => merged = WithNewEntry(keys)

LEMMA KeptStep ==
    ASSUME MaxRuns \in Nat, Typed, Kept, [Next]_vars
    PROVE  Kept'
<1> USE DEF Kept, disk, table, service, locals
<1>0. keys' \in Seq(Entry)
  BY TypedStep DEF Typed, TypeOK
<1>1. CASE UNCHANGED vars
  BY <1>0, <1>1 DEF vars, WithNewEntry, NewEntry
<1>2. CASE Ask \/ Resolve
  BY <1>0, <1>2 DEF Ask, Resolve
<1>3. CASE Merge
  <2>1. /\ keys' = keys /\ secret' = secret /\ damaged' = damaged /\ sealed' = sealed
        /\ merged' = WithNewEntry(IF sealed = NoKey \/ damaged THEN <<>> ELSE keys)
    BY <1>3 DEF Merge
  <2>2. ~ damaged => merged' = WithNewEntry(keys)
    BY <2>1
  <2>3. WithNewEntry(keys)' = WithNewEntry(keys)
    BY <2>1 DEF WithNewEntry, NewEntry
  <2> QED
    BY <1>0, <2>1, <2>2, <2>3
<1>4. CASE WriteDotenv
  BY <1>0, <1>4 DEF WriteDotenv, WithNewEntry, NewEntry
<1>5. CASE SaveConfig
  <2>1. sealed' = master /\ pc' = "migrate" /\ master # NoKey
    BY <1>5 DEF SaveConfig, Typed, TypeOK
  <2> QED
    BY <1>0, <2>1
<1>6. CASE MigrateBegin \/ MigrateEnd \/ MigrateNothing \/ InsertKey \/ InitialSync \/ Abort
  BY <1>0, <1>6 DEF MigrateBegin, MigrateEnd, MigrateNothing, InsertKey, InitialSync, Abort
<1>7. CASE Deploy \/ StartSync \/ \E i \in Id : Revoke(i)
  BY <1>0, <1>7 DEF Deploy, StartSync, Revoke, WithNewEntry, NewEntry
<1>8. CASE AddKey \/ Damage
  BY <1>0, <1>8 DEF AddKey, Damage
<1> QED
  BY <1>1, <1>2, <1>3, <1>4, <1>5, <1>6, <1>7, <1>8 DEF Next, Wizard

LEMMA OthersAreKept ==
    ASSUME NEW ks \in Seq(Entry), NEW i \in DOMAIN ks, ks[i].id = "app"
    PROVE  i \in DOMAIN WithNewEntry(ks) /\ WithNewEntry(ks)[i] = ks[i]
<1>1. ~ IsFirstDefault(ks, i)
  BY DEF IsFirstDefault
<1> QED
  BY <1>1 DEF WithNewEntry

(* "Custom operator-added API keys (not the default one) are preserved     *)
(* across re-runs", of a config.yaml that can be read.                     *)
THEOREM OtherKeysKept ==
    ASSUME MaxRuns \in Nat
    PROVE  Spec => OperatorKeysSurvive
<1> DEFINE Survive ==
      ~ damaged => \A i \in DOMAIN keys : keys[i].id = "app"
          => \E j \in DOMAIN keys' : keys'[j] = keys[i]
<1>1. Init => Typed /\ Kept
  <2>1. Init => Kept
    BY DEF Init, Kept
  <2> QED
    BY <2>1, TypedInit
<1>2. Typed /\ Kept /\ [Next]_vars => (Typed /\ Kept)'
  BY TypedStep, KeptStep
<1>3. Typed /\ Kept /\ [Next]_vars => [Survive]_vars
  <2> SUFFICES ASSUME Typed, Kept, Next, ~ damaged,
                      NEW i \in DOMAIN keys, keys[i].id = "app"
               PROVE  \E j \in DOMAIN keys' : keys'[j] = keys[i]
    OBVIOUS
  <2> USE DEF disk, table, service, locals
  <2>1. CASE SaveConfig
    <3>1. keys' = WithNewEntry(keys) /\ keys \in Seq(Entry)
      BY <2>1 DEF SaveConfig, Kept
    <3> QED
      BY <3>1, OthersAreKept
  <2>2. CASE AddKey
    <3>1. PICK s \in Secret, place \in {"front", "back"} :
              LET entry == [id |-> "app", hash |-> s]
              IN  keys' = IF place = "front" THEN <<entry>> \o keys ELSE Append(keys, entry)
      BY <2>2 DEF AddKey
    <3> DEFINE entry == [id |-> "app", hash |-> s]
    <3>2. keys \in Seq(Entry) /\ i \in 1..Len(keys) /\ entry \in Entry
      BY DEF Kept, Entry, Id
    <3>3. keys' = <<entry>> \o keys \/ keys' = Append(keys, entry)
      BY <3>1
    <3> HIDE DEF entry
    <3>4. keys' = <<entry>> \o keys => i + 1 \in DOMAIN keys' /\ keys'[i + 1] = keys[i]
      BY <3>2
    <3>5. keys' = Append(keys, entry) => i \in DOMAIN keys' /\ keys'[i] = keys[i]
      BY <3>2
    <3> QED
      BY <3>3, <3>4, <3>5
  <2>3. CASE ~ SaveConfig /\ ~ AddKey
    <3>1. keys' = keys
      BY <2>3 DEF Next, Wizard, Ask, Resolve, Merge, WriteDotenv, MigrateBegin, MigrateEnd,
                  MigrateNothing, InsertKey, InitialSync, Abort, Deploy, StartSync, Damage,
                  Revoke
    <3> QED
      BY <3>1
  <2> QED
    BY <2>1, <2>2, <2>3
<1> QED
  BY <1>1, <1>2, <1>3, PTL DEF Spec, OperatorKeysSurvive

-----------------------------------------------------------------------------
(* As long as the operator appends, the wizard's entry stands first.       *)
StandsFirst(ks) == ks # <<>> /\ ks[1].id = "default"

Filed ==
    /\ keys \in Seq(Entry) /\ merged \in Seq(Entry)
    /\ hash \in [Id -> Secret \cup {NoSecret}]
    /\ pc # "idle" => secret \in Secret
    /\ sealed # NoKey => StandsFirst(keys)
    /\ pc \in {"dotenv", "config", "migrate", "migrating", "insert", "sync"} =>
          StandsFirst(merged) /\ merged[1].hash = secret
    /\ pc \in {"migrate", "migrating", "insert", "sync"} => keys = merged
    /\ pc \in {"insert", "sync"} => schema = "current"
    /\ pc = "sync" => hash["default"] = secret

LEMMA EntryIsPut ==
    ASSUME NEW ks \in Seq(Entry), secret \in Secret, ks = <<>> \/ StandsFirst(ks)
    PROVE  StandsFirst(WithNewEntry(ks)) /\ WithNewEntry(ks)[1].hash = secret
<1> DEFINE Put == [i \in DOMAIN ks |-> IF IsFirstDefault(ks, i) THEN NewEntry ELSE ks[i]]
<1>1. NewEntry.id = "default" /\ NewEntry.hash = secret
  BY DEF NewEntry
<1>2. CASE ks = <<>>
  <2>1. WithNewEntry(ks) = <<NewEntry>>
    BY <1>2 DEF WithNewEntry
  <2> QED
    BY <2>1, <1>1 DEF StandsFirst
<1>3. CASE StandsFirst(ks)
  <2>1. 1 \in DOMAIN ks /\ DOMAIN ks = 1..Len(ks) /\ Len(ks) \in Nat /\ Len(ks) > 0
    BY <1>3 DEF StandsFirst
  <2>2. WithNewEntry(ks) = Put
    BY <2>1, <1>3 DEF WithNewEntry, StandsFirst
  <2>3. IsFirstDefault(ks, 1)
    BY <1>3 DEF IsFirstDefault, StandsFirst
  <2>4. Put[1] = NewEntry /\ DOMAIN Put = DOMAIN ks
    BY <2>1, <2>3
  <2>5. Put # <<>>
    BY <2>1, <2>4
  <2> HIDE DEF Put
  <2> QED
    BY <2>2, <2>4, <2>5, <1>1 DEF StandsFirst
<1> QED
  BY <1>2, <1>3

LEMMA FiledStep ==
    ASSUME "front" \notin Operator, MaxRuns \in Nat, Typed, Filed, [Next]_vars
    PROVE  Filed'
<1> USE DEF Filed, disk, table, service, locals
<1>0. /\ keys' \in Seq(Entry) /\ merged' \in Seq(Entry)
      /\ hash' \in [Id -> Secret \cup {NoSecret}]
      /\ pc' # "idle" => secret' \in Secret
  BY TypedStep DEF Typed, TypeOK
<1>1. CASE UNCHANGED vars
  BY <1>0, <1>1 DEF vars, StandsFirst
<1>2. CASE Ask \/ Resolve
  BY <1>0, <1>2 DEF Ask, Resolve, StandsFirst
<1>3. CASE Merge
  <2> DEFINE there == IF sealed = NoKey \/ damaged THEN <<>> ELSE keys
  <2>1. there \in Seq(Entry) /\ (there = <<>> \/ StandsFirst(there))
    BY <1>3
  <2>2. secret \in Secret
    BY <1>3 DEF Merge
  <2>3. merged' = WithNewEntry(there)
    BY <1>3 DEF Merge
  <2>4. StandsFirst(merged') /\ merged'[1].hash = secret
    BY <2>1, <2>2, <2>3, EntryIsPut
  <2>5. keys' = keys /\ secret' = secret /\ sealed' = sealed /\ pc' = "dotenv"
    BY <1>3 DEF Merge
  <2> QED
    BY <1>0, <2>4, <2>5 DEF StandsFirst
<1>4. CASE WriteDotenv
  BY <1>0, <1>4 DEF WriteDotenv, StandsFirst
<1>5. CASE SaveConfig
  BY <1>0, <1>5 DEF SaveConfig, StandsFirst
<1>6. CASE InsertKey
  <2>1. Head(merged).id = "default" /\ "default" \in Id
    BY <1>6 DEF InsertKey, StandsFirst, Id
  <2>2. hash'["default"] = secret
    BY <1>6, <2>1 DEF InsertKey
  <2> QED
    BY <1>0, <1>6, <2>2 DEF InsertKey, StandsFirst
<1>7. CASE MigrateBegin \/ MigrateEnd \/ MigrateNothing \/ InitialSync \/ Abort
  BY <1>0, <1>7 DEF MigrateBegin, MigrateEnd, MigrateNothing, InitialSync, Abort, StandsFirst
<1>8. CASE AddKey
  <2>1. PICK s \in Secret : keys' = Append(keys, [id |-> "app", hash |-> s])
    BY <1>8 DEF AddKey
  <2>2. sealed # NoKey /\ pc' = "idle"
    BY <1>8 DEF AddKey
  <2>3. StandsFirst(keys')
    BY <2>1, <2>2 DEF StandsFirst
  <2> QED
    BY <1>0, <2>2, <2>3
<1>9. CASE Deploy \/ StartSync \/ Damage \/ \E i \in Id : Revoke(i)
  BY <1>0, <1>9 DEF Deploy, StartSync, Damage, Revoke, StandsFirst
<1> QED
  BY <1>1, <1>2, <1>3, <1>4, <1>5, <1>6, <1>7, <1>8, <1>9 DEF Next, Wizard

(* The wizard puts its hash in its own row: no run of it locks out the     *)
(* operator's application, if the operator's entry was appended.           *)
THEOREM OtherRowsKept ==
    ASSUME "front" \notin Operator, MaxRuns \in Nat
    PROVE  Spec => OperatorRowKept
<1>1. Init => Typed /\ Filed
  <2>1. Init => Filed
    BY DEF Init, Filed
  <2> QED
    BY <2>1, TypedInit
<1>2. Typed /\ Filed /\ [Next]_vars => (Typed /\ Filed)'
  BY TypedStep, FiledStep
<1>3. Filed /\ [Next]_vars => [pc = "insert" => hash'["app"] = hash["app"]]_vars
  <2> SUFFICES ASSUME Filed, Next, pc = "insert"
               PROVE  hash'["app"] = hash["app"]
    BY DEF vars, table
  <2>1. CASE InsertKey
    <3>1. Head(merged).id = "default"
      BY DEF Filed, StandsFirst
    <3> QED
      BY <2>1, <3>1 DEF InsertKey, Filed, Id
  <2>2. CASE ~ InsertKey
    <3>1. hash' = hash
      BY <2>2 DEF Next, Wizard, Ask, Resolve, Merge, WriteDotenv, SaveConfig, MigrateBegin,
                  MigrateEnd, MigrateNothing, InitialSync, Abort, Deploy, StartSync, AddKey,
                  Damage, Revoke, table
    <3> QED
      BY <3>1
  <2> QED
    BY <2>1, <2>2
<1> QED
  BY <1>1, <1>2, <1>3, PTL DEF Spec, OperatorRowKept

(* "the same id is visible in the YAML audit trail and in the database",   *)
(* after any runs broken off anywhere, if the operator appends.            *)
THEOREM KeysAreFiled ==
    ASSUME "front" \notin Operator, MaxRuns \in Nat
    PROVE  Spec => []KeyIsFiledOnce
<1>1. Init => Typed /\ Filed
  <2>1. Init => Filed
    BY DEF Init, Filed
  <2> QED
    BY <2>1, TypedInit
<1>2. Typed /\ Filed /\ [Next]_vars => (Typed /\ Filed)'
  BY TypedStep, FiledStep
<1>3. Filed => KeyIsFiledOnce
  <2> SUFFICES ASSUME Filed, pc = "sync"
               PROVE  schema = "current" /\ \E i \in DOMAIN keys :
                          keys[i].hash = secret /\ hash[keys[i].id] = secret
    BY DEF KeyIsFiledOnce
  <2>1. schema = "current" /\ keys = merged /\ StandsFirst(keys) /\ keys \in Seq(Entry)
    BY DEF Filed
  <2>2. 1 \in DOMAIN keys
    BY <2>1 DEF StandsFirst
  <2>3. keys[1].hash = secret /\ hash[keys[1].id] = secret
    BY <2>1 DEF Filed, StandsFirst
  <2> QED
    BY <2>1, <2>2, <2>3
<1> QED
  BY <1>1, <1>2, <1>3, PTL DEF Spec
=============================================================================
