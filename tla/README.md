# Gateway Login: specifications

The gateway keeps a copy of an HR table and serves it over HTTP. `svc-sync` copies changed
rows of `sja.m_karyawan` (MySQL, on a VPS) into `karyawan` (Postgres), driven by a watermark on
`updated_at`; `svc-api` answers requests that carry an API key and limits their rate in Redis;
`svc-setup` writes the configuration, the master key and the first API key. These modules model
that program, TLC checks them on small instances, and TLAPS proves the properties that matter
most for every value of the constants. `PROJECT.json` lists components, runs, hazards, the lines
each definition stands for, and the theorems.

    tlc -workers 2 -config syncer_core.cfg MCSyncer     # a run (see the table of runs)
    tlapm SyncerRefinement.tla                          # the proofs of a module

## 1. The system

| Part | State it keeps | Operations | Talks to |
|---|---|---|---|
| sync run (`internal/sync`, `internal/vpsmysql`, `karyawan.Upsert`) | `karyawan`, `sync_state` (watermark, last status), `sync_runs`; a transaction with the advisory lock | `SyncKaryawan`, `markRunFailed`, `readWatermark`, `CleanupStaleRuns`, `FetchKaryawanUpdatedSince` | MySQL (reads), Postgres over two connections |
| svc-sync daemon (`cmd/sync`) | schedule, live runs, pool of connections | start, cron tick, deadline, signal, deferred closes | starts runs; shares the advisory lock with `svc-setup` |
| list and get (`internal/api`, `internal/karyawan`) | none of its own; reads `karyawan` | `List` (count, then page), `Get` | Postgres, while the daemon writes |
| rate limiter (`internal/redisx`, `api.RateLimit`) | one counter with an expiry per key and window, in Redis | `Allow` (clock, then a Lua script), the decision, fail open | Redis, shared by the replicas of the api |
| setup wizard (`cmd/setup`, `internal/setup`, `internal/store`) | `.env`, `config.yaml`, `schema_migrations`, the row in `api_keys` | `RunPromptFlow`, `runMigrations`, `insertAPIKey`, initial sync | files that svc-sync reads whenever it starts; an operator edits them |
| api key check (`internal/apikey`, `api.APIKeyAuth`) | `api_keys` (hash, revoked, last_used_at) | lookup at every request, detached `MarkUsed` | Postgres, through the pool of the api |
| api process (`cmd/api`, `internal/server`) | requests in flight, the pool's connections | start, requests with a timeout, signal, `Shutdown`, deferred `Close` | calls the key check, the limiter and the handlers |
| bootstrap, configuration, logging; encryption; migrations | - | straight-line start-up: decides whether a process comes up | - |
| deployment, update and backup scripts, containers, proxy | - | docker, git, ssh, pg_dump commands | - |

What makes each one hard, and what makes it correct:

* **Sync run.** Runs overlap: cron starts one whatever became of the last, and svc-setup starts
  one from another process. Only the advisory lock, held by the run's transaction, orders them;
  but the rows and the read of the watermark go through *other* connections and are not part of
  that transaction. Statements fail, the ten-minute deadline strikes, the process dies, a reply to
  COMMIT is lost, the lock's connection is dropped, an upsert is executed after its caller has
  gone. Correct: nothing behind the watermark is ever missing from the mirror (it would be missing
  for good), rows never go back, the watermark only moves forward and only with a recorded
  success, no run stays `running`, and the mirror catches up.
* **Daemon.** Every overlapping run holds a connection while it waits for the lock and the run that
  has the lock needs a second one, from the same pool. Correct: the overlap is bounded, the holder
  is served or at least everything ends, and a signal ends the process.
* **List and get.** Two queries per request and many requests per walk, with writes between any
  two. Correct: a complete walk misses nobody who was there all along, and terminates; the two
  queries of a request agree.
* **Rate limiter.** Clocks of replicas differ, the script is repeated or its reply lost, Redis
  forgets. Correct: a window gives no more leaves to pass than the limit (twice the limit where a
  clock that is ahead had the counter made early), denies nobody before that many are given (one
  that is lost with its reply, and asked for again, is gone all the same), leaves no counter behind.
* **Wizard.** Two files, a schema and a row, written one after the other, run after broken-off run,
  with an operator in between, who also takes the key to the service (nothing else does), and a
  service that may be started in the middle. Correct: the key on disk is the one that sealed the
  file, a service that has come up with its key does so again; other applications' keys stay; no key
  is filed in half a schema.
* **Api process and key check.** A key is revoked or replaced while requests that carry it are under
  way; a request leaves a goroutine behind that writes to the row it was let in by; statements hang
  and fail, clients leave or do not read what they are answered, the pool is exhausted; an UPDATE is
  executed after the goroutine that sent it has gone; on a signal requests are waited for, but not for
  as long as they may take, and a connection accepted before may bring one yet; then the pool is closed
  under them. Correct: what a request is answered fits its key at some moment since it arrived and no
  failure is taken for a bad key; no goroutine waits long for the detached write; every request comes
  to its answer (how long the client takes to read it is not bounded by anything); a signal cuts none
  before the grace period is over and ends the process within a known time.

## 2. The modules

| Module | What it is |
|---|---|
| `VpsSource` | the source table and the incremental query: order, limit, strict comparison |
| `Syncer` | `SyncKaryawan` statement by statement, for any number of overlapping runs, with faults |
| `Mirror` | what the sync promises, without runs, locks and transactions; `Syncer` implements it |
| `SyncDaemon` | the process around the runs: schedule, deadlines, connections, lock, shutdown |
| `RateLimit` | `Allow`, its script, and what the middleware makes of the answer |
| `Setup` | the wizard, the two files, the schema, the key table, starts of svc-sync, the operator |
| `Gate` | what the api promises of keys, without connections, deadlines and process; `Gateway` implements it |
| `Gateway` | the api process: requests in flight, the key check, the detached mark, the pool, shutdown |
| `KaryawanApi` | the list's two queries, an application walking through it, `Get`, the writes |
| `MC*` | instances for TLC: symmetry sets and constants; they define nothing else |
| `SyncerProofs`, `SyncerRefinement`, `MirrorProofs`, `SyncDaemonProofs`, `RateLimitProofs`, `SetupProofs`, `KaryawanApiProofs`, `GatewayProofs` | theorems |

`Syncer` extends `VpsSource` and instantiates `Mirror` with a refinement mapping, `Gateway` does so
with `Gate`. `SyncDaemon` is
about what a run holds and waits for, `Syncer` about what it does to the data; they share the
sequence of statements and are kept apart because their products would not fit TLC and no
property spans both. `Gateway` stands to `KaryawanApi` and `RateLimit` as `SyncDaemon` to `Syncer`:
it has the process, the others what the limiter counts and what the queries return.

How state and actions correspond to the code:

* **Syncer.** `pc[w]` is the statement a run executes next; each statement sent to a server is one
  action. `open`, `pendRun` and `pendState` are the transaction: whether it is alive and what it
  has written to `sync_runs` and `sync_state`; `MakeVisible` publishes all of it at `Commit`.
  `mirror`, `wm`, `status` and `audit` are the committed tables. `holder` is the owner of
  `pg_advisory_xact_lock`. `maxTs` and `todo` are the locals of the loop. A row is reduced to which
  write produced it (`ver`) and its stamp (`ts`): no decision of the code depends on more. A
  failed statement in the transaction can only roll back (Postgres refuses everything after it, so
  `markRunFailed` and the "best effort" commit change nothing): `TxStatementFails`. A failed
  statement outside it goes to `MarkRunFailed` and commits the failure: `PoolStatementFails`.
  Expiry of the deadline and death of the process are one action, `Kill`: in both the transaction
  rolls back and the upsert under way is executed or not. `loose` and `marks` are history, for the
  properties: which faults have struck that let a statement outlive its lock (`stray`, an upsert
  executed for a caller that has gone; `lockloss`, the connection that holds the lock dropped), and
  the values the watermark has had. Promises that such a fault ends are stated as holding *until* it
  has struck, in the behaviours in which it may.
* **VpsSource.** `FetchKaryawanUpdatedSince` is `WHERE updated_at > ? ORDER BY updated_at,
  NIK_HRIS LIMIT BatchSize`, as a set comprehension. The source stamps its rows by its clock;
  `StrictSource` says whether two writes may share a stamp, and with the fault `late` a transaction
  commits after one that stamped its rows later (`SourceWriteLate`; `late` keeps whose row that is).
* **SyncDaemon.** Ticks stand for time; what is due happens before the next tick. `tx` and `extra`
  are a run's two connections. `main` follows the deferred closes of `main` in order.
* **RateLimit.** A window is named by its start where the code divides; the two name the same
  windows. `now` is the clock that is furthest behind, and a call reads any time up to `MaxSkew` ahead
  of it. `passed`, `lost`, `onTime` and `early` are history, for the properties only: leaves to pass
  that calls have, leaves that were lost with their reply and asked for again (`Retry`), leaves given
  while some clock has it that the window is not over, and windows whose counter was made before they
  had begun on the slowest clock. The last two begin anew when Redis loses its counters. A script that
  runs when its window is over for everybody is not counted in `onTime`, a call that fails open
  (`FailOpen`) passes without asking the counter.
* **Setup.** Both files are renamed into place, so one action writes one. `Abort` stands for every
  error return and for a kill, at every step. `schema` is what golang-migrate keeps: a version is
  marked dirty, its migration run, and marked done (`MigrateBegin`, `MigrateEnd`); on a dirty schema
  `Up` is an error. `deployed` is the key in the environment of svc-sync's container: what the
  operator has put there, any key or none, at any moment (`Deploy`). docker-compose.yml takes it from
  the host's environment, nothing takes it there from the wizard's `.env`. `CanStart` is what
  `config.Load`, `store.Load` and `NewClientFromStoreConfig` ask before svc-sync is up.
* **Gateway.** `stage[r]` is where a request is: `new` is a connection whose header has not been read
  (`Arrive` reads it, and asks for no more than that: the listener may be closed meanwhile), `lookup`,
  then `known` or `unknown` when Postgres has answered and the answer is on its way, `limit`, `count`
  and `read` (List has both queries, Get the second), and `writing`, when the handler has its answer
  and the client has yet to take it (`Written`, for which there is no deadline). `conn[r]` and
  `mark[r] = "sent"` are the connections it and its goroutine hold. Deadlines are counted in ticks,
  `age` against the ten seconds of `ReadHeaderTimeout` and then the fifteen of `middleware.Timeout`,
  `markAge` against the goroutine's two, `since` against the ten of `Shutdown`; what is due happens
  before the next tick. `main` follows `main`: up, draining (`Shutdown`), closing (the deferred
  `Close`, which waits for the pool's connections in use), down. A goroutine that fails, gives up or
  goes with the process leaves the UPDATE it has sent behind (`Outlive`): the row joins `strays` and
  Postgres executes it at any later moment (`StrayMark`), as often as it likes. `seen`, `ended`,
  `late` and `answer` are history, for the properties: whether the key was good and was not while it
  was checked, how long a row has been revoked, which rows were marked when that was long, what the
  request got. `key` is kept only while the key is judged. In `Gate` a request is judged (`Judge`,
  which is `Lookup` here), let in (`LetIn`, `Admit`), answered (`Respond`) and its mark settled
  (`Settle`); everything else is a stutter. `Verdict` maps the stages.
* **KaryawanApi.** `Count` and `ListPage` are the two queries. `TakeAnswer` is the application,
  which steps by the limit of the answer until a page is short. Requests do not write, so that one
  walk is enough. One filter on a column stands for the six that take a value.

## 3. The runs

| Run | States | What it shows |
|---|---|---|
| `syncer_core` | 484,508 | two runs, three employees, batches of two, four writes, one fault (failed statement, kill, lost commit reply): runs are serialized, `Syncer` implements `Mirror` (so nothing is missing behind the watermark: `AlwaysCovered`), and under fairness the mirror ends up equal to a source that rests |
| `syncer_faults` | 819,054 | every kind of fault, two of them, stamps that repeat and come late: no `running` row, success means recorded, the watermark is monotone and moves only with a success; and until a statement outlives its lock no row goes back and only elusive rows (of a second at which the watermark has stood, or late) are missing behind the watermark |
| `syncer_ties` | violation | two rows of one second with a cut between them: the mirror never catches up |
| `daemon` | 64,204 | bounded overlap, the lock's holder is served while connections outnumber runs; even when they do not, every run ends and a signal ends the process |
| `daemon_stop` | violation | at a signal the source is closed under a scheduled run without any wait |
| `rate_limit` | 7,671,064 | overlapping, failing, repeated calls, differing clocks, a Redis that forgets; the two leaves of a window become four where the clocks differ, and no more |
| `setup` | 159,896 | four runs of the wizard broken off anywhere, svc-sync given any key and started at any moment, an operator who appends an entry, revokes keys, spoils the file |
| `setup_env_key` | violation | a key in the environment comes before the one in `.env` and replaces it |
| `setup_first_entry` | violation | the new hash is put in the row of whatever entry stands first |
| `gateway` | 469,820 | two requests and their goroutines over two connections, one key revoked or replaced, statements, Redis and clients that fail, hang, come late or leave, UPDATEs that outlive their goroutine, signals and crashes: the promises about answers, marks and shutdown, and `Gateway` implements `Gate` |
| `list` | 225,101 | walks through three rows in pages of one and two with writes anywhere |
| `list_status` | violation | every request with `status_aktif` is answered 500 |

Bounds, and why they are enough:

* Two runs are every pair of overlapping runs; a third would wait for the same lock. Three
  employees and a batch of two cut a fetch and leave a row behind; a batch of one, with two
  employees, cuts every fetch of two. Four writes leave room for writes before, between and after
  the statements of two runs. One fault reaches every error path; two (`syncer_faults`) let a run
  that lost its lock meet another that fails. The proofs remove these bounds.
* Four slots for runs are one more than the deadline lets live (interval 2, deadline 4), so that
  `OverlapIsBounded` is not true by lack of slots; a pool of three can be held entirely by
  waiting runs. The code has ten connections, and an interval of five minutes to a deadline of ten.
* Limit 2 and window 3 ticks with five scripts and five ticks of time: a window can be filled and
  overrun and a second one entered, and a delayed script can meet a counter that has expired. Clocks
  that differ by a tick let a counter be made early, expire inside its window and be filled again:
  both sides of `LimitPerWindow` are reached.
* Three keys and three secrets: at most two master keys are on disk or deployed at a time, and a
  fresh one is always to be had. Four runs of the wizard: make, break off, repeat, repeat.
* Two requests with a goroutine each want up to four connections of two, so that requests and marks
  wait for each other; one key, changed once, is good, revoked or replaced for either of them.
  A request may take two ticks, its header, the grace period and a mark one each: as in the code (15,
  10, 10 and 2 seconds) the header's timeout and the grace are the same, a request may outlast the
  grace, and a mark made at its end may outlast the pool. At first the row is for one key (`Issued`);
  requests bring two. Longer times only add ticks in which nothing new is due.
* Default limit 1 and maximum 2 with requests for 0, 2 and 3: below, in and above the range.

`CHECK_DEADLOCK FALSE` in the setup runs only: the wizard has a bounded number of runs and the
operator may be done. Symmetry is used in runs without liveness, over runs, calls, keys and
secrets.

Fairness:

* `Syncer`: a goroutine that can execute its next statement does (`Step`), a slot starts a run
  again and again because cron does (`Begin`), a statement on a closed connection returns
  (`FindTxGone`). Nothing is assumed of faults, of the source or of `CleanupStaleRuns`.
* `SyncDaemon`: goroutines run, timers fire, time passes, svc-setup's own sync comes to an end
  (it is a single call that has no schedule). Signals and crashes are not assumed. Weak fairness
  only: nobody is promised the lock, a run that never gets it ends by its deadline.
* `Gateway`: one weak fairness, that what is due happens or time passes. Due is what a timer ends: an
  expired context a statement, a wait for a connection or a call of Redis (`GiveUp`, `Done` with
  `Pass`, `MarkGivesUp`), `ReadHeaderTimeout` a connection without a request (`Unheard`); and
  `Shutdown` and `Pool.Close` return when they may (`ClosePool`, `Exit`). That Postgres or Redis ever
  answer is not assumed, nor signals, nor clients that send, read or stay.
* `KaryawanApi`: requests are answered and the application asks for the next page. Failures are
  bounded, writes are not.

## 4. The proofs

All are for any number of runs, employees, calls, keys and rows, and any bounds.

**Types, lock and bookkeeping (`SyncerProofs`).** Without any assumption, under every fault:
`TypeCorrect`, `Serialized`, `RunningNeverLeaks`, `SuccessAlwaysRecorded`,
`WatermarkNeverMovesBack`, `WatermarkMovesWithSuccess`, `MirrorNeverAhead`. `LockInv` says that the
lock's holder is the one run past the lock statement whose transaction is alive, and unlike mutual
exclusion itself it survives a lost connection; mutual exclusion (`Serialized`) needs `Connected` as
well and lasts until a connection has been lost. `RecordInv` relates what a transaction has written
to where its run is. `WatermarkInv` says that what a run with a live transaction has read is not
older than the committed watermark: while it lives nobody else can move it, and only a live
transaction can commit, so that a run that lost its lock cannot move it back. `AheadInv` says of
every row that is in the mirror, in a run's hands or under way that the source has it or had it
(`NotAhead`), and that no stamp is ahead of the source's clock: so nothing a stray upsert can do
puts anything into the mirror that was never in the source, and the watermark does not pass the
clock by which later rows are stamped.

**The watermark (`SyncerRefinement`).** `NoGapBehindWatermark` and `RowsNeverGoBack` hold without
any assumption on the source or the faults, in every state up to the first in which a statement has
outlived its lock. That limit is real: after it an upsert may land anywhere. So is the exception
for elusive rows in the first: `syncer_ties` shows a row of the watermark's second missing for ever,
and without `late` in `Elusive` TLC finds one that came late. The inductive invariant is

    IInv == TypeOK /\ LockInv /\ Connected /\ RecordInv /\ WatermarkInv /\ AheadInv
            /\ (loose = {} => GapInv)

and the heart of `GapInv` is `TodoInv`: whatever the source holds up to the stamp of a row still to
be upserted is in the mirror, elusive, or still to be upserted itself. This is what makes an upsert
preserve "complete to `maxTs`" (`ReachedInv`), although the source is written between any two
upserts and the batch was cut. The cut itself is `FetchIsABatch`, about the query for every table:
it returns as many rows as there are or LIMIT allows, and none that it leaves out comes before one
that it returns. It rests on `RankBijection` (to number rows by how many come before them leaves no
gap). `NothingNewMeansEqual` draws the consequence for an application: a sync that finds nothing to
do is right to. `SyncerImplementsMirror` assumes that the source's stamps are distinct and in order
(`Orderly`) and that no fault can make a statement outlive its lock; steps of a run that touch no
row, and commits that publish a failure, are stutters of `Mirror`, an upsert is `Copy`, the commit
of a success `Advance`. Both assumptions are needed, as the same examples show.

`MirrorProofs` shows that the abstract specification keeps its promise (`AlwaysCovered`), for rows
that carry stamps (`RowsAreStamped`).

**Rate limiter (`RateLimitProofs`).** Under every fault. `LifeInv` (a counter's life ends no later
than a window from now, and not before its own window is over for the clocks furthest ahead) gives
`CountersExpire` and, with `CountInv` (leaves given while the window lasts are counted by the live
counter, or by one that was made early and has expired since; there is at most one such, because a
counter made after the window has begun lasts until it is over), `LimitHolds`. `MaxSkew` is at most a
window there. `Justified` (a counter above the limit, or a call that has been told so, has its leaves
on record, passed or lost) gives `DenialsJustified`.

**Daemon (`SyncDaemonProofs`).** `HoldInv` (a run past the lock holds it until it ends, a second
connection is had under the lock only) and counting give `HolderServed`: nobody but the holder has
two. `Spaced` (the ages of two live runs lie an interval apart, and none is younger than the
schedule's last start) gives `OverlapBounded`: age divided by interval is a different number for
every run, and there are `Timeout \div Interval + 1` numbers to be had (`LiveAreFew`). Two consequences:
with more connections than that nobody waits for one at all (`PoolSuffices`; the code has ten, and
three runs at most, so that `HolderServed` is not all that its users get), and with at least that
many slots the model's finite `Run` loses no start that the schedule would make (`SlotsSuffice`).
`TypeCorrect` includes the bound of the pool.

**Wizard (`SetupProofs`).** Three theorems say what becomes of the master key when
`GATEWAY_MASTER_KEY` is the same whenever the wizard is started, never set or always set to one key
(`OneEnvironment`): the key that sealed `config.yaml` is in `.env` (`SealedKeyKept`), a key that
svc-sync has come up with opens whatever is on disk from then on, for as long as its container has it
(`DeployedKeyAlwaysFits`, which assumes nothing of how it came there), and the key in `.env` never
changes (`KeyNeverChanges`, the property that `setup_env_key` refutes when the environment
changes). They rest on `OneKey`: a run's key is the one in `.env` if there is one, is that of the
environment if that has one, and is in `.env` before the file is sealed with it; a svc-sync that has
come up has the key the file is sealed with. `OtherRowsKept` and
`KeysAreFiled` assume that operators append their entries: then the wizard's entry stands first
(`Filed`), which is where `insertAPIKey` looks. `OtherKeysKept` needs no such assumption (`Kept`: the
configuration merged is that of the file, nobody edits it meanwhile); nor do `RevokedForGood` and
`TypeCorrect`.

**Api process (`GatewayProofs`).** For any number of requests, rows, keys and connections and any
timeouts, under every fault. `SeenInv` follows what a key has been from the lookup to the answer
(`NobodyElseIsServed`, `FailuresAreNoRefusals`). `MarkInv` bounds the time since a revocation by the
age of the request that knows the row and then by that of its mark, so that a row marked later than
that is one of which an UPDATE has outlived its goroutine (`MarksAreRecent`). `StopInv` says that a
connection that has not sent its request after the signal is at least as old as the signal, that a
request is younger than the signal by no more than the header's timeout or the grace, whichever is
shorter (`Latest`), and that once the pool is closed the grace period is over and a mark which still
holds a connection was begun in it (`GraceIsKept`, `EndsInTime`). `GatewayImplementsGate` maps every
step to one of `Gate` or to a stutter (`StepGate`): the query of the lookup is the one moment at which
the table matters, and connections, deadlines, the pool and the shutdown change nothing in what is
then let in, marked and answered. `TypeCorrect` includes the bound of the pool.

**List (`KaryawanApiProofs`).** `TypeCorrect`, `WalkIsComplete`, `PageAndTotalAgree`,
`ListedStaysFound`, `StatusIsRefused`, `AnsweredWithoutStatus`. The facts about LIMIT and OFFSET are
lemmas about `Rank`: rows that are added never move another row up (`RankGrows`), and the first k rows
are k or all (`UptoSize`). `WalkInv` says that what the walk has yet to be shown lies beyond what it
has reached, unless a row has left the filter. `StatusIsRefused` says exactly what `list_status`
finds: of the requests no query of which fails, those with `status_aktif`, and no others, are answered
500; an application that leaves the parameter alone is always answered (`AnsweredWithoutStatus`, which
assumes no more than that).

**Only model-checked.** Liveness (`Converges`, `EveryRunEnds`, `ShutdownCompletes`, `WalkEnds`,
`EveryHandlerEnds`, `SignalEnds`), which is outside this prover's reach.

## 5. Where code and text disagree

Shown by a run:

* `vpsmysql/client.go:112`: rows that share the second of the last row of a batch, or are written
  after the fetch within it, are never fetched (`syncer_ties`); README.md:32 promises a mere delay.
* `cmd/sync/main.go:80`: `c.Stop()` does not wait, so neither does the process; the fifteen
  seconds of line 83 are never used (`daemon_stop`).
* `cmd/setup/apikey_insert.go:21`: the row is chosen by position (`setup_first_entry`), against
  docs/SETUP.md:132.
* `setup/setup.go:225`: the key of the environment comes before that of `.env` (`setup_env_key`),
  against the comment at `setup.go:163`. With another key in the environment the file is resealed
  under a service that holds the old one, and a run broken off between the two files leaves a `.env`
  that does not open `config.yaml`.
* `karyawan/repo.go:120`: a clause without a placeholder is given an argument (`list_status`).

Read in the code while modelling, and not given a run:

* README.md:70 says the lock keeps two runs from touching the resource at once. The upserts do not
  run on the connection that holds it: when that connection is dropped, another run works beside
  the first. `OneRunAtATime` promises nothing from then on, and TLC finds the overlap when it does.
* README.md:66 promises a full audit trail. A run whose deadline expires, and one whose transaction
  fails, roll back their own row in `sync_runs`; nothing tells of them afterwards.
* `sync.go:162` calls the commit after a failed final UPDATE "best effort: keep the watermark": it
  can only roll back, and the run is repeated from the old watermark.
* docs/API.md:227 calls the window "per UTC second"; it is a minute (`middleware.go:80`).
* In the wizard, a `config.yaml` that does not parse is replaced and the operator's entries
  with it (`setup.go:247` and docs/SETUP.md:132); a `default` key that was revoked stays revoked
  when the wizard prints a new one for it (`apikey_insert.go:47` and docs/SETUP.md:105); a rotation
  ends the old key at once, before the applications have the new one (docs/API.md:464).
* docs/SETUP.md:114 says of a wizard that is interrupted that partial writes are not committed. Each
  file is whole, but they are written one after the other: `.env` may be there without
  `config.yaml`, both without the row, and a migration that was interrupted leaves a schema marked
  dirty, on which every further run ends with an error until it is repaired by hand.
* An error in reading `.env` counts as no key there (`setup.go:227`): a fresh one replaces it.
* `cmd/api/main.go:43` avoids `os.Exit` outside `main` because it would bypass the deferred `Close`;
  line 56 is in `main` and bypasses it as well. The process is gone and its connections with it
  (`Crash` in `Gateway`).
* The api may need twenty-five seconds after a signal (`GoneInTime`: the shorter of header timeout and
  grace, then a request's timeout, because a connection accepted before the signal may bring a
  request while `Shutdown` waits); docker kills it after ten, the compose files give no
  `stop_grace_period`.
* `cmd/api/main.go:36` sets no `WriteTimeout`, and `middleware.Timeout` cancels a context without
  touching the connection: a handler that writes to a client which does not read waits for as long as
  that lasts. It holds no connection of the pool by then, and `Shutdown` gives it up after ten seconds.
* README.md:69 and docs/API.md:225 give a key 300 requests per minute. Where the clocks of two
  replicas differ, the one ahead can have the counter made before the other's window begins; it
  expires inside that window and starts anew, so that the window gives up to twice the limit, and no
  more (`LimitPerWindow`). A script that is delayed beyond its window, one that starts anew when Redis
  has lost its counters, and calls that fail open come on top.
* docs/SETUP.md:179 names `deploy/.env` as the file in which the wizard leaves the master key, and
  docs/SETUP.md:119 as the one that has to fit `config.yaml`. The wizard writes its `.env` beside
  `config.yaml`, in a volume; no compose file reads it there. docker-compose.yml:56 and 76 take
  `GATEWAY_MASTER_KEY` from the host, so the operator has to copy it. docker-compose.prod.yml:135 and
  182 give `GATEWAY_MASTER_KEY_FILE` instead, with a secret that `deploy/bootstrap.sh:36` has made at
  random and that no program reads: `config.Load` (config.go:35) wants `GATEWAY_MASTER_KEY`, so that
  neither service starts from that file as it is. That `setup.go:288` speaks of the key "deployed
  api/sync containers already loaded" is true of containers somebody has given that key
  (`DeployedKeyFits`).
* docs/API.md:158: pages computed from `total` assume that nothing is written meanwhile.
* The sweep of stale runs at start finds nothing: no committed row is ever `running`
  (`RunningNeverLeaks`).

## 6. Limits of the models

* A row that becomes visible in the source behind the watermark (late, or in its second) stays
  missing until it is written again; the gateway cannot know. What is modelled and proved is that
  nothing else goes missing with it.
* Deletions in the source are never mirrored by this program and are not in the model.
* A stray upsert (executed for a caller that has gone) may set a row back until that employee
  changes again, as may a run that goes on without its lock: `RowsNeverGoBack` and
  `NoGapBehindWatermark` end there. `syncer_faults` shows, and `MirrorNeverAhead`,
  `WatermarkNeverMovesBack` and the theorems about the records prove, what holds in spite of it.
* `RateLimit` has one key; keys share nothing.
* `KaryawanApi` leaves authentication and the rate limit out; both only decide whether a handler
  is called.
* `Gateway` has one key per request and one table of keys; replicas of the api share only Postgres
  and Redis, and `RateLimit` has them. `/healthz` and `/metrics` touch no state and are left out.
* In `Setup` an operator edits `config.yaml` only while no wizard is at work, `.env` can be read when
  it is there, and two wizards are not run at once.
* Encryption is modelled by what it decides: a file opens with the key that sealed it and no other,
  and a fresh key is none that was used.
* The operator's part in the deployment is any part: `Deploy` gives svc-sync any key or none. That the
  wizard's key reaches it is nobody's promise and nothing here says so.
* An UPDATE of `last_used_at` that has outlived its goroutine is executed whenever Postgres comes to
  it; `MarkedSoonAfter` is about all others.
* `RateLimit` bounds what a window gives while it lasts on some clock; what a delayed script is given
  afterwards is not bounded by it.
* Not modelled: logging and configuration defaults, and everything that is a sequence of external
  commands (`update.sh`, `deploy/`, backup, compose files).

## 7. Plan

1. Done: `VpsSource`, `Syncer`, `Mirror`, `RateLimit`, `SyncDaemon`, `Setup`, `KaryawanApi`,
   `Gateway`, `Gate`, and the proofs named above: every invariant and action property that a run
   checks is a theorem too, both refinements included.
2. The limiter as an implementation of an abstract counter per window, and the wizard with a `.env`
   that cannot be read (`setup.go:227`).
3. `Update`: the order of containers and migrations in `update.sh`.
