# A verification of api-toolkit in TLA+

This directory holds TLA+ models of the parts of `aatuh/api-toolkit` that keep
state or run concurrently, the TLC configurations that check them on small
instances, and proofs, checked by TLAPS, of the properties that matter most for
every instance. The repository has no tests of its own; the models are written
from its Go source, and every definition that stands for code is mapped to its
lines in `PROJECT.json`.

## 1. The system

api-toolkit is a library. A service built on it starts in `bootstrap`: it opens
a pool, migrates the database, builds a router with a fixed middleware stack,
mounts health and docs endpoints and runs the server until its context ends.

| Component | State it keeps | Operations | What is hard |
|---|---|---|---|
| `migrator.Runner` and `migrate.Adapter` | loaded migrations and a flag, without a mutex; in the database the state table, the schema and an advisory lock | `Up`, `Down`, `Status`, `Close` | several processes deploy at once with different builds; the lock belongs to a pooled session; a commit and its record are two steps; every statement may fail, time out or lose its connection; the process may die |
| `middleware/ratelimit` | a token bucket per key behind one mutex | one request | the clock is read before the mutex, so stamps arrive out of order |
| `health.Manager`, checkers, handlers | checkers, a result cache, each behind its own lock | register, liveness, readiness, health, detailed health | the check runs between two locks; a slow probe overwrites a newer result; a probe that is cut short writes the cache of all |
| `txpostgres` over `pgxpool` | none of its own; connections of a bounded pool | `WithinTx`, `FromCtx`, `Exec`, `Query`, `QueryRow` | deferred release and rollback on every path; results that keep a connection; nesting takes a second connection; the outcome of a commit may be unknown |
| `bootstrap.StartServer` and the stack of `NewDefaultRouter` | the server's goroutines; per request a buffered inner goroutine | receive, refuse, answer, time out, recover, log, count, shut down | deadline, panic and completion race; log and metrics sit inside the timeout; shutdown races the listener and has a deadline of its own |
| `docs` | a provider, unsynchronised; files on disk that others change | register; serve the page, the OpenAPI document, the version, the info | registration while serving; a file that vanishes between `Stat` and `ReadFile` |
| `cmd/tester` | a directory of cached passes, shared with other testers | wait for the API, run the tests of each package or take a cached pass | a retry loop with a total budget; verdicts that outlive what they are about |
| `middleware/trace` | none; ids in a request's context and a header | one request | what one service sends, the next must accept |
| `endpoints` | none | parse a list query | a map ranged over in any order, three spellings of a filter |
| `envvar`, `config`, `validation`, `httpx`, `response_writer` | none | pure functions | string grammars |
| `maxbody`, `secure`, `cors`, `chi`, `clock`, `idgen`, `logzap`, `specs`, `ports` | none | constants, interfaces, delegation | nothing beyond the library they call |

How they interact: `bootstrap` calls the adapter, which calls one Runner per
process; processes meet only in PostgreSQL. The stack of `NewDefaultRouter` is,
from outside, request id, real IP, recover, CORS, security headers, rate limit,
body limit, JSON content type, timeout, request log, metrics, trace and the
routes. Health handlers call the manager, whose database checker pings the same
pool that `txpostgres` takes connections from.

What makes each component correct, in a sentence: migrations of different
processes exclude each other and the state table can be believed after any
failure; a key is never admitted more than its quota and never refused without
having used it; a health answer is neither stale nor without a cause; a unit of
work answers truthfully and no connection is lost; a request gets one whole
answer and the server stops when told to; a documentation answer has a source
that was there; a tester's verdict is about recent code and its wait ends; a
trace does not split between services that trust each other; a list query holds
what the request gave. `PROJECT.json` lists, under
`hazards`, the places in the code where this could go wrong.

## 2. The modules

| Module | Models |
|---|---|
| `MigrationFiles` | the pure part of `loadMigrations`: sources, file names, duplicates, order, one pass of the collecting loop |
| `MigrationLoader` | one Runner's load as a component, with retries after a failed pass (`MigrationSamples` has the sources it is checked with) |
| `Migrator` | Runners, their calls and pools, the session lock, the table and the schema, with faults (`MCMigrator` gives it builds and pools) |
| `SchemaLedger` | what migrating promises: a stack of versions, push the smallest missing one of a catalog, pop the top |
| `MigratorProofs`, `MigratorRecordProofs` | theorems: types and the lock; the state table, the schema and the ledger |
| `RateLimit`, `RateLimitProofs` | the token buckets, and theorems |
| `HealthStatus` | how statuses combine, in the three places the code does so |
| `Health`, `HealthProofs` | the manager under concurrent probes (`MCHealth`), and theorems |
| `TxPool`, `TxPoolProofs` | `WithinTx` and the facade over a bounded pool (`MCTxPool`), and theorems |
| `HttpServer`, `HttpServerProofs` | `StartServer` and a request's way through the stack, and theorems |
| `Docs` | `docs.Manager`: a provider registered at any time, and the search for an OpenAPI file |
| `WaitForApi` | `waitForAPI` in time |
| `TestCache` | the tester's loop over packages and its cache directory |
| `TraceContext` | the trace middleware in a chain of services |
| `ListQuery` | `ParseListQuery` |
| `Selection` | a loop that appends some elements of a slice to another one, as the loader and `ParseListQuery` do |
| `DataLemmas` | facts about naturals, sequences and finite sets that the proofs cite |
| `Parts`, `PartsProofs` | the parts that share no state, side by side (`MCParts` gives values), and theorems |

A definition called a *mutant* in its comment is a plausible mistake at that
place. Nothing uses it; `PROJECT.json` pairs it with the definition it
would replace and the property that then fails, which shows that the property
depends on the code.

### Migrator

A call stands at the statement named by `pc`. `Take` gives it a connection of
its process's pool (the idle one used last, as `database/sql` does, or a new
one), and the statement's effect and its answer are one step that puts the
connection back. So between two statements of one call another call of the same
process may take the connection, which is what makes the session lock delicate:
`holder` and `depth` are PostgreSQL's, `PutBackWith` and `Discard` say what the
pool does to the session. `pendingUp`'s panic is `QueryPanics`; `applyOne` is
`Exec`, `CommitUp`, `RecordOk` and, after a failure, `RecordFail`; `revertOne`
is `Exec` and `CommitDown`. The table is kept in the order of its upserts,
which stands for `applied_at`; the server's clock is assumed not to step back.
The effect of a migration's SQL is its version in `schema`; applying it again
is assumed to succeed (`CREATE TABLE IF NOT EXISTS`) or to fail, which
`MigrationFails` covers. `Seen` and the second branch of `ReadFiles` are the
data race on `r.migrations` when two goroutines share a Runner.

Faults, each enabled per run: failing SQL, a refused COMMIT, any other refused
statement, an unreadable file, the ten-minute timeout with a COMMIT or upsert
whose effect is unknown, a connection lost idle or in use, the process dying.
The unlock is a statement like the others and may be refused (`UnlockFails`):
`withLock` drops its error (migrator.go:365), so the call returns and the
session goes idle with the lock, where it stays until the pool is closed, the
process dies or the session is lost; other processes wait for it meanwhile.
`refused` is a history variable that counts such refusals, so that
`RefusalOnlyLeaks` can say that there is no other way to leave the lock behind.

### RateLimit

`Arrive` computes the key and reads the clock, `Decide` is the critical section
from `Lock` to `Unlock`. Tokens are counted in units of which `One` make a
token, so that a refill per tick may be a fraction of a token; float rounding
is left out. `window` is an interval of stamps chosen once and arbitrarily, and
`counted` the admissions in it, which makes a statement about all intervals an
invariant.

### Health

`Look` is the cache and checker lookup, `Check` the checker's reading, `Stamp`
the timestamp, `Store` the write under the cache lock; registrations, other
probes and time interleave between them. A checker that watches its context may
report a failure at any time, which covers the client going away, the probe's
timeout and the checker's own. A single check takes at most `CheckTime` ticks
and time does not pass it by; this is the three-second ping limit and the five-second
timeout of the manager. The detailed answer visits the names in any order.

A replaced checker is marked by what it leaves behind: `old` on a cached result
and on the result a probe that still holds it will store. `Uses` pairs what is
registered early with what may be replaced and which requests are made, so that
one run covers late registration and replacement without their product.

### TxPool

A caller's `stack` holds the calls it is in. `WithinTx` is `Acquire`, `Begin`,
the caller's own code (`InControl`: `Write`, nested `Start`), then `Commit` or
the deferred `Rollback`, then the deferred `Release`; the facade is `Run` and,
for `Query` and `QueryRow`, an entry in `open` until `CloseResult`. pgx and the
server are modelled as the package uses them: a failed statement aborts the
transaction, breaks the connection or, refused inside pgx, reaches neither; a commit of an aborted transaction is an error, `Release` closes a
connection that is broken or still in a transaction.

### HttpServer

A connection carries one request at a time. Outside the timeout middleware it
is answered by CORS, the rate limiter (an arbitrary refusal here; `RateLimit`
has the rule) or the JSON middleware; otherwise `Dispatch` starts the inner
goroutine, whose writes go to a buffer, and the serving goroutine waits for its
end, its panic or the deadline. `net/http`'s `TimeoutHandler`, `Shutdown` and
connection states are external and modelled as the code uses them. Handlers are
arbitrary: they set a status several times or never, write before or after,
panic, or never return. Informational statuses (1xx) are left out.

### Docs

The provider is an interface, two words. `Register` begins the assignment and
`Store` stores a word, in either order; `Compare` reads the type word to compare
it with nil, `Call` reads both again or keeps what it compared, as the build
may. A nil type panics (500, through the recover middleware), words of two
providers may do anything. `Stat` and `Read` walk the places a file may be at
while `Change` adds, removes or protects files; the five paths of the code are
`Places`. Requests change nothing, so one at a time stands for any number.

### WaitForApi

A state is a point of time: `TimePasses` moves the clock by any amount up to the
client's timeout or the end of the sleep, and the API comes or goes with it.
`Again` is the top of the loop: it reads `elapsed`, which `NotReady` uses after
the request to clip the sleep, as the code does. The backoffs come from a
table, since the power of 0.95 is rounded anyway. That the wait is bounded is
proved for any table; that an early API is found, for those in which an attempt
that may start in the first half of the budget and the sleep after it end within
it (`BackoffsAreShort`, which TLC evaluates on the numbers of the code).

### TestCache

A cache file is the time it was written. `Begin` is `LoadConfig` and `go list`,
`Hit` and `Miss` the look in the cache, `Test` the moment `go test` reads the
code, `Report` the result and its file, whose writing may fail; a tester may
`Die` at any step. The environment watches one package and pattern, any one,
chosen at the start: whether its tests pass changes from tick to tick, and
what others' tests yield is arbitrary. Two pairs of package and pattern have two
cache files; the code hashes the texts joined by a bar, so a text with a bar of its own,
or a collision of MD5, could give two of them one file, which is left out.

### TraceContext

Each service serves the request once: `Serve` is the middleware and the call its
handler makes with the header the middleware set. `Send` may drop or spoil the
header on the way, and the first client sends any header. An id is one of a few
values, zero, or malformed. `rand.Read` may draw zero.

### ListQuery

`Take` is one turn of the loop over the map, in any order. A key is its spelling
and its name; a name or a value is a text, a word that may be empty with white
space around it or not. `TrimSpace` takes the space away where the code calls
`strings.TrimSpace` (values, and names in brackets or after the dot) and nowhere
else: a plain parameter, an allowed filter and a required one are compared as
they are. What white space it is makes no difference to the code. The property
counts words with definitions of its own (`Spells`, `PlacesWith`), not with
`TrimSpace`.

### Parts

The rate limiter, the loader, the two halves of the tester, `Docs`, `ListQuery`
and `TraceContext` share no state with each other or with anything above, so no
interleaving between them can matter. `Parts` instantiates them for any values
of their constants and explores one at a time, chosen in the initial state by
`part`; the others rest. A property of `Parts` is the property of the same name
of the part's module. `MCParts` only gives values. What a part's run covers is
what it would cover alone. The step of a part is one action to TLC, so the run
by itself does not say that each action inside fires; each part was run alone
for that, and all of theirs do.

## 3. The runs

| Run | Shows |
|---|---|
| `Parts` | limiter: the quota of every interval, refusal only after a burst, refusals cost nothing. Loader, over all combinations of directories, repeated, blank or unreadable, and embedded files: a successful first load is exact and ordered, an ambiguous set of files is never loaded, naming a directory twice does no harm. Wait: it ends one request timeout after its budget, and finds an API that is up by half of it. Cache: an exit code of 0 speaks of recent code. Documentation: an answer has a source that was there. List: the filters are what the request gave. Trace: trusting services stay in one trace |
| `MigrationLoaderDuplicates` | **violation**: a retry after an unreadable file holds files twice |
| `MigratorSteady` | two processes with different builds, failing SQL and COMMITs: the table tells the schema, nothing is applied twice, the whole implements `SchemaLedger`, every call returns |
| `MigratorCrash` | two processes, any statement, the unlock included, failing or timing out, crashes: exclusion, only a refused unlock leaves the lock behind, recorded means in effect, no gaps among recorded versions, successful rows are not overwritten |
| `MigratorLossy` | one process that also loses connections and fails to read files: only a refused unlock leaves the lock behind, recorded means in effect |
| `MigratorShared` | two goroutines on one Runner, either of which may apply or revert while the other does, against another process: exclusion between the processes |
| `MigratorUnrecorded` | **violation**: a crash between COMMIT and record leaves a migration in effect that is not recorded |
| `Health` | healthy answers are recent, 503 has a recent cause, a replaced checker is forgotten in time |
| `HealthUnset` | **violation**: an empty status is answered with 200 |
| `TxPool` | one owner per connection, truthful answers, no circle of waiting callers |
| `HttpServer` | whole answers, honest records, every request answered, the server returns |
| `TesterOversleeps` | **violation**: after a slow request the tester sleeps past its budget |

The four violations are the `findings` of `PROJECT.json`: each contradicts a
comment or a document of the repository. `MigratorUnrecorded` has a practical
side: after such a crash the next `Up` applies the migration's SQL again. `AppliedOnce` and
`TableTellsSchema` are therefore stated of `MigratorSteady` only, where nothing
comes between COMMIT and record.

Disagreements of text and code that no run shows, because a model would only
repeat the line: of files with the same name in two directories "later files
[...] override earlier ones before parsing" (migrator.go:35-36), but the second
one is a duplicate and the load fails (446), which `Parts` samples (`Up2` and
`Up2x`) and `AmbiguityIsRefused` describes; each embedded file system "is expected
to contain a "migrations" directory" (migrator.go:38-40), but only its root is
listed and directories are skipped (431), so that one with just that directory
loads nothing and reports no error; `MigrationsDir` "will be appended to
MigrationsDirs" (migrator.go:32-33), but it comes before them; `main` says the tester waits indefinitely (main.go:292), the
wait has twenty seconds; `Options.SampledFlag` "defaults to 01" (trace.go:31),
but the zero value stays 00; the trace middleware "strictly validates"
(trace.go:28) a header of up to 200 bytes whose fields after the fourth it
ignores; `EnableHTML` and `EnableJSON` are set (docs.go:26) and never read. The
search for an OpenAPI file looks at one place after the other, so that it may
serve the minimal document although some file was readable at every moment;
`AnswerHasSource` therefore speaks of moments, place by place.

### Bounds

* Migrator: two processes are enough for the lock to be contended and handed
  over, three goroutines for two of them to share a Runner. Two versions show a
  first and a next migration and a gap; `MigratorSteady` has three, with one
  older than the last applied appearing late. `MaxCopies` = 2 tells once from
  more than once; `MaxDepth` bounds how often one session re-enters the lock,
  and blocks a call that would exceed it, which only `MigratorShared` and the runs
  with refused unlocks can reach: after a refusal the next call of that process
  enters the lock once more, and its unlock leaves the older level.
  Deadlock is not checked there because the lock left behind on an idle
  session can really block everyone.
* RateLimit: a bucket of two and a half tokens, one token refilled per tick: a
  fraction remains after a burst, and a stamp can be older than another by two
  ticks. Two requests at a time are enough for one to overtake another, and the
  clock bounds nothing but the length of a run.
* Health: the cache lasts one tick and a check at most one, so the properties
  speak of a window of two ticks, which is what the clock runs to: an entry is
  written late, expires and is replaced. Each checker may be replaced once. The
  two probes are symmetric. Of the results a probe has collected the model keeps
  what the answer depends on: what they amount to (`overall`), and for the
  detailed answer which of them there were (`found`); `MCHealth` lets TLC
  compare the two ways of combining up to four results.
* TxPool: `MaxHeld` = 2 allows a unit in a unit, an operation in a unit, or two
  open results; three connections are one more than the two callers can hold
  while both wait. Callers and connections are symmetric.
* MigrationLoader: `MaxHeld` stops retries once a Runner holds six files, more
  than any source set has.
* WaitForApi: ticks of half a second and the code's own numbers; the clock needs
  no bound, since the wait ends. With whole ticks a request or a sleep is off by
  less than one, as is a rounded backoff. The API is found up to 12.5 s of the 20;
  the property claims half.
* TestCache: two testers, one with two packages and caching on or off, one with
  the same pattern or another; the pair both may run is the one watched; a TTL and a test run of one tick each and a clock
  to three let a file age out after code and verdict have both changed. A test
  run that takes longer than `TestTime` would weaken the property by as much.
* Docs: two providers mix, two places show the search going on and ending. The
  history of the files is kept for a request that searches, and no other.
* TraceContext: four services, trusting and not, sampling and not.
* ListQuery: up to three parameters out of eight, in three spellings, their names
  plain, padded and blank, each with values that repeat a word with and without padding,
  or that are only white space; a required name may be padded or empty, an allowed
  one empty.
  `limit` and `offset` share one text, since nothing relates them.
* Parts: requests and keys of the limiter are symmetric. Deadlock is not checked
  because a wait, a load, a query and a chain end.
* HttpServer: two connections, one status other than the implied 200, one
  write: enough for a second status, a late write, and a shutdown with one
  request finished and one not. Deadlock is not checked because a server whose
  handlers hang has nothing left to do.

### Fairness

Safety runs assume none. `MigratorSteady` assumes that a started call keeps
running, as the Go scheduler and a live server provide, and strong fairness of
`AcquireLock`, because PostgreSQL queues the waiters of an advisory lock. No
one is obliged to call, fail or close. `HttpServer` assumes that
`StartServer` and the serving goroutines run and that time passes (the
deadlines of a request and of shutdown); nothing is assumed of handlers or of
the inner goroutine.

## 4. The proofs

Every theorem is about the specification the runs check (for the parts, the one
of `Parts`) and holds for every value of the constants that satisfies the
modules' named `ASSUME`s, which TLC evaluates in the runs. Those say what the
code takes for granted: options are numbers, durations naturals, a check or a
unit of tokens is not nothing, there are finitely many checkers and callers, a
source lists a sequence of files, a query has finitely many parameters, and the
tester's backoffs are short against its budget.
What a theorem assumes beyond them is in its statement. `PROJECT.json` lists the
theorems with the properties they state. Each rests on an inductive invariant,
proved step by step with a lemma per action; this is what each one adds to the
property, and why.

### Migrator

*Types* (`MigratorTyped`). `TypeOK` is not inductive: `record` takes a checksum
from the up file of the version at work, that version is the smallest of a set
that must not be empty, and an unlock subtracts from a depth that must not be
zero. `TypeInv` adds what makes these defined: versions a Runner holds and
versions a call has left have up files, a call between `exec` and its record has
something left, only an Up records, a call at `commit` has a connection, and the
lock is free exactly at depth 0. `Smallest` (a set of naturals has a least
element) is what the choice of the next version rests on.

*The lock* (`Excludes`, `LockReleased`), when a process runs one call at a time
(`OneCallPerRunner`, which is how the adapter is used). That two calls are not
inside together says nothing of the session. `LockInv` adds that a pool whose
process has one call never opens a second connection (`OneConnection`: it is
either in use or the one idle one) and that a call in the locked region has the
lock on exactly that connection (`LockIsOurs`). The step lemmas follow the three
things a statement can do to its connection: keep it (`KeepsConnection`), put it
back (`PutsBack`), close it (`Discards`). Exclusion also needs that no idle
connection is lost without notice (`IdleConnectionsLast`; without it the
property is false, for the pool replaces a lost session and its lock silently).
The release of the lock does not: `HeldInv` counts. A lock that is held is held by
a session of a live pool (`HolderLives`), once for each unlock the server refused
and once more if a call on that session is still going to unlock it (`Counted`),
and a session that breaks takes its lock and the count with it.

*A shared Runner* (`SharedRunnersExclude`), for goroutines that call one Runner
at once. The lock may then be taken again by the session that has it, and an
unlock may reach the server through another session, where it does nothing; so
what excludes the other processes is a count. `SharedInv` says that the lock is
held at least once for each call that took it and has not tried to unlock it
yet (`Debts`), on a connection of that process, and that no connection is in two
hands (`ConnectionsOnce`). It needs `PoolsKeepAll`, that a pool opens no more
connections than it keeps idle: otherwise it closes one that is put back, which
may be the session with the lock. `database/sql` keeps two, so this covers two
goroutines at a time; `ConnectionsLast` leaves out lost connections and timeouts
for the same reason. Refusals, panics and crashes are covered.

*The state table* (`RecordsAreSound`, `RecordHasNoGaps`, `SuccessesAreKept`),
with one call per process and `LockSuffices`: idle connections last, or a single
process migrates and needs no lock against another. For any failures, timeouts
with unknown effect and crashes. `RecordInv` adds that a call about to record success has its version in
the schema, which no other call can revert meanwhile because of exclusion, and
that rows and schema hold a version once. `HistoryInv` adds what a call has
decided from the table and still relies on: an Up has left
versions that are not successful, each once, and every smaller version of its
build is left too or successful, and a Down has left the one recorded last
(`WorkInv`); and that common versions were recorded in their order
(`OrderInv`), without which a Down could open a gap. The last two theorems need
`FilesReadable`: after a failed read a Runner holds files twice (a finding) and
may apply, and record, what is already successful.

*The ledger* (`TableIsExact`, `NothingIsAppliedTwice`, `RunnersImplementLedger`),
when the server refuses migrations and COMMITs but nothing else goes wrong
(`OnlyRefusals`); the runs with crashes show that they do not hold beyond.
`LedgerInv` adds that versions were recorded in the order they were applied, so
that the row a Down picks is the top of the schema, and that a version between
its commit and its record is that top. The refinement is then a step simulation:
initial states map to initial states, a commit of an Up is the ledger's push, a
commit of a Down its pop, every other step a stutter.

### RateLimit

`QuotaInv` (`Quota`): a bucket's `Worth`, its tokens less what the time up to its
last stamp could have refilled, never rises, whatever the order of stamps, and
every admission in the window lowers it by one token. `RefilledType` is the lemma
that a refill to any stamp, earlier ones included, does not raise it. The other
direction is `BurstInv` (`RefusedOnlyAfterBurst`): when every stamp counts,
`Worth` has fallen by no more than what the key was admitted, so an empty bucket
means a whole bucket was admitted. `RefusalsAreFree` compares a bucket refilled to
now before and after a refusal: a stale stamp moves `lastSeen` back and takes as
many tokens as the time it gives back.

### Health

`HealthInv` says of a cached result, of a result a probe has in its hands and of
what the results it has collected amount to, what event they stand for: a failure
or a fine reading no older than the check that met it, and which checker made it
(`Cached`, `Reported`, `Judged`); `Timing` bounds a check by `CheckTime`. A result
in the cache is dated by its stamp, which is not older than the event by more
than one check, and is served for `CacheDuration` after it: hence the window.

### TxPool

`PoolInv` tells a call's state from where it is (`CallInv`: a connection exactly
past Acquire, an answer exactly when the deferred Release is due, and nothing
durable before), every call but the innermost in its fn (`StackInv`), and ties
`taken` to its holders in both directions, one each (`Ownership`). `OneOwner`
counts holders, so it takes lemmas on cardinalities; `NoGridlock`
gives each caller `MaxHeld` - 1 slots, into which all that a waiting one holds
fits (`SlotsOfWaiting`, from `Bounded`), and counts pairs of callers and slots.

### HttpServer

`ServerInv` says that while an answer is open the buffer has every Write and the
recorders agree with it on the status (`BufferIsComplete`), that what was recorded
no longer changes (`RecordsFollow`), that an answer made of the buffer was made
after the handler's end (`AnswerFollows`), and that a connection used again starts
with nothing of its last request (`HandlerInside`).

### Parts

`StepsOrRests`: in a step of `Parts` each part takes a step of its own or rests, so
a part's invariant is proved of its own actions.

* `LoadsAreExact`, `AmbiguousNeverLoads`, `RepetitionsAreHarmless`: `LoaderInv` says
  that a Runner holds files of its sources only and that, when two files have one
  key, no load was complete. The rest is about the operators: what a chain of
  sources lists (`Flattened`), what a collecting loop leaves (`KeptLists`: each kept
  element once, in order), and that ordering files by how many come before each
  is a permutation that sorts them (`Ranked`, from the injection of positions into
  ranks). Directories kept once differ, so a file is listed twice only if it is
  there twice.
* `WaitsEnd`: a sleep could be set to end anywhere; `PhaseBounded` adds that a
  request is over `RequestTime` after the reading of the clock, and that a sleep
  ends by the deadline, because the clipped sleep is no longer than what that
  reading left of the budget and the reading is no older than `RequestTime`. For
  every table of backoffs.
* `EarlyApisAreFound`: `Prompt` says that attempt number n does not start before the
  backoffs before it have passed (`Earliest`), hence which backoffs an early attempt
  can draw; that a sleep begun in the first half of the budget ends before the whole
  of it; and that a request that failed was read before the API came up to stay.
* `ListsAreExact`: `FiltersOfSeen` counts, for each name and word, the positions of
  the word in the filter and the positions in the parameters the loop has come to,
  whichever they are: appending adds counts (`PlacesAdd`), and trimming and then
  dropping blanks leaves those of words (`ValuesKept`, `PlacesKept`). That the name
  the code cuts out of a key is the one it spells is `SpellsName`. At the end all
  parameters are seen.
* `PartsTyped` puts the types together from the invariants of the parts.
* `VerdictsAreRecent`: `CacheInv` says that the file of the watched pair is younger
  than the last pass by one test run at most (`FileBacked`), that a pass about to be
  reported happened in its run (`Passed`), and that a tester at work has the watched
  package before it or knows a recent pass of it (`AtWork`).
* `AnswersHaveSources`: `DocsInv` follows a request to its answer: what was compared
  was registered, and is so still unless something raced (`CallInv`); a search that
  came to a place found each of those before it not readable at some moment
  (`SearchInv`).
* `TracesStayTogether`: `ChainInv` says that a service's ids are valid and that what
  is under way is its header as sent, unless it was spoiled; with `SentParses` the
  next service takes its trace from it.

### Induction

The induction theorems of the library take an operator, which the provers cannot
instantiate. `DataLemmas` does without: `Smallest` comes from the well-foundedness
of inclusion on finite sets, and `Inductive`, which follows, says that a set of
naturals with 0 and every successor is all of them. A statement about n is then
a set of numbers, and what `FlattenSeq` computes is proved from it by way of the
recursive function it is made of (`LoopExists`, `Flattened`).

### Only model-checked

Liveness (`CallsReturn`, `RequestsAnswered`, `ServerReturns`): fairness and ENABLED
are out of the prover's reach. The violations are counterexamples and stay with
TLC. Every other property of the runs is a theorem, with two limits. Exclusion
between processes is proved for one call per process, timeouts included, and for
shared Runners without them, so a shared Runner whose calls time out is neither
checked nor proved. The theorems about the state table assume one call per process.

## 5. Not modelled

Values and texts: SQL, messages, log lines, header values, response bodies,
`exec_ms`, `Retry-After`. Float rounding in the limiter: a capacity between zero
and one, which admits nothing, is not instantiated. Eviction of idle buckets
(there is none). A server clock that steps back under `applied_at`. The calendar
order of versions of 8 and 14 digits mixed (numeric order is the model's). A second
`NewDefaultRouter` in one process, which would register its collectors twice.
The tester's coverage files and help. `NewListResponse`. The documentation
middleware that adds headers from `GetInfo`. What directory a path names: the loader
tells directories apart by their text, as the code does, so `m` and `./m` are two
sources with the same files, and such a load is refused as ambiguous. Environment variables,
configuration, validation and the adapters in `PROJECT.json` delegate to a
library or restate one of its calls; there is no state or order in them to get
wrong. The remaining components are listed in `PROJECT.json` with their reasons.

## 6. Plan

Order of work: the migrator (most state, most failure modes) first, then the
limiter, health, transactions, the server, and the tester, documentation, trace
and list queries. These are in place. Next:

1. Specify and prove: an abstract unit of work (all or nothing, or unknown) that
   `TxPool` implements, and an abstract answer that `HttpServer` implements, each
   with its step simulation over `PoolInv` and `ServerInv`.
2. Model: `HttpServer` with the buckets of `RateLimit` in place of its arbitrary
   refusal.
