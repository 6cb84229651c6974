# Verification of the FastAPI boilerplate

TLA+ modules for the concurrent core of this repository, the TLC
configurations that check them on small instances, and TLAPS proofs for every
value of the constants. Paths of the code below are relative to
`src/src/app/`, unless they begin with `src/`.

## The system

A REST service: registration and login, tasks owned by a user, a Redis rate
limiter in front of both, PostgreSQL (SQLite in development) behind them, and a
script that generates further resources. Requests run as coroutines of one or
more uvicorn workers, which share the database and Redis and nothing else.

| Component | Code | State it keeps | Operations | Hard part | What makes it correct |
|---|---|---|---|---|---|
| Registration, login | `api/v1/endpoints/auth.py`, `application/auth/`, `infrastructure/repositories/user_repository.py` | `users` table | register, login | check and INSERT are two statements; a COMMIT may be unacknowledged; workers die | one account per normalised address; answers are true; a call takes effect at one instant |
| Unit of work | `api/deps.py` `get_session`, `infrastructure/database/session.py` | one session and transaction per request, a pool per worker | open, commit, roll back, close | commit before the response, rollback that fails, exhausted pool | 2xx only for what is committed; every request ends |
| Rate limiter | `infrastructure/rate_limit/`, `api/deps.py` `rate_limit`, `api/v1/router.py` | a counter with expiry per scope and client in Redis | hit, close | window boundaries, TTL rounding, lost replies, Redis restarts, two stacked scopes | counters expire, bursts are bounded, Retry-After is honest, no lock-out |
| Tasks, one at a time | `api/v1/endpoints/tasks.py`, `application/tasks/`, `infrastructure/repositories/task_repository.py` | `tasks` table, the ORM's copy of a row | create, get, update, delete | read, edit a copy, write back; row locks; a row deleted meanwhile | only the owner's effective requests change a task; deletes are final |
| Task listing | same, `application/common.py` | none of its own | list by offset and limit | two statements, two snapshots; walks by offset | total, items and `has_more` fit together; a walk sees every task |
| Tokens, current user | `infrastructure/security/jwt_token_service.py`, `api/deps.py` `get_current_user` | none (signed tokens) | issue, decode, resolve | expiry cut to seconds, clocks set back, restarts with another key | a token is good for its user and its time |
| Lifespan | `main.py`, `core/config.py` | engine, limiter client | boot, start, stop | a step that fails, requests still running, a lifespan entered twice | everything that was opened is closed |
| CRUD generator | `src/scripts/generate_crud.py` | files of the repository | validate, compute, write, format | failure between two writes or within one, second run, names that collide | a refusal touches nothing; running again is safe; the application keeps working |
| Migrations, logging, errors | `src/alembic/`, `core/logging.py`, `api/errors.py` | schema | | | modelled only through the others |

The endpoints call use cases, the use cases call repositories through ports,
the repositories send statements through the session of the request, and
`get_session` ends the transaction after the handler and before the response.
The limiter's dependencies run before all of that. `PROJECT.json` lists the
hazards, each at its line, and the properties that cover them.

## Modules

| Module | What it is |
|---|---|
| `AccountCalls` | the calls, the users row, and the pure functions of the two use cases (normalisation, validation, bcrypt's 72 bytes) |
| `AccountBook` | abstract specification: each account call takes effect at one instant between arrival and reply |
| `Accounts` | register and login in detail; refines `AccountBook` |
| `RateLimit` | the Lua script, `hit`, the two stacked scopes, time |
| `TaskCalls` | the task calls, the tasks row, and what the endpoints make of a body |
| `TaskBook` | abstract specification: what a client of the task endpoints may rely on |
| `TaskTable` | abstract specification: what a reader of the tasks table may rely on |
| `TaskEdits` | POST, GET, PATCH and DELETE on single tasks; refines `TaskBook` and `TaskTable` |
| `TaskListing` | a walk through the pages of a list beside the requests that change it |
| `Service` | server processes from boot to exit: lifespan, limiter client, logins, tokens, current user, health |
| `Generator` | runs of `generate_crud.py`, whole or cut short, with clean-ups between them |
| `*_proofs` | theorems and proofs about the module of that name |
| `TaskEdits_refinement` | the proofs that `TaskEdits` implements the two |
| `MC*` | instances for TLC |

`TaskEdits` and `TaskListing` are two sides of one table. The listing assumes of
its writers what `TaskTable` says, by taking its actions from there, and
`TaskEdits` guarantees it (`WritesAsListed`): ids are given out once, new tasks
are pending, edits leave owner and `created_at` alone. `Row` is a constant of the
listing, so what is proved of it holds for the rows of `TaskEdits`. `Service` abstracts from `RateLimit`
(a hit is admitted or refused) and from `Accounts` (a login finds its user or
not) and adds what both take for granted: the process they run in.

### Accounts

A request is `call[r]`; `phase[r]` says how far its handler has come, between
two awaits that matter: `called` (session open, nothing sent), `checked`
(`get_by_email` found the address free), `inserted` (the INSERT is flushed and
not committed), `found` (login loaded its user), `unwinding` (an exception
passes through `get_session`), `closed` (the session is closed, the response
not yet sent). `verdict[r]` is the status code it will be answered with.
`users` is the committed table. Password hashing has no await and no effect of
its own and is part of the action before it. PostgreSQL is external: a SELECT
reads committed rows; an INSERT waits while another open transaction holds the
key (`Blockers`); COMMIT may take effect or not when it raises
(`CommitRaises`). A connection is held from the first statement to the end of
the session, and a worker has `PoolSize` of them; a request that finds none may
time out. `Crash` loses all requests of a worker.

The abstraction `AccountBook` hides phases: a call is new, open, settled,
replied or lost. `Enrol` adds the account and decides 201, or 500 when the
COMMIT was not acknowledged; `Consult` answers from the accounts as they are.
That `Accounts` implements it says that 409, 401 and 200 are true at one
instant, that a registration takes effect at most once, and that a 500 is the
only answer that leaves its effect open.

### RateLimit

`count` and `ttl` are Redis' counter and expiry per scope and client; time is
discrete, `TicksPerSecond` ticks to a second, so that TTL's rounding to the
nearest second (`NearestSecond`) is visible. `Admit`, `Refuse` and `FailOpen`
are the outcomes of `hit`; the script is atomic, and when `hit` raises the
script may have run. `Onward` is the stack of scopes. `due` counts down the
Retry-After a client was told, `resetIn` the true remainder of the window that
refused it. `watch` is an observer: it picks a key at any moment and counts for
one window's length what the key lets through. It changes nothing else and
exists to state `AtMostTwiceLimit` without a log of times. Counts above
`MaxCount` are not told apart; nothing compares a count with more than a limit,
which is smaller.

### TaskEdits

`rows` is the committed table; `loaded[r]` is the row as the session of `r`
last loaded it, `task[r]` the domain entity the use case edits. A PATCH is
`Load` (`get_owned` and the edits), `Reload` (`session.get` in `save`: the
identity map holds the model weakly, so it is either still there or read
again), `Flush` (an UPDATE of the columns that differ, after waiting for the
row lock; no row matched is a `StaleDataError`, 500), `Commit`. The fields of a
task are abstracted to a few values, texts to what `strip()` leaves of them: a
blank title is refused, a blank description becomes null (`Cleaned`).
`updated_at` is a logical clock, because which columns are dirty depends on it.
`alone` and `applied` are history: whether another request changed the task
since `r` loaded it, and whose COMMIT took effect. The DELETE waits for the row lock and judges by what it then finds.
`get_current_user`'s SELECT, which precedes the handler in the same
transaction, reads a table no task endpoint changes and is left out. `task[r]`
outlives the session, because the response is made of it.

The abstraction `TaskBook` hides phases, locks and sessions: a call is new,
open, settled, replied or lost, and has a code and the fields its reply shows.
A GET is settled by its SELECT and every other success by its COMMIT, since a
reply of 404 or 500 may still come until then. `Create`, `Delete` and `Look` are
single instants. A PATCH is not, and the book says so: it reads the task and
makes up its mind (`Read`), may look again (`Reread`), answers 200 without
writing when nothing differs, even if the task was deleted since, and in `Edit` writes the
fields in which what it wants differs from what it last read; these may be
fields it does not name (finding `lost_update`), but the lost update is all that
can go wrong: the task is the caller's, it exists at that instant, owner and
`created_at` stay, and the reply shows what the PATCH wanted. `Blur` is a
rollback or a COMMIT without effect that fails: the reply becomes a 500. The
refinement mapping is at the end of `TaskEdits`.

`TaskTable` hides the calls as well: `open` are the ids of POSTs whose row is
not committed (`OpenIds`), and a step of a request is a write of one row, the
beginning or end of a POST, or nothing.

### TaskListing

`rows` is the committed table, `open` the ids of POSTs that are under way and
not committed; their rows get any `created_at`, because the clock is read when
the task is made (`Task.create`) and commits come in any order of it. One client reads its list: `Count` is the
request up to the COUNT, with the checks of `get_page_params` and
`ListTasksUseCase`; `Select` is the second statement and the response; `Turn`
is the client, who asks for the next offset as long as `has_more` is true. Both
statements see the table as committed at that moment. A row's place is its
`Rank` in `ORDER BY created_at DESC, id DESC`, so a page is a set of ranks and
no sequence is needed. `first`, `joined`, `left`, `quiet`, `beyond` and `again`
are history for the properties. Settings are free: the code does not relate
`default_page_size` to `max_page_size`, nor to 1. `PageFails` is a statement or
the COMMIT of a page request that raises, a 500: the client asks for the page
again or gives up. A walk need not end by itself: others who post a page's worth
per page read keep `has_more` true, and a server that always fails keeps the
client asking. `WalkEnds` therefore says that it ends once nothing joins the list
any more and no page fails, whatever is edited or deleted meanwhile.

### Service

`stage` is where the process is in `create_app` and `lifespan`; every statement
of the lifespan that can raise has an action that does (`RefuseStart` for
`check_secret_key`, `CreateDatabaseRaises`, `CreateRaises` for the tables,
`ReleaseRaises` for `close` and `dispose`). `limiter` has the two fields of `RedisRateLimiter`,
`connected` the Redis clients that may hold a connection, `engines` the engines
that may. A disposed engine connects again when a statement goes through it,
so `Query` puts `database` back into `engines`. uvicorn is external: told to
stop, it takes no new requests and ends the lifespan when the last one is
answered (the Dockerfile sets no graceful timeout); `Exit` is the end of the
process at any moment (`restart: unless-stopped` in `docker-compose.yml` then
boots another, perhaps with other settings). `Reenter` enters the lifespan of
the same app again, as test suites do. Each request passes the limiter, then
either logs in, asks for the health of the service, or comes back with the
token the client has. `iat` and `exp` are whole seconds; PyJWT compares them
with the clock as a fraction, so a token whose `iat` is ahead of a clock that
was set back is refused. An operator may remove a user.

### Generator

`files` says of each path a resource would need what it is: absent, torn, part
of the repository, or rendered for a name. `patched` says of the four patched
files which resources they import, how many blocks they have of each, and
whether they are whole. A template is a record of what in it can go wrong: the
new files it imports, the parameter lists in which a name is made of the
resource's, the classes it uses although the entity may take their name, and the
names its functions use after a variable was named after the resource. `Sound`
says whether a file rendered for a name parses and means what the template says
(`owner` gives `get_owned` the parameter `owner_id` twice, `page` replaces the
`Page` that is imported). What an import loads is the closure of the imports
(`Loaded`).

A run is `Start` (`main`, `validate_name`), `Plan` (everything `generate`
computes before its first write), one `WriteNext` per file in the order of
`{**new_files, **patched}`, and `RunRuff`. It can end after any step (`Stopped`)
or within a write (`WriteTorn`), which leaves a patched file with some of its
imports and no blocks, or with all imports and some blocks (`Cut`). Between runs
the developer deletes what a run has created, with the patched lines (`CleanUp`,
as README.md describes) or without (`CleanFiles`). `Plural` and `Class` are what
`pluralize` and `pascal_case` make of a name; two names may share either.

`append_block` looks for a marker. In `mappers.py` and `deps.py` it is the first
line of the block; in `router.py` it is `({snake}.router`, which is in the block
only after ruff has joined two lines, and ruff is best effort and joins nothing
that would be too long. `Marked` leaves that open (`joined`). What keeps
`router.py` from a second block is `validate_name`, which refuses a name that
`router.py` has as a word (`Mentioned`).

`Works` is the application's start and that its names mean what they should:
every import finds its file whole, sound and with the names it takes, no table is
declared twice, no class name in `mappers.py` means two classes. `BadName` are
the names that `validate_name` lets pass although the last fails for them.

## Runs

| Run | Instance | What it checks |
|---|---|---|
| `accounts` | 3 requests, 2 workers, pools of 1, 5 different calls | the safety of accounts, the refinement of `AccountBook`, every call ends |
| `rate_limit` | 1 client, 2 requests at a time, limits 2 and 1, windows of 1 s and 2 s, 3 ticks a second | expiry, bursts, Retry-After, no lock-out |
| `retry_after` | the same with 4 ticks a second | violation: Retry-After is not the time until the window resets |
| `budgets` | as `rate_limit` | violation: the two budgets are not independent |
| `task_edits` | 3 requests, 32 workloads on one existing task and one new one, 2 users | who changes a task, final deletes, true 404s, exact PATCHes, the refinement of `TaskBook` |
| `task_waits` | 3 requests, 15 workloads that contend for one row | every call ends, the refinement of `TaskTable` |
| `lost_update` | as `task_edits` | violation: a PATCH changes a field it does not name |
| `generator` | 4 names, two with one plural, one malformed, one whose files the repository ships; 2 runs cut short | refusals, complete ends, blocks once, nothing overwritten, the application keeps working |
| `page_resource` | 4 names: two with one class, one whose class and one whose parameter the templates use; no run cut short | violation: a generated resource does not work |
| `task_listing` | 3 tasks and a fourth that may come, 2 statuses, 2 owners, equal and unequal timestamps, 2 settings, 4 limits; pages fail | what a walk shows, `has_more`, walks end once nothing joins the list and no page fails |
| `has_more` | the same | violation: `has_more` is not about the page it comes with |
| `service` | 2 requests at a time, 1 user, 3 settings, 2 Redis clients, 2 engines, 2 ticks a second | what is open and closed, weak keys, lifetimes, shutdowns end |

Why the bounds are enough: the races of accounts are between two requests for
one address and a third that observes or blocks them; two requests share a
worker with one connection, so the pool is exhausted, and the third is on
another worker that can crash alone. One address with two spellings, one
password longer than 72 bytes and one malformed address reach every branch.
For the limiter, clients do not interact, so one is enough; limits 2 and 1 let
either budget be spent first, and windows of different length drift against
each other. Three ticks a second make rounding go both ways. `RetryAfterIsReset`
fails wherever the remaining time is a fraction below a half second more than a
whole number; its run has four ticks, so that a quarter shows it. The proof of
`RetryAfterIsClose` covers every resolution. For tasks, two
requests make a race and the third interferes with it or observes it. There is
one new id and so one POST at a time; that two POSTs never get the same id is
left to the proof of `WritesAsListed`. For the list, three tasks and pages of 1 and 2 give full, partial and empty last pages,
and one task that joins or leaves is what shifts a walk; two tasks have the same
timestamp, so that ids decide. Two failed runs of the generator are what it
takes to leave a resource half made, clean it up half, and fail again with
another name of the same plural. In `service`, a second engine and a second
client are what can leak; 3 ticks at 2 a second reach both sides of a second's
boundary and of the end of a token that lives one second. The proofs do away
with these bounds for the safety properties.

### Fairness

`WF_vars(Progress(r))` for each request: an awaiting coroutine whose statement
can proceed is resumed by the event loop, and PostgreSQL grants a lock that is
free. Nothing makes a request arrive, a statement fail, or a worker die.
Waiting for a lock or a connection needs no strong fairness: the action is
enabled again in every state once the holder is gone, and holders finish. In
`RateLimit`, time passes (`WF_vars(Tick)`) and a request under way gets a
decision; Redis need not fail. `NeverLockedOut` is stated per scope and client:
who asks a scope again and again is passed on by that scope again and again,
which being passed by the global scope only does not satisfy.

In `TaskListing`, `WF_vars(Reading)`: the reader's statements return or raise and
the client goes on asking; the writers may do anything. In `Service`,
`WF_vars(Progress(r))` and `WF_vars(Shutdown)`: requests under way and the steps
of a shutdown come to an end, well or not. For Redis that is an assumption about
the network: `from_url` sets no socket timeout, so it must answer or break the
connection. Nothing makes a process stop, a request arrive, or a clock advance.
`Generator` states no fairness: nobody need finish a run.

## Documentation that the code disagrees with

* `lost_update`: `api/schemas/task.py:26` says an omitted field is left
  unchanged. Two overlapping PATCHes lose one of the updates when the second
  one's `save` reads the row again after the first one's COMMIT.
  `QuietEditIsExact` states what remains true: a PATCH nobody interferes with.
* `retry_after`: `domain/ports/rate_limiter.py:11` calls `retry_after` the
  seconds until the window resets; it can be half a second short.
* `budgets`: `src/README.md:145` calls the two scopes independent; auth requests
  beyond their budget spend the global one, and a spent global budget refuses
  auth requests.
* `has_more`: `api/schemas/common.py:26` says "Whether more items exist beyond
  this page"; the COUNT it is computed from has an earlier snapshot than the
  page. `QuietPageIsExact` states what remains true.
* `page_resource` (a bug): `make crud name=page` succeeds, and the application
  no longer starts: the generated files import `Page` of `application/common.py`
  or `api/schemas/common.py` and then the entity `Page`, and `Page[Page]` raises
  at import. `make crud name=owner` gives `get_owned` two parameters `owner_id`, a
`SyntaxError`. With `note_1` and `note1` the application starts, and `mappers.py`
makes objects of the other's class.
  `validate_name` compares the name with the words of `router.py` only;
  `src/README.md:231` promises a complete resource.

## Proofs

`Accounts_proofs` proves the type invariant, `OneAccountPerEmail`,
`CreatedIsKept`, `ConflictIsReal`, `ReadYourWrites`, `TokenNamesAccount`, and
that `Accounts` implements `AccountBook`, for any requests, workers, pool sizes
and calls. The assumptions are those of `AccountCalls` and `Accounts`
(normalisation yields a normal form or fails; acceptable passwords fit in 72
bytes). The inductive invariant adds to the properties what they do not say:
`RowsAreOwned` (a committed row is the row of the request that inserted it,
whose outcome is decided), `OpenInsertExcludes` (while an INSERT is open nobody
has the address, committed or open; without it a COMMIT could duplicate one),
`VerdictFitsPhase`, `PhaseFitsCall`, `FoundNamesAccount` and `BeforeIsDone`.
The refinement is proved action by action: CheckEmail's and LookUp's refusals
and Commit are the instants, the rest are stutters or the abstract steps of the
same name.

`RateLimit_proofs` proves the type invariant, `NoImmortalKey`,
`AtMostTwiceLimit` and `RetryAfterIsClose` for any limits, windows, clients and
clock resolutions. The settings do not validate the window, so it may be empty:
EXPIRE then deletes the counter in the script that created it, and the theorems
hold but leave the scope without a bound. For the burst bound the invariant compares the time the window has
left with the time the observer has left: a window that ends first began before
the observer did, and all it has seen is what this window let through; one that
does not end first began since, and there may be a full limit before it. For
Retry-After, the time still due is compared with the true remainder in ticks.

`TaskEdits_proofs` proves the type invariant, `EveryChangeWasAsked`,
`DeleteIsFinal`, `NotFoundIsTrue` and the action property `QuietEditIsExact` for
any users, tasks, payloads and number of concurrent requests. None of them is
inductive: a COMMIT writes what a request remembers of a row it read
some steps ago. The invariant therefore says what a request may rely on while
others run. `RowOK` says that a task has its row only when no POST can still
create it (`Settled`), that the row belongs to one owner for good, and that each
field was said by that owner. `EditOK` says the same of the copy a PATCH carries,
whatever happens to the row meanwhile; `Locks` of a row implies that the row is
there and is the user's, and `LocksApart` and `CreatorsApart` make a COMMIT the
only one about its row. `AloneOK` ties the copy to the row as long as the
history variable `alone` is true. `AppliedInv` (the COMMIT) is the heart of
the proof: `OutcomeOK` first lists what a COMMIT may do to its row, then each part of the
invariant is shown to survive it. `StepOf` and `StepKeeps` carry what every
other step leaves alone, so that the remaining actions need a few lines each.
The assumption is `TaskAssumption`: the workloads are calls the schema lets
through, and the table begins with rows.

`TaskEdits_refinement` proves that `TaskEdits` implements `TaskBook` and
`TaskTable`, from the same assumption and invariant. For the book, `VerdictInv`
adds that a request has no status code before it is decided, and `Seen` lists
what the mapping shows of a request in each phase; then every action has a lemma
that names the book's action it is, or shows that nothing is seen of it
(`Hidden`). The COMMIT takes the invariant at its word: `BirthInBook` needs that
the id is nobody else's (`CreatorsApart`, `Settled`), `DeathInBook` and
`EditInBook` that the lock has kept the row what the statement found (`Locks` in
`RequestOK`); a COMMIT that is not acknowledged is the same step with a 500, or a
refusal. For the table, `OpenIdsMove` says that ids of POSTs come and go one at a
time, `EditedRow` that an UPDATE writes no other owner and no other time of
creation, and `AppliedInTable` makes each COMMIT one of its writes. Together with
`TaskListing_proofs` this is an assume-guarantee argument: what holds of walks
beside any writers of `TaskTable` holds beside the requests of `TaskEdits`.

`TaskListing_proofs` proves the type invariant, `NothingMissed`,
`NothingRepeated` and `QuietPageIsExact` for any finite set of tasks, any page
sizes, any rows that have an owner, a status and a time of creation, and any
number of concurrent writers. The argument compares the walk's
offset with ranks: while nothing leaves the list ranks only grow, so what has
not been shown is at or beyond the place the walk has reached (`MissedInv`);
while nothing joins it they only shrink, so what has been shown is before it
(`RepeatedInv`). A page that ends the walk has nothing beyond it when no commit
fell between its two statements: if total is the length of the list and the
offset has reached it, no rank is that high (`LastPageInv`).

`Service_proofs` proves the type invariant, `NothingOutOfReach`,
`LifespanReleases`, `WeakKeysOnlyInDebug` and the action property
`TokenLivesItsTime` for any settings, requests, clients, engines and clock
resolution. `LimiterInv` ties the script to the client that `close` will close,
`EngineInv` says at each stage which engines can be open, `RequestInv` that
requests are served only by a process that passed `check_secret_key`, and
`TokenInv` that the claims of a token are its issue and end cut to seconds.

`Generator_proofs` proves the type invariant, `RefusedTouchesNothing`,
`DoneIsComplete`, `BlocksOnce` and the action properties `NeverOverwrites` and
`NeverBreaksApp` for any names, plurals, classes and number of failures. For
`BlocksOnce`, `NewInv` says that a run that goes on is for a name `router.py` has
no block of, so it does not matter whether its marker would be found; this holds of a torn
`router.py` too, in which the part of a block before the name is no block.
`WriteInv` says of a run that writes which files are written, and that the paths
still to be written are free and were free when it began. A working
application imports no free path, so a new file cannot break it
(`FreePathsDoNotMatter`); when a patched file is written, all that its new lines
import is there (`PatchedFileFits`); and a resource with the same plural would
have had its tests at a path that was free. The exceptions `NeverBreaksApp` names
are the torn patched file, `BadName`, and a table whose other resource lost its
tests to failed runs; the first run shows the property with them, and
`page_resource` that `BadName` is one. A resource on a table the repository has
(`task`, `user`) is refused, since its files are there.

Only model-checked: all liveness properties (`EveryCallEnds`, `NeverLockedOut`,
`WalkEnds`, `ShutdownEnds`). TLAPS has no reach there: fairness needs ENABLED.

## Not modelled

* SQLite, which `config.py` uses by default: one connection and one writer, so
  the interleavings of the models do not arise.
* `alembic/`: migrations are DDL that a library executes before the first
  process starts; the tables and the unique index are the initial states.
* `core/logging.py`, the JSON of the error envelope, CORS, the redirect of `/`
  and the text of the generator's templates: formatting, without state.
* The no-op limiter beyond its one answer, and `/health`, which touches nothing.
* Redis that never answers: the code sets no timeout, so nothing can be
  guaranteed of it; it is listed as a hazard.
* A patched file torn in the middle of a block may look complete to the next
  run; the model keeps such a file apart (`whole`) and claims nothing of it.
* `updated_at` against the wall clock, and retries of `POST /tasks`: the code
  and its documents promise nothing about either.

Left to do: an abstract specification of the rate limiter and of the generator's
runs, `Accounts` and `Service` composed, so that a request's token is the
one `AccountBook` gave it, and pure functions (validators, page parameters)
against reference definitions.
