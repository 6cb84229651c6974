------------------------------- MODULE Service ------------------------------
(***************************************************************************)
(* One server process after another, each from boot to exit: create_app,   *)
(* the lifespan that opens the engine and closes what the process opened,  *)
(* and between the two the requests that log in and come back with their   *)
(* token.  Tokens outlive the process, its settings need not.  A request   *)
(* passes the limiter (whose Redis client the first hit creates), then its *)
(* token is decoded, then its user is looked up.                           *)
(***************************************************************************)
EXTENDS Integers

CONSTANTS
    Requests,
    Users,          \* the accounts there are at the start
    Configs,        \* the settings an operator may boot a process with
    SecretKeys,
    WeakKeys,       \* those shorter than MIN_SECRET_KEY_LENGTH
    Clients,        \* identities for Redis clients
    Engines,        \* identities for engines; bound: the lifespans of a process
    TicksPerSecond,
    MaxClock,       \* bound: last tick of the clock
    None

Settings == [secret_key : SecretKeys, debug : BOOLEAN, redis : BOOLEAN,
             auto_create_tables : BOOLEAN, lifetime : Int]

ASSUME ServiceAssumption ==
    /\ Configs \subseteq Settings /\ Configs # {} /\ WeakKeys \subseteq SecretKeys
    /\ None \notin Clients /\ None \notin Engines /\ None \notin Configs
    /\ TicksPerSecond \in Nat \ {0} /\ MaxClock \in Nat

VARIABLES
    settings,   \* of the process, None when there is none
    stage,      \* of the process and its lifespan
    limiter,    \* RedisRateLimiter: its _client, and the client of its _script
    connected,  \* Redis clients that may hold a connection
    engine,     \* the engine of the running lifespan
    database,   \* app.state.database
    engines,    \* engines that may hold connections
    abandoned,  \* history: engines whose lifespan failed at its start or end
    phase,      \* of each request, or its answer
    carried,    \* the token a request carries, None for a login
    token,      \* the token the client has
    users,      \* ids in the users table
    clock       \* the system clock, in ticks

process == <<settings, stage, limiter, connected, engine, database, engines, abandoned>>
client == <<phase, carried, token>>
vars == <<process, client, users, clock>>

Stages == {"off", "built", "creating", "serving", "draining", "closing",
           "disposing", "stopped", "failed"}

\* A response of 401, or any other.
Answers == {"idle", "unauthorized", "answered"}
Phases == Answers \cup {"arrived", "hitting", "admitted", "decoded"}

\* issued and lifetime are history: decoding sees only iat and exp.
Token == [user : Users, key : SecretKeys, iat : Int, exp : Int,
          issued : 0 .. MaxClock, lifetime : Int]

TypeOK ==
    /\ settings \in Configs \cup {None} /\ stage \in Stages
    /\ settings = None <=> stage = "off"
    /\ limiter \in [client : Clients \cup {None}, script : Clients \cup {None}]
    /\ connected \subseteq Clients
    /\ engine \in Engines \cup {None} /\ database \in Engines \cup {None}
    /\ engines \subseteq Engines /\ abandoned \subseteq Engines
    /\ phase \in [Requests -> Phases]
    /\ carried \in [Requests -> Token \cup {None}]
    /\ token \in Token \cup {None}
    /\ users \subseteq Users /\ clock \in 0 .. MaxClock

Unused == [client |-> None, script |-> None]

Init ==
    /\ settings = None /\ stage = "off"
    /\ limiter = Unused /\ connected = {}
    /\ engine = None /\ database = None /\ engines = {} /\ abandoned = {}
    /\ phase = [r \in Requests |-> "idle"]
    /\ carried = [r \in Requests |-> None]
    /\ token = None /\ users = Users /\ clock = 0

-----------------------------------------------------------------------------
\* create_app: a limiter that has not been used, no database yet.
Boot ==
    /\ stage = "off"
    /\ \E s \in Configs : settings' = s
    /\ stage' = "built"
    /\ UNCHANGED <<limiter, connected, engine, database, engines, abandoned,
                   client, users, clock>>

\* Mutant of WeakKey: the check looks for the example key only.
WeakKeyByName == settings.secret_key = "change-me" /\ ~settings.debug

\* check_secret_key.
WeakKey == settings.secret_key \in WeakKeys /\ ~settings.debug

RefuseStart ==
    /\ stage = "built" /\ WeakKey
    /\ stage' = "failed"
    /\ UNCHANGED <<settings, limiter, connected, engine, database, engines,
                   abandoned, client, users, clock>>

\* create_database raises, before there is an engine.
CreateDatabaseRaises ==
    /\ stage = "built" /\ ~WeakKey
    /\ stage' = "failed"
    /\ UNCHANGED <<settings, limiter, connected, engine, database, engines,
                   abandoned, client, users, clock>>

\* Mutants of Start: app.state gets the engine only after create_all; it
\* keeps the engine it has.
StartUnassigned ==
    /\ stage = "built" /\ ~WeakKey
    /\ \E e \in Engines \ (engines \cup {database}) :
        /\ engine' = e /\ engines' = engines \cup {e}
        /\ stage' = IF settings.auto_create_tables THEN "creating" ELSE "serving"
    /\ UNCHANGED <<settings, limiter, connected, database, abandoned, client, users, clock>>
StartOnce ==
    /\ stage = "built" /\ ~WeakKey
    /\ \E e \in Engines \ (engines \cup {database}) :
        /\ engine' = e /\ engines' = engines \cup {e}
        /\ IF settings.auto_create_tables
           THEN stage' = "creating" /\ UNCHANGED database
           ELSE stage' = "serving" /\ database' = IF database = None THEN e ELSE database
    /\ UNCHANGED <<settings, limiter, connected, abandoned, client, users, clock>>

\* create_database, and the assignment to app.state unless tables come first.
Start ==
    /\ stage = "built" /\ ~WeakKey
    /\ \E e \in Engines \ (engines \cup {database}) :
        /\ engine' = e /\ engines' = engines \cup {e}
        /\ IF settings.auto_create_tables
           THEN stage' = "creating" /\ UNCHANGED database
           ELSE stage' = "serving" /\ database' = e
    /\ UNCHANGED <<settings, limiter, connected, abandoned, client, users, clock>>

CreateTables ==
    /\ stage = "creating"
    /\ stage' = "serving" /\ database' = engine
    /\ UNCHANGED <<settings, limiter, connected, engine, engines, abandoned,
                   client, users, clock>>

\* create_all raises, outside the try of the lifespan.
CreateRaises ==
    /\ stage = "creating"
    /\ stage' = "failed" /\ abandoned' = abandoned \cup {engine}
    /\ UNCHANGED <<settings, limiter, connected, engine, database, engines,
                   client, users, clock>>

Waiting == \E r \in Requests : phase[r] \notin Answers

\* uvicorn is told to stop: no new requests.
Stop ==
    /\ stage = "serving"
    /\ stage' = "draining"
    /\ UNCHANGED <<settings, limiter, connected, engine, database, engines,
                   abandoned, client, users, clock>>

\* uvicorn ends the lifespan when the last request is answered; close() has
\* a client to close or not.
Close ==
    /\ stage = "draining" /\ ~Waiting
    /\ IF limiter.client # None
       THEN stage' = "closing" /\ UNCHANGED limiter
       ELSE stage' = "disposing" /\ limiter' = [limiter EXCEPT !.script = None]
    /\ UNCHANGED <<settings, connected, engine, database, engines, abandoned,
                   client, users, clock>>

\* Mutant of Closed: the script is kept.
ClosedKeepingScript ==
    /\ stage = "closing"
    /\ stage' = "disposing"
    /\ connected' = connected \ {limiter.client}
    /\ limiter' = [limiter EXCEPT !.client = None]
    /\ UNCHANGED <<settings, engine, database, engines, abandoned, client, users, clock>>

\* aclose() returns.
Closed ==
    /\ stage = "closing"
    /\ stage' = "disposing"
    /\ connected' = connected \ {limiter.client}
    /\ limiter' = Unused
    /\ UNCHANGED <<settings, engine, database, engines, abandoned, client, users, clock>>

\* aclose() or dispose() raises: what comes after it in the lifespan is skipped.
ReleaseRaises ==
    /\ stage \in {"closing", "disposing"}
    /\ stage' = "failed" /\ abandoned' = abandoned \cup {engine}
    /\ UNCHANGED <<settings, limiter, connected, engine, database, engines,
                   client, users, clock>>

Dispose ==
    /\ stage = "disposing"
    /\ stage' = "stopped" /\ engines' = engines \ {engine}
    /\ UNCHANGED <<settings, limiter, connected, engine, database, abandoned,
                   client, users, clock>>

\* The lifespan of the same app is entered again, as test suites do.
Reenter ==
    /\ stage \in {"stopped", "failed"}
    /\ stage' = "built"
    /\ UNCHANGED <<settings, limiter, connected, engine, database, engines,
                   abandoned, client, users, clock>>

\* The process ends or is killed; the operating system closes what it held.
Exit ==
    /\ stage # "off"
    /\ settings' = None /\ stage' = "off"
    /\ limiter' = Unused /\ connected' = {}
    /\ engine' = None /\ database' = None /\ engines' = {} /\ abandoned' = {}
    /\ phase' = [r \in Requests |-> IF phase[r] \in Answers THEN phase[r] ELSE "idle"]
    /\ carried' = [r \in Requests |-> None]
    /\ UNCHANGED <<token, users, clock>>

-----------------------------------------------------------------------------
Arrive(r) ==
    /\ stage = "serving" /\ phase[r] \in Answers
    /\ phase' = [phase EXCEPT ![r] = "arrived"]
    /\ \E t \in {None, token} : carried' = [carried EXCEPT ![r] = t]
    /\ UNCHANGED <<process, token, users, clock>>

Goes(r, to) ==
    /\ phase' = [phase EXCEPT ![r] = to]
    /\ carried' = IF to \in Answers THEN [carried EXCEPT ![r] = None] ELSE carried

\* _get_script: one client and one script, made at the first hit.
ScriptFor(c) ==
    IF limiter.script # None THEN c = limiter.script /\ UNCHANGED limiter
    ELSE /\ IF limiter.client = None THEN c \notin connected ELSE c = limiter.client
         /\ limiter' = [client |-> c, script |-> c]

Hit(r) ==
    /\ phase[r] = "arrived" /\ settings.redis
    /\ \E c \in Clients :
        /\ ScriptFor(c)
        /\ \/ connected' = connected \cup {c} /\ Goes(r, "hitting")
           \/ UNCHANGED connected /\ Goes(r, "admitted")   \* no connection: fail open
    /\ UNCHANGED <<settings, stage, engine, database, engines, abandoned,
                   token, users, clock>>

\* NoopRateLimiter.
HitNothing(r) ==
    /\ phase[r] = "arrived" /\ ~settings.redis
    /\ Goes(r, "admitted")
    /\ UNCHANGED <<process, token, users, clock>>

\* Mutant of Replied: after an exception the hit is made again.
RepliedRetried(r) ==
    /\ phase[r] = "hitting"
    /\ \E to \in {"admitted", "answered", "arrived"} : Goes(r, to)
    /\ UNCHANGED <<process, token, users, clock>>

\* The script's reply, or an exception that fails open.
Replied(r) ==
    /\ phase[r] = "hitting"
    /\ \E to \in {"admitted", "answered"} : Goes(r, to)
    /\ UNCHANGED <<process, token, users, clock>>

\* A statement through app.state.database; a disposed engine connects anew.
Query ==
    /\ engines' = engines \cup {database}
    /\ UNCHANGED <<settings, stage, limiter, connected, engine, database, abandoned>>

\* Mutant of Seconds: rounded up.
SecondsUp(t) == (t + TicksPerSecond - 1) \div TicksPerSecond

\* int(timestamp)
Seconds(t) == t \div TicksPerSecond

\* create_access_token.
NewToken(u) ==
    [user |-> u, key |-> settings.secret_key,
     iat |-> Seconds(clock), exp |-> Seconds(clock + settings.lifetime * TicksPerSecond),
     issued |-> clock, lifetime |-> settings.lifetime]

\* POST /auth/login with good credentials or others.
LogIn(r) ==
    /\ phase[r] = "admitted" /\ carried[r] = None
    /\ Query
    /\ \/ \E u \in users : token' = NewToken(u) /\ Goes(r, "answered")
       \/ UNCHANGED token /\ Goes(r, "unauthorized")
    /\ UNCHANGED <<users, clock>>

\* jwt.decode: the signature, iat, exp.
Genuine(t) ==
    /\ t.key = settings.secret_key
    /\ t.iat * TicksPerSecond <= clock
    /\ clock < t.exp * TicksPerSecond

\* get_current_user: decode_access_token.
Decode(r) ==
    /\ phase[r] = "admitted" /\ carried[r] # None
    /\ Goes(r, IF Genuine(carried[r]) THEN "decoded" ELSE "unauthorized")
    /\ UNCHANGED <<process, token, users, clock>>

\* get_current_user: the user of the token.
Resolve(r) ==
    /\ phase[r] = "decoded"
    /\ Query
    /\ Goes(r, IF carried[r].user \in users THEN "answered" ELSE "unauthorized")
    /\ UNCHANGED <<token, users, clock>>

\* The database fails.
Fail(r) ==
    /\ phase[r] = "decoded" \/ (phase[r] = "admitted" /\ carried[r] = None)
    /\ Query
    /\ Goes(r, "answered")
    /\ UNCHANGED <<token, users, clock>>

\* GET /v1/health: no limiter, no token, one statement.
HealthCheck(r) ==
    /\ phase[r] = "arrived" /\ carried[r] = None
    /\ Query
    /\ Goes(r, "answered")
    /\ UNCHANGED <<token, users, clock>>

-----------------------------------------------------------------------------
\* No endpoint removes a user; somebody with access to the database may.
Remove(u) ==
    /\ u \in users
    /\ users' = users \ {u}
    /\ UNCHANGED <<process, client, clock>>

Tick ==
    /\ clock < MaxClock
    /\ clock' = clock + 1
    /\ UNCHANGED <<process, client, users>>

\* The clock is set back.
StepBack ==
    /\ clock > 0
    /\ clock' = clock - 1
    /\ UNCHANGED <<process, client, users>>

Progress(r) ==
    \/ Hit(r) \/ HitNothing(r) \/ Replied(r)
    \/ LogIn(r) \/ Decode(r) \/ Resolve(r) \/ Fail(r) \/ HealthCheck(r)

Shutdown == Close \/ Closed \/ ReleaseRaises \/ Dispose

Next ==
    \/ Boot \/ RefuseStart \/ CreateDatabaseRaises \/ Start \/ CreateTables \/ CreateRaises
    \/ Stop \/ Shutdown \/ Reenter \/ Exit
    \/ \E r \in Requests : Arrive(r) \/ Progress(r)
    \/ \E u \in Users : Remove(u)
    \/ Tick \/ StepBack

Fairness == WF_vars(Shutdown) /\ \A r \in Requests : WF_vars(Progress(r))

Spec == Init /\ [][Next]_vars /\ Fairness
-----------------------------------------------------------------------------
\* However many hits run at once, and however often the lifespan of an app is
\* entered and its end fails, the only Redis client with connections is the
\* one that close() will close.
NothingOutOfReach == connected \subseteq {limiter.client}

\* A lifespan that ends without an exception leaves nothing open, except
\* engines of earlier lifespans that did not.
LifespanReleases == stage = "stopped" => connected = {} /\ engines \subseteq abandoned

\* Outside debug mode nobody gets in with a token signed with a weak key, not
\* even with one of an earlier process that was in debug mode.
WeakKeysOnlyInDebug ==
    \A r \in Requests :
        phase[r] = "decoded" /\ carried[r].key \in WeakKeys => settings.debug

\* A token gets its user in until its lifetime is over, but for the last
\* second, and not after that.  It is refused before only if the key has
\* changed, the user is gone or the clock was set back.
TokenLivesItsTime ==
    [][\A r \in Requests :
        LET t == carried[r]
            end == t.issued + t.lifetime * TicksPerSecond
        IN
        /\ phase[r] = "admitted" /\ phase'[r] = "decoded" => clock < end
        /\ phase[r] \in {"admitted", "decoded"} /\ t # None /\ phase'[r] = "unauthorized" =>
               \/ t.key # settings.secret_key
               \/ t.user \notin users
               \/ clock < t.issued
               \/ clock > end - TicksPerSecond]_vars

\* A process that is told to stop answers what it has begun and comes to the
\* end of its lifespan.
ShutdownEnds == stage = "draining" ~> stage \in {"stopped", "failed", "off"}
=============================================================================
