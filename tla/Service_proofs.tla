--------------------------- MODULE Service_proofs ---------------------------
(***************************************************************************)
(* Proofs about Service for any settings, requests, clients and clocks.    *)
(* IInv says at each stage of the lifespan what is open and who will close *)
(* it, and of each token that its iat and exp are those of its issue.      *)
(***************************************************************************)
EXTENDS Service, TLAPS

\* The stages between a successful start and the end of the lifespan.
Running == {"serving", "draining", "closing", "disposing"}
Started == Running \cup {"creating"}

\* The limiter's script is bound to its client, which nobody else has.
LimiterInv ==
    /\ NothingOutOfReach
    /\ limiter.script # None => limiter.script = limiter.client
    /\ stage \in {"disposing", "stopped"} => connected = {}

EngineInv ==
    /\ stage \in Started => engine # None /\ engines \subseteq abandoned \cup {engine}
    /\ stage \in Running => database = engine
    /\ stage \in {"off", "built", "stopped", "failed"} => engines \subseteq abandoned

\* Requests are served by a process that has passed its checks.
RequestInv ==
    /\ stage \in Started => ~WeakKey
    /\ \A r \in Requests :
        /\ phase[r] \notin Answers => stage \in {"serving", "draining"}
        /\ phase[r] = "decoded" => carried[r] # None /\ carried[r].key = settings.secret_key

\* What decoding sees of a token and what is true of it.
Cut(t) ==
    /\ t.iat = Seconds(t.issued)
    /\ t.exp = Seconds(t.issued + t.lifetime * TicksPerSecond)

TokenInv ==
    /\ token # None => Cut(token)
    /\ \A r \in Requests : carried[r] # None => Cut(carried[r])

IInv == TypeOK /\ LimiterInv /\ EngineInv /\ RequestInv /\ TokenInv

-----------------------------------------------------------------------------
\* A number of ticks and the seconds it is cut to.
LEMMA SecondsCut ==
  ASSUME NEW t \in Int
  PROVE  /\ Seconds(t) \in Int /\ Seconds(t) * TicksPerSecond \in Int
         /\ Seconds(t) * TicksPerSecond <= t
         /\ t < Seconds(t) * TicksPerSecond + TicksPerSecond
  <1>1. TicksPerSecond \in Nat \ {0}
    BY ServiceAssumption
  <1>2. \A a \in Int, b \in Nat \ {0} :
           a \div b \in Int /\ (a \div b) * b <= a /\ a < (a \div b) * b + b
    BY SMT
  <1>3. \A a \in Int, b \in Nat \ {0} : a * b \in Int
    BY SMT
  <1> QED BY <1>1, <1>2, <1>3 DEF Seconds

\* A lifetime in ticks.
LEMMA LifetimeType == \A n \in Int : n * TicksPerSecond \in Int
  <1>1. TicksPerSecond \in Int
    BY ServiceAssumption
  <1>2. \A a, b \in Int : a * b \in Int
    BY SMT
  <1> QED BY <1>1, <1>2

LEMMA InitInv == Init => IInv
  <1> SUFFICES ASSUME Init PROVE IInv
    OBVIOUS
  <1>1. TypeOK
    BY ServiceAssumption DEF Init, TypeOK, Stages, Phases, Answers, Unused
  <1>2. LimiterInv /\ EngineInv /\ RequestInv /\ TokenInv
    BY DEF Init, LimiterInv, NothingOutOfReach, EngineInv, RequestInv, TokenInv, Unused,
           Started, Running, Answers
  <1> QED BY <1>1, <1>2 DEF IInv

-----------------------------------------------------------------------------
\* Steps of the process.
LEMMA StartSteps ==
  IInv /\ (Boot \/ RefuseStart \/ CreateDatabaseRaises \/ Start \/ CreateTables \/ CreateRaises) => IInv'
  <1> SUFFICES ASSUME IInv, Boot \/ RefuseStart \/ CreateDatabaseRaises \/ Start \/ CreateTables \/ CreateRaises
               PROVE  IInv'
    OBVIOUS
  <1>1. /\ UNCHANGED <<limiter, connected, phase, carried, token, users, clock>>
        /\ stage \in {"off", "built", "creating"}
        /\ stage' \in {"built", "failed", "creating", "serving"}
    BY DEF Boot, RefuseStart, CreateDatabaseRaises, Start, CreateTables, CreateRaises, client
  <1>2. TokenInv' /\ LimiterInv' /\ \A r \in Requests : phase[r] \in Answers
    BY <1>1 DEF IInv, TokenInv, Cut, Seconds, RequestInv, LimiterInv, NothingOutOfReach
  <1>3. RequestInv' <=> (stage' \in Started => ~WeakKey')
    BY <1>1, <1>2 DEF RequestInv, Answers
  <1>4. /\ (UNCHANGED settings /\ stage # "off") \/ (stage = "off" /\ settings' \in Configs)
        /\ engine' \in Engines \cup {None} /\ database' \in Engines \cup {None}
        /\ engines' \subseteq Engines /\ abandoned' \subseteq Engines
    BY DEF Boot, RefuseStart, CreateDatabaseRaises, Start, CreateTables, CreateRaises, IInv, TypeOK, EngineInv, Started
  <1>5. TypeOK'
    BY <1>1, <1>4, ServiceAssumption DEF IInv, TypeOK, Stages
  <1>6. CASE Boot
    BY <1>2, <1>3, <1>5, <1>6 DEF Boot, IInv, EngineInv, Started, Running
  <1>7. CASE RefuseStart \/ CreateDatabaseRaises
    BY <1>2, <1>3, <1>5, <1>7 DEF RefuseStart, CreateDatabaseRaises, IInv, EngineInv, Started, Running
  <1>8. CASE Start
    <2>1. ~WeakKey'
      BY <1>8 DEF Start, WeakKey
    <2>2. EngineInv'
      BY <1>8, ServiceAssumption DEF Start, IInv, EngineInv, Started, Running
    <2> QED BY <1>2, <1>3, <1>5, <2>1, <2>2 DEF IInv
  <1>9. CASE CreateTables \/ CreateRaises
    <2>1. stage' \in Started => ~WeakKey'
      BY <1>9 DEF CreateTables, CreateRaises, IInv, RequestInv, WeakKey, Started
    <2>2. EngineInv'
      BY <1>9 DEF CreateTables, CreateRaises, IInv, EngineInv, Started, Running
    <2> QED BY <1>2, <1>3, <1>5, <2>1, <2>2 DEF IInv
  <1> QED BY <1>6, <1>7, <1>8, <1>9

LEMMA StopSteps ==
  IInv /\ (Stop \/ Shutdown \/ Reenter) => IInv'
  <1> SUFFICES ASSUME IInv, Stop \/ Shutdown \/ Reenter PROVE IInv'
    OBVIOUS
  <1>1. /\ UNCHANGED <<settings, engine, database, phase, carried, token, users, clock>>
        /\ stage \in {"serving", "draining", "closing", "disposing", "stopped", "failed"}
        /\ stage' \in {"draining", "closing", "disposing", "stopped", "failed", "built"}
    BY DEF Stop, Shutdown, Close, Closed, ReleaseRaises, Dispose, Reenter, client
  <1>2. TokenInv'
    BY <1>1 DEF IInv, TokenInv, Cut, Seconds
  <1>3. /\ limiter' \in [client : Clients \cup {None}, script : Clients \cup {None}]
        /\ connected' \subseteq Clients
    BY DEF Stop, Shutdown, Close, Closed, ReleaseRaises, Dispose, Reenter, IInv, TypeOK, Unused
  <1>4. engines' \subseteq Engines /\ abandoned' \subseteq Engines
    BY DEF Stop, Shutdown, Close, Closed, ReleaseRaises, Dispose, Reenter, IInv, TypeOK,
           EngineInv, Started, Running
  <1>5. TypeOK'
    BY <1>1, <1>3, <1>4 DEF IInv, TypeOK, Stages
  <1>6. RequestInv'
    <2>1. stage' \in Started => ~WeakKey'
      <3>1. stage' \in Started => stage \in Started
        BY DEF Stop, Shutdown, Close, Closed, ReleaseRaises, Dispose, Reenter, Started, Running
      <3> QED BY <1>1, <3>1 DEF IInv, RequestInv, WeakKey
    <2>2. ASSUME NEW r \in Requests, phase[r] \notin Answers PROVE stage' = "draining"
      BY <2>2 DEF Stop, Shutdown, Close, Closed, ReleaseRaises, Dispose, Reenter, Waiting,
                  IInv, RequestInv
    <2> QED BY <1>1, <2>1, <2>2 DEF IInv, RequestInv, Started, Running, Answers
  <1>7. EngineInv'
    BY <1>1 DEF Stop, Shutdown, Close, Closed, ReleaseRaises, Dispose, Reenter, IInv, TypeOK,
                EngineInv, Started, Running
  <1>8. LimiterInv'
    <2>1. CASE Close
      BY <2>1, ServiceAssumption DEF Close, IInv, TypeOK, LimiterInv, NothingOutOfReach
    <2>2. CASE Closed
      BY <2>2 DEF Closed, IInv, LimiterInv, NothingOutOfReach, Unused
    <2>3. CASE Stop \/ ReleaseRaises \/ Dispose \/ Reenter
      BY <2>3 DEF Stop, ReleaseRaises, Dispose, Reenter, IInv, LimiterInv, NothingOutOfReach
    <2> QED BY <2>1, <2>2, <2>3 DEF Shutdown
  <1> QED BY <1>2, <1>5, <1>6, <1>7, <1>8 DEF IInv

LEMMA ExitStep == IInv /\ Exit => IInv'
  <1> SUFFICES ASSUME IInv, Exit PROVE IInv'
    OBVIOUS
  <1>1. TypeOK'
    BY DEF Exit, IInv, TypeOK, Unused, Stages, Phases, Answers
  <1>2. LimiterInv' /\ EngineInv' /\ RequestInv'
    BY <1>1 DEF Exit, TypeOK, LimiterInv, NothingOutOfReach, Unused, EngineInv, RequestInv,
                Started, Running, Answers
  <1>3. TokenInv'
    BY DEF Exit, IInv, TokenInv, Cut, Seconds
  <1> QED BY <1>1, <1>2, <1>3 DEF IInv

-----------------------------------------------------------------------------
\* Steps of the requests.
LEMMA ArriveStep == ASSUME NEW r \in Requests PROVE IInv /\ Arrive(r) => IInv'
  <1> SUFFICES ASSUME IInv, Arrive(r) PROVE IInv'
    OBVIOUS
  <1>1. /\ UNCHANGED <<settings, stage, limiter, connected, engine, database, engines,
                       abandoned, token, users, clock>>
        /\ stage = "serving" /\ phase[r] \in Answers
        /\ phase' = [phase EXCEPT ![r] = "arrived"]
    BY DEF Arrive, process
  <1>2. PICK t \in {None, token} : carried' = [carried EXCEPT ![r] = t]
    BY DEF Arrive
  <1>3. TypeOK'
    BY <1>1, <1>2 DEF IInv, TypeOK, Phases
  <1>4. LimiterInv' /\ EngineInv'
    BY <1>1 DEF IInv, LimiterInv, NothingOutOfReach, EngineInv
  <1>5. RequestInv'
    BY <1>1, <1>2 DEF IInv, TypeOK, RequestInv, WeakKey, Answers
  <1>6. TokenInv'
    BY <1>1, <1>2 DEF IInv, TypeOK, TokenInv, Cut, Seconds
  <1> QED BY <1>3, <1>4, <1>5, <1>6 DEF IInv

\* What the handlers' steps have in common: a request that is under way goes
\* on, and no other.
Moves(r, to) ==
    /\ phase[r] \notin Answers
    /\ phase' = [phase EXCEPT ![r] = to] /\ to \in Phases
    /\ \/ carried' = carried
       \/ carried' = [carried EXCEPT ![r] = None] /\ to # "decoded"
    /\ to = "decoded" => carried[r] # None /\ carried[r].key = settings.secret_key
    /\ UNCHANGED <<settings, stage, engine, database, abandoned, users, clock>>

LEMMA HandlerMoves ==
  ASSUME TypeOK, NEW r \in Requests, Progress(r)
  PROVE  \E to \in Phases : Moves(r, to)
  <1>1. ASSUME NEW to \in Phases, Goes(r, to)
        PROVE  /\ phase' = [phase EXCEPT ![r] = to]
               /\ \/ carried' = carried
                  \/ carried' = [carried EXCEPT ![r] = None] /\ to # "decoded"
    BY <1>1 DEF Goes, Answers
  <1>2. CASE Hit(r) \/ HitNothing(r) \/ Replied(r)
    <2>1. PICK to \in {"hitting", "admitted", "answered"} : Goes(r, to)
      BY <1>2 DEF Hit, HitNothing, Replied
    <2>2. to \in Phases /\ to # "decoded"
      BY DEF Phases, Answers
    <2>3. phase[r] \notin Answers
      BY <1>2 DEF Hit, HitNothing, Replied, Answers
    <2>4. UNCHANGED <<settings, stage, engine, database, abandoned, users, clock>>
      BY <1>2 DEF Hit, HitNothing, Replied, process
    <2> QED BY <1>1, <2>1, <2>2, <2>3, <2>4 DEF Moves
  <1>3. CASE LogIn(r) \/ Resolve(r) \/ Fail(r) \/ HealthCheck(r)
    <2>1. PICK to \in {"answered", "unauthorized"} : Goes(r, to)
      BY <1>3 DEF LogIn, Resolve, Fail, HealthCheck
    <2>2. to \in Phases /\ to # "decoded"
      BY DEF Phases, Answers
    <2>3. phase[r] \notin Answers
      BY <1>3 DEF LogIn, Resolve, Fail, HealthCheck, Answers
    <2>4. UNCHANGED <<settings, stage, engine, database, abandoned, users, clock>>
      BY <1>3 DEF LogIn, Resolve, Fail, HealthCheck, Query
    <2> QED BY <1>1, <2>1, <2>2, <2>3, <2>4 DEF Moves
  <1>4. CASE Decode(r)
    <2>1. PICK to \in {"decoded", "unauthorized"} :
             Goes(r, to) /\ (to = "decoded" => Genuine(carried[r]))
      BY <1>4 DEF Decode
    <2>2. to \in Phases
      BY DEF Phases, Answers
    <2>3. phase[r] \notin Answers /\ carried[r] # None
      BY <1>4 DEF Decode, Answers
    <2>4. UNCHANGED <<settings, stage, engine, database, abandoned, users, clock>>
      BY <1>4 DEF Decode, process
    <2> QED BY <1>1, <2>1, <2>2, <2>3, <2>4 DEF Moves, Genuine
  <1> QED BY <1>2, <1>3, <1>4 DEF Progress

\* The limiter after a hit: its script is bound to its client.
LEMMA HitLimiter ==
  ASSUME IInv, NEW r \in Requests, Hit(r)
  PROVE  /\ limiter' \in [client : Clients \cup {None}, script : Clients \cup {None}]
         /\ connected' \subseteq Clients /\ connected' \subseteq {limiter'.client}
         /\ limiter'.script = limiter'.client
  <1>1. PICK c \in Clients : ScriptFor(c) /\ connected' \in {connected, connected \cup {c}}
    BY DEF Hit
  <1>2. /\ limiter \in [client : Clients \cup {None}, script : Clients \cup {None}]
        /\ connected \subseteq Clients /\ connected \subseteq {limiter.client} /\ None \notin Clients
        /\ limiter.script # None => limiter.script = limiter.client
    BY ServiceAssumption DEF IInv, TypeOK, LimiterInv, NothingOutOfReach
  <1>3. CASE limiter.script # None
    BY <1>1, <1>2, <1>3 DEF ScriptFor
  <1>4. CASE limiter.script = None
    <2>1. limiter' = [client |-> c, script |-> c] /\ (limiter.client # None => c = limiter.client)
      BY <1>1, <1>4 DEF ScriptFor
    <2>2. connected \subseteq {c}
      BY <1>2, <2>1
    <2> QED BY <1>1, <2>1, <2>2
  <1> QED BY <1>3, <1>4

\* A new token is cut from the present clock.
LEMMA NewTokenCut ==
  ASSUME TypeOK, settings # None, NEW u \in users
  PROVE  NewToken(u) \in Token /\ Cut(NewToken(u))
  <1>1. settings \in Settings /\ clock \in 0 .. MaxClock /\ clock \in Int /\ u \in Users
    BY ServiceAssumption DEF TypeOK
  <1>2. settings.lifetime \in Int /\ settings.secret_key \in SecretKeys
    BY <1>1 DEF Settings
  <1>3. clock + settings.lifetime * TicksPerSecond \in Int
    BY <1>1, <1>2, LifetimeType
  <1> QED BY <1>1, <1>2, <1>3, SecondsCut DEF NewToken, Token, Cut

LEMMA ProgressStep == ASSUME NEW r \in Requests PROVE IInv /\ Progress(r) => IInv'
  <1> SUFFICES ASSUME IInv, Progress(r) PROVE IInv'
    OBVIOUS
  <1>1. PICK to \in Phases : Moves(r, to)
    BY HandlerMoves DEF IInv
  <1>2. stage \in {"serving", "draining"} /\ stage' = stage /\ settings # None
    BY <1>1 DEF Moves, IInv, RequestInv, TypeOK
  <1>3. database = engine /\ engine # None /\ engines \subseteq abandoned \cup {engine}
    BY <1>2 DEF IInv, EngineInv, Started, Running
  <1>4. engines' \in {engines, engines \cup {database}}
    BY DEF Progress, Hit, HitNothing, Replied, LogIn, Decode, Resolve, Fail, HealthCheck, Query, process
  <1>5. /\ limiter' \in [client : Clients \cup {None}, script : Clients \cup {None}]
        /\ connected' \subseteq Clients /\ LimiterInv'
    <2>1. CASE Hit(r)
      BY <2>1, <1>2, HitLimiter DEF LimiterInv, NothingOutOfReach
    <2>2. CASE ~Hit(r)
      <3>1. UNCHANGED <<limiter, connected>>
        BY <2>2 DEF Progress, HitNothing, Replied, LogIn, Decode, Resolve, Fail, HealthCheck, Query, process
      <3> QED BY <1>2, <3>1 DEF IInv, TypeOK, LimiterInv, NothingOutOfReach
    <2> QED BY <2>1, <2>2
  <1>6. token' \in Token \cup {None} /\ (token' # None => Cut(token'))
    <2>1. token' = token \/ \E u \in users : token' = NewToken(u)
      BY DEF Progress, Hit, HitNothing, Replied, LogIn, Decode, Resolve, Fail, HealthCheck, process
    <2> QED BY <1>2, <2>1, NewTokenCut DEF IInv, TypeOK, TokenInv
  <1>7. /\ UNCHANGED <<settings, stage, engine, database, abandoned, users, clock>>
        /\ phase' = [phase EXCEPT ![r] = to]
        /\ \/ carried' = carried
           \/ carried' = [carried EXCEPT ![r] = None] /\ to # "decoded"
        /\ to = "decoded" => carried[r] # None /\ carried[r].key = settings.secret_key
    BY <1>1 DEF Moves
  <1>8. TypeOK'
    BY <1>2, <1>3, <1>4, <1>5, <1>6, <1>7 DEF IInv, TypeOK
  <1>9. EngineInv'
    BY <1>2, <1>3, <1>4, <1>7 DEF IInv, EngineInv
  <1>10. RequestInv'
    BY <1>2, <1>7 DEF IInv, TypeOK, RequestInv, WeakKey
  <1>11. TokenInv'
    BY <1>6, <1>7 DEF IInv, TypeOK, TokenInv, Cut, Seconds
  <1> QED BY <1>5, <1>8, <1>9, <1>10, <1>11 DEF IInv

\* The environment and stuttering.
LEMMA OtherSteps ==
  IInv /\ ((\E u \in Users : Remove(u)) \/ Tick \/ StepBack \/ UNCHANGED vars) => IInv'
  <1> SUFFICES ASSUME IInv, (\E u \in Users : Remove(u)) \/ Tick \/ StepBack \/ UNCHANGED vars
               PROVE  IInv'
    OBVIOUS
  <1>1. UNCHANGED <<process, client>>
    BY DEF Remove, Tick, StepBack, vars
  <1>2. users' \subseteq Users /\ clock' \in 0 .. MaxClock
    BY ServiceAssumption DEF Remove, Tick, StepBack, vars, IInv, TypeOK
  <1> QED BY <1>1, <1>2 DEF process, client, IInv, TypeOK, LimiterInv, NothingOutOfReach, EngineInv,
             RequestInv, WeakKey, TokenInv, Cut, Seconds

LEMMA Invariance == Spec => []IInv
  <1>1. IInv /\ [Next]_vars => IInv'
    BY StartSteps, StopSteps, ExitStep, ArriveStep, ProgressStep, OtherSteps DEF Next
  <1> QED BY <1>1, InitInv, PTL DEF Spec

-----------------------------------------------------------------------------
\* Every variable keeps its type: what a request queries is an engine.
THEOREM ServiceTypeCorrect == Spec => []TypeOK
  <1>1. IInv => TypeOK
    BY DEF IInv
  <1> QED BY <1>1, Invariance, PTL

\* For any number of hits at once, close() reaches every Redis connection.
THEOREM ClientsInReach == Spec => []NothingOutOfReach
  <1>1. IInv => NothingOutOfReach
    BY DEF IInv, LimiterInv
  <1> QED BY <1>1, Invariance, PTL

\* A lifespan without an exception closes all it opened.
THEOREM LifespansRelease == Spec => []LifespanReleases
  <1>1. IInv => LifespanReleases
    BY DEF IInv, LimiterInv, EngineInv, LifespanReleases
  <1> QED BY <1>1, Invariance, PTL

\* Whatever keys earlier processes had, weak ones count in debug mode only.
THEOREM WeakKeysRefused == Spec => []WeakKeysOnlyInDebug
  <1>1. IInv => WeakKeysOnlyInDebug
    BY DEF IInv, RequestInv, WeakKeysOnlyInDebug, WeakKey, Answers, Started, Running
  <1> QED BY <1>1, Invariance, PTL

\* Only its own steps take a request from its token to an answer.
LEMMA OwnSteps ==
  ASSUME IInv, Next, NEW r \in Requests, phase[r] \in {"admitted", "decoded"},
         phase'[r] \in {"decoded", "unauthorized"}, phase'[r] # phase[r]
  PROVE  LogIn(r) \/ Decode(r) \/ Resolve(r)
  <1>1. CASE \E q \in Requests : Progress(q)
    <2>1. PICK q \in Requests : Progress(q)
      BY <1>1
    <2>2. PICK to \in Phases : Moves(q, to)
      BY <2>1, HandlerMoves DEF IInv
    <2>3. q = r
      BY <2>2 DEF Moves, IInv, TypeOK
    <2> QED BY <2>1, <2>3 DEF Progress, Hit, HitNothing, Replied, Fail, HealthCheck, Goes, IInv, TypeOK
  <1>2. CASE \E q \in Requests : Arrive(q)
    BY <1>2 DEF Arrive, IInv, TypeOK, Answers
  <1>3. CASE Exit
    BY <1>3 DEF Exit, Answers
  <1>4. CASE ~((\E q \in Requests : Progress(q) \/ Arrive(q)) \/ Exit)
    <2>1. UNCHANGED phase
      BY <1>4 DEF Next, Boot, RefuseStart, CreateDatabaseRaises, Start, CreateTables, CreateRaises, Stop, Shutdown,
                  Close, Closed, ReleaseRaises, Dispose, Reenter, Remove, Tick, StepBack, client
    <2> QED BY <2>1
  <1> QED BY <1>1, <1>2, <1>3, <1>4

\* The end of a token by the clock, as decoding sees it.
LEMMA ExpiryRounds ==
  ASSUME TypeOK, NEW t \in Token, Cut(t)
  PROVE  /\ t.exp * TicksPerSecond <= t.issued + t.lifetime * TicksPerSecond
         /\ t.issued + t.lifetime * TicksPerSecond < t.exp * TicksPerSecond + TicksPerSecond
         /\ t.iat * TicksPerSecond <= t.issued
         /\ t.exp * TicksPerSecond \in Int /\ t.iat * TicksPerSecond \in Int
         /\ t.issued + t.lifetime * TicksPerSecond \in Int /\ t.issued \in Int
  <1>1. t.issued \in Int /\ t.issued + t.lifetime * TicksPerSecond \in Int
    BY LifetimeType, ServiceAssumption DEF Token
  <1> QED BY <1>1, SecondsCut DEF Cut

\* For any lifetime and any resolution of the clock, a token is honoured for
\* its lifetime but for less than a second, and never beyond.
THEOREM TokensLiveTheirTime == Spec => TokenLivesItsTime
  <1>1. ASSUME IInv, Next, NEW r \in Requests
        PROVE  LET t == carried[r]
                   end == t.issued + t.lifetime * TicksPerSecond
               IN
               /\ phase[r] = "admitted" /\ phase'[r] = "decoded" => clock < end
               /\ phase[r] \in {"admitted", "decoded"} /\ t # None /\ phase'[r] = "unauthorized" =>
                      \/ t.key # settings.secret_key
                      \/ t.user \notin users
                      \/ clock < t.issued
                      \/ clock > end - TicksPerSecond
    <2> DEFINE t == carried[r]
               end == t.issued + t.lifetime * TicksPerSecond
    <2>1. CASE ~(/\ phase[r] \in {"admitted", "decoded"} /\ t # None
                 /\ phase'[r] \in {"decoded", "unauthorized"} /\ phase'[r] # phase[r])
      <3>1. phase[r] = "admitted" /\ phase'[r] = "decoded" => t # None
        <4>1. phase[r] = "admitted" /\ phase'[r] = "decoded" => LogIn(r) \/ Decode(r) \/ Resolve(r)
          BY <1>1, OwnSteps
        <4> QED BY <4>1, <1>1 DEF LogIn, Decode, Resolve, Goes, IInv, TypeOK
      <3> QED BY <2>1, <3>1
    <2>2. CASE /\ phase[r] \in {"admitted", "decoded"} /\ t # None
               /\ phase'[r] \in {"decoded", "unauthorized"} /\ phase'[r] # phase[r]
      <3>1. LogIn(r) \/ Decode(r) \/ Resolve(r)
        BY <1>1, <2>2, OwnSteps
      <3>2. t \in Token /\ Cut(t) /\ TypeOK /\ clock \in Int /\ TicksPerSecond \in Int
        BY <1>1, <2>2, ServiceAssumption DEF IInv, TypeOK, TokenInv
      <3>3. CASE Decode(r)
        <4>1. phase'[r] = IF Genuine(t) THEN "decoded" ELSE "unauthorized"
          BY <1>1, <3>3 DEF Decode, Goes, IInv, TypeOK
        <4>2. Genuine(t) <=> /\ t.key = settings.secret_key
                             /\ t.iat * TicksPerSecond <= clock
                             /\ clock < t.exp * TicksPerSecond
          BY DEF Genuine
        <4> DEFINE last == t.exp * TicksPerSecond
                   first == t.iat * TicksPerSecond
        <4>3. /\ last <= end /\ end < last + TicksPerSecond /\ first <= t.issued
              /\ last \in Int /\ first \in Int /\ end \in Int /\ t.issued \in Int
          BY <3>2, ExpiryRounds
        <4> HIDE DEF t, end, last, first
        <4>4. Genuine(t) => clock < end
          BY <3>2, <4>2, <4>3 DEF last
        <4>5. ~Genuine(t) => \/ t.key # settings.secret_key
                             \/ clock < t.issued
                             \/ clock > end - TicksPerSecond
          BY <3>2, <4>2, <4>3 DEF last, first
        <4> QED BY <4>1, <4>4, <4>5 DEF t, end
      <3>4. CASE Resolve(r)
        BY <1>1, <2>2, <3>4 DEF Resolve, Goes, IInv, TypeOK
      <3>5. CASE LogIn(r)
        BY <2>2, <3>5 DEF LogIn
      <3> QED BY <3>1, <3>3, <3>4, <3>5
    <2> QED BY <2>1, <2>2
  <1>2. IInv /\ [Next]_vars => [\A r \in Requests :
        LET t == carried[r]
            end == t.issued + t.lifetime * TicksPerSecond
        IN
        /\ phase[r] = "admitted" /\ phase'[r] = "decoded" => clock < end
        /\ phase[r] \in {"admitted", "decoded"} /\ t # None /\ phase'[r] = "unauthorized" =>
               \/ t.key # settings.secret_key
               \/ t.user \notin users
               \/ clock < t.issued
               \/ clock > end - TicksPerSecond]_vars
    BY <1>1
  <1> QED BY <1>2, Invariance, PTL DEF Spec, TokenLivesItsTime
=============================================================================
