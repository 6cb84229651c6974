------------------------------ MODULE Accounts ------------------------------
(***************************************************************************)
(* POST /auth/register and POST /auth/login from the handler to the        *)
(* response: the two use cases, the user repository, and the unit of work  *)
(* (get_session) that commits before the response is sent.  Requests run   *)
(* concurrently in worker processes that may die; each worker has its own  *)
(* connection pool.  The database is PostgreSQL at READ COMMITTED: a       *)
(* statement sees the committed rows, and an INSERT of a key that another  *)
(* open transaction has inserted waits for that transaction to end.        *)
(***************************************************************************)
EXTENDS AccountCalls, FiniteSets

CONSTANTS
    Workers,    \* the uvicorn worker processes
    WorkerOf,   \* [Requests -> Workers]: which worker serves a request
    PoolSize    \* connections a worker's engine may have checked out

ASSUME WorkerAssumption ==
    /\ WorkerOf \in [Requests -> Workers]
    /\ PoolSize \in Nat \ {0}

VARIABLES
    users,      \* committed rows of the users table
    call,       \* what each request asks, fixed from the start
    phase,      \* how far the handling of each request has come
    verdict,    \* status code the request will be answered with, 0 before
    found,      \* the user a login loaded, as a set of at most one id
    before      \* history: the requests answered before this one arrived

vars == <<users, call, phase, verdict, found, before>>

\* "checked", "inserted", "found": a transaction is open.  "unwinding": an
\* exception is on its way through get_session.  "closed": the session is
\* closed and the response not yet sent.
Phases == {"idle", "called", "checked", "inserted", "found", "unwinding",
           "closed", "done", "lost"}

TypeOK ==
    /\ users \subseteq UserRow
    /\ call \in [Requests -> Calls]
    /\ phase \in [Requests -> Phases]
    /\ verdict \in [Requests -> {0, 200, 201, 401, 409, 422, 500}]
    /\ found \in [Requests -> SUBSET Requests]
    /\ before \in [Requests -> SUBSET Requests]

Init ==
    /\ users = {}
    /\ call \in [Requests -> Calls]
    /\ phase = [r \in Requests |-> "idle"]
    /\ verdict = [r \in Requests |-> 0]
    /\ found = [r \in Requests |-> {}]
    /\ before = [r \in Requests |-> {}]

-----------------------------------------------------------------------------
Email(r) == NormalizeEmail(call[r])

HoldsConnection(r) == phase[r] \in {"checked", "inserted", "found", "unwinding"}

PoolHasRoom(r) ==
    Cardinality({s \in Requests : WorkerOf[s] = WorkerOf[r] /\ HoldsConnection(s)})
        < PoolSize

\* Requests whose uncommitted row keeps the INSERT of r waiting.
Blockers(r) == {s \in Requests \ {r} : phase[s] = "inserted" /\ Email(s) = Email(r)}

\* Request r moves on to phase p, to be answered with code (0: not known yet).
GoesTo(r, p, code) ==
    /\ phase' = [phase EXCEPT ![r] = p]
    /\ verdict' = [verdict EXCEPT ![r] = code]

Arrive(r) ==
    /\ phase[r] = "idle"
    /\ GoesTo(r, "called", 0)
    /\ before' = [before EXCEPT ![r] = {s \in Requests : phase[s] = "done"}]
    /\ UNCHANGED <<users, call, found>>

\* The session is opened, no statement is sent: there is nothing to undo.
Reject(r) ==
    /\ phase[r] = "called" /\ ~Valid(call[r])
    /\ GoesTo(r, "closed", 422)
    /\ UNCHANGED <<users, call, found, before>>

\* get_by_email, then hash the password if the address is free.
CheckEmail(r) ==
    /\ phase[r] = "called" /\ Valid(call[r]) /\ call[r].kind = "register"
    /\ PoolHasRoom(r)
    /\ IF Registered(users, Email(r)) THEN GoesTo(r, "unwinding", 409)
                                      ELSE GoesTo(r, "checked", 0)
    /\ UNCHANGED <<users, call, found, before>>

\* Mutants of Insert: the index is not unique; a row of an open transaction
\* is taken for a conflict instead of being waited for; an IntegrityError is
\* taken for one that passes, and the INSERT tried again.
InsertAnyEmail(r) ==
    /\ phase[r] = "checked"
    /\ GoesTo(r, "inserted", 0)
    /\ UNCHANGED <<users, call, found, before>>

InsertNoWait(r) ==
    /\ phase[r] = "checked"
    /\ IF Blockers(r) # {} \/ Registered(users, Email(r))
       THEN GoesTo(r, "unwinding", 409)
       ELSE GoesTo(r, "inserted", 0)
    /\ UNCHANGED <<users, call, found, before>>

InsertRetried(r) ==
    /\ phase[r] = "checked"
    /\ Blockers(r) = {} /\ ~Registered(users, Email(r))
    /\ GoesTo(r, "inserted", 0)
    /\ UNCHANGED <<users, call, found, before>>

\* users.add: flush the INSERT; a duplicate key becomes ConflictError.
Insert(r) ==
    /\ phase[r] = "checked"
    /\ Blockers(r) = {}
    /\ IF Registered(users, Email(r)) THEN GoesTo(r, "unwinding", 409)
                                      ELSE GoesTo(r, "inserted", 0)
    /\ UNCHANGED <<users, call, found, before>>

\* Mutant of LookUp: the SELECT sees rows of open transactions.
LookUpDirty(r) ==
    /\ phase[r] = "called" /\ Valid(call[r]) /\ call[r].kind = "login"
    /\ PoolHasRoom(r)
    /\ LET open == {NewUser(s, call[s]) : s \in {t \in Requests : phase[t] = "inserted"}}
           matching == Matches(users \cup open, call[r]) IN
        /\ IF matching = {} THEN GoesTo(r, "unwinding", 401)
                            ELSE GoesTo(r, "found", 0)
        /\ found' = [found EXCEPT ![r] = {u.id : u \in matching}]
    /\ UNCHANGED <<users, call, before>>

\* Login: one SELECT, then the bcrypt comparison.
LookUp(r) ==
    /\ phase[r] = "called" /\ Valid(call[r]) /\ call[r].kind = "login"
    /\ PoolHasRoom(r)
    /\ LET matching == Matches(users, call[r]) IN
        /\ IF matching = {} THEN GoesTo(r, "unwinding", 401)
                            ELSE GoesTo(r, "found", 0)
        /\ found' = [found EXCEPT ![r] = {u.id : u \in matching}]
    /\ UNCHANGED <<users, call, before>>

\* The COMMIT takes effect in the database.
Applied(r) ==
    users' = IF phase[r] = "inserted" THEN users \cup {NewUser(r, call[r])}
                                      ELSE users

\* Mutant of Commit: the session is closed without a COMMIT.
CommitForgotten(r) ==
    /\ phase[r] \in {"inserted", "found"}
    /\ GoesTo(r, "closed", IF phase[r] = "inserted" THEN 201 ELSE 200)
    /\ UNCHANGED <<users, call, found, before>>

Commit(r) ==
    /\ phase[r] \in {"inserted", "found"}
    /\ Applied(r)
    /\ GoesTo(r, "closed", IF phase[r] = "inserted" THEN 201 ELSE 200)
    /\ UNCHANGED <<call, found, before>>

\* Mutant of CommitRaises: the exception is swallowed.
CommitErrorSwallowed(r) ==
    /\ phase[r] \in {"inserted", "found"}
    /\ Applied(r) \/ UNCHANGED users
    /\ GoesTo(r, "closed", IF phase[r] = "inserted" THEN 201 ELSE 200)
    /\ UNCHANGED <<call, found, before>>

\* session.commit() raises: the COMMIT took effect and its acknowledgement
\* was lost, or it did not take effect.
CommitRaises(r) ==
    /\ phase[r] \in {"inserted", "found"}
    /\ Applied(r) \/ UNCHANGED users
    /\ GoesTo(r, "unwinding", 500)
    /\ UNCHANGED <<call, found, before>>

\* A statement raises (connection lost, lock or statement timeout).
StatementRaises(r) ==
    /\ \/ phase[r] = "checked"
       \/ phase[r] = "called" /\ Valid(call[r]) /\ PoolHasRoom(r)
    /\ GoesTo(r, "unwinding", 500)
    /\ UNCHANGED <<users, call, found, before>>

\* No connection became free within the pool's timeout.
PoolTimeout(r) ==
    /\ phase[r] = "called" /\ Valid(call[r]) /\ ~PoolHasRoom(r)
    /\ GoesTo(r, "closed", 500)
    /\ UNCHANGED <<users, call, found, before>>

\* except Exception: rollback, raise; a failing rollback raises itself.
Rollback(r) ==
    /\ phase[r] = "unwinding"
    /\ \E code \in {verdict[r], 500} : GoesTo(r, "closed", code)
    /\ UNCHANGED <<users, call, found, before>>

Respond(r) ==
    /\ phase[r] = "closed"
    /\ GoesTo(r, "done", verdict[r])
    /\ UNCHANGED <<users, call, found, before>>

\* A worker dies: its connections drop, open transactions are undone by the
\* database, and none of its requests is answered.
InFlight(w) ==
    {r \in Requests : WorkerOf[r] = w /\ phase[r] \notin {"idle", "done", "lost"}}

Crash(w) ==
    /\ InFlight(w) # {}
    /\ phase' = [r \in Requests |-> IF r \in InFlight(w) THEN "lost" ELSE phase[r]]
    /\ UNCHANGED <<users, call, verdict, found, before>>

\* Every request there will be has been dealt with.
Finished ==
    /\ \A r \in Requests : phase[r] \in {"done", "lost"}
    /\ UNCHANGED vars

\* What the event loop, the database and the pool get done by themselves.
Progress(r) ==
    \/ Reject(r) \/ CheckEmail(r) \/ Insert(r) \/ LookUp(r) \/ Commit(r)
    \/ PoolTimeout(r) \/ Rollback(r) \/ Respond(r)

Next ==
    \/ \E r \in Requests :
          Arrive(r) \/ Progress(r) \/ CommitRaises(r) \/ StatementRaises(r)
    \/ \E w \in Workers : Crash(w)
    \/ Finished

Fairness == \A r \in Requests : WF_vars(Progress(r))

Spec == Init /\ [][Next]_vars /\ Fairness
-----------------------------------------------------------------------------
\* Two spellings of one address never end up as two accounts, however the
\* pre-check SELECTs, INSERTs and COMMITs of concurrent registrations
\* interleave (user_repository.add, unique index on users.email).
OneAccountPerEmail == \A u, v \in users : u.email = v.email => u = v

\* A response 201 is only ever sent for an account the database has kept,
\* whatever fails afterwards (get_session commits before the response).
CreatedIsKept ==
    \A r \in Requests : verdict[r] = 201 => NewUser(r, call[r]) \in users

\* A response 409 is true: the address belongs to an account that exists, not
\* to a registration that was still open and then came to nothing.
ConflictIsReal ==
    \A r \in Requests : verdict[r] = 409 =>
        \E u \in users : u.email = Email(r) /\ u.id # r

\* Who was told 201 can log in with the same credentials right away, and
\* nobody can register that address again.
ReadYourWrites ==
    \A r, s \in Requests :
        (s \in before[r] /\ verdict[s] = 201 /\ Email(s) = Email(r)) =>
            /\ call[r].kind = "register" => verdict[r] # 201
            /\ call[r].kind = "login" /\ First72[call[r].password] = call[s].password
                  => verdict[r] # 401

\* The token a login returns names exactly one account, and one whose
\* password the client knows: get_by_email's scalar_one_or_none meets at most
\* one row, and that row outlives the login's transaction.
TokenNamesAccount ==
    \A r \in Requests : verdict[r] = 200 =>
        \E u \in users :
            found[r] = {u.id} /\ u.email = Email(r) /\ Verify(call[r].password, u)

\* Every call that arrives is answered or lost with its worker: neither the
\* wait for another registration of the address nor the wait for a
\* connection lasts for ever.
EveryCallEnds ==
    \A r \in Requests : phase[r] = "called" ~> phase[r] \in {"done", "lost"}

-----------------------------------------------------------------------------
\* The account book a client sees: a call is open until its outcome is
\* decided by a COMMIT, by a SELECT that refuses it, or by an error.
StatusOf(p) ==
    CASE p = "idle" -> "new"
      [] p \in {"called", "checked", "inserted", "found"} -> "open"
      [] p \in {"unwinding", "closed"} -> "settled"
      [] p = "done" -> "replied"
      [] p = "lost" -> "lost"

BookStatus == [r \in Requests |-> StatusOf(phase[r])]

Abs == INSTANCE AccountBook
           WITH accounts <- users, calls <- call, status <- BookStatus, result <- verdict

\* The endpoints implement the account book: each call takes effect at one
\* instant between arrival and reply, at most once, and the reply is true of
\* that instant (refinement of AccountBook).
ImplementsBook == Abs!Book
=============================================================================
