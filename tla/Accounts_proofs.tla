--------------------------- MODULE Accounts_proofs --------------------------
(***************************************************************************)
(* Proofs about Accounts for every set of requests, workers and calls, and *)
(* every pool size.  IInv is the inductive invariant: it says which row    *)
(* each request owns, what an open INSERT excludes, and when a verdict may *)
(* be set.  The properties of Accounts follow from it.                     *)
(***************************************************************************)
EXTENDS Accounts, TLAPS

\* Before its outcome is decided a request has no verdict; an exception on
\* its way out is a refusal or an error.
Undecided == {"idle", "called", "checked", "inserted", "found"}

VerdictFitsPhase ==
    \A r \in Requests :
        /\ phase[r] \in Undecided => verdict[r] = 0
        /\ phase[r] = "unwinding" => verdict[r] \in {401, 409, 500}

\* A transaction is only open for a valid call of its kind.
PhaseFitsCall ==
    \A r \in Requests :
        /\ phase[r] \in {"checked", "inserted"} =>
              Valid(call[r]) /\ call[r].kind = "register"
        /\ phase[r] = "found" => Valid(call[r]) /\ call[r].kind = "login"

\* A row is the row of the request that inserted it, whose COMMIT was sent.
RowsAreOwned ==
    \A u \in users :
        /\ u = NewUser(u.id, call[u.id])
        /\ phase[u.id] \notin Undecided

\* While an INSERT is open nobody has the address, committed or open.
OpenInsertExcludes ==
    \A r \in Requests : phase[r] = "inserted" =>
        /\ ~Registered(users, Email(r))
        /\ Blockers(r) = {}

\* A login that found its user keeps naming it.
FoundNamesAccount ==
    \A r \in Requests : (phase[r] = "found" \/ verdict[r] = 200) =>
        \E u \in users :
            found[r] = {u.id} /\ u.email = Email(r) /\ Verify(call[r].password, u)

\* The requests answered before r arrived have their final verdict.
BeforeIsDone ==
    \A r \in Requests :
        /\ r \notin before[r]
        /\ \A s \in before[r] : phase[s] = "done"

IInv ==
    /\ TypeOK
    /\ VerdictFitsPhase
    /\ PhaseFitsCall
    /\ RowsAreOwned
    /\ OpenInsertExcludes
    /\ OneAccountPerEmail
    /\ CreatedIsKept
    /\ ConflictIsReal
    /\ FoundNamesAccount
    /\ BeforeIsDone
    /\ ReadYourWrites

-----------------------------------------------------------------------------
\* The endpoints begin with an empty table, of which all of it is true.
LEMMA InitInv == Init => IInv
  BY DEF Init, IInv, TypeOK, VerdictFitsPhase, PhaseFitsCall, RowsAreOwned,
         OpenInsertExcludes, OneAccountPerEmail, CreatedIsKept, ConflictIsReal,
         FoundNamesAccount, BeforeIsDone, ReadYourWrites, Phases, UserRow, Undecided

\* A step in which nothing happens keeps it.
LEMMA StutterInv == IInv /\ UNCHANGED vars => IInv'
  BY DEF IInv, vars, TypeOK, VerdictFitsPhase, PhaseFitsCall, RowsAreOwned,
         OpenInsertExcludes, OneAccountPerEmail, CreatedIsKept, ConflictIsReal,
         FoundNamesAccount, BeforeIsDone, ReadYourWrites, Registered, Blockers,
         Email, Verify

\* The row of a valid call is a row.
LEMMA NewUserType ==
  ASSUME NEW r \in Requests, NEW c \in Calls, Valid(c)
  PROVE  NewUser(r, c) \in UserRow
  BY CallAssumption DEF NewUser, UserRow, Valid, NormalizeEmail

\* A step that writes nothing to the database, opens no INSERT and finds no
\* user: it may only refuse or delay the request, and a new refusal with 409
\* needs an account that has the address.
LEMMA QuietInv ==
  ASSUME IInv, NEW r \in Requests, NEW p \in Phases \ {"inserted", "found"},
         NEW code \in {0, verdict[r], 409, 422, 500},
         GoesTo(r, p, code), UNCHANGED <<users, call, found, before>>,
         phase[r] # "done",
         p \in Undecided => phase[r] \in Undecided /\ code = 0,
         p = "checked" => Valid(call[r]) /\ call[r].kind = "register",
         p = "unwinding" => code \in {409, 500},
         code # verdict[r] /\ code = 409 =>
             phase[r] \in Undecided /\ Registered(users, Email(r))
  PROVE  IInv'
  <1>1. TypeOK'
    BY DEF IInv, GoesTo, TypeOK, Phases
  <1>2. VerdictFitsPhase' /\ PhaseFitsCall' /\ BeforeIsDone'
    BY DEF IInv, GoesTo, TypeOK, VerdictFitsPhase, PhaseFitsCall, BeforeIsDone, Undecided
  <1>3. RowsAreOwned'
    BY DEF IInv, GoesTo, TypeOK, RowsAreOwned, UserRow
  <1>4. OpenInsertExcludes' /\ OneAccountPerEmail'
    BY DEF IInv, GoesTo, TypeOK, OpenInsertExcludes, OneAccountPerEmail,
           Registered, Blockers, Email
  <1>5. CreatedIsKept' /\ FoundNamesAccount'
    BY DEF IInv, GoesTo, TypeOK, CreatedIsKept, FoundNamesAccount, Email, Verify
  <1>6. ConflictIsReal'
    BY DEF IInv, GoesTo, TypeOK, ConflictIsReal, RowsAreOwned, Registered, Email
  <1>7. ReadYourWrites'
    <2> SUFFICES ASSUME NEW q \in Requests, NEW s \in Requests,
                        s \in before[q], verdict'[s] = 201, Email(s) = Email(q)
                 PROVE  /\ call[q].kind = "register" => verdict'[q] # 201
                        /\ call[q].kind = "login"
                           /\ First72[call[q].password] = call[s].password
                              => verdict'[q] # 401
      BY DEF ReadYourWrites, Email
    <2>1. s # r /\ verdict[s] = 201
      BY DEF IInv, BeforeIsDone, GoesTo, TypeOK
    <2> QED BY <2>1 DEF IInv, ReadYourWrites, GoesTo, TypeOK
  <1> QED BY <1>1, <1>2, <1>3, <1>4, <1>5, <1>6, <1>7 DEF IInv

\* A call that arrives relies on nothing yet but what was done before it.
LEMMA ArriveInv == ASSUME IInv, NEW r \in Requests, Arrive(r) PROVE IInv'
  <1>1. TypeOK' /\ VerdictFitsPhase' /\ PhaseFitsCall' /\ BeforeIsDone'
    BY DEF IInv, Arrive, GoesTo, TypeOK, Phases, VerdictFitsPhase, PhaseFitsCall,
           BeforeIsDone, Undecided
  <1>2. RowsAreOwned'
    BY DEF IInv, Arrive, GoesTo, TypeOK, RowsAreOwned, UserRow, Undecided
  <1>3. OpenInsertExcludes' /\ OneAccountPerEmail'
    BY DEF IInv, Arrive, GoesTo, TypeOK, OpenInsertExcludes, OneAccountPerEmail,
           Registered, Blockers, Email
  <1>4. CreatedIsKept' /\ ConflictIsReal' /\ FoundNamesAccount'
    BY DEF IInv, Arrive, GoesTo, TypeOK, CreatedIsKept, ConflictIsReal,
           FoundNamesAccount, Email, Verify
  <1>5. ReadYourWrites'
    BY DEF IInv, Arrive, GoesTo, TypeOK, ReadYourWrites, BeforeIsDone, Email
  <1> QED BY <1>1, <1>2, <1>3, <1>4, <1>5 DEF IInv

\* get_by_email refuses with a row to show for it, or decides nothing.
LEMMA CheckEmailInv == ASSUME IInv, NEW r \in Requests, CheckEmail(r) PROVE IInv'
  <1>1. CASE Registered(users, Email(r))
    BY <1>1, QuietInv DEF CheckEmail, Phases, Undecided
  <1>2. CASE ~Registered(users, Email(r))
    BY <1>2, QuietInv DEF CheckEmail, Phases, Undecided
  <1> QED BY <1>1, <1>2

\* The INSERT that goes through found the address neither committed nor open.
LEMMA InsertInv == ASSUME IInv, NEW r \in Requests, Insert(r) PROVE IInv'
  <1>1. CASE Registered(users, Email(r))
    BY <1>1, QuietInv DEF Insert, Phases, Undecided
  <1>2. CASE ~Registered(users, Email(r))
    <2>1. /\ phase[r] = "checked" /\ Blockers(r) = {}
          /\ GoesTo(r, "inserted", 0) /\ UNCHANGED <<users, call, found, before>>
      BY <1>2 DEF Insert
    <2>2. TypeOK' /\ VerdictFitsPhase' /\ PhaseFitsCall' /\ BeforeIsDone'
      BY <2>1 DEF IInv, GoesTo, TypeOK, Phases, VerdictFitsPhase, PhaseFitsCall,
                  BeforeIsDone, Undecided
    <2>3. RowsAreOwned'
      BY <2>1 DEF IInv, GoesTo, TypeOK, RowsAreOwned, UserRow, Undecided
    <2>4. OpenInsertExcludes' /\ OneAccountPerEmail'
      BY <1>2, <2>1 DEF IInv, GoesTo, TypeOK, OpenInsertExcludes, OneAccountPerEmail,
                        Registered, Blockers, Email
    <2>5. CreatedIsKept' /\ ConflictIsReal' /\ FoundNamesAccount'
      BY <2>1 DEF IInv, GoesTo, TypeOK, CreatedIsKept, ConflictIsReal,
                  FoundNamesAccount, Email, Verify
    <2>6. ReadYourWrites'
      BY <2>1 DEF IInv, GoesTo, TypeOK, ReadYourWrites, BeforeIsDone, Email
    <2> QED BY <2>2, <2>3, <2>4, <2>5, <2>6 DEF IInv
  <1> QED BY <1>1, <1>2

\* A login reads committed rows: what was answered 201 before it is there.
LEMMA LookUpInv == ASSUME IInv, NEW r \in Requests, LookUp(r) PROVE IInv'
  <1> DEFINE matching == Matches(users, call[r])
  <1>1. /\ phase[r] = "called" /\ Valid(call[r]) /\ call[r].kind = "login"
        /\ found' = [found EXCEPT ![r] = {u.id : u \in matching}]
        /\ UNCHANGED <<users, call, before>>
    BY DEF LookUp
  <1>2. \/ matching = {} /\ GoesTo(r, "unwinding", 401)
        \/ matching # {} /\ GoesTo(r, "found", 0)
    BY DEF LookUp
  <1>3. TypeOK'
    <2>1. {u.id : u \in matching} \subseteq Requests
      BY DEF IInv, TypeOK, UserRow, Matches
    <2> QED BY <1>1, <1>2, <2>1 DEF IInv, GoesTo, TypeOK, Phases
  <1>4. VerdictFitsPhase' /\ PhaseFitsCall' /\ BeforeIsDone'
    BY <1>1, <1>2 DEF IInv, GoesTo, TypeOK, VerdictFitsPhase, PhaseFitsCall,
                      BeforeIsDone, Undecided
  <1>5. RowsAreOwned'
    BY <1>1, <1>2 DEF IInv, GoesTo, TypeOK, RowsAreOwned, UserRow, Undecided
  <1>6. OpenInsertExcludes' /\ OneAccountPerEmail'
    BY <1>1, <1>2 DEF IInv, GoesTo, TypeOK, OpenInsertExcludes, OneAccountPerEmail,
                      Registered, Blockers, Email
  <1>7. CreatedIsKept' /\ ConflictIsReal'
    BY <1>1, <1>2 DEF IInv, GoesTo, TypeOK, CreatedIsKept, ConflictIsReal, Email
  <1>8. FoundNamesAccount'
    <2>1. matching # {} => \E u \in users : /\ matching = {u} /\ u.email = Email(r)
                                            /\ Verify(call[r].password, u)
      BY DEF IInv, OneAccountPerEmail, Matches, Email
    <2>2. matching # {} => \E u \in users : /\ {v.id : v \in matching} = {u.id}
                                            /\ u.email = Email(r)
                                            /\ Verify(call[r].password, u)
      BY <2>1
    <2>3. ASSUME NEW q \in Requests, phase'[q] = "found" \/ verdict'[q] = 200
          PROVE  \E u \in users : /\ found'[q] = {u.id} /\ u.email = Email(q)
                                  /\ Verify(call[q].password, u)
      <3>1. CASE q = r
        BY <1>1, <1>2, <2>2, <2>3, <3>1 DEF IInv, GoesTo, TypeOK
      <3>2. CASE q # r
        BY <1>1, <1>2, <2>3, <3>2 DEF IInv, GoesTo, TypeOK, FoundNamesAccount
      <3> QED BY <3>1, <3>2
    <2> QED BY <1>1, <2>3 DEF FoundNamesAccount, Email, Verify
  <1>9. ReadYourWrites'
    <2> SUFFICES ASSUME NEW q \in Requests, NEW s \in Requests,
                        s \in before[q], verdict'[s] = 201, Email(s) = Email(q)
                 PROVE  /\ call[q].kind = "register" => verdict'[q] # 201
                        /\ call[q].kind = "login"
                           /\ First72[call[q].password] = call[s].password
                              => verdict'[q] # 401
      BY <1>1 DEF ReadYourWrites, Email
    <2>1. s # r /\ verdict[s] = 201 /\ NewUser(s, call[s]) \in users
      BY <1>1, <1>2 DEF IInv, GoesTo, TypeOK, BeforeIsDone, CreatedIsKept
    <2>2. CASE q = r
      <3>1. First72[call[r].password] = call[s].password
                => NewUser(s, call[s]) \in matching
        BY <2>1, <2>2 DEF Matches, Verify, NewUser, Email
      <3> QED BY <1>1, <1>2, <2>2, <3>1 DEF IInv, GoesTo, TypeOK
    <2>3. CASE q # r
      BY <1>1, <1>2, <2>1, <2>3 DEF IInv, GoesTo, TypeOK, ReadYourWrites
    <2> QED BY <2>2, <2>3
  <1> QED BY <1>3, <1>4, <1>5, <1>6, <1>7, <1>8, <1>9 DEF IInv

\* What a COMMIT that takes effect does to the facts about rows: the open
\* INSERT excluded every other row and every other open INSERT of the address.
LEMMA AppliedInv ==
  ASSUME IInv, NEW r \in Requests, phase[r] \in {"inserted", "found"}, Applied(r),
         NEW p \in {"closed", "unwinding"}, NEW code \in {200, 201, 500},
         GoesTo(r, p, code), UNCHANGED <<call, found, before>>,
         p = "unwinding" => code = 500,
         code = 201 => phase[r] = "inserted",
         code = 200 => phase[r] = "found"
  PROVE  IInv'
  <1>1. TypeOK'
    <2>1. users' \subseteq UserRow
      BY NewUserType DEF IInv, TypeOK, PhaseFitsCall, Applied
    <2> QED BY <2>1 DEF IInv, GoesTo, TypeOK, Phases
  <1>2. VerdictFitsPhase' /\ PhaseFitsCall' /\ BeforeIsDone'
    BY DEF IInv, GoesTo, TypeOK, VerdictFitsPhase, PhaseFitsCall, BeforeIsDone, Undecided
  <1>3. RowsAreOwned'
    <2> SUFFICES ASSUME NEW u \in users'
                 PROVE  u = NewUser(u.id, call[u.id]) /\ phase'[u.id] \notin Undecided
      BY DEF RowsAreOwned, NewUser, NormalizeEmail
    <2>1. CASE u \in users
      BY <2>1 DEF IInv, GoesTo, TypeOK, RowsAreOwned, UserRow, Undecided
    <2>2. CASE u = NewUser(r, call[r])
      BY <2>2 DEF IInv, GoesTo, TypeOK, NewUser, Undecided
    <2> QED BY <2>1, <2>2 DEF Applied
  <1>4. OneAccountPerEmail'
    BY DEF IInv, OneAccountPerEmail, OpenInsertExcludes, Registered, Applied, NewUser, Email
  <1>5. OpenInsertExcludes'
    BY DEF IInv, GoesTo, TypeOK, OpenInsertExcludes, Registered, Blockers, Email,
           Applied, NewUser
  <1>6. CreatedIsKept' /\ ConflictIsReal' /\ FoundNamesAccount'
    BY DEF IInv, GoesTo, TypeOK, VerdictFitsPhase, Undecided, CreatedIsKept,
           ConflictIsReal, FoundNamesAccount, Email, Verify, Applied, NewUser
  <1>7. ReadYourWrites'
    <2> SUFFICES ASSUME NEW q \in Requests, NEW s \in Requests,
                        s \in before[q], verdict'[s] = 201, Email(s) = Email(q)
                 PROVE  /\ call[q].kind = "register" => verdict'[q] # 201
                        /\ call[q].kind = "login"
                           /\ First72[call[q].password] = call[s].password
                              => verdict'[q] # 401
      BY DEF ReadYourWrites, Email
    <2>1. s # r /\ verdict[s] = 201
      BY DEF IInv, GoesTo, TypeOK, BeforeIsDone
    <2>2. CASE q = r
      <3>1. NewUser(s, call[s]) \in users
        BY <2>1 DEF IInv, CreatedIsKept
      <3>2. Registered(users, Email(r))
        BY <2>2, <3>1 DEF Registered, NewUser, Email
      <3>3. phase[r] # "inserted"
        BY <3>2 DEF IInv, OpenInsertExcludes
      <3> QED BY <2>2, <3>3 DEF IInv, GoesTo, TypeOK
    <2>3. CASE q # r
      BY <2>1, <2>3 DEF IInv, GoesTo, TypeOK, ReadYourWrites
    <2> QED BY <2>2, <2>3
  <1> QED BY <1>1, <1>2, <1>3, <1>4, <1>5, <1>6, <1>7 DEF IInv

\* A COMMIT that does not take effect leaves the rows as they are.
LEMMA NotAppliedInv ==
  ASSUME IInv, NEW r \in Requests, phase[r] \in {"inserted", "found"},
         GoesTo(r, "unwinding", 500), UNCHANGED <<users, call, found, before>>
  PROVE  IInv'
  BY QuietInv DEF Phases, Undecided

\* get_session commits and the client is answered,
LEMMA CommitInv == ASSUME IInv, NEW r \in Requests, Commit(r) PROVE IInv'
  <1>1. CASE phase[r] = "inserted"
    BY <1>1, AppliedInv DEF Commit
  <1>2. CASE phase[r] = "found"
    BY <1>2, AppliedInv DEF Commit
  <1> QED BY <1>1, <1>2 DEF Commit

\* or commit() raises, having taken effect or not.
LEMMA CommitRaisesInv == ASSUME IInv, NEW r \in Requests, CommitRaises(r) PROVE IInv'
  BY AppliedInv, NotAppliedInv DEF CommitRaises

\* The steps that only refuse, delay or report.
LEMMA RefusalInv ==
  ASSUME IInv, NEW r \in Requests,
         \/ Reject(r) \/ StatementRaises(r) \/ PoolTimeout(r)
         \/ Rollback(r) \/ Respond(r)
  PROVE  IInv'
  <1>1. CASE Reject(r)
    BY <1>1, QuietInv DEF Reject, Phases, Undecided
  <1>2. CASE StatementRaises(r)
    BY <1>2, QuietInv DEF StatementRaises, Phases, Undecided
  <1>3. CASE PoolTimeout(r)
    BY <1>3, QuietInv DEF PoolTimeout, Phases, Undecided
  <1>4. CASE Rollback(r)
    BY <1>4, QuietInv DEF Rollback, Phases, Undecided
  <1>5. CASE Respond(r)
    BY <1>5, QuietInv DEF Respond, Phases, Undecided
  <1> QED BY <1>1, <1>2, <1>3, <1>4, <1>5

\* A worker that dies leaves its requests without an answer.
LEMMA CrashInv == ASSUME IInv, NEW w \in Workers, Crash(w) PROVE IInv'
  <1>1. /\ UNCHANGED <<users, call, verdict, found, before>>
        /\ \A r \in Requests :
              phase'[r] = phase[r] \/ (phase'[r] = "lost" /\ phase[r] # "done")
        /\ phase' \in [Requests -> Phases]
    BY DEF IInv, TypeOK, Crash, InFlight, Phases
  <1>2. TypeOK' /\ VerdictFitsPhase' /\ PhaseFitsCall' /\ BeforeIsDone'
    BY <1>1 DEF IInv, TypeOK, VerdictFitsPhase, PhaseFitsCall, BeforeIsDone, Undecided
  <1>3. RowsAreOwned'
    BY <1>1 DEF IInv, TypeOK, RowsAreOwned, UserRow, Undecided
  <1>4. OpenInsertExcludes' /\ OneAccountPerEmail'
    BY <1>1 DEF IInv, OpenInsertExcludes, OneAccountPerEmail, Registered, Blockers, Email
  <1>5. CreatedIsKept' /\ ConflictIsReal' /\ FoundNamesAccount' /\ ReadYourWrites'
    BY <1>1 DEF IInv, CreatedIsKept, ConflictIsReal, FoundNamesAccount,
                ReadYourWrites, Email, Verify
  <1> QED BY <1>2, <1>3, <1>4, <1>5 DEF IInv

\* Every step keeps the invariant.
LEMMA NextInv == IInv /\ [Next]_vars => IInv'
  BY StutterInv, ArriveInv, CheckEmailInv, InsertInv, LookUpInv, CommitInv,
     CommitRaisesInv, RefusalInv, CrashInv
     DEF Next, Progress, Finished

-----------------------------------------------------------------------------
\* Every reachable state satisfies the inductive invariant.
THEOREM InvariantHolds == Spec => []IInv
  BY InitInv, NextInv, PTL DEF Spec

\* The variables keep their types in every run of the endpoints.
THEOREM AccountsTypeCorrect == Spec => []TypeOK
  <1>1. IInv => TypeOK
    BY DEF IInv
  <1> QED BY <1>1, InvariantHolds, PTL

\* Concurrent registrations never leave two accounts with one address
\* (user_repository.add against the unique index).
THEOREM EmailsAreUnique == Spec => []OneAccountPerEmail
  <1>1. IInv => OneAccountPerEmail
    BY DEF IInv
  <1> QED BY <1>1, InvariantHolds, PTL

\* A 201 is only sent for a committed account, a 409 only when the address
\* belongs to a committed account of another request (get_session, register).
THEOREM AnswersAreTrue == Spec => [](CreatedIsKept /\ ConflictIsReal)
  <1>1. IInv => CreatedIsKept /\ ConflictIsReal
    BY DEF IInv
  <1> QED BY <1>1, InvariantHolds, PTL

\* ConflictIsReal: no registration is refused because of one that was still
\* open and came to nothing (user_repository.add waits for it).
THEOREM ConflictsAreReal == Spec => []ConflictIsReal
  <1>1. CreatedIsKept /\ ConflictIsReal => ConflictIsReal
    OBVIOUS
  <1> QED BY <1>1, AnswersAreTrue, PTL

\* A client that has its 201 can log in, and nobody else gets a 201 for the
\* address (commit before the response).
THEOREM ClientsReadTheirWrites == Spec => []ReadYourWrites
  <1>1. IInv => ReadYourWrites
    BY DEF IInv
  <1> QED BY <1>1, InvariantHolds, PTL

\* A login's token names one committed account whose password was given.
THEOREM TokensNameAccounts == Spec => []TokenNamesAccount
  <1>1. IInv => TokenNamesAccount
    BY DEF IInv, FoundNamesAccount, TokenNamesAccount
  <1> QED BY <1>1, InvariantHolds, PTL

-----------------------------------------------------------------------------
\* Refinement: what a step of one request is in the account book.
LEMMA BookStep ==
  ASSUME TypeOK, NEW r \in Requests, NEW p \in Phases, NEW code, GoesTo(r, p, code)
  PROVE  /\ BookStatus' = [BookStatus EXCEPT ![r] = StatusOf(p)]
         /\ BookStatus[r] = StatusOf(phase[r])
         /\ verdict' = [verdict EXCEPT ![r] = code]
  BY DEF TypeOK, GoesTo, BookStatus

\* A step inside the open or the settled part of a call is not visible.
LEMMA HiddenStep ==
  ASSUME TypeOK, NEW r \in Requests, NEW p \in Phases, GoesTo(r, p, verdict[r]),
         StatusOf(p) = StatusOf(phase[r]), UNCHANGED <<users, call>>
  PROVE  UNCHANGED Abs!bookVars
  <1>1. verdict' = verdict
    BY DEF GoesTo, TypeOK
  <1>2. BookStatus' = BookStatus
    BY BookStep DEF BookStatus
  <1> QED BY <1>1, <1>2 DEF Abs!bookVars

\* A step that decides the outcome settles the call.
LEMMA DecidingStep ==
  ASSUME TypeOK, NEW r \in Requests, NEW p \in {"unwinding", "closed"}, NEW code,
         StatusOf(phase[r]) = "open", GoesTo(r, p, code), UNCHANGED call
  PROVE  Abs!Decide(r, code)
  <1>1. p \in Phases /\ StatusOf(p) = "settled"
    BY DEF Phases, StatusOf
  <1> QED BY <1>1, BookStep DEF Abs!Decide

\* A refusal by the schema, or a failing statement, is the call's instant.
LEMMA RefusesInBook ==
  ASSUME IInv, NEW r \in Requests,
         Reject(r) \/ StatementRaises(r) \/ PoolTimeout(r)
  PROVE  Abs!Consult(r)
  <1>1. CASE Reject(r)
    <2>1. Abs!Decide(r, 422) /\ UNCHANGED users /\ ~Valid(call[r])
      BY <1>1, DecidingStep DEF IInv, Reject, StatusOf
    <2> QED BY <2>1 DEF Abs!Consult, Valid, NormalizeEmail, Abs!Valid, Abs!NormalizeEmail
  <1>2. CASE StatementRaises(r) \/ PoolTimeout(r)
    <2>1. Abs!Decide(r, 500) /\ UNCHANGED users
      BY <1>2, DecidingStep DEF IInv, StatementRaises, PoolTimeout, StatusOf
    <2> QED BY <2>1 DEF Abs!Consult
  <1> QED BY <1>1, <1>2

\* A 409 is the instant the address is seen to be taken; the rest is hidden.
LEMMA CheckEmailInBook ==
  ASSUME IInv, NEW r \in Requests, CheckEmail(r) \/ Insert(r)
  PROVE  Abs!Consult(r) \/ UNCHANGED Abs!bookVars
  <1>1. /\ phase[r] \in {"called", "checked"} /\ verdict[r] = 0
        /\ call[r].kind = "register" /\ UNCHANGED <<users, call>>
    BY DEF IInv, CheckEmail, Insert, VerdictFitsPhase, Undecided, PhaseFitsCall
  <1>2. CASE Registered(users, Email(r))
    <2>1. GoesTo(r, "unwinding", 409)
      BY <1>2 DEF CheckEmail, Insert
    <2>2. Abs!Decide(r, 409)
      BY <1>1, <2>1, DecidingStep DEF IInv, StatusOf
    <2>3. Abs!Registered(users, Abs!NormalizeEmail(call[r]))
      BY <1>2 DEF Registered, Email, NormalizeEmail, Abs!Registered, Abs!NormalizeEmail
    <2> QED BY <1>1, <2>2, <2>3 DEF Abs!Consult
  <1>3. CASE ~Registered(users, Email(r))
    <2>1. \E p \in {"checked", "inserted"} : GoesTo(r, p, verdict[r])
      BY <1>1, <1>3 DEF CheckEmail, Insert
    <2> QED BY <1>1, <2>1, HiddenStep DEF IInv, Phases, StatusOf
  <1> QED BY <1>2, <1>3

\* A 401 is the instant no account matches the credentials.
LEMMA LookUpInBook ==
  ASSUME IInv, NEW r \in Requests, LookUp(r)
  PROVE  Abs!Consult(r) \/ UNCHANGED Abs!bookVars
  <1>1. /\ phase[r] = "called" /\ verdict[r] = 0
        /\ call[r].kind = "login" /\ UNCHANGED <<users, call>>
    BY DEF IInv, LookUp, VerdictFitsPhase, Undecided
  <1>2. CASE Matches(users, call[r]) = {}
    <2>1. GoesTo(r, "unwinding", 401)
      BY <1>2 DEF LookUp
    <2>2. Abs!Decide(r, 401)
      BY <1>1, <2>1, DecidingStep DEF IInv, StatusOf
    <2>3. Abs!Matches(users, call[r]) = {}
      BY <1>2 DEF Matches, Verify, NormalizeEmail,
                  Abs!Matches, Abs!Verify, Abs!NormalizeEmail
    <2> QED BY <1>1, <2>2, <2>3 DEF Abs!Consult
  <1>3. CASE Matches(users, call[r]) # {}
    <2>1. GoesTo(r, "found", verdict[r])
      BY <1>1, <1>3 DEF LookUp
    <2> QED BY <1>1, <2>1, HiddenStep DEF IInv, Phases, StatusOf
  <1> QED BY <1>2, <1>3

\* The COMMIT is the instant at which a registration or a login succeeds.
LEMMA CommitInBook ==
  ASSUME IInv, NEW r \in Requests, Commit(r) \/ CommitRaises(r)
  PROVE  Abs!Enrol(r) \/ Abs!Consult(r)
  <1>1. /\ phase[r] \in {"inserted", "found"} /\ StatusOf(phase[r]) = "open"
        /\ UNCHANGED call
    BY DEF Commit, CommitRaises, StatusOf
  <1>2. CASE users' = users \/ phase[r] = "found"
    <2>1. UNCHANGED users
      BY <1>2 DEF Commit, CommitRaises, Applied
    <2>2. CASE CommitRaises(r)
      <3>1. Abs!Decide(r, 500)
        BY <1>1, <2>2, DecidingStep DEF IInv, CommitRaises
      <3> QED BY <2>1, <3>1 DEF Abs!Consult
    <2>3. CASE Commit(r) /\ phase[r] = "found"
      <3>1. Abs!Decide(r, 200)
        BY <1>1, <2>3, DecidingStep DEF IInv, Commit
      <3>2. call[r].kind = "login" /\ Abs!Matches(users, call[r]) # {}
        BY <2>3 DEF IInv, PhaseFitsCall, FoundNamesAccount, Email, Verify, NormalizeEmail,
                    Abs!Matches, Abs!Verify, Abs!NormalizeEmail
      <3> QED BY <2>1, <3>1, <3>2 DEF Abs!Consult
    <2>4. CASE Commit(r) /\ phase[r] = "inserted"
      <3>1. NewUser(r, call[r]) \in users
        BY <2>1, <2>4 DEF Commit, Applied
      <3> QED BY <2>4, <3>1 DEF IInv, OpenInsertExcludes, Registered, NewUser, Email
    <2> QED BY <1>1, <2>2, <2>3, <2>4
  <1>3. CASE users' # users /\ phase[r] = "inserted"
    <2>1. users' = users \cup {NewUser(r, call[r])}
      BY <1>3 DEF Commit, CommitRaises, Applied
    <2>2. Abs!Decide(r, 201) \/ Abs!Decide(r, 500)
      BY <1>1, <1>3, DecidingStep DEF IInv, Commit, CommitRaises
    <2>3. /\ call[r].kind = "register" /\ Abs!Valid(call[r])
          /\ ~Abs!Registered(users, Abs!NormalizeEmail(call[r]))
      BY <1>3 DEF IInv, PhaseFitsCall, OpenInsertExcludes, Registered, Email, Valid,
                  NormalizeEmail, Abs!Registered, Abs!Valid, Abs!NormalizeEmail
    <2> QED BY <2>1, <2>2, <2>3 DEF Abs!Enrol, NewUser, NormalizeEmail,
                                    Abs!NewUser, Abs!NormalizeEmail
  <1> QED BY <1>1, <1>2, <1>3

\* Arrival and reply are the book's own; a failing rollback blurs the answer.
LEMMA ClosingInBook ==
  ASSUME IInv, NEW r \in Requests, Arrive(r) \/ Rollback(r) \/ Respond(r)
  PROVE  Abs!Arrive(r) \/ Abs!Blur(r) \/ Abs!Reply(r) \/ UNCHANGED Abs!bookVars
  <1>1. CASE Arrive(r)
    <2>1. verdict[r] = 0 /\ phase[r] = "idle" /\ GoesTo(r, "called", 0)
      BY <1>1 DEF IInv, Arrive, VerdictFitsPhase, Undecided
    <2>2. verdict' = verdict
      BY <2>1 DEF IInv, TypeOK, GoesTo
    <2>3. BookStatus[r] = "new" /\ BookStatus' = [BookStatus EXCEPT ![r] = "open"]
      BY <2>1, BookStep DEF IInv, StatusOf, Phases
    <2> QED BY <1>1, <2>2, <2>3 DEF Arrive, Abs!Arrive
  <1>2. CASE Rollback(r)
    <2>1. phase[r] = "unwinding" /\ UNCHANGED <<users, call>>
      BY <1>2 DEF Rollback
    <2>2. CASE GoesTo(r, "closed", verdict[r])
      BY <2>1, <2>2, HiddenStep DEF IInv, Phases, StatusOf
    <2>3. CASE GoesTo(r, "closed", 500) /\ verdict[r] # 500
      <3>1. verdict[r] \in {401, 409}
        BY <2>1, <2>3 DEF IInv, VerdictFitsPhase
      <3>2. BookStatus[r] = "settled" /\ BookStatus' = [BookStatus EXCEPT ![r] = "settled"]
        BY <2>1, <2>3, BookStep DEF IInv, StatusOf, Phases
      <3>3. BookStatus' = BookStatus
        BY <3>2 DEF BookStatus
      <3> QED BY <2>1, <2>3, <3>1, <3>2, <3>3 DEF GoesTo, Abs!Blur
    <2> QED BY <1>2, <2>2, <2>3 DEF Rollback
  <1>3. CASE Respond(r)
    <2>1. phase[r] = "closed" /\ GoesTo(r, "done", verdict[r]) /\ UNCHANGED <<users, call>>
      BY <1>3 DEF Respond
    <2>2. verdict' = verdict
      BY <2>1 DEF IInv, TypeOK, GoesTo
    <2>3. BookStatus[r] = "settled" /\ BookStatus' = [BookStatus EXCEPT ![r] = "replied"]
      BY <2>1, BookStep DEF IInv, StatusOf, Phases
    <2> QED BY <2>1, <2>2, <2>3 DEF Abs!Reply
  <1> QED BY <1>1, <1>2, <1>3

\* A crash loses the calls its worker had in hand.
LEMMA CrashInBook ==
  ASSUME IInv, NEW w \in Workers, Crash(w)
  PROVE  \E S \in SUBSET Requests : Abs!Lose(S)
  <1> DEFINE S == InFlight(w)
  <1>1. S \in SUBSET Requests /\ UNCHANGED <<users, call, verdict>>
    BY DEF Crash, InFlight
  <1>2. \A r \in S : BookStatus[r] \in {"open", "settled"}
    BY DEF IInv, TypeOK, InFlight, Phases, BookStatus, StatusOf
  <1>3. BookStatus' = [r \in Requests |-> IF r \in S THEN "lost" ELSE BookStatus[r]]
    <2>1. StatusOf("lost") = "lost"
      BY DEF StatusOf
    <2>2. \A r \in Requests :
             StatusOf(phase'[r]) = IF r \in S THEN "lost" ELSE StatusOf(phase[r])
      BY <2>1 DEF Crash
    <2> QED BY <2>2 DEF BookStatus
  <1> QED BY <1>1, <1>2, <1>3 DEF Abs!Lose

\* Every step of the endpoints is a step of the book or none.
LEMMA NextInBook == IInv /\ [Next]_vars => [Abs!BookNext]_Abs!bookVars
  <1>1. UNCHANGED vars => UNCHANGED Abs!bookVars
    BY DEF vars, Abs!bookVars, BookStatus, StatusOf
  <1> QED BY <1>1, RefusesInBook, CheckEmailInBook, LookUpInBook, CommitInBook,
             ClosingInBook, CrashInBook
             DEF Next, Progress, Finished, Abs!BookNext

\* The book begins empty.
LEMMA InitInBook == Init => Abs!BookInit
  BY DEF Init, Abs!BookInit, BookStatus, StatusOf

\* The endpoints implement the account book: every call takes effect at one
\* instant between arrival and reply, and its reply is true of that instant.
THEOREM AccountsImplementBook == Spec => ImplementsBook
  BY InitInBook, NextInBook, InvariantHolds, PTL DEF Spec, ImplementsBook, Abs!Book
=============================================================================
