--------------------------- MODULE TaskEdits_refinement -----------------------
(***************************************************************************)
(* TaskEdits implements TaskBook, what its clients may rely on, and        *)
(* TaskTable, what those who list tasks may, for every set of requests,    *)
(* users and tasks and every workload.  Each action is shown to be one of  *)
(* the abstract specification's or to change nothing it speaks of.         *)
(***************************************************************************)
EXTENDS TaskEdits_proofs

\* A request has no status code until it is decided, and an exception's
\* afterwards.
VerdictOK(r) ==
    /\ phase[r] \in {"idle", "called", "loaded", "saving", "written"} => verdict[r] = 0
    /\ phase[r] = "unwinding" => verdict[r] \in {400, 404, 500}

VerdictInv == \A r \in Requests : VerdictOK(r)

\* A step of request r.
StepBy(r) ==
    \/ Arrive(r) \/ Progress(r) \/ CommitRaises(r) \/ StatementRaises(r) \/ Lose(r)

\* What a step of r leaves alone.
OthersStay(r) ==
    /\ UNCHANGED call
    /\ \A s \in Requests \ {r} :
          /\ phase'[s] = phase[s] /\ verdict'[s] = verdict[s]
          /\ loaded'[s] = loaded[s] /\ task'[s] = task[s]

\* A step of r does not show in the handling of the others.
LEMMA StepLeavesOthers ==
  ASSUME TypeOK, NEW r \in Requests, StepBy(r)
  PROVE  OthersStay(r)
  <1>1. /\ UNCHANGED call
        /\ \E p, code : GoesTo(r, p, code)
    BY DEF StepBy, Arrive, Progress, Create, Get, Load, Reload, Flush, Delete, Commit,
           Rollback, Respond, CommitRaises, StatementRaises, Lose
  <1>2. \A s \in Requests \ {r} : phase'[s] = phase[s] /\ verdict'[s] = verdict[s]
    BY <1>1, GoesToOnly
  <1>3. \A s \in Requests \ {r} : loaded'[s] = loaded[s] /\ task'[s] = task[s]
    BY DEF TypeOK, StepBy, Arrive, Progress, Create, Get, Load, Reload, Flush, Delete, Commit,
           Rollback, Respond, CommitRaises, StatementRaises, Lose, CloseSession, ShowsNothing
  <1> QED BY <1>1, <1>2, <1>3 DEF OthersStay

\* Codes are given where the book says they are.
LEMMA VerdictStep ==
  ASSUME TypeOK, VerdictInv, NEW r \in Requests, StepBy(r)
  PROVE  VerdictInv'
  <1>1. OthersStay(r) /\ VerdictOK(r)
    BY StepLeavesOthers DEF VerdictInv
  <1>2. \A s \in Requests \ {r} : VerdictOK(s)'
    BY <1>1 DEF OthersStay, VerdictInv, VerdictOK
  <1>3. VerdictOK(r)'
    BY <1>1 DEF TypeOK, VerdictOK, StepBy, Arrive, Progress, Create, Get, Load, Reload,
         Flush, Delete, Commit, Rollback, Respond, CommitRaises, StatementRaises, Lose, GoesTo
  <1> QED BY <1>2, <1>3 DEF VerdictInv

LEMMA AlwaysVerdictInv == Spec => []VerdictInv
  <1>1. Init => VerdictInv
    <2> SUFFICES ASSUME Init, NEW r \in Requests PROVE VerdictOK(r)
      BY DEF VerdictInv
    <2>1. phase[r] = "idle" /\ verdict[r] = 0
      BY DEF Init
    <2> QED BY <2>1 DEF VerdictOK
  <1>2. TypeOK /\ VerdictInv /\ [Next]_vars => VerdictInv'
    <2> SUFFICES ASSUME TypeOK, VerdictInv, [Next]_vars PROVE VerdictInv'
      OBVIOUS
    <2>1. CASE UNCHANGED vars
      BY <2>1 DEF vars, VerdictInv, VerdictOK
    <2>2. CASE Next /\ ~UNCHANGED vars
      BY <2>2, VerdictStep DEF Next, StepBy, Finished
    <2> QED BY <2>1, <2>2
  <1> QED BY <1>1, <1>2, TaskEditsTypeCorrect, PTL DEF Spec
-----------------------------------------------------------------------------
\* A step of r changes only r's place in the book.
LEMMA BookMoves ==
  ASSUME NEW r \in Requests, OthersStay(r), UNCHANGED call
  PROVE  /\ BookStatus' = [BookStatus EXCEPT ![r] = StatusOf(r)']
         /\ BookResult' = [BookResult EXCEPT ![r] = ResultOf(r)']
         /\ BookKnown' = [BookKnown EXCEPT ![r] = KnownOf(r)']
         /\ BookShown' = [BookShown EXCEPT ![r] = ShownOf(r)']
         /\ BookStatus[r] = StatusOf(r) /\ BookResult[r] = ResultOf(r)
         /\ BookKnown[r] = KnownOf(r) /\ BookShown[r] = ShownOf(r)
         /\ StatusOf(r)' = StatusOf(r) => BookStatus' = BookStatus
         /\ ResultOf(r)' = ResultOf(r) => BookResult' = BookResult
         /\ KnownOf(r)' = KnownOf(r) => BookKnown' = BookKnown
         /\ ShownOf(r)' = ShownOf(r) => BookShown' = BookShown
  <1>1. ASSUME NEW s \in Requests \ {r}
        PROVE  /\ StatusOf(s)' = StatusOf(s) /\ ResultOf(s)' = ResultOf(s)
               /\ KnownOf(s)' = KnownOf(s) /\ ShownOf(s)' = ShownOf(s)
    <2>1. /\ phase'[s] = phase[s] /\ verdict'[s] = verdict[s]
          /\ loaded'[s] = loaded[s] /\ task'[s] = task[s] /\ call' = call
      BY DEF OthersStay
    <2>2. Looked(s)' = Looked(s) /\ Editing(s)' = Editing(s) /\ Answered(s)' = Answered(s)
      BY <2>1 DEF Looked, Editing, Answered
    <2> QED BY <2>1, <2>2 DEF StatusOf, ResultOf, KnownOf, ShownOf
  <1>2. \A s \in Requests : s # r =>
               /\ StatusOf(s)' = StatusOf(s) /\ ResultOf(s)' = ResultOf(s)
               /\ KnownOf(s)' = KnownOf(s) /\ ShownOf(s)' = ShownOf(s)
    BY <1>1
  <1> QED BY <1>2 DEF BookStatus, BookResult, BookKnown, BookShown

\* A step after which r's place is what it was does not show.
LEMMA Hidden ==
  ASSUME NEW r \in Requests, OthersStay(r), UNCHANGED <<rows, used, call, target>>,
         StatusOf(r)' = StatusOf(r), ResultOf(r)' = ResultOf(r),
         KnownOf(r)' = KnownOf(r), ShownOf(r)' = ShownOf(r)
  PROVE  UNCHANGED Abs!bookVars
  BY BookMoves DEF Abs!bookVars

\* A step that decides an open call.
LEMMA Settles ==
  ASSUME NEW r \in Requests, OthersStay(r), UNCHANGED <<used, call, target>>,
         StatusOf(r) = "open", StatusOf(r)' = "settled", KnownOf(r)' = Absent
  PROVE  Abs!Settle(r, ResultOf(r)', ShownOf(r)')
  BY BookMoves DEF Abs!Settle

\* The words of the book and those of the endpoints.
LEMMA SameWords ==
  /\ Abs!Fields = Fields /\ Abs!Row = Row
  /\ \A r : Abs!Asked(r) = Changes(r) /\ (Abs!Theirs(r) <=> Owned(r))
  /\ \A c : Abs!ValidTitle(c) <=> ValidTitle(c)
  BY DEF Abs!Fields, Fields, Abs!Row, Row, Abs!Asked, Abs!BuildChanges, Changes, BuildChanges,
         Abs!Cleaned, Cleaned, Abs!Theirs, Owned, Abs!ValidTitle, ValidTitle
-----------------------------------------------------------------------------
\* What a client sees of r, by how far its handling has come.
Seen(r) ==
    LET sees(status, code, known, shown) ==
            /\ StatusOf(r) = status /\ ResultOf(r) = code
            /\ KnownOf(r) = known /\ ShownOf(r) = shown
        body == [f \in Fields |-> task[r][f]]
    IN
    /\ phase[r] = "idle" => sees("new", verdict[r], Absent, Absent)
    /\ phase[r] = "called" => sees("open", verdict[r], Absent, Absent)
    /\ phase[r] = "written" /\ call[r].kind \in {"create", "delete"} =>
          sees("open", verdict[r], Absent, Absent)
    /\ phase[r] \in {"loaded", "saving", "written"} /\ call[r].kind = "update" =>
          sees("open", verdict[r], loaded[r], body)
    /\ phase[r] = "written" /\ call[r].kind = "get" => sees("settled", 200, Absent, body)
    /\ phase[r] = "unwinding" => sees("settled", verdict[r], Absent, Absent)
    /\ phase[r] \in {"closed", "done"} =>
          sees(IF phase[r] = "done" THEN "replied" ELSE "settled", verdict[r], Absent,
               IF verdict[r] \in {200, 201} THEN body ELSE Absent)
    /\ phase[r] = "lost" => sees("lost", verdict[r], Absent, Absent)

SeenInv == \A r \in Requests : Seen(r)

LEMMA SeenByPhase == SeenInv
  BY DEF SeenInv, Seen, StatusOf, ResultOf, KnownOf, ShownOf, Editing, Looked, Answered

LEMMA SeenByPhaseNext == SeenInv'
  BY SeenByPhase, PTL

\* The call arrives, is answered, or is lost.
LEMMA EndsInBook ==
  ASSUME IInv, VerdictInv, NEW r \in Requests, Arrive(r) \/ Respond(r) \/ Lose(r)
  PROVE  Abs!Arrive(r) \/ Abs!Reply(r) \/ Abs!Lose(r)
  <1>1. /\ TypeOK /\ OthersStay(r) /\ VerdictOK(r) /\ Seen(r) /\ Seen(r)'
        /\ UNCHANGED <<rows, call>>
    BY SeenByPhase, SeenByPhaseNext, StepLeavesOthers
       DEF IInv, StepBy, Progress, VerdictInv, SeenInv, Arrive, Respond, Lose, Undone
  <1>2. CASE Arrive(r)
    <2>1. phase[r] = "idle" /\ verdict[r] = 0 /\ phase'[r] = "called" /\ verdict'[r] = 0
      BY <1>1, <1>2, GoesToOnly DEF Arrive, VerdictOK
    <2>2. /\ StatusOf(r) = "new" /\ StatusOf(r)' = "open" /\ ResultOf(r)' = ResultOf(r)
          /\ KnownOf(r)' = KnownOf(r) /\ ShownOf(r)' = ShownOf(r)
      BY <1>1, <2>1 DEF Seen
    <2> QED BY <1>1, <1>2, <2>2, BookMoves DEF Arrive, Abs!Arrive
  <1>3. CASE Respond(r)
    <2>1. phase[r] = "closed" /\ phase'[r] = "done" /\ verdict'[r] = verdict[r] /\ task' = task
          /\ UNCHANGED <<used, target>>
      BY <1>1, <1>3, GoesToOnly DEF Respond
    <2>2. /\ StatusOf(r) = "settled" /\ StatusOf(r)' = "replied" /\ ResultOf(r)' = ResultOf(r)
          /\ KnownOf(r)' = KnownOf(r) /\ ShownOf(r)' = ShownOf(r)
      BY <1>1, <2>1 DEF Seen
    <2> QED BY <1>1, <2>1, <2>2, BookMoves DEF Abs!Reply
  <1>4. CASE Lose(r)
    <2>1. /\ phase[r] \in Phases \ {"idle", "done", "lost"} /\ phase'[r] = "lost"
          /\ verdict'[r] = 0 /\ UNCHANGED <<used, target>>
      BY <1>1, <1>4, GoesToOnly DEF Lose, TypeOK
    <2>2. StatusOf(r) \in {"open", "settled"}
      BY <2>1 DEF StatusOf, Phases
    <2>3. /\ StatusOf(r)' = "lost" /\ ResultOf(r)' = 0
          /\ KnownOf(r)' = Absent /\ ShownOf(r)' = Absent
      BY <1>1, <2>1 DEF Seen
    <2> QED BY <1>1, <2>1, <2>2, <2>3, BookMoves DEF Abs!Lose
  <1> QED BY <1>2, <1>3, <1>4

\* A refusal or a failure before the COMMIT.
LEMMA RefusesInBook ==
  ASSUME IInv, NEW r \in Requests, OthersStay(r), NEW code, GoesTo(r, "unwinding", code),
         UNCHANGED <<rows, used, call, target>>, StatusOf(r) = "open",
         \/ code = 500
         \/ code = 404 /\ call[r].kind # "create" /\ ~Owned(r)
         \/ /\ code = 400 /\ ~ValidTitle(Changes(r))
            /\ call[r].kind = "create" \/ (call[r].kind = "update" /\ Owned(r))
  PROVE  Abs!Refuse(r)
  <1>1. phase'[r] = "unwinding" /\ verdict'[r] = code
    BY GoesToOnly DEF IInv
  <1>2. /\ StatusOf(r)' = "settled" /\ ResultOf(r)' = code
        /\ KnownOf(r)' = Absent /\ ShownOf(r)' = Absent
    BY <1>1, SeenByPhaseNext DEF SeenInv, Seen
  <1>3. Abs!Settle(r, code, Absent)
    BY <1>2, Settles
  <1> QED BY <1>3, SameWords DEF Abs!Refuse

\* A POST shows nothing until its COMMIT; a blank title is its refusal.
LEMMA CreateInBook ==
  ASSUME IInv, VerdictInv, NEW r \in Requests, Create(r)
  PROVE  Abs!Refuse(r) \/ UNCHANGED Abs!bookVars
  <1>1. /\ OthersStay(r) /\ VerdictOK(r) /\ Seen(r) /\ Seen(r)'
        /\ phase[r] = "called" /\ call[r].kind = "create"
        /\ UNCHANGED <<rows, used, call, target>>
    BY SeenByPhase, SeenByPhaseNext, StepLeavesOthers
       DEF IInv, StepBy, Progress, VerdictInv, SeenInv, Create
  <1>2. CASE GoesTo(r, "unwinding", 400) /\ ~ValidTitle(Changes(r))
    BY <1>1, <1>2, RefusesInBook DEF Seen
  <1>3. CASE GoesTo(r, "written", 0)
    <2>1. phase'[r] = "written" /\ verdict'[r] = verdict[r]
      BY <1>1, <1>3, GoesToOnly DEF IInv, VerdictOK
    <2> QED BY <1>1, <2>1, Hidden DEF Seen
  <1> QED BY <1>2, <1>3 DEF Create

\* A DELETE shows nothing until its COMMIT, unless there is no task of the
\* user to delete.
LEMMA DeleteInBook ==
  ASSUME IInv, VerdictInv, NEW r \in Requests, Delete(r)
  PROVE  Abs!Refuse(r) \/ UNCHANGED Abs!bookVars
  <1>1. /\ OthersStay(r) /\ VerdictOK(r) /\ Seen(r) /\ Seen(r)'
        /\ phase[r] = "called" /\ call[r].kind = "delete"
        /\ UNCHANGED <<rows, used, call, target>>
    BY SeenByPhase, SeenByPhaseNext, StepLeavesOthers
       DEF IInv, StepBy, Progress, VerdictInv, SeenInv, Delete
  <1>2. CASE GoesTo(r, "unwinding", 404) /\ ~Owned(r)
    BY <1>1, <1>2, RefusesInBook DEF Seen
  <1>3. CASE GoesTo(r, "written", 0)
    <2>1. phase'[r] = "written" /\ verdict'[r] = verdict[r]
      BY <1>1, <1>3, GoesToOnly DEF IInv, VerdictOK
    <2> QED BY <1>1, <2>1, Hidden DEF Seen
  <1> QED BY <1>2, <1>3 DEF Delete

\* The SELECT of a GET is its instant.
LEMMA GetInBook ==
  ASSUME IInv, VerdictInv, NEW r \in Requests, Get(r)
  PROVE  Abs!Refuse(r) \/ Abs!Look(r)
  <1>1. /\ TypeOK /\ OthersStay(r) /\ VerdictOK(r) /\ Seen(r) /\ Seen(r)'
        /\ phase[r] = "called" /\ call[r].kind = "get"
        /\ UNCHANGED <<rows, used, call, target>>
    BY SeenByPhase, SeenByPhaseNext, StepLeavesOthers
       DEF IInv, StepBy, Progress, VerdictInv, SeenInv, Get
  <1>2. CASE ~Owned(r)
    BY <1>1, <1>2, RefusesInBook DEF Seen, Get
  <1>3. CASE Owned(r)
    <2>1. phase'[r] = "written" /\ task'[r] = rows[target[r]]
      BY <1>1, <1>3, GoesToOnly DEF TypeOK, Get
    <2>2. /\ StatusOf(r) = "open" /\ StatusOf(r)' = "settled" /\ ResultOf(r)' = 200
          /\ KnownOf(r)' = Absent /\ ShownOf(r)' = [f \in Fields |-> rows[target[r]][f]]
      BY <1>1, <2>1 DEF Seen
    <2>3. Abs!Settle(r, 200, [f \in Fields |-> rows[target[r]][f]])
      BY <1>1, <2>2, Settles
    <2> QED BY <1>1, <1>3, <2>3, SameWords DEF Abs!Look
  <1> QED BY <1>2, <1>3

\* A PATCH reads the task,
LEMMA LoadInBook ==
  ASSUME IInv, VerdictInv, NEW r \in Requests, Load(r)
  PROVE  Abs!Refuse(r) \/ Abs!Read(r)
  <1>1. /\ TypeOK /\ OthersStay(r) /\ VerdictOK(r) /\ Seen(r) /\ Seen(r)'
        /\ phase[r] = "called" /\ call[r].kind = "update"
        /\ UNCHANGED <<rows, used, call, target>>
    BY SeenByPhase, SeenByPhaseNext, StepLeavesOthers
       DEF IInv, StepBy, Progress, VerdictInv, SeenInv, Load
  <1>2. CASE ~Owned(r) \/ ~ValidTitle(Changes(r))
    BY <1>1, <1>2, RefusesInBook DEF Seen, Load
  <1>3. CASE Owned(r) /\ ValidTitle(Changes(r))
    <2> DEFINE row == rows[target[r]]
               new == Edited(row, Changes(r), clock)
    <2>1. /\ phase'[r] = "loaded" /\ verdict'[r] = 0
          /\ loaded'[r] = row /\ task'[r] = new
      BY <1>1, <1>3, GoesToOnly DEF TypeOK, Load
    <2>2. row \in Row
      BY <1>1, <1>3 DEF Owned, TypeOK
    <2>3. \A f \in Fields : new[f] = IF f \in DOMAIN Changes(r) THEN Changes(r)[f]
                                                              ELSE row[f]
      BY <1>1, <1>3, <2>2, EditedType
    <2>4. [f \in Fields |-> new[f]] = Abs!With(row, Changes(r))
      BY <2>3, SameWords DEF Abs!With
    <2>5. /\ StatusOf(r) = "open" /\ StatusOf(r)' = "open" /\ KnownOf(r) = Absent
          /\ ResultOf(r)' = ResultOf(r) /\ KnownOf(r)' = row
          /\ ShownOf(r)' = Abs!With(row, Changes(r))
      BY <1>1, <2>1, <2>4 DEF Seen, VerdictOK
    <2>6. BookStatus' = BookStatus /\ BookResult' = BookResult
      BY <1>1, <2>5, BookMoves
    <2> QED BY <1>1, <1>3, <2>5, <2>6, BookMoves, SameWords DEF Abs!Read
  <1> QED BY <1>2, <1>3

\* perhaps once more,
LEMMA ReloadInBook ==
  ASSUME IInv, VerdictInv, NEW r \in Requests, Reload(r)
  PROVE  Abs!Refuse(r) \/ Abs!Reread(r) \/ UNCHANGED Abs!bookVars
  <1>1. /\ TypeOK /\ OthersStay(r) /\ VerdictOK(r) /\ RequestOK(r) /\ Seen(r) /\ Seen(r)'
        /\ phase[r] = "loaded" /\ UNCHANGED <<rows, used, call, target, task>>
    BY SeenByPhase, SeenByPhaseNext, StepLeavesOthers
       DEF IInv, StepBy, Progress, VerdictInv, SeenInv, Reload
  <1>2. call[r].kind = "update" /\ loaded[r] \in Row
    BY <1>1 DEF RequestOK, EditOK, Editing
  <1>3. CASE GoesTo(r, "saving", 0) /\ UNCHANGED loaded
    <2>1. phase'[r] = "saving" /\ verdict'[r] = verdict[r]
      BY <1>1, <1>3, GoesToOnly DEF VerdictOK
    <2> QED BY <1>1, <1>2, <1>3, <2>1, Hidden DEF Seen
  <1>4. CASE GoesTo(r, "unwinding", 404) /\ rows[target[r]] = Absent
    BY <1>1, <1>2, <1>4, RefusesInBook DEF Seen, Owned
  <1>5. CASE /\ rows[target[r]] # Absent /\ GoesTo(r, "saving", 0)
             /\ loaded' = [loaded EXCEPT ![r] = rows[target[r]]]
    <2>1. phase'[r] = "saving" /\ verdict'[r] = verdict[r] /\ loaded'[r] = rows[target[r]]
      BY <1>1, <1>5, GoesToOnly DEF VerdictOK, TypeOK
    <2>2. /\ StatusOf(r) = "open" /\ StatusOf(r)' = "open" /\ ResultOf(r)' = ResultOf(r)
          /\ KnownOf(r) # Absent /\ KnownOf(r)' = rows[target[r]]
          /\ ShownOf(r)' = ShownOf(r)
      BY <1>1, <1>2, <2>1, TaskAssumption DEF Seen
    <2>3. BookStatus' = BookStatus /\ BookResult' = BookResult /\ BookShown' = BookShown
      BY <1>1, <2>2, BookMoves
    <2> QED BY <1>1, <1>5, <2>2, <2>3, BookMoves DEF Abs!Reread
  <1> QED BY <1>3, <1>4, <1>5 DEF Reload

\* and sends its UPDATE, which does not show before the COMMIT.
LEMMA FlushInBook ==
  ASSUME IInv, VerdictInv, NEW r \in Requests, Flush(r)
  PROVE  Abs!Refuse(r) \/ UNCHANGED Abs!bookVars
  <1>1. /\ TypeOK /\ OthersStay(r) /\ VerdictOK(r) /\ RequestOK(r) /\ Seen(r) /\ Seen(r)'
        /\ phase[r] = "saving" /\ UNCHANGED <<rows, used, call, target, loaded>>
    BY SeenByPhase, SeenByPhaseNext, StepLeavesOthers
       DEF IInv, StepBy, Progress, VerdictInv, SeenInv, Flush
  <1>2. call[r].kind = "update" /\ task[r] \in Row
    BY <1>1 DEF RequestOK, EditOK, Editing
  <1>3. CASE GoesTo(r, "unwinding", 500)
    BY <1>1, <1>2, <1>3, RefusesInBook DEF Seen
  <1>4. CASE /\ GoesTo(r, "written", 0)
             /\ task' = task \/ task' = [task EXCEPT ![r].updated_at = clock]
    <2>1. phase'[r] = "written" /\ verdict'[r] = verdict[r]
      BY <1>1, <1>4, GoesToOnly DEF VerdictOK
    <2>2. \A f \in Fields : task'[r][f] = task[r][f]
      BY <1>1, <1>2, <1>4 DEF TypeOK, Row, Fields
    <2> QED BY <1>1, <1>2, <2>1, <2>2, Hidden DEF Seen
  <1> QED BY <1>3, <1>4 DEF Flush
-----------------------------------------------------------------------------
\* The reply that reports the success of r.
Reply(r) == IF call[r].kind = "delete" THEN Absent ELSE [f \in Fields |-> task[r][f]]

\* What Succeed says of a COMMIT, acknowledged or not.
CommitShows(r) ==
    \/ Abs!Settle(r, Success(r), Reply(r))
    \/ Abs!Settle(r, 500, Absent)

\* A POST takes effect,
LEMMA BirthInBook ==
  ASSUME IInv, NEW r \in Requests, phase[r] = "written", call[r].kind = "create",
         Applied(r), CommitShows(r)
  PROVE  Abs!Create(r)
  <1> DEFINE t == target[r]
  <1>1. /\ TypeOK /\ t \in Tasks /\ rows \in [Tasks -> Row \cup {Absent}]
        /\ CommitOK(r, t, Outcome(r)) /\ Outcome(r) \in Row \cup {Absent}
        /\ rows' = [rows EXCEPT ![t] = Outcome(r)]
    BY OutcomeOK DEF IInv, TypeOK, Applied
  <1>2. rows[t] = Absent /\ BirthOK(r) /\ Outcome(r) = task[r]
    BY <1>1 DEF CommitOK
  <1>3. /\ task[r] \in Row /\ task[r] # Absent /\ task[r].owner = call[r].user
        /\ \A f \in Fields : task[r][f] = NewTask(r)[f]
    BY <1>2, TaskAssumption DEF BirthOK, AskedFor
  <1>4. "title" \in DOMAIN Changes(r)
    BY <1>1, CallType, ChangesType DEF Changes
  <1>5. \A f \in Fields :
           NewTask(r)[f] = IF f = "status" THEN Pending
                           ELSE IF f \in DOMAIN Changes(r) THEN Changes(r)[f] ELSE Null
    BY <1>4 DEF NewTask, Fields
  <1>6. [f \in Fields |-> task[r][f]] = Abs!NewFields(r)
    BY <1>3, <1>5, SameWords DEF Abs!NewFields
  <1>7. ValidTitle(Changes(r))
    <2>1. task[r].title = Changes(r).title
      BY <1>3, <1>4, <1>5 DEF Fields
    <2>2. task[r].title \in Titles
      BY <1>3 DEF Row
    <2> QED BY <2>1, <2>2, TaskAssumption DEF ValidTitle
  <1>8. Abs!OnlyChanges(t) /\ rows'[t] = task[r]
    BY <1>1, <1>2, SameWords DEF Abs!OnlyChanges
  <1>9. Abs!Succeed(r, 201, Abs!NewFields(r))
    BY <1>6 DEF CommitShows, Success, Reply, Abs!Succeed
  <1>10. \A f \in Fields : rows'[t][f] = Abs!NewFields(r)[f]
    BY <1>6, <1>8, SameWords DEF Abs!NewFields
  <1> QED BY <1>2, <1>3, <1>7, <1>8, <1>9, <1>10, SameWords DEF Abs!Create

\* a DELETE takes effect,
LEMMA DeathInBook ==
  ASSUME IInv, NEW r \in Requests, phase[r] = "written", call[r].kind = "delete",
         Applied(r), CommitShows(r)
  PROVE  Abs!Delete(r)
  <1>1. rows' = [rows EXCEPT ![target[r]] = Absent]
    BY DEF Applied, Outcome
  <1>2. Owned(r)
    BY OutcomeOK DEF CommitOK, Owned
  <1>3. Abs!Succeed(r, 204, Absent)
    BY DEF CommitShows, Success, Reply, Abs!Succeed
  <1> QED BY <1>1, <1>2, <1>3, SameWords DEF Abs!Delete

\* a PATCH takes effect: its lock has kept the row what the UPDATE found.
LEMMA EditInBook ==
  ASSUME IInv, NEW r \in Requests, phase[r] = "written", call[r].kind = "update",
         Applied(r), CommitShows(r), Seen(r)
  PROVE  Abs!Edit(r)
  <1> DEFINE t == target[r]
             new == Outcome(r)
  <1>1. /\ TypeOK /\ t \in Tasks /\ rows \in [Tasks -> Row \cup {Absent}] /\ RequestOK(r)
        /\ new \in Row \cup {Absent} /\ rows' = [rows EXCEPT ![t] = new]
    BY OutcomeOK DEF IInv, TypeOK, Applied
  <1>2. loaded[r] \in Row /\ task[r] \in Row
    BY <1>1 DEF RequestOK, Editing, EditOK
  <1>3. /\ BookKnown[r] = loaded[r] /\ BookShown[r] = [f \in Fields |-> task[r][f]]
        /\ loaded[r] # Absent
    BY <1>2, TaskAssumption DEF BookKnown, BookShown, Seen
  <1>4. Abs!Wanted(r) = {f \in Fields : task[r][f] # loaded[r][f]}
    BY <1>3, SameWords DEF Abs!Wanted
  <1>5. Abs!Wanted(r) = Dirty(r) \cap Fields
    BY <1>4 DEF Dirty, Fields, Columns
  <1>6. Abs!Succeed(r, 200, BookShown[r])
    BY <1>3 DEF CommitShows, Success, Reply, Abs!Succeed
  <1>7. CASE Dirty(r) = {}
    <2>1. rows' = rows
      BY <1>1, <1>7 DEF Outcome
    <2> QED BY <1>3, <1>5, <1>6, <1>7, <2>1 DEF Abs!Edit
  <1>8. CASE Dirty(r) # {}
    <2>1. Owned(r) /\ rows[t] \in Row
      BY <1>1, <1>8 DEF RequestOK, Locks, Owned
    <2>2. new = [f \in DOMAIN rows[t] |-> IF f \in Dirty(r) THEN task[r][f] ELSE rows[t][f]]
      BY <1>8 DEF Outcome
    <2>3. Dirty(r) \subseteq Columns
      BY DEF Dirty
    <2> HIDE DEF t, new
    <2>4. /\ new.owner = rows[t].owner /\ new.created_at = rows[t].created_at
          /\ \A f \in Fields : new[f] = IF f \in Dirty(r) THEN task[r][f] ELSE rows[t][f]
      BY <2>1, <2>2, <2>3 DEF Row, Columns, Fields
    <2>5. new \in Row
      BY <1>2, <2>1, <2>2, <2>3 DEF Row, Columns
    <2>6. Abs!OnlyChanges(t) /\ rows'[t] = new /\ new # Absent
      BY <1>1, <2>5, SameWords, TaskAssumption DEF Abs!OnlyChanges
    <2>7. \A f \in Fields :
             rows'[t][f] = IF f \in Abs!Wanted(r) THEN BookShown[r][f] ELSE rows[t][f]
      BY <1>3, <1>5, <2>4, <2>6
    <2> QED BY <1>3, <1>6, <2>1, <2>4, <2>6, <2>7, SameWords DEF Abs!Edit, t
  <1> QED BY <1>7, <1>8

\* and a GET changes nothing.
LEMMA GetAppliesNothing ==
  ASSUME IInv, NEW r \in Requests, call[r].kind = "get", Applied(r)
  PROVE  UNCHANGED rows
  BY DEF IInv, TypeOK, Applied, Outcome

\* The COMMIT is the instant of a POST, a PATCH and a DELETE.
LEMMA CommitInBook ==
  ASSUME IInv, VerdictInv, NEW r \in Requests, Commit(r)
  PROVE  Abs!Create(r) \/ Abs!Delete(r) \/ Abs!Edit(r) \/ UNCHANGED Abs!bookVars
  <1>1. /\ TypeOK /\ OthersStay(r) /\ Seen(r) /\ Seen(r)' /\ Applied(r)
        /\ phase[r] = "written" /\ UNCHANGED <<used, call, target, task>>
    BY SeenByPhase, SeenByPhaseNext, StepLeavesOthers
       DEF IInv, StepBy, Progress, SeenInv, Commit
  <1>2. phase'[r] = "closed" /\ verdict'[r] = Success(r)
    BY <1>1, GoesToOnly DEF Commit
  <1>3. CASE call[r].kind = "get"
    <2>1. UNCHANGED rows /\ verdict'[r] = 200
      BY <1>1, <1>2, <1>3, GetAppliesNothing DEF Success
    <2> QED BY <1>1, <1>2, <1>3, <2>1, Hidden DEF Seen
  <1>4. CASE call[r].kind \in {"create", "update", "delete"}
    <2>1. StatusOf(r) = "open" /\ StatusOf(r)' = "settled" /\ KnownOf(r)' = Absent
      BY <1>1, <1>2, <1>4 DEF Seen
    <2>2. ResultOf(r)' = Success(r) /\ ShownOf(r)' = Reply(r)
      BY <1>1, <1>2, <1>4 DEF Seen, Reply, Success
    <2>3. CommitShows(r)
      BY <1>1, <2>1, <2>2, Settles DEF CommitShows
    <2> QED BY <1>1, <1>4, <2>3, BirthInBook, DeathInBook, EditInBook
  <1> QED BY <1>1, <1>3, <1>4, CallType

\* If it is not acknowledged, the reply is 500 whether it took effect or not.
LEMMA CommitRaisesInBook ==
  ASSUME IInv, VerdictInv, NEW r \in Requests, CommitRaises(r)
  PROVE  Abs!Create(r) \/ Abs!Delete(r) \/ Abs!Edit(r) \/ Abs!Refuse(r) \/ Abs!Blur(r)
  <1>1. /\ TypeOK /\ OthersStay(r) /\ Seen(r) /\ Seen(r)'
        /\ phase[r] = "written" /\ UNCHANGED <<used, call, target>>
        /\ Applied(r) \/ UNCHANGED rows
    BY SeenByPhase, SeenByPhaseNext, StepLeavesOthers
       DEF IInv, StepBy, SeenInv, CommitRaises
  <1>2. phase'[r] = "unwinding" /\ verdict'[r] = 500 /\ GoesTo(r, "unwinding", 500)
    BY <1>1, GoesToOnly DEF CommitRaises
  <1>3. /\ StatusOf(r)' = "settled" /\ ResultOf(r)' = 500
        /\ KnownOf(r)' = Absent /\ ShownOf(r)' = Absent
    BY <1>1, <1>2 DEF Seen
  <1>4. CASE call[r].kind = "get"
    <2>1. UNCHANGED rows
      BY <1>1, <1>4, GetAppliesNothing
    <2>2. StatusOf(r) = "settled" /\ KnownOf(r) = Absent
      BY <1>1, <1>4 DEF Seen
    <2>3. BookStatus[r] = "settled" /\ BookStatus' = BookStatus /\ BookKnown' = BookKnown
      BY <1>1, <1>3, <2>2, BookMoves
    <2>4. /\ BookResult' = [BookResult EXCEPT ![r] = 500]
          /\ BookShown' = [BookShown EXCEPT ![r] = Absent]
      BY <1>1, <1>3, BookMoves
    <2> QED BY <1>1, <1>4, <2>1, <2>3, <2>4 DEF Abs!Blur
  <1>5. CASE call[r].kind \in {"create", "update", "delete"}
    <2>1. StatusOf(r) = "open"
      BY <1>1, <1>5 DEF Seen
    <2>2. CASE UNCHANGED rows
      BY <1>1, <1>2, <2>1, <2>2, RefusesInBook
    <2>3. CASE Applied(r)
      <3>1. CommitShows(r)
        BY <1>1, <1>3, <2>1, Settles DEF CommitShows
      <3> QED BY <1>1, <1>5, <2>3, <3>1, BirthInBook, DeathInBook, EditInBook
    <2> QED BY <1>1, <2>2, <2>3
  <1> QED BY <1>1, <1>4, <1>5, CallType

\* A statement that raises fails the call before it took effect.
LEMMA StatementRaisesInBook ==
  ASSUME IInv, NEW r \in Requests, StatementRaises(r)
  PROVE  Abs!Refuse(r)
  <1>1. /\ OthersStay(r) /\ Seen(r) /\ RequestOK(r)
        /\ phase[r] \in {"called", "loaded", "saving"} /\ GoesTo(r, "unwinding", 500)
        /\ UNCHANGED <<rows, used, call, target>>
    BY SeenByPhase, StepLeavesOthers DEF IInv, StepBy, SeenInv, StatementRaises
  <1>2. StatusOf(r) = "open"
    BY <1>1 DEF Seen, RequestOK
  <1> QED BY <1>1, <1>2, RefusesInBook

\* The rollback of a call that is refused may fail and blur its answer.
LEMMA RollbackInBook ==
  ASSUME IInv, VerdictInv, NEW r \in Requests, Rollback(r)
  PROVE  Abs!Blur(r) \/ UNCHANGED Abs!bookVars
  <1>1. /\ TypeOK /\ OthersStay(r) /\ VerdictOK(r) /\ Seen(r) /\ Seen(r)'
        /\ phase[r] = "unwinding" /\ UNCHANGED <<rows, used, call, target>>
    BY SeenByPhase, SeenByPhaseNext, StepLeavesOthers
       DEF IInv, StepBy, Progress, VerdictInv, SeenInv, Rollback, Undone
  <1>2. phase'[r] = "closed" /\ verdict'[r] \in {verdict[r], 500}
    BY <1>1, GoesToOnly DEF Rollback
  <1>3. verdict[r] \in {400, 404, 500}
    BY <1>1 DEF VerdictOK
  <1>4. /\ StatusOf(r) = "settled" /\ StatusOf(r)' = "settled"
        /\ ResultOf(r) = verdict[r] /\ ResultOf(r)' = verdict'[r]
        /\ KnownOf(r) = Absent /\ KnownOf(r)' = Absent
        /\ ShownOf(r) = Absent /\ ShownOf(r)' = Absent
    BY <1>1, <1>2, <1>3 DEF Seen
  <1>5. CASE verdict'[r] = verdict[r]
    BY <1>1, <1>4, <1>5, Hidden
  <1>6. CASE verdict'[r] = 500 /\ verdict[r] \in {400, 404}
    <2>1. /\ BookStatus[r] = "settled" /\ BookResult[r] \in {400, 404}
          /\ BookStatus' = BookStatus /\ BookKnown' = BookKnown
          /\ BookResult' = [BookResult EXCEPT ![r] = 500]
          /\ BookShown' = [BookShown EXCEPT ![r] = Absent]
      BY <1>1, <1>4, <1>6, BookMoves
    <2> QED BY <1>1, <2>1 DEF Abs!Blur
  <1> QED BY <1>2, <1>3, <1>5, <1>6

\* Every step of the endpoints is a step of the book or none.
LEMMA NextInBook == IInv /\ VerdictInv /\ [Next]_vars => [Abs!BookNext]_Abs!bookVars
  <1> SUFFICES ASSUME IInv, VerdictInv, [Next]_vars PROVE [Abs!BookNext]_Abs!bookVars
    OBVIOUS
  <1>1. CASE UNCHANGED vars
    <2>1. UNCHANGED <<BookStatus, BookResult, BookKnown, BookShown>>
      BY <1>1 DEF vars, BookStatus, BookResult, BookKnown, BookShown, StatusOf, ResultOf,
                  KnownOf, ShownOf, Editing, Looked, Answered
    <2> QED BY <1>1, <2>1 DEF vars, Abs!bookVars
  <1>2. CASE Next /\ ~UNCHANGED vars
    <2>1. PICK r \in Requests : StepBy(r)
      BY <1>2 DEF Next, Finished, StepBy
    <2>2. \/ Abs!Arrive(r) \/ Abs!Create(r) \/ Abs!Delete(r) \/ Abs!Look(r)
          \/ Abs!Read(r) \/ Abs!Reread(r) \/ Abs!Edit(r)
          \/ Abs!Refuse(r) \/ Abs!Blur(r) \/ Abs!Reply(r) \/ Abs!Lose(r)
          \/ UNCHANGED Abs!bookVars
      BY <2>1, EndsInBook, CreateInBook, DeleteInBook, GetInBook, LoadInBook, ReloadInBook,
         FlushInBook, CommitInBook, CommitRaisesInBook, StatementRaisesInBook,
         RollbackInBook DEF StepBy, Progress
    <2> QED BY <2>2 DEF Abs!BookNext
  <1> QED BY <1>1, <1>2

\* The book begins with the same table and the same calls.
LEMMA InitInBook == Init => Abs!BookInit
  <1> SUFFICES ASSUME Init PROVE Abs!BookInit
    OBVIOUS
  <1>1. \A r \in Requests : phase[r] = "idle" /\ verdict[r] = 0
    BY DEF Init
  <1>2. \A r \in Requests : /\ StatusOf(r) = "new" /\ ResultOf(r) = 0
                            /\ KnownOf(r) = Absent /\ ShownOf(r) = Absent
    BY <1>1, SeenByPhase DEF SeenInv, Seen
  <1> QED BY <1>2 DEF Init, Abs!BookInit, BookStatus, BookResult, BookKnown, BookShown

\* The endpoints implement the task book: a POST, GET or DELETE takes effect
\* at one instant between arrival and reply, and its reply tells what was true
\* at that instant.  A PATCH reads, may read again, and writes what differs
\* from what it last read, each at an instant of its own; when nothing differs
\* it may answer 200 for a task that was deleted meanwhile.  Nobody touches
\* the task of another.
THEOREM TaskEditsImplementBook == Spec => ImplementsTaskBook
  BY InitInBook, NextInBook, AlwaysIInv, AlwaysVerdictInv, PTL
     DEF Spec, ImplementsTaskBook, Abs!Book

-----------------------------------------------------------------------------
\* Ids of POSTs come and go one at a time.
LEMMA OpenIdsMove ==
  ASSUME CreatorsApart, NEW r \in Requests, OthersStay(r), UNCHANGED target
  PROVE  /\ (Unborn(r)' <=> Unborn(r)) => OpenIds' = OpenIds
         /\ Unborn(r) /\ ~Unborn(r)' => /\ target[r] \in OpenIds
                                       /\ OpenIds' = OpenIds \ {target[r]}
  <1>1. \A s \in Requests \ {r} : Unborn(s)' <=> Unborn(s)
    BY DEF OthersStay, Unborn
  <1>2. \A s \in Requests \ {r} : Unborn(r) /\ Unborn(s) => target[s] # target[r]
    BY DEF CreatorsApart, Unborn
  <1> QED BY <1>1, <1>2 DEF OpenIds

\* A POST arrives with an id of its own.
LEMMA ArriveInTable ==
  ASSUME IInv, NEW r \in Requests, Arrive(r)
  PROVE  (\E t \in Tasks : Table!Post(t)) \/ UNCHANGED Table!table
  <1>1. OthersStay(r) /\ TypeOK /\ phase[r] = "idle" /\ UNCHANGED <<rows, call>>
    BY StepLeavesOthers DEF IInv, StepBy, Arrive
  <1>2. phase'[r] = "called" /\ ~Unborn(r)
    BY <1>1, GoesToOnly DEF Arrive, Unborn
  <1>3. CASE call[r].kind = "create"
    <2>1. PICK t \in Tasks \ used : /\ target' = [target EXCEPT ![r] = t]
                                    /\ used' = used \cup {t}
      BY <1>3 DEF Arrive
    <2>2. \A s \in Requests : Unborn(s)' <=> Unborn(s) \/ s = r
      BY <1>1, <1>2, <1>3 DEF OthersStay, Unborn
    <2>3. target'[r] = t /\ \A s \in Requests \ {r} : target'[s] = target[s]
      BY <1>1, <2>1 DEF TypeOK
    <2>4. OpenIds' = OpenIds \cup {t}
      BY <1>2, <2>2, <2>3 DEF OpenIds
    <2> QED BY <1>1, <2>1, <2>4 DEF Table!Post
  <1>4. CASE call[r].kind # "create"
    <2>1. UNCHANGED <<target, used>> /\ ~Unborn(r)'
      BY <1>1, <1>4 DEF Arrive, Unborn
    <2>2. OpenIds' = OpenIds
      BY <1>1, <1>2, <2>1, OpenIdsMove DEF IInv
    <2> QED BY <1>1, <2>1, <2>2 DEF Table!table
  <1> QED BY <1>3, <1>4

\* A step that leaves the rows alone ends a POST or does not show.
LEMMA QuietInTable ==
  ASSUME IInv, NEW r \in Requests, OthersStay(r), UNCHANGED <<rows, used, target>>,
         Unborn(r)' => Unborn(r)
  PROVE  Table!AbortPost(target[r]) \/ UNCHANGED Table!table
  <1>1. CASE Unborn(r)' <=> Unborn(r)
    BY <1>1, OpenIdsMove DEF IInv, Table!table
  <1>2. CASE Unborn(r) /\ ~Unborn(r)'
    BY <1>2, OpenIdsMove DEF IInv, Table!AbortPost
  <1> QED BY <1>1, <1>2

\* An UPDATE that has met its row writes no other owner and no other time of
\* creation.
LEMMA EditedRow ==
  ASSUME IInv, NEW r \in Requests, phase[r] = "written", call[r].kind = "update",
         Dirty(r) # {}
  PROVE  LET new == Outcome(r)
             row == rows[target[r]]
         IN  /\ row \in Row /\ row.owner = call[r].user /\ new \in Row
             /\ new.owner = row.owner /\ new.created_at = row.created_at
             /\ \A f \in Fields : new[f] = IF f \in Dirty(r) THEN task[r][f] ELSE row[f]
  <1> DEFINE row == rows[target[r]]
             new == Outcome(r)
  <1>1. TypeOK /\ RequestOK(r) /\ Editing(r) /\ Locks(r)
    BY DEF IInv, Editing, Locks
  <1>2. row \in Row /\ row.owner = call[r].user /\ task[r] \in Row
    BY <1>1 DEF RequestOK, EditOK, TypeOK
  <1>3. new = [f \in DOMAIN row |-> IF f \in Dirty(r) THEN task[r][f] ELSE row[f]]
    BY DEF Outcome
  <1>4. Dirty(r) \subseteq Columns
    BY DEF Dirty
  <1> HIDE DEF row, new
  <1>5. /\ new \in Row /\ new.owner = row.owner /\ new.created_at = row.created_at
        /\ \A f \in Fields : new[f] = IF f \in Dirty(r) THEN task[r][f] ELSE row[f]
    BY <1>2, <1>3, <1>4 DEF Row, Columns, Fields
  <1> QED BY <1>2, <1>5 DEF row, new

\* What a COMMIT does to the table.
LEMMA AppliedInTable ==
  ASSUME IInv, NEW r \in Requests, OthersStay(r), UNCHANGED <<used, call, target>>,
         phase[r] = "written", ~Unborn(r)', Applied(r)
  PROVE  Table!Write(target[r]) \/ UNCHANGED Table!table
  <1> DEFINE t == target[r]
  <1>1. /\ TypeOK /\ t \in Tasks /\ CommitOK(r, t, Outcome(r))
        /\ Outcome(r) \in Row \cup {Absent}
        /\ rows' = [rows EXCEPT ![t] = Outcome(r)] /\ rows'[t] = Outcome(r)
    BY OutcomeOK DEF IInv, TypeOK, Applied
  <1>2. call[r].kind # "create" => OpenIds' = OpenIds
    BY OpenIdsMove DEF IInv, Unborn
  <1>3. CASE call[r].kind = "get" \/ (call[r].kind = "update" /\ Dirty(r) = {})
    <2>1. rows' = rows
      BY <1>1, <1>3 DEF TypeOK, Outcome
    <2> QED BY <1>2, <1>3, <2>1 DEF Table!table
  <1>4. CASE call[r].kind = "create"
    <2>1. Unborn(r) /\ Outcome(r) = task[r] /\ BirthOK(r)
      BY <1>1, <1>4 DEF CommitOK, Unborn
    <2>2. task[r] \in Row /\ task[r].status = Pending
      BY <1>4, <2>1 DEF BirthOK, AskedFor, NewTask, Fields
    <2>3. t \in OpenIds /\ OpenIds' = OpenIds \ {t}
      BY <2>1, OpenIdsMove DEF IInv
    <2>4. Table!CommitPost(t, rows'[t])
      BY <1>1, <2>1, <2>2, <2>3 DEF Table!CommitPost
    <2> QED BY <2>4 DEF Table!Write
  <1>5. CASE call[r].kind = "delete"
    <2>1. Outcome(r) = Absent /\ rows[t] # Absent
      BY <1>1, <1>5 DEF CommitOK, Outcome
    <2>2. Table!Delete(t)
      BY <1>1, <1>2, <1>5, <2>1 DEF Table!Delete
    <2> QED BY <2>2 DEF Table!Write
  <1>6. CASE call[r].kind = "update" /\ Dirty(r) # {}
    <2>1. /\ rows[t] \in Row /\ Outcome(r) \in Row
          /\ Outcome(r).owner = rows[t].owner
          /\ Outcome(r).created_at = rows[t].created_at
      BY <1>6, EditedRow
    <2>2. Table!Patch(t, rows'[t])
      BY <1>1, <1>2, <1>6, <2>1, TaskAssumption DEF Table!Patch
    <2> QED BY <2>2 DEF Table!Write
  <1> QED BY <1>1, <1>3, <1>4, <1>5, <1>6, CallType

\* Every step of a request is a write of the table or does not show in it.
LEMMA StepInTable ==
  ASSUME IInv, NEW r \in Requests, StepBy(r)
  PROVE  (\E t \in Tasks : Table!Write(t)) \/ UNCHANGED Table!table
  <1>1. TypeOK /\ OthersStay(r) /\ RequestOK(r) /\ target[r] \in Tasks
    BY StepLeavesOthers DEF IInv, TypeOK
  <1>2. CASE Arrive(r)
    BY <1>2, ArriveInTable DEF Table!Write
  <1>3. CASE (Commit(r) \/ CommitRaises(r)) /\ Applied(r)
    <2>1. /\ phase[r] = "written" /\ phase'[r] \in {"closed", "unwinding"}
          /\ UNCHANGED <<used, call, target>>
      BY <1>1, <1>3, GoesToOnly DEF Commit, CommitRaises
    <2>2. ~Unborn(r)'
      BY <2>1 DEF Unborn
    <2> QED BY <1>1, <1>3, <2>1, <2>2, AppliedInTable
  <1>4. CASE ~Arrive(r) /\ ~((Commit(r) \/ CommitRaises(r)) /\ Applied(r))
    <2>1. UNCHANGED <<rows, used, target>>
      BY <1>4 DEF StepBy, Progress, Create, Get, Load, Reload, Flush, Delete, Commit,
             Rollback, Respond, CommitRaises, StatementRaises, Lose, Undone
    <2>2. Unborn(r)' => Unborn(r)
      BY <1>1, <1>4, GoesToOnly
         DEF StepBy, Progress, Create, Get, Load, Reload, Flush, Delete, Commit, Rollback,
             Respond, CommitRaises, StatementRaises, Lose, Unborn, OthersStay, RequestOK
    <2> QED BY <1>1, <2>1, <2>2, QuietInTable DEF Table!Write
  <1> QED BY <1>2, <1>3, <1>4

\* TaskListing's assumption about those who write holds of TaskEdits: what
\* is proved of walks through the list is true while requests interleave,
\* fail and get lost as they do there.
THEOREM TaskEditsWriteAsListed == Spec => WritesAsListed
  <1>1. Init => Table!TableInit
    <2> SUFFICES ASSUME Init PROVE Table!TableInit
      OBVIOUS
    <2>1. \A r \in Requests : phase[r] = "idle"
      BY DEF Init
    <2>2. OpenIds = {}
      BY <2>1 DEF OpenIds, Unborn
    <2> QED BY <2>2 DEF Init, Table!TableInit
  <1>2. IInv /\ [Next]_vars => [\E t \in Tasks : Table!Write(t)]_Table!table
    <2> SUFFICES ASSUME IInv, [Next]_vars
                 PROVE  [\E t \in Tasks : Table!Write(t)]_Table!table
      OBVIOUS
    <2>1. CASE UNCHANGED vars
      BY <2>1 DEF vars, Table!table, OpenIds, Unborn
    <2>2. CASE Next /\ ~UNCHANGED vars
      <3>1. PICK r \in Requests : StepBy(r)
        BY <2>2 DEF Next, Finished, StepBy
      <3> QED BY <3>1, StepInTable
    <2> QED BY <2>1, <2>2
  <1> QED BY <1>1, <1>2, AlwaysIInv, PTL DEF Spec, WritesAsListed, Table!Table
=============================================================================
