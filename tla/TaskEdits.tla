------------------------------ MODULE TaskEdits -----------------------------
(***************************************************************************)
(* POST, GET, PATCH and DELETE on single tasks, from the handler to the    *)
(* response, run concurrently by the clients of several users.  A request  *)
(* is one transaction at READ COMMITTED (PostgreSQL): each statement sees  *)
(* what was committed when it ran; an UPDATE or DELETE locks its row until *)
(* the transaction ends and waits for the lock of another.  PATCH reads    *)
(* the row, changes a copy of it in memory, and saves every field of the   *)
(* copy through the ORM, which writes those that differ from the row as    *)
(* the session last loaded it.                                             *)
(***************************************************************************)
EXTENDS TaskCalls

VARIABLES
    rows,       \* the committed tasks table
    used,       \* ids uuid4() has given out
    clock,      \* the next timestamp
    call,       \* what each request asks, fixed from the start
    target,     \* the task it is about
    phase,      \* how far its handling has come
    verdict,    \* status code it will be answered with, 0 before
    loaded,     \* the row as the session last loaded it
    task,       \* the domain entity the use case works on, then the response's
    alone,      \* history: nobody else changed the task since the load
    applied     \* history: the requests whose COMMIT took effect

history == <<alone, applied>>
vars == <<rows, used, clock, call, target, phase, verdict, loaded, task, history>>

Phases == {"idle", "called", "loaded", "saving", "written", "unwinding",
           "closed", "done", "lost"}

TypeOK ==
    /\ rows \in [Tasks -> Row \cup {Absent}]
    /\ used \subseteq Tasks
    /\ clock \in Nat
    /\ call \in Workloads
    /\ target \in [Requests -> Tasks]
    /\ phase \in [Requests -> Phases]
    /\ verdict \in [Requests -> {0, 200, 201, 204, 400, 404, 500}]
    /\ loaded \in [Requests -> Row \cup {Absent}]
    /\ task \in [Requests -> Row \cup {Absent}]
    /\ alone \in [Requests -> BOOLEAN]
    /\ applied \subseteq Requests

Init ==
    /\ rows = Existing
    /\ used = {t \in Tasks : Existing[t] # Absent}
    /\ clock = 1
    /\ call \in Workloads
    /\ target = [r \in Requests |-> call[r].task]
    /\ phase = [r \in Requests |-> "idle"]
    /\ verdict = [r \in Requests |-> 0]
    /\ loaded = [r \in Requests |-> Absent]
    /\ task = [r \in Requests |-> Absent]
    /\ alone = [r \in Requests |-> FALSE]
    /\ applied = {}

-----------------------------------------------------------------------------
GoesTo(r, p, code) ==
    /\ phase' = [phase EXCEPT ![r] = p]
    /\ verdict' = [verdict EXCEPT ![r] = code]

Changes(r) == Cleaned(BuildChanges(call[r].payload))

\* Mutant of Edited: an omitted description is taken for null.
EditedClobbering(row, changes, now) ==
    [f \in DOMAIN row |->
        IF f \in DOMAIN changes THEN changes[f]
        ELSE IF f = "description" THEN Null
        ELSE IF f = "updated_at" /\ "status" \in DOMAIN changes THEN now
        ELSE row[f]]

\* UpdateTaskUseCase: the entity with the changes made, at time now; only a
\* change of status touches updated_at.
Edited(row, changes, now) ==
    [f \in DOMAIN row |->
        IF f \in DOMAIN changes THEN changes[f]
        ELSE IF f = "updated_at" /\ "status" \in DOMAIN changes THEN now
        ELSE row[f]]

\* Task.create.
NewTask(r) ==
    LET changes == Changes(r) IN
    [owner |-> call[r].user, title |-> changes.title, status |-> Pending,
     description |-> IF "description" \in DOMAIN changes THEN changes.description
                                                        ELSE Null,
     created_at |-> clock, updated_at |-> clock]

\* The columns save assigns, and those the ORM then finds changed.
Columns == {"title", "description", "status", "updated_at"}

Dirty(r) == {f \in Columns : task[r][f] # loaded[r][f]}

\* The row lock a transaction holds after its statement.
Locks(r) ==
    /\ phase[r] = "written"
    /\ \/ call[r].kind = "delete"
       \/ call[r].kind = "update" /\ Dirty(r) # {}

Unlocked(r) == \A s \in Requests \ {r} : target[s] = target[r] => ~Locks(s)

\* Mutant of Owned: the query filters by id only.
OwnedByAnyone(r) == rows[target[r]] # Absent

Owned(r) == rows[target[r]] # Absent /\ rows[target[r]].owner = call[r].user

\* Mutant of Arrive: a new id is one the table does not have.
ArriveReusingIds(r) ==
    /\ phase[r] = "idle"
    /\ IF call[r].kind = "create"
       THEN \E t \in {u \in Tasks : rows[u] = Absent} :
               target' = [target EXCEPT ![r] = t] /\ used' = used \cup {t}
       ELSE UNCHANGED <<target, used>>
    /\ GoesTo(r, "called", 0)
    /\ UNCHANGED <<rows, clock, call, loaded, task, history>>

\* The call arrives.  A new task gets its id.
Arrive(r) ==
    /\ phase[r] = "idle"
    /\ IF call[r].kind = "create"
       THEN \E t \in Tasks \ used :
               target' = [target EXCEPT ![r] = t] /\ used' = used \cup {t}
       ELSE UNCHANGED <<target, used>>
    /\ GoesTo(r, "called", 0)
    /\ UNCHANGED <<rows, clock, call, loaded, task, history>>

\* Task.create, tasks.add.
Create(r) ==
    /\ phase[r] = "called" /\ call[r].kind = "create"
    /\ IF ValidTitle(Changes(r))
       THEN /\ GoesTo(r, "written", 0)
            /\ task' = [task EXCEPT ![r] = NewTask(r)]
            /\ clock' = clock + 1
       ELSE GoesTo(r, "unwinding", 400) /\ UNCHANGED <<task, clock>>
    /\ UNCHANGED <<rows, used, call, target, loaded, history>>

\* Mutant of Get: the use case takes the repository's get, by id only.
GetAnyones(r) ==
    /\ phase[r] = "called" /\ call[r].kind = "get"
    /\ IF OwnedByAnyone(r)
       THEN GoesTo(r, "written", 0) /\ task' = [task EXCEPT ![r] = rows[target[r]]]
       ELSE GoesTo(r, "unwinding", 404) /\ UNCHANGED task
    /\ UNCHANGED <<rows, used, clock, call, target, loaded, history>>

\* GetTaskUseCase: one SELECT by id and owner.
Get(r) ==
    /\ phase[r] = "called" /\ call[r].kind = "get"
    /\ IF Owned(r)
       THEN GoesTo(r, "written", 0) /\ task' = [task EXCEPT ![r] = rows[target[r]]]
       ELSE GoesTo(r, "unwinding", 404) /\ UNCHANGED task
    /\ UNCHANGED <<rows, used, clock, call, target, loaded, history>>

\* UpdateTaskUseCase up to save: get_owned copies the row, the changes are
\* made to the copy.
Load(r) ==
    /\ phase[r] = "called" /\ call[r].kind = "update"
    /\ LET row == rows[target[r]] IN
        IF ~Owned(r)
        THEN GoesTo(r, "unwinding", 404) /\ UNCHANGED <<clock, loaded, task, history>>
        ELSE IF ~ValidTitle(Changes(r))
        THEN GoesTo(r, "unwinding", 400) /\ UNCHANGED <<clock, loaded, task, history>>
        ELSE /\ GoesTo(r, "loaded", 0)
             /\ loaded' = [loaded EXCEPT ![r] = row]
             /\ task' = [task EXCEPT ![r] = Edited(row, Changes(r), clock)]
             /\ clock' = clock + 1
             /\ alone' = [alone EXCEPT ![r] = TRUE]
    /\ UNCHANGED <<rows, used, call, target, applied>>

\* save: session.get finds the model in the identity map, which refers to it
\* weakly, or else reads the row again.
Reload(r) ==
    /\ phase[r] = "loaded"
    /\ \/ GoesTo(r, "saving", 0) /\ UNCHANGED loaded
       \/ IF rows[target[r]] = Absent
          THEN GoesTo(r, "unwinding", 404) /\ UNCHANGED loaded
          ELSE GoesTo(r, "saving", 0) /\ loaded' = [loaded EXCEPT ![r] = rows[target[r]]]
    /\ UNCHANGED <<rows, used, clock, call, target, task, history>>

\* save: all fields are assigned, flush sends an UPDATE of the dirty ones.
\* onupdate stamps it unless updated_at is dirty itself; an UPDATE that
\* meets no row is a StaleDataError.
Flush(r) ==
    /\ phase[r] = "saving"
    /\ IF Dirty(r) = {}
       THEN GoesTo(r, "written", 0) /\ UNCHANGED <<clock, task>>
       ELSE /\ Unlocked(r)
            /\ IF rows[target[r]] = Absent
               THEN GoesTo(r, "unwinding", 500) /\ UNCHANGED <<clock, task>>
               ELSE /\ GoesTo(r, "written", 0)
                    /\ IF "updated_at" \in Dirty(r)
                       THEN UNCHANGED <<clock, task>>
                       ELSE /\ task' = [task EXCEPT ![r].updated_at = clock]
                            /\ clock' = clock + 1
    /\ UNCHANGED <<rows, used, call, target, loaded, history>>

\* Mutants of Delete: a locked row is skipped instead of waited for; a
\* statement that meets no row is sent again.
DeleteSkipLocked(r) ==
    /\ phase[r] = "called" /\ call[r].kind = "delete"
    /\ IF Owned(r) /\ Unlocked(r) THEN GoesTo(r, "written", 0)
                                 ELSE GoesTo(r, "unwinding", 404)
    /\ UNCHANGED <<rows, used, clock, call, target, loaded, task, history>>

DeleteRetried(r) ==
    /\ phase[r] = "called" /\ call[r].kind = "delete"
    /\ Owned(r) /\ Unlocked(r)
    /\ GoesTo(r, "written", 0)
    /\ UNCHANGED <<rows, used, clock, call, target, loaded, task, history>>

\* DELETE ... WHERE id AND owner; rowcount 0 becomes NotFoundError.
Delete(r) ==
    /\ phase[r] = "called" /\ call[r].kind = "delete"
    /\ Owned(r) => Unlocked(r)
    /\ IF Owned(r) THEN GoesTo(r, "written", 0) ELSE GoesTo(r, "unwinding", 404)
    /\ UNCHANGED <<rows, used, clock, call, target, loaded, task, history>>

-----------------------------------------------------------------------------
\* What the row of r's task is once r's transaction is committed.
Outcome(r) ==
    LET row == rows[target[r]] IN
    CASE call[r].kind = "create" -> task[r]
      [] call[r].kind = "delete" -> Absent
      [] call[r].kind = "update" /\ Dirty(r) # {} ->
           [f \in DOMAIN row |-> IF f \in Dirty(r) THEN task[r][f] ELSE row[f]]
      [] OTHER -> row

\* The session is closed, its copy of the row is gone.
CloseSession(r) == loaded' = [loaded EXCEPT ![r] = Absent]

\* So is the entity, if there will be no response that shows it.
ShowsNothing(r) == task' = [task EXCEPT ![r] = Absent]

\* The database undoes the transaction.
Undone(r) ==
    /\ alone' = [alone EXCEPT ![r] = FALSE]
    /\ UNCHANGED <<rows, applied>>

\* The COMMIT takes effect in the database.
Applied(r) ==
    /\ rows' = [rows EXCEPT ![target[r]] = Outcome(r)]
    /\ applied' = applied \cup {r}
    /\ alone' = [s \in Requests |->
                    alone[s] /\ s # r /\ (target[s] = target[r] => rows' = rows)]

Success(r) ==
    CASE call[r].kind = "create" -> 201
      [] call[r].kind = "delete" -> 204
      [] OTHER -> 200

\* Mutant of Commit: the session is closed without a COMMIT.
CommitForgotten(r) ==
    /\ phase[r] = "written"
    /\ GoesTo(r, "closed", Success(r))
    /\ CloseSession(r)
    /\ UNCHANGED <<rows, used, clock, call, target, task, history>>

Commit(r) ==
    /\ phase[r] = "written"
    /\ Applied(r)
    /\ GoesTo(r, "closed", Success(r))
    /\ CloseSession(r)
    /\ UNCHANGED <<used, clock, call, target, task>>

\* commit() raises, after the COMMIT took effect or without that.
CommitRaises(r) ==
    /\ phase[r] = "written"
    /\ Applied(r) \/ UNCHANGED <<rows, history>>
    /\ GoesTo(r, "unwinding", 500)
    /\ UNCHANGED <<used, clock, call, target, loaded, task>>

\* A statement raises: connection lost, lock or statement timeout.
StatementRaises(r) ==
    /\ phase[r] \in {"called", "loaded", "saving"}
    /\ GoesTo(r, "unwinding", 500)
    /\ UNCHANGED <<rows, used, clock, call, target, loaded, task, history>>

\* get_session rolls back, which may raise itself.
Rollback(r) ==
    /\ phase[r] = "unwinding"
    /\ \E code \in {verdict[r], 500} : GoesTo(r, "closed", code)
    /\ CloseSession(r) /\ ShowsNothing(r)
    /\ Undone(r)
    /\ UNCHANGED <<used, clock, call, target>>

Respond(r) ==
    /\ phase[r] = "closed"
    /\ GoesTo(r, "done", verdict[r])
    /\ UNCHANGED <<rows, used, clock, call, target, loaded, task, history>>

\* The worker dies with the request; the database undoes its transaction.
Lose(r) ==
    /\ phase[r] \notin {"idle", "done", "lost"}
    /\ GoesTo(r, "lost", 0)
    /\ CloseSession(r) /\ ShowsNothing(r)
    /\ Undone(r)
    /\ UNCHANGED <<used, clock, call, target>>

\* No request is under way, and no more may come.
Finished ==
    /\ \A r \in Requests : phase[r] \in {"idle", "done", "lost"}
    /\ UNCHANGED vars

Progress(r) ==
    \/ Create(r) \/ Get(r) \/ Load(r) \/ Reload(r) \/ Flush(r) \/ Delete(r)
    \/ Commit(r) \/ Rollback(r) \/ Respond(r)

Next ==
    \/ \E r \in Requests :
          Arrive(r) \/ Progress(r) \/ CommitRaises(r) \/ StatementRaises(r) \/ Lose(r)
    \/ Finished

\* The event loop and the database get on with every request they can.
Fairness == \A r \in Requests : WF_vars(Progress(r))

Spec == Init /\ [][Next]_vars /\ Fairness
-----------------------------------------------------------------------------
\* Whether r, had it the table to itself, gives field f of its task value v.
AskedFor(r, f, v) ==
    \/ call[r].kind = "create" /\ v = NewTask(r)[f]
    \/ /\ call[r].kind = "update" /\ f \in DOMAIN Changes(r)
       /\ v = Changes(r)[f]

\* Whatever the tasks table says was said by the task's owner in a request
\* that took effect: nothing of a refused, failed or lost edit is left, not
\* even through the copy another PATCH made of the row, and no one else
\* changes or deletes a task (get_owned, delete, get_session).
EveryChangeWasAsked ==
    \A t \in Tasks :
        LET effective == {r \in applied : target[r] = t} IN
        IF rows[t] # Absent
        THEN \A f \in Fields :
                \/ Existing[t] # Absent /\ rows[t][f] = Existing[t][f]
                \/ \E r \in effective : /\ call[r].user = rows[t].owner
                                         /\ AskedFor(r, f, rows[t][f])
        ELSE Existing[t] # Absent =>
                \E r \in effective : /\ call[r].user = Existing[t].owner
                                     /\ call[r].kind = "delete"

\* A DELETE answered 204 is final: no PATCH that had loaded the row brings
\* the task back, and no second DELETE is told that it deleted it.
DeleteIsFinal ==
    \A r \in Requests : verdict[r] = 204 =>
        /\ rows[target[r]] = Absent
        /\ \A s \in Requests : verdict[s] = 204 /\ target[s] = target[r] => s = r

\* The owner of a task is told 404 only if the task is gone for good, not
\* while another request is deleting it and may yet fail.
NotFoundIsTrue ==
    \A r \in Requests :
        LET t == target[r] IN
        verdict[r] = 404 /\ Existing[t] # Absent /\ Existing[t].owner = call[r].user
            => rows[t] = Absent

\* The transaction of r, a PATCH, takes effect in this step.
EditApplied(r) == call[r].kind = "update" /\ r \in applied' \ applied

\* A PATCH that nobody else's change of the task interferes with does what
\* it says: the fields it names get their values, the others keep theirs.
QuietEditIsExact ==
    [][\A r \in Requests : EditApplied(r) /\ alone[r] =>
         \A f \in Fields :
            rows'[target[r]][f] = IF f \in DOMAIN Changes(r) THEN Changes(r)[f]
                                  ELSE rows[target[r]][f]]_vars

\* Every call that arrives is answered or lost: the wait for a row lock ends.
EveryCallEnds ==
    \A r \in Requests : phase[r] = "called" ~> phase[r] \in {"done", "lost"}

\* What TaskUpdate's docstring says of every PATCH: "a field omitted from the
\* payload is left unchanged".
OmittedFieldsKept ==
    [][\A r \in Requests : EditApplied(r) /\ rows[target[r]] # Absent =>
         \A f \in Fields \ DOMAIN call[r].payload :
            rows'[target[r]][f] = rows[target[r]][f]]_vars

-----------------------------------------------------------------------------
\* What a client sees of a request, in the terms of TaskBook.  A GET is
\* decided by its SELECT, every other success by the COMMIT.
Editing(r) == call[r].kind = "update" /\ phase[r] \in {"loaded", "saving", "written"}

Looked(r) == call[r].kind = "get" /\ phase[r] = "written"

Answered(r) == phase[r] \in {"closed", "done"} /\ verdict[r] \in {200, 201}

StatusOf(r) ==
    CASE phase[r] = "idle" -> "new"
      [] phase[r] \in {"unwinding", "closed"} \/ Looked(r) -> "settled"
      [] phase[r] = "done" -> "replied"
      [] phase[r] = "lost" -> "lost"
      [] OTHER -> "open"

ResultOf(r) == IF Looked(r) THEN 200 ELSE verdict[r]

KnownOf(r) == IF Editing(r) THEN loaded[r] ELSE Absent

ShownOf(r) == IF Editing(r) \/ Looked(r) \/ Answered(r)
              THEN [f \in Fields |-> task[r][f]] ELSE Absent

BookStatus == [r \in Requests |-> StatusOf(r)]
BookResult == [r \in Requests |-> ResultOf(r)]
BookKnown == [r \in Requests |-> KnownOf(r)]
BookShown == [r \in Requests |-> ShownOf(r)]

Abs == INSTANCE TaskBook
           WITH tasks <- rows, ids <- used, calls <- call, about <- target,
                status <- BookStatus, result <- BookResult,
                known <- BookKnown, shown <- BookShown

\* The endpoints implement the task book: each call takes effect at one
\* instant between arrival and reply, at most once, on the caller's task
\* only, and code and body of the reply are true of that instant; a PATCH
\* writes what differs from what it last read (refinement of TaskBook).
ImplementsTaskBook == Abs!Book

-----------------------------------------------------------------------------
\* What one who lists tasks sees of a request, in the terms of TaskTable.
\* A POST whose row is not committed:
Unborn(r) == call[r].kind = "create" /\ phase[r] \in {"called", "written"}

OpenIds == {target[r] : r \in {q \in Requests : Unborn(q)}}

Table == INSTANCE TaskTable WITH open <- OpenIds

\* TaskListing's assumption about those who write: however the requests
\* interleave, fail and get lost, no id is given out twice, no two POSTs fill
\* one row, new tasks are pending, and no edit moves a task in the order of
\* the list or to another owner (refinement of TaskTable).
WritesAsListed == Table!Table
=============================================================================
