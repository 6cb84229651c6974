------------------------------ MODULE TaskBook ------------------------------
(***************************************************************************)
(* What the task endpoints promise their clients.  A POST, GET or DELETE   *)
(* takes effect at one instant between its arrival and its reply, at most  *)
(* once, and the reply tells what was true at that instant.  A PATCH has   *)
(* several: it reads the task, perhaps once more, and in the last instant  *)
(* writes the fields in which what it wants differs from what it last      *)
(* read; when none does it may answer 200 for a task that is gone.  No     *)
(* call touches a task of another user.  A reply of 500 says nothing about *)
(* whether the call took effect.                                           *)
(***************************************************************************)
EXTENDS TaskCalls

VARIABLES
    tasks,      \* the tasks that exist
    ids,        \* the ids that are taken, now or before
    calls,      \* what each request asks, fixed from the start
    about,      \* the task it is about
    status,     \* "new", "open", "settled", "replied" or "lost"
    result,     \* the status code decided for a settled call, 0 before
    known,      \* the task as an open PATCH last read it
    shown       \* the fields a PATCH wants, or a settled call will show

bookVars == <<tasks, ids, calls, about, status, result, known, shown>>

BookInit ==
    /\ tasks = Existing
    /\ ids = {t \in Tasks : Existing[t] # Absent}
    /\ calls \in Workloads
    /\ about = [r \in Requests |-> calls[r].task]
    /\ status = [r \in Requests |-> "new"]
    /\ result = [r \in Requests |-> 0]
    /\ known = [r \in Requests |-> Absent]
    /\ shown = [r \in Requests |-> Absent]

Asked(r) == Cleaned(BuildChanges(calls[r].payload))

\* The fields of a row with the changes made.
With(row, changes) ==
    [f \in Fields |-> IF f \in DOMAIN changes THEN changes[f] ELSE row[f]]

\* The fields of a new task.
NewFields(r) ==
    [f \in Fields |-> IF f = "status" THEN Pending
                      ELSE IF f \in DOMAIN Asked(r) THEN Asked(r)[f] ELSE Null]

\* The task is there and is the caller's.
Theirs(r) == tasks[about[r]] # Absent /\ tasks[about[r]].owner = calls[r].user

\* Nothing but task t changes.
OnlyChanges(t) ==
    /\ tasks' \in [Tasks -> Row \cup {Absent}]
    /\ \A u \in Tasks \ {t} : tasks'[u] = tasks[u]

-----------------------------------------------------------------------------
\* A call arrives; a task to be created has an id that no other ever had.
Arrive(r) ==
    /\ status[r] = "new"
    /\ status' = [status EXCEPT ![r] = "open"]
    /\ IF calls[r].kind = "create"
       THEN \E t \in Tasks \ ids : about' = [about EXCEPT ![r] = t] /\ ids' = ids \cup {t}
       ELSE UNCHANGED <<about, ids>>
    /\ UNCHANGED <<tasks, calls, result, known, shown>>

\* The outcome of the call is decided.
Settle(r, code, fields) ==
    /\ status[r] = "open"
    /\ status' = [status EXCEPT ![r] = "settled"]
    /\ result' = [result EXCEPT ![r] = code]
    /\ known' = [known EXCEPT ![r] = Absent]
    /\ shown' = [shown EXCEPT ![r] = fields]
    /\ UNCHANGED <<ids, calls, about>>

\* The call takes effect; the client may learn of it or not.
Succeed(r, code, fields) == Settle(r, code, fields) \/ Settle(r, 500, Absent)

Create(r) ==
    /\ calls[r].kind = "create" /\ ValidTitle(Asked(r))
    /\ Succeed(r, 201, NewFields(r))
    /\ LET t == about[r] IN
        /\ tasks[t] = Absent
        /\ OnlyChanges(t)
        /\ tasks'[t] # Absent /\ tasks'[t].owner = calls[r].user
        /\ \A f \in Fields : tasks'[t][f] = NewFields(r)[f]

Delete(r) ==
    /\ calls[r].kind = "delete" /\ Theirs(r)
    /\ Succeed(r, 204, Absent)
    /\ tasks' = [tasks EXCEPT ![about[r]] = Absent]

Look(r) ==
    /\ calls[r].kind = "get" /\ Theirs(r)
    /\ Settle(r, 200, [f \in Fields |-> tasks[about[r]][f]])
    /\ UNCHANGED tasks

\* A PATCH reads the task and makes up its mind.
Read(r) ==
    /\ status[r] = "open" /\ calls[r].kind = "update" /\ known[r] = Absent
    /\ Theirs(r) /\ ValidTitle(Asked(r))
    /\ known' = [known EXCEPT ![r] = tasks[about[r]]]
    /\ shown' = [shown EXCEPT ![r] = With(tasks[about[r]], Asked(r))]
    /\ UNCHANGED <<tasks, ids, calls, about, status, result>>

\* It may look again, without thinking again.
Reread(r) ==
    /\ status[r] = "open" /\ known[r] # Absent /\ tasks[about[r]] # Absent
    /\ known' = [known EXCEPT ![r] = tasks[about[r]]]
    /\ UNCHANGED <<tasks, ids, calls, about, status, result, shown>>

\* What it wants to differ from what it last read.
Wanted(r) == {f \in Fields : shown[r][f] # known[r][f]}

\* It writes that and nothing else, or finds nothing to do.
Edit(r) ==
    /\ known[r] # Absent
    /\ Succeed(r, 200, shown[r])
    /\ LET t == about[r] IN
        \/ Wanted(r) = {} /\ UNCHANGED tasks
        \/ /\ Theirs(r)
           /\ OnlyChanges(t)
           /\ tasks'[t] # Absent
           /\ tasks'[t].owner = tasks[t].owner
           /\ tasks'[t].created_at = tasks[t].created_at
           /\ \A f \in Fields :
                 tasks'[t][f] = IF f \in Wanted(r) THEN shown[r][f] ELSE tasks[t][f]

\* The call is refused, or fails, and changes nothing.
Refuse(r) ==
    /\ \/ calls[r].kind # "create" /\ ~Theirs(r) /\ Settle(r, 404, Absent)
       \/ /\ calls[r].kind = "create" \/ (calls[r].kind = "update" /\ Theirs(r))
          /\ ~ValidTitle(Asked(r))
          /\ Settle(r, 400, Absent)
       \/ Settle(r, 500, Absent)
    /\ UNCHANGED tasks

\* Ending a call that changes nothing may fail too; its answer is then lost.
Blur(r) ==
    /\ status[r] = "settled"
    /\ calls[r].kind = "get" \/ result[r] \in {400, 404}
    /\ result' = [result EXCEPT ![r] = 500]
    /\ shown' = [shown EXCEPT ![r] = Absent]
    /\ UNCHANGED <<tasks, ids, calls, about, status, known>>

Reply(r) ==
    /\ status[r] = "settled"
    /\ status' = [status EXCEPT ![r] = "replied"]
    /\ UNCHANGED <<tasks, ids, calls, about, result, known, shown>>

\* The process serving the call dies: it never gets a reply.
Lose(r) ==
    /\ status[r] \in {"open", "settled"}
    /\ status' = [status EXCEPT ![r] = "lost"]
    /\ result' = [result EXCEPT ![r] = 0]
    /\ known' = [known EXCEPT ![r] = Absent]
    /\ shown' = [shown EXCEPT ![r] = Absent]
    /\ UNCHANGED <<tasks, ids, calls, about>>

BookNext ==
    \E r \in Requests :
        \/ Arrive(r) \/ Create(r) \/ Delete(r) \/ Look(r)
        \/ Read(r) \/ Reread(r) \/ Edit(r)
        \/ Refuse(r) \/ Blur(r) \/ Reply(r) \/ Lose(r)

Book == BookInit /\ [][BookNext]_bookVars
=============================================================================
