---------------------------- MODULE MCTaskEdits -----------------------------
(***************************************************************************)
(* Three requests about a task that "ann" has and one that is to be        *)
(* created; "bob" tries his hand on ann's task.                            *)
(***************************************************************************)
EXTENDS TaskEdits, Sequences, TLC

CONSTANTS r1, r2, r3

MCRequests == {r1, r2, r3}
MCUsers == {"ann", "bob"}
MCTasks == {"old", "new"}
MCTitles == {"A", "B"}
MCDescriptions == {"text"}
MCStatuses == {"pending", "done"}
MCExisting ==
    [t \in MCTasks |->
        IF t = "old" THEN [owner |-> "ann", title |-> "A", description |-> "text",
                           status |-> "pending", created_at |-> 0, updated_at |-> 0]
                     ELSE Absent]

Ask(k, u, t, p) == [kind |-> k, user |-> u, task |-> t, payload |-> p]
None == [f \in {} |-> Null]
CallList ==
    <<Ask("create", "ann", "new", "title" :> "A" @@ "description" :> ""),
      Ask("create", "bob", "new", "title" :> ""),
      Ask("get", "ann", "old", None),
      Ask("update", "ann", "old", "title" :> "B"),
      Ask("update", "ann", "old", "title" :> Null @@ "status" :> "done"),
      Ask("update", "ann", "old", "description" :> Null),
      Ask("update", "ann", "old", "title" :> ""),
      Ask("update", "bob", "old", "title" :> "B"),
      Ask("update", "ann", "new", "title" :> "B" @@ "description" :> ""),
      Ask("delete", "ann", "old", None),
      Ask("delete", "bob", "old", None),
      Ask("get", "bob", "old", None)>>
Asking(i, j, k) == (r1 :> CallList[i]) @@ (r2 :> CallList[j]) @@ (r3 :> CallList[k])

\* Two of the calls that change ann's task meet each other and a POST or a
\* GET, a PATCH and a DELETE a call that is refused, or three of them meet.
MCWorkloads ==
    {Asking(x[1], x[2], x[3]) :
        x \in {y \in {4, 5, 6, 10} \X {4, 5, 6, 10} \X {1, 3} : y[1] < y[2]}
             \cup {4, 5, 6} \X {10} \X {2, 7, 8, 11, 12}
             \cup {<<4, 5, 6>>, <<4, 5, 10>>, <<4, 10, 10>>, <<1, 3, 9>>, <<1, 4, 9>>}}

\* For liveness: those that have requests wait for the lock of one row.
MCContended ==
    {Asking(x[1], x[2], x[3]) :
        x \in {y \in {4, 5, 10} \X {5, 10} \X {1, 3, 10} : y[1] <= y[2]}}
=============================================================================
