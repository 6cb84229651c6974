------------------------------ MODULE TaskTable ------------------------------
(***************************************************************************)
(* The tasks table as one who reads it may rely on it: ids are given out   *)
(* once, a new task is pending, and an edit leaves owner and created_at as *)
(* they were.  TaskListing takes its writers from here, and TaskEdits is   *)
(* shown to keep to it (property WritesAsListed).                          *)
(***************************************************************************)
CONSTANTS
    Tasks,          \* task ids
    Row,            \* the rows, records with owner, status, created_at, ...
    Pending,        \* the status of a new task
    Existing,       \* rows at the start: [Tasks -> Row \cup {Absent}]
    Absent

VARIABLES
    rows,       \* the committed tasks table
    used,       \* ids given out
    open        \* those of POSTs that are neither committed nor undone

table == <<rows, used, open>>

TableInit ==
    /\ rows = Existing
    /\ used = {t \in Tasks : Existing[t] # Absent}
    /\ open = {}

\* A POST gets an id that no task has or had.
Post(t) ==
    /\ t \notin used
    /\ used' = used \cup {t}
    /\ open' = open \cup {t}
    /\ UNCHANGED rows

\* It commits, perhaps after a POST that began later.
CommitPost(t, row) ==
    /\ t \in open
    /\ row \in Row /\ row.status = Pending
    /\ rows' = [rows EXCEPT ![t] = row]
    /\ open' = open \ {t}
    /\ UNCHANGED used

AbortPost(t) ==
    /\ t \in open
    /\ open' = open \ {t}
    /\ UNCHANGED <<rows, used>>

\* A PATCH commits.
Patch(t, row) ==
    /\ rows[t] # Absent
    /\ row \in Row
    /\ row.owner = rows[t].owner /\ row.created_at = rows[t].created_at
    /\ rows' = [rows EXCEPT ![t] = row]
    /\ UNCHANGED <<used, open>>

Delete(t) ==
    /\ rows[t] # Absent
    /\ rows' = [rows EXCEPT ![t] = Absent]
    /\ UNCHANGED <<used, open>>

Write(t) ==
    \/ Post(t) \/ AbortPost(t) \/ Delete(t)
    \/ CommitPost(t, rows'[t]) \/ Patch(t, rows'[t])

Table == TableInit /\ [][\E t \in Tasks : Write(t)]_table
=============================================================================
