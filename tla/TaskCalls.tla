----------------------------- MODULE TaskCalls ------------------------------
(***************************************************************************)
(* What clients may ask of POST, GET, PATCH and DELETE on single tasks,    *)
(* the rows of the tasks table, and what the endpoints make of a body.     *)
(* Shared by the detailed specification (TaskEdits) and the abstract one   *)
(* (TaskBook).                                                             *)
(***************************************************************************)
EXTENDS Naturals

CONSTANTS
    Requests,
    Users,
    Tasks,          \* task ids
    Titles,         \* texts as strip() leaves them: titles that validate_title
    Descriptions,   \* accepts, descriptions that are not empty
    Blank,          \* a text of which strip() leaves nothing
    Null,           \* JSON null, None
    Statuses,
    Pending,        \* the status of a new task
    Absent,         \* the value of a row that does not exist
    Workloads,      \* the calls the clients may make: what each request asks
    Existing        \* [Tasks -> rows]: the table when the run begins

Row == [owner : Users, title : Titles, description : Descriptions \cup {Null},
        status : Statuses, created_at : Nat, updated_at : Nat]

Fields == {"title", "description", "status"}

\* What a field of a body may hold after the schema has seen it.
ValuesOf(f) ==
    CASE f = "title" -> Titles \cup {Blank, Null}
      [] f = "description" -> Descriptions \cup {Blank, Null}
      [] f = "status" -> Statuses \cup {Null}

\* Bodies of POST and PATCH: the fields present, with their values.
Payloads ==
    {p \in UNION {[F -> UNION {ValuesOf(f) : f \in Fields}] : F \in SUBSET Fields} :
        \A f \in DOMAIN p : p[f] \in ValuesOf(f)}

\* A POST has a title.
Calls ==
    {c \in [kind : {"create", "get", "update", "delete"},
            user : Users, task : Tasks, payload : Payloads] :
        c.kind = "create" => "title" \in DOMAIN c.payload /\ c.payload.title # Null}

ASSUME TaskAssumption ==
    /\ Blank \notin Titles
    /\ Pending \in Statuses
    /\ Absent \notin Row
    /\ Workloads \subseteq [Requests -> Calls]
    /\ Existing \in [Tasks -> Row \cup {Absent}]

\* Mutant of BuildChanges: null is taken for a value everywhere.
BuildChangesAll(payload) == payload

\* _build_changes: null clears a description and is ignored elsewhere.
BuildChanges(payload) ==
    [f \in {g \in DOMAIN payload : g = "description" \/ payload[g] # Null} |-> payload[f]]

\* validate_title.
ValidTitle(changes) == "title" \in DOMAIN changes => changes.title # Blank

\* validate_description: a blank description is none.
Cleaned(changes) ==
    [f \in DOMAIN changes |->
        IF f = "description" /\ changes[f] = Blank THEN Null ELSE changes[f]]
=============================================================================
