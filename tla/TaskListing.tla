---------------------------- MODULE TaskListing -----------------------------
(***************************************************************************)
(* A client reads its list of tasks page by page, GET /tasks?offset&limit, *)
(* while other requests create tasks, delete them and change their status. *)
(* Each page is one transaction of two statements, a COUNT and the SELECT  *)
(* of the page, and at READ COMMITTED each of the two sees what is         *)
(* committed when it runs.  The requests that write change the table as    *)
(* module TaskTable says, which TaskEdits is shown to implement.           *)
(***************************************************************************)
EXTENDS Integers, FiniteSets

CONSTANTS
    Tasks,          \* task ids, integers: the order of the ids matters
    Row,            \* the rows, records with owner, status, created_at, ...
    Statuses,
    Pending,        \* the status of a new task
    Reader,         \* the owner whose list is read
    Existing,       \* rows at the start: [Tasks -> Row \cup {Absent}]
    Settings,       \* the page sizes an operator may configure
    Params,         \* what clients send as limit
    Omitted,        \* no limit, no status filter
    Absent

ASSUME ListingAssumption ==
    /\ IsFiniteSet(Tasks) /\ Tasks \subseteq Int
    /\ Absent \notin Row /\ \A row \in Row : row.created_at \in Int
    /\ Existing \in [Tasks -> Row \cup {Absent}]
    /\ Settings \subseteq [default_page_size : Int, max_page_size : Int]
    /\ Omitted \notin Int /\ Params \subseteq Int \cup {Omitted}

VARIABLES
    rows,       \* the committed tasks table
    used,       \* ids given out
    open,       \* those of POSTs that are neither committed nor undone
    settings,
    param,      \* limit and status filter of the walk
    filter,
    phase,      \* of the walk: "ask", "counted", "answered", then one of Over
    offset,
    total,      \* the COUNT of the current page
    seen,       \* tasks on the pages so far
    again,      \* history: tasks on more than one of them
    first,      \* history: the list when the walk began
    joined,     \* history: something came into the list since
    left,       \* history: something went out of it since
    quiet,      \* history: neither since the COUNT
    beyond      \* history: there were items beyond the page when it was read

history == <<again, first, joined, left, quiet, beyond>>
walk == <<settings, param, filter, phase, offset, total, seen>>
vars == <<rows, used, open, walk, history>>

Table == INSTANCE TaskTable

\* The last page was shown, a page was refused, the client gave up.
Over == {"done", "refused", "failed"}

TypeOK ==
    /\ rows \in [Tasks -> Row \cup {Absent}]
    /\ used \subseteq Tasks /\ open \subseteq Tasks
    /\ settings \in Settings /\ param \in Params /\ filter \in Statuses \cup {Omitted}
    /\ phase \in {"ask", "counted", "answered"} \cup Over
    /\ offset \in Nat /\ total \in Nat
    /\ seen \subseteq Tasks /\ again \subseteq Tasks /\ first \subseteq Tasks
    /\ joined \in BOOLEAN /\ left \in BOOLEAN /\ quiet \in BOOLEAN /\ beyond \in BOOLEAN

-----------------------------------------------------------------------------
\* WHERE owner_id = ... AND status = ...
Selected(row) ==
    /\ row # Absent
    /\ row.owner = Reader
    /\ filter = Omitted \/ row.status = filter

List == {t \in Tasks : Selected(rows[t])}

\* ORDER BY created_at DESC, id DESC.
Precedes(s, t) ==
    \/ rows[s].created_at > rows[t].created_at
    \/ rows[s].created_at = rows[t].created_at /\ s > t

Ahead(t) == {s \in List : Precedes(s, t)}

\* Its place in the list, from 0.
Rank(t) == Cardinality(Ahead(t))

\* get_page_params.
Limit == IF param = Omitted THEN settings.default_page_size ELSE param

BadParam == param # Omitted /\ (param < 1 \/ param > settings.max_page_size)

\* Mutant of BadLimit: the use case trusts its caller.
BadLimitTrusting == FALSE

\* ListTasksUseCase.execute: limit < MIN_PAGE_SIZE.
BadLimit == Limit < 1

\* Mutants of Page: the page is one short; it is one too long.
PageShort == {t \in List : Rank(t) >= offset /\ Rank(t) < offset + Limit - 1}
PageInclusive == {t \in List : Rank(t) >= offset /\ Rank(t) <= offset + Limit}

\* OFFSET ... LIMIT ...
Page == {t \in List : Rank(t) >= offset /\ Rank(t) < offset + Limit}

\* Mutant of HasMore: <= for <.
HasMoreInclusive == offset + Limit <= total

HasMore == offset + Limit < total

Init ==
    /\ Table!TableInit
    /\ settings \in Settings /\ param \in Params /\ filter \in Statuses \cup {Omitted}
    /\ phase = "ask" /\ offset = 0 /\ total = 0
    /\ seen = {} /\ again = {} /\ first = List
    /\ joined = FALSE /\ left = FALSE /\ quiet = TRUE /\ beyond = FALSE

-----------------------------------------------------------------------------
\* The request for the next page, up to its COUNT.
Count ==
    /\ phase = "ask"
    /\ IF BadParam \/ BadLimit
       THEN phase' = "refused" /\ UNCHANGED <<total, quiet>>
       ELSE phase' = "counted" /\ total' = Cardinality(List) /\ quiet' = TRUE
    /\ UNCHANGED <<rows, used, open, settings, param, filter, offset, seen,
                   again, first, joined, left, beyond>>

\* The SELECT of the page, and the response.
Select ==
    /\ phase = "counted"
    /\ phase' = "answered"
    /\ seen' = seen \cup Page
    /\ again' = again \cup (seen \cap Page)
    /\ beyond' = \E t \in List : Rank(t) >= offset + Limit
    /\ UNCHANGED <<rows, used, open, settings, param, filter, offset, total,
                   first, joined, left, quiet>>

\* The client asks for the next page as long as has_more says so.
Turn ==
    /\ phase = "answered"
    /\ IF HasMore THEN phase' = "ask" /\ offset' = offset + Limit
                  ELSE phase' = "done" /\ UNCHANGED offset
    /\ UNCHANGED <<rows, used, open, settings, param, filter, total, seen, history>>

\* A statement or the COMMIT of the page raises and the answer is 500: the
\* client asks for the same page again, or for nothing more.
PageFails ==
    /\ phase \in {"ask", "counted"}
    /\ phase = "ask" => ~BadParam /\ ~BadLimit
    /\ phase' \in {"ask", "failed"}
    /\ UNCHANGED <<rows, used, open, settings, param, filter, offset, total, seen, history>>

-----------------------------------------------------------------------------
\* What a change of the table means for the list being read.
Watched ==
    /\ UNCHANGED <<walk, again, first, beyond>>
    /\ joined' = (joined \/ ~(List' \subseteq List))
    /\ left' = (left \/ ~(List \subseteq List'))
    /\ quiet' = (quiet /\ (List' = List \/ phase # "counted"))

\* A POST stamps its task with the clock of its worker before it commits,
\* perhaps after a POST with a later stamp.
Post(t) == Table!Post(t) /\ UNCHANGED <<walk, history>>

\* Mutant of CommitPost: Task.create leaves the status to its caller.
CommitPostWithoutStatus(t) ==
    /\ t \in open
    /\ \E row \in Row : rows' = [rows EXCEPT ![t] = [row EXCEPT !.status = Omitted]]
    /\ open' = open \ {t}
    /\ UNCHANGED used
    /\ Watched

CommitPost(t) == (\E row \in Row : Table!CommitPost(t, row)) /\ Watched

AbortPost(t) == Table!AbortPost(t) /\ UNCHANGED <<walk, history>>

Patch(t) == (\E row \in Row \ {rows[t]} : Table!Patch(t, row)) /\ Watched

Delete(t) == Table!Delete(t) /\ Watched

\* The walk is over; what others do to the table is of no interest here.
Finished == phase \in Over /\ UNCHANGED vars

Reading == Count \/ Select \/ Turn

Writing == \E t \in Tasks : Post(t) \/ CommitPost(t) \/ AbortPost(t) \/ Patch(t) \/ Delete(t)

Next == Reading \/ PageFails \/ (phase \notin Over /\ Writing) \/ Finished

Spec == Init /\ [][Next]_vars /\ WF_vars(Reading)
-----------------------------------------------------------------------------
\* The list only grew or stayed: a walk that reaches its last page shows
\* every task that was there when it began, although the new ones push the
\* old ones to later pages and their order is not that of the commits.  Only
\* a commit between the last COUNT and its SELECT can make it stop short.
NothingMissed == phase = "done" /\ ~left /\ quiet => first \subseteq seen

\* The list only shrank or stayed: no task is shown twice.
NothingRepeated == ~joined => again = {}

\* If no commit changes the list between COUNT and SELECT, total and
\* has_more are about the page they come with.
QuietPageIsExact ==
    phase = "answered" /\ quiet => (HasMore <=> beyond)

\* However the page sizes are configured, a client that follows has_more
\* comes to an end if from some moment on no page of its fails and nothing
\* joins the list, whatever leaves it.  The code promises no more: each page
\* is one further, and others may create tasks as fast as pages are read.
WalkEnds ==
    <>[][~PageFails /\ List' \subseteq List]_vars => <>(phase \in Over)

\* The description of has_more in PageMeta: "Whether more items exist beyond
\* this page".
HasMoreIsTrue == phase = "answered" => (HasMore <=> beyond)
=============================================================================
