--------------------------- MODULE TaskEdits_proofs -------------------------
(***************************************************************************)
(* Proofs about TaskEdits for every set of requests, users and tasks and   *)
(* every workload.  The inductive invariant IInv says of each task what    *)
(* its row may hold, and of each request what it may rely on about the     *)
(* task it is about while others change it.                                *)
(***************************************************************************)
EXTENDS TaskEdits, TLAPS

\* No POST will give this task its row, not now and not later.
Settled(t) ==
    /\ t \in used
    /\ \A r \in Requests : Unborn(r) => target[r] # t

Gone(t) == Settled(t) /\ rows[t] = Absent

\* v was in field f of task t from the start, or its owner u asked for it in
\* a request that took effect.
Said(t, u, f, v) ==
    \/ Existing[t] # Absent /\ v = Existing[t][f]
    \/ \E r \in applied : /\ target[r] = t /\ call[r].user = u
                          /\ AskedFor(r, f, v)

RowOK(t) ==
    /\ Existing[t] # Absent => Settled(t)
    /\ rows[t] # Absent =>
        /\ Settled(t)
        /\ \A f \in Fields : Said(t, rows[t].owner, f, rows[t][f])
        /\ Existing[t] # Absent => rows[t].owner = Existing[t].owner
    /\ Existing[t] # Absent /\ rows[t] = Absent =>
        \E r \in applied : /\ target[r] = t /\ call[r].kind = "delete"
                           /\ call[r].user = Existing[t].owner

\* What a PATCH may rely on: its copies are rows, the task's owner is its
\* user while there is a row, and what it may write has been asked for.
EditOK(r) ==
    /\ loaded[r] \in Row /\ task[r] \in Row
    /\ Settled(target[r])
    /\ rows[target[r]] # Absent => rows[target[r]].owner = call[r].user
    /\ \A f \in Fields : Said(target[r], call[r].user, f, task[r][f])
                         \/ AskedFor(r, f, task[r][f])

\* A POST's row before its COMMIT.
BirthOK(r) ==
    /\ task[r] \in Row /\ task[r].owner = call[r].user
    /\ \A f \in Fields : AskedFor(r, f, task[r][f])

\* While nobody interferes the copy is the row with the changes made.
AloneOK(r) ==
    /\ call[r].kind = "update" /\ loaded[r] \in Row
    /\ rows[target[r]] = loaded[r]
    /\ \A f \in Fields :
          task[r][f] = IF f \in DOMAIN Changes(r) THEN Changes(r)[f] ELSE loaded[r][f]

RequestOK(r) ==
    /\ phase[r] = "idle" => verdict[r] = 0 /\ r \notin applied /\ ~alone[r]
    /\ phase[r] \in {"loaded", "saving"} => call[r].kind = "update"
    /\ call[r].kind = "create" /\ phase[r] # "idle" => target[r] \in used
    /\ Unborn(r) /\ phase[r] = "written" => BirthOK(r)
    /\ Editing(r) => EditOK(r)
    /\ Locks(r) => rows[target[r]] # Absent /\ rows[target[r]].owner = call[r].user
    /\ alone[r] => AloneOK(r)
    /\ verdict[r] = 204 => Gone(target[r])
    /\ /\ verdict[r] = 404 /\ Existing[target[r]] # Absent
       /\ Existing[target[r]].owner = call[r].user
       => Gone(target[r])

CreatorsApart ==
    \A r, s \in Requests :
        /\ call[r].kind = "create" /\ phase[r] # "idle"
        /\ call[s].kind = "create" /\ phase[s] # "idle"
        /\ target[r] = target[s]
        => r = s

LocksApart ==
    \A r, s \in Requests : Locks(r) /\ Locks(s) /\ target[r] = target[s] => r = s

DeletedOnce ==
    \A r, s \in Requests :
        verdict[r] = 204 /\ verdict[s] = 204 /\ target[r] = target[s] => r = s

IInv ==
    /\ TypeOK
    /\ \A t \in Tasks : RowOK(t)
    /\ \A r \in Requests : RequestOK(r)
    /\ CreatorsApart
    /\ LocksApart
    /\ DeletedOnce
-----------------------------------------------------------------------------
\* What the call of a request may be.
LEMMA CallType ==
  ASSUME TypeOK, NEW r \in Requests
  PROVE  /\ call[r].user \in Users
         /\ call[r].kind \in {"create", "get", "update", "delete"}
         /\ call[r].payload \in Payloads
         /\ call[r].kind = "create" =>
              "title" \in DOMAIN call[r].payload /\ call[r].payload.title # Null
  <1>1. call[r] \in Calls
    BY TaskAssumption DEF TypeOK
  <1> QED BY <1>1 DEF Calls

\* What changes a payload may ask for.
LEMMA ChangesType ==
  ASSUME NEW p \in Payloads
  PROVE  LET c == Cleaned(BuildChanges(p)) IN
         /\ DOMAIN c = {f \in DOMAIN p : f = "description" \/ p[f] # Null}
         /\ DOMAIN c \subseteq Fields
         /\ "title" \in DOMAIN c /\ ValidTitle(c) => c.title \in Titles
         /\ "description" \in DOMAIN c => c.description \in Descriptions \cup {Null}
         /\ "status" \in DOMAIN c => c.status \in Statuses
  <1>1. PICK F \in SUBSET Fields : p \in [F -> UNION {ValuesOf(f) : f \in Fields}]
    BY DEF Payloads
  <1>2. DOMAIN p \subseteq Fields /\ \A f \in DOMAIN p : p[f] \in ValuesOf(f)
    BY <1>1 DEF Payloads
  <1> DEFINE c == Cleaned(BuildChanges(p))
  <1>3. /\ DOMAIN c = {f \in DOMAIN p : f = "description" \/ p[f] # Null}
        /\ \A f \in DOMAIN c : c[f] = IF f = "description" /\ p[f] = Blank THEN Null ELSE p[f]
    BY DEF Cleaned, BuildChanges
  <1>4. DOMAIN c \subseteq Fields
    BY <1>2, <1>3
  <1>5. "title" \in DOMAIN c /\ ValidTitle(c) => c.title \in Titles
    BY <1>2, <1>3 DEF ValidTitle, ValuesOf
  <1>6. "description" \in DOMAIN c => c.description \in Descriptions \cup {Null}
    BY <1>2, <1>3 DEF ValuesOf
  <1>7. "status" \in DOMAIN c => c.status \in Statuses
    BY <1>2, <1>3 DEF ValuesOf
  <1> QED BY <1>3, <1>4, <1>5, <1>6, <1>7

\* A PATCH makes a row of a row, with its changes and the same owner.
LEMMA EditedType ==
  ASSUME TypeOK, NEW r \in Requests, NEW row \in Row, ValidTitle(Changes(r))
  PROVE  LET new == Edited(row, Changes(r), clock) IN
         /\ new \in Row /\ new.owner = row.owner
         /\ \A f \in Fields :
               new[f] = IF f \in DOMAIN Changes(r) THEN Changes(r)[f] ELSE row[f]
  <1> DEFINE c == Changes(r)
  <1>1. /\ DOMAIN c \subseteq Fields
        /\ "title" \in DOMAIN c => c.title \in Titles
        /\ "description" \in DOMAIN c => c.description \in Descriptions \cup {Null}
        /\ "status" \in DOMAIN c => c.status \in Statuses
    BY CallType, ChangesType DEF Changes
  <1>2. DOMAIN row = {"owner", "title", "description", "status",
                      "created_at", "updated_at"}
    BY DEF Row
  <1>3. clock \in Nat
    BY DEF TypeOK
  <1> HIDE DEF c
  <1>4. Edited(row, c, clock) \in Row
    BY <1>1, <1>2, <1>3 DEF Edited, Row, Fields
  <1>5. Edited(row, c, clock).owner = row.owner
    BY <1>1, <1>2 DEF Edited, Fields
  <1>6. \A f \in Fields :
           Edited(row, c, clock)[f] = IF f \in DOMAIN c THEN c[f] ELSE row[f]
    BY <1>2 DEF Edited, Fields
  <1> QED BY <1>4, <1>5, <1>6 DEF c

\* A POST with a title makes a row of its user.
LEMMA NewTaskType ==
  ASSUME TypeOK, NEW r \in Requests, call[r].kind = "create", ValidTitle(Changes(r))
  PROVE  NewTask(r) \in Row /\ NewTask(r).owner = call[r].user
  <1> DEFINE c == Changes(r)
  <1>1. /\ "title" \in DOMAIN c /\ c.title \in Titles
        /\ "description" \in DOMAIN c => c.description \in Descriptions \cup {Null}
    BY CallType, ChangesType DEF Changes
  <1>2. call[r].user \in Users /\ clock \in Nat /\ Pending \in Statuses
    BY CallType, TaskAssumption DEF TypeOK
  <1> QED BY <1>1, <1>2 DEF NewTask, Row

\* What a request asks for does not change, whatever the time.
LEMMA AskedForKept ==
  ASSUME call' = call, NEW r \in Requests, NEW f \in Fields, NEW v
  PROVE  AskedFor(r, f, v)' <=> AskedFor(r, f, v)
  BY DEF AskedFor, NewTask, Changes, Fields

\* What was said stays said.
LEMMA SaidKept ==
  ASSUME TypeOK, call' = call, applied \subseteq applied',
         \A r \in applied : target'[r] = target[r],
         NEW t, NEW u, NEW f \in Fields, NEW v, Said(t, u, f, v)
  PROVE  Said(t, u, f, v)'
  <1>1. CASE Existing[t] # Absent /\ v = Existing[t][f]
    BY <1>1 DEF Said
  <1>2. CASE ~(Existing[t] # Absent /\ v = Existing[t][f])
    <2>1. PICK r \in applied : target[r] = t /\ call[r].user = u /\ AskedFor(r, f, v)
      BY <1>2 DEF Said
    <2>2. AskedFor(r, f, v)'
      BY <2>1, AskedForKept DEF TypeOK
    <2> QED BY <2>1, <2>2 DEF Said
  <1> QED BY <1>1, <1>2

\* A task that has or had its row, or has lost its POST, gets no other.
LEMMA SettledKept ==
  ASSUME TypeOK, used \subseteq used',
         \A s \in Requests :
            Unborn(s)' => (Unborn(s) /\ target'[s] = target[s]) \/ target'[s] \notin used,
         NEW t, Settled(t)
  PROVE  Settled(t)'
  BY DEF Settled

\* The invariant holds of every table the run may begin with.
LEMMA InitInv == Init => IInv
  <1> SUFFICES ASSUME Init PROVE IInv
    OBVIOUS
  <1>1. TypeOK
    <2>1. call \in [Requests -> Calls]
      BY TaskAssumption DEF Init
    <2>2. \A r \in Requests : call[r].task \in Tasks
      BY <2>1 DEF Calls
    <2> QED BY <2>2, TaskAssumption DEF Init, TypeOK, Phases
  <1>2. \A r \in Requests : RequestOK(r)
    <2> TAKE r \in Requests
    <2>1. phase[r] = "idle" /\ verdict[r] = 0 /\ r \notin applied /\ alone[r] = FALSE
      BY DEF Init
    <2>2. ~Unborn(r) /\ ~Editing(r) /\ ~Locks(r)
      BY <2>1 DEF Unborn, Editing, Locks
    <2> QED BY <2>1, <2>2 DEF RequestOK
  <1>3. \A t \in Tasks : RowOK(t)
    <2> TAKE t \in Tasks
    <2>1. Existing[t] # Absent => Settled(t)
      BY DEF Init, Settled, Unborn
    <2>2. rows[t] = Existing[t]
      BY DEF Init
    <2> QED BY <2>1, <2>2 DEF RowOK, Said
  <1>4. CreatorsApart /\ LocksApart /\ DeletedOnce
    BY DEF Init, CreatorsApart, LocksApart, DeletedOnce, Locks
  <1> QED BY <1>1, <1>2, <1>3, <1>4 DEF IInv

\* It survives the steps in which nothing happens.
LEMMA StutterInv == IInv /\ UNCHANGED vars => IInv'
  <1> SUFFICES ASSUME IInv, UNCHANGED vars PROVE IInv'
    OBVIOUS
  <1>1. TypeOK'
    BY DEF IInv, TypeOK, vars, history
  <1>2. \A t \in Tasks : RowOK(t)'
    BY DEF IInv, vars, history, RowOK, Settled, Unborn, Said, AskedFor, NewTask, Changes
  <1>3. \A r \in Requests : RequestOK(r)'
    BY DEF IInv, vars, history, RequestOK, BirthOK, EditOK, AloneOK, Gone, Settled,
           Unborn, Editing, Locks, Dirty, Said, AskedFor, NewTask, Changes
  <1>4. CreatorsApart' /\ LocksApart' /\ DeletedOnce'
    BY DEF IInv, vars, history, CreatorsApart, LocksApart, DeletedOnce, Locks, Dirty
  <1> QED BY <1>1, <1>2, <1>3, <1>4 DEF IInv
-----------------------------------------------------------------------------
\* A step of r alone that has an id already, and begins no POST.
StepOf(r) ==
    /\ phase[r] # "idle" /\ phase'[r] # "idle"
    /\ Unborn(r)' => Unborn(r)
    /\ \A s \in Requests \ {r} :
          /\ phase'[s] = phase[s] /\ verdict'[s] = verdict[s]
          /\ loaded'[s] = loaded[s] /\ task'[s] = task[s]
    /\ UNCHANGED <<used, call, target>>
    /\ applied \subseteq applied' /\ applied' \subseteq applied \cup {r}

\* What such a step leaves as it was.
LEMMA StepKeeps ==
  ASSUME IInv, NEW r \in Requests, StepOf(r)
  PROVE  /\ \A s \in Requests : Unborn(s)' => Unborn(s)
         /\ \A t : Settled(t) => Settled(t)'
         /\ \A t, u, v : \A f \in Fields : Said(t, u, f, v) => Said(t, u, f, v)'
         /\ \A s \in Requests : \A f \in Fields : \A v :
               AskedFor(s, f, v)' <=> AskedFor(s, f, v)
         /\ \A s \in Requests \ {r} :
               /\ Unborn(s)' <=> Unborn(s)
               /\ Editing(s)' <=> Editing(s)
               /\ Locks(s)' <=> Locks(s)
         /\ CreatorsApart'
  <1>1. \A s \in Requests : Unborn(s)' => Unborn(s)
    BY DEF StepOf, Unborn
  <1>2. \A t : Settled(t) => Settled(t)'
    BY <1>1 DEF StepOf, Settled
  <1>3. \A t, u, v : \A f \in Fields : Said(t, u, f, v) => Said(t, u, f, v)'
    BY SaidKept DEF StepOf, IInv, TypeOK
  <1>4. \A s \in Requests : \A f \in Fields : \A v :
           AskedFor(s, f, v)' <=> AskedFor(s, f, v)
    BY AskedForKept DEF StepOf
  <1>5. \A s \in Requests \ {r} :
           /\ Unborn(s)' <=> Unborn(s)
           /\ Editing(s)' <=> Editing(s)
           /\ Locks(s)' <=> Locks(s)
    BY DEF StepOf, Unborn, Editing, Locks, Dirty
  <1>6. CreatorsApart'
    BY DEF IInv, CreatorsApart, StepOf
  <1> QED BY <1>1, <1>2, <1>3, <1>4, <1>5, <1>6

\* A step of r that leaves the table alone and keeps what r relies on.
LEMMA QuietInv ==
  ASSUME IInv, TypeOK', NEW r \in Requests, StepOf(r), UNCHANGED <<rows, applied>>,
         \A s \in Requests \ {r} : alone'[s] = alone[s],
         RequestOK(r)',
         Locks(r)' => Locks(r) \/ Unlocked(r),
         verdict'[r] = 204 => verdict[r] = 204
  PROVE  IInv'
  <1>1. \A t \in Tasks : RowOK(t)'
    <2> TAKE t \in Tasks
    <2>1. RowOK(t)
      BY DEF IInv
    <2>2. call' = call /\ target' = target
      BY DEF StepOf
    <2> QED BY <2>1, <2>2, StepKeeps DEF RowOK
  <1>2. ASSUME NEW s \in Requests \ {r} PROVE RequestOK(s)'
    <2>1. RequestOK(s)
      BY DEF IInv
    <2>2. /\ phase'[s] = phase[s] /\ verdict'[s] = verdict[s] /\ alone'[s] = alone[s]
          /\ loaded'[s] = loaded[s] /\ task'[s] = task[s]
          /\ call' = call /\ target' = target /\ used' = used
      BY DEF StepOf
    <2>3. EditOK(s) => EditOK(s)'
      BY <2>2, StepKeeps DEF EditOK
    <2>4. BirthOK(s) => BirthOK(s)'
      BY <2>2, StepKeeps DEF BirthOK
    <2>5. AloneOK(s) => AloneOK(s)'
      BY <2>2 DEF AloneOK, Changes
    <2>6. \A t : Gone(t) => Gone(t)'
      BY StepKeeps DEF Gone
    <2> QED BY <2>1, <2>2, <2>3, <2>4, <2>5, <2>6, StepKeeps DEF RequestOK
  <1>3. LocksApart'
    BY StepKeeps DEF IInv, LocksApart, StepOf, Unlocked
  <1>4. DeletedOnce'
    BY DEF IInv, DeletedOnce, StepOf
  <1> QED BY <1>1, <1>2, <1>3, <1>4, StepKeeps DEF IInv
-----------------------------------------------------------------------------
\* A call arrives; a POST's id is one that no row has or had.
LEMMA ArriveInv == ASSUME IInv, NEW r \in Requests, Arrive(r) PROVE IInv'
  <1>1. /\ TypeOK
        /\ phase[r] = "idle" /\ r \notin applied /\ ~alone[r] /\ ~Unborn(r) /\ RequestOK(r)
    BY DEF Arrive, IInv, RequestOK, Unborn
  <1>2. /\ phase'[r] = "called" /\ verdict'[r] = 0
        /\ \A s \in Requests \ {r} : phase'[s] = phase[s] /\ verdict'[s] = verdict[s]
                                    /\ target'[s] = target[s]
        /\ UNCHANGED <<rows, clock, call, loaded, task, alone, applied>>
    BY <1>1 DEF Arrive, GoesTo, TypeOK, history
  <1>3. /\ used \subseteq used' /\ target'[r] \in Tasks
        /\ call[r].kind = "create" => target'[r] \in used' \ used
        /\ call[r].kind # "create" => target'[r] = target[r]
    BY <1>1 DEF Arrive, TypeOK
  <1>4. TypeOK'
    BY <1>1 DEF Arrive, GoesTo, TypeOK, Phases, history
  <1>5. \A s \in Requests :
           Unborn(s)' => (Unborn(s) /\ target'[s] = target[s]) \/ target'[s] \notin used
    BY <1>2, <1>3 DEF Unborn
  <1>6. \A t : Settled(t) => Settled(t)'
    BY <1>1, <1>3, <1>5, SettledKept
  <1>7. \A t, u, v : \A f \in Fields : Said(t, u, f, v) => Said(t, u, f, v)'
    BY <1>1, <1>2, SaidKept DEF TypeOK
  <1>8. \A s \in Requests : \A f \in Fields : \A v :
           AskedFor(s, f, v)' <=> AskedFor(s, f, v)
    BY <1>2, AskedForKept
  <1>9. \A t \in Tasks : RowOK(t)'
    <2> TAKE t \in Tasks
    <2>1. RowOK(t)
      BY DEF IInv
    <2>2. (\E s \in applied : /\ target[s] = t /\ call[s].kind = "delete"
                              /\ call[s].user = Existing[t].owner)
          => (\E s \in applied' : /\ target'[s] = t /\ call'[s].kind = "delete"
                                   /\ call'[s].user = Existing[t].owner)
      BY <1>1, <1>2 DEF TypeOK
    <2> QED BY <1>2, <1>6, <1>7, <2>1, <2>2 DEF RowOK
  <1>10. ASSUME NEW s \in Requests \ {r} PROVE RequestOK(s)'
    <2>1. RequestOK(s)
      BY DEF IInv
    <2>2. /\ EditOK(s) => EditOK(s)'
          /\ BirthOK(s) => BirthOK(s)'
      BY <1>2, <1>6, <1>7, <1>8 DEF EditOK, BirthOK
    <2>3. AloneOK(s) => AloneOK(s)'
      BY <1>2 DEF AloneOK, Changes
    <2>4. /\ Unborn(s)' <=> Unborn(s)
          /\ Editing(s)' <=> Editing(s)
          /\ Locks(s)' <=> Locks(s)
      BY <1>2 DEF Unborn, Editing, Locks, Dirty
    <2>5. \A t : Gone(t) => Gone(t)'
      BY <1>2, <1>6 DEF Gone
    <2> QED BY <1>2, <1>3, <2>1, <2>2, <2>3, <2>4, <2>5 DEF RequestOK
  <1>11. RequestOK(r)'
    <2>1. ~Editing(r)' /\ ~Locks(r)' /\ ~alone'[r]
      BY <1>1, <1>2 DEF Editing, Locks
    <2> QED BY <1>2, <1>3, <2>1 DEF RequestOK
  <1>12. CreatorsApart'
    BY <1>2, <1>3 DEF IInv, CreatorsApart, RequestOK
  <1>13. LocksApart' /\ DeletedOnce'
    BY <1>2 DEF IInv, LocksApart, DeletedOnce, Locks, Dirty
  <1> QED BY <1>4, <1>9, <1>10, <1>11, <1>12, <1>13 DEF IInv

\* An answer of 404 before the request's end tells its owner the truth.
LEMMA NotOwnedGone ==
  ASSUME IInv, NEW r \in Requests, ~Owned(r), Existing[target[r]] # Absent,
         Existing[target[r]].owner = call[r].user
  PROVE  Gone(target[r])
  <1>1. RowOK(target[r])
    BY DEF IInv, TypeOK
  <1> QED BY <1>1 DEF RowOK, Owned, Gone

\* A request that ends, for any reason but its COMMIT.
LEMMA EndInv ==
  ASSUME IInv, TypeOK', NEW r \in Requests, StepOf(r), UNCHANGED <<rows, applied>>,
         \A s \in Requests \ {r} : alone'[s] = alone[s],
         alone'[r] => UNCHANGED <<alone, loaded, task>>,
         phase'[r] \in {"unwinding", "closed", "done", "lost"},
         verdict'[r] = 404 => ~Owned(r) \/ Gone(target[r]) \/ verdict[r] = 404,
         verdict'[r] = 204 => verdict[r] = 204
  PROVE  IInv'
  <1>1. ~Unborn(r)' /\ ~Editing(r)' /\ ~Locks(r)'
    BY DEF Unborn, Editing, Locks
  <1>2. RequestOK(r)'
    <2>1. RequestOK(r)
      BY DEF IInv
    <2>2. /\ phase[r] # "idle" /\ phase'[r] # "idle"
          /\ call' = call /\ target' = target /\ used' = used
      BY DEF StepOf
    <2>3. alone'[r] => AloneOK(r)'
      BY <2>1, <2>2 DEF RequestOK, AloneOK, Changes
    <2>4. Gone(target[r]) => Gone(target[r])'
      BY <2>2, StepKeeps DEF Gone
    <2> QED BY <1>1, <2>1, <2>2, <2>3, <2>4, NotOwnedGone DEF RequestOK
  <1> QED BY <1>1, <1>2, QuietInv

\* The handling of r goes on, that of the others stays where it is.
LEMMA GoesToOnly ==
  ASSUME TypeOK, NEW r \in Requests, NEW p, NEW code, GoesTo(r, p, code)
  PROVE  /\ phase'[r] = p /\ verdict'[r] = code
         /\ \A s \in Requests \ {r} : phase'[s] = phase[s] /\ verdict'[s] = verdict[s]
  BY DEF TypeOK, GoesTo

\* The session of r is closed, its entity dropped or kept for the response;
\* those of the others are left alone.
LEMMA CloseSessionOnly ==
  ASSUME TypeOK, NEW r \in Requests, CloseSession(r), ShowsNothing(r) \/ UNCHANGED task
  PROVE  \A s \in Requests \ {r} : loaded'[s] = loaded[s] /\ task'[s] = task[s]
  BY DEF TypeOK, CloseSession, ShowsNothing

\* It ends by an exception,
LEMMA StatementRaisesInv ==
  ASSUME IInv, NEW r \in Requests, StatementRaises(r) PROVE IInv'
  <1>1. TypeOK'
    BY DEF IInv, StatementRaises, GoesTo, TypeOK, Phases, history
  <1>2. /\ phase[r] # "idle" /\ phase'[r] = "unwinding" /\ verdict'[r] = 500
        /\ \A s \in Requests \ {r} : phase'[s] = phase[s] /\ verdict'[s] = verdict[s]
        /\ UNCHANGED <<rows, used, call, target, alone, applied, loaded, task>>
    BY GoesToOnly DEF IInv, StatementRaises, history
  <1>3. ~Unborn(r)'
    BY <1>2 DEF Unborn
  <1>4. StepOf(r)
    BY <1>2, <1>3 DEF StepOf
  <1> QED BY <1>1, <1>2, <1>4, EndInv

\* is rolled back,
LEMMA RollbackInv ==
  ASSUME IInv, NEW r \in Requests, Rollback(r) PROVE IInv'
  <1>1. TypeOK /\ TypeOK'
    BY DEF IInv, Rollback, GoesTo, CloseSession, ShowsNothing, Undone, TypeOK, Phases
  <1>2. PICK code \in {verdict[r], 500} : GoesTo(r, "closed", code)
    BY DEF Rollback
  <1>3. /\ phase[r] # "idle" /\ phase'[r] = "closed" /\ verdict'[r] \in {verdict[r], 500}
        /\ \A s \in Requests \ {r} : phase'[s] = phase[s] /\ verdict'[s] = verdict[s]
        /\ UNCHANGED <<rows, used, call, target, applied>>
    BY <1>1, <1>2, GoesToOnly DEF Rollback, Undone
  <1>4. /\ ~alone'[r] /\ \A s \in Requests \ {r} : alone'[s] = alone[s]
        /\ \A s \in Requests \ {r} : loaded'[s] = loaded[s] /\ task'[s] = task[s]
    BY <1>1, CloseSessionOnly DEF Rollback, Undone, TypeOK
  <1>5. ~Unborn(r)'
    BY <1>3 DEF Unborn
  <1>6. StepOf(r)
    BY <1>3, <1>4, <1>5 DEF StepOf
  <1> QED BY <1>1, <1>3, <1>4, <1>6, EndInv

\* is answered,
LEMMA RespondInv ==
  ASSUME IInv, NEW r \in Requests, Respond(r) PROVE IInv'
  <1>1. TypeOK'
    BY DEF IInv, Respond, GoesTo, TypeOK, Phases, history
  <1>2. /\ phase[r] # "idle" /\ phase'[r] = "done" /\ verdict'[r] = verdict[r]
        /\ \A s \in Requests \ {r} : phase'[s] = phase[s] /\ verdict'[s] = verdict[s]
        /\ UNCHANGED <<rows, used, call, target, alone, applied, loaded, task>>
    BY GoesToOnly DEF IInv, Respond, history
  <1>3. ~Unborn(r)'
    BY <1>2 DEF Unborn
  <1>4. StepOf(r)
    BY <1>2, <1>3 DEF StepOf
  <1> QED BY <1>1, <1>2, <1>4, EndInv

\* or is lost with its worker.
LEMMA LoseInv ==
  ASSUME IInv, NEW r \in Requests, Lose(r) PROVE IInv'
  <1>1. TypeOK /\ TypeOK'
    BY DEF IInv, Lose, GoesTo, CloseSession, ShowsNothing, Undone, TypeOK, Phases
  <1>2. /\ phase[r] # "idle" /\ phase'[r] = "lost" /\ verdict'[r] = 0
        /\ \A s \in Requests \ {r} : phase'[s] = phase[s] /\ verdict'[s] = verdict[s]
        /\ UNCHANGED <<rows, used, call, target, applied>>
    BY <1>1, GoesToOnly DEF Lose, Undone
  <1>3. /\ ~alone'[r] /\ \A s \in Requests \ {r} : alone'[s] = alone[s]
        /\ \A s \in Requests \ {r} : loaded'[s] = loaded[s] /\ task'[s] = task[s]
    BY <1>1, CloseSessionOnly DEF Lose, Undone, TypeOK
  <1>4. ~Unborn(r)'
    BY <1>2 DEF Unborn
  <1>5. StepOf(r)
    BY <1>2, <1>3, <1>4 DEF StepOf
  <1> QED BY <1>1, <1>2, <1>3, <1>5, EndInv
-----------------------------------------------------------------------------
\* A POST makes a row of its user that holds what it asks for, or is refused.
LEMMA CreateInv ==
  ASSUME IInv, NEW r \in Requests, Create(r) PROVE IInv'
  <1>1. /\ TypeOK /\ RequestOK(r) /\ phase[r] = "called" /\ call[r].kind = "create"
        /\ UNCHANGED <<rows, used, call, target, loaded, alone, applied>>
    BY DEF IInv, Create, history
  <1>2. CASE ~ValidTitle(Changes(r))
    <2>1. /\ phase'[r] = "unwinding" /\ verdict'[r] = 400 /\ task' = task /\ clock' = clock
          /\ \A s \in Requests \ {r} : phase'[s] = phase[s] /\ verdict'[s] = verdict[s]
      BY <1>1, <1>2, GoesToOnly DEF Create
    <2>2. TypeOK'
      BY <1>1, <1>2 DEF Create, GoesTo, TypeOK, Phases
    <2>3. ~Unborn(r)'
      BY <2>1 DEF Unborn
    <2>4. StepOf(r)
      BY <1>1, <2>1, <2>3 DEF StepOf
    <2> QED BY <1>1, <2>1, <2>2, <2>4, EndInv
  <1>3. CASE ValidTitle(Changes(r))
    <2>1. /\ phase'[r] = "written" /\ verdict'[r] = 0
          /\ \A s \in Requests \ {r} : phase'[s] = phase[s] /\ verdict'[s] = verdict[s]
      BY <1>1, <1>3, GoesToOnly DEF Create
    <2>2. /\ task'[r] = NewTask(r) /\ clock' = clock + 1
          /\ \A s \in Requests \ {r} : task'[s] = task[s]
      BY <1>1, <1>3 DEF Create, TypeOK
    <2>3. NewTask(r) \in Row /\ NewTask(r).owner = call[r].user
      BY <1>1, <1>3, NewTaskType
    <2>4. TypeOK'
      BY <1>1, <1>3, <2>3 DEF Create, GoesTo, TypeOK, Phases
    <2>5. StepOf(r)
      BY <1>1, <2>1, <2>2 DEF StepOf, Unborn
    <2>6. BirthOK(r)'
      <3>1. \A f \in Fields : AskedFor(r, f, NewTask(r)[f])
        BY <1>1 DEF AskedFor
      <3>2. \A f \in Fields : \A v : AskedFor(r, f, v) => AskedFor(r, f, v)'
        BY <2>5, StepKeeps
      <3> QED BY <1>1, <2>2, <2>3, <3>1, <3>2 DEF BirthOK
    <2>7. ~Editing(r)' /\ ~Locks(r)'
      BY <1>1 DEF Editing, Locks
    <2>8. alone'[r] = FALSE
      BY <1>1 DEF RequestOK, AloneOK, TypeOK
    <2>9. RequestOK(r)'
      BY <1>1, <2>1, <2>6, <2>7, <2>8 DEF RequestOK
    <2> QED BY <1>1, <2>1, <2>4, <2>5, <2>7, <2>9, QuietInv
  <1> QED BY <1>2, <1>3

\* A statement that finds no row of the user, or a title that is not valid.
LEMMA RefusedInv ==
  ASSUME IInv, NEW r \in Requests, phase[r] = "called", NEW code \in {400, 404},
         GoesTo(r, "unwinding", code), code = 404 => ~Owned(r),
         UNCHANGED <<rows, used, clock, call, target, loaded, task, alone, applied>>
  PROVE  IInv'
  <1>1. TypeOK /\ TypeOK'
    BY DEF IInv, GoesTo, TypeOK, Phases
  <1>2. /\ phase'[r] = "unwinding" /\ verdict'[r] = code
        /\ \A s \in Requests \ {r} : phase'[s] = phase[s] /\ verdict'[s] = verdict[s]
    BY <1>1, GoesToOnly
  <1>3. ~Unborn(r)'
    BY <1>2 DEF Unborn
  <1>4. StepOf(r)
    BY <1>2, <1>3 DEF StepOf
  <1> QED BY <1>1, <1>2, <1>4, EndInv

\* A GET or DELETE that finds its row, a DELETE's lock being free.
LEMMA FoundInv ==
  ASSUME IInv, NEW r \in Requests, phase[r] = "called",
         call[r].kind \in {"get", "delete"}, GoesTo(r, "written", 0), Owned(r),
         call[r].kind = "delete" => Unlocked(r),
         UNCHANGED <<rows, used, clock, call, target, loaded, alone, applied>>,
         NEW row \in Row \cup {Absent}, task' = [task EXCEPT ![r] = row]
  PROVE  IInv'
  <1>1. TypeOK /\ TypeOK' /\ RequestOK(r)
    BY DEF IInv, GoesTo, TypeOK, Phases
  <1>2. /\ phase'[r] = "written" /\ verdict'[r] = 0
        /\ \A s \in Requests \ {r} : phase'[s] = phase[s] /\ verdict'[s] = verdict[s]
    BY <1>1, GoesToOnly
  <1>3. ~Unborn(r)' /\ ~Editing(r)'
    BY DEF Unborn, Editing
  <1>4. Locks(r)' => Unlocked(r)
    BY DEF Locks
  <1>5. StepOf(r)
    BY <1>1, <1>2, <1>3 DEF StepOf, TypeOK
  <1>6. alone'[r] = FALSE
    BY <1>1 DEF RequestOK, AloneOK, TypeOK
  <1>7. RequestOK(r)'
    BY <1>1, <1>2, <1>3, <1>6 DEF RequestOK, Owned
  <1> QED BY <1>1, <1>2, <1>4, <1>5, <1>7, QuietInv

\* A GET finds its row or is told 404,
LEMMA GetInv == ASSUME IInv, NEW r \in Requests, Get(r) PROVE IInv'
  <1>1. CASE Owned(r)
    <2>1. rows[target[r]] \in Row \cup {Absent}
      BY DEF IInv, TypeOK
    <2> QED BY <1>1, <2>1, FoundInv DEF Get, history
  <1>2. CASE ~Owned(r)
    BY <1>2, RefusedInv DEF Get, history
  <1> QED BY <1>1, <1>2

\* and so does a DELETE.
LEMMA DeleteInv == ASSUME IInv, NEW r \in Requests, Delete(r) PROVE IInv'
  <1>1. CASE Owned(r)
    <2>1. task[r] \in Row \cup {Absent} /\ task' = [task EXCEPT ![r] = task[r]]
      BY DEF IInv, TypeOK, Delete
    <2> QED BY <1>1, <2>1, FoundInv DEF Delete, history
  <1>2. CASE ~Owned(r)
    BY <1>2, RefusedInv DEF Delete, history
  <1> QED BY <1>1, <1>2

\* A PATCH that goes on does nothing to the other requests.
LEMMA EditingStep ==
  ASSUME IInv, NEW r \in Requests, phase[r] # "idle", call[r].kind = "update",
         NEW p \in Phases \ {"idle"}, NEW code, GoesTo(r, p, code),
         UNCHANGED <<rows, used, call, target, applied>>,
         \A s \in Requests \ {r} : loaded'[s] = loaded[s] /\ task'[s] = task[s]
  PROVE  StepOf(r)
  <1>1. /\ phase'[r] = p
        /\ \A s \in Requests \ {r} : phase'[s] = phase[s] /\ verdict'[s] = verdict[s]
    BY GoesToOnly DEF IInv
  <1>2. ~Unborn(r)'
    BY DEF Unborn
  <1> QED BY <1>1, <1>2 DEF StepOf

\* It keeps the invariant if it still may rely on its copies of the row, and
\* if its UPDATE waits for the lock.
LEMMA EditingInv ==
  ASSUME IInv, TypeOK', NEW r \in Requests, phase[r] # "idle", call[r].kind = "update",
         NEW p \in {"loaded", "saving", "written"}, GoesTo(r, p, 0),
         UNCHANGED <<rows, used, call, target, applied>>,
         \A s \in Requests \ {r} :
            loaded'[s] = loaded[s] /\ task'[s] = task[s] /\ alone'[s] = alone[s],
         EditOK(r)', alone'[r] => AloneOK(r)',
         Locks(r)' => Unlocked(r) /\ rows[target[r]] # Absent
  PROVE  IInv'
  <1>1. TypeOK /\ RequestOK(r)
    BY DEF IInv
  <1>2. phase'[r] = p /\ verdict'[r] = 0
    BY <1>1, GoesToOnly
  <1>3. ~Unborn(r)'
    BY DEF Unborn
  <1>4. StepOf(r)
    BY EditingStep DEF Phases
  <1>5. RequestOK(r)'
    BY <1>1, <1>2, <1>3 DEF RequestOK, EditOK
  <1> QED BY <1>2, <1>4, <1>5, QuietInv

\* The copy a PATCH makes of the row is its owner's, with the changes made.
LEMMA LoadInv == ASSUME IInv, NEW r \in Requests, Load(r) PROVE IInv'
  <1>1. /\ TypeOK /\ RowOK(target[r]) /\ phase[r] = "called" /\ call[r].kind = "update"
        /\ UNCHANGED <<rows, used, call, target, applied>>
    BY DEF IInv, Load, TypeOK
  <1>2. CASE ~Owned(r)
    BY <1>2, RefusedInv DEF Load, history
  <1>3. CASE Owned(r) /\ ~ValidTitle(Changes(r))
    BY <1>3, RefusedInv DEF Load, history
  <1>4. CASE Owned(r) /\ ValidTitle(Changes(r))
    <2> DEFINE row == rows[target[r]]
               new == Edited(row, Changes(r), clock)
    <2>1. /\ GoesTo(r, "loaded", 0) /\ clock' = clock + 1
          /\ loaded' = [loaded EXCEPT ![r] = row] /\ task' = [task EXCEPT ![r] = new]
          /\ alone' = [alone EXCEPT ![r] = TRUE]
      BY <1>4 DEF Load
    <2>2. row \in Row /\ row.owner = call[r].user
      BY <1>1, <1>4 DEF Owned, TypeOK
    <2>3. /\ new \in Row
          /\ \A f \in Fields : new[f] = IF f \in DOMAIN Changes(r) THEN Changes(r)[f]
                                                               ELSE row[f]
      BY <1>1, <1>4, <2>2, EditedType
    <2> HIDE DEF new
    <2>4. /\ loaded'[r] = row /\ task'[r] = new
          /\ \A s \in Requests \ {r} :
                loaded'[s] = loaded[s] /\ task'[s] = task[s] /\ alone'[s] = alone[s]
      BY <1>1, <2>1 DEF TypeOK
    <2>5. TypeOK'
      BY <1>1, <2>1, <2>2, <2>3 DEF GoesTo, TypeOK, Phases
    <2>6. StepOf(r)
      BY <1>1, <2>1, <2>4, EditingStep DEF Phases
    <2>7. EditOK(r)'
      <3>1. Settled(target[r])'
        BY <1>1, <1>4, <2>6, StepKeeps DEF RowOK, Owned
      <3>2. ASSUME NEW f \in Fields, f \in DOMAIN Changes(r)
            PROVE  AskedFor(r, f, task[r][f])'
        <4>1. AskedFor(r, f, new[f])
          BY <1>1, <2>3, <3>2 DEF AskedFor
        <4>2. \A v : AskedFor(r, f, v) => AskedFor(r, f, v)'
          BY <2>6, StepKeeps
        <4> QED BY <2>4, <4>1, <4>2
      <3>3. ASSUME NEW f \in Fields, f \notin DOMAIN Changes(r)
            PROVE  Said(target[r], call[r].user, f, task[r][f])'
        <4>1. Said(target[r], call[r].user, f, new[f])
          BY <1>1, <1>4, <2>2, <2>3, <3>3 DEF RowOK, Owned
        <4>2. \A t, u, v : Said(t, u, f, v) => Said(t, u, f, v)'
          BY <2>6, StepKeeps
        <4> QED BY <1>1, <2>4, <4>1, <4>2
      <3> QED BY <1>1, <2>2, <2>3, <2>4, <3>1, <3>2, <3>3 DEF EditOK
    <2>8. AloneOK(r)'
      BY <1>1, <2>2, <2>3, <2>4 DEF AloneOK, Changes
    <2>9. ~Locks(r)'
      BY <1>1, <2>1 DEF Locks, GoesTo, TypeOK
    <2> QED BY <1>1, <2>1, <2>4, <2>5, <2>7, <2>8, <2>9, EditingInv
  <1> QED BY <1>2, <1>3, <1>4

\* What a PATCH may rely on does not depend on updated_at, nor on which row
\* the session has loaded last.
LEMMA EditKept ==
  ASSUME IInv, NEW r \in Requests, StepOf(r), UNCHANGED rows, EditOK(r),
         loaded'[r] \in Row, task'[r] \in Row,
         \A f \in Fields : task'[r][f] = task[r][f]
  PROVE  EditOK(r)'
  <1>1. call' = call /\ target' = target
    BY DEF StepOf
  <1>2. \A f \in Fields : \/ Said(target[r], call[r].user, f, task[r][f])'
                         \/ AskedFor(r, f, task[r][f])'
    <2> TAKE f \in Fields
    <2>1. \A t, u, v : Said(t, u, f, v) => Said(t, u, f, v)'
      BY StepKeeps
    <2>2. \A v : AskedFor(r, f, v) => AskedFor(r, f, v)'
      BY StepKeeps
    <2>3. \A v : Said(target[r], call[r].user, f, v) \/ AskedFor(r, f, v) =>
                 Said(target[r], call[r].user, f, v)' \/ AskedFor(r, f, v)'
      BY <1>1, <2>1, <2>2
    <2>4. task'[r][f] = task[r][f]
      OBVIOUS
    <2> QED BY <2>3, <2>4 DEF EditOK
  <1> QED BY <1>1, <1>2, StepKeeps DEF EditOK

\* The session finds the row again, or reads it once more.
LEMMA ReloadInv == ASSUME IInv, NEW r \in Requests, Reload(r) PROVE IInv'
  <1>1. /\ TypeOK /\ RequestOK(r) /\ phase[r] = "loaded"
        /\ UNCHANGED <<rows, used, clock, call, target, task, alone, applied>>
    BY DEF IInv, Reload, history
  <1>2. call[r].kind = "update" /\ EditOK(r)
    BY <1>1 DEF RequestOK, Editing
  <1>3. CASE rows[target[r]] = Absent /\ GoesTo(r, "unwinding", 404) /\ UNCHANGED loaded
    <2>1. TypeOK'
      BY <1>1, <1>3 DEF GoesTo, TypeOK, Phases
    <2>2. StepOf(r)
      BY <1>1, <1>2, <1>3, EditingStep DEF Phases
    <2>3. Gone(target[r])
      BY <1>2, <1>3 DEF EditOK, Gone
    <2>4. phase'[r] = "unwinding" /\ verdict'[r] = 404
      BY <1>1, <1>3, GoesToOnly
    <2> QED BY <1>1, <1>3, <2>1, <2>2, <2>3, <2>4, EndInv
  <1>4. ASSUME GoesTo(r, "saving", 0),
               \/ UNCHANGED loaded
               \/ /\ rows[target[r]] # Absent
                  /\ loaded' = [loaded EXCEPT ![r] = rows[target[r]]]
        PROVE  IInv'
    <2>1. /\ loaded'[r] = loaded[r] \/ loaded'[r] = rows[target[r]]
          /\ loaded'[r] \in Row
          /\ \A s \in Requests \ {r} : loaded'[s] = loaded[s]
      BY <1>1, <1>2, <1>4 DEF TypeOK, EditOK
    <2>2. TypeOK'
      BY <1>1, <1>4 DEF GoesTo, TypeOK, Phases
    <2>3. StepOf(r)
      BY <1>1, <1>2, <1>4, <2>1, EditingStep DEF Phases
    <2>4. EditOK(r)'
      BY <1>1, <1>2, <2>1, <2>3, EditKept DEF EditOK
    <2>5. alone'[r] => AloneOK(r)'
      BY <1>1, <2>1 DEF RequestOK, AloneOK, Changes
    <2>6. ~Locks(r)'
      BY <1>1, <1>4 DEF Locks, GoesTo, TypeOK
    <2> QED BY <1>1, <1>2, <1>4, <2>1, <2>2, <2>4, <2>5, <2>6, EditingInv
  <1> QED BY <1>3, <1>4 DEF Reload

\* The UPDATE is sent once no one else has the lock.
LEMMA FlushInv == ASSUME IInv, NEW r \in Requests, Flush(r) PROVE IInv'
  <1>1. /\ TypeOK /\ RequestOK(r) /\ phase[r] = "saving"
        /\ UNCHANGED <<rows, used, call, target, loaded, alone, applied>>
    BY DEF IInv, Flush, history
  <1>2. call[r].kind = "update" /\ EditOK(r)
    BY <1>1 DEF RequestOK, Editing
  <1>3. CASE Dirty(r) # {} /\ rows[target[r]] = Absent
    <2>1. GoesTo(r, "unwinding", 500) /\ UNCHANGED <<clock, task>>
      BY <1>3 DEF Flush
    <2>2. TypeOK'
      BY <1>1, <2>1 DEF GoesTo, TypeOK, Phases
    <2>3. StepOf(r)
      BY <1>1, <1>2, <2>1, EditingStep DEF Phases
    <2>4. phase'[r] = "unwinding" /\ verdict'[r] = 500
      BY <1>1, <2>1, GoesToOnly
    <2> QED BY <1>1, <2>1, <2>2, <2>3, <2>4, EndInv
  <1>4. CASE Dirty(r) = {}
    <2>1. GoesTo(r, "written", 0) /\ UNCHANGED <<clock, task>>
      BY <1>4 DEF Flush
    <2>2. TypeOK'
      BY <1>1, <2>1 DEF GoesTo, TypeOK, Phases
    <2>3. StepOf(r)
      BY <1>1, <1>2, <2>1, EditingStep DEF Phases
    <2>4. EditOK(r)'
      BY <1>1, <1>2, <2>1, <2>3, EditKept DEF EditOK
    <2>5. alone'[r] => AloneOK(r)'
      BY <1>1, <2>1 DEF RequestOK, AloneOK, Changes
    <2>6. ~Locks(r)'
      BY <1>1, <1>2, <1>4, <2>1 DEF Locks, Dirty
    <2> QED BY <1>1, <1>2, <2>1, <2>2, <2>4, <2>5, <2>6, EditingInv
  <1>5. CASE Dirty(r) # {} /\ rows[target[r]] # Absent
    <2>1. /\ Unlocked(r) /\ GoesTo(r, "written", 0)
          /\ \/ UNCHANGED <<clock, task>>
             \/ /\ task' = [task EXCEPT ![r].updated_at = clock]
                /\ clock' = clock + 1
      BY <1>5 DEF Flush
    <2>2. /\ task'[r] \in Row /\ \A f \in Fields : task'[r][f] = task[r][f]
          /\ \A s \in Requests \ {r} : task'[s] = task[s]
          /\ task' \in [Requests -> Row \cup {Absent}] /\ clock' \in Nat
      BY <1>1, <1>2, <2>1 DEF TypeOK, EditOK, Row, Fields
    <2>3. TypeOK'
      BY <1>1, <2>1, <2>2 DEF GoesTo, TypeOK, Phases
    <2>4. StepOf(r)
      BY <1>1, <1>2, <2>1, <2>2, EditingStep DEF Phases
    <2>5. EditOK(r)'
      BY <1>1, <1>2, <2>2, <2>4, EditKept DEF EditOK
    <2>6. alone'[r] => AloneOK(r)'
      BY <1>1, <2>2 DEF RequestOK, AloneOK, Changes
    <2> QED BY <1>1, <1>2, <1>5, <2>1, <2>2, <2>3, <2>5, <2>6, EditingInv
  <1> QED BY <1>3, <1>4, <1>5
-----------------------------------------------------------------------------
\* What the COMMIT of a request about task t may do to its row, and what
\* that request knows of the row it does it to.
CommitOK(r, t, new) ==
    \/ new = rows[t] /\ call[r].kind \in {"get", "update"}
    \/ /\ call[r].kind = "create" /\ Unborn(r) /\ t \in used
       /\ rows[t] = Absent /\ Existing[t] = Absent /\ BirthOK(r) /\ new = task[r]
    \/ /\ call[r].kind = "delete" /\ Locks(r) /\ new = Absent
       /\ rows[t] # Absent /\ rows[t].owner = call[r].user
    \/ /\ call[r].kind = "update" /\ Locks(r) /\ new \in Row
       /\ rows[t] # Absent /\ rows[t].owner = call[r].user /\ new.owner = call[r].user
       /\ EditOK(r) /\ \A f \in Fields : new[f] \in {rows[t][f], task[r][f]}

\* A COMMIT does one of these.
LEMMA OutcomeOK ==
  ASSUME IInv, NEW r \in Requests, phase[r] = "written"
  PROVE  CommitOK(r, target[r], Outcome(r)) /\ Outcome(r) \in Row \cup {Absent}
  <1> DEFINE t == target[r]
  <1>1. /\ TypeOK /\ RequestOK(r) /\ RowOK(t) /\ t \in Tasks /\ rows[t] \in Row \cup {Absent}
    BY DEF IInv, TypeOK
  <1>2. CASE call[r].kind = "get"
    BY <1>1, <1>2 DEF CommitOK, Outcome
  <1>3. CASE call[r].kind = "create"
    <2>1. Unborn(r) /\ t \in used /\ BirthOK(r)
      BY <1>1, <1>3 DEF Unborn, RequestOK
    <2>2. ~Settled(t)
      BY <2>1 DEF Settled
    <2>3. rows[t] = Absent /\ Existing[t] = Absent
      BY <1>1, <2>2 DEF RowOK
    <2>4. Outcome(r) = task[r] /\ task[r] \in Row
      BY <1>3, <2>1 DEF Outcome, BirthOK
    <2> QED BY <1>3, <2>1, <2>3, <2>4 DEF CommitOK
  <1>4. CASE call[r].kind = "delete"
    <2>1. Locks(r)
      BY <1>4 DEF Locks
    <2> QED BY <1>1, <1>4, <2>1 DEF CommitOK, Outcome, RequestOK
  <1>5. CASE call[r].kind = "update" /\ Dirty(r) = {}
    BY <1>1, <1>5 DEF CommitOK, Outcome
  <1>6. CASE call[r].kind = "update" /\ Dirty(r) # {}
    <2> DEFINE new == [f \in DOMAIN rows[t] |->
                          IF f \in Dirty(r) THEN task[r][f] ELSE rows[t][f]]
    <2>1. Locks(r) /\ Outcome(r) = new
      BY <1>6 DEF Locks, Outcome
    <2>2. EditOK(r)
      BY <1>1, <1>6 DEF RequestOK, Editing
    <2>3. rows[t] \in Row /\ rows[t].owner = call[r].user /\ task[r] \in Row
      BY <1>1, <2>1, <2>2 DEF RequestOK, EditOK
    <2>4. Dirty(r) \subseteq Columns
      BY DEF Dirty
    <2> HIDE DEF t
    <2>5. /\ new \in Row /\ new.owner = rows[t].owner
          /\ \A f \in Fields : new[f] \in {rows[t][f], task[r][f]}
      BY <2>3, <2>4 DEF Row, Columns, Fields
    <2>6. rows[t] # Absent
      BY <2>3, TaskAssumption
    <2> QED BY <1>6, <2>1, <2>2, <2>3, <2>5, <2>6 DEF CommitOK, t
  <1>7. call[r].kind \in {"create", "get", "update", "delete"}
    BY <1>1, CallType
  <1> QED BY <1>2, <1>3, <1>4, <1>5, <1>6, <1>7

\* The COMMIT takes effect: the lock, or the id given out for this POST alone,
\* keeps the row what r and the other requests took it for.
LEMMA AppliedInv ==
  ASSUME IInv, TypeOK', NEW r \in Requests, phase[r] = "written", StepOf(r), Applied(r),
         phase'[r] \in {"unwinding", "closed"}, verdict'[r] \in {Success(r), 500}
  PROVE  IInv'
  <1>0. PICK t, new : t = target[r] /\ new = Outcome(r)
    OBVIOUS
  <1>1. /\ TypeOK /\ CreatorsApart /\ LocksApart /\ DeletedOnce /\ t \in Tasks
        /\ CommitOK(r, t, new)
        /\ \A s \in Requests : RequestOK(s)
        /\ \A u \in Tasks : RowOK(u)
    BY <1>0, OutcomeOK DEF IInv, TypeOK
  <1>2. /\ rows'[t] = new /\ \A u \in Tasks \ {t} : rows'[u] = rows[u]
        /\ new = rows[t] => rows' = rows
        /\ r \in applied'
        /\ \A s \in Requests : alone'[s] =>
              alone[s] /\ s # r /\ (target[s] = t => rows' = rows)
    <2>1. rows' = [rows EXCEPT ![t] = new] /\ rows \in [Tasks -> Row \cup {Absent}]
      BY <1>0, <1>1 DEF Applied, TypeOK
    <2>2. \A s \in Requests : alone'[s] <=>
              alone[s] /\ s # r /\ (target[s] = t => rows' = rows)
      BY <1>0, Zenon DEF Applied
    <2>3. r \in applied'
      BY DEF Applied
    <2> QED BY <1>1, <2>1, <2>2, <2>3
  <1>3. /\ call' = call /\ target' = target /\ used' = used /\ applied \subseteq applied'
        /\ phase[r] # "idle"
        /\ \A s \in Requests \ {r} :
              /\ phase'[s] = phase[s] /\ verdict'[s] = verdict[s]
              /\ loaded'[s] = loaded[s] /\ task'[s] = task[s]
    BY DEF StepOf
  <1>4. ~Unborn(r)' /\ ~Editing(r)' /\ ~Locks(r)' /\ ~alone'[r]
    BY <1>2 DEF Unborn, Editing, Locks
  \* A task that is settled is not the one a POST commits.
  <1>5. /\ Unborn(r) => ~Settled(t)
        /\ \A u : Settled(u) => Settled(u)'
        /\ Unborn(r) /\ t \in used => Settled(t)'
    <2>1. Unborn(r) => ~Settled(t)
      BY <1>0 DEF Settled
    <2>2. ASSUME Unborn(r), t \in used PROVE Settled(t)'
      <3>1. \A s \in Requests : Unborn(s)' => target[s] # t
        BY <1>0, <1>1, <1>3, <1>4, <2>2, StepKeeps DEF CreatorsApart, Unborn
      <3> QED BY <1>3, <2>2, <3>1 DEF Settled
    <2> QED BY <2>1, <2>2, StepKeeps
  <1>6. ASSUME NEW u \in Tasks PROVE RowOK(u)'
    <2>1. /\ RowOK(u)
          /\ \A v, w : \A f \in Fields : Said(u, v, f, w) => Said(u, v, f, w)'
          /\ \A f \in Fields : \A v : AskedFor(r, f, v) <=> AskedFor(r, f, v)'
      BY <1>1, StepKeeps
    <2>2. CASE rows'[u] = rows[u]
      BY <1>3, <1>5, <2>1, <2>2 DEF RowOK
    <2>3. CASE u = t /\ call[r].kind = "create" /\ new # rows[t]
      <3>1. /\ Unborn(r) /\ t \in used /\ Existing[t] = Absent /\ BirthOK(r) /\ new = task[r]
        BY <1>1, <2>3 DEF CommitOK
      <3>2. \A f \in Fields : Said(t, new.owner, f, new[f])'
        <4> TAKE f \in Fields
        <4>1. AskedFor(r, f, new[f]) /\ new.owner = call[r].user
          BY <3>1 DEF BirthOK
        <4> QED BY <1>0, <1>2, <1>3, <2>1, <4>1 DEF Said
      <3> QED BY <1>2, <1>5, <2>3, <3>1, <3>2 DEF RowOK
    <2>4. CASE u = t /\ call[r].kind = "delete"
      BY <1>0, <1>1, <1>2, <1>3, <1>5, <2>1, <2>4 DEF CommitOK, RowOK
    <2>5. CASE u = t /\ call[r].kind = "update" /\ new # rows[t]
      <3>1. /\ rows[t] # Absent /\ rows[t].owner = call[r].user /\ new.owner = call[r].user
            /\ EditOK(r) /\ \A f \in Fields : new[f] \in {rows[t][f], task[r][f]}
            /\ new # Absent
        BY <1>1, <2>5, TaskAssumption DEF CommitOK
      <3>2. \A f \in Fields : Said(t, new.owner, f, new[f])'
        <4> TAKE f \in Fields
        <4>0. PICK o : o = call[r].user /\ o = new.owner
          BY <3>1
        <4>1. \A w : AskedFor(r, f, w) => Said(t, o, f, w)'
          BY <1>0, <1>2, <1>3, <2>1, <4>0 DEF Said
        <4>2. \A w : Said(t, o, f, w) => Said(t, o, f, w)'
          BY <2>1, <2>5
        <4>3. \/ AskedFor(r, f, new[f])
              \/ Said(t, o, f, new[f])
          BY <1>0, <2>1, <2>5, <3>1, <4>0 DEF EditOK, RowOK
        <4> QED BY <4>0, <4>1, <4>2, <4>3
      <3> QED BY <1>2, <1>5, <2>1, <2>5, <3>1, <3>2 DEF RowOK
    <2> QED BY <1>1, <1>2, <2>2, <2>3, <2>4, <2>5 DEF CommitOK
  \* What r's COMMIT may have done to the row another request is about.
  <1>7. \/ rows' = rows
        \/ Unborn(r) /\ rows[t] = Absent
        \/ Locks(r) /\ rows[t] # Absent /\ (new # Absent => new.owner = rows[t].owner)
    BY <1>1, <1>2 DEF CommitOK
  <1>8. ASSUME NEW s \in Requests \ {r} PROVE RequestOK(s)'
    <2>1. RequestOK(s)
      BY <1>1
    <2>2. BirthOK(s) => BirthOK(s)'
      BY <1>3, StepKeeps DEF BirthOK
    <2>3. EditOK(s) => EditOK(s)'
      <3>1. ASSUME EditOK(s), rows'[target[s]] # Absent
            PROVE  rows'[target[s]].owner = call[s].user
        <4>1. CASE target[s] # t
          <5>1. rows'[target[s]] = rows[target[s]]
            BY <1>1, <1>2, <4>1 DEF TypeOK
          <5> QED BY <3>1, <5>1 DEF EditOK
        <4>2. CASE target[s] = t
          BY <1>2, <1>5, <1>7, <3>1, <4>2 DEF EditOK
        <4> QED BY <4>1, <4>2
      <3>2. ASSUME EditOK(s), NEW f \in Fields
            PROVE  (Said(target[s], call[s].user, f, task[s][f])
                    \/ AskedFor(s, f, task[s][f]))'
        <4>1. PICK w, o, g : w = task[s][f] /\ o = call[s].user /\ g = target[s]
          OBVIOUS
        <4>2. Said(g, o, f, w) \/ AskedFor(s, f, w)
          BY <3>2, <4>1 DEF EditOK
        <4>3. Said(g, o, f, w)' \/ AskedFor(s, f, w)'
          BY <4>2, StepKeeps
        <4> QED BY <1>3, <4>1, <4>3
      <3> QED BY <1>3, <1>5, <3>1, <3>2 DEF EditOK
    <2>4. Locks(s) => rows'[target[s]] = rows[target[s]]
      <3>1. CASE target[s] # t
        BY <1>1, <1>2, <3>1 DEF TypeOK
      <3>2. ASSUME Locks(s), target[s] = t PROVE rows' = rows
        <4>1. ~Locks(r)
          BY <1>0, <1>1, <3>2 DEF LocksApart
        <4>2. rows[t] # Absent
          BY <2>1, <3>2 DEF RequestOK
        <4> QED BY <1>7, <4>1, <4>2
      <3> QED BY <3>1, <3>2
    <2>5. alone'[s] => AloneOK(s)'
      <3>1. ASSUME alone'[s] PROVE rows'[target[s]] = rows[target[s]]
        BY <1>1, <1>2, <3>1 DEF TypeOK
      <3> QED BY <1>2, <1>3, <2>1, <3>1 DEF RequestOK, AloneOK, Changes
    <2>6. \A u \in Tasks : Gone(u) => Gone(u)'
      <3> TAKE u \in Tasks
      <3>1. CASE u # t
        BY <1>2, <1>5, <3>1 DEF Gone
      <3>2. CASE u = t
        BY <1>5, <1>7, <3>2 DEF Gone
      <3> QED BY <3>1, <3>2
    <2>7. /\ Unborn(s)' <=> Unborn(s)
          /\ Editing(s)' <=> Editing(s)
          /\ Locks(s)' <=> Locks(s)
      BY StepKeeps
    <2>8. target[s] \in Tasks /\ (s \in applied' => s \in applied)
      BY <1>1 DEF TypeOK, Applied
    <2> QED BY <1>2, <1>3, <2>1, <2>2, <2>3, <2>4, <2>5, <2>6, <2>7, <2>8 DEF RequestOK
  <1>9. RequestOK(r)'
    <2>1. verdict'[r] = 204 => call[r].kind = "delete"
      BY DEF Success
    <2>2. call[r].kind = "delete" => Gone(t)'
      BY <1>1, <1>2, <1>5 DEF CommitOK, RowOK, Gone
    <2>3. verdict'[r] # 404
      BY DEF Success
    <2>4. RequestOK(r)
      BY <1>1
    <2> QED BY <1>0, <1>3, <1>4, <2>1, <2>2, <2>3, <2>4 DEF RequestOK
  <1>10. LocksApart'
    BY <1>1, <1>3, <1>4, StepKeeps DEF LocksApart
  <1>11. DeletedOnce'
    <2>1. verdict'[r] = 204 => rows[t] # Absent
      BY <1>1 DEF CommitOK, Success
    <2>2. \A s \in Requests : verdict[s] = 204 => rows[target[s]] = Absent
      BY <1>1 DEF RequestOK, Gone
    <2> QED BY <1>0, <1>1, <1>3, <2>1, <2>2 DEF DeletedOnce
  <1> QED BY <1>6, <1>8, <1>9, <1>10, <1>11, StepKeeps DEF IInv

\* A COMMIT that takes effect types the table.
LEMMA AppliedType ==
  ASSUME IInv, NEW r \in Requests, phase[r] = "written", Applied(r)
  PROVE  /\ rows' \in [Tasks -> Row \cup {Absent}] /\ applied' \subseteq Requests
         /\ alone' \in [Requests -> BOOLEAN]
  <1>1. TypeOK /\ Outcome(r) \in Row \cup {Absent}
    BY OutcomeOK DEF IInv
  <1>2. rows' \in [Tasks -> Row \cup {Absent}] /\ applied' \subseteq Requests
    BY <1>1 DEF Applied, TypeOK
  <1>3. alone' \in [Requests -> BOOLEAN]
    BY <1>1 DEF Applied, TypeOK
  <1> QED BY <1>2, <1>3

\* The COMMIT is acknowledged,
LEMMA CommitInv == ASSUME IInv, NEW r \in Requests, Commit(r) PROVE IInv'
  <1>1. /\ TypeOK /\ phase[r] = "written" /\ Applied(r) /\ GoesTo(r, "closed", Success(r))
        /\ CloseSession(r) /\ UNCHANGED <<used, clock, call, target, task>>
    BY DEF IInv, Commit
  <1>2. Success(r) \in {200, 201, 204}
    BY DEF Success
  <1>3. TypeOK'
    BY <1>1, <1>2, AppliedType DEF GoesTo, CloseSession, TypeOK, Phases
  <1>4. /\ phase'[r] = "closed" /\ verdict'[r] = Success(r)
        /\ \A s \in Requests \ {r} : phase'[s] = phase[s] /\ verdict'[s] = verdict[s]
    BY <1>1, GoesToOnly
  <1>5. \A s \in Requests \ {r} : loaded'[s] = loaded[s] /\ task'[s] = task[s]
    BY <1>1, CloseSessionOnly
  <1>6. ~Unborn(r)'
    BY <1>4 DEF Unborn
  <1>7. StepOf(r)
    BY <1>1, <1>4, <1>5, <1>6 DEF StepOf, Applied
  <1> QED BY <1>1, <1>3, <1>4, <1>7, AppliedInv

\* or it is not, and may have taken effect all the same.
LEMMA CommitRaisesInv == ASSUME IInv, NEW r \in Requests, CommitRaises(r) PROVE IInv'
  <1>1. /\ TypeOK /\ phase[r] = "written" /\ GoesTo(r, "unwinding", 500)
        /\ UNCHANGED <<used, clock, call, target, loaded, task>>
        /\ Applied(r) \/ UNCHANGED <<rows, history>>
    BY DEF IInv, CommitRaises
  <1>2. /\ phase'[r] = "unwinding" /\ verdict'[r] = 500
        /\ \A s \in Requests \ {r} : phase'[s] = phase[s] /\ verdict'[s] = verdict[s]
    BY <1>1, GoesToOnly
  <1>3. ~Unborn(r)'
    BY <1>2 DEF Unborn
  <1>4. CASE Applied(r)
    <2>1. TypeOK'
      BY <1>1, <1>4, AppliedType DEF GoesTo, TypeOK, Phases
    <2>2. StepOf(r)
      BY <1>1, <1>2, <1>3, <1>4 DEF StepOf, Applied
    <2> QED BY <1>1, <1>2, <1>4, <2>1, <2>2, AppliedInv
  <1>5. CASE UNCHANGED <<rows, alone, applied>>
    <2>1. TypeOK'
      BY <1>1, <1>5 DEF GoesTo, TypeOK, Phases
    <2>2. StepOf(r)
      BY <1>1, <1>2, <1>3, <1>5 DEF StepOf
    <2> QED BY <1>1, <1>2, <1>5, <2>1, <2>2, EndInv
  <1> QED BY <1>1, <1>4, <1>5 DEF history

\* Every step keeps the invariant.
LEMMA NextInv == IInv /\ [Next]_vars => IInv'
  <1> SUFFICES ASSUME IInv, [Next]_vars PROVE IInv'
    OBVIOUS
  <1>1. CASE UNCHANGED vars
    BY <1>1, StutterInv
  <1>2. ASSUME NEW r \in Requests,
               Arrive(r) \/ Progress(r) \/ CommitRaises(r) \/ StatementRaises(r) \/ Lose(r)
        PROVE  IInv'
    <2>1. CASE Arrive(r)
      BY <2>1, ArriveInv
    <2>2. CASE Progress(r)
      BY <2>2, CreateInv, GetInv, LoadInv, ReloadInv, FlushInv, DeleteInv, CommitInv,
         RollbackInv, RespondInv DEF Progress
    <2>3. CASE CommitRaises(r)
      BY <2>3, CommitRaisesInv
    <2>4. CASE StatementRaises(r)
      BY <2>4, StatementRaisesInv
    <2>5. CASE Lose(r)
      BY <2>5, LoseInv
    <2> QED BY <1>2, <2>1, <2>2, <2>3, <2>4, <2>5
  <1> QED BY <1>1, <1>2 DEF Next, Finished
-----------------------------------------------------------------------------
\* The invariant holds throughout.
LEMMA AlwaysIInv == Spec => []IInv
  BY InitInv, NextInv, PTL DEF Spec

\* Every variable of the edits keeps its type, whatever the calls: what the
\* use cases write into the tasks table are rows.
THEOREM TaskEditsTypeCorrect == Spec => []TypeOK
  <1>1. IInv => TypeOK
    BY DEF IInv
  <1> QED BY <1>1, AlwaysIInv, PTL

\* Nothing gets into the tasks table, and nothing out of it, but what the
\* task's owner asked for in a request that took effect (get_owned, delete,
\* the transaction of get_session).
THEOREM OnlyOwnersRequestsShow == Spec => []EveryChangeWasAsked
  <1>1. IInv => EveryChangeWasAsked
    BY DEF IInv, EveryChangeWasAsked, RowOK, Said
  <1> QED BY <1>1, AlwaysIInv, PTL

\* A task whose DELETE was answered 204 never comes back, and no second
\* DELETE of it is answered 204.
THEOREM DeletesAreFinal == Spec => []DeleteIsFinal
  <1>1. IInv => DeleteIsFinal
    BY DEF IInv, DeleteIsFinal, RequestOK, Gone, DeletedOnce
  <1> QED BY <1>1, AlwaysIInv, PTL

\* The 404 an owner is answered with is true at the time and stays true.
THEOREM NotFoundAnswersAreTrue == Spec => []NotFoundIsTrue
  <1>1. IInv => NotFoundIsTrue
    BY DEF IInv, NotFoundIsTrue, RequestOK, Gone
  <1> QED BY <1>1, AlwaysIInv, PTL

\* Only the COMMIT of a request makes it one that took effect.
LEMMA OnlyCommitApplies ==
  ASSUME Next, NEW r \in Requests, r \in applied' \ applied
  PROVE  phase[r] = "written" /\ Applied(r)
  <1>1. PICK s \in Requests : phase[s] = "written" /\ Applied(s)
    <2>1. ~Finished
      BY DEF Finished, vars, history
    <2>2. PICK s \in Requests :
             Arrive(s) \/ Progress(s) \/ CommitRaises(s) \/ StatementRaises(s) \/ Lose(s)
      BY <2>1 DEF Next
    <2>3. ~Arrive(s) /\ ~StatementRaises(s) /\ ~Lose(s)
      BY DEF Arrive, StatementRaises, Lose, Undone, history
    <2>4. CASE Progress(s)
      <3>1. ~Create(s) /\ ~Get(s) /\ ~Load(s) /\ ~Delete(s)
        BY DEF Create, Get, Load, Delete, history
      <3>2. ~Reload(s) /\ ~Flush(s) /\ ~Rollback(s) /\ ~Respond(s)
        BY DEF Reload, Flush, Rollback, Respond, Undone, history
      <3> QED BY <2>4, <3>1, <3>2 DEF Progress, Commit
    <2>5. CASE CommitRaises(s)
      BY <2>5 DEF CommitRaises, history
    <2> QED BY <2>2, <2>3, <2>4, <2>5
  <1>2. applied' = applied \cup {s}
    BY <1>1 DEF Applied
  <1> QED BY <1>1, <1>2

\* A PATCH whose task nobody else changes between its SELECT and its COMMIT
\* does to the row what its payload says and no more.
THEOREM QuietEditsAreExact == Spec => QuietEditIsExact
  <1> DEFINE Exact(r) == EditApplied(r) /\ alone[r] =>
         \A f \in Fields :
            rows'[target[r]][f] = IF f \in DOMAIN Changes(r) THEN Changes(r)[f]
                                  ELSE rows[target[r]][f]
  <1>1. ASSUME IInv, Next, NEW r \in Requests PROVE Exact(r)
    <2> SUFFICES ASSUME EditApplied(r), alone[r], NEW f \in Fields
                 PROVE  rows'[target[r]][f] = IF f \in DOMAIN Changes(r) THEN Changes(r)[f]
                                              ELSE rows[target[r]][f]
      OBVIOUS
    <2>1. phase[r] = "written" /\ Applied(r) /\ call[r].kind = "update"
      BY <1>1, OnlyCommitApplies DEF EditApplied
    <2>2. /\ rows[target[r]] = loaded[r] /\ loaded[r] \in Row
          /\ task[r][f] = IF f \in DOMAIN Changes(r) THEN Changes(r)[f] ELSE loaded[r][f]
      BY <1>1 DEF IInv, RequestOK, AloneOK
    <2>3. rows'[target[r]] = Outcome(r)
      BY <1>1, <2>1 DEF IInv, TypeOK, Applied
    <2>4. Outcome(r)[f] = task[r][f]
      <3>1. CASE Dirty(r) = {}
        <4>1. Outcome(r) = loaded[r]
          BY <2>1, <2>2, <3>1 DEF Outcome
        <4> QED BY <3>1, <4>1 DEF Dirty, Fields, Columns
      <3>2. CASE Dirty(r) # {}
        <4>1. Outcome(r) = [g \in DOMAIN loaded[r] |->
                               IF g \in Dirty(r) THEN task[r][g] ELSE loaded[r][g]]
          BY <2>1, <2>2, <3>2 DEF Outcome
        <4>2. f \in DOMAIN loaded[r] /\ f \in Columns
          BY <2>2 DEF Row, Fields, Columns
        <4>3. f \notin Dirty(r) => task[r][f] = loaded[r][f]
          BY <4>2 DEF Dirty
        <4> QED BY <4>1, <4>2, <4>3
      <3> QED BY <3>1, <3>2
    <2> QED BY <2>2, <2>3, <2>4
  <1>2. IInv /\ [Next]_vars => [\A r \in Requests : Exact(r)]_vars
    BY <1>1
  <1> QED BY <1>2, AlwaysIInv, PTL DEF Spec, QuietEditIsExact
=============================================================================
