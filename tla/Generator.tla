----------------------------- MODULE Generator ------------------------------
(***************************************************************************)
(* scripts/generate_crud.py: one run after the other, each of which checks *)
(* the name, computes 14 new files and 4 patched ones, writes them one by  *)
(* one and formats them; any run may be cut short, and the developer may   *)
(* clean up and run it again.  The content of a file is abstracted to what *)
(* it defines, imports and calls by a name of the resource: that decides   *)
(* whether the application still starts with the resources it has.         *)
(***************************************************************************)
EXTENDS Naturals, Sequences

CONSTANTS
    Names,          \* resource names the developer tries
    Malformed,      \* those the pattern or the keyword list rejects
    Plural,         \* pluralize
    Id,             \* the name with "_id" after it
    Class,          \* pascal_case
    ModelClass,     \* the same with "Model" after it
    Reserved,       \* words Python takes neither as parameter nor as class
    RouterWords,    \* words router.py of the repository contains
    Shipped,        \* paths of the repository that a resource would need
    MaxFailures,    \* bound: runs that are cut short
    Absent, Torn, Project

-----------------------------------------------------------------------------
(* The templates: the new files each one imports; the parameter lists with *)
(* a name made of the resource's; the classes it uses although the entity, *)
(* imported or defined later, takes their name; what its functions use     *)
(* after they have named a variable after the resource.                    *)

Plain == [imports |-> {}, lists |-> {}, classes |-> {}, locals |-> {}]

Entity == [Plain EXCEPT !.classes = {"DomainError"} \cup Reserved]

Port(n) ==
    [Plain EXCEPT !.imports = {"entity"}, !.classes = {"Protocol"},
                  !.lists = {<<"self", n>>, <<"self", Id[n], "owner_id">>}]

CreateUseCase(n) ==
    [Plain EXCEPT !.imports = {"app_init", "entity", "port"}, !.lists = {<<"self", Plural[n]>>}]

GetUseCase(n) ==
    [CreateUseCase(n) EXCEPT !.lists = @ \cup {<<"self", Id[n], "owner_id">>}]

ListUseCase(n) == [CreateUseCase(n) EXCEPT !.classes = {"Page"}]

UpdateUseCase(n) ==
    [CreateUseCase(n) EXCEPT
        !.lists = @ \cup {<<"self", Id[n], "owner_id", "changes">>},
        !.classes = {"UnsetType"},
        !.locals = {"changes", "is_set", "validate_title", "validate_body"}]

DeleteUseCase(n) == [GetUseCase(n) EXCEPT !.imports = {"app_init", "port"}]

Repository(n) ==
    [Port(n) EXCEPT !.imports = {"entity", "model"}, !.locals = {"model"},
                    !.classes = {"CursorResult", "AsyncSession"}]

Endpoint(n) ==
    [Plain EXCEPT
        !.imports = {"schema", "entity", "create", "get", "list", "update", "delete"},
        !.lists = {<<"payload", Plural[n], "user">>, <<Plural[n], "user", "paging">>,
                   <<Id[n], Plural[n], "user">>, <<Id[n], "payload", Plural[n], "user">>},
        !.classes = {"CurrentUser", "PageParamsDep", "Page", "PageMeta"}]

UnitTest ==
    [Plain EXCEPT !.imports = {"entity", "create", "get", "list", "update", "delete"}]

Template(n) ==
    [entity |-> Entity, port |-> Port(n), app_init |-> Plain, create |-> CreateUseCase(n),
     get |-> GetUseCase(n), list |-> ListUseCase(n), update |-> UpdateUseCase(n),
     delete |-> DeleteUseCase(n), model |-> Plain, repository |-> Repository(n),
     schema |-> Plain, endpoint |-> Endpoint(n), unit_test |-> UnitTest,
     integration_test |-> Plain]

\* Rendered for n the file parses, and its names mean what the template says.
Sound(n, k) ==
    LET template == Template(n)[k] IN
    /\ \A list \in template.lists : \A i, j \in DOMAIN list :
         list[i] \notin Reserved /\ (list[i] = list[j] => i = j)
    /\ Class[n] \notin template.classes
    /\ n \notin template.locals

\* In the order of the templates.
NewFiles ==
    <<"entity", "port", "app_init", "create", "get", "list", "update", "delete",
      "model", "repository", "schema", "endpoint", "unit_test", "integration_test">>

\* In the order of `patched`.
PatchedFiles == <<"models_init", "mappers", "deps", "router">>

Kinds == {NewFiles[i] : i \in DOMAIN NewFiles}
Patchable == {PatchedFiles[i] : i \in DOMAIN PatchedFiles}

\* Mutant of WriteOrder: {**patched, **new_files}.
WriteOrderPatchedFirst == PatchedFiles \o NewFiles

WriteOrder == NewFiles \o PatchedFiles

\* What an import of k loads: the longest chain is endpoint, use case, port, entity.
Loaded(n, k) ==
    LET Step(K) == K \cup UNION {Template(n)[j].imports : j \in K} IN Step(Step(Step({k})))

\* The file of each patched file that a line added for n imports.
Anchors ==
    [models_init |-> {"model"}, mappers |-> {"entity", "model"},
     deps |-> {"repository"}, router |-> {"endpoint"}]

\* The files of n that a line added for n to a patched file loads.
LoadedBy == [f \in Patchable |-> [n \in Names |-> UNION {Loaded(n, k) : k \in Anchors[f]}]]

\* The files of n that are sound.
SoundFiles == [n \in Names |-> {k \in Kinds : Sound(n, k)}]

\* The tests' file is named after the plural, the others after the name.
Path(n, k) == <<k, IF k = "integration_test" THEN Plural[n] ELSE n>>

NewPaths(n) == {Path(n, k) : k \in Kinds}
Paths == UNION {NewPaths(n) : n \in Names}

\* A patched file: the resources it imports, how many blocks it has for each,
\* and whether it is whole or torn somewhere.  The order in it is formatting.
Content == [imports : SUBSET Names, blocks : [Names -> Nat], whole : BOOLEAN]

ASSUME GeneratorAssumption ==
    /\ Malformed \subseteq Names
    /\ \A f \in {Plural, Id, Class, ModelClass} : DOMAIN f = Names
    /\ Shipped \subseteq Paths
    /\ MaxFailures \in Nat
    /\ Absent # Torn /\ Absent # Project /\ Torn # Project
    /\ {Absent, Torn, Project} \cap Names = {}

VARIABLES
    files,      \* each path: Absent, Torn, Project or the name it was rendered for
    patched,    \* the four patched files
    phase,      \* of the run: "idle", "checked", "writing", "formatting"
    name,       \* its argument
    next,       \* the place in WriteOrder of the file it writes next
    plan,       \* the patched files as it computed them
    outcome,    \* of the last run
    failures,   \* runs cut short so far
    before      \* history: the tree when the run began

vars == <<files, patched, phase, name, next, plan, outcome, failures, before>>
tree == <<files, patched>>

TypeOK ==
    /\ files \in [Paths -> {Absent, Torn, Project} \cup Names]
    /\ patched \in [Patchable -> Content]
    /\ phase \in {"idle", "checked", "writing", "formatting"}
    /\ name \in Names
    /\ next \in 1 .. Len(WriteOrder) + 1
    /\ plan \in [Patchable -> Content]
    /\ outcome \in {"none", "refused", "failed", "done"}
    /\ failures \in 0..MaxFailures
    /\ before \in [Paths -> {Absent, Torn, Project} \cup Names] \X [Patchable -> Content]

NoBlocks == [n \in Names |-> 0]
Untouched == [imports |-> {}, blocks |-> NoBlocks, whole |-> TRUE]

Init ==
    /\ files = [p \in Paths |-> IF p \in Shipped THEN Project ELSE Absent]
    /\ patched = [f \in Patchable |-> Untouched]
    /\ phase = "idle"
    /\ name \in Names
    /\ next = 1
    /\ plan = patched
    /\ outcome = "none"
    /\ failures = 0
    /\ before = tree

-----------------------------------------------------------------------------
\* add_import: nothing if the line is there.
AddImport(imports, n) == imports \cup {n}

\* The marker of n is in f: the first line of a block, but for the router's,
\* where it is in a line that ruff has joined, if it has and the line fits.
Marked(f, n, joined) == patched[f].blocks[n] > 0 /\ (f = "router" => joined)

\* Mutants of AppendBlock: no marker; a marker that the import just added
\* contains as well.
AppendBlockUnguarded(blocks, n, marked) == [blocks EXCEPT ![n] = @ + 1]
AppendBlockMisled(blocks, n, marked) == blocks

\* append_block: nothing if the marker is there.
AppendBlock(blocks, n, marked) == IF marked THEN blocks ELSE [blocks EXCEPT ![n] = @ + 1]

Patch(f, n, joined) ==
    LET was == patched[f] IN
    [imports |-> AddImport(was.imports, n),
     blocks |-> IF f = "models_init" THEN was.blocks
                ELSE AppendBlock(was.blocks, n, Marked(f, n, joined)),
     whole |-> was.whole]

Imported(f) == patched[f].imports
Defined(f) == {n \in Names : patched[f].blocks[n] > 0}

\* The words of router.py: modules, prefixes and tags.  Of a torn one some of
\* the words it came with, and the last prefix, may be lost.
Mentioned ==
    Imported("router") \cup Defined("router")
        \cup IF patched["router"].whole
             THEN RouterWords \cup {Plural[n] : n \in Defined("router")}
             ELSE {}

\* Mutant of Taken: tests are not looked for.
TakenSources(n) == \E k \in Kinds \ {"unit_test", "integration_test"} : files[Path(n, k)] # Absent

Taken(n) == \E k \in Kinds : files[Path(n, k)] # Absent

\* The process ends, and with it what it remembers.
EndsAs(o) ==
    /\ phase' = "idle" /\ outcome' = o /\ next' = 1
    /\ plan' = patched'
    /\ failures' = IF o = "failed" THEN failures + 1 ELSE failures
    /\ failures' <= MaxFailures
    /\ before' = IF o = "refused" THEN before ELSE tree'

\* Mutant of Start: the script runs without its argument.
StartUnchecked(n) ==
    /\ phase = "idle"
    /\ name' \in {n, Absent}
    /\ before' = tree
    /\ phase' = "checked" /\ outcome' = "none"
    /\ UNCHANGED <<tree, next, plan, failures>>

\* main, validate_name: a word that is cut may be just the name.
Start(n) ==
    /\ phase = "idle"
    /\ name' = n
    /\ before' = tree
    /\ \/ /\ n \in Malformed \cup Mentioned \/ ~patched["router"].whole
          /\ phase' = "idle" /\ outcome' = "refused"
       \/ /\ n \notin Malformed \cup Mentioned
          /\ phase' = "checked" /\ outcome' = "none"
    /\ UNCHANGED <<tree, next, plan, failures>>

\* Reading or parsing a patched file may fail if some of it is lost.
Unreadable == \E f \in Patchable : ~patched[f].whole

\* Mutant of Plan: new files are written before the others are read.
PlanLate ==
    /\ phase = "checked"
    /\ UNCHANGED <<patched, name>>
    /\ \/ /\ Taken(name) \/ Unreadable
          /\ files' = IF Taken(name) THEN files
                      ELSE [p \in Paths |-> IF p \in NewPaths(name) THEN name ELSE files[p]]
          /\ EndsAs("refused")
       \/ /\ ~Taken(name)
          /\ \E joined \in BOOLEAN : plan' = [f \in Patchable |-> Patch(f, name, joined)]
          /\ next' = 1
          /\ phase' = "writing" /\ UNCHANGED <<files, outcome, failures, before>>

\* generate up to the first write: all content is computed.
Plan ==
    /\ phase = "checked"
    /\ UNCHANGED <<tree, name>>
    /\ \/ (Taken(name) \/ Unreadable) /\ EndsAs("refused")
       \/ /\ ~Taken(name)
          /\ \E joined \in BOOLEAN : plan' = [f \in Patchable |-> Patch(f, name, joined)]
          /\ next' = 1
          /\ phase' = "writing" /\ UNCHANGED <<outcome, failures, before>>

\* write_text of the next file.
WriteNext ==
    /\ phase = "writing"
    /\ LET f == WriteOrder[next] IN
        IF f \in Kinds
        THEN files' = [files EXCEPT ![Path(name, f)] = name] /\ UNCHANGED patched
        ELSE patched' = [patched EXCEPT ![f] = plan[f]] /\ UNCHANGED files
    /\ next' = next + 1
    /\ phase' = IF next = Len(WriteOrder) THEN "formatting" ELSE "writing"
    /\ UNCHANGED <<name, plan, outcome, failures, before>>

\* A file cut off somewhere: in its imports, or in the blocks after them.
Cut(c) ==
    {[imports |-> I, blocks |-> NoBlocks, whole |-> FALSE] : I \in SUBSET c.imports}
    \cup {[imports |-> c.imports, whole |-> FALSE,
           blocks |-> [n \in Names |-> IF n \in K THEN c.blocks[n] ELSE 0]] : K \in SUBSET Names}

\* write_text raises, or the process dies, with the file truncated or cut.
WriteTorn ==
    /\ phase = "writing"
    /\ LET f == WriteOrder[next] IN
        IF f \in Kinds
        THEN files' = [files EXCEPT ![Path(name, f)] = Torn] /\ UNCHANGED patched
        ELSE (\E c \in Cut(plan[f]) : patched' = [patched EXCEPT ![f] = c]) /\ UNCHANGED files
    /\ UNCHANGED name
    /\ EndsAs("failed")

\* A file cannot be opened, or the process dies between two steps.
Stopped ==
    /\ phase # "idle"
    /\ UNCHANGED <<tree, name>>
    /\ EndsAs("failed")

\* run_ruff: best effort, formatting only.
RunRuff ==
    /\ phase = "formatting"
    /\ UNCHANGED <<tree, name>>
    /\ EndsAs("done")

-----------------------------------------------------------------------------
\* The developer deletes what a run for n has created, and no other file.
Deleted(n) ==
    files' = [p \in Paths |->
                IF p \in NewPaths(n) /\ files[p] \in {n, Torn} THEN Absent ELSE files[p]]

\* The clean-up README.md describes: the files and the patched lines.  A torn
\* file is mended, but for lines of other resources that were cut off.
CleanUp(n) ==
    /\ phase = "idle"
    /\ Deleted(n)
    /\ patched' = [f \in Patchable |->
                     [imports |-> patched[f].imports \ {n},
                      blocks |-> [patched[f].blocks EXCEPT ![n] = 0], whole |-> TRUE]]
    /\ EndsAs("none")
    /\ UNCHANGED name

\* After a run that failed: only the new files, to run it again.
CleanFiles ==
    /\ phase = "idle" /\ outcome = "failed"
    /\ Deleted(name)
    /\ UNCHANGED <<patched, name>>
    /\ EndsAs("none")

Run == (\E n \in Names : Start(n)) \/ Plan \/ WriteNext \/ WriteTorn \/ Stopped \/ RunRuff

Developer == (\E n \in Names : CleanUp(n)) \/ CleanFiles

Next == Run \/ Developer

Spec == Init /\ [][Next]_vars
-----------------------------------------------------------------------------
\* Every import of the running application finds its module, whole and sound,
\* and the names it takes from it; a block finds what its file imports.
Resolves ==
    /\ \A f \in Patchable : patched[f].whole /\ Defined(f) \subseteq Imported(f)
    /\ \A f \in Patchable : \A n \in Imported(f) :
         /\ LoadedBy[f][n] \subseteq SoundFiles[n]
         /\ \A k \in LoadedBy[f][n] : files[Path(n, k)] = n
    /\ Imported("deps") \subseteq Defined("mappers")
    /\ Imported("router") \subseteq Defined("deps")

\* SQLAlchemy refuses a second model for a table.
TablesDiffer ==
    \A m, n \in Imported("models_init") : Plural[m] = Plural[n] => m = n

\* What mappers.py imports for n, and what it imports in the repository.
MappedClasses(n) == {Class[n], ModelClass[n]}
ShippedClasses == {"Task", "TaskStatus", "User", "TaskModel", "UserModel"}

\* In mappers.py a class name means one class.
ClassesDiffer ==
    \A n \in Imported("mappers") :
        /\ MappedClasses(n) \cap ShippedClasses = {}
        /\ \A m \in Imported("mappers") \ {n} : MappedClasses(m) \cap MappedClasses(n) = {}

\* The application starts, and the names in the files of each resource mean
\* the resource's own classes, table and variables.
Works == Resolves /\ TablesDiffer /\ ClassesDiffer

\* What validate_name does not look for: Python's grammar, other names in the
\* rendered files, other classes in mappers.py.
BadName(n) ==
    \/ SoundFiles[n] # Kinds
    \/ MappedClasses(n) \cap ShippedClasses # {}
    \/ \E m \in Imported("mappers") \ {n} : MappedClasses(m) \cap MappedClasses(n) # {}

\* A run that refuses has left the repository as it was (docstring: "a
\* failing check leaves the repository untouched"), torn files included.
RefusedTouchesNothing == outcome = "refused" => tree = before

\* A run that ends well has written everything, also on top of what an
\* earlier run that failed has left (the markers of append_block).  In a
\* patched file that run has torn, a marker may be all there is of a block.
DoneIsComplete ==
    outcome = "done" =>
        /\ \A k \in Kinds : files[Path(name, k)] = name
        /\ \A f \in Patchable : patched[f].whole =>
              name \in Imported(f) /\ (f # "models_init" => name \in Defined(f))

\* However often runs fail and are repeated, a file defines the mappers, the
\* dependency and the route of a resource once.  In mappers.py and deps.py
\* the marker sees to that; in router.py it need not be found, and what does
\* is that validate_name refuses a name router.py has, even torn.
BlocksOnce == \A f \in Patchable : \A n \in Names : patched[f].blocks[n] <= 1

\* No run overwrites a new-file path that is in use, not even one that
\* another resource with the same plural has.
NeverOverwrites ==
    [][Run => \A p \in Paths : files[p] # Absent => files'[p] = files[p]]_vars

\* At no moment, between two writes or after a run that was cut short, does
\* a run make an application that works (uvicorn --reload picks up each
\* write) stop working, unless it tears a file the application imports, the
\* name is one that validate_name lets pass although the files rendered for
\* it do not mean what the templates say (BadName), or its table is by a
\* resource of which failed runs had left the model and not the tests.
NeverBreaksApp ==
    [][Run /\ Works => \/ Works'
                       \/ \E f \in Patchable : ~patched'[f].whole
                       \/ BadName(name)
                       \/ \E m \in Imported("models_init") \ {name} :
                            /\ Plural[m] = Plural[name]
                            /\ before[1][Path(m, "integration_test")] # m]_vars

\* What the generated tests assert and README.md says ("a complete CRUD
\* resource"): where no run was ever cut short, a run that ends well leaves
\* an application that works.
GeneratedResourceWorks == failures = 0 /\ outcome = "done" => Works
=============================================================================
