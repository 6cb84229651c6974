-------------------------- MODULE Generator_proofs --------------------------
(***************************************************************************)
(* Proofs about Generator for any names, plurals, classes and number of    *)
(* failures.  Of a run that is writing, IInv says which files it has       *)
(* written and that the paths it has still to write are free; what has     *)
(* been free cannot be what a working application imports.                 *)
(***************************************************************************)
EXTENDS Generator, SequenceTheorems, TLAPS

\* Until the first write nothing is changed.
PlainInv == phase = "checked" \/ outcome = "refused" => tree = before

\* No block is, or is planned to be, in a file twice.
OnceInv ==
    \A f \in Patchable : \A n \in Names :
        patched[f].blocks[n] <= 1 /\ plan[f].blocks[n] <= 1

\* The plan adds the resource to what was there, and takes nothing away.
PlanInv ==
    \A f \in Patchable :
        /\ name \in plan[f].imports /\ plan[f].imports \subseteq before[2][f].imports \cup {name}
        /\ f # "models_init" => plan[f].blocks[name] > 0
        /\ \A n \in Names : /\ plan[f].blocks[n] > 0 => n = name \/ before[2][f].blocks[n] > 0
                            /\ before[2][f].blocks[n] > 0 => plan[f].blocks[n] > 0
        /\ before[2][f].imports \subseteq plan[f].imports
        /\ plan[f].whole = before[2][f].whole

\* How far the run has come.
Written(i) == i < next \/ phase = "formatting"

WriteInv ==
    phase \in {"writing", "formatting"} =>
        /\ phase = "writing" => next <= Len(WriteOrder)
        /\ PlanInv
        /\ \A i \in DOMAIN WriteOrder :
            LET f == WriteOrder[i] IN
            /\ f \in Kinds => files[Path(name, f)] = IF Written(i) THEN name ELSE Absent
            /\ f \in Patchable => patched[f] = IF Written(i) THEN plan[f] ELSE before[2][f]
        /\ \A k \in Kinds : before[1][Path(name, k)] = Absent

\* The outcome is of a run that has ended.
PhaseInv == phase # "idle" => outcome = "none"

\* A name that validate_name has let pass has no block in router.py.
NewInv == phase = "checked" => name \notin Defined("router")

IInv == TypeOK /\ PhaseInv /\ PlainInv /\ NewInv /\ OnceInv /\ WriteInv /\ DoneIsComplete

-----------------------------------------------------------------------------
\* New files come first, each file comes once.
LEMMA OrderOfFiles ==
  /\ Len(WriteOrder) = 18 /\ DOMAIN WriteOrder = 1 .. 18
  /\ \A i \in 1 .. 14 : WriteOrder[i] = NewFiles[i] /\ WriteOrder[i] \in Kinds
  /\ \A i \in 15 .. 18 : WriteOrder[i] = PatchedFiles[i - 14] /\ WriteOrder[i] \in Patchable
  <1>1. Len(NewFiles) = 14 /\ DOMAIN NewFiles = 1 .. 14 /\ NewFiles \in Seq(Kinds)
    BY DEF NewFiles, Kinds
  <1>2. Len(PatchedFiles) = 4 /\ DOMAIN PatchedFiles = 1 .. 4 /\ PatchedFiles \in Seq(Patchable)
    BY DEF PatchedFiles, Patchable
  <1>3. \A i \in 1 .. 14 : NewFiles[i] \in Kinds
    BY <1>1 DEF Kinds
  <1>4. \A i \in 1 .. 4 : PatchedFiles[i] \in Patchable
    BY <1>2 DEF Patchable
  <1>5. /\ WriteOrder \in Seq(Kinds \cup Patchable) /\ Len(WriteOrder) = 18
        /\ \A i \in 1 .. 18 : WriteOrder[i] = IF i <= 14 THEN NewFiles[i] ELSE PatchedFiles[i - 14]
    <2>1. NewFiles \in Seq(Kinds \cup Patchable) /\ PatchedFiles \in Seq(Kinds \cup Patchable)
      BY <1>1, <1>2, <1>3, <1>4 DEF NewFiles, PatchedFiles
    <2>2. ASSUME NEW S, NEW s \in Seq(S), NEW t \in Seq(S), Len(s) = 14, Len(t) = 4
          PROVE  /\ s \o t \in Seq(S) /\ Len(s \o t) = 18
                 /\ \A i \in 1 .. 18 : (s \o t)[i] = IF i <= 14 THEN s[i] ELSE t[i - 14]
      <3>1. /\ s \o t \in Seq(S) /\ Len(s \o t) = Len(s) + Len(t)
            /\ \A i \in 1 .. Len(s) + Len(t) :
                 (s \o t)[i] = IF i <= Len(s) THEN s[i] ELSE t[i - Len(s)]
        BY ConcatProperties, Zenon
      <3>2. Len(s) + Len(t) = 18
        BY <2>2
      <3> QED BY <2>2, <3>1, <3>2
    <2> QED BY <1>1, <1>2, <2>1, <2>2 DEF WriteOrder
  <1>6. \A i \in 1 .. 14 : WriteOrder[i] = NewFiles[i]
    BY <1>5
  <1>7. \A i \in 15 .. 18 : WriteOrder[i] = PatchedFiles[i - 14] /\ i - 14 \in 1 .. 4
    BY <1>5
  <1>8. DOMAIN WriteOrder = 1 .. 18
    BY <1>5, LenProperties
  <1>9. \A i \in 15 .. 18 : WriteOrder[i] \in Patchable
    BY <1>4, <1>7
  <1> QED BY <1>3, <1>5, <1>6, <1>7, <1>8, <1>9

LEMMA KindsApart == Kinds \cap Patchable = {}
  BY DEF Kinds, Patchable, NewFiles, PatchedFiles

LEMMA FilesDiffer ==
  \A i, j \in 1 .. 18 : WriteOrder[i] = WriteOrder[j] => i = j
  <1>1. \A i, j \in 1 .. 14 : NewFiles[i] = NewFiles[j] => i = j
    BY DEF NewFiles
  <1>2. \A i, j \in 1 .. 4 : PatchedFiles[i] = PatchedFiles[j] => i = j
    BY DEF PatchedFiles
  <1> QED BY <1>1, <1>2, OrderOfFiles, KindsApart

\* Every file is somewhere in the order.
LEMMA OrderIsComplete ==
  /\ \A k \in Kinds : \E i \in 1 .. 14 : WriteOrder[i] = k
  /\ \A f \in Patchable : \E i \in 15 .. 18 : WriteOrder[i] = f
  <1>1. \A k \in Kinds : \E i \in 1 .. 14 : NewFiles[i] = k
    BY DEF Kinds, NewFiles
  <1>2. \A f \in Patchable : \E i \in 1 .. 4 : PatchedFiles[i] = f
    BY DEF Patchable, PatchedFiles
  <1>3. ASSUME NEW f \in Patchable PROVE \E i \in 15 .. 18 : WriteOrder[i] = f
    <2>1. PICK i \in 1 .. 4 : PatchedFiles[i] = f
      BY <1>2
    <2>2. i + 14 \in 15 .. 18 /\ (i + 14) - 14 = i
      OBVIOUS
    <2> QED BY <2>1, <2>2, OrderOfFiles
  <1> QED BY <1>1, <1>3, OrderOfFiles

\* What a run writes are paths of the tree, one for each kind.
LEMMA PathFacts ==
  /\ \A n \in Names, k \in Kinds : Path(n, k) \in Paths
  /\ \A n \in Names, j, k \in Kinds : Path(n, j) = Path(n, k) => j = k
  BY DEF Path, Paths, NewPaths

LEMMA ImportsAreFiles ==
  \A f \in Patchable : \A n \in Names : LoadedBy[f][n] \subseteq Kinds
  <1>1. Kinds = {"entity", "port", "app_init", "create", "get", "list", "update", "delete",
                 "model", "repository", "schema", "endpoint", "unit_test", "integration_test"}
    BY DEF Kinds, NewFiles
  <1>2. ASSUME NEW n \in Names, NEW k \in Kinds PROVE Template(n)[k].imports \subseteq Kinds
    <2>1. /\ Plain.imports = {} /\ Entity.imports = {} /\ Port(n).imports = {"entity"}
          /\ CreateUseCase(n).imports = {"app_init", "entity", "port"}
          /\ GetUseCase(n).imports = {"app_init", "entity", "port"}
          /\ ListUseCase(n).imports = {"app_init", "entity", "port"}
          /\ UpdateUseCase(n).imports = {"app_init", "entity", "port"}
          /\ DeleteUseCase(n).imports = {"app_init", "port"}
          /\ Repository(n).imports = {"entity", "model"}
          /\ Endpoint(n).imports =
               {"schema", "entity", "create", "get", "list", "update", "delete"}
          /\ UnitTest.imports = {"entity", "create", "get", "list", "update", "delete"}
      BY DEF Plain, Entity, Port, CreateUseCase, GetUseCase, ListUseCase, UpdateUseCase,
             DeleteUseCase, Repository, Endpoint, UnitTest
    <2> QED BY <1>1, <2>1 DEF Template
  <1>3. \A n \in Names : \A k \in Kinds : Loaded(n, k) \subseteq Kinds
    BY <1>2 DEF Loaded
  <1>4. \A f \in Patchable : Anchors[f] \subseteq Kinds
    BY <1>1 DEF Patchable, PatchedFiles, Anchors
  <1> QED BY <1>3, <1>4 DEF LoadedBy
-----------------------------------------------------------------------------
LEMMA InitInv == Init => IInv
  <1> SUFFICES ASSUME Init PROVE IInv
    OBVIOUS
  <1>1. Untouched \in Content /\ \A n \in Names : Untouched.blocks[n] = 0
    BY DEF Untouched, NoBlocks, Content
  <1>2. TypeOK
    BY <1>1, GeneratorAssumption, OrderOfFiles DEF Init, TypeOK, tree
  <1>3. OnceInv
    <2>1. \A f \in Patchable : patched[f] = Untouched /\ plan[f] = Untouched
      BY DEF Init
    <2>2. \A n \in Names : Untouched.blocks[n] <= 1
      BY <1>1, 0 <= 1
    <2> QED BY <2>1, <2>2 DEF OnceInv
  <1> QED BY <1>2, <1>3 DEF Init, IInv, PhaseInv, PlainInv, NewInv, WriteInv, DoneIsComplete

\* What the computation of a patched file changes in it.
LEMMA PatchFacts ==
  ASSUME TypeOK, NEW f \in Patchable, NEW joined \in BOOLEAN, name \notin Defined("router")
  PROVE  /\ Patch(f, name, joined) \in Content
         /\ Patch(f, name, joined).imports = patched[f].imports \cup {name}
         /\ Patch(f, name, joined).whole = patched[f].whole
         /\ f # "models_init" => Patch(f, name, joined).blocks[name] > 0
         /\ f = "models_init" => Patch(f, name, joined).blocks = patched[f].blocks
         /\ \A n \in Names :
              /\ n # name => Patch(f, name, joined).blocks[n] = patched[f].blocks[n]
              /\ patched[f].blocks[n] > 0 => Patch(f, name, joined).blocks[n] > 0
              /\ patched[f].blocks[n] <= 1 => Patch(f, name, joined).blocks[n] <= 1
  <1>1. patched[f] \in Content /\ name \in Names
    BY DEF TypeOK
  <1>2. PICK I \in SUBSET Names, b \in [Names -> Nat], w \in BOOLEAN :
          patched[f] = [imports |-> I, blocks |-> b, whole |-> w]
    BY <1>1 DEF Content
  <1>3. PICK c : c = AppendBlock(b, name, Marked(f, name, joined))
    OBVIOUS
  <1>4. Patch(f, name, joined) =
          [imports |-> I \cup {name}, blocks |-> IF f = "models_init" THEN b ELSE c, whole |-> w]
    BY <1>2, <1>3 DEF Patch, AddImport
  <1>5. Marked(f, name, joined) <=> b[name] > 0
    <2>1. CASE f = "router"
      <3>1. ~(b[name] > 0)
        BY <1>1, <1>2, <2>1 DEF Defined
      <3> QED BY <1>2, <3>1 DEF Marked
    <2>2. CASE f # "router"
      BY <1>2, <2>2 DEF Marked
    <2> QED BY <2>1, <2>2
  <1>6. /\ c \in [Names -> Nat] /\ c[name] > 0
        /\ \A n \in Names : /\ n # name => c[n] = b[n]
                            /\ b[n] > 0 => c[n] > 0
                            /\ b[n] <= 1 => c[n] <= 1
    BY <1>1, <1>3, <1>5 DEF AppendBlock
  <1> QED BY <1>1, <1>2, <1>4, <1>6 DEF Content

\* A file that was cut off has nothing new in it.
LEMMA CutFacts ==
  ASSUME NEW c \in Content, NEW d \in Cut(c)
  PROVE  /\ d \in Content /\ d.whole = FALSE
         /\ \A n \in Names : c.blocks[n] <= 1 => d.blocks[n] <= 1
  <1>1. c.imports \subseteq Names /\ c.blocks \in [Names -> Nat]
    BY DEF Content
  <1>2. CASE \E I \in SUBSET c.imports : d = [imports |-> I, blocks |-> NoBlocks, whole |-> FALSE]
    BY <1>1, <1>2 DEF NoBlocks, Content
  <1>3. CASE \E K \in SUBSET Names :
               d = [imports |-> c.imports, whole |-> FALSE,
                    blocks |-> [n \in Names |-> IF n \in K THEN c.blocks[n] ELSE 0]]
    BY <1>1, <1>3 DEF Content
  <1> QED BY <1>2, <1>3 DEF Cut

Complete(n, fs, p) ==
    /\ \A k \in Kinds : fs[Path(n, k)] = n
    /\ \A f \in Patchable : n \in p[f].imports
    /\ \A f \in Patchable \ {"models_init"} : p[f].blocks[n] > 0

\* A step with which a run ends, whatever it has done to the tree.
LEMMA EndKeepsInv ==
  ASSUME IInv, NEW o \in {"none", "refused", "failed", "done"}, EndsAs(o), name' = name,
         files' \in [Paths -> {Absent, Torn, Project} \cup Names],
         patched' \in [Patchable -> Content],
         \A f \in Patchable : \A n \in Names : patched'[f].blocks[n] <= 1,
         o = "refused" => phase = "checked" /\ tree' = tree,
         o = "done" => Complete(name, files', patched')
  PROVE  IInv'
  <1>1. /\ phase' = "idle" /\ outcome' = o /\ next' = 1 /\ plan' = patched'
        /\ failures' = IF o = "failed" THEN failures + 1 ELSE failures
        /\ failures' <= MaxFailures
        /\ before' = IF o = "refused" THEN before ELSE <<files', patched'>>
    BY DEF EndsAs, tree
  <1>2. TypeOK'
    <2>1. failures' \in 0 .. MaxFailures
      BY <1>1, GeneratorAssumption DEF IInv, TypeOK
    <2>2. before' \in [Paths -> {Absent, Torn, Project} \cup Names] \X [Patchable -> Content]
      BY <1>1 DEF IInv, TypeOK
    <2>3. next' \in 1 .. Len(WriteOrder) + 1
      BY <1>1, OrderOfFiles
    <2> QED BY <1>1, <2>1, <2>2, <2>3 DEF IInv, TypeOK
  <1>3. PhaseInv' /\ NewInv' /\ WriteInv'
    BY <1>1 DEF PhaseInv, NewInv, WriteInv
  <1>4. PlainInv'
    BY <1>1 DEF IInv, PlainInv, tree
  <1>5. OnceInv'
    BY <1>1 DEF OnceInv
  <1>6. DoneIsComplete'
    <2>1. SUFFICES ASSUME outcome' = "done"
                   PROVE  /\ \A k \in Kinds : files'[Path(name', k)] = name'
                          /\ \A f \in Patchable : patched'[f].whole =>
                               /\ name' \in patched'[f].imports
                               /\ f # "models_init" =>
                                    name' \in {n \in Names : patched'[f].blocks[n] > 0}
      BY DEF DoneIsComplete, Imported, Defined
    <2>2. Complete(name, files', patched') /\ name \in Names
      BY <1>1, <2>1 DEF IInv, TypeOK
    <2> QED BY <2>2 DEF Complete
  <1> QED BY <1>2, <1>3, <1>4, <1>5, <1>6 DEF IInv

LEMMA StutterInv == IInv /\ UNCHANGED vars => IInv'
  <1> SUFFICES ASSUME IInv, UNCHANGED vars PROVE IInv'
    OBVIOUS
  <1> USE DEF vars
  <1>1. TypeOK'
    BY DEF IInv, TypeOK
  <1>2. PhaseInv' /\ PlainInv' /\ NewInv' /\ OnceInv'
    BY DEF IInv, PhaseInv, PlainInv, NewInv, OnceInv, Defined, tree
  <1>3. WriteInv'
    BY DEF IInv, WriteInv, PlanInv, Written
  <1>4. DoneIsComplete'
    BY DEF IInv, DoneIsComplete, Imported, Defined
  <1> QED BY <1>1, <1>2, <1>3, <1>4 DEF IInv

LEMMA StartInv == ASSUME IInv, NEW n \in Names, Start(n) PROVE IInv'
  <1>1. /\ phase = "idle" /\ name' = n /\ before' = <<files, patched>>
        /\ files' = files /\ patched' = patched /\ next' = next /\ plan' = plan
        /\ failures' = failures
        /\ \/ phase' = "idle" /\ outcome' = "refused"
           \/ phase' = "checked" /\ outcome' = "none" /\ n \notin Defined("router")
    BY DEF Start, Mentioned, tree
  <1>2. TypeOK'
    BY <1>1 DEF IInv, TypeOK
  <1>3. PhaseInv' /\ WriteInv' /\ DoneIsComplete'
    BY <1>1 DEF PhaseInv, WriteInv, DoneIsComplete
  <1>4. PlainInv' /\ NewInv' /\ OnceInv'
    BY <1>1 DEF IInv, PlainInv, NewInv, OnceInv, Defined, tree
  <1> QED BY <1>2, <1>3, <1>4 DEF IInv

LEMMA PlanStepInv == ASSUME IInv, Plan PROVE IInv'
  <1>1. phase = "checked" /\ files' = files /\ patched' = patched /\ name' = name
    BY DEF Plan, tree
  <1>2. CASE EndsAs("refused")
    <2>1. /\ files' \in [Paths -> {Absent, Torn, Project} \cup Names]
          /\ patched' \in [Patchable -> Content]
          /\ \A f \in Patchable : \A n \in Names : patched'[f].blocks[n] <= 1
      BY <1>1 DEF IInv, TypeOK, OnceInv
    <2> QED BY <1>1, <1>2, <2>1, EndKeepsInv DEF tree
  <1>3. CASE /\ ~Taken(name) /\ next' = 1
             /\ \E joined \in BOOLEAN : plan' = [f \in Patchable |-> Patch(f, name, joined)]
             /\ phase' = "writing" /\ UNCHANGED <<outcome, failures, before>>
    <2>0. PICK joined \in BOOLEAN : plan' = [f \in Patchable |-> Patch(f, name, joined)]
      BY <1>3
    <2>1. \A f \in Patchable : plan'[f] = Patch(f, name, joined)
      BY <2>0
    <2>2. /\ before = <<files, patched>> /\ name \in Names /\ TypeOK
          /\ name \notin Defined("router")
      BY <1>1 DEF IInv, PlainInv, NewInv, tree, TypeOK
    <2>3. TypeOK'
      <3>1. plan' \in [Patchable -> Content]
        BY <2>0, <2>2, PatchFacts
      <3> QED BY <1>1, <1>3, <3>1, OrderOfFiles DEF IInv, TypeOK
    <2>4. PhaseInv' /\ PlainInv' /\ NewInv' /\ DoneIsComplete'
      BY <1>1, <1>3, <2>2 DEF IInv, PhaseInv, PlainInv, NewInv, DoneIsComplete, tree
    <2>5. OnceInv'
      BY <1>1, <2>1, <2>2, PatchFacts DEF IInv, OnceInv
    <2>6. PlanInv'
      BY <1>1, <1>3, <2>1, <2>2, PatchFacts DEF PlanInv
    <2>7. WriteInv'
      <3>1. \A k \in Kinds : files[Path(name, k)] = Absent
        BY <1>3 DEF Taken
      <3>2. \A i \in DOMAIN WriteOrder : ~Written(i)'
        BY <1>3, OrderOfFiles DEF Written
      <3> QED BY <1>1, <1>3, <2>2, <2>6, <3>1, <3>2, OrderOfFiles DEF WriteInv
    <2> QED BY <2>3, <2>4, <2>5, <2>7 DEF IInv
  <1> QED BY <1>2, <1>3 DEF Plan

LEMMA WriteNextInv == ASSUME IInv, WriteNext PROVE IInv'
  <1>1. /\ phase = "writing" /\ next \in 1 .. 18 /\ name \in Names
        /\ name' = name /\ next' = next + 1 /\ plan' = plan /\ outcome' = outcome
        /\ failures' = failures /\ before' = before
        /\ phase' = IF next = 18 THEN "formatting" ELSE "writing"
        /\ outcome = "none"
    BY OrderOfFiles DEF WriteNext, IInv, TypeOK, WriteInv, PhaseInv
  <1>2. PICK f : f = WriteOrder[next]
    OBVIOUS
  <1>3. /\ f \in Kinds \/ f \in Patchable
        /\ f \in Kinds => f \notin Patchable
        /\ f \in Kinds => files' = [files EXCEPT ![Path(name, f)] = name] /\ patched' = patched
        /\ f \notin Kinds => patched' = [patched EXCEPT ![f] = plan[f]] /\ files' = files
    BY <1>1, <1>2, OrderOfFiles, KindsApart DEF WriteNext
  <1>4. TypeOK'
    <2>1. files' \in [Paths -> {Absent, Torn, Project} \cup Names]
      BY <1>1, <1>3, PathFacts DEF IInv, TypeOK
    <2>2. patched' \in [Patchable -> Content]
      BY <1>3 DEF IInv, TypeOK
    <2> QED BY <1>1, <2>1, <2>2, OrderOfFiles DEF IInv, TypeOK
  <1>5. PhaseInv' /\ PlainInv' /\ NewInv' /\ DoneIsComplete'
    BY <1>1 DEF PhaseInv, PlainInv, NewInv, DoneIsComplete
  <1>6. OnceInv'
    <2>1. \A g \in Patchable : patched'[g] = patched[g] \/ patched'[g] = plan[g]
      BY <1>3 DEF IInv, TypeOK
    <2> QED BY <1>1, <2>1 DEF IInv, OnceInv
  <1>7. WriteInv'
    <2>1. PlanInv'
      BY <1>1 DEF IInv, WriteInv, PlanInv
    <2>2. \A i \in 1 .. 18 : /\ i # next => (Written(i)' <=> Written(i))
                             /\ i = next => Written(i)'
      BY <1>1 DEF Written
    <2>3. ASSUME NEW i \in 1 .. 18
          PROVE  LET g == WriteOrder[i] IN
                 /\ g \in Kinds =>
                      files'[Path(name, g)] = IF Written(i)' THEN name ELSE Absent
                 /\ g \in Patchable =>
                      patched'[g] = IF Written(i)' THEN plan[g] ELSE before[2][g]
      <3>1. PICK g : g = WriteOrder[i]
        OBVIOUS
      <3>2. /\ g \in Kinds => files[Path(name, g)] = IF Written(i) THEN name ELSE Absent
            /\ g \in Patchable => patched[g] = IF Written(i) THEN plan[g] ELSE before[2][g]
        BY <1>1, <3>1, OrderOfFiles DEF IInv, WriteInv
      <3>3. CASE i = next
        BY <1>1, <1>2, <1>3, <2>2, <3>1, <3>3, PathFacts DEF IInv, TypeOK
      <3>4. CASE i # next
        <4>1. g # f
          BY <1>1, <1>2, <3>1, <3>4, FilesDiffer
        <4>2. g \in Kinds => files'[Path(name, g)] = files[Path(name, g)]
          BY <1>1, <1>3, <4>1, PathFacts DEF IInv, TypeOK
        <4>3. g \in Patchable => patched'[g] = patched[g]
          BY <1>3, <4>1 DEF IInv, TypeOK
        <4> QED BY <2>2, <3>1, <3>2, <3>4, <4>2, <4>3
      <3> QED BY <3>3, <3>4
    <2>4. \A k \in Kinds : before[1][Path(name, k)] = Absent
      BY <1>1 DEF IInv, WriteInv
    <2> QED BY <1>1, <2>1, <2>3, <2>4, OrderOfFiles DEF WriteInv
  <1> QED BY <1>4, <1>5, <1>6, <1>7 DEF IInv

LEMMA WriteTornInv == ASSUME IInv, WriteTorn PROVE IInv'
  <1>1. phase = "writing" /\ next \in 1 .. 18 /\ name \in Names /\ name' = name
        /\ EndsAs("failed")
    BY OrderOfFiles DEF WriteTorn, IInv, TypeOK, WriteInv
  <1>2. PICK f : f = WriteOrder[next]
    OBVIOUS
  <1>3. /\ f \in Kinds \/ f \in Patchable
        /\ f \in Kinds => files' = [files EXCEPT ![Path(name, f)] = Torn] /\ patched' = patched
        /\ f \notin Kinds => /\ \E c \in Cut(plan[f]) : patched' = [patched EXCEPT ![f] = c]
                            /\ files' = files
    BY <1>1, <1>2, OrderOfFiles DEF WriteTorn
  <1>4. files' \in [Paths -> {Absent, Torn, Project} \cup Names]
    BY <1>1, <1>3, PathFacts DEF IInv, TypeOK
  <1>5. /\ patched' \in [Patchable -> Content]
        /\ \A g \in Patchable : \A n \in Names : patched'[g].blocks[n] <= 1
    <2>1. CASE patched' = patched
      BY <2>1 DEF IInv, TypeOK, OnceInv
    <2>2. CASE f \in Patchable /\ \E c \in Cut(plan[f]) : patched' = [patched EXCEPT ![f] = c]
      <3>1. PICK c \in Cut(plan[f]) : patched' = [patched EXCEPT ![f] = c]
        BY <2>2
      <3>2. c \in Content /\ \A n \in Names : c.blocks[n] <= 1
        BY <2>2, <3>1, CutFacts DEF IInv, TypeOK, OnceInv
      <3> QED BY <3>1, <3>2 DEF IInv, TypeOK, OnceInv
    <2> QED BY <1>3, <2>1, <2>2
  <1> QED BY <1>1, <1>4, <1>5, EndKeepsInv

LEMMA TreeIsTyped ==
  ASSUME IInv
  PROVE  /\ files \in [Paths -> {Absent, Torn, Project} \cup Names]
         /\ patched \in [Patchable -> Content]
         /\ \A f \in Patchable : \A n \in Names : patched[f].blocks[n] <= 1
  BY DEF IInv, TypeOK, OnceInv

LEMMA StoppedInv == ASSUME IInv, Stopped PROVE IInv'
  <1>1. files' = files /\ patched' = patched /\ name' = name /\ EndsAs("failed")
    BY DEF Stopped, tree
  <1> QED BY <1>1, TreeIsTyped, EndKeepsInv

\* Everything is written when the run comes to its end.
LEMMA RunRuffInv == ASSUME IInv, RunRuff PROVE IInv'
  <1>1. /\ files' = files /\ patched' = patched /\ name' = name /\ EndsAs("done")
        /\ phase = "formatting" /\ name \in Names
    BY DEF RunRuff, tree, IInv, TypeOK
  <1>2. \A i \in 1 .. 18 : Written(i)
    BY <1>1 DEF Written
  <1>3. \A k \in Kinds : files[Path(name, k)] = name
    <2>1. ASSUME NEW k \in Kinds PROVE files[Path(name, k)] = name
      <3>1. PICK i \in 1 .. 14 : WriteOrder[i] = k
        BY OrderIsComplete
      <3> QED BY <1>1, <1>2, <3>1, OrderOfFiles DEF IInv, WriteInv
    <2> QED BY <2>1
  <1>4. \A f \in Patchable : patched[f] = plan[f]
    <2>1. ASSUME NEW f \in Patchable PROVE patched[f] = plan[f]
      <3>1. PICK i \in 15 .. 18 : WriteOrder[i] = f
        BY OrderIsComplete
      <3> QED BY <1>1, <1>2, <3>1, OrderOfFiles DEF IInv, WriteInv
    <2> QED BY <2>1
  <1>5. PlanInv
    BY <1>1 DEF IInv, WriteInv
  <1>6. Complete(name, files', patched')
    BY <1>1, <1>3, <1>4, <1>5 DEF Complete, PlanInv
  <1> QED BY <1>1, <1>6, TreeIsTyped, EndKeepsInv

LEMMA CleanUpInv == ASSUME IInv, NEW n \in Names, CleanUp(n) PROVE IInv'
  <1>1. /\ name' = name /\ EndsAs("none")
        /\ files' = [p \in Paths |->
                       IF p \in NewPaths(n) /\ files[p] \in {n, Torn} THEN Absent ELSE files[p]]
        /\ patched' = [f \in Patchable |->
                         [imports |-> patched[f].imports \ {n},
                          blocks |-> [patched[f].blocks EXCEPT ![n] = 0], whole |-> TRUE]]
    BY DEF CleanUp, Deleted
  <1>2. files' \in [Paths -> {Absent, Torn, Project} \cup Names]
    BY <1>1, TreeIsTyped
  <1>3. \A f \in Patchable :
          /\ patched[f].imports \subseteq Names
          /\ patched[f].blocks \in [Names -> Nat]
          /\ \A m \in Names : patched[f].blocks[m] <= 1
    BY TreeIsTyped DEF Content
  <1>4. ASSUME NEW f \in Patchable
        PROVE  /\ patched'[f] \in Content
               /\ \A m \in Names : patched'[f].blocks[m] <= 1
    <2>1. PICK b : b = [patched[f].blocks EXCEPT ![n] = 0]
      OBVIOUS
    <2>2. b \in [Names -> Nat] /\ \A m \in Names : b[m] <= 1
      <3>1. \A m \in Names : b[m] = IF m = n THEN 0 ELSE patched[f].blocks[m]
        BY <1>3, <2>1
      <3> QED BY <1>3, <2>1, <3>1
    <2>3. patched'[f] = [imports |-> patched[f].imports \ {n}, blocks |-> b, whole |-> TRUE]
      BY <1>1, <2>1
    <2> QED BY <1>3, <2>2, <2>3 DEF Content
  <1>5. patched' \in [Patchable -> Content]
    BY <1>1, <1>4
  <1> QED BY <1>1, <1>2, <1>4, <1>5, EndKeepsInv

LEMMA CleanFilesInv == ASSUME IInv, CleanFiles PROVE IInv'
  <1>1. /\ name' = name /\ EndsAs("none") /\ patched' = patched
        /\ files' = [p \in Paths |->
                       IF p \in NewPaths(name) /\ files[p] \in {name, Torn} THEN Absent ELSE files[p]]
    BY DEF CleanFiles, Deleted
  <1>2. files' \in [Paths -> {Absent, Torn, Project} \cup Names]
    BY <1>1, TreeIsTyped
  <1> QED BY <1>1, <1>2, TreeIsTyped, EndKeepsInv

THEOREM Invariance == Spec => []IInv
  <1>1. Init => IInv
    BY InitInv
  <1>2. IInv /\ [Next]_vars => IInv'
    BY StartInv, PlanStepInv, WriteNextInv, WriteTornInv, StoppedInv, RunRuffInv,
       CleanUpInv, CleanFilesInv, StutterInv DEF Next, Run, Developer
  <1> QED BY <1>1, <1>2, PTL DEF Spec

-----------------------------------------------------------------------------
\* TypeOK: what a run reads and writes stays what it is declared to be.
THEOREM GeneratorTypeCorrect == Spec => []TypeOK
  <1>1. IInv => TypeOK
    BY DEF IInv
  <1> QED BY <1>1, Invariance, PTL

\* RefusedTouchesNothing: a run that refuses (validate_name, a path that
\* exists, a file that cannot be read) leaves the tree as it found it.
THEOREM RefusalsTouchNothing == Spec => []RefusedTouchesNothing
  <1>1. IInv => RefusedTouchesNothing
    BY DEF IInv, PlainInv, RefusedTouchesNothing
  <1> QED BY <1>1, Invariance, PTL

\* DoneIsComplete: a run that ends well has written its 14 files and has its
\* lines in the 4 patched ones, whatever earlier runs had left there.
THEOREM DoneRunsAreComplete == Spec => []DoneIsComplete
  <1>1. IInv => DoneIsComplete
    BY DEF IInv
  <1> QED BY <1>1, Invariance, PTL

\* BlocksOnce: append_block never adds a resource's block a second time.  In
\* router.py it is not the marker that prevents it but validate_name (NewInv).
THEOREM BlocksAreOnce == Spec => []BlocksOnce
  <1>1. IInv => BlocksOnce
    BY DEF IInv, OnceInv, BlocksOnce
  <1> QED BY <1>1, Invariance, PTL

\* NeverOverwrites: a run leaves every new-file path that is in use as it is.
THEOREM NothingIsOverwritten == Spec => NeverOverwrites
  <1>1. IInv /\ [Next]_vars
          => [Run => \A p \in Paths : files[p] # Absent => files'[p] = files[p]]_vars
    <2> SUFFICES ASSUME IInv, Run, NEW p \in Paths, files[p] # Absent
                 PROVE  files'[p] = files[p]
      OBVIOUS
    <2>1. CASE phase # "writing" \/ UNCHANGED files
      BY <2>1 DEF Run, Start, Plan, WriteNext, WriteTorn, Stopped, RunRuff, tree
    <2>2. CASE phase = "writing" /\ (WriteNext \/ WriteTorn)
      <3>1. PICK f : f = WriteOrder[next]
        OBVIOUS
      <3>2. next \in 1 .. 18 /\ (f \in Kinds \/ f \in Patchable)
        BY <2>2, <3>1, OrderOfFiles DEF IInv, TypeOK, WriteInv
      <3>3. f \in Kinds => files[Path(name, f)] = Absent
        BY <2>2, <3>1, <3>2, OrderOfFiles DEF IInv, WriteInv, Written
      <3>4. \/ files' = files
            \/ /\ f \in Kinds
               /\ \/ files' = [files EXCEPT ![Path(name, f)] = name]
                  \/ files' = [files EXCEPT ![Path(name, f)] = Torn]
        BY <2>2, <3>1 DEF WriteNext, WriteTorn
      <3> QED BY <3>3, <3>4 DEF IInv, TypeOK
    <2> QED
      BY <2>1, <2>2 DEF Run, Start, Plan, WriteNext, WriteTorn, Stopped, RunRuff, tree
  <1> QED BY <1>1, Invariance, PTL DEF Spec, NeverOverwrites

-----------------------------------------------------------------------------
\* The resources a patched file mentions, and the files their imports load.
LEMMA WhatIsLoaded ==
  ASSUME TypeOK, NEW f \in Patchable
  PROVE  /\ Imported(f) \subseteq Names /\ Defined(f) \subseteq Names
         /\ \A n \in Names : \A k \in LoadedBy[f][n] : k \in Kinds /\ Path(n, k) \in Paths
  BY ImportsAreFiles, PathFacts DEF TypeOK, Content, Imported, Defined

\* A working application imports no path that is free.
LEMMA FreePathsDoNotMatter ==
  ASSUME TypeOK, Works, patched' = patched,
         \A p \in Paths : files[p] # Absent => files'[p] = files[p]
  PROVE  Works'
  <1>1. \A f \in Patchable : Imported(f)' = Imported(f) /\ Defined(f)' = Defined(f)
    BY DEF Imported, Defined
  <1>2. /\ Imported("deps")' = Imported("deps") /\ Imported("router")' = Imported("router")
        /\ Imported("mappers")' = Imported("mappers")
        /\ Imported("models_init")' = Imported("models_init")
        /\ Defined("mappers")' = Defined("mappers") /\ Defined("deps")' = Defined("deps")
    BY DEF Imported, Defined
  <1>3. ASSUME NEW f \in Patchable, NEW n \in Imported(f), NEW k \in LoadedBy[f][n]
        PROVE  files'[Path(n, k)] = n
    <2>1. n \in Names /\ Path(n, k) \in Paths
      BY WhatIsLoaded
    <2>2. files[Path(n, k)] = n /\ n # Absent
      BY <2>1, GeneratorAssumption DEF Works, Resolves
    <2> QED BY <2>1, <2>2
  <1>4. Resolves'
    BY <1>1, <1>2, <1>3 DEF Works, Resolves
  <1>5. TablesDiffer' /\ ClassesDiffer'
    BY <1>2 DEF Works, TablesDiffer, ClassesDiffer
  <1> QED BY <1>4, <1>5 DEF Works

\* How far a run has come that writes its next patched file.
LEMMA LateInTheRun ==
  ASSUME IInv, WriteNext, WriteOrder[next] \in Patchable
  PROVE  /\ next \in 15 .. 18 /\ name \in Names
         /\ files' = files
         /\ patched' = [patched EXCEPT ![WriteOrder[next]] = plan[WriteOrder[next]]]
         /\ \A k \in Kinds : files[Path(name, k)] = name
         /\ \A k \in Kinds : before[1][Path(name, k)] = Absent
         /\ patched[WriteOrder[next]] = before[2][WriteOrder[next]]
         /\ \A i \in 15 .. 18 : i < next => patched[WriteOrder[i]] = plan[WriteOrder[i]]
         /\ PlanInv
  <1>1. phase = "writing" /\ next \in 1 .. 18 /\ name \in Names
    BY OrderOfFiles DEF WriteNext, IInv, TypeOK, WriteInv
  <1>2. next \in 15 .. 18 /\ WriteOrder[next] \notin Kinds
    BY <1>1, OrderOfFiles, KindsApart
  <1>3. \A i \in 1 .. 18 : Written(i) <=> i < next
    BY <1>1 DEF Written
  <1>4. \A k \in Kinds : files[Path(name, k)] = name
    <2>1. ASSUME NEW k \in Kinds PROVE files[Path(name, k)] = name
      <3>1. PICK i \in 1 .. 14 : WriteOrder[i] = k
        BY OrderIsComplete
      <3> QED BY <1>1, <1>2, <1>3, <3>1, OrderOfFiles DEF IInv, WriteInv
    <2> QED BY <2>1
  <1>5. \A i \in 15 .. 18 :
          patched[WriteOrder[i]] = IF i < next THEN plan[WriteOrder[i]] ELSE before[2][WriteOrder[i]]
    BY <1>1, <1>3, OrderOfFiles DEF IInv, WriteInv
  <1>6. PlanInv /\ \A k \in Kinds : before[1][Path(name, k)] = Absent
    BY <1>1 DEF IInv, WriteInv
  <1>7. files' = files /\ patched' = [patched EXCEPT ![WriteOrder[next]] = plan[WriteOrder[next]]]
    BY <1>2 DEF WriteNext
  <1> QED BY <1>1, <1>2, <1>4, <1>5, <1>6, <1>7

\* Where NeverBreaksApp gives the application up.
TableIsTaken ==
    \E m \in Imported("models_init") \ {name} :
        Plural[m] = Plural[name] /\ before[1][Path(m, "integration_test")] # m

\* A patched file only ever gets what its imports need: the new files, and
\* the definitions of the patched files before it.
LEMMA PatchedFileFits ==
  ASSUME IInv, Works, WriteNext, WriteOrder[next] \in Patchable,
         ~BadName(name), ~TableIsTaken
  PROVE  Works'
  <1>1. PICK g \in Patchable : g = WriteOrder[next]
    OBVIOUS
  <1>2. /\ WriteOrder[15] = "models_init" /\ WriteOrder[16] = "mappers"
        /\ WriteOrder[17] = "deps" /\ WriteOrder[18] = "router"
    BY OrderOfFiles DEF PatchedFiles
  <1>3. /\ \A f \in Patchable : patched[f] \in Content /\ plan[f] \in Content
        /\ files' = files /\ name \in Names
        /\ \A f \in Patchable : patched'[f] = IF f = g THEN plan[f] ELSE patched[f]
    BY <1>1, LateInTheRun DEF IInv, TypeOK
  <1>4. /\ name \in plan[g].imports
        /\ plan[g].imports \subseteq patched[g].imports \cup {name}
        /\ patched[g].imports \subseteq plan[g].imports
        /\ g # "models_init" => plan[g].blocks[name] > 0
        /\ \A n \in Names : /\ plan[g].blocks[n] > 0 => n = name \/ patched[g].blocks[n] > 0
                            /\ patched[g].blocks[n] > 0 => plan[g].blocks[n] > 0
        /\ plan[g].whole = patched[g].whole
    BY <1>1, LateInTheRun DEF PlanInv
  <1>5. \A f \in Patchable :
          /\ Imported(f)' \subseteq Imported(f) \cup {name} /\ Imported(f) \subseteq Imported(f)'
          /\ Defined(f)' \subseteq Defined(f) \cup {name} /\ Defined(f) \subseteq Defined(f)'
          /\ f # g => Imported(f)' = Imported(f) /\ Defined(f)' = Defined(f)
          /\ patched'[f].whole = patched[f].whole
    BY <1>3, <1>4 DEF Imported, Defined
  <1>6. /\ "models_init" \in Patchable /\ "mappers" \in Patchable
        /\ "deps" \in Patchable /\ "router" \in Patchable
    BY DEF Patchable, PatchedFiles
  <1>7. ASSUME NEW f \in Patchable, NEW n \in Imported(f)'
        PROVE  /\ LoadedBy[f][n] \subseteq SoundFiles[n]
               /\ \A k \in LoadedBy[f][n] : files'[Path(n, k)] = n
    <2>1. CASE n = name
      <3>1. LoadedBy[f][name] \subseteq Kinds /\ SoundFiles[name] = Kinds
        BY <1>3, WhatIsLoaded DEF IInv, BadName
      <3> QED BY <1>3, <2>1, <3>1, LateInTheRun
    <2>2. CASE n # name
      <3>1. n \in Imported(f)
        BY <1>5, <2>2
      <3> QED BY <1>3, <3>1 DEF Works, Resolves
    <2> QED BY <2>1, <2>2
  <1>8. Imported("deps")' \subseteq Defined("mappers")'
    <2>1. g = "deps" => name \in Defined("mappers")
      <3>1. SUFFICES ASSUME g = "deps" PROVE patched["mappers"].blocks[name] > 0
        BY <1>3 DEF Defined
      <3>2. next = 17
        <4>1. next \in {15, 16, 17, 18} /\ WriteOrder[next] = "deps"
          BY <1>1, <3>1, LateInTheRun
        <4> QED BY <1>2, <4>1
      <3>3. patched["mappers"] = plan["mappers"] /\ PlanInv
        BY <1>2, <3>2, LateInTheRun
      <3> QED BY <1>6, <3>3 DEF PlanInv
    <2> QED BY <1>5, <1>6, <2>1 DEF Works, Resolves
  <1>9. Imported("router")' \subseteq Defined("deps")'
    <2>1. g = "router" => name \in Defined("deps")
      <3>1. SUFFICES ASSUME g = "router" PROVE patched["deps"].blocks[name] > 0
        BY <1>3 DEF Defined
      <3>2. next = 18
        <4>1. next \in {15, 16, 17, 18} /\ WriteOrder[next] = "router"
          BY <1>1, <3>1, LateInTheRun
        <4> QED BY <1>2, <4>1
      <3>3. patched["deps"] = plan["deps"] /\ PlanInv
        BY <1>2, <3>2, LateInTheRun
      <3> QED BY <1>6, <3>3 DEF PlanInv
    <2> QED BY <1>5, <1>6, <2>1 DEF Works, Resolves
  <1>10. Resolves'
    <2>1. \A f \in Patchable : patched'[f].whole /\ Defined(f)' \subseteq Imported(f)'
      <3>1. name \in Imported(g)'
        BY <1>3, <1>4 DEF Imported
      <3> QED BY <1>5, <3>1 DEF Works, Resolves
    <2> QED BY <1>7, <1>8, <1>9, <2>1 DEF Resolves
  <1>11. TablesDiffer'
    <2>1. \A m \in Imported("models_init") \ {name} : Plural[m] # Plural[name]
      <3>1. SUFFICES ASSUME NEW m \in Imported("models_init") \ {name}, Plural[m] = Plural[name]
                     PROVE  FALSE
        OBVIOUS
      <3>2. before[1][Path(m, "integration_test")] = m
        BY <3>1 DEF TableIsTaken
      <3>3. Path(m, "integration_test") = Path(name, "integration_test")
        BY <3>1 DEF Path
      <3>4. "integration_test" \in Kinds
        BY DEF Kinds, NewFiles
      <3>5. m \in Names
        BY <1>6, WhatIsLoaded DEF IInv
      <3> QED BY <3>2, <3>3, <3>4, <3>5, LateInTheRun, GeneratorAssumption
    <2> QED BY <1>5, <1>6, <2>1 DEF Works, TablesDiffer
  <1>12. ClassesDiffer'
    <2>1. /\ MappedClasses(name) \cap ShippedClasses = {}
          /\ \A m \in Imported("mappers") \ {name} : MappedClasses(m) \cap MappedClasses(name) = {}
      BY DEF BadName
    <2> QED BY <1>5, <1>6, <2>1 DEF Works, ClassesDiffer
  <1> QED BY <1>10, <1>11, <1>12 DEF Works

\* NeverBreaksApp: the order of the writes, the check that every path is free
\* and the imports of the templates together keep a working application
\* working through a run, unless a patched file is torn, the name is a bad
\* one (BadName), or a failed run had left the table's model without tests.
THEOREM AppKeepsWorking == Spec => NeverBreaksApp
  <1>1. ASSUME IInv, Run, Works, ~BadName(name), ~TableIsTaken,
               \A f \in Patchable : patched'[f].whole
        PROVE  Works'
    <2>1. CASE UNCHANGED tree
      BY <1>1, <2>1, FreePathsDoNotMatter DEF tree, IInv
    <2>2. CASE WriteNext \/ WriteTorn
      <3>0. phase = "writing"
        BY <2>2 DEF WriteNext, WriteTorn
      <3>1. PICK f : f = WriteOrder[next]
        OBVIOUS
      <3>2. next \in 1 .. 18 /\ (f \in Kinds \/ f \in Patchable)
        BY <1>1, <3>0, <3>1, OrderOfFiles DEF IInv, TypeOK, WriteInv
      <3>3. CASE f \in Kinds
        <4>1. files[Path(name, f)] = Absent
          BY <1>1, <3>0, <3>1, <3>2, <3>3, OrderOfFiles DEF IInv, WriteInv, Written
        <4>2. /\ patched' = patched
              /\ \/ files' = [files EXCEPT ![Path(name, f)] = name]
                 \/ files' = [files EXCEPT ![Path(name, f)] = Torn]
          BY <2>2, <3>1, <3>3 DEF WriteNext, WriteTorn
        <4>3. \A p \in Paths : files[p] # Absent => files'[p] = files[p]
          <5>1. \A q, v : files' = [files EXCEPT ![q] = v] /\ files[q] = Absent
                  => \A p \in Paths : files[p] # Absent => files'[p] = files[p]
            BY <1>1 DEF IInv, TypeOK
          <5> QED BY <4>1, <4>2, <5>1
        <4> QED BY <1>1, <4>2, <4>3, FreePathsDoNotMatter DEF IInv
      <3>4. CASE f \in Patchable /\ WriteNext
        BY <1>1, <3>1, <3>4, PatchedFileFits
      <3>5. CASE f \in Patchable /\ WriteTorn
        <4>1. PICK c \in Cut(plan[f]) : patched' = [patched EXCEPT ![f] = c]
          BY <3>1, <3>5, KindsApart DEF WriteTorn
        <4>2. f \in Patchable /\ patched \in [Patchable -> Content] /\ plan[f] \in Content
          BY <1>1, <3>5 DEF IInv, TypeOK
        <4>3. patched'[f] = c /\ c.whole = FALSE
          BY <4>1, <4>2, CutFacts
        <4> QED BY <1>1, <4>2, <4>3
      <3> QED BY <2>2, <3>2, <3>3, <3>4, <3>5
    <2> QED BY <1>1, <2>1, <2>2 DEF Run, Start, Plan, Stopped, RunRuff
  <1>2. IInv /\ [Next]_vars
          => [Run /\ Works => \/ Works'
                              \/ \E f \in Patchable : ~patched'[f].whole
                              \/ BadName(name)
                              \/ \E m \in Imported("models_init") \ {name} :
                                   /\ Plural[m] = Plural[name]
                                   /\ before[1][Path(m, "integration_test")] # m]_vars
    BY <1>1 DEF TableIsTaken
  <1> QED BY <1>2, Invariance, PTL DEF Spec, NeverBreaksApp
=============================================================================
