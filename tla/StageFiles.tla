----------------------------- MODULE StageFiles -----------------------------
(***************************************************************************)
(* Files of an internal stage.  Snowflake cannot tell what is in a file    *)
(* (it is encrypted), so every upload of a file is followed by the upload  *)
(* of an empty marker whose name is that of the file and the MD5 of what   *)
(* was uploaded.  Markers are never removed but with their file; of        *)
(* several, the one LIST returns last counts.                              *)
(*                                                                         *)
(* REMOVE takes a prefix: that is what deletes the marker together with    *)
(* the file, and every other file whose path begins with the same text.    *)
(***************************************************************************)
EXTENDS Integers, Sequences, FiniteSets, FiniteSetsExt

CONSTANTS
  Paths,      \* paths of files in the stage
  Extends,    \* the paths that begin with a path, itself excepted
  Contents,   \* what a file may contain, in the order LIST returns the MD5s
  Scenarios   \* what is considered, see ScenarioRecords

ASSUME StageAssumption ==
  /\ Extends \in [Paths -> SUBSET Paths] /\ \A p \in Paths : p \notin Extends[p]
  /\ Contents \in SUBSET (Nat \ {0})
  /\ \A S \in SUBSET Contents : S # {} => \E c \in S : \A d \in S : d <= c

Nothing == 0

\* For each invocation the local directory (a file it does not have is
\* Nothing), what StageResolver did to the stage just before, and whether it
\* is a plan.  Safe DDL is all that is needed.
Command == [files : [Paths -> Contents \cup {Nothing}],
            stage : {"kept", "replaced", "replacement suggested"}, plan : BOOLEAN]

\* The account at first, where each file has the marker of its content.
ScenarioRecords == [file : [Paths -> Contents \cup {Nothing}], commands : Seq(Command),
                    maxFaults : Nat]
ASSUME StageScenarioAssumption == Scenarios \subseteq ScenarioRecords

\* What is declared for a path by the i-th command of a scenario; at first
\* what is there is what was declared.
Content(s, i, p) == IF i = 0 THEN s.file[p] ELSE s.commands[i].files[p]

\* No file gets back a content it had before another one.
NeverBack(s) ==
  \A p \in Paths, i, j, k \in 0..Len(s.commands) :
    i < j /\ j < k /\ Content(s, i, p) = Content(s, k, p) /\ Content(s, k, p) # Nothing
      => Content(s, j, p) \in {Content(s, k, p), Nothing}

\* A file whose path begins with that of another goes with it, so none is
\* declared where the other goes.
PrefixSafe(s) ==
  \A p \in Paths, i, j \in 0..Len(s.commands) :
    i < j /\ Content(s, i, p) # Nothing /\ Content(s, j, p) = Nothing
      => \A q \in Extends[p] : Content(s, j, q) = Nothing

VARIABLES
  scenario,  \* the scenario
  file,      \* the content of each file in the stage
  marker,    \* the markers of each path
  inv,       \* the current invocation
  pc,        \* where it is
  existing,  \* existing_objects: of each listed path the MD5 that counts
  task,      \* what is left to do for each path
  failed,    \* whether an upload or a removal failed
  due,       \* whether anything was executed or suggested
  faults,    \* failures injected so far
  history    \* what the finished invocations did

stage == <<file, marker>>
vars == <<scenario, stage, inv, pc, existing, task, failed, due, faults, history>>

Invocation == scenario.commands[inv]
Declared(p) == Invocation.files[p] # Nothing

NoTasks == [p \in {} |-> <<>>]

-----------------------------------------------------------------------------
\* Mutant: the first one counts.
FirstListed(p) == IF marker[p] = {} THEN Nothing ELSE Min(marker[p])

\* get_existing_objects: all_hashes is overwritten by each marker.
Listed(p) == IF marker[p] = {} THEN Nothing ELSE Max(marker[p])

\* Mutant: the marker first, as if it could announce the file.
MarkerFirst(p) == << "put marker", "put file" >>

\* _upload_file, _upload_md5_marker
Upload(p) == << "put file", "put marker" >>

\* _resolve_drop; a stage that goes takes its files with it.
DropTargets == IF Invocation.stage = "kept" THEN {p \in DOMAIN existing' : ~Declared(p)} ELSE {}

\* create_object, compare_object
CreateOrCompare(p) ==
  IF p \in DOMAIN existing /\ existing[p] = Invocation.files[p] THEN << >> ELSE Upload(p)

-----------------------------------------------------------------------------
Init ==
  /\ scenario \in Scenarios
  /\ file = scenario.file
  /\ marker = [p \in Paths |-> {file[p]} \ {Nothing}]
  /\ inv = 1 /\ pc = "start" /\ existing = [p \in {} |-> Nothing] /\ task = NoTasks
  /\ failed = FALSE /\ due = FALSE /\ faults = 0 /\ history = <<>>

\* StageResolver, as far as the files go: a stage that is replaced is empty.
Start ==
  /\ pc = "start" /\ inv <= Len(scenario.commands)
  /\ IF Invocation.stage = "replaced" /\ ~Invocation.plan
     THEN file' = [p \in Paths |-> Nothing] /\ marker' = [p \in Paths |-> {}]
     ELSE UNCHANGED stage
  /\ pc' = "list" /\ failed' = FALSE /\ due' = FALSE
  /\ UNCHANGED <<scenario, inv, existing, task, faults, history>>

\* LIST, then the tasks of the drop phase.
Begin ==
  /\ pc = "list"
  /\ existing' = [p \in {q \in Paths : file[q] # Nothing} |-> Listed(p)]
  /\ task' = [p \in DropTargets |-> << "remove" >>]
  /\ pc' = "drop"
  /\ UNCHANGED <<scenario, stage, inv, failed, due, faults, history>>

\* Mutant: what is listed is compared, declared or not.
SubmitBatchListed ==
  /\ pc = "drop" /\ \A p \in DOMAIN task : task[p] = <<>>
  /\ task' = [p \in {q \in Paths : Declared(q)} \cup DOMAIN existing |-> CreateOrCompare(p)]
  /\ pc' = "create"
  /\ UNCHANGED <<scenario, stage, inv, existing, failed, due, faults, history>>

\* The tasks of the create and compare phase.
SubmitBatch ==
  /\ pc = "drop" /\ \A p \in DOMAIN task : task[p] = <<>>
  /\ task' = [p \in {q \in Paths : Declared(q)} |-> CreateOrCompare(p)]
  /\ pc' = "create"
  /\ UNCHANGED <<scenario, stage, inv, existing, failed, due, faults, history>>

HasStatement(p) == p \in DOMAIN task /\ task[p] # <<>>
Advance(p) == task' = [task EXCEPT ![p] = Tail(@)] /\ due' = TRUE

Suggest(p) ==
  /\ HasStatement(p) /\ Invocation.plan
  /\ Advance(p)
  /\ UNCHANGED <<scenario, stage, inv, pc, existing, failed, faults, history>>

Put(p) ==
  /\ HasStatement(p) /\ ~Invocation.plan
  /\ \/ Head(task[p]) = "put file"
        /\ file' = [file EXCEPT ![p] = Invocation.files[p]] /\ marker' = marker
     \/ Head(task[p]) = "put marker"
        /\ marker' = [marker EXCEPT ![p] = @ \cup {Invocation.files[p]}] /\ file' = file
  /\ Advance(p)
  /\ UNCHANGED <<scenario, inv, pc, existing, failed, faults, history>>

\* drop_object
Remove(p) ==
  /\ HasStatement(p) /\ ~Invocation.plan /\ Head(task[p]) = "remove"
  /\ LET gone == {p} \cup Extends[p]
     IN  /\ file'   = [q \in Paths |-> IF q \in gone THEN Nothing ELSE file[q]]
         /\ marker' = [q \in Paths |-> IF q \in gone THEN {} ELSE marker[q]]
  /\ Advance(p)
  /\ UNCHANGED <<scenario, inv, pc, existing, failed, faults, history>>

\* Mutant: the error is logged and forgotten.
FailUnnoticed(p) ==
  /\ HasStatement(p) /\ ~Invocation.plan /\ faults < scenario.maxFaults
  /\ faults' = faults + 1 /\ due' = TRUE
  /\ task' = [task EXCEPT ![p] = <<>>]
  /\ UNCHANGED <<scenario, stage, inv, pc, existing, failed, history>>

\* A statement fails: the worker's task ends there.
Fail(p) ==
  /\ HasStatement(p) /\ ~Invocation.plan /\ faults < scenario.maxFaults
  /\ faults' = faults + 1 /\ failed' = TRUE /\ due' = TRUE
  /\ task' = [task EXCEPT ![p] = <<>>]
  /\ UNCHANGED <<scenario, stage, inv, pc, existing, history>>

Record(exit) ==
  /\ history' = Append(history, [exit |-> exit, due |-> due])
  /\ inv' = inv + 1 /\ pc' = "start" /\ task' = NoTasks /\ existing' = [p \in {} |-> Nothing]

Exit ==
  /\ pc = "create" /\ \A p \in DOMAIN task : task[p] = <<>>
  /\ Record(IF failed THEN "errors" ELSE "success")
  /\ UNCHANGED <<scenario, stage, failed, due, faults>>

Crash ==
  /\ pc \in {"drop", "create"} /\ faults < scenario.maxFaults
  /\ faults' = faults + 1 /\ Record("aborted")
  /\ UNCHANGED <<scenario, stage, failed, due>>

Idle == pc = "start" /\ inv > Len(scenario.commands) /\ UNCHANGED vars

Next == \/ Start \/ Begin \/ SubmitBatch \/ Exit \/ Crash \/ Idle
        \/ \E p \in Paths : Suggest(p) \/ Put(p) \/ Remove(p) \/ Fail(p)

Spec == Init /\ [][Next]_vars

-----------------------------------------------------------------------------
(* Properties.                                                             *)

\* The types of the variables; markers and files of the stage only.
TypeOK ==
  /\ file \in [Paths -> Contents \cup {Nothing}] /\ marker \in [Paths -> SUBSET Contents]
  /\ inv \in 1..(Len(scenario.commands) + 1) /\ pc \in {"start", "list", "drop", "create"}
  /\ DOMAIN existing \subseteq Paths /\ DOMAIN task \subseteq Paths
  /\ \A p \in DOMAIN existing : existing[p] \in Contents \cup {Nothing}
  /\ \A p \in DOMAIN task : task[p] \in Seq({"put file", "put marker", "remove"})
  /\ failed \in BOOLEAN /\ due \in BOOLEAN /\ faults \in 0..scenario.maxFaults

Finished == Len(history)
CommandOf(i) == scenario.commands[i]
Succeeded(i) == /\ history[i].exit = "success" /\ ~CommandOf(i).plan
                /\ CommandOf(i).stage # "replacement suggested"

\* After an apply that exits 0 the stage holds the files of the directory with
\* the contents they have there, whatever earlier applies left half uploaded.
SuccessMeansUploaded ==
  pc = "start" /\ Finished > 0 /\ Succeeded(Finished) => file = CommandOf(Finished).files

\* A marker is of something that was uploaded: there is no file a later apply
\* could take for uploaded without it ever having been.  An upload that fails
\* or dies half way leaves the file without the marker, not the reverse.
MarkersFollowFiles ==
  [][\A p \in Paths : marker'[p] \ marker[p] \subseteq {file[p]}]_vars

\* A content whose MD5 is listed last is recognized: after the apply that
\* uploaded it the plan does nothing.
UploadedPlanIsEmpty ==
  \A i \in 2..Finished :
    /\ Succeeded(i - 1) /\ CommandOf(i).plan /\ CommandOf(i).files = CommandOf(i - 1).files
    /\ CommandOf(i).stage = "kept"
    /\ \A p \in Paths, j \in 0..i : Content(scenario, j, p) <= Content(scenario, i, p)
    => ~history[i].due

\* The files of the stage and the directory, as a Reconciler sees them.
Current == IF pc = "start" THEN inv - 1 ELSE inv
Goal == [p \in Paths |-> Content(scenario, Current, p)]
Result == IF pc # "start" THEN "working"
          ELSE IF Finished > 0 /\ Succeeded(Finished) THEN "done" ELSE "undone"

Promise == INSTANCE Reconciler WITH
             Names <- Paths, Values <- Contents, Absent <- Nothing,
             goal <- Goal, actual <- file, result <- Result

\* The uploads, markers, listings and removals implement what a Reconciler
\* promises: an apply never puts anything but what is declared, and exits 0
\* only when all of it is there.
KeepsPromise == Promise!Spec

=============================================================================
