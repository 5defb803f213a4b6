-------------------------- MODULE StageFilesProofs --------------------------
(***************************************************************************)
(* The files of a stage, for any number of paths, contents, command lines, *)
(* failures and crashes: what exits 0 has uploaded and removed everything, *)
(* and the uploads, markers, listings and removals implement Reconciler,   *)
(* if no file gets back a content it had before another one and no file is *)
(* declared whose path begins with that of one that goes.  And the plan    *)
(* after it recognizes every file by its marker.                           *)
(***************************************************************************)
EXTENDS StageFiles, TLAPS

\* The condition: see NeverBack and PrefixSafe.
Careful == \A s \in Scenarios : NeverBack(s) /\ PrefixSafe(s)

-----------------------------------------------------------------------------
(* The inductive invariant.                                                *)

Wanted(p) == Content(scenario, inv, p)

Outcomes == [exit : {"errors", "success", "aborted"}, due : BOOLEAN]

\* There is one outcome for each invocation that ended, and between two
\* invocations there are no tasks.
Bookkeeping ==
  /\ scenario \in Scenarios
  /\ history \in Seq(Outcomes) /\ Len(history) = inv - 1
  /\ pc # "start" => inv \in 1..Len(scenario.commands)
  /\ pc \in {"start", "list"} => DOMAIN task = {}

\* Files that are not declared are removed, then all that are declared uploaded.
TasksBelongToThePhase ==
  /\ pc = "drop" => \A p \in DOMAIN task : task[p] \in {<<>>, << "remove" >>} /\ ~Declared(p)
  /\ pc = "create" =>
       /\ DOMAIN task = {p \in Paths : Declared(p)}
       /\ \A p \in DOMAIN task : task[p] \in {<<>>, Upload(p), << "put marker" >>}

\* A file has a content that was declared for it, now or before.
ContentsAreKnown ==
  \A p \in Paths :
    file[p] = Nothing \/ \E i \in 0..Current : file[p] = Content(scenario, i, p)

\* A marker is that of the file, or of a content never declared again.
OldMarkersAreHarmless ==
  \A p \in Paths : \A c \in marker[p] :
    c = file[p] \/ \A k \in Current..Len(scenario.commands) : Content(scenario, k, p) # c

\* Only files that have been declared before are removed.
DropsAreRight ==
  pc = "drop" => \A p \in DOMAIN task :
    \E i \in 0..(inv - 1) : Content(scenario, i, p) # Nothing

\* A marker follows its file.
UploadsAreRight ==
  pc = "create" /\ ~Invocation.plan => \A p \in DOMAIN task :
    task[p] = << "put marker" >> => file[p] = Wanted(p)

\* Whose marker was listed as that of the declared content has that content.
ListingIsRight ==
  pc \in {"drop", "create"} => \A p \in DOMAIN existing :
    existing[p] = Wanted(p) /\ Wanted(p) # Nothing => file[p] = Wanted(p)

\* As long as nothing failed, what is not as declared has a task to do.
NothingIsForgotten ==
  pc # "start" /\ ~failed /\ ~Invocation.plan /\ Invocation.stage # "replacement suggested" =>
    /\ pc = "list" /\ Invocation.stage = "replaced" => \A p \in Paths : file[p] = Nothing
    /\ pc \in {"drop", "create"} => \A p \in Paths :
         Wanted(p) = Nothing => file[p] = Nothing \/ (pc = "drop" /\ HasStatement(p))
    /\ pc = "create" => \A p \in Paths :
         Wanted(p) # Nothing => file[p] = Wanted(p) \/ HasStatement(p)

StageInv ==
  /\ ContentsAreKnown /\ OldMarkersAreHarmless
  /\ DropsAreRight /\ UploadsAreRight /\ ListingIsRight
  /\ NothingIsForgotten /\ SuccessMeansUploaded

-----------------------------------------------------------------------------
(* What is used of scenarios and markers.                                  *)

LEMMA CommandTypes ==
  ASSUME NEW s \in Scenarios
  PROVE  /\ s.file \in [Paths -> Contents \cup {Nothing}]
         /\ Len(s.commands) \in Nat /\ s.maxFaults \in Nat
         /\ \A i \in 1..Len(s.commands) :
              /\ s.commands[i] \in Command
              /\ s.commands[i].files \in [Paths -> Contents \cup {Nothing}]
              /\ s.commands[i].plan \in BOOLEAN
<1>1. s \in ScenarioRecords
  BY StageScenarioAssumption
<1>2. s.commands \in Seq(Command)
  BY <1>1 DEF ScenarioRecords
<1>3. Len(s.commands) \in Nat /\ \A i \in 1..Len(s.commands) : s.commands[i] \in Command
  BY <1>2
<1>4. s.file \in [Paths -> Contents \cup {Nothing}] /\ s.maxFaults \in Nat
  BY <1>1 DEF ScenarioRecords
<1>5. \A c \in Command : /\ c.files \in [Paths -> Contents \cup {Nothing}]
                         /\ c.plan \in BOOLEAN
  BY DEF Command
<1> QED
  BY <1>3, <1>4, <1>5

LEMMA ContentTypes ==
  ASSUME NEW s \in Scenarios, NEW i \in 0..Len(s.commands), NEW p \in Paths
  PROVE  Content(s, i, p) \in Contents \cup {Nothing}
<1>1. i # 0 => i \in 1..Len(s.commands)
  BY CommandTypes
<1> QED
  BY <1>1, CommandTypes DEF Content

\* The marker that counts is one of the path's.
LEMMA ListedIsAMarker ==
  ASSUME NEW p \in Paths, marker \in [Paths -> SUBSET Contents]
  PROVE  Listed(p) \in marker[p] \cup {Nothing}
<1>1. CASE marker[p] = {}
  BY <1>1 DEF Listed
<1>2. CASE marker[p] # {}
  <2>1. PICK c \in marker[p] : \A d \in marker[p] : d <= c
    BY <1>2, StageAssumption
  <2>2. marker[p] \subseteq Nat
    BY StageAssumption
  <2>3. \A d \in marker[p] : c >= d
    BY <2>1, <2>2
  <2>4. Max(marker[p]) \in marker[p]
    BY <2>1, <2>3 DEF Max
  <2> QED
    BY <1>2, <2>4 DEF Listed
<1> QED
  BY <1>1, <1>2

-----------------------------------------------------------------------------
\* The statements of a task are done from the first to the last.
LEMMA TailOfPair == ASSUME NEW x, NEW y PROVE Tail(<< x, y >>) = << y >>
  OBVIOUS

LEMMA TailOfOne == ASSUME NEW x PROVE Tail(<< x >>) = <<>>
  OBVIOUS

LEMMA Tasks ==
  ASSUME NEW p
  PROVE  /\ Tail(Upload(p)) = << "put marker" >> /\ Head(Upload(p)) = "put file"
         /\ Tail(<< "put marker" >>) = <<>> /\ Head(<< "put marker" >>) = "put marker"
         /\ Tail(<< "remove" >>) = <<>> /\ Head(<< "remove" >>) = "remove"
         /\ Upload(p) \notin {<<>>, << "remove" >>, << "put marker" >>}
         /\ << "put marker" >> \notin {<<>>, << "remove" >>}
         /\ << "remove" >> # <<>>
<1>1. Tail(Upload(p)) = << "put marker" >>
  BY TailOfPair DEF Upload
<1>2. Head(Upload(p)) = "put file"
  BY DEF Upload
<1>3. Tail(<< "put marker" >>) = <<>> /\ Tail(<< "remove" >>) = <<>>
  BY TailOfOne
<1>4. Head(<< "put marker" >>) = "put marker" /\ Head(<< "remove" >>) = "remove"
  OBVIOUS
<1>5. Upload(p) \notin {<<>>, << "remove" >>, << "put marker" >>}
  BY DEF Upload
<1>6. << "put marker" >> \notin {<<>>, << "remove" >>} /\ << "remove" >> # <<>>
  OBVIOUS
<1> QED
  BY <1>1, <1>2, <1>3, <1>4, <1>5, <1>6

\* The variables keep their types, the history its length, and tasks belong to
\* the phase (every step of StageFiles).
Typed == TypeOK /\ Bookkeeping /\ TasksBelongToThePhase

Statements == {"put file", "put marker", "remove"}

LEMMA TypedInit == ASSUME Init PROVE Typed
<1> USE DEF Nothing, NoTasks
<1>1. /\ scenario \in Scenarios /\ scenario.file \in [Paths -> Contents \cup {0}]
      /\ Len(scenario.commands) \in Nat /\ scenario.maxFaults \in Nat
  BY CommandTypes DEF Init
<1>2. marker \in [Paths -> SUBSET Contents]
  BY <1>1 DEF Init
<1>3. 1 \in 1..(Len(scenario.commands) + 1) /\ 0 \in 0..scenario.maxFaults
  BY <1>1
<1>4. TypeOK
  BY <1>1, <1>2, <1>3 DEF Init, TypeOK
<1>5. <<>> \in Seq(Outcomes) /\ Len(<<>>) = 0
  OBVIOUS
<1> QED
  BY <1>1, <1>4, <1>5 DEF Init, Typed, Bookkeeping, TasksBelongToThePhase

\* An invocation is over, for one reason or the other.
LEMMA TypedRecord ==
  ASSUME Typed, pc # "start", UNCHANGED <<scenario, stage, failed, due>>,
         faults' \in 0..scenario.maxFaults,
         NEW exit \in {"errors", "success", "aborted"}, Record(exit)
  PROVE  Typed'
<1> USE DEF Nothing, NoTasks
<1>1. /\ history' = Append(history, [exit |-> exit, due |-> due])
      /\ inv' = inv + 1 /\ pc' = "start" /\ DOMAIN task' = {} /\ DOMAIN existing' = {}
  BY DEF Record
<1>2. /\ scenario \in Scenarios /\ Len(scenario.commands) \in Nat
      /\ inv \in 1..Len(scenario.commands) /\ Len(history) = inv - 1
  BY CommandTypes DEF Typed, Bookkeeping
<1>3. [exit |-> exit, due |-> due] \in Outcomes
  BY DEF Typed, TypeOK, Outcomes
<1>4. history' \in Seq(Outcomes) /\ Len(history') = Len(history) + 1
  BY <1>1, <1>3 DEF Typed, Bookkeeping
<1>5. inv' \in 1..(Len(scenario.commands) + 1) /\ Len(history') = inv' - 1
  BY <1>1, <1>2, <1>4
<1>6. UNCHANGED <<scenario, file, marker, failed, due>>
  BY DEF stage
<1>7. TypeOK'
  BY <1>1, <1>5, <1>6 DEF Typed, TypeOK
<1> QED
  BY <1>1, <1>2, <1>4, <1>5, <1>7 DEF Typed, Bookkeeping, TasksBelongToThePhase

\* A worker does the next statement of its task, or fails.
LEMMA WorkerStep ==
  ASSUME Typed, NEW p \in Paths, Suggest(p) \/ Put(p) \/ Remove(p) \/ Fail(p)
  PROVE  /\ p \in DOMAIN task /\ pc \in {"drop", "create"}
         /\ UNCHANGED <<scenario, inv, pc, existing, history>>
         /\ pc = "create" => Declared(p) /\ task[p] \in {Upload(p), << "put marker" >>}
         /\ pc = "drop" => ~Declared(p) /\ task[p] = << "remove" >>
         /\ DOMAIN task' = DOMAIN task
         /\ \A q \in DOMAIN task \ {p} : task'[q] = task[q]
         /\ \/ task'[p] = <<>>
            \/ task[p] = Upload(p) /\ task'[p] = << "put marker" >>
<1>1. /\ p \in DOMAIN task /\ task[p] # <<>> /\ pc \in {"drop", "create"}
      /\ UNCHANGED <<scenario, inv, pc, existing, history>>
  BY DEF Suggest, Put, Remove, Fail, HasStatement, Typed, Bookkeeping, TypeOK
<1>2. /\ pc = "create" => Declared(p) /\ task[p] \in {Upload(p), << "put marker" >>}
      /\ pc = "drop" => ~Declared(p) /\ task[p] = << "remove" >>
  <2>1. CASE pc = "drop"
    BY <1>1, <2>1 DEF Typed, TasksBelongToThePhase
  <2>2. CASE pc = "create"
    BY <1>1, <2>2, Tasks DEF Typed, TasksBelongToThePhase
  <2> QED
    BY <1>1, <2>1, <2>2
<1>3. task' = [task EXCEPT ![p] = Tail(@)] \/ task' = [task EXCEPT ![p] = <<>>]
  BY DEF Suggest, Put, Remove, Fail, Advance
<1>4. /\ DOMAIN task' = DOMAIN task /\ \A q \in DOMAIN task \ {p} : task'[q] = task[q]
      /\ \/ task'[p] = <<>>
         \/ task[p] = Upload(p) /\ task'[p] = << "put marker" >>
  BY <1>1, <1>2, <1>3, Tasks
<1> QED
  BY <1>1, <1>2, <1>4

LEMMA TypedStep == ASSUME Typed, [Next]_vars PROVE Typed'
<1> USE DEF Nothing, NoTasks
<1>0. /\ faults \in 0..scenario.maxFaults
      /\ failed \in BOOLEAN /\ due \in BOOLEAN
  BY DEF Typed, TypeOK
<1>1. /\ scenario \in Scenarios /\ scenario' = scenario
      /\ Len(scenario.commands) \in Nat /\ scenario.maxFaults \in Nat
      /\ inv \in 1..(Len(scenario.commands) + 1)
  BY CommandTypes DEF Typed, TypeOK, Bookkeeping, Next, vars, Idle, Start, Begin, SubmitBatch,
     Exit, Crash, Suggest, Put, Remove, Fail
<1>2. pc # "start" => Invocation.files \in [Paths -> Contents \cup {0}]
  BY <1>1, CommandTypes DEF Typed, Bookkeeping, Invocation
<1>3. CASE UNCHANGED vars
  BY <1>3 DEF vars, stage, Typed, TypeOK, Bookkeeping, TasksBelongToThePhase, Declared,
     Invocation, Upload
<1>4. CASE Start
  <2>1. file' \in [Paths -> Contents \cup {0}] /\ marker' \in [Paths -> SUBSET Contents]
    BY <1>4 DEF Start, Typed, TypeOK, stage
  <2>2. DOMAIN task = {} /\ inv \in 1..Len(scenario.commands)
    BY <1>1, <1>4 DEF Start, Typed, Bookkeeping
  <2>3. TypeOK'
    BY <1>1, <1>4, <2>1 DEF Start, Typed, TypeOK
  <2> QED
    BY <1>1, <1>4, <2>2, <2>3 DEF Start, Typed, Bookkeeping, TasksBelongToThePhase
<1>5. CASE Begin
  <2>1. /\ DOMAIN existing' \subseteq Paths
        /\ \A p \in DOMAIN existing' : existing'[p] \in Contents \cup {0}
    BY <1>5, ListedIsAMarker DEF Begin, Typed, TypeOK
  <2>2. /\ DOMAIN task' \subseteq Paths
        /\ \A p \in DOMAIN task' : task'[p] = << "remove" >> /\ ~Declared(p)
    BY <1>5, <2>1 DEF Begin, DropTargets
  <2>3. << "remove" >> \in Seq(Statements)
    BY DEF Statements
  <2>4. TypeOK'
    BY <1>1, <1>5, <2>1, <2>2, <2>3 DEF Begin, Typed, TypeOK, stage, Statements
  <2> QED
    BY <1>1, <1>5, <2>2, <2>4 DEF Begin, Typed, Bookkeeping, TasksBelongToThePhase,
       Declared, Invocation
<1>6. CASE SubmitBatch
  <2>1. /\ DOMAIN task' = {p \in Paths : Declared(p)}
        /\ \A p \in DOMAIN task' : task'[p] \in {<<>>, Upload(p)}
    BY <1>6 DEF SubmitBatch, CreateOrCompare
  <2>2. <<>> \in Seq(Statements) /\ << "put file", "put marker" >> \in Seq(Statements)
    BY DEF Statements
  <2>3. TypeOK'
    BY <1>1, <1>6, <2>1, <2>2 DEF SubmitBatch, Typed, TypeOK, stage, Statements, Upload
  <2> QED
    BY <1>1, <1>6, <2>1, <2>3 DEF SubmitBatch, Typed, Bookkeeping, TasksBelongToThePhase,
       Declared, Invocation, Upload
<1>7. CASE Exit
  <2>1. PICK exit \in {"errors", "success", "aborted"} : Record(exit)
    BY <1>7 DEF Exit
  <2> QED
    BY <1>7, <2>1, TypedRecord DEF Exit, Typed, TypeOK
<1>8. CASE Crash
  <2>1. faults' \in 0..scenario.maxFaults
    BY <1>0, <1>1, <1>8 DEF Crash
  <2> QED
    BY <1>8, <2>1, TypedRecord DEF Crash
<1>9. ASSUME NEW p \in Paths, Suggest(p) \/ Put(p) \/ Remove(p) \/ Fail(p)
      PROVE  Typed'
  <2>1. /\ p \in DOMAIN task /\ pc \in {"drop", "create"}
        /\ UNCHANGED <<scenario, inv, pc, existing, history>>
    BY <1>9, WorkerStep
  <2>2. /\ pc = "create" => Declared(p) /\ task[p] \in {Upload(p), << "put marker" >>}
        /\ pc = "drop" => ~Declared(p) /\ task[p] = << "remove" >>
    BY <1>9, WorkerStep
  <2>3. /\ DOMAIN task' = DOMAIN task /\ \A q \in DOMAIN task \ {p} : task'[q] = task[q]
        /\ \/ task'[p] = <<>>
           \/ task[p] = Upload(p) /\ task'[p] = << "put marker" >>
    BY <1>9, WorkerStep
  <2>4. <<>> \in Seq(Statements) /\ << "put marker" >> \in Seq(Statements)
    BY DEF Statements
  <2>5. \A q \in DOMAIN task' : task'[q] \in Seq(Statements)
    BY <2>3, <2>4 DEF Typed, TypeOK, Statements
  <2>6. failed' \in BOOLEAN /\ due' \in BOOLEAN
    BY <1>9 DEF Suggest, Put, Remove, Fail, Advance, Typed, TypeOK
  <2>7. faults' \in 0..scenario.maxFaults
    <3>1. faults' = faults \/ (faults < scenario.maxFaults /\ faults' = faults + 1)
      BY <1>9 DEF Suggest, Put, Remove, Fail
    <3> QED
      BY <1>0, <1>1, <3>1
  <2>8. file' \in [Paths -> Contents \cup {0}]
    BY <1>2, <1>9, <2>1 DEF Suggest, Put, Remove, Fail, Typed, TypeOK, stage
  <2>9. marker' \in [Paths -> SUBSET Contents]
    <3>1. CASE UNCHANGED marker
      BY <3>1 DEF Typed, TypeOK
    <3>2. CASE Remove(p)
      BY <3>2 DEF Remove, Typed, TypeOK
    <3>3. CASE marker' = [marker EXCEPT ![p] = @ \cup {Invocation.files[p]}] /\ Put(p)
      <4>1. Declared(p)
        BY <2>1, <2>2, <3>3, Tasks DEF Put
      <4>2. Invocation.files[p] \in Contents
        BY <1>2, <2>1, <4>1 DEF Declared
      <4> QED
        BY <3>3, <4>2 DEF Typed, TypeOK
    <3> QED
      BY <1>9, <3>1, <3>2, <3>3 DEF Suggest, Put, Fail, stage
  <2>10. TypeOK'
    BY <1>1, <2>1, <2>3, <2>5, <2>6, <2>7, <2>8, <2>9 DEF Typed, TypeOK, Statements
  <2>11. Bookkeeping'
    BY <1>1, <2>1 DEF Typed, Bookkeeping
  <2>12. TasksBelongToThePhase'
    <3>1. \A q \in Paths : Declared(q)' = Declared(q)
      BY <2>1 DEF Declared, Invocation
    <3>2. CASE pc = "drop"
      <4>1. task'[p] = <<>>
        BY <2>2, <2>3, <3>2, Tasks
      <4> QED
        BY <2>1, <2>2, <2>3, <3>1, <3>2, <4>1 DEF Typed, TypeOK, TasksBelongToThePhase
    <3>3. CASE pc = "create"
      <4>1. task'[p] \in {<<>>, Upload(p), << "put marker" >>}
        BY <2>3
      <4> QED
        BY <2>1, <2>3, <3>1, <3>3, <4>1 DEF Typed, TasksBelongToThePhase, Upload
    <3> QED
      BY <2>1, <3>2, <3>3
  <2> QED
    BY <2>10, <2>11, <2>12 DEF Typed
<1> QED
  BY <1>3, <1>4, <1>5, <1>6, <1>7, <1>8, <1>9 DEF Next, Idle

\* Files and markers are those of the stage's paths, and an invocation, its
\* tasks and its listing keep their types (every step of StageFiles).
THEOREM TypeCorrect == Spec => []TypeOK
<1>1. Typed /\ [Next]_vars => Typed'
  BY TypedStep
<1>2. Typed => TypeOK
  BY DEF Typed
<1> QED
  BY TypedInit, <1>1, <1>2, PTL DEF Spec

-----------------------------------------------------------------------------
(* The invariant holds at first, and every action preserves it.            *)

LEMMA WantedIsDeclared ==
  ASSUME Typed, pc # "start", NEW p \in Paths
  PROVE  /\ scenario \in Scenarios /\ inv \in 1..Len(scenario.commands)
         /\ Len(scenario.commands) \in Nat /\ Current = inv
         /\ Wanted(p) = Invocation.files[p] /\ (Declared(p) <=> Wanted(p) # Nothing)
         /\ Wanted(p) \in Contents \cup {Nothing}
<1>1. /\ scenario \in Scenarios /\ inv \in 1..Len(scenario.commands)
      /\ Len(scenario.commands) \in Nat
  BY CommandTypes DEF Typed, Bookkeeping
<1>2. inv # 0 /\ inv \in 0..Len(scenario.commands)
  BY <1>1
<1>3. Wanted(p) = Invocation.files[p]
  BY <1>2 DEF Wanted, Content, Invocation
<1>4. Wanted(p) \in Contents \cup {Nothing}
  BY <1>1, <1>2, ContentTypes DEF Wanted
<1> QED
  BY <1>1, <1>3, <1>4 DEF Declared, Current

\* A content a file had before it got the declared one is not declared again.
LEMMA NotAgain ==
  ASSUME Typed, Careful, pc # "start", NEW p \in Paths,
         NEW i \in 0..inv, NEW k \in inv..Len(scenario.commands),
         Wanted(p) # Nothing, Content(scenario, i, p) # Wanted(p),
         Content(scenario, i, p) # Nothing
  PROVE  Content(scenario, k, p) # Content(scenario, i, p)
<1> SUFFICES ASSUME Content(scenario, k, p) = Content(scenario, i, p) PROVE FALSE
  OBVIOUS
<1>1. /\ scenario \in Scenarios /\ inv \in 1..Len(scenario.commands)
      /\ Len(scenario.commands) \in Nat
  BY WantedIsDeclared
<1>2. i # inv /\ k # inv
  BY DEF Wanted
<1>3. i < inv /\ inv < k /\ {i, inv, k} \subseteq 0..Len(scenario.commands)
  BY <1>1, <1>2
<1>4. NeverBack(scenario)
  BY <1>1 DEF Careful
<1>5. Content(scenario, inv, p) \in {Content(scenario, k, p), Nothing}
  BY <1>3, <1>4 DEF NeverBack
<1> QED
  BY <1>5 DEF Wanted

\* What goes together with a file that is removed is not declared either.
LEMMA RemovedIsUndeclared ==
  ASSUME Typed, Careful, DropsAreRight, pc = "drop", NEW p \in DOMAIN task, ~Declared(p),
         NEW q \in {p} \cup Extends[p]
  PROVE  Wanted(q) = Nothing
<1>1. p \in Paths
  BY DEF Typed, TypeOK
<1>2. /\ scenario \in Scenarios /\ inv \in 1..Len(scenario.commands)
      /\ Len(scenario.commands) \in Nat /\ Wanted(p) = Nothing
  BY <1>1, WantedIsDeclared
<1>3. PICK i \in 0..(inv - 1) : Content(scenario, i, p) # Nothing
  BY DEF DropsAreRight
<1>4. i < inv /\ {i, inv} \subseteq 0..Len(scenario.commands)
  BY <1>2
<1>5. PrefixSafe(scenario)
  BY <1>2 DEF Careful
<1>6. \A r \in Extends[p] : Content(scenario, inv, r) = Nothing
  BY <1>1, <1>2, <1>3, <1>4, <1>5 DEF PrefixSafe, Wanted
<1> QED
  BY <1>2, <1>6 DEF Wanted

LEMMA StageInvInit == ASSUME Init PROVE StageInv
<1>1. Typed
  BY TypedInit
<1>2. /\ pc = "start" /\ inv = 1 /\ file = scenario.file /\ history = <<>>
      /\ marker = [p \in Paths |-> {file[p]} \ {Nothing}]
  BY DEF Init
<1>3. Current = 0
  BY <1>2 DEF Current
<1>4. ContentsAreKnown
  BY <1>2, <1>3 DEF ContentsAreKnown, Content
<1>5. OldMarkersAreHarmless
  BY <1>2 DEF OldMarkersAreHarmless
<1>6. ~(Len(<<>>) > 0)
  OBVIOUS
<1>7. SuccessMeansUploaded
  BY <1>2, <1>6 DEF SuccessMeansUploaded, Finished
<1> QED
  BY <1>2, <1>4, <1>5, <1>7 DEF StageInv, DropsAreRight, UploadsAreRight, ListingIsRight,
     NothingIsForgotten

LEMMA StageInvStart == ASSUME Typed, StageInv, Start PROVE StageInv'
<1>1. /\ pc = "start" /\ pc' = "list" /\ UNCHANGED <<scenario, inv>>
      /\ scenario \in Scenarios /\ Len(scenario.commands) \in Nat
      /\ inv \in 1..(Len(scenario.commands) + 1)
  BY CommandTypes DEF Start, Typed, Bookkeeping, TypeOK
<1>2. Current = inv - 1 /\ Current' = inv
  BY <1>1 DEF Current
<1>3. \A p \in Paths : /\ file'[p] \in {file[p], Nothing}
                       /\ marker'[p] = {} \/ (marker'[p] = marker[p] /\ file'[p] = file[p])
  BY DEF Start, stage
<1>4. ContentsAreKnown'
  BY <1>1, <1>2, <1>3 DEF StageInv, ContentsAreKnown
<1>5. OldMarkersAreHarmless'
  BY <1>1, <1>2, <1>3 DEF StageInv, OldMarkersAreHarmless
<1>6. NothingIsForgotten'
  BY <1>1 DEF Start, NothingIsForgotten, Invocation
<1> QED
  BY <1>1, <1>4, <1>5, <1>6 DEF StageInv, DropsAreRight, UploadsAreRight, ListingIsRight,
     SuccessMeansUploaded

LEMMA StageInvBegin == ASSUME Typed, StageInv, Begin PROVE StageInv'
<1>1. /\ pc = "list" /\ pc' = "drop" /\ UNCHANGED <<scenario, file, marker, inv, failed>>
  BY DEF Begin, stage
<1>2. /\ inv \in 1..Len(scenario.commands) /\ Len(scenario.commands) \in Nat
      /\ Current = inv /\ Current' = inv
      /\ marker \in [Paths -> SUBSET Contents]
  BY <1>1, CommandTypes DEF Typed, TypeOK, Bookkeeping, Current
<1>3. /\ DOMAIN existing' = {p \in Paths : file[p] # Nothing}
      /\ \A p \in DOMAIN existing' : existing'[p] = Listed(p)
  BY DEF Begin
<1>4. /\ DOMAIN task' = IF Invocation.stage = "kept"
                        THEN {p \in Paths : file[p] # Nothing /\ ~Declared(p)} ELSE {}
      /\ \A p \in DOMAIN task' : task'[p] = << "remove" >>
  BY <1>3 DEF Begin, DropTargets
<1>5. \A p \in Paths : Wanted(p)' = Wanted(p) /\ (Declared(p) <=> Wanted(p) # Nothing)
  BY <1>1, WantedIsDeclared DEF Wanted
<1>6. DropsAreRight'
  <2> SUFFICES ASSUME NEW p \in DOMAIN task'
               PROVE  \E i \in 0..(inv - 1) : Content(scenario, i, p) # Nothing
    BY <1>1 DEF DropsAreRight
  <2>1. p \in Paths /\ file[p] # Nothing /\ Wanted(p) = Nothing
    BY <1>4, <1>5
  <2>2. PICK i \in 0..inv : file[p] = Content(scenario, i, p)
    BY <1>2, <2>1 DEF StageInv, ContentsAreKnown
  <2>3. i # inv
    BY <2>1, <2>2 DEF Wanted
  <2> QED
    BY <1>2, <2>1, <2>2, <2>3
<1>7. ListingIsRight'
  <2> SUFFICES ASSUME NEW p \in DOMAIN existing', Listed(p) = Wanted(p), Wanted(p) # Nothing
               PROVE  file[p] = Wanted(p)
    BY <1>1, <1>3, <1>5 DEF ListingIsRight
  <2>1. p \in Paths /\ Wanted(p) \in marker[p]
    BY <1>2, <1>3, ListedIsAMarker
  <2> QED
    BY <1>2, <2>1 DEF StageInv, OldMarkersAreHarmless, Wanted
<1>8. NothingIsForgotten'
  <2> SUFFICES ASSUME ~failed, ~Invocation.plan, Invocation.stage # "replacement suggested",
                      NEW p \in Paths, Wanted(p) = Nothing, file[p] # Nothing
               PROVE  HasStatement(p)'
    BY <1>1, <1>5 DEF NothingIsForgotten, Invocation
  <2>1. Invocation.stage # "replaced"
    BY <1>1 DEF StageInv, NothingIsForgotten
  <2>2. Invocation.stage = "kept"
    <3>1. Invocation \in Command
      BY <1>2, CommandTypes DEF Invocation, Typed, Bookkeeping
    <3> QED
      BY <2>1, <3>1 DEF Command
  <2> QED
    BY <1>4, <1>5, <2>2, Tasks DEF HasStatement
<1>9. ContentsAreKnown' /\ OldMarkersAreHarmless'
  BY <1>1, <1>2 DEF StageInv, ContentsAreKnown, OldMarkersAreHarmless
<1> QED
  BY <1>1, <1>6, <1>7, <1>8, <1>9 DEF StageInv, UploadsAreRight, SuccessMeansUploaded

LEMMA StageInvSubmit == ASSUME Typed, StageInv, SubmitBatch PROVE StageInv'
<1>1. /\ pc = "drop" /\ pc' = "create"
      /\ UNCHANGED <<scenario, file, marker, inv, existing, failed>>
      /\ \A p \in DOMAIN task : task[p] = <<>>
      /\ DOMAIN task' = {p \in Paths : Declared(p)}
      /\ \A p \in DOMAIN task' : task'[p] = CreateOrCompare(p)
  BY DEF SubmitBatch, stage
<1>2. /\ Current = inv /\ Current' = inv
      /\ \A p \in Paths : /\ Wanted(p)' = Wanted(p) /\ Wanted(p) = Invocation.files[p]
                          /\ Declared(p) <=> Wanted(p) # Nothing
  BY <1>1, WantedIsDeclared DEF Wanted, Current
<1>3. UploadsAreRight'
  BY <1>1, Tasks DEF UploadsAreRight, CreateOrCompare
<1>4. NothingIsForgotten'
  <2> SUFFICES ASSUME ~failed, ~Invocation.plan, Invocation.stage # "replacement suggested",
                      NEW p \in Paths
               PROVE  /\ Wanted(p) = Nothing => file[p] = Nothing
                      /\ Wanted(p) # Nothing => file[p] = Wanted(p) \/ HasStatement(p)'
    BY <1>1, <1>2 DEF NothingIsForgotten, Invocation
  <2>1. CASE Wanted(p) = Nothing
    BY <1>1, <2>1 DEF StageInv, NothingIsForgotten, HasStatement
  <2>2. CASE Wanted(p) # Nothing
    <3>1. p \in DOMAIN task' /\ task'[p] = CreateOrCompare(p)
      BY <1>1, <1>2, <2>2
    <3>2. CASE p \in DOMAIN existing /\ existing[p] = Wanted(p)
      BY <1>1, <2>2, <3>2 DEF StageInv, ListingIsRight
    <3>3. CASE ~(p \in DOMAIN existing /\ existing[p] = Wanted(p))
      <4>1. task'[p] = Upload(p)
        BY <1>2, <3>1, <3>3 DEF CreateOrCompare
      <4> QED
        BY <2>2, <3>1, <4>1, Tasks DEF HasStatement
    <3> QED
      BY <3>2, <3>3
  <2> QED
    BY <2>1, <2>2
<1>5. ContentsAreKnown' /\ OldMarkersAreHarmless'
  BY <1>1, <1>2 DEF StageInv, ContentsAreKnown, OldMarkersAreHarmless
<1>6. ListingIsRight'
  BY <1>1 DEF StageInv, ListingIsRight, Wanted
<1> QED
  BY <1>1, <1>3, <1>4, <1>5, <1>6 DEF StageInv, DropsAreRight, SuccessMeansUploaded

LEMMA StageInvRecord == ASSUME Typed, StageInv, Exit \/ Crash PROVE StageInv'
<1>1. PICK outcome : Record(outcome) /\ (outcome = "success" => Exit /\ ~failed)
  BY DEF Exit, Crash
<1>2. /\ pc' = "start" /\ inv' = inv + 1 /\ UNCHANGED <<scenario, file, marker>>
      /\ history' = Append(history, [exit |-> outcome, due |-> due]) /\ pc # "start"
  BY <1>1 DEF Record, Exit, Crash, stage
<1>3. /\ inv \in 1..Len(scenario.commands) /\ Len(scenario.commands) \in Nat
      /\ history \in Seq(Outcomes) /\ Len(history) = inv - 1 /\ scenario \in Scenarios
  BY <1>2, CommandTypes DEF Typed, Bookkeeping
<1>4. Current = inv /\ Current' = inv
  BY <1>2, <1>3 DEF Current
<1>5. Len(history') = inv /\ history'[inv] = [exit |-> outcome, due |-> due]
  BY <1>2, <1>3
<1>6. ContentsAreKnown' /\ OldMarkersAreHarmless'
  BY <1>2, <1>4 DEF StageInv, ContentsAreKnown, OldMarkersAreHarmless
<1>7. SuccessMeansUploaded'
  <2> SUFFICES ASSUME outcome = "success", ~Invocation.plan,
                      Invocation.stage # "replacement suggested"
               PROVE  file = Invocation.files
    <3>1. Finished' = inv
      BY <1>5 DEF Finished
    <3>2. CommandOf(Finished)' = Invocation
      BY <1>2, <3>1 DEF CommandOf, Invocation
    <3>3. history'[inv].exit = outcome
      <4>1. [exit |-> outcome, due |-> due].exit = outcome
        OBVIOUS
      <4> QED
        BY <1>5, <4>1, Zenon
    <3>4. Succeeded(Finished)' => /\ outcome = "success" /\ ~Invocation.plan
                                  /\ Invocation.stage # "replacement suggested"
      BY <3>1, <3>2, <3>3 DEF Succeeded
    <3> QED
      BY <1>2, <3>2, <3>4 DEF SuccessMeansUploaded
  <2>2. /\ ~failed /\ pc = "create" /\ \A p \in DOMAIN task : task[p] = <<>>
    BY <1>1 DEF Exit
  <2>3. ASSUME NEW p \in Paths PROVE file[p] = Invocation.files[p]
    <3>1. Wanted(p) = Invocation.files[p]
      BY <1>2, WantedIsDeclared
    <3>2. ~HasStatement(p)
      BY <2>2 DEF HasStatement
    <3> QED
      BY <1>2, <2>2, <3>1, <3>2 DEF StageInv, NothingIsForgotten
  <2>4. Invocation.files \in [Paths -> Contents \cup {Nothing}]
    BY <1>3, CommandTypes DEF Invocation
  <2>5. file \in [Paths -> Contents \cup {Nothing}]
    BY DEF Typed, TypeOK
  <2>6. /\ file = [p \in Paths |-> file[p]]
        /\ Invocation.files = [p \in Paths |-> Invocation.files[p]]
    BY <2>4, <2>5
  <2>7. [p \in Paths |-> file[p]] = [p \in Paths |-> Invocation.files[p]]
    BY <2>3
  <2> QED
    BY <2>6, <2>7
<1> QED
  BY <1>2, <1>6, <1>7 DEF StageInv, DropsAreRight, UploadsAreRight, ListingIsRight,
     NothingIsForgotten

\* What one step of a worker does to the stage.
LEMMA StageOfWorker ==
  ASSUME Typed, StageInv, Careful, NEW p \in Paths,
         Suggest(p) \/ Put(p) \/ Remove(p) \/ Fail(p)
  PROVE  \/ UNCHANGED stage /\ (Invocation.plan \/ (failed' /\ task'[p] = <<>>))
         \/ /\ pc = "create" /\ ~Invocation.plan /\ Declared(p) /\ task'[p] = << "put marker" >>
            /\ file' = [file EXCEPT ![p] = Wanted(p)] /\ marker' = marker /\ failed' = failed
         \/ /\ pc = "create" /\ ~Invocation.plan /\ Declared(p) /\ task'[p] = <<>>
            /\ file[p] = Wanted(p) /\ file' = file /\ failed' = failed
            /\ marker' = [marker EXCEPT ![p] = @ \cup {Wanted(p)}]
         \/ /\ pc = "drop" /\ ~Invocation.plan /\ task'[p] = <<>> /\ failed' = failed
            /\ \A q \in Paths : \/ file'[q] = file[q] /\ marker'[q] = marker[q]
                                \/ Wanted(q) = Nothing /\ file'[q] = Nothing /\ marker'[q] = {}
            /\ file'[p] = Nothing
<1>1. /\ p \in DOMAIN task /\ pc \in {"drop", "create"}
      /\ pc = "create" => Declared(p) /\ task[p] \in {Upload(p), << "put marker" >>}
      /\ pc = "drop" => ~Declared(p) /\ task[p] = << "remove" >>
  BY WorkerStep
<1>2. Invocation.files[p] = Wanted(p)
  BY <1>1, WantedIsDeclared
<1>3. CASE Suggest(p) \/ Fail(p)
  BY <1>1, <1>3 DEF Suggest, Fail
<1>4. CASE Put(p)
  <2>1. /\ ~Invocation.plan /\ failed' = failed /\ task' = [task EXCEPT ![p] = Tail(@)]
    BY <1>4 DEF Put, Advance
  <2>2. Head(task[p]) \in {"put file", "put marker"}
    BY <1>4 DEF Put
  <2>3. pc = "create" /\ Declared(p)
    BY <1>1, <2>2, Tasks
  <2>4. task'[p] = Tail(task[p])
    BY <1>1, <2>1
  <2>5. CASE task[p] = Upload(p)
    <3>1. Head(task[p]) = "put file" /\ task'[p] = << "put marker" >>
      BY <2>4, <2>5, Tasks
    <3>2. file' = [file EXCEPT ![p] = Wanted(p)] /\ marker' = marker
      BY <1>2, <1>4, <3>1 DEF Put
    <3> QED
      BY <2>1, <2>3, <3>1, <3>2
  <2>6. CASE task[p] = << "put marker" >>
    <3>1. Head(task[p]) = "put marker" /\ task'[p] = <<>>
      BY <2>4, <2>6, Tasks
    <3>2. marker' = [marker EXCEPT ![p] = @ \cup {Wanted(p)}] /\ file' = file
      BY <1>2, <1>4, <3>1 DEF Put
    <3>3. file[p] = Wanted(p)
      BY <1>1, <2>1, <2>3, <2>6 DEF StageInv, UploadsAreRight
    <3> QED
      BY <2>1, <2>3, <3>1, <3>2, <3>3
  <2> QED
    BY <1>1, <2>3, <2>5, <2>6
<1>5. CASE Remove(p)
  <2>1. /\ ~Invocation.plan /\ failed' = failed /\ task' = [task EXCEPT ![p] = Tail(@)]
        /\ Head(task[p]) = "remove"
    BY <1>5 DEF Remove, Advance
  <2>2. pc = "drop" /\ ~Declared(p) /\ task[p] = << "remove" >>
    BY <1>1, <2>1, Tasks
  <2>3. task'[p] = <<>>
    BY <1>1, <2>1, <2>2, Tasks
  <2>4. \A q \in {p} \cup Extends[p] : Wanted(q) = Nothing
    BY <1>1, <2>2, RemovedIsUndeclared DEF StageInv
  <2>5. \A q \in Paths : IF q \in {p} \cup Extends[p] THEN file'[q] = Nothing /\ marker'[q] = {}
                         ELSE file'[q] = file[q] /\ marker'[q] = marker[q]
    BY <1>5 DEF Remove
  <2>6. \A q \in Paths : \/ file'[q] = file[q] /\ marker'[q] = marker[q]
                         \/ Wanted(q) = Nothing /\ file'[q] = Nothing /\ marker'[q] = {}
    BY <2>4, <2>5
  <2>7. file'[p] = Nothing
    BY <2>5
  <2> QED
    BY <2>1, <2>2, <2>3, <2>6, <2>7
<1> QED
  BY <1>3, <1>4, <1>5

\* A marker follows its file, whatever the worker of another path does.
LEMMA UploadsStayRight ==
  ASSUME UploadsAreRight, NEW p \in Paths, DOMAIN task \subseteq Paths,
         Invocation' = Invocation, pc' = pc, DOMAIN task' = DOMAIN task,
         \A q \in Paths : Wanted(q)' = Wanted(q),
         \A q \in DOMAIN task \ {p} : task'[q] = task[q],
         pc = "create" => \A q \in Paths \ {p} : file'[q] = file[q],
         task'[p] = << "put marker" >> => Invocation.plan \/ file'[p] = Wanted(p)
  PROVE  UploadsAreRight'
<1> SUFFICES ASSUME pc = "create", ~Invocation.plan, NEW q \in DOMAIN task,
                    task'[q] = << "put marker" >>
             PROVE  file'[q] = Wanted(q)
  BY DEF UploadsAreRight
<1>1. CASE q = p
  BY <1>1
<1>2. CASE q # p
  BY <1>2 DEF UploadsAreRight
<1> QED
  BY <1>1, <1>2

LEMMA StageInvWorker ==
  ASSUME Typed, StageInv, Careful, NEW p \in Paths,
         Suggest(p) \/ Put(p) \/ Remove(p) \/ Fail(p)
  PROVE  StageInv'
<1>1. /\ p \in DOMAIN task /\ pc \in {"drop", "create"}
      /\ UNCHANGED <<scenario, inv, pc, existing, history>>
      /\ DOMAIN task' = DOMAIN task /\ \A q \in DOMAIN task \ {p} : task'[q] = task[q]
  BY WorkerStep
<1>2. /\ scenario \in Scenarios /\ inv \in 1..Len(scenario.commands)
      /\ Len(scenario.commands) \in Nat /\ Current = inv /\ Current' = inv
      /\ \A q \in Paths : /\ Wanted(q)' = Wanted(q) /\ Wanted(q) \in Contents \cup {Nothing}
                          /\ Declared(q) <=> Wanted(q) # Nothing
  BY <1>1, WantedIsDeclared DEF Wanted, Current
<1>3. /\ file \in [Paths -> Contents \cup {Nothing}] /\ marker \in [Paths -> SUBSET Contents]
      /\ Nothing \notin Contents
  BY StageAssumption DEF Typed, TypeOK, Nothing
<1>4. DropsAreRight' /\ SuccessMeansUploaded'
  BY <1>1 DEF StageInv, DropsAreRight, SuccessMeansUploaded
<1>a. /\ ContentsAreKnown /\ OldMarkersAreHarmless /\ UploadsAreRight /\ ListingIsRight
      /\ DOMAIN task \subseteq Paths /\ DOMAIN existing \subseteq Paths
  BY DEF StageInv, Typed, TypeOK
<1>5. CASE UNCHANGED stage /\ (Invocation.plan \/ (failed' /\ task'[p] = <<>>))
  <2>1. file' = file /\ marker' = marker /\ Invocation' = Invocation
    BY <1>1, <1>5 DEF stage, Invocation
  <2>2. ContentsAreKnown' /\ OldMarkersAreHarmless'
    BY <1>1, <1>2, <1>a, <2>1 DEF ContentsAreKnown, OldMarkersAreHarmless
  <2>5. ListingIsRight'
    BY <1>1, <1>2, <1>a, <2>1 DEF ListingIsRight
  <2>3. NothingIsForgotten'
    BY <1>1, <1>5, <2>1 DEF NothingIsForgotten
  <2>4. UploadsAreRight'
    <3>1. <<>> # << "put marker" >>
      BY Tasks
    <3> QED
      BY <1>1, <1>2, <1>5, <1>a, <2>1, <3>1, UploadsStayRight
  <2> QED
    BY <1>4, <2>2, <2>3, <2>4, <2>5 DEF StageInv
<1>6. CASE /\ pc = "create" /\ ~Invocation.plan /\ Declared(p) /\ task'[p] = << "put marker" >>
           /\ file' = [file EXCEPT ![p] = Wanted(p)] /\ marker' = marker /\ failed' = failed
  <2>1. /\ file'[p] = Wanted(p) /\ \A q \in Paths \ {p} : file'[q] = file[q]
        /\ Wanted(p) # Nothing /\ Invocation' = Invocation
    BY <1>1, <1>2, <1>3, <1>6 DEF Invocation
  <2>2. ContentsAreKnown'
    <3>1. Wanted(p) = Content(scenario, inv, p) /\ inv \in 0..inv
      BY <1>2 DEF Wanted
    <3> QED
      BY <1>1, <1>2, <2>1, <3>1 DEF StageInv, ContentsAreKnown
  <2>3. OldMarkersAreHarmless'
    <3> SUFFICES ASSUME NEW q \in Paths, NEW c \in marker[q], c # file'[q],
                        NEW k \in inv..Len(scenario.commands)
                 PROVE  Content(scenario, k, q) # c
      BY <1>1, <1>2, <1>6 DEF OldMarkersAreHarmless
    <3>1. CASE c # file[q]
      BY <1>2, <3>1 DEF StageInv, OldMarkersAreHarmless
    <3>2. CASE c = file[q]
      <4>1. q = p /\ c # Wanted(p) /\ c # Nothing
        BY <1>3, <2>1, <3>2
      <4>2. PICK i \in 0..inv : c = Content(scenario, i, p)
        BY <1>2, <3>2, <4>1 DEF StageInv, ContentsAreKnown
      <4> QED
        BY <1>1, <2>1, <4>1, <4>2, NotAgain
    <3> QED
      BY <3>1, <3>2
  <2>4. UploadsAreRight'
    BY <1>1, <1>2, <1>a, <2>1, UploadsStayRight
  <2>6. ListingIsRight'
    BY <1>1, <1>2, <1>a, <2>1 DEF ListingIsRight
  <2>5. NothingIsForgotten'
    BY <1>1, <1>2, <1>6, <2>1 DEF StageInv, NothingIsForgotten, HasStatement
  <2> QED
    BY <1>4, <2>2, <2>3, <2>4, <2>5, <2>6 DEF StageInv
<1>7. CASE /\ pc = "create" /\ ~Invocation.plan /\ Declared(p) /\ task'[p] = <<>>
           /\ file[p] = Wanted(p) /\ file' = file /\ failed' = failed
           /\ marker' = [marker EXCEPT ![p] = @ \cup {Wanted(p)}]
  <2>1. /\ marker'[p] = marker[p] \cup {file[p]}
        /\ \A q \in Paths \ {p} : marker'[q] = marker[q]
        /\ Invocation' = Invocation /\ task'[p] # << "put marker" >>
    BY <1>1, <1>3, <1>7, Tasks DEF Invocation
  <2>2. ContentsAreKnown' /\ ListingIsRight'
    BY <1>1, <1>2, <1>7, <1>a DEF ContentsAreKnown, ListingIsRight
  <2>3. OldMarkersAreHarmless'
    BY <1>1, <1>2, <1>7, <1>a, <2>1 DEF OldMarkersAreHarmless
  <2>4. UploadsAreRight'
    BY <1>1, <1>2, <1>7, <1>a, <2>1, UploadsStayRight
  <2>5. NothingIsForgotten'
    BY <1>1, <1>2, <1>7, <2>1 DEF StageInv, NothingIsForgotten, HasStatement
  <2> QED
    BY <1>4, <2>2, <2>3, <2>4, <2>5 DEF StageInv
<1>8. CASE /\ pc = "drop" /\ ~Invocation.plan /\ task'[p] = <<>> /\ failed' = failed
           /\ \A q \in Paths : \/ file'[q] = file[q] /\ marker'[q] = marker[q]
                               \/ Wanted(q) = Nothing /\ file'[q] = Nothing /\ marker'[q] = {}
           /\ file'[p] = Nothing
  <2>1. Invocation' = Invocation
    BY <1>1 DEF Invocation
  <2>2. ContentsAreKnown' /\ ListingIsRight'
    BY <1>1, <1>2, <1>8, <1>a DEF ContentsAreKnown, ListingIsRight
  <2>3. OldMarkersAreHarmless'
    BY <1>1, <1>2, <1>8, <1>a DEF OldMarkersAreHarmless
  <2>4. NothingIsForgotten'
    BY <1>1, <1>2, <1>8, <2>1 DEF StageInv, NothingIsForgotten, HasStatement
  <2>5. UploadsAreRight'
    BY <1>1, <1>8 DEF UploadsAreRight
  <2> QED
    BY <1>4, <2>2, <2>3, <2>4, <2>5 DEF StageInv
<1> QED
  BY <1>5, <1>6, <1>7, <1>8, StageOfWorker

LEMMA StageInvStep == ASSUME Typed, StageInv, Careful, [Next]_vars PROVE StageInv'
<1>1. CASE UNCHANGED vars
  <2>1. UNCHANGED <<scenario, file, marker, inv, pc, existing, task, failed, history>>
    BY <1>1 DEF vars, stage
  <2>2. Current' = Current /\ Invocation' = Invocation /\ \A p \in Paths : Wanted(p)' = Wanted(p)
    BY <2>1 DEF Current, Invocation, Wanted
  <2>3. ContentsAreKnown' /\ OldMarkersAreHarmless'
    BY <2>1, <2>2 DEF StageInv, ContentsAreKnown, OldMarkersAreHarmless
  <2>4. DropsAreRight' /\ UploadsAreRight' /\ ListingIsRight'
    BY <2>1, <2>2 DEF StageInv, DropsAreRight, UploadsAreRight, ListingIsRight, Wanted
  <2>5. NothingIsForgotten'
    BY <2>1, <2>2 DEF StageInv, NothingIsForgotten, HasStatement, Wanted
  <2>6. SuccessMeansUploaded'
    BY <2>1 DEF StageInv, SuccessMeansUploaded, Finished, Succeeded, CommandOf
  <2> QED
    BY <2>3, <2>4, <2>5, <2>6 DEF StageInv
<1>2. CASE Idle
  BY <1>1, <1>2 DEF Idle
<1> QED
  BY <1>1, <1>2, StageInvStart, StageInvBegin, StageInvSubmit, StageInvRecord, StageInvWorker
  DEF Next

-----------------------------------------------------------------------------
(* The theorems.                                                           *)

LEMMA UploadsHold == ASSUME Careful PROVE Spec => [](Typed /\ StageInv)
<1>1. Init => Typed /\ StageInv
  BY TypedInit, StageInvInit
<1>2. Typed /\ StageInv /\ [Next]_vars => (Typed /\ StageInv)'
  BY TypedStep, StageInvStep
<1> QED
  BY <1>1, <1>2, PTL DEF Spec

\* What exits 0 has uploaded every file of the directory and removed the
\* others, whatever the order of the workers and wherever earlier applies
\* stopped (StageFileResolver).
THEOREM SuccessIsUploaded == ASSUME Careful PROVE Spec => []SuccessMeansUploaded
<1>1. Typed /\ StageInv => SuccessMeansUploaded
  BY DEF StageInv
<1> QED
  BY UploadsHold, <1>1, PTL

\* No marker appears but that of the file as it is (_upload_file first,
\* _upload_md5_marker only when it did not fail).
THEOREM MarkersAreTrue == ASSUME Careful PROVE Spec => MarkersFollowFiles
<1>1. Typed /\ StageInv /\ [Next]_vars
      => [\A p \in Paths : marker'[p] \ marker[p] \subseteq {file[p]}]_vars
  <2> SUFFICES ASSUME Typed, StageInv, Next, NEW p \in Paths
               PROVE  marker'[p] \ marker[p] \subseteq {file[p]}
    BY DEF vars, stage
  <2>1. CASE Start \/ Begin \/ SubmitBatch \/ Exit \/ Crash \/ Idle
    BY <2>1 DEF Start, Begin, SubmitBatch, Exit, Crash, Idle, stage, vars
  <2>2. ASSUME NEW q \in Paths, Suggest(q) \/ Put(q) \/ Remove(q) \/ Fail(q)
        PROVE  marker'[p] \ marker[p] \subseteq {file[p]}
    <3>1. marker \in [Paths -> SUBSET Contents]
      BY DEF Typed, TypeOK
    <3> QED
      BY <2>2, <3>1, StageOfWorker DEF stage
  <2> QED
    BY <2>1, <2>2 DEF Next
<1> QED
  BY <1>1, UploadsHold, PTL DEF Spec, MarkersFollowFiles

AreStates == {Goal, file} \subseteq [Paths -> Contents \cup {Nothing}]

LEMMA GoalTypes ==
  ASSUME Typed
  PROVE  AreStates /\ \A p \in Paths : pc # "start" => Goal[p] = Wanted(p)
<1>1. /\ scenario \in Scenarios /\ Len(scenario.commands) \in Nat
      /\ inv \in 1..(Len(scenario.commands) + 1)
      /\ pc # "start" => inv \in 1..Len(scenario.commands)
  BY CommandTypes DEF Typed, Bookkeeping, TypeOK
<1>2. Current \in 0..Len(scenario.commands) /\ (pc # "start" => Current = inv)
  BY <1>1 DEF Current
<1>3. \A p \in Paths : Content(scenario, Current, p) \in Contents \cup {Nothing}
  BY <1>1, <1>2, ContentTypes
<1> QED
  BY <1>2, <1>3 DEF AreStates, Goal, Wanted, Typed, TypeOK

\* An invocation that ends was working, and leaves what was declared as it is.
LEMMA EndOfInvocation ==
  ASSUME Typed, StageInv', Exit \/ Crash
  PROVE  /\ Result = "working" /\ Goal' = Goal /\ file' = file
         /\ Result' \in {"done", "undone"} /\ (Result' = "done" => file = Goal)
<1>1. /\ pc # "start" /\ pc' = "start" /\ inv' = inv + 1 /\ UNCHANGED <<scenario, file>>
      /\ \E e, d : history' = Append(history, [exit |-> e, due |-> d])
  BY DEF Exit, Crash, Record, stage
<1>2. /\ inv \in 1..Len(scenario.commands) /\ Len(scenario.commands) \in Nat
      /\ history \in Seq(Outcomes) /\ Len(history) = inv - 1 /\ scenario \in Scenarios
  BY <1>1, CommandTypes DEF Typed, Bookkeeping
<1>3. Current = inv /\ Current' = inv
  BY <1>1, <1>2 DEF Current
<1>4. Goal' = Goal
  BY <1>1, <1>3 DEF Goal
<1>5. Finished' = inv
  BY <1>1, <1>2 DEF Finished
<1>6. Result' = "done" => file = Goal
  <2> SUFFICES ASSUME Result' = "done" PROVE file = Goal
    OBVIOUS
  <2>1. Finished' > 0 /\ Succeeded(Finished)'
    BY <1>1 DEF Result
  <2>2. file = CommandOf(Finished)'.files
    BY <1>1, <2>1 DEF StageInv, SuccessMeansUploaded
  <2>3. file = scenario.commands[inv].files
    BY <1>1, <1>5, <2>2 DEF CommandOf
  <2>4. Goal = [p \in Paths |-> file[p]]
    BY <1>2, <1>3, <2>3 DEF Goal, Content
  <2> QED
    BY <2>4 DEF Typed, TypeOK
<1>7. Result = "working" /\ Result' \in {"done", "undone"}
  BY <1>1 DEF Result
<1> QED
  BY <1>1, <1>4, <1>6, <1>7

\* Listings, uploads, markers and removals are what a Reconciler does: nothing
\* is put but what is declared, and exit code 0 means all of it.
THEOREM ImplementsReconciler == ASSUME Careful PROVE Spec => KeepsPromise
<1>1. Init => Promise!Init
  <2> SUFFICES ASSUME Init PROVE Promise!Init
    OBVIOUS
  <2>1. AreStates
    BY TypedInit, GoalTypes
  <2>2. ~(Len(<<>>) > 0)
    OBVIOUS
  <2>3. Result = "undone"
    BY <2>2 DEF Init, Result, Finished
  <2> QED
    BY <2>1, <2>3 DEF AreStates, Promise!Init, Promise!States
<1>2. Typed /\ StageInv => AreStates
  BY GoalTypes
<1>3. Typed /\ StageInv /\ AreStates' /\ [Next]_vars => [Promise!Next]_(Promise!vars)
  <2> SUFFICES ASSUME Typed, StageInv, AreStates', [Next]_vars
               PROVE  Promise!Next \/ UNCHANGED Promise!vars
    OBVIOUS
  <2>1. StageInv'
    BY StageInvStep
  <2>2. \A p \in Paths : pc # "start" => Goal[p] = Wanted(p)
    BY GoalTypes
  <2>3. Goal' \in [Paths -> Contents \cup {Nothing}] /\ file' \in [Paths -> Contents \cup {Nothing}]
    BY DEF AreStates
  <2>4. CASE Start
    <3>1. Result # "working" /\ Result' = "working"
      BY <2>4 DEF Start, Result
    <3>2. \A p \in Paths : file'[p] \in {file[p], Nothing}
      BY <2>4 DEF Start, stage
    <3> QED
      BY <2>3, <3>1, <3>2 DEF Promise!Next, Promise!Declare, Promise!States
  <2>5. CASE Begin \/ SubmitBatch
    <3>1. pc # "start" /\ pc' # "start" /\ UNCHANGED <<scenario, file, inv>>
      BY <2>5 DEF Begin, SubmitBatch, stage
    <3> QED
      BY <3>1 DEF Promise!vars, Goal, Result, Current
  <2>6. ASSUME NEW p \in Paths, Suggest(p) \/ Put(p) \/ Remove(p) \/ Fail(p)
        PROVE  Promise!Next
    <3>1. pc # "start" /\ UNCHANGED <<scenario, inv, pc>>
      BY <2>6, WorkerStep
    <3>2. Result = "working" /\ Result' = Result /\ Goal' = Goal
      BY <3>1 DEF Goal, Result, Current
    <3>3. \A q \in Paths : file'[q] \in {file[q], Goal[q], Nothing}
      <4>1. file \in [Paths -> Contents \cup {Nothing}]
        BY DEF Typed, TypeOK
      <4>2. Goal[p] = Wanted(p)
        BY <2>2, <3>1
      <4>3. \/ file' = file \/ file' = [file EXCEPT ![p] = Wanted(p)]
            \/ \A q \in Paths : file'[q] \in {file[q], Nothing}
        BY <2>6, StageOfWorker DEF stage
      <4> QED
        BY <4>1, <4>2, <4>3
    <3> QED
      BY <2>3, <3>2, <3>3 DEF Promise!Next, Promise!Change, Promise!States
  <2>7. CASE Exit \/ Crash
    BY <2>1, <2>7, EndOfInvocation DEF Promise!Next, Promise!Finish, Promise!GiveUp
  <2>8. CASE UNCHANGED vars
    <3>1. UNCHANGED <<scenario, file, inv, pc, history>>
      BY <2>8 DEF vars, stage
    <3> QED
      BY <3>1 DEF Promise!vars, Goal, Result, Current, Finished, Succeeded, CommandOf
  <2> QED
    BY <2>4, <2>5, <2>6, <2>7, <2>8 DEF Next, Idle
<1> QED
  BY <1>1, <1>2, <1>3, UploadsHold, PTL DEF Spec, KeepsPromise, Promise!Spec

-----------------------------------------------------------------------------
(* What the plan after an apply finds.                                     *)

\* A marker is of a content that was declared for its path.
MarkersAreKnown ==
  \A p \in Paths : \A c \in marker[p] : \E i \in 0..Current : c = Content(scenario, i, p)

IsMarked(p) == Wanted(p) \in marker[p]

\* The marker that was listed as that of the declared content is still there.
ListingIsMarked ==
  pc \in {"drop", "create"} => \A p \in DOMAIN existing :
    existing[p] = Wanted(p) /\ Wanted(p) # Nothing => IsMarked(p)

\* As long as nothing failed, a declared file has its marker or a task.
UploadsAreMarked ==
  pc = "create" /\ ~failed /\ ~Invocation.plan => \A p \in Paths :
    Declared(p) => IsMarked(p) \/ HasStatement(p)

SuccessMeansMarked ==
  pc = "start" /\ Finished > 0 /\ Succeeded(Finished) => \A p \in Paths :
    CommandOf(Finished).files[p] \in marker[p] \cup {Nothing}

\* The i-th command is the plan that UploadedPlanIsEmpty is about.
IsRepeated(i) ==
  /\ Succeeded(i - 1) /\ CommandOf(i).plan /\ CommandOf(i).files = CommandOf(i - 1).files
  /\ CommandOf(i).stage = "kept"
  /\ \A p \in Paths, j \in 0..i : Content(scenario, j, p) <= Content(scenario, i, p)

\* Such a plan has nothing to do at any point.
PlanIsQuiet ==
  pc # "start" /\ inv > 1 /\ IsRepeated(inv) =>
    /\ ~due
    /\ \A p \in Paths : file[p] = Wanted(p) /\ (Declared(p) => IsMarked(p))
    /\ pc = "drop" => /\ DOMAIN task = {}
                      /\ \A p \in Paths : Declared(p) =>
                           p \in DOMAIN existing /\ existing[p] = Wanted(p)
    /\ pc = "create" => \A p \in DOMAIN task : task[p] = <<>>

PlanInv ==
  /\ MarkersAreKnown /\ ListingIsMarked /\ UploadsAreMarked /\ SuccessMeansMarked
  /\ PlanIsQuiet /\ UploadedPlanIsEmpty

-----------------------------------------------------------------------------
\* Of several markers the one that is listed last counts.
LEMMA ListedIsLast ==
  ASSUME NEW p \in Paths, marker \in [Paths -> SUBSET Contents],
         NEW c \in marker[p], \A d \in marker[p] : d <= c
  PROVE  Listed(p) = c
<1>1. marker[p] \subseteq Nat /\ marker[p] # {}
  BY StageAssumption
<1>2. \A d \in marker[p] : c >= d
  BY <1>1
<1>3. Max(marker[p]) \in marker[p] /\ \A d \in marker[p] : Max(marker[p]) >= d
  BY <1>2 DEF Max
<1>4. Max(marker[p]) = c
  BY <1>1, <1>3
<1> QED
  BY <1>1, <1>4 DEF Listed

\* What is said of finished invocations stays true.
LEMMA FinishedStays ==
  ASSUME UNCHANGED <<scenario, history>>
  PROVE  /\ Finished' = Finished
         /\ UploadedPlanIsEmpty => UploadedPlanIsEmpty'
         /\ \A i : /\ IsRepeated(i)' <=> IsRepeated(i)
                   /\ Succeeded(i)' <=> Succeeded(i)
                   /\ CommandOf(i)' = CommandOf(i)
<1>1. Finished' = Finished
  BY DEF Finished
<1>2. \A i : CommandOf(i)' = CommandOf(i) /\ (Succeeded(i)' <=> Succeeded(i))
  BY DEF Succeeded, CommandOf
<1>3. \A i : IsRepeated(i)' <=> IsRepeated(i)
  BY <1>2 DEF IsRepeated
<1>4. UploadedPlanIsEmpty => UploadedPlanIsEmpty'
  BY <1>1, <1>2 DEF UploadedPlanIsEmpty
<1> QED
  BY <1>1, <1>2, <1>3, <1>4

LEMMA PlanInvInit == ASSUME Init PROVE PlanInv
<1>1. /\ pc = "start" /\ inv = 1 /\ file = scenario.file /\ history = <<>>
      /\ marker = [p \in Paths |-> {file[p]} \ {Nothing}]
  BY DEF Init
<1>2. Current = 0 /\ Finished = 0
  BY <1>1 DEF Current, Finished
<1>3. MarkersAreKnown
  BY <1>1, <1>2 DEF MarkersAreKnown, Content
<1> QED
  BY <1>1, <1>2, <1>3 DEF PlanInv, ListingIsMarked, UploadsAreMarked, SuccessMeansMarked,
     PlanIsQuiet, UploadedPlanIsEmpty

LEMMA PlanInvStart == ASSUME Typed, StageInv, PlanInv, Start PROVE PlanInv'
<1>1. /\ pc = "start" /\ pc' = "list" /\ UNCHANGED <<scenario, inv, history>>
      /\ due' = FALSE /\ scenario \in Scenarios /\ Len(scenario.commands) \in Nat
      /\ inv \in 1..(Len(scenario.commands) + 1)
  BY CommandTypes DEF Start, Typed, Bookkeeping, TypeOK
<1>2. Current = inv - 1 /\ Current' = inv /\ Finished = inv - 1
  BY <1>1 DEF Current, Typed, Bookkeeping, Finished
<1>3. MarkersAreKnown'
  <2>1. \A p \in Paths : marker'[p] \subseteq marker[p]
    BY DEF Start, stage
  <2> QED
    BY <1>1, <1>2, <2>1 DEF PlanInv, MarkersAreKnown
<1>4. PlanIsQuiet'
  <2> SUFFICES ASSUME inv > 1, IsRepeated(inv), NEW p \in Paths
               PROVE  /\ file'[p] = Wanted(p)'
                      /\ Declared(p)' => IsMarked(p)'
    BY <1>1, FinishedStays DEF PlanIsQuiet
  <2>1. Invocation = CommandOf(inv) /\ Invocation' = Invocation
    BY <1>1 DEF Invocation, CommandOf
  <2>2. UNCHANGED <<file, marker>>
    BY <2>1 DEF Start, IsRepeated, stage
  <2>3. /\ Finished > 0 /\ Succeeded(Finished)
        /\ Invocation.files = CommandOf(Finished).files
    BY <1>1, <1>2, <2>1 DEF IsRepeated
  <2>4. file = Invocation.files
    BY <1>1, <2>3 DEF StageInv, SuccessMeansUploaded
  <2>5. Invocation.files[p] \in marker[p] \cup {Nothing}
    BY <1>1, <2>3 DEF PlanInv, SuccessMeansMarked
  <2>6. Wanted(p)' = Invocation.files[p]
    BY <1>1 DEF Wanted, Content, Invocation
  <2> QED
    BY <2>1, <2>2, <2>4, <2>5, <2>6 DEF IsMarked, Declared
<1> QED
  BY <1>1, <1>3, <1>4, FinishedStays DEF PlanInv, ListingIsMarked, UploadsAreMarked,
     SuccessMeansMarked

LEMMA PlanInvBegin == ASSUME Typed, StageInv, PlanInv, Begin PROVE PlanInv'
<1>1. /\ pc = "list" /\ pc' = "drop" /\ UNCHANGED <<scenario, file, marker, inv, due, history>>
  BY DEF Begin, stage
<1>2. /\ Current = inv /\ Current' = inv /\ inv \in 1..Len(scenario.commands)
      /\ marker \in [Paths -> SUBSET Contents] /\ Len(scenario.commands) \in Nat
  BY <1>1, CommandTypes DEF Current, Typed, TypeOK, Bookkeeping
<1>3. /\ DOMAIN existing' = {p \in Paths : file[p] # Nothing}
      /\ \A p \in DOMAIN existing' : existing'[p] = Listed(p)
  BY DEF Begin
<1>4. \A p \in Paths : /\ Wanted(p)' = Wanted(p) /\ (Declared(p)' <=> Declared(p))
                       /\ Declared(p) <=> Wanted(p) # Nothing
                       /\ IsMarked(p)' <=> IsMarked(p)
  BY <1>1, WantedIsDeclared DEF Wanted, Declared, Invocation, IsMarked
<1>5. MarkersAreKnown'
  BY <1>1, <1>2 DEF PlanInv, MarkersAreKnown
<1>6. ListingIsMarked'
  BY <1>2, <1>3, <1>4, ListedIsAMarker DEF ListingIsMarked, IsMarked
<1>7. PlanIsQuiet'
  <2> SUFFICES ASSUME inv > 1, IsRepeated(inv)
               PROVE  /\ ~due
                      /\ \A p \in Paths : file[p] = Wanted(p) /\ (Declared(p) => IsMarked(p))
                      /\ DOMAIN task' = {}
                      /\ \A p \in Paths : Declared(p) =>
                           p \in DOMAIN existing' /\ existing'[p] = Wanted(p)
    BY <1>1, <1>4, FinishedStays DEF PlanIsQuiet
  <2>1. ~due /\ \A p \in Paths : file[p] = Wanted(p) /\ (Declared(p) => IsMarked(p))
    BY <1>1 DEF PlanInv, PlanIsQuiet
  <2>2. DOMAIN task' = {}
    <3>1. \A p \in DOMAIN existing' : Declared(p)
      BY <1>3, <1>4, <2>1
    <3> QED
      BY <3>1 DEF Begin, DropTargets
  <2>3. ASSUME NEW p \in Paths, Declared(p)
        PROVE  p \in DOMAIN existing' /\ existing'[p] = Wanted(p)
    <3>1. p \in DOMAIN existing' /\ Wanted(p) \in marker[p]
      BY <1>3, <1>4, <2>1, <2>3 DEF IsMarked
    <3>2. ASSUME NEW d \in marker[p] PROVE d <= Wanted(p)
      <4>1. PICK j \in 0..inv : d = Content(scenario, j, p)
        BY <1>2 DEF PlanInv, MarkersAreKnown
      <4> QED
        BY <4>1 DEF IsRepeated, Wanted
    <3>3. Listed(p) = Wanted(p)
      BY <1>2, <3>1, <3>2, ListedIsLast
    <3> QED
      BY <1>3, <3>1, <3>3
  <2> QED
    BY <2>1, <2>2, <2>3
<1> QED
  BY <1>1, <1>5, <1>6, <1>7, FinishedStays DEF PlanInv, UploadsAreMarked, SuccessMeansMarked

LEMMA PlanInvSubmit == ASSUME Typed, StageInv, PlanInv, SubmitBatch PROVE PlanInv'
<1>1. /\ pc = "drop" /\ pc' = "create"
      /\ UNCHANGED <<scenario, file, marker, inv, existing, failed, due, history>>
      /\ DOMAIN task' = {p \in Paths : Declared(p)}
      /\ \A p \in DOMAIN task' : task'[p] = CreateOrCompare(p)
  BY DEF SubmitBatch, stage
<1>2. Current = inv /\ Current' = inv /\ Invocation' = Invocation
  BY <1>1 DEF Current, Invocation
<1>3. \A p \in Paths : /\ Wanted(p)' = Wanted(p) /\ (Declared(p)' <=> Declared(p))
                       /\ Declared(p) <=> Wanted(p) # Nothing
                       /\ Wanted(p) = Invocation.files[p] /\ (IsMarked(p)' <=> IsMarked(p))
  BY <1>1, WantedIsDeclared DEF Wanted, Declared, Invocation, IsMarked
<1>4. MarkersAreKnown'
  BY <1>1, <1>2 DEF PlanInv, MarkersAreKnown
<1>5. ListingIsMarked'
  <2>1. DOMAIN existing \subseteq Paths
    BY DEF Typed, TypeOK
  <2> QED
    BY <1>1, <1>3, <2>1 DEF PlanInv, ListingIsMarked
<1>6. UploadsAreMarked'
  <2> SUFFICES ASSUME NEW p \in Paths, Declared(p) PROVE IsMarked(p) \/ HasStatement(p)'
    BY <1>1, <1>3 DEF UploadsAreMarked
  <2>1. p \in DOMAIN task' /\ task'[p] = CreateOrCompare(p)
    BY <1>1
  <2>2. CASE p \in DOMAIN existing /\ existing[p] = Wanted(p)
    BY <1>1, <1>3, <2>2 DEF PlanInv, ListingIsMarked
  <2>3. CASE ~(p \in DOMAIN existing /\ existing[p] = Wanted(p))
    <3>1. task'[p] = Upload(p)
      BY <1>3, <2>1, <2>3 DEF CreateOrCompare
    <3> QED
      BY <2>1, <3>1, Tasks DEF HasStatement
  <2> QED
    BY <2>2, <2>3
<1>7. PlanIsQuiet'
  <2> SUFFICES ASSUME inv > 1, IsRepeated(inv)
               PROVE  /\ ~due
                      /\ \A p \in Paths : file[p] = Wanted(p) /\ (Declared(p) => IsMarked(p))
                      /\ \A p \in DOMAIN task' : task'[p] = <<>>
    BY <1>1, <1>3, FinishedStays DEF PlanIsQuiet
  <2>1. /\ ~due /\ \A p \in Paths : file[p] = Wanted(p) /\ (Declared(p) => IsMarked(p))
        /\ \A p \in Paths : Declared(p) => p \in DOMAIN existing /\ existing[p] = Wanted(p)
    BY <1>1 DEF PlanInv, PlanIsQuiet
  <2> QED
    BY <1>1, <1>3, <2>1 DEF CreateOrCompare
<1> QED
  BY <1>1, <1>4, <1>5, <1>6, <1>7, FinishedStays DEF PlanInv, SuccessMeansMarked

LEMMA PlanInvRecord == ASSUME Typed, StageInv, PlanInv, Exit \/ Crash PROVE PlanInv'
<1>1. PICK outcome : Record(outcome) /\ (outcome = "success" => Exit /\ ~failed)
  BY DEF Exit, Crash
<1>2. /\ pc' = "start" /\ inv' = inv + 1 /\ UNCHANGED <<scenario, file, marker>>
      /\ history' = Append(history, [exit |-> outcome, due |-> due]) /\ pc # "start"
  BY <1>1 DEF Record, Exit, Crash, stage
<1>3. /\ inv \in 1..Len(scenario.commands) /\ Len(scenario.commands) \in Nat
      /\ history \in Seq(Outcomes) /\ Len(history) = inv - 1 /\ scenario \in Scenarios
  BY <1>2, CommandTypes DEF Typed, Bookkeeping
<1>4. Current = inv /\ Current' = inv
  BY <1>2, <1>3 DEF Current
<1>5. /\ Len(history') = inv /\ history'[inv] = [exit |-> outcome, due |-> due]
      /\ \A i \in 1..(inv - 1) : history'[i] = history[i]
  BY <1>2, <1>3
<1>6. history'[inv].exit = outcome /\ history'[inv].due = due
  <2>1. [exit |-> outcome, due |-> due].exit = outcome /\ [exit |-> outcome, due |-> due].due = due
    OBVIOUS
  <2> QED
    BY <1>5, <2>1, Zenon
<1>7. Finished' = inv /\ Finished = inv - 1
  BY <1>3, <1>5 DEF Finished
<1>8. MarkersAreKnown'
  BY <1>2, <1>4 DEF PlanInv, MarkersAreKnown
<1>9. SuccessMeansMarked'
  <2> SUFFICES ASSUME Succeeded(Finished)', NEW p \in Paths
               PROVE  CommandOf(Finished)'.files[p] \in marker[p] \cup {Nothing}
    BY <1>2 DEF SuccessMeansMarked
  <2>1. CommandOf(Finished)' = Invocation
    BY <1>2, <1>7 DEF CommandOf, Invocation
  <2>2. outcome = "success" /\ ~Invocation.plan
    BY <1>6, <1>7, <2>1 DEF Succeeded
  <2>3. ~failed /\ pc = "create" /\ \A q \in DOMAIN task : task[q] = <<>>
    BY <1>1, <2>2 DEF Exit
  <2>4. ~HasStatement(p)
    BY <2>3 DEF HasStatement
  <2>5. Declared(p) => IsMarked(p)
    BY <2>2, <2>3, <2>4 DEF PlanInv, UploadsAreMarked
  <2>6. Wanted(p) = Invocation.files[p]
    BY <1>2, WantedIsDeclared
  <2> QED
    BY <2>1, <2>5, <2>6 DEF IsMarked, Declared
<1>10. UploadedPlanIsEmpty'
  <2> SUFFICES ASSUME NEW i \in 2..inv, IsRepeated(i)' PROVE ~history'[i].due
    BY <1>7 DEF UploadedPlanIsEmpty, IsRepeated
  <2>1. IsRepeated(i)
    <3>1. i - 1 \in 1..(inv - 1)
      BY <1>3
    <3>2. history'[i - 1] = history[i - 1]
      BY <1>5, <3>1
    <3> QED
      BY <1>2, <3>2 DEF IsRepeated, Succeeded, CommandOf
  <2>2. CASE i = inv
    <3>1. inv > 1
      BY <1>3, <2>2
    <3> QED
      BY <1>2, <1>6, <2>1, <2>2, <3>1 DEF PlanInv, PlanIsQuiet
  <2>3. CASE i # inv
    <3>1. i \in 2..Finished /\ history'[i] = history[i]
      BY <1>3, <1>5, <1>7, <2>3
    <3> QED
      BY <2>1, <3>1 DEF PlanInv, UploadedPlanIsEmpty, IsRepeated
  <2> QED
    BY <2>2, <2>3
<1> QED
  BY <1>2, <1>8, <1>9, <1>10 DEF PlanInv, ListingIsMarked, UploadsAreMarked, PlanIsQuiet

\* What one step of a worker does to the markers.
LEMMA MarkersOfWorker ==
  ASSUME Typed, StageInv, Careful, NEW p \in Paths,
         Suggest(p) \/ Put(p) \/ Remove(p) \/ Fail(p), NEW q \in Paths
  PROVE  /\ marker'[q] \subseteq marker[q] \cup {Wanted(q)}
         /\ marker[q] \subseteq marker'[q] \/ Wanted(q) = Nothing
<1>1. marker \in [Paths -> SUBSET Contents]
  BY DEF Typed, TypeOK
<1> QED
  BY <1>1, StageOfWorker DEF stage

LEMMA PlanInvWorker ==
  ASSUME Typed, StageInv, PlanInv, Careful, NEW p \in Paths,
         Suggest(p) \/ Put(p) \/ Remove(p) \/ Fail(p)
  PROVE  PlanInv'
<1>1. /\ p \in DOMAIN task /\ pc \in {"drop", "create"}
      /\ UNCHANGED <<scenario, inv, pc, existing, history>>
      /\ DOMAIN task' = DOMAIN task /\ \A q \in DOMAIN task \ {p} : task'[q] = task[q]
  BY WorkerStep
<1>2. task[p] # <<>>
  BY DEF Suggest, Put, Remove, Fail, HasStatement
<1>3. /\ Current = inv /\ Current' = inv /\ Invocation' = Invocation
      /\ inv \in 1..Len(scenario.commands) /\ Len(scenario.commands) \in Nat
      /\ \A q \in Paths : /\ Wanted(q)' = Wanted(q) /\ (Declared(q)' <=> Declared(q))
                          /\ Declared(q) <=> Wanted(q) # Nothing
  BY <1>1, WantedIsDeclared DEF Wanted, Current, Invocation, Declared
<1>4. ASSUME NEW q \in Paths, IsMarked(q), Wanted(q) # Nothing PROVE IsMarked(q)'
  BY <1>3, <1>4, MarkersOfWorker DEF IsMarked
<1>5. MarkersAreKnown'
  <2> SUFFICES ASSUME NEW q \in Paths, NEW c \in marker'[q]
               PROVE  \E i \in 0..inv : c = Content(scenario, i, q)
    BY <1>1, <1>3 DEF MarkersAreKnown
  <2>1. c \in marker[q] \/ c = Wanted(q)
    BY MarkersOfWorker
  <2>2. inv \in 0..inv
    BY <1>3
  <2> QED
    BY <1>3, <2>1, <2>2 DEF PlanInv, MarkersAreKnown, Wanted
<1>6. ListingIsMarked'
  <2>1. DOMAIN existing \subseteq Paths
    BY DEF Typed, TypeOK
  <2> QED
    BY <1>1, <1>3, <1>4, <2>1 DEF PlanInv, ListingIsMarked
<1>7. UploadsAreMarked'
  <2> SUFFICES ASSUME pc = "create", ~failed', ~Invocation.plan, NEW q \in Paths, Declared(q)
               PROVE  IsMarked(q)' \/ HasStatement(q)'
    BY <1>1, <1>3 DEF UploadsAreMarked
  <2>1. ~failed
    BY DEF Suggest, Put, Remove, Fail
  <2>2. CASE IsMarked(q)
    BY <1>3, <1>4, <2>2
  <2>3. CASE ~IsMarked(q) /\ q # p
    <3>1. HasStatement(q)
      BY <2>1, <2>3 DEF PlanInv, UploadsAreMarked
    <3> QED
      BY <1>1, <2>3, <3>1 DEF HasStatement
  <2>4. CASE q = p
    <3>1. \/ task'[p] = << "put marker" >>
          \/ marker' = [marker EXCEPT ![p] = @ \cup {Wanted(p)}]
      BY <2>1, StageOfWorker
    <3>2. CASE task'[p] = << "put marker" >>
      BY <1>1, <2>4, <3>2, Tasks DEF HasStatement
    <3>3. CASE marker' = [marker EXCEPT ![p] = @ \cup {Wanted(p)}]
      BY <1>3, <2>4, <3>3 DEF IsMarked, Typed, TypeOK
    <3> QED
      BY <3>1, <3>2, <3>3
  <2> QED
    BY <2>2, <2>3, <2>4
<1>8. PlanIsQuiet'
  <2>1. ~(inv > 1 /\ IsRepeated(inv))
    BY <1>1, <1>2 DEF PlanInv, PlanIsQuiet
  <2> QED
    BY <1>1, <2>1, FinishedStays DEF PlanIsQuiet
<1> QED
  BY <1>1, <1>5, <1>6, <1>7, <1>8, FinishedStays DEF PlanInv, SuccessMeansMarked

LEMMA PlanInvStep == ASSUME Typed, StageInv, PlanInv, Careful, [Next]_vars PROVE PlanInv'
<1>1. CASE UNCHANGED vars
  <2>1. UNCHANGED <<scenario, file, marker, inv, pc, existing, task, failed, due, history>>
    BY <1>1 DEF vars, stage
  <2>2. /\ Current' = Current /\ Invocation' = Invocation
        /\ \A p \in Paths : /\ Wanted(p)' = Wanted(p) /\ (IsMarked(p)' <=> IsMarked(p))
                            /\ Declared(p)' <=> Declared(p)
    BY <2>1 DEF Current, Invocation, Wanted, IsMarked, Declared
  <2>3. MarkersAreKnown'
    BY <2>1, <2>2 DEF PlanInv, MarkersAreKnown
  <2>4. ListingIsMarked'
    BY <2>1 DEF PlanInv, ListingIsMarked, IsMarked, Wanted
  <2>5. UploadsAreMarked'
    BY <2>1, <2>2 DEF PlanInv, UploadsAreMarked, HasStatement
  <2>6. SuccessMeansMarked'
    BY <2>1 DEF PlanInv, SuccessMeansMarked, Finished, Succeeded, CommandOf
  <2>7. PlanIsQuiet'
    BY <2>1, <2>2, FinishedStays DEF PlanInv, PlanIsQuiet
  <2> QED
    BY <2>1, <2>3, <2>4, <2>5, <2>6, <2>7, FinishedStays DEF PlanInv
<1>2. CASE Idle
  BY <1>1, <1>2 DEF Idle
<1> QED
  BY <1>1, <1>2, PlanInvStart, PlanInvBegin, PlanInvSubmit, PlanInvRecord, PlanInvWorker DEF Next

\* After an apply that exits 0 the same directory is recognized file by file:
\* the plan suggests no upload and no removal, wherever earlier applies
\* stopped (StageFileResolver.get_existing_objects and compare_object).
THEOREM UploadsAreRecognized == ASSUME Careful PROVE Spec => []UploadedPlanIsEmpty
<1>1. Init => PlanInv
  BY PlanInvInit
<1>2. Typed /\ StageInv /\ PlanInv /\ [Next]_vars => PlanInv'
  BY PlanInvStep
<1>3. PlanInv => UploadedPlanIsEmpty
  BY DEF PlanInv
<1> QED
  BY <1>1, <1>2, <1>3, UploadsHold, PTL DEF Spec
=============================================================================
