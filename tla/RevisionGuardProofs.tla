------------------------ MODULE RevisionGuardProofs -------------------------
(***************************************************************************)
(* What the apply-revision guard guarantees for every repository, account, *)
(* kind of object and set of appliers, while invocations do not overlap:   *)
(* an object whose last write was recorded, executed and flushed is not    *)
(* overwritten by a commit that does not descend from the one which wrote  *)
(* it, and its stamp names that one whenever nothing runs.  Who has merged *)
(* everything is not refused.  The reasons for which a stamp may be of     *)
(* another commit (astray) cannot be dropped, nor that invocations do not  *)
(* overlap: of two overlapping applies the later reverts the earlier.      *)
(***************************************************************************)
EXTENDS RevisionGuard, TLAPS

-----------------------------------------------------------------------------
\* The variables keep their types (every step of RevisionGuard).
LEMMA TypeStep == TypeOK /\ [Next]_vars => TypeOK'
<1> SUFFICES ASSUME TypeOK, [Next]_vars PROVE TypeOK'
  OBVIOUS
<1> USE GuardAssumption
<1>1. ASSUME NEW p \in Appliers PROVE sha(p) \in Commits
  BY DEF TypeOK, CloneRecords, sha
<1>2. CASE UNCHANGED vars
  BY <1>2 DEF TypeOK, vars, account, history
<1>3. ASSUME NEW p \in Appliers, Load(p) PROVE TypeOK'
  BY <1>3 DEF TypeOK, Load, account
<1>4. ASSUME NEW p \in Appliers, List(p) PROVE TypeOK'
  BY <1>4 DEF TypeOK, List, account, history
<1>5. ASSUME NEW p \in Appliers, Flush(p) PROVE TypeOK'
  BY <1>5, <1>1 DEF TypeOK, Flush, account, history
<1>6. ASSUME NEW p \in Appliers, Crash(p) PROVE TypeOK'
  BY <1>6 DEF TypeOK, Crash, Active, Reasons, account
<1>7. ASSUME NEW p \in Appliers, NEW o \in Objects, Check(p, o) PROVE TypeOK'
  BY <1>7 DEF TypeOK, Check, account, history
<1>8. ASSUME NEW p \in Appliers, NEW o \in Objects, NoChange(p, o) PROVE TypeOK'
  BY <1>8 DEF TypeOK, NoChange, account, history
<1>9. ASSUME NEW p \in Appliers, NEW o \in Objects, Write(p, o) PROVE TypeOK'
  <2>0. PICK result \in Results(p, o) :
          \E execution \in Executions(p, o, result) : Resolve(p, o, result, execution)
    BY <1>9 DEF Write
  <2>1. PICK execution \in Executions(p, o, result) : Resolve(p, o, result, execution)
    BY <2>0
  <2>2. deployed' \in [Objects -> Commits \cup {None}]
    <3>1. deployed' \in {deployed, [deployed EXCEPT ![o] = sha(p)]}
      BY <2>1 DEF Resolve, Account, account
    <3> QED
      BY <3>1, <1>1, SMTT(40) DEF TypeOK
  <2>5. half' \subseteq Objects
    <3>1. half' \in {half, half \cup {o}, half \ {o}}
      BY <2>1 DEF Resolve, Account, account
    <3> QED
      BY <3>1 DEF TypeOK
  <2>3. astray' \in [Objects -> Reasons \cup {"none"}]
    BY <2>1 DEF Resolve, TypeOK, Reasons
  <2>4. records' \in [Appliers -> SUBSET Objects]
    BY <2>1 DEF Resolve, TypeOK
  <2>6. /\ stage' \in [Appliers -> [Objects -> {"todo", "checked", "refused", "failed", "done"}]]
        /\ \A q \in Appliers : pc'[q] \in {"idle", "loaded"} =>
             records'[q] = {} /\ \A b \in Objects : stage'[q][b] = "todo"
    <3>1. /\ stage' = [stage EXCEPT ![p][o] = "done"] /\ pc' = pc /\ pc[p] = "resolving"
      BY <1>9 DEF Write
    <3>2. \A q \in Appliers : q # p => records'[q] = records[q]
      BY <2>1 DEF Resolve, TypeOK
    <3> QED
      BY <3>1, <3>2 DEF TypeOK
  <2>7. UNCHANGED <<stamps, clone, pc, seen, rows, overlap>>
    BY <1>9 DEF Write
  <2> QED
    BY <2>2, <2>3, <2>4, <2>5, <2>6, <2>7 DEF TypeOK
<1>10. ASSUME NEW p \in Appliers, NEW o \in Objects, FailHalfway(p, o) PROVE TypeOK'
  <2>1. PICK left \in Writes[o].leaves :
          /\ Account(o, IF left = "nothing" THEN None ELSE sha(p), left)
          /\ astray' = [astray EXCEPT ![o] = IF left = "nothing" THEN "none" ELSE "raised"]
    BY <1>10 DEF FailHalfway
  <2>2. deployed' \in [Objects -> Commits \cup {None}] /\ half' \subseteq Objects
    BY <2>1, <1>1 DEF TypeOK, Account
  <2>3. astray' \in [Objects -> Reasons \cup {"none"}]
    BY <2>1 DEF TypeOK, Reasons
  <2> QED
    BY <1>10, <2>2, <2>3 DEF TypeOK, FailHalfway
<1>11. ASSUME NEW p \in Appliers, NEW o \in Objects, Drop(p, o) PROVE TypeOK'
  <2>0. \/ UNCHANGED <<deployed, half, astray>>
        \/ /\ deployed' = [deployed EXCEPT ![o] = None] /\ half' = half \ {o}
           /\ astray' = [astray EXCEPT ![o] = "none"]
    BY <1>11 DEF Drop, Account, account
  <2>1. /\ deployed' \in [Objects -> Commits \cup {None}] /\ half' \subseteq Objects
        /\ astray' \in [Objects -> Reasons \cup {"none"}]
    <3>1. deployed' \in [Objects -> Commits \cup {None}]
      BY <2>0 DEF TypeOK
    <3>2. half' \subseteq Objects /\ astray' \in [Objects -> Reasons \cup {"none"}]
      BY <2>0, SMTT(40) DEF TypeOK
    <3> QED
      BY <3>1, <3>2
  <2> QED
    BY <1>11, <2>1 DEF TypeOK, Drop
<1>12. ASSUME NEW p \in Appliers, NEW o \in Objects, Fail(p, o) PROVE TypeOK'
  BY <1>12 DEF TypeOK, Fail, account, history
<1> QED
  BY <1>2, <1>3, <1>4, <1>5, <1>6, <1>7, <1>8, <1>9, <1>10, <1>11, <1>12
     DEF Next, Idle, Step, Task

THEOREM TypeCorrect == Spec => []TypeOK
<1>1. Init => TypeOK
  <2> SUFFICES ASSUME Init PROVE TypeOK
    OBVIOUS
  <2>1. overlap \in BOOLEAN
    BY DEF Init
  <2>2. half \subseteq Objects /\ astray \in [Objects -> Reasons \cup {"none"}]
    BY DEF Init
  <2> QED
    BY <2>1, <2>2, GuardAssumption DEF Init, TypeOK
<1> QED
  BY <1>1, TypeStep, PTL DEF Spec

-----------------------------------------------------------------------------
(* The inductive invariants: of the copy of the stamps, and of the stamps.  *)

OneActive == \A p, q \in Appliers : Active(p) /\ Active(q) => p = q

\* Nobody else flushes while an applier runs.
CopyIsFresh == \A p \in Appliers : Active(p) => seen[p] = stamps

\* What the verdict on an object was taken from has not changed.
VerdictsHold ==
  \A p \in Appliers : \A o \in Objects :
    /\ stage[p][o] = "checked" => MayWrite(p, o) \/ ~IsApply(p)
    /\ stage[p][o] = "refused" => ~MayWrite(p, o)

CopyInv == VerdictsHold /\ (~overlap => OneActive /\ CopyIsFresh)

\* What an applier has recorded it is done with, and has written, but for what
\* was only suggested.
RecordedIsWritten ==
  \A p \in Appliers : \A o \in records[p] :
    Active(p) => /\ stage[p][o] = "done"
                 /\ IsApply(p) /\ astray[o] = "none" => deployed[o] = sha(p)

\* A stamp is right, or about to be set right by the flush of the one applier
\* that is running.
StampsAreRight ==
  \A o \in Objects :
    \/ astray[o] # "none"
    \/ None \in {stamps[o], deployed[o]} \/ deployed[o] = stamps[o]
    \/ \E p \in Appliers : Active(p) /\ IsApply(p) /\ o \in records[p]

StampInv == ~overlap => RecordedIsWritten /\ StampsAreRight

-----------------------------------------------------------------------------
(* The copy of the stamps, in every run.                                   *)

LEMMA CopyInvInit == Init => CopyInv
BY DEF Init, CopyInv, OneActive, CopyIsFresh, VerdictsHold, Active

\* Verdicts depend on nothing that changes after they are taken.
LEMMA VerdictIsFixed ==
  ASSUME NEW p \in Appliers, NEW o \in Objects, clone' = clone, seen'[p] = seen[p]
  PROVE  (MayWrite(p, o)' <=> MayWrite(p, o)) /\ (IsApply(p)' <=> IsApply(p))
BY DEF MayWrite, IsApply, HasOverride, IsProvenAncestor, sha

LEMMA CopyInvStep ==
  ASSUME TypeOK, CopyInv, [Next]_vars
  PROVE  CopyInv'
<1>1. CASE UNCHANGED vars
  BY <1>1 DEF vars, account, history, CopyInv, OneActive, CopyIsFresh, VerdictsHold, Active, MayWrite,
     IsApply, HasOverride, IsProvenAncestor, sha
<1>2. ASSUME NEW p \in Appliers, Load(p) PROVE CopyInv'
  <2>1. \A o \in Objects : stage'[p][o] = "todo"
    BY <1>2 DEF Load, TypeOK
  <2>2. \A q \in Appliers \ {p} : seen'[q] = seen[q]
    BY <1>2 DEF Load, TypeOK
  <2>3. VerdictsHold'
    <3> SUFFICES ASSUME NEW q \in Appliers, NEW o \in Objects, q # p
                 PROVE  /\ stage'[q][o] = "checked" => MayWrite(q, o)' \/ ~IsApply(q)'
                        /\ stage'[q][o] = "refused" => ~MayWrite(q, o)'
      BY <2>1 DEF VerdictsHold
    <3> QED
      BY <1>2, <2>2, VerdictIsFixed DEF Load, CopyInv, VerdictsHold
  <2>4. ASSUME ~overlap' PROVE OneActive' /\ CopyIsFresh'
    <3>1. \A q \in Appliers : ~Active(q) /\ (Active(q)' <=> q = p)
      BY <1>2, <2>4 DEF Load, Active, Quiet, TypeOK
    <3> QED
      BY <1>2, <3>1 DEF Load, OneActive, CopyIsFresh, TypeOK
  <2> QED
    BY <2>3, <2>4 DEF CopyInv
<1>3. ASSUME NEW p \in Appliers, List(p) \/ Flush(p) \/ Crash(p) PROVE CopyInv'
  <2>1. VerdictsHold'
    BY <1>3, VerdictIsFixed DEF List, Flush, Crash, CopyInv, VerdictsHold
  <2>2. /\ ~overlap' => ~overlap
        /\ \A q \in Appliers : Active(q)' => Active(q)
        /\ Active(p)
    BY <1>3 DEF List, Flush, Crash, Active, TypeOK, history
  <2>3. ASSUME ~overlap, NEW q \in Appliers, Active(q)'
        PROVE  seen'[q] = stamps'
    <3>1. CASE List(p) \/ Crash(p)
      BY <2>2, <2>3, <3>1 DEF List, Crash, CopyInv, CopyIsFresh
    <3>2. CASE Flush(p)
      BY <2>2, <2>3, <3>2 DEF Flush, CopyInv, OneActive, Active, TypeOK
    <3> QED
      BY <1>3, <3>1, <3>2
  <2> QED
    BY <2>1, <2>2, <2>3 DEF CopyInv, OneActive, CopyIsFresh
<1>4. ASSUME NEW p \in Appliers, NEW o \in Objects, Task(p, o) PROVE CopyInv'
  <2>1. /\ \A q \in Appliers : Active(q)' <=> Active(q)
        /\ UNCHANGED <<stamps, clone, pc, seen, rows, overlap>>
    BY <1>4 DEF Task, Check, NoChange, Write, FailHalfway, Drop, Fail, Active, history
  <2>2. ASSUME NEW q \in Appliers, NEW b \in Objects
        PROVE  /\ stage'[q][b] = "checked" =>
                    stage[q][b] = "checked" \/ MayWrite(q, b) \/ ~IsApply(q)
               /\ stage'[q][b] = "refused" => stage[q][b] = "refused" \/ ~MayWrite(q, b)
    <3>1. CASE Check(p, o)
      <4>1. stage'[q][b] = IF q = p /\ b = o
                           THEN IF MayWrite(p, o) \/ ~IsApply(p) THEN "checked" ELSE "refused"
                           ELSE stage[q][b]
        BY <3>1 DEF Check, TypeOK
      <4> QED
        BY <4>1
    <3>2. CASE ~Check(p, o)
      <4>1. \E end \in {"done", "failed"} : stage' = [stage EXCEPT ![p][o] = end]
        BY <1>4, <3>2 DEF Task, NoChange, Write, FailHalfway, Drop, Fail
      <4>2. stage'[q][b] \in {"done", "failed", stage[q][b]}
        BY <4>1 DEF TypeOK
      <4> QED
        BY <4>2
    <3> QED
      BY <3>1, <3>2
  <2>3. VerdictsHold'
    BY <2>1, <2>2, VerdictIsFixed DEF CopyInv, VerdictsHold
  <2> QED
    BY <2>1, <2>3 DEF CopyInv, OneActive, CopyIsFresh
<1> QED
  BY <1>1, <1>2, <1>3, <1>4 DEF Next, Idle, Step

-----------------------------------------------------------------------------
(* The stamps, while invocations do not overlap.                           *)

LEMMA StampInvInit == Init => StampInv
BY DEF Init, StampInv, RecordedIsWritten, StampsAreRight

\* What a task does to the account, to its history, and to the records.
LEMMA TaskEffect ==
  ASSUME TypeOK, NEW p \in Appliers, NEW o \in Objects, Task(p, o)
  PROVE  /\ Active(p) /\ \A q \in Appliers : Active(q)' <=> Active(q)
         /\ UNCHANGED <<stamps, clone, pc, seen, overlap>>
         /\ \A q \in Appliers : q # p => records'[q] = records[q] /\ stage'[q] = stage[q]
         /\ \A b \in Objects : b # o =>
              /\ deployed'[b] = deployed[b] /\ astray'[b] = astray[b]
              /\ b \in records'[p] <=> b \in records[p]
              /\ stage'[p][b] = stage[p][b]
         /\ stage[p][o] \in {"todo", "checked"} /\ stage'[p][o] # "todo"
         /\ \/ /\ deployed'[o] = deployed[o] /\ astray'[o] = astray[o]
               /\ o \in records'[p] =>
                    o \in records[p] \/ (stage'[p][o] = "done" /\ ~IsApply(p))
            \/ /\ stage[p][o] = "checked" /\ stage'[p][o] = "done"
               /\ deployed'[o] = sha(p) /\ IsApply(p)
               /\ astray'[o] = "none" /\ o \in records'[p]
            \/ /\ stage[p][o] = "checked" /\ stage'[p][o] \in {"done", "failed"}
               /\ deployed'[o] \in {deployed[o], sha(p)} /\ IsApply(p)
               /\ astray'[o] \in Reasons
               /\ o \in records'[p] => o \in records[p] \/ stage'[p][o] = "done"
            \/ deployed'[o] = None /\ astray'[o] = "none" /\ records' = records
<1> USE DEF account, history
<1>1. CASE Check(p, o) \/ NoChange(p, o) \/ Fail(p, o)
  BY <1>1 DEF Check, NoChange, Fail, Active, TypeOK
<1>2. CASE Write(p, o)
  <2>0. PICK result \in Results(p, o) :
          \E execution \in Executions(p, o, result) : Resolve(p, o, result, execution)
    BY <1>2 DEF Write
  <2>1. PICK execution \in Executions(p, o, result) : Resolve(p, o, result, execution)
    BY <2>0
  <2>2. execution # "nothing" => IsApply(p)
    BY DEF Executions
  <2>3. /\ stage[p][o] = "checked" /\ stage' = [stage EXCEPT ![p][o] = "done"]
        /\ pc[p] = "resolving" /\ UNCHANGED <<stamps, clone, pc, seen, rows, overlap>>
    BY <1>2 DEF Write
  <2>4. CASE execution = "nothing"
    BY <2>1, <2>3, <2>4 DEF Resolve, Active, TypeOK, Reasons
  <2>5. CASE execution # "nothing"
    BY <2>1, <2>2, <2>3, <2>5 DEF Resolve, Account, Active, TypeOK, Reasons
  <2> QED
    BY <2>4, <2>5
<1>3. CASE FailHalfway(p, o)
  <2>1. IsApply(p)
    BY <1>3 DEF FailHalfway, Executions
  <2>2. PICK left \in Writes[o].leaves :
          /\ Account(o, IF left = "nothing" THEN None ELSE sha(p), left)
          /\ astray' = [astray EXCEPT ![o] = IF left = "nothing" THEN "none" ELSE "raised"]
    BY <1>3 DEF FailHalfway
  <2> QED
    BY <1>3, <2>1, <2>2 DEF FailHalfway, Account, Active, TypeOK, Reasons
<1>4. CASE Drop(p, o)
  BY <1>4 DEF Drop, Account, Active, TypeOK
<1> QED
  BY <1>1, <1>2, <1>3, <1>4 DEF Task

LEMMA StampInvStep ==
  ASSUME TypeOK, CopyInv, StampInv, [Next]_vars
  PROVE  StampInv'
<1> SUFFICES ASSUME ~overlap'
             PROVE  RecordedIsWritten' /\ StampsAreRight'
  BY DEF StampInv
<1> USE GuardAssumption
<1>0. ~overlap /\ OneActive /\ RecordedIsWritten /\ StampsAreRight
  <2>1. ~overlap
    <3>1. CASE UNCHANGED vars
      BY <3>1 DEF vars, history
    <3>2. ASSUME NEW p \in Appliers, Load(p) PROVE ~overlap
      BY <3>2 DEF Load
    <3>3. ASSUME NEW p \in Appliers, List(p) \/ Flush(p) \/ Crash(p) PROVE ~overlap
      BY <3>3 DEF List, Flush, Crash, history
    <3>4. ASSUME NEW p \in Appliers, NEW o \in Objects, Task(p, o) PROVE ~overlap
      BY <3>4, TaskEffect
    <3> QED
      BY <3>1, <3>2, <3>3, <3>4 DEF Next, Idle, Step
  <2> QED
    BY <2>1 DEF CopyInv, StampInv
<1>1. CASE UNCHANGED vars
  BY <1>0, <1>1 DEF vars, account, history, RecordedIsWritten, StampsAreRight, Active, IsApply,
     sha
<1>2. ASSUME NEW p \in Appliers, Load(p) PROVE RecordedIsWritten' /\ StampsAreRight'
  <2> USE <1>2 DEF Load, account
  <2>1. \A q \in Appliers : ~Active(q) /\ (Active(q)' <=> q = p)
    <3>1. \A q \in Appliers : ~Active(q)
      BY DEF Quiet
    <3>2. \A q \in Appliers : pc'[q] = IF q = p THEN "loaded" ELSE pc[q]
      BY DEF TypeOK
    <3> QED
      BY <3>1, <3>2 DEF Active
  <2>2. records[p] = {}
    BY DEF TypeOK
  <2> QED
    BY <1>0, <2>1, <2>2 DEF RecordedIsWritten, StampsAreRight
<1>3. ASSUME NEW p \in Appliers, List(p) PROVE RecordedIsWritten' /\ StampsAreRight'
  <2>1. \A q \in Appliers : Active(q)' <=> Active(q)
    BY <1>3 DEF List, Active, TypeOK
  <2> QED
    BY <1>0, <1>3, <2>1 DEF List, account, history, RecordedIsWritten, StampsAreRight, IsApply,
       sha
<1>4. ASSUME NEW p \in Appliers, Flush(p) PROVE RecordedIsWritten' /\ StampsAreRight'
  <2> USE <1>4 DEF Flush, account, history
  <2>1. Active(p) /\ \A q \in Appliers : q # p => ~Active(q)
    BY <1>0 DEF Active, OneActive
  <2>2. \A q \in Appliers : ~Active(q)'
    BY <2>1 DEF Active, TypeOK
  <2>3. RecordedIsWritten'
    BY <2>2 DEF RecordedIsWritten
  <2>4. ASSUME NEW o \in Objects, astray'[o] = "none"
        PROVE  None \in {stamps'[o], deployed'[o]} \/ deployed'[o] = stamps'[o]
    <3>1. CASE IsApply(p) /\ o \in records[p]
      BY <1>0, <2>1, <2>4, <3>1 DEF RecordedIsWritten
    <3>2. CASE ~(IsApply(p) /\ o \in records[p])
      BY <1>0, <2>1, <2>4, <3>2 DEF StampsAreRight
    <3> QED
      BY <3>1, <3>2
  <2> QED
    BY <2>3, <2>4 DEF StampsAreRight
<1>5. ASSUME NEW p \in Appliers, Crash(p) PROVE RecordedIsWritten' /\ StampsAreRight'
  <2> USE <1>5 DEF Crash, account
  <2>1. \A q \in Appliers : ~Active(q)'
    BY <1>0 DEF Active, OneActive, TypeOK
  <2>2. ASSUME NEW o \in Objects, astray'[o] = "none"
        PROVE  None \in {stamps'[o], deployed'[o]} \/ deployed'[o] = stamps'[o]
    <3>1. astray[o] = "none" /\ ~(o \in records[p] /\ IsApply(p))
      BY <2>2
    <3>2. \A q \in Appliers : Active(q) => q = p
      BY <1>0 DEF OneActive
    <3> QED
      BY <1>0, <3>1, <3>2 DEF StampsAreRight
  <2> QED
    BY <2>1, <2>2 DEF RecordedIsWritten, StampsAreRight
<1>6. ASSUME NEW p \in Appliers, NEW o \in Objects, Task(p, o)
      PROVE  RecordedIsWritten' /\ StampsAreRight'
  <2>1. /\ Active(p) /\ \A q \in Appliers : Active(q)' <=> Active(q)
        /\ UNCHANGED <<stamps, clone, pc, seen, overlap>>
    BY <1>6, TaskEffect
  <2>2. \A q \in Appliers : Active(q) => q = p
    BY <1>0, <2>1 DEF OneActive
  <2>3. o \notin records[p] /\ records[p] \subseteq Objects /\ records'[p] \subseteq Objects
    <3>1. stage[p][o] # "done" /\ TypeOK'
      BY <1>6, TaskEffect, TypeStep
    <3> QED
      BY <1>0, <2>1, <3>1 DEF RecordedIsWritten, TypeOK
  <2>4. ASSUME NEW b \in records'[p]
        PROVE  stage'[p][b] = "done" /\ (IsApply(p) /\ astray'[b] = "none" => deployed'[b] = sha(p))
    <3>1. CASE b = o
      BY <1>6, <2>3, <3>1, TaskEffect DEF Reasons
    <3>2. CASE b # o
      <4>1. /\ deployed'[b] = deployed[b] /\ astray'[b] = astray[b]
            /\ b \in records[p] /\ stage'[p][b] = stage[p][b]
        BY <1>6, <2>3, <2>4, <3>2, TaskEffect
      <4> QED
        BY <1>0, <2>1, <4>1 DEF RecordedIsWritten
    <3> QED
      BY <3>1, <3>2
  <2>5. ASSUME NEW b \in Objects
        PROVE  \/ astray'[b] # "none"
               \/ None \in {stamps'[b], deployed'[b]} \/ deployed'[b] = stamps'[b]
               \/ IsApply(p) /\ b \in records'[p]
    <3>1. \/ astray[b] # "none"
          \/ None \in {stamps[b], deployed[b]} \/ deployed[b] = stamps[b]
          \/ IsApply(p) /\ b \in records[p]
      BY <1>0, <2>2 DEF StampsAreRight
    <3>2. CASE b = o
      BY <1>6, <2>1, <2>3, <3>1, <3>2, TaskEffect DEF Reasons
    <3>3. CASE b # o
      BY <1>6, <2>1, <3>1, <3>3, TaskEffect
    <3> QED
      BY <3>2, <3>3
  <2> QED
    BY <2>1, <2>2, <2>4, <2>5 DEF RecordedIsWritten, StampsAreRight, IsApply, sha
<1> QED
  BY <1>1, <1>2, <1>3, <1>4, <1>5, <1>6 DEF Next, Idle, Step

-----------------------------------------------------------------------------
\* A step that overwrites a body whose stamp is not astray moves it forward.
LEMMA StepIsForward ==
  ASSUME TypeOK, CopyInv, StampInv, [Next]_vars, ~overlap', NEW o \in Objects, astray[o] = "none"
  PROVE  IsForward(o)
<1> USE GuardAssumption
<1> SUFFICES ASSUME deployed'[o] # deployed[o],
                    None \notin {deployed[o], deployed'[o], stamps[o]}
             PROVE  \/ deployed[o] \in Ancestors[deployed'[o]]
                    \/ \E p \in Appliers : Writer(p, o) /\ HasOverride(p)
  BY DEF IsForward
<1>1. PICK p \in Appliers, b \in Objects : Task(p, b)
  BY DEF Next, Idle, Step, vars, account, Load, List, Flush, Crash
<1>2. /\ b = o /\ Active(p) /\ IsApply(p) /\ deployed'[o] = sha(p)
      /\ stage[p][o] = "checked" /\ stage'[p][o] \in {"failed", "done"}
  <2>1. b = o
    BY <1>1, TaskEffect
  <2> QED
    BY <1>1, <2>1, TaskEffect
<1>3. OneActive /\ CopyIsFresh /\ RecordedIsWritten /\ StampsAreRight
  BY <1>1, TaskEffect DEF CopyInv, StampInv
<1>4. deployed[o] = seen[p][o]
  <2>1. o \notin records[p]
    BY <1>2, <1>3 DEF RecordedIsWritten
  <2>2. deployed[o] = stamps[o]
    BY <1>2, <1>3, <2>1 DEF StampsAreRight, OneActive
  <2> QED
    BY <1>2, <1>3, <2>2 DEF CopyIsFresh
<1>5. MayWrite(p, o)
  BY <1>2 DEF CopyInv, VerdictsHold
<1>6. Writer(p, o)
  BY <1>2 DEF Writer
<1>7. sha(p) \in Commits
  BY DEF TypeOK, sha, CloneRecords
<1> QED
  BY <1>2, <1>4, <1>5, <1>6, <1>7 DEF MayWrite, IsProvenAncestor

LEMMA CopyInvHolds == Spec => []CopyInv
<1>1. TypeOK /\ CopyInv /\ [Next]_vars => CopyInv'
  BY CopyInvStep
<1> QED
  BY <1>1, CopyInvInit, TypeCorrect, PTL DEF Spec

\* No refusal without a reason, whatever was dropped, overridden, suggested or
\* cut short before (load, check): while invocations do not overlap.
THEOREM MergedGetsThrough == Spec => []MergedIsNotRefused
<1>1. TypeOK /\ CopyInv => MergedIsNotRefused
  <2> SUFFICES ASSUME TypeOK, CopyInv, ~overlap, NEW p \in Appliers,
                      Active(p), AccountCommits \subseteq Ancestors[sha(p)], NEW o \in Objects,
                      stage[p][o] = "refused"
               PROVE  FALSE
    BY DEF MergedIsNotRefused
  <2>1. ~MayWrite(p, o) /\ seen[p][o] = stamps[o]
    BY DEF CopyInv, VerdictsHold, CopyIsFresh
  <2>2. stamps[o] \in Ancestors[sha(p)]
    BY <2>1 DEF AccountCommits, MayWrite
  <2>3. Ancestors[sha(p)] \subseteq clone[p].known
    BY GuardAssumption DEF TypeOK, sha
  <2> QED
    BY <2>1, <2>2, <2>3 DEF MayWrite, IsProvenAncestor
<1> QED
  BY <1>1, CopyInvHolds, TypeCorrect, PTL

\* The rule of the guard: while invocations do not overlap, a stamped body is
\* overwritten only from a commit that descends from the one which wrote it, or
\* with the override, whichever tasks raised and appliers died, but for objects
\* that are themselves astray (check, record, flush).
THEOREM NothingMovesBackwards == Spec => NeverBackwards
<1>1. Spec => [](TypeOK /\ CopyInv /\ StampInv)
  <2>1. TypeOK /\ CopyInv /\ StampInv /\ [Next]_vars => StampInv'
    BY StampInvStep
  <2> QED
    BY <2>1, StampInvInit, CopyInvHolds, TypeCorrect, PTL DEF Spec
<1>2. TypeOK /\ CopyInv /\ StampInv /\ [Next]_vars =>
        [~overlap' => \A o \in Objects : astray[o] = "none" => IsForward(o)]_vars
  BY StepIsForward
<1> QED
  BY <1>1, <1>2, PTL DEF Spec, NeverBackwards

\* The stamps are right whenever nothing runs, but for the four reasons (Reasons);
\* an object is over them with its next recorded write (record, flush).
THEOREM StampsAreTrue == Spec => []StampsNameTheWriter
<1>1. TypeOK /\ CopyInv /\ StampInv /\ [Next]_vars => StampInv'
  BY StampInvStep
<1>2. TypeOK /\ StampInv => StampsNameTheWriter
  BY DEF TypeOK, StampInv, StampsAreRight, StampsNameTheWriter, Quiet, Reasons
<1> QED
  BY <1>1, <1>2, StampInvInit, CopyInvHolds, TypeCorrect, PTL DEF Spec

=============================================================================
