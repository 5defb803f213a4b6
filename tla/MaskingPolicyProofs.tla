------------------------- MODULE MaskingPolicyProofs -------------------------
(***************************************************************************)
(* The handover of columns between masking policies, for every number of   *)
(* policies, columns, applies and failures: a column that moves from one   *)
(* declared policy to another is masked all the way and stays masked, if   *)
(* no policy that is to lose a column has to be replaced.  The condition   *)
(* cannot be dropped: with AllStarts of MCMaskingPolicy in place of        *)
(* CarefulStarts a column is unmasked by the replacement.                  *)
(*                                                                         *)
(* And what an apply achieves: Snowflake refuses no statement in any order *)
(* of the workers, and one in which nothing failed leaves every declared   *)
(* policy on exactly its columns, as a Reconciler does.  The second needs  *)
(* the condition, the first does not.                                      *)
(***************************************************************************)
EXTENDS MaskingPolicy, TLAPS

\* A policy whose signature changes loses no column to another policy.
Careful ==
  \A s \in Starts : \A p, q \in s.declared : \A c \in Columns :
    "signature" \in s.drift[p] /\ s.masks[c] = p /\ c \in s.references[q] => p = q

-----------------------------------------------------------------------------
(* The inductive invariant.                                                *)

ClaimsAreDisjoint ==
  /\ \A p, q \in Policies : \A c \in Columns :
       c \in references[p] /\ c \in references[q] => p = q
  /\ \A p \in Policies \ declared : references[p] = {}

\* A policy to be replaced is on no column that another policy claims.
ReplacedKeepsItsColumns ==
  \A p \in declared : \A c \in Columns :
    "signature" \in drift[p] /\ masks[c] = p =>
      \A q \in Policies \ {p} : c \notin references[q]

\* What a worker knows of the columns it is still to unset or set.
WorkerIsRight(p) ==
  LET t == task[p]
  IN  /\ t.step \in {"set", "probed", "create"} => pc = "create"
      /\ t.step = "unset" => \A c \in t.lost : masks[c] = p
      /\ t.step = "unset" /\ pc = "create" =>
           "signature" \in drift[p]
             /\ \A c \in t.lost : \A q \in Policies \ {p} : c \notin references[q]
      /\ t.step = "create" => t.lost = {}
      /\ t.step \in {"set", "probed"} => t.lost \cap references[p] = {} /\ t.new \subseteq references[p]
      /\ t.step \in {"set", "probed"} => \A c \in t.lost :
           masks[c] \in {p, None} \/ \E q \in Policies \ {p} : c \in references[q]
      /\ t.step = "probed" => t.column \in references[p]

WorkersAreRight == \A p \in Policies : WorkerIsRight(p)

HandoverInv == ClaimsAreDisjoint /\ ReplacedKeepsItsColumns /\ WorkersAreRight

-----------------------------------------------------------------------------
LEMMA TypeCorrectInit == Init => TypeOK
<1> USE MaskingAssumption
<1> SUFFICES ASSUME Init PROVE TypeOK
  OBVIOUS
<1>1. PICK s \in Starts :
        /\ declared = s.declared /\ references = s.references
        /\ policies = s.policies /\ masks = s.masks /\ drift = s.drift
  BY DEF Init
<1>2. s \in StartRecords /\ \A c \in Columns : s.masks[c] \in s.policies \cup {None}
  OBVIOUS
<1>3. task \in [Policies -> Tasks] /\ \A p \in Policies : task[p].step = "none"
  BY DEF Init, Tasks, Steps, NoTask
<1> QED
  BY <1>1, <1>2, <1>3 DEF Init, TypeOK, StartRecords

\* The variables keep their types, columns carry existing policies, and tasks
\* belong to the phase (every step of MaskingPolicy).
THEOREM TypeCorrect == Spec => []TypeOK
<1> USE MaskingAssumption
<1>1. Init => TypeOK
  BY TypeCorrectInit
<1>2. TypeOK /\ [Next]_vars => TypeOK'
  <2> SUFFICES ASSUME TypeOK, [Next]_vars PROVE TypeOK'
    OBVIOUS
  <2>1. \A s \in SUBSET Policies : Queued(s) \in [Policies -> Tasks]
           /\ \A p \in Policies : Queued(s)[p].step # "none" <=> p \in s
    BY DEF Queued, NoTask, Tasks, Steps
  <2>2. [p \in Policies |-> NoTask] \in [Policies -> Tasks] /\ NoTask.step = "none"
    BY DEF NoTask, Tasks, Steps
  <2>3. CASE UNCHANGED vars
    BY <2>3 DEF vars, TypeOK
  <2>4. CASE Begin
    <3>1. CASE declared = {}
      BY <2>4, <3>1 DEF Begin, TypeOK, account
    <3>2. CASE declared # {}
      BY <2>4, <3>2, <2>1 DEF Begin, DropTargets, TypeOK, account
    <3> QED
      BY <3>1, <3>2
  <2>5. CASE SubmitBatch
    BY <2>5, <2>1 DEF SubmitBatch, TypeOK, account
  <2>6. CASE Finish
    BY <2>6, <2>2 DEF Finish, TypeOK, account
  <2>7. CASE Crash
    <3>1. faults' \in 0..MaxFaults
      BY <2>7 DEF Crash, TypeOK
    <3>2. /\ pc' = "start" /\ ok' = FALSE
          /\ task' \in [Policies -> Tasks] /\ \A p \in Policies : task'[p].step = "none"
          /\ UNCHANGED <<declared, references, policies, masks, drift, applies, existing>>
      BY <2>7, <2>2 DEF Crash, account
    <3> QED
      BY <3>1, <3>2 DEF TypeOK
  <2>8. ASSUME NEW p \in Policies, Worker(p) PROVE TypeOK'
    <3>0. /\ task[p] \in Tasks
          /\ task[p].lost \subseteq Columns /\ task[p].new \subseteq Columns
          /\ task[p].column \in Columns \cup {None} /\ task[p].step \in Steps
      BY DEF TypeOK, Tasks
    <3>1. CASE Read(p)
      <4>1. task'[p] \in Tasks
        BY <3>1 DEF Read, TypeOK, PolicyRefs, Tasks, Steps, NoTask
      <4> QED
        BY <4>1, <3>1 DEF Read, TypeOK, account
    <3>2. CASE DropPolicy(p)
      <4>1. task'[p] \in Tasks
        BY <3>0, <3>2 DEF DropPolicy, Go, TypeOK, Tasks, Steps
      <4> QED
        BY <4>1, <3>2 DEF DropPolicy, Go, CanDrop, PolicyRefs, TypeOK
    <3>3. CASE CreatePolicy(p)
      <4>1. task'[p] \in Tasks
        BY <3>0, <3>3 DEF CreatePolicy, TypeOK, Tasks, Steps
      <4> QED
        BY <4>1, <3>3 DEF CreatePolicy, TypeOK, Aspects
    <3>4. CASE SetMask(p)
      <4>1. task'[p] \in Tasks
        BY <3>0, <3>4 DEF SetMask, TypeOK, Tasks, Steps
      <4> QED
        BY <4>1, <3>4 DEF SetMask, CanSet, TypeOK
    <3>5. CASE Return(p)
      <4>1. task'[p] \in Tasks
        BY <3>0, <3>5 DEF Return, Go, TypeOK, Tasks, Steps
      <4> QED
        BY <4>1, <3>5 DEF Return, Go, TypeOK, account
    <3>6. CASE Fail(p)
      <4>1. task'[p] \in Tasks
        BY <3>0, <3>6 DEF Fail, Go, TypeOK, Tasks, Steps
      <4>2. task[p].step # "none" /\ faults' \in 0..MaxFaults
        BY <3>6 DEF Fail, IsRefused, HasMore, TypeOK
      <4> QED
        BY <4>1, <4>2, <3>6 DEF Fail, Go, TypeOK, account
    <3>7. ASSUME NEW c \in Columns, Unset(p, c) PROVE TypeOK'
      <4>1. task'[p] \in Tasks
        BY <3>0, <3>7 DEF Unset, TypeOK, Tasks, Steps
      <4> QED
        BY <4>1, <3>7 DEF Unset, TypeOK
    <3>8. ASSUME NEW c \in Columns, Probe(p, c) PROVE TypeOK'
      <4>1. task'[p] \in Tasks
        BY <3>0, <3>8 DEF Probe, HasOther, TypeOK, Tasks, Steps
      <4> QED
        BY <4>1, <3>8 DEF Probe, TypeOK, account
    <3>9. ASSUME NEW c \in Columns, Release(p, c) PROVE TypeOK'
      <4>1. task'[p] \in Tasks
        BY <3>0, <3>9 DEF Release, TypeOK, Tasks, Steps
      <4> QED
        BY <4>1, <3>9 DEF Release, TypeOK
    <3>10. ASSUME NEW a \in Aspects, Alter(p, a) PROVE TypeOK'
      BY <3>10 DEF Alter, TypeOK
    <3> QED
      BY <2>8, <3>1, <3>2, <3>3, <3>4, <3>5, <3>6, <3>7, <3>8, <3>9, <3>10 DEF Worker
  <2> QED
    BY <2>3, <2>4, <2>5, <2>6, <2>7, <2>8 DEF Next, Main, Idle
<1> QED
  BY <1>1, <1>2, PTL DEF Spec

-----------------------------------------------------------------------------
\* The configuration never changes.
LEMMA SameBlueprints == [Next]_vars => UNCHANGED <<declared, references>>
<1>1. UNCHANGED vars => UNCHANGED <<declared, references>>
  BY DEF vars
<1>2. Main => UNCHANGED <<declared, references>>
  BY DEF Main, Begin, SubmitBatch, Finish, Crash
<1>3. ASSUME NEW p \in Policies, Worker(p) PROVE UNCHANGED <<declared, references>>
  BY <1>3 DEF Worker, Read, Unset, DropPolicy, CreatePolicy, Probe, SetMask, Release,
     Alter, Return, Fail
<1> QED
  BY <1>1, <1>2, <1>3 DEF Next, Idle

\* The steps of a worker leave the phase and the listing alone, and the task,
\* the presence and the drift of every other policy.
LEMMA OnlyItsOwn ==
  ASSUME TypeOK, NEW p \in Policies, Worker(p)
  PROVE  /\ pc' = pc /\ existing' = existing /\ applies' = applies
         /\ \A q \in Policies \ {p} :
              /\ task'[q] = task[q]
              /\ drift'[q] = drift[q]
              /\ q \in policies' <=> q \in policies
<1>1. CASE Read(p)
  BY <1>1 DEF Read, TypeOK, account
<1>2. CASE DropPolicy(p)
  BY <1>2 DEF DropPolicy, Go, TypeOK
<1>3. CASE CreatePolicy(p)
  BY <1>3 DEF CreatePolicy, TypeOK
<1>4. CASE SetMask(p)
  BY <1>4 DEF SetMask, TypeOK
<1>5. CASE Return(p)
  BY <1>5 DEF Return, Go, TypeOK, account
<1>6. CASE Fail(p)
  <2>1. UNCHANGED <<policies, drift, pc, existing, applies>>
    BY <1>6 DEF Fail, account
  <2>2. task' = [task EXCEPT ![p].step = "failed"]
    BY <1>6 DEF Fail, Go
  <2> QED
    BY <2>1, <2>2 DEF TypeOK
<1>7. ASSUME NEW c \in Columns, Unset(p, c) \/ Probe(p, c) \/ Release(p, c)
      PROVE  /\ UNCHANGED <<policies, drift, pc, existing, applies>>
             /\ \A q \in Policies \ {p} : task'[q] = task[q]
  <2>1. UNCHANGED <<policies, drift, pc, existing, applies>>
    BY <1>7 DEF Unset, Probe, Release, account
  <2>2. CASE Unset(p, c)
    BY <2>1, <2>2 DEF Unset, TypeOK
  <2>3. CASE Probe(p, c)
    BY <2>1, <2>3 DEF Probe, TypeOK
  <2>4. CASE Release(p, c)
    BY <2>1, <2>4 DEF Release, TypeOK
  <2> QED
    BY <1>7, <2>2, <2>3, <2>4
<1>8. ASSUME NEW a \in Aspects, Alter(p, a)
      PROVE  /\ UNCHANGED <<policies, task, pc, existing, applies>>
             /\ \A q \in Policies \ {p} : drift'[q] = drift[q]
  BY <1>8 DEF Alter, TypeOK
<1> QED
  BY <1>1, <1>2, <1>3, <1>4, <1>5, <1>6, <1>7, <1>8 DEF Worker

-----------------------------------------------------------------------------
LEMMA HandoverInvInit == ASSUME Careful, Init PROVE HandoverInv
<1> USE MaskingAssumption
<1>1. PICK s \in Starts :
        /\ declared = s.declared /\ references = s.references
        /\ masks = s.masks /\ drift = s.drift
        /\ task = [p \in Policies |-> NoTask]
  BY DEF Init
<1>2. /\ s \in StartRecords
      /\ \A p \in Policies \ s.declared : s.references[p] = {}
      /\ \A p, q \in Policies : p # q => s.references[p] \cap s.references[q] = {}
  OBVIOUS
<1>3. ClaimsAreDisjoint
  BY <1>1, <1>2 DEF ClaimsAreDisjoint
<1>4. ReplacedKeepsItsColumns
  <2> SUFFICES ASSUME NEW p \in declared, NEW c \in Columns, NEW q \in Policies \ {p},
                      "signature" \in drift[p], masks[c] = p, c \in references[q]
               PROVE  FALSE
    BY DEF ReplacedKeepsItsColumns
  <2>1. q \in declared
    BY <1>1, <1>2
  <2> QED
    BY <1>1, <2>1 DEF Careful
<1>5. WorkersAreRight
  BY <1>1 DEF WorkersAreRight, WorkerIsRight, NoTask
<1> QED
  BY <1>3, <1>4, <1>5 DEF HandoverInv

LEMMA HandoverInvStep ==
  ASSUME TypeOK, HandoverInv, [Next]_vars
  PROVE  HandoverInv'
<1> USE MaskingAssumption
<1>1. UNCHANGED <<declared, references>>
  BY SameBlueprints
<1>2. ClaimsAreDisjoint'
  BY <1>1 DEF HandoverInv, ClaimsAreDisjoint
<1>3. CASE UNCHANGED vars
  <2>1. UNCHANGED <<references, declared, masks, drift, pc, task>>
    BY <1>3 DEF vars
  <2>2. ReplacedKeepsItsColumns'
    BY <2>1 DEF HandoverInv, ReplacedKeepsItsColumns
  <2>3. ASSUME NEW p \in Policies PROVE WorkerIsRight(p)'
    <3>1. WorkerIsRight(p)
      BY DEF HandoverInv, WorkersAreRight
    <3> QED
      BY <2>1, <3>1 DEF WorkerIsRight
  <2> QED
    BY <1>2, <2>2, <2>3 DEF HandoverInv, WorkersAreRight
<1>4. CASE Main
  <2>1. UNCHANGED <<masks, drift>>
    BY <1>4 DEF Main, Begin, SubmitBatch, Finish, Crash, account
  <2>2. ASSUME NEW p \in Policies
        PROVE  task'[p].step \in {"none", "read"} \/ UNCHANGED <<pc, task>>
    BY <1>4, <2>2 DEF Main, Begin, DropTargets, SubmitBatch, Finish, Crash, Queued, NoTask
  <2>3. WorkersAreRight'
    BY <1>1, <2>1, <2>2 DEF HandoverInv, WorkersAreRight, WorkerIsRight
  <2> QED
    BY <1>1, <1>2, <2>1, <2>3 DEF HandoverInv, ReplacedKeepsItsColumns
<1>5. ASSUME NEW p \in Policies, Worker(p) PROVE HandoverInv'
  <2>1. pc' = pc /\ \A q \in Policies \ {p} : task'[q] = task[q]
    BY <1>5, OnlyItsOwn
  <2>2. SUFFICES ReplacedKeepsItsColumns' /\ WorkersAreRight'
    BY <1>2 DEF HandoverInv
  \* A step that changes neither masks nor drift concerns this worker only.
  <2>3. ASSUME UNCHANGED <<masks, drift>>, WorkerIsRight(p)'
        PROVE  ReplacedKeepsItsColumns' /\ WorkersAreRight'
    <3>1. ASSUME NEW q \in Policies PROVE WorkerIsRight(q)'
      <4>1. CASE q = p
        BY <2>3, <4>1
      <4>2. CASE q # p
        BY <1>1, <2>1, <2>3, <4>2 DEF HandoverInv, WorkersAreRight, WorkerIsRight
      <4> QED
        BY <4>1, <4>2
    <3> QED
      BY <1>1, <2>3, <3>1 DEF HandoverInv, ReplacedKeepsItsColumns, WorkersAreRight
  <2>4. WorkerIsRight(p)
    BY DEF HandoverInv, WorkersAreRight
  <2>5. CASE Read(p)
    <3>1. pc \in {"drop", "create"} /\ (pc = "drop" <=> p \notin declared)
      BY <2>5 DEF Read, TypeOK
    <3>2. CASE pc = "drop" \/ (p \in existing /\ "signature" \in drift[p])
      <4>1. task'[p].step = "unset" /\ task'[p].lost = PolicyRefs(p)
        BY <2>5, <3>2 DEF Read, NoTask, TypeOK
      <4>2. pc = "create" => "signature" \in drift[p] /\ p \in declared
        BY <3>1, <3>2
      <4>3. WorkerIsRight(p)'
        BY <1>1, <2>1, <2>5, <4>1, <4>2 DEF Read, account, PolicyRefs, WorkerIsRight,
           HandoverInv, ReplacedKeepsItsColumns
      <4> QED
        BY <2>3, <2>5, <4>3 DEF Read, account
    <3>3. CASE ~(pc = "drop" \/ (p \in existing /\ "signature" \in drift[p]))
      <4>1. \/ task'[p].step = "create" /\ task'[p].lost = {}
            \/ /\ task'[p].step = "set"
               /\ task'[p].lost = PolicyRefs(p) \ references[p]
               /\ task'[p].new = references[p] \ PolicyRefs(p)
        BY <2>5, <3>3 DEF Read, NoTask, TypeOK
      <4>2. WorkerIsRight(p)'
        BY <1>1, <2>1, <2>5, <3>1, <3>3, <4>1 DEF WorkerIsRight, PolicyRefs, Read, account
      <4> QED
        BY <2>3, <2>5, <4>2 DEF Read, account
    <3> QED
      BY <3>2, <3>3
  <2>6. ASSUME NEW c \in Columns, Unset(p, c)
        PROVE  ReplacedKeepsItsColumns' /\ WorkersAreRight'
    <3>1. /\ masks' = [masks EXCEPT ![c] = None] /\ drift' = drift
          /\ task'[p] = [task[p] EXCEPT !.lost = @ \ {c}]
          /\ task[p].step = "unset" /\ c \in task[p].lost /\ masks[c] = p
      BY <2>4, <2>6 DEF Unset, TypeOK, WorkerIsRight
    <3>2. \A b \in Columns : masks'[b] = masks[b] \/ (b = c /\ masks'[b] = None)
      BY <3>1 DEF TypeOK
    <3>3. ReplacedKeepsItsColumns'
      BY <1>1, <3>1, <3>2 DEF HandoverInv, ReplacedKeepsItsColumns, TypeOK
    <3>4. ASSUME NEW q \in Policies PROVE WorkerIsRight(q)'
      <4>1. CASE q = p
        BY <1>1, <2>1, <2>4, <3>1, <3>2, <4>1 DEF WorkerIsRight, TypeOK, Tasks
      <4>2. CASE q # p
        <5>1. WorkerIsRight(q) /\ task'[q] = task[q]
          BY <2>1, <4>2 DEF HandoverInv, WorkersAreRight
        <5>2. task[q].step = "unset" => c \notin task[q].lost
          BY <3>1, <4>2, <5>1 DEF WorkerIsRight
        <5> QED
          BY <1>1, <2>1, <3>1, <3>2, <5>1, <5>2 DEF WorkerIsRight, TypeOK, Tasks
      <4> QED
        BY <4>1, <4>2
    <3> QED
      BY <2>2, <3>3, <3>4 DEF WorkersAreRight
  <2>7. CASE DropPolicy(p)
    <3>1. WorkerIsRight(p)'
      BY <1>1, <2>1, <2>4, <2>7 DEF DropPolicy, Go, WorkerIsRight, TypeOK, Tasks
    <3> QED
      BY <2>2, <2>3, <2>7, <3>1 DEF DropPolicy
  <2>8. CASE CreatePolicy(p)
    <3>1. /\ masks' = masks /\ drift' = [drift EXCEPT ![p] = {}]
          /\ task[p].step = "create"
          /\ task'[p].step = "set" /\ task'[p].new = references[p]
          /\ task'[p].lost = task[p].lost
      BY <2>8 DEF CreatePolicy, TypeOK, Tasks
    <3>2. /\ drift'[p] = {}
          /\ \A q \in Policies \ {p} : drift'[q] = drift[q]
      BY <3>1 DEF TypeOK
    <3>3. ReplacedKeepsItsColumns'
      BY <1>1, <3>1, <3>2 DEF HandoverInv, ReplacedKeepsItsColumns, TypeOK
    <3>4. ASSUME NEW q \in Policies PROVE WorkerIsRight(q)'
      <4>1. CASE q = p
        BY <1>1, <2>1, <2>4, <3>1, <4>1 DEF WorkerIsRight, TypeOK, Tasks
      <4>2. CASE q # p
        BY <1>1, <2>1, <3>1, <3>2, <4>2 DEF HandoverInv, WorkersAreRight, WorkerIsRight
      <4> QED
        BY <4>1, <4>2
    <3> QED
      BY <2>2, <3>3, <3>4 DEF WorkersAreRight
  <2>9. ASSUME NEW c \in Columns, Probe(p, c)
        PROVE  ReplacedKeepsItsColumns' /\ WorkersAreRight'
    <3>1. /\ UNCHANGED <<masks, drift>> /\ task[p].step = "set" /\ c \in task[p].new
          /\ task'[p].step = "probed" /\ task'[p].column = c
          /\ task'[p].lost = task[p].lost /\ task'[p].new = task[p].new
      BY <2>9 DEF Probe, account, TypeOK, Tasks
    <3>2. WorkerIsRight(p)'
      BY <1>1, <2>1, <2>4, <3>1 DEF WorkerIsRight
    <3> QED
      BY <2>2, <2>3, <3>1, <3>2
  <2>10. CASE SetMask(p)
    <3> DEFINE c == task[p].column
    <3>1. /\ masks' = [masks EXCEPT ![c] = p] /\ drift' = drift
          /\ task[p].step = "probed" /\ task'[p].step = "set"
          /\ task'[p].lost = task[p].lost /\ task'[p].new \subseteq task[p].new
      BY <2>10 DEF SetMask, TypeOK, Tasks
    <3>2. /\ c \in references[p] /\ c \in Columns
          /\ \A q \in Policies \ {p} : c \notin references[q]
      BY <2>4, <3>1 DEF WorkerIsRight, HandoverInv, ClaimsAreDisjoint, TypeOK
    <3>3. \A b \in Columns : b # c => masks'[b] = masks[b]
      BY <3>1 DEF TypeOK
    <3>4. masks'[c] = p
      BY <3>1, <3>2 DEF TypeOK
    <3>5. ReplacedKeepsItsColumns'
      BY <1>1, <3>1, <3>2, <3>3, <3>4 DEF HandoverInv, ReplacedKeepsItsColumns
    <3>6. ASSUME NEW q \in Policies PROVE WorkerIsRight(q)'
      <4>1. CASE q = p
        BY <1>1, <2>1, <2>4, <3>1, <4>1 DEF WorkerIsRight
      <4>2. CASE q # p
        <5>1. WorkerIsRight(q) /\ task'[q] = task[q] /\ task[q].lost \subseteq Columns
          BY <2>1, <4>2 DEF HandoverInv, WorkersAreRight, TypeOK, Tasks
        <5>2. task[q].step = "unset" => pc = "create"
          BY <2>4, <3>1 DEF WorkerIsRight
        <5>3. task[q].step = "unset" => c \notin task[q].lost
          BY <3>2, <4>2, <5>1, <5>2 DEF WorkerIsRight
        <5>4. \A b \in task[q].lost : masks'[b] \in {q, None} \/ masks[b] \notin {q, None}
                 \/ (\E r \in Policies \ {q} : b \in references[r])
          BY <3>2, <3>3, <4>2, <5>1
        <5> QED
          BY <1>1, <2>1, <3>1, <3>3, <5>1, <5>3, <5>4 DEF WorkerIsRight
      <4> QED
        BY <4>1, <4>2
    <3> QED
      BY <2>2, <3>5, <3>6 DEF WorkersAreRight
  <2>11. ASSUME NEW c \in Columns, Release(p, c)
        PROVE  ReplacedKeepsItsColumns' /\ WorkersAreRight'
    <3>1. /\ drift' = drift /\ task[p].step = "set" /\ task'[p].step = "set"
          /\ task'[p].lost \subseteq task[p].lost /\ task'[p].new = task[p].new
          /\ masks' = masks \/ masks' = [masks EXCEPT ![c] = None]
      BY <2>11 DEF Release, TypeOK, Tasks
    <3>2. \A b \in Columns : masks'[b] = masks[b] \/ (b = c /\ masks'[b] = None)
      BY <3>1 DEF TypeOK
    <3>3. ReplacedKeepsItsColumns'
      BY <1>1, <3>1, <3>2 DEF HandoverInv, ReplacedKeepsItsColumns, TypeOK
    <3>4. masks[c] \in {p, None} \/ masks' = masks
      <4>1. CASE IsClaimed(p, c)
        BY <2>11, <4>1 DEF Release
      <4>2. CASE ~IsClaimed(p, c)
        <5>1. \A q \in Policies \ {p} : c \notin references[q]
          BY <4>2 DEF IsClaimed, HandoverInv, ClaimsAreDisjoint
        <5> QED
          BY <2>4, <2>11, <3>1, <5>1 DEF Release, WorkerIsRight
      <4> QED
        BY <4>1, <4>2
    <3>5. ASSUME NEW q \in Policies PROVE WorkerIsRight(q)'
      <4>1. CASE q = p
        BY <1>1, <2>1, <2>4, <3>1, <3>2, <4>1 DEF WorkerIsRight, TypeOK, Tasks
      <4>2. CASE q # p
        <5>1. WorkerIsRight(q) /\ task'[q] = task[q] /\ task[q].lost \subseteq Columns
          BY <2>1, <4>2 DEF HandoverInv, WorkersAreRight, TypeOK, Tasks
        <5>2. task[q].step = "unset" => c \notin task[q].lost \/ masks' = masks
          BY <3>4, <4>2, <5>1 DEF WorkerIsRight
        <5> QED
          BY <1>1, <2>1, <3>1, <3>2, <5>1, <5>2 DEF WorkerIsRight
      <4> QED
        BY <4>1, <4>2
    <3> QED
      BY <3>3, <3>5 DEF WorkersAreRight
  <2>12. ASSUME NEW a \in Aspects, Alter(p, a)
         PROVE  ReplacedKeepsItsColumns' /\ WorkersAreRight'
    <3>1. /\ UNCHANGED <<masks, task>> /\ task[p].step = "set"
          /\ drift' = [drift EXCEPT ![p] = @ \ {a}]
      BY <2>12 DEF Alter
    <3>2. \A q \in Policies : drift'[q] \subseteq drift[q] /\ (q # p => drift'[q] = drift[q])
      BY <3>1 DEF TypeOK
    <3>3. ReplacedKeepsItsColumns'
      BY <1>1, <3>1, <3>2 DEF HandoverInv, ReplacedKeepsItsColumns, TypeOK
    <3>4. ASSUME NEW q \in Policies PROVE WorkerIsRight(q)'
      BY <1>1, <2>1, <3>1, <3>2 DEF HandoverInv, WorkersAreRight, WorkerIsRight
    <3> QED
      BY <3>3, <3>4 DEF WorkersAreRight
  <2>13. CASE Return(p)
    <3>1. task'[p].step = "none" /\ UNCHANGED <<masks, drift>>
      BY <2>13 DEF Return, Go, account, TypeOK, Tasks
    <3> QED
      BY <2>2, <2>3, <3>1 DEF WorkerIsRight
  <2>14. CASE Fail(p)
    <3>1. task'[p].step = "failed" /\ UNCHANGED <<masks, drift>>
      BY <2>14 DEF Fail, Go, account, TypeOK, Tasks
    <3> QED
      BY <2>2, <2>3, <3>1 DEF WorkerIsRight
  <2> QED
    BY <1>5, <2>2, <2>5, <2>6, <2>7, <2>8, <2>9, <2>10, <2>11, <2>12, <2>13, <2>14
       DEF Worker
<1> QED
  BY <1>3, <1>4, <1>5 DEF Next, Idle

-----------------------------------------------------------------------------
\* One step, for both properties: what happens to a claimed column.
LEMMA ClaimedColumns ==
  ASSUME TypeOK, HandoverInv, [Next]_vars, NEW c \in Columns, masks'[c] # masks[c],
         NEW q \in declared, c \in references[q]
  PROVE  \/ masks'[c] = q
         \/ /\ masks'[c] = None
            /\ masks[c] = q => "signature" \in drift[q]
            /\ masks[c] \in declared => masks[c] = q
<1> USE MaskingAssumption
<1>1. PICK p \in Policies : \/ SetMask(p) \/ \E b \in Columns : Unset(p, b) \/ Release(p, b)
  BY DEF Next, Main, Worker, Idle, vars, account, Begin, SubmitBatch, Finish, Crash, Read,
     DropPolicy, CreatePolicy, Probe, Alter, Return, Fail
<1>2. WorkerIsRight(p) /\ q \in Policies
  BY DEF HandoverInv, WorkersAreRight, TypeOK
<1>3. CASE SetMask(p)
  <2>1. task[p].column = c /\ masks'[c] = p
    BY <1>3 DEF SetMask, TypeOK
  <2>2. c \in references[p]
    BY <1>2, <1>3, <2>1 DEF SetMask, WorkerIsRight
  <2> QED
    BY <1>2, <2>1, <2>2 DEF HandoverInv, ClaimsAreDisjoint
<1>4. ASSUME NEW b \in Columns, Unset(p, b) PROVE masks'[c] = None
        /\ (masks[c] = q => "signature" \in drift[q]) /\ (masks[c] \in declared => masks[c] = q)
  <2>1. b = c /\ masks'[c] = None /\ masks[c] = p /\ task[p].step = "unset" /\ c \in task[p].lost
    BY <1>2, <1>4 DEF Unset, TypeOK, WorkerIsRight
  <2>2. p \in declared => pc = "create"
    BY <2>1 DEF TypeOK
  <2> QED
    BY <1>2, <2>1, <2>2 DEF WorkerIsRight
<1>5. ASSUME NEW b \in Columns, Release(p, b) PROVE FALSE
  <2>1. b = c /\ ~IsClaimed(p, c) /\ task[p].step = "set" /\ c \in task[p].lost
    BY <1>5 DEF Release, TypeOK
  <2>2. q = p
    BY <2>1 DEF IsClaimed
  <2> QED
    BY <1>2, <2>1, <2>2 DEF WorkerIsRight
<1> QED
  BY <1>1, <1>3, <1>4, <1>5

\* The invariant holds, under the condition.
LEMMA HandoverHolds == ASSUME Careful PROVE Spec => [](TypeOK /\ HandoverInv)
<1>1. TypeOK /\ HandoverInv /\ [Next]_vars => HandoverInv'
  BY HandoverInvStep
<1>2. Init => HandoverInv
  BY HandoverInvInit
<1> QED
  BY <1>1, <1>2, TypeCorrect, PTL DEF Spec

\* A column on its way from one declared policy to another is never without
\* one, whatever the order of the workers, failures and crashes
\* (_apply_policy_refs: FORCE, and the UNSET that is skipped).
THEOREM MovesUnderCover == ASSUME Careful PROVE Spec => MovingStaysMasked
<1>1. Spec => [](TypeOK /\ HandoverInv)
  BY HandoverHolds
<1>2. TypeOK /\ HandoverInv /\ [Next]_vars =>
        [\A c \in Columns : IsMoving(c) => masks'[c] # None]_vars
  <2> SUFFICES ASSUME TypeOK, HandoverInv, [Next]_vars, NEW c \in Columns, IsMoving(c)
               PROVE  masks'[c] # None
    OBVIOUS
  <2>1. PICK q \in declared \ {masks[c]} : c \in references[q]
    BY DEF IsMoving
  <2>2. None \notin declared
    BY MaskingAssumption DEF TypeOK
  <2> QED
    BY <2>1, <2>2, ClaimedColumns DEF IsMoving
<1> QED
  BY <1>1, <1>2, PTL DEF Spec, MovingStaysMasked

\* And where it has arrived it stays, but for a replacement of that policy.
THEOREM ArrivedIsFinal == ASSUME Careful PROVE Spec => ArrivedStaysMasked
<1>1. Spec => [](TypeOK /\ HandoverInv)
  BY HandoverHolds
<1>2. TypeOK /\ HandoverInv /\ [Next]_vars =>
        [\A c \in Columns : IsInPlace(c) =>
           masks'[c] = masks[c] \/ "signature" \in drift[masks[c]]]_vars
  <2> SUFFICES ASSUME TypeOK, HandoverInv, [Next]_vars, NEW c \in Columns, IsInPlace(c),
                      masks'[c] # masks[c]
               PROVE  "signature" \in drift[masks[c]]
    OBVIOUS
  <2> QED
    BY ClaimedColumns DEF IsInPlace
<1> QED
  BY <1>1, <1>2, PTL DEF Spec, ArrivedStaysMasked

-----------------------------------------------------------------------------
(* Why no statement is refused.                                            *)

\* The listing that the tasks rely on (existing_objects) is still right when
\* the drops are over: they are of policies without a blueprint.
ListingIsRight == pc = "drop" => \A p \in declared : p \in existing <=> p \in policies

\* The statement a worker is at fits the account.
StatementFits(p) ==
  LET t == task[p]
  IN  /\ t.step = "read" /\ pc = "drop" => p \in policies
      /\ t.step = "read" /\ pc = "create" => (p \in existing <=> p \in policies)
      /\ t.step = "unset" => p \in policies /\ PolicyRefs(p) \subseteq t.lost
      /\ t.step = "create" => p \notin policies
      /\ t.step \in {"set", "probed"} =>
           p \in policies /\ t.new \subseteq references[p] \ PolicyRefs(p)
      /\ t.step = "probed" => t.column \in t.new /\ (t.force \/ masks[t.column] = None)

StatementsFit == \A p \in Policies : StatementFits(p)

FitInv == ClaimsAreDisjoint /\ ListingIsRight /\ StatementsFit

-----------------------------------------------------------------------------
(* Who changes the policy of a column.                                     *)
LEMMA MaskSteps ==
  ASSUME TypeOK, NEW p \in Policies, Worker(p), NEW c \in Columns, masks'[c] # masks[c]
  PROVE  \/ SetMask(p) /\ c = task[p].column /\ masks'[c] = p
         \/ Unset(p, c) /\ masks'[c] = None
         \/ Release(p, c) /\ ~IsClaimed(p, c) /\ masks'[c] = None
<1>1. \/ SetMask(p) \/ \E b \in Columns : Unset(p, b) \/ Release(p, b)
  BY DEF Worker, account, Read, DropPolicy, CreatePolicy, Probe, Alter, Return, Fail
<1>2. CASE SetMask(p)
  BY <1>2 DEF SetMask, TypeOK
<1>3. ASSUME NEW b \in Columns, Unset(p, b) PROVE Unset(p, c) /\ masks'[c] = None
  BY <1>3 DEF Unset, TypeOK
<1>4. ASSUME NEW b \in Columns, Release(p, b)
      PROVE  Release(p, c) /\ ~IsClaimed(p, c) /\ masks'[c] = None
  BY <1>4 DEF Release, TypeOK
<1> QED
  BY <1>1, <1>2, <1>3, <1>4

\* The worker of one policy puts no other policy on a column.
LEMMA OthersGainNothing ==
  ASSUME TypeOK, NEW p \in Policies, Worker(p), NEW q \in Policies \ {p}
  PROVE  PolicyRefs(q)' \subseteq PolicyRefs(q)
<1> SUFFICES ASSUME NEW c \in Columns, masks'[c] = q PROVE masks[c] = q
  BY DEF PolicyRefs
<1>1. q # None
  BY MaskingAssumption
<1> QED
  BY <1>1, MaskSteps

\* The queue of the phase.
LEMMA QueueIsRead ==
  ASSUME NEW s, NEW p \in Policies
  PROVE  Queued(s)[p].step = IF p \in s THEN "read" ELSE "none"
BY DEF Queued, NoTask

LEMMA FitInvInit == ASSUME Init PROVE FitInv
<1> USE MaskingAssumption
<1>1. PICK s \in Starts :
        /\ declared = s.declared /\ references = s.references
        /\ pc = "start" /\ task = [p \in Policies |-> NoTask]
  BY DEF Init
<1>2. /\ s \in StartRecords
      /\ \A p \in Policies \ s.declared : s.references[p] = {}
      /\ \A p, q \in Policies : p # q => s.references[p] \cap s.references[q] = {}
  OBVIOUS
<1>3. ClaimsAreDisjoint
  BY <1>1, <1>2 DEF ClaimsAreDisjoint
<1>4. ListingIsRight /\ StatementsFit
  BY <1>1 DEF ListingIsRight, StatementsFit, StatementFits, NoTask
<1> QED
  BY <1>3, <1>4 DEF FitInv

\* The steps of the main thread.
LEMMA FitInvMain ==
  ASSUME TypeOK, FitInv, Main
  PROVE  ListingIsRight' /\ StatementsFit'
<1>0. ListingIsRight /\ StatementsFit
  BY DEF FitInv
<1>1. /\ UNCHANGED <<declared, references, policies, masks>>
      /\ \A p \in Policies : PolicyRefs(p)' = PolicyRefs(p)
  BY DEF Main, Begin, SubmitBatch, Finish, Crash, account, PolicyRefs
<1>2. CASE Begin
  <2>1. CASE declared = {}
    <3>1. UNCHANGED <<pc, existing, task>>
      BY <1>2, <2>1 DEF Begin
    <3>2. ASSUME NEW p \in Policies PROVE StatementFits(p)'
      <4>1. StatementFits(p)
        BY <1>0 DEF StatementsFit
      <4> QED
        BY <1>1, <3>1, <4>1 DEF StatementFits
    <3> QED
      BY <1>0, <1>1, <3>1, <3>2 DEF ListingIsRight, StatementsFit
  <2>2. CASE declared # {}
    <3>1. pc' = "drop" /\ existing' = policies /\ task' = Queued(DropTargets)
      BY <1>2, <2>2 DEF Begin
    <3>2. ListingIsRight'
      BY <1>1, <3>1 DEF ListingIsRight
    <3>3. ASSUME NEW p \in Policies PROVE StatementFits(p)'
      <4>1. task'[p].step = IF p \in DropTargets THEN "read" ELSE "none"
        BY <3>1, QueueIsRead
      <4> QED
        BY <1>1, <3>1, <4>1 DEF StatementFits, DropTargets
    <3> QED
      BY <3>2, <3>3 DEF StatementsFit
  <2> QED
    BY <2>1, <2>2
<1>3. CASE SubmitBatch
  <2>1. pc = "drop" /\ pc' = "create" /\ existing' = existing /\ task' = Queued(declared)
    BY <1>3 DEF SubmitBatch
  <2>2. ListingIsRight'
    BY <2>1 DEF ListingIsRight
  <2>3. ASSUME NEW p \in Policies PROVE StatementFits(p)'
    <3>1. task'[p].step = IF p \in declared THEN "read" ELSE "none"
      BY <2>1, QueueIsRead
    <3>2. p \in declared => (p \in existing <=> p \in policies)
      BY <1>0, <2>1 DEF ListingIsRight
    <3> QED
      BY <1>1, <2>1, <3>1, <3>2 DEF StatementFits
  <2> QED
    BY <2>2, <2>3 DEF StatementsFit
<1>4. CASE Finish \/ Crash
  <2>1. pc' = "start" /\ task' = [p \in Policies |-> NoTask]
    BY <1>4 DEF Finish, Crash
  <2> QED
    BY <2>1 DEF ListingIsRight, StatementsFit, StatementFits, NoTask
<1> QED
  BY <1>2, <1>3, <1>4 DEF Main

\* The steps of a worker, for the other policies.
LEMMA FitInvOthers ==
  ASSUME TypeOK, FitInv, [Next]_vars, NEW p \in Policies, Worker(p), NEW q \in Policies \ {p}
  PROVE  StatementFits(q)'
<1>1. /\ pc' = pc /\ existing' = existing /\ task'[q] = task[q] /\ references' = references
      /\ q \in policies' <=> q \in policies
  BY OnlyItsOwn, SameBlueprints
<1>2. StatementFits(q) /\ StatementFits(p)
  BY DEF FitInv, StatementsFit
<1>3. PolicyRefs(q)' \subseteq PolicyRefs(q)
  BY OthersGainNothing
<1>4. ASSUME task[q].step = "probed", masks[task[q].column] = None
      PROVE  masks'[task[q].column] = None
  <2> DEFINE c == task[q].column
  <2>1. c \in references[q] /\ c \in Columns
    BY <1>2, <1>4 DEF StatementFits, TypeOK
  <2>2. SUFFICES ASSUME masks'[c] # masks[c], SetMask(p), c = task[p].column PROVE FALSE
    BY <1>4, <2>1, MaskSteps
  <2>3. c \in references[p]
    BY <1>2, <2>2 DEF SetMask, StatementFits
  <2> QED
    BY <2>1, <2>3 DEF FitInv, ClaimsAreDisjoint
<1> QED
  BY <1>1, <1>2, <1>3, <1>4 DEF StatementFits

\* The steps of a worker, for its own policy.
LEMMA FitInvOwn ==
  ASSUME TypeOK, FitInv, [Next]_vars, NEW p \in Policies, Worker(p)
  PROVE  StatementFits(p)'
<1>1. pc' = pc /\ existing' = existing /\ references' = references
  BY OnlyItsOwn, SameBlueprints
<1>2. StatementFits(p)
  BY DEF FitInv, StatementsFit
<1>3. /\ task[p] \in Tasks /\ task[p].lost \subseteq Columns /\ task[p].new \subseteq Columns
      /\ references[p] \subseteq Columns /\ p # None
  BY MaskingAssumption DEF TypeOK, Tasks
<1>4. CASE Read(p)
  <2>1. /\ UNCHANGED <<policies, masks>> /\ task[p].step = "read" /\ PolicyRefs(p)' = PolicyRefs(p)
    BY <1>4 DEF Read, account, PolicyRefs
  <2>2. pc \in {"drop", "create"}
    BY <2>1 DEF TypeOK
  <2>3. CASE pc = "drop" \/ (p \in existing /\ "signature" \in drift[p])
    <3>1. task'[p].step = "unset" /\ task'[p].lost = PolicyRefs(p)
      BY <1>4, <2>3 DEF Read, NoTask, TypeOK
    <3> QED
      BY <1>1, <1>2, <2>1, <2>2, <2>3, <3>1 DEF StatementFits
  <2>4. CASE ~(pc = "drop" \/ (p \in existing /\ "signature" \in drift[p])) /\ p \in existing
    <3>1. task'[p].step = "set" /\ task'[p].new = references[p] \ PolicyRefs(p)
      BY <1>4, <2>4 DEF Read, NoTask, TypeOK
    <3> QED
      BY <1>1, <1>2, <2>1, <2>2, <2>4, <3>1 DEF StatementFits
  <2>5. CASE pc # "drop" /\ p \notin existing
    <3>1. task'[p].step = "create"
      BY <1>4, <2>5 DEF Read, NoTask, TypeOK
    <3> QED
      BY <1>1, <1>2, <2>1, <2>2, <2>5, <3>1 DEF StatementFits
  <2> QED
    BY <2>3, <2>4, <2>5
<1>5. ASSUME NEW c \in Columns, Unset(p, c) PROVE StatementFits(p)'
  <2>1. /\ task[p].step = "unset" /\ task'[p].step = "unset" /\ policies' = policies
        /\ task'[p].lost = task[p].lost \ {c} /\ masks' = [masks EXCEPT ![c] = None]
    BY <1>3, <1>5 DEF Unset, TypeOK, Tasks
  <2>2. PolicyRefs(p)' = PolicyRefs(p) \ {c}
    BY <1>3, <2>1 DEF PolicyRefs, TypeOK
  <2> QED
    BY <1>1, <1>2, <2>1, <2>2 DEF StatementFits
<1>6. CASE DropPolicy(p)
  <2>1. p \notin policies' /\ task'[p].step \in {"none", "create"}
    BY <1>3, <1>6 DEF DropPolicy, Go, TypeOK, Tasks
  <2> QED
    BY <2>1 DEF StatementFits
<1>7. CASE CreatePolicy(p)
  <2>1. /\ p \in policies' /\ p \notin policies /\ masks' = masks
        /\ task'[p].step = "set" /\ task'[p].new = references[p]
    BY <1>3, <1>7 DEF CreatePolicy, TypeOK, Tasks
  <2>2. PolicyRefs(p)' = {}
    BY <1>3, <2>1 DEF PolicyRefs, TypeOK
  <2> QED
    BY <1>1, <2>1, <2>2 DEF StatementFits
<1>8. ASSUME NEW c \in Columns, Probe(p, c) PROVE StatementFits(p)'
  <2>1. /\ UNCHANGED <<policies, masks>> /\ task[p].step = "set" /\ c \in task[p].new
        /\ task'[p].step = "probed" /\ task'[p].column = c /\ task'[p].new = task[p].new
        /\ task'[p].force = HasOther(p, c) /\ PolicyRefs(p)' = PolicyRefs(p)
    BY <1>3, <1>8 DEF Probe, account, TypeOK, Tasks, PolicyRefs
  <2>2. HasOther(p, c) \/ masks[c] = None
    BY <1>2, <2>1 DEF StatementFits, HasOther, PolicyRefs
  <2> QED
    BY <1>1, <1>2, <2>1, <2>2 DEF StatementFits
<1>9. CASE SetMask(p)
  <2> DEFINE c == task[p].column
  <2>1. /\ policies' = policies /\ masks' = [masks EXCEPT ![c] = p]
        /\ task[p].step = "probed" /\ task'[p].step = "set"
        /\ task'[p].new = task[p].new \ {c}
    BY <1>3, <1>9 DEF SetMask, TypeOK, Tasks
  <2>2. PolicyRefs(p)' \subseteq PolicyRefs(p) \cup {c}
    BY <2>1 DEF PolicyRefs, TypeOK
  <2> QED
    BY <1>1, <1>2, <2>1, <2>2 DEF StatementFits
<1>10. ASSUME NEW c \in Columns, Release(p, c) PROVE StatementFits(p)'
  <2>1. /\ policies' = policies /\ task[p].step = "set" /\ task'[p].step = "set"
        /\ task'[p].new = task[p].new
        /\ masks' = masks \/ masks' = [masks EXCEPT ![c] = None]
    BY <1>3, <1>10 DEF Release, TypeOK, Tasks
  <2>2. PolicyRefs(p)' \subseteq PolicyRefs(p)
    BY <1>3, <2>1 DEF PolicyRefs, TypeOK
  <2> QED
    BY <1>1, <1>2, <2>1, <2>2 DEF StatementFits
<1>11. ASSUME NEW a \in Aspects, Alter(p, a) PROVE StatementFits(p)'
  <2>1. UNCHANGED <<policies, masks, task>> /\ PolicyRefs(p)' = PolicyRefs(p)
    BY <1>11 DEF Alter, PolicyRefs
  <2> QED
    BY <1>1, <1>2, <2>1 DEF StatementFits
<1>12. CASE Return(p) \/ Fail(p)
  <2>1. task'[p].step \in {"none", "failed"}
    BY <1>3, <1>12 DEF Return, Fail, Go, TypeOK, Tasks
  <2> QED
    BY <2>1 DEF StatementFits
<1> QED
  BY <1>4, <1>5, <1>6, <1>7, <1>8, <1>9, <1>10, <1>11, <1>12 DEF Worker

LEMMA FitInvStep == ASSUME TypeOK, FitInv, [Next]_vars PROVE FitInv'
<1>1. ClaimsAreDisjoint'
  BY SameBlueprints DEF FitInv, ClaimsAreDisjoint
<1>2. CASE UNCHANGED vars
  <2>1. UNCHANGED <<declared, references, policies, masks, pc, existing, task>>
    BY <1>2 DEF vars
  <2>2. ListingIsRight'
    BY <2>1 DEF FitInv, ListingIsRight
  <2>3. ASSUME NEW p \in Policies PROVE StatementFits(p)'
    <3>1. StatementFits(p)
      BY DEF FitInv, StatementsFit
    <3> QED
      BY <2>1, <3>1 DEF StatementFits, PolicyRefs
  <2> QED
    BY <1>1, <2>2, <2>3 DEF FitInv, StatementsFit
<1>3. CASE Main
  BY <1>1, <1>3, FitInvMain DEF FitInv
<1>4. ASSUME NEW p \in Policies, Worker(p) PROVE FitInv'
  <2>1. ASSUME NEW q \in Policies PROVE StatementFits(q)'
    <3>1. CASE q = p
      BY <1>4, <3>1, FitInvOwn
    <3>2. CASE q # p
      BY <1>4, <3>2, FitInvOthers
    <3> QED
      BY <3>1, <3>2
  <2>2. ListingIsRight'
    <3> SUFFICES ASSUME pc = "drop", NEW q \in declared
                 PROVE  q \in existing' <=> q \in policies'
      BY <1>4, OnlyItsOwn, SameBlueprints DEF ListingIsRight
    <3>1. task[q].step \in {"none", "failed"} \/ q \notin declared
      BY DEF TypeOK
    <3>2. existing' = existing /\ (q # p => (q \in policies' <=> q \in policies))
      BY <1>4, OnlyItsOwn DEF TypeOK
    <3>3. q = p => policies' = policies
      BY <1>4, <3>1 DEF Worker, Read, Unset, DropPolicy, CreatePolicy, Probe, SetMask,
         Release, Alter, Return, Fail, account
    <3> QED
      BY <3>2, <3>3 DEF FitInv, ListingIsRight
  <2> QED
    BY <1>1, <2>1, <2>2 DEF FitInv, StatementsFit
<1> QED
  BY <1>2, <1>3, <1>4 DEF Next, Idle

LEMMA FitHolds == Spec => [](TypeOK /\ FitInv)
<1>1. TypeOK /\ FitInv /\ [Next]_vars => FitInv'
  BY FitInvStep
<1>2. Init => FitInv
  BY FitInvInit
<1> QED
  BY <1>1, <1>2, TypeCorrect, PTL DEF Spec

\* Snowflake accepts every statement of every worker, in any order and after
\* any failure or crash: a policy is dropped only once no column carries it,
\* and a column that carries another policy is set with FORCE.
THEOREM EveryStatementFits == Spec => []NothingIsRefused
<1>1. TypeOK /\ FitInv => NothingIsRefused
  <2> SUFFICES ASSUME TypeOK, FitInv, NEW p \in Policies PROVE ~IsRefused(p)
    BY DEF NothingIsRefused
  <2>1. StatementFits(p)
    BY DEF FitInv, StatementsFit
  <2> QED
    BY <2>1 DEF StatementFits, IsRefused, CanDrop, CanSet
<1> QED
  BY <1>1, FitHolds, PTL

-----------------------------------------------------------------------------
(* Why an apply in which nothing failed leaves everything in place.        *)

ClaimedByOthers(p) == {c \in Columns : IsClaimed(p, c)}

\* The policy exists, is on its columns but for the new ones, and otherwise
\* only on those it will lose or leaves to another blueprint.
Covers(p, new, lost) ==
  /\ p \in policies
  /\ references[p] \ new \subseteq PolicyRefs(p)
  /\ PolicyRefs(p) \subseteq references[p] \cup lost \cup ClaimedByOthers(p)

\* How far the worker of a policy has come while nothing failed.
IsOnItsWay(p) ==
  LET t == task[p]
  IN  /\ t.step # "failed"
      /\ pc = "drop" /\ p \notin declared /\ t.step = "none" => p \notin policies
      /\ pc = "create" /\ p \notin declared => p \notin policies
      /\ pc = "create" /\ t.step \in {"set", "probed"} => Covers(p, t.new, t.lost)
      /\ pc = "create" /\ p \in declared /\ t.step = "none" =>
           Covers(p, {}, {}) /\ drift[p] = {}

AllOnTheirWay == ok /\ pc # "start" => \A p \in Policies : IsOnItsWay(p)

PlacementInv == AllOnTheirWay /\ SuccessMeansInPlace

-----------------------------------------------------------------------------
\* The worker of one policy takes from another no column which that claims.
LEMMA OthersTakeNothing ==
  ASSUME TypeOK, FitInv, HandoverInv, NEW p \in Policies, Worker(p), NEW q \in Policies \ {p},
         NEW c \in references[q], masks[c] = q
  PROVE  masks'[c] = q
<1>1. c \in Columns /\ q \in declared
  BY DEF TypeOK, FitInv, ClaimsAreDisjoint
<1>2. SUFFICES ASSUME masks'[c] # masks[c] PROVE FALSE
  OBVIOUS
<1>3. WorkerIsRight(p) /\ StatementFits(p)
  BY DEF HandoverInv, WorkersAreRight, FitInv, StatementsFit
<1>4. CASE SetMask(p) /\ c = task[p].column
  <2>1. c \in references[p]
    BY <1>3, <1>4 DEF SetMask, WorkerIsRight
  <2> QED
    BY <1>1, <2>1 DEF FitInv, ClaimsAreDisjoint
<1>5. CASE Unset(p, c)
  <2>1. masks[c] = p
    BY <1>3, <1>5 DEF Unset, WorkerIsRight
  <2> QED
    BY <2>1
<1>6. CASE ~IsClaimed(p, c)
  BY <1>1, <1>6 DEF IsClaimed
<1> QED
  BY <1>1, <1>2, <1>4, <1>5, <1>6, MaskSteps

\* What a policy covers is not changed by the workers of the others.
LEMMA CoverStays ==
  ASSUME TypeOK, FitInv, HandoverInv, [Next]_vars, NEW p \in Policies, Worker(p),
         NEW q \in Policies \ {p}, NEW new, NEW lost, Covers(q, new, lost)
  PROVE  Covers(q, new, lost)'
<1>1. q \in policies' /\ UNCHANGED <<declared, references>>
  BY OnlyItsOwn, SameBlueprints DEF Covers
<1>2. PolicyRefs(q)' \subseteq PolicyRefs(q)
  BY OthersGainNothing
<1>3. ClaimedByOthers(q)' = ClaimedByOthers(q)
  BY <1>1 DEF ClaimedByOthers, IsClaimed
<1>4. ASSUME NEW c \in references[q] \ new PROVE c \in PolicyRefs(q)'
  <2>1. c \in Columns /\ masks[c] = q
    BY <1>4 DEF Covers, PolicyRefs
  <2>2. masks'[c] = q
    BY <2>1, OthersTakeNothing
  <2> QED
    BY <2>1, <2>2 DEF PolicyRefs
<1> QED
  BY <1>1, <1>2, <1>3, <1>4 DEF Covers

\* The steps of the main thread.
LEMMA PlacementMain ==
  ASSUME TypeOK, PlacementInv, Main
  PROVE  PlacementInv'
<1>1. UNCHANGED <<declared, references, policies, masks, drift>>
  BY DEF Main, Begin, SubmitBatch, Finish, Crash, account
<1>2. ASSUME NEW p \in Policies PROVE PolicyRefs(p)' = PolicyRefs(p)
  BY <1>1 DEF PolicyRefs
<1>3. CASE Begin
  <2>1. CASE declared = {}
    BY <1>1, <1>3, <2>1 DEF Begin, PlacementInv, AllOnTheirWay, SuccessMeansInPlace
  <2>2. CASE declared # {}
    <3>1. pc' = "drop" /\ task' = Queued(DropTargets)
      BY <1>3, <2>2 DEF Begin
    <3>2. ASSUME NEW p \in Policies PROVE IsOnItsWay(p)'
      <4>1. task'[p].step = IF p \in DropTargets THEN "read" ELSE "none"
        BY <3>1, QueueIsRead
      <4> QED
        BY <1>1, <3>1, <4>1 DEF IsOnItsWay, DropTargets
    <3> QED
      BY <3>1, <3>2 DEF PlacementInv, AllOnTheirWay, SuccessMeansInPlace
  <2> QED
    BY <2>1, <2>2
<1>4. CASE SubmitBatch
  <2>1. pc = "drop" /\ AllIdle /\ pc' = "create" /\ ok' = ok /\ task' = Queued(declared)
    BY <1>4 DEF SubmitBatch
  <2>2. ASSUME ok, NEW p \in Policies PROVE IsOnItsWay(p)'
    <3>1. task'[p].step = IF p \in declared THEN "read" ELSE "none"
      BY <2>1, QueueIsRead
    <3>2. IsOnItsWay(p) /\ task[p].step \in {"none", "failed"}
      BY <2>1, <2>2 DEF PlacementInv, AllOnTheirWay, AllIdle
    <3>3. p \notin declared => p \notin policies
      BY <2>1, <3>2 DEF IsOnItsWay
    <3> QED
      BY <1>1, <2>1, <3>1, <3>3 DEF IsOnItsWay
  <2> QED
    BY <2>1, <2>2 DEF PlacementInv, AllOnTheirWay, SuccessMeansInPlace
<1>5. CASE Finish
  <2>1. pc = "create" /\ AllIdle /\ pc' = "start" /\ ok' = ok
    BY <1>5 DEF Finish
  <2>2. ASSUME ok PROVE policies = declared
          /\ \A p \in declared : drift[p] = {} /\ PolicyRefs(p) = references[p]
    <3>1. ASSUME NEW p \in Policies PROVE IsOnItsWay(p) /\ task[p].step = "none"
      <4>1. IsOnItsWay(p)
        BY <2>1, <2>2 DEF PlacementInv, AllOnTheirWay
      <4> QED
        BY <2>1, <4>1 DEF IsOnItsWay, AllIdle
    <3>2. ASSUME NEW p \in declared PROVE Covers(p, {}, {}) /\ drift[p] = {}
      <4>1. p \in Policies
        BY DEF TypeOK
      <4> QED
        BY <2>1, <3>1, <4>1 DEF IsOnItsWay
    <3>3. policies = declared
      <4>1. ASSUME NEW p \in policies PROVE p \in declared
        BY <2>1, <3>1 DEF IsOnItsWay, TypeOK
      <4> QED
        BY <3>2, <4>1 DEF Covers
    <3>4. ASSUME NEW p \in declared PROVE PolicyRefs(p) = references[p]
      <4>1. ASSUME NEW c \in PolicyRefs(p), c \notin references[p] PROVE FALSE
        <5>1. PICK q \in declared \ {p} : c \in references[q]
          BY <3>2, <4>1 DEF Covers, ClaimedByOthers, IsClaimed
        <5>2. c \in PolicyRefs(q)
          BY <3>2, <5>1 DEF Covers
        <5> QED
          BY <4>1, <5>1, <5>2 DEF PolicyRefs
      <4>2. references[p] \subseteq PolicyRefs(p)
        BY <3>2 DEF Covers
      <4> QED
        BY <4>1, <4>2
    <3> QED
      BY <3>2, <3>3, <3>4
  <2>3. SuccessMeansInPlace'
    <3> SUFFICES ASSUME ok, NEW p \in declared
                 PROVE  policies = declared /\ drift[p] = {} /\ PolicyRefs(p)' = references[p]
      BY <1>1, <2>1, <2>2 DEF SuccessMeansInPlace
    <3> QED
      BY <1>2, <2>2 DEF TypeOK
  <2> QED
    BY <2>1, <2>3 DEF PlacementInv, AllOnTheirWay
<1>6. CASE Crash
  BY <1>6 DEF Crash, PlacementInv, AllOnTheirWay, SuccessMeansInPlace
<1> QED
  BY <1>3, <1>4, <1>5, <1>6 DEF Main

\* The steps of a worker, for the other policies.
LEMMA OnItsWayOthers ==
  ASSUME TypeOK, FitInv, HandoverInv, [Next]_vars, NEW p \in Policies, Worker(p),
         NEW q \in Policies \ {p}, IsOnItsWay(q)
  PROVE  IsOnItsWay(q)'
<1>1. /\ pc' = pc /\ declared' = declared /\ task'[q] = task[q] /\ drift'[q] = drift[q]
      /\ q \in policies' <=> q \in policies
  BY OnlyItsOwn, SameBlueprints
<1>2. Covers(q, {}, {}) => Covers(q, {}, {})'
  BY CoverStays
<1>3. Covers(q, task[q].new, task[q].lost) => Covers(q, task[q].new, task[q].lost)'
  <2>1. PICK new, lost : new = task[q].new /\ lost = task[q].lost
    OBVIOUS
  <2>2. Covers(q, new, lost) => Covers(q, new, lost)'
    BY CoverStays
  <2> QED
    BY <1>1, <2>1, <2>2 DEF Covers
<1> QED
  BY <1>1, <1>2, <1>3 DEF IsOnItsWay

\* The steps of a worker, for its own policy.
LEMMA OnItsWayOwn ==
  ASSUME TypeOK, FitInv, HandoverInv, [Next]_vars, NEW p \in Policies, Worker(p),
         IsOnItsWay(p), ok'
  PROVE  IsOnItsWay(p)'
<1>1. pc' = pc /\ UNCHANGED <<declared, references>>
  BY OnlyItsOwn, SameBlueprints
<1>2. StatementFits(p) /\ WorkerIsRight(p)
  BY DEF FitInv, StatementsFit, HandoverInv, WorkersAreRight
<1>3. /\ task[p] \in Tasks /\ task[p].lost \subseteq Columns /\ task[p].new \subseteq Columns
      /\ references[p] \subseteq Columns /\ p # None
  BY MaskingAssumption DEF TypeOK, Tasks
<1>4. ClaimedByOthers(p)' = ClaimedByOthers(p)
  BY <1>1 DEF ClaimedByOthers, IsClaimed
<1>5. task[p].step # "none" /\ pc \in {"drop", "create"} /\ (pc = "drop" <=> p \notin declared)
  <2>1. task[p].step # "none"
    BY DEF Worker, Read, Unset, DropPolicy, CreatePolicy, Probe, SetMask, Release, Alter,
       Return, Fail, IsRefused, HasMore
  <2> QED
    BY <2>1 DEF TypeOK
\* A worker that is neither done nor at the references has no more to show.
<1>6. ASSUME task'[p].step \in {"read", "unset", "create"} PROVE IsOnItsWay(p)'
  BY <1>1, <1>5, <1>6 DEF IsOnItsWay
<1>7. CASE Read(p)
  <2>1. /\ UNCHANGED <<policies, masks>> /\ task[p].step = "read" /\ PolicyRefs(p)' = PolicyRefs(p)
    BY <1>7 DEF Read, account, PolicyRefs
  <2>2. CASE ~(pc = "drop" \/ (p \in existing /\ "signature" \in drift[p])) /\ p \in existing
    <3>1. /\ task'[p].step = "set"
          /\ task'[p].lost = PolicyRefs(p) \ references[p]
          /\ task'[p].new = references[p] \ PolicyRefs(p)
      BY <1>7, <2>2 DEF Read, NoTask, TypeOK
    <3>2. p \in policies
      BY <1>2, <1>5, <2>1, <2>2 DEF StatementFits
    <3> QED
      BY <1>1, <1>5, <2>1, <2>2, <3>1, <3>2 DEF IsOnItsWay, Covers
  <2>3. CASE ~(~(pc = "drop" \/ (p \in existing /\ "signature" \in drift[p])) /\ p \in existing)
    <3>1. task'[p].step \in {"unset", "create"}
      BY <1>7, <2>3 DEF Read, NoTask, TypeOK
    <3> QED
      BY <1>6, <3>1
  <2> QED
    BY <2>2, <2>3
<1>8. ASSUME NEW c \in Columns, Unset(p, c) PROVE IsOnItsWay(p)'
  <2>1. task'[p].step = "unset"
    BY <1>3, <1>8 DEF Unset, TypeOK, Tasks
  <2> QED
    BY <1>6, <2>1
<1>9. CASE DropPolicy(p)
  <2>1. task'[p].step = IF pc = "drop" THEN "none" ELSE "create"
    BY <1>3, <1>9 DEF DropPolicy, Go, TypeOK, Tasks
  <2>2. p \notin policies'
    BY <1>9 DEF DropPolicy
  <2> QED
    BY <1>1, <1>5, <1>6, <2>1, <2>2 DEF IsOnItsWay
<1>10. CASE CreatePolicy(p)
  <2>1. /\ p \in policies' /\ p \notin policies /\ masks' = masks
        /\ task'[p].step = "set" /\ task'[p].new = references[p]
    BY <1>3, <1>10 DEF CreatePolicy, TypeOK, Tasks
  <2>2. PolicyRefs(p)' = {}
    BY <1>3, <2>1 DEF PolicyRefs, TypeOK
  <2> QED
    BY <1>1, <1>5, <2>1, <2>2 DEF IsOnItsWay, Covers
<1>11. ASSUME NEW c \in Columns, Probe(p, c) PROVE IsOnItsWay(p)'
  <2>1. /\ UNCHANGED <<policies, masks>> /\ task[p].step = "set"
        /\ task'[p].step = "probed" /\ task'[p].new = task[p].new
        /\ task'[p].lost = task[p].lost /\ PolicyRefs(p)' = PolicyRefs(p)
    BY <1>3, <1>11 DEF Probe, account, TypeOK, Tasks, PolicyRefs
  <2> QED
    BY <1>1, <1>4, <1>5, <2>1 DEF IsOnItsWay, Covers
<1>12. CASE SetMask(p)
  <2> DEFINE c == task[p].column
  <2>1. /\ policies' = policies /\ masks' = [masks EXCEPT ![c] = p]
        /\ task[p].step = "probed" /\ task'[p].step = "set"
        /\ task'[p].new = task[p].new \ {c} /\ task'[p].lost = task[p].lost
    BY <1>3, <1>12 DEF SetMask, TypeOK, Tasks
  <2>2. c \in references[p] /\ c \in Columns
    BY <1>2, <1>3, <2>1 DEF WorkerIsRight
  <2>3. PolicyRefs(p)' = PolicyRefs(p) \cup {c}
    BY <2>1, <2>2 DEF PolicyRefs, TypeOK
  <2> QED
    BY <1>1, <1>4, <1>5, <2>1, <2>2, <2>3 DEF IsOnItsWay, Covers
<1>13. ASSUME NEW c \in Columns, Release(p, c) PROVE IsOnItsWay(p)'
  <2>1. /\ policies' = policies /\ task[p].step = "set" /\ task'[p].step = "set"
        /\ task'[p].new = task[p].new /\ task'[p].lost = task[p].lost \ {c}
        /\ c \in task[p].lost
    BY <1>3, <1>13 DEF Release, TypeOK, Tasks
  <2>2. c \notin references[p]
    BY <1>2, <2>1 DEF WorkerIsRight
  <2>3. CASE IsClaimed(p, c)
    <3>1. PolicyRefs(p)' = PolicyRefs(p) /\ c \in ClaimedByOthers(p)
      BY <1>13, <2>3 DEF Release, PolicyRefs, ClaimedByOthers
    <3> QED
      BY <1>1, <1>4, <1>5, <2>1, <3>1 DEF IsOnItsWay, Covers
  <2>4. CASE ~IsClaimed(p, c)
    <3>1. PolicyRefs(p)' = PolicyRefs(p) \ {c}
      BY <1>3, <1>13, <2>4 DEF Release, PolicyRefs, TypeOK
    <3> QED
      BY <1>1, <1>4, <1>5, <2>1, <2>2, <3>1 DEF IsOnItsWay, Covers
  <2> QED
    BY <2>3, <2>4
<1>14. ASSUME NEW a \in Aspects, Alter(p, a) PROVE IsOnItsWay(p)'
  <2>1. UNCHANGED <<policies, masks, task>> /\ PolicyRefs(p)' = PolicyRefs(p)
    BY <1>14 DEF Alter, PolicyRefs
  <2> QED
    BY <1>1, <1>4, <1>5, <2>1 DEF IsOnItsWay, Covers
<1>15. CASE Return(p)
  <2>1. /\ UNCHANGED <<policies, masks, drift>> /\ task[p].step = "set"
        /\ task[p].new = {} /\ task[p].lost = {} /\ drift[p] = {}
        /\ task'[p].step = "none" /\ PolicyRefs(p)' = PolicyRefs(p)
    BY <1>3, <1>15 DEF Return, Go, account, TypeOK, Tasks, PolicyRefs
  <2>2. pc = "create"
    BY <1>2, <2>1 DEF WorkerIsRight
  <2>3. Covers(p, {}, {})
    BY <2>1, <2>2 DEF IsOnItsWay
  <2> QED
    BY <1>1, <1>4, <1>5, <2>1, <2>2, <2>3 DEF IsOnItsWay, Covers
<1>16. CASE Fail(p)
  BY <1>16 DEF Fail
<1> QED
  BY <1>7, <1>8, <1>9, <1>10, <1>11, <1>12, <1>13, <1>14, <1>15, <1>16 DEF Worker

LEMMA PlacementStep ==
  ASSUME TypeOK, FitInv, HandoverInv, PlacementInv, [Next]_vars
  PROVE  PlacementInv'
<1>1. CASE UNCHANGED vars
  <2>1. UNCHANGED <<declared, references, policies, masks, drift, applies, pc, task, ok>>
    BY <1>1 DEF vars
  <2>2. ASSUME NEW p \in Policies, IsOnItsWay(p) PROVE IsOnItsWay(p)'
    <3>1. PolicyRefs(p)' = PolicyRefs(p) /\ ClaimedByOthers(p)' = ClaimedByOthers(p)
      BY <2>1 DEF PolicyRefs, ClaimedByOthers, IsClaimed
    <3> QED
      BY <2>1, <2>2, <3>1 DEF IsOnItsWay, Covers
  <2>3. SuccessMeansInPlace'
    BY <2>1 DEF PlacementInv, SuccessMeansInPlace, PolicyRefs
  <2> QED
    BY <2>1, <2>2, <2>3 DEF PlacementInv, AllOnTheirWay
<1>2. CASE Main
  BY <1>2, PlacementMain
<1>3. ASSUME NEW p \in Policies, Worker(p) PROVE PlacementInv'
  <2>1. pc' = pc /\ pc # "start" /\ (ok' => ok)
    <3>1. task[p].step # "none" /\ (ok' = ok \/ ok' = FALSE)
      BY <1>3 DEF Worker, Read, Unset, DropPolicy, CreatePolicy, Probe, SetMask, Release,
         Alter, Return, Fail, IsRefused, HasMore
    <3>2. pc # "start"
      BY <3>1 DEF TypeOK
    <3>3. pc' = pc
      BY <1>3, OnlyItsOwn
    <3> QED
      BY <3>1, <3>2, <3>3
  <2>2. ASSUME ok', NEW q \in Policies PROVE IsOnItsWay(q)'
    <3>1. IsOnItsWay(q)
      BY <2>1, <2>2 DEF PlacementInv, AllOnTheirWay
    <3>2. CASE q = p
      BY <1>3, <2>2, <3>1, <3>2, OnItsWayOwn
    <3>3. CASE q # p
      BY <1>3, <3>1, <3>3, OnItsWayOthers
    <3> QED
      BY <3>2, <3>3
  <2> QED
    BY <2>1, <2>2 DEF PlacementInv, AllOnTheirWay, SuccessMeansInPlace
<1> QED
  BY <1>1, <1>2, <1>3 DEF Next, Idle

LEMMA PlacementHolds ==
  ASSUME Careful PROVE Spec => [](TypeOK /\ HandoverInv /\ PlacementInv)
<1>1. TypeOK /\ FitInv /\ HandoverInv /\ PlacementInv /\ [Next]_vars => PlacementInv'
  BY PlacementStep
<1>2. Init => PlacementInv
  BY DEF Init, PlacementInv, AllOnTheirWay, SuccessMeansInPlace
<1> QED
  BY <1>1, <1>2, FitHolds, HandoverHolds, PTL DEF Spec

\* An apply in which nothing failed leaves exactly the declared policies, as
\* declared, on exactly the declared columns, whatever an earlier apply that
\* failed or died has left behind.
THEOREM SuccessIsReal == ASSUME Careful PROVE Spec => []SuccessMeansInPlace
BY PlacementHolds, PTL DEF PlacementInv

-----------------------------------------------------------------------------
(* The columns, as a Reconciler sees them.                                 *)

\* The policy which claims a column.
Claimant(c) ==
  IF \E p \in declared : c \in references[p]
  THEN CHOOSE p \in declared : c \in references[p] ELSE None

Goal == [c \in Columns |-> Claimant(c)]
Result == IF pc # "start" THEN "working"
          ELSE IF applies > 0 /\ ok /\ declared # {} THEN "done" ELSE "undone"

Promise == INSTANCE Reconciler WITH
             Names <- Columns, Values <- Policies, Absent <- None,
             goal <- Goal, actual <- masks, result <- Result

LEMMA TheClaimant ==
  ASSUME TypeOK, ClaimsAreDisjoint, NEW c \in Columns
  PROVE  /\ Goal[c] \in Policies \cup {None}
         /\ \A p \in Policies : c \in references[p] => Goal[c] = p
<1>1. Goal[c] = Claimant(c)
  BY DEF Goal
<1>2. CASE \E p \in declared : c \in references[p]
  <2>1. Claimant(c) \in declared /\ c \in references[Claimant(c)]
    BY <1>2 DEF Claimant
  <2>2. declared \subseteq Policies
    BY DEF TypeOK
  <2> QED
    BY <1>1, <2>1, <2>2 DEF ClaimsAreDisjoint
<1>3. CASE ~\E p \in declared : c \in references[p]
  <2>1. \A p \in Policies : c \notin references[p]
    BY <1>3 DEF ClaimsAreDisjoint
  <2> QED
    BY <1>1, <1>3, <2>1 DEF Claimant
<1> QED
  BY <1>2, <1>3

\* Where the end of a successful apply has the policies, the columns are as
\* declared.
LEMMA PlacedIsGoal ==
  TypeOK /\ ClaimsAreDisjoint /\ SuccessMeansInPlace => (Result = "done" => masks = Goal)
<1> SUFFICES ASSUME TypeOK, ClaimsAreDisjoint, SuccessMeansInPlace, Result = "done"
             PROVE  masks = Goal
  OBVIOUS
<1>1. policies = declared /\ \A p \in declared : PolicyRefs(p) = references[p]
  BY DEF Result, SuccessMeansInPlace
<1>2. ASSUME NEW c \in Columns PROVE masks[c] = Goal[c]
  <2>1. CASE masks[c] = None
    <3>1. ASSUME NEW p \in declared PROVE c \notin references[p]
      <4>1. p # None /\ p \in Policies
        BY MaskingAssumption DEF TypeOK
      <4> QED
        BY <1>1, <2>1, <4>1 DEF PolicyRefs
    <3> QED
      BY <2>1, <3>1 DEF Goal, Claimant
  <2>2. CASE masks[c] # None
    <3>1. masks[c] \in declared /\ masks[c] \in Policies
      BY <1>1, <2>2 DEF TypeOK
    <3>2. c \in references[masks[c]]
      BY <1>1, <3>1 DEF PolicyRefs
    <3> QED
      BY <3>1, <3>2, TheClaimant
  <2> QED
    BY <2>1, <2>2
<1>3. masks \in [Columns -> Policies \cup {None}]
  BY DEF TypeOK
<1> QED
  BY <1>2, <1>3 DEF Goal

\* A step of the model is a step of the Reconciler or leaves it as it is.
LEMMA ReconcilerStep ==
  ASSUME TypeOK, TypeOK', FitInv, HandoverInv, PlacementInv, PlacementInv', [Next]_vars
  PROVE  Promise!Next \/ UNCHANGED Promise!vars
<1>1. ClaimsAreDisjoint /\ ClaimsAreDisjoint'
  BY SameBlueprints DEF FitInv, ClaimsAreDisjoint
<1>2. Goal' = Goal
  BY SameBlueprints DEF Goal, Claimant
<1>3. /\ Goal \in [Columns -> Policies \cup {None}]
      /\ masks' \in [Columns -> Policies \cup {None}] /\ masks \in [Columns -> Policies \cup {None}]
  <2>1. \A c \in Columns : Claimant(c) \in Policies \cup {None}
    BY <1>1, TheClaimant DEF Goal
  <2> QED
    BY <2>1 DEF Goal, TypeOK
<1>4. Result' = "done" => masks' = Goal'
  <2>1. SuccessMeansInPlace'
    BY DEF PlacementInv
  <2>2. (Result = "done" => masks = Goal)'
    BY <1>1, <2>1, PlacedIsGoal, PTL
  <2> QED
    BY <2>2
<1>5. CASE UNCHANGED vars
  <2>1. UNCHANGED <<masks, declared, pc, applies, ok>>
    BY <1>5 DEF vars
  <2> QED
    BY <1>2, <2>1 DEF Promise!vars, Result
<1>6. CASE Begin
  <2>1. pc = "start" /\ masks' = masks /\ declared' = declared /\ Result # "working"
    BY <1>6 DEF Begin, account, Result
  <2>2. CASE declared = {}
    <3>1. pc' = pc
      BY <1>6, <2>2 DEF Begin
    <3> QED
      BY <1>2, <2>1, <2>2, <3>1 DEF Promise!vars, Result
  <2>3. CASE declared # {}
    <3>1. Result' = "working"
      BY <1>6, <2>3 DEF Begin, Result
    <3>2. Promise!Declare
      BY <1>2, <1>3, <2>1, <3>1 DEF Promise!Declare, Promise!States
    <3> QED
      BY <3>2 DEF Promise!Next
  <2> QED
    BY <2>2, <2>3
<1>7. CASE SubmitBatch
  <2>1. pc # "start" /\ pc' # "start" /\ masks' = masks
    BY <1>7 DEF SubmitBatch, account
  <2> QED
    BY <1>2, <2>1 DEF Promise!vars, Result
<1>8. CASE Finish \/ Crash
  <2>1. pc # "start" /\ pc' = "start" /\ masks' = masks
    BY <1>8 DEF Finish, Crash, account
  <2>2. Result = "working" /\ Result' \in {"done", "undone"}
    BY <2>1 DEF Result
  <2>3. Promise!Finish \/ Promise!GiveUp
    BY <1>2, <1>4, <2>1, <2>2 DEF Promise!Finish, Promise!GiveUp
  <2> QED
    BY <2>3 DEF Promise!Next
<1>9. ASSUME NEW p \in Policies, Worker(p) PROVE Promise!Next
  <2>1. task[p].step # "none"
    BY <1>9 DEF Worker, Read, Unset, DropPolicy, CreatePolicy, Probe, SetMask, Release,
       Alter, Return, Fail, IsRefused, HasMore
  <2>2. pc' = pc /\ Result = "working" /\ Result' = "working"
    BY <1>9, <2>1, OnlyItsOwn DEF TypeOK, Result
  <2>3. ASSUME NEW c \in Columns PROVE masks'[c] \in {masks[c], Goal[c], None}
    <3>1. SUFFICES ASSUME SetMask(p), c = task[p].column, masks'[c] = p
                   PROVE  masks'[c] = Goal[c]
      BY <1>9, MaskSteps
    <3>2. c \in references[p]
      BY <3>1 DEF HandoverInv, WorkersAreRight, WorkerIsRight, SetMask
    <3> QED
      BY <1>1, <3>1, <3>2, TheClaimant
  <2>4. Promise!Change
    BY <1>2, <1>3, <2>2, <2>3 DEF Promise!Change, Promise!States
  <2> QED
    BY <2>4 DEF Promise!Next
<1> QED
  BY <1>5, <1>6, <1>7, <1>8, <1>9 DEF Next, Main, Idle

\* Column by column the workers do what a Reconciler does: nothing is set but
\* the policy that claims the column, and an apply without a failure ends with
\* every column as declared.
THEOREM ImplementsReconciler == ASSUME Careful PROVE Spec => Promise!Spec
<1>1. Init => Promise!Init
  <2> SUFFICES ASSUME Init PROVE Promise!Init
    OBVIOUS
  <2>1. TypeOK /\ ClaimsAreDisjoint
    <3>1. TypeOK
      BY TypeCorrectInit
    <3> QED
      BY <3>1, FitInvInit DEF FitInv
  <2>2. \A c \in Columns : Claimant(c) \in Policies \cup {None}
    BY <2>1, TheClaimant DEF Goal
  <2>3. Goal \in [Columns -> Policies \cup {None}]
    BY <2>2 DEF Goal
  <2>4. masks \in [Columns -> Policies \cup {None}]
    BY <2>1 DEF TypeOK
  <2>5. Result = "undone"
    BY DEF Init, Result
  <2> QED
    BY <2>3, <2>4, <2>5 DEF Promise!Init, Promise!States
<1>2. TypeOK /\ TypeOK' /\ FitInv /\ HandoverInv /\ PlacementInv /\ PlacementInv' /\ [Next]_vars
        => [Promise!Next]_(Promise!vars)
  BY ReconcilerStep
<1> QED
  BY <1>1, <1>2, FitHolds, PlacementHolds, PTL DEF Spec, Promise!Spec

=============================================================================
