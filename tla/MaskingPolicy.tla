---------------------------- MODULE MaskingPolicy ----------------------------
(***************************************************************************)
(* The resolver of masking policies, statement by statement: its workers   *)
(* run in parallel, one per policy, and they meet at the columns, which    *)
(* carry at most one policy each.  Each worker reads which columns its     *)
(* policy is on, then sets and unsets on the strength of what it read.     *)
(*                                                                         *)
(* Successive applies with all switches on are modelled; with the switches *)
(* off every statement below is only suggested.  A column stands for the   *)
(* object and first column of a reference.                                 *)
(***************************************************************************)
EXTENDS Naturals

CONSTANTS
  Policies,   \* names of masking policies
  Columns,    \* what a policy can be set on
  None,       \* no policy
  Starts,     \* configurations and accounts considered, see StartRecords
  MaxApplies, \* bound on the number of applies
  MaxFaults   \* bound on statements that fail and on crashes

\* How an existing policy may differ from its blueprint: "signature" stands
\* for arguments, return type and EXEMPT_OTHER_POLICIES.
Aspects == {"signature", "body", "comment"}

\* The blueprints and their references; the policies in the account, the one
\* each column carries, and how they differ from their blueprints.
StartRecords ==
  [declared : SUBSET Policies, references : [Policies -> SUBSET Columns],
   policies : SUBSET Policies, masks : [Columns -> Policies \cup {None}],
   drift : [Policies -> SUBSET Aspects]]

ASSUME MaskingAssumption ==
  /\ None \notin Policies
  /\ MaxApplies \in Nat /\ MaxFaults \in Nat
  /\ Starts \subseteq StartRecords
  /\ \A s \in Starts :
       /\ \A c \in Columns : s.masks[c] \in s.policies \cup {None}
       /\ \A p \in Policies \ s.declared : s.references[p] = {}
       /\ \A p, q \in Policies : p # q => s.references[p] \cap s.references[q] = {}

VARIABLES
  declared,   \* names of the blueprints
  references, \* the columns each of them claims
  policies,   \* the policies in the account
  masks,      \* the policy on each column
  drift,      \* in what a policy differs from its blueprint
  applies,    \* the number of applies so far
  pc,         \* start, drop or create
  existing,   \* existing_objects
  task,       \* the worker of each policy, see Tasks
  ok,         \* no task failed in the current or last apply
  faults      \* failures injected so far

account == <<policies, masks, drift>>
vars == <<declared, references, policies, masks, drift, applies, pc, existing,
          task, ok, faults>>

\* step is what the worker is about to do; lost are the columns it may unset,
\* new those it will set, column the one it has looked at, and force whether
\* it found another policy there.
Steps == {"none", "read", "unset", "create", "set", "probed", "failed"}
Tasks == [step : Steps, lost : SUBSET Columns, new : SUBSET Columns,
          column : Columns \cup {None}, force : BOOLEAN]

NoTask    == [step |-> "none", lost |-> {}, new |-> {}, column |-> None, force |-> FALSE]
AllIdle   == \A p \in Policies : task[p].step \in {"none", "failed"}
Go(p, step) == task' = [task EXCEPT ![p].step = step]

Queued(s) == [p \in Policies |-> IF p \in s THEN [NoTask EXCEPT !.step = "read"] ELSE NoTask]

-----------------------------------------------------------------------------
Init ==
  \E s \in Starts :
    /\ declared = s.declared /\ references = s.references
    /\ policies = s.policies /\ masks = s.masks /\ drift = s.drift
    /\ applies = 0 /\ pc = "start" /\ existing = {}
    /\ task = [p \in Policies |-> NoTask]
    /\ ok = TRUE /\ faults = 0

\* Mutant: the blueprints are not looked at.
AnyPolicy == policies

\* _resolve_drop: what has no blueprint (in a declared schema, no sandbox).
DropTargets == policies \ declared

\* resolve: list the policies, submit the drops of what has no blueprint.
\* Without any blueprint the resolver is skipped.
Begin ==
  /\ pc = "start" /\ applies < MaxApplies
  /\ applies' = applies + 1 /\ ok' = TRUE
  /\ IF declared = {}
     THEN UNCHANGED <<pc, existing, task>>
     ELSE /\ pc' = "drop"
          /\ existing' = policies
          /\ task' = Queued(DropTargets)
  /\ UNCHANGED <<declared, references, account, faults>>

\* All drops are collected: the blueprints form one batch.
SubmitBatch ==
  /\ pc = "drop" /\ AllIdle
  /\ pc' = "create"
  /\ task' = Queued(declared)
  /\ UNCHANGED <<declared, references, account, applies, existing, ok, faults>>

Finish ==
  /\ pc = "create" /\ AllIdle
  /\ pc' = "start"
  /\ task' = [p \in Policies |-> NoTask]
  /\ UNCHANGED <<declared, references, account, applies, existing, ok, faults>>

-----------------------------------------------------------------------------
(* The steps of a worker.                                                  *)

\* _get_existing_policy_refs
PolicyRefs(p) == {c \in Columns : masks[c] = p}

\* drop_object, and compare_object when the signature differs: all references
\* go, then the policy.  compare_object otherwise: references that the policy
\* has stay, those only in the blueprint are new, the others are lost.
Read(p) ==
  /\ task[p].step = "read"
  /\ task' = [task EXCEPT ![p] =
       IF pc = "drop" \/ (p \in existing /\ "signature" \in drift[p])
       THEN [NoTask EXCEPT !.step = "unset", !.lost = PolicyRefs(p)]
       ELSE IF p \in existing
       THEN [NoTask EXCEPT !.step = "set", !.lost = PolicyRefs(p) \ references[p],
                           !.new = references[p] \ PolicyRefs(p)]
       ELSE [NoTask EXCEPT !.step = "create"]]
  /\ UNCHANGED <<declared, references, account, applies, pc, existing, ok, faults>>

\* _drop_policy_refs
Unset(p, c) ==
  /\ task[p].step = "unset" /\ c \in task[p].lost
  /\ masks' = [masks EXCEPT ![c] = None]
  /\ task' = [task EXCEPT ![p].lost = @ \ {c}]
  /\ UNCHANGED <<declared, references, policies, drift, applies, pc, existing, ok, faults>>

\* _drop_policy; Snowflake refuses while a column carries the policy.
CanDrop(p) == p \in policies /\ PolicyRefs(p) = {}

DropPolicy(p) ==
  /\ task[p].step = "unset" /\ task[p].lost = {} /\ CanDrop(p)
  /\ policies' = policies \ {p}
  /\ Go(p, IF pc = "drop" THEN "none" ELSE "create")
  /\ UNCHANGED <<declared, references, masks, drift, applies, pc, existing, ok, faults>>

\* Mutant: the references of a replaced policy are not set again.
CreateWithoutRefs(p) ==
  /\ task[p].step = "create" /\ p \notin policies
  /\ policies' = policies \cup {p} /\ drift' = [drift EXCEPT ![p] = {}]
  /\ task' = [task EXCEPT ![p].step = "set", ![p].new = IF p \in existing THEN {} ELSE references[p]]
  /\ UNCHANGED <<declared, references, masks, applies, pc, existing, ok, faults>>

\* _create_policy, then _apply_policy_refs with skip_existing.
CreatePolicy(p) ==
  /\ task[p].step = "create" /\ p \notin policies
  /\ policies' = policies \cup {p} /\ drift' = [drift EXCEPT ![p] = {}]
  /\ task' = [task EXCEPT ![p].step = "set", ![p].new = references[p]]
  /\ UNCHANGED <<declared, references, masks, applies, pc, existing, ok, faults>>

\* Mutant: as upstream, SET is never forced.
NeverForced(p, c) == FALSE

\* _column_has_other_masking_policy
HasOther(p, c) == masks[c] \notin {None, p}

Probe(p, c) ==
  /\ task[p].step = "set" /\ c \in task[p].new
  /\ task' = [task EXCEPT ![p].step = "probed", ![p].column = c, ![p].force = HasOther(p, c)]
  /\ UNCHANGED <<declared, references, account, applies, pc, existing, ok, faults>>

\* SET MASKING POLICY [FORCE]: without FORCE refused on a masked column.
CanSet(p) == p \in policies /\ (task[p].force \/ masks[task[p].column] = None)

SetMask(p) ==
  /\ task[p].step = "probed" /\ CanSet(p)
  /\ masks' = [masks EXCEPT ![task[p].column] = p]
  /\ task' = [task EXCEPT ![p].step = "set", ![p].new = @ \ {task[p].column}]
  /\ UNCHANGED <<declared, references, policies, drift, applies, pc, existing, ok, faults>>

\* Mutant: as upstream, other blueprints are not looked at.
IsNeverClaimed(p, c) == FALSE

\* _is_claimed_by_other_blueprint
IsClaimed(p, c) == \E q \in declared \ {p} : c \in references[q]

\* The references which are lost, after all new ones are set.
Release(p, c) ==
  /\ task[p].step = "set" /\ task[p].new = {} /\ c \in task[p].lost
  /\ masks' = IF IsClaimed(p, c) THEN masks ELSE [masks EXCEPT ![c] = None]
  /\ task' = [task EXCEPT ![p].lost = @ \ {c}]
  /\ UNCHANGED <<declared, references, policies, drift, applies, pc, existing, ok, faults>>

\* SET BODY and SET COMMENT, after the references.
Alter(p, a) ==
  /\ task[p].step = "set" /\ task[p].new = {} /\ task[p].lost = {}
  /\ a \in drift[p] /\ (a = "comment" => "body" \notin drift[p])
  /\ drift' = [drift EXCEPT ![p] = @ \ {a}]
  /\ UNCHANGED <<declared, references, policies, masks, applies, pc, existing, task, ok, faults>>

Return(p) ==
  /\ task[p].step = "set" /\ task[p].new = {} /\ task[p].lost = {} /\ drift[p] = {}
  /\ Go(p, "none")
  /\ UNCHANGED <<declared, references, account, applies, pc, existing, ok, faults>>

\* The statement the worker is at is refused, or it fails for another reason.
IsRefused(p) ==
  \/ task[p].step = "unset" /\ task[p].lost = {} /\ ~CanDrop(p)
  \/ task[p].step = "create" /\ p \in policies
  \/ task[p].step = "probed" /\ ~CanSet(p)

\* It has a statement or a query before it.
HasMore(p) ==
  \/ task[p].step \in {"read", "unset", "create", "probed"}
  \/ task[p].step = "set" /\ task[p].new \cup task[p].lost \cup drift[p] # {}

\* Its task ends with ERROR.
Fail(p) ==
  /\ \/ IsRefused(p) /\ faults' = faults
     \/ /\ HasMore(p) /\ faults < MaxFaults /\ faults' = faults + 1
  /\ Go(p, "failed") /\ ok' = FALSE
  /\ UNCHANGED <<declared, references, account, applies, pc, existing>>

\* The process dies in the middle of an apply.
Crash ==
  /\ pc # "start" /\ faults < MaxFaults
  /\ faults' = faults + 1 /\ ok' = FALSE
  /\ pc' = "start" /\ task' = [p \in Policies |-> NoTask]
  /\ UNCHANGED <<declared, references, account, applies, existing>>

Over == pc = "start" /\ applies = MaxApplies
Idle == Over /\ UNCHANGED vars

Worker(p) ==
  \/ Read(p) \/ DropPolicy(p) \/ CreatePolicy(p) \/ SetMask(p) \/ Return(p) \/ Fail(p)
  \/ \E c \in Columns : Unset(p, c) \/ Probe(p, c) \/ Release(p, c)
  \/ \E a \in Aspects : Alter(p, a)

Main == Begin \/ SubmitBatch \/ Finish \/ Crash

Next == Main \/ (\E p \in Policies : Worker(p)) \/ Idle

Spec == Init /\ [][Next]_vars

-----------------------------------------------------------------------------
(* Properties.                                                             *)

\* The types of the variables; columns carry policies that exist, and tasks
\* are of the policies the phase is about.
TypeOK ==
  /\ declared \in SUBSET Policies /\ references \in [Policies -> SUBSET Columns]
  /\ policies \in SUBSET Policies /\ masks \in [Columns -> Policies \cup {None}]
  /\ drift \in [Policies -> SUBSET Aspects]
  /\ applies \in 0..MaxApplies /\ faults \in 0..MaxFaults
  /\ pc \in {"start", "drop", "create"} /\ existing \in SUBSET Policies
  /\ task \in [Policies -> Tasks] /\ ok \in BOOLEAN
  /\ \A c \in Columns : masks[c] \in policies \cup {None}
  /\ \A p \in Policies : task[p].step # "none" =>
       pc # "start" /\ (pc = "drop" <=> p \notin declared)

\* A column that carries one declared policy and is claimed by another one is
\* never without a policy on the way (comments in _apply_policy_refs).
IsMoving(c) ==
  masks[c] \in declared /\ \E q \in declared \ {masks[c]} : c \in references[q]

MovingStaysMasked == [][\A c \in Columns : IsMoving(c) => masks'[c] # None]_vars

\* And where it arrives it stays: a column that carries the policy which
\* claims it loses it only while that policy itself is replaced.
IsInPlace(c) == \E p \in declared : c \in references[p] /\ masks[c] = p

ArrivedStaysMasked ==
  [][\A c \in Columns : IsInPlace(c) =>
       masks'[c] = masks[c] \/ "signature" \in drift[masks[c]]]_vars

\* An apply in which nothing failed leaves exactly the declared policies, as
\* declared, on exactly the declared columns, whatever state an earlier one
\* left behind; unless there is no blueprint at all.
SuccessMeansInPlace ==
  pc = "start" /\ applies > 0 /\ ok /\ declared # {} =>
    /\ policies = declared
    /\ \A p \in declared : drift[p] = {} /\ PolicyRefs(p) = references[p]

\* Whatever the order of the workers, Snowflake accepts every statement.
NothingIsRefused == \A p \in Policies : ~IsRefused(p)

=============================================================================
