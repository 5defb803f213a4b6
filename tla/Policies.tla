------------------------------ MODULE Policies ------------------------------
(***************************************************************************)
(* The resolvers of aggregation, join, projection, row access,             *)
(* authentication and network policies.  (Masking policies, whose resolver *)
(* takes more care, have a module of their own.)  They are one protocol in *)
(* six variants: a worker per policy reads what its policy is attached to, *)
(* then creates, alters, attaches, detaches and drops on the strength of   *)
(* what it read, while the workers of the other policies do the same; a    *)
(* target (table, column, user, the account) carries one policy.           *)
(*                                                                         *)
(* The variants differ in whether attaching takes the target away from     *)
(* another policy, whether detaching names the policy, whether columns are *)
(* compared, in the order of the statements, and in their switches.        *)
(***************************************************************************)
EXTENDS Integers, Sequences, SequencesExt

CONSTANTS
  Names,    \* names of policies
  Targets,  \* what a policy can be attached to
  Account,  \* the target that is the account itself
  None,     \* no policy, and no target
  Orders,   \* orders in which references may be listed
  Starts,   \* configurations and accounts considered, see StartRecords
  MaxFaults \* bound on statements that fail and on crashes

Kinds == {"AGGREGATION", "JOIN", "PROJECTION", "ROW_ACCESS", "AUTHENTICATION", "NETWORK"}

\* --apply-unsafe, --apply-...-policy and --apply-account-level-policy.
Switches == {"unsafe", "policy", "account"}

\* How a policy may differ from its blueprint: "signature" are the arguments
\* of a row access policy, "body" its body, lists or parameters, "hash" the
\* hash of the blueprint in the comment of an authentication policy.
Aspects == {"signature", "body", "comment", "hash"}

\* Blueprints and the targets they claim; the policies in the account, the
\* one on each target, the targets it is on with other columns, and how they
\* differ from their blueprints; the switches of the applies to come.
StartRecords ==
  [kind : Kinds, declared : SUBSET Names, claims : [Names -> SUBSET Targets],
   policies : SUBSET Names, on : [Targets -> Names \cup {None}],
   off : SUBSET Targets, drift : [Names -> SUBSET Aspects],
   applies : Seq(SUBSET Switches)]

\* In what a policy of this kind may be found to differ.
AspectsOf(k) == CASE k = "ROW_ACCESS"     -> {"signature", "body", "comment"}
                  [] k = "AUTHENTICATION" -> {"body", "hash"}
                  [] OTHER                -> {"body", "comment"}

\* A target is claimed once; an authentication policy was altered by nobody
\* else, so that where it differs its hash does.
ASSUME PolicyAssumption ==
  /\ None \notin Names \cup Targets /\ Account \notin Aspects \cup {None}
  /\ MaxFaults \in Nat
  /\ Orders \subseteq Seq(Targets)
  /\ \A order \in Orders : \A t \in Targets : \E i \in DOMAIN order : order[i] = t
  /\ \A s \in Starts :
       /\ s \in StartRecords
       /\ \A t \in Targets : s.on[t] \in s.policies \cup {None}
       /\ \A p, q \in Names : p # q => s.claims[p] \cap s.claims[q] = {}
       /\ \A p \in Names : p \notin s.declared => s.claims[p] = {}
       /\ \A p \in Names : s.drift[p] \subseteq AspectsOf(s.kind)
       /\ s.kind = "AUTHENTICATION" =>
            \A p \in Names : "body" \in s.drift[p] => "hash" \in s.drift[p]

\* An authentication policy that differs meets no apply without --apply-unsafe:
\* that one would set the hash although the policy is not altered.
IsCareful(s) ==
  s.kind = "AUTHENTICATION" /\ (\E p \in Names : "body" \in s.drift[p]) =>
    \A i \in DOMAIN s.applies : "unsafe" \in s.applies[i] \/ "policy" \notin s.applies[i]

VARIABLES
  setup,    \* the configuration: kind, declared, claims, applies
  policies, \* the policies in the account
  on,       \* the policy on each target
  off,      \* targets on which it is with other columns than claimed
  drift,    \* in what a policy differs from its blueprint
  apply,    \* the number of the apply that runs, or of the next one
  pc,       \* start, drop or create
  existing, \* existing_objects
  task,     \* the worker of each policy: its stage and the statements ahead
  ok,       \* for each finished apply, whether no task failed in it
  faults    \* failures injected so far

account == <<policies, on, off, drift>>
vars == <<setup, account, apply, pc, existing, task, ok, faults>>

kind     == setup.kind
declared == setup.declared
claims   == setup.claims

Statement(op, t) == [op |-> op, target |-> t]
Statements == [op : {"CREATE", "ALTER", "ALTER_SAFELY", "ATTACH", "DETACH", "DROP"},
               target : Targets \cup Aspects \cup {None}]

Stages == {"none", "queued", "running", "failed"}
Idling   == [stage |-> "none", plan |-> <<>>]
AllIdle  == \A p \in Names : task[p].stage \in {"none", "failed"}
Queued(s) == [p \in Names |-> IF p \in s THEN [stage |-> "queued", plan |-> <<>>] ELSE Idling]

-----------------------------------------------------------------------------
(* What create_object, compare_object and drop_object do.                  *)

\* The references in these targets, in the order in which they are listed.
Each(op, order, targets) ==
  FlattenSeq([i \in DOMAIN order |->
    IF order[i] \in targets THEN << Statement(op, order[i]) >> ELSE << >>])

\* compare_object of each attribute: one ALTER when it differs.
Alters(p, aspects) ==
  FlattenSeq([i \in DOMAIN aspects |->
    IF aspects[i] \in drift[p] THEN << Statement("ALTER", aspects[i]) >> ELSE << >>])

\* _get_existing_policy_refs
PolicyRefs(p) == {t \in Targets : on[t] = p}

\* Of a policy with columns, the references that are on other columns.
StaleRefs(p) == PolicyRefs(p) \cap claims[p] \cap off

\* The end of every _apply_policy_refs: what the blueprint no longer claims.
DetachOthers(p, order) == Each("DETACH", order, PolicyRefs(p) \ claims[p])

\* Mutant: a reference that is in place is applied again.
AttachAgain(p, order) == Each("ATTACH", order, claims[p]) \o DetachOthers(p, order)

\* Mutant: the columns of a reference are not compared.
AttachMissing(p, order) ==
  Each("ATTACH", order, claims[p] \ PolicyRefs(p)) \o DetachOthers(p, order)

\* _apply_policy_refs of each resolver.  Aggregation and join policies are set
\* again, by FORCE, where the columns differ.
AggregationRefs(p, order) ==
  Each("ATTACH", order, (claims[p] \ PolicyRefs(p)) \cup StaleRefs(p)) \o DetachOthers(p, order)

JoinRefs(p, order) ==
  Each("ATTACH", order, (claims[p] \ PolicyRefs(p)) \cup StaleRefs(p)) \o DetachOthers(p, order)

\* These have no columns to compare.
ProjectionRefs(p, order) ==
  Each("ATTACH", order, claims[p] \ PolicyRefs(p)) \o DetachOthers(p, order)

AuthenticationRefs(p, order) ==
  Each("ATTACH", order, claims[p] \ PolicyRefs(p)) \o DetachOthers(p, order)

NetworkRefs(p, order) ==
  Each("ATTACH", order, claims[p] \ PolicyRefs(p)) \o DetachOthers(p, order)

\* A row access policy is taken off first where the columns differ.
ApplyRef(p, t) ==
  (IF t \in StaleRefs(p) THEN << Statement("DETACH", t) >> ELSE << >>)
    \o (IF t \in (claims[p] \ PolicyRefs(p)) \cup StaleRefs(p)
        THEN << Statement("ATTACH", t) >> ELSE << >>)

RowAccessRefs(p, order) ==
  FlattenSeq([i \in DOMAIN order |-> ApplyRef(p, order[i])]) \o DetachOthers(p, order)

\* _drop_policy_refs and _drop_policy
DropPlan(p, order) ==
  Each("DETACH", order, PolicyRefs(p)) \o << Statement("DROP", None) >>

\* _create_policy, and _apply_policy_refs with skip_existing
CreatePlan(p, order) ==
  << Statement("CREATE", None) >> \o Each("ATTACH", order, claims[p])

\* create_object, compare_object and drop_object of each resolver.
AggregationPolicy(p, order) ==
  [create  |-> CreatePlan(p, order), drop |-> DropPlan(p, order),
   compare |-> AggregationRefs(p, order) \o Alters(p, <<"body", "comment">>)]

JoinPolicy(p, order) ==
  [create  |-> CreatePlan(p, order), drop |-> DropPlan(p, order),
   compare |-> JoinRefs(p, order) \o Alters(p, <<"body", "comment">>)]

ProjectionPolicy(p, order) ==
  [create  |-> CreatePlan(p, order), drop |-> DropPlan(p, order),
   compare |-> ProjectionRefs(p, order) \o Alters(p, <<"body", "comment">>)]

\* A row access policy whose arguments differ is dropped and created.
RowAccessPolicy(p, order) ==
  [create  |-> CreatePlan(p, order), drop |-> DropPlan(p, order),
   compare |-> IF "signature" \in drift[p] THEN DropPlan(p, order) \o CreatePlan(p, order)
               ELSE RowAccessRefs(p, order) \o Alters(p, <<"body", "comment">>)]

\* _compare_policy: CREATE OR ALTER is unsafe DDL, the hash is set by safe DDL.
AlterAuthenticationPolicy(p) ==
  IF "hash" \notin drift[p] THEN <<>>
  ELSE << Statement("ALTER", "body"), Statement("ALTER_SAFELY", "hash") >>

\* The hash of an authentication policy is a statement of its own.
AuthenticationPolicy(p, order) ==
  [create  |-> << Statement("CREATE", None), Statement("ALTER", "hash") >>
                 \o Each("ATTACH", order, claims[p]),
   drop    |-> DropPlan(p, order),
   compare |-> AlterAuthenticationPolicy(p) \o AuthenticationRefs(p, order)]

\* Lists of rules and of addresses, then the comment: an ALTER for each.
AlterNetworkPolicy(p) == Alters(p, <<"body", "comment">>)

NetworkPolicy(p, order) ==
  [create  |-> CreatePlan(p, order), drop |-> DropPlan(p, order),
   compare |-> AlterNetworkPolicy(p) \o NetworkRefs(p, order)]

PolicyOf(p, order) ==
  CASE kind = "AGGREGATION"    -> AggregationPolicy(p, order)
    [] kind = "JOIN"           -> JoinPolicy(p, order)
    [] kind = "PROJECTION"     -> ProjectionPolicy(p, order)
    [] kind = "ROW_ACCESS"     -> RowAccessPolicy(p, order)
    [] kind = "AUTHENTICATION" -> AuthenticationPolicy(p, order)
    [] kind = "NETWORK"        -> NetworkPolicy(p, order)

Plan(p, order) ==
  CASE pc = "drop"                        -> PolicyOf(p, order).drop
    [] pc = "create" /\ p \in existing    -> PolicyOf(p, order).compare
    [] pc = "create" /\ p \notin existing -> PolicyOf(p, order).create

-----------------------------------------------------------------------------
(* What a statement does.                                                  *)

Settings == setup.applies[apply]

\* execute_unsafe_ddl with its condition; one is execute_safe_ddl.
IsAllowed(s) ==
  /\ "policy" \in Settings
  /\ s.op # "ALTER_SAFELY" => "unsafe" \in Settings
  /\ s.target = Account => "account" \in Settings

\* Snowflake: a policy can be dropped from its targets only, and a row access
\* policy is added where none is and dropped by its name.
IsLegal(p, s) ==
  CASE s.op = "CREATE" -> p \notin policies
    [] s.op = "DROP"   -> p \in policies /\ PolicyRefs(p) = {}
    [] s.op = "ATTACH" -> p \in policies /\ (kind = "ROW_ACCESS" => on[s.target] = None)
    [] s.op = "DETACH" -> kind = "ROW_ACCESS" => on[s.target] = p
    [] OTHER           -> p \in policies

\* Snowflake: its effect.  Attaching replaces the policy that is there, and
\* UNSET removes whichever policy is there.  Altering an authentication
\* policy resets the comment that holds its hash.
Effect(p, s) ==
  /\ policies' = CASE s.op = "CREATE" -> policies \cup {p}
                   [] s.op = "DROP"   -> policies \ {p}
                   [] OTHER           -> policies
  /\ on' = CASE s.op = "ATTACH" -> [on EXCEPT ![s.target] = p]
             [] s.op = "DETACH" -> [on EXCEPT ![s.target] = None]
             [] OTHER           -> on
  /\ off' = IF s.op \in {"ATTACH", "DETACH"} THEN off \ {s.target} ELSE off
  /\ drift' = CASE s.op \in {"CREATE", "DROP"} ->
                     [drift EXCEPT ![p] = IF kind = "AUTHENTICATION" /\ s.op = "CREATE"
                                          THEN {"hash"} ELSE {}]
                [] s.op \in {"ALTER", "ALTER_SAFELY"} ->
                     [drift EXCEPT ![p] = IF kind = "AUTHENTICATION" /\ s.target = "body"
                                          THEN {"hash"} ELSE @ \ {s.target}]
                [] OTHER -> drift

-----------------------------------------------------------------------------
Init ==
  \E s \in Starts :
    /\ setup = [kind |-> s.kind, declared |-> s.declared, claims |-> s.claims,
                applies |-> s.applies]
    /\ policies = s.policies /\ on = s.on /\ off = s.off /\ drift = s.drift
    /\ apply = 1 /\ pc = "start" /\ existing = {}
    /\ task = [p \in Names |-> Idling]
    /\ ok = <<>> /\ faults = 0

Over == apply > Len(setup.applies)

\* skip_on_empty_blueprints: without any blueprint nothing is looked at.
SkipAll ==
  /\ pc = "start" /\ ~Over /\ declared = {}
  /\ ok' = Append(ok, TRUE) /\ apply' = apply + 1
  /\ UNCHANGED <<setup, account, pc, existing, task, faults>>

\* _resolve_drop: what is listed and has no blueprint.
DropTargets == policies \ declared

\* resolve: list the policies, submit the drops of what has no blueprint.
Begin ==
  /\ pc = "start" /\ ~Over /\ declared # {}
  /\ pc' = "drop" /\ existing' = policies /\ task' = Queued(DropTargets)
  /\ UNCHANGED <<setup, account, apply, ok, faults>>

\* All drops are collected: the blueprints form one batch.  A failed drop
\* stays in mind as an error of this apply.
SubmitBatch ==
  /\ pc = "drop" /\ AllIdle
  /\ pc' = "create"
  /\ task' = [p \in Names |-> IF p \in declared THEN Queued(declared)[p] ELSE task[p]]
  /\ UNCHANGED <<setup, account, apply, existing, ok, faults>>

Finish ==
  /\ pc = "create" /\ AllIdle
  /\ ok' = Append(ok, \A p \in Names : task[p].stage # "failed")
  /\ pc' = "start" /\ apply' = apply + 1 /\ task' = [p \in Names |-> Idling]
  /\ UNCHANGED <<setup, account, existing, faults>>

\* A worker reads its policy's references and knows what it is going to do.
Read(p, order) ==
  /\ task[p].stage = "queued"
  /\ task' = [task EXCEPT ![p] = [stage |-> "running", plan |-> Plan(p, order)]]
  /\ UNCHANGED <<setup, account, apply, pc, existing, ok, faults>>

HasStatement(p) == task[p].stage = "running" /\ task[p].plan # <<>>
Advance(p) == task' = [task EXCEPT ![p].plan = Tail(@)]

Execute(p) ==
  /\ HasStatement(p)
  /\ LET s == Head(task[p].plan) IN IsAllowed(s) /\ IsLegal(p, s) /\ Effect(p, s)
  /\ Advance(p)
  /\ UNCHANGED <<setup, apply, pc, existing, ok, faults>>

Suggest(p) ==
  /\ HasStatement(p) /\ ~IsAllowed(Head(task[p].plan))
  /\ Advance(p)
  /\ UNCHANGED <<setup, account, apply, pc, existing, ok, faults>>

\* A statement is refused, or fails for another reason; that ends the task.
Fail(p) ==
  /\ HasStatement(p)
  /\ LET s == Head(task[p].plan)
     IN  /\ IsAllowed(s)
         /\ \/ ~IsLegal(p, s) /\ faults' = faults
            \/ s.op = "DETACH" /\ on[s.target] = None /\ faults' = faults
            \/ faults < MaxFaults /\ faults' = faults + 1
  /\ task' = [task EXCEPT ![p] = [stage |-> "failed", plan |-> <<>>]]
  /\ UNCHANGED <<setup, account, apply, pc, existing, ok>>

Return(p) ==
  /\ task[p].stage = "running" /\ task[p].plan = <<>>
  /\ task' = [task EXCEPT ![p].stage = "none"]
  /\ UNCHANGED <<setup, account, apply, pc, existing, ok, faults>>

Crash ==
  /\ pc # "start" /\ faults < MaxFaults
  /\ faults' = faults + 1 /\ ok' = Append(ok, FALSE) /\ apply' = apply + 1
  /\ pc' = "start" /\ task' = [p \in Names |-> Idling]
  /\ UNCHANGED <<setup, account, existing>>

Idle == pc = "start" /\ Over /\ UNCHANGED vars

Worker(p) == (\E order \in Orders : Read(p, order)) \/ Execute(p) \/ Suggest(p)
               \/ Fail(p) \/ Return(p)

Next == SkipAll \/ Begin \/ SubmitBatch \/ Finish \/ Crash \/ (\E p \in Names : Worker(p)) \/ Idle

Spec == Init /\ [][Next]_vars

-----------------------------------------------------------------------------
(* Properties.                                                             *)

\* Apply i was allowed everything, and no task failed in it.
Succeeded(i) == i \in DOMAIN ok /\ ok[i] /\ setup.applies[i] = Switches

IsClaimed(t) == \E p \in declared : t \in claims[p]

\* The target is as declared: the policy that claims it is on it, with the
\* columns of the reference; or it carries none that SnowDDL manages.
IsSettled(t) ==
  /\ \A p \in declared : t \in claims[p] => on[t] = p /\
       (kind \in {"AGGREGATION", "JOIN", "ROW_ACCESS"} => t \notin off)
  /\ IsClaimed(t) \/ on[t] = None

PoliciesAreDeclared == policies = declared /\ \A p \in declared : drift[p] = {}

\* Whatever failed before and with whatever switches: two applies in a row
\* that are allowed everything and exit 0 leave exactly the declared policies,
\* as declared, on what they claim.  One is not always enough, see below.
TwoAppliesSettle ==
  pc = "start" /\ apply > 2 /\ Succeeded(apply - 1) /\ Succeeded(apply - 2) /\ declared # {} =>
    PoliciesAreDeclared /\ \A t \in Targets : IsSettled(t)

\* An apply that was allowed everything and exits 0 leaves exactly the declared
\* policies, as declared; and as row access policies are named when they are
\* taken off a target, these are on what they claim.
OneApplySettles ==
  pc = "start" /\ apply > 1 /\ Succeeded(apply - 1) /\ declared # {} =>
    /\ PoliciesAreDeclared
    /\ \A t \in Targets : kind = "ROW_ACCESS" => IsSettled(t)

\* aup001.py:29-33: a user who changes from one authentication policy to
\* another is on the new one after an apply that exits 0.
OneApplyMoves ==
  pc = "start" /\ apply > 1 /\ Succeeded(apply - 1) /\ declared # {} =>
    \A t \in Targets : IsSettled(t)

\* After two such applies nothing is left to do: a third one, whatever its
\* switches, finds every policy and every reference in place.
SettledPlanIsEmpty ==
  apply > 2 /\ Succeeded(apply - 1) /\ Succeeded(apply - 2) =>
    \A p \in Names : task[p].plan = <<>>

=============================================================================
