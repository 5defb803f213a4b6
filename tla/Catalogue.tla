------------------------------ MODULE Catalogue ------------------------------
(***************************************************************************)
(* One pass of default_resolve_sequence over objects of (nearly) every     *)
(* type: what compare_object of each type does must fit what its           *)
(* create_object leaves behind, and what the resolvers before and after it *)
(* do to the objects it is about.                                          *)
(*                                                                         *)
(* Invocations are those of module Resolver with one worker: a statement   *)
(* at a time, the tasks of a batch in any order.  Databases and schemas    *)
(* are there and stay.  Failures and crashes happen between statements.    *)
(***************************************************************************)
EXTENDS AccountObjects, Integers, FiniteSets

CONSTANTS
  Objects,    \* every object that may exist in the account
  TypeOf,     \* its object type
  Within,     \* the tables a constraint belongs to or refers to
  Uses,       \* what Snowflake resolves when it is created or altered
  DependsOn,  \* blueprint.depends_on; of a task its predecessors
  SameName,   \* objects of other types it shares its full name with
  Flagged,    \* alerts that are enabled, warehouses that have a monitor
  Scenarios   \* what is considered, see ScenarioRecords

\* The types of default_resolve_sequence in this module, in its order.
ResolveSequence ==
  << "ACCOUNT_PARAMETER", "RESOURCE_MONITOR", "WAREHOUSE", "SECRET", "NETWORK_RULE",
     "EXTERNAL_ACCESS_INTEGRATION", "FILE_FORMAT", "STAGE", "SEQUENCE", "EXTERNAL_FUNCTION",
     "PROCEDURE", "TABLE", "EVENT_TABLE", "HYBRID_TABLE", "ICEBERG_TABLE", "FUNCTION",
     "DYNAMIC_TABLE", "EXTERNAL_TABLE", "PRIMARY_KEY", "UNIQUE_KEY", "FOREIGN_KEY",
     "CHECK_CONSTRAINT", "MATERIALIZED_VIEW", "VIEW", "VIEW_DEPENDENT_FUNCTION",
     "SEMANTIC_VIEW", "CORTEX_SEARCH_SERVICE", "PIPE", "STREAM", "TASK", "ALERT",
     "OUTBOUND_SHARE", "USER", "NETWORK_POLICY", "BACKUP_POLICY", "BACKUP_SET",
     "DATABASE_DELAYED" >>

Types == Range(ResolveSequence) \ {"VIEW_DEPENDENT_FUNCTION"}

\* skip_on_empty_blueprints
SkippedOnEmpty ==
  { "ACCOUNT_PARAMETER", "RESOURCE_MONITOR", "SECRET", "NETWORK_RULE",
    "EXTERNAL_ACCESS_INTEGRATION", "EVENT_TABLE", "HYBRID_TABLE", "ICEBERG_TABLE",
    "DYNAMIC_TABLE", "VIEW_DEPENDENT_FUNCTION", "SEMANTIC_VIEW", "CORTEX_SEARCH_SERVICE",
    "ALERT", "OUTBOUND_SHARE", "NETWORK_POLICY", "BACKUP_POLICY", "BACKUP_SET" }

Constraints == {"PRIMARY_KEY", "UNIQUE_KEY", "FOREIGN_KEY", "CHECK_CONSTRAINT"}

ASSUME CatalogueAssumption ==
  /\ TypeOf \in [Objects -> Types]
  /\ Within \in [Objects -> SUBSET Objects] /\ Uses \in [Objects -> SUBSET Objects]
  /\ DependsOn \in [Objects -> SUBSET Objects] /\ SameName \in [Objects -> SUBSET Objects]
  /\ \A o \in Objects : /\ Within[o] # {} <=> TypeOf[o] \in Constraints
                        /\ \A t \in Within[o] : TypeOf[t] = "TABLE"
  /\ Flagged \subseteq Objects

\* Declared objects, the account, users who have had the declared password before,
\* and for each invocation what is enabled of the switches and refreshes
\* (nothing: a plan).
ScenarioRecords ==
  [declared : SUBSET Objects, live : SUBSET Objects, drift : [Objects -> SUBSET ObjectAspects],
   priorUse : SUBSET Objects, commands : Seq(SUBSET (ObjectSwitches \cup Refreshes)), maxFaults : Nat]

\* The values of account parameters and the databases' event tables are there.
Permanent == {o \in Objects : TypeOf[o] \in {"ACCOUNT_PARAMETER", "DATABASE_DELAYED"}}

ASSUME CatalogueScenarioAssumption ==
  \A s \in Scenarios : /\ s \in ScenarioRecords /\ Permanent \subseteq s.live
                       /\ \A o \in s.live : Within[o] \subseteq s.live
                       /\ \A o \in s.declared : Within[o] \cup Uses[o] \subseteq s.declared

VARIABLES
  scenario,   \* the scenario
  live,       \* the objects in the account
  drift,      \* for each of them, the aspects that differ from its blueprint
  inv,        \* the current invocation
  pc,         \* where it is
  idx,        \* the resolver of the sequence that is running
  existing,   \* existing_objects of the resolver
  remaining,  \* its blueprints which are in no batch yet
  queue,      \* the tasks of the phase that have not started
  task,       \* the one that has
  intention,  \* IntentionCache.object_drop_intention
  failed,     \* whether some object of the invocation had an error
  suggested,  \* SnowDDLEngine.suggested_ddl: of which objects, in which aspects
  faults,     \* failures injected so far
  history     \* what the finished invocations did

account == <<live, drift>>
process == <<inv, pc, idx, existing, remaining, queue, task, intention, failed, suggested>>
vars == <<scenario, account, process, faults, history>>

Enabled  == scenario.commands[inv]
declared == scenario.declared

NoTask   == [obj |-> "none", result |-> "NOCHANGE", statements |-> <<>>]
EmptyMap == [o \in {} |-> {}]

Resolver     == ResolveSequence[idx]
ResolverType == IF Resolver = "VIEW_DEPENDENT_FUNCTION" THEN "FUNCTION" ELSE Resolver

Blueprints ==
  {o \in declared : /\ TypeOf[o] = ResolverType
                    /\ Resolver = "VIEW_DEPENDENT_FUNCTION" => DependsOn[o] # {}}

IsSkipped == Resolver \in SkippedOnEmpty /\ Blueprints = {}

-----------------------------------------------------------------------------
(* The tasks.                                                              *)

ExistingObjects == [o \in {v \in live : TypeOf[v] = ResolverType} |-> drift[o]]

\* _resolve_drop; a table dropped or replaced takes its constraints with it.
DropTargets ==
  {o \in DOMAIN existing' : /\ Resolver # "VIEW_DEPENDENT_FUNCTION"
                            /\ o \notin Blueprints
                            /\ Within[o] \cap intention = {}}

Batchable == IF Resolver = "FUNCTION" THEN {f \in Blueprints : DependsOn[f] = {}} ELSE Blueprints

\* Mutant: everything at once.
OneBatch == remaining
NextBatch ==
  LET ready == {o \in remaining : DependsOn[o] \subseteq Blueprints \ remaining}
  IN  IF ready = {} \/ Resolver = "VIEW_DEPENDENT_FUNCTION" THEN remaining ELSE ready

\* Network policies and integrations that name the rule.
Holders(rule) ==
  {h \in live : /\ TypeOf[h] \in {"NETWORK_POLICY", "EXTERNAL_ACCESS_INTEGRATION"}
                /\ rule \in Uses[h] /\ "rules" \notin drift[h]}

DropReply(o) ==
  LET type == TypeOf[o]
  IN CASE type = "ACCOUNT_PARAMETER" -> DropAccountParam(o, existing[o])
       [] type = "RESOURCE_MONITOR"  -> DropResourceMonitor(o)
       [] type = "WAREHOUSE"         -> DropWarehouse(o)
       [] type = "SECRET"            -> DropSecret(o)
       [] type = "NETWORK_RULE"      -> DropNetworkRule(o, Holders(o))
       [] type = "EXTERNAL_ACCESS_INTEGRATION" -> DropIntegration(o)
       [] type = "FILE_FORMAT"       -> DropFileFormat(o)
       [] type = "STAGE"             -> DropStage(o)
       [] type = "SEQUENCE"          -> DropSequence(o)
       [] type = "EXTERNAL_FUNCTION" -> DropExternalFunction(o)
       [] type = "PROCEDURE"         -> DropProcedure(o)
       [] type = "TABLE"             -> DropTable(o)
       [] type = "EVENT_TABLE"       -> DropEventTable(o)
       [] type = "HYBRID_TABLE"      -> DropHybridTable(o)
       [] type = "ICEBERG_TABLE"     -> DropIcebergTable(o)
       [] type = "FUNCTION"          -> DropFunction(o)
       [] type = "DYNAMIC_TABLE"     -> DropDynamicTable(o)
       [] type = "EXTERNAL_TABLE"    -> DropExternalTable(o)
       [] type = "PRIMARY_KEY"       -> DropPrimaryKey(o)
       [] type = "UNIQUE_KEY"        -> DropUniqueKey(o)
       [] type = "FOREIGN_KEY"       -> DropForeignKey(o)
       [] type = "CHECK_CONSTRAINT"  -> DropCheckConstraint(o)
       [] type = "MATERIALIZED_VIEW" -> DropMaterializedView(o)
       [] type = "VIEW"              -> DropView(o)
       [] type = "SEMANTIC_VIEW"     -> DropSemanticView(o)
       [] type = "CORTEX_SEARCH_SERVICE" -> DropCortexSearchService(o)
       [] type = "PIPE"              -> DropPipe(o)
       [] type = "STREAM"            -> DropStream(o)
       [] type = "TASK"              -> DropTask(o)
       [] type = "ALERT"             -> DropAlert(o)
       [] type = "OUTBOUND_SHARE"    -> DropShare(o)
       [] type = "USER"              -> DropUser(o)
       [] type = "NETWORK_POLICY"    -> DropNetworkPolicy(o)
       [] type = "BACKUP_POLICY"     -> DropBackupPolicy(o)
       [] type = "BACKUP_SET"        -> DropBackupSet(o)
       [] type = "DATABASE_DELAYED"  -> DropDelayed(o)

CreateReply(o) ==
  LET type == TypeOf[o]
  IN CASE type = "RESOURCE_MONITOR"  -> CreateResourceMonitor(o)
       [] type = "WAREHOUSE"         -> CreateWarehouse(o, o \in Flagged)
       [] type = "SECRET"            -> CreateSecret(o)
       [] type = "NETWORK_RULE"      -> CreateNetworkRule(o)
       [] type = "EXTERNAL_ACCESS_INTEGRATION" -> CreateIntegration(o)
       [] type = "FILE_FORMAT"       -> CreateFileFormat(o)
       [] type = "STAGE"             -> CreateStage(o)
       [] type = "SEQUENCE"          -> CreateSequence(o)
       [] type = "EXTERNAL_FUNCTION" -> CreateExternalFunction(o)
       [] type = "PROCEDURE"         -> CreateProcedure(o)
       [] type = "TABLE"             -> CreateTable(o)
       [] type = "EVENT_TABLE"       -> CreateEventTable(o)
       [] type = "HYBRID_TABLE"      -> CreateHybridTable(o)
       [] type = "ICEBERG_TABLE"     -> CreateIcebergTable(o)
       [] type = "FUNCTION"          -> CreateFunction(o)
       [] type = "DYNAMIC_TABLE"     -> CreateDynamicTable(o)
       [] type = "EXTERNAL_TABLE"    -> CreateExternalTable(o)
       [] type = "PRIMARY_KEY"       -> CreatePrimaryKey(o)
       [] type = "UNIQUE_KEY"        -> CreateUniqueKey(o)
       [] type = "FOREIGN_KEY"       -> CreateForeignKey(o)
       [] type = "CHECK_CONSTRAINT"  -> CreateCheckConstraint(o)
       [] type = "MATERIALIZED_VIEW" -> CreateMaterializedView(o)
       [] type = "VIEW"              -> CreateView(o)
       [] type = "SEMANTIC_VIEW"     -> CreateSemanticView(o)
       [] type = "CORTEX_SEARCH_SERVICE" -> CreateCortexSearchService(o)
       [] type = "PIPE"              -> CreatePipe(o)
       [] type = "STREAM"            -> CreateStream(o)
       [] type = "TASK"              -> CreateTask(o)
       [] type = "ALERT"             -> CreateAlert(o, o \in Flagged)
       [] type = "OUTBOUND_SHARE"    -> CreateShare(o)
       [] type = "USER"              -> CreateUser(o)
       [] type = "NETWORK_POLICY"    -> CreateNetworkPolicy(o)
       [] type = "BACKUP_POLICY"     -> CreateBackupPolicy(o)
       [] type = "BACKUP_SET"        -> CreateBackupSet(o)

CompareReply(o, d) ==
  LET type == TypeOf[o]
  IN CASE type = "ACCOUNT_PARAMETER" -> CompareAccountParam(o, d)
       [] type = "RESOURCE_MONITOR"  -> CompareResourceMonitor(o, d)
       [] type = "WAREHOUSE"         -> CompareWarehouse(o, d)
       [] type = "SECRET"            -> CompareSecret(o, d, "refresh_secrets" \in Enabled)
       [] type = "NETWORK_RULE"      -> CompareNetworkRule(o, d, Holders(o))
       [] type = "EXTERNAL_ACCESS_INTEGRATION" -> CompareIntegration(o, d)
       [] type = "FILE_FORMAT"       -> CompareFileFormat(o, d)
       [] type = "STAGE"             -> CompareStage(o, d, "refresh_stage" \in Enabled)
       [] type = "SEQUENCE"          -> CompareSequence(o, d)
       [] type = "EXTERNAL_FUNCTION" -> CompareExternalFunction(o, d)
       [] type = "PROCEDURE"         -> CompareProcedure(o, d)
       [] type = "TABLE"             -> CompareTable(o, d)
       [] type = "EVENT_TABLE"       -> CompareEventTable(o, d)
       [] type = "HYBRID_TABLE"      -> CompareHybridTable(o, d)
       [] type = "ICEBERG_TABLE"     -> CompareIcebergTable(o, d)
       [] type = "FUNCTION"          -> CompareFunction(o, d)
       [] type = "DYNAMIC_TABLE"     -> CompareDynamicTable(o, d)
       [] type = "EXTERNAL_TABLE"    -> CompareExternalTable(o, d)
       [] type = "PRIMARY_KEY"       -> ComparePrimaryKey(o, d)
       [] type = "UNIQUE_KEY"        -> CompareUniqueKey(o, d)
       [] type = "FOREIGN_KEY"       -> CompareForeignKey(o, d)
       [] type = "CHECK_CONSTRAINT"  -> CompareCheckConstraint(o, d)
       [] type = "MATERIALIZED_VIEW" -> CompareMaterializedView(o, d)
       [] type = "VIEW"              -> CompareView(o, d, Uses[o] \subseteq live)
       [] type = "SEMANTIC_VIEW"     -> CompareSemanticView(o, d)
       [] type = "CORTEX_SEARCH_SERVICE" -> CompareCortexSearchService(o, d)
       [] type = "PIPE"              -> ComparePipe(o, d)
       [] type = "STREAM"            -> CompareStream(o, d)
       [] type = "TASK"              -> CompareTask(o, d, DependsOn[o] # {})
       [] type = "ALERT"             -> CompareAlert(o, d, o \in Flagged)
       [] type = "OUTBOUND_SHARE"    -> CompareShare(o, d)
       [] type = "USER"              -> CompareUser(o, d, "refresh_users" \in Enabled)
       [] type = "NETWORK_POLICY"    -> CompareNetworkPolicy(o, d)
       [] type = "BACKUP_POLICY"     -> CompareBackupPolicy(o, d)
       [] type = "BACKUP_SET"        -> CompareBackupSet(o, d)
       [] type = "DATABASE_DELAYED"  -> CompareDelayed(o, d)

ReplyFor(o) ==
  CASE pc = "drop"                               -> DropReply(o)
    [] pc = "create" /\ o \in DOMAIN existing    -> CompareReply(o, existing[o])
    [] pc = "create" /\ o \notin DOMAIN existing -> CreateReply(o)

-----------------------------------------------------------------------------
(* Snowflake.                                                              *)

CanRun(s) == s.gate \subseteq Enabled

\* Statements that name what the object refers to.
Refers(s) ==
  \/ s.op \in {"CREATE", "REPLACE"}
  \/ s.op = "ALTER" /\ s.aspects \cap {"rules", "grants", "missing"} # {}
  \/ s.op = "ALTER" /\ TypeOf[s.obj] = "DATABASE_DELAYED"

\* A password that the user has had before is refused with an error of its own.
IsPriorUse(s) == s.obj \in scenario.priorUse /\ s.op = "ALTER" /\ s.aspects = {"password"}

\* A task cannot come after one that comes after it.
MakesCycle(s) ==
  TypeOf[s.obj] = "TASK" /\ \E t \in DependsOn[s.obj] : "extra" \in drift[t]

IsRunning(alert) == (alert \in Flagged) # ("state" \in drift[alert])

\* What Snowflake accepts of the statements of the types at hand.
IsLegal(s) ==
  /\ s.op = "CREATE" => s.obj \notin live
  /\ s.op \in {"ALTER", "UNSET", "DROP"} => s.obj \in live
  /\ s.op \in {"CREATE", "REPLACE"} => Within[s.obj] \subseteq live /\ SameName[s.obj] \cap live = {}
  /\ Refers(s) => Uses[s.obj] \subseteq live /\ ~MakesCycle(s)
  /\ TypeOf[s.obj] = "NETWORK_RULE" /\ s.op \in {"REPLACE", "DROP"} => Holders(s.obj) = {}
  /\ TypeOf[s.obj] = "ALERT" /\ s.op = "ALTER" /\ s.aspects # {"state"} => ~IsRunning(s.obj)
  /\ TypeOf[s.obj] = "USER" /\ s.op = "ALTER" =>
       /\ "type" \in s.aspects => "identity_off" \notin drift[s.obj]
       /\ "identity_on" \in s.aspects => "type" \notin drift[s.obj]

Inside(o) == {b \in Objects : o \in Within[b]}

LiveAfter(s) ==
  CASE s.op \in {"ALTER", "UNSET"} -> live
    [] s.op = "CREATE"  -> live \cup {s.obj}
    [] s.op = "REPLACE" -> (live \ Inside(s.obj)) \cup {s.obj}
    [] s.op = "DROP"    -> live \ (Inside(s.obj) \cup {s.obj})

\* The statements that create these say COPY GRANTS.
CopiesGrants == {"TABLE", "VIEW", "MATERIALIZED_VIEW", "EXTERNAL_TABLE"}

\* What another object suffers when something it uses is replaced or dropped.
Suffers(o, s) ==
  IF s.op \notin {"REPLACE", "DROP"} \/ s.obj \notin Uses[o] \/ s.obj \notin live THEN {}
  ELSE CASE TypeOf[o] \in {"STREAM", "MATERIALIZED_VIEW"} -> {"stale"}
         [] TypeOf[o] = "EXTERNAL_TABLE" /\ TypeOf[s.obj] = "STAGE" -> {"stale"}
         [] TypeOf[o] = "OUTBOUND_SHARE"
              /\ (s.op = "DROP" \/ TypeOf[s.obj] \notin CopiesGrants) -> {"grants"}
         [] OTHER -> {}

DriftAfter(s) ==
  [o \in Objects |->
     CASE o \notin LiveAfter(s)            -> {}
       [] o = s.obj /\ s.op = "ALTER"      -> drift[o] \ s.aspects
       [] o = s.obj /\ s.op = "UNSET"      -> drift[o] \cup s.aspects
       [] o = s.obj /\ s.op \in {"CREATE", "REPLACE"} -> s.aspects
       [] OTHER                            -> drift[o] \cup Suffers(o, s)]

-----------------------------------------------------------------------------
Init ==
  /\ scenario \in Scenarios
  /\ live = scenario.live /\ drift = scenario.drift
  /\ inv = 1 /\ pc = "start" /\ idx = 1
  /\ existing = EmptyMap /\ remaining = {} /\ queue = {} /\ task = NoTask
  /\ intention = {} /\ failed = FALSE /\ suggested = {} /\ faults = 0 /\ history = <<>>

Start ==
  /\ pc = "start" /\ inv <= Len(scenario.commands)
  /\ pc' = "resolver" /\ idx' = 1
  /\ intention' = {} /\ failed' = FALSE /\ suggested' = {}
  /\ UNCHANGED <<scenario, account, inv, existing, remaining, queue, task, faults, history>>

Skip ==
  /\ pc = "resolver" /\ idx <= Len(ResolveSequence) /\ IsSkipped
  /\ idx' = idx + 1
  /\ UNCHANGED <<scenario, account, inv, pc, existing, remaining, queue, task, intention,
                 failed, suggested, faults, history>>

Begin ==
  /\ pc = "resolver" /\ idx <= Len(ResolveSequence) /\ ~IsSkipped
  /\ existing' = ExistingObjects
  /\ queue' = DropTargets /\ remaining' = Batchable
  /\ pc' = "drop"
  /\ UNCHANGED <<scenario, account, inv, idx, task, intention, failed, suggested, faults, history>>

StartTask ==
  /\ task = NoTask
  /\ \E o \in queue :
       /\ queue' = queue \ {o}
       /\ LET reply == ReplyFor(o)
          IN  task' = [obj |-> o, result |-> reply.result, statements |-> reply.statements]
  /\ UNCHANGED <<scenario, account, inv, pc, idx, existing, remaining, intention, failed,
                 suggested, faults, history>>

HasStatement == task # NoTask /\ task.statements # <<>>

Suggest ==
  /\ HasStatement
  /\ LET s == Head(task.statements)
     IN  ~CanRun(s) /\ suggested' = suggested \cup {<<s.obj, s.aspects>>}
  /\ task' = [task EXCEPT !.statements = Tail(@)]
  /\ UNCHANGED <<scenario, account, inv, pc, idx, existing, remaining, queue, intention,
                 failed, faults, history>>

Execute ==
  /\ HasStatement
  /\ LET s == Head(task.statements)
     IN  /\ CanRun(s) /\ IsLegal(s) /\ ~IsPriorUse(s)
         /\ live' = LiveAfter(s) /\ drift' = DriftAfter(s)
  /\ task' = [task EXCEPT !.statements = Tail(@)]
  /\ UNCHANGED <<scenario, inv, pc, idx, existing, remaining, queue, intention, failed,
                 suggested, faults, history>>

\* _compare_password: a password that is refused for PRIOR_USE is no error, the
\* task goes on to the user's other properties.
PassOver ==
  /\ HasStatement
  /\ LET s == Head(task.statements) IN CanRun(s) /\ IsLegal(s) /\ IsPriorUse(s)
  /\ task' = [task EXCEPT !.statements = Tail(@)]
  /\ UNCHANGED <<scenario, account, inv, pc, idx, existing, remaining, queue, intention,
                 failed, suggested, faults, history>>

\* Snowflake refuses the statement, or it fails for no reason of its own.
Raise ==
  /\ HasStatement /\ CanRun(Head(task.statements))
  /\ \/ ~IsLegal(Head(task.statements)) /\ faults' = faults
     \/ IsLegal(Head(task.statements)) /\ faults < scenario.maxFaults /\ faults' = faults + 1
  /\ task' = [task EXCEPT !.result = "ERROR", !.statements = <<>>]
  /\ UNCHANGED <<scenario, account, inv, pc, idx, existing, remaining, queue, intention,
                 failed, suggested, history>>

Collect ==
  /\ task # NoTask /\ task.statements = <<>>
  /\ intention' = IF task.result \in {"REPLACE", "DROP"} THEN intention \cup {task.obj}
                                                         ELSE intention
  /\ failed' = (failed \/ task.result \in {"ERROR", "UNSUPPORTED"})
  /\ task' = NoTask
  /\ UNCHANGED <<scenario, account, inv, pc, idx, existing, remaining, queue, suggested,
                 faults, history>>

PhaseEnds == pc \in {"drop", "create"} /\ queue = {} /\ task = NoTask

SubmitBatch ==
  /\ PhaseEnds /\ remaining # {}
  /\ queue' = NextBatch /\ remaining' = remaining \ NextBatch /\ pc' = "create"
  /\ UNCHANGED <<scenario, account, inv, idx, existing, task, intention, failed, suggested,
                 faults, history>>

Finish ==
  /\ PhaseEnds /\ remaining = {}
  /\ idx' = idx + 1 /\ pc' = "resolver" /\ existing' = EmptyMap
  /\ UNCHANGED <<scenario, account, inv, remaining, queue, task, intention, failed, suggested,
                 faults, history>>

Record(exit) ==
  /\ history' = Append(history, [exit |-> exit, enabled |-> Enabled, suggested |-> suggested,
                                 faults |-> faults'])
  /\ inv' = inv + 1 /\ pc' = "start"

Exit ==
  /\ pc = "resolver" /\ idx > Len(ResolveSequence)
  /\ faults' = faults /\ Record(IF failed THEN "errors" ELSE "success")
  /\ UNCHANGED <<scenario, account, idx, existing, remaining, queue, task, intention,
                 failed, suggested>>

\* The process dies with a statement still to do.
Crash ==
  /\ HasStatement /\ faults < scenario.maxFaults
  /\ faults' = faults + 1 /\ Record("aborted")
  /\ existing' = EmptyMap /\ remaining' = {} /\ queue' = {} /\ task' = NoTask
  /\ UNCHANGED <<scenario, account, idx, intention, failed, suggested>>

Idle == pc = "start" /\ inv > Len(scenario.commands) /\ UNCHANGED vars

Next == \/ Start \/ Skip \/ Begin \/ StartTask \/ Suggest \/ Execute \/ PassOver \/ Raise
        \/ Collect \/ SubmitBatch \/ Finish \/ Exit \/ Crash \/ Idle

Spec == Init /\ [][Next]_vars

-----------------------------------------------------------------------------
(* Properties.                                                             *)

\* What the compare of its type does not look at: the rules of an integration,
\* and predecessors of a task that is declared without any.
Unseen(o) ==
  CASE TypeOf[o] = "EXTERNAL_ACCESS_INTEGRATION"  -> {"rules"}
    [] TypeOf[o] = "TASK" /\ DependsOn[o] = {}    -> {"extra"}
    [] OTHER                                      -> {}

\* The last objects of a type whose resolver is skipped stay.
Forgotten(o) ==
  TypeOf[o] \in SkippedOnEmpty /\ \A b \in declared : TypeOf[b] # TypeOf[o]

\* "Password rejected due to 'PRIOR_USE'.  Not an error, skip such user"
\* (user.py:252): what stays as it is for as long as that password is declared.
PassedOver == {<<u, {"password"}>> : u \in scenario.priorUse}

InStep ==
  /\ \A o \in declared :
       o \in live /\ \A a \in drift[o] \ Unseen(o) : <<o, {a}>> \in PassedOver
  /\ \A o \in live \ declared : o \in Permanent \/ Forgotten(o)

Runs == Len(history)
FullySucceeded(i) ==
  history[i].exit = "success" /\ ObjectSwitches \subseteq history[i].enabled

\* An apply of all types allowed everything and exiting 0 leaves them as
\* declared, whatever runs that failed, died or were allowed less left half
\* done before: no resolver takes the half for the whole, none undoes what an
\* earlier one in the sequence did (resolver/__init__.py:65).  A password that is
\* refused for its prior use costs nothing but itself.
SuccessMeansInStep == pc = "start" /\ Runs > 0 /\ FullySucceeded(Runs) => InStep

\* And the plan after it finds nothing to do: what each type's create and
\* alters leave is what its compare expects.  Only a password that was passed
\* over is suggested again.
ConvergedPlanIsEmpty ==
  \A i \in 2..Runs :
    FullySucceeded(i - 1) /\ history[i].enabled = {} => history[i].suggested \subseteq PassedOver

Conflicts == \E o \in declared : SameName[o] \cap scenario.live # {}

\* Nothing but such passwords is refused by Snowflake unless names change hands or
\* something failed before: rules are released before they go, running alerts suspended,
\* identities unset before the type, predecessors removed before they would
\* close a cycle, and everything exists before it is referred to.
StatementsAreAccepted ==
  faults = 0 /\ ~Conflicts /\ HasStatement /\ CanRun(Head(task.statements))
    => IsLegal(Head(task.statements))

IsSupported ==
  \A o \in declared : TypeOf[o] = "SEQUENCE" => "kind" \notin scenario.drift[o]

\* Trying again is enough: of two applies in a row that are allowed everything
\* and in which nothing fails, the second exits 0, even if the first had to
\* make room for it or something was left half done by an earlier crash.
RetrySucceeds ==
  \A i \in 2..Runs :
    /\ \A j \in {i - 1, i} : ObjectSwitches \subseteq history[j].enabled
    /\ history[i].faults = IF i = 2 THEN 0 ELSE history[i - 2].faults
    /\ IsSupported
    => history[i].exit = "success"

\* network_rule.py:188-191 removes all rules from an integration that refers to one
\* because it is required to replace that; who is declared to have the rule has it afterwards.
RulesAreBack ==
  pc = "start" /\ Runs > 0 /\ FullySucceeded(Runs) =>
    \A o \in declared : "rules" \notin drift[o]

=============================================================================
