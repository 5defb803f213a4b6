------------------------------ MODULE Resolver ------------------------------
(***************************************************************************)
(* Successive invocations of SnowDDL (plan, apply, destroy) against one    *)
(* Snowflake account: the loop over the resolvers, each resolver's reading *)
(* of the account, its drop phase and its create-or-compare batches run by *)
(* a thread pool, the intention cache and the schema cache which carry     *)
(* decisions from one resolver to the next, and statements that are        *)
(* executed or only suggested.                                             *)
(*                                                                         *)
(* An object is a database, a schema or a schema object.  Full names are   *)
(* dotted paths, so an object's name tells the objects it lives in: those  *)
(* are Within[o], and dropping one of them drops o.                        *)
(***************************************************************************)
EXTENDS Statements, Integers, FiniteSets

CONSTANTS
  Objects,      \* every object that may exist in the account
  TypeOf,       \* its object type
  Within,       \* the objects it lives in: database, schema, table of a key
  Uses,         \* what Snowflake resolves when it is created (body of a view)
  DependsOn,    \* blueprint.depends_on
  PublicOf,     \* the schema PUBLIC of each database
  Scenarios     \* what is considered, see ScenarioRecords

Types == {"DATABASE", "SCHEMA", "TABLE", "FUNCTION", "PRIMARY_KEY", "VIEW"}

Databases == {o \in Objects : TypeOf[o] = "DATABASE"}
Schemas   == {o \in Objects : TypeOf[o] = "SCHEMA"}

ASSUME ResolverAssumption ==
  /\ TypeOf \in [Objects -> Types]
  /\ Within \in [Objects -> SUBSET Objects]
  /\ \A o \in Objects : \A h \in Within[o] :
       /\ Within[h] \subseteq Within[o]
       /\ \/ TypeOf[h] \in {"DATABASE", "SCHEMA"}
          \/ TypeOf[h] = "TABLE" /\ TypeOf[o] = "PRIMARY_KEY"
  /\ \A d \in Databases : Within[d] = {}
  /\ \A s \in Schemas : Within[s] # {} /\ Within[s] \subseteq Databases
  /\ \A o \in Objects \ (Databases \cup Schemas) : Within[o] \cap Schemas # {}
  /\ \A o \in Objects : \A h, k \in Within[o] : TypeOf[h] = TypeOf[k] => h = k
  /\ \A o \in Objects : \A d \in Within[o] \cap Databases :
       \A s \in Within[o] \cap Schemas : d \in Within[s]
  /\ Uses \in [Objects -> SUBSET Objects]
  /\ DependsOn \in [Objects -> SUBSET Objects]
  /\ PublicOf \in [Databases -> Schemas]
  /\ \A d \in Databases : Within[PublicOf[d]] = {d}

Command == [action : {"plan", "apply", "destroy"},
            options : SUBSET {"apply_unsafe", "apply_replace_table"},
            exclude : SUBSET Types, include : SUBSET Types]

\* A parsed configuration (is_sandbox and is_unmanaged are parameters of
\* databases and schemas), the account at first, the command lines run one
\* after the other, and bounds: on failing statements and queries and on
\* crashes, and on invocations disturbed by someone else's DDL.
ScenarioRecords ==
  [config : [declared : SUBSET Objects, sandbox : SUBSET Objects, unmanaged : SUBSET Objects],
   live : SUBSET Objects, drift : [Objects -> SUBSET Aspects],
   commands : Seq(Command), maxFaults : Nat, maxOutside : Nat]

\* A blueprint's database and schema have blueprints too (they are
\* directories), a key comes with its table; so it is in the account, where
\* an object differs from its blueprint in what is compared of its type.
ASSUME ScenarioAssumption ==
  \A s \in Scenarios :
    /\ s \in ScenarioRecords
    /\ \A o \in s.config.declared : Within[o] \subseteq s.config.declared
    /\ s.config.sandbox \cup s.config.unmanaged
         \subseteq s.config.declared \cap (Databases \cup Schemas)
    /\ \A o \in s.live : Within[o] \subseteq s.live
    /\ \A o \in Objects : s.drift[o] \subseteq AspectsOf(TypeOf[o])

VARIABLES
  scenario,   \* the scenario
  live,       \* the objects in the account
  drift,      \* for each of them, the aspects that differ from its blueprint
  inv,        \* the current invocation
  pc,         \* where its main thread is
  idx,        \* the resolver of the sequence that is running
  cache,      \* SchemaCache: the rows of databases and schemas
  existing,   \* existing_objects of the resolver: full name to row
  remaining,  \* its blueprints which are in no batch yet
  task,       \* the futures of its executor, by full name
  intention,  \* IntentionCache.object_drop_intention
  results,    \* resolved_objects of every resolver
  executed,   \* executed_ddl
  suggested,  \* suggested_ddl
  faults,     \* failures injected so far
  outside,    \* the invocations during which someone else changed the account
  history     \* what the finished invocations did

account == <<live, drift>>
vars == <<scenario, live, drift, inv, pc, idx, cache, existing, remaining, task,
          intention, results, executed, suggested, faults, outside, history>>

config      == scenario.config
Invocations == scenario.commands

EmptyMap == [o \in {} |-> {}]

-----------------------------------------------------------------------------
(* Settings and sequences.                                                 *)

Invocation == Invocations[inv]

\* init_settings: plan executes nothing, destroy implies unsafe DDL.
Settings ==
  IF Invocation.action = "plan" THEN {}
  ELSE {"execute_safe_ddl"}
    \cup (IF Invocation.action = "destroy" \/ "apply_unsafe" \in Invocation.options
          THEN {"execute_unsafe_ddl"} ELSE {})
    \cup (IF "apply_replace_table" \in Invocation.options
          THEN {"execute_replace_table"} ELSE {})

\* default_resolve_sequence and default_destroy_sequence, without the
\* resolvers whose types are not modelled here.
ResolveSequence == <<"DATABASE", "SCHEMA", "TABLE", "FUNCTION", "PRIMARY_KEY",
                     "VIEW", "VIEW_DEPENDENT_FUNCTION">>
DestroySequence == <<"DATABASE", "SCHEMA">>

Sequence == IF Invocation.action = "destroy" THEN DestroySequence ELSE ResolveSequence

Resolver == Sequence[idx]
ResolverType == IF Resolver = "VIEW_DEPENDENT_FUNCTION" THEN "FUNCTION" ELSE Resolver

Typed(type) == {o \in Objects : TypeOf[o] = type}

\* get_blueprints
Blueprints ==
  {o \in config.declared : /\ TypeOf[o] = ResolverType
                           /\ Resolver = "VIEW_DEPENDENT_FUNCTION" => DependsOn[o] # {}}

\* _is_skipped; ViewDependentFunctionResolver sets skip_on_empty_blueprints.
IsSkipped ==
  \/ ResolverType \in Invocation.exclude
  \/ Invocation.include # {} /\ ResolverType \notin Invocation.include
  \/ Invocation.include = {} /\ Resolver = "VIEW_DEPENDENT_FUNCTION" /\ Blueprints = {}

-----------------------------------------------------------------------------
(* Reading the account.                                                    *)

\* SchemaCache.reload
LoadedCache == [o \in live \cap (Databases \cup Schemas) |-> drift[o]]

\* get_existing_objects: databases and schemas come from the cache, all other
\* types are listed in each cached schema.
ExistingObjects ==
  IF ResolverType \in {"DATABASE", "SCHEMA"}
  THEN [o \in Typed(ResolverType) \cap DOMAIN cache |-> cache[o]]
  ELSE [o \in {v \in live \cap Typed(ResolverType) :
                 Within[v] \cap Schemas \subseteq DOMAIN cache} |-> drift[o]]

\* Listing a schema that no longer exists raises and ends the invocation.
ReadsMissingSchema ==
  /\ ResolverType \notin {"DATABASE", "SCHEMA"}
  /\ \E s \in Schemas \cap DOMAIN cache : s \notin live

\* Mutant: parents' intentions are not looked at.
ImplicitDropIgnored(o) == FALSE

\* check_parent_object_drop_intention
ImplicitDropIntention(o) == Within[o] \cap intention # {}

\* The container whose blueprint decides over undeclared objects in it.
Keeper(o) == IF TypeOf[o] = "SCHEMA" THEN Within[o] \cap Databases
             ELSE Within[o] \cap Schemas

\* Mutant: sandboxes are not looked at.
DropTargetsInSandboxes(rows) ==
  {o \in DOMAIN rows : /\ Resolver # "VIEW_DEPENDENT_FUNCTION"
                       /\ o \notin Blueprints
                       /\ ~ImplicitDropIntention(o)
                       /\ Keeper(o) \subseteq config.declared}

\* _resolve_drop: declared objects stay, so do those that go with a parent,
\* those whose container is not declared (it is dropped itself) and those in
\* a sandbox.  ViewDependentFunctionResolver leaves drops to FunctionResolver.
ResolveDropTargets(rows) ==
  {o \in DOMAIN rows : /\ Resolver # "VIEW_DEPENDENT_FUNCTION"
                       /\ o \notin Blueprints
                       /\ ~ImplicitDropIntention(o)
                       /\ Keeper(o) \subseteq config.declared \ config.sandbox}

\* Mutant: destroy spares sandboxes as resolve does.
DestroySparesSandboxes(rows) ==
  {o \in DOMAIN rows : ~ImplicitDropIntention(o) /\ o \notin config.sandbox}

\* _destroy_drop
DestroyDropTargets(rows) == {o \in DOMAIN rows : ~ImplicitDropIntention(o)}

DropTargets(rows) == IF Invocation.action = "destroy" THEN DestroyDropTargets(rows)
                                                      ELSE ResolveDropTargets(rows)

-----------------------------------------------------------------------------
(* Batches.                                                                *)

\* FunctionResolver batches only the functions that declare no dependency.
Batchable == IF Resolver = "FUNCTION" THEN {f \in Blueprints : DependsOn[f] = {}}
                                      ELSE Blueprints

\* Mutants: one batch for all; and names that are never allocated wait forever.
OneBatch   == remaining
ReadyBatch == {o \in remaining : DependsOn[o] \subseteq Blueprints \ remaining}

\* One iteration of _split_blueprints_into_batches: what depends only on
\* allocated names, or everything that is left.
NextBatch ==
  LET ready == {o \in remaining : DependsOn[o] \subseteq Blueprints \ remaining}
  IN  IF ready = {} \/ Resolver = "VIEW_DEPENDENT_FUNCTION" THEN remaining ELSE ready

\* _is_unmanaged_blueprint
IsUnmanaged(o) == (Within[o] \cup {o}) \cap Schemas \cap config.unmanaged # {}

-----------------------------------------------------------------------------
(* The three things a task may be asked to do.                             *)

DropReply(o) ==
  CASE TypeOf[o] = "DATABASE"    -> DropDatabase(o)
    [] TypeOf[o] = "SCHEMA"      -> DropSchema(o)
    [] TypeOf[o] = "TABLE"       -> DropTable(o)
    [] TypeOf[o] = "FUNCTION"    -> DropFunction(o)
    [] TypeOf[o] = "PRIMARY_KEY" -> DropPrimaryKey(o)
    [] TypeOf[o] = "VIEW"        -> DropView(o)

CreateReply(o) ==
  CASE TypeOf[o] = "DATABASE"    -> CreateDatabase(o, PublicOf[o])
    [] TypeOf[o] = "SCHEMA"      -> CreateSchema(o)
    [] TypeOf[o] = "TABLE"       -> CreateTable(o)
    [] TypeOf[o] = "FUNCTION"    -> CreateFunction(o)
    [] TypeOf[o] = "PRIMARY_KEY" -> CreatePrimaryKey(o)
    [] TypeOf[o] = "VIEW"        -> CreateView(o)

CompareReply(o) ==
  CASE TypeOf[o] = "DATABASE"    -> CompareDatabase(o, existing[o])
    [] TypeOf[o] = "SCHEMA"      -> CompareSchema(o, existing[o])
    [] TypeOf[o] = "TABLE"       -> CompareTable(o, existing[o])
    [] TypeOf[o] = "FUNCTION"    -> CompareFunction(o, existing[o])
    [] TypeOf[o] = "PRIMARY_KEY" -> ComparePrimaryKey(o, existing[o])
    [] TypeOf[o] = "VIEW"        -> CompareView(o, existing[o], Uses[o] \subseteq live)

\* Drops run in the drop phase only, so the phase tells which it is.
ReplyFor(o) ==
  CASE pc = "drop"                               -> DropReply(o)
    [] pc = "create" /\ o \in DOMAIN existing    -> CompareReply(o)
    [] pc = "create" /\ o \notin DOMAIN existing -> CreateReply(o)

-----------------------------------------------------------------------------
(* What a statement does to the account.                                   *)

CanRun(s) == s.gate \subseteq Settings

\* Snowflake refuses to act on what is missing, and to create an object whose
\* container or whose body's references are missing, or which exists already.
IsLegal(s) ==
  CASE s.op = "CREATE"  -> s.obj \notin live /\ Within[s.obj] \cup Uses[s.obj] \subseteq live
    [] s.op = "REPLACE" -> Within[s.obj] \cup Uses[s.obj] \subseteq live
    [] OTHER            -> s.obj \in live

Inside(o) == {b \in Objects : o \in Within[b]}

LiveAfter(s) ==
  CASE s.op = "CREATE"  -> live \cup {s.obj} \cup
                             (IF s.obj \in Databases THEN {PublicOf[s.obj]} ELSE {})
    [] s.op = "REPLACE" -> (live \ Inside(s.obj)) \cup {s.obj}
    [] s.op = "DROP"    -> live \ (Inside(s.obj) \cup {s.obj})
    [] s.op = "ALTER"   -> live

DriftAfter(s) ==
  [o \in Objects |->
     IF o \notin LiveAfter(s) THEN {}
     ELSE IF o = s.obj
          THEN IF s.op = "ALTER" THEN drift[o] \ s.aspects ELSE s.aspects
          ELSE drift[o]]

-----------------------------------------------------------------------------
Init ==
  /\ scenario \in Scenarios
  /\ live = scenario.live /\ drift = scenario.drift
  /\ inv = 1 /\ pc = "start" /\ idx = 1
  /\ cache = EmptyMap /\ existing = EmptyMap /\ remaining = {}
  /\ task = EmptyMap /\ intention = {} /\ results = EmptyMap
  /\ executed = {} /\ suggested = {} /\ faults = 0 /\ outside = {}
  /\ history = <<>>

\* get_engine: a new process, with empty caches and a freshly loaded schema cache.
Start ==
  /\ pc = "start" /\ inv <= Len(Invocations)
  /\ pc' = "resolver" /\ idx' = 1
  /\ cache' = LoadedCache
  /\ intention' = {} /\ results' = EmptyMap /\ executed' = {} /\ suggested' = {}
  /\ UNCHANGED <<scenario, account, inv, existing, remaining, task, faults, outside, history>>

Skip ==
  /\ pc = "resolver" /\ idx <= Len(Sequence)
  /\ IsSkipped
  /\ idx' = idx + 1
  /\ UNCHANGED <<scenario, account, inv, pc, cache, existing, remaining, task,
                 intention, results, executed, suggested, faults, outside, history>>

Queued(targets) ==
  [o \in targets |-> [stage |-> "queued", result |-> "NOCHANGE", statements |-> <<>>]]

\* resolve or destroy up to the submission of the drop tasks.
Begin ==
  /\ pc = "resolver" /\ idx <= Len(Sequence)
  /\ ~IsSkipped /\ ~ReadsMissingSchema
  /\ existing' = ExistingObjects
  /\ remaining' = IF Invocation.action = "destroy" THEN {} ELSE Batchable
  /\ task' = Queued(DropTargets(existing'))
  /\ pc' = "drop"
  /\ UNCHANGED <<scenario, account, inv, idx, cache, intention, results, executed,
                 suggested, faults, outside, history>>

\* A worker takes a task: it decides on its statements.
StartTask(o) ==
  /\ o \in DOMAIN task /\ task[o].stage = "queued"
  /\ LET reply == ReplyFor(o)
     IN  task' = [task EXCEPT ![o] = [stage |-> "running", result |-> reply.result,
                                      statements |-> reply.statements]]
  /\ UNCHANGED <<scenario, account, inv, pc, idx, cache, existing, remaining,
                 intention, results, executed, suggested, faults, outside, history>>

HasStatement(o) ==
  o \in DOMAIN task /\ task[o].stage = "running" /\ task[o].statements # <<>>

Advance(o) == task' = [task EXCEPT ![o].statements = Tail(@)]

\* _suggest: the statement's switches are off.
Suggest(o) ==
  /\ HasStatement(o) /\ ~CanRun(Head(task[o].statements))
  /\ suggested' = suggested \cup {Head(task[o].statements)}
  /\ Advance(o)
  /\ UNCHANGED <<scenario, account, inv, pc, idx, cache, existing, remaining,
                 intention, results, executed, faults, outside, history>>

\* _execute
Execute(o) ==
  /\ HasStatement(o)
  /\ LET s == Head(task[o].statements)
     IN  /\ CanRun(s) /\ IsLegal(s)
         /\ live' = LiveAfter(s) /\ drift' = DriftAfter(s)
         /\ executed' = executed \cup {s}
  /\ Advance(o)
  /\ UNCHANGED <<scenario, inv, pc, idx, cache, existing, remaining, intention,
                 results, suggested, faults, outside, history>>

\* _execute raises: the task ends there, with what it did so far in place.
Raise(o) ==
  /\ HasStatement(o)
  /\ LET s == Head(task[o].statements)
     IN  /\ CanRun(s)
         /\ \/ ~IsLegal(s) /\ faults' = faults
            \/ IsLegal(s) /\ faults < scenario.maxFaults /\ faults' = faults + 1
  /\ task' = [task EXCEPT ![o] = [stage |-> "running", result |-> "ERROR",
                                  statements |-> <<>>]]
  /\ UNCHANGED <<scenario, account, inv, pc, idx, cache, existing, remaining,
                 intention, results, executed, suggested, outside, history>>

\* The main thread takes a finished future from as_completed.
Collect(o) ==
  /\ o \in DOMAIN task /\ task[o].stage = "running" /\ task[o].statements = <<>>
  /\ LET result == task[o].result
     IN  /\ results' = [n \in DOMAIN results \cup {o} |->
                          IF n = o THEN result ELSE results[n]]
         /\ intention' = IF result \in {"REPLACE", "DROP"}
                         THEN intention \cup {o} ELSE intention
  /\ task' = [n \in DOMAIN task \ {o} |-> task[n]]
  /\ UNCHANGED <<scenario, account, inv, pc, idx, cache, existing, remaining,
                 executed, suggested, faults, outside, history>>

\* All drops, or all tasks of a batch, are collected: the next batch is
\* submitted.  Blueprints of unmanaged schemas resolve to SKIP.
SubmitBatch ==
  /\ pc \in {"drop", "create"} /\ DOMAIN task = {} /\ remaining # {}
  /\ LET skipped == {o \in NextBatch : IsUnmanaged(o)}
     IN  /\ task' = Queued(NextBatch \ skipped)
         /\ results' = [n \in DOMAIN results \cup skipped |->
                          IF n \in skipped THEN "SKIP" ELSE results[n]]
  /\ remaining' = remaining \ NextBatch
  /\ pc' = "create"
  /\ UNCHANGED <<scenario, account, inv, idx, cache, existing, intention,
                 executed, suggested, faults, outside, history>>

\* _post_process of DatabaseResolver and SchemaResolver: reload the cache if
\* any object changed.
ResolverChanged ==
  \E o \in DOMAIN results : TypeOf[o] = ResolverType /\ results[o] # "NOCHANGE"

\* Mutant: the cache is kept.
FinishWithoutReload ==
  /\ pc \in {"drop", "create"} /\ DOMAIN task = {} /\ remaining = {}
  /\ existing' = EmptyMap
  /\ idx' = idx + 1 /\ pc' = "resolver"
  /\ UNCHANGED <<scenario, account, inv, cache, remaining, task, intention, results,
                 executed, suggested, faults, outside, history>>
Finish ==
  /\ pc \in {"drop", "create"} /\ DOMAIN task = {} /\ remaining = {}
  /\ cache' = IF Resolver \in {"DATABASE", "SCHEMA"} /\ ResolverChanged
              THEN LoadedCache ELSE cache
  /\ existing' = EmptyMap
  /\ idx' = idx + 1 /\ pc' = "resolver"
  /\ UNCHANGED <<scenario, account, inv, remaining, task, intention, results,
                 executed, suggested, faults, outside, history>>

Record(exit) ==
  /\ history' = Append(history, [action |-> Invocation.action, exit |-> exit,
                                 settings |-> Settings, executed |-> executed,
                                 suggested |-> suggested])
  /\ inv' = inv + 1 /\ pc' = "start"

\* Mutant: an exception in a worker is logged and forgotten.
OnlyUnsupported == \E o \in DOMAIN results : results[o] = "UNSUPPORTED"

HasErrors == \E o \in DOMAIN results : results[o] \in {"ERROR", "UNSUPPORTED"}

\* The loop over the resolvers ends: exit code 8 if any object had an error.
Exit ==
  /\ pc = "resolver" /\ idx > Len(Sequence)
  /\ Record(IF HasErrors THEN "errors" ELSE "success")
  /\ UNCHANGED <<scenario, account, idx, cache, existing, remaining, task,
                 intention, results, executed, suggested, faults, outside>>

\* A metadata query of get_existing_objects raises: nothing catches it, the
\* remaining resolvers do not run.
AbortOnMissingSchema ==
  /\ pc = "resolver" /\ idx <= Len(Sequence) /\ ~IsSkipped
  /\ ReadsMissingSchema
  /\ Record("aborted")
  /\ UNCHANGED <<scenario, account, idx, cache, existing, remaining, task,
                 intention, results, executed, suggested, faults, outside>>

AbortOnQueryFailure ==
  /\ pc = "resolver" /\ idx <= Len(Sequence) /\ ~IsSkipped
  /\ ResolverType \notin {"DATABASE", "SCHEMA"}
  /\ faults < scenario.maxFaults /\ faults' = faults + 1
  /\ Record("aborted")
  /\ UNCHANGED <<scenario, account, idx, cache, existing, remaining, task,
                 intention, results, executed, suggested, outside>>

\* The process dies; what is in flight stays as it is in the account.
Crash ==
  /\ pc \in {"resolver", "drop", "create"}
  /\ faults < scenario.maxFaults /\ faults' = faults + 1
  /\ Record("aborted")
  /\ task' = EmptyMap /\ remaining' = {} /\ existing' = EmptyMap
  /\ UNCHANGED <<scenario, account, idx, cache, intention, results, executed, suggested, outside>>

\* Someone else drops an object, or creates one, while an invocation runs.
Disturb ==
  /\ pc \in {"resolver", "drop", "create"}
  /\ inv \notin outside /\ Cardinality(outside) < scenario.maxOutside
  /\ outside' = outside \cup {inv}
  /\ UNCHANGED <<scenario, inv, pc, idx, cache, existing, remaining, task, intention,
                 results, executed, suggested, faults, history>>

OutsideDrop(o) ==
  /\ o \in live
  /\ LET s == Statement("DROP", o, {}, {})
     IN  live' = LiveAfter(s) /\ drift' = DriftAfter(s)
  /\ Disturb

OutsideCreate(o) ==
  /\ LET s == Statement("CREATE", o, {}, {})
     IN  IsLegal(s) /\ live' = LiveAfter(s) /\ drift' = DriftAfter(s)
  /\ Disturb

Finished == pc = "start" /\ inv > Len(Invocations)

\* After the last command line nothing happens any more.
Idle == Finished /\ UNCHANGED vars

Worker == \E o \in Objects : StartTask(o) \/ Suggest(o) \/ Execute(o) \/ Raise(o)
Main   == \/ Start \/ Skip \/ Begin \/ SubmitBatch \/ Finish \/ Exit
          \/ AbortOnMissingSchema \/ \E o \in Objects : Collect(o)
Faults == AbortOnQueryFailure \/ Crash

Outside == \E o \in Objects : OutsideDrop(o) \/ OutsideCreate(o)

Next == Worker \/ Main \/ Faults \/ Outside \/ Idle

Spec == Init /\ [][Next]_vars

\* The pool runs submitted tasks and the main thread waits for nothing else;
\* no failure has to happen, and nobody else has to interfere.
FairSpec == Spec /\ WF_vars(Worker) /\ WF_vars(Main)

-----------------------------------------------------------------------------
(* Properties.                                                             *)

\* The two containers' sandbox flags let an undeclared object stay: its
\* schema's if that is declared, else its database's.
Tolerated(o) ==
  LET decisive == IF Keeper(o) \subseteq config.declared THEN Keeper(o)
                                                         ELSE Within[o] \cap Databases
  IN  decisive # {} /\ decisive \subseteq config.sandbox

\* The account is what the configuration says.
InStep ==
  /\ \A o \in config.declared : IsUnmanaged(o) \/ (o \in live /\ drift[o] = {})
  /\ \A o \in live \ config.declared : Tolerated(o)

Last == Len(history)
IsWhole(i) == Invocations[i].exclude = {} /\ Invocations[i].include = {}

\* Invocation i was an apply that was allowed everything, and it exited 0.
FullySucceeded(i) ==
  /\ history[i].exit = "success" /\ history[i].action = "apply"
  /\ history[i].settings = Switches /\ IsWhole(i)

\* An apply allowed to run everything and exiting 0 leaves the account as
\* declared, whatever an earlier run that failed or died left half done: the
\* drops skipped for an intention happened, the batches were in order, and no
\* error was lost (app/base.py execute, abc_resolver.py resolve).
SuccessMeansInStep ==
  pc = "start" /\ Last > 0 /\ FullySucceeded(Last) /\ Last \notin outside => InStep

\* A plan after such an apply finds nothing to do: the compare of every type
\* agrees with what its create and its alters leave behind.
ConvergedPlanIsEmpty ==
  \A i \in 2..Last :
    FullySucceeded(i - 1) /\ history[i].action = "plan" /\ outside \cap {i - 1, i} = {}
      => history[i].suggested = {}

PlannedThenApplied(i) ==
  /\ history[i].action = "apply" /\ history[i - 1].action = "plan"
  /\ outside \cap {i - 1, i} = {}
  /\ Invocations[i].exclude = Invocations[i - 1].exclude
  /\ Invocations[i].include = Invocations[i - 1].include

\* And the undeclared objects an apply drops itself are exactly those the plan
\* said: none that a parent takes along is announced or dropped on its own.
UndeclaredDrops(statements) ==
  {s.obj : s \in {t \in statements : t.op = "DROP" /\ t.obj \notin config.declared}}

DropsAsPlanned ==
  \A i \in 2..Last :
    PlannedThenApplied(i) /\ FullySucceeded(i) =>
      UndeclaredDrops(history[i].executed) = UndeclaredDrops(history[i - 1].suggested)

\* Adding a key again: the key of a table that was replaced, which no plan
\* announces (the intention cache is asked about parents of drops only).
IsKeyRepair(s) == s.op = "CREATE" /\ TypeOf[s.obj] = "PRIMARY_KEY"

\* What an apply executes, the plan just before it had suggested, although in
\* the plan no parent was dropped and no dependency created: this is what the
\* intention cache is for.  Only keys that are added again are excepted.
AppliedWasPlanned ==
  \A i \in 2..Last :
    PlannedThenApplied(i) =>
      {s \in history[i].executed : ~IsKeyRepair(s)} \subseteq history[i - 1].suggested

\* Without injected failures Snowflake accepts every statement: nothing is
\* dropped twice because its parent went first, nothing is created before
\* what it needs (sequence of resolvers, batches, implicit drops).
StatementsAreAccepted ==
  faults = 0 /\ outside = {} =>
    \A o \in DOMAIN task :
      HasStatement(o) /\ CanRun(Head(task[o].statements)) => IsLegal(Head(task[o].statements))

\* Resolvers of schema objects list exactly the schemas that exist, however
\* the drops, creates and failures before them went (SchemaCache.reload in
\* _post_process).
CacheIsFresh ==
  pc = "resolver" /\ idx <= Len(Sequence) /\ ResolverType \notin {"DATABASE", "SCHEMA"}
    /\ inv \notin outside => DOMAIN cache = live \cap (Databases \cup Schemas)

\* The schema PUBLIC of a database this invocation created, and what is in it.
IsNewPublic(o) ==
  \E s \in executed : /\ s.op = "CREATE" /\ s.obj \in Databases
                      /\ PublicOf[s.obj] \in Within[o] \cup {o}

\* Resolving takes away only what is undeclared and in no sandbox, through
\* cascades too.  Primary keys are excepted, whatever takes them: they go with
\* their table's old version, and come back.
OnlyUnwantedIsLost ==
  [][\A o \in live \ live' :
       \/ Invocation.action = "destroy" \/ outside' # outside
       \/ o \notin config.declared /\ ~Tolerated(o)
       \/ TypeOf[o] = "PRIMARY_KEY" \/ IsNewPublic(o)]_vars

\* Without --apply-unsafe no database, schema or table is lost, neither by a
\* drop nor by the drop or replacement of what contains it.
SafeApplyKeepsData ==
  [][\A o \in live \ live' :
       \/ "execute_unsafe_ddl" \in Settings \/ outside' # outside
       \/ TypeOf[o] \in {"VIEW", "FUNCTION", "PRIMARY_KEY"}
       \/ IsNewPublic(o)]_vars

\* A destroy exiting 0 leaves nothing, sandboxes included, although it names
\* databases and schemas only.
DestroyLeavesNothing ==
  pc = "start" /\ Last > 0 /\ history[Last].action = "destroy"
    /\ history[Last].exit = "success" /\ IsWhole(Last) /\ Last \notin outside
    => live = {}

\* Every invocation comes to an end: no batch waits for a name that is never
\* allocated, no future is forgotten.
EveryRunEnds == <>Finished

=============================================================================
