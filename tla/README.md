# SnowDDL: models, model checking and proofs

SnowDDL reads a directory of YAML files that describe the objects of a Snowflake
account (databases, schemas, tables, views, functions, policies, roles, ...),
compares them with the account and emits the DDL that brings the account in
line. `plan` only suggests the statements, `apply` executes them (destructive
ones only with `--apply-unsafe`, some only with a switch of their own),
`destroy` drops everything. There is no stored state: what is in the account is
the only thing one invocation leaves to the next. Nothing is transactional, up
to 32 worker threads execute statements at the same time, and any of them may
fail.

The modules here model that program's control: which resolver reads what when,
which decision is made from it, which statement follows, what happens when a
statement fails or the process dies, and what two invocations or two worker
threads do to each other. What a statement says is abstracted to what it does.

## Inventory

Paths are under `src/snowddl/`.

| Component | State it keeps | Operations | Interacts with | What makes it correct |
|---|---|---|---|---|
| Application (`app/base.py`) | settings, error count | parse, build engine, run the sequence of resolvers, flush stamps, exit code | everything below, in order | exit 0 means that the account is as declared; a plan says what the apply does |
| Resolver loop (`resolver/abc_resolver.py`, `abc_schema_object_resolver.py`) | blueprints, existing objects, futures, results, errors | `resolve`, `destroy`, drop phase, create-or-compare batches | engine, both caches, guard | nothing declared or sandboxed is dropped; dependencies come first; no error is lost; every run ends |
| Engine (`engine.py`, `settings.py`) | executed and suggested DDL, thread pool | safe and unsafe DDL, metadata queries | Snowflake | a statement whose switches are off is suggested, never executed |
| Intention cache (`cache/intention_cache.py`) | drops and replacements of this run | add, look up by parent | loop, key resolvers | children of dropped parents are neither announced nor dropped again, nor forgotten |
| Schema cache (`cache/schema_cache.py`) | databases, schemas and their parameters | load, reload | loop, database and schema resolvers | nobody lists through a stale cache |
| Revision guard (`revision_guard.py`) | stamps read at the start, records | `load`, `check`, `record`, `flush` | loop, git, a table in the account | a body is only overwritten from a descendant of the commit that wrote it; stamps name the writer |
| Masking policies (`resolver/masking_policy.py`) | none between statements | create, replace, alter, drop, set and unset on columns | the account; other policies' workers | a column that moves between declared policies is never unmasked |
| Object grants (`abc_schema_object_resolver.py:60`) | none | reconcile declared privileges | role resolvers | converges; touches declared privileges only |
| Roles (`resolver/abc_role_resolver.py` and 12 more) | grants of each role | grant, revoke, transfer ownership, future grants | every object type | converges; never revokes what is declared |
| Other policies (`resolver/row_access_policy.py` and 5 more) | none between statements | create, replace, alter, drop, attach and detach | the account; other policies' workers | converge; a worker takes nothing that another one has just put there |
| Tables (`resolver/table.py`) | column and object intentions | alter or replace by a copy, search optimization | keys, intention cache | declared columns keep their rows; a replacement only with its switch |
| Constraints (`primary_key.py`, `unique_key.py`, `foreign_key.py`, `check_constraint.py`) | none | create, replace, drop | tables, through the intention cache | follow their table: neither dropped twice nor forgotten |
| Stage files (`resolver/stage_file.py`) | MD5 markers in the stage | list, upload file, upload marker, remove by prefix | stages, the local directory | what the marker says is what the file is |
| Tasks (`resolver/task.py`) | hash in the comment | replace, add and remove predecessors one by one | each other, by `after` | a graph that turns round converges without a cycle on the way |
| Functions, views and other schema objects (`resolver/*.py`) | hash or text in the account to compare with | create, compare, drop | depends_on, sequence of resolvers | what compare expects is what create leaves; no resolver undoes what an earlier one did |
| Account objects (`warehouse.py`, `user.py`, ...) | none | create, compare, drop, under switches of their own | roles, schema objects | converge |
| Cloning (`clone_table.py`) | none | clone tables of another environment | tables, policies | a copy, never an overwrite |
| Single database mode (`app/singledb.py`) | source and target database | rename blueprints, shorter sequence, turns the guard on | guard | as the application |
| Parsers, placeholders, validators, blueprints | the configuration | read and check YAML | all | a configuration is accepted only if consistent |
| Converters (`converter/`), secrets (`fernet/`), formatter, query builder, context | files; none | export; encrypt; build text | - | - |

Hard behaviours: workers of one batch run in any order; decisions are made from
rows read before other resolvers (or other workers, other clones, other
people) changed the account; a failed statement ends its task and nothing
else; a metadata query that fails ends the run; a dropped or replaced parent
takes its children along; and the stamps are read first and written last.
`PROJECT.json` lists each of these hazards at its line with the properties
that watch it.

## Modules

| Module | Models | Built on | Proofs |
|---|---|---|---|
| `Statements` | the DDL that create, compare and drop of databases, schemas, tables, keys, functions and views emit, with order and gates | | |
| `Resolver` | invocations, resolvers, phases, batches, parallel workers, both caches, faults | `Statements` | `ResolverProofs` |
| `RevisionGuard` | concurrent applies from several clones under the guard | | `RevisionGuardProofs` |
| `MaskingPolicy` | the masking policy resolver, statement by statement | | `MaskingPolicyProofs` |
| `Policies` | the six other kinds of policies | | `PoliciesProofs` |
| `Grants` | role resolvers and object grants on the same privileges | | `GrantsProofs` |
| `SchemaObjects` | the DDL of all other types of schema objects | `Statements` | |
| `AccountObjects` | the DDL of account objects | `SchemaObjects` | |
| `Catalogue` | one pass of the whole sequence of resolvers over objects of 36 types | `AccountObjects` | |
| `TableColumns` | one table: its columns, options and keys, compared, altered, copied | | `TableColumnsProofs` |
| `StageFiles` | uploads, MD5 markers, removals | `Reconciler`, which it implements | `StageFilesProofs` |
| `SequenceLemmas` | what appending, flattening and the rest of a sequence have and keep, and the order in it, for the proofs of tables, policies and grants | | itself |
| `Reconciler` | the abstract promise: things keep their value, get the declared one or go, and "done" means that all are as declared | | |

`MC...` modules hold the instances; a `.cfg` per run gives the constants. Type
invariants are stated where there are proofs that rest on them.

| Run | Question | Answer |
|---|---|---|
| `resolver` | does an apply do what was planned, is every statement accepted, is the plan after it empty; what can be lost, under sandboxes and without `--apply-unsafe`; does a destroy leave anything; with failures, crashes or others' DDL, does exit 0 mean in step, are caches fresh, does every run end? | it does, keys of replaced tables excepted; yes; yes; only undeclared objects outside sandboxes, and no data; nothing if it exits 0; yes, yes, yes |
| `guard` | while invocations do not overlap, whatever raises or dies: does a body ever move backwards; are the stamps right; is a clone that has merged everything ever refused? | never, and yes, but for objects whose last writer raised, altered, only suggested or died; never |
| `masking` | is a column that moves between declared policies ever unmasked, in any order of the workers; is a statement refused; does an apply without an error leave everything in place? | never; never; yes |
| `grants` | after an apply that exits 0, does every role hold exactly what it should; do two applies get there from anywhere; is the plan after it empty; is a declared grant ever taken on the way? | yes; yes; yes; never, but for objects dropped or replaced |
| `policies` | do two applies settle policies and references, does one settle the policies, is there anything left to do then? | yes; yes, and the references too where detaching names the policy; no |
| `policies_moved` | is a user who changes authentication policies on the new one after one apply? | not always: finding 1 |
| `catalogue` | does what `compare_object` of each type expects fit what its `create_object` leaves and what other resolvers do to it; is anything refused; is trying again enough? | yes; no; yes; but for passwords refused for their prior use, which the code passes over |
| `catalogue_rules` | does an integration get back the rules taken from it? | no: finding 2 |
| `stage_files` | does exit 0 mean that the stage has the files of the directory; do markers follow files; does all this implement `Reconciler`? | yes, as long as no content comes back |
| `stage_files_back` | and when one does? | no: finding 3 |
| `table_columns` | from any table to any other: is it as declared after exit 0, and complete after two; do declared columns keep their rows; is anything refused; is something due exactly when something differs? | yes; yes; no; yes |
| `table_columns_precision` | is a NUMBER whose precision changes altered? | not always: finding 4 |

### Statements and Resolver

An object is a database, a schema, or an object in a schema; names are paths, so
`Within[o]` is what the name of `o` says. The account is the set `live` of
objects and, for each, its `drift`: the aspects in which it differs from its
blueprint. `Statements` translates each type's `create_object`, `compare_object`
and `drop_object` to a sequence of statements with their switches, in the order
in which the code emits them.

`Resolver` runs a sequence of command lines against one account. The main thread
takes the steps `Start` (new engine), `Skip`, `Begin` (list, submit drops),
`Collect` (`as_completed`), `SubmitBatch`, `Finish` (`_post_process`), `Exit`,
and `AbortOn...` (exceptions out of `resolve`); a worker takes `StartTask`
(decide), `Suggest`, `Execute`, `Raise`. `Crash` ends the process anywhere;
`OutsideDrop` and `OutsideCreate` are somebody else's statements. The legality
and the effect of a statement are Snowflake's and marked external.

A scenario is a configuration, an account to start with, a sequence of two to
four command lines, a bound on failures and crashes and one on invocations
disturbed by others. `Scenarios` is a parameter, and the instance's are named
for what they are after: `ChainScenarios` (plan, apply, plan), `KeepScenarios`
(plan, safe apply, applies with some types excluded or included, against every
account over nine objects), an apply with up to one failure and a destroy, and
`RetryScenarios` (two applies with two failures, or with one disturbance). There
are two databases, four schemas, three tables, a key, two views that depend on
each other and two functions, one of them over a view: every kind of parent,
every resolver with its own drop rule, and the two dependencies that cross
types. Failures matter in pairs (one in the run, one in its repair), so two are
allowed.

`EveryRunEnds` is checked under `FairSpec`, weak fairness of the workers and of
the main thread: the pool runs what is submitted to it, a statement returns or
raises, and `as_completed` waits for nothing else. No failure, crash or
statement of somebody else's is ever owed.

Proved in `ResolverProofs`, for every configuration, account, sequence of
command lines and number of faults: `SafeApplyKeepsData` and
`OnlyUnwantedIsLost`. The invariant `LossInv` says what the tasks under way can
still do to objects: in a drop phase a task has no statement but the DROP of its
own object, and unless this is a destroy that object is undeclared while the
database and schema which would keep it are declared and no sandbox
(`DropsAreUnwanted`); in a create phase no task has a statement that takes data,
except that of a new database, which drops the schema PUBLIC it was born with
(`OthersKeepData`). A lemma per type shows that `create_object` and
`compare_object` of `Statements` fulfil the second; a lemma on what a DROP and a
REPLACE take along shows that it is enough.

Three more invariants, each on top of the one before it, say what an exit code
of 0 is worth, for the same range of constants, with failures, crashes and
others' statements anywhere:

- `CacheIsFresh`. `CacheInv` is the bookkeeping that the
  other invariants rest on (each object has one resolver, each resolver has
  tasks and results for its own objects only, a task with a statement never
  results in NOCHANGE, nothing exists outside its containers) and
  `CacheOrResult`: whenever the schema cache is behind the account, the running
  resolver is one of the two that reload it, and a result, or a task that will
  yield one, says so.
- `SuccessMeansInStep` and `DestroyLeavesNothing`.
  `SuccessInv` follows an invocation of all types with all switches (or a
  destroy) as long as it has met no error and nobody has interfered
  (`IsPromising`). Then `UnwantedGoes`: whatever should not stay and belongs to
  a resolver whose turn has come is about to be dropped by it;
  `IntentionsAreKept`: no intention is over anything that is there and should
  not be, so none hides a drop that is needed; and `DeclaredComes`: a declared
  object whose turn has come is as declared, or waits with a row that is right,
  or has statements left which complete it. That those of each type do is a
  lemma per type (`CreateCompletes`, `CompareCompletes`); that later resolvers
  do not undo it follows from the order of the sequence (`OthersStay`).
- `ConvergedPlanIsEmpty`. A view is compared by whether
  Snowflake can still describe it, so being as declared is not enough: `ViewsSee`
  says that what a view uses was there when it was created or left alone, and
  that nothing which comes later takes it away. From that, `CheckIsQuiet`: a
  plan after such an apply drops nothing and every compare replies with nothing.

They use two assumptions on the constants beyond the obvious ones. Names are
paths (`ResolverAssumption`): an object which is no database or schema is in a
schema, and in one container of a type. The account can differ from a blueprint
only in what the `compare_object` of the type looks at, and has no object
without its containers (`ScenarioAssumption`); what a compare does not look at
is abstracted away with the aspects, it is in `Catalogue` (`Unseen`).

### RevisionGuard

Several appliers, each a clone at a commit with what it has fetched and its
switches, go through `Load` (stamps), `List` (rows), then per object `Check`,
and `NoChange`, `Write` or `Drop`; and `Flush`. A task may raise before it has
written anything (`Fail`) or after (`FailHalfway`: the COMMENT behind CREATE OR
REPLACE, the second ALTER, the CREATE behind a DROP); it is then an error like
any other, nothing is recorded, and the run goes on to its flush. A body is
represented by the commit that wrote it, its content by `Content`: two commits
may declare the same. `Kinds` says of a type of object whether it is replaced or
altered, behind which switch, and what a task that raises leaves.

`check` rests on the stamp naming the commit that wrote the body. There are four
reasons why it may not although invocations never overlap (`Reasons`), and the
history variable `astray` has, per object, the one that holds: its last writer
raised, altered it, only suggested a REPLACE, or died before the flush. The
passing run shows that there is no other, that an object is over it with its
next write that is recorded, executed and flushed, and that whatever is not
astray never moves backwards, however much else is. The first three are not
what the code's own comments say: see the departures below.

The repository of the instance has a base, two branches and their merge, which
gives ancestors, descendants, unrelated and missing commits. Two appliers are
enough to have a writer and one that comes after it; two objects give one that
is written next to one that is refused, fails or goes astray: a view, replaced
and commented, and a table, altered or, with a switch, replaced. (The kind that
is dropped and created again, a policy, is left to the proofs.) Two overlapping
invocations are explored up to the overlap, after which nothing but types is
claimed (and proved).

Proved in `RevisionGuardProofs`, for every repository, set of objects, kinds of
objects and set of appliers, without further conditions: the type invariant,
`MergedIsNotRefused`, `NeverBackwards` and `StampsNameTheWriter`. There are two
inductive invariants. `CopyInv`: a verdict of `check` stays what it was, and
while nothing has overlapped at most one applier runs and its copy of the stamps
is the current one, so that `check` was about the present. `StampInv`: what is
recorded is written unless it was only suggested, and a stamp of an object that
is not astray is right or about to be set by the running applier.

### MaskingPolicy

One worker per policy. `Read` looks at the references the policy has and decides
the course: remove everything and the policy (drop, or a changed signature), or
only what differs. `Probe` and `SetMask` are the two queries of a SET with or
without FORCE, `Release` the UNSET of a lost reference unless another blueprint
claims the column, `Alter` body and comment. Between any two of them any other
worker may act. `Starts` gives the configurations and accounts: in the instance
every assignment of two columns to three policies, in the account and in the
configuration, with one policy's signature or all bodies changed, policies
missing or superfluous, two failures or crashes in three applies. Each column is
claimed by at most one blueprint (`MaskingAssumption`); the code does not check
this.

Proved in `MaskingPolicyProofs`, for any number of policies, columns, applies
and failures: the type invariant; `MovingStaysMasked` and `ArrivedStaysMasked`,
if no policy that loses a column to another one has to be replaced (`Careful`).
The invariant `HandoverInv` says what each worker still knows for certain when
it acts: the columns it is about to unset still carry its policy and nobody else
claims them; of those it is to release, whichever no longer carry its policy are
claimed by another; and a policy to be replaced is on no column that another one
claims.

`NothingIsRefused` needs no `Careful`: `FitInv` says that the statement a worker
is at fits the account as it is then, not as it was read: the policy is there or
not, no column is left that the worker did not read, the column of a SET without
FORCE carries nothing. Under `Careful` two more results hold.
`SuccessMeansInPlace`: `PlacementInv` says how far each worker of an apply that
has met no error has come, namely that the policy is on all its columns but
those the worker has yet to set, and on no others but those it has yet to
release or another one claims. And the resolver implements `Reconciler`
(`ImplementsReconciler`), a column being a thing and the policy on it its value;
without blueprints the resolver is skipped and promises nothing. This refinement
is proved and no run checks it.

### Policies

The resolvers of aggregation, join, projection, row access, authentication and
network policies are one protocol in six variants, told apart by `kind`. The
worker of a policy reads its references (`Read`, which computes the statements
of create, compare or drop in the order of the code), then executes, suggests or
fails at each of them while the workers of the other policies do the same; a
target carries one policy. The variants differ in whether attaching takes a
target from another policy (FORCE), whether detaching names the policy, whether
columns are compared, in the order of the statements, and in the switches.

The instance has three policies, one kept, one new, one left over, a user (or
table, or column) and the account, every claim against every attachment, wrong
columns, every way of differing, two full applies, alone or after one that
fails, dies or lacks a switch. Three policies are what a chain of handovers
needs; two targets tell a user's policy from the account's.

One apply is enough for the policies themselves; not for their references: what
detaches without naming the policy takes off whatever is there (finding 1). Only
row access policies are named when they are dropped from a table, and for these
one apply is enough.

Proved in `PoliciesProofs`, for all six kinds, any policies and targets, any
order in which references are listed, any series of applies with whatever
switches, any failures and crashes: `OneApplySettles`, `TwoAppliesSettle` and
`SettledPlanIsEmpty`. The condition is `Careful`: where an authentication policy
differs from its blueprint, no apply executes safe DDL only (see the departures
below). A worker plans on what it reads and executes while others change the
account, so none of the three is inductive; `PolicyInv` follows an apply in
which nothing failed so far and that may do everything (`IsClean`):

- `WillBeRight`: a policy whose worker has read exists or a CREATE is ahead of
  it, each difference has its ALTER ahead, each target that it does not claim
  its DETACH. This survives the statements of others because they name other
  policies. That a statement of the policy's own does not spoil it is a matter
  of order (`IsOrdered`): after a DROP comes the CREATE, after what resets the
  hash what sets it, after the DETACH of a claimed target its ATTACH. That the
  plans of `create_object` and `compare_object` are like that is a lemma per kind
  (`PlanIsGood`).
- The references claimed are right, or their ATTACH is ahead, only if nobody
  else takes them off (`IsSteady`): for row access policies always, for the
  others after an apply that succeeded, since by then no policy is where it is
  not claimed (`AfterSuccess`) and all that is left to do is to attach.
- `AfterSettling`: from then on every worker has an empty plan, whatever the
  switches and whatever fails.
- `HashIsHonest` is what `Careful` is for: where the body of an authentication
  policy differs so does its hash, and no worker sets the hash unless the body
  was altered before.

### Grants

Two kinds of resolvers write the same privileges. A role's resolver reads what
the role holds (`ExistingRows`) and compares it with its blueprint
(`CompareRole`: revoke what neither a grant nor a future grant of the blueprint
covers, grant what is missing, then account grants, then future grants, each
followed by `GRANT ... ON ALL`). An object's resolver creates or replaces the
object, reads the grantees it has (`ReadGrants`, only if it existed) and grants
or revokes role by role what the object's parameter `grants` names
(`Reconcile`). The resolvers of schema roles run first, then those of objects,
then technical roles. What a GRANT, REVOKE or CREATE does to the account is
Snowflake's and marked external: future grants apply to what is created, a
replaced function keeps no grant, WRITE needs READ, OWNERSHIP of what is to come
goes to one role.

The instance has a schema with a stage and two functions, the roles which the
default and the database owner permission model create, a technical role, and a
role of somebody else. The accounts are what each of three configurations leaves
behind, with more or less held besides, and each configuration is applied to
each account; so ownership moves up and down the sequence of resolvers, roles go
and come, functions are replaced. The future grants of a database are those on
its schemas. Workers of one resolver are concurrent although what they write is
disjoint. `Compatible` is what configurations have to fulfil: objects and roles
do not contradict each other about a declared role, no object names a role that
is to be dropped, nobody else has a future grant of a named privilege, and READ
and WRITE are named in an order in which they can be granted and revoked
(`NamedInOrder`). `Undisturbed` is what the account has to be like for an apply
without `--refresh-future-grants`: nothing was left half done, by an earlier
apply or anybody, since the statement after GRANT ON FUTURE is not repeated and
neither is the grant of a new role to the role SnowDDL runs as; and no future
grant of WRITE comes without READ, as in all blueprints the code makes. With
the option (`Refreshes`) the first and the last do not matter.

`ScenarioAssumption` is what validation, the parsers and Snowflake guarantee:
blueprints give OWNERSHIP by future grants only, to one role for a type, which is
the only role of its resolver in the schema (there is one owner role of a schema,
and one of a database); only technical roles, the last of the sequence, have
grants on single objects; an object names a privilege once (the keys of a
mapping) and has one owner; grants are of and on what exists; and only functions
are replaced.

`GrantsProofs` first proves `EntitledIsKept` for all schemas, configurations, accounts
and sequences of invocations. What a worker does was decided earlier: by the
rows read when its resolver began, or by the grantees at the time of `SHOW
GRANTS`. `KeepInv` is therefore about the statements that are left:

- `TasksFit`: what a role's worker may still revoke is not in its own blueprint
  (`NotGiven`), and what an object's worker may still revoke is not given by any
  declared role's (`Revocable`, where `Compatible` is used). Both depend on the
  configuration alone, so no other worker can make them false. A replacement
  comes first, while the object is still stale.
- `TransfersFit`: OWNERSHIP is transferred away from whoever has it by then, so
  the worker's role still has to be the one. From the drop phase, where a row
  says what a role owns (`RowsFit`), up to the transfer nobody else gets it,
  since only `GRANT_ALL` of the resolver's one owning role gives it.
- `AccountFits`: an object has one owner, at any time.

`GRANT OWNERSHIP ... ON ALL` takes ownership from all others, but two future
grants of OWNERSHIP for a type are the same one.

On the same invariant rest `SuccessMeansGranted` and `GrantedPlanIsEmpty`. What
an exit with success means is decided by six resolvers in turn, and an object
that is created or replaced after the schema's roles were done changes what
these hold. So the invariant, `GrantedInv`, speaks of every name whose resolver
has submitted its tasks (`Reached`): whatever it lacks, or has too much, is
among the statements left of its own task (`RoleOwes`, `ObjectOwes`). It takes
an apply that may do everything, in which nothing failed so far (`Clean`); then
nothing is only suggested, and at the end nothing is left, hence nothing lacking
(`AllIsGranted`). The parts it needs:

- `RowsAreCurrent`: what a resolver read is still so when its tasks are decided
  on; drop tasks of other names are all that runs in between.
- `TasksAreWanted`: statements are about the worker's own name, and each is one
  its blueprint or its entries ask for. So no worker takes what another one gave
  (`RoleKeepsOwing`, `ObjectKeepsOwing`): a role is out of step again only where
  an object comes new, and then its future grants, which are in place as schema
  roles come before objects, give it what it should have. Technical roles come
  last, after the objects on which they have grants.
- `Covered` and `Ours`: in an undisturbed account, a future grant is on all there
  is, or its `GRANT ... ON ALL` is the very next statement of its worker
  (`Paired`), and is not refused, as READ comes before WRITE
  (`ReadComesFirst`, `FuturesAreComing`); the same for a new role and its grant.
- `DropsAreComing`: what is not declared is gone when the drop phase is over.
- `PlanInv`: after a success, a plan has no statements but `SHOW GRANTS`.

### SchemaObjects, AccountObjects and Catalogue

`SchemaObjects` and `AccountObjects` continue `Statements` for the types that
`Resolver` does not have: one operator per `create_object`, `compare_object` or
`drop_object`, which yields the result and the statements with their switches.
Aspects are what a `compare_object` tells apart; of a type whose comment holds a
hash, the hash is all it looks at, and writing the hash is a statement of its
own, so that a failure between the two matters.

`Catalogue` runs `default_resolve_sequence` over them. `Start`, `Skip`, `Begin`,
`StartTask`, `Suggest`, `Execute`, `Raise`, `Collect`, `SubmitBatch`, `Finish`,
`Exit` and `Crash` are those of `Resolver` with one worker: parallelism is the
subject of `Resolver`, `Policies` and `MaskingPolicy`, here it is the 36 types
and what they do to each other. `PassOver` is `UserResolver._compare_password`
where Snowflake refuses a password that the user has had before (`priorUse`): no
error, and the task goes on to the user's other properties. Databases and schemas are there and stay. What
objects refer to (`Uses`, `Within`, `DependsOn`, `SameName`) decides what
Snowflake accepts; `IsLegal` and `Effect` are external.

The instance has an object of each type, two of those that interact with one
another, with a graph of references that crosses most of the sequence.
Scenarios: one object differs in one, two or all of its aspects; is missing with
all that needs it; is left over with all that needs it; and those which need
several at once (everything is new, almost everything goes, a task graph turns
round, a table takes the name of a view). Each is followed by what repairs it,
with a failure or crash at any statement, or after an apply without one of its
switches. One failure is enough here: each type's tasks are a handful of
statements without a state of their own, and failures in pairs are covered by
the other modules.

Exempted by name: `PassedOver` (the password of such a user: it stays as it is,
the apply exits 0, and every plan suggests it again; nothing else of the user is
exempted), `Forgotten` (the last objects of a type whose resolver is
skipped without blueprints stay, `skip_on_empty_blueprints`), `Unseen` (what a
compare does not look at), `Conflicts` (a name that goes from one type to
another needs a second apply), `IsSupported` (a sequence whose ordering changes
is refused by design).

### TableColumns

`TableResolver` on one table: columns, in order, with type, NOT NULL, default,
expression, collation and comment, the options of the table and search
optimization; then the three resolvers of keys on what is left. The task of the
table is one sequence of statements, `Intend` what it tells the others through
the intention cache, whether the statement is executed or suggested: which of
its columns go, or, if it is replaced, that all of them do, so that the
resolvers of keys leave its undeclared keys alone. A
replacement copies what columns of both names hold. What a column holds is the
value `data`, so that losing and recreating a column of the same name is seen.

The instance turns one of 43 tables, or none, into any other: three columns that
come, go and change places, each attribute, each option, each kind of key, with
any of the two switches or only planned, a failure or crash at any statement,
then two full applies. Not there: whether rows fit what is declared, a failure
stands for that; the order of a key's columns; a second foreign key.

Proved in `TableColumnsProofs`, for every blueprint, table, sequence of
invocations, failure and crash: `DeclaredColumnsKeepRows`,
`NothingDueMeansInStep`, `SuccessMeansAsDeclared`, `TwoAppliesComplete` and
`StatementsAreAccepted`. The assumptions are those of `TableAssumption`. Tables
and blueprints have finitely many keys and items, and the names of their columns
and of their keys differ (a configuration has them in a dictionary). Of a
blueprint (`IsDeclaration`): it has a column, its keys are of columns that it
declares, and search is declared on what it can be optimized on. Neither the
parser nor a validator looks at the last two; Snowflake refuses a table that is
declared otherwise, with any history.

The first one is about rows. Statements are
asked for when the table is looked at and executed later, on what the ones
before, executed, suggested, failed or left out, have made of it. So the
invariant `RowsInv` says two things. Of the table: its columns keep names of
their own (`AreSound`), or a statement would hit the wrong one. Of all that is
due (`DueIsCareful`): a copy or the drop of a column is behind
`--apply-unsafe`, what is dropped is not declared, and no MODIFY names a column
anew or writes to its rows; a CREATE is due only while there is no table, and
first. `StatementKeepsRows` shows that such a statement keeps the rows of what is
declared whatever the table has become, and the lemmas above it that each part
of a comparison, for arbitrary columns, asks for no other.

The second one is about the comparison. `TableIsCompared` says that it is empty
if and only if the table is as declared: the statements about columns, the
columns to add, the reasons to replace the table, the order, the options and
search each say their part of it, and that no column is left over is a count,
columns with names of their own among as many declared ones
(`ColumnsAreDeclared`). `KeysAreCompared` says the same of a resolver of keys, as
long as no column is said to go. Since the table is compared first and its keys
one kind after the other, the invariant `QuietInv` is about an invocation in
which nothing was due so far: what earlier resolvers looked at is as declared,
what the one at work looks at is so if and only if none of its tasks has
anything left to do, and no intention was stated, because every alteration
begins with a statement.

The other three are about an apply with all switches in which nothing has failed
(`Underway`), from one invariant (`SuccessInv`). The table changes between the
comparison and the statements that follow from it, so it says of any rest of the
comparison, for the table that this rest finds, that it does what is left to do
(`Altering`): each attribute, option and item that differs, and each column that
is missing or left over, is named by a statement of the rest; no statement does
anything else; columns are added before others go, in their declared order,
behind those that are there (`PlacesFit`, `AddsFit`); no column goes twice; and
that a column goes is told the resolvers of keys when it is gone, with its keys
(`KeysAside`). `AlterationGoesOn` shows that the next statement of such a rest is
accepted and leaves a table which the rest after it fits, `AlterFits` that the
whole comparison is one whenever there is no reason to replace the table: this
is where the code's order of the statements is needed, and that remaining columns
are how the declared ones begin. A copy begins anew (`Rebuilding`), and has no
keys when it is told that all columns go (`Finishing`); the keys made since are
none that a later resolver looks at (`Unlisted`). For keys it
is the tasks of a resolver together (`TasksFit`): each fits the keys that are
there, different tasks are of different keys, so one does not disturb another
(`TasksGoOn`), and what differs is asked for; intentions leave none out, since
what went with a column is no longer listed (`KeyTasksFit`). An alteration with
nothing left is as declared (`NothingIsLeft`); that its columns are in their
places, and no other is there, is an increasing map from one interval into
another that hits everything (`IncreasesOnto`). For the second apply the
invariant also keeps that expressions are as declared and no column is to be
added (`Again`): the first one has left none to add, and one whose expression
differs is a reason to replace the table.

What is due is built with `FlattenSeq`, which is recursive. The library's
induction theorems cannot be used (see below), but the same is had from a set
(`SequenceLemmas`): `SetInduction` says that a set of naturals with 0 and the successor of each of
its elements is `Nat`, and `FlattenIsSeq` follows with the set of the lengths for
which it holds.

### StageFiles and Reconciler

Snowflake cannot tell what is in an encrypted file, so the resolver uploads an
empty marker named after the MD5 next to each file. `Begin` lists files and
markers (the last marker of a file counts), tasks are `put file` then `put
marker`, or `remove`, which takes a prefix: the markers of the file go with it,
and so does every file whose path begins with the same text (`Extends`). Before
it, `StageResolver` may have replaced the stage, or only suggested to.

`Reconciler` knows nothing of markers, listings, workers or faults: while it
works, a thing keeps its value, gets the declared one or goes; it may stop
anywhere; and it says "done" only when everything is as declared. `KeepsPromise`
is the refinement: `actual` is what the files contain, `goal` the directory,
`result` whether the last invocation exited 0.

The instance has three paths, one of which begins with another, three contents
(so that one comes before and one after another in the order of LIST), every
directory before, in and after a broken apply, two faults, and a stage that is
kept, replaced or to be replaced; then a plan.

Proved in `StageFilesProofs`, for any number of files, contents, invocations and
faults: the type invariant, `SuccessMeansUploaded`, `MarkersFollowFiles` and
`KeepsPromise`, from `NeverBack` (no file gets back a content it had before
another one, finding 3) and `PrefixSafe` (no file whose path begins with that of
another is declared where the other one goes). The invariant `StageInv` relates
files and markers to the history of the directory: what is in the stage has been
declared for its path (`ContentsAreKnown`); a marker that is not of what is
there is of a content that will never be declared again
(`OldMarkersAreHarmless`); a listing that lets a file be skipped is still right
when it is skipped (`ListingIsRight`); and as long as nothing failed, what is
not as declared has a task to do (`NothingIsForgotten`). With the same two
conditions, the plan after a successful apply is empty (`UploadedPlanIsEmpty`,
for contents whose MD5 is listed after those declared before): `PlanInv` adds
that markers are of contents declared for their path at some time, that each
declared file keeps the marker it was listed with or uploaded with, and that a
plan which finds these markers has no tasks.

## Findings

1. `policies_moved`: a user (or table, or column, or the account) that changes
   policies is on neither after an apply that exits 0, if the worker of the old
   one comes second: UNSET names no policy. The test of this has its check
   commented out and blames Snowflake.
2. `catalogue_rules`: replacing a network rule takes all rules from the external
   access integrations that refer to it; their compare looks at a hash only and
   never sets them again.
3. `stage_files_back`: the marker of an earlier content vouches for the file
   that replaced it, when the earlier content comes back.
4. `table_columns_precision`: the old precision of a NUMBER is compared with the
   new scale; a table is then replaced where one ALTER would do.

Departures which the properties of passing runs exclude by a named condition:

- `RevisionGuard`: two overlapping applies check against stamps from before
  either, and the second reverts the first (`overlap`). Nor is the stamp of an
  object the right one, and the object may move backwards until it is next written
  and stamped, when (`astray`)
  - its last writer raised after the body was written: a view, function or
    procedure is replaced in one statement and commented in another
    (`view.py:91-101`, `function.py:72-80`), and a task that raises is not recorded
    (`abc_resolver.py:268-277`), though `app/base.py:747` speaks of every object
    this apply wrote. Of a view nothing tells so later;
  - its last writer altered it: the columns of a table are its body, and ALTER is
    not recorded, though `revision_guard.py:69-71` says that only CREATE and
    REPLACE write bodies;
  - its last writer only suggested a REPLACE: without its switch nothing is
    executed (`engine.py:72-76`), but the result is recorded all the same
    (`revision_guard.py:274`), which makes the old body look current and has
    clones refused that descend from what is there;
  - its last writer died before the flush.
- `MaskingPolicy`: a policy whose signature changes unsets its columns without
  asking who claims them; one that moves to another policy meanwhile may be
  unmasked, for a while or at the end of an apply that exits 0 (`Careful`). And a
  column that leaves a policy which is no longer declared may be unmasked until
  its new policy's worker sets it: `MovingStaysMasked` is about declared ones.
- `Grants`: a future grant and its application to existing objects are two
  statements; if only the first one is executed, no later apply executes the
  second without `--refresh-future-grants`. A new object is not compared with
  the grantees that others' future grants give it (`Compatible`). READ and WRITE
  are reconciled in the order of the file, so that a role which SnowDDL does not
  manage can never lose both (READ first) or gain both (WRITE first;
  `NamedInOrder`).
- `Resolver`: a declared key of a table that has to be replaced compares as
  unchanged in the plan, and the apply adds it again (`IsKeyRepair`).
- `Catalogue`: an apply exits 0 although a password that it sets was refused for
  its prior use, and the next plan suggests it again (user.py:252 says "Not an
  error, skip such user"; `PassedOver`).
- `Policies`: an authentication policy's hash is written although the ALTER
  before it was only suggested; the next compare finds nothing (`IsCareful`).
- `StageFiles`: `NeverBack` and `PrefixSafe`, above.
- `TableColumns`: a virtual column that is added is a plain one until the next
  apply (`SuccessMeansAsDeclared` excepts it, `TwoAppliesComplete` does not).

## What is proved and what is not

Proved are the theorems above; none assumes more of a constant than the named
assumptions of its module, which TLC evaluates in the runs, and the conditions
given with it (`Careful` of the policies, `NeverBack`, `PrefixSafe`), which are part
of its statement. All rest on inductive invariants that TLC checked on the instances
before they were proved.

The theorems of induction that come with the prover take the formula as an
operator, which it cannot instantiate. Where something has to hold of all
lengths of a sequence, `SequenceLemmas` inducts over a set instead.

Only model-checked:

- `EveryRunEnds`: liveness under fairness, which the prover does not do.
- `AppliedWasPlanned` and `DropsAsPlanned` of `Resolver`. They compare an apply
  with the plan before it, statement by statement: an invariant would have to
  say what the plan's account, cache and intentions were at each of its steps,
  that is, run the two invocations side by side.
- `StatementsAreAccepted` of `Resolver`. `Uses` and `DependsOn` are arbitrary
  there, and it is false for some: a view that uses what no configuration
  declares is refused. What would have to be assumed is that what anything uses
  is declared and comes earlier, in the sequence or in the order of the batches.
- Everything in `Catalogue`: its objects have fixed kinds and references, so a
  proof for all constants would first need what Snowflake accepts of arbitrary
  objects.
- `TwoAppliesAreEnough` of `Grants`. It says that nothing is refused the second
  time, which for arbitrary constants is false: an object may name a role that
  exists nowhere and that no configuration declares. What would have to be
  assumed is that everybody who is named exists.

## What is not modelled

- Text of statements and its formatting, parsing of YAML beyond which blueprints
  come out, validation (assumptions on configurations stand for it), the wire,
  warehouses, query results beyond what a decision is made from.
- Table cloning: a one-way copy between environments that compares nothing.
- Single database mode: the same loop over fewer resolvers under other names.
- The export (`convert`), the encryption of secrets, the context of the session:
  no state is kept between two steps.
- How permission models and patterns become grants of roles, and the hierarchy
  of roles: `Grants` takes the result as its parameter.
- Database and schema parameters in `Catalogue`, and the event table of a
  database that is only planned; more than one worker in `Catalogue` and
  `TableColumns`; grants of shares (one aspect); search optimization that is
  declared for a whole table where items exist already, which the code never
  completes (`table.py:609`); a virtual column added in one apply, when the next
  one replaces the table.
- What Snowflake does is external throughout: which statements it accepts, what
  they take along, what LIST and SHOW return. Every such operator says so in the
  map.

## Running

`tlc -config MCResolver.cfg MCResolver` and so on for each configuration; `tlapm
ResolverProofs.tla`, and so on for `RevisionGuardProofs`, `MaskingPolicyProofs`, `PoliciesProofs`,
`GrantsProofs`, `StageFilesProofs`, `TableColumnsProofs` and `SequenceLemmas`. The longest run
takes about two minutes on two cores, the longest proofs (`TableColumnsProofs`, `GrantsProofs`)
about five each.
