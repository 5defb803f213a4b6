------------------------------- MODULE Grants -------------------------------
(***************************************************************************)
(* Who may do what.  The privileges of a schema's objects are written by   *)
(* two kinds of resolvers which do not know of each other: the resolvers   *)
(* of roles compare what a role holds with its blueprint (grants, account  *)
(* grants, future grants), and the resolvers of schema objects compare the *)
(* grantees of the privileges an object names with its own list.  Between  *)
(* them Snowflake applies future grants to whatever is created.            *)
(*                                                                         *)
(* A privilege is held on an object, or on the account; OWNERSHIP which no *)
(* role of this model holds is with the role SnowDDL runs as.  PIPE,       *)
(* NOTEBOOK and SHARE, whose grants are restricted, are left out, and so   *)
(* are comments.                                                           *)
(***************************************************************************)
EXTENDS Integers, Sequences, FiniteSets, SequencesExt

CONSTANTS
  Roles,         \* roles that may exist
  RoleResolver,  \* the resolver each one belongs to, None if it is not SnowDDL's
  Objects,       \* objects that may exist in the schema
  TypeOf,        \* their types, STAGE or FUNCTION
  Privileges,    \* among them OWNERSHIP, READ and WRITE
  Account,       \* what account grants are on
  None,
  Scenarios      \* what is considered, see ScenarioRecords

ObjectTypes == {"STAGE", "FUNCTION"}

\* default_resolve_sequence, as far as it is about the roles and the types here.
Sequence == <<"SCHEMA_READ_ROLE", "DATABASE_OWNER_ROLE", "SCHEMA_OWNER_ROLE",
              "STAGE", "FUNCTION", "TECHNICAL_ROLE">>

ASSUME GrantsAssumption ==
  /\ IsFiniteSet(Roles) /\ IsFiniteSet(Objects) /\ IsFiniteSet(Privileges)
  /\ RoleResolver \in [Roles -> {"SCHEMA_READ_ROLE", "DATABASE_OWNER_ROLE",
                                 "SCHEMA_OWNER_ROLE", "TECHNICAL_ROLE", None}]
  /\ TypeOf \in [Objects -> ObjectTypes]
  /\ {"OWNERSHIP", "READ", "WRITE"} \subseteq Privileges
  /\ Account \notin Objects /\ Roles \cap Objects = {}
  /\ None \notin Roles \cup Range(Sequence)

\* Held privileges, and future grants in the schema: "on" is then a type.
Held    == [role : Roles, privilege : Privileges, on : Objects \cup {Account}]
Futures == [role : Roles, privilege : Privileges, on : ObjectTypes]

Grant(r, p, x) == [role |-> r, privilege |-> p, on |-> x]

Managed == {r \in Roles : RoleResolver[r] # None}

\* A configuration: the roles it declares, what their blueprints say, the
\* objects it declares, which functions have another body than the account,
\* and the parameter "grants" of an object, in the order of the YAML file.
ConfigRecords ==
  [roles : SUBSET Managed, grants : SUBSET Held, futures : SUBSET Futures,
   objects : SUBSET Objects,
   named : [Objects -> Seq([privilege : Privileges \ {"OWNERSHIP"}, roles : SUBSET Roles])]]

\* The account: roles, those of them granted to the role SnowDDL runs as, what
\* is held, objects, and those which differ from their blueprints.
AccountRecords ==
  [roles : SUBSET Roles, ours : SUBSET Roles, held : SUBSET Held,
   futures : SUBSET Futures, objects : SUBSET Objects, stale : SUBSET Objects]

Commands == [action : {"plan", "apply"},
             options : SUBSET {"apply_unsafe", "refresh_future_grants"}]

ScenarioRecords == [config : ConfigRecords, account : AccountRecords,
                    commands : Seq(Commands), maxFaults : Nat]

OwnedOnce(grants) ==
  \A g, h \in grants : g.privilege = "OWNERSHIP" /\ h.privilege = "OWNERSHIP" /\ g.on = h.on => g = h

\* OWNERSHIP is not to be had from technical roles (validated), which are the only
\* ones with grants on single objects, blueprints speak of declared objects, and an
\* object is owned once, by a role which is the only one of its kind in the schema,
\* and names a privilege once.  In the account, grants are of and on what exists.
ASSUME ScenarioAssumption ==
  \A s \in Scenarios :
    /\ s \in ScenarioRecords
    /\ \A g \in s.config.grants : /\ g.privilege # "OWNERSHIP"
                                  /\ g.on \in s.config.objects \cup {Account}
                                  /\ g.on # Account => RoleResolver[g.role] = "TECHNICAL_ROLE"
    /\ \A g \in s.config.grants \cup s.config.futures : g.role \in s.config.roles
    /\ OwnedOnce(s.config.futures)
    /\ \A f \in s.config.futures : \A r \in Roles :
         f.privilege = "OWNERSHIP" /\ RoleResolver[r] = RoleResolver[f.role] => r = f.role
    /\ \A o \in Objects : \A i, j \in DOMAIN s.config.named[o] :
         s.config.named[o][i].privilege = s.config.named[o][j].privilege => i = j
    /\ OwnedOnce(s.account.held) /\ OwnedOnce(s.account.futures)
    /\ \A h \in s.account.held : h.on \in s.account.objects \cup {Account}
    /\ \A g \in s.account.held \cup s.account.futures : g.role \in s.account.roles
    /\ \A o \in s.account.stale : o \in s.account.objects /\ TypeOf[o] = "FUNCTION"

VARIABLES
  scenario,   \* the scenario
  account,    \* the account
  inv,        \* the current invocation
  pc,         \* where its main thread is
  idx,        \* the resolver of the sequence that is running
  rows,       \* existing_objects of the resolver, for roles with what they hold
  task,       \* what is left of each worker's statements
  errors,     \* names that resolved to ERROR
  suggested,  \* suggested_ddl
  faults,     \* failures injected so far
  history     \* what the finished invocations did

vars == <<scenario, account, inv, pc, idx, rows, task, errors, suggested, faults, history>>

config     == scenario.config
Invocation == scenario.commands[inv]
Resolver   == Sequence[idx]
EmptyMap   == [n \in {} |-> {}]

HasOption(option) == option \in Invocation.options

-----------------------------------------------------------------------------
(* Statements, and what Snowflake makes of them.                           *)

Statement(op, g) == [op |-> op, role |-> g.role, privilege |-> g.privilege, on |-> g.on]
RoleStatement(op, r)   == Statement(op, Grant(r, None, None))
ObjectStatement(op, o) == Statement(op, Grant(None, None, o))

\* execute_unsafe_ddl; all others are safe.
IsUnsafe(s) ==
  \/ s.op \in {"DROP_ROLE", "REVOKE_UNSAFE"}
  \/ s.op = "DROP" /\ TypeOf[s.on] = "STAGE"

CanRun(s) == /\ Invocation.action = "apply"
             /\ IsUnsafe(s) => HasOption("apply_unsafe")

Existing(type) == {o \in account.objects : TypeOf[o] = type}

\* WRITE needs READ, a role that is granted something has to exist, and
\* OWNERSHIP of what is to come goes to one role.
IsLegal(s) ==
  CASE s.op = "CREATE_ROLE" -> s.role \notin account.roles
    [] s.op = "CREATE"      -> s.on \notin account.objects
    [] s.op \in {"REPLACE", "DROP", "TRANSFER"} -> s.on \in account.objects
    [] s.op = "GRANT"       ->
         /\ s.role \in account.roles /\ s.on \in account.objects \cup {Account}
         /\ s.privilege = "WRITE" => Grant(s.role, "READ", s.on) \in account.held
    [] s.op \in {"REVOKE", "REVOKE_UNSAFE"} ->
         /\ s.role \in account.roles /\ s.on \in account.objects \cup {Account}
         /\ s.privilege = "READ" => Grant(s.role, "WRITE", s.on) \notin account.held
    [] s.op = "GRANT_FUTURE" ->
         /\ s.role \in account.roles
         /\ s.privilege = "OWNERSHIP" =>
              \A r \in Roles \ {s.role} : Grant(r, "OWNERSHIP", s.on) \notin account.futures
    [] s.op = "GRANT_ALL" ->
         /\ s.role \in account.roles
         /\ s.privilege = "WRITE" =>
              \A o \in Existing(s.on) : Grant(s.role, "READ", o) \in account.held
    [] OTHER -> s.role \in account.roles

\* What future grants make of a new object.
FutureGrantsOn(o) ==
  {Grant(f.role, f.privilege, o) : f \in {g \in account.futures : g.on = TypeOf[o]}}

On(objects) == {h \in account.held : h.on \in objects}
OwnedIn(objects) == {h \in On(objects) : h.privilege = "OWNERSHIP"}
OfRole(grants, r) == {g \in grants : g.role = r}

AccountAfter(s) ==
  CASE s.op = "CREATE_ROLE" -> [account EXCEPT !.roles = @ \cup {s.role}]
    [] s.op = "GRANT_ROLE"  -> [account EXCEPT !.ours = @ \cup {s.role}]
    [] s.op = "DROP_ROLE"   ->
         [account EXCEPT !.roles = @ \ {s.role}, !.ours = @ \ {s.role},
                         !.held = @ \ OfRole(@, s.role), !.futures = @ \ OfRole(@, s.role)]
    [] s.op = "CREATE"      ->
         [account EXCEPT !.objects = @ \cup {s.on}, !.held = @ \cup FutureGrantsOn(s.on)]
    [] s.op = "REPLACE"     ->
         [account EXCEPT !.stale = @ \ {s.on},
                         !.held = (@ \ On({s.on})) \cup FutureGrantsOn(s.on)]
    [] s.op = "DROP"        ->
         [account EXCEPT !.objects = @ \ {s.on}, !.stale = @ \ {s.on},
                         !.held = @ \ On({s.on})]
    [] s.op = "GRANT"       ->
         [account EXCEPT !.held = @ \cup {Grant(s.role, s.privilege, s.on)}]
    [] s.op \in {"REVOKE", "REVOKE_UNSAFE"} ->
         [account EXCEPT !.held = @ \ {Grant(s.role, s.privilege, s.on)}]
    [] s.op = "TRANSFER"    -> [account EXCEPT !.held = @ \ OwnedIn({s.on})]
    [] s.op = "GRANT_FUTURE" ->
         [account EXCEPT !.futures = @ \cup {Grant(s.role, s.privilege, s.on)}]
    [] s.op = "REVOKE_FUTURE" ->
         [account EXCEPT !.futures = @ \ {Grant(s.role, s.privilege, s.on)}]
    [] s.op = "GRANT_ALL"   ->
         [account EXCEPT
            !.held = (@ \ (IF s.privilege = "OWNERSHIP" THEN OwnedIn(Existing(s.on)) ELSE {}))
                       \cup {Grant(s.role, s.privilege, o) : o \in Existing(s.on)}]

-----------------------------------------------------------------------------
(* The resolvers of roles.                                                 *)

\* A set of grants in some order.
InTurn(grants) == SetToSeq(grants)

Written(grants) == {g \in grants : g.privilege = "WRITE"}

\* Blueprints list READ before WRITE.
ReadFirst(grants) == InTurn(grants \ Written(grants)) \o InTurn(Written(grants))

\* sort_existing_grants: WRITE is revoked before READ.
WriteFirst(grants) == InTurn(Written(grants)) \o InTurn(grants \ Written(grants))

\* The statements about each grant of a sequence.
Each(Statements(_), grants) == FlattenSeq([i \in DOMAIN grants |-> Statements(grants[i])])

OnAccount(grants) == {g \in grants : g.on = Account}
OnObjects(grants) == grants \ OnAccount(grants)

CreateGrant(g) == <<Statement("GRANT", g)>>

\* OWNERSHIP can only be transferred.
DropGrant(g) == IF g.privilege = "OWNERSHIP" THEN <<Statement("TRANSFER", g)>>
                                             ELSE <<Statement("REVOKE", g)>>

CreateFutureGrant(g) == <<Statement("GRANT_FUTURE", g), Statement("GRANT_ALL", g)>>
DropFutureGrant(g)   == <<Statement("REVOKE_FUTURE", g)>>
ApplyFutureGrant(g)  == <<Statement("GRANT_ALL", g)>>

RoleGrants(r)  == OfRole(config.grants, r)
RoleFutures(r) == OfRole(config.futures, r)

\* create_object of AbstractRoleResolver
CreateRole(r) ==
  <<RoleStatement("CREATE_ROLE", r), RoleStatement("GRANT_ROLE", r)>>
    \o Each(CreateGrant, ReadFirst(OnObjects(RoleGrants(r))))
    \o Each(CreateGrant, ReadFirst(OnAccount(RoleGrants(r))))
    \o Each(CreateFutureGrant, ReadFirst(RoleFutures(r)))

\* Mutant: what a future grant gave is not the blueprint's.
KeptByNothing(r, g) == FALSE

\* FutureGrant.is_matching_grant, for some future grant of the blueprint.
KeptByFuture(r, g) ==
  g.on # Account /\ Grant(r, g.privilege, TypeOf[g.on]) \in RoleFutures(r)

\* compare_object of AbstractRoleResolver
CompareRole(r, row) ==
  LET revoked == {g \in OnObjects(row.held) \ RoleGrants(r) : ~KeptByFuture(r, g)}
  IN  Each(DropGrant, WriteFirst(revoked))
    \o Each(CreateGrant, ReadFirst(OnObjects(RoleGrants(r)) \ row.held))
    \o Each(DropGrant, WriteFirst(OnAccount(row.held) \ RoleGrants(r)))
    \o Each(CreateGrant, ReadFirst(OnAccount(RoleGrants(r)) \ row.held))
    \o Each(DropFutureGrant, WriteFirst(row.futures \ RoleFutures(r)))
    \o Each(LAMBDA f : IF f \notin row.futures THEN CreateFutureGrant(f)
                       ELSE IF HasOption("refresh_future_grants") THEN ApplyFutureGrant(f)
                       ELSE <<>>,
            ReadFirst(RoleFutures(r)))

-----------------------------------------------------------------------------
(* The resolvers of schema objects.                                        *)

\* Statements on each of some roles.
ForRoles(op, o, p, roles) ==
  Each(LAMBDA r : <<Statement(op, Grant(r, p, o))>>, InTurn(roles))

\* Mutant: granted whether or not the role has it.
GrantAnyway(o, grantees) ==
  Each(LAMBDA entry :
         ForRoles("GRANT", o, entry.privilege, entry.roles)
           \o ForRoles("REVOKE_UNSAFE", o, entry.privilege,
                       grantees[entry.privilege] \ entry.roles),
       config.named[o])

\* _reconcile_object_grants: of each named privilege, in the order of the
\* file, the missing roles, then the extra ones, revoked by unsafe DDL.
Reconcile(o, grantees) ==
  Each(LAMBDA entry :
         ForRoles("GRANT", o, entry.privilege, entry.roles \ grantees[entry.privilege])
           \o ForRoles("REVOKE_UNSAFE", o, entry.privilege,
                       grantees[entry.privilege] \ entry.roles),
       config.named[o])

NoGrantees == [p \in Privileges |-> {}]

\* SHOW GRANTS ON
LiveGrantees(o) == [p \in Privileges |-> {r \in Roles : Grant(r, p, o) \in account.held}]

\* _create_object_entry_point: nothing is read, the object is new.
CreateObject(o) == <<ObjectStatement("CREATE", o)>> \o Reconcile(o, NoGrantees)

\* Mutant: the grantees are read before the object is replaced.
ReadThenReplace(o) ==
  Reconcile(o, LiveGrantees(o))
    \o IF o \in account.stale THEN <<ObjectStatement("REPLACE", o)>> ELSE <<>>

\* _compare_object_entry_point: the grantees are read after a replacement,
\* which keeps none of them, has been executed.
CompareObject(o) ==
  (IF o \in account.stale THEN <<ObjectStatement("REPLACE", o)>> ELSE <<>>)
    \o IF config.named[o] = <<>> THEN <<>> ELSE <<ObjectStatement("SHOW_GRANTS", o)>>

-----------------------------------------------------------------------------
Init ==
  /\ scenario \in Scenarios
  /\ account = scenario.account
  /\ inv = 1 /\ pc = "start" /\ idx = 1 /\ rows = EmptyMap /\ task = EmptyMap
  /\ errors = {} /\ suggested = {} /\ faults = 0 /\ history = <<>>

Start ==
  /\ pc = "start" /\ inv <= Len(scenario.commands)
  /\ pc' = "resolver" /\ idx' = 1 /\ errors' = {} /\ suggested' = {}
  /\ UNCHANGED <<scenario, account, inv, rows, task, faults, history>>

Resolved == {r \in Roles : RoleResolver[r] = Resolver}
              \cup {o \in Objects : TypeOf[o] = Resolver}

\* get_existing_objects, and for roles get_existing_role_grants.
ExistingRows ==
  [n \in Resolved \cap (account.roles \cup account.objects) |->
     [held |-> OfRole(account.held, n), futures |-> OfRole(account.futures, n)]]

Declared == config.roles \cup config.objects

DropName(n) ==
  IF n \in Roles THEN <<RoleStatement("DROP_ROLE", n)>> ELSE <<ObjectStatement("DROP", n)>>

\* resolve up to the drop phase.
Begin ==
  /\ pc = "resolver" /\ idx <= Len(Sequence)
  /\ rows' = ExistingRows
  /\ task' = [n \in DOMAIN rows' \ Declared |-> DropName(n)]
  /\ pc' = "drop"
  /\ UNCHANGED <<scenario, account, inv, idx, errors, suggested, faults, history>>

TaskOf(n) ==
  CASE n \in Roles   /\ n \in DOMAIN rows    -> CompareRole(n, rows[n])
    [] n \in Roles   /\ n \notin DOMAIN rows -> CreateRole(n)
    [] n \in Objects /\ n \in DOMAIN rows    -> CompareObject(n)
    [] n \in Objects /\ n \notin DOMAIN rows -> CreateObject(n)

AllDone == \A n \in DOMAIN task : task[n] = <<>>

Submit ==
  /\ pc = "drop" /\ AllDone
  /\ task' = [n \in Resolved \cap Declared |-> TaskOf(n)]
  /\ pc' = "create"
  /\ UNCHANGED <<scenario, account, inv, idx, rows, errors, suggested, faults, history>>

Finish ==
  /\ pc = "create" /\ AllDone
  /\ task' = EmptyMap /\ rows' = EmptyMap
  /\ idx' = idx + 1 /\ pc' = "resolver"
  /\ UNCHANGED <<scenario, account, inv, errors, suggested, faults, history>>

HasStatement(n) == n \in DOMAIN task /\ task[n] # <<>>

Advance(n) == task' = [task EXCEPT ![n] = Tail(@)]

\* Queries are executed by plans too; what follows depends on the answer.
ReadGrants(n) ==
  /\ HasStatement(n) /\ Head(task[n]).op = "SHOW_GRANTS"
  /\ task' = [task EXCEPT ![n] = Reconcile(n, LiveGrantees(n)) \o Tail(@)]
  /\ UNCHANGED <<scenario, account, inv, pc, idx, rows, errors, suggested, faults, history>>

IsDDL(s) == s.op # "SHOW_GRANTS"

Suggest(n) ==
  /\ HasStatement(n) /\ IsDDL(Head(task[n])) /\ ~CanRun(Head(task[n]))
  /\ suggested' = suggested \cup {Head(task[n])}
  /\ Advance(n)
  /\ UNCHANGED <<scenario, account, inv, pc, idx, rows, errors, faults, history>>

Execute(n) ==
  /\ HasStatement(n) /\ IsDDL(Head(task[n])) /\ CanRun(Head(task[n]))
  /\ IsLegal(Head(task[n]))
  /\ account' = AccountAfter(Head(task[n]))
  /\ Advance(n)
  /\ UNCHANGED <<scenario, inv, pc, idx, rows, errors, suggested, faults, history>>

\* A statement or a query raises: the worker ends, and leaves what it did.
Raise(n) ==
  /\ HasStatement(n)
  /\ LET s == Head(task[n])
         fails == IsDDL(s) /\ CanRun(s) /\ ~IsLegal(s)
     IN  \/ fails /\ faults' = faults
         \/ /\ ~fails /\ (IsDDL(s) => CanRun(s))
            /\ faults < scenario.maxFaults /\ faults' = faults + 1
  /\ errors' = errors \cup {n}
  /\ task' = [task EXCEPT ![n] = <<>>]
  /\ UNCHANGED <<scenario, account, inv, pc, idx, rows, suggested, history>>

Record(exit) ==
  /\ history' = Append(history, [command |-> Invocation, exit |-> exit,
                                 suggested |-> suggested])
  /\ inv' = inv + 1 /\ pc' = "start"

Exit ==
  /\ pc = "resolver" /\ idx > Len(Sequence)
  /\ Record(IF errors = {} THEN "success" ELSE "errors")
  /\ UNCHANGED <<scenario, account, idx, rows, task, errors, suggested, faults>>

\* The process dies.
Crash ==
  /\ pc \in {"drop", "create"}
  /\ faults < scenario.maxFaults /\ faults' = faults + 1
  /\ Record("crashed")
  /\ task' = EmptyMap /\ rows' = EmptyMap
  /\ UNCHANGED <<scenario, account, idx, errors, suggested>>

Idle == pc = "start" /\ inv > Len(scenario.commands) /\ UNCHANGED vars

Worker(n) == ReadGrants(n) \/ Suggest(n) \/ Execute(n) \/ Raise(n)

Next == \/ Start \/ Begin \/ Submit \/ Finish \/ Exit \/ Crash \/ Idle
        \/ \E n \in Roles \cup Objects : Worker(n)

Spec == Init /\ [][Next]_vars

-----------------------------------------------------------------------------
(* Properties.                                                             *)

\* A role's blueprint gives it this: itself, or through a future grant.
Gives(r, g) ==
  \/ g \in config.grants /\ g.role = r
  \/ \E f \in config.futures : /\ f.role = r /\ f.privilege = g.privilege
                               /\ g.on \in Objects /\ f.on = TypeOf[g.on]

\* What a role is entitled to, among the objects there are.
Entitled(r) ==
  {g \in [role : {r}, privilege : Privileges, on : account.objects \cup {Account}] : Gives(r, g)}

\* A declared role holds what it is entitled to, and nothing else.
RoleInStep(r) ==
  /\ r \in account.roles
  /\ OfRole(account.held, r) = Entitled(r)
  /\ OfRole(account.futures, r) = RoleFutures(r)

\* The grantees of what an object names are those it names.
NamedInStep(o) ==
  \A i \in DOMAIN config.named[o] :
    LiveGrantees(o)[config.named[o][i].privilege] = config.named[o][i].roles

Granted ==
  /\ account.roles \cap Managed = config.roles
  /\ account.objects = config.objects /\ account.stale = {}
  /\ \A r \in config.roles : RoleInStep(r)
  /\ \A o \in config.objects : NamedInStep(o)

\* READ and WRITE are named in the order in which roles SnowDDL does not manage
\* gain or lose them: they are reconciled in the order of the file.
NamedInOrder(o) ==
  \A i, j \in DOMAIN config.named[o] : \A r \in Roles \ Managed :
    LET read == config.named[o][i]  write == config.named[o][j]
    IN  read.privilege = "READ" /\ write.privilege = "WRITE" =>
          IF i < j THEN Grant(r, "WRITE", o) \in scenario.account.held => r \in read.roles
                   ELSE r \in write.roles => Grant(r, "READ", o) \in scenario.account.held

\* Both kinds of blueprints agree on the roles of the configuration, none
\* names a role that is to be dropped, and nobody else has a future grant of a
\* named privilege.
Compatible ==
  \A o \in config.objects : NamedInOrder(o) /\ \A i \in DOMAIN config.named[o] :
    LET entry == config.named[o][i]
    IN  /\ \A r \in config.roles :
             r \in entry.roles <=> Gives(r, Grant(r, entry.privilege, o))
        /\ entry.roles \cap Managed \subseteq config.roles
        /\ \A r \in Roles \ Managed :
             Grant(r, entry.privilege, TypeOf[o]) \in scenario.account.futures =>
               r \in entry.roles

\* Nothing was left half done by anyone: the future grants that are kept were
\* granted on what there was, the roles that are kept to the role SnowDDL runs
\* as; WRITE is never had without READ, which it needs, and nothing failed but
\* what Snowflake refused.
Undisturbed ==
  /\ faults = 0
  /\ \A f \in scenario.account.futures \cap config.futures : \A o \in scenario.account.objects :
       TypeOf[o] = f.on => Grant(f.role, f.privilege, o) \in scenario.account.held
  /\ scenario.account.roles \cap config.roles \subseteq scenario.account.ours
  /\ \A f \in config.futures :
       f.privilege = "WRITE" => Grant(f.role, "READ", f.on) \in config.futures

Done == Len(history)

\* Invocation i was an apply allowed everything.
IsFull(i) == /\ history[i].command.action = "apply"
             /\ "apply_unsafe" \in history[i].command.options
Refreshes(i) == "refresh_future_grants" \in history[i].command.options

FullySucceeded(i) == IsFull(i) /\ history[i].exit = "success"

\* When an apply that may do everything exits with success, every role holds
\* exactly what its blueprint and its future grants say, and every named
\* privilege has exactly the named grantees, although the two are written by
\* different resolvers, and functions replaced on the way lost all grants
\* (_compare_object_entry_point, AbstractRoleResolver.compare_object).  Where
\* something was left half done --refresh-future-grants is needed, and whether
\* roles were granted to the role SnowDDL runs as is not repaired.
SuccessMeansGranted ==
  pc = "start" /\ Done > 0 /\ FullySucceeded(Done) /\ Compatible
    /\ (Undisturbed \/ Refreshes(Done)) =>
      Granted /\ (Undisturbed => config.roles \subseteq account.ours)

\* A second apply is enough whatever the account was: an OWNERSHIP future
\* grant moving to a resolver that runs before the one it is taken from, a
\* named role which is created after the object, and WRITE and READ revoked
\* together fail at most once (CHANGELOG.md 0.18.2).
TwoAppliesAreEnough ==
  pc = "start" /\ Done >= 2 /\ IsFull(Done - 1) /\ IsFull(Done) /\ faults = 0 /\ Compatible
    => history[Done].exit = "success"

\* After a success a plan finds nothing to do, unless it is told to refresh.
GrantedPlanIsEmpty ==
  Done >= 2 /\ FullySucceeded(Done - 1) /\ history[Done].command.action = "plan"
    /\ ~Refreshes(Done) /\ Compatible /\ (Undisturbed \/ Refreshes(Done - 1)) =>
      history[Done].suggested = {}

\* No step of an apply or a plan takes a grant from a declared role that its
\* blueprint or its future grants give it; only an object that is dropped or
\* replaced loses all of them at once.
EntitledIsKept ==
  [][\A h \in account.held \ account'.held :
       \/ ~Compatible \/ h.role \notin config.roles \/ h \notin Entitled(h.role)
       \/ h.on \in account.stale \ account'.stale
       \/ h.on \in account.objects \ account'.objects]_vars

=============================================================================
