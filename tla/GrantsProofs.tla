---------------------------- MODULE GrantsProofs ----------------------------
(***************************************************************************)
(* What no step of any sequence of invocations takes from a declared role, *)
(* and what holds after an apply that exits with success and after a plan  *)
(* that follows it, for every schema, configuration, account, interleaving *)
(* of the workers, failure and crash.                                      *)
(*                                                                         *)
(* A worker's statements are decided on before they are executed, some of  *)
(* them by what the account was when the resolver began.  So the proofs    *)
(* are about the statements that may still be under way: KeepInv says that *)
(* none of them revokes what its role is entitled to, which the            *)
(* configuration alone decides, and that an object whose ownership is      *)
(* about to be taken from a role has not come to belong to another one     *)
(* meanwhile; GrantedInv, that whatever a name lacks, once its resolver    *)
(* has submitted its tasks, is among the statements left of its task, and  *)
(* that what other workers execute does not bring it out of step again.    *)
(***************************************************************************)
EXTENDS Grants, SequenceLemmas

-----------------------------------------------------------------------------
(* The inductive invariant.                                                *)

\* What the blueprint of a role does not give it.
NotGiven(r) == {g \in Held : g.role = r /\ ~Gives(r, g)}

NotOwnership == {g \in Held : g.privilege # "OWNERSHIP"}

\* The statements of a role's worker, if it gives away what is in owned.
RoleStatements(r, owned) ==
  {RoleStatement(op, r) : op \in {"CREATE_ROLE", "GRANT_ROLE"}}
    \cup {RoleStatement("DROP_ROLE", q) : q \in {r} \ config.roles}
    \cup {Statement("GRANT", g) : g \in NotOwnership}
    \cup {Statement("REVOKE", g) : g \in NotGiven(r)}
    \cup {Statement("TRANSFER", g) : g \in (owned \cap NotGiven(r)) \ NotOwnership}
    \cup {Statement("GRANT_FUTURE", f) : f \in RoleFutures(r)}
    \cup {Statement("GRANT_ALL", f) : f \in RoleFutures(r)}
    \cup {Statement("REVOKE_FUTURE", f) : f \in Futures}

\* What an object may revoke: nothing a declared role is entitled to.
Revocable(o) ==
  {g \in NotOwnership : g.on = o /\ (Compatible => g.role \notin config.roles \/ ~Gives(g.role, g))}

\* The statements of an object's worker, but for a replacement.
ObjectStatements(o) ==
  {ObjectStatement(op, o) : op \in {"CREATE", "DROP"}}
    \cup {ObjectStatement("SHOW_GRANTS", p) : p \in {o} \cap config.objects}
    \cup {Statement("GRANT", g) : g \in NotOwnership}
    \cup {Statement("REVOKE_UNSAFE", g) : g \in Revocable(o)}

\* What a worker may execute, and what it may execute later: a replacement
\* comes first, of an object that is still stale.
LaterStatements(n) == IF n \in Roles THEN RoleStatements(n, Held) ELSE ObjectStatements(n)
NextStatements(n) ==
  IF n \in Roles THEN RoleStatements(n, Held)
  ELSE ObjectStatements(n) \cup {ObjectStatement("REPLACE", n)}

\* The one statement of a drop task.
DropOf(n) ==
  IF n \in Roles THEN RoleStatement("DROP_ROLE", n) ELSE ObjectStatement("DROP", n)

Fits(n) ==
  /\ task[n] \in Seq(NextStatements(n))
  /\ task[n] # <<>> => /\ Tail(task[n]) \in Seq(LaterStatements(n))
                       /\ Head(task[n]).op = "REPLACE" => n \in account.stale

TypesFit ==
  /\ scenario \in Scenarios
  /\ account \in AccountRecords
  /\ pc \in {"start", "resolver", "drop", "create"}
  /\ idx \in Nat \ {0} /\ (pc \in {"drop", "create"} => idx \in 1..Len(Sequence))
  /\ pc \in {"start", "resolver"} => task = EmptyMap /\ rows = EmptyMap

\* Grants are on what exists, and an object has one owner.
AccountFits ==
  /\ OwnedOnce(account.held) /\ OwnedOnce(account.futures)
  /\ \A h \in account.held : h.on \in account.objects \cup {Account}

TasksFit ==
  /\ pc \in {"drop", "create"} => DOMAIN task \subseteq Resolved
  /\ pc = "create" => DOMAIN task \subseteq Declared
  /\ \A n \in DOMAIN task : Fits(n)
  /\ pc = "drop" => \A n \in DOMAIN task : task[n] \in Seq({DropOf(n)})

\* Rows of roles are grants of these roles.  Before the roles' workers start,
\* what a row says the role owns belongs to nobody else.
RowsFit ==
  /\ pc \in {"drop", "create"} => DOMAIN rows \subseteq Resolved
  /\ \A r \in DOMAIN rows : rows[r].held \subseteq {g \in Held : g.role = r}
                            /\ rows[r].futures \subseteq {f \in Futures : f.role = r}
  /\ pc = "drop" => \A r \in DOMAIN rows : \A g \in rows[r].held :
                      g.privilege = "OWNERSHIP" => OwnedIn({g.on}) \subseteq {g}

\* Nor does it when the worker has yet to give it away.
TransfersFit ==
  \A n \in DOMAIN task : \A s \in Range(task[n]) :
    s.op = "TRANSFER" => OwnedIn({s.on}) \subseteq {Grant(n, "OWNERSHIP", s.on)}

KeepInv == TypesFit /\ AccountFits /\ TasksFit /\ RowsFit /\ TransfersFit

-----------------------------------------------------------------------------
(* Statements in turn.                                                     *)

\* What is flattened is in a set of sequences if every piece is.
LEMMA EachIn ==
  ASSUME NEW S, NEW g, IsSeq(g), NEW f, f = [i \in DOMAIN g |-> f[i]],
         \A i \in DOMAIN g : f[i] \in Seq(S)
  PROVE  FlattenSeq(f) \in Seq(S)
<1>1. Len(g) \in Nat /\ DOMAIN g = 1..Len(g)
  BY SeqElim
<1>2. IsSeq(f) /\ DOMAIN f = DOMAIN g
  BY <1>1, SeqIntro
<1>3. << >> \in Seq(S) /\ \A q, r \in Seq(S) : q \o r \in Seq(S)
  OBVIOUS
<1> QED
  BY <1>2, <1>3, FlattenIn

\* Triples over finite sets are finitely many.
LEMMA TriplesAreFinite ==
  ASSUME NEW X, IsFiniteSet(X)
  PROVE  IsFiniteSet([role : Roles, privilege : Privileges, on : X])
<1> DEFINE S == Roles \X (Privileges \X X)
           T == [role : Roles, privilege : Privileges, on : X]
           f == [t \in S |-> Grant(t[1], t[2][1], t[2][2])]
<1>1. IsFiniteSet(S)
  <2>1. IsFiniteSet(Privileges \X X)
    BY FS_Product, GrantsAssumption DEF GrantsAssumption
  <2> QED
    BY <2>1, FS_Product, GrantsAssumption DEF GrantsAssumption
<1>2. f \in [S -> T]
  BY DEF Grant
<1>3. ASSUME NEW g \in T PROVE \E t \in S : f[t] = g
  <2>1. << g.role, << g.privilege, g.on >> >> \in S
    OBVIOUS
  <2>2. f[<< g.role, << g.privilege, g.on >> >>] = Grant(g.role, g.privilege, g.on)
    BY <2>1
  <2>3. g = Grant(g.role, g.privilege, g.on)
    BY DEF Grant
  <2> QED
    BY <2>1, <2>2, <2>3
<1> HIDE DEF f, S, T
<1>4. f \in Surjection(S, T)
  BY <1>2, <1>3 DEF Surjection
<1>5. IsFiniteSet(T)
  BY <1>1, <1>4, FS_Surjection
<1> QED
  BY <1>5 DEF T

\* Grants and future grants are finitely many.
LEMMA FinitelyMany == IsFiniteSet(Held) /\ IsFiniteSet(Futures)
<1>1. IsFiniteSet(Objects \cup {Account})
  BY FS_AddElement, GrantsAssumption DEF GrantsAssumption
<1>2. IsFiniteSet(ObjectTypes)
  <2>1. IsFiniteSet({"STAGE"})
    BY FS_Singleton
  <2>2. IsFiniteSet({"STAGE"} \cup {"FUNCTION"})
    BY <2>1, FS_AddElement
  <2>3. ObjectTypes = {"STAGE"} \cup {"FUNCTION"}
    BY DEF ObjectTypes
  <2> QED
    BY <2>2, <2>3
<1> QED
  BY <1>1, <1>2, TriplesAreFinite DEF Held, Futures

\* Grants in some order.
LEMMA InTurnIs ==
  ASSUME NEW grants, IsFiniteSet(grants)
  PROVE  /\ IsSeq(InTurn(grants)) /\ Range(InTurn(grants)) = grants
         /\ \A i \in DOMAIN InTurn(grants) : InTurn(grants)[i] \in grants
<1>1. IsSeq(InTurn(grants)) /\ Range(InTurn(grants)) = grants
  BY SetToSeqIsSeq DEF InTurn
<1> QED
  BY <1>1 DEF Range

\* READ before WRITE, or WRITE before READ, they are the same grants.
LEMMA BothOrders ==
  ASSUME NEW grants, IsFiniteSet(grants)
  PROVE  /\ Range(ReadFirst(grants)) = grants /\ Range(WriteFirst(grants)) = grants
         /\ IsSeq(ReadFirst(grants)) /\ \A i \in DOMAIN ReadFirst(grants) : ReadFirst(grants)[i] \in grants
         /\ IsSeq(WriteFirst(grants)) /\ \A i \in DOMAIN WriteFirst(grants) : WriteFirst(grants)[i] \in grants
<1> DEFINE w == InTurn(Written(grants))
           o == InTurn(grants \ Written(grants))
<1>1. IsFiniteSet(Written(grants)) /\ IsFiniteSet(grants \ Written(grants))
  BY FS_Subset DEF Written
<1>2. IsSeq(w) /\ IsSeq(o) /\ Range(w) \cup Range(o) = grants
  BY <1>1, InTurnIs DEF Written
<1> HIDE DEF w, o
<1>3. /\ IsSeq(w \o o) /\ \A x : x \in Range(w \o o) <=> x \in Range(w) \/ x \in Range(o)
      /\ IsSeq(o \o w) /\ \A x : x \in Range(o \o w) <=> x \in Range(o) \/ x \in Range(w)
  BY <1>2, JoinIsSeq
<1>4. \A i \in DOMAIN (w \o o) : (w \o o)[i] \in grants
  BY <1>2, <1>3 DEF Range
<1>5. \A i \in DOMAIN (o \o w) : (o \o w)[i] \in grants
  BY <1>2, <1>3 DEF Range
<1>6. Range(w \o o) = grants /\ Range(o \o w) = grants
  BY <1>2, <1>3
<1>7. ReadFirst(grants) = o \o w /\ WriteFirst(grants) = w \o o
  BY DEF ReadFirst, WriteFirst, w, o
<1> QED
  BY <1>3, <1>4, <1>5, <1>6, <1>7

-----------------------------------------------------------------------------
(* What the workers decide on.                                             *)

\* What is known of a scenario.
LEMMA ConfigIsSound ==
  ASSUME scenario \in Scenarios
  PROVE  /\ config.roles \subseteq Roles /\ config.objects \subseteq Objects
         /\ config.grants \subseteq NotOwnership /\ config.futures \subseteq Futures
         /\ config.named \in
              [Objects -> Seq([privilege : Privileges \ {"OWNERSHIP"}, roles : SUBSET Roles])]
         /\ scenario.account \in AccountRecords
         /\ OwnedOnce(config.futures)
         /\ \A f \in config.futures : \A r \in Roles :
              f.privilege = "OWNERSHIP" /\ RoleResolver[r] = RoleResolver[f.role] => r = f.role
<1>1. scenario \in ScenarioRecords
  BY ScenarioAssumption DEF config
<1>2. config \in ConfigRecords /\ scenario.account \in AccountRecords
  BY <1>1 DEF ScenarioRecords, config
<1>3. \A g \in config.grants : g.privilege # "OWNERSHIP"
  BY ScenarioAssumption DEF config
<1>4. OwnedOnce(config.futures)
  BY ScenarioAssumption DEF config
<1>5. \A f \in config.futures : \A r \in Roles :
        f.privilege = "OWNERSHIP" /\ RoleResolver[r] = RoleResolver[f.role] => r = f.role
  BY ScenarioAssumption DEF config
<1> QED
  BY <1>2, <1>3, <1>4, <1>5 DEF ConfigRecords, Managed, NotOwnership

\* The grants and future grants of one role's blueprint.
LEMMA OwnGrants ==
  ASSUME scenario \in Scenarios, NEW r
  PROVE  /\ RoleGrants(r) \subseteq NotOwnership /\ IsFiniteSet(RoleGrants(r))
         /\ RoleFutures(r) \subseteq Futures /\ IsFiniteSet(RoleFutures(r))
<1>1. RoleGrants(r) \subseteq NotOwnership /\ RoleFutures(r) \subseteq Futures
  BY ConfigIsSound DEF RoleGrants, RoleFutures, OfRole
<1>2. RoleGrants(r) \subseteq Held
  BY <1>1 DEF NotOwnership
<1> QED
  BY <1>1, <1>2, FinitelyMany, FS_Subset

\* Grants which are not ownership may be granted by anyone.
LEMMA GrantsFit ==
  ASSUME NEW S, {Statement("GRANT", g) : g \in NotOwnership} \subseteq S,
         NEW grants, grants \subseteq NotOwnership
  PROVE  Each(CreateGrant, ReadFirst(grants)) \in Seq(S)
<1> DEFINE G == ReadFirst(grants)
           f == [i \in DOMAIN G |-> CreateGrant(G[i])]
<1>1. IsFiniteSet(grants)
  BY FinitelyMany, FS_Subset DEF NotOwnership
<1>2. IsSeq(G) /\ \A i \in DOMAIN G : G[i] \in grants
  BY <1>1, BothOrders
<1>3. ASSUME NEW i \in DOMAIN G PROVE CreateGrant(G[i]) \in Seq(S)
  <2>1. Statement("GRANT", G[i]) \in S
    BY <1>2
  <2> QED
    BY <2>1 DEF CreateGrant
<1> HIDE DEF G
<1>4. FlattenSeq(f) \in Seq(S)
  BY <1>2, <1>3, EachIn
<1> QED
  BY <1>4 DEF Each, G

\* What a blueprint does not give may be taken away.
LEMMA RevokesFit ==
  ASSUME NEW r, NEW owned, NEW grants, grants \subseteq owned \cap NotGiven(r)
  PROVE  Each(DropGrant, WriteFirst(grants)) \in Seq(RoleStatements(r, owned))
<1> DEFINE S == RoleStatements(r, owned)
           G == WriteFirst(grants)
           f == [i \in DOMAIN G |-> DropGrant(G[i])]
<1>1. IsFiniteSet(grants)
  BY FinitelyMany, FS_Subset DEF NotGiven
<1>2. IsSeq(G) /\ \A i \in DOMAIN G : G[i] \in grants
  BY <1>1, BothOrders
<1>3. ASSUME NEW i \in DOMAIN G PROVE DropGrant(G[i]) \in Seq(S)
  <2>1. CASE G[i].privilege = "OWNERSHIP"
    <3>1. Statement("TRANSFER", G[i]) \in S
      BY <1>2, <2>1 DEF RoleStatements, NotOwnership
    <3> QED
      BY <2>1, <3>1 DEF DropGrant
  <2>2. CASE G[i].privilege # "OWNERSHIP"
    <3>1. Statement("REVOKE", G[i]) \in S
      BY <1>2 DEF RoleStatements
    <3> QED
      BY <2>2, <3>1 DEF DropGrant
  <2> QED
    BY <2>1, <2>2
<1> HIDE DEF G, S
<1>4. FlattenSeq(f) \in Seq(S)
  BY <1>2, <1>3, EachIn
<1> QED
  BY <1>4 DEF Each, G, S

\* create_object of a role
LEMMA CreateRoleFits ==
  ASSUME scenario \in Scenarios, NEW r
  PROVE  CreateRole(r) \in Seq(RoleStatements(r, {}))
<1> DEFINE S == RoleStatements(r, {})
           F == ReadFirst(RoleFutures(r))
           f == [i \in DOMAIN F |-> CreateFutureGrant(F[i])]
<1>1. <<RoleStatement("CREATE_ROLE", r), RoleStatement("GRANT_ROLE", r)>> \in Seq(S)
  <2>1. RoleStatement("CREATE_ROLE", r) \in S /\ RoleStatement("GRANT_ROLE", r) \in S
    BY DEF RoleStatements
  <2> QED
    BY <2>1
<1>2. /\ OnObjects(RoleGrants(r)) \subseteq NotOwnership
      /\ OnAccount(RoleGrants(r)) \subseteq NotOwnership
  BY OwnGrants DEF OnObjects, OnAccount
<1>3. {Statement("GRANT", g) : g \in NotOwnership} \subseteq S
  BY DEF RoleStatements
<1>4. IsSeq(F) /\ \A i \in DOMAIN F : F[i] \in RoleFutures(r)
  BY OwnGrants, BothOrders
<1>5. ASSUME NEW i \in DOMAIN F PROVE CreateFutureGrant(F[i]) \in Seq(S)
  <2>1. Statement("GRANT_FUTURE", F[i]) \in S /\ Statement("GRANT_ALL", F[i]) \in S
    BY <1>4 DEF RoleStatements
  <2> QED
    BY <2>1 DEF CreateFutureGrant
<1> HIDE DEF S, F
<1>6. FlattenSeq(f) \in Seq(S)
  BY <1>4, <1>5, EachIn
<1>7. Each(CreateFutureGrant, F) \in Seq(S)
  BY <1>6 DEF Each
<1>8. /\ Each(CreateGrant, ReadFirst(OnObjects(RoleGrants(r)))) \in Seq(S)
      /\ Each(CreateGrant, ReadFirst(OnAccount(RoleGrants(r)))) \in Seq(S)
  BY <1>2, <1>3, GrantsFit
<1>9. CreateRole(r) \in Seq(S)
  BY <1>1, <1>7, <1>8 DEF CreateRole, F
<1> QED
  BY <1>9 DEF S

\* compare_object of a role
LEMMA CompareRoleFits ==
  ASSUME scenario \in Scenarios, NEW r, NEW row,
         row.held \subseteq {g \in Held : g.role = r}, row.futures \subseteq Futures
  PROVE  CompareRole(r, row) \in Seq(RoleStatements(r, row.held))
<1> DEFINE S == RoleStatements(r, row.held)
           revoked == {g \in OnObjects(row.held) \ RoleGrants(r) : ~KeptByFuture(r, g)}
           onAccount == OnAccount(row.held) \ RoleGrants(r)
           D == WriteFirst(row.futures \ RoleFutures(r))
           d == [i \in DOMAIN D |-> DropFutureGrant(D[i])]
           F == ReadFirst(RoleFutures(r))
           Refresh(x) == IF x \notin row.futures THEN CreateFutureGrant(x)
                         ELSE IF HasOption("refresh_future_grants") THEN ApplyFutureGrant(x)
                         ELSE <<>>
           f == [i \in DOMAIN F |-> Refresh(F[i])]
<1>1. revoked \subseteq row.held \cap NotGiven(r)
  <2>1. ASSUME NEW g \in revoked PROVE g \in Held /\ g.role = r /\ ~Gives(r, g)
    <3>1. g \in row.held /\ g.on # Account /\ g \notin RoleGrants(r) /\ ~KeptByFuture(r, g)
      BY DEF OnObjects, OnAccount
    <3>2. g \in Held /\ g.role = r
      BY <3>1
    <3>3. ~(g \in config.grants /\ g.role = r)
      BY <3>1 DEF RoleGrants, OfRole
    <3>4. ASSUME NEW h \in config.futures, h.role = r, h.privilege = g.privilege,
                 g.on \in Objects, h.on = TypeOf[g.on]
          PROVE  FALSE
      <4>1. h \in Futures
        BY ConfigIsSound
      <4>2. h = Grant(r, g.privilege, TypeOf[g.on])
        BY <3>4, <4>1 DEF Futures, Grant
      <4> QED
        BY <3>1, <3>4, <4>2 DEF KeptByFuture, RoleFutures, OfRole
    <3> QED
      BY <3>2, <3>3, <3>4 DEF Gives
  <2> QED
    BY <2>1 DEF NotGiven, OnObjects, OnAccount
<1>2. onAccount \subseteq row.held \cap NotGiven(r)
  <2>1. ASSUME NEW g \in onAccount PROVE g \in Held /\ g.role = r /\ ~Gives(r, g)
    <3>1. g \in row.held /\ g.on = Account /\ g \notin RoleGrants(r)
      BY DEF OnAccount
    <3>2. Account \notin Objects
      BY GrantsAssumption DEF GrantsAssumption
    <3> QED
      BY <3>1, <3>2 DEF Gives, RoleGrants, OfRole
  <2> QED
    BY <2>1 DEF NotGiven, OnAccount
<1>3. /\ OnObjects(RoleGrants(r)) \ row.held \subseteq NotOwnership
      /\ OnAccount(RoleGrants(r)) \ row.held \subseteq NotOwnership
  BY OwnGrants DEF OnObjects, OnAccount
<1>4. {Statement("GRANT", g) : g \in NotOwnership} \subseteq S
  BY DEF RoleStatements
<1>5. IsSeq(F) /\ \A i \in DOMAIN F : F[i] \in RoleFutures(r)
  BY OwnGrants, BothOrders
<1>6. ASSUME NEW i \in DOMAIN F PROVE Refresh(F[i]) \in Seq(S)
  <2>1. Statement("GRANT_FUTURE", F[i]) \in S /\ Statement("GRANT_ALL", F[i]) \in S
    BY <1>5 DEF RoleStatements
  <2>2. CreateFutureGrant(F[i]) \in Seq(S) /\ ApplyFutureGrant(F[i]) \in Seq(S) /\ <<>> \in Seq(S)
    BY <2>1 DEF CreateFutureGrant, ApplyFutureGrant
  <2> QED
    BY <2>2
<1>7. IsSeq(D) /\ \A i \in DOMAIN D : D[i] \in row.futures
  <2>1. IsFiniteSet(row.futures \ RoleFutures(r))
    BY FinitelyMany, FS_Subset
  <2> QED
    BY <2>1, BothOrders
<1>8. ASSUME NEW i \in DOMAIN D PROVE DropFutureGrant(D[i]) \in Seq(S)
  <2>1. Statement("REVOKE_FUTURE", D[i]) \in S
    BY <1>7 DEF RoleStatements
  <2> QED
    BY <2>1 DEF DropFutureGrant
<1>9. Each(DropGrant, WriteFirst(revoked)) \in Seq(S) /\ Each(DropGrant, WriteFirst(onAccount)) \in Seq(S)
  BY <1>1, <1>2, RevokesFit
<1> HIDE DEF S, F, D, revoked, onAccount, Refresh
<1>10. FlattenSeq(f) \in Seq(S) /\ FlattenSeq(d) \in Seq(S)
  BY <1>5, <1>6, <1>7, <1>8, EachIn
<1>11. Each(Refresh, F) \in Seq(S) /\ Each(DropFutureGrant, D) \in Seq(S)
  BY <1>10 DEF Each
<1>12. /\ Each(CreateGrant, ReadFirst(OnObjects(RoleGrants(r)) \ row.held)) \in Seq(S)
       /\ Each(CreateGrant, ReadFirst(OnAccount(RoleGrants(r)) \ row.held)) \in Seq(S)
  BY <1>3, <1>4, GrantsFit
<1> DEFINE p1 == Each(DropGrant, WriteFirst(revoked))
           p2 == Each(CreateGrant, ReadFirst(OnObjects(RoleGrants(r)) \ row.held))
           p3 == Each(DropGrant, WriteFirst(onAccount))
           p4 == Each(CreateGrant, ReadFirst(OnAccount(RoleGrants(r)) \ row.held))
           p5 == Each(DropFutureGrant, D)
           p6 == Each(Refresh, F)
<1>13. CompareRole(r, row) = p1 \o p2 \o p3 \o p4 \o p5 \o p6
  BY DEF CompareRole, revoked, onAccount, D, F, Refresh
<1>14. p1 \in Seq(S) /\ p2 \in Seq(S) /\ p3 \in Seq(S) /\ p4 \in Seq(S) /\ p5 \in Seq(S) /\ p6 \in Seq(S)
  BY <1>9, <1>11, <1>12
<1> HIDE DEF p1, p2, p3, p4, p5, p6
<1>15. CompareRole(r, row) \in Seq(S)
  BY <1>13, <1>14
<1> QED
  BY <1>15 DEF S

\* Statements on some roles, one by one.
LEMMA ForRolesFit ==
  ASSUME NEW S, NEW op, NEW o, NEW p, NEW roles, IsFiniteSet(roles),
         \A r \in roles : Statement(op, Grant(r, p, o)) \in S
  PROVE  ForRoles(op, o, p, roles) \in Seq(S)
<1> DEFINE R == InTurn(roles)
           f == [i \in DOMAIN R |-> <<Statement(op, Grant(R[i], p, o))>>]
<1>1. IsSeq(R) /\ \A i \in DOMAIN R : R[i] \in roles
  BY InTurnIs
<1>2. ASSUME NEW i \in DOMAIN R PROVE <<Statement(op, Grant(R[i], p, o))>> \in Seq(S)
  BY <1>1
<1> HIDE DEF R
<1>3. FlattenSeq(f) \in Seq(S)
  BY <1>1, <1>2, EachIn
<1> QED
  BY <1>3 DEF ForRoles, Each, R

\* _reconcile_object_grants, whoever the grantees are.
LEMMA ReconcileFits ==
  ASSUME scenario \in Scenarios, NEW o \in config.objects,
         NEW grantees \in [Privileges -> SUBSET Roles]
  PROVE  Reconcile(o, grantees) \in Seq(ObjectStatements(o))
<1> DEFINE S == ObjectStatements(o)
           N == config.named[o]
           About(e) == ForRoles("GRANT", o, e.privilege, e.roles \ grantees[e.privilege])
                         \o ForRoles("REVOKE_UNSAFE", o, e.privilege, grantees[e.privilege] \ e.roles)
           f == [i \in DOMAIN N |-> About(N[i])]
<1>1. o \in Objects /\ N \in Seq([privilege : Privileges \ {"OWNERSHIP"}, roles : SUBSET Roles])
  BY ConfigIsSound
<1>2. /\ IsSeq(N)
      /\ \A i \in DOMAIN N : N[i].privilege \in Privileges \ {"OWNERSHIP"} /\ N[i].roles \subseteq Roles
  <2> DEFINE E == [privilege : Privileges \ {"OWNERSHIP"}, roles : SUBSET Roles]
  <2>0. N \in Seq(E)
    BY <1>1
  <2> HIDE DEF E, N
  <2>1. IsSeq(N) /\ Range(N) \subseteq E
    BY <2>0, SeqWithin
  <2>2. ASSUME NEW i \in DOMAIN N
        PROVE  N[i].privilege \in Privileges \ {"OWNERSHIP"} /\ N[i].roles \subseteq Roles
    <3>1. N[i] \in E
      BY <2>1 DEF Range
    <3> QED
      BY <3>1 DEF E
  <2> QED
    BY <2>1, <2>2
<1>3. ASSUME NEW i \in DOMAIN N PROVE About(N[i]) \in Seq(S)
  <2> DEFINE e == N[i]
  <2>1. e.privilege \in Privileges \ {"OWNERSHIP"} /\ e.roles \subseteq Roles
    BY <1>2
  <2>2. grantees[e.privilege] \subseteq Roles
    BY <2>1
  <2>3. IsFiniteSet(e.roles \ grantees[e.privilege]) /\ IsFiniteSet(grantees[e.privilege] \ e.roles)
    BY <2>1, <2>2, FS_Subset, GrantsAssumption DEF GrantsAssumption
  <2>4. ASSUME NEW r \in e.roles \ grantees[e.privilege]
        PROVE  Statement("GRANT", Grant(r, e.privilege, o)) \in S
    <3>1. Grant(r, e.privilege, o) \in NotOwnership
      BY <1>1, <2>1 DEF NotOwnership, Held, Grant
    <3> QED
      BY <3>1 DEF ObjectStatements
  <2>5. ASSUME NEW r \in grantees[e.privilege] \ e.roles
        PROVE  Statement("REVOKE_UNSAFE", Grant(r, e.privilege, o)) \in S
    <3> DEFINE g == Grant(r, e.privilege, o)
    <3>1. g \in NotOwnership /\ g.on = o /\ g.role = r
      BY <1>1, <2>1, <2>2 DEF NotOwnership, Held, Grant
    <3>2. ASSUME Compatible, r \in config.roles PROVE ~Gives(r, g)
      <4>1. r \in e.roles <=> Gives(r, g)
        BY <3>2 DEF Compatible
      <4> QED
        BY <4>1
    <3>3. g \in Revocable(o)
      BY <3>1, <3>2 DEF Revocable
    <3> QED
      BY <3>3 DEF ObjectStatements
  <2> HIDE DEF e, S
  <2>6. /\ ForRoles("GRANT", o, e.privilege, e.roles \ grantees[e.privilege]) \in Seq(S)
        /\ ForRoles("REVOKE_UNSAFE", o, e.privilege, grantees[e.privilege] \ e.roles) \in Seq(S)
    BY <2>3, <2>4, <2>5, ForRolesFit
  <2>7. About(e) \in Seq(S)
    BY <2>6
  <2> QED
    BY <2>7 DEF e
<1> HIDE DEF S, N, About
<1>4. FlattenSeq(f) \in Seq(S)
  BY <1>2, <1>3, EachIn
<1>5. Each(About, N) \in Seq(S)
  BY <1>4 DEF Each
<1> QED
  BY <1>5 DEF Reconcile, About, S, N

\* No grantees, or those there are, are grantees.
LEMMA Grantees ==
  ASSUME NEW o
  PROVE  NoGrantees \in [Privileges -> SUBSET Roles] /\ LiveGrantees(o) \in [Privileges -> SUBSET Roles]
  BY DEF NoGrantees, LiveGrantees

\* The kinds of names, in their order.
LEMMA Kinds ==
  /\ DOMAIN Sequence = 1..6 /\ Len(Sequence) = 6
  /\ Sequence[1] = "SCHEMA_READ_ROLE" /\ Sequence[2] = "DATABASE_OWNER_ROLE"
  /\ Sequence[3] = "SCHEMA_OWNER_ROLE" /\ Sequence[4] = "STAGE" /\ Sequence[5] = "FUNCTION"
  /\ Sequence[6] = "TECHNICAL_ROLE"
  /\ \A i \in 1..6 : Sequence[i] # None
<1>1. /\ DOMAIN Sequence = 1..6 /\ Len(Sequence) = 6
      /\ Sequence[1] = "SCHEMA_READ_ROLE" /\ Sequence[2] = "DATABASE_OWNER_ROLE"
      /\ Sequence[3] = "SCHEMA_OWNER_ROLE" /\ Sequence[4] = "STAGE" /\ Sequence[5] = "FUNCTION"
      /\ Sequence[6] = "TECHNICAL_ROLE"
  BY DEF Sequence
<1>2. ASSUME NEW i \in 1..6 PROVE Sequence[i] # None
  <2>1. Sequence[i] \in Range(Sequence)
    BY <1>1 DEF Range
  <2> QED
    BY <2>1, GrantsAssumption DEF GrantsAssumption
<1> QED
  BY <1>1, <1>2

\* Roles and objects are not resolved together.
LEMMA OneKind == Resolved \subseteq Roles \/ Resolved \subseteq Objects
<1>1. /\ \A r \in Roles : RoleResolver[r] \notin {"STAGE", "FUNCTION"}
      /\ \A o \in Objects : TypeOf[o] \in {"STAGE", "FUNCTION"}
  BY Kinds, GrantsAssumption DEF GrantsAssumption, ObjectTypes
<1>2. CASE Resolver \in {"STAGE", "FUNCTION"}
  BY <1>1, <1>2 DEF Resolved
<1>3. CASE Resolver \notin {"STAGE", "FUNCTION"}
  BY <1>1, <1>3 DEF Resolved
<1> QED
  BY <1>2, <1>3

\* The kinds of names.
LEMMA Names ==
  /\ Roles \cap Objects = {} /\ Resolved \subseteq Roles \cup Objects
  /\ Account \notin Objects
  BY GrantsAssumption DEF GrantsAssumption, Resolved

-----------------------------------------------------------------------------
(* What a statement is about, and does.                                    *)

\* What a statement grants or revokes.
GrantOf(s) == Grant(s.role, s.privilege, s.on)

\* A statement is about the grant it was made of.
LEMMA GrantOfStatement ==
  ASSUME NEW op, NEW g, g \in Held \cup Futures
  PROVE  GrantOf(Statement(op, g)) = g /\ Statement(op, g).op = op
<1>1. CASE g \in Held
  BY <1>1 DEF GrantOf, Statement, Grant, Held
<1>2. CASE g \in Futures
  BY <1>2 DEF GrantOf, Statement, Grant, Futures
<1> QED
  BY <1>1, <1>2

\* A role's statements, by what they do.
LEMMA OfRoles ==
  ASSUME scenario \in Scenarios, NEW r \in Roles, NEW s \in RoleStatements(r, Held)
  PROVE  \/ s.op \in {"CREATE_ROLE", "GRANT_ROLE"} /\ s.role = r
         \/ s.op = "DROP_ROLE" /\ s.role = r /\ r \notin config.roles
         \/ s.op = "GRANT" /\ GrantOf(s) \in NotOwnership
         \/ s.op = "REVOKE" /\ GrantOf(s) \in NotGiven(r)
         \/ s.op = "TRANSFER" /\ GrantOf(s) \in NotGiven(r) \ NotOwnership
         \/ s.op \in {"GRANT_FUTURE", "GRANT_ALL"} /\ GrantOf(s) \in RoleFutures(r)
         \/ s.op = "REVOKE_FUTURE" /\ GrantOf(s) \in Futures
<1>1. CASE s \in {RoleStatement(op, r) : op \in {"CREATE_ROLE", "GRANT_ROLE"}}
  BY <1>1 DEF RoleStatement, Statement, Grant
<1>2. CASE s \in {RoleStatement("DROP_ROLE", q) : q \in {r} \ config.roles}
  BY <1>2 DEF RoleStatement, Statement, Grant
<1>3. CASE s \in {Statement("GRANT", g) : g \in NotOwnership}
  BY <1>3, GrantOfStatement DEF NotOwnership
<1>4. CASE s \in {Statement("REVOKE", g) : g \in NotGiven(r)}
  BY <1>4, GrantOfStatement DEF NotGiven
<1>5. CASE s \in {Statement("TRANSFER", g) : g \in (Held \cap NotGiven(r)) \ NotOwnership}
  BY <1>5, GrantOfStatement
<1>6. CASE s \in {Statement("GRANT_FUTURE", f) : f \in RoleFutures(r)}
  BY <1>6, GrantOfStatement, OwnGrants
<1>7. CASE s \in {Statement("GRANT_ALL", f) : f \in RoleFutures(r)}
  BY <1>7, GrantOfStatement, OwnGrants
<1>8. CASE s \in {Statement("REVOKE_FUTURE", f) : f \in Futures}
  BY <1>8, GrantOfStatement
<1> QED
  BY <1>1, <1>2, <1>3, <1>4, <1>5, <1>6, <1>7, <1>8 DEF RoleStatements

\* An object's.
LEMMA OfObjects ==
  ASSUME NEW o \in Objects, NEW s \in ObjectStatements(o) \cup {ObjectStatement("REPLACE", o)}
  PROVE  \/ s.op \in {"CREATE", "DROP", "REPLACE"} /\ s.on = o
         \/ s.op = "SHOW_GRANTS" /\ s.on = o /\ o \in config.objects
         \/ s.op = "GRANT" /\ GrantOf(s) \in NotOwnership
         \/ s.op = "REVOKE_UNSAFE" /\ GrantOf(s) \in Revocable(o)
<1>1. CASE s \in {ObjectStatement(op, o) : op \in {"CREATE", "DROP"}} \cup {ObjectStatement("REPLACE", o)}
  BY <1>1 DEF ObjectStatement, Statement, Grant
<1>2. CASE s \in {ObjectStatement("SHOW_GRANTS", p) : p \in {o} \cap config.objects}
  BY <1>2 DEF ObjectStatement, Statement, Grant
<1>3. CASE s \in {Statement("GRANT", g) : g \in NotOwnership}
  BY <1>3, GrantOfStatement DEF NotOwnership
<1>4. CASE s \in {Statement("REVOKE_UNSAFE", g) : g \in Revocable(o)}
  BY <1>4, GrantOfStatement DEF Revocable, NotOwnership
<1> QED
  BY <1>1, <1>2, <1>3, <1>4 DEF ObjectStatements

\* Fewer grants on as many objects are still grants on what exists.
LEMMA FewerGrants ==
  ASSUME NEW held, NEW fewer, fewer \subseteq held, OwnedOnce(held)
  PROVE  OwnedOnce(fewer)
  BY DEF OwnedOnce

\* The account stays one in which grants are on what exists and an object has
\* one owner.
LEMMA AccountStaysFit ==
  ASSUME TypesFit, AccountFits, NEW n \in Roles \cup Objects, NEW s \in NextStatements(n),
         IsLegal(s), s.op # "SHOW_GRANTS"
  PROVE  /\ AccountAfter(s) \in AccountRecords
         /\ OwnedOnce(AccountAfter(s).held) /\ OwnedOnce(AccountAfter(s).futures)
         /\ \A h \in AccountAfter(s).held : h.on \in AccountAfter(s).objects \cup {Account}
<1> DEFINE A == AccountAfter(s)
           Goal == /\ A \in AccountRecords /\ OwnedOnce(A.held) /\ OwnedOnce(A.futures)
                   /\ \A h \in A.held : h.on \in A.objects \cup {Account}
<1>1. /\ scenario \in Scenarios /\ account \in AccountRecords
      /\ OwnedOnce(account.held) /\ OwnedOnce(account.futures)
      /\ \A h \in account.held : h.on \in account.objects \cup {Account}
  BY DEF TypesFit, AccountFits
<1>2. /\ account.roles \subseteq Roles /\ account.ours \subseteq Roles
      /\ account.held \subseteq Held /\ account.futures \subseteq Futures
      /\ account.objects \subseteq Objects /\ account.stale \subseteq Objects
      /\ account = [roles |-> account.roles, ours |-> account.ours, held |-> account.held,
                    futures |-> account.futures, objects |-> account.objects,
                    stale |-> account.stale]
  BY <1>1 DEF AccountRecords
<1> DEFINE roles == account.roles  ours == account.ours  held == account.held
           futures == account.futures  objects == account.objects  stale == account.stale
           g == GrantOf(s)
           Rec(r, u, h, f, o, d) == [roles |-> r, ours |-> u, held |-> h, futures |-> f,
                                     objects |-> o, stale |-> d]
<1> HIDE DEF Goal
<1>4. CASE n \in Roles
  <2> USE <1>4
  <2>1. \/ s.op \in {"CREATE_ROLE", "GRANT_ROLE"} /\ s.role = n
        \/ s.op = "DROP_ROLE" /\ s.role = n
        \/ s.op = "GRANT" /\ g \in NotOwnership
        \/ s.op = "REVOKE"
        \/ s.op = "TRANSFER"
        \/ s.op \in {"GRANT_FUTURE", "GRANT_ALL"} /\ g \in RoleFutures(n)
        \/ s.op = "REVOKE_FUTURE"
    BY <1>1, OfRoles DEF NextStatements
  <2>2. CASE s.op = "CREATE_ROLE" /\ s.role = n
    <3>1. A = Rec(roles \cup {n}, ours, held, futures, objects, stale)
      BY <1>2, <2>2 DEF AccountAfter
    <3>20. roles \cup {n} \in SUBSET Roles /\ ours \in SUBSET Roles /\ held \in SUBSET Held
           /\ futures \in SUBSET Futures /\ objects \in SUBSET Objects /\ stale \in SUBSET Objects
      BY <1>1, <1>2, <3>1
    <3>21. /\ A.held = held /\ A.futures = futures /\ A.objects = objects
           /\ A \in AccountRecords
      BY <3>1, <3>20 DEF AccountRecords
    <3> QED
      BY <1>1, <3>21 DEF Goal
  <2>3. CASE s.op = "GRANT_ROLE" /\ s.role = n
    <3>1. A = Rec(roles, ours \cup {n}, held, futures, objects, stale)
      BY <1>2, <2>3 DEF AccountAfter
    <3>20. roles \in SUBSET Roles /\ ours \cup {n} \in SUBSET Roles /\ held \in SUBSET Held
           /\ futures \in SUBSET Futures /\ objects \in SUBSET Objects /\ stale \in SUBSET Objects
      BY <1>1, <1>2, <3>1
    <3>21. /\ A.held = held /\ A.futures = futures /\ A.objects = objects
           /\ A \in AccountRecords
      BY <3>1, <3>20 DEF AccountRecords
    <3> QED
      BY <1>1, <3>21 DEF Goal
  <2>4. CASE s.op = "DROP_ROLE" /\ s.role = n
    <3> DEFINE h == held \ OfRole(held, n)
               f == futures \ OfRole(futures, n)
    <3>1. A = Rec(roles \ {n}, ours \ {n}, h, f, objects, stale)
      BY <1>2, <2>4 DEF AccountAfter
    <3>2. OwnedOnce(h) /\ OwnedOnce(f) /\ h \subseteq held /\ f \subseteq futures
      BY <1>1, FewerGrants
    <3> HIDE DEF h, f
    <3>20. roles \ {n} \in SUBSET Roles /\ ours \ {n} \in SUBSET Roles /\ h \in SUBSET Held
           /\ f \in SUBSET Futures /\ objects \in SUBSET Objects /\ stale \in SUBSET Objects
      BY <1>1, <1>2, <3>1, <3>2
    <3>21. /\ A.held = h /\ A.futures = f /\ A.objects = objects
           /\ A \in AccountRecords
      BY <3>1, <3>20 DEF AccountRecords
    <3> QED
      BY <1>1, <3>21, <3>2 DEF Goal
  <2>5. CASE s.op = "GRANT" /\ g \in NotOwnership
    <3> DEFINE h == held \cup {g}
    <3>1. A = Rec(roles, ours, h, futures, objects, stale)
      BY <1>2, <2>5 DEF AccountAfter, GrantOf
    <3>2. OwnedOnce(h) /\ h \subseteq Held
      BY <1>1, <1>2, <2>5 DEF OwnedOnce, NotOwnership
    <3>3. g.on \in objects \cup {Account}
      BY <2>5 DEF IsLegal, GrantOf, Grant
    <3>20. roles \in SUBSET Roles /\ ours \in SUBSET Roles /\ h \in SUBSET Held
           /\ futures \in SUBSET Futures /\ objects \in SUBSET Objects /\ stale \in SUBSET Objects
      BY <1>1, <1>2, <3>1, <3>2, <3>3
    <3>21. /\ A.held = h /\ A.futures = futures /\ A.objects = objects
           /\ A \in AccountRecords
      BY <3>1, <3>20 DEF AccountRecords
    <3> QED
      BY <1>1, <3>21, <3>2, <3>3 DEF Goal
  <2>6. CASE s.op = "REVOKE"
    <3> DEFINE h == held \ {g}
    <3>1. A = Rec(roles, ours, h, futures, objects, stale)
      BY <1>2, <2>6 DEF AccountAfter, GrantOf
    <3>2. OwnedOnce(h) /\ h \subseteq held
      BY <1>1, FewerGrants
    <3> HIDE DEF h
    <3>20. roles \in SUBSET Roles /\ ours \in SUBSET Roles /\ h \in SUBSET Held
           /\ futures \in SUBSET Futures /\ objects \in SUBSET Objects /\ stale \in SUBSET Objects
      BY <1>1, <1>2, <3>1, <3>2
    <3>21. /\ A.held = h /\ A.futures = futures /\ A.objects = objects
           /\ A \in AccountRecords
      BY <3>1, <3>20 DEF AccountRecords
    <3> QED
      BY <1>1, <3>21, <3>2 DEF Goal
  <2>7. CASE s.op = "TRANSFER"
    <3> DEFINE h == held \ OwnedIn({s.on})
    <3>1. A = Rec(roles, ours, h, futures, objects, stale)
      BY <1>2, <2>7 DEF AccountAfter
    <3>2. OwnedOnce(h) /\ h \subseteq held
      BY <1>1, FewerGrants
    <3> HIDE DEF h
    <3>20. roles \in SUBSET Roles /\ ours \in SUBSET Roles /\ h \in SUBSET Held
           /\ futures \in SUBSET Futures /\ objects \in SUBSET Objects /\ stale \in SUBSET Objects
      BY <1>1, <1>2, <3>1, <3>2
    <3>21. /\ A.held = h /\ A.futures = futures /\ A.objects = objects
           /\ A \in AccountRecords
      BY <3>1, <3>20 DEF AccountRecords
    <3> QED
      BY <1>1, <3>21, <3>2 DEF Goal
  <2>8. CASE s.op = "GRANT_FUTURE" /\ g \in RoleFutures(n)
    <3> DEFINE f == futures \cup {g}
    <3>1. A = Rec(roles, ours, held, f, objects, stale)
      BY <1>2, <2>8 DEF AccountAfter, GrantOf
    <3>2. g \in Futures /\ g.role = s.role /\ g.privilege = s.privilege /\ g.on = s.on
      BY <1>1, <2>8, OwnGrants DEF GrantOf, Grant
    <3>3. ASSUME g.privilege = "OWNERSHIP", NEW x \in futures, x.privilege = "OWNERSHIP", x.on = g.on
          PROVE  x = g
      <4>1. x \in Futures
        BY <1>2
      <4>2. x = Grant(x.role, "OWNERSHIP", s.on) /\ g = Grant(s.role, "OWNERSHIP", s.on) /\ x.role \in Roles
        BY <3>2, <3>3, <4>1 DEF Futures, Grant
      <4>3. \A r \in Roles \ {s.role} : Grant(r, "OWNERSHIP", s.on) \notin futures
        BY <2>8, <3>2, <3>3 DEF IsLegal
      <4> QED
        BY <4>2, <4>3
    <3>4. OwnedOnce(f)
      BY <1>1, <3>3 DEF OwnedOnce
    <3> HIDE DEF f
    <3>20. roles \in SUBSET Roles /\ ours \in SUBSET Roles /\ held \in SUBSET Held
           /\ f \in SUBSET Futures /\ objects \in SUBSET Objects /\ stale \in SUBSET Objects
      BY <1>1, <1>2, <3>1, <3>2, <3>4 DEF f
    <3>21. /\ A.held = held /\ A.futures = f /\ A.objects = objects
           /\ A \in AccountRecords
      BY <3>1, <3>20 DEF AccountRecords
    <3> QED
      BY <1>1, <3>21, <3>2, <3>4 DEF Goal
  <2>9. CASE s.op = "REVOKE_FUTURE"
    <3> DEFINE f == futures \ {g}
    <3>1. A = Rec(roles, ours, held, f, objects, stale)
      BY <1>2, <2>9 DEF AccountAfter, GrantOf
    <3>2. OwnedOnce(f) /\ f \subseteq futures
      BY <1>1, FewerGrants
    <3> HIDE DEF f
    <3>20. roles \in SUBSET Roles /\ ours \in SUBSET Roles /\ held \in SUBSET Held
           /\ f \in SUBSET Futures /\ objects \in SUBSET Objects /\ stale \in SUBSET Objects
      BY <1>1, <1>2, <3>1, <3>2
    <3>21. /\ A.held = held /\ A.futures = f /\ A.objects = objects
           /\ A \in AccountRecords
      BY <3>1, <3>20 DEF AccountRecords
    <3> QED
      BY <1>1, <3>21, <3>2 DEF Goal
  <2>10. CASE s.op = "GRANT_ALL" /\ g \in RoleFutures(n)
    <3> DEFINE E == Existing(s.on)
               kept == held \ (IF s.privilege = "OWNERSHIP" THEN OwnedIn(E) ELSE {})
               new == {Grant(s.role, s.privilege, o) : o \in E}
               h == kept \cup new
    <3>1. A = Rec(roles, ours, h, futures, objects, stale)
      BY <1>2, <2>10 DEF AccountAfter
    <3>2. s.role \in Roles /\ s.privilege \in Privileges
      BY <1>1, <2>10, OwnGrants DEF GrantOf, Grant, Futures
    <3>3. E \subseteq objects
      BY DEF Existing
    <3>4. ASSUME NEW x \in new
          PROVE  x \in Held /\ x.on \in E /\ x = Grant(s.role, s.privilege, x.on)
                 /\ x.privilege = s.privilege
      BY <1>2, <3>2, <3>3 DEF Held, Grant
    <3>5. ASSUME NEW x \in kept, NEW y \in new, x.privilege = "OWNERSHIP", y.privilege = "OWNERSHIP",
                 x.on = y.on
          PROVE  FALSE
      <4>1. s.privilege = "OWNERSHIP" /\ y.on \in E /\ x \in held
        BY <3>4, <3>5
      <4>2. x \in OwnedIn(E)
        BY <3>5, <4>1 DEF OwnedIn, On
      <4> QED
        BY <3>5, <4>1, <4>2
    <3>6. OwnedOnce(kept) /\ kept \subseteq held
      BY <1>1, FewerGrants
    <3> HIDE DEF kept, new, E
    <3>7. OwnedOnce(h)
      BY <3>4, <3>5, <3>6 DEF OwnedOnce
    <3>20. roles \in SUBSET Roles /\ ours \in SUBSET Roles /\ h \in SUBSET Held
           /\ futures \in SUBSET Futures /\ objects \in SUBSET Objects /\ stale \in SUBSET Objects
      BY <1>1, <1>2, <3>1, <3>3, <3>4, <3>6, <3>7
    <3>21. /\ A.held = h /\ A.futures = futures /\ A.objects = objects
           /\ A \in AccountRecords
      BY <3>1, <3>20 DEF AccountRecords
    <3> QED
      BY <1>1, <3>21, <3>3, <3>4, <3>6, <3>7 DEF Goal
  <2> QED
    BY <2>1, <2>2, <2>3, <2>4, <2>5, <2>6, <2>7, <2>8, <2>9, <2>10
<1>5. CASE n \notin Roles
  <2> USE <1>5
  <2>1. /\ n \in Objects
        /\ \/ s.op \in {"CREATE", "DROP", "REPLACE"} /\ s.on = n
           \/ s.op = "GRANT" /\ g \in NotOwnership
           \/ s.op = "REVOKE_UNSAFE"
    BY OfObjects DEF NextStatements
  <2> DEFINE new == FutureGrantsOn(n)
  <2>2. new \subseteq Held /\ OwnedOnce(new) /\ \A x \in new : x.on = n
    <3>1. ASSUME NEW x \in new
          PROVE  /\ x \in Held /\ x.on = n
                 /\ \E f \in futures : f.on = TypeOf[n] /\ x = Grant(f.role, f.privilege, n)
      <4>1. PICK f \in futures : f.on = TypeOf[n] /\ x = Grant(f.role, f.privilege, n)
        BY DEF FutureGrantsOn
      <4>2. f \in Futures
        BY <1>2
      <4> QED
        BY <2>1, <4>1, <4>2 DEF Held, Futures, Grant
    <3>2. ASSUME NEW x \in new, NEW y \in new, x.privilege = "OWNERSHIP", y.privilege = "OWNERSHIP"
          PROVE  x = y
      <4>1. PICK f \in futures : f.on = TypeOf[n] /\ x = Grant(f.role, f.privilege, n)
        BY <3>1
      <4>2. PICK k \in futures : k.on = TypeOf[n] /\ y = Grant(k.role, k.privilege, n)
        BY <3>1
      <4>3. f.privilege = "OWNERSHIP" /\ k.privilege = "OWNERSHIP"
        BY <3>2, <4>1, <4>2 DEF Grant
      <4>4. f = k
        BY <1>1, <4>1, <4>2, <4>3 DEF OwnedOnce
      <4> QED
        BY <4>1, <4>2, <4>4
    <3> QED
      BY <3>1, <3>2 DEF OwnedOnce
  <2>3. ASSUME NEW kept, kept \subseteq held, \A x \in kept : x.on # n
        PROVE  OwnedOnce(kept \cup new)
    <3>1. OwnedOnce(kept)
      BY <1>1, <2>3, FewerGrants
    <3> HIDE DEF new
    <3> QED
      BY <2>2, <2>3, <3>1 DEF OwnedOnce
  <2> HIDE DEF new
  <2>4. CASE s.op = "CREATE" /\ s.on = n
    <3> DEFINE h == held \cup new
    <3>1. A = Rec(roles, ours, h, futures, objects \cup {n}, stale)
      BY <1>2, <2>4 DEF AccountAfter, new
    <3>2. n \notin objects
      BY <2>4 DEF IsLegal
    <3>3. n # Account
      BY <2>1, Names
    <3>4. OwnedOnce(h)
      BY <1>1, <2>3, <3>2, <3>3
    <3>5. \A x \in h : x.on \in objects \cup {n} \cup {Account}
      BY <1>1, <2>2
    <3> HIDE DEF h
    <3>20. roles \in SUBSET Roles /\ ours \in SUBSET Roles /\ h \in SUBSET Held
           /\ futures \in SUBSET Futures /\ objects \cup {n} \in SUBSET Objects /\ stale \in SUBSET Objects
      BY <1>1, <1>2, <2>1, <2>2, <3>1, <3>4, <3>5 DEF h
    <3>21. /\ A.held = h /\ A.futures = futures /\ A.objects = objects \cup {n}
           /\ A \in AccountRecords
      BY <3>1, <3>20 DEF AccountRecords
    <3> QED
      BY <1>1, <3>21, <3>4, <3>5 DEF Goal
  <2>5. CASE s.op = "REPLACE" /\ s.on = n
    <3> DEFINE h == (held \ On({n})) \cup new
    <3>1. A = Rec(roles, ours, h, futures, objects, stale \ {n})
      BY <1>2, <2>5 DEF AccountAfter, new
    <3>2. n \in objects
      BY <2>5 DEF IsLegal
    <3>3. OwnedOnce(h)
      BY <2>3 DEF On
    <3>4. \A x \in h : x.on \in objects \cup {Account}
      BY <1>1, <2>2, <3>2
    <3>5. h \subseteq Held
      BY <1>2, <2>2
    <3> HIDE DEF h
    <3>20. roles \in SUBSET Roles /\ ours \in SUBSET Roles /\ h \in SUBSET Held
           /\ futures \in SUBSET Futures /\ objects \in SUBSET Objects /\ stale \ {n} \in SUBSET Objects
      BY <1>1, <1>2, <3>1, <3>3, <3>4, <3>5
    <3>21. /\ A.held = h /\ A.futures = futures /\ A.objects = objects
           /\ A \in AccountRecords
      BY <3>1, <3>20 DEF AccountRecords
    <3> QED
      BY <1>1, <3>21, <3>3, <3>4, <3>5 DEF Goal
  <2>6. CASE s.op = "DROP" /\ s.on = n
    <3> DEFINE h == held \ On({n})
    <3>1. A = Rec(roles, ours, h, futures, objects \ {n}, stale \ {n})
      BY <1>2, <2>6 DEF AccountAfter
    <3>2. OwnedOnce(h) /\ h \subseteq held
      BY <1>1, FewerGrants
    <3>3. \A x \in h : x.on \in (objects \ {n}) \cup {Account}
      BY <1>1 DEF On
    <3> HIDE DEF h
    <3>20. roles \in SUBSET Roles /\ ours \in SUBSET Roles /\ h \in SUBSET Held
           /\ futures \in SUBSET Futures /\ objects \ {n} \in SUBSET Objects /\ stale \ {n} \in SUBSET Objects
      BY <1>1, <1>2, <3>1, <3>2, <3>3
    <3>21. /\ A.held = h /\ A.futures = futures /\ A.objects = objects \ {n}
           /\ A \in AccountRecords
      BY <3>1, <3>20 DEF AccountRecords
    <3> QED
      BY <1>1, <3>21, <3>2, <3>3 DEF Goal
  <2>7. CASE s.op = "GRANT" /\ g \in NotOwnership
    <3> DEFINE h == held \cup {g}
    <3>1. A = Rec(roles, ours, h, futures, objects, stale)
      BY <1>2, <2>7 DEF AccountAfter, GrantOf
    <3>2. OwnedOnce(h) /\ h \subseteq Held
      BY <1>1, <1>2, <2>7 DEF OwnedOnce, NotOwnership
    <3>3. g.on \in objects \cup {Account}
      BY <2>7 DEF IsLegal, GrantOf, Grant
    <3>20. roles \in SUBSET Roles /\ ours \in SUBSET Roles /\ h \in SUBSET Held
           /\ futures \in SUBSET Futures /\ objects \in SUBSET Objects /\ stale \in SUBSET Objects
      BY <1>1, <1>2, <3>1, <3>2, <3>3
    <3>21. /\ A.held = h /\ A.futures = futures /\ A.objects = objects
           /\ A \in AccountRecords
      BY <3>1, <3>20 DEF AccountRecords
    <3> QED
      BY <1>1, <3>21, <3>2, <3>3 DEF Goal
  <2>8. CASE s.op = "REVOKE_UNSAFE"
    <3> DEFINE h == held \ {g}
    <3>1. A = Rec(roles, ours, h, futures, objects, stale)
      BY <1>2, <2>8 DEF AccountAfter, GrantOf
    <3>2. OwnedOnce(h) /\ h \subseteq held
      BY <1>1, FewerGrants
    <3> HIDE DEF h
    <3>20. roles \in SUBSET Roles /\ ours \in SUBSET Roles /\ h \in SUBSET Held
           /\ futures \in SUBSET Futures /\ objects \in SUBSET Objects /\ stale \in SUBSET Objects
      BY <1>1, <1>2, <3>1, <3>2
    <3>21. /\ A.held = h /\ A.futures = futures /\ A.objects = objects
           /\ A \in AccountRecords
      BY <3>1, <3>20 DEF AccountRecords
    <3> QED
      BY <1>1, <3>21, <3>2 DEF Goal
  <2> QED
    BY <2>1, <2>4, <2>5, <2>6, <2>7, <2>8
<1> QED
  BY <1>4, <1>5 DEF Goal

\* What a statement takes away.
LEMMA WhatIsLost ==
  ASSUME scenario \in Scenarios, account \in AccountRecords, NEW n \in Roles \cup Objects,
         NEW s \in NextStatements(n), s.op # "SHOW_GRANTS",
         NEW h \in account.held, h \notin AccountAfter(s).held
  PROVE  \/ n \in Roles /\ n \notin config.roles /\ h.role = n
         \/ s.op = "REVOKE" /\ h = GrantOf(s) /\ h \in NotGiven(n)
         \/ s.op = "REVOKE_UNSAFE" /\ h = GrantOf(s) /\ h \in Revocable(n)
         \/ s.op = "TRANSFER" /\ h \in OwnedIn({s.on})
         \/ s.op \in {"REPLACE", "DROP"} /\ n \in Objects /\ s.on = n /\ h.on = n
         \/ /\ s.op = "GRANT_ALL" /\ GrantOf(s) \in RoleFutures(n) /\ s.privilege = "OWNERSHIP"
            /\ h \in OwnedIn(Existing(s.on)) /\ h.role # n
<1> DEFINE g == GrantOf(s)
<1>1. account = [roles |-> account.roles, ours |-> account.ours, held |-> account.held,
                 futures |-> account.futures, objects |-> account.objects,
                 stale |-> account.stale] /\ account.held \subseteq Held
  BY DEF AccountRecords
<1>2. CASE n \in Roles
  <2>1. \/ s.op \in {"CREATE_ROLE", "GRANT_ROLE"} /\ s.role = n
        \/ s.op = "DROP_ROLE" /\ s.role = n /\ n \notin config.roles
        \/ s.op = "GRANT" /\ g \in NotOwnership
        \/ s.op = "REVOKE" /\ g \in NotGiven(n)
        \/ s.op = "TRANSFER" /\ g \in NotGiven(n) \ NotOwnership
        \/ s.op \in {"GRANT_FUTURE", "GRANT_ALL"} /\ g \in RoleFutures(n)
        \/ s.op = "REVOKE_FUTURE" /\ g \in Futures
    BY <1>2, OfRoles DEF NextStatements
  <2>2. CASE s.op \in {"CREATE_ROLE", "GRANT_ROLE", "GRANT", "GRANT_FUTURE", "REVOKE_FUTURE"}
    BY <1>1, <2>2 DEF AccountAfter
  <2>3. CASE s.op = "DROP_ROLE"
    <3>1. AccountAfter(s).held = account.held \ OfRole(account.held, s.role)
      BY <1>1, <2>3 DEF AccountAfter
    <3> QED
      BY <1>2, <2>1, <2>3, <3>1 DEF OfRole
  <2>4. CASE s.op = "REVOKE"
    <3>1. AccountAfter(s).held = account.held \ {g}
      BY <1>1, <2>4 DEF AccountAfter, GrantOf
    <3> QED
      BY <2>1, <2>4, <3>1
  <2>5. CASE s.op = "TRANSFER"
    <3>1. AccountAfter(s).held = account.held \ OwnedIn({s.on})
      BY <1>1, <2>5 DEF AccountAfter
    <3> QED
      BY <2>5, <3>1
  <2>6. CASE s.op = "GRANT_ALL"
    <3> DEFINE E == Existing(s.on)
               new == {Grant(s.role, s.privilege, o) : o \in E}
    <3>1. AccountAfter(s).held = (account.held \ (IF s.privilege = "OWNERSHIP" THEN OwnedIn(E) ELSE {})) \cup new
      BY <1>1, <2>6 DEF AccountAfter
    <3>2. s.privilege = "OWNERSHIP" /\ h \in OwnedIn(E) /\ h \notin new
      BY <3>1
    <3>3. h.on \in E /\ h.privilege = "OWNERSHIP"
      BY <3>2 DEF OwnedIn, On
    <3>4. h = Grant(h.role, h.privilege, h.on)
      BY <1>1 DEF Held, Grant
    <3>5. h.role # s.role
      BY <3>2, <3>3, <3>4
    <3>6. g.role = n /\ g.role = s.role
      BY <2>1, <2>6 DEF RoleFutures, OfRole, GrantOf, Grant
    <3> QED
      BY <2>1, <2>6, <3>2, <3>5, <3>6
  <2> QED
    BY <2>1, <2>2, <2>3, <2>4, <2>5, <2>6
<1>3. CASE n \notin Roles
  <2>1. n \in Objects
    BY <1>3
  <2>2. \/ s.op \in {"CREATE", "DROP", "REPLACE"} /\ s.on = n
        \/ s.op = "GRANT" /\ g \in NotOwnership
        \/ s.op = "REVOKE_UNSAFE" /\ g \in Revocable(n)
    BY <1>3, <2>1, OfObjects DEF NextStatements
  <2>3. CASE s.op \in {"CREATE", "GRANT"}
    BY <1>1, <2>3 DEF AccountAfter
  <2>4. CASE s.op = "REPLACE"
    <3>1. AccountAfter(s).held = (account.held \ On({s.on})) \cup FutureGrantsOn(s.on)
      BY <1>1, <2>4 DEF AccountAfter
    <3> QED
      BY <2>1, <2>2, <2>4, <3>1 DEF On
  <2>5. CASE s.op = "DROP"
    <3>1. AccountAfter(s).held = account.held \ On({s.on})
      BY <1>1, <2>5 DEF AccountAfter
    <3> QED
      BY <2>1, <2>2, <2>5, <3>1 DEF On
  <2>6. CASE s.op = "REVOKE_UNSAFE"
    <3>1. AccountAfter(s).held = account.held \ {g}
      BY <1>1, <2>6 DEF AccountAfter, GrantOf
    <3> QED
      BY <2>2, <2>6, <3>1
  <2> QED
    BY <2>2, <2>3, <2>4, <2>5, <2>6
<1> QED
  BY <1>2, <1>3

\* Who may come to own what, by a role's statement.
LEMMA NewOwners ==
  ASSUME scenario \in Scenarios, account \in AccountRecords, NEW n \in Roles,
         NEW s \in RoleStatements(n, Held),
         NEW h \in AccountAfter(s).held, h \notin account.held, h.privilege = "OWNERSHIP"
  PROVE  /\ h.on \in Objects
         /\ Grant(n, "OWNERSHIP", TypeOf[h.on]) \in RoleFutures(n)
<1> DEFINE g == GrantOf(s)
<1>1. account = [roles |-> account.roles, ours |-> account.ours, held |-> account.held,
                 futures |-> account.futures, objects |-> account.objects,
                 stale |-> account.stale] /\ account.objects \subseteq Objects
  BY DEF AccountRecords
<1>2. \/ s.op \in {"CREATE_ROLE", "GRANT_ROLE"} /\ s.role = n
      \/ s.op = "DROP_ROLE" /\ s.role = n /\ n \notin config.roles
      \/ s.op = "GRANT" /\ g \in NotOwnership
      \/ s.op = "REVOKE" /\ g \in NotGiven(n)
      \/ s.op = "TRANSFER" /\ g \in NotGiven(n) \ NotOwnership
      \/ s.op \in {"GRANT_FUTURE", "GRANT_ALL"} /\ g \in RoleFutures(n)
      \/ s.op = "REVOKE_FUTURE" /\ g \in Futures
  BY OfRoles
<1>3. CASE s.op = "GRANT"
  <2>1. AccountAfter(s).held = account.held \cup {g}
    BY <1>1, <1>3 DEF AccountAfter, GrantOf
  <2> QED
    BY <1>2, <1>3, <2>1 DEF NotOwnership
<1>4. CASE s.op = "GRANT_ALL"
  <2>1. h \in {Grant(s.role, s.privilege, o) : o \in Existing(s.on)}
    BY <1>1, <1>4 DEF AccountAfter
  <2>2. PICK o \in account.objects : TypeOf[o] = s.on /\ h = Grant(s.role, s.privilege, o)
    BY <2>1 DEF Existing
  <2>3. h.on = o /\ s.privilege = "OWNERSHIP"
    BY <2>2 DEF Grant
  <2>4. g.role = n /\ g = Grant(s.role, s.privilege, s.on) /\ g.role = s.role /\ g \in RoleFutures(n)
    BY <1>2, <1>4 DEF RoleFutures, OfRole, GrantOf, Grant
  <2> QED
    BY <1>1, <2>2, <2>3, <2>4
<1>5. CASE s.op \notin {"GRANT", "GRANT_ALL"}
  <2>1. AccountAfter(s).held \subseteq account.held
    BY <1>1, <1>2, <1>5 DEF AccountAfter
  <2> QED
    BY <2>1
<1> QED
  BY <1>3, <1>4, <1>5

\* The statements of a name depend on the scenario only.
LEMMA SameStatements ==
  ASSUME UNCHANGED scenario
  PROVE  /\ \A r : RoleFutures(r)' = RoleFutures(r) /\ NotGiven(r)' = NotGiven(r)
         /\ \A r, owned : RoleStatements(r, owned)' = RoleStatements(r, owned)
         /\ \A o : ObjectStatements(o)' = ObjectStatements(o)
         /\ config' = config /\ (Compatible <=> Compatible')
<1>1. config' = config
  BY DEF config
<1>2. \A r, g : Gives(r, g)' <=> Gives(r, g)
  BY <1>1 DEF Gives
<1>3. \A r : RoleFutures(r)' = RoleFutures(r) /\ NotGiven(r)' = NotGiven(r)
  BY <1>1, <1>2 DEF RoleFutures, NotGiven
<1>4. \A r, owned : RoleStatements(r, owned)' = RoleStatements(r, owned)
  BY <1>1, <1>3 DEF RoleStatements
<1>5. Compatible <=> Compatible'
  BY <1>1, <1>2 DEF Compatible, NamedInOrder
<1>6. \A o : Revocable(o)' = Revocable(o)
  BY <1>1, <1>2, <1>5 DEF Revocable
<1>7. \A o : ObjectStatements(o)' = ObjectStatements(o)
  BY <1>1, <1>6 DEF ObjectStatements
<1> QED
  BY <1>1, <1>3, <1>4, <1>5, <1>7

-----------------------------------------------------------------------------
(* The workers keep the invariant.                                         *)

\* While there is a task, a resolver is running.
LEMMA WhileWorking ==
  ASSUME TypesFit, TasksFit, RowsFit, NEW n \in DOMAIN task
  PROVE  /\ pc \in {"drop", "create"} /\ idx \in 1..Len(Sequence)
         /\ DOMAIN task \subseteq Resolved /\ DOMAIN rows \subseteq Resolved
         /\ n \in Roles \cup Objects
<1>1. DOMAIN EmptyMap = {}
  BY DEF EmptyMap
<1>2. pc \in {"drop", "create"}
  BY <1>1 DEF TypesFit
<1> QED
  BY <1>2, Names DEF TypesFit, TasksFit, RowsFit

\* The next statement of a worker, and those after it.
LEMMA TheNext ==
  ASSUME TypesFit, TasksFit, RowsFit, NEW n, HasStatement(n)
  PROVE  /\ n \in DOMAIN task /\ n \in Roles \cup Objects
         /\ Head(task[n]) \in NextStatements(n) /\ Head(task[n]) \in Range(task[n])
         /\ IsSeq(task[n]) /\ IsSeq(Tail(task[n])) /\ Range(Tail(task[n])) \subseteq Range(task[n])
         /\ Tail(task[n]) \in Seq(LaterStatements(n))
         /\ Head(task[n]).op = "REPLACE" => n \in account.stale
         /\ pc = "drop" => /\ Head(task[n]) = DropOf(n)
                           /\ Tail(task[n]) \in Seq({DropOf(n)})
<1>1. n \in DOMAIN task /\ task[n] # <<>> /\ Fits(n)
  BY DEF HasStatement, TasksFit
<1>2. n \in Roles \cup Objects
  BY <1>1, WhileWorking
<1>3. task[n] \in Seq(NextStatements(n))
  BY <1>1 DEF Fits
<1>4. IsSeq(task[n]) /\ Head(task[n]) \in NextStatements(n)
  BY <1>1, <1>3, SeqWithin
<1>5. ASSUME pc = "drop" PROVE Head(task[n]) = DropOf(n) /\ Tail(task[n]) \in Seq({DropOf(n)})
  <2>1. task[n] \in Seq({DropOf(n)})
    BY <1>1, <1>5 DEF TasksFit
  <2> QED
    BY <1>1, <2>1
<1> QED
  BY <1>1, <1>2, <1>4, <1>5, HeadTail DEF Fits

\* A sequence for later may come next.
LEMMA LaterIsNext ==
  ASSUME NEW n, NEW q \in Seq(LaterStatements(n))
  PROVE  /\ q \in Seq(NextStatements(n))
         /\ q # <<>> => Tail(q) \in Seq(LaterStatements(n)) /\ Head(q) \in LaterStatements(n)
<1>1. LaterStatements(n) \subseteq NextStatements(n)
  BY DEF LaterStatements, NextStatements
<1>2. IsSeq(q) /\ Range(q) \subseteq LaterStatements(n)
  BY SeqWithin
<1> QED
  BY <1>1, <1>2, SeqIn

\* Nothing for later is a replacement.
LEMMA LaterDoesNotReplace ==
  ASSUME scenario \in Scenarios, NEW n \in Roles \cup Objects, NEW s \in LaterStatements(n)
  PROVE  s.op # "REPLACE"
<1>1. CASE n \in Roles
  <2>1. s \in RoleStatements(n, Held)
    BY <1>1 DEF LaterStatements
  <2> QED
    BY <1>1, <2>1, OfRoles
<1>2. CASE n \notin Roles
  <2>1. s \in ObjectStatements(n)
    BY <1>2 DEF LaterStatements
  <2>2. CASE s \in {ObjectStatement(op, n) : op \in {"CREATE", "DROP"}}
    BY <2>2 DEF ObjectStatement, Statement, Grant
  <2>3. CASE s \in {ObjectStatement("SHOW_GRANTS", p) : p \in {n} \cap config.objects}
    BY <2>3 DEF ObjectStatement, Statement, Grant
  <2>4. CASE s \in {Statement("GRANT", g) : g \in NotOwnership}
    BY <2>4 DEF Statement
  <2>5. CASE s \in {Statement("REVOKE_UNSAFE", g) : g \in Revocable(n)}
    BY <2>5 DEF Statement
  <2> QED
    BY <2>1, <2>2, <2>3, <2>4, <2>5 DEF ObjectStatements
<1> QED
  BY <1>1, <1>2

\* When one worker goes on, with statements for later, the tasks still fit.
LEMMA GoingOnFits ==
  ASSUME TypesFit, TasksFit, RowsFit, UNCHANGED << scenario, pc, idx >>,
         NEW n \in DOMAIN task, NEW q \in Seq(LaterStatements(n)), task' = [task EXCEPT ![n] = q],
         pc = "drop" => q \in Seq({DropOf(n)}),
         account.stale \ {n} \subseteq account'.stale
  PROVE  TasksFit'
<1>1. scenario \in Scenarios
  BY DEF TypesFit
<1>2. DOMAIN task' = DOMAIN task /\ task'[n] = q /\ \A m \in DOMAIN task \ {n} : task'[m] = task[m]
  OBVIOUS
<1>3. \A m : LaterStatements(m)' = LaterStatements(m) /\ NextStatements(m)' = NextStatements(m)
  BY SameStatements DEF LaterStatements, NextStatements
<1>4. Resolved' = Resolved /\ Declared' = Declared
  BY SameStatements DEF Resolved, Resolver, Declared
<1>5. n \in Roles \cup Objects
  BY WhileWorking
<1>6. Fits(n)'
  BY <1>1, <1>2, <1>3, <1>5, LaterIsNext, LaterDoesNotReplace DEF Fits
<1>7. ASSUME NEW m \in DOMAIN task \ {n} PROVE Fits(m)'
  <2>1. Fits(m)
    BY DEF TasksFit
  <2> QED
    BY <1>2, <1>3, <2>1 DEF Fits
<1>8. ASSUME pc = "drop", NEW m \in DOMAIN task PROVE task'[m] \in Seq({DropOf(m)})
  BY <1>2, <1>8 DEF TasksFit
<1> QED
  BY <1>2, <1>4, <1>6, <1>7, <1>8 DEF TasksFit, DropOf

\* Only roles give ownership away, and only of what they are not given.
LEMMA WhoTransfers ==
  ASSUME scenario \in Scenarios, NEW n \in Roles \cup Objects, NEW s \in NextStatements(n),
         s.op = "TRANSFER"
  PROVE  n \in Roles /\ Grant(n, "OWNERSHIP", s.on) \in NotGiven(n)
<1>1. CASE n \in Roles
  <2>1. GrantOf(s) \in NotGiven(n) \ NotOwnership
    BY <1>1, OfRoles DEF NextStatements
  <2>2. GrantOf(s).role = n /\ GrantOf(s).privilege = "OWNERSHIP"
    BY <2>1 DEF NotGiven, NotOwnership
  <2>3. GrantOf(s) = Grant(n, "OWNERSHIP", s.on)
    BY <2>2 DEF GrantOf, Grant
  <2> QED
    BY <1>1, <2>1, <2>3
<1>2. CASE n \notin Roles
  BY <1>2, OfObjects DEF NextStatements
<1> QED
  BY <1>1, <1>2

\* When one worker goes on and owners do not change, or change by its role's
\* statement, ownership that others give away is still theirs.
LEMMA GoingOnTransfers ==
  ASSUME KeepInv, UNCHANGED scenario,
         NEW n \in DOMAIN task, NEW q, task' = [task EXCEPT ![n] = q],
         \A s \in Range(q) : s.op = "TRANSFER" => s \in Range(task[n]),
         \A h \in account'.held \ account.held : h.privilege = "OWNERSHIP" /\ n \in Roles =>
           h.on \in Objects /\ Grant(n, "OWNERSHIP", TypeOf[h.on]) \in RoleFutures(n)
  PROVE  TransfersFit'
<1>1. scenario \in Scenarios /\ TypesFit /\ TasksFit /\ RowsFit /\ TransfersFit
  BY DEF TypesFit, KeepInv
<1>2. DOMAIN task' = DOMAIN task /\ task'[n] = q /\ \A m \in DOMAIN task \ {n} : task'[m] = task[m]
  OBVIOUS
<1>3. ASSUME NEW m \in DOMAIN task', NEW s \in Range(task'[m]), s.op = "TRANSFER",
             NEW h \in OwnedIn({s.on})'
      PROVE  h = Grant(m, "OWNERSHIP", s.on)
  <2>1. m \in DOMAIN task /\ s \in Range(task[m])
    BY <1>2, <1>3
  <2>2. OwnedIn({s.on}) \subseteq {Grant(m, "OWNERSHIP", s.on)}
    BY <1>1, <1>3, <2>1 DEF TransfersFit
  <2>3. h \in account'.held /\ h.privilege = "OWNERSHIP" /\ h.on = s.on
    BY <1>3 DEF OwnedIn, On
  <2>4. CASE h \in account.held
    BY <2>2, <2>3, <2>4 DEF OwnedIn, On
  <2>5. CASE h \notin account.held
    <3>1. m \in Roles \cup Objects /\ m \in Resolved /\ n \in Resolved
      BY <1>1, <2>1, WhileWorking
    <3>2. s \in NextStatements(m)
      <4>1. task[m] \in Seq(NextStatements(m))
        BY <1>1, <2>1 DEF TasksFit, Fits
      <4> QED
        BY <2>1, <4>1, SeqWithin
    <3>3. m \in Roles /\ Grant(m, "OWNERSHIP", s.on) \in NotGiven(m)
      BY <1>1, <1>3, <3>1, <3>2, WhoTransfers
    <3>4. n \in Roles
      BY <3>1, <3>3, OneKind, Names
    <3>5. h.on \in Objects /\ Grant(n, "OWNERSHIP", TypeOf[h.on]) \in RoleFutures(n)
      BY <2>3, <2>5, <3>4
    <3> DEFINE f == Grant(n, "OWNERSHIP", TypeOf[h.on])
    <3>6. f \in config.futures /\ f.role = n /\ f.privilege = "OWNERSHIP" /\ f.on = TypeOf[h.on]
      BY <3>5 DEF RoleFutures, OfRole, Grant
    <3>7. RoleResolver[m] = Resolver /\ RoleResolver[n] = Resolver
      BY <3>1, <3>3, <3>4, Names DEF Resolved
    <3>8. m = n
      BY <1>1, <3>3, <3>6, <3>7, ConfigIsSound
    <3>9. Gives(m, Grant(m, "OWNERSHIP", s.on))
      BY <2>3, <3>5, <3>6, <3>8 DEF Gives, Grant
    <3> QED
      BY <3>3, <3>9 DEF NotGiven
  <2> QED
    BY <2>4, <2>5
<1> QED
  BY <1>3 DEF TransfersFit

\* A worker that goes on without touching the account.
LEMMA QuietWork ==
  ASSUME KeepInv, UNCHANGED << scenario, account, pc, idx, rows >>,
         NEW n \in DOMAIN task, NEW q \in Seq(LaterStatements(n)), task' = [task EXCEPT ![n] = q],
         pc = "drop" => q \in Seq({DropOf(n)}),
         \A s \in Range(q) : s.op = "TRANSFER" => s \in Range(task[n])
  PROVE  KeepInv'
<1>1. TypesFit /\ AccountFits /\ TasksFit /\ RowsFit /\ TransfersFit
  BY DEF KeepInv
<1>2. pc \in {"drop", "create"}
  BY <1>1, WhileWorking
<1>3. TypesFit'
  BY <1>1, <1>2 DEF TypesFit
<1>4. AccountFits'
  BY <1>1 DEF AccountFits, OwnedOnce
<1>5. TasksFit'
  BY <1>1, GoingOnFits
<1>6. RowsFit'
  BY <1>1 DEF RowsFit, Resolved, Resolver, OwnedIn, On
<1>7. TransfersFit'
  BY GoingOnTransfers
<1> QED
  BY <1>3, <1>4, <1>5, <1>6, <1>7 DEF KeepInv

\* A statement is suggested.
LEMMA SuggestKeeps == ASSUME KeepInv, NEW n, Suggest(n) PROVE KeepInv'
<1> DEFINE q == Tail(task[n])
<1>1. HasStatement(n) /\ task' = [task EXCEPT ![n] = q] /\ UNCHANGED << scenario, account, pc, idx, rows >>
  BY DEF Suggest, Advance
<1>2. TypesFit /\ TasksFit /\ RowsFit
  BY DEF KeepInv
<1>3. /\ n \in DOMAIN task /\ q \in Seq(LaterStatements(n)) /\ Range(q) \subseteq Range(task[n])
      /\ pc = "drop" => q \in Seq({DropOf(n)})
  BY <1>1, <1>2, TheNext
<1> HIDE DEF q
<1> QED
  BY <1>1, <1>3, QuietWork

\* A statement fails.
LEMMA RaiseKeeps == ASSUME KeepInv, NEW n, Raise(n) PROVE KeepInv'
<1>1. HasStatement(n) /\ task' = [task EXCEPT ![n] = <<>>] /\ UNCHANGED << scenario, account, pc, idx, rows >>
  BY DEF Raise
<1>2. TypesFit /\ TasksFit /\ RowsFit
  BY DEF KeepInv
<1>3. n \in DOMAIN task
  BY <1>1, <1>2, TheNext
<1>4. <<>> \in Seq(LaterStatements(n)) /\ <<>> \in Seq({DropOf(n)}) /\ Range(<<>>) = {}
  BY EmptyIsSeq
<1> QED
  BY <1>1, <1>3, <1>4, QuietWork

\* Grantees are read.
LEMMA ReadGrantsKeeps == ASSUME KeepInv, NEW n, ReadGrants(n) PROVE KeepInv'
<1> DEFINE p == Reconcile(n, LiveGrantees(n))
           q == p \o Tail(task[n])
<1>1. /\ HasStatement(n) /\ Head(task[n]).op = "SHOW_GRANTS" /\ task' = [task EXCEPT ![n] = q]
      /\ UNCHANGED << scenario, account, pc, idx, rows >>
  BY DEF ReadGrants
<1>2. TypesFit /\ TasksFit /\ RowsFit /\ scenario \in Scenarios
  BY DEF KeepInv, TypesFit
<1>3. /\ n \in DOMAIN task /\ n \in Roles \cup Objects
      /\ Tail(task[n]) \in Seq(LaterStatements(n)) /\ Range(Tail(task[n])) \subseteq Range(task[n])
      /\ Head(task[n]) \in NextStatements(n) /\ IsSeq(Tail(task[n]))
      /\ pc = "drop" => Head(task[n]) = DropOf(n)
  BY <1>1, <1>2, TheNext
<1>4. n \notin Roles
  <2>1. ASSUME n \in Roles PROVE FALSE
    <3>1. Head(task[n]) \in RoleStatements(n, Held)
      BY <1>3, <2>1 DEF NextStatements
    <3> QED
      BY <1>1, <1>2, <2>1, <3>1, OfRoles
  <2> QED
    BY <2>1
<1>5. n \in config.objects
  BY <1>1, <1>3, <1>4, OfObjects DEF NextStatements
<1>6. pc # "drop"
  <2>1. DropOf(n).op = "DROP"
    BY <1>4 DEF DropOf, ObjectStatement, Statement, Grant
  <2> QED
    BY <1>1, <1>3, <2>1
<1>7. p \in Seq(ObjectStatements(n))
  BY <1>2, <1>5, ReconcileFits, Grantees
<1>8. q \in Seq(LaterStatements(n))
  BY <1>3, <1>4, <1>7 DEF LaterStatements
<1>9. ASSUME NEW s \in Range(q), s.op = "TRANSFER" PROVE s \in Range(task[n])
  <2>1. IsSeq(p) /\ Range(p) \subseteq ObjectStatements(n)
    BY <1>7, SeqWithin
  <2>2. s \in Range(p) \cup Range(Tail(task[n]))
    BY <1>3, <2>1, JoinIsSeq
  <2>3. n \in Objects
    BY <1>3, <1>4
  <2>4. s \notin ObjectStatements(n)
    BY <1>9, <2>3, OfObjects
  <2> QED
    BY <1>3, <2>1, <2>2, <2>4
<1> HIDE DEF q
<1> QED
  BY <1>1, <1>3, <1>6, <1>8, <1>9, QuietWork

\* What is stale stays so until its own worker replaces or drops it.
LEMMA StaleStays ==
  ASSUME scenario \in Scenarios, account \in AccountRecords,
         NEW n \in Roles \cup Objects, NEW s \in NextStatements(n), s.op # "SHOW_GRANTS"
  PROVE  account.stale \ {n} \subseteq AccountAfter(s).stale
<1>1. account = [roles |-> account.roles, ours |-> account.ours, held |-> account.held,
                 futures |-> account.futures, objects |-> account.objects,
                 stale |-> account.stale]
  BY DEF AccountRecords
<1>2. CASE n \in Roles
  <2>1. \/ s.op \in {"CREATE_ROLE", "GRANT_ROLE", "DROP_ROLE", "GRANT", "REVOKE", "TRANSFER"}
        \/ s.op \in {"GRANT_FUTURE", "GRANT_ALL", "REVOKE_FUTURE"}
    BY <1>2, OfRoles DEF NextStatements
  <2>2. AccountAfter(s).stale = account.stale
    BY <1>1, <2>1 DEF AccountAfter
  <2> QED
    BY <2>2
<1>3. CASE n \notin Roles
  <2>1. \/ s.op \in {"CREATE", "GRANT", "REVOKE_UNSAFE"}
        \/ s.op \in {"REPLACE", "DROP"} /\ s.on = n
    BY <1>3, OfObjects DEF NextStatements
  <2>2. AccountAfter(s).stale = account.stale \/ AccountAfter(s).stale = account.stale \ {n}
    BY <1>1, <2>1 DEF AccountAfter
  <2> QED
    BY <2>2
<1> QED
  BY <1>2, <1>3

\* A statement of the drop phase takes only.
LEMMA DropsTake ==
  ASSUME account \in AccountRecords, NEW n \in Roles \cup Objects
  PROVE  AccountAfter(DropOf(n)).held \subseteq account.held
<1>1. account = [roles |-> account.roles, ours |-> account.ours, held |-> account.held,
                 futures |-> account.futures, objects |-> account.objects,
                 stale |-> account.stale]
  BY DEF AccountRecords
<1> QED
  BY <1>1 DEF AccountAfter, DropOf, RoleStatement, ObjectStatement, Statement, Grant

\* A statement is executed.
LEMMA ExecuteKeeps == ASSUME KeepInv, NEW n, Execute(n) PROVE KeepInv'
<1> DEFINE s == Head(task[n])
           q == Tail(task[n])
<1>1. /\ HasStatement(n) /\ s.op # "SHOW_GRANTS" /\ IsLegal(s)
      /\ account' = AccountAfter(s) /\ task' = [task EXCEPT ![n] = q]
      /\ UNCHANGED << scenario, pc, idx, rows >>
  BY DEF Execute, Advance, IsDDL
<1>2. /\ TypesFit /\ AccountFits /\ TasksFit /\ RowsFit /\ TransfersFit
      /\ scenario \in Scenarios /\ account \in AccountRecords
  BY DEF KeepInv, TypesFit
<1>3. /\ n \in DOMAIN task /\ n \in Roles \cup Objects /\ s \in NextStatements(n)
      /\ q \in Seq(LaterStatements(n)) /\ Range(q) \subseteq Range(task[n])
      /\ pc = "drop" => s = DropOf(n) /\ q \in Seq({DropOf(n)})
  BY <1>1, <1>2, TheNext
<1>4. pc \in {"drop", "create"}
  BY <1>2, <1>3, WhileWorking
<1> HIDE DEF s, q
<1>5. /\ account' \in AccountRecords /\ OwnedOnce(account'.held) /\ OwnedOnce(account'.futures)
      /\ \A h \in account'.held : h.on \in account'.objects \cup {Account}
  BY <1>1, <1>2, <1>3, AccountStaysFit
<1>6. TypesFit'
  BY <1>1, <1>2, <1>4, <1>5 DEF TypesFit
<1>7. AccountFits'
  BY <1>5 DEF AccountFits, OwnedOnce
<1>8. TasksFit'
  <2>1. account.stale \ {n} \subseteq account'.stale
    BY <1>1, <1>2, <1>3, StaleStays
  <2> QED
    BY <1>1, <1>2, <1>3, <2>1, GoingOnFits
<1>9. RowsFit'
  <2>1. ASSUME pc = "drop" PROVE account'.held \subseteq account.held
    BY <1>1, <1>2, <1>3, <2>1, DropsTake
  <2>2. ASSUME pc = "drop", NEW x PROVE OwnedIn({x})' \subseteq OwnedIn({x})
    BY <2>1, <2>2 DEF OwnedIn, On
  <2>3. Resolved' = Resolved
    BY <1>1 DEF Resolved, Resolver
  <2>4. ASSUME pc = "drop", NEW r \in DOMAIN rows, NEW g \in rows[r].held, g.privilege = "OWNERSHIP"
        PROVE  OwnedIn({g.on})' \subseteq {g}
    <3>1. OwnedIn({g.on}) \subseteq {g}
      BY <1>2, <2>4 DEF RowsFit
    <3>2. OwnedIn({g.on})' \subseteq OwnedIn({g.on})
      BY <2>2, <2>4
    <3> QED
      BY <3>1, <3>2
  <2> QED
    BY <1>1, <1>2, <2>3, <2>4 DEF RowsFit
<1>10. TransfersFit'
  <2>1. ASSUME NEW h \in account'.held \ account.held, h.privilege = "OWNERSHIP", n \in Roles
        PROVE  h.on \in Objects /\ Grant(n, "OWNERSHIP", TypeOf[h.on]) \in RoleFutures(n)
    <3>1. s \in RoleStatements(n, Held)
      BY <1>3, <2>1 DEF NextStatements
    <3> QED
      BY <1>1, <1>2, <2>1, <3>1, NewOwners
  <2> QED
    BY <1>1, <1>3, <2>1, GoingOnTransfers
<1> QED
  BY <1>6, <1>7, <1>8, <1>9, <1>10 DEF KeepInv

-----------------------------------------------------------------------------
(* The main thread keeps the invariant.                                    *)

\* Without tasks and rows there is little to say.
LEMMA NothingUnderWay ==
  ASSUME TypesFit', AccountFits, UNCHANGED account, task' = EmptyMap, rows' = EmptyMap
  PROVE  KeepInv'
<1>1. DOMAIN task' = {} /\ DOMAIN rows' = {}
  BY DEF EmptyMap
<1>2. AccountFits'
  BY DEF AccountFits, OwnedOnce
<1> QED
  BY <1>1, <1>2 DEF KeepInv, TasksFit, RowsFit, TransfersFit

\* Init
LEMMA InitKeeps == Init => KeepInv
<1> SUFFICES ASSUME Init PROVE KeepInv
  OBVIOUS
<1>1. /\ scenario \in Scenarios /\ account = scenario.account /\ pc = "start" /\ idx = 1
      /\ task = EmptyMap /\ rows = EmptyMap /\ DOMAIN EmptyMap = {}
  BY DEF Init, EmptyMap
<1>2. TypesFit
  BY <1>1, ConfigIsSound DEF TypesFit
<1>3. OwnedOnce(account.held) /\ OwnedOnce(account.futures)
  BY <1>1, ScenarioAssumption
<1>4. \A h \in account.held : h.on \in account.objects \cup {Account}
  BY <1>1, ScenarioAssumption
<1>5. AccountFits
  BY <1>3, <1>4 DEF AccountFits
<1> QED
  BY <1>1, <1>2, <1>5 DEF KeepInv, TasksFit, RowsFit, TransfersFit

\* An invocation, or a resolver, ends, or the invocation starts, or is killed.
LEMMA EndsKeep ==
  ASSUME KeepInv, Start \/ Finish \/ Exit \/ Crash
  PROVE  KeepInv'
<1>1. TypesFit /\ AccountFits
  BY DEF KeepInv
<1>2. UNCHANGED << scenario, account >>
  BY DEF Start, Finish, Exit, Crash
<1>3. CASE Start
  <2>1. task' = EmptyMap /\ rows' = EmptyMap
    BY <1>1, <1>3 DEF Start, TypesFit
  <2>2. TypesFit'
    BY <1>1, <1>2, <1>3, <2>1 DEF Start, TypesFit, EmptyMap
  <2> QED
    BY <1>1, <1>2, <2>1, <2>2, NothingUnderWay
<1>4. CASE Finish
  <2>1. task' = EmptyMap /\ rows' = EmptyMap
    BY <1>4 DEF Finish
  <2>2. TypesFit'
    BY <1>1, <1>2, <1>4, <2>1 DEF Finish, TypesFit, EmptyMap
  <2> QED
    BY <1>1, <1>2, <2>1, <2>2, NothingUnderWay
<1>5. CASE Exit
  <2>1. task' = EmptyMap /\ rows' = EmptyMap
    BY <1>1, <1>5 DEF Exit, TypesFit
  <2>2. TypesFit'
    BY <1>1, <1>2, <1>5, <2>1 DEF Exit, Record, TypesFit, EmptyMap
  <2> QED
    BY <1>1, <1>2, <2>1, <2>2, NothingUnderWay
<1>6. CASE Crash
  <2>1. task' = EmptyMap /\ rows' = EmptyMap
    BY <1>6 DEF Crash
  <2>2. TypesFit'
    BY <1>1, <1>2, <1>6, <2>1 DEF Crash, Record, TypesFit, EmptyMap
  <2> QED
    BY <1>1, <1>2, <2>1, <2>2, NothingUnderWay
<1> QED
  BY <1>3, <1>4, <1>5, <1>6

\* The drop phase begins.
LEMMA BeginKeeps == ASSUME KeepInv, Begin PROVE KeepInv'
<1>1. TypesFit /\ AccountFits /\ scenario \in Scenarios /\ account \in AccountRecords
  BY DEF KeepInv, TypesFit
<1>2. /\ UNCHANGED << scenario, account, idx >> /\ pc' = "drop" /\ idx <= Len(Sequence)
      /\ rows' = ExistingRows /\ task' = [n \in DOMAIN rows' \ Declared |-> <<DropOf(n)>>]
  BY DEF Begin, DropName, DropOf
<1>3. Resolved' = Resolved /\ Declared' = Declared
  BY <1>2 DEF Resolved, Resolver, Declared, config
<1>4. /\ DOMAIN rows' \subseteq Resolved /\ DOMAIN task' = DOMAIN rows' \ Declared
      /\ \A n \in DOMAIN rows' : rows'[n] = [held |-> OfRole(account.held, n),
                                             futures |-> OfRole(account.futures, n)]
      /\ \A n \in DOMAIN task' : task'[n] = <<DropOf(n)>>
  BY <1>2 DEF ExistingRows
<1>5. TypesFit'
  <2>1. Len(Sequence) = 6
    BY DEF Sequence
  <2>2. idx \in 1..Len(Sequence)
    BY <1>1, <1>2, <2>1 DEF TypesFit
  <2> QED
    BY <1>1, <1>2, <2>2 DEF TypesFit
<1>6. AccountFits'
  BY <1>1, <1>2 DEF AccountFits, OwnedOnce
<1>7. ASSUME NEW n \in DOMAIN task'
      PROVE  Fits(n)' /\ task'[n] \in Seq({DropOf(n)}) /\ DropOf(n).op # "TRANSFER"
  <2>1. n \in Roles \cup Objects /\ n \notin config.roles \cup config.objects
    BY <1>4, Names DEF Declared
  <2> DEFINE s == DropOf(n)
  <2>2. s \in LaterStatements(n) /\ s.op \in {"DROP", "DROP_ROLE"}
    <3>1. CASE n \in Roles
      BY <2>1, <3>1 DEF DropOf, LaterStatements, RoleStatements, RoleStatement, Statement, Grant
    <3>2. CASE n \notin Roles
      BY <2>1, <3>2 DEF DropOf, LaterStatements, ObjectStatements, ObjectStatement, Statement, Grant
    <3> QED
      BY <3>1, <3>2
  <2>3. s \in NextStatements(n)
    BY <2>2 DEF LaterStatements, NextStatements
  <2>4. LaterStatements(n)' = LaterStatements(n) /\ NextStatements(n)' = NextStatements(n)
    BY <1>2, SameStatements DEF LaterStatements, NextStatements
  <2> HIDE DEF s
  <2>5. task'[n] = <<s>>
    BY <1>4 DEF s
  <2>6. /\ task'[n] \in Seq(NextStatements(n)) /\ Head(task'[n]) = s
        /\ Tail(task'[n]) \in Seq(LaterStatements(n)) /\ task'[n] \in Seq({s})
    BY <2>2, <2>3, <2>5
  <2>7. Fits(n)'
    BY <2>2, <2>4, <2>6 DEF Fits
  <2> QED
    BY <2>2, <2>6, <2>7 DEF s
<1>8. TasksFit'
  BY <1>2, <1>3, <1>4, <1>7 DEF TasksFit, DropOf
<1>9. TransfersFit'
  <2>1. ASSUME NEW n \in DOMAIN task', NEW s \in Range(task'[n]) PROVE s.op # "TRANSFER"
    <3>1. task'[n] \in Seq({DropOf(n)}) /\ DropOf(n).op # "TRANSFER"
      BY <1>7
    <3>2. s = DropOf(n)
      BY <3>1, SeqWithin
    <3> QED
      BY <3>1, <3>2
  <2> QED
    BY <2>1 DEF TransfersFit
<1>10. RowsFit'
  <2>1. ASSUME NEW r \in DOMAIN rows', NEW g \in rows'[r].held
        PROVE  g \in Held /\ g.role = r /\ g \in account.held
    BY <1>1, <1>4 DEF OfRole, AccountRecords
  <2>2. ASSUME NEW r \in DOMAIN rows', NEW g \in rows'[r].futures
        PROVE  g \in Futures /\ g.role = r
    BY <1>1, <1>4 DEF OfRole, AccountRecords
  <2>3. ASSUME NEW r \in DOMAIN rows', NEW g \in rows'[r].held, g.privilege = "OWNERSHIP"
        PROVE  OwnedIn({g.on})' \subseteq {g}
    <3>1. g \in account.held /\ OwnedOnce(account.held)
      BY <1>1, <2>1 DEF AccountFits
    <3>2. ASSUME NEW h \in OwnedIn({g.on})' PROVE h = g
      <4>1. h \in account.held /\ h.privilege = "OWNERSHIP" /\ h.on = g.on
        BY <1>2 DEF OwnedIn, On
      <4> QED
        BY <2>3, <3>1, <4>1 DEF OwnedOnce
    <3> QED
      BY <3>2
  <2> QED
    BY <1>2, <1>3, <1>4, <2>1, <2>2, <2>3 DEF RowsFit
<1> QED
  BY <1>5, <1>6, <1>8, <1>9, <1>10 DEF KeepInv

\* A role gives away what it owns.
LEMMA OwnedIsTransferred ==
  ASSUME scenario \in Scenarios, NEW r \in Roles, NEW owned \in SUBSET Held,
         NEW s \in RoleStatements(r, owned)
  PROVE  /\ s \in RoleStatements(r, Held)
         /\ s.op = "TRANSFER" => Grant(r, "OWNERSHIP", s.on) \in owned
<1>1. CASE s \in {Statement("TRANSFER", g) : g \in (owned \cap NotGiven(r)) \ NotOwnership}
  <2>1. PICK g \in (owned \cap NotGiven(r)) \ NotOwnership : s = Statement("TRANSFER", g)
    BY <1>1
  <2>2. g \in Held /\ g.role = r /\ g.privilege = "OWNERSHIP"
    BY <2>1 DEF NotGiven, NotOwnership
  <2>3. GrantOf(s) = g
    BY <2>1, <2>2, GrantOfStatement
  <2>4. g = Grant(r, "OWNERSHIP", s.on)
    BY <2>2, <2>3 DEF GrantOf, Grant
  <2>5. s \in RoleStatements(r, Held)
    BY <2>1 DEF RoleStatements
  <2> QED
    BY <2>1, <2>4, <2>5
<1>2. CASE s \notin {Statement("TRANSFER", g) : g \in (owned \cap NotGiven(r)) \ NotOwnership}
  <2>1. s \in RoleStatements(r, Held)
    BY <1>2 DEF RoleStatements
  <2>2. s \in RoleStatements(r, {})
    BY <1>2 DEF RoleStatements
  <2>3. s.op # "TRANSFER"
    <3>1. CASE s \in {RoleStatement(op, r) : op \in {"CREATE_ROLE", "GRANT_ROLE"}}
      BY <3>1 DEF RoleStatement, Statement, Grant
    <3>2. CASE s \in {RoleStatement("DROP_ROLE", q) : q \in {r} \ config.roles}
      BY <3>2 DEF RoleStatement, Statement, Grant
    <3>3. CASE s \in {Statement("GRANT", g) : g \in NotOwnership}
      BY <3>3 DEF Statement
    <3>4. CASE s \in {Statement("REVOKE", g) : g \in NotGiven(r)}
      BY <3>4 DEF Statement
    <3>5. CASE s \in {Statement("GRANT_FUTURE", f) : f \in RoleFutures(r)}
      BY <3>5 DEF Statement
    <3>6. CASE s \in {Statement("GRANT_ALL", f) : f \in RoleFutures(r)}
      BY <3>6 DEF Statement
    <3>7. CASE s \in {Statement("REVOKE_FUTURE", f) : f \in Futures}
      BY <3>7 DEF Statement
    <3> QED
      BY <2>2, <3>1, <3>2, <3>3, <3>4, <3>5, <3>6, <3>7 DEF RoleStatements
  <2> QED
    BY <2>1, <2>3
<1> QED
  BY <1>1, <1>2

\* What the worker of an object starts with.
LEMMA ObjectTasks ==
  ASSUME scenario \in Scenarios, NEW o \in config.objects
  PROVE  /\ CreateObject(o) \in Seq(ObjectStatements(o))
         /\ \/ CompareObject(o) \in Seq(ObjectStatements(o))
            \/ /\ o \in account.stale /\ CompareObject(o) \in Seq(NextStatements(o))
               /\ CompareObject(o) # <<>> /\ Tail(CompareObject(o)) \in Seq(ObjectStatements(o))
<1>1. o \in Objects /\ o \notin Roles
  BY ConfigIsSound, Names
<1>2. CreateObject(o) \in Seq(ObjectStatements(o))
  <2>1. Reconcile(o, NoGrantees) \in Seq(ObjectStatements(o))
    BY ReconcileFits, Grantees
  <2>2. ObjectStatement("CREATE", o) \in ObjectStatements(o)
    BY DEF ObjectStatements
  <2> QED
    BY <2>1, <2>2 DEF CreateObject
<1> DEFINE q == IF config.named[o] = <<>> THEN <<>> ELSE <<ObjectStatement("SHOW_GRANTS", o)>>
           x == ObjectStatement("REPLACE", o)
<1>3. q \in Seq(ObjectStatements(o))
  <2>1. ObjectStatement("SHOW_GRANTS", o) \in ObjectStatements(o)
    BY DEF ObjectStatements
  <2> QED
    BY <2>1
<1>4. CASE o \notin account.stale
  <2>1. CompareObject(o) = <<>> \o q
    BY <1>4 DEF CompareObject
  <2> HIDE DEF q
  <2>2. CompareObject(o) = q
    BY <1>3, <2>1
  <2> QED
    BY <1>2, <1>3, <2>2
<1>5. CASE o \in account.stale
  <2>1. CompareObject(o) = <<x>> \o q
    BY <1>5 DEF CompareObject
  <2>2. x \in NextStatements(o) /\ ObjectStatements(o) \subseteq NextStatements(o)
    BY <1>1 DEF NextStatements
  <2> HIDE DEF q, x
  <2>3. q \in Seq(NextStatements(o)) /\ <<x>> \in Seq(NextStatements(o))
    BY <1>3, <2>2
  <2>4. /\ CompareObject(o) \in Seq(NextStatements(o)) /\ CompareObject(o) # <<>>
        /\ Tail(CompareObject(o)) = q
    BY <2>1, <2>3
  <2> QED
    BY <1>2, <1>3, <1>5, <2>4
<1> QED
  BY <1>4, <1>5

\* The other tasks are submitted.
LEMMA SubmitKeeps == ASSUME KeepInv, Submit PROVE KeepInv'
<1>1. TypesFit /\ AccountFits /\ TasksFit /\ RowsFit /\ scenario \in Scenarios /\ account \in AccountRecords
  BY DEF KeepInv, TypesFit
<1>2. /\ UNCHANGED << scenario, account, idx, rows >> /\ pc = "drop" /\ pc' = "create"
      /\ task' = [n \in Resolved \cap Declared |-> TaskOf(n)]
  BY DEF Submit
<1>3. Resolved' = Resolved /\ Declared' = Declared
  BY <1>2 DEF Resolved, Resolver, Declared, config
<1>4. DOMAIN task' = Resolved \cap Declared /\ \A n \in DOMAIN task' : task'[n] = TaskOf(n)
  BY <1>2
<1>5. TypesFit' /\ AccountFits'
  BY <1>1, <1>2 DEF TypesFit, AccountFits, OwnedOnce
<1>6. ASSUME NEW n
      PROVE LaterStatements(n)' = LaterStatements(n) /\ NextStatements(n)' = NextStatements(n)
  BY <1>2, SameStatements DEF LaterStatements, NextStatements
<1>7. ASSUME NEW n \in DOMAIN task', n \in Roles
      PROVE  /\ Fits(n)'
             /\ \A s \in Range(task'[n]) : s.op = "TRANSFER" =>
                  n \in DOMAIN rows /\ Grant(n, "OWNERSHIP", s.on) \in rows[n].held
  <2>1. \E owned \in SUBSET Held :
           /\ task'[n] \in Seq(RoleStatements(n, owned))
           /\ owned # {} => n \in DOMAIN rows /\ owned = rows[n].held
    <3>1. CASE n \in DOMAIN rows
      <4>1. rows[n].held \subseteq {g \in Held : g.role = n} /\ rows[n].futures \subseteq Futures
        BY <1>1, <3>1 DEF RowsFit
      <4>2. TaskOf(n) = CompareRole(n, rows[n])
        BY <1>7, <3>1, Names DEF TaskOf
      <4>3. TaskOf(n) \in Seq(RoleStatements(n, rows[n].held))
        BY <1>1, <4>1, <4>2, CompareRoleFits
      <4> QED
        BY <1>4, <3>1, <4>1, <4>3
    <3>2. CASE n \notin DOMAIN rows
      <4>1. TaskOf(n) = CreateRole(n)
        BY <1>7, <3>2, Names DEF TaskOf
      <4>2. TaskOf(n) \in Seq(RoleStatements(n, {}))
        BY <1>1, <4>1, CreateRoleFits
      <4> QED
        BY <1>4, <4>2
    <3> QED
      BY <3>1, <3>2
  <2>2. PICK owned \in SUBSET Held :
           /\ task'[n] \in Seq(RoleStatements(n, owned))
           /\ owned # {} => n \in DOMAIN rows /\ owned = rows[n].held
    BY <2>1
  <2>3. IsSeq(task'[n]) /\ Range(task'[n]) \subseteq RoleStatements(n, owned)
    BY <2>2, SeqWithin
  <2>4. Range(task'[n]) \subseteq RoleStatements(n, Held)
    BY <1>1, <1>7, <2>3, OwnedIsTransferred
  <2>5. task'[n] \in Seq(LaterStatements(n))
    BY <1>7, <2>3, <2>4, SeqIn DEF LaterStatements
  <2>6. Fits(n)'
    <3>1. n \in Roles \cup Objects
      BY <1>7
    <3> QED
      BY <1>1, <1>6, <2>5, <3>1, LaterIsNext, LaterDoesNotReplace DEF Fits
  <2>7. ASSUME NEW s \in Range(task'[n]), s.op = "TRANSFER"
        PROVE  n \in DOMAIN rows /\ Grant(n, "OWNERSHIP", s.on) \in rows[n].held
    <3>1. Grant(n, "OWNERSHIP", s.on) \in owned
      BY <1>1, <1>7, <2>3, <2>7, OwnedIsTransferred
    <3> QED
      BY <2>2, <3>1
  <2> QED
    BY <2>6, <2>7
<1>8. ASSUME NEW n \in DOMAIN task', n \notin Roles
      PROVE  Fits(n)' /\ \A s \in Range(task'[n]) : s.op # "TRANSFER"
  <2>1. n \in config.objects /\ n \in Objects
    BY <1>1, <1>4, <1>8, ConfigIsSound DEF Declared
  <2>2. TaskOf(n) = IF n \in DOMAIN rows THEN CompareObject(n) ELSE CreateObject(n)
    BY <1>8, <2>1 DEF TaskOf
  <2>3. \/ task'[n] \in Seq(ObjectStatements(n))
        \/ /\ n \in account.stale /\ task'[n] \in Seq(NextStatements(n))
           /\ task'[n] # <<>> /\ Tail(task'[n]) \in Seq(ObjectStatements(n))
    BY <1>1, <1>4, <2>1, <2>2, ObjectTasks
  <2>4. LaterStatements(n) = ObjectStatements(n)
    BY <1>8 DEF LaterStatements
  <2>5. Fits(n)'
    <3>1. CASE task'[n] \in Seq(ObjectStatements(n))
      BY <1>1, <1>6, <2>1, <2>4, <3>1, LaterIsNext, LaterDoesNotReplace DEF Fits
    <3>2. CASE n \in account.stale /\ task'[n] \in Seq(NextStatements(n))
               /\ Tail(task'[n]) \in Seq(ObjectStatements(n))
      BY <1>2, <1>6, <2>4, <3>2 DEF Fits
    <3> QED
      BY <2>3, <3>1, <3>2
  <2>6. ASSUME NEW s \in Range(task'[n]) PROVE s.op # "TRANSFER"
    <3>1. task'[n] \in Seq(NextStatements(n))
      BY <1>6, <2>5 DEF Fits
    <3>2. s \in NextStatements(n)
      BY <3>1, SeqWithin
    <3> QED
      BY <1>1, <1>8, <2>1, <3>2, WhoTransfers
  <2> QED
    BY <2>5, <2>6
<1>9. TasksFit'
  BY <1>2, <1>3, <1>4, <1>7, <1>8 DEF TasksFit
<1>10. RowsFit'
  BY <1>1, <1>2, <1>3 DEF RowsFit
<1>11. TransfersFit'
  <2>1. ASSUME NEW n \in DOMAIN task', NEW s \in Range(task'[n]), s.op = "TRANSFER"
        PROVE  OwnedIn({s.on})' \subseteq {Grant(n, "OWNERSHIP", s.on)}
    <3> DEFINE g == Grant(n, "OWNERSHIP", s.on)
    <3>1. n \in DOMAIN rows /\ g \in rows[n].held
      BY <1>7, <1>8, <2>1
    <3>2. g.privilege = "OWNERSHIP" /\ g.on = s.on
      BY DEF Grant
    <3> HIDE DEF g
    <3>3. OwnedIn({s.on}) \subseteq {g}
      BY <1>1, <1>2, <3>1, <3>2 DEF RowsFit
    <3>4. OwnedIn({s.on})' = OwnedIn({s.on})
      BY <1>2 DEF OwnedIn, On
    <3> QED
      BY <3>3, <3>4 DEF g
  <2> QED
    BY <2>1 DEF TransfersFit
<1> QED
  BY <1>5, <1>9, <1>10, <1>11 DEF KeepInv

\* Nothing happens.
LEMMA StutterKeeps == ASSUME KeepInv, UNCHANGED vars PROVE KeepInv'
<1>1. UNCHANGED << scenario, account, pc, idx, rows, task >>
  BY DEF vars
<1>2. TypesFit' /\ AccountFits'
  BY <1>1 DEF KeepInv, TypesFit, AccountFits, OwnedOnce
<1>3. ASSUME NEW n
      PROVE LaterStatements(n)' = LaterStatements(n) /\ NextStatements(n)' = NextStatements(n)
  BY <1>1, SameStatements DEF LaterStatements, NextStatements
<1>4. TasksFit'
  <2>1. ASSUME NEW n \in DOMAIN task PROVE Fits(n)'
    BY <1>1, <1>3 DEF KeepInv, TasksFit, Fits
  <2> QED
    BY <1>1, <2>1 DEF KeepInv, TasksFit, Resolved, Resolver, Declared, config
<1>5. RowsFit' /\ TransfersFit'
  BY <1>1 DEF KeepInv, RowsFit, TransfersFit, OwnedIn, On, Resolved, Resolver
<1> QED
  BY <1>2, <1>4, <1>5 DEF KeepInv

\* Every step keeps the invariant.
LEMMA KeepInvStep == KeepInv /\ [Next]_vars => KeepInv'
<1> SUFFICES ASSUME KeepInv, [Next]_vars PROVE KeepInv'
  OBVIOUS
<1>1. CASE Start \/ Finish \/ Exit \/ Crash
  BY <1>1, EndsKeep
<1>2. CASE Begin
  BY <1>2, BeginKeeps
<1>3. CASE Submit
  BY <1>3, SubmitKeeps
<1>4. ASSUME NEW n, Worker(n) PROVE KeepInv'
  BY <1>4, ReadGrantsKeeps, SuggestKeeps, ExecuteKeeps, RaiseKeeps DEF Worker
<1>5. CASE Idle \/ UNCHANGED vars
  BY <1>5, StutterKeeps DEF Idle
<1> QED
  BY <1>1, <1>2, <1>3, <1>4, <1>5 DEF Next

\* And it always holds.
LEMMA KeepInvHolds == Spec => []KeepInv
  BY InitKeeps, KeepInvStep, PTL DEF Spec

-----------------------------------------------------------------------------
(* What is kept.                                                           *)

\* What a declared role is entitled to is not lost, but with the object it is on.
MayBeLost(h) ==
  \/ ~Compatible \/ h.role \notin config.roles \/ h \notin Entitled(h.role)
  \/ h.on \in account.stale \ account'.stale
  \/ h.on \in account.objects \ account'.objects

\* No step takes anything else.
LEMMA OnlyWhatMayBeLost ==
  ASSUME KeepInv, [Next]_vars, NEW h \in account.held \ account'.held
  PROVE  MayBeLost(h)
<1> USE DEF MayBeLost
<1>1. /\ TypesFit /\ AccountFits /\ TasksFit /\ RowsFit /\ TransfersFit
      /\ scenario \in Scenarios /\ account \in AccountRecords
  BY DEF KeepInv, TypesFit
<1>2. account' # account
  OBVIOUS
<1>3. PICK n : Execute(n)
  BY <1>2 DEF Next, Start, Begin, Submit, Finish, Exit, Crash, Idle, vars, Worker,
                    ReadGrants, Suggest, Raise
<1> DEFINE s == Head(task[n])
<1>4. HasStatement(n) /\ s.op # "SHOW_GRANTS" /\ IsLegal(s) /\ account' = AccountAfter(s)
  BY <1>3 DEF Execute, IsDDL
<1>5. /\ n \in DOMAIN task /\ n \in Roles \cup Objects
      /\ s \in NextStatements(n) /\ s \in Range(task[n])
      /\ s.op = "REPLACE" => n \in account.stale
  BY <1>1, <1>4, TheNext
<1> HIDE DEF s
<1>6. \/ n \in Roles /\ n \notin config.roles /\ h.role = n
      \/ s.op = "REVOKE" /\ h = GrantOf(s) /\ h \in NotGiven(n)
      \/ s.op = "REVOKE_UNSAFE" /\ h = GrantOf(s) /\ h \in Revocable(n)
      \/ s.op = "TRANSFER" /\ h \in OwnedIn({s.on})
      \/ s.op \in {"REPLACE", "DROP"} /\ n \in Objects /\ s.on = n /\ h.on = n
      \/ /\ s.op = "GRANT_ALL" /\ GrantOf(s) \in RoleFutures(n) /\ s.privilege = "OWNERSHIP"
         /\ h \in OwnedIn(Existing(s.on)) /\ h.role # n
  BY <1>1, <1>4, <1>5, WhatIsLost
<1>7. ASSUME h \in Entitled(h.role) PROVE Gives(h.role, h)
  BY <1>7 DEF Entitled
<1>8. CASE n \in Roles /\ n \notin config.roles /\ h.role = n
  BY <1>8
<1>9. CASE h \in NotGiven(n)
  BY <1>7, <1>9 DEF NotGiven
<1>10. CASE h \in Revocable(n)
  BY <1>7, <1>10 DEF Revocable
<1>11. CASE s.op = "TRANSFER" /\ h \in OwnedIn({s.on})
  <2>1. h = Grant(n, "OWNERSHIP", s.on)
    BY <1>1, <1>5, <1>11 DEF TransfersFit
  <2>2. h \in NotGiven(n)
    BY <1>1, <1>5, <1>11, <2>1, WhoTransfers
  <2> QED
    BY <1>7, <2>2 DEF NotGiven
<1>12. CASE s.op = "REPLACE" /\ s.on = n /\ h.on = n
  <2>1. account'.stale = account.stale \ {n}
    BY <1>1, <1>4, <1>12 DEF AccountAfter, AccountRecords
  <2> QED
    BY <1>5, <1>12, <2>1
<1>13. CASE s.op = "DROP" /\ s.on = n /\ h.on = n
  <2>1. account'.objects = account.objects \ {n} /\ n \in account.objects
    BY <1>1, <1>4, <1>13 DEF AccountAfter, AccountRecords, IsLegal
  <2> QED
    BY <1>13, <2>1
<1>14. CASE /\ GrantOf(s) \in RoleFutures(n) /\ s.privilege = "OWNERSHIP"
            /\ h \in OwnedIn(Existing(s.on)) /\ h.role # n
  <2>1. ASSUME Gives(h.role, h) PROVE FALSE
    <3>1. h.privilege = "OWNERSHIP" /\ TypeOf[h.on] = s.on
      BY <1>14 DEF OwnedIn, On, Existing
    <3>2. h \notin config.grants
      BY <1>1, <3>1, ConfigIsSound DEF NotOwnership
    <3>3. PICK f \in config.futures : f.role = h.role /\ f.privilege = "OWNERSHIP" /\ f.on = s.on
      BY <2>1, <3>1, <3>2 DEF Gives
    <3>4. /\ GrantOf(s) \in config.futures /\ GrantOf(s).role = n
          /\ GrantOf(s).privilege = "OWNERSHIP" /\ GrantOf(s).on = s.on
      BY <1>14 DEF RoleFutures, OfRole, GrantOf, Grant
    <3>5. f = GrantOf(s)
      BY <1>1, <3>3, <3>4, ConfigIsSound DEF OwnedOnce
    <3> QED
      BY <1>14, <3>3, <3>4, <3>5
  <2> QED
    BY <1>7, <2>1
<1> QED
  BY <1>6, <1>8, <1>9, <1>10, <1>11, <1>12, <1>13, <1>14

\* No step takes from a declared role what its blueprint or its future grants
\* give it (EntitledIsKept), although workers decide on what to revoke before
\* they do it, and the resolvers of roles and of objects do not know of each
\* other (AbstractRoleResolver.compare_object, _reconcile_object_grants).
THEOREM NothingGivenIsTaken == Spec => EntitledIsKept
<1>1. KeepInv /\ [Next]_vars =>
        [\A h \in account.held \ account'.held : MayBeLost(h)]_vars
  BY OnlyWhatMayBeLost
<1> QED
  BY <1>1, KeepInvHolds, PTL DEF Spec, EntitledIsKept, MayBeLost

-----------------------------------------------------------------------------
(* What a success means.  Every statement of a worker is one its blueprint *)
(* asks for, and what the account still lacks is in what is left of them.  *)

\* The resolver that is concerned with a name.
KindOf(n) == IF n \in Roles THEN RoleResolver[n] ELSE TypeOf[n]

\* What is left of a worker's statements.
Left(n) == IF n \in DOMAIN task THEN Range(task[n]) ELSE {}

\* How a grant is taken.
Taking(g) == Statement(IF g.privilege = "OWNERSHIP" THEN "TRANSFER" ELSE "REVOKE", g)

\* Future grants the blueprint of a role does not have.
NotDeclared(r) == {f \in Futures : f.role = r} \ RoleFutures(r)

\* The statements that bring a role nearer to its blueprint.
RoleWants(r) ==
  {RoleStatement(op, r) : op \in {"CREATE_ROLE", "GRANT_ROLE"}}
    \cup {Statement("GRANT", g) : g \in RoleGrants(r)}
    \cup {Taking(g) : g \in NotGiven(r)}
    \cup {Statement("GRANT_FUTURE", f) : f \in RoleFutures(r)}
    \cup {Statement("GRANT_ALL", f) : f \in RoleFutures(r)}
    \cup {Statement("REVOKE_FUTURE", f) : f \in NotDeclared(r)}

\* What the parameter "grants" of an object lists.
Entries(o) == Range(config.named[o])

\* What an entry of an object grants.
Granting(o, e) == {Statement("GRANT", Grant(r, e.privilege, o)) : r \in e.roles}

\* And what it revokes.
Revoking(o, e) ==
  {Statement("REVOKE_UNSAFE", Grant(r, e.privilege, o)) : r \in Roles \ e.roles}

\* Those that bring an object nearer to its own.
ObjectWants(o) ==
  {ObjectStatement(op, o) : op \in {"CREATE", "REPLACE", "SHOW_GRANTS"}}
    \cup UNION {Granting(o, e) \cup Revoking(o, e) : e \in Entries(o)}

\* What a worker's statements are among.
Wants(n) == IF n \in Roles THEN RoleWants(n) ELSE ObjectWants(n)

\* What a role lacks is still to be done.
RoleOwes(r, left) ==
  /\ r \in account.roles \/ RoleStatement("CREATE_ROLE", r) \in left
  /\ \A g \in RoleGrants(r) : g \in account.held \/ Statement("GRANT", g) \in left
  /\ \A h \in OfRole(account.held, r) : Gives(r, h) \/ Taking(h) \in left
  /\ \A f \in RoleFutures(r) : f \in account.futures \/ Statement("GRANT_FUTURE", f) \in left
  /\ \A f \in OfRole(account.futures, r) :
       f \in RoleFutures(r) \/ Statement("REVOKE_FUTURE", f) \in left
  /\ \A f \in RoleFutures(r) : \A o \in account.objects : TypeOf[o] = f.on =>
       Grant(r, f.privilege, o) \in account.held \/ Statement("GRANT_ALL", f) \in left

\* And what an object lacks for the roles that are not SnowDDL's.
EntryOwes(o, e, left) ==
  \A u \in Roles \ Managed :
    /\ u \in e.roles => \/ Grant(u, e.privilege, o) \in account.held
                        \/ Statement("GRANT", Grant(u, e.privilege, o)) \in left
    /\ u \notin e.roles => \/ Grant(u, e.privilege, o) \notin account.held
                           \/ Statement("REVOKE_UNSAFE", Grant(u, e.privilege, o)) \in left

\* What an object lacks is still to be done; its entries are looked at again
\* before anything is revoked.
ObjectOwes(o, left) ==
  /\ o \in account.objects \/ ObjectStatement("CREATE", o) \in left
  /\ o \notin account.stale \/ ObjectStatement("REPLACE", o) \in left
  /\ \A e \in Entries(o) :
       \/ ObjectStatement("SHOW_GRANTS", o) \in left
       \/ o \notin account.stale /\ EntryOwes(o, e, left)

-----------------------------------------------------------------------------
(* The statements of each worker, exactly.                                 *)

\* Each of some grants is granted.
LEMMA GrantingEach ==
  ASSUME NEW grants, grants \subseteq Held
  PROVE  /\ IsSeq(Each(CreateGrant, ReadFirst(grants)))
         /\ Range(Each(CreateGrant, ReadFirst(grants))) = {Statement("GRANT", g) : g \in grants}
<1> DEFINE G == ReadFirst(grants)
           f == [i \in DOMAIN G |-> CreateGrant(G[i])]
<1>1. IsFiniteSet(grants)
  BY FinitelyMany, FS_Subset
<1>2. IsSeq(G) /\ Range(G) = grants
  BY <1>1, BothOrders
<1> HIDE DEF G
<1>3. Len(G) \in Nat /\ DOMAIN G = 1..Len(G)
  BY <1>2, SeqElim
<1>4. IsSeq(f) /\ DOMAIN f = DOMAIN G
  BY <1>3, SeqIntro
<1>5. \A i \in DOMAIN f : IsSeq(f[i]) /\ Range(f[i]) = {Statement("GRANT", G[i])}
  BY <1>4, UnitIsSeq DEF CreateGrant
<1>6. /\ IsSeq(FlattenSeq(f))
      /\ \A x : x \in Range(FlattenSeq(f)) <=> \E i \in DOMAIN f : x \in Range(f[i])
  BY <1>4, <1>5, FlattenIsSeq
<1>70. \A g : g \in grants <=> \E i \in DOMAIN G : g = G[i]
  BY <1>2 DEF Range
<1> HIDE DEF f
<1>71. \A x : x \in Range(FlattenSeq(f)) <=> \E i \in DOMAIN G : x = Statement("GRANT", G[i])
  BY <1>4, <1>5, <1>6
<1>7. Range(FlattenSeq(f)) = {Statement("GRANT", g) : g \in grants}
  BY <1>70, <1>71
<1> QED
  BY <1>6, <1>7 DEF Each, G, f

\* Each of some grants is taken.
LEMMA TakingEach ==
  ASSUME NEW grants, grants \subseteq Held
  PROVE  /\ IsSeq(Each(DropGrant, WriteFirst(grants)))
         /\ Range(Each(DropGrant, WriteFirst(grants))) = {Taking(g) : g \in grants}
<1> DEFINE G == WriteFirst(grants)
           f == [i \in DOMAIN G |-> DropGrant(G[i])]
<1>1. IsFiniteSet(grants)
  BY FinitelyMany, FS_Subset
<1>2. IsSeq(G) /\ Range(G) = grants
  BY <1>1, BothOrders
<1> HIDE DEF G
<1>3. Len(G) \in Nat /\ DOMAIN G = 1..Len(G)
  BY <1>2, SeqElim
<1>4. IsSeq(f) /\ DOMAIN f = DOMAIN G
  BY <1>3, SeqIntro
<1>40. \A g : DropGrant(g) = <<Taking(g)>>
  BY DEF DropGrant, Taking
<1>5. \A i \in DOMAIN f : IsSeq(f[i]) /\ Range(f[i]) = {Taking(G[i])}
  BY <1>4, <1>40, UnitIsSeq
<1>6. /\ IsSeq(FlattenSeq(f))
      /\ \A x : x \in Range(FlattenSeq(f)) <=> \E i \in DOMAIN f : x \in Range(f[i])
  BY <1>4, <1>5, FlattenIsSeq
<1>70. \A g : g \in grants <=> \E i \in DOMAIN G : g = G[i]
  BY <1>2 DEF Range
<1> HIDE DEF f
<1>71. \A x : x \in Range(FlattenSeq(f)) <=> \E i \in DOMAIN G : x = Taking(G[i])
  BY <1>4, <1>5, <1>6
<1>7. Range(FlattenSeq(f)) = {Taking(g) : g \in grants}
  BY <1>70, <1>71
<1> QED
  BY <1>6, <1>7 DEF Each, G, f

\* Each of some future grants is revoked.
LEMMA RevokingEach ==
  ASSUME NEW futures, futures \subseteq Futures
  PROVE  /\ IsSeq(Each(DropFutureGrant, WriteFirst(futures)))
         /\ Range(Each(DropFutureGrant, WriteFirst(futures)))
              = {Statement("REVOKE_FUTURE", f) : f \in futures}
<1> DEFINE G == WriteFirst(futures)
           f == [i \in DOMAIN G |-> DropFutureGrant(G[i])]
<1>1. IsFiniteSet(futures)
  BY FinitelyMany, FS_Subset
<1>2. IsSeq(G) /\ Range(G) = futures
  BY <1>1, BothOrders
<1> HIDE DEF G
<1>3. Len(G) \in Nat /\ DOMAIN G = 1..Len(G)
  BY <1>2, SeqElim
<1>4. IsSeq(f) /\ DOMAIN f = DOMAIN G
  BY <1>3, SeqIntro
<1>5. \A i \in DOMAIN f : IsSeq(f[i]) /\ Range(f[i]) = {Statement("REVOKE_FUTURE", G[i])}
  BY <1>4, UnitIsSeq DEF DropFutureGrant
<1>6. /\ IsSeq(FlattenSeq(f))
      /\ \A x : x \in Range(FlattenSeq(f)) <=> \E i \in DOMAIN f : x \in Range(f[i])
  BY <1>4, <1>5, FlattenIsSeq
<1>70. \A g : g \in futures <=> \E i \in DOMAIN G : g = G[i]
  BY <1>2 DEF Range
<1> HIDE DEF f
<1>71. \A x : x \in Range(FlattenSeq(f)) <=> \E i \in DOMAIN G : x = Statement("REVOKE_FUTURE", G[i])
  BY <1>4, <1>5, <1>6
<1>7. Range(FlattenSeq(f)) = {Statement("REVOKE_FUTURE", g) : g \in futures}
  BY <1>70, <1>71
<1> QED
  BY <1>6, <1>7 DEF Each, G, f

\* Some roles are granted, or lose, a privilege on an object.
LEMMA EachRole ==
  ASSUME NEW op, NEW o, NEW p, NEW roles, IsFiniteSet(roles)
  PROVE  /\ IsSeq(ForRoles(op, o, p, roles))
         /\ Range(ForRoles(op, o, p, roles)) = {Statement(op, Grant(r, p, o)) : r \in roles}
<1> DEFINE R == InTurn(roles)
           f == [i \in DOMAIN R |-> <<Statement(op, Grant(R[i], p, o))>>]
<1>1. IsSeq(R) /\ Range(R) = roles
  BY InTurnIs
<1> HIDE DEF R
<1>3. Len(R) \in Nat /\ DOMAIN R = 1..Len(R)
  BY <1>1, SeqElim
<1>4. IsSeq(f) /\ DOMAIN f = DOMAIN R
  BY <1>3, SeqIntro
<1>5. \A i \in DOMAIN f : IsSeq(f[i]) /\ Range(f[i]) = {Statement(op, Grant(R[i], p, o))}
  BY <1>4, UnitIsSeq
<1>6. /\ IsSeq(FlattenSeq(f))
      /\ \A x : x \in Range(FlattenSeq(f)) <=> \E i \in DOMAIN f : x \in Range(f[i])
  BY <1>4, <1>5, FlattenIsSeq
<1>70. \A g : g \in roles <=> \E i \in DOMAIN R : g = R[i]
  BY <1>1 DEF Range
<1> HIDE DEF f
<1>71. \A x : x \in Range(FlattenSeq(f)) <=> \E i \in DOMAIN R : x = Statement(op, Grant(R[i], p, o))
  BY <1>4, <1>5, <1>6
<1>7. Range(FlattenSeq(f)) = {Statement(op, Grant(r, p, o)) : r \in roles}
  BY <1>70, <1>71
<1> QED
  BY <1>6, <1>7 DEF ForRoles, Each, R, f

\* What an object names.
LEMMA EntriesAre ==
  ASSUME scenario \in Scenarios, NEW o \in config.objects
  PROVE  /\ o \in Objects /\ IsSeq(config.named[o])
         /\ \A e \in Entries(o) : e.privilege \in Privileges \ {"OWNERSHIP"} /\ e.roles \subseteq Roles
         /\ \A e, d \in Entries(o) : e.privilege = d.privilege => e = d
<1> DEFINE N == config.named[o]
           E == [privilege : Privileges \ {"OWNERSHIP"}, roles : SUBSET Roles]
<1>1. o \in Objects /\ N \in Seq(E)
  BY ConfigIsSound
<1>2. \A i, j \in DOMAIN N : N[i].privilege = N[j].privilege => i = j
  BY <1>1, ScenarioAssumption DEF config
<1> HIDE DEF N, E
<1>3. IsSeq(N) /\ Range(N) \subseteq E
  BY <1>1, SeqWithin
<1>4. \A e, d \in Range(N) : e.privilege = d.privilege => e = d
  BY <1>2 DEF Range
<1> QED
  BY <1>1, <1>3, <1>4 DEF Entries, N, E

\* _reconcile_object_grants, whoever the grantees are.
LEMMA ReconcileIs ==
  ASSUME scenario \in Scenarios, NEW o \in config.objects,
         NEW grantees \in [Privileges -> SUBSET Roles]
  PROVE  /\ IsSeq(Reconcile(o, grantees))
         /\ \A x : x \in Range(Reconcile(o, grantees)) <=>
              \E e \in Entries(o) :
                \/ \E r \in e.roles \ grantees[e.privilege] :
                     x = Statement("GRANT", Grant(r, e.privilege, o))
                \/ \E r \in grantees[e.privilege] \ e.roles :
                     x = Statement("REVOKE_UNSAFE", Grant(r, e.privilege, o))
<1> DEFINE N == config.named[o]
           About(e) == ForRoles("GRANT", o, e.privilege, e.roles \ grantees[e.privilege])
                         \o ForRoles("REVOKE_UNSAFE", o, e.privilege, grantees[e.privilege] \ e.roles)
           f == [i \in DOMAIN N |-> About(N[i])]
           Says(e, x) ==
                \/ \E r \in e.roles \ grantees[e.privilege] :
                     x = Statement("GRANT", Grant(r, e.privilege, o))
                \/ \E r \in grantees[e.privilege] \ e.roles :
                     x = Statement("REVOKE_UNSAFE", Grant(r, e.privilege, o))
<1>1. IsSeq(N) /\ Entries(o) = Range(N)
  BY EntriesAre DEF Entries
<1>2. ASSUME NEW e \in Entries(o)
      PROVE  IsSeq(About(e)) /\ \A x : x \in Range(About(e)) <=> Says(e, x)
  <2>1. e.privilege \in Privileges /\ e.roles \subseteq Roles /\ grantees[e.privilege] \subseteq Roles
    BY EntriesAre
  <2>2. IsFiniteSet(e.roles \ grantees[e.privilege]) /\ IsFiniteSet(grantees[e.privilege] \ e.roles)
    BY <2>1, FS_Subset, GrantsAssumption DEF GrantsAssumption
  <2> DEFINE a == ForRoles("GRANT", o, e.privilege, e.roles \ grantees[e.privilege])
             b == ForRoles("REVOKE_UNSAFE", o, e.privilege, grantees[e.privilege] \ e.roles)
  <2>3. /\ IsSeq(a) /\ Range(a) = {Statement("GRANT", Grant(r, e.privilege, o)) :
                                      r \in e.roles \ grantees[e.privilege]}
        /\ IsSeq(b) /\ Range(b) = {Statement("REVOKE_UNSAFE", Grant(r, e.privilege, o)) :
                                      r \in grantees[e.privilege] \ e.roles}
    <3> DEFINE P == e.privilege  A == e.roles \ grantees[P]  B == grantees[P] \ e.roles
    <3>0. IsFiniteSet(A) /\ IsFiniteSet(B)
      BY <2>2
    <3> HIDE DEF P, A, B
    <3>1. /\ IsSeq(ForRoles("GRANT", o, P, A))
          /\ Range(ForRoles("GRANT", o, P, A)) = {Statement("GRANT", Grant(r, P, o)) : r \in A}
      BY <3>0, EachRole
    <3>2. /\ IsSeq(ForRoles("REVOKE_UNSAFE", o, P, B))
          /\ Range(ForRoles("REVOKE_UNSAFE", o, P, B))
               = {Statement("REVOKE_UNSAFE", Grant(r, P, o)) : r \in B}
      BY <3>0, EachRole
    <3> QED
      BY <3>1, <3>2 DEF P, A, B
  <2>4. \A x : x \in Range(a) \cup Range(b) <=> Says(e, x)
    BY <2>3
  <2> HIDE DEF a, b
  <2>5. IsSeq(a \o b) /\ Range(a \o b) = Range(a) \cup Range(b)
    BY <2>3, JoinIsSeq
  <2>6. About(e) = a \o b
    BY DEF a, b
  <2> HIDE DEF Says, About
  <2> QED
    BY <2>4, <2>5, <2>6
<1> HIDE DEF N, About
<1>3. Len(N) \in Nat /\ DOMAIN N = 1..Len(N)
  BY <1>1, SeqElim
<1>4. IsSeq(f) /\ DOMAIN f = DOMAIN N
  BY <1>3, SeqIntro
<1>5. \A i \in DOMAIN f : N[i] \in Entries(o) /\ f[i] = About(N[i])
  BY <1>1, <1>4 DEF Range
<1>6. \A i \in DOMAIN f : IsSeq(f[i]) /\ \A x : x \in Range(f[i]) <=> Says(N[i], x)
  BY <1>2, <1>5
<1>7. /\ IsSeq(FlattenSeq(f))
      /\ \A x : x \in Range(FlattenSeq(f)) <=> \E i \in DOMAIN f : x \in Range(f[i])
  BY <1>4, <1>6, FlattenIsSeq
<1> HIDE DEF f, Says
<1>8. \A x : x \in Range(FlattenSeq(f)) <=> \E e \in Entries(o) : Says(e, x)
  <2>1. \A e \in Entries(o) : \E i \in DOMAIN f : e = N[i]
    BY <1>1, <1>4 DEF Range
  <2>2. \A x : x \in Range(FlattenSeq(f)) <=> \E i \in DOMAIN f : Says(N[i], x)
    BY <1>6, <1>7
  <2> QED
    BY <1>5, <2>1, <2>2
<1>9. Reconcile(o, grantees) = FlattenSeq(f)
  BY DEF Reconcile, Each, f, About, N
<1> QED
  BY <1>7, <1>8, <1>9 DEF Says

\* What is to be done right after: a role that is created is granted, and a
\* future grant is one on what there is too.
Sequel == [CREATE_ROLE |-> "GRANT_ROLE", GRANT_FUTURE |-> "GRANT_ALL"]
\* Every statement that has a sequel is followed by it.
Paired(q) ==
  \A i \in DOMAIN q : q[i].op \in {"CREATE_ROLE", "GRANT_FUTURE"} =>
    i + 1 \in DOMAIN q /\ q[i + 1] = Statement(Sequel[q[i].op], q[i])

\* No READ is to come after WRITE, which needs it, was granted.
ReadComesFirst(r) ==
  {w \in RoleWants(r) \X RoleWants(r) :
     ~ /\ w[1].op = "GRANT_ALL" /\ w[1].privilege = "WRITE"
       /\ w[2].op = "GRANT_FUTURE" /\ w[2].privilege = "READ"}

\* The order of a role's statements.
Shaped(r, q) == Paired(q) /\ Ordered(q, ReadComesFirst(r))

\* Two sequences in which nothing is separated from its sequel.
LEMMA PairedJoin ==
  ASSUME NEW S, NEW p \in Seq(S), NEW q \in Seq(S), Paired(p), Paired(q)
  PROVE  Paired(p \o q)
<1> DEFINE m == Len(p)
           n == Len(q)
           w == p \o q
<1>1. /\ w \in Seq(S) /\ Len(w) = m + n
      /\ \A i \in 1..m : w[i] = p[i]
      /\ \A i \in 1..n : w[i + m] = q[i]
  BY JoinAt
<1>2. m \in Nat /\ n \in Nat /\ DOMAIN p = 1..m /\ DOMAIN q = 1..n
  OBVIOUS
<1>3. DOMAIN w = 1..(m + n)
  BY <1>1, <1>2
<1> HIDE DEF w, m, n
<1>4. ASSUME NEW i \in DOMAIN w, w[i].op \in {"CREATE_ROLE", "GRANT_FUTURE"}
      PROVE  i + 1 \in DOMAIN w /\ w[i + 1] = Statement(Sequel[w[i].op], w[i])
  <2>1. CASE i \in 1..m
    <3>1. w[i] = p[i] /\ i \in DOMAIN p
      BY <1>1, <1>2, <2>1
    <3>2. i + 1 \in DOMAIN p /\ p[i + 1] = Statement(Sequel[p[i].op], p[i])
      BY <1>4, <3>1 DEF Paired
    <3>3. w[i + 1] = p[i + 1] /\ i + 1 \in DOMAIN w
      BY <1>1, <1>2, <1>3, <3>2
    <3> QED
      BY <3>1, <3>2, <3>3
  <2>2. CASE i \notin 1..m
    <3> DEFINE j == i - m
    <3>1. j \in 1..n /\ i = j + m /\ i + 1 = (j + 1) + m
      BY <1>2, <1>3, <2>2
    <3>2. w[i] = q[j]
      BY <1>1, <3>1
    <3>3. j + 1 \in DOMAIN q /\ q[j + 1] = Statement(Sequel[q[j].op], q[j])
      BY <1>2, <1>4, <3>1, <3>2 DEF Paired
    <3>4. w[i + 1] = q[j + 1] /\ i + 1 \in DOMAIN w
      BY <1>1, <1>2, <1>3, <3>1, <3>3
    <3> QED
      BY <3>2, <3>3, <3>4
  <2> QED
    BY <2>1, <2>2
<1> QED
  BY <1>4 DEF Paired, w

\* Nor is it when the first one is done, whose sequel is then next.
LEMMA PairedTail ==
  ASSUME NEW q, IsSeq(q), q # <<>>, Paired(q)
  PROVE  /\ Paired(Tail(q))
         /\ Head(q).op \in {"CREATE_ROLE", "GRANT_FUTURE"} =>
              Tail(q) # <<>> /\ Head(Tail(q)) = Statement(Sequel[Head(q).op], Head(q))
<1> DEFINE n == Len(q)
           t == Tail(q)
<1>1. n \in Nat /\ DOMAIN q = 1..n /\ Head(q) = q[1] /\ n # 0
  BY SeqElim, HeadTail, EmptyIsSeq DEF IsSeq
<1>2. IsSeq(t) /\ Len(t) = n - 1 /\ \A i \in 1..(n - 1) : t[i] = q[i + 1]
  BY HeadTail
<1>3. DOMAIN t = 1..(n - 1)
  BY <1>2, SeqElim
<1> HIDE DEF t, n
<1>4. ASSUME NEW i \in DOMAIN t, t[i].op \in {"CREATE_ROLE", "GRANT_FUTURE"}
      PROVE  i + 1 \in DOMAIN t /\ t[i + 1] = Statement(Sequel[t[i].op], t[i])
  <2>1. i + 1 \in DOMAIN q /\ t[i] = q[i + 1]
    BY <1>1, <1>2, <1>3
  <2>2. (i + 1) + 1 \in DOMAIN q /\ q[(i + 1) + 1] = Statement(Sequel[q[i + 1].op], q[i + 1])
    BY <1>4, <2>1 DEF Paired
  <2>3. i + 1 \in DOMAIN t /\ t[i + 1] = q[(i + 1) + 1]
    BY <1>1, <1>2, <1>3, <2>2
  <2> QED
    BY <2>1, <2>2, <2>3
<1>5. ASSUME Head(q).op \in {"CREATE_ROLE", "GRANT_FUTURE"}
      PROVE  t # <<>> /\ Head(t) = Statement(Sequel[Head(q).op], Head(q))
  <2>1. 1 + 1 \in DOMAIN q /\ q[1 + 1] = Statement(Sequel[q[1].op], q[1])
    BY <1>1, <1>5 DEF Paired
  <2>2. 1 \in DOMAIN t /\ t[1] = q[1 + 1]
    BY <1>1, <1>2, <1>3, <2>1
  <2>3. t # <<>>
    BY <2>2, EmptyIsSeq
  <2>4. Head(t) = t[1]
    BY <1>2, <2>3, HeadTail
  <2> QED
    BY <1>1, <2>1, <2>2, <2>3, <2>4
<1> QED
  BY <1>4, <1>5 DEF Paired, t

\* Where nothing has a sequel.
LEMMA PairedNone ==
  ASSUME NEW q, \A s \in Range(q) : s.op \notin {"CREATE_ROLE", "GRANT_FUTURE"}
  PROVE  Paired(q)
  BY DEF Paired, Range

\* A statement is about the grant it was made of, however it is looked at.
LEMMA StatementFields ==
  ASSUME NEW op, NEW g
  PROVE  /\ Statement(op, g).op = op /\ Statement(op, g).role = g.role
         /\ Statement(op, g).privilege = g.privilege /\ Statement(op, g).on = g.on
         /\ \A p : Statement(p, Statement(op, g)) = Statement(p, g)
  BY DEF Statement

\* READ comes before WRITE among grants.
LEMMA ReadFirstIs ==
  ASSUME NEW grants, IsFiniteSet(grants),
         NEW i \in DOMAIN ReadFirst(grants), NEW j \in DOMAIN ReadFirst(grants), i < j,
         ReadFirst(grants)[i].privilege = "WRITE"
  PROVE  ReadFirst(grants)[j].privilege = "WRITE"
<1> DEFINE a == InTurn(grants \ Written(grants))
           b == InTurn(Written(grants))
           w == ReadFirst(grants)
           m == Len(a)
           n == Len(b)
<1>1. IsFiniteSet(Written(grants)) /\ IsFiniteSet(grants \ Written(grants))
  BY FS_Subset DEF Written
<1>2. /\ IsSeq(a) /\ Range(a) = grants \ Written(grants)
      /\ IsSeq(b) /\ Range(b) = Written(grants) /\ w = a \o b
  BY <1>1, InTurnIs DEF ReadFirst
<1>3. a \in Seq(grants) /\ b \in Seq(grants)
  <2>1. Range(a) \subseteq grants /\ Range(b) \subseteq grants
    BY <1>2 DEF Written
  <2> HIDE DEF a, b
  <2> QED
    BY <1>2, <2>1, SeqIn
<1>4. /\ m \in Nat /\ n \in Nat /\ DOMAIN a = 1..m /\ DOMAIN b = 1..n
      /\ \A k \in 1..m : a[k].privilege # "WRITE"
      /\ \A k \in 1..n : b[k].privilege = "WRITE"
  <2> HIDE DEF a, b
  <2>1. /\ Len(a) \in Nat /\ DOMAIN a = 1..Len(a) /\ \A k \in 1..Len(a) : a[k] \in Range(a)
        /\ Len(b) \in Nat /\ DOMAIN b = 1..Len(b) /\ \A k \in 1..Len(b) : b[k] \in Range(b)
    BY <1>2, SeqElim
  <2> QED
    BY <1>2, <2>1 DEF Written
<1> HIDE DEF a, b
<1>5. /\ w \in Seq(grants) /\ Len(w) = m + n
      /\ \A k \in 1..m : w[k] = a[k]
      /\ \A k \in 1..n : w[k + m] = b[k]
  <2>1. /\ a \o b \in Seq(grants) /\ Len(a \o b) = Len(a) + Len(b)
        /\ \A k \in 1..Len(a) : (a \o b)[k] = a[k]
        /\ \A k \in 1..Len(b) : (a \o b)[k + Len(a)] = b[k]
    BY <1>3, JoinAt
  <2> QED
    BY <1>2, <2>1
<1> HIDE DEF m, n, w
<1>6. DOMAIN w = 1..(m + n)
  BY <1>4, <1>5
<1>7. i \in 1..(m + n) /\ j \in 1..(m + n) /\ w[i].privilege = "WRITE"
  BY <1>6 DEF w
<1>8. i \notin 1..m
  BY <1>4, <1>5, <1>7
<1>9. j - m \in 1..n /\ j = (j - m) + m
  BY <1>4, <1>7, <1>8
<1>10. w[j].privilege = "WRITE"
  BY <1>4, <1>5, <1>9
<1> QED
  BY <1>10 DEF w

\* Future grants, one by one: created, granted on what there is, or left alone.
LEMMA FuturesInTurn ==
  ASSUME scenario \in Scenarios, NEW r, NEW h,
         \A f \in RoleFutures(r) : h[f] \in {<<>>, ApplyFutureGrant(f), CreateFutureGrant(f)},
         NEW F, F = ReadFirst(RoleFutures(r)), NEW q, q = FlattenSeq([i \in DOMAIN F |-> h[F[i]]])
  PROVE  /\ IsSeq(q) /\ Shaped(r, q)
         /\ \A x : x \in Range(q) <=> \E f \in RoleFutures(r) : x \in Range(h[f])
         /\ \A x \in Range(q) : x \in RoleWants(r) /\ x.op # "CREATE_ROLE"
<1> DEFINE ss == [i \in DOMAIN F |-> h[F[i]]]
           S == RoleWants(r)
           W == ReadComesFirst(r)
<1>1. IsFiniteSet(RoleFutures(r))
  BY OwnGrants
<1>2. IsSeq(F) /\ Range(F) = RoleFutures(r)
  BY <1>1, BothOrders
<1>3. Len(F) \in Nat /\ DOMAIN F = 1..Len(F)
  BY <1>2, SeqElim
<1>4. IsSeq(ss) /\ DOMAIN ss = DOMAIN F
  BY <1>3, SeqIntro
<1>5. ASSUME NEW f \in RoleFutures(r)
      PROVE  /\ h[f] \in Seq(S) /\ Paired(h[f])
             /\ \A x \in Range(h[f]) : /\ x.op \in {"GRANT_FUTURE", "GRANT_ALL"} /\ x \in S
                                       /\ x.privilege = f.privilege
             /\ Ordered(h[f], W)
  <2> DEFINE x == Statement("GRANT_FUTURE", f)
             y == Statement("GRANT_ALL", f)
  <2>1. x \in S /\ y \in S /\ x.op = "GRANT_FUTURE" /\ y.op = "GRANT_ALL"
        /\ x.privilege = f.privilege /\ y.privilege = f.privilege /\ y = Statement("GRANT_ALL", x)
    BY StatementFields DEF RoleWants
  <2>2. <<x, y>> \in W
    BY <2>1 DEF ReadComesFirst
  <2>3. CASE h[f] = <<>>
    <3>1. IsSeq(h[f]) /\ Range(h[f]) = {} /\ DOMAIN h[f] = {} /\ h[f] \in Seq(S)
      BY <2>3, EmptyIsSeq
    <3> QED
      BY <3>1 DEF Paired, Ordered
  <2>4. CASE h[f] = <<y>>
    <3> HIDE DEF x, y, S, W
    <3>1. IsSeq(h[f]) /\ Range(h[f]) = {y} /\ h[f] \in Seq(S) /\ Ordered(h[f], W)
      BY <2>1, <2>4, UnitIsSeq, OrderedUnit
    <3>2. Paired(h[f])
      BY <2>1, <3>1, PairedNone
    <3> QED
      BY <2>1, <3>1, <3>2
  <2>5. CASE h[f] = <<x, y>>
    <3> HIDE DEF x, y, S, W
    <3>1. h[f] \in Seq(S) /\ DOMAIN h[f] = {1, 2} /\ h[f][1] = x /\ h[f][2] = y
      BY <2>1, <2>5
    <3>2. Range(h[f]) = {x, y}
      BY <3>1 DEF Range
    <3>3. Ordered(h[f], W)
      BY <2>2, <3>1 DEF Ordered
    <3>4. Paired(h[f])
      <4>1. Sequel["GRANT_FUTURE"] = "GRANT_ALL"
        BY DEF Sequel
      <4> QED
        BY <2>1, <3>1, <4>1 DEF Paired
    <3> QED
      BY <2>1, <3>1, <3>2, <3>3, <3>4
  <2> QED
    BY <2>3, <2>4, <2>5 DEF ApplyFutureGrant, CreateFutureGrant
<1>6. \A i \in DOMAIN ss : ss[i] = h[F[i]] /\ F[i] \in RoleFutures(r)
  BY <1>2, <1>4 DEF Range
<1> HIDE DEF ss, S, W
<1>7. \A i \in DOMAIN ss : /\ ss[i] \in Seq(S) /\ Paired(ss[i]) /\ Ordered(ss[i], W) /\ IsSeq(ss[i])
  BY <1>5, <1>6, SeqWithin
<1>8. q = FlattenSeq(ss)
  BY DEF ss
<1>9. IsSeq(q) /\ \A x : x \in Range(q) <=> \E i \in DOMAIN ss : x \in Range(ss[i])
  BY <1>4, <1>7, <1>8, FlattenIsSeq
<1>10. \A x : x \in Range(q) <=> \E f \in RoleFutures(r) : x \in Range(h[f])
  <2>1. \A f : f \in RoleFutures(r) <=> \E i \in DOMAIN F : f = F[i]
    BY <1>2 DEF Range
  <2> QED
    BY <1>4, <1>6, <1>9, <2>1
<1>11. Paired(q)
  <2> DEFINE P == {p \in Seq(S) : Paired(p)}
  <2>1. <<>> \in P
    BY EmptyIsSeq DEF Paired
  <2>2. \A a, b \in P : a \o b \in P
    BY PairedJoin
  <2>3. \A i \in DOMAIN ss : ss[i] \in P
    BY <1>7
  <2> HIDE DEF P
  <2>4. q \in P
    BY <1>4, <1>8, <2>1, <2>2, <2>3, FlattenIn
  <2> QED
    BY <2>4 DEF P
<1>12. Ordered(q, W)
  <2>1. ASSUME NEW i \in DOMAIN ss, NEW j \in DOMAIN ss, i < j,
               NEW x \in Range(ss[i]), NEW y \in Range(ss[j])
        PROVE  <<x, y>> \in W
    <3>1. x \in S /\ y \in S /\ x.privilege = F[i].privilege /\ y.privilege = F[j].privilege
      BY <1>5, <1>6
    <3>2. i \in DOMAIN F /\ j \in DOMAIN F
      BY <1>4
    <3>3. x.privilege = "WRITE" => y.privilege = "WRITE"
      BY <1>1, <2>1, <3>1, <3>2, ReadFirstIs
    <3> QED
      BY <3>1, <3>3 DEF W, ReadComesFirst, S
  <2> QED
    BY <1>4, <1>7, <1>8, <2>1, OrderedFlatten
<1>13. \A x \in Range(q) : x \in S /\ x.op # "CREATE_ROLE"
  BY <1>5, <1>10
<1> QED
  BY <1>9, <1>10, <1>11, <1>12, <1>13 DEF Shaped, S, W

\* What comes before the future grants is not about them.
LEMMA ShapedWithFutures ==
  ASSUME NEW r, NEW p, NEW q, IsSeq(p), IsSeq(q), Paired(p), Shaped(r, q),
         \A x \in Range(p) : x \in RoleWants(r) /\ x.op \notin {"GRANT_FUTURE", "GRANT_ALL"},
         \A x \in Range(q) : x \in RoleWants(r)
  PROVE  Shaped(r, p \o q)
<1> DEFINE S == RoleWants(r)
           W == ReadComesFirst(r)
<1>1. p \in Seq(S) /\ q \in Seq(S)
  BY SeqIn
<1>2. Paired(p \o q)
  BY <1>1, PairedJoin DEF Shaped
<1>3. \A x \in Range(p), y \in S : <<x, y>> \in W
  BY DEF ReadComesFirst
<1>4. Ordered(p, W)
  BY <1>3 DEF Ordered, Range
<1>5. Ordered(p \o q, W)
  BY <1>3, <1>4, OrderedJoin DEF Shaped
<1> QED
  BY <1>2, <1>5 DEF Shaped

\* What a blueprint gives is granted by it, or kept by one of its future grants.
LEMMA GivesIs ==
  ASSUME scenario \in Scenarios, NEW r, NEW g \in Held, g.role = r
  PROVE  Gives(r, g) <=> g \in RoleGrants(r) \/ KeptByFuture(r, g)
<1>1. g \in config.grants <=> g \in RoleGrants(r)
  BY DEF RoleGrants, OfRole
<1>2. g.on \in Objects \cup {Account} /\ Account \notin Objects
  BY Names DEF Held
<1>3. ASSUME NEW f \in config.futures, f.role = r, f.privilege = g.privilege, g.on \in Objects,
             f.on = TypeOf[g.on]
      PROVE  KeptByFuture(r, g)
  <2>1. f = Grant(r, g.privilege, TypeOf[g.on])
    <3>1. f \in Futures
      BY <1>3, ConfigIsSound
    <3> QED
      BY <1>3, <3>1 DEF Futures, Grant
  <2> QED
    BY <1>2, <1>3, <2>1 DEF KeptByFuture, RoleFutures, OfRole
<1>4. ASSUME KeptByFuture(r, g)
      PROVE  /\ g.on \in Objects
             /\ \E f \in config.futures : f.role = r /\ f.privilege = g.privilege /\ f.on = TypeOf[g.on]
  <2> DEFINE f == Grant(r, g.privilege, TypeOf[g.on])
  <2>1. f \in config.futures /\ g.on # Account
    BY <1>4 DEF KeptByFuture, RoleFutures, OfRole
  <2>2. f.role = r /\ f.privilege = g.privilege /\ f.on = TypeOf[g.on]
    BY DEF Grant
  <2> QED
    BY <1>2, <2>1, <2>2
<1>5. Gives(r, g) => g \in RoleGrants(r) \/ KeptByFuture(r, g)
  BY <1>1, <1>3 DEF Gives
<1>6. g \in RoleGrants(r) \/ KeptByFuture(r, g) => Gives(r, g)
  BY <1>1, <1>4 DEF Gives
<1> QED
  BY <1>5, <1>6

\* create_object of a role
LEMMA CreateRoleIs ==
  ASSUME scenario \in Scenarios, NEW r \in Roles
  PROVE  /\ IsSeq(CreateRole(r)) /\ Range(CreateRole(r)) \subseteq RoleWants(r)
         /\ Shaped(r, CreateRole(r))
         /\ RoleStatement("CREATE_ROLE", r) \in Range(CreateRole(r))
         /\ \A g \in RoleGrants(r) : Statement("GRANT", g) \in Range(CreateRole(r))
         /\ \A f \in RoleFutures(r) : /\ Statement("GRANT_FUTURE", f) \in Range(CreateRole(r))
                                      /\ Statement("GRANT_ALL", f) \in Range(CreateRole(r))
<1> DEFINE x == RoleStatement("CREATE_ROLE", r)
           y == RoleStatement("GRANT_ROLE", r)
           p0 == <<x, y>>
           p1 == Each(CreateGrant, ReadFirst(OnObjects(RoleGrants(r))))
           p2 == Each(CreateGrant, ReadFirst(OnAccount(RoleGrants(r))))
           F == ReadFirst(RoleFutures(r))
           h == [f \in RoleFutures(r) |-> CreateFutureGrant(f)]
           p3 == Each(CreateFutureGrant, F)
           S == RoleWants(r)
<1>1. CreateRole(r) = ((p0 \o p1) \o p2) \o p3
  BY DEF CreateRole
<1>2. /\ x.op = "CREATE_ROLE" /\ y.op = "GRANT_ROLE" /\ y = Statement("GRANT_ROLE", x)
      /\ x \in S /\ y \in S
  BY StatementFields DEF RoleStatement, RoleWants
<1>3. IsSeq(p0) /\ Range(p0) = {x, y} /\ Paired(p0)
  <2> HIDE DEF x, y
  <2>1. p0 \in Seq({x, y}) /\ DOMAIN p0 = {1, 2} /\ p0[1] = x /\ p0[2] = y
    OBVIOUS
  <2>2. IsSeq(p0) /\ Range(p0) = {x, y}
    BY <2>1, SeqWithin DEF Range
  <2>3. Sequel["CREATE_ROLE"] = "GRANT_ROLE"
    BY DEF Sequel
  <2> QED
    BY <1>2, <2>1, <2>2, <2>3 DEF Paired
<1>4. /\ OnObjects(RoleGrants(r)) \subseteq RoleGrants(r) /\ OnAccount(RoleGrants(r)) \subseteq RoleGrants(r)
      /\ OnObjects(RoleGrants(r)) \cup OnAccount(RoleGrants(r)) = RoleGrants(r)
      /\ RoleGrants(r) \subseteq Held
  BY OwnGrants DEF OnObjects, OnAccount, NotOwnership
<1>5. /\ IsSeq(p1) /\ Range(p1) = {Statement("GRANT", g) : g \in OnObjects(RoleGrants(r))}
      /\ IsSeq(p2) /\ Range(p2) = {Statement("GRANT", g) : g \in OnAccount(RoleGrants(r))}
  BY <1>4, GrantingEach
<1>6. /\ IsSeq(p3) /\ Shaped(r, p3)
      /\ \A z : z \in Range(p3) <=> \E f \in RoleFutures(r) : z \in Range(h[f])
      /\ \A z \in Range(p3) : z \in S /\ z.op # "CREATE_ROLE"
  <2>1. p3 = FlattenSeq([i \in DOMAIN F |-> h[F[i]]])
    <3>1. \A i \in DOMAIN F : F[i] \in RoleFutures(r)
      BY OwnGrants, BothOrders
    <3>2. [i \in DOMAIN F |-> h[F[i]]] = [i \in DOMAIN F |-> CreateFutureGrant(F[i])]
      BY <3>1
    <3> QED
      BY <3>2 DEF Each
  <2>2. \A f \in RoleFutures(r) : h[f] \in {<<>>, ApplyFutureGrant(f), CreateFutureGrant(f)}
    OBVIOUS
  <2> HIDE DEF p3, F, h, S
  <2>3. F = ReadFirst(RoleFutures(r))
    BY DEF F
  <2> QED
    BY <2>1, <2>2, <2>3, FuturesInTurn DEF S
<1>7. ASSUME NEW f \in RoleFutures(r)
      PROVE  Statement("GRANT_FUTURE", f) \in Range(p3) /\ Statement("GRANT_ALL", f) \in Range(p3)
  <2>1. Range(h[f]) = {Statement("GRANT_FUTURE", f), Statement("GRANT_ALL", f)}
    BY DEF CreateFutureGrant, Range
  <2> HIDE DEF h, p3
  <2> QED
    BY <1>6, <2>1
<1> HIDE DEF p0, p1, p2, p3, S, x, y, h
<1> DEFINE q1 == p0 \o p1
           q2 == q1 \o p2
<1>8. IsSeq(q1) /\ Range(q1) = Range(p0) \cup Range(p1)
  BY <1>3, <1>5, JoinIsSeq
<1> HIDE DEF q1
<1>9. IsSeq(q2) /\ Range(q2) = Range(q1) \cup Range(p2)
  BY <1>5, <1>8, JoinIsSeq
<1>10. ASSUME NEW z \in Range(p1) \cup Range(p2) PROVE z.op = "GRANT" /\ z \in S
  BY <1>4, <1>5, StatementFields DEF S, RoleWants
<1>11. ASSUME NEW z \in Range(q2) PROVE z \in S /\ z.op \notin {"GRANT_FUTURE", "GRANT_ALL"}
  BY <1>2, <1>3, <1>8, <1>9, <1>10
<1>12. Paired(q2)
  <2> DEFINE A == Range(p0) \cup Range(p1) \cup Range(p2)
  <2>1. p0 \in Seq(A) /\ p1 \in Seq(A) /\ p2 \in Seq(A) /\ q1 \in Seq(A)
    BY <1>3, <1>5, <1>8, SeqIn
  <2>2. Paired(p1) /\ Paired(p2)
    BY <1>10, PairedNone
  <2> HIDE DEF A
  <2>3. Paired(q1)
    BY <1>3, <2>1, <2>2, PairedJoin DEF q1
  <2> QED
    BY <2>1, <2>2, <2>3, PairedJoin
<1>13. CreateRole(r) = q2 \o p3
  BY <1>1 DEF q1
<1> HIDE DEF q2
<1>14. IsSeq(CreateRole(r)) /\ Range(CreateRole(r)) = Range(q2) \cup Range(p3)
  BY <1>6, <1>9, <1>13, JoinIsSeq
<1>15. Shaped(r, CreateRole(r))
  BY <1>6, <1>9, <1>11, <1>12, <1>13, ShapedWithFutures DEF S
<1>16. \A g \in RoleGrants(r) : Statement("GRANT", g) \in Range(p1) \cup Range(p2)
  BY <1>4, <1>5
<1>17. x \in Range(q2) /\ Range(p1) \cup Range(p2) \subseteq Range(q2)
  BY <1>3, <1>8, <1>9
<1>18. Range(CreateRole(r)) \subseteq S
  BY <1>6, <1>11, <1>14
<1> QED
  BY <1>7, <1>14, <1>15, <1>16, <1>17, <1>18 DEF S, x

\* compare_object of a role
LEMMA CompareRoleIs ==
  ASSUME scenario \in Scenarios, NEW r \in Roles, NEW row,
         row.held \subseteq {g \in Held : g.role = r}, row.futures \subseteq {f \in Futures : f.role = r}
  PROVE  /\ IsSeq(CompareRole(r, row)) /\ Range(CompareRole(r, row)) \subseteq RoleWants(r)
         /\ Shaped(r, CompareRole(r, row))
         /\ \A g \in RoleGrants(r) \ row.held : Statement("GRANT", g) \in Range(CompareRole(r, row))
         /\ \A h \in row.held : Gives(r, h) \/ Taking(h) \in Range(CompareRole(r, row))
         /\ \A f \in RoleFutures(r) \ row.futures :
              /\ Statement("GRANT_FUTURE", f) \in Range(CompareRole(r, row))
              /\ Statement("GRANT_ALL", f) \in Range(CompareRole(r, row))
         /\ \A f \in row.futures \ RoleFutures(r) :
              Statement("REVOKE_FUTURE", f) \in Range(CompareRole(r, row))
         /\ HasOption("refresh_future_grants") =>
              \A f \in RoleFutures(r) : Statement("GRANT_ALL", f) \in Range(CompareRole(r, row))
         /\ (/\ RoleGrants(r) \subseteq row.held /\ \A h \in row.held : Gives(r, h)
             /\ row.futures = RoleFutures(r) /\ ~HasOption("refresh_future_grants")) =>
               Range(CompareRole(r, row)) = {}
<1> DEFINE revoked == {g \in OnObjects(row.held) \ RoleGrants(r) : ~KeptByFuture(r, g)}
           onAccount == OnAccount(row.held) \ RoleGrants(r)
           New(f) == IF f \notin row.futures THEN CreateFutureGrant(f)
                     ELSE IF HasOption("refresh_future_grants") THEN ApplyFutureGrant(f)
                     ELSE <<>>
           h == [f \in RoleFutures(r) |-> New(f)]
           F == ReadFirst(RoleFutures(r))
           S == RoleWants(r)
           p1 == Each(DropGrant, WriteFirst(revoked))
           p2 == Each(CreateGrant, ReadFirst(OnObjects(RoleGrants(r)) \ row.held))
           p3 == Each(DropGrant, WriteFirst(onAccount))
           p4 == Each(CreateGrant, ReadFirst(OnAccount(RoleGrants(r)) \ row.held))
           p5 == Each(DropFutureGrant, WriteFirst(row.futures \ RoleFutures(r)))
           p6 == Each(New, F)
<1>1. CompareRole(r, row) = ((((p1 \o p2) \o p3) \o p4) \o p5) \o p6
  BY DEF CompareRole
<1>2. ASSUME NEW g \in row.held
      PROVE  Gives(r, g) <=> g \notin revoked \cup onAccount
  <2>1. Gives(r, g) <=> g \in RoleGrants(r) \/ KeptByFuture(r, g)
    BY GivesIs
  <2>2. g.on = Account => ~KeptByFuture(r, g)
    BY DEF KeptByFuture
  <2> QED
    BY <2>1, <2>2 DEF OnObjects, OnAccount
<1>3. revoked \subseteq row.held /\ onAccount \subseteq row.held /\ row.held \subseteq Held
  BY DEF OnObjects, OnAccount
<1>4. revoked \cup onAccount \subseteq NotGiven(r)
  BY <1>2, <1>3 DEF NotGiven
<1>5. /\ OnObjects(RoleGrants(r)) \subseteq RoleGrants(r) /\ OnAccount(RoleGrants(r)) \subseteq RoleGrants(r)
      /\ OnObjects(RoleGrants(r)) \cup OnAccount(RoleGrants(r)) = RoleGrants(r)
      /\ RoleGrants(r) \subseteq Held
  BY OwnGrants DEF OnObjects, OnAccount, NotOwnership
<1>6. /\ IsSeq(p1) /\ Range(p1) = {Taking(g) : g \in revoked}
      /\ IsSeq(p3) /\ Range(p3) = {Taking(g) : g \in onAccount}
  <2> HIDE DEF revoked, onAccount
  <2> QED
    BY <1>3, TakingEach
<1>7. /\ IsSeq(p2) /\ Range(p2) = {Statement("GRANT", g) : g \in OnObjects(RoleGrants(r)) \ row.held}
      /\ IsSeq(p4) /\ Range(p4) = {Statement("GRANT", g) : g \in OnAccount(RoleGrants(r)) \ row.held}
  BY <1>5, GrantingEach
<1>8. IsSeq(p5) /\ Range(p5) = {Statement("REVOKE_FUTURE", f) : f \in row.futures \ RoleFutures(r)}
  BY RevokingEach
<1>9. /\ IsSeq(p6) /\ Shaped(r, p6)
      /\ \A z : z \in Range(p6) <=> \E f \in RoleFutures(r) : z \in Range(h[f])
      /\ \A z \in Range(p6) : z \in S /\ z.op # "CREATE_ROLE"
  <2>1. p6 = FlattenSeq([i \in DOMAIN F |-> h[F[i]]])
    <3>1. \A i \in DOMAIN F : F[i] \in RoleFutures(r)
      BY OwnGrants, BothOrders
    <3> HIDE DEF New, F
    <3>2. [i \in DOMAIN F |-> h[F[i]]] = [i \in DOMAIN F |-> New(F[i])]
      BY <3>1
    <3> QED
      BY <3>2 DEF Each
  <2>2. \A f \in RoleFutures(r) : h[f] \in {<<>>, ApplyFutureGrant(f), CreateFutureGrant(f)}
    OBVIOUS
  <2> HIDE DEF p6, F, h, S, New
  <2>3. F = ReadFirst(RoleFutures(r))
    BY DEF F
  <2> QED
    BY <2>1, <2>2, <2>3, FuturesInTurn DEF S
<1>10. ASSUME NEW f \in RoleFutures(r)
       PROVE  /\ f \notin row.futures => /\ Statement("GRANT_FUTURE", f) \in Range(p6)
                                         /\ Statement("GRANT_ALL", f) \in Range(p6)
              /\ HasOption("refresh_future_grants") => Statement("GRANT_ALL", f) \in Range(p6)
  <2>1. /\ Range(CreateFutureGrant(f)) = {Statement("GRANT_FUTURE", f), Statement("GRANT_ALL", f)}
        /\ Range(ApplyFutureGrant(f)) = {Statement("GRANT_ALL", f)}
    BY DEF CreateFutureGrant, ApplyFutureGrant, Range
  <2>2. h[f] = New(f)
    OBVIOUS
  <2> HIDE DEF h, p6
  <2> QED
    BY <1>9, <2>1, <2>2
<1>100. ASSUME row.futures = RoleFutures(r), ~HasOption("refresh_future_grants")
        PROVE  Range(p6) = {}
  <2>1. \A f \in RoleFutures(r) : h[f] = <<>>
    BY <1>100
  <2> HIDE DEF h, p6
  <2> QED
    BY <1>9, <2>1, EmptyIsSeq
<1> HIDE DEF p1, p2, p3, p4, p5, p6, S, h, New, F
<1>11. ASSUME NEW z \in Range(p1) \cup Range(p2) \cup Range(p3) \cup Range(p4) \cup Range(p5)
       PROVE  z \in S /\ z.op \in {"TRANSFER", "REVOKE", "GRANT", "REVOKE_FUTURE"}
  <2>1. CASE z \in Range(p1) \cup Range(p3)
    <3>1. PICK g \in revoked \cup onAccount : z = Taking(g)
      BY <1>6, <2>1
    <3>2. z.op \in {"TRANSFER", "REVOKE"}
      BY <3>1, StatementFields DEF Taking
    <3>3. z \in S
      BY <1>4, <3>1 DEF S, RoleWants
    <3> QED
      BY <3>2, <3>3
  <2>2. CASE z \in Range(p2) \cup Range(p4)
    BY <1>5, <1>7, <2>2, StatementFields DEF S, RoleWants
  <2>3. CASE z \in Range(p5)
    <3>1. PICK f \in row.futures \ RoleFutures(r) : z = Statement("REVOKE_FUTURE", f)
      BY <1>8, <2>3
    <3>2. f \in NotDeclared(r)
      BY <3>1 DEF NotDeclared
    <3> QED
      BY <3>1, <3>2, StatementFields DEF S, RoleWants
  <2> QED
    BY <1>11, <2>1, <2>2, <2>3
<1> DEFINE q2 == p1 \o p2
           q3 == q2 \o p3
           q4 == q3 \o p4
           q5 == q4 \o p5
<1>12. IsSeq(q2) /\ Range(q2) = Range(p1) \cup Range(p2)
  BY <1>6, <1>7, JoinIsSeq
<1>13. CompareRole(r, row) = q5 \o p6
  BY <1>1
<1> HIDE DEF q2
<1>14. IsSeq(q3) /\ Range(q3) = Range(q2) \cup Range(p3)
  BY <1>6, <1>12, JoinIsSeq
<1> HIDE DEF q3
<1>15. IsSeq(q4) /\ Range(q4) = Range(q3) \cup Range(p4)
  BY <1>7, <1>14, JoinIsSeq
<1> HIDE DEF q4
<1>16. IsSeq(q5) /\ Range(q5) = Range(q4) \cup Range(p5)
  BY <1>8, <1>15, JoinIsSeq
<1> HIDE DEF q5
<1>17. Range(q5) = Range(p1) \cup Range(p2) \cup Range(p3) \cup Range(p4) \cup Range(p5)
  BY <1>12, <1>14, <1>15, <1>16
<1>18. \A z \in Range(q5) : z \in S /\ z.op \in {"TRANSFER", "REVOKE", "GRANT", "REVOKE_FUTURE"}
  BY <1>11, <1>17
<1>19. Paired(q5)
  BY <1>18, PairedNone
<1>20. IsSeq(CompareRole(r, row)) /\ Range(CompareRole(r, row)) = Range(q5) \cup Range(p6)
  BY <1>9, <1>13, <1>16, JoinIsSeq
<1>21. Shaped(r, CompareRole(r, row))
  BY <1>9, <1>13, <1>16, <1>18, <1>19, ShapedWithFutures DEF S
<1>22. Range(CompareRole(r, row)) \subseteq S
  BY <1>9, <1>18, <1>20
<1>23. \A g \in RoleGrants(r) \ row.held : Statement("GRANT", g) \in Range(q5)
  BY <1>5, <1>7, <1>17
<1>24. \A g \in row.held : Gives(r, g) \/ Taking(g) \in Range(q5)
  BY <1>2, <1>6, <1>17
<1>25. \A f \in row.futures \ RoleFutures(r) : Statement("REVOKE_FUTURE", f) \in Range(q5)
  BY <1>8, <1>17
<1>26. ASSUME RoleGrants(r) \subseteq row.held, \A g \in row.held : Gives(r, g),
              row.futures = RoleFutures(r), ~HasOption("refresh_future_grants")
       PROVE  Range(CompareRole(r, row)) = {}
  <2>1. revoked = {} /\ onAccount = {}
    BY <1>2, <1>3, <1>26
  <2> HIDE DEF revoked, onAccount
  <2>2. Range(q5) = {}
    BY <1>5, <1>6, <1>7, <1>8, <1>17, <1>26, <2>1
  <2> QED
    BY <1>20, <1>26, <1>100, <2>2
<1> QED
  BY <1>10, <1>20, <1>21, <1>22, <1>23, <1>24, <1>25, <1>26 DEF S

-----------------------------------------------------------------------------
(* What one statement does.                                                *)

\* Grants and future grants are those of roles there are, what is to be
\* replaced exists, and nobody else's future grants change.
AccountIsSound ==
  /\ \A g \in account.held \cup account.futures : g.role \in account.roles
  /\ account.stale \subseteq account.objects
  /\ \A f \in Futures : f.role \notin Managed =>
       (f \in account.futures <=> f \in scenario.account.futures)

\* What the resolver read is still so when it decides.
RowsAreCurrent ==
  pc = "drop" => \A n \in Resolved \cap Declared :
    /\ n \in DOMAIN rows <=> n \in account.roles \cup account.objects
    /\ n \in Roles /\ n \in DOMAIN rows =>
         rows[n].held = OfRole(account.held, n) /\ rows[n].futures = OfRole(account.futures, n)

\* Drop tasks are of what is not declared; the others bring declared names
\* nearer to their blueprints.
TasksAreWanted ==
  /\ pc = "drop" => DOMAIN task \cap Declared = {}
  /\ pc = "create" => DOMAIN task = Resolved \cap Declared
  /\ pc = "create" => \A n \in DOMAIN task : /\ Range(task[n]) \subseteq Wants(n)
                                             /\ n \in Roles => Shaped(n, task[n])

\* The account after a step.
Becomes(roles, ours, held, futures, objects, stale) ==
  /\ account'.roles = roles /\ account'.ours = ours /\ account'.held = held
  /\ account'.futures = futures /\ account'.objects = objects /\ account'.stale = stale

\* What a drop task does.
DropEffect(n, s) ==
  \/ /\ n \in Roles /\ s = RoleStatement("DROP_ROLE", n)
     /\ Becomes(account.roles \ {n}, account.ours \ {n}, account.held \ OfRole(account.held, n),
                account.futures \ OfRole(account.futures, n), account.objects, account.stale)
  \/ /\ n \in Objects /\ s = ObjectStatement("DROP", n) /\ n \in account.objects
     /\ Becomes(account.roles, account.ours, account.held \ On({n}), account.futures,
                account.objects \ {n}, account.stale \ {n})

\* What a role's statement does.
RoleEffect(n, s) ==
  \/ /\ s = RoleStatement("CREATE_ROLE", n) /\ n \notin account.roles
     /\ Becomes(account.roles \cup {n}, account.ours, account.held, account.futures,
                account.objects, account.stale)
  \/ /\ s = RoleStatement("GRANT_ROLE", n) /\ n \in account.roles
     /\ Becomes(account.roles, account.ours \cup {n}, account.held, account.futures,
                account.objects, account.stale)
  \/ \E g \in RoleGrants(n) :
       /\ s = Statement("GRANT", g) /\ n \in account.roles
       /\ Becomes(account.roles, account.ours, account.held \cup {g}, account.futures,
                  account.objects, account.stale)
  \/ \E g \in NotGiven(n) :
       /\ s = Taking(g)
       /\ Becomes(account.roles, account.ours, account.held \ {g}, account.futures,
                  account.objects, account.stale)
  \/ \E f \in RoleFutures(n) :
       /\ s = Statement("GRANT_FUTURE", f) /\ n \in account.roles
       /\ Becomes(account.roles, account.ours, account.held, account.futures \cup {f},
                  account.objects, account.stale)
  \/ \E f \in RoleFutures(n) :
       /\ s = Statement("GRANT_ALL", f) /\ n \in account.roles
       /\ Becomes(account.roles, account.ours,
                  (account.held \ (IF f.privilege = "OWNERSHIP" THEN OwnedIn(Existing(f.on)) ELSE {}))
                    \cup {Grant(n, f.privilege, o) : o \in Existing(f.on)},
                  account.futures, account.objects, account.stale)
  \/ \E f \in NotDeclared(n) :
       /\ s = Statement("REVOKE_FUTURE", f)
       /\ Becomes(account.roles, account.ours, account.held, account.futures \ {f},
                  account.objects, account.stale)

\* What an object's statement does.
ObjectEffect(n, s) ==
  \/ /\ s = ObjectStatement("CREATE", n) /\ n \notin account.objects
     /\ Becomes(account.roles, account.ours, account.held \cup FutureGrantsOn(n), account.futures,
                account.objects \cup {n}, account.stale)
  \/ /\ s = ObjectStatement("REPLACE", n) /\ n \in account.objects
     /\ Becomes(account.roles, account.ours, (account.held \ On({n})) \cup FutureGrantsOn(n),
                account.futures, account.objects, account.stale \ {n})
  \/ \E e \in Entries(n) : \E u \in e.roles :
       /\ s = Statement("GRANT", Grant(u, e.privilege, n)) /\ u \in account.roles
       /\ n \in account.objects
       /\ Becomes(account.roles, account.ours, account.held \cup {Grant(u, e.privilege, n)},
                  account.futures, account.objects, account.stale)
  \/ \E e \in Entries(n) : \E u \in Roles \ e.roles :
       /\ s = Statement("REVOKE_UNSAFE", Grant(u, e.privilege, n))
       /\ Becomes(account.roles, account.ours, account.held \ {Grant(u, e.privilege, n)},
                  account.futures, account.objects, account.stale)

\* What the statement s of the worker of n does.
Effect(n, s) ==
  \/ pc = "drop" /\ n \notin Declared /\ DropEffect(n, s)
  \/ pc = "create" /\ n \in Roles /\ n \in config.roles /\ RoleEffect(n, s)
  \/ pc = "create" /\ n \in Objects /\ n \in config.objects /\ ObjectEffect(n, s)

\* The account, field by field.
LEMMA AccountIs ==
  ASSUME account \in AccountRecords
  PROVE  /\ account.roles \subseteq Roles /\ account.ours \subseteq Roles
         /\ account.held \subseteq Held /\ account.futures \subseteq Futures
         /\ account.objects \subseteq Objects /\ account.stale \subseteq Objects
         /\ account = [roles |-> account.roles, ours |-> account.ours, held |-> account.held,
                       futures |-> account.futures, objects |-> account.objects,
                       stale |-> account.stale]
  BY DEF AccountRecords

\* The drop phase.
LEMMA DropHas ==
  ASSUME account \in AccountRecords, NEW n \in Roles \cup Objects, NEW s, s = DropOf(n), IsLegal(s),
         account' = AccountAfter(s)
  PROVE  DropEffect(n, s)
<1>1. account = [roles |-> account.roles, ours |-> account.ours, held |-> account.held,
                 futures |-> account.futures, objects |-> account.objects,
                 stale |-> account.stale]
  BY AccountIs
<1>2. CASE n \in Roles
  <2>1. s = RoleStatement("DROP_ROLE", n) /\ s.op = "DROP_ROLE" /\ s.role = n
    BY <1>2 DEF DropOf, RoleStatement, Statement, Grant
  <2> QED
    BY <1>1, <1>2, <2>1 DEF AccountAfter, DropEffect, Becomes
<1>3. CASE n \notin Roles
  <2>1. s = ObjectStatement("DROP", n) /\ s.op = "DROP" /\ s.on = n /\ n \in Objects
    BY <1>3 DEF DropOf, ObjectStatement, Statement, Grant
  <2>2. n \in account.objects
    BY <2>1 DEF IsLegal
  <2> QED
    BY <1>1, <2>1, <2>2 DEF AccountAfter, DropEffect, Becomes
<1> QED
  BY <1>2, <1>3

\* The roles.
LEMMA RoleHas ==
  ASSUME scenario \in Scenarios, account \in AccountRecords, NEW n \in Roles, NEW s \in RoleWants(n),
         IsLegal(s), account' = AccountAfter(s),
         s.op = "TRANSFER" => OwnedIn({s.on}) \subseteq {Grant(n, "OWNERSHIP", s.on)}
  PROVE  RoleEffect(n, s)
<1>1. account = [roles |-> account.roles, ours |-> account.ours, held |-> account.held,
                 futures |-> account.futures, objects |-> account.objects,
                 stale |-> account.stale]
  BY AccountIs
<1>2. CASE s = RoleStatement("CREATE_ROLE", n)
  <2>1. s.op = "CREATE_ROLE" /\ s.role = n
    BY <1>2 DEF RoleStatement, Statement, Grant
  <2> QED
    BY <1>1, <1>2, <2>1 DEF AccountAfter, RoleEffect, Becomes, IsLegal
<1>3. CASE s = RoleStatement("GRANT_ROLE", n)
  <2>1. s.op = "GRANT_ROLE" /\ s.role = n
    BY <1>3 DEF RoleStatement, Statement, Grant
  <2>2. n \in account.roles
    BY <2>1 DEF IsLegal
  <2> QED
    BY <1>1, <1>3, <2>1, <2>2 DEF AccountAfter, RoleEffect, Becomes
<1>4. ASSUME NEW g \in RoleGrants(n), s = Statement("GRANT", g) PROVE RoleEffect(n, s)
  <2>1. g \in Held /\ g.role = n
    BY OwnGrants DEF RoleGrants, OfRole, NotOwnership
  <2>2. s.op = "GRANT" /\ s.role = n /\ GrantOf(s) = g
    BY <1>4, <2>1, GrantOfStatement, StatementFields
  <2>3. n \in account.roles
    BY <2>2 DEF IsLegal
  <2> QED
    BY <1>1, <1>4, <2>2, <2>3 DEF AccountAfter, GrantOf, RoleEffect, Becomes
<1>5. ASSUME NEW g \in NotGiven(n), s = Taking(g) PROVE RoleEffect(n, s)
  <2>1. g \in Held /\ g.role = n
    BY DEF NotGiven
  <2>2. Becomes(account.roles, account.ours, account.held \ {g}, account.futures,
                account.objects, account.stale)
    <3>1. CASE g.privilege = "OWNERSHIP"
      <4>1. s = Statement("TRANSFER", g) /\ s.op = "TRANSFER" /\ s.on = g.on
        BY <1>5, <3>1, StatementFields DEF Taking
      <4>2. g = Grant(n, "OWNERSHIP", s.on)
        BY <2>1, <3>1, <4>1 DEF Held, Grant
      <4>3. OwnedIn({s.on}) \subseteq {g}
        BY <4>1, <4>2
      <4>4. g \in account.held => g \in OwnedIn({s.on})
        BY <3>1, <4>1 DEF OwnedIn, On
      <4>5. OwnedIn({s.on}) \subseteq account.held
        BY DEF OwnedIn, On
      <4>6. account.held \ OwnedIn({s.on}) = account.held \ {g}
        BY <4>3, <4>4, <4>5
      <4> QED
        BY <1>1, <4>1, <4>6 DEF AccountAfter, Becomes
    <3>2. CASE g.privilege # "OWNERSHIP"
      <4>1. s = Statement("REVOKE", g) /\ s.op = "REVOKE"
        BY <1>5, <3>2, StatementFields DEF Taking
      <4>2. GrantOf(s) = g
        BY <2>1, <4>1, GrantOfStatement
      <4> QED
        BY <1>1, <4>1, <4>2 DEF AccountAfter, GrantOf, Becomes
    <3> QED
      BY <3>1, <3>2
  <2> QED
    BY <1>5, <2>2 DEF RoleEffect
<1>6. ASSUME NEW f \in RoleFutures(n), s = Statement("GRANT_FUTURE", f) PROVE RoleEffect(n, s)
  <2>1. f \in Futures /\ f.role = n
    BY OwnGrants DEF RoleFutures, OfRole
  <2>2. s.op = "GRANT_FUTURE" /\ s.role = n /\ GrantOf(s) = f
    BY <1>6, <2>1, GrantOfStatement, StatementFields
  <2>3. n \in account.roles
    BY <2>2 DEF IsLegal
  <2> QED
    BY <1>1, <1>6, <2>2, <2>3 DEF AccountAfter, GrantOf, RoleEffect, Becomes
<1>7. ASSUME NEW f \in RoleFutures(n), s = Statement("GRANT_ALL", f) PROVE RoleEffect(n, s)
  <2>1. f \in Futures /\ f.role = n
    BY OwnGrants DEF RoleFutures, OfRole
  <2>2. s.op = "GRANT_ALL" /\ s.role = n /\ s.privilege = f.privilege /\ s.on = f.on
    BY <1>7, <2>1, StatementFields
  <2>3. n \in account.roles
    BY <2>2 DEF IsLegal
  <2>4. Becomes(account.roles, account.ours,
                (account.held \ (IF f.privilege = "OWNERSHIP" THEN OwnedIn(Existing(f.on)) ELSE {}))
                  \cup {Grant(n, f.privilege, o) : o \in Existing(f.on)},
                account.futures, account.objects, account.stale)
    BY <1>1, <2>2 DEF AccountAfter, Becomes
  <2> QED
    BY <1>7, <2>3, <2>4 DEF RoleEffect
<1>8. ASSUME NEW f \in NotDeclared(n), s = Statement("REVOKE_FUTURE", f) PROVE RoleEffect(n, s)
  <2>1. f \in Futures
    BY DEF NotDeclared
  <2>2. s.op = "REVOKE_FUTURE" /\ GrantOf(s) = f
    BY <1>8, <2>1, GrantOfStatement
  <2> QED
    BY <1>1, <1>8, <2>2 DEF AccountAfter, GrantOf, RoleEffect, Becomes
<1> QED
  BY <1>2, <1>3, <1>4, <1>5, <1>6, <1>7, <1>8 DEF RoleWants

\* The objects.
LEMMA ObjectHas ==
  ASSUME scenario \in Scenarios, account \in AccountRecords, NEW n \in config.objects,
         NEW s \in ObjectWants(n), s.op # "SHOW_GRANTS", IsLegal(s), account' = AccountAfter(s)
  PROVE  ObjectEffect(n, s)
<1>1. account = [roles |-> account.roles, ours |-> account.ours, held |-> account.held,
                 futures |-> account.futures, objects |-> account.objects,
                 stale |-> account.stale]
  BY AccountIs
<1>2. CASE s = ObjectStatement("CREATE", n)
  <2>1. s.op = "CREATE" /\ s.on = n
    BY <1>2 DEF ObjectStatement, Statement, Grant
  <2> QED
    BY <1>1, <1>2, <2>1 DEF AccountAfter, ObjectEffect, Becomes, IsLegal
<1>3. CASE s = ObjectStatement("REPLACE", n)
  <2>1. s.op = "REPLACE" /\ s.on = n
    BY <1>3 DEF ObjectStatement, Statement, Grant
  <2> QED
    BY <1>1, <1>3, <2>1 DEF AccountAfter, ObjectEffect, Becomes, IsLegal
<1>4. ASSUME NEW e \in Entries(n), NEW u \in e.roles, s = Statement("GRANT", Grant(u, e.privilege, n))
      PROVE  ObjectEffect(n, s)
  <2>1. s.op = "GRANT" /\ s.role = u /\ s.privilege = e.privilege /\ s.on = n
    BY <1>4 DEF Statement, Grant
  <2>2. n \in Objects /\ n # Account
    BY ConfigIsSound, Names
  <2>3. u \in account.roles /\ n \in account.objects
    BY <2>1, <2>2 DEF IsLegal
  <2>4. Becomes(account.roles, account.ours, account.held \cup {Grant(u, e.privilege, n)},
                account.futures, account.objects, account.stale)
    BY <1>1, <2>1 DEF AccountAfter, Becomes
  <2> QED
    BY <1>4, <2>3, <2>4 DEF ObjectEffect
<1>5. ASSUME NEW e \in Entries(n), NEW u \in Roles \ e.roles,
             s = Statement("REVOKE_UNSAFE", Grant(u, e.privilege, n))
      PROVE  ObjectEffect(n, s)
  <2>1. s.op = "REVOKE_UNSAFE" /\ s.role = u /\ s.privilege = e.privilege /\ s.on = n
    BY <1>5 DEF Statement, Grant
  <2>2. Becomes(account.roles, account.ours, account.held \ {Grant(u, e.privilege, n)},
                account.futures, account.objects, account.stale)
    BY <1>1, <2>1 DEF AccountAfter, Becomes
  <2> QED
    BY <1>5, <2>2 DEF ObjectEffect
<1>6. s # ObjectStatement("SHOW_GRANTS", n)
  BY DEF ObjectStatement, Statement, Grant
<1> QED
  BY <1>2, <1>3, <1>4, <1>5, <1>6 DEF ObjectWants, Granting, Revoking

\* A worker executes its next statement.
LEMMA ExecuteHas ==
  ASSUME KeepInv, TasksAreWanted, NEW n, Execute(n)
  PROVE  /\ n \in DOMAIN task /\ n \in Resolved /\ n \in Roles \cup Objects
         /\ task[n] # <<>> /\ IsSeq(task[n]) /\ IsSeq(Tail(task[n]))
         /\ task' = [task EXCEPT ![n] = Tail(task[n])] /\ DOMAIN task' = DOMAIN task
         /\ Left(n)' = Range(Tail(task[n])) /\ Left(n)' \subseteq Left(n) /\ Left(n) = Range(task[n])
         /\ \A x \in Left(n) : x = Head(task[n]) \/ x \in Left(n)'
         /\ \A m : m # n => Left(m)' = Left(m)
         /\ UNCHANGED << scenario, inv, pc, idx, rows, errors, suggested, faults, history >>
         /\ Invocation.action = "apply"
         /\ Effect(n, Head(task[n]))
<1> DEFINE s == Head(task[n])
<1>1. /\ HasStatement(n) /\ s.op # "SHOW_GRANTS" /\ IsLegal(s) /\ CanRun(s)
      /\ account' = AccountAfter(s) /\ task' = [task EXCEPT ![n] = Tail(task[n])]
      /\ UNCHANGED << scenario, inv, pc, idx, rows, errors, suggested, faults, history >>
  BY DEF Execute, Advance, IsDDL
<1>2. /\ TypesFit /\ TasksFit /\ RowsFit /\ TransfersFit
      /\ scenario \in Scenarios /\ account \in AccountRecords
  BY DEF KeepInv, TypesFit
<1>3. /\ n \in DOMAIN task /\ n \in Roles \cup Objects /\ s \in Range(task[n]) /\ task[n] # <<>>
      /\ IsSeq(task[n]) /\ IsSeq(Tail(task[n])) /\ Range(Tail(task[n])) \subseteq Range(task[n])
      /\ s \in NextStatements(n)
      /\ pc = "drop" => s = DropOf(n)
  BY <1>1, <1>2, TheNext DEF HasStatement
<1>4. pc \in {"drop", "create"} /\ n \in Resolved
  BY <1>2, <1>3, WhileWorking
<1>5. /\ DOMAIN task' = DOMAIN task /\ task'[n] = Tail(task[n])
      /\ \A m : m \in DOMAIN task /\ m # n => task'[m] = task[m]
  BY <1>1, <1>3
<1>6. /\ Left(n)' = Range(Tail(task[n])) /\ Left(n) = Range(task[n])
      /\ \A m : m # n => Left(m)' = Left(m)
  BY <1>3, <1>5 DEF Left
<1>7. \A x \in Range(task[n]) : x = s \/ x \in Range(Tail(task[n]))
  BY <1>3, RangeOfTail
<1> HIDE DEF s
<1>8. CASE pc = "drop"
  <2>1. n \notin Declared
    BY <1>3, <1>8 DEF TasksAreWanted
  <2>2. DropEffect(n, s)
    BY <1>1, <1>2, <1>3, <1>8, DropHas
  <2>3. Effect(n, s)
    BY <1>8, <2>1, <2>2 DEF Effect
  <2> QED
    BY <1>1, <1>3, <1>4, <1>5, <1>6, <1>7, <2>3 DEF CanRun, s
<1>9. CASE pc = "create"
  <2>1. n \in Declared /\ s \in Wants(n)
    BY <1>3, <1>9 DEF TasksAreWanted
  <2>2. ASSUME n \in Roles PROVE Effect(n, s)
    <3>1. n \in config.roles
      BY <1>2, <2>1, <2>2, ConfigIsSound, Names DEF Declared
    <3>2. s.op = "TRANSFER" => OwnedIn({s.on}) \subseteq {Grant(n, "OWNERSHIP", s.on)}
      BY <1>2, <1>3 DEF TransfersFit
    <3>3. s \in RoleWants(n)
      BY <2>1, <2>2 DEF Wants
    <3>4. RoleEffect(n, s)
      BY <1>1, <1>2, <2>2, <3>2, <3>3, RoleHas
    <3> QED
      BY <1>9, <2>2, <3>1, <3>4 DEF Effect
  <2>3. ASSUME n \notin Roles PROVE Effect(n, s)
    <3>1. n \in config.objects /\ n \in Objects
      BY <1>2, <1>3, <2>1, <2>3, ConfigIsSound DEF Declared
    <3>2. s \in ObjectWants(n)
      BY <2>1, <2>3 DEF Wants
    <3>3. ObjectEffect(n, s)
      BY <1>1, <1>2, <3>1, <3>2, ObjectHas
    <3> QED
      BY <1>9, <3>1, <3>3 DEF Effect
  <2>4. Effect(n, s)
    BY <2>2, <2>3
  <2> QED
    BY <1>1, <1>3, <1>4, <1>5, <1>6, <1>7, <2>4 DEF CanRun, s
<1> QED
  BY <1>4, <1>8, <1>9

\* What may happen to the roles, and to which of them are granted.
RolesChange(n, s) ==
  /\ \A r \in account.roles : \/ r \in account'.roles
                              \/ /\ r = n /\ n \notin Declared
                                 /\ \A g \in account'.held \cup account'.futures : g.role # n
  /\ \A r \in account'.roles : \/ r \in account.roles
                               \/ r = n /\ n \in config.roles /\ s = RoleStatement("CREATE_ROLE", n)
  /\ \A r \in account.ours : r \in account'.ours \/ (r = n /\ n \notin Declared)

\* To future grants.
FuturesChange(n, s) ==
  /\ \A f \in account.futures : f \in account'.futures \/ (f.role = n /\ f \notin config.futures)
  /\ \A f \in account'.futures :
       \/ f \in account.futures
       \/ /\ n \in config.roles /\ n \in account.roles
          /\ f \in RoleFutures(n) /\ s = Statement("GRANT_FUTURE", f)

\* To the objects.
ObjectsChange(n, s) ==
  /\ \A o \in account.objects : o \in account'.objects \/ (o = n /\ n \notin Declared)
  /\ \A o \in account'.objects : \/ o \in account.objects
                                 \/ o = n /\ n \in config.objects /\ s = ObjectStatement("CREATE", n)
  /\ account'.stale \subseteq account.stale
  /\ \A o \in account.stale : \/ o \in account'.stale \cup (Objects \ account'.objects)
                              \/ o = n /\ s = ObjectStatement("REPLACE", n)
  /\ account.stale \subseteq account.objects => account'.stale \subseteq account'.objects
  /\ n \in Roles => account'.objects = account.objects /\ account'.stale = account.stale

\* To what is held.
HeldChange(n, s) ==
  /\ \A h \in account'.held :
       \/ h \in account.held
       \/ n \in config.roles /\ n \in account.roles /\ h.role = n /\ Gives(n, h)
       \/ /\ n \in config.objects /\ h.on = n /\ s.op \in {"CREATE", "REPLACE"}
          /\ h \in FutureGrantsOn(n)
       \/ /\ n \in config.objects
          /\ \E e \in Entries(n) : \E u \in e.roles :
               h = Grant(u, e.privilege, n) /\ u \in account.roles
  /\ \A h \in account.held :
       \/ h \in account'.held
       \/ n \in Roles /\ h.role = n
       \/ h.privilege = "OWNERSHIP"
       \/ /\ h.on = n
          /\ \/ n \notin Declared
             \/ s = ObjectStatement("REPLACE", n)
             \/ /\ n \in config.objects
                /\ \E e \in Entries(n) : \E u \in Roles \ e.roles : h = Grant(u, e.privilege, n)

\* All that such a statement changes.
Changes(n, s) ==
  RolesChange(n, s) /\ FuturesChange(n, s) /\ ObjectsChange(n, s) /\ HeldChange(n, s)

\* Future grants are of declared roles.
LEMMA FuturesAreOfRoles ==
  ASSUME scenario \in Scenarios
  PROVE  /\ \A f \in config.futures : f.role \in config.roles
         /\ \A g \in config.grants : g.role \in config.roles
         /\ \A g \in config.grants : g.on # Account => RoleResolver[g.role] = "TECHNICAL_ROLE"
<1>1. \A g \in config.grants \cup config.futures : g.role \in config.roles
  BY ScenarioAssumption DEF config
<1>2. \A g \in config.grants : g.on # Account => RoleResolver[g.role] = "TECHNICAL_ROLE"
  BY ScenarioAssumption DEF config
<1> QED
  BY <1>1, <1>2

\* The drop phase.
LEMMA DropChanges ==
  ASSUME scenario \in Scenarios, account \in AccountRecords, NEW n, n \notin Declared, NEW s,
         DropEffect(n, s)
  PROVE  Changes(n, s)
<1>0. /\ Roles \cap Objects = {} /\ Account \notin Objects
      /\ \A f \in config.futures : f.role # n
  BY FuturesAreOfRoles, Names DEF Declared
<1>1. CASE /\ n \in Roles /\ s = RoleStatement("DROP_ROLE", n)
           /\ Becomes(account.roles \ {n}, account.ours \ {n}, account.held \ OfRole(account.held, n),
                account.futures \ OfRole(account.futures, n), account.objects, account.stale)
  <2>1. RolesChange(n, s)
    BY <1>1 DEF RolesChange, Becomes, OfRole
  <2>2. FuturesChange(n, s)
    BY <1>0, <1>1 DEF FuturesChange, Becomes, OfRole
  <2>3. ObjectsChange(n, s)
    BY <1>1 DEF ObjectsChange, Becomes
  <2>4. HeldChange(n, s)
    BY <1>1 DEF HeldChange, Becomes, OfRole
  <2> QED
    BY <2>1, <2>2, <2>3, <2>4 DEF Changes
<1>2. CASE /\ n \in Objects /\ s = ObjectStatement("DROP", n) /\ n \in account.objects
           /\ Becomes(account.roles, account.ours, account.held \ On({n}), account.futures,
                account.objects \ {n}, account.stale \ {n})
  <2>1. RolesChange(n, s)
    BY <1>2 DEF RolesChange, Becomes
  <2>2. FuturesChange(n, s)
    BY <1>2 DEF FuturesChange, Becomes
  <2>3. ObjectsChange(n, s)
    BY <1>0, <1>2 DEF ObjectsChange, Becomes
  <2>4. HeldChange(n, s)
    BY <1>2 DEF HeldChange, Becomes, On
  <2> QED
    BY <2>1, <2>2, <2>3, <2>4 DEF Changes
<1> QED
  BY <1>1, <1>2 DEF DropEffect

\* What a role's worker is about to grant is given by its blueprint.
LEMMA FuturesGive ==
  ASSUME scenario \in Scenarios, NEW n, NEW f \in RoleFutures(n), NEW o \in Objects,
         TypeOf[o] = f.on
  PROVE  Gives(n, Grant(n, f.privilege, o))
<1>1. f \in config.futures /\ f.role = n
  BY DEF RoleFutures, OfRole
<1> QED
  BY <1>1 DEF Gives, Grant

\* Roles.
LEMMA RoleChanges ==
  ASSUME scenario \in Scenarios, account \in AccountRecords, NEW n \in Roles, n \in config.roles, NEW s,
         RoleEffect(n, s)
  PROVE  Changes(n, s)
<1> DEFINE B(roles, ours, held, futures) ==
             Becomes(roles, ours, held, futures, account.objects, account.stale)
<1>0. /\ Roles \cap Objects = {} /\ Account \notin Objects /\ account.objects \subseteq Objects
      /\ n \in Declared
  BY AccountIs, Names DEF Declared
<1>1. ASSUME NEW roles, NEW ours, NEW held, NEW futures, B(roles, ours, held, futures)
      PROVE  ObjectsChange(n, s)
  BY <1>0, <1>1 DEF ObjectsChange, Becomes
<1>2. CASE /\ s = RoleStatement("CREATE_ROLE", n) /\ n \notin account.roles
           /\ B(account.roles \cup {n}, account.ours, account.held, account.futures)
  <2>1. RolesChange(n, s)
    BY <1>2 DEF RolesChange, Becomes
  <2>2. FuturesChange(n, s)
    BY <1>2 DEF FuturesChange, Becomes
  <2>3. HeldChange(n, s)
    BY <1>2 DEF HeldChange, Becomes
  <2> QED
    BY <1>1, <1>2, <2>1, <2>2, <2>3 DEF Changes
<1>3. CASE /\ s = RoleStatement("GRANT_ROLE", n) /\ n \in account.roles
           /\ B(account.roles, account.ours \cup {n}, account.held, account.futures)
  <2>1. RolesChange(n, s)
    BY <1>3 DEF RolesChange, Becomes
  <2>2. FuturesChange(n, s)
    BY <1>3 DEF FuturesChange, Becomes
  <2>3. HeldChange(n, s)
    BY <1>3 DEF HeldChange, Becomes
  <2> QED
    BY <1>1, <1>3, <2>1, <2>2, <2>3 DEF Changes
<1>4. ASSUME NEW g \in RoleGrants(n), n \in account.roles,
             B(account.roles, account.ours, account.held \cup {g}, account.futures)
      PROVE  Changes(n, s)
  <2>1. RolesChange(n, s)
    BY <1>4 DEF RolesChange, Becomes
  <2>2. FuturesChange(n, s)
    BY <1>4 DEF FuturesChange, Becomes
  <2>3. g.role = n /\ Gives(n, g)
    BY DEF RoleGrants, OfRole, Gives
  <2>4. HeldChange(n, s)
    BY <1>4, <2>3 DEF HeldChange, Becomes
  <2> QED
    BY <1>1, <1>4, <2>1, <2>2, <2>4 DEF Changes
<1>5. ASSUME NEW g \in NotGiven(n), B(account.roles, account.ours, account.held \ {g}, account.futures)
      PROVE  Changes(n, s)
  <2>1. RolesChange(n, s)
    BY <1>5 DEF RolesChange, Becomes
  <2>2. FuturesChange(n, s)
    BY <1>5 DEF FuturesChange, Becomes
  <2>3. g.role = n
    BY DEF NotGiven
  <2>4. HeldChange(n, s)
    BY <1>5, <2>3 DEF HeldChange, Becomes
  <2> QED
    BY <1>1, <1>5, <2>1, <2>2, <2>4 DEF Changes
<1>6. ASSUME NEW f \in RoleFutures(n), s = Statement("GRANT_FUTURE", f), n \in account.roles,
             B(account.roles, account.ours, account.held, account.futures \cup {f})
      PROVE  Changes(n, s)
  <2>1. RolesChange(n, s)
    BY <1>6 DEF RolesChange, Becomes
  <2>2. FuturesChange(n, s)
    BY <1>6 DEF FuturesChange, Becomes
  <2>3. HeldChange(n, s)
    BY <1>6 DEF HeldChange, Becomes
  <2> QED
    BY <1>1, <1>6, <2>1, <2>2, <2>3 DEF Changes
<1>7. ASSUME NEW f \in RoleFutures(n), n \in account.roles,
             B(account.roles, account.ours,
               (account.held \ (IF f.privilege = "OWNERSHIP" THEN OwnedIn(Existing(f.on)) ELSE {}))
                 \cup {Grant(n, f.privilege, o) : o \in Existing(f.on)}, account.futures)
      PROVE  Changes(n, s)
  <2>1. RolesChange(n, s)
    BY <1>7 DEF RolesChange, Becomes
  <2>2. FuturesChange(n, s)
    BY <1>7 DEF FuturesChange, Becomes
  <2>3. ASSUME NEW o \in Existing(f.on)
        PROVE  Grant(n, f.privilege, o).role = n /\ Gives(n, Grant(n, f.privilege, o))
    <3>1. o \in Objects /\ TypeOf[o] = f.on
      BY <1>0 DEF Existing
    <3> QED
      BY <3>1, FuturesGive DEF Grant
  <2>4. \A h \in OwnedIn(Existing(f.on)) : h.privilege = "OWNERSHIP"
    BY DEF OwnedIn
  <2>5. HeldChange(n, s)
    BY <1>7, <2>3, <2>4 DEF HeldChange, Becomes
  <2> QED
    BY <1>1, <1>7, <2>1, <2>2, <2>5 DEF Changes
<1>8. ASSUME NEW f \in NotDeclared(n),
             B(account.roles, account.ours, account.held, account.futures \ {f})
      PROVE  Changes(n, s)
  <2>1. RolesChange(n, s)
    BY <1>8 DEF RolesChange, Becomes
  <2>2. f.role = n /\ f \notin config.futures
    BY DEF NotDeclared, RoleFutures, OfRole
  <2>3. FuturesChange(n, s)
    BY <1>8, <2>2 DEF FuturesChange, Becomes
  <2>4. HeldChange(n, s)
    BY <1>8 DEF HeldChange, Becomes
  <2> QED
    BY <1>1, <1>8, <2>1, <2>3, <2>4 DEF Changes
<1> QED
  BY <1>2, <1>3, <1>4, <1>5, <1>6, <1>7, <1>8 DEF RoleEffect

\* Objects.
LEMMA ObjectChanges ==
  ASSUME scenario \in Scenarios, account \in AccountRecords, NEW n \in Objects, n \in config.objects,
         NEW s, ObjectEffect(n, s)
  PROVE  Changes(n, s)
<1> DEFINE B(held, objects, stale) ==
             Becomes(account.roles, account.ours, held, account.futures, objects, stale)
<1>0. Roles \cap Objects = {} /\ n \notin Roles /\ n \in Declared
  BY Names DEF Declared
<1>1. ASSUME NEW held, NEW objects, NEW stale, B(held, objects, stale)
      PROVE  RolesChange(n, s) /\ FuturesChange(n, s)
  BY <1>1 DEF RolesChange, FuturesChange, Becomes
<1>2. \A h \in FutureGrantsOn(n) : h.on = n
  BY DEF FutureGrantsOn, Grant
<1>3. CASE /\ s = ObjectStatement("CREATE", n) /\ n \notin account.objects
           /\ B(account.held \cup FutureGrantsOn(n), account.objects \cup {n}, account.stale)
  <2>1. ObjectsChange(n, s)
    BY <1>0, <1>3 DEF ObjectsChange, Becomes
  <2>2. s.op = "CREATE"
    BY <1>3 DEF ObjectStatement, Statement
  <2>3. HeldChange(n, s)
    BY <1>2, <1>3, <2>2 DEF HeldChange, Becomes
  <2> QED
    BY <1>1, <1>3, <2>1, <2>3 DEF Changes
<1>4. CASE /\ s = ObjectStatement("REPLACE", n) /\ n \in account.objects
           /\ B((account.held \ On({n})) \cup FutureGrantsOn(n), account.objects, account.stale \ {n})
  <2>1. ObjectsChange(n, s)
    BY <1>0, <1>4 DEF ObjectsChange, Becomes
  <2>2. s.op = "REPLACE"
    BY <1>4 DEF ObjectStatement, Statement
  <2>3. HeldChange(n, s)
    BY <1>2, <1>4, <2>2 DEF HeldChange, Becomes, On
  <2> QED
    BY <1>1, <1>4, <2>1, <2>3 DEF Changes
<1>5. ASSUME NEW e \in Entries(n), NEW u \in e.roles, u \in account.roles,
             B(account.held \cup {Grant(u, e.privilege, n)}, account.objects, account.stale)
      PROVE  Changes(n, s)
  <2>1. ObjectsChange(n, s)
    BY <1>0, <1>5 DEF ObjectsChange, Becomes
  <2>2. HeldChange(n, s)
    BY <1>5 DEF HeldChange, Becomes
  <2> QED
    BY <1>1, <1>5, <2>1, <2>2 DEF Changes
<1>6. ASSUME NEW e \in Entries(n), NEW u \in Roles \ e.roles,
             B(account.held \ {Grant(u, e.privilege, n)}, account.objects, account.stale)
      PROVE  Changes(n, s)
  <2>1. ObjectsChange(n, s)
    BY <1>0, <1>6 DEF ObjectsChange, Becomes
  <2>2. Grant(u, e.privilege, n).on = n
    BY DEF Grant
  <2>3. HeldChange(n, s)
    BY <1>6, <2>2 DEF HeldChange, Becomes
  <2> QED
    BY <1>1, <1>6, <2>1, <2>3 DEF Changes
<1> QED
  BY <1>3, <1>4, <1>5, <1>6 DEF ObjectEffect

\* A worker changes nothing else.
LEMMA EffectChanges ==
  ASSUME scenario \in Scenarios, account \in AccountRecords, NEW n, NEW s, Effect(n, s)
  PROVE  Changes(n, s)
  BY DropChanges, RoleChanges, ObjectChanges DEF Effect

\* What it does is done.
LEMMA DoneIs ==
  ASSUME account \in AccountRecords, NEW s, account' = AccountAfter(s)
  PROVE  /\ s.op = "CREATE_ROLE" => s.role \in account'.roles
         /\ s.op = "GRANT_ROLE" => s.role \in account'.ours
         /\ s.op = "GRANT" => GrantOf(s) \in account'.held
         /\ s.op \in {"REVOKE", "REVOKE_UNSAFE"} => GrantOf(s) \notin account'.held
         /\ s.op = "TRANSFER" => \A r : Grant(r, "OWNERSHIP", s.on) \notin account'.held
         /\ s.op = "GRANT_FUTURE" => GrantOf(s) \in account'.futures
         /\ s.op = "REVOKE_FUTURE" => GrantOf(s) \notin account'.futures
         /\ s.op = "GRANT_ALL" => \A o \in account'.objects :
              TypeOf[o] = s.on => Grant(s.role, s.privilege, o) \in account'.held
         /\ s.op \in {"CREATE", "REPLACE"} => FutureGrantsOn(s.on) \subseteq account'.held
         /\ s.op = "CREATE" => s.on \in account'.objects
         /\ s.op = "REPLACE" => s.on \notin account'.stale
<1>1. account = [roles |-> account.roles, ours |-> account.ours, held |-> account.held,
                 futures |-> account.futures, objects |-> account.objects,
                 stale |-> account.stale]
  BY AccountIs
<1>2. CASE s.op = "CREATE_ROLE"
  BY <1>1, <1>2 DEF AccountAfter
<1>3. CASE s.op = "GRANT_ROLE"
  BY <1>1, <1>3 DEF AccountAfter
<1>4. CASE s.op = "GRANT"
  BY <1>1, <1>4 DEF AccountAfter, GrantOf
<1>5. CASE s.op \in {"REVOKE", "REVOKE_UNSAFE"}
  BY <1>1, <1>5 DEF AccountAfter, GrantOf
<1>6. CASE s.op = "TRANSFER"
  <2>1. account'.held = account.held \ OwnedIn({s.on})
    BY <1>1, <1>6 DEF AccountAfter
  <2>2. ASSUME NEW r, Grant(r, "OWNERSHIP", s.on) \in account.held
        PROVE  Grant(r, "OWNERSHIP", s.on) \in OwnedIn({s.on})
    BY <2>2 DEF OwnedIn, On, Grant
  <2> QED
    BY <1>6, <2>1, <2>2
<1>7. CASE s.op = "GRANT_FUTURE"
  BY <1>1, <1>7 DEF AccountAfter, GrantOf
<1>8. CASE s.op = "REVOKE_FUTURE"
  BY <1>1, <1>8 DEF AccountAfter, GrantOf
<1>9. CASE s.op = "GRANT_ALL"
  <2>1. /\ account'.objects = account.objects
        /\ {Grant(s.role, s.privilege, o) : o \in Existing(s.on)} \subseteq account'.held
    BY <1>1, <1>9 DEF AccountAfter
  <2> QED
    BY <1>9, <2>1 DEF Existing
<1>10. CASE s.op = "CREATE"
  BY <1>1, <1>10 DEF AccountAfter
<1>11. CASE s.op = "REPLACE"
  BY <1>1, <1>11 DEF AccountAfter
<1> QED
  BY <1>2, <1>3, <1>4, <1>5, <1>6, <1>7, <1>8, <1>9, <1>10, <1>11

-----------------------------------------------------------------------------
(* What was read and decided on, step by step.                             *)

\* What the configuration says stays.
LEMMA SameWants ==
  ASSUME UNCHANGED scenario
  PROVE  /\ config' = config /\ Declared' = Declared
         /\ \A m : /\ RoleGrants(m)' = RoleGrants(m) /\ RoleFutures(m)' = RoleFutures(m)
                   /\ NotGiven(m)' = NotGiven(m) /\ NotDeclared(m)' = NotDeclared(m)
                   /\ RoleWants(m)' = RoleWants(m) /\ ReadComesFirst(m)' = ReadComesFirst(m)
                   /\ Entries(m)' = Entries(m) /\ ObjectWants(m)' = ObjectWants(m)
                   /\ Wants(m)' = Wants(m)
         /\ \A m, g : Gives(m, g)' <=> Gives(m, g)
<1>1. config' = config /\ Declared' = Declared
  BY DEF config, Declared
<1>2. \A m, g : Gives(m, g)' <=> Gives(m, g)
  BY <1>1 DEF Gives
<1>3. \A m : RoleGrants(m)' = RoleGrants(m) /\ RoleFutures(m)' = RoleFutures(m) /\ Entries(m)' = Entries(m)
  BY <1>1 DEF RoleGrants, RoleFutures, Entries
<1>4. \A m : NotGiven(m)' = NotGiven(m) /\ NotDeclared(m)' = NotDeclared(m)
  BY <1>2, <1>3 DEF NotGiven, NotDeclared
<1>5. \A m : RoleWants(m)' = RoleWants(m)
  BY <1>3, <1>4 DEF RoleWants
<1>6. \A m : ObjectWants(m)' = ObjectWants(m)
  BY <1>3 DEF ObjectWants
<1>7. \A m : ReadComesFirst(m)' = ReadComesFirst(m)
  BY <1>5 DEF ReadComesFirst
<1>8. \A m : Wants(m)' = Wants(m)
  BY <1>5, <1>6 DEF Wants
<1> QED
  BY <1>1, <1>2, <1>3, <1>4, <1>5, <1>6, <1>7, <1>8

\* The roles that are resolved, or declared, are SnowDDL's.
LEMMA ManagedRoles ==
  ASSUME scenario \in Scenarios
  PROVE  /\ config.roles \subseteq Managed
         /\ idx \in 1..Len(Sequence) => Resolved \cap Roles \subseteq Managed
<1>1. config.roles \subseteq Managed
  BY ScenarioAssumption DEF config, ScenarioRecords, ConfigRecords
<1>2. ASSUME idx \in 1..Len(Sequence), NEW r \in Resolved, r \in Roles PROVE r \in Managed
  <2>1. idx \in 1..6 /\ r \notin Objects
    BY <1>2, Kinds, Names
  <2>2. RoleResolver[r] = Sequence[idx]
    BY <1>2, <2>1 DEF Resolved, Resolver
  <2> QED
    BY <1>2, <2>1, <2>2, Kinds DEF Managed
<1> QED
  BY <1>1, <1>2

\* A worker that executes a statement changes what its effect says.
LEMMA Executed ==
  ASSUME KeepInv, TasksAreWanted, NEW n, Execute(n)
  PROVE  /\ Changes(n, Head(task[n])) /\ account' = AccountAfter(Head(task[n]))
         /\ IsLegal(Head(task[n])) /\ Head(task[n]).op # "SHOW_GRANTS"
         /\ scenario \in Scenarios /\ account \in AccountRecords /\ account' \in AccountRecords
         /\ n \in Roles => n \in Managed
         /\ n \in Roles \cup Objects /\ idx \in 1..Len(Sequence)
<1>1. Effect(n, Head(task[n])) /\ n \in Resolved /\ n \in Roles \cup Objects /\ n \in DOMAIN task
  BY ExecuteHas
<1>2. scenario \in Scenarios /\ account \in AccountRecords /\ TypesFit /\ TasksFit /\ RowsFit
  BY DEF KeepInv, TypesFit
<1>3. Changes(n, Head(task[n]))
  BY <1>1, <1>2, EffectChanges
<1>4. idx \in 1..Len(Sequence)
  BY <1>1, <1>2, WhileWorking
<1>5. account' \in AccountRecords
  <2>1. KeepInv'
    BY ExecuteKeeps
  <2> QED
    BY <2>1 DEF KeepInv, TypesFit
<1> QED
  BY <1>1, <1>2, <1>3, <1>4, <1>5, ManagedRoles DEF Execute, IsDDL

\* What a step is, if it is not one of a worker.
LEMMA Steps ==
  ASSUME [Next]_vars
  PROVE  \/ Start \/ Begin \/ Submit \/ Finish \/ Exit \/ Crash \/ UNCHANGED vars
         \/ \E n : ReadGrants(n) \/ Suggest(n) \/ Raise(n)
         \/ \E n : Execute(n)
  BY DEF Next, Worker, Idle

\* Only executing a statement changes the account.
LEMMA WhoChanges ==
  ASSUME [Next]_vars
  PROVE  UNCHANGED scenario /\ (UNCHANGED account \/ \E n : Execute(n))
<1>1. CASE Start \/ Begin \/ Submit \/ Finish \/ Exit \/ Crash \/ UNCHANGED vars
  BY <1>1 DEF Start, Begin, Submit, Finish, Exit, Crash, vars
<1>2. ASSUME NEW n, ReadGrants(n) \/ Suggest(n) \/ Raise(n) PROVE UNCHANGED << scenario, account >>
  BY <1>2 DEF ReadGrants, Suggest, Raise
<1>3. ASSUME NEW n, Execute(n) PROVE UNCHANGED scenario
  BY <1>3 DEF Execute
<1> QED
  BY <1>1, <1>2, <1>3, Steps

\* The account stays sound.
LEMMA AccountStaysSound ==
  ASSUME KeepInv, TasksAreWanted, AccountIsSound, [Next]_vars
  PROVE  AccountIsSound'
<1>1. CASE UNCHANGED account
  BY <1>1, WhoChanges DEF AccountIsSound
<1>2. ASSUME NEW n, Execute(n) PROVE AccountIsSound'
  <2> DEFINE s == Head(task[n])
  <2>1. /\ RolesChange(n, s) /\ FuturesChange(n, s) /\ ObjectsChange(n, s) /\ HeldChange(n, s)
        /\ scenario \in Scenarios /\ account \in AccountRecords
        /\ n \in Roles => n \in Managed
    BY <1>2, Executed DEF Changes
  <2>2. UNCHANGED scenario
    BY WhoChanges
  <2> HIDE DEF s
  <2>3. ASSUME NEW g \in account'.held \cup account'.futures PROVE g.role \in account'.roles
    <3>1. g.role \in account.roles
      <4>1. CASE g \in account.held \cup account.futures
        BY <4>1 DEF AccountIsSound
      <4>2. CASE g \in account'.futures \ account.futures
        <5>1. g \in RoleFutures(n) /\ n \in account.roles
          BY <2>1, <4>2 DEF FuturesChange
        <5> QED
          BY <5>1 DEF RoleFutures, OfRole
      <4>3. CASE g \in account'.held \ account.held
        <5>1. \/ n \in account.roles /\ g.role = n
              \/ g \in FutureGrantsOn(n)
              \/ \E e \in Entries(n) : \E u \in e.roles :
                   g = Grant(u, e.privilege, n) /\ u \in account.roles
          BY <2>1, <4>3 DEF HeldChange
        <5>2. ASSUME g \in FutureGrantsOn(n) PROVE g.role \in account.roles
          <6>1. PICK f \in account.futures : g.role = f.role
            BY <5>2 DEF FutureGrantsOn, Grant
          <6> QED
            BY <6>1 DEF AccountIsSound
        <5> QED
          BY <5>1, <5>2 DEF Grant
      <4> QED
        BY <2>3, <4>1, <4>2, <4>3
    <3> QED
      BY <2>1, <2>3, <3>1 DEF RolesChange
  <2>4. account'.stale \subseteq account'.objects
    BY <2>1 DEF ObjectsChange, AccountIsSound
  <2>5. ASSUME NEW f \in Futures, f.role \notin Managed
        PROVE  f \in account'.futures <=> f \in account.futures
    <3>1. f.role \in Roles /\ f.role # n
      BY <2>1, <2>5 DEF Futures
    <3>2. f \in RoleFutures(n) => f.role = n
      BY DEF RoleFutures, OfRole
    <3> QED
      BY <2>1, <3>1, <3>2 DEF FuturesChange
  <2> QED
    BY <2>2, <2>3, <2>4, <2>5 DEF AccountIsSound
<1> QED
  BY <1>1, <1>2, WhoChanges

\* The next resolver's rows are those of the account.
LEMMA RowsStayCurrent ==
  ASSUME KeepInv, TasksAreWanted, RowsAreCurrent, [Next]_vars
  PROVE  RowsAreCurrent'
<1>1. CASE Start \/ Submit \/ Finish \/ Exit \/ Crash
  BY <1>1 DEF Start, Submit, Finish, Exit, Crash, Record, RowsAreCurrent
<1>2. CASE Begin
  <2>1. /\ UNCHANGED << scenario, account, idx >> /\ rows' = ExistingRows
    BY <1>2 DEF Begin
  <2>2. /\ DOMAIN rows' = Resolved \cap (account.roles \cup account.objects)
        /\ \A n \in DOMAIN rows' : /\ rows'[n].held = OfRole(account.held, n)
                                   /\ rows'[n].futures = OfRole(account.futures, n)
    BY <2>1 DEF ExistingRows
  <2>3. Resolved' = Resolved /\ Declared' = Declared
    BY <2>1 DEF Resolved, Resolver, Declared, config
  <2> QED
    BY <2>1, <2>2, <2>3 DEF RowsAreCurrent
<1>3. CASE UNCHANGED vars
  BY <1>3 DEF vars, RowsAreCurrent, Resolved, Resolver, Declared, config
<1>4. ASSUME NEW n, ReadGrants(n) \/ Suggest(n) \/ Raise(n) PROVE RowsAreCurrent'
  <2>1. UNCHANGED << scenario, account, pc, idx, rows >>
    BY <1>4 DEF ReadGrants, Suggest, Raise
  <2> QED
    BY <2>1 DEF RowsAreCurrent, Resolved, Resolver, Declared, config
<1>5. ASSUME NEW n, Execute(n), pc = "drop" PROVE RowsAreCurrent'
  <2> DEFINE s == Head(task[n])
  <2>1. UNCHANGED << scenario, pc, idx, rows >> /\ n \in Resolved /\ Effect(n, s) /\ n \in Roles \cup Objects
    BY <1>5, ExecuteHas
  <2>2. n \notin Declared /\ DropEffect(n, s)
    BY <1>5, <2>1 DEF Effect
  <2>3. Resolved' = Resolved /\ Declared' = Declared
    BY <2>1 DEF Resolved, Resolver, Declared, config
  <2>4. ASSUME NEW m \in Resolved \cap Declared
        PROVE  /\ m \in account'.roles \cup account'.objects <=> m \in account.roles \cup account.objects
               /\ m \in Roles => /\ OfRole(account'.held, m) = OfRole(account.held, m)
                                 /\ OfRole(account'.futures, m) = OfRole(account.futures, m)
    <3>1. m # n
      BY <2>2
    <3>2. m \in Roles => n \in Roles /\ n \notin Objects
      BY <2>1, OneKind, Names
    <3> QED
      BY <2>2, <3>1, <3>2 DEF DropEffect, Becomes, OfRole
  <2> QED
    BY <1>5, <2>1, <2>3, <2>4 DEF RowsAreCurrent
<1>6. ASSUME NEW n, Execute(n), pc # "drop" PROVE RowsAreCurrent'
  BY <1>6 DEF Execute, RowsAreCurrent
<1> QED
  BY <1>1, <1>2, <1>3, <1>4, <1>5, <1>6, Steps

\* A worker goes on.
LEMMA WantedGoesOn ==
  ASSUME TasksAreWanted, UNCHANGED << scenario, pc, idx >>, NEW n \in DOMAIN task, NEW q,
         task' = [task EXCEPT ![n] = q],
         pc = "create" => Range(q) \subseteq Wants(n) /\ (n \in Roles => Shaped(n, q))
  PROVE  TasksAreWanted'
<1>1. DOMAIN task' = DOMAIN task /\ task'[n] = q /\ \A m \in DOMAIN task : m # n => task'[m] = task[m]
  OBVIOUS
<1>2. Resolved' = Resolved
  BY DEF Resolved, Resolver
<1>3. Declared' = Declared /\ \A m : Wants(m)' = Wants(m) /\ ReadComesFirst(m)' = ReadComesFirst(m)
  BY SameWants
<1>4. ASSUME NEW m \in DOMAIN task', pc' = "create"
      PROVE  Range(task'[m]) \subseteq Wants(m)' /\ (m \in Roles => Shaped(m, task[m])')
  <2>1. Range(task'[m]) \subseteq Wants(m) /\ (m \in Roles => Shaped(m, task'[m]))
    BY <1>1, <1>4 DEF TasksAreWanted
  <2> QED
    BY <1>3, <2>1 DEF Shaped
<1> QED
  BY <1>1, <1>2, <1>3, <1>4 DEF TasksAreWanted

\* Nothing is in shape.
LEMMA NothingIsShaped == \A r, q : q = <<>> => Range(q) = {} /\ Shaped(r, q)
  BY EmptyIsSeq DEF Shaped, Paired, Ordered

\* What is left of a sequence in shape is in shape.
LEMMA ShapedTail ==
  ASSUME NEW r, NEW q, IsSeq(q), q # <<>>, Shaped(r, q)
  PROVE  /\ Shaped(r, Tail(q))
         /\ Head(q).op \in {"CREATE_ROLE", "GRANT_FUTURE"} =>
              Tail(q) # <<>> /\ Head(Tail(q)) = Statement(Sequel[Head(q).op], Head(q))
         /\ \A x \in Range(Tail(q)) : <<Head(q), x>> \in ReadComesFirst(r)
  BY PairedTail, OrderedTail DEF Shaped

\* What a worker starts with is wanted.
LEMMA TasksBeginWanted ==
  ASSUME KeepInv, TasksAreWanted, RowsAreCurrent, Submit
  PROVE  TasksAreWanted'
<1>1. /\ scenario \in Scenarios /\ RowsFit
      /\ UNCHANGED << scenario, account, idx, rows >> /\ pc = "drop" /\ pc' = "create"
      /\ task' = [n \in Resolved \cap Declared |-> TaskOf(n)]
  BY DEF KeepInv, TypesFit, Submit
<1>2. Resolved' = Resolved
  BY <1>1 DEF Resolved, Resolver
<1>3. Declared' = Declared /\ \A m : Wants(m)' = Wants(m) /\ ReadComesFirst(m)' = ReadComesFirst(m)
  BY <1>1, SameWants
<1>4. ASSUME NEW n \in Resolved \cap Declared, n \in Roles
      PROVE  Range(TaskOf(n)) \subseteq RoleWants(n) /\ Shaped(n, TaskOf(n))
  <2>1. CASE n \in DOMAIN rows
    <3>1. TaskOf(n) = CompareRole(n, rows[n])
      BY <1>4, <2>1, Names DEF TaskOf
    <3>2. /\ rows[n].held \subseteq {g \in Held : g.role = n}
          /\ rows[n].futures \subseteq {f \in Futures : f.role = n}
      BY <1>1, <2>1 DEF RowsFit
    <3> QED
      BY <1>1, <1>4, <3>1, <3>2, CompareRoleIs
  <2>2. CASE n \notin DOMAIN rows
    <3>1. TaskOf(n) = CreateRole(n)
      BY <1>4, <2>2, Names DEF TaskOf
    <3> QED
      BY <1>1, <1>4, <3>1, CreateRoleIs
  <2> QED
    BY <2>1, <2>2
<1>5. ASSUME NEW n \in Resolved \cap Declared, n \notin Roles
      PROVE  Range(TaskOf(n)) \subseteq ObjectWants(n)
  <2>1. n \in config.objects /\ n \in Objects
    BY <1>1, <1>5, ConfigIsSound DEF Declared
  <2>2. CASE n \in DOMAIN rows
    <3>1. TaskOf(n) = CompareObject(n)
      BY <1>5, <2>1, <2>2 DEF TaskOf
    <3> DEFINE p == IF n \in account.stale THEN <<ObjectStatement("REPLACE", n)>> ELSE <<>>
               q == IF config.named[n] = <<>> THEN <<>> ELSE <<ObjectStatement("SHOW_GRANTS", n)>>
    <3>2. /\ IsSeq(p) /\ Range(p) \subseteq {ObjectStatement("REPLACE", n)}
          /\ IsSeq(q) /\ Range(q) \subseteq {ObjectStatement("SHOW_GRANTS", n)}
      BY UnitIsSeq, EmptyIsSeq
    <3>3. TaskOf(n) = p \o q
      BY <3>1 DEF CompareObject
    <3> HIDE DEF p, q
    <3>4. Range(TaskOf(n)) \subseteq {ObjectStatement("REPLACE", n), ObjectStatement("SHOW_GRANTS", n)}
      BY <3>2, <3>3, JoinIsSeq
    <3> QED
      BY <3>4 DEF ObjectWants
  <2>3. CASE n \notin DOMAIN rows
    <3>1. TaskOf(n) = <<ObjectStatement("CREATE", n)>> \o Reconcile(n, NoGrantees)
      BY <1>5, <2>1, <2>3 DEF TaskOf, CreateObject
    <3>2. /\ IsSeq(Reconcile(n, NoGrantees))
          /\ \A x : x \in Range(Reconcile(n, NoGrantees)) <=>
               \E e \in Entries(n) :
                 \/ \E r \in e.roles \ NoGrantees[e.privilege] :
                      x = Statement("GRANT", Grant(r, e.privilege, n))
                 \/ \E r \in NoGrantees[e.privilege] \ e.roles :
                      x = Statement("REVOKE_UNSAFE", Grant(r, e.privilege, n))
      BY <1>1, <2>1, Grantees, ReconcileIs
    <3>3. \A e \in Entries(n) : e.privilege \in Privileges
      BY <1>1, <2>1, EntriesAre
    <3>4. \A e \in Entries(n) : NoGrantees[e.privilege] = {}
      BY <3>3 DEF NoGrantees
    <3>5. Range(Reconcile(n, NoGrantees)) \subseteq ObjectWants(n)
      BY <3>2, <3>4 DEF ObjectWants, Granting
    <3>6. Range(TaskOf(n)) = {ObjectStatement("CREATE", n)} \cup Range(Reconcile(n, NoGrantees))
      BY <3>1, <3>2, UnitIsSeq, JoinIsSeq
    <3> QED
      BY <3>5, <3>6 DEF ObjectWants
  <2> QED
    BY <2>2, <2>3
<1>6. \A n \in Resolved \cap Declared : /\ Range(TaskOf(n)) \subseteq Wants(n)
                                        /\ n \in Roles => Shaped(n, TaskOf(n))
  BY <1>4, <1>5 DEF Wants
<1>7. ASSUME NEW m \in DOMAIN task'
      PROVE  Range(task'[m]) \subseteq Wants(m)' /\ (m \in Roles => Shaped(m, task[m])')
  <2>1. Range(task'[m]) \subseteq Wants(m) /\ (m \in Roles => Shaped(m, task'[m]))
    BY <1>1, <1>6
  <2> QED
    BY <1>3, <2>1 DEF Shaped
<1>8. DOMAIN task' = Resolved \cap Declared
  BY <1>1
<1> QED
  BY <1>1, <1>2, <1>3, <1>7, <1>8 DEF TasksAreWanted

\* And so it is what is left of it.
LEMMA TasksStayWanted ==
  ASSUME KeepInv, TasksAreWanted, RowsAreCurrent, [Next]_vars
  PROVE  TasksAreWanted'
<1>0. TypesFit /\ TasksFit /\ RowsFit /\ scenario \in Scenarios
  BY DEF KeepInv, TypesFit
<1>1. CASE Start \/ Finish \/ Exit \/ Crash
  BY <1>1 DEF Start, Finish, Exit, Crash, Record, TasksAreWanted
<1>2. CASE Begin
  <2>1. pc' = "drop" /\ UNCHANGED scenario /\ DOMAIN task' = DOMAIN rows' \ Declared
    BY <1>2 DEF Begin
  <2>2. Declared' = Declared
    BY <2>1 DEF Declared, config
  <2> QED
    BY <2>1, <2>2 DEF TasksAreWanted
<1>3. CASE Submit
  BY <1>3, TasksBeginWanted
<1>4. CASE UNCHANGED vars
  <2>1. UNCHANGED << scenario, pc, idx, task >>
    BY <1>4 DEF vars
  <2>2. Declared' = Declared /\ \A m : Wants(m)' = Wants(m) /\ ReadComesFirst(m)' = ReadComesFirst(m)
    BY <2>1, SameWants
  <2>3. Resolved' = Resolved
    BY <2>1 DEF Resolved, Resolver
  <2> QED
    BY <2>1, <2>2, <2>3 DEF TasksAreWanted, Shaped
<1>5. ASSUME NEW n, HasStatement(n), UNCHANGED << scenario, pc, idx >>,
             task' = [task EXCEPT ![n] = Tail(task[n])]
      PROVE  TasksAreWanted'
  <2>1. n \in DOMAIN task /\ IsSeq(task[n]) /\ Range(Tail(task[n])) \subseteq Range(task[n]) /\ task[n] # <<>>
    BY <1>0, <1>5, TheNext DEF HasStatement
  <2>2. ASSUME pc = "create"
        PROVE  Range(Tail(task[n])) \subseteq Wants(n) /\ (n \in Roles => Shaped(n, Tail(task[n])))
    <3>1. Range(task[n]) \subseteq Wants(n) /\ (n \in Roles => Shaped(n, task[n]))
      BY <2>1, <2>2 DEF TasksAreWanted
    <3> QED
      BY <2>1, <3>1, ShapedTail
  <2> QED
    BY <1>5, <2>1, <2>2, WantedGoesOn
<1>6. ASSUME NEW n, Suggest(n) \/ Execute(n) PROVE TasksAreWanted'
  <2>1. HasStatement(n) /\ UNCHANGED << scenario, pc, idx >> /\ task' = [task EXCEPT ![n] = Tail(task[n])]
    BY <1>6 DEF Suggest, Execute, Advance
  <2> QED
    BY <1>5, <2>1
<1>7. ASSUME NEW n, Raise(n) PROVE TasksAreWanted'
  <2>1. n \in DOMAIN task /\ UNCHANGED << scenario, pc, idx >> /\ task' = [task EXCEPT ![n] = <<>>]
    BY <1>7 DEF Raise, HasStatement
  <2>2. Range(<<>>) = {} /\ Shaped(n, <<>>)
    BY NothingIsShaped
  <2> QED
    BY <2>1, <2>2, WantedGoesOn
<1>8. ASSUME NEW n, ReadGrants(n) PROVE TasksAreWanted'
  <2> DEFINE w == Reconcile(n, LiveGrantees(n))
             q == w \o Tail(task[n])
  <2>1. /\ HasStatement(n) /\ Head(task[n]).op = "SHOW_GRANTS" /\ UNCHANGED << scenario, pc, idx >>
        /\ task' = [task EXCEPT ![n] = q]
    BY <1>8 DEF ReadGrants
  <2>2. /\ n \in DOMAIN task /\ IsSeq(Tail(task[n])) /\ Range(Tail(task[n])) \subseteq Range(task[n])
        /\ Head(task[n]) \in NextStatements(n) /\ n \in Roles \cup Objects
    BY <1>0, <2>1, TheNext
  <2>3. n \notin Roles /\ n \in config.objects
    BY <1>0, <2>1, <2>2, OfRoles, OfObjects DEF NextStatements
  <2>4. ASSUME pc = "create" PROVE Range(q) \subseteq Wants(n)
    <3>1. Range(task[n]) \subseteq Wants(n)
      BY <2>2, <2>4 DEF TasksAreWanted
    <3>2. /\ IsSeq(w)
          /\ \A x : x \in Range(w) <=>
               \E e \in Entries(n) :
                 \/ \E r \in e.roles \ LiveGrantees(n)[e.privilege] :
                      x = Statement("GRANT", Grant(r, e.privilege, n))
                 \/ \E r \in LiveGrantees(n)[e.privilege] \ e.roles :
                      x = Statement("REVOKE_UNSAFE", Grant(r, e.privilege, n))
      BY <1>0, <2>3, Grantees, ReconcileIs
    <3>3. \A e \in Entries(n) : LiveGrantees(n)[e.privilege] \subseteq Roles
      BY <1>0, <2>3, EntriesAre, Grantees
    <3> HIDE DEF w
    <3>4. Range(w) \subseteq ObjectWants(n)
      BY <3>2, <3>3 DEF ObjectWants, Granting, Revoking
    <3>5. Range(q) = Range(w) \cup Range(Tail(task[n]))
      BY <2>2, <3>2, JoinIsSeq
    <3> QED
      BY <2>2, <2>3, <3>1, <3>4, <3>5 DEF Wants
  <2> HIDE DEF q
  <2> QED
    BY <2>1, <2>2, <2>3, <2>4, WantedGoesOn
<1> QED
  BY <1>1, <1>2, <1>3, <1>4, <1>6, <1>7, <1>8, Steps

-----------------------------------------------------------------------------
(* Future grants and their sequels.                                        *)

\* The types of what KeepInv leaves out.
RestFits == faults \in Nat /\ IsSeq(history)

\* In an apply, the future grants of a role that is not done yet are there
\* or to come.
FuturesAreComing ==
  pc = "create" /\ Invocation.action = "apply" =>
    \A r \in DOMAIN task : r \in Roles /\ task[r] # <<>> =>
      \A f \in RoleFutures(r) : f \in account.futures \/ Statement("GRANT_FUTURE", f) \in Range(task[r])

\* An apply is about to execute s as the next statement of n.
IsNext(s, n) ==
  n \in DOMAIN task /\ task[n] # <<>> /\ Head(task[n]) = s /\ Invocation.action = "apply"

\* A future grant is granted on all there is, or is next to be.
Covered ==
  Compatible /\ Undisturbed =>
    \A f \in account.futures \cap config.futures : \A o \in account.objects :
      TypeOf[o] = f.on => \/ Grant(f.role, f.privilege, o) \in account.held
                          \/ IsNext(Statement("GRANT_ALL", f), f.role)

\* A declared role is granted to the role SnowDDL runs as, or is next to be.
Ours ==
  Undisturbed =>
    \A r \in account.roles \cap config.roles :
      r \in account.ours \/ IsNext(RoleStatement("GRANT_ROLE", r), r)

\* Nothing becomes undisturbed again.
LEMMA StaysUndisturbed ==
  ASSUME RestFits, [Next]_vars
  PROVE  RestFits' /\ (Undisturbed' => Undisturbed /\ faults = 0 /\ faults' = 0)
<1>0. faults \in Nat /\ IsSeq(history)
  BY DEF RestFits
<1>1. UNCHANGED scenario
  BY WhoChanges
<1>2. /\ faults' = faults \/ faults' = faults + 1
      /\ UNCHANGED history \/ \E x : history' = Append(history, x)
  BY DEF Next, Start, Begin, Submit, Finish, Exit, Crash, Idle, vars, Worker,
         ReadGrants, Suggest, Raise, Execute, Record
<1>3. faults' \in Nat /\ (faults' = 0 => faults = 0)
  BY <1>0, <1>2
<1>4. ASSUME NEW x, history' = Append(history, x) PROVE IsSeq(history')
  <2>1. history \in Seq(Range(history) \cup {x}) /\ x \in Range(history) \cup {x}
    BY <1>0, SeqIn
  <2>2. history' \in Seq(Range(history) \cup {x})
    BY <1>4, <2>1
  <2> QED
    BY <2>2, SeqWithin
<1>5. Undisturbed' => Undisturbed /\ faults' = 0
  BY <1>1, <1>3 DEF Undisturbed, config
<1> QED
  BY <1>0, <1>2, <1>3, <1>4, <1>5 DEF RestFits

\* What an apply only suggests is unsafe.
LEMMA SuggestedIsUnsafe ==
  ASSUME NEW n, Suggest(n), Invocation.action = "apply"
  PROVE  Head(task[n]).op \in {"DROP_ROLE", "REVOKE_UNSAFE", "DROP"} /\ ~HasOption("apply_unsafe")
  BY DEF Suggest, CanRun, IsUnsafe

\* A worker goes on.
LEMMA ComingGoesOn ==
  ASSUME FuturesAreComing, UNCHANGED << scenario, pc, inv >>, NEW n \in DOMAIN task, NEW q,
         task' = [task EXCEPT ![n] = q],
         \A r \in Roles : r # n => \A f \in RoleFutures(r) : f \in account.futures => f \in account'.futures,
         pc = "create" /\ Invocation.action = "apply" /\ n \in Roles /\ q # <<>> =>
           \A f \in RoleFutures(n) : f \in account'.futures \/ Statement("GRANT_FUTURE", f) \in Range(q)
  PROVE  FuturesAreComing'
<1>1. DOMAIN task' = DOMAIN task /\ task'[n] = q /\ \A m \in DOMAIN task : m # n => task'[m] = task[m]
  OBVIOUS
<1>2. \A m : RoleFutures(m)' = RoleFutures(m)
  BY SameWants
<1>3. Invocation' = Invocation
  BY DEF Invocation
<1>4. ASSUME pc = "create", Invocation.action = "apply",
             NEW r \in DOMAIN task', r \in Roles, task'[r] # <<>>, NEW f \in RoleFutures(r)
      PROVE  f \in account'.futures \/ Statement("GRANT_FUTURE", f) \in Range(task'[r])
  BY <1>1, <1>4 DEF FuturesAreComing
<1> QED
  BY <1>2, <1>3, <1>4 DEF FuturesAreComing

\* Future grants are granted by their roles' workers alone.
LEMMA FuturesKeepComing ==
  ASSUME KeepInv, TasksAreWanted, RowsAreCurrent, FuturesAreComing, [Next]_vars
  PROVE  FuturesAreComing'
<1>0. TypesFit /\ TasksFit /\ RowsFit /\ scenario \in Scenarios
  BY DEF KeepInv, TypesFit
<1>1. CASE Start \/ Begin \/ Finish \/ Exit \/ Crash
  BY <1>1 DEF Start, Begin, Finish, Exit, Crash, Record, FuturesAreComing
<1>2. CASE UNCHANGED vars
  BY <1>2 DEF vars, FuturesAreComing, Invocation, RoleFutures, config
<1>3. CASE Submit
  <2>1. /\ UNCHANGED << scenario, account, inv >> /\ pc = "drop"
        /\ task' = [n \in Resolved \cap Declared |-> TaskOf(n)]
    BY <1>3 DEF Submit
  <2>2. ASSUME NEW r \in Resolved \cap Declared, r \in Roles, NEW f \in RoleFutures(r)
        PROVE  f \in account.futures \/ Statement("GRANT_FUTURE", f) \in Range(TaskOf(r))
    <3>1. CASE r \in DOMAIN rows
      <4>1. TaskOf(r) = CompareRole(r, rows[r])
        BY <2>2, <3>1, Names DEF TaskOf
      <4>2. /\ rows[r].held \subseteq {g \in Held : g.role = r}
            /\ rows[r].futures \subseteq {g \in Futures : g.role = r}
        BY <1>0, <3>1 DEF RowsFit
      <4>3. rows[r].futures \subseteq account.futures
        BY <2>1, <2>2, <3>1 DEF RowsAreCurrent, OfRole
      <4> QED
        BY <1>0, <2>2, <4>1, <4>2, <4>3, CompareRoleIs
    <3>2. CASE r \notin DOMAIN rows
      <4>1. TaskOf(r) = CreateRole(r)
        BY <2>2, <3>2, Names DEF TaskOf
      <4> QED
        BY <1>0, <2>2, <4>1, CreateRoleIs
    <3> QED
      BY <3>1, <3>2
  <2>3. \A m : RoleFutures(m)' = RoleFutures(m)
    BY <2>1, SameWants
  <2> QED
    BY <2>1, <2>2, <2>3 DEF FuturesAreComing
<1>4. ASSUME NEW n, ReadGrants(n) PROVE FuturesAreComing'
  <2> DEFINE q == Reconcile(n, LiveGrantees(n)) \o Tail(task[n])
  <2>1. /\ HasStatement(n) /\ Head(task[n]).op = "SHOW_GRANTS" /\ UNCHANGED << scenario, account, pc, inv >>
        /\ task' = [task EXCEPT ![n] = q]
    BY <1>4 DEF ReadGrants
  <2>2. n \in DOMAIN task /\ Head(task[n]) \in NextStatements(n) /\ n \in Roles \cup Objects
    BY <1>0, <2>1, TheNext
  <2>3. n \notin Roles
    BY <1>0, <2>1, <2>2, OfRoles DEF NextStatements
  <2> HIDE DEF q
  <2> QED
    BY <2>1, <2>2, <2>3, ComingGoesOn
<1>5. ASSUME NEW n, Suggest(n) PROVE FuturesAreComing'
  <2>1. /\ HasStatement(n) /\ UNCHANGED << scenario, account, pc, inv >>
        /\ task' = [task EXCEPT ![n] = Tail(task[n])]
    BY <1>5 DEF Suggest, Advance
  <2>2. n \in DOMAIN task /\ IsSeq(task[n]) /\ task[n] # <<>>
    BY <1>0, <2>1, TheNext DEF HasStatement
  <2>3. ASSUME pc = "create", Invocation.action = "apply", n \in Roles, NEW f \in RoleFutures(n)
        PROVE  f \in account.futures \/ Statement("GRANT_FUTURE", f) \in Range(Tail(task[n]))
    <3>1. f \in account.futures \/ Statement("GRANT_FUTURE", f) \in Range(task[n])
      BY <2>2, <2>3 DEF FuturesAreComing
    <3>2. Head(task[n]) # Statement("GRANT_FUTURE", f)
      BY <1>5, <2>3, SuggestedIsUnsafe, StatementFields
    <3> QED
      BY <2>2, <3>1, <3>2, RangeOfTail
  <2> QED
    BY <2>1, <2>2, <2>3, ComingGoesOn
<1>6. ASSUME NEW n, Raise(n) PROVE FuturesAreComing'
  <2>1. n \in DOMAIN task /\ UNCHANGED << scenario, account, pc, inv >> /\ task' = [task EXCEPT ![n] = <<>>]
    BY <1>6 DEF Raise, HasStatement
  <2> QED
    BY <2>1, ComingGoesOn
<1>7. ASSUME NEW n, Execute(n) PROVE FuturesAreComing'
  <2> DEFINE s == Head(task[n])
  <2>1. /\ n \in DOMAIN task /\ IsSeq(task[n]) /\ task[n] # <<>>
        /\ task' = [task EXCEPT ![n] = Tail(task[n])] /\ UNCHANGED << scenario, pc, inv >>
    BY <1>7, ExecuteHas
  <2>2. /\ FuturesChange(n, s) /\ account' = AccountAfter(s) /\ account \in AccountRecords
    BY <1>7, Executed DEF Changes
  <2>3. ASSUME NEW r, NEW f \in RoleFutures(r), f \in account.futures PROVE f \in account'.futures
    <3>1. f \in config.futures
      BY DEF RoleFutures, OfRole
    <3> QED
      BY <2>2, <2>3, <3>1 DEF FuturesChange
  <2>4. ASSUME pc = "create", Invocation.action = "apply", n \in Roles, NEW f \in RoleFutures(n)
        PROVE  f \in account'.futures \/ Statement("GRANT_FUTURE", f) \in Range(Tail(task[n]))
    <3>1. f \in account.futures \/ Statement("GRANT_FUTURE", f) \in Range(task[n])
      BY <2>1, <2>4 DEF FuturesAreComing
    <3>2. ASSUME s = Statement("GRANT_FUTURE", f) PROVE f \in account'.futures
      <4>1. f \in Futures
        BY <1>0, OwnGrants
      <4>2. GrantOf(s) = f /\ s.op = "GRANT_FUTURE"
        BY <3>2, <4>1, GrantOfStatement
      <4> QED
        BY <2>2, <4>2, DoneIs
    <3> QED
      BY <2>1, <2>3, <3>1, <3>2, RangeOfTail
  <2> HIDE DEF s
  <2> QED
    BY <2>1, <2>3, <2>4, ComingGoesOn
<1> QED
  BY <1>1, <1>2, <1>3, <1>4, <1>5, <1>6, <1>7, Steps

\* Before and after a resolver's workers, nothing is next.
LEMMA NothingIsNext ==
  ASSUME KeepInv, Start \/ Begin \/ Submit \/ Finish \/ Exit
  PROVE  \A s, n : ~IsNext(s, n)
<1>1. CASE Start \/ Begin \/ Exit
  <2>1. pc \in {"start", "resolver"}
    BY <1>1 DEF Start, Begin, Exit
  <2>2. DOMAIN task = {}
    BY <2>1 DEF KeepInv, TypesFit, EmptyMap
  <2> QED
    BY <2>2 DEF IsNext
<1>2. CASE Submit \/ Finish
  BY <1>2 DEF Submit, Finish, AllDone, IsNext
<1> QED
  BY <1>1, <1>2

\* The other workers' next statements stay.
LEMMA StaysNext ==
  ASSUME UNCHANGED << scenario, inv >>, NEW n \in DOMAIN task, NEW q, task' = [task EXCEPT ![n] = q],
         NEW s, NEW m, IsNext(s, m), m # n
  PROVE  IsNext(s, m)'
  BY DEF IsNext, Invocation

\* A grant of what there is, next, is not refused.
LEMMA NextIsLegal ==
  ASSUME KeepInv, TasksAreWanted, AccountIsSound, FuturesAreComing, Covered, Compatible, Undisturbed,
         NEW f \in account.futures \cap config.futures, pc = "create",
         IsNext(Statement("GRANT_ALL", f), f.role)
  PROVE  IsLegal(Statement("GRANT_ALL", f))
<1> DEFINE s == Statement("GRANT_ALL", f)
           n == f.role
<1>1. /\ TypesFit /\ TasksFit /\ RowsFit /\ scenario \in Scenarios
      /\ n \in DOMAIN task /\ task[n] # <<>> /\ Head(task[n]) = s /\ Invocation.action = "apply"
  BY DEF KeepInv, TypesFit, IsNext
<1>2. s.op = "GRANT_ALL" /\ s.role = n /\ s.privilege = f.privilege /\ s.on = f.on
  BY StatementFields
<1>3. n \in account.roles
  BY DEF AccountIsSound
<1>4. n \in Roles /\ f \in Futures /\ f \in RoleFutures(n)
  BY <1>1, ConfigIsSound DEF Futures, RoleFutures, OfRole
<1>5. IsSeq(task[n]) /\ Shaped(n, task[n]) /\ s \in Range(task[n])
  BY <1>1, <1>4, TheNext DEF TasksAreWanted, HasStatement
<1>6. ASSUME f.privilege = "WRITE", NEW o \in Existing(f.on)
      PROVE  Grant(n, "READ", o) \in account.held
  <2> DEFINE g == Grant(n, "READ", f.on)
             t == Statement("GRANT_FUTURE", g)
  <2>1. g \in config.futures /\ g.role = n /\ g.privilege = "READ" /\ g.on = f.on
    BY <1>6 DEF Undisturbed, Grant
  <2>2. g \in RoleFutures(n)
    BY <2>1 DEF RoleFutures, OfRole
  <2>3. t.op = "GRANT_FUTURE" /\ t.privilege = "READ"
    BY <2>1, StatementFields
  <2> HIDE DEF g, t
  <2>4. t \notin Range(task[n])
    <3>1. ASSUME t \in Range(Tail(task[n])) PROVE FALSE
      <4>1. <<Head(task[n]), t>> \in ReadComesFirst(n)
        BY <1>1, <1>5, <3>1, ShapedTail
      <4> QED
        BY <1>1, <1>2, <1>6, <2>3, <4>1 DEF ReadComesFirst
    <3>2. t # s
      BY <1>2, <2>3
    <3> QED
      BY <1>1, <1>5, <3>1, <3>2, RangeOfTail
  <2>5. g \in account.futures
    BY <1>1, <1>4, <2>2, <2>4 DEF FuturesAreComing, t
  <2>6. o \in account.objects /\ TypeOf[o] = g.on
    BY <1>6, <2>1 DEF Existing
  <2>7. ~IsNext(Statement("GRANT_ALL", g), n)
    <3>1. Statement("GRANT_ALL", g).privilege = "READ"
      BY <2>1, StatementFields
    <3> QED
      BY <1>1, <1>2, <1>6, <3>1 DEF IsNext
  <2>8. Grant(g.role, g.privilege, o) \in account.held
    BY <2>1, <2>5, <2>6, <2>7 DEF Covered
  <2> QED
    BY <2>1, <2>8
<1> HIDE DEF s, n
<1>7. IsLegal(s)
  BY <1>2, <1>3, <1>6 DEF IsLegal
<1> QED
  BY <1>7 DEF s

\* While nothing is disturbed, a worker whose next statement is a sequel neither
\* fails nor only suggests it.
LEMMA SequelIsDone ==
  ASSUME KeepInv, TasksAreWanted, RestFits, [Next]_vars, Undisturbed',
         NEW s, NEW m, IsNext(s, m), s.op \in {"GRANT_ROLE", "GRANT_ALL"},
         pc = "create" => IsLegal(s)
  PROVE  IsNext(s, m)' \/ Execute(m)
<1>0. TypesFit /\ TasksFit /\ RowsFit /\ faults \in Nat
  BY DEF KeepInv, TypesFit, RestFits
<1>1. m \in DOMAIN task /\ task[m] # <<>> /\ Head(task[m]) = s /\ Invocation.action = "apply"
  BY DEF IsNext
<1>2. HasStatement(m)
  BY <1>1 DEF HasStatement
<1>3. pc = "create"
  <2>1. ASSUME pc = "drop" PROVE FALSE
    <3>1. s = DropOf(m)
      BY <1>0, <1>1, <1>2, <2>1, TheNext
    <3> QED
      BY <3>1 DEF DropOf, RoleStatement, ObjectStatement, Statement
  <2> QED
    BY <1>0, <1>1, <2>1, WhileWorking
<1>4. faults = 0 /\ faults' = 0
  BY StaysUndisturbed
<1>5. CASE Start \/ Begin \/ Submit \/ Finish \/ Exit
  BY <1>5, NothingIsNext
<1>6. CASE Crash
  BY <1>4, <1>6 DEF Crash
<1>7. CASE UNCHANGED vars
  BY <1>7 DEF vars, IsNext, Invocation
<1>8. ASSUME NEW n, ReadGrants(n) PROVE IsNext(s, m)'
  <2> DEFINE q == Reconcile(n, LiveGrantees(n)) \o Tail(task[n])
  <2>1. /\ n \in DOMAIN task /\ Head(task[n]).op = "SHOW_GRANTS" /\ UNCHANGED << scenario, inv >>
        /\ task' = [task EXCEPT ![n] = q]
    BY <1>8 DEF ReadGrants, HasStatement
  <2>2. m # n
    BY <1>1, <2>1
  <2> HIDE DEF q
  <2> QED
    BY <2>1, <2>2, StaysNext
<1>9. ASSUME NEW n, Suggest(n) PROVE IsNext(s, m)'
  <2>1. n \in DOMAIN task /\ UNCHANGED << scenario, inv >> /\ task' = [task EXCEPT ![n] = Tail(task[n])]
    BY <1>9 DEF Suggest, Advance, HasStatement
  <2>2. m # n
    BY <1>1, <1>9, SuggestedIsUnsafe
  <2> QED
    BY <2>1, <2>2, StaysNext
<1>10. ASSUME NEW n, Raise(n) PROVE IsNext(s, m)'
  <2>1. n \in DOMAIN task /\ UNCHANGED << scenario, inv >> /\ task' = [task EXCEPT ![n] = <<>>]
    BY <1>10 DEF Raise, HasStatement
  <2>2. ~IsLegal(Head(task[n]))
    BY <1>4, <1>10 DEF Raise
  <2>3. m # n
    BY <1>1, <1>3, <2>2
  <2> QED
    BY <2>1, <2>3, StaysNext
<1>11. ASSUME NEW n, Execute(n), n # m PROVE IsNext(s, m)'
  <2>1. n \in DOMAIN task /\ UNCHANGED << scenario, inv >> /\ task' = [task EXCEPT ![n] = Tail(task[n])]
    BY <1>11, ExecuteHas
  <2> QED
    BY <1>11, <2>1, StaysNext
<1> QED
  BY <1>5, <1>6, <1>7, <1>8, <1>9, <1>10, <1>11, Steps

\* Once a statement with a sequel is executed, the sequel is next.
LEMMA SequelIsNext ==
  ASSUME KeepInv, TasksAreWanted, NEW n \in Roles, Execute(n),
         NEW s, s = Head(task[n]), s.op \in {"CREATE_ROLE", "GRANT_FUTURE"}
  PROVE  IsNext(Statement(Sequel[s.op], s), n)'
<1>1. /\ n \in DOMAIN task /\ IsSeq(task[n]) /\ task[n] # <<>> /\ UNCHANGED << scenario, inv >>
      /\ task' = [task EXCEPT ![n] = Tail(task[n])] /\ Invocation.action = "apply"
      /\ Effect(n, s)
  BY ExecuteHas
<1>2. pc = "create"
  <2>1. ASSUME DropEffect(n, s) PROVE FALSE
    BY <2>1 DEF DropEffect, RoleStatement, ObjectStatement, Statement
  <2> QED
    BY <1>1, <2>1 DEF Effect
<1>3. Shaped(n, task[n])
  BY <1>1, <1>2 DEF TasksAreWanted
<1>4. Tail(task[n]) # <<>> /\ Head(Tail(task[n])) = Statement(Sequel[s.op], s)
  BY <1>1, <1>3, ShapedTail
<1>5. n \in DOMAIN task' /\ task'[n] = Tail(task[n])
  BY <1>1
<1>6. Invocation' = Invocation
  BY <1>1 DEF Invocation
<1> QED
  BY <1>1, <1>4, <1>5, <1>6 DEF IsNext

\* What is held on an object because of a future grant is held as long as the
\* object is there.
LEMMA CoveredStays ==
  ASSUME KeepInv, TasksAreWanted, AccountIsSound, FuturesAreComing, RestFits, Covered, [Next]_vars
  PROVE  Covered'
<1>1. UNCHANGED scenario /\ config' = config /\ (Compatible' => Compatible)
  <2>1. UNCHANGED scenario
    BY WhoChanges
  <2> QED
    BY <2>1, SameStatements
<1> SUFFICES ASSUME Compatible, Undisturbed, Undisturbed', NEW f \in account'.futures, f \in config.futures,
                    NEW o \in account'.objects, TypeOf[o] = f.on
             PROVE  \/ Grant(f.role, f.privilege, o) \in account'.held
                    \/ IsNext(Statement("GRANT_ALL", f), f.role)'
  BY <1>1, StaysUndisturbed DEF Covered
<1> DEFINE s == Statement("GRANT_ALL", f)
           g == Grant(f.role, f.privilege, o)
<1>2. s.op = "GRANT_ALL" /\ s.role = f.role /\ s.privilege = f.privilege /\ s.on = f.on
  BY StatementFields
<1>3. scenario \in Scenarios /\ f.role \in config.roles /\ f \in Futures /\ f.role \in Roles
  BY ConfigIsSound, FuturesAreOfRoles DEF KeepInv, TypesFit, Futures
<1>4. /\ \A h \in account.futures : TypeOf[o] = h.on => Grant(h.role, h.privilege, o) \in FutureGrantsOn(o)
      /\ g.on = o /\ g.role = f.role
  BY DEF FutureGrantsOn, Grant
<1>5. IsNext(s, f.role) /\ f \in account.futures => IsNext(s, f.role)' \/ Execute(f.role)
  <2>1. ASSUME f \in account.futures, IsNext(s, f.role), pc = "create" PROVE IsLegal(s)
    BY <2>1, NextIsLegal
  <2> HIDE DEF s
  <2>2. s.op \in {"GRANT_ROLE", "GRANT_ALL"}
    BY <1>2
  <2> QED
    BY <2>1, <2>2, SequelIsDone
<1> HIDE DEF s, g
<1>6. CASE \A n : ~Execute(n)
  <2>1. UNCHANGED account
    BY <1>6, WhoChanges
  <2>2. g \in account.held \/ IsNext(s, f.role)
    BY <2>1 DEF Covered, s, g
  <2> QED
    BY <1>5, <1>6, <2>1, <2>2 DEF s, g
<1>7. ASSUME NEW n, Execute(n) PROVE g \in account'.held \/ IsNext(s, f.role)'
  <2>1. PICK x : x = Head(task[n])
    OBVIOUS
  <2>2. /\ FuturesChange(n, x) /\ ObjectsChange(n, x) /\ account' = AccountAfter(x)
        /\ account \in AccountRecords /\ account' \in AccountRecords
    BY <1>7, <2>1, Executed DEF Changes
  <2>3. CASE f \notin account.futures
    <3>1. n \in config.roles /\ f \in RoleFutures(n) /\ x = Statement("GRANT_FUTURE", f)
      BY <2>2, <2>3 DEF FuturesChange
    <3>2. /\ x.op = "GRANT_FUTURE" /\ Statement("GRANT_ALL", x) = s /\ n = f.role
          /\ Sequel["GRANT_FUTURE"] = "GRANT_ALL"
      BY <3>1, StatementFields DEF RoleFutures, OfRole, s, Sequel
    <3>3. n \in Roles
      BY <1>3, <3>2
    <3>4. IsNext(Statement(Sequel[x.op], x), n)'
      BY <1>7, <2>1, <3>2, <3>3, SequelIsNext
    <3> QED
      BY <3>2, <3>4
  <2>4. CASE f \in account.futures /\ o \notin account.objects
    <3>1. x = ObjectStatement("CREATE", o)
      BY <2>2, <2>4 DEF ObjectsChange
    <3>2. x.op = "CREATE" /\ x.on = o
      BY <3>1 DEF ObjectStatement, Statement, Grant
    <3>3. FutureGrantsOn(o) \subseteq account'.held
      BY <2>2, <3>2, DoneIs
    <3> QED
      BY <1>4, <2>4, <3>3 DEF g
  <2>5. CASE f \in account.futures /\ o \in account.objects /\ IsNext(s, f.role)
    <3>1. CASE Execute(f.role)
      <4>1. account' = AccountAfter(s)
        BY <2>5, <3>1 DEF Execute, IsNext
      <4>2. Grant(s.role, s.privilege, o) \in account'.held
        BY <1>2, <2>2, <4>1, DoneIs
      <4> QED
        BY <1>2, <4>2 DEF g
    <3> QED
      BY <1>5, <2>5, <3>1
  <2>6. CASE f \in account.futures /\ o \in account.objects /\ g \in account.held
    <3>1. ASSUME g \notin account'.held PROVE FALSE
      <4>1. MayBeLost(g)
        BY <2>6, <3>1, OnlyWhatMayBeLost
      <4>2. o \in Objects
        BY <2>2, <2>6, AccountIs
      <4>3. Gives(f.role, g)
        <5>1. f \in RoleFutures(f.role)
          BY DEF RoleFutures, OfRole
        <5> QED
          BY <1>3, <4>2, <5>1, FuturesGive DEF g
      <4>4. g \in Entitled(f.role)
        <5>1. g \in [role : {f.role}, privilege : Privileges, on : account.objects \cup {Account}]
          BY <1>3, <2>6 DEF g, Grant, Futures
        <5> QED
          BY <4>3, <5>1 DEF Entitled
      <4>5. o \in account.stale \ account'.stale
        BY <1>3, <1>4, <4>1, <4>4 DEF MayBeLost
      <4>6. x = ObjectStatement("REPLACE", o)
        BY <2>2, <4>5 DEF ObjectsChange
      <4>7. x.op = "REPLACE" /\ x.on = o
        BY <4>6 DEF ObjectStatement, Statement, Grant
      <4>8. FutureGrantsOn(o) \subseteq account'.held
        BY <2>2, <4>7, DoneIs
      <4> QED
        BY <1>4, <2>6, <3>1, <4>8 DEF g
    <3> QED
      BY <3>1
  <2> QED
    BY <2>3, <2>4, <2>5, <2>6 DEF Covered, s, g
<1> QED
  BY <1>6, <1>7 DEF s, g

\* A role that is kept is granted to the role SnowDDL runs as, and one that is
\* created is next.
LEMMA OursStay ==
  ASSUME KeepInv, TasksAreWanted, RestFits, Ours, [Next]_vars
  PROVE  Ours'
<1>1. config' = config
  BY WhoChanges DEF config
<1> SUFFICES ASSUME Undisturbed, Undisturbed', NEW r \in account'.roles, r \in config.roles
             PROVE  r \in account'.ours \/ IsNext(RoleStatement("GRANT_ROLE", r), r)'
  BY <1>1, StaysUndisturbed DEF Ours
<1> DEFINE s == RoleStatement("GRANT_ROLE", r)
<1>2. s.op = "GRANT_ROLE" /\ s.role = r /\ s = Statement("GRANT_ROLE", RoleStatement("CREATE_ROLE", r))
  BY DEF RoleStatement, Statement, Grant
<1>3. r \in Roles /\ r \in Declared
  BY ConfigIsSound DEF KeepInv, TypesFit, Declared
<1> HIDE DEF s
<1>4. IsNext(s, r) /\ r \in account.roles => IsNext(s, r)' \/ Execute(r)
  <2>1. r \in account.roles => IsLegal(s)
    BY <1>2 DEF IsLegal
  <2> QED
    BY <1>2, <2>1, SequelIsDone
<1>5. CASE \A n : ~Execute(n)
  <2>1. UNCHANGED account
    BY <1>5, WhoChanges
  <2> QED
    BY <1>4, <1>5, <2>1 DEF Ours, s
<1>6. ASSUME NEW n, Execute(n) PROVE r \in account'.ours \/ IsNext(s, r)'
  <2>1. PICK x : x = Head(task[n])
    OBVIOUS
  <2>2. RolesChange(n, x) /\ account' = AccountAfter(x) /\ account \in AccountRecords
    BY <1>6, <2>1, Executed DEF Changes
  <2>3. CASE r \notin account.roles
    <3>1. r = n /\ x = RoleStatement("CREATE_ROLE", r)
      BY <2>2, <2>3 DEF RolesChange
    <3>2. x.op = "CREATE_ROLE" /\ Sequel["CREATE_ROLE"] = "GRANT_ROLE"
      BY <3>1 DEF RoleStatement, Statement, Sequel
    <3>3. IsNext(Statement(Sequel[x.op], x), n)'
      BY <1>3, <1>6, <2>1, <3>1, <3>2, SequelIsNext
    <3> QED
      BY <1>2, <3>1, <3>2, <3>3
  <2>4. CASE r \in account.roles /\ IsNext(s, r)
    <3>1. CASE Execute(r)
      <4>1. account' = AccountAfter(s)
        BY <2>4, <3>1 DEF Execute, IsNext
      <4> QED
        BY <1>2, <2>2, <4>1, DoneIs
    <3> QED
      BY <1>4, <2>4, <3>1
  <2>5. CASE r \in account.ours
    BY <1>3, <2>2, <2>5 DEF RolesChange
  <2> QED
    BY <2>3, <2>4, <2>5 DEF Ours, s
<1> QED
  BY <1>5, <1>6 DEF s

-----------------------------------------------------------------------------
(* What the resolvers so far have done is not undone.                      *)

\* The resolver of n has its tasks submitted.
Reached(n) ==
  \E k \in DOMAIN Sequence : /\ Sequence[k] = KindOf(n)
                             /\ k < idx \/ (k = idx /\ pc = "create")

\* What n lacks is still to be done.
Settled(n) ==
  /\ n \notin Declared => n \notin account.roles \cup account.objects
  /\ n \in config.roles => RoleOwes(n, Left(n))
  /\ n \in config.objects => ObjectOwes(n, Left(n))

\* An invocation is under way, and it is an apply that may do everything and in
\* which nothing failed.
Running == pc \in {"resolver", "drop", "create"}
Clean   == Invocation.action = "apply" /\ HasOption("apply_unsafe") /\ errors = {}

\* Names whose resolver has submitted its tasks are in step, but for what is left
\* of these tasks.
Converging ==
  Running /\ Clean /\ Compatible /\ (Undisturbed \/ HasOption("refresh_future_grants")) =>
    \A n \in Managed \cup Objects : Reached(n) => Settled(n)

\* What is not declared is about to be dropped.
DropsAreComing ==
  pc = "drop" /\ Clean =>
    \A n \in (Resolved \cap (account.roles \cup account.objects)) \ Declared :
      n \in DOMAIN task /\ task[n] # <<>>

\* What is resolved is reached when its tasks are submitted.
LEMMA ReachedIs ==
  ASSUME idx \in 1..Len(Sequence), NEW n \in Managed \cup Objects
  PROVE  /\ n \in Resolved <=> Sequence[idx] = KindOf(n)
         /\ Reached(n) /\ n \in Resolved => pc = "create"
         /\ pc = "create" /\ n \in Resolved => Reached(n)
<1>1. n \in Roles <=> n \notin Objects
  BY Names DEF Managed
<1>2. n \in Resolved <=> Sequence[idx] = KindOf(n)
  BY <1>1 DEF Resolved, Resolver, KindOf
<1>3. /\ idx \in 1..6 /\ DOMAIN Sequence = 1..6
      /\ \A i, j \in 1..6 : Sequence[i] = Sequence[j] => i = j
  BY Kinds
<1> QED
  BY <1>2, <1>3 DEF Reached

\* Statements left are left, but for the one that is executed.
LEMMA LeftIs ==
  ASSUME KeepInv, TasksAreWanted, NEW n, Execute(n), NEW m, NEW x \in Left(m)
  PROVE  x \in Left(m)' \/ (m = n /\ x = Head(task[n]))
  BY ExecuteHas

\* While objects are resolved, nothing is left for a role.
LEMMA NothingLeft ==
  ASSUME KeepInv, TasksAreWanted, NEW n \in Objects, Execute(n), NEW m \in Roles
  PROVE  Left(m) = {}
<1>1. n \in Resolved /\ TypesFit /\ TasksFit /\ RowsFit /\ n \in DOMAIN task
  BY ExecuteHas DEF KeepInv
<1>2. m \notin Resolved /\ DOMAIN task \subseteq Resolved
  BY <1>1, OneKind, Names, WhileWorking
<1> QED
  BY <1>2 DEF Left

\* A role's grants on single objects come after the objects.
LEMMA ObjectsComeBefore ==
  ASSUME KeepInv, TasksAreWanted, NEW n, Execute(n), NEW m \in config.roles, Reached(m),
         NEW g \in RoleGrants(m), g.on # Account
  PROVE  n \in Roles
<1>1. /\ n \in Resolved /\ TypesFit /\ TasksFit /\ RowsFit /\ n \in DOMAIN task
      /\ scenario \in Scenarios /\ n \in Roles \cup Objects
  BY ExecuteHas DEF KeepInv, TypesFit
<1>2. idx \in 1..6 /\ pc \in {"drop", "create"}
  BY <1>1, WhileWorking, Kinds
<1>3. RoleResolver[m] = "TECHNICAL_ROLE" /\ m \in Roles
  BY <1>1, FuturesAreOfRoles, ConfigIsSound DEF RoleGrants, OfRole
<1>4. PICK k \in 1..6 : Sequence[k] = "TECHNICAL_ROLE" /\ (k < idx \/ k = idx)
  BY <1>3, Kinds DEF Reached, KindOf
<1>5. k = 6
  BY <1>4, Kinds
<1>6. Resolver = "TECHNICAL_ROLE"
  BY <1>2, <1>4, <1>5 DEF Resolver
<1>7. n \notin Objects
  BY <1>1, <1>6, GrantsAssumption DEF Resolved, GrantsAssumption, ObjectTypes
<1> QED
  BY <1>1, <1>7

\* What a role's blueprint gives it is only lost with its object.
LEMMA GivenIsKept ==
  ASSUME KeepInv, [Next]_vars, Compatible, NEW m \in config.roles,
         NEW h \in account.held \ account'.held, h.role = m, Gives(m, h)
  PROVE  h.on \in account.stale \ account'.stale \/ h.on \in account.objects \ account'.objects
<1>1. MayBeLost(h)
  BY OnlyWhatMayBeLost
<1>2. h \in Held /\ h.on \in account.objects \cup {Account}
  BY AccountIs DEF KeepInv, TypesFit, AccountFits
<1>3. h \in [role : {m}, privilege : Privileges, on : account.objects \cup {Account}]
  BY <1>2 DEF Held
<1>4. h \in Entitled(m)
  BY <1>3 DEF Entitled
<1> QED
  BY <1>1, <1>4 DEF MayBeLost

\* A role is not brought out of step by anything a worker does.
LEMMA RoleKeepsOwing ==
  ASSUME KeepInv, TasksAreWanted, Compatible, NEW n, Execute(n),
         NEW m \in config.roles, Reached(m), RoleOwes(m, Left(m))
  PROVE  RoleOwes(m, Left(m))'
<1>1. PICK y : y = Head(task[n])
  OBVIOUS
<1>2. /\ RolesChange(n, y) /\ FuturesChange(n, y) /\ ObjectsChange(n, y) /\ HeldChange(n, y)
      /\ account' = AccountAfter(y) /\ account \in AccountRecords /\ account' \in AccountRecords
      /\ scenario \in Scenarios /\ n \in Roles \cup Objects
  BY <1>1, Executed DEF Changes
<1>3. UNCHANGED scenario /\ [Next]_vars
  <2>1. UNCHANGED scenario
    BY DEF Execute
  <2>2. Next
    BY <1>2 DEF Next, Worker
  <2> QED
    BY <2>1, <2>2
<1>4. /\ RoleGrants(m)' = RoleGrants(m) /\ RoleFutures(m)' = RoleFutures(m)
      /\ \A g : Gives(m, g)' <=> Gives(m, g)
  BY <1>3, SameWants
<1>5. m \in Roles /\ m \in Declared
  BY <1>2, ConfigIsSound DEF Declared
<1>6. n \in Objects => Left(m) = {} /\ n \notin Roles
  BY <1>5, NothingLeft, Names
<1>7. \A x \in Left(m) : x \in Left(m)' \/ (m = n /\ x = y)
  BY <1>1, LeftIs
<1> DEFINE L == Left(m)'
<1> HIDE DEF L
<1>8. m \in account'.roles \/ RoleStatement("CREATE_ROLE", m) \in L
  <2>1. CASE m \in account.roles
    BY <1>2, <1>5, <2>1 DEF RolesChange
  <2>2. CASE y = RoleStatement("CREATE_ROLE", m)
    <3>1. y.op = "CREATE_ROLE" /\ y.role = m
      BY <2>2 DEF RoleStatement, Statement, Grant
    <3> QED
      BY <1>2, <3>1, DoneIs
  <2> QED
    BY <1>7, <2>1, <2>2 DEF RoleOwes, L
<1>9. ASSUME NEW g \in RoleGrants(m) PROVE g \in account'.held \/ Statement("GRANT", g) \in L
  <2>1. g \in Held /\ g.role = m /\ Gives(m, g)
    BY <1>2, OwnGrants DEF RoleGrants, OfRole, NotOwnership, Gives
  <2>2. ASSUME g \in account.held, g \notin account'.held PROVE FALSE
    <3>1. g.on \in account.stale \ account'.stale \/ g.on \in account.objects \ account'.objects
      BY <1>3, <2>1, <2>2, GivenIsKept
    <3>2. g.on # Account
      BY <1>2, <3>1, AccountIs, Names
    <3>3. n \in Roles
      BY <3>2, ObjectsComeBefore
    <3> QED
      BY <1>2, <3>1, <3>3 DEF ObjectsChange
  <2>3. CASE y = Statement("GRANT", g)
    <3>1. y.op = "GRANT" /\ GrantOf(y) = g
      BY <2>1, <2>3, GrantOfStatement
    <3> QED
      BY <1>2, <3>1, DoneIs
  <2> QED
    BY <1>7, <2>2, <2>3 DEF RoleOwes, L
<1>10. ASSUME NEW h \in account'.held, h.role = m PROVE Gives(m, h) \/ Taking(h) \in L
  <2>1. h \in Held
    BY <1>2, <1>10 DEF AccountRecords
  <2>2. CASE h \in account.held
    <3>1. Gives(m, h) \/ Taking(h) \in Left(m)
      BY <1>10, <2>2 DEF RoleOwes, OfRole
    <3>2. y # Taking(h)
      <4>1. ASSUME h.privilege = "OWNERSHIP", y = Statement("TRANSFER", h) PROVE FALSE
        <5>1. y.op = "TRANSFER" /\ y.on = h.on
          BY <4>1, StatementFields
        <5>2. h = Grant(m, "OWNERSHIP", y.on)
          BY <1>10, <2>1, <4>1, <5>1 DEF Held, Grant
        <5> QED
          BY <1>2, <1>10, <5>1, <5>2, DoneIs
      <4>2. ASSUME y = Statement("REVOKE", h) PROVE FALSE
        <5>1. y.op = "REVOKE" /\ GrantOf(y) = h
          BY <2>1, <4>2, GrantOfStatement
        <5> QED
          BY <1>2, <1>10, <5>1, DoneIs
      <4> QED
        BY <4>1, <4>2 DEF Taking
    <3> QED
      BY <1>7, <3>1, <3>2 DEF L
  <2>3. CASE h \notin account.held
    <3>1. CASE n \in config.objects /\ h \in FutureGrantsOn(n)
      <4>1. PICK f \in account.futures : h = Grant(f.role, f.privilege, n) /\ f.on = TypeOf[n]
        BY <3>1 DEF FutureGrantsOn
      <4>2. f.role = m /\ n \in Objects
        BY <1>2, <1>10, <3>1, <4>1, ConfigIsSound DEF Grant
      <4>3. f \in RoleFutures(m)
        BY <1>6, <4>1, <4>2 DEF RoleOwes, OfRole
      <4> QED
        BY <1>2, <4>1, <4>2, <4>3, FuturesGive
    <3>2. ASSUME n \in config.objects, NEW e \in Entries(n), NEW u \in e.roles, h = Grant(u, e.privilege, n)
          PROVE  Gives(m, h)
      <4>1. u = m
        BY <1>10, <3>2 DEF Grant
      <4>2. PICK i \in DOMAIN config.named[n] : e = config.named[n][i]
        BY DEF Entries, Range
      <4>3. m \in e.roles <=> Gives(m, Grant(m, e.privilege, n))
        BY <3>2, <4>2 DEF Compatible
      <4> QED
        BY <3>2, <4>1, <4>3
    <3> QED
      BY <1>2, <1>10, <2>3, <3>1, <3>2 DEF HeldChange
  <2> QED
    BY <2>2, <2>3
<1>11. ASSUME NEW f \in RoleFutures(m) PROVE f \in account'.futures \/ Statement("GRANT_FUTURE", f) \in L
  <2>1. f \in config.futures /\ f \in Futures
    BY <1>2, OwnGrants DEF RoleFutures, OfRole
  <2>2. CASE y = Statement("GRANT_FUTURE", f)
    <3>1. y.op = "GRANT_FUTURE" /\ GrantOf(y) = f
      BY <2>1, <2>2, GrantOfStatement
    <3> QED
      BY <1>2, <3>1, DoneIs
  <2>3. CASE f \in account.futures
    BY <1>2, <2>1, <2>3 DEF FuturesChange
  <2> QED
    BY <1>7, <2>2, <2>3 DEF RoleOwes, L
<1>12. ASSUME NEW f \in account'.futures, f.role = m
       PROVE  f \in RoleFutures(m) \/ Statement("REVOKE_FUTURE", f) \in L
  <2>1. f \in Futures
    BY <1>2 DEF AccountRecords
  <2>2. CASE f \in account.futures
    <3>1. f \in RoleFutures(m) \/ Statement("REVOKE_FUTURE", f) \in Left(m)
      BY <1>12, <2>2 DEF RoleOwes, OfRole
    <3>2. ASSUME y = Statement("REVOKE_FUTURE", f) PROVE FALSE
      <4>1. y.op = "REVOKE_FUTURE" /\ GrantOf(y) = f
        BY <2>1, <3>2, GrantOfStatement
      <4> QED
        BY <1>2, <4>1, DoneIs
    <3> QED
      BY <1>7, <3>1, <3>2 DEF L
  <2>3. CASE f \notin account.futures
    <3>1. f \in RoleFutures(n)
      BY <1>2, <2>3 DEF FuturesChange
    <3> QED
      BY <1>12, <3>1 DEF RoleFutures, OfRole
  <2> QED
    BY <2>2, <2>3
<1>13. ASSUME NEW f \in RoleFutures(m), NEW o \in account'.objects, TypeOf[o] = f.on
       PROVE  Grant(m, f.privilege, o) \in account'.held \/ Statement("GRANT_ALL", f) \in L
  <2> DEFINE g == Grant(m, f.privilege, o)
  <2>1. f.role = m /\ f \in Futures /\ o \in Objects
    BY <1>2, OwnGrants, AccountIs DEF RoleFutures, OfRole, AccountRecords
  <2>2. Gives(m, g) /\ g.role = m /\ g.on = o
    BY <1>2, <1>13, <2>1, FuturesGive DEF Grant
  <2>3. ASSUME y.op \in {"CREATE", "REPLACE"}, y.on = o, f \in account.futures PROVE g \in account'.held
    <3>1. g \in FutureGrantsOn(o)
      BY <1>13, <2>1, <2>3 DEF FutureGrantsOn
    <3> QED
      BY <1>2, <2>3, <3>1, DoneIs
  <2>4. CASE o \notin account.objects
    <3>1. o = n /\ y = ObjectStatement("CREATE", n)
      BY <1>2, <2>4 DEF ObjectsChange
    <3>2. y.op = "CREATE" /\ y.on = o
      BY <3>1 DEF ObjectStatement, Statement, Grant
    <3>3. f \in account.futures
      BY <1>6, <2>1, <3>1 DEF RoleOwes
    <3> QED
      BY <2>3, <3>2, <3>3
  <2>5. CASE g \in account.held
    <3>1. ASSUME g \notin account'.held PROVE FALSE
      <4>1. o \in account.stale \ account'.stale
        BY <1>3, <1>13, <2>2, <2>5, <3>1, GivenIsKept
      <4>2. o = n /\ y = ObjectStatement("REPLACE", n)
        BY <1>2, <1>13, <4>1 DEF ObjectsChange
      <4>3. y.op = "REPLACE" /\ y.on = o
        BY <4>2 DEF ObjectStatement, Statement, Grant
      <4>4. f \in account.futures
        BY <1>6, <2>1, <4>2 DEF RoleOwes
      <4> QED
        BY <2>3, <3>1, <4>3, <4>4
    <3> QED
      BY <3>1
  <2>6. CASE o \in account.objects /\ Statement("GRANT_ALL", f) \in Left(m)
    <3>1. CASE y = Statement("GRANT_ALL", f)
      <4>1. y.op = "GRANT_ALL" /\ y.role = m /\ y.privilege = f.privilege /\ y.on = f.on
        BY <2>1, <3>1, StatementFields
      <4> QED
        BY <1>2, <1>13, <4>1, DoneIs
    <3> QED
      BY <1>7, <2>6, <3>1 DEF L
  <2> QED
    BY <1>13, <2>4, <2>5, <2>6 DEF RoleOwes
<1> QED
  BY <1>4, <1>8, <1>9, <1>10, <1>11, <1>12, <1>13 DEF RoleOwes, OfRole, L

\* What Grant makes.
LEMMA GrantFields ==
  /\ \A r, p, x : Grant(r, p, x).role = r /\ Grant(r, p, x).privilege = p /\ Grant(r, p, x).on = x
  /\ \A r, p, x, q, d, y : Grant(r, p, x) = Grant(q, d, y) => r = q /\ p = d /\ x = y
<1>1. \A r, p, x : Grant(r, p, x).role = r /\ Grant(r, p, x).privilege = p /\ Grant(r, p, x).on = x
  BY DEF Grant
<1> QED
  BY <1>1

\* Nobody else changes what an object's entries are to bring about.
LEMMA EntryKeepsOwing ==
  ASSUME KeepInv, TasksAreWanted, AccountIsSound, Compatible, NEW n, Execute(n),
         NEW o \in config.objects, NEW e \in Entries(o), o \notin account.stale,
         EntryOwes(o, e, Left(o))
  PROVE  EntryOwes(o, e, Left(o))'
<1>1. PICK y : y = Head(task[n])
  OBVIOUS
<1>2. /\ HeldChange(n, y) /\ account' = AccountAfter(y) /\ account \in AccountRecords
      /\ scenario \in Scenarios /\ n \in Roles \cup Objects
      /\ n \in Roles => n \in Managed
  BY <1>1, Executed DEF Changes
<1>3. \A x \in Left(o) : x \in Left(o)' \/ x = y
  BY <1>1, LeftIs
<1>4. /\ o \in Objects /\ o \notin Roles /\ e.privilege \in Privileges /\ e.privilege # "OWNERSHIP"
      /\ \A d \in Entries(o) : d.privilege = e.privilege => d = e
  <2>1. scenario \in Scenarios
    BY <1>2
  <2>2. o \in Objects /\ \A d \in Entries(o) : d.privilege \in Privileges \ {"OWNERSHIP"}
    BY <2>1, EntriesAre
  <2>3. \A c, d \in Entries(o) : c.privilege = d.privilege => c = d
    BY <2>1, EntriesAre
  <2> QED
    BY <2>2, <2>3, Names
<1>5. y.op = "REPLACE" => n \in account.stale
  BY <1>1, TheNext DEF KeepInv, Execute
<1>6. ObjectStatement("REPLACE", n).op = "REPLACE"
  BY DEF ObjectStatement, Statement, Grant
<1>7. config.roles \subseteq Managed
  BY <1>2, ManagedRoles
<1> DEFINE L == Left(o)'
<1> HIDE DEF L
<1>8. ASSUME NEW u \in Roles \ Managed, u \in e.roles
      PROVE  Grant(u, e.privilege, o) \in account'.held
               \/ Statement("GRANT", Grant(u, e.privilege, o)) \in L
  <2>1. PICK g : g = Grant(u, e.privilege, o)
    OBVIOUS
  <2>2. g.role = u /\ g.privilege = e.privilege /\ g.on = o
    BY <2>1, GrantFields
  <2>3. ASSUME g \in account.held, g \notin account'.held PROVE FALSE
    <3>1. \/ n \in Roles /\ u = n
          \/ /\ o = n
             /\ \/ n \notin Declared
                \/ y = ObjectStatement("REPLACE", n)
                \/ \E d \in Entries(n) : \E v \in Roles \ d.roles : g = Grant(v, d.privilege, n)
      BY <1>2, <1>4, <2>2, <2>3 DEF HeldChange
    <3>2. ~ \E d \in Entries(o) : \E v \in Roles \ d.roles : g = Grant(v, d.privilege, o)
      BY <1>4, <1>8, <2>2, GrantFields
    <3>3. o = n /\ y = ObjectStatement("REPLACE", n)
      BY <1>2, <1>8, <3>1, <3>2 DEF Declared
    <3> QED
      BY <1>5, <1>6, <3>3
  <2>4. CASE y = Statement("GRANT", g)
    <3>1. y.op = "GRANT" /\ GrantOf(y) = g
      BY <2>1, <2>2, <2>4, StatementFields DEF GrantOf
    <3> QED
      BY <1>2, <2>1, <3>1, DoneIs
  <2> QED
    BY <1>3, <1>8, <2>1, <2>3, <2>4 DEF EntryOwes, L
<1>9. ASSUME NEW u \in Roles \ Managed, u \notin e.roles
      PROVE  Grant(u, e.privilege, o) \notin account'.held
               \/ Statement("REVOKE_UNSAFE", Grant(u, e.privilege, o)) \in L
  <2>1. PICK g : g = Grant(u, e.privilege, o)
    OBVIOUS
  <2>2. g.role = u /\ g.privilege = e.privilege /\ g.on = o
    BY <2>1, GrantFields
  <2>3. ASSUME g \notin account.held, g \in account'.held PROVE FALSE
    <3>1. \/ n \in config.roles /\ u = n
          \/ o = n /\ g \in FutureGrantsOn(n)
          \/ \E d \in Entries(n) : \E v \in d.roles : g = Grant(v, d.privilege, n)
      BY <1>2, <2>2, <2>3 DEF HeldChange
    <3>2. ~ \E d \in Entries(n) : \E v \in d.roles : g = Grant(v, d.privilege, n)
      BY <1>4, <1>9, <2>2, GrantFields
    <3>3. ASSUME g \in FutureGrantsOn(o) PROVE FALSE
      <4>1. PICK f \in account.futures : g = Grant(f.role, f.privilege, o) /\ f.on = TypeOf[o]
        BY <3>3 DEF FutureGrantsOn
      <4>2. f \in Futures /\ f.role = u /\ f.privilege = e.privilege
        BY <1>2, <2>2, <4>1, GrantFields, AccountIs
      <4>3. f = Grant(u, e.privilege, TypeOf[o])
        BY <4>1, <4>2 DEF Futures, Grant
      <4>4. f \in scenario.account.futures
        BY <1>9, <4>1, <4>2 DEF AccountIsSound
      <4>5. PICK i \in DOMAIN config.named[o] : e = config.named[o][i]
        BY DEF Entries, Range
      <4> QED
        BY <1>9, <4>3, <4>4, <4>5 DEF Compatible
    <3> QED
      BY <1>7, <3>1, <3>2, <3>3
  <2>4. CASE y = Statement("REVOKE_UNSAFE", g)
    <3>1. y.op = "REVOKE_UNSAFE" /\ GrantOf(y) = g
      BY <2>1, <2>2, <2>4, StatementFields DEF GrantOf
    <3> QED
      BY <1>2, <2>1, <3>1, DoneIs
  <2> QED
    BY <1>3, <1>9, <2>1, <2>3, <2>4 DEF EntryOwes, L
<1> QED
  BY <1>8, <1>9 DEF EntryOwes, L

\* An object is not brought out of step by anything a worker does.
LEMMA ObjectKeepsOwing ==
  ASSUME KeepInv, TasksAreWanted, AccountIsSound, Compatible, NEW n, Execute(n),
         NEW o \in config.objects, ObjectOwes(o, Left(o))
  PROVE  ObjectOwes(o, Left(o))'
<1>1. PICK y : y = Head(task[n])
  OBVIOUS
<1>2. /\ ObjectsChange(n, y) /\ account' = AccountAfter(y) /\ account \in AccountRecords
      /\ y.op # "SHOW_GRANTS"
  BY <1>1, Executed DEF Changes
<1>3. \A x \in Left(o) : x \in Left(o)' \/ x = y
  BY <1>1, LeftIs
<1>4. UNCHANGED scenario
  BY DEF Execute
<1>5. Entries(o)' = Entries(o)
  BY <1>4, SameWants
<1>6. \A op : ObjectStatement(op, o).op = op /\ ObjectStatement(op, o).on = o
  BY DEF ObjectStatement, Statement, Grant
<1>7. o \in Declared
  BY DEF Declared
<1> DEFINE L == Left(o)'
<1> HIDE DEF L
<1>8. o \in account'.objects \/ ObjectStatement("CREATE", o) \in L
  BY <1>2, <1>3, <1>6, <1>7, DoneIs DEF ObjectOwes, ObjectsChange, L
<1>9. o \notin account'.stale \/ ObjectStatement("REPLACE", o) \in L
  BY <1>2, <1>3, <1>6, DoneIs DEF ObjectOwes, ObjectsChange, L
<1>10. ASSUME NEW e \in Entries(o)
       PROVE  \/ ObjectStatement("SHOW_GRANTS", o) \in L
              \/ o \notin account'.stale /\ EntryOwes(o, e, Left(o))'
  <2>1. CASE ObjectStatement("SHOW_GRANTS", o) \in Left(o)
    BY <1>2, <1>3, <1>6, <2>1 DEF L
  <2>2. CASE o \notin account.stale /\ EntryOwes(o, e, Left(o))
    BY <1>2, <2>2, EntryKeepsOwing DEF ObjectsChange
  <2> QED
    BY <2>1, <2>2 DEF ObjectOwes
<1> QED
  BY <1>5, <1>8, <1>9, <1>10 DEF ObjectOwes, L

\* What a role lacks when its tasks are submitted is among them.
LEMMA RoleSettles ==
  ASSUME KeepInv, AccountIsSound, RowsAreCurrent, Covered, Compatible,
         Undisturbed \/ HasOption("refresh_future_grants"),
         Submit, NEW n \in Resolved \cap config.roles
  PROVE  RoleOwes(n, Left(n))'
<1>1. /\ scenario \in Scenarios /\ account \in AccountRecords /\ RowsFit
      /\ UNCHANGED << scenario, account >> /\ pc = "drop"
      /\ task' = [m \in Resolved \cap Declared |-> TaskOf(m)]
  BY DEF KeepInv, TypesFit, Submit
<1>2. n \in Roles /\ n \notin Objects /\ n \in Resolved \cap Declared
  BY <1>1, ConfigIsSound, Names DEF Declared
<1>3. n \in DOMAIN task' /\ task'[n] = TaskOf(n)
  BY <1>1, <1>2
<1> DEFINE L == Range(TaskOf(n))
<1>4. Left(n)' = L
  BY <1>3 DEF Left
<1>5. /\ RoleGrants(n)' = RoleGrants(n) /\ RoleFutures(n)' = RoleFutures(n)
      /\ \A g : Gives(n, g)' <=> Gives(n, g)
  BY <1>1, SameWants
<1>6. n \in DOMAIN rows <=> n \in account.roles
  BY <1>1, <1>2, AccountIs DEF RowsAreCurrent
<1> SUFFICES RoleOwes(n, L)
  BY <1>1, <1>4, <1>5 DEF RoleOwes, OfRole
<1>7. CASE n \in DOMAIN rows
  <2>1. TaskOf(n) = CompareRole(n, rows[n])
    BY <1>2, <1>7 DEF TaskOf
  <2>2. rows[n].held = OfRole(account.held, n) /\ rows[n].futures = OfRole(account.futures, n)
    BY <1>1, <1>2, <1>7 DEF RowsAreCurrent
  <2>3. /\ rows[n].held \subseteq {g \in Held : g.role = n}
        /\ rows[n].futures \subseteq {f \in Futures : f.role = n}
    BY <1>1, <1>7 DEF RowsFit
  <2>4. /\ \A g \in RoleGrants(n) \ rows[n].held : Statement("GRANT", g) \in L
        /\ \A h \in rows[n].held : Gives(n, h) \/ Taking(h) \in L
        /\ \A f \in RoleFutures(n) \ rows[n].futures : /\ Statement("GRANT_FUTURE", f) \in L
                                                       /\ Statement("GRANT_ALL", f) \in L
        /\ \A f \in rows[n].futures \ RoleFutures(n) : Statement("REVOKE_FUTURE", f) \in L
        /\ HasOption("refresh_future_grants") => \A f \in RoleFutures(n) : Statement("GRANT_ALL", f) \in L
    BY <1>1, <1>2, <2>1, <2>3, CompareRoleIs
  <2> HIDE DEF L
  <2>5. ASSUME NEW f \in RoleFutures(n), NEW o \in account.objects, TypeOf[o] = f.on
        PROVE  Grant(n, f.privilege, o) \in account.held \/ Statement("GRANT_ALL", f) \in L
    <3>1. CASE f \in account.futures /\ Undisturbed
      <4>1. f \in config.futures /\ f.role = n
        BY DEF RoleFutures, OfRole
      <4>2. ~IsNext(Statement("GRANT_ALL", f), n)
        BY NothingIsNext
      <4> QED
        BY <2>5, <3>1, <4>1, <4>2 DEF Covered
    <3>2. f \in rows[n].futures => f \in account.futures
      BY <2>2 DEF OfRole
    <3> QED
      BY <2>4, <3>1, <3>2
  <2>6. /\ \A g \in rows[n].held : g \in account.held
        /\ \A f \in rows[n].futures : f \in account.futures
    BY <2>2 DEF OfRole
  <2> QED
    BY <1>6, <1>7, <2>2, <2>4, <2>5, <2>6 DEF RoleOwes
<1>8. CASE n \notin DOMAIN rows
  <2>1. TaskOf(n) = CreateRole(n)
    BY <1>2, <1>8 DEF TaskOf
  <2>2. /\ RoleStatement("CREATE_ROLE", n) \in L
        /\ \A g \in RoleGrants(n) : Statement("GRANT", g) \in L
        /\ \A f \in RoleFutures(n) : /\ Statement("GRANT_FUTURE", f) \in L
                                     /\ Statement("GRANT_ALL", f) \in L
    BY <1>1, <1>2, <2>1, CreateRoleIs
  <2> HIDE DEF L
  <2>3. OfRole(account.held, n) = {} /\ OfRole(account.futures, n) = {}
    BY <1>6, <1>8 DEF AccountIsSound, OfRole
  <2> QED
    BY <2>2, <2>3 DEF RoleOwes
<1> QED
  BY <1>7, <1>8

\* And what an object lacks.
LEMMA ObjectSettles ==
  ASSUME KeepInv, AccountIsSound, RowsAreCurrent, Submit, NEW n \in Resolved \cap config.objects
  PROVE  ObjectOwes(n, Left(n))'
<1>1. /\ scenario \in Scenarios /\ account \in AccountRecords
      /\ UNCHANGED << scenario, account >> /\ pc = "drop" /\ AccountFits
      /\ task' = [m \in Resolved \cap Declared |-> TaskOf(m)]
  BY DEF KeepInv, TypesFit, Submit
<1>2. n \in Objects /\ n \notin Roles /\ n \in Resolved \cap Declared
  BY <1>1, ConfigIsSound, Names DEF Declared
<1>3. n \in DOMAIN task' /\ task'[n] = TaskOf(n)
  BY <1>1, <1>2
<1> DEFINE L == Range(TaskOf(n))
<1>4. Left(n)' = L
  BY <1>3 DEF Left
<1>5. Entries(n)' = Entries(n)
  BY <1>1, SameWants
<1>6. n \in DOMAIN rows <=> n \in account.objects
  BY <1>1, <1>2, AccountIs DEF RowsAreCurrent
<1> SUFFICES ObjectOwes(n, L)
  BY <1>1, <1>4, <1>5 DEF ObjectOwes, EntryOwes
<1>7. CASE n \in DOMAIN rows
  <2> DEFINE p == IF n \in account.stale THEN <<ObjectStatement("REPLACE", n)>> ELSE <<>>
             q == IF config.named[n] = <<>> THEN <<>> ELSE <<ObjectStatement("SHOW_GRANTS", n)>>
  <2>1. /\ IsSeq(p) /\ n \in account.stale => ObjectStatement("REPLACE", n) \in Range(p)
        /\ IsSeq(q) /\ config.named[n] # <<>> => ObjectStatement("SHOW_GRANTS", n) \in Range(q)
    BY UnitIsSeq, EmptyIsSeq
  <2>2. TaskOf(n) = p \o q
    BY <1>2, <1>7 DEF TaskOf, CompareObject
  <2>3. IsSeq(p) /\ IsSeq(q)
    BY UnitIsSeq, EmptyIsSeq
  <2> HIDE DEF p, q
  <2>4. L = Range(p) \cup Range(q)
    BY <2>2, <2>3, JoinIsSeq
  <2>5. ASSUME NEW e \in Entries(n) PROVE config.named[n] # <<>>
    <3>1. PICK i \in DOMAIN config.named[n] : TRUE
      BY DEF Entries, Range
    <3> QED
      BY <3>1
  <2> HIDE DEF L
  <2> QED
    BY <1>6, <1>7, <2>1, <2>3, <2>4, <2>5 DEF ObjectOwes
<1>8. CASE n \notin DOMAIN rows
  <2>1. TaskOf(n) = <<ObjectStatement("CREATE", n)>> \o Reconcile(n, NoGrantees)
    BY <1>2, <1>8 DEF TaskOf, CreateObject
  <2>2. /\ IsSeq(Reconcile(n, NoGrantees))
        /\ \A x : x \in Range(Reconcile(n, NoGrantees)) <=>
             \E e \in Entries(n) :
               \/ \E r \in e.roles \ NoGrantees[e.privilege] :
                    x = Statement("GRANT", Grant(r, e.privilege, n))
               \/ \E r \in NoGrantees[e.privilege] \ e.roles :
                    x = Statement("REVOKE_UNSAFE", Grant(r, e.privilege, n))
    BY <1>1, Grantees, ReconcileIs
  <2>3. \A e \in Entries(n) : e.privilege \in Privileges
    BY <1>1, EntriesAre
  <2>4. \A e \in Entries(n) : NoGrantees[e.privilege] = {}
    BY <2>3 DEF NoGrantees
  <2>5. L = {ObjectStatement("CREATE", n)} \cup Range(Reconcile(n, NoGrantees))
    BY <2>1, <2>2, UnitIsSeq, JoinIsSeq
  <2> HIDE DEF L
  <2>6. ObjectStatement("CREATE", n) \in L
    BY <2>5
  <2>7. n \notin account.stale
    BY <1>6, <1>8 DEF AccountIsSound
  <2>8. ASSUME NEW e \in Entries(n), NEW u \in Roles \ Managed
        PROVE  /\ u \in e.roles => Statement("GRANT", Grant(u, e.privilege, n)) \in L
               /\ Grant(u, e.privilege, n) \notin account.held
    <3>1. u \in e.roles => Statement("GRANT", Grant(u, e.privilege, n)) \in Range(Reconcile(n, NoGrantees))
      BY <2>2, <2>4
    <3>2. Grant(u, e.privilege, n).on = n /\ n \notin account.objects \cup {Account}
      BY <1>2, <1>6, <1>8, GrantFields, Names
    <3> QED
      BY <1>1, <2>5, <3>1, <3>2 DEF AccountFits
  <2> QED
    BY <2>6, <2>7, <2>8 DEF ObjectOwes, EntryOwes
<1> QED
  BY <1>7, <1>8

\* The grantees of an object are read by its worker.
LEMMA ReadHas ==
  ASSUME KeepInv, NEW n, ReadGrants(n)
  PROVE  /\ n \in config.objects /\ n \in Objects /\ n \in DOMAIN task
         /\ UNCHANGED << scenario, account, inv, pc, idx, rows, errors, suggested, faults, history >>
         /\ Left(n)' = Range(Reconcile(n, LiveGrantees(n))) \cup Range(Tail(task[n]))
         /\ \A x \in Left(n) : x \in Range(Tail(task[n])) \/ x = ObjectStatement("SHOW_GRANTS", n)
         /\ \A x \in Range(Tail(task[n])) : x.op # "REPLACE"
         /\ \A m : m # n => Left(m)' = Left(m)
         /\ pc = "create" /\ idx \in 1..Len(Sequence) /\ n \in Resolved
<1> DEFINE w == Reconcile(n, LiveGrantees(n))
           q == w \o Tail(task[n])
<1>0. TypesFit /\ TasksFit /\ RowsFit /\ scenario \in Scenarios
  BY DEF KeepInv, TypesFit
<1>1. /\ HasStatement(n) /\ Head(task[n]).op = "SHOW_GRANTS"
      /\ UNCHANGED << scenario, account, inv, pc, idx, rows, errors, suggested, faults, history >>
      /\ task' = [task EXCEPT ![n] = q]
  BY DEF ReadGrants
<1>2. /\ n \in DOMAIN task /\ IsSeq(task[n]) /\ IsSeq(Tail(task[n])) /\ task[n] # <<>>
      /\ Head(task[n]) \in NextStatements(n) /\ n \in Roles \cup Objects
      /\ Tail(task[n]) \in Seq(LaterStatements(n))
      /\ pc = "drop" => Head(task[n]) = DropOf(n)
  BY <1>0, <1>1, TheNext DEF HasStatement
<1>3. n \notin Roles /\ n \in config.objects
  BY <1>0, <1>1, <1>2, OfRoles, OfObjects DEF NextStatements
<1>4. Head(task[n]) = ObjectStatement("SHOW_GRANTS", n)
  <2>1. Head(task[n]) \in ObjectStatements(n) \cup {ObjectStatement("REPLACE", n)}
    BY <1>2, <1>3 DEF NextStatements
  <2>2. /\ \A op : ObjectStatement(op, n).op = op
        /\ \A g : Statement("GRANT", g).op = "GRANT" /\ Statement("REVOKE_UNSAFE", g).op = "REVOKE_UNSAFE"
    BY DEF ObjectStatement, Statement
  <2> QED
    BY <1>1, <2>1, <2>2 DEF ObjectStatements
<1>5. IsSeq(w)
  BY <1>0, <1>3, Grantees, ReconcileIs
<1> HIDE DEF w
<1>6. Range(q) = Range(w) \cup Range(Tail(task[n]))
  BY <1>2, <1>5, JoinIsSeq
<1> HIDE DEF q
<1>7. DOMAIN task' = DOMAIN task /\ task'[n] = q /\ \A m \in DOMAIN task : m # n => task'[m] = task[m]
  BY <1>1, <1>2
<1>8. Left(n)' = Range(q) /\ \A m : m # n => Left(m)' = Left(m)
  BY <1>2, <1>7 DEF Left
<1>9. \A x \in Left(n) : x \in Range(Tail(task[n])) \/ x = ObjectStatement("SHOW_GRANTS", n)
  BY <1>2, <1>4, RangeOfTail DEF Left
<1>10. \A x \in Range(Tail(task[n])) : x.op # "REPLACE"
  <2>1. Range(Tail(task[n])) \subseteq LaterStatements(n)
    BY <1>2, SeqWithin
  <2> QED
    BY <1>0, <1>2, <2>1, LaterDoesNotReplace
<1>11. pc = "create" /\ idx \in 1..Len(Sequence) /\ n \in Resolved
  <2>1. DropOf(n).op = "DROP"
    BY <1>3 DEF DropOf, ObjectStatement, Statement, Grant
  <2> QED
    BY <1>0, <1>1, <1>2, <2>1, WhileWorking
<1> QED
  BY <1>1, <1>2, <1>3, <1>6, <1>8, <1>9, <1>10, <1>11 DEF w

\* What it lacks is then found.
LEMMA ReadSettles ==
  ASSUME KeepInv, NEW n, ReadGrants(n), NEW o \in config.objects, ObjectOwes(o, Left(o))
  PROVE  ObjectOwes(o, Left(o))'
<1>1. UNCHANGED << scenario, account >> /\ scenario \in Scenarios
  BY ReadHas DEF KeepInv, TypesFit
<1>2. Entries(o)' = Entries(o)
  BY <1>1, SameWants
<1> DEFINE L == Left(o)'
<1> HIDE DEF L
<1> SUFFICES ObjectOwes(o, L)
  BY <1>1, <1>2 DEF ObjectOwes, EntryOwes, L
<1>3. CASE o # n
  BY <1>3, ReadHas DEF L
<1>4. CASE o = n
  <2> DEFINE w == Reconcile(o, LiveGrantees(o))
  <2>1. /\ L = Range(w) \cup Range(Tail(task[o]))
        /\ \A x \in Left(o) : x \in Range(Tail(task[o])) \/ x = ObjectStatement("SHOW_GRANTS", o)
        /\ \A x \in Range(Tail(task[o])) : x.op # "REPLACE"
    BY <1>4, ReadHas DEF L
  <2>2. \A op : ObjectStatement(op, o).op = op
    BY DEF ObjectStatement, Statement, Grant
  <2>3. ObjectStatement("REPLACE", o) \notin Left(o)
    BY <2>1, <2>2
  <2>4. o \notin account.stale
    BY <2>3 DEF ObjectOwes
  <2>5. o \in account.objects \/ ObjectStatement("CREATE", o) \in L
    <3>1. CASE ObjectStatement("CREATE", o) \in Left(o)
      <4>1. ObjectStatement("CREATE", o) # ObjectStatement("SHOW_GRANTS", o)
        BY <2>2
      <4> QED
        BY <2>1, <3>1, <4>1
    <3> QED
      BY <3>1 DEF ObjectOwes
  <2>6. \A x : x \in Range(w) <=>
             \E e \in Entries(o) :
               \/ \E r \in e.roles \ LiveGrantees(o)[e.privilege] :
                    x = Statement("GRANT", Grant(r, e.privilege, o))
               \/ \E r \in LiveGrantees(o)[e.privilege] \ e.roles :
                    x = Statement("REVOKE_UNSAFE", Grant(r, e.privilege, o))
    BY <1>1, Grantees, ReconcileIs
  <2>7. \A e \in Entries(o) : e.privilege \in Privileges
    BY <1>1, EntriesAre
  <2> HIDE DEF w
  <2>8. ASSUME NEW e \in Entries(o) PROVE EntryOwes(o, e, L)
    <3>1. \A u \in Roles : u \in LiveGrantees(o)[e.privilege] <=> Grant(u, e.privilege, o) \in account.held
      BY <2>7 DEF LiveGrantees
    <3>2. ASSUME NEW u \in Roles, u \in e.roles, Grant(u, e.privilege, o) \notin account.held
          PROVE  Statement("GRANT", Grant(u, e.privilege, o)) \in L
      BY <2>1, <2>6, <3>1, <3>2
    <3>3. ASSUME NEW u \in Roles, u \notin e.roles, Grant(u, e.privilege, o) \in account.held
          PROVE  Statement("REVOKE_UNSAFE", Grant(u, e.privilege, o)) \in L
      BY <2>1, <2>6, <3>1, <3>3
    <3> QED
      BY <3>2, <3>3 DEF EntryOwes
  <2> QED
    BY <2>4, <2>5, <2>8 DEF ObjectOwes
<1> QED
  BY <1>3, <1>4

\* Where nothing changes for a name, it stays in step.
LEMMA StaysSettled ==
  ASSUME UNCHANGED << scenario, account >>, NEW n, Left(n)' = Left(n), Settled(n)
  PROVE  Settled(n)'
<1>1. /\ config' = config /\ Declared' = Declared
      /\ RoleGrants(n)' = RoleGrants(n) /\ RoleFutures(n)' = RoleFutures(n)
      /\ Entries(n)' = Entries(n) /\ \A g : Gives(n, g)' <=> Gives(n, g)
  BY SameWants
<1> DEFINE L == Left(n)
<1>2. Left(n)' = L
  OBVIOUS
<1> HIDE DEF L
<1>3. RoleOwes(n, L) => RoleOwes(n, Left(n))'
  BY <1>1, <1>2 DEF RoleOwes, OfRole
<1>4. ObjectOwes(n, L) => ObjectOwes(n, Left(n))'
  BY <1>1, <1>2 DEF ObjectOwes, EntryOwes
<1> QED
  BY <1>1, <1>3, <1>4 DEF Settled, L

\* In an invocation that may do everything nothing is only suggested, and a
\* worker that fails leaves an error.
LEMMA CleanGoesOn ==
  ASSUME NEW n, Suggest(n) \/ Raise(n)
  PROVE  ~Clean'
<1>1. CASE Suggest(n)
  <2>1. UNCHANGED << scenario, inv, errors >>
    BY <1>1 DEF Suggest
  <2>2. Clean' => Clean
    BY <2>1 DEF Clean, Invocation, HasOption
  <2> QED
    BY <1>1, <2>2, SuggestedIsUnsafe DEF Clean
<1>2. CASE Raise(n)
  BY <1>2 DEF Raise, Clean
<1> QED
  BY <1>1, <1>2

\* What is not declared stays about to be dropped until it is.
LEMMA DropsKeepComing ==
  ASSUME KeepInv, TasksAreWanted, DropsAreComing, [Next]_vars
  PROVE  DropsAreComing'
<1>1. CASE Start \/ Submit \/ Finish \/ Exit \/ Crash
  BY <1>1 DEF Start, Submit, Finish, Exit, Crash, Record, DropsAreComing
<1>2. CASE Begin
  <2>1. /\ UNCHANGED << scenario, account, idx >> /\ rows' = ExistingRows
        /\ task' = [n \in DOMAIN rows' \ Declared |-> DropName(n)]
    BY <1>2 DEF Begin
  <2>2. Resolved' = Resolved /\ Declared' = Declared
    BY <2>1 DEF Resolved, Resolver, Declared, config
  <2>3. DOMAIN rows' = Resolved \cap (account.roles \cup account.objects)
    BY <2>1 DEF ExistingRows
  <2>4. \A n : DropName(n) # <<>>
    BY DEF DropName
  <2>5. \A n \in (Resolved \cap (account.roles \cup account.objects)) \ Declared :
          n \in DOMAIN task' /\ task'[n] # <<>>
    BY <2>1, <2>3, <2>4
  <2> QED
    BY <2>1, <2>2, <2>5 DEF DropsAreComing
<1>3. CASE UNCHANGED vars
  BY <1>3 DEF vars, DropsAreComing, Clean, Invocation, HasOption, Resolved, Resolver, Declared, config
<1>4. ASSUME NEW n, ReadGrants(n) PROVE DropsAreComing'
  <2>1. pc' = "create"
    BY <1>4, ReadHas
  <2> QED
    BY <2>1 DEF DropsAreComing
<1>5. ASSUME NEW n, Suggest(n) \/ Raise(n) PROVE DropsAreComing'
  BY <1>5, CleanGoesOn DEF DropsAreComing
<1>6. ASSUME NEW n, Execute(n), pc' = "drop", Clean',
             NEW m \in Resolved' \cap (account'.roles \cup account'.objects), m \notin Declared'
      PROVE  m \in DOMAIN task' /\ task'[m] # <<>>
  <2>1. PICK y : y = Head(task[n])
    OBVIOUS
  <2>2. /\ UNCHANGED << scenario, inv, pc, idx, errors >> /\ Effect(n, y)
        /\ n \in DOMAIN task /\ task' = [task EXCEPT ![n] = Tail(task[n])] /\ DOMAIN task' = DOMAIN task
    BY <1>6, <2>1, ExecuteHas
  <2>3. /\ RolesChange(n, y) /\ ObjectsChange(n, y) /\ scenario \in Scenarios
        /\ account \in AccountRecords
    BY <1>6, <2>1, Executed DEF Changes
  <2>4. Clean /\ Resolved' = Resolved /\ Declared' = Declared
    BY <1>6, <2>2 DEF Clean, Invocation, HasOption, Resolved, Resolver, Declared, config
  <2>5. n \notin Declared /\ DropEffect(n, y)
    BY <1>6, <2>2 DEF Effect
  <2>6. n \notin account'.roles \cup account'.objects
    BY <2>3, <2>5, Names, AccountIs DEF DropEffect, Becomes
  <2>7. m # n /\ m \in account.roles \cup account.objects
    BY <1>6, <2>3, <2>6 DEF RolesChange, ObjectsChange
  <2>8. m \in DOMAIN task /\ task[m] # <<>>
    BY <1>6, <2>2, <2>4, <2>7 DEF DropsAreComing
  <2> QED
    BY <2>2, <2>7, <2>8
<1>7. ASSUME NEW n, Execute(n) PROVE DropsAreComing'
  BY <1>6, <1>7 DEF DropsAreComing
<1> QED
  BY <1>1, <1>2, <1>3, <1>4, <1>5, <1>7, Steps

\* A worker's statement leaves in step what is.
LEMMA ExecuteSettles ==
  ASSUME KeepInv, TasksAreWanted, AccountIsSound, Compatible, NEW n, Execute(n),
         NEW m \in Managed \cup Objects, Reached(m), Settled(m)
  PROVE  Settled(m)'
<1>1. PICK y : y = Head(task[n])
  OBVIOUS
<1>2. /\ RolesChange(n, y) /\ ObjectsChange(n, y)
      /\ scenario \in Scenarios /\ account \in AccountRecords
  BY <1>1, Executed DEF Changes
<1>3. UNCHANGED scenario
  BY DEF Execute
<1>4. config' = config /\ Declared' = Declared
  BY <1>3, SameWants
<1>5. ASSUME m \notin Declared PROVE m \notin account'.roles \cup account'.objects
  BY <1>2, <1>5 DEF RolesChange, ObjectsChange, Declared, Settled
<1>6. ASSUME m \in config.roles PROVE RoleOwes(m, Left(m))'
  BY <1>6, RoleKeepsOwing DEF Settled
<1>7. ASSUME m \in config.objects PROVE ObjectOwes(m, Left(m))'
  BY <1>7, ObjectKeepsOwing DEF Settled
<1> QED
  BY <1>4, <1>5, <1>6, <1>7 DEF Settled

\* The names of a resolver are in step, or about to be, once its tasks are
\* submitted.
LEMMA SubmitSettles ==
  ASSUME KeepInv, AccountIsSound, RowsAreCurrent, Covered, DropsAreComing, Compatible, Clean,
         Undisturbed \/ HasOption("refresh_future_grants"),
         Submit, NEW n \in Resolved, n \in Managed \cup Objects
  PROVE  Settled(n)'
<1>1. UNCHANGED << scenario, account >> /\ pc = "drop" /\ AllDone
  BY DEF Submit
<1>2. config' = config /\ Declared' = Declared
  BY <1>1, SameWants
<1>3. ASSUME n \notin Declared PROVE n \notin account'.roles \cup account'.objects
  BY <1>1, <1>3 DEF DropsAreComing, AllDone
<1>4. n \in config.roles => RoleOwes(n, Left(n))'
  BY RoleSettles
<1>5. n \in config.objects => ObjectOwes(n, Left(n))'
  BY ObjectSettles
<1> QED
  BY <1>2, <1>3, <1>4, <1>5 DEF Settled

\* What is resolved is in step, or about to be.
LEMMA ConvergingStays ==
  ASSUME KeepInv, TasksAreWanted, RestFits, AccountIsSound, RowsAreCurrent, Covered,
         DropsAreComing, Converging, [Next]_vars
  PROVE  Converging'
<1>0. UNCHANGED scenario /\ (Undisturbed' => Undisturbed)
  BY WhoChanges, StaysUndisturbed
<1>00. (Compatible' => Compatible) /\ TypesFit /\ TasksFit /\ RowsFit
  BY <1>0, SameStatements DEF KeepInv
<1> SUFFICES ASSUME Running', Clean', Compatible, Undisturbed' \/ HasOption("refresh_future_grants")',
                    NEW n \in Managed \cup Objects, Reached(n)'
             PROVE  Settled(n)'
  BY <1>00 DEF Converging
<1>10. ASSUME UNCHANGED << inv, errors >>
       PROVE  Clean /\ (Undisturbed \/ HasOption("refresh_future_grants"))
  BY <1>0, <1>10 DEF Clean, Invocation, HasOption
<1>20. ASSUME UNCHANGED << inv, errors, account >>, Left(n)' = Left(n), Reached(n), Running
       PROVE  Settled(n)'
  <2>1. Settled(n)
    BY <1>10, <1>20 DEF Converging
  <2> QED
    BY <1>0, <1>20, <2>1, StaysSettled
<1>30. DOMAIN EmptyMap = {}
  BY DEF EmptyMap
<1>1. CASE Start
  <2>1. idx' = 1 /\ pc' = "resolver"
    BY <1>1 DEF Start
  <2>2. ~ \E k \in DOMAIN Sequence : k < idx' \/ (k = idx' /\ pc' = "create")
    BY <2>1, Kinds
  <2> QED
    BY <2>2 DEF Reached
<1>2. CASE Begin
  <2>1. /\ UNCHANGED << scenario, account, inv, idx, errors >> /\ pc = "resolver" /\ pc' = "drop"
        /\ idx <= Len(Sequence) /\ DOMAIN task' \subseteq DOMAIN rows' /\ rows' = ExistingRows
    BY <1>2 DEF Begin
  <2>2. Reached(n)
    BY <2>1 DEF Reached, KindOf
  <2>3. idx \in 1..Len(Sequence)
    BY <1>00, <2>1, Kinds DEF TypesFit
  <2>4. n \notin Resolved
    BY <2>1, <2>2, <2>3, ReachedIs
  <2>5. n \notin DOMAIN task' /\ n \notin DOMAIN task
    BY <1>00, <1>30, <2>1, <2>4 DEF ExistingRows, TypesFit
  <2> QED
    BY <1>20, <2>1, <2>2, <2>5 DEF Left, Running
<1>3. CASE Submit
  <2>1. /\ UNCHANGED << scenario, account, inv, idx, errors >> /\ pc = "drop" /\ pc' = "create"
        /\ DOMAIN task' = Resolved \cap Declared
    BY <1>3 DEF Submit
  <2>2. CASE n \in Resolved
    BY <1>3, <1>10, <2>1, <2>2, SubmitSettles
  <2>3. CASE n \notin Resolved
    <3>1. idx \in 1..Len(Sequence)
      BY <1>00, <2>1 DEF TypesFit
    <3>2. Sequence[idx] # KindOf(n)
      BY <2>3, <3>1, ReachedIs
    <3>3. Reached(n)
      BY <2>1, <3>2 DEF Reached, KindOf
    <3>4. n \notin DOMAIN task' /\ n \notin DOMAIN task
      BY <1>00, <2>1, <2>3 DEF TasksFit
    <3> QED
      BY <1>20, <2>1, <3>3, <3>4 DEF Left, Running
  <2> QED
    BY <2>2, <2>3
<1>4. CASE Finish
  <2>1. /\ UNCHANGED << scenario, account, inv, errors >> /\ pc = "create" /\ pc' = "resolver"
        /\ idx' = idx + 1 /\ AllDone /\ task' = EmptyMap
    BY <1>4 DEF Finish
  <2>2. idx \in 1..6 /\ DOMAIN Sequence = 1..6
    BY <1>00, <2>1, Kinds DEF TypesFit
  <2>3. PICK k \in 1..6 : Sequence[k] = KindOf(n) /\ k < idx + 1
    BY <2>1, <2>2 DEF Reached, KindOf
  <2>4. k < idx \/ k = idx
    BY <2>2, <2>3
  <2>5. Reached(n)
    BY <2>1, <2>2, <2>3, <2>4 DEF Reached
  <2>6. Left(n)' = {} /\ Left(n) = {}
    BY <1>30, <2>1, EmptyIsSeq DEF Left, AllDone
  <2> QED
    BY <1>20, <2>1, <2>5, <2>6 DEF Running
<1>5. CASE Exit \/ Crash
  BY <1>5 DEF Exit, Crash, Record, Running
<1>6. CASE UNCHANGED vars
  <2>1. UNCHANGED << inv, errors, account, pc, idx, task >>
    BY <1>6 DEF vars
  <2> QED
    BY <1>20, <2>1 DEF Left, Reached, KindOf, Running
<1>7. ASSUME NEW m, ReadGrants(m) PROVE Settled(n)'
  <2>1. /\ UNCHANGED << scenario, account, inv, pc, idx, errors >> /\ m \in Objects
        /\ m \in config.objects
        /\ m # n => Left(n)' = Left(n)
    BY <1>7, ReadHas
  <2>2. Reached(n) /\ Running
    BY <2>1 DEF Reached, KindOf, Running
  <2>3. CASE m # n
    BY <1>20, <2>1, <2>2, <2>3
  <2>4. CASE m = n
    <3>1. Settled(n)
      BY <1>10, <2>1, <2>2 DEF Converging
    <3>2. ObjectOwes(n, Left(n))' /\ n \in config.objects
      BY <1>7, <2>1, <2>4, <3>1, ReadHas, ReadSettles DEF Settled
    <3>3. n \notin config.roles /\ n \in Declared
      BY <1>00, <2>1, <2>4, ConfigIsSound, Names DEF Declared, TypesFit
    <3>4. config' = config /\ Declared' = Declared
      BY <2>1, SameWants
    <3> QED
      BY <3>2, <3>3, <3>4 DEF Settled
  <2> QED
    BY <2>3, <2>4
<1>8. ASSUME NEW m, Suggest(m) \/ Raise(m) PROVE Settled(n)'
  BY <1>8, CleanGoesOn
<1>9. ASSUME NEW m, Execute(m) PROVE Settled(n)'
  <2>1. UNCHANGED << scenario, inv, pc, idx, errors >>
    BY <1>9 DEF Execute
  <2>2. Reached(n) /\ Running
    BY <2>1 DEF Reached, KindOf, Running
  <2>3. Settled(n)
    BY <1>10, <2>1, <2>2 DEF Converging
  <2> QED
    BY <1>9, <2>2, <2>3, ExecuteSettles
<1> QED
  BY <1>1, <1>2, <1>3, <1>4, <1>5, <1>6, <1>7, <1>8, <1>9, Steps

-----------------------------------------------------------------------------
(* What a success means.                                                   *)

\* When all resolvers are through, all is granted.
LEMMA AllIsGranted ==
  ASSUME KeepInv, AccountIsSound, Converging, Compatible, Clean,
         Undisturbed \/ HasOption("refresh_future_grants"), pc = "resolver", idx > Len(Sequence)
  PROVE  Granted
<1>1. /\ scenario \in Scenarios /\ account \in AccountRecords /\ AccountFits
      /\ task = EmptyMap /\ idx \in Nat
  BY DEF KeepInv, TypesFit
<1>2. /\ config.roles \subseteq Managed /\ config.roles \subseteq Roles /\ config.objects \subseteq Objects
      /\ account.roles \subseteq Roles /\ account.objects \subseteq Objects
      /\ account.stale \subseteq account.objects /\ account.held \subseteq Held
  BY <1>1, ManagedRoles, ConfigIsSound, AccountIs DEF AccountIsSound
<1>3. \A n : Left(n) = {}
  BY <1>1 DEF Left, EmptyMap
<1>4. ASSUME NEW n \in Managed \cup Objects PROVE Settled(n)
  <2>1. /\ n \in Managed => /\ n \in Roles
                            /\ RoleResolver[n] \in {"SCHEMA_READ_ROLE", "DATABASE_OWNER_ROLE",
                                                    "SCHEMA_OWNER_ROLE", "TECHNICAL_ROLE"}
        /\ n \in Objects => n \notin Roles /\ TypeOf[n] \in {"STAGE", "FUNCTION"}
    BY GrantsAssumption, Names DEF GrantsAssumption, Managed, ObjectTypes
  <2>2. \E k \in 1..6 : Sequence[k] = KindOf(n)
    BY <2>1, Kinds DEF KindOf
  <2>3. Reached(n)
    BY <1>1, <2>2, Kinds DEF Reached
  <2> QED
    BY <2>3 DEF Converging, Running
<1>5. ASSUME NEW r \in config.roles PROVE RoleOwes(r, {})
  BY <1>2, <1>3, <1>4 DEF Settled
<1>6. ASSUME NEW o \in config.objects PROVE ObjectOwes(o, {})
  BY <1>2, <1>3, <1>4 DEF Settled
<1>7. account.roles \cap Managed = config.roles
  <2>1. ASSUME NEW r \in account.roles \cap Managed, r \notin config.roles PROVE FALSE
    <3>1. r \notin Declared
      BY <1>2, <2>1, Names DEF Declared
    <3> QED
      BY <1>4, <2>1, <3>1 DEF Settled
  <2>2. \A r \in config.roles : r \in account.roles
    BY <1>5 DEF RoleOwes
  <2> QED
    BY <1>2, <2>1, <2>2
<1>8. account.objects = config.objects /\ account.stale = {}
  <2>1. ASSUME NEW o \in account.objects, o \notin config.objects PROVE FALSE
    <3>1. o \notin Declared
      BY <1>2, <2>1, Names DEF Declared
    <3> QED
      BY <1>2, <1>4, <2>1, <3>1 DEF Settled
  <2>2. \A o \in config.objects : o \in account.objects /\ o \notin account.stale
    BY <1>6 DEF ObjectOwes
  <2> QED
    BY <1>2, <2>1, <2>2
<1>9. ASSUME NEW r \in config.roles PROVE RoleInStep(r)
  <2>1. RoleOwes(r, {})
    BY <1>5
  <2>2. ASSUME NEW h \in OfRole(account.held, r) PROVE h \in Entitled(r)
    <3>1. Gives(r, h) /\ h \in account.held /\ h.role = r
      BY <2>1, <2>2 DEF RoleOwes, OfRole
    <3>2. h \in Held /\ h.on \in account.objects \cup {Account}
      BY <1>1, <1>2, <3>1 DEF AccountFits
    <3>3. h \in [role : {r}, privilege : Privileges, on : account.objects \cup {Account}]
      BY <3>1, <3>2 DEF Held
    <3> QED
      BY <3>1, <3>3 DEF Entitled
  <2>3. ASSUME NEW g \in Entitled(r) PROVE g \in OfRole(account.held, r)
    <3>1. /\ g \in [role : {r}, privilege : Privileges, on : account.objects \cup {Account}]
          /\ Gives(r, g) /\ g.role = r
      BY <2>3 DEF Entitled
    <3>2. CASE g \in config.grants
      BY <2>1, <3>1, <3>2 DEF RoleOwes, RoleGrants, OfRole
    <3>3. CASE \E f \in config.futures : /\ f.role = r /\ f.privilege = g.privilege
                                         /\ g.on \in Objects /\ f.on = TypeOf[g.on]
      <4>1. PICK f \in config.futures : /\ f.role = r /\ f.privilege = g.privilege
                                        /\ g.on \in Objects /\ f.on = TypeOf[g.on]
        BY <3>3
      <4>2. f \in RoleFutures(r) /\ g.on \in account.objects
        BY <3>1, <4>1, Names DEF RoleFutures, OfRole
      <4>3. Grant(r, f.privilege, g.on) \in account.held
        BY <2>1, <4>1, <4>2 DEF RoleOwes
      <4>4. g = Grant(r, f.privilege, g.on)
        BY <3>1, <4>1 DEF Grant
      <4> QED
        BY <3>1, <4>3, <4>4 DEF OfRole
    <3> QED
      BY <3>1, <3>2, <3>3 DEF Gives
  <2>4. OfRole(account.futures, r) = RoleFutures(r)
    <3>1. \A f \in RoleFutures(r) : f \in account.futures /\ f.role = r
      BY <2>1 DEF RoleOwes, RoleFutures, OfRole
    <3>2. \A f \in OfRole(account.futures, r) : f \in RoleFutures(r)
      BY <2>1 DEF RoleOwes
    <3> QED
      BY <3>1, <3>2 DEF OfRole
  <2> QED
    BY <2>1, <2>2, <2>3, <2>4 DEF RoleInStep, RoleOwes
<1>10. ASSUME NEW o \in config.objects PROVE NamedInStep(o)
  <2>1. SUFFICES ASSUME NEW i \in DOMAIN config.named[o], NEW e, e = config.named[o][i]
                 PROVE  LiveGrantees(o)[e.privilege] = e.roles
    BY DEF NamedInStep
  <2>2. e \in Entries(o) /\ e.privilege \in Privileges /\ e.roles \subseteq Roles
    <3>1. e \in Entries(o)
      BY <2>1 DEF Entries, Range
    <3> QED
      BY <1>1, <3>1, EntriesAre
  <2>3. LiveGrantees(o)[e.privilege] = {u \in Roles : Grant(u, e.privilege, o) \in account.held}
    BY <2>2 DEF LiveGrantees
  <2>4. ASSUME NEW u \in config.roles PROVE Grant(u, e.privilege, o) \in account.held <=> u \in e.roles
    <3>1. u \in e.roles <=> Gives(u, Grant(u, e.privilege, o))
      BY <2>1, <2>4 DEF Compatible
    <3>2. Grant(u, e.privilege, o)
            \in [role : {u}, privilege : Privileges, on : account.objects \cup {Account}]
      BY <1>8, <2>2 DEF Grant
    <3>3. Grant(u, e.privilege, o) \in Entitled(u) <=> u \in e.roles
      BY <3>1, <3>2 DEF Entitled
    <3>4. OfRole(account.held, u) = Entitled(u)
      BY <1>9, <2>4 DEF RoleInStep
    <3>5. Grant(u, e.privilege, o) \in OfRole(account.held, u) <=> Grant(u, e.privilege, o) \in account.held
      BY GrantFields DEF OfRole
    <3> QED
      BY <3>3, <3>4, <3>5
  <2>5. ASSUME NEW u \in Managed, u \notin config.roles
        PROVE  Grant(u, e.privilege, o) \notin account.held /\ u \notin e.roles
    <3>1. u \notin account.roles
      BY <1>7, <2>5
    <3>2. Grant(u, e.privilege, o) \notin account.held
      BY <3>1, GrantFields DEF AccountIsSound
    <3> QED
      BY <2>1, <2>5, <3>2 DEF Compatible
  <2>6. ASSUME NEW u \in Roles \ Managed PROVE Grant(u, e.privilege, o) \in account.held <=> u \in e.roles
    <3>1. EntryOwes(o, e, {})
      BY <1>6, <2>2 DEF ObjectOwes
    <3> QED
      BY <2>6, <3>1 DEF EntryOwes
  <2> QED
    BY <2>2, <2>3, <2>4, <2>5, <2>6
<1> QED
  BY <1>7, <1>8, <1>9, <1>10 DEF Granted

\* It stays granted while nothing is executed.
LEMMA StaysGranted ==
  ASSUME UNCHANGED << scenario, account >>
  PROVE  Granted' <=> Granted
<1>1. /\ config' = config
      /\ \A r : RoleFutures(r)' = RoleFutures(r)
      /\ \A r, g : Gives(r, g)' <=> Gives(r, g)
  BY SameWants
<1>2. \A r : Entitled(r)' = Entitled(r)
  BY <1>1 DEF Entitled
<1>3. \A r : RoleInStep(r)' <=> RoleInStep(r)
  BY <1>1, <1>2 DEF RoleInStep, OfRole
<1>4. \A o : LiveGrantees(o)' = LiveGrantees(o)
  BY DEF LiveGrantees
<1>5. \A o : NamedInStep(o)' <=> NamedInStep(o)
  BY <1>1, <1>4 DEF NamedInStep
<1> QED
  BY <1>1, <1>3, <1>5 DEF Granted

\* What the history says of the invocation that ends, and of the others.
LEMMA Recorded ==
  ASSUME RestFits, NEW exit, Record(exit)
  PROVE  /\ Done \in Nat /\ Done' = Done + 1
         /\ \A i \in 1..Done : history'[i] = history[i]
         /\ history'[Done + 1] = [command |-> Invocation, exit |-> exit, suggested |-> suggested]
<1> DEFINE x == [command |-> Invocation, exit |-> exit, suggested |-> suggested]
<1>1. history' = Append(history, x)
  BY DEF Record
<1>2. IsSeq(history) /\ history \in Seq(Range(history) \cup {x})
  BY SeqIn DEF RestFits
<1> HIDE DEF x
<1>3. Len(history') = Len(history) + 1 /\ Len(history) \in Nat
      /\ history'[Len(history) + 1] = x /\ \A i \in 1..Len(history) : history'[i] = history[i]
  BY <1>1, <1>2
<1> QED
  BY <1>3 DEF Done, x

\* No worker is at work between invocations.
LEMMA NoWorker ==
  ASSUME KeepInv, NEW n, ReadGrants(n) \/ Suggest(n) \/ Raise(n) \/ Execute(n)
  PROVE  pc \in {"drop", "create"} /\ UNCHANGED << pc, history >>
<1>1. n \in DOMAIN task /\ UNCHANGED << pc, history >>
  BY DEF ReadGrants, Suggest, Raise, Execute, HasStatement
<1> QED
  BY <1>1, WhileWorking DEF KeepInv

\* A success means granted.
LEMMA SuccessStays ==
  ASSUME KeepInv, RestFits, AccountIsSound, Ours, Converging, SuccessMeansGranted, [Next]_vars
  PROVE  SuccessMeansGranted'
<1>0. UNCHANGED scenario /\ (Undisturbed' => Undisturbed) /\ (Compatible' => Compatible)
  BY WhoChanges, StaysUndisturbed, SameStatements
<1>1. CASE Start \/ Begin \/ Submit \/ Finish
  BY <1>1 DEF Start, Begin, Submit, Finish, SuccessMeansGranted
<1>2. ASSUME NEW n, ReadGrants(n) \/ Suggest(n) \/ Raise(n) \/ Execute(n) PROVE SuccessMeansGranted'
  BY <1>2, NoWorker DEF SuccessMeansGranted
<1>3. CASE UNCHANGED vars
  <2>1. UNCHANGED << scenario, account, pc, history >>
    BY <1>3 DEF vars
  <2>2. /\ config' = config /\ (Granted' <=> Granted) /\ Done' = Done
        /\ FullySucceeded(Done)' <=> FullySucceeded(Done)
        /\ Refreshes(Done)' <=> Refreshes(Done)
    BY <2>1, StaysGranted, SameWants DEF Done, FullySucceeded, IsFull, Refreshes
  <2> QED
    BY <1>0, <2>1, <2>2 DEF SuccessMeansGranted
<1>4. CASE Crash
  <2>1. Record("crashed")
    BY <1>4 DEF Crash
  <2>2. history'[Done'] = [command |-> Invocation, exit |-> "crashed", suggested |-> suggested]
    BY <2>1, Recorded
  <2>3. history'[Done'].exit # "success"
    BY <2>2
  <2> QED
    BY <2>3 DEF SuccessMeansGranted, FullySucceeded
<1>5. CASE Exit
  <2>1. /\ Record(IF errors = {} THEN "success" ELSE "errors") /\ UNCHANGED << scenario, account >>
        /\ pc = "resolver" /\ idx > Len(Sequence)
    BY <1>5 DEF Exit
  <2>2. history'[Done'] = [command |-> Invocation, exit |-> IF errors = {} THEN "success" ELSE "errors",
                           suggested |-> suggested]
    BY <2>1, Recorded
  <2>3. /\ FullySucceeded(Done)' => Clean
        /\ Refreshes(Done)' => HasOption("refresh_future_grants")
    BY <2>2 DEF FullySucceeded, IsFull, Refreshes, Clean, HasOption
  <2>4. ASSUME Clean, Compatible, Undisturbed \/ HasOption("refresh_future_grants")
        PROVE  Granted /\ (Undisturbed => config.roles \subseteq account.ours)
    <3>1. Granted
      BY <2>1, <2>4, AllIsGranted
    <3>2. config.roles \subseteq account.roles
      BY <3>1 DEF Granted
    <3> QED
      BY <1>5, <3>1, <3>2, NothingIsNext DEF Ours
  <2>5. config' = config /\ (Granted' <=> Granted)
    BY <2>1, StaysGranted, SameWants
  <2> QED
    BY <1>0, <2>1, <2>3, <2>4, <2>5 DEF SuccessMeansGranted
<1> QED
  BY <1>1, <1>2, <1>3, <1>4, <1>5, Steps

\* The invocation after a success is a plan that is not told to refresh.
PlansAfterSuccess ==
  /\ pc # "start" /\ Done >= 1 /\ FullySucceeded(Done)
  /\ Invocation.action = "plan" /\ ~HasOption("refresh_future_grants")
  /\ Compatible /\ (Undisturbed \/ Refreshes(Done))

\* It finds nothing to do.
PlanInv ==
  PlansAfterSuccess =>
    /\ Granted /\ suggested = {}
    /\ \A n \in DOMAIN task : \A x \in Range(task[n]) : x.op = "SHOW_GRANTS"

\* Nothing is to be dropped.
LEMMA NothingToDrop ==
  ASSUME KeepInv, Granted, Begin
  PROVE  DOMAIN task' = {}
<1>1. /\ rows' = ExistingRows /\ task' = [n \in DOMAIN rows' \ Declared |-> DropName(n)]
      /\ pc = "resolver" /\ idx <= Len(Sequence) /\ scenario \in Scenarios /\ account \in AccountRecords
      /\ TypesFit
  BY DEF Begin, KeepInv, TypesFit
<1>2. idx \in 1..Len(Sequence)
  BY <1>1, Kinds DEF TypesFit
<1>3. Resolved \cap Roles \subseteq Managed
  BY <1>1, <1>2, ManagedRoles
<1>4. DOMAIN rows' = Resolved \cap (account.roles \cup account.objects)
  BY <1>1 DEF ExistingRows
<1>5. DOMAIN rows' \subseteq Declared
  BY <1>1, <1>3, <1>4, AccountIs DEF Granted, Declared
<1> QED
  BY <1>1, <1>5

\* Nor to be created or changed; only grantees are read.
LEMMA NothingToDo ==
  ASSUME KeepInv, RowsAreCurrent, Granted, ~HasOption("refresh_future_grants"), Submit,
         NEW n \in DOMAIN task', NEW x \in Range(task'[n])
  PROVE  x.op = "SHOW_GRANTS"
<1>1. /\ scenario \in Scenarios /\ account \in AccountRecords /\ RowsFit /\ pc = "drop"
      /\ task' = [m \in Resolved \cap Declared |-> TaskOf(m)]
  BY DEF KeepInv, TypesFit, Submit
<1>2. n \in Resolved \cap Declared /\ x \in Range(TaskOf(n)) /\ n \in Roles \cup Objects
  BY <1>1, Names
<1>3. /\ config.roles \subseteq Roles /\ config.objects \subseteq Objects
      /\ config.roles \subseteq account.roles /\ account.objects = config.objects /\ account.stale = {}
  BY <1>1, ConfigIsSound DEF Granted
<1>4. n \in DOMAIN rows
  BY <1>1, <1>2, <1>3 DEF RowsAreCurrent, Declared
<1>5. CASE n \in Roles
  <2>1. TaskOf(n) = CompareRole(n, rows[n]) /\ n \in config.roles
    BY <1>2, <1>3, <1>4, <1>5, Names DEF TaskOf, Declared
  <2>2. rows[n].held = OfRole(account.held, n) /\ rows[n].futures = OfRole(account.futures, n)
    BY <1>1, <1>2, <1>4, <1>5 DEF RowsAreCurrent
  <2>3. /\ rows[n].held \subseteq {g \in Held : g.role = n}
        /\ rows[n].futures \subseteq {f \in Futures : f.role = n}
    BY <1>1, <1>4 DEF RowsFit
  <2>4. rows[n].held = Entitled(n) /\ rows[n].futures = RoleFutures(n)
    BY <2>1, <2>2 DEF Granted, RoleInStep
  <2>5. \A h \in rows[n].held : Gives(n, h)
    BY <2>4 DEF Entitled
  <2>6. RoleGrants(n) \subseteq rows[n].held
    <3>1. SUFFICES ASSUME NEW g \in RoleGrants(n) PROVE g \in Entitled(n)
      BY <2>4
    <3>2. g \in config.grants /\ g.role = n /\ g \in Held
      BY <1>1, <3>1, OwnGrants DEF RoleGrants, OfRole, NotOwnership
    <3>3. g.on \in config.objects \cup {Account}
      BY <1>1, <3>2, ScenarioAssumption DEF ScenarioAssumption, config
    <3>4. g \in [role : {n}, privilege : Privileges, on : account.objects \cup {Account}]
      BY <1>3, <3>2, <3>3 DEF Held
    <3> QED
      BY <3>2, <3>4 DEF Entitled, Gives
  <2>7. Range(CompareRole(n, rows[n])) = {}
    BY <1>1, <1>5, <2>3, <2>4, <2>5, <2>6, CompareRoleIs
  <2> QED
    BY <1>2, <2>1, <2>7
<1>6. CASE n \in Objects
  <2> DEFINE q == IF config.named[n] = <<>> THEN <<>> ELSE <<ObjectStatement("SHOW_GRANTS", n)>>
  <2>1. TaskOf(n) = <<>> \o q
    BY <1>3, <1>4, <1>6, Names DEF TaskOf, CompareObject
  <2>2. IsSeq(q) /\ Range(q) \subseteq {ObjectStatement("SHOW_GRANTS", n)} /\ IsSeq(<<>>) /\ Range(<<>>) = {}
    BY UnitIsSeq, EmptyIsSeq
  <2> HIDE DEF q
  <2>3. x = ObjectStatement("SHOW_GRANTS", n)
    BY <1>2, <2>1, <2>2, JoinIsSeq
  <2> QED
    BY <2>3 DEF ObjectStatement, Statement, Grant
<1> QED
  BY <1>2, <1>5, <1>6

\* And they are as they should be.
LEMMA NothingToRevoke ==
  ASSUME KeepInv, Granted, NEW n, ReadGrants(n)
  PROVE  Left(n)' \subseteq Left(n)
<1>1. /\ n \in config.objects /\ n \in DOMAIN task /\ scenario \in Scenarios
      /\ Left(n)' = Range(Reconcile(n, LiveGrantees(n))) \cup Range(Tail(task[n]))
  BY ReadHas DEF KeepInv, TypesFit
<1>2. \A x : x \in Range(Reconcile(n, LiveGrantees(n))) <=>
               \E e \in Entries(n) :
                 \/ \E r \in e.roles \ LiveGrantees(n)[e.privilege] :
                      x = Statement("GRANT", Grant(r, e.privilege, n))
                 \/ \E r \in LiveGrantees(n)[e.privilege] \ e.roles :
                      x = Statement("REVOKE_UNSAFE", Grant(r, e.privilege, n))
  BY <1>1, Grantees, ReconcileIs
<1>3. ASSUME NEW e \in Entries(n) PROVE LiveGrantees(n)[e.privilege] = e.roles
  BY <1>1 DEF Granted, NamedInStep, Entries, Range
<1>4. Range(Reconcile(n, LiveGrantees(n))) = {}
  BY <1>2, <1>3
<1>5. Range(Tail(task[n])) \subseteq Range(task[n])
  BY TheNext DEF KeepInv, ReadGrants
<1> QED
  BY <1>1, <1>4, <1>5 DEF Left

\* A plan after a success goes on finding nothing.
LEMMA PlanStays ==
  ASSUME KeepInv, RestFits, RowsAreCurrent, SuccessMeansGranted, PlanInv, [Next]_vars
  PROVE  PlanInv'
<1>0. /\ UNCHANGED scenario
      /\ Undisturbed' => Undisturbed
      /\ Compatible' => Compatible
  BY WhoChanges, StaysUndisturbed, SameStatements
<1> SUFFICES ASSUME PlansAfterSuccess'
             PROVE  /\ Granted' /\ suggested' = {}
                    /\ \A n \in DOMAIN task' : \A x \in Range(task'[n]) : x.op = "SHOW_GRANTS"
  BY DEF PlanInv
<1>10. ASSUME UNCHANGED << inv, history >>
       PROVE  /\ Done >= 1 /\ FullySucceeded(Done)
              /\ Invocation.action = "plan" /\ ~HasOption("refresh_future_grants")
              /\ Compatible /\ (Undisturbed \/ Refreshes(Done))
  BY <1>0, <1>10 DEF PlansAfterSuccess, Done, FullySucceeded, IsFull, Refreshes, Invocation, HasOption
<1>20. ASSUME UNCHANGED << inv, history >>, pc # "start"
       PROVE  /\ Granted /\ suggested = {} /\ Invocation.action = "plan"
              /\ ~HasOption("refresh_future_grants")
              /\ \A n \in DOMAIN task : \A x \in Range(task[n]) : x.op = "SHOW_GRANTS"
  BY <1>10, <1>20 DEF PlanInv, PlansAfterSuccess
<1>30. DOMAIN EmptyMap = {}
  BY DEF EmptyMap
<1>40. TypesFit
  BY DEF KeepInv
<1>1. CASE Start
  <2>1. UNCHANGED << scenario, account, inv, task, history >> /\ pc = "start" /\ suggested' = {}
    BY <1>1 DEF Start
  <2>2. Done >= 1 => Done > 0
    BY DEF RestFits, Done
  <2>3. Granted
    BY <1>10, <2>1, <2>2 DEF SuccessMeansGranted
  <2> QED
    BY <1>30, <1>40, <2>1, <2>3, StaysGranted DEF TypesFit
<1>2. CASE Begin
  <2>1. UNCHANGED << scenario, account, inv, history, suggested >> /\ pc = "resolver"
    BY <1>2 DEF Begin
  <2> QED
    BY <1>2, <1>20, <2>1, NothingToDrop, StaysGranted
<1>3. CASE Submit
  <2>1. UNCHANGED << scenario, account, inv, history, suggested >> /\ pc = "drop"
    BY <1>3 DEF Submit
  <2> QED
    BY <1>3, <1>20, <2>1, NothingToDo, StaysGranted
<1>4. CASE Finish
  <2>1. UNCHANGED << scenario, account, inv, history, suggested >> /\ pc = "create" /\ task' = EmptyMap
    BY <1>4 DEF Finish
  <2> QED
    BY <1>20, <1>30, <2>1, StaysGranted
<1>5. CASE Exit \/ Crash
  BY <1>5 DEF Exit, Crash, Record, PlansAfterSuccess
<1>6. CASE UNCHANGED vars
  <2>1. UNCHANGED << scenario, account, inv, pc, task, history, suggested >>
    BY <1>6 DEF vars
  <2> QED
    BY <1>20, <2>1, StaysGranted DEF PlansAfterSuccess
<1>7. ASSUME NEW m, ReadGrants(m) PROVE PlanInv'
  <2>1. /\ UNCHANGED << scenario, account, inv, pc, history, suggested >> /\ pc = "create"
        /\ \A k : k # m => Left(k)' = Left(k)
    BY <1>7, ReadHas DEF ReadGrants
  <2>2. /\ Granted /\ suggested = {}
        /\ \A k : \A x \in Left(k) : x.op = "SHOW_GRANTS"
    BY <1>20, <2>1 DEF Left
  <2>3. \A k : Left(k)' \subseteq Left(k)
    BY <1>7, <2>1, <2>2, NothingToRevoke
  <2>4. \A k \in DOMAIN task' : Left(k)' = Range(task'[k])
    BY DEF Left
  <2> QED
    BY <2>1, <2>2, <2>3, <2>4, StaysGranted DEF PlanInv
<1>8. ASSUME NEW m, Suggest(m) \/ Execute(m) PROVE FALSE
  <2>1. /\ UNCHANGED << inv, history >> /\ HasStatement(m) /\ Head(task[m]).op # "SHOW_GRANTS"
        /\ m \in DOMAIN task
    BY <1>8 DEF Suggest, Execute, IsDDL, HasStatement
  <2>2. pc # "start"
    BY <1>8, NoWorker
  <2>3. Head(task[m]) \in Range(task[m])
    BY <2>1, TheNext DEF KeepInv
  <2> QED
    BY <1>20, <2>1, <2>2, <2>3
<1>9. ASSUME NEW m, Raise(m) PROVE PlanInv'
  <2>1. /\ UNCHANGED << scenario, account, inv, pc, history, suggested >>
        /\ task' = [task EXCEPT ![m] = <<>>] /\ m \in DOMAIN task
    BY <1>9 DEF Raise, HasStatement
  <2>2. pc # "start"
    BY <1>9, NoWorker
  <2>3. \A k \in DOMAIN task' : task'[k] = <<>> \/ (k \in DOMAIN task /\ task'[k] = task[k])
    BY <2>1
  <2> QED
    BY <1>20, <2>1, <2>2, <2>3, EmptyIsSeq, StaysGranted DEF PlanInv
<1> QED
  BY <1>1, <1>2, <1>3, <1>4, <1>5, <1>6, <1>7, <1>8, <1>9, Steps DEF PlanInv

\* The plans of the history found nothing.
LEMMA PlansStayEmpty ==
  ASSUME KeepInv, RestFits, PlanInv, GrantedPlanIsEmpty, [Next]_vars
  PROVE  GrantedPlanIsEmpty'
<1>0. /\ UNCHANGED scenario
      /\ Undisturbed' => Undisturbed
      /\ Compatible' => Compatible
  BY WhoChanges, StaysUndisturbed, SameStatements
<1>1. ASSUME UNCHANGED history PROVE GrantedPlanIsEmpty'
  BY <1>0, <1>1 DEF GrantedPlanIsEmpty, Done, FullySucceeded, IsFull, Refreshes
<1>2. CASE Start \/ Begin \/ Submit \/ Finish \/ UNCHANGED vars
  BY <1>1, <1>2 DEF Start, Begin, Submit, Finish, vars
<1>3. ASSUME NEW n, ReadGrants(n) \/ Suggest(n) \/ Raise(n) \/ Execute(n) PROVE GrantedPlanIsEmpty'
  BY <1>1, <1>3, NoWorker
<1>4. CASE Exit \/ Crash
  <2>1. PICK exit : Record(exit)
    BY <1>4 DEF Exit, Crash
  <2>2. pc # "start"
    BY <1>4 DEF Exit, Crash
  <2>3. /\ Done \in Nat /\ Done' = Done + 1
        /\ \A i \in 1..Done : history'[i] = history[i]
        /\ history'[Done + 1] = [command |-> Invocation, exit |-> exit, suggested |-> suggested]
    BY <2>1, Recorded
  <2>4. history'[Done'].suggested = suggested /\ history'[Done'].command = Invocation
    BY <2>3
  <2>5. SUFFICES ASSUME (/\ Done >= 2 /\ FullySucceeded(Done - 1)
                         /\ history[Done].command.action = "plan" /\ ~Refreshes(Done) /\ Compatible
                         /\ (Undisturbed \/ Refreshes(Done - 1)))'
                 PROVE  suggested = {}
    BY <2>4 DEF GrantedPlanIsEmpty
  <2>6. Done >= 1 /\ Done' - 1 = Done /\ Done \in 1..Done
    BY <2>3, <2>5
  <2>7. history'[Done' - 1] = history[Done]
    BY <2>3, <2>6
  <2>8. FullySucceeded(Done) /\ (Undisturbed \/ Refreshes(Done)) /\ Compatible
    BY <1>0, <2>5, <2>7 DEF FullySucceeded, IsFull, Refreshes
  <2>9. Invocation.action = "plan" /\ ~HasOption("refresh_future_grants")
    BY <2>4, <2>5 DEF Refreshes, HasOption
  <2> QED
    BY <2>2, <2>6, <2>8, <2>9 DEF PlanInv, PlansAfterSuccess
<1> QED
  BY <1>2, <1>3, <1>4, Steps

\* The invariant from which a success means granted, and a plan after it is
\* empty.
GrantedInv ==
  /\ KeepInv /\ RestFits /\ AccountIsSound /\ RowsAreCurrent /\ TasksAreWanted
  /\ FuturesAreComing /\ Covered /\ Ours /\ DropsAreComing /\ Converging
  /\ SuccessMeansGranted /\ PlanInv /\ GrantedPlanIsEmpty

\* It holds at first.
LEMMA InitGranted == Init => GrantedInv
<1> SUFFICES ASSUME Init PROVE GrantedInv
  OBVIOUS
<1>1. KeepInv
  BY InitKeeps
<1>2. /\ scenario \in Scenarios /\ account = scenario.account /\ pc = "start"
      /\ task = EmptyMap /\ faults = 0 /\ history = <<>> /\ DOMAIN EmptyMap = {}
  BY DEF Init, EmptyMap
<1>3. RestFits /\ Done = 0
  BY <1>2, EmptyIsSeq DEF RestFits, Done
<1>4. AccountIsSound
  BY <1>2, ScenarioAssumption DEF ScenarioAssumption, AccountIsSound
<1>5. RowsAreCurrent /\ TasksAreWanted /\ FuturesAreComing /\ DropsAreComing /\ Converging
  BY <1>2 DEF RowsAreCurrent, TasksAreWanted, FuturesAreComing, DropsAreComing, Converging, Running
<1>6. Covered
  <2>1. SUFFICES ASSUME Undisturbed, NEW f \in account.futures \cap config.futures,
                        NEW o \in account.objects, TypeOf[o] = f.on
                 PROVE  Grant(f.role, f.privilege, o) \in account.held
    BY DEF Covered
  <2> QED
    BY <1>2, <2>1 DEF Undisturbed
<1>7. Ours
  BY <1>2 DEF Ours, Undisturbed
<1>8. SuccessMeansGranted /\ PlanInv /\ GrantedPlanIsEmpty
  BY <1>2, <1>3 DEF SuccessMeansGranted, PlanInv, PlansAfterSuccess, GrantedPlanIsEmpty
<1> QED
  BY <1>1, <1>3, <1>4, <1>5, <1>6, <1>7, <1>8 DEF GrantedInv

\* Every step keeps it.
LEMMA GrantedStep == GrantedInv /\ [Next]_vars => GrantedInv'
<1> SUFFICES ASSUME GrantedInv, [Next]_vars PROVE GrantedInv'
  OBVIOUS
<1>1. /\ KeepInv /\ RestFits /\ AccountIsSound /\ RowsAreCurrent /\ TasksAreWanted
      /\ FuturesAreComing /\ Covered /\ Ours /\ DropsAreComing /\ Converging
      /\ SuccessMeansGranted /\ PlanInv /\ GrantedPlanIsEmpty
  BY DEF GrantedInv
<1>2. KeepInv'
  BY <1>1, KeepInvStep
<1>3. RestFits' /\ AccountIsSound' /\ RowsAreCurrent' /\ TasksAreWanted'
  BY <1>1, StaysUndisturbed, AccountStaysSound, RowsStayCurrent, TasksStayWanted
<1>4. FuturesAreComing' /\ Covered' /\ Ours'
  BY <1>1, FuturesKeepComing, CoveredStays, OursStay
<1>5. DropsAreComing' /\ Converging'
  BY <1>1, DropsKeepComing, ConvergingStays
<1>6. SuccessMeansGranted' /\ PlanInv' /\ GrantedPlanIsEmpty'
  BY <1>1, SuccessStays, PlanStays, PlansStayEmpty
<1> QED
  BY <1>2, <1>3, <1>4, <1>5, <1>6 DEF GrantedInv

\* So it always holds.
LEMMA GrantedInvHolds == Spec => []GrantedInv
  BY InitGranted, GrantedStep, PTL DEF Spec

\* When an apply that may do everything exits with success, every declared role
\* holds what its blueprint and its future grants give it and nothing else, and
\* every named privilege has exactly the grantees the object names.
THEOREM SuccessIsGranted == Spec => []SuccessMeansGranted
<1>1. GrantedInv => SuccessMeansGranted
  BY DEF GrantedInv
<1> QED
  BY <1>1, GrantedInvHolds, PTL

\* A plan after a success, which is not told to refresh, suggests nothing.
THEOREM GrantedPlanFindsNothing == Spec => []GrantedPlanIsEmpty
<1>1. GrantedInv => GrantedPlanIsEmpty
  BY DEF GrantedInv
<1> QED
  BY <1>1, GrantedInvHolds, PTL

=============================================================================
