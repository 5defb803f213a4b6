--------------------------- MODULE ResolverProofs ---------------------------
(***************************************************************************)
(* What holds at every step of the loop over the resolvers, for every      *)
(* configuration, account, sequence of command lines, interleaving of      *)
(* workers, number of failures, crashes and disturbances.                  *)
(*                                                                         *)
(* What SnowDDL may take away: resolving takes only what is undeclared and *)
(* in no sandbox, and without --apply-unsafe no database, schema or table. *)
(*                                                                         *)
(* And what it knows: the resolvers of schema objects list the schemas     *)
(* which exist, unless someone else changed the account meanwhile.  The    *)
(* cache is reloaded only if the results of its resolver say that          *)
(* something changed, so this proof is about which object each resolver is *)
(* responsible for, what a task may still execute, and that no result is   *)
(* ever overwritten.                                                       *)
(*                                                                         *)
(* And that an exit code of 0 means something: an apply allowed everything *)
(* leaves the account as declared, a destroy leaves nothing, and the plan  *)
(* after such an apply suggests nothing, whatever earlier invocations that *)
(* failed or died left behind.                                             *)
(***************************************************************************)
EXTENDS Resolver, TLAPS

-----------------------------------------------------------------------------
(* The inductive invariant about what is taken.                            *)

DataTypes == {"DATABASE", "SCHEMA", "TABLE"}

\* The one statement of a drop task.
DropOf(o) == Statement("DROP", o, IF TypeOf[o] \in DataTypes THEN Unsafe ELSE Safe, {})

\* The statements which take nothing from the account but keys.
KeepingData ==
  [op : {"CREATE", "ALTER"}, obj : Objects, gate : SUBSET Switches, aspects : SUBSET Aspects]
    \cup [op : {"REPLACE"}, obj : Typed("TABLE") \cup Typed("FUNCTION") \cup Typed("VIEW"),
          gate : SUBSET Switches, aspects : SUBSET Aspects]
    \cup [op : {"DROP"}, obj : Typed("PRIMARY_KEY"), gate : SUBSET Switches,
          aspects : SUBSET Aspects]

\* The statements that create a database.
NewDatabase(d) == Statement("CREATE", d, Safe, {})
DropPublic(d)  == Statement("DROP", PublicOf[d], Safe, {})

\* The drop of PUBLIC is left, and if it can run the database is new.
IsCreatingDatabase(o) ==
  /\ TypeOf[o] = "DATABASE"
  /\ \/ task[o].statements = << NewDatabase(o), DropPublic(o) >>
     \/ /\ task[o].statements = << DropPublic(o) >>
        /\ CanRun(DropPublic(o)) => NewDatabase(o) \in executed

\* What a resolver decides to drop: see ResolveDropTargets.
IsUnwanted(o) == o \notin config.declared /\ Keeper(o) \subseteq config.declared \ config.sandbox

Bookkeeping ==
  /\ scenario \in Scenarios /\ pc \in {"start", "resolver", "drop", "create"}
  /\ remaining \subseteq Objects /\ DOMAIN task \subseteq Objects
  /\ pc \in {"start", "resolver"} => DOMAIN task = {}
  /\ \A o \in DOMAIN task : "statements" \in DOMAIN task[o]

DropsAreUnwanted ==
  pc = "drop" => \A o \in DOMAIN task :
    /\ task[o].statements \in {<<>>, << DropOf(o) >>}
    /\ Invocation.action = "destroy" \/ IsUnwanted(o)

OthersKeepData ==
  pc = "create" => \A o \in DOMAIN task :
    task[o].statements \in Seq(KeepingData) \/ IsCreatingDatabase(o)

LossInv == Bookkeeping /\ DropsAreUnwanted /\ OthersKeepData

-----------------------------------------------------------------------------
(* What resolvers reply.                                                   *)

LEMMA DropReplies ==
  ASSUME NEW o \in Objects
  PROVE  DropReply(o).statements = << DropOf(o) >>
<1>1. TypeOf[o] \in Types
  BY ResolverAssumption
<1>2. CASE TypeOf[o] = "DATABASE"
  BY <1>2 DEF DropReply, DropDatabase, Reply, DropOf, DataTypes
<1>3. CASE TypeOf[o] = "SCHEMA"
  BY <1>3 DEF DropReply, DropSchema, Reply, DropOf, DataTypes
<1>4. CASE TypeOf[o] = "TABLE"
  BY <1>4 DEF DropReply, DropTable, Reply, DropOf, DataTypes
<1>5. CASE TypeOf[o] = "FUNCTION"
  BY <1>5 DEF DropReply, DropFunction, Reply, DropOf, DataTypes
<1>6. CASE TypeOf[o] = "PRIMARY_KEY"
  BY <1>6 DEF DropReply, DropPrimaryKey, Reply, DropOf, DataTypes
<1>7. CASE TypeOf[o] = "VIEW"
  BY <1>7 DEF DropReply, DropView, Reply, DropOf, DataTypes
<1> QED
  BY <1>1, <1>2, <1>3, <1>4, <1>5, <1>6, <1>7 DEF Types

\* One statement after the other.
LEMMA OneStatement == ASSUME NEW S, NEW s \in S PROVE << s >> \in Seq(S)
  OBVIOUS

LEMMA TwoStatements == ASSUME NEW S, NEW s \in S, NEW t \in S PROVE << s, t >> \in Seq(S)
  OBVIOUS

LEMMA NoStatement == ASSUME NEW S PROVE <<>> \in Seq(S)
  OBVIOUS

LEMMA Joined ==
  ASSUME NEW S, NEW s \in Seq(S), NEW t \in Seq(S) PROVE s \o t \in Seq(S)
  OBVIOUS

LEMMA AltersKeepData ==
  ASSUME NEW o \in Objects, NEW d, NEW a \in Aspects, NEW g \in SUBSET Switches
  PROVE  AlterIf(o, d, a, g) \in Seq(KeepingData)
<1>1. Statement("ALTER", o, g, {a}) \in KeepingData
  BY DEF Statement, KeepingData
<1> QED
  BY <1>1, OneStatement, NoStatement DEF AlterIf

LEMMA GatesAndAspects ==
  /\ Safe \in SUBSET Switches /\ Unsafe \in SUBSET Switches /\ ReplaceTable \in SUBSET Switches
  /\ {} \in SUBSET Aspects
  /\ \A a \in {"attribute", "body", "search", "comment"} : a \in Aspects /\ {a} \in SUBSET Aspects
  BY DEF Safe, Unsafe, ReplaceTable, Switches, Aspects

\* What is created or replaced.
LEMMA StatementsKeepData ==
  ASSUME NEW o \in Objects, NEW g \in SUBSET Switches, NEW A \in SUBSET Aspects
  PROVE  /\ Statement("CREATE", o, g, A) \in KeepingData
         /\ Statement("ALTER", o, g, A) \in KeepingData
         /\ TypeOf[o] \in {"TABLE", "FUNCTION", "VIEW"}
              => Statement("REPLACE", o, g, A) \in KeepingData
         /\ TypeOf[o] = "PRIMARY_KEY" => Statement("DROP", o, g, A) \in KeepingData
<1>1. TypeOf[o] \in {"TABLE", "FUNCTION", "VIEW"}
        => o \in Typed("TABLE") \cup Typed("FUNCTION") \cup Typed("VIEW")
  BY DEF Typed
<1>2. TypeOf[o] = "PRIMARY_KEY" => o \in Typed("PRIMARY_KEY")
  BY DEF Typed
<1> QED
  BY <1>1, <1>2 DEF Statement, KeepingData

LEMMA CreateReplies ==
  ASSUME NEW o \in Objects
  PROVE  \/ CreateReply(o).statements \in Seq(KeepingData)
         \/ /\ TypeOf[o] = "DATABASE"
            /\ CreateReply(o).statements = << NewDatabase(o), DropPublic(o) >>
<1>1. TypeOf[o] \in Types
  BY ResolverAssumption
<1>2. CASE TypeOf[o] = "DATABASE"
  BY <1>2 DEF CreateReply, CreateDatabase, Reply, NewDatabase, DropPublic
<1>3. CASE TypeOf[o] = "SCHEMA"
  BY <1>3, StatementsKeepData, GatesAndAspects, OneStatement
  DEF CreateReply, CreateSchema, Reply
<1>4. CASE TypeOf[o] = "TABLE"
  BY <1>4, StatementsKeepData, GatesAndAspects, TwoStatements
  DEF CreateReply, CreateTable, Reply
<1>5. CASE TypeOf[o] = "FUNCTION"
  BY <1>5, StatementsKeepData, GatesAndAspects, TwoStatements
  DEF CreateReply, CreateFunction, Reply
<1>6. CASE TypeOf[o] = "PRIMARY_KEY"
  BY <1>6, StatementsKeepData, GatesAndAspects, OneStatement
  DEF CreateReply, CreatePrimaryKey, Reply
<1>7. CASE TypeOf[o] = "VIEW"
  BY <1>7, StatementsKeepData, GatesAndAspects, TwoStatements
  DEF CreateReply, CreateView, Reply
<1> QED
  BY <1>1, <1>2, <1>3, <1>4, <1>5, <1>6, <1>7 DEF Types

LEMMA CompareReplies ==
  ASSUME NEW o \in Objects
  PROVE  CompareReply(o).statements \in Seq(KeepingData)
<1>1. TypeOf[o] \in Types
  BY ResolverAssumption
<1>2. CASE TypeOf[o] = "DATABASE"
  <2>1. /\ AlterIf(o, existing[o], "attribute", Unsafe) \in Seq(KeepingData)
        /\ AlterIf(o, existing[o], "comment", Unsafe) \in Seq(KeepingData)
    BY AltersKeepData, GatesAndAspects
  <2>2. AlterIf(o, existing[o], "attribute", Unsafe) \o AlterIf(o, existing[o], "comment", Unsafe)
          \in Seq(KeepingData)
    BY <2>1, Joined
  <2> QED
    BY <1>2, <2>2, NoStatement DEF CompareReply, CompareDatabase, Altered, Reply
<1>3. CASE TypeOf[o] = "SCHEMA"
  <2>1. /\ AlterIf(o, existing[o], "attribute", Unsafe) \in Seq(KeepingData)
        /\ AlterIf(o, existing[o], "comment", Safe) \in Seq(KeepingData)
    BY AltersKeepData, GatesAndAspects
  <2>2. AlterIf(o, existing[o], "attribute", Unsafe) \o AlterIf(o, existing[o], "comment", Safe)
          \in Seq(KeepingData)
    BY <2>1, Joined
  <2> QED
    BY <1>3, <2>2, NoStatement DEF CompareReply, CompareSchema, Altered, Reply
<1>4. CASE TypeOf[o] = "TABLE"
  <2>1. /\ AlterIf(o, existing[o], "comment", Safe) \in Seq(KeepingData)
        /\ AlterIf(o, existing[o], "attribute", Unsafe) \in Seq(KeepingData)
        /\ AlterIf(o, existing[o], "search", Unsafe) \in Seq(KeepingData)
    BY AltersKeepData, GatesAndAspects
  <2>2. AlterIf(o, existing[o], "comment", Safe) \o AlterIf(o, existing[o], "attribute", Unsafe)
          \o AlterIf(o, existing[o], "search", Unsafe) \in Seq(KeepingData)
    BY <2>1, Joined
  <2>3. << Statement("REPLACE", o, ReplaceTable, {"search"}),
           Statement("ALTER", o, ReplaceTable, {"search"}) >> \in Seq(KeepingData)
    BY <1>4, StatementsKeepData, GatesAndAspects, TwoStatements
  <2> QED
    BY <1>4, <2>2, <2>3 DEF CompareReply, CompareTable, Altered, Reply
<1>5. CASE TypeOf[o] = "FUNCTION"
  <2>1. << Statement("REPLACE", o, Safe, {"body"}), Statement("ALTER", o, Safe, {"body"}) >>
          \in Seq(KeepingData)
    BY <1>5, StatementsKeepData, GatesAndAspects, TwoStatements
  <2> QED
    BY <1>5, <2>1, NoStatement DEF CompareReply, CompareFunction, CreateFunction, Reply
<1>6. CASE TypeOf[o] = "PRIMARY_KEY"
  <2>1. << Statement("DROP", o, Safe, {}), Statement("CREATE", o, Safe, {}) >> \in Seq(KeepingData)
    BY <1>6, StatementsKeepData, GatesAndAspects, TwoStatements
  <2> QED
    BY <1>6, <2>1, NoStatement DEF CompareReply, ComparePrimaryKey, Reply
<1>7. CASE TypeOf[o] = "VIEW"
  <2>1. << Statement("REPLACE", o, Safe, {"comment"}), Statement("ALTER", o, Safe, {"comment"}) >>
          \in Seq(KeepingData)
    BY <1>7, StatementsKeepData, GatesAndAspects, TwoStatements
  <2>2. AlterIf(o, existing[o], "comment", Safe) \in Seq(KeepingData)
    BY AltersKeepData, GatesAndAspects
  <2> QED
    BY <1>7, <2>1, <2>2 DEF CompareReply, CompareView, CreateView, Altered, Reply
<1> QED
  BY <1>1, <1>2, <1>3, <1>4, <1>5, <1>6, <1>7 DEF Types

-----------------------------------------------------------------------------
(* Every step preserves the invariant.                                     *)

LEMMA ConfigIsSound ==
  ASSUME scenario \in Scenarios
  PROVE  /\ config.declared \subseteq Objects
         /\ \A o \in config.declared : Within[o] \subseteq config.declared
         /\ config.sandbox \subseteq config.declared
<1>1. scenario \in ScenarioRecords
  BY ScenarioAssumption
<1>2. config.declared \subseteq Objects
  BY <1>1 DEF ScenarioRecords, config
<1> QED
  BY <1>2, ScenarioAssumption DEF config

LEMMA TailOfOne == ASSUME NEW s PROVE Head(<< s >>) = s /\ Tail(<< s >>) = <<>>
  OBVIOUS

LEMMA TailOfTwo ==
  ASSUME NEW s, NEW t PROVE Head(<< s, t >>) = s /\ Tail(<< s, t >>) = << t >>
  OBVIOUS

LEMMA HeadAndTail ==
  ASSUME NEW S, NEW q \in Seq(S), q # <<>> PROVE Head(q) \in S /\ Tail(q) \in Seq(S)
  OBVIOUS

LEMMA PairIsNotEmpty == ASSUME NEW s, NEW t PROVE << s, t >> # <<>> /\ << s >> # <<>>
  OBVIOUS

LEMMA LossInvInit == Init => LossInv
  BY DEF Init, LossInv, Bookkeeping, DropsAreUnwanted, OthersKeepData, EmptyMap

\* Where there is no task there is nothing to show.
LEMMA NoTaskIsSound ==
  ASSUME scenario \in Scenarios, pc \in {"start", "resolver", "drop", "create"},
         remaining \subseteq Objects, DOMAIN task = {}
  PROVE  LossInv
  BY DEF LossInv, Bookkeeping, DropsAreUnwanted, OthersKeepData

\* What a resolver lists to drop is undeclared and in no sandbox.
LEMMA TargetsAreUnwanted ==
  ASSUME NEW o \in DropTargets(ExistingObjects), Invocation.action # "destroy"
  PROVE  o \in Objects /\ IsUnwanted(o)
<1>1. o \in ResolveDropTargets(ExistingObjects)
  BY DEF DropTargets
<1>2. /\ o \in DOMAIN ExistingObjects /\ Resolver # "VIEW_DEPENDENT_FUNCTION"
      /\ o \notin Blueprints /\ Keeper(o) \subseteq config.declared \ config.sandbox
  BY <1>1 DEF ResolveDropTargets
<1>3. o \in Typed(ResolverType)
  BY <1>2 DEF ExistingObjects
<1> QED
  BY <1>2, <1>3 DEF Typed, Blueprints, IsUnwanted

LEMMA TargetsAreObjects == DropTargets(ExistingObjects) \subseteq Objects
<1>1. DropTargets(ExistingObjects) \subseteq DOMAIN ExistingObjects
  BY DEF DropTargets, ResolveDropTargets, DestroyDropTargets
<1>2. DOMAIN ExistingObjects \subseteq Objects
  BY DEF ExistingObjects, Typed
<1> QED
  BY <1>1, <1>2

LEMMA BeginKeepsInv == ASSUME LossInv, Begin PROVE LossInv'
<1>1. /\ task' = Queued(DropTargets(ExistingObjects)) /\ pc' = "drop" /\ pc = "resolver"
      /\ scenario' = scenario /\ inv' = inv
      /\ remaining' = IF Invocation.action = "destroy" THEN {} ELSE Batchable
  BY DEF Begin, DropTargets, ResolveDropTargets, DestroyDropTargets, ImplicitDropIntention
<1>2. /\ DOMAIN task' = DropTargets(ExistingObjects)
      /\ \A o \in DOMAIN task' : /\ task'[o].statements = <<>>
                                 /\ "statements" \in DOMAIN task'[o]
  BY <1>1 DEF Queued
<1>3. Bookkeeping'
  <2>1. config.declared \subseteq Objects
    BY ConfigIsSound DEF LossInv, Bookkeeping
  <2>2. remaining' \subseteq Objects
    BY <1>1, <2>1 DEF Batchable, Blueprints
  <2> QED
    BY <1>1, <1>2, <2>2, TargetsAreObjects DEF LossInv, Bookkeeping
<1>4. DropsAreUnwanted'
  <2>1. Invocation' = Invocation /\ config' = config
    BY <1>1 DEF Invocation, Invocations, config
  <2>2. \A o \in DOMAIN task' : Invocation.action = "destroy" \/ IsUnwanted(o)
    BY <1>2, TargetsAreUnwanted
  <2> QED
    BY <1>2, <2>1, <2>2 DEF DropsAreUnwanted, IsUnwanted, Keeper
<1> QED
  BY <1>1, <1>3, <1>4 DEF LossInv, OthersKeepData

LEMMA BatchKeepsInv == ASSUME LossInv, SubmitBatch PROVE LossInv'
<1>1. /\ pc' = "create" /\ scenario' = scenario /\ remaining' = remaining \ NextBatch
      /\ task' = Queued(NextBatch \ {o \in NextBatch : IsUnmanaged(o)})
  BY DEF SubmitBatch
<1>2. NextBatch \subseteq remaining
  BY DEF NextBatch
<1>3. /\ DOMAIN task' \subseteq NextBatch
      /\ \A o \in DOMAIN task' : /\ task'[o].statements = <<>>
                                 /\ "statements" \in DOMAIN task'[o]
  BY <1>1 DEF Queued
<1>4. Bookkeeping'
  BY <1>1, <1>2, <1>3 DEF LossInv, Bookkeeping
<1> QED
  BY <1>1, <1>3, <1>4, NoStatement DEF LossInv, DropsAreUnwanted, OthersKeepData

\* While there are tasks the command line and the phase stay as they are.
LEMMA SameInvocation ==
  ASSUME scenario' = scenario, inv' = inv
  PROVE  Invocation' = Invocation /\ config' = config /\ Settings' = Settings
  BY DEF Invocation, Invocations, config, Settings

LEMMA StartTaskKeepsInv == ASSUME LossInv, NEW o \in Objects, StartTask(o) PROVE LossInv'
<1> DEFINE reply == ReplyFor(o)
<1>1. /\ o \in DOMAIN task /\ task[o].stage = "queued"
      /\ task' = [task EXCEPT ![o] = [stage |-> "running", result |-> reply.result,
                                      statements |-> reply.statements]]
      /\ scenario' = scenario /\ inv' = inv /\ pc' = pc /\ remaining' = remaining
      /\ executed' = executed
  BY DEF StartTask
<1>2. /\ DOMAIN task' = DOMAIN task /\ task'[o].statements = reply.statements
      /\ "statements" \in DOMAIN task'[o]
      /\ \A n \in DOMAIN task \ {o} : task'[n] = task[n]
  BY <1>1
<1>3. Bookkeeping'
  BY <1>1, <1>2 DEF LossInv, Bookkeeping
<1>4. Invocation' = Invocation /\ config' = config /\ Settings' = Settings
  BY <1>1, SameInvocation
<1>5. DropsAreUnwanted'
  <2>1. pc = "drop" => reply.statements = << DropOf(o) >>
    BY DropReplies DEF ReplyFor
  <2> QED
    BY <1>1, <1>2, <1>4, <2>1 DEF LossInv, DropsAreUnwanted, IsUnwanted, Keeper, DropOf
<1>6. OthersKeepData'
  <2> SUFFICES ASSUME pc = "create", NEW n \in DOMAIN task
               PROVE  task'[n].statements \in Seq(KeepingData) \/ IsCreatingDatabase(n)'
    BY <1>1, <1>2 DEF OthersKeepData
  <2>1. CASE n # o
    BY <1>1, <1>2, <1>4, <2>1
    DEF LossInv, OthersKeepData, IsCreatingDatabase, CanRun, NewDatabase, DropPublic
  <2>2. CASE n = o
    <3>1. \/ reply.statements \in Seq(KeepingData)
          \/ TypeOf[o] = "DATABASE" /\ reply.statements = << NewDatabase(o), DropPublic(o) >>
      BY CreateReplies, CompareReplies DEF ReplyFor
    <3> QED
      BY <1>2, <2>2, <3>1 DEF IsCreatingDatabase, NewDatabase, DropPublic
  <2> QED
    BY <2>1, <2>2
<1> QED
  BY <1>3, <1>5, <1>6 DEF LossInv

\* A statement has been dealt with: the rest of its task is as harmless.
LEMMA AdvanceKeepsInv ==
  ASSUME LossInv, NEW o \in Objects, HasStatement(o), Advance(o),
         scenario' = scenario, inv' = inv, pc' = pc, remaining' = remaining,
         executed \subseteq executed',
         CanRun(Head(task[o].statements)) => Head(task[o].statements) \in executed'
  PROVE  LossInv'
<1>1. /\ o \in DOMAIN task /\ task[o].statements # <<>>
      /\ task' = [task EXCEPT ![o].statements = Tail(@)]
  BY DEF HasStatement, Advance
<1>2. /\ DOMAIN task' = DOMAIN task /\ task'[o].statements = Tail(task[o].statements)
      /\ "statements" \in DOMAIN task'[o]
      /\ \A n \in DOMAIN task \ {o} : task'[n] = task[n]
  BY <1>1 DEF LossInv, Bookkeeping
<1>3. Bookkeeping'
  BY <1>2 DEF LossInv, Bookkeeping
<1>4. Invocation' = Invocation /\ config' = config /\ Settings' = Settings
  BY SameInvocation
<1>5. DropsAreUnwanted'
  <2> SUFFICES ASSUME pc = "drop", NEW n \in DOMAIN task
               PROVE  /\ task'[n].statements \in {<<>>, << DropOf(n) >>}
                      /\ Invocation.action = "destroy" \/ IsUnwanted(n)
    BY <1>2, <1>4 DEF DropsAreUnwanted, IsUnwanted, Keeper, DropOf
  <2>1. /\ task[n].statements \in {<<>>, << DropOf(n) >>}
        /\ Invocation.action = "destroy" \/ IsUnwanted(n)
    BY DEF LossInv, DropsAreUnwanted
  <2>2. CASE n = o
    BY <1>1, <1>2, <2>1, <2>2, TailOfOne
  <2> QED
    BY <1>2, <2>1, <2>2
<1>6. OthersKeepData'
  <2> SUFFICES ASSUME pc = "create", NEW n \in DOMAIN task
               PROVE  task'[n].statements \in Seq(KeepingData) \/ IsCreatingDatabase(n)'
    BY <1>2 DEF OthersKeepData
  <2>1. task[n].statements \in Seq(KeepingData) \/ IsCreatingDatabase(n)
    BY DEF LossInv, OthersKeepData
  <2>2. CASE n # o
    BY <1>2, <1>4, <2>1, <2>2 DEF IsCreatingDatabase, CanRun, NewDatabase, DropPublic
  <2>3. CASE n = o /\ task[o].statements \in Seq(KeepingData)
    BY <1>1, <1>2, <2>3, HeadAndTail
  <2>4. CASE n = o /\ task[o].statements = << NewDatabase(o), DropPublic(o) >>
                   /\ TypeOf[o] = "DATABASE"
    <3>1. task'[o].statements = << DropPublic(o) >>
      BY <1>2, <2>4, TailOfTwo
    <3>2. CanRun(NewDatabase(o)) => NewDatabase(o) \in executed'
      BY <2>4, TailOfTwo
    <3>3. CanRun(DropPublic(o))' => CanRun(NewDatabase(o))
      BY <1>4 DEF CanRun, NewDatabase, DropPublic, Statement
    <3> QED
      BY <2>4, <3>1, <3>2, <3>3 DEF IsCreatingDatabase, NewDatabase, DropPublic
  <2>5. CASE n = o /\ task[o].statements = << DropPublic(o) >>
    BY <1>2, <2>5, TailOfOne, NoStatement
  <2> QED
    BY <2>1, <2>2, <2>3, <2>4, <2>5 DEF IsCreatingDatabase
<1> QED
  BY <1>3, <1>5, <1>6 DEF LossInv

LEMMA RaiseKeepsInv == ASSUME LossInv, NEW o \in Objects, Raise(o) PROVE LossInv'
<1>1. /\ o \in DOMAIN task
      /\ task' = [task EXCEPT ![o] = [stage |-> "running", result |-> "ERROR",
                                      statements |-> <<>>]]
      /\ scenario' = scenario /\ inv' = inv /\ pc' = pc /\ remaining' = remaining
      /\ executed' = executed
  BY DEF Raise, HasStatement
<1>2. /\ DOMAIN task' = DOMAIN task /\ task'[o].statements = <<>>
      /\ "statements" \in DOMAIN task'[o]
      /\ \A n \in DOMAIN task \ {o} : task'[n] = task[n]
  BY <1>1
<1>3. Invocation' = Invocation /\ config' = config /\ Settings' = Settings
  BY <1>1, SameInvocation
<1>4. DropsAreUnwanted'
  BY <1>1, <1>2, <1>3 DEF LossInv, DropsAreUnwanted, IsUnwanted, Keeper, DropOf
<1>5. OthersKeepData'
  <2> SUFFICES ASSUME pc = "create", NEW n \in DOMAIN task
               PROVE  task'[n].statements \in Seq(KeepingData) \/ IsCreatingDatabase(n)'
    BY <1>1, <1>2 DEF OthersKeepData
  <2>1. CASE n # o
    BY <1>1, <1>2, <1>3, <2>1
    DEF LossInv, OthersKeepData, IsCreatingDatabase, CanRun, NewDatabase, DropPublic
  <2> QED
    BY <1>2, <2>1, NoStatement
<1> QED
  BY <1>1, <1>2, <1>4, <1>5 DEF LossInv, Bookkeeping

LEMMA CollectKeepsInv == ASSUME LossInv, NEW o \in Objects, Collect(o) PROVE LossInv'
<1>1. /\ task' = [n \in DOMAIN task \ {o} |-> task[n]]
      /\ scenario' = scenario /\ inv' = inv /\ pc' = pc /\ remaining' = remaining
      /\ executed' = executed
  BY DEF Collect
<1>2. /\ DOMAIN task' = DOMAIN task \ {o}
      /\ \A n \in DOMAIN task' : n \in DOMAIN task /\ task'[n] = task[n]
  BY <1>1
<1>3. Invocation' = Invocation /\ config' = config /\ Settings' = Settings
  BY <1>1, SameInvocation
<1>4. DropsAreUnwanted'
  BY <1>1, <1>2, <1>3 DEF LossInv, DropsAreUnwanted, IsUnwanted, Keeper, DropOf
<1>5. OthersKeepData'
  BY <1>1, <1>2, <1>3
  DEF LossInv, OthersKeepData, IsCreatingDatabase, CanRun, NewDatabase, DropPublic
<1> QED
  BY <1>1, <1>2, <1>4, <1>5 DEF LossInv, Bookkeeping

\* Someone else's DDL is no task's business.
LEMMA SameTasks ==
  ASSUME LossInv,
         UNCHANGED <<scenario, inv, pc, remaining, task, executed>>
  PROVE  LossInv'
<1>1. Invocation' = Invocation /\ config' = config /\ Settings' = Settings
  BY SameInvocation
<1>2. DropsAreUnwanted'
  BY <1>1 DEF LossInv, DropsAreUnwanted, IsUnwanted, Keeper, DropOf
<1>3. OthersKeepData'
  BY <1>1 DEF LossInv, OthersKeepData, IsCreatingDatabase, CanRun, NewDatabase, DropPublic
<1> QED
  BY <1>2, <1>3 DEF LossInv, Bookkeeping

LEMMA LossInvStep == LossInv /\ [Next]_vars => LossInv'
<1> SUFFICES ASSUME LossInv, [Next]_vars PROVE LossInv'
  OBVIOUS
<1>1. ASSUME NEW o \in Objects, StartTask(o) PROVE LossInv'
  BY <1>1, StartTaskKeepsInv
<1>2. ASSUME NEW o \in Objects, Suggest(o) PROVE LossInv'
  BY <1>2, AdvanceKeepsInv DEF Suggest
<1>3. ASSUME NEW o \in Objects, Execute(o) PROVE LossInv'
  BY <1>3, AdvanceKeepsInv DEF Execute
<1>4. ASSUME NEW o \in Objects, Raise(o) PROVE LossInv'
  BY <1>4, RaiseKeepsInv
<1>5. ASSUME NEW o \in Objects, Collect(o) PROVE LossInv'
  BY <1>5, CollectKeepsInv
<1>6. CASE Start \/ Skip \/ Exit \/ AbortOnMissingSchema \/ AbortOnQueryFailure
  BY <1>6, NoTaskIsSound
  DEF Start, Skip, Exit, AbortOnMissingSchema, AbortOnQueryFailure, Record, LossInv,
      Bookkeeping, DropsAreUnwanted, OthersKeepData
<1>7. CASE Begin
  BY <1>7, BeginKeepsInv
<1>8. CASE SubmitBatch
  BY <1>8, BatchKeepsInv
<1>9. CASE Finish
  BY <1>9 DEF Finish, LossInv, Bookkeeping, DropsAreUnwanted, OthersKeepData
<1>10. CASE Crash
  BY <1>10 DEF Crash, Record, EmptyMap, LossInv, Bookkeeping, DropsAreUnwanted, OthersKeepData
<1>11. CASE Outside
  BY <1>11, SameTasks DEF Outside, OutsideDrop, OutsideCreate, Disturb
<1>12. CASE UNCHANGED vars
  BY <1>12, SameTasks DEF vars
<1> QED
  BY <1>1, <1>2, <1>3, <1>4, <1>5, <1>6, <1>7, <1>8, <1>9, <1>10, <1>11, <1>12
  DEF Next, Worker, Main, Faults, Idle

-----------------------------------------------------------------------------
(* What a step may take from the account.                                  *)

\* A statement takes its object or what is in it.
LEMMA LossOfStatement ==
  ASSUME NEW s, s.op \in {"CREATE", "ALTER", "REPLACE", "DROP"},
         live' = LiveAfter(s), NEW o \in live \ live'
  PROVE  /\ s.op \in {"REPLACE", "DROP"}
         /\ o = s.obj \/ o \in Inside(s.obj)
         /\ s.op = "REPLACE" => o \in Inside(s.obj)
  BY DEF LiveAfter

\* Databases, schemas and, for a key, tables are what can contain something.
LEMMA WhatContains ==
  ASSUME NEW c \in Objects, NEW o \in Inside(c)
  PROVE  /\ o \in Objects /\ c \in Within[o]
         /\ \/ TypeOf[c] \in {"DATABASE", "SCHEMA"}
            \/ TypeOf[c] = "TABLE" /\ TypeOf[o] = "PRIMARY_KEY"
  BY ResolverAssumption DEF Inside

\* In the create phase nothing goes but keys and the new database's PUBLIC.
LEMMA CreatePhaseKeepsData ==
  ASSUME LossInv, pc = "create", NEW n \in Objects, Execute(n), NEW o \in live \ live'
  PROVE  TypeOf[o] = "PRIMARY_KEY" \/ IsNewPublic(o)
<1> DEFINE s == Head(task[n].statements)
<1>1. /\ n \in DOMAIN task /\ task[n].statements # <<>> /\ CanRun(s) /\ live' = LiveAfter(s)
  BY DEF Execute, HasStatement
<1>2. task[n].statements \in Seq(KeepingData) \/ IsCreatingDatabase(n)
  BY <1>1 DEF LossInv, OthersKeepData
<1>3. CASE task[n].statements \in Seq(KeepingData)
  <2>1. s \in KeepingData
    BY <1>1, <1>3, HeadAndTail
  <2>2. s.op \in {"CREATE", "ALTER", "REPLACE", "DROP"} /\ s.obj \in Objects
    BY <2>1 DEF KeepingData, Typed
  <2>3. /\ s.op \in {"REPLACE", "DROP"} /\ (o = s.obj \/ o \in Inside(s.obj))
        /\ s.op = "REPLACE" => o \in Inside(s.obj)
    BY <1>1, <2>2, LossOfStatement
  <2>4. CASE s.op = "REPLACE"
    <3>1. TypeOf[s.obj] \in {"TABLE", "FUNCTION", "VIEW"}
      BY <2>1, <2>4 DEF KeepingData, Typed
    <3> QED
      BY <2>2, <2>3, <2>4, <3>1, WhatContains
  <2>5. CASE s.op = "DROP"
    <3>1. TypeOf[s.obj] = "PRIMARY_KEY"
      BY <2>1, <2>5 DEF KeepingData, Typed
    <3> QED
      BY <2>2, <2>3, <3>1, WhatContains
  <2> QED
    BY <2>3, <2>4, <2>5
<1>4. CASE task[n].statements = << NewDatabase(n), DropPublic(n) >>
  <2>1. s = NewDatabase(n)
    BY <1>4, TailOfTwo
  <2> QED
    BY <1>1, <2>1, LossOfStatement DEF NewDatabase, Statement
<1>5. CASE /\ TypeOf[n] = "DATABASE" /\ task[n].statements = << DropPublic(n) >>
           /\ CanRun(DropPublic(n)) => NewDatabase(n) \in executed
  <2>1. s = DropPublic(n)
    BY <1>5, TailOfOne
  <2>2. NewDatabase(n) \in executed
    BY <1>1, <1>5, <2>1
  <2>3. o = PublicOf[n] \/ o \in Inside(PublicOf[n])
    BY <1>1, <2>1, LossOfStatement DEF DropPublic, Statement
  <2>4. PublicOf[n] \in Within[o] \cup {o}
    BY <2>3 DEF Inside
  <2> QED
    BY <1>5, <2>2, <2>4 DEF IsNewPublic, NewDatabase, Statement, Databases
<1> QED
  BY <1>2, <1>3, <1>4, <1>5 DEF IsCreatingDatabase

\* In the drop phase an object goes and, with a container, what is in it.
LEMMA DropPhaseLoss ==
  ASSUME LossInv, pc = "drop", NEW n \in Objects, Execute(n), NEW o \in live \ live'
  PROVE  /\ CanRun(DropOf(n)) /\ (o = n \/ o \in Inside(n))
         /\ Invocation.action = "destroy" \/ IsUnwanted(n)
<1> DEFINE s == Head(task[n].statements)
<1>1. /\ n \in DOMAIN task /\ task[n].statements # <<>> /\ CanRun(s) /\ live' = LiveAfter(s)
  BY DEF Execute, HasStatement
<1>2. /\ task[n].statements = << DropOf(n) >>
      /\ Invocation.action = "destroy" \/ IsUnwanted(n)
  BY <1>1 DEF LossInv, DropsAreUnwanted
<1>3. s = DropOf(n)
  BY <1>2, TailOfOne
<1> QED
  BY <1>1, <1>2, <1>3, LossOfStatement DEF DropOf, Statement

\* Only statements and other people's DDL take anything.
LEMMA WhoTakes ==
  ASSUME LossInv, [Next]_vars, NEW o \in live \ live'
  PROVE  \/ outside' # outside
         \/ pc \in {"drop", "create"} /\ \E n \in Objects : Execute(n)
<1>1. ASSUME NEW n \in Objects, Execute(n)
      PROVE  pc \in {"drop", "create"}
  <2>1. n \in DOMAIN task
    BY <1>1 DEF Execute, HasStatement
  <2> QED
    BY <2>1 DEF LossInv, Bookkeeping
<1>2. ASSUME NEW n \in Objects, OutsideDrop(n) \/ OutsideCreate(n)
      PROVE  outside' # outside
  BY <1>2 DEF OutsideDrop, OutsideCreate, Disturb
<1>3. ASSUME NEW n \in Objects, StartTask(n) \/ Suggest(n) \/ Raise(n) \/ Collect(n)
      PROVE  live' = live
  BY <1>3 DEF StartTask, Suggest, Raise, Collect, account
<1>4. CASE Start \/ Skip \/ Begin \/ SubmitBatch \/ Finish
  BY <1>4 DEF Start, Skip, Begin, SubmitBatch, Finish, account
<1>5. CASE Exit \/ AbortOnMissingSchema \/ Faults
  BY <1>5 DEF Exit, AbortOnMissingSchema, Faults, AbortOnQueryFailure, Crash, account
<1>6. CASE UNCHANGED vars
  BY <1>6 DEF vars, account
<1> QED
  BY <1>1, <1>2, <1>3, <1>4, <1>5, <1>6 DEF Next, Worker, Main, Outside, Idle

-----------------------------------------------------------------------------
(* What may be taken.                                                      *)

\* SafeApplyKeepsData: drops of databases, schemas and tables need
\* --apply-unsafe (database.py, schema.py, table.py drop_object), what other
\* types are dropped or replaced contains no data, and the only safe DROP
\* SCHEMA follows the CREATE DATABASE that made the schema (database.py).
LEMMA StepKeepsData ==
  ASSUME LossInv, [Next]_vars, NEW o \in live \ live'
  PROVE  \/ "execute_unsafe_ddl" \in Settings \/ outside' # outside
         \/ TypeOf[o] \in {"VIEW", "FUNCTION", "PRIMARY_KEY"}
         \/ IsNewPublic(o)
<1> SUFFICES ASSUME outside' = outside, "execute_unsafe_ddl" \notin Settings
             PROVE  TypeOf[o] \in {"VIEW", "FUNCTION", "PRIMARY_KEY"} \/ IsNewPublic(o)
  OBVIOUS
<1>1. PICK n \in Objects : Execute(n)
  BY WhoTakes
<1>2. CASE pc = "create"
  BY <1>1, <1>2, CreatePhaseKeepsData
<1>3. CASE pc = "drop"
  <2>1. CanRun(DropOf(n)) /\ (o = n \/ o \in Inside(n))
    BY <1>1, <1>3, DropPhaseLoss
  <2>2. TypeOf[n] \notin DataTypes
    BY <2>1 DEF CanRun, DropOf, Statement, Unsafe
  <2>3. TypeOf[n] \in {"VIEW", "FUNCTION", "PRIMARY_KEY"}
    BY <2>2, ResolverAssumption DEF DataTypes, Types
  <2> QED
    BY <2>1, <2>3, WhatContains
<1> QED
  BY <1>2, <1>3, WhoTakes

\* What is in something unwanted is unwanted too.
LEMMA CascadeIsUnwanted ==
  ASSUME scenario \in Scenarios, NEW n \in Objects, IsUnwanted(n), NEW o \in Inside(n),
         TypeOf[n] \in {"DATABASE", "SCHEMA"}
  PROVE  o \notin config.declared /\ ~Tolerated(o)
<1>1. o \in Objects /\ n \in Within[o]
  BY WhatContains
<1>2. n \notin config.declared /\ Keeper(n) \subseteq config.declared \ config.sandbox
  BY DEF IsUnwanted
<1>3. o \notin config.declared
  BY <1>1, <1>2, ConfigIsSound
<1>4. n \notin config.sandbox
  BY <1>2, ConfigIsSound
<1>5. CASE TypeOf[n] = "DATABASE"
  <2>1. n \in Within[o] \cap Databases
    BY <1>1, <1>5 DEF Databases
  <2>2. Keeper(o) \subseteq config.declared => Keeper(o) = {}
    <3> SUFFICES ASSUME Keeper(o) \subseteq config.declared, NEW c \in Keeper(o)
                 PROVE  FALSE
      OBVIOUS
    <3>1. CASE TypeOf[o] = "SCHEMA"
      BY <1>2, <2>1, <3>1 DEF Keeper
    <3>2. CASE TypeOf[o] # "SCHEMA"
      <4>1. n \in Within[c]
        BY <1>1, <2>1, <3>2, ResolverAssumption DEF Keeper
      <4> QED
        BY <1>2, <4>1, ConfigIsSound
    <3> QED
      BY <3>1, <3>2
  <2> QED
    BY <1>3, <1>4, <2>1, <2>2 DEF Tolerated
<1>6. CASE TypeOf[n] = "SCHEMA"
  <2>1. n \in Schemas /\ n \notin Databases
    BY <1>6 DEF Schemas, Databases
  <2>2. Within[n] # {} /\ Within[n] \subseteq Databases /\ Within[n] \subseteq Within[o]
    BY <1>1, <2>1, ResolverAssumption
  <2>3. Keeper(n) = Within[n]
    BY <1>6, <2>2 DEF Keeper
  <2>4. TypeOf[o] # "SCHEMA"
    BY <1>1, <2>1, ResolverAssumption DEF Schemas
  <2>5. n \in Keeper(o)
    BY <1>1, <2>1, <2>4 DEF Keeper
  <2>6. PICK d : d \in Within[n]
    BY <2>2
  <2>7. d \in Within[o] \cap Databases /\ d \notin config.sandbox
    BY <1>2, <2>2, <2>3, <2>6
  <2> QED
    BY <1>2, <1>3, <2>5, <2>7 DEF Tolerated
<1> QED
  BY <1>5, <1>6

\* OnlyUnwantedIsLost: resolvers drop what is undeclared and in no sandbox
\* (_resolve_drop of DatabaseResolver, SchemaResolver and
\* AbstractSchemaObjectResolver), and a declared object or one kept by a
\* sandbox never lives in something they drop.
LEMMA StepTakesUnwanted ==
  ASSUME LossInv, [Next]_vars, NEW o \in live \ live'
  PROVE  \/ Invocation.action = "destroy" \/ outside' # outside
         \/ o \notin config.declared /\ ~Tolerated(o)
         \/ TypeOf[o] = "PRIMARY_KEY" \/ IsNewPublic(o)
<1> SUFFICES ASSUME outside' = outside, Invocation.action # "destroy"
             PROVE  \/ o \notin config.declared /\ ~Tolerated(o)
                    \/ TypeOf[o] = "PRIMARY_KEY" \/ IsNewPublic(o)
  OBVIOUS
<1>1. PICK n \in Objects : Execute(n)
  BY WhoTakes
<1>2. CASE pc = "create"
  BY <1>1, <1>2, CreatePhaseKeepsData
<1>3. CASE pc = "drop"
  <2>1. IsUnwanted(n) /\ (o = n \/ o \in Inside(n))
    BY <1>1, <1>3, DropPhaseLoss
  <2>2. CASE o = n
    BY <2>1, <2>2 DEF IsUnwanted, Tolerated
  <2>3. CASE o \in Inside(n) /\ TypeOf[n] \in {"DATABASE", "SCHEMA"}
    BY <2>1, <2>3, CascadeIsUnwanted DEF LossInv, Bookkeeping
  <2>4. CASE o \in Inside(n) /\ TypeOf[n] \notin {"DATABASE", "SCHEMA"}
    BY <2>4, WhatContains
  <2> QED
    BY <2>1, <2>2, <2>3, <2>4
<1> QED
  BY <1>2, <1>3, WhoTakes

LEMMA LossInvHolds == Spec => []LossInv
  BY LossInvInit, LossInvStep, PTL DEF Spec

\* Without --apply-unsafe no invocation takes a database, a schema or a table
\* (SafeApplyKeepsData), whatever fails, dies or interferes on the way.
THEOREM DataIsKept == Spec => SafeApplyKeepsData
<1>1. LossInv /\ [Next]_vars =>
        [\A o \in live \ live' :
           \/ "execute_unsafe_ddl" \in Settings \/ outside' # outside
           \/ TypeOf[o] \in {"VIEW", "FUNCTION", "PRIMARY_KEY"}
           \/ IsNewPublic(o)]_vars
  BY StepKeepsData
<1> QED
  BY <1>1, LossInvHolds, PTL DEF Spec, SafeApplyKeepsData

\* Resolving takes only what is undeclared and in no sandbox, keys of replaced
\* tables excepted (OnlyUnwantedIsLost), cascades included.
THEOREM OnlyUnwantedGoes == Spec => OnlyUnwantedIsLost
<1>1. LossInv /\ [Next]_vars =>
        [\A o \in live \ live' :
           \/ Invocation.action = "destroy" \/ outside' # outside
           \/ o \notin config.declared /\ ~Tolerated(o)
           \/ TypeOf[o] = "PRIMARY_KEY" \/ IsNewPublic(o)]_vars
  BY StepTakesUnwanted
<1> QED
  BY <1>1, LossInvHolds, PTL DEF Spec, OnlyUnwantedIsLost

-----------------------------------------------------------------------------
(* Databases and schemas, which the schema cache is about.                 *)

Containers == Databases \cup Schemas

-----------------------------------------------------------------------------
(* Every object is some resolver's, and one resolver's only.               *)

\* A function is created by the second function resolver if it is declared to
\* depend on something; undeclared ones are left to the first.
IsDependent(o) == o \in config.declared /\ DependsOn[o] # {}

Turns == 1..Len(Sequence)

TypeAt(i) == IF Sequence[i] = "VIEW_DEPENDENT_FUNCTION" THEN "FUNCTION" ELSE Sequence[i]

Handles(i, o) ==
  /\ TypeOf[o] = TypeAt(i)
  /\ TypeOf[o] = "FUNCTION" => (Sequence[i] = "VIEW_DEPENDENT_FUNCTION" <=> IsDependent(o))

-----------------------------------------------------------------------------
(* The inductive invariant about the schema cache.                         *)

\* What a task for o may execute.
StatementsOf(o) ==
  [op : {"CREATE", "REPLACE"}, obj : {o}, gate : SUBSET Switches,
   aspects : SUBSET AspectsOf(TypeOf[o])]
    \cup [op : {"ALTER", "DROP"}, obj : {o}, gate : SUBSET Switches, aspects : SUBSET Aspects]
    \cup (IF TypeOf[o] = "DATABASE" THEN {DropPublic(o)} ELSE {})

Issued == UNION {StatementsOf(o) : o \in Objects}

HistoryRecords ==
  [action : {"plan", "apply", "destroy"}, exit : {"success", "errors", "aborted"},
   settings : SUBSET Switches, executed : SUBSET Issued, suggested : SUBSET Issued]

IsResolving == pc \in {"drop", "create"}

Progress ==
  /\ scenario \in Scenarios /\ pc \in {"start", "resolver", "drop", "create"}
  /\ inv \in Nat \ {0} /\ idx \in Nat \ {0}
  /\ history \in Seq(HistoryRecords) /\ Len(history) = inv - 1
  /\ executed \subseteq Issued /\ suggested \subseteq Issued
  /\ pc # "start" => inv <= Len(Invocations) /\ idx <= Len(Sequence) + 1
  /\ IsResolving => idx <= Len(Sequence)

\* Nothing exists outside its containers or differs in what is not compared.
AccountIsSound ==
  /\ live \subseteq Objects
  /\ \A o \in live : Within[o] \subseteq live
  /\ drift \in [Objects -> SUBSET Aspects]
  /\ \A o \in Objects : drift[o] \subseteq AspectsOf(TypeOf[o])

ResolveResults == {"NOCHANGE", "CREATE", "ALTER", "REPLACE", "DROP", "UNSUPPORTED", "ERROR"}

\* A task which has or had something to execute does not result in NOCHANGE.
IsTask(o, t) ==
  /\ t \in [stage : {"queued", "running"}, result : ResolveResults,
            statements : Seq(StatementsOf(o))]
  /\ t.stage = "queued" => t.result = "NOCHANGE"
  /\ t.result = "NOCHANGE" => t.statements = <<>>

TasksAreSound ==
  /\ DOMAIN task \subseteq Objects /\ remaining \subseteq config.declared
  /\ \A o \in DOMAIN task : IsTask(o, task[o])
  /\ ~IsResolving => DOMAIN task = {} /\ remaining = {}
  /\ pc # "start" /\ Invocation.action = "destroy" => remaining = {} /\ pc # "create"
  /\ pc = "create" => DOMAIN task \subseteq config.declared

\* Each resolver works on its own objects, and gets one result for each.
EachToItsOwn ==
  pc # "start" =>
    /\ \A o \in DOMAIN task \cup remaining : Handles(idx, o)
    /\ \A o \in DOMAIN results : 
         o \in Objects /\ \E i \in Turns : Handles(i, o) /\ (i < idx \/ (i = idx /\ IsResolving))
    /\ DOMAIN results \cap (DOMAIN task \cup remaining) = {}
    /\ DOMAIN task \cap remaining = {}
    /\ intention \subseteq DOMAIN results

\* What the cache misses is in a result which will have it reloaded.
CacheOrResult ==
  pc # "start" /\ inv \notin outside =>
    \/ cache = LoadedCache
    \/ /\ IsResolving /\ Resolver \in {"DATABASE", "SCHEMA"}
       /\ ResolverChanged \/ \E o \in DOMAIN task : task[o].result # "NOCHANGE"

CacheInv == Progress /\ AccountIsSound /\ TasksAreSound /\ EachToItsOwn /\ CacheOrResult

-----------------------------------------------------------------------------
(* Turns.                                                                  *)

LEMMA TheSequences ==
  /\ Len(ResolveSequence) = 7 /\ Len(DestroySequence) = 2
  /\ ResolveSequence[1] = "DATABASE" /\ ResolveSequence[2] = "SCHEMA"
  /\ ResolveSequence[3] = "TABLE" /\ ResolveSequence[4] = "FUNCTION"
  /\ ResolveSequence[5] = "PRIMARY_KEY" /\ ResolveSequence[6] = "VIEW"
  /\ ResolveSequence[7] = "VIEW_DEPENDENT_FUNCTION"
  /\ DestroySequence[1] = "DATABASE" /\ DestroySequence[2] = "SCHEMA"
  BY DEF ResolveSequence, DestroySequence

LEMMA TheTurns ==
  /\ Len(Sequence) \in {2, 7} /\ (Invocation.action # "destroy" => Len(Sequence) = 7)
  /\ Turns \subseteq 1..7 /\ 1 \in Turns /\ 2 \in Turns
  /\ TypeAt(1) = "DATABASE" /\ Sequence[1] = "DATABASE"
  /\ TypeAt(2) = "SCHEMA" /\ Sequence[2] = "SCHEMA"
  /\ 3 \in Turns => TypeAt(3) = "TABLE" /\ Sequence[3] = "TABLE"
  /\ 4 \in Turns => TypeAt(4) = "FUNCTION" /\ Sequence[4] = "FUNCTION"
  /\ 5 \in Turns => TypeAt(5) = "PRIMARY_KEY" /\ Sequence[5] = "PRIMARY_KEY"
  /\ 6 \in Turns => TypeAt(6) = "VIEW" /\ Sequence[6] = "VIEW"
  /\ 7 \in Turns => TypeAt(7) = "FUNCTION" /\ Sequence[7] = "VIEW_DEPENDENT_FUNCTION"
<1>1. CASE Invocation.action = "destroy"
  <2>1. Sequence = DestroySequence
    BY <1>1 DEF Sequence
  <2>2. Turns = 1..2
    BY <2>1, TheSequences DEF Turns
  <2> QED
    BY <1>1, <2>1, <2>2, TheSequences DEF TypeAt
<1>2. CASE Invocation.action # "destroy"
  <2>1. Sequence = ResolveSequence
    BY <1>2 DEF Sequence
  <2>2. Turns = 1..7
    BY <2>1, TheSequences DEF Turns
  <2> QED
    BY <1>2, <2>1, <2>2, TheSequences DEF TypeAt
<1> QED
  BY <1>1, <1>2

\* A type tells the turn, but for functions.
LEMMA TurnOfType ==
  ASSUME NEW i \in Turns
  PROVE  /\ TypeAt(i) = "DATABASE" => i = 1
         /\ TypeAt(i) = "SCHEMA" => i = 2
         /\ TypeAt(i) = "TABLE" => i = 3
         /\ TypeAt(i) = "PRIMARY_KEY" => i = 5
         /\ TypeAt(i) = "VIEW" => i = 6
         /\ TypeAt(i) = "FUNCTION" => i \in {4, 7}
         /\ Sequence[i] = "VIEW_DEPENDENT_FUNCTION" <=> i = 7
         /\ Sequence[i] \in {"DATABASE", "SCHEMA"} <=> i \in {1, 2}
         /\ TypeAt(i) \in Types
<1>1. i = 1 \/ i = 2 \/ i = 3 \/ i = 4 \/ i = 5 \/ i = 6 \/ i = 7
  BY TheTurns
<1>2. CASE i = 1
  BY <1>2, TheTurns DEF Types
<1>3. CASE i = 2
  BY <1>3, TheTurns DEF Types
<1>4. CASE i = 3
  BY <1>4, TheTurns DEF Types
<1>5. CASE i = 4
  BY <1>5, TheTurns DEF Types
<1>6. CASE i = 5
  BY <1>6, TheTurns DEF Types
<1>7. CASE i = 6
  BY <1>7, TheTurns DEF Types
<1>8. CASE i = 7
  BY <1>8, TheTurns DEF Types
<1> QED
  BY <1>1, <1>2, <1>3, <1>4, <1>5, <1>6, <1>7, <1>8

LEMMA HandledOnce ==
  ASSUME NEW o, NEW i \in Turns, NEW j \in Turns, Handles(i, o), Handles(j, o)
  PROVE  i = j
<1>1. TypeAt(i) = TypeAt(j) /\ TypeAt(i) \in Types
  BY TurnOfType DEF Handles
<1>2. CASE TypeAt(i) # "FUNCTION"
  BY <1>1, <1>2, TurnOfType DEF Types
<1>3. CASE TypeAt(i) = "FUNCTION"
  <2>1. i = 7 <=> j = 7
    BY <1>1, <1>3, TurnOfType DEF Handles
  <2>2. i \in {4, 7} /\ j \in {4, 7}
    BY <1>1, <1>3, TurnOfType
  <2> QED
    BY <2>1, <2>2
<1> QED
  BY <1>2, <1>3

\* The resolver that runs.
LEMMA TheResolver ==
  ASSUME idx \in Turns
  PROVE  Resolver = Sequence[idx] /\ ResolverType = TypeAt(idx)
  BY DEF Resolver, ResolverType, TypeAt

\* Nothing lives in something whose turn is later or in the same turn.
LEMMA NothingEarlierInside ==
  ASSUME NEW n \in Objects, NEW o \in Objects, NEW i \in Turns, NEW j \in Turns,
         Handles(i, n), Handles(j, o), j <= i
  PROVE  o \notin Inside(n)
<1> SUFFICES ASSUME o \in Inside(n) PROVE FALSE
  OBVIOUS
<1>1. i \in 1..7 /\ j \in 1..7 /\ TypeOf[n] = TypeAt(i) /\ TypeOf[o] = TypeAt(j)
  BY TheTurns DEF Handles
<1>2. /\ n \in Within[o]
      /\ TypeOf[n] \in {"DATABASE", "SCHEMA"} \/ (TypeOf[n] = "TABLE" /\ TypeOf[o] = "PRIMARY_KEY")
  BY WhatContains
<1>3. CASE TypeOf[n] = "DATABASE"
  <2>1. i = 1
    BY <1>1, <1>3, TurnOfType
  <2>2. j = 1
    BY <1>1, <2>1
  <2>3. o \in Databases
    BY <1>1, <2>2, TheTurns DEF Databases
  <2> QED
    BY <1>2, <2>3, ResolverAssumption
<1>4. CASE TypeOf[n] = "SCHEMA"
  <2>1. i = 2
    BY <1>1, <1>4, TurnOfType
  <2>2. j = 1 \/ j = 2
    BY <1>1, <2>1
  <2>3. o \in Databases \/ o \in Schemas
    BY <1>1, <2>2, TheTurns DEF Databases, Schemas
  <2> QED
    BY <1>2, <1>4, <2>3, ResolverAssumption DEF Databases
<1>5. CASE TypeOf[n] = "TABLE" /\ TypeOf[o] = "PRIMARY_KEY"
  <2>1. TypeAt(i) = "TABLE" /\ TypeAt(j) = "PRIMARY_KEY"
    BY <1>1, <1>5
  <2>2. i = 3
    BY <2>1, TurnOfType
  <2>3. j = 5
    BY <2>1, TurnOfType
  <2> QED
    BY <2>2, <2>3
<1> QED
  BY <1>2, <1>3, <1>4, <1>5

LEMMA PublicIsLater ==
  ASSUME NEW d \in Databases, NEW o \in Objects, NEW i \in Turns, NEW j \in Turns,
         Handles(i, d), Handles(j, o), j <= i
  PROVE  o # PublicOf[d] /\ o \notin Inside(PublicOf[d])
<1>1. PublicOf[d] \in Schemas /\ PublicOf[d] \in Objects
  BY ResolverAssumption DEF Schemas
<1>2. TypeOf[d] = "DATABASE" /\ TypeOf[d] = TypeAt(i) /\ TypeOf[o] = TypeAt(j)
  BY DEF Databases, Handles
<1>3. i \in 1..7 /\ j \in 1..7
  BY TheTurns
<1>4. i = 1
  BY <1>2, TurnOfType
<1>5. j = 1
  BY <1>3, <1>4
<1>6. o \in Databases /\ TypeOf[o] = "DATABASE"
  BY <1>2, <1>5, TheTurns DEF Databases
<1>7. Within[o] = {}
  BY <1>6, ResolverAssumption
<1>8. o # PublicOf[d]
  BY <1>1, <1>6 DEF Schemas
<1> QED
  BY <1>7, <1>8 DEF Inside

LEMMA NotInItself == ASSUME NEW o \in Objects PROVE o \notin Within[o]
<1> SUFFICES ASSUME o \in Within[o] PROVE FALSE
  OBVIOUS
<1>1. TypeOf[o] = "DATABASE" \/ TypeOf[o] = "SCHEMA"
  BY ResolverAssumption
<1>2. CASE TypeOf[o] = "DATABASE"
  BY <1>2, ResolverAssumption DEF Databases
<1>3. CASE TypeOf[o] = "SCHEMA"
  BY <1>3, ResolverAssumption DEF Databases, Schemas
<1> QED
  BY <1>1, <1>2, <1>3

-----------------------------------------------------------------------------
(* Statements and replies.                                                 *)

LEMMA ComparedAspects ==
  ASSUME NEW o \in Objects PROVE AspectsOf(TypeOf[o]) \in SUBSET Aspects
<1>1. TypeOf[o] \in Types
  BY ResolverAssumption
<1> QED
  BY <1>1 DEF Types, AspectsOf, Aspects

LEMMA TheStatements ==
  ASSUME NEW o \in Objects, NEW g \in SUBSET Switches
  PROVE  /\ \A A \in SUBSET AspectsOf(TypeOf[o]) :
              /\ Statement("CREATE", o, g, A) \in StatementsOf(o)
              /\ Statement("REPLACE", o, g, A) \in StatementsOf(o)
         /\ \A A \in SUBSET Aspects :
              /\ Statement("ALTER", o, g, A) \in StatementsOf(o)
              /\ Statement("DROP", o, g, A) \in StatementsOf(o)
  BY DEF Statement, StatementsOf

\* What is known of any statement of a task for o.
LEMMA StatementIsSound ==
  ASSUME NEW o \in Objects, NEW s \in StatementsOf(o)
  PROVE  /\ s.op \in {"CREATE", "REPLACE", "ALTER", "DROP"}
         /\ s.obj \in Objects /\ s.aspects \in SUBSET Aspects
         /\ s.op \in {"CREATE", "REPLACE"} =>
              s.obj = o /\ s.aspects \in SUBSET AspectsOf(TypeOf[o])
         /\ s.obj = o \/ (o \in Databases /\ s.obj = PublicOf[o] /\ s.op = "DROP")
         /\ s \in Issued
<1>1. CASE s \in [op : {"CREATE", "REPLACE"}, obj : {o}, gate : SUBSET Switches,
                  aspects : SUBSET AspectsOf(TypeOf[o])]
  BY <1>1, ComparedAspects DEF Issued
<1>2. CASE s \in [op : {"ALTER", "DROP"}, obj : {o}, gate : SUBSET Switches,
                  aspects : SUBSET Aspects]
  BY <1>2 DEF Issued
<1>3. CASE TypeOf[o] = "DATABASE" /\ s = DropPublic(o)
  <2>1. s.op = "DROP" /\ s.obj = PublicOf[o] /\ s.aspects = {}
    BY <1>3 DEF DropPublic, Statement
  <2>2. o \in Databases /\ PublicOf[o] \in Objects
    BY <1>3, ResolverAssumption DEF Databases, Schemas
  <2> QED
    BY <2>1, <2>2 DEF Issued
<1> QED
  BY <1>1, <1>2, <1>3 DEF StatementsOf

IsReply(o, reply) ==
  /\ reply.statements \in Seq(StatementsOf(o)) /\ reply.result \in ResolveResults
  /\ reply.result = "NOCHANGE" => reply.statements = <<>>

LEMMA OneAlter ==
  ASSUME NEW o \in Objects, NEW d, NEW a \in Aspects, NEW g \in SUBSET Switches
  PROVE  AlterIf(o, d, a, g) \in Seq(StatementsOf(o))
<1>1. Statement("ALTER", o, g, {a}) \in StatementsOf(o)
  BY TheStatements
<1> QED
  BY <1>1, OneStatement, NoStatement DEF AlterIf

LEMMA AlteredIsReply ==
  ASSUME NEW o, NEW q \in Seq(StatementsOf(o)) PROVE IsReply(o, Altered(q))
  BY DEF IsReply, Altered, Reply, ResolveResults

LEMMA DropIsReply ==
  ASSUME NEW o \in Objects PROVE IsReply(o, DropReply(o)) /\ DropReply(o).result = "DROP"
<1>1. TypeOf[o] \in Types
  BY ResolverAssumption
<1>2. DropReply(o).result = "DROP"
  BY <1>1
  DEF Types, DropReply, DropDatabase, DropSchema, DropTable, DropFunction, DropPrimaryKey,
      DropView, Reply
<1>3. DropOf(o) \in StatementsOf(o)
  BY TheStatements, GatesAndAspects DEF DropOf
<1> QED
  BY <1>2, <1>3, DropReplies, OneStatement DEF IsReply, ResolveResults

LEMMA CreateIsReply ==
  ASSUME NEW o \in Objects PROVE IsReply(o, CreateReply(o)) /\ CreateReply(o).result = "CREATE"
<1>1. TypeOf[o] \in Types
  BY ResolverAssumption
<1>2. CreateReply(o).result = "CREATE"
  BY <1>1
  DEF Types, CreateReply, CreateDatabase, CreateSchema, CreateTable, CreateFunction,
      CreatePrimaryKey, CreateView, Reply
<1>3. CASE TypeOf[o] = "DATABASE"
  <2>1. DropPublic(o) \in StatementsOf(o) /\ NewDatabase(o) \in StatementsOf(o)
    BY <1>3, TheStatements, GatesAndAspects DEF StatementsOf, NewDatabase
  <2>2. CreateReply(o).statements = << NewDatabase(o), DropPublic(o) >>
    BY <1>3 DEF CreateReply, CreateDatabase, Reply, NewDatabase, DropPublic
  <2> QED
    BY <1>2, <2>1, <2>2, TwoStatements DEF IsReply, ResolveResults
<1>4. CASE TypeOf[o] = "SCHEMA"
  <2>1. CreateReply(o).statements = << Statement("CREATE", o, Safe, {}) >>
    BY <1>4 DEF CreateReply, CreateSchema, Reply
  <2> QED
    BY <1>2, <2>1, TheStatements, GatesAndAspects, OneStatement DEF IsReply, ResolveResults
<1>5. CASE TypeOf[o] = "TABLE"
  <2>1. CreateReply(o).statements =
          << Statement("CREATE", o, Safe, {"search"}), Statement("ALTER", o, Unsafe, {"search"}) >>
    BY <1>5 DEF CreateReply, CreateTable, Reply
  <2>2. {"search"} \in SUBSET AspectsOf(TypeOf[o])
    BY <1>5 DEF AspectsOf
  <2> QED
    BY <1>2, <2>1, <2>2, TheStatements, GatesAndAspects, TwoStatements DEF IsReply, ResolveResults
<1>6. CASE TypeOf[o] = "FUNCTION"
  <2>1. CreateReply(o).statements =
          << Statement("REPLACE", o, Safe, {"body"}), Statement("ALTER", o, Safe, {"body"}) >>
    BY <1>6 DEF CreateReply, CreateFunction, Reply
  <2>2. {"body"} \in SUBSET AspectsOf(TypeOf[o])
    BY <1>6 DEF AspectsOf
  <2> QED
    BY <1>2, <2>1, <2>2, TheStatements, GatesAndAspects, TwoStatements DEF IsReply, ResolveResults
<1>7. CASE TypeOf[o] = "PRIMARY_KEY"
  <2>1. CreateReply(o).statements = << Statement("CREATE", o, Safe, {}) >>
    BY <1>7 DEF CreateReply, CreatePrimaryKey, Reply
  <2> QED
    BY <1>2, <2>1, TheStatements, GatesAndAspects, OneStatement DEF IsReply, ResolveResults
<1>8. CASE TypeOf[o] = "VIEW"
  <2>1. CreateReply(o).statements =
          << Statement("REPLACE", o, Safe, {"comment"}), Statement("ALTER", o, Safe, {"comment"}) >>
    BY <1>8 DEF CreateReply, CreateView, Reply
  <2>2. {"comment"} \in SUBSET AspectsOf(TypeOf[o])
    BY <1>8 DEF AspectsOf
  <2> QED
    BY <1>2, <2>1, <2>2, TheStatements, GatesAndAspects, TwoStatements DEF IsReply, ResolveResults
<1> QED
  BY <1>1, <1>3, <1>4, <1>5, <1>6, <1>7, <1>8 DEF Types

LEMMA CompareIsReply ==
  ASSUME NEW o \in Objects
  PROVE  IsReply(o, CompareReply(o)) /\ CompareReply(o).result # "DROP"
<1> DEFINE d == existing[o]
<1>1. TypeOf[o] \in Types
  BY ResolverAssumption
<1>2. \A q : Altered(q).result # "DROP"
  BY DEF Altered, Reply
<1>3. IsReply(o, Reply("NOCHANGE", <<>>)) /\ IsReply(o, Reply("UNSUPPORTED", <<>>))
  BY NoStatement DEF IsReply, Reply, ResolveResults
<1>4. /\ Reply("NOCHANGE", <<>>).result # "DROP" /\ Reply("UNSUPPORTED", <<>>).result # "DROP"
      /\ \A q : Reply("REPLACE", q).result # "DROP" /\ Reply("ALTER", q).result # "DROP"
  BY DEF Reply
<1>5. CASE TypeOf[o] = "DATABASE"
  <2>1. AlterIf(o, d, "attribute", Unsafe) \o AlterIf(o, d, "comment", Unsafe)
          \in Seq(StatementsOf(o))
    BY OneAlter, GatesAndAspects, Joined
  <2> QED
    BY <1>2, <1>3, <1>4, <1>5, <2>1, AlteredIsReply DEF CompareReply, CompareDatabase
<1>6. CASE TypeOf[o] = "SCHEMA"
  <2>1. AlterIf(o, d, "attribute", Unsafe) \o AlterIf(o, d, "comment", Safe)
          \in Seq(StatementsOf(o))
    BY OneAlter, GatesAndAspects, Joined
  <2> QED
    BY <1>2, <1>3, <1>4, <1>6, <2>1, AlteredIsReply DEF CompareReply, CompareSchema
<1>7. CASE TypeOf[o] = "TABLE"
  <2> DEFINE alters == AlterIf(o, d, "comment", Safe) \o AlterIf(o, d, "attribute", Unsafe)
                         \o AlterIf(o, d, "search", Unsafe)
             pair == << Statement("REPLACE", o, ReplaceTable, {"search"}),
                        Statement("ALTER", o, ReplaceTable, {"search"}) >>
  <2>1. alters \in Seq(StatementsOf(o))
    BY OneAlter, GatesAndAspects, Joined
  <2>2. {"search"} \in SUBSET AspectsOf(TypeOf[o])
    BY <1>7 DEF AspectsOf
  <2>3. pair \in Seq(StatementsOf(o))
    BY <2>2, TheStatements, GatesAndAspects, TwoStatements
  <2>4. IsReply(o, Reply("REPLACE", pair))
    BY <2>3 DEF IsReply, Reply, ResolveResults
  <2> QED
    BY <1>2, <1>4, <1>7, <2>1, <2>4, AlteredIsReply DEF CompareReply, CompareTable
<1>8. CASE TypeOf[o] = "FUNCTION"
  <2>1. IsReply(o, Reply("REPLACE", CreateFunction(o).statements))
    BY <1>8, CreateIsReply DEF CreateReply, IsReply, Reply, ResolveResults
  <2> QED
    BY <1>3, <1>4, <1>8, <2>1 DEF CompareReply, CompareFunction
<1>9. CASE TypeOf[o] = "PRIMARY_KEY"
  <2>1. << Statement("DROP", o, Safe, {}), Statement("CREATE", o, Safe, {}) >>
          \in Seq(StatementsOf(o))
    BY TheStatements, GatesAndAspects, TwoStatements
  <2>2. IsReply(o, Reply("ALTER", << Statement("DROP", o, Safe, {}),
                                     Statement("CREATE", o, Safe, {}) >>))
    BY <2>1 DEF IsReply, Reply, ResolveResults
  <2> QED
    BY <1>3, <1>4, <1>9, <2>2 DEF CompareReply, ComparePrimaryKey
<1>10. CASE TypeOf[o] = "VIEW"
  <2>1. IsReply(o, Reply("REPLACE", CreateView(o).statements))
    BY <1>10, CreateIsReply DEF CreateReply, IsReply, Reply, ResolveResults
  <2>2. AlterIf(o, d, "comment", Safe) \in Seq(StatementsOf(o))
    BY OneAlter, GatesAndAspects
  <2> QED
    BY <1>2, <1>4, <1>10, <2>1, <2>2, AlteredIsReply DEF CompareReply, CompareView
<1> QED
  BY <1>1, <1>5, <1>6, <1>7, <1>8, <1>9, <1>10 DEF Types

\* Whatever a worker is asked to do.
LEMMA AnyReply ==
  ASSUME NEW o \in Objects, pc \in {"drop", "create"}
  PROVE  /\ IsReply(o, ReplyFor(o))
         /\ pc = "drop" => ReplyFor(o) = DropReply(o)
         /\ pc = "create" => ReplyFor(o) = IF o \in DOMAIN existing THEN CompareReply(o)
                                                                   ELSE CreateReply(o)
<1>1. CASE pc = "drop"
  BY <1>1, DropIsReply DEF ReplyFor
<1>2. CASE pc = "create" /\ o \in DOMAIN existing
  BY <1>2, CompareIsReply DEF ReplyFor
<1>3. CASE pc = "create" /\ o \notin DOMAIN existing
  BY <1>3, CreateIsReply DEF ReplyFor
<1> QED
  BY <1>1, <1>2, <1>3

-----------------------------------------------------------------------------
(* What a statement does to the account.                                   *)

LEMMA StatementKeepsAccount ==
  ASSUME AccountIsSound, NEW s, s.op \in {"CREATE", "REPLACE", "ALTER", "DROP"},
         s.obj \in Objects,
         s.op \in {"CREATE", "REPLACE"} => s.aspects \in SUBSET AspectsOf(TypeOf[s.obj]),
         IsLegal(s), live' = LiveAfter(s), drift' = DriftAfter(s)
  PROVE  AccountIsSound'
<1>1. /\ live \subseteq Objects /\ \A o \in live : Within[o] \subseteq live
      /\ drift \in [Objects -> SUBSET Aspects]
      /\ \A o \in Objects : drift[o] \subseteq AspectsOf(TypeOf[o])
  BY DEF AccountIsSound
<1>2. /\ s.obj \in Databases => PublicOf[s.obj] \in Objects /\ Within[PublicOf[s.obj]] = {s.obj}
      /\ \A o \in Objects : \A h \in Within[o] : h \in Objects /\ Within[h] \subseteq Within[o]
      /\ s.obj \notin Within[s.obj]
  BY ResolverAssumption, NotInItself DEF Schemas
<1>3. live' \subseteq Objects
  BY <1>1, <1>2 DEF LiveAfter
<1>4. ASSUME NEW o \in live', NEW h \in Within[o] PROVE h \in live'
  <2>1. o \in Objects
    BY <1>3, <1>4
  <2>2. CASE s.op = "CREATE"
    <3>1. Within[s.obj] \subseteq live /\ live' = LiveAfter(s)
      BY <2>2 DEF IsLegal
    <3> QED
      BY <1>1, <1>2, <1>4, <2>2, <3>1 DEF LiveAfter
  <2>3. CASE s.op = "REPLACE" \/ s.op = "DROP"
    <3>1. s.op = "REPLACE" => Within[s.obj] \subseteq live
      BY DEF IsLegal
    <3>2. h \in live \/ h = s.obj
      BY <1>1, <1>4, <2>3, <3>1 DEF LiveAfter
    <3>3. h \notin Inside(s.obj)
      <4> SUFFICES ASSUME h \in Inside(s.obj) PROVE FALSE
        OBVIOUS
      <4>1. s.obj \in Within[h]
        BY DEF Inside
      <4>2. s.obj \in Within[o]
        BY <1>2, <1>4, <2>1, <4>1
      <4>3. o \in Inside(s.obj)
        BY <2>1, <4>2 DEF Inside
      <4>4. o = s.obj
        BY <1>4, <2>3, <4>3 DEF LiveAfter
      <4> QED
        BY <1>2, <4>2, <4>4
    <3>4. s.op = "DROP" => h # s.obj
      <4> SUFFICES ASSUME s.op = "DROP", h = s.obj PROVE FALSE
        OBVIOUS
      <4>1. o \in Inside(s.obj)
        BY <1>4, <2>1 DEF Inside
      <4> QED
        BY <1>4, <4>1 DEF LiveAfter
    <3> QED
      BY <2>3, <3>2, <3>3, <3>4 DEF LiveAfter
  <2>4. CASE s.op = "ALTER"
    BY <1>1, <1>4, <2>4 DEF LiveAfter
  <2> QED
    BY <2>2, <2>3, <2>4
<1>5. drift' \in [Objects -> SUBSET Aspects] /\ \A o \in Objects : drift'[o] \subseteq AspectsOf(TypeOf[o])
  <2>1. ASSUME NEW o \in Objects
        PROVE  drift'[o] \subseteq AspectsOf(TypeOf[o])
    <3>1. drift'[o] = IF o \notin LiveAfter(s) THEN {}
                      ELSE IF o = s.obj
                           THEN IF s.op = "ALTER" THEN drift[o] \ s.aspects ELSE s.aspects
                           ELSE drift[o]
      BY <2>1 DEF DriftAfter
    <3>2. o = s.obj /\ s.op = "DROP" => o \notin LiveAfter(s)
      BY DEF LiveAfter
    <3> QED
      BY <1>1, <2>1, <3>1, <3>2
  <2>2. \A o \in Objects : drift'[o] \in SUBSET Aspects
    BY <2>1, ComparedAspects
  <2>3. drift' = [o \in Objects |-> drift'[o]]
    BY DEF DriftAfter
  <2> QED
    BY <2>1, <2>2, <2>3
<1> QED
  BY <1>3, <1>4, <1>5 DEF AccountIsSound

\* A statement for n leaves all other objects alone whose turn is not later.
LEMMA OthersStay ==
  ASSUME NEW n \in Objects, NEW s \in StatementsOf(n), NEW o \in Objects, o # n,
         NEW i \in Turns, NEW j \in Turns, Handles(i, n), Handles(j, o), j <= i
  PROVE  /\ o \in LiveAfter(s) <=> o \in live
         /\ o \in live => DriftAfter(s)[o] = drift[o]
<1>1. /\ s.op \in {"CREATE", "REPLACE", "ALTER", "DROP"}
      /\ s.op # "DROP" => s.obj = n
      /\ s.obj = n \/ (n \in Databases /\ s.obj = PublicOf[n])
  BY StatementIsSound
<1>2. o \notin Inside(n)
  BY NothingEarlierInside
<1>3. n \in Databases => o # PublicOf[n] /\ o \notin Inside(PublicOf[n])
  BY PublicIsLater
<1>4. o # s.obj /\ o \notin Inside(s.obj)
  BY <1>1, <1>2, <1>3
<1>5. o \in LiveAfter(s) <=> o \in live
  BY <1>1, <1>3, <1>4 DEF LiveAfter
<1> QED
  BY <1>4, <1>5 DEF DriftAfter

-----------------------------------------------------------------------------
(* Every step preserves the invariant.                                     *)

\* Turns depend on the invocation and the configuration only.
LEMMA SameTurns ==
  ASSUME scenario' = scenario, inv' = inv
  PROVE  /\ Invocation' = Invocation /\ Invocations' = Invocations /\ config' = config
         /\ Sequence' = Sequence /\ Turns' = Turns
         /\ \A i, o : Handles(i, o)' <=> Handles(i, o)
         /\ idx' = idx => /\ Resolver' = Resolver /\ ResolverType' = ResolverType
                          /\ \A o : Handles(idx, o)' <=> Handles(idx, o)
<1>1. Invocation' = Invocation /\ Invocations' = Invocations /\ config' = config
  BY DEF Invocation, Invocations, config
<1>2. Sequence' = Sequence
  BY <1>1 DEF Sequence, ResolveSequence, DestroySequence
<1> QED
  BY <1>1, <1>2 DEF Turns, Handles, TypeAt, IsDependent, Resolver, ResolverType

LEMMA SameProgress ==
  ASSUME Progress, UNCHANGED <<scenario, inv, pc, idx, history>>,
         executed' \subseteq Issued, suggested' \subseteq Issued
  PROVE  Progress'
  BY SameTurns DEF Progress, IsResolving

LEMMA SameAccount ==
  ASSUME UNCHANGED account
  PROVE  LoadedCache' = LoadedCache /\ (AccountIsSound => AccountIsSound')
  BY DEF account, LoadedCache, AccountIsSound

LEMMA WhileResolving ==
  ASSUME CacheInv, IsResolving
  PROVE  /\ idx \in Turns /\ Resolver = Sequence[idx] /\ ResolverType = TypeAt(idx)
         /\ pc # "start"
<1>1. idx \in Turns
  BY DEF CacheInv, Progress, Turns
<1> QED
  BY <1>1, TheResolver DEF IsResolving

\* A task is given a statement or result by a worker.
LEMMA WorkKeepsInv ==
  ASSUME CacheInv, NEW o \in DOMAIN task, NEW t, task' = [task EXCEPT ![o] = t], IsTask(o, t),
         task[o].result # "NOCHANGE" => t.result # "NOCHANGE",
         UNCHANGED <<scenario, inv, pc, idx, cache, remaining, intention, results, outside, history>>,
         executed' \subseteq Issued, suggested' \subseteq Issued, AccountIsSound',
         \/ LoadedCache' = LoadedCache
         \/ Resolver \in {"DATABASE", "SCHEMA"} /\ t.result # "NOCHANGE"
  PROVE  CacheInv'
<1>1. /\ DOMAIN task' = DOMAIN task /\ task'[o] = t
      /\ \A n \in DOMAIN task \ {o} : task'[n] = task[n]
  OBVIOUS
<1>2. /\ Invocation' = Invocation /\ config' = config /\ Turns' = Turns /\ Resolver' = Resolver
      /\ ResolverType' = ResolverType
      /\ \A i, n : Handles(i, n)' <=> Handles(i, n)
      /\ \A n : Handles(idx, n)' <=> Handles(idx, n)
  BY SameTurns
<1>3. Progress'
  BY SameProgress DEF CacheInv
<1>4. TasksAreSound'
  BY <1>1, <1>2 DEF CacheInv, TasksAreSound, IsResolving
<1>5. EachToItsOwn'
  BY <1>1, <1>2 DEF CacheInv, EachToItsOwn, IsResolving
<1>6. CacheOrResult'
  <2> SUFFICES ASSUME pc # "start", inv \notin outside
               PROVE  CacheOrResult'
    BY DEF CacheOrResult
  <2>1. IsResolving /\ IsResolving'
    BY DEF CacheInv, TasksAreSound, IsResolving
  <2>2. ResolverChanged' <=> ResolverChanged
    BY <1>2 DEF ResolverChanged
  <2>3. CASE t.result # "NOCHANGE" /\ Resolver \in {"DATABASE", "SCHEMA"}
    BY <1>1, <1>2, <2>1, <2>3 DEF CacheOrResult
  <2>4. CASE LoadedCache' = LoadedCache
    <3>1. CASE cache = LoadedCache
      BY <2>4, <3>1 DEF CacheOrResult
    <3>2. CASE Resolver \in {"DATABASE", "SCHEMA"} /\ ResolverChanged
      BY <1>2, <2>1, <2>2, <3>2 DEF CacheOrResult
    <3>3. CASE /\ Resolver \in {"DATABASE", "SCHEMA"}
               /\ \E n \in DOMAIN task : task[n].result # "NOCHANGE"
      <4>1. \E n \in DOMAIN task' : task'[n].result # "NOCHANGE"
        BY <1>1, <3>3
      <4> QED
        BY <1>2, <2>1, <3>3, <4>1 DEF CacheOrResult
    <3> QED
      BY <3>1, <3>2, <3>3 DEF CacheInv, CacheOrResult
  <2> QED
    BY <2>3, <2>4
<1> QED
  BY <1>3, <1>4, <1>5, <1>6 DEF CacheInv

LEMMA StartTaskKeepsCache == ASSUME CacheInv, NEW o \in Objects, StartTask(o) PROVE CacheInv'
<1> DEFINE reply == ReplyFor(o)
           t == [stage |-> "running", result |-> reply.result, statements |-> reply.statements]
<1>1. /\ o \in DOMAIN task /\ task' = [task EXCEPT ![o] = t] /\ task[o].stage = "queued"
      /\ UNCHANGED <<scenario, account, inv, pc, idx, cache, remaining, intention, results,
                     outside, history, executed, suggested>>
  BY DEF StartTask
<1>2. pc \in {"drop", "create"}
  BY <1>1 DEF CacheInv, TasksAreSound, IsResolving
<1>3. IsTask(o, t)
  BY <1>2, AnyReply DEF IsReply, IsTask
<1>4. task[o].result = "NOCHANGE"
  BY <1>1 DEF CacheInv, TasksAreSound, IsTask
<1>5. AccountIsSound' /\ LoadedCache' = LoadedCache
  BY <1>1, SameAccount DEF CacheInv
<1>6. executed' \subseteq Issued /\ suggested' \subseteq Issued
  BY <1>1 DEF CacheInv, Progress
<1>7. task[o].result # "NOCHANGE" => t.result # "NOCHANGE"
  BY <1>4
<1> HIDE DEF t, reply
<1> QED
  BY <1>1, <1>3, <1>5, <1>6, <1>7, WorkKeepsInv

\* The next statement of a task, and what is left after it.
LEMMA NextStatement ==
  ASSUME CacheInv, NEW o \in Objects, HasStatement(o)
  PROVE  /\ o \in DOMAIN task /\ task[o].stage = "running" /\ task[o].statements # <<>>
         /\ Head(task[o].statements) \in StatementsOf(o) /\ task[o].result # "NOCHANGE"
         /\ IsResolving /\ Handles(idx, o) /\ idx \in Turns
         /\ IsTask(o, [task[o] EXCEPT !.statements = Tail(@)])
         /\ [task[o] EXCEPT !.statements = Tail(@)].result = task[o].result
<1>1. o \in DOMAIN task /\ task[o].stage = "running" /\ task[o].statements # <<>>
  BY DEF HasStatement
<1>2. IsTask(o, task[o])
  BY <1>1 DEF CacheInv, TasksAreSound
<1>3. IsResolving
  BY <1>1 DEF CacheInv, TasksAreSound
<1>4. Handles(idx, o)
  BY <1>1, <1>3, WhileResolving DEF CacheInv, EachToItsOwn
<1>5. task[o].statements \in Seq(StatementsOf(o)) /\ task[o].result # "NOCHANGE"
  BY <1>1, <1>2 DEF IsTask
<1>6. /\ Head(task[o].statements) \in StatementsOf(o)
      /\ Tail(task[o].statements) \in Seq(StatementsOf(o))
  BY <1>1, <1>5, HeadAndTail
<1>7. IsTask(o, [task[o] EXCEPT !.statements = Tail(@)])
  BY <1>1, <1>2, <1>5, <1>6 DEF IsTask
<1>8. [task[o] EXCEPT !.statements = Tail(@)].result = task[o].result
  BY <1>2 DEF IsTask
<1> QED
  BY <1>1, <1>3, <1>4, <1>5, <1>6, <1>7, <1>8, WhileResolving

LEMMA AdvanceIsWork ==
  ASSUME NEW o \in DOMAIN task, Advance(o)
  PROVE  task' = [task EXCEPT ![o] = [task[o] EXCEPT !.statements = Tail(@)]]
  BY DEF Advance

LEMMA SuggestKeepsCache == ASSUME CacheInv, NEW o \in Objects, Suggest(o) PROVE CacheInv'
<1> DEFINE s == Head(task[o].statements)
           t == [task[o] EXCEPT !.statements = Tail(@)]
<1>1. /\ HasStatement(o) /\ Advance(o) /\ suggested' = suggested \cup {s}
      /\ UNCHANGED <<scenario, account, inv, pc, idx, cache, remaining, intention, results,
                     outside, history, executed>>
  BY DEF Suggest
<1>2. /\ o \in DOMAIN task /\ s \in StatementsOf(o) /\ IsTask(o, t)
      /\ task[o].result # "NOCHANGE" /\ t.result = task[o].result
  BY <1>1, NextStatement
<1>3. task' = [task EXCEPT ![o] = t]
  BY <1>1, <1>2, AdvanceIsWork
<1>4. AccountIsSound' /\ LoadedCache' = LoadedCache
  BY <1>1, SameAccount DEF CacheInv
<1>5. executed \subseteq Issued /\ suggested' \subseteq Issued
  BY <1>1, <1>2, StatementIsSound DEF CacheInv, Progress
<1> HIDE DEF t
<1> QED
  BY <1>1, <1>2, <1>3, <1>4, <1>5, WorkKeepsInv

\* Resolvers of schema objects leave databases and schemas alone.
LEMMA ContainersStay ==
  ASSUME CacheInv, NEW n \in Objects, NEW s \in StatementsOf(n), Handles(idx, n), idx \in Turns,
         Resolver \notin {"DATABASE", "SCHEMA"}, live' = LiveAfter(s), drift' = DriftAfter(s)
  PROVE  LoadedCache' = LoadedCache
<1>1. ASSUME NEW c \in Containers
      PROVE  (c \in live' <=> c \in live) /\ (c \in live => drift'[c] = drift[c])
  <2>1. c \in Objects /\ TypeOf[c] \in {"DATABASE", "SCHEMA"}
    BY DEF Containers, Databases, Schemas
  <2>2. PICK j \in {1, 2} : TypeOf[c] = TypeAt(j)
    BY <2>1, TheTurns
  <2>3. j \in Turns /\ Handles(j, c)
    BY <2>1, <2>2, TheTurns DEF Handles
  <2>4. idx \notin {1, 2} /\ idx \in 1..7
    BY TheResolver, TheTurns
  <2>5. j <= idx /\ j # idx
    BY <2>2, <2>4
  <2>6. c # n
    BY <2>3, <2>5, HandledOnce
  <2> QED
    BY <2>1, <2>3, <2>5, <2>6, OthersStay
<1>2. live' \cap Containers = live \cap Containers
  BY <1>1
<1>3. /\ LoadedCache = [o \in live \cap Containers |-> drift[o]]
      /\ LoadedCache' = [o \in live' \cap Containers |-> drift'[o]]
  BY DEF LoadedCache, Containers
<1> QED
  BY <1>1, <1>2, <1>3

LEMMA ExecuteKeepsCache == ASSUME CacheInv, NEW o \in Objects, Execute(o) PROVE CacheInv'
<1> DEFINE s == Head(task[o].statements)
           t == [task[o] EXCEPT !.statements = Tail(@)]
<1>1. /\ HasStatement(o) /\ Advance(o) /\ executed' = executed \cup {s}
      /\ IsLegal(s) /\ live' = LiveAfter(s) /\ drift' = DriftAfter(s)
      /\ UNCHANGED <<scenario, inv, pc, idx, cache, remaining, intention, results,
                     outside, history, suggested>>
  BY DEF Execute
<1>2. /\ o \in DOMAIN task /\ s \in StatementsOf(o) /\ IsTask(o, t)
      /\ task[o].result # "NOCHANGE" /\ t.result = task[o].result
      /\ Handles(idx, o) /\ idx \in Turns
  BY <1>1, NextStatement
<1>3. task' = [task EXCEPT ![o] = t]
  BY <1>1, <1>2, AdvanceIsWork
<1>4. AccountIsSound'
  <2>1. /\ s.op \in {"CREATE", "REPLACE", "ALTER", "DROP"} /\ s.obj \in Objects
        /\ s.op \in {"CREATE", "REPLACE"} => s.aspects \in SUBSET AspectsOf(TypeOf[s.obj])
    BY <1>2, StatementIsSound
  <2> QED
    BY <1>1, <2>1, StatementKeepsAccount DEF CacheInv
<1>5. executed' \subseteq Issued /\ suggested \subseteq Issued
  BY <1>1, <1>2, StatementIsSound DEF CacheInv, Progress
<1>6. LoadedCache' = LoadedCache \/ Resolver \in {"DATABASE", "SCHEMA"}
  BY <1>1, <1>2, ContainersStay
<1> HIDE DEF t
<1> QED
  BY <1>1, <1>2, <1>3, <1>4, <1>5, <1>6, WorkKeepsInv

LEMMA RaiseKeepsCache == ASSUME CacheInv, NEW o \in Objects, Raise(o) PROVE CacheInv'
<1> DEFINE t == [stage |-> "running", result |-> "ERROR", statements |-> <<>>]
<1>1. /\ o \in DOMAIN task /\ task' = [task EXCEPT ![o] = t]
      /\ UNCHANGED <<scenario, account, inv, pc, idx, cache, remaining, intention, results,
                     outside, history, executed, suggested>>
  BY DEF Raise, HasStatement
<1>2. IsTask(o, t) /\ t.result # "NOCHANGE"
  BY NoStatement DEF IsTask, ResolveResults
<1>3. AccountIsSound' /\ LoadedCache' = LoadedCache
  BY <1>1, SameAccount DEF CacheInv
<1>4. executed \subseteq Issued /\ suggested \subseteq Issued
  BY DEF CacheInv, Progress
<1> HIDE DEF t
<1> QED
  BY <1>1, <1>2, <1>3, <1>4, WorkKeepsInv

\* A result is collected: it takes the place of its task.
LEMMA CollectKeepsCache == ASSUME CacheInv, NEW o \in Objects, Collect(o) PROVE CacheInv'
<1>1. /\ o \in DOMAIN task /\ task' = [n \in DOMAIN task \ {o} |-> task[n]]
      /\ results' = [n \in DOMAIN results \cup {o} |->
                       IF n = o THEN task[o].result ELSE results[n]]
      /\ intention' \subseteq intention \cup {o}
      /\ UNCHANGED <<scenario, account, inv, pc, idx, cache, remaining, outside, history,
                     executed, suggested>>
  BY DEF Collect
<1>2. /\ Invocation' = Invocation /\ config' = config /\ Turns' = Turns /\ Resolver' = Resolver
      /\ ResolverType' = ResolverType
      /\ \A i, n : Handles(i, n)' <=> Handles(i, n)
      /\ \A n : Handles(idx, n)' <=> Handles(idx, n)
  BY <1>1, SameTurns
<1>3. IsResolving
  BY <1>1 DEF CacheInv, TasksAreSound
<1>4. Handles(idx, o) /\ o \notin DOMAIN results /\ idx \in Turns
  BY <1>1, <1>3, WhileResolving DEF CacheInv, EachToItsOwn
<1>5. Progress'
  BY <1>1, SameProgress DEF CacheInv, Progress
<1>6. AccountIsSound' /\ LoadedCache' = LoadedCache
  BY <1>1, SameAccount DEF CacheInv
<1>7. DOMAIN task' = DOMAIN task \ {o} /\ \A n \in DOMAIN task' : task'[n] = task[n]
  BY <1>1
<1>8. TasksAreSound'
  BY <1>1, <1>2, <1>7 DEF CacheInv, TasksAreSound, IsResolving
<1>9. DOMAIN results' = DOMAIN results \cup {o}
  BY <1>1
<1>10. EachToItsOwn'
  <2>1. ASSUME NEW n \in DOMAIN results'
        PROVE  n \in Objects /\ \E i \in Turns : Handles(i, n) /\ (i < idx \/ (i = idx /\ IsResolving))
    <3>1. CASE n = o
      BY <1>3, <1>4, <3>1
    <3>2. CASE n \in DOMAIN results
      BY <1>3, <3>2, WhileResolving DEF CacheInv, EachToItsOwn
    <3> QED
      BY <1>9, <2>1, <3>1, <3>2
  <2>2. DOMAIN results' \cap (DOMAIN task' \cup remaining') = {}
    BY <1>1, <1>3, <1>7, <1>9, WhileResolving DEF CacheInv, EachToItsOwn
  <2>3. DOMAIN task' \cap remaining' = {} /\ intention' \subseteq DOMAIN results'
    BY <1>1, <1>3, <1>7, <1>9, WhileResolving DEF CacheInv, EachToItsOwn
  <2>4. \A n \in DOMAIN task' \cup remaining' : Handles(idx, n)
    BY <1>1, <1>3, <1>7, WhileResolving DEF CacheInv, EachToItsOwn
  <2> QED
    BY <1>1, <1>2, <2>1, <2>2, <2>3, <2>4 DEF EachToItsOwn, IsResolving
<1>11. CacheOrResult'
  <2> SUFFICES ASSUME inv \notin outside
               PROVE  CacheOrResult'
    BY <1>1 DEF CacheOrResult
  <2>1. IsResolving' /\ pc # "start"
    BY <1>1, <1>3 DEF IsResolving
  <2>2. CASE cache = LoadedCache
    BY <1>1, <1>6, <2>2 DEF CacheOrResult
  <2>3. CASE Resolver \in {"DATABASE", "SCHEMA"} /\ ResolverChanged
    <3>1. ResolverChanged'
      <4>1. PICK n \in DOMAIN results : TypeOf[n] = ResolverType /\ results[n] # "NOCHANGE"
        BY <2>3 DEF ResolverChanged
      <4>2. n \in DOMAIN results' /\ results'[n] = results[n]
        BY <1>1, <1>4, <1>9
      <4> QED
        BY <1>2, <4>1, <4>2 DEF ResolverChanged
    <3> QED
      BY <1>2, <2>1, <2>3, <3>1 DEF CacheOrResult
  <2>4. CASE /\ Resolver \in {"DATABASE", "SCHEMA"}
             /\ \E n \in DOMAIN task : task[n].result # "NOCHANGE"
    <3>1. PICK n \in DOMAIN task : task[n].result # "NOCHANGE"
      BY <2>4
    <3>2. CASE n = o
      <4>1. TypeOf[o] = ResolverType
        BY <1>3, <1>4, WhileResolving DEF Handles
      <4>2. o \in DOMAIN results' /\ results'[o] # "NOCHANGE"
        BY <1>1, <1>9, <3>1, <3>2
      <4>3. ResolverChanged'
        BY <1>2, <4>1, <4>2 DEF ResolverChanged
      <4> QED
        BY <1>2, <2>1, <2>4, <4>3 DEF CacheOrResult
    <3>3. CASE n # o
      <4>1. n \in DOMAIN task' /\ task'[n].result # "NOCHANGE"
        BY <1>7, <3>1, <3>3
      <4> QED
        BY <1>2, <2>1, <2>4, <4>1 DEF CacheOrResult
    <3> QED
      BY <3>2, <3>3
  <2> QED
    BY <2>1, <2>2, <2>3, <2>4 DEF CacheInv, CacheOrResult
<1> QED
  BY <1>5, <1>6, <1>8, <1>10, <1>11 DEF CacheInv

LEMMA QueuedTasks ==
  ASSUME NEW S
  PROVE  /\ DOMAIN Queued(S) = S
         /\ \A o \in S : /\ IsTask(o, Queued(S)[o]) /\ Queued(S)[o].stage = "queued"
                         /\ Queued(S)[o].statements = <<>> /\ Queued(S)[o].result = "NOCHANGE"
<1>1. \A o \in S : Queued(S)[o] = [stage |-> "queued", result |-> "NOCHANGE", statements |-> <<>>]
  BY DEF Queued
<1> QED
  BY <1>1, NoStatement DEF Queued, IsTask, ResolveResults

\* What a resolver is going to work on is its own.
LEMMA OwnTargets ==
  ASSUME Progress, pc = "resolver", idx <= Len(Sequence)
  PROVE  /\ idx \in Turns
         /\ \A o \in DropTargets(ExistingObjects) : o \in Objects /\ Handles(idx, o)
         /\ \A o \in Batchable : o \in config.declared /\ Handles(idx, o)
         /\ Invocation.action # "destroy" => DropTargets(ExistingObjects) \cap Batchable = {}
<1>1. idx \in Turns
  BY DEF Progress, Turns
<1>2. Resolver = Sequence[idx] /\ ResolverType = TypeAt(idx)
  BY <1>1, TheResolver
<1>3. ASSUME NEW o \in DropTargets(ExistingObjects)
      PROVE  o \in Objects /\ Handles(idx, o)
    <2>1. o \in DOMAIN ExistingObjects
      BY <1>3 DEF DropTargets, ResolveDropTargets, DestroyDropTargets
    <2>2. o \in Objects /\ TypeOf[o] = ResolverType
      BY <2>1 DEF ExistingObjects, Typed
    <2>3. CASE TypeOf[o] # "FUNCTION"
      BY <1>2, <2>2, <2>3 DEF Handles
    <2>4. CASE TypeOf[o] = "FUNCTION" /\ Invocation.action = "destroy"
      <3>1. TypeAt(idx) = "FUNCTION"
        BY <1>2, <2>2, <2>4
      <3>2. idx \in {4, 7}
        BY <1>1, <3>1, TurnOfType
      <3>3. Len(Sequence) = 2
        BY <2>4, TheSequences DEF Sequence
      <3> QED
        BY <1>1, <3>2, <3>3 DEF Turns
    <2>5. CASE TypeOf[o] = "FUNCTION" /\ Invocation.action # "destroy"
      <3>1. o \in ResolveDropTargets(ExistingObjects)
        BY <1>3, <2>5 DEF DropTargets
      <3>2. Resolver # "VIEW_DEPENDENT_FUNCTION" /\ o \notin Blueprints
        BY <3>1 DEF ResolveDropTargets
      <3>3. o \notin config.declared
        BY <2>2, <3>2 DEF Blueprints
      <3> QED
        BY <1>2, <2>2, <3>2, <3>3 DEF Handles, IsDependent
    <2> QED
      BY <2>2, <2>3, <2>4, <2>5
<1>4. ASSUME NEW o \in Batchable
      PROVE  o \in config.declared /\ Handles(idx, o)
    <2>1. o \in Blueprints
      BY <1>4 DEF Batchable
    <2>2. /\ o \in config.declared /\ TypeOf[o] = TypeAt(idx)
          /\ Resolver = "VIEW_DEPENDENT_FUNCTION" => DependsOn[o] # {}
      BY <1>2, <2>1 DEF Blueprints
    <2>3. TypeOf[o] = "FUNCTION" =>
            (Resolver = "VIEW_DEPENDENT_FUNCTION" <=> IsDependent(o))
      <3>1. Resolver = "FUNCTION" => DependsOn[o] = {}
        BY <1>4 DEF Batchable
      <3>2. TypeOf[o] = "FUNCTION" => Resolver \in {"FUNCTION", "VIEW_DEPENDENT_FUNCTION"}
        BY <1>2, <2>2 DEF TypeAt
      <3> QED
        BY <2>2, <3>1, <3>2 DEF IsDependent
    <2> QED
      BY <1>2, <2>2, <2>3 DEF Handles
<1>5. Invocation.action # "destroy" => DropTargets(ExistingObjects) \cap Batchable = {}
  BY DEF DropTargets, ResolveDropTargets, Batchable
<1> QED
  BY <1>1, <1>3, <1>4, <1>5

LEMMA BeginKeepsCache == ASSUME CacheInv, Begin PROVE CacheInv'
<1> DEFINE targets == DropTargets(ExistingObjects)
<1>1. /\ pc = "resolver" /\ idx <= Len(Sequence) /\ task' = Queued(targets) /\ pc' = "drop"
      /\ remaining' = IF Invocation.action = "destroy" THEN {} ELSE Batchable
      /\ UNCHANGED <<scenario, account, inv, idx, cache, intention, results, executed,
                     suggested, outside, history>>
  BY DEF Begin, DropTargets, ResolveDropTargets, DestroyDropTargets, ImplicitDropIntention
<1>2. /\ Invocation' = Invocation /\ Invocations' = Invocations /\ config' = config
      /\ Turns' = Turns /\ Sequence' = Sequence
      /\ \A i, n : Handles(i, n)' <=> Handles(i, n)
      /\ \A n : Handles(idx, n)' <=> Handles(idx, n)
  BY <1>1, SameTurns
<1>3. Progress'
  BY <1>1, <1>2 DEF CacheInv, Progress, IsResolving
<1>4. AccountIsSound' /\ LoadedCache' = LoadedCache
  BY <1>1, SameAccount DEF CacheInv
<1>5. /\ idx \in Turns /\ \A o \in targets : o \in Objects /\ Handles(idx, o)
      /\ \A o \in Batchable : o \in config.declared /\ Handles(idx, o)
      /\ Invocation.action # "destroy" => targets \cap Batchable = {}
  BY <1>1, OwnTargets DEF CacheInv
<1> HIDE DEF targets
<1>6. DOMAIN task' = targets /\ \A o \in targets : IsTask(o, task'[o])
  BY <1>1, QueuedTasks
<1>7. TasksAreSound'
  BY <1>1, <1>2, <1>5, <1>6 DEF TasksAreSound, IsResolving
<1>8. ASSUME NEW o \in DOMAIN results
      PROVE  /\ o \in Objects /\ \E i \in Turns : Handles(i, o) /\ i < idx
             /\ o \notin targets \cup remaining'
  <2>1. o \in Objects /\ \E i \in Turns : Handles(i, o) /\ i < idx
    BY <1>1, <1>8 DEF CacheInv, EachToItsOwn, IsResolving
  <2>2. ~Handles(idx, o)
    <3>1. PICK i \in Turns : Handles(i, o) /\ i < idx
      BY <2>1
    <3>2. i # idx
      BY <1>5, <3>1, TheTurns
    <3> QED
      BY <1>5, <3>1, <3>2, HandledOnce
  <2> QED
    BY <1>1, <1>5, <2>1, <2>2
<1>9. intention \subseteq DOMAIN results
  BY <1>1 DEF CacheInv, EachToItsOwn
<1>10. EachToItsOwn'
  BY <1>1, <1>2, <1>5, <1>6, <1>8, <1>9 DEF EachToItsOwn
<1>11. CacheOrResult'
  BY <1>1, <1>4 DEF CacheInv, CacheOrResult, IsResolving
<1> QED
  BY <1>3, <1>4, <1>7, <1>10, <1>11 DEF CacheInv

LEMMA BatchKeepsCache == ASSUME CacheInv, SubmitBatch PROVE CacheInv'
<1> DEFINE skipped == {o \in NextBatch : IsUnmanaged(o)}
           batch == NextBatch \ skipped
<1>1. /\ pc \in {"drop", "create"} /\ DOMAIN task = {} /\ remaining # {}
      /\ task' = Queued(batch) /\ remaining' = remaining \ NextBatch /\ pc' = "create"
      /\ results' = [n \in DOMAIN results \cup skipped |->
                       IF n \in skipped THEN "SKIP" ELSE results[n]]
      /\ UNCHANGED <<scenario, account, inv, idx, cache, intention, executed, suggested,
                     outside, history>>
  BY DEF SubmitBatch
<1>2. NextBatch \subseteq remaining /\ skipped \subseteq NextBatch /\ batch = NextBatch \ skipped
  BY DEF NextBatch
<1> HIDE DEF skipped, batch
<1>3. /\ Invocation' = Invocation /\ Invocations' = Invocations /\ config' = config
      /\ Turns' = Turns /\ Sequence' = Sequence /\ Resolver' = Resolver
      /\ ResolverType' = ResolverType
      /\ \A i, n : Handles(i, n)' <=> Handles(i, n)
      /\ \A n : Handles(idx, n)' <=> Handles(idx, n)
  BY <1>1, SameTurns
<1>4. Progress'
  BY <1>1, <1>3 DEF CacheInv, Progress, IsResolving
<1>5. AccountIsSound' /\ LoadedCache' = LoadedCache
  BY <1>1, SameAccount DEF CacheInv
<1>6. DOMAIN task' = batch /\ \A o \in batch : IsTask(o, task'[o])
  BY <1>1, QueuedTasks
<1>7. DOMAIN results' = DOMAIN results \cup skipped
  BY <1>1
<1>8. remaining \subseteq config.declared /\ config.declared \subseteq Objects
  BY ConfigIsSound DEF CacheInv, TasksAreSound, Progress
<1>9. pc # "start" /\ Invocation.action # "destroy" /\ IsResolving
  BY <1>1 DEF CacheInv, TasksAreSound, IsResolving
<1>10. TasksAreSound'
  BY <1>1, <1>2, <1>3, <1>6, <1>8, <1>9 DEF TasksAreSound, IsResolving
<1>11. /\ idx \in Turns /\ \A o \in remaining : Handles(idx, o)
       /\ \A o \in DOMAIN results :
            o \in Objects /\ \E i \in Turns : Handles(i, o) /\ (i < idx \/ (i = idx /\ IsResolving))
       /\ DOMAIN results \cap remaining = {} /\ intention \subseteq DOMAIN results
  BY <1>9, WhileResolving DEF CacheInv, EachToItsOwn
<1>12. EachToItsOwn'
  <2>1. ASSUME NEW n \in DOMAIN results'
        PROVE  n \in Objects /\ \E i \in Turns : Handles(i, n) /\ (i < idx \/ i = idx)
    <3>1. CASE n \in skipped
      BY <1>2, <1>8, <1>11, <3>1
    <3>2. CASE n \in DOMAIN results
      BY <1>11, <3>2
    <3> QED
      BY <1>7, <2>1, <3>1, <3>2
  <2>2. /\ DOMAIN results' \cap (DOMAIN task' \cup remaining') = {}
        /\ DOMAIN task' \cap remaining' = {} /\ intention' \subseteq DOMAIN results'
        /\ \A n \in DOMAIN task' \cup remaining' : Handles(idx, n)
    BY <1>1, <1>2, <1>6, <1>7, <1>11
  <2>3. IsResolving'
    BY <1>1 DEF IsResolving
  <2> QED
    BY <1>1, <1>3, <2>1, <2>2, <2>3 DEF EachToItsOwn
<1>13. CacheOrResult'
  <2>1. ResolverChanged => ResolverChanged'
    <3> SUFFICES ASSUME NEW n \in DOMAIN results, TypeOf[n] = ResolverType,
                        results[n] # "NOCHANGE"
                 PROVE  ResolverChanged'
      BY DEF ResolverChanged
    <3>1. n \in DOMAIN results' /\ results'[n] # "NOCHANGE"
      BY <1>1, <1>7
    <3> QED
      BY <1>3, <3>1 DEF ResolverChanged
  <2>2. inv \notin outside => cache = LoadedCache \/ (Resolver \in {"DATABASE", "SCHEMA"} /\ ResolverChanged)
    BY <1>1, <1>9 DEF CacheInv, CacheOrResult
  <2> QED
    BY <1>1, <1>3, <1>5, <2>1, <2>2 DEF CacheOrResult, IsResolving
<1> QED
  BY <1>4, <1>5, <1>10, <1>12, <1>13 DEF CacheInv

LEMMA FinishKeepsCache == ASSUME CacheInv, Finish PROVE CacheInv'
<1>1. /\ pc \in {"drop", "create"} /\ DOMAIN task = {} /\ remaining = {}
      /\ cache' = IF Resolver \in {"DATABASE", "SCHEMA"} /\ ResolverChanged
                  THEN LoadedCache ELSE cache
      /\ idx' = idx + 1 /\ pc' = "resolver"
      /\ UNCHANGED <<scenario, account, inv, remaining, task, intention, results, executed,
                     suggested, outside, history>>
  BY DEF Finish
<1>2. /\ Invocation' = Invocation /\ Invocations' = Invocations /\ config' = config
      /\ Turns' = Turns /\ Sequence' = Sequence
      /\ \A i, n : Handles(i, n)' <=> Handles(i, n)
  BY <1>1, SameTurns
<1>3. idx \in Turns /\ pc # "start" /\ IsResolving
  BY <1>1, WhileResolving DEF IsResolving
<1>4. Progress'
  BY <1>1, <1>2, <1>3 DEF CacheInv, Progress, IsResolving
<1>5. AccountIsSound' /\ LoadedCache' = LoadedCache
  BY <1>1, SameAccount DEF CacheInv
<1>6. TasksAreSound'
  BY <1>1, <1>2 DEF CacheInv, TasksAreSound, IsResolving
<1>7. ASSUME NEW n \in DOMAIN results
      PROVE  n \in Objects /\ \E i \in Turns : Handles(i, n) /\ i < idx'
  <2>1. n \in Objects /\ \E i \in Turns : Handles(i, n) /\ (i < idx \/ i = idx)
    BY <1>3, <1>7 DEF CacheInv, EachToItsOwn
  <2>2. \A i \in Turns : i < idx \/ i = idx => i < idx'
    BY <1>1, <1>3 DEF Turns
  <2> QED
    BY <2>1, <2>2
<1>8. EachToItsOwn'
  BY <1>1, <1>2, <1>3, <1>7 DEF CacheInv, EachToItsOwn
<1>9. CacheOrResult'
  BY <1>1, <1>3, <1>5 DEF CacheInv, CacheOrResult
<1> QED
  BY <1>4, <1>5, <1>6, <1>8, <1>9 DEF CacheInv

LEMMA SkipKeepsCache == ASSUME CacheInv, Skip PROVE CacheInv'
<1>1. /\ pc = "resolver" /\ idx <= Len(Sequence) /\ idx' = idx + 1
      /\ UNCHANGED <<scenario, account, inv, pc, cache, remaining, task, intention, results,
                     executed, suggested, outside, history>>
  BY DEF Skip
<1>2. /\ Invocation' = Invocation /\ Invocations' = Invocations /\ config' = config
      /\ Turns' = Turns /\ Sequence' = Sequence
      /\ \A i, n : Handles(i, n)' <=> Handles(i, n)
  BY <1>1, SameTurns
<1>3. idx \in Turns /\ ~IsResolving /\ ~IsResolving'
  BY <1>1 DEF CacheInv, Progress, Turns, IsResolving
<1>4. Progress'
  BY <1>1, <1>2, <1>3 DEF CacheInv, Progress, IsResolving, Turns
<1>5. AccountIsSound' /\ LoadedCache' = LoadedCache
  BY <1>1, SameAccount DEF CacheInv
<1>6. TasksAreSound'
  BY <1>1, <1>2, <1>3 DEF CacheInv, TasksAreSound
<1>7. ASSUME NEW n \in DOMAIN results
      PROVE  n \in Objects /\ \E i \in Turns : Handles(i, n) /\ i < idx'
  <2>1. n \in Objects /\ \E i \in Turns : Handles(i, n) /\ i < idx
    BY <1>1, <1>3, <1>7 DEF CacheInv, EachToItsOwn
  <2>2. \A i \in Turns : i < idx => i < idx'
    BY <1>1, <1>3 DEF Turns
  <2> QED
    BY <2>1, <2>2
<1>8. EachToItsOwn'
  <2>1. DOMAIN task = {} /\ remaining = {}
    BY <1>3 DEF CacheInv, TasksAreSound
  <2> QED
    BY <1>1, <1>2, <1>7, <2>1 DEF CacheInv, EachToItsOwn
<1>9. CacheOrResult'
  BY <1>1, <1>3, <1>5 DEF CacheInv, CacheOrResult
<1> QED
  BY <1>4, <1>5, <1>6, <1>8, <1>9 DEF CacheInv

LEMMA StartKeepsCache == ASSUME CacheInv, Start PROVE CacheInv'
<1>1. /\ pc = "start" /\ inv <= Len(Invocations) /\ pc' = "resolver" /\ idx' = 1
      /\ cache' = LoadedCache /\ intention' = {} /\ results' = EmptyMap /\ executed' = {}
      /\ suggested' = {}
      /\ UNCHANGED <<scenario, account, inv, remaining, task, outside, history>>
  BY DEF Start
<1>2. /\ Invocation' = Invocation /\ Invocations' = Invocations /\ config' = config
      /\ Sequence' = Sequence
  BY <1>1, SameTurns
<1>3. Progress'
  BY <1>1, <1>2, TheTurns DEF CacheInv, Progress, IsResolving
<1>4. AccountIsSound' /\ LoadedCache' = LoadedCache
  BY <1>1, SameAccount DEF CacheInv
<1>5. TasksAreSound' /\ DOMAIN task = {} /\ remaining = {}
  BY <1>1, <1>2 DEF CacheInv, TasksAreSound, IsResolving
<1>6. EachToItsOwn'
  BY <1>1, <1>5 DEF EachToItsOwn, EmptyMap
<1> QED
  BY <1>1, <1>3, <1>4, <1>5, <1>6 DEF CacheInv, CacheOrResult

\* The invocation ends, one way or another.
LEMMA EndKeepsCache ==
  ASSUME CacheInv, pc # "start", NEW exit \in {"success", "errors", "aborted"}, Record(exit),
         DOMAIN task' = {}, remaining' = {},
         UNCHANGED <<scenario, account, idx, executed, suggested>>
  PROVE  CacheInv'
<1> DEFINE r == [action |-> Invocation.action, exit |-> exit, settings |-> Settings,
                 executed |-> executed, suggested |-> suggested]
<1>1. history' = Append(history, r) /\ inv' = inv + 1 /\ pc' = "start"
  BY DEF Record
<1>2. r \in HistoryRecords
  <2>1. scenario.commands \in Seq(Command) /\ inv \in 1..Len(scenario.commands)
    BY ScenarioAssumption DEF CacheInv, Progress, ScenarioRecords, Invocations
  <2>2. Invocation \in Command
    BY <2>1 DEF Invocation, Invocations
  <2>3. Invocation.action \in {"plan", "apply", "destroy"}
    BY <2>2 DEF Command
  <2>4. Settings \subseteq Switches
    BY DEF Settings, Switches
  <2> QED
    BY <2>3, <2>4 DEF HistoryRecords, CacheInv, Progress
<1> HIDE DEF r
<1>3. history' \in Seq(HistoryRecords) /\ Len(history') = inv
  BY <1>1, <1>2 DEF CacheInv, Progress
<1>4. Progress'
  BY <1>1, <1>3 DEF CacheInv, Progress, IsResolving
<1>5. AccountIsSound'
  BY SameAccount DEF CacheInv
<1>6. TasksAreSound'
  BY <1>1 DEF TasksAreSound, IsResolving
<1> QED
  BY <1>1, <1>4, <1>5, <1>6 DEF CacheInv, EachToItsOwn, CacheOrResult

\* Someone else's DDL excuses the cache.
LEMMA OutsideKeepsCache ==
  ASSUME CacheInv, NEW o \in Objects, OutsideDrop(o) \/ OutsideCreate(o)
  PROVE  CacheInv'
<1>1. /\ inv \in outside'
      /\ UNCHANGED <<scenario, inv, pc, idx, cache, remaining, task, intention, results,
                     executed, suggested, history>>
  BY DEF OutsideDrop, OutsideCreate, Disturb
<1>2. PICK s : /\ s = Statement("DROP", o, {}, {}) \/ s = Statement("CREATE", o, {}, {})
               /\ IsLegal(s) /\ live' = LiveAfter(s) /\ drift' = DriftAfter(s)
  <2>1. CASE OutsideDrop(o)
    BY <2>1 DEF OutsideDrop, IsLegal, Statement
  <2>2. CASE OutsideCreate(o)
    BY <2>2 DEF OutsideCreate
  <2> QED
    BY <2>1, <2>2
<1>3. s.op \in {"CREATE", "DROP"} /\ s.obj = o /\ s.aspects = {}
  BY <1>2 DEF Statement
<1>4. AccountIsSound'
  BY <1>2, <1>3, StatementKeepsAccount DEF CacheInv
<1>5. Progress'
  BY <1>1, SameProgress DEF CacheInv, Progress
<1>6. /\ Invocation' = Invocation /\ config' = config /\ Turns' = Turns
      /\ \A i, n : Handles(i, n)' <=> Handles(i, n)
      /\ \A n : Handles(idx, n)' <=> Handles(idx, n)
  BY <1>1, SameTurns
<1>7. TasksAreSound'
  BY <1>1, <1>6 DEF CacheInv, TasksAreSound, IsResolving
<1>8. EachToItsOwn'
  BY <1>1, <1>6 DEF CacheInv, EachToItsOwn, IsResolving
<1> QED
  BY <1>1, <1>4, <1>5, <1>7, <1>8 DEF CacheInv, CacheOrResult

LEMMA StutterKeepsCache == ASSUME CacheInv, UNCHANGED vars PROVE CacheInv'
<1>1. UNCHANGED <<scenario, account, inv, pc, idx, cache, remaining, task, intention, results,
                  executed, suggested, outside, history>>
  BY DEF vars, account
<1>2. /\ Invocation' = Invocation /\ config' = config /\ Turns' = Turns /\ Resolver' = Resolver
      /\ ResolverType' = ResolverType
      /\ \A i, n : Handles(i, n)' <=> Handles(i, n)
      /\ \A n : Handles(idx, n)' <=> Handles(idx, n)
  BY <1>1, SameTurns
<1>3. Progress'
  BY <1>1, SameProgress DEF CacheInv, Progress
<1>4. AccountIsSound' /\ LoadedCache' = LoadedCache
  BY <1>1, SameAccount DEF CacheInv
<1>5. TasksAreSound' /\ EachToItsOwn'
  BY <1>1, <1>2 DEF CacheInv, TasksAreSound, EachToItsOwn, IsResolving
<1>6. CacheOrResult'
  BY <1>1, <1>2, <1>4 DEF CacheInv, CacheOrResult, ResolverChanged, IsResolving
<1> QED
  BY <1>3, <1>4, <1>5, <1>6 DEF CacheInv

LEMMA CacheInvInit == Init => CacheInv
<1> SUFFICES ASSUME Init PROVE CacheInv
  OBVIOUS
<1>1. /\ scenario \in Scenarios /\ live = scenario.live /\ drift = scenario.drift
      /\ inv = 1 /\ pc = "start" /\ idx = 1 /\ remaining = {} /\ task = EmptyMap
      /\ executed = {} /\ suggested = {} /\ history = <<>>
  BY DEF Init
<1>2. /\ scenario \in ScenarioRecords /\ \A o \in scenario.live : Within[o] \subseteq scenario.live
      /\ \A o \in Objects : scenario.drift[o] \subseteq AspectsOf(TypeOf[o])
  BY <1>1, ScenarioAssumption
<1>3. AccountIsSound
  BY <1>1, <1>2 DEF AccountIsSound, ScenarioRecords
<1>4. Progress
  BY <1>1 DEF Progress, IsResolving
<1>5. TasksAreSound
  BY <1>1 DEF TasksAreSound, IsResolving, EmptyMap
<1> QED
  BY <1>1, <1>3, <1>4, <1>5 DEF CacheInv, EachToItsOwn, CacheOrResult

LEMMA CacheInvStep == CacheInv /\ [Next]_vars => CacheInv'
<1> SUFFICES ASSUME CacheInv, [Next]_vars PROVE CacheInv'
  OBVIOUS
<1>1. CASE Worker
  BY <1>1, StartTaskKeepsCache, SuggestKeepsCache, ExecuteKeepsCache, RaiseKeepsCache DEF Worker
<1>2. ASSUME NEW o \in Objects, Collect(o) PROVE CacheInv'
  BY <1>2, CollectKeepsCache
<1>3. CASE Start \/ Skip \/ Begin \/ SubmitBatch \/ Finish
  BY <1>3, StartKeepsCache, SkipKeepsCache, BeginKeepsCache, BatchKeepsCache, FinishKeepsCache
<1>4. CASE Exit \/ AbortOnMissingSchema \/ AbortOnQueryFailure
  <2>1. /\ pc = "resolver" /\ DOMAIN task = {} /\ remaining = {}
        /\ UNCHANGED <<scenario, account, idx, executed, suggested, task, remaining>>
        /\ \E exit \in {"success", "errors", "aborted"} : Record(exit)
    BY <1>4 DEF Exit, AbortOnMissingSchema, AbortOnQueryFailure, CacheInv, TasksAreSound,
                IsResolving
  <2> QED
    BY <2>1, EndKeepsCache
<1>5. CASE Crash
  <2>1. /\ pc # "start" /\ Record("aborted") /\ DOMAIN task' = {} /\ remaining' = {}
        /\ UNCHANGED <<scenario, account, idx, executed, suggested>>
    BY <1>5 DEF Crash, EmptyMap
  <2> QED
    BY <2>1, EndKeepsCache
<1>6. CASE Outside
  BY <1>6, OutsideKeepsCache DEF Outside
<1>7. CASE UNCHANGED vars
  BY <1>7, StutterKeepsCache
<1> QED
  BY <1>1, <1>2, <1>3, <1>4, <1>5, <1>6, <1>7 DEF Next, Main, Faults, Idle

LEMMA CacheInvHolds == Spec => []CacheInv
  BY CacheInvInit, CacheInvStep, PTL DEF Spec

-----------------------------------------------------------------------------
(* What the schema cache promises.                                         *)

\* Resolvers of schema objects list exactly the schemas that exist
\* (CacheIsFresh): whichever results the resolvers of databases and schemas
\* had, the cache is reloaded when they changed anything (_post_process), and
\* nobody after them creates or drops one.
THEOREM SchemasAreKnown == Spec => []CacheIsFresh
<1>1. CacheInv => CacheIsFresh
  BY DEF CacheInv, CacheOrResult, CacheIsFresh, IsResolving, LoadedCache
<1> QED
  BY <1>1, CacheInvHolds, PTL

-----------------------------------------------------------------------------
(* What an exit code of 0 means.  The rest of this module follows one      *)
(* invocation which nobody disturbs and which has met no error so far:     *)
(* resolvers that are done left their objects as they should be, later     *)
(* ones do not touch those again, and the resolver that runs has a task,   *)
(* or will have one, for each object that is not yet so.                   *)
(*                                                                         *)
(* For the plan after it, being as declared is not enough: a view is       *)
(* compared by whether Snowflake can still describe it, so what it uses    *)
(* must be there too, and the resolvers which come after that of views     *)
(* must leave it alone.                                                    *)

-----------------------------------------------------------------------------
(* The inductive invariant about an invocation without errors.             *)

\* The invocation may still end in a success that counts.
IsPromising ==
  /\ pc # "start" /\ inv \notin outside /\ IsWhole(inv)
  /\ \/ Invocation.action = "apply" /\ Settings = Switches
     \/ Invocation.action = "destroy"
  /\ \A o \in DOMAIN results : results[o] \notin {"ERROR", "UNSUPPORTED"}
  /\ \A o \in DOMAIN task : task[o].result \notin {"ERROR", "UNSUPPORTED"}

Applies == Invocation.action = "apply"

\* What stays in the account, and what must be there and without a drift.
Stays(o)     == Applies /\ (o \in config.declared \/ Tolerated(o))
IsManaged(o) == o \in config.declared /\ ~IsUnmanaged(o)
IsSettled(o) == o \in live /\ drift[o] = {}

\* A drop that has been queued or is still to be executed.
DropIsDue(o) ==
  o \in DOMAIN task /\ (task[o].stage = "queued" \/ task[o].statements = << DropOf(o) >>)

UnwantedGoes ==
  \A o \in live : \A i \in Turns : i <= idx /\ Handles(i, o) /\ ~Stays(o) =>
    i = idx /\ (pc = "resolver" \/ (pc = "drop" /\ DropIsDue(o)))

\* An intention never hides a drop that is needed.
IntentionsAreKept ==
  /\ \A o \in live : ~Stays(o) => Within[o] \cap intention = {}
  /\ pc = "drop" => \A o \in DOMAIN task :
       DropIsDue(o) \/ (task[o].statements = <<>> /\ o \notin live)
  /\ pc = "create" => \A o \in DOMAIN task :
       /\ task[o].result # "DROP"
       /\ task[o].result = "REPLACE" =>
            /\ o \notin Databases
            /\ \/ Inside(o) \cap live = {}
               \/ task[o].statements # <<>> /\ Head(task[o].statements).op = "REPLACE"

\* The row which a task will compare with is right.
IsListed(o) == /\ o \in live <=> o \in DOMAIN existing
               /\ o \in live => existing[o] = drift[o]

AltersOf(o) == [op : {"ALTER"}, obj : {o}, gate : SUBSET Switches, aspects : SUBSET Aspects]
Covered(q)  == UNION {q[k].aspects : k \in DOMAIN q}

NewKey(o) == Statement("CREATE", o, Safe, {})

\* These statements bring o in line with its blueprint.
Completes(o, q) ==
  \/ q \in Seq(AltersOf(o)) /\ o \in live /\ drift[o] \subseteq Covered(q)
  \/ /\ q # <<>> /\ Head(q) \in StatementsOf(o) /\ Head(q).op \in {"CREATE", "REPLACE"}
     /\ Tail(q) \in Seq(AltersOf(o)) /\ Head(q).aspects \subseteq Covered(Tail(q))
  \/ TypeOf[o] = "PRIMARY_KEY" /\ q = << DropOf(o), NewKey(o) >>
  \/ TypeOf[o] = "DATABASE" /\ q = << NewDatabase(o), DropPublic(o) >>
  \/ TypeOf[o] = "DATABASE" /\ q = << DropPublic(o) >> /\ IsSettled(o)

IsDue(o) ==
  \/ o \in remaining /\ IsListed(o)
  \/ /\ o \in DOMAIN task
     /\ \/ task[o].stage = "queued" /\ IsListed(o)
        \/ task[o].stage = "running" /\ Completes(o, task[o].statements)

DeclaredComes ==
  Applies => \A o \in config.declared : \A i \in Turns :
    i <= idx /\ Handles(i, o) /\ IsManaged(o) =>
      \/ i = idx /\ (pc = "resolver" \/ IsDue(o))
      \/ o \notin DOMAIN task \cup remaining /\ IsSettled(o)

AllIsWell == UnwantedGoes /\ IntentionsAreKept /\ DeclaredComes

SuccessInv == (IsPromising => AllIsWell) /\ SuccessMeansInStep /\ DestroyLeavesNothing

-----------------------------------------------------------------------------
(* What sequences of statements complete.                                  *)

LEMMA NothingCovered == Covered(<<>>) = {}
  BY DEF Covered

LEMMA OneCovered == ASSUME NEW s PROVE Covered(<< s >>) = s.aspects
<1>1. DOMAIN << s >> = {1} /\ << s >>[1] = s
  OBVIOUS
<1> QED
  BY <1>1 DEF Covered

LEMMA JoinedCover ==
  ASSUME NEW S, NEW q \in Seq(S), NEW r \in Seq(S)
  PROVE  Covered(q \o r) = Covered(q) \cup Covered(r)
<1>1. /\ Len(q) \in Nat /\ Len(r) \in Nat
      /\ DOMAIN (q \o r) = 1..(Len(q) + Len(r)) /\ DOMAIN q = 1..Len(q) /\ DOMAIN r = 1..Len(r)
      /\ \A k \in 1..(Len(q) + Len(r)) :
           (q \o r)[k] = IF k <= Len(q) THEN q[k] ELSE r[k - Len(q)]
  OBVIOUS
<1>2. ASSUME NEW a \in Covered(q \o r) PROVE a \in Covered(q) \cup Covered(r)
  <2>1. PICK k \in 1..(Len(q) + Len(r)) : a \in (q \o r)[k].aspects
    BY <1>1, <1>2 DEF Covered
  <2>2. CASE k <= Len(q)
    <3>1. k \in DOMAIN q /\ a \in q[k].aspects
      BY <1>1, <2>1, <2>2
    <3> QED
      BY <3>1 DEF Covered
  <2>3. CASE ~(k <= Len(q))
    <3>1. k - Len(q) \in DOMAIN r /\ a \in r[k - Len(q)].aspects
      BY <1>1, <2>1, <2>3
    <3> QED
      BY <3>1 DEF Covered
  <2> QED
    BY <2>2, <2>3
<1>3. ASSUME NEW a \in Covered(q) PROVE a \in Covered(q \o r)
  <2>1. PICK k \in DOMAIN q : a \in q[k].aspects
    BY <1>3 DEF Covered
  <2>2. k \in DOMAIN (q \o r) /\ (q \o r)[k] = q[k]
    BY <1>1
  <2> QED
    BY <2>1, <2>2 DEF Covered
<1>4. ASSUME NEW a \in Covered(r) PROVE a \in Covered(q \o r)
  <2>1. PICK k \in DOMAIN r : a \in r[k].aspects
    BY <1>4 DEF Covered
  <2>2. k + Len(q) \in DOMAIN (q \o r) /\ (q \o r)[k + Len(q)] = r[k]
    BY <1>1
  <2> QED
    BY <2>1, <2>2 DEF Covered
<1> QED
  BY <1>2, <1>3, <1>4

LEMMA RestCovers ==
  ASSUME NEW S, NEW q \in Seq(S), q # <<>>
  PROVE  Covered(q) = Head(q).aspects \cup Covered(Tail(q))
<1>1. << Head(q) >> \in Seq(S) /\ Tail(q) \in Seq(S) /\ q = << Head(q) >> \o Tail(q)
  OBVIOUS
<1> DEFINE h == << Head(q) >>
           r == Tail(q)
<1>2. Covered(h) = Head(q).aspects
  BY OneCovered
<1>3. h \in Seq(S) /\ r \in Seq(S) /\ q = h \o r
  BY <1>1
<1> HIDE DEF h, r
<1>4. Covered(h \o r) = Covered(h) \cup Covered(r)
  BY <1>3, JoinedCover
<1>5. Covered(q) = Head(q).aspects \cup Covered(r)
  BY <1>2, <1>3, <1>4
<1> QED
  BY <1>5 DEF r

\* The alters of a resolver's compare_object.
LEMMA AlterCovers ==
  ASSUME NEW o \in Objects, NEW d, NEW a \in Aspects, NEW g \in SUBSET Switches
  PROVE  /\ AlterIf(o, d, a, g) \in Seq(AltersOf(o))
         /\ Covered(AlterIf(o, d, a, g)) = d \cap {a}
<1> DEFINE s == Statement("ALTER", o, g, {a})
<1>1. s \in AltersOf(o) /\ s.aspects = {a}
  BY DEF Statement, AltersOf
<1>2. CASE a \in d
  <2>1. AlterIf(o, d, a, g) = << s >>
    BY <1>2 DEF AlterIf
  <2> HIDE DEF s
  <2> QED
    BY <1>1, <1>2, <2>1, OneCovered, OneStatement
<1>3. CASE a \notin d
  BY <1>3, NothingCovered, NoStatement DEF AlterIf
<1> QED
  BY <1>2, <1>3

LEMMA TwoAltersCover ==
  ASSUME NEW o \in Objects, NEW d, NEW a \in Aspects, NEW b \in Aspects,
         NEW g \in SUBSET Switches, NEW h \in SUBSET Switches
  PROVE  /\ AlterIf(o, d, a, g) \o AlterIf(o, d, b, h) \in Seq(AltersOf(o))
         /\ Covered(AlterIf(o, d, a, g) \o AlterIf(o, d, b, h)) = d \cap {a, b}
<1> DEFINE q == AlterIf(o, d, a, g)
           r == AlterIf(o, d, b, h)
<1>1. Covered(q) = d \cap {a}
  BY AlterCovers
<1>2. Covered(r) = d \cap {b}
  BY AlterCovers
<1>3. q \in Seq(AltersOf(o)) /\ Covered(q) = d \cap {a}
  BY <1>1, AlterCovers
<1>4. r \in Seq(AltersOf(o)) /\ Covered(r) = d \cap {b}
  BY <1>2, AlterCovers
<1> HIDE DEF q, r
<1>5. q \o r \in Seq(AltersOf(o))
  BY <1>3, <1>4, Joined
<1>6. Covered(q \o r) = Covered(q) \cup Covered(r)
  BY <1>3, <1>4, JoinedCover
<1>7. q \o r \in Seq(AltersOf(o)) /\ Covered(q \o r) = d \cap {a, b}
  BY <1>3, <1>4, <1>5, <1>6
<1> QED
  BY <1>7 DEF q, r

\* A new object, or a new version of one, and what is altered in it at once.
LEMMA MakesAndAlters ==
  ASSUME NEW o \in Objects, NEW op \in {"CREATE", "REPLACE"}, NEW g \in SUBSET Switches,
         NEW h \in SUBSET Switches, NEW a \in AspectsOf(TypeOf[o])
  PROVE  Completes(o, << Statement(op, o, g, {a}), Statement("ALTER", o, h, {a}) >>)
<1> DEFINE s == Statement(op, o, g, {a})
           t == Statement("ALTER", o, h, {a})
<1>1. a \in Aspects
  BY ComparedAspects
<1>2. s \in StatementsOf(o) /\ s.op = op /\ s.aspects = {a}
  BY TheStatements DEF Statement
<1>3. t \in AltersOf(o) /\ t.aspects = {a}
  BY <1>1 DEF Statement, AltersOf
<1> HIDE DEF s, t
<1>4. Head(<< s, t >>) = s /\ Tail(<< s, t >>) = << t >> /\ << s, t >> # <<>>
  BY TailOfTwo, PairIsNotEmpty
<1>5. << t >> \in Seq(AltersOf(o)) /\ Covered(<< t >>) = {a}
  BY <1>3, OneStatement, OneCovered
<1>6. Completes(o, << s, t >>)
  BY <1>2, <1>4, <1>5 DEF Completes
<1> QED
  BY <1>6 DEF s, t

LEMMA MakesOnly ==
  ASSUME NEW o \in Objects, NEW g \in SUBSET Switches
  PROVE  Completes(o, << Statement("CREATE", o, g, {}) >>)
<1> DEFINE s == Statement("CREATE", o, g, {})
<1>1. s \in StatementsOf(o) /\ s.op = "CREATE" /\ s.aspects = {}
  BY TheStatements DEF Statement
<1> HIDE DEF s
<1>2. Head(<< s >>) = s /\ Tail(<< s >>) = <<>> /\ << s >> # <<>>
  BY TailOfOne, PairIsNotEmpty
<1>3. Completes(o, << s >>)
  BY <1>1, <1>2, NoStatement DEF Completes
<1> QED
  BY <1>3 DEF s

LEMMA CreateCompletes ==
  ASSUME NEW o \in Objects PROVE Completes(o, CreateReply(o).statements)
<1>1. TypeOf[o] \in Types
  BY ResolverAssumption
<1>2. CASE TypeOf[o] = "DATABASE"
  BY <1>2 DEF CreateReply, CreateDatabase, Reply, NewDatabase, DropPublic, Completes
<1>3. CASE TypeOf[o] = "SCHEMA"
  BY <1>3, MakesOnly, GatesAndAspects DEF CreateReply, CreateSchema, Reply
<1>4. CASE TypeOf[o] = "TABLE"
  <2>1. "search" \in AspectsOf(TypeOf[o])
    BY <1>4 DEF AspectsOf
  <2> QED
    BY <1>4, <2>1, MakesAndAlters, GatesAndAspects DEF CreateReply, CreateTable, Reply
<1>5. CASE TypeOf[o] = "FUNCTION"
  <2>1. "body" \in AspectsOf(TypeOf[o])
    BY <1>5 DEF AspectsOf
  <2> QED
    BY <1>5, <2>1, MakesAndAlters, GatesAndAspects DEF CreateReply, CreateFunction, Reply
<1>6. CASE TypeOf[o] = "PRIMARY_KEY"
  BY <1>6, MakesOnly, GatesAndAspects DEF CreateReply, CreatePrimaryKey, Reply
<1>7. CASE TypeOf[o] = "VIEW"
  <2>1. "comment" \in AspectsOf(TypeOf[o])
    BY <1>7 DEF AspectsOf
  <2> QED
    BY <1>7, <2>1, MakesAndAlters, GatesAndAspects DEF CreateReply, CreateView, Reply
<1> QED
  BY <1>1, <1>2, <1>3, <1>4, <1>5, <1>6, <1>7 DEF Types

LEMMA AltersComplete ==
  ASSUME NEW o \in live, NEW q \in Seq(AltersOf(o)), drift[o] \subseteq Covered(q)
  PROVE  Completes(o, Altered(q).statements) /\ Altered(q).result \in {"NOCHANGE", "ALTER"}
  BY DEF Altered, Reply, Completes

\* A compare sees every aspect, replaces or alters it, or says UNSUPPORTED.
LEMMA CompareCompletes ==
  ASSUME AccountIsSound, NEW o \in live, existing[o] = drift[o],
         CompareReply(o).result # "UNSUPPORTED"
  PROVE  /\ Completes(o, CompareReply(o).statements)
         /\ CompareReply(o).result = "REPLACE" =>
              /\ o \notin Databases /\ CompareReply(o).statements # <<>>
              /\ Head(CompareReply(o).statements).op = "REPLACE"
<1> DEFINE d == drift[o]
<1>1. o \in Objects /\ TypeOf[o] \in Types /\ d \subseteq AspectsOf(TypeOf[o])
  BY ResolverAssumption DEF AccountIsSound
<1>2. \A q : Altered(q).result # "REPLACE"
  BY DEF Altered, Reply
<1>3. d = {} => Completes(o, <<>>)
  BY NoStatement DEF Completes
<1>4. CASE TypeOf[o] = "DATABASE"
  <2>1. "kind" \notin d
    BY <1>4 DEF CompareReply, CompareDatabase, Reply
  <2> DEFINE q == AlterIf(o, d, "attribute", Unsafe) \o AlterIf(o, d, "comment", Unsafe)
  <2>2. CompareReply(o) = Altered(q)
    BY <1>4, <2>1 DEF CompareReply, CompareDatabase
  <2>3. d \subseteq {"attribute", "comment"}
    BY <1>1, <1>4, <2>1 DEF AspectsOf
  <2>4. q \in Seq(AltersOf(o))
    BY <1>1, TwoAltersCover, GatesAndAspects
  <2>5. Covered(q) = d \cap {"attribute", "comment"}
    BY <1>1, TwoAltersCover, GatesAndAspects
  <2> HIDE DEF q
  <2> QED
    BY <1>2, <2>2, <2>3, <2>4, <2>5, AltersComplete
<1>5. CASE TypeOf[o] = "SCHEMA"
  <2>1. "kind" \notin d
    BY <1>5 DEF CompareReply, CompareSchema, Reply
  <2> DEFINE q == AlterIf(o, d, "attribute", Unsafe) \o AlterIf(o, d, "comment", Safe)
  <2>2. CompareReply(o) = Altered(q)
    BY <1>5, <2>1 DEF CompareReply, CompareSchema
  <2>3. d \subseteq {"attribute", "comment"}
    BY <1>1, <1>5, <2>1 DEF AspectsOf
  <2>4. q \in Seq(AltersOf(o))
    BY <1>1, TwoAltersCover, GatesAndAspects
  <2>5. Covered(q) = d \cap {"attribute", "comment"}
    BY <1>1, TwoAltersCover, GatesAndAspects
  <2> HIDE DEF q
  <2> QED
    BY <1>2, <2>2, <2>3, <2>4, <2>5, AltersComplete
<1>6. CASE TypeOf[o] = "TABLE"
  <2>1. CASE "columns" \in d
    <3> DEFINE s == Statement("REPLACE", o, ReplaceTable, {"search"})
               t == Statement("ALTER", o, ReplaceTable, {"search"})
    <3>1. CompareReply(o) = Reply("REPLACE", << s, t >>)
      BY <1>6, <2>1 DEF CompareReply, CompareTable
    <3>2. "search" \in AspectsOf(TypeOf[o])
      BY <1>6 DEF AspectsOf
    <3>3. Completes(o, << s, t >>)
      BY <1>1, <3>2, MakesAndAlters, GatesAndAspects
    <3>4. s.op = "REPLACE"
      BY DEF Statement
    <3> HIDE DEF s, t
    <3>5. CompareReply(o).statements = << s, t >>
      BY <3>1 DEF Reply
    <3> QED
      BY <1>6, <3>3, <3>4, <3>5, TailOfTwo, PairIsNotEmpty DEF Databases
  <2>2. CASE "columns" \notin d
    <3> DEFINE q == AlterIf(o, d, "comment", Safe) \o AlterIf(o, d, "attribute", Unsafe)
               r == AlterIf(o, d, "search", Unsafe)
    <3>1. CompareReply(o) = Altered(q \o r)
      BY <1>6, <2>2 DEF CompareReply, CompareTable
    <3>2. d \subseteq {"attribute", "comment", "search"}
      BY <1>1, <1>6, <2>2 DEF AspectsOf
    <3>3. Covered(q) = d \cap {"comment", "attribute"}
      BY <1>1, TwoAltersCover, GatesAndAspects
    <3>4. Covered(r) = d \cap {"search"}
      BY <1>1, AlterCovers, GatesAndAspects
    <3>5. q \in Seq(AltersOf(o)) /\ r \in Seq(AltersOf(o))
      BY <1>1, TwoAltersCover, AlterCovers, GatesAndAspects
    <3> HIDE DEF q, r
    <3>6. Covered(q \o r) = Covered(q) \cup Covered(r)
      BY <3>5, JoinedCover
    <3>7. q \o r \in Seq(AltersOf(o)) /\ d \subseteq Covered(q \o r)
      BY <3>2, <3>3, <3>4, <3>5, <3>6, Joined
    <3> QED
      BY <1>2, <3>1, <3>7, AltersComplete
  <2> QED
    BY <2>1, <2>2
<1>7. CASE TypeOf[o] = "FUNCTION"
  <2>1. CASE "body" \in d
    <3>1. CompareReply(o).statements = CreateReply(o).statements
      BY <1>7, <2>1 DEF CompareReply, CompareFunction, CreateReply, Reply
    <3>2. CreateReply(o).statements =
            << Statement("REPLACE", o, Safe, {"body"}), Statement("ALTER", o, Safe, {"body"}) >>
      BY <1>7 DEF CreateReply, CreateFunction, Reply
    <3>3. Statement("REPLACE", o, Safe, {"body"}).op = "REPLACE"
      BY DEF Statement
    <3> QED
      BY <1>1, <1>7, <3>1, <3>2, <3>3, CreateCompletes, TailOfTwo, PairIsNotEmpty DEF Databases
  <2>2. CASE "body" \notin d
    <3>1. d = {}
      BY <1>1, <1>7, <2>2 DEF AspectsOf
    <3>2. CompareReply(o) = Reply("NOCHANGE", <<>>)
      BY <1>7, <2>2 DEF CompareReply, CompareFunction
    <3> QED
      BY <1>3, <3>1, <3>2 DEF Reply
  <2> QED
    BY <2>1, <2>2
<1>8. CASE TypeOf[o] = "PRIMARY_KEY"
  <2>1. CASE "body" \in d
    <3>1. CompareReply(o) = Reply("ALTER", << Statement("DROP", o, Safe, {}), NewKey(o) >>)
      BY <1>8, <2>1 DEF CompareReply, ComparePrimaryKey, NewKey
    <3>2. DropOf(o) = Statement("DROP", o, Safe, {})
      BY <1>8 DEF DropOf, DataTypes
    <3> QED
      BY <1>8, <3>1, <3>2 DEF Reply, Completes
  <2>2. CASE "body" \notin d
    <3>1. d = {}
      BY <1>1, <1>8, <2>2 DEF AspectsOf
    <3>2. CompareReply(o) = Reply("NOCHANGE", <<>>)
      BY <1>8, <2>2 DEF CompareReply, ComparePrimaryKey
    <3> QED
      BY <1>3, <3>1, <3>2 DEF Reply
  <2> QED
    BY <2>1, <2>2
<1>9. CASE TypeOf[o] = "VIEW"
  <2>1. CASE "body" \in d \/ ~(Uses[o] \subseteq live)
    <3>1. CompareReply(o).statements = CreateReply(o).statements
      BY <1>9, <2>1 DEF CompareReply, CompareView, CreateReply, Reply
    <3>2. CreateReply(o).statements =
            << Statement("REPLACE", o, Safe, {"comment"}), Statement("ALTER", o, Safe, {"comment"}) >>
      BY <1>9 DEF CreateReply, CreateView, Reply
    <3>3. Statement("REPLACE", o, Safe, {"comment"}).op = "REPLACE"
      BY DEF Statement
    <3> QED
      BY <1>1, <1>9, <3>1, <3>2, <3>3, CreateCompletes, TailOfTwo, PairIsNotEmpty DEF Databases
  <2>2. CASE "body" \notin d /\ Uses[o] \subseteq live
    <3>1. CompareReply(o) = Altered(AlterIf(o, d, "comment", Safe))
      BY <1>9, <2>2 DEF CompareReply, CompareView
    <3>2. d \subseteq {"comment"}
      BY <1>1, <1>9, <2>2 DEF AspectsOf
    <3>3. AlterIf(o, d, "comment", Safe) \in Seq(AltersOf(o))
      BY <1>1, AlterCovers, GatesAndAspects
    <3>4. Covered(AlterIf(o, d, "comment", Safe)) = d \cap {"comment"}
      BY <1>1, AlterCovers, GatesAndAspects
    <3> QED
      BY <1>2, <3>1, <3>2, <3>3, <3>4, AltersComplete
  <2> QED
    BY <2>1, <2>2
<1> QED
  BY <1>1, <1>4, <1>5, <1>6, <1>7, <1>8, <1>9 DEF Types

\* A compare that results in REPLACE begins with the replacement.
LEMMA ReplacesAtOnce ==
  ASSUME NEW o \in Objects, CompareReply(o).result = "REPLACE"
  PROVE  /\ o \notin Databases /\ CompareReply(o).statements # <<>>
         /\ Head(CompareReply(o).statements).op = "REPLACE"
<1>1. TypeOf[o] \in Types
  BY ResolverAssumption
<1>2. \A q : Altered(q).result # "REPLACE"
  BY DEF Altered, Reply
<1>3. TypeOf[o] \notin {"DATABASE", "SCHEMA", "PRIMARY_KEY"}
  BY <1>2
  DEF CompareReply, CompareDatabase, CompareSchema, ComparePrimaryKey, Reply
<1>4. \E g, A, t : CompareReply(o).statements = << Statement("REPLACE", o, g, A), t >>
  <2>1. CASE TypeOf[o] = "TABLE"
    <3>1. CompareReply(o).statements = << Statement("REPLACE", o, ReplaceTable, {"search"}),
                                          Statement("ALTER", o, ReplaceTable, {"search"}) >>
      BY <1>2, <2>1 DEF CompareReply, CompareTable, Reply
    <3> QED
      BY <3>1, GatesAndAspects
  <2>2. CASE TypeOf[o] = "FUNCTION"
    <3>1. CompareReply(o).statements =
            << Statement("REPLACE", o, Safe, {"body"}), Statement("ALTER", o, Safe, {"body"}) >>
      BY <2>2 DEF CompareReply, CompareFunction, CreateFunction, Reply
    <3> QED
      BY <3>1, GatesAndAspects
  <2>3. CASE TypeOf[o] = "VIEW"
    <3>1. CompareReply(o).statements =
            << Statement("REPLACE", o, Safe, {"comment"}), Statement("ALTER", o, Safe, {"comment"}) >>
      BY <1>2, <2>3 DEF CompareReply, CompareView, CreateView, Reply
    <3> QED
      BY <3>1, GatesAndAspects
  <2> QED
    BY <1>1, <1>3, <2>1, <2>2, <2>3 DEF Types
<1>5. PICK g, A, t : CompareReply(o).statements = << Statement("REPLACE", o, g, A), t >>
  BY <1>4
<1>6. Statement("REPLACE", o, g, A).op = "REPLACE"
  BY DEF Statement
<1> QED
  BY <1>3, <1>5, <1>6, TailOfTwo, PairIsNotEmpty DEF Databases

-----------------------------------------------------------------------------
(* Who has to do what.                                                     *)

\* Only the invocation and the configuration say what is to be reached.
LEMMA SameDuty ==
  ASSUME scenario' = scenario, inv' = inv
  PROVE  /\ Applies' <=> Applies
         /\ \A o : Stays(o)' <=> Stays(o)
         /\ \A o : IsManaged(o)' <=> IsManaged(o)
         /\ IsWhole(inv)' <=> IsWhole(inv)
         /\ Settings' = Settings /\ Invocation' = Invocation /\ config' = config
<1>1. Invocation' = Invocation /\ Invocations' = Invocations /\ config' = config /\ Settings' = Settings
  BY SameTurns, SameInvocation
<1> QED
  BY <1>1 DEF Applies, Stays, Tolerated, Keeper, IsManaged, IsUnmanaged, IsWhole

\* An invocation that is promising after a step was so before it.
LEMMA StillPromising ==
  ASSUME UNCHANGED <<scenario, inv, outside>>, pc # "start", IsPromising',
         \A o \in DOMAIN results : o \in DOMAIN results' /\ results'[o] = results[o],
         \A o \in DOMAIN task : task[o].result \notin {"ERROR", "UNSUPPORTED"}
  PROVE  IsPromising
  BY SameDuty DEF IsPromising

LEMMA CacheIsRight ==
  ASSUME CacheInv, IsPromising, pc = "resolver" PROVE AccountIsSound /\ cache = LoadedCache
  BY DEF CacheInv, CacheOrResult, IsPromising, IsResolving

\* So was it before a step of the invocation: no step takes an error back.
LEMMA PromisedBefore ==
  ASSUME CacheInv, IsPromising',
         \/ \E o \in Objects : StartTask(o) \/ Suggest(o) \/ Execute(o) \/ Raise(o) \/ Collect(o)
         \/ Skip \/ Begin \/ SubmitBatch \/ Finish
  PROVE  IsPromising
<1>1. /\ \A n \in DOMAIN results' : results'[n] \notin {"ERROR", "UNSUPPORTED"}
      /\ \A n \in DOMAIN task' : task'[n].result \notin {"ERROR", "UNSUPPORTED"}
  BY DEF IsPromising
<1>2. ASSUME NEW o \in Objects, StartTask(o) PROVE IsPromising
  <2>1. /\ o \in DOMAIN task /\ task[o].stage = "queued" /\ DOMAIN task' = DOMAIN task
        /\ \A n \in DOMAIN task \ {o} : task'[n] = task[n]
        /\ UNCHANGED <<scenario, inv, outside, results>>
    BY <1>2 DEF StartTask
  <2>2. task[o].result = "NOCHANGE" /\ pc # "start"
    BY <2>1 DEF CacheInv, TasksAreSound, IsTask, IsResolving
  <2>3. \A n \in DOMAIN task : task[n].result \notin {"ERROR", "UNSUPPORTED"}
    BY <1>1, <2>1, <2>2
  <2> QED
    BY <2>1, <2>2, <2>3, StillPromising
<1>3. ASSUME NEW o \in Objects, Suggest(o) \/ Execute(o) PROVE IsPromising
  <2>1. HasStatement(o) /\ Advance(o) /\ UNCHANGED <<scenario, inv, outside, results>>
    BY <1>3 DEF Suggest, Execute
  <2>2. o \in DOMAIN task /\ pc # "start" /\ IsTask(o, task[o])
    BY <2>1, NextStatement DEF IsResolving, CacheInv, TasksAreSound
  <2>3. \A n \in DOMAIN task : n \in DOMAIN task' /\ task'[n].result = task[n].result
    BY <2>1, <2>2 DEF Advance, IsTask
  <2>4. \A n \in DOMAIN task : task[n].result \notin {"ERROR", "UNSUPPORTED"}
    BY <1>1, <2>3
  <2> QED
    BY <2>1, <2>2, <2>4, StillPromising
<1>4. ASSUME NEW o \in Objects, Raise(o) PROVE FALSE
  <2>1. o \in DOMAIN task' /\ task'[o].result = "ERROR"
    BY <1>4 DEF Raise, HasStatement
  <2> QED
    BY <1>1, <2>1
<1>5. ASSUME NEW o \in Objects, Collect(o) PROVE IsPromising
  <2>1. /\ o \in DOMAIN task /\ DOMAIN task' = DOMAIN task \ {o}
        /\ \A n \in DOMAIN task' : task'[n] = task[n]
        /\ DOMAIN results' = DOMAIN results \cup {o} /\ results'[o] = task[o].result
        /\ \A n \in DOMAIN results \ {o} : results'[n] = results[n]
        /\ UNCHANGED <<scenario, inv, outside>>
    BY <1>5 DEF Collect
  <2>2. pc # "start" /\ o \notin DOMAIN results
    BY <2>1 DEF CacheInv, TasksAreSound, EachToItsOwn, IsResolving
  <2>3. \A n \in DOMAIN task : task[n].result \notin {"ERROR", "UNSUPPORTED"}
    BY <1>1, <2>1
  <2>4. \A n \in DOMAIN results : n \in DOMAIN results' /\ results'[n] = results[n]
    BY <2>1, <2>2
  <2> QED
    BY <2>1, <2>2, <2>3, <2>4, StillPromising
<1>6. CASE SubmitBatch
  <2> DEFINE skipped == {o \in NextBatch : IsUnmanaged(o)}
  <2>1. /\ pc \in {"drop", "create"} /\ DOMAIN task = {}
        /\ results' = [n \in DOMAIN results \cup skipped |->
                         IF n \in skipped THEN "SKIP" ELSE results[n]]
        /\ UNCHANGED <<scenario, inv, outside>>
    BY <1>6 DEF SubmitBatch
  <2>2. skipped \subseteq remaining /\ DOMAIN results \cap remaining = {}
    BY <2>1 DEF NextBatch, CacheInv, EachToItsOwn
  <2> HIDE DEF skipped
  <2>3. \A n \in DOMAIN results : n \in DOMAIN results' /\ results'[n] = results[n]
    BY <2>1, <2>2
  <2> QED
    BY <2>1, <2>3, StillPromising
<1>7. CASE Skip \/ Begin \/ Finish
  <2>1. /\ pc # "start" /\ DOMAIN task = {}
        /\ UNCHANGED <<scenario, inv, outside, results>>
    BY <1>7 DEF Skip, Begin, Finish, CacheInv, TasksAreSound, IsResolving
  <2> QED
    BY <2>1, StillPromising
<1> QED
  BY <1>2, <1>3, <1>4, <1>5, <1>6, <1>7

\* What a resolver lists is there, and as it is listed.
LEMMA RowsAreRight ==
  ASSUME AccountIsSound, cache = LoadedCache, idx \in Turns, NEW o \in Objects, Handles(idx, o)
  PROVE  /\ o \in DOMAIN ExistingObjects <=> o \in live
         /\ o \in live => ExistingObjects[o] = drift[o]
<1>1. cache = LoadedCache
  OBVIOUS
<1>2. ResolverType = TypeAt(idx) /\ o \in Typed(ResolverType)
  BY TheResolver DEF Handles, Typed
<1>3. DOMAIN cache = live \cap (Databases \cup Schemas)
  BY <1>1 DEF LoadedCache
<1>4. CASE ResolverType \in {"DATABASE", "SCHEMA"}
  <2>1. ExistingObjects = [n \in Typed(ResolverType) \cap DOMAIN cache |-> cache[n]]
    BY <1>4 DEF ExistingObjects
  <2>2. o \in Databases \cup Schemas
    BY <1>2, <1>4 DEF Typed, Databases, Schemas
  <2>3. o \in live => cache[o] = drift[o]
    BY <1>1, <2>2 DEF LoadedCache
  <2> QED
    BY <1>2, <1>3, <2>1, <2>2, <2>3
<1>5. CASE ResolverType \notin {"DATABASE", "SCHEMA"}
  <2>1. ExistingObjects = [n \in {v \in live \cap Typed(ResolverType) :
                                   Within[v] \cap Schemas \subseteq DOMAIN cache} |-> drift[n]]
    BY <1>5 DEF ExistingObjects
  <2>2. o \in live => Within[o] \subseteq live
    BY DEF AccountIsSound
  <2>3. o \in live => Within[o] \cap Schemas \subseteq DOMAIN cache
    BY <1>3, <2>2
  <2> QED
    BY <1>2, <2>1, <2>3
<1> QED
  BY <1>4, <1>5

\* Whatever a resolve leaves in place has a reason to be kept: a container in
\* the way which is not declared was itself kept by its database's sandbox.
LEMMA SparedIsTolerated ==
  ASSUME CacheInv, UnwantedGoes, Applies, idx \in Turns, NEW o \in live, o \notin config.declared,
         Handles(idx, o), ~(Keeper(o) \subseteq config.declared \ config.sandbox)
  PROVE  Tolerated(o)
<1>1. /\ o \in Objects /\ Within[o] \subseteq live /\ live \subseteq Objects
      /\ config.sandbox \subseteq config.declared
  BY ConfigIsSound DEF CacheInv, Progress, AccountIsSound
<1>2. PICK c \in Keeper(o) : c \notin config.declared \/ c \in config.sandbox
  OBVIOUS
<1>3. c \in Within[o] /\ c \in Objects /\ c \in live
  BY <1>1, <1>2 DEF Keeper
<1>4. \A k \in Keeper(o) : k = c
  BY <1>1, <1>2, ResolverAssumption DEF Keeper, Databases, Schemas
<1>5. CASE c \in config.sandbox
  <2>1. Keeper(o) \subseteq config.declared /\ Keeper(o) \subseteq config.sandbox
    BY <1>1, <1>4, <1>5
  <2> QED
    BY <1>2, <2>1 DEF Tolerated
<1>6. CASE c \notin config.declared /\ TypeOf[o] = "SCHEMA"
  <2>1. c \in Databases /\ Handles(1, c) /\ 1 \in Turns /\ 2 \in Turns
    BY <1>2, <1>6, TheTurns DEF Keeper, Handles, Databases
  <2>2. idx = 2
    <3>1. TypeAt(idx) = "SCHEMA"
      BY <1>6 DEF Handles
    <3> QED
      BY <3>1, TurnOfType
  <2>3. Stays(c)
    BY <1>3, <2>1, <2>2 DEF UnwantedGoes
  <2>4. Tolerated(c)
    BY <1>6, <2>3 DEF Stays
  <2>5. Within[c] = {}
    BY <2>1, ResolverAssumption
  <2> QED
    BY <2>4, <2>5 DEF Tolerated, Keeper
<1>7. CASE c \notin config.declared /\ TypeOf[o] # "SCHEMA"
  <2>1. c \in Schemas /\ TypeOf[c] = "SCHEMA" /\ Handles(2, c) /\ 1 \in Turns /\ 2 \in Turns
    BY <1>2, <1>7, TheTurns DEF Keeper, Handles, Schemas
  <2>2. idx # 1 /\ idx # 2 /\ idx \in 1..7
    <3>1. TypeOf[o] = TypeAt(idx) /\ TypeOf[o] # "SCHEMA"
      BY <1>7 DEF Handles
    <3>2. TypeOf[o] # "DATABASE"
      BY <1>1, <1>3, ResolverAssumption DEF Databases
    <3> QED
      BY <3>1, <3>2, TheTurns
  <2>3. Stays(c)
    BY <1>3, <2>1, <2>2 DEF UnwantedGoes
  <2>4. Tolerated(c)
    BY <1>7, <2>3 DEF Stays
  <2>5. PICK d \in Within[c] : d \in Databases /\ Within[c] \subseteq Databases
    BY <2>1, ResolverAssumption
  <2>6. \A k \in Within[c] : k = d
    BY <1>3, <2>5, ResolverAssumption DEF Databases
  <2>7. Keeper(c) = {d} /\ Within[c] \cap Databases = {d}
    BY <2>1, <2>5, <2>6 DEF Keeper
  <2>8. d \in config.sandbox
    BY <2>4, <2>7 DEF Tolerated
  <2>9. d \in Within[o]
    BY <1>1, <1>3, <2>5, ResolverAssumption
  <2>10. Within[o] \cap Databases = {d}
    BY <1>1, <2>5, <2>9, ResolverAssumption DEF Databases
  <2>11. ~(Keeper(o) \subseteq config.declared)
    BY <1>2, <1>7
  <2> QED
    BY <2>8, <2>10, <2>11 DEF Tolerated
<1> QED
  BY <1>2, <1>5, <1>6, <1>7

\* Of what is in the account and a resolver's, all that should go is dropped.
LEMMA UnwantedIsDropped ==
  ASSUME CacheInv, IsPromising, UnwantedGoes, IntentionsAreKept, pc = "resolver", idx \in Turns,
         NEW o \in live, Handles(idx, o), ~Stays(o)
  PROVE  o \in DropTargets(ExistingObjects)
<1>1. o \in Objects
  BY DEF CacheInv, AccountIsSound
<1>2. o \in DOMAIN ExistingObjects
  BY <1>1, CacheIsRight, RowsAreRight
<1>3. ~ImplicitDropIntention(o)
  BY DEF IntentionsAreKept, ImplicitDropIntention
<1>4. CASE Invocation.action = "destroy"
  BY <1>2, <1>3, <1>4 DEF DropTargets, DestroyDropTargets
<1>5. CASE Invocation.action # "destroy"
  <2>1. Applies
    BY <1>5 DEF IsPromising, Applies
  <2>2. o \notin config.declared /\ ~Tolerated(o)
    BY <2>1 DEF Stays
  <2>3. Keeper(o) \subseteq config.declared \ config.sandbox
    BY <2>1, <2>2, SparedIsTolerated
  <2>4. Resolver # "VIEW_DEPENDENT_FUNCTION"
    <3> SUFFICES ASSUME Resolver = "VIEW_DEPENDENT_FUNCTION" PROVE FALSE
      OBVIOUS
    <3>1. TypeOf[o] = "FUNCTION"
      BY TheResolver DEF Handles, TypeAt
    <3> QED
      BY <2>2, <3>1, TheResolver DEF Handles, IsDependent
  <2>5. o \notin Blueprints
    BY <2>2 DEF Blueprints
  <2> QED
    BY <1>2, <1>3, <1>5, <2>3, <2>4, <2>5 DEF DropTargets, ResolveDropTargets
<1> QED
  BY <1>4, <1>5

\* And all that is declared and a resolver's is batched.
LEMMA DeclaredIsBatched ==
  ASSUME idx \in Turns, NEW o \in config.declared, Handles(idx, o)
  PROVE  o \in Blueprints /\ o \in Batchable
<1>1. Resolver = Sequence[idx] /\ ResolverType = TypeAt(idx)
  BY TheResolver
<1>2. TypeOf[o] = ResolverType
  BY <1>1 DEF Handles
<1>3. Resolver = "VIEW_DEPENDENT_FUNCTION" => DependsOn[o] # {}
  BY <1>1, <1>2 DEF Handles, IsDependent, TypeAt
<1>4. Resolver = "FUNCTION" => DependsOn[o] = {}
  BY <1>1, <1>2 DEF Handles, IsDependent, TypeAt
<1>5. o \in Blueprints
  BY <1>2, <1>3 DEF Blueprints
<1> QED
  BY <1>4, <1>5 DEF Batchable

\* Nothing is only suggested.
LEMMA AllIsExecuted ==
  ASSUME CacheInv, IsPromising, IntentionsAreKept, NEW o \in Objects, HasStatement(o)
  PROVE  CanRun(Head(task[o].statements))
<1> DEFINE s == Head(task[o].statements)
<1>1. /\ o \in DOMAIN task /\ task[o].stage = "running" /\ task[o].statements # <<>>
      /\ s \in StatementsOf(o) /\ IsResolving
  BY NextStatement
<1>2. CASE Invocation.action = "apply" /\ Settings = Switches
  <2>1. s.gate \in SUBSET Switches
    BY <1>1, GatesAndAspects DEF StatementsOf, DropPublic, Statement
  <2> QED
    BY <1>2, <2>1 DEF CanRun
<1>3. CASE Invocation.action = "destroy"
  <2>1. pc = "drop"
    BY <1>1, <1>3 DEF CacheInv, TasksAreSound, IsResolving
  <2>2. task[o].statements = << DropOf(o) >>
    BY <1>1, <2>1 DEF IntentionsAreKept, DropIsDue
  <2>3. s = DropOf(o)
    BY <2>2, TailOfOne
  <2>4. Settings = {"execute_safe_ddl", "execute_unsafe_ddl"}
          \/ Settings = {"execute_safe_ddl", "execute_unsafe_ddl", "execute_replace_table"}
    BY <1>3 DEF Settings
  <2>5. DropOf(o).gate \in {Safe, Unsafe}
    BY DEF DropOf, Statement
  <2> QED
    BY <2>3, <2>4, <2>5 DEF CanRun, Safe, Unsafe
<1> QED
  BY <1>2, <1>3 DEF IsPromising

-----------------------------------------------------------------------------
(* A step of a statement.                                                  *)

\* A statement brings its object nearer to its blueprint.
LEMMA StatementHelps ==
  ASSUME CacheInv, NEW o \in Objects, NEW q \in Seq(StatementsOf(o)), q # <<>>, Completes(o, q),
         live' = LiveAfter(Head(q)), drift' = DriftAfter(Head(q))
  PROVE  Completes(o, Tail(q))'
<1> DEFINE s == Head(q)
<1>1. drift'[o] = IF o \notin LiveAfter(s) THEN {}
                  ELSE IF o = s.obj
                       THEN IF s.op = "ALTER" THEN drift[o] \ s.aspects ELSE s.aspects
                       ELSE drift[o]
  BY DEF DriftAfter
<1>2. CASE q \in Seq(AltersOf(o)) /\ o \in live /\ drift[o] \subseteq Covered(q)
  <2>1. s \in AltersOf(o) /\ Tail(q) \in Seq(AltersOf(o))
    BY <1>2, HeadAndTail
  <2>2. Covered(q) = s.aspects \cup Covered(Tail(q))
    BY <1>2, RestCovers
  <2>3. s.op = "ALTER" /\ s.obj = o
    BY <2>1 DEF AltersOf
  <2>4. o \in live' /\ drift'[o] = drift[o] \ s.aspects
    BY <1>1, <1>2, <2>3 DEF LiveAfter
  <2>5. drift'[o] \subseteq Covered(Tail(q))
    BY <1>2, <2>2, <2>4
  <2> QED
    BY <2>1, <2>4, <2>5 DEF Completes, Covered
<1>3. CASE /\ s \in StatementsOf(o) /\ s.op \in {"CREATE", "REPLACE"}
           /\ Tail(q) \in Seq(AltersOf(o)) /\ s.aspects \subseteq Covered(Tail(q))
  <2>1. s.obj = o
    BY <1>3, StatementIsSound
  <2>2. o \in live' /\ drift'[o] = s.aspects
    BY <1>1, <1>3, <2>1 DEF LiveAfter
  <2> QED
    BY <1>3, <2>2 DEF Completes, Covered
<1>4. CASE TypeOf[o] = "PRIMARY_KEY" /\ q = << DropOf(o), NewKey(o) >>
  <2>1. Tail(q) = << NewKey(o) >>
    BY <1>4, TailOfTwo
  <2>2. NewKey(o) \in StatementsOf(o) /\ NewKey(o).op = "CREATE" /\ NewKey(o).aspects = {}
    BY TheStatements, GatesAndAspects DEF NewKey, Statement
  <2>3. /\ << NewKey(o) >> # <<>> /\ Head(<< NewKey(o) >>) = NewKey(o)
        /\ Tail(<< NewKey(o) >>) = <<>>
    BY PairIsNotEmpty, TailOfOne
  <2>4. /\ << NewKey(o) >> # <<>> /\ Head(<< NewKey(o) >>) \in StatementsOf(o)
        /\ Head(<< NewKey(o) >>).op \in {"CREATE", "REPLACE"}
        /\ Tail(<< NewKey(o) >>) \in Seq(AltersOf(o))
        /\ Head(<< NewKey(o) >>).aspects \subseteq Covered(Tail(<< NewKey(o) >>))
    BY <2>2, <2>3, NoStatement
  <2> QED
    BY <2>1, <2>4 DEF Completes, Covered, NewKey
<1>5. CASE TypeOf[o] = "DATABASE" /\ q = << NewDatabase(o), DropPublic(o) >>
  <2>1. s = NewDatabase(o) /\ Tail(q) = << DropPublic(o) >>
    BY <1>5, TailOfTwo
  <2>2. s.op = "CREATE" /\ s.obj = o /\ s.aspects = {}
    BY <2>1 DEF NewDatabase, Statement
  <2>3. o \in live' /\ drift'[o] = {}
    BY <1>1, <2>2 DEF LiveAfter
  <2> QED
    BY <1>5, <2>1, <2>3 DEF Completes, IsSettled, DropPublic
<1>6. CASE TypeOf[o] = "DATABASE" /\ q = << DropPublic(o) >> /\ IsSettled(o)
  <2>1. s = DropPublic(o) /\ Tail(q) = <<>>
    BY <1>6, TailOfOne
  <2>2. s.op = "DROP" /\ s.obj = PublicOf[o]
    BY <2>1 DEF DropPublic, Statement
  <2>3. o # PublicOf[o] /\ o \notin Inside(PublicOf[o])
    <3>1. o \in Databases /\ PublicOf[o] \in Schemas /\ Within[o] = {}
      BY <1>6, ResolverAssumption DEF Databases
    <3> QED
      BY <1>6, <3>1 DEF Schemas, Inside
  <2>4. o \in live /\ drift[o] = {}
    BY <1>6 DEF IsSettled
  <2>5. o \in live' /\ drift'[o] = {}
    BY <1>1, <2>2, <2>3, <2>4 DEF LiveAfter
  <2> QED
    BY <2>1, <2>5, NoStatement DEF Completes, Covered
<1> QED
  BY <1>2, <1>3, <1>4, <1>5, <1>6 DEF Completes

\* Nothing left to do: the object is settled.
LEMMA NothingLeft == ASSUME NEW o, Completes(o, <<>>) PROVE IsSettled(o)
<1>1. \A s, t : <<>> # << s, t >> /\ <<>> # << s >>
  BY PairIsNotEmpty
<1>2. o \in live /\ drift[o] \subseteq Covered(<<>>)
  BY <1>1 DEF Completes
<1> QED
  BY <1>2, NothingCovered DEF IsSettled

\* What another task's statement does not touch stays as due as it was.
LEMMA SameForOthers ==
  ASSUME NEW o, o \in live' <=> o \in live, o \in live => drift'[o] = drift[o]
  PROVE  /\ IsSettled(o)' <=> IsSettled(o)
         /\ \A q : Completes(o, q) => Completes(o, q)'
         /\ existing' = existing => (IsListed(o)' <=> IsListed(o))
  BY DEF IsSettled, Completes, IsListed, Covered, DropPublic, NewDatabase, DropOf, NewKey

\* A task with these statements left.
LEMMA RunningTask ==
  ASSUME NEW o, NEW q, o \in DOMAIN task', task'[o].stage = "running",
         task'[o].statements = q, Completes(o, q)'
  PROVE  IsDue(o)'
  BY DEF IsDue, Completes, IsSettled, Covered, DropPublic, NewDatabase, DropOf, NewKey

LEMMA ExecuteSucceeds ==
  ASSUME LossInv, CacheInv, SuccessInv, NEW o \in Objects, Execute(o)
  PROVE  SuccessInv'
<1> DEFINE s == Head(task[o].statements)
<1>1. /\ HasStatement(o) /\ Advance(o) /\ CanRun(s) /\ IsLegal(s)
      /\ live' = LiveAfter(s) /\ drift' = DriftAfter(s)
      /\ UNCHANGED <<scenario, inv, pc, idx, existing, remaining, intention, results, outside>>
  BY DEF Execute
<1>2. /\ o \in DOMAIN task /\ task[o].stage = "running" /\ task[o].statements # <<>>
      /\ s \in StatementsOf(o) /\ IsResolving /\ Handles(idx, o) /\ idx \in Turns
  BY <1>1, NextStatement
<1>3. IsTask(o, task[o])
  BY <1>2 DEF CacheInv, TasksAreSound
<1>4. /\ DOMAIN task' = DOMAIN task
      /\ task'[o].stage = "running" /\ task'[o].result = task[o].result
      /\ task'[o].statements = Tail(task[o].statements)
      /\ \A n \in DOMAIN task \ {o} : task'[n] = task[n]
  BY <1>1, <1>2, <1>3 DEF Advance, IsTask
<1>5. pc # "start" /\ pc' # "start" /\ (pc = "drop" \/ pc = "create")
  BY <1>1, <1>2 DEF IsResolving
<1> SUFFICES ASSUME IsPromising' PROVE AllIsWell'
  BY <1>5 DEF SuccessInv, SuccessMeansInStep, DestroyLeavesNothing
<1>6. IsPromising
  BY PromisedBefore
<1>7. UnwantedGoes /\ IntentionsAreKept /\ DeclaredComes
  BY <1>6 DEF SuccessInv, AllIsWell
<1>8. /\ \A n : Stays(n)' <=> Stays(n)
      /\ \A n : IsManaged(n)' <=> IsManaged(n)
      /\ Applies' <=> Applies
      /\ Turns' = Turns /\ config' = config
      /\ \A i, n : Handles(i, n)' <=> Handles(i, n)
  BY <1>1, SameDuty, SameTurns
<1>9. ASSUME NEW n \in Objects, n # o, NEW i \in Turns, i <= idx, Handles(i, n)
      PROVE  (n \in live' <=> n \in live) /\ (n \in live => drift'[n] = drift[n])
  BY <1>1, <1>2, <1>9, OthersStay
<1>10. live \subseteq Objects /\ live' \subseteq Objects /\ config.declared \subseteq Objects
  <2>1. live \subseteq Objects /\ scenario \in Scenarios
    BY DEF CacheInv, AccountIsSound, Progress
  <2>2. CacheInv'
    BY ExecuteKeepsCache
  <2> QED
    BY <2>1, <2>2, ConfigIsSound DEF CacheInv, AccountIsSound
<1>11. pc = "drop" => s = DropOf(o) /\ task'[o].statements = <<>> /\ o \notin live'
  <2> SUFFICES ASSUME pc = "drop"
               PROVE  s = DropOf(o) /\ task'[o].statements = <<>> /\ o \notin live'
    OBVIOUS
  <2>1. task[o].statements = << DropOf(o) >>
    BY <1>2, <1>7 DEF IntentionsAreKept, DropIsDue
  <2>2. s = DropOf(o) /\ Tail(task[o].statements) = <<>>
    BY <2>1, TailOfOne
  <2>3. s.op = "DROP" /\ s.obj = o
    BY <2>2 DEF DropOf, Statement
  <2>4. LiveAfter(s) = live \ (Inside(o) \cup {o})
    BY <2>3 DEF LiveAfter
  <2>5. o \notin live'
    BY <1>1, <2>4
  <2>6. task'[o].statements = <<>>
    BY <1>4, <2>2
  <2> QED
    BY <2>2, <2>5, <2>6
<1>12. pc = "create" => o \in config.declared /\ Applies
  BY <1>2, <1>5, <1>6 DEF CacheInv, TasksAreSound, IsPromising, Applies
<1>13. pc = "create" => Stays(o)
  BY <1>12 DEF Stays
<1>14. s.obj = o \/ (o \in Databases /\ s.obj = PublicOf[o] /\ s.op = "DROP")
  BY <1>2, StatementIsSound
<1>15. s.op \in {"CREATE", "REPLACE", "ALTER", "DROP"}
  BY <1>2, StatementIsSound
<1>16. UnwantedGoes'
  <2> SUFFICES ASSUME NEW n \in live', NEW i \in Turns, i <= idx, Handles(i, n), ~Stays(n)
               PROVE  i = idx /\ pc = "drop" /\ DropIsDue(n)'
    BY <1>1, <1>8 DEF UnwantedGoes
  <2>1. n \in Objects
    BY <1>10
  <2>2. n # o
    BY <1>5, <1>11, <1>13
  <2>3. n \in live
    BY <1>9, <2>1, <2>2
  <2>4. i = idx /\ pc = "drop" /\ DropIsDue(n)
    BY <1>5, <1>7, <2>3 DEF UnwantedGoes
  <2>5. DropIsDue(n)'
    BY <1>4, <2>2, <2>4 DEF DropIsDue, DropOf
  <2> QED
    BY <2>4, <2>5
<1>17. o \notin Inside(o) /\ ~(o \in intention)
  <2>1. o \notin Inside(o)
    BY NotInItself DEF Inside
  <2>2. o \notin DOMAIN results /\ intention \subseteq DOMAIN results
    BY <1>2, <1>5 DEF CacheInv, EachToItsOwn
  <2> QED
    BY <2>1, <2>2
<1>18. ASSUME NEW n \in live', n \notin live
       PROVE  n = o \/ (o \in Databases /\ n = PublicOf[o] /\ s.op = "CREATE" /\ Within[n] = {o})
  <2>1. n = s.obj \/ (s.obj \in Databases /\ n = PublicOf[s.obj] /\ s.op = "CREATE")
    BY <1>1, <1>15, <1>18 DEF LiveAfter
  <2>2. s.op # "DROP"
    BY <1>1, <1>18 DEF LiveAfter
  <2>3. s.obj = o
    BY <1>14, <2>2
  <2> QED
    BY <2>1, <2>3, ResolverAssumption
<1>19. IntentionsAreKept'
  <2>1. ASSUME NEW n \in live', ~Stays(n)
        PROVE  Within[n] \cap intention = {}
    <3>1. CASE n \in live
      BY <1>7, <2>1, <3>1 DEF IntentionsAreKept
    <3>2. CASE n \notin live
      <4>1. n # o
        BY <1>5, <1>11, <1>13, <2>1
      <4>2. Within[n] = {o}
        BY <1>18, <2>1, <3>2, <4>1
      <4> QED
        BY <1>17, <4>2
    <3> QED
      BY <3>1, <3>2
  <2>2. ASSUME pc = "drop", NEW n \in DOMAIN task
        PROVE  DropIsDue(n)' \/ (task'[n].statements = <<>> /\ n \notin live')
    <3>1. CASE n = o
      BY <1>11, <2>2, <3>1
    <3>2. CASE n # o
      <4>1. DropIsDue(n) \/ (task[n].statements = <<>> /\ n \notin live)
        BY <1>7, <2>2 DEF IntentionsAreKept
      <4>2. n \in Objects /\ Handles(idx, n)
        BY <1>5, <2>2 DEF CacheInv, TasksAreSound, EachToItsOwn
      <4>3. n \in live' <=> n \in live
        BY <1>2, <1>9, <3>2, <4>2, TheTurns
      <4>4. DropIsDue(n) => DropIsDue(n)'
        BY <1>4, <3>2 DEF DropIsDue, DropOf
      <4> QED
        BY <1>4, <2>2, <3>2, <4>1, <4>3, <4>4
    <3> QED
      BY <3>1, <3>2
  <2>3. ASSUME pc = "create", NEW n \in DOMAIN task
        PROVE  /\ task'[n].result # "DROP"
               /\ task'[n].result = "REPLACE" =>
                    /\ n \notin Databases
                    /\ \/ Inside(n) \cap live' = {}
                       \/ task'[n].statements # <<>> /\ Head(task'[n].statements).op = "REPLACE"
    <3>1. task'[n].result = task[n].result /\ task[n].result # "DROP"
      BY <1>4, <1>7, <2>3 DEF IntentionsAreKept
    <3> SUFFICES ASSUME task[n].result = "REPLACE"
                 PROVE  /\ n \notin Databases
                        /\ \/ Inside(n) \cap live' = {}
                           \/ task'[n].statements # <<>> /\ Head(task'[n].statements).op = "REPLACE"
      BY <3>1
    <3>2. /\ n \notin Databases
          /\ \/ Inside(n) \cap live = {}
             \/ task[n].statements # <<>> /\ Head(task[n].statements).op = "REPLACE"
      BY <1>7, <2>3 DEF IntentionsAreKept
    <3>3. n \in Objects /\ Handles(idx, n)
      BY <1>5, <2>3 DEF CacheInv, TasksAreSound, EachToItsOwn
    <3>4. CASE Inside(n) \cap live = {}
      <4> SUFFICES ASSUME NEW b \in Inside(n), b \in live' PROVE FALSE
        BY <3>2
      <4>1. b \notin live
        BY <3>4
      <4>2. b = o => n # o /\ o \in Inside(n)
        BY <1>17
      <4>3. b # o
        BY <1>2, <3>3, <4>2, NothingEarlierInside, TheTurns
      <4>4. o \in Databases /\ Within[b] = {o}
        BY <1>18, <4>1, <4>3
      <4>5. n \in Within[b]
        BY DEF Inside
      <4> QED
        BY <3>2, <4>4, <4>5
    <3>5. CASE n # o /\ task[n].statements # <<>> /\ Head(task[n].statements).op = "REPLACE"
      BY <1>4, <3>2, <3>5
    <3>6. CASE n = o /\ task[n].statements # <<>> /\ Head(task[n].statements).op = "REPLACE"
      <4>1. s.op = "REPLACE" /\ s.obj = o
        BY <1>14, <3>6
      <4>2. live' = (live \ Inside(o)) \cup {o}
        BY <1>1, <4>1 DEF LiveAfter
      <4>3. Inside(n) \cap live' = {}
        BY <1>17, <3>6, <4>2
      <4> QED
        BY <3>2, <4>3
    <3> QED
      BY <3>2, <3>4, <3>5, <3>6
  <2> QED
    BY <1>1, <1>4, <1>8, <2>1, <2>2, <2>3 DEF IntentionsAreKept, Inside
<1>20. DeclaredComes'
  <2> SUFFICES ASSUME Applies, NEW n \in config.declared, NEW i \in Turns, i <= idx,
                      Handles(i, n), IsManaged(n)
               PROVE  \/ i = idx /\ IsDue(n)'
                      \/ n \notin DOMAIN task' \cup remaining' /\ IsSettled(n)'
    BY <1>1, <1>8 DEF DeclaredComes
  <2>1. \/ i = idx /\ IsDue(n)
        \/ n \notin DOMAIN task \cup remaining /\ IsSettled(n)
    BY <1>5, <1>7 DEF DeclaredComes
  <2>2. n \in Objects
    BY <1>10
  <2>3. CASE n # o
    <3>1. /\ IsSettled(n)' <=> IsSettled(n)
          /\ \A q : Completes(n, q) => Completes(n, q)'
          /\ IsListed(n)' <=> IsListed(n)
      BY <1>1, <1>9, <2>2, <2>3, SameForOthers
    <3>2. IsDue(n) => IsDue(n)'
      <4>1. CASE n \in DOMAIN task /\ task[n].stage = "running" /\ Completes(n, task[n].statements)
        <5>1. PICK q : q = task[n].statements
          OBVIOUS
        <5>2. Completes(n, q)'
          BY <3>1, <4>1, <5>1
        <5>3. n \in DOMAIN task' /\ task'[n].stage = "running" /\ task'[n].statements = q
          BY <1>4, <2>3, <4>1, <5>1
        <5> QED
          BY <5>2, <5>3, RunningTask
      <4>2. CASE n \in remaining /\ IsListed(n)
        BY <1>1, <3>1, <4>2 DEF IsDue
      <4>3. CASE n \in DOMAIN task /\ task[n].stage = "queued" /\ IsListed(n)
        BY <1>4, <2>3, <3>1, <4>3 DEF IsDue
      <4> QED
        BY <4>1, <4>2, <4>3 DEF IsDue
    <3> QED
      BY <1>1, <1>4, <2>1, <3>1, <3>2
  <2>4. CASE n = o
    <3>1. IsDue(o) /\ i = idx
      BY <1>2, <2>1, <2>4
    <3>2. o \notin remaining
      BY <1>2, <1>5 DEF CacheInv, EachToItsOwn
    <3>3. Completes(o, task[o].statements)
      BY <1>2, <3>1, <3>2 DEF IsDue
    <3>4. PICK q : q = task[o].statements
      OBVIOUS
    <3>5. q \in Seq(StatementsOf(o)) /\ q # <<>> /\ Completes(o, q) /\ s = Head(q)
      BY <1>2, <1>3, <3>3, <3>4 DEF IsTask
    <3>6. Completes(o, Tail(q))'
      BY <1>1, <3>5, StatementHelps
    <3>7. task'[o].statements = Tail(q)
      BY <1>4, <3>4
    <3>8. IsDue(o)'
      BY <1>2, <1>4, <3>6, <3>7, RunningTask
    <3> QED
      BY <2>4, <3>1, <3>8
  <2> QED
    BY <2>3, <2>4
<1> QED
  BY <1>16, <1>19, <1>20 DEF AllIsWell

-----------------------------------------------------------------------------
(* The other steps.                                                        *)

LEMMA StartTaskSucceeds ==
  ASSUME LossInv, CacheInv, SuccessInv, NEW o \in Objects, StartTask(o)
  PROVE  SuccessInv'
<1> DEFINE reply == ReplyFor(o)
<1>1. /\ o \in DOMAIN task /\ task[o].stage = "queued"
      /\ task' = [task EXCEPT ![o] = [stage |-> "running", result |-> reply.result,
                                      statements |-> reply.statements]]
      /\ UNCHANGED <<scenario, live, drift, inv, pc, idx, existing, remaining, intention,
                     results, outside>>
  BY DEF StartTask, account
<1>2. /\ DOMAIN task' = DOMAIN task
      /\ task'[o].stage = "running" /\ task'[o].result = reply.result
      /\ task'[o].statements = reply.statements
      /\ \A n \in DOMAIN task \ {o} : task'[n] = task[n]
  BY <1>1
<1>3. IsResolving /\ pc # "start" /\ (pc = "drop" \/ pc = "create")
  BY <1>1 DEF CacheInv, TasksAreSound, IsResolving
<1>4. Handles(idx, o) /\ idx \in Turns /\ o \notin remaining
  BY <1>1, <1>3, WhileResolving DEF CacheInv, EachToItsOwn
<1> SUFFICES ASSUME IsPromising' PROVE AllIsWell'
  BY <1>1, <1>3 DEF SuccessInv, SuccessMeansInStep, DestroyLeavesNothing
<1>5. IsPromising
  BY PromisedBefore
<1>6. UnwantedGoes /\ IntentionsAreKept /\ DeclaredComes
  BY <1>5 DEF SuccessInv, AllIsWell
<1>7. /\ \A n : Stays(n)' <=> Stays(n)
      /\ \A n : IsManaged(n)' <=> IsManaged(n)
      /\ Applies' <=> Applies
      /\ Turns' = Turns /\ config' = config
      /\ \A i, n : Handles(i, n)' <=> Handles(i, n)
  BY <1>1, SameDuty, SameTurns
<1>8. pc = "drop" => reply.statements = << DropOf(o) >>
  BY AnyReply, DropReplies
<1>9. ASSUME NEW n, DropIsDue(n), pc = "drop" PROVE DropIsDue(n)'
  <2>1. CASE n = o
    BY <1>1, <1>2, <1>8, <1>9, <2>1 DEF DropIsDue, DropOf
  <2>2. CASE n # o
    BY <1>2, <1>9, <2>2 DEF DropIsDue, DropOf
  <2> QED
    BY <2>1, <2>2
<1>10. UnwantedGoes'
  BY <1>1, <1>6, <1>7, <1>9 DEF UnwantedGoes
<1>11. ASSUME pc = "create", reply.result # "UNSUPPORTED", IsListed(o)
       PROVE  /\ Completes(o, reply.statements)
              /\ reply.result = "REPLACE" =>
                   /\ o \notin Databases /\ reply.statements # <<>>
                   /\ Head(reply.statements).op = "REPLACE"
  <2>1. CASE o \in DOMAIN existing
    <3>1. reply = CompareReply(o)
      BY <1>3, <1>11, <2>1, AnyReply
    <3>2. o \in live /\ existing[o] = drift[o]
      BY <1>11, <2>1 DEF IsListed
    <3> QED
      BY <1>11, <3>1, <3>2, CompareCompletes DEF CacheInv
  <2>2. CASE o \notin DOMAIN existing
    <3>1. reply = CreateReply(o)
      BY <1>3, <1>11, <2>2, AnyReply
    <3> QED
      BY <3>1, CreateIsReply, CreateCompletes
  <2> QED
    BY <2>1, <2>2
<1>12. ASSUME pc = "create"
       PROVE  /\ reply.result # "DROP" /\ reply.result # "UNSUPPORTED"
              /\ reply.result = "REPLACE" =>
                   /\ o \notin Databases /\ reply.statements # <<>>
                   /\ Head(reply.statements).op = "REPLACE"
  <2>1. reply.result # "UNSUPPORTED"
    BY <1>1, <1>2 DEF IsPromising
  <2>2. reply.result # "DROP"
    BY <1>3, <1>12, AnyReply, CompareIsReply, CreateIsReply
  <2>3. CASE o \in DOMAIN existing
    <3>1. reply = CompareReply(o)
      BY <1>3, <1>12, <2>3, AnyReply
    <3> QED
      BY <2>1, <2>2, <3>1, ReplacesAtOnce
  <2>4. CASE o \notin DOMAIN existing
    BY <1>3, <1>12, <2>1, <2>2, <2>4, AnyReply, CreateIsReply
  <2> QED
    BY <2>3, <2>4
<1>13. IntentionsAreKept'
  <2>1. \A n \in live : ~Stays(n) => Within[n] \cap intention = {}
    BY <1>6 DEF IntentionsAreKept
  <2>2. ASSUME pc = "drop", NEW n \in DOMAIN task
        PROVE  DropIsDue(n)' \/ (task'[n].statements = <<>> /\ n \notin live)
    <3>1. DropIsDue(n) \/ (task[n].statements = <<>> /\ n \notin live)
      BY <1>6, <2>2 DEF IntentionsAreKept
    <3>2. DropIsDue(o)
      BY <1>1 DEF DropIsDue
    <3> QED
      BY <1>2, <1>9, <2>2, <3>1, <3>2
  <2>3. ASSUME pc = "create", NEW n \in DOMAIN task
        PROVE  /\ task'[n].result # "DROP"
               /\ task'[n].result = "REPLACE" =>
                    /\ n \notin Databases
                    /\ \/ Inside(n) \cap live = {}
                       \/ task'[n].statements # <<>> /\ Head(task'[n].statements).op = "REPLACE"
    <3>1. CASE n = o
      BY <1>2, <1>12, <2>3, <3>1
    <3>2. CASE n # o
      BY <1>2, <1>6, <2>3, <3>2 DEF IntentionsAreKept
    <3> QED
      BY <3>1, <3>2
  <2> QED
    BY <1>1, <1>2, <1>7, <2>1, <2>2, <2>3 DEF IntentionsAreKept, Inside
<1>14. DeclaredComes'
  <2> SUFFICES ASSUME Applies, NEW n \in config.declared, NEW i \in Turns, i <= idx,
                      Handles(i, n), IsManaged(n)
               PROVE  \/ i = idx /\ IsDue(n)'
                      \/ n \notin DOMAIN task' \cup remaining' /\ IsSettled(n)'
    BY <1>1, <1>7 DEF DeclaredComes
  <2>1. \/ i = idx /\ IsDue(n)
        \/ n \notin DOMAIN task \cup remaining /\ IsSettled(n)
    BY <1>3, <1>6 DEF DeclaredComes
  <2>2. /\ IsSettled(n)' <=> IsSettled(n)
        /\ \A q : Completes(n, q) => Completes(n, q)'
        /\ IsListed(n)' <=> IsListed(n)
    BY <1>1, SameForOthers
  <2>3. CASE n # o
    <3>1. IsDue(n) => IsDue(n)'
      <4>1. CASE n \in DOMAIN task /\ task[n].stage = "running" /\ Completes(n, task[n].statements)
        <5>1. PICK q : q = task[n].statements
          OBVIOUS
        <5>2. Completes(n, q)'
          BY <2>2, <4>1, <5>1
        <5>3. n \in DOMAIN task' /\ task'[n].stage = "running" /\ task'[n].statements = q
          BY <1>2, <2>3, <4>1, <5>1
        <5> QED
          BY <5>2, <5>3, RunningTask
      <4>2. CASE n \in remaining /\ IsListed(n)
        BY <1>1, <2>2, <4>2 DEF IsDue
      <4>3. CASE n \in DOMAIN task /\ task[n].stage = "queued" /\ IsListed(n)
        BY <1>2, <2>2, <2>3, <4>3 DEF IsDue
      <4> QED
        BY <4>1, <4>2, <4>3 DEF IsDue
    <3> QED
      BY <1>1, <1>2, <2>1, <2>2, <3>1
  <2>4. CASE n = o
    <3>1. pc = "create"
      BY <1>1, <1>3, <2>4 DEF LossInv, DropsAreUnwanted, IsUnwanted, Applies
    <3>2. IsListed(o) /\ i = idx
      BY <1>1, <1>4, <2>1, <2>4 DEF IsDue
    <3>3. PICK q : q = reply.statements
      OBVIOUS
    <3>4. Completes(o, q)
      BY <1>11, <1>12, <3>1, <3>2, <3>3
    <3>5. Completes(o, q)'
      BY <2>2, <2>4, <3>4
    <3>6. IsDue(o)'
      BY <1>1, <1>2, <3>3, <3>5, RunningTask
    <3> QED
      BY <2>4, <3>2, <3>6
  <2> QED
    BY <2>3, <2>4
<1> QED
  BY <1>10, <1>13, <1>14 DEF AllIsWell

\* An error ends the promise.
LEMMA RaiseSucceeds ==
  ASSUME CacheInv, SuccessInv, NEW o \in Objects, Raise(o)
  PROVE  SuccessInv'
<1>1. /\ o \in DOMAIN task /\ pc' = pc
      /\ task' = [task EXCEPT ![o] = [stage |-> "running", result |-> "ERROR",
                                      statements |-> <<>>]]
  BY DEF Raise, HasStatement
<1>2. o \in DOMAIN task' /\ task'[o].result = "ERROR"
  BY <1>1
<1>3. pc # "start"
  BY <1>1 DEF CacheInv, TasksAreSound, IsResolving
<1> QED
  BY <1>1, <1>2, <1>3 DEF SuccessInv, SuccessMeansInStep, DestroyLeavesNothing, IsPromising

LEMMA SuggestSucceeds ==
  ASSUME CacheInv, SuccessInv, NEW o \in Objects, Suggest(o)
  PROVE  SuccessInv'
<1>1. HasStatement(o) /\ ~CanRun(Head(task[o].statements)) /\ pc' = pc
  BY DEF Suggest
<1>2. pc # "start"
  BY <1>1, NextStatement DEF IsResolving
<1>3. ~IsPromising
  BY <1>1, AllIsExecuted DEF SuccessInv, AllIsWell
<1>4. ~IsPromising'
  BY <1>3, PromisedBefore
<1> QED
  BY <1>1, <1>2, <1>4 DEF SuccessInv, SuccessMeansInStep, DestroyLeavesNothing

LEMMA CollectSucceeds ==
  ASSUME CacheInv, SuccessInv, NEW o \in Objects, Collect(o)
  PROVE  SuccessInv'
<1>1. /\ o \in DOMAIN task /\ task[o].stage = "running" /\ task[o].statements = <<>>
      /\ task' = [n \in DOMAIN task \ {o} |-> task[n]]
      /\ results' = [n \in DOMAIN results \cup {o} |->
                       IF n = o THEN task[o].result ELSE results[n]]
      /\ intention' = IF task[o].result \in {"REPLACE", "DROP"}
                      THEN intention \cup {o} ELSE intention
      /\ UNCHANGED <<scenario, live, drift, inv, pc, idx, existing, remaining, outside>>
  BY DEF Collect, account
<1>2. /\ DOMAIN task' = DOMAIN task \ {o} /\ \A n \in DOMAIN task' : task'[n] = task[n]
      /\ DOMAIN results' = DOMAIN results \cup {o} /\ results'[o] = task[o].result
  BY <1>1
<1>3. IsResolving /\ pc # "start" /\ (pc = "drop" \/ pc = "create")
  BY <1>1 DEF CacheInv, TasksAreSound, IsResolving
<1>4. Handles(idx, o) /\ o \notin DOMAIN results /\ idx \in Turns /\ o \notin remaining
  BY <1>1, <1>3, WhileResolving DEF CacheInv, EachToItsOwn
<1> SUFFICES ASSUME IsPromising' PROVE AllIsWell'
  BY <1>1, <1>3 DEF SuccessInv, SuccessMeansInStep, DestroyLeavesNothing
<1>5. IsPromising
  BY PromisedBefore
<1>6. UnwantedGoes /\ IntentionsAreKept /\ DeclaredComes
  BY <1>5 DEF SuccessInv, AllIsWell
<1>7. /\ \A n : Stays(n)' <=> Stays(n)
      /\ \A n : IsManaged(n)' <=> IsManaged(n)
      /\ Applies' <=> Applies
      /\ Turns' = Turns /\ config' = config
      /\ \A i, n : Handles(i, n)' <=> Handles(i, n)
  BY <1>1, SameDuty, SameTurns
<1>8. ~DropIsDue(o)
  BY <1>1, PairIsNotEmpty DEF DropIsDue
<1>9. ASSUME NEW n, DropIsDue(n) PROVE DropIsDue(n)'
  <2>1. n # o
    BY <1>8, <1>9
  <2> QED
    BY <1>2, <1>9, <2>1 DEF DropIsDue, DropOf
<1>10. UnwantedGoes'
  BY <1>1, <1>6, <1>7, <1>9 DEF UnwantedGoes
<1>11. IntentionsAreKept'
  <2>1. ASSUME NEW n \in live, ~Stays(n)
        PROVE  Within[n] \cap intention' = {}
    <3>1. Within[n] \cap intention = {}
      BY <1>6, <2>1 DEF IntentionsAreKept
    <3>2. ASSUME task[o].result \in {"REPLACE", "DROP"} PROVE o \notin Within[n]
      <4>1. n \in Objects /\ Within[n] \subseteq live
        BY <2>1 DEF CacheInv, AccountIsSound
      <4>2. CASE pc = "drop"
        BY <1>1, <1>6, <1>8, <4>1, <4>2 DEF IntentionsAreKept
      <4>3. CASE pc = "create"
        <5>1. Inside(o) \cap live = {}
          BY <1>1, <1>6, <3>2, <4>3 DEF IntentionsAreKept
        <5> QED
          BY <2>1, <4>1, <5>1 DEF Inside
      <4> QED
        BY <1>3, <4>2, <4>3
    <3> QED
      BY <1>1, <3>1, <3>2
  <2>2. ASSUME pc = "drop", NEW n \in DOMAIN task'
        PROVE  DropIsDue(n)' \/ (task'[n].statements = <<>> /\ n \notin live)
    <3>1. DropIsDue(n) \/ (task[n].statements = <<>> /\ n \notin live)
      BY <1>2, <1>6, <2>2 DEF IntentionsAreKept
    <3> QED
      BY <1>2, <1>9, <2>2, <3>1
  <2>3. ASSUME pc = "create", NEW n \in DOMAIN task'
        PROVE  /\ task'[n].result # "DROP"
               /\ task'[n].result = "REPLACE" =>
                    /\ n \notin Databases
                    /\ \/ Inside(n) \cap live = {}
                       \/ task'[n].statements # <<>> /\ Head(task'[n].statements).op = "REPLACE"
    BY <1>2, <1>6, <2>3 DEF IntentionsAreKept
  <2> QED
    BY <1>1, <1>7, <2>1, <2>2, <2>3 DEF IntentionsAreKept, Inside
<1>12. DeclaredComes'
  <2> SUFFICES ASSUME Applies, NEW n \in config.declared, NEW i \in Turns, i <= idx,
                      Handles(i, n), IsManaged(n)
               PROVE  \/ i = idx /\ IsDue(n)'
                      \/ n \notin DOMAIN task' \cup remaining' /\ IsSettled(n)'
    BY <1>1, <1>7 DEF DeclaredComes
  <2>1. \/ i = idx /\ IsDue(n)
        \/ n \notin DOMAIN task \cup remaining /\ IsSettled(n)
    BY <1>3, <1>6 DEF DeclaredComes
  <2>2. /\ IsSettled(n)' <=> IsSettled(n)
        /\ \A q : Completes(n, q) => Completes(n, q)'
        /\ IsListed(n)' <=> IsListed(n)
    BY <1>1, SameForOthers
  <2>3. CASE n # o
    <3>1. IsDue(n) => IsDue(n)'
      <4>1. CASE n \in DOMAIN task /\ task[n].stage = "running" /\ Completes(n, task[n].statements)
        <5>1. PICK q : q = task[n].statements
          OBVIOUS
        <5>2. Completes(n, q)'
          BY <2>2, <4>1, <5>1
        <5>3. n \in DOMAIN task' /\ task'[n].stage = "running" /\ task'[n].statements = q
          BY <1>2, <2>3, <4>1, <5>1
        <5> QED
          BY <5>2, <5>3, RunningTask
      <4>2. CASE n \in remaining /\ IsListed(n)
        BY <1>1, <2>2, <4>2 DEF IsDue
      <4>3. CASE n \in DOMAIN task /\ task[n].stage = "queued" /\ IsListed(n)
        BY <1>2, <2>2, <2>3, <4>3 DEF IsDue
      <4> QED
        BY <4>1, <4>2, <4>3 DEF IsDue
    <3> QED
      BY <1>1, <1>2, <2>1, <2>2, <3>1
  <2>4. CASE n = o
    <3>1. IsDue(o)
      BY <1>1, <2>1, <2>4
    <3>2. Completes(o, <<>>)
      BY <1>1, <1>4, <3>1 DEF IsDue
    <3>3. IsSettled(o)
      BY <3>2, NothingLeft
    <3> QED
      BY <1>1, <1>2, <1>4, <2>2, <2>4, <3>3
  <2> QED
    BY <2>3, <2>4
<1> QED
  BY <1>10, <1>11, <1>12 DEF AllIsWell

LEMMA BeginSucceeds == ASSUME CacheInv, SuccessInv, Begin PROVE SuccessInv'
<1> DEFINE targets == DropTargets(ExistingObjects)
<1>1. /\ pc = "resolver" /\ idx <= Len(Sequence) /\ task' = Queued(targets) /\ pc' = "drop"
      /\ existing' = ExistingObjects
      /\ remaining' = IF Invocation.action = "destroy" THEN {} ELSE Batchable
      /\ UNCHANGED <<scenario, live, drift, inv, idx, intention, results, outside>>
  BY DEF Begin, DropTargets, ResolveDropTargets, DestroyDropTargets, ImplicitDropIntention, account
<1>2. /\ idx \in Turns /\ \A o \in targets : o \in Objects /\ Handles(idx, o)
      /\ \A o \in Batchable : Handles(idx, o)
  BY <1>1, OwnTargets DEF CacheInv
<1>3. DOMAIN task = {} /\ config.declared \subseteq Objects /\ live \subseteq Objects
  BY <1>1, ConfigIsSound DEF CacheInv, TasksAreSound, IsResolving, Progress, AccountIsSound
<1> SUFFICES ASSUME IsPromising' PROVE AllIsWell'
  BY <1>1 DEF SuccessInv, SuccessMeansInStep, DestroyLeavesNothing
<1>4. IsPromising
  BY PromisedBefore
<1>5. UnwantedGoes /\ IntentionsAreKept /\ DeclaredComes
  BY <1>4 DEF SuccessInv, AllIsWell
<1>6. /\ \A n : Stays(n)' <=> Stays(n)
      /\ \A n : IsManaged(n)' <=> IsManaged(n)
      /\ Applies' <=> Applies
      /\ Turns' = Turns /\ config' = config
      /\ \A i, n : Handles(i, n)' <=> Handles(i, n)
  BY <1>1, SameDuty, SameTurns
<1>7. \A o \in live : Handles(idx, o) /\ ~Stays(o) => o \in targets
  BY <1>1, <1>2, <1>4, <1>5, UnwantedIsDropped
<1> HIDE DEF targets
<1>8. DOMAIN task' = targets /\ \A o \in targets : task'[o].stage = "queued"
  BY <1>1, QueuedTasks
<1>9. \A o \in targets : DropIsDue(o)'
  BY <1>8 DEF DropIsDue
<1>10. UnwantedGoes'
  BY <1>1, <1>5, <1>6, <1>7, <1>9 DEF UnwantedGoes
<1>11. IntentionsAreKept'
  BY <1>1, <1>5, <1>6, <1>8, <1>9 DEF IntentionsAreKept
<1>12. DeclaredComes'
  <2> SUFFICES ASSUME Applies, NEW n \in config.declared, NEW i \in Turns, i <= idx,
                      Handles(i, n), IsManaged(n)
               PROVE  \/ i = idx /\ IsDue(n)'
                      \/ n \notin DOMAIN task' \cup remaining' /\ IsSettled(n)'
    BY <1>1, <1>6 DEF DeclaredComes
  <2>1. remaining' = Batchable
    BY <1>1 DEF Applies
  <2>2. CASE i = idx
    <3>1. n \in remaining'
      BY <1>2, <2>1, <2>2, DeclaredIsBatched
    <3>2. /\ n \in DOMAIN ExistingObjects <=> n \in live
          /\ n \in live => ExistingObjects[n] = drift[n]
      BY <1>1, <1>2, <1>3, <1>4, <2>2, CacheIsRight, RowsAreRight
    <3>3. IsListed(n)'
      BY <1>1, <3>2 DEF IsListed
    <3> QED
      BY <2>2, <3>1, <3>3 DEF IsDue
  <2>3. CASE i # idx
    <3>1. IsSettled(n)
      BY <1>5, <2>3 DEF DeclaredComes
    <3>2. ~Handles(idx, n)
      BY <1>2, <2>3, HandledOnce
    <3>3. IsSettled(n)'
      BY <1>1, <3>1 DEF IsSettled
    <3> QED
      BY <1>2, <1>8, <2>1, <3>2, <3>3
  <2> QED
    BY <2>2, <2>3
<1> QED
  BY <1>10, <1>11, <1>12 DEF AllIsWell

LEMMA BatchSucceeds == ASSUME CacheInv, SuccessInv, SubmitBatch PROVE SuccessInv'
<1> DEFINE skipped == {o \in NextBatch : IsUnmanaged(o)}
           batch == NextBatch \ skipped
<1>1. /\ pc \in {"drop", "create"} /\ DOMAIN task = {}
      /\ task' = Queued(batch) /\ remaining' = remaining \ NextBatch /\ pc' = "create"
      /\ results' = [n \in DOMAIN results \cup skipped |->
                       IF n \in skipped THEN "SKIP" ELSE results[n]]
      /\ UNCHANGED <<scenario, live, drift, inv, idx, existing, intention, outside>>
  BY DEF SubmitBatch, account
<1>2. /\ NextBatch \subseteq remaining /\ skipped \subseteq NextBatch
      /\ \A o \in NextBatch : ~IsUnmanaged(o) => o \in batch
      /\ batch \subseteq NextBatch
  BY DEF NextBatch
<1> HIDE DEF skipped, batch
<1> SUFFICES ASSUME IsPromising' PROVE AllIsWell'
  BY <1>1 DEF SuccessInv, SuccessMeansInStep, DestroyLeavesNothing
<1>4. IsPromising
  BY PromisedBefore
<1>5. UnwantedGoes /\ IntentionsAreKept /\ DeclaredComes
  BY <1>4 DEF SuccessInv, AllIsWell
<1>6. /\ \A n : Stays(n)' <=> Stays(n)
      /\ \A n : IsManaged(n)' <=> IsManaged(n)
      /\ Applies' <=> Applies
      /\ Turns' = Turns /\ config' = config
      /\ \A i, n : Handles(i, n)' <=> Handles(i, n)
  BY <1>1, SameDuty, SameTurns
<1>7. /\ DOMAIN task' = batch
      /\ \A o \in batch : task'[o].stage = "queued" /\ task'[o].result = "NOCHANGE"
  BY <1>1, QueuedTasks
<1>8. UnwantedGoes'
  BY <1>1, <1>5, <1>6 DEF UnwantedGoes, DropIsDue
<1>9. IntentionsAreKept'
  BY <1>1, <1>5, <1>6, <1>7 DEF IntentionsAreKept
<1>10. DeclaredComes'
  <2> SUFFICES ASSUME Applies, NEW n \in config.declared, NEW i \in Turns, i <= idx,
                      Handles(i, n), IsManaged(n)
               PROVE  \/ i = idx /\ IsDue(n)'
                      \/ n \notin DOMAIN task' \cup remaining' /\ IsSettled(n)'
    BY <1>1, <1>6 DEF DeclaredComes
  <2>1. \/ i = idx /\ n \in remaining /\ IsListed(n)
        \/ n \notin remaining /\ IsSettled(n)
    BY <1>1, <1>5 DEF DeclaredComes, IsDue
  <2>2. (IsSettled(n)' <=> IsSettled(n)) /\ (IsListed(n)' <=> IsListed(n))
    BY <1>1 DEF IsSettled, IsListed
  <2>3. CASE n \in remaining
    <3>1. n \in DOMAIN task' \/ n \in remaining'
      BY <1>1, <1>2, <1>7, <2>3 DEF IsManaged
    <3> QED
      BY <1>7, <2>1, <2>2, <2>3, <3>1 DEF IsDue
  <2>4. CASE n \notin remaining
    BY <1>1, <1>2, <1>7, <2>1, <2>2, <2>4
  <2> QED
    BY <2>3, <2>4
<1> QED
  BY <1>8, <1>9, <1>10 DEF AllIsWell

\* The next resolver's turn, nothing being left of the one before.
LEMMA NextTurnSucceeds ==
  ASSUME CacheInv, SuccessInv, pc # "start", idx \in Turns, idx' = idx + 1, pc' = "resolver",
         DOMAIN task = {}, DOMAIN task' = {}, remaining' = {},
         UNCHANGED <<scenario, live, drift, inv, intention, results, outside>>,
         IsPromising =>
           /\ \A n \in live : Handles(idx, n) => Stays(n)
           /\ \A n \in config.declared : Applies /\ Handles(idx, n) /\ IsManaged(n) => IsSettled(n)
  PROVE  SuccessInv'
<1> SUFFICES ASSUME IsPromising' PROVE AllIsWell'
  BY DEF SuccessInv, SuccessMeansInStep, DestroyLeavesNothing
<1>1. IsPromising
  BY StillPromising
<1>2. UnwantedGoes /\ IntentionsAreKept /\ DeclaredComes
  BY <1>1 DEF SuccessInv, AllIsWell
<1>3. /\ \A n : Stays(n)' <=> Stays(n)
      /\ \A n : IsManaged(n)' <=> IsManaged(n)
      /\ Applies' <=> Applies
      /\ Turns' = Turns /\ config' = config
      /\ \A i, n : Handles(i, n)' <=> Handles(i, n)
  BY SameDuty, SameTurns
<1>4. \A i \in Turns : i <= idx' => i = idx' \/ i = idx \/ (i <= idx /\ i # idx)
  BY DEF Turns
<1>5. UnwantedGoes'
  BY <1>1, <1>2, <1>3, <1>4 DEF UnwantedGoes
<1>6. IntentionsAreKept'
  BY <1>2, <1>3 DEF IntentionsAreKept
<1>7. DeclaredComes'
  <2> SUFFICES ASSUME Applies, NEW n \in config.declared, NEW i \in Turns, i <= idx', i # idx',
                      Handles(i, n), IsManaged(n)
               PROVE  IsSettled(n)'
    BY <1>3 DEF DeclaredComes
  <2>1. CASE i = idx
    BY <1>1, <2>1 DEF IsSettled
  <2>2. CASE i <= idx /\ i # idx
    BY <1>2, <2>2 DEF DeclaredComes, IsSettled
  <2> QED
    BY <1>4, <2>1, <2>2
<1> QED
  BY <1>5, <1>6, <1>7 DEF AllIsWell

LEMMA FinishSucceeds == ASSUME CacheInv, SuccessInv, Finish PROVE SuccessInv'
<1>1. /\ pc \in {"drop", "create"} /\ DOMAIN task = {} /\ remaining = {}
      /\ idx' = idx + 1 /\ pc' = "resolver"
      /\ UNCHANGED <<scenario, live, drift, inv, remaining, task, intention, results, outside>>
  BY DEF Finish, account
<1>2. idx \in Turns
  BY <1>1, WhileResolving DEF IsResolving
<1>3. idx <= idx
  BY <1>2, TheTurns
<1>4. ASSUME IsPromising
      PROVE  /\ \A n \in live : Handles(idx, n) => Stays(n)
             /\ \A n \in config.declared :
                  Applies /\ Handles(idx, n) /\ IsManaged(n) => IsSettled(n)
  <2>1. UnwantedGoes /\ DeclaredComes
    BY <1>4 DEF SuccessInv, AllIsWell
  <2>2. \A n \in live : Handles(idx, n) => Stays(n)
    BY <1>1, <1>2, <1>3, <2>1 DEF UnwantedGoes, DropIsDue
  <2>3. \A n \in config.declared : Applies /\ Handles(idx, n) /\ IsManaged(n) => IsSettled(n)
    BY <1>1, <1>2, <1>3, <2>1 DEF DeclaredComes, IsDue
  <2> QED
    BY <2>2, <2>3
<1> QED
  BY <1>1, <1>2, <1>4, NextTurnSucceeds

\* The only resolver a whole invocation skips has nothing to do.
LEMMA SkipSucceeds == ASSUME CacheInv, SuccessInv, Skip PROVE SuccessInv'
<1>1. /\ pc = "resolver" /\ idx <= Len(Sequence) /\ IsSkipped /\ idx' = idx + 1
      /\ UNCHANGED <<scenario, live, drift, inv, pc, remaining, task, intention, results, outside>>
  BY DEF Skip, account
<1>2. idx \in Turns /\ DOMAIN task = {} /\ remaining = {}
  BY <1>1 DEF CacheInv, Progress, TasksAreSound, IsResolving, Turns
<1>3. ASSUME IsPromising, NEW n, n \in live \/ n \in config.declared, Handles(idx, n) PROVE FALSE
  <2>1. Resolver = "VIEW_DEPENDENT_FUNCTION" /\ Blueprints = {}
    BY <1>1, <1>3 DEF IsPromising, IsWhole, IsSkipped, Invocation
  <2>2. Sequence[idx] = "VIEW_DEPENDENT_FUNCTION" /\ TypeAt(idx) = "FUNCTION"
    BY <1>2, <2>1, TheResolver DEF TypeAt
  <2>3. n \in config.declared /\ DependsOn[n] # {} /\ TypeOf[n] = "FUNCTION"
    BY <1>3, <2>2 DEF Handles, IsDependent
  <2> QED
    BY <1>2, <2>1, <2>2, <2>3, TheResolver DEF Blueprints
<1> QED
  BY <1>1, <1>2, <1>3, NextTurnSucceeds

LEMMA StartSucceeds == ASSUME CacheInv, SuccessInv, Start PROVE SuccessInv'
<1>1. /\ pc = "start" /\ pc' = "resolver" /\ idx' = 1 /\ intention' = {}
      /\ UNCHANGED <<scenario, live, drift, inv, task, remaining, outside>>
  BY DEF Start, account
<1>2. \A i \in Turns' : i <= idx' => i = idx'
  BY <1>1 DEF Turns
<1>3. AllIsWell'
  BY <1>1, <1>2 DEF AllIsWell, UnwantedGoes, IntentionsAreKept, DeclaredComes
<1> QED
  BY <1>1, <1>3 DEF SuccessInv, SuccessMeansInStep, DestroyLeavesNothing

-----------------------------------------------------------------------------
(* The end of an invocation.                                               *)

\* Unless it is a destroy, an invocation comes to every object.
LEMMA SomeTurn ==
  ASSUME Invocation.action # "destroy", NEW o \in Objects
  PROVE  \E i \in Turns : Handles(i, o)
<1>1. TypeOf[o] \in Types
  BY ResolverAssumption
<1>2. Turns = 1..7
  BY TheTurns DEF Turns
<1>3. /\ TypeAt(1) = "DATABASE" /\ TypeAt(2) = "SCHEMA" /\ TypeAt(3) = "TABLE"
      /\ TypeAt(4) = "FUNCTION" /\ Sequence[4] = "FUNCTION" /\ TypeAt(5) = "PRIMARY_KEY"
      /\ TypeAt(6) = "VIEW" /\ TypeAt(7) = "FUNCTION" /\ Sequence[7] = "VIEW_DEPENDENT_FUNCTION"
  BY <1>2, TheTurns
<1>4. CASE TypeOf[o] = "DATABASE"
  BY <1>2, <1>3, <1>4 DEF Handles
<1>5. CASE TypeOf[o] = "SCHEMA"
  BY <1>2, <1>3, <1>5 DEF Handles
<1>6. CASE TypeOf[o] = "TABLE"
  BY <1>2, <1>3, <1>6 DEF Handles
<1>7. CASE TypeOf[o] = "PRIMARY_KEY"
  BY <1>2, <1>3, <1>7 DEF Handles
<1>8. CASE TypeOf[o] = "VIEW"
  BY <1>2, <1>3, <1>8 DEF Handles
<1>9. CASE TypeOf[o] = "FUNCTION"
  <2>1. CASE IsDependent(o)
    <3>1. Handles(7, o)
      BY <1>3, <1>9, <2>1 DEF Handles
    <3> QED
      BY <1>2, <3>1
  <2>2. CASE ~IsDependent(o)
    <3>1. Handles(4, o)
      BY <1>3, <1>9, <2>2 DEF Handles
    <3> QED
      BY <1>2, <3>1
  <2> QED
    BY <2>1, <2>2
<1> QED
  BY <1>1, <1>4, <1>5, <1>6, <1>7, <1>8, <1>9 DEF Types

\* Whatever there is is a database or lives in one.
LEMMA LivesInDatabase ==
  ASSUME AccountIsSound, NEW o \in live PROVE live \cap Databases # {}
<1>1. o \in Objects /\ live \subseteq Objects /\ \A n \in live : Within[n] \subseteq live
  BY DEF AccountIsSound
<1>2. CASE o \in Databases
  BY <1>2
<1>3. CASE o \in Schemas
  BY <1>1, <1>3, ResolverAssumption
<1>4. CASE o \notin Databases \cup Schemas
  <2>1. PICK s \in Within[o] : s \in Schemas
    BY <1>1, <1>4, ResolverAssumption
  <2>2. s \in live /\ Within[s] # {} /\ Within[s] \subseteq Databases
    BY <1>1, <2>1, ResolverAssumption
  <2> QED
    BY <1>1, <2>2
<1> QED
  BY <1>2, <1>3, <1>4

\* What is reached when all resolvers are done.
LEMMA DoneIsInStep ==
  ASSUME CacheInv, AllIsWell, Applies, pc = "resolver", idx > Len(Sequence) PROVE InStep
<1>1. /\ live \subseteq Objects /\ config.declared \subseteq Objects /\ Invocation.action # "destroy"
  BY ConfigIsSound DEF CacheInv, Progress, AccountIsSound, Applies
<1>2. \A i \in Turns : i <= idx /\ i # idx
  BY DEF Turns, CacheInv, Progress
<1>3. ASSUME NEW o \in config.declared, ~IsUnmanaged(o) PROVE o \in live /\ drift[o] = {}
  <2>1. PICK i \in Turns : Handles(i, o)
    BY <1>1, SomeTurn
  <2> QED
    BY <1>2, <1>3, <2>1 DEF AllIsWell, DeclaredComes, IsManaged, IsSettled
<1>4. ASSUME NEW o \in live \ config.declared PROVE Tolerated(o)
  <2>1. PICK i \in Turns : Handles(i, o)
    BY <1>1, SomeTurn
  <2> QED
    BY <1>2, <1>4, <2>1 DEF AllIsWell, UnwantedGoes, Stays
<1> QED
  BY <1>3, <1>4 DEF InStep

LEMMA DoneIsEmpty ==
  ASSUME CacheInv, AllIsWell, Invocation.action = "destroy", pc = "resolver", idx > Len(Sequence)
  PROVE  live = {}
<1> SUFFICES ASSUME NEW o \in live PROVE FALSE
  OBVIOUS
<1>1. PICK d \in live : d \in Databases
  BY LivesInDatabase DEF CacheInv
<1>2. 1 \in Turns /\ Handles(1, d)
  BY <1>1, TheTurns DEF Handles, Databases
<1>3. 1 <= idx /\ 1 # idx
  BY <1>2 DEF Turns, CacheInv, Progress
<1>4. ~Stays(d)
  BY DEF Stays, Applies
<1> QED
  BY <1>1, <1>2, <1>3, <1>4 DEF AllIsWell, UnwantedGoes

\* The invocation ends, and only one that came to its end succeeds.
LEMMA EndSucceeds ==
  ASSUME CacheInv, SuccessInv, pc # "start", NEW exit, Record(exit),
         UNCHANGED <<scenario, live, drift, outside>>,
         exit = "success" => pc = "resolver" /\ idx > Len(Sequence) /\ ~HasErrors
  PROVE  SuccessInv'
<1> DEFINE r == [action |-> Invocation.action, exit |-> exit, settings |-> Settings,
                 executed |-> executed, suggested |-> suggested]
<1>1. history' = Append(history, r) /\ inv' = inv + 1 /\ pc' = "start"
  BY DEF Record
<1>2. r.action = Invocation.action /\ r.exit = exit /\ r.settings = Settings
  OBVIOUS
<1> HIDE DEF r
<1>3. Len(history) = inv - 1 /\ history \in Seq(HistoryRecords) /\ inv \in Nat \ {0}
  BY DEF CacheInv, Progress
<1>4. Last' = inv /\ history'[inv] = r
  BY <1>1, <1>3 DEF Last
<1>5. /\ config' = config /\ Invocations' = Invocations
      /\ \A o : Tolerated(o)' <=> Tolerated(o)
      /\ \A o : IsUnmanaged(o)' <=> IsUnmanaged(o)
      /\ \A i : Invocations'[i] = Invocations[i]
  BY <1>4 DEF config, Invocations, Tolerated, Keeper, IsUnmanaged
<1>6. ASSUME exit = "success", IsWhole(inv), inv \notin outside,
             \/ Invocation.action = "apply" /\ Settings = Switches
             \/ Invocation.action = "destroy"
      PROVE  AllIsWell
  <2>1. \A o \in DOMAIN results : results[o] \notin {"ERROR", "UNSUPPORTED"}
    BY <1>6 DEF HasErrors
  <2>2. DOMAIN task = {}
    BY <1>6 DEF CacheInv, TasksAreSound, IsResolving
  <2>3. IsPromising
    BY <1>6, <2>1, <2>2 DEF IsPromising
  <2> QED
    BY <2>3 DEF SuccessInv
<1>7. SuccessMeansInStep'
  <2> SUFFICES ASSUME FullySucceeded(Last)', inv \notin outside PROVE InStep'
    BY <1>4 DEF SuccessMeansInStep
  <2>1. /\ r.exit = "success" /\ r.action = "apply" /\ r.settings = Switches
        /\ Invocations[inv].exclude = {} /\ Invocations[inv].include = {}
    BY <1>4, <1>5 DEF FullySucceeded, IsWhole
  <2>2. exit = "success" /\ Applies /\ AllIsWell
    BY <1>2, <1>6, <2>1 DEF IsWhole, Applies
  <2>3. InStep
    BY <2>2, DoneIsInStep
  <2> QED
    BY <1>5, <2>3 DEF InStep
<1>8. DestroyLeavesNothing'
  <2> SUFFICES ASSUME history'[Last'].action = "destroy", history'[Last'].exit = "success",
                      IsWhole(Last)', inv \notin outside
               PROVE  live = {}
    BY <1>4 DEF DestroyLeavesNothing
  <2>1. /\ r.exit = "success" /\ r.action = "destroy"
        /\ Invocations[inv].exclude = {} /\ Invocations[inv].include = {}
    BY <1>4, <1>5 DEF IsWhole
  <2>2. exit = "success" /\ Invocation.action = "destroy" /\ AllIsWell
    BY <1>2, <1>6, <2>1 DEF IsWhole
  <2> QED
    BY <2>2, DoneIsEmpty
<1> QED
  BY <1>1, <1>7, <1>8 DEF SuccessInv, IsPromising

LEMMA ExitSucceeds ==
  ASSUME CacheInv, SuccessInv, Exit \/ AbortOnMissingSchema \/ AbortOnQueryFailure \/ Crash
  PROVE  SuccessInv'
<1>1. /\ pc # "start" /\ UNCHANGED <<scenario, live, drift, outside>>
      /\ \E exit \in {"success", "errors", "aborted"} :
           /\ Record(exit)
           /\ exit = "success" => pc = "resolver" /\ idx > Len(Sequence) /\ ~HasErrors
  <2>1. CASE Exit
    <3>1. CASE HasErrors
      BY <2>1, <3>1 DEF Exit, account
    <3>2. CASE ~HasErrors
      BY <2>1, <3>2 DEF Exit, account
    <3> QED
      BY <3>1, <3>2
  <2>2. CASE AbortOnMissingSchema
    BY <2>2 DEF AbortOnMissingSchema, account
  <2>3. CASE AbortOnQueryFailure
    BY <2>3 DEF AbortOnQueryFailure, account
  <2>4. CASE Crash
    BY <2>4 DEF Crash, account
  <2> QED
    BY <2>1, <2>2, <2>3, <2>4
<1> QED
  BY <1>1, EndSucceeds

\* Nothing is promised about an account that someone else changes.
LEMMA OutsideSucceeds ==
  ASSUME SuccessInv, NEW o \in Objects, OutsideDrop(o) \/ OutsideCreate(o)
  PROVE  SuccessInv'
<1>1. pc # "start" /\ pc' = pc /\ inv' = inv /\ inv \in outside'
  BY DEF OutsideDrop, OutsideCreate, Disturb
<1> QED
  BY <1>1 DEF SuccessInv, SuccessMeansInStep, DestroyLeavesNothing, IsPromising

LEMMA StutterSucceeds == ASSUME SuccessInv, UNCHANGED vars PROVE SuccessInv'
<1>1. UNCHANGED <<scenario, live, drift, inv, pc, idx, existing, remaining, task, intention,
                  results, outside, history>>
  BY DEF vars
<1>2. /\ \A n : Stays(n)' <=> Stays(n)
      /\ \A n : IsManaged(n)' <=> IsManaged(n)
      /\ Applies' <=> Applies
      /\ Turns' = Turns /\ config' = config
      /\ \A i, n : Handles(i, n)' <=> Handles(i, n)
  BY <1>1, SameDuty, SameTurns
<1>3. IsPromising' => IsPromising
  BY <1>1, StillPromising DEF IsPromising
<1>4. ASSUME UnwantedGoes PROVE UnwantedGoes'
  BY <1>1, <1>2, <1>4 DEF UnwantedGoes, DropIsDue, DropOf
<1>5. ASSUME IntentionsAreKept PROVE IntentionsAreKept'
  <2>1. \A n : DropIsDue(n)' <=> DropIsDue(n)
    BY <1>1 DEF DropIsDue, DropOf
  <2> QED
    BY <1>1, <1>2, <1>5, <2>1 DEF IntentionsAreKept, Inside
<1>6. \A n : IsDue(n) => IsDue(n)'
  <2> SUFFICES ASSUME NEW n, IsDue(n) PROVE IsDue(n)'
    OBVIOUS
  <2>1. (\A q : Completes(n, q) => Completes(n, q)') /\ (IsListed(n)' <=> IsListed(n))
    BY <1>1, SameForOthers
  <2>2. CASE n \in DOMAIN task /\ task[n].stage = "running" /\ Completes(n, task[n].statements)
    <3>1. PICK q : q = task[n].statements
      OBVIOUS
    <3>2. Completes(n, q)' /\ n \in DOMAIN task' /\ task'[n].stage = "running"
          /\ task'[n].statements = q
      BY <1>1, <2>1, <2>2, <3>1
    <3> QED
      BY <3>2, RunningTask
  <2> QED
    BY <1>1, <2>1, <2>2 DEF IsDue
<1>7. ASSUME DeclaredComes PROVE DeclaredComes'
  BY <1>1, <1>2, <1>6, <1>7 DEF DeclaredComes, IsSettled
<1>8. SuccessMeansInStep' /\ DestroyLeavesNothing'
  BY <1>1 DEF SuccessInv, SuccessMeansInStep, DestroyLeavesNothing, Last, FullySucceeded, IsWhole,
              Invocations, InStep, config, IsUnmanaged, Tolerated, Keeper
<1> QED
  BY <1>3, <1>4, <1>5, <1>7, <1>8 DEF SuccessInv, AllIsWell

-----------------------------------------------------------------------------
(* The invariant holds, and with it the properties.                        *)

LEMMA SuccessInvInit == Init => SuccessInv
  BY DEF Init, SuccessInv, IsPromising, SuccessMeansInStep, DestroyLeavesNothing, Last

LEMMA SuccessInvStep == LossInv /\ CacheInv /\ SuccessInv /\ [Next]_vars => SuccessInv'
<1> SUFFICES ASSUME LossInv, CacheInv, SuccessInv, [Next]_vars PROVE SuccessInv'
  OBVIOUS
<1>1. CASE Worker
  BY <1>1, StartTaskSucceeds, SuggestSucceeds, ExecuteSucceeds, RaiseSucceeds DEF Worker
<1>2. ASSUME NEW o \in Objects, Collect(o) PROVE SuccessInv'
  BY <1>2, CollectSucceeds
<1>3. CASE Start \/ Skip \/ Begin \/ SubmitBatch \/ Finish
  BY <1>3, StartSucceeds, SkipSucceeds, BeginSucceeds, BatchSucceeds, FinishSucceeds
<1>4. CASE Exit \/ AbortOnMissingSchema \/ AbortOnQueryFailure \/ Crash
  BY <1>4, ExitSucceeds
<1>5. CASE Outside
  BY <1>5, OutsideSucceeds DEF Outside
<1>6. CASE UNCHANGED vars
  BY <1>6, StutterSucceeds
<1> QED
  BY <1>1, <1>2, <1>3, <1>4, <1>5, <1>6 DEF Next, Main, Faults, Idle

LEMMA SuccessInvHolds == Spec => []SuccessInv
  BY SuccessInvInit, SuccessInvStep, LossInvHolds, CacheInvHolds, PTL DEF Spec

\* An apply of everything that is allowed everything and exits 0 leaves the
\* account as it is declared (SuccessMeansInStep): the intention cache hides no
\* drop that is needed, no batch forgets a blueprint, the compare of a type
\* sees all that differs, and no error is lost, whatever earlier invocations
\* that failed or died left half done (abc_resolver.py, app/base.py execute).
THEOREM SuccessIsInStep == Spec => []SuccessMeansInStep
<1>1. SuccessInv => SuccessMeansInStep
  BY DEF SuccessInv
<1> QED
  BY <1>1, SuccessInvHolds, PTL

\* A destroy that exits 0 leaves nothing (DestroyLeavesNothing): it drops each
\* database and so what lives in one, sandboxes and undeclared ones included
\* (_destroy_drop, default_destroy_sequence).
THEOREM DestroyIsComplete == Spec => []DestroyLeavesNothing
<1>1. SuccessInv => DestroyLeavesNothing
  BY DEF SuccessInv
<1> QED
  BY <1>1, SuccessInvHolds, PTL

-----------------------------------------------------------------------------
(* The inductive invariant about the plan after an apply.                  *)

IsManagedView(o) == IsManaged(o) /\ TypeOf[o] = "VIEW"

\* It has not been compared yet, or is about to be created.
IsWaiting(o) ==
  \/ pc = "resolver" \/ o \in remaining
  \/ /\ o \in DOMAIN task
     /\ \/ task[o].stage = "queued"
        \/ /\ task[o].statements # <<>>
           /\ Head(task[o].statements).op \in {"CREATE", "REPLACE"}

\* From the turn of the view resolver, which is the sixth, until it has come
\* to a view nothing is known of what the view uses.
ViewsSee ==
  Applies /\ idx >= 6 => \A o \in config.declared : IsManagedView(o) =>
    \/ idx = 6 /\ IsWaiting(o)
    \/ Uses[o] \subseteq live /\ (idx = 6 => pc = "create")

Converged ==
  InStep /\ \A o \in config.declared : IsManagedView(o) => Uses[o] \subseteq live

SuccessConverges ==
  pc = "start" /\ Last > 0 /\ FullySucceeded(Last) /\ Last \notin outside => Converged

\* The plan that ConvergedPlanIsEmpty is about.
IsCheck ==
  /\ pc # "start" /\ inv > 1 /\ Invocation.action = "plan"
  /\ FullySucceeded(inv - 1) /\ outside \cap {inv - 1, inv} = {}

IsQuiet ==
  /\ suggested = {} /\ cache = LoadedCache
  /\ IsResolving => \A o \in Objects : Handles(idx, o) => IsListed(o)
  /\ pc = "drop" => DOMAIN task = {}
  /\ pc = "create" => \A o \in DOMAIN task : IsManaged(o) /\ task[o].statements = <<>>

CheckIsQuiet == IsCheck => Converged /\ IsQuiet

PlanInv ==
  /\ IsPromising => ViewsSee
  /\ SuccessConverges /\ CheckIsQuiet /\ ConvergedPlanIsEmpty

-----------------------------------------------------------------------------
(* What views use stays.                                                   *)

LEMMA ViewTurn ==
  ASSUME Applies
  PROVE  /\ Sequence = ResolveSequence /\ Turns = 1..7
         /\ TypeAt(6) = "VIEW" /\ Sequence[6] = "VIEW"
         /\ TypeAt(7) = "FUNCTION" /\ Sequence[7] = "VIEW_DEPENDENT_FUNCTION"
<1>1. Sequence = ResolveSequence
  BY DEF Applies, Sequence
<1> QED
  BY <1>1, TheSequences DEF Turns, TypeAt

\* An apply's second function resolver drops nothing, and what resolvers of
\* views and functions replace has nothing inside.
LEMMA NothingIsLost ==
  ASSUME LossInv, CacheInv, Applies, idx \in {6, 7}, idx = 7 \/ pc = "create",
         NEW o \in Objects, Execute(o)
  PROVE  live \subseteq live'
<1> DEFINE s == Head(task[o].statements)
<1>1. HasStatement(o) /\ live' = LiveAfter(s)
  BY DEF Execute
<1>2. /\ o \in DOMAIN task /\ task[o].statements # <<>> /\ s \in StatementsOf(o)
      /\ IsResolving /\ Handles(idx, o)
  BY <1>1, NextStatement
<1>3. TypeOf[o] \in {"VIEW", "FUNCTION"} /\ (idx = 7 => TypeOf[o] = "FUNCTION" /\ IsDependent(o))
  BY <1>2, ViewTurn DEF Handles
<1>4. s.op \in {"CREATE", "REPLACE", "ALTER", "DROP"} /\ s.obj = o
  BY <1>2, <1>3, StatementIsSound DEF Databases
<1>5. pc = "create"
  <2> SUFFICES ASSUME pc = "drop" PROVE FALSE
    BY <1>2 DEF IsResolving
  <2>1. IsUnwanted(o)
    BY <1>2 DEF LossInv, DropsAreUnwanted, Applies
  <2> QED
    BY <1>3, <2>1 DEF IsUnwanted, IsDependent
<1>6. s \in KeepingData
  <2>1. task[o].statements \in Seq(KeepingData)
    BY <1>2, <1>3, <1>5 DEF LossInv, OthersKeepData, IsCreatingDatabase
  <2> QED
    BY <1>2, <2>1, HeadAndTail
<1>7. s.op # "DROP"
  BY <1>3, <1>4, <1>6 DEF KeepingData, Typed
<1> SUFFICES ASSUME NEW n \in live, n \notin live' PROVE FALSE
  OBVIOUS
<1> HIDE DEF s
<1>8. n \in Inside(o)
  BY <1>1, <1>4, <1>7, LossOfStatement
<1> QED
  BY <1>3, <1>8, WhatContains

LEMMA ExecuteSees ==
  ASSUME LossInv, CacheInv, ViewsSee, NEW o \in Objects, Execute(o) PROVE ViewsSee'
<1> DEFINE s == Head(task[o].statements)
<1>1. /\ HasStatement(o) /\ Advance(o) /\ IsLegal(s)
      /\ UNCHANGED <<scenario, inv, pc, idx, remaining>>
  BY DEF Execute
<1>2. /\ o \in DOMAIN task /\ task[o].stage = "running" /\ task[o].statements # <<>>
      /\ s \in StatementsOf(o) /\ IsResolving /\ Handles(idx, o) /\ idx \in Turns
  BY <1>1, NextStatement
<1>3. DOMAIN task' = DOMAIN task /\ \A n \in DOMAIN task \ {o} : task'[n] = task[n]
  BY <1>1 DEF Advance
<1>4. /\ Applies' <=> Applies
      /\ \A n : IsManagedView(n)' <=> IsManagedView(n)
      /\ config' = config
  BY <1>1, SameDuty DEF IsManagedView
<1> SUFFICES ASSUME Applies, idx >= 6, NEW v \in config.declared, IsManagedView(v)
             PROVE  \/ idx = 6 /\ IsWaiting(v)'
                    \/ Uses[v] \subseteq live' /\ (idx = 6 => pc = "create")
  BY <1>1, <1>4 DEF ViewsSee
<1>5. idx \in {6, 7}
  BY <1>2, ViewTurn
<1>6. \/ idx = 6 /\ IsWaiting(v)
      \/ Uses[v] \subseteq live /\ (idx = 6 => pc = "create")
  BY DEF ViewsSee
<1>7. CASE Uses[v] \subseteq live /\ (idx = 6 => pc = "create")
  BY <1>5, <1>7, NothingIsLost
<1>8. CASE idx = 6 /\ IsWaiting(v) /\ v # o
  BY <1>1, <1>3, <1>8 DEF IsWaiting
<1>9. CASE idx = 6 /\ IsWaiting(v) /\ v = o
  <2>1. pc = "create"
    BY <1>2, <1>9 DEF IsResolving, LossInv, DropsAreUnwanted, IsUnwanted, Applies
  <2>2. o \notin remaining
    BY <1>2 DEF IsResolving, CacheInv, EachToItsOwn
  <2>3. s.op \in {"CREATE", "REPLACE"}
    BY <1>2, <1>9, <2>1, <2>2 DEF IsWaiting
  <2>4. s.obj = o
    BY <1>2, <2>3, StatementIsSound
  <2>5. Uses[o] \subseteq live
    BY <1>1, <2>3, <2>4 DEF IsLegal
  <2> QED
    BY <1>9, <2>1, <2>5, NothingIsLost
<1> QED
  BY <1>6, <1>7, <1>8, <1>9

\* A view is only left alone if it can be described.
LEMMA StartTaskSees ==
  ASSUME LossInv, CacheInv, ViewsSee, NEW o \in Objects, StartTask(o) PROVE ViewsSee'
<1> DEFINE reply == ReplyFor(o)
<1>1. /\ o \in DOMAIN task /\ task[o].stage = "queued"
      /\ task' = [task EXCEPT ![o] = [stage |-> "running", result |-> reply.result,
                                      statements |-> reply.statements]]
      /\ UNCHANGED <<scenario, live, inv, pc, idx, remaining>>
  BY DEF StartTask, account
<1>2. /\ DOMAIN task' = DOMAIN task /\ task'[o].statements = reply.statements
      /\ \A n \in DOMAIN task \ {o} : task'[n] = task[n]
  BY <1>1
<1>3. pc = "drop" \/ pc = "create"
  BY <1>1 DEF CacheInv, TasksAreSound, IsResolving
<1>4. /\ Applies' <=> Applies
      /\ \A n : IsManagedView(n)' <=> IsManagedView(n)
      /\ config' = config
  BY <1>1, SameDuty DEF IsManagedView
<1> SUFFICES ASSUME Applies, idx >= 6, NEW v \in config.declared, IsManagedView(v)
             PROVE  \/ idx = 6 /\ IsWaiting(v)'
                    \/ Uses[v] \subseteq live /\ (idx = 6 => pc = "create")
  BY <1>1, <1>4 DEF ViewsSee
<1>5. CASE v # o
  BY <1>1, <1>2, <1>5 DEF ViewsSee, IsWaiting
<1>6. CASE v = o /\ idx = 6
  <2>1. pc = "create"
    BY <1>1, <1>3, <1>6 DEF LossInv, DropsAreUnwanted, IsUnwanted, Applies
  <2>2. TypeOf[o] = "VIEW"
    BY <1>6 DEF IsManagedView
  <2>3. reply = IF o \in DOMAIN existing THEN CompareReply(o) ELSE CreateReply(o)
    BY <2>1, AnyReply
  <2>4. Uses[o] \subseteq live \/ reply.statements = CreateView(o).statements
    BY <2>2, <2>3 DEF CompareReply, CreateReply, CompareView, Reply
  <2>5. CASE reply.statements = CreateView(o).statements
    <3>1. reply.statements = << Statement("REPLACE", o, Safe, {"comment"}),
                                Statement("ALTER", o, Safe, {"comment"}) >>
      BY <2>5 DEF CreateView, Reply
    <3>2. Statement("REPLACE", o, Safe, {"comment"}).op = "REPLACE"
      BY DEF Statement
    <3>3. reply.statements # <<>> /\ Head(reply.statements).op = "REPLACE"
      BY <3>1, <3>2, TailOfTwo, PairIsNotEmpty
    <3> QED
      BY <1>1, <1>2, <1>6, <3>3 DEF IsWaiting
  <2> QED
    BY <1>6, <2>1, <2>4, <2>5
<1>7. CASE v = o /\ idx # 6
  BY <1>7 DEF ViewsSee
<1> QED
  BY <1>5, <1>6, <1>7

LEMMA CollectSees ==
  ASSUME CacheInv, ViewsSee, NEW o \in Objects, Collect(o) PROVE ViewsSee'
<1>1. /\ o \in DOMAIN task /\ task[o].stage = "running" /\ task[o].statements = <<>>
      /\ DOMAIN task' = DOMAIN task \ {o} /\ \A n \in DOMAIN task' : task'[n] = task[n]
      /\ UNCHANGED <<scenario, live, inv, pc, idx, remaining>>
  BY DEF Collect, account
<1>2. /\ Applies' <=> Applies
      /\ \A n : IsManagedView(n)' <=> IsManagedView(n)
      /\ config' = config
  BY <1>1, SameDuty DEF IsManagedView
<1>3. \A v : IsWaiting(v) => IsWaiting(v)'
  BY <1>1 DEF IsWaiting
<1> QED
  BY <1>1, <1>2, <1>3 DEF ViewsSee

LEMMA BatchSees == ASSUME CacheInv, ViewsSee, SubmitBatch PROVE ViewsSee'
<1> DEFINE batch == NextBatch \ {o \in NextBatch : IsUnmanaged(o)}
<1>1. /\ pc \in {"drop", "create"} /\ DOMAIN task = {} /\ pc' = "create"
      /\ task' = Queued(batch) /\ remaining' = remaining \ NextBatch
      /\ UNCHANGED <<scenario, live, inv, idx>>
  BY DEF SubmitBatch, account
<1>2. \A o \in NextBatch : ~IsUnmanaged(o) => o \in batch
  OBVIOUS
<1> HIDE DEF batch
<1>3. DOMAIN task' = batch /\ \A o \in batch : task'[o].stage = "queued"
  BY <1>1, QueuedTasks
<1>4. /\ Applies' <=> Applies
      /\ \A n : IsManagedView(n)' <=> IsManagedView(n)
      /\ config' = config
  BY <1>1, SameDuty DEF IsManagedView
<1>5. ASSUME NEW v, IsManagedView(v), IsWaiting(v) PROVE IsWaiting(v)'
  <2>1. v \in remaining /\ ~IsUnmanaged(v)
    BY <1>1, <1>5 DEF IsWaiting, IsManagedView, IsManaged
  <2>2. v \in remaining' \/ v \in batch
    BY <1>1, <1>2, <2>1
  <2> QED
    BY <1>3, <2>2 DEF IsWaiting
<1> QED
  BY <1>1, <1>4, <1>5 DEF ViewsSee

LEMMA BeginSees == ASSUME CacheInv, ViewsSee, Begin PROVE ViewsSee'
<1>1. /\ pc = "resolver" /\ idx <= Len(Sequence) /\ pc' = "drop"
      /\ remaining' = IF Invocation.action = "destroy" THEN {} ELSE Batchable
      /\ UNCHANGED <<scenario, live, inv, idx>>
  BY DEF Begin, account
<1>2. /\ Applies' <=> Applies
      /\ \A n : IsManagedView(n)' <=> IsManagedView(n)
      /\ config' = config
  BY <1>1, SameDuty DEF IsManagedView
<1>3. ASSUME Applies, idx = 6, NEW v \in config.declared, IsManagedView(v) PROVE IsWaiting(v)'
  <2>1. idx \in Turns /\ Handles(idx, v)
    BY <1>3, ViewTurn DEF Handles, IsManagedView
  <2>2. v \in remaining'
    BY <1>1, <1>3, <2>1, DeclaredIsBatched DEF Applies
  <2> QED
    BY <2>2 DEF IsWaiting
<1> QED
  BY <1>1, <1>2, <1>3 DEF ViewsSee

\* The next resolver's turn: all views have been come to by the end of theirs.
LEMMA NextTurnSees ==
  ASSUME CacheInv, ViewsSee, idx' = idx + 1, pc' = "resolver",
         UNCHANGED <<scenario, live, inv>>,
         Applies /\ idx = 6 => \A v \in config.declared : IsManagedView(v) => ~IsWaiting(v)
  PROVE  ViewsSee'
<1>1. /\ Applies' <=> Applies
      /\ \A n : IsManagedView(n)' <=> IsManagedView(n)
      /\ config' = config
  BY SameDuty DEF IsManagedView
<1> SUFFICES ASSUME Applies, idx + 1 >= 6, idx + 1 # 6, NEW v \in config.declared,
                    IsManagedView(v)
             PROVE  Uses[v] \subseteq live
  BY <1>1 DEF ViewsSee, IsWaiting
<1>2. idx >= 6
  BY DEF CacheInv, Progress
<1> QED
  BY <1>2 DEF ViewsSee

LEMMA FinishSees == ASSUME CacheInv, ViewsSee, Finish PROVE ViewsSee'
<1>1. /\ pc \in {"drop", "create"} /\ DOMAIN task = {} /\ remaining = {}
      /\ idx' = idx + 1 /\ pc' = "resolver" /\ UNCHANGED <<scenario, live, inv>>
  BY DEF Finish, account
<1>2. \A v : ~IsWaiting(v)
  BY <1>1 DEF IsWaiting
<1> QED
  BY <1>1, <1>2, NextTurnSees

LEMMA SkipSees == ASSUME CacheInv, IsPromising, ViewsSee, Skip PROVE ViewsSee'
<1>1. /\ pc = "resolver" /\ IsSkipped /\ idx' = idx + 1 /\ pc' = "resolver"
      /\ UNCHANGED <<scenario, live, inv>>
  BY DEF Skip, account
<1>2. Resolver = "VIEW_DEPENDENT_FUNCTION"
  BY <1>1 DEF IsPromising, IsWhole, IsSkipped, Invocation
<1>3. ~(Applies /\ idx = 6)
  BY <1>2, ViewTurn DEF Resolver
<1> QED
  BY <1>1, <1>3, NextTurnSees

LEMMA ViewsSeeStep ==
  ASSUME LossInv, CacheInv, SuccessInv, IsPromising => ViewsSee, [Next]_vars, IsPromising'
  PROVE  ViewsSee'
<1>1. pc' # "start" /\ inv' \notin outside'
  BY DEF IsPromising
<1>2. CASE \E o \in Objects : StartTask(o) \/ Execute(o) \/ Collect(o)
  <2>1. IsPromising
    BY <1>2, PromisedBefore
  <2> QED
    BY <1>2, <2>1, StartTaskSees, ExecuteSees, CollectSees
<1>3. CASE Skip \/ Begin \/ SubmitBatch \/ Finish
  <2>1. IsPromising
    BY <1>3, PromisedBefore
  <2> QED
    BY <1>3, <2>1, SkipSees, BeginSees, BatchSees, FinishSees
<1>4. ASSUME NEW o \in Objects, Suggest(o) \/ Raise(o) PROVE FALSE
  <2>1. IsPromising
    BY <1>4, PromisedBefore
  <2>2. CASE Suggest(o)
    BY <2>1, <2>2, AllIsExecuted DEF SuccessInv, AllIsWell, Suggest
  <2>3. CASE Raise(o)
    <3>1. o \in DOMAIN task' /\ task'[o].result = "ERROR"
      BY <2>3 DEF Raise, HasStatement
    <3> QED
      BY <3>1 DEF IsPromising
  <2> QED
    BY <1>4, <2>2, <2>3
<1>5. CASE Start
  BY <1>5 DEF Start, ViewsSee
<1>6. CASE Exit \/ AbortOnMissingSchema \/ AbortOnQueryFailure \/ Crash
  BY <1>1, <1>6 DEF Exit, AbortOnMissingSchema, AbortOnQueryFailure, Crash, Record
<1>7. ASSUME NEW o \in Objects, OutsideDrop(o) \/ OutsideCreate(o) PROVE FALSE
  BY <1>1, <1>7 DEF OutsideDrop, OutsideCreate, Disturb
<1>8. CASE UNCHANGED vars
  <2>1. UNCHANGED <<scenario, live, inv, pc, idx, task, results, outside, remaining>>
    BY <1>8 DEF vars
  <2>2. IsPromising /\ (Applies' <=> Applies) /\ config' = config
    BY <2>1, SameDuty DEF IsPromising
  <2>3. \A n : IsManagedView(n)' <=> IsManagedView(n)
    BY <2>1, SameDuty DEF IsManagedView
  <2> QED
    BY <2>1, <2>2, <2>3 DEF ViewsSee, IsWaiting
<1> QED
  BY <1>2, <1>3, <1>4, <1>5, <1>6, <1>7, <1>8 DEF Next, Worker, Main, Faults, Outside, Idle

-----------------------------------------------------------------------------
(* The end of an apply, and the plan after it.                             *)

LEMMA DoneConverges ==
  ASSUME CacheInv, AllIsWell, ViewsSee, Applies, pc = "resolver", idx > Len(Sequence)
  PROVE  Converged
<1>1. InStep
  BY DoneIsInStep
<1>2. idx >= 6 /\ idx # 6
  <2>1. Len(Sequence) = 7
    BY ViewTurn, TheSequences
  <2> QED
    BY <2>1 DEF CacheInv, Progress
<1> QED
  BY <1>1, <1>2 DEF ViewsSee, Converged

\* An end which is recorded leaves converged what it should, and the record
\* of a plan that is a check has no suggestion.
LEMMA EndConverges ==
  ASSUME CacheInv, SuccessInv, PlanInv, pc # "start", NEW exit, Record(exit),
         UNCHANGED <<scenario, live, drift, outside>>,
         exit = "success" => pc = "resolver" /\ idx > Len(Sequence) /\ ~HasErrors
  PROVE  SuccessConverges' /\ ConvergedPlanIsEmpty'
<1> DEFINE r == [action |-> Invocation.action, exit |-> exit, settings |-> Settings,
                 executed |-> executed, suggested |-> suggested]
<1>1. history' = Append(history, r) /\ inv' = inv + 1 /\ pc' = "start"
  BY DEF Record
<1>2. /\ r.action = Invocation.action /\ r.exit = exit /\ r.settings = Settings
      /\ r.suggested = suggested
  OBVIOUS
<1> HIDE DEF r
<1>3. Len(history) = inv - 1 /\ history \in Seq(HistoryRecords) /\ inv \in Nat \ {0}
  BY DEF CacheInv, Progress
<1>4. /\ Last = inv - 1 /\ Last' = inv /\ history'[inv] = r
      /\ \A i \in 1..(inv - 1) : history'[i] = history[i]
  BY <1>1, <1>3 DEF Last
<1>5. /\ config' = config /\ Invocations' = Invocations
      /\ \A o : Tolerated(o)' <=> Tolerated(o)
      /\ \A o : IsUnmanaged(o)' <=> IsUnmanaged(o)
      /\ \A o : IsManagedView(o)' <=> IsManagedView(o)
  BY DEF config, Invocations, Tolerated, Keeper, IsUnmanaged, IsManagedView, IsManaged
<1>6. SuccessConverges'
  <2> SUFFICES ASSUME FullySucceeded(Last)', inv \notin outside PROVE Converged'
    BY <1>4 DEF SuccessConverges
  <2>1. /\ r.exit = "success" /\ r.action = "apply" /\ r.settings = Switches
        /\ Invocations[inv].exclude = {} /\ Invocations[inv].include = {}
    BY <1>4, <1>5 DEF FullySucceeded, IsWhole
  <2>2. pc = "resolver" /\ idx > Len(Sequence) /\ ~HasErrors /\ Applies /\ Settings = Switches
    BY <1>2, <2>1 DEF Applies
  <2>3. DOMAIN task = {}
    BY <2>2 DEF CacheInv, TasksAreSound, IsResolving
  <2>4. IsPromising
    BY <2>1, <2>2, <2>3 DEF IsPromising, HasErrors, IsWhole, Applies
  <2>5. Converged
    BY <2>2, <2>4, DoneConverges DEF SuccessInv, PlanInv
  <2> QED
    BY <1>5, <2>5 DEF Converged, InStep
<1>7. ConvergedPlanIsEmpty'
  <2> SUFFICES ASSUME NEW i \in 2..inv, FullySucceeded(i - 1)', history'[i].action = "plan",
                      outside \cap {i - 1, i} = {}
               PROVE  history'[i].suggested = {}
    BY <1>4 DEF ConvergedPlanIsEmpty
  <2>1. i - 1 \in 1..(inv - 1)
    BY <1>3
  <2>2. FullySucceeded(i - 1)
    BY <1>4, <1>5, <2>1 DEF FullySucceeded, IsWhole
  <2>3. CASE i = inv
    <3>1. IsCheck
      BY <1>2, <1>3, <1>4, <2>2, <2>3 DEF IsCheck
    <3> QED
      BY <1>2, <1>4, <2>3, <3>1 DEF PlanInv, CheckIsQuiet, IsQuiet
  <2>4. CASE i # inv
    <3>1. i \in 2..Last /\ history'[i] = history[i]
      BY <1>3, <1>4, <2>4
    <3> QED
      BY <2>2, <3>1 DEF PlanInv, ConvergedPlanIsEmpty
  <2> QED
    BY <2>3, <2>4
<1> QED
  BY <1>6, <1>7

\* No resolver's compare says anything about an object that is as declared.
LEMMA QuietCompare ==
  ASSUME NEW o \in Objects, existing[o] = {}, TypeOf[o] = "VIEW" => Uses[o] \subseteq live
  PROVE  CompareReply(o).statements = <<>>
<1>1. TypeOf[o] \in Types
  BY ResolverAssumption
<1>2. \A a, g : AlterIf(o, existing[o], a, g) = <<>>
  BY DEF AlterIf
<1>3. <<>> \o <<>> = <<>>
  OBVIOUS
<1>4. Altered(<<>>).statements = <<>>
  BY DEF Altered, Reply
<1>5. CASE TypeOf[o] = "DATABASE"
  BY <1>2, <1>3, <1>4, <1>5 DEF CompareReply, CompareDatabase
<1>6. CASE TypeOf[o] = "SCHEMA"
  BY <1>2, <1>3, <1>4, <1>6 DEF CompareReply, CompareSchema
<1>7. CASE TypeOf[o] = "TABLE"
  BY <1>2, <1>3, <1>4, <1>7 DEF CompareReply, CompareTable
<1>8. CASE TypeOf[o] = "FUNCTION"
  BY <1>8 DEF CompareReply, CompareFunction, Reply
<1>9. CASE TypeOf[o] = "PRIMARY_KEY"
  BY <1>9 DEF CompareReply, ComparePrimaryKey, Reply
<1>10. CASE TypeOf[o] = "VIEW"
  BY <1>2, <1>4, <1>10 DEF CompareReply, CompareView
<1> QED
  BY <1>1, <1>5, <1>6, <1>7, <1>8, <1>9, <1>10 DEF Types

\* What is not declared and not tolerated is not there to be dropped.
LEMMA NothingToDrop ==
  ASSUME CacheInv, InStep, cache = LoadedCache, Invocation.action = "plan",
         pc = "resolver", idx <= Len(Sequence)
  PROVE  DropTargets(ExistingObjects) = {}
<1> SUFFICES ASSUME NEW o \in DropTargets(ExistingObjects) PROVE FALSE
  OBVIOUS
<1>1. o \in Objects /\ IsUnwanted(o)
  BY TargetsAreUnwanted
<1>2. idx \in Turns /\ Handles(idx, o)
  BY OwnTargets DEF CacheInv
<1>3. o \in DOMAIN ExistingObjects
  BY DEF DropTargets, ResolveDropTargets
<1>4. o \in live \ config.declared
  BY <1>1, <1>2, <1>3, RowsAreRight DEF CacheInv, IsUnwanted
<1> QED
  BY <1>1, <1>4 DEF InStep, Tolerated, IsUnwanted

\* Within the invocation nothing changes what a check is or is about.
LEMMA SameCheck ==
  ASSUME UNCHANGED <<scenario, inv, history, outside>>, pc # "start", IsCheck'
  PROVE  IsCheck
  BY SameInvocation DEF IsCheck, FullySucceeded, IsWhole, Invocations

LEMMA SameConverged ==
  ASSUME UNCHANGED <<scenario, live, drift>>, Converged PROVE Converged'
<1>1. /\ config' = config
      /\ \A o : Tolerated(o)' <=> Tolerated(o)
      /\ \A o : IsUnmanaged(o)' <=> IsUnmanaged(o)
      /\ \A o : IsManagedView(o)' <=> IsManagedView(o)
  BY DEF config, Tolerated, Keeper, IsUnmanaged, IsManagedView, IsManaged
<1> QED
  BY <1>1 DEF Converged, InStep

LEMMA SameHistory ==
  ASSUME UNCHANGED <<scenario, history>>, outside \subseteq outside', ConvergedPlanIsEmpty
  PROVE  ConvergedPlanIsEmpty'
<1>1. \A i : FullySucceeded(i)' <=> FullySucceeded(i)
  BY DEF FullySucceeded, IsWhole, Invocations
<1> QED
  BY <1>1 DEF ConvergedPlanIsEmpty, Last

\* No task of a check has anything to execute or to suggest.
LEMMA NothingToSay ==
  ASSUME CacheInv, IsQuiet, NEW o, HasStatement(o) PROVE FALSE
<1>1. o \in DOMAIN task /\ task[o].statements # <<>>
  BY DEF HasStatement
<1>2. pc \in {"drop", "create"}
  BY <1>1 DEF CacheInv, TasksAreSound, IsResolving
<1> QED
  BY <1>1, <1>2 DEF IsQuiet

LEMMA StartIsQuiet ==
  ASSUME CacheInv, SuccessConverges, Start, IsCheck' PROVE Converged' /\ IsQuiet'
<1>1. /\ pc = "start" /\ pc' = "resolver" /\ suggested' = {} /\ cache' = LoadedCache
      /\ UNCHANGED <<scenario, live, drift, inv, outside, history>>
  BY DEF Start, account
<1>2. Last = inv - 1 /\ inv \in Nat
  BY DEF CacheInv, Progress, Last
<1>3. /\ inv > 1 /\ FullySucceeded(inv - 1) /\ outside \cap {inv - 1, inv} = {}
  BY <1>1 DEF IsCheck, FullySucceeded, IsWhole, Invocations
<1>4. Converged
  BY <1>1, <1>2, <1>3 DEF SuccessConverges
<1>5. LoadedCache' = LoadedCache
  BY <1>1, SameAccount DEF account
<1> QED
  BY <1>1, <1>4, <1>5, SameConverged DEF IsQuiet, IsResolving

LEMMA BeginIsQuiet ==
  ASSUME CacheInv, Converged, IsQuiet, Invocation.action = "plan", Begin PROVE IsQuiet'
<1>1. /\ pc = "resolver" /\ idx <= Len(Sequence) /\ pc' = "drop"
      /\ existing' = ExistingObjects /\ task' = Queued(DropTargets(ExistingObjects))
      /\ UNCHANGED <<scenario, live, drift, inv, idx, cache, suggested>>
  BY DEF Begin, DropTargets, ResolveDropTargets, DestroyDropTargets, ImplicitDropIntention, account
<1>2. cache = LoadedCache /\ LoadedCache' = LoadedCache
  BY <1>1, SameAccount DEF IsQuiet, account
<1>3. DropTargets(ExistingObjects) = {}
  BY <1>1, <1>2, NothingToDrop DEF Converged
<1>4. DOMAIN task' = {}
  BY <1>1, <1>3, QueuedTasks
<1>5. \A o : Handles(idx, o)' <=> Handles(idx, o)
  BY <1>1, SameTurns
<1>6. idx \in Turns /\ AccountIsSound
  BY <1>1, OwnTargets DEF CacheInv
<1>7. ASSUME NEW o \in Objects, Handles(idx, o) PROVE IsListed(o)'
  <2>1. /\ o \in DOMAIN ExistingObjects <=> o \in live
        /\ o \in live => ExistingObjects[o] = drift[o]
    BY <1>2, <1>6, <1>7, RowsAreRight
  <2> QED
    BY <1>1, <2>1 DEF IsListed
<1> QED
  BY <1>1, <1>2, <1>4, <1>5, <1>7 DEF IsQuiet

LEMMA BatchIsQuiet == ASSUME CacheInv, IsQuiet, SubmitBatch PROVE IsQuiet'
<1> DEFINE batch == NextBatch \ {o \in NextBatch : IsUnmanaged(o)}
<1>1. /\ pc \in {"drop", "create"} /\ pc' = "create" /\ task' = Queued(batch)
      /\ UNCHANGED <<scenario, live, drift, inv, idx, cache, existing, suggested>>
  BY DEF SubmitBatch, account
<1>2. \A o \in batch : o \in config.declared /\ ~IsUnmanaged(o)
  BY DEF NextBatch, CacheInv, TasksAreSound
<1> HIDE DEF batch
<1>3. DOMAIN task' = batch /\ \A o \in batch : task'[o].statements = <<>>
  BY <1>1, QueuedTasks
<1>4. LoadedCache' = LoadedCache
  BY <1>1, SameAccount DEF account
<1>5. \A o : (Handles(idx, o)' <=> Handles(idx, o)) /\ (IsManaged(o)' <=> IsManaged(o))
  BY <1>1, SameTurns, SameDuty
<1>6. \A o \in DOMAIN task' : IsManaged(o)' /\ task'[o].statements = <<>>
  BY <1>2, <1>3, <1>5 DEF IsManaged
<1> QED
  BY <1>1, <1>4, <1>5, <1>6 DEF IsQuiet, IsResolving, IsListed

LEMMA StartTaskIsQuiet ==
  ASSUME CacheInv, Converged, IsQuiet, NEW o \in Objects, StartTask(o) PROVE IsQuiet'
<1> DEFINE reply == ReplyFor(o)
<1>1. /\ o \in DOMAIN task
      /\ task' = [task EXCEPT ![o] = [stage |-> "running", result |-> reply.result,
                                      statements |-> reply.statements]]
      /\ UNCHANGED <<scenario, live, drift, inv, pc, idx, cache, existing, suggested>>
  BY DEF StartTask, account
<1>2. pc = "create"
  BY <1>1 DEF IsQuiet, CacheInv, TasksAreSound, IsResolving
<1>3. IsManaged(o) /\ Handles(idx, o)
  BY <1>1, <1>2 DEF IsQuiet, CacheInv, EachToItsOwn
<1>4. o \in live /\ drift[o] = {} /\ (TypeOf[o] = "VIEW" => Uses[o] \subseteq live)
  BY <1>3 DEF Converged, InStep, IsManaged, IsManagedView
<1>5. o \in DOMAIN existing /\ existing[o] = {}
  BY <1>2, <1>3, <1>4 DEF IsQuiet, IsResolving, IsListed
<1>6. reply.statements = <<>>
  <2>1. reply = CompareReply(o)
    BY <1>2, <1>5, AnyReply
  <2> QED
    BY <1>4, <1>5, <2>1, QuietCompare
<1>7. \A n \in DOMAIN task' : n \in DOMAIN task /\ task'[n].statements = <<>>
  BY <1>1, <1>2, <1>6 DEF IsQuiet
<1>8. LoadedCache' = LoadedCache
  BY <1>1, SameAccount DEF account
<1>9. \A n : (Handles(idx, n)' <=> Handles(idx, n)) /\ (IsManaged(n)' <=> IsManaged(n))
  BY <1>1, SameTurns, SameDuty
<1> QED
  BY <1>1, <1>2, <1>7, <1>8, <1>9 DEF IsQuiet, IsResolving, IsListed

LEMMA CollectIsQuiet ==
  ASSUME IsQuiet, NEW o \in Objects, Collect(o) PROVE IsQuiet'
<1>1. /\ o \in DOMAIN task
      /\ DOMAIN task' = DOMAIN task \ {o} /\ \A n \in DOMAIN task' : task'[n] = task[n]
      /\ UNCHANGED <<scenario, live, drift, inv, pc, idx, cache, existing, suggested>>
  BY DEF Collect, account
<1>2. LoadedCache' = LoadedCache
  BY <1>1, SameAccount DEF account
<1>3. \A n : (Handles(idx, n)' <=> Handles(idx, n)) /\ (IsManaged(n)' <=> IsManaged(n))
  BY <1>1, SameTurns, SameDuty
<1> QED
  BY <1>1, <1>2, <1>3 DEF IsQuiet, IsResolving, IsListed

LEMMA TurnIsQuiet == ASSUME CacheInv, IsQuiet, Skip \/ Finish PROVE IsQuiet'
<1>1. /\ pc' = "resolver" /\ cache' \in {LoadedCache, cache}
      /\ UNCHANGED <<live, drift, suggested>>
  BY DEF Skip, Finish, account
<1>2. LoadedCache' = LoadedCache
  BY <1>1, SameAccount DEF account
<1> QED
  BY <1>1, <1>2 DEF IsQuiet, IsResolving

LEMMA CheckIsQuietStep ==
  ASSUME CacheInv, SuccessConverges, CheckIsQuiet, [Next]_vars PROVE CheckIsQuiet'
<1> SUFFICES ASSUME IsCheck' PROVE Converged' /\ IsQuiet'
  BY DEF CheckIsQuiet
<1>1. pc' # "start" /\ inv' \notin outside'
  BY DEF IsCheck
<1>2. CASE Start
  BY <1>2, StartIsQuiet
<1>3. CASE Skip \/ Begin \/ SubmitBatch \/ Finish \/ \E o \in Objects : StartTask(o) \/ Collect(o)
  <2>1. /\ pc # "start" /\ UNCHANGED <<scenario, live, drift, inv, history, outside>>
    <3>1. CASE Skip \/ Begin \/ SubmitBatch \/ Finish
      BY <3>1 DEF Skip, Begin, SubmitBatch, Finish, account
    <3>2. CASE \E o \in Objects : StartTask(o) \/ Collect(o)
      BY <3>2 DEF StartTask, Collect, account, CacheInv, TasksAreSound, IsResolving
    <3> QED
      BY <1>3, <3>1, <3>2
  <2>2. IsCheck
    BY <2>1, SameCheck
  <2>3. Converged /\ IsQuiet /\ Invocation.action = "plan"
    BY <2>2 DEF CheckIsQuiet, IsCheck
  <2>4. Converged'
    BY <2>1, <2>3, SameConverged
  <2>5. IsQuiet'
    BY <1>3, <2>3, BeginIsQuiet, BatchIsQuiet, StartTaskIsQuiet, CollectIsQuiet, TurnIsQuiet
  <2> QED
    BY <2>4, <2>5
<1>4. ASSUME NEW o \in Objects, Suggest(o) \/ Execute(o) \/ Raise(o) PROVE FALSE
  <2>1. HasStatement(o) /\ UNCHANGED <<scenario, inv, history, outside>>
    BY <1>4 DEF Suggest, Execute, Raise
  <2>2. pc # "start"
    BY <2>1, NextStatement DEF IsResolving
  <2>3. IsCheck
    BY <2>1, <2>2, SameCheck
  <2> QED
    BY <2>1, <2>3, NothingToSay DEF CheckIsQuiet
<1>5. CASE Exit \/ AbortOnMissingSchema \/ AbortOnQueryFailure \/ Crash
  BY <1>1, <1>5 DEF Exit, AbortOnMissingSchema, AbortOnQueryFailure, Crash, Record
<1>6. ASSUME NEW o \in Objects, OutsideDrop(o) \/ OutsideCreate(o) PROVE FALSE
  BY <1>1, <1>6 DEF OutsideDrop, OutsideCreate, Disturb
<1>7. CASE UNCHANGED vars
  <2>1. UNCHANGED <<scenario, live, drift, inv, pc, idx, cache, existing, task, suggested,
                    history, outside>>
    BY <1>7 DEF vars
  <2>2. pc # "start"
    BY <1>1, <2>1
  <2>3. Converged /\ IsQuiet
    BY <2>1, <2>2, SameCheck DEF CheckIsQuiet
  <2>4. LoadedCache' = LoadedCache
    BY <2>1, SameAccount DEF account
  <2>5. \A n : (Handles(idx, n)' <=> Handles(idx, n)) /\ (IsManaged(n)' <=> IsManaged(n))
    BY <2>1, SameTurns, SameDuty
  <2>6. Converged'
    BY <2>1, <2>3, SameConverged
  <2> QED
    BY <2>1, <2>3, <2>4, <2>5, <2>6 DEF IsQuiet, IsResolving, IsListed
<1> QED
  BY <1>2, <1>3, <1>4, <1>5, <1>6, <1>7 DEF Next, Worker, Main, Faults, Outside, Idle

-----------------------------------------------------------------------------
(* The invariant holds, and with it the property.                          *)

LEMMA PlanInvInit == Init => PlanInv
  BY DEF Init, PlanInv, IsPromising, SuccessConverges, CheckIsQuiet, IsCheck,
         ConvergedPlanIsEmpty, Last

LEMMA PlanInvStep == LossInv /\ CacheInv /\ SuccessInv /\ PlanInv /\ [Next]_vars => PlanInv'
<1> SUFFICES ASSUME LossInv, CacheInv, SuccessInv, PlanInv, [Next]_vars PROVE PlanInv'
  OBVIOUS
<1>1. IsPromising' => ViewsSee'
  BY ViewsSeeStep DEF PlanInv
<1>2. CheckIsQuiet'
  BY CheckIsQuietStep DEF PlanInv
<1>3. CASE Exit \/ AbortOnMissingSchema \/ AbortOnQueryFailure \/ Crash
  <2>1. /\ pc # "start" /\ UNCHANGED <<scenario, live, drift, outside>>
        /\ \E exit \in {"success", "errors", "aborted"} :
             /\ Record(exit)
             /\ exit = "success" => pc = "resolver" /\ idx > Len(Sequence) /\ ~HasErrors
    <3>1. CASE Exit
      <4>1. CASE HasErrors
        BY <3>1, <4>1 DEF Exit, account
      <4>2. CASE ~HasErrors
        BY <3>1, <4>2 DEF Exit, account
      <4> QED
        BY <4>1, <4>2
    <3>2. CASE AbortOnMissingSchema \/ AbortOnQueryFailure \/ Crash
      BY <3>2 DEF AbortOnMissingSchema, AbortOnQueryFailure, Crash, account
    <3> QED
      BY <1>3, <3>1, <3>2
  <2>2. SuccessConverges' /\ ConvergedPlanIsEmpty'
    BY <2>1, EndConverges
  <2> QED
    BY <1>1, <1>2, <2>2 DEF PlanInv
<1>4. CASE ~(Exit \/ AbortOnMissingSchema \/ AbortOnQueryFailure \/ Crash)
  <2>1. /\ UNCHANGED <<scenario, history>> /\ outside \subseteq outside'
        /\ \/ pc' # "start"
           \/ UNCHANGED <<live, drift, outside, pc>>
    <3>1. CASE Worker
      <4>1. PICK o \in Objects : StartTask(o) \/ Suggest(o) \/ Execute(o) \/ Raise(o)
        BY <3>1 DEF Worker
      <4>2. o \in DOMAIN task /\ UNCHANGED <<scenario, history, outside, pc>>
        BY <4>1 DEF StartTask, Suggest, Execute, Raise, HasStatement
      <4>3. pc # "start"
        BY <4>2 DEF CacheInv, TasksAreSound, IsResolving
      <4> QED
        BY <4>2, <4>3
    <3>2. ASSUME NEW o \in Objects, Collect(o)
          PROVE  UNCHANGED <<scenario, history, outside, live, drift, pc>>
      BY <3>2 DEF Collect, account
    <3>3. CASE Start \/ Skip \/ Begin \/ SubmitBatch \/ Finish
      BY <3>3 DEF Start, Skip, Begin, SubmitBatch, Finish, account
    <3>4. CASE Outside
      BY <3>4 DEF Outside, OutsideDrop, OutsideCreate, Disturb
    <3>5. CASE UNCHANGED vars
      BY <3>5 DEF vars
    <3> QED
      BY <1>4, <3>1, <3>2, <3>3, <3>4, <3>5 DEF Next, Main, Faults, Idle
  <2>2. ConvergedPlanIsEmpty'
    BY <2>1, SameHistory DEF PlanInv
  <2>3. SuccessConverges'
    <3>1. \A i : FullySucceeded(i)' <=> FullySucceeded(i)
      BY <2>1 DEF FullySucceeded, IsWhole, Invocations
    <3>2. ASSUME UNCHANGED <<live, drift, outside, pc>>
          PROVE  SuccessConverges'
      <4>1. Converged => Converged'
        BY <2>1, <3>2, SameConverged
      <4> QED
        BY <2>1, <3>1, <3>2, <4>1 DEF PlanInv, SuccessConverges, Last
    <3> QED
      BY <2>1, <3>2 DEF SuccessConverges
  <2> QED
    BY <1>1, <1>2, <2>2, <2>3 DEF PlanInv
<1> QED
  BY <1>3, <1>4

LEMMA PlanInvHolds == Spec => []PlanInv
  BY PlanInvInit, PlanInvStep, LossInvHolds, CacheInvHolds, SuccessInvHolds, PTL DEF Spec

\* Applying converges (ConvergedPlanIsEmpty): a plan after an apply of all
\* that is allowed all and exits 0 suggests nothing, whichever types it is
\* asked about and whatever the account was before.  Every compare_object is
\* content with what its create_object and its alters leave, the resolvers
\* that come later undo nothing, and no view needs to be created again.
THEOREM PlansConverge == Spec => []ConvergedPlanIsEmpty
<1>1. PlanInv => ConvergedPlanIsEmpty
  BY DEF PlanInv
<1> QED
  BY <1>1, PlanInvHolds, PTL

=============================================================================
