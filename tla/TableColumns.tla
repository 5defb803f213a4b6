---------------------------- MODULE TableColumns ----------------------------
(***************************************************************************)
(* One table, its columns and its keys.  TableResolver compares the table  *)
(* with its blueprint and either alters it, one statement per difference,  *)
(* or replaces it by a copy of itself; PrimaryKeyResolver,                 *)
(* UniqueKeyResolver and ForeignKeyResolver then look at the keys that are *)
(* left, and do not drop those which go with a column: what went, or would *)
(* go, TableResolver tells them through the intention cache.               *)
(*                                                                         *)
(* Not here: whether the rows of the table fit what is declared (a NOT     *)
(* NULL, a shorter type), which a statement that fails stands for.         *)
(***************************************************************************)
EXTENDS Integers, Sequences, FiniteSets, SequencesExt

CONSTANTS
  SequenceDefaults,  \* the defaults that are the next value of a sequence
  SearchItems,       \* what search can be optimized on
  Blueprints,        \* a sequence of blueprints
  Tables,            \* a sequence of tables
  Scenarios          \* what is considered, see ScenarioRecords

None == "none"
AnyRetention == -1
DefaultRetention == 1

\* A blueprint declares its columns in order, the options of the table, and
\* keys; search is "no", "yes" or a set of items.  A key of kind "foreign" is
\* of another table and refers to columns of this one.
Options == {"retention", "cluster", "tracking", "comment"}
KeyKinds == << "primary", "unique", "foreign" >>

\* What a type does not have is 0.
TypeRecords == [base : STRING, val1 : Nat, val2 : Nat]
ColumnRecords ==
  [name : STRING, type : TypeRecords, not_null : BOOLEAN, default : STRING,
   expression : STRING, collate : STRING, comment : STRING]
OptionRecords == [is_transient : BOOLEAN, retention : Int, cluster : STRING,
                  tracking : BOOLEAN, comment : STRING]
KeyRecords == [kind : Range(KeyKinds), columns : SUBSET STRING]
BlueprintRecords == [columns : Seq(ColumnRecords), options : OptionRecords,
                     search : SUBSET STRING, keys : SUBSET KeyRecords]

\* What there is, with what the rows hold in each column.
LiveColumnRecords ==
  [name : STRING, type : TypeRecords, not_null : BOOLEAN, default : STRING,
   expression : STRING, collate : STRING, comment : STRING,
   data : {"rows", "new", "default", "null", "computed"}]
TableRecords == [columns : Seq(LiveColumnRecords), options : OptionRecords,
                 search : SUBSET STRING, keys : SUBSET KeyRecords]

\* The table at first, and for each invocation the blueprint and the switches.
Command == [bp : DOMAIN Blueprints, unsafe : BOOLEAN, replace_table : BOOLEAN, plan : BOOLEAN]
ScenarioRecords == [table : DOMAIN Tables, commands : Seq(Command), maxFaults : Nat]

\* A table has one primary key, and a foreign key is known by its own columns,
\* those of the other table: one of them is considered.
SameKey(k, l) == k.kind = l.kind /\ (k.kind = "unique" => k.columns = l.columns)

\* Columns have names of their own, keys too, and there are finitely many.
IsTable(t) ==
  /\ \A i, j \in DOMAIN t.columns : t.columns[i].name = t.columns[j].name => i = j
  /\ IsFiniteSet(t.search) /\ IsFiniteSet(t.keys)
  /\ \A k, l \in t.keys : SameKey(k, l) => k = l

\* A blueprint has columns, search is on what it can be optimized on, and keys
\* are of declared columns.
IsDeclaration(b) ==
  /\ IsTable(b) /\ b.columns # << >>
  /\ b.search \in {{"no"}, {"yes"}} \/ b.search \subseteq SearchItems
  /\ \A k \in b.keys : \A n \in k.columns : \E i \in DOMAIN b.columns : b.columns[i].name = n

ASSUME TableAssumption ==
  /\ IsFiniteSet(SearchItems) /\ SearchItems # {}
  /\ Blueprints \in Seq(BlueprintRecords) /\ Tables \in Seq(TableRecords)
  /\ \A i \in DOMAIN Blueprints : IsDeclaration(Blueprints[i])
  /\ \A i \in DOMAIN Tables : IsTable(Tables[i]) /\ Tables[i].search \subseteq SearchItems
  /\ Scenarios \subseteq ScenarioRecords

VARIABLES
  scenario, \* the scenario
  columns,  \* the columns of the table, with what their rows hold
  options,  \* its options, is_transient among them
  search,   \* the items search is optimized on
  keys,     \* the keys there are
  inv,      \* the current invocation
  pc,       \* where it is: the resolver at work
  due,      \* what is left to do: a sequence of tasks, sequences of statements
  dropping, \* the columns that go or would go: column_drop_intention, or all of
            \* them, object_drop_intention of the table
  failed,   \* whether a statement failed
  seen,     \* what counts for the history: was the table in step, is anything due
  faults,   \* failures injected so far
  refused,  \* whether Snowflake has refused a statement of an apply in which
            \* nothing had failed and nothing was left out
  history   \* what the finished invocations did

table == <<columns, options, search, keys>>
vars == <<scenario, table, inv, pc, due, dropping, failed, seen, faults, refused, history>>

Invocation == scenario.commands[inv]
bp == Blueprints[Invocation.bp]

NamesOf(cols) == [i \in DOMAIN cols |-> cols[i].name]
Names(cols) == Range(NamesOf(cols))
PositionOf(cols, n) == CHOOSE i \in DOMAIN cols : cols[i].name = n
ColumnOf(cols, n) == cols[PositionOf(cols, n)]
Exists == columns # << >>

-----------------------------------------------------------------------------
(* Statements.                                                             *)

\* execute_safe_ddl, execute_unsafe_ddl
Safe(op, what) == [op |-> op, what |-> what, safe |-> TRUE, replace |-> FALSE]
Unsafe(op, what) == [op |-> op, what |-> what, safe |-> FALSE, replace |-> FALSE]
\* with condition=execute_replace_table
Gated(op, what) == [op |-> op, what |-> what, safe |-> FALSE, replace |-> TRUE]

CanRun(s) ==
  ~Invocation.plan /\ (s.safe \/ Invocation.unsafe) /\ (s.replace => Invocation.replace_table)

If(condition, s) == IF condition THEN << s >> ELSE << >>
ForEach(seq, Op(_)) == FlattenSeq([i \in DOMAIN seq |-> Op(seq[i])])
\* The order of a set of statements does not matter.
EachOf(set, Op(_)) == ForEach(SetToSeq(set), Op)

-----------------------------------------------------------------------------
(* TableResolver.                                                          *)

\* A default can go, or change from one sequence to another.
CanAlterDefault(old, new) == new = None \/ {old, new} \subseteq SequenceDefaults

\* A NUMBER whose scale stays, a VARCHAR that grows; what becomes of the
\* precision is compared with the scale.
CanAlterType(old, new) ==
  /\ old.base = new.base
  /\ \/ old.base = "NUMBER" /\ old.val1 # new.val2 /\ old.val2 = new.val2
     \/ old.base = "VARCHAR" /\ old.val1 < new.val1

Modify(n, attribute, value) == [name |-> n, attribute |-> attribute, value |-> value]

UnsafeColumnAlters(old) ==
  IF old.name \notin Names(bp.columns) THEN << Unsafe("drop column", old.name) >>
  ELSE LET new == ColumnOf(bp.columns, old.name)
           Set(attribute) == Unsafe("modify column", Modify(old.name, attribute, new[attribute]))
       IN  If(old.not_null # new.not_null, Set("not_null"))
           \o If(old.default # new.default /\ CanAlterDefault(old.default, new.default), Set("default"))
           \o If(old.type # new.type /\ CanAlterType(old.type, new.type), Set("type"))

SafeColumnAlters(old) ==
  LET new == ColumnOf(bp.columns, old.name)
  IN  If(old.name \in Names(bp.columns) /\ old.comment # new.comment,
         Safe("modify column", Modify(old.name, "comment", new.comment)))

\* The positions of the columns that remain, and where that leaves each.
Remaining == {i \in DOMAIN columns : columns[i].name \in Names(bp.columns)}
Place(i) == Cardinality({j \in Remaining : j <= i})
Added == SubSeq(bp.columns, Cardinality(Remaining) + 1, Len(bp.columns))

\* Mutant: an expression is not compared.
ColumnReasonsButExpression(old, new) ==
  \/ old.default # new.default /\ ~CanAlterDefault(old.default, new.default)
  \/ old.collate # new.collate
  \/ old.type # new.type /\ ~CanAlterType(old.type, new.type)

ColumnReasons(old, new) ==
  \/ old.default # new.default /\ ~CanAlterDefault(old.default, new.default)
  \/ old.expression # new.expression
  \/ old.collate # new.collate
  \/ old.type # new.type /\ ~CanAlterType(old.type, new.type)

\* Mutant: of the remaining columns only the first has its place.
OrderHardlyChanged == \E i \in Remaining : Place(i) = 1 /\ columns[i].name # bp.columns[1].name

\* What remains is how the declared columns begin.
OrderChanged == \E i \in Remaining : columns[i].name # bp.columns[Place(i)].name

ReplaceReasons ==
  \/ \E i \in Remaining : ColumnReasons(columns[i], ColumnOf(bp.columns, columns[i].name))
  \/ OrderChanged
  \/ bp.options.is_transient # options.is_transient

OptionDiffers(o) == bp.options[o] # options[o] /\ (o = "retention" => bp.options[o] # AnyRetention)
SetOption(o) == [option |-> o, value |-> bp.options[o]]

\* ADD COLUMN says everything of a column but the expression.
SafeAlters ==
  ForEach(columns, SafeColumnAlters)
  \o ForEach(Added, LAMBDA c : << Safe("add column", [c EXCEPT !.expression = None]) >>)
  \o If(OptionDiffers("comment"), Safe("set option", SetOption("comment")))

UnsafeAlters ==
  ForEach(columns, UnsafeColumnAlters)
  \o ForEach(<< "retention", "cluster", "tracking" >>,
             LAMBDA o : If(OptionDiffers(o), Unsafe("set option", SetOption(o))))

DroppingNames == Names(columns) \ Names(bp.columns)

\* Mutant: what may lose data first.
AltersUnsafeFirst ==
  IF SafeAlters \o UnsafeAlters = << >> THEN << >>
  ELSE UnsafeAlters \o SafeAlters \o << Safe("intend", DroppingNames) >>

\* The last one is no statement: add_column_drop_intention, if none failed.
Alters ==
  IF SafeAlters \o UnsafeAlters = << >> THEN << >>
  ELSE SafeAlters \o UnsafeAlters \o << Safe("intend", DroppingNames) >>

\* _create_search_optimization: what is to be optimized, a statement each.
CreateSearch ==
  CASE bp.search = {"no"}  -> << >>
    [] bp.search = {"yes"} -> << SearchItems >>
    [] OTHER -> EachOf(bp.search, LAMBDA i : << {i} >>)

\* _compare_search_optimization: of a table that is to be optimized as a whole
\* only whether it is optimized at all.
CompareSearch ==
  CASE bp.search = {"no"}  -> If(search # {}, Unsafe("drop search", SearchItems))
    [] bp.search = {"yes"} -> If(search = {}, Unsafe("add search", SearchItems))
    [] OTHER -> EachOf(bp.search \ search, LAMBDA i : << Unsafe("add search", {i}) >>)
                \o EachOf(search \ bp.search, LAMBDA i : << Unsafe("drop search", {i}) >>)

CreateTable ==
  << Safe("create", None) >> \o ForEach(CreateSearch, LAMBDA i : << Unsafe("add search", i) >>)

\* A table that is replaced, or would be, is one that is dropped: the last one
\* is add_object_drop_intention, and with the table go all its columns.
CompareTable ==
  IF ReplaceReasons
  THEN << Gated("replace", None) >> \o ForEach(CreateSearch, LAMBDA i : << Gated("add search", i) >>)
       \o << Safe("intend", Names(columns)) >>
  ELSE Alters \o CompareSearch

-----------------------------------------------------------------------------
(* The resolvers of keys.                                                  *)

Listed(kind) == {k \in keys : k.kind = kind}
Declared(kind) == {k \in bp.keys : k.kind = kind}

\* _check_implicit_drop_intention: with one of its columns, or with the table.
ImplicitlyDropped(k) == k.columns \cap dropping # {}

DropKeys(kind) ==
  {k \in Listed(kind) : ~ImplicitlyDropped(k) /\ \A l \in Declared(kind) : ~SameKey(k, l)}

\* Mutant: a key that is there is taken to be the declared one.
CreateKeyOnce(l) ==
  IF \E k \in Listed(l.kind) : SameKey(k, l) THEN << >> ELSE << Safe("add key", l) >>

\* create_object, compare_object
CreateOrCompareKey(l) ==
  LET there == {k \in Listed(l.kind) : SameKey(k, l)}
  IN  CASE there = {}  -> << Safe("add key", l) >>
        [] there = {l} -> << >>
        [] OTHER -> EachOf(there, LAMBDA k : << Safe("drop key", k) >>) \o << Safe("add key", l) >>

KeyTasks(kind) ==
  EachOf(DropKeys(kind), LAMBDA k : << << Safe("drop key", k) >> >>)
  \o EachOf(Declared(kind), LAMBDA l : << CreateOrCompareKey(l) >>)

-----------------------------------------------------------------------------
(* Snowflake.                                                              *)

IsLegal(s) ==
  CASE s.op = "add column"  -> s.what.name \notin Names(columns)
    [] s.op = "drop column" -> s.what \in Names(columns) /\ Len(columns) > 1
    [] s.op = "modify column" -> s.what.name \in Names(columns)
    [] s.op = "add key"  -> /\ s.what.columns \subseteq Names(columns)
                            /\ \A k \in keys : ~SameKey(k, s.what)
    [] s.op = "drop key" -> s.what \in keys
    [] OTHER -> TRUE

\* What the rows hold in a column.
Filled(c, rows) ==
  [a \in DOMAIN c \cup {"data"} |->
     IF a # "data" THEN c[a] ELSE IF c.expression # None THEN "computed" ELSE rows]

\* Mutant: of a column whose type changes the rows are not taken along.
CopyUnlessCast(c) ==
  Filled(c, IF c.name \in Names(columns) /\ c.type = ColumnOf(columns, c.name).type
            THEN ColumnOf(columns, c.name).data
            ELSE IF c.default # None THEN "default" ELSE "null")

\* _build_create_table: a new column gets its default, any other is selected
\* from the table itself.
CopyColumn(c) ==
  Filled(c, IF c.name \in Names(columns) THEN ColumnOf(columns, c.name).data
            ELSE IF c.default # None THEN "default" ELSE "null")

OptionsOf(b) ==
  [b.options EXCEPT !.retention = IF @ = AnyRetention THEN DefaultRetention ELSE @]

ColumnsAfter(s) ==
  CASE s.op = "create"  -> [i \in DOMAIN bp.columns |-> Filled(bp.columns[i], "new")]
    [] s.op = "replace" -> [i \in DOMAIN bp.columns |-> CopyColumn(bp.columns[i])]
    [] s.op = "add column" ->
         Append(columns, Filled(s.what, IF s.what.default # None THEN "default" ELSE "null"))
    [] s.op = "drop column" -> RemoveAt(columns, PositionOf(columns, s.what))
    [] s.op = "modify column" ->
         [i \in DOMAIN columns |-> IF columns[i].name # s.what.name THEN columns[i]
                                   ELSE [columns[i] EXCEPT ![s.what.attribute] = s.what.value]]
    [] OTHER -> columns

OptionsAfter(s) ==
  CASE s.op \in {"create", "replace"} -> OptionsOf(bp)
    [] s.op = "set option" -> [options EXCEPT ![s.what.option] = s.what.value]
    [] OTHER -> options

SearchAfter(s) ==
  CASE s.op \in {"create", "replace"} -> {}
    [] s.op = "add search"  -> search \cup s.what
    [] s.op = "drop search" -> search \ s.what
    [] OTHER -> search

KeysAfter(s) ==
  CASE s.op \in {"create", "replace"} -> {}
    [] s.op = "drop column" -> {k \in keys : s.what \notin k.columns}
    [] s.op = "add key"  -> keys \cup {s.what}
    [] s.op = "drop key" -> keys \ {s.what}
    [] OTHER -> keys

-----------------------------------------------------------------------------
\* Everything is as a blueprint declares it.
Definition(c) == [a \in DOMAIN c \ {"data"} |-> c[a]]
OptionInStep(b, o) == b.options[o] \in {options[o]} \cup (IF o = "retention" THEN {AnyRetention} ELSE {})
SearchInStep(b) ==
  CASE b.search = {"no"} -> search = {} [] b.search = {"yes"} -> search # {} [] OTHER -> search = b.search

InStep(b) ==
  /\ [i \in DOMAIN columns |-> Definition(columns[i])] = b.columns
  /\ \A o \in DOMAIN b.options : OptionInStep(b, o)
  /\ SearchInStep(b) /\ keys = b.keys

Init ==
  /\ scenario \in Scenarios
  /\ LET t == Tables[scenario.table]
     IN columns = t.columns /\ options = t.options /\ search = t.search /\ keys = t.keys
  /\ inv = 1 /\ pc = "start" /\ due = << >> /\ dropping = {} /\ failed = FALSE
  /\ seen = [in_step |-> FALSE, due |-> FALSE] /\ faults = 0 /\ refused = FALSE /\ history = << >>

Start ==
  /\ pc = "start" /\ inv <= Len(scenario.commands)
  /\ pc' = "table" /\ dropping' = {} /\ failed' = FALSE
  /\ due' = << IF Exists THEN CompareTable ELSE CreateTable >>
  /\ seen' = [in_step |-> InStep(bp), due |-> FALSE]
  /\ UNCHANGED <<scenario, table, inv, faults, refused, history>>

\* Done with a task, its statements executed or not.
TaskEnds ==
  /\ due # << >> /\ Head(due) = << >>
  /\ due' = Tail(due)
  /\ UNCHANGED <<scenario, table, inv, pc, dropping, failed, seen, faults, refused, history>>

HasStatement == due # << >> /\ Head(due) # << >>
Statement == Head(Head(due))
Advance == due' = << Tail(Head(due)) >> \o Tail(due)

Intend ==
  /\ HasStatement /\ Statement.op = "intend"
  /\ dropping' = dropping \cup Statement.what
  /\ Advance
  /\ UNCHANGED <<scenario, table, inv, pc, failed, seen, faults, refused, history>>

IsDue == HasStatement /\ Statement.op # "intend" /\ seen' = [seen EXCEPT !.due = TRUE]

Suggest ==
  /\ IsDue /\ ~CanRun(Statement)
  /\ Advance
  /\ UNCHANGED <<scenario, table, inv, pc, dropping, failed, faults, refused, history>>

Execute ==
  /\ IsDue /\ CanRun(Statement) /\ IsLegal(Statement)
  /\ columns' = ColumnsAfter(Statement) /\ options' = OptionsAfter(Statement)
  /\ search' = SearchAfter(Statement) /\ keys' = KeysAfter(Statement)
  /\ Advance
  /\ UNCHANGED <<scenario, inv, pc, dropping, failed, faults, refused, history>>

\* The worker ends with an exception: the rest of its task is not done.
Raise ==
  /\ IsDue /\ CanRun(Statement)
  /\ \/ IsLegal(Statement) /\ faults < scenario.maxFaults
        /\ faults' = faults + 1 /\ refused' = refused
     \/ ~IsLegal(Statement) /\ faults' = faults
        /\ refused' = (refused \/ (Invocation.unsafe /\ Invocation.replace_table /\ ~failed))
  /\ due' = Tail(due) /\ failed' = TRUE
  /\ UNCHANGED <<scenario, table, inv, pc, dropping, history>>

Kinds == << "table" >> \o KeyKinds
IndexOf(kind) == CHOOSE i \in DOMAIN Kinds : Kinds[i] = kind

\* The next resolver lists its objects.
NextResolver ==
  /\ pc \in Range(Kinds) /\ due = << >> /\ IndexOf(pc) < Len(Kinds)
  /\ pc' = Kinds[IndexOf(pc) + 1]
  /\ due' = KeyTasks(pc')
  /\ UNCHANGED <<scenario, table, inv, dropping, failed, seen, faults, refused, history>>

Record(exit) ==
  /\ history' = Append(history, [in_step |-> seen.in_step, due |-> seen.due, exit |-> exit])
  /\ inv' = inv + 1 /\ pc' = "start" /\ due' = << >>
  /\ UNCHANGED <<scenario, table, dropping, failed, seen, refused>>

Exit ==
  /\ pc = Kinds[Len(Kinds)] /\ due = << >>
  /\ Record(IF failed THEN "errors" ELSE "success") /\ UNCHANGED faults

Crash ==
  /\ pc # "start" /\ faults < scenario.maxFaults
  /\ Record("aborted") /\ faults' = faults + 1

Idle == pc = "start" /\ inv > Len(scenario.commands) /\ UNCHANGED vars

Next == \/ Start \/ TaskEnds \/ Intend \/ Suggest \/ Execute \/ Raise
        \/ NextResolver \/ Exit \/ Crash \/ Idle

Spec == Init /\ [][Next]_vars

-----------------------------------------------------------------------------
(* Properties.                                                             *)

Finished == Len(history)
CommandOf(i) == scenario.commands[i]
Succeeded(i) ==
  /\ history[i].exit = "success" /\ ~CommandOf(i).plan
  /\ CommandOf(i).unsafe /\ CommandOf(i).replace_table

\* A table whose virtual columns are still to become virtual.
WithExpressions(b) ==
  [i \in DOMAIN columns |->
     IF i \in DOMAIN b.columns
     THEN [Definition(columns[i]) EXCEPT !.expression = b.columns[i].expression]
     ELSE Definition(columns[i])]

\* After an apply that exits 0 with all the switches the table has the declared
\* columns in the declared order, the options and the keys that are declared,
\* whatever an apply before left half altered; the expressions of columns that
\* were added are the exception.
SuccessMeansAsDeclared ==
  pc = "start" /\ Finished > 0 /\ Succeeded(Finished) =>
    LET b == Blueprints[CommandOf(Finished).bp]
    IN  /\ WithExpressions(b) = b.columns
        /\ \A o \in DOMAIN b.options : OptionInStep(b, o)
        /\ SearchInStep(b) /\ keys = b.keys

\* A second such apply completes them.
TwoAppliesComplete ==
  pc = "start" /\ Finished > 1 /\ Succeeded(Finished - 1) /\ Succeeded(Finished)
    /\ CommandOf(Finished).bp = CommandOf(Finished - 1).bp
    => InStep(Blueprints[CommandOf(Finished).bp])

\* A plan, and an apply, that has nothing to do means that the table is as
\* declared, and the other way round; a key that goes with a column is not
\* forgotten for it.
NothingDueMeansInStep ==
  \A i \in 1..Finished :
    /\ history[i].in_step => ~history[i].due
    /\ history[i].exit = "success" /\ ~history[i].due => history[i].in_step

\* Altering or replacing the table, or dying in between, never costs the rows
\* of a column that is declared (unless as one to be computed); columns that
\* are not declared only go with --apply-unsafe.
DeclaredColumnsKeepRows ==
  [][\A c \in Range(columns) :
       IF c.name \in Names(columns')
       THEN \/ ColumnOf(columns', c.name).data = c.data
            \/ ColumnOf(bp.columns, c.name).expression # None
       ELSE c.name \notin Names(bp.columns) /\ Invocation.unsafe]_vars

\* Every statement finds what it names: columns are added before others are
\* dropped, keys follow the columns, and what went with a column is not
\* dropped again.
StatementsAreAccepted == ~refused

\* "Increase or decrease precision of NUMBER, but not scale": a table is not
\* replaced for it.
OnlyPrecisionDiffers(b) ==
  /\ NamesOf(columns) = NamesOf(b.columns) /\ \A o \in DOMAIN b.options : OptionInStep(b, o)
  /\ \A i \in DOMAIN columns :
       LET old == columns[i].type new == b.columns[i].type
       IN  /\ Definition(columns[i]) = [b.columns[i] EXCEPT !.type = old]
           /\ old = new \/ (old.base = "NUMBER" /\ new.base = "NUMBER" /\ old.val2 = new.val2)

PrecisionIsAltered ==
  HasStatement /\ Statement.op = "replace" => ~OnlyPrecisionDiffers(bp)

=============================================================================
