------------------------- MODULE TableColumnsProofs -------------------------
(***************************************************************************)
(* Proofs about TableColumns.  The statements that are due are computed    *)
(* when a resolver looks at the table and executed later, on whatever the  *)
(* statements before them, failed or not, have left: what keeps the rows   *)
(* has to be known of every statement when it is asked for (IsCareful),    *)
(* and to hold of it whenever it is executed (StatementKeepsRows).  That   *)
(* all of them together make the table as declared is known of any rest of *)
(* them, for the table that it finds (Altering, TasksFit): one statement   *)
(* more, and the rest fits what has become of the table.                   *)
(***************************************************************************)
EXTENDS TableColumns, SequenceLemmas

-----------------------------------------------------------------------------
(* Which statements are ever due.                                          *)

\* What a blueprint says of a column, and what there is of one.
Attributes == {"name", "type", "not_null", "default", "expression", "collate", "comment"}
LiveAttributes == Attributes \cup {"data"}

\* A statement which does to the rows what it may.
IsCareful(s) ==
  /\ s.op # "create"
  /\ s.op = "replace" => ~s.safe
  /\ s.op = "drop column" => ~s.safe /\ s.what \notin Names(bp.columns)
  /\ s.op = "modify column" => s.what.attribute \notin {"name", "data"}
  /\ s.op = "add column" => DOMAIN s.what = Attributes
  /\ s.op = "add search" => s.what \subseteq SearchItems
  /\ s.op = "add key" => s.what \in bp.keys

AreCareful(q) == IsSeq(q) /\ \A s \in Range(q) : IsCareful(s)
TasksAreCareful(d) == IsSeq(d) /\ \A q \in Range(d) : AreCareful(q)

\* A table is only created while there is none, and that comes first.
DueIsCareful ==
  \/ TasksAreCareful(due)
  \/ ~Exists /\ \E q : AreCareful(q) /\ due = << << Safe("create", None) >> \o q >>

\* Columns with names of their own and with rows.
HaveNames(cols) ==
  /\ IsSeq(cols)
  /\ \A i, j \in DOMAIN cols : cols[i].name = cols[j].name => i = j
AreSound(cols) ==
  HaveNames(cols) /\ \A i \in DOMAIN cols : DOMAIN cols[i] = LiveAttributes

RowsInv ==
  /\ scenario \in Scenarios /\ inv \in Nat \ {0}
  /\ IF pc = "start" THEN due = << >> ELSE inv \in DOMAIN scenario.commands
  /\ AreSound(columns) /\ search \subseteq SearchItems
  /\ IsFiniteSet(keys) /\ keys \subseteq KeyRecords
  /\ DueIsCareful

\* The blueprint of an invocation: typed, its columns and its keys named apart, its
\* sets finite.
LEMMA BlueprintIsSound ==
  ASSUME scenario \in Scenarios, inv \in DOMAIN scenario.commands
  PROVE  /\ bp \in BlueprintRecords /\ bp.columns \in Seq(ColumnRecords) /\ bp.columns # << >>
         /\ \A i, j \in DOMAIN bp.columns : bp.columns[i].name = bp.columns[j].name => i = j
         /\ IsFiniteSet(bp.search) /\ IsFiniteSet(bp.keys)
         /\ \A k, l \in bp.keys : SameKey(k, l) => k = l
<1>1. scenario.commands \in Seq(Command)
  BY TableAssumption DEF ScenarioRecords
<1>2. Invocation \in Command
  BY <1>1 DEF Invocation
<1>3. Invocation.bp \in DOMAIN Blueprints
  BY <1>2 DEF Command
<1>4. bp \in BlueprintRecords /\ IsTable(bp) /\ bp.columns # << >>
  BY <1>3, TableAssumption DEF bp, IsDeclaration
<1> QED
  BY <1>4 DEF BlueprintRecords, IsTable

\* Nothing to do.
LEMMA NoneIsCareful == AreCareful(<< >>) /\ TasksAreCareful(<< >>)
  BY EmptyIsSeq DEF AreCareful, TasksAreCareful

\* A single statement.
LEMMA OneIsCareful ==
  ASSUME NEW s, IsCareful(s)
  PROVE  AreCareful(<< s >>)
  BY UnitIsSeq DEF AreCareful

\* A statement which may not be needed.
LEMMA IfIsCareful ==
  ASSUME NEW s, IsCareful(s), NEW c
  PROVE  AreCareful(If(c, s))
<1>1. CASE c
  BY <1>1, OneIsCareful DEF If
<1>2. CASE ~c
  BY <1>2, NoneIsCareful DEF If
<1> QED
  BY <1>1, <1>2

\* Some statements and then others.
LEMMA BothAreCareful ==
  ASSUME NEW p, NEW q, AreCareful(p), AreCareful(q)
  PROVE  AreCareful(p \o q)
  BY JoinIsSeq DEF AreCareful

\* The statements of all tasks.
LEMMA AllAreCareful ==
  ASSUME NEW ss, TasksAreCareful(ss)
  PROVE  AreCareful(FlattenSeq(ss))
<1>1. \A i \in DOMAIN ss : ss[i] \in Range(ss)
  BY DEF Range
<1>2. \A i \in DOMAIN ss : IsSeq(ss[i]) /\ \A s \in Range(ss[i]) : IsCareful(s)
  BY <1>1 DEF TasksAreCareful, AreCareful
<1> QED
  BY <1>2, FlattenIsSeq DEF AreCareful, TasksAreCareful

\* A function on the domain of a sequence with careful statements for values.
LEMMA MapIsCareful ==
  ASSUME NEW seq, IsSeq(seq), NEW f, f = [i \in DOMAIN seq |-> f[i]],
         \A i \in DOMAIN seq : AreCareful(f[i])
  PROVE  TasksAreCareful(f)
<1>1. Len(seq) \in Nat /\ DOMAIN seq = 1..Len(seq)
  BY SeqElim
<1>2. IsSeq(f) /\ DOMAIN f = DOMAIN seq
  BY <1>1, SeqIntro
<1> QED
  BY <1>2 DEF TasksAreCareful, Range

\* Statements of each value of a sequence.
LEMMA EachIsCareful ==
  ASSUME NEW seq, IsSeq(seq), NEW f, f = [i \in DOMAIN seq |-> f[i]],
         \A i \in DOMAIN seq : AreCareful(f[i])
  PROVE  AreCareful(FlattenSeq(f))
  BY MapIsCareful, AllAreCareful

\* MODIFY COLUMN neither renames a column nor touches its rows.
LEMMA ModifyIsCareful ==
  ASSUME NEW n, NEW a \in {"not_null", "default", "type", "comment"}, NEW v
  PROVE  /\ IsCareful(Unsafe("modify column", Modify(n, a, v)))
         /\ IsCareful(Safe("modify column", Modify(n, a, v)))
  BY DEF IsCareful, Unsafe, Safe, Modify

\* Of these only the kind of the statement matters.
LEMMA OthersAreCareful ==
  ASSUME NEW x, NEW op \in {"set option", "drop search", "drop key", "intend"}
  PROVE  IsCareful(Unsafe(op, x)) /\ IsCareful(Safe(op, x)) /\ IsCareful(Gated(op, x))
  BY DEF IsCareful, Unsafe, Safe, Gated

\* What the comparison of one column asks for: only a column that is not declared
\* is dropped.
LEMMA ColumnAltersAreCareful ==
  ASSUME NEW old
  PROVE  AreCareful(UnsafeColumnAlters(old)) /\ AreCareful(SafeColumnAlters(old))
<1> DEFINE new == ColumnOf(bp.columns, old.name)
           Set(a) == Unsafe("modify column", Modify(old.name, a, new[a]))
           Say == Safe("modify column", Modify(old.name, "comment", new.comment))
<1>1. IsCareful(Set("not_null")) /\ IsCareful(Set("default")) /\ IsCareful(Set("type"))
  BY ModifyIsCareful
<1>2. IsCareful(Say)
  BY ModifyIsCareful
<1>3. AreCareful(SafeColumnAlters(old))
  BY <1>2, IfIsCareful DEF SafeColumnAlters
<1>4. CASE old.name \notin Names(bp.columns)
  <2>1. IsCareful(Unsafe("drop column", old.name))
    BY <1>4 DEF IsCareful, Unsafe
  <2> QED
    BY <1>3, <1>4, <2>1, OneIsCareful DEF UnsafeColumnAlters
<1>5. CASE old.name \in Names(bp.columns)
  <2> DEFINE p == If(old.not_null # new.not_null, Set("not_null"))
             q == If(old.default # new.default /\ CanAlterDefault(old.default, new.default),
                     Set("default"))
             r == If(old.type # new.type /\ CanAlterType(old.type, new.type), Set("type"))
  <2>1. UnsafeColumnAlters(old) = p \o q \o r
    BY <1>5 DEF UnsafeColumnAlters
  <2>2. AreCareful(p) /\ AreCareful(q) /\ AreCareful(r)
    BY <1>1, IfIsCareful
  <2> HIDE DEF p, q, r
  <2>3. AreCareful(p \o q)
    BY <2>2, BothAreCareful
  <2>4. AreCareful(p \o q \o r)
    BY <2>2, <2>3, BothAreCareful
  <2> QED
    BY <1>3, <2>1, <2>4
<1> QED
  BY <1>4, <1>5

\* The attributes of a column.
LEMMA ColumnDomain ==
  /\ \A c \in ColumnRecords : DOMAIN c = Attributes
  /\ \A c \in LiveColumnRecords : DOMAIN c = LiveAttributes
<1>1. ASSUME NEW c \in ColumnRecords PROVE DOMAIN c = Attributes
  BY DEF ColumnRecords, Attributes
<1>2. ASSUME NEW c \in LiveColumnRecords PROVE DOMAIN c = LiveAttributes
  BY DEF LiveColumnRecords, LiveAttributes, Attributes
<1> QED
  BY <1>1, <1>2

\* What is added are declared columns.
LEMMA AddedColumns ==
  ASSUME scenario \in Scenarios, inv \in DOMAIN scenario.commands, IsSeq(columns)
  PROVE  Added \in Seq(ColumnRecords) /\ Cardinality(Remaining) \in Nat
<1>1. DOMAIN columns = 1..Len(columns) /\ Len(columns) \in Nat
  BY SeqElim
<1>2. IsFiniteSet(Remaining)
  <2>1. IsFiniteSet(1..Len(columns))
    BY <1>1, FS_Interval
  <2> QED
    BY <1>1, <2>1, FS_Subset DEF Remaining
<1>3. Cardinality(Remaining) \in Nat
  BY <1>2, FS_CardinalityType
<1>4. bp.columns \in Seq(ColumnRecords)
  BY BlueprintIsSound
<1> QED
  BY <1>3, <1>4 DEF Added

\* The statements that alter a table.
LEMMA AltersAreCareful ==
  ASSUME scenario \in Scenarios, inv \in DOMAIN scenario.commands, IsSeq(columns)
  PROVE  AreCareful(Alters)
<1> DEFINE adds == [i \in DOMAIN Added |-> << Safe("add column", [Added[i] EXCEPT !.expression = None]) >>]
           safes == [i \in DOMAIN columns |-> SafeColumnAlters(columns[i])]
           unsafes == [i \in DOMAIN columns |-> UnsafeColumnAlters(columns[i])]
           three == << "retention", "cluster", "tracking" >>
           sets == [i \in DOMAIN three |-> If(OptionDiffers(three[i]), Unsafe("set option", SetOption(three[i])))]
           says == If(OptionDiffers("comment"), Safe("set option", SetOption("comment")))
<1>1. AreCareful(FlattenSeq(adds))
  <2>1. IsSeq(Added)
    BY AddedColumns, SeqWithin
  <2>2. ASSUME NEW i \in DOMAIN Added PROVE AreCareful(adds[i])
    <3>1. Added[i] \in ColumnRecords
      BY AddedColumns
    <3>2. DOMAIN [Added[i] EXCEPT !.expression = None] = DOMAIN Added[i]
      OBVIOUS
    <3>3. DOMAIN Added[i] = Attributes
      BY <3>1, ColumnDomain
    <3>4. IsCareful(Safe("add column", [Added[i] EXCEPT !.expression = None]))
      BY <3>2, <3>3 DEF IsCareful, Safe
    <3> QED
      BY <3>4, OneIsCareful
  <2> QED
    BY <2>1, <2>2, EachIsCareful
<1>2. AreCareful(FlattenSeq(safes)) /\ AreCareful(FlattenSeq(unsafes))
  BY ColumnAltersAreCareful, EachIsCareful
<1>3. AreCareful(FlattenSeq(sets))
  <2>1. IsSeq(three) /\ DOMAIN three = 1..3
    BY DEF IsSeq, Range
  <2>2. ASSUME NEW i \in DOMAIN three PROVE AreCareful(sets[i])
    BY <2>2, OthersAreCareful, IfIsCareful
  <2> HIDE DEF three
  <2> QED
    BY <2>1, <2>2, EachIsCareful
<1>4. AreCareful(says)
  BY OthersAreCareful, IfIsCareful
<1>5. SafeAlters = FlattenSeq(safes) \o FlattenSeq(adds) \o says
  BY DEF SafeAlters, ForEach
<1>6. UnsafeAlters = FlattenSeq(unsafes) \o FlattenSeq(sets)
  BY DEF UnsafeAlters, ForEach
<1> HIDE DEF adds, safes, unsafes, sets, says
<1>7. AreCareful(SafeAlters) /\ AreCareful(UnsafeAlters)
  BY <1>1, <1>2, <1>3, <1>4, <1>5, <1>6, BothAreCareful
<1>8. AreCareful(<< Safe("intend", DroppingNames) >>)
  BY OthersAreCareful, OneIsCareful
<1>9. AreCareful(SafeAlters \o UnsafeAlters \o << Safe("intend", DroppingNames) >>)
  BY <1>7, <1>8, BothAreCareful
<1> QED
  BY <1>9, NoneIsCareful DEF Alters

\* Search is declared on what it can be optimized on, keys on declared columns.
LEMMA SearchIsDeclared ==
  ASSUME scenario \in Scenarios, inv \in DOMAIN scenario.commands
  PROVE  /\ bp.search \in {{"no"}, {"yes"}} \/ bp.search \subseteq SearchItems
         /\ \A k \in bp.keys : k.columns \subseteq Names(bp.columns)
<1>1. scenario.commands \in Seq(Command)
  BY TableAssumption DEF ScenarioRecords
<1>2. Invocation \in Command
  BY <1>1 DEF Invocation
<1>3. Invocation.bp \in DOMAIN Blueprints
  BY <1>2 DEF Command
<1>4. IsDeclaration(bp)
  BY <1>3, TableAssumption DEF bp
<1> QED
  BY <1>4 DEF IsDeclaration, Names, NamesOf, Range

\* What a new table's search is optimized on, item by item.
LEMMA CreateSearchIsWithin ==
  ASSUME scenario \in Scenarios, inv \in DOMAIN scenario.commands
  PROVE  IsSeq(CreateSearch) /\ \A i \in DOMAIN CreateSearch : CreateSearch[i] \subseteq SearchItems
<1>1. CASE bp.search = {"no"}
  <2>1. CreateSearch = << >>
    BY <1>1 DEF CreateSearch
  <2> QED
    BY <2>1, EmptyIsSeq
<1>2. CASE bp.search = {"yes"} /\ bp.search # {"no"}
  <2>1. CreateSearch = << SearchItems >>
    BY <1>2 DEF CreateSearch
  <2>2. \A i \in DOMAIN << SearchItems >> : << SearchItems >>[i] = SearchItems
    OBVIOUS
  <2>3. IsSeq(<< SearchItems >>)
    BY UnitIsSeq
  <2> QED
    BY <2>1, <2>2, <2>3, TableAssumption
<1>3. CASE bp.search # {"yes"} /\ bp.search # {"no"}
  <2> DEFINE seq == SetToSeq(bp.search)
             f == [i \in DOMAIN seq |-> << {seq[i]} >>]
  <2>1. CreateSearch = FlattenSeq(f)
    BY <1>3 DEF CreateSearch, EachOf, ForEach
  <2>2. IsSeq(seq) /\ Range(seq) = bp.search
    BY BlueprintIsSound, SetToSeqIsSeq
  <2> HIDE DEF seq
  <2>3. IsSeq(f) /\ DOMAIN f = DOMAIN seq
    <3>1. DOMAIN seq = 1..Len(seq) /\ Len(seq) \in Nat
      BY <2>2, SeqElim
    <3> QED
      BY <3>1, SeqIntro
  <2>4. \A i \in DOMAIN f : IsSeq(f[i]) /\ Range(f[i]) = {{seq[i]}}
    BY <2>3, UnitIsSeq
  <2> HIDE DEF f
  <2>5. IsSeq(CreateSearch) /\ \A x \in Range(CreateSearch) : \E i \in DOMAIN f : x \in Range(f[i])
    BY <2>1, <2>3, <2>4, FlattenIsSeq
  <2>6. ASSUME NEW x \in Range(CreateSearch) PROVE x \subseteq SearchItems
    <3>1. PICK i \in DOMAIN f : x \in Range(f[i])
      BY <2>5
    <3>2. x = {seq[i]}
      BY <2>4, <3>1
    <3>3. seq[i] \in bp.search
      BY <2>2, <2>3 DEF Range
    <3> QED
      BY <1>3, <3>2, <3>3, SearchIsDeclared
  <2> QED
    BY <2>5, <2>6 DEF Range
<1> QED
  BY <1>1, <1>2, <1>3

\* Search is optimized on more items.
LEMMA SearchIsCareful ==
  ASSUME NEW x \in SUBSET SearchItems
  PROVE  IsCareful(Unsafe("add search", x)) /\ IsCareful(Gated("add search", x))
  BY DEF IsCareful, Unsafe, Gated

\* The comparison of what search is optimized on.
LEMMA CompareSearchIsCareful ==
  ASSUME scenario \in Scenarios, inv \in DOMAIN scenario.commands, IsFiniteSet(search)
  PROVE  AreCareful(CompareSearch)
<1>1. CASE bp.search = {"no"}
  BY <1>1, OthersAreCareful, IfIsCareful DEF CompareSearch
<1>2. CASE bp.search = {"yes"} /\ bp.search # {"no"}
  BY <1>2, SearchIsCareful, TableAssumption, IfIsCareful DEF CompareSearch
<1>3. CASE bp.search # {"yes"} /\ bp.search # {"no"}
  <2> DEFINE new == SetToSeq(bp.search \ search)
             old == SetToSeq(search \ bp.search)
             adds == [i \in DOMAIN new |-> << Unsafe("add search", {new[i]}) >>]
             drops == [i \in DOMAIN old |-> << Unsafe("drop search", {old[i]}) >>]
  <2>1. CompareSearch = FlattenSeq(adds) \o FlattenSeq(drops)
    BY <1>3 DEF CompareSearch, EachOf, ForEach
  <2>2. IsFiniteSet(bp.search \ search) /\ IsFiniteSet(search \ bp.search)
    BY BlueprintIsSound, FS_Subset
  <2>3. IsSeq(new) /\ Range(new) = bp.search \ search /\ IsSeq(old)
    BY <2>2, SetToSeqIsSeq
  <2> HIDE DEF new, old
  <2>4. AreCareful(FlattenSeq(adds))
    <3>1. \A i \in DOMAIN new : IsCareful(Unsafe("add search", {new[i]}))
      <4>1. ASSUME NEW i \in DOMAIN new PROVE {new[i]} \in SUBSET SearchItems
        BY <1>3, <2>3, SearchIsDeclared DEF Range
      <4> QED
        BY <4>1, SearchIsCareful
    <3> QED
      BY <2>3, <3>1, OneIsCareful, EachIsCareful
  <2>5. AreCareful(FlattenSeq(drops))
    BY <2>3, OthersAreCareful, OneIsCareful, EachIsCareful
  <2> HIDE DEF adds, drops
  <2> QED
    BY <2>1, <2>4, <2>5, BothAreCareful
<1> QED
  BY <1>1, <1>2, <1>3

\* Whatever the table is like, comparing it asks for careful statements only.
LEMMA CompareTableIsCareful ==
  ASSUME scenario \in Scenarios, inv \in DOMAIN scenario.commands, IsSeq(columns),
         IsFiniteSet(search)
  PROVE  AreCareful(CompareTable)
<1> DEFINE items == [i \in DOMAIN CreateSearch |-> << Gated("add search", CreateSearch[i]) >>]
<1>1. AreCareful(FlattenSeq(items))
  BY CreateSearchIsWithin, SearchIsCareful, OneIsCareful, EachIsCareful
<1>2. IsCareful(Gated("replace", None))
  BY DEF IsCareful, Gated
<1>3. AreCareful(<< Gated("replace", None) >> \o FlattenSeq(items))
  BY <1>1, <1>2, OneIsCareful, BothAreCareful
<1>4. AreCareful(Alters \o CompareSearch)
  BY AltersAreCareful, CompareSearchIsCareful, BothAreCareful
<1>5. CASE ReplaceReasons
  <2>1. AreCareful(<< Safe("intend", Names(columns)) >>)
    BY OthersAreCareful, OneIsCareful
  <2>2. CompareTable = (<< Gated("replace", None) >> \o FlattenSeq(items)) \o << Safe("intend", Names(columns)) >>
    BY <1>5 DEF CompareTable, ForEach
  <2> HIDE DEF items
  <2> QED
    BY <1>3, <2>1, <2>2, BothAreCareful
<1>6. CASE ~ReplaceReasons
  BY <1>4, <1>6 DEF CompareTable
<1> QED
  BY <1>5, <1>6

\* A table that is not there is created first.
LEMMA CreateTableIsCareful ==
  ASSUME scenario \in Scenarios, inv \in DOMAIN scenario.commands
  PROVE  \E q : AreCareful(q) /\ CreateTable = << Safe("create", None) >> \o q
<1> DEFINE items == [i \in DOMAIN CreateSearch |-> << Unsafe("add search", CreateSearch[i]) >>]
<1>1. AreCareful(FlattenSeq(items))
  BY CreateSearchIsWithin, SearchIsCareful, OneIsCareful, EachIsCareful
<1> QED
  BY <1>1 DEF CreateTable, ForEach

\* The tasks of the resolvers of keys.
LEMMA KeyTaskIsCareful ==
  ASSUME NEW l, l \in bp.keys, IsFiniteSet(keys)
  PROVE  AreCareful(CreateOrCompareKey(l))
<1> DEFINE there == {k \in Listed(l.kind) : SameKey(k, l)}
           seq == SetToSeq(there)
           drops == [i \in DOMAIN seq |-> << Safe("drop key", seq[i]) >>]
<1>1. IsFiniteSet(there)
  BY FS_Subset DEF Listed
<1>2. IsSeq(seq)
  BY <1>1, SetToSeqIsSeq
<1>3. AreCareful(<< Safe("add key", l) >>)
  <2>1. IsCareful(Safe("add key", l))
    BY DEF IsCareful, Safe
  <2> QED
    BY <2>1, OneIsCareful
<1>4. AreCareful(FlattenSeq(drops))
  BY <1>2, OthersAreCareful, OneIsCareful, EachIsCareful
<1>5. AreCareful(FlattenSeq(drops) \o << Safe("add key", l) >>)
  BY <1>3, <1>4, BothAreCareful
<1>6. CreateOrCompareKey(l) \in
        {<< >>, << Safe("add key", l) >>, FlattenSeq(drops) \o << Safe("add key", l) >>}
  BY DEF CreateOrCompareKey, EachOf, ForEach
<1> QED
  BY <1>3, <1>5, <1>6, NoneIsCareful

\* Some tasks and then others.
LEMMA TasksJoin ==
  ASSUME NEW p, NEW q, TasksAreCareful(p), TasksAreCareful(q)
  PROVE  TasksAreCareful(p \o q)
  BY JoinIsSeq DEF TasksAreCareful

\* Tasks of each element of a sequence.
LEMMA EachTaskIsCareful ==
  ASSUME NEW seq, IsSeq(seq), NEW f, f = [i \in DOMAIN seq |-> << f[i][1] >>],
         \A i \in DOMAIN seq : AreCareful(f[i][1])
  PROVE  TasksAreCareful(FlattenSeq(f))
<1>1. IsSeq(f) /\ DOMAIN f = DOMAIN seq
  <2>1. DOMAIN seq = 1..Len(seq) /\ Len(seq) \in Nat /\ f = [i \in DOMAIN seq |-> f[i]]
    BY SeqElim
  <2> QED
    BY <2>1, SeqIntro
<1>2. ASSUME NEW i \in DOMAIN f PROVE IsSeq(f[i]) /\ Range(f[i]) = {f[i][1]}
  <2>1. f[i] = << f[i][1] >>
    BY <1>1
  <2> QED
    BY <2>1, UnitIsSeq
<1>3. /\ IsSeq(FlattenSeq(f))
      /\ \A x \in Range(FlattenSeq(f)) : \E i \in DOMAIN f : x \in Range(f[i])
  BY <1>1, <1>2, FlattenIsSeq
<1>4. ASSUME NEW x \in Range(FlattenSeq(f)) PROVE AreCareful(x)
  <2>1. PICK i \in DOMAIN f : x \in Range(f[i])
    BY <1>3
  <2>2. x = f[i][1]
    BY <1>2, <2>1
  <2> QED
    BY <1>1, <2>2
<1> QED
  BY <1>3, <1>4 DEF TasksAreCareful

\* A resolver of keys leaves the columns alone.
LEMMA KeyTasksAreCareful ==
  ASSUME NEW kind, IsFiniteSet(keys), scenario \in Scenarios, inv \in DOMAIN scenario.commands
  PROVE  TasksAreCareful(KeyTasks(kind))
<1> DEFINE gone == SetToSeq(DropKeys(kind))
           wanted == SetToSeq(Declared(kind))
           drops == [i \in DOMAIN gone |-> << << Safe("drop key", gone[i]) >> >>]
           creates == [i \in DOMAIN wanted |-> << CreateOrCompareKey(wanted[i]) >>]
<1>1. IsFiniteSet(DropKeys(kind))
  BY FS_Subset DEF DropKeys, Listed
<1>2. IsFiniteSet(Declared(kind))
  BY BlueprintIsSound, FS_Subset DEF Declared
<1>3. IsSeq(gone) /\ IsSeq(wanted) /\ Range(wanted) \subseteq Declared(kind)
  BY <1>1, <1>2, SetToSeqIsSeq
<1> HIDE DEF gone, wanted
<1>4. TasksAreCareful(FlattenSeq(drops))
  <2>1. \A i \in DOMAIN gone : drops[i][1] = << Safe("drop key", gone[i]) >>
    OBVIOUS
  <2>2. \A i \in DOMAIN gone : AreCareful(drops[i][1])
    BY <2>1, OthersAreCareful, OneIsCareful
  <2>3. drops = [i \in DOMAIN gone |-> << drops[i][1] >>]
    OBVIOUS
  <2> HIDE DEF drops
  <2> QED
    BY <1>3, <2>2, <2>3, EachTaskIsCareful
<1>5. TasksAreCareful(FlattenSeq(creates))
  <2>1. \A i \in DOMAIN wanted : creates[i][1] = CreateOrCompareKey(wanted[i])
    OBVIOUS
  <2>2. ASSUME NEW i \in DOMAIN wanted PROVE AreCareful(creates[i][1])
    <3>1. wanted[i] \in bp.keys
      BY <1>3 DEF Declared, Range
    <3> QED
      BY <2>1, <3>1, KeyTaskIsCareful
  <2>3. creates = [i \in DOMAIN wanted |-> << creates[i][1] >>]
    OBVIOUS
  <2> HIDE DEF creates
  <2> QED
    BY <1>3, <2>2, <2>3, EachTaskIsCareful
<1> QED
  BY <1>4, <1>5, TasksJoin DEF KeyTasks, EachOf, ForEach, gone, wanted

-----------------------------------------------------------------------------
(* What is due stays careful.                                              *)

\* Within an invocation the blueprint and what is careful stay what they are.
LEMMA SameBlueprint ==
  ASSUME UNCHANGED <<scenario, inv>>
  PROVE  /\ Invocation' = Invocation /\ bp' = bp
         /\ \A s : IsCareful(s)' <=> IsCareful(s)
         /\ \A d : TasksAreCareful(d)' <=> TasksAreCareful(d)
<1>1. Invocation' = Invocation
  BY DEF Invocation
<1>2. bp' = bp
  BY <1>1 DEF bp
<1>3. \A s : IsCareful(s)' <=> IsCareful(s)
  BY <1>2 DEF IsCareful
<1> QED
  BY <1>1, <1>2, <1>3 DEF TasksAreCareful, AreCareful

\* The next statement, and what is left when it is done or has failed.
LEMMA NextStatement ==
  ASSUME DueIsCareful, HasStatement
  PROVE  /\ IsCareful(Statement) \/ (~Exists /\ Statement = Safe("create", None))
         /\ TasksAreCareful(<< Tail(Head(due)) >> \o Tail(due))
         /\ TasksAreCareful(Tail(due))
<1>1. ASSUME NEW q, AreCareful(q) PROVE TasksAreCareful(<< q >>)
  BY <1>1, UnitIsSeq DEF TasksAreCareful
<1>2. CASE TasksAreCareful(due)
  <2>1. Head(due) \in Range(due) /\ IsSeq(Tail(due)) /\ Range(Tail(due)) \subseteq Range(due)
    BY <1>2, HeadTail DEF HasStatement, TasksAreCareful
  <2>2. AreCareful(Head(due)) /\ TasksAreCareful(Tail(due))
    BY <1>2, <2>1 DEF TasksAreCareful
  <2>3. /\ Statement \in Range(Head(due)) /\ IsSeq(Tail(Head(due)))
        /\ Range(Tail(Head(due))) \subseteq Range(Head(due))
    BY <2>2, HeadTail DEF HasStatement, Statement, AreCareful
  <2>4. IsCareful(Statement) /\ AreCareful(Tail(Head(due)))
    BY <2>2, <2>3 DEF AreCareful
  <2> QED
    BY <1>1, <2>2, <2>4, TasksJoin
<1>3. CASE ~TasksAreCareful(due)
  <2>1. PICK q : AreCareful(q) /\ due = << << Safe("create", None) >> \o q >>
    BY <1>3 DEF DueIsCareful
  <2>2. Head(due) = << Safe("create", None) >> \o q /\ Tail(due) = << >>
    BY <2>1
  <2>3. Statement = Safe("create", None) /\ Tail(Head(due)) = q
    <3> DEFINE c == Safe("create", None)
    <3>1. q \in Seq(Range(q) \cup {c}) /\ << c >> \in Seq(Range(q) \cup {c})
      BY <2>1, SeqIn DEF AreCareful
    <3> HIDE DEF c
    <3>2. Head(<< c >> \o q) = c
      BY <3>1
    <3>3. Tail(<< c >> \o q) = q
      BY <3>1
    <3> QED
      BY <2>2, <3>2, <3>3 DEF Statement, c
  <2>4. ~Exists
    BY <1>3 DEF DueIsCareful
  <2> QED
    BY <1>1, <2>1, <2>2, <2>3, <2>4, TasksJoin, NoneIsCareful
<1> QED
  BY <1>2, <1>3

-----------------------------------------------------------------------------
(* Columns by name.                                                        *)

\* The names of columns.
LEMMA NamesAre ==
  ASSUME NEW cols
  PROVE  \A n : n \in Names(cols) <=> \E i \in DOMAIN cols : cols[i].name = n
  BY DEF Names, NamesOf, Range

\* A name finds its column.
LEMMA ColumnByName ==
  ASSUME NEW cols, HaveNames(cols), NEW i \in DOMAIN cols
  PROVE  PositionOf(cols, cols[i].name) = i /\ ColumnOf(cols, cols[i].name) = cols[i]
<1>1. \A j \in DOMAIN cols : cols[j].name = cols[i].name <=> j = i
  BY DEF HaveNames
<1>2. PositionOf(cols, cols[i].name) = i
  BY <1>1 DEF PositionOf
<1> QED
  BY <1>2 DEF ColumnOf

\* What is left of a sequence without one of its positions.
LEMMA RemoveIsSeq ==
  ASSUME NEW s, IsSeq(s), NEW p \in DOMAIN s
  PROVE  /\ IsSeq(RemoveAt(s, p)) /\ DOMAIN RemoveAt(s, p) = 1..(Len(s) - 1)
         /\ \A i \in 1..(Len(s) - 1) : RemoveAt(s, p)[i] = IF i < p THEN s[i] ELSE s[i + 1]
<1> DEFINE S == Range(s)
           a == SubSeq(s, 1, p - 1)
           b == SubSeq(s, p + 1, Len(s))
<1>1. s \in Seq(S) /\ Len(s) \in Nat /\ p \in 1..Len(s)
  BY SeqElim DEF IsSeq
<1>2. a \in Seq(S) /\ Len(a) = p - 1 /\ \A i \in 1..(p - 1) : a[i] = s[i]
  BY <1>1
<1>3. b \in Seq(S) /\ Len(b) = Len(s) - p /\ \A i \in 1..(Len(s) - p) : b[i] = s[p + i]
  BY <1>1
<1> HIDE DEF S, a, b
<1>4. /\ \A i \in 1..Len(a) : (a \o b)[i] = a[i]
      /\ \A i \in 1..Len(b) : (a \o b)[i + Len(a)] = b[i]
  <2>1. a \in Seq(S) /\ b \in Seq(S)
    BY <1>2, <1>3
  <2> QED
    BY <2>1, JoinAt
<1>5. a \o b \in Seq(S) /\ Len(a \o b) = Len(s) - 1
  BY <1>1, <1>2, <1>3
<1>6. RemoveAt(s, p) = a \o b
  BY DEF RemoveAt, a, b
<1>7. ASSUME NEW i \in 1..(Len(s) - 1)
      PROVE  (a \o b)[i] = IF i < p THEN s[i] ELSE s[i + 1]
  <2>1. CASE i < p
    <3>1. i \in 1..(p - 1)
      BY <1>1, <2>1
    <3>2. (a \o b)[i] = a[i]
      BY <1>1, <1>2, <1>4, <3>1
    <3> QED
      BY <1>2, <2>1, <3>1, <3>2
  <2>2. CASE ~(i < p)
    <3> DEFINE k == i - (p - 1)
    <3>1. k \in 1..(Len(s) - p) /\ i = (p - 1) + k /\ p + k = i + 1
      <4>1. i \in Nat /\ p \in Nat /\ p <= i /\ i <= Len(s) - 1
        BY <1>1, <2>2
      <4> QED
        BY <1>1, <4>1
    <3> HIDE DEF k
    <3>2. \A j \in 1..Len(b) : (a \o b)[j + Len(a)] = b[j]
      BY <1>4
    <3>3. k \in 1..Len(b) /\ k + Len(a) = i
      BY <1>1, <1>2, <1>3, <3>1
    <3>4. (a \o b)[i] = b[k]
      BY <3>2, <3>3
    <3> QED
      BY <1>3, <2>2, <3>1, <3>4
  <2> QED
    BY <2>1, <2>2
<1>8. IsSeq(a \o b) /\ DOMAIN (a \o b) = 1..(Len(s) - 1)
  <2>1. IsSeq(a \o b)
    BY <1>5, SeqWithin
  <2> QED
    BY <1>5, <2>1, SeqElim
<1> QED
  BY <1>6, <1>7, <1>8

\* What a step may make of the columns.
KeepsRows(new) ==
  \A c \in Range(columns) :
    IF c.name \in Names(new)
    THEN \/ ColumnOf(new, c.name).data = c.data
         \/ ColumnOf(bp.columns, c.name).expression # None
    ELSE c.name \notin Names(bp.columns) /\ Invocation.unsafe

\* A new column has a name and rows.
LEMMA FilledColumn ==
  ASSUME NEW c, DOMAIN c = Attributes, NEW rows
  PROVE  /\ Filled(c, rows).name = c.name /\ DOMAIN Filled(c, rows) = LiveAttributes
         /\ Filled(c, rows).data = IF c.expression # None THEN "computed" ELSE rows
<1>1. "name" \in Attributes /\ "data" \notin Attributes
  BY DEF Attributes
<1> QED
  BY <1>1 DEF Filled, LiveAttributes

\* Columns that are where they were, under their names, with their rows.
LEMMA SameNames ==
  ASSUME AreSound(columns), NEW new, IsSeq(new), Len(new) = Len(columns),
         \A i \in DOMAIN columns :
           /\ DOMAIN new[i] = LiveAttributes
           /\ new[i].name = columns[i].name /\ new[i].data = columns[i].data
  PROVE  AreSound(new) /\ KeepsRows(new)
<1>1. IsSeq(columns) /\ DOMAIN new = DOMAIN columns
  BY SeqElim DEF AreSound, HaveNames
<1>2. AreSound(new)
  BY <1>1 DEF AreSound, HaveNames
<1>3. ASSUME NEW c \in Range(columns)
      PROVE  c.name \in Names(new) /\ ColumnOf(new, c.name).data = c.data
  <2>1. PICK i \in DOMAIN columns : c = columns[i]
    BY DEF Range
  <2>2. ColumnOf(new, new[i].name) = new[i] /\ new[i].name \in Names(new)
    BY <1>1, <1>2, ColumnByName, NamesAre DEF AreSound
  <2> QED
    BY <2>1, <2>2
<1> QED
  BY <1>2, <1>3 DEF KeepsRows

\* CREATE OR REPLACE TABLE AS SELECT takes along the rows of every declared column.
LEMMA RebuildKeepsRows ==
  ASSUME AreSound(columns), scenario \in Scenarios, inv \in DOMAIN scenario.commands,
         NEW new, new = [i \in DOMAIN bp.columns |-> CopyColumn(bp.columns[i])],
         Invocation.unsafe
  PROVE  AreSound(new) /\ KeepsRows(new)
<1>1. /\ HaveNames(bp.columns) /\ DOMAIN bp.columns = 1..Len(bp.columns)
      /\ Len(bp.columns) \in Nat /\ \A i \in DOMAIN bp.columns : bp.columns[i] \in ColumnRecords
  BY BlueprintIsSound, SeqWithin DEF HaveNames
<1>2. \A c : CopyColumn(c) = Filled(c, IF c.name \in Names(columns) THEN ColumnOf(columns, c.name).data
                                      ELSE IF c.default # None THEN "default" ELSE "null")
  BY DEF CopyColumn
<1>3. ASSUME NEW i \in DOMAIN bp.columns
      PROVE  /\ DOMAIN new[i] = LiveAttributes /\ new[i].name = bp.columns[i].name
             /\ bp.columns[i].name \in Names(columns) =>
                  \/ new[i].data = ColumnOf(columns, bp.columns[i].name).data
                  \/ bp.columns[i].expression # None
  <2>1. DOMAIN bp.columns[i] = Attributes
    BY <1>1, ColumnDomain
  <2>2. new[i] = CopyColumn(bp.columns[i])
    OBVIOUS
  <2> QED
    BY <1>2, <2>1, <2>2, FilledColumn
<1>4. IsSeq(new) /\ DOMAIN new = DOMAIN bp.columns
  BY <1>1, SeqIntro
<1>5. AreSound(new)
  <2>1. ASSUME NEW i \in DOMAIN new, NEW j \in DOMAIN new, new[i].name = new[j].name
        PROVE  i = j
    <3>1. new[i].name = bp.columns[i].name /\ new[j].name = bp.columns[j].name
      BY <1>3, <1>4
    <3> QED
      BY <1>1, <1>4, <2>1, <3>1 DEF HaveNames
  <2>2. \A i \in DOMAIN new : DOMAIN new[i] = LiveAttributes
    BY <1>3, <1>4
  <2> QED
    BY <1>4, <2>1, <2>2 DEF AreSound, HaveNames
<1>6. ASSUME NEW c \in Range(columns), c.name \in Names(new)
      PROVE  \/ ColumnOf(new, c.name).data = c.data
             \/ ColumnOf(bp.columns, c.name).expression # None
  <2>1. PICK i \in DOMAIN columns : c = columns[i]
    BY DEF Range
  <2>2. c.name \in Names(columns) /\ ColumnOf(columns, c.name) = c
    BY <2>1, NamesAre, ColumnByName DEF AreSound
  <2>3. PICK j \in DOMAIN new : new[j].name = c.name
    BY <1>6, NamesAre
  <2>4. ColumnOf(new, c.name) = new[j]
    BY <1>5, <2>3, ColumnByName DEF AreSound
  <2>5. bp.columns[j].name = c.name /\ ColumnOf(bp.columns, c.name) = bp.columns[j]
    <3>1. j \in DOMAIN bp.columns /\ new[j].name = bp.columns[j].name
      BY <1>3, <1>4
    <3> QED
      BY <1>1, <2>3, <3>1, ColumnByName
  <2> QED
    BY <1>3, <1>4, <2>2, <2>4, <2>5
<1>7. ASSUME NEW c \in Range(columns), c.name \notin Names(new)
      PROVE  c.name \notin Names(bp.columns)
  BY <1>3, <1>4, <1>7, NamesAre
<1> QED
  BY <1>5, <1>6, <1>7 DEF KeepsRows

\* ADD COLUMN.
LEMMA AddKeepsRows ==
  ASSUME AreSound(columns), NEW c, c.name \notin Names(columns),
         DOMAIN c = LiveAttributes
  PROVE  AreSound(Append(columns, c)) /\ KeepsRows(Append(columns, c))
<1> DEFINE new == Append(columns, c)
           n == Len(columns)
<1>1. IsSeq(columns) /\ n \in Nat /\ DOMAIN columns = 1..n
  BY SeqElim DEF AreSound, HaveNames
<1>2. columns \in Seq(Range(columns) \cup {c})
  BY <1>1, SeqIn
<1>3. /\ new \in Seq(Range(columns) \cup {c}) /\ Len(new) = n + 1
      /\ \A i \in 1..n : new[i] = columns[i]
      /\ new[n + 1] = c
  BY <1>1, <1>2
<1> HIDE DEF new
<1>4. IsSeq(new) /\ DOMAIN new = 1..(n + 1)
  BY <1>1, <1>3, SeqWithin
<1>5. \A i \in DOMAIN columns : columns[i].name # c.name
  BY NamesAre
<1>6. AreSound(new)
  <2>1. \A i \in 1..(n + 1) : i \in 1..n \/ i = n + 1
    BY <1>1
  <2> QED
    BY <1>1, <1>3, <1>4, <1>5, <2>1 DEF AreSound, HaveNames
<1>7. ASSUME NEW x \in Range(columns)
      PROVE  x.name \in Names(new) /\ ColumnOf(new, x.name).data = x.data
  <2>1. PICK i \in DOMAIN columns : x = columns[i]
    BY DEF Range
  <2>2. i \in DOMAIN new /\ new[i] = x
    BY <1>1, <1>3, <1>4, <2>1
  <2> QED
    BY <1>6, <2>2, ColumnByName, NamesAre DEF AreSound
<1> QED
  BY <1>6, <1>7 DEF KeepsRows, new

\* DROP COLUMN, of a column that is not declared.
LEMMA DropKeepsRows ==
  ASSUME AreSound(columns), NEW n, n \in Names(columns), n \notin Names(bp.columns),
         Invocation.unsafe
  PROVE  /\ AreSound(RemoveAt(columns, PositionOf(columns, n)))
         /\ KeepsRows(RemoveAt(columns, PositionOf(columns, n)))
<1> DEFINE p == PositionOf(columns, n)
           new == RemoveAt(columns, p)
           len == Len(columns)
<1>1. IsSeq(columns) /\ len \in Nat /\ DOMAIN columns = 1..len
  BY SeqElim DEF AreSound, HaveNames
<1>2. p \in DOMAIN columns /\ columns[p].name = n
  <2>1. \E i \in DOMAIN columns : columns[i].name = n
    BY NamesAre
  <2> QED
    BY <2>1 DEF PositionOf
<1> HIDE DEF p
<1>3. /\ IsSeq(new) /\ DOMAIN new = 1..(len - 1)
      /\ \A i \in 1..(len - 1) : new[i] = IF i < p THEN columns[i] ELSE columns[i + 1]
  BY <1>1, <1>2, RemoveIsSeq
<1> HIDE DEF new
<1> DEFINE from(i) == IF i < p THEN i ELSE i + 1
<1>4. \A i \in DOMAIN new : from(i) \in DOMAIN columns /\ new[i] = columns[from(i)]
  BY <1>1, <1>2, <1>3
<1>5. \A i, j \in DOMAIN new : from(i) = from(j) => i = j
  BY <1>1, <1>2, <1>3
<1>6. \A j \in DOMAIN columns : j # p => \E i \in DOMAIN new : from(i) = j
  <2> SUFFICES ASSUME NEW j \in DOMAIN columns, j # p PROVE \E i \in DOMAIN new : from(i) = j
    OBVIOUS
  <2>1. CASE j < p
    BY <1>1, <1>2, <1>3, <2>1
  <2>2. CASE ~(j < p)
    <3>1. j - 1 \in DOMAIN new /\ from(j - 1) = j
      BY <1>1, <1>2, <1>3, <2>2
    <3> QED
      BY <3>1
  <2> QED
    BY <2>1, <2>2
<1> HIDE DEF from
<1>7. AreSound(new)
  BY <1>3, <1>4, <1>5 DEF AreSound, HaveNames
<1>8. ASSUME NEW x \in Range(columns), x.name # n
      PROVE  x.name \in Names(new) /\ ColumnOf(new, x.name).data = x.data
  <2>1. PICK j \in DOMAIN columns : x = columns[j]
    BY DEF Range
  <2>2. PICK i \in DOMAIN new : new[i] = x
    BY <1>2, <1>4, <1>6, <1>8, <2>1
  <2> QED
    BY <1>7, <2>2, ColumnByName, NamesAre DEF AreSound
<1>9. ASSUME NEW x \in Range(columns), x.name = n PROVE x.name \notin Names(new)
  <2>1. \A i \in DOMAIN new : new[i].name # n
    <3> SUFFICES ASSUME NEW i \in DOMAIN new, new[i].name = n PROVE FALSE
      OBVIOUS
    <3>1. from(i) = p
      BY <1>2, <1>4 DEF AreSound, HaveNames
    <3> QED
      BY <1>1, <1>2, <1>3, <3>1 DEF from
  <2> QED
    BY <1>9, <2>1, NamesAre
<1> QED
  BY <1>7, <1>8, <1>9 DEF KeepsRows, new, p

\* CREATE TABLE, where there are no rows to lose.
LEMMA CreateKeepsRows ==
  ASSUME ~Exists, scenario \in Scenarios, inv \in DOMAIN scenario.commands,
         NEW new, new = [i \in DOMAIN bp.columns |-> Filled(bp.columns[i], "new")]
  PROVE  AreSound(new) /\ KeepsRows(new)
<1>1. /\ HaveNames(bp.columns) /\ DOMAIN bp.columns = 1..Len(bp.columns)
      /\ Len(bp.columns) \in Nat /\ \A i \in DOMAIN bp.columns : bp.columns[i] \in ColumnRecords
  BY BlueprintIsSound, SeqWithin DEF HaveNames
<1>2. ASSUME NEW i \in DOMAIN bp.columns
      PROVE  DOMAIN new[i] = LiveAttributes /\ new[i].name = bp.columns[i].name
  <2>1. DOMAIN bp.columns[i] = Attributes
    BY <1>1, ColumnDomain
  <2>2. new[i] = Filled(bp.columns[i], "new")
    OBVIOUS
  <2> QED
    BY <2>1, <2>2, FilledColumn
<1>3. IsSeq(new) /\ DOMAIN new = DOMAIN bp.columns
  BY <1>1, SeqIntro
<1>4. ASSUME NEW i \in DOMAIN new, NEW j \in DOMAIN new, new[i].name = new[j].name
      PROVE  i = j
  <2>1. new[i].name = bp.columns[i].name /\ new[j].name = bp.columns[j].name
    BY <1>2, <1>3
  <2> QED
    BY <1>1, <1>3, <1>4, <2>1 DEF HaveNames
<1>5. AreSound(new)
  BY <1>2, <1>3, <1>4 DEF AreSound, HaveNames
<1>6. Range(columns) = {}
  BY EmptyIsSeq DEF Exists
<1> QED
  BY <1>5, <1>6 DEF KeepsRows

\* MODIFY COLUMN.
LEMMA ModifyKeepsRows ==
  ASSUME AreSound(columns), NEW what, what.attribute \notin {"name", "data"},
         NEW new, new = [i \in DOMAIN columns |->
                           IF columns[i].name # what.name THEN columns[i]
                           ELSE [columns[i] EXCEPT ![what.attribute] = what.value]]
  PROVE  AreSound(new) /\ KeepsRows(new)
<1>1. IsSeq(columns) /\ Len(columns) \in Nat /\ DOMAIN columns = 1..Len(columns)
  BY SeqElim DEF AreSound, HaveNames
<1>2. IsSeq(new) /\ Len(new) = Len(columns)
  BY <1>1, SeqIntro
<1>3. ASSUME NEW i \in DOMAIN columns
      PROVE  /\ DOMAIN new[i] = LiveAttributes
             /\ new[i].name = columns[i].name /\ new[i].data = columns[i].data
  <2>1. DOMAIN columns[i] = LiveAttributes
    BY DEF AreSound
  <2>2. new[i] \in {columns[i], [columns[i] EXCEPT ![what.attribute] = what.value]}
    OBVIOUS
  <2> QED
    BY <2>1, <2>2
<1> QED
  BY <1>2, <1>3, SameNames

\* What a statement that is due does to the columns and their rows.
LEMMA StatementKeepsRows ==
  ASSUME AreSound(columns), scenario \in Scenarios, inv \in DOMAIN scenario.commands,
         NEW s, CanRun(s), IsLegal(s), IsCareful(s) \/ (~Exists /\ s = Safe("create", None))
  PROVE  AreSound(ColumnsAfter(s)) /\ KeepsRows(ColumnsAfter(s))
<1>1. CASE s.op = "create"
  <2>1. ~Exists
    BY <1>1 DEF IsCareful
  <2>2. ColumnsAfter(s) = [i \in DOMAIN bp.columns |-> Filled(bp.columns[i], "new")]
    BY <1>1 DEF ColumnsAfter
  <2> QED
    BY <2>1, <2>2, CreateKeepsRows
<1>2. CASE s.op # "create"
  <2>1. IsCareful(s)
    BY <1>2 DEF Safe
  <2>2. CASE s.op = "replace"
    <3>1. Invocation.unsafe
      BY <2>1, <2>2 DEF CanRun, IsCareful
    <3>2. ColumnsAfter(s) = [i \in DOMAIN bp.columns |-> CopyColumn(bp.columns[i])]
      BY <2>2 DEF ColumnsAfter
    <3> QED
      BY <3>1, <3>2, RebuildKeepsRows
  <2>3. CASE s.op = "add column"
    <3> DEFINE c == Filled(s.what, IF s.what.default # None THEN "default" ELSE "null")
    <3>1. ColumnsAfter(s) = Append(columns, c)
      BY <2>3 DEF ColumnsAfter
    <3>2. s.what.name \notin Names(columns) /\ DOMAIN s.what = Attributes
      BY <2>1, <2>3 DEF IsLegal, IsCareful
    <3>3. c.name = s.what.name /\ DOMAIN c = LiveAttributes
      BY <3>2, FilledColumn
    <3> HIDE DEF c
    <3> QED
      BY <3>1, <3>2, <3>3, AddKeepsRows
  <2>4. CASE s.op = "drop column"
    <3>1. Invocation.unsafe
      BY <2>1, <2>4 DEF CanRun, IsCareful
    <3>2. s.what \in Names(columns) /\ s.what \notin Names(bp.columns)
      BY <2>1, <2>4 DEF IsLegal, IsCareful
    <3>3. ColumnsAfter(s) = RemoveAt(columns, PositionOf(columns, s.what))
      BY <2>4 DEF ColumnsAfter
    <3> QED
      BY <3>1, <3>2, <3>3, DropKeepsRows
  <2>5. CASE s.op = "modify column"
    <3>1. s.what.attribute \notin {"name", "data"}
      BY <2>1, <2>5 DEF IsCareful
    <3>2. ColumnsAfter(s) = [i \in DOMAIN columns |->
                               IF columns[i].name # s.what.name THEN columns[i]
                               ELSE [columns[i] EXCEPT ![s.what.attribute] = s.what.value]]
      BY <2>5 DEF ColumnsAfter
    <3> QED
      BY <3>1, <3>2, ModifyKeepsRows
  <2>6. CASE s.op \notin {"create", "replace", "add column", "drop column", "modify column"}
    <3>1. ColumnsAfter(s) = columns
      BY <2>6 DEF ColumnsAfter
    <3>2. IsSeq(columns)
      BY DEF AreSound, HaveNames
    <3>3. \A i \in DOMAIN columns : DOMAIN columns[i] = LiveAttributes
      BY DEF AreSound
    <3> QED
      BY <3>1, <3>2, <3>3, SameNames
  <2> QED
    BY <1>2, <2>2, <2>3, <2>4, <2>5, <2>6
<1> QED
  BY <1>1, <1>2

\* The items search is optimized on, and the keys, stay finitely many.
LEMMA RestStaysFinite ==
  ASSUME search \subseteq SearchItems, IsFiniteSet(keys), keys \subseteq KeyRecords, NEW s,
         IsCareful(s) \/ s = Safe("create", None),
         scenario \in Scenarios, inv \in DOMAIN scenario.commands
  PROVE  /\ SearchAfter(s) \subseteq SearchItems
         /\ IsFiniteSet(KeysAfter(s)) /\ KeysAfter(s) \subseteq KeyRecords
<1>1. SearchAfter(s) \subseteq SearchItems
  <2>1. CASE s.op = "add search"
    <3>1. IsCareful(s)
      <4>1. Safe("create", None).op = "create"
        BY DEF Safe
      <4> QED
        BY <2>1, <4>1
    <3> QED
      BY <2>1, <3>1 DEF IsCareful, SearchAfter
  <2>2. CASE s.op # "add search"
    BY <2>2 DEF SearchAfter
  <2> QED
    BY <2>1, <2>2
<1>2. IsFiniteSet(KeysAfter(s)) /\ KeysAfter(s) \subseteq KeyRecords
  <2>1. CASE s.op = "add key"
    <3>1. KeysAfter(s) = keys \cup {s.what}
      BY <2>1 DEF KeysAfter
    <3>2. IsCareful(s)
      <4>1. Safe("create", None).op = "create"
        BY DEF Safe
      <4> QED
        BY <2>1, <4>1
    <3>3. s.what \in KeyRecords
      BY <2>1, <3>2, BlueprintIsSound DEF IsCareful, BlueprintRecords
    <3> QED
      BY <3>1, <3>3, FS_AddElement
  <2>2. CASE s.op # "add key"
    <3>1. KeysAfter(s) \subseteq keys
      BY <2>2 DEF KeysAfter
    <3> QED
      BY <3>1, FS_Subset
  <2> QED
    BY <2>1, <2>2
<1> QED
  BY <1>1, <1>2

-----------------------------------------------------------------------------
(* The invariant.                                                          *)

\* The invariant holds at first.
LEMMA InitIsSound == Init => RowsInv
<1> SUFFICES ASSUME Init PROVE RowsInv
  OBVIOUS
<1> DEFINE t == Tables[scenario.table]
<1>1. scenario \in Scenarios /\ scenario.table \in DOMAIN Tables
  BY TableAssumption DEF Init, ScenarioRecords
<1>2. t \in TableRecords /\ IsTable(t) /\ t.search \subseteq SearchItems
  BY <1>1, TableAssumption
<1>3. columns = t.columns /\ search = t.search /\ keys = t.keys
  BY DEF Init
<1> HIDE DEF t
<1>4. columns \in Seq(LiveColumnRecords)
  BY <1>2, <1>3 DEF TableRecords
<1>5. \A i \in DOMAIN columns : DOMAIN columns[i] = LiveAttributes
  <2>1. \A i \in DOMAIN columns : columns[i] \in LiveColumnRecords
    BY <1>4
  <2> QED
    BY <2>1, ColumnDomain
<1>6. AreSound(columns)
  BY <1>2, <1>3, <1>4, <1>5, SeqWithin DEF AreSound, HaveNames, IsTable
<1>7. due = << >> /\ pc = "start" /\ inv = 1
  BY DEF Init
<1>8. search \subseteq SearchItems /\ IsFiniteSet(keys) /\ keys \subseteq KeyRecords
  BY <1>2, <1>3 DEF TableRecords, IsTable
<1> QED
  BY <1>1, <1>6, <1>7, <1>8, NoneIsCareful DEF RowsInv, DueIsCareful

\* Steps which leave the table alone.
LEMMA OtherStepsAreSound ==
  ASSUME RowsInv, UNCHANGED <<scenario, table>>,
         \/ UNCHANGED inv /\ (pc' = "start" <=> pc = "start")
         \/ inv' = inv + 1 /\ pc' = "start",
         TasksAreCareful(due)', pc' = "start" => due' = << >>
  PROVE  RowsInv'
<1>1. inv' \in Nat \ {0} /\ (pc' # "start" => inv' \in DOMAIN scenario.commands)
  BY DEF RowsInv
<1> QED
  BY <1>1 DEF RowsInv, table, DueIsCareful

\* A statement that is executed keeps the rows and the invariant.
LEMMA ExecuteIsSound ==
  ASSUME RowsInv, Execute
  PROVE  RowsInv' /\ KeepsRows(columns')
<1> DEFINE s == Statement
<1>1. /\ HasStatement /\ Advance /\ CanRun(s) /\ IsLegal(s)
      /\ columns' = ColumnsAfter(s) /\ search' = SearchAfter(s) /\ keys' = KeysAfter(s)
      /\ UNCHANGED <<scenario, inv, pc>>
  BY DEF Execute, IsDue
<1>2. pc # "start" /\ inv \in DOMAIN scenario.commands /\ scenario \in Scenarios
  BY <1>1 DEF RowsInv, HasStatement
<1>3. /\ IsCareful(s) \/ (~Exists /\ s = Safe("create", None))
      /\ TasksAreCareful(<< Tail(Head(due)) >> \o Tail(due))
  BY <1>1, NextStatement DEF RowsInv
<1>4. TasksAreCareful(due')
  BY <1>1, <1>3 DEF Advance
<1>5. TasksAreCareful(due)'
  BY <1>1, <1>4, SameBlueprint DEF TasksAreCareful, AreCareful
<1>6. AreSound(columns') /\ KeepsRows(columns')
  BY <1>1, <1>2, <1>3, StatementKeepsRows DEF RowsInv
<1>7. search' \subseteq SearchItems /\ IsFiniteSet(keys') /\ keys' \subseteq KeyRecords
  BY <1>1, <1>2, <1>3, RestStaysFinite DEF RowsInv
<1>8. AreSound(columns)'
  BY <1>6 DEF AreSound, HaveNames
<1> QED
  BY <1>1, <1>2, <1>5, <1>6, <1>7, <1>8 DEF RowsInv, DueIsCareful

\* The resolvers in their order, and what follows one of them.
LEMMA KindsAreResolvers ==
  /\ "start" \notin Range(Kinds)
  /\ \A k \in Range(Kinds) : IndexOf(k) < Len(Kinds) => Kinds[IndexOf(k) + 1] \in Range(Kinds)
<1>1. Len(KeyKinds) = 3 /\ KeyKinds[1] = "primary" /\ KeyKinds[2] = "unique" /\ KeyKinds[3] = "foreign"
  BY DEF KeyKinds
<1>2. IsSeq(KeyKinds)
  <2>1. ASSUME NEW S, NEW x \in S, NEW y \in S, NEW z \in S PROVE << x, y, z >> \in Seq(S)
    OBVIOUS
  <2>2. "primary" \in Range(KeyKinds) /\ "unique" \in Range(KeyKinds) /\ "foreign" \in Range(KeyKinds)
    BY DEF KeyKinds, Range
  <2> QED
    BY <2>1, <2>2 DEF KeyKinds, IsSeq
<1>3. Len(Kinds) = 4 /\ DOMAIN Kinds = 1..4
  <2>1. << "table" >> \in Seq({"table"}) /\ Len(<< "table" >>) = 1
    OBVIOUS
  <2>2. KeyKinds \in Seq(Range(KeyKinds))
    BY <1>2 DEF IsSeq
  <2>3. << "table" >> \in Seq({"table"} \cup Range(KeyKinds)) /\ KeyKinds \in Seq({"table"} \cup Range(KeyKinds))
    BY <1>2, UnitIsSeq, SeqIn
  <2>4. Len(Kinds) = 1 + 3 /\ Kinds \in Seq({"table"} \cup Range(KeyKinds))
    <3>1. ASSUME NEW S, NEW p \in Seq(S), NEW q \in Seq(S)
          PROVE  p \o q \in Seq(S) /\ Len(p \o q) = Len(p) + Len(q)
      OBVIOUS
    <3> QED
      BY <1>1, <2>1, <2>3, <3>1 DEF Kinds
  <2> QED
    BY <2>4
<1>4. \A k \in Range(Kinds) : k # "start"
  <2>1. Range(Kinds) \subseteq {"table"} \cup Range(KeyKinds)
    BY <1>2, UnitIsSeq, JoinIsSeq DEF Kinds
  <2>2. "start" \notin Range(KeyKinds)
    BY <1>1 DEF KeyKinds, Range
  <2> QED
    BY <2>1, <2>2
<1>5. ASSUME NEW k \in Range(Kinds), IndexOf(k) < Len(Kinds) PROVE Kinds[IndexOf(k) + 1] \in Range(Kinds)
  <2>1. IndexOf(k) \in DOMAIN Kinds
    BY DEF IndexOf, Range
  <2>2. IndexOf(k) + 1 \in DOMAIN Kinds
    BY <1>3, <1>5, <2>1
  <2> QED
    BY <2>2 DEF Range
<1> QED
  BY <1>4, <1>5 DEF Range

\* Every step keeps the invariant.
LEMMA RowsInvHolds == RowsInv /\ [Next]_vars => RowsInv'
<1> SUFFICES ASSUME RowsInv, [Next]_vars PROVE RowsInv'
  OBVIOUS
<1>1. CASE Start
  <2>1. /\ UNCHANGED <<scenario, table, inv>> /\ pc' = "table" /\ inv \in DOMAIN scenario.commands
        /\ due' = << IF Exists THEN CompareTable ELSE CreateTable >>
    <3>1. scenario.commands \in Seq(Command) /\ inv \in Nat \ {0}
      BY TableAssumption DEF RowsInv, ScenarioRecords
    <3> QED
      BY <1>1, <3>1 DEF Start
  <2>2. /\ IsSeq(columns) /\ IsFiniteSet(search) /\ scenario \in Scenarios
        /\ (Exists <=> Exists')
    BY <2>1, TableAssumption, FS_Subset DEF RowsInv, AreSound, HaveNames, table, Exists
  <2>3. DueIsCareful'
    <3>1. CASE Exists
      <4>1. AreCareful(CompareTable)
        BY <2>1, <2>2, CompareTableIsCareful
      <4>2. TasksAreCareful(<< CompareTable >>)
        BY <4>1, UnitIsSeq DEF TasksAreCareful
      <4>3. TasksAreCareful(due')
        BY <2>1, <3>1, <4>2
      <4>4. TasksAreCareful(due)'
        BY <2>1, <4>3, SameBlueprint DEF TasksAreCareful, AreCareful
      <4> QED
        BY <4>4 DEF DueIsCareful
    <3>2. CASE ~Exists
      <4>1. PICK q : AreCareful(q) /\ CreateTable = << Safe("create", None) >> \o q
        BY <2>1, <2>2, CreateTableIsCareful
      <4>2. due' = << << Safe("create", None) >> \o q >>
        BY <2>1, <3>2, <4>1
      <4>3. AreCareful(q)'
        BY <2>1, <4>1, SameBlueprint DEF AreCareful
      <4> QED
        BY <2>2, <3>2, <4>2, <4>3 DEF DueIsCareful
    <3> QED
      BY <3>1, <3>2
  <2> QED
    BY <2>1, <2>3 DEF RowsInv, table
<1>2. CASE TaskEnds
  <2>1. due # << >> /\ Head(due) = << >> /\ due' = Tail(due) /\ UNCHANGED <<scenario, table, inv, pc>>
    BY <1>2 DEF TaskEnds
  <2>2. TasksAreCareful(due)
    <3>1. ASSUME NEW q, AreCareful(q), due = << << Safe("create", None) >> \o q >> PROVE FALSE
      <4>1. Head(due) = << Safe("create", None) >> \o q
        BY <3>1
      <4>2. Len(Head(due)) = 1 + Len(q) /\ Len(q) \in Nat
        BY <3>1, <4>1, UnitIsSeq DEF AreCareful, IsSeq
      <4> QED
        BY <2>1, <4>2
    <3> QED
      BY <3>1 DEF RowsInv, DueIsCareful
  <2>3. TasksAreCareful(Tail(due))
    BY <2>1, <2>2, HeadTail DEF TasksAreCareful
  <2>4. TasksAreCareful(due)'
    BY <2>1, <2>3, SameBlueprint DEF TasksAreCareful, AreCareful
  <2> QED
    BY <2>1, <2>4, OtherStepsAreSound DEF RowsInv
<1>3. CASE Intend \/ Suggest
  <2>1. /\ HasStatement /\ due' = << Tail(Head(due)) >> \o Tail(due)
        /\ UNCHANGED <<scenario, table, inv, pc>>
    BY <1>3 DEF Intend, Suggest, IsDue, Advance
  <2>2. TasksAreCareful(due)'
    BY <2>1, NextStatement, SameBlueprint DEF RowsInv, TasksAreCareful, AreCareful
  <2>3. pc # "start"
    BY <2>1 DEF RowsInv, HasStatement
  <2> QED
    BY <2>1, <2>2, <2>3, OtherStepsAreSound
<1>4. CASE Execute
  BY <1>4, ExecuteIsSound
<1>5. CASE Raise
  <2>1. HasStatement /\ due' = Tail(due) /\ UNCHANGED <<scenario, table, inv, pc>>
    BY <1>5 DEF Raise, IsDue
  <2>2. TasksAreCareful(due)'
    BY <2>1, NextStatement, SameBlueprint DEF RowsInv, TasksAreCareful, AreCareful
  <2>3. pc # "start"
    BY <2>1 DEF RowsInv, HasStatement
  <2> QED
    BY <2>1, <2>2, <2>3, OtherStepsAreSound
<1>6. CASE NextResolver
  <2>1. /\ pc \in Range(Kinds) /\ pc' = Kinds[IndexOf(pc) + 1] /\ IndexOf(pc) < Len(Kinds)
        /\ due' = KeyTasks(pc') /\ UNCHANGED <<scenario, table, inv>>
    BY <1>6 DEF NextResolver
  <2>2. pc # "start" /\ pc' # "start"
    BY <2>1, KindsAreResolvers
  <2>3. TasksAreCareful(KeyTasks(pc'))
    BY <2>2, KeyTasksAreCareful DEF RowsInv
  <2>4. TasksAreCareful(due)'
    BY <2>1, <2>3, SameBlueprint DEF TasksAreCareful, AreCareful
  <2> QED
    BY <2>1, <2>2, <2>4, OtherStepsAreSound
<1>7. CASE Exit \/ Crash
  <2>1. /\ inv' = inv + 1 /\ pc' = "start" /\ due' = << >> /\ UNCHANGED <<scenario, table>>
    BY <1>7 DEF Exit, Crash, Record
  <2>2. TasksAreCareful(due)'
    BY <2>1, EmptyIsSeq DEF TasksAreCareful
  <2> QED
    BY <2>1, <2>2, OtherStepsAreSound
<1>8. CASE UNCHANGED vars
  <2>1. UNCHANGED <<scenario, table, inv, pc, due>>
    BY <1>8 DEF vars
  <2>2. AreSound(columns)' <=> AreSound(columns)
    BY <2>1 DEF AreSound, HaveNames, table
  <2>3. TasksAreCareful(due)' <=> TasksAreCareful(due)
    BY <2>1, SameBlueprint DEF TasksAreCareful, AreCareful
  <2>4. (Exists <=> Exists') /\ \A q : AreCareful(q)' <=> AreCareful(q)
    BY <2>1, SameBlueprint DEF AreCareful, Exists, table
  <2>5. DueIsCareful' <=> DueIsCareful
    BY <2>1, <2>3, <2>4 DEF DueIsCareful
  <2> QED
    BY <2>1, <2>2, <2>5 DEF RowsInv, table
<1> QED
  BY <1>1, <1>2, <1>3, <1>4, <1>5, <1>6, <1>7, <1>8 DEF Next, Idle

\* What is due is careful in every state: no statement renames a declared column
\* or writes over its rows, only CREATE OR REPLACE and DROP COLUMN touch more, the
\* latter for columns that are not declared; columns keep names of their own.
THEOREM RowsInvariant == Spec => []RowsInv
  BY InitIsSound, RowsInvHolds, PTL DEF Spec

\* Every step keeps the rows of what is declared.
LEMMA StepKeepsRows ==
  ASSUME RowsInv, [Next]_vars
  PROVE  KeepsRows(columns')
<1>1. CASE Execute
  BY <1>1, ExecuteIsSound
<1>2. CASE ~Execute
  <2>1. columns' = columns
    BY <1>2 DEF Next, Start, TaskEnds, Intend, Suggest, Raise, NextResolver, Exit, Crash, Record,
                Idle, table, vars
  <2>2. IsSeq(columns) /\ \A i \in DOMAIN columns : DOMAIN columns[i] = LiveAttributes
    BY DEF RowsInv, AreSound, HaveNames
  <2>3. KeepsRows(columns)
    BY <2>2, SameNames DEF RowsInv
  <2> QED
    BY <2>1, <2>3 DEF KeepsRows
<1> QED
  BY <1>1, <1>2

\* Altering or replacing the table, failing or dying in between, never costs the
\* rows of a column that is declared, and columns that are not declared only go
\* with --apply-unsafe: for every blueprint, table and sequence of invocations.
THEOREM RowsAreKept == Spec => DeclaredColumnsKeepRows
<1>1. RowsInv /\ [Next]_vars =>
        [\A c \in Range(columns) :
           IF c.name \in Names(columns')
           THEN \/ ColumnOf(columns', c.name).data = c.data
                \/ ColumnOf(bp.columns, c.name).expression # None
           ELSE c.name \notin Names(bp.columns) /\ Invocation.unsafe]_vars
  BY StepKeepsRows DEF KeepsRows
<1> QED
  BY <1>1, RowsInvariant, PTL DEF Spec, DeclaredColumnsKeepRows

-----------------------------------------------------------------------------
(* When nothing is due.                                                    *)

\* A statement that is not needed.
LEMMA IfIsEmpty ==
  ASSUME NEW c, NEW s
  PROVE  IsSeq(If(c, s)) /\ (If(c, s) = << >> <=> ~c)
<1>1. << s >> # << >> /\ IsSeq(<< s >>) /\ IsSeq(<< >>)
  BY UnitIsSeq, EmptyIsSeq
<1>2. CASE c
  BY <1>1, <1>2 DEF If
<1>3. CASE ~c
  BY <1>1, <1>3 DEF If
<1> QED
  BY <1>2, <1>3

\* No statements for any value of a sequence.
LEMMA EachIsEmpty ==
  ASSUME NEW seq, IsSeq(seq), NEW f, f = [i \in DOMAIN seq |-> f[i]],
         \A i \in DOMAIN seq : IsSeq(f[i])
  PROVE  /\ IsSeq(FlattenSeq(f))
         /\ FlattenSeq(f) = << >> <=> \A i \in DOMAIN seq : f[i] = << >>
<1>1. Len(seq) \in Nat /\ DOMAIN seq = 1..Len(seq)
  BY SeqElim
<1>2. IsSeq(f) /\ DOMAIN f = DOMAIN seq
  BY <1>1, SeqIntro
<1>3. /\ IsSeq(FlattenSeq(f))
      /\ \A x : x \in Range(FlattenSeq(f)) <=> \E i \in DOMAIN seq : x \in Range(f[i])
  BY <1>2, FlattenIsSeq
<1>4. \A i \in DOMAIN seq : f[i] = << >> <=> \A x : x \notin Range(f[i])
  BY EmptyByRange
<1> QED
  BY <1>3, <1>4, EmptyByRange

\* A column record is its attributes.
LEMMA ColumnIsItsAttributes ==
  ASSUME NEW c \in ColumnRecords
  PROVE  c = [a \in Attributes |-> c[a]]
  BY DEF ColumnRecords, Attributes

\* A column is as declared.
SameColumn(old, new) == \A a \in Attributes : old[a] = new[a]
ColumnsInStep ==
  Len(columns) = Len(bp.columns) /\ \A i \in DOMAIN columns : SameColumn(columns[i], bp.columns[i])

\* Columns are as declared, attribute by attribute.
LEMMA DefinitionsAgree ==
  ASSUME AreSound(columns), scenario \in Scenarios, inv \in DOMAIN scenario.commands
  PROVE  [i \in DOMAIN columns |-> Definition(columns[i])] = bp.columns <=> ColumnsInStep
<1> DEFINE d == [i \in DOMAIN columns |-> Definition(columns[i])]
<1>1. /\ IsSeq(columns) /\ DOMAIN columns = 1..Len(columns) /\ Len(columns) \in Nat
      /\ DOMAIN bp.columns = 1..Len(bp.columns) /\ Len(bp.columns) \in Nat
      /\ bp.columns = [i \in 1..Len(bp.columns) |-> bp.columns[i]]
      /\ \A i \in DOMAIN bp.columns : bp.columns[i] \in ColumnRecords
  BY BlueprintIsSound, SeqElim, SeqWithin DEF AreSound, HaveNames
<1>2. ASSUME NEW i \in DOMAIN columns, i \in DOMAIN bp.columns
      PROVE  Definition(columns[i]) = bp.columns[i] <=> SameColumn(columns[i], bp.columns[i])
  <2>1. DOMAIN columns[i] \ {"data"} = Attributes
    BY DEF AreSound, LiveAttributes, Attributes
  <2>2. Definition(columns[i]) = [a \in Attributes |-> columns[i][a]]
    BY <2>1 DEF Definition
  <2>3. bp.columns[i] = [a \in Attributes |-> bp.columns[i][a]]
    BY <1>1, <1>2, ColumnIsItsAttributes
  <2> QED
    BY <2>2, <2>3 DEF SameColumn
<1>3. ASSUME d = bp.columns PROVE ColumnsInStep
  <2>1. DOMAIN columns = DOMAIN bp.columns
    BY <1>3
  <2>2. Len(columns) = Len(bp.columns)
    BY <1>1, <2>1
  <2>3. \A i \in DOMAIN columns : Definition(columns[i]) = bp.columns[i]
    BY <1>3
  <2> QED
    BY <1>2, <2>1, <2>2, <2>3 DEF ColumnsInStep
<1>4. ASSUME ColumnsInStep PROVE d = bp.columns
  <2>1. DOMAIN columns = DOMAIN bp.columns
    BY <1>1, <1>4 DEF ColumnsInStep
  <2>2. \A i \in DOMAIN columns : Definition(columns[i]) = bp.columns[i]
    BY <1>2, <1>4, <2>1 DEF ColumnsInStep
  <2> QED
    BY <1>1, <2>1, <2>2
<1> QED
  BY <1>3, <1>4

\* What the comparison of a column with its blueprint says.
LEMMA ColumnIsCompared ==
  ASSUME scenario \in Scenarios, inv \in DOMAIN scenario.commands,
         NEW old, NEW j \in DOMAIN bp.columns, bp.columns[j].name = old.name
  PROVE  /\ old.name \in Names(bp.columns) /\ ColumnOf(bp.columns, old.name) = bp.columns[j]
         /\ SameColumn(old, bp.columns[j]) <=>
              /\ SafeColumnAlters(old) = << >> /\ UnsafeColumnAlters(old) = << >>
              /\ ~ColumnReasons(old, bp.columns[j])
<1> DEFINE new == ColumnOf(bp.columns, old.name)
           Set(a) == Unsafe("modify column", Modify(old.name, a, new[a]))
           Say == Safe("modify column", Modify(old.name, "comment", new.comment))
           p == If(old.not_null # new.not_null, Set("not_null"))
           q == If(old.default # new.default /\ CanAlterDefault(old.default, new.default),
                   Set("default"))
           r == If(old.type # new.type /\ CanAlterType(old.type, new.type), Set("type"))
<1>1. HaveNames(bp.columns)
  BY BlueprintIsSound, SeqWithin DEF HaveNames
<1>2. old.name \in Names(bp.columns) /\ new = bp.columns[j]
  BY <1>1, NamesAre, ColumnByName
<1>3. SafeColumnAlters(old) = If(old.name \in Names(bp.columns) /\ old.comment # new.comment, Say)
  BY <1>2 DEF SafeColumnAlters
<1>4. SafeColumnAlters(old) = << >> <=> old.comment = new.comment
  BY <1>2, <1>3, IfIsEmpty
<1>5. UnsafeColumnAlters(old) = p \o q \o r
  BY <1>2 DEF UnsafeColumnAlters
<1>6. /\ IsSeq(p) /\ (p = << >> <=> old.not_null = new.not_null)
      /\ IsSeq(q) /\ (q = << >> <=> ~(old.default # new.default /\ CanAlterDefault(old.default, new.default)))
      /\ IsSeq(r) /\ (r = << >> <=> ~(old.type # new.type /\ CanAlterType(old.type, new.type)))
  BY IfIsEmpty
<1> HIDE DEF p, q, r
<1>7. UnsafeColumnAlters(old) = << >> <=> p = << >> /\ q = << >> /\ r = << >>
  BY <1>5, <1>6, JoinIsEmpty
<1>8. SameColumn(old, new) <=>
        /\ old.not_null = new.not_null /\ old.default = new.default /\ old.type = new.type
        /\ old.expression = new.expression /\ old.collate = new.collate
        /\ old.comment = new.comment
  <2>1. old.name = new.name
    BY <1>2
  <2> QED
    BY <2>1 DEF SameColumn, Attributes
<1>9. ~ColumnReasons(old, new) <=>
        /\ ~(old.default # new.default /\ ~CanAlterDefault(old.default, new.default))
        /\ old.expression = new.expression /\ old.collate = new.collate
        /\ ~(old.type # new.type /\ ~CanAlterType(old.type, new.type))
  BY DEF ColumnReasons
<1> HIDE DEF new
<1>10. SameColumn(old, new) <=> /\ SafeColumnAlters(old) = << >> /\ UnsafeColumnAlters(old) = << >>
                               /\ ~ColumnReasons(old, new)
  BY <1>4, <1>6, <1>7, <1>8, <1>9
<1> QED
  BY <1>2, <1>10 DEF new

\* A column that is not declared is dropped.
LEMMA OthersAreDropped ==
  ASSUME NEW old, UnsafeColumnAlters(old) = << >>
  PROVE  old.name \in Names(bp.columns)
  BY DEF UnsafeColumnAlters

\* How many numbers there are up to n.
LEMMA IntervalSize ==
  ASSUME NEW n \in Nat
  PROVE  IsFiniteSet(1..n) /\ Cardinality(1..n) = n
<1>1. IsFiniteSet(1..n) /\ Cardinality(1..n) = IF 1 > n THEN 0 ELSE n - 1 + 1
  BY FS_Interval
<1> QED
  BY <1>1

\* If no column is dropped then they have the places they had.
LEMMA PlacesAre ==
  ASSUME AreSound(columns), \A i \in DOMAIN columns : columns[i].name \in Names(bp.columns)
  PROVE  /\ Remaining = DOMAIN columns /\ Cardinality(Remaining) = Len(columns)
         /\ \A i \in DOMAIN columns : Place(i) = i
<1>1. DOMAIN columns = 1..Len(columns) /\ Len(columns) \in Nat
  BY SeqElim DEF AreSound, HaveNames
<1>2. Remaining = 1..Len(columns)
  BY <1>1 DEF Remaining
<1>3. ASSUME NEW i \in DOMAIN columns PROVE Place(i) = i
  <2>1. {j \in Remaining : j <= i} = 1..i
    BY <1>1, <1>2
  <2>2. Cardinality(1..i) = i
    BY <1>1, FS_Interval
  <2> QED
    BY <2>1, <2>2 DEF Place
<1>4. Cardinality(1..Len(columns)) = Len(columns)
  BY <1>1, IntervalSize
<1> QED
  BY <1>1, <1>2, <1>3, <1>4

\* And then there are no more of them than are declared.
LEMMA ColumnsAreDeclared ==
  ASSUME AreSound(columns), scenario \in Scenarios, inv \in DOMAIN scenario.commands,
         \A i \in DOMAIN columns : columns[i].name \in Names(bp.columns)
  PROVE  Len(columns) <= Len(bp.columns)
<1> DEFINE n == Len(columns)
           m == Len(bp.columns)
           f == [i \in 1..n |-> PositionOf(bp.columns, columns[i].name)]
<1>1. DOMAIN columns = 1..n /\ n \in Nat
  BY SeqElim DEF AreSound, HaveNames
<1>2. DOMAIN bp.columns = 1..m /\ m \in Nat
  BY BlueprintIsSound
<1>3. ASSUME NEW i \in 1..n
      PROVE  f[i] \in 1..m /\ bp.columns[f[i]].name = columns[i].name
  <2>1. \E j \in DOMAIN bp.columns : bp.columns[j].name = columns[i].name
    BY <1>1, NamesAre
  <2>2. f[i] = PositionOf(bp.columns, columns[i].name)
    OBVIOUS
  <2> QED
    BY <1>2, <2>1, <2>2 DEF PositionOf
<1>4. f = [i \in 1..n |-> f[i]]
  OBVIOUS
<1> HIDE DEF f
<1>5. f \in [1..n -> 1..m]
  BY <1>3, <1>4
<1>6. ASSUME NEW i \in 1..n, NEW j \in 1..n, f[i] = f[j] PROVE i = j
  <2>1. columns[i].name = columns[j].name
    BY <1>3, <1>6
  <2> QED
    BY <1>1, <2>1 DEF AreSound, HaveNames
<1>7. f \in Injection(1..n, 1..m)
  BY <1>5, <1>6 DEF Injection, IsInjective
<1>8. IsFiniteSet(1..m) /\ Cardinality(1..m) = m /\ Cardinality(1..n) = n
  BY <1>1, <1>2, IntervalSize
<1> HIDE DEF n, m
<1>9. Cardinality(1..n) <= Cardinality(1..m)
  BY <1>7, <1>8, FS_Injection
<1> QED
  BY <1>8, <1>9 DEF n, m

\* Columns are added only if there are fewer than are declared.
LEMMA NoneIsAdded ==
  ASSUME AreSound(columns), scenario \in Scenarios, inv \in DOMAIN scenario.commands
  PROVE  /\ IsSeq(Added)
         /\ DOMAIN Added = {} <=> Cardinality(Remaining) >= Len(bp.columns)
<1>1. Cardinality(Remaining) \in Nat /\ IsSeq(Added)
  BY AddedColumns, SeqWithin DEF AreSound, HaveNames
<1>2. bp.columns \in Seq(ColumnRecords) /\ Len(bp.columns) \in Nat
  BY BlueprintIsSound
<1>3. Len(Added) = IF Cardinality(Remaining) + 1 <= Len(bp.columns)
                   THEN Len(bp.columns) - Cardinality(Remaining) ELSE 0
  BY <1>1, <1>2 DEF Added
<1>4. DOMAIN Added = 1..Len(Added) /\ Len(Added) \in Nat
  BY <1>1, SeqElim
<1>5. DOMAIN Added = {} <=> Len(Added) = 0
  BY <1>4
<1> QED
  BY <1>1, <1>2, <1>3, <1>4, <1>5

\* The columns are as declared if none is altered, dropped or added and none is
\* a reason to replace the table.
LEMMA ColumnsAreCompared ==
  ASSUME AreSound(columns), scenario \in Scenarios, inv \in DOMAIN scenario.commands
  PROVE  ColumnsInStep <=>
           /\ \A i \in DOMAIN columns :
                SafeColumnAlters(columns[i]) = << >> /\ UnsafeColumnAlters(columns[i]) = << >>
           /\ DOMAIN Added = {}
           /\ \A i \in Remaining : ~ColumnReasons(columns[i], ColumnOf(bp.columns, columns[i].name))
           /\ ~OrderChanged
<1>1. /\ DOMAIN columns = 1..Len(columns) /\ Len(columns) \in Nat
      /\ DOMAIN bp.columns = 1..Len(bp.columns) /\ Len(bp.columns) \in Nat
  BY BlueprintIsSound, SeqElim, SeqWithin DEF AreSound, HaveNames
<1>2. ASSUME ColumnsInStep
      PROVE  /\ \A i \in DOMAIN columns :
                  SafeColumnAlters(columns[i]) = << >> /\ UnsafeColumnAlters(columns[i]) = << >>
             /\ DOMAIN Added = {}
             /\ \A i \in Remaining : ~ColumnReasons(columns[i], ColumnOf(bp.columns, columns[i].name))
             /\ ~OrderChanged
  <2>1. ASSUME NEW i \in DOMAIN columns
        PROVE  /\ columns[i].name = bp.columns[i].name /\ columns[i].name \in Names(bp.columns)
               /\ SafeColumnAlters(columns[i]) = << >> /\ UnsafeColumnAlters(columns[i]) = << >>
               /\ ~ColumnReasons(columns[i], ColumnOf(bp.columns, columns[i].name))
    <3>1. i \in DOMAIN bp.columns /\ SameColumn(columns[i], bp.columns[i])
      BY <1>1, <1>2 DEF ColumnsInStep
    <3>2. bp.columns[i].name = columns[i].name
      BY <3>1 DEF SameColumn, Attributes
    <3> QED
      BY <3>1, <3>2, ColumnIsCompared
  <2>2. /\ Remaining = DOMAIN columns /\ Cardinality(Remaining) = Len(columns)
        /\ \A i \in DOMAIN columns : Place(i) = i
    BY <2>1, PlacesAre
  <2>3. ~OrderChanged
    BY <2>1, <2>2 DEF OrderChanged
  <2>4. DOMAIN Added = {}
    BY <1>1, <1>2, <2>2, NoneIsAdded DEF ColumnsInStep
  <2> QED
    BY <2>1, <2>2, <2>3, <2>4
<1>3. ASSUME \A i \in DOMAIN columns :
               SafeColumnAlters(columns[i]) = << >> /\ UnsafeColumnAlters(columns[i]) = << >>,
             DOMAIN Added = {}, ~OrderChanged,
             \A i \in Remaining : ~ColumnReasons(columns[i], ColumnOf(bp.columns, columns[i].name))
      PROVE  ColumnsInStep
  <2>1. \A i \in DOMAIN columns : columns[i].name \in Names(bp.columns)
    BY <1>3, OthersAreDropped
  <2>2. /\ Remaining = DOMAIN columns /\ Cardinality(Remaining) = Len(columns)
        /\ \A i \in DOMAIN columns : Place(i) = i
    BY <2>1, PlacesAre
  <2>3. Len(columns) = Len(bp.columns)
    <3>1. Len(columns) >= Len(bp.columns)
      BY <1>3, <2>2, NoneIsAdded
    <3>2. Len(columns) <= Len(bp.columns)
      BY <2>1, ColumnsAreDeclared
    <3> QED
      BY <1>1, <3>1, <3>2
  <2>4. ASSUME NEW i \in DOMAIN columns PROVE SameColumn(columns[i], bp.columns[i])
    <3>1. i \in DOMAIN bp.columns
      BY <1>1, <2>3
    <3>2. columns[i].name = bp.columns[i].name
      BY <1>3, <2>2 DEF OrderChanged
    <3>3. ~ColumnReasons(columns[i], bp.columns[i])
      BY <1>3, <2>2, <3>1, <3>2, ColumnIsCompared
    <3> QED
      BY <1>3, <3>1, <3>2, <3>3, ColumnIsCompared
  <2> QED
    BY <2>3, <2>4 DEF ColumnsInStep
<1> QED
  BY <1>2, <1>3

\* An option is as declared if it does not differ.
LEMMA OptionsAreCompared ==
  ASSUME scenario \in Scenarios, inv \in DOMAIN scenario.commands
  PROVE  (\A o \in DOMAIN bp.options : OptionInStep(bp, o)) <=>
           /\ ~OptionDiffers("comment") /\ ~OptionDiffers("retention") /\ ~OptionDiffers("cluster")
           /\ ~OptionDiffers("tracking") /\ bp.options.is_transient = options.is_transient
<1>1. DOMAIN bp.options = {"is_transient", "retention", "cluster", "tracking", "comment"}
  <2>1. bp.options \in OptionRecords
    BY BlueprintIsSound DEF BlueprintRecords
  <2> QED
    BY <2>1 DEF OptionRecords
<1>2. ASSUME NEW o \in Options PROVE OptionInStep(bp, o) <=> ~OptionDiffers(o)
  BY DEF OptionInStep, OptionDiffers
<1>3. OptionInStep(bp, "is_transient") <=> bp.options.is_transient = options.is_transient
  BY DEF OptionInStep
<1> QED
  BY <1>1, <1>2, <1>3 DEF Options

\* Search is as declared if nothing is added to it or dropped from it.
LEMMA SearchIsCompared ==
  ASSUME scenario \in Scenarios, inv \in DOMAIN scenario.commands, IsFiniteSet(search)
  PROVE  IsSeq(CompareSearch) /\ (CompareSearch = << >> <=> SearchInStep(bp))
<1>1. CASE bp.search = {"no"}
  BY <1>1, IfIsEmpty DEF CompareSearch, SearchInStep
<1>2. CASE bp.search = {"yes"} /\ bp.search # {"no"}
  BY <1>2, IfIsEmpty DEF CompareSearch, SearchInStep
<1>3. CASE bp.search # {"yes"} /\ bp.search # {"no"}
  <2> DEFINE new == SetToSeq(bp.search \ search)
             old == SetToSeq(search \ bp.search)
             adds == [i \in DOMAIN new |-> << Unsafe("add search", {new[i]}) >>]
             drops == [i \in DOMAIN old |-> << Unsafe("drop search", {old[i]}) >>]
  <2>1. CompareSearch = FlattenSeq(adds) \o FlattenSeq(drops)
    BY <1>3 DEF CompareSearch, EachOf, ForEach
  <2>2. IsFiniteSet(bp.search \ search) /\ IsFiniteSet(search \ bp.search)
    BY BlueprintIsSound, FS_Subset
  <2>3. /\ IsSeq(new) /\ Range(new) = bp.search \ search
        /\ IsSeq(old) /\ Range(old) = search \ bp.search
    BY <2>2, SetToSeqIsSeq
  <2> HIDE DEF new, old
  <2>4. /\ \A i \in DOMAIN new : IsSeq(adds[i]) /\ adds[i] # << >>
        /\ \A i \in DOMAIN old : IsSeq(drops[i]) /\ drops[i] # << >>
    BY UnitIsSeq
  <2>5. adds = [i \in DOMAIN new |-> adds[i]] /\ drops = [i \in DOMAIN old |-> drops[i]]
    OBVIOUS
  <2> HIDE DEF adds, drops
  <2>6. /\ IsSeq(FlattenSeq(adds))
        /\ FlattenSeq(adds) = << >> <=> \A i \in DOMAIN new : adds[i] = << >>
    BY <2>3, <2>4, <2>5, EachIsEmpty
  <2>7. /\ IsSeq(FlattenSeq(drops))
        /\ FlattenSeq(drops) = << >> <=> \A i \in DOMAIN old : drops[i] = << >>
    BY <2>3, <2>4, <2>5, EachIsEmpty
  <2>8. FlattenSeq(adds) = << >> <=> \A x : x \notin Range(new)
    BY <2>4, <2>6 DEF Range
  <2>9. FlattenSeq(drops) = << >> <=> \A x : x \notin Range(old)
    BY <2>4, <2>7 DEF Range
  <2>10. CompareSearch = << >> <=> FlattenSeq(adds) = << >> /\ FlattenSeq(drops) = << >>
    BY <2>1, <2>6, <2>7, JoinIsEmpty
  <2>11. (bp.search \ search = {} /\ search \ bp.search = {}) <=> search = bp.search
    OBVIOUS
  <2>12. CompareSearch = << >> <=> search = bp.search
    BY <2>3, <2>8, <2>9, <2>10, <2>11
  <2>13. SearchInStep(bp) <=> search = bp.search
    BY <1>3 DEF SearchInStep
  <2>14. IsSeq(CompareSearch)
    BY <2>1, <2>6, <2>7, JoinIsEmpty
  <2> QED
    BY <2>12, <2>13, <2>14
<1> QED
  BY <1>1, <1>2, <1>3

\* The table itself is as declared, its keys apart.
TableInStep ==
  /\ [i \in DOMAIN columns |-> Definition(columns[i])] = bp.columns
  /\ \A o \in DOMAIN bp.options : OptionInStep(bp, o)
  /\ SearchInStep(bp)

\* No statement of a comparison but the last of an alteration is an intention.
ArePlain(q) == IsSeq(q) /\ \A s \in Range(q) : s.op # "intend"

\* A single one, if it is needed.
LEMMA OneIsPlain ==
  ASSUME NEW s, s.op # "intend", NEW c
  PROVE  ArePlain(<< s >>) /\ ArePlain(If(c, s))
<1>1. ArePlain(<< s >>) /\ ArePlain(<< >>)
  BY UnitIsSeq, EmptyIsSeq DEF ArePlain
<1> QED
  BY <1>1 DEF If

\* Some and then others.
LEMMA BothArePlain ==
  ASSUME NEW p, NEW q, ArePlain(p), ArePlain(q)
  PROVE  ArePlain(p \o q)
  BY JoinIsSeq DEF ArePlain

\* Some for each value of a sequence.
LEMMA EachIsPlain ==
  ASSUME NEW seq, IsSeq(seq), NEW f, f = [i \in DOMAIN seq |-> f[i]],
         \A i \in DOMAIN seq : ArePlain(f[i])
  PROVE  ArePlain(FlattenSeq(f))
<1>1. DOMAIN seq = 1..Len(seq) /\ Len(seq) \in Nat
  BY SeqElim
<1>2. IsSeq(f) /\ DOMAIN f = DOMAIN seq
  BY <1>1, SeqIntro
<1>3. \A i \in DOMAIN f : IsSeq(f[i]) /\ \A s \in Range(f[i]) : s.op # "intend"
  BY <1>2 DEF ArePlain
<1>4. /\ IsSeq(FlattenSeq(f))
      /\ \A x : x \in Range(FlattenSeq(f)) <=> \E i \in DOMAIN f : x \in Range(f[i])
  BY <1>2, <1>3, FlattenIsSeq
<1> QED
  BY <1>3, <1>4 DEF ArePlain

\* The comparison of a column.
LEMMA ColumnAltersArePlain ==
  ASSUME NEW old
  PROVE  ArePlain(UnsafeColumnAlters(old)) /\ ArePlain(SafeColumnAlters(old))
<1> DEFINE new == ColumnOf(bp.columns, old.name)
           Set(a) == Unsafe("modify column", Modify(old.name, a, new[a]))
           Say == Safe("modify column", Modify(old.name, "comment", new.comment))
           p == If(old.not_null # new.not_null, Set("not_null"))
           q == If(old.default # new.default /\ CanAlterDefault(old.default, new.default),
                   Set("default"))
           r == If(old.type # new.type /\ CanAlterType(old.type, new.type), Set("type"))
<1>1. \A a : Set(a).op # "intend"
  BY DEF Unsafe
<1>2. Say.op # "intend" /\ Unsafe("drop column", old.name).op # "intend"
  BY DEF Safe, Unsafe
<1>3. UnsafeColumnAlters(old) = IF old.name \notin Names(bp.columns)
                                THEN << Unsafe("drop column", old.name) >> ELSE p \o q \o r
  BY DEF UnsafeColumnAlters
<1>4. SafeColumnAlters(old) = If(old.name \in Names(bp.columns) /\ old.comment # new.comment, Say)
  BY DEF SafeColumnAlters
<1>5. ArePlain(p) /\ ArePlain(q) /\ ArePlain(r)
  BY <1>1, OneIsPlain
<1> HIDE DEF p, q, r, Say
<1>6. ArePlain(p \o q \o r)
  BY <1>5, BothArePlain
<1> QED
  BY <1>2, <1>3, <1>4, <1>6, OneIsPlain

\* What Alters is made of: nothing of it is an intention, and there is nothing
\* of it if the columns and the options do not differ.
LEMMA AltersAre ==
  ASSUME scenario \in Scenarios, inv \in DOMAIN scenario.commands, AreSound(columns)
  PROVE  /\ ArePlain(SafeAlters \o UnsafeAlters)
         /\ SafeAlters \o UnsafeAlters = << >> <=>
              /\ \A i \in DOMAIN columns :
                   SafeColumnAlters(columns[i]) = << >> /\ UnsafeColumnAlters(columns[i]) = << >>
              /\ DOMAIN Added = {}
              /\ ~OptionDiffers("comment") /\ ~OptionDiffers("retention")
              /\ ~OptionDiffers("cluster") /\ ~OptionDiffers("tracking")
<1> DEFINE adds == [i \in DOMAIN Added |-> << Safe("add column", [Added[i] EXCEPT !.expression = None]) >>]
           safes == [i \in DOMAIN columns |-> SafeColumnAlters(columns[i])]
           unsafes == [i \in DOMAIN columns |-> UnsafeColumnAlters(columns[i])]
           three == << "retention", "cluster", "tracking" >>
           sets == [i \in DOMAIN three |-> If(OptionDiffers(three[i]), Unsafe("set option", SetOption(three[i])))]
           says == If(OptionDiffers("comment"), Safe("set option", SetOption("comment")))
<1>1. SafeAlters = FlattenSeq(safes) \o FlattenSeq(adds) \o says
  BY DEF SafeAlters, ForEach
<1>2. UnsafeAlters = FlattenSeq(unsafes) \o FlattenSeq(sets)
  BY DEF UnsafeAlters, ForEach
<1>3. IsSeq(columns) /\ IsSeq(Added)
  BY NoneIsAdded DEF AreSound, HaveNames
<1>4. IsSeq(three) /\ DOMAIN three = 1..3 /\ three[1] = "retention" /\ three[2] = "cluster" /\ three[3] = "tracking"
  BY DEF IsSeq, Range
<1>5. \A i \in DOMAIN columns : ArePlain(safes[i]) /\ ArePlain(unsafes[i])
  BY ColumnAltersArePlain
<1>6. \A i \in DOMAIN Added : ArePlain(adds[i]) /\ adds[i] # << >>
  BY OneIsPlain DEF Safe
<1> HIDE DEF three
<1>7. \A i \in DOMAIN three : ArePlain(sets[i]) /\ (sets[i] = << >> <=> ~OptionDiffers(three[i]))
  BY OneIsPlain, IfIsEmpty DEF Unsafe
<1>8. ArePlain(says) /\ (says = << >> <=> ~OptionDiffers("comment"))
  BY OneIsPlain, IfIsEmpty DEF Safe
<1>9. /\ safes = [i \in DOMAIN columns |-> safes[i]] /\ unsafes = [i \in DOMAIN columns |-> unsafes[i]]
      /\ adds = [i \in DOMAIN Added |-> adds[i]] /\ sets = [i \in DOMAIN three |-> sets[i]]
      /\ \A i \in DOMAIN columns : safes[i] = SafeColumnAlters(columns[i]) /\ unsafes[i] = UnsafeColumnAlters(columns[i])
  OBVIOUS
<1> HIDE DEF adds, safes, unsafes, sets, says
<1>10. ArePlain(FlattenSeq(safes)) /\ ArePlain(FlattenSeq(unsafes)) /\ ArePlain(FlattenSeq(adds)) /\ ArePlain(FlattenSeq(sets))
  BY <1>3, <1>4, <1>5, <1>6, <1>7, <1>9, EachIsPlain
<1>11. ArePlain(SafeAlters) /\ ArePlain(UnsafeAlters) /\ ArePlain(SafeAlters \o UnsafeAlters)
  BY <1>1, <1>2, <1>8, <1>10, BothArePlain
<1>12. FlattenSeq(safes) = << >> <=> \A i \in DOMAIN columns : safes[i] = << >>
  BY <1>3, <1>5, <1>9, EachIsEmpty DEF ArePlain
<1>13. FlattenSeq(unsafes) = << >> <=> \A i \in DOMAIN columns : unsafes[i] = << >>
  BY <1>3, <1>5, <1>9, EachIsEmpty DEF ArePlain
<1>14. FlattenSeq(adds) = << >> <=> DOMAIN Added = {}
  <2>1. FlattenSeq(adds) = << >> <=> \A i \in DOMAIN Added : adds[i] = << >>
    BY <1>3, <1>6, <1>9, EachIsEmpty DEF ArePlain
  <2> QED
    BY <1>6, <2>1
<1>15. FlattenSeq(sets) = << >> <=>
         ~OptionDiffers("retention") /\ ~OptionDiffers("cluster") /\ ~OptionDiffers("tracking")
  <2>1. FlattenSeq(sets) = << >> <=> \A i \in DOMAIN three : sets[i] = << >>
    BY <1>4, <1>7, <1>9, EachIsEmpty DEF ArePlain
  <2>2. DOMAIN three = {1, 2, 3}
    BY <1>4
  <2> QED
    BY <1>4, <1>7, <2>1, <2>2
<1>16. SafeAlters \o UnsafeAlters = << >> <=> SafeAlters = << >> /\ UnsafeAlters = << >>
  BY <1>11, JoinIsEmpty DEF ArePlain
<1>17. SafeAlters = << >> <=> FlattenSeq(safes) = << >> /\ FlattenSeq(adds) = << >> /\ says = << >>
  <2>1. /\ IsSeq(FlattenSeq(safes) \o FlattenSeq(adds))
        /\ FlattenSeq(safes) \o FlattenSeq(adds) = << >> <=> FlattenSeq(safes) = << >> /\ FlattenSeq(adds) = << >>
    BY <1>10, JoinIsEmpty DEF ArePlain
  <2> QED
    BY <1>1, <1>8, <2>1, JoinIsEmpty DEF ArePlain
<1>18. UnsafeAlters = << >> <=> FlattenSeq(unsafes) = << >> /\ FlattenSeq(sets) = << >>
  BY <1>2, <1>10, JoinIsEmpty DEF ArePlain
<1> QED
  BY <1>8, <1>9, <1>11, <1>12, <1>13, <1>14, <1>15, <1>16, <1>17, <1>18

\* If there is something to do then it begins with a statement.
Begins(q) == q # << >> => Head(q).op # "intend"

\* What is plain begins with a statement.
LEMMA PlainBegins ==
  ASSUME NEW q, ArePlain(q)
  PROVE  Begins(q)
  BY HeadTail DEF ArePlain, Begins

\* Of two parts the first one begins.
LEMMA BothBegin ==
  ASSUME NEW p, NEW q, IsSeq(p), Begins(p), IsSeq(q), p # << >>
  PROVE  p \o q # << >> /\ Begins(p \o q)
<1> DEFINE S == Range(p) \cup Range(q)
<1>1. p \in Seq(S) /\ q \in Seq(S)
  BY SeqIn
<1>2. Head(p).op # "intend"
  BY DEF Begins
<1> HIDE DEF S
<1>3. p \o q # << >> /\ Head(p \o q) = Head(p)
  BY <1>1
<1> QED
  BY <1>2, <1>3 DEF Begins

\* The comparison of search has statements only.
LEMMA SearchIsPlain ==
  ASSUME scenario \in Scenarios, inv \in DOMAIN scenario.commands, IsFiniteSet(search)
  PROVE  ArePlain(CompareSearch)
<1>0. \A x : Unsafe("add search", x).op # "intend" /\ Unsafe("drop search", x).op # "intend"
  BY DEF Unsafe
<1>1. CASE bp.search = {"no"}
  BY <1>0, <1>1, OneIsPlain DEF CompareSearch
<1>2. CASE bp.search = {"yes"} /\ bp.search # {"no"}
  BY <1>0, <1>2, OneIsPlain DEF CompareSearch
<1>3. CASE bp.search # {"yes"} /\ bp.search # {"no"}
  <2> DEFINE new == SetToSeq(bp.search \ search)
             old == SetToSeq(search \ bp.search)
             adds == [i \in DOMAIN new |-> << Unsafe("add search", {new[i]}) >>]
             drops == [i \in DOMAIN old |-> << Unsafe("drop search", {old[i]}) >>]
  <2>1. CompareSearch = FlattenSeq(adds) \o FlattenSeq(drops)
    BY <1>3 DEF CompareSearch, EachOf, ForEach
  <2>2. IsFiniteSet(bp.search \ search) /\ IsFiniteSet(search \ bp.search)
    BY BlueprintIsSound, FS_Subset
  <2>3. IsSeq(new) /\ IsSeq(old)
    BY <2>2, SetToSeqIsSeq
  <2> HIDE DEF new, old
  <2>4. (\A i \in DOMAIN new : ArePlain(adds[i])) /\ (\A i \in DOMAIN old : ArePlain(drops[i]))
    BY <1>0, OneIsPlain
  <2>5. adds = [i \in DOMAIN new |-> adds[i]] /\ drops = [i \in DOMAIN old |-> drops[i]]
    OBVIOUS
  <2> HIDE DEF adds, drops
  <2>6. ArePlain(FlattenSeq(adds)) /\ ArePlain(FlattenSeq(drops))
    BY <2>3, <2>4, <2>5, EachIsPlain
  <2> QED
    BY <2>1, <2>6, BothArePlain
<1> QED
  BY <1>1, <1>2, <1>3

\* Comparing a table asks for nothing if and only if the table is as declared, and
\* what it asks for begins with a statement.
LEMMA TableIsCompared ==
  ASSUME scenario \in Scenarios, inv \in DOMAIN scenario.commands, AreSound(columns),
         IsFiniteSet(search)
  PROVE  /\ CompareTable = << >> <=> TableInStep
         /\ Begins(CompareTable)
<1> DEFINE items == [i \in DOMAIN CreateSearch |-> << Gated("add search", CreateSearch[i]) >>]
           gone == << Safe("intend", Names(columns)) >>
           rebuild == << Gated("replace", None) >> \o FlattenSeq(items)
           all == SafeAlters \o UnsafeAlters
           last == << Safe("intend", DroppingNames) >>
<1>1. CASE ReplaceReasons
  <2>1. CompareTable = rebuild \o gone
    BY <1>1 DEF CompareTable, ForEach
  <2>2. AreCareful(FlattenSeq(items))
    BY CreateSearchIsWithin, SearchIsCareful, OneIsCareful, EachIsCareful
  <2>3. ArePlain(<< Gated("replace", None) >>) /\ << Gated("replace", None) >> # << >>
    BY OneIsPlain DEF Gated
  <2>4. CompareTable # << >> /\ Begins(CompareTable)
    <3>1. IsSeq(rebuild) /\ rebuild # << >> /\ Begins(rebuild)
      BY <2>2, <2>3, PlainBegins, BothBegin, JoinIsSeq DEF AreCareful, ArePlain
    <3>2. IsSeq(gone)
      BY UnitIsSeq
    <3> HIDE DEF rebuild, gone
    <3> QED
      BY <2>1, <3>1, <3>2, BothBegin
  <2>5. ASSUME TableInStep PROVE FALSE
    <3>1. ColumnsInStep
      BY <2>5, DefinitionsAgree DEF TableInStep
    <3>2. bp.options.is_transient = options.is_transient
      BY <2>5, OptionsAreCompared DEF TableInStep
    <3> QED
      BY <1>1, <3>1, <3>2, ColumnsAreCompared DEF ReplaceReasons
  <2> QED
    BY <2>4, <2>5
<1>2. CASE ~ReplaceReasons
  <2>1. CompareTable = Alters \o CompareSearch
    BY <1>2 DEF CompareTable
  <2>2. /\ ArePlain(CompareSearch) /\ IsSeq(CompareSearch)
        /\ CompareSearch = << >> <=> SearchInStep(bp)
    BY SearchIsPlain, SearchIsCompared
  <2>3. ArePlain(all) /\ IsSeq(all)
    BY AltersAre DEF ArePlain
  <2>4. IsSeq(last)
    BY UnitIsSeq
  <2>5. Alters = IF all = << >> THEN << >> ELSE all \o last
    BY DEF Alters
  <2>6. all = << >> <=> ColumnsInStep /\ \A o \in DOMAIN bp.options : OptionInStep(bp, o)
    <3>1. /\ ~OrderChanged /\ bp.options.is_transient = options.is_transient
          /\ \A i \in Remaining : ~ColumnReasons(columns[i], ColumnOf(bp.columns, columns[i].name))
      BY <1>2 DEF ReplaceReasons
    <3>2. ColumnsInStep <=>
            /\ \A i \in DOMAIN columns :
                 SafeColumnAlters(columns[i]) = << >> /\ UnsafeColumnAlters(columns[i]) = << >>
            /\ DOMAIN Added = {}
      BY <3>1, ColumnsAreCompared
    <3>3. (\A o \in DOMAIN bp.options : OptionInStep(bp, o)) <=>
            /\ ~OptionDiffers("comment") /\ ~OptionDiffers("retention")
            /\ ~OptionDiffers("cluster") /\ ~OptionDiffers("tracking")
      BY <3>1, OptionsAreCompared
    <3> HIDE DEF all
    <3>4. all = << >> <=>
            /\ \A i \in DOMAIN columns :
                 SafeColumnAlters(columns[i]) = << >> /\ UnsafeColumnAlters(columns[i]) = << >>
            /\ DOMAIN Added = {}
            /\ ~OptionDiffers("comment") /\ ~OptionDiffers("retention")
            /\ ~OptionDiffers("cluster") /\ ~OptionDiffers("tracking")
      BY AltersAre DEF all
    <3> QED
      BY <3>2, <3>3, <3>4
  <2> HIDE DEF all, last
  <2>7. TableInStep <=> all = << >> /\ CompareSearch = << >>
    BY <2>2, <2>6, DefinitionsAgree DEF TableInStep
  <2>8. CASE all = << >>
    <3>1. << >> \o CompareSearch = CompareSearch
      <4>1. CompareSearch \in Seq(Range(CompareSearch))
        BY <2>2 DEF IsSeq
      <4> QED
        BY <4>1
    <3>2. CompareTable = CompareSearch
      BY <2>1, <2>5, <2>8, <3>1
    <3> QED
      BY <2>2, <2>7, <2>8, <3>2, PlainBegins
  <2>9. CASE all # << >>
    <3>1. Begins(all)
      BY <2>3, PlainBegins
    <3>2. IsSeq(all \o last) /\ all \o last # << >> /\ Begins(all \o last)
      BY <2>3, <2>4, <2>9, <3>1, JoinIsSeq, BothBegin
    <3>3. CompareTable = (all \o last) \o CompareSearch
      BY <2>1, <2>5, <2>9
    <3>4. CompareTable # << >> /\ Begins(CompareTable)
      BY <2>2, <3>2, <3>3, BothBegin
    <3> QED
      BY <2>7, <2>9, <3>4
  <2> QED
    BY <2>8, <2>9
<1> QED
  BY <1>1, <1>2

\* A table that is not there is not as declared; creating it begins with a statement.
LEMMA TableIsCreated ==
  ASSUME scenario \in Scenarios, inv \in DOMAIN scenario.commands, ~Exists
  PROVE  ~TableInStep /\ CreateTable # << >> /\ Begins(CreateTable)
<1>1. PICK q : AreCareful(q) /\ CreateTable = << Safe("create", None) >> \o q
  BY CreateTableIsCareful
<1>2. ArePlain(<< Safe("create", None) >>) /\ << Safe("create", None) >> # << >>
  BY OneIsPlain DEF Safe
<1>3. CreateTable # << >> /\ Begins(CreateTable)
  BY <1>1, <1>2, PlainBegins, BothBegin DEF AreCareful, ArePlain
<1>4. ASSUME TableInStep PROVE FALSE
  <2>1. DOMAIN columns = {}
    BY EmptyIsSeq DEF Exists
  <2>2. DOMAIN bp.columns = {}
    BY <1>4, <2>1 DEF TableInStep
  <2>3. bp.columns \in Seq(ColumnRecords) /\ bp.columns # << >>
    BY BlueprintIsSound
  <2>4. IsSeq(bp.columns) /\ \A x : x \notin Range(bp.columns)
    BY <2>2, <2>3, SeqWithin DEF Range
  <2> QED
    BY <2>3, <2>4, EmptyByRange
<1> QED
  BY <1>3, <1>4

\* One task for each value of a sequence.
LEMMA EachTaskIs ==
  ASSUME NEW seq, IsSeq(seq), NEW f, f = [i \in DOMAIN seq |-> << f[i][1] >>]
  PROVE  /\ IsSeq(FlattenSeq(f))
         /\ \A x : x \in Range(FlattenSeq(f)) <=> \E i \in DOMAIN seq : x = f[i][1]
<1>1. IsSeq(f) /\ DOMAIN f = DOMAIN seq
  <2>1. DOMAIN seq = 1..Len(seq) /\ Len(seq) \in Nat /\ f = [i \in DOMAIN seq |-> f[i]]
    BY SeqElim
  <2> QED
    BY <2>1, SeqIntro
<1>2. ASSUME NEW i \in DOMAIN f PROVE IsSeq(f[i]) /\ Range(f[i]) = {f[i][1]}
  <2>1. f[i] = << f[i][1] >>
    BY <1>1
  <2> QED
    BY <2>1, UnitIsSeq
<1>3. /\ IsSeq(FlattenSeq(f))
      /\ \A x : x \in Range(FlattenSeq(f)) <=> \E i \in DOMAIN f : x \in Range(f[i])
  BY <1>1, <1>2, FlattenIsSeq
<1>4. ASSUME NEW x
      PROVE  x \in Range(FlattenSeq(f)) <=> \E i \in DOMAIN seq : x = f[i][1]
  <2>1. x \in Range(FlattenSeq(f)) <=> \E i \in DOMAIN seq : x \in Range(f[i])
    BY <1>1, <1>3
  <2>2. \A i \in DOMAIN seq : x \in Range(f[i]) <=> x = f[i][1]
    BY <1>1, <1>2
  <2> QED
    BY <2>1, <2>2
<1> QED
  BY <1>3, <1>4

\* The tasks of a resolver of keys: a key to drop, or one to create or compare.
LEMMA KeyTasksAre ==
  ASSUME NEW kind, IsFiniteSet(keys), scenario \in Scenarios, inv \in DOMAIN scenario.commands
  PROVE  /\ IsSeq(KeyTasks(kind))
         /\ \A q : q \in Range(KeyTasks(kind)) <=>
              \/ \E k \in DropKeys(kind) : q = << Safe("drop key", k) >>
              \/ \E l \in Declared(kind) : q = CreateOrCompareKey(l)
<1> DEFINE gone == SetToSeq(DropKeys(kind))
           wanted == SetToSeq(Declared(kind))
           drops == [i \in DOMAIN gone |-> << << Safe("drop key", gone[i]) >> >>]
           creates == [i \in DOMAIN wanted |-> << CreateOrCompareKey(wanted[i]) >>]
<1>1. IsFiniteSet(DropKeys(kind)) /\ IsFiniteSet(Declared(kind))
  BY BlueprintIsSound, FS_Subset DEF DropKeys, Listed, Declared
<1>2. /\ IsSeq(gone) /\ Range(gone) = DropKeys(kind)
      /\ IsSeq(wanted) /\ Range(wanted) = Declared(kind)
  BY <1>1, SetToSeqIsSeq
<1>3. KeyTasks(kind) = FlattenSeq(drops) \o FlattenSeq(creates)
  BY DEF KeyTasks, EachOf, ForEach
<1> HIDE DEF gone, wanted
<1>4. drops = [i \in DOMAIN gone |-> << drops[i][1] >>]
  OBVIOUS
<1>5. creates = [i \in DOMAIN wanted |-> << creates[i][1] >>]
  OBVIOUS
<1>6. \A i \in DOMAIN gone : drops[i][1] = << Safe("drop key", gone[i]) >>
  OBVIOUS
<1>7. \A i \in DOMAIN wanted : creates[i][1] = CreateOrCompareKey(wanted[i])
  OBVIOUS
<1> HIDE DEF drops, creates
<1>8. /\ IsSeq(FlattenSeq(drops))
      /\ \A q : q \in Range(FlattenSeq(drops)) <=> \E i \in DOMAIN gone : q = drops[i][1]
  BY <1>2, <1>4, EachTaskIs
<1>9. /\ IsSeq(FlattenSeq(creates))
      /\ \A q : q \in Range(FlattenSeq(creates)) <=> \E i \in DOMAIN wanted : q = creates[i][1]
  BY <1>2, <1>5, EachTaskIs
<1>10. ASSUME NEW q
      PROVE  q \in Range(FlattenSeq(drops)) <=> \E k \in DropKeys(kind) : q = << Safe("drop key", k) >>
  <2>1. q \in Range(FlattenSeq(drops)) <=> \E i \in DOMAIN gone : q = << Safe("drop key", gone[i]) >>
    <3> DEFINE d(i) == << Safe("drop key", gone[i]) >>
    <3>1. \A i \in DOMAIN gone : drops[i][1] = d(i)
      BY <1>6
    <3> HIDE DEF d
    <3>2. q \in Range(FlattenSeq(drops)) <=> \E i \in DOMAIN gone : q = d(i)
      BY <1>8, <3>1
    <3> QED
      BY <3>2 DEF d
  <2>2. \A k : k \in DropKeys(kind) <=> \E i \in DOMAIN gone : k = gone[i]
    BY <1>2 DEF Range
  <2> QED
    BY <2>1, <2>2
<1>11. ASSUME NEW q
      PROVE  q \in Range(FlattenSeq(creates)) <=> \E l \in Declared(kind) : q = CreateOrCompareKey(l)
  <2>1. q \in Range(FlattenSeq(creates)) <=> \E i \in DOMAIN wanted : q = CreateOrCompareKey(wanted[i])
    BY <1>7, <1>9
  <2>2. \A l : l \in Declared(kind) <=> \E i \in DOMAIN wanted : l = wanted[i]
    BY <1>2 DEF Range
  <2> QED
    BY <2>1, <2>2
<1>12. /\ IsSeq(KeyTasks(kind))
       /\ Range(KeyTasks(kind)) = Range(FlattenSeq(drops)) \cup Range(FlattenSeq(creates))
  BY <1>3, <1>8, <1>9, JoinIsSeq
<1> QED
  BY <1>10, <1>11, <1>12

\* A declared key asks for nothing if it is the one there is.
LEMMA KeyIsCompared ==
  ASSUME NEW l, IsFiniteSet(keys)
  PROVE  /\ ArePlain(CreateOrCompareKey(l))
         /\ CreateOrCompareKey(l) = << >> <=> {k \in Listed(l.kind) : SameKey(k, l)} = {l}
<1> DEFINE there == {k \in Listed(l.kind) : SameKey(k, l)}
           seq == SetToSeq(there)
           drops == [i \in DOMAIN seq |-> << Safe("drop key", seq[i]) >>]
           add == << Safe("add key", l) >>
<1>1. CreateOrCompareKey(l) = CASE there = {} -> add
                                [] there = {l} -> << >>
                                [] OTHER -> FlattenSeq(drops) \o add
  BY DEF CreateOrCompareKey, EachOf, ForEach
<1>2. IsFiniteSet(there)
  BY FS_Subset DEF Listed
<1>3. IsSeq(seq)
  BY <1>2, SetToSeqIsSeq
<1> HIDE DEF seq
<1>4. /\ drops = [i \in DOMAIN seq |-> drops[i]]
      /\ \A i \in DOMAIN seq : ArePlain(drops[i])
  BY OneIsPlain DEF Safe
<1>5. ArePlain(add) /\ add # << >> /\ ArePlain(<< >>)
  BY OneIsPlain, EmptyIsSeq DEF Safe, ArePlain
<1> HIDE DEF drops, add
<1>6. ArePlain(FlattenSeq(drops))
  BY <1>3, <1>4, EachIsPlain
<1>7. ArePlain(FlattenSeq(drops) \o add) /\ FlattenSeq(drops) \o add # << >>
  BY <1>5, <1>6, BothArePlain, JoinIsEmpty DEF ArePlain
<1> HIDE DEF there
<1>8. CASE there = {}
  BY <1>1, <1>5, <1>8 DEF there
<1>9. CASE there = {l} /\ there # {}
  BY <1>1, <1>5, <1>9 DEF there
<1>10. CASE there # {l} /\ there # {}
  <2>1. CreateOrCompareKey(l) = FlattenSeq(drops) \o add
    BY <1>1, <1>10
  <2> QED
    BY <1>7, <1>10, <2>1 DEF there
<1> QED
  BY <1>8, <1>9, <1>10

\* With no column to go along with, comparing the keys of a kind asks for nothing
\* if and only if they are the declared ones; what it asks for begins with a
\* statement.
LEMMA KeysAreCompared ==
  ASSUME NEW kind, IsFiniteSet(keys), scenario \in Scenarios, inv \in DOMAIN scenario.commands
  PROVE  /\ \A q \in Range(KeyTasks(kind)) : Begins(q)
         /\ dropping = {} =>
              ((\A q \in Range(KeyTasks(kind)) : q = << >>) <=> Listed(kind) = Declared(kind))
<1>1. ASSUME NEW q \in Range(KeyTasks(kind)) PROVE Begins(q)
  <2>1. CASE \E k \in DropKeys(kind) : q = << Safe("drop key", k) >>
    <3>1. PICK k \in DropKeys(kind) : q = << Safe("drop key", k) >>
      BY <2>1
    <3>2. ArePlain(<< Safe("drop key", k) >>)
      BY OneIsPlain DEF Safe
    <3> QED
      BY <3>1, <3>2, PlainBegins
  <2>2. CASE \E l \in Declared(kind) : q = CreateOrCompareKey(l)
    BY <2>2, KeyIsCompared, PlainBegins
  <2> QED
    BY <2>1, <2>2, KeyTasksAre
<1>2. ASSUME dropping = {}, \A q \in Range(KeyTasks(kind)) : q = << >>
      PROVE  Listed(kind) = Declared(kind)
  <2>1. ASSUME NEW k \in DropKeys(kind) PROVE FALSE
    <3>1. << Safe("drop key", k) >> \in Range(KeyTasks(kind))
      BY KeyTasksAre
    <3> QED
      BY <1>2, <3>1
  <2>2. ASSUME NEW l \in Declared(kind)
        PROVE  {k \in Listed(kind) : SameKey(k, l)} = {l}
    <3>1. CreateOrCompareKey(l) \in Range(KeyTasks(kind)) /\ l.kind = kind
      BY KeyTasksAre DEF Declared
    <3>2. CreateOrCompareKey(l) = << >>
      BY <1>2, <3>1
    <3> QED
      BY <3>1, <3>2, KeyIsCompared
  <2>3. ASSUME NEW k \in Listed(kind) PROVE k \in Declared(kind)
    <3>1. ~ImplicitlyDropped(k)
      BY <1>2 DEF ImplicitlyDropped
    <3>2. PICK l \in Declared(kind) : SameKey(k, l)
      BY <2>1, <3>1 DEF DropKeys
    <3>3. k \in {x \in Listed(kind) : SameKey(x, l)}
      BY <3>2
    <3> QED
      BY <2>2, <3>2, <3>3
  <2> QED
    BY <2>2, <2>3
<1>3. ASSUME Listed(kind) = Declared(kind), NEW q \in Range(KeyTasks(kind))
      PROVE  q = << >>
  <2>1. ASSUME NEW k \in DropKeys(kind) PROVE FALSE
    <3>1. k \in Declared(kind) /\ \A l \in Declared(kind) : ~SameKey(k, l)
      BY <1>3 DEF DropKeys
    <3> QED
      BY <3>1 DEF SameKey
  <2>2. PICK l \in Declared(kind) : q = CreateOrCompareKey(l)
    BY <2>1, KeyTasksAre
  <2>3. l.kind = kind /\ l \in bp.keys /\ \A k \in Declared(kind) : k \in bp.keys
    BY DEF Declared
  <2>4. {k \in Listed(kind) : SameKey(k, l)} = {l}
    <3>1. \A k \in bp.keys : SameKey(k, l) => k = l
      BY <2>3, BlueprintIsSound
    <3>2. SameKey(l, l)
      BY DEF SameKey
    <3> QED
      BY <1>3, <2>3, <3>1, <3>2
  <2> QED
    BY <2>2, <2>3, <2>4, KeyIsCompared
<1> QED
  BY <1>1, <1>2, <1>3

\* The resolvers in their order.
LEMMA KindsInOrder ==
  /\ Len(Kinds) = 4 /\ DOMAIN Kinds = 1..4
  /\ Kinds[1] = "table" /\ Kinds[2] = "primary" /\ Kinds[3] = "unique" /\ Kinds[4] = "foreign"
<1> DEFINE S == {"table", "primary", "unique", "foreign"}
           p == << "table" >>
<1>1. p \in Seq(S)
  OBVIOUS
<1>2. KeyKinds \in Seq(S) /\ Len(KeyKinds) = 3
  <2>1. ASSUME NEW T, NEW x \in T, NEW y \in T, NEW z \in T
        PROVE  << x, y, z >> \in Seq(T) /\ Len(<< x, y, z >>) = 3
    OBVIOUS
  <2> QED
    BY <2>1 DEF KeyKinds
<1>3. p[1] = "table" /\ KeyKinds[1] = "primary" /\ KeyKinds[2] = "unique" /\ KeyKinds[3] = "foreign"
  BY DEF KeyKinds
<1>4. Len(p) = 1 /\ Kinds = p \o KeyKinds
  BY DEF Kinds
<1> HIDE DEF p, S
<1>5. /\ Kinds \in Seq(S) /\ Len(Kinds) = Len(p) + Len(KeyKinds)
      /\ \A i \in 1..Len(p) : Kinds[i] = p[i]
      /\ \A i \in 1..Len(KeyKinds) : Kinds[i + Len(p)] = KeyKinds[i]
  <2>1. KeyKinds \in Seq(S)
    BY <1>2
  <2>2. /\ p \o KeyKinds \in Seq(S) /\ Len(p \o KeyKinds) = Len(p) + Len(KeyKinds)
        /\ \A i \in 1..Len(p) : (p \o KeyKinds)[i] = p[i]
        /\ \A i \in 1..Len(KeyKinds) : (p \o KeyKinds)[i + Len(p)] = KeyKinds[i]
    BY <1>1, <2>1, JoinAt
  <2> QED
    BY <1>4, <2>2
<1>6. Len(Kinds) = 4 /\ DOMAIN Kinds = 1..4
  BY <1>2, <1>4, <1>5
<1>7. Kinds[1] = p[1]
  BY <1>4, <1>5
<1>8. Kinds[1 + 1] = KeyKinds[1] /\ Kinds[2 + 1] = KeyKinds[2] /\ Kinds[3 + 1] = KeyKinds[3]
  BY <1>2, <1>4, <1>5
<1> QED
  BY <1>3, <1>6, <1>7, <1>8

\* The resolvers before one of them.
Earlier(kind) == {k \in Range(Kinds) : IndexOf(k) < IndexOf(kind)}

\* The first resolver has none before it, the next one also has the one before;
\* the last one has all others.
LEMMA ResolversInOrder ==
  /\ Range(Kinds) = {"table", "primary", "unique", "foreign"}
  /\ Earlier("table") = {}
  /\ \A k \in Range(Kinds) : IndexOf(k) < Len(Kinds) =>
       /\ Kinds[IndexOf(k) + 1] \in Range(Kinds) /\ Kinds[IndexOf(k) + 1] # "table"
       /\ Earlier(Kinds[IndexOf(k) + 1]) = Earlier(k) \cup {k}
  /\ Earlier("foreign") = {"table", "primary", "unique"}
  /\ "start" \notin Range(Kinds)
<1>1. DOMAIN Kinds = {1, 2, 3, 4}
  BY KindsInOrder
<1>2. Range(Kinds) = {"table", "primary", "unique", "foreign"}
  <2>1. \A x : x \in Range(Kinds) <=> \E i \in {1, 2, 3, 4} : Kinds[i] = x
    BY <1>1 DEF Range
  <2> QED
    BY <2>1, KindsInOrder
<1>3. IndexOf("table") = 1 /\ IndexOf("primary") = 2 /\ IndexOf("unique") = 3 /\ IndexOf("foreign") = 4
  <2>1. \A k \in Range(Kinds) : IndexOf(k) \in {1, 2, 3, 4} /\ Kinds[IndexOf(k)] = k
    BY <1>1 DEF IndexOf, Range
  <2> QED
    BY <1>2, <2>1, KindsInOrder
<1>4. /\ Earlier("table") = {} /\ Earlier("primary") = {"table"}
      /\ Earlier("unique") = {"table", "primary"}
      /\ Earlier("foreign") = {"table", "primary", "unique"}
  BY <1>2, <1>3 DEF Earlier
<1>5. ASSUME NEW k \in Range(Kinds), IndexOf(k) < Len(Kinds)
      PROVE  /\ Kinds[IndexOf(k) + 1] \in Range(Kinds) /\ Kinds[IndexOf(k) + 1] # "table"
             /\ Earlier(Kinds[IndexOf(k) + 1]) = Earlier(k) \cup {k}
  <2>1. CASE k = "table"
    BY <1>2, <1>3, <1>4, <2>1, KindsInOrder
  <2>2. CASE k = "primary"
    BY <1>2, <1>3, <1>4, <2>2, KindsInOrder
  <2>3. CASE k = "unique"
    BY <1>2, <1>3, <1>4, <2>3, KindsInOrder
  <2>4. CASE k = "foreign"
    BY <1>3, <1>5, <2>4, KindsInOrder
  <2> QED
    BY <1>2, <2>1, <2>2, <2>3, <2>4
<1> QED
  BY <1>2, <1>4, <1>5

\* What a resolver looks at is as declared.
Settled(kind) == IF kind = "table" THEN TableInStep ELSE Listed(kind) = Declared(kind)

\* The table is in step when it is for each of the resolvers.
LEMMA InStepIsSettled ==
  ASSUME scenario \in Scenarios, inv \in DOMAIN scenario.commands, keys \subseteq KeyRecords
  PROVE  InStep(bp) <=> \A k \in Range(Kinds) : Settled(k)
<1>1. InStep(bp) <=> TableInStep /\ keys = bp.keys
  BY DEF InStep, TableInStep
<1>2. bp.keys \subseteq KeyRecords
  BY BlueprintIsSound DEF BlueprintRecords
<1>3. Range(KeyKinds) = {"primary", "unique", "foreign"}
  <2>1. DOMAIN KeyKinds = {1, 2, 3}
    BY DEF KeyKinds
  <2> QED
    BY <2>1 DEF KeyKinds, Range
<1>4. \A k \in keys \cup bp.keys : k.kind \in {"primary", "unique", "foreign"}
  BY <1>2, <1>3 DEF KeyRecords
<1>5. keys = bp.keys <=>
        \A kind \in {"primary", "unique", "foreign"} : Listed(kind) = Declared(kind)
  <2>1. ASSUME \A kind \in {"primary", "unique", "foreign"} : Listed(kind) = Declared(kind)
        PROVE  keys = bp.keys
    <3>1. ASSUME NEW k \in keys PROVE k \in bp.keys
      <4>1. k \in Listed(k.kind)
        BY DEF Listed
      <4> QED
        BY <1>4, <2>1, <4>1 DEF Declared
    <3>2. ASSUME NEW k \in bp.keys PROVE k \in keys
      <4>1. k \in Declared(k.kind)
        BY DEF Declared
      <4> QED
        BY <1>4, <2>1, <4>1 DEF Listed
    <3> QED
      BY <3>1, <3>2
  <2>2. ASSUME keys = bp.keys, NEW kind PROVE Listed(kind) = Declared(kind)
    BY <2>2 DEF Listed, Declared
  <2> QED
    BY <2>1, <2>2
<1> QED
  BY <1>1, <1>5, ResolversInOrder DEF Settled

\* There is a task with something to do.
Awaited == \E q \in Range(due) : q # << >>

\* While nothing has been due in an invocation, everything that was looked at was as
\* declared, and is; the resolver at work has something left to do only if what it
\* looks at is not; no column was told to go.
WhileNothingIsDue ==
  /\ dropping = {} /\ (seen.in_step <=> InStep(bp))
  /\ \A k \in Earlier(pc) : Settled(k)
  /\ Settled(pc) <=> ~Awaited
  /\ \A q \in Range(due) : Begins(q)

\* What an invocation says of the table.
IsHonest(h) ==
  /\ h.in_step => ~h.due
  /\ h.exit = "success" /\ ~h.due => h.in_step

QuietInv ==
  /\ pc \in {"start"} \cup Range(Kinds) /\ seen \in [in_step : BOOLEAN, due : BOOLEAN]
  /\ pc # "start" => (seen.in_step => ~seen.due) /\ (~seen.due => WhileNothingIsDue)
  /\ IsSeq(history) /\ \A i \in DOMAIN history : IsHonest(history[i])

\* The invariant holds at first.
LEMMA InitIsQuiet == Init => QuietInv
<1> SUFFICES ASSUME Init PROVE QuietInv
  OBVIOUS
<1>1. pc = "start" /\ seen = [in_step |-> FALSE, due |-> FALSE] /\ history = << >>
  BY DEF Init
<1> QED
  BY <1>1, EmptyIsSeq DEF QuietInv

\* What is due is a sequence of tasks.
LEMMA DueIsSeq == ASSUME RowsInv PROVE IsSeq(due)
  BY UnitIsSeq DEF RowsInv, DueIsCareful, TasksAreCareful

\* Steps of an invocation which change neither the table nor what was seen of it.
LEMMA OtherStepsAreQuiet ==
  ASSUME QuietInv, UNCHANGED <<scenario, table, inv, pc, seen, history>>,
         ~seen.due => UNCHANGED dropping /\ (Awaited' <=> Awaited) /\ \A q \in Range(due') : Begins(q)
  PROVE  QuietInv'
<1>1. bp' = bp
  BY DEF bp, Invocation
<1>2. (InStep(bp) <=> InStep(bp)') /\ (TableInStep <=> TableInStep')
  BY <1>1 DEF InStep, TableInStep, table, OptionInStep, SearchInStep
<1>3. \A k : (Settled(k) <=> Settled(k)') /\ Earlier(k)' = Earlier(k)
  BY <1>1, <1>2 DEF Settled, Earlier, table, Listed, Declared
<1>4. ASSUME pc # "start", ~seen.due PROVE WhileNothingIsDue'
  <2>1. WhileNothingIsDue
    BY <1>4 DEF QuietInv
  <2>2. \A k \in Earlier(pc) : Settled(k)'
    BY <1>3, <2>1 DEF WhileNothingIsDue
  <2>3. Settled(pc)' <=> ~Awaited'
    BY <1>3, <1>4, <2>1 DEF WhileNothingIsDue
  <2>4. dropping' = {} /\ (seen.in_step <=> InStep(bp)')
    BY <1>2, <1>4, <2>1 DEF WhileNothingIsDue
  <2>5. \A q \in Range(due') : Begins(q)'
    BY <1>4 DEF Begins
  <2>6. Earlier(pc)' = Earlier(pc)
    BY <1>3
  <2>7. \A k \in Earlier(pc)' : Settled(k)'
    BY <2>2, <2>6
  <2> QED
    BY <2>3, <2>4, <2>5, <2>7 DEF WhileNothingIsDue
<1>5. /\ pc' \in {"start"} \cup Range(Kinds) /\ seen' \in [in_step : BOOLEAN, due : BOOLEAN]
      /\ IsSeq(history') /\ \A i \in DOMAIN history' : IsHonest(history'[i])
  BY DEF QuietInv
<1>6. pc' # "start" => (seen'.in_step => ~seen'.due) /\ (~seen'.due => WhileNothingIsDue')
  BY <1>4 DEF QuietInv
<1> QED
  BY <1>5, <1>6 DEF QuietInv, IsSeq, IsHonest

\* A statement that comes up means that something is due, and was not in step.
LEMMA StatementIsDue ==
  ASSUME RowsInv, QuietInv, HasStatement
  PROVE  /\ pc # "start" /\ ~seen.in_step
         /\ Statement.op = "intend" => seen.due
<1>1. pc # "start" /\ inv \in DOMAIN scenario.commands /\ scenario \in Scenarios /\ keys \subseteq KeyRecords
  BY DEF RowsInv, HasStatement
<1>2. Head(due) \in Range(due) /\ Head(due) # << >>
  BY DueIsSeq, HeadTail DEF HasStatement
<1>3. CASE seen.due
  BY <1>1, <1>3 DEF QuietInv
<1>4. CASE ~seen.due
  <2>1. WhileNothingIsDue /\ Awaited /\ pc \in Range(Kinds)
    BY <1>1, <1>2, <1>4 DEF QuietInv, Awaited
  <2>2. ~InStep(bp)
    BY <1>1, <2>1, InStepIsSettled DEF WhileNothingIsDue
  <2>3. Statement.op # "intend"
    BY <1>2, <2>1 DEF WhileNothingIsDue, Begins, Statement
  <2> QED
    BY <1>1, <2>1, <2>2, <2>3 DEF WhileNothingIsDue
<1> QED
  BY <1>3, <1>4

\* An invocation begins.
LEMMA StartIsQuiet ==
  ASSUME RowsInv, QuietInv, Start
  PROVE  QuietInv'
<1> DEFINE first == IF Exists THEN CompareTable ELSE CreateTable
<1>1. /\ UNCHANGED <<scenario, table, inv, history>> /\ pc' = "table" /\ dropping' = {}
      /\ due' = << first >> /\ seen' = [in_step |-> InStep(bp), due |-> FALSE]
  BY DEF Start
<1>2. inv \in DOMAIN scenario.commands /\ scenario \in Scenarios
  <2>1. scenario.commands \in Seq(Command) /\ inv \in Nat \ {0} /\ inv <= Len(scenario.commands)
    BY TableAssumption DEF RowsInv, ScenarioRecords, Start
  <2> QED
    BY <2>1 DEF RowsInv
<1>3. AreSound(columns) /\ IsFiniteSet(search)
  BY TableAssumption, FS_Subset DEF RowsInv
<1>4. (first = << >> <=> TableInStep) /\ Begins(first)
  BY <1>2, <1>3, TableIsCompared, TableIsCreated
<1> HIDE DEF first
<1>5. Range(due') = {first}
  BY <1>1, UnitIsSeq
<1>6. Awaited' <=> first # << >>
  BY <1>5 DEF Awaited
<1>7. bp' = bp
  BY <1>1 DEF bp, Invocation
<1>8. (InStep(bp) <=> InStep(bp)') /\ (TableInStep <=> TableInStep')
  BY <1>1, <1>7 DEF InStep, TableInStep, table, OptionInStep, SearchInStep
<1>9. Settled(pc)' <=> ~Awaited'
  BY <1>1, <1>4, <1>6, <1>8 DEF Settled
<1>10. Earlier(pc)' = {}
  <2>1. Earlier("table")' = Earlier("table")
    BY DEF Earlier
  <2> QED
    BY <1>1, <2>1, ResolversInOrder DEF Earlier
<1>11. \A q \in Range(due') : Begins(q)'
  BY <1>4, <1>5 DEF Begins
<1>12. seen'.in_step = InStep(bp) /\ seen'.due = FALSE
  BY <1>1
<1>13. seen' \in [in_step : BOOLEAN, due : BOOLEAN]
  <2>1. InStep(bp) \in BOOLEAN
    BY DEF InStep
  <2> QED
    BY <1>1, <2>1
<1>14. WhileNothingIsDue'
  BY <1>1, <1>8, <1>9, <1>10, <1>11, <1>12 DEF WhileNothingIsDue
<1>15. pc' \in Range(Kinds)
  BY <1>1, ResolversInOrder
<1> QED
  BY <1>1, <1>12, <1>13, <1>14, <1>15 DEF QuietInv, IsSeq, IsHonest

\* A statement comes up, is executed, suggested or fails: something is due.
LEMMA DueIsSeen ==
  ASSUME RowsInv, QuietInv, IsDue, UNCHANGED <<pc, history>>
  PROVE  QuietInv'
<1>1. HasStatement /\ seen' = [seen EXCEPT !.due = TRUE]
  BY DEF IsDue
<1>2. ~seen.in_step
  BY <1>1, StatementIsDue
<1>3. seen' \in [in_step : BOOLEAN, due : BOOLEAN] /\ seen'.due /\ ~seen'.in_step
  BY <1>1, <1>2 DEF QuietInv
<1> QED
  BY <1>3 DEF QuietInv, IsSeq, IsHonest

\* The next resolver lists its objects.
LEMMA NextResolverIsQuiet ==
  ASSUME RowsInv, QuietInv, NextResolver
  PROVE  QuietInv'
<1>1. /\ UNCHANGED <<scenario, table, inv, dropping, seen, history>>
      /\ pc \in Range(Kinds) /\ due = << >> /\ IndexOf(pc) < Len(Kinds)
      /\ pc' = Kinds[IndexOf(pc) + 1] /\ due' = KeyTasks(pc')
  BY DEF NextResolver
<1>2. pc # "start" /\ pc' \in Range(Kinds) /\ pc' # "table" /\ Earlier(pc') = Earlier(pc) \cup {pc}
  BY <1>1, ResolversInOrder
<1>3. inv \in DOMAIN scenario.commands /\ scenario \in Scenarios /\ IsFiniteSet(keys)
  BY <1>2 DEF RowsInv
<1>4. bp' = bp
  BY <1>1 DEF bp, Invocation
<1>5. (InStep(bp) <=> InStep(bp)') /\ (TableInStep <=> TableInStep')
  BY <1>1, <1>4 DEF InStep, TableInStep, table, OptionInStep, SearchInStep
<1>6. \A k : Settled(k)' <=> Settled(k)
  BY <1>1, <1>4, <1>5 DEF Settled, table, Listed, Declared
<1>7. ASSUME ~seen.due PROVE WhileNothingIsDue'
  <2>1. WhileNothingIsDue
    BY <1>2, <1>7 DEF QuietInv
  <2>2. ~Awaited
    <3>1. Range(due) = {}
      BY <1>1, EmptyIsSeq
    <3> QED
      BY <3>1 DEF Awaited
  <2>3. \A k \in Earlier(pc') : Settled(k)
    BY <1>2, <2>1, <2>2 DEF WhileNothingIsDue
  <2>4. Earlier(pc)' = Earlier(pc')
    BY DEF Earlier
  <2>5. \A k \in Earlier(pc)' : Settled(k)'
    BY <1>6, <2>3, <2>4
  <2>6. /\ \A q \in Range(KeyTasks(pc')) : Begins(q)
        /\ (\A q \in Range(KeyTasks(pc')) : q = << >>) <=> Listed(pc') = Declared(pc')
    BY <1>3, <2>1, KeysAreCompared DEF WhileNothingIsDue
  <2>7. \A q \in Range(due') : Begins(q)'
    BY <1>1, <2>6 DEF Begins
  <2>8. Awaited' <=> ~(\A q \in Range(KeyTasks(pc')) : q = << >>)
    BY <1>1 DEF Awaited
  <2>9. Settled(pc') <=> ~Awaited'
    BY <1>2, <2>6, <2>8 DEF Settled
  <2>10. Settled(pc)' <=> Settled(pc')
    BY <1>6, <1>2, <1>1, <1>4 DEF Settled, Listed, Declared, table
  <2> QED
    BY <1>1, <1>5, <2>1, <2>5, <2>7, <2>9, <2>10 DEF WhileNothingIsDue
<1>8. (seen'.in_step => ~seen'.due) /\ (~seen'.due => WhileNothingIsDue')
  BY <1>1, <1>2, <1>7 DEF QuietInv
<1> QED
  BY <1>1, <1>2, <1>8 DEF QuietInv, IsSeq, IsHonest

\* What an invocation did is written down.
LEMMA RecordIsQuiet ==
  ASSUME QuietInv, NEW exit, Record(exit),
         seen.in_step => ~seen.due, exit = "success" /\ ~seen.due => seen.in_step
  PROVE  QuietInv'
<1> DEFINE h == [in_step |-> seen.in_step, due |-> seen.due, exit |-> exit]
<1>1. history' = Append(history, h) /\ pc' = "start" /\ seen' = seen
  BY DEF Record
<1>2. IsHonest(h)
  BY DEF IsHonest
<1> HIDE DEF h
<1>3. history \in Seq(Range(history) \cup {h})
  BY SeqIn DEF QuietInv
<1>4. history' \in Seq(Range(history) \cup {h}) /\ IsSeq(history')
  <2> DEFINE S == Range(history) \cup {h}
  <2>1. h \in S /\ history \in Seq(S)
    BY <1>3
  <2> HIDE DEF S
  <2>2. Append(history, h) \in Seq(S)
    BY <2>1
  <2>3. history' \in Seq(S)
    BY <1>1, <2>2
  <2>4. IsSeq(history')
    BY <2>3, SeqWithin
  <2> QED
    BY <2>3, <2>4 DEF S
<1>5. ASSUME NEW i \in DOMAIN history' PROVE IsHonest(history'[i])
  <2>1. history'[i] \in Range(history) \cup {h}
    BY <1>4
  <2>2. \A x \in Range(history) : IsHonest(x)
    BY DEF QuietInv, Range
  <2> QED
    BY <1>2, <2>1, <2>2
<1> QED
  BY <1>1, <1>4, <1>5 DEF QuietInv, IsSeq, IsHonest

\* Every step keeps the invariant.
LEMMA QuietInvHolds == RowsInv /\ QuietInv /\ [Next]_vars => QuietInv'
<1> SUFFICES ASSUME RowsInv, QuietInv, [Next]_vars PROVE QuietInv'
  OBVIOUS
<1>1. CASE Start
  BY <1>1, StartIsQuiet
<1>2. CASE TaskEnds
  <2>1. /\ due # << >> /\ Head(due) = << >> /\ due' = Tail(due)
        /\ UNCHANGED <<scenario, table, inv, pc, seen, history, dropping>>
    BY <1>2 DEF TaskEnds
  <2>2. IsSeq(due) /\ Range(Tail(due)) \subseteq Range(due) /\ pc # "start"
    BY <2>1, DueIsSeq, HeadTail DEF RowsInv
  <2>3. Awaited' <=> Awaited
    <3>1. \A q \in Range(due) : q # << >> => q \in Range(due')
      BY <2>1, <2>2, RangeOfTail
    <3>2. Range(due') \subseteq Range(due)
      BY <2>1, <2>2
    <3> QED
      BY <3>1, <3>2 DEF Awaited
  <2>4. ASSUME ~seen.due PROVE \A q \in Range(due') : Begins(q)
    BY <2>1, <2>2, <2>4 DEF QuietInv, WhileNothingIsDue
  <2> QED
    BY <2>1, <2>3, <2>4, OtherStepsAreQuiet
<1>3. CASE Intend
  <2>1. /\ HasStatement /\ Statement.op = "intend"
        /\ UNCHANGED <<scenario, table, inv, pc, seen, history>>
    BY <1>3 DEF Intend
  <2>2. seen.due
    BY <2>1, StatementIsDue
  <2> QED
    BY <2>1, <2>2, OtherStepsAreQuiet
<1>4. CASE Suggest \/ Execute \/ Raise
  <2>1. IsDue /\ UNCHANGED <<pc, history>>
    BY <1>4 DEF Suggest, Execute, Raise
  <2> QED
    BY <2>1, DueIsSeen
<1>5. CASE NextResolver
  BY <1>5, NextResolverIsQuiet
<1>6. CASE Exit
  <2>1. pc = "foreign" /\ due = << >> /\ Record(IF failed THEN "errors" ELSE "success")
    BY <1>6, KindsInOrder DEF Exit
  <2>2. seen.in_step => ~seen.due
    BY <2>1 DEF QuietInv
  <2>3. ASSUME ~seen.due PROVE seen.in_step
    <3>1. WhileNothingIsDue
      BY <2>1, <2>3 DEF QuietInv
    <3>2. ~Awaited
      <4>1. Range(due) = {}
        BY <2>1, EmptyIsSeq
      <4> QED
        BY <4>1 DEF Awaited
    <3>3. \A k \in Range(Kinds) : Settled(k)
      BY <2>1, <3>1, <3>2, ResolversInOrder DEF WhileNothingIsDue
    <3>4. InStep(bp)
      BY <2>1, <3>3, InStepIsSettled DEF RowsInv
    <3> QED
      BY <3>1, <3>4 DEF WhileNothingIsDue
  <2> QED
    BY <2>1, <2>2, <2>3, RecordIsQuiet
<1>7. CASE Crash
  <2>1. pc # "start" /\ Record("aborted")
    BY <1>7 DEF Crash
  <2>2. seen.in_step => ~seen.due
    BY <2>1 DEF QuietInv
  <2> QED
    BY <2>1, <2>2, RecordIsQuiet
<1>8. CASE UNCHANGED vars
  <2>1. UNCHANGED <<scenario, table, inv, pc, seen, history, due, dropping>>
    BY <1>8 DEF vars
  <2>2. Awaited' <=> Awaited
    BY <2>1 DEF Awaited
  <2>3. CASE pc = "start"
    BY <2>1, <2>3 DEF QuietInv, IsSeq, IsHonest
  <2>4. CASE pc # "start"
    <3>1. ~seen.due => \A q \in Range(due') : Begins(q)
      BY <2>1, <2>4 DEF QuietInv, WhileNothingIsDue
    <3> QED
      BY <2>1, <2>2, <3>1, OtherStepsAreQuiet
  <2> QED
    BY <2>3, <2>4
<1> QED
  BY <1>1, <1>2, <1>3, <1>4, <1>5, <1>6, <1>7, <1>8 DEF Next, Idle

\* A plan, or an apply, of a table that is as declared has nothing to do, and one
\* that exits 0 having had nothing to do has found it so: columns, options, search
\* and keys, for every blueprint, table and sequence of invocations, whatever failed
\* before.
THEOREM NothingDueIsInStep == Spec => []NothingDueMeansInStep
<1>1. QuietInv => NothingDueMeansInStep
  <2> SUFFICES ASSUME QuietInv, NEW i \in 1..Finished PROVE IsHonest(history[i])
    BY DEF NothingDueMeansInStep, IsHonest
  <2>1. i \in DOMAIN history
    BY SeqElim DEF QuietInv, Finished
  <2> QED
    BY <2>1 DEF QuietInv
<1> QED
  BY <1>1, InitIsQuiet, QuietInvHolds, RowsInvariant, PTL DEF Spec

-----------------------------------------------------------------------------
(* When all that is due is done.                                           *)

\* An apply with all switches, in which nothing has failed.
Unrestricted == ~Invocation.plan /\ Invocation.unsafe /\ Invocation.replace_table
Underway == pc # "start" /\ Unrestricted /\ ~failed

\* The attributes that are altered in place, and what makes one as declared.
Altered == {"type", "not_null", "default", "comment"}
Change(n, a) == Modify(n, a, ColumnOf(bp.columns, n)[a])

\* A declared column as it is added.
Addition(m) == [bp.columns[m] EXCEPT !.expression = None]

\* What a statement does.
IsModify(s) == s.op = "modify column"
IsDrop(s) == s.op = "drop column"
IsAdd(s) == s.op = "add column"
IsSet(s) == s.op = "set option"
IsMore(s) == s.op = "add search"
IsLess(s) == s.op = "drop search"
IsIntend(s) == s.op = "intend"
IsRebuild(s) == s.op \in {"create", "replace"}

\* A sequence is a first statement and the rest.
Splits(q, s, r) == IsSeq(q) /\ q # << >> /\ s = Head(q) /\ r = Tail(q)

\* What statements ask for.
Modifies(q, w) == \E s \in Range(q) : IsModify(s) /\ s.what = w
Drops(q, w) == \E s \in Range(q) : IsDrop(s) /\ s.what = w
Adds(q, w) == \E s \in Range(q) : IsAdd(s) /\ s.what = w
Sets(q, w) == \E s \in Range(q) : IsSet(s) /\ s.what = w

\* What differs from the blueprint, of columns, options and search, is asked for by
\* the rest q of a comparison.
ColumnFits(c, q) ==
  IF c.name \notin Names(bp.columns) THEN Drops(q, c.name)
  ELSE LET new == ColumnOf(bp.columns, c.name)
       IN  /\ c.collate = new.collate
           /\ \A a \in Altered : c[a] = new[a] \/ Modifies(q, Change(c.name, a))
ColumnsFit(cols, q) == \A c \in Range(cols) : ColumnFits(c, q)

OptionIs(opts, o) ==
  bp.options[o] = opts[o] \/ (o = "retention" /\ bp.options[o] = AnyRetention)
OptionsFit(opts, q) ==
  /\ opts.is_transient = bp.options.is_transient
  /\ \A o \in Options : OptionIs(opts, o) \/ Sets(q, SetOption(o))

WantedItems ==
  CASE bp.search = {"no"} -> {} [] bp.search = {"yes"} -> SearchItems [] OTHER -> bp.search
SearchFits(items, q) ==
  /\ \A i \in items \ WantedItems : \E s \in Range(q) : IsLess(s) /\ i \in s.what
  /\ IF bp.search = {"yes"} THEN items = {} => \E s \in Range(q) : IsMore(s)
     ELSE \A i \in WantedItems \ items : \E s \in Range(q) : IsMore(s) /\ i \in s.what

\* The declared columns that are there are the first n, in their order, and the
\* others are asked for.
PlaceOf(c) == PositionOf(bp.columns, c.name)
PlacesFit(cols, n) ==
  /\ \A m \in 1..n : bp.columns[m].name \in Names(cols)
  /\ \A i \in DOMAIN cols : cols[i].name \in Names(bp.columns) => PlaceOf(cols[i]) <= n
  /\ \A i, j \in DOMAIN cols :
       i < j /\ {cols[i].name, cols[j].name} \subseteq Names(bp.columns)
         => PlaceOf(cols[i]) < PlaceOf(cols[j])
AddsFit(n, q) ==
  /\ \A s \in Range(q) : IsAdd(s) => \E m \in (n + 1)..Len(bp.columns) : s.what = Addition(m)
  /\ \A m \in (n + 1)..Len(bp.columns) : Adds(q, Addition(m))

\* Statements alter what is there to what is declared, drop what is not declared.
StatementFits(cols, s) ==
  /\ \/ IsModify(s) \/ IsDrop(s) \/ IsAdd(s) \/ IsSet(s) \/ IsMore(s) \/ IsLess(s) \/ IsIntend(s)
  /\ IsModify(s) => \E n \in Names(bp.columns) \cap Names(cols), a \in Altered :
                      s.what = Change(n, a)
  /\ IsDrop(s) => s.what \in Names(cols) \ Names(bp.columns)
  /\ IsSet(s) => \E o \in Options : s.what = SetOption(o)
                                    /\ (o = "retention" => bp.options[o] # AnyRetention)
  /\ IsIntend(s) => s.what \cap Names(bp.columns) = {}
  /\ IsMore(s) => s.what \subseteq WantedItems /\ s.what # {}
  /\ IsLess(s) => s.what \cap WantedItems = {}
StatementsFit(cols, q) == \A s \in Range(q) : StatementFits(cols, s)

\* Columns are added before any is dropped, in their order; none is dropped twice;
\* that columns go is said when they are gone.
Before(s, t) ==
  /\ IsIntend(s) => IsMore(t) \/ IsLess(t)
  /\ IsDrop(s) => ~IsAdd(t) /\ (IsDrop(t) => s.what # t.what)
  /\ IsAdd(s) /\ IsAdd(t) => PlaceOf(s.what) < PlaceOf(t.what)
InOrder(q) == \A i, j \in DOMAIN q : i < j => Before(q[i], q[j])

\* No key is left with a column that has gone.
Aside(ks, names) == \A n \in names : \A k \in ks : n \notin k.columns
KeysAside(ks, q) ==
  \A s \in Range(q) : IsIntend(s) =>
    \A n \in s.what : Drops(q, n) \/ \A k \in ks : n \notin k.columns

\* What is left of altering a table, and of replacing or creating one.
Altering(cols, opts, items, ks, q) ==
  /\ IsSeq(q) /\ ColumnsFit(cols, q) /\ OptionsFit(opts, q) /\ SearchFits(items, q)
  /\ StatementsFit(cols, q) /\ InOrder(q) /\ KeysAside(ks, q)
  /\ \E n \in 0..Len(bp.columns) : PlacesFit(cols, n) /\ AddsFit(n, q)
Fills(r) ==
  /\ IsSeq(r) /\ SearchFits({}, r)
  /\ \A t \in Range(r) : IsMore(t) /\ t.what \subseteq WantedItems /\ t.what # {}
Rebuilding(q) ==
  \E s, r : /\ Splits(q, s, r) /\ IsRebuild(s)
            /\ Fills(r) \/ \E b, i : r = b \o << i >> /\ IsIntend(i) /\ Fills(b)

-----------------------------------------------------------------------------
(* The statements of an alteration, one by one.                            *)

InScene == scenario \in Scenarios /\ inv \in DOMAIN scenario.commands

\* The declared columns by name and place.
LEMMA Declarations ==
  ASSUME InScene
  PROVE  /\ HaveNames(bp.columns) /\ Len(bp.columns) \in Nat \ {0}
         /\ DOMAIN bp.columns = 1..Len(bp.columns)
         /\ \A m \in DOMAIN bp.columns :
              /\ bp.columns[m] \in ColumnRecords /\ bp.columns[m].name \in Names(bp.columns)
              /\ ColumnOf(bp.columns, bp.columns[m].name) = bp.columns[m]
              /\ PlaceOf(bp.columns[m]) = m
         /\ \A n \in Names(bp.columns) : \E m \in DOMAIN bp.columns : bp.columns[m].name = n
<1>1. /\ bp.columns \in Seq(ColumnRecords) /\ bp.columns # << >>
      /\ \A i, j \in DOMAIN bp.columns : bp.columns[i].name = bp.columns[j].name => i = j
  BY BlueprintIsSound DEF InScene
<1>2. HaveNames(bp.columns)
  BY <1>1, SeqWithin DEF HaveNames
<1>3. \A m \in DOMAIN bp.columns :
        /\ bp.columns[m] \in ColumnRecords /\ bp.columns[m].name \in Names(bp.columns)
        /\ ColumnOf(bp.columns, bp.columns[m].name) = bp.columns[m]
        /\ PlaceOf(bp.columns[m]) = m
  BY <1>1, <1>2, ColumnByName, NamesAre DEF PlaceOf
<1> QED
  BY <1>1, <1>2, <1>3, NamesAre

\* What is in a sequence that splits, and where.
LEMMA SplitIs ==
  ASSUME NEW q, NEW s, NEW r, Splits(q, s, r)
  PROVE  /\ IsSeq(q) /\ IsSeq(r) /\ s \in Range(q) /\ Range(r) \subseteq Range(q)
         /\ \A x \in Range(q) : x = s \/ x \in Range(r)
         /\ Len(q) \in Nat /\ DOMAIN q = 1..Len(q) /\ 1 \in DOMAIN q /\ q[1] = s
         /\ DOMAIN r = 1..(Len(q) - 1) /\ \A i \in 1..(Len(q) - 1) : r[i] = q[i + 1]
<1>1. IsSeq(q) /\ q # << >> /\ s = Head(q) /\ r = Tail(q)
  BY DEF Splits
<1>2. /\ s = q[1] /\ s \in Range(q) /\ IsSeq(r) /\ Range(r) \subseteq Range(q) /\ Len(r) = Len(q) - 1
      /\ \A i \in 1..(Len(q) - 1) : r[i] = q[i + 1]
  BY <1>1, HeadTail
<1>3. \A x \in Range(q) : x = s \/ x \in Range(r)
  BY <1>1, RangeOfTail
<1>4. Len(q) \in Nat /\ DOMAIN q = 1..Len(q)
  BY <1>1, SeqElim
<1>5. Len(q) # 0
  <2>1. PICK i \in DOMAIN q : s = q[i]
    BY <1>2 DEF Range
  <2> QED
    BY <1>4, <2>1
<1>6. DOMAIN r = 1..(Len(q) - 1)
  BY <1>2, SeqElim
<1> QED
  BY <1>1, <1>2, <1>3, <1>4, <1>5, <1>6

\* What splits also does with more at its end.
LEMMA SplitOfJoin ==
  ASSUME NEW a, NEW s, NEW b, Splits(a, s, b), NEW t, IsSeq(t)
  PROVE  Splits(a \o t, s, b \o t)
<1> DEFINE T == Range(a) \cup Range(t)
           q == a \o t
           r == b \o t
           m == Len(a)
           n == Len(t)
<1>1. /\ IsSeq(a) /\ IsSeq(b) /\ Range(b) \subseteq Range(a) /\ m \in Nat \ {0} /\ a[1] = s
      /\ DOMAIN b = 1..(m - 1) /\ \A i \in 1..(m - 1) : b[i] = a[i + 1]
  BY SplitIs
<1>2. a \in Seq(T) /\ b \in Seq(T) /\ t \in Seq(T)
  BY <1>1, SeqIn
<1>3. Len(b) = m - 1 /\ n \in Nat
  BY <1>1, SeqElim
<1> HIDE DEF T, m, n
<1>4. /\ Len(q) = m + n /\ \A i \in 1..m : q[i] = a[i]
      /\ \A i \in 1..n : q[i + m] = t[i]
  BY <1>2, JoinAt DEF m, n
<1>5. /\ Len(r) = (m - 1) + n /\ \A i \in 1..(m - 1) : r[i] = b[i]
      /\ \A i \in 1..n : r[i + (m - 1)] = t[i]
  <2>1. /\ Len(r) = Len(b) + n /\ \A i \in 1..Len(b) : r[i] = b[i]
        /\ \A i \in 1..n : r[i + Len(b)] = t[i]
    BY <1>2, JoinAt DEF n
  <2> HIDE DEF r
  <2> QED
    BY <1>3, <2>1
<1>6. IsSeq(q) /\ IsSeq(r) /\ q # << >>
  <2>1. Len(<< >>) = 0
    BY EmptyIsSeq
  <2> QED
    BY <1>1, <1>3, <1>4, <2>1, JoinIsSeq
<1> HIDE DEF q, r
<1>7. /\ Head(q) = q[1] /\ IsSeq(Tail(q)) /\ Len(Tail(q)) = Len(q) - 1
      /\ \A i \in 1..(Len(q) - 1) : Tail(q)[i] = q[i + 1]
  BY <1>6, HeadTail
<1>8. Head(q) = s
  BY <1>1, <1>4, <1>7
<1>9. Tail(q) = r
  <2> DEFINE u == Tail(q)
             k == (m - 1) + n
  <2>1. k \in Nat /\ Len(u) = k /\ \A i \in 1..k : u[i] = q[i + 1]
    BY <1>1, <1>3, <1>4, <1>7
  <2>2. ASSUME NEW i \in 1..k PROVE u[i] = r[i]
    <3>1. CASE i <= m - 1
      BY <1>1, <1>3, <1>4, <1>5, <2>1, <3>1
    <3>2. CASE ~(i <= m - 1)
      <4>1. i - (m - 1) \in 1..n
        BY <1>1, <1>3, <3>2
      <4>2. PICK j \in 1..n : i = j + (m - 1) /\ i + 1 = j + m
        BY <1>1, <4>1
      <4> QED
        BY <1>4, <1>5, <2>1, <4>2
    <3> QED
      BY <3>1, <3>2
  <2>3. u = [i \in 1..Len(u) |-> u[i]] /\ r = [i \in 1..Len(r) |-> r[i]]
    BY <1>6, <1>7, SeqElim
  <2> HIDE DEF u, k
  <2>4. u = [i \in 1..k |-> u[i]] /\ r = [i \in 1..k |-> r[i]]
    BY <1>5, <2>1, <2>3 DEF k
  <2>5. u = r
    BY <2>2, <2>4
  <2> QED
    BY <2>5 DEF u
<1>10. Splits(q, s, r)
  BY <1>6, <1>8, <1>9 DEF Splits
<1> QED
  BY <1>10 DEF q, r

\* What is asked for is asked for first or afterwards.
LEMMA AskedLater ==
  ASSUME NEW q, NEW s, NEW r, Splits(q, s, r), NEW w
  PROVE  /\ Modifies(q, w) => (IsModify(s) /\ s.what = w) \/ Modifies(r, w)
         /\ Drops(q, w) => (IsDrop(s) /\ s.what = w) \/ Drops(r, w)
         /\ Adds(q, w) => (IsAdd(s) /\ s.what = w) \/ Adds(r, w)
         /\ Sets(q, w) => (IsSet(s) /\ s.what = w) \/ Sets(r, w)
<1>1. \A x \in Range(q) : x = s \/ x \in Range(r)
  BY SplitIs
<1> QED
  BY <1>1 DEF Modifies, Drops, Adds, Sets

\* A statement does one thing.
LEMMA OneKind ==
  ASSUME NEW s
  PROVE  /\ IsModify(s) => ~IsDrop(s) /\ ~IsAdd(s) /\ ~IsSet(s) /\ ~IsMore(s) /\ ~IsLess(s) /\ ~IsIntend(s)
         /\ IsDrop(s) => ~IsAdd(s) /\ ~IsSet(s) /\ ~IsMore(s) /\ ~IsLess(s) /\ ~IsIntend(s)
         /\ IsAdd(s) => ~IsSet(s) /\ ~IsMore(s) /\ ~IsLess(s) /\ ~IsIntend(s)
         /\ IsSet(s) => ~IsMore(s) /\ ~IsLess(s) /\ ~IsIntend(s)
         /\ IsMore(s) => ~IsLess(s) /\ ~IsIntend(s)
         /\ IsLess(s) => ~IsIntend(s)
  BY DEF IsModify, IsDrop, IsAdd, IsSet, IsMore, IsLess, IsIntend

\* What there is in a sequence to which something is appended.
LEMMA AppendedAre ==
  ASSUME NEW s, IsSeq(s), NEW x
  PROVE  /\ IsSeq(Append(s, x)) /\ Len(s) \in Nat /\ DOMAIN s = 1..Len(s)
         /\ DOMAIN Append(s, x) = 1..(Len(s) + 1)
         /\ \A i \in DOMAIN s : Append(s, x)[i] = s[i]
         /\ Append(s, x)[Len(s) + 1] = x
         /\ Range(Append(s, x)) = Range(s) \cup {x}
<1> DEFINE T == Range(s) \cup {x}
<1>1. s \in Seq(T) /\ x \in T
  BY SeqIn
<1>2. Len(s) \in Nat /\ DOMAIN s = 1..Len(s)
  BY SeqElim
<1> HIDE DEF T
<1>3. /\ Append(s, x) \in Seq(T) /\ Len(Append(s, x)) = Len(s) + 1
      /\ \A i \in 1..Len(s) : Append(s, x)[i] = s[i]
      /\ Append(s, x)[Len(s) + 1] = x
  <2>1. ASSUME NEW S, NEW r \in Seq(S), NEW y \in S
        PROVE  /\ Append(r, y) \in Seq(S) /\ Len(Append(r, y)) = Len(r) + 1
               /\ \A i \in 1..Len(r) : Append(r, y)[i] = r[i]
               /\ Append(r, y)[Len(r) + 1] = y
    OBVIOUS
  <2> QED
    BY <1>1, <2>1
<1>4. IsSeq(Append(s, x)) /\ DOMAIN Append(s, x) = 1..(Len(s) + 1)
  <2>1. IsSeq(Append(s, x))
    BY <1>3, SeqWithin
  <2>2. DOMAIN Append(s, x) = 1..Len(Append(s, x))
    BY <2>1, SeqElim
  <2> QED
    BY <1>3, <2>1, <2>2
<1>5. Range(Append(s, x)) = Range(s) \cup {x}
  <2>1. ASSUME NEW y \in Range(s) PROVE y \in Range(Append(s, x))
    <3>1. PICK i \in DOMAIN s : y = s[i]
      BY DEF Range
    <3>2. i \in DOMAIN Append(s, x) /\ Append(s, x)[i] = y
      BY <1>2, <1>3, <1>4, <3>1
    <3> QED
      BY <3>2 DEF Range
  <2>2. Len(s) + 1 \in DOMAIN Append(s, x)
    BY <1>2, <1>4
  <2>3. x \in Range(Append(s, x))
    BY <1>3, <2>2 DEF Range
  <2>4. Range(Append(s, x)) \subseteq T
    BY <1>3, SeqWithin
  <2> QED
    BY <2>1, <2>3, <2>4 DEF T
<1> QED
  BY <1>2, <1>3, <1>4, <1>5

\* A column that the first statement is not about still fits.
LEMMA FitsLater ==
  ASSUME NEW q, NEW s, NEW r, Splits(q, s, r), NEW c, ColumnFits(c, q),
         IsDrop(s) => s.what # c.name,
         IsModify(s) => \A a \in Altered : s.what # Change(c.name, a)
  PROVE  ColumnFits(c, r)
<1>1. CASE c.name \notin Names(bp.columns)
  <2>1. Drops(q, c.name)
    BY <1>1 DEF ColumnFits
  <2>2. Drops(r, c.name)
    BY <2>1, AskedLater, OneKind
  <2> QED
    BY <1>1, <2>2 DEF ColumnFits
<1>2. CASE c.name \in Names(bp.columns)
  <2> DEFINE new == ColumnOf(bp.columns, c.name)
  <2>1. c.collate = new.collate /\ \A a \in Altered : c[a] = new[a] \/ Modifies(q, Change(c.name, a))
    BY <1>2 DEF ColumnFits
  <2>2. ASSUME NEW a \in Altered, c[a] # new[a] PROVE Modifies(r, Change(c.name, a))
    <3>1. Modifies(q, Change(c.name, a))
      BY <2>1, <2>2
    <3> QED
      BY <3>1, AskedLater, OneKind
  <2> QED
    BY <1>2, <2>1, <2>2 DEF ColumnFits
<1> QED
  BY <1>1, <1>2

\* What is changed of a column, and into what.
LEMMA ChangeIs ==
  ASSUME NEW n, NEW a
  PROVE  /\ Change(n, a).name = n /\ Change(n, a).attribute = a
         /\ Change(n, a).value = ColumnOf(bp.columns, n)[a]
  BY DEF Change, Modify

\* MODIFY COLUMN makes an attribute as declared.
LEMMA ModifyFits ==
  ASSUME InScene, AreSound(columns), NEW q, NEW s, NEW r, Splits(q, s, r), ColumnsFit(columns, q),
         StatementsFit(columns, q), IsModify(s)
  PROVE  /\ IsLegal(s) /\ ColumnsFit(ColumnsAfter(s), r)
         /\ IsSeq(ColumnsAfter(s)) /\ DOMAIN ColumnsAfter(s) = DOMAIN columns
         /\ \A i \in DOMAIN columns :
              /\ ColumnsAfter(s)[i].name = columns[i].name
              /\ ColumnsAfter(s)[i].expression = columns[i].expression
<1> DEFINE new == ColumnsAfter(s)
<1>1. StatementFits(columns, s)
  BY SplitIs DEF StatementsFit
<1>2. PICK n \in Names(bp.columns) \cap Names(columns), a \in Altered : s.what = Change(n, a)
  BY <1>1 DEF StatementFits
<1> DEFINE v == ColumnOf(bp.columns, n)[a]
<1>3. s.what.name = n /\ s.what.attribute = a /\ s.what.value = v
  <2>1. Change(n, a).name = n
    BY ChangeIs
  <2>2. Change(n, a).attribute = a
    <3>1. \A m : Change(m, a).attribute = a
      BY ChangeIs
    <3> QED
      BY <3>1
  <2>3. Change(n, a).value = v
    <3>1. \A m : Change(m, a).value = ColumnOf(bp.columns, m)[a]
      BY ChangeIs
    <3> QED
      BY <3>1
  <2> QED
    BY <1>2, <2>1, <2>2, <2>3
<1>4. IsLegal(s)
  BY <1>1, <1>3 DEF IsLegal, IsModify
<1>5. new = [i \in DOMAIN columns |-> IF columns[i].name # n THEN columns[i]
                                      ELSE [columns[i] EXCEPT ![a] = v]]
  BY <1>1, <1>3 DEF ColumnsAfter, IsModify
<1>6. IsSeq(columns) /\ Len(columns) \in Nat /\ DOMAIN columns = 1..Len(columns)
  BY SeqElim DEF AreSound, HaveNames
<1> HIDE DEF new, v
<1>7. IsSeq(new) /\ DOMAIN new = DOMAIN columns
  BY <1>5, <1>6, SeqIntro
<1>8. ASSUME NEW i \in DOMAIN columns
      PROVE  /\ new[i].name = columns[i].name /\ new[i].expression = columns[i].expression
             /\ ColumnFits(new[i], r)
  <2>1. DOMAIN columns[i] = LiveAttributes /\ ColumnFits(columns[i], q)
    BY DEF AreSound, ColumnsFit, Range
  <2>2. CASE columns[i].name # n
    <3>1. new[i] = columns[i]
      BY <1>5, <2>2
    <3>2. \A b \in Altered : Change(columns[i].name, b).name = columns[i].name
      BY DEF Change, Modify
    <3>3. \A b \in Altered : s.what # Change(columns[i].name, b)
      BY <1>3, <2>2, <3>2
    <3>4. ColumnFits(columns[i], r)
      BY <2>1, <3>3, FitsLater, OneKind
    <3> QED
      BY <3>1, <3>4
  <2>3. CASE columns[i].name = n
    <3> DEFINE old == columns[i]
               decl == ColumnOf(bp.columns, n)
    <3>1. new[i] = [old EXCEPT ![a] = v]
      BY <1>5, <2>3
    <3>2. new[i][a] = v /\ \A b \in LiveAttributes \ {a} : new[i][b] = old[b]
      BY <2>1, <3>1 DEF Altered, LiveAttributes, Attributes
    <3>3. new[i].name = n /\ new[i].collate = old.collate /\ new[i].expression = old.expression
      BY <2>3, <3>2 DEF Altered, LiveAttributes, Attributes
    <3>4. old.collate = decl.collate
          /\ \A b \in Altered : old[b] = decl[b] \/ Modifies(q, Change(n, b))
      BY <1>2, <2>1, <2>3 DEF ColumnFits
    <3>5. ASSUME NEW b \in Altered, new[i][b] # decl[b]
          PROVE  Modifies(r, Change(n, b))
      <4>1. b # a
        BY <3>2, <3>5 DEF v
      <4>2. new[i][b] = old[b]
        BY <3>2, <4>1 DEF Altered, LiveAttributes, Attributes
      <4>3. Modifies(q, Change(n, b))
        BY <3>4, <3>5, <4>2
      <4>4. Change(n, b).attribute = b
        BY DEF Change, Modify
      <4>5. s.what # Change(n, b)
        BY <1>3, <4>1, <4>4
      <4> QED
        BY <1>1, <4>3, <4>5, AskedLater
    <3> HIDE DEF decl
    <3>6. ColumnFits(new[i], r)
      BY <1>2, <3>3, <3>4, <3>5 DEF ColumnFits, decl
    <3> QED
      BY <2>3, <3>3, <3>6
  <2> QED
    BY <2>2, <2>3
<1>9. ColumnsFit(new, r)
  BY <1>7, <1>8 DEF ColumnsFit, Range
<1> QED
  BY <1>1, <1>4, <1>7, <1>8, <1>9 DEF new

\* What comes first comes before the others, and they stay in order.
LEMMA RestInOrder ==
  ASSUME NEW q, NEW s, NEW r, Splits(q, s, r), InOrder(q)
  PROVE  InOrder(r) /\ \A t \in Range(r) : Before(s, t)
<1> DEFINE n == Len(q)
<1>1. /\ n \in Nat /\ DOMAIN q = 1..n /\ 1 \in DOMAIN q /\ q[1] = s
      /\ DOMAIN r = 1..(n - 1) /\ \A i \in 1..(n - 1) : r[i] = q[i + 1]
  BY SplitIs
<1> HIDE DEF n
<1>3. ASSUME NEW i \in DOMAIN r, NEW j \in DOMAIN r, i < j PROVE Before(r[i], r[j])
  <2>1. i + 1 \in DOMAIN q /\ j + 1 \in DOMAIN q /\ i + 1 < j + 1
    BY <1>1, <1>3
  <2>2. Before(q[i + 1], q[j + 1])
    BY <2>1 DEF InOrder
  <2> QED
    BY <1>1, <2>2
<1>4. ASSUME NEW t \in Range(r) PROVE Before(s, t)
  <2>1. PICK i \in DOMAIN r : t = r[i]
    BY DEF Range
  <2>2. i + 1 \in DOMAIN q /\ 1 < i + 1
    BY <1>1
  <2>3. Before(q[1], q[i + 1])
    BY <1>1, <2>2 DEF InOrder
  <2> QED
    BY <1>1, <2>1, <2>3
<1> QED
  BY <1>3, <1>4 DEF InOrder

\* Columns that are to be added are added later, unless the first one is.
LEMMA AddedLater ==
  ASSUME NEW q, NEW s, NEW r, Splits(q, s, r), NEW n, AddsFit(n, q), ~IsAdd(s)
  PROVE  AddsFit(n, r)
<1>1. Range(r) \subseteq Range(q)
  BY SplitIs
<1>2. ASSUME NEW m \in (n + 1)..Len(bp.columns) PROVE Adds(r, Addition(m))
  <2>1. Adds(q, Addition(m))
    BY DEF AddsFit
  <2> QED
    BY <2>1, AskedLater, OneKind
<1> QED
  BY <1>1, <1>2 DEF AddsFit

\* The name of a column to be added.
LEMMA AdditionIs ==
  ASSUME InScene, NEW m \in DOMAIN bp.columns
  PROVE  /\ DOMAIN Addition(m) = Attributes /\ Addition(m).name = bp.columns[m].name
         /\ \A a \in Attributes \ {"expression"} : Addition(m)[a] = bp.columns[m][a]
         /\ PlaceOf(Addition(m)) = m
<1> DEFINE c == bp.columns[m]
<1>1. c \in ColumnRecords /\ PlaceOf(c) = m
  BY Declarations
<1>2. DOMAIN c = Attributes
  BY <1>1, ColumnDomain
<1>3. Addition(m) = [c EXCEPT !.expression = None]
  BY DEF Addition
<1> HIDE DEF c
<1>4. DOMAIN Addition(m) = Attributes
      /\ \A a \in Attributes \ {"expression"} : Addition(m)[a] = c[a]
  BY <1>2, <1>3
<1>5. Addition(m).name = c.name
  BY <1>4 DEF Attributes
<1> QED
  BY <1>1, <1>4, <1>5 DEF c, PlaceOf

\* DROP COLUMN drops one that is there and not declared, and never the last one:
\* all that are declared are there by then.
LEMMA DropFits ==
  ASSUME InScene, AreSound(columns), NEW q, NEW s, NEW r, Splits(q, s, r), ColumnsFit(columns, q),
         StatementsFit(columns, q), InOrder(q), IsDrop(s),
         NEW n \in 0..Len(bp.columns), PlacesFit(columns, n), AddsFit(n, q)
  PROVE  /\ IsLegal(s) /\ ColumnsFit(ColumnsAfter(s), r)
         /\ Names(ColumnsAfter(s)) = Names(columns) \ {s.what}
         /\ Range(ColumnsAfter(s)) \subseteq Range(columns)
         /\ PlacesFit(ColumnsAfter(s), n) /\ AddsFit(n, r)
<1> DEFINE p == PositionOf(columns, s.what)
           new == ColumnsAfter(s)
           L == Len(columns)
           N == Len(bp.columns)
<1>1. StatementFits(columns, s)
  BY SplitIs DEF StatementsFit
<1>2. HaveNames(columns) /\ IsSeq(columns) /\ L \in Nat /\ DOMAIN columns = 1..L
  BY SeqElim DEF AreSound, HaveNames
<1>17. N \in Nat \ {0} /\ n \in 0..N /\ DOMAIN bp.columns = 1..N
  BY Declarations
<1>3. s.what \in Names(columns) /\ s.what \notin Names(bp.columns)
  BY <1>1 DEF StatementFits
<1>4. PICK k \in DOMAIN columns : columns[k].name = s.what
  BY <1>3, NamesAre
<1>5. p = k
  BY <1>2, <1>4, ColumnByName
<1>6. new = RemoveAt(columns, k)
  BY <1>5 DEF ColumnsAfter, IsDrop
<1> HIDE DEF p, new
<1>7. /\ IsSeq(new) /\ DOMAIN new = 1..(L - 1)
      /\ \A i \in 1..(L - 1) : new[i] = IF i < k THEN columns[i] ELSE columns[i + 1]
  BY <1>2, <1>6, RemoveIsSeq
<1>18. \A m \in (n + 1)..N : Adds(q, Addition(m))
  BY DEF AddsFit
<1> HIDE DEF L, N
<1>8. n = N
  <2>2. ASSUME n # N PROVE FALSE
    <3>1. n + 1 \in (n + 1)..N
      BY <1>17, <2>2
    <3>2. Adds(q, Addition(n + 1))
      BY <1>18, <3>1
    <3>3. Adds(r, Addition(n + 1))
      BY <3>2, AskedLater, OneKind
    <3>4. PICK t \in Range(r) : IsAdd(t)
      BY <3>3 DEF Adds
    <3>5. Before(s, t)
      BY RestInOrder
    <3> QED
      BY <3>4, <3>5 DEF Before
  <2> QED
    BY <2>2
<1>9. IsLegal(s)
  <2>1. bp.columns[1].name \in Names(columns) /\ bp.columns[1].name \in Names(bp.columns)
    <3>1. 1 \in 1..n /\ 1 \in DOMAIN bp.columns
      BY <1>8, <1>17
    <3> QED
      BY <3>1, Declarations DEF PlacesFit
  <2>2. PICK i \in DOMAIN columns : columns[i].name = bp.columns[1].name
    BY <2>1, NamesAre
  <2>3. i # k
    BY <1>3, <1>4, <2>1, <2>2
  <2>4. L > 1
    BY <1>2, <1>4, <2>2, <2>3
  <2> QED
    BY <1>3, <2>4 DEF IsLegal, L, IsDrop
<1>10. ASSUME NEW i \in DOMAIN new
       PROVE  \E j \in DOMAIN columns : new[i] = columns[j] /\ j # k /\ j = (IF i < k THEN i ELSE i + 1)
  BY <1>2, <1>7
<1>11. ASSUME NEW i \in DOMAIN new
       PROVE  new[i] \in Range(columns) /\ new[i].name # s.what /\ ColumnFits(new[i], r)
  <2>1. PICK j \in DOMAIN columns : new[i] = columns[j] /\ j # k
    BY <1>10
  <2>2. columns[j].name # s.what /\ columns[j] \in Range(columns)
    BY <1>2, <1>4, <2>1 DEF HaveNames, Range
  <2>3. ColumnFits(columns[j], q)
    BY <2>2 DEF ColumnsFit
  <2>4. ColumnFits(columns[j], r)
    BY <2>2, <2>3, FitsLater, OneKind
  <2> QED
    BY <2>1, <2>2, <2>4
<1>12. ColumnsFit(new, r) /\ Range(new) \subseteq Range(columns)
  BY <1>11 DEF ColumnsFit, Range
<1>13. ASSUME NEW c \in Range(columns), c.name # s.what PROVE c \in Range(new)
  <2>1. PICK j \in DOMAIN columns : c = columns[j]
    BY DEF Range
  <2>2. j # k
    BY <1>4, <1>13, <2>1
  <2>3. CASE j < k
    <3>1. j \in DOMAIN new /\ new[j] = columns[j]
      BY <1>2, <1>7, <2>3
    <3> QED
      BY <2>1, <3>1 DEF Range
  <2>4. CASE j > k
    <3>1. j - 1 \in DOMAIN new /\ ~(j - 1 < k) /\ j - 1 + 1 = j
      BY <1>2, <1>7, <2>4
    <3>2. new[j - 1] = columns[j]
      BY <1>7, <3>1
    <3> QED
      BY <2>1, <3>1, <3>2 DEF Range
  <2> QED
    BY <1>2, <2>2, <2>3, <2>4
<1>14. ASSUME NEW m PROVE m \in Names(new) <=> m \in Names(columns) /\ m # s.what
  <2>1. ASSUME m \in Names(new) PROVE m \in Names(columns) /\ m # s.what
    <3>1. PICK i \in DOMAIN new : new[i].name = m
      BY <2>1, NamesAre
    <3>2. PICK j \in DOMAIN columns : new[i] = columns[j]
      BY <1>10
    <3> QED
      BY <1>11, <3>1, <3>2, NamesAre
  <2>2. ASSUME m \in Names(columns), m # s.what PROVE m \in Names(new)
    <3>1. PICK j \in DOMAIN columns : columns[j].name = m
      BY <2>2, NamesAre
    <3>2. columns[j] \in Range(columns)
      BY DEF Range
    <3>3. columns[j] \in Range(new)
      BY <1>13, <2>2, <3>1, <3>2
    <3>4. PICK i \in DOMAIN new : new[i] = columns[j]
      BY <3>3 DEF Range
    <3> QED
      BY <3>1, <3>4, NamesAre
  <2> QED
    BY <2>1, <2>2
<1>15. PlacesFit(new, n)
  <2>1. ASSUME NEW m \in 1..n PROVE bp.columns[m].name \in Names(new)
    <3>1. bp.columns[m].name \in Names(columns)
      BY DEF PlacesFit
    <3>2. bp.columns[m].name \in Names(bp.columns)
      BY <1>8, <1>17, Declarations
    <3> QED
      BY <1>3, <1>14, <3>1, <3>2
  <2>2. ASSUME NEW i \in DOMAIN new, new[i].name \in Names(bp.columns) PROVE PlaceOf(new[i]) <= n
    BY <1>10, <2>2 DEF PlacesFit
  <2>3. ASSUME NEW i \in DOMAIN new, NEW j \in DOMAIN new, i < j,
               new[i].name \in Names(bp.columns), new[j].name \in Names(bp.columns)
        PROVE  PlaceOf(new[i]) < PlaceOf(new[j])
    <3>1. PICK i1 \in DOMAIN columns : new[i] = columns[i1] /\ i1 = (IF i < k THEN i ELSE i + 1)
      BY <1>10
    <3>2. PICK j1 \in DOMAIN columns : new[j] = columns[j1] /\ j1 = (IF j < k THEN j ELSE j + 1)
      BY <1>10
    <3>3. i1 < j1
      BY <1>2, <1>7, <2>3, <3>1, <3>2
    <3> QED
      BY <2>3, <3>1, <3>2, <3>3 DEF PlacesFit
  <2> QED
    BY <2>1, <2>2, <2>3 DEF PlacesFit
<1>16. AddsFit(n, r)
  BY AddedLater, OneKind
<1> QED
  BY <1>1, <1>9, <1>12, <1>14, <1>15, <1>16 DEF new

\* What the rows hold is no attribute of a column.
LEMMA FilledIs ==
  ASSUME NEW c, DOMAIN c = Attributes, NEW rows
  PROVE  \A a \in Attributes : Filled(c, rows)[a] = c[a]
<1>1. \A a \in Attributes : a # "data" /\ a \in DOMAIN c \cup {"data"}
  BY DEF Attributes
<1> QED
  BY <1>1 DEF Filled

\* A column with the declared attributes fits.
LEMMA DeclaredFits ==
  ASSUME InScene, NEW m \in DOMAIN bp.columns, NEW c, NEW q,
         \A a \in Attributes \ {"expression"} : c[a] = bp.columns[m][a]
  PROVE  c.name = bp.columns[m].name /\ PlaceOf(c) = m /\ ColumnFits(c, q)
<1> DEFINE d == bp.columns[m]
<1>1. c.name = d.name /\ c.collate = d.collate /\ \A a \in Altered : c[a] = d[a]
  BY DEF Attributes, Altered
<1>2. d.name \in Names(bp.columns) /\ ColumnOf(bp.columns, d.name) = d /\ PlaceOf(d) = m
  BY Declarations
<1> HIDE DEF d
<1>3. ColumnFits(c, q)
  BY <1>1, <1>2 DEF ColumnFits
<1>4. PlaceOf(c) = m
  BY <1>1, <1>2 DEF PlaceOf
<1> QED
  BY <1>1, <1>3, <1>4 DEF d

\* ADD COLUMN adds the next one in order, under a name that is new.
LEMMA AddFits ==
  ASSUME InScene, AreSound(columns), NEW q, NEW s, NEW r, Splits(q, s, r), ColumnsFit(columns, q),
         InOrder(q), IsAdd(s), NEW n \in 0..Len(bp.columns), PlacesFit(columns, n), AddsFit(n, q)
  PROVE  /\ IsLegal(s) /\ ColumnsFit(ColumnsAfter(s), r)
         /\ Names(columns) \subseteq Names(ColumnsAfter(s))
         /\ n + 1 \in 0..Len(bp.columns)
         /\ PlacesFit(ColumnsAfter(s), n + 1) /\ AddsFit(n + 1, r)
<1> DEFINE N == Len(bp.columns)
           L == Len(columns)
           c == Filled(s.what, IF s.what.default # None THEN "default" ELSE "null")
           new == ColumnsAfter(s)
<1>1. N \in Nat \ {0} /\ n \in 0..N /\ DOMAIN bp.columns = 1..N
  BY Declarations
<1>2. /\ \A t \in Range(q) : IsAdd(t) => \E m \in (n + 1)..N : t.what = Addition(m)
      /\ \A m \in (n + 1)..N : Adds(q, Addition(m))
  BY DEF AddsFit
<1>3. s \in Range(q) /\ Range(r) \subseteq Range(q)
  BY SplitIs
<1>4. HaveNames(columns) /\ IsSeq(columns)
  BY DEF AreSound, HaveNames
<1>5. new = Append(columns, c)
  BY DEF ColumnsAfter, IsAdd
<1>6. /\ IsSeq(new) /\ L \in Nat /\ DOMAIN columns = 1..L /\ DOMAIN new = 1..(L + 1)
      /\ \A i \in DOMAIN columns : new[i] = columns[i]
      /\ new[L + 1] = c /\ Range(new) = Range(columns) \cup {c}
  BY <1>4, <1>5, AppendedAre
<1> HIDE DEF N, L, new
<1>7. \A m \in (n + 1)..N : m \in DOMAIN bp.columns
  BY <1>1
<1>8. PICK k \in (n + 1)..N : s.what = Addition(k)
  BY <1>2, <1>3
<1>9. k \in DOMAIN bp.columns /\ PlaceOf(s.what) = k /\ n + 1 \in (n + 1)..N
  BY <1>1, <1>7, <1>8, AdditionIs
<1>10. k = n + 1
  <2>1. ASSUME k # n + 1 PROVE FALSE
    <3>1. Adds(q, Addition(n + 1)) /\ PlaceOf(Addition(n + 1)) = n + 1
      BY <1>2, <1>7, <1>9, AdditionIs
    <3>2. s.what # Addition(n + 1)
      BY <1>9, <2>1, <3>1
    <3>3. Adds(r, Addition(n + 1))
      BY <3>1, <3>2, AskedLater
    <3>4. PICK t \in Range(r) : IsAdd(t) /\ t.what = Addition(n + 1)
      BY <3>3 DEF Adds
    <3>5. PlaceOf(s.what) < PlaceOf(t.what)
      BY <3>4, RestInOrder DEF Before
    <3> QED
      BY <1>1, <1>8, <1>9, <2>1, <3>1, <3>4, <3>5
  <2> QED
    BY <2>1
<1>11. /\ DOMAIN s.what = Attributes /\ s.what.name = bp.columns[k].name
       /\ \A a \in Attributes \ {"expression"} : s.what[a] = bp.columns[k][a]
  BY <1>8, <1>9, AdditionIs
<1>12. \A a \in Attributes \ {"expression"} : c[a] = bp.columns[k][a]
  BY <1>11, FilledIs
<1> HIDE DEF c
<1>13. c.name = bp.columns[k].name /\ PlaceOf(c) = k /\ ColumnFits(c, r)
  BY <1>9, <1>12, DeclaredFits
<1>14. bp.columns[k].name \in Names(bp.columns)
  BY <1>9, Declarations
<1>15. IsLegal(s)
  <2>1. ASSUME s.what.name \in Names(columns) PROVE FALSE
    <3>1. PICK i \in DOMAIN columns : columns[i].name = s.what.name
      BY <2>1, NamesAre
    <3>2. columns[i].name \in Names(bp.columns) /\ PlaceOf(columns[i]) = k
      BY <1>11, <1>13, <1>14, <3>1 DEF PlaceOf
    <3>3. PlaceOf(columns[i]) <= n
      BY <3>2 DEF PlacesFit
    <3> QED
      BY <1>1, <1>10, <3>2, <3>3
  <2> QED
    BY <2>1 DEF IsLegal, IsAdd
<1>16. ColumnsFit(new, r)
  <2>1. ASSUME NEW x \in Range(columns) PROVE ColumnFits(x, r)
    <3>1. ColumnFits(x, q)
      BY DEF ColumnsFit
    <3> QED
      BY <3>1, FitsLater, OneKind
  <2> QED
    BY <1>6, <1>13, <2>1 DEF ColumnsFit
<1>17. ASSUME NEW m PROVE m \in Names(new) <=> m \in Names(columns) \/ m = c.name
  <2>1. ASSUME m \in Names(new) PROVE m \in Names(columns) \/ m = c.name
    <3>1. PICK i \in DOMAIN new : new[i].name = m
      BY <2>1, NamesAre
    <3>2. i \in DOMAIN columns \/ i = L + 1
      BY <1>6
    <3> QED
      BY <1>6, <3>1, <3>2, NamesAre
  <2>2. ASSUME m \in Names(columns) PROVE m \in Names(new)
    <3>1. PICK i \in DOMAIN columns : columns[i].name = m
      BY <2>2, NamesAre
    <3>2. i \in DOMAIN new
      BY <1>6
    <3> QED
      BY <1>6, <3>1, <3>2, NamesAre
  <2>3. c.name \in Names(new)
    <3>1. L + 1 \in DOMAIN new
      BY <1>6
    <3> QED
      BY <1>6, <3>1, NamesAre
  <2> QED
    BY <2>1, <2>2, <2>3
<1>18. PlacesFit(new, n + 1)
  <2>1. ASSUME NEW m \in 1..(n + 1) PROVE bp.columns[m].name \in Names(new)
    <3>1. m \in 1..n \/ m = k
      BY <1>1, <1>10
    <3>2. m \in 1..n => bp.columns[m].name \in Names(columns)
      BY DEF PlacesFit
    <3> QED
      BY <1>13, <1>17, <3>1, <3>2
  <2>2. ASSUME NEW i \in DOMAIN columns, columns[i].name \in Names(bp.columns)
        PROVE  PlaceOf(columns[i]) <= n
    BY <2>2 DEF PlacesFit
  <2>3. ASSUME NEW i \in DOMAIN new, new[i].name \in Names(bp.columns) PROVE PlaceOf(new[i]) <= n + 1
    <3>1. CASE i = L + 1
      BY <1>1, <1>6, <1>10, <1>13, <3>1
    <3>2. CASE i # L + 1
      <4>1. i \in DOMAIN columns /\ new[i] = columns[i]
        BY <1>6, <3>2
      <4>2. PlaceOf(columns[i]) <= n /\ PlaceOf(columns[i]) \in DOMAIN bp.columns
        BY <2>2, <2>3, <4>1, Declarations DEF PlaceOf
      <4> QED
        BY <1>1, <4>1, <4>2
    <3> QED
      BY <3>1, <3>2
  <2>4. ASSUME NEW i \in DOMAIN new, NEW j \in DOMAIN new, i < j,
               new[i].name \in Names(bp.columns), new[j].name \in Names(bp.columns)
        PROVE  PlaceOf(new[i]) < PlaceOf(new[j])
    <3>1. i \in DOMAIN columns /\ new[i] = columns[i]
      BY <1>6, <2>4
    <3>2. PlaceOf(new[i]) <= n /\ PlaceOf(new[i]) \in DOMAIN bp.columns
      BY <2>2, <2>4, <3>1, Declarations DEF PlaceOf
    <3>3. CASE j = L + 1
      BY <1>1, <1>6, <1>10, <1>13, <3>2, <3>3
    <3>4. CASE j # L + 1
      <4>1. j \in DOMAIN columns /\ new[j] = columns[j]
        BY <1>6, <3>4
      <4> QED
        BY <2>4, <3>1, <4>1 DEF PlacesFit
    <3> QED
      BY <3>3, <3>4
  <2> QED
    BY <2>1, <2>3, <2>4 DEF PlacesFit
<1>19. AddsFit(n + 1, r)
  <2>1. ASSUME NEW t \in Range(r), IsAdd(t) PROVE \E m \in (n + 1 + 1)..N : t.what = Addition(m)
    <3>1. PICK m \in (n + 1)..N : t.what = Addition(m)
      BY <1>2, <1>3, <2>1
    <3>2. PlaceOf(s.what) < PlaceOf(t.what) /\ PlaceOf(t.what) = m
      BY <1>7, <2>1, <3>1, RestInOrder, AdditionIs DEF Before
    <3>3. m \in (n + 1 + 1)..N
      BY <1>1, <1>9, <1>10, <3>2
    <3> QED
      BY <3>1, <3>3
  <2>2. ASSUME NEW m \in (n + 1 + 1)..N PROVE Adds(r, Addition(m))
    <3>1. m \in (n + 1)..N /\ m # k
      BY <1>1, <1>10
    <3>2. Adds(q, Addition(m)) /\ PlaceOf(Addition(m)) = m
      BY <1>2, <1>7, <3>1, AdditionIs
    <3>3. s.what # Addition(m)
      BY <1>9, <3>1, <3>2
    <3> QED
      BY <3>2, <3>3, AskedLater
  <2> QED
    BY <2>1, <2>2 DEF AddsFit, N
<1>20. n + 1 \in 0..N
  BY <1>1, <1>9
<1> QED
  BY <1>15, <1>16, <1>17, <1>18, <1>19, <1>20 DEF new, N

\* What a statement changes besides the columns, and what it leaves alone.
LEMMA Effects ==
  ASSUME NEW s
  PROVE  /\ IsModify(s) \/ IsAdd(s) =>
              OptionsAfter(s) = options /\ SearchAfter(s) = search /\ KeysAfter(s) = keys
         /\ IsDrop(s) => /\ OptionsAfter(s) = options /\ SearchAfter(s) = search
                         /\ KeysAfter(s) = {k \in keys : s.what \notin k.columns}
         /\ IsSet(s) \/ IsMore(s) \/ IsLess(s) \/ IsIntend(s) =>
              ColumnsAfter(s) = columns /\ KeysAfter(s) = keys /\ IsLegal(s)
         /\ IsSet(s) => /\ OptionsAfter(s) = [options EXCEPT ![s.what.option] = s.what.value]
                        /\ SearchAfter(s) = search
         /\ IsMore(s) => OptionsAfter(s) = options /\ SearchAfter(s) = search \cup s.what
         /\ IsLess(s) => OptionsAfter(s) = options /\ SearchAfter(s) = search \ s.what
         /\ IsIntend(s) => OptionsAfter(s) = options /\ SearchAfter(s) = search
<1>1. IsModify(s) \/ IsAdd(s) =>
        OptionsAfter(s) = options /\ SearchAfter(s) = search /\ KeysAfter(s) = keys
  BY DEF IsModify, IsAdd, OptionsAfter, SearchAfter, KeysAfter
<1>2. IsDrop(s) => /\ OptionsAfter(s) = options /\ SearchAfter(s) = search
                   /\ KeysAfter(s) = {k \in keys : s.what \notin k.columns}
  BY DEF IsDrop, OptionsAfter, SearchAfter, KeysAfter
<1>3. IsSet(s) \/ IsMore(s) \/ IsLess(s) \/ IsIntend(s) =>
        ColumnsAfter(s) = columns /\ KeysAfter(s) = keys /\ IsLegal(s)
  BY DEF IsSet, IsMore, IsLess, IsIntend, ColumnsAfter, KeysAfter, IsLegal
<1>4. IsSet(s) => /\ OptionsAfter(s) = [options EXCEPT ![s.what.option] = s.what.value]
                  /\ SearchAfter(s) = search
  BY DEF IsSet, OptionsAfter, SearchAfter
<1>5. /\ IsMore(s) => OptionsAfter(s) = options /\ SearchAfter(s) = search \cup s.what
      /\ IsLess(s) => OptionsAfter(s) = options /\ SearchAfter(s) = search \ s.what
      /\ IsIntend(s) => OptionsAfter(s) = options /\ SearchAfter(s) = search
  BY DEF IsMore, IsLess, IsIntend, OptionsAfter, SearchAfter
<1> QED
  BY <1>1, <1>2, <1>3, <1>4, <1>5

\* The rest finds the columns it names, if only what is dropped goes.
LEMMA RestFits ==
  ASSUME NEW q, NEW s, NEW r, Splits(q, s, r), StatementsFit(columns, q), InOrder(q), NEW cols,
         \A m \in Names(columns) : m \in Names(cols) \/ (IsDrop(s) /\ m = s.what)
  PROVE  StatementsFit(cols, r)
<1>1. s \in Range(q) /\ Range(r) \subseteq Range(q)
  BY SplitIs
<1>2. StatementFits(columns, s)
  BY <1>1 DEF StatementsFit
<1>3. IsDrop(s) => s.what \notin Names(bp.columns)
  BY <1>2 DEF StatementFits
<1>4. ASSUME NEW t \in Range(r) PROVE StatementFits(cols, t)
  <2>1. StatementFits(columns, t) /\ Before(s, t)
    BY <1>1, RestInOrder DEF StatementsFit
  <2>2. IsModify(t) => \E n \in Names(bp.columns) \cap Names(cols), a \in Altered : t.what = Change(n, a)
    <3>1. ASSUME IsModify(t)
          PROVE  \E n \in Names(bp.columns) \cap Names(cols), a \in Altered : t.what = Change(n, a)
      <4>1. PICK n \in Names(bp.columns) \cap Names(columns), a \in Altered : t.what = Change(n, a)
        BY <2>1, <3>1 DEF StatementFits
      <4>2. n \in Names(cols)
        BY <1>3, <4>1
      <4> QED
        BY <4>1, <4>2
    <3> QED
      BY <3>1
  <2>3. IsDrop(t) => t.what \in Names(cols) \ Names(bp.columns)
    <3>1. IsDrop(t) => t.what \in Names(columns) \ Names(bp.columns)
      BY <2>1 DEF StatementFits
    <3>2. IsDrop(s) /\ IsDrop(t) => s.what # t.what
      BY <2>1 DEF Before
    <3> QED
      BY <3>1, <3>2
  <2> QED
    BY <2>1, <2>2, <2>3 DEF StatementFits
<1> QED
  BY <1>4 DEF StatementsFit

AllOptions == Options \cup {"is_transient"}

\* SET makes an option as declared.
LEMMA OptionsLater ==
  ASSUME NEW q, NEW s, NEW r, Splits(q, s, r), OptionsFit(options, q), NEW cols,
         StatementFits(cols, s), DOMAIN options = AllOptions
  PROVE  OptionsFit(OptionsAfter(s), r) /\ DOMAIN OptionsAfter(s) = AllOptions
<1>1. CASE ~IsSet(s)
  <2>1. OptionsAfter(s) = options
    BY <1>1, Effects DEF StatementFits
  <2>2. ASSUME NEW o \in Options, ~OptionIs(options, o) PROVE Sets(r, SetOption(o))
    <3>1. Sets(q, SetOption(o))
      BY <2>2 DEF OptionsFit
    <3> QED
      BY <1>1, <3>1, AskedLater
  <2> QED
    BY <2>1, <2>2 DEF OptionsFit
<1>2. CASE IsSet(s)
  <2>1. PICK o \in Options : s.what = SetOption(o)
    BY <1>2 DEF StatementFits
  <2>2. \A p : SetOption(p).option = p /\ SetOption(p).value = bp.options[p]
    BY DEF SetOption
  <2>3. s.what.option = o /\ s.what.value = bp.options[o]
    BY <2>1, <2>2
  <2>4. OptionsAfter(s) = [options EXCEPT ![o] = bp.options[o]]
    BY <1>2, <2>3, Effects
  <2> DEFINE new == OptionsAfter(s)
             v == bp.options[o]
  <2>5. new = [options EXCEPT ![o] = v]
    BY <2>4
  <2>6. o \in AllOptions /\ o # "is_transient" /\ "is_transient" \in AllOptions
    BY DEF Options, AllOptions
  <2> HIDE DEF new, v
  <2>7. DOMAIN new = AllOptions /\ new[o] = v /\ \A p \in AllOptions \ {o} : new[p] = options[p]
    BY <2>5, <2>6
  <2>8. new.is_transient = bp.options.is_transient
    BY <2>6, <2>7 DEF OptionsFit
  <2>9. ASSUME NEW p \in Options, ~OptionIs(new, p) PROVE Sets(r, SetOption(p))
    <3>1. p # o
      BY <2>7, <2>9 DEF OptionIs, v
    <3>2. new[p] = options[p]
      BY <2>7, <3>1 DEF AllOptions
    <3>3. ~OptionIs(options, p)
      BY <2>9, <3>2 DEF OptionIs
    <3>4. Sets(q, SetOption(p))
      BY <3>3 DEF OptionsFit
    <3>5. s.what # SetOption(p)
      BY <2>2, <2>3, <3>1
    <3> QED
      BY <3>4, <3>5, AskedLater
  <2> QED
    BY <2>7, <2>8, <2>9 DEF OptionsFit, new
<1> QED
  BY <1>1, <1>2

\* Of search what is wanted is added, and what is not is dropped.
LEMMA SearchLater ==
  ASSUME NEW q, NEW s, NEW r, Splits(q, s, r), SearchFits(search, q), NEW cols,
         StatementFits(cols, s), search \subseteq SearchItems
  PROVE  SearchFits(SearchAfter(s), r)
<1> DEFINE new == SearchAfter(s)
<1>1. /\ IsLess(s) => new = search \ s.what /\ s.what \cap WantedItems = {}
      /\ IsMore(s) => new = search \cup s.what /\ s.what # {} /\ s.what \subseteq WantedItems
      /\ ~IsLess(s) /\ ~IsMore(s) => new = search
  BY Effects DEF StatementFits
<1> HIDE DEF new
<1>2. ~(IsLess(s) /\ IsMore(s)) /\ \A x \in Range(q) : x = s \/ x \in Range(r)
  BY OneKind, SplitIs
<1>3. ASSUME NEW i \in new \ WantedItems PROVE \E t \in Range(r) : IsLess(t) /\ i \in t.what
  <2>1. i \in search /\ ~(IsLess(s) /\ i \in s.what)
    BY <1>1
  <2>2. PICK t \in Range(q) : IsLess(t) /\ i \in t.what
    BY <1>3, <2>1 DEF SearchFits
  <2> QED
    BY <1>2, <2>1, <2>2
<1>4. ASSUME bp.search # {"yes"}, NEW i \in WantedItems \ new
      PROVE  \E t \in Range(r) : IsMore(t) /\ i \in t.what
  <2>1. i \notin search /\ ~(IsMore(s) /\ i \in s.what)
    BY <1>1, <1>4
  <2>2. PICK t \in Range(q) : IsMore(t) /\ i \in t.what
    BY <1>4, <2>1 DEF SearchFits
  <2> QED
    BY <1>2, <2>1, <2>2
<1>5. ASSUME bp.search = {"yes"}, new = {} PROVE \E t \in Range(r) : IsMore(t)
  <2>1. WantedItems = SearchItems
    BY <1>5 DEF WantedItems
  <2>2. ~IsMore(s)
    BY <1>1, <1>5
  <2>3. search = {}
    BY <1>1, <1>5, <2>1, <2>2
  <2>4. PICK t \in Range(q) : IsMore(t)
    BY <1>5, <2>3 DEF SearchFits
  <2> QED
    BY <1>2, <2>2, <2>4
<1> QED
  BY <1>3, <1>4, <1>5 DEF SearchFits, new

\* With a column its keys go.
LEMMA KeysLater ==
  ASSUME NEW q, NEW s, NEW r, Splits(q, s, r), KeysAside(keys, q), NEW cols,
         StatementFits(cols, s), InOrder(q)
  PROVE  /\ KeysAside(KeysAfter(s), r) /\ KeysAfter(s) \subseteq keys
         /\ IsIntend(s) => Aside(keys, s.what)
<1> DEFINE new == KeysAfter(s)
<1>1. new \subseteq keys /\ (IsDrop(s) => \A k \in new : s.what \notin k.columns)
  BY Effects DEF StatementFits
<1> HIDE DEF new
<1>2. s \in Range(q) /\ Range(r) \subseteq Range(q)
  BY SplitIs
<1>3. ASSUME NEW t \in Range(r), IsIntend(t), NEW n \in t.what
      PROVE  Drops(r, n) \/ \A k \in new : n \notin k.columns
  <2>1. Drops(q, n) \/ \A k \in keys : n \notin k.columns
    BY <1>2, <1>3 DEF KeysAside
  <2>2. Drops(q, n) => (IsDrop(s) /\ s.what = n) \/ Drops(r, n)
    BY AskedLater
  <2> QED
    BY <1>1, <2>1, <2>2
<1>4. ASSUME IsIntend(s) PROVE Aside(keys, s.what)
  <2>1. ASSUME NEW n \in s.what PROVE \A k \in keys : n \notin k.columns
    <3>1. Drops(q, n) \/ \A k \in keys : n \notin k.columns
      BY <1>2, <1>4 DEF KeysAside
    <3>2. ~Drops(r, n)
      <4>1. ASSUME NEW t \in Range(r), IsDrop(t) PROVE FALSE
        <5>1. IsMore(t) \/ IsLess(t)
          BY <1>4, RestInOrder DEF Before
        <5> QED
          BY <4>1, <5>1, OneKind
      <4> QED
        BY <4>1 DEF Drops
    <3> QED
      BY <1>4, <3>1, <3>2, AskedLater, OneKind
  <2> QED
    BY <2>1 DEF Aside
<1> QED
  BY <1>1, <1>3, <1>4 DEF KeysAside, new

\* Under the same names columns have the same places.
LEMMA SamePlaces ==
  ASSUME NEW cols, NEW new, DOMAIN new = DOMAIN cols, \A i \in DOMAIN cols : new[i].name = cols[i].name,
         NEW n
  PROVE  Names(new) = Names(cols) /\ (PlacesFit(cols, n) => PlacesFit(new, n))
<1>1. ASSUME NEW m PROVE m \in Names(new) <=> m \in Names(cols)
  BY NamesAre
<1>2. \A i \in DOMAIN cols : PlaceOf(new[i]) = PlaceOf(cols[i])
  BY DEF PlaceOf
<1>3. Names(new) = Names(cols)
  BY <1>1
<1>4. ASSUME PlacesFit(cols, n) PROVE PlacesFit(new, n)
  <2>1. \A m \in 1..n : bp.columns[m].name \in Names(new)
    BY <1>3, <1>4 DEF PlacesFit
  <2>2. \A i \in DOMAIN new : new[i].name \in Names(bp.columns) => PlaceOf(new[i]) <= n
    BY <1>2, <1>4 DEF PlacesFit
  <2>3. ASSUME NEW i \in DOMAIN new, NEW j \in DOMAIN new, i < j,
               {new[i].name, new[j].name} \subseteq Names(bp.columns)
        PROVE  PlaceOf(new[i]) < PlaceOf(new[j])
    <3>1. {cols[i].name, cols[j].name} \subseteq Names(bp.columns)
      BY <2>3
    <3>2. PlaceOf(cols[i]) < PlaceOf(cols[j])
      BY <1>4, <2>3, <3>1 DEF PlacesFit
    <3> QED
      BY <1>2, <3>2
  <2> QED
    BY <2>1, <2>2, <2>3 DEF PlacesFit
<1> QED
  BY <1>3, <1>4

\* Expressions are as declared, and no column is to be added without.
Exact(cols) ==
  \A c \in Range(cols) : c.name \in Names(bp.columns) => c.expression = ColumnOf(bp.columns, c.name).expression
AddsNone(q) == \A s \in Range(q) : ~IsAdd(s)

\* One statement of an alteration.
LEMMA AlterationGoesOn ==
  ASSUME InScene, AreSound(columns), search \subseteq SearchItems, DOMAIN options = AllOptions,
         NEW q, NEW s, NEW r, Splits(q, s, r), Altering(columns, options, search, keys, q)
  PROVE  /\ IsLegal(s) /\ DOMAIN OptionsAfter(s) = AllOptions /\ KeysAfter(s) \subseteq keys
         /\ Altering(ColumnsAfter(s), OptionsAfter(s), SearchAfter(s), KeysAfter(s), r)
         /\ IsIntend(s) => /\ Aside(keys, s.what) /\ Altering(columns, options, search, keys, r)
         /\ Exact(columns) /\ AddsNone(q) => Exact(ColumnsAfter(s)) /\ AddsNone(r)
<1> DEFINE new == ColumnsAfter(s)
<1>1. /\ ColumnsFit(columns, q) /\ OptionsFit(options, q) /\ SearchFits(search, q)
      /\ StatementsFit(columns, q) /\ InOrder(q) /\ KeysAside(keys, q)
  BY DEF Altering
<1>2. PICK n \in 0..Len(bp.columns) : PlacesFit(columns, n) /\ AddsFit(n, q)
  BY DEF Altering
<1>3. StatementFits(columns, s) /\ IsSeq(r) /\ s \in Range(q) /\ Range(r) \subseteq Range(q)
  BY <1>1, SplitIs DEF StatementsFit
<1>4. OptionsFit(OptionsAfter(s), r) /\ DOMAIN OptionsAfter(s) = AllOptions
  BY <1>1, <1>3, OptionsLater
<1>5. SearchFits(SearchAfter(s), r)
  BY <1>1, <1>3, SearchLater
<1>6. /\ KeysAside(KeysAfter(s), r) /\ KeysAfter(s) \subseteq keys
      /\ IsIntend(s) => Aside(keys, s.what)
  BY <1>1, <1>3, KeysLater
<1>7. InOrder(r)
  BY <1>1, RestInOrder
<1>8. /\ IsLegal(s) /\ ColumnsFit(new, r)
      /\ \E m \in 0..Len(bp.columns) : PlacesFit(new, m) /\ AddsFit(m, r)
      /\ \A m \in Names(columns) : m \in Names(new) \/ (IsDrop(s) /\ m = s.what)
      /\ Exact(columns) /\ AddsNone(q) => Exact(new)
  <2> HIDE DEF new
  <2>1. CASE IsModify(s)
    <3>1. /\ IsLegal(s) /\ ColumnsFit(new, r) /\ DOMAIN new = DOMAIN columns
          /\ \A i \in DOMAIN columns : new[i].name = columns[i].name /\ new[i].expression = columns[i].expression
      BY <1>1, <2>1, ModifyFits DEF new
    <3>2. AddsFit(n, r)
      BY <1>2, <2>1, AddedLater, OneKind
    <3>3. PlacesFit(new, n) /\ Names(new) = Names(columns)
      BY <1>2, <3>1, SamePlaces
    <3>4. ASSUME Exact(columns) PROVE Exact(new)
      <4>1. ASSUME NEW i \in DOMAIN new, new[i].name \in Names(bp.columns)
            PROVE  new[i].expression = ColumnOf(bp.columns, new[i].name).expression
        BY <3>1, <3>4, <4>1 DEF Exact, Range
      <4> QED
        BY <4>1 DEF Exact, Range
    <3> QED
      BY <3>1, <3>2, <3>3, <3>4
  <2>2. CASE IsDrop(s)
    <3>1. /\ IsLegal(s) /\ ColumnsFit(new, r) /\ Names(new) = Names(columns) \ {s.what}
          /\ Range(new) \subseteq Range(columns) /\ PlacesFit(new, n) /\ AddsFit(n, r)
      BY <1>1, <1>2, <2>2, DropFits DEF new
    <3>2. Exact(columns) => Exact(new)
      BY <3>1 DEF Exact
    <3> QED
      BY <2>2, <3>1, <3>2
  <2>3. CASE IsAdd(s)
    <3>1. /\ IsLegal(s) /\ ColumnsFit(new, r) /\ Names(columns) \subseteq Names(new)
          /\ n + 1 \in 0..Len(bp.columns) /\ PlacesFit(new, n + 1) /\ AddsFit(n + 1, r)
      BY <1>1, <1>2, <2>3, AddFits DEF new
    <3>2. ~AddsNone(q)
      BY <1>3, <2>3 DEF AddsNone
    <3> QED
      BY <3>1, <3>2
  <2>4. CASE IsSet(s) \/ IsMore(s) \/ IsLess(s) \/ IsIntend(s)
    <3>1. new = columns /\ IsLegal(s)
      BY <2>4, Effects DEF new
    <3>2. ~IsModify(s) /\ ~IsDrop(s) /\ ~IsAdd(s)
      BY <2>4, OneKind
    <3>3. AddsFit(n, r)
      BY <1>2, <3>2, AddedLater
    <3>4. ColumnsFit(columns, r)
      <4>1. ASSUME NEW c \in Range(columns) PROVE ColumnFits(c, r)
        BY <1>1, <3>2, FitsLater DEF ColumnsFit
      <4> QED
        BY <4>1 DEF ColumnsFit
    <3> QED
      BY <1>2, <3>1, <3>3, <3>4
  <2> QED
    BY <1>3, <2>1, <2>2, <2>3, <2>4 DEF StatementFits
<1>9. StatementsFit(new, r)
  BY <1>1, <1>8, RestFits
<1>10. Altering(new, OptionsAfter(s), SearchAfter(s), KeysAfter(s), r)
  BY <1>3, <1>4, <1>5, <1>6, <1>7, <1>8, <1>9 DEF Altering
<1>11. ASSUME IsIntend(s) PROVE Altering(columns, options, search, keys, r)
  BY <1>10, <1>11, Effects
<1>12. AddsNone(q) => AddsNone(r)
  BY <1>3 DEF AddsNone
<1> QED
  BY <1>4, <1>6, <1>8, <1>10, <1>11, <1>12

\* A table that is created, or replaced, is as declared but for search and keys.
LEMMA RebuiltIsFilled ==
  ASSUME InScene, NEW s, IsRebuild(s), NEW r, Fills(r)
  PROVE  /\ IsLegal(s) /\ ~IsIntend(s) /\ DOMAIN OptionsAfter(s) = AllOptions
         /\ KeysAfter(s) = {} /\ SearchAfter(s) = {}
         /\ Altering(ColumnsAfter(s), OptionsAfter(s), SearchAfter(s), KeysAfter(s), r)
         /\ Exact(ColumnsAfter(s)) /\ AddsNone(r)
<1> DEFINE new == ColumnsAfter(s)
           opts == OptionsAfter(s)
           N == Len(bp.columns)
<1>1. /\ IsRebuild(s) /\ SearchFits({}, r)
      /\ \A t \in Range(r) : IsMore(t) /\ t.what \subseteq WantedItems /\ t.what # {}
  BY DEF Fills
<1>2. IsSeq(r)
  BY DEF Fills
<1>3. N \in Nat \ {0} /\ DOMAIN bp.columns = 1..N
  BY Declarations
<1>4. IsLegal(s) /\ ~IsIntend(s) /\ KeysAfter(s) = {} /\ SearchAfter(s) = {} /\ opts = OptionsOf(bp)
  BY <1>1 DEF IsRebuild, IsLegal, IsIntend, KeysAfter, SearchAfter, OptionsAfter
<1>5. \/ new = [i \in DOMAIN bp.columns |-> Filled(bp.columns[i], "new")]
      \/ new = [i \in DOMAIN bp.columns |-> CopyColumn(bp.columns[i])]
  BY <1>1 DEF IsRebuild, ColumnsAfter
<1>6. \A t \in Range(r) : /\ IsMore(t) /\ t.what \subseteq WantedItems /\ t.what # {}
                          /\ ~IsModify(t) /\ ~IsDrop(t) /\ ~IsAdd(t) /\ ~IsSet(t) /\ ~IsLess(t) /\ ~IsIntend(t)
  BY <1>1, OneKind
<1> HIDE DEF new, opts, N
<1>7. DOMAIN new = DOMAIN bp.columns
  BY <1>5
<1>8. ASSUME NEW i \in DOMAIN bp.columns PROVE \A a \in Attributes : new[i][a] = bp.columns[i][a]
  <2>1. DOMAIN bp.columns[i] = Attributes
    BY Declarations, ColumnDomain
  <2>2. \E rows : new[i] = Filled(bp.columns[i], rows)
    BY <1>5 DEF CopyColumn
  <2> QED
    BY <2>1, <2>2, FilledIs
<1>9. ASSUME NEW i \in DOMAIN bp.columns
      PROVE  /\ new[i].name = bp.columns[i].name /\ new[i].expression = bp.columns[i].expression
             /\ PlaceOf(new[i]) = i /\ ColumnFits(new[i], r)
  <2>1. \A a \in Attributes \ {"expression"} : new[i][a] = bp.columns[i][a]
    BY <1>8
  <2>2. new[i].expression = bp.columns[i].expression
    BY <1>8 DEF Attributes
  <2> QED
    BY <2>1, <2>2, DeclaredFits
<1>10. ColumnsFit(new, r)
  BY <1>7, <1>9 DEF ColumnsFit, Range
<1>11. Exact(new)
  <2>1. ASSUME NEW i \in DOMAIN new PROVE new[i].expression = ColumnOf(bp.columns, new[i].name).expression
    BY <1>7, <1>9, Declarations
  <2> QED
    BY <2>1 DEF Exact, Range
<1>12. AddsNone(r) /\ InOrder(r) /\ KeysAside(KeysAfter(s), r)
  <2>1. AddsNone(r) /\ KeysAside(KeysAfter(s), r)
    BY <1>6 DEF AddsNone, KeysAside
  <2>2. ASSUME NEW i \in DOMAIN r, NEW j \in DOMAIN r, i < j PROVE Before(r[i], r[j])
    <3>1. r[i] \in Range(r) /\ r[j] \in Range(r)
      BY DEF Range
    <3> QED
      BY <1>6, <3>1 DEF Before
  <2> QED
    BY <2>1, <2>2 DEF InOrder
<1>13. StatementsFit(new, r)
  BY <1>6 DEF StatementsFit, StatementFits
<1>14. DOMAIN opts = AllOptions /\ OptionsFit(opts, r)
  <2>1. bp \in BlueprintRecords
    BY BlueprintIsSound DEF InScene
  <2> DEFINE b == bp.options
  <2>2. b \in OptionRecords
    BY <2>1 DEF BlueprintRecords
  <2>3. DOMAIN b = AllOptions
    BY <2>2 DEF OptionRecords, AllOptions, Options
  <2>4. opts = [b EXCEPT !.retention = IF @ = AnyRetention THEN DefaultRetention ELSE @]
    BY <1>4 DEF OptionsOf
  <2> HIDE DEF b
  <2>5. "retention" \in AllOptions /\ "is_transient" \in AllOptions
    BY DEF AllOptions, Options
  <2>6. DOMAIN opts = AllOptions /\ \A o \in AllOptions \ {"retention"} : opts[o] = b[o]
    BY <2>3, <2>4, <2>5
  <2>7. opts.retention = IF b.retention = AnyRetention THEN DefaultRetention ELSE b.retention
    BY <2>3, <2>4, <2>5
  <2>8. opts.is_transient = b.is_transient
    BY <2>5, <2>6
  <2>9. \A o \in Options : b[o] = opts[o] \/ (o = "retention" /\ b[o] = AnyRetention)
    BY <2>6, <2>7 DEF AllOptions
  <2> QED
    BY <2>6, <2>8, <2>9 DEF OptionsFit, OptionIs, b
<1>15. PlacesFit(new, N) /\ AddsFit(N, r)
  <2>1. \A m \in 1..N : bp.columns[m].name \in Names(new)
    BY <1>3, <1>7, <1>9, NamesAre
  <2>2. PlacesFit(new, N)
    BY <1>3, <1>7, <1>9, <2>1 DEF PlacesFit
  <2>3. (N + 1)..N = {}
    BY <1>3
  <2> QED
    BY <1>6, <2>2, <2>3 DEF AddsFit, N
<1>16. N \in 0..N
  BY <1>3
<1>17. Altering(new, opts, SearchAfter(s), KeysAfter(s), r)
  BY <1>1, <1>2, <1>4, <1>10, <1>12, <1>13, <1>14, <1>15, <1>16 DEF Altering, N
<1> QED
  BY <1>4, <1>11, <1>12, <1>14, <1>17 DEF new, opts

-----------------------------------------------------------------------------
(* When nothing is left of an alteration.                                  *)

\* Columns are as declared, but maybe for what they are computed from.
ColumnsAsDeclared ==
  /\ Len(columns) = Len(bp.columns)
  /\ \A i \in DOMAIN columns : \A a \in Attributes \ {"expression"} : columns[i][a] = bp.columns[i][a]

\* That is what is said of the table after an apply.
LEMMA ExpressionsApart ==
  ASSUME InScene, AreSound(columns)
  PROVE  WithExpressions(bp) = bp.columns <=> ColumnsAsDeclared
<1> DEFINE Set(i) == [Definition(columns[i]) EXCEPT !.expression = bp.columns[i].expression]
           d == [i \in DOMAIN columns |-> IF i \in DOMAIN bp.columns THEN Set(i) ELSE Definition(columns[i])]
           N == Len(bp.columns)
           L == Len(columns)
<1>1. /\ L \in Nat /\ DOMAIN columns = 1..L /\ N \in Nat /\ DOMAIN bp.columns = 1..N
      /\ bp.columns = [i \in 1..N |-> bp.columns[i]]
      /\ \A i \in DOMAIN bp.columns : bp.columns[i] \in ColumnRecords
  BY Declarations, SeqElim DEF AreSound, HaveNames
<1>2. WithExpressions(bp) = d
  BY DEF WithExpressions
<1> HIDE DEF N, L
<1>3. ASSUME NEW i \in DOMAIN columns, i \in DOMAIN bp.columns
      PROVE  Set(i) = bp.columns[i]
               <=> \A a \in Attributes \ {"expression"} : columns[i][a] = bp.columns[i][a]
  <2> DEFINE c == columns[i]
             b == bp.columns[i]
             x == Definition(c)
  <2>1. DOMAIN c \ {"data"} = Attributes
    BY DEF AreSound, LiveAttributes, Attributes
  <2>2. x = [a \in Attributes |-> c[a]]
    BY <2>1 DEF Definition
  <2>3. b = [a \in Attributes |-> b[a]]
    BY <1>1, <1>3, ColumnIsItsAttributes
  <2> HIDE DEF c, b, x
  <2>4. [x EXCEPT !.expression = b.expression]
          = [a \in Attributes |-> IF a = "expression" THEN b[a] ELSE c[a]]
    BY <2>2
  <2>5. [x EXCEPT !.expression = b.expression] = b
          <=> \A a \in Attributes \ {"expression"} : c[a] = b[a]
    BY <2>3, <2>4
  <2> QED
    BY <2>5 DEF c, b, x
<1> HIDE DEF Set
<1>4. ASSUME d = bp.columns PROVE ColumnsAsDeclared
  <2>1. DOMAIN columns = DOMAIN bp.columns
    BY <1>4
  <2>2. L = N
    BY <1>1, <2>1
  <2>3. \A i \in DOMAIN columns : Set(i) = bp.columns[i]
    BY <1>4, <2>1
  <2> QED
    BY <1>3, <2>1, <2>2, <2>3 DEF ColumnsAsDeclared, L, N
<1>5. ASSUME ColumnsAsDeclared PROVE d = bp.columns
  <2>1. DOMAIN columns = DOMAIN bp.columns
    BY <1>1, <1>5 DEF ColumnsAsDeclared, L, N
  <2>2. \A i \in DOMAIN columns : Set(i) = bp.columns[i]
    BY <1>3, <1>5, <2>1 DEF ColumnsAsDeclared
  <2> QED
    BY <1>1, <2>1, <2>2
<1> QED
  BY <1>2, <1>4, <1>5

\* With the expressions columns are as declared altogether.
LEMMA ExpressionsComplete ==
  ASSUME InScene, AreSound(columns), ColumnsAsDeclared, Exact(columns)
  PROVE  [i \in DOMAIN columns |-> Definition(columns[i])] = bp.columns
<1>1. /\ DOMAIN columns = 1..Len(columns) /\ DOMAIN bp.columns = 1..Len(bp.columns)
  BY Declarations, SeqElim DEF AreSound, HaveNames
<1>2. DOMAIN columns = DOMAIN bp.columns
  BY <1>1 DEF ColumnsAsDeclared
<1>3. ASSUME NEW i \in DOMAIN columns PROVE SameColumn(columns[i], bp.columns[i])
  <2>1. \A a \in Attributes \ {"expression"} : columns[i][a] = bp.columns[i][a]
    BY DEF ColumnsAsDeclared
  <2>2. columns[i].name = bp.columns[i].name /\ columns[i] \in Range(columns)
    BY <2>1 DEF Attributes, Range
  <2>3. bp.columns[i].name \in Names(bp.columns)
        /\ ColumnOf(bp.columns, bp.columns[i].name) = bp.columns[i]
    BY <1>2, Declarations
  <2>4. columns[i].expression = bp.columns[i].expression
    BY <2>2, <2>3 DEF Exact
  <2> QED
    BY <2>1, <2>4 DEF SameColumn
<1>4. ColumnsInStep
  BY <1>3 DEF ColumnsInStep, ColumnsAsDeclared
<1> QED
  BY <1>4, DefinitionsAgree DEF InScene

\* An alteration of which nothing is left has made the table as declared.
LEMMA NothingIsLeft ==
  ASSUME InScene, AreSound(columns), search \subseteq SearchItems,
         Altering(columns, options, search, keys, << >>)
  PROVE  /\ ColumnsAsDeclared /\ Names(bp.columns) \subseteq Names(columns)
         /\ \A o \in DOMAIN bp.options : OptionInStep(bp, o)
         /\ SearchInStep(bp)
<1> DEFINE N == Len(bp.columns)
           L == Len(columns)
           f == [i \in 1..L |-> PlaceOf(columns[i])]
           g == [m \in 1..N |-> PositionOf(columns, bp.columns[m].name)]
<1>1. \A x : x \notin Range(<< >>)
  BY EmptyIsSeq
<1>2. /\ ColumnsFit(columns, << >>) /\ OptionsFit(options, << >>) /\ SearchFits(search, << >>)
  BY DEF Altering
<1>3. PICK n \in 0..N : PlacesFit(columns, n) /\ AddsFit(n, << >>)
  BY DEF Altering
<1>4. HaveNames(columns) /\ L \in Nat /\ DOMAIN columns = 1..L
  BY SeqElim DEF AreSound, HaveNames
<1>5. N \in Nat \ {0} /\ DOMAIN bp.columns = 1..N
  BY Declarations
<1>6. \A m \in (n + 1)..N : Adds(<< >>, Addition(m))
  BY <1>3 DEF AddsFit
<1> HIDE DEF N, L
<1>7. n = N
  <2>1. ASSUME n # N PROVE FALSE
    <3>1. n + 1 \in (n + 1)..N
      BY <1>5, <2>1
    <3>2. Adds(<< >>, Addition(n + 1))
      BY <1>6, <3>1
    <3> QED
      BY <1>1, <3>2 DEF Adds
  <2> QED
    BY <2>1
<1>8. ASSUME NEW i \in 1..L
      PROVE  /\ columns[i].name \in Names(bp.columns) /\ f[i] \in 1..N
             /\ bp.columns[f[i]].name = columns[i].name
             /\ columns[i].collate = bp.columns[f[i]].collate
             /\ \A a \in Altered : columns[i][a] = bp.columns[f[i]][a]
  <2>1. ColumnFits(columns[i], << >>)
    BY <1>2, <1>4 DEF ColumnsFit, Range
  <2>2. columns[i].name \in Names(bp.columns)
    BY <1>1, <2>1 DEF ColumnFits, Drops
  <2>3. PICK m \in DOMAIN bp.columns : bp.columns[m].name = columns[i].name
    BY <2>2, NamesAre
  <2>4. PlaceOf(columns[i]) = m /\ ColumnOf(bp.columns, columns[i].name) = bp.columns[m]
    BY <2>3, Declarations DEF PlaceOf
  <2>5. f[i] = m
    BY <2>4
  <2>6. columns[i].collate = bp.columns[m].collate /\ \A a \in Altered : columns[i][a] = bp.columns[m][a]
    BY <1>1, <2>1, <2>2, <2>4 DEF ColumnFits, Modifies
  <2> QED
    BY <1>5, <2>2, <2>3, <2>5, <2>6
<1>9. ASSUME NEW m \in 1..N PROVE g[m] \in 1..L /\ f[g[m]] = m /\ bp.columns[m].name \in Names(columns)
  <2>1. bp.columns[m].name \in Names(columns)
    BY <1>3, <1>7 DEF PlacesFit
  <2>2. PICK i \in DOMAIN columns : columns[i].name = bp.columns[m].name
    BY <2>1, NamesAre
  <2>3. g[m] = i
    BY <1>4, <2>2, ColumnByName
  <2>4. f[i] = m
    BY <1>4, <1>5, <2>2, Declarations DEF PlaceOf
  <2> QED
    BY <1>4, <2>1, <2>3, <2>4
<1>10. ASSUME NEW i \in 1..L, NEW j \in 1..L, i < j PROVE f[i] < f[j]
  <2>1. {columns[i].name, columns[j].name} \subseteq Names(bp.columns)
    BY <1>8
  <2> QED
    BY <1>3, <1>4, <1>10, <2>1 DEF PlacesFit
<1> HIDE DEF f, g
<1>11. L = N /\ \A i \in 1..L : f[i] = i
  <2>1. \A i \in 1..L : f[i] \in 1..N
    BY <1>8
  <2>2. \A k \in 1..N : g[k] \in 1..L /\ f[g[k]] = k
    BY <1>9
  <2>3. \A i, j \in 1..L : i < j => f[i] < f[j]
    BY <1>10
  <2>4. L \in Nat /\ N \in Nat
    BY <1>4, <1>5
  <2>5. Matches(f, g, L, N) /\ Increases(f, L)
    BY <2>1, <2>2, <2>3 DEF Matches, Increases
  <2> QED
    BY <2>4, <2>5, IncreasesOnto
<1>12. ColumnsAsDeclared
  <2>1. ASSUME NEW i \in DOMAIN columns, NEW a \in Attributes \ {"expression"}
        PROVE  columns[i][a] = bp.columns[i][a]
    <3>1. f[i] = i /\ i \in 1..L
      BY <1>4, <1>11
    <3>2. bp.columns[i].name = columns[i].name /\ columns[i].collate = bp.columns[i].collate
          /\ \A x \in Altered : columns[i][x] = bp.columns[i][x]
      BY <1>8, <3>1
    <3>3. a \in Altered \/ a = "name" \/ a = "collate"
      BY DEF Attributes, Altered
    <3> QED
      BY <3>2, <3>3
  <2> QED
    BY <1>11, <2>1 DEF ColumnsAsDeclared, L, N
<1>13. Names(bp.columns) \subseteq Names(columns)
  <2>1. ASSUME NEW m \in Names(bp.columns) PROVE m \in Names(columns)
    <3>1. PICK i \in DOMAIN bp.columns : bp.columns[i].name = m
      BY Declarations
    <3> QED
      BY <1>5, <1>9, <3>1
  <2> QED
    BY <2>1
<1>14. ASSUME NEW o \in DOMAIN bp.options PROVE OptionInStep(bp, o)
  <2>1. bp.options \in OptionRecords
    BY BlueprintIsSound DEF BlueprintRecords, InScene
  <2>2. o \in Options \/ o = "is_transient"
    BY <2>1 DEF OptionRecords, Options
  <2>3. CASE o \in Options
    <3>1. OptionIs(options, o)
      BY <1>1, <1>2, <2>3 DEF OptionsFit, Sets
    <3> QED
      BY <3>1 DEF OptionIs, OptionInStep
  <2>4. CASE o = "is_transient"
    BY <1>2, <2>4 DEF OptionsFit, OptionInStep
  <2> QED
    BY <2>2, <2>3, <2>4
<1>15. SearchInStep(bp)
  <2>1. /\ search \subseteq WantedItems
        /\ bp.search = {"yes"} => search # {}
        /\ bp.search # {"yes"} => WantedItems \subseteq search
    BY <1>1, <1>2 DEF SearchFits
  <2>2. CASE bp.search = {"no"}
    BY <2>1, <2>2 DEF WantedItems, SearchInStep
  <2>3. CASE bp.search = {"yes"} /\ bp.search # {"no"}
    BY <2>1, <2>3 DEF SearchInStep
  <2>4. CASE bp.search # {"yes"} /\ bp.search # {"no"}
    <3>1. WantedItems = bp.search
      BY <2>4 DEF WantedItems
    <3>2. search = bp.search
      BY <2>1, <2>4, <3>1
    <3> QED
      BY <2>4, <3>2 DEF SearchInStep
  <2>5. {"yes"} # {"no"}
    OBVIOUS
  <2> QED
    BY <2>2, <2>3, <2>4, <2>5
<1> QED
  BY <1>12, <1>13, <1>14, <1>15

-----------------------------------------------------------------------------
(* What a comparison asks for.                                             *)

\* The columns that remain, unless their order is a reason to replace the table,
\* are where the declared ones begin.
LEMMA RemainingFit ==
  ASSUME InScene, AreSound(columns), ~OrderChanged
  PROVE  /\ Cardinality(Remaining) \in 0..Len(bp.columns)
         /\ PlacesFit(columns, Cardinality(Remaining))
<1> DEFINE N == Len(bp.columns)
           L == Len(columns)
           n == Cardinality(Remaining)
           f == [i \in Remaining |-> PlaceOf(columns[i])]
<1>1. HaveNames(columns) /\ L \in Nat /\ DOMAIN columns = 1..L
  BY SeqElim DEF AreSound, HaveNames
<1>2. N \in Nat \ {0} /\ DOMAIN bp.columns = 1..N
  BY Declarations
<1> HIDE DEF N, L
<1>3. Remaining \subseteq 1..L /\ Remaining \subseteq Nat
  BY <1>1 DEF Remaining
<1>4. IsFiniteSet(Remaining)
  <2>1. IsFiniteSet(1..L)
    BY <1>1, IntervalSize
  <2> QED
    BY <1>3, <2>1, FS_Subset
<1>5. ASSUME NEW i \in Remaining
      PROVE  PlaceOf(columns[i]) \in 1..N /\ bp.columns[PlaceOf(columns[i])].name = columns[i].name
  <2>1. columns[i].name \in Names(bp.columns)
    BY DEF Remaining
  <2>2. PICK m \in DOMAIN bp.columns : bp.columns[m].name = columns[i].name
    BY <2>1, NamesAre
  <2>3. PlaceOf(columns[i]) = m
    BY <2>2, Declarations DEF PlaceOf
  <2> QED
    BY <1>2, <2>2, <2>3
<1>6. f \in [Remaining -> 1..N] /\ \A i \in Remaining : f[i] = PlaceOf(columns[i])
  BY <1>5
<1> HIDE DEF f
<1>7. ASSUME NEW i \in Remaining, NEW j \in Remaining, f[i] = f[j] PROVE i = j
  <2>1. columns[i].name = columns[j].name
    BY <1>5, <1>6, <1>7
  <2> QED
    BY <1>1, <1>3, <2>1 DEF HaveNames
<1>8. f \in Injection(Remaining, 1..N)
  BY <1>6, <1>7 DEF Injection, IsInjective
<1>9. n \in 0..N
  <2>1. IsFiniteSet(1..N) /\ Cardinality(1..N) = N
    BY <1>2, IntervalSize
  <2>2. n <= N /\ n \in Nat
    BY <1>4, <1>8, <2>1, FS_Injection, FS_CardinalityType
  <2> QED
    BY <1>2, <2>2
<1>10. \A i : Place(i) = Rank(Remaining, i)
  BY DEF Place, Rank
<1>11. /\ \A i \in Remaining : Place(i) \in 1..n
       /\ \A i, j \in Remaining : i < j => Place(i) < Place(j)
       /\ \A m \in 1..n : \E i \in Remaining : Place(i) = m
  <2>1. /\ \A i \in Remaining : Rank(Remaining, i) \in 1..n
        /\ \A i, j \in Remaining : i < j => Rank(Remaining, i) < Rank(Remaining, j)
        /\ \A m \in 1..n : \E i \in Remaining : Rank(Remaining, i) = m
    BY <1>3, <1>4, RanksAre
  <2> QED
    BY <1>10, <2>1
<1> HIDE DEF n
<1>12. ASSUME NEW i \in Remaining
       PROVE  PlaceOf(columns[i]) = Place(i) /\ bp.columns[Place(i)].name = columns[i].name
  <2>1. columns[i].name = bp.columns[Place(i)].name
    BY DEF OrderChanged
  <2>2. Place(i) \in DOMAIN bp.columns
    BY <1>2, <1>9, <1>11
  <2> QED
    BY <2>1, <2>2, Declarations DEF PlaceOf
<1>13. ASSUME NEW m \in 1..n PROVE bp.columns[m].name \in Names(columns)
  <2>1. PICK i \in Remaining : Place(i) = m
    BY <1>11
  <2> QED
    BY <1>1, <1>3, <1>12, <2>1, NamesAre
<1>14. ASSUME NEW i \in DOMAIN columns, columns[i].name \in Names(bp.columns)
       PROVE  i \in Remaining /\ PlaceOf(columns[i]) <= n
  <2>1. i \in Remaining
    BY <1>14 DEF Remaining
  <2> QED
    BY <1>9, <1>11, <1>12, <2>1
<1>15. ASSUME NEW i \in DOMAIN columns, NEW j \in DOMAIN columns, i < j,
              {columns[i].name, columns[j].name} \subseteq Names(bp.columns)
       PROVE  PlaceOf(columns[i]) < PlaceOf(columns[j])
  <2>1. i \in Remaining /\ j \in Remaining
    BY <1>14, <1>15
  <2> QED
    BY <1>11, <1>12, <1>15, <2>1
<1>16. PlacesFit(columns, n)
  BY <1>13, <1>14, <1>15 DEF PlacesFit
<1> QED
  BY <1>9, <1>16 DEF n, N

\* The pairs of a set of statements of which one may come before the other.
Sequel(S) == {z \in S \X S : Before(z[1], z[2])}

\* The order of the statements of an alteration, as an order of pairs.
LEMMA OrderIs ==
  ASSUME NEW q, IsSeq(q), NEW S, Range(q) \subseteq S
  PROVE  InOrder(q) <=> Ordered(q, Sequel(S))
<1>1. ASSUME NEW i \in DOMAIN q, NEW j \in DOMAIN q
      PROVE  Before(q[i], q[j]) <=> << q[i], q[j] >> \in Sequel(S)
  <2>1. q[i] \in S /\ q[j] \in S
    BY DEF Range
  <2> QED
    BY <2>1 DEF Sequel
<1> QED
  BY <1>1 DEF InOrder, Ordered

\* One sequence after another that all of it comes before.
LEMMA JoinInOrder ==
  ASSUME NEW p, IsSeq(p), NEW q, IsSeq(q), InOrder(p), InOrder(q),
         \A x \in Range(p), y \in Range(q) : Before(x, y)
  PROVE  InOrder(p \o q)
<1> DEFINE S == Range(p) \cup Range(q)
<1>1. Ordered(p, Sequel(S)) /\ Ordered(q, Sequel(S))
  BY OrderIs
<1>2. \A x \in Range(p), y \in Range(q) : << x, y >> \in Sequel(S)
  BY DEF Sequel
<1>3. Ordered(p \o q, Sequel(S))
  BY <1>1, <1>2, OrderedJoin
<1>4. IsSeq(p \o q) /\ Range(p \o q) = S
  BY JoinIsSeq
<1> HIDE DEF S
<1> QED
  BY <1>3, <1>4, OrderIs

\* Sequences one after another.
LEMMA FlattenInOrder ==
  ASSUME NEW ss, IsSeq(ss), \A i \in DOMAIN ss : IsSeq(ss[i]) /\ InOrder(ss[i]),
         \A i, j \in DOMAIN ss : i < j => \A x \in Range(ss[i]), y \in Range(ss[j]) : Before(x, y)
  PROVE  InOrder(FlattenSeq(ss))
<1> DEFINE S == Range(FlattenSeq(ss))
<1>1. IsSeq(FlattenSeq(ss)) /\ \A x : x \in S <=> \E i \in DOMAIN ss : x \in Range(ss[i])
  BY FlattenIsSeq
<1>2. \A i \in DOMAIN ss : Range(ss[i]) \subseteq S
  BY <1>1
<1>3. \A i \in DOMAIN ss : Ordered(ss[i], Sequel(S))
  BY <1>2, OrderIs
<1>4. \A i, j \in DOMAIN ss : i < j => \A x \in Range(ss[i]), y \in Range(ss[j]) : << x, y >> \in Sequel(S)
  BY <1>2 DEF Sequel
<1>5. Ordered(FlattenSeq(ss), Sequel(S))
  BY <1>3, <1>4, OrderedFlatten
<1> QED
  BY <1>1, <1>5, OrderIs

\* No statement or one.
LEMMA FewInOrder ==
  ASSUME NEW s
  PROVE  InOrder(<< s >>) /\ InOrder(<< >>)
  BY DEF InOrder

\* A statement that may not be needed.
LEMMA IfIs ==
  ASSUME NEW s, NEW c
  PROVE  /\ IsSeq(If(c, s)) /\ InOrder(If(c, s))
         /\ \A x : x \in Range(If(c, s)) <=> c /\ x = s
<1>1. CASE c
  <2>1. If(c, s) = << s >>
    BY <1>1 DEF If
  <2> QED
    BY <1>1, <2>1, FewInOrder, UnitIsSeq
<1>2. CASE ~c
  <2>1. If(c, s) = << >>
    BY <1>2 DEF If
  <2> QED
    BY <1>2, <2>1, FewInOrder, EmptyIsSeq
<1> QED
  BY <1>1, <1>2

\* What comes before everything.
LEMMA PlainBefore ==
  ASSUME NEW s, IsModify(s) \/ IsSet(s) \/ IsMore(s) \/ IsLess(s), NEW t
  PROVE  Before(s, t)
  BY OneKind DEF Before

\* What the statements of a comparison are.
LEMMA KindsAre ==
  ASSUME NEW x
  PROVE  /\ IsModify(Safe("modify column", x)) /\ Safe("modify column", x).what = x
         /\ IsModify(Unsafe("modify column", x)) /\ Unsafe("modify column", x).what = x
         /\ IsDrop(Unsafe("drop column", x)) /\ Unsafe("drop column", x).what = x
         /\ IsAdd(Safe("add column", x)) /\ Safe("add column", x).what = x
         /\ IsSet(Safe("set option", x)) /\ Safe("set option", x).what = x
         /\ IsSet(Unsafe("set option", x)) /\ Unsafe("set option", x).what = x
         /\ IsMore(Unsafe("add search", x)) /\ Unsafe("add search", x).what = x
         /\ IsMore(Gated("add search", x)) /\ Gated("add search", x).what = x
         /\ IsLess(Unsafe("drop search", x)) /\ Unsafe("drop search", x).what = x
         /\ IsIntend(Safe("intend", x)) /\ Safe("intend", x).what = x
         /\ IsRebuild(Safe("create", x)) /\ IsRebuild(Gated("replace", x))
  BY DEF IsModify, IsDrop, IsAdd, IsSet, IsMore, IsLess, IsIntend, IsRebuild, Safe, Unsafe, Gated

\* What differs of a declared column is asked for if that does not take a new table.
LEMMA SafeColumnIs ==
  ASSUME NEW old
  PROVE  LET q == SafeColumnAlters(old)
         IN  /\ IsSeq(q) /\ InOrder(q)
             /\ \A s \in Range(q) : /\ IsModify(s) /\ s.what = Change(old.name, "comment")
                                    /\ old.name \in Names(bp.columns)
             /\ old.name \in Names(bp.columns) =>
                  \/ old.comment = ColumnOf(bp.columns, old.name).comment
                  \/ Modifies(q, Change(old.name, "comment"))
<1> DEFINE new == ColumnOf(bp.columns, old.name)
           c == old.name \in Names(bp.columns) /\ old.comment # new.comment
           w == Change(old.name, "comment")
           s == Safe("modify column", w)
<1>1. w = Modify(old.name, "comment", new.comment)
  BY DEF Change
<1>2. SafeColumnAlters(old) = If(c, s)
  BY <1>1 DEF SafeColumnAlters
<1>3. IsModify(s) /\ s.what = w
  BY KindsAre
<1> HIDE DEF s, c
<1>4. /\ IsSeq(If(c, s)) /\ InOrder(If(c, s))
      /\ \A x : x \in Range(If(c, s)) <=> c /\ x = s
  BY IfIs
<1>5. c => Modifies(SafeColumnAlters(old), w)
  BY <1>2, <1>3, <1>4 DEF Modifies
<1> QED
  BY <1>2, <1>3, <1>4, <1>5 DEF c

\* What the comparison of one column asks for, and in which order, if it may lose data.
LEMMA UnsafeColumnIs ==
  ASSUME NEW old
  PROVE  LET q == UnsafeColumnAlters(old)
         IN  /\ IsSeq(q) /\ InOrder(q)
             /\ \A s \in Range(q) :
                  \/ IsDrop(s) /\ s.what = old.name /\ old.name \notin Names(bp.columns)
                  \/ /\ IsModify(s) /\ old.name \in Names(bp.columns)
                     /\ \E a \in Altered : s.what = Change(old.name, a)
             /\ old.name \notin Names(bp.columns) => Drops(q, old.name)
             /\ old.name \in Names(bp.columns) /\ ~ColumnReasons(old, ColumnOf(bp.columns, old.name)) =>
                  \A a \in {"not_null", "default", "type"} :
                    \/ old[a] = ColumnOf(bp.columns, old.name)[a]
                    \/ Modifies(q, Change(old.name, a))
<1> DEFINE n == old.name
           q == UnsafeColumnAlters(old)
           new == ColumnOf(bp.columns, n)
<1>1. CASE n \notin Names(bp.columns)
  <2> DEFINE s == Unsafe("drop column", n)
  <2>1. q = << s >>
    BY <1>1 DEF UnsafeColumnAlters
  <2>2. IsDrop(s) /\ s.what = n
    BY KindsAre
  <2> HIDE DEF s
  <2>3. IsSeq(<< s >>) /\ InOrder(<< s >>) /\ Range(<< s >>) = {s}
    BY UnitIsSeq, FewInOrder
  <2> HIDE DEF q
  <2>4. /\ IsSeq(q) /\ InOrder(q) /\ Drops(q, n)
        /\ \A x \in Range(q) : IsDrop(x) /\ x.what = n
    BY <2>1, <2>2, <2>3 DEF Drops
  <2> QED
    BY <1>1, <2>4 DEF q
<1>2. CASE n \in Names(bp.columns)
  <2> DEFINE Set(a) == Unsafe("modify column", Modify(n, a, new[a]))
             s1 == Set("not_null")
             s2 == Set("default")
             s3 == Set("type")
             c1 == old.not_null # new.not_null
             c2 == old.default # new.default /\ CanAlterDefault(old.default, new.default)
             c3 == old.type # new.type /\ CanAlterType(old.type, new.type)
             p == If(c1, s1)
             r == If(c2, s2)
             t == If(c3, s3)
  <2>1. q = p \o r \o t
    BY <1>2 DEF UnsafeColumnAlters
  <2>2. \A a : IsModify(Set(a)) /\ Set(a).what = Change(n, a)
    BY KindsAre DEF Change
  <2>3. /\ IsModify(s1) /\ s1.what = Change(n, "not_null")
        /\ IsModify(s2) /\ s2.what = Change(n, "default")
        /\ IsModify(s3) /\ s3.what = Change(n, "type")
    BY <2>2
  <2> HIDE DEF Set, s1, s2, s3
  <2>8. ~ColumnReasons(old, new) => /\ old.not_null = new.not_null \/ c1
                                    /\ old.default = new.default \/ c2
                                    /\ old.type = new.type \/ c3
    BY DEF ColumnReasons
  <2> HIDE DEF c1, c2, c3
  <2>4. /\ IsSeq(p) /\ InOrder(p) /\ (\A x : x \in Range(p) <=> c1 /\ x = s1)
        /\ IsSeq(r) /\ InOrder(r) /\ (\A x : x \in Range(r) <=> c2 /\ x = s2)
        /\ IsSeq(t) /\ InOrder(t) /\ (\A x : x \in Range(t) <=> c3 /\ x = s3)
    BY IfIs
  <2> HIDE DEF p, r, t
  <2>5. /\ IsSeq(p \o r) /\ InOrder(p \o r)
        /\ \A x : x \in Range(p \o r) <=> (c1 /\ x = s1) \/ (c2 /\ x = s2)
    <3>1. IsSeq(p \o r) /\ Range(p \o r) = Range(p) \cup Range(r)
      BY <2>4, JoinIsSeq
    <3>2. \A x \in Range(p), y \in Range(r) : Before(x, y)
      BY <2>3, <2>4, PlainBefore
    <3>3. InOrder(p \o r)
      BY <2>4, <3>2, JoinInOrder
    <3> QED
      BY <2>4, <3>1, <3>3
  <2>6. /\ IsSeq((p \o r) \o t) /\ InOrder((p \o r) \o t)
        /\ \A x : x \in Range((p \o r) \o t) <=> (c1 /\ x = s1) \/ (c2 /\ x = s2) \/ (c3 /\ x = s3)
    BY <2>3, <2>4, <2>5, JoinIsSeq, JoinInOrder, PlainBefore
  <2> HIDE DEF q
  <2>7. /\ c1 => Modifies(q, Change(n, "not_null"))
        /\ c2 => Modifies(q, Change(n, "default"))
        /\ c3 => Modifies(q, Change(n, "type"))
    BY <2>1, <2>3, <2>6 DEF Modifies
  <2>9. \A x \in Range(q) : IsModify(x) /\ \E a \in Altered : x.what = Change(n, a)
    BY <2>1, <2>3, <2>6 DEF Altered
  <2>10. IsSeq(q) /\ InOrder(q)
    BY <2>1, <2>6
  <2> QED
    BY <1>2, <2>7, <2>8, <2>9, <2>10 DEF q
<1> QED
  BY <1>1, <1>2

\* The columns of the table, compared one after the other.
LEMMA SafeColumnsAre ==
  ASSUME AreSound(columns)
  PROVE  LET q == ForEach(columns, SafeColumnAlters)
         IN  /\ IsSeq(q) /\ InOrder(q)
             /\ \A s \in Range(q) : IsModify(s) /\ StatementFits(columns, s)
             /\ \A c \in Range(columns) : c.name \in Names(bp.columns) =>
                  \/ c.comment = ColumnOf(bp.columns, c.name).comment
                  \/ Modifies(q, Change(c.name, "comment"))
<1> DEFINE f == [i \in DOMAIN columns |-> SafeColumnAlters(columns[i])]
           q == ForEach(columns, SafeColumnAlters)
<1>1. q = FlattenSeq(f)
  BY DEF ForEach
<1>2. IsSeq(columns) /\ Len(columns) \in Nat /\ DOMAIN columns = 1..Len(columns)
  BY SeqElim DEF AreSound, HaveNames
<1>3. IsSeq(f) /\ DOMAIN f = DOMAIN columns
  BY <1>2, SeqIntro
<1>4. ASSUME NEW i \in DOMAIN columns
      PROVE  /\ IsSeq(f[i]) /\ InOrder(f[i])
             /\ \A s \in Range(f[i]) : IsModify(s) /\ StatementFits(columns, s)
             /\ columns[i].name \in Names(bp.columns) =>
                  \/ columns[i].comment = ColumnOf(bp.columns, columns[i].name).comment
                  \/ Modifies(f[i], Change(columns[i].name, "comment"))
  <2> DEFINE old == columns[i]
             w == Change(old.name, "comment")
  <2>1. f[i] = SafeColumnAlters(old)
    OBVIOUS
  <2> HIDE DEF f, w
  <2>2. /\ IsSeq(f[i]) /\ InOrder(f[i])
        /\ \A s \in Range(f[i]) : IsModify(s) /\ s.what = w /\ old.name \in Names(bp.columns)
        /\ old.name \in Names(bp.columns) =>
             old.comment = ColumnOf(bp.columns, old.name).comment \/ Modifies(f[i], w)
    BY <2>1, SafeColumnIs DEF w
  <2>3. old.name \in Names(columns)
    BY NamesAre
  <2>4. ASSUME NEW s \in Range(f[i]) PROVE StatementFits(columns, s)
    <3>1. IsModify(s) /\ s.what = w /\ old.name \in Names(bp.columns) \cap Names(columns)
      BY <2>2, <2>3
    <3>2. "comment" \in Altered
      BY DEF Altered
    <3> QED
      BY <3>1, <3>2, OneKind DEF StatementFits, w
  <2> QED
    BY <2>2, <2>4 DEF w
<1> HIDE DEF f
<1>5. \A i \in DOMAIN f : IsSeq(f[i]) /\ InOrder(f[i])
  BY <1>3, <1>4
<1>6. IsSeq(FlattenSeq(f)) /\ \A x : x \in Range(FlattenSeq(f)) <=> \E i \in DOMAIN f : x \in Range(f[i])
  BY <1>3, <1>5, FlattenIsSeq
<1>7. \A i, j \in DOMAIN f : i < j => \A x \in Range(f[i]), y \in Range(f[j]) : Before(x, y)
  BY <1>3, <1>4, PlainBefore
<1>8. InOrder(FlattenSeq(f))
  BY <1>3, <1>5, <1>7, FlattenInOrder
<1> HIDE DEF q
<1>9. \A s \in Range(q) : IsModify(s) /\ StatementFits(columns, s)
  BY <1>1, <1>3, <1>4, <1>6
<1>10. ASSUME NEW c \in Range(columns), c.name \in Names(bp.columns),
              c.comment # ColumnOf(bp.columns, c.name).comment
       PROVE  Modifies(q, Change(c.name, "comment"))
  <2>1. PICK i \in DOMAIN columns : c = columns[i]
    BY DEF Range
  <2>2. Modifies(f[i], Change(c.name, "comment"))
    BY <1>4, <1>10, <2>1
  <2>3. Range(f[i]) \subseteq Range(q)
    BY <1>1, <1>3, <1>6, <2>1
  <2> QED
    BY <2>2, <2>3 DEF Modifies
<1> QED
  BY <1>1, <1>6, <1>8, <1>9, <1>10 DEF q

\* Columns that are not declared are dropped, one by one.
LEMMA UnsafeColumnsAre ==
  ASSUME AreSound(columns)
  PROVE  LET q == ForEach(columns, UnsafeColumnAlters)
         IN  /\ IsSeq(q) /\ InOrder(q)
             /\ \A s \in Range(q) : (IsModify(s) \/ IsDrop(s)) /\ StatementFits(columns, s)
             /\ \A c \in Range(columns) :
                  /\ c.name \notin Names(bp.columns) => Drops(q, c.name)
                  /\ c.name \in Names(bp.columns) /\ ~ColumnReasons(c, ColumnOf(bp.columns, c.name)) =>
                       \A a \in {"not_null", "default", "type"} :
                         \/ c[a] = ColumnOf(bp.columns, c.name)[a]
                         \/ Modifies(q, Change(c.name, a))
<1> DEFINE f == [i \in DOMAIN columns |-> UnsafeColumnAlters(columns[i])]
           q == ForEach(columns, UnsafeColumnAlters)
<1>1. q = FlattenSeq(f)
  BY DEF ForEach
<1>2. IsSeq(columns) /\ Len(columns) \in Nat /\ DOMAIN columns = 1..Len(columns) /\ HaveNames(columns)
  BY SeqElim DEF AreSound, HaveNames
<1>3. IsSeq(f) /\ DOMAIN f = DOMAIN columns
  BY <1>2, SeqIntro
<1>4. ASSUME NEW i \in DOMAIN columns
      PROVE  /\ IsSeq(f[i]) /\ InOrder(f[i])
             /\ \A s \in Range(f[i]) :
                  /\ IsModify(s) \/ (IsDrop(s) /\ s.what = columns[i].name)
                  /\ StatementFits(columns, s)
             /\ columns[i].name \notin Names(bp.columns) => Drops(f[i], columns[i].name)
             /\ /\ columns[i].name \in Names(bp.columns)
                /\ ~ColumnReasons(columns[i], ColumnOf(bp.columns, columns[i].name))
                => \A a \in {"not_null", "default", "type"} :
                     \/ columns[i][a] = ColumnOf(bp.columns, columns[i].name)[a]
                     \/ Modifies(f[i], Change(columns[i].name, a))
  <2> DEFINE old == columns[i]
  <2>1. f[i] = UnsafeColumnAlters(old)
    OBVIOUS
  <2> HIDE DEF f, old
  <2>2. /\ IsSeq(f[i]) /\ InOrder(f[i])
        /\ \A s \in Range(f[i]) :
             \/ IsDrop(s) /\ s.what = old.name /\ old.name \notin Names(bp.columns)
             \/ /\ IsModify(s) /\ old.name \in Names(bp.columns)
                /\ \E a \in Altered : s.what = Change(old.name, a)
        /\ old.name \notin Names(bp.columns) => Drops(f[i], old.name)
        /\ old.name \in Names(bp.columns) /\ ~ColumnReasons(old, ColumnOf(bp.columns, old.name)) =>
             \A a \in {"not_null", "default", "type"} :
               old[a] = ColumnOf(bp.columns, old.name)[a] \/ Modifies(f[i], Change(old.name, a))
    BY <2>1, UnsafeColumnIs
  <2>3. old.name \in Names(columns)
    BY NamesAre DEF old
  <2>4. ASSUME NEW s \in Range(f[i])
        PROVE  (IsModify(s) \/ (IsDrop(s) /\ s.what = old.name)) /\ StatementFits(columns, s)
    BY <2>2, <2>3, OneKind DEF StatementFits
  <2> QED
    BY <2>2, <2>4 DEF old
<1> HIDE DEF f
<1>5. \A i \in DOMAIN f : IsSeq(f[i]) /\ InOrder(f[i])
  BY <1>3, <1>4
<1>6. IsSeq(FlattenSeq(f)) /\ \A x : x \in Range(FlattenSeq(f)) <=> \E i \in DOMAIN f : x \in Range(f[i])
  BY <1>3, <1>5, FlattenIsSeq
<1>7. ASSUME NEW i \in DOMAIN f, NEW j \in DOMAIN f, i < j, NEW x \in Range(f[i]), NEW y \in Range(f[j])
      PROVE  Before(x, y)
  <2>1. columns[i].name # columns[j].name
    BY <1>2, <1>3, <1>7 DEF HaveNames
  <2>2. /\ IsModify(x) \/ (IsDrop(x) /\ x.what = columns[i].name)
        /\ IsModify(y) \/ (IsDrop(y) /\ y.what = columns[j].name)
    BY <1>3, <1>4
  <2> QED
    BY <2>1, <2>2, OneKind DEF Before
<1>8. InOrder(FlattenSeq(f))
  BY <1>3, <1>5, <1>7, FlattenInOrder
<1> HIDE DEF q
<1>9. \A s \in Range(q) : (IsModify(s) \/ IsDrop(s)) /\ StatementFits(columns, s)
  BY <1>1, <1>3, <1>4, <1>6
<1>10. ASSUME NEW i \in DOMAIN columns PROVE Range(f[i]) \subseteq Range(q)
  BY <1>1, <1>3, <1>6
<1>11. ASSUME NEW c \in Range(columns), c.name \notin Names(bp.columns) PROVE Drops(q, c.name)
  <2>1. PICK i \in DOMAIN columns : c = columns[i]
    BY DEF Range
  <2>2. Drops(f[i], c.name)
    BY <1>4, <1>11, <2>1
  <2> QED
    BY <1>10, <2>2 DEF Drops
<1>12. ASSUME NEW c \in Range(columns), c.name \in Names(bp.columns),
              ~ColumnReasons(c, ColumnOf(bp.columns, c.name)),
              NEW a \in {"not_null", "default", "type"}, c[a] # ColumnOf(bp.columns, c.name)[a]
       PROVE  Modifies(q, Change(c.name, a))
  <2>1. PICK i \in DOMAIN columns : c = columns[i]
    BY DEF Range
  <2>2. Modifies(f[i], Change(c.name, a))
    BY <1>4, <1>12, <2>1
  <2> QED
    BY <1>10, <2>2 DEF Modifies
<1> QED
  BY <1>1, <1>6, <1>8, <1>9, <1>11, <1>12 DEF q

\* What is to be added, in order.
LEMMA AddsAre ==
  ASSUME InScene, AreSound(columns), NEW n, n = Cardinality(Remaining), n \in 0..Len(bp.columns)
  PROVE  LET q == ForEach(Added, LAMBDA c : << Safe("add column", [c EXCEPT !.expression = None]) >>)
         IN  /\ IsSeq(q) /\ InOrder(q) /\ AddsFit(n, q)
             /\ \A s \in Range(q) : IsAdd(s) /\ StatementFits(columns, s)
             /\ n = Len(bp.columns) => AddsNone(q)
<1> DEFINE q == ForEach(Added, LAMBDA c : << Safe("add column", [c EXCEPT !.expression = None]) >>)
           add(c) == Safe("add column", [c EXCEPT !.expression = None])
           f == [i \in DOMAIN Added |-> << add(Added[i]) >>]
           N == Len(bp.columns)
<1>1. q = FlattenSeq(f)
  BY DEF ForEach
<1>2. N \in Nat \ {0} /\ n \in 0..N /\ DOMAIN bp.columns = 1..N
  BY Declarations
<1>3. Added \in Seq(ColumnRecords) /\ Added = SubSeq(bp.columns, n + 1, N)
  BY AddedColumns DEF AreSound, HaveNames, Added, InScene
<1>4. bp.columns \in Seq(ColumnRecords)
  BY BlueprintIsSound DEF InScene
<1> HIDE DEF N
<1>5. IsSeq(Added) /\ DOMAIN Added = 1..(N - n) /\ \A i \in 1..(N - n) : Added[i] = bp.columns[n + i]
  <2> DEFINE T == ColumnRecords
             cols == bp.columns
  <2>1. cols \in Seq(T) /\ Len(cols) = N
    BY <1>4 DEF N
  <2> HIDE DEF T, cols
  <2>2. /\ Len(SubSeq(cols, n + 1, N)) = N - n
        /\ \A i \in 1..(N - n) : SubSeq(cols, n + 1, N)[i] = cols[n + i]
    BY <1>2, <2>1
  <2>3. IsSeq(Added)
    BY <1>3, SeqWithin
  <2>4. DOMAIN Added = 1..Len(Added)
    BY <2>3, SeqElim
  <2> QED
    BY <1>3, <2>2, <2>3, <2>4 DEF cols
<1>6. ASSUME NEW i \in 1..(N - n)
      PROVE  /\ n + i \in (n + 1)..N
             /\ IsAdd(add(Added[i])) /\ add(Added[i]).what = Addition(n + i)
             /\ IsSeq(f[i]) /\ InOrder(f[i]) /\ Range(f[i]) = {add(Added[i])}
  <2>1. n + i \in (n + 1)..N
    BY <1>2
  <2>2. Added[i] = bp.columns[n + i]
    BY <1>5
  <2>3. IsAdd(add(Added[i])) /\ add(Added[i]).what = [Added[i] EXCEPT !.expression = None]
    BY KindsAre
  <2>4. add(Added[i]).what = Addition(n + i)
    BY <2>2, <2>3 DEF Addition
  <2>5. f[i] = << add(Added[i]) >>
    BY <1>5
  <2> HIDE DEF add, f
  <2>6. IsSeq(<< add(Added[i]) >>) /\ InOrder(<< add(Added[i]) >>) /\ Range(<< add(Added[i]) >>) = {add(Added[i])}
    BY UnitIsSeq, FewInOrder
  <2> QED
    BY <2>1, <2>3, <2>4, <2>5, <2>6
<1> HIDE DEF add
<1>7. IsSeq(f) /\ DOMAIN f = 1..(N - n)
  <2>1. N - n \in Nat
    BY <1>2
  <2> QED
    BY <1>5, <2>1, SeqIntro
<1> HIDE DEF f
<1>8. IsSeq(FlattenSeq(f)) /\ \A x : x \in Range(FlattenSeq(f)) <=> \E i \in DOMAIN f : x \in Range(f[i])
  BY <1>6, <1>7, FlattenIsSeq
<1>9. ASSUME NEW i \in DOMAIN f, NEW j \in DOMAIN f, i < j, NEW x \in Range(f[i]), NEW y \in Range(f[j])
      PROVE  Before(x, y)
  <2>1. IsAdd(x) /\ x.what = Addition(n + i) /\ IsAdd(y) /\ y.what = Addition(n + j)
    BY <1>6, <1>7
  <2>2. n + i \in 1..N /\ n + j \in 1..N
    BY <1>2, <1>7
  <2>3. PlaceOf(x.what) = n + i /\ PlaceOf(y.what) = n + j
    BY <1>2, <2>1, <2>2, AdditionIs
  <2>4. n + i < n + j
    BY <1>2, <1>7, <1>9
  <2> QED
    BY <2>1, <2>3, <2>4, OneKind DEF Before
<1>10. InOrder(FlattenSeq(f))
  BY <1>6, <1>7, <1>9, FlattenInOrder
<1> HIDE DEF q
<1>11. ASSUME NEW s \in Range(q)
       PROVE  IsAdd(s) /\ \E m \in (n + 1)..N : s.what = Addition(m)
  BY <1>1, <1>6, <1>7, <1>8
<1>12. ASSUME NEW m \in (n + 1)..N PROVE Adds(q, Addition(m))
  <2> DEFINE i == m - n
  <2>1. i \in 1..(N - n) /\ n + i = m
    BY <1>2
  <2> HIDE DEF i
  <2>2. add(Added[i]) \in Range(q)
    BY <1>1, <1>6, <1>7, <1>8, <2>1
  <2> QED
    BY <1>6, <2>1, <2>2 DEF Adds
<1>13. ASSUME n = N PROVE AddsNone(q)
  <2>1. (n + 1)..N = {}
    BY <1>2, <1>13
  <2> QED
    BY <1>11, <2>1 DEF AddsNone
<1>14. \A s \in Range(q) : StatementFits(columns, s)
  BY <1>11, OneKind DEF StatementFits
<1>15. AddsFit(n, q)
  BY <1>11, <1>12 DEF AddsFit, N
<1> QED
  BY <1>1, <1>8, <1>10, <1>11, <1>13, <1>14, <1>15 DEF q, N

\* Statements that need no order.
LEMMA PlainInOrder ==
  ASSUME NEW q, \A s \in Range(q) : IsModify(s) \/ IsSet(s) \/ IsMore(s) \/ IsLess(s)
  PROVE  InOrder(q)
<1>1. ASSUME NEW i \in DOMAIN q, NEW j \in DOMAIN q PROVE Before(q[i], q[j])
  BY PlainBefore DEF Range
<1> QED
  BY <1>1 DEF InOrder

\* The comment of the table.
LEMMA CommentIs ==
  LET q == If(OptionDiffers("comment"), Safe("set option", SetOption("comment")))
  IN  /\ IsSeq(q) /\ \A s \in Range(q) : IsSet(s) /\ StatementFits(columns, s)
      /\ OptionDiffers("comment") => Sets(q, SetOption("comment"))
<1> DEFINE s == Safe("set option", SetOption("comment"))
           c == OptionDiffers("comment")
           q == If(c, s)
<1>1. IsSet(s) /\ s.what = SetOption("comment")
  BY KindsAre
<1>2. "comment" \in Options /\ "comment" # "retention"
  BY DEF Options
<1> HIDE DEF s, c
<1>3. StatementFits(columns, s)
  BY <1>1, <1>2, OneKind DEF StatementFits
<1>4. IsSeq(q) /\ \A x : x \in Range(q) <=> c /\ x = s
  BY IfIs
<1>5. c => Sets(q, SetOption("comment"))
  BY <1>1, <1>4 DEF Sets
<1> HIDE DEF q
<1>6. IsSeq(q) /\ \A x \in Range(q) : IsSet(x) /\ StatementFits(columns, x)
  BY <1>1, <1>3, <1>4
<1> QED
  BY <1>5, <1>6 DEF q, s, c

\* The other options.
LEMMA SetsAre ==
  LET q == ForEach(<< "retention", "cluster", "tracking" >>,
                   LAMBDA o : If(OptionDiffers(o), Unsafe("set option", SetOption(o))))
  IN  /\ IsSeq(q) /\ \A s \in Range(q) : IsSet(s) /\ StatementFits(columns, s)
      /\ \A o \in {"retention", "cluster", "tracking"} : OptionDiffers(o) => Sets(q, SetOption(o))
<1> DEFINE three == << "retention", "cluster", "tracking" >>
           set(o) == Unsafe("set option", SetOption(o))
           f == [i \in DOMAIN three |-> If(OptionDiffers(three[i]), set(three[i]))]
           q == ForEach(three, LAMBDA o : If(OptionDiffers(o), Unsafe("set option", SetOption(o))))
<1>1. q = FlattenSeq(f)
  BY DEF ForEach
<1>2. /\ IsSeq(three) /\ DOMAIN three = 1..3
      /\ three[1] = "retention" /\ three[2] = "cluster" /\ three[3] = "tracking"
  BY DEF IsSeq, Range
<1>3. \A i \in 1..3 : three[i] \in Options
  BY DEF Options
<1>4. \A o : IsSet(set(o)) /\ set(o).what = SetOption(o)
  BY KindsAre
<1> HIDE DEF q, three, set
<1>5. ASSUME NEW i \in 1..3
      PROVE  /\ IsSeq(f[i])
             /\ \A x : x \in Range(f[i]) <=> OptionDiffers(three[i]) /\ x = set(three[i])
  <2>1. f[i] = If(OptionDiffers(three[i]), set(three[i]))
    BY <1>2
  <2> HIDE DEF f
  <2> QED
    BY <2>1, IfIs
<1>6. IsSeq(f) /\ DOMAIN f = 1..3
  BY <1>2, SeqIntro
<1> HIDE DEF f
<1>7. IsSeq(FlattenSeq(f)) /\ \A x : x \in Range(FlattenSeq(f)) <=> \E i \in DOMAIN f : x \in Range(f[i])
  BY <1>5, <1>6, FlattenIsSeq
<1>8. ASSUME NEW i \in 1..3, OptionDiffers(three[i])
      PROVE  /\ Sets(q, SetOption(three[i]))
  <2>1. set(three[i]) \in Range(q)
    BY <1>1, <1>5, <1>6, <1>7, <1>8
  <2> QED
    BY <1>4, <2>1 DEF Sets
<1>9. ASSUME NEW s \in Range(q) PROVE IsSet(s) /\ StatementFits(columns, s)
  <2>1. PICK i \in 1..3 : s \in Range(f[i])
    BY <1>1, <1>6, <1>7
  <2>2. OptionDiffers(three[i]) /\ s = set(three[i])
    BY <1>5, <2>1
  <2>3. IsSet(s) /\ s.what = SetOption(three[i])
    BY <1>4, <2>2
  <2>4. three[i] = "retention" => bp.options[three[i]] # AnyRetention
    BY <2>2 DEF OptionDiffers
  <2> QED
    BY <1>3, <2>3, <2>4, OneKind DEF StatementFits
<1>10. \A o \in {"retention", "cluster", "tracking"} : OptionDiffers(o) => Sets(q, SetOption(o))
  BY <1>2, <1>8
<1> QED
  BY <1>1, <1>7, <1>9, <1>10 DEF q, three

\* The items of a set, one by one.
LEMMA EachItem ==
  ASSUME NEW S, IsFiniteSet(S), NEW g, NEW f,
         f = [i \in DOMAIN SetToSeq(S) |-> << g[SetToSeq(S)[i]] >>]
  PROVE  /\ IsSeq(FlattenSeq(f))
         /\ \A x : x \in Range(FlattenSeq(f)) <=> \E i \in S : x = g[i]
<1> DEFINE seq == SetToSeq(S)
<1>1. IsSeq(seq) /\ Range(seq) = S
  BY SetToSeqIsSeq
<1>2. Len(seq) \in Nat /\ DOMAIN seq = 1..Len(seq)
  BY <1>1, SeqElim
<1>3. f = [i \in DOMAIN seq |-> << g[seq[i]] >>]
  OBVIOUS
<1> HIDE DEF seq
<1>4. IsSeq(f) /\ DOMAIN f = DOMAIN seq
  BY <1>2, <1>3, SeqIntro
<1>5. ASSUME NEW i \in DOMAIN f PROVE IsSeq(f[i]) /\ Range(f[i]) = {g[seq[i]]}
  <2>1. f[i] = << g[seq[i]] >>
    BY <1>3, <1>4
  <2> QED
    BY <2>1, UnitIsSeq
<1>6. IsSeq(FlattenSeq(f)) /\ \A x : x \in Range(FlattenSeq(f)) <=> \E i \in DOMAIN f : x \in Range(f[i])
  BY <1>4, <1>5, FlattenIsSeq
<1>7. ASSUME NEW x PROVE x \in Range(FlattenSeq(f)) <=> \E i \in S : x = g[i]
  <2>1. x \in Range(FlattenSeq(f)) <=> \E i \in DOMAIN seq : x = g[seq[i]]
    <3>1. x \in Range(FlattenSeq(f)) <=> \E i \in DOMAIN f : x \in Range(f[i])
      BY <1>6
    <3>2. \A i \in DOMAIN f : x \in Range(f[i]) <=> x = g[seq[i]]
      BY <1>5
    <3> QED
      BY <1>4, <3>1, <3>2
  <2>2. \A i : i \in S <=> \E j \in DOMAIN seq : i = seq[j]
    BY <1>1 DEF Range
  <2> QED
    BY <2>1, <2>2
<1> QED
  BY <1>6, <1>7

\* What a new table's search is optimized on is all that is wanted.
LEMMA CreateSearchIs ==
  ASSUME InScene
  PROVE  /\ IsSeq(CreateSearch)
         /\ \A x \in Range(CreateSearch) : x \subseteq WantedItems /\ x # {}
         /\ \A i \in WantedItems : \E x \in Range(CreateSearch) : i \in x
<1>1. CASE bp.search = {"no"}
  <2>1. CreateSearch = << >> /\ WantedItems = {}
    BY <1>1 DEF CreateSearch, WantedItems
  <2> QED
    BY <2>1, EmptyIsSeq
<1>2. CASE bp.search = {"yes"} /\ bp.search # {"no"}
  <2>1. CreateSearch = << SearchItems >> /\ WantedItems = SearchItems
    BY <1>2 DEF CreateSearch, WantedItems
  <2>2. IsSeq(<< SearchItems >>) /\ Range(<< SearchItems >>) = {SearchItems}
    BY UnitIsSeq
  <2> QED
    BY <2>1, <2>2, TableAssumption
<1>3. CASE bp.search # {"yes"} /\ bp.search # {"no"}
  <2> DEFINE S == bp.search
             g == [i \in S |-> {i}]
             f == [i \in DOMAIN SetToSeq(S) |-> << {SetToSeq(S)[i]} >>]
  <2>1. CreateSearch = FlattenSeq(f)
    BY <1>3 DEF CreateSearch, EachOf, ForEach
  <2>2. WantedItems = S
    BY <1>3 DEF WantedItems
  <2>3. IsFiniteSet(S)
    BY BlueprintIsSound DEF InScene
  <2> HIDE DEF S
  <2>4. \A i \in DOMAIN SetToSeq(S) : SetToSeq(S)[i] \in S
    BY <2>3, SetToSeqIsSeq DEF Range
  <2>5. f = [i \in DOMAIN SetToSeq(S) |-> << g[SetToSeq(S)[i]] >>]
    BY <2>4
  <2>6. \A i \in S : g[i] = {i}
    OBVIOUS
  <2> HIDE DEF f, g
  <2>7. IsSeq(FlattenSeq(f)) /\ \A x : x \in Range(FlattenSeq(f)) <=> \E i \in S : x = g[i]
    BY <2>3, <2>5, EachItem
  <2> QED
    BY <2>1, <2>2, <2>6, <2>7
<1> QED
  BY <1>1, <1>2, <1>3

\* And so it is asked for.
LEMMA CreateSearchFits ==
  ASSUME InScene, NEW f, NEW g, f = [i \in DOMAIN CreateSearch |-> << g[CreateSearch[i]] >>],
         \A x \in Range(CreateSearch) : IsMore(g[x]) /\ g[x].what = x
  PROVE  /\ IsSeq(FlattenSeq(f)) /\ SearchFits({}, FlattenSeq(f))
         /\ \A t \in Range(FlattenSeq(f)) : IsMore(t) /\ t.what \subseteq WantedItems /\ t.what # {}
<1> DEFINE seq == CreateSearch
           q == FlattenSeq(f)
<1>1. /\ IsSeq(seq)
      /\ \A x \in Range(seq) : x \subseteq WantedItems /\ x # {}
      /\ \A i \in WantedItems : \E x \in Range(seq) : i \in x
  BY CreateSearchIs
<1>2. /\ f = [i \in DOMAIN seq |-> << g[seq[i]] >>]
      /\ \A x \in Range(seq) : IsMore(g[x]) /\ g[x].what = x
  OBVIOUS
<1> HIDE DEF seq, q
<1>3. Len(seq) \in Nat /\ DOMAIN seq = 1..Len(seq)
  BY <1>1, SeqElim
<1>4. IsSeq(f) /\ DOMAIN f = DOMAIN seq
  BY <1>2, <1>3, SeqIntro
<1>5. ASSUME NEW i \in DOMAIN f PROVE IsSeq(f[i]) /\ Range(f[i]) = {g[seq[i]]}
  <2>1. f[i] = << g[seq[i]] >>
    BY <1>2, <1>4
  <2> QED
    BY <2>1, UnitIsSeq
<1>6. IsSeq(q) /\ \A x : x \in Range(q) <=> \E i \in DOMAIN f : x \in Range(f[i])
  BY <1>4, <1>5, FlattenIsSeq DEF q
<1>7. ASSUME NEW x PROVE x \in Range(q) <=> \E y \in Range(seq) : x = g[y]
  <2>1. x \in Range(q) <=> \E i \in DOMAIN seq : x = g[seq[i]]
    BY <1>4, <1>5, <1>6
  <2> QED
    BY <2>1 DEF Range
<1>8. \A t \in Range(q) : IsMore(t) /\ t.what \subseteq WantedItems /\ t.what # {}
  BY <1>1, <1>2, <1>7
<1>9. ASSUME NEW i \in WantedItems PROVE \E t \in Range(q) : IsMore(t) /\ i \in t.what
  <2>1. PICK x \in Range(seq) : i \in x
    BY <1>1
  <2>2. g[x] \in Range(q) /\ IsMore(g[x]) /\ g[x].what = x
    BY <1>2, <1>7
  <2> QED
    BY <2>1, <2>2
<1>10. bp.search = {"yes"} => \E i : i \in WantedItems
  <2>1. ASSUME bp.search = {"yes"} PROVE WantedItems = SearchItems
    BY <2>1 DEF WantedItems
  <2> QED
    BY <2>1, TableAssumption
<1>11. SearchFits({}, q)
  BY <1>9, <1>10 DEF SearchFits
<1> QED
  BY <1>6, <1>8, <1>11 DEF q

\* What differs of search is asked for.
LEMMA CompareSearchIs ==
  ASSUME InScene, search \subseteq SearchItems
  PROVE  /\ IsSeq(CompareSearch) /\ SearchFits(search, CompareSearch)
         /\ \A s \in Range(CompareSearch) : (IsMore(s) \/ IsLess(s)) /\ StatementFits(columns, s)
<1> DEFINE q == CompareSearch
           more == Unsafe("add search", SearchItems)
           less == Unsafe("drop search", SearchItems)
<1>1. IsMore(more) /\ more.what = SearchItems /\ IsLess(less) /\ less.what = SearchItems
  BY KindsAre
<1>2. CASE bp.search = {"no"}
  <2>1. q = If(search # {}, less) /\ WantedItems = {}
    BY <1>2 DEF CompareSearch, WantedItems
  <2> DEFINE c == search # {}
  <2> HIDE DEF q, less, c
  <2>6. q = If(c, less)
    BY <2>1 DEF c
  <2>7. IsSeq(q) /\ \A x : x \in Range(q) <=> c /\ x = less
    BY <2>6, IfIs
  <2>2. IsSeq(q) /\ \A x : x \in Range(q) <=> search # {} /\ x = less
    BY <2>7 DEF c
  <2>3. bp.search # {"yes"}
    BY <1>2
  <2>4. SearchFits(search, q)
    BY <1>1, <2>1, <2>2, <2>3 DEF SearchFits
  <2>5. \A s \in Range(q) : IsLess(s) /\ StatementFits(columns, s)
    BY <1>1, <2>1, <2>2, OneKind DEF StatementFits
  <2> QED
    BY <2>2, <2>4, <2>5 DEF q
<1>3. CASE bp.search = {"yes"} /\ bp.search # {"no"}
  <2>1. q = If(search = {}, more) /\ WantedItems = SearchItems
    BY <1>3 DEF CompareSearch, WantedItems
  <2> DEFINE c == search = {}
  <2> HIDE DEF q, more, c
  <2>6. q = If(c, more)
    BY <2>1 DEF c
  <2>7. IsSeq(q) /\ \A x : x \in Range(q) <=> c /\ x = more
    BY <2>6, IfIs
  <2>2. IsSeq(q) /\ \A x : x \in Range(q) <=> search = {} /\ x = more
    BY <2>7 DEF c
  <2>3. SearchFits(search, q)
    BY <1>1, <1>3, <2>1, <2>2 DEF SearchFits
  <2>4. \A s \in Range(q) : IsMore(s) /\ StatementFits(columns, s)
    BY <1>1, <2>1, <2>2, OneKind, TableAssumption DEF StatementFits
  <2> QED
    BY <2>2, <2>3, <2>4 DEF q
<1>4. CASE bp.search # {"yes"} /\ bp.search # {"no"}
  <2> DEFINE new == bp.search \ search
             old == search \ bp.search
             g == [i \in new |-> Unsafe("add search", {i})]
             h == [i \in old |-> Unsafe("drop search", {i})]
             adds == [i \in DOMAIN SetToSeq(new) |-> << Unsafe("add search", {SetToSeq(new)[i]}) >>]
             drops == [i \in DOMAIN SetToSeq(old) |-> << Unsafe("drop search", {SetToSeq(old)[i]}) >>]
  <2>1. q = FlattenSeq(adds) \o FlattenSeq(drops) /\ WantedItems = bp.search
    BY <1>4 DEF CompareSearch, EachOf, ForEach, WantedItems
  <2>2. IsFiniteSet(new) /\ IsFiniteSet(old)
    BY BlueprintIsSound, FS_Subset, TableAssumption DEF InScene
  <2>3. /\ \A i \in new : IsMore(g[i]) /\ g[i].what = {i}
        /\ \A i \in old : IsLess(h[i]) /\ h[i].what = {i}
    BY KindsAre
  <2>10. \A i : /\ i \in new <=> i \in WantedItems /\ i \notin search
                /\ i \in old <=> i \in search /\ i \notin WantedItems
    BY <2>1
  <2> HIDE DEF new, old
  <2>4. /\ \A i \in DOMAIN SetToSeq(new) : SetToSeq(new)[i] \in new
        /\ \A i \in DOMAIN SetToSeq(old) : SetToSeq(old)[i] \in old
    BY <2>2, SetToSeqIsSeq DEF Range
  <2>5. adds = [i \in DOMAIN SetToSeq(new) |-> << g[SetToSeq(new)[i]] >>]
    BY <2>4
  <2>5a. drops = [i \in DOMAIN SetToSeq(old) |-> << h[SetToSeq(old)[i]] >>]
    BY <2>4
  <2> HIDE DEF adds, drops, g, h, q
  <2>6. /\ IsSeq(FlattenSeq(adds)) /\ (\A x : x \in Range(FlattenSeq(adds)) <=> \E i \in new : x = g[i])
        /\ IsSeq(FlattenSeq(drops)) /\ (\A x : x \in Range(FlattenSeq(drops)) <=> \E i \in old : x = h[i])
    <3>1. /\ IsSeq(FlattenSeq(adds))
          /\ \A x : x \in Range(FlattenSeq(adds)) <=> \E i \in new : x = g[i]
      BY <2>2, <2>5, EachItem
    <3>2. /\ IsSeq(FlattenSeq(drops))
          /\ \A x : x \in Range(FlattenSeq(drops)) <=> \E i \in old : x = h[i]
      BY <2>2, <2>5a, EachItem
    <3> QED
      BY <3>1, <3>2
  <2>7. IsSeq(q) /\ \A x : x \in Range(q) <=> (\E i \in new : x = g[i]) \/ (\E i \in old : x = h[i])
    BY <2>1, <2>6, JoinIsSeq
  <2>8. SearchFits(search, q)
    BY <1>4, <2>3, <2>7, <2>10 DEF SearchFits
  <2>9. ASSUME NEW s \in Range(q) PROVE (IsMore(s) \/ IsLess(s)) /\ StatementFits(columns, s)
    BY <2>3, <2>7, <2>10, OneKind DEF StatementFits
  <2> QED
    BY <2>7, <2>8, <2>9 DEF q
<1> QED
  BY <1>2, <1>3, <1>4

\* What loses no data, in order.
LEMMA SafeAltersAre ==
  ASSUME InScene, AreSound(columns), NEW n, n = Cardinality(Remaining), n \in 0..Len(bp.columns)
  PROVE  /\ IsSeq(SafeAlters) /\ InOrder(SafeAlters) /\ AddsFit(n, SafeAlters)
         /\ \A s \in Range(SafeAlters) : /\ IsModify(s) \/ IsAdd(s) \/ IsSet(s)
                                         /\ StatementFits(columns, s)
         /\ \A c \in Range(columns) : c.name \in Names(bp.columns) =>
              \/ c.comment = ColumnOf(bp.columns, c.name).comment
              \/ Modifies(SafeAlters, Change(c.name, "comment"))
         /\ OptionDiffers("comment") => Sets(SafeAlters, SetOption("comment"))
         /\ n = Len(bp.columns) => AddsNone(SafeAlters)
<1> DEFINE p == ForEach(columns, SafeColumnAlters)
           a == ForEach(Added, LAMBDA c : << Safe("add column", [c EXCEPT !.expression = None]) >>)
           o == If(OptionDiffers("comment"), Safe("set option", SetOption("comment")))
           q == SafeAlters
<1>1. q = (p \o a) \o o
  BY DEF SafeAlters
<1>2. /\ IsSeq(p) /\ InOrder(p)
      /\ \A s \in Range(p) : IsModify(s) /\ StatementFits(columns, s)
      /\ \A c \in Range(columns) : c.name \in Names(bp.columns) =>
           \/ c.comment = ColumnOf(bp.columns, c.name).comment
           \/ Modifies(p, Change(c.name, "comment"))
  BY SafeColumnsAre
<1>3. /\ IsSeq(a) /\ InOrder(a) /\ AddsFit(n, a)
      /\ \A s \in Range(a) : IsAdd(s) /\ StatementFits(columns, s)
      /\ n = Len(bp.columns) => AddsNone(a)
  BY AddsAre
<1>4. /\ IsSeq(o) /\ \A s \in Range(o) : IsSet(s) /\ StatementFits(columns, s)
      /\ OptionDiffers("comment") => Sets(o, SetOption("comment"))
  BY CommentIs
<1> HIDE DEF p, a, o, q
<1>5. IsSeq(p \o a) /\ Range(p \o a) = Range(p) \cup Range(a)
  BY <1>2, <1>3, JoinIsSeq
<1>6. IsSeq(q) /\ Range(q) = Range(p) \cup Range(a) \cup Range(o)
  BY <1>1, <1>4, <1>5, JoinIsSeq
<1>7. InOrder(p \o a)
  <2>1. \A x \in Range(p), y \in Range(a) : Before(x, y)
    BY <1>2, PlainBefore
  <2> QED
    BY <1>2, <1>3, <2>1, JoinInOrder
<1>8. InOrder(q)
  <2>1. InOrder(o)
    BY <1>4, PlainInOrder
  <2>2. ASSUME NEW x \in Range(p \o a), NEW y \in Range(o) PROVE Before(x, y)
    <3>1. IsModify(x) \/ IsAdd(x)
      BY <1>2, <1>3, <1>5
    <3>2. IsSet(y)
      BY <1>4
    <3> QED
      BY <3>1, <3>2, OneKind DEF Before
  <2> QED
    BY <1>1, <1>4, <1>5, <1>7, <2>1, <2>2, JoinInOrder
<1>9. AddsFit(n, q)
  <2>1. \A s \in Range(q) : IsAdd(s) => s \in Range(a)
    BY <1>2, <1>4, <1>6, OneKind
  <2>2. ASSUME NEW m \in (n + 1)..Len(bp.columns) PROVE Adds(q, Addition(m))
    <3>1. Adds(a, Addition(m))
      BY <1>3 DEF AddsFit
    <3> QED
      BY <1>6, <3>1 DEF Adds
  <2> QED
    BY <1>3, <2>1, <2>2 DEF AddsFit
<1>10. n = Len(bp.columns) => AddsNone(q)
  BY <1>2, <1>3, <1>4, <1>6, OneKind DEF AddsNone
<1>11. ASSUME NEW c \in Range(columns), c.name \in Names(bp.columns),
              c.comment # ColumnOf(bp.columns, c.name).comment
       PROVE  Modifies(q, Change(c.name, "comment"))
  <2>1. Modifies(p, Change(c.name, "comment"))
    BY <1>2, <1>11
  <2> QED
    BY <1>6, <2>1 DEF Modifies
<1>12. OptionDiffers("comment") => Sets(q, SetOption("comment"))
  BY <1>4, <1>6 DEF Sets
<1>13. \A s \in Range(q) : (IsModify(s) \/ IsAdd(s) \/ IsSet(s)) /\ StatementFits(columns, s)
  BY <1>2, <1>3, <1>4, <1>6
<1> QED
  BY <1>6, <1>8, <1>9, <1>10, <1>11, <1>12, <1>13 DEF q

\* What may lose data.
LEMMA UnsafeAltersAre ==
  ASSUME AreSound(columns)
  PROVE  /\ IsSeq(UnsafeAlters) /\ InOrder(UnsafeAlters)
         /\ \A s \in Range(UnsafeAlters) : /\ IsModify(s) \/ IsDrop(s) \/ IsSet(s)
                                           /\ StatementFits(columns, s)
         /\ \A c \in Range(columns) :
              /\ c.name \notin Names(bp.columns) => Drops(UnsafeAlters, c.name)
              /\ c.name \in Names(bp.columns) /\ ~ColumnReasons(c, ColumnOf(bp.columns, c.name)) =>
                   \A a \in {"not_null", "default", "type"} :
                     \/ c[a] = ColumnOf(bp.columns, c.name)[a]
                     \/ Modifies(UnsafeAlters, Change(c.name, a))
         /\ \A o \in {"retention", "cluster", "tracking"} :
              OptionDiffers(o) => Sets(UnsafeAlters, SetOption(o))
<1> DEFINE p == ForEach(columns, UnsafeColumnAlters)
           o == ForEach(<< "retention", "cluster", "tracking" >>,
                        LAMBDA x : If(OptionDiffers(x), Unsafe("set option", SetOption(x))))
           q == UnsafeAlters
<1>1. q = p \o o
  BY DEF UnsafeAlters
<1>2. /\ IsSeq(p) /\ InOrder(p)
      /\ \A s \in Range(p) : (IsModify(s) \/ IsDrop(s)) /\ StatementFits(columns, s)
      /\ \A c \in Range(columns) :
           /\ c.name \notin Names(bp.columns) => Drops(p, c.name)
           /\ c.name \in Names(bp.columns) /\ ~ColumnReasons(c, ColumnOf(bp.columns, c.name)) =>
                \A a \in {"not_null", "default", "type"} :
                  \/ c[a] = ColumnOf(bp.columns, c.name)[a]
                  \/ Modifies(p, Change(c.name, a))
  BY UnsafeColumnsAre
<1>3. /\ IsSeq(o) /\ \A s \in Range(o) : IsSet(s) /\ StatementFits(columns, s)
      /\ \A x \in {"retention", "cluster", "tracking"} : OptionDiffers(x) => Sets(o, SetOption(x))
  BY SetsAre
<1> HIDE DEF p, o, q
<1>4. IsSeq(q) /\ Range(q) = Range(p) \cup Range(o)
  BY <1>1, <1>2, <1>3, JoinIsSeq
<1>5. InOrder(q)
  <2>1. InOrder(o)
    BY <1>3, PlainInOrder
  <2>2. ASSUME NEW x \in Range(p), NEW y \in Range(o) PROVE Before(x, y)
    <3>1. (IsModify(x) \/ IsDrop(x)) /\ IsSet(y)
      BY <1>2, <1>3
    <3> QED
      BY <3>1, OneKind DEF Before
  <2> QED
    BY <1>1, <1>2, <1>3, <2>1, <2>2, JoinInOrder
<1>6. \A s \in Range(q) : (IsModify(s) \/ IsDrop(s) \/ IsSet(s)) /\ StatementFits(columns, s)
  BY <1>2, <1>3, <1>4
<1>7. /\ \A w : Drops(p, w) => Drops(q, w)
      /\ \A w : Modifies(p, w) => Modifies(q, w)
      /\ \A w : Sets(o, w) => Sets(q, w)
  BY <1>4 DEF Drops, Modifies, Sets
<1>8. ASSUME NEW c \in Range(columns)
      PROVE  /\ c.name \notin Names(bp.columns) => Drops(q, c.name)
             /\ c.name \in Names(bp.columns) /\ ~ColumnReasons(c, ColumnOf(bp.columns, c.name)) =>
                  \A a \in {"not_null", "default", "type"} :
                    \/ c[a] = ColumnOf(bp.columns, c.name)[a]
                    \/ Modifies(q, Change(c.name, a))
  BY <1>2, <1>7
<1>9. \A x \in {"retention", "cluster", "tracking"} : OptionDiffers(x) => Sets(q, SetOption(x))
  BY <1>3, <1>7
<1> QED
  BY <1>4, <1>5, <1>6, <1>8, <1>9 DEF q

\* Whatever keeps its place in the table is altered to what is declared.
LEMMA AltersFit ==
  ASSUME InScene, AreSound(columns), ~ReplaceReasons, NEW n, n = Cardinality(Remaining),
         n \in 0..Len(bp.columns)
  PROVE  /\ IsSeq(Alters) /\ InOrder(Alters) /\ AddsFit(n, Alters)
         /\ ColumnsFit(columns, Alters) /\ OptionsFit(options, Alters)
         /\ StatementsFit(columns, Alters) /\ KeysAside(keys, Alters)
         /\ n = Len(bp.columns) => AddsNone(Alters)
<1> DEFINE s == SafeAlters
           u == UnsafeAlters
           a == s \o u
           say == Safe("intend", DroppingNames)
           q == Alters
<1>1. /\ IsSeq(s) /\ InOrder(s) /\ AddsFit(n, s)
      /\ \A t \in Range(s) : (IsModify(t) \/ IsAdd(t) \/ IsSet(t)) /\ StatementFits(columns, t)
      /\ \A c \in Range(columns) : c.name \in Names(bp.columns) =>
           \/ c.comment = ColumnOf(bp.columns, c.name).comment
           \/ Modifies(s, Change(c.name, "comment"))
      /\ OptionDiffers("comment") => Sets(s, SetOption("comment"))
      /\ n = Len(bp.columns) => AddsNone(s)
  BY SafeAltersAre
<1>2. /\ IsSeq(u) /\ InOrder(u)
      /\ \A t \in Range(u) : (IsModify(t) \/ IsDrop(t) \/ IsSet(t)) /\ StatementFits(columns, t)
      /\ \A c \in Range(columns) :
           /\ c.name \notin Names(bp.columns) => Drops(u, c.name)
           /\ c.name \in Names(bp.columns) /\ ~ColumnReasons(c, ColumnOf(bp.columns, c.name)) =>
                \A x \in {"not_null", "default", "type"} :
                  c[x] = ColumnOf(bp.columns, c.name)[x] \/ Modifies(u, Change(c.name, x))
      /\ \A o \in {"retention", "cluster", "tracking"} : OptionDiffers(o) => Sets(u, SetOption(o))
  BY UnsafeAltersAre
<1>3. q = IF a = << >> THEN << >> ELSE a \o << say >>
  BY DEF Alters
<1>4. IsIntend(say) /\ say.what = DroppingNames
  BY KindsAre
<1> HIDE DEF s, u, say, q
<1>5. IsSeq(a) /\ Range(a) = Range(s) \cup Range(u)
  BY <1>1, <1>2, JoinIsSeq
<1>6. InOrder(a)
  <2>1. ASSUME NEW x \in Range(s), NEW y \in Range(u) PROVE Before(x, y)
    <3>1. (IsModify(x) \/ IsAdd(x) \/ IsSet(x)) /\ (IsModify(y) \/ IsDrop(y) \/ IsSet(y))
      BY <1>1, <1>2
    <3> QED
      BY <3>1, OneKind DEF Before
  <2> QED
    BY <1>1, <1>2, <2>1, JoinInOrder
<1>7. \A x \in Range(a) : IsModify(x) \/ IsAdd(x) \/ IsDrop(x) \/ IsSet(x)
  BY <1>1, <1>2, <1>5
<1> HIDE DEF a
<1>8. /\ IsSeq(q) /\ InOrder(q) /\ Range(a) \subseteq Range(q)
      /\ \A x \in Range(q) : x \in Range(a) \/ x = say
  <2>1. CASE a = << >>
    BY <1>3, <1>5, <1>6, <2>1
  <2>2. CASE a # << >>
    <3>1. q = a \o << say >>
      BY <1>3, <2>2
    <3>2. IsSeq(<< say >>) /\ Range(<< say >>) = {say} /\ InOrder(<< say >>)
      BY UnitIsSeq, FewInOrder
    <3>3. IsSeq(q) /\ Range(q) = Range(a) \cup {say}
      BY <1>5, <3>1, <3>2, JoinIsSeq
    <3>4. ASSUME NEW x \in Range(a), NEW y \in Range(<< say >>) PROVE Before(x, y)
      <4>1. IsModify(x) \/ IsAdd(x) \/ IsDrop(x) \/ IsSet(x)
        BY <1>7
      <4>2. IsIntend(y)
        BY <1>4, <3>2
      <4> QED
        BY <4>1, <4>2, OneKind DEF Before
    <3>5. InOrder(q)
      BY <1>5, <1>6, <3>1, <3>2, <3>4, JoinInOrder
    <3> QED
      BY <3>3, <3>5
  <2> QED
    BY <2>1, <2>2
<1>9. /\ \A w : Drops(u, w) => Drops(q, w)
      /\ \A w : Modifies(s, w) \/ Modifies(u, w) => Modifies(q, w)
      /\ \A w : Sets(s, w) \/ Sets(u, w) => Sets(q, w)
      /\ \A w : Adds(s, w) => Adds(q, w)
  BY <1>5, <1>8 DEF Drops, Modifies, Sets, Adds
<1>10. ColumnsFit(columns, q)
  <2>1. ASSUME NEW c \in Range(columns) PROVE ColumnFits(c, q)
    <3>1. CASE c.name \notin Names(bp.columns)
      BY <1>2, <1>9, <3>1 DEF ColumnFits
    <3>2. CASE c.name \in Names(bp.columns)
      <4> DEFINE new == ColumnOf(bp.columns, c.name)
      <4>1. ~ColumnReasons(c, new)
        <5>1. PICK k \in DOMAIN columns : c = columns[k]
          BY DEF Range
        <5>2. k \in Remaining
          BY <3>2, <5>1 DEF Remaining
        <5> QED
          BY <5>1, <5>2 DEF ReplaceReasons
      <4>2. c.collate = new.collate
        BY <4>1 DEF ColumnReasons
      <4>3. ASSUME NEW x \in Altered, c[x] # new[x] PROVE Modifies(q, Change(c.name, x))
        <5>1. CASE x = "comment"
          BY <1>1, <1>9, <3>2, <4>3, <5>1
        <5>2. CASE x \in {"not_null", "default", "type"}
          BY <1>2, <1>9, <3>2, <4>1, <4>3, <5>2
        <5> QED
          BY <5>1, <5>2 DEF Altered
      <4> HIDE DEF new
      <4> QED
        BY <3>2, <4>2, <4>3 DEF ColumnFits, new
    <3> QED
      BY <3>1, <3>2
  <2> QED
    BY <2>1 DEF ColumnsFit
<1>11. OptionsFit(options, q)
  <2>1. options.is_transient = bp.options.is_transient
    BY DEF ReplaceReasons
  <2>2. ASSUME NEW o \in Options, ~OptionIs(options, o) PROVE Sets(q, SetOption(o))
    <3>1. OptionDiffers(o)
      BY <2>2 DEF OptionIs, OptionDiffers
    <3>2. o = "comment" \/ o \in {"retention", "cluster", "tracking"}
      BY DEF Options
    <3> QED
      BY <1>1, <1>2, <1>9, <3>1, <3>2
  <2> QED
    BY <2>1, <2>2 DEF OptionsFit
<1>12. ASSUME NEW m \in DroppingNames PROVE Drops(q, m)
  <2>1. m \in Names(columns) /\ m \notin Names(bp.columns)
    BY DEF DroppingNames
  <2>2. PICK k \in DOMAIN columns : columns[k].name = m
    BY <2>1, NamesAre
  <2>3. columns[k] \in Range(columns)
    BY DEF Range
  <2> QED
    BY <1>2, <1>9, <2>1, <2>2, <2>3
<1>13. KeysAside(keys, q)
  BY <1>4, <1>7, <1>8, <1>12, OneKind DEF KeysAside
<1>14. StatementFits(columns, say)
  <2>1. say.what \cap Names(bp.columns) = {}
    BY <1>4 DEF DroppingNames
  <2> QED
    BY <1>4, <2>1, OneKind DEF StatementFits
<1>15. StatementsFit(columns, q)
  BY <1>1, <1>2, <1>5, <1>8, <1>14 DEF StatementsFit
<1>16. \A x \in Range(q) : IsAdd(x) => x \in Range(s)
  BY <1>2, <1>4, <1>5, <1>8, OneKind
<1>17. AddsFit(n, q)
  BY <1>1, <1>9, <1>16 DEF AddsFit
<1>18. n = Len(bp.columns) => AddsNone(q)
  BY <1>1, <1>16 DEF AddsNone
<1>19. /\ IsSeq(q) /\ InOrder(q) /\ AddsFit(n, q)
       /\ ColumnsFit(columns, q) /\ OptionsFit(options, q)
       /\ StatementsFit(columns, q) /\ KeysAside(keys, q)
       /\ n = Len(bp.columns) => AddsNone(q)
  BY <1>8, <1>10, <1>11, <1>13, <1>15, <1>17, <1>18
<1>20. /\ IsSeq(Alters) /\ InOrder(Alters) /\ AddsFit(n, Alters)
       /\ ColumnsFit(columns, Alters) /\ OptionsFit(options, Alters)
       /\ StatementsFit(columns, Alters) /\ KeysAside(keys, Alters)
       /\ n = Len(bp.columns) => AddsNone(Alters)
  BY <1>19 DEF q
<1> QED
  BY <1>20

\* One statement and then the rest.
LEMMA FirstAndRest ==
  ASSUME NEW s, NEW r, IsSeq(r)
  PROVE  Splits(<< s >> \o r, s, r)
<1> DEFINE q == << s >> \o r
           T == {s} \cup Range(r)
           n == Len(r)
<1>1. IsSeq(<< s >>) /\ Range(<< s >>) = {s}
  BY UnitIsSeq
<1>2. IsSeq(q) /\ Range(q) = T
  BY <1>1, JoinIsSeq
<1>3. << s >> \in Seq(T) /\ r \in Seq(T)
  BY <1>1, SeqIn
<1>4. Len(<< s >>) = 1 /\ << s >>[1] = s
  OBVIOUS
<1>5. /\ Len(q) = 1 + n /\ q[1] = s
      /\ \A i \in 1..n : q[i + 1] = r[i]
  <2> DEFINE u == << s >>
  <2>1. u \in Seq(T) /\ Len(u) = 1 /\ u[1] = s
    BY <1>3, <1>4
  <2> HIDE DEF u, T
  <2>2. /\ Len(u \o r) = Len(u) + n
        /\ \A i \in 1..Len(u) : (u \o r)[i] = u[i]
        /\ \A i \in 1..n : (u \o r)[i + Len(u)] = r[i]
    BY <1>3, <2>1, JoinAt
  <2> QED
    BY <2>1, <2>2 DEF u
<1>6. n \in Nat /\ r = [i \in 1..n |-> r[i]]
  BY SeqElim
<1>7. q # << >>
  BY <1>2, EmptyIsSeq
<1> HIDE DEF q, T, n
<1>8. /\ Head(q) = q[1] /\ IsSeq(Tail(q)) /\ Len(Tail(q)) = Len(q) - 1
      /\ \A i \in 1..(Len(q) - 1) : Tail(q)[i] = q[i + 1]
  BY <1>2, <1>7, HeadTail
<1>9. Tail(q) = [i \in 1..Len(Tail(q)) |-> Tail(q)[i]]
  BY <1>8, SeqElim
<1>10. Tail(q) = r
  <2> DEFINE t == Tail(q)
  <2>1. t = [i \in 1..n |-> t[i]] /\ \A i \in 1..n : t[i] = r[i]
    <3>1. Len(q) - 1 = n
      BY <1>5, <1>6
    <3> QED
      BY <1>5, <1>8, <1>9, <3>1
  <2> HIDE DEF t
  <2>2. t = r
    BY <1>6, <2>1
  <2> QED
    BY <2>2 DEF t
<1>11. Splits(q, s, r)
  BY <1>2, <1>5, <1>7, <1>8, <1>10 DEF Splits
<1> QED
  BY <1>11 DEF q

\* A table that is replaced.
LEMMA ReplaceFits ==
  ASSUME InScene, ReplaceReasons
  PROVE  Rebuilding(CompareTable)
<1> DEFINE add(x) == Gated("add search", x)
           f == [i \in DOMAIN CreateSearch |-> << add(CreateSearch[i]) >>]
           g == [x \in Range(CreateSearch) |-> add(x)]
           s == Gated("replace", None)
           r == FlattenSeq(f)
           said == Safe("intend", Names(columns))
<1>1. CompareTable = (<< s >> \o r) \o << said >>
  BY DEF CompareTable, ForEach
<1>2. IsRebuild(s) /\ IsIntend(said) /\ \A x : IsMore(add(x)) /\ add(x).what = x
  BY KindsAre
<1> HIDE DEF add, s, said
<1>3. f = [i \in DOMAIN CreateSearch |-> << g[CreateSearch[i]] >>]
  BY DEF Range
<1>4. \A x \in Range(CreateSearch) : IsMore(g[x]) /\ g[x].what = x
  BY <1>2
<1> HIDE DEF f, g
<1>5. /\ IsSeq(r) /\ SearchFits({}, r)
      /\ \A t \in Range(r) : IsMore(t) /\ t.what \subseteq WantedItems /\ t.what # {}
  BY <1>3, <1>4, CreateSearchFits
<1> HIDE DEF r
<1>6. Splits(<< s >> \o r, s, r)
  BY <1>5, FirstAndRest
<1>7. Splits((<< s >> \o r) \o << said >>, s, r \o << said >>)
  BY <1>6, UnitIsSeq, SplitOfJoin
<1> QED
  BY <1>1, <1>2, <1>5, <1>7 DEF Rebuilding, Fills

\* A table that is created.
LEMMA CreateFits ==
  ASSUME InScene
  PROVE  Rebuilding(CreateTable)
<1> DEFINE add(x) == Unsafe("add search", x)
           f == [i \in DOMAIN CreateSearch |-> << add(CreateSearch[i]) >>]
           g == [x \in Range(CreateSearch) |-> add(x)]
           s == Safe("create", None)
           r == FlattenSeq(f)
<1>1. CreateTable = << s >> \o r
  BY DEF CreateTable, ForEach
<1>2. IsRebuild(s) /\ \A x : IsMore(add(x)) /\ add(x).what = x
  BY KindsAre
<1> HIDE DEF add, s
<1>3. f = [i \in DOMAIN CreateSearch |-> << g[CreateSearch[i]] >>]
  BY DEF Range
<1>4. \A x \in Range(CreateSearch) : IsMore(g[x]) /\ g[x].what = x
  BY <1>2
<1> HIDE DEF f, g
<1>5. /\ IsSeq(r) /\ SearchFits({}, r)
      /\ \A t \in Range(r) : IsMore(t) /\ t.what \subseteq WantedItems /\ t.what # {}
  BY <1>3, <1>4, CreateSearchFits
<1> HIDE DEF r
<1>6. Splits(<< s >> \o r, s, r)
  BY <1>5, FirstAndRest
<1> QED
  BY <1>1, <1>2, <1>5, <1>6 DEF Rebuilding, Fills

\* A table that is altered; one that has the declared columns gets no more.
LEMMA AlterFits ==
  ASSUME InScene, AreSound(columns), search \subseteq SearchItems, ~ReplaceReasons
  PROVE  /\ Altering(columns, options, search, keys, CompareTable)
         /\ Exact(columns)
         /\ ColumnsAsDeclared => AddsNone(CompareTable)
<1> DEFINE a == Alters
           c == CompareSearch
           q == CompareTable
           n == Cardinality(Remaining)
           N == Len(bp.columns)
<1>1. q = a \o c
  BY DEF CompareTable
<1>2. n \in 0..N /\ PlacesFit(columns, n)
  BY RemainingFit DEF ReplaceReasons
<1>3. /\ IsSeq(a) /\ InOrder(a) /\ AddsFit(n, a)
      /\ ColumnsFit(columns, a) /\ OptionsFit(options, a)
      /\ StatementsFit(columns, a) /\ KeysAside(keys, a)
      /\ n = N => AddsNone(a)
  BY <1>2, AltersFit
<1>4. /\ IsSeq(c) /\ SearchFits(search, c)
      /\ \A s \in Range(c) : (IsMore(s) \/ IsLess(s)) /\ StatementFits(columns, s)
  BY CompareSearchIs
<1>15. ColumnsAsDeclared => n = N
  <2>1. ASSUME ColumnsAsDeclared PROVE n = N
    <3>1. N \in Nat /\ DOMAIN bp.columns = 1..N
      BY Declarations
    <3>2. DOMAIN columns = 1..N
      BY <2>1, SeqElim DEF ColumnsAsDeclared, AreSound, HaveNames
    <3>3. \A i \in DOMAIN columns : columns[i].name \in Names(bp.columns)
      <4>1. ASSUME NEW i \in DOMAIN columns PROVE columns[i].name \in Names(bp.columns)
        <5>1. columns[i].name = bp.columns[i].name
          BY <2>1 DEF ColumnsAsDeclared, Attributes
        <5>2. bp.columns[i].name \in Names(bp.columns)
          BY <3>1, <3>2, Declarations
        <5> QED
          BY <5>1, <5>2
      <4> QED
        BY <4>1
    <3>4. Remaining = 1..N
      BY <3>2, <3>3 DEF Remaining
    <3> HIDE DEF N
    <3> QED
      BY <3>1, <3>4, IntervalSize
  <2> QED
    BY <2>1
<1> HIDE DEF a, c, q, n
<1>5. IsSeq(q) /\ Range(q) = Range(a) \cup Range(c)
  BY <1>1, <1>3, <1>4, JoinIsSeq
<1>6. InOrder(q)
  <2>1. InOrder(c)
    BY <1>4, PlainInOrder
  <2>2. ASSUME NEW x \in Range(a), NEW y \in Range(c) PROVE Before(x, y)
    <3>1. IsMore(y) \/ IsLess(y)
      BY <1>4
    <3> QED
      BY <3>1, OneKind DEF Before
  <2> QED
    BY <1>1, <1>3, <1>4, <2>1, <2>2, JoinInOrder
<1>7. /\ \A w : Drops(a, w) => Drops(q, w)
      /\ \A w : Modifies(a, w) => Modifies(q, w)
      /\ \A w : Sets(a, w) => Sets(q, w)
      /\ \A w : Adds(a, w) => Adds(q, w)
  BY <1>5 DEF Drops, Modifies, Sets, Adds
<1>8. ColumnsFit(columns, q)
  BY <1>3, <1>7 DEF ColumnsFit, ColumnFits
<1>9. OptionsFit(options, q)
  BY <1>3, <1>7 DEF OptionsFit
<1>10. SearchFits(search, q)
  BY <1>4, <1>5 DEF SearchFits
<1>11. StatementsFit(columns, q)
  BY <1>3, <1>4, <1>5 DEF StatementsFit
<1>12. \A s \in Range(q) : IsAdd(s) \/ IsIntend(s) => s \in Range(a)
  BY <1>4, <1>5, OneKind
<1>13. AddsFit(n, q) /\ KeysAside(keys, q)
  <2>1. AddsFit(n, q)
    BY <1>3, <1>7, <1>12 DEF AddsFit
  <2>2. KeysAside(keys, q)
    BY <1>3, <1>7, <1>12 DEF KeysAside
  <2> QED
    BY <2>1, <2>2
<1>14. n = N => AddsNone(q)
  BY <1>3, <1>12 DEF AddsNone
<1>16. Exact(columns)
  <2>1. ASSUME NEW i \in DOMAIN columns, columns[i].name \in Names(bp.columns)
        PROVE  columns[i].expression = ColumnOf(bp.columns, columns[i].name).expression
    <3>1. i \in Remaining
      BY <2>1 DEF Remaining
    <3> QED
      BY <3>1 DEF ReplaceReasons, ColumnReasons
  <2> QED
    BY <2>1 DEF Exact, Range
<1>17. Altering(columns, options, search, keys, q)
  BY <1>2, <1>5, <1>6, <1>8, <1>9, <1>10, <1>11, <1>13 DEF Altering, N
<1> QED
  BY <1>14, <1>15, <1>16, <1>17 DEF q

-----------------------------------------------------------------------------
(* The tasks of a resolver of keys.                                        *)

DropIt(k) == Safe("drop key", k)
AddIt(l) == Safe("add key", l)

\* No two keys that there are, are the same one.
AreUnique(ks) == \A k, l \in ks : SameKey(k, l) => k = l

\* A key is added that is not there, one that is not declared is dropped, or replaced.
TaskFits(ks, q) ==
  \/ q = << >>
  \/ \E l \in bp.keys : q = << AddIt(l) >> /\ \A k \in ks : ~SameKey(k, l)
  \/ \E k \in ks \ bp.keys : q = << DropIt(k) >>
  \/ \E k \in ks \ bp.keys, l \in bp.keys : SameKey(k, l) /\ q = << DropIt(k), AddIt(l) >>

\* Tasks are of keys of one kind, different tasks of different keys.
KeyTaskSet(kind) ==
  Seq({DropIt(k) : k \in {l \in KeyRecords : l.kind = kind}}
      \cup {AddIt(k) : k \in {l \in KeyRecords : l.kind = kind}})
Apart(kind) ==
  {z \in KeyTaskSet(kind) \X KeyTaskSet(kind) :
     \A s \in Range(z[1]), t \in Range(z[2]) : ~SameKey(s.what, t.what)}

\* What tasks ask for.
AskFor(d, s) == \E q \in Range(d) : s \in Range(q)

\* The tasks d are what is left to make the keys ks of a kind the declared ones.
TasksFit(kind, ks, d) ==
  /\ IsSeq(d) /\ Ordered(d, Apart(kind))
  /\ \A q \in Range(d) : q \in KeyTaskSet(kind) /\ TaskFits(ks, q)
  /\ \A k \in ks : k.kind = kind /\ k \notin bp.keys => AskFor(d, DropIt(k))
  /\ \A l \in bp.keys : l.kind = kind /\ l \notin ks => AskFor(d, AddIt(l))

\* The sameness of keys is an equivalence.
LEMMA SameKeyIs ==
  /\ \A k : SameKey(k, k)
  /\ \A k, l : SameKey(k, l) => SameKey(l, k)
  /\ \A k, l, m : SameKey(k, l) /\ SameKey(l, m) => SameKey(k, m)
  BY DEF SameKey

\* What the statements of keys are about.
LEMMA KeyStatementIs ==
  /\ \A k : DropIt(k).what = k /\ AddIt(k).what = k
  /\ \A k, l : DropIt(k) # AddIt(l)
  /\ \A k, l : DropIt(k) = DropIt(l) => k = l
  /\ \A k, l : AddIt(k) = AddIt(l) => k = l
<1>1. \A k : DropIt(k).what = k /\ AddIt(k).what = k
  BY DEF DropIt, AddIt, Safe
<1>2. \A k, l : DropIt(k).op # AddIt(l).op
  BY DEF DropIt, AddIt, Safe
<1>3. ASSUME NEW k, NEW l, DropIt(k) = DropIt(l) PROVE k = l
  BY <1>1, <1>3
<1>4. ASSUME NEW k, NEW l, AddIt(k) = AddIt(l) PROVE k = l
  BY <1>1, <1>4
<1>5. ASSUME NEW k, NEW l, DropIt(k) = AddIt(l) PROVE FALSE
  BY <1>2, <1>5
<1> QED
  BY <1>1, <1>3, <1>4, <1>5

\* Statements of keys change keys only.
LEMMA KeyStatementDoes ==
  ASSUME NEW k
  PROVE  /\ ColumnsAfter(DropIt(k)) = columns /\ ColumnsAfter(AddIt(k)) = columns
         /\ OptionsAfter(DropIt(k)) = options /\ OptionsAfter(AddIt(k)) = options
         /\ SearchAfter(DropIt(k)) = search /\ SearchAfter(AddIt(k)) = search
         /\ KeysAfter(DropIt(k)) = keys \ {k} /\ KeysAfter(AddIt(k)) = keys \cup {k}
         /\ IsLegal(DropIt(k)) <=> k \in keys
         /\ IsLegal(AddIt(k)) <=> k.columns \subseteq Names(columns) /\ \A l \in keys : ~SameKey(l, k)
         /\ ~IsIntend(DropIt(k)) /\ ~IsIntend(AddIt(k))
  BY DEF ColumnsAfter, OptionsAfter, SearchAfter, KeysAfter, IsLegal, IsIntend, DropIt, AddIt, Safe

\* A sequence of one, or two.
LEMMA OneOrTwo ==
  ASSUME NEW x, NEW y
  PROVE  /\ Head(<< x >>) = x /\ Tail(<< x >>) = << >> /\ << x >> # << >>
         /\ Head(<< x, y >>) = x /\ Tail(<< x, y >>) = << y >> /\ << x, y >> # << >>
         /\ Range(<< x, y >>) = {x, y} /\ Range(<< x >>) = {x}
         /\ \A S : x \in S => << x >> \in Seq(S)
         /\ \A S : x \in S /\ y \in S => << x, y >> \in Seq(S)
<1>1. Head(<< x >>) = x /\ Tail(<< x >>) = << >> /\ << x >> # << >>
  OBVIOUS
<1>2. Head(<< x, y >>) = x /\ Tail(<< x, y >>) = << y >> /\ << x, y >> # << >>
  OBVIOUS
<1>3. Range(<< x, y >>) = {x, y} /\ Range(<< x >>) = {x}
  BY DEF Range
<1>4. ASSUME NEW S, x \in S PROVE << x >> \in Seq(S)
  BY <1>4
<1>5. ASSUME NEW S, x \in S, y \in S PROVE << x, y >> \in Seq(S)
  BY <1>5
<1> QED
  BY <1>1, <1>2, <1>3, <1>4, <1>5

\* What a task begins with, and what is left of it.
LEMMA TaskBegins ==
  ASSUME NEW ks, AreUnique(ks), NEW q, TaskFits(ks, q), q # << >>
  PROVE  \/ \E l \in bp.keys :
              /\ Head(q) = AddIt(l) /\ Tail(q) = << >> /\ \A k \in ks : ~SameKey(k, l)
         \/ \E k \in ks \ bp.keys :
              /\ Head(q) = DropIt(k) /\ TaskFits(ks \ {k}, Tail(q))
              /\ \A s \in Range(q) : s = Head(q) \/ s \in Range(Tail(q))
<1>1. CASE \E l \in bp.keys : q = << AddIt(l) >> /\ \A k \in ks : ~SameKey(k, l)
  BY <1>1, OneOrTwo
<1>2. CASE \E k \in ks \ bp.keys : q = << DropIt(k) >>
  <2>1. PICK k \in ks \ bp.keys : q = << DropIt(k) >>
    BY <1>2
  <2>2. Head(q) = DropIt(k) /\ Tail(q) = << >> /\ Range(q) = {DropIt(k)}
    BY <2>1, OneOrTwo
  <2>3. TaskFits(ks \ {k}, Tail(q))
    BY <2>2 DEF TaskFits
  <2> QED
    BY <2>2, <2>3
<1>3. CASE \E k \in ks \ bp.keys, l \in bp.keys : SameKey(k, l) /\ q = << DropIt(k), AddIt(l) >>
  <2>1. PICK k \in ks \ bp.keys, l \in bp.keys : SameKey(k, l) /\ q = << DropIt(k), AddIt(l) >>
    BY <1>3
  <2>2. /\ Head(q) = DropIt(k) /\ Tail(q) = << AddIt(l) >> /\ Range(q) = {DropIt(k), AddIt(l)}
        /\ Range(Tail(q)) = {AddIt(l)}
    <3> DEFINE x == DropIt(k)
               y == AddIt(l)
    <3>1. q = << x, y >>
      BY <2>1
    <3> HIDE DEF x, y
    <3>2. Head(q) = x /\ Tail(q) = << y >> /\ Range(q) = {x, y}
      BY <3>1, OneOrTwo
    <3>3. Range(<< y >>) = {y}
      BY OneOrTwo
    <3> QED
      BY <3>2, <3>3 DEF x, y
  <2>3. ASSUME NEW m \in ks \ {k} PROVE ~SameKey(m, l)
    <3>1. SameKey(m, l) => SameKey(m, k)
      BY <2>1, SameKeyIs
    <3> QED
      BY <3>1 DEF AreUnique
  <2>4. TaskFits(ks \ {k}, Tail(q))
    BY <2>1, <2>2, <2>3 DEF TaskFits
  <2> QED
    BY <2>2, <2>4
<1> QED
  BY <1>1, <1>2, <1>3 DEF TaskFits

\* A task fits whatever happens to other keys.
LEMMA TaskStillFits ==
  ASSUME NEW ks, NEW q, TaskFits(ks, q), NEW new, NEW m,
         new \subseteq ks \cup {m}, ks \ {m} \subseteq new,
         \A s \in Range(q) : ~SameKey(m, s.what)
  PROVE  TaskFits(new, q)
<1>1. CASE \E l \in bp.keys : q = << AddIt(l) >> /\ \A k \in ks : ~SameKey(k, l)
  <2>1. PICK l \in bp.keys : q = << AddIt(l) >> /\ \A k \in ks : ~SameKey(k, l)
    BY <1>1
  <2>2. ~SameKey(m, l)
    <3>1. AddIt(l) \in Range(q) /\ AddIt(l).what = l
      BY <2>1, UnitIsSeq, KeyStatementIs
    <3> QED
      BY <3>1
  <2> QED
    BY <2>1, <2>2 DEF TaskFits
<1>2. CASE \E k \in ks \ bp.keys : q = << DropIt(k) >>
  <2>1. PICK k \in ks \ bp.keys : q = << DropIt(k) >>
    BY <1>2
  <2>2. ~SameKey(m, k)
    <3>1. DropIt(k) \in Range(q) /\ DropIt(k).what = k
      BY <2>1, UnitIsSeq, KeyStatementIs
    <3> QED
      BY <3>1
  <2>3. k \in new
    BY <2>2, SameKeyIs
  <2> QED
    BY <2>1, <2>3 DEF TaskFits
<1>3. CASE \E k \in ks \ bp.keys, l \in bp.keys : SameKey(k, l) /\ q = << DropIt(k), AddIt(l) >>
  <2>1. PICK k \in ks \ bp.keys, l \in bp.keys : SameKey(k, l) /\ q = << DropIt(k), AddIt(l) >>
    BY <1>3
  <2>2. ~SameKey(m, k)
    <3>1. DropIt(k) \in Range(q) /\ DropIt(k).what = k
      <4>1. ASSUME NEW x, NEW y PROVE x \in Range(<< x, y >>)
        <5>1. Range(<< x, y >>) = {x, y}
          BY OneOrTwo
        <5> QED
          BY <5>1
      <4> QED
        BY <2>1, <4>1, KeyStatementIs
    <3> QED
      BY <3>1
  <2>3. k \in new
    BY <2>2, SameKeyIs
  <2> QED
    BY <2>1, <2>3 DEF TaskFits
<1> QED
  BY <1>1, <1>2, <1>3 DEF TaskFits

\* The statements of a task are of keys of one kind.
LEMMA TaskIsOf ==
  ASSUME NEW kind, NEW q, q \in KeyTaskSet(kind)
  PROVE  /\ IsSeq(q) /\ \A s \in Range(q) : s.what \in KeyRecords /\ s.what.kind = kind
         /\ \A s, r : Splits(q, s, r) => r \in KeyTaskSet(kind)
<1> DEFINE S == {DropIt(k) : k \in {l \in KeyRecords : l.kind = kind}}
                \cup {AddIt(k) : k \in {l \in KeyRecords : l.kind = kind}}
<1>1. q \in Seq(S)
  BY DEF KeyTaskSet
<1>2. ASSUME NEW s \in S PROVE s.what \in KeyRecords /\ s.what.kind = kind
  BY KeyStatementIs
<1>3. KeyTaskSet(kind) = Seq(S)
  BY DEF KeyTaskSet
<1> HIDE DEF S
<1>4. IsSeq(q) /\ Range(q) \subseteq S
  BY <1>1, SeqWithin
<1>5. ASSUME NEW s, NEW r, Splits(q, s, r) PROVE r \in Seq(S)
  <2>1. IsSeq(r) /\ Range(r) \subseteq Range(q)
    BY <1>5, SplitIs
  <2> QED
    BY <1>4, <2>1, SeqIn
<1> QED
  BY <1>2, <1>3, <1>4, <1>5

\* Statements of keys of one kind are tasks of it.
LEMMA TasksOfKind ==
  ASSUME NEW k \in KeyRecords, NEW l \in KeyRecords, l.kind = k.kind
  PROVE  /\ << >> \in KeyTaskSet(k.kind) /\ << DropIt(k) >> \in KeyTaskSet(k.kind)
         /\ << AddIt(l) >> \in KeyTaskSet(k.kind) /\ << DropIt(k), AddIt(l) >> \in KeyTaskSet(k.kind)
<1> DEFINE kind == k.kind
           S == {DropIt(m) : m \in {n \in KeyRecords : n.kind = kind}}
                \cup {AddIt(m) : m \in {n \in KeyRecords : n.kind = kind}}
           x == DropIt(k)
           y == AddIt(l)
<1>1. x \in S /\ y \in S
  OBVIOUS
<1>2. KeyTaskSet(k.kind) = Seq(S)
  BY DEF KeyTaskSet
<1> HIDE DEF S, x, y
<1>3. << x >> \in Seq(S) /\ << y >> \in Seq(S) /\ << x, y >> \in Seq(S) /\ << >> \in Seq(S)
  BY <1>1
<1> QED
  BY <1>2, <1>3 DEF x, y

\* A task is done.
LEMMA TaskIsDone ==
  ASSUME NEW kind, NEW ks, NEW d, NEW h, NEW t, Splits(d, h, t), TasksFit(kind, ks, d), h = << >>
  PROVE  TasksFit(kind, ks, t)
<1>1. /\ IsSeq(d) /\ d # << >> /\ h = Head(d) /\ t = Tail(d)
  BY DEF Splits
<1>2. IsSeq(t) /\ Range(t) \subseteq Range(d) /\ \A x \in Range(d) : x = h \/ x \in Range(t)
  BY SplitIs
<1>3. Ordered(t, Apart(kind))
  BY <1>1, OrderedTail DEF TasksFit
<1>4. ASSUME NEW s, AskFor(d, s) PROVE AskFor(t, s)
  <2>1. PICK q \in Range(d) : s \in Range(q)
    BY <1>4 DEF AskFor
  <2>2. q # << >>
    BY <2>1, EmptyIsSeq
  <2> QED
    BY <1>2, <2>1, <2>2 DEF AskFor
<1> QED
  BY <1>2, <1>3, <1>4 DEF TasksFit

\* A statement of a task is done.
LEMMA TasksGoOn ==
  ASSUME NEW kind, NEW d, NEW h, NEW t, NEW s, NEW r, NEW m, NEW new,
         Splits(d, h, t), Splits(h, s, r), TasksFit(kind, keys, d),
         s.what = m, new \subseteq keys \cup {m}, keys \ {m} \subseteq new, TaskFits(new, r),
         m \in new => m \in bp.keys /\ s = AddIt(m), m \notin new => m \notin bp.keys /\ s = DropIt(m)
  PROVE  TasksFit(kind, new, << r >> \o t)
<1> DEFINE e == << r >> \o t
<1>1. IsSeq(d) /\ d # << >> /\ h = Head(d) /\ t = Tail(d)
  BY DEF Splits
<1>2. IsSeq(t) /\ Range(t) \subseteq Range(d) /\ h \in Range(d) /\ \A x \in Range(d) : x = h \/ x \in Range(t)
  BY SplitIs
<1>3. IsSeq(r) /\ s \in Range(h) /\ Range(r) \subseteq Range(h) /\ \A x \in Range(h) : x = s \/ x \in Range(r)
  BY SplitIs
<1>4. Ordered(t, Apart(kind)) /\ \A x \in Range(t) : << h, x >> \in Apart(kind)
  BY <1>1, OrderedTail DEF TasksFit
<1>5. IsSeq(<< r >>) /\ Range(<< r >>) = {r}
  BY UnitIsSeq
<1>6. IsSeq(e) /\ Range(e) = {r} \cup Range(t)
  BY <1>2, <1>5, JoinIsSeq
<1>7. h \in KeyTaskSet(kind) /\ r \in KeyTaskSet(kind)
  BY <1>2, TaskIsOf DEF TasksFit
<1>8. ASSUME NEW x \in Range(t)
      PROVE  << r, x >> \in Apart(kind) /\ x \in KeyTaskSet(kind) /\ TaskFits(new, x)
  <2>1. x \in KeyTaskSet(kind) /\ TaskFits(keys, x)
    BY <1>2 DEF TasksFit
  <2>2. \A u \in Range(h), v \in Range(x) : ~SameKey(u.what, v.what)
    BY <1>4 DEF Apart
  <2>3. \A u \in Range(r), v \in Range(x) : ~SameKey(u.what, v.what)
    BY <1>3, <2>2
  <2>4. \A v \in Range(x) : ~SameKey(m, v.what)
    BY <1>3, <2>2
  <2>5. TaskFits(new, x)
    BY <2>1, <2>4, TaskStillFits
  <2> QED
    BY <1>7, <2>1, <2>3, <2>5 DEF Apart
<1>9. Ordered(e, Apart(kind))
  <2>1. Ordered(<< r >>, Apart(kind))
    BY OrderedUnit
  <2>2. \A x \in Range(<< r >>), y \in Range(t) : << x, y >> \in Apart(kind)
    BY <1>5, <1>8
  <2> QED
    BY <1>2, <1>4, <1>5, <2>1, <2>2, OrderedJoin
<1> HIDE DEF e
<1>10. ASSUME NEW x, AskFor(d, x), x # s PROVE AskFor(e, x)
  <2>1. PICK q \in Range(d) : x \in Range(q)
    BY <1>10 DEF AskFor
  <2>2. CASE q = h
    BY <1>3, <1>6, <1>10, <2>1, <2>2 DEF AskFor
  <2>3. CASE q # h
    BY <1>2, <1>6, <2>1, <2>3 DEF AskFor
  <2> QED
    BY <2>2, <2>3
<1>11. ASSUME NEW k \in new, k.kind = kind, k \notin bp.keys PROVE AskFor(e, DropIt(k))
  <2>1. k # m
    BY <1>11
  <2>2. k \in keys /\ DropIt(k) # s
    BY <1>11, <2>1, KeyStatementIs
  <2>3. AskFor(d, DropIt(k))
    BY <1>11, <2>2 DEF TasksFit
  <2> QED
    BY <1>10, <2>2, <2>3
<1>12. ASSUME NEW l \in bp.keys, l.kind = kind, l \notin new PROVE AskFor(e, AddIt(l))
  <2>1. l # m
    BY <1>12
  <2>2. l \notin keys /\ AddIt(l) # s
    BY <1>12, <2>1, KeyStatementIs
  <2>3. AskFor(d, AddIt(l))
    BY <1>12, <2>2 DEF TasksFit
  <2> QED
    BY <1>10, <2>2, <2>3
<1>13. \A q \in Range(e) : q \in KeyTaskSet(kind) /\ TaskFits(new, q)
  BY <1>6, <1>7, <1>8
<1> QED
  BY <1>6, <1>9, <1>11, <1>12, <1>13 DEF TasksFit, e

\* Keys remain unique when one goes, or one comes that was not there.
LEMMA StillUnique ==
  ASSUME NEW ks, AreUnique(ks), NEW m
  PROVE  /\ \A new : new \subseteq ks => AreUnique(new)
         /\ (\A k \in ks : ~SameKey(k, m)) => AreUnique(ks \cup {m})
  BY SameKeyIs DEF AreUnique

\* One statement of a resolver of keys.
LEMMA KeyIsDone ==
  ASSUME InScene, AreUnique(keys), Names(bp.columns) \subseteq Names(columns),
         NEW kind, NEW d, NEW h, NEW t, NEW s, NEW r,
         Splits(d, h, t), Splits(h, s, r), TasksFit(kind, keys, d)
  PROVE  /\ IsLegal(s) /\ ~IsIntend(s) /\ ColumnsAfter(s) = columns /\ OptionsAfter(s) = options
         /\ SearchAfter(s) = search /\ AreUnique(KeysAfter(s)) /\ KeysAfter(s) \subseteq keys \cup bp.keys
         /\ TasksFit(kind, KeysAfter(s), << r >> \o t)
         /\ \A k : k.kind # kind => (k \in KeysAfter(s) <=> k \in keys)
<1>1. h # << >> /\ s = Head(h) /\ r = Tail(h)
  BY DEF Splits
<1>2. h \in Range(d)
  BY SplitIs
<1>3. TaskFits(keys, h) /\ h \in KeyTaskSet(kind)
  BY <1>2 DEF TasksFit
<1>4. s \in Range(h)
  BY SplitIs
<1>5. s.what.kind = kind
  BY <1>3, <1>4, TaskIsOf
<1>6. \/ \E l \in bp.keys : s = AddIt(l) /\ r = << >> /\ \A k \in keys : ~SameKey(k, l)
      \/ \E k \in keys \ bp.keys : s = DropIt(k) /\ TaskFits(keys \ {k}, r)
  <2>1. \/ \E l \in bp.keys :
              /\ Head(h) = AddIt(l) /\ Tail(h) = << >> /\ \A k \in keys : ~SameKey(k, l)
        \/ \E k \in keys \ bp.keys :
              /\ Head(h) = DropIt(k) /\ TaskFits(keys \ {k}, Tail(h))
              /\ \A x \in Range(h) : x = Head(h) \/ x \in Range(Tail(h))
    BY <1>1, <1>3, TaskBegins
  <2> QED
    BY <1>1, <2>1, Zenon
<1>7. CASE \E l \in bp.keys : s = AddIt(l) /\ r = << >> /\ \A k \in keys : ~SameKey(k, l)
  <2>1. PICK l \in bp.keys : s = AddIt(l) /\ r = << >> /\ \A k \in keys : ~SameKey(k, l)
    BY <1>7
  <2>2. s.what = l /\ l.kind = kind
    BY <1>5, <2>1, KeyStatementIs
  <2>3. l.columns \subseteq Names(columns)
    BY SearchIsDeclared DEF InScene
  <2>4. /\ IsLegal(s) /\ ~IsIntend(s) /\ ColumnsAfter(s) = columns /\ OptionsAfter(s) = options
        /\ SearchAfter(s) = search /\ KeysAfter(s) = keys \cup {l}
    BY <2>1, <2>3, KeyStatementDoes
  <2>5. AreUnique(keys \cup {l})
    BY <2>1, StillUnique
  <2>6. TaskFits(keys \cup {l}, r)
    BY <2>1 DEF TaskFits
  <2>7. TasksFit(kind, keys \cup {l}, << r >> \o t)
    <3> DEFINE new == keys \cup {l}
    <3>1. /\ new \subseteq keys \cup {l} /\ keys \ {l} \subseteq new /\ l \in new
      OBVIOUS
    <3> HIDE DEF new
    <3>2. TaskFits(new, r)
      BY <2>6 DEF new
    <3>3. TasksFit(kind, new, << r >> \o t)
      BY <2>1, <2>2, <3>1, <3>2, TasksGoOn
    <3> QED
      BY <3>3 DEF new
  <2> QED
    BY <2>2, <2>4, <2>5, <2>7
<1>8. CASE \E k \in keys \ bp.keys : s = DropIt(k) /\ TaskFits(keys \ {k}, r)
  <2>1. PICK k \in keys \ bp.keys : s = DropIt(k) /\ TaskFits(keys \ {k}, r)
    BY <1>8
  <2>2. s.what = k /\ k.kind = kind
    BY <1>5, <2>1, KeyStatementIs
  <2>3. /\ IsLegal(s) /\ ~IsIntend(s) /\ ColumnsAfter(s) = columns /\ OptionsAfter(s) = options
        /\ SearchAfter(s) = search /\ KeysAfter(s) = keys \ {k}
    BY <2>1, KeyStatementDoes
  <2>4. AreUnique(keys \ {k})
    BY StillUnique
  <2>5. TasksFit(kind, keys \ {k}, << r >> \o t)
    <3> DEFINE new == keys \ {k}
    <3>1. /\ new \subseteq keys \cup {k} /\ keys \ {k} \subseteq new /\ k \notin new
      OBVIOUS
    <3> HIDE DEF new
    <3>2. TaskFits(new, r)
      BY <2>1 DEF new
    <3>3. TasksFit(kind, new, << r >> \o t)
      BY <2>1, <2>2, <3>1, <3>2, TasksGoOn
    <3> QED
      BY <3>3 DEF new
  <2> QED
    BY <2>2, <2>3, <2>4, <2>5
<1> QED
  BY <1>6, <1>7, <1>8

\* With nothing left to do the keys of a kind are as declared.
LEMMA KeysAreDeclared ==
  ASSUME NEW kind, TasksFit(kind, keys, << >>)
  PROVE  Listed(kind) = Declared(kind)
<1>1. \A s : ~AskFor(<< >>, s)
  BY EmptyIsSeq DEF AskFor
<1>2. ASSUME NEW k \in keys, k.kind = kind PROVE k \in bp.keys
  BY <1>1, <1>2 DEF TasksFit
<1>3. ASSUME NEW k \in bp.keys, k.kind = kind PROVE k \in keys
  BY <1>1, <1>3 DEF TasksFit
<1> QED
  BY <1>2, <1>3 DEF Listed, Declared

\* A sequence of the same thing over and over, of which one is not before another.
LEMMA OnlyOne ==
  ASSUME NEW q, IsSeq(q), NEW x, Range(q) = {x}, Ordered(q, {})
  PROVE  q = << x >>
<1>1. Len(q) \in Nat /\ DOMAIN q = 1..Len(q) /\ q = [i \in 1..Len(q) |-> q[i]]
  BY SeqElim
<1>2. Len(q) # 0
  <2>1. PICK i \in DOMAIN q : q[i] = x
    BY DEF Range
  <2> QED
    BY <1>1, <2>1
<1>3. ~(Len(q) > 1)
  <2>1. ASSUME Len(q) > 1 PROVE FALSE
    <3>1. 1 \in DOMAIN q /\ 2 \in DOMAIN q
      BY <1>1, <2>1
    <3>2. << q[1], q[2] >> \in {}
      BY <3>1 DEF Ordered
    <3> QED
      BY <3>2
  <2> QED
    BY <2>1
<1>4. Len(q) = 1 /\ q[1] = x
  <2>1. Len(q) = 1
    BY <1>1, <1>2, <1>3
  <2>2. q[1] \in Range(q)
    BY <1>1, <2>1 DEF Range
  <2> QED
    BY <2>1, <2>2
<1>5. q = [i \in 1..1 |-> x]
  <2>1. \A i \in 1..1 : q[i] = x
    BY <1>4
  <2> QED
    BY <1>1, <1>4, <2>1
<1>6. << x >> = [i \in 1..1 |-> x]
  OBVIOUS
<1> QED
  BY <1>5, <1>6

\* Of one element there is one statement.
LEMMA EachOfOne ==
  ASSUME NEW x
  PROVE  SetToSeq({x}) = << x >> /\ FlattenSeq([i \in DOMAIN << x >> |-> << DropIt(x) >>]) = << DropIt(x) >>
<1> DEFINE seq == SetToSeq({x})
           f == [i \in DOMAIN << x >> |-> << DropIt(x) >>]
           y == DropIt(x)
<1>1. IsFiniteSet({x})
  BY FS_Singleton
<1>2. IsSeq(seq) /\ Range(seq) = {x}
  BY <1>1, SetToSeqIsSeq
<1>3. Ordered(seq, {})
  <2>1. ASSUME NEW i \in DOMAIN seq, NEW j \in DOMAIN seq, i < j PROVE FALSE
    <3>1. seq[i] = x /\ seq[j] = x
      BY <1>2 DEF Range
    <3>2. i = j
      BY <1>1, <3>1, SetToSeqIsApart
    <3>3. DOMAIN seq = 1..Len(seq) /\ Len(seq) \in Nat
      BY <1>2, SeqElim
    <3> QED
      BY <2>1, <3>2, <3>3
  <2> QED
    BY <2>1 DEF Ordered
<1>4. seq = << x >>
  BY <1>2, <1>3, OnlyOne
<1>5. DOMAIN << x >> = 1..1
  OBVIOUS
<1> HIDE DEF y
<1>6. f = [i \in 1..1 |-> << y >>]
  BY <1>5 DEF y
<1>7. IsSeq(f) /\ DOMAIN f = 1..1 /\ f[1] = << y >>
  <2>1. 1 \in Nat /\ 1 \in 1..1
    OBVIOUS
  <2>2. f[1] = << y >> /\ f = [i \in 1..1 |-> f[i]]
    BY <1>6, <2>1
  <2>3. IsSeq(f) /\ DOMAIN f = 1..1
    BY <2>1, <2>2, SeqIntro
  <2> QED
    BY <2>2, <2>3
<1> HIDE DEF f
<1>8. \A i \in DOMAIN f : i = 1 /\ IsSeq(f[i]) /\ Range(f[i]) = {y} /\ Ordered(f[i], {})
  <2>1. IsSeq(<< y >>) /\ Range(<< y >>) = {y} /\ Ordered(<< y >>, {})
    BY UnitIsSeq, OrderedUnit
  <2> QED
    BY <1>7, <2>1
<1>9. IsSeq(FlattenSeq(f)) /\ Range(FlattenSeq(f)) = {y}
  <2>1. /\ IsSeq(FlattenSeq(f))
        /\ \A z : z \in Range(FlattenSeq(f)) <=> \E i \in DOMAIN f : z \in Range(f[i])
    BY <1>7, <1>8, FlattenIsSeq
  <2> QED
    BY <1>7, <1>8, <2>1
<1>10. Ordered(FlattenSeq(f), {})
  BY <1>7, <1>8, OrderedFlatten
<1>11. FlattenSeq(f) = << y >>
  BY <1>9, <1>10, OnlyOne
<1> QED
  BY <1>4, <1>11 DEF f, y

\* One and another.
LEMMA TwoInOne ==
  ASSUME NEW x, NEW y
  PROVE  << x >> \o << y >> = << x, y >>
<1> DEFINE T == {x, y}
           z == << x >> \o << y >>
           w == << x, y >>
<1>1. << x >> \in Seq(T) /\ << y >> \in Seq(T) /\ Len(<< x >>) = 1 /\ Len(<< y >>) = 1
  OBVIOUS
<1>2. w \in Seq(T) /\ Len(w) = 2 /\ w[1] = x /\ w[2] = y
  OBVIOUS
<1>3. << x >>[1] = x /\ << y >>[1] = y
  OBVIOUS
<1> HIDE DEF T
<1>4. /\ z \in Seq(T) /\ Len(z) = 1 + 1
      /\ \A i \in 1..1 : z[i] = << x >>[i]
      /\ \A i \in 1..1 : z[i + 1] = << y >>[i]
  <2>1. /\ z \in Seq(T) /\ Len(z) = Len(<< x >>) + Len(<< y >>)
        /\ \A i \in 1..Len(<< x >>) : z[i] = << x >>[i]
        /\ \A i \in 1..Len(<< y >>) : z[i + Len(<< x >>)] = << y >>[i]
    BY <1>1, JoinAt
  <2> QED
    BY <1>1, <2>1
<1> HIDE DEF z, w
<1>5. z[1] = x /\ z[2] = y
  <2>1. 1 \in 1..1 /\ 1 + 1 = 2
    OBVIOUS
  <2> QED
    BY <1>3, <1>4, <2>1
<1>6. z = [i \in 1..2 |-> z[i]] /\ w = [i \in 1..2 |-> w[i]]
  <2>1. ASSUME NEW v \in Seq(T), Len(v) = 2 PROVE v = [i \in 1..2 |-> v[i]]
    BY <2>1, SeqWithin, SeqElim
  <2> QED
    BY <1>2, <1>4, <2>1
<1>7. \A i \in 1..2 : z[i] = w[i]
  <2>1. \A i \in 1..2 : i = 1 \/ i = 2
    OBVIOUS
  <2> QED
    BY <1>2, <1>5, <2>1
<1> QED
  BY <1>6, <1>7 DEF z, w

\* What creating or comparing a declared key comes to.
LEMMA CreateOrCompareFits ==
  ASSUME InScene, AreUnique(keys), NEW l \in bp.keys
  PROVE  /\ TaskFits(keys, CreateOrCompareKey(l))
         /\ \A s \in Range(CreateOrCompareKey(l)) : SameKey(s.what, l)
         /\ l \notin keys => AddIt(l) \in Range(CreateOrCompareKey(l))
         /\ \A k \in keys : SameKey(k, l) /\ k # l => DropIt(k) \in Range(CreateOrCompareKey(l))
         /\ \A kind : l.kind = kind /\ keys \cup bp.keys \subseteq KeyRecords =>
              CreateOrCompareKey(l) \in KeyTaskSet(kind)
<1> DEFINE there == {k \in Listed(l.kind) : SameKey(k, l)}
           q == CreateOrCompareKey(l)
<1>1. \A k \in keys : SameKey(k, l) <=> k \in there
  BY DEF Listed, SameKey
<1>2. q = CASE there = {} -> << AddIt(l) >>
            [] there = {l} -> << >>
            [] OTHER -> EachOf(there, LAMBDA k : << Safe("drop key", k) >>) \o << AddIt(l) >>
  BY DEF CreateOrCompareKey, AddIt
<1>3. \A k \in there : k \in keys /\ SameKey(k, l)
  BY DEF Listed
<1>4. \A k, m \in there : k = m
  <2>1. ASSUME NEW k \in there, NEW m \in there PROVE k = m
    <3>1. k \in keys /\ m \in keys /\ SameKey(k, l) /\ SameKey(m, l)
      BY <1>3
    <3>2. SameKey(k, m)
      BY <3>1, SameKeyIs
    <3> QED
      BY <3>1, <3>2 DEF AreUnique
  <2> QED
    BY <2>1
<1>5. SameKey(l, l)
  BY SameKeyIs
<1>6. CASE there = {}
  <2>1. q = << AddIt(l) >> /\ Range(q) = {AddIt(l)} /\ AddIt(l).what = l
    BY <1>2, <1>6, UnitIsSeq, KeyStatementIs
  <2>2. \A k \in keys : ~SameKey(k, l)
    BY <1>1, <1>6
  <2>3. ASSUME NEW kind, l.kind = kind, keys \cup bp.keys \subseteq KeyRecords PROVE q \in KeyTaskSet(kind)
    BY <2>1, <2>3, TasksOfKind
  <2> QED
    BY <1>5, <2>1, <2>2, <2>3 DEF TaskFits
<1>7. CASE there = {l}
  <2>1. q = << >> /\ Range(q) = {}
    BY <1>2, <1>7, EmptyIsSeq
  <2>2. l \in keys /\ \A k \in keys : SameKey(k, l) => k = l
    BY <1>1, <1>3, <1>7
  <2>3. ASSUME NEW kind, l.kind = kind, keys \cup bp.keys \subseteq KeyRecords PROVE q \in KeyTaskSet(kind)
    BY <2>1, <2>3, TasksOfKind
  <2> QED
    BY <2>1, <2>2, <2>3 DEF TaskFits
<1>8. CASE there # {} /\ there # {l}
  <2>1. PICK k \in there : there = {k}
    BY <1>4, <1>8
  <2>2. k # l /\ k \in keys /\ SameKey(k, l)
    BY <1>3, <1>8, <2>1
  <2>3. k \notin bp.keys
    BY <2>2, BlueprintIsSound DEF InScene
  <2>4. q = << DropIt(k) >> \o << AddIt(l) >>
    <3>1. q = EachOf(there, LAMBDA m : << Safe("drop key", m) >>) \o << AddIt(l) >>
      BY <1>2, <1>8
    <3>2. EachOf(there, LAMBDA m : << Safe("drop key", m) >>)
            = FlattenSeq([i \in DOMAIN SetToSeq({k}) |-> << DropIt(SetToSeq({k})[i]) >>])
      BY <2>1 DEF EachOf, ForEach, DropIt
    <3>3. [i \in DOMAIN << k >> |-> << DropIt(<< k >>[i]) >>] = [i \in DOMAIN << k >> |-> << DropIt(k) >>]
      <4>1. \A i \in DOMAIN << k >> : << k >>[i] = k
        OBVIOUS
      <4> QED
        BY <4>1
    <3> QED
      BY <3>1, <3>2, <3>3, EachOfOne
  <2>5. q = << DropIt(k), AddIt(l) >>
    BY <2>4, TwoInOne
  <2>6. Range(q) = {DropIt(k), AddIt(l)} /\ DropIt(k).what = k /\ AddIt(l).what = l
    <3>1. \A x, y : Range(<< x, y >>) = {x, y}
      BY OneOrTwo
    <3> QED
      BY <2>5, <3>1, KeyStatementIs
  <2>7. TaskFits(keys, q)
    BY <2>2, <2>3, <2>5 DEF TaskFits
  <2>8. \A s \in Range(q) : SameKey(s.what, l)
    BY <1>5, <2>2, <2>6
  <2>9. \A m \in keys : SameKey(m, l) => m = k
    BY <1>1, <2>1
  <2>10. ASSUME NEW kind, l.kind = kind, keys \cup bp.keys \subseteq KeyRecords PROVE q \in KeyTaskSet(kind)
    <3>1. k \in KeyRecords /\ l \in KeyRecords /\ k.kind = kind
      BY <2>2, <2>10 DEF SameKey
    <3> QED
      BY <2>5, <2>10, <3>1, TasksOfKind
  <2> QED
    BY <2>6, <2>7, <2>8, <2>9, <2>10
<1> QED
  BY <1>6, <1>7, <1>8

\* Tasks one for each of a sequence, in an order.
LEMMA EachInOrder ==
  ASSUME NEW seq, IsSeq(seq), NEW f, f = [i \in DOMAIN seq |-> << f[i][1] >>], NEW W,
         \A i, j \in DOMAIN seq : i < j => << f[i][1], f[j][1] >> \in W
  PROVE  Ordered(FlattenSeq(f), W)
<1>1. IsSeq(f) /\ DOMAIN f = DOMAIN seq
  <2>1. DOMAIN seq = 1..Len(seq) /\ Len(seq) \in Nat /\ f = [i \in DOMAIN seq |-> f[i]]
    BY SeqElim
  <2> QED
    BY <2>1, SeqIntro
<1>2. ASSUME NEW i \in DOMAIN f
      PROVE  IsSeq(f[i]) /\ Range(f[i]) = {f[i][1]} /\ Ordered(f[i], W)
  <2> DEFINE x == f[i][1]
  <2>1. f[i] = << x >>
    BY <1>1
  <2> HIDE DEF x
  <2>2. IsSeq(<< x >>) /\ Range(<< x >>) = {x} /\ Ordered(<< x >>, W)
    BY UnitIsSeq, OrderedUnit
  <2> QED
    BY <2>1, <2>2 DEF x
<1>3. ASSUME NEW i \in DOMAIN f, NEW j \in DOMAIN f, i < j, NEW x \in Range(f[i]), NEW y \in Range(f[j])
      PROVE  << x, y >> \in W
  <2>1. x = f[i][1] /\ y = f[j][1]
    BY <1>2
  <2> QED
    BY <1>1, <1>3, <2>1
<1> QED
  BY <1>1, <1>2, <1>3, OrderedFlatten

\* The tasks of a resolver of keys make them as declared.
LEMMA KeyTasksFit ==
  ASSUME InScene, IsFiniteSet(keys), keys \subseteq KeyRecords, AreUnique(keys), NEW kind,
         Aside({k \in keys : k.kind = kind}, dropping)
  PROVE  TasksFit(kind, keys, KeyTasks(kind))
<1> DEFINE gone == SetToSeq(DropKeys(kind))
           wanted == SetToSeq(Declared(kind))
           drops == [i \in DOMAIN gone |-> << << DropIt(gone[i]) >> >>]
           creates == [i \in DOMAIN wanted |-> << CreateOrCompareKey(wanted[i]) >>]
           W == Apart(kind)
           p == FlattenSeq(drops)
           c == FlattenSeq(creates)
<1>1. IsFiniteSet(DropKeys(kind)) /\ IsFiniteSet(Declared(kind))
  BY BlueprintIsSound, FS_Subset DEF DropKeys, Listed, Declared, InScene
<1>2. /\ IsSeq(gone) /\ Range(gone) = DropKeys(kind)
      /\ IsSeq(wanted) /\ Range(wanted) = Declared(kind)
  BY <1>1, SetToSeqIsSeq
<1>3. /\ \A i, j \in DOMAIN gone : i < j => gone[i] # gone[j]
      /\ \A i, j \in DOMAIN wanted : i < j => wanted[i] # wanted[j]
  <2>1. DOMAIN gone = 1..Len(gone) /\ Len(gone) \in Nat /\ DOMAIN wanted = 1..Len(wanted) /\ Len(wanted) \in Nat
    BY <1>2, SeqElim
  <2>2. ASSUME NEW i \in DOMAIN gone, NEW j \in DOMAIN gone, i < j, gone[i] = gone[j] PROVE FALSE
    <3>1. i = j
      BY <1>1, <2>2, SetToSeqIsApart
    <3> QED
      BY <2>1, <2>2, <3>1
  <2>3. ASSUME NEW i \in DOMAIN wanted, NEW j \in DOMAIN wanted, i < j, wanted[i] = wanted[j] PROVE FALSE
    <3>1. i = j
      BY <1>1, <2>3, SetToSeqIsApart
    <3> QED
      BY <2>1, <2>3, <3>1
  <2> QED
    BY <2>2, <2>3
<1>4. KeyTasks(kind) = p \o c
  BY DEF KeyTasks, EachOf, ForEach, DropIt
<1> HIDE DEF gone, wanted
<1>5. drops = [i \in DOMAIN gone |-> << drops[i][1] >>] /\ creates = [i \in DOMAIN wanted |-> << creates[i][1] >>]
  <2>1. drops = [i \in DOMAIN gone |-> << drops[i][1] >>]
    OBVIOUS
  <2>2. creates = [i \in DOMAIN wanted |-> << creates[i][1] >>]
    OBVIOUS
  <2> QED
    BY <2>1, <2>2
<1>6. /\ \A i \in DOMAIN gone : drops[i][1] = << DropIt(gone[i]) >>
      /\ \A i \in DOMAIN wanted : creates[i][1] = CreateOrCompareKey(wanted[i])
  OBVIOUS
<1> HIDE DEF drops, creates
<1>7. /\ IsSeq(p) /\ \A q : q \in Range(p) <=> \E i \in DOMAIN gone : q = drops[i][1]
  BY <1>2, <1>5, EachTaskIs
<1>8. /\ IsSeq(c) /\ \A q : q \in Range(c) <=> \E i \in DOMAIN wanted : q = creates[i][1]
  BY <1>2, <1>5, EachTaskIs
<1>9. /\ bp.keys \subseteq KeyRecords /\ \A k, l \in bp.keys : SameKey(k, l) => k = l
  BY BlueprintIsSound DEF InScene, BlueprintRecords
<1>10. \A k \in DropKeys(kind) : k \in keys /\ k.kind = kind /\ \A l \in Declared(kind) : ~SameKey(k, l)
  BY DEF DropKeys, Listed
<1>11. \A l \in Declared(kind) : l \in bp.keys /\ l.kind = kind
  BY DEF Declared
<1>12. ASSUME NEW i \in DOMAIN gone
       PROVE  /\ gone[i] \in DropKeys(kind) /\ drops[i][1] \in KeyTaskSet(kind)
              /\ TaskFits(keys, drops[i][1]) /\ \A s \in Range(drops[i][1]) : s.what = gone[i]
              /\ DropIt(gone[i]) \in Range(drops[i][1])
  <2> DEFINE k == gone[i]
  <2>1. k \in DropKeys(kind)
    BY <1>2 DEF Range
  <2>2. drops[i][1] = << DropIt(k) >>
    BY <1>6
  <2> HIDE DEF k
  <2>3. k \in keys /\ k.kind = kind /\ \A l \in Declared(kind) : ~SameKey(k, l)
    BY <1>10, <2>1
  <2>4. k \notin bp.keys
    <3>1. k \in bp.keys => k \in Declared(kind) /\ SameKey(k, k)
      BY <2>3, SameKeyIs DEF Declared
    <3> QED
      BY <2>3, <3>1
  <2>5. TaskFits(keys, << DropIt(k) >>)
    BY <2>3, <2>4 DEF TaskFits
  <2>6. << DropIt(k) >> \in KeyTaskSet(kind)
    <3>1. k \in KeyRecords
      BY <2>3
    <3> QED
      BY <2>3, <3>1, TasksOfKind
  <2>7. Range(<< DropIt(k) >>) = {DropIt(k)} /\ DropIt(k).what = k
    BY UnitIsSeq, KeyStatementIs
  <2>8. /\ drops[i][1] \in KeyTaskSet(kind) /\ TaskFits(keys, drops[i][1])
        /\ (\A s \in Range(drops[i][1]) : s.what = k) /\ DropIt(k) \in Range(drops[i][1])
    BY <2>2, <2>5, <2>6, <2>7
  <2> QED
    BY <2>1, <2>8 DEF k
<1>13. ASSUME NEW i \in DOMAIN wanted
       PROVE  /\ wanted[i] \in Declared(kind) /\ creates[i][1] \in KeyTaskSet(kind)
              /\ TaskFits(keys, creates[i][1])
              /\ \A s \in Range(creates[i][1]) : SameKey(s.what, wanted[i])
  <2>1. wanted[i] \in Declared(kind)
    BY <1>2 DEF Range
  <2>2. creates[i][1] = CreateOrCompareKey(wanted[i]) /\ wanted[i] \in bp.keys /\ wanted[i].kind = kind
    BY <1>6, <1>11, <2>1
  <2>3. keys \cup bp.keys \subseteq KeyRecords
    BY <1>9
  <2> QED
    BY <2>1, <2>2, <2>3, CreateOrCompareFits
<1>14. Ordered(p, W)
  <2>1. ASSUME NEW i \in DOMAIN gone, NEW j \in DOMAIN gone, i < j
        PROVE  << drops[i][1], drops[j][1] >> \in W
    <3>1. ~SameKey(gone[i], gone[j])
      BY <1>3, <1>10, <1>12, <2>1 DEF AreUnique
    <3>2. \A s \in Range(drops[i][1]), t \in Range(drops[j][1]) : ~SameKey(s.what, t.what)
      BY <1>12, <3>1
    <3> QED
      BY <1>12, <3>2 DEF Apart
  <2> QED
    BY <1>2, <1>5, <2>1, EachInOrder
<1>15. Ordered(c, W)
  <2>1. ASSUME NEW i \in DOMAIN wanted, NEW j \in DOMAIN wanted, i < j
        PROVE  << creates[i][1], creates[j][1] >> \in W
    <3>1. wanted[i] # wanted[j] /\ wanted[i] \in bp.keys /\ wanted[j] \in bp.keys
      BY <1>3, <1>11, <1>13, <2>1
    <3>2. ~SameKey(wanted[i], wanted[j])
      BY <1>9, <3>1
    <3>3. ASSUME NEW s \in Range(creates[i][1]), NEW t \in Range(creates[j][1]), SameKey(s.what, t.what) PROVE FALSE
      <4>1. SameKey(s.what, wanted[i]) /\ SameKey(t.what, wanted[j])
        BY <1>13
      <4>2. SameKey(wanted[i], s.what) /\ SameKey(s.what, wanted[j])
        BY <3>3, <4>1, SameKeyIs
      <4>3. SameKey(wanted[i], wanted[j])
        BY <4>2, SameKeyIs
      <4> QED
        BY <3>2, <4>3
    <3> QED
      BY <1>13, <3>3 DEF Apart
  <2> QED
    BY <1>2, <1>5, <2>1, EachInOrder
<1>16. ASSUME NEW x \in Range(p), NEW y \in Range(c) PROVE << x, y >> \in W
  <2>1. PICK i \in DOMAIN gone : x = drops[i][1]
    BY <1>7
  <2>2. PICK j \in DOMAIN wanted : y = creates[j][1]
    BY <1>8
  <2>3. ASSUME NEW s \in Range(x), NEW t \in Range(y), SameKey(s.what, t.what) PROVE FALSE
    <3>1. s.what = gone[i] /\ SameKey(t.what, wanted[j]) /\ wanted[j] \in Declared(kind)
      BY <1>12, <1>13, <2>1, <2>2
    <3>2. SameKey(gone[i], wanted[j])
      BY <2>3, <3>1, SameKeyIs
    <3> QED
      BY <1>10, <1>12, <3>1, <3>2
  <2>4. x \in KeyTaskSet(kind) /\ y \in KeyTaskSet(kind)
    BY <1>12, <1>13, <2>1, <2>2
  <2> QED
    BY <2>3, <2>4 DEF Apart
<1> HIDE DEF p, c, W
<1>17. Ordered(p \o c, W) /\ IsSeq(p \o c) /\ Range(p \o c) = Range(p) \cup Range(c)
  BY <1>7, <1>8, <1>14, <1>15, <1>16, OrderedJoin, JoinIsSeq
<1>18. ASSUME NEW q \in Range(p \o c) PROVE q \in KeyTaskSet(kind) /\ TaskFits(keys, q)
  <2>1. CASE q \in Range(p)
    BY <1>7, <1>12, <2>1
  <2>2. CASE q \in Range(c)
    BY <1>8, <1>13, <2>2
  <2> QED
    BY <1>17, <2>1, <2>2
<1>19. \A l \in Declared(kind) : CreateOrCompareKey(l) \in Range(p \o c)
  <2>1. ASSUME NEW l \in Declared(kind) PROVE CreateOrCompareKey(l) \in Range(c)
    <3>1. PICK i \in DOMAIN wanted : wanted[i] = l
      BY <1>2 DEF Range
    <3> QED
      BY <1>6, <1>8, <3>1
  <2> QED
    BY <1>17, <2>1
<1>20. ASSUME NEW k \in keys, k.kind = kind, k \notin bp.keys PROVE AskFor(p \o c, DropIt(k))
  <2>1. CASE \E l \in Declared(kind) : SameKey(k, l)
    <3>1. PICK l \in Declared(kind) : SameKey(k, l)
      BY <2>1
    <3>2. l \in bp.keys /\ k # l
      BY <1>11, <1>20
    <3>3. DropIt(k) \in Range(CreateOrCompareKey(l))
      BY <3>1, <3>2, CreateOrCompareFits
    <3> QED
      BY <1>19, <3>3 DEF AskFor
  <2>2. CASE \A l \in Declared(kind) : ~SameKey(k, l)
    <3>1. ~ImplicitlyDropped(k)
      BY <1>20 DEF ImplicitlyDropped, Aside
    <3>2. k \in DropKeys(kind)
      BY <1>20, <2>2, <3>1 DEF DropKeys, Listed
    <3>3. PICK i \in DOMAIN gone : gone[i] = k
      BY <1>2, <3>2 DEF Range
    <3>4. drops[i][1] \in Range(p) /\ DropIt(k) \in Range(drops[i][1])
      BY <1>7, <1>12, <3>3
    <3> QED
      BY <1>17, <3>4 DEF AskFor
  <2> QED
    BY <2>1, <2>2
<1>21. ASSUME NEW l \in bp.keys, l.kind = kind, l \notin keys PROVE AskFor(p \o c, AddIt(l))
  <2>1. AddIt(l) \in Range(CreateOrCompareKey(l)) /\ l \in Declared(kind)
    BY <1>21, CreateOrCompareFits DEF Declared
  <2> QED
    BY <1>19, <2>1 DEF AskFor
<1> QED
  BY <1>4, <1>17, <1>18, <1>20, <1>21 DEF TasksFit, W

-----------------------------------------------------------------------------
(* The invariant of an apply that has everything it needs.                 *)

\* The last apply was one, too, and of the same blueprint.
Again == Finished > 0 /\ Succeeded(Finished) /\ CommandOf(Finished).bp = Invocation.bp

\* What is left of altering a table; of one that has been replaced, that this be
\* said comes last.
Completing(cols, opts, items, ks, q) ==
  Altering(cols, opts, items, ks, q) /\ (Again => Exact(cols) /\ AddsNone(q))
Finishing(cols, opts, items, ks, q) ==
  \/ Completing(cols, opts, items, ks, q)
  \/ ks = {} /\ \E b, i : q = b \o << i >> /\ IsIntend(i) /\ Completing(cols, opts, items, ks, b)

\* What is left of the comparison of the table.
Comparing(q) == Rebuilding(q) \/ Finishing(columns, options, search, keys, q)

\* The keys that resolvers are still to look at: those of a table that was replaced
\* went with it, and the ones made since are of columns which, it was said, go.
Unlisted(ks) == {k \in ks : k.kind \notin Earlier(pc) \cup {pc}}

\* While nothing has failed everything that differs is asked for: by what is left of
\* the comparison of the table, then by the tasks of the resolver of keys at work,
\* those before it having made theirs as declared.
Succeeding ==
  /\ Aside(Unlisted(keys), dropping)
  /\ IF pc = "table"
     THEN (due = << >> /\ Comparing(<< >>)) \/ \E q : due = << q >> /\ Comparing(q)
     ELSE /\ Comparing(<< >>) /\ TasksFit(pc, keys, due)
          /\ \A k \in Earlier(pc) \ {"table"} : Listed(k) = Declared(k)

SuccessInv ==
  /\ ~refused /\ Finished = inv - 1 /\ DOMAIN options = AllOptions /\ AreUnique(keys)
  /\ SuccessMeansAsDeclared /\ TwoAppliesComplete
  /\ Underway => Succeeding

\* What a rest of a comparison says depends on the blueprint only.
LEMMA SameComparison ==
  ASSUME UNCHANGED <<scenario, inv>>
  PROVE  /\ \A cols, opts, items, ks, q :
              Altering(cols, opts, items, ks, q)' <=> Altering(cols, opts, items, ks, q)
         /\ \A q : Rebuilding(q)' <=> Rebuilding(q)
         /\ \A cols : Exact(cols)' <=> Exact(cols)
         /\ \A kind, ks, d : TasksFit(kind, ks, d)' <=> TasksFit(kind, ks, d)
         /\ Unrestricted' <=> Unrestricted
<1>1. Invocation' = Invocation /\ bp' = bp
  BY SameBlueprint
<1>2. \A n, a : Change(n, a)' = Change(n, a)
  BY <1>1 DEF Change
<1>3. \A m : Addition(m)' = Addition(m)
  BY <1>1 DEF Addition
<1>4. \A c : PlaceOf(c)' = PlaceOf(c)
  BY <1>1 DEF PlaceOf
<1>5. \A o : SetOption(o)' = SetOption(o)
  BY <1>1 DEF SetOption
<1>6. WantedItems' = WantedItems
  BY <1>1 DEF WantedItems
<1>7. \A c, q : ColumnFits(c, q)' <=> ColumnFits(c, q)
  BY <1>1, <1>2 DEF ColumnFits
<1>8. \A cols, q : ColumnsFit(cols, q)' <=> ColumnsFit(cols, q)
  BY <1>7 DEF ColumnsFit
<1>9. \A opts, q : OptionsFit(opts, q)' <=> OptionsFit(opts, q)
  BY <1>1, <1>5 DEF OptionsFit, OptionIs
<1>10. \A items, q : SearchFits(items, q)' <=> SearchFits(items, q)
  BY <1>1, <1>6 DEF SearchFits
<1>11. \A cols, s : StatementFits(cols, s)' <=> StatementFits(cols, s)
  BY <1>1, <1>2, <1>5, <1>6 DEF StatementFits
<1>12. \A cols, q : StatementsFit(cols, q)' <=> StatementsFit(cols, q)
  BY <1>11 DEF StatementsFit
<1>13. \A q : InOrder(q)' <=> InOrder(q)
  <2>1. \A s, t : Before(s, t)' <=> Before(s, t)
    BY <1>4 DEF Before
  <2> QED
    BY <2>1 DEF InOrder
<1>14. \A cols, n : PlacesFit(cols, n)' <=> PlacesFit(cols, n)
  BY <1>1, <1>4 DEF PlacesFit
<1>15. \A n, q : AddsFit(n, q)' <=> AddsFit(n, q)
  BY <1>1, <1>3 DEF AddsFit
<1>16. \A cols, opts, items, ks, q :
         Altering(cols, opts, items, ks, q)' <=> Altering(cols, opts, items, ks, q)
  BY <1>1, <1>8, <1>9, <1>10, <1>12, <1>13, <1>14, <1>15 DEF Altering, KeysAside
<1>17. \A q : Rebuilding(q)' <=> Rebuilding(q)
  <2>1. \A r : Fills(r)' <=> Fills(r)
    BY <1>6, <1>10 DEF Fills
  <2> QED
    BY <2>1 DEF Rebuilding
<1>18. \A cols : Exact(cols)' <=> Exact(cols)
  BY <1>1 DEF Exact
<1>19. \A kind, ks, d : TasksFit(kind, ks, d)' <=> TasksFit(kind, ks, d)
  <2>1. \A ks, q : TaskFits(ks, q)' <=> TaskFits(ks, q)
    BY <1>1 DEF TaskFits
  <2> QED
    BY <1>1, <2>1 DEF TasksFit
<1>20. Unrestricted' <=> Unrestricted
  BY <1>1 DEF Unrestricted
<1> QED
  BY <1>16, <1>17, <1>18, <1>19, <1>20

\* What is left of altering a table says so too, if the last apply is the same one.
LEMMA SameFinish ==
  ASSUME UNCHANGED <<scenario, inv>>, Again' <=> Again
  PROVE  \A cols, opts, items, ks, q :
           Finishing(cols, opts, items, ks, q)' <=> Finishing(cols, opts, items, ks, q)
<1>1. /\ \A cols, opts, items, ks, q :
           Altering(cols, opts, items, ks, q)' <=> Altering(cols, opts, items, ks, q)
      /\ \A cols : Exact(cols)' <=> Exact(cols)
  BY SameComparison
<1>2. \A cols, opts, items, ks, q :
        Completing(cols, opts, items, ks, q)' <=> Completing(cols, opts, items, ks, q)
  BY <1>1 DEF Completing, AddsNone
<1>3. ASSUME NEW cols, NEW opts, NEW items, NEW ks, NEW q
      PROVE  Finishing(cols, opts, items, ks, q)' <=> Finishing(cols, opts, items, ks, q)
  <2> DEFINE Ends(b, i) == q = b \o << i >> /\ IsIntend(i) /\ Completing(cols, opts, items, ks, b)
  <2>1. \A b, i : Ends(b, i)' <=> Ends(b, i)
    BY <1>2
  <2>2. Finishing(cols, opts, items, ks, q) <=>
          Completing(cols, opts, items, ks, q) \/ (ks = {} /\ \E b, i : Ends(b, i))
    BY DEF Finishing
  <2>3. Finishing(cols, opts, items, ks, q)' <=>
          Completing(cols, opts, items, ks, q)' \/ (ks = {} /\ \E b, i : Ends(b, i)')
    BY DEF Finishing
  <2> HIDE DEF Ends
  <2> QED
    BY <1>2, <2>1, <2>2, <2>3
<1> QED
  BY <1>3

\* So what there is to do does not change unless the table or the tasks do.
LEMMA SameTable ==
  ASSUME UNCHANGED <<scenario, table, inv, history>>
  PROVE  /\ \A q : Comparing(q)' <=> Comparing(q)
         /\ \A k : (Listed(k) = Declared(k))' <=> Listed(k) = Declared(k)
         /\ \A k : Earlier(k)' = Earlier(k)
         /\ Again' <=> Again
         /\ InStep(bp)' <=> InStep(bp)
<1>1. Invocation' = Invocation /\ bp' = bp
  BY SameBlueprint
<1>2. UNCHANGED <<columns, options, search, keys>>
  BY DEF table
<1>3. Again' <=> Again
  BY <1>1 DEF Again, Finished, Succeeded, CommandOf
<1>4. ASSUME NEW q PROVE Comparing(q)' <=> Comparing(q)
  <2>1. Finishing(columns, options, search, keys, q)' <=> Finishing(columns, options, search, keys, q)
    BY <1>2, <1>3, SameFinish
  <2>2. Rebuilding(q)' <=> Rebuilding(q)
    BY SameComparison
  <2> QED
    BY <2>1, <2>2 DEF Comparing
<1>5. \A k : (Listed(k) = Declared(k))' <=> Listed(k) = Declared(k)
  BY <1>1, <1>2 DEF Listed, Declared
<1>6. \A k : Earlier(k)' = Earlier(k)
  BY DEF Earlier
<1>7. InStep(bp)' <=> InStep(bp)
  BY <1>1, <1>2 DEF InStep, OptionInStep, SearchInStep
<1> QED
  BY <1>3, <1>4, <1>5, <1>6, <1>7

\* An alteration with nothing left to do does not depend on the keys.
LEMMA KeysDoNotMatter ==
  ASSUME NEW cols, NEW opts, NEW items, NEW ks, NEW new, Altering(cols, opts, items, ks, << >>)
  PROVE  Altering(cols, opts, items, new, << >>)
<1>1. Range(<< >>) = {}
  BY EmptyIsSeq
<1>2. KeysAside(new, << >>)
  BY <1>1 DEF KeysAside
<1> QED
  BY <1>2 DEF Altering

\* When a statement comes up: the task it is of, and the rest.
LEMMA WhatIsNext ==
  ASSUME HasStatement, IsSeq(due), IsSeq(Head(due))
  PROVE  \E h, t, r : /\ Splits(due, h, t) /\ Splits(h, Statement, r)
                      /\ << Tail(Head(due)) >> \o Tail(due) = << r >> \o t
<1> DEFINE h == Head(due)
           t == Tail(due)
           r == Tail(h)
<1>1. Splits(due, h, t) /\ Splits(h, Statement, r)
  BY DEF Splits, HasStatement, Statement
<1> QED
  BY <1>1

\* Where a single task is left the table is still compared.
LEMMA OneTask ==
  ASSUME NEW q, NEW h, NEW t, NEW r, Splits(<< q >>, h, t)
  PROVE  h = q /\ t = << >> /\ << r >> \o t = << r >>
<1>1. h = q /\ t = << >>
  BY DEF Splits
<1>2. << r >> \o << >> = << r >>
  OBVIOUS
<1> QED
  BY <1>1, <1>2

\* Where nothing is left.
LEMMA FinishedIsAltered ==
  ASSUME Comparing(<< >>)
  PROVE  Altering(columns, options, search, keys, << >>) /\ (Again => Exact(columns))
<1>1. ~Rebuilding(<< >>)
  BY DEF Rebuilding, Splits
<1>2. ASSUME NEW b, NEW i, << >> = b \o << i >>, Completing(columns, options, search, keys, b) PROVE FALSE
  <2>1. IsSeq(b) /\ IsSeq(<< i >>) /\ Range(<< i >>) = {i}
    BY <1>2, UnitIsSeq DEF Completing, Altering
  <2>2. << i >> # << >>
    BY <2>1, EmptyIsSeq
  <2> QED
    BY <1>2, <2>1, <2>2, JoinIsEmpty
<1> QED
  BY <1>1, <1>2 DEF Comparing, Finishing, Completing

\* The last statement comes up when the others have gone.
ComesUp(b, i, s, r) ==
  \/ b = << >> /\ s = i /\ r = << >>
  \/ \E c : Splits(b, s, c) /\ r = c \o << i >>

LEMMA LastOrNot ==
  ASSUME NEW b, IsSeq(b), NEW i, NEW q, q = b \o << i >>, NEW s, NEW r, Splits(q, s, r)
  PROVE  ComesUp(b, i, s, r)
<1>1. CASE b = << >>
  <2>1. << i >> \in Seq({i})
    OBVIOUS
  <2>2. q = << i >>
    BY <1>1, <2>1
  <2>3. Head(<< i >>) = i /\ Tail(<< i >>) = << >>
    OBVIOUS
  <2> QED
    BY <1>1, <2>2, <2>3 DEF Splits, ComesUp
<1>2. CASE b # << >>
  <2>1. PICK h, c : Splits(b, h, c)
    BY <1>2 DEF Splits
  <2>2. Splits(q, h, c \o << i >>)
    BY <2>1, UnitIsSeq, SplitOfJoin
  <2>3. h = s /\ c \o << i >> = r
    BY <2>2 DEF Splits
  <2> QED
    BY <2>1, <2>3 DEF ComesUp
<1> QED
  BY <1>1, <1>2

\* A table is replaced, or created.
LEMMA RebuildingGoesOn ==
  ASSUME InScene, NEW q, NEW s, NEW r, Splits(q, s, r), Rebuilding(q)
  PROVE  /\ IsLegal(s) /\ ~IsIntend(s) /\ KeysAfter(s) = {}
         /\ Finishing(ColumnsAfter(s), OptionsAfter(s), SearchAfter(s), KeysAfter(s), r)
<1>1. /\ IsRebuild(s)
      /\ Fills(r) \/ \E b, i : r = b \o << i >> /\ IsIntend(i) /\ Fills(b)
  BY DEF Rebuilding, Splits
<1>2. ASSUME NEW b, Fills(b)
      PROVE  /\ IsLegal(s) /\ ~IsIntend(s) /\ KeysAfter(s) = {}
             /\ Completing(ColumnsAfter(s), OptionsAfter(s), SearchAfter(s), KeysAfter(s), b)
  BY <1>1, <1>2, RebuiltIsFilled DEF Completing
<1>3. CASE Fills(r)
  BY <1>2, <1>3 DEF Finishing
<1>4. CASE ~Fills(r)
  <2>1. PICK b, i : r = b \o << i >> /\ IsIntend(i) /\ Fills(b)
    BY <1>1, <1>4
  <2> QED
    BY <1>2, <2>1 DEF Finishing
<1> QED
  BY <1>3, <1>4

\* One statement of what is left of altering it, or after replacing it.
LEMMA CompletingGoesOn ==
  ASSUME InScene, AreSound(columns), search \subseteq SearchItems, DOMAIN options = AllOptions,
         NEW q, NEW s, NEW r, Splits(q, s, r), Completing(columns, options, search, keys, q)
  PROVE  /\ IsLegal(s) /\ KeysAfter(s) \subseteq keys
         /\ Completing(ColumnsAfter(s), OptionsAfter(s), SearchAfter(s), KeysAfter(s), r)
         /\ IsIntend(s) => Aside(keys, s.what) /\ Completing(columns, options, search, keys, r)
<1>1. Altering(columns, options, search, keys, q) /\ (Again => Exact(columns) /\ AddsNone(q))
  BY DEF Completing
<1>2. /\ IsLegal(s) /\ KeysAfter(s) \subseteq keys
      /\ Altering(ColumnsAfter(s), OptionsAfter(s), SearchAfter(s), KeysAfter(s), r)
      /\ IsIntend(s) => /\ Aside(keys, s.what) /\ Altering(columns, options, search, keys, r)
      /\ Exact(columns) /\ AddsNone(q) => Exact(ColumnsAfter(s)) /\ AddsNone(r)
  BY <1>1, AlterationGoesOn
<1>3. AddsNone(q) => AddsNone(r)
  BY SplitIs DEF AddsNone
<1> QED
  BY <1>1, <1>2, <1>3 DEF Completing

\* It comes to its end, or says what went.
LEMMA FinishingGoesOn ==
  ASSUME InScene, AreSound(columns), search \subseteq SearchItems, DOMAIN options = AllOptions,
         NEW q, NEW s, NEW r, Splits(q, s, r), Finishing(columns, options, search, keys, q)
  PROVE  /\ IsLegal(s) /\ KeysAfter(s) \subseteq keys
         /\ Finishing(ColumnsAfter(s), OptionsAfter(s), SearchAfter(s), KeysAfter(s), r)
         /\ IsIntend(s) => Aside(keys, s.what) /\ Finishing(columns, options, search, keys, r)
<1>1. CASE Completing(columns, options, search, keys, q)
  BY <1>1, CompletingGoesOn DEF Finishing
<1>2. CASE ~Completing(columns, options, search, keys, q)
  <2>1. keys = {}
    BY <1>2 DEF Finishing
  <2>2. PICK b, i : q = b \o << i >> /\ IsIntend(i) /\ Completing(columns, options, search, keys, b)
    BY <1>2 DEF Finishing
  <2>3. IsSeq(b) /\ Aside(keys, s.what)
    BY <2>1, <2>2 DEF Completing, Altering, Aside
  <2>4. CASE b = << >> /\ s = i /\ r = << >>
    <3>1. /\ IsLegal(s) /\ ColumnsAfter(s) = columns /\ OptionsAfter(s) = options
          /\ SearchAfter(s) = search /\ KeysAfter(s) = keys
      BY <2>2, <2>4, Effects
    <3>2. Finishing(columns, options, search, keys, r)
      BY <2>2, <2>4 DEF Finishing
    <3> QED
      BY <2>3, <3>1, <3>2
  <2>5. CASE \E c : Splits(b, s, c) /\ r = c \o << i >>
    <3>1. PICK c : Splits(b, s, c) /\ r = c \o << i >>
      BY <2>5
    <3>2. /\ IsLegal(s) /\ KeysAfter(s) \subseteq keys
          /\ Completing(ColumnsAfter(s), OptionsAfter(s), SearchAfter(s), KeysAfter(s), c)
          /\ IsIntend(s) => Completing(columns, options, search, keys, c)
      BY <2>2, <3>1, CompletingGoesOn
    <3>3. KeysAfter(s) = {}
      BY <2>1, <3>2
    <3> QED
      BY <2>1, <2>2, <2>3, <3>1, <3>2, <3>3 DEF Finishing
  <2>6. ComesUp(b, i, s, r)
    <3>1. q = b \o << i >> /\ IsSeq(b)
      BY <2>2, <2>3
    <3> QED
      BY <3>1, LastOrNot
  <2> QED
    BY <2>4, <2>5, <2>6 DEF ComesUp
<1> QED
  BY <1>1, <1>2

\* A statement of an apply that has everything it needs is accepted, and what is
\* left then fits again.
LEMMA StatementFitsIn ==
  ASSUME RowsInv, SuccessInv, Underway, HasStatement,
         NEW d, d = << Tail(Head(due)) >> \o Tail(due), NEW s, s = Statement
  PROVE  /\ IsLegal(s)
         /\ IsIntend(s) => /\ pc = "table" /\ Aside(keys, s.what)
                           /\ \E r : d = << r >> /\ Comparing(r)
         /\ ~IsIntend(s) =>
              /\ Aside(Unlisted(KeysAfter(s)), dropping)
              /\ IF pc = "table"
                 THEN \E r : /\ d = << r >>
                             /\ Finishing(ColumnsAfter(s), OptionsAfter(s), SearchAfter(s), KeysAfter(s), r)
                 ELSE /\ Altering(ColumnsAfter(s), OptionsAfter(s), SearchAfter(s), KeysAfter(s), << >>)
                      /\ Again => Exact(ColumnsAfter(s))
                      /\ TasksFit(pc, KeysAfter(s), d)
                      /\ \A k \in Earlier(pc) : \A m : m.kind = k => (m \in KeysAfter(s) <=> m \in keys)
<1>1. InScene /\ AreSound(columns) /\ search \subseteq SearchItems /\ pc # "start" /\ IsSeq(due)
  BY DueIsSeq DEF RowsInv, Underway, InScene
<1>2. Succeeding /\ AreUnique(keys) /\ DOMAIN options = AllOptions
  BY DEF SuccessInv
<1>3. CASE pc = "table"
  <2>1. PICK q : due = << q >> /\ Comparing(q)
    BY <1>2, <1>3 DEF Succeeding, HasStatement
  <2>2. Head(due) = q /\ q # << >>
    BY <2>1 DEF HasStatement
  <2>3. IsSeq(Head(due))
    <3>1. ASSUME NEW b, NEW i, q = b \o << i >>, Completing(columns, options, search, keys, b) PROVE IsSeq(q)
      BY <3>1, UnitIsSeq, JoinIsSeq DEF Completing, Altering
    <3>2. Rebuilding(q) \/ Completing(columns, options, search, keys, q) => IsSeq(q)
      BY DEF Rebuilding, Completing, Altering, Splits
    <3> QED
      BY <2>1, <2>2, <3>1, <3>2 DEF Comparing, Finishing
  <2>4. PICK h, t, r : Splits(due, h, t) /\ Splits(h, s, r) /\ d = << r >> \o t
    BY <1>1, <2>3, WhatIsNext
  <2>5. Splits(q, s, r) /\ d = << r >>
    <3>1. Splits(<< q >>, h, t)
      BY <2>1, <2>4
    <3>2. h = q /\ << r >> \o t = << r >>
      BY <3>1, OneTask
    <3> QED
      BY <2>4, <3>2
  <2>6. CASE Rebuilding(q)
    <3>1. /\ IsLegal(s) /\ ~IsIntend(s) /\ KeysAfter(s) = {}
          /\ Finishing(ColumnsAfter(s), OptionsAfter(s), SearchAfter(s), KeysAfter(s), r)
      BY <1>1, <2>5, <2>6, RebuildingGoesOn
    <3>2. Aside(Unlisted(KeysAfter(s)), dropping)
      BY <3>1 DEF Aside, Unlisted
    <3> QED
      BY <1>3, <2>5, <3>1, <3>2
  <2>7. CASE ~Rebuilding(q)
    <3>1. Finishing(columns, options, search, keys, q)
      BY <2>1, <2>7 DEF Comparing
    <3>2. /\ IsLegal(s) /\ KeysAfter(s) \subseteq keys
          /\ Finishing(ColumnsAfter(s), OptionsAfter(s), SearchAfter(s), KeysAfter(s), r)
          /\ IsIntend(s) => Aside(keys, s.what) /\ Finishing(columns, options, search, keys, r)
      BY <1>1, <1>2, <2>5, <3>1, FinishingGoesOn
    <3>3. IsIntend(s) => Comparing(r)
      BY <3>2 DEF Comparing
    <3>4. Aside(Unlisted(KeysAfter(s)), dropping)
      BY <1>2, <3>2 DEF Aside, Unlisted, Succeeding
    <3> QED
      BY <1>3, <2>5, <3>2, <3>3, <3>4
  <2> QED
    BY <2>6, <2>7
<1>4. CASE pc # "table"
  <2>1. Comparing(<< >>) /\ TasksFit(pc, keys, due) /\ Aside(Unlisted(keys), dropping)
    BY <1>2, <1>4 DEF Succeeding
  <2>3. Altering(columns, options, search, keys, << >>) /\ (Again => Exact(columns))
    BY <2>1, FinishedIsAltered
  <2>4. Names(bp.columns) \subseteq Names(columns)
    BY <1>1, <2>3, NothingIsLeft
  <2>5. IsSeq(Head(due))
    <3>1. Head(due) \in Range(due)
      BY <1>1, HeadTail DEF HasStatement
    <3>2. Head(due) \in KeyTaskSet(pc)
      BY <2>1, <3>1 DEF TasksFit
    <3> QED
      BY <3>2, TaskIsOf
  <2>6. PICK h, t, r : Splits(due, h, t) /\ Splits(h, s, r) /\ d = << r >> \o t
    BY <1>1, <2>5, WhatIsNext
  <2>7. /\ IsLegal(s) /\ ~IsIntend(s) /\ ColumnsAfter(s) = columns /\ OptionsAfter(s) = options
        /\ SearchAfter(s) = search /\ KeysAfter(s) \subseteq keys \cup bp.keys
        /\ TasksFit(pc, KeysAfter(s), d)
        /\ \A k : k.kind # pc => (k \in KeysAfter(s) <=> k \in keys)
    <3> DEFINE e == << r >> \o t
    <3>1. /\ IsLegal(s) /\ ~IsIntend(s) /\ ColumnsAfter(s) = columns /\ OptionsAfter(s) = options
          /\ SearchAfter(s) = search /\ KeysAfter(s) \subseteq keys \cup bp.keys
          /\ TasksFit(pc, KeysAfter(s), e)
          /\ \A k : k.kind # pc => (k \in KeysAfter(s) <=> k \in keys)
      BY <1>1, <1>2, <2>1, <2>4, <2>6, KeyIsDone
    <3> HIDE DEF e
    <3>2. d = e
      BY <2>6 DEF e
    <3> QED
      BY <3>1, <3>2
  <2>8. Altering(columns, options, search, KeysAfter(s), << >>)
    BY <2>3, KeysDoNotMatter
  <2>9. Aside(Unlisted(KeysAfter(s)), dropping)
    <3>1. Unlisted(KeysAfter(s)) \subseteq Unlisted(keys)
      BY <2>7 DEF Unlisted
    <3> QED
      BY <2>1, <3>1 DEF Aside
  <2>10. \A k \in Earlier(pc) : k # pc
    <3>1. \A k \in Range(Kinds) : IndexOf(k) \in 1..4
      BY KindsInOrder DEF IndexOf, Range
    <3> QED
      BY <3>1 DEF Earlier
  <2> QED
    BY <1>4, <2>3, <2>7, <2>8, <2>9, <2>10
<1> QED
  BY <1>3, <1>4

\* Steps within an invocation which leave the table alone.
LEMMA OtherStepsSucceed ==
  ASSUME SuccessInv, UNCHANGED <<scenario, table, inv, history>>, pc' = "start" => pc = "start",
         ~refused', Underway' => Succeeding'
  PROVE  SuccessInv'
<1>1. UNCHANGED <<columns, options, search, keys, scenario, inv, history>>
  BY DEF table
<1>2. SuccessMeansAsDeclared'
  <2>1. SuccessMeansAsDeclared
    BY DEF SuccessInv
  <2> QED
    BY <1>1, <2>1 DEF SuccessMeansAsDeclared, Finished, Succeeded, CommandOf, WithExpressions,
                      OptionInStep, SearchInStep
<1>3. TwoAppliesComplete'
  <2>1. TwoAppliesComplete
    BY DEF SuccessInv
  <2> QED
    BY <1>1, <2>1 DEF TwoAppliesComplete, Finished, Succeeded, CommandOf, InStep, OptionInStep, SearchInStep
<1>4. Finished' = inv' - 1 /\ DOMAIN options' = AllOptions /\ AreUnique(keys')
  BY <1>1 DEF SuccessInv, Finished
<1> QED
  BY <1>2, <1>3, <1>4 DEF SuccessInv, AreUnique, AllOptions

\* An invocation begins with everything that differs.
LEMMA StartSucceeds ==
  ASSUME RowsInv, SuccessInv, Start
  PROVE  SuccessInv'
<1> DEFINE first == IF Exists THEN CompareTable ELSE CreateTable
<1>1. /\ UNCHANGED <<scenario, table, inv, history>> /\ pc' = "table" /\ dropping' = {}
      /\ due' = << first >> /\ refused' = refused /\ pc = "start"
  BY DEF Start
<1>2. inv \in DOMAIN scenario.commands /\ scenario \in Scenarios
  <2>1. scenario.commands \in Seq(Command) /\ inv \in Nat \ {0} /\ inv <= Len(scenario.commands)
    BY TableAssumption DEF RowsInv, ScenarioRecords, Start
  <2> QED
    BY <2>1 DEF RowsInv
<1>3. AreSound(columns) /\ search \subseteq SearchItems
  BY DEF RowsInv
<1>4. Again => ColumnsAsDeclared
  <2> SUFFICES ASSUME Again PROVE ColumnsAsDeclared
    OBVIOUS
  <2>1. Blueprints[CommandOf(Finished).bp] = bp
    BY DEF Again, bp
  <2>2. WithExpressions(bp) = bp.columns
    BY <1>1, <2>1 DEF Again, SuccessInv, SuccessMeansAsDeclared
  <2> QED
    BY <1>2, <1>3, <2>2, ExpressionsApart DEF InScene
<1>5. Comparing(first)
  <2>1. CASE ~Exists \/ ReplaceReasons
    <3>1. CASE ~Exists
      BY <1>2, <3>1, CreateFits DEF Comparing, InScene
    <3>2. CASE Exists /\ ReplaceReasons
      BY <1>2, <3>2, ReplaceFits DEF Comparing, InScene
    <3> QED
      BY <2>1, <3>1, <3>2
  <2>2. CASE Exists /\ ~ReplaceReasons
    <3>1. /\ Altering(columns, options, search, keys, CompareTable) /\ Exact(columns)
          /\ ColumnsAsDeclared => AddsNone(CompareTable)
      BY <1>2, <1>3, <2>2, AlterFits DEF InScene
    <3> QED
      BY <1>4, <2>2, <3>1 DEF Comparing, Finishing, Completing
  <2> QED
    BY <2>1, <2>2
<1> HIDE DEF first
<1>6. PICK q : q = first
  OBVIOUS
<1>7. Aside(Unlisted(keys), dropping)'
  BY <1>1 DEF Aside
<1>8. Succeeding'
  <2>1. due' = << q >> /\ Comparing(q)
    BY <1>1, <1>5, <1>6
  <2>2. Comparing(q)'
    BY <1>1, <2>1, SameTable
  <2> QED
    BY <1>1, <1>7, <2>1, <2>2 DEF Succeeding
<1> QED
  BY <1>1, <1>8, OtherStepsSucceed DEF SuccessInv

\* A task is done, its statements executed.
LEMMA TaskEndSucceeds ==
  ASSUME RowsInv, SuccessInv, TaskEnds
  PROVE  SuccessInv'
<1>1. /\ due # << >> /\ Head(due) = << >> /\ due' = Tail(due)
      /\ UNCHANGED <<scenario, table, inv, history, pc, dropping, refused, failed>>
  BY DEF TaskEnds
<1>2. ASSUME Underway' PROVE Succeeding'
  <2>1. Underway
    <3>1. Unrestricted' <=> Unrestricted
      BY <1>1, SameComparison
    <3> QED
      BY <1>1, <1>2, <3>1 DEF Underway
  <2>2. Succeeding
    BY <2>1 DEF SuccessInv
  <2>3. Aside(Unlisted(keys), dropping)'
    BY <1>1, <2>2 DEF Succeeding, table, Aside, Unlisted, Earlier
  <2>4. CASE pc = "table"
    <3>1. PICK q : due = << q >> /\ Comparing(q)
      BY <1>1, <2>2, <2>4 DEF Succeeding
    <3>2. q = << >> /\ due' = << >>
      BY <1>1, <3>1
    <3>3. Comparing(<< >>)'
      BY <1>1, <3>1, <3>2, SameTable
    <3> QED
      BY <1>1, <2>3, <2>4, <3>2, <3>3 DEF Succeeding
  <2>5. CASE pc # "table"
    <3>1. /\ Comparing(<< >>) /\ TasksFit(pc, keys, due)
          /\ \A k \in Earlier(pc) \ {"table"} : Listed(k) = Declared(k)
      BY <2>2, <2>5 DEF Succeeding
    <3>2. Splits(due, Head(due), due')
      BY <1>1, DueIsSeq DEF Splits
    <3>3. TasksFit(pc, keys, due')
      BY <1>1, <3>1, <3>2, TaskIsDone
    <3>4. TasksFit(pc, keys, due)'
      <4>1. UNCHANGED keys
        BY <1>1 DEF table
      <4> QED
        BY <1>1, <3>3, <4>1, SameComparison
    <3>5. Comparing(<< >>)' /\ \A k \in Earlier(pc)' \ {"table"} : (Listed(k) = Declared(k))'
      <4>1. Earlier(pc)' = Earlier(pc)
        BY <1>1 DEF Earlier
      <4> QED
        BY <1>1, <3>1, <4>1, SameTable
    <3> QED
      BY <1>1, <2>3, <2>5, <3>4, <3>5 DEF Succeeding
  <2> QED
    BY <2>4, <2>5
<1> QED
  BY <1>1, <1>2, OtherStepsSucceed DEF SuccessInv

\* Whatever is executed, keys remain unique and options what they are.
LEMMA ExecutedKeeps ==
  ASSUME InScene, AreUnique(keys), DOMAIN options = AllOptions, NEW s, IsLegal(s)
  PROVE  AreUnique(KeysAfter(s)) /\ DOMAIN OptionsAfter(s) = AllOptions
<1>1. DOMAIN OptionsAfter(s) = AllOptions
  <2>1. DOMAIN OptionsOf(bp) = AllOptions
    <3>1. bp.options \in OptionRecords
      BY BlueprintIsSound DEF BlueprintRecords, InScene
    <3>2. DOMAIN bp.options = AllOptions
      BY <3>1 DEF OptionRecords, AllOptions, Options
    <3> QED
      BY <3>2 DEF OptionsOf
  <2>2. DOMAIN [options EXCEPT ![s.what.option] = s.what.value] = AllOptions
    OBVIOUS
  <2> QED
    BY <2>1, <2>2 DEF OptionsAfter
<1>2. CASE s.op = "add key"
  <2>1. KeysAfter(s) = keys \cup {s.what} /\ \A k \in keys : ~SameKey(k, s.what)
    BY <1>2 DEF KeysAfter, IsLegal
  <2> QED
    BY <1>1, <2>1, StillUnique
<1>3. CASE s.op # "add key"
  <2>1. KeysAfter(s) \subseteq keys
    BY <1>3 DEF KeysAfter
  <2> QED
    BY <1>1, <2>1, StillUnique
<1> QED
  BY <1>2, <1>3

\* TableResolver says which columns go.
LEMMA IntendSucceeds ==
  ASSUME RowsInv, SuccessInv, Intend
  PROVE  SuccessInv'
<1>1. /\ HasStatement /\ IsIntend(Statement) /\ dropping' = dropping \cup Statement.what
      /\ due' = << Tail(Head(due)) >> \o Tail(due)
      /\ UNCHANGED <<scenario, table, inv, history, pc, refused, failed>>
  BY DEF Intend, Advance, IsIntend
<1>2. ASSUME Underway' PROVE Succeeding'
  <2>1. Underway
    <3>1. Unrestricted' <=> Unrestricted
      BY <1>1, SameComparison
    <3> QED
      BY <1>1, <1>2, <3>1 DEF Underway
  <2>2. /\ pc = "table" /\ Aside(keys, Statement.what) /\ \E r : due' = << r >> /\ Comparing(r)
    <3>1. PICK d, s : d = << Tail(Head(due)) >> \o Tail(due) /\ s = Statement
      OBVIOUS
    <3>2. IsIntend(s) => pc = "table" /\ Aside(keys, s.what) /\ \E r : d = << r >> /\ Comparing(r)
      BY <1>1, <2>1, <3>1, StatementFitsIn
    <3> QED
      BY <1>1, <3>1, <3>2
  <2>3. PICK r : due' = << r >> /\ Comparing(r)
    BY <2>2
  <2>4. Comparing(r)'
    BY <1>1, <2>3, SameTable
  <2>5. Aside(Unlisted(keys), dropping)'
    <3>1. Aside(Unlisted(keys), dropping) /\ UNCHANGED keys
      BY <1>1, <2>1 DEF Succeeding, SuccessInv, table
    <3>2. Unlisted(keys)' = Unlisted(keys) /\ Unlisted(keys) \subseteq keys
      BY <1>1, <3>1 DEF Unlisted, Earlier
    <3> QED
      BY <1>1, <2>2, <3>1, <3>2 DEF Aside
  <2> QED
    BY <1>1, <2>2, <2>3, <2>4, <2>5 DEF Succeeding
<1> QED
  BY <1>1, <1>2, OtherStepsSucceed DEF SuccessInv

\* With every switch no statement is only suggested.
LEMMA SuggestSucceeds ==
  ASSUME SuccessInv, Suggest
  PROVE  SuccessInv'
<1>1. /\ ~CanRun(Statement)
      /\ UNCHANGED <<scenario, table, inv, history, pc, refused, failed>>
  BY DEF Suggest
<1>2. ~Unrestricted
  BY <1>1 DEF CanRun, Unrestricted
<1>3. ~Underway'
  <2>1. Unrestricted' <=> Unrestricted
    BY <1>1, SameComparison
  <2> QED
    BY <1>2, <2>1 DEF Underway
<1> QED
  BY <1>1, <1>3, OtherStepsSucceed DEF SuccessInv

\* A statement fails: with every switch, and nothing failed before, not because it
\* does not find what it names.
LEMMA RaiseSucceeds ==
  ASSUME RowsInv, SuccessInv, Raise
  PROVE  SuccessInv'
<1>1. /\ HasStatement /\ CanRun(Statement) /\ failed'
      /\ UNCHANGED <<scenario, table, inv, history, pc>>
      /\ \/ refused' = refused
         \/ ~IsLegal(Statement) /\ refused' = (refused \/ (Invocation.unsafe /\ Invocation.replace_table /\ ~failed))
  BY DEF Raise, IsDue
<1>2. ~refused
  BY DEF SuccessInv
<1>3. ~refused'
  <2> SUFFICES ASSUME refused' PROVE FALSE
    OBVIOUS
  <2>1. ~IsLegal(Statement) /\ Invocation.unsafe /\ Invocation.replace_table /\ ~failed
    BY <1>1, <1>2
  <2>2. Underway
    BY <1>1, <2>1 DEF Underway, Unrestricted, CanRun, RowsInv, HasStatement
  <2>3. IsLegal(Statement)
    BY <1>1, <2>2, StatementFitsIn
  <2> QED
    BY <2>1, <2>3
<1>4. ~Underway'
  BY <1>1 DEF Underway
<1> QED
  BY <1>1, <1>3, <1>4, OtherStepsSucceed

\* A statement is executed.
LEMMA ExecuteSucceeds ==
  ASSUME RowsInv, SuccessInv, Execute
  PROVE  SuccessInv'
<1>1. PICK s, d : s = Statement /\ d = << Tail(Head(due)) >> \o Tail(due)
  OBVIOUS
<1>2. /\ HasStatement /\ IsLegal(s) /\ ~IsIntend(s) /\ due' = d
      /\ columns' = ColumnsAfter(s) /\ options' = OptionsAfter(s)
      /\ search' = SearchAfter(s) /\ keys' = KeysAfter(s)
      /\ UNCHANGED <<scenario, inv, history, pc, dropping, failed, refused>>
  BY <1>1 DEF Execute, IsDue, Advance, IsIntend
<1>3. InScene /\ pc # "start"
  BY <1>2 DEF RowsInv, InScene, HasStatement
<1>4. AreUnique(keys') /\ DOMAIN options' = AllOptions /\ Finished' = inv' - 1 /\ ~refused'
  BY <1>2, <1>3, ExecutedKeeps DEF SuccessInv, Finished
<1>5. AreUnique(keys)' /\ (DOMAIN options = AllOptions)'
  BY <1>4 DEF AreUnique, AllOptions
<1>6. ASSUME Underway' PROVE Succeeding'
  <2>1. Underway
    <3>1. Unrestricted' <=> Unrestricted
      BY <1>2, SameComparison
    <3> QED
      BY <1>2, <1>6, <3>1 DEF Underway
  <2>2. /\ Aside(Unlisted(keys'), dropping)
        /\ IF pc = "table"
           THEN \E r : due' = << r >> /\ Finishing(columns', options', search', keys', r)
           ELSE /\ Altering(columns', options', search', keys', << >>)
                /\ Again => Exact(columns')
                /\ TasksFit(pc, keys', due')
                /\ \A k \in Earlier(pc) : \A m : m.kind = k => (m \in keys' <=> m \in keys)
    BY <1>1, <1>2, <2>1, StatementFitsIn, Zenon
  <2>3. Aside(Unlisted(keys), dropping)'
    BY <1>2, <2>2 DEF Aside, Unlisted, Earlier
  <2>4. Again' <=> Again
    <3>1. Invocation' = Invocation
      BY <1>2, SameBlueprint
    <3> QED
      BY <1>2, <3>1 DEF Again, Finished, Succeeded, CommandOf
  <2>5. CASE pc = "table"
    <3>1. PICK r : due' = << r >> /\ Finishing(columns', options', search', keys', r)
      BY <2>2, <2>5
    <3>2. Finishing(columns, options, search, keys, r)'
      BY <1>2, <2>4, <3>1, SameFinish
    <3>3. Comparing(r)'
      BY <3>2 DEF Comparing
    <3> QED
      BY <1>2, <2>3, <2>5, <3>1, <3>3 DEF Succeeding
  <2>6. CASE pc # "table"
    <3>1. /\ Altering(columns, options, search, keys, << >>)' /\ (Again => Exact(columns)')
          /\ TasksFit(pc, keys, due)'
      BY <1>2, <2>2, <2>6, SameComparison
    <3>2. AddsNone(<< >>)
      BY EmptyIsSeq DEF AddsNone
    <3>3. Comparing(<< >>)'
      BY <2>4, <3>1, <3>2 DEF Comparing, Finishing, Completing, AddsNone
    <3>4. ASSUME NEW k \in Earlier(pc)' \ {"table"} PROVE (Listed(k) = Declared(k))'
      <4>1. k \in Earlier(pc) \ {"table"}
        BY <1>2 DEF Earlier
      <4>2. Listed(k) = Declared(k)
        BY <2>1, <2>6, <4>1 DEF SuccessInv, Succeeding
      <4>3. Listed(k)' = Listed(k)
        BY <2>2, <2>6, <4>1 DEF Listed
      <4>4. Declared(k)' = Declared(k)
        BY <1>2, SameBlueprint DEF Declared
      <4> QED
        BY <4>2, <4>3, <4>4
    <3> QED
      BY <1>2, <2>3, <2>6, <3>1, <3>3, <3>4 DEF Succeeding
  <2> QED
    BY <2>5, <2>6
<1>7. (SuccessMeansAsDeclared /\ TwoAppliesComplete)'
  BY <1>2, <1>3 DEF SuccessMeansAsDeclared, TwoAppliesComplete
<1> QED
  BY <1>4, <1>5, <1>6, <1>7 DEF SuccessInv

\* The next resolver finds what is left of the keys.
LEMMA NextResolverSucceeds ==
  ASSUME RowsInv, SuccessInv, NextResolver
  PROVE  SuccessInv'
<1>1. /\ pc \in Range(Kinds) /\ due = << >> /\ IndexOf(pc) < Len(Kinds)
      /\ pc' = Kinds[IndexOf(pc) + 1] /\ due' = KeyTasks(pc')
      /\ UNCHANGED <<scenario, table, inv, dropping, failed, refused, history>>
  BY DEF NextResolver
<1>2. /\ pc # "start" /\ pc' \in Range(Kinds) /\ pc' # "start" /\ pc' # "table"
      /\ Earlier(pc') = Earlier(pc) \cup {pc}
  BY <1>1, ResolversInOrder
<1>3. InScene /\ IsFiniteSet(keys) /\ keys \subseteq KeyRecords
  BY <1>2 DEF RowsInv, InScene
<1>4. ASSUME Underway' PROVE Succeeding'
  <2>1. Underway
    <3>1. Unrestricted' <=> Unrestricted
      BY <1>1, SameComparison
    <3> QED
      BY <1>1, <1>2, <1>4, <3>1 DEF Underway
  <2>2. Succeeding /\ AreUnique(keys)
    BY <2>1 DEF SuccessInv
  <2>3. Aside(Unlisted(keys), dropping) /\ Comparing(<< >>)
    <3>1. \A q : << q >> # << >>
      OBVIOUS
    <3> QED
      BY <1>1, <2>2, <3>1 DEF Succeeding
  <2>4. PICK kind : kind = pc'
    OBVIOUS
  <2>5. TasksFit(kind, keys, KeyTasks(kind))
    <3>1. {k \in keys : k.kind = kind} \subseteq Unlisted(keys)
      <4>1. IndexOf(kind) \in 1..4
        BY <1>2, <2>4, KindsInOrder DEF IndexOf, Range
      <4>2. kind \notin Earlier(kind)
        BY <4>1 DEF Earlier
      <4> QED
        BY <1>2, <2>4, <4>2 DEF Unlisted
    <3>2. Aside({k \in keys : k.kind = kind}, dropping)
      BY <2>3, <3>1 DEF Aside
    <3> QED
      BY <1>3, <2>2, <3>2, KeyTasksFit
  <2>6. TasksFit(pc, keys, due)'
    <3>1. TasksFit(pc', keys', due')
      <4>1. UNCHANGED keys
        BY <1>1 DEF table
      <4> QED
        BY <1>1, <2>4, <2>5, <4>1
    <3> QED
      BY <1>1, <3>1, SameComparison
  <2>7. Comparing(<< >>)' /\ Aside(Unlisted(keys), dropping)'
    <3>1. Comparing(<< >>)'
      BY <1>1, <2>3, SameTable
    <3>2. Unlisted(keys)' \subseteq Unlisted(keys)
      <4>1. Earlier(pc)' = Earlier(pc) \cup {pc} /\ UNCHANGED keys
        BY <1>1, <1>2 DEF Earlier, table
      <4> QED
        BY <4>1 DEF Unlisted
    <3>3. Aside(Unlisted(keys), dropping)'
      BY <1>1, <2>3, <3>2 DEF Aside
    <3> QED
      BY <3>1, <3>3
  <2>8. ASSUME NEW k \in Earlier(pc)' \ {"table"} PROVE (Listed(k) = Declared(k))'
    <3>1. k \in Earlier(pc') \ {"table"}
      BY DEF Earlier
    <3>2. Listed(k) = Declared(k)
      <4>1. CASE k = pc
        <5>1. TasksFit(pc, keys, << >>)
          BY <1>1, <2>2, <3>1, <4>1 DEF Succeeding
        <5> QED
          BY <4>1, <5>1, KeysAreDeclared
      <4>2. CASE k # pc
        <5>1. k \in Earlier(pc) \ {"table"}
          BY <1>2, <3>1, <4>2
        <5>2. pc # "table"
          BY <5>1, ResolversInOrder
        <5> QED
          BY <2>2, <5>1, <5>2 DEF Succeeding
      <4> QED
        BY <4>1, <4>2
    <3> QED
      BY <1>1, <3>2, SameTable
  <2> QED
    BY <1>2, <2>6, <2>7, <2>8 DEF Succeeding
<1> QED
  BY <1>1, <1>2, <1>4, OtherStepsSucceed DEF SuccessInv

\* At the end of an apply that has everything it needs, in which nothing failed, the
\* table is as declared.
LEMMA DoneIsAsDeclared ==
  ASSUME RowsInv, SuccessInv, Underway, pc = "foreign", due = << >>
  PROVE  /\ WithExpressions(bp) = bp.columns
         /\ \A o \in DOMAIN bp.options : OptionInStep(bp, o)
         /\ SearchInStep(bp) /\ keys = bp.keys
         /\ Again => InStep(bp)
<1>1. InScene /\ AreSound(columns) /\ search \subseteq SearchItems /\ keys \subseteq KeyRecords
  BY DEF RowsInv, InScene
<1>2. /\ Comparing(<< >>) /\ TasksFit("foreign", keys, << >>)
      /\ \A k \in Earlier("foreign") \ {"table"} : Listed(k) = Declared(k)
  BY DEF SuccessInv, Succeeding
<1>4. Altering(columns, options, search, keys, << >>) /\ (Again => Exact(columns))
  BY <1>2, FinishedIsAltered
<1>5. ColumnsAsDeclared /\ (\A o \in DOMAIN bp.options : OptionInStep(bp, o)) /\ SearchInStep(bp)
  BY <1>1, <1>4, NothingIsLeft
<1>6. \A kind \in {"primary", "unique", "foreign"} : Listed(kind) = Declared(kind)
  BY <1>2, KeysAreDeclared, ResolversInOrder
<1>7. bp.keys \subseteq KeyRecords
  BY <1>1, BlueprintIsSound DEF BlueprintRecords, InScene
<1>8. \A k \in keys \cup bp.keys : k.kind \in {"primary", "unique", "foreign"}
  <2>1. Range(KeyKinds) = {"primary", "unique", "foreign"}
    <3>1. DOMAIN KeyKinds = {1, 2, 3}
      BY DEF KeyKinds
    <3> QED
      BY <3>1 DEF KeyKinds, Range
  <2> QED
    BY <1>1, <1>7, <2>1 DEF KeyRecords
<1>9. keys = bp.keys
  <2>1. ASSUME NEW k \in keys PROVE k \in bp.keys
    <3>1. k \in Listed(k.kind)
      BY DEF Listed
    <3> QED
      BY <1>6, <1>8, <3>1 DEF Declared
  <2>2. ASSUME NEW k \in bp.keys PROVE k \in keys
    <3>1. k \in Declared(k.kind)
      BY DEF Declared
    <3> QED
      BY <1>6, <1>8, <3>1 DEF Listed
  <2> QED
    BY <2>1, <2>2
<1>10. WithExpressions(bp) = bp.columns
  BY <1>1, <1>5, ExpressionsApart
<1>11. ASSUME Again PROVE InStep(bp)
  <2>1. [i \in DOMAIN columns |-> Definition(columns[i])] = bp.columns
    BY <1>1, <1>4, <1>5, <1>11, ExpressionsComplete
  <2> QED
    BY <1>5, <1>9, <2>1 DEF InStep
<1> QED
  BY <1>5, <1>9, <1>10, <1>11

\* What has been written down when an invocation ends.
LEMMA HistoryGrows ==
  ASSUME IsSeq(history), Finished = inv - 1, inv \in Nat \ {0}, NEW exit, Record(exit)
  PROVE  /\ Finished' = Finished + 1 /\ Finished' = inv /\ Finished \in Nat
         /\ history'[Finished'].exit = exit /\ \A i \in 1..Finished : history'[i] = history[i]
         /\ Finished' = inv' - 1
<1> DEFINE h == [in_step |-> seen.in_step, due |-> seen.due, exit |-> exit]
<1>1. history' = Append(history, h) /\ inv' = inv + 1 /\ h.exit = exit
  BY DEF Record
<1> HIDE DEF h
<1>2. /\ IsSeq(Append(history, h)) /\ Len(history) \in Nat /\ DOMAIN history = 1..Len(history)
      /\ DOMAIN Append(history, h) = 1..(Len(history) + 1)
      /\ \A i \in DOMAIN history : Append(history, h)[i] = history[i]
      /\ Append(history, h)[Len(history) + 1] = h
  BY AppendedAre
<1>3. Len(Append(history, h)) = Len(history) + 1
  BY <1>2, SeqElim
<1> QED
  BY <1>1, <1>2, <1>3 DEF Finished

\* An invocation ends, or dies.
LEMMA RecordSucceeds ==
  ASSUME RowsInv, QuietInv, SuccessInv, NEW exit, Record(exit), pc # "start",
         exit = "success" => ~failed /\ pc = "foreign" /\ due = << >>
  PROVE  SuccessInv'
<1>1. /\ UNCHANGED <<scenario, columns, options, search, keys, refused>> /\ pc' = "start"
      /\ inv' = inv + 1
  BY DEF Record, table
<1>2. /\ Finished' = Finished + 1 /\ Finished' = inv /\ Finished \in Nat /\ Finished' = inv' - 1
      /\ history'[Finished'].exit = exit /\ \A i \in 1..Finished : history'[i] = history[i]
  BY HistoryGrows DEF QuietInv, RowsInv, SuccessInv
<1>3. ASSUME Succeeded(Finished)'
      PROVE  /\ CommandOf(Finished)' = Invocation
             /\ WithExpressions(bp) = bp.columns
             /\ \A o \in DOMAIN bp.options : OptionInStep(bp, o)
             /\ SearchInStep(bp) /\ keys = bp.keys
             /\ Again => InStep(bp)
  <2>1. CommandOf(Finished)' = Invocation
    BY <1>1, <1>2 DEF CommandOf, Invocation
  <2>2. exit = "success" /\ ~Invocation.plan /\ Invocation.unsafe /\ Invocation.replace_table
    BY <1>2, <1>3, <2>1 DEF Succeeded
  <2>3. Underway
    BY <2>2 DEF Underway, Unrestricted
  <2> QED
    BY <2>1, <2>2, <2>3, DoneIsAsDeclared
<1>4. SuccessMeansAsDeclared'
  <2>1. CASE ~Succeeded(Finished)'
    BY <2>1 DEF SuccessMeansAsDeclared
  <2>2. CASE Succeeded(Finished)'
    <3>1. (Blueprints[CommandOf(Finished).bp])' = bp
      BY <1>3, <2>2 DEF bp
    <3>2. PICK b : b = bp
      OBVIOUS
    <3>3. /\ WithExpressions(b) = b.columns /\ \A o \in DOMAIN b.options : OptionInStep(b, o)
          /\ SearchInStep(b) /\ keys = b.keys
      BY <1>3, <2>2, <3>2
    <3>4. /\ (WithExpressions(b) = b.columns)' /\ \A o \in DOMAIN b.options : OptionInStep(b, o)'
          /\ SearchInStep(b)' /\ keys' = b.keys
      BY <1>1, <3>3 DEF WithExpressions, OptionInStep, SearchInStep
    <3> QED
      BY <3>1, <3>2, <3>4 DEF SuccessMeansAsDeclared
  <2> QED
    BY <2>1, <2>2
<1>5. TwoAppliesComplete'
  <2> SUFFICES ASSUME Finished' > 1, Succeeded(Finished - 1)', Succeeded(Finished)',
                      CommandOf(Finished)'.bp = CommandOf(Finished - 1)'.bp
               PROVE  InStep(Blueprints[CommandOf(Finished).bp])'
    BY DEF TwoAppliesComplete
  <2>1. Finished > 0 /\ Finished' - 1 = Finished /\ Finished \in 1..Finished
    BY <1>2
  <2>2. Succeeded(Finished) /\ CommandOf(Finished - 1)' = CommandOf(Finished)
    BY <1>1, <1>2, <2>1 DEF Succeeded, CommandOf
  <2>3. Again
    BY <1>3, <2>1, <2>2 DEF Again
  <2>4. InStep(bp) /\ CommandOf(Finished)' = Invocation
    BY <1>3, <2>3
  <2>5. PICK b : b = bp
    OBVIOUS
  <2>6. InStep(b)'
    BY <1>1, <2>4, <2>5 DEF InStep, OptionInStep, SearchInStep
  <2>7. (Blueprints[CommandOf(Finished).bp])' = b
    BY <2>4, <2>5 DEF bp
  <2> QED
    BY <2>6, <2>7
<1>6. /\ ~refused' /\ DOMAIN options' = AllOptions /\ AreUnique(keys')
  BY <1>1 DEF SuccessInv
<1>7. ~Underway'
  BY <1>1 DEF Underway
<1> QED
  BY <1>2, <1>4, <1>5, <1>6, <1>7 DEF SuccessInv, AreUnique, AllOptions

\* The invariant holds at first.
LEMMA InitSucceeds == Init => SuccessInv
<1> SUFFICES ASSUME Init PROVE SuccessInv
  OBVIOUS
<1> DEFINE t == Tables[scenario.table]
<1>1. scenario \in Scenarios /\ scenario.table \in DOMAIN Tables
  BY TableAssumption DEF Init, ScenarioRecords
<1>2. t \in TableRecords /\ IsTable(t)
  BY <1>1, TableAssumption
<1>3. /\ options = t.options /\ keys = t.keys /\ history = << >> /\ inv = 1 /\ pc = "start"
      /\ refused = FALSE
  BY DEF Init
<1> HIDE DEF t
<1>4. DOMAIN options = AllOptions
  <2>1. options \in OptionRecords
    BY <1>2, <1>3 DEF TableRecords
  <2> QED
    BY <2>1 DEF OptionRecords, AllOptions, Options
<1>5. AreUnique(keys)
  BY <1>2, <1>3 DEF AreUnique, IsTable
<1>6. Finished = 0
  BY <1>3, EmptyIsSeq DEF Finished
<1> QED
  BY <1>3, <1>4, <1>5, <1>6 DEF SuccessInv, SuccessMeansAsDeclared, TwoAppliesComplete, Underway

\* Every step keeps the invariant.
LEMMA SuccessInvHolds == RowsInv /\ QuietInv /\ SuccessInv /\ [Next]_vars => SuccessInv'
<1> SUFFICES ASSUME RowsInv, QuietInv, SuccessInv, [Next]_vars PROVE SuccessInv'
  OBVIOUS
<1>1. CASE Start
  BY <1>1, StartSucceeds
<1>2. CASE TaskEnds
  BY <1>2, TaskEndSucceeds
<1>3. CASE Intend
  BY <1>3, IntendSucceeds
<1>4. CASE Suggest
  BY <1>4, SuggestSucceeds
<1>5. CASE Execute
  BY <1>5, ExecuteSucceeds
<1>6. CASE Raise
  BY <1>6, RaiseSucceeds
<1>7. CASE NextResolver
  BY <1>7, NextResolverSucceeds
<1>8. CASE Exit
  <2>1. PICK exit : exit = IF failed THEN "errors" ELSE "success"
    OBVIOUS
  <2>2. Record(exit) /\ pc = "foreign" /\ due = << >>
    BY <1>8, <2>1, KindsInOrder DEF Exit
  <2> QED
    BY <2>1, <2>2, RecordSucceeds
<1>9. CASE Crash
  <2>1. Record("aborted") /\ pc # "start"
    BY <1>9 DEF Crash
  <2> QED
    BY <2>1, RecordSucceeds
<1>10. CASE UNCHANGED vars
  <2>1. UNCHANGED <<scenario, table, inv, history, pc, due, dropping, failed, refused>>
    BY <1>10 DEF vars
  <2>2. ASSUME Underway' PROVE Succeeding'
    <3>1. Unrestricted' <=> Unrestricted
      BY <2>1, SameComparison
    <3>2. Succeeding
      BY <2>1, <2>2, <3>1 DEF Underway, SuccessInv
    <3>3. Aside(Unlisted(keys), dropping)' <=> Aside(Unlisted(keys), dropping)
      BY <2>1 DEF table, Aside, Unlisted, Earlier
    <3>4. TasksFit(pc, keys, due)' <=> TasksFit(pc, keys, due)
      BY <2>1, SameComparison DEF table
    <3>5. CASE pc = "table"
      BY <2>1, <3>2, <3>3, <3>5, SameTable DEF Succeeding
    <3>6. CASE pc # "table"
      <4>1. Earlier(pc)' = Earlier(pc)
        BY <2>1 DEF Earlier
      <4> QED
        BY <2>1, <3>2, <3>3, <3>4, <3>6, <4>1, SameTable DEF Succeeding
    <3> QED
      BY <3>5, <3>6
  <2> QED
    BY <2>1, <2>2, OtherStepsSucceed DEF SuccessInv
<1> QED
  BY <1>1, <1>2, <1>3, <1>4, <1>5, <1>6, <1>7, <1>8, <1>9, <1>10 DEF Next, Idle

\* In every state.
LEMMA SuccessInvariant == Spec => []SuccessInv
<1>1. Spec => []QuietInv
  BY InitIsQuiet, QuietInvHolds, RowsInvariant, PTL DEF Spec
<1> QED
  BY <1>1, InitSucceeds, SuccessInvHolds, RowsInvariant, PTL DEF Spec

\* After an apply with all the switches that exits 0 the table is as declared, the
\* expressions of columns it added excepted: for every blueprint, table and sequence
\* of invocations, whatever an apply before left half altered.
THEOREM SuccessIsAsDeclared == Spec => []SuccessMeansAsDeclared
<1>1. SuccessInv => SuccessMeansAsDeclared
  BY DEF SuccessInv
<1> QED
  BY <1>1, SuccessInvariant, PTL

\* After a second one of the same blueprint the expressions are as declared, too.
THEOREM TwoAppliesDo == Spec => []TwoAppliesComplete
<1>1. SuccessInv => TwoAppliesComplete
  BY DEF SuccessInv
<1> QED
  BY <1>1, SuccessInvariant, PTL

\* No statement of an apply with all the switches is refused for what it names, unless
\* one before it failed: columns are added before others go, at least one remains,
\* keys find their columns, and what went with a column is not dropped again.
THEOREM EveryStatementIsAccepted == Spec => []StatementsAreAccepted
<1>1. SuccessInv => StatementsAreAccepted
  BY DEF SuccessInv, StatementsAreAccepted
<1> QED
  BY <1>1, SuccessInvariant, PTL

=============================================================================
