----------------------------- MODULE Statements -----------------------------
(***************************************************************************)
(* The DDL each object resolver emits, as data.                            *)
(*                                                                         *)
(* A resolver turns one blueprint, or one pair of a blueprint and a row of *)
(* the account, into a sequence of statements and a ResolveResult.  What a *)
(* statement says is abstracted to                                         *)
(*   op       what it does to the object: CREATE, ALTER, REPLACE or DROP   *)
(*   obj      the object                                                   *)
(*   gate     the settings that must be on for it to be executed, else it  *)
(*            is only suggested (SnowDDLEngine.execute_safe_ddl and        *)
(*            execute_unsafe_ddl with their condition)                     *)
(*   aspects  for CREATE and REPLACE the aspects of the blueprint which it *)
(*            does not set yet, for ALTER the aspects which it brings in   *)
(*            line with the blueprint                                      *)
(*                                                                         *)
(* The attributes of an object are abstracted to the aspects in which it   *)
(* differs from its blueprint (its drift), grouped by how the resolver     *)
(* reacts: "kind" (TRANSIENT or permanent), "attribute", "columns" (a      *)
(* change that needs the table rebuilt), "body" (text of a view, body of a *)
(* function, columns of a key), "search" (search optimization), "comment". *)
(***************************************************************************)
EXTENDS Sequences

Aspects == {"kind", "attribute", "columns", "body", "search", "comment"}

\* Those which the compare_object of a type looks at.
AspectsOf(type) ==
  CASE type \in {"DATABASE", "SCHEMA"}      -> {"kind", "attribute", "comment"}
    [] type = "TABLE"                       -> {"attribute", "columns", "search", "comment"}
    [] type = "VIEW"                        -> {"body", "comment"}
    [] type \in {"FUNCTION", "PRIMARY_KEY"} -> {"body"}

\* SnowDDLSettings: the switches a statement of these types can be gated by.
Switches == {"execute_safe_ddl", "execute_unsafe_ddl", "execute_replace_table"}

Safe         == {"execute_safe_ddl"}
Unsafe       == {"execute_unsafe_ddl"}
ReplaceTable == {"execute_unsafe_ddl", "execute_replace_table"}

Statement(op, o, gate, aspects) ==
  [op |-> op, obj |-> o, gate |-> gate, aspects |-> aspects]

Reply(result, statements) == [result |-> result, statements |-> statements]

\* One ALTER when the aspect has drifted, nothing otherwise.
AlterIf(o, drift, aspect, gate) ==
  IF aspect \in drift THEN <<Statement("ALTER", o, gate, {aspect})>> ELSE <<>>

\* compare_object of a type that is only ever altered: NOCHANGE if nothing is.
Altered(statements) ==
  Reply(IF statements = <<>> THEN "NOCHANGE" ELSE "ALTER", statements)

-----------------------------------------------------------------------------
\* DATABASE.  A new database comes with a schema PUBLIC, dropped at once.
\* Mutant: PUBLIC is left to the schema resolver.
KeepPublic(d, public) == Reply("CREATE", <<Statement("CREATE", d, Safe, {})>>)
CreateDatabase(d, public) ==
  Reply("CREATE", << Statement("CREATE", d, Safe, {}),
                     Statement("DROP", public, Safe, {}) >>)

CompareDatabase(d, drift) ==
  IF "kind" \in drift
  THEN Reply("UNSUPPORTED", <<>>)
  ELSE Altered( AlterIf(d, drift, "attribute", Unsafe)
             \o AlterIf(d, drift, "comment", Unsafe) )

DropDatabase(d) == Reply("DROP", <<Statement("DROP", d, Unsafe, {})>>)

-----------------------------------------------------------------------------
\* SCHEMA.  Unlike a database's, its comment is changed by safe DDL.
CreateSchema(s) == Reply("CREATE", <<Statement("CREATE", s, Safe, {})>>)

CompareSchema(s, drift) ==
  IF "kind" \in drift
  THEN Reply("UNSUPPORTED", <<>>)
  ELSE Altered( AlterIf(s, drift, "attribute", Unsafe)
             \o AlterIf(s, drift, "comment", Safe) )

DropSchema(s) == Reply("DROP", <<Statement("DROP", s, Unsafe, {})>>)

-----------------------------------------------------------------------------
\* TABLE.  Search optimization is a statement of its own, and unsafe.
CreateTable(t) ==
  Reply("CREATE", << Statement("CREATE", t, Safe, {"search"}),
                     Statement("ALTER", t, Unsafe, {"search"}) >>)

\* Any replace reason wins over all alters; the result is REPLACE or ALTER
\* whether or not the switches let the statements run.
CompareTable(t, drift) ==
  IF "columns" \in drift
  THEN Reply("REPLACE", << Statement("REPLACE", t, ReplaceTable, {"search"}),
                           Statement("ALTER", t, ReplaceTable, {"search"}) >>)
  ELSE Altered( AlterIf(t, drift, "comment", Safe)
             \o AlterIf(t, drift, "attribute", Unsafe)
             \o AlterIf(t, drift, "search", Unsafe) )

\* Mutant: as safe as the drop of a view.
DropTableSafely(t) == Reply("DROP", <<Statement("DROP", t, Safe, {})>>)
DropTable(t) == Reply("DROP", <<Statement("DROP", t, Unsafe, {})>>)

-----------------------------------------------------------------------------
\* PRIMARY KEY: a change of its columns is a drop followed by an add.
CreatePrimaryKey(k) == Reply("CREATE", <<Statement("CREATE", k, Safe, {})>>)

ComparePrimaryKey(k, drift) ==
  IF "body" \in drift
  THEN Reply("ALTER", << Statement("DROP", k, Safe, {}),
                         Statement("CREATE", k, Safe, {}) >>)
  ELSE Reply("NOCHANGE", <<>>)

DropPrimaryKey(k) == Reply("DROP", <<Statement("DROP", k, Safe, {})>>)

-----------------------------------------------------------------------------
\* FUNCTION.  Its comment carries a short hash of the statement that created
\* it, and the hash is all that compare_object looks at: until the COMMENT
\* statement has run, the body counts as different.
\* Mutant: no comment, so no hash.
CreateFunctionWithoutHash(f) == Reply("CREATE", <<Statement("REPLACE", f, Safe, {"body"})>>)
CreateFunction(f) ==
  Reply("CREATE", << Statement("REPLACE", f, Safe, {"body"}),
                     Statement("ALTER", f, Safe, {"body"}) >>)

CompareFunction(f, drift) ==
  IF "body" \in drift
  THEN Reply("REPLACE", CreateFunction(f).statements)
  ELSE Reply("NOCHANGE", <<>>)

DropFunction(f) == Reply("DROP", <<Statement("DROP", f, Safe, {})>>)

-----------------------------------------------------------------------------
\* VIEW.  The comment is applied separately; a view whose text is unchanged
\* but which cannot be described any more is replaced all the same.
CreateView(v) ==
  Reply("CREATE", << Statement("REPLACE", v, Safe, {"comment"}),
                     Statement("ALTER", v, Safe, {"comment"}) >>)

CompareView(v, drift, describable) ==
  IF "body" \in drift \/ ~describable
  THEN Reply("REPLACE", CreateView(v).statements)
  ELSE Altered(AlterIf(v, drift, "comment", Safe))

DropView(v) == Reply("DROP", <<Statement("DROP", v, Safe, {})>>)

=============================================================================
