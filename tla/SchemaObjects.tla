---------------------------- MODULE SchemaObjects ----------------------------
(***************************************************************************)
(* The DDL of the schema objects that Statements leaves out.  Aspects are  *)
(* again what compare_object tells apart; of the types whose comment holds *)
(* a hash of the statement that created them, compare_object looks at the  *)
(* "hash" only, and the COMMENT with the hash is a statement of its own.   *)
(* A statement UNSET brings another object out of line with its blueprint. *)
(***************************************************************************)
EXTENDS Statements, SequencesExt

ObjectAspects == Aspects \cup
  {"hash", "order", "stale", "state", "schedule", "action", "extra", "missing", "rules",
   "grants", "accounts", "type", "identity_on", "identity_off", "password", "parameters", "role"}

\* One ALTER for each aspect that has drifted, in this order.
AlterEach(o, drift, aspects, gate) ==
  LET due == SelectSeq(aspects, LAMBDA a : a \in drift)
  IN  [i \in DOMAIN due |-> Statement("ALTER", o, gate, {due[i]})]

\* A statement and the COMMENT that tells what it was.
Hashed(op, o, gate) ==
  << Statement(op, o, gate, {"hash"}), Statement("ALTER", o, gate, {"hash"}) >>

Dropped(o, gate) == Reply("DROP", << Statement("DROP", o, gate, {}) >>)
Created(o)       == Reply("CREATE", << Statement("CREATE", o, Safe, {}) >>)
Replaced(o, gate) == Reply("REPLACE", << Statement("REPLACE", o, gate, {}) >>)

\* compare_object of a type that is replaced when its hash differs.
ByHash(drift, statements) ==
  IF "hash" \in drift THEN Reply("REPLACE", statements) ELSE Reply("NOCHANGE", <<>>)

-----------------------------------------------------------------------------
\* SEQUENCE.  ORDER cannot be restored; the interval is altered before that
\* is noticed, and NOORDER is set without a result of its own.
CreateSequence(s) == Created(s)
CompareSequence(s, drift) ==
  IF "kind" \in drift
  THEN Reply("UNSUPPORTED", AlterEach(s, drift, <<"attribute">>, Safe))
  ELSE Reply(IF drift \cap {"attribute", "comment"} = {} THEN "NOCHANGE" ELSE "ALTER",
             AlterEach(s, drift, <<"attribute", "order", "comment">>, Safe))
DropSequence(s) == Dropped(s, Unsafe)

\* FILE FORMAT.  Only a change of its type replaces it.
\* Mutant: the new hash is not written.
CompareFileFormatOnce(f, drift) ==
  IF "hash" \notin drift THEN Reply("NOCHANGE", <<>>)
  ELSE Reply("ALTER", << Statement("ALTER", f, Safe, {"attribute"}) >>)
BuildFileFormat(op, f) == Hashed(op, f, Safe)
CreateFileFormat(f) == Reply("CREATE", BuildFileFormat("CREATE", f))
CompareFileFormat(f, drift) ==
  CASE "hash" \notin drift -> Reply("NOCHANGE", <<>>)
    [] "kind" \in drift    -> Reply("REPLACE", BuildFileFormat("REPLACE", f))
    [] OTHER -> Reply("ALTER", << Statement("ALTER", f, Safe, {"attribute"}),
                                  Statement("ALTER", f, Safe, {"hash"}) >>)
DropFileFormat(f) == Dropped(f, Safe)

\* STAGE.  Changes between internal and external, and of the encryption,
\* replace it; nothing else does.
BuildStage(op, s, gate) == Reply(op, << Statement(op, s, gate, {}) >>)
CreateStage(s)         == BuildStage("CREATE", s, Safe)
IsReplaceRequired(drift) == "kind" \in drift
AlterStageLocation(s, drift) == AlterEach(s, drift, <<"attribute">>, Safe)
AlterStageOptions(s, drift)  == AlterEach(s, drift, <<"columns", "body", "comment">>, Safe)
RefreshStage(s) == << Statement("ALTER", s, Safe, {}) >>
CompareStage(s, drift, refresh) ==
  IF IsReplaceRequired(drift) THEN BuildStage("REPLACE", s, Unsafe)
  ELSE Altered(AlterStageLocation(s, drift) \o AlterStageOptions(s, drift)
               \o (IF refresh THEN RefreshStage(s) ELSE <<>>))
DropStage(s) == Dropped(s, Unsafe)

\* SECRET.  What cannot be compared is replaced on demand.
BuildSecret(op, s) == Reply(op, << Statement(op, s, Safe, {}) >>)
CreateSecret(s) == BuildSecret("CREATE", s)
CompareSecret(s, drift, refresh) ==
  IF drift # {} \/ refresh THEN BuildSecret("REPLACE", s) ELSE Reply("NOCHANGE", <<>>)
DropSecret(s) == Dropped(s, Safe)

\* NETWORK RULE.  A rule in use can be neither replaced nor dropped: network
\* policies lose it, and integrations all of theirs.
BuildNetworkRule(op, r, gate) == << Statement(op, r, gate, {}) >>
CreateNetworkRule(r) == Reply("CREATE", BuildNetworkRule("CREATE", r, Safe))
DropNetworkRuleRefs(holders) ==
  LET each == SetToSeq(holders)
  IN  [i \in DOMAIN each |-> Statement("UNSET", each[i], Unsafe, {"rules"})]
CompareNetworkRule(r, drift, holders) ==
  IF "kind" \in drift
  THEN Reply("REPLACE", DropNetworkRuleRefs(holders) \o BuildNetworkRule("REPLACE", r, Unsafe))
  ELSE Altered(AlterEach(r, drift, <<"attribute", "comment">>, Safe))
\* Mutant: the rule is dropped where it is.
DropNetworkRuleInUse(r, holders) == Dropped(r, Unsafe)
DropNetworkRule(r, holders) ==
  Reply("DROP", DropNetworkRuleRefs(holders) \o << Statement("DROP", r, Unsafe, {}) >>)

-----------------------------------------------------------------------------
\* PROCEDURE and EXTERNAL FUNCTION.
BuildProcedure(p) == Hashed("REPLACE", p, Safe)
CreateProcedure(p) == Reply("CREATE", BuildProcedure(p))
CompareProcedure(p, drift) == ByHash(drift, BuildProcedure(p))
DropProcedure(p) == Dropped(p, Safe)

BuildExternalFunction(f) == Hashed("REPLACE", f, Safe)
CreateExternalFunction(f) == Reply("CREATE", BuildExternalFunction(f))
CompareExternalFunction(f, drift) == ByHash(drift, BuildExternalFunction(f))
DropExternalFunction(f) == Dropped(f, Safe)

\* EVENT TABLE, HYBRID TABLE, ICEBERG TABLE.
BuildEventTable(t) == << Statement("CREATE", t, Safe, {}) >>
CreateEventTable(t) == Reply("CREATE", BuildEventTable(t))
CompareEventTable(t, drift) ==
  Altered(AlterIf(t, drift, "comment", Safe) \o AlterIf(t, drift, "attribute", Unsafe))
DropEventTable(t) == Dropped(t, Unsafe)

BuildHybridTable(op, t, gate) == Hashed(op, t, gate)
CreateHybridTable(t) == Reply("CREATE", BuildHybridTable("CREATE", t, Safe))
CompareHybridTable(t, drift) == ByHash(drift, BuildHybridTable("REPLACE", t, ReplaceTable))
DropHybridTable(t) == Dropped(t, Unsafe)

BuildIcebergTable(op, t) == Hashed(op, t, Safe)
CreateIcebergTable(t) == Reply("CREATE", BuildIcebergTable("CREATE", t))
CompareIcebergTable(t, drift) == ByHash(drift, BuildIcebergTable("REPLACE", t))
DropIcebergTable(t) == Dropped(t, Unsafe)

\* DYNAMIC TABLE.
BuildDynamicTable(t, gate) == << Statement("REPLACE", t, gate, {}) >>
CreateDynamicTable(t) == Reply("CREATE", BuildDynamicTable(t, Safe))
\* "state" is its scheduler, which is turned on with the target lag and off without
\* any, "schedule" that lag, "attribute" its warehouse, "columns" clustering and
\* retention.
AlterDynamicTable(t, drift) ==
  (IF "state" \in drift THEN << Statement("ALTER", t, Safe, {"state", "schedule"}) >>
                        ELSE AlterIf(t, drift, "schedule", Safe))
    \o AlterIf(t, drift, "attribute", Safe)
    \o AlterIf(t, drift, "columns", Unsafe)
    \o AlterIf(t, drift, "comment", Safe)
CompareDynamicTable(t, drift) ==
  IF drift \cap {"kind", "body"} # {} THEN Reply("REPLACE", BuildDynamicTable(t, Unsafe))
                                      ELSE Altered(AlterDynamicTable(t, drift))
DropDynamicTable(t) == Dropped(t, Unsafe)

\* EXTERNAL TABLE.
BuildExternalTable(t) == Hashed("REPLACE", t, Safe)
CreateExternalTable(t) == Reply("CREATE", BuildExternalTable(t))
CompareExternalTable(t, drift) ==
  IF drift \cap {"hash", "stale"} # {} THEN Reply("REPLACE", BuildExternalTable(t))
                                       ELSE Reply("NOCHANGE", <<>>)
DropExternalTable(t) == Dropped(t, Unsafe)

-----------------------------------------------------------------------------
\* UNIQUE KEY, whose name are its columns; FOREIGN KEY; CHECK CONSTRAINT.
CreateUniqueKey(k) == Created(k)
CompareUniqueKey(k, drift) == Reply("NOCHANGE", <<>>)
DropUniqueKey(k) == Dropped(k, Safe)

CreateForeignKey(k) == Created(k)
CompareForeignKey(k, drift) ==
  IF "body" \in drift
  THEN Reply("ALTER", << Statement("DROP", k, Safe, {}), Statement("CREATE", k, Safe, {}) >>)
  ELSE Reply("NOCHANGE", <<>>)
DropForeignKey(k) == Dropped(k, Safe)

CreateCheckConstraint(c) == Created(c)
CompareCheckConstraint(c, drift) ==
  IF "body" \in drift
  THEN Reply("ALTER", << Statement("DROP", c, Safe, {}), Statement("CREATE", c, Safe, {}) >>)
  ELSE Reply("NOCHANGE", <<>>)
DropCheckConstraint(c) == Dropped(c, Safe)

-----------------------------------------------------------------------------
\* MATERIALIZED VIEW, SEMANTIC VIEW, CORTEX SEARCH SERVICE.  The hash of a
\* semantic view is part of the statement that creates it.
BuildMaterializedView(v, gate) == << Statement("REPLACE", v, gate, {}) >>
CreateMaterializedView(v) == Reply("CREATE", BuildMaterializedView(v, Safe))
CompareMaterializedView(v, drift) ==
  IF drift \cap {"body", "stale"} # {} THEN Reply("REPLACE", BuildMaterializedView(v, Unsafe))
                                       ELSE Reply("NOCHANGE", <<>>)
DropMaterializedView(v) == Dropped(v, Unsafe)

BuildSemanticView(v) == << Statement("REPLACE", v, Safe, {}) >>
CreateSemanticView(v) == Reply("CREATE", BuildSemanticView(v))
CompareSemanticView(v, drift) == ByHash(drift, BuildSemanticView(v))
DropSemanticView(v) == Dropped(v, Safe)

BuildCortexSearchService(c, gate) == << Statement("REPLACE", c, gate, {}) >>
CreateCortexSearchService(c) == Reply("CREATE", BuildCortexSearchService(c, Safe))
CompareCortexSearchService(c, drift) ==
  IF "body" \in drift THEN Reply("REPLACE", BuildCortexSearchService(c, Unsafe))
                      ELSE Altered(AlterIf(c, drift, "comment", Safe))
DropCortexSearchService(c) == Dropped(c, Safe)

\* PIPE and STREAM.
BuildPipe(op, p, gate) == Hashed(op, p, gate)
CreatePipe(p) == Reply("CREATE", BuildPipe("CREATE", p, Safe))
ComparePipe(p, drift) == ByHash(drift, BuildPipe("REPLACE", p, Unsafe))
DropPipe(p) == Dropped(p, Unsafe)

BuildStream(op, s, gate) == Reply(op, << Statement(op, s, gate, {}) >>)
CreateStream(s) == BuildStream("CREATE", s, Safe)
CompareStream(s, drift) ==
  IF drift \cap {"stale", "body"} # {} THEN BuildStream("REPLACE", s, Unsafe)
                                       ELSE Altered(AlterIf(s, drift, "comment", Safe))
DropStream(s) == Dropped(s, Unsafe)

-----------------------------------------------------------------------------
\* TASK.  Predecessors that drifted are removed first and added then, except
\* those of a task that is declared without any (after).
BuildTask(t) == Hashed("REPLACE", t, Safe)
CreateTask(t) == Reply("CREATE", BuildTask(t))
\* Mutant: predecessors are not looked at.
CompareTaskByHash(t, drift, after) == ByHash(drift, Hashed("REPLACE", t, Safe))
CompareTask(t, drift, after) ==
  CASE "hash" \in drift -> Reply("REPLACE", BuildTask(t))
    [] "hash" \notin drift /\ after  -> Altered(AlterEach(t, drift, <<"extra", "missing">>, Safe))
    [] "hash" \notin drift /\ ~after -> Reply("NOCHANGE", <<>>)
DropTask(t) == Dropped(t, Safe)

\* ALERT.  "state" is out of line when an enabled alert is suspended or a
\* disabled one runs.  A running alert is suspended before it is altered, and
\* resumed after that if it is enabled.
CreateAlert(a, enabled) ==
  Reply("CREATE", IF enabled
                  THEN << Statement("CREATE", a, Safe, {"state"}), Statement("ALTER", a, Safe, {"state"}) >>
                  ELSE << Statement("CREATE", a, Safe, {}) >>)
CompareAlert(a, drift, enabled) ==
  LET started    == enabled # ("state" \in drift)
      definition == AlterEach(a, drift, <<"attribute", "schedule", "body", "action">>, Safe)
      suspend    == Statement(IF enabled THEN "UNSET" ELSE "ALTER", a, Safe, {"state"})
      restore    == Statement("ALTER", a, Safe, {"state"})
  IN  Altered((IF definition # <<>> /\ started THEN << suspend >> ELSE <<>>)
              \o definition
              \o (IF (enabled /\ (~started \/ definition # <<>>))
                       \/ (~enabled /\ started /\ definition = <<>>)
                  THEN << restore >> ELSE <<>>))
DropAlert(a) == Dropped(a, Safe)

-----------------------------------------------------------------------------
\* BACKUP POLICY and BACKUP SET: everything is unsafe.
CreateBackupPolicy(b) == Reply("CREATE", << Statement("CREATE", b, Unsafe, {}) >>)
CompareBackupPolicy(b, drift) == Altered(AlterEach(b, drift, <<"schedule", "attribute", "comment">>, Unsafe))
DropBackupPolicy(b) == Dropped(b, Unsafe)

CreateBackupSet(b) == Reply("CREATE", << Statement("CREATE", b, Unsafe, {}) >>)
CompareBackupSet(b, drift) ==
  IF "body" \in drift THEN Replaced(b, Unsafe)
                      ELSE Altered(AlterEach(b, drift, <<"attribute", "comment">>, Unsafe))
DropBackupSet(b) == Dropped(b, Unsafe)

=============================================================================
