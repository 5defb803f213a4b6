----------------------------- MODULE MCCatalogue ----------------------------
(***************************************************************************)
(* Instances of Catalogue: an object of each type, two where they interact *)
(* with one another.                                                       *)
(***************************************************************************)
EXTENDS Catalogue

MCTypeOf ==
  [ap |-> "ACCOUNT_PARAMETER", monitor |-> "RESOURCE_MONITOR", wh |-> "WAREHOUSE",
   secret |-> "SECRET", rule |-> "NETWORK_RULE", rule2 |-> "NETWORK_RULE",
   eai |-> "EXTERNAL_ACCESS_INTEGRATION", eai2 |-> "EXTERNAL_ACCESS_INTEGRATION",
   format |-> "FILE_FORMAT", stage |-> "STAGE", seq |-> "SEQUENCE",
   extfn |-> "EXTERNAL_FUNCTION", proc |-> "PROCEDURE", tbl |-> "TABLE", ref |-> "TABLE",
   events |-> "EVENT_TABLE", hybrid |-> "HYBRID_TABLE", iceberg |-> "ICEBERG_TABLE",
   fn |-> "FUNCTION", fnview |-> "FUNCTION", dynamic |-> "DYNAMIC_TABLE",
   exttbl |-> "EXTERNAL_TABLE", pk |-> "PRIMARY_KEY", uk |-> "UNIQUE_KEY",
   fk |-> "FOREIGN_KEY", ck |-> "CHECK_CONSTRAINT", matview |-> "MATERIALIZED_VIEW",
   view |-> "VIEW", oldview |-> "VIEW", semantic |-> "SEMANTIC_VIEW",
   search |-> "CORTEX_SEARCH_SERVICE", pipe |-> "PIPE", stream |-> "STREAM",
   root |-> "TASK", child |-> "TASK", alert |-> "ALERT", mute |-> "ALERT",
   share |-> "OUTBOUND_SHARE", user |-> "USER", policy |-> "NETWORK_POLICY",
   policy2 |-> "NETWORK_POLICY", backup |-> "BACKUP_POLICY", backups |-> "BACKUP_SET",
   delayed |-> "DATABASE_DELAYED"]

MCObjects == DOMAIN MCTypeOf

Relation(pairs) == [o \in MCObjects |-> UNION {p[2] : p \in {q \in pairs : q[1] = o}}]

MCWithin == Relation({ <<"pk", {"tbl"}>>, <<"uk", {"ref"}>>, <<"fk", {"tbl", "ref"}>>,
                       <<"ck", {"tbl"}>> })
MCUses ==
  Relation({ <<"wh", {"monitor"}>>, <<"eai", {"rule", "secret"}>>, <<"eai2", {"rule2"}>>,
             <<"proc", {"eai"}>>, <<"tbl", {"seq"}>>, <<"fn", {"tbl"}>>, <<"fnview", {"view"}>>,
             <<"dynamic", {"tbl", "wh"}>>, <<"exttbl", {"stage", "format"}>>, <<"fk", {"uk"}>>,
             <<"matview", {"tbl"}>>, <<"view", {"tbl", "fn", "dynamic"}>>,
             <<"semantic", {"view"}>>, <<"search", {"view", "wh"}>>,
             <<"pipe", {"stage", "format", "tbl"}>>, <<"stream", {"tbl"}>>, <<"root", {"wh"}>>,
             <<"child", {"root"}>>, <<"alert", {"wh"}>>, <<"share", {"view", "fn"}>>,
             <<"policy", {"rule"}>>, <<"policy2", {"rule2"}>>, <<"backups", {"backup", "tbl"}>>,
             <<"delayed", {"events"}>> })
MCDependsOn == Relation({ <<"fnview", {"view"}>>, <<"child", {"root"}>> })
MCSameName == Relation({ <<"tbl", {"oldview"}>>, <<"oldview", {"tbl"}>> })
MCFlagged == {"wh", "alert"}

\* The aspects an object of a type can differ in.
DriftOf(o) ==
  LET type == MCTypeOf[o]
  IN CASE type \in {"EXTERNAL_ACCESS_INTEGRATION", "EXTERNAL_FUNCTION", "PROCEDURE", "PIPE",
                    "HYBRID_TABLE", "ICEBERG_TABLE", "SEMANTIC_VIEW"} -> {"hash"}
       [] type = "ACCOUNT_PARAMETER" -> {"attribute"}
       [] type = "RESOURCE_MONITOR"  -> {"attribute", "schedule", "action"}
       [] type = "WAREHOUSE"         -> {"attribute", "rules", "parameters"}
       [] type = "SECRET"            -> {"attribute"}
       [] type = "NETWORK_RULE"      -> {"kind", "attribute", "comment"}
       [] type = "FILE_FORMAT"       -> {"hash", "kind"}
       [] type = "STAGE"             -> {"kind", "attribute", "columns", "body", "comment"}
       [] type = "SEQUENCE"          -> {"kind", "attribute", "order", "comment"}
       [] type = "TABLE"             -> {"attribute", "columns", "search", "comment"}
       [] type = "EVENT_TABLE"       -> {"attribute", "comment"}
       [] type = "DYNAMIC_TABLE"     -> {"body", "state", "schedule", "attribute", "columns", "comment"}
       [] type = "EXTERNAL_TABLE"    -> {"hash", "stale"}
       [] type \in {"PRIMARY_KEY", "FOREIGN_KEY", "CHECK_CONSTRAINT", "FUNCTION"} -> {"body"}
       [] type = "UNIQUE_KEY"        -> {}
       [] type = "MATERIALIZED_VIEW" -> {"body", "stale"}
       [] type \in {"VIEW", "CORTEX_SEARCH_SERVICE"} -> {"body", "comment"}
       [] type = "STREAM"            -> {"stale", "body", "comment"}
       [] type = "TASK"              -> {"hash", "extra", "missing"}
       [] type = "ALERT"             -> {"attribute", "body", "state"}
       [] type = "OUTBOUND_SHARE"    -> {"grants", "accounts", "comment"}
       [] type = "USER"              -> {"attribute", "password", "action", "type", "parameters", "role"}
       [] type = "NETWORK_POLICY"    -> {"rules", "attribute"}
       [] type = "BACKUP_POLICY"     -> {"schedule", "attribute", "comment"}
       [] type = "BACKUP_SET"        -> {"body", "attribute", "comment"}
       [] type = "DATABASE_DELAYED"  -> {"attribute"}

Undrifted == [o \in MCObjects |-> {}]

\* One aspect, two, or all; the predecessors of a task differ only when they
\* are looked at or its hash differs too; as does that of another format.
Drifts(o) ==
  {d \in SUBSET DriftOf(o) : /\ Cardinality(d) \in {1, 2, Cardinality(DriftOf(o))}
                             /\ o = "root" => d \in {{"hash"}, {"hash", "extra"}}
                             /\ o = "format" => "hash" \in d}
    \cup (IF o = "user" THEN {{"type", "identity_on"}, {"type", "identity_off"}, {"identity_on"}}
                        ELSE {})

\* What an object needs, transitively, and what is to it in such a relation.
NeedsOf(o) == MCWithin[o] \cup MCUses[o] \cup MCDependsOn[o]
NeedsClosure(set) ==
  LET step(s) == s \cup UNION {NeedsOf(o) : o \in s} IN step(step(step(step(set))))
NeededBy(o) == {b \in MCObjects : o \in NeedsClosure({b})}
Directly(o) == {b \in MCObjects : o \in NeedsOf(b)}
Around(o) == NeedsClosure({o} \cup Directly(o))

World == MCObjects \ {"oldview"}
Full == ObjectSwitches

Scene(names, rows, d, commandLines, failures) ==
  [declared |-> names, live |-> rows \cup Permanent, drift |-> d, priorUse |-> {},
   commands |-> commandLines, maxFaults |-> failures]

Drifted(o, d) == [Undrifted EXCEPT ![o] = d]

\* An object differs, or is missing with all that needs it.
DifferScenarios(commandLines, failures) ==
  UNION {{Scene(Around(o), Around(o), Drifted(o, d), commandLines, failures) : d \in Drifts(o)}
         : o \in World}
MissingScenarios(commandLines, failures) ==
  {Scene(Around(o), Around(o) \ NeededBy(o), Undrifted, commandLines, failures) : o \in World}

\* A user which differs or is missing; and which has had its password before.
UserScenarios(commandLines, failures) ==
  {Scene({"user"}, {"user"}, Drifted("user", d), commandLines, failures) : d \in Drifts("user")}
    \cup {Scene({"user"}, {}, Undrifted, commandLines, failures)}
PriorUse(scenes) == {[s EXCEPT !.priorUse = {"user"}] : s \in scenes}

\* Something is declared no more, with all that needs it.
LeftoverScenarios(commandLines, failures) ==
  {Scene(World \ NeededBy(o), (World \ NeededBy(o)) \cup Around(o), Undrifted, commandLines, failures)
     : o \in World}

\* Everything is new; everything is there; predecessors swapped; a table
\* takes the name of a view and the other way round.
Special(commandLines, failures) ==
  { Scene(World, {}, Undrifted, commandLines, failures),
    Scene({"ref"}, World, Undrifted, commandLines, failures),
    Scene({"wh", "monitor", "root", "child"}, {"wh", "monitor", "root", "child"},
          [Undrifted EXCEPT !["root"] = {"hash", "extra"}, !["child"] = {"hash", "missing"}],
          commandLines, failures),
    Scene(NeedsClosure({"rule2", "eai", "policy"}), NeedsClosure({"rule2", "eai", "policy"}),
          [Undrifted EXCEPT !["rule"] = {"kind"}, !["eai"] = {"hash"}], commandLines, failures),
    Scene(NeedsClosure({"tbl", "pk"}), {"oldview", "seq"}, Undrifted, commandLines, failures),
    Scene({"oldview", "ref"}, NeedsClosure({"pk", "fk", "ref"}), Undrifted, commandLines, failures) }

MCScenarios ==
  DifferScenarios(<< Full, {} >>, 0)
    \cup DifferScenarios(<< Full, Full >>, 1)
    \cup MissingScenarios(<< Full, Full, {} >>, 1)
    \cup LeftoverScenarios(<< Full, Full, {} >>, 1)
    \cup Special(<< Full, Full, {} >>, 1)
    \cup UNION {DifferScenarios(<< Full \ {switch}, Full >>, 0) : switch \in Full}
    \cup DifferScenarios(<< Full \cup Refreshes, {} >>, 0)
    \cup PriorUse(UserScenarios(<< Full, Full, {} >>, 1)
                    \cup UserScenarios(<< Full \cup Refreshes, {} >>, 0))
RuleScenarios == { Scene(Around("rule"), Around("rule"), Drifted("rule", {"kind"}), << Full, {} >>, 0) }
=============================================================================
