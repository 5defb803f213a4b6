----------------------------- MODULE MCResolver -----------------------------
(***************************************************************************)
(* Instances of Resolver: a database D with schemas S and PUBLIC (P), a    *)
(* tables T with key K and U in S, views V over T and U and W over V, a    *)
(* function F over T and a function G over V; and a database E with schema *)
(* X and table Y, which most configurations do not declare.                *)
(***************************************************************************)
EXTENDS Resolver

InS  == {"T", "U", "K", "V", "W", "F", "G"}
MCObjects == {"D", "P", "S", "E", "Q", "X", "Y"} \cup InS

MCTypeOf ==
  [o \in MCObjects |->
     CASE o \in {"D", "E"}           -> "DATABASE"
       [] o \in {"P", "S", "Q", "X"} -> "SCHEMA"
       [] o \in {"T", "U", "Y"}      -> "TABLE"
       [] o = "K"                    -> "PRIMARY_KEY"
       [] o \in {"V", "W"}           -> "VIEW"
       [] o \in {"F", "G"}           -> "FUNCTION"]

MCWithin ==
  [o \in MCObjects |->
     CASE o \in {"D", "E"} -> {}
       [] o \in {"P", "S"} -> {"D"}
       [] o \in {"Q", "X"} -> {"E"}
       [] o = "Y"          -> {"E", "X"}
       [] o = "K"          -> {"D", "S", "T"}
       [] OTHER            -> {"D", "S"}]

MCUses ==
  [o \in MCObjects |-> CASE o = "V" -> {"T", "U"}
                         [] o = "F" -> {"T"}
                         [] o \in {"W", "G"} -> {"V"}
                         [] OTHER -> {}]
MCDependsOn == [o \in MCObjects |-> IF o \in {"W", "G"} THEN {"V"} ELSE {}]
MCPublicOf == [d \in {"D", "E"} |-> IF d = "D" THEN "P" ELSE "Q"]

Config(names, sandboxes, foreign) ==
  [declared |-> names, sandbox |-> sandboxes, unmanaged |-> foreign]

\* Every object's drift is empty, or one object differs in one aspect.
Undrifted == [o \in MCObjects |-> {}]
Drifts(o) == CASE MCTypeOf[o] \in {"DATABASE", "SCHEMA"} -> {"kind", "attribute", "comment"}
               [] MCTypeOf[o] = "TABLE" -> {"attribute", "columns", "search"}
               [] MCTypeOf[o] = "VIEW" -> {"body", "comment"}
               [] OTHER -> {"body"}
OneDrift(objects) ==
  {Undrifted} \cup {[Undrifted EXCEPT ![o] = {a}] : o \in objects, a \in Aspects}
DriftsOf(objects) ==
  {d \in OneDrift(objects) : \A o \in objects : d[o] \subseteq Drifts(o)}

Populated(objects) ==
  {[live |-> l, drift |-> d] : l \in {objects}, d \in DriftsOf(objects)}
Closed(objects) == {l \in SUBSET objects : \A o \in l : MCWithin[o] \subseteq l}

\* Plan, then apply, then plan again: declared tables, keys, views and
\* functions against accounts which hold some of them.
ChainConfigs == { Config({"D", "S"} \cup InS, {}, {}),
                  Config({"D", "S", "T", "U", "V", "W"}, {}, {}),
                  Config({"D", "S", "P"}, {}, {}) }
ChainAccounts ==
  UNION {Populated(l) : l \in { {}, {"D", "P"}, {"D", "S", "T", "K"},
                                {"D", "S", "T", "U", "K", "V", "F", "E", "X", "Y"},
                                {"D", "S", "V", "W", "G"} }}

\* Undeclared databases, schemas and tables, sandboxes, unmanaged schemas.
KeepConfigs == { Config({"D", "S", "T"}, {}, {}),
                 Config({"D", "S", "T"}, {"S"}, {}),
                 Config({"D", "S"}, {"D"}, {"S"}),
                 Config({"D", "S", "K", "T"}, {"D", "S"}, {}),
                 Config({"E"}, {}, {}),
                 Config({"E", "X"}, {"E"}, {"X"}) }
KeepAccounts ==
  {[live |-> l, drift |-> Undrifted] :
     l \in Closed({"D", "P", "S", "T", "K", "V", "E", "X", "Y"})}

\* A failure or a crash at any step of the first apply.
RetryConfigs == { Config({"D", "S"} \cup InS, {}, {}), Config({"D", "S", "T"}, {"D"}, {}) }
RetryAccounts ==
  {[live |-> l, drift |-> Undrifted] :
     l \in { {}, {"D", "S", "T", "K", "V", "E", "X", "Y"} }}
  \cup {[live |-> {"D", "S", "T", "K", "W"},
         drift |-> [Undrifted EXCEPT !["T"] = {"columns"}, !["K"] = {"body"}]]}

Run(action, options) ==
  [action |-> action, options |-> options, exclude |-> {}, include |-> {}]
Full == {"apply_unsafe", "apply_replace_table"}

PlanApplyPlan  == << Run("plan", {}), Run("apply", Full), Run("plan", {}) >>
SafeThenPart   == << Run("plan", {}), Run("apply", {}),
                     [Run("apply", Full) EXCEPT !.exclude = {"DATABASE"}],
                     [Run("apply", Full) EXCEPT !.include = {"TABLE", "VIEW"}] >>
ApplyTwice     == << Run("apply", Full), Run("apply", Full) >>
ApplyDestroy   == << Run("apply", Full), Run("destroy", {}) >>

Scenes(configs, accounts, commandLines, failures, disturbances) ==
  {[config |-> c, live |-> a.live, drift |-> a.drift, commands |-> commandLines,
    maxFaults |-> failures, maxOutside |-> disturbances] : c \in configs, a \in accounts}

ChainScenarios == Scenes(ChainConfigs, ChainAccounts, PlanApplyPlan, 0, 0)
KeepScenarios  == Scenes(KeepConfigs, KeepAccounts, SafeThenPart, 0, 0)

\* Chains without a failure; one failure or crash before a destroy; failures
\* and crashes anywhere in two applies; other people's DDL in one of them.
MCScenarios == ChainScenarios \cup KeepScenarios
                 \cup Scenes(RetryConfigs, RetryAccounts, ApplyDestroy, 1, 0)
                 \cup Scenes(RetryConfigs, RetryAccounts, ApplyTwice, 2, 0)
                 \cup Scenes(RetryConfigs, RetryAccounts, ApplyTwice, 0, 1)
=============================================================================
