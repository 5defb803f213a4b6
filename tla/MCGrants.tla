------------------------------ MODULE MCGrants ------------------------------
(***************************************************************************)
(* Instances of Grants: a schema with a stage s and functions f and g; the *)
(* roles that read (R) and own (O) it, the one that owns its database (B), *)
(* a technical role T, and a role Z of somebody else.                      *)
(***************************************************************************)
EXTENDS Grants

MCRoles == {"R", "O", "B", "T", "Z"}
MCObjects == {"s", "f", "g"}
MCPrivileges == {"OWNERSHIP", "READ", "WRITE", "USAGE"}
MCRoleResolver ==
  [r \in MCRoles |-> CASE r = "R" -> "SCHEMA_READ_ROLE"
                       [] r = "B" -> "DATABASE_OWNER_ROLE"
                       [] r = "O" -> "SCHEMA_OWNER_ROLE"
                       [] r = "T" -> "TECHNICAL_ROLE"
                       [] r = "Z" -> "none"]
MCTypeOf == [o \in MCObjects |-> IF o = "s" THEN "STAGE" ELSE "FUNCTION"]

Reads == {Grant("R", "READ", "STAGE"), Grant("R", "USAGE", "FUNCTION")}
Owns(r) == {Grant(r, "OWNERSHIP", type) : type \in {"STAGE", "FUNCTION"}}
Entry(p, roles) == [privilege |-> p, roles |-> roles]
Unnamed == [o \in MCObjects |-> <<>>]

Config(roles, grants, futures, objects, named) ==
  [roles |-> roles, grants |-> grants, futures |-> futures, objects |-> objects,
   named |-> named]

\* The default permission model; a technical role writes to the stage, and
\* the grants of f are also named by f, for a role of somebody else as well.
SchemaOwned ==
  Config({"R", "O", "T"},
         {Grant("T", "READ", "s"), Grant("T", "WRITE", "s"), Grant("T", "USAGE", "f"),
          Grant("T", "USAGE", "acc")},
         Reads \cup Owns("O"), {"s", "f", "g"},
         [Unnamed EXCEPT !["f"] = <<Entry("USAGE", {"R", "T", "Z"})>>])

\* The database owner ruleset; nothing for the technical role but f.
DatabaseOwned ==
  Config({"B", "T"}, {Grant("T", "USAGE", "f")}, Owns("B"), {"s", "f", "g"},
         [Unnamed EXCEPT !["s"] = <<Entry("READ", {"Z"}), Entry("WRITE", {"Z"})>>,
                         !["f"] = <<Entry("USAGE", {"T"})>>])

\* No technical role; Z loses what it holds.
Plain ==
  Config({"R", "O"}, {}, Reads \cup Owns("O"), {"s", "f"},
         [Unnamed EXCEPT !["s"] = <<Entry("WRITE", {}), Entry("READ", {"R"})>>])

\* The account as the configuration has it, in which Z holds something too.
AccountOf(c, others, stale) ==
  LET held == c.grants \cup others
                \cup {Grant(f.role, f.privilege, o) :
                        f \in {x \in c.futures : x.on = "STAGE"}, o \in c.objects \cap {"s"}}
                \cup {Grant(f.role, f.privilege, o) :
                        f \in {x \in c.futures : x.on = "FUNCTION"},
                        o \in c.objects \cap {"f", "g"}}
  IN  [roles |-> c.roles \cup {"T", "Z"}, ours |-> c.roles \cup {"T"}, held |-> held,
       futures |-> c.futures, objects |-> c.objects, stale |-> stale]

Empty == [roles |-> {"Z"}, ours |-> {}, held |-> {}, futures |-> {}, objects |-> {},
          stale |-> {}]

\* What Z, or the technical role, may hold besides.
OfZ == {Grant("Z", "READ", "s"), Grant("Z", "WRITE", "s"), Grant("Z", "USAGE", "f")}
OfT == {Grant("T", "READ", "s"), Grant("T", "WRITE", "s"), Grant("T", "USAGE", "f"),
        Grant("T", "USAGE", "acc")}

MCConfigs  == {SchemaOwned, DatabaseOwned, Plain}
MCAccounts == {Empty} \cup {AccountOf(c, z, d) : c \in MCConfigs, z \in {{}, OfZ, OfT, OfZ \cup OfT},
                                                 d \in {{}, {"f"}}}

Full      == [action |-> "apply", options |-> {"apply_unsafe"}]
Refreshed == [action |-> "apply", options |-> {"apply_unsafe", "refresh_future_grants"}]
Safe      == [action |-> "apply", options |-> {}]
Plan      == [action |-> "plan", options |-> {}]

Scenes(configs, accounts, commandLines, failures) ==
  {[config |-> c, account |-> a, commands |-> l, maxFaults |-> failures] :
     c \in configs, a \in accounts, l \in commandLines}

\* From any account two applies and a plan, or a plan and a safe apply before;
\* and two failures anywhere before an apply that refreshes.
MCScenarios == Scenes(MCConfigs, MCAccounts, {<<Full, Full, Plan>>, <<Plan, Safe, Full>>}, 0)
     \cup Scenes({SchemaOwned, DatabaseOwned}, MCAccounts, {<<Full, Safe, Refreshed>>}, 2)

=============================================================================
