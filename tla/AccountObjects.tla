---------------------------- MODULE AccountObjects ---------------------------
(***************************************************************************)
(* The DDL of the objects of the account itself.  Some of it has a switch  *)
(* of its own besides --apply-unsafe.                                      *)
(***************************************************************************)
EXTENDS SchemaObjects

ObjectSwitches == Switches \cup
  {"execute_account_params", "execute_resource_monitor", "execute_outbound_share",
   "execute_network_policy", "is_account_admin"}

\* Options that write again what cannot be compared.
Refreshes == {"refresh_secrets", "refresh_stage", "refresh_users"}

\* ACCOUNT PARAMETER.  All of them exist; what is dropped is a value.
CompareAccountParam(a, drift) ==
  Altered(AlterIf(a, drift, "attribute", Unsafe \cup {"execute_account_params"}))
DropAccountParam(a, drift) == CompareAccountParam(a, drift)

\* RESOURCE MONITOR.
Monitored(gate) == gate \cup {"execute_resource_monitor"}
CreateResourceMonitor(r) == Reply("CREATE", << Statement("CREATE", r, Monitored(Unsafe), {}) >>)
CompareResourceMonitor(r, drift) ==
  Altered(AlterEach(r, drift, <<"attribute", "schedule", "action">>, Monitored(Unsafe)))
DropResourceMonitor(r) == Dropped(r, Monitored(Unsafe))

\* WAREHOUSE.  Its resource monitor, "rules", is a statement of its own.
CreateWarehouse(w, monitored) ==
  Reply("CREATE",
        << Statement("CREATE", w, Safe, IF monitored THEN {"rules"} ELSE {}) >>
          \o (IF monitored THEN << Statement("ALTER", w, Monitored(Safe), {"rules"}) >> ELSE <<>>))
AlterWarehouseProperties(w, drift) == AlterIf(w, drift, "attribute", Safe)
AlterWarehouseParameters(w, drift) == AlterIf(w, drift, "parameters", Safe)
CompareResourceMonitorOf(w, drift) == AlterIf(w, drift, "rules", Monitored(Safe))
CompareWarehouse(w, drift) ==
  Altered(AlterWarehouseProperties(w, drift) \o CompareResourceMonitorOf(w, drift)
          \o AlterWarehouseParameters(w, drift))
DropWarehouse(w) == Dropped(w, Unsafe)

\* EXTERNAL ACCESS INTEGRATION.  It is altered by being replaced.  The hash
\* is all that is compared: rules it has lost are not missed.
BuildIntegration(op, e) == Hashed(op, e, Safe)
CreateIntegration(e) == Reply("CREATE", BuildIntegration("CREATE", e))
CompareIntegration(e, drift) ==
  IF "hash" \in drift THEN Reply("ALTER", BuildIntegration("REPLACE", e))
                      ELSE Reply("NOCHANGE", <<>>)
DropIntegration(e) == Dropped(e, Unsafe)

\* OUTBOUND SHARE.  Grants, then accounts, then the comment by safe DDL.
Shared(gate) == gate \cup {"execute_outbound_share"}
AlterShareAccounts(s, drift) == AlterIf(s, drift, "accounts", Shared(Unsafe))
AlterShareGrants(s, drift)   == AlterIf(s, drift, "grants", Shared(Unsafe))
CreateShare(s) ==
  Reply("CREATE", << Statement("CREATE", s, Shared(Unsafe), {"grants", "accounts"}),
                     Statement("ALTER", s, Shared(Unsafe), {"grants"}),
                     Statement("ALTER", s, Shared(Unsafe), {"accounts"}) >>)
CompareShare(s, drift) ==
  Altered(AlterShareGrants(s, drift) \o AlterShareAccounts(s, drift)
          \o AlterIf(s, drift, "comment", Shared(Safe)))
DropShare(s) == Dropped(s, Shared(Unsafe))

\* USER.  Only a user of type SERVICE can have a workload identity: it is
\* unset before the type changes and set after that.
CreateUser(u) == Reply("CREATE", << Statement("CREATE", u, Safe, {"role"}),
                                    Statement("ALTER", u, Safe, {"role"}) >>)
AlterUserProperties(u, drift) == AlterIf(u, drift, "attribute", Safe)
\* The password, then the public keys.  (Of a refusal of the former see PassOver.)
AlterUserSecrets(u, drift, refresh) ==
  (IF refresh THEN << Statement("ALTER", u, Safe, {"password"}) >>
              ELSE AlterIf(u, drift, "password", Safe))
    \o AlterIf(u, drift, "action", Safe)
UnsetIdentity(u, drift)       == AlterIf(u, drift, "identity_off", Safe)
SetIdentity(u, drift)         == AlterIf(u, drift, "identity_on", Safe)
AlterUserType(u, drift)       == AlterIf(u, drift, "type", Safe)
AlterUserParameters(u, drift) == AlterIf(u, drift, "parameters", Safe)
GrantUserRole(u, drift)       == AlterIf(u, drift, "role", Safe)
\* Mutant: the type changes first.
CompareUserTypeFirst(u, drift, refresh) ==
  Altered(AlterUserProperties(u, drift) \o AlterUserSecrets(u, drift, refresh)
          \o AlterUserType(u, drift)
          \o AlterEach(u, drift, <<"identity_off", "identity_on">>, Safe)
          \o AlterUserParameters(u, drift) \o GrantUserRole(u, drift))
CompareUser(u, drift, refresh) ==
  Altered(AlterUserProperties(u, drift) \o AlterUserSecrets(u, drift, refresh)
          \o UnsetIdentity(u, drift) \o AlterUserType(u, drift)
          \o SetIdentity(u, drift)
          \o AlterUserParameters(u, drift) \o GrantUserRole(u, drift))
DropUser(u) == Dropped(u, Unsafe)

\* NETWORK POLICY, as far as its lists of rules go; see Policies for the rest.
CreateNetworkPolicy(n) ==
  Reply("CREATE", << Statement("CREATE", n, Unsafe \cup {"execute_network_policy"}, {}) >>)
CompareNetworkPolicy(n, drift) ==
  Altered(AlterEach(n, drift, <<"rules", "attribute", "comment">>, Unsafe \cup {"execute_network_policy"}))
DropNetworkPolicy(n) == Dropped(n, Unsafe \cup {"execute_network_policy"})

\* The event table of a DATABASE, set at the end of the sequence.
CompareDelayed(d, drift) == Altered(AlterIf(d, drift, "attribute", Unsafe \cup {"is_account_admin"}))
DropDelayed(d) == Reply("NOCHANGE", <<>>)

=============================================================================
