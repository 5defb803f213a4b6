------------------------------ MODULE MCPolicies -----------------------------
(***************************************************************************)
(* Instances of Policies: three policies, a user (or table, or column) and *)
(* the account.                                                            *)
(***************************************************************************)
EXTENDS Policies

CONSTANTS Kept, New, Old, User

MCNames   == {Kept, New, Old}
MCTargets == {User, Account}
MCOrders  == { <<User, Account>>, <<Account, User>> }

\* Policies are attached to the account by two kinds only.
TargetsOf(k) == IF k \in {"AUTHENTICATION", "NETWORK"} THEN MCTargets ELSE {User}

Full == Switches

\* Two plain applies; or others first: without one of the switches, or one
\* that fails, and the two plain ones after it.
PlainApplies == { << Full, Full >> }
LongApplies  == { << Full \ {switch}, Full, Full >> : switch \in Switches } \cup { << Full, Full, Full >> }

\* What the comparison of this kind looks at.
DriftsOf(k) ==
  CASE k = "ROW_ACCESS"     -> {{}, {"signature"}, {"body", "comment"}}
    [] k = "AUTHENTICATION" -> {{}, {"hash"}, {"body", "hash"}}
    [] OTHER                -> {{}, {"body", "comment"}}

ClaimsOf(k, names) ==
  {[p \in MCNames |-> {t \in TargetsOf(k) : f[t] = p}] : f \in [TargetsOf(k) -> names \cup {None}]}

\* The declared policies, those in the account, and one that differs.
StartsWith(k, names, present, q, series) ==
  {[kind |-> k, declared |-> names, claims |-> c, policies |-> present,
    on |-> [t \in MCTargets |-> IF t \in TargetsOf(k) THEN f[t] ELSE None], off |-> o,
    drift |-> [p \in MCNames |-> IF p = q THEN d ELSE {}], applies |-> a] :
     c \in ClaimsOf(k, names), f \in [TargetsOf(k) -> present \cup {None}],
     o \in {{}, {User}}, d \in DriftsOf(k), a \in series}

AllStarts ==
  {s \in UNION {StartsWith(k, {Kept, New}, {Kept, Old}, Kept, PlainApplies \cup LongApplies) : k \in Kinds}
      \cup UNION {StartsWith(k, {Kept, New}, {Kept, New}, Kept, LongApplies) : k \in Kinds}
      \cup UNION {StartsWith(k, {}, {Old}, Old, PlainApplies) : k \in Kinds} :
    IsCareful(s)}

\* The test: a user changes authentication policies.
MovedStarts ==
  {s \in StartsWith("AUTHENTICATION", {Kept, New}, {Kept, New}, Kept, PlainApplies) :
     s.on[User] = Kept /\ s.claims[New] = {User} /\ s.drift[Kept] = {} /\ s.off = {}
       /\ s.on[Account] = None /\ s.claims[Kept] = {}}
=============================================================================
