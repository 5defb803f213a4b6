-------------------------- MODULE MCMaskingPolicy ---------------------------
(***************************************************************************)
(* Instances of MaskingPolicy: three policies and two columns.             *)
(***************************************************************************)
EXTENDS MaskingPolicy

CONSTANTS Kept, New, Old

MCPolicies == {Kept, New, Old}

\* The claims: a map from columns to the policy that claims them, or None.
Configured(names, claim) ==
  [declared |-> names,
   references |-> [p \in MCPolicies |-> {c \in Columns : claim[c] = p}]]

\* Everything that a configuration over these names can claim.
Configurations(names) ==
  {Configured(names, claim) : claim \in [Columns -> names \cup {None}]}

\* One policy of the account differs in its signature, or all in their body.
Drifts(names) ==
  {[p \in MCPolicies |-> {}]}
    \cup {[p \in MCPolicies |-> IF p = q THEN {"signature"} ELSE {}] : q \in names}
    \cup {[p \in MCPolicies |-> IF p \in names THEN {"body", "comment"} ELSE {}]}

StartsOf(names, present) ==
  {[declared |-> c.declared, references |-> c.references, policies |-> present,
    masks |-> m, drift |-> d] :
     c \in Configurations(names), m \in [Columns -> present \cup {None}],
     d \in Drifts(present)}

\* A policy whose signature changes loses no column to another policy.
KeepsItsColumns(s) ==
  \A p \in s.declared : "signature" \in s.drift[p] =>
    \A c \in Columns : \A q \in s.declared \ {p} :
      ~(s.masks[c] = p /\ c \in s.references[q])

\* Every configuration of the three policies, of two or of none, against
\* every account with the same ones, one missing or one too many.
AllStarts ==
  UNION {StartsOf(s[1], s[2]) :
           s \in { <<MCPolicies, MCPolicies>>, <<{Kept, New}, {Kept, Old}>>,
                   <<{Kept, New}, MCPolicies>>, <<{New}, {Old}>>, <<{}, {Old}>> }}

CarefulStarts == {s \in AllStarts : KeepsItsColumns(s)}
=============================================================================
