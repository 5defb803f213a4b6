-------------------------- MODULE MCRevisionGuard ---------------------------
(***************************************************************************)
(* An instance of RevisionGuard.  The repository: Base; Left and Right from  *)
(* it on divergent branches; Merge of both.  Right does not declare Table; *)
(* View has the same content in Left and Merge.                            *)
(***************************************************************************)
EXTENDS RevisionGuard

CONSTANTS Base, Left, Right, Merge, Table, View, First, Second

MCCommits == {Base, Left, Right, Merge}
MCAncestors ==
  [c \in MCCommits |-> IF c = Merge THEN MCCommits ELSE {Base, c}]
MCContent ==
  [c \in MCCommits |->
     [o \in Objects |->
        CASE o = View /\ c = Merge  -> Left
          [] o = Table /\ c = Right -> Undeclared
          [] OTHER                  -> c]]

\* A view is replaced and then commented; a table is altered, or replaced with a switch.
ViewKind  == [changes |-> {"REPLACE"}, gated |-> {}, leaves |-> {"whole"}]
TableKind == [changes |-> {"REPLACE", "ALTER"}, gated |-> {"REPLACE", "DROP"}, leaves |-> {"half"}]
MCWrites  == [o \in Objects |-> IF o = View THEN ViewKind ELSE TableKind]

Clone(c, fetched, options) ==
  [sha |-> c, known |-> MCAncestors[c] \cup fetched, options |-> options]

\* Clones at each commit with all switches on, of which one has fetched all; a clone without the
\* switches of gated DDL, a plan, and an override.
MCClones == {Clone(c, IF c = Left THEN MCCommits ELSE {}, {"apply", "gates"}) : c \in MCCommits}
              \cup {Clone(Left, {}, {"apply"}), Clone(Base, {}, {}),
                    Clone(Right, {}, {"apply", "gates", "override"})}

\* Explored up to the first overlap: nothing but types is claimed after it.
OneAtATime == ~overlap
=============================================================================
