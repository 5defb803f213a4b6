----------------------------- MODULE Reconciler -----------------------------
(***************************************************************************)
(* What an invocation of SnowDDL promises about a set of things it keeps   *)
(* as declared, told without statements, listings, workers or switches:    *)
(* while it works a thing keeps its value, gets the declared one or goes;  *)
(* it may stop anywhere; but it only says "done" when everything is as     *)
(* declared.                                                               *)
(***************************************************************************)
CONSTANTS Names, Values, Absent

VARIABLES
  goal,    \* what is declared
  actual,  \* what there is
  result   \* "working", "done" or "undone"

vars == <<goal, actual, result>>

States == [Names -> Values \cup {Absent}]

Init == goal \in States /\ actual \in States /\ result = "undone"

\* An invocation starts; what contains the things may be replaced by it.
Declare ==
  /\ result # "working" /\ result' = "working"
  /\ goal' \in States
  /\ actual' \in States /\ \A n \in Names : actual'[n] \in {actual[n], Absent}

Change ==
  /\ result = "working"
  /\ actual' \in States /\ \A n \in Names : actual'[n] \in {actual[n], goal[n], Absent}
  /\ UNCHANGED <<goal, result>>

Finish ==
  /\ result = "working" /\ actual = goal /\ result' = "done"
  /\ UNCHANGED <<goal, actual>>

\* A plan, an error, a crash, a statement that is only suggested.
GiveUp ==
  /\ result = "working" /\ result' = "undone"
  /\ UNCHANGED <<goal, actual>>

Next == Declare \/ Change \/ Finish \/ GiveUp

Spec == Init /\ [][Next]_vars
=============================================================================
