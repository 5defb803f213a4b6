---------------------------- MODULE MCStageFiles ----------------------------
(***************************************************************************)
(* Instances of StageFiles: two independent paths, "lib" and "data", and   *)
(* "data2", which begins with "data".                                      *)
(***************************************************************************)
EXTENDS StageFiles

MCPaths == {"lib", "data", "data2"}
MCExtends == [p \in MCPaths |-> IF p = "data" THEN {"data2"} ELSE {}]
MCContents == 1..3

Files(lib, data, data2) == [lib |-> lib, data |-> data, data2 |-> data2]
Apply(f)   == [files |-> f, stage |-> "kept", plan |-> FALSE]
Plan(f)    == [files |-> f, stage |-> "kept", plan |-> TRUE]
Stages     == {"kept", "replaced", "replacement suggested"}

Empty == Files(0, 0, 0)

Directories == {Files(a, b, c) : a \in {0, 1, 2, 3}, b \in {0, 2}, c \in {0, 1}}

\* What was there, an apply that may fail or die, then another directory (or
\* the same), then a plan.
MCScenarios ==
  {s \in {[file |-> t[1], maxFaults |-> 2,
           commands |-> << Apply(t[2]), [Apply(t[3]) EXCEPT !.stage = st], Plan(t[3]) >>] :
            t \in Directories \X Directories \X Directories, st \in Stages} :
     NeverBack(s) /\ PrefixSafe(s)}

\* A file gets back the content it had two applies before.
Back(now, between) ==
  [file |-> Files(now, 0, 0), maxFaults |-> 0,
   commands |-> << Apply(Files(between, 0, 0)), Apply(Files(now, 0, 0)),
                   Plan(Files(now, 0, 0)) >>]

BackScenarios == {Back(t[1], t[2]) : t \in {u \in MCContents \X MCContents : u[1] # u[2]}}
=============================================================================
