--------------------------- MODULE RevisionGuard ----------------------------
(***************************************************************************)
(* Several clones of one configuration repository apply to one account,    *)
(* each at the commit it is sitting on, under the apply-revision guard:    *)
(* the stamps are read once when the engine is built, every object is      *)
(* checked against that copy before it is written, and the writes are      *)
(* stamped by one INSERT when all resolvers are done.                      *)
(*                                                                         *)
(* The body of an object in the account is represented by the commit whose *)
(* apply wrote it.  What an applier compares is the content of the bodies: *)
(* two commits may well declare the same one.                              *)
(***************************************************************************)
CONSTANTS
  Commits,    \* revisions of the repository
  Ancestors,  \* for each commit, its ancestors and itself
  Objects,    \* names of objects
  Content,    \* what a commit declares for an object, or Undeclared
  Writes,     \* how objects of this type are written, see Kinds
  Appliers,   \* the invocations of SnowDDL, each in a clone of its own
  Clones,     \* what such a clone and its command line may be, see CloneRecords
  None,       \* no object, no stamp
  Half,       \* a row that is what no blueprint declares
  Undeclared  \* no blueprint

\* How compare_object changes an object of a type (a table by either), which
\* results stand for statements that are executed only with their switch, and
\* what a task leaves which raises after its first statement: the new body, of
\* which compare_object does not miss anything (a view whose COMMENT failed);
\* one on which it does (a function without its hash, a table with some of the
\* ALTERs); or no object (a policy that is dropped and created again).
Kinds == [changes : SUBSET {"REPLACE", "ALTER"},
          gated   : SUBSET {"CREATE", "REPLACE", "ALTER", "DROP"},
          leaves  : SUBSET {"whole", "half", "nothing"}]

\* RevisionContext.sha, the commits which git finds in the clone, and of the
\* command line whether it is an apply, turns on the switches of gated DDL
\* (--apply-unsafe and the like), and overrides the guard.
CloneRecords == [sha : Commits, known : SUBSET Commits,
                 options : SUBSET {"apply", "gates", "override"}]

ASSUME GuardAssumption ==
  /\ Ancestors \in [Commits -> SUBSET Commits]
  /\ \A c \in Commits : c \in Ancestors[c]
  /\ \A c \in Commits : \A b \in Ancestors[c] : Ancestors[b] \subseteq Ancestors[c]
  /\ Writes \in [Objects -> Kinds]
  /\ None \notin Commits /\ Half \notin Commits \cup {None}
  /\ Clones \subseteq CloneRecords
  /\ \A c \in Clones : Ancestors[c.sha] \subseteq c.known

VARIABLES
  deployed,  \* the commit which wrote the object's body in the account
  half,      \* the objects whose body was written in part, or without its hash
  stamps,    \* V_SNOWDDL_OBJECT_REVISION: the last stamp of each name
  clone,     \* the clone and command line of each applier
  pc,        \* idle, loaded, resolving, done or crashed
  seen,      \* RevisionGuard._stamps, the copy of the stamps
  rows,      \* what its resolvers listed
  stage,     \* of its task for each object: todo, checked, refused, failed or done
  records,   \* RevisionGuard._records
  overlap,   \* whether two invocations have overlapped, and
  astray     \* for each object why its stamp is, or will be, that of another
             \* commit than the body's, see Reasons; only the properties look
             \* at these two

account == <<deployed, half>>
history == <<overlap, astray>>
vars == <<account, stamps, clone, pc, seen, rows, stage, records, history>>

\* Its last writer raised before the write was recorded, or changed it by ALTER,
\* which is not recorded; a REPLACE was recorded but only suggested; the writer
\* died before its flush.
Reasons == {"raised", "altered", "suggested", "died"}

sha(p) == clone[p].sha

IsApply(p)     == "apply" \in clone[p].options
HasGates(p)    == {"apply", "gates"} \subseteq clone[p].options
HasOverride(p) == "override" \in clone[p].options

Active(p) == pc[p] \in {"loaded", "resolving"}
Quiet     == \A p \in Appliers : ~Active(p)

Declares(p, o) == Content[sha(p)][o] # Undeclared

-----------------------------------------------------------------------------
\* Bodies that predate the guard have no stamp; the others have the right one.
Init ==
  /\ deployed \in [Objects -> Commits \cup {None}]
  /\ stamps \in [Objects -> Commits \cup {None}]
  /\ \A o \in Objects : stamps[o] \in {None, deployed[o]}
  /\ clone \in [Appliers -> Clones]
  /\ pc = [p \in Appliers |-> "idle"]
  /\ seen = [p \in Appliers |-> [o \in Objects |-> None]]
  /\ rows = [p \in Appliers |-> [o \in Objects |-> None]]
  /\ stage = [p \in Appliers |-> [o \in Objects |-> "todo"]]
  /\ records = [p \in Appliers |-> {}]
  /\ half = {} /\ overlap = FALSE /\ astray = [o \in Objects |-> "none"]

\* RevisionGuard.load, called by get_engine.
Load(p) ==
  /\ pc[p] = "idle"
  /\ overlap' = (overlap \/ ~Quiet)
  /\ seen' = [seen EXCEPT ![p] = stamps]
  /\ pc' = [pc EXCEPT ![p] = "loaded"]
  /\ UNCHANGED <<account, stamps, clone, rows, stage, records, astray>>

\* get_existing_objects: the rows the objects will be compared with.
List(p) ==
  /\ pc[p] = "loaded"
  /\ rows' = [rows EXCEPT ![p] = [o \in Objects |-> IF o \in half THEN Half ELSE deployed[o]]]
  /\ pc' = [pc EXCEPT ![p] = "resolving"]
  /\ UNCHANGED <<account, stamps, clone, seen, stage, records, history>>

\* Mutants of the next one: the question asked the wrong way round; and a commit missing
\* from the clone taken for harmless.
IsProvenDescendant(p, c) == c \in clone[p].known /\ sha(p) \in Ancestors[c]
IsNotDisproven(p, c)     == c \in clone[p].known => c \in Ancestors[sha(p)]

\* _ancestry is True: the recorded commit is in this clone and an ancestor.
IsProvenAncestor(p, c) == c \in clone[p].known /\ c \in Ancestors[sha(p)]

\* check, up to the verdict: no stamp is no refusal, nor is one's own stamp.
MayWrite(p, o) ==
  \/ seen[p][o] \in {None, sha(p)}
  \/ HasOverride(p)
  \/ IsProvenAncestor(p, seen[p][o])

\* Mutant: checked against a row that is not read yet.
CheckAtOnce(p, o) ==
  /\ pc[p] \in {"loaded", "resolving"} /\ stage[p][o] = "todo" /\ Declares(p, o)
  /\ stage' = [stage EXCEPT ![p][o] =
                 IF MayWrite(p, o) \/ ~IsApply(p) THEN "checked" ELSE "refused"]
  /\ UNCHANGED <<account, stamps, clone, pc, seen, rows, records, history>>

\* A worker enters the entry point of the object's blueprint.  A plan only
\* warns, an apply raises, and the task ends there.
Check(p, o) ==
  /\ pc[p] = "resolving" /\ stage[p][o] = "todo" /\ Declares(p, o)
  /\ stage' = [stage EXCEPT ![p][o] =
                 IF MayWrite(p, o) \/ ~IsApply(p) THEN "checked" ELSE "refused"]
  /\ UNCHANGED <<account, stamps, clone, pc, seen, rows, records, history>>

\* The row has what the blueprint says.
IsSame(p, o) == rows[p][o] \in Commits /\ Content[rows[p][o]][o] = Content[sha(p)][o]

NoChange(p, o) ==
  /\ pc[p] = "resolving" /\ stage[p][o] = "checked" /\ IsSame(p, o)
  /\ stage' = [stage EXCEPT ![p][o] = "done"]
  /\ UNCHANGED <<account, stamps, clone, pc, seen, rows, records, history>>

Results(p, o) == IF rows[p][o] = None THEN {"CREATE"} ELSE Writes[o].changes

\* What is executed of the statements behind a result; of an ALTER, those that
\* are safe.  The others are only suggested.
Executions(p, o, result) ==
  CASE ~IsApply(p)                           -> {"nothing"}
    [] IsApply(p) /\ HasGates(p)             -> {"whole"}
    [] IsApply(p) /\ ~HasGates(p)            ->
         IF result \in Writes[o].gated THEN {"nothing"}
         ELSE IF result = "ALTER" THEN {"nothing", "half", "whole"} ELSE {"whole"}

\* What there is then of an object.
Account(o, body, execution) ==
  /\ deployed' = [deployed EXCEPT ![o] = body]
  /\ half' = IF execution = "half" THEN half \cup {o} ELSE half \ {o}

\* RECORDED_RESULTS, whether executed or suggested.
IsRecorded(result) == result \in {"CREATE", "REPLACE"}

\* What comes of a result: in the account, the records, and the history.
Resolve(p, o, result, execution) ==
  /\ IF execution = "nothing" THEN UNCHANGED account ELSE Account(o, sha(p), execution)
  /\ records' = [records EXCEPT ![p] = IF IsRecorded(result) THEN @ \cup {o} ELSE @]
  /\ astray' = [astray EXCEPT ![o] =
                  CASE execution # "nothing" /\ IsRecorded(result)  -> "none"
                    [] execution # "nothing" /\ ~IsRecorded(result) -> "altered"
                    [] execution = "nothing" /\ IsRecorded(result) /\ IsApply(p) -> "suggested"
                    [] OTHER -> @]

\* create_object or compare_object returns the result, which is then recorded.
\* (An exception in the grants, which come after that, makes no difference.)
Write(p, o) ==
  /\ pc[p] = "resolving" /\ stage[p][o] = "checked" /\ ~IsSame(p, o)
  /\ \E result \in Results(p, o) : \E execution \in Executions(p, o, result) :
       Resolve(p, o, result, execution)
  /\ stage' = [stage EXCEPT ![p][o] = "done"]
  /\ UNCHANGED <<stamps, clone, pc, seen, rows, overlap>>

\* Something in the task raises after the body was written: the COMMENT of a
\* view, the second ALTER.  _process_tasks makes it an ERROR; it is not recorded.
FailHalfway(p, o) ==
  /\ pc[p] = "resolving" /\ stage[p][o] = "checked" /\ ~IsSame(p, o)
  /\ \E result \in Results(p, o) : Executions(p, o, result) # {"nothing"}
  /\ \E left \in Writes[o].leaves :
       /\ Account(o, IF left = "nothing" THEN None ELSE sha(p), left)
       /\ astray' = [astray EXCEPT ![o] = IF left = "nothing" THEN "none" ELSE "raised"]
  /\ stage' = [stage EXCEPT ![p][o] = "failed"]
  /\ UNCHANGED <<stamps, clone, pc, seen, rows, records, overlap>>

\* drop_object of what this clone does not declare: the guard is not asked,
\* and DROP is not recorded.  (_resolve_drop)
Drop(p, o) ==
  /\ pc[p] = "resolving" /\ stage[p][o] = "todo" /\ ~Declares(p, o)
  /\ IF rows[p][o] # None /\ (IF "DROP" \in Writes[o].gated THEN HasGates(p) ELSE IsApply(p))
     THEN Account(o, None, "nothing") /\ astray' = [astray EXCEPT ![o] = "none"]
     ELSE UNCHANGED <<account, astray>>
  /\ stage' = [stage EXCEPT ![p][o] = "done"]
  /\ UNCHANGED <<stamps, clone, pc, seen, rows, records, overlap>>

\* The task raises before anything is executed: a query of compare_object, or
\* the first of its statements.
Fail(p, o) ==
  /\ pc[p] = "resolving"
  /\ stage[p][o] = "checked" \/ (stage[p][o] = "todo" /\ ~Declares(p, o) /\ rows[p][o] # None)
  /\ stage' = [stage EXCEPT ![p][o] = "failed"]
  /\ UNCHANGED <<account, stamps, clone, pc, seen, rows, records, history>>

AllEnded(p) == \A o \in Objects : stage[p][o] \in {"done", "refused", "failed"}

\* Mutant: the stamps are written when there was no error.
FlushUnlessErrors(p) ==
  /\ pc[p] = "resolving" /\ AllEnded(p)
  /\ stamps' = IF IsApply(p) /\ \A o \in Objects : stage[p][o] = "done"
               THEN [o \in Objects |-> IF o \in records[p] THEN sha(p) ELSE stamps[o]]
               ELSE stamps
  /\ pc' = [pc EXCEPT ![p] = "done"]
  /\ UNCHANGED <<account, clone, seen, rows, stage, records, history>>

\* flush, after the last resolver, errors or not: nothing on plan.
Flush(p) ==
  /\ pc[p] = "resolving" /\ AllEnded(p)
  /\ stamps' = IF IsApply(p)
               THEN [o \in Objects |-> IF o \in records[p] THEN sha(p) ELSE stamps[o]]
               ELSE stamps
  /\ pc' = [pc EXCEPT ![p] = "done"]
  /\ UNCHANGED <<account, clone, seen, rows, stage, records, history>>

\* The process dies, or a resolver's metadata query or the INSERT raises out of
\* execute.
Crash(p) ==
  /\ Active(p)
  /\ pc' = [pc EXCEPT ![p] = "crashed"]
  /\ astray' = [o \in Objects |-> IF o \in records[p] /\ IsApply(p) THEN "died" ELSE astray[o]]
  /\ UNCHANGED <<account, stamps, clone, seen, rows, stage, records, overlap>>

\* All invocations are over.
Over == Quiet /\ \A p \in Appliers : pc[p] # "idle"
Idle == Over /\ UNCHANGED vars

Task(p, o) ==
  Check(p, o) \/ NoChange(p, o) \/ Write(p, o) \/ FailHalfway(p, o) \/ Drop(p, o) \/ Fail(p, o)
Step(p)    == Load(p) \/ List(p) \/ Flush(p) \/ Crash(p) \/ \E o \in Objects : Task(p, o)

Next == Idle \/ \E p \in Appliers : Step(p)

Spec == Init /\ [][Next]_vars

-----------------------------------------------------------------------------
(* Properties.                                                             *)

\* The types of the variables, and the order of an applier's steps.
TypeOK ==
  /\ deployed \in [Objects -> Commits \cup {None}] /\ half \subseteq Objects
  /\ stamps \in [Objects -> Commits \cup {None}]
  /\ clone \in [Appliers -> Clones]
  /\ pc \in [Appliers -> {"idle", "loaded", "resolving", "done", "crashed"}]
  /\ seen \in [Appliers -> [Objects -> Commits \cup {None}]]
  /\ rows \in [Appliers -> [Objects -> Commits \cup {None, Half}]]
  /\ stage \in [Appliers -> [Objects -> {"todo", "checked", "refused", "failed", "done"}]]
  /\ records \in [Appliers -> SUBSET Objects]
  /\ overlap \in BOOLEAN /\ astray \in [Objects -> Reasons \cup {"none"}]
  /\ \A p \in Appliers : pc[p] \in {"idle", "loaded"} =>
       records[p] = {} /\ \A o \in Objects : stage[p][o] = "todo"

\* The applier whose worker takes a step on the object.
Writer(p, o) == stage[p][o] = "checked" /\ stage'[p][o] \in {"failed", "done"}

\* The rule (revision_guard.py, module docstring): the commit that produced
\* the body in the account is an ancestor of the one that overwrites it,
\* unless the writer asked for the override.  Bodies that were never stamped
\* are the bootstrap case.
IsForward(o) ==
  deployed'[o] # deployed[o] /\ None \notin {deployed[o], deployed'[o], stamps[o]} =>
    \/ deployed[o] \in Ancestors[deployed'[o]]
    \/ \E p \in Appliers : Writer(p, o) /\ HasOverride(p)

\* It holds as long as invocations do not overlap, of every object whose last
\* write was a CREATE or REPLACE that was executed, recorded and flushed: in any
\* order of plans, applies, refusals, errors, deaths and overrides, with gates
\* or without, from clones that miss commits or have fetched all, and whatever
\* is astray next to it (load, check, record, flush).
NeverBackwards ==
  [][~overlap' => \A o \in Objects : astray[o] = "none" => IsForward(o)]_vars

\* When nothing runs, the stamps of all objects name the commits that wrote the
\* bodies, but for the reasons there are (record, RECORDED_RESULTS, flush).  There
\* are no others: nothing else that was not written was stamped, nothing else that
\* was stamped was overwritten without a new stamp, an object gets over them with
\* the next CREATE or REPLACE that is flushed, and those that are written next to
\* it never notice.
StampsNameTheWriter ==
  Quiet /\ ~overlap =>
    \A o \in Objects :
      astray[o] \in Reasons \/ None \in {stamps[o], deployed[o]} \/ stamps[o] = deployed[o]

\* Nobody is refused for no reason: a clone which has the commits of every
\* body and stamp of the account among its ancestors is not refused anything,
\* whatever was dropped, overridden or cut short by a death before it started
\* (load, check).
AccountCommits == ({deployed[o] : o \in Objects} \cup {stamps[o] : o \in Objects}) \ {None}

MergedIsNotRefused ==
  ~overlap =>
    \A p \in Appliers : Active(p) /\ AccountCommits \subseteq Ancestors[sha(p)] =>
      \A o \in Objects : stage[p][o] # "refused"

=============================================================================
