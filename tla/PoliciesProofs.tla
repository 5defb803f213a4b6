--------------------------- MODULE PoliciesProofs ---------------------------
(***************************************************************************)
(* What an exit code of 0 says of policies, for all six kinds, any number  *)
(* of policies and targets, any order in which references are listed, any  *)
(* series of applies with whatever switches, and any failures and crashes  *)
(* before: one apply leaves the declared policies, two leave them on what  *)
(* they claim, and after that nothing is left to do.                       *)
(*                                                                         *)
(* A worker's plan is made once and carried out while others carry out     *)
(* theirs.  The proof follows an apply in which nothing failed so far:     *)
(* what is not yet as declared is still ahead in the plan of the policy's  *)
(* own worker, and what a statement spoils, a later one of the same plan   *)
(* repairs.                                                                *)
(***************************************************************************)
EXTENDS Policies, SequenceLemmas

\* No apply without --apply-unsafe meets an authentication policy with another
\* body.
Careful == \A s \in Starts : IsCareful(s)

-----------------------------------------------------------------------------
(* The inductive invariant: bookkeeping.                                   *)

\* The statements that are ahead of a policy's worker.
Ahead(p) == Range(task[p].plan)

SetupIsKnown ==
  \E s \in Starts : setup = [kind |-> s.kind, declared |-> s.declared, claims |-> s.claims,
                             applies |-> s.applies]

TypeOK ==
  /\ SetupIsKnown
  /\ policies \in SUBSET Names /\ on \in [Targets -> Names \cup {None}]
  /\ off \in SUBSET Targets /\ drift \in [Names -> SUBSET AspectsOf(kind)]
  /\ apply \in Nat \ {0} /\ pc \in {"start", "drop", "create"} /\ existing \in SUBSET Names
  /\ task \in [Names -> [stage : Stages, plan : Seq(Statements)]]
  /\ ok \in Seq(BOOLEAN) /\ Len(ok) = apply - 1 /\ faults \in Nat

\* Targets carry policies that exist, and workers belong to the phase.
Bookkeeping ==
  /\ \A t \in Targets : on[t] \in policies \cup {None}
  /\ pc = "start" => \A p \in Names : task[p] = Idling
  /\ pc # "start" => declared # {} /\ ~Over
  /\ \A p \in Names : task[p].stage # "running" => task[p].plan = << >>
  /\ pc = "drop" => \A p \in Names :
       /\ p \in declared => task[p].stage = "none" /\ (p \in existing <=> p \in policies)
       /\ task[p].stage = "queued" => p \in policies
  /\ pc = "create" => \A p \in Names :
       /\ p \notin declared => task[p].stage \in {"none", "failed"}
       /\ task[p].stage = "queued" => (p \in existing <=> p \in policies)

-----------------------------------------------------------------------------
(* The inductive invariant: plans.                                         *)

Ops(ops)  == {s \in Statements : s.op \in ops}
Repairs(a) == {s \in Statements : s.op \in {"ALTER", "ALTER_SAFELY"} /\ s.target = a}
Resets     == {Statement("CREATE", None)} \cup Repairs("body")

\* What is spoilt on the way is repaired later: a policy that is dropped is
\* created, one whose hash is reset gets it, a claimed target that is
\* detached is attached.
IsOrdered(p, q) ==
  /\ Follows(q, Ops({"DROP"}), Ops({"CREATE"}))
  /\ kind = "AUTHENTICATION" => Follows(q, Resets, Repairs("hash"))
  /\ \A t \in claims[p] : Follows(q, {Statement("DETACH", t)}, {Statement("ATTACH", t)})

PlansAreSound ==
  \A p \in Names :
    /\ \A s \in Ahead(p) :
         /\ s.op \in {"ATTACH", "DETACH"} => s.target \in Targets
         /\ s.op = "ATTACH" => s.target \in claims[p]
         /\ s.op = "CREATE" => s.target = None
    /\ pc = "drop" => \A s \in Ahead(p) : s.op \in {"DETACH", "DROP"}
    /\ pc = "create" => IsOrdered(p, task[p].plan)

\* A hash is set by a worker only after the body.
HashIsHonest ==
  kind = "AUTHENTICATION" => \A p \in Names : "body" \in drift[p] =>
    /\ "hash" \in drift[p]
    /\ \A i \in DOMAIN setup.applies :
         "unsafe" \in setup.applies[i] \/ "policy" \notin setup.applies[i]
    /\ pc # "start" /\ "policy" \in Settings /\ Ahead(p) \cap Repairs("hash") # {} =>
         Head(task[p].plan) \in Resets

-----------------------------------------------------------------------------
(* The inductive invariant: an apply in which nothing failed so far.       *)

IsClean ==
  /\ pc # "start" /\ Settings = Switches
  /\ \A p \in Names : task[p].stage # "failed"

InPlace(p, t) ==
  on[t] = p /\ (kind \in {"AGGREGATION", "JOIN", "ROW_ACCESS"} => t \notin off)

\* Nobody takes a claimed target from the policy that claims it: row access
\* policies are detached by name, and after a successful apply no policy is
\* where it is not claimed.
IsSteady == kind = "ROW_ACCESS" \/ (apply > 1 /\ Succeeded(apply - 1))

WillBeRight(p) ==
  /\ p \in policies \/ Ahead(p) \cap Ops({"CREATE"}) # {}
  /\ \A a \in drift[p] : Ahead(p) \cap (Ops({"CREATE"}) \cup Repairs(a)) # {}
  /\ \A t \in Targets : on[t] = p /\ t \notin claims[p] => Statement("DETACH", t) \in Ahead(p)
  /\ IsSteady => \A t \in claims[p] : InPlace(p, t) \/ Statement("ATTACH", t) \in Ahead(p)

DropsAreAhead ==
  pc = "drop" /\ IsClean => \A p \in policies \ declared :
    task[p].stage = "queued" \/ Ahead(p) \cap Ops({"DROP"}) # {}

RestIsAhead ==
  pc = "create" /\ IsClean =>
    /\ policies \subseteq declared
    /\ \A p \in declared : task[p].stage = "queued" \/ WillBeRight(p)

-----------------------------------------------------------------------------
(* The inductive invariant: after such an apply.                           *)

HasSucceeded == declared # {} /\ apply > 1 /\ Succeeded(apply - 1)

HasSettled ==
  HasSucceeded /\ (kind = "ROW_ACCESS" \/ (apply > 2 /\ Succeeded(apply - 2)))

AfterSuccess ==
  HasSucceeded =>
    /\ PoliciesAreDeclared
    /\ \A t \in Targets : on[t] # None => t \in claims[on[t]]
    /\ \A p \in Names : kind # "ROW_ACCESS" => Ahead(p) \subseteq Ops({"ATTACH"})

AfterSettling ==
  HasSettled =>
    /\ \A p \in Names : \A t \in claims[p] : InPlace(p, t)
    /\ \A p \in Names : Ahead(p) = {}

PolicyInv ==
  /\ TypeOK /\ Bookkeeping /\ PlansAreSound /\ HashIsHonest
  /\ DropsAreAhead /\ RestIsAhead /\ AfterSuccess /\ AfterSettling

-----------------------------------------------------------------------------
(* The configuration does not change.                                      *)

\* What is known of kinds, blueprints and claims.
LEMMA ConfigurationIs ==
  ASSUME SetupIsKnown
  PROVE  /\ kind \in Kinds /\ declared \in SUBSET Names /\ claims \in [Names -> SUBSET Targets]
         /\ setup.applies \in Seq(SUBSET Switches)
         /\ \A p, q \in Names : p # q => claims[p] \cap claims[q] = {}
         /\ \A p \in Names : p \notin declared => claims[p] = {}
<1>1. PICK s \in Starts :
        setup = [kind |-> s.kind, declared |-> s.declared, claims |-> s.claims,
                 applies |-> s.applies]
  BY DEF SetupIsKnown
<1>2. kind = s.kind /\ declared = s.declared /\ claims = s.claims /\ setup.applies = s.applies
  BY <1>1 DEF kind, declared, claims
<1>3. /\ s \in StartRecords
      /\ \A p, q \in Names : p # q => s.claims[p] \cap s.claims[q] = {}
      /\ \A p \in Names : p \notin s.declared => s.claims[p] = {}
  BY PolicyAssumption
<1> QED
  BY <1>2, <1>3 DEF StartRecords

\* Statements of a sequence, by what they are.
LEMMA StatementIs ==
  ASSUME NEW op \in {"CREATE", "ALTER", "ALTER_SAFELY", "ATTACH", "DETACH", "DROP"},
         NEW t \in Targets \cup Aspects \cup {None}
  PROVE  /\ Statement(op, t) \in Statements
         /\ Statement(op, t).op = op /\ Statement(op, t).target = t
  BY DEF Statement, Statements

-----------------------------------------------------------------------------
(* The parts of a plan.                                                    *)

\* A statement for each of these targets.
LEMMA EachHas ==
  ASSUME NEW op \in {"ATTACH", "DETACH"}, NEW order \in Orders, NEW targets \in SUBSET Targets
  PROVE  /\ Each(op, order, targets) \in Seq(Statements)
         /\ \A s : s \in Range(Each(op, order, targets)) <=>
                     \E t \in targets : s = Statement(op, t)
<1> DEFINE one(i) == IF order[i] \in targets THEN << Statement(op, order[i]) >> ELSE << >>
           ss == [i \in DOMAIN order |-> one(i)]
<1>1. /\ order \in Seq(Targets) /\ \A t \in Targets : \E i \in DOMAIN order : order[i] = t
  BY PolicyAssumption
<1>2. Len(order) \in Nat /\ DOMAIN order = 1..Len(order)
  BY <1>1
<1>3. ss = [i \in 1..Len(order) |-> ss[i]]
  BY <1>2
<1>4. IsSeq(ss) /\ DOMAIN ss = DOMAIN order
  BY <1>2, <1>3, SeqIntro
<1>5. ASSUME NEW i \in DOMAIN order
      PROVE  /\ IsSeq(one(i))
             /\ \A s : s \in Range(one(i)) <=> order[i] \in targets /\ s = Statement(op, order[i])
  <2>1. CASE order[i] \in targets
    <3>1. one(i) = << Statement(op, order[i]) >>
      BY <2>1
    <3> HIDE DEF one
    <3>2. IsSeq(one(i)) /\ Range(one(i)) = {Statement(op, order[i])}
      BY <3>1, UnitIsSeq
    <3> QED
      BY <2>1, <3>2
  <2>2. CASE order[i] \notin targets
    <3>1. one(i) = << >>
      BY <2>2
    <3> HIDE DEF one
    <3>2. IsSeq(one(i)) /\ Range(one(i)) = {}
      BY <3>1, EmptyIsSeq
    <3> QED
      BY <2>2, <3>2
  <2> QED
    BY <2>1, <2>2
<1>6. Each(op, order, targets) = FlattenSeq(ss)
  BY DEF Each
<1>7. \A i \in DOMAIN ss : ss[i] = one(i)
  BY <1>4
<1> HIDE DEF one, ss
<1>8. \A i \in DOMAIN ss : IsSeq(ss[i])
  BY <1>4, <1>5, <1>7
<1>9. /\ IsSeq(FlattenSeq(ss))
      /\ \A x : x \in Range(FlattenSeq(ss)) <=> \E i \in DOMAIN ss : x \in Range(ss[i])
  BY <1>4, <1>8, FlattenIsSeq
<1>10. ASSUME NEW s
       PROVE  s \in Range(FlattenSeq(ss)) <=> \E t \in targets : s = Statement(op, t)
  <2>1. ASSUME s \in Range(FlattenSeq(ss)) PROVE \E t \in targets : s = Statement(op, t)
    <3>1. PICK i \in DOMAIN ss : s \in Range(ss[i])
      BY <1>9, <2>1
    <3> QED
      BY <1>4, <1>5, <1>7, <3>1
  <2>2. ASSUME NEW t \in targets, s = Statement(op, t) PROVE s \in Range(FlattenSeq(ss))
    <3>1. PICK i \in DOMAIN order : order[i] = t
      BY <1>1
    <3>2. s \in Range(ss[i])
      BY <1>4, <1>5, <1>7, <2>2, <3>1
    <3> QED
      BY <1>4, <1>9, <3>2
  <2> QED
    BY <2>1, <2>2
<1>11. Range(FlattenSeq(ss)) \subseteq Statements
  BY <1>10, StatementIs
<1>12. FlattenSeq(ss) \in Seq(Statements)
  BY <1>9, <1>11, SeqIn
<1> QED
  BY <1>6, <1>10, <1>12

\* An ALTER for each of these aspects that differs.
LEMMA AltersHave ==
  ASSUME NEW p, NEW aspects \in Seq(Aspects)
  PROVE  /\ Alters(p, aspects) \in Seq(Statements)
         /\ \A s : s \in Range(Alters(p, aspects)) <=>
                     \E a \in Range(aspects) \cap drift[p] : s = Statement("ALTER", a)
<1> DEFINE one(i) == IF aspects[i] \in drift[p] THEN << Statement("ALTER", aspects[i]) >> ELSE << >>
           ss == [i \in DOMAIN aspects |-> one(i)]
<1>1. \A i \in DOMAIN aspects : aspects[i] \in Range(aspects) /\ aspects[i] \in Aspects
  BY DEF Range
<1>2. Len(aspects) \in Nat /\ DOMAIN aspects = 1..Len(aspects)
  OBVIOUS
<1>3. ss = [i \in 1..Len(aspects) |-> ss[i]]
  BY <1>2
<1>4. IsSeq(ss) /\ DOMAIN ss = DOMAIN aspects
  BY <1>2, <1>3, SeqIntro
<1>5. ASSUME NEW i \in DOMAIN aspects
      PROVE  /\ IsSeq(one(i))
             /\ \A s : s \in Range(one(i)) <=>
                         aspects[i] \in drift[p] /\ s = Statement("ALTER", aspects[i])
  <2>1. CASE aspects[i] \in drift[p]
    <3>1. one(i) = << Statement("ALTER", aspects[i]) >>
      BY <2>1
    <3> HIDE DEF one
    <3>2. IsSeq(one(i)) /\ Range(one(i)) = {Statement("ALTER", aspects[i])}
      BY <3>1, UnitIsSeq
    <3> QED
      BY <2>1, <3>2
  <2>2. CASE aspects[i] \notin drift[p]
    <3>1. one(i) = << >>
      BY <2>2
    <3> HIDE DEF one
    <3>2. IsSeq(one(i)) /\ Range(one(i)) = {}
      BY <3>1, EmptyIsSeq
    <3> QED
      BY <2>2, <3>2
  <2> QED
    BY <2>1, <2>2
<1>6. Alters(p, aspects) = FlattenSeq(ss)
  BY DEF Alters
<1>7. \A i \in DOMAIN ss : ss[i] = one(i)
  BY <1>4
<1> HIDE DEF one, ss
<1>8. \A i \in DOMAIN ss : IsSeq(ss[i])
  BY <1>4, <1>5, <1>7
<1>9. /\ IsSeq(FlattenSeq(ss))
      /\ \A x : x \in Range(FlattenSeq(ss)) <=> \E i \in DOMAIN ss : x \in Range(ss[i])
  BY <1>4, <1>8, FlattenIsSeq
<1>10. ASSUME NEW s
       PROVE  s \in Range(FlattenSeq(ss)) <=>
                \E a \in Range(aspects) \cap drift[p] : s = Statement("ALTER", a)
  <2>1. ASSUME s \in Range(FlattenSeq(ss))
        PROVE  \E a \in Range(aspects) \cap drift[p] : s = Statement("ALTER", a)
    <3>1. PICK i \in DOMAIN ss : s \in Range(ss[i])
      BY <1>9, <2>1
    <3> QED
      BY <1>1, <1>4, <1>5, <1>7, <3>1
  <2>2. ASSUME NEW a \in Range(aspects) \cap drift[p], s = Statement("ALTER", a)
        PROVE  s \in Range(FlattenSeq(ss))
    <3>1. PICK i \in DOMAIN aspects : aspects[i] = a
      BY DEF Range
    <3>2. s \in Range(ss[i])
      BY <1>4, <1>5, <1>7, <2>2, <3>1
    <3> QED
      BY <1>4, <1>9, <3>2
  <2> QED
    BY <2>1, <2>2
<1>11. Range(aspects) \subseteq Aspects
  BY DEF Range
<1>12. ASSUME NEW s \in Range(FlattenSeq(ss)) PROVE s \in Statements
  <2>1. PICK a \in Range(aspects) \cap drift[p] : s = Statement("ALTER", a)
    BY <1>10
  <2>2. a \in Aspects
    BY <1>11
  <2> QED
    BY <2>1, <2>2, StatementIs
<1>13. FlattenSeq(ss) \in Seq(Statements)
  BY <1>9, <1>12, SeqIn
<1> QED
  BY <1>6, <1>10, <1>13

\* At most one statement.
LEMMA IfHas ==
  ASSUME NEW x \in Statements, NEW c \in BOOLEAN
  PROVE  /\ (IF c THEN << x >> ELSE << >>) \in Seq(Statements)
         /\ \A s : s \in Range(IF c THEN << x >> ELSE << >>) <=> c /\ s = x
<1>1. CASE c
  BY <1>1, UnitIsSeq
<1>2. CASE ~c
  BY <1>2, EmptyIsSeq
<1> QED
  BY <1>1, <1>2

\* One reference of a row access policy: it is attached again after it has
\* been detached.
LEMMA ApplyRefHas ==
  ASSUME NEW p, NEW t \in Targets
  PROVE  /\ ApplyRef(p, t) \in Seq(Statements)
         /\ \A s : s \in Range(ApplyRef(p, t)) <=>
              \/ t \in StaleRefs(p) /\ s = Statement("DETACH", t)
              \/ t \in (claims[p] \ PolicyRefs(p)) \cup StaleRefs(p) /\ s = Statement("ATTACH", t)
         /\ \A u \in Targets :
              Follows(ApplyRef(p, t), {Statement("DETACH", u)}, {Statement("ATTACH", u)})
<1> DEFINE missing == t \in (claims[p] \ PolicyRefs(p)) \cup StaleRefs(p)
           stale   == t \in StaleRefs(p)
           a == IF stale THEN << Statement("DETACH", t) >> ELSE << >>
           b == IF missing THEN << Statement("ATTACH", t) >> ELSE << >>
<1>0. /\ Statement("DETACH", t) \in Statements /\ Statement("ATTACH", t) \in Statements
      /\ \A u \in Targets : Statement("DETACH", u) # Statement("ATTACH", t)
      /\ \A u \in Targets : Statement("DETACH", u) = Statement("DETACH", t) => u = t
  BY StatementIs DEF Statement
<1>1. a \in Seq(Statements) /\ \A s : s \in Range(a) <=> stale /\ s = Statement("DETACH", t)
  BY <1>0, IfHas
<1>2. b \in Seq(Statements) /\ \A s : s \in Range(b) <=> missing /\ s = Statement("ATTACH", t)
  BY <1>0, IfHas
<1>3. ApplyRef(p, t) = a \o b
  BY DEF ApplyRef
<1>4. stale => missing
  OBVIOUS
<1> HIDE DEF a, b, missing, stale
<1>5. IsSeq(a) /\ IsSeq(b)
  BY <1>1, <1>2, SeqWithin
<1>6. Range(a \o b) = Range(a) \cup Range(b)
  BY <1>5, JoinIsSeq
<1>7. a \o b \in Seq(Statements)
  BY <1>1, <1>2
<1>8. ASSUME NEW u \in Targets
      PROVE  Follows(a \o b, {Statement("DETACH", u)}, {Statement("ATTACH", u)})
  <2>1. Range(b) \cap {Statement("DETACH", u)} = {}
    BY <1>0, <1>2
  <2>2. Follows(b, {Statement("DETACH", u)}, {Statement("ATTACH", u)})
    BY <2>1, FollowsNone
  <2>3. CASE stale /\ u = t
    <3>1. Range(b) \cap {Statement("ATTACH", u)} # {}
      BY <1>2, <1>4, <2>3
    <3> QED
      BY <1>1, <1>2, <2>2, <3>1, FollowsJoin
  <2>4. CASE ~(stale /\ u = t)
    <3>1. Range(a) \cap {Statement("DETACH", u)} = {}
      BY <1>0, <1>1, <2>4
    <3>2. Follows(a, {Statement("DETACH", u)}, {Statement("ATTACH", u)})
      BY <3>1, FollowsNone
    <3> QED
      BY <1>1, <1>2, <2>2, <3>2, FollowsJoin
  <2> QED
    BY <2>3, <2>4
<1> QED
  BY <1>1, <1>2, <1>3, <1>6, <1>7, <1>8 DEF missing, stale

\* The references of a row access policy.
LEMMA AppliedRefsHave ==
  ASSUME NEW p, NEW order \in Orders, claims[p] \subseteq Targets
  PROVE  LET q == FlattenSeq([i \in DOMAIN order |-> ApplyRef(p, order[i])])
         IN  /\ q \in Seq(Statements)
             /\ \A s : s \in Range(q) <=>
                  \/ \E t \in StaleRefs(p) : s = Statement("DETACH", t)
                  \/ \E t \in (claims[p] \ PolicyRefs(p)) \cup StaleRefs(p) :
                       s = Statement("ATTACH", t)
             /\ \A u \in Targets : Follows(q, {Statement("DETACH", u)}, {Statement("ATTACH", u)})
<1> DEFINE ss == [i \in DOMAIN order |-> ApplyRef(p, order[i])]
           q  == FlattenSeq(ss)
<1>1. /\ order \in Seq(Targets) /\ \A t \in Targets : \E i \in DOMAIN order : order[i] = t
  BY PolicyAssumption
<1>2. /\ Len(order) \in Nat /\ DOMAIN order = 1..Len(order)
      /\ \A i \in DOMAIN order : order[i] \in Targets
  BY <1>1
<1>3. ss = [i \in 1..Len(order) |-> ss[i]]
  BY <1>2
<1>4. IsSeq(ss) /\ DOMAIN ss = DOMAIN order
  BY <1>2, <1>3, SeqIntro
<1>5. \A i \in DOMAIN ss : ss[i] = ApplyRef(p, order[i])
  BY <1>4
<1>6. (claims[p] \ PolicyRefs(p)) \cup StaleRefs(p) \subseteq Targets /\ StaleRefs(p) \subseteq Targets
  BY DEF StaleRefs
<1> HIDE DEF ss
<1>7. ASSUME NEW i \in DOMAIN ss
      PROVE  /\ ss[i] \in Seq(Statements) /\ IsSeq(ss[i])
             /\ \A s : s \in Range(ss[i]) <=>
                  \/ order[i] \in StaleRefs(p) /\ s = Statement("DETACH", order[i])
                  \/ /\ order[i] \in (claims[p] \ PolicyRefs(p)) \cup StaleRefs(p)
                     /\ s = Statement("ATTACH", order[i])
             /\ \A u \in Targets :
                  Follows(ss[i], {Statement("DETACH", u)}, {Statement("ATTACH", u)})
  <2>1. order[i] \in Targets /\ ss[i] = ApplyRef(p, order[i])
    BY <1>2, <1>4, <1>5
  <2>2. ss[i] \in Seq(Statements)
    BY <2>1, ApplyRefHas
  <2> QED
    BY <2>1, <2>2, ApplyRefHas, SeqWithin
<1>8. IsSeq(q) /\ \A x : x \in Range(q) <=> \E i \in DOMAIN ss : x \in Range(ss[i])
  BY <1>4, <1>7, FlattenIsSeq
<1>9. ASSUME NEW u \in Targets
      PROVE  q \in Seq(Statements)
               /\ Follows(q, {Statement("DETACH", u)}, {Statement("ATTACH", u)})
  <2> DEFINE A == {Statement("DETACH", u)}
             B == {Statement("ATTACH", u)}
             P == {x \in Seq(Statements) : Follows(x, A, B)}
  <2>1. << >> \in P
    BY DEF Follows
  <2>2. ASSUME NEW x \in P, NEW y \in P PROVE x \o y \in P
    <3>1. x \in Seq(Statements) /\ y \in Seq(Statements) /\ Follows(x, A, B) /\ Follows(y, A, B)
      OBVIOUS
    <3> HIDE DEF A, B
    <3>2. Follows(x \o y, A, B)
      BY <3>1, FollowsJoin
    <3>3. x \o y \in Seq(Statements)
      BY <3>1
    <3> QED
      BY <3>2, <3>3
  <2>3. \A i \in DOMAIN ss : ss[i] \in P
    BY <1>7
  <2> HIDE DEF P
  <2>4. q \in P
    BY <1>4, <2>1, <2>2, <2>3, FlattenIn
  <2> QED
    BY <2>4 DEF P
<1>10. q \in Seq(Statements)
  <2>1. ASSUME NEW x \in Range(q) PROVE x \in Statements
    <3>1. PICK i \in DOMAIN ss : x \in Range(ss[i])
      BY <1>8
    <3>2. Range(ss[i]) \subseteq Statements
      BY <1>7, SeqWithin
    <3> QED
      BY <3>1, <3>2
  <2> QED
    BY <1>8, <2>1, SeqIn
<1>11. ASSUME NEW s
       PROVE  s \in Range(q) <=>
                \/ \E t \in StaleRefs(p) : s = Statement("DETACH", t)
                \/ \E t \in (claims[p] \ PolicyRefs(p)) \cup StaleRefs(p) :
                     s = Statement("ATTACH", t)
  <2>1. ASSUME s \in Range(q)
        PROVE  \/ \E t \in StaleRefs(p) : s = Statement("DETACH", t)
               \/ \E t \in (claims[p] \ PolicyRefs(p)) \cup StaleRefs(p) :
                     s = Statement("ATTACH", t)
    <3>1. PICK i \in DOMAIN ss : s \in Range(ss[i])
      BY <1>8, <2>1
    <3> QED
      BY <1>7, <3>1
  <2>2. ASSUME NEW t \in Targets,
               \/ t \in StaleRefs(p) /\ s = Statement("DETACH", t)
               \/ t \in (claims[p] \ PolicyRefs(p)) \cup StaleRefs(p) /\ s = Statement("ATTACH", t)
        PROVE  s \in Range(q)
    <3>1. PICK i \in DOMAIN order : order[i] = t
      BY <1>1
    <3>2. s \in Range(ss[i])
      BY <1>4, <1>7, <2>2, <3>1
    <3> QED
      BY <1>4, <1>8, <3>2
  <2> QED
    BY <1>6, <2>1, <2>2
<1> QED
  BY <1>9, <1>10, <1>11 DEF ss

-----------------------------------------------------------------------------
(* Plans.                                                                  *)

\* What puts the references of a policy right, one way or the other.
IsRefs(p, r) ==
  /\ r \in Seq(Statements)
  /\ \A s \in Range(r) : \E t \in Targets :
       \/ t \in claims[p] /\ s = Statement("ATTACH", t)
       \/ s = Statement("DETACH", t)
  /\ \A t \in Targets : on[t] = p /\ t \notin claims[p] => Statement("DETACH", t) \in Range(r)
  /\ \A t \in claims[p] : InPlace(p, t) \/ Statement("ATTACH", t) \in Range(r)
  /\ \A t \in claims[p] : Follows(r, {Statement("DETACH", t)}, {Statement("ATTACH", t)})
  /\ (\A t \in Targets : on[t] = p => t \in claims[p]) =>
       /\ kind # "ROW_ACCESS" => Range(r) \subseteq Ops({"ATTACH"})
       /\ (\A t \in claims[p] : InPlace(p, t)) => Range(r) = {}

\* What puts the policy itself right.
IsAlters(p, q) ==
  /\ q \in Seq(Statements)
  /\ \A s \in Range(q) : s.op \in {"ALTER", "ALTER_SAFELY"}
  /\ \A a \in drift[p] : Range(q) \cap Repairs(a) # {}
  /\ drift[p] = {} => Range(q) = {}
  /\ kind = "AUTHENTICATION" =>
       /\ Follows(q, Resets, Repairs("hash"))
       /\ Range(q) \cap Repairs("hash") # {} => q # << >> /\ Head(q) \in Resets

\* And both.
IsGoodPlan(p, q) ==
  /\ q \in Seq(Statements)
  /\ \A s \in Range(q) : /\ s.op \in {"ATTACH", "DETACH"} => s.target \in Targets
                         /\ s.op = "ATTACH" => s.target \in claims[p]
                         /\ s.op = "CREATE" => s.target = None
  /\ p \in policies \/ Range(q) \cap Ops({"CREATE"}) # {}
  /\ \A a \in drift[p] : Range(q) \cap (Ops({"CREATE"}) \cup Repairs(a)) # {}
  /\ \A t \in Targets : on[t] = p /\ t \notin claims[p] => Statement("DETACH", t) \in Range(q)
  /\ \A t \in claims[p] : InPlace(p, t) \/ Statement("ATTACH", t) \in Range(q)
  /\ IsOrdered(p, q)
  /\ kind = "AUTHENTICATION" /\ Range(q) \cap Repairs("hash") # {} => Head(q) \in Resets
  /\ p \in policies /\ drift[p] = {} /\ (\A t \in Targets : on[t] = p => t \in claims[p]) =>
       /\ kind # "ROW_ACCESS" => Range(q) \subseteq Ops({"ATTACH"})
       /\ (\A t \in claims[p] : InPlace(p, t)) => Range(q) = {}

\* References are applied by attaching what is missing, after detaching it
\* where it is stale, and by detaching what is not claimed.
LEMMA RefsByContent ==
  ASSUME TypeOK, NEW p \in Names, NEW order \in Orders, NEW a \in Seq(Statements),
         NEW X \in SUBSET claims[p], NEW Y \in SUBSET X,
         \A s : s \in Range(a) <=> \/ \E t \in Y : s = Statement("DETACH", t)
                                   \/ \E t \in X : s = Statement("ATTACH", t),
         \A t \in claims[p] : t \in X <=> ~InPlace(p, t),
         Y # {} => kind = "ROW_ACCESS",
         \A u \in Targets : Follows(a, {Statement("DETACH", u)}, {Statement("ATTACH", u)})
  PROVE  IsRefs(p, a \o DetachOthers(p, order))
<1> DEFINE b == DetachOthers(p, order)
           r == a \o b
<1>0. claims[p] \in SUBSET Targets
  BY ConfigurationIs DEF TypeOK
<1>1. /\ b \in Seq(Statements)
      /\ \A s : s \in Range(b) <=>
                  \E t \in Targets : on[t] = p /\ t \notin claims[p] /\ s = Statement("DETACH", t)
  <2>1. PolicyRefs(p) \ claims[p] \in SUBSET Targets
    BY DEF PolicyRefs
  <2>2. b = Each("DETACH", order, PolicyRefs(p) \ claims[p])
    BY DEF DetachOthers
  <2> QED
    BY <2>1, <2>2, EachHas DEF PolicyRefs
<1>2. IsSeq(a) /\ IsSeq(b)
  BY <1>1, SeqWithin
<1>3. Range(r) = Range(a) \cup Range(b)
  BY <1>2, JoinIsSeq
<1>4. r \in Seq(Statements)
  BY <1>1
<1>5. \A t, u \in Targets : /\ Statement("DETACH", t) # Statement("ATTACH", u)
                            /\ Statement("DETACH", t) = Statement("DETACH", u) => t = u
                            /\ Statement("ATTACH", t) = Statement("ATTACH", u) => t = u
                            /\ Statement("ATTACH", t) \in Ops({"ATTACH"})
  BY StatementIs DEF Statement, Ops
<1> HIDE DEF b
<1>6. \A s \in Range(r) : \E t \in Targets :
       \/ t \in claims[p] /\ s = Statement("ATTACH", t)
       \/ s = Statement("DETACH", t)
  BY <1>0, <1>1, <1>3
<1>7. \A t \in Targets : on[t] = p /\ t \notin claims[p] => Statement("DETACH", t) \in Range(r)
  BY <1>1, <1>3
<1>8. \A t \in claims[p] : InPlace(p, t) \/ Statement("ATTACH", t) \in Range(r)
  BY <1>3
<1>9. ASSUME NEW t \in claims[p]
      PROVE  Follows(r, {Statement("DETACH", t)}, {Statement("ATTACH", t)})
  <2>1. Range(b) \cap {Statement("DETACH", t)} = {}
    BY <1>0, <1>1, <1>5
  <2>2. Follows(b, {Statement("DETACH", t)}, {Statement("ATTACH", t)})
    BY <2>1, FollowsNone
  <2>3. Follows(a, {Statement("DETACH", t)}, {Statement("ATTACH", t)})
    BY <1>0
  <2> QED
    BY <1>1, <2>2, <2>3, FollowsJoin
<1>10. ASSUME \A t \in Targets : on[t] = p => t \in claims[p]
       PROVE  /\ kind # "ROW_ACCESS" => Range(r) \subseteq Ops({"ATTACH"})
              /\ (\A t \in claims[p] : InPlace(p, t)) => Range(r) = {}
  <2>1. Range(b) = {}
    BY <1>1, <1>10
  <2>2. ASSUME kind # "ROW_ACCESS" PROVE Range(a) \subseteq Ops({"ATTACH"})
    BY <1>0, <1>5, <2>2
  <2>3. ASSUME \A t \in claims[p] : InPlace(p, t) PROVE Range(a) = {}
    BY <2>3
  <2> QED
    BY <1>3, <2>1, <2>2, <2>3
<1> QED
  BY <1>4, <1>6, <1>7, <1>8, <1>9, <1>10 DEF IsRefs, b

\* Of every kind but row access policies.
LEMMA RefsAre ==
  ASSUME TypeOK, NEW p \in Names, NEW order \in Orders, NEW X \in SUBSET claims[p],
         \A t \in claims[p] : t \in X <=> ~InPlace(p, t)
  PROVE  IsRefs(p, Each("ATTACH", order, X) \o DetachOthers(p, order))
<1> DEFINE a == Each("ATTACH", order, X)
<1>0. X \in SUBSET Targets
  BY ConfigurationIs DEF TypeOK
<1>1. a \in Seq(Statements) /\ \A s : s \in Range(a) <=> \E t \in X : s = Statement("ATTACH", t)
  BY <1>0, EachHas
<1> HIDE DEF a
<1>2. ASSUME NEW u \in Targets
      PROVE  Follows(a, {Statement("DETACH", u)}, {Statement("ATTACH", u)})
  <2>1. Range(a) \cap {Statement("DETACH", u)} = {}
    BY <1>0, <1>1 DEF Statement
  <2> QED
    BY <2>1, FollowsNone
<1> DEFINE Y == {}
<1>3. Y \in SUBSET X /\ \A s : s \in Range(a) <=> \/ \E t \in Y : s = Statement("DETACH", t)
                                                  \/ \E t \in X : s = Statement("ATTACH", t)
  BY <1>1
<1>4. Y = {}
  OBVIOUS
<1> HIDE DEF Y
<1>5. IsRefs(p, a \o DetachOthers(p, order))
  BY <1>1, <1>2, <1>3, <1>4, RefsByContent
<1> QED
  BY <1>5 DEF a

\* _apply_policy_refs puts the references right, for each kind.
LEMMA RefsOfKinds ==
  ASSUME TypeOK, NEW p \in Names, NEW order \in Orders
  PROVE  /\ kind = "AGGREGATION" => IsRefs(p, AggregationRefs(p, order))
         /\ kind = "JOIN" => IsRefs(p, JoinRefs(p, order))
         /\ kind = "PROJECTION" => IsRefs(p, ProjectionRefs(p, order))
         /\ kind = "AUTHENTICATION" => IsRefs(p, AuthenticationRefs(p, order))
         /\ kind = "NETWORK" => IsRefs(p, NetworkRefs(p, order))
         /\ kind = "ROW_ACCESS" => IsRefs(p, RowAccessRefs(p, order))
<1> DEFINE missing == claims[p] \ PolicyRefs(p)
           wrong   == missing \cup StaleRefs(p)
<1>0. claims[p] \in SUBSET Targets
  BY ConfigurationIs DEF TypeOK
<1>1. missing \in SUBSET claims[p] /\ wrong \in SUBSET claims[p] /\ StaleRefs(p) \in SUBSET wrong
  BY DEF StaleRefs
<1>2. kind \notin {"AGGREGATION", "JOIN", "ROW_ACCESS"} =>
        \A t \in claims[p] : t \in missing <=> ~InPlace(p, t)
  BY <1>0 DEF PolicyRefs, InPlace
<1>3. kind \in {"AGGREGATION", "JOIN", "ROW_ACCESS"} =>
        \A t \in claims[p] : t \in wrong <=> ~InPlace(p, t)
  BY <1>0 DEF PolicyRefs, StaleRefs, InPlace
<1>4. kind \in {"AGGREGATION", "JOIN"} =>
        IsRefs(p, Each("ATTACH", order, wrong) \o DetachOthers(p, order))
  BY <1>1, <1>3, RefsAre
<1>5. kind \in {"PROJECTION", "AUTHENTICATION", "NETWORK"} =>
        IsRefs(p, Each("ATTACH", order, missing) \o DetachOthers(p, order))
  BY <1>1, <1>2, RefsAre
<1>6. ASSUME kind = "ROW_ACCESS" PROVE IsRefs(p, RowAccessRefs(p, order))
  <2> DEFINE a == FlattenSeq([i \in DOMAIN order |-> ApplyRef(p, order[i])])
  <2>1. /\ a \in Seq(Statements)
        /\ \A s : s \in Range(a) <=> \/ \E t \in StaleRefs(p) : s = Statement("DETACH", t)
                                     \/ \E t \in wrong : s = Statement("ATTACH", t)
        /\ \A u \in Targets : Follows(a, {Statement("DETACH", u)}, {Statement("ATTACH", u)})
    BY <1>0, AppliedRefsHave
  <2>2. RowAccessRefs(p, order) = a \o DetachOthers(p, order)
    BY DEF RowAccessRefs
  <2>3. \A t \in claims[p] : t \in wrong <=> ~InPlace(p, t)
    BY <1>3, <1>6
  <2> HIDE DEF a, wrong
  <2>4. IsRefs(p, a \o DetachOthers(p, order))
    BY <1>1, <1>6, <2>1, <2>3, RefsByContent
  <2> QED
    BY <2>2, <2>4
<1> QED
  BY <1>4, <1>5, <1>6 DEF AggregationRefs, JoinRefs, ProjectionRefs, AuthenticationRefs, NetworkRefs

\* compare_object of the attributes, for all kinds but authentication policies.
LEMMA AltersAre ==
  ASSUME TypeOK, NEW p \in Names, kind # "AUTHENTICATION", "signature" \notin drift[p]
  PROVE  IsAlters(p, Alters(p, <<"body", "comment">>))
<1> DEFINE aspects == <<"body", "comment">>
           q == Alters(p, aspects)
<1>1. drift[p] \subseteq {"body", "comment"}
  BY DEF TypeOK, AspectsOf
<1>2. aspects \in Seq(Aspects) /\ Range(aspects) = {"body", "comment"}
  <2>1. DOMAIN aspects = {1, 2}
    OBVIOUS
  <2> QED
    BY <2>1 DEF Range, Aspects
<1>0. Range(aspects) \cap drift[p] = drift[p]
  BY <1>1, <1>2
<1> HIDE DEF aspects
<1>3. q \in Seq(Statements) /\ \A s : s \in Range(q) <=> \E a \in drift[p] : s = Statement("ALTER", a)
  BY <1>2, <1>0, AltersHave
<1> HIDE DEF q
<1>4. \A s \in Range(q) : s.op \in {"ALTER", "ALTER_SAFELY"}
  BY <1>3 DEF Statement
<1>5. ASSUME NEW a \in drift[p] PROVE Range(q) \cap Repairs(a) # {}
  <2>1. a \in Aspects
    BY <1>1 DEF Aspects
  <2>2. Statement("ALTER", a) \in Repairs(a)
    BY <2>1, StatementIs DEF Repairs
  <2> QED
    BY <1>3, <2>2
<1>6. drift[p] = {} => Range(q) = {}
  BY <1>3
<1> QED
  BY <1>3, <1>4, <1>5, <1>6 DEF IsAlters, q, aspects

\* An authentication policy is altered, and then its hash is set.
LEMMA AuthenticationAlters ==
  ASSUME TypeOK, HashIsHonest, NEW p \in Names, kind = "AUTHENTICATION"
  PROVE  IsAlters(p, AlterAuthenticationPolicy(p))
<1> DEFINE x == Statement("ALTER", "body")
           y == Statement("ALTER_SAFELY", "hash")
<1>1. drift[p] \subseteq {"body", "hash"} /\ ("body" \in drift[p] => "hash" \in drift[p])
  BY DEF TypeOK, AspectsOf, HashIsHonest
<1>2. /\ x \in Statements /\ x.op = "ALTER" /\ x.target = "body"
      /\ y \in Statements /\ y.op = "ALTER_SAFELY" /\ y.target = "hash"
  BY StatementIs DEF Aspects
<1>3. CASE "hash" \notin drift[p]
  <2>1. AlterAuthenticationPolicy(p) = << >> /\ drift[p] = {}
    BY <1>1, <1>3 DEF AlterAuthenticationPolicy
  <2>2. << >> \in Seq(Statements) /\ Range(<< >>) = {}
    BY EmptyIsSeq
  <2>3. Follows(<< >>, Resets, Repairs("hash"))
    BY <2>2, FollowsNone
  <2> QED
    BY <2>1, <2>2, <2>3 DEF IsAlters
<1>4. CASE "hash" \in drift[p]
  <2> DEFINE q == << x, y >>
  <2>1. AlterAuthenticationPolicy(p) = q
    BY <1>4 DEF AlterAuthenticationPolicy
  <2>2. q \in Seq(Statements) /\ DOMAIN q = {1, 2} /\ q[1] = x /\ q[2] = y /\ Head(q) = x /\ q # << >>
    BY <1>2
  <2> HIDE DEF q, x, y
  <2>3. Range(q) = {x, y}
    BY <2>2 DEF Range
  <2>4. x \in Repairs("body") /\ y \in Repairs("hash") /\ x \in Resets
    BY <1>2 DEF Repairs, Resets, x
  <2>5. y \notin Resets
    BY <1>2 DEF Resets, Repairs, Statement
  <2>6. Follows(q, Resets, Repairs("hash"))
    BY <2>2, <2>4, <2>5 DEF Follows
  <2>7. \A a \in drift[p] : Range(q) \cap Repairs(a) # {}
    BY <1>1, <2>3, <2>4
  <2>8. \A s \in Range(q) : s.op \in {"ALTER", "ALTER_SAFELY"}
    BY <1>2, <2>3
  <2> QED
    BY <1>4, <2>1, <2>2, <2>4, <2>6, <2>7, <2>8 DEF IsAlters
<1> QED
  BY <1>3, <1>4

\* Kinds of statements exclude each other.
LEMMA OpsAre ==
  ASSUME NEW s \in Statements
  PROVE  /\ \A ops : s \in Ops(ops) <=> s.op \in ops
         /\ \A a : s \in Repairs(a) => s.op \in {"ALTER", "ALTER_SAFELY"}
         /\ s \in Resets => s.op \in {"CREATE", "ALTER", "ALTER_SAFELY"}
         /\ \A t : s = Statement("DETACH", t) => s.op = "DETACH" /\ s.target = t
         /\ \A t : s = Statement("ATTACH", t) => s.op = "ATTACH" /\ s.target = t
  BY DEF Ops, Repairs, Resets, Statement

\* The references and the policy, in either order.
LEMMA BothAreGood ==
  ASSUME TypeOK, NEW p \in policies, NEW r, IsRefs(p, r), NEW q, IsAlters(p, q),
         NEW w, w = q \o r \/ (w = r \o q /\ kind # "AUTHENTICATION")
  PROVE  IsGoodPlan(p, w)
<1>1. r \in Seq(Statements) /\ q \in Seq(Statements)
  BY DEF IsRefs, IsAlters
<1>2. IsSeq(r) /\ IsSeq(q) /\ Range(r) \subseteq Statements /\ Range(q) \subseteq Statements
  <2>1. IsSeq(r) /\ Range(r) \subseteq Statements
    BY <1>1, SeqWithin
  <2>2. IsSeq(q) /\ Range(q) \subseteq Statements
    BY <1>1, SeqWithin
  <2> QED
    BY <2>1, <2>2
<1>3. w \in Seq(Statements)
  <2>1. q \o r \in Seq(Statements) /\ r \o q \in Seq(Statements)
    BY <1>1
  <2> QED
    BY <2>1
<1>4. Range(w) = Range(r) \cup Range(q)
  <2>1. Range(q \o r) = Range(r) \cup Range(q)
    BY <1>2, JoinIsSeq
  <2>2. Range(r \o q) = Range(r) \cup Range(q)
    BY <1>2, JoinIsSeq
  <2> QED
    BY <2>1, <2>2
<1>5. p \in Names
  BY DEF TypeOK
<1>6. claims[p] \in SUBSET Targets
  BY <1>5, ConfigurationIs DEF TypeOK
<1>7. \A s \in Range(q) : s.op \in {"ALTER", "ALTER_SAFELY"}
  BY DEF IsAlters
<1>8. \A s \in Range(r) : /\ s.op \in {"ATTACH", "DETACH"} /\ s.target \in Targets
                          /\ s.op = "ATTACH" => s.target \in claims[p]
  BY DEF IsRefs, Statement
<1>9. \A s \in Range(w) : /\ s.op \in {"ATTACH", "DETACH"} => s.target \in Targets
                          /\ s.op = "ATTACH" => s.target \in claims[p]
                          /\ s.op = "CREATE" => s.target = None
  BY <1>4, <1>7, <1>8
<1>10. \A a \in drift[p] : Range(w) \cap (Ops({"CREATE"}) \cup Repairs(a)) # {}
  BY <1>4 DEF IsAlters
<1>11. \A t \in Targets : on[t] = p /\ t \notin claims[p] => Statement("DETACH", t) \in Range(w)
  BY <1>4 DEF IsRefs
<1>12. \A t \in claims[p] : InPlace(p, t) \/ Statement("ATTACH", t) \in Range(w)
  BY <1>4 DEF IsRefs
<1>13. ASSUME NEW A, NEW B, Follows(r, A, B), Follows(q, A, B) PROVE Follows(w, A, B)
  BY <1>1, <1>13, FollowsJoin
<1>14. Follows(w, Ops({"DROP"}), Ops({"CREATE"}))
  <2>1. Range(w) \cap Ops({"DROP"}) = {}
    BY <1>4, <1>7, <1>8 DEF Ops
  <2> QED
    BY <2>1, FollowsNone
<1>15. ASSUME NEW t \in claims[p]
       PROVE  Follows(w, {Statement("DETACH", t)}, {Statement("ATTACH", t)})
  <2>1. Range(q) \cap {Statement("DETACH", t)} = {}
    BY <1>7 DEF Statement
  <2>2. Follows(q, {Statement("DETACH", t)}, {Statement("ATTACH", t)})
    BY <2>1, FollowsNone
  <2>3. Follows(r, {Statement("DETACH", t)}, {Statement("ATTACH", t)})
    BY DEF IsRefs
  <2> QED
    BY <1>13, <2>2, <2>3
<1>16. Range(r) \cap Resets = {} /\ Range(r) \cap Repairs("hash") = {}
  BY <1>2, <1>8, OpsAre
<1>17. ASSUME kind = "AUTHENTICATION" PROVE Follows(w, Resets, Repairs("hash"))
  <2>1. Follows(r, Resets, Repairs("hash"))
    BY <1>16, FollowsNone
  <2>2. Follows(q, Resets, Repairs("hash"))
    BY <1>17 DEF IsAlters
  <2> QED
    BY <1>13, <2>1, <2>2
<1>18. ASSUME kind = "AUTHENTICATION", Range(w) \cap Repairs("hash") # {}
       PROVE  Head(w) \in Resets
  <2>1. Range(q) \cap Repairs("hash") # {}
    BY <1>4, <1>16, <1>18
  <2>2. q # << >> /\ Head(q) \in Resets /\ w = q \o r
    BY <1>18, <2>1 DEF IsAlters
  <2>3. Head(q \o r) = Head(q)
    BY <1>1, <2>2
  <2> QED
    BY <2>2, <2>3
<1>19. ASSUME drift[p] = {}, \A t \in Targets : on[t] = p => t \in claims[p]
       PROVE  /\ kind # "ROW_ACCESS" => Range(w) \subseteq Ops({"ATTACH"})
              /\ (\A t \in claims[p] : InPlace(p, t)) => Range(w) = {}
  BY <1>4, <1>19 DEF IsRefs, IsAlters
<1>20. IsOrdered(p, w)
  BY <1>14, <1>15, <1>17 DEF IsOrdered
<1> QED
  BY <1>3, <1>9, <1>10, <1>11, <1>12, <1>18, <1>19, <1>20 DEF IsGoodPlan

\* One sequence of statements after another.
LEMMA JoinHas ==
  ASSUME NEW q \in Seq(Statements), NEW r \in Seq(Statements)
  PROVE  q \o r \in Seq(Statements) /\ Range(q \o r) = Range(q) \cup Range(r)
<1>1. IsSeq(q)
  BY SeqWithin
<1>2. IsSeq(r)
  BY SeqWithin
<1> QED
  BY <1>1, <1>2, JoinIsSeq

\* _drop_policy_refs and _drop_policy.
LEMMA DropPlanHas ==
  ASSUME NEW p, NEW order \in Orders
  PROVE  /\ DropPlan(p, order) \in Seq(Statements)
         /\ \A s : s \in Range(DropPlan(p, order)) <=>
              \/ \E t \in Targets : on[t] = p /\ s = Statement("DETACH", t)
              \/ s = Statement("DROP", None)
<1> DEFINE q == Each("DETACH", order, PolicyRefs(p))
           x == Statement("DROP", None)
<1>1. /\ q \in Seq(Statements)
      /\ \A s : s \in Range(q) <=> \E t \in Targets : on[t] = p /\ s = Statement("DETACH", t)
  <2>1. PolicyRefs(p) \in SUBSET Targets
    BY DEF PolicyRefs
  <2> QED
    BY <2>1, EachHas DEF PolicyRefs
<1>2. x \in Statements
  BY StatementIs
<1> HIDE DEF q, x
<1>3. << x >> \in Seq(Statements) /\ Range(<< x >>) = {x}
  BY <1>2, UnitIsSeq
<1>4. DropPlan(p, order) = q \o << x >>
  BY DEF DropPlan, q, x
<1>5. q \o << x >> \in Seq(Statements) /\ Range(q \o << x >>) = Range(q) \cup Range(<< x >>)
  BY <1>1, <1>3, JoinHas
<1> QED
  BY <1>1, <1>3, <1>4, <1>5 DEF x

\* What create_object does after the statements that create the policy.
LEMMA CreationHas ==
  ASSUME TypeOK, NEW p \in Names, NEW order \in Orders, NEW c \in Seq(Statements)
  PROVE  LET q == c \o Each("ATTACH", order, claims[p])
         IN  /\ Each("ATTACH", order, claims[p]) \in Seq(Statements)
             /\ q \in Seq(Statements)
             /\ \A s : s \in Range(q) <=>
                  s \in Range(c) \/ \E t \in claims[p] : s = Statement("ATTACH", t)
             /\ \A A, B : Follows(c, A, B) /\ (\A t \in claims[p] : Statement("ATTACH", t) \notin A)
                            => Follows(q, A, B)
<1> DEFINE a == Each("ATTACH", order, claims[p])
<1>1. a \in Seq(Statements) /\ \A s : s \in Range(a) <=> \E t \in claims[p] : s = Statement("ATTACH", t)
  <2>1. claims[p] \in SUBSET Targets
    BY ConfigurationIs DEF TypeOK
  <2> QED
    BY <2>1, EachHas
<1> HIDE DEF a
<1>2. c \o a \in Seq(Statements) /\ Range(c \o a) = Range(c) \cup Range(a)
  BY <1>1, JoinHas
<1>3. ASSUME NEW A, NEW B, Follows(c, A, B), \A t \in claims[p] : Statement("ATTACH", t) \notin A
      PROVE  Follows(c \o a, A, B)
  <2>1. Range(a) \cap A = {}
    BY <1>1, <1>3
  <2>2. Follows(a, A, B)
    BY <2>1, FollowsNone
  <2> QED
    BY <1>1, <1>3, <2>2, FollowsJoin
<1> QED
  BY <1>1, <1>2, <1>3 DEF a

\* A policy that does not exist is created, and attached to all it claims.
LEMMA CreationIsGood ==
  ASSUME TypeOK, Bookkeeping, NEW p \in Names \ policies, NEW order \in Orders,
         NEW c \in Seq(Statements),
         \A s \in Range(c) : s.op = "ALTER" \/ s = Statement("CREATE", None),
         Range(c) \cap Ops({"CREATE"}) # {},
         kind = "AUTHENTICATION" => Follows(c, Resets, Repairs("hash")) /\ c # << >> /\ Head(c) \in Resets
  PROVE  IsGoodPlan(p, c \o Each("ATTACH", order, claims[p]))
<1> DEFINE a == Each("ATTACH", order, claims[p])
           q == c \o a
<1>0. claims[p] \in SUBSET Targets
  BY ConfigurationIs DEF TypeOK
<1>1. /\ a \in Seq(Statements) /\ q \in Seq(Statements)
      /\ \A s : s \in Range(q) <=>
           s \in Range(c) \/ \E t \in claims[p] : s = Statement("ATTACH", t)
      /\ \A A, B : Follows(c, A, B) /\ (\A t \in claims[p] : Statement("ATTACH", t) \notin A)
                     => Follows(q, A, B)
  BY CreationHas
<1>2. \A t \in claims[p] : /\ Statement("ATTACH", t) \in Statements
                           /\ Statement("ATTACH", t).op = "ATTACH"
                           /\ Statement("ATTACH", t).target = t
  BY <1>0, StatementIs
<1>3. Head(q) = Head(c) \/ c = << >>
  BY <1>1
<1>13. \A s \in Range(c) : s.op \in {"CREATE", "ALTER"} /\ (s.op = "CREATE" => s.target = None)
  BY DEF Statement
<1> HIDE DEF q, a
<1>4. \A s \in Range(q) : /\ s.op \in {"ATTACH", "DETACH"} => s.target \in Targets
                          /\ s.op = "ATTACH" => s.target \in claims[p]
                          /\ s.op = "CREATE" => s.target = None
  BY <1>0, <1>1, <1>2, <1>13
<1>5. Range(q) \cap Ops({"CREATE"}) # {}
  BY <1>1
<1>6. \A t \in Targets : on[t] # p
  BY PolicyAssumption DEF Bookkeeping
<1>7. \A t \in claims[p] : Statement("ATTACH", t) \in Range(q)
  BY <1>1
<1>8. Follows(q, Ops({"DROP"}), Ops({"CREATE"}))
  <2>1. Range(c) \cap Ops({"DROP"}) = {}
    BY <1>13 DEF Ops
  <2>2. Follows(c, Ops({"DROP"}), Ops({"CREATE"}))
    BY <2>1, FollowsNone
  <2>3. \A t \in claims[p] : Statement("ATTACH", t) \notin Ops({"DROP"})
    BY <1>2 DEF Ops
  <2> QED
    BY <1>1, <2>2, <2>3
<1>9. ASSUME NEW u \in claims[p]
      PROVE  Follows(q, {Statement("DETACH", u)}, {Statement("ATTACH", u)})
  <2>1. Range(c) \cap {Statement("DETACH", u)} = {}
    BY <1>13 DEF Statement
  <2>2. Follows(c, {Statement("DETACH", u)}, {Statement("ATTACH", u)})
    BY <2>1, FollowsNone
  <2>3. \A t \in claims[p] : Statement("ATTACH", t) \notin {Statement("DETACH", u)}
    BY DEF Statement
  <2> QED
    BY <1>1, <2>2, <2>3
<1>10. kind = "AUTHENTICATION" => Follows(q, Resets, Repairs("hash")) /\ Head(q) \in Resets
  <2>1. \A t \in claims[p] : Statement("ATTACH", t) \notin Resets
    BY <1>2, OpsAre
  <2> QED
    BY <1>1, <1>3, <2>1
<1>11. IsOrdered(p, q)
  BY <1>8, <1>9, <1>10 DEF IsOrdered
<1>12. IsGoodPlan(p, q)
  BY <1>1, <1>4, <1>5, <1>6, <1>7, <1>10, <1>11 DEF IsGoodPlan
<1> QED
  BY <1>12 DEF q, a

\* A row access policy whose arguments differ is dropped and created.
LEMMA ReplacementIsGood ==
  ASSUME TypeOK, NEW p \in policies, NEW order \in Orders,
         kind = "ROW_ACCESS", "signature" \in drift[p]
  PROVE  IsGoodPlan(p, DropPlan(p, order) \o CreatePlan(p, order))
<1> DEFINE d == DropPlan(p, order)
           x == Statement("CREATE", None)
           c == CreatePlan(p, order)
           q == d \o c
<1>0. p \in Names /\ claims[p] \in SUBSET Targets
  BY ConfigurationIs DEF TypeOK
<1>1. /\ d \in Seq(Statements)
      /\ \A s : s \in Range(d) <=> \/ \E t \in Targets : on[t] = p /\ s = Statement("DETACH", t)
                                   \/ s = Statement("DROP", None)
  BY DropPlanHas
<1>2. x \in Statements /\ x \in Ops({"CREATE"}) /\ x.op = "CREATE" /\ x.target = None
  BY StatementIs DEF Ops
<1>3. << x >> \in Seq(Statements) /\ Range(<< x >>) = {x}
  BY <1>2, UnitIsSeq
<1>4. /\ c \in Seq(Statements)
      /\ \A s : s \in Range(c) <=> s = x \/ \E t \in claims[p] : s = Statement("ATTACH", t)
  <2>1. c = << x >> \o Each("ATTACH", order, claims[p])
    BY DEF CreatePlan
  <2> DEFINE k == << x >>
             e == Each("ATTACH", order, claims[p])
  <2>2. k \in Seq(Statements) /\ Range(k) = {x}
    BY <1>3
  <2> HIDE DEF k
  <2>3. /\ k \o e \in Seq(Statements)
        /\ \A s : s \in Range(k \o e) <=>
             s \in Range(k) \/ \E t \in claims[p] : s = Statement("ATTACH", t)
    BY <1>0, <2>2, CreationHas
  <2>4. c = k \o e
    BY <2>1 DEF k
  <2> HIDE DEF c, x, e
  <2> QED
    BY <2>2, <2>3, <2>4
<1> HIDE DEF d, c, x
<1>5. q \in Seq(Statements) /\ Range(q) = Range(d) \cup Range(c)
  BY <1>1, <1>4, JoinHas
<1>6. \A t \in Targets : /\ Statement("ATTACH", t).op = "ATTACH" /\ Statement("ATTACH", t).target = t
                         /\ Statement("DETACH", t).op = "DETACH" /\ Statement("DETACH", t).target = t
                         /\ Statement("DROP", None).op = "DROP"
  BY DEF Statement
<1>7. \A s \in Range(q) : /\ s.op \in {"ATTACH", "DETACH"} => s.target \in Targets
                          /\ s.op = "ATTACH" => s.target \in claims[p]
                          /\ s.op = "CREATE" => s.target = None
  <2>1. \A s \in Range(d) : /\ s.op \in {"ATTACH", "DETACH"} => s.target \in Targets
                            /\ s.op \notin {"ATTACH", "CREATE"}
    BY <1>1 DEF Statement
  <2>2. \A s \in Range(c) : /\ s.op \in {"ATTACH", "DETACH"} => s.target \in Targets
                            /\ s.op = "ATTACH" => s.target \in claims[p]
                            /\ s.op = "CREATE" => s.target = None
    BY <1>0, <1>2, <1>4, <1>6
  <2> QED
    BY <1>5, <2>1, <2>2
<1>8. Range(c) \cap Ops({"CREATE"}) # {}
  BY <1>2, <1>4
<1>9. Range(q) \cap Ops({"CREATE"}) # {}
  BY <1>5, <1>8
<1>10. \A t \in Targets : on[t] = p => Statement("DETACH", t) \in Range(q)
  BY <1>1, <1>5
<1>11. \A t \in claims[p] : Statement("ATTACH", t) \in Range(q)
  BY <1>4, <1>5
<1>12. Follows(q, Ops({"DROP"}), Ops({"CREATE"}))
  <2>1. Range(c) \cap Ops({"DROP"}) = {}
    BY <1>0, <1>2, <1>4, <1>6 DEF Ops
  <2>2. Follows(c, Ops({"DROP"}), Ops({"CREATE"}))
    BY <2>1, FollowsNone
  <2> QED
    BY <1>1, <1>4, <1>8, <2>2, FollowsJoin
<1>13. ASSUME NEW u \in claims[p]
       PROVE  Follows(q, {Statement("DETACH", u)}, {Statement("ATTACH", u)})
  <2>1. Range(c) \cap {Statement("DETACH", u)} = {}
    BY <1>0, <1>2, <1>4, <1>6
  <2>2. Follows(c, {Statement("DETACH", u)}, {Statement("ATTACH", u)})
    BY <2>1, FollowsNone
  <2>3. Range(c) \cap {Statement("ATTACH", u)} # {}
    BY <1>4
  <2> QED
    BY <1>1, <1>4, <2>2, <2>3, FollowsJoin
<1>14. IsOrdered(p, q)
  BY <1>12, <1>13 DEF IsOrdered
<1>15. IsGoodPlan(p, q)
  BY <1>5, <1>7, <1>9, <1>10, <1>11, <1>14 DEF IsGoodPlan
<1> QED
  BY <1>15 DEF q, d, c

\* compare_object of each kind.
LEMMA ComparisonIsGood ==
  ASSUME TypeOK, HashIsHonest, NEW p \in policies, NEW order \in Orders
  PROVE  IsGoodPlan(p, PolicyOf(p, order).compare)
<1> DEFINE al == Alters(p, <<"body", "comment">>)
<1>1. p \in Names /\ kind \in Kinds
  BY ConfigurationIs DEF TypeOK
<1>2. kind # "ROW_ACCESS" => "signature" \notin drift[p]
  BY <1>1 DEF TypeOK, AspectsOf
<1>3. kind # "AUTHENTICATION" /\ "signature" \notin drift[p] => IsAlters(p, al)
  BY <1>1, AltersAre
<1>4. CASE kind = "AGGREGATION"
  <2>1. PolicyOf(p, order).compare = AggregationRefs(p, order) \o al
    BY <1>4 DEF PolicyOf, AggregationPolicy
  <2>2. IsRefs(p, AggregationRefs(p, order)) /\ IsAlters(p, al)
    BY <1>1, <1>2, <1>3, <1>4, RefsOfKinds
  <2> QED
    BY <1>4, <2>1, <2>2, BothAreGood
<1>5. CASE kind = "JOIN"
  <2>1. PolicyOf(p, order).compare = JoinRefs(p, order) \o al
    BY <1>5 DEF PolicyOf, JoinPolicy
  <2>2. IsRefs(p, JoinRefs(p, order)) /\ IsAlters(p, al)
    BY <1>1, <1>2, <1>3, <1>5, RefsOfKinds
  <2> QED
    BY <1>5, <2>1, <2>2, BothAreGood
<1>6. CASE kind = "PROJECTION"
  <2>1. PolicyOf(p, order).compare = ProjectionRefs(p, order) \o al
    BY <1>6 DEF PolicyOf, ProjectionPolicy
  <2>2. IsRefs(p, ProjectionRefs(p, order)) /\ IsAlters(p, al)
    BY <1>1, <1>2, <1>3, <1>6, RefsOfKinds
  <2> QED
    BY <1>6, <2>1, <2>2, BothAreGood
<1>7. CASE kind = "ROW_ACCESS" /\ "signature" \in drift[p]
  <2>1. PolicyOf(p, order).compare = DropPlan(p, order) \o CreatePlan(p, order)
    BY <1>7 DEF PolicyOf, RowAccessPolicy
  <2> QED
    BY <1>7, <2>1, ReplacementIsGood
<1>8. CASE kind = "ROW_ACCESS" /\ "signature" \notin drift[p]
  <2>1. PolicyOf(p, order).compare = RowAccessRefs(p, order) \o al
    BY <1>8 DEF PolicyOf, RowAccessPolicy
  <2>2. IsRefs(p, RowAccessRefs(p, order)) /\ IsAlters(p, al)
    BY <1>1, <1>3, <1>8, RefsOfKinds
  <2> QED
    BY <1>8, <2>1, <2>2, BothAreGood
<1>9. CASE kind = "AUTHENTICATION"
  <2>1. PolicyOf(p, order).compare = AlterAuthenticationPolicy(p) \o AuthenticationRefs(p, order)
    BY <1>9 DEF PolicyOf, AuthenticationPolicy
  <2>2. IsRefs(p, AuthenticationRefs(p, order))
    BY <1>1, <1>9, RefsOfKinds
  <2>3. IsAlters(p, AlterAuthenticationPolicy(p))
    BY <1>1, <1>9, AuthenticationAlters
  <2> QED
    BY <2>1, <2>2, <2>3, BothAreGood
<1>10. CASE kind = "NETWORK"
  <2>1. PolicyOf(p, order).compare = al \o NetworkRefs(p, order)
    BY <1>10 DEF PolicyOf, NetworkPolicy, AlterNetworkPolicy
  <2>2. IsRefs(p, NetworkRefs(p, order)) /\ IsAlters(p, al)
    BY <1>1, <1>2, <1>3, <1>10, RefsOfKinds
  <2> QED
    BY <2>1, <2>2, BothAreGood
<1> QED
  BY <1>1, <1>4, <1>5, <1>6, <1>7, <1>8, <1>9, <1>10 DEF Kinds

\* create_object of each kind.
LEMMA CreateIsGood ==
  ASSUME TypeOK, Bookkeeping, NEW p \in Names \ policies, NEW order \in Orders
  PROVE  IsGoodPlan(p, PolicyOf(p, order).create)
<1> DEFINE x == Statement("CREATE", None)
           y == Statement("ALTER", "hash")
<1>1. kind \in Kinds
  BY ConfigurationIs DEF TypeOK
<1>2. /\ x \in Statements /\ x.op = "CREATE" /\ x \in Ops({"CREATE"}) /\ x \in Resets
      /\ y \in Statements /\ y.op = "ALTER" /\ y \in Repairs("hash") /\ y \notin Resets
  BY StatementIs DEF Aspects, Ops, Resets, Repairs, Statement
<1>3. CASE kind # "AUTHENTICATION"
  <2> DEFINE c == << x >>
  <2>1. c \in Seq(Statements) /\ Range(c) = {x}
    BY <1>2, UnitIsSeq
  <2>2. PolicyOf(p, order).create = c \o Each("ATTACH", order, claims[p])
    BY <1>1, <1>3 DEF PolicyOf, Kinds, AggregationPolicy, JoinPolicy, ProjectionPolicy,
                      RowAccessPolicy, NetworkPolicy, CreatePlan
  <2>3. Range(c) \cap Ops({"CREATE"}) # {}
    BY <1>2, <2>1
  <2> HIDE DEF c
  <2>4. \A s \in Range(c) : s = Statement("CREATE", None)
    BY <2>1
  <2> HIDE DEF x
  <2> QED
    BY <1>3, <2>1, <2>2, <2>3, <2>4, CreationIsGood
<1>4. CASE kind = "AUTHENTICATION"
  <2> DEFINE c == << x, y >>
  <2>1. PolicyOf(p, order).create = c \o Each("ATTACH", order, claims[p])
    BY <1>4 DEF PolicyOf, AuthenticationPolicy
  <2>2. c \in Seq(Statements) /\ DOMAIN c = {1, 2} /\ c[1] = x /\ c[2] = y /\ Head(c) = x /\ c # << >>
    BY <1>2
  <2> HIDE DEF c, x, y
  <2>3. Range(c) = {x, y}
    BY <2>2 DEF Range
  <2>4. Follows(c, Resets, Repairs("hash"))
    BY <1>2, <2>2 DEF Follows
  <2>5. Range(c) \cap Ops({"CREATE"}) # {}
          /\ \A s \in Range(c) : s.op = "ALTER" \/ s = Statement("CREATE", None)
    BY <1>2, <2>3 DEF x
  <2> QED
    BY <1>2, <2>1, <2>2, <2>4, <2>5, CreationIsGood
<1> QED
  BY <1>3, <1>4

\* What a worker that starts is going to do.
LEMMA PlanIsGood ==
  ASSUME TypeOK, Bookkeeping, HashIsHonest, NEW p \in Names, NEW order \in Orders,
         pc = "create", task[p].stage = "queued"
  PROVE  IsGoodPlan(p, Plan(p, order))
<1>1. p \in existing <=> p \in policies
  BY DEF Bookkeeping
<1>2. CASE p \in existing
  <2>1. Plan(p, order) = PolicyOf(p, order).compare
    BY <1>2 DEF Plan
  <2> QED
    BY <1>1, <1>2, <2>1, ComparisonIsGood
<1>3. CASE p \notin existing
  <2>1. Plan(p, order) = PolicyOf(p, order).create
    BY <1>3 DEF Plan
  <2> QED
    BY <1>1, <1>3, <2>1, CreateIsGood
<1> QED
  BY <1>2, <1>3

\* A worker of the drop phase takes its policy from its targets and drops it.
LEMMA PlanDrops ==
  ASSUME TypeOK, NEW p \in Names, NEW order \in Orders, pc = "drop"
  PROVE  Plan(p, order) = DropPlan(p, order)
<1>1. kind \in Kinds
  BY ConfigurationIs DEF TypeOK
<1>2. Plan(p, order) = PolicyOf(p, order).drop
  BY DEF Plan
<1>3. PolicyOf(p, order).drop = DropPlan(p, order)
  BY <1>1 DEF PolicyOf, Kinds, AggregationPolicy, JoinPolicy, ProjectionPolicy,
              RowAccessPolicy, AuthenticationPolicy, NetworkPolicy
<1> QED
  BY <1>2, <1>3

-----------------------------------------------------------------------------
(* Steps, in general.                                                      *)

\* What the configuration says stays.
LEMMA SameSetup ==
  ASSUME UNCHANGED setup
  PROVE  /\ kind' = kind /\ declared' = declared /\ claims' = claims
         /\ SetupIsKnown => SetupIsKnown'
         /\ \A p, q : IsOrdered(p, q) => IsOrdered(p, q)'
<1>1. kind' = kind /\ declared' = declared /\ claims' = claims
  BY DEF kind, declared, claims
<1>2. SetupIsKnown => SetupIsKnown'
  BY DEF SetupIsKnown
<1>3. \A p, q : IsOrdered(p, q) => IsOrdered(p, q)'
  BY <1>1 DEF IsOrdered
<1> QED
  BY <1>1, <1>2, <1>3

\* While the apply goes on, nothing changes of the applies before.
LEMMA SameApplies ==
  ASSUME UNCHANGED <<setup, apply, ok>>
  PROVE  /\ \A i : Succeeded(i)' <=> Succeeded(i)
         /\ HasSucceeded' <=> HasSucceeded
         /\ HasSettled' <=> HasSettled
         /\ IsSteady' <=> IsSteady
         /\ Settings' = Settings
<1>1. kind' = kind /\ declared' = declared
  BY SameSetup
<1>2. \A i : Succeeded(i)' <=> Succeeded(i)
  BY DEF Succeeded
<1>3. /\ Succeeded(apply - 1)' <=> Succeeded(apply - 1)
      /\ Succeeded(apply - 2)' <=> Succeeded(apply - 2)
  BY DEF Succeeded
<1>4. HasSucceeded' <=> HasSucceeded
  BY <1>1, <1>3 DEF HasSucceeded
<1>5. HasSettled' <=> HasSettled
  BY <1>1, <1>3, <1>4 DEF HasSettled
<1>6. IsSteady' <=> IsSteady
  BY <1>1, <1>3 DEF IsSteady
<1> QED
  BY <1>2, <1>4, <1>5, <1>6 DEF Settings

\* When it ends, the one that ended is the last one.
LEMMA NextApply ==
  ASSUME TypeOK, UNCHANGED setup, NEW b \in BOOLEAN, ok' = Append(ok, b), apply' = apply + 1
  PROVE  /\ ok' \in Seq(BOOLEAN) /\ Len(ok') = apply' - 1 /\ apply' \in Nat \ {0}
         /\ Succeeded(apply - 1)' => b /\ setup.applies[apply] = Switches
         /\ apply' > 2 => /\ apply > 1
                          /\ Succeeded(apply - 2)' <=> Succeeded(apply - 1)
<1>1. ok \in Seq(BOOLEAN) /\ Len(ok) = apply - 1 /\ apply \in Nat \ {0}
  BY DEF TypeOK
<1>2. /\ ok' \in Seq(BOOLEAN) /\ Len(ok') = apply /\ DOMAIN ok' = 1..apply /\ ok'[apply] = b
      /\ \A i \in 1..(apply - 1) : ok'[i] = ok[i]
  BY <1>1
<1>3. DOMAIN ok = 1..(apply - 1)
  BY <1>1
<1>4. apply' - 1 = apply /\ apply' - 2 = apply - 1 /\ apply' \in Nat \ {0}
  BY <1>1
<1>5. Succeeded(apply - 1)' => b /\ setup.applies[apply] = Switches
  BY <1>2, <1>4 DEF Succeeded
<1>6. ASSUME apply' > 2
      PROVE  apply > 1 /\ (Succeeded(apply - 2)' <=> Succeeded(apply - 1))
  <2>1. apply > 1 /\ apply - 1 \in 1..(apply - 1) /\ apply - 1 \in 1..apply
    BY <1>1, <1>6
  <2>2. ok'[apply - 1] = ok[apply - 1]
    BY <1>2, <2>1
  <2> QED
    BY <1>2, <1>3, <1>4, <2>1, <2>2 DEF Succeeded
<1> QED
  BY <1>2, <1>4, <1>5, <1>6

\* An apply that may do everything suggests nothing, and the statements that
\* reset a hash need no switch for the account.
LEMMA EverythingIsAllowed ==
  ASSUME NEW s
  PROVE  /\ Settings = Switches => IsAllowed(s)
         /\ "policy" \in Settings /\ "unsafe" \in Settings /\ s \in Resets => IsAllowed(s)
<1>1. Settings = Switches => IsAllowed(s)
  BY DEF IsAllowed, Switches
<1>2. s \in Resets => s.target # Account
  BY PolicyAssumption DEF Resets, Repairs, Statement, Aspects
<1> QED
  BY <1>1, <1>2 DEF IsAllowed

-----------------------------------------------------------------------------
(* A worker that changes nothing in the account.                           *)

\* Its plan stays, or gets shorter in an apply that is not clean.
LEMMA QuietStep ==
  ASSUME PolicyInv, NEW p \in Names, NEW t \in [stage : Stages, plan : Seq(Statements)],
         UNCHANGED <<setup, account, apply, pc, existing, ok>>, faults' \in Nat,
         task' = [task EXCEPT ![p] = t],
         task[p].stage = "running", t.stage \in {"running", "none", "failed"},
         t.stage # "running" => t.plan = << >>,
         Range(t.plan) \subseteq Ahead(p),
         pc = "create" => IsOrdered(p, t.plan),
         kind = "AUTHENTICATION" /\ "body" \in drift[p] /\ "policy" \in Settings
           /\ Range(t.plan) \cap Repairs("hash") # {} => Head(t.plan) \in Resets,
         IsClean' => IsClean /\ t.plan = task[p].plan
  PROVE  PolicyInv'
<1> USE DEF PolicyInv
<1>1. /\ kind' = kind /\ declared' = declared /\ claims' = claims /\ SetupIsKnown'
      /\ \A r, q : IsOrdered(r, q) => IsOrdered(r, q)'
  BY SameSetup DEF TypeOK
<1>2. /\ HasSucceeded' <=> HasSucceeded
      /\ HasSettled' <=> HasSettled
      /\ IsSteady' <=> IsSteady
      /\ Settings' = Settings
  BY SameApplies
<1>3. policies' = policies /\ on' = on /\ off' = off /\ drift' = drift
  BY DEF account
<1>4. task \in [Names -> [stage : Stages, plan : Seq(Statements)]]
  BY DEF TypeOK
<1>5. /\ task' \in [Names -> [stage : Stages, plan : Seq(Statements)]]
      /\ task'[p] = t /\ \A q \in Names : q # p => task'[q] = task[q]
  BY <1>4
<1>6. \A q \in Names : Ahead(q)' \subseteq Ahead(q)
  BY <1>5 DEF Ahead
<1>7. TypeOK'
  BY <1>1, <1>3, <1>5 DEF TypeOK
<1>8. Bookkeeping'
  BY <1>1, <1>3, <1>5 DEF Bookkeeping, Idling, Over
<1>9. PlansAreSound'
  <2>1. \A q \in Names : pc' = "create" => IsOrdered(q, task'[q].plan)
    BY <1>5 DEF PlansAreSound
  <2>2. \A q \in Names : pc' = "create" => IsOrdered(q, task[q].plan)'
    BY <1>1, <2>1
  <2> QED
    BY <1>1, <1>6, <2>2 DEF PlansAreSound
<1>10. HashIsHonest'
  <2> SUFFICES ASSUME kind = "AUTHENTICATION", NEW q \in Names, "body" \in drift[q]
               PROVE  /\ "hash" \in drift[q]
                      /\ \A i \in DOMAIN setup.applies :
                           "unsafe" \in setup.applies[i] \/ "policy" \notin setup.applies[i]
                      /\ pc # "start" /\ "policy" \in Settings
                           /\ Range(task'[q].plan) \cap Repairs("hash") # {} =>
                           Head(task'[q].plan) \in Resets
    BY <1>1, <1>2, <1>3 DEF HashIsHonest, Ahead
  <2> QED
    BY <1>5 DEF HashIsHonest, Ahead
<1>11. ASSUME IsClean'
       PROVE  IsClean /\ \A q \in Names : Ahead(q)' = Ahead(q) /\ (task[q].stage = "queued" => task'[q].stage = "queued")
  BY <1>5, <1>11 DEF Ahead
<1>12. DropsAreAhead'
  <2> SUFFICES ASSUME pc = "drop", IsClean', NEW q \in policies \ declared
               PROVE  task'[q].stage = "queued" \/ Ahead(q)' \cap Ops({"DROP"}) # {}
    BY <1>1, <1>3 DEF DropsAreAhead
  <2>1. q \in Names
    BY DEF TypeOK
  <2> QED
    BY <1>11, <2>1 DEF DropsAreAhead
<1>13. RestIsAhead'
  <2> SUFFICES ASSUME pc = "create", IsClean'
               PROVE  /\ policies \subseteq declared
                      /\ \A q \in declared : task'[q].stage = "queued" \/ WillBeRight(q)'
    BY <1>1, <1>3 DEF RestIsAhead
  <2>1. policies \subseteq declared /\ \A q \in declared : task[q].stage = "queued" \/ WillBeRight(q)
    BY <1>11 DEF RestIsAhead
  <2>2. declared \subseteq Names
    BY ConfigurationIs DEF TypeOK
  <2>3. ASSUME NEW q \in declared, WillBeRight(q) PROVE WillBeRight(q)'
    <3>1. Ahead(q)' = Ahead(q)
      BY <1>11, <2>2
    <3>2. \A u : InPlace(q, u)' <=> InPlace(q, u)
      BY <1>1, <1>3 DEF InPlace
    <3> QED
      BY <1>1, <1>2, <1>3, <2>3, <3>1, <3>2 DEF WillBeRight
  <2> QED
    BY <1>11, <2>1, <2>2, <2>3
<1>14. AfterSuccess'
  BY <1>1, <1>2, <1>3, <1>6 DEF AfterSuccess, PoliciesAreDeclared
<1>15. AfterSettling'
  <2>1. \A q, u : InPlace(q, u)' <=> InPlace(q, u)
    BY <1>1, <1>3 DEF InPlace
  <2> QED
    BY <1>1, <1>2, <1>6, <2>1 DEF AfterSettling
<1> QED
  BY <1>7, <1>8, <1>9, <1>10, <1>12, <1>13, <1>14, <1>15

-----------------------------------------------------------------------------
(* Steps of the main thread.                                               *)

\* Where no worker has a plan, nothing is asked of plans.
LEMMA NoPlans ==
  ASSUME PolicyInv, UNCHANGED <<setup, account>>, \A p \in Names : task'[p].plan = << >>
  PROVE  PlansAreSound' /\ HashIsHonest' /\ \A p \in Names : Ahead(p)' = {}
<1>1. /\ kind' = kind /\ declared' = declared /\ claims' = claims
      /\ policies' = policies /\ on' = on /\ off' = off /\ drift' = drift
  BY SameSetup DEF account
<1>2. \A p \in Names : Ahead(p)' = {}
  BY EmptyIsSeq DEF Ahead
<1>3. ASSUME NEW p \in Names PROVE IsOrdered(p, task[p].plan)'
  <2>1. \A A, B : Follows(task'[p].plan, A, B)
    BY <1>2, FollowsNone DEF Ahead
  <2> QED
    BY <2>1 DEF IsOrdered
<1>4. PlansAreSound'
  BY <1>2, <1>3 DEF PlansAreSound
<1>5. HashIsHonest'
  BY <1>1, <1>2 DEF HashIsHonest, PolicyInv
<1> QED
  BY <1>2, <1>4, <1>5

\* An apply ends, as it should or not.
LEMMA ApplyEnds ==
  ASSUME PolicyInv, NEW b \in BOOLEAN, UNCHANGED <<setup, account, existing>>,
         ok' = Append(ok, b), apply' = apply + 1, pc' = "start",
         task' = [p \in Names |-> Idling], faults' \in Nat,
         AfterSuccess', AfterSettling'
  PROVE  PolicyInv'
<1>1. /\ kind' = kind /\ declared' = declared /\ claims' = claims /\ SetupIsKnown'
      /\ policies' = policies /\ on' = on /\ off' = off /\ drift' = drift
  BY SameSetup DEF account, PolicyInv, TypeOK
<1>2. \A p \in Names : task'[p] = Idling /\ task'[p].plan = << >> /\ task'[p].stage = "none"
  BY DEF Idling
<1>3. PlansAreSound' /\ HashIsHonest'
  BY <1>2, NoPlans
<1>4. ok' \in Seq(BOOLEAN) /\ Len(ok') = apply' - 1 /\ apply' \in Nat \ {0}
  BY NextApply DEF PolicyInv
<1>5. Idling \in [stage : Stages, plan : Seq(Statements)]
  BY DEF Idling, Stages
<1>6. TypeOK'
  BY <1>1, <1>4, <1>5 DEF PolicyInv, TypeOK
<1>7. Bookkeeping'
  BY <1>1, <1>2 DEF PolicyInv, Bookkeeping
<1>8. DropsAreAhead' /\ RestIsAhead'
  BY DEF DropsAreAhead, RestIsAhead
<1> QED
  BY <1>3, <1>6, <1>7, <1>8 DEF PolicyInv

\* Nothing was looked at: nothing is declared.
LEMMA SkipAllStep == ASSUME PolicyInv, SkipAll PROVE PolicyInv'
<1>1. declared' = {}
  BY SameSetup DEF SkipAll
<1>2. AfterSuccess' /\ AfterSettling'
  BY <1>1 DEF AfterSuccess, AfterSettling, HasSettled, HasSucceeded
<1>3. task' = [p \in Names |-> Idling] /\ faults' \in Nat
  BY DEF SkipAll, PolicyInv, TypeOK, Bookkeeping
<1> QED
  BY <1>2, <1>3, ApplyEnds DEF SkipAll

\* An apply that crashed did not succeed.
LEMMA CrashStep == ASSUME PolicyInv, Crash PROVE PolicyInv'
<1>1. ~Succeeded(apply - 1)'
  BY NextApply DEF Crash, PolicyInv
<1>2. AfterSuccess' /\ AfterSettling'
  BY <1>1 DEF AfterSuccess, AfterSettling, HasSettled, HasSucceeded
<1>3. faults' \in Nat
  BY DEF Crash, PolicyInv, TypeOK
<1> QED
  BY <1>2, <1>3, ApplyEnds DEF Crash

\* When nothing failed, nothing is left to do.
LEMMA FinishStep == ASSUME PolicyInv, Finish PROVE PolicyInv'
<1> DEFINE b == \A p \in Names : task[p].stage # "failed"
<1>1. /\ kind' = kind /\ declared' = declared /\ claims' = claims
      /\ policies' = policies /\ on' = on /\ off' = off /\ drift' = drift
  BY SameSetup DEF account, Finish
<1>2. ok' = Append(ok, b) /\ apply' = apply + 1
  BY DEF Finish
<1>3. declared \subseteq Names /\ claims \in [Names -> SUBSET Targets]
        /\ \A p \in Names : p \notin declared => claims[p] = {}
  BY ConfigurationIs DEF PolicyInv, TypeOK
<1>4. /\ Succeeded(apply - 1)' => b /\ setup.applies[apply] = Switches
      /\ apply' > 2 => apply > 1 /\ (Succeeded(apply - 2)' <=> Succeeded(apply - 1))
  BY <1>2, NextApply DEF Finish, PolicyInv
<1>5. \A p \in Names : Ahead(p)' = {}
  <2>1. \A p \in Names : task'[p].plan = << >>
    BY DEF Finish, Idling
  <2> QED
    BY <2>1, NoPlans DEF Finish
<1>6. \A p \in Names : Ahead(p) = {} /\ task[p].stage # "queued"
  <2>1. \A p \in Names : task[p].plan = << >> /\ task[p].stage # "queued"
    BY DEF Finish, AllIdle, PolicyInv, Bookkeeping
  <2> QED
    BY <2>1, EmptyIsSeq DEF Ahead
<1>7. ASSUME HasSucceeded'
      PROVE  policies \subseteq declared /\ \A p \in declared : WillBeRight(p)
  <2>1. IsClean /\ pc = "create"
    BY <1>4, <1>7 DEF HasSucceeded, IsClean, Settings, Finish
  <2> QED
    BY <1>3, <1>6, <2>1 DEF PolicyInv, RestIsAhead
<1>8. ASSUME HasSucceeded'
      PROVE  /\ policies = declared /\ \A p \in declared : drift[p] = {}
             /\ \A t \in Targets : on[t] # None => t \in claims[on[t]]
  <2>1. policies \subseteq declared /\ \A p \in declared : WillBeRight(p)
    BY <1>7, <1>8
  <2>2. \A t \in Targets : on[t] # None => on[t] \in declared
    BY <2>1 DEF PolicyInv, Bookkeeping
  <2>3. ASSUME NEW p \in declared
        PROVE  /\ p \in policies /\ drift[p] = {}
               /\ \A t \in Targets : on[t] = p => t \in claims[p]
    BY <1>3, <1>6, <2>1 DEF WillBeRight
  <2> QED
    BY <2>1, <2>2, <2>3
<1>9. AfterSuccess'
  BY <1>1, <1>5, <1>8 DEF AfterSuccess, PoliciesAreDeclared
<1>10. ASSUME HasSettled', NEW p \in Names, NEW t \in claims[p]
       PROVE  InPlace(p, t)
  <2>1. HasSucceeded' /\ IsSteady
    BY <1>1, <1>4, <1>10 DEF HasSettled, IsSteady
  <2>2. p \in declared
    BY <1>3
  <2> QED
    BY <1>3, <1>6, <1>7, <2>1, <2>2 DEF WillBeRight
<1>11. AfterSettling'
  <2>1. \A p, t : InPlace(p, t)' <=> InPlace(p, t)
    BY <1>1 DEF InPlace
  <2> QED
    BY <1>1, <1>5, <1>10, <2>1 DEF AfterSettling
<1>12. faults' \in Nat
  BY DEF Finish, PolicyInv, TypeOK
<1> HIDE DEF b
<1>13. b \in BOOLEAN
  BY DEF b
<1> QED
  BY <1>2, <1>9, <1>11, <1>12, <1>13, ApplyEnds DEF Finish

\* What is listed and has no blueprint is going to be dropped.
LEMMA BeginStep == ASSUME PolicyInv, Begin PROVE PolicyInv'
<1>1. /\ kind' = kind /\ declared' = declared /\ claims' = claims /\ SetupIsKnown'
      /\ policies' = policies /\ on' = on /\ off' = off /\ drift' = drift
  BY SameSetup DEF account, Begin, PolicyInv, TypeOK
<1>2. /\ HasSucceeded' <=> HasSucceeded
      /\ HasSettled' <=> HasSettled
  BY SameApplies DEF Begin
<1>3. \A p \in Names : /\ task'[p] \in [stage : Stages, plan : Seq(Statements)]
                       /\ task'[p].plan = << >>
                       /\ task'[p].stage = IF p \in policies \ declared THEN "queued" ELSE "none"
  BY DEF Begin, DropTargets, Queued, Idling, Stages
<1>4. PlansAreSound' /\ HashIsHonest' /\ \A p \in Names : Ahead(p)' = {}
  BY <1>3, NoPlans DEF Begin
<1>5. TypeOK'
  <2>1. task' \in [Names -> [stage : Stages, plan : Seq(Statements)]]
    BY <1>3 DEF Begin, Queued
  <2> QED
    BY <1>1, <2>1 DEF PolicyInv, TypeOK, Begin
<1>6. Bookkeeping'
  BY <1>1, <1>3 DEF PolicyInv, Bookkeeping, Begin, Over
<1>7. DropsAreAhead'
  <2>1. policies \subseteq Names
    BY DEF PolicyInv, TypeOK
  <2> QED
    BY <1>1, <1>3, <2>1 DEF DropsAreAhead
<1>8. RestIsAhead'
  BY DEF RestIsAhead, Begin
<1>9. AfterSuccess'
  BY <1>1, <1>2, <1>4 DEF PolicyInv, AfterSuccess, PoliciesAreDeclared
<1>10. AfterSettling'
  <2>1. \A p, t : InPlace(p, t)' <=> InPlace(p, t)
    BY <1>1 DEF InPlace
  <2> QED
    BY <1>1, <1>2, <1>4, <2>1 DEF PolicyInv, AfterSettling
<1> QED
  BY <1>4, <1>5, <1>6, <1>7, <1>8, <1>9, <1>10 DEF PolicyInv

\* Where no drop failed, only declared policies are left.
LEMMA SubmitBatchStep == ASSUME PolicyInv, SubmitBatch PROVE PolicyInv'
<1>1. /\ kind' = kind /\ declared' = declared /\ claims' = claims /\ SetupIsKnown'
      /\ policies' = policies /\ on' = on /\ off' = off /\ drift' = drift
  BY SameSetup DEF account, SubmitBatch, PolicyInv, TypeOK
<1>2. /\ HasSucceeded' <=> HasSucceeded
      /\ HasSettled' <=> HasSettled
      /\ Settings' = Settings
  BY SameApplies DEF SubmitBatch
<1>3. \A p \in Names : task[p].plan = << >> /\ task[p].stage \in {"none", "failed"}
  BY DEF SubmitBatch, AllIdle, PolicyInv, Bookkeeping
<1>4. \A p \in Names : /\ p \in declared => task'[p] = [stage |-> "queued", plan |-> << >>]
                       /\ p \notin declared => task'[p] = task[p]
  BY DEF SubmitBatch, Queued
<1>5. declared \subseteq Names /\ policies \subseteq Names
  BY ConfigurationIs DEF PolicyInv, TypeOK
<1>6. \A p \in Names : Ahead(p) = {}
  BY <1>3, EmptyIsSeq DEF Ahead
<1>7. PlansAreSound' /\ HashIsHonest' /\ \A p \in Names : Ahead(p)' = {}
  <2>1. \A p \in Names : task'[p].plan = << >>
    BY <1>3, <1>4
  <2> QED
    BY <2>1, NoPlans DEF SubmitBatch
<1>8. TypeOK'
  <2>0. [stage |-> "queued", plan |-> << >>] \in [stage : Stages, plan : Seq(Statements)]
    BY DEF Stages
  <2>1. \A p \in Names : task'[p] \in [stage : Stages, plan : Seq(Statements)]
    BY <1>4, <2>0 DEF PolicyInv, TypeOK
  <2>2. task' \in [Names -> [stage : Stages, plan : Seq(Statements)]]
    BY <2>1 DEF SubmitBatch
  <2> QED
    BY <1>1, <2>2 DEF PolicyInv, TypeOK, SubmitBatch
<1>9. Bookkeeping'
  <2>1. \A p \in declared : p \in existing <=> p \in policies
    BY <1>5 DEF PolicyInv, Bookkeeping, SubmitBatch
  <2> QED
    BY <1>1, <1>3, <1>4, <2>1 DEF PolicyInv, Bookkeeping, SubmitBatch, Over
<1>10. DropsAreAhead'
  BY DEF DropsAreAhead, SubmitBatch
<1>11. RestIsAhead'
  <2> SUFFICES ASSUME IsClean' PROVE policies \subseteq declared
    BY <1>1, <1>4, <1>5 DEF RestIsAhead
  <2>1. IsClean /\ pc = "drop"
    <3>1. \A p \in Names : p \in declared => task[p].stage = "none"
      BY DEF SubmitBatch, PolicyInv, Bookkeeping
    <3>2. \A p \in Names : task[p].stage # "failed"
      BY <1>4, <3>1 DEF IsClean
    <3> QED
      BY <1>2, <3>2 DEF IsClean, SubmitBatch
  <2> QED
    BY <1>3, <1>5, <1>6, <2>1 DEF PolicyInv, DropsAreAhead
<1>12. AfterSuccess'
  BY <1>1, <1>2, <1>7 DEF PolicyInv, AfterSuccess, PoliciesAreDeclared
<1>13. AfterSettling'
  <2>1. \A p, t : InPlace(p, t)' <=> InPlace(p, t)
    BY <1>1 DEF InPlace
  <2> QED
    BY <1>1, <1>2, <1>7, <2>1 DEF PolicyInv, AfterSettling
<1> QED
  BY <1>7, <1>8, <1>9, <1>10, <1>11, <1>12, <1>13 DEF PolicyInv

\* Nothing happens.
LEMMA StutterStep == ASSUME PolicyInv, UNCHANGED vars PROVE PolicyInv'
<1>1. /\ kind' = kind /\ declared' = declared /\ claims' = claims /\ SetupIsKnown'
      /\ policies' = policies /\ on' = on /\ off' = off /\ drift' = drift
      /\ \A p, q : IsOrdered(p, q) => IsOrdered(p, q)'
  BY SameSetup DEF vars, account, PolicyInv, TypeOK
<1>2. /\ HasSucceeded' <=> HasSucceeded
      /\ HasSettled' <=> HasSettled
      /\ IsSteady' <=> IsSteady
      /\ Settings' = Settings
  BY SameApplies DEF vars
<1>3. task' = task /\ pc' = pc /\ UNCHANGED <<apply, existing, ok, faults, setup>>
  BY DEF vars
<1>4. \A p : Ahead(p)' = Ahead(p)
  BY <1>3 DEF Ahead
<1>5. TypeOK' /\ Bookkeeping'
  BY <1>1, <1>3 DEF PolicyInv, TypeOK, Bookkeeping, Over
<1>6. PlansAreSound'
  <2>1. \A p : IsOrdered(p, task[p].plan)' <=> IsOrdered(p, task[p].plan)
    BY <1>1, <1>3 DEF IsOrdered
  <2> QED
    BY <1>1, <1>3, <1>4, <2>1 DEF PolicyInv, PlansAreSound
<1>7. HashIsHonest'
  BY <1>1, <1>2, <1>3, <1>4 DEF PolicyInv, HashIsHonest
<1>8. \A p, t : InPlace(p, t)' <=> InPlace(p, t)
  BY <1>1 DEF InPlace
<1>9. IsClean' <=> IsClean
  BY <1>2, <1>3 DEF IsClean
<1>10. DropsAreAhead'
  BY <1>1, <1>3, <1>4, <1>9 DEF PolicyInv, DropsAreAhead
<1>11. \A p : WillBeRight(p)' <=> WillBeRight(p)
  BY <1>1, <1>2, <1>4, <1>8 DEF WillBeRight
<1>12. RestIsAhead'
  BY <1>1, <1>3, <1>9, <1>11 DEF PolicyInv, RestIsAhead
<1>13. AfterSuccess' /\ AfterSettling'
  BY <1>1, <1>2, <1>4, <1>8 DEF PolicyInv, AfterSuccess, AfterSettling, PoliciesAreDeclared
<1> QED
  BY <1>5, <1>6, <1>7, <1>10, <1>12, <1>13 DEF PolicyInv

\* Initial states: what a policy differs in was left by somebody careful.
LEMMA InitStep == ASSUME Careful, Init PROVE PolicyInv
<1>1. PICK s \in Starts :
        /\ setup = [kind |-> s.kind, declared |-> s.declared, claims |-> s.claims,
                    applies |-> s.applies]
        /\ policies = s.policies /\ on = s.on /\ off = s.off /\ drift = s.drift
        /\ apply = 1 /\ pc = "start" /\ existing = {}
        /\ task = [p \in Names |-> Idling]
        /\ ok = <<>> /\ faults = 0
  BY DEF Init
<1>2. kind = s.kind /\ setup.applies = s.applies
  BY <1>1 DEF kind
<1>3. /\ s \in StartRecords /\ IsCareful(s)
      /\ \A t \in Targets : s.on[t] \in s.policies \cup {None}
      /\ \A p \in Names : s.drift[p] \subseteq AspectsOf(s.kind)
      /\ s.kind = "AUTHENTICATION" =>
           \A p \in Names : "body" \in s.drift[p] => "hash" \in s.drift[p]
  BY PolicyAssumption DEF Careful
<1>4. \A p \in Names : /\ task[p] = Idling /\ task[p].plan = << >> /\ task[p].stage = "none"
                       /\ task[p] \in [stage : Stages, plan : Seq(Statements)]
  BY <1>1 DEF Idling, Stages
<1>5. \A p \in Names : Ahead(p) = {}
  BY <1>4, EmptyIsSeq DEF Ahead
<1>6. SetupIsKnown
  BY <1>1 DEF SetupIsKnown
<1>7. TypeOK
  <2>1. drift \in [Names -> SUBSET AspectsOf(kind)]
    BY <1>1, <1>2, <1>3 DEF StartRecords
  <2>2. policies \in SUBSET Names /\ on \in [Targets -> Names \cup {None}] /\ off \in SUBSET Targets
    BY <1>1, <1>3 DEF StartRecords
  <2>3. task \in [Names -> [stage : Stages, plan : Seq(Statements)]]
    BY <1>1, <1>4
  <2>4. ok \in Seq(BOOLEAN) /\ Len(ok) = apply - 1 /\ apply \in Nat \ {0}
    BY <1>1
  <2> QED
    BY <1>1, <1>6, <2>1, <2>2, <2>3, <2>4 DEF TypeOK
<1>8. Bookkeeping
  BY <1>1, <1>3, <1>4 DEF Bookkeeping
<1>9. PlansAreSound
  BY <1>1, <1>5 DEF PlansAreSound
<1>10. HashIsHonest
  BY <1>1, <1>2, <1>3 DEF HashIsHonest, IsCareful
<1>11. DropsAreAhead /\ RestIsAhead
  BY <1>1 DEF DropsAreAhead, RestIsAhead
<1>12. AfterSuccess /\ AfterSettling
  BY <1>1 DEF AfterSuccess, AfterSettling, HasSettled, HasSucceeded
<1> QED
  BY <1>7, <1>8, <1>9, <1>10, <1>11, <1>12 DEF PolicyInv

-----------------------------------------------------------------------------
(* Steps of a worker that change nothing in the account.                   *)

\* A worker that runs, and the next of its statements.
LEMMA WorkerIs ==
  ASSUME PolicyInv, NEW p \in Names, task[p].stage = "running"
  PROVE  /\ task[p] = [stage |-> "running", plan |-> task[p].plan]
         /\ task[p].plan \in Seq(Statements) /\ IsSeq(task[p].plan)
         /\ pc \in {"drop", "create"} /\ declared # {} /\ apply \in DOMAIN setup.applies
         /\ pc = "drop" => p \notin declared
         /\ pc = "create" => p \in declared
<1>1. task[p] \in [stage : Stages, plan : Seq(Statements)]
  BY DEF PolicyInv, TypeOK
<1>2. pc \in {"drop", "create"} /\ declared # {} /\ ~Over
  BY DEF PolicyInv, TypeOK, Bookkeeping, Idling
<1>3. apply \in DOMAIN setup.applies
  <2>1. setup.applies \in Seq(SUBSET Switches) /\ apply \in Nat \ {0}
    BY ConfigurationIs DEF PolicyInv, TypeOK
  <2> QED
    BY <1>2, <2>1 DEF Over
<1>4. (pc = "drop" => p \notin declared) /\ (pc = "create" => p \in declared)
  BY DEF PolicyInv, Bookkeeping
<1>5. task[p].plan \in Seq(Statements) /\ IsSeq(task[p].plan)
  <2>1. task[p].plan \in Seq(Statements)
    BY <1>1
  <2> QED
    BY <2>1, SeqWithin
<1> QED
  BY <1>1, <1>2, <1>3, <1>4, <1>5

\* A worker goes on to the rest of its plan.
LEMMA Advances ==
  ASSUME NEW p, NEW st, NEW q, task[p] = [stage |-> st, plan |-> q], Advance(p)
  PROVE  task' = [task EXCEPT ![p] = [stage |-> st, plan |-> Tail(q)]]
<1> DEFINE q2 == Tail(task[p].plan)
<1>1. task' = [task EXCEPT ![p].plan = q2]
  BY DEF Advance
<1>2. task[p].plan = q
  OBVIOUS
<1>3. q2 = Tail(q)
  BY <1>2
<1> HIDE DEF q2
<1>4. [task[p] EXCEPT !.plan = q2] = [stage |-> st, plan |-> q2]
  OBVIOUS
<1>5. task' = [task EXCEPT ![p] = [stage |-> st, plan |-> q2]]
  BY <1>1, <1>4
<1> QED
  BY <1>3, <1>5

\* What remains of a plan.
LEMMA RestIs ==
  ASSUME PolicyInv, NEW p \in Names, HasStatement(p)
  PROVE  LET q == task[p].plan
             s == Head(q)
         IN  /\ s \in Ahead(p) /\ s \in Statements
             /\ Tail(q) \in Seq(Statements) /\ Range(Tail(q)) \subseteq Ahead(p)
             /\ \A x \in Ahead(p) : x = s \/ x \in Range(Tail(q))
             /\ IsOrdered(p, q) => IsOrdered(p, Tail(q))
             /\ \A A, B : Follows(q, A, B) /\ s \in A => Range(Tail(q)) \cap B # {}
<1> DEFINE q == task[p].plan
<1>1. q \in Seq(Statements) /\ IsSeq(q) /\ q # << >>
  BY WorkerIs DEF HasStatement
<1>2. Ahead(p) = Range(q)
  BY DEF Ahead
<1>3. Range(q) \subseteq Statements
  BY <1>1, SeqWithin
<1> HIDE DEF q
<1>4. Head(q) \in Range(q) /\ IsSeq(Tail(q)) /\ Range(Tail(q)) \subseteq Range(q)
  BY <1>1, HeadTail
<1>5. \A x \in Range(q) : x = Head(q) \/ x \in Range(Tail(q))
  BY <1>1, RangeOfTail
<1>6. Tail(q) \in Seq(Statements)
  BY <1>1
<1>7. \A A, B : Follows(q, A, B) => Follows(Tail(q), A, B)
  BY <1>1, FollowsTail
<1>8. \A A, B : Follows(q, A, B) /\ Head(q) \in A => Range(Tail(q)) \cap B # {}
  BY <1>1, FollowsTail
<1>9. IsOrdered(p, q) => IsOrdered(p, Tail(q))
  BY <1>7 DEF IsOrdered
<1> QED
  BY <1>2, <1>3, <1>4, <1>5, <1>6, <1>8, <1>9 DEF q

\* A statement that is only suggested: not in an apply that may do everything,
\* and never a statement that resets a hash while the hash is still to be set.
LEMMA SuggestStep == ASSUME PolicyInv, NEW p \in Names, Suggest(p) PROVE PolicyInv'
<1> DEFINE q == task[p].plan
           t == [stage |-> "running", plan |-> Tail(q)]
<1>1. task[p].stage = "running" /\ HasStatement(p) /\ ~IsAllowed(Head(q))
  BY DEF Suggest, HasStatement
<1>2. /\ task[p] = [stage |-> "running", plan |-> q] /\ pc \in {"drop", "create"}
      /\ apply \in DOMAIN setup.applies
  BY <1>1, WorkerIs
<1>3. /\ Tail(q) \in Seq(Statements) /\ Range(Tail(q)) \subseteq Ahead(p)
      /\ IsOrdered(p, q) => IsOrdered(p, Tail(q))
  BY <1>1, RestIs
<1>4. task' = [task EXCEPT ![p] = t]
  BY <1>2, Advances DEF Suggest
<1>5. /\ t \in [stage : Stages, plan : Seq(Statements)]
      /\ t.stage = "running" /\ t.plan = Tail(q)
  BY <1>3 DEF Stages
<1>6. pc = "create" => IsOrdered(p, Tail(q))
  BY <1>3 DEF PolicyInv, PlansAreSound
<1>7. ASSUME kind = "AUTHENTICATION", "body" \in drift[p], "policy" \in Settings,
             Range(Tail(q)) \cap Repairs("hash") # {}
      PROVE  FALSE
  <2>1. Ahead(p) \cap Repairs("hash") # {}
    BY <1>3, <1>7
  <2>2. Head(q) \in Resets /\ "unsafe" \in Settings
    BY <1>2, <1>7, <2>1 DEF PolicyInv, HashIsHonest, Settings
  <2> QED
    BY <1>1, <1>7, <2>2, EverythingIsAllowed
<1>8. Settings # Switches
  BY <1>1, EverythingIsAllowed
<1>9. ~IsClean'
  BY <1>8, SameApplies DEF IsClean, Suggest
<1>10. UNCHANGED <<setup, account, apply, pc, existing, ok>> /\ faults' \in Nat
  BY DEF Suggest, PolicyInv, TypeOK
<1> HIDE DEF q, t
<1> QED
  BY <1>1, <1>3, <1>4, <1>5, <1>6, <1>7, <1>9, <1>10, QuietStep

\* A statement that fails.
LEMMA FailStep == ASSUME PolicyInv, NEW p \in Names, Fail(p) PROVE PolicyInv'
<1> DEFINE t == [stage |-> "failed", plan |-> << >>]
<1>1. t \in [stage : Stages, plan : Seq(Statements)] /\ t.stage = "failed" /\ t.plan = << >>
  BY DEF Stages
<1>2. task' = [task EXCEPT ![p] = t] /\ task[p].stage = "running"
  BY DEF Fail, HasStatement
<1>3. Range(t.plan) = {}
  BY <1>1, EmptyIsSeq
<1>4. \A A, B : Follows(t.plan, A, B)
  BY <1>3, FollowsNone
<1>5. IsOrdered(p, t.plan)
  BY <1>4 DEF IsOrdered
<1>6. UNCHANGED <<setup, account, apply, pc, existing, ok>> /\ faults' \in Nat
  BY DEF Fail, PolicyInv, TypeOK
<1>7. ~IsClean'
  <2>1. task'[p].stage = "failed"
    BY <1>1, <1>2 DEF PolicyInv, TypeOK
  <2> QED
    BY <2>1 DEF IsClean
<1> HIDE DEF t
<1> QED
  BY <1>1, <1>2, <1>3, <1>5, <1>6, <1>7, QuietStep

\* A worker that did all it meant to.
LEMMA ReturnStep == ASSUME PolicyInv, NEW p \in Names, Return(p) PROVE PolicyInv'
<1> DEFINE t == [stage |-> "none", plan |-> << >>]
<1>1. t \in [stage : Stages, plan : Seq(Statements)] /\ t.stage = "none" /\ t.plan = << >>
  BY DEF Stages
<1>2. task[p].stage = "running" /\ task[p].plan = << >>
  BY DEF Return
<1>3. task' = [task EXCEPT ![p] = t]
  <2> DEFINE q == task[p].plan
  <2>1. task[p] = [stage |-> "running", plan |-> q] /\ q = << >>
    BY <1>2, WorkerIs
  <2> HIDE DEF q
  <2>2. [task[p] EXCEPT !.stage = "none"] = [stage |-> "none", plan |-> q]
    BY <2>1
  <2> QED
    BY <2>1, <2>2 DEF Return
<1>4. Range(t.plan) = {}
  BY <1>1, EmptyIsSeq
<1>5. \A A, B : Follows(t.plan, A, B)
  BY <1>4, FollowsNone
<1>6. IsOrdered(p, t.plan)
  BY <1>5 DEF IsOrdered
<1>7. UNCHANGED <<setup, account, apply, pc, existing, ok>> /\ faults' \in Nat
  BY DEF Return, PolicyInv, TypeOK
<1>8. IsClean' => IsClean
  <2>1. Settings' = Settings
    BY <1>7, SameApplies
  <2>2. \A r \in Names : r # p => task'[r] = task[r]
    BY <1>3 DEF PolicyInv, TypeOK
  <2> QED
    BY <1>2, <1>7, <2>1, <2>2 DEF IsClean
<1> HIDE DEF t
<1> QED
  BY <1>1, <1>2, <1>3, <1>4, <1>6, <1>7, <1>8, QuietStep

-----------------------------------------------------------------------------
(* A worker reads.                                                         *)

\* It makes its plan: in either phase the right one for what it finds.
LEMMA ReadStep ==
  ASSUME PolicyInv, NEW p \in Names, NEW order \in Orders, Read(p, order)
  PROVE  PolicyInv'
<1> DEFINE w == Plan(p, order)
           t == [stage |-> "running", plan |-> w]
<1>1. /\ kind' = kind /\ declared' = declared /\ claims' = claims /\ SetupIsKnown'
      /\ policies' = policies /\ on' = on /\ off' = off /\ drift' = drift
      /\ \A r, q : IsOrdered(r, q) => IsOrdered(r, q)'
  BY SameSetup DEF account, Read, PolicyInv, TypeOK
<1>2. /\ HasSucceeded' <=> HasSucceeded
      /\ HasSettled' <=> HasSettled
      /\ IsSteady' <=> IsSteady
      /\ Settings' = Settings
  BY SameApplies DEF Read
<1>3. /\ task[p].stage = "queued" /\ task' = [task EXCEPT ![p] = t]
      /\ UNCHANGED <<apply, pc, existing, ok, faults, setup>>
  BY DEF Read
<1>4. /\ pc \in {"drop", "create"} /\ declared # {} /\ ~Over
      /\ pc = "drop" => p \notin declared /\ p \in policies
      /\ pc = "create" => p \in declared
  BY <1>3 DEF PolicyInv, TypeOK, Bookkeeping, Idling
<1>5. /\ declared \subseteq Names /\ claims \in [Names -> SUBSET Targets]
      /\ \A r \in Names : r \notin declared => claims[r] = {}
      /\ policies \subseteq Names
  BY ConfigurationIs DEF PolicyInv, TypeOK
<1>6. /\ w \in Seq(Statements)
      /\ \A s \in Range(w) : /\ s.op \in {"ATTACH", "DETACH"} => s.target \in Targets
                             /\ s.op = "ATTACH" => s.target \in claims[p]
                             /\ s.op = "CREATE" => s.target = None
      /\ pc = "drop" => /\ \A s \in Range(w) : s.op \in {"DETACH", "DROP"}
                        /\ Range(w) \cap Ops({"DROP"}) # {}
      /\ pc = "create" => IsGoodPlan(p, w)
  <2>1. CASE pc = "drop"
    <3>1. /\ w \in Seq(Statements)
          /\ \A s : s \in Range(w) <=> \/ \E u \in Targets : on[u] = p /\ s = Statement("DETACH", u)
                                       \/ s = Statement("DROP", None)
      BY <2>1, PlanDrops, DropPlanHas DEF PolicyInv
    <3>2. Statement("DROP", None) \in Ops({"DROP"})
      BY StatementIs DEF Ops
    <3> HIDE DEF w
    <3>3. ASSUME NEW s \in Range(w)
          PROVE  s.op \in {"DETACH", "DROP"} /\ (s.op = "DETACH" => s.target \in Targets)
      BY <3>1 DEF Statement
    <3> QED
      BY <2>1, <3>1, <3>2, <3>3
  <2>2. CASE pc = "create"
    <3>1. IsGoodPlan(p, w)
      BY <1>3, <2>2, PlanIsGood DEF PolicyInv
    <3> HIDE DEF w
    <3> QED
      BY <2>2, <3>1 DEF IsGoodPlan
  <2> QED
    BY <1>4, <2>1, <2>2
<1> HIDE DEF w
<1>7. t \in [stage : Stages, plan : Seq(Statements)] /\ t.stage = "running" /\ t.plan = w
  BY <1>6 DEF Stages
<1> HIDE DEF t
<1>8. /\ task' \in [Names -> [stage : Stages, plan : Seq(Statements)]]
      /\ task'[p] = t /\ \A q \in Names : q # p => task'[q] = task[q]
  BY <1>3, <1>7 DEF PolicyInv, TypeOK
<1>9. Ahead(p)' = Range(w) /\ \A q \in Names : q # p => Ahead(q)' = Ahead(q)
  BY <1>7, <1>8 DEF Ahead
<1>10. TypeOK'
  BY <1>1, <1>3, <1>8 DEF PolicyInv, TypeOK
<1>11. Bookkeeping'
  BY <1>1, <1>3, <1>4, <1>7, <1>8 DEF PolicyInv, Bookkeeping, Over
<1>12. PlansAreSound'
  <2> SUFFICES ASSUME NEW q \in Names
               PROVE  /\ \A s \in Ahead(q)' :
                           /\ s.op \in {"ATTACH", "DETACH"} => s.target \in Targets
                           /\ s.op = "ATTACH" => s.target \in claims[q]
                           /\ s.op = "CREATE" => s.target = None
                      /\ pc = "drop" => \A s \in Ahead(q)' : s.op \in {"DETACH", "DROP"}
                      /\ pc = "create" => IsOrdered(q, task[q].plan)'
    BY <1>1, <1>3 DEF PlansAreSound
  <2>1. CASE q = p
    <3>1. pc = "create" => IsOrdered(p, w)
      BY <1>6 DEF IsGoodPlan
    <3>2. pc = "create" => IsOrdered(p, task'[p].plan)
      BY <1>7, <1>8, <3>1
    <3>3. pc = "create" => IsOrdered(p, task[p].plan)'
      BY <1>1, <3>2
    <3> QED
      BY <1>6, <1>9, <2>1, <3>3
  <2>2. CASE q # p
    <3>1. pc = "create" => IsOrdered(q, task'[q].plan)
      BY <1>8, <2>2 DEF PolicyInv, PlansAreSound
    <3>2. pc = "create" => IsOrdered(q, task[q].plan)'
      BY <1>1, <3>1
    <3> QED
      BY <1>9, <2>2, <3>2 DEF PolicyInv, PlansAreSound
  <2> QED
    BY <2>1, <2>2
<1>13. HashIsHonest'
  <2> SUFFICES ASSUME kind = "AUTHENTICATION", NEW q \in Names, "body" \in drift[q]
               PROVE  /\ "hash" \in drift[q]
                      /\ \A i \in DOMAIN setup.applies :
                           "unsafe" \in setup.applies[i] \/ "policy" \notin setup.applies[i]
                      /\ Ahead(q)' \cap Repairs("hash") # {} /\ "policy" \in Settings =>
                           Head(task'[q].plan) \in Resets
    BY <1>1, <1>2, <1>3 DEF HashIsHonest
  <2>1. CASE q = p
    <3>1. pc = "drop" => Range(w) \cap Repairs("hash") = {}
      BY <1>6 DEF Repairs
    <3>2. pc = "create" /\ Range(w) \cap Repairs("hash") # {} => Head(w) \in Resets
      BY <1>6 DEF IsGoodPlan
    <3> QED
      BY <1>4, <1>7, <1>8, <1>9, <2>1, <3>1, <3>2 DEF PolicyInv, HashIsHonest
  <2>2. CASE q # p
    BY <1>4, <1>8, <1>9, <2>2 DEF PolicyInv, HashIsHonest
  <2> QED
    BY <2>1, <2>2
<1>14. IsClean' => IsClean
  BY <1>2, <1>3, <1>8 DEF IsClean
<1>15. DropsAreAhead'
  <2> SUFFICES ASSUME pc = "drop", IsClean', NEW q \in policies \ declared
               PROVE  task'[q].stage = "queued" \/ Ahead(q)' \cap Ops({"DROP"}) # {}
    BY <1>1, <1>3 DEF DropsAreAhead
  <2>1. CASE q = p
    BY <1>6, <1>9, <2>1
  <2>2. CASE q # p
    BY <1>5, <1>8, <1>9, <1>14, <2>2 DEF PolicyInv, DropsAreAhead
  <2> QED
    BY <2>1, <2>2
<1>16. \A q, u : InPlace(q, u)' <=> InPlace(q, u)
  BY <1>1 DEF InPlace
<1>17. RestIsAhead'
  <2> SUFFICES ASSUME pc = "create", IsClean'
               PROVE  /\ policies \subseteq declared
                      /\ \A q \in declared : task'[q].stage = "queued" \/ WillBeRight(q)'
    BY <1>1, <1>3 DEF RestIsAhead
  <2>1. policies \subseteq declared /\ \A q \in declared : task[q].stage = "queued" \/ WillBeRight(q)
    BY <1>14 DEF PolicyInv, RestIsAhead
  <2>2. WillBeRight(p)'
    <3>1. IsGoodPlan(p, w)
      BY <1>6
    <3> QED
      BY <1>1, <1>9, <1>16, <3>1 DEF WillBeRight, IsGoodPlan
  <2>3. ASSUME NEW q \in declared, q # p, WillBeRight(q) PROVE WillBeRight(q)'
    <3>1. Ahead(q)' = Ahead(q)
      BY <1>5, <1>9, <2>3
    <3> QED
      BY <1>1, <1>2, <1>16, <2>3, <3>1 DEF WillBeRight
  <2> QED
    BY <1>5, <1>8, <2>1, <2>2, <2>3
<1>18. ASSUME HasSucceeded
       PROVE  /\ pc = "create" /\ p \in policies /\ drift[p] = {}
              /\ \A u \in Targets : on[u] = p => u \in claims[p]
  <2>1. policies = declared /\ (\A q \in declared : drift[q] = {})
          /\ \A u \in Targets : on[u] # None => u \in claims[on[u]]
    BY <1>18 DEF PolicyInv, AfterSuccess, PoliciesAreDeclared
  <2>2. p # None
    BY PolicyAssumption
  <2> QED
    BY <1>4, <2>1, <2>2
<1>19. AfterSuccess'
  <2>1. HasSucceeded /\ kind # "ROW_ACCESS" => Range(w) \subseteq Ops({"ATTACH"})
    BY <1>6, <1>18 DEF IsGoodPlan
  <2>2. \A q \in Names : HasSucceeded /\ kind # "ROW_ACCESS" => Ahead(q)' \subseteq Ops({"ATTACH"})
    BY <1>9, <2>1 DEF PolicyInv, AfterSuccess
  <2> QED
    BY <1>1, <1>2, <2>2 DEF PolicyInv, AfterSuccess, PoliciesAreDeclared
<1>20. AfterSettling'
  <2>1. ASSUME HasSettled PROVE Range(w) = {}
    <3>1. HasSucceeded /\ \A u \in claims[p] : InPlace(p, u)
      BY <2>1 DEF PolicyInv, AfterSettling, HasSettled
    <3> QED
      BY <1>6, <1>18, <3>1 DEF IsGoodPlan
  <2>2. \A q \in Names : HasSettled => Ahead(q)' = {}
    BY <1>9, <2>1 DEF PolicyInv, AfterSettling
  <2> QED
    BY <1>1, <1>2, <1>16, <2>2 DEF PolicyInv, AfterSettling
<1> QED
  BY <1>10, <1>11, <1>12, <1>13, <1>15, <1>17, <1>19, <1>20 DEF PolicyInv

-----------------------------------------------------------------------------
(* A worker executes a statement.                                          *)

\* What it does, policy by policy and target by target.
LEMMA EffectIs ==
  ASSUME PolicyInv, NEW p \in Names, NEW s \in Statements, Effect(p, s),
         s.op \in {"ATTACH", "DETACH"} => s.target \in Targets
  PROVE  /\ s.op = "CREATE" => policies' = policies \cup {p}
         /\ s.op = "DROP" => policies' = policies \ {p}
         /\ s.op \notin {"CREATE", "DROP"} => policies' = policies
         /\ on' \in [Targets -> Names \cup {None}]
         /\ \A t \in Targets : on'[t] = IF s.op = "ATTACH" /\ s.target = t THEN p
                                        ELSE IF s.op = "DETACH" /\ s.target = t THEN None
                                        ELSE on[t]
         /\ off' \subseteq off /\ (s.op = "ATTACH" => s.target \notin off')
         /\ drift' \in [Names -> SUBSET AspectsOf(kind)]
         /\ \A q \in Names : q # p => drift'[q] = drift[q]
         /\ s.op \in {"CREATE", "DROP"} /\ ~(kind = "AUTHENTICATION" /\ s.op = "CREATE") => drift'[p] = {}
         /\ s.op = "CREATE" /\ kind = "AUTHENTICATION" => drift'[p] = {"hash"}
         /\ s.op \in {"ALTER", "ALTER_SAFELY"} =>
              drift'[p] = IF kind = "AUTHENTICATION" /\ s.target = "body"
                          THEN {"hash"} ELSE drift[p] \ {s.target}
         /\ s.op \in {"ATTACH", "DETACH"} => drift'[p] = drift[p]
<1>1. /\ on \in [Targets -> Names \cup {None}] /\ drift \in [Names -> SUBSET AspectsOf(kind)]
      /\ s.op \in {"CREATE", "ALTER", "ALTER_SAFELY", "ATTACH", "DETACH", "DROP"}
  BY DEF PolicyInv, TypeOK, Statements
<1>2. kind = "AUTHENTICATION" => {"hash"} \subseteq AspectsOf(kind)
  BY DEF AspectsOf
<1>3. /\ s.op = "CREATE" => policies' = policies \cup {p}
      /\ s.op = "DROP" => policies' = policies \ {p}
      /\ s.op \notin {"CREATE", "DROP"} => policies' = policies
  BY DEF Effect
<1>4. /\ s.op = "ATTACH" => on' = [on EXCEPT ![s.target] = p]
      /\ s.op = "DETACH" => on' = [on EXCEPT ![s.target] = None]
      /\ s.op \notin {"ATTACH", "DETACH"} => on' = on
  BY DEF Effect
<1>5. /\ on' \in [Targets -> Names \cup {None}]
      /\ \A t \in Targets : on'[t] = IF s.op = "ATTACH" /\ s.target = t THEN p
                                     ELSE IF s.op = "DETACH" /\ s.target = t THEN None
                                     ELSE on[t]
  BY <1>1, <1>4
<1>6. off' \subseteq off /\ (s.op = "ATTACH" => s.target \notin off')
  BY DEF Effect
<1>7. CASE s.op \in {"CREATE", "DROP"}
  <2> DEFINE d == IF kind = "AUTHENTICATION" /\ s.op = "CREATE" THEN {"hash"} ELSE {}
  <2>1. drift' = [drift EXCEPT ![p] = d]
    BY <1>7 DEF Effect
  <2>2. d \subseteq AspectsOf(kind)
    BY <1>2
  <2>3. /\ ~(kind = "AUTHENTICATION" /\ s.op = "CREATE") => d = {}
        /\ s.op = "CREATE" /\ kind = "AUTHENTICATION" => d = {"hash"}
    OBVIOUS
  <2> HIDE DEF d
  <2>4. /\ drift' \in [Names -> SUBSET AspectsOf(kind)] /\ drift'[p] = d
        /\ \A q \in Names : q # p => drift'[q] = drift[q]
    BY <1>1, <2>1, <2>2
  <2> QED
    BY <1>3, <1>5, <1>6, <1>7, <2>3, <2>4
<1>8. CASE s.op \in {"ALTER", "ALTER_SAFELY"}
  <2> DEFINE d == IF kind = "AUTHENTICATION" /\ s.target = "body"
                  THEN {"hash"} ELSE drift[p] \ {s.target}
  <2>1. drift' = [drift EXCEPT ![p] = d]
    BY <1>8 DEF Effect
  <2>2. d \subseteq AspectsOf(kind)
    BY <1>1, <1>2
  <2>3. /\ drift' \in [Names -> SUBSET AspectsOf(kind)] /\ drift'[p] = d
        /\ \A q \in Names : q # p => drift'[q] = drift[q]
    BY <1>1, <2>1, <2>2
  <2> QED
    BY <1>3, <1>5, <1>6, <1>8, <2>3
<1>9. CASE s.op \in {"ATTACH", "DETACH"}
  <2>1. drift' = drift
    BY <1>9 DEF Effect
  <2> QED
    BY <1>1, <1>3, <1>5, <1>6, <1>9, <2>1
<1> QED
  BY <1>1, <1>7, <1>8, <1>9

\* The step, and what the plan says of what is still ahead.
LEMMA ExecuteIs ==
  ASSUME PolicyInv, NEW p \in Names, Execute(p)
  PROVE  LET s == Head(task[p].plan)
         IN  /\ s \in Ahead(p) /\ s \in Statements
             /\ IsAllowed(s) /\ IsLegal(p, s) /\ Effect(p, s)
             /\ s.op \in {"ATTACH", "DETACH"} => s.target \in Targets
             /\ s.op = "ATTACH" => s.target \in claims[p]
             /\ s.op = "CREATE" => s.target = None
             /\ task' \in [Names -> [stage : Stages, plan : Seq(Statements)]]
             /\ task[p].stage = "running" /\ task'[p].stage = "running"
             /\ task'[p].plan = Tail(task[p].plan)
             /\ \A q \in Names : q # p => task'[q] = task[q] /\ Ahead(q)' = Ahead(q)
             /\ Ahead(p)' \subseteq Ahead(p)
             /\ \A x \in Ahead(p) : x = s \/ x \in Ahead(p)'
             /\ pc \in {"drop", "create"} /\ declared # {} /\ apply \in DOMAIN setup.applies
             /\ pc = "drop" => p \notin declared /\ s.op \in {"DETACH", "DROP"}
             /\ pc = "create" => /\ p \in declared /\ IsOrdered(p, task'[p].plan)
                                 /\ s.op = "DROP" => Ahead(p)' \cap Ops({"CREATE"}) # {}
                                 /\ kind = "AUTHENTICATION" /\ s \in Resets =>
                                      Ahead(p)' \cap Repairs("hash") # {}
                                 /\ \A t \in claims[p] : s = Statement("DETACH", t) =>
                                      Statement("ATTACH", t) \in Ahead(p)'
<1> DEFINE q == task[p].plan
           s == Head(q)
           t == [stage |-> "running", plan |-> Tail(q)]
<1>1. HasStatement(p) /\ task[p].stage = "running"
  BY DEF Execute, HasStatement
<1>2. /\ task[p] = [stage |-> "running", plan |-> q] /\ pc \in {"drop", "create"} /\ declared # {}
      /\ apply \in DOMAIN setup.applies
      /\ pc = "drop" => p \notin declared
      /\ pc = "create" => p \in declared
  BY <1>1, WorkerIs
<1>3. /\ s \in Ahead(p) /\ s \in Statements
      /\ Tail(q) \in Seq(Statements) /\ Range(Tail(q)) \subseteq Ahead(p)
      /\ \A x \in Ahead(p) : x = s \/ x \in Range(Tail(q))
      /\ IsOrdered(p, q) => IsOrdered(p, Tail(q))
      /\ \A A, B : Follows(q, A, B) /\ s \in A => Range(Tail(q)) \cap B # {}
  BY <1>1, RestIs
<1>4. IsAllowed(s) /\ IsLegal(p, s) /\ Effect(p, s)
  BY DEF Execute
<1>5. task' = [task EXCEPT ![p] = t]
  BY <1>2, Advances DEF Execute
<1>6. t \in [stage : Stages, plan : Seq(Statements)] /\ t.stage = "running" /\ t.plan = Tail(q)
  BY <1>3 DEF Stages
<1>7. /\ s.op \in {"ATTACH", "DETACH"} => s.target \in Targets
      /\ s.op = "ATTACH" => s.target \in claims[p]
      /\ s.op = "CREATE" => s.target = None
      /\ pc = "drop" => s.op \in {"DETACH", "DROP"}
      /\ pc = "create" => IsOrdered(p, q)
  BY <1>3 DEF PolicyInv, PlansAreSound
<1> HIDE DEF t, s, q
<1>8. /\ task' \in [Names -> [stage : Stages, plan : Seq(Statements)]]
      /\ task'[p] = t /\ \A r \in Names : r # p => task'[r] = task[r]
  BY <1>5, <1>6 DEF PolicyInv, TypeOK
<1>9. Ahead(p)' = Range(Tail(q)) /\ \A r \in Names : r # p => Ahead(r)' = Ahead(r)
  BY <1>6, <1>8 DEF Ahead
<1>10. ASSUME pc = "create"
       PROVE  /\ s.op = "DROP" => Ahead(p)' \cap Ops({"CREATE"}) # {}
              /\ kind = "AUTHENTICATION" /\ s \in Resets => Ahead(p)' \cap Repairs("hash") # {}
              /\ \A u \in claims[p] : s = Statement("DETACH", u) => Statement("ATTACH", u) \in Ahead(p)'
  <2>1. IsOrdered(p, q)
    BY <1>7, <1>10
  <2>2. s.op = "DROP" => s \in Ops({"DROP"})
    BY <1>3 DEF Ops
  <2>3. s.op = "DROP" => Range(Tail(q)) \cap Ops({"CREATE"}) # {}
    BY <1>3, <2>1, <2>2 DEF IsOrdered
  <2>4. kind = "AUTHENTICATION" /\ s \in Resets => Range(Tail(q)) \cap Repairs("hash") # {}
    BY <1>3, <2>1 DEF IsOrdered
  <2>5. ASSUME NEW u \in claims[p], s = Statement("DETACH", u)
        PROVE  Statement("ATTACH", u) \in Range(Tail(q))
    <3>1. Follows(q, {Statement("DETACH", u)}, {Statement("ATTACH", u)})
      BY <2>1 DEF IsOrdered
    <3>2. Range(Tail(q)) \cap {Statement("ATTACH", u)} # {}
      BY <1>3, <2>5, <3>1
    <3> QED
      BY <3>2
  <2> QED
    BY <1>9, <2>3, <2>4, <2>5
<1>11. pc = "create" => IsOrdered(p, task'[p].plan)
  BY <1>3, <1>6, <1>7, <1>8
<1>12. task'[p].plan = Tail(q) /\ task'[p].stage = "running"
  BY <1>6, <1>8
<1> QED
  BY <1>1, <1>2, <1>3, <1>4, <1>7, <1>8, <1>9, <1>10, <1>11, <1>12 DEF s, q

\* What the other policies of the apply still need is left to them.
LEMMA OthersStay ==
  ASSUME PolicyInv, NEW p \in declared, NEW q \in declared, q # p, Execute(p), WillBeRight(q)
  PROVE  WillBeRight(q)'
<1> DEFINE s == Head(task[p].plan)
<1>1. /\ kind' = kind /\ declared' = declared /\ claims' = claims
      /\ IsSteady' <=> IsSteady
  BY SameSetup, SameApplies DEF Execute
<1>2. declared \subseteq Names /\ claims \in [Names -> SUBSET Targets]
        /\ \A a, b \in Names : a # b => claims[a] \cap claims[b] = {}
  BY ConfigurationIs DEF PolicyInv, TypeOK
<1>3. p \in Names /\ q \in Names
  BY <1>2
<1>4. /\ s \in Ahead(p) /\ s \in Statements /\ IsLegal(p, s) /\ Effect(p, s)
      /\ s.op \in {"ATTACH", "DETACH"} => s.target \in Targets
      /\ s.op = "ATTACH" => s.target \in claims[p]
      /\ Ahead(q)' = Ahead(q)
      /\ declared # {}
  BY <1>3, ExecuteIs
<1> HIDE DEF s
<1>5. /\ s.op = "CREATE" => policies' = policies \cup {p}
      /\ s.op = "DROP" => policies' = policies \ {p}
      /\ s.op \notin {"CREATE", "DROP"} => policies' = policies
      /\ \A t \in Targets : on'[t] = IF s.op = "ATTACH" /\ s.target = t THEN p
                                     ELSE IF s.op = "DETACH" /\ s.target = t THEN None
                                     ELSE on[t]
      /\ off' \subseteq off
      /\ drift'[q] = drift[q]
  BY <1>3, <1>4, EffectIs
<1>6. q # None
  BY <1>3, PolicyAssumption
<1>7. q \in policies' \/ Ahead(q)' \cap Ops({"CREATE"}) # {}
  BY <1>4, <1>5 DEF WillBeRight
<1>8. \A a \in drift'[q] : Ahead(q)' \cap (Ops({"CREATE"}) \cup Repairs(a)) # {}
  BY <1>4, <1>5 DEF WillBeRight
<1>9. \A t \in Targets : on'[t] = q /\ t \notin claims[q] => Statement("DETACH", t) \in Ahead(q)'
  BY <1>4, <1>5, <1>6 DEF WillBeRight
<1>10. ASSUME IsSteady, NEW t \in claims[q]
       PROVE  InPlace(q, t)' \/ Statement("ATTACH", t) \in Ahead(q)'
  <2>1. InPlace(q, t) \/ Statement("ATTACH", t) \in Ahead(q)
    BY <1>10 DEF WillBeRight
  <2>2. t \in Targets /\ t \notin claims[p]
    BY <1>2, <1>3
  <2>3. ASSUME InPlace(q, t), s.op = "DETACH", s.target = t PROVE FALSE
    <3>1. CASE kind = "ROW_ACCESS"
      BY <1>4, <2>3, <3>1 DEF IsLegal, InPlace
    <3>2. CASE kind # "ROW_ACCESS"
      <4>1. HasSucceeded
        BY <1>4, <1>10, <3>2 DEF IsSteady, HasSucceeded
      <4>2. Ahead(p) \subseteq Ops({"ATTACH"})
        BY <1>3, <3>2, <4>1 DEF PolicyInv, AfterSuccess
      <4> QED
        BY <1>4, <2>3, <4>2 DEF Ops
    <3> QED
      BY <3>1, <3>2
  <2>4. InPlace(q, t) => InPlace(q, t)'
    BY <1>1, <1>4, <1>5, <2>2, <2>3 DEF InPlace
  <2> QED
    BY <1>4, <2>1, <2>4
<1> QED
  BY <1>1, <1>7, <1>8, <1>9, <1>10 DEF WillBeRight

\* And the policy itself gets nearer: what the statement spoils is repaired by
\* one that is ahead.
LEMMA SelfStays ==
  ASSUME PolicyInv, NEW p \in declared, pc = "create", Execute(p), WillBeRight(p)
  PROVE  WillBeRight(p)'
<1> DEFINE s == Head(task[p].plan)
<1>1. /\ kind' = kind /\ declared' = declared /\ claims' = claims
      /\ IsSteady' <=> IsSteady
  BY SameSetup, SameApplies DEF Execute
<1>2. declared \subseteq Names /\ claims \in [Names -> SUBSET Targets]
  BY ConfigurationIs DEF PolicyInv, TypeOK
<1>3. p \in Names /\ claims[p] \subseteq Targets
  BY <1>2
<1>4. /\ s \in Ahead(p) /\ s \in Statements /\ Effect(p, s)
      /\ s.op \in {"ATTACH", "DETACH"} => s.target \in Targets
      /\ s.op = "ATTACH" => s.target \in claims[p]
      /\ s.op = "CREATE" => s.target = None
      /\ \A x \in Ahead(p) : x = s \/ x \in Ahead(p)'
      /\ s.op = "DROP" => Ahead(p)' \cap Ops({"CREATE"}) # {}
      /\ kind = "AUTHENTICATION" /\ s \in Resets => Ahead(p)' \cap Repairs("hash") # {}
      /\ \A t \in claims[p] : s = Statement("DETACH", t) => Statement("ATTACH", t) \in Ahead(p)'
  BY <1>3, ExecuteIs
<1> HIDE DEF s
<1>5. /\ s.op = "CREATE" => policies' = policies \cup {p}
      /\ s.op \notin {"CREATE", "DROP"} => policies' = policies
      /\ \A t \in Targets : on'[t] = IF s.op = "ATTACH" /\ s.target = t THEN p
                                     ELSE IF s.op = "DETACH" /\ s.target = t THEN None
                                     ELSE on[t]
      /\ off' \subseteq off /\ (s.op = "ATTACH" => s.target \notin off')
      /\ s.op \in {"CREATE", "DROP"} /\ ~(kind = "AUTHENTICATION" /\ s.op = "CREATE") => drift'[p] = {}
      /\ s.op = "CREATE" /\ kind = "AUTHENTICATION" => drift'[p] = {"hash"}
      /\ s.op \in {"ALTER", "ALTER_SAFELY"} =>
           drift'[p] = IF kind = "AUTHENTICATION" /\ s.target = "body"
                       THEN {"hash"} ELSE drift[p] \ {s.target}
      /\ s.op \in {"ATTACH", "DETACH"} => drift'[p] = drift[p]
  BY <1>3, <1>4, EffectIs
<1>6. /\ s = [op |-> s.op, target |-> s.target]
      /\ s.op \in {"CREATE", "ALTER", "ALTER_SAFELY", "ATTACH", "DETACH", "DROP"}
  BY <1>4 DEF Statements
<1>7. p # None
  BY <1>3, PolicyAssumption
<1>8. p \in policies' \/ Ahead(p)' \cap Ops({"CREATE"}) # {}
  <2>1. CASE s.op \in {"CREATE", "DROP"}
    BY <1>4, <1>5, <2>1
  <2>2. CASE s.op \notin {"CREATE", "DROP"}
    <3>1. s \notin Ops({"CREATE"})
      BY <2>2 DEF Ops
    <3> QED
      BY <1>4, <1>5, <2>2, <3>1 DEF WillBeRight
  <2> QED
    BY <2>1, <2>2
<1>9. ASSUME NEW a \in drift'[p]
      PROVE  Ahead(p)' \cap (Ops({"CREATE"}) \cup Repairs(a)) # {}
  <2>1. CASE s.op \in {"CREATE", "DROP"}
    <3>1. kind = "AUTHENTICATION" /\ s.op = "CREATE" /\ a = "hash"
      BY <1>5, <1>9, <2>1
    <3>2. s \in Resets
      BY <1>4, <1>6, <3>1 DEF Resets, Statement
    <3> QED
      BY <1>4, <3>1, <3>2
  <2>2. CASE s.op \in {"ALTER", "ALTER_SAFELY"} /\ kind = "AUTHENTICATION" /\ s.target = "body"
    <3>1. a = "hash" /\ s \in Resets
      BY <1>4, <1>5, <1>9, <2>2 DEF Resets, Repairs
    <3> QED
      BY <1>4, <2>2, <3>1
  <2>3. CASE s.op \in {"ALTER", "ALTER_SAFELY"} /\ ~(kind = "AUTHENTICATION" /\ s.target = "body")
    <3>1. a \in drift[p] /\ a # s.target
      BY <1>5, <1>9, <2>3
    <3>2. s \notin Ops({"CREATE"}) \cup Repairs(a)
      BY <2>3, <3>1 DEF Ops, Repairs
    <3> QED
      BY <1>4, <3>1, <3>2 DEF WillBeRight
  <2>4. CASE s.op \in {"ATTACH", "DETACH"}
    <3>1. a \in drift[p]
      BY <1>5, <1>9, <2>4
    <3>2. s \notin Ops({"CREATE"}) \cup Repairs(a)
      BY <2>4 DEF Ops, Repairs
    <3> QED
      BY <1>4, <3>1, <3>2 DEF WillBeRight
  <2> QED
    BY <1>6, <2>1, <2>2, <2>3, <2>4
<1>10. ASSUME NEW t \in Targets, on'[t] = p, t \notin claims[p]
       PROVE  Statement("DETACH", t) \in Ahead(p)'
  <2>1. on[t] = p /\ ~(s.op = "DETACH" /\ s.target = t)
    BY <1>4, <1>5, <1>7, <1>10
  <2>2. s # Statement("DETACH", t)
    BY <2>1 DEF Statement
  <2> QED
    BY <1>4, <1>10, <2>1, <2>2 DEF WillBeRight
<1>11. ASSUME IsSteady, NEW t \in claims[p]
       PROVE  InPlace(p, t)' \/ Statement("ATTACH", t) \in Ahead(p)'
  <2>0. t \in Targets
    BY <1>3
  <2>1. InPlace(p, t) \/ Statement("ATTACH", t) \in Ahead(p)
    BY <1>11 DEF WillBeRight
  <2>2. CASE s = Statement("ATTACH", t)
    <3>1. s.op = "ATTACH" /\ s.target = t
      BY <2>2 DEF Statement
    <3> QED
      BY <1>1, <1>5, <2>0, <3>1 DEF InPlace
  <2>3. CASE s = Statement("DETACH", t)
    BY <1>4, <2>3
  <2>4. CASE s # Statement("ATTACH", t) /\ s # Statement("DETACH", t)
    <3>1. ~(s.op = "ATTACH" /\ s.target = t) /\ ~(s.op = "DETACH" /\ s.target = t)
      BY <1>6, <2>4 DEF Statement
    <3>2. on'[t] = on[t]
      BY <1>5, <2>0, <3>1
    <3>3. InPlace(p, t) => InPlace(p, t)'
      BY <1>1, <1>5, <3>2 DEF InPlace
    <3> QED
      BY <1>4, <2>1, <2>4, <3>3
  <2> QED
    BY <2>2, <2>3, <2>4
<1> QED
  BY <1>1, <1>8, <1>9, <1>10, <1>11 DEF WillBeRight

\* A statement keeps the invariant.
LEMMA ExecuteStep == ASSUME PolicyInv, NEW p \in Names, Execute(p) PROVE PolicyInv'
<1> DEFINE s == Head(task[p].plan)
<1>1. /\ kind' = kind /\ declared' = declared /\ claims' = claims /\ SetupIsKnown'
      /\ \A r, q : IsOrdered(r, q) => IsOrdered(r, q)'
  BY SameSetup DEF Execute, PolicyInv, TypeOK
<1>2. /\ HasSucceeded' <=> HasSucceeded
      /\ HasSettled' <=> HasSettled
      /\ Settings' = Settings
  BY SameApplies DEF Execute
<1>3. UNCHANGED <<setup, apply, pc, existing, ok, faults>>
  BY DEF Execute
<1>4. /\ declared \subseteq Names /\ claims \in [Names -> SUBSET Targets] /\ policies \subseteq Names
  BY ConfigurationIs DEF PolicyInv, TypeOK
<1>5. /\ s \in Ahead(p) /\ s \in Statements /\ IsAllowed(s) /\ IsLegal(p, s) /\ Effect(p, s)
      /\ s.op \in {"ATTACH", "DETACH"} => s.target \in Targets
      /\ s.op = "ATTACH" => s.target \in claims[p]
      /\ task' \in [Names -> [stage : Stages, plan : Seq(Statements)]]
      /\ task[p].stage = "running" /\ task'[p].stage = "running"
      /\ \A q \in Names : q # p => task'[q] = task[q] /\ Ahead(q)' = Ahead(q)
      /\ Ahead(p)' \subseteq Ahead(p)
      /\ \A x \in Ahead(p) : x = s \/ x \in Ahead(p)'
      /\ pc \in {"drop", "create"} /\ declared # {} /\ apply \in DOMAIN setup.applies
      /\ pc = "drop" => p \notin declared /\ s.op \in {"DETACH", "DROP"}
      /\ pc = "create" => p \in declared /\ IsOrdered(p, task'[p].plan)
  BY ExecuteIs
<1>6. s = Head(task[p].plan)
  OBVIOUS
<1>20. s \in Statements /\ Effect(p, s) /\ (s.op \in {"ATTACH", "DETACH"} => s.target \in Targets)
  BY <1>5
<1> HIDE DEF s
<1>7. /\ s.op = "CREATE" => policies' = policies \cup {p}
      /\ s.op = "DROP" => policies' = policies \ {p}
      /\ s.op \notin {"CREATE", "DROP"} => policies' = policies
      /\ on' \in [Targets -> Names \cup {None}]
      /\ \A t \in Targets : on'[t] = IF s.op = "ATTACH" /\ s.target = t THEN p
                                     ELSE IF s.op = "DETACH" /\ s.target = t THEN None
                                     ELSE on[t]
      /\ off' \subseteq off
      /\ drift' \in [Names -> SUBSET AspectsOf(kind)]
      /\ \A q \in Names : q # p => drift'[q] = drift[q]
      /\ s.op \in {"CREATE", "DROP"} /\ ~(kind = "AUTHENTICATION" /\ s.op = "CREATE") => drift'[p] = {}
      /\ s.op = "CREATE" /\ kind = "AUTHENTICATION" => drift'[p] = {"hash"}
      /\ s.op \in {"ALTER", "ALTER_SAFELY"} =>
           drift'[p] = IF kind = "AUTHENTICATION" /\ s.target = "body"
                       THEN {"hash"} ELSE drift[p] \ {s.target}
      /\ s.op \in {"ATTACH", "DETACH"} => drift'[p] = drift[p]
  BY <1>20, EffectIs
<1>8. s.op \in {"CREATE", "ALTER", "ALTER_SAFELY", "ATTACH", "DETACH", "DROP"}
  BY <1>5 DEF Statements
<1>9. policies' \subseteq policies \cup {p}
  BY <1>7
<1>10. TypeOK'
  BY <1>1, <1>3, <1>4, <1>5, <1>7, <1>9 DEF PolicyInv, TypeOK
<1>11. Bookkeeping'
  <2>1. ASSUME NEW t \in Targets PROVE on'[t] \in policies' \cup {None}
    <3>1. on[t] \in policies \cup {None}
      BY DEF PolicyInv, Bookkeeping
    <3>2. s.op = "DROP" => on[t] # p
      BY <1>5 DEF IsLegal, PolicyRefs
    <3>3. s.op = "ATTACH" => p \in policies
      BY <1>5 DEF IsLegal
    <3> QED
      BY <1>7, <1>8, <3>1, <3>2, <3>3
  <2>2. ASSUME NEW q \in Names
        PROVE  /\ task'[q].stage # "running" => task'[q].plan = << >>
               /\ q # p => (q \in policies' <=> q \in policies)
    BY <1>5, <1>7 DEF PolicyInv, Bookkeeping
  <2>3. ~Over'
    BY <1>3, <1>5 DEF PolicyInv, Bookkeeping, Over
  <2>4. ASSUME pc = "drop", NEW q \in Names
        PROVE  /\ q \in declared => task'[q].stage = "none" /\ (q \in existing <=> q \in policies')
               /\ task'[q].stage = "queued" => q \in policies'
    BY <1>5, <2>2, <2>4 DEF PolicyInv, Bookkeeping
  <2>5. ASSUME pc = "create", NEW q \in Names
        PROVE  /\ q \notin declared => task'[q].stage \in {"none", "failed"}
               /\ task'[q].stage = "queued" => (q \in existing <=> q \in policies')
    BY <1>5, <2>2, <2>5 DEF PolicyInv, Bookkeeping
  <2> QED
    BY <1>1, <1>3, <1>5, <2>1, <2>2, <2>3, <2>4, <2>5 DEF Bookkeeping
<1>12. PlansAreSound'
  <2> SUFFICES ASSUME NEW q \in Names
               PROVE  /\ \A x \in Ahead(q)' :
                           /\ x.op \in {"ATTACH", "DETACH"} => x.target \in Targets
                           /\ x.op = "ATTACH" => x.target \in claims[q]
                           /\ x.op = "CREATE" => x.target = None
                      /\ pc = "drop" => \A x \in Ahead(q)' : x.op \in {"DETACH", "DROP"}
                      /\ pc = "create" => IsOrdered(q, task[q].plan)'
    BY <1>1, <1>3 DEF PlansAreSound
  <2>1. Ahead(q)' \subseteq Ahead(q)
    BY <1>5
  <2>2. pc = "create" => IsOrdered(q, task'[q].plan)
    BY <1>5 DEF PolicyInv, PlansAreSound
  <2>3. pc = "create" => IsOrdered(q, task[q].plan)'
    BY <1>1, <2>2
  <2> QED
    BY <2>1, <2>3 DEF PolicyInv, PlansAreSound
<1>13. HashIsHonest'
  <2> SUFFICES ASSUME kind = "AUTHENTICATION", NEW q \in Names, "body" \in drift'[q]
               PROVE  /\ "hash" \in drift'[q]
                      /\ \A i \in DOMAIN setup.applies :
                           "unsafe" \in setup.applies[i] \/ "policy" \notin setup.applies[i]
                      /\ Ahead(q)' \cap Repairs("hash") # {} /\ "policy" \in Settings =>
                           Head(task'[q].plan) \in Resets
    BY <1>1, <1>2, <1>3 DEF HashIsHonest
  <2>1. CASE q # p
    BY <1>5, <1>7, <2>1 DEF PolicyInv, HashIsHonest
  <2>2. CASE q = p
    <3>1. "policy" \in Settings
      BY <1>5 DEF IsAllowed
    <3>2. s.op \notin {"CREATE", "DROP"}
      BY <1>7, <2>2
    <3>3. ~(s.op \in {"ALTER", "ALTER_SAFELY"} /\ s.target = "body")
      BY <1>7, <2>2
    <3>4. "body" \in drift[p]
      BY <1>7, <1>8, <2>2, <3>2, <3>3
    <3>5. /\ "hash" \in drift[p]
          /\ \A i \in DOMAIN setup.applies :
               "unsafe" \in setup.applies[i] \/ "policy" \notin setup.applies[i]
          /\ Ahead(p) \cap Repairs("hash") # {} => s \in Resets
      BY <1>5, <1>6, <3>1, <3>4 DEF PolicyInv, HashIsHonest
    <3>6. s \notin Resets
      BY <3>2, <3>3 DEF Resets, Repairs, Statement
    <3>7. ~(s.op \in {"ALTER", "ALTER_SAFELY"} /\ s.target = "hash")
      BY <1>5, <3>5, <3>6 DEF Repairs
    <3>8. "hash" \in drift'[p]
      BY <1>7, <1>8, <3>2, <3>3, <3>5, <3>7
    <3>9. Ahead(p)' \cap Repairs("hash") = {}
      BY <1>5, <3>5, <3>6
    <3> QED
      BY <2>2, <3>5, <3>8, <3>9
  <2> QED
    BY <2>1, <2>2
<1>14. IsClean' => IsClean
  <2>1. \A q \in Names : task'[q].stage = task[q].stage
    BY <1>5
  <2> QED
    BY <1>2, <1>3, <2>1 DEF IsClean
<1>15. DropsAreAhead'
  <2> SUFFICES ASSUME pc = "drop", IsClean', NEW q \in policies' \ declared
               PROVE  task'[q].stage = "queued" \/ Ahead(q)' \cap Ops({"DROP"}) # {}
    BY <1>1, <1>3 DEF DropsAreAhead
  <2>1. q \in policies /\ (q = p => s.op # "DROP")
    BY <1>5, <1>7
  <2>2. task[q].stage = "queued" \/ Ahead(q) \cap Ops({"DROP"}) # {}
    BY <1>14, <2>1 DEF PolicyInv, DropsAreAhead
  <2>3. CASE q # p
    BY <1>4, <1>5, <2>1, <2>2, <2>3
  <2>4. CASE q = p
    <3>1. s \notin Ops({"DROP"})
      BY <2>1, <2>4 DEF Ops
    <3> QED
      BY <1>5, <2>2, <2>4, <3>1
  <2> QED
    BY <2>3, <2>4
<1>16. RestIsAhead'
  <2> SUFFICES ASSUME pc = "create", IsClean'
               PROVE  /\ policies' \subseteq declared
                      /\ \A q \in declared : task'[q].stage = "queued" \/ WillBeRight(q)'
    BY <1>1, <1>3 DEF RestIsAhead
  <2>1. policies \subseteq declared /\ \A q \in declared : task[q].stage = "queued" \/ WillBeRight(q)
    BY <1>14 DEF PolicyInv, RestIsAhead
  <2>2. p \in declared
    BY <1>5
  <2>3. WillBeRight(p)'
    <3>1. WillBeRight(p)
      BY <1>5, <2>1, <2>2
    <3> QED
      BY <2>2, <3>1, SelfStays
  <2>4. ASSUME NEW q \in declared, q # p PROVE task'[q].stage = "queued" \/ WillBeRight(q)'
    <3>1. CASE task[q].stage = "queued"
      BY <1>4, <1>5, <2>4, <3>1
    <3>2. CASE WillBeRight(q)
      BY <2>2, <2>4, <3>2, OthersStay
    <3> QED
      BY <2>1, <3>1, <3>2
  <2> QED
    BY <1>9, <2>1, <2>2, <2>3, <2>4
<1>17. ~HasSettled
  BY <1>5 DEF PolicyInv, AfterSettling
<1>18. AfterSuccess'
  <2> SUFFICES ASSUME HasSucceeded
               PROVE  /\ PoliciesAreDeclared'
                      /\ \A t \in Targets : on'[t] # None => t \in claims[on'[t]]
                      /\ \A q \in Names : kind # "ROW_ACCESS" => Ahead(q)' \subseteq Ops({"ATTACH"})
    BY <1>1, <1>2 DEF AfterSuccess
  <2>1. kind # "ROW_ACCESS"
    BY <1>17 DEF HasSettled
  <2>2. /\ PoliciesAreDeclared
        /\ \A t \in Targets : on[t] # None => t \in claims[on[t]]
        /\ \A q \in Names : Ahead(q) \subseteq Ops({"ATTACH"})
    BY <2>1 DEF PolicyInv, AfterSuccess
  <2>3. s.op = "ATTACH"
    BY <1>5, <2>2 DEF Ops
  <2>4. PoliciesAreDeclared'
    <3>1. policies' = policies /\ \A q \in Names : drift'[q] = drift[q]
      BY <1>7, <2>3
    <3> QED
      BY <1>1, <1>4, <2>2, <3>1 DEF PoliciesAreDeclared
  <2>5. \A t \in Targets : on'[t] # None => t \in claims[on'[t]]
    BY <1>5, <1>7, <2>2, <2>3
  <2>6. \A q \in Names : Ahead(q)' \subseteq Ops({"ATTACH"})
    BY <1>5, <2>2
  <2> QED
    BY <2>4, <2>5, <2>6
<1>19. AfterSettling'
  BY <1>2, <1>17 DEF AfterSettling
<1> QED
  BY <1>10, <1>11, <1>12, <1>13, <1>15, <1>16, <1>18, <1>19 DEF PolicyInv

-----------------------------------------------------------------------------
(* The theorems.                                                           *)

\* Every step keeps the invariant.
LEMMA NextStep == PolicyInv /\ [Next]_vars => PolicyInv'
<1> SUFFICES ASSUME PolicyInv, [Next]_vars PROVE PolicyInv'
  OBVIOUS
<1>1. CASE SkipAll
  BY <1>1, SkipAllStep
<1>2. CASE Begin
  BY <1>2, BeginStep
<1>3. CASE SubmitBatch
  BY <1>3, SubmitBatchStep
<1>4. CASE Finish
  BY <1>4, FinishStep
<1>5. CASE Crash
  BY <1>5, CrashStep
<1>6. ASSUME NEW p \in Names, Worker(p) PROVE PolicyInv'
  <2>1. ASSUME NEW order \in Orders, Read(p, order) PROVE PolicyInv'
    BY <2>1, ReadStep
  <2>2. CASE Execute(p)
    BY <2>2, ExecuteStep
  <2>3. CASE Suggest(p)
    BY <2>3, SuggestStep
  <2>4. CASE Fail(p)
    BY <2>4, FailStep
  <2>5. CASE Return(p)
    BY <2>5, ReturnStep
  <2> QED
    BY <1>6, <2>1, <2>2, <2>3, <2>4, <2>5 DEF Worker
<1>7. CASE UNCHANGED vars
  BY <1>7, StutterStep
<1> QED
  BY <1>1, <1>2, <1>3, <1>4, <1>5, <1>6, <1>7 DEF Next, Idle

\* The invariant of every careful series of applies.
THEOREM PolicyInvHolds == ASSUME Careful PROVE Spec => []PolicyInv
<1>1. Init => PolicyInv
  BY InitStep
<1> QED
  BY <1>1, NextStep, PTL DEF Spec

\* What an account looks like when its references are settled.
LEMMA SettledTargets ==
  ASSUME PolicyInv, HasSettled, NEW t \in Targets
  PROVE  IsSettled(t)
<1>1. declared \subseteq Names
  BY ConfigurationIs DEF PolicyInv, TypeOK
<1>2. \A p \in Names : \A u \in claims[p] : InPlace(p, u)
  BY DEF PolicyInv, AfterSettling
<1>3. policies = declared /\ (on[t] # None => t \in claims[on[t]])
  BY DEF PolicyInv, AfterSuccess, HasSettled, PoliciesAreDeclared
<1>4. on[t] \in policies \cup {None}
  BY DEF PolicyInv, Bookkeeping
<1> QED
  BY <1>1, <1>2, <1>3, <1>4 DEF IsSettled, IsClaimed, InPlace

\* An apply that was allowed everything and exits 0 leaves exactly the declared
\* policies, as declared; row access policies are then on what they claim.
THEOREM OneApplySettlesHolds == ASSUME Careful PROVE Spec => []OneApplySettles
<1>1. ASSUME PolicyInv PROVE OneApplySettles
  <2> SUFFICES ASSUME HasSucceeded
               PROVE  /\ PoliciesAreDeclared
                      /\ \A t \in Targets : kind = "ROW_ACCESS" => IsSettled(t)
    BY DEF OneApplySettles, HasSucceeded
  <2>1. PoliciesAreDeclared /\ \A t \in Targets : on[t] # None => t \in claims[on[t]]
    BY <1>1 DEF PolicyInv, AfterSuccess
  <2>2. ASSUME kind = "ROW_ACCESS", NEW t \in Targets PROVE IsSettled(t)
    <3>1. HasSettled
      BY <2>2 DEF HasSettled
    <3> QED
      BY <1>1, <3>1, SettledTargets
  <2> QED
    BY <2>1, <2>2
<1>2. PolicyInv => OneApplySettles
  BY <1>1
<1> QED
  BY <1>2, PolicyInvHolds, PTL

\* Two applies in a row that were allowed everything and exit 0 leave exactly
\* the declared policies, as declared, on what they claim, whatever was there.
THEOREM TwoAppliesSettleHolds == ASSUME Careful PROVE Spec => []TwoAppliesSettle
<1>1. ASSUME PolicyInv PROVE TwoAppliesSettle
  <2> SUFFICES ASSUME apply > 2, Succeeded(apply - 1), Succeeded(apply - 2), declared # {}
               PROVE  PoliciesAreDeclared /\ \A t \in Targets : IsSettled(t)
    BY DEF TwoAppliesSettle
  <2>1. apply \in Nat
    BY <1>1 DEF PolicyInv, TypeOK
  <2>2. HasSucceeded /\ HasSettled
    BY <2>1 DEF HasSucceeded, HasSettled
  <2>3. PoliciesAreDeclared
    BY <1>1, <2>2 DEF PolicyInv, AfterSuccess
  <2> QED
    BY <1>1, <2>2, <2>3, SettledTargets
<1>2. PolicyInv => TwoAppliesSettle
  BY <1>1
<1> QED
  BY <1>2, PolicyInvHolds, PTL

\* The apply after them, whatever its switches, finds nothing to do.
THEOREM SettledPlanIsEmptyHolds == ASSUME Careful PROVE Spec => []SettledPlanIsEmpty
<1>1. ASSUME PolicyInv PROVE SettledPlanIsEmpty
  <2> SUFFICES ASSUME apply > 2, Succeeded(apply - 1), Succeeded(apply - 2), NEW p \in Names
               PROVE  task[p].plan = << >>
    BY DEF SettledPlanIsEmpty
  <2>1. CASE task[p].stage # "running"
    BY <1>1, <2>1 DEF PolicyInv, Bookkeeping
  <2>2. CASE task[p].stage = "running"
    <3>1. declared # {} /\ IsSeq(task[p].plan)
      BY <1>1, <2>2, WorkerIs
    <3>2. apply \in Nat
      BY <1>1 DEF PolicyInv, TypeOK
    <3>3. HasSettled
      BY <3>1, <3>2 DEF HasSucceeded, HasSettled
    <3>4. Range(task[p].plan) = {}
      BY <1>1, <3>3 DEF PolicyInv, AfterSettling, Ahead
    <3> QED
      BY <3>1, <3>4, EmptyByRange
  <2> QED
    BY <2>1, <2>2
<1>2. PolicyInv => SettledPlanIsEmpty
  BY <1>1
<1> QED
  BY <1>2, PolicyInvHolds, PTL

=============================================================================
