---------------------------- MODULE AutosyncProofs --------------------------
(***************************************************************************)
(* What AutosyncCommit guarantees, for any number of agents, commits and   *)
(* failing rounds.  The heart is a fact about repos whose commits are all  *)
(* on trunk: a repo with a single leaf is a chain, and a chain has a       *)
(* single leaf.  While no cause of a fork has occurred the hub is a chain, *)
(* the repo an attempt is about to push is a chain that contains the hub,  *)
(* and so the hub stays one.                                               *)
(***************************************************************************)
EXTENDS Autosync, FiniteSetTheorems, WellFoundedInduction, TLAPS

\* A set of natural numbers that is not empty has a least element.
LEMMA LeastElement ==
  ASSUME NEW S \in SUBSET Nat, S # {}
  PROVE  \E x \in S : \A y \in S : x <= y
<1>1. PICK x \in S : \A y \in S : ~(<<y, x>> \in OpToRel(<, Nat))
  BY NatLessThanWellFounded, WFMin
<1>2. \A y \in S : <<y, x>> \in OpToRel(<, Nat) <=> y < x
  BY DEF OpToRel
<1>3. \A y \in S : ~(y < x)
  BY <1>1, <1>2, Zenon
<1> QED
  BY <1>3

\* One that is bounded has a greatest element.
LEMMA GreatestElement ==
  ASSUME NEW n \in Nat, NEW S \in SUBSET (0..n), S # {}
  PROVE  \E x \in S : \A y \in S : y <= x
<1> DEFINE D == {n - y : y \in S}
<1>1. D \in SUBSET Nat /\ D # {}
  <2>1. D \in SUBSET Nat
    OBVIOUS
  <2>2. PICK y \in S : TRUE
    OBVIOUS
  <2>3. n - y \in D
    OBVIOUS
  <2> QED
    BY <2>1, <2>3, Zenon
<1>2. PICK d \in D : \A e \in D : d <= e
  BY <1>1, LeastElement
<1>3. PICK x \in S : d = n - x
  OBVIOUS
<1>4. ASSUME NEW y \in S PROVE y <= x
  <2>1. n - y \in D
    OBVIOUS
  <2>2. n - x <= n - y
    BY <1>2, <1>3, <2>1
  <2> QED
    BY <2>2
<1> QED
  BY <1>4

-----------------------------------------------------------------------------
(* Repos with one branch *)

\* The commits are numbered, and every commit but the root comes after its
\* parent.
LEMMA Numbered ==
  ASSUME TypeOK
  PROVE  /\ Cardinality(Made) \in Nat \ {0} /\ Made = 0..(Cardinality(Made) - 1)
         /\ Made \subseteq Nat /\ \A c \in Made : parent[c] \in Made
         /\ \A c \in Made \ {0} : parent[c] < c
<1>1. Cardinality(Made) \in Nat \ {0}
  BY AutosyncAssumption DEF TypeOK
<1>2. Made = 0..(Cardinality(Made) - 1)
  BY DEF TypeOK
<1>3. Made \subseteq Nat
  BY <1>1, <1>2
<1>4. (\A c \in Made : parent[c] \in Made) /\ \A c \in Made \ {0} : parent[c] < c
  BY DEF TypeOK
<1> QED
  BY <1>1, <1>2, <1>3, <1>4

\* A repo with at most one leaf is a chain that ends in this leaf.  Of all
\* pairs that are out of line take one with the greatest x: x is not the
\* greatest commit, hence no leaf, and its child gives another such pair.
LEMMA SingleLeafIsLinear ==
  ASSUME TypeOK, \A c \in Made : branch[c] = "trunk",
         NEW S \in SUBSET Made, Closed(S), NEW top \in S, Leaves(S, "trunk") \subseteq {top}
  PROVE  Linear(S) /\ \A c \in S : c <= top
<1> DEFINE n == Cardinality(Made) - 1
<1>1. n \in Nat /\ Made = 0..n /\ S \in SUBSET (0..n) /\ S \subseteq Nat
  BY Numbered
<1>2. \A c \in S \ {0} : parent[c] \in S /\ parent[c] < c
  BY Numbered DEF Closed
<1>3. \A c \in S \ {top} : \E d \in S \ {0} : parent[d] = c
  BY DEF Leaves
<1> HIDE DEF n
<1>4. \A c \in S : c <= top
  <2>1. PICK m \in S : \A y \in S : y <= m
    <3>1. S # {}
      OBVIOUS
    <3> QED
      BY <1>1, <3>1, GreatestElement
  <2>2. m = top
    <3> SUFFICES ASSUME m # top PROVE FALSE
      OBVIOUS
    <3>1. PICK d \in S \ {0} : parent[d] = m
      BY <1>3
    <3>2. m < d /\ d <= m
      BY <1>2, <2>1, <3>1
    <3> QED
      BY <1>1, <3>2
  <2> QED
    BY <2>1, <2>2
<1>5. Linear(S)
  <2> SUFFICES ASSUME ~Linear(S) PROVE FALSE
    OBVIOUS
  <2> DEFINE X == {x \in S : \E y \in S : x < y /\ parent[y] < x}
  <2>1. PICK c \in S, d \in S : d < c /\ ~(d <= parent[c])
    BY DEF Linear
  <2>2. d \in X
    <3>1. c # 0 /\ c \in Nat /\ d \in Nat
      BY <1>1, <2>1
    <3>2. parent[c] \in Nat
      BY <1>1, <1>2, <3>1
    <3>3. parent[c] < d
      BY <2>1, <3>1, <3>2
    <3> QED
      BY <2>1, <3>3
  <2>3. X \in SUBSET (0..n) /\ X # {}
    BY <1>1, <2>2
  <2>4. PICK x \in X : \A z \in X : z <= x
    BY <1>1, <2>3, GreatestElement
  <2>5. PICK y \in S : x < y /\ parent[y] < x
    OBVIOUS
  <2>6. x \in S /\ x \in Nat /\ y \in Nat /\ y # 0 /\ parent[y] \in Nat
    <3>1. x \in S /\ x \in Nat /\ y \in Nat
      BY <1>1
    <3>2. y # 0
      BY <2>5, <3>1
    <3> QED
      BY <1>1, <1>2, <3>1, <3>2
  <2>7. x # top
    BY <1>1, <1>4, <2>5, <2>6
  <2>8. PICK z \in S \ {0} : parent[z] = x
    BY <1>3, <2>6, <2>7
  <2>9. z \in Nat /\ x < z /\ z # y
    BY <1>1, <1>2, <2>5, <2>6, <2>8
  <2>10. CASE z < y
    <3>1. parent[y] < z
      BY <2>5, <2>6, <2>9
    <3>2. z \in X
      BY <2>10, <3>1
    <3> QED
      BY <2>4, <2>6, <2>9, <3>2
  <2>11. CASE y < z
    <3>1. y \in X
      BY <2>5, <2>8, <2>11
    <3> QED
      BY <2>4, <2>5, <2>6, <3>1
  <2> QED
    BY <2>6, <2>9, <2>10, <2>11
<1> QED
  BY <1>4, <1>5

\* A chain has at most one leaf: the least commit after an earlier leaf would
\* be its child.
LEMMA LinearHasOneLeaf ==
  ASSUME TypeOK, \A c \in Made : branch[c] = "trunk",
         NEW S \in SUBSET Made, Closed(S), Linear(S),
         NEW u \in Leaves(S, "trunk"), NEW v \in Leaves(S, "trunk")
  PROVE  ~(u < v)
<1> SUFFICES ASSUME u < v PROVE FALSE
  OBVIOUS
<1>1. u \in S /\ v \in S /\ S \subseteq Nat
  BY Numbered DEF Leaves
<1>2. \A c \in S \ {0} : parent[c] \in S /\ parent[c] < c
  BY Numbered DEF Closed
<1> DEFINE X == {c \in S : u < c}
<1>3. X \in SUBSET Nat /\ X # {}
  BY <1>1
<1>4. PICK m \in X : \A c \in X : m <= c
  BY <1>3, LeastElement
<1>5. m \in S /\ u < m /\ m \in Nat /\ u \in Nat /\ m # 0
  BY <1>1
<1>6. parent[m] \in S /\ parent[m] < m /\ parent[m] \in Nat
  BY <1>1, <1>2, <1>5
<1>7. u <= parent[m]
  BY <1>1, <1>5 DEF Linear
<1>8. parent[m] \notin X
  BY <1>4, <1>5, <1>6
<1>9. parent[m] = u
  BY <1>5, <1>6, <1>7, <1>8
<1> QED
  BY <1>5, <1>9 DEF Leaves

\* Then no branch of the repo has two leaves.
LEMMA LinearIsNotForked ==
  ASSUME TypeOK, \A c \in Made : branch[c] = "trunk",
         NEW S \in SUBSET Made, Closed(S), Linear(S)
  PROVE  ~Forked(S)
<1>1. Leaves(S, "side") = {}
  BY DEF Leaves
<1>2. Leaves(S, "trunk") = {} \/ \E u : Leaves(S, "trunk") = {u}
  <2> SUFFICES ASSUME NEW u \in Leaves(S, "trunk"), NEW v \in Leaves(S, "trunk") PROVE u = v
    BY Zenon
  <2>1. ~(u < v) /\ ~(v < u)
    BY LinearHasOneLeaf
  <2>2. u \in Nat /\ v \in Nat
    BY Numbered DEF Leaves
  <2> QED
    BY <2>1, <2>2
<1>3. \A b \in {"trunk", "side"} : Cardinality(Leaves(S, b)) \in {0, 1}
  BY <1>1, <1>2, FS_EmptySet, FS_Singleton
<1> QED
  BY <1>3 DEF Forked

-----------------------------------------------------------------------------
(* Steps of an attempt *)

AttemptSet == [Agent -> {Idle} \cup Attempt]

LEMMA AttemptTypes ==
  ASSUME TypeOK, NEW a \in Agent
  PROVE  /\ attempt[a].step \in {"idle", "pull", "check", "checkin", "push"}
         /\ attempt[a].step # "idle" => attempt[a] \in Attempt /\ attempt[a] # Idle
         /\ attempt[a] # Idle => attempt[a].step # "idle"
BY DEF TypeOK, Idle, Attempt

LEMMA GotoFacts ==
  ASSUME TypeOK, NEW a \in Agent, attempt[a].step # "idle",
         NEW s \in {"check", "checkin", "push"}, Goto(a, s)
  PROVE  /\ attempt' \in AttemptSet /\ \A x \in Agent \ {a} : attempt'[x] = attempt[x]
         /\ attempt'[a].step = s /\ attempt'[a].mode = attempt[a].mode
         /\ attempt'[a].bypass = attempt[a].bypass
<1>1. attempt[a] \in Attempt
  BY AttemptTypes
<1>2. attempt' = [attempt EXCEPT ![a] = [attempt[a] EXCEPT !.step = s]]
  BY DEF Goto
<1>3. attempt'[a] = [attempt[a] EXCEPT !.step = s]
        /\ \A x \in Agent \ {a} : attempt'[x] = attempt[x]
  BY <1>2 DEF TypeOK
<1>4. [attempt[a] EXCEPT !.step = s] \in Attempt
  BY <1>1 DEF Attempt
<1>5. attempt' \in AttemptSet
  BY <1>2, <1>4 DEF TypeOK, AttemptSet
<1> QED
  BY <1>1, <1>3, <1>5 DEF Attempt

LEMMA ReturnFacts ==
  ASSUME TypeOK, NEW a \in Agent, Return(a)
  PROVE  /\ attempt' \in AttemptSet /\ \A x \in Agent \ {a} : attempt'[x] = attempt[x]
         /\ attempt'[a] = Idle /\ attempt'[a].step = "idle"
<1>1. attempt'[a] = Idle /\ \A x \in Agent \ {a} : attempt'[x] = attempt[x]
  BY DEF TypeOK, Return
<1>2. attempt' \in AttemptSet
  BY DEF TypeOK, Return, AttemptSet
<1> QED
  BY <1>1, <1>2 DEF Idle

LEMMA BeginFacts ==
  ASSUME TypeOK, NEW a \in Agent, NEW m \in Mode, NEW b \in Bypass, Begin(a, m, b)
  PROVE  /\ attempt' \in AttemptSet /\ \A x \in Agent \ {a} : attempt'[x] = attempt[x]
         /\ attempt'[a].step = (IF m = "off" THEN "check" ELSE "pull")
         /\ attempt'[a].mode = m /\ attempt'[a].bypass = b
<1> DEFINE s == IF m = "off" THEN "check" ELSE "pull"
<1>1. attempt' = [attempt EXCEPT ![a] = [step |-> s, mode |-> m, bypass |-> b]]
  BY DEF Begin
<1>2. s \in {"pull", "check"}
  OBVIOUS
<1>3. [step |-> s, mode |-> m, bypass |-> b] \in Attempt
  BY <1>2 DEF Attempt
<1> HIDE DEF s
<1>4. attempt' \in AttemptSet
  BY <1>1, <1>3 DEF TypeOK, AttemptSet
<1>5. attempt'[a] = [step |-> s, mode |-> m, bypass |-> b]
        /\ \A x \in Agent \ {a} : attempt'[x] = attempt[x]
  BY <1>1 DEF TypeOK
<1> QED
  BY <1>4, <1>5 DEF s

-----------------------------------------------------------------------------
(* New commits *)

\* A new commit takes the next number and leaves every other where it was.
LEMMA NewCommitFacts ==
  ASSUME TypeOK, NEW a \in Agent, NEW from \in Made, NEW b \in {"trunk", "side"},
         NewCommit(a, from, b)
  PROVE  LET c == Cardinality(Made) IN
         /\ c \notin Made /\ c \in Nat \ {0} /\ Made' = Made \cup {c}
         /\ Cardinality(Made)' = c + 1 /\ Made' = 0..c /\ c + 1 \in 1..(MaxCommits + 1)
         /\ parent'[c] = from /\ branch'[c] = b
         /\ \A d \in Made : parent'[d] = parent[d] /\ branch'[d] = branch[d]
         /\ \A d \in Made : d < c
         /\ parent' \in [Made' -> Made'] /\ branch' \in [Made' -> {"trunk", "side"}]
         /\ local'[a] = local[a] \cup {c}
         /\ \A x \in Agent \ {a} : local'[x] = local[x]
         /\ local' \in [Agent -> SUBSET Made']
<1> DEFINE c == Cardinality(Made)
<1>1. c \in Nat \ {0} /\ Made = 0..(c - 1) /\ \A d \in Made : d \in Nat /\ parent[d] \in Made
  BY Numbered
<1>2. /\ c <= MaxCommits
      /\ parent' = [d \in Made \cup {c} |-> IF d = c THEN from ELSE parent[d]]
      /\ branch' = [d \in Made \cup {c} |-> IF d = c THEN b ELSE branch[d]]
      /\ local' = [local EXCEPT ![a] = @ \cup {c}]
  BY DEF NewCommit
<1> HIDE DEF c
<1>3. c \notin Made /\ Made \cup {c} = 0..c /\ \A d \in Made : d < c
  BY <1>1
<1>4. Made' = Made \cup {c}
  BY <1>2 DEF Made
<1>5. Cardinality(Made)' = c + 1
  <2>1. Cardinality(0..c) = c + 1
    BY <1>1, FS_Interval
  <2> QED
    BY <1>3, <1>4, <2>1
<1>6. c + 1 \in 1..(MaxCommits + 1)
  BY <1>1, <1>2, AutosyncAssumption
<1>7. parent'[c] = from /\ branch'[c] = b
        /\ \A d \in Made : parent'[d] = parent[d] /\ branch'[d] = branch[d]
  BY <1>2, <1>3
<1>8. parent' \in [Made \cup {c} -> Made \cup {c}]
  BY <1>1, <1>2
<1>9. branch' \in [Made \cup {c} -> {"trunk", "side"}]
  BY <1>2 DEF TypeOK
<1>10. /\ local'[a] = local[a] \cup {c}
       /\ \A x \in Agent \ {a} : local'[x] = local[x]
       /\ local' \in [Agent -> SUBSET (Made \cup {c})]
  BY <1>2 DEF TypeOK
<1>11. c \notin Made /\ c \in Nat \ {0} /\ Made' = 0..c /\ \A d \in Made : d < c
  BY <1>1, <1>3, <1>4
<1> QED
  BY <1>4, <1>5, <1>6, <1>7, <1>8, <1>9, <1>10, <1>11 DEF c

-----------------------------------------------------------------------------
\* The steps that make a commit, those that move commits between repos, and
\* the rest of AutosyncCommit.
CommitStep(a) == Checkin(a) \/ AgentCommit(a)
PushStep(a) == Push(a) \/ PushFails(a)
PullStep(a) == Pull(a) \/ PullFails(a)

\* The commit of a step that makes one: its parent and its branch.
LEMMA CommitStepFacts ==
  ASSUME TypeOK, NEW a \in Agent, CommitStep(a)
  PROVE  \E from \in local[a], b \in {"trunk", "side"} : NewCommit(a, from, b)
<1>1. CASE Checkin(a)
  <2>1. checkout[a] \in local[a] /\ checkout[a] \in Made
    BY DEF TypeOK
  <2>2. branch[checkout[a]] \in {"trunk", "side"}
    BY <2>1 DEF TypeOK
  <2>3. NewCommit(a, checkout[a],
          IF attempt[a].bypass = "branch" THEN "side" ELSE branch[checkout[a]])
    BY <1>1 DEF Checkin
  <2> QED
    BY <2>1, <2>2, <2>3
<1>2. CASE AgentCommit(a)
  BY <1>2 DEF AgentCommit, TypeOK
<1> QED
  BY <1>1, <1>2 DEF CommitStep

\* Types after a step that makes no commit.
LEMMA KeptTypes ==
  ASSUME TypeOK, UNCHANGED <<parent, branch>>,
         local' \in [Agent -> SUBSET Made], hub' \subseteq Made,
         checkout' \in [Agent -> Made], \A x \in Agent : checkout'[x] \in local'[x],
         tip' \in [Agent -> SUBSET Made], \A x \in Agent : tip'[x] \subseteq local'[x],
         attempt' \in AttemptSet, failures' \in 0..MaxFailures, causes' \subseteq Cause,
         pending' \in [Agent -> SUBSET Made], reported' \subseteq Made
  PROVE  TypeOK'
<1>1. Made' = Made
  BY DEF Made
<1> QED
  BY <1>1 DEF TypeOK, AttemptSet

LEMMA FailTypes ==
  ASSUME TypeOK, Fail
  PROVE  failures' \in 0..MaxFailures
BY AutosyncAssumption DEF TypeOK, Fail

LEMMA NextTypeOK == TypeOK /\ [Next]_vars => TypeOK'
<1> SUFFICES ASSUME TypeOK, [Next]_vars PROVE TypeOK'
  OBVIOUS
<1>a. /\ local \in [Agent -> SUBSET Made] /\ hub \subseteq Made
      /\ checkout \in [Agent -> Made] /\ (\A x \in Agent : checkout[x] \in local[x])
      /\ tip \in [Agent -> SUBSET Made] /\ (\A x \in Agent : tip[x] \subseteq local[x])
      /\ attempt \in AttemptSet /\ failures \in 0..MaxFailures /\ causes \subseteq Cause
      /\ pending \in [Agent -> SUBSET Made] /\ reported \subseteq Made
  BY DEF TypeOK, AttemptSet
<1>1. ASSUME NEW a \in Agent, NEW m \in Mode, NEW b \in Bypass, Begin(a, m, b) PROVE TypeOK'
  <2>1. causes' \subseteq Cause
    BY <1>a, <1>1 DEF Begin, Cause
  <2>2. attempt' \in AttemptSet
    BY <1>1, BeginFacts
  <2>3. UNCHANGED <<tip, parent, branch, local, hub, checkout, failures, pending, reported>>
    BY <1>1 DEF Begin
  <2> QED
    BY <1>a, <2>1, <2>2, <2>3, KeptTypes
<1>2. ASSUME NEW a \in Agent, PullStep(a) PROVE TypeOK'
  <2>1. /\ local' \in [Agent -> SUBSET Made]
        /\ \A x \in Agent : local[x] \subseteq local'[x]
    BY <1>a, <1>2 DEF PullStep, Pull, PullFails
  <2>2. attempt' \in AttemptSet
    BY <1>2, GotoFacts, ReturnFacts DEF PullStep, Pull, PullFails
  <2>3. failures' \in 0..MaxFailures
    BY <1>a, <1>2, FailTypes DEF PullStep, Pull, PullFails
  <2>4. UNCHANGED <<tip, parent, branch, hub, checkout, causes, pending, reported>>
    BY <1>2 DEF PullStep, Pull, PullFails
  <2> QED
    BY <1>a, <2>1, <2>2, <2>3, <2>4, KeptTypes
<1>3. ASSUME NEW a \in Agent, ForkCheck(a) \/ CheckinFails(a) PROVE TypeOK'
  <2>1. attempt' \in AttemptSet
    BY <1>3, GotoFacts, ReturnFacts DEF ForkCheck, CheckinFails
  <2>2. failures' \in 0..MaxFailures
    BY <1>a, <1>3, FailTypes DEF ForkCheck, CheckinFails
  <2>3. UNCHANGED <<tip, parent, branch, local, hub, checkout, causes, pending, reported>>
    BY <1>3 DEF ForkCheck, CheckinFails
  <2> QED
    BY <1>a, <2>1, <2>2, <2>3, KeptTypes
<1>4. ASSUME NEW a \in Agent, CommitStep(a) PROVE TypeOK'
  <2>1. PICK from \in local[a], b \in {"trunk", "side"} : NewCommit(a, from, b)
    BY <1>4, CommitStepFacts
  <2> DEFINE c == Cardinality(Made)
  <2>2. from \in Made
    BY <1>a
  <2>3. /\ c \in Nat \ {0} /\ Made' = Made \cup {c} /\ Made' = 0..c
        /\ Cardinality(Made)' = c + 1 /\ c + 1 \in 1..(MaxCommits + 1)
        /\ parent'[c] = from /\ (\A d \in Made : parent'[d] = parent[d] /\ d < c)
        /\ parent' \in [Made' -> Made'] /\ branch' \in [Made' -> {"trunk", "side"}]
        /\ local'[a] = local[a] \cup {c} /\ (\A x \in Agent \ {a} : local'[x] = local[x])
        /\ local' \in [Agent -> SUBSET Made']
    BY <2>1, <2>2, NewCommitFacts
  <2> HIDE DEF c
  <2>4. \A d \in Made' \ {0} : parent'[d] < d
    BY <2>2, <2>3, Numbered
  <2>5. Made' = 0..(Cardinality(Made)' - 1)
    BY <2>3
  <2>6. checkout' \in [Agent -> Made'] /\ \A x \in Agent : checkout'[x] \in local'[x]
    <3>1. checkout' \in {checkout, [checkout EXCEPT ![a] = c]}
      BY <1>4 DEF CommitStep, Checkin, AgentCommit, c
    <3>2. c \in Made' /\ c \in local'[a] /\ Made \subseteq Made' /\ \A x \in Agent : local[x] \subseteq local'[x]
      BY <2>3
    <3>3. checkout' \in [Agent -> Made']
      BY <1>a, <3>1, <3>2
    <3>4. \A x \in Agent : checkout'[x] \in local'[x]
      BY <1>a, <3>1, <3>2
    <3> QED
      BY <3>3, <3>4
  <2>7. attempt' \in AttemptSet
    BY <1>4, <1>a, GotoFacts, ReturnFacts DEF CommitStep, Checkin, AgentCommit
  <2>8. causes' \subseteq Cause
    BY <1>4, <1>a DEF CommitStep, Checkin, AgentCommit, Cause
  <2>9. pending' \in [Agent -> SUBSET Made'] /\ reported' \subseteq Made'
    <3>1. CASE Checkin(a)
      BY <3>1, <1>a, <2>3 DEF Checkin, c
    <3>2. CASE AgentCommit(a)
      BY <3>2, <1>a, <2>3 DEF AgentCommit, c
    <3> QED
      BY <1>4, <3>1, <3>2 DEF CommitStep
  <2>10. failures' = failures /\ hub' = hub
    BY <1>4 DEF CommitStep, Checkin, AgentCommit
  <2>11. tip' \in [Agent -> SUBSET Made'] /\ \A x \in Agent : tip'[x] \subseteq local'[x]
    <3>1. tip' \in {tip, [tip EXCEPT ![a] = {}]}
      BY <1>4 DEF CommitStep, Checkin, AgentCommit
    <3>2. \A x \in Agent : local[x] \subseteq local'[x]
      BY <2>3
    <3>3. tip' \in [Agent -> SUBSET Made] /\ \A x \in Agent : tip'[x] \subseteq tip[x]
      BY <1>a, <3>1
    <3>4. Made \subseteq Made'
      BY <2>3
    <3>5. tip' \in [Agent -> SUBSET Made']
      BY <3>3, <3>4
    <3>6. \A x \in Agent : tip'[x] \subseteq local'[x]
      BY <1>a, <3>2, <3>3
    <3> QED
      BY <3>5, <3>6
  <2>12. /\ hub' \subseteq Made' /\ failures' \in 0..MaxFailures
         /\ Cardinality(Made)' \in 1..(MaxCommits + 1)
    BY <1>a, <2>3, <2>10
  <2>13. /\ parent' \in [Made' -> Made'] /\ branch' \in [Made' -> {"trunk", "side"}]
         /\ local' \in [Agent -> SUBSET Made']
    BY <2>3
  <2> QED
    BY <2>4, <2>5, <2>6, <2>7, <2>8, <2>9, <2>11, <2>12, <2>13, Zenon DEF TypeOK, AttemptSet
<1>5. ASSUME NEW a \in Agent, PushStep(a) PROVE TypeOK'
  <2>1. hub' \subseteq Made
    BY <1>a, <1>5 DEF PushStep, Push, PushFails
  <2>2. attempt' \in AttemptSet
    BY <1>5, ReturnFacts DEF PushStep, Push, PushFails
  <2>3. failures' \in 0..MaxFailures
    BY <1>a, <1>5, FailTypes DEF PushStep, Push, PushFails
  <2>4. pending' \in [Agent -> SUBSET Made] /\ reported' \subseteq Made
    BY <1>a, <1>5 DEF PushStep, Push, PushFails
  <2>5. UNCHANGED <<tip, parent, branch, local, checkout, causes>>
    BY <1>5 DEF PushStep, Push, PushFails
  <2> QED
    BY <1>a, <2>1, <2>2, <2>3, <2>4, <2>5, KeptTypes
<1>6. ASSUME NEW a \in Agent, Update(a) PROVE TypeOK'
  <2>1. checkout' \in [Agent -> Made] /\ \A x \in Agent : checkout'[x] \in local[x]
    BY <1>a, <1>6 DEF Update, Leaves
  <2>2. UNCHANGED <<tip, parent, branch, local, hub, attempt, failures, causes, pending, reported>>
    BY <1>6 DEF Update
  <2> QED
    BY <1>a, <2>1, <2>2, KeptTypes
<1>7. ASSUME NEW a \in Agent, AgentSync(a) PROVE TypeOK'
  <2>1. /\ local' \in [Agent -> SUBSET Made] /\ hub' \subseteq Made
        /\ \A x \in Agent : local[x] \subseteq local'[x]
    BY <1>a, <1>7 DEF AgentSync
  <2>2. causes' \subseteq Cause
    BY <1>a, <1>7 DEF AgentSync, Cause
  <2>3. UNCHANGED <<tip, parent, branch, checkout, attempt, failures, pending, reported>>
    BY <1>7 DEF AgentSync
  <2> QED
    BY <1>a, <2>1, <2>2, <2>3, KeptTypes
<1>8. ASSUME NEW a \in Agent, ResolveTip(a) \/ AgentCommitFails(a) PROVE TypeOK'
  <2>1. tip' \in [Agent -> SUBSET Made] /\ \A x \in Agent : tip'[x] \subseteq local[x]
    BY <1>a, <1>8 DEF ResolveTip, AgentCommitFails
  <2>2. failures' \in 0..MaxFailures
    BY <1>a, <1>8, FailTypes DEF ResolveTip, AgentCommitFails
  <2>3. UNCHANGED <<parent, branch, local, hub, checkout, attempt, causes, pending, reported>>
    BY <1>8 DEF ResolveTip, AgentCommitFails
  <2> QED
    BY <1>a, <2>1, <2>2, <2>3, KeptTypes
<1>9. CASE UNCHANGED vars
  BY <1>9, <1>a, KeptTypes DEF vars
<1> QED
  BY <1>1, <1>2, <1>3, <1>4, <1>5, <1>6, <1>7, <1>8, <1>9
     DEF Next, PullStep, PushStep, CommitStep

-----------------------------------------------------------------------------
\* Commits travel with their ancestors.
LEMMA NextRepos == IInv /\ [Next]_vars => Repos'
<1> SUFFICES ASSUME IInv, [Next]_vars PROVE Repos'
  OBVIOUS
<1>a. TypeOK /\ hub \subseteq Made /\ \A x \in Agent : local[x] \subseteq Made
  BY DEF IInv, TypeOK
<1>b. /\ 0 \in hub /\ \A c \in hub \ {0} : parent[c] \in hub
      /\ \A x \in Agent : 0 \in local[x] /\ \A c \in local[x] \ {0} : parent[c] \in local[x]
  BY DEF IInv, Repos, Closed
<1>1. ASSUME NEW a \in Agent, CommitStep(a) PROVE Repos'
  <2>1. PICK from \in local[a], b \in {"trunk", "side"} : NewCommit(a, from, b)
    BY <1>1, <1>a, CommitStepFacts
  <2> DEFINE c == Cardinality(Made)
  <2>2. /\ parent'[c] = from /\ \A d \in Made : parent'[d] = parent[d]
        /\ local'[a] = local[a] \cup {c} /\ \A x \in Agent \ {a} : local'[x] = local[x]
    BY <2>1, <1>a, NewCommitFacts
  <2>3. hub' = hub
    BY <1>1 DEF CommitStep, Checkin, AgentCommit
  <2> HIDE DEF c
  <2>4. \A d \in hub \ {0} : parent'[d] \in hub
    BY <1>a, <1>b, <2>2
  <2>5. \A d \in local[a] \ {0} : parent'[d] \in local[a]
    BY <1>a, <1>b, <2>2
  <2>6. \A x \in Agent : \A d \in local'[x] \ {0} : parent'[d] \in local'[x]
    BY <1>a, <1>b, <2>2, <2>5
  <2>7. \A x \in Agent : 0 \in local'[x]
    BY <1>b, <2>2
  <2> QED
    BY <1>b, <2>3, <2>4, <2>6, <2>7 DEF Repos, Closed
<1>2. ASSUME NEW a \in Agent, parent' = parent, hub' \in {hub, hub \cup local[a]},
             \A x \in Agent : local'[x] \in {local[x], local[x] \cup hub}
      PROVE  Repos'
  BY <1>b, <1>2 DEF Repos, Closed
<1>3. ASSUME NEW a \in Agent, PullStep(a) \/ AgentSync(a) PROVE Repos'
  <2>1. \A x \in Agent : local'[x] \in {local[x], local[x] \cup hub}
    BY <1>3, <1>a DEF PullStep, Pull, PullFails, AgentSync, TypeOK
  <2>2. parent' = parent /\ hub' \in {hub, hub \cup local[a]}
    BY <1>3 DEF PullStep, Pull, PullFails, AgentSync
  <2> QED
    BY <1>2, <2>1, <2>2
<1>4. ASSUME NEW a \in Agent, PushStep(a) PROVE Repos'
  BY <1>2, <1>4 DEF PushStep, Push, PushFails
<1>5. CASE UNCHANGED <<parent, local, hub>>
  BY <1>5 DEF IInv, Repos, Closed
<1> QED
  BY <1>1, <1>3, <1>4, <1>5
     DEF Next, PullStep, PushStep, CommitStep, Begin, ForkCheck, CheckinFails, Update,
         ResolveTip, AgentCommitFails, vars

\* A checkin puts its commit on the list of an attempt that goes on to push,
\* or gives it to the caller; the end of a push, good or bad, gives it too.
LEMMA NextReported == IInv /\ [Next]_vars => PendingByStep' /\ NoSilentCommit'
<1> SUFFICES ASSUME IInv, [Next]_vars PROVE PendingByStep' /\ NoSilentCommit'
  OBVIOUS
<1>a. /\ TypeOK /\ pending \in [Agent -> SUBSET Made]
      /\ \A x \in Agent : attempt[x].step # "push" => pending[x] = {}
      /\ \A c \in Made \ {0} : c \in reported \/ \E x \in Agent : c \in pending[x]
  BY DEF IInv, TypeOK, PendingByStep, NoSilentCommit
<1>b. SUFFICES /\ \A x \in Agent : attempt'[x].step # "push" => pending'[x] = {}
               /\ \A c \in Made' \ {0} : c \in reported' \/ \E x \in Agent : c \in pending'[x]
  BY DEF PendingByStep, NoSilentCommit
<1>c. parent' = parent => Made' = Made
  BY DEF Made
<1>1. ASSUME NEW a \in Agent, NEW m \in Mode, NEW b \in Bypass, Begin(a, m, b)
      PROVE  /\ \A x \in Agent : attempt'[x].step # "push" => pending'[x] = {}
             /\ \A c \in Made' \ {0} : c \in reported' \/ \E x \in Agent : c \in pending'[x]
  <2>1. attempt[a].step # "push"
    BY <1>1 DEF Begin, Idle
  <2>2. \A x \in Agent \ {a} : attempt'[x] = attempt[x]
    BY <1>1, <1>a, BeginFacts
  <2> QED
    BY <1>1, <1>a, <1>c, <2>1, <2>2 DEF Begin
<1>2. ASSUME NEW a \in Agent, PullStep(a) \/ ForkCheck(a) \/ CheckinFails(a)
      PROVE  /\ \A x \in Agent : attempt'[x].step # "push" => pending'[x] = {}
             /\ \A c \in Made' \ {0} : c \in reported' \/ \E x \in Agent : c \in pending'[x]
  <2>1. attempt[a].step # "push" /\ attempt[a].step # "idle"
    BY <1>2 DEF PullStep, Pull, PullFails, ForkCheck, CheckinFails
  <2>2. \A x \in Agent \ {a} : attempt'[x] = attempt[x]
    BY <1>2, <1>a, <2>1, GotoFacts, ReturnFacts
       DEF PullStep, Pull, PullFails, ForkCheck, CheckinFails
  <2>3. UNCHANGED <<parent, pending, reported>>
    BY <1>2 DEF PullStep, Pull, PullFails, ForkCheck, CheckinFails
  <2> QED
    BY <1>a, <1>c, <2>1, <2>2, <2>3
<1>3. ASSUME NEW a \in Agent, Checkin(a)
      PROVE  /\ \A x \in Agent : attempt'[x].step # "push" => pending'[x] = {}
             /\ \A c \in Made' \ {0} : c \in reported' \/ \E x \in Agent : c \in pending'[x]
  <2> DEFINE n == Cardinality(Made)
             push == attempt[a].mode = "on"
  <2>1. attempt[a].step = "checkin"
    BY <1>3 DEF Checkin
  <2>2. Made' = Made \cup {n}
    <3>1. PICK from \in local[a], b \in {"trunk", "side"} : NewCommit(a, from, b)
      BY <1>3, <1>a, CommitStepFacts DEF CommitStep
    <3>2. from \in Made
      BY <1>a DEF TypeOK
    <3> QED
      BY <1>a, <3>1, <3>2, NewCommitFacts
  <2>3. /\ pending' = [pending EXCEPT ![a] = IF push THEN {n} ELSE {}]
        /\ reported' = IF push THEN reported ELSE reported \cup {n}
        /\ IF push THEN Goto(a, "push") ELSE Return(a)
    BY <1>3 DEF Checkin
  <2>4. /\ \A x \in Agent \ {a} : attempt'[x] = attempt[x]
        /\ push => attempt'[a].step = "push"
    BY <1>a, <2>1, <2>3, GotoFacts, ReturnFacts
  <2> HIDE DEF n, push
  <2> QED
    BY <1>a, <2>1, <2>2, <2>3, <2>4
<1>4. ASSUME NEW a \in Agent, PushStep(a)
      PROVE  /\ \A x \in Agent : attempt'[x].step # "push" => pending'[x] = {}
             /\ \A c \in Made' \ {0} : c \in reported' \/ \E x \in Agent : c \in pending'[x]
  <2>1. /\ pending' = [pending EXCEPT ![a] = {}] /\ reported' = reported \cup pending[a]
        /\ Return(a) /\ parent' = parent
    BY <1>4 DEF PushStep, Push, PushFails
  <2>2. \A x \in Agent \ {a} : attempt'[x] = attempt[x]
    BY <1>a, <2>1, ReturnFacts
  <2> QED
    BY <1>a, <1>c, <2>1, <2>2
<1>5. ASSUME NEW a \in Agent, AgentCommit(a)
      PROVE  /\ \A x \in Agent : attempt'[x].step # "push" => pending'[x] = {}
             /\ \A c \in Made' \ {0} : c \in reported' \/ \E x \in Agent : c \in pending'[x]
  <2>1. Made' = Made \cup {Cardinality(Made)}
    <3>1. PICK from \in local[a], b \in {"trunk", "side"} : NewCommit(a, from, b)
      BY <1>5, <1>a, CommitStepFacts DEF CommitStep
    <3>2. from \in Made
      BY <1>a DEF TypeOK
    <3> QED
      BY <1>a, <3>1, <3>2, NewCommitFacts
  <2>2. reported' = reported \cup {Cardinality(Made)} /\ UNCHANGED <<attempt, pending>>
    BY <1>5 DEF AgentCommit
  <2> QED
    BY <1>a, <2>1, <2>2
<1>6. CASE UNCHANGED <<parent, attempt, pending, reported>>
  BY <1>6, <1>a, <1>c
<1> QED
  BY <1>1, <1>2, <1>3, <1>4, <1>5, <1>6
     DEF Next, PullStep, PushStep, Update, AgentSync, ResolveTip, AgentCommitFails, vars

-----------------------------------------------------------------------------
\* Nothing another agent does to its own repo and checkout matters.
LEMMA OthersKept ==
  ASSUME NEW x \in Agent, AttemptOK(x), UNCHANGED <<parent, branch, hub>>,
         attempt'[x] = attempt[x], local'[x] = local[x], checkout'[x] = checkout[x]
  PROVE  AttemptOK(x)'
<1>1. (Leaves(local[x], "trunk") \subseteq {checkout[x]})'
        <=> Leaves(local[x], "trunk") \subseteq {checkout[x]}
  BY DEF Leaves
<1>2. Linear(local[x])' <=> Linear(local[x])
  BY DEF Linear
<1> QED
  BY <1>1, <1>2 DEF AttemptOK

\* An attempt that has not pulled yet, or is over, claims nothing.
LEMMA NothingClaimed ==
  ASSUME NEW x \in Agent, attempt'[x].step \in {"idle", "pull"}
  PROVE  AttemptOK(x)'
BY DEF AttemptOK

\* While one attempt is at work no other is.
LEMMA Alone ==
  ASSUME TypeOK, Disciplined, NEW a \in Agent, attempt[a].step # "idle",
         NEW x \in Agent \ {a}, attempt'[x] = attempt[x]
  PROVE  attempt[x] = Idle /\ attempt'[x] = Idle /\ attempt'[x].step = "idle"
<1>1. attempt[a] # Idle
  BY AttemptTypes
<1>2. attempt[x] = Idle
  BY <1>1 DEF Disciplined
<1> QED
  BY <1>2 DEF Idle

\* An attempt that goes on stays disciplined, one that returns is none.
LEMMA DisciplineKept ==
  ASSUME TypeOK, Disciplined, UNCHANGED <<parent, branch>>, NEW a \in Agent,
         \A x \in Agent \ {a} : attempt'[x] = attempt[x],
         attempt[a].step # "idle",
         \/ attempt'[a] = Idle
         \/ attempt'[a].mode = attempt[a].mode /\ attempt'[a].bypass = attempt[a].bypass
  PROVE  Disciplined'
<1>1. attempt[a] # Idle
  BY AttemptTypes
<1>2. Made' = Made
  BY DEF Made
<1>3. \A x \in Agent \ {a} : attempt'[x] = Idle
  BY <1>1 DEF Disciplined
<1> QED
  BY <1>1, <1>2, <1>3 DEF Disciplined

\* While no cause of a fork has occurred: the pull makes the hub a part of
\* the local repo, the fork check finds a single leaf there, the checkin
\* extends the chain that this implies, and the push replaces the hub's chain
\* by a longer one.
LEMMA NextGuarded == IInv /\ [Next]_vars => Guarded'
<1> SUFFICES ASSUME IInv, [Next]_vars, causes' = {}
             PROVE  Disciplined' /\ Linear(hub)' /\ \A x \in Agent : AttemptOK(x)'
  BY DEF Guarded
<1>a. TypeOK /\ TypeOK'
  BY NextTypeOK DEF IInv
<1>b. causes = {}
  <2>1. causes \subseteq causes'
    BY DEF Next, vars, Begin, Pull, PullFails, ForkCheck, Checkin, CheckinFails, Push,
           PushFails, Update, ResolveTip, AgentCommit, AgentCommitFails, AgentSync
  <2> QED
    BY <2>1
<1>c. Disciplined /\ Linear(hub) /\ \A x \in Agent : AttemptOK(x)
  BY <1>b DEF IInv, Guarded
<1>d. /\ hub \subseteq Made /\ \A x \in Agent : local[x] \subseteq Made /\ Closed(local[x])
      /\ \A x \in Agent : checkout[x] \in local[x] /\ branch[checkout[x]] = "trunk"
      /\ local \in [Agent -> SUBSET Made] /\ checkout \in [Agent -> Made]
  BY <1>a, <1>c DEF IInv, Repos, TypeOK, Disciplined
<1>e. UNCHANGED <<parent, hub>> => Linear(hub)'
  BY <1>c DEF Linear
<1>1. ASSUME NEW a \in Agent, NEW m \in Mode, NEW b \in Bypass, Begin(a, m, b)
      PROVE  Disciplined' /\ Linear(hub)' /\ \A x \in Agent : AttemptOK(x)'
  <2>1. m # "off" /\ b = "none" /\ \A x \in Agent : attempt[x] = Idle
    BY <1>1 DEF Begin
  <2>2. UNCHANGED <<parent, branch, local, hub, checkout>>
    BY <1>1 DEF Begin
  <2>3. /\ \A x \in Agent \ {a} : attempt'[x] = attempt[x]
        /\ attempt'[a].step = "pull" /\ attempt'[a].mode = m /\ attempt'[a].bypass = b
    BY <1>1, <1>a, <2>1, BeginFacts
  <2>4. Disciplined'
    <3>1. Made' = Made
      BY <2>2 DEF Made
    <3> QED
      BY <1>c, <2>1, <2>2, <2>3, <3>1 DEF Disciplined
  <2>5. \A x \in Agent : AttemptOK(x)'
    <3>1. AttemptOK(a)'
      BY <2>3, NothingClaimed
    <3>2. ASSUME NEW x \in Agent \ {a} PROVE AttemptOK(x)'
      BY <1>c, <2>2, <2>3, OthersKept
    <3> QED
      BY <3>1, <3>2
  <2> QED
    BY <1>e, <2>2, <2>4, <2>5
<1>2. ASSUME NEW a \in Agent, Pull(a)
      PROVE  Disciplined' /\ Linear(hub)' /\ \A x \in Agent : AttemptOK(x)'
  <2>1. /\ attempt[a].step = "pull" /\ Goto(a, "check")
        /\ local' = [local EXCEPT ![a] = @ \cup hub]
        /\ UNCHANGED <<parent, branch, hub, checkout>>
    BY <1>2 DEF Pull
  <2>2. /\ \A x \in Agent \ {a} : attempt'[x] = attempt[x]
        /\ attempt'[a].step = "check" /\ attempt'[a].mode = attempt[a].mode
        /\ attempt'[a].bypass = attempt[a].bypass
    BY <1>a, <2>1, GotoFacts
  <2>3. AttemptOK(a)'
    BY <1>d, <2>1, <2>2 DEF AttemptOK
  <2>4. ASSUME NEW x \in Agent \ {a} PROVE AttemptOK(x)'
    BY <1>a, <1>c, <2>1, <2>2, Alone, NothingClaimed
  <2>5. Disciplined'
    BY <1>a, <1>c, <2>1, <2>2, DisciplineKept
  <2> QED
    BY <1>e, <2>1, <2>3, <2>4, <2>5
<1>3. ASSUME NEW a \in Agent, PullFails(a) \/ CheckinFails(a)
      PROVE  Disciplined' /\ Linear(hub)' /\ \A x \in Agent : AttemptOK(x)'
  <2>1. attempt[a].step # "idle" /\ Return(a) /\ UNCHANGED <<parent, branch, hub, checkout>>
    BY <1>3 DEF PullFails, CheckinFails
  <2>2. /\ \A x \in Agent \ {a} : attempt'[x] = attempt[x]
        /\ attempt'[a] = Idle /\ attempt'[a].step = "idle"
    BY <1>a, <2>1, ReturnFacts
  <2>3. ASSUME NEW x \in Agent PROVE AttemptOK(x)'
    BY <1>a, <1>c, <2>1, <2>2, Alone, NothingClaimed
  <2>4. Disciplined'
    BY <1>a, <1>c, <2>1, <2>2, DisciplineKept
  <2> QED
    BY <1>e, <2>1, <2>3, <2>4
<1>4. ASSUME NEW a \in Agent, ForkCheck(a)
      PROVE  Disciplined' /\ Linear(hub)' /\ \A x \in Agent : AttemptOK(x)'
  <2>1. attempt[a].step = "check" /\ UNCHANGED <<parent, branch, local, hub, checkout>>
    BY <1>4 DEF ForkCheck
  <2>2. attempt[a].mode # "off" /\ attempt[a].bypass = "none"
    BY <1>a, <1>c, <2>1, AttemptTypes DEF Disciplined
  <2>3. CASE ~WouldFork(a) /\ Goto(a, "checkin")
    <3>1. /\ \A x \in Agent \ {a} : attempt'[x] = attempt[x]
          /\ attempt'[a].step = "checkin" /\ attempt'[a].mode = attempt[a].mode
          /\ attempt'[a].bypass = attempt[a].bypass
      BY <1>a, <2>1, <2>3, GotoFacts
    <3>2. Leaves(local[a], "trunk") \subseteq {checkout[a]}
      BY <1>d, <2>3 DEF WouldFork
    <3>3. (Leaves(local[a], "trunk") \subseteq {checkout[a]})'
      BY <2>1, <3>2 DEF Leaves
    <3>4. (hub \subseteq local[a])'
      BY <1>c, <2>1 DEF AttemptOK
    <3>5. AttemptOK(a)'
      BY <3>1, <3>3, <3>4 DEF AttemptOK
    <3>6. ASSUME NEW x \in Agent \ {a} PROVE AttemptOK(x)'
      BY <1>a, <1>c, <2>1, <3>1, Alone, NothingClaimed
    <3>7. Disciplined'
      BY <1>a, <1>c, <2>1, <3>1, DisciplineKept
    <3> QED
      BY <1>e, <2>1, <3>5, <3>6, <3>7
  <2>4. CASE Return(a)
    <3>1. /\ \A x \in Agent \ {a} : attempt'[x] = attempt[x]
          /\ attempt'[a] = Idle /\ attempt'[a].step = "idle"
      BY <1>a, <2>4, ReturnFacts
    <3>2. ASSUME NEW x \in Agent PROVE AttemptOK(x)'
      BY <1>a, <1>c, <2>1, <3>1, Alone, NothingClaimed
    <3>3. Disciplined'
      BY <1>a, <1>c, <2>1, <3>1, DisciplineKept
    <3> QED
      BY <1>e, <2>1, <3>2, <3>3
  <2> QED
    BY <1>4, <2>2, <2>3, <2>4 DEF ForkCheck
<1>5. ASSUME NEW a \in Agent, Checkin(a)
      PROVE  Disciplined' /\ Linear(hub)' /\ \A x \in Agent : AttemptOK(x)'
  <2> DEFINE c == Cardinality(Made)
             top == checkout[a]
             push == attempt[a].mode = "on"
  <2>1. attempt[a].step = "checkin" /\ hub' = hub
    BY <1>5 DEF Checkin
  <2>2. attempt[a] # Idle /\ attempt[a].bypass = "none"
    BY <1>a, <1>c, <2>1, AttemptTypes DEF Disciplined
  <2>3. NewCommit(a, top, "trunk")
    BY <1>5, <1>d, <2>2 DEF Checkin
  <2>4. top \in local[a] /\ top \in Made
    BY <1>d
  <2>5. /\ c \notin Made /\ c \in Nat /\ Made' = Made \cup {c}
        /\ parent'[c] = top /\ branch'[c] = "trunk"
        /\ \A d \in Made : parent'[d] = parent[d] /\ branch'[d] = branch[d] /\ d < c
        /\ local'[a] = local[a] \cup {c}
    BY <1>a, <2>3, <2>4, NewCommitFacts
  <2>6. Linear(local[a]) /\ \A d \in local[a] : d <= top
    <3>1. Leaves(local[a], "trunk") \subseteq {top}
      BY <1>c, <2>1 DEF AttemptOK
    <3> QED
      BY <1>a, <1>c, <1>d, <2>4, <3>1, SingleLeafIsLinear DEF Disciplined
  <2>7. IF push THEN Goto(a, "push") ELSE Return(a)
    BY <1>5 DEF Checkin
  <2>8. /\ \A x \in Agent \ {a} : attempt'[x] = attempt[x]
        /\ \/ attempt'[a] = Idle /\ attempt'[a].step = "idle"
           \/ /\ attempt'[a].step = "push" /\ attempt'[a].mode = attempt[a].mode
              /\ attempt'[a].bypass = attempt[a].bypass
    BY <1>a, <2>1, <2>7, GotoFacts, ReturnFacts
  <2> HIDE DEF c, top, push
  <2>9. Linear(local[a])'
    <3> SUFFICES ASSUME NEW u \in local[a] \cup {c}, NEW v \in local[a] \cup {c}, v < u
                 PROVE  v <= parent'[u]
      BY <2>5 DEF Linear
    <3>1. local[a] \subseteq Made /\ Made \subseteq Nat
      BY <1>a, <1>d, Numbered
    <3>2. CASE u = c
      <4>1. v \in local[a]
        <5>1. v # c
          BY <2>5, <3>2
        <5> QED
          BY <5>1
      <4> QED
        BY <2>5, <2>6, <3>2, <4>1
    <3>3. CASE u \in local[a]
      <4>1. v \in local[a]
        <5>1. u < c /\ u \in Nat /\ c \in Nat
          BY <2>5, <3>1, <3>3
        <5>2. v # c
          BY <5>1
        <5> QED
          BY <5>2
      <4> QED
        BY <2>5, <2>6, <3>1, <3>3, <4>1 DEF Linear
    <3> QED
      BY <3>2, <3>3
  <2>10. (hub \subseteq local[a])'
    BY <1>c, <2>1, <2>5 DEF AttemptOK
  <2>11. AttemptOK(a)'
    BY <2>8, <2>9, <2>10 DEF AttemptOK
  <2>12. ASSUME NEW x \in Agent \ {a} PROVE AttemptOK(x)'
    BY <1>a, <1>c, <2>1, <2>8, Alone, NothingClaimed
  <2>13. Linear(hub)'
    BY <1>c, <1>d, <2>1, <2>5 DEF Linear
  <2>14. Disciplined'
    <3>1. \A x \in Agent \ {a} : attempt'[x] = Idle
      BY <1>a, <1>c, <2>1, <2>8, Alone
    <3>2. \A d \in Made' : branch'[d] = "trunk"
      BY <1>c, <2>5 DEF Disciplined
    <3> QED
      BY <1>c, <2>2, <2>8, <3>1, <3>2 DEF Disciplined
  <2> QED
    BY <2>11, <2>12, <2>13, <2>14
<1>6. ASSUME NEW a \in Agent, PushStep(a)
      PROVE  Disciplined' /\ Linear(hub)' /\ \A x \in Agent : AttemptOK(x)'
  <2>1. /\ attempt[a].step = "push" /\ Return(a) /\ hub' \in {hub, hub \cup local[a]}
        /\ UNCHANGED <<parent, branch, local, checkout>>
    BY <1>6 DEF PushStep, Push, PushFails
  <2>2. hub \cup local[a] = local[a] /\ Linear(local[a])
    BY <1>c, <2>1 DEF AttemptOK
  <2>3. Linear(hub)'
    BY <1>c, <2>1, <2>2 DEF Linear
  <2>4. /\ \A x \in Agent \ {a} : attempt'[x] = attempt[x]
        /\ attempt'[a] = Idle /\ attempt'[a].step = "idle"
    BY <1>a, <2>1, ReturnFacts
  <2>5. ASSUME NEW x \in Agent PROVE AttemptOK(x)'
    BY <1>a, <1>c, <2>1, <2>4, Alone, NothingClaimed
  <2>6. Disciplined'
    BY <1>a, <1>c, <2>1, <2>4, DisciplineKept
  <2> QED
    BY <2>3, <2>5, <2>6
<1>7. ASSUME NEW a \in Agent, Update(a)
      PROVE  Disciplined' /\ Linear(hub)' /\ \A x \in Agent : AttemptOK(x)'
  <2>1. attempt[a].step = "idle" /\ UNCHANGED <<parent, branch, local, hub, attempt>>
    BY <1>7 DEF Update, Idle
  <2>2. \A x \in Agent \ {a} : checkout'[x] = checkout[x]
    BY <1>7, <1>d DEF Update
  <2>3. AttemptOK(a)'
    BY <2>1, NothingClaimed
  <2>4. ASSUME NEW x \in Agent \ {a} PROVE AttemptOK(x)'
    BY <1>c, <2>1, <2>2, OthersKept
  <2>5. Disciplined'
    BY <1>c, <2>1 DEF Disciplined, Made
  <2> QED
    BY <1>e, <2>1, <2>3, <2>4, <2>5
<1>8. ASSUME NEW a \in Agent, AgentCommit(a) PROVE FALSE
  BY <1>8 DEF AgentCommit
<1>9. ASSUME NEW a \in Agent, AgentSync(a)
      PROVE  Disciplined' /\ Linear(hub)' /\ \A x \in Agent : AttemptOK(x)'
  <2>1. local[a] \subseteq hub /\ local[a] # hub
    BY <1>9 DEF AgentSync
  <2>2. /\ hub' = hub /\ local' = [local EXCEPT ![a] = @ \cup hub]
        /\ UNCHANGED <<parent, branch, checkout, attempt>>
    BY <1>9, <2>1 DEF AgentSync
  <2>3. attempt[a].step \in {"idle", "pull"}
    BY <1>a, <1>c, <2>1, AttemptTypes DEF AttemptOK
  <2>4. AttemptOK(a)'
    BY <2>2, <2>3, NothingClaimed
  <2>5. ASSUME NEW x \in Agent \ {a} PROVE AttemptOK(x)'
    BY <1>c, <1>d, <2>2, OthersKept
  <2>6. Disciplined'
    BY <1>c, <2>2 DEF Disciplined, Made
  <2> QED
    BY <1>e, <2>2, <2>4, <2>5, <2>6
<1>10. CASE UNCHANGED <<parent, branch, local, hub, checkout, attempt>>
  <2>1. ASSUME NEW x \in Agent PROVE AttemptOK(x)'
    BY <1>10, <1>c, OthersKept
  <2>2. Disciplined'
    BY <1>10, <1>c DEF Disciplined, Made
  <2> QED
    BY <1>10, <1>e, <2>1, <2>2
<1>11. (\E a \in Agent : ResolveTip(a) \/ AgentCommitFails(a)) \/ UNCHANGED vars
         => UNCHANGED <<parent, branch, local, hub, checkout, attempt>>
  BY DEF ResolveTip, AgentCommitFails, vars
<1> QED
  BY <1>1, <1>2, <1>3, <1>4, <1>5, <1>6, <1>7, <1>8, <1>9, <1>10, <1>11 DEF Next, PushStep

LEMMA InitIInv == Init => IInv
<1> SUFFICES ASSUME Init PROVE IInv
  OBVIOUS
<1>1. Made = {0} /\ Cardinality(Made) = 1
  BY FS_Singleton DEF Init, Made
<1>2. TypeOK
  <2>1. Cardinality(Made) \in 1..(MaxCommits + 1) /\ Made = 0..(Cardinality(Made) - 1)
    BY <1>1, AutosyncAssumption
  <2>2. failures \in 0..MaxFailures
    BY AutosyncAssumption DEF Init
  <2> QED
    BY <1>1, <2>1, <2>2 DEF Init, TypeOK
<1>3. Repos /\ PendingByStep /\ NoSilentCommit
  BY <1>1 DEF Init, Repos, Closed, PendingByStep, NoSilentCommit
<1>4. Guarded
  <2>1. Disciplined
    BY <1>1 DEF Init, Disciplined
  <2>2. Linear(hub)
    BY DEF Init, Linear
  <2>3. \A a \in Agent : AttemptOK(a)
    BY DEF Init, AttemptOK, Idle
  <2> QED
    BY <2>1, <2>2, <2>3 DEF Guarded
<1> QED
  BY <1>2, <1>3, <1>4 DEF IInv

-----------------------------------------------------------------------------
\* The discipline of AutosyncCommit holds until one of the three causes occurs.
THEOREM Invariance == Spec => []IInv
<1>1. IInv /\ [Next]_vars => IInv'
  BY NextTypeOK, NextRepos, NextReported, NextGuarded DEF IInv
<1> QED
  BY InitIInv, <1>1, PTL DEF Spec

\* A commit made by AutosyncCommit or Agent.Commit is known to its caller:
\* returned, in the PushFailedError, or of an attempt that will return it.
THEOREM CommitsAreReported == Spec => []NoSilentCommit
<1>1. IInv => NoSilentCommit
  BY DEF IInv
<1> QED
  BY <1>1, Invariance, PTL

\* The hub forks only after overlapping attempts, an unchecked commit or a
\* background sync of an agent's own commits; lost answers, failing rounds
\* and late pushes never fork it.
THEOREM ForksHaveCauses == Spec => []ForkHasCause
<1>1. IInv => ForkHasCause
  <2> SUFFICES ASSUME IInv, causes = {} PROVE ~Forked(hub)
    BY DEF ForkHasCause
  <2>1. TypeOK /\ hub \in SUBSET Made /\ Closed(hub)
    BY DEF IInv, TypeOK, Repos
  <2>2. Linear(hub) /\ \A c \in Made : branch[c] = "trunk"
    BY DEF IInv, Guarded, Disciplined
  <2> QED
    BY <2>1, <2>2, LinearIsNotForked
<1> QED
  BY <1>1, Invariance, PTL
=============================================================================
