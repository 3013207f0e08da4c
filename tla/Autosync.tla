------------------------------ MODULE Autosync ------------------------------
(***************************************************************************)
(* Commits from several agents into one hub (leaf/agent/autosync.go,       *)
(* code_artifact.go).  Each agent has a local repo and one checkout.       *)
(* AutosyncCommit pulls, checks for a fork, checks in and pushes; the      *)
(* agent's own Commit and Sync use the same repo without any of this.      *)
(*                                                                         *)
(* A commit is a number in order of creation, with its parent and branch.  *)
(* libfossil's Sync is one step: commits travel in a single round, and a   *)
(* failing round is lost before or after the other side has applied it.    *)
(***************************************************************************)
EXTENDS Naturals, FiniteSets

CONSTANTS
  Agent,
  Mode,        \* modes the callers use, of "off", "on", "pullOnly"
  Bypass,      \* what they set, of "none", "allowFork", "branch"
  MaxCommits,  \* bound on commits
  MaxDirect,   \* bound on the commits there are when an Agent.Commit starts
  MaxFailures  \* bound on failing sync rounds and checkins

ASSUME AutosyncAssumption ==
  /\ Mode \subseteq {"off", "on", "pullOnly"}
  /\ Bypass \subseteq {"none", "allowFork", "branch"}
  /\ MaxCommits \in Nat /\ MaxDirect \in Nat /\ MaxFailures \in Nat

VARIABLES
  parent,     \* parent[c] of every commit made; commit 0 is the common root
  branch,     \* branch[c]
  local,      \* local[a]: the commits in a's repo
  hub,        \* the commits in the hub's repo
  checkout,   \* checkout[a]: the commit a's working directory is at
  attempt,    \* attempt[a]: where AutosyncCommit is, with its mode and bypass
  tip,        \* tip[a]: the parent that a running Agent.Commit has resolved
  failures

\* Observers.
VARIABLES
  causes,     \* what happened so far that can fork the hub
  pending,    \* commits of attempts that have not returned yet
  reported    \* commits whose rid the caller was given, with or without an error

vars == <<parent, branch, local, hub, checkout, attempt, tip, failures, causes, pending,
          reported>>

Made == DOMAIN parent
Idle == [step |-> "idle"]
Attempt == [step : {"pull", "check", "checkin", "push"}, mode : Mode, bypass : Bypass]
Cause == {"overlap", "unchecked", "background"}

TypeOK ==
  /\ Cardinality(Made) \in 1..(MaxCommits + 1) /\ Made = 0..(Cardinality(Made) - 1)
  /\ parent \in [Made -> Made] /\ \A c \in Made \ {0} : parent[c] < c
  /\ branch \in [Made -> {"trunk", "side"}]
  /\ local \in [Agent -> SUBSET Made]
  /\ hub \subseteq Made
  /\ checkout \in [Agent -> Made] /\ \A a \in Agent : checkout[a] \in local[a]
  /\ attempt \in [Agent -> {Idle} \cup Attempt]
  /\ tip \in [Agent -> SUBSET Made] /\ \A a \in Agent : tip[a] \subseteq local[a]
  /\ failures \in 0..MaxFailures
  /\ causes \subseteq Cause
  /\ pending \in [Agent -> SUBSET Made]
  /\ reported \subseteq Made

Init ==
  /\ parent = [c \in {0} |-> 0]
  /\ branch = [c \in {0} |-> "trunk"]
  /\ local = [a \in Agent |-> {0}]      \* clones of the hub
  /\ hub = {0}
  /\ checkout = [a \in Agent |-> 0]
  /\ attempt = [a \in Agent |-> Idle]
  /\ tip = [a \in Agent |-> {}]
  /\ failures = 0
  /\ causes = {}
  /\ pending = [a \in Agent |-> {}]
  /\ reported = {}

-----------------------------------------------------------------------------
\* Commits of a repo on branch b without a child on b (libfossil's leaf table).
Leaves(repo, b) ==
  {c \in repo : branch[c] = b /\ \A d \in repo \ {0} : ~(parent[d] = c /\ branch[d] = b)}

\* Checkout.WouldFork: another leaf on the branch of the checkout.
WouldFork(a) == Leaves(local[a], branch[checkout[a]]) \ {checkout[a]} # {}

\* A new commit in the repo of a.
NewCommit(a, from, b) ==
  LET c == Cardinality(Made) IN
    /\ c <= MaxCommits
    /\ parent' = [d \in Made \cup {c} |-> IF d = c THEN from ELSE parent[d]]
    /\ branch' = [d \in Made \cup {c} |-> IF d = c THEN b ELSE branch[d]]
    /\ local' = [local EXCEPT ![a] = @ \cup {c}]

Fail ==
  /\ failures < MaxFailures
  /\ failures' = failures + 1

Goto(a, step) == attempt' = [attempt EXCEPT ![a].step = step]
Return(a) == attempt' = [attempt EXCEPT ![a] = Idle]

-----------------------------------------------------------------------------
(* AutosyncCommit *)

\* The call: no pull in mode off.
Begin(a, mode, bypass) ==
  /\ attempt[a] = Idle
  /\ attempt' = [attempt EXCEPT ![a] =
       [step |-> IF mode = "off" THEN "check" ELSE "pull", mode |-> mode, bypass |-> bypass]]
  /\ causes' = causes
       \cup (IF \E x \in Agent : attempt[x] # Idle THEN {"overlap"} ELSE {})
       \cup (IF mode = "off" \/ bypass # "none" THEN {"unchecked"} ELSE {})
  /\ UNCHANGED <<parent, branch, local, hub, checkout, failures, pending, reported, tip>>

\* Fault: a failing pull is ignored.
PullIgnored(a) ==
  /\ attempt[a].step = "pull"
  /\ Fail
  /\ Goto(a, "check")
  /\ UNCHANGED <<parent, branch, local, hub, checkout, causes, pending, reported, tip>>

Pull(a) ==
  /\ attempt[a].step = "pull"
  /\ local' = [local EXCEPT ![a] = @ \cup hub]
  /\ Goto(a, "check")
  /\ UNCHANGED <<parent, branch, hub, checkout, failures, causes, pending, reported, tip>>

\* The pull fails, before or after its commits are stored: no checkin.
PullFails(a) ==
  /\ attempt[a].step = "pull"
  /\ Fail
  /\ \/ UNCHANGED local
     \/ local' = [local EXCEPT ![a] = @ \cup hub]
  /\ Return(a)
  /\ UNCHANGED <<parent, branch, hub, checkout, causes, pending, reported, tip>>

\* Fault: the fork check runs for nobody.
ForkCheckSkipped(a) ==
  /\ attempt[a].step = "check"
  /\ Goto(a, "checkin")
  /\ UNCHANGED <<parent, branch, local, hub, checkout, failures, causes, pending, reported,
                 tip>>

\* skipForkCheck, or WouldFork and ErrWouldFork.
ForkCheck(a) ==
  /\ attempt[a].step = "check"
  /\ IF \/ attempt[a].mode = "off"
        \/ attempt[a].bypass # "none"
        \/ ~WouldFork(a)
       THEN Goto(a, "checkin")
       ELSE Return(a)
  /\ UNCHANGED <<parent, branch, local, hub, checkout, failures, causes, pending, reported,
                 tip>>

Checkin(a) ==
  /\ attempt[a].step = "checkin"
  /\ LET from == checkout[a]
         push == attempt[a].mode = "on"
         c == Cardinality(Made)
     IN /\ NewCommit(a, from, IF attempt[a].bypass = "branch" THEN "side" ELSE branch[from])
        /\ checkout' = [checkout EXCEPT ![a] = c]
        /\ IF push THEN Goto(a, "push") ELSE Return(a)
        /\ pending' = [pending EXCEPT ![a] = IF push THEN {c} ELSE {}]
        /\ reported' = IF push THEN reported ELSE reported \cup {c}
  /\ UNCHANGED <<hub, failures, causes, tip>>

CheckinFails(a) ==
  /\ attempt[a].step = "checkin"
  /\ Fail
  /\ Return(a)
  /\ UNCHANGED <<parent, branch, local, hub, checkout, causes, pending, reported, tip>>

Push(a) ==
  /\ attempt[a].step = "push"
  /\ hub' = hub \cup local[a]
  /\ Return(a)
  /\ pending' = [pending EXCEPT ![a] = {}]
  /\ reported' = reported \cup pending[a]
  /\ UNCHANGED <<parent, branch, local, checkout, failures, causes, tip>>

\* Fault: the error of the push hides the local commit.
PushFailsBare(a) ==
  /\ attempt[a].step = "push"
  /\ Fail
  /\ hub' \in {hub, hub \cup local[a]}
  /\ Return(a)
  /\ pending' = [pending EXCEPT ![a] = {}]
  /\ UNCHANGED <<parent, branch, local, checkout, causes, reported, tip>>

\* PushFailedError with the rid; the hub may or may not have the commits.
PushFails(a) ==
  /\ attempt[a].step = "push"
  /\ Fail
  /\ hub' \in {hub, hub \cup local[a]}
  /\ Return(a)
  /\ pending' = [pending EXCEPT ![a] = {}]
  /\ reported' = reported \cup pending[a]
  /\ UNCHANGED <<parent, branch, local, checkout, causes, tip>>

-----------------------------------------------------------------------------
(* The agent's other operations on the repo *)

\* The caller updates the checkout to a leaf of its branch ("run update first").
Update(a) ==
  /\ attempt[a] = Idle
  /\ \E c \in Leaves(local[a], branch[checkout[a]]) \ {checkout[a]} :
       checkout' = [checkout EXCEPT ![a] = c]
  /\ UNCHANGED <<parent, branch, local, hub, attempt, failures, causes, pending, reported,
                 tip>>

\* Agent.Commit resolves the newest trunk commit of its own repo (bound: one
\* call at a time).
ResolveTip(a) ==
  /\ \A x \in Agent : tip[x] = {}
  /\ Cardinality(Made) <= MaxDirect
  /\ LET trunk == {c \in local[a] : branch[c] = "trunk"} IN
       tip' = [tip EXCEPT ![a] = {t \in trunk : \A c \in trunk : c <= t}]
  /\ UNCHANGED <<parent, branch, local, hub, checkout, attempt, failures, causes, pending,
                 reported>>

\* It commits onto that, unchecked, whatever has arrived since.
AgentCommit(a) ==
  /\ \E from \in tip[a] : NewCommit(a, from, "trunk")
  /\ tip' = [tip EXCEPT ![a] = {}]
  /\ reported' = reported \cup {Cardinality(Made)}
  /\ causes' = causes \cup {"unchecked"}
  /\ UNCHANGED <<hub, checkout, attempt, failures, pending>>

AgentCommitFails(a) ==
  /\ tip[a] # {}
  /\ Fail
  /\ tip' = [tip EXCEPT ![a] = {}]
  /\ UNCHANGED <<parent, branch, local, hub, checkout, attempt, causes, pending, reported>>

\* Agent.Sync, SyncTo and the poll loop: push and pull whatever is there.
AgentSync(a) ==
  /\ ~(local[a] = hub)
  /\ hub' = hub \cup local[a]
  /\ local' = [local EXCEPT ![a] = @ \cup hub]
  /\ causes' = causes \cup (IF local[a] \subseteq hub THEN {} ELSE {"background"})
  /\ UNCHANGED <<parent, branch, checkout, attempt, failures, pending, reported, tip>>

Next ==
  \E a \in Agent :
    \/ \E m \in Mode, b \in Bypass : Begin(a, m, b)
    \/ Pull(a)
    \/ PullFails(a)
    \/ ForkCheck(a)
    \/ Checkin(a)
    \/ CheckinFails(a)
    \/ Push(a)
    \/ PushFails(a)
    \/ Update(a)
    \/ ResolveTip(a)
    \/ AgentCommit(a)
    \/ AgentCommitFails(a)
    \/ AgentSync(a)

Spec == Init /\ [][Next]_vars

-----------------------------------------------------------------------------
(* Properties *)

Forked(repo) == \E b \in {"trunk", "side"} : Cardinality(Leaves(repo, b)) > 1

\* A branch of the hub has two leaves only if two attempts overlapped, some
\* commit was made without the fork check, or an agent synced commits of its
\* own behind AutosyncCommit's back.  Failing pulls, checkins and pushes,
\* answers lost after the hub applied the push, and pull-only commits that
\* are pushed much later never fork it.
ForkHasCause == Forked(hub) => causes # {}

\* A commit an attempt left in the local repo is always known to its caller:
\* returned, in the PushFailedError, or about to be.
NoSilentCommit == Made \ {0} \subseteq reported \cup UNION {pending[a] : a \in Agent}

\* docs/architecture/checkout-merge.md:103: AutosyncOn is "Pull + lock +
\* fork-check + commit + push", where the lock is held against other clients'
\* checkins on the same parent.  Then overlapping attempts do not fork either.
LockedCommits == Forked(hub) => causes \ {"overlap"} # {}

-----------------------------------------------------------------------------
(* The parts of the inductive invariant *)

\* A repo has the ancestors of every commit it has.
Closed(repo) == 0 \in repo /\ \A c \in repo \ {0} : parent[c] \in repo
Repos == Closed(hub) /\ \A a \in Agent : Closed(local[a])

\* Only an attempt that is about to push owes its caller a commit.
PendingByStep == \A a \in Agent : attempt[a].step # "push" => pending[a] = {}

\* Every commit of the repo is a child of the one before it.
Linear(repo) == \A c, d \in repo : d < c => d <= parent[c]

\* Attempts are alone and keep to the protocol.
Disciplined ==
  /\ \A a, b \in Agent : attempt[a] # Idle /\ attempt[b] # Idle => a = b
  /\ \A a \in Agent : attempt[a] # Idle =>
       attempt[a].mode # "off" /\ attempt[a].bypass = "none"
  /\ \A c \in Made : branch[c] = "trunk"

\* What the pull, the fork check and the checkin have established.
AttemptOK(a) ==
  /\ attempt[a].step \in {"check", "checkin", "push"} => hub \subseteq local[a]
  /\ attempt[a].step = "checkin" => Leaves(local[a], "trunk") \subseteq {checkout[a]}
  /\ attempt[a].step = "push" => Linear(local[a])

Guarded ==
  causes = {} => Disciplined /\ Linear(hub) /\ \A a \in Agent : AttemptOK(a)

IInv == TypeOK /\ Repos /\ PendingByStep /\ NoSilentCommit /\ Guarded
=============================================================================
