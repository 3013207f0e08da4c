------------------------------ MODULE Pairing -------------------------------
(***************************************************************************)
(* Pairing tokens and paired devices (leaf/agent/notify/token_store.go,    *)
(* device_registry.go): two JSON files in the notify repo.  Every          *)
(* operation reads a whole file, changes the list and commits the whole    *)
(* file.  The processes are the agent's service and CLI invocations on the *)
(* same repo; nothing serialises them, and a reader sees the file of the   *)
(* newest commit.                                                          *)
(***************************************************************************)
EXTENDS Naturals, FiniteSets

CONSTANTS
  Proc,              \* goroutines and processes that use the notify repo
  Token,             \* token hashes GenerateToken can produce
  Device,            \* device names
  Lifetime,          \* of a token, in ticks: 10 minutes in the code
  MaxTime,           \* bound on the clock
  MaxReadFailures,   \* bound on failing file reads
  MaxCommitFailures, \* bound on failing commits
  MaxUses            \* bound on the successful validations of one token

ASSUME PairingAssumption ==
  /\ Lifetime \in Nat \ {0}
  /\ {MaxTime, MaxReadFailures, MaxCommitFailures, MaxUses} \subseteq Nat

VARIABLES
  tokens,         \* pending_tokens.json: expiry of each pending token, 0 if absent
  devices,        \* devices.json
  job,            \* job[p]: the operation p is in, with the list it will commit
  now,
  readFailures,
  commitFailures

\* Observers: what the callers were told.
VARIABLES
  created,        \* expiry of each token StorePendingToken returned nil for
  uses,           \* uses[t]: ValidateToken calls for t that returned nil
  paired,         \* devices whose last successful call was AddDevice
  overwritten     \* files some commit of which was not built on the newest list

vars == <<tokens, devices, job, now, readFailures, commitFailures, created, uses, paired,
          overwritten>>

TokenList == [Token -> 0..(MaxTime + Lifetime)]
NoTokens == [t \in Token |-> 0]
Idle == [op |-> "idle"]
TokenJob == [op : {"store", "validate", "expire"}, token : Token,
             read : TokenList, list : TokenList]
DeviceJob == [op : {"add", "remove"}, device : Device,
              read : SUBSET Device, list : SUBSET Device]

TypeOK ==
  /\ tokens \in TokenList
  /\ devices \subseteq Device
  /\ job \in [Proc -> {Idle} \cup TokenJob \cup DeviceJob]
  /\ now \in 0..MaxTime
  /\ readFailures \in 0..MaxReadFailures
  /\ commitFailures \in 0..MaxCommitFailures
  /\ created \in TokenList
  /\ uses \in [Token -> Nat]
  /\ paired \subseteq Device
  /\ overwritten \subseteq {"tokens", "devices"}

Init ==
  /\ tokens = NoTokens
  /\ devices = {}
  /\ job = [p \in Proc |-> Idle]
  /\ now = 0
  /\ readFailures = 0
  /\ commitFailures = 0
  /\ created = NoTokens
  /\ uses = [t \in Token |-> 0]
  /\ paired = {}
  /\ overwritten = {}

-----------------------------------------------------------------------------
\* readFileContent: any error stands for a file that is not there yet.
Read(file, empty, list) ==
  \/ list = file /\ UNCHANGED readFailures
  \/ /\ list = empty
     /\ readFailures < MaxReadFailures
     /\ readFailures' = readFailures + 1

Begin(p, j) ==
  /\ job[p] = Idle
  /\ job' = [job EXCEPT ![p] = j]
  /\ UNCHANGED <<tokens, devices, now, commitFailures, created, uses, paired, overwritten>>

\* Fault: the comparison is the wrong way round.
PruneLive(list) == [t \in Token |-> IF now > list[t] THEN list[t] ELSE 0]

\* pruneExpired keeps what now.Before(ExpiresAt).
PruneExpired(list) == [t \in Token |-> IF now < list[t] THEN list[t] ELSE 0]

\* GenerateToken does not repeat itself.
Unused(t) ==
  created[t] = 0 /\ \A q \in Proc : job[q].op = "store" => job[q].token # t

\* The expiry CreatePairingToken stamps on a new token.
ExpiresAt == now + Lifetime

\* CreatePairingToken draws a fresh token; StorePendingToken reads and prunes.
StorePendingToken(p, t) ==
  \E list \in {tokens, NoTokens} :
    /\ Unused(t)
    /\ Read(tokens, NoTokens, list)
    /\ Begin(p, [op |-> "store", token |-> t, read |-> list,
                 list |-> [PruneExpired(list) EXCEPT ![t] = ExpiresAt]])

\* The bound on validations counts the calls under way.
UsesLeft(t) ==
  uses[t] + Cardinality({q \in Proc : job[q].op = "validate" /\ job[q].token = t}) < MaxUses

\* Fault: a validated token stays in the list.
ValidateKeeps(p, t) ==
  \E list \in {tokens, NoTokens} :
    /\ UsesLeft(t)
    /\ Read(tokens, NoTokens, list)
    /\ list[t] # 0
    /\ Begin(p, [op |-> IF now > list[t] THEN "expire" ELSE "validate",
                 token |-> t, read |-> list, list |-> list])

\* ValidateToken up to the commit: an unknown token is an error at once, an
\* expired one (now.After) is removed as well.
ValidateToken(p, t) ==
  \E list \in {tokens, NoTokens} :
    /\ UsesLeft(t)
    /\ Read(tokens, NoTokens, list)
    /\ list[t] # 0
    /\ Begin(p, [op |-> IF now > list[t] THEN "expire" ELSE "validate",
                 token |-> t, read |-> list, list |-> [list EXCEPT ![t] = 0]])

\* The commit replaces a file that is no longer, or never was, the list read.
NoteOverwrite(p, file, name) ==
  overwritten' = IF job[p].read = file THEN overwritten ELSE overwritten \cup {name}

\* commitPendingTokens, and what the caller is told.
CommitTokens(p) ==
  /\ job[p].op \in {"store", "validate", "expire"}
  /\ tokens' = job[p].list
  /\ NoteOverwrite(p, tokens, "tokens")
  /\ job' = [job EXCEPT ![p] = Idle]
  /\ LET t == job[p].token IN
       /\ created' = IF job[p].op = "store" THEN [created EXCEPT ![t] = job[p].list[t]]
                                            ELSE created
       /\ uses' = IF job[p].op = "validate" THEN [uses EXCEPT ![t] = @ + 1] ELSE uses
  /\ UNCHANGED <<devices, now, readFailures, commitFailures, paired>>

\* A registry that cannot be read passes for an empty one.
ListDevices(list) == Read(devices, {}, list)

\* Fault: the list is built from the new device alone.
AddDeviceAlone(p, d) ==
  \E list \in {devices, {}} :
    /\ ListDevices(list)
    /\ d \notin list
    /\ Begin(p, [op |-> "add", device |-> d, read |-> list, list |-> {d}])

AddDevice(p, d) ==
  \E list \in {devices, {}} :
    /\ ListDevices(list)
    /\ d \notin list
    /\ Begin(p, [op |-> "add", device |-> d, read |-> list, list |-> list \cup {d}])

RemoveDevice(p, d) ==
  \E list \in {devices, {}} :
    /\ ListDevices(list)
    /\ d \in list
    /\ Begin(p, [op |-> "remove", device |-> d, read |-> list, list |-> list \ {d}])

CommitDevices(p) ==
  /\ job[p].op \in {"add", "remove"}
  /\ devices' = job[p].list
  /\ NoteOverwrite(p, devices, "devices")
  /\ job' = [job EXCEPT ![p] = Idle]
  /\ paired' = IF job[p].op = "add" THEN paired \cup {job[p].device}
                                    ELSE paired \ {job[p].device}
  /\ UNCHANGED <<tokens, now, readFailures, commitFailures, created, uses>>

\* The commit fails: the file stays as it was and the caller gets an error.
CommitFails(p) ==
  /\ job[p] # Idle
  /\ commitFailures < MaxCommitFailures
  /\ commitFailures' = commitFailures + 1
  /\ job' = [job EXCEPT ![p] = Idle]
  /\ UNCHANGED <<tokens, devices, now, readFailures, created, uses, paired, overwritten>>

Tick ==
  /\ now < MaxTime
  /\ now' = now + 1
  /\ UNCHANGED <<tokens, devices, job, readFailures, commitFailures, created, uses, paired,
                 overwritten>>

Next ==
  \/ \E p \in Proc :
       \/ \E t \in Token : StorePendingToken(p, t) \/ ValidateToken(p, t)
       \/ \E d \in Device : AddDevice(p, d) \/ RemoveDevice(p, d)
       \/ CommitTokens(p)
       \/ CommitDevices(p)
       \/ CommitFails(p)
  \/ Tick

Spec == Init /\ [][Next]_vars

-----------------------------------------------------------------------------
(* Properties *)

\* No token is accepted twice, whatever order of creation, expiry, failing
\* commits and repeated attempts ("removes the token (single-use)"), as long
\* as every commit of the file was built on its newest list.  Two overlapping
\* calls are the one way to use a token twice.
SingleUse == "tokens" \notin overwritten => \A t \in Token : uses[t] <= 1

\* A token whose creation succeeded stays pending, with its own expiry, until
\* it is used or expires: no other operation drops it, unless it commits a
\* list that is not the newest (a failed read that passed for an empty file).
TokenKept ==
  "tokens" \notin overwritten =>
    \A t \in Token :
      now < created[t] /\ uses[t] = 0 => tokens[t] = created[t]

\* The registry is what the callers were told: a device is listed exactly when
\* its last successful call was AddDevice, with the same exception.
RegistryExact == "devices" \notin overwritten => devices = paired

-----------------------------------------------------------------------------
(* The parts of the inductive invariant *)

Storing(p) == job[p].op = "store"
Consuming(p) == job[p].op \in {"validate", "expire"}

\* A store is for a token nobody else has or had; it drops from the list it
\* read only what had expired.
StoreJobs ==
  \A p \in Proc : Storing(p) =>
    LET j == job[p] IN
      /\ created[j.token] = 0
      /\ j.list[j.token] # 0
      /\ \A u \in Token \ {j.token} :
           j.list[u] = j.read[u] \/ (j.list[u] = 0 /\ j.read[u] <= now)
      /\ \A q \in Proc \ {p} : Storing(q) => job[q].token # j.token

\* A validation removes its own token, and nothing else, from the list it read.
ConsumeJobs ==
  \A p \in Proc : Consuming(p) =>
    LET j == job[p] IN
      /\ j.read[j.token] # 0
      /\ j.list = [j.read EXCEPT ![j.token] = 0]
      /\ j.op = "expire" => j.read[j.token] < now

DeviceJobs ==
  \A p \in Proc :
    /\ job[p].op = "add" => job[p].list = job[p].read \cup {job[p].device}
    /\ job[p].op = "remove" => job[p].list = job[p].read \ {job[p].device}

\* A pending token was created with the expiry it has; a used one is gone.
TokensExact ==
  "tokens" \notin overwritten =>
    \A t \in Token :
      /\ tokens[t] \in {0, created[t]}
      /\ uses[t] # 0 => uses[t] = 1 /\ tokens[t] = 0 /\ created[t] # 0

IInv ==
  /\ TypeOK /\ StoreJobs /\ ConsumeJobs /\ DeviceJobs
  /\ TokensExact /\ TokenKept /\ RegistryExact
=============================================================================
