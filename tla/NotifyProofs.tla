---------------------------- MODULE NotifyProofs ----------------------------
(***************************************************************************)
(* Proofs about Pairing and NotifyWatch, for any number of processes,      *)
(* tokens, devices and messages and any capacity of channel and filter.    *)
(*                                                                         *)
(* Pairing: while every commit is built on the newest list, the pending    *)
(* list is exact: a token is in it with the expiry it was created with,    *)
(* and no longer once it was used.  The proofs follow a job from its read  *)
(* to its commit: what it will write differs from what it read by its own  *)
(* token or device only, and by tokens that had expired.                   *)
(*                                                                         *)
(* NotifyWatch: GateInv, who holds the mutex and what closed the channel,  *)
(* is inductive and excludes a panic.  The order of the messages is a      *)
(* statement about Given, the messages in and behind the callback: a step  *)
(* leaves it alone, appends the message a Pop takes (PopGives) or drops    *)
(* the last one (DropsLast).  What the filter remembers is the end of      *)
(* Given (SeenAreLast), so that a message it lets through is new or its    *)
(* id lies further back than the half the filter keeps.                    *)
(***************************************************************************)
EXTENDS Pairing, NotifyWatch, SequenceTheorems, TLAPS

-----------------------------------------------------------------------------
(***************************************************************************)
(* Pairing                                                                 *)
(***************************************************************************)

\* The kind of a job tells its type.
LEMMA JobTypes ==
  ASSUME TypeOK, NEW p \in Proc
  PROVE  /\ job[p].op \in {"store", "validate", "expire"} => job[p] \in TokenJob
         /\ job[p].op \in {"add", "remove"} => job[p] \in DeviceJob
BY DEF TypeOK, Idle, TokenJob, DeviceJob

\* PruneExpired keeps a list a list and drops only expired tokens.
LEMMA PruneExpiredList ==
  ASSUME TypeOK, NEW list \in TokenList
  PROVE  /\ PruneExpired(list) \in TokenList
         /\ \A t \in Token :
              PruneExpired(list)[t] = list[t]
                \/ (PruneExpired(list)[t] = 0 /\ list[t] <= now)
BY PairingAssumption DEF TypeOK, PruneExpired, TokenList

\* The list a job begins with.
LEMMA ReadTypes ==
  ASSUME TypeOK
  PROVE  /\ NoTokens \in TokenList /\ tokens \in TokenList
         /\ \A list : Read(tokens, NoTokens, list) \/ Read(devices, {}, list)
              => readFailures' \in 0..MaxReadFailures
BY PairingAssumption DEF TypeOK, NoTokens, TokenList, Read

-----------------------------------------------------------------------------
\* What each kind of call writes down when it begins.
LEMMA StoreBegins ==
  ASSUME TypeOK, NEW p \in Proc, NEW t \in Token, StorePendingToken(p, t)
  PROVE  /\ job[p] = Idle /\ \A q \in Proc \ {p} : job'[q] = job[q]
         /\ job'[p] \in TokenJob /\ job'[p].op = "store" /\ job'[p].token = t
         /\ created[t] = 0 /\ \A q \in Proc : Storing(q) => job[q].token # t
         /\ job'[p].list[t] # 0
         /\ \A u \in Token \ {t} :
              \/ job'[p].list[u] = job'[p].read[u]
              \/ job'[p].list[u] = 0 /\ job'[p].read[u] <= now
         /\ UNCHANGED <<tokens, devices, now, commitFailures, created, uses, paired, overwritten>>
         /\ TypeOK'
<1>1. PICK list \in {tokens, NoTokens} :
        /\ Unused(t) /\ Read(tokens, NoTokens, list)
        /\ Begin(p, [op |-> "store", token |-> t, read |-> list,
                     list |-> [PruneExpired(list) EXCEPT ![t] = ExpiresAt]])
  BY DEF StorePendingToken
<1> DEFINE new == [PruneExpired(list) EXCEPT ![t] = ExpiresAt]
<1>2. list \in TokenList /\ ExpiresAt \in 0..(MaxTime + Lifetime) /\ ExpiresAt # 0
  BY ReadTypes, PairingAssumption DEF TypeOK, ExpiresAt
<1>3. new \in TokenList /\ new[t] = ExpiresAt
        /\ \A u \in Token \ {t} : new[u] = PruneExpired(list)[u]
  BY <1>2, PruneExpiredList DEF TokenList
<1> HIDE DEF new
<1>4. job[p] = Idle /\ job' = [job EXCEPT ![p] = [op |-> "store", token |-> t,
                                                  read |-> list, list |-> new]]
  BY <1>1 DEF Begin, new
<1>5. job'[p] = [op |-> "store", token |-> t, read |-> list, list |-> new]
        /\ \A q \in Proc \ {p} : job'[q] = job[q]
  BY <1>4 DEF TypeOK
<1>6. job'[p] \in TokenJob
  BY <1>2, <1>3, <1>5 DEF TokenJob
<1>7. UNCHANGED <<tokens, devices, now, commitFailures, created, uses, paired, overwritten>>
        /\ readFailures' \in 0..MaxReadFailures
  BY <1>1, ReadTypes DEF Begin
<1>8. created[t] = 0 /\ \A q \in Proc : Storing(q) => job[q].token # t
  BY <1>1 DEF Unused, Storing
<1>9. TypeOK'
  <2>1. job' \in [Proc -> {Idle} \cup TokenJob \cup DeviceJob]
    BY <1>4, <1>5, <1>6 DEF TypeOK
  <2> QED
    BY <1>7, <2>1 DEF TypeOK
<1> QED
  BY <1>2, <1>3, <1>4, <1>5, <1>6, <1>7, <1>8, <1>9, PruneExpiredList

LEMMA ValidateBegins ==
  ASSUME TypeOK, NEW p \in Proc, NEW t \in Token, ValidateToken(p, t)
  PROVE  /\ job[p] = Idle /\ \A q \in Proc \ {p} : job'[q] = job[q]
         /\ job'[p] \in TokenJob /\ job'[p].op \in {"validate", "expire"}
         /\ job'[p].token = t
         /\ job'[p].read[t] # 0
         /\ job'[p].list = [job'[p].read EXCEPT ![t] = 0]
         /\ job'[p].op = "expire" => job'[p].read[t] < now
         /\ UNCHANGED <<tokens, devices, now, commitFailures, created, uses, paired, overwritten>>
         /\ TypeOK'
<1>1. PICK list \in {tokens, NoTokens} :
        /\ Read(tokens, NoTokens, list) /\ list[t] # 0
        /\ Begin(p, [op |-> IF now > list[t] THEN "expire" ELSE "validate",
                     token |-> t, read |-> list, list |-> [list EXCEPT ![t] = 0]])
  BY DEF ValidateToken
<1> DEFINE kind == IF now > list[t] THEN "expire" ELSE "validate"
           new == [list EXCEPT ![t] = 0]
<1>2. list \in TokenList /\ new \in TokenList
  BY ReadTypes, PairingAssumption DEF TokenList
<1>3. kind \in {"validate", "expire"} /\ (kind = "expire" => list[t] < now)
  BY <1>2, PairingAssumption DEF TypeOK, TokenList
<1>4. job[p] = Idle /\ job' = [job EXCEPT ![p] = [op |-> kind, token |-> t, read |-> list,
                                                  list |-> new]]
  BY <1>1 DEF Begin
<1>5. new = [list EXCEPT ![t] = 0]
  OBVIOUS
<1> HIDE DEF kind, new
<1>6. job'[p] = [op |-> kind, token |-> t, read |-> list, list |-> new]
        /\ \A q \in Proc \ {p} : job'[q] = job[q]
  BY <1>4 DEF TypeOK
<1>7. job'[p] \in TokenJob
  BY <1>2, <1>3, <1>6 DEF TokenJob
<1>8. UNCHANGED <<tokens, devices, now, commitFailures, created, uses, paired, overwritten>>
        /\ readFailures' \in 0..MaxReadFailures
  BY <1>1, ReadTypes DEF Begin
<1>9. /\ job'[p].op = kind /\ job'[p].token = t /\ job'[p].read = list
      /\ job'[p].list = [list EXCEPT ![t] = 0]
  BY <1>5, <1>6
<1>10. list[t] # 0
  BY <1>1
<1>11. TypeOK'
  <2>1. job' \in [Proc -> {Idle} \cup TokenJob \cup DeviceJob]
    BY <1>4, <1>6, <1>7 DEF TypeOK
  <2> QED
    BY <1>8, <2>1 DEF TypeOK
<1> QED
  BY <1>3, <1>4, <1>6, <1>7, <1>8, <1>9, <1>10, <1>11

LEMMA DeviceBegins ==
  ASSUME TypeOK, NEW p \in Proc, NEW d \in Device, AddDevice(p, d) \/ RemoveDevice(p, d)
  PROVE  /\ job[p] = Idle /\ \A q \in Proc \ {p} : job'[q] = job[q]
         /\ job'[p] \in DeviceJob
         /\ job'[p].op = "add" => job'[p].list = job'[p].read \cup {job'[p].device}
         /\ job'[p].op = "remove" => job'[p].list = job'[p].read \ {job'[p].device}
         /\ UNCHANGED <<tokens, devices, now, commitFailures, created, uses, paired, overwritten>>
         /\ TypeOK'
<1>1. PICK list \in {devices, {}}, op \in {"add", "remove"} :
        /\ Read(devices, {}, list)
        /\ Begin(p, [op |-> op, device |-> d, read |-> list,
                     list |-> IF op = "add" THEN list \cup {d} ELSE list \ {d}])
  <2>1. CASE AddDevice(p, d)
    BY <2>1 DEF AddDevice, ListDevices
  <2>2. CASE RemoveDevice(p, d)
    BY <2>2 DEF RemoveDevice, ListDevices
  <2> QED
    BY <2>1, <2>2
<1> DEFINE new == IF op = "add" THEN list \cup {d} ELSE list \ {d}
<1>2. list \subseteq Device /\ new \subseteq Device
  BY DEF TypeOK
<1>3. job[p] = Idle /\ job' = [job EXCEPT ![p] = [op |-> op, device |-> d, read |-> list,
                                                  list |-> new]]
  BY <1>1 DEF Begin
<1>4. /\ op = "add" => new = list \cup {d}
      /\ op = "remove" => new = list \ {d}
  OBVIOUS
<1> HIDE DEF new
<1>5. job'[p] = [op |-> op, device |-> d, read |-> list, list |-> new]
        /\ \A q \in Proc \ {p} : job'[q] = job[q]
  BY <1>3 DEF TypeOK
<1>6. job'[p] \in DeviceJob
  BY <1>2, <1>5 DEF DeviceJob
<1>7. UNCHANGED <<tokens, devices, now, commitFailures, created, uses, paired, overwritten>>
        /\ readFailures' \in 0..MaxReadFailures
  BY <1>1, ReadTypes DEF Begin
<1>8. TypeOK'
  <2>1. job' \in [Proc -> {Idle} \cup TokenJob \cup DeviceJob]
    BY <1>3, <1>5, <1>6 DEF TypeOK
  <2> QED
    BY <1>7, <2>1 DEF TypeOK
<1> QED
  BY <1>3, <1>4, <1>5, <1>6, <1>7, <1>8

-----------------------------------------------------------------------------
\* A commit, successful or not, ends its own job only.
LEMMA CommitEnds ==
  ASSUME TypeOK, NEW p \in Proc, CommitTokens(p) \/ CommitDevices(p) \/ CommitFails(p)
  PROVE  /\ job'[p] = Idle /\ \A q \in Proc \ {p} : job'[q] = job[q]
         /\ now' = now
         /\ TypeOK'
<1>1. job' = [job EXCEPT ![p] = Idle] /\ UNCHANGED <<now, readFailures>>
  BY DEF CommitTokens, CommitDevices, CommitFails
<1>2. job' \in [Proc -> {Idle} \cup TokenJob \cup DeviceJob]
        /\ job'[p] = Idle /\ \A q \in Proc \ {p} : job'[q] = job[q]
  BY <1>1 DEF TypeOK
<1>3. CASE CommitTokens(p)
  <2>1. job[p] \in TokenJob
    BY <1>3, JobTypes DEF CommitTokens
  <2>2. tokens' \in TokenList /\ created' \in TokenList
    BY <1>3, <2>1 DEF CommitTokens, TypeOK, TokenJob, TokenList
  <2>3. uses' \in [Token -> Nat]
    BY <1>3, <2>1 DEF CommitTokens, TypeOK, TokenJob
  <2>4. overwritten' \subseteq {"tokens", "devices"}
    BY <1>3 DEF CommitTokens, NoteOverwrite, TypeOK
  <2>5. UNCHANGED <<devices, readFailures, commitFailures, paired, now>>
    BY <1>3 DEF CommitTokens
  <2> QED
    BY <1>2, <2>2, <2>3, <2>4, <2>5 DEF TypeOK
<1>4. CASE CommitDevices(p)
  <2>1. job[p] \in DeviceJob
    BY <1>4, JobTypes DEF CommitDevices
  <2>2. devices' \subseteq Device /\ paired' \subseteq Device
    BY <1>4, <2>1 DEF CommitDevices, TypeOK, DeviceJob
  <2>3. overwritten' \subseteq {"tokens", "devices"}
    BY <1>4 DEF CommitDevices, NoteOverwrite, TypeOK
  <2>4. UNCHANGED <<tokens, readFailures, commitFailures, created, uses, now>>
    BY <1>4 DEF CommitDevices
  <2> QED
    BY <1>2, <2>2, <2>3, <2>4 DEF TypeOK
<1>5. CASE CommitFails(p)
  <2>1. commitFailures' \in 0..MaxCommitFailures
    BY <1>5, PairingAssumption DEF CommitFails, TypeOK
  <2> QED
    BY <1>2, <1>5, <2>1 DEF CommitFails, TypeOK
<1> QED
  BY <1>1, <1>2, <1>3, <1>4, <1>5

\* A commit of the token file that is built on the newest list.  The token of
\* a store was never used and is pending from now on; the token of a
\* validation had not been used; what either drops besides had expired.
LEMMA CommitTokensExact ==
  ASSUME IInv, NEW p \in Proc, CommitTokens(p)
  PROVE  TokensExact' /\ TokenKept'
<1> SUFFICES ASSUME "tokens" \notin overwritten', NEW t \in Token
             PROVE  /\ tokens'[t] \in {0, created'[t]}
                    /\ uses'[t] # 0 => uses'[t] = 1 /\ tokens'[t] = 0 /\ created'[t] # 0
                    /\ now' < created'[t] /\ uses'[t] = 0 => tokens'[t] = created'[t]
  BY DEF TokensExact, TokenKept
<1> DEFINE j == job[p]
<1>1. /\ tokens' = j.list /\ now' = now
      /\ created' = IF j.op = "store" THEN [created EXCEPT ![j.token] = j.list[j.token]]
                                      ELSE created
      /\ uses' = IF j.op = "validate" THEN [uses EXCEPT ![j.token] = @ + 1] ELSE uses
  BY DEF CommitTokens
<1>2. "tokens" \notin overwritten /\ j.read = tokens
  BY DEF CommitTokens, NoteOverwrite
<1>3. j \in TokenJob
  BY JobTypes DEF CommitTokens, IInv
<1>4. j.token \in Token /\ j.list \in TokenList /\ j.read \in TokenList
        /\ j.op \in {"store", "validate", "expire"}
  BY <1>3 DEF TokenJob
<1>5. /\ tokens[t] \in {0, created[t]}
      /\ uses[t] # 0 => uses[t] = 1 /\ tokens[t] = 0 /\ created[t] # 0
      /\ now < created[t] /\ uses[t] = 0 => tokens[t] = created[t]
  BY <1>2 DEF IInv, TokensExact, TokenKept
<1>6. now \in Nat /\ tokens \in [Token -> Nat] /\ created \in [Token -> Nat]
        /\ uses \in [Token -> Nat] /\ j.list \in [Token -> Nat]
  BY <1>4, PairingAssumption DEF IInv, TypeOK, TokenList
<1>7. CASE j.op = "store"
  <2>1. /\ created[j.token] = 0 /\ j.list[j.token] # 0
        /\ t # j.token => j.list[t] = tokens[t] \/ (j.list[t] = 0 /\ tokens[t] <= now)
    BY <1>2, <1>7 DEF IInv, StoreJobs, Storing
  <2> HIDE DEF j
  <2>2. CASE t = j.token
    BY <1>1, <1>4, <1>5, <1>6, <1>7, <2>1, <2>2
  <2>3. CASE t # j.token
    BY <1>1, <1>4, <1>5, <1>6, <1>7, <2>1, <2>3
  <2> QED
    BY <2>2, <2>3
<1>8. CASE j.op \in {"validate", "expire"}
  <2>1. /\ tokens[j.token] # 0 /\ j.list = [tokens EXCEPT ![j.token] = 0]
        /\ j.op = "expire" => tokens[j.token] < now
    BY <1>2, <1>8 DEF IInv, ConsumeJobs, Consuming
  <2> HIDE DEF j
  <2>2. CASE t = j.token
    BY <1>1, <1>4, <1>5, <1>6, <1>8, <2>1, <2>2
  <2>3. CASE t # j.token
    BY <1>1, <1>4, <1>5, <1>6, <1>8, <2>1, <2>3
  <2> QED
    BY <2>2, <2>3
<1> QED
  BY <1>4, <1>7, <1>8

\* A commit of the device file that is built on the newest list.
LEMMA CommitDevicesExact ==
  ASSUME IInv, NEW p \in Proc, CommitDevices(p)
  PROVE  RegistryExact'
<1> SUFFICES ASSUME "devices" \notin overwritten' PROVE devices' = paired'
  BY DEF RegistryExact
<1>1. job[p].read = devices /\ devices = paired
  BY DEF CommitDevices, NoteOverwrite, IInv, RegistryExact
<1> QED
  BY <1>1 DEF CommitDevices, IInv, DeviceJobs

-----------------------------------------------------------------------------
\* The jobs of the others stay what they were when p begins or ends one.
LEMMA JobsKept ==
  ASSUME IInv, NEW p \in Proc, now' = now,
         \A q \in Proc \ {p} :
           /\ job'[q] = job[q]
           /\ Storing(q) => created'[job[q].token] = created[job[q].token],
         Storing(p)' =>
           /\ created'[job'[p].token] = 0
           /\ job'[p].list[job'[p].token] # 0
           /\ \A u \in Token \ {job'[p].token} :
                \/ job'[p].list[u] = job'[p].read[u]
                \/ job'[p].list[u] = 0 /\ job'[p].read[u] <= now
           /\ \A q \in Proc \ {p} : Storing(q) => job[q].token # job'[p].token,
         Consuming(p)' =>
           /\ job'[p].read[job'[p].token] # 0
           /\ job'[p].list = [job'[p].read EXCEPT ![job'[p].token] = 0]
           /\ job'[p].op = "expire" => job'[p].read[job'[p].token] < now,
         job'[p].op = "add" => job'[p].list = job'[p].read \cup {job'[p].device},
         job'[p].op = "remove" => job'[p].list = job'[p].read \ {job'[p].device}
  PROVE  StoreJobs' /\ ConsumeJobs' /\ DeviceJobs'
<1>1. StoreJobs'
  BY DEF IInv, StoreJobs, Storing
<1>2. ConsumeJobs'
  BY DEF IInv, ConsumeJobs, Consuming
<1>3. DeviceJobs'
  BY DEF IInv, DeviceJobs
<1> QED
  BY <1>1, <1>2, <1>3

\* The clock only makes more of a job's tokens expired.
LEMMA TickKeeps ==
  ASSUME IInv, Tick
  PROVE  IInv'
<1>1. TypeOK' /\ now \in Nat /\ now' \in Nat /\ now < now'
  BY PairingAssumption DEF IInv, TypeOK, Tick
<1>2. UNCHANGED <<tokens, devices, job, created, uses, paired, overwritten>>
  BY DEF Tick
<1>3. StoreJobs'
  <2> SUFFICES ASSUME NEW p \in Proc, Storing(p), NEW u \in Token, u # job[p].token,
                      job[p].list[u] = 0, job[p].read[u] <= now
               PROVE  job[p].read[u] <= now'
    BY <1>2 DEF IInv, StoreJobs, Storing
  <2>1. job[p].read[u] \in Nat
    BY JobTypes, PairingAssumption DEF IInv, Storing, TokenJob, TokenList
  <2> QED
    BY <1>1, <2>1
<1>4. ConsumeJobs'
  <2> SUFFICES ASSUME NEW p \in Proc, Consuming(p), job[p].read[job[p].token] < now
               PROVE  job[p].read[job[p].token] < now'
    BY <1>2 DEF IInv, ConsumeJobs, Consuming
  <2>1. job[p].read[job[p].token] \in Nat
    BY JobTypes, PairingAssumption DEF IInv, Consuming, TokenJob, TokenList
  <2> QED
    BY <1>1, <2>1
<1>5. DeviceJobs' /\ TokensExact' /\ RegistryExact'
  BY <1>2 DEF IInv, DeviceJobs, TokensExact, RegistryExact
<1>6. TokenKept'
  <2>1. \A t \in Token : created[t] \in Nat
    BY PairingAssumption DEF IInv, TypeOK, TokenList
  <2> QED
    BY <1>1, <1>2, <2>1 DEF IInv, TokenKept
<1> QED
  BY <1>1, <1>3, <1>4, <1>5, <1>6 DEF IInv

\* A step that changes neither the files nor what callers were told.
LEMMA FilesKept ==
  ASSUME IInv, UNCHANGED <<tokens, devices, now, created, uses, paired, overwritten>>
  PROVE  TokensExact' /\ TokenKept' /\ RegistryExact'
BY DEF IInv, TokensExact, TokenKept, RegistryExact

LEMMA NextIInv == IInv /\ [Next]_vars => IInv'
<1> SUFFICES ASSUME IInv, [Next]_vars PROVE IInv'
  OBVIOUS
<1>t. TypeOK
  BY DEF IInv
<1>1. ASSUME NEW p \in Proc, NEW t \in Token, StorePendingToken(p, t) PROVE IInv'
  <2>1. /\ \A q \in Proc \ {p} : job'[q] = job[q]
        /\ job'[p].op = "store" /\ job'[p].token = t
        /\ UNCHANGED <<now, created>>
        /\ created[t] = 0 /\ \A q \in Proc : Storing(q) => job[q].token # t
        /\ job'[p].list[t] # 0
        /\ \A u \in Token \ {t} :
             \/ job'[p].list[u] = job'[p].read[u]
             \/ job'[p].list[u] = 0 /\ job'[p].read[u] <= now
    BY <1>t, <1>1, StoreBegins
  <2>2. Storing(p)' /\ ~Consuming(p)' /\ job'[p].op \notin {"add", "remove"}
    BY <2>1 DEF Storing, Consuming
  <2>3. StoreJobs' /\ ConsumeJobs' /\ DeviceJobs'
    BY <2>1, <2>2, JobsKept
  <2> QED
    BY <1>t, <1>1, <2>3, StoreBegins, FilesKept DEF IInv
<1>2. ASSUME NEW p \in Proc, NEW t \in Token, ValidateToken(p, t) PROVE IInv'
  <2>1. /\ \A q \in Proc \ {p} : job'[q] = job[q]
        /\ job'[p].op \in {"validate", "expire"} /\ job'[p].token = t
        /\ UNCHANGED <<now, created>>
        /\ job'[p].read[t] # 0
        /\ job'[p].list = [job'[p].read EXCEPT ![t] = 0]
        /\ job'[p].op = "expire" => job'[p].read[t] < now
    BY <1>t, <1>2, ValidateBegins
  <2>2. ~Storing(p)' /\ job'[p].op \notin {"add", "remove"}
    BY <2>1 DEF Storing
  <2>3. StoreJobs' /\ ConsumeJobs' /\ DeviceJobs'
    BY <2>1, <2>2, JobsKept
  <2> QED
    BY <1>t, <1>2, <2>3, ValidateBegins, FilesKept DEF IInv
<1>3. ASSUME NEW p \in Proc, NEW d \in Device, AddDevice(p, d) \/ RemoveDevice(p, d)
      PROVE  IInv'
  <2>1. job'[p].op \in {"add", "remove"}
    BY <1>t, <1>3, DeviceBegins DEF DeviceJob
  <2>2. StoreJobs' /\ ConsumeJobs' /\ DeviceJobs'
    BY <1>t, <1>3, <2>1, DeviceBegins, JobsKept DEF Storing, Consuming
  <2> QED
    BY <1>t, <1>3, <2>2, DeviceBegins, FilesKept DEF IInv
<1>4. ASSUME NEW p \in Proc, CommitTokens(p) \/ CommitDevices(p) \/ CommitFails(p)
      PROVE  IInv'
  <2>1. \A q \in Proc \ {p} : Storing(q) => created'[job[q].token] = created[job[q].token]
    <3>1. CASE CommitTokens(p)
      <4> SUFFICES ASSUME NEW q \in Proc, q # p, Storing(q), Storing(p)
                   PROVE  created'[job[q].token] = created[job[q].token]
        BY <3>1 DEF CommitTokens, Storing
      <4>1. job[q].token \in Token /\ job[q].token # job[p].token
        BY <1>t, JobTypes DEF IInv, StoreJobs, Storing, TokenJob
      <4> QED
        BY <1>t, <3>1, <4>1 DEF CommitTokens, Storing, TypeOK, TokenList
    <3> QED
      BY <1>4, <3>1 DEF CommitDevices, CommitFails
  <2>2. StoreJobs' /\ ConsumeJobs' /\ DeviceJobs'
    <3>1. \A q \in Proc \ {p} : job'[q] = job[q]
      BY <1>t, <1>4, CommitEnds
    <3>2. now' = now /\ job'[p].op = "idle"
      BY <1>t, <1>4, CommitEnds DEF Idle
    <3>3. ~Storing(p)' /\ ~Consuming(p)' /\ job'[p].op \notin {"add", "remove"}
      BY <3>2 DEF Storing, Consuming
    <3> QED
      BY <2>1, <3>1, <3>2, <3>3, JobsKept
  <2>3. TokensExact' /\ TokenKept' /\ RegistryExact'
    <3>1. CASE CommitTokens(p)
      <4>1. RegistryExact'
        BY <3>1 DEF IInv, RegistryExact, CommitTokens, NoteOverwrite
      <4> QED
        BY <3>1, <4>1, CommitTokensExact
    <3>2. CASE CommitDevices(p)
      <4>1. TokensExact' /\ TokenKept'
        BY <3>2 DEF IInv, TokensExact, TokenKept, CommitDevices, NoteOverwrite
      <4> QED
        BY <3>2, <4>1, CommitDevicesExact
    <3>3. CASE CommitFails(p)
      BY <3>3, FilesKept DEF CommitFails
    <3> QED
      BY <1>4, <3>1, <3>2, <3>3
  <2> QED
    BY <1>t, <1>4, <2>2, <2>3, CommitEnds DEF IInv
<1>5. CASE Tick
  BY <1>5, TickKeeps
<1>6. CASE UNCHANGED vars
  <2>1. TypeOK'
    BY <1>t, <1>6 DEF TypeOK, vars
  <2>2. StoreJobs' /\ ConsumeJobs' /\ DeviceJobs'
    BY <1>6 DEF vars, IInv, StoreJobs, ConsumeJobs, DeviceJobs, Storing, Consuming
  <2> QED
    BY <1>6, <2>1, <2>2, FilesKept DEF vars, IInv
<1> QED
  BY <1>1, <1>2, <1>3, <1>4, <1>5, <1>6 DEF Next

LEMMA InitIInv == Init => IInv
<1> SUFFICES ASSUME Init PROVE IInv
  OBVIOUS
<1>1. TypeOK
  BY PairingAssumption DEF Init, TypeOK, NoTokens, TokenList
<1>2. StoreJobs /\ ConsumeJobs /\ DeviceJobs
  BY DEF Init, StoreJobs, ConsumeJobs, DeviceJobs, Storing, Consuming, Idle
<1>3. TokensExact /\ TokenKept /\ RegistryExact
  BY DEF Init, TokensExact, TokenKept, RegistryExact, NoTokens
<1> QED
  BY <1>1, <1>2, <1>3 DEF IInv

-----------------------------------------------------------------------------
\* The pairing files and the jobs under way agree with what the callers of
\* token_store.go and device_registry.go were told.
THEOREM PairingExact == Spec => []IInv
<1> QED
  BY InitIInv, NextIInv, PTL DEF Spec

\* ValidateToken accepts a token at most once, unless a commit replaced a
\* list it was not built on.
THEOREM TokensAreSingleUse == Spec => []SingleUse
<1>1. IInv => SingleUse
  BY DEF IInv, TokensExact, SingleUse
<1> QED
  BY <1>1, PairingExact, PTL

\* A created token is pending until it is used or expires, with the same
\* exception.
THEOREM TokensAreKept == Spec => []TokenKept
<1>1. IInv => TokenKept
  BY DEF IInv
<1> QED
  BY <1>1, PairingExact, PTL

\* devices.json lists exactly the devices whose last successful call was
\* AddDevice, with the same exception.
THEOREM RegistryIsExact == Spec => []RegistryExact
<1>1. IInv => RegistryExact
  BY DEF IInv
<1> QED
  BY <1>1, PairingExact, PTL
-----------------------------------------------------------------------------
(***************************************************************************)
(* NotifyWatch                                                             *)
(***************************************************************************)

\* What the filter remembers after a new id: the ids it had, or the newer half
\* of them, and the new one at the end.
LEMMA RememberKeeps ==
  ASSUME WatchTypeOK, NEW id \in Id, ~Contains(seenOrder, id)
  PROVE  /\ Remember(id) \in Seq(Id) /\ Len(Remember(id)) <= MaxSeen
         /\ IsInjective(Remember(id))
         /\ \E cut \in Nat :
              /\ cut = 0 \/ Len(Remember(id)) = Half
              /\ Len(Remember(id)) + cut = Len(seenOrder) + 1 /\ Len(Remember(id)) >= 1
              /\ Remember(id)[Len(Remember(id))] = id
              /\ \A k \in 1..(Len(Remember(id)) - 1) : Remember(id)[k] = seenOrder[cut + k]
<1> DEFINE order == Append(seenOrder, id)
           R == Remember(id)
           n == Len(seenOrder)
<1>0. /\ seenOrder \in Seq(Id) /\ n \in Nat /\ n <= MaxSeen /\ MaxSeen \in Nat \ {0}
      /\ \A k \in 1..n : seenOrder[k] # id
      /\ \A k, l \in 1..n : seenOrder[k] = seenOrder[l] => k = l
  <2>1. seenOrder \in Seq(Id) /\ n <= MaxSeen /\ IsInjective(seenOrder)
    BY DEF WatchTypeOK
  <2>2. MaxSeen \in Nat \ {0}
    BY WatchAssumption
  <2>3. n \in Nat /\ DOMAIN seenOrder = 1..n
    BY <2>1
  <2>4. \A k \in 1..n : seenOrder[k] # id
    BY <2>3 DEF Contains
  <2>5. \A k, l \in 1..n : seenOrder[k] = seenOrder[l] => k = l
    BY <2>1, <2>3 DEF IsInjective
  <2> QED
    BY <2>1, <2>2, <2>3, <2>4, <2>5
<1>1. /\ order \in Seq(Id) /\ Len(order) = n + 1
      /\ order[n + 1] = id /\ \A k \in 1..n : order[k] = seenOrder[k]
  BY <1>0
<1> HIDE DEF order, n
<1>2. \A k, l \in 1..(n + 1) : order[k] = order[l] => k = l
  <2> SUFFICES ASSUME NEW k \in 1..(n + 1), NEW l \in 1..(n + 1), order[k] = order[l] PROVE k = l
    OBVIOUS
  <2>1. CASE k = n + 1
    BY <2>1, <1>0, <1>1
  <2>2. CASE l = n + 1
    BY <2>2, <1>0, <1>1
  <2>3. CASE k \in 1..n /\ l \in 1..n
    BY <2>3, <1>0, <1>1
  <2> QED
    BY <2>1, <2>2, <2>3, <1>0
<1>3. CASE n + 1 > MaxSeen
  <2> DEFINE cut == (n + 1) \div 2
  <2>1. n = MaxSeen
    BY <1>0, <1>3
  <2>2. cut \in Nat /\ cut >= 1 /\ cut <= n /\ Half = n + 1 - cut
    BY <1>0, <2>1 DEF Half
  <2>3. R = SubSeq(order, cut + 1, n + 1)
    BY <1>1, <1>3 DEF Remember, order
  <2> HIDE DEF cut
  <2>4. /\ R \in Seq(Id) /\ Len(R) = n + 1 - cut
        /\ \A k \in 1..Len(R) : R[k] = order[cut + k]
    BY <1>0, <1>1, <2>2, <2>3
  <2> HIDE DEF R
  <2>5. IsInjective(R)
    <3>1. \A k, l \in 1..Len(R) : R[k] = R[l] => k = l
      BY <1>0, <1>2, <2>2, <2>4
    <3> QED
      BY <2>4, <3>1 DEF IsInjective
  <2>6. R[Len(R)] = id /\ \A k \in 1..(Len(R) - 1) : R[k] = seenOrder[cut + k]
    BY <1>0, <1>1, <2>2, <2>4
  <2>7. Len(R) = Half /\ Len(R) + cut = n + 1 /\ Len(R) >= 1 /\ Len(R) <= MaxSeen
    <3>1. Len(R) = Half
      BY <2>2, <2>4
    <3>2. n \in Nat /\ cut \in Nat /\ cut >= 1 /\ cut <= n /\ n <= MaxSeen
      BY <1>0, <2>2
    <3>3. Len(R) = n + 1 - cut
      BY <2>4
    <3> QED
      BY <3>1, <3>2, <3>3, WatchAssumption
  <2> QED
    BY <2>2, <2>4, <2>5, <2>6, <2>7 DEF R, n
<1>4. CASE ~(n + 1 > MaxSeen)
  <2>1. R = order
    BY <1>1, <1>4 DEF Remember, order
  <2>2. IsInjective(R)
    BY <1>1, <1>2, <2>1 DEF IsInjective
  <2>3. /\ R[Len(R)] = id /\ \A k \in 1..(Len(R) - 1) : R[k] = seenOrder[0 + k]
        /\ Len(R) + 0 = n + 1 /\ Len(R) >= 1 /\ Len(R) <= MaxSeen /\ R \in Seq(Id)
    BY <1>0, <1>1, <1>4, <2>1
  <2> QED
    BY <2>2, <2>3 DEF R, n
<1> QED
  BY <1>3, <1>4

\* The queue at a Pop: its head is the next message.
LEMMA PopTakes ==
  ASSUME WatchTypeOK, PendingIsRest, Pop
  PROVE  /\ Taken \in Nat /\ Taken' = Taken + 1 /\ Taken + 1 \in 1..Len(arrived)
         /\ Head(pending) = Taken + 1 /\ arrived[Taken + 1] \in Id
         /\ arrived' = arrived /\ pending' \in Seq(Nat) /\ PendingIsRest'
<1>1. /\ pending \in Seq(Nat) /\ pending # <<>> /\ pending' = Tail(pending) /\ arrived' = arrived
      /\ arrived \in Seq(Id)
  BY DEF Pop, WatchTypeOK
<1>2. /\ Len(pending) >= 1 /\ Len(pending') = Len(pending) - 1 /\ pending' \in Seq(Nat)
      /\ \A i \in 1..Len(pending') : pending'[i] = pending[i + 1]
      /\ Head(pending) = pending[1]
  BY <1>1
<1>3. Len(pending) <= Len(arrived) /\ \A i \in 1..Len(pending) : pending[i] = Taken + i
  BY <1>1 DEF PendingIsRest
<1>4. Taken \in Nat /\ Taken' = Taken + 1 /\ Taken + 1 \in 1..Len(arrived) /\ pending[1] = Taken + 1
  BY <1>1, <1>2, <1>3 DEF Taken
<1>5. PendingIsRest'
  <2>1. \A i \in 1..Len(pending') : pending'[i] = Taken' + i
    BY <1>1, <1>2, <1>3, <1>4
  <2>2. Len(pending') <= Len(arrived') /\ DOMAIN pending' = 1..Len(pending')
    BY <1>1, <1>2, <1>3
  <2> QED
    BY <2>1, <2>2 DEF PendingIsRest
<1> QED
  BY <1>1, <1>2, <1>4, <1>5

LEMMA InitGateInv == WatchInit => GateInv
<1> SUFFICES ASSUME WatchInit PROVE GateInv
  OBVIOUS
<1>1. WatchTypeOK
  <2>1. /\ <<>> \in Seq(Nat) /\ <<>> \in Seq(Id) /\ IsInjective(<<>>) /\ Len(<<>>) = 0
        /\ Capacity >= 0 /\ MaxSeen >= 0 /\ MaxMsgs >= 0
    BY WatchAssumption DEF IsInjective
  <2> QED
    BY <2>1 DEF WatchInit, WatchTypeOK
<1>2. Gated /\ LiveWatchNeverPanics
  BY DEF WatchInit, Gated, LiveWatchNeverPanics
<1>3. PendingIsRest
  BY DEF WatchInit, PendingIsRest
<1> QED
  BY <1>1, <1>2, <1>3 DEF GateInv

\* The mutex keeps callback and closer apart, and the closed flag tells a late
\* callback that the closer was there.
LEMMA NextGated ==
  GateInv /\ [WatchNext]_watchVars => Gated' /\ LiveWatchNeverPanics'
<1> SUFFICES ASSUME GateInv, [WatchNext]_watchVars PROVE Gated' /\ LiveWatchNeverPanics'
  OBVIOUS
<1> USE DEF GateInv, Gated, LiveWatchNeverPanics, Running
<1>t. /\ call \in {"subscribing", "live", "failed"} /\ callback \in {"idle", "popped", "selecting"}
      /\ mu \in {"nobody", "callback", "closer"}
      /\ closer \in {"none", "waiting", "unsubscribed", "holding", "done"}
  BY DEF WatchTypeOK
<1>1. CASE WatchReturns
  BY <1>1, <1>t DEF WatchReturns
<1>2. CASE WatchFails
  BY <1>2, <1>t DEF WatchFails
<1>3. CASE Cancel \/ Unsubscribed \/ Arrive \/ Consume
  BY <1>3 DEF Cancel, Unsubscribed, Arrive, Consume
<1>4. CASE Pop
  <2>1. Head(pending) # 0
    BY <1>4, PopTakes
  <2> QED
    BY <1>4, <2>1 DEF Pop
<1>5. CASE Lock
  BY <1>5 DEF Lock
<1>6. CASE SelectSend
  BY <1>6, <1>t DEF SelectSend
<1>7. CASE SelectDone
  BY <1>7 DEF SelectDone
<1>8. CASE CloserUnsubscribes
  BY <1>8, <1>t DEF CloserUnsubscribes
<1>9. CASE CloserLocks
  BY <1>9, <1>t DEF CloserLocks
<1>10. CASE CloserCloses
  BY <1>10, <1>t DEF CloserCloses
<1>11. CASE UNCHANGED watchVars
  BY <1>11 DEF watchVars
<1> QED
  BY <1>1, <1>2, <1>3, <1>4, <1>5, <1>6, <1>7, <1>8, <1>9, <1>10, <1>11
  DEF WatchNext, Callback, Closer

\* The types; Arrive and Pop keep the queue what is left of the arrivals.
LEMMA NextGateInv == GateInv /\ [WatchNext]_watchVars => GateInv'
<1> SUFFICES ASSUME GateInv, [WatchNext]_watchVars PROVE WatchTypeOK' /\ PendingIsRest'
  BY NextGated DEF GateInv
<1>t. WatchTypeOK /\ PendingIsRest
  BY DEF GateInv
<1> DEFINE Goal == WatchTypeOK' /\ PendingIsRest'
<1>1. CASE WatchReturns \/ WatchFails \/ Cancel \/ Unsubscribed \/ Closer \/ UNCHANGED watchVars
  <2> USE DEF WatchReturns, WatchFails, Cancel, Unsubscribed, Closer, CloserUnsubscribes,
              CloserLocks, CloserCloses, watchVars
  <2>1. UNCHANGED <<pending, callback, current, chan, dedup, seenOrder, arrived, received>>
    BY <1>1
  <2>2. /\ call' \in {"subscribing", "live", "failed"}
        /\ mu' \in {"nobody", "callback", "closer"}
        /\ closer' \in {"none", "waiting", "unsubscribed", "holding", "done"}
    BY <1>1, <1>t DEF WatchTypeOK
  <2>3. /\ subActive' \in BOOLEAN /\ closedFlag' \in BOOLEAN /\ ctxDone' \in BOOLEAN
        /\ chanClosed' \in BOOLEAN /\ panicked' \in BOOLEAN
    BY <1>1, <1>t DEF WatchTypeOK
  <2>4. WatchTypeOK'
    BY <1>t, <2>1, <2>2, <2>3 DEF WatchTypeOK
  <2>5. PendingIsRest'
    BY <1>t, <2>1 DEF PendingIsRest, Taken
  <2> QED
    BY <2>4, <2>5
<1>2. CASE Arrive
  <2>1. PICK id \in Id : arrived' = Append(arrived, id)
    BY <1>2 DEF Arrive
  <2>2. /\ pending' = Append(pending, Len(arrived) + 1) /\ Len(arrived) < MaxMsgs
        /\ UNCHANGED <<call, subActive, callback, current, mu, closer, closedFlag, ctxDone,
                       chan, chanClosed, panicked, dedup, seenOrder, received>>
    BY <1>2 DEF Arrive
  <2>3. /\ arrived \in Seq(Id) /\ pending \in Seq(Nat) /\ Len(pending) <= Len(arrived)
        /\ \A i \in 1..Len(pending) : pending[i] = Taken + i
    BY <1>t DEF WatchTypeOK, PendingIsRest
  <2>4. /\ arrived' \in Seq(Id) /\ Len(arrived') = Len(arrived) + 1
        /\ pending' \in Seq(Nat) /\ Len(pending') = Len(pending) + 1
        /\ pending'[Len(pending) + 1] = Len(arrived) + 1
        /\ \A i \in 1..Len(pending) : pending'[i] = pending[i]
    BY <2>1, <2>2, <2>3
  <2>5. Len(arrived') <= MaxMsgs /\ Taken' = Taken /\ Len(arrived) + 1 = Taken + (Len(pending) + 1)
    BY <2>2, <2>3, <2>4, WatchAssumption DEF Taken
  <2>6. WatchTypeOK'
    BY <1>t, <2>2, <2>4, <2>5 DEF WatchTypeOK
  <2>7. \A i \in 1..(Len(pending) + 1) : pending'[i] = Taken' + i
    <3>1. ASSUME NEW i \in 1..Len(pending) PROVE pending'[i] = Taken' + i
      BY <2>3, <2>4, <2>5
    <3>2. pending'[Len(pending) + 1] = Taken' + (Len(pending) + 1)
      BY <2>4, <2>5
    <3> QED
      BY <2>3, <3>1, <3>2
  <2>8. Len(pending') <= Len(arrived') /\ DOMAIN pending' = 1..(Len(pending) + 1)
    BY <2>3, <2>4
  <2>9. PendingIsRest'
    BY <2>7, <2>8 DEF PendingIsRest
  <2> QED
    BY <2>6, <2>9
<1>3. CASE Pop
  <2>1. pending' \in Seq(Nat) /\ Head(pending) \in Nat /\ arrived[Head(pending)] \in Id /\ PendingIsRest'
    BY <1>3, <1>t, PopTakes
  <2>2. seenOrder' \in Seq(Id) /\ Len(seenOrder') <= MaxSeen /\ IsInjective(seenOrder')
    <3>1. CASE seenOrder' = seenOrder
      BY <3>1, <1>t DEF WatchTypeOK
    <3>2. CASE dedup /\ ~IsDuplicate(arrived[Head(pending)])
      <4>1. seenOrder' = Remember(arrived[Head(pending)]) /\ ~Contains(seenOrder, arrived[Head(pending)])
        BY <1>3, <3>2 DEF Pop, IsDuplicate
      <4> QED
        BY <4>1, <1>t, <2>1, RememberKeeps
    <3> QED
      BY <1>3, <3>1, <3>2 DEF Pop
  <2>3. current' \in Nat /\ callback' \in {"idle", "popped", "selecting"}
    BY <1>3, <1>t, <2>1 DEF Pop, WatchTypeOK
  <2>4. UNCHANGED <<call, subActive, mu, closer, closedFlag, ctxDone, chan, chanClosed,
                    panicked, dedup, arrived, received>>
    BY <1>3 DEF Pop
  <2>5. WatchTypeOK'
    BY <1>t, <2>1, <2>2, <2>3, <2>4 DEF WatchTypeOK
  <2> QED
    BY <2>1, <2>5
<1>4. CASE Lock \/ SelectDone
  <2>1. /\ current' \in Nat /\ callback' \in {"idle", "selecting"} /\ mu' \in {"nobody", "callback"}
        /\ UNCHANGED <<call, subActive, pending, closer, closedFlag, ctxDone, chan,
                       chanClosed, panicked, dedup, seenOrder, arrived, received>>
    BY <1>4, <1>t DEF Lock, SelectDone, WatchTypeOK
  <2> QED
    BY <2>1, <1>t DEF WatchTypeOK, PendingIsRest, Taken
<1>5. CASE SelectSend
  <2>1. /\ current' = 0 /\ callback' = "idle" /\ mu' = "nobody"
        /\ UNCHANGED <<call, subActive, pending, closer, closedFlag, ctxDone, chanClosed,
                       dedup, seenOrder, arrived, received>>
        /\ panicked' = TRUE \/ panicked' = panicked
    BY <1>5 DEF SelectSend
  <2>2. chan' \in Seq(Nat) /\ Len(chan') <= Capacity
    <3>1. chan \in Seq(Nat) /\ Len(chan) <= Capacity /\ current \in Nat /\ Capacity \in Nat
      BY <1>t, WatchAssumption DEF WatchTypeOK
    <3>2. chan' = chan \/ (Len(chan) < Capacity /\ chan' = Append(chan, current))
      BY <1>5 DEF SelectSend
    <3> QED
      BY <3>1, <3>2
  <2>3. panicked' \in BOOLEAN
    BY <2>1, <1>t DEF WatchTypeOK
  <2> QED
    BY <2>1, <2>2, <2>3, <1>t DEF WatchTypeOK, PendingIsRest, Taken
<1>6. CASE Consume
  <2>1. UNCHANGED <<call, subActive, pending, callback, current, mu, closer, closedFlag,
                    ctxDone, chanClosed, panicked, dedup, seenOrder, arrived>>
    BY <1>6 DEF Consume
  <2>2. /\ chan' \in Seq(Nat) /\ Len(chan') <= Capacity
        /\ received' \in Seq(Nat)
    BY <1>6, <1>t, WatchAssumption DEF Consume, WatchTypeOK
  <2> QED
    BY <2>1, <2>2, <1>t DEF WatchTypeOK, PendingIsRest, Taken
<1> QED
  BY <1>1, <1>2, <1>3, <1>4, <1>5, <1>6 DEF WatchNext, Callback

\* A Watch whose subscription was set up never sends on its closed channel and
\* never closes it twice, whatever the interleaving of dispatcher, callback,
\* closer and consumer and for any capacity (Service.Watch in notify.go).
THEOREM LiveWatchesDoNotPanic == WatchSpec => []LiveWatchNeverPanics
<1>1. WatchSpec => []GateInv
  BY InitGateInv, NextGateInv, PTL DEF WatchSpec
<1>2. GateInv => LiveWatchNeverPanics
  BY DEF GateInv
<1> QED
  BY <1>1, <1>2, PTL

-----------------------------------------------------------------------------
\* What is behind the callback is received \o chan; a message in its hands
\* comes last.
LEMMA MoveHead ==
  ASSUME NEW r \in Seq(Nat), NEW c \in Seq(Nat), c # <<>>
  PROVE  Append(r, Head(c)) \o Tail(c) = r \o c
<1> DEFINE a == Append(r, Head(c)) \o Tail(c)
           b == r \o c
<1>1. /\ a \in Seq(Nat) /\ b \in Seq(Nat) /\ Len(a) = Len(r) + Len(c) /\ Len(b) = Len(r) + Len(c)
  OBVIOUS
<1>2. ASSUME NEW i \in 1..Len(a) PROVE a[i] = b[i]
  BY <1>1
<1> QED
  BY <1>1, <1>2, SeqEqual

LEMMA MoveLast ==
  ASSUME NEW r \in Seq(Nat), NEW c \in Seq(Nat), NEW n \in Nat
  PROVE  r \o Append(c, n) = Append(r \o c, n)
<1> DEFINE a == r \o Append(c, n)
           b == Append(r \o c, n)
<1>1. /\ a \in Seq(Nat) /\ b \in Seq(Nat) /\ Len(a) = Len(r) + Len(c) + 1
      /\ Len(b) = Len(r) + Len(c) + 1
  OBVIOUS
<1>2. ASSUME NEW i \in 1..Len(a) PROVE a[i] = b[i]
  BY <1>1
<1> QED
  BY <1>1, <1>2, SeqEqual

LEMMA GivenIs ==
  ASSUME WatchTypeOK
  PROVE  /\ received \o chan \in Seq(Nat)
         /\ Given \in Seq(Nat)
         /\ Given = IF current = 0 THEN received \o chan ELSE Append(received \o chan, current)
<1>1. received \o chan \in Seq(Nat) /\ current \in Nat
  BY DEF WatchTypeOK
<1>2. CASE current = 0
  BY <1>1, <1>2, ConcatEmptySeq DEF Given
<1>3. CASE current # 0
  <2>1. Append(received \o chan, current) = (received \o chan) \o <<current>>
    BY <1>1, AppendIsConcat
  <2> QED
    BY <1>1, <1>3, <2>1 DEF Given
<1> QED
  BY <1>2, <1>3

\* A Pop puts the next message into Given unless it is a duplicate.
LEMMA PopGives ==
  ASSUME WatchTypeOK, WatchTypeOK', Gated, PendingIsRest, Pop
  PROVE  Given' = IF IsDuplicate(arrived[Head(pending)]) THEN Given ELSE Append(Given, Head(pending))
<1>1. current = 0 /\ UNCHANGED <<received, chan>>
  BY DEF Pop, Gated
<1>2. Given = received \o chan
  BY <1>1, GivenIs
<1>3. Given' = IF current' = 0 THEN received \o chan ELSE Append(received \o chan, current')
  <2>1. (WatchTypeOK => Given = IF current = 0 THEN received \o chan
                                ELSE Append(received \o chan, current))'
    BY GivenIs, PTL
  <2> QED
    BY <1>1, <2>1
<1>4. current' = IF IsDuplicate(arrived[Head(pending)]) THEN current ELSE Head(pending)
  BY DEF Pop
<1>5. Head(pending) # 0
  BY PopTakes
<1> QED
  BY <1>1, <1>2, <1>3, <1>4, <1>5

\* How a step changes Given: not at all, by the message a Pop takes, or by the
\* message a callback drops.
LEMMA GivenSteps ==
  ASSUME GateInv, [WatchNext]_watchVars
  PROVE  \/ Given' = Given
         \/ Pop /\ Given' = Append(Given, Head(pending))
         \/ /\ Given = Append(Given', current)
            /\ (Lock /\ closedFlag) \/ SelectDone \/ (SelectSend /\ panicked')
<1>t. WatchTypeOK /\ WatchTypeOK' /\ Gated /\ PendingIsRest
  BY NextGateInv DEF GateInv
<1>g. /\ Given = IF current = 0 THEN received \o chan ELSE Append(received \o chan, current)
      /\ Given' = IF current' = 0 THEN received' \o chan' ELSE Append(received' \o chan', current')
  <2>1. (WatchTypeOK => Given = IF current = 0 THEN received \o chan
                                ELSE Append(received \o chan, current))'
    BY GivenIs, PTL
  <2> QED
    BY <1>t, <2>1, GivenIs
<1>1. CASE UNCHANGED <<received, chan, current>>
  BY <1>1, <1>g
<1>2. CASE Pop
  BY <1>2, <1>t, PopGives
<1>3. CASE (Lock /\ closedFlag) \/ SelectDone \/ (SelectSend /\ panicked')
  <2>1. current # 0 /\ current' = 0 /\ UNCHANGED <<received, chan>>
    BY <1>3, <1>t DEF Lock, SelectDone, SelectSend, Gated, Running
  <2> QED
    BY <1>3, <1>g, <2>1
<1>4. CASE Lock /\ ~closedFlag
  BY <1>1, <1>4 DEF Lock
<1>5. CASE SelectSend /\ ~panicked'
  <2>1. current # 0 /\ current' = 0 /\ UNCHANGED received /\ chan' = Append(chan, current)
    BY <1>5, <1>t DEF SelectSend, Gated
  <2>2. received \in Seq(Nat) /\ chan \in Seq(Nat) /\ current \in Nat
    BY <1>t DEF WatchTypeOK
  <2> QED
    BY <1>g, <2>1, <2>2, MoveLast
<1>6. CASE Consume
  <2>1. /\ UNCHANGED current /\ received' = Append(received, Head(chan)) /\ chan' = Tail(chan)
        /\ chan # <<>> /\ received \in Seq(Nat) /\ chan \in Seq(Nat)
    BY <1>6, <1>t DEF Consume, WatchTypeOK
  <2>2. received' \o chan' = received \o chan
    BY <2>1, MoveHead
  <2> QED
    BY <1>g, <2>1, <2>2
<1>7. WatchReturns \/ WatchFails \/ Cancel \/ Unsubscribed \/ Arrive \/ Closer \/ UNCHANGED watchVars
        => UNCHANGED <<received, chan, current>>
  BY DEF WatchReturns, WatchFails, Cancel, Unsubscribed, Arrive, Closer, CloserUnsubscribes,
         CloserLocks, CloserCloses, watchVars
<1> QED
  BY <1>1, <1>2, <1>3, <1>4, <1>5, <1>6, <1>7 DEF WatchNext, Callback

\* What every step leaves alone: the arrivals it finds, the filter's setting, a
\* cancelled context, a failed call and a panic.
LEMMA Settled ==
  ASSUME GateInv, [WatchNext]_watchVars
  PROVE  /\ Taken \in Nat /\ Taken <= Len(arrived) /\ Len(arrived) \in Nat
         /\ \A n \in 1..Len(arrived) : arrived'[n] = arrived[n]
         /\ dedup' = dedup /\ (ctxDone => ctxDone')
         /\ (call = "failed" => call' = "failed") /\ (panicked => panicked')
         /\ ~Pop => Taken' = Taken /\ seenOrder' = seenOrder
<1>t. WatchTypeOK /\ PendingIsRest
  BY DEF GateInv
<1>1. Taken \in Nat /\ Taken <= Len(arrived) /\ Len(arrived) \in Nat
  BY <1>t DEF WatchTypeOK, PendingIsRest, Taken
<1>2. CASE Arrive
  <2>1. PICK id \in Id : arrived' = Append(arrived, id)
    BY <1>2 DEF Arrive
  <2>2. /\ pending' = Append(pending, Len(arrived) + 1) /\ arrived \in Seq(Id) /\ pending \in Seq(Nat)
        /\ UNCHANGED <<dedup, ctxDone, call, panicked, seenOrder>>
    BY <1>2, <1>t DEF Arrive, WatchTypeOK
  <2>3. Len(arrived') = Len(arrived) + 1 /\ Len(pending') = Len(pending) + 1
        /\ \A n \in 1..Len(arrived) : arrived'[n] = arrived[n]
    BY <2>1, <2>2
  <2>4. Taken' = Taken
    BY <2>2, <2>3 DEF Taken
  <2> QED
    BY <1>1, <2>2, <2>3, <2>4
<1>3. CASE Pop
  BY <1>1, <1>3 DEF Pop
<1>4. CASE ~Arrive /\ ~Pop
  <2>1. /\ UNCHANGED <<arrived, pending, seenOrder, dedup>> /\ (ctxDone => ctxDone')
        /\ (call = "failed" => call' = "failed") /\ (panicked => panicked')
    BY <1>4 DEF WatchNext, Callback, Closer, WatchReturns, WatchFails, Cancel, Unsubscribed, Lock,
                SelectSend, SelectDone, CloserUnsubscribes, CloserLocks, CloserCloses, Consume,
                watchVars, Running
  <2> QED
    BY <1>1, <2>1 DEF Taken
<1> QED
  BY <1>2, <1>3, <1>4

LEMMA GivenDomain ==
  ASSUME GateInv
  PROVE  Given \in Seq(Nat) /\ DOMAIN Given = 1..Len(Given) /\ Len(Given) \in Nat
<1>1. Given \in Seq(Nat)
  BY GivenIs DEF GateInv
<1> QED
  BY <1>1

\* A step that takes and drops nothing.
LEMMA KeepsOrder ==
  ASSUME WatchInv, [WatchNext]_watchVars, Given' = Given, ~Pop
  PROVE  (SeenTaken /\ SeenAreLast /\ InOrderNoGaps)'
<1>i. GateInv /\ SeenTaken /\ SeenAreLast /\ InOrder /\ NoGaps /\ FarApart
  BY DEF WatchInv, InOrderNoGaps
<1>s. /\ Taken \in Nat /\ Taken <= Len(arrived) /\ Len(arrived) \in Nat
      /\ \A n \in 1..Len(arrived) : arrived'[n] = arrived[n]
      /\ dedup' = dedup /\ (ctxDone => ctxDone')
      /\ (call = "failed" => call' = "failed") /\ (panicked => panicked')
      /\ Taken' = Taken /\ seenOrder' = seenOrder
  BY <1>i, Settled
<1>d. Given \in Seq(Nat) /\ DOMAIN Given = 1..Len(Given) /\ Len(Given) \in Nat
  BY <1>i, GivenDomain
<1>a. \A i \in DOMAIN Given : arrived'[Given[i]] = arrived[Given[i]]
  BY <1>i, <1>s DEF InOrder
<1>1. InOrder'
  BY <1>i, <1>s DEF InOrder
<1>2. NoGaps'
  <2>1. \A n \in 1..Taken : First(n)' => First(n)
    BY <1>s DEF First
  <2> QED
    BY <1>i, <1>s, <2>1 DEF NoGaps
<1>3. FarApart'
  BY <1>i, <1>s, <1>a DEF FarApart
<1>4. SeenTaken'
  BY <1>i, <1>s DEF SeenTaken
<1>5. SeenAreLast'
  <2>1. seenOrder \in Seq(Id)
    BY <1>i DEF GateInv, WatchTypeOK
  <2>2. ASSUME dedup, ~ctxDone, ~panicked, NEW k \in DOMAIN seenOrder
        PROVE  Len(Given) - Len(seenOrder) + k \in DOMAIN Given
    BY <1>i, <1>d, <2>1, <2>2 DEF SeenAreLast
  <2> QED
    BY <1>i, <1>s, <1>a, <2>2 DEF SeenAreLast
<1> QED
  BY <1>1, <1>2, <1>3, <1>4, <1>5 DEF InOrderNoGaps

\* A callback that drops its message: what it had was the last of Given, and
\* the context is cancelled or the call has failed.
LEMMA DropsLast ==
  ASSUME WatchInv, [WatchNext]_watchVars, Given = Append(Given', current),
         (Lock /\ closedFlag) \/ SelectDone \/ (SelectSend /\ panicked')
  PROVE  (SeenTaken /\ SeenAreLast /\ InOrderNoGaps)'
<1>i. GateInv /\ GateInv' /\ SeenTaken /\ InOrder /\ FarApart
  BY NextGateInv DEF WatchInv, InOrderNoGaps
<1>s. /\ Taken \in Nat /\ Taken <= Len(arrived) /\ Len(arrived) \in Nat
      /\ \A n \in 1..Len(arrived) : arrived'[n] = arrived[n]
      /\ dedup' = dedup /\ (ctxDone => ctxDone')
      /\ Taken' = Taken /\ seenOrder' = seenOrder
  <2>1. ~Pop
    BY DEF Lock, SelectDone, SelectSend, Pop
  <2> QED
    BY <1>i, <2>1, Settled
<1>d. /\ Given' \in Seq(Nat) /\ DOMAIN Given' = 1..Len(Given') /\ Len(Given') \in Nat
      /\ DOMAIN Given = 1..(Len(Given') + 1)
      /\ \A i \in DOMAIN Given' : Given'[i] = Given[i]
  <2>1. (GateInv => Given \in Seq(Nat))'
    BY GivenDomain, PTL
  <2>2. Given' \in Seq(Nat) /\ current \in Nat
    BY <1>i, <2>1 DEF GateInv, WatchTypeOK
  <2> QED
    BY <2>2
<1>x. ctxDone' \/ (call' = "failed" /\ panicked')
  BY <1>i DEF Lock, SelectDone, SelectSend, GateInv, Gated, LiveWatchNeverPanics
<1>e. DOMAIN Given' \subseteq DOMAIN Given
  BY <1>d
<1>1. InOrder'
  BY <1>i, <1>s, <1>d, <1>e DEF InOrder
<1>2. NoGaps'
  BY <1>x DEF NoGaps
<1>3. FarApart'
  <2>1. \A i \in DOMAIN Given' : arrived'[Given'[i]] = arrived[Given[i]]
    BY <1>i, <1>s, <1>d, <1>e DEF InOrder
  <2> QED
    BY <1>i, <1>s, <1>d, <1>e, <2>1 DEF FarApart
<1>4. SeenTaken'
  BY <1>i, <1>s DEF SeenTaken
<1>5. SeenAreLast'
  BY <1>x DEF SeenAreLast
<1> QED
  BY <1>1, <1>2, <1>3, <1>4, <1>5 DEF InOrderNoGaps

\* A Pop of a duplicate: its id was taken before, so it is not a first one.
LEMMA SkipsDuplicate ==
  ASSUME WatchInv, Pop, IsDuplicate(arrived[Head(pending)]), Given' = Given
  PROVE  (SeenTaken /\ SeenAreLast /\ InOrderNoGaps)'
<1>i. GateInv /\ SeenTaken /\ SeenAreLast /\ InOrder /\ NoGaps /\ FarApart
  BY DEF WatchInv, InOrderNoGaps
<1>p. /\ Taken \in Nat /\ Taken' = Taken + 1 /\ Taken + 1 \in 1..Len(arrived)
      /\ Head(pending) = Taken + 1 /\ arrived' = arrived
  BY <1>i, PopTakes DEF GateInv
<1>u. UNCHANGED <<dedup, ctxDone, call, panicked, seenOrder>> /\ dedup
      /\ Contains(seenOrder, arrived[Taken + 1])
  BY <1>p DEF Pop, IsDuplicate
<1>1. InOrder'
  BY <1>i, <1>p DEF InOrder
<1>2. NoGaps'
  <2>1. PICK k \in DOMAIN seenOrder : seenOrder[k] = arrived[Taken + 1]
    <3>1. seenOrder \in Seq(Id)
      BY <1>i DEF GateInv, WatchTypeOK
    <3> QED
      BY <1>u, <3>1 DEF Contains
  <2>2. ~First(Taken + 1)
    BY <1>i, <1>p, <2>1 DEF SeenTaken, First
  <2>3. \A n \in 1..Taken' : First(n)' => First(n) /\ n \in 1..Taken
    BY <1>p, <2>2 DEF First
  <2> QED
    BY <1>i, <1>u, <2>3 DEF NoGaps
<1>3. FarApart'
  BY <1>i, <1>p, <1>u DEF FarApart
<1>4. SeenTaken'
  BY <1>i, <1>p, <1>u DEF SeenTaken
<1>5. SeenAreLast'
  BY <1>i, <1>p, <1>u DEF SeenAreLast
<1> QED
  BY <1>1, <1>2, <1>3, <1>4, <1>5 DEF InOrderNoGaps

\* A Pop that hands the next message to the callback.
LEMMA TakesNext ==
  ASSUME WatchInv, Pop, ~IsDuplicate(arrived[Head(pending)]), Given' = Append(Given, Head(pending))
  PROVE  (SeenTaken /\ SeenAreLast /\ InOrderNoGaps)'
<1>i. GateInv /\ SeenTaken /\ SeenAreLast /\ InOrder /\ NoGaps /\ FarApart
  BY DEF WatchInv, InOrderNoGaps
<1>p. /\ Taken \in Nat /\ Taken' = Taken + 1 /\ Taken + 1 \in 1..Len(arrived)
      /\ Head(pending) = Taken + 1 /\ arrived' = arrived /\ arrived[Taken + 1] \in Id
  BY <1>i, PopTakes DEF GateInv
<1> DEFINE id == arrived[Taken + 1]
           len == Len(Given)
<1>u. /\ UNCHANGED <<dedup, ctxDone, call, panicked>> /\ ~panicked
      /\ dedup => ~Contains(seenOrder, id) /\ seenOrder' = Remember(id)
      /\ ~dedup => seenOrder' = seenOrder
  BY <1>p DEF Pop, IsDuplicate, Running
<1>d. /\ Given \in Seq(Nat) /\ DOMAIN Given = 1..len /\ len \in Nat
      /\ DOMAIN Given' = 1..(len + 1) /\ Len(Given') = len + 1
      /\ \A i \in 1..len : Given'[i] = Given[i]
      /\ Given'[len + 1] = Taken + 1
  <2>1. Given \in Seq(Nat) /\ DOMAIN Given = 1..len /\ len \in Nat
    BY <1>i, GivenDomain
  <2> QED
    BY <1>p, <2>1
<1> HIDE DEF len
<1>1. InOrder'
  BY <1>i, <1>p, <1>d DEF InOrder
<1>2. NoGaps'
  <2>1. \A n \in 1..Taken : First(n)' => First(n)
    BY <1>p DEF First
  <2>2. \A n \in 1..(Taken + 1) : n \in 1..Taken \/ n = Taken + 1
    BY <1>p
  <2>3. \A n \in 1..Taken : (\E i \in DOMAIN Given : Given[i] = n) => \E i \in DOMAIN Given' : Given'[i] = n
    BY <1>d
  <2>4. \E i \in DOMAIN Given' : Given'[i] = Taken + 1
    BY <1>d
  <2> QED
    BY <1>i, <1>p, <1>u, <2>1, <2>2, <2>3, <2>4 DEF NoGaps
<1>r. ASSUME dedup
      PROVE  \E cut \in Nat :
               /\ cut = 0 \/ Len(seenOrder') = Half
               /\ Len(seenOrder') + cut = Len(seenOrder) + 1 /\ Len(seenOrder') >= 1
               /\ seenOrder'[Len(seenOrder')] = id
               /\ \A k \in 1..(Len(seenOrder') - 1) : seenOrder'[k] = seenOrder[cut + k]
  <2>1. WatchTypeOK /\ id \in Id /\ ~Contains(seenOrder, id) /\ seenOrder' = Remember(id)
    BY <1>r, <1>i, <1>p, <1>u DEF GateInv
  <2> HIDE DEF id
  <2>2. \E cut \in Nat :
          /\ cut = 0 \/ Len(Remember(id)) = Half
          /\ Len(Remember(id)) + cut = Len(seenOrder) + 1 /\ Len(Remember(id)) >= 1
          /\ Remember(id)[Len(Remember(id))] = id
          /\ \A k \in 1..(Len(Remember(id)) - 1) : Remember(id)[k] = seenOrder[cut + k]
    BY <2>1, RememberKeeps
  <2> QED
    BY <2>1, <2>2
<1>q. seenOrder \in Seq(Id) /\ seenOrder' \in Seq(Id)
  <2>1. WatchTypeOK
    BY <1>i DEF GateInv
  <2>2. CASE dedup
    BY <2>1, <2>2, <1>p, <1>u, RememberKeeps DEF WatchTypeOK
  <2>3. CASE ~dedup
    BY <2>1, <2>3, <1>u DEF WatchTypeOK
  <2> QED
    BY <2>2, <2>3
<1>h. Half \in Nat
  BY WatchAssumption DEF Half
<1>3. FarApart'
  <2> SUFFICES ASSUME dedup, ~ctxDone, NEW i \in 1..(len + 1), NEW j \in 1..(len + 1), i < j,
                      arrived[Given'[i]] = arrived[Given'[j]]
               PROVE  j - i > Half
    BY <1>p, <1>u, <1>d DEF FarApart
  <2>1. CASE j # len + 1
    <3>1. i \in 1..len /\ j \in 1..len
      BY <1>d, <2>1
    <3>2. Given'[i] = Given[i] /\ Given'[j] = Given[j]
      BY <1>d, <3>1
    <3>3. i \in DOMAIN Given /\ j \in DOMAIN Given
      BY <1>d, <3>1
    <3> QED
      BY <1>i, <3>2, <3>3 DEF FarApart
  <2>2. CASE j = len + 1
    <3>1. i \in 1..len /\ arrived[Given[i]] = id
      BY <2>2, <1>d
    <3>2. /\ Len(seenOrder) <= len /\ (Len(seenOrder) = len \/ Len(seenOrder) >= Half)
          /\ \A k \in 1..Len(seenOrder) : seenOrder[k] = arrived[Given[len - Len(seenOrder) + k]]
      BY <1>i, <1>u, <1>q DEF SeenAreLast, len
    <3>3. \A k \in 1..Len(seenOrder) : seenOrder[k] # id
      BY <1>u, <1>q DEF Contains
    <3>4. ~(i > len - Len(seenOrder))
      <4> SUFFICES ASSUME i > len - Len(seenOrder) PROVE FALSE
        OBVIOUS
      <4> DEFINE k == i - (len - Len(seenOrder))
      <4>1. k \in 1..Len(seenOrder) /\ len - Len(seenOrder) + k = i
        BY <1>d, <1>q, <3>1, <3>2
      <4> QED
        BY <3>1, <3>2, <3>3, <4>1
    <3>5. Len(seenOrder) \in Nat
      BY <1>q
    <3> QED
      BY <1>d, <1>h, <2>2, <3>1, <3>2, <3>4, <3>5
  <2> QED
    BY <2>1, <2>2
<1>4. SeenTaken'
  <2>1. CASE ~dedup
    BY <2>1, <1>i, <1>p, <1>u DEF SeenTaken
  <2>2. CASE dedup
    <3>1. PICK cut \in Nat :
               /\ Len(seenOrder') + cut = Len(seenOrder) + 1 /\ Len(seenOrder') >= 1
               /\ seenOrder'[Len(seenOrder')] = id
               /\ \A k \in 1..(Len(seenOrder') - 1) : seenOrder'[k] = seenOrder[cut + k]
      BY <2>2, <1>r
    <3> SUFFICES ASSUME NEW k \in 1..Len(seenOrder')
                 PROVE  \E m \in 1..(Taken + 1) : arrived[m] = seenOrder'[k]
      BY <1>p, <1>q DEF SeenTaken
    <3>2. CASE k = Len(seenOrder')
      BY <3>1, <3>2, <1>p
    <3>3. CASE k # Len(seenOrder')
      <4>1. cut + k \in 1..Len(seenOrder) /\ seenOrder'[k] = seenOrder[cut + k]
        BY <3>1, <3>3, <1>q
      <4>2. \E m \in 1..Taken : arrived[m] = seenOrder[cut + k]
        BY <4>1, <1>i, <1>q DEF SeenTaken
      <4> QED
        BY <4>1, <4>2, <1>p
    <3> QED
      BY <3>2, <3>3
  <2> QED
    BY <2>1, <2>2
<1>5. SeenAreLast'
  <2> SUFFICES ASSUME dedup', ~ctxDone', ~panicked'
               PROVE  /\ Len(seenOrder') <= Len(Given')
                      /\ Len(seenOrder') = Len(Given') \/ Len(seenOrder') >= Half
                      /\ \A k \in DOMAIN seenOrder' :
                           seenOrder'[k] = arrived'[Given'[Len(Given') - Len(seenOrder') + k]]
    BY DEF SeenAreLast
  <2>0. dedup /\ ~ctxDone
    BY <1>u
  <2>1. PICK cut \in Nat :
             /\ cut = 0 \/ Len(seenOrder') = Half
             /\ Len(seenOrder') + cut = Len(seenOrder) + 1 /\ Len(seenOrder') >= 1
             /\ seenOrder'[Len(seenOrder')] = id
             /\ \A k \in 1..(Len(seenOrder') - 1) : seenOrder'[k] = seenOrder[cut + k]
    BY <1>r, <2>0
  <2>2. /\ Len(seenOrder) <= len /\ (Len(seenOrder) = len \/ Len(seenOrder) >= Half)
        /\ \A k \in 1..Len(seenOrder) : seenOrder[k] = arrived[Given[len - Len(seenOrder) + k]]
    BY <1>i, <1>u, <1>q, <2>0 DEF SeenAreLast, len
  <2>3. Len(seenOrder) \in Nat /\ Len(seenOrder') \in Nat
    BY <1>q
  <2>4. Len(seenOrder') <= len + 1 /\ (Len(seenOrder') = len + 1 \/ Len(seenOrder') >= Half)
    BY <1>d, <1>h, <2>1, <2>2, <2>3
  <2>5. ASSUME NEW k \in 1..Len(seenOrder')
        PROVE  seenOrder'[k] = arrived[Given'[len + 1 - Len(seenOrder') + k]]
    <3>1. CASE k = Len(seenOrder')
      <4>1. len + 1 - Len(seenOrder') + k = len + 1
        BY <1>d, <2>3, <3>1
      <4> QED
        BY <1>d, <2>1, <3>1, <4>1
    <3>2. CASE k # Len(seenOrder')
      <4>1. cut + k \in 1..Len(seenOrder) /\ seenOrder'[k] = seenOrder[cut + k]
        BY <2>1, <2>3, <3>2
      <4>2. /\ len - Len(seenOrder) + (cut + k) = len + 1 - Len(seenOrder') + k
            /\ len - Len(seenOrder) + (cut + k) \in 1..len
        <5>1. /\ len \in Nat /\ cut \in Nat /\ Len(seenOrder') + cut = Len(seenOrder) + 1
              /\ Len(seenOrder) <= len /\ k \in Nat
          BY <1>d, <2>1, <2>2, <2>3
        <5>2. len - Len(seenOrder) + (cut + k) = len + 1 - Len(seenOrder') + k
          BY <2>3, <5>1
        <5>3. len - Len(seenOrder) + (cut + k) \in 1..len
          BY <2>3, <4>1, <5>1
        <5> QED
          BY <5>2, <5>3
      <4>3. seenOrder[cut + k] = arrived[Given[len - Len(seenOrder) + (cut + k)]]
        BY <2>2, <4>1
      <4>4. Given'[len - Len(seenOrder) + (cut + k)] = Given[len - Len(seenOrder) + (cut + k)]
        BY <1>d, <4>2
      <4> QED
        BY <4>1, <4>2, <4>3, <4>4
    <3> QED
      BY <3>1, <3>2
  <2>6. arrived' = arrived /\ Len(Given') = len + 1 /\ DOMAIN seenOrder' = 1..Len(seenOrder')
    BY <1>p, <1>d, <1>q
  <2>7. ASSUME NEW k \in DOMAIN seenOrder'
        PROVE  seenOrder'[k] = arrived'[Given'[Len(Given') - Len(seenOrder') + k]]
    <3>1. Len(Given') - Len(seenOrder') + k = len + 1 - Len(seenOrder') + k
      BY <1>d, <2>3, <2>6
    <3>2. seenOrder'[k] = arrived[Given'[len + 1 - Len(seenOrder') + k]]
      BY <2>5, <2>6
    <3> QED
      BY <2>6, <3>1, <3>2
  <2> QED
    BY <2>4, <2>6, <2>7
<1> QED
  BY <1>1, <1>2, <1>3, <1>4, <1>5 DEF InOrderNoGaps

LEMMA NextWatchInv == WatchInv /\ [WatchNext]_watchVars => WatchInv'
<1> SUFFICES ASSUME WatchInv, [WatchNext]_watchVars PROVE (SeenTaken /\ SeenAreLast /\ InOrderNoGaps)'
  BY NextGateInv DEF WatchInv
<1>i. GateInv
  BY DEF WatchInv
<1>1. CASE Pop
  <2>1. WatchTypeOK /\ WatchTypeOK' /\ Gated /\ PendingIsRest
    BY <1>i, NextGateInv DEF GateInv
  <2> QED
    BY <1>1, <2>1, PopGives, SkipsDuplicate, TakesNext
<1>2. CASE ~Pop
  BY <1>2, <1>i, GivenSteps, KeepsOrder, DropsLast
<1> QED
  BY <1>1, <1>2

\* A watcher gets the messages in the order of their arrival; before the
\* context is cancelled and if the subscription did not fail it misses none but
\* those whose id the filter has seen, and the filter lets an id through again
\* only after as many others as half its limit: for every channel capacity,
\* filter limit and sequence of arrivals (Service.Watch, Subscriber.isDuplicate).
THEOREM WatchersGetAllInOrder == WatchSpec => []InOrderNoGaps
<1>1. WatchInit => WatchInv
  <2> SUFFICES ASSUME WatchInit PROVE WatchInv
    OBVIOUS
  <2>1. GateInv /\ Given = <<>>
    BY InitGateInv, GivenIs DEF WatchInit, GateInv, Given
  <2>2. Taken = 0 /\ seenOrder = <<>>
    BY DEF WatchInit, Taken
  <2> QED
    BY <2>1, <2>2, WatchAssumption
    DEF WatchInv, SeenTaken, SeenAreLast, InOrderNoGaps, InOrder, NoGaps, FarApart
<1>2. WatchSpec => []WatchInv
  BY <1>1, NextWatchInv, PTL DEF WatchSpec
<1>3. WatchInv => InOrderNoGaps
  BY DEF WatchInv
<1> QED
  BY <1>2, <1>3, PTL
=============================================================================
