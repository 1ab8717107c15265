------------------------------ MODULE MlsGroup ------------------------------
(***************************************************************************)
(* One MLS group: the relayer's delivery service, which accepts one commit *)
(* per epoch and keeps the ordered log, the latest GroupInfo and pending   *)
(* Welcomes, and the MlsSession of every device, which builds commits,     *)
(* posts them, follows the log and rejoins when it fell out of step.       *)
(*                                                                         *)
(* Every device belongs to an on-chain reader, so no leaf is ever removed  *)
(* but by the rejoin that replaces it.  The cryptographic state of a       *)
(* device is named by the commit that produced it.  Only commits are rows: *)
(* proposals and application messages do not move the epoch.               *)
(***************************************************************************)
EXTENDS Naturals, Sequences, FiniteSets, SequencesExt

CONSTANTS
  Device,     \* installs, each with its own MLS key
  NoOne,      \* not a device
  Faults,     \* kinds of fault that happen: see FaultKind
  MaxFaults,  \* bound: faults
  MaxLog      \* bound: rows beyond which nobody commits of his own accord

FaultKind == {"timeout",   \* an answer that does not come in time
              "crash",     \* a device restarts from its saved state
              "reject",    \* create_message fails after the epoch has moved
              "delivery"}  \* a request or an answer that is lost

ASSUME MlsAssumption ==
  /\ IsFiniteSet(Device)
  /\ NoOne \notin Device
  /\ Faults \subseteq FaultKind
  /\ MaxFaults \in Nat
  /\ MaxLog \in Nat

VARIABLES
  epoch,     \* mls_group_epochs: the epoch the next commit must be made in
  log,       \* the stored commit rows, in order
  sent,      \* commits on their way to the relayer
  claimed,   \* commits whose epoch was accepted and whose row is not stored
  info,      \* mls_group_infos: the state the stored GroupInfo describes
  welcomes,  \* mls_welcomes: pairs of a device and the state it is given
  mem,       \* mem[d]: the group state of d, NoGroup if it has none
  disk,      \* disk[d]: the same in d's saved snapshot
  before,    \* before[d]: the snapshot taken before d built its commit
  cursor,    \* cursor[d]: rows d has processed, saved
  desynced,  \* desynced[d]: d knows it fell out of step (in memory)
  pc,        \* pc[d]: where d is in the call it is making
  op,        \* op[d]: the kind of commit d posted last
  faults     \* faults so far

relayerVars == <<epoch, log, sent, claimed, info, welcomes>>
deviceVars == <<mem, disk, before, cursor, desynced, pc, op>>
vars == <<relayerVars, deviceVars, faults>>

(* A commit made by a device in an epoch on a state; nonce tells apart two *)
(* commits a device builds in the same epoch.  leaves are the devices of   *)
(* the state it leads to, in leaf order, added those it adds.              *)
NoName == [by |-> NoOne, epoch |-> 0, nonce |-> 0]
NoGroup == [name |-> NoName, parent |-> NoName, leaves |-> <<>>, added |-> {}]

EpochOf(s) == IF s = NoGroup THEN 0 ELSE s.name.epoch + 1
Rows == {log[i] : i \in DOMAIN log}

Name == [by : Device, epoch : Nat, nonce : Nat] \union {NoName}
Commit == [name : Name, parent : Name, leaves : Seq(Device), added : SUBSET Device]

TypeOK ==
  /\ epoch \in Nat
  /\ log \in Seq(Commit)
  /\ sent \subseteq Commit
  /\ claimed \subseteq Commit
  /\ info \in Commit
  /\ welcomes \subseteq Device \X Commit
  /\ mem \in [Device -> Commit]
  /\ disk \in [Device -> Commit]
  /\ before \in [Device -> Commit]
  /\ cursor \in [Device -> 0..Len(log)]
  /\ desynced \in [Device -> BOOLEAN]
  /\ pc \in [Device -> {"idle", "posting", "welcome", "publish", "adding", "cursor", "catchup"}]
  /\ op \in [Device -> {"none", "claim", "join", "add", "update"}]
  /\ faults \in 0..MaxFaults

Init ==
  /\ epoch = 0
  /\ log = <<>>
  /\ sent = {}
  /\ claimed = {}
  /\ info = NoGroup
  /\ welcomes = {}
  /\ mem = [d \in Device |-> NoGroup]
  /\ disk = mem
  /\ before = mem
  /\ cursor = [d \in Device |-> 0]
  /\ desynced = [d \in Device |-> FALSE]
  /\ pc = [d \in Device |-> "idle"]
  /\ op = [d \in Device |-> "none"]
  /\ faults = 0

Fault(kind) ==
  /\ kind \in Faults
  /\ faults < MaxFaults
  /\ faults' = faults + 1

-----------------------------------------------------------------------------
(* The relayer. *)

(* Mutant: the epoch moves whatever epoch the commit was made in. *)
try_advance_uncompared(c) ==
  /\ c \in sent
  /\ sent' = sent \ {c}
  /\ epoch' = epoch + 1
  /\ claimed' = claimed \union {c}
  /\ UNCHANGED <<log, info, welcomes, deviceVars, faults>>

(* create_message, first half: the epoch is compared and moved in one      *)
(* statement; the loser is answered 409.                                   *)
try_advance_epoch(c) ==
  /\ c \in sent
  /\ sent' = sent \ {c}
  /\ IF c.name.epoch = epoch
       THEN epoch' = epoch + 1 /\ claimed' = claimed \union {c}
       ELSE UNCHANGED <<epoch, claimed>>
  /\ UNCHANGED <<log, info, welcomes, deviceVars, faults>>

(* create_message, second half: after its other checks it stores the row. *)
create_message(c) ==
  /\ c \in claimed
  /\ claimed' = claimed \ {c}
  /\ log' = Append(log, c)
  /\ UNCHANGED <<epoch, sent, info, welcomes, deviceVars, faults>>

(* A check after the compare-and-swap fails, the insert fails or the       *)
(* relayer stops: the request is answered with an error, or never.         *)
RejectClaimed(c) ==
  /\ Fault("reject")
  /\ c \in claimed
  /\ claimed' = claimed \ {c}
  /\ UNCHANGED <<epoch, log, sent, info, welcomes, deviceVars>>

LoseRequest(c) ==
  /\ Fault("delivery")
  /\ c \in sent
  /\ sent' = sent \ {c}
  /\ UNCHANGED <<epoch, log, claimed, info, welcomes, deviceVars>>

-----------------------------------------------------------------------------
(* Building and posting a commit.  The device merges it at once and keeps  *)
(* a snapshot to go back to.                                               *)

Fresh(d, e) ==
  LET live == {c \in sent \union claimed \union Rows : c.name.by = d /\ c.name.epoch = e}
  IN [by |-> d, epoch |-> e, nonce |-> CHOOSE n \in 0..Cardinality(live) : \A c \in live : c.name.nonce # n]

Post(d, on, leaves, added, kind) ==
  LET c == [name |-> Fresh(d, EpochOf(on)), parent |-> on.name,
            leaves |-> leaves, added |-> added]
  IN /\ sent' = sent \union {c}
     /\ before' = [before EXCEPT ![d] = mem[d]]
     /\ mem' = [mem EXCEPT ![d] = c]
     /\ pc' = [pc EXCEPT ![d] = "posting"]
     /\ op' = [op EXCEPT ![d] = kind]
     /\ UNCHANGED <<epoch, log, claimed, info, welcomes, disk, cursor, desynced, faults>>

InStep(d) == mem[d] # NoGroup /\ ~desynced[d]
Welcomed(d) == \E w \in welcomes : w[1] = d

(* No Welcome to pick up and no GroupInfo to join from: claim epoch 0 with *)
(* a fresh group.                                                          *)
bootstrap(d) ==
  /\ pc[d] = "idle"
  /\ ~InStep(d) /\ ~Welcomed(d)
  /\ info = NoGroup
  /\ Post(d, NoGroup, <<d>>, {}, "claim")

(* An external commit on the state of the stored GroupInfo.  A leaf of the *)
(* same device is replaced where it was.                                   *)
joinExternal(d) ==
  /\ pc[d] = "idle"
  /\ ~InStep(d)
  /\ info # NoGroup
  /\ Post(d, info, IF Contains(info.leaves, d) THEN info.leaves ELSE Append(info.leaves, d),
          {}, "join")

(* A member adds devices it claimed a KeyPackage of, or commits something  *)
(* that adds nobody: a renewed credential, pending proposals.              *)
addWallets(d) ==
  /\ InStep(d)
  /\ \/ pc[d] = "adding"
     \/ pc[d] = "idle" /\ Len(log) < MaxLog
  /\ \E devices \in SUBSET (Device \ ToSet(mem[d].leaves)) :
       /\ devices # {}
       /\ \E order \in SetToSeqs(devices) :
            Post(d, mem[d], mem[d].leaves \o order, devices, "add")

NothingToAdd(d) ==
  /\ pc[d] = "adding"
  /\ pc' = [pc EXCEPT ![d] = "idle"]
  /\ UNCHANGED <<relayerVars, mem, disk, before, cursor, desynced, op, faults>>

update(d) ==
  /\ pc[d] = "idle" /\ Len(log) < MaxLog
  /\ InStep(d)
  /\ Post(d, mem[d], mem[d].leaves, {}, "update")

(* The commit was accepted: save the state, hand out the Welcomes, publish *)
(* the GroupInfo.                                                          *)
Accepted(d) ==
  /\ disk' = [disk EXCEPT ![d] = mem[d]]
  /\ desynced' = [desynced EXCEPT ![d] = FALSE]
  /\ before' = [before EXCEPT ![d] = NoGroup]
  /\ pc' = [pc EXCEPT ![d] = IF op[d] = "add" THEN "welcome" ELSE "publish"]
  /\ UNCHANGED <<relayerVars, mem, cursor, op>>

(* Mutant: the device keeps the state of the commit that lost. *)
RejectedKept(d) ==
  /\ before' = [before EXCEPT ![d] = NoGroup]
  /\ pc' = [pc EXCEPT ![d] = IF op[d] \in {"add", "update"} THEN "catchup" ELSE "idle"]
  /\ op' = [op EXCEPT ![d] = "none"]
  /\ UNCHANGED <<relayerVars, mem, disk, cursor, desynced>>

(* It was not: back to the snapshot.  A member then catches up. *)
Rejected(d) ==
  /\ mem' = [mem EXCEPT ![d] = before[d]]
  /\ before' = [before EXCEPT ![d] = NoGroup]
  /\ pc' = [pc EXCEPT ![d] = IF op[d] \in {"add", "update"} THEN "catchup" ELSE "idle"]
  /\ op' = [op EXCEPT ![d] = "none"]
  /\ UNCHANGED <<relayerVars, disk, cursor, desynced>>

(* The answer.  201: stored.  409, or an error, after which the log does   *)
(* not show the commit: not accepted.                                      *)
postCommit(d) ==
  /\ pc[d] = "posting"
  /\ mem[d] \notin sent \union claimed
  /\ IF mem[d] \in Rows THEN Accepted(d) ELSE Rejected(d)
  /\ UNCHANGED faults

(* No answer in time: the log decides, while the request may still be      *)
(* under way; without it the call fails.                                   *)
findInLog(d) ==
  /\ Fault("timeout")
  /\ pc[d] = "posting"
  /\ IF mem[d] \in Rows THEN Accepted(d) ELSE Rejected(d)

postWelcome(d) ==
  /\ pc[d] = "welcome"
  /\ welcomes' = welcomes \union {<<x, mem[d]>> : x \in mem[d].added}
  /\ pc' = [pc EXCEPT ![d] = "publish"]
  /\ UNCHANGED <<epoch, log, sent, claimed, info, mem, disk, before, cursor, desynced, op, faults>>

(* Welcomes are stored one by one: some of them are when the request       *)
(* fails, and the exception leaves the call before it publishes.           *)
WelcomeFails(d) ==
  /\ Fault("delivery")
  /\ pc[d] = "welcome"
  /\ \E stored \in SUBSET mem[d].added :
       welcomes' = welcomes \union {<<x, mem[d]>> : x \in stored}
  /\ pc' = [pc EXCEPT ![d] = "idle"]
  /\ op' = [op EXCEPT ![d] = "none"]
  /\ UNCHANGED <<epoch, log, sent, claimed, info, mem, disk, before, cursor, desynced>>

AfterPublish(d) ==
  /\ pc' = [pc EXCEPT ![d] = IF op[d] = "claim" THEN "adding" ELSE "idle"]
  /\ op' = [op EXCEPT ![d] = "none"]

(* Mutant: compared with the epoch that the next commit would lead to. *)
put_group_info_off_by_one(s) == info' = IF EpochOf(s) = epoch + 1 THEN s ELSE info

(* The relayer takes a GroupInfo of the current epoch only. *)
put_group_info(s) == info' = IF EpochOf(s) = epoch THEN s ELSE info

publishGroupInfo(d) ==
  /\ pc[d] = "publish"
  /\ put_group_info(mem[d])
  /\ AfterPublish(d)
  /\ UNCHANGED <<epoch, log, sent, claimed, welcomes, mem, disk, before, cursor, desynced, faults>>

PublishFails(d) ==
  /\ Fault("delivery")
  /\ pc[d] = "publish"
  /\ AfterPublish(d)
  /\ UNCHANGED <<relayerVars, mem, disk, before, cursor, desynced>>

-----------------------------------------------------------------------------
(* Welcomes.  They are deleted as they are handed out. *)

(* Mutant: a device that is in the group takes the Welcome's state too. *)
acceptWelcomesInGroup(d) ==
  /\ pc[d] = "idle"
  /\ welcomes' = {w \in welcomes : w[1] # d}
  /\ \E w \in welcomes :
       /\ w[1] = d
       /\ mem' = [mem EXCEPT ![d] = w[2]]
       /\ disk' = [disk EXCEPT ![d] = w[2]]
       /\ desynced' = [desynced EXCEPT ![d] = FALSE]
  /\ UNCHANGED <<epoch, log, sent, claimed, info, before, cursor, pc, op, faults>>

acceptWelcomes(d) ==
  /\ pc[d] = "idle" /\ Welcomed(d)
  /\ welcomes' = {w \in welcomes : w[1] # d}
  /\ IF mem[d] # NoGroup
       THEN UNCHANGED <<mem, disk, desynced>>
       ELSE \E w \in welcomes :
              /\ w[1] = d
              /\ mem' = [mem EXCEPT ![d] = w[2]]
              /\ disk' = [disk EXCEPT ![d] = w[2]]
              /\ desynced' = [desynced EXCEPT ![d] = FALSE]
  /\ UNCHANGED <<epoch, log, sent, claimed, info, before, cursor, pc, op, faults>>

LoseWelcomes(d) ==
  /\ Fault("delivery")
  /\ pc[d] = "idle" /\ Welcomed(d)
  /\ welcomes' = {w \in welcomes : w[1] # d}
  /\ UNCHANGED <<epoch, log, sent, claimed, info, deviceVars>>

-----------------------------------------------------------------------------
(* Following the log.  A row of an earlier epoch is skipped.  A commit of  *)
(* the device's own epoch is applied unless the device made it itself or   *)
(* it was made on another state; then, and for a row of a later epoch, the *)
(* device is out of step and stays before the row.  A page is one row: the *)
(* state is saved, then the cursor, after each.                            *)

Unread(d) == cursor[d] < Len(log)
NextRow(d) == log[cursor[d] + 1]
Skips(d) == NextRow(d).name.epoch < EpochOf(mem[d])
Applies(d) ==
  /\ NextRow(d).name.epoch = EpochOf(mem[d])
  /\ NextRow(d).name.by # d
  /\ NextRow(d).parent = mem[d].name

Reading(d) == pc[d] \in {"idle", "catchup"} /\ mem[d] # NoGroup /\ Unread(d)

syncSkip(d) ==
  /\ Reading(d) /\ Skips(d)
  /\ cursor' = [cursor EXCEPT ![d] = @ + 1]
  /\ UNCHANGED <<relayerVars, mem, disk, before, desynced, pc, op, faults>>

syncApply(d) ==
  /\ Reading(d) /\ Applies(d)
  /\ mem' = [mem EXCEPT ![d] = NextRow(d)]
  /\ disk' = [disk EXCEPT ![d] = NextRow(d)]
  /\ pc' = [pc EXCEPT ![d] = "cursor"]
  /\ UNCHANGED <<relayerVars, before, cursor, desynced, op, faults>>

LowestTwo(leaves) == {leaves[i] : i \in DOMAIN leaves \intersect {1, 2}}

(* The epoch moved, so the two lowest leaves publish the GroupInfo. *)
setCursor(d) ==
  /\ pc[d] = "cursor"
  /\ cursor' = [cursor EXCEPT ![d] = @ + 1]
  /\ pc' = [pc EXCEPT ![d] = IF d \in LowestTwo(mem[d].leaves)
                               THEN "publish" ELSE "idle"]
  /\ UNCHANGED <<relayerVars, mem, disk, before, desynced, op, faults>>

(* Mutant: the device does not note that it is out of step. *)
syncStuckUnnoticed(d) ==
  /\ Reading(d) /\ ~Skips(d) /\ ~Applies(d)
  /\ disk' = [disk EXCEPT ![d] = mem[d]]
  /\ pc' = [pc EXCEPT ![d] = "idle"]
  /\ UNCHANGED <<relayerVars, mem, before, cursor, desynced, op, faults>>

(* Mutant: the cursor passes the row that was refused. *)
syncPassesRow(d) ==
  /\ Reading(d) /\ ~Skips(d) /\ ~Applies(d)
  /\ desynced' = [desynced EXCEPT ![d] = TRUE]
  /\ disk' = [disk EXCEPT ![d] = mem[d]]
  /\ cursor' = [cursor EXCEPT ![d] = @ + 1]
  /\ pc' = [pc EXCEPT ![d] = "idle"]
  /\ UNCHANGED <<relayerVars, mem, before, op, faults>>

(* The device saves what it has and stays before the row. *)
syncStuck(d) ==
  /\ Reading(d) /\ ~Skips(d) /\ ~Applies(d)
  /\ desynced' = [desynced EXCEPT ![d] = TRUE]
  /\ disk' = [disk EXCEPT ![d] = mem[d]]
  /\ pc' = [pc EXCEPT ![d] = "idle"]
  /\ UNCHANGED <<relayerVars, mem, before, cursor, op, faults>>

CaughtUp(d) ==
  /\ pc[d] = "catchup" /\ ~Unread(d)
  /\ pc' = [pc EXCEPT ![d] = "idle"]
  /\ UNCHANGED <<relayerVars, mem, disk, before, cursor, desynced, op, faults>>

(* The device restarts from what it saved. *)
Crash(d) ==
  /\ Fault("crash")
  /\ mem' = [mem EXCEPT ![d] = disk[d]]
  /\ desynced' = [desynced EXCEPT ![d] = FALSE]
  /\ pc' = [pc EXCEPT ![d] = "idle"]
  /\ op' = [op EXCEPT ![d] = "none"]
  /\ before' = [before EXCEPT ![d] = NoGroup]
  /\ UNCHANGED <<relayerVars, disk, cursor>>

-----------------------------------------------------------------------------
Claim(d) == \E c \in sent : c.name.by = d /\ try_advance_epoch(c)
Store == \E c \in claimed : create_message(c)

(* What a device does once its user opens the chat: it gets into the group *)
(* and follows the log, and it finishes the calls it began.                *)
Session(d) ==
  \/ bootstrap(d) \/ joinExternal(d) \/ acceptWelcomes(d)
  \/ postCommit(d) \/ postWelcome(d) \/ publishGroupInfo(d) \/ NothingToAdd(d)
  \/ syncSkip(d) \/ syncApply(d) \/ setCursor(d) \/ syncStuck(d) \/ CaughtUp(d)

Member(d) == addWallets(d) \/ update(d)

Failure ==
  \/ \E c \in claimed : RejectClaimed(c)
  \/ \E c \in sent : LoseRequest(c)
  \/ \E d \in Device :
       \/ findInLog(d) \/ WelcomeFails(d) \/ PublishFails(d) \/ LoseWelcomes(d) \/ Crash(d)

Next ==
  \/ Store
  \/ \E d \in Device : Claim(d) \/ Session(d) \/ Member(d)
  \/ Failure

(* The relayer serves its requests; a device whose user keeps the chat     *)
(* open goes on with its session.  Nobody has to add a device or to renew  *)
(* a credential, and no fault has to happen.                               *)
Spec ==
  /\ Init /\ [][Next]_vars
  /\ WF_vars(Store)
  /\ \A d \in Device : WF_vars(Claim(d)) /\ WF_vars(Session(d))

-----------------------------------------------------------------------------
(* The state is well typed, and                                            *)
(* the log is one chain: each row is a commit made in the next epoch on    *)
(* the state of the row before it, whatever was delayed, lost or retried.  *)
LogIsChain ==
  /\ TypeOK
  /\ \A i \in DOMAIN log :
       /\ log[i].name.epoch = i - 1
       /\ log[i].parent = IF i = 1 THEN NoName ELSE log[i - 1].name

(* No fork: a device that is not waiting for an answer, a saved snapshot,  *)
(* a handed-out Welcome and the published GroupInfo are states of the log, *)
(* so two devices in the same epoch are in the same state.                 *)
OnLog(s) == s = NoGroup \/ s \in Rows
NoFork ==
  /\ \A d \in Device : OnLog(disk[d]) /\ (pc[d] # "posting" => OnLog(mem[d]))
  /\ \A w \in welcomes : OnLog(w[2])
  /\ OnLog(info)

(* No device passes a commit it has not applied: its saved cursor never    *)
(* runs ahead of its saved state, so a restart finds the rows it needs.    *)
NothingSkipped ==
  \A d \in Device : cursor[d] <= EpochOf(disk[d])

(* The group is one history in which everyone moves forward (CommitLog):   *)
(* rows are only appended, and what a device has saved goes from a row to  *)
(* the next one, or to one that brings it in, and never back, through      *)
(* refused commits, late rows, rejoins and restarts.  NoFork says that the *)
(* saved state is the one of that row.                                     *)
History == INSTANCE CommitLog WITH
  history <- [i \in DOMAIN log |-> [by |-> log[i].name.by, added |-> log[i].added]],
  place <- [d \in Device |-> EpochOf(disk[d])],
  entry <- EpochOf(info)
ImplementsCommitLog == History!Spec

AllInStep == \A d \in Device : log # <<>> /\ mem[d] = log[Len(log)] /\ ~desynced[d]

(* Every device whose chat stays open ends up in the group, in the last    *)
(* state of the log (ensureGroup, sync), if nothing fails.                 *)
EventuallyInStep == [](faults = 0) => <>[]AllInStep

(* After restarts, lost answers, lost or refused requests and lost         *)
(* Welcomes, the published GroupInfo is all a device needs to get back in  *)
(* (#resync): if it becomes and stays current, everyone ends up in step.   *)
InfoCurrent == info # NoGroup /\ EpochOf(info) = epoch
RecoversFromInfo == <>[]InfoCurrent => <>[]AllInStep

(* Who got 409 "catches up and retries" (handlers.rs, create_message): the *)
(* commit of every epoch that was taken is in the log or being stored.     *)
TakenEpochsHaveRows ==
  \A e \in 0..epoch - 1 : \E c \in claimed \union Rows : c.name.epoch = e
=============================================================================
