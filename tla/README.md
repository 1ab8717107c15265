# Verification of the MySo messaging stack

TLA+ models, TLC configurations and TLAPS proofs for the messaging stack: Move
contracts that own groups and paid messages, a Rust relayer that stores and
delivers ciphertext, an MLS engine, a TypeScript SDK and a chat application.

Contents: 1 the system, 2 modules and code, 3 runs, 4 findings and observations,
5 bounds, 6 fairness, 7 proofs, 8 what is not modelled, 9 plan.

## 1. The system

| part | state it keeps | operations | hard part |
|---|---|---|---|
| Paid message log (`message_log.move`, `paid_escrow_settlement.move`, `paid_messaging_policy.move`) | `next_seq`, one escrow per paid message, spent dedupe keys and nonces | send (human, agent), reply with claim (coin, settled), refund, policy | money: every escrow leaves exactly once; the expiry boundary; gates that change between payment and refund |
| Messaging groups (`messaging.move`, `encryption_history.move`, `mydata_policies.move`, `group_handle_registry.move`) | members and permissions, key versions, handles, archive flag | create, share, rotate key, leave, archive, handles, metadata | who may decrypt which version |
| Membership sync (`relayer/src/services/membership_sync.rs`, `auth/membership*.rs`) | cursor, membership cache, its Postgres rows, system messages | subscribe, catch up, ingest, replay, poll, apply, save cursor | stream against poll, crashes in the middle of a checkpoint, failed writes, pruned history |
| Message store and archive (`relayer/src/storage`, `handlers/messages`, `archive`) | rows with an order per group and an archive status; objects and an index | create, page, edit, delete, payment metadata, archive | concurrent inserts, a slow upload against an edit |
| MLS delivery (`services/mls_store.rs`, `handlers/mls.rs`) and MLS session (SDK `mls/session.ts`, engine `mls/src/lib.rs`) | epoch, GroupInfo, key packages, welcomes; per device group state and cursor | commit (compare-and-swap on the epoch), external join, add, remove, propose, log out, seal, resync | lost answers, crashes between claim and append, forks, a check that is stale when the message is encrypted |
| Group keys (SDK `encryption/`, `client.ts`) | the versions of the group's key on chain, each client's cache of keys | rotate, remove and rotate, send, decrypt | a version read before an await and used after it; a rotation that fails after its key was cached |
| Payments (`transfer_confirmation.rs`, `payments.rs`, chat application) | requests, transfer messages, digests saved in the browser | request, decline, transfer, post, link, confirm, reopen | a verdict before the link, restarts between two writes, posts repeated |
| Live thread (`ws.rs`, SDK transports, `useMessages.ts`, page ledger and cache) | socket, poll cursor, list of rows, ledger of pages, cached threads | subscribe, poll, load, catch up, page back, send, trim | lag, reconnects, answers that arrive after the list changed |
| Agent replies (`agent-reply-sessions.ts`, `useAgentMemoryReply.ts`) | one queue per chat, a pending proposal | ask, answer, propose, approve, deny, mount, unmount | three asynchronous computations over one record |
| Workflow inbox (`workflow_items.rs`, `workflow.rs`, `workflow_expiry.rs`) | one row per idempotency key | ingest, transition by chain event, acknowledge, dismiss, sweep | four writers of one row; a key that outlives its request |
| Gates, presence, push, read state, sign-in, custody, discovery indexer | caches and rows | gate, notify, refresh, index | not modelled, see section 8 |

The chain is the source of truth for membership and money. The relayer copies
membership from checkpoints and gates every request on the copy; clients page
through the relayer's log by order number and, in MLS groups, process the
commits in it. The archive worker shares the message rows with the request
handlers. Devices meet only through the relayer: its epoch, its log, the last
GroupInfo and the pending Welcomes.

What makes each part correct:

* **paid log**: MYSO is neither made nor lost; an escrow is paid out once, to
  the party its age entitles; nothing settled is touched again;
* **membership sync**: when the cursor passes a checkpoint, the cache and what a
  restart would load are the chain's state at it; every join and leave has its
  system message; the store catches up;
* **archive**: what the status says is archived is archived as it is; every
  change is archived in the end; a deleted message stays deleted;
* **MLS**: one chain of commits, no device on a fork, no commit skipped; messages
  are encrypted to readers only, leaves are removed for a reason, readers get in
  and those who may not read get out;
* **group keys**: a message is sealed with the key of the version it names, a
  removed member can obtain no later key unless it is encrypted to an identity
  that the member was given before, and stale caches heal;
* **payments**: a request is settled by a transfer that succeeded and by no
  other, and stays settled; a posted transfer is resolved, and one saved in the
  browser is posted if the conversation is open again for good;
* **thread**: rows are missing between shown rows only for reasons the code
  accepts; a polling client gets every row but those below the page that answers
  a poll without a cursor; a sent bubble is replaced once;
* **agent replies**: in order, approved before acted, acted once, all served;
* **workflow inbox**: closed rows stay closed, pending requests are shown,
  decided ones closed, expired ones swept.

## 2. Modules and the code they model

`PROJECT.json` maps every definition to its lines. Names are those of the code
where TLA+ allows; an operator marked *Mutant* in its comment is a plausible bug
that some property must catch, and is used by nothing else. Variables marked
*history* are not in the code: they record which of the named exceptions has
happened, so that a property can be exact about everything else. Each `MC`
module instantiates its component for TLC; each `Proofs` module holds the theorems
of one component or of two (section 7).

### EscrowLedger, PaidEscrow, MCPaidEscrow, MoneyProofs

`EscrowLedger` is the abstract promise: numbered escrows that open, and close
once as claimed, settled or refunded, with a wallet per account. `PaidEscrow` is
the contract of one group. An action is one Move transaction (atomic; a failed
assertion is a negated guard): `send_paid_message_digest`,
`send_agent_paid_message_digest`, the two `reply_to_paid_message_claim_*`,
`refund_paid_escrow`, `set_paid_messaging_policy`, `archive_group`. Around them,
conversation metadata, sender permission, blocks, follows and the clock change
at any time. The refinement mapping keeps parties, amount, date and the state
that the emitted events show, and forgets keys, gates and balances.
`lifecycle` is that event history; it is not a field of the contract. Two
differences that no property depends on: the human entry point is called by the
accounts that are not agents (the contract does not check), and
`resolve_messaging_actor`'s checks of an agent (`messaging.move:978-1005`) are
left out, so that the model lets more sends through than the contract.

### MembershipSync, MCMembershipSync, MembershipSyncProofs

One relayer and the chain. `plan` is the work of the call in progress (a gap to
replay, a tip to read), so a crash or a broken stream can come between any two
events of a checkpoint, between a store update and its system message, and
between a checkpoint and its cursor. `durable`, chosen in Init, is the Postgres
or the in-memory store; `run_db` has failed writes as outcomes. `cleared`,
`skipped`, `unsaved` and `lost` are history variables that name the ways in
which the code gives up state, so that the properties can be exact about
everything else. The permissions of one event are written at once; the code
inserts them row by row (`membership_postgres.rs:94-136`).

### ArchiveSync, MCArchiveSync, ArchiveSyncProofs

Handlers (create, edit, delete, payment status) against one
`ArchiveSyncService` with the R2 backend. A row is a text, a payment request or a
transfer; its content is a version number. Texts are edited and deleted,
transfers get a verdict, and requests are paid, reopened, rejected or cancelled,
and deleted unless the handler read them paid. A deleted request can still be
paid or rejected: its metadata changes, its status stays `DELETED` and its
archived object is stale. A call reads a batch, puts each object and its index
row, then writes each status; handlers run between any two of these steps.
History: `raced` (a row was changed between its last read by the worker and the
end of that call), `removed` (its sender's last operation deleted it), `undone`
(the worker's status write replaced that deletion) and `patched` (its metadata
changed while it was `DELETED` and the worker has not read it since). Not
covered: the File Storage backend and two workers.

### CommitLog, MlsGroup, MCMlsGroup, MlsGroupProofs

`CommitLog` is the abstract promise: one history of commits that grows at its
end, and a place in it for every device and for the GroupInfo. A device goes to
the next commit, or straight to one that brings it in (its own, or the add of a
device outside the group), and never back. `MlsGroup` is one MLS group; the
mapping keeps the author and the added devices of each row, and the epochs of
the saved states and of the GroupInfo. The relayer is `epoch`, `log`, `info`,
`welcomes` and the two halves of `create_message`: the epoch compare-and-swap
(`try_advance_epoch`) and the insert, with the fallible checks between them
(`RejectClaimed`). A device is an `MlsSession`: `mem` (group state in memory),
`disk` (saved snapshot), `cursor` (saved), `before` (rollback snapshot),
`desynced`. `pc` is the place in the call it is making, because every `await`
lets another device or a fault in; within a device calls do not overlap
(`#exclusive`). A state is named by the commit that led to it. Abstractions:

* all devices belong to on-chain readers: removals, proposals and certificates
  are the subject of MlsRoom; application rows do not move the epoch;
* KeyPackages are a free choice of which absent devices an add includes;
* a page of the log is one row; attempts, backoff and the resync budget are
  repeated calls;
* reads before a post (GroupInfo, Welcomes) happen with the build: the post
  itself is delayed arbitrarily, which gives the same races;
* `put_group_info` checks and writes in one step. The code reads the epoch first
  and then writes unless a newer one is stored; the difference is a GroupInfo
  that appears late, never one that goes back (Postgres; the in-memory store has
  no such condition, `mls_store.rs:243`);
* a device that cannot read the log after a lost answer catches up later in the
  model, where the code rolls back and throws (`session.ts:394-397`); the states
  that follow are the same.

### MlsRoom, MCMlsRoom, MlsRoomProofs

Who is in the group, as opposed to `MlsGroup`'s question of which state everyone
is in. `trees[e]` is the ratchet tree of epoch e as a function from leaf index
to device: `Group::remove_leaves` takes indices, so an index found in one tree
may be another device's leaf in the next. A device's `call` is the place in its
session's call (`seal` with `#reconcile` and `#commit`, `#addWallets`,
`ensureGroup`, `logout`); every await is a step. Commits are atomic here and
every device's state is on the chain of commits, which `MlsGroup` establishes;
the relayer's gate follows the chain's readers late (`FollowChain`), which
`MembershipSync` justifies. A certificate is valid, revoked or unverifiable, and
known as such at once (the code caches the registry's answers for an hour, which
delays a removal); a device that logged out is not added again (its
deregistration is best effort, `session.ts:1382`). The effect of a commit on the
tree is stated by what the leaves hold afterwards: the devices it adds take the
leftmost blank leaves, one each, in any order (`With`).

### GroupKeys, MCGroupKeys, GroupKeysProofs

A key is a number; `owner` is the client that made it and `made` the version in
the identity it is encrypted to. A client reads the number of versions, makes a
key for the next one, encrypts it to that identity and caches it
(`generateRotationDEK`), and executes the transaction later or never. The
contract appends the blob at the version the history has reached by then and
looks neither at the identity nor at the expected version, so the two differ when
another rotation came between. A send reads version and metadata, resolves a key
(`Resolves`: the cache, else the blob of the version, decrypted under the
identity in it) and posts later. The key servers approve by identity and release
it to present readers (`mydata_policies.move:65-117`). `released` is the
identities each client was given; that a client can keep what it was given is
what we assume of them (external), and `Obtainable` is what it can then decrypt
without asking again. A message has the version it is labelled with and the key
it was really sealed with. `#writesContentEnvelopeV2` may fail, and then the v1
path is taken.

### Payments, MCPayments, MoneyProofs

One payment request and the transfers made to settle it. The payer's tab
(submit, save digest, post, give up, post again on the next mount), the relayer's
handler (`create_message`, `mark_request_paid`) and `resolve_once` with
`apply_verdict` and `reopen_request_if_linked`, which runs inline and from the
sweep, are three computations whose reads and writes interleave. The handler may
refuse a post (`Refused`): `accepting` is the membership and direct-conversation
checks, the block check and the paid-message gate taken together, which close the
conversation to the payer at any time, for a time or for good (`AccessChanges`).
What a fullnode answers about a digest is a free choice among its outcomes that
is consistent with how the transfer was executed.

### LiveFeed, ChatThread, MCChatThread, ChatAppProofs

`LiveFeed` is the stream of one group from the relayer's hub through the
websocket loop and the SDK's generator, with its reconnects and the HTTP poll. A
poll with a cursor gets the rows after it, oldest first; one without (the list was
empty when the hook subscribed) gets the newest `PollLimit` rows, and what is
below them is never polled (`FirstPolled`).
`ChatThread` EXTENDS it with the `useMessages` hook: the list, `pageLedgerRef`,
`lastOrderRef`, the session cache, and the requests in flight. A step that
changes the list includes the effects that follow it (bounds recomputed, cache
written and trimmed). A row is its order; edits, tombstones and the MLS read
path are left out. A catch-up and an older page may be in flight together; one
send is in flight at a time. The view is keyed by its thread (`ChatArea.tsx:214`),
so leaving a thread unmounts the hook: its requests and its send change no list
any more, and a stub that the cached copy keeps is `orphaned`. `passed` is
history: the stored orders that went by without being shown in one of the ways
the code accepts. The model assumes that a group's orders are unique.

### AgentReplies, MCAgentReplies, ChatAppProofs

`drain` (the loop), `runAgentReply` (an answer) and `resolveStoredAction` (a
decision) are separate asynchronous computations over one session record and the
gate promise that holds the queue. The model's answer and the memory tools are
free choices among their outcomes.

### WorkflowItems, MCWorkflowItems, WorkflowItemsProofs

The rows of the inbox and their four writers: `upsert_ingest` (from a service or
from an invitation event), `transition_by_idempotency` (chain events),
`transition_status` (the recipient), `sweep_expired`. Each is one SQL statement
and one operator on a row. `asked` counts the requests made under a key and the
last one decided; `round` in a row says which request an open row shows or which
one closed it. The organisation, credit and memory contracts and the services
that post are external. Invitations come from chain events only, although a
service may post them too (`workflow.rs:176`), and deadlines are natural numbers:
the cast of one above the largest i64 (`membership_sync.rs:294`) is left out.

## 3. Runs

| run | instance, distinct states | checks |
|---|---|---|
| `paid_escrow` | payer, her agent, recipient, fee account; two escrows; 148,608 | `EscrowBacked`, `Conservation`, `OneKeyPerOperation`, `SettlementIsFinal`, `ImplementsLedger` |
| `membership` | three checkpoints, two faults, either store; 1,162,256 | `AnnouncementsKept`, `StoreFollowsChain`, `EventuallyInSync` |
| `archive_sync` | a text, a payment request and a transfer, two changes, two faults; 248,863 | `ArchiveCurrent`, `DeletedStaysDeleted`, `EventuallyArchived` |
| `mls_group` | two devices, three commits, two faults; 587,739 | `LogIsChain`, `NoFork`, `NothingSkipped`, `ImplementsCommitLog`, `RecoversFromInfo`, `EventuallyInStep` |
| `mls_room` | three devices, one event; 160,373 | `SealedToReaders`, `RemovalJustified`, `OneLeafEach`, `ReadersReturn`, `BarredLeave` |
| `thread` | three rows, pages of one, a cache of two, one fault; 329,526 | `GapsExplained`, `StubSettled`, `PollingKeepsUp` |
| `keys` | two clients, three versions, one fault; 585,036 | `SealedWithKnownKey`, `RemovedLockedOut`, `CacheHeals` |
| `payments` | two transfers, one fault; 231,614 | `LinkedSuccessSettles`, `SettledForGood`, `TransferResolved`, `FailedTransferReopens` |
| `agent_replies` | four questions, two faults; 13,151 | `AnswersInOrder`, `ApprovedAndOnce`, `QuestionsServed`, `HeldUntilDecided` |
| `workflow` | two invitees, an agent, two permissions, two requests, two faults; 233,196 | `PendingShown`, `OpenExplained`, `ClosedForGood`, `ExpiredSwept` |
| `mls_wedge` | two devices, one refused commit | violates `TakenEpochsHaveRows`, see section 4 |
| `keys_overtaken` | as `keys` | violates `RemovedCannotObtain`, see section 4 |

The type invariant of each module is a conjunct of one of its invariants:
`Conservation`, `AnnouncementsKept`, `ArchiveCurrent`, `LogIsChain`,
`OneLeafEach`, `StubSettled`, `SealedWithKnownKey`, `LinkedSuccessSettles`,
`ApprovedAndOnce`, `OpenExplained`.

What the passing runs show that is not obvious from the code:

* **paid log.** At age exactly `PAYMENT_EXPIRATION_MS` both a claim and a refund
  are allowed; whichever is second finds the escrow claimed. Floored fees never
  lose a unit. Every operation but the refund spends one key and one nonce.
* **membership.** A checkpoint applied twice, after a crash in its middle, gives
  the chain's state again; a system message is lost only by a crash (or failed
  insert) exactly between the store update and the insert.
* **archive.** If nobody changes a row during its upload, every failure and
  restart only delays it, and what is marked archived is archived as it is, but
  for a payment request that is paid or declined after it was deleted.
* **MLS group.** The compare-and-swap with rollback never forks, even when a
  request lands after its device gave up on it, or a device restarts at the worst
  moment: such a device meets its own commit in the log, cannot apply it, and
  rejoins. A late answer, Welcome or GroupInfo never takes anyone back. Under
  every fault, a current GroupInfo is all that recovery needs.
* **MLS room.** Two leaves of one device never arise although adds, external
  joins and rejoins race. A reader whose leaf was removed by mistake gets back in
  by itself. Someone barred is removed as long as another reader sends.
* **keys.** Whatever is read before and used after a rotation, a message is sealed
  with the chain's key for its version or with one of its sender's own. A removed
  client can obtain the key of a later message only through an identity that it
  was given before its removal, so only when a rotation overtook another one.
* **payments.** A failed transfer never reopens a request that another one paid.
  No refusal, lost answer, closed tab or restart makes the application forget a
  saved transfer: it is posted if the conversation is open again for good.
* **workflow.** No combination of replays, repeated posts and sweeps reopens a
  row or lets an event about one key close another's.

Runs that may stop say `CHECK_DEADLOCK FALSE`: a log that is full, a chain that
pauses and a group in which nobody commits are quiet, not stuck. `ArchiveSync`
never stops and is checked for deadlock.

## 4. Findings and observations

Two runs expect a violation; `PROJECT.json` quotes the sentence each refutes.

* `mls_wedge`: a commit that is refused after the compare-and-swap (or a relayer
  that stops there) leaves an epoch without a row, and every later commit is
  answered with a conflict.
* `keys_overtaken`: `docs/myso-messaging-stack/Security.md:72` says that after a
  rotation a member who has lost `MessagingReader` cannot obtain the new key. A
  removal's key is made for the version that was read first
  (`envelope-encryption.ts:247`, `dek-manager.ts:66`). If another rotation takes
  that version before the removal is executed, `rotate_key`
  (`encryption_history.move:164`) appends the key one version later, under an
  identity the removed member was given while it still was a reader.

While modelling, the code was also seen to do the following. None of it is a run
of its own; the models contain each behaviour, and the passing properties name it
as an exception where it touches them.

* An expired escrow cannot be refunded while payer and recipient block each
  other, after the payer lost MessagingSender, or (for ever) after the group was
  archived (`messaging.move:905`); `PaidMessaging.md:117` names only the expiry.
* A checkpoint that arrives after a newer one was applied is taken for a
  restarted chain and clears the store (`membership_sync.rs:546`).
* `run_db` swallows a failed write and the cursor is saved past it
  (`membership_postgres.rs:87`, `membership_sync.rs:584`).
* The status write after an upload has no condition, so a deletion during the
  upload is undone (`archive/sync.rs:311`); `DeletedStaysDeleted` excepts it.
* A payment request that is paid or declined after its deletion was archived keeps
  the status `DELETED`, so its new metadata is never archived
  (`storage/postgres.rs:392`); `ArchiveCurrent` excepts it (`patched`).
* The relayer refuses the message of a transfer that was executed on chain while
  the conversation is closed to the payer (`handlers.rs:273, 304-349`); if it
  stays closed the transfer is never posted, and `TransferResolved` says so.
* A creator that restarts after its claim and before it published a GroupInfo
  leaves a group nobody can enter (`session.ts:460`).
* A sender that loses the epoch race for its removal commit encrypts to a device
  that entered meanwhile, unchecked; `session.ts:692-693` says nothing can land
  between the check and the encryption. `SealedToReaders` without `EnteredSince`
  is violated.
* When an MLS group's metadata cannot be read at a send, the message is written
  the v1 way (`client.ts:1085`), against the comment at `client.ts:1504-1505`.
* A websocket replays nothing on (re)connect; rows published out of order and
  rows missed by lag stay missing until the next catch-up (`ws.rs:81, 95`). The
  initial load overwrites live rows (`useMessages.ts:1022`); a stub's provisional
  order hides a peer's row (`:1419`); trimming resets the ledger's lower end, so a
  page is fetched again.
* After an empty or failed load the hook subscribes without an order, and a
  polling client asks without a cursor (`http-transport.ts:869-880`). The relayer
  answers with its newest page (`paging.rs:70-101`) and the poll goes on from its
  end: rows below that page and above a row that is shown stay missing.
* A failing post of an approved action's result discards the next proposal
  undecided (`useAgentMemoryReply.ts:613-617`, against
  `agent-reply-sessions.ts:6`); `HeldUntilDecided` excepts it.
* Idempotency keys of the inbox do not name the request. A second invitation or
  approval request of the same key meets the closed row of the first one and is
  never shown, while the service is told `open` (`workflow.rs:198`); a late event
  of the first one closes the row of the second; an invitation renewed on chain
  may be swept under its old deadline and is not reopened. A request for several
  memory permissions at once is closed by no event: rows are looked up bit by bit
  (`membership_sync.rs:374`), although the comments say overlapping (`:357`) or
  covered (`:370`) masks are matched.
* The inbox is paged by `id < cursor` with random ids but sorted by date
  (`workflow_items.rs:490`), so pages may skip rows. Reads are not modelled.

Hazards seen and not listed, most of them because a listed one is of the same
kind: `clear_all` in two statements and an unreadable saved cursor
(`membership_postgres.rs:319, 287`), a second archive worker
(`archive/sync.rs:242`) and its retry of a partial put (`r2.rs:197`), a batch
limit that one group fills (`postgres.rs:536`), a KeyPackage claimed twice and a
self log pruned by a shared sequence (`mls_store.rs:106, 267`), a digest lost
before it is saved (`sign-and-wait.ts:181`), a transfer no node returns for a
day (`transfer_confirmation.rs:399`), an agent's revocation that stops half-way
(`agent-lifecycle.ts:28`).

## 5. Bounds

* `PaidEscrow`: `MaxSeq = 2` escrows let one be disturbed by operations on the
  other, and make the first-message rule apply to one and not to the other.
  Amounts 0 and 41 are the empty coin and one whose fees are floored, just above
  the policy's minimum 40. `MaxClock = 2` with `Expiration = 1` has ages below, at
  and beyond expiry. Three keys are one fewer than the two sends and two replies
  that two escrows allow, so reuse is attempted.
* `MembershipSync`: `MaxChain = 3` with a cold-start window of 2 and a replay
  limit of 1 makes gaps, truncation and both replay paths happen; a checkpoint
  has up to two events, so a crash can fall between them.
* `ArchiveSync`: `BatchSize = 2` of three rows, one of each kind, leaves one out
  of a batch; `MaxOps = 2` lets a row be changed again after it was re-archived,
  and a request be paid after it was deleted.
* `MlsGroup`: `MaxLog` bounds only commits that nobody has to make (adds,
  updates); joins and rejoins are not bounded. Two devices race for an epoch,
  overtake each other and bring each other in; the safety properties are proved
  for any finite set of them. `MlsRoom`: three devices are a
  sender, one that goes and one that races with it; `MaxLeaf = 3` leaves a blank
  leaf to be reused. Init is a group that was set up, with or without a removal
  since; `RoomAssumption` asks for a leaf for every device. The exception
  `EnteredSince` of `RemovalJustified` needs a fourth device to be met;
  `SealedToReaders` meets its own with three.
* `ChatThread`: three rows, pages of one and a cache of two make a hole, a
  truncated catch-up and a trim possible; `PollLimit = 1` makes a poll without a
  cursor pass over rows. Sends count as faults, leaving a thread does not.
* `GroupKeys`: three versions are a
  creation and two rotations; one message suffices because properties are about
  each message on its own. `Flags` is `mls1`, in which both ways of sealing occur.
* `Payments`: two transfers answer one request, so that one can fail while the
  other pays. Closing the conversation counts as a fault, opening it does not.
* `AgentReplies`: four questions are one answered, one proposed, one
  behind it and one asked later.
* `WorkflowItems`: two requests are two keys or one key asked twice; one decision
  (and the end of an approval) and two faults suffice for a replay and a failed
  write. The instance with two decisions and one fault passes too (1,163,416
  states, near the time limit). `max_rows = 1` with two invitees fills a sweep.

`MaxFaults` (and `MaxEvents`) bounds the faults of a run, and with them the
retries.

## 6. Fairness

* `MembershipSync`: weak fairness of each relayer step. The service is one loop
  that reconnects after every error and polls on a timer; nothing is assumed of
  the chain, of faults or of the stream's speed.
* `ArchiveSync`: weak fairness of the worker as a whole; its loop never returns
  while the relayer runs and its timer always fires again. Handlers have none.
* `MlsGroup`, `MlsRoom`: weak fairness of the relayer's halves of a request, of
  its following the chain, and of each device's session: its user keeps the chat
  open and, in `MlsRoom`, keeps sending (reads and sends call `ensureGroup` and
  `sync`). Adding devices, renewing a credential and faults are not fair.
* `ChatThread`: weak fairness of subscribing, polling and consuming, which are
  loops with timers; none of the socket, of loads or of sends.
* `GroupKeys`: cache entries expire, and a member that can decrypt a message again
  and again does so once (strong fairness: the entry it needs may come and go).
* `Payments`: handlers and resolution attempts that run come to an end, the sweep
  and the posting effect come back (timer, and the payer opening the chat). It is
  not assumed that a closed conversation opens again: `TransferResolved` has
  `<>[]accepting` as a premise for the transfers that are not posted yet.
* `AgentReplies`: asynchronous calls end, the chat is opened again, and the owner
  decides. `WorkflowItems`: the sweep's timer. `PaidEscrow`: none; nobody has to
  reply or to ask for a refund.

## 7. Proofs

TLC checks small instances; the theorems hold for every value of the constants,
so for any number of accounts, devices, clients, messages, transfers, questions,
requests and faults. The only assumptions are the named ones on the constants
(`EscrowAssumption`, `MlsAssumption`, ...), which TLC evaluates; three of them say
that a set is finite (the accounts, the devices of a group, the keys of the
inbox). What a bound in the model fixes for a reason other than size stays fixed:
a checkpoint of `MembershipSync` has at most two events.

| module | theorem | statement |
|---|---|---|
| `MoneyProofs` | `TypeCorrect` | `[]TypeOK`: no balance below zero |
| | `EscrowsBacked` | `[]EscrowBacked` |
| | `OneKeyEach` | `[]OneKeyPerOperation` |
| | `Conserved` | `[]Conservation` |
| | `Finality` | `SettlementIsFinal` (action property) |
| | `Refinement` | `ImplementsLedger` (refinement of `EscrowLedger`) |
| | `LinkedTheorem` | `[]LinkedSuccessSettles` of `Payments` |
| | `SettledTheorem` | `SettledForGood` of `Payments` (action property) |
| `MembershipSyncProofs` | `AnnouncedTheorem` | `[]AnnouncementsKept` |
| | `FollowsTheorem` | `StoreFollowsChain` (action property) |
| `ArchiveSyncProofs` | `ArchiveTheorem`, `DeletionTheorem` | `[]ArchiveCurrent`, `[]DeletedStaysDeleted` |
| `MlsGroupProofs` | `ChainTheorem`, `NoForkTheorem`, `SkipTheorem` | `[]LogIsChain`, `[]NoFork`, `[]NothingSkipped` |
| | `HistoryTheorem` | `ImplementsCommitLog` (refinement of `CommitLog`) |
| `GroupKeysProofs` | `SealedTheorem`, `LockoutTheorem` | `[]SealedWithKnownKey`, `[]RemovedLockedOut` |
| `MlsRoomProofs` | `OneLeaf`, `Sealed`, `Justified` | `[]OneLeafEach`, `[]SealedToReaders`, `[]RemovalJustified` |
| `ChatAppProofs` | `GapsTheorem`, `StubTheorem` | `[]GapsExplained`, `[]StubSettled` |
| | `ApprovalTheorem`, `OrderTheorem` | `[]ApprovedAndOnce`, `[]AnswersInOrder` of `AgentReplies` |
| | `HeldTheorem` | `HeldUntilDecided` of `AgentReplies` (action property) |
| `WorkflowItemsProofs` | `PendingTheorem`, `OpenTheorem` | `[]PendingShown`, `[]OpenExplained` |
| | `ClosedTheorem` | `ClosedForGood` (action property) |

`MoneyProofs` extends `PaidEscrow` and `Payments`, `ChatAppProofs` extends
`ChatThread` and `AgentReplies`. The two components of such a module share no
state and no argument; a theorem is about the specification it names (`Spec`, or
`PaymentsSpec`, `RepliesSpec`). For this the names of `Payments` and
`AgentReplies` that every module has (`Init`, `Next`, `TypeOK`, ...) carry the
component's name.

Every invariant that a run checks is a theorem, and so are every action property
and both refinements.

Each component has `Spec => []IInv` (`Invariance`; `PaymentsInv`, `RepliesInv`)
for an inductive invariant `IInv`, a conjunction of named parts, with one lemma
per action or per kind of step; the theorems follow from it. None of the
properties is inductive as it stands. What the strengthening says, and why it is
needed:

* **PaidEscrow.** `TypeOK /\ EscrowBacked /\ AgeDefined`. The contract pays out
  `escrowed_balance`, the ledger `amount`, and they agree only because an
  unclaimed escrow is fully backed; `AgeDefined` makes the unsigned subtraction
  of times the ledger's age. `FeeBound` (two floored fees never exceed the
  amount) keeps a settlement from aborting. For the keys, `SpentOK` adds that
  the spent sets are finite, so that each send and each reply adds exactly one
  to a cardinality; `EscrowBacked` says that a reply finds its escrow not
  replied to before. `Conserved` is about sums over sets of any size.
  `MapThenSumSet` picks its elements in an order of its own: `SumsAgree` shows
  that a sum does not depend on the order, by induction over finite sets
  (`SetInduction`, from the library's `WFMin` and the order of the natural
  numbers), and `TotalCredit` and `TotalExtend` then say what a payment and a
  new escrow add. The steps are arithmetic: an excess is returned, two fees and
  the net make up the amount.
* **MembershipSync.** A restart may find a checkpoint half applied and applies it
  again from its first event. Which events the store has seen is not what matters:
  `StoreOK` says that the events still to come lead to the chain's state, from the
  present place in the checkpoint and from its beginning (`EffectPairTwice`: two
  events, applied again in order, change nothing more). `ToldOK` says that an
  announcement still to come is for an event the store has never seen, which is
  why the check "did the store change" inserts it.
* **ArchiveSync.** The worker writes a status without looking at the row.
  `FlightOK`: a row in flight that nobody changed still has the status the call
  looked for and the version it uploads; `UploadOK`: what it has put so far.
  `WorkerOK`: a row in flight is pending, whatever the handlers did to it, so that
  a status write replaces a deletion only in the way `undone` records.
* **MlsGroup.** `EpochOK`: the epoch runs ahead of the log only by a commit that
  was claimed and not yet stored, there is at most one, and it was made on the
  last state of the log; or by one refused for good. `DeviceOK`: what a waiting
  device rolls back to is what it saved. `FreshName` is the pigeonhole argument
  that a commit's name is new. For the refinement, `OwnOK` adds that the commit a
  device waits for is its own and, once it is a row, later than all the device
  saved (it may have been built on an old GroupInfo, but a row comes after every
  state of the log), and that a Welcome is held by a device its commit adds.
* **MlsRoom.** A call checks one tree and acts on a later one. A commit keeps a
  leaf in its place, empties it or gives it to a device that enters. So from the
  check on (`Covered`) every leaf is of a reader that was asked for, of the
  device, of one that entered since, or at an index found bad; and (`Condemned`)
  a bad index stays condemned for the reason it was found, or was taken over.
  The properties speak of the call's last step only; the invariant follows a
  call through every lost race, for all later epochs. `Distinct` is
  `OneLeafEach` without cardinalities.
* **GroupKeys.** A key is encrypted to and cached under the version its
  generator expected, and appended under the one the chain had reached.
  `MadeOK`: no key on chain is encrypted to an identity ahead of its version, so
  a reader is given only identities of versions the history has. `ReleasedOK`:
  hence those given to a removed client are from before its removal. `KnownOK`:
  what a client has held is its own or of an identity it was given. `RemovedOK`:
  no key from its removal on is its own. `CacheOK`, `MessagesOK`: what is cached
  or sealed under a label is the chain's key of it or the client's own.
* **Payments.** `AttemptsOK`: an attempt about to reopen a request is one of a
  failed transfer that paid it, from its read on; `LinkedOK`: where a linked
  message's mark is.
* **ChatThread.** Everything that reads or extends the list works from a cursor
  of its own: the hook's tip, the ledger, a catch-up, an older page, the
  subscription, the cached copy, the load that will replace the list.
  `WindowOK`: there is one window of orders in which every stored row is shown
  or has passed by, and all those cursors lie in it (a warm load may reach
  further up). A closed thread has no requests, so none outlives its window.
  `CacheOK` says the same of the cached copy. `LoadPage`, `CatchupPage`,
  `OlderPage`: an answered page has every row between its cursor and its end, so
  merging it extends the window without a hole. `FeedOK`: a row above the
  generator's last order is shown, has passed by, is in hand or is still to
  come; a poll starts at a stored row above its cursor, and the rows that one
  without a cursor leaves out have passed by. `StubsOK`: a stub belongs to the
  send under way or to one whose thread was left (`orphaned`). `GapsExplained`
  alone says none of this: a cursor outside the window makes the next page leave
  a hole.
* **AgentReplies.** `PastOK`: what is answered, decided or pending was asked
  before everything that is queued or being answered. `GateOK` and
  `DecisionsOK`: while a proposal is pending no reply runs, so a decision finds
  the proposal it was made on until it has acted.
* **WorkflowItems.** `AppliedOK`: what an applied event achieved is never undone,
  so that applying it again, or going back to an older cursor, loses nothing.
  `ChainOK`: an event never says more than was asked or decided by then. `RowOK`:
  a row's round and deadline against the last request of its key.

Only model-checked:

* liveness (`EventuallyInSync`, `EventuallyArchived`, `RecoversFromInfo`,
  `EventuallyInStep`, `PollingKeepsUp`, `CacheHeals`, `TransferResolved`,
  `FailedTransferReopens`, `QuestionsServed`, `ReadersReturn`, `BarredLeave`,
  `ExpiredSwept`): fairness and ENABLED are beyond the prover.

What a `RECURSIVE` operator computes cannot be reasoned about either; no module
that a theorem uses has one.

Looking for the inductive invariants corrected the models in three places. A
socket opened after the order of a stub drops the rows at or below it
(`ws.rs:81-84`), and `StoreRow` had called such rows still to come; a row that is
only replaced by a stub of the same order was counted as overwritten; and
`MlsRoom` placed the devices of one commit in one fixed order, where the order is
that of their KeyPackages.

## 8. Not modelled

* Cryptography (OpenMLS, DEK and envelope encryption, signatures, zkLogin) is
  assumed to work. Generated bindings and request building have no state.
* The chat application's components present the state of hooks; of the hooks, the
  thread, payments and agent replies are modelled. They are most of the
  repository's lines, and the reason why most of it is not in the map.
* Sign-in and wallet sessions are spread over browser storage, tabs and an
  external authentication library whose contract the code does not show.
* Gates are reads of the chain cached for seconds; the handle registry is a table
  under atomic transactions; presence, push and read state are best effort or
  last writer wins; the discovery indexer is a small in-memory index.
* Inside modelled components: the self group, history sharing and backups of the
  MLS session, KeyPackages, the File Storage archive backend, two archive workers,
  edits and tombstones on the live stream, reactions, attachments.

`PROJECT.json` lists each component with its status and reason.

## 9. Plan

Done: the money, membership, the archive, the MLS group and its membership rule,
group keys, payments, the live thread, agent replies and the workflow inbox, with
proofs of every safety property. Next:

1. Message orders under concurrent inserts, and two archive workers.
2. The device registry and hosted devices; backup cursors; sign-in.
