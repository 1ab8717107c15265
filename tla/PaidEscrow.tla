----------------------------- MODULE PaidEscrow -----------------------------
(***************************************************************************)
(* Paid messages of one group: the MessageLog object, the escrows in it,   *)
(* and the entry points of messaging.move that gate them on membership,    *)
(* archiving, blocks, the follow graph and the recipient's policy.         *)
(*                                                                         *)
(* Every action is one Move transaction, which commits or aborts whole: a  *)
(* failed assertion leaves the state alone and is the negation of a guard. *)
(* The Version check always passes at this commit (no migration exists).   *)
(***************************************************************************)
EXTENDS Integers, FiniteSets, FiniteSetsExt

CONSTANTS
  Account,         \* addresses
  Creator,         \* the group's creator, its first MessagingSender
  Genesis,         \* Genesis[a]: coins a owns when the group is created
  Member,          \* addresses that can be granted MessagingSender (bound)
  Recipient,       \* addresses a paid message is sent to (bound)
  Agent,           \* sub-agents: accounts whose social identity is a principal
  Principal,       \* Principal[g]: the human owner of agent g
  FeeAccount,      \* addresses a settling caller can name for the two fees
  Key, Nonce,      \* dedupe keys and nonces a client can choose
  Amount,          \* escrow and coin amounts a client can choose
  MinCost,         \* minimum costs a policy can ask for
  BlockPair,       \* {a, b} pairs that can be blocked (bound)
  FollowPair,      \* <<follower, followed>> pairs that can follow (bound)
  Expiration,      \* PAYMENT_EXPIRATION_MS
  MinReplyChars,   \* MIN_REPLY_CHARS
  FeeBps,          \* PAID_MSG_PLATFORM_FEE_BPS = PAID_MSG_TREASURY_FEE_BPS
  MaxSeq,          \* bound: number of escrows of the log
  MaxClock         \* bound: last instant of the clock

ASSUME EscrowAssumption ==
  /\ IsFiniteSet(Account)
  /\ Member \subseteq Account
  /\ Recipient \subseteq Account
  /\ Agent \subseteq Account
  /\ Principal \in [Agent -> Account]
  /\ FeeAccount \subseteq Account
  /\ Creator \in Account
  /\ Genesis \in [Account -> Nat]
  /\ Amount \subseteq Nat
  /\ MinCost \subseteq Nat
  /\ Expiration \in Nat
  /\ MinReplyChars \in Nat \ {0}
  /\ FeeBps \in 0..5000
  /\ MaxSeq \in Nat
  /\ MaxClock \in Nat

VARIABLES
  clock,            \* Clock.timestamp_ms
  wallet,           \* wallet[a]: MYSO coins owned by a
  next_seq,         \* MessageLog.next_seq
  paid_msg_escrow,  \* MessageLog.paid_msg_escrow
  used_dedupe,      \* MessageLog.used_dedupe
  nonces,           \* MessageLog.nonces: the nonces each sender has used
  lifecycle,        \* what the emitted events say of each escrow
  senders,          \* holders of MessagingSender in the group
  archived,         \* PermissionedGroup.is_paused
  dm,               \* the group's metadata says conversation kind "dm"
  blocked,          \* BlockListRegistry: pairs in which one blocks the other
  follows,          \* SocialGraph
  policy            \* policy[a]: {} or the minimum cost a enabled

logVars == <<next_seq, paid_msg_escrow, used_dedupe, nonces, lifecycle>>
socialVars == <<senders, archived, dm, blocked, follows, policy>>
vars == <<clock, wallet, logVars, socialVars>>

Escrow == [payer : Account, recipient : Account, amount : Nat,
           escrowed_balance : Nat, created_at_ms : Nat, claimed : BOOLEAN]

Lifecycle == {"escrowed", "claimed", "settled", "refunded"}

Seqs == 0..(next_seq - 1)

TypeOK ==
  /\ clock \in Nat
  /\ wallet \in [Account -> Nat]
  /\ next_seq \in 0..MaxSeq
  /\ paid_msg_escrow \in [Seqs -> Escrow]
  /\ used_dedupe \subseteq Key
  /\ nonces \in [Account -> SUBSET Nonce]
  /\ lifecycle \in [Seqs -> Lifecycle]
  /\ senders \subseteq Account
  /\ archived \in BOOLEAN
  /\ dm \in BOOLEAN
  /\ blocked \subseteq BlockPair
  /\ follows \subseteq FollowPair
  /\ policy \in [Account -> SUBSET Nat]

(* A freshly created group: only the creator may send, the log is empty. *)
Init ==
  /\ clock = 0
  /\ wallet = Genesis
  /\ next_seq = 0
  /\ paid_msg_escrow = [i \in {} |-> {}]
  /\ used_dedupe = {}
  /\ nonces = [a \in Account |-> {}]
  /\ lifecycle = [i \in {} |-> {}]
  /\ senders = {Creator}
  /\ archived = FALSE
  /\ dm \in BOOLEAN
  /\ blocked = {}
  /\ follows = {}
  /\ policy = [a \in Account |-> {}]

-----------------------------------------------------------------------------
(* Coins and fees. *)

Credit(w, a, n) == [w EXCEPT ![a] = @ + n]
Debit(w, a, n) == [w EXCEPT ![a] = @ - n]

(* Both fees are floored; what the floors leave stays with the recipient. *)
Fee(n) == (n * FeeBps) \div 10000

(* Mutant: only the platform fee is taken off the recipient's share. *)
NetOfOneFee(n) == n - Fee(n)

Net(n) == (n - Fee(n)) - Fee(n)

distribute_escrow_to_recipients(w, n, platform, ecosystem, recipient) ==
  Credit(Credit(Credit(w, platform, Fee(n)), ecosystem, Fee(n)), recipient, Net(n))

Extend(f, n, v) == [i \in 0..n |-> IF i = n THEN v ELSE f[i]]

-----------------------------------------------------------------------------
(* Rules the entry points check. *)

NotBlocked(a, b) == {a, b} \notin blocked

(* Only the first paid message of a DM answers to the recipient's policy,  *)
(* and a follower of the recipient must not pay for it.                    *)
assert_paid_open_allowed(sender, social_identity, recipient, amount) ==
  /\ NotBlocked(sender, recipient)
  /\ NotBlocked(social_identity, recipient)
  /\ dm /\ next_seq = 0 =>
       /\ <<social_identity, recipient>> \notin follows
       /\ \A cost \in policy[recipient] : amount >= cost

(* Mutant: a key that was already spent is accepted again. *)
consume_without_lookup(sender, key, nonce) ==
  /\ used_dedupe' = used_dedupe \union {key}
  /\ nonce \notin nonces[sender]
  /\ nonces' = [nonces EXCEPT ![sender] = @ \union {nonce}]

(* A dedupe key is spent for the whole log, a nonce for its sender only. *)
consume_dedupe_and_nonce(sender, key, nonce) ==
  /\ key \notin used_dedupe
  /\ used_dedupe' = used_dedupe \union {key}
  /\ nonce \notin nonces[sender]
  /\ nonces' = [nonces EXCEPT ![sender] = @ \union {nonce}]

(* The handler of each paid operation starts with these two checks. *)
GroupOpenTo(caller) ==
  /\ ~archived
  /\ caller \in senders

-----------------------------------------------------------------------------
(* Operations of the log. *)

CoinCovers(payment, amount) == payment >= amount

NewEscrow(sender, recipient, amount) ==
  [payer |-> sender, recipient |-> recipient, amount |-> amount,
   escrowed_balance |-> amount, created_at_ms |-> clock, claimed |-> FALSE]

(* The coin is taken whole, amount of it is escrowed, the rest returned. *)
send_paid_message(sender, recipient, payment, amount, key, nonce) ==
  /\ next_seq < MaxSeq
  /\ payment <= wallet[sender]
  /\ CoinCovers(payment, amount)
  /\ consume_dedupe_and_nonce(sender, key, nonce)
  /\ next_seq' = next_seq + 1
  /\ paid_msg_escrow' = Extend(paid_msg_escrow, next_seq,
                               NewEscrow(sender, recipient, amount))
  /\ lifecycle' = Extend(lifecycle, next_seq, "escrowed")
  /\ wallet' = Credit(Debit(wallet, sender, payment), sender, payment - amount)
  /\ UNCHANGED <<clock, socialVars>>

send_paid_message_digest(sender, recipient, payment, amount, key, nonce) ==
  /\ GroupOpenTo(sender)
  /\ assert_paid_open_allowed(sender, sender, recipient, amount)
  /\ send_paid_message(sender, recipient, payment, amount, key, nonce)

send_agent_paid_message_digest(agent, recipient, payment, amount, key, nonce) ==
  /\ GroupOpenTo(agent)
  /\ assert_paid_open_allowed(agent, Principal[agent], recipient, amount)
  /\ send_paid_message(agent, recipient, payment, amount, key, nonce)

(* Mutants: the claimed flag is not tested, and it is not set. *)
OpenOrClaimed(seq) == paid_msg_escrow[seq].claimed \in BOOLEAN
EmptiedUnmarked(escrow) == [escrow EXCEPT !.escrowed_balance = 0]

Unclaimed(seq) == ~paid_msg_escrow[seq].claimed
Emptied(escrow) == [escrow EXCEPT !.claimed = TRUE, !.escrowed_balance = 0]

(* Taking the whole balance out of an escrow and marking it claimed. *)
Drain(seq, event) ==
  /\ Unclaimed(seq)
  /\ paid_msg_escrow' = [paid_msg_escrow EXCEPT ![seq] = Emptied(@)]
  /\ lifecycle' = [lifecycle EXCEPT ![seq] = event]
  /\ UNCHANGED <<clock, next_seq, socialVars>>

(* The part both replies share; a claim of an empty escrow aborts. *)
ReplyAllowed(caller, seq, char_count, key, nonce) ==
  LET escrow == paid_msg_escrow[seq] IN
  /\ GroupOpenTo(caller)
  /\ NotBlocked(escrow.payer, escrow.recipient)
  /\ caller = escrow.recipient
  /\ clock - escrow.created_at_ms <= Expiration
  /\ char_count >= MinReplyChars
  /\ consume_dedupe_and_nonce(caller, key, nonce)
  /\ escrow.escrowed_balance > 0

reply_to_paid_message_claim_coin(caller, seq, char_count, key, nonce) ==
  /\ ReplyAllowed(caller, seq, char_count, key, nonce)
  /\ Drain(seq, "claimed")
  /\ wallet' = Credit(wallet, caller, paid_msg_escrow[seq].escrowed_balance)

reply_to_paid_message_claim_settled(caller, seq, char_count, key, nonce, platform, ecosystem) ==
  /\ ReplyAllowed(caller, seq, char_count, key, nonce)
  /\ Drain(seq, "settled")
  /\ wallet' = distribute_escrow_to_recipients(wallet,
                 paid_msg_escrow[seq].escrowed_balance, platform, ecosystem,
                 paid_msg_escrow[seq].recipient)

(* Mutant: refundable one instant early. *)
AlmostExpired(escrow) == (clock - escrow.created_at_ms) + 1 >= Expiration

Expired(escrow) == clock - escrow.created_at_ms >= Expiration

(* What refund_paid_escrow asserts, of the group and of the escrow. *)
RefundAllowed(caller, seq) ==
  LET escrow == paid_msg_escrow[seq] IN
  /\ GroupOpenTo(caller)
  /\ NotBlocked(escrow.payer, escrow.recipient)
  /\ caller = escrow.payer
  /\ Expired(escrow)

(* A refund spends neither a dedupe key nor a nonce. *)
refund_paid_escrow(caller, seq) ==
  /\ RefundAllowed(caller, seq)
  /\ Drain(seq, "refunded")
  /\ wallet' = Credit(wallet, caller, paid_msg_escrow[seq].escrowed_balance)
  /\ UNCHANGED <<used_dedupe, nonces>>

-----------------------------------------------------------------------------
(* The group, the social graph and the clock around the log. *)

set_paid_messaging_policy(a, costs) ==
  /\ policy' = [policy EXCEPT ![a] = costs]
  /\ UNCHANGED <<clock, wallet, logVars, senders, archived, dm, blocked, follows>>

archive_group ==
  /\ ~archived
  /\ archived' = TRUE
  /\ UNCHANGED <<clock, wallet, logVars, senders, dm, blocked, follows, policy>>

(* insert_group_data / remove_group_data on the conversation kind. *)
SetConversationKind ==
  /\ dm' = ~dm
  /\ UNCHANGED <<clock, wallet, logVars, senders, archived, blocked, follows, policy>>

GrantOrRevokeSender(a) ==
  /\ ~archived
  /\ senders' = IF a \in senders THEN senders \ {a} ELSE senders \union {a}
  /\ UNCHANGED <<clock, wallet, logVars, archived, dm, blocked, follows, policy>>

BlockOrUnblock(p) ==
  /\ blocked' = IF p \in blocked THEN blocked \ {p} ELSE blocked \union {p}
  /\ UNCHANGED <<clock, wallet, logVars, senders, archived, dm, follows, policy>>

FollowOrUnfollow(p) ==
  /\ follows' = IF p \in follows THEN follows \ {p} ELSE follows \union {p}
  /\ UNCHANGED <<clock, wallet, logVars, senders, archived, dm, blocked, policy>>

Tick ==
  /\ clock < MaxClock
  /\ clock' = clock + 1
  /\ UNCHANGED <<wallet, logVars, socialVars>>

-----------------------------------------------------------------------------
Send ==
  \E recipient \in Recipient, payment, amount \in Amount, key \in Key, nonce \in Nonce :
    \/ \E sender \in Account \ Agent :
         send_paid_message_digest(sender, recipient, payment, amount, key, nonce)
    \/ \E agent \in Agent :
         send_agent_paid_message_digest(agent, recipient, payment, amount, key, nonce)

Reply ==
  \E caller \in Account, seq \in Seqs, key \in Key, nonce \in Nonce,
     char_count \in {MinReplyChars - 1, MinReplyChars} :
    \/ reply_to_paid_message_claim_coin(caller, seq, char_count, key, nonce)
    \/ \E platform, ecosystem \in FeeAccount :
         reply_to_paid_message_claim_settled(
           caller, seq, char_count, key, nonce, platform, ecosystem)

Refund == \E caller \in Account, seq \in Seqs : refund_paid_escrow(caller, seq)

Environment ==
  \/ \E a \in Recipient : \E costs \in {{}} \union {{c} : c \in MinCost} :
       set_paid_messaging_policy(a, costs)
  \/ archive_group
  \/ SetConversationKind
  \/ \E a \in Member : GrantOrRevokeSender(a)
  \/ \E p \in BlockPair : BlockOrUnblock(p)
  \/ \E p \in FollowPair : FollowOrUnfollow(p)
  \/ Tick

Next == Send \/ Reply \/ Refund \/ Environment

Spec == Init /\ [][Next]_vars

-----------------------------------------------------------------------------
(* Properties. *)

(* The escrow's two records of its fate agree: the balance is all there    *)
(* until the escrow is claimed and gone afterwards, and exactly the        *)
(* claimed ones have had a terminal event (claim, settlement or refund).   *)
(* About reply_to_paid_message_claim_*, refund_paid_message: withdraw_all  *)
(* and the claimed flag.                                                   *)
EscrowBacked ==
  \A seq \in Seqs :
    LET escrow == paid_msg_escrow[seq] IN
    /\ escrow.escrowed_balance = IF escrow.claimed THEN 0 ELSE escrow.amount
    /\ escrow.claimed <=> lifecycle[seq] # "escrowed"

(* No escrow is dated in the future, so the contract's unsigned            *)
(* subtraction now_ms - created_at_ms never underflows (it would abort     *)
(* every claim and every refund of that escrow).                           *)
AgeDefined == \A seq \in Seqs : paid_msg_escrow[seq].created_at_ms <= clock

(* What a function that counts coins adds up to. *)
Total(f) == MapThenSumSet(LAMBDA x : f[x], DOMAIN f)

Held == [seq \in Seqs |-> paid_msg_escrow[seq].escrowed_balance]

Balanced == Total(wallet) + Total(Held) = Total(Genesis)

(* MYSO is conserved: the state is well typed (no balance below zero), and *)
(* what the accounts own and what the escrows hold add up to the genesis   *)
(* supply after every split, fee, refund and returned excess               *)
(* (send_paid_message, distribute_escrow_to_recipients).                   *)
Conservation == TypeOK /\ Balanced

(* The escrows that were replied to, that x paid for, and that x replied   *)
(* to.                                                                     *)
Replied == {seq \in Seqs : lifecycle[seq] \in {"claimed", "settled"}}
PaidBy(x) == {seq \in Seqs : paid_msg_escrow[seq].payer = x}
RepliedBy(x) == {seq \in Replied : paid_msg_escrow[seq].recipient = x}

(* Replay protection leaves no gap: every send and every successful reply  *)
(* spent exactly one dedupe key of the log and exactly one nonce of its    *)
(* sender, and a refund spent none (consume_dedupe_and_nonce).             *)
OneKeyPerOperation ==
  /\ Cardinality(used_dedupe) = next_seq + Cardinality(Replied)
  /\ \A x \in Account :
       Cardinality(nonces[x]) = Cardinality(PaidBy(x)) + Cardinality(RepliedBy(x))

(* What a transaction must leave alone in an escrow that already exists. *)
SettledAsBefore(seq) ==
  LET old == paid_msg_escrow[seq]
      new == paid_msg_escrow'[seq]
  IN
  /\ old.claimed => new = old /\ lifecycle'[seq] = lifecycle[seq]
  /\ new.payer = old.payer
  /\ new.recipient = old.recipient
  /\ new.amount = old.amount
  /\ new.created_at_ms = old.created_at_ms

(* A settled escrow is settled for ever: no later transaction, by whatever *)
(* party, reopens it, refills it or emits a second terminal event for it;  *)
(* and no transaction drops an escrow or changes its parties, amount or    *)
(* date (Drain in the two replies and in the refund; Extend in the sends). *)
SettlementIsFinal ==
  [][\A seq \in Seqs : seq \in Seqs' /\ SettledAsBefore(seq)]_vars

(* What the ledger shows of the log: the detailed contract implements      *)
(* EscrowLedger, in which every escrow is paid out once, in full, to the   *)
(* party its age entitles.                                                 *)
Ledger == INSTANCE EscrowLedger WITH
  now <- clock,
  ledger <- [seq \in Seqs |->
    [payer |-> paid_msg_escrow[seq].payer,
     recipient |-> paid_msg_escrow[seq].recipient,
     amount |-> paid_msg_escrow[seq].amount,
     opened |-> paid_msg_escrow[seq].created_at_ms,
     status |-> lifecycle[seq]]]

(* Refinement of the abstract ledger by send, reply, refund and the clock. *)
ImplementsLedger == Ledger!Spec

=============================================================================
