----------------------------- MODULE MoneyProofs -----------------------------
(***************************************************************************)
(* Proofs about the two components that move money: PaidEscrow, for every  *)
(* set of accounts, every amount, every expiration and every number of     *)
(* escrows; and Payments, for every number of transfers and faults.  The   *)
(* two share no state: a theorem is about the specification it names.      *)
(*                                                                         *)
(* PaidEscrow.  An escrow that is not claimed is fully backed, so that     *)
(* what the contract pays out is what was paid in.                         *)
(*                                                                         *)
(* Payments.  A reopening writes paid -> open without looking at who paid. *)
(* It is right because, from its read on, nothing but itself can take the  *)
(* request away from the failed transfer it read.                          *)
(***************************************************************************)
EXTENDS PaidEscrow, Payments, FiniteSetTheorems, WellFoundedInduction, TLAPS

-----------------------------------------------------------------------------
(* The escrows. *)

(* The inductive invariant.  EscrowBacked needs the types; the refinement  *)
(* needs EscrowBacked, since the contract pays out the balance and the     *)
(* ledger the amount; AgeDefined makes ages natural numbers.               *)
IInv == TypeOK /\ EscrowBacked /\ AgeDefined

(* The two floored fees never exceed the escrow they are taken from, so    *)
(* distribute_escrow_to_recipients never aborts on the net amount.         *)
LEMMA FeeBound ==
  ASSUME NEW n \in Nat
  PROVE  Fee(n) \in Nat /\ Fee(n) + Fee(n) <= n /\ Net(n) \in Nat
<1>1. FeeBps \in Nat /\ FeeBps <= 5000
  BY EscrowAssumption
<1>2. n * FeeBps \in Nat /\ n * FeeBps <= n * 5000
  BY <1>1
<1>3. \A x \in Nat : x \div 10000 \in Nat /\ (x \div 10000) * 10000 <= x
  OBVIOUS
<1>4. Fee(n) \in Nat /\ Fee(n) * 10000 <= n * 5000
  BY <1>2, <1>3 DEF Fee
<1>5. Fee(n) + Fee(n) <= n
  BY <1>4
<1>6. QED
  BY <1>4, <1>5 DEF Net

(* Crediting an account keeps a wallet a wallet. *)
LEMMA CreditType ==
  ASSUME NEW w \in [Account -> Nat], NEW x \in Account, NEW n \in Nat
  PROVE  Credit(w, x, n) \in [Account -> Nat]
  BY DEF Credit

(* The initial state satisfies the invariant. *)
LEMMA InitIInv == Init => IInv
<1> SUFFICES ASSUME Init PROVE IInv
  OBVIOUS
<1>1. next_seq = 0 /\ Seqs = {}
  BY DEF Init, Seqs
<1>2. paid_msg_escrow \in [Seqs -> Escrow] /\ lifecycle \in [Seqs -> Lifecycle]
  BY <1>1 DEF Init
<1>3. /\ wallet \in [Account -> Nat] /\ next_seq \in 0..MaxSeq /\ clock \in Nat
      /\ policy \in [Account -> SUBSET Nat] /\ nonces \in [Account -> SUBSET Nonce]
  BY EscrowAssumption DEF Init
<1>4. /\ used_dedupe \subseteq Key /\ senders \subseteq Account
      /\ blocked \subseteq BlockPair /\ follows \subseteq FollowPair
  BY EscrowAssumption DEF Init
<1>5. archived \in BOOLEAN /\ dm \in BOOLEAN
  BY Zenon DEF Init
<1>6. TypeOK
  BY <1>2, <1>3, <1>4, <1>5 DEF TypeOK
<1>7. QED
  BY <1>1, <1>6 DEF IInv, EscrowBacked, AgeDefined

(* A send escrows exactly what it debits. *)
LEMMA SendIInv ==
  ASSUME IInv,
         NEW sender \in Account, NEW recipient \in Account,
         NEW payment \in Nat, NEW amount \in Nat,
         NEW key \in Key, NEW nonce \in Nonce,
         send_paid_message(sender, recipient, payment, amount, key, nonce)
  PROVE  IInv'
<1> DEFINE new == [payer |-> sender, recipient |-> recipient, amount |-> amount,
                   escrowed_balance |-> amount, created_at_ms |-> clock,
                   claimed |-> FALSE]
<1>1. wallet' \in [Account -> Nat]
  BY DEF IInv, send_paid_message, CoinCovers, NewEscrow, TypeOK, Credit, Debit
<1>2. /\ next_seq \in Nat /\ next_seq' \in 0..MaxSeq
      /\ Seqs' = 0..next_seq
      /\ \A i \in Seqs' : i = next_seq \/ i \in Seqs
  <2>1. MaxSeq \in Nat
    BY EscrowAssumption
  <2>2. next_seq \in 0..MaxSeq /\ next_seq < MaxSeq /\ next_seq' = next_seq + 1
    BY DEF IInv, TypeOK, send_paid_message
  <2>3. QED
    BY <2>1, <2>2 DEF Seqs
<1>3. new \in Escrow
  BY DEF IInv, TypeOK, Escrow
<1>4. /\ paid_msg_escrow' = [i \in Seqs' |-> IF i = next_seq THEN new ELSE paid_msg_escrow[i]]
      /\ lifecycle' = [i \in Seqs' |-> IF i = next_seq THEN "escrowed" ELSE lifecycle[i]]
  BY <1>2 DEF send_paid_message, CoinCovers, NewEscrow, Extend
<1> HIDE DEF new
<1>5. paid_msg_escrow' \in [Seqs' -> Escrow] /\ lifecycle' \in [Seqs' -> Lifecycle]
  BY <1>2, <1>3, <1>4 DEF IInv, TypeOK, Lifecycle
<1>6. used_dedupe' \subseteq Key /\ nonces' \in [Account -> SUBSET Nonce]
  BY DEF IInv, send_paid_message, CoinCovers, NewEscrow, TypeOK, consume_dedupe_and_nonce
<1>7. TypeOK'
  BY <1>1, <1>2, <1>5, <1>6
     DEF IInv, send_paid_message, CoinCovers, NewEscrow, TypeOK, socialVars
<1>8. EscrowBacked'
  BY <1>2, <1>4 DEF IInv, EscrowBacked, new
<1>9. AgeDefined'
  <2>1. clock' = clock /\ clock \in Nat
    BY DEF IInv, TypeOK, send_paid_message, CoinCovers, NewEscrow
  <2>2. new.created_at_ms = clock
    BY DEF new
  <2> SUFFICES ASSUME NEW i \in Seqs'
               PROVE  paid_msg_escrow'[i].created_at_ms <= clock'
    BY DEF AgeDefined
  <2>3. QED
    BY <1>2, <1>4, <2>1, <2>2 DEF IInv, AgeDefined
<1>10. QED
  BY <1>7, <1>8, <1>9 DEF IInv

(* Draining an escrow empties it and closes its lifecycle. *)
LEMMA DrainIInv ==
  ASSUME IInv, NEW seq \in Seqs, NEW event \in Lifecycle \ {"escrowed"},
         Drain(seq, event),
         wallet' \in [Account -> Nat],
         used_dedupe' \subseteq Key, nonces' \in [Account -> SUBSET Nonce]
  PROVE  IInv'
<1> USE DEF IInv
<1>1. Seqs' = Seqs
  BY DEF Drain, Unclaimed, Emptied, Seqs
<1>2. paid_msg_escrow' \in [Seqs -> Escrow] /\ lifecycle' \in [Seqs -> Lifecycle]
  BY DEF Drain, Unclaimed, Emptied, TypeOK, Escrow
<1>3. TypeOK'
  BY <1>1, <1>2 DEF TypeOK, Drain, Unclaimed, Emptied, socialVars
<1>4. EscrowBacked'
  BY <1>1 DEF EscrowBacked, Drain, Unclaimed, Emptied, TypeOK, Escrow, Lifecycle
<1>5. AgeDefined'
  BY <1>1 DEF AgeDefined, Drain, Unclaimed, Emptied, TypeOK, Escrow
<1>6. QED
  BY <1>3, <1>4, <1>5

(* A step that leaves the log alone and does not turn back the clock       *)
(* keeps the invariant.                                                    *)
LEMMA LogKept ==
  ASSUME IInv, TypeOK', UNCHANGED logVars, clock' = clock \/ clock' = clock + 1
  PROVE  IInv'
<1>1. Seqs' = Seqs /\ paid_msg_escrow' = paid_msg_escrow /\ lifecycle' = lifecycle
  BY DEF logVars, Seqs
<1>2. EscrowBacked'
  BY <1>1 DEF IInv, EscrowBacked
<1>3. \A seq \in Seqs : paid_msg_escrow[seq].created_at_ms \in Nat
  BY DEF IInv, TypeOK, Escrow
<1>4. AgeDefined'
  BY <1>1, <1>3 DEF IInv, AgeDefined, TypeOK
<1>5. QED
  BY <1>2, <1>4 DEF IInv

(* No action of the environment touches the log; only Tick moves ages. *)
LEMMA EnvironmentIInv == IInv /\ Environment => IInv'
<1> SUFFICES ASSUME IInv, Environment PROVE IInv'
  OBVIOUS
<1>1. archive_group => archived' \in BOOLEAN
  BY Zenon DEF archive_group
<1>2. SetConversationKind => dm' \in BOOLEAN
  BY Zenon DEF SetConversationKind
<1>3. TypeOK'
  <2> USE EscrowAssumption DEF IInv, TypeOK, logVars, Seqs
  <2>1. CASE \E x \in Recipient : \E costs \in {{}} \union {{c} : c \in MinCost} :
               set_paid_messaging_policy(x, costs)
    BY <2>1 DEF set_paid_messaging_policy
  <2>2. CASE archive_group
    BY <1>1, <2>2 DEF archive_group
  <2>3. CASE SetConversationKind
    BY <1>2, <2>3 DEF SetConversationKind
  <2>4. CASE \E x \in Member : GrantOrRevokeSender(x)
    BY <2>4 DEF GrantOrRevokeSender
  <2>5. CASE \E p \in BlockPair : BlockOrUnblock(p)
    BY <2>5 DEF BlockOrUnblock
  <2>6. CASE \E p \in FollowPair : FollowOrUnfollow(p)
    BY <2>6 DEF FollowOrUnfollow
  <2>7. CASE Tick
    BY <2>7 DEF Tick, socialVars
  <2> HIDE DEF IInv, TypeOK, logVars, Seqs
  <2>8. QED
    BY <2>1, <2>2, <2>3, <2>4, <2>5, <2>6, <2>7 DEF Environment
<1>4. UNCHANGED logVars /\ (clock' = clock \/ clock' = clock + 1)
  BY DEF Environment, set_paid_messaging_policy, archive_group, SetConversationKind,
         GrantOrRevokeSender, BlockOrUnblock, FollowOrUnfollow, Tick
<1>5. QED
  BY <1>3, <1>4, LogKept

(* Whoever replies takes no more than the escrow holds. *)
LEMMA ReplyIInv == IInv /\ Reply => IInv'
<1> SUFFICES ASSUME IInv,
                    NEW caller \in Account, NEW seq \in Seqs,
                    NEW key \in Key, NEW nonce \in Nonce, NEW char_count,
                    \/ reply_to_paid_message_claim_coin(caller, seq, char_count, key, nonce)
                    \/ \E platform, ecosystem \in FeeAccount :
                         reply_to_paid_message_claim_settled(
                           caller, seq, char_count, key, nonce, platform, ecosystem)
             PROVE  IInv'
  BY DEF Reply
<1>1. paid_msg_escrow[seq] \in Escrow /\ wallet \in [Account -> Nat]
  BY DEF IInv, TypeOK
<1>2. used_dedupe' \subseteq Key /\ nonces' \in [Account -> SUBSET Nonce]
  BY DEF IInv, TypeOK, reply_to_paid_message_claim_coin,
         reply_to_paid_message_claim_settled, ReplyAllowed, consume_dedupe_and_nonce
<1>3. CASE reply_to_paid_message_claim_coin(caller, seq, char_count, key, nonce)
  <2>1. wallet' \in [Account -> Nat]
    BY <1>1, <1>3, CreditType DEF reply_to_paid_message_claim_coin, Escrow
  <2>2. QED
    BY <1>2, <1>3, <2>1, DrainIInv DEF reply_to_paid_message_claim_coin, Lifecycle
<1>4. CASE \E platform, ecosystem \in FeeAccount :
             reply_to_paid_message_claim_settled(
               caller, seq, char_count, key, nonce, platform, ecosystem)
  <2>1. PICK platform \in Account, ecosystem \in Account :
          reply_to_paid_message_claim_settled(
            caller, seq, char_count, key, nonce, platform, ecosystem)
    BY <1>4, EscrowAssumption
  <2> DEFINE total == paid_msg_escrow[seq].escrowed_balance
             recipient == paid_msg_escrow[seq].recipient
  <2>2. recipient \in Account /\ Fee(total) \in Nat /\ Net(total) \in Nat
    BY <1>1, FeeBound DEF Escrow
  <2>3. Credit(wallet, platform, Fee(total)) \in [Account -> Nat]
    BY <1>1, <2>2, CreditType
  <2>4. Credit(Credit(wallet, platform, Fee(total)), ecosystem, Fee(total)) \in [Account -> Nat]
    BY <2>2, <2>3, CreditType
  <2>5. wallet' \in [Account -> Nat]
    BY <2>1, <2>2, <2>4, CreditType
    DEF reply_to_paid_message_claim_settled, distribute_escrow_to_recipients
  <2>6. QED
    BY <1>2, <2>1, <2>5, DrainIInv DEF reply_to_paid_message_claim_settled, Lifecycle
<1>5. QED
  BY <1>3, <1>4

(* A refund returns what the escrow holds. *)
LEMMA RefundIInv == IInv /\ Refund => IInv'
<1> SUFFICES ASSUME IInv, NEW caller \in Account, NEW seq \in Seqs,
                    refund_paid_escrow(caller, seq)
             PROVE  IInv'
  BY DEF Refund
<1>1. paid_msg_escrow[seq] \in Escrow /\ wallet \in [Account -> Nat]
  BY DEF IInv, TypeOK
<1>2. wallet' \in [Account -> Nat]
  BY <1>1, CreditType DEF refund_paid_escrow, Escrow
<1>3. used_dedupe' \subseteq Key /\ nonces' \in [Account -> SUBSET Nonce]
  BY DEF IInv, TypeOK, refund_paid_escrow
<1>4. QED
  BY <1>2, <1>3, DrainIInv DEF refund_paid_escrow, Lifecycle

(* Every transaction keeps the invariant. *)
LEMMA NextIInv == IInv /\ [Next]_vars => IInv'
<1> SUFFICES ASSUME IInv, [Next]_vars PROVE IInv'
  OBVIOUS
<1>1. CASE Send
  <2>1. PICK sender \in Account, recipient \in Recipient, payment \in Amount,
             amount \in Amount, key \in Key, nonce \in Nonce :
          send_paid_message(sender, recipient, payment, amount, key, nonce)
    BY <1>1, EscrowAssumption
    DEF Send, send_paid_message_digest, send_agent_paid_message_digest
  <2>2. recipient \in Account /\ payment \in Nat /\ amount \in Nat
    BY EscrowAssumption
  <2>3. QED
    BY <2>1, <2>2, SendIInv
<1>2. CASE Reply
  BY <1>2, ReplyIInv
<1>3. CASE Refund
  BY <1>3, RefundIInv
<1>4. CASE Environment
  BY <1>4, EnvironmentIInv
<1>5. CASE UNCHANGED vars
  BY <1>5 DEF vars, logVars, socialVars, IInv, TypeOK, EscrowBacked, AgeDefined, Seqs
<1>6. QED
  BY <1>1, <1>2, <1>3, <1>4, <1>5 DEF Next

(* The invariant holds throughout. *)
THEOREM Invariance == Spec => []IInv
  BY InitIInv, NextIInv, PTL DEF Spec

(* Types: in particular no wallet and no balance ever goes below zero, in  *)
(* any interleaving of sends, replies, settlements and refunds.            *)
THEOREM TypeCorrect == Spec => []TypeOK
<1>1. IInv => TypeOK
  BY DEF IInv
<1>2. QED
  BY <1>1, Invariance, PTL

(* Each escrow is fully backed until it is claimed, empty afterwards, and  *)
(* claimed exactly when the log emitted a terminal event for it.           *)
THEOREM EscrowsBacked == Spec => []EscrowBacked
<1>1. IInv => EscrowBacked
  BY DEF IInv
<1>2. QED
  BY <1>1, Invariance, PTL

-----------------------------------------------------------------------------
(* A send adds one escrow and keeps the others as they are. *)
LEMMA SendKeepsEscrows ==
  ASSUME TypeOK, NEW sender, NEW recipient, NEW payment, NEW amount, NEW key, NEW nonce,
         send_paid_message(sender, recipient, payment, amount, key, nonce)
  PROVE  \A seq \in Seqs : /\ seq \in Seqs'
                           /\ paid_msg_escrow'[seq] = paid_msg_escrow[seq]
                           /\ lifecycle'[seq] = lifecycle[seq]
  BY DEF TypeOK, send_paid_message, CoinCovers, NewEscrow, Seqs, Extend

(* Draining an escrow changes its balance and its flag, and no other. *)
LEMMA DrainKeepsEscrows ==
  ASSUME TypeOK, NEW s \in Seqs, NEW event, Drain(s, event)
  PROVE  Seqs' = Seqs /\ \A seq \in Seqs : SettledAsBefore(seq)
<1>1. Seqs' = Seqs
  BY DEF Drain, Unclaimed, Emptied, Seqs
<1>2. ASSUME NEW seq \in Seqs PROVE SettledAsBefore(seq)
  <2>1. paid_msg_escrow[seq] \in Escrow
    BY DEF TypeOK
  <2>2. CASE seq = s
    BY <2>1, <2>2 DEF TypeOK, Drain, Unclaimed, Emptied, SettledAsBefore, Escrow
  <2>3. CASE seq # s
    BY <2>3 DEF TypeOK, Drain, Unclaimed, Emptied, SettledAsBefore
  <2>4. QED
    BY <2>2, <2>3
<1>3. QED
  BY <1>1, <1>2

(* No transaction disturbs a settled escrow. *)
LEMMA StepIsFinal ==
  ASSUME TypeOK, Next
  PROVE  \A seq \in Seqs : seq \in Seqs' /\ SettledAsBefore(seq)
<1>1. CASE Send
  BY <1>1, SendKeepsEscrows
  DEF Send, send_paid_message_digest, send_agent_paid_message_digest, SettledAsBefore
<1>2. CASE Reply \/ Refund
  <2>1. PICK s \in Seqs, event \in Lifecycle : Drain(s, event)
    BY <1>2 DEF Reply, Refund, reply_to_paid_message_claim_coin, Lifecycle,
                reply_to_paid_message_claim_settled, refund_paid_escrow
  <2>2. QED
    BY <2>1, DrainKeepsEscrows
<1>3. CASE Environment
  <2>1. UNCHANGED logVars
    BY <1>3 DEF Environment, set_paid_messaging_policy, archive_group, SetConversationKind,
                GrantOrRevokeSender, BlockOrUnblock, FollowOrUnfollow, Tick
  <2>2. QED
    BY <2>1 DEF logVars, Seqs, SettledAsBefore
<1>4. QED
  BY <1>1, <1>2, <1>3 DEF Next

(* Settlement is final for every number of escrows and parties: an escrow  *)
(* pays out at most once, whoever calls reply or refund afterwards.        *)
THEOREM Finality == Spec => SettlementIsFinal
<1>1. TypeOK /\ [Next]_vars => [\A seq \in Seqs : seq \in Seqs' /\ SettledAsBefore(seq)]_vars
  BY StepIsFinal
<1>2. QED
  BY <1>1, TypeCorrect, PTL DEF Spec, SettlementIsFinal

-----------------------------------------------------------------------------
(* The log starts as an empty ledger. *)
LEMMA InitLedger == Init => Ledger!Init
<1> SUFFICES ASSUME Init PROVE Ledger!Init
  OBVIOUS
<1>1. Seqs = {}
  BY DEF Init, Seqs
<1>2. QED
  BY <1>1 DEF Init, Ledger!Init

(* Credit, debit, fee and net are the ledger's. *)
LEMMA SameArithmetic ==
  /\ \A w, x, n : Credit(w, x, n) = Ledger!Credit(w, x, n)
  /\ \A w, x, n : Debit(w, x, n) = Ledger!Debit(w, x, n)
  /\ \A n : Fee(n) = Ledger!Fee(n) /\ Net(n) = Ledger!Net(n)
  BY DEF Credit, Debit, Fee, Net, Ledger!Credit, Ledger!Debit, Ledger!Fee, Ledger!Net

(* A send opens the next number of the ledger. *)
LEMMA SendOpens ==
  ASSUME IInv,
         NEW sender \in Account, NEW recipient \in Account,
         NEW payment \in Nat, NEW amount \in Amount, NEW key, NEW nonce,
         send_paid_message(sender, recipient, payment, amount, key, nonce)
  PROVE  Ledger!Open(next_seq, sender, recipient, amount)
<1>1. amount \in Nat /\ wallet \in [Account -> Nat] /\ next_seq \in Nat
  BY EscrowAssumption DEF IInv, TypeOK
<1>2. wallet[sender] >= amount /\ wallet' = Ledger!Debit(wallet, sender, amount)
  <2>1. wallet[sender] \in Nat /\ payment <= wallet[sender] /\ payment >= amount
    BY <1>1 DEF send_paid_message, CoinCovers, NewEscrow
  <2>2. (wallet[sender] - payment) + (payment - amount) = wallet[sender] - amount
    BY <1>1, <2>1
  <2>3. wallet' = [wallet EXCEPT ![sender] = (wallet[sender] - payment) + (payment - amount)]
    BY <1>1 DEF send_paid_message, CoinCovers, NewEscrow, Credit, Debit
  <2>4. wallet[sender] >= amount
    BY <1>1, <2>1
  <2>5. Ledger!Debit(wallet, sender, amount) = [wallet EXCEPT ![sender] = wallet[sender] - amount]
    BY DEF Ledger!Debit
  <2>6. QED
    BY <2>2, <2>3, <2>4, <2>5
<1>3. next_seq \notin Seqs /\ Seqs' = Seqs \union {next_seq}
  BY <1>1 DEF send_paid_message, CoinCovers, NewEscrow, Seqs
<1>4. /\ \A i \in Seqs : /\ paid_msg_escrow'[i] = paid_msg_escrow[i]
                         /\ lifecycle'[i] = lifecycle[i]
      /\ paid_msg_escrow'[next_seq] =
           [payer |-> sender, recipient |-> recipient, amount |-> amount,
            escrowed_balance |-> amount, created_at_ms |-> clock, claimed |-> FALSE]
      /\ lifecycle'[next_seq] = "escrowed"
  BY <1>1 DEF send_paid_message, CoinCovers, NewEscrow, Seqs, Extend
<1>5. clock' = clock
  BY DEF send_paid_message, CoinCovers, NewEscrow
<1>6. QED
  BY <1>2, <1>3, <1>4, <1>5 DEF Ledger!Open

(* Draining an escrow closes it in the ledger. *)
LEMMA DrainCloses ==
  ASSUME IInv, NEW seq \in Seqs, NEW event, Drain(seq, event)
  PROVE  Ledger!Close(seq, event) /\ paid_msg_escrow[seq].escrowed_balance
                                       = paid_msg_escrow[seq].amount
<1>1. Seqs' = Seqs /\ clock' = clock
  BY DEF Drain, Unclaimed, Emptied, Seqs
<1>2. ~paid_msg_escrow[seq].claimed /\ lifecycle[seq] = "escrowed"
  BY DEF Drain, Unclaimed, Emptied, IInv, EscrowBacked
<1>3. \A i \in Seqs : /\ paid_msg_escrow'[i].payer = paid_msg_escrow[i].payer
                     /\ paid_msg_escrow'[i].recipient = paid_msg_escrow[i].recipient
                     /\ paid_msg_escrow'[i].amount = paid_msg_escrow[i].amount
                     /\ paid_msg_escrow'[i].created_at_ms = paid_msg_escrow[i].created_at_ms
  BY DrainKeepsEscrows DEF IInv, SettledAsBefore
<1>4. lifecycle' = [lifecycle EXCEPT ![seq] = event] /\ DOMAIN lifecycle = Seqs
  BY DEF Drain, Unclaimed, Emptied, IInv, TypeOK
<1>5. Ledger!Close(seq, event)
  BY <1>1, <1>2, <1>3, <1>4 DEF Ledger!Close
<1>6. QED
  BY <1>2, <1>5 DEF IInv, EscrowBacked

(* Every transaction is a step of the ledger or leaves it alone. *)
LEMMA StepLedger == IInv /\ [Next]_vars => [Ledger!Next]_(Ledger!ledgerVars)
<1> SUFFICES ASSUME IInv, [Next]_vars PROVE [Ledger!Next]_(Ledger!ledgerVars)
  OBVIOUS
<1> USE SameArithmetic
<1>1. CASE Send
  <2>1. PICK sender \in Account, recipient \in Recipient, payment \in Amount,
             amount \in Amount, key \in Key, nonce \in Nonce :
          send_paid_message(sender, recipient, payment, amount, key, nonce)
    BY <1>1, EscrowAssumption
    DEF Send, send_paid_message_digest, send_agent_paid_message_digest
  <2>2. recipient \in Account /\ payment \in Nat /\ next_seq \in 0..MaxSeq
    BY EscrowAssumption DEF IInv, TypeOK
  <2>3. Ledger!Open(next_seq, sender, recipient, amount)
    BY <2>1, <2>2, SendOpens
  <2>4. QED
    BY <2>2, <2>3 DEF Ledger!Next
<1>2. CASE Reply
  <2>1. PICK caller \in Account, seq \in Seqs, key \in Key, nonce \in Nonce,
             char_count \in {MinReplyChars - 1, MinReplyChars} :
          \/ reply_to_paid_message_claim_coin(caller, seq, char_count, key, nonce)
          \/ \E platform, ecosystem \in FeeAccount :
               reply_to_paid_message_claim_settled(
                 caller, seq, char_count, key, nonce, platform, ecosystem)
    BY <1>2 DEF Reply
  <2>2. CASE reply_to_paid_message_claim_coin(caller, seq, char_count, key, nonce)
    <3>1. Ledger!Claim(seq)
      BY <2>2, DrainCloses
      DEF reply_to_paid_message_claim_coin, ReplyAllowed, Ledger!Claim, Ledger!Age
    <3>2. QED
      BY <3>1 DEF Ledger!Next
  <2>3. CASE \E platform, ecosystem \in FeeAccount :
               reply_to_paid_message_claim_settled(
                 caller, seq, char_count, key, nonce, platform, ecosystem)
    <3>1. PICK platform \in Account, ecosystem \in Account :
            reply_to_paid_message_claim_settled(
              caller, seq, char_count, key, nonce, platform, ecosystem)
      BY <2>3, EscrowAssumption
    <3>2. Ledger!Settle(seq, platform, ecosystem)
      BY <3>1, DrainCloses
      DEF reply_to_paid_message_claim_settled, ReplyAllowed,
          distribute_escrow_to_recipients, Ledger!Settle, Ledger!Age
    <3>3. QED
      BY <3>2 DEF Ledger!Next
  <2>4. QED
    BY <2>1, <2>2, <2>3
<1>3. CASE Refund
  <2>1. PICK caller \in Account, seq \in Seqs : refund_paid_escrow(caller, seq)
    BY <1>3 DEF Refund
  <2>2. Ledger!Refund(seq)
    BY <2>1, DrainCloses
    DEF refund_paid_escrow, RefundAllowed, Expired, Ledger!Refund, Ledger!Age
  <2>3. QED
    BY <2>2 DEF Ledger!Next
<1>4. CASE Tick
  <2>1. Ledger!Tick
    BY <1>4 DEF Tick, logVars, Seqs, Ledger!Tick
  <2>2. QED
    BY <2>1 DEF Ledger!Next
<1>5. CASE UNCHANGED <<clock, wallet, logVars>>
  BY <1>5 DEF logVars, Seqs, Ledger!ledgerVars
<1>6. QED
  BY <1>1, <1>2, <1>3, <1>4, <1>5
  DEF Next, Environment, set_paid_messaging_policy, archive_group, SetConversationKind,
      GrantOrRevokeSender, BlockOrUnblock, FollowOrUnfollow, vars

(* The contract implements the ledger: whatever groups, permissions,       *)
(* blocks, policies, keys and agents do, each escrow is paid out once and  *)
(* in full, to the recipient while it is young and to the payer once it    *)
(* has expired.                                                            *)
THEOREM Refinement == Spec => ImplementsLedger
<1>1. Init => Ledger!Init
  BY InitLedger
<1>2. IInv /\ [Next]_vars => [Ledger!Next]_(Ledger!ledgerVars)
  BY StepLedger
<1>3. QED
  BY <1>1, <1>2, Invariance, PTL DEF Spec, ImplementsLedger, Ledger!Spec

-----------------------------------------------------------------------------
(* The keys and nonces that are spent are counted: finitely many of each. *)
SpentOK ==
  /\ OneKeyPerOperation
  /\ IsFiniteSet(used_dedupe) /\ \A x \in Account : IsFiniteSet(nonces[x])

(* The sets that the operations are counted by are finite. *)
LEMMA CountedFinite ==
  ASSUME TypeOK
  PROVE  /\ IsFiniteSet(Replied) /\ Cardinality(Replied) \in Nat /\ next_seq \in Nat
         /\ \A x : /\ IsFiniteSet(PaidBy(x)) /\ IsFiniteSet(RepliedBy(x))
                   /\ Cardinality(PaidBy(x)) \in Nat /\ Cardinality(RepliedBy(x)) \in Nat
<1>1. next_seq \in Nat /\ next_seq - 1 \in Int
  BY EscrowAssumption DEF TypeOK
<1>2. IsFiniteSet(Seqs)
  BY <1>1, FS_Interval DEF Seqs
<1>3. Replied \in SUBSET Seqs /\ \A x : PaidBy(x) \in SUBSET Seqs /\ RepliedBy(x) \in SUBSET Seqs
  BY DEF Replied, PaidBy, RepliedBy
<1>4. /\ IsFiniteSet(Replied)
      /\ \A x : IsFiniteSet(PaidBy(x)) /\ IsFiniteSet(RepliedBy(x))
  BY <1>2, <1>3, FS_Subset
<1>5. QED
  BY <1>1, <1>4, FS_CardinalityType

(* Spending a key and a nonce adds one to each count. *)
LEMMA SpendOne ==
  ASSUME IInv, SpentOK, NEW caller \in Account, NEW key, NEW nonce,
         consume_dedupe_and_nonce(caller, key, nonce)
  PROVE  /\ IsFiniteSet(used_dedupe') /\ \A x \in Account : IsFiniteSet(nonces'[x])
         /\ Cardinality(used_dedupe') = Cardinality(used_dedupe) + 1
         /\ Cardinality(nonces'[caller]) = Cardinality(nonces[caller]) + 1
         /\ \A x \in Account \ {caller} : nonces'[x] = nonces[x]
<1>1. /\ key \notin used_dedupe /\ used_dedupe' = used_dedupe \union {key}
      /\ nonce \notin nonces[caller]
      /\ nonces' = [nonces EXCEPT ![caller] = @ \union {nonce}]
  BY DEF consume_dedupe_and_nonce
<1>2. /\ nonces'[caller] = nonces[caller] \union {nonce}
      /\ \A x \in Account \ {caller} : nonces'[x] = nonces[x]
  BY <1>1 DEF IInv, TypeOK
<1>3. IsFiniteSet(used_dedupe) /\ \A x \in Account : IsFiniteSet(nonces[x])
  BY DEF SpentOK
<1>4. /\ IsFiniteSet(used_dedupe') /\ Cardinality(used_dedupe') = Cardinality(used_dedupe) + 1
  BY <1>1, <1>3, FS_AddElement
<1>5. /\ IsFiniteSet(nonces'[caller])
      /\ Cardinality(nonces'[caller]) = Cardinality(nonces[caller]) + 1
  BY <1>1, <1>2, <1>3, FS_AddElement
<1>6. QED
  BY <1>2, <1>3, <1>4, <1>5

(* A send spends one key and one nonce of the payer. *)
LEMMA SendSpends ==
  ASSUME IInv, SpentOK,
         NEW sender \in Account, NEW recipient, NEW payment, NEW amount, NEW key, NEW nonce,
         send_paid_message(sender, recipient, payment, amount, key, nonce)
  PROVE  SpentOK'
<1>0. TypeOK /\ OneKeyPerOperation
  BY DEF IInv, SpentOK
<1>1. /\ next_seq \in Nat /\ next_seq' = next_seq + 1
      /\ next_seq \notin Seqs /\ Seqs' = Seqs \union {next_seq}
  BY EscrowAssumption, <1>0 DEF send_paid_message, TypeOK, Seqs
<1>2. /\ \A i \in Seqs : /\ paid_msg_escrow'[i] = paid_msg_escrow[i]
                         /\ lifecycle'[i] = lifecycle[i]
      /\ paid_msg_escrow'[next_seq].payer = sender
      /\ lifecycle'[next_seq] = "escrowed"
  BY <1>1 DEF send_paid_message, NewEscrow, Seqs, Extend
<1>3. Replied' = Replied
  BY <1>1, <1>2 DEF Replied
<1>4. \A x : RepliedBy(x)' = RepliedBy(x)
  BY <1>2, <1>3 DEF RepliedBy, Replied
<1>5. /\ PaidBy(sender)' = PaidBy(sender) \union {next_seq} /\ next_seq \notin PaidBy(sender)
      /\ \A x : x # sender => PaidBy(x)' = PaidBy(x)
  BY <1>1, <1>2 DEF PaidBy
<1>6. Cardinality(PaidBy(sender)') = Cardinality(PaidBy(sender)) + 1
  BY <1>0, <1>5, CountedFinite, FS_AddElement
<1>7. consume_dedupe_and_nonce(sender, key, nonce)
  BY DEF send_paid_message
<1>8. OneKeyPerOperation'
  <2>1. Cardinality(used_dedupe') = next_seq' + Cardinality(Replied')
    BY <1>0, <1>1, <1>3, <1>7, SpendOne, CountedFinite DEF OneKeyPerOperation
  <2>2. Cardinality(nonces'[sender])
          = Cardinality(PaidBy(sender)') + Cardinality(RepliedBy(sender)')
    BY <1>0, <1>4, <1>6, <1>7, SpendOne, CountedFinite DEF OneKeyPerOperation
  <2>3. \A x \in Account \ {sender} :
          Cardinality(nonces'[x]) = Cardinality(PaidBy(x)') + Cardinality(RepliedBy(x)')
    BY <1>0, <1>4, <1>5, <1>7, SpendOne DEF OneKeyPerOperation
  <2>4. QED
    BY <2>1, <2>2, <2>3 DEF OneKeyPerOperation
<1>9. QED
  BY <1>7, <1>8, SpendOne DEF SpentOK

(* What draining does to the sets the operations are counted by. *)
LEMMA DrainCounts ==
  ASSUME IInv, NEW seq \in Seqs, NEW event, Drain(seq, event)
  PROVE  /\ next_seq' = next_seq /\ seq \notin Replied
         /\ \A x : PaidBy(x)' = PaidBy(x)
         /\ Replied' = IF event \in {"claimed", "settled"} THEN Replied \union {seq} ELSE Replied
         /\ \A i \in Seqs : paid_msg_escrow'[i].recipient = paid_msg_escrow[i].recipient
<1>1. /\ Seqs' = Seqs /\ \A i \in Seqs : SettledAsBefore(i)
  BY DrainKeepsEscrows DEF IInv
<1>2. next_seq' = next_seq
  BY DEF Drain
<1>3. lifecycle[seq] = "escrowed"
  BY DEF Drain, Unclaimed, IInv, EscrowBacked
<1>4. /\ lifecycle'[seq] = event /\ \A i \in Seqs \ {seq} : lifecycle'[i] = lifecycle[i]
  BY DEF Drain, IInv, TypeOK
<1>5. \A x : PaidBy(x)' = PaidBy(x)
  BY <1>1 DEF PaidBy, SettledAsBefore
<1>6. seq \notin Replied
  BY <1>3 DEF Replied
<1>7. Replied' = IF event \in {"claimed", "settled"} THEN Replied \union {seq} ELSE Replied
  BY <1>1, <1>3, <1>4 DEF Replied
<1>8. QED
  BY <1>1, <1>2, <1>5, <1>6, <1>7 DEF SettledAsBefore

(* A reply spends one key and one nonce of the recipient. *)
LEMMA ReplySpends ==
  ASSUME IInv, SpentOK, NEW caller \in Account, NEW seq \in Seqs, NEW key, NEW nonce,
         NEW event \in {"claimed", "settled"}, Drain(seq, event),
         consume_dedupe_and_nonce(caller, key, nonce),
         caller = paid_msg_escrow[seq].recipient
  PROVE  SpentOK'
<1>0. TypeOK /\ OneKeyPerOperation
  BY DEF IInv, SpentOK
<1>1. /\ next_seq' = next_seq /\ seq \notin Replied /\ Replied' = Replied \union {seq}
      /\ \A x : PaidBy(x)' = PaidBy(x)
      /\ \A i \in Seqs : paid_msg_escrow'[i].recipient = paid_msg_escrow[i].recipient
  BY DrainCounts
<1>2. Replied \subseteq Seqs
  BY DEF Replied
<1>3. /\ \A x : RepliedBy(x)' = {i \in Replied' : paid_msg_escrow'[i].recipient = x}
  BY DEF RepliedBy
<1>4. /\ RepliedBy(caller)' = RepliedBy(caller) \union {seq}
      /\ seq \notin RepliedBy(caller)
      /\ \A x : x # caller => RepliedBy(x)' = RepliedBy(x)
  BY <1>1, <1>2, <1>3 DEF RepliedBy
<1>5. /\ Cardinality(Replied') = Cardinality(Replied) + 1
      /\ Cardinality(RepliedBy(caller)') = Cardinality(RepliedBy(caller)) + 1
  BY <1>0, <1>1, <1>4, CountedFinite, FS_AddElement
<1>6. OneKeyPerOperation'
  <2>1. Cardinality(used_dedupe') = next_seq' + Cardinality(Replied')
    BY <1>0, <1>1, <1>5, SpendOne, CountedFinite DEF OneKeyPerOperation
  <2>2. Cardinality(nonces'[caller])
          = Cardinality(PaidBy(caller)') + Cardinality(RepliedBy(caller)')
    BY <1>0, <1>1, <1>5, SpendOne, CountedFinite DEF OneKeyPerOperation
  <2>3. \A x \in Account \ {caller} :
          Cardinality(nonces'[x]) = Cardinality(PaidBy(x)') + Cardinality(RepliedBy(x)')
    BY <1>0, <1>1, <1>4, SpendOne DEF OneKeyPerOperation
  <2>4. QED
    BY <2>1, <2>2, <2>3 DEF OneKeyPerOperation
<1>7. QED
  BY <1>6, SpendOne DEF SpentOK

(* A refund spends nothing. *)
LEMMA RefundSpendsNothing ==
  ASSUME IInv, SpentOK, NEW caller, NEW seq \in Seqs, refund_paid_escrow(caller, seq)
  PROVE  SpentOK'
<1>1. Drain(seq, "refunded") /\ used_dedupe' = used_dedupe /\ nonces' = nonces
  BY DEF refund_paid_escrow
<1>2. /\ next_seq' = next_seq /\ Replied' = Replied
      /\ \A x : PaidBy(x)' = PaidBy(x)
      /\ \A i \in Seqs : paid_msg_escrow'[i].recipient = paid_msg_escrow[i].recipient
  BY <1>1, DrainCounts
<1>3. Replied \subseteq Seqs
  BY DEF Replied
<1>4. \A x : RepliedBy(x)' = {i \in Replied' : paid_msg_escrow'[i].recipient = x}
  BY DEF RepliedBy
<1>5. \A x : RepliedBy(x)' = RepliedBy(x)
  BY <1>2, <1>3, <1>4 DEF RepliedBy
<1>6. QED
  BY <1>1, <1>2, <1>5 DEF SpentOK, OneKeyPerOperation

(* Every transaction keeps the count. *)
LEMMA NextSpentOK == IInv /\ SpentOK /\ [Next]_vars => SpentOK'
<1> SUFFICES ASSUME IInv, SpentOK, [Next]_vars PROVE SpentOK'
  OBVIOUS
<1>1. CASE Send
  <2>1. PICK sender \in Account, recipient \in Recipient, payment \in Amount,
             amount \in Amount, key \in Key, nonce \in Nonce :
          send_paid_message(sender, recipient, payment, amount, key, nonce)
    BY <1>1, EscrowAssumption
    DEF Send, send_paid_message_digest, send_agent_paid_message_digest
  <2>2. QED
    BY <2>1, SendSpends
<1>2. CASE Reply
  <2>1. PICK caller \in Account, seq \in Seqs, key \in Key, nonce \in Nonce,
             event \in {"claimed", "settled"} :
          /\ Drain(seq, event) /\ consume_dedupe_and_nonce(caller, key, nonce)
          /\ caller = paid_msg_escrow[seq].recipient
    BY <1>2 DEF Reply, reply_to_paid_message_claim_coin, reply_to_paid_message_claim_settled,
                ReplyAllowed
  <2>2. QED
    BY <2>1, ReplySpends
<1>3. CASE Refund
  BY <1>3, RefundSpendsNothing DEF Refund
<1>4. CASE Environment \/ UNCHANGED vars
  <2>1. UNCHANGED logVars
    BY <1>4 DEF Environment, set_paid_messaging_policy, archive_group, SetConversationKind,
                GrantOrRevokeSender, BlockOrUnblock, FollowOrUnfollow, Tick, vars
  <2>2. QED
    BY <2>1 DEF logVars, SpentOK, OneKeyPerOperation, Replied, PaidBy, RepliedBy, Seqs
<1>5. QED
  BY <1>1, <1>2, <1>3, <1>4 DEF Next

(* Every send and every reply spends one dedupe key and one nonce of its   *)
(* sender, and nothing else does, for any sets of keys and nonces.         *)
THEOREM OneKeyEach == Spec => []OneKeyPerOperation
<1>1. Init => SpentOK
  <2> SUFFICES ASSUME Init PROVE SpentOK
    OBVIOUS
  <2>1. Seqs = {} /\ next_seq = 0 /\ used_dedupe = {} /\ \A x \in Account : nonces[x] = {}
    BY DEF Init, Seqs
  <2>2. Replied = {} /\ \A x : PaidBy(x) = {} /\ RepliedBy(x) = {}
    BY <2>1 DEF Replied, PaidBy, RepliedBy
  <2>3. QED
    BY <2>1, <2>2, FS_EmptySet DEF SpentOK, OneKeyPerOperation
<1>2. IInv /\ SpentOK /\ [Next]_vars => SpentOK'
  BY NextSpentOK
<1>3. SpentOK => OneKeyPerOperation
  BY DEF SpentOK
<1>4. QED
  BY <1>1, <1>2, <1>3, Invariance, PTL DEF Spec

-----------------------------------------------------------------------------
(* Conservation.  A total is a fold over a finite set; what it does is     *)
(* shown by induction on the number of its members.                        *)

(* Induction on the natural numbers, for a set of them. *)
LEMMA SetInduction ==
  ASSUME NEW T, 0 \in T, \A n \in Nat : n \in T => n + 1 \in T
  PROVE  Nat \subseteq T
<1> DEFINE U == Nat \ T
<1> SUFFICES ASSUME U # {} PROVE FALSE
  OBVIOUS
<1>1. PICK m \in U : \A n \in U : ~(<<n, m>> \in OpToRel(<, Nat))
  <2>1. U \subseteq Nat
    OBVIOUS
  <2>2. QED
    BY <2>1, WFMin, NatLessThanWellFounded
<1>2. m \in Nat /\ m # 0 /\ m - 1 \in Nat /\ m - 1 < m
  <2>1. m \in Nat /\ m # 0
    OBVIOUS
  <2>2. QED
    BY ONLY <2>1
<1>3. m - 1 \notin T
  BY <1>2
<1>4. <<m - 1, m>> \in OpToRel(<, Nat)
  BY <1>2 DEF OpToRel
<1>5. QED
  BY <1>1, <1>2, <1>3, <1>4

(* The element a fold takes first, and the equation that the sums of f     *)
(* over the subsets of its domain satisfy.                                 *)
Pick(s) == CHOOSE x \in s : TRUE
SumsOf(f, g) ==
  g = [s \in SUBSET DOMAIN f |-> IF s = {} THEN 0 ELSE f[Pick(s)] + g[s \ {Pick(s)}]]

(* The element is one of the set. *)
LEMMA PickIn == \A s : s # {} => Pick(s) \in s
  BY DEF Pick

(* The subsets of S with at most n members: what the induction is on. *)
Small(S, n) == {s \in SUBSET S : Cardinality(s) <= n}

(* Taking out one member goes down one level; all subsets of a finite set  *)
(* are on some level.                                                      *)
LEMMA SmallFacts ==
  ASSUME NEW S, IsFiniteSet(S)
  PROVE  /\ \A n \in Nat : \A s \in Small(S, n + 1) : \A x \in s : s \ {x} \in Small(S, n)
         /\ \A n \in Nat : Small(S, n) \subseteq Small(S, n + 1)
         /\ Small(S, 0) = {{}}
         /\ SUBSET S \subseteq Small(S, Cardinality(S))
         /\ \A n \in Nat : Small(S, n) \subseteq SUBSET S
         /\ Cardinality(S) \in Nat
<1>1. \A s \in SUBSET S : IsFiniteSet(s) /\ Cardinality(s) \in Nat /\ Cardinality(s) <= Cardinality(S)
  BY FS_Subset, FS_CardinalityType
<1>2. \A s \in SUBSET S : \A x \in s : Cardinality(s \ {x}) = Cardinality(s) - 1
  BY <1>1, FS_RemoveElement
<1>3. \A s \in SUBSET S : Cardinality(s) = 0 <=> s = {}
  BY <1>1, FS_EmptySet
<1>4. ASSUME NEW n \in Nat, NEW s \in Small(S, n + 1), NEW x \in s
      PROVE  s \ {x} \in Small(S, n)
  <2>1. s \in SUBSET S /\ Cardinality(s) <= n + 1
    BY DEF Small
  <2>2. Cardinality(s \ {x}) <= n
    BY <1>1, <1>2, <2>1
  <2>3. QED
    BY <2>1, <2>2 DEF Small
<1>5. \A n \in Nat : Small(S, n) \subseteq Small(S, n + 1)
  BY <1>1 DEF Small
<1>6. Small(S, 0) = {{}}
  <2>1. \A s \in SUBSET S : Cardinality(s) <= 0 <=> s = {}
    BY <1>1, <1>3
  <2>2. QED
    BY <2>1 DEF Small
<1>7. SUBSET S \subseteq Small(S, Cardinality(S))
  BY <1>1 DEF Small
<1>8. \A n \in Nat : Small(S, n) \subseteq SUBSET S
  BY DEF Small
<1>9. QED
  BY <1>4, <1>5, <1>6, <1>7, <1>8, FS_CardinalityType

(* The equation has a solution, level by level. *)
LEMMA SumsExist ==
  ASSUME NEW S, IsFiniteSet(S), NEW f \in [S -> Int]
  PROVE  \E g \in [SUBSET S -> Int] : SumsOf(f, g)
<1> DEFINE Eq(g, s) == g[s] = IF s = {} THEN 0 ELSE f[Pick(s)] + g[s \ {Pick(s)}]
           T == {n \in Nat : \E g \in [Small(S, n) -> Int] : \A s \in Small(S, n) : Eq(g, s)}
<1>1. 0 \in T
  <2> DEFINE g == [s \in Small(S, 0) |-> 0]
  <2>1. g \in [Small(S, 0) -> Int]
    OBVIOUS
  <2>2. \A s \in Small(S, 0) : Eq(g, s)
    BY SmallFacts
  <2>3. QED
    BY <2>1, <2>2
<1>2. ASSUME NEW n \in Nat, n \in T
      PROVE  n + 1 \in T
  <2>1. PICK g \in [Small(S, n) -> Int] : \A s \in Small(S, n) : Eq(g, s)
    BY <1>2
  <2> DEFINE h == [s \in Small(S, n + 1) |->
                     IF s = {} THEN 0 ELSE f[Pick(s)] + g[s \ {Pick(s)}]]
  <2>2. \A s \in Small(S, n + 1) : s # {} =>
           s \ {Pick(s)} \in Small(S, n) /\ f[Pick(s)] \in Int /\ g[s \ {Pick(s)}] \in Int
    <3> SUFFICES ASSUME NEW s \in Small(S, n + 1), s # {}
                 PROVE  s \ {Pick(s)} \in Small(S, n) /\ f[Pick(s)] \in Int /\ g[s \ {Pick(s)}] \in Int
      OBVIOUS
    <3>1. Pick(s) \in s
      BY PickIn
    <3>2. Pick(s) \in S
      BY <3>1, SmallFacts
    <3>3. s \ {Pick(s)} \in Small(S, n)
      BY <3>1, SmallFacts
    <3>4. QED
      BY <3>2, <3>3
  <2>3. h \in [Small(S, n + 1) -> Int]
    <3>1. \A i, j \in Int : i + j \in Int
      OBVIOUS
    <3>2. \A s \in Small(S, n + 1) : s # {} => f[Pick(s)] + g[s \ {Pick(s)}] \in Int
      BY ONLY <2>2, <3>1
    <3>3. QED
      BY <3>2
  <2>4. \A s \in Small(S, n) : s \in Small(S, n + 1) /\ h[s] = g[s]
    BY <2>1, SmallFacts
  <2> HIDE DEF h
  <2>5. \A s \in Small(S, n + 1) : Eq(h, s)
    <3>1. \A s \in Small(S, n + 1) : h[s] = IF s = {} THEN 0 ELSE f[Pick(s)] + g[s \ {Pick(s)}]
      BY DEF h
    <3>2. QED
      BY <2>2, <2>4, <3>1
  <2>6. n + 1 \in Nat /\ \E i \in [Small(S, n + 1) -> Int] : \A s \in Small(S, n + 1) : Eq(i, s)
    <3> HIDE DEF Eq
    <3>1. QED
      BY <2>3, <2>5
  <2>7. QED
    BY <2>6
<1> HIDE DEF T
<1>3. Nat \subseteq T
  BY <1>1, <1>2, SetInduction
<1>4. Cardinality(S) \in T
  BY <1>3, SmallFacts
<1>5. Small(S, Cardinality(S)) = SUBSET S
  BY SmallFacts
<1>6. PICK g \in [SUBSET S -> Int] : \A s \in SUBSET S : Eq(g, s)
  BY <1>4, <1>5 DEF T
<1>7. SumsOf(f, g)
  BY <1>6 DEF SumsOf
<1>8. QED
  BY <1>7

(* Total is the sum over the whole domain. *)
LEMMA TotalSums ==
  ASSUME NEW S, IsFiniteSet(S), NEW f \in [S -> Int]
  PROVE  \E g : SumsOf(f, g) /\ Total(f) = g[S]
<1>1. PICK h : SumsOf(f, h)
  BY SumsExist
<1> DEFINE g == CHOOSE i : i = [s \in SUBSET S |-> IF s = {} THEN 0
                      ELSE f[CHOOSE x \in s : TRUE] + i[s \ {CHOOSE x \in s : TRUE}]]
<1>2. Total(f) = g[S]
  BY DEF Total, MapThenSumSet, MapThenFoldSet
<1>3. \E i : i = [s \in SUBSET S |-> IF s = {} THEN 0
                      ELSE f[CHOOSE x \in s : TRUE] + i[s \ {CHOOSE x \in s : TRUE}]]
  BY <1>1 DEF SumsOf, Pick
<1>4. g = [s \in SUBSET S |-> IF s = {} THEN 0
                      ELSE f[CHOOSE x \in s : TRUE] + g[s \ {CHOOSE x \in s : TRUE}]]
  BY <1>3
<1>5. QED
  BY <1>2, <1>4 DEF SumsOf, Pick

(* Any element can be taken out of a sum first. *)
LEMMA SumsTake ==
  ASSUME NEW S, IsFiniteSet(S), NEW f \in [S -> Int], NEW g, SumsOf(f, g)
  PROVE  g[S] \in Int /\ \A x \in S : g[S \ {x}] \in Int /\ g[S] = f[x] + g[S \ {x}]
<1> DEFINE Ok(s) == g[s] \in Int /\ \A x \in s : g[s] = f[x] + g[s \ {x}]
           T == {n \in Nat : \A s \in Small(S, n) : Ok(s)}
<1>1. /\ g[{}] = 0
      /\ \A s \in SUBSET S : s # {} => g[s] = f[Pick(s)] + g[s \ {Pick(s)}]
  BY DEF SumsOf
<1>2. Ok({}) /\ 0 \in T
  <2>1. Ok({})
    BY <1>1
  <2>2. \A s \in Small(S, 0) : s = {}
    BY SmallFacts
  <2> HIDE DEF Ok
  <2>3. QED
    BY <2>1, <2>2
<1>3. ASSUME NEW n \in Nat, n \in T
      PROVE  n + 1 \in T
  <2>1. \A s \in Small(S, n) : Ok(s)
    BY <1>3
  <2>2. ASSUME NEW s \in Small(S, n + 1), s # {}
        PROVE  Ok(s)
    <3> DEFINE p == Pick(s)
    <3>1. p \in s /\ s \in SUBSET S /\ f[p] \in Int
      BY <2>2, PickIn, SmallFacts
    <3> HIDE DEF p
    <3>2. \A x \in s : s \ {x} \in Small(S, n)
      BY SmallFacts
    <3>3. g[s] = f[p] + g[s \ {p}] /\ g[s \ {p}] \in Int
      BY <1>1, <2>1, <2>2, <3>1, <3>2 DEF p
    <3>4. g[s] \in Int
      BY <3>1, <3>3
    <3>5. ASSUME NEW x \in s, x # p
          PROVE  g[s] = f[x] + g[s \ {x}]
      <4>1. f[x] \in Int /\ x \in s \ {p} /\ p \in s \ {x}
        BY <3>1, <3>5
      <4>2. g[s \ {p}] = f[x] + g[(s \ {p}) \ {x}]
        BY <2>1, <3>1, <3>2, <4>1
      <4>3. g[s \ {x}] = f[p] + g[(s \ {x}) \ {p}] /\ g[s \ {x}] \in Int
        BY <2>1, <3>2, <4>1
      <4>4. (s \ {p}) \ {x} = (s \ {x}) \ {p}
        OBVIOUS
      <4>5. (s \ {p}) \ {x} \in SUBSET S /\ g[(s \ {p}) \ {x}] \in Int
        <5>1. (s \ {p}) \ {x} \in Small(S, n)
          <6>1. /\ (s \ {p}) \ {x} \in SUBSET S /\ IsFiniteSet(s \ {p})
                /\ s \ {p} \in SUBSET S /\ Cardinality(s \ {p}) <= n
            BY <3>1, <3>2, FS_Subset DEF Small
          <6>2. Cardinality((s \ {p}) \ {x}) <= Cardinality(s \ {p})
            BY <6>1, FS_Subset
          <6>3. Cardinality((s \ {p}) \ {x}) \in Nat /\ Cardinality(s \ {p}) \in Nat
            BY <6>1, FS_Subset, FS_CardinalityType
          <6>4. QED
            BY <6>1, <6>2, <6>3 DEF Small
        <5>2. QED
          BY <2>1, <5>1, SmallFacts
      <4>6. \A i, j, k \in Int : i + (j + k) = j + (i + k)
        OBVIOUS
      <4>7. g[s] = f[p] + (f[x] + g[(s \ {p}) \ {x}])
        BY <3>3, <4>2
      <4>8. f[x] + g[s \ {x}] = f[x] + (f[p] + g[(s \ {p}) \ {x}])
        BY <4>3, <4>4
      <4>9. QED
        BY ONLY <3>1, <4>1, <4>5, <4>6, <4>7, <4>8
    <3>6. QED
      BY <3>3, <3>4, <3>5
  <2>3. \A s \in Small(S, n + 1) : Ok(s)
    <3> HIDE DEF Ok
    <3>1. QED
      BY <1>2, <2>2
  <2>4. QED
    BY <2>3
<1> HIDE DEF T
<1>4. Nat \subseteq T
  BY <1>2, <1>3, SetInduction
<1>5. Cardinality(S) \in T
  BY <1>4, SmallFacts
<1>6. \A s \in SUBSET S : Ok(s)
  BY <1>5, SmallFacts DEF T
<1>7. Ok(S) /\ \A x \in S : Ok(S \ {x})
  <2> HIDE DEF Ok
  <2>1. QED
    BY <1>6
<1>8. QED
  BY <1>7

(* A sum depends on the values it adds only. *)
LEMMA SumsAgree ==
  ASSUME NEW S, NEW R, NEW f \in [S -> Int], NEW e \in [R -> Int],
         NEW g, SumsOf(f, g), NEW h, SumsOf(e, h),
         NEW t, IsFiniteSet(t), t \subseteq S, t \subseteq R, \A x \in t : f[x] = e[x]
  PROVE  g[t] = h[t]
<1> DEFINE T == {n \in Nat : \A s \in Small(t, n) : g[s] = h[s]}
<1>1. /\ g[{}] = 0 /\ h[{}] = 0
      /\ \A s \in SUBSET t : s # {} => /\ g[s] = f[Pick(s)] + g[s \ {Pick(s)}]
                                       /\ h[s] = e[Pick(s)] + h[s \ {Pick(s)}]
  BY DEF SumsOf
<1>2. 0 \in T
  <2>1. \A s \in Small(t, 0) : s = {}
    BY SmallFacts
  <2>2. QED
    BY <1>1, <2>1
<1>3. ASSUME NEW n \in Nat, n \in T
      PROVE  n + 1 \in T
  <2>1. ASSUME NEW s \in Small(t, n + 1), s # {}
        PROVE  g[s] = h[s]
    <3>1. Pick(s) \in s /\ s \in SUBSET t
      BY <2>1, PickIn, SmallFacts
    <3>2. s \ {Pick(s)} \in Small(t, n)
      BY <3>1, SmallFacts
    <3>3. g[s \ {Pick(s)}] = h[s \ {Pick(s)}] /\ f[Pick(s)] = e[Pick(s)]
      BY <1>3, <3>1, <3>2
    <3>4. QED
      BY <1>1, <2>1, <3>1, <3>3
  <2>2. \A s \in Small(t, n + 1) : g[s] = h[s]
    BY <1>1, <2>1
  <2>3. QED
    BY <2>2
<1> HIDE DEF T
<1>4. Nat \subseteq T
  BY <1>2, <1>3, SetInduction
<1>5. Cardinality(t) \in T
  BY <1>4, SmallFacts
<1>6. QED
  BY <1>5, SmallFacts DEF T

(* A total is an integer; changing one value changes it by the difference. *)
LEMMA TotalUpdate ==
  ASSUME NEW S, IsFiniteSet(S), NEW f \in [S -> Int], NEW x \in S, NEW v \in Int
  PROVE  /\ Total(f) \in Int
         /\ Total([f EXCEPT ![x] = v]) = (Total(f) - f[x]) + v
<1> DEFINE e == [f EXCEPT ![x] = v]
<1>1. e \in [S -> Int] /\ e[x] = v /\ \A y \in S \ {x} : e[y] = f[y]
  OBVIOUS
<1> HIDE DEF e
<1>2. PICK g : SumsOf(f, g) /\ Total(f) = g[S]
  BY TotalSums
<1>3. PICK h : SumsOf(e, h) /\ Total(e) = h[S]
  BY <1>1, TotalSums
<1>4. g[S \ {x}] = h[S \ {x}]
  BY <1>1, <1>2, <1>3, SumsAgree, FS_Subset
<1>5. g[S] \in Int /\ g[S] = f[x] + g[S \ {x}] /\ g[S \ {x}] \in Int
  BY <1>2, SumsTake
<1>6. h[S] = v + h[S \ {x}]
  <2>1. e \in [S -> Int] /\ SumsOf(e, h)
    BY <1>1, <1>3
  <2>2. h[S] = e[x] + h[S \ {x}]
    BY <2>1, SumsTake
  <2>3. QED
    BY <1>1, <2>2
<1>7. f[x] \in Int
  OBVIOUS
<1>8. QED
  BY <1>2, <1>3, <1>4, <1>5, <1>6, <1>7 DEF e

(* One more value adds to the total. *)
LEMMA TotalExtend ==
  ASSUME NEW S, IsFiniteSet(S), NEW f \in [S -> Int], NEW x, x \notin S,
         NEW e \in [S \union {x} -> Int], \A y \in S : e[y] = f[y]
  PROVE  Total(e) = Total(f) + e[x] /\ Total(f) \in Int
<1> DEFINE R == S \union {x}
<1>1. IsFiniteSet(R) /\ R \ {x} = S /\ x \in R /\ e \in [R -> Int]
  BY FS_AddElement
<1>2. PICK g : SumsOf(f, g) /\ Total(f) = g[S]
  BY TotalSums
<1>3. PICK h : SumsOf(e, h) /\ Total(e) = h[R]
  BY <1>1, TotalSums
<1>4. g[S] = h[S]
  BY <1>1, <1>2, <1>3, SumsAgree
<1> HIDE DEF R
<1>5. h[R] = e[x] + h[R \ {x}]
  <2>1. IsFiniteSet(R) /\ e \in [R -> Int] /\ SumsOf(e, h) /\ x \in R
    BY <1>1, <1>3
  <2>2. \A y \in R : h[R \ {y}] \in Int /\ h[R] = e[y] + h[R \ {y}]
    BY ONLY <2>1, SumsTake
  <2>3. QED
    BY <2>1, <2>2
<1>6. e[x] \in Int /\ g[S] \in Int
  BY <1>1, <1>2, SumsTake
<1>7. Total(e) = e[x] + g[S]
  BY <1>1, <1>3, <1>4, <1>5
<1>8. QED
  BY ONLY <1>2, <1>6, <1>7

(* Crediting an account adds to the total. *)
LEMMA TotalCredit ==
  ASSUME NEW w \in [Account -> Nat], NEW x \in Account, NEW n \in Nat
  PROVE  Total(Credit(w, x, n)) = Total(w) + n /\ Total(w) \in Int
<1> DEFINE v == w[x] + n
<1>1. IsFiniteSet(Account) /\ w \in [Account -> Int] /\ w[x] \in Int /\ v \in Int
  BY EscrowAssumption
<1>2. Credit(w, x, n) = [w EXCEPT ![x] = v]
  BY DEF Credit
<1>3. v = w[x] + n
  OBVIOUS
<1> HIDE DEF v
<1>4. Total(w) \in Int /\ Total([w EXCEPT ![x] = v]) = (Total(w) - w[x]) + v
  BY <1>1, TotalUpdate
<1>5. QED
  BY <1>1, <1>2, <1>3, <1>4

(* What is escrowed is taken from the sender, whatever the coin was worth. *)
LEMMA SendConserves ==
  ASSUME IInv, Balanced,
         NEW sender \in Account, NEW recipient \in Account,
         NEW payment \in Nat, NEW amount \in Nat,
         NEW key \in Key, NEW nonce \in Nonce,
         send_paid_message(sender, recipient, payment, amount, key, nonce)
  PROVE  Balanced'
<1>1. /\ wallet \in [Account -> Nat] /\ wallet[sender] \in Nat
      /\ amount <= payment /\ payment <= wallet[sender]
  BY DEF IInv, TypeOK, send_paid_message, CoinCovers
<1> DEFINE v == wallet[sender] - amount
<1>2. wallet' = [wallet EXCEPT ![sender] = v] /\ v \in Int /\ v = wallet[sender] - amount
  <2>1. wallet' = Credit(Debit(wallet, sender, payment), sender, payment - amount)
    BY DEF send_paid_message
  <2>2. Debit(wallet, sender, payment) = [wallet EXCEPT ![sender] = wallet[sender] - payment]
    BY DEF Debit
  <2>3. wallet' = [wallet EXCEPT ![sender] = (wallet[sender] - payment) + (payment - amount)]
    BY <1>1, <2>1, <2>2 DEF Credit
  <2>4. (wallet[sender] - payment) + (payment - amount) = v
    BY <1>1
  <2>5. v \in Int /\ v = wallet[sender] - amount
    BY <1>1
  <2> HIDE DEF v
  <2>6. QED
    BY <2>3, <2>4, <2>5
<1> HIDE DEF v
<1>3. Total(wallet) \in Int /\ Total(wallet') = Total(wallet) - amount
  <2>1. IsFiniteSet(Account) /\ wallet \in [Account -> Int]
    BY <1>1, EscrowAssumption
  <2>2. /\ Total(wallet) \in Int
        /\ Total([wallet EXCEPT ![sender] = v]) = (Total(wallet) - wallet[sender]) + v
    BY <1>2, <2>1, TotalUpdate
  <2>3. QED
    BY <1>1, <1>2, <2>2
<1>4. /\ next_seq \in Nat /\ next_seq \notin Seqs
      /\ Seqs' = 0..next_seq /\ Seqs' = Seqs \union {next_seq} /\ IsFiniteSet(Seqs)
  <2>1. next_seq \in Nat /\ next_seq' = next_seq + 1
    BY DEF IInv, TypeOK, send_paid_message
  <2>2. 0 \in Int /\ next_seq - 1 \in Int
    BY <2>1
  <2>3. IsFiniteSet(Seqs)
    BY <2>2, FS_Interval DEF Seqs
  <2>4. QED
    BY <2>1, <2>3 DEF Seqs
<1>5. paid_msg_escrow' = [i \in Seqs' |-> IF i = next_seq
                                           THEN NewEscrow(sender, recipient, amount)
                                           ELSE paid_msg_escrow[i]]
  BY <1>4 DEF send_paid_message, Extend
<1>6. NewEscrow(sender, recipient, amount).escrowed_balance = amount
  BY DEF NewEscrow
<1>7. /\ Held' = [i \in Seqs' |-> IF i = next_seq THEN amount ELSE Held[i]]
      /\ Held \in [Seqs -> Int]
  <2>1. Held \in [Seqs -> Int]
    BY DEF Held, IInv, TypeOK, Escrow
  <2>2. \A i \in Seqs' : i = next_seq \/ i \in Seqs
    BY <1>4
  <2>3. Held' = [i \in Seqs' |-> paid_msg_escrow'[i].escrowed_balance]
    BY DEF Held
  <2>4. \A i \in Seqs' : paid_msg_escrow'[i].escrowed_balance
                           = IF i = next_seq THEN amount ELSE Held[i]
    BY <1>5, <1>6, <2>2 DEF Held
  <2>5. QED
    BY <2>1, <2>3, <2>4
<1>8. Total(Held) \in Int /\ Total(Held') = Total(Held) + amount
  <2>1. /\ Held' \in [Seqs \union {next_seq} -> Int] /\ Held'[next_seq] = amount
        /\ \A i \in Seqs : Held'[i] = Held[i]
    BY <1>4, <1>7
  <2>2. Total(Held') = Total(Held) + Held'[next_seq] /\ Total(Held) \in Int
    <3>1. IsFiniteSet(Seqs) /\ Held \in [Seqs -> Int] /\ next_seq \notin Seqs
      BY <1>4, <1>7
    <3>2. QED
      BY <2>1, <3>1, TotalExtend
  <2>3. QED
    BY <2>1, <2>2
<1>9. QED
  BY <1>3, <1>8 DEF Balanced

(* Draining an escrow takes out all it holds. *)
LEMMA DrainTakesAll ==
  ASSUME IInv, NEW seq \in Seqs, NEW event, Drain(seq, event)
  PROVE  /\ Total(Held) \in Int
         /\ Total(Held') = Total(Held) - paid_msg_escrow[seq].escrowed_balance
<1>1. Seqs' = Seqs /\ IsFiniteSet(Seqs)
  BY FS_Interval DEF Drain, Seqs, IInv, TypeOK
<1>2. Held \in [Seqs -> Int] /\ Held[seq] = paid_msg_escrow[seq].escrowed_balance
  BY DEF Held, IInv, TypeOK, Escrow
<1>3. Held' = [Held EXCEPT ![seq] = 0]
  BY <1>1 DEF Held, Drain, Emptied, IInv, TypeOK, Escrow
<1>4. Total(Held) \in Int /\ Total(Held') = (Total(Held) - Held[seq]) + 0
  <2>1. IsFiniteSet(Seqs) /\ Held \in [Seqs -> Int] /\ 0 \in Int
    BY <1>1, <1>2
  <2>2. Total(Held) \in Int /\ Total([Held EXCEPT ![seq] = 0]) = (Total(Held) - Held[seq]) + 0
    BY <2>1, TotalUpdate
  <2>3. QED
    BY <1>3, <2>2
<1>5. QED
  BY <1>2, <1>4

(* A payout credits what the escrow held, split or not. *)
LEMMA PayoutConserves ==
  ASSUME IInv, Balanced, NEW seq \in Seqs, NEW event, Drain(seq, event),
         Total(wallet') = Total(wallet) + paid_msg_escrow[seq].escrowed_balance,
         Total(wallet) \in Int
  PROVE  Balanced'
<1>1. paid_msg_escrow[seq].escrowed_balance \in Nat
  BY DEF IInv, TypeOK, Escrow
<1>2. QED
  BY <1>1, DrainTakesAll DEF Balanced

(* The two floored fees and the net amount are the whole escrow. *)
LEMMA SettleCredits ==
  ASSUME NEW w \in [Account -> Nat], NEW n \in Nat,
         NEW p \in Account, NEW t \in Account, NEW r \in Account
  PROVE  /\ Total(distribute_escrow_to_recipients(w, n, p, t, r)) = Total(w) + n
         /\ Total(w) \in Int
<1> DEFINE u == Credit(w, p, Fee(n))
           v == Credit(u, t, Fee(n))
<1>1. Fee(n) \in Nat /\ Net(n) \in Nat /\ Fee(n) + Fee(n) + Net(n) = n
  <2>1. Fee(n) \in Nat /\ Net(n) \in Nat
    BY FeeBound
  <2>2. Net(n) = (n - Fee(n)) - Fee(n)
    BY DEF Net
  <2>3. QED
    BY <2>1, <2>2
<1>2. u \in [Account -> Nat] /\ Total(u) = Total(w) + Fee(n) /\ Total(w) \in Int
  BY <1>1, TotalCredit, CreditType
<1> HIDE DEF u
<1>3. v \in [Account -> Nat] /\ Total(v) = Total(u) + Fee(n)
  BY <1>1, <1>2, TotalCredit, CreditType
<1> HIDE DEF v
<1>4. Total(Credit(v, r, Net(n))) = Total(v) + Net(n)
  BY <1>1, <1>3, TotalCredit
<1>5. distribute_escrow_to_recipients(w, n, p, t, r) = Credit(v, r, Net(n))
  BY DEF distribute_escrow_to_recipients, u, v
<1>6. QED
  BY <1>1, <1>2, <1>3, <1>4, <1>5

(* Every transaction conserves MYSO. *)
LEMMA NextConserves == IInv /\ Balanced /\ [Next]_vars => Balanced'
<1> SUFFICES ASSUME IInv, Balanced, [Next]_vars PROVE Balanced'
  OBVIOUS
<1>1. wallet \in [Account -> Nat] /\ \A seq \in Seqs : paid_msg_escrow[seq] \in Escrow
  BY DEF IInv, TypeOK
<1>2. CASE Send
  <2>1. PICK sender \in Account, recipient \in Recipient, payment \in Amount,
             amount \in Amount, key \in Key, nonce \in Nonce :
          send_paid_message(sender, recipient, payment, amount, key, nonce)
    BY <1>2, EscrowAssumption
    DEF Send, send_paid_message_digest, send_agent_paid_message_digest
  <2>2. recipient \in Account /\ payment \in Nat /\ amount \in Nat
    BY EscrowAssumption
  <2>3. QED
    BY <2>1, <2>2, SendConserves
<1>3. CASE Reply
  <2>1. PICK caller \in Account, seq \in Seqs, key \in Key, nonce \in Nonce,
             char_count \in {MinReplyChars - 1, MinReplyChars} :
          \/ reply_to_paid_message_claim_coin(caller, seq, char_count, key, nonce)
          \/ \E platform, ecosystem \in FeeAccount :
               reply_to_paid_message_claim_settled(
                 caller, seq, char_count, key, nonce, platform, ecosystem)
    BY <1>3 DEF Reply
  <2> DEFINE held == paid_msg_escrow[seq].escrowed_balance
  <2>2. held \in Nat /\ paid_msg_escrow[seq].recipient \in Account
    BY <1>1 DEF Escrow
  <2>3. CASE reply_to_paid_message_claim_coin(caller, seq, char_count, key, nonce)
    <3>1. Drain(seq, "claimed") /\ wallet' = Credit(wallet, caller, held)
      BY <2>3 DEF reply_to_paid_message_claim_coin
    <3>2. Total(wallet') = Total(wallet) + held /\ Total(wallet) \in Int
      BY <1>1, <2>2, <3>1, TotalCredit
    <3>3. QED
      BY <3>1, <3>2, PayoutConserves
  <2>4. ASSUME NEW platform \in FeeAccount, NEW ecosystem \in FeeAccount,
               reply_to_paid_message_claim_settled(
                 caller, seq, char_count, key, nonce, platform, ecosystem)
        PROVE  Balanced'
    <3>1. /\ Drain(seq, "settled")
          /\ wallet' = distribute_escrow_to_recipients(wallet, held, platform, ecosystem,
                                                      paid_msg_escrow[seq].recipient)
      BY <2>4 DEF reply_to_paid_message_claim_settled
    <3>2. platform \in Account /\ ecosystem \in Account
      BY EscrowAssumption
    <3>3. Total(wallet') = Total(wallet) + held /\ Total(wallet) \in Int
      BY <1>1, <2>2, <3>1, <3>2, SettleCredits
    <3>4. QED
      BY <3>1, <3>3, PayoutConserves
  <2>5. QED
    BY <2>1, <2>3, <2>4
<1>4. CASE Refund
  <2>1. PICK caller \in Account, seq \in Seqs : refund_paid_escrow(caller, seq)
    BY <1>4 DEF Refund
  <2> DEFINE held == paid_msg_escrow[seq].escrowed_balance
  <2>2. Drain(seq, "refunded") /\ wallet' = Credit(wallet, caller, held)
    BY <2>1 DEF refund_paid_escrow
  <2>3. held \in Nat
    BY <1>1 DEF Escrow
  <2>4. Total(wallet') = Total(wallet) + held /\ Total(wallet) \in Int
    BY <1>1, <2>2, <2>3, TotalCredit
  <2>5. QED
    BY <2>2, <2>4, PayoutConserves
<1>5. CASE Environment \/ UNCHANGED vars
  <2>1. wallet' = wallet /\ next_seq' = next_seq /\ paid_msg_escrow' = paid_msg_escrow
    BY <1>5 DEF Environment, set_paid_messaging_policy, archive_group, SetConversationKind,
                GrantOrRevokeSender, BlockOrUnblock, FollowOrUnfollow, Tick, vars, logVars
  <2>2. Held' = Held
    BY <2>1 DEF Held, Seqs
  <2>3. QED
    BY <2>1, <2>2 DEF Balanced
<1>6. QED
  BY <1>2, <1>3, <1>4, <1>5 DEF Next

(* No transaction creates or destroys MYSO, for any accounts, amounts and  *)
(* fee rate: wallets and escrows always add up to the genesis supply.      *)
THEOREM Conserved == Spec => []Conservation
<1>1. Init => Balanced
  <2> SUFFICES ASSUME Init PROVE Balanced
    OBVIOUS
  <2>1. wallet = Genesis /\ Seqs = {} /\ Held \in [{} -> Int]
    BY DEF Init, Seqs, Held
  <2>2. Total(Held) = 0
    <3>1. PICK g : SumsOf(Held, g) /\ Total(Held) = g[{}]
      BY <2>1, TotalSums, FS_EmptySet
    <3>2. QED
      BY <2>1, <3>1 DEF SumsOf
  <2>3. Total(wallet) \in Int
    <3>1. Genesis \in [Account -> Nat] /\ Creator \in Account /\ 0 \in Nat
      BY EscrowAssumption
    <3>2. QED
      BY <2>1, <3>1, TotalCredit
  <2>4. QED
    BY <2>1, <2>2, <2>3 DEF Balanced
<1>2. IInv /\ Balanced /\ [Next]_vars => Balanced'
  BY NextConserves
<1>3. IInv /\ Balanced => Conservation
  BY DEF IInv, Conservation
<1>4. QED
  BY <1>1, <1>2, <1>3, Invariance, PTL DEF Spec

-----------------------------------------------------------------------------
(* Payment requests. *)

(* The handler of t's message has yet to mark the request. *)
Marking(t) == \E p \in posts : p.tx = t /\ p.at = "mark" /\ p.link

(* A linked message has marked the request, will, failed, or lost it. *)
LinkedOK ==
  \A t \in linked : request.by = t \/ Marking(t) \/ t \in unsettled \/ row[t] = "failed"

(* An attempt past its verdict is one of a failed transfer, and the        *)
(* request it is about to open again is the one that transfer paid.        *)
AttemptsOK ==
  \A a \in resolving :
    /\ a.at # "apply" => row[a.tx] = "failed" /\ a.verdict = "failed"
    /\ a.at = "reopen" => request.by = a.tx

(* The inductive invariant. *)
PaymentsInv == PaymentsTypeOK /\ LinkedOK /\ AttemptsOK

(* Nothing exists at first. *)
LEMMA PaymentsInitInv == PaymentsInit => PaymentsInv
  BY PaymentsAssumption
     DEF PaymentsInit, PaymentsInv, PaymentsTypeOK, LinkedOK, AttemptsOK, NoTx, Tx

(* Steps that leave messages, links and attempts alone, keep the posts     *)
(* that have yet to mark, and do not take the request from its payer.      *)
LEMMA FrameInv ==
  ASSUME PaymentsInv, PaymentsTypeOK', UNCHANGED <<row, linked, resolving, unsettled>>,
         \A t \in Tx : Marking(t) => Marking(t)',
         request.by # NoTx => request'.by = request.by
  PROVE  PaymentsInv'
<1>1. \A t \in Tx : t # NoTx
  BY DEF Tx, NoTx
<1>2. LinkedOK'
  BY <1>1 DEF PaymentsInv, LinkedOK, PaymentsTypeOK
<1>3. AttemptsOK'
  BY <1>1 DEF PaymentsInv, AttemptsOK, PaymentsTypeOK, Attempt
<1>4. QED
  BY <1>2, <1>3 DEF PaymentsInv

(* The request is made, rejected or cancelled. *)
LEMMA RequestInv ==
  ASSUME PaymentsInv, sendPaymentRequest \/ respondToPaymentRequest
  PROVE  PaymentsInv'
<1>1. /\ UNCHANGED <<txs, chain, accepting, wants, pending, busy, posts, row, linked, resolving, unsettled,
                     stranded, faults>>
  BY DEF sendPaymentRequest, respondToPaymentRequest, clientVars
<1>2. /\ request.by = NoTx /\ request'.by = NoTx /\ request'.st # "paid"
      /\ request' \in [st : {"none", "open", "paid", "rejected", "cancelled"}, by : 0..MaxTx]
  BY DEF sendPaymentRequest, respondToPaymentRequest, PaymentsInv, PaymentsTypeOK
<1>3. PaymentsTypeOK'
  BY <1>1, <1>2 DEF PaymentsInv, PaymentsTypeOK
<1>4. QED
  BY <1>1, <1>2, <1>3, FrameInv DEF Marking

(* A transfer is submitted. *)
LEMMA SubmitInv ==
  ASSUME PaymentsInv, NEW settles \in BOOLEAN,
         DigestLost(settles) \/ \E out \in {"ok", "bad"} : sendTokenTransfer(out, settles)
  PROVE  PaymentsInv'
<1>1. UNCHANGED <<accepting, posts, row, linked, request, resolving, unsettled, stranded>>
  BY DEF DigestLost, sendTokenTransfer
<1>2. PICK out \in {"ok", "bad"} :
        /\ txs < MaxTx /\ txs' = txs + 1 /\ chain' = [chain EXCEPT ![txs + 1] = out]
        /\ wants' = wants \cup {txs + 1} \/ wants' = wants
  BY Zenon DEF DigestLost, sendTokenTransfer, Submitted
<1>3. /\ busy' = busy \/ busy' = txs + 1
      /\ pending' = pending \/ pending' = pending \cup {txs + 1}
      /\ faults' = faults \/ Fault
  BY Zenon DEF DigestLost, sendTokenTransfer
<1>4. txs + 1 \in Tx /\ txs + 1 \in 0..MaxTx
  BY <1>2, PaymentsAssumption DEF PaymentsInv, PaymentsTypeOK, Tx
<1>5. PaymentsTypeOK'
  BY <1>1, <1>2, <1>3, <1>4, PaymentsAssumption DEF PaymentsInv, PaymentsTypeOK, Fault
<1>6. QED
  BY <1>1, <1>5, FrameInv DEF Marking

(* The conversation is closed to the payer, or opened again. *)
LEMMA AccessInv ==
  ASSUME PaymentsInv, AccessChanges
  PROVE  PaymentsInv'
<1>1. /\ UNCHANGED <<txs, chain, wants, pending, busy, posts, row, linked, request, resolving,
                     unsettled, stranded>>
      /\ faults' = faults \/ Fault
  BY DEF AccessChanges
<1>2. accepting' \in BOOLEAN
  BY Zenon DEF AccessChanges
<1>3. PaymentsTypeOK'
  BY <1>1, <1>2, PaymentsAssumption DEF PaymentsInv, PaymentsTypeOK, Fault
<1>4. QED
  BY <1>1, <1>3, FrameInv DEF Marking

(* The client's side of a post: it is made, answered, refused, or not      *)
(* waited for any more.                                                    *)
LEMMA PostInv ==
  ASSUME PaymentsInv,
         \/ \E t \in Tx : postTransferMessage(t)
         \/ \E p \in posts : Answered(p) \/ Refused(p) \/ AnswerLost(p)
         \/ GiveUp
  PROVE  PaymentsInv'
<1>0. PaymentsTypeOK
  BY DEF PaymentsInv
<1>1. UNCHANGED <<txs, chain, accepting, wants, row, linked, request, resolving, unsettled, stranded>>
  BY DEF postTransferMessage, Answered, Refused, AnswerLost, GiveUp, clientVars
<1>2. pending' \subseteq pending /\ busy' \in {busy, NoTx} /\ (faults' = faults \/ Fault)
  BY DEF postTransferMessage, Answered, Refused, AnswerLost, GiveUp, clientVars
<1>3. posts' \subseteq Post /\ \A t \in Tx : Marking(t) => Marking(t)'
  <2>1. ASSUME NEW t \in Tx, postTransferMessage(t) PROVE <1>3
    <3> DEFINE n(l) == [tx |-> t, at |-> "check", link |-> l, heard |-> TRUE]
    <3>1. posts' = posts \cup {n(t \in wants)}
      BY <2>1 DEF postTransferMessage
    <3>2. (t \in wants) = TRUE \/ (t \in wants) = FALSE
      OBVIOUS
    <3>3. n(t \in wants) \in Post
      <4>1. n(TRUE) \in Post /\ n(FALSE) \in Post
        BY DEF Post
      <4> HIDE DEF n
      <4>2. QED
        BY <3>2, <4>1, Zenon
    <3> HIDE DEF n
    <3>4. QED
      BY <1>0, <3>1, <3>3, Zenon DEF PaymentsTypeOK, Marking
  <2>2. ASSUME NEW p \in posts, Answered(p) \/ Refused(p) PROVE <1>3
    BY <1>0, <2>2 DEF PaymentsTypeOK, Answered, Refused, Marking
  <2>3. ASSUME NEW p \in posts, AnswerLost(p) PROVE <1>3
    <3> DEFINE n == [p EXCEPT !.heard = FALSE]
    <3>1. p \in Post
      BY <1>0 DEF PaymentsTypeOK
    <3>2. n \in Post /\ n.tx = p.tx /\ n.at = p.at /\ n.link = p.link
      BY <3>1 DEF Post
    <3>3. posts' = (posts \ {p}) \cup {n}
      BY <2>3 DEF AnswerLost
    <3> HIDE DEF n
    <3>4. QED
      BY <1>0, <3>2, <3>3, Zenon DEF PaymentsTypeOK, Marking
  <2>4. ASSUME GiveUp PROVE <1>3
    <3> DEFINE n(p) == [p EXCEPT !.heard = FALSE]
    <3>1. \A p \in posts : n(p) \in Post /\ n(p).tx = p.tx /\ n(p).at = p.at /\ n(p).link = p.link
      BY <1>0 DEF PaymentsTypeOK, Post
    <3>2. posts' = {n(p) : p \in posts}
      BY <2>4 DEF GiveUp
    <3> HIDE DEF n
    <3>3. QED
      BY <3>1, <3>2, Zenon DEF Marking
  <2>5. QED
    BY <2>1, <2>2, <2>3, <2>4
<1>4. PaymentsTypeOK'
  BY <1>0, <1>1, <1>2, <1>3, PaymentsAssumption DEF PaymentsTypeOK, NoTx, Fault
<1>5. QED
  BY <1>1, <1>3, <1>4, FrameInv

(* A post that is moved on stays a post and keeps its transfer. *)
LEMMA MovePost ==
  ASSUME PaymentsTypeOK, NEW p \in posts, NEW to \in {"check", "create", "mark", "done"},
         NEW link \in BOOLEAN, posts' = Move(p, to, link)
  PROVE  /\ posts' \subseteq Post
         /\ \A t \in Tx : Marking(t) => Marking(t)' \/ (t = p.tx /\ p.at = "mark" /\ p.link)
         /\ to = "mark" /\ link => Marking(p.tx)'
<1> DEFINE n == [p EXCEPT !.at = to, !.link = link]
<1>1. p \in Post
  BY DEF PaymentsTypeOK
<1>2. n \in Post /\ n.tx = p.tx /\ n.at = to /\ n.link = link
  BY <1>1 DEF Post
<1>3. posts' = (posts \ {p}) \cup {n}
  BY DEF Move
<1> HIDE DEF n
<1>4. QED
  BY <1>2, <1>3, Zenon DEF PaymentsTypeOK, Marking

(* The relayer's handler of a post. *)
LEMMA HandlerInv ==
  ASSUME PaymentsInv, NEW p \in posts,
         \/ request_link_is_valid(p) \/ create_message(p)
         \/ mark_request_paid(p) \/ mark_write_fails(p)
  PROVE  PaymentsInv'
<1>0. PaymentsTypeOK /\ LinkedOK /\ AttemptsOK /\ p \in Post /\ p.tx \in Tx /\ p.link \in BOOLEAN
      /\ p.tx # NoTx /\ p.tx \in 0..MaxTx
  BY PaymentsAssumption DEF PaymentsInv, PaymentsTypeOK, Post, Tx, NoTx
<1>1. CASE request_link_is_valid(p)
  <2>1. p.at = "check" /\ posts' = Move(p, "create", p.link /\ request.st = "open")
    BY <1>1 DEF request_link_is_valid
  <2>2. (p.link /\ request.st = "open") \in BOOLEAN
    BY Zenon
  <2>3. posts' \subseteq Post /\ \A t \in Tx : Marking(t) => Marking(t)'
    BY <1>0, <2>1, <2>2, MovePost
  <2>4. UNCHANGED <<txs, chain, accepting, wants, pending, busy, row, linked, request, resolving, unsettled,
                    stranded, faults>>
    BY <1>1 DEF request_link_is_valid, clientVars
  <2>5. PaymentsTypeOK'
    BY <1>0, <2>3, <2>4 DEF PaymentsTypeOK
  <2>6. QED
    BY <2>3, <2>4, <2>5, FrameInv
<1>2. CASE create_message(p) /\ row[p.tx] = "none"
  <2>1. /\ p.at = "create" /\ posts' = Move(p, "mark", p.link)
        /\ row' = [row EXCEPT ![p.tx] = "pending"]
        /\ linked' = IF p.link THEN linked \cup {p.tx} ELSE linked
        /\ UNCHANGED <<txs, chain, accepting, wants, pending, busy, request, resolving, unsettled, stranded, faults>>
    BY <1>2 DEF create_message, clientVars
  <2>2. posts' \subseteq Post /\ (\A t \in Tx : Marking(t) => Marking(t)')
        /\ (p.link => Marking(p.tx)')
    BY <1>0, <2>1, MovePost
  <2>3. /\ row' \in [Tx -> {"none", "pending", "success", "failed"}]
        /\ row'[p.tx] = "pending" /\ \A t \in Tx \ {p.tx} : row'[t] = row[t]
    BY <1>0, <2>1 DEF PaymentsTypeOK
  <2>4. linked \subseteq Tx /\ linked' \subseteq linked \cup {p.tx} /\ (p.tx \in linked' => p.link)
    BY <1>0, <1>2, <2>1 DEF PaymentsTypeOK
  <2>5. PaymentsTypeOK'
    BY <1>0, <2>1, <2>2, <2>3, <2>4 DEF PaymentsTypeOK
  <2>6. LinkedOK'
    BY <1>0, <2>1, <2>2, <2>3, <2>4 DEF LinkedOK
  <2>7. AttemptsOK'
    BY <1>0, <1>2, <2>1, <2>3 DEF AttemptsOK, PaymentsTypeOK, Attempt
  <2>8. QED
    BY <2>5, <2>6, <2>7 DEF PaymentsInv
<1>3. CASE create_message(p) /\ row[p.tx] # "none"
  <2>1. /\ p.at = "create" /\ posts' = Move(p, "done", p.link)
        /\ UNCHANGED <<txs, chain, accepting, wants, pending, busy, row, linked, request, resolving, unsettled,
                       stranded, faults>>
    BY <1>3 DEF create_message, clientVars
  <2>2. posts' \subseteq Post /\ \A t \in Tx : Marking(t) => Marking(t)'
    BY <1>0, <2>1, MovePost
  <2>3. PaymentsTypeOK'
    BY <1>0, <2>1, <2>2 DEF PaymentsTypeOK
  <2>4. QED
    BY <2>1, <2>2, <2>3, FrameInv
<1>4. CASE mark_request_paid(p) \/ mark_write_fails(p)
  <2>1. /\ p.at = "mark" /\ posts' = Move(p, "done", p.link)
        /\ UNCHANGED <<txs, chain, accepting, wants, pending, busy, row, linked, resolving>>
        /\ faults' = faults \/ Fault
        /\ stranded' \subseteq stranded \cup {p.tx}
    BY <1>4 DEF mark_request_paid, mark_write_fails, clientVars
  <2>2. /\ \/ request' = request
           \/ request.st = "open" /\ request' = [st |-> "paid", by |-> p.tx]
        /\ unsettled \subseteq unsettled' /\ unsettled' \subseteq unsettled \cup {p.tx}
        /\ p.link => request'.by = p.tx \/ p.tx \in unsettled'
    BY <1>4 DEF mark_request_paid, mark_write_fails
  <2>3. /\ posts' \subseteq Post
        /\ \A t \in Tx : Marking(t) => Marking(t)' \/ (t = p.tx /\ p.at = "mark" /\ p.link)
    BY <1>0, <2>1, MovePost
  <2>4. /\ request' \in [st : {"none", "open", "paid", "rejected", "cancelled"}, by : 0..MaxTx]
        /\ request'.by # NoTx <=> request'.st = "paid"
        /\ request.by # NoTx => request'.by = request.by
    BY <1>0, <2>2 DEF PaymentsTypeOK
  <2>5. PaymentsTypeOK'
    BY <1>0, <2>1, <2>2, <2>3, <2>4, PaymentsAssumption DEF PaymentsTypeOK, Fault
  <2>6. LinkedOK'
    <3> SUFFICES ASSUME NEW t \in linked
                 PROVE  request'.by = t \/ Marking(t)' \/ t \in unsettled' \/ row[t] = "failed"
      BY <2>1 DEF LinkedOK
    <3>1. t \in Tx /\ t # NoTx
      BY <1>0 DEF PaymentsTypeOK, Tx, NoTx
    <3>2. request.by = t \/ Marking(t) \/ t \in unsettled \/ row[t] = "failed"
      BY <1>0 DEF LinkedOK
    <3>3. QED
      BY <2>2, <2>3, <2>4, <3>1, <3>2
  <2>7. AttemptsOK'
    BY <1>0, <2>1, <2>4 DEF AttemptsOK, PaymentsTypeOK, Attempt, Tx, NoTx
  <2>8. QED
    BY <2>5, <2>6, <2>7 DEF PaymentsInv
<1>5. QED
  BY <1>1, <1>2, <1>3, <1>4

(* A verdict is found, and applied if the message is still pending. *)
LEMMA VerdictInv ==
  ASSUME PaymentsInv,
         (\E t \in Tx : resolve_once(t)) \/ (\E a \in resolving : apply_verdict(a))
  PROVE  PaymentsInv'
<1>0. PaymentsTypeOK /\ LinkedOK /\ AttemptsOK
  BY DEF PaymentsInv
<1>1. UNCHANGED <<txs, chain, accepting, wants, pending, busy, posts, linked, request, unsettled, stranded>>
  BY DEF resolve_once, apply_verdict, clientVars
<1>2. \A t \in Tx : Marking(t)' = Marking(t)
  BY <1>1 DEF Marking
<1>3. CASE \E t \in Tx : resolve_once(t)
  <2>1. PICK t \in Tx, v \in {"success", "failed"} :
             resolving' = resolving \cup {[tx |-> t, at |-> "apply", verdict |-> v]}
    BY <1>3 DEF resolve_once
  <2>2. row' = row /\ (faults' = faults \/ Fault)
    BY <1>3 DEF resolve_once
  <2>3. PaymentsTypeOK'
    BY <1>0, <1>1, <2>1, <2>2, PaymentsAssumption DEF PaymentsTypeOK, Fault, Attempt
  <2>4. LinkedOK'
    BY <1>0, <1>1, <1>2, <2>2 DEF LinkedOK, PaymentsTypeOK
  <2>5. AttemptsOK'
    BY <1>0, <1>1, <2>1, <2>2 DEF AttemptsOK
  <2>6. QED
    BY <2>3, <2>4, <2>5 DEF PaymentsInv
<1>4. CASE \E a \in resolving : apply_verdict(a)
  <2>1. PICK a \in resolving : apply_verdict(a)
    BY <1>4
  <2>2. a \in Attempt /\ a.tx \in Tx /\ a.verdict \in {"success", "failed"} /\ faults' = faults
    BY <1>0, <2>1 DEF PaymentsTypeOK, Attempt, apply_verdict
  <2>3. /\ row' \in [Tx -> {"none", "pending", "success", "failed"}]
        /\ \A t \in Tx : row[t] # "pending" => row'[t] = row[t]
        /\ \A t \in Tx : row[t] = "pending" => row'[t] # "none"
        /\ row[a.tx] = "pending" => row'[a.tx] = a.verdict
    BY <1>0, <2>1, <2>2 DEF PaymentsTypeOK, apply_verdict
  <2>4. resolving' \subseteq resolving \cup {[a EXCEPT !.at = "read"]}
        /\ ([a EXCEPT !.at = "read"] \in resolving' =>
               \/ row[a.tx] = "pending" /\ a.verdict = "failed"
               \/ [a EXCEPT !.at = "read"] \in resolving)
    BY <2>1 DEF apply_verdict
  <2>5. PaymentsTypeOK'
    BY <1>0, <1>1, <2>2, <2>3, <2>4 DEF PaymentsTypeOK, Attempt
  <2>6. LinkedOK'
    BY <1>0, <1>1, <1>2, <2>3 DEF LinkedOK, PaymentsTypeOK
  <2>7. AttemptsOK'
    BY <1>0, <1>1, <2>2, <2>3, <2>4 DEF AttemptsOK, PaymentsTypeOK, Attempt
  <2>8. QED
    BY <2>5, <2>6, <2>7 DEF PaymentsInv
<1>5. QED
  BY <1>3, <1>4

(* A reopening reads the request it paid, and then takes only that one. *)
LEMMA ReopenInv ==
  ASSUME PaymentsInv, NEW a \in resolving,
         reopen_read(a) \/ reopen_request(a) \/ reopen_fails(a)
  PROVE  PaymentsInv'
<1>0. PaymentsTypeOK /\ LinkedOK /\ AttemptsOK /\ a \in Attempt /\ a.tx \in Tx
  BY DEF PaymentsInv, PaymentsTypeOK, Attempt
<1>1. /\ UNCHANGED <<txs, chain, accepting, wants, pending, busy, posts, row, linked, unsettled>>
      /\ faults' = faults \/ Fault
      /\ stranded' \subseteq stranded \cup {a.tx}
  BY DEF reopen_read, reopen_request, reopen_fails, clientVars
<1>2. \A t \in Tx : Marking(t)' = Marking(t) /\ t # NoTx
  BY <1>1 DEF Marking, Tx, NoTx
<1>3. CASE reopen_read(a) \/ reopen_fails(a)
  <2> DEFINE b == [a EXCEPT !.at = "reopen"]
  <2>1. /\ request' = request
        /\ resolving' \subseteq resolving \cup {b}
        /\ a.at # "apply"
        /\ b \in resolving' => b \in resolving \/ request.by = a.tx
    BY <1>3 DEF reopen_read, reopen_fails
  <2>2. b \in Attempt /\ b.tx = a.tx /\ b.verdict = a.verdict
    BY <1>0 DEF Attempt
  <2> HIDE DEF b
  <2>3. PaymentsTypeOK'
    BY <1>0, <1>1, <2>1, <2>2, PaymentsAssumption DEF PaymentsTypeOK, Fault
  <2>4. LinkedOK'
    BY <1>0, <1>1, <1>2, <2>1 DEF LinkedOK, PaymentsTypeOK
  <2>5. AttemptsOK'
    BY <1>0, <1>1, <2>1, <2>2 DEF AttemptsOK
  <2>6. QED
    BY <2>3, <2>4, <2>5 DEF PaymentsInv
<1>4. CASE reopen_request(a)
  <2>1. /\ a.at = "reopen" /\ resolving' = resolving \ {a} /\ faults' = faults
        /\ request.by = a.tx /\ row[a.tx] = "failed" /\ request.st = "paid"
        /\ request' = [st |-> "open", by |-> NoTx]
    BY <1>0, <1>2, <1>4 DEF reopen_request, AttemptsOK, PaymentsTypeOK
  <2>2. PaymentsTypeOK'
    BY <1>0, <1>1, <2>1, PaymentsAssumption DEF PaymentsTypeOK, NoTx
  <2>3. LinkedOK'
    BY <1>0, <1>1, <1>2, <2>1 DEF LinkedOK, PaymentsTypeOK
  <2>4. \A b \in resolving : b.at = "reopen" => b = a
    <3> SUFFICES ASSUME NEW b \in resolving, b.at = "reopen" PROVE b = a
      OBVIOUS
    <3>1. b.tx = a.tx /\ b.verdict = "failed" /\ a.verdict = "failed" /\ b \in Attempt
      BY <1>0, <2>1 DEF AttemptsOK, PaymentsTypeOK
    <3>2. QED
      BY <1>0, <2>1, <3>1 DEF Attempt
  <2>5. AttemptsOK'
    BY <1>0, <1>1, <2>1, <2>4 DEF AttemptsOK
  <2>6. QED
    BY <2>2, <2>3, <2>5 DEF PaymentsInv
<1>5. QED
  BY <1>3, <1>4

(* A restart ends handlers and attempts; what they owed is noted. *)
LEMMA RestartInv ==
  ASSUME PaymentsInv, Restart
  PROVE  PaymentsInv'
<1>0. PaymentsTypeOK /\ LinkedOK
  BY DEF PaymentsInv
<1>1. /\ UNCHANGED <<txs, chain, accepting, wants, pending, busy, row, linked, request>>
      /\ Fault /\ posts' = {} /\ resolving' = {}
  BY DEF Restart, clientVars
<1>2. /\ unsettled' \subseteq Tx /\ unsettled \subseteq unsettled'
      /\ \A t \in Tx : Marking(t) => t \in unsettled'
  BY <1>0 DEF Restart, PaymentsTypeOK, Post, Marking
<1>3. stranded' \subseteq Tx
  BY <1>0 DEF Restart, PaymentsTypeOK, Attempt
<1>4. PaymentsTypeOK'
  BY <1>0, <1>1, <1>2, <1>3, PaymentsAssumption DEF PaymentsTypeOK, Fault
<1>5. LinkedOK'
  BY <1>0, <1>1, <1>2 DEF LinkedOK, PaymentsTypeOK
<1>6. QED
  BY <1>1, <1>4, <1>5 DEF PaymentsInv, AttemptsOK

(* Every step keeps the invariant. *)
LEMMA PaymentsNextInv == PaymentsInv /\ [PaymentsNext]_paymentsVars => PaymentsInv'
<1> SUFFICES ASSUME PaymentsInv, [PaymentsNext]_paymentsVars PROVE PaymentsInv'
  OBVIOUS
<1>1. CASE UNCHANGED paymentsVars
  BY <1>1
     DEF paymentsVars, clientVars, PaymentsInv, PaymentsTypeOK, LinkedOK, AttemptsOK, Marking
<1>2. QED
  BY <1>1, RequestInv, SubmitInv, AccessInv, PostInv, HandlerInv, VerdictInv, ReopenInv, RestartInv
     DEF PaymentsNext, Handle, Resolve

(* The invariant holds throughout. *)
THEOREM PaymentsInvariance == PaymentsSpec => []PaymentsInv
  BY PaymentsInitInv, PaymentsNextInv, PTL DEF PaymentsSpec

(* A successful transfer whose message is linked to the request has        *)
(* settled it, is about to, or lost it to another answer, a restart or a   *)
(* failed write between check and mark: no reopening by another transfer   *)
(* takes it away.  And the state is well typed.                            *)
THEOREM LinkedTheorem == PaymentsSpec => []LinkedSuccessSettles
<1>1. PaymentsInv => LinkedSuccessSettles
  BY DEF PaymentsInv, LinkedOK, Marking, LinkedSuccessSettles
<1>2. QED
  BY <1>1, PaymentsInvariance, PTL

(* A rejected or cancelled request never changes, and neither does one     *)
(* paid by a successful transfer: both compare-and-set writes of the       *)
(* relayer (mark_request_paid, reopen_request) leave it alone.             *)
THEOREM SettledTheorem == PaymentsSpec => SettledForGood
<1> DEFINE Kept == /\ request.st \in {"rejected", "cancelled"} => request' = request
                   /\ request.st = "paid" /\ row[request.by] = "success" => request' = request
<1>1. PaymentsInv /\ [PaymentsNext]_paymentsVars => Kept
  <2> SUFFICES ASSUME PaymentsInv, [PaymentsNext]_paymentsVars, request' # request
               PROVE  /\ request.st \notin {"rejected", "cancelled"}
                      /\ ~(request.st = "paid" /\ row[request.by] = "success")
    OBVIOUS
  <2>1. CASE sendPaymentRequest \/ respondToPaymentRequest
    BY <2>1 DEF sendPaymentRequest, respondToPaymentRequest
  <2>2. CASE \E p \in posts : mark_request_paid(p)
    BY <2>2 DEF mark_request_paid
  <2>3. CASE \E a \in resolving : reopen_request(a)
    BY <2>3 DEF reopen_request, PaymentsInv, AttemptsOK
  <2>4. QED
    BY <2>1, <2>2, <2>3
       DEF PaymentsNext, paymentsVars, clientVars, DigestLost, sendTokenTransfer,
          postTransferMessage, resolve_once, Handle, request_link_is_valid, create_message,
          Answered, Refused, AnswerLost, mark_write_fails, GiveUp, AccessChanges, Resolve, apply_verdict, reopen_read,
          reopen_fails, Restart
<1>2. QED
  BY <1>1, PaymentsInvariance, PTL DEF PaymentsSpec, SettledForGood
=============================================================================
