---------------------------- MODULE EscrowLedger ----------------------------
(***************************************************************************)
(* What paid messaging promises about money, stated without groups,        *)
(* permissions, replay keys or social rules: a numbered ledger of escrows. *)
(* An escrow is opened by a payer for a recipient.  It leaves the state    *)
(* "escrowed" exactly once: to the recipient (whole, or less the two fees) *)
(* while it is not older than Expiration, or back to the payer once it is  *)
(* at least that old.  The four states are the lifecycle that the social   *)
(* indexer derives from the contract's events (docs: PaidMessaging.md).    *)
(***************************************************************************)
EXTENDS Integers

CONSTANTS
  Account,      \* addresses that can hold MYSO
  Genesis,      \* Genesis[a]: what a holds when the group is created
  Amount,       \* amounts that can be escrowed
  Expiration,   \* PAYMENT_EXPIRATION_MS
  FeeBps,       \* basis points of the platform fee and of the treasury fee
  MaxSeq,       \* bound: largest escrow number
  MaxClock      \* bound: last instant of the clock

VARIABLES
  now,          \* wall clock in ms
  wallet,       \* wallet[a]: MYSO held by a
  ledger        \* ledger[seq]: parties, amount, time and state of an escrow

ledgerVars == <<now, wallet, ledger>>

(***************************************************************************)
(* Money moves by crediting and debiting single accounts.                  *)
(***************************************************************************)
Credit(w, a, n) == [w EXCEPT ![a] = @ + n]
Debit(w, a, n) == [w EXCEPT ![a] = @ - n]

Fee(n) == (n * FeeBps) \div 10000
Net(n) == (n - Fee(n)) - Fee(n)

Init ==
  /\ now = 0
  /\ wallet = Genesis
  /\ ledger = [i \in {} |-> {}]

Tick ==
  /\ now < MaxClock
  /\ now' = now + 1
  /\ UNCHANGED <<wallet, ledger>>

(* A fresh number is opened; no number is ever opened again. *)
Open(seq, payer, recipient, amount) ==
  /\ seq \notin DOMAIN ledger
  /\ wallet[payer] >= amount
  /\ wallet' = Debit(wallet, payer, amount)
  /\ ledger' = [i \in DOMAIN ledger \union {seq} |->
       IF i = seq
       THEN [payer |-> payer, recipient |-> recipient, amount |-> amount,
             opened |-> now, status |-> "escrowed"]
       ELSE ledger[i]]
  /\ UNCHANGED now

Age(seq) == now - ledger[seq].opened

Close(seq, status) ==
  /\ ledger[seq].status = "escrowed"
  /\ ledger' = [ledger EXCEPT ![seq].status = status]
  /\ UNCHANGED now

(* The recipient takes everything. *)
Claim(seq) ==
  /\ Age(seq) <= Expiration
  /\ Close(seq, "claimed")
  /\ wallet' = Credit(wallet, ledger[seq].recipient, ledger[seq].amount)

(* The recipient takes the amount less two equal fees, paid to p and t. *)
Settle(seq, p, t) ==
  LET n == ledger[seq].amount IN
  /\ Age(seq) <= Expiration
  /\ Close(seq, "settled")
  /\ wallet' = Credit(Credit(Credit(wallet, p, Fee(n)), t, Fee(n)),
                      ledger[seq].recipient, Net(n))

Refund(seq) ==
  /\ Age(seq) >= Expiration
  /\ Close(seq, "refunded")
  /\ wallet' = Credit(wallet, ledger[seq].payer, ledger[seq].amount)

Next ==
  \/ Tick
  \/ \E seq \in 0..MaxSeq, payer, recipient \in Account, amount \in Amount :
       Open(seq, payer, recipient, amount)
  \/ \E seq \in DOMAIN ledger :
       \/ Claim(seq)
       \/ \E p, t \in Account : Settle(seq, p, t)
       \/ Refund(seq)

Spec == Init /\ [][Next]_ledgerVars
=============================================================================
