------------------------------ MODULE Payments ------------------------------
(***************************************************************************)
(* A payment request in a direct conversation and the transfers that may   *)
(* settle it: the payer's application submits a transfer on chain, saves   *)
(* its digest in the browser and posts a message for it until the relayer  *)
(* has one; the relayer stores the message, marks the request paid, looks  *)
(* the digest up on a fullnode and, if the transfer failed, opens the      *)
(* request again.  Every arrow of this is an await: posts are repeated,    *)
(* the tab closes, the relayer restarts, and the confirmation sweep runs   *)
(* beside the handlers.                                                    *)
(*                                                                         *)
(* A transfer is the number of its transaction; amounts, assets and the    *)
(* texts are left out.                                                     *)
(***************************************************************************)
EXTENDS Naturals, FiniteSets

CONSTANTS
    MaxTx,      \* bound: transfers submitted
    MaxFaults   \* bound: lost answers, closed tabs, restarts, given-up digests,
                \* times the conversation is closed to the payer

ASSUME PaymentsAssumption ==
    /\ MaxTx \in Nat \ {0}
    /\ MaxFaults \in Nat

VARIABLES
    txs,        \* transfers submitted so far
    chain,      \* how each one was executed: "ok" or "bad"
    accepting,  \* the relayer accepts what the payer posts to the conversation
    wants,      \* transfers made to settle the request
    pending,    \* chat.pendingTransfers of the payer's browser
    busy,       \* the transfer the open thread is posting; 0: none
    posts,      \* posts the relayer is handling
    row,        \* the message of each transfer: "none", "pending", "success", "failed"
    linked,     \* messages that kept their request_message_id
    request,    \* status of the request and its fulfilling_message_id
    resolving,  \* resolution attempts under way
    unsettled,  \* history: linked messages whose request was not marked paid
    stranded,   \* history: failed messages that did not open their request again
    faults      \* faults so far

clientVars == <<txs, chain, accepting, wants, pending, busy>>
paymentsVars == <<clientVars, posts, row, linked, request, resolving, unsettled,
                  stranded, faults>>

Tx == 1..MaxTx
NoTx == 0

\* A post: where its handler is, whether the link is (still) asked for, and
\* whether the client still waits for the answer.
Post == [tx : Tx, at : {"check", "create", "mark", "done"}, link : BOOLEAN,
         heard : BOOLEAN]

\* An attempt: the verdict to apply, or the reopening that follows a failure.
Attempt == [tx : Tx, at : {"apply", "read", "reopen"}, verdict : {"success", "failed"}]

PaymentsTypeOK ==
    /\ txs \in 0..MaxTx
    /\ chain \in [Tx -> {"none", "ok", "bad"}]
    /\ accepting \in BOOLEAN
    /\ wants \subseteq Tx
    /\ pending \subseteq Tx
    /\ busy \in 0..MaxTx
    /\ posts \subseteq Post
    /\ row \in [Tx -> {"none", "pending", "success", "failed"}]
    /\ linked \subseteq {t \in Tx : row[t] # "none"}
    /\ request \in [st : {"none", "open", "paid", "rejected", "cancelled"},
                    by : 0..MaxTx]
    /\ request.by # NoTx <=> request.st = "paid"
    /\ resolving \subseteq Attempt
    /\ unsettled \subseteq Tx
    /\ stranded \subseteq Tx
    /\ faults \in 0..MaxFaults

PaymentsInit ==
    /\ txs = 0
    /\ chain = [t \in Tx |-> "none"]
    /\ accepting = TRUE
    /\ wants = {}
    /\ pending = {}
    /\ busy = NoTx
    /\ posts = {}
    /\ row = [t \in Tx |-> "none"]
    /\ linked = {}
    /\ request = [st |-> "none", by |-> NoTx]
    /\ resolving = {}
    /\ unsettled = {}
    /\ stranded = {}
    /\ faults = 0

Fault == faults < MaxFaults /\ faults' = faults + 1

(***************************************************************************)
(* The request.                                                            *)
(***************************************************************************)

sendPaymentRequest ==
    /\ request.st = "none" /\ accepting
    /\ request' = [request EXCEPT !.st = "open"]
    /\ UNCHANGED <<clientVars, posts, row, linked, resolving, unsettled, stranded, faults>>

\* The payer rejects or the requester cancels: open -> closed, compare and set.
respondToPaymentRequest ==
    /\ request.st = "open"
    /\ request' \in {[request EXCEPT !.st = "rejected"], [request EXCEPT !.st = "cancelled"]}
    /\ UNCHANGED <<clientVars, posts, row, linked, resolving, unsettled, stranded, faults>>

(***************************************************************************)
(* The payer's application.                                                *)
(***************************************************************************)

\* The transfer is executed as the next transaction.  The gas pool's path
\* returns the digest of one that failed, the others throw.  The payer's
\* view of the request may be stale, so any status may be paid for.
Submitted(out, settles) ==
    /\ txs < MaxTx
    /\ busy = NoTx
    /\ txs' = txs + 1
    /\ chain' = [chain EXCEPT ![txs + 1] = out]
    /\ wants' = IF settles THEN wants \cup {txs + 1} ELSE wants
    /\ settles => request.st # "none"

\* sendTokenTransfer, or confirmPaymentRequest if it settles the request:
\* the digest is saved, then posted.  Storage may refuse to save it.
sendTokenTransfer(out, settles) ==
    /\ Submitted(out, settles)
    /\ busy' = txs + 1
    /\ \/ pending' = pending \cup {txs + 1} /\ UNCHANGED faults
       \/ Fault /\ UNCHANGED pending
    /\ UNCHANGED <<accepting, posts, row, linked, request, resolving, unsettled, stranded>>

\* The transfer is executed but the wait for it fails, or the tab closes:
\* its digest is never seen.
DigestLost(settles) ==
    /\ Submitted("ok", settles)
    /\ Fault
    /\ UNCHANGED <<accepting, pending, busy, posts, row, linked, request, resolving, unsettled, stranded>>

\* postTransferMessage posts, for the thread that waits or for a saved
\* transfer when the thread is opened again.
postTransferMessage(t) ==
    /\ t \in pending \cup ({busy} \ {NoTx})
    /\ ~\E p \in posts : p.tx = t /\ p.heard
    /\ posts' = posts \cup {[tx |-> t, at |-> "check", link |-> t \in wants, heard |-> TRUE]}
    /\ UNCHANGED <<clientVars, row, linked, request, resolving, unsettled, stranded, faults>>

\* The answer comes: the saved transfer is dropped.
Answered(p) ==
    /\ p \in posts /\ p.at = "done"
    /\ posts' = posts \ {p}
    /\ pending' = IF p.heard THEN pending \ {p.tx} ELSE pending
    /\ busy' = IF p.heard /\ busy = p.tx THEN NoTx ELSE busy
    /\ UNCHANGED <<txs, chain, accepting, wants, row, linked, request, resolving, unsettled, stranded, faults>>

\* The connection is lost while the relayer handles the post.
AnswerLost(p) ==
    /\ p \in posts /\ p.heard
    /\ Fault
    /\ posts' = (posts \ {p}) \cup {[p EXCEPT !.heard = FALSE]}
    /\ UNCHANGED <<clientVars, row, linked, request, resolving, unsettled, stranded>>

\* The attempts are used up or the tab is closed; what was saved stays.
GiveUp ==
    /\ busy # NoTx
    /\ Fault
    /\ busy' = NoTx
    /\ posts' = {[p EXCEPT !.heard = FALSE] : p \in posts}
    /\ UNCHANGED <<txs, chain, accepting, wants, pending, row, linked, request, resolving, unsettled, stranded>>

(***************************************************************************)
(* The relayer's handler of a post.                                        *)
(***************************************************************************)

\* A block, the paid-message gate, the membership or the size of the
\* conversation changes, or the service that is asked about it stops or
\* starts answering.
AccessChanges ==
    /\ accepting' = ~accepting
    /\ IF accepting THEN Fault ELSE UNCHANGED faults
    /\ UNCHANGED <<txs, chain, wants, pending, busy, posts, row, linked, request, resolving,
                   unsettled, stranded>>

Move(p, to, link) == (posts \ {p}) \cup {[p EXCEPT !.at = to, !.link = link]}

\* The link is kept only if the request is open.
request_link_is_valid(p) ==
    /\ p \in posts /\ p.at = "check"
    /\ posts' = Move(p, "create", p.link /\ request.st = "open")
    /\ UNCHANGED <<clientVars, row, linked, request, resolving, unsettled, stranded, faults>>

\* Mutant: a refused transfer is dropped from the browser.
refused_and_dropped(p) ==
    /\ p \in posts /\ p.at \in {"check", "create"} /\ ~accepting
    /\ posts' = posts \ {p}
    /\ pending' = pending \ {p.tx}
    /\ busy' = IF p.heard /\ busy = p.tx THEN NoTx ELSE busy
    /\ UNCHANGED <<txs, chain, accepting, wants, row, linked, request, resolving, unsettled,
                   stranded, faults>>

\* The member or direct-conversation check, the block check or the gate
\* refuses it.  The thread tries again or, its attempts used up, gives up;
\* what was saved stays.
Refused(p) ==
    /\ p \in posts /\ p.at \in {"check", "create"} /\ ~accepting
    /\ posts' = posts \ {p}
    /\ busy' \in {busy, IF p.heard /\ busy = p.tx THEN NoTx ELSE busy}
    /\ UNCHANGED <<txs, chain, accepting, wants, pending, row, linked, request, resolving,
                   unsettled, stranded, faults>>

\* The block check and the gate let the post pass.  The message is stored,
\* unless the digest has one: that one is returned.
create_message(p) ==
    /\ p \in posts /\ p.at = "create" /\ accepting
    /\ IF row[p.tx] = "none"
       THEN /\ row' = [row EXCEPT ![p.tx] = "pending"]
            /\ linked' = IF p.link THEN linked \cup {p.tx} ELSE linked
            /\ posts' = Move(p, "mark", p.link)
       ELSE /\ posts' = Move(p, "done", p.link)
            /\ UNCHANGED <<row, linked>>
    /\ UNCHANGED <<clientVars, request, resolving, unsettled, stranded, faults>>

\* Mutant: the status of the request is not compared.
mark_without_compare(p) ==
    /\ p \in posts /\ p.at = "mark"
    /\ posts' = Move(p, "done", p.link)
    /\ request' = IF p.link THEN [st |-> "paid", by |-> p.tx] ELSE request
    /\ UNCHANGED <<clientVars, row, linked, resolving, unsettled, stranded, faults>>

\* open -> paid, compare and set.
mark_request_paid(p) ==
    /\ p \in posts /\ p.at = "mark"
    /\ posts' = Move(p, "done", p.link)
    /\ IF p.link /\ request.st = "open"
       THEN /\ request' = [st |-> "paid", by |-> p.tx]
            /\ stranded' = IF row[p.tx] = "failed" THEN stranded \cup {p.tx} ELSE stranded
            /\ UNCHANGED unsettled
       ELSE /\ unsettled' = IF p.link THEN unsettled \cup {p.tx} ELSE unsettled
            /\ UNCHANGED <<request, stranded>>
    /\ UNCHANGED <<clientVars, row, linked, resolving, faults>>

\* The write fails: the handler logs it and answers all the same.
mark_write_fails(p) ==
    /\ p \in posts /\ p.at = "mark" /\ p.link
    /\ Fault
    /\ posts' = Move(p, "done", p.link)
    /\ unsettled' = unsettled \cup {p.tx}
    /\ UNCHANGED <<clientVars, row, linked, request, resolving, stranded>>

(***************************************************************************)
(* Confirmation: right after the post, and by the sweep.                   *)
(***************************************************************************)

\* resolve_once looks the digest up; one that is not found for too long is
\* given up as failed.
resolve_once(t) ==
    /\ row[t] = "pending"
    /\ \E v \in {"success", "failed"} :
          /\ \/ v = (IF chain[t] = "ok" THEN "success" ELSE "failed") /\ UNCHANGED faults
             \/ v = "failed" /\ chain[t] = "ok" /\ Fault
          /\ resolving' = resolving \cup {[tx |-> t, at |-> "apply", verdict |-> v]}
    /\ UNCHANGED <<clientVars, posts, row, linked, request, unsettled, stranded>>

\* pending -> success or failed, compare and set; a failure goes on to the
\* request if the message is linked.
apply_verdict(a) ==
    /\ a \in resolving /\ a.at = "apply"
    /\ row' = IF row[a.tx] = "pending" THEN [row EXCEPT ![a.tx] = a.verdict] ELSE row
    /\ resolving' = (resolving \ {a}) \cup
          IF row[a.tx] = "pending" /\ a.verdict = "failed" /\ a.tx \in linked
          THEN {[a EXCEPT !.at = "read"]} ELSE {}
    /\ UNCHANGED <<clientVars, posts, linked, request, unsettled, stranded, faults>>

\* Mutant: who paid the request is not looked at.
reopen_unread(a) ==
    /\ a \in resolving /\ a.at = "read"
    /\ resolving' = (resolving \ {a}) \cup {[a EXCEPT !.at = "reopen"]}
    /\ UNCHANGED <<clientVars, posts, row, linked, request, unsettled, stranded, faults>>

\* reopen_request_if_linked reads the request ...
reopen_read(a) ==
    /\ a \in resolving /\ a.at = "read"
    /\ resolving' = (resolving \ {a}) \cup
          IF request.by = a.tx THEN {[a EXCEPT !.at = "reopen"]} ELSE {}
    /\ UNCHANGED <<clientVars, posts, row, linked, request, unsettled, stranded, faults>>

\* Mutant: compared with open where the request is paid.
reopen_from_open(a) ==
    /\ a \in resolving /\ a.at = "reopen"
    /\ resolving' = resolving \ {a}
    /\ request' = IF request.st = "open" THEN [st |-> "open", by |-> NoTx] ELSE request
    /\ UNCHANGED <<clientVars, posts, row, linked, unsettled, stranded, faults>>

\* ... and sets it from paid to open.
reopen_request(a) ==
    /\ a \in resolving /\ a.at = "reopen"
    /\ resolving' = resolving \ {a}
    /\ request' = IF request.st = "paid" THEN [st |-> "open", by |-> NoTx] ELSE request
    /\ UNCHANGED <<clientVars, posts, row, linked, unsettled, stranded, faults>>

\* The request cannot be read or written; it is not tried again.
reopen_fails(a) ==
    /\ a \in resolving /\ a.at # "apply"
    /\ Fault
    /\ resolving' = resolving \ {a}
    /\ stranded' = stranded \cup {a.tx}
    /\ UNCHANGED <<clientVars, posts, row, linked, request, unsettled>>

\* The relayer restarts: handlers and attempts are gone, messages stay.
Restart ==
    /\ Fault
    /\ posts' = {}
    /\ resolving' = {}
    /\ unsettled' = unsettled \cup {p.tx : p \in {q \in posts : q.at = "mark" /\ q.link}}
    /\ stranded' = stranded \cup {a.tx : a \in {b \in resolving : b.at # "apply"}}
    /\ UNCHANGED <<clientVars, row, linked, request>>

Handle(p) ==
    \/ request_link_is_valid(p) \/ Refused(p) \/ create_message(p)
    \/ mark_request_paid(p) \/ Answered(p)

Resolve(a) == apply_verdict(a) \/ reopen_read(a) \/ reopen_request(a)

PaymentsNext ==
    \/ sendPaymentRequest \/ respondToPaymentRequest
    \/ \E settles \in BOOLEAN :
          DigestLost(settles) \/ \E out \in {"ok", "bad"} : sendTokenTransfer(out, settles)
    \/ \E t \in Tx : postTransferMessage(t) \/ resolve_once(t)
    \/ \E p \in posts : Handle(p) \/ AnswerLost(p) \/ mark_write_fails(p)
    \/ GiveUp
    \/ AccessChanges
    \/ \E a \in resolving : Resolve(a) \/ reopen_fails(a)
    \/ Restart

(***************************************************************************)
(* Handlers and attempts run on.  The thread posts while it waits, and the *)
(* payer opens it again while transfers are saved; the sweep comes back to *)
(* every pending message.                                                  *)
(***************************************************************************)
PaymentsFairness ==
    /\ \A t \in Tx : WF_paymentsVars(\E p \in posts : p.tx = t /\ Handle(p))
    /\ WF_paymentsVars(\E a \in resolving : Resolve(a))
    /\ \A t \in Tx : WF_paymentsVars(postTransferMessage(t)) /\ WF_paymentsVars(resolve_once(t))

PaymentsSpec == PaymentsInit /\ [][PaymentsNext]_paymentsVars

PaymentsLiveSpec == PaymentsSpec /\ PaymentsFairness

(***************************************************************************)
(* Properties.                                                             *)
(***************************************************************************)

\* The state is well typed, and
\* a successful transfer whose message is linked to the request has settled
\* it, or is about to, or lost it: another answer came between the check of
\* the link and the mark, or the relayer stopped, or could not write,
\* between storing and marking.  A failure of another transfer never takes the request away.
LinkedSuccessSettles ==
    /\ PaymentsTypeOK
    /\ \A t \in linked : row[t] = "success" =>
          \/ request.by = t
          \/ \E p \in posts : p.tx = t /\ p.at = "mark" /\ p.link
          \/ t \in unsettled

\* What is settled stays: a rejected or cancelled request is never paid or
\* opened, and one paid by a successful transfer stays paid by it, whatever
\* attempts of other transfers are under way.
SettledForGood ==
    [][/\ request.st \in {"rejected", "cancelled"} => request' = request
       /\ request.st = "paid" /\ row[request.by] = "success" => request' = request]_paymentsVars

\* Every message of a transfer is resolved in the end, and a transfer that
\* was saved in the browser gets its message if the relayer comes to accept
\* posts to the conversation for good: no refusal, lost answer, closed tab or
\* restart before that makes the payer's application forget it.
TransferResolved ==
    \A t \in Tx :
       /\ row[t] = "pending" ~> row[t] \in {"success", "failed"}
       /\ <>[]accepting => (t \in pending ~> row[t] \in {"success", "failed"})

\* A request paid by a transfer that failed is opened again, so that the
\* payer can try again, unless the failure was found before the request was
\* marked, or the relayer stopped or failed between the two writes.
FailedTransferReopens ==
    \A t \in Tx : request.by = t /\ row[t] = "failed" ~> request.by # t \/ t \in stranded
=============================================================================
