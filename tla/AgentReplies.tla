---------------------------- MODULE AgentReplies ----------------------------
(***************************************************************************)
(* The replies of an agent in one chat: the queue of questions, the engine *)
(* that answers them one by one, and the owner's decision on a write the   *)
(* agent proposes.  The queue's loop, a reply and a decision are separate  *)
(* asynchronous computations over one session record and one gate.         *)
(*                                                                         *)
(* A question is the number it was asked under, and a proposal is the      *)
(* question whose answer carried it.  What is asked, looked up, recalled   *)
(* and written is left out.                                                *)
(***************************************************************************)
EXTENDS Naturals, Sequences, FiniteSets, SequencesExt

CONSTANTS
    MaxQuestions,   \* bound: questions asked
    MaxReplyFaults  \* bound: failed replies and posts, unmounted engines

ASSUME RepliesAssumption ==
    /\ MaxQuestions \in Nat \ {0}
    /\ MaxReplyFaults \in Nat

VARIABLES
    asked,       \* questions asked so far
    items,       \* the queue's items
    loop,        \* drain: "idle", "gate" (it awaits the gate) or "run"
    gate,        \* the queue is held
    runner,      \* the engine is mounted: a runner and a resolver are set
    replies,     \* runAgentReply under way: the question and how far it is
    pending,     \* the session's pending proposal; 0: none
    busy,        \* actionBusy
    decisions,   \* resolveStoredAction under way: the proposal and how far it is
    answers,     \* answers posted, in the order of the posts
    done,        \* questions whose reply has ended, answered or not
    approved,    \* proposals the owner approved
    decided,     \* proposals the owner approved or denied
    acted,       \* how often each proposed write was executed
    replyFaults  \* faults so far

queueVars == <<asked, items, loop, gate, runner>>
sessionVars == <<pending, busy, decisions>>
logVars == <<answers, done, approved, decided, acted>>
repliesVars == <<queueVars, replies, sessionVars, logVars, replyFaults>>

Question == 1..MaxQuestions
NoProposal == 0

RepliesTypeOK ==
    /\ asked \in 0..MaxQuestions
    /\ items \in Seq(Question)
    /\ loop \in {"idle", "gate", "run"}
    /\ gate \in BOOLEAN
    /\ runner \in BOOLEAN
    /\ replies \subseteq [q : Question, at : {"ask", "post"}, proposes : BOOLEAN]
    /\ pending \in 0..MaxQuestions
    /\ pending # NoProposal => gate      \* a proposal holds the queue
    /\ busy \in BOOLEAN
    /\ decisions \subseteq [p : Question, at : {"deny", "check", "run", "report"}]
    /\ answers \in Seq(Question)
    /\ done \subseteq Question
    /\ approved \subseteq decided /\ decided \subseteq Question
    /\ acted \in [Question -> 0..2]
    /\ replyFaults \in 0..MaxReplyFaults

RepliesInit ==
    /\ asked = 0
    /\ items = <<>>
    /\ loop = "idle"
    /\ gate = FALSE
    /\ runner = TRUE
    /\ replies = {}
    /\ pending = NoProposal
    /\ busy = FALSE
    /\ decisions = {}
    /\ answers = <<>>
    /\ done = {}
    /\ approved = {}
    /\ decided = {}
    /\ acted = [q \in Question |-> 0]
    /\ replyFaults = 0

ReplyFault == replyFaults < MaxReplyFaults /\ replyFaults' = replyFaults + 1

(***************************************************************************)
(* The queue.                                                              *)
(***************************************************************************)

\* The loop at its head, with the queue its, the gate g and the runner r:
\* it ends, awaits the gate, or starts the first question on the replies rs.
\* Without a runner the question is put back and the loop ends.
Advance(its, g, r, rs) ==
    CASE its # <<>> /\ g ->
           loop' = "gate" /\ items' = its /\ replies' = rs
      [] its # <<>> /\ ~g /\ r ->
           /\ loop' = "run"
           /\ items' = Tail(its)
           /\ replies' = rs \cup {[q |-> Head(its), at |-> "ask", proposes |-> FALSE]}
      [] OTHER ->
           loop' = "idle" /\ items' = its /\ replies' = rs

\* drain is called: it does nothing while the loop works.
drain(its, g, r, rs) ==
    IF loop = "idle" THEN Advance(its, g, r, rs)
    ELSE items' = its /\ replies' = rs /\ UNCHANGED loop

\* Mutant: a question starts the loop although one is running.
enqueueDraining ==
    /\ asked < MaxQuestions
    /\ asked' = asked + 1
    /\ Advance(Append(items, asked + 1), gate, runner, replies)
    /\ UNCHANGED <<gate, runner, sessionVars, logVars, replyFaults>>

\* The owner asks something.
enqueueAgentReply ==
    /\ asked < MaxQuestions
    /\ asked' = asked + 1
    /\ drain(Append(items, asked + 1), gate, runner, replies)
    /\ UNCHANGED <<gate, runner, sessionVars, logVars, replyFaults>>

\* The awaited gate was released; it may be held again by now.
GateReleased ==
    /\ loop = "gate"
    /\ ~gate
    /\ Advance(items, gate, runner, replies)
    /\ UNCHANGED <<asked, gate, runner, sessionVars, logVars, replyFaults>>

\* setPending: the session's proposal, and the gate that goes with it.  A
\* released queue drains if its loop is idle.
setPending(p, rs) ==
    /\ pending' = p
    /\ gate' = (p # NoProposal)
    /\ IF p # NoProposal THEN replies' = rs /\ UNCHANGED <<items, loop>>
       ELSE drain(items, FALSE, runner, rs)

\* The engine is unmounted and mounted again (React does this in
\* development, and when a provider above it changes).
Unmount ==
    /\ runner
    /\ ReplyFault
    /\ runner' = FALSE
    /\ UNCHANGED <<asked, items, loop, gate, replies, sessionVars, logVars>>

\* Mutant: what has waited is not drained.
MountWithoutDrain ==
    /\ ~runner
    /\ runner' = TRUE
    /\ UNCHANGED <<asked, items, loop, gate, replies, sessionVars, logVars, replyFaults>>

\* setAgentReplyRunner drains what has waited.
Mount ==
    /\ ~runner
    /\ runner' = TRUE
    /\ drain(items, gate, TRUE, replies)
    /\ UNCHANGED <<asked, gate, sessionVars, logVars, replyFaults>>

(***************************************************************************)
(* runAgentReply.                                                          *)
(***************************************************************************)

\* The checks pass and the model answers, after lookups and continuations.
\* Its answer may carry a write that needs the owner's approval; reads and
\* writes that do not are executed at once.
askAgent(r) ==
    /\ r \in replies /\ r.at = "ask"
    /\ \E proposes \in BOOLEAN :
          replies' = (replies \ {r}) \cup {[r EXCEPT !.at = "post", !.proposes = proposes]}
    /\ UNCHANGED <<queueVars, sessionVars, logVars, replyFaults>>

\* Mutant: the loop goes on without looking at the gate.
NextUngated(r, g) == Advance(items, FALSE, runner, replies \ {r})

\* The reply r is over: the loop goes on, with the gate g.
NextQuestion(r, g) == Advance(items, g, runner, replies \ {r})

\* The answer is posted; then the proposal is set or cleared.
postAnswer(r) ==
    LET p == IF r.proposes THEN r.q ELSE NoProposal IN
    /\ r \in replies /\ r.at = "post"
    /\ answers' = Append(answers, r.q)
    /\ done' = done \cup {r.q}
    /\ pending' = p
    /\ gate' = r.proposes
    /\ NextQuestion(r, r.proposes)
    /\ UNCHANGED <<asked, runner, busy, decisions, approved, decided, acted, replyFaults>>

\* A check, the model, the vault or the post fails: the error is shown and
\* the next question is taken up.
replyFails(r) ==
    /\ r \in replies
    /\ ReplyFault
    /\ done' = done \cup {r.q}
    /\ NextQuestion(r, gate)
    /\ UNCHANGED <<asked, gate, runner, sessionVars, answers, approved, decided, acted>>

(***************************************************************************)
(* resolveStoredAction.                                                    *)
(***************************************************************************)

\* Mutant: a second click is not ignored.
resolveAnyTime(approve) ==
    /\ runner
    /\ pending # NoProposal
    /\ decisions' = decisions \cup {[p |-> pending, at |-> IF approve THEN "check" ELSE "deny"]}
    /\ busy' = TRUE
    /\ approved' = IF approve THEN approved \cup {pending} ELSE approved
    /\ decided' = decided \cup {pending}
    /\ UNCHANGED <<queueVars, replies, pending, answers, done, acted, replyFaults>>

\* The owner clicks.
resolveAgentReplyAction(approve) ==
    /\ runner
    /\ pending # NoProposal
    /\ ~busy
    /\ decisions' = decisions \cup {[p |-> pending, at |-> IF approve THEN "check" ELSE "deny"]}
    /\ busy' = TRUE
    /\ approved' = IF approve THEN approved \cup {pending} ELSE approved
    /\ decided' = decided \cup {pending}
    /\ UNCHANGED <<queueVars, replies, pending, answers, done, acted, replyFaults>>

DecisionOver(d) ==
    /\ decisions' = decisions \ {d}
    /\ busy' = FALSE

\* The refusal is posted, or the post fails: the proposal goes either way.
Denied(d) ==
    /\ d \in decisions /\ d.at = "deny"
    /\ DecisionOver(d)
    /\ setPending(NoProposal, replies)
    /\ UNCHANGED <<asked, runner, logVars, replyFaults>>

\* The agent is read again and the proposal parsed against it.  If the
\* agent may no longer do it, nothing is run.
RefusedNow(d) ==
    /\ d \in decisions /\ d.at = "check"
    /\ DecisionOver(d)
    /\ setPending(NoProposal, replies)
    /\ UNCHANGED <<asked, runner, logVars, replyFaults>>
CheckedAgain(d) ==
    /\ d \in decisions /\ d.at = "check"
    /\ decisions' = (decisions \ {d}) \cup {[d EXCEPT !.at = "run"]}
    /\ UNCHANGED <<queueVars, replies, pending, busy, logVars, replyFaults>>

\* runAction executes the write or finds that the world has moved; the
\* proposal is cleared, which releases the queue, and the result is posted.
runAction(d) ==
    /\ d \in decisions /\ d.at = "run"
    /\ \/ acted' = [acted EXCEPT ![d.p] = @ + 1]
       \/ UNCHANGED acted
    /\ decisions' = (decisions \ {d}) \cup {[d EXCEPT !.at = "report"]}
    /\ setPending(NoProposal, replies)
    /\ UNCHANGED <<asked, runner, busy, answers, done, approved, decided, replyFaults>>

Reported(d) ==
    /\ d \in decisions /\ d.at = "report"
    /\ DecisionOver(d)
    /\ UNCHANGED <<queueVars, replies, pending, logVars, replyFaults>>

\* The result cannot be posted: the error is shown and the proposal of the
\* session is cleared once more.
ReportFails(d) ==
    /\ d \in decisions /\ d.at = "report"
    /\ ReplyFault
    /\ DecisionOver(d)
    /\ setPending(NoProposal, replies)
    /\ UNCHANGED <<asked, runner, logVars>>

Reply(r) == askAgent(r) \/ postAnswer(r)

Decide(d) ==
    Denied(d) \/ RefusedNow(d) \/ CheckedAgain(d) \/ runAction(d) \/ Reported(d)

RepliesNext ==
    \/ enqueueAgentReply \/ GateReleased \/ Unmount \/ Mount
    \/ \E r \in replies : Reply(r) \/ replyFails(r)
    \/ \E approve \in BOOLEAN : resolveAgentReplyAction(approve)
    \/ \E d \in decisions : Decide(d) \/ ReportFails(d)

\* Promises settle, the engine is mounted again, and the owner decides.
RepliesFairness ==
    /\ WF_repliesVars(GateReleased) /\ WF_repliesVars(Mount)
    /\ WF_repliesVars(\E r \in replies : Reply(r))
    /\ WF_repliesVars(\E d \in decisions : Decide(d))
    /\ WF_repliesVars(\E approve \in BOOLEAN : resolveAgentReplyAction(approve))

RepliesSpec == RepliesInit /\ [][RepliesNext]_repliesVars /\ RepliesFairness

(***************************************************************************)
(* Properties.                                                             *)
(***************************************************************************)

\* Answers appear in the chat in the order of the questions, through holds,
\* releases, failures and remounts.
AnswersInOrder ==
    \A i, j \in DOMAIN answers : i < j => answers[i] < answers[j]

\* The state is well typed, and
\* a proposed write is executed only after the owner approved this very
\* proposal, and once, however the owner clicks.
ApprovedAndOnce ==
    /\ RepliesTypeOK
    /\ \A p \in Question : acted[p] <= IF p \in approved THEN 1 ELSE 0

\* Every question's reply ends: no wake-up of the queue is lost between the
\* gate, the loop and the engine.
QuestionsServed == \A q \in Question : asked >= q ~> q \in done

\* agent-reply-sessions.ts: a proposed write is "held until the owner
\* approves or denies it".  The one way out is the failing post of an earlier
\* action's result: the queue was released before that post, and its catch
\* clears whatever is proposed by then.
HeldUntilDecided ==
    [][pending # NoProposal /\ pending' # pending =>
          \/ pending \in decided'
          \/ /\ replyFaults' > replyFaults
             /\ \E d \in decisions \ decisions' : d.at = "report"]_repliesVars
=============================================================================
