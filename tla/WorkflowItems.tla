--------------------------- MODULE WorkflowItems ---------------------------
(***************************************************************************)
(* The workflow inbox of the relayer: one row per idempotency key, written *)
(* by the services that ask for something, by the chain sync, by the       *)
(* recipient and by the expiry sweep.                                      *)
(*                                                                         *)
(* An organisation's invitation is made and answered on chain.  A request  *)
(* to approve spending, or for memory permissions, is posted by a service  *)
(* and decided on chain.  The relayer applies the chain's events in order; *)
(* how it follows the chain is the subject of MembershipSync.  Here it may *)
(* apply events again after a restart, and a write may fail.  The inbox is *)
(* enabled; reading it changes nothing and is left out, and so are pushes. *)
(***************************************************************************)
EXTENDS Naturals, Sequences, FiniteSets, FiniteSetsExt

CONSTANTS
    Invitee,     \* wallets invited to an organisation
    Agent,       \* agents whose spending is approved
    Bit,         \* memory permissions
    max_rows,    \* rows one sweep may expire
    MaxTime,     \* bound: the last moment
    MaxRequests, \* bound: requests and invitations made
    MaxDecisions, \* bound: answers, approvals and grants on chain
    MaxFaults    \* bound: restarts, failed writes and lost answers

ASSUME InboxAssumption ==
    /\ IsFiniteSet(Invitee) /\ IsFiniteSet(Agent) /\ IsFiniteSet(Bit)
    /\ max_rows \in Nat \ {0}
    /\ {MaxTime, MaxRequests, MaxDecisions, MaxFaults} \subseteq Nat

VARIABLES
    now,     \* the clock
    asked,   \* for each key: requests made, the last one decided, its deadline
    chain,   \* the chain's events
    posts,   \* posts of services to the relayer, under way
    applied, \* how many events the relayer has applied
    items,   \* the rows
    missed,  \* keys with an event that found no row, or whose write failed
    faults   \* faults so far

worldVars == <<now, asked, chain>>
vars == <<worldVars, posts, applied, items, missed, faults>>

\* Idempotency keys.  None of them says which request of several it is.
Invitation(x)   == [type |-> "org_invitation", id |-> x]
Approval(g)     == [type |-> "approval_request", id |-> g]
MemoryAccess(m) == [type |-> "memory_access_request", id |-> m]

Mask == (SUBSET Bit) \ {{}}

Invitations == {Invitation(x) : x \in Invitee}
Posted      == {Approval(g) : g \in Agent} \cup {MemoryAccess(m) : m \in Mask}
Key         == Invitations \cup Posted

Time       == 0..MaxTime
NoDeadline == MaxTime + 1
Deadline   == Time \cup {NoDeadline}

NoRow   == [status |-> "none", deadline |-> NoDeadline, by |-> "nobody", round |-> 0]
Closed  == {"actioned", "dismissed", "expired"}

\* The status each event that closes rows gives them.
NewStatus ==
    [accepted |-> "actioned", declined |-> "dismissed",
     SpendApproved |-> "actioned", SpendApprovalConsumed |-> "actioned",
     SpendApprovalRevoked |-> "expired",
     PermissionGranted |-> "actioned", PermissionRevoked |-> "dismissed"]

Requests == MapThenSumSet(LAMBDA k : asked[k].made, Key)
Pending(k) == asked[k].decided < asked[k].made

-----------------------------------------------------------------------------
(* The chain and the services that post to the inbox.                      *)

Tick ==
    /\ now < MaxTime
    /\ now' = now + 1
    /\ UNCHANGED <<asked, chain, posts, applied, items, missed, faults>>

Decisions == {"accepted", "declined", "SpendApproved", "PermissionGranted", "PermissionRevoked"}
IsDecision(e) == e.what \in Decisions

\* An event carries, for each key it is about, the request it makes or answers.
About(k, round) == [key \in {k} |-> round]

Emit(what, id, deadline, round) ==
    /\ what \in Decisions => Len(SelectSeq(chain, IsDecision)) < MaxDecisions
    /\ chain' = Append(chain, [what |-> what, id |-> id, deadline |-> deadline,
                               round |-> round])

Invite(x, deadline) ==
    LET k == Invitation(x)
    IN  /\ Requests < MaxRequests
        /\ ~Pending(k)
        /\ asked' = [asked EXCEPT ![k].made = @ + 1, ![k].deadline = deadline]
        /\ Emit("created", x, deadline, About(k, asked[k].made + 1))
        /\ UNCHANGED <<now, posts, applied, items, missed, faults>>

Answer(x, what) ==
    LET k == Invitation(x)
    IN  /\ Pending(k)
        /\ asked' = [asked EXCEPT ![k].decided = asked[k].made]
        /\ Emit(what, x, NoDeadline, About(k, asked[k].made))
        /\ UNCHANGED <<now, posts, applied, items, missed, faults>>

\* A service asks once more only when the last request was decided.  The deadline
\* it gives passes at once: the sweep is for invitations only.
Request(k) ==
    /\ Requests < MaxRequests
    /\ ~Pending(k)
    /\ asked' = [asked EXCEPT ![k].made = @ + 1, ![k].deadline = 0]
    /\ posts' = posts \cup {[key |-> k, deadline |-> 0, round |-> asked[k].made + 1]}
    /\ UNCHANGED <<now, chain, applied, items, missed, faults>>

SpendApproved(g) ==
    LET k == Approval(g)
    IN  /\ Pending(k)
        /\ asked' = [asked EXCEPT ![k].decided = asked[k].made]
        /\ Emit("SpendApproved", g, NoDeadline, About(k, asked[k].made))
        /\ UNCHANGED <<now, posts, applied, items, missed, faults>>

\* The approval given last is used up or revoked, perhaps after the next request.
SpendApprovalEnds(g, what) ==
    LET k == Approval(g)
        mine == SelectSeq(chain, LAMBDA e : e.id = g)
    IN  /\ mine # <<>> /\ mine[Len(mine)].what = "SpendApproved"
        /\ Emit(what, g, NoDeadline, About(k, asked[k].decided))
        /\ UNCHANGED <<now, asked, posts, applied, items, missed, faults>>

\* Granting or revoking a mask decides every request the mask covers.  Masks that
\* nobody asked for a part of are left out.
Permission(mask, what) ==
    LET covered == {MemoryAccess(m) : m \in (SUBSET mask) \ {{}}}
    IN  /\ \E k \in Posted : k.type = "memory_access_request" /\ asked[k].made > 0
                                /\ k.id \cap mask # {}
        /\ asked' = [k \in Key |-> IF k \in covered
                                   THEN [asked[k] EXCEPT !.decided = asked[k].made]
                                   ELSE asked[k]]
        /\ Emit(what, mask, NoDeadline, [k \in covered |-> asked[k].made])
        /\ UNCHANGED <<now, posts, applied, items, missed, faults>>

World ==
    \/ Tick
    \/ \E x \in Invitee : \/ \E d \in {0, NoDeadline} : Invite(x, d)
                          \/ \E w \in {"accepted", "declined"} : Answer(x, w)
    \/ \E k \in Posted : Request(k)
    \/ \E g \in Agent :
          \/ SpendApproved(g)
          \/ \E w \in {"SpendApprovalConsumed", "SpendApprovalRevoked"} :
                SpendApprovalEnds(g, w)
    \/ \E m \in Mask, w \in {"PermissionGranted", "PermissionRevoked"} :
          Permission(m, w)

-----------------------------------------------------------------------------
(* The store.  Each operation is one statement.                            *)

\* A row that is there keeps its status: only its content and deadline change.
\* The round is that of the request an open row shows, or that closed it.
upsert_ingest(row, deadline, round) ==
    [row EXCEPT !.status = IF @ = "none" THEN "open" ELSE @,
                !.deadline = deadline,
                !.round = IF row.status \in Closed THEN @ ELSE round]

\* Mutant of transition_by_idempotency: without the condition on the status.
transition_always(row, status, by, round) ==
    IF row.status = "none" THEN row
    ELSE [row EXCEPT !.status = status, !.by = by, !.round = round]

transition_by_idempotency(row, status, by, round) ==
    IF row.status = "open" THEN [row EXCEPT !.status = status, !.by = by, !.round = round]
                           ELSE row

\* Mutant of Expirable: the sweep takes a row at its deadline.
ExpirableAtDeadline ==
    {k \in Invitations : items[k].status = "open" /\ items[k].deadline <= now}

\* The rows a sweep may take.
Expirable ==
    {k \in Invitations : items[k].status = "open" /\ items[k].deadline < now}

\* Mutant of Swept: the limit counts rows before the deadline is looked at.
SweptUnfiltered(some) ==
    LET open == {k \in Invitations : items[k].status = "open"}
        page == CHOOSE p \in SUBSET open :
                    Cardinality(p) = Min({max_rows, Cardinality(open)})
    IN  some = page \cap Expirable

\* The rows it takes: the earliest deadlines first.
Swept(some) ==
    /\ some \subseteq Expirable
    /\ Cardinality(some) = Min({max_rows, Cardinality(Expirable)})
    /\ \A k \in some, l \in Expirable \ some : items[k].deadline <= items[l].deadline

-----------------------------------------------------------------------------
(* The relayer.                                                            *)

\* Ingest of a posted request.  The service posts again when no answer comes.
ingest_workflow_item_internal(post) ==
    /\ items' = [items EXCEPT ![post.key] = upsert_ingest(@, post.deadline, post.round)]
    /\ \/ posts' = posts \ {post} /\ UNCHANGED faults
       \/ faults < MaxFaults /\ faults' = faults + 1 /\ UNCHANGED posts
    /\ UNCHANGED <<worldVars, applied, missed>>

\* Mutant of Closes: rows are looked up by the event's whole mask.
ClosesExactMask(e) ==
    CASE e.what \in {"accepted", "declined"} -> {Invitation(e.id)}
      [] e.what \in {"PermissionGranted", "PermissionRevoked"} -> {MemoryAccess(e.id)}
      [] OTHER -> {Approval(e.id)}

\* The rows an event closes.  For memory permissions these are the rows that ask
\* for one of the mask's permissions alone.
Closes(e) ==
    CASE e.what \in {"accepted", "declined"} -> {Invitation(e.id)}
      [] e.what \in {"PermissionGranted", "PermissionRevoked"}
            -> {MemoryAccess({b}) : b \in e.id}
      [] OTHER -> {Approval(e.id)}

\* Applies an event, except for the keys in lost, whose write fails: the failure
\* is logged and the sync goes on.
ApplyChainEvent(e, lost) ==
    IF e.what = "created"
    THEN /\ items' = [k \in Key |-> IF k = Invitation(e.id) /\ k \notin lost
                                    THEN upsert_ingest(items[k], e.deadline, e.round[k])
                                    ELSE items[k]]
         /\ missed' = missed \cup lost
    ELSE /\ items' = [k \in Key |-> IF k \in Closes(e) \ lost
                                    THEN transition_by_idempotency(items[k],
                                           NewStatus[e.what], "chain", e.round[k])
                                    ELSE items[k]]
         /\ missed' = missed \cup lost
                        \cup {k \in Closes(e) : items[k].status = "none"}

Touches(e) == IF e.what = "created" THEN {Invitation(e.id)} ELSE Closes(e)

Apply ==
    /\ applied < Len(chain)
    /\ \E lost \in SUBSET Touches(chain[applied + 1]) :
          /\ lost # {} => faults < MaxFaults
          /\ faults' = IF lost = {} THEN faults ELSE faults + 1
          /\ ApplyChainEvent(chain[applied + 1], lost)
    /\ applied' = applied + 1
    /\ UNCHANGED <<worldVars, posts>>

\* A restart goes on from the cursor saved last.
Restart ==
    /\ faults < MaxFaults
    /\ faults' = faults + 1
    /\ \E saved \in 0..applied - 1 : applied' = saved
    /\ UNCHANGED <<worldVars, posts, items, missed>>

sweep_expired ==
    /\ Expirable # {}
    /\ \E some \in SUBSET Expirable :
          /\ Swept(some)
          /\ items' = [k \in Key |->
                IF k \in some
                THEN [items[k] EXCEPT !.status = "expired", !.by = "sweep"]
                ELSE items[k]]
    /\ UNCHANGED <<worldVars, posts, applied, missed, faults>>

\* ack_workflow_item and dismiss_workflow_item: whatever the status was.
transition_status(k, status) ==
    /\ items[k].status # "none"
    /\ items' = [items EXCEPT ![k].status = status, ![k].by = "user"]
    /\ UNCHANGED <<worldVars, posts, applied, missed, faults>>

-----------------------------------------------------------------------------
Init ==
    /\ now = 0
    /\ asked = [k \in Key |-> [made |-> 0, decided |-> 0, deadline |-> NoDeadline]]
    /\ chain = <<>>
    /\ posts = {}
    /\ applied = 0
    /\ items = [k \in Key |-> NoRow]
    /\ missed = {}
    /\ faults = 0

Next ==
    \/ World
    \/ \E post \in posts : ingest_workflow_item_internal(post)
    \/ Apply
    \/ Restart
    \/ sweep_expired
    \/ \E k \in Key, status \in {"actioned", "dismissed"} : transition_status(k, status)

Spec == Init /\ [][Next]_vars

\* The sweep runs for as long as the relayer does (run_expiry_sweep).
LiveSpec == Spec /\ WF_vars(sweep_expired)

-----------------------------------------------------------------------------
(* Properties.                                                             *)

\* Rows, requests and events have their types, and a row that was never closed
\* has no closer.
Row == [status : {"none", "open"} \cup Closed, deadline : Deadline,
        by : {"nobody", "chain", "user", "sweep"}, round : Nat]

TypeOK ==
    /\ now \in Time
    /\ asked \in [Key -> [made : Nat, decided : Nat, deadline : Deadline]]
    /\ items \in [Key -> Row]
    /\ \A k \in Key :
          /\ asked[k].decided <= asked[k].made
          /\ items[k].round <= asked[k].made
          /\ items[k].by = "nobody" <=> items[k].status \in {"none", "open"}
    /\ applied \in 0..Len(chain)
    /\ posts \subseteq [key : Posted, deadline : Deadline, round : Nat]
    /\ missed \subseteq Key
    /\ faults \in 0..MaxFaults

\* ClosedForGood: a closed row is never open again, whatever is posted, replayed
\* or asked once more, and only its recipient changes how it was closed
\* (upsert_ingest and transition_by_idempotency of workflow_items.rs).
ClosedForGood ==
    [][\A k \in Key : items[k].status \in Closed =>
          /\ items'[k].status \in Closed
          /\ items'[k].status # items[k].status => items'[k].by = "user"]_vars

\* Every event is applied, none about k was missed, and no post of it is under way.
Heard(k) ==
    /\ applied = Len(chain)
    /\ k \notin missed
    /\ ~\E post \in posts : post.key = k

\* PendingShown: once the relayer has heard of a request that is still pending,
\* its row is open, unless the recipient closed it, its deadline has passed, or
\* the row was closed for an earlier request of the same key.  Events about other
\* keys, replays and sweeps do not hide it (apply_org_invitation_chain_event,
\* apply_workflow_chain_event, sweep_expired).
PendingShown ==
    \A k \in Key : Pending(k) /\ Heard(k) =>
        \/ items[k].status = "open"
        \/ items[k].by = "user"
        \/ items[k].by = "sweep" /\ asked[k].deadline < now
        \/ items[k].by # "nobody" /\ items[k].round < asked[k].made

\* OpenExplained: the state is well typed, and when every event is applied, a row that is still open although
\* its request was decided has an event that came before the row or whose write
\* failed, or asks for several permissions at once, which no event closes
\* (apply_org_memory_permission_chain_event).
OpenExplained ==
    /\ TypeOK
    /\ applied = Len(chain) =>
         \A k \in Key : items[k].status = "open" /\ asked[k].made > 0 /\ ~Pending(k) =>
             \/ k \in missed
             \/ k.type = "memory_access_request" /\ Cardinality(k.id) > 1

\* ExpiredSwept: an open invitation whose deadline has passed does not stay open,
\* however few rows a sweep may take (run_expiry_sweep).
ExpiredSwept ==
    \A k \in Invitations : k \in Expirable ~> k \notin Expirable

=============================================================================
