--------------------------- MODULE MembershipSync ---------------------------
(***************************************************************************)
(* The relayer's MembershipSyncService: it follows the chain's checkpoints *)
(* through a live subscription, replays what the subscription missed with  *)
(* unary reads, and applies the groups' events to the membership store,    *)
(* which gates every API call, and to the timeline of system messages.     *)
(*                                                                         *)
(* One group is followed.  Checkpoints are numbered from 1; cursor 0 is    *)
(* "no cursor".  The chain never restarts from genesis in this module, so  *)
(* a clearing of the store is always a mistake.                            *)
(***************************************************************************)
EXTENDS Integers, Sequences

CONSTANTS
  Member,         \* addresses
  Perm,           \* messaging permissions
  BackfillMax,    \* MEMBERSHIP_BACKFILL_MAX_CHECKPOINTS
  StartupMin,     \* STARTUP_BACKFILL_CHECKPOINTS
  MaxChain,       \* bound: checkpoints produced
  MaxFaults       \* bound: crashes, broken connections, pruned checkpoints,
                  \* failed database writes

ASSUME SyncAssumption ==
  /\ BackfillMax \in Nat
  /\ StartupMin \in Nat \ {0}
  /\ MaxChain \in Nat
  /\ MaxFaults \in Nat

VARIABLES
  durable,    \* the membership store is Postgres, not in memory; set at start-up
  chain,      \* chain[n]: events of checkpoint n and the on-chain state after it
  pruned,     \* the full node no longer serves checkpoints 1..pruned
  faults,     \* faults so far
  live,       \* a subscription is open
  stream,     \* cursors sent by the subscription and not yet received
  plan,       \* work of the current call: cursors to apply, or a read marker
  done,       \* events of Head(plan) already applied
  inserting,  \* system messages about to be inserted for the last event
  cursor,     \* last_cursor
  members,    \* the membership cache: members[m] is the permission set of m
  saved,      \* membership_sync_state.last_cursor in Postgres
  rows,       \* membership_permissions in Postgres
  timeline,   \* idempotency keys of the stored system messages
  cleared,    \* history: the store was cleared as if the chain had restarted
  skipped,    \* history: a checkpoint was passed over without being applied
  unsaved,    \* history: a write to Postgres failed
  lost        \* history: a store update whose system message was not stored

envVars == <<durable, chain, pruned>>    \* no step of the relayer changes these
historyVars == <<cleared, skipped, unsaved, lost>>
syncVars == <<live, stream, plan, done, inserting>>
dbVars == <<saved, rows>>
storeVars == <<cursor, members, dbVars, timeline>>
vars == <<envVars, faults, syncVars, storeVars, historyVars>>

NoMembers == [m \in Member |-> {}]
NoCursor == 0

(* Markers in plan: a read of the tip that starts the cold-start replay,   *)
(* and one whose answer is ingested.                                       *)
CatchUp == -1
Latest == -2

Tip == Len(chain)
After(n) == IF n = 0 THEN NoMembers ELSE chain[n].after

Event == [kind : {"granted", "revoked", "removed"}, member : Member, perms : SUBSET Perm]

TypeOK ==
  /\ durable \in BOOLEAN
  /\ chain \in Seq([events : Seq(Event), after : [Member -> SUBSET Perm],
                    announced : SUBSET (Nat \X Nat)])
  /\ pruned \in 0..Tip
  /\ faults \in 0..MaxFaults
  /\ live \in BOOLEAN
  /\ stream \in Seq(1..Tip)
  /\ plan \in Seq((1..Tip) \union {CatchUp, Latest})
  /\ done \in Nat
  /\ inserting \subseteq Nat \X Nat
  /\ cursor \in 0..Tip
  /\ members \in [Member -> SUBSET Perm]
  /\ saved \in 0..Tip
  /\ rows \in [Member -> SUBSET Perm]
  /\ timeline \subseteq Nat \X Nat
  /\ \A flag \in {cleared, skipped, unsaved, lost} : flag \in BOOLEAN

Init ==
  /\ durable \in BOOLEAN
  /\ chain = <<>>
  /\ pruned = 0
  /\ faults = 0
  /\ live = FALSE
  /\ stream = <<>>
  /\ plan = <<>>
  /\ done = 0
  /\ inserting = {}
  /\ cursor = NoCursor
  /\ members = NoMembers
  /\ saved = NoCursor
  /\ rows = NoMembers
  /\ timeline = {}
  /\ cleared = FALSE
  /\ skipped = FALSE
  /\ unsaved = FALSE
  /\ lost = FALSE

-----------------------------------------------------------------------------
(* The chain.  A checkpoint holds at most two events.  Its announced set   *)
(* holds the places of the events that start or end a membership.          *)

Effect(state, e) ==
  [state EXCEPT ![e.member] =
     CASE e.kind = "granted" -> @ \union e.perms
       [] e.kind = "revoked" -> @ \ e.perms
       [] e.kind = "removed" -> {}]

(* Events the contract can emit in a given on-chain state. *)
Possible(state) ==
  {e \in Event :
     \/ e.kind = "granted" /\ e.perms # {} /\ e.perms \intersect state[e.member] = {}
     \/ e.kind = "revoked" /\ e.perms # {} /\ e.perms \subseteq state[e.member]
     \/ e.kind = "removed" /\ e.perms = {} /\ state[e.member] # {}}

Announces(state, e) ==
  \/ e.kind = "granted" /\ state[e.member] = {}
  \/ e.kind = "removed"

Checkpoint(n, state, es) ==
  LET before(i) == IF i = 1 THEN state ELSE Effect(state, es[1]) IN
  [events |-> es,
   after |-> CASE Len(es) = 0 -> state
               [] Len(es) = 1 -> Effect(state, es[1])
               [] Len(es) = 2 -> Effect(Effect(state, es[1]), es[2]),
   announced |-> {<<n, i>> : i \in {j \in DOMAIN es : Announces(before(j), es[j])}}]

(* The subscription delivers from the moment it was opened. *)
Produce ==
  LET n == Tip + 1
      state == After(Tip)
  IN
  /\ Tip < MaxChain
  /\ \E es \in {<<>>} \union {<<e>> : e \in Possible(state)}
               \union UNION {{<<e, f>> : f \in Possible(Effect(state, e))} : e \in Possible(state)} :
       chain' = Append(chain, Checkpoint(n, state, es))
  /\ stream' = IF live THEN Append(stream, n) ELSE stream
  /\ UNCHANGED <<durable, pruned, faults, live, plan, done, inserting, storeVars, historyVars>>

Prune ==
  /\ faults < MaxFaults
  /\ pruned < Tip
  /\ pruned' = pruned + 1
  /\ faults' = faults + 1
  /\ UNCHANGED <<durable, chain, syncVars, storeVars, historyVars>>

-----------------------------------------------------------------------------
(* Writing to Postgres. *)

(* run_db logs an error and goes on: a write that fails leaves one of the  *)
(* states in partial behind.  The in-memory store writes nothing.          *)
run_db(written, partial) ==
  \/ /\ ~durable
     /\ UNCHANGED <<dbVars, faults, unsaved>>
  \/ /\ durable
     /\ saved' = written[1] /\ rows' = written[2]
     /\ UNCHANGED <<faults, unsaved>>
  \/ /\ durable
     /\ faults < MaxFaults
     /\ \E left \in partial : saved' = left[1] /\ rows' = left[2]
     /\ faults' = faults + 1
     /\ unsaved' = TRUE

-----------------------------------------------------------------------------
(* Reading the stream and the tip. *)

(* Mutant: the first missed checkpoint is taken for the last applied one. *)
backfill_from_next(last, streamed, limit) ==
  IF limit = 0 \/ streamed <= last + 1
  THEN [start |-> streamed, truncated |-> streamed > last + 1]
  ELSE IF streamed - (last + 1) > limit
  THEN [start |-> streamed - limit, truncated |-> TRUE]
  ELSE [start |-> last + 2, truncated |-> FALSE]

(* [start, end) to replay before the streamed checkpoint, as its start and *)
(* whether older checkpoints are given up; start = streamed when none.     *)
backfill_range(last, streamed, limit) ==
  IF limit = 0 \/ streamed <= last + 1
  THEN [start |-> streamed, truncated |-> streamed > last + 1]
  ELSE IF streamed - (last + 1) > limit
  THEN [start |-> streamed - limit, truncated |-> TRUE]
  ELSE [start |-> last + 1, truncated |-> FALSE]

Span(from, to) == [i \in 1..(to - from + 1) |-> from + i - 1]

(* A cursor below the last one is taken for a restarted chain: the store   *)
(* is emptied and the checkpoint applied to the empty store.               *)
ingest_checkpoint(c) ==
  LET range == backfill_range(cursor, c, BackfillMax) IN
  \/ /\ cursor # NoCursor /\ c < cursor
     /\ members' = NoMembers
     /\ cursor' = NoCursor
     /\ run_db(<<NoCursor, NoMembers>>, {<<saved, rows>>, <<saved, NoMembers>>})
     /\ plan' = <<c>>
     /\ cleared' = TRUE
     /\ UNCHANGED skipped
  \/ /\ cursor # NoCursor /\ c = cursor
     /\ plan' = <<>>
     /\ UNCHANGED <<members, cursor, dbVars, faults, cleared, skipped, unsaved>>
  \/ /\ cursor # NoCursor /\ c > cursor
     /\ plan' = Span(range.start, c)
     /\ skipped' = (skipped \/ range.truncated)
     /\ UNCHANGED <<members, cursor, dbVars, faults, cleared, unsaved>>
  \/ /\ cursor = NoCursor
     /\ plan' = <<c>>
     /\ skipped' = (skipped \/ c > 1)
     /\ UNCHANGED <<members, cursor, dbVars, faults, cleared, unsaved>>

(* run_subscription: subscribe first, then decide on a cold-start replay. *)
Subscribe ==
  /\ ~live
  /\ live' = TRUE
  /\ stream' = <<>>
  /\ plan' = IF cursor = NoCursor THEN <<CatchUp>> ELSE <<>>
  /\ UNCHANGED <<envVars, faults, done, inserting, storeVars, historyVars>>

(* catch_up_recent: replay a window that ends below the tip, then read the *)
(* tip again and ingest it.                                                *)
catch_up_recent ==
  LET window == IF BackfillMax > StartupMin THEN BackfillMax ELSE StartupMin
      start == IF Tip > window THEN Tip - (window - 1) ELSE 1
  IN
  /\ plan = <<CatchUp>>
  /\ plan' = IF Tip = 0 THEN <<>> ELSE Span(start, Tip - 1) \o <<Latest>>
  /\ skipped' = (skipped \/ start > 1)
  /\ UNCHANGED <<envVars, faults, live, stream, done, inserting, storeVars,
                 cleared, unsaved, lost>>

fetch_latest_checkpoint ==
  /\ plan = <<Latest>>
  /\ ingest_checkpoint(Tip)
  /\ UNCHANGED <<envVars, live, stream, done, inserting, timeline, lost>>

StreamNext ==
  /\ live /\ plan = <<>>
  /\ stream # <<>>
  /\ stream' = Tail(stream)
  /\ ingest_checkpoint(Head(stream))
  /\ UNCHANGED <<envVars, live, done, inserting, timeline, lost>>

(* Mutant: a service that has a cursor does not poll. *)
poll_when_cold ==
  /\ live /\ plan = <<>>
  /\ Tip > 0 /\ cursor = NoCursor
  /\ ingest_checkpoint(Tip)
  /\ UNCHANGED <<envVars, live, stream, done, inserting, timeline, lost>>

(* Nothing arrived for STREAM_IDLE; what the node sent may still be under  *)
(* way.                                                                    *)
poll_latest ==
  /\ live /\ plan = <<>>
  /\ Tip > 0
  /\ ingest_checkpoint(Tip)
  /\ UNCHANGED <<envVars, live, stream, done, inserting, timeline, lost>>

-----------------------------------------------------------------------------
(* Applying checkpoints. *)

Working == live /\ plan # <<>> /\ Head(plan) > 0
Current == Head(plan)

(* Only the last cursor of a plan comes with its content; the others are   *)
(* read from the ledger when their turn comes.                             *)
Replayed == Len(plan) > 1
Available == ~Replayed \/ Current > pruned

(* Mutant: had_messaging is read after the store was updated. *)
SystemMessageAfterUpdate(e) ==
  IF Announces(Effect(members, e), e) THEN {<<Current, done + 1>>} ELSE {}

(* The message is decided by what the store held before the event. *)
SystemMessage(e) ==
  IF Announces(members, e) THEN {<<Current, done + 1>>} ELSE {}

(* Grants and revocations are written one permission at a time. *)
PartlyWritten(e) ==
  {<<saved, rows>>}
    \union {<<saved, Effect(rows, [e EXCEPT !.perms = ps])>> : ps \in SUBSET e.perms}

(* apply_event: the cache, then Postgres, then the system message.  Grants *)
(* and revocations are absolute, so applying one twice is harmless.        *)
apply_event ==
  LET e == chain[Current].events[done + 1] IN
  /\ Working /\ Available
  /\ inserting = {}
  /\ done < Len(chain[Current].events)
  /\ members' = Effect(members, e)
  /\ run_db(<<saved, Effect(rows, e)>>, PartlyWritten(e) \ {<<saved, Effect(rows, e)>>})
  /\ inserting' = SystemMessage(e)
  /\ done' = done + 1
  /\ UNCHANGED <<envVars, live, stream, plan, cursor, timeline, cleared, skipped, lost>>

(* A key that is already stored is skipped (DuplicateIdempotencyKey); any  *)
(* other error of the database is logged and the message given up.         *)
insert_system_message ==
  /\ inserting # {}
  /\ inserting' = {}
  /\ \/ /\ timeline' = timeline \union inserting
        /\ UNCHANGED <<faults, lost>>
     \/ /\ faults < MaxFaults
        /\ faults' = faults + 1
        /\ lost' = TRUE
        /\ UNCHANGED timeline
  /\ UNCHANGED <<envVars, live, stream, plan, done, cursor, members, dbVars,
                 cleared, skipped, unsaved>>

(* The cursor moves, in memory and in the database, past an applied        *)
(* checkpoint, or past one the node has pruned.                            *)
AdvanceCursor ==
  /\ Working
  /\ inserting = {}
  /\ Available => done = Len(chain[Current].events)
  /\ cursor' = Current
  /\ run_db(<<Current, rows>>, {<<saved, rows>>})
  /\ plan' = Tail(plan)
  /\ done' = 0
  /\ skipped' = (skipped \/ ~Available)
  /\ UNCHANGED <<envVars, live, stream, inserting, members, timeline, cleared, lost>>

-----------------------------------------------------------------------------
(* Faults. *)

(* The stream ends, or a ledger read fails or times out: reconnect. *)
Disconnect ==
  /\ faults < MaxFaults
  /\ live
  /\ plan # <<>> => Head(plan) < 0 \/ (Replayed /\ done = 0)
  /\ live' = FALSE
  /\ stream' = <<>>
  /\ plan' = <<>>
  /\ faults' = faults + 1
  /\ UNCHANGED <<envVars, done, inserting, storeVars, historyVars>>

(* The process dies at any point and restarts from what the database has;  *)
(* the timeline is always in the database.                                 *)
Crash ==
  /\ faults < MaxFaults
  /\ faults' = faults + 1
  /\ live' = FALSE
  /\ stream' = <<>>
  /\ plan' = <<>>
  /\ done' = 0
  /\ inserting' = {}
  /\ lost' = (lost \/ inserting # {})
  /\ cursor' = saved
  /\ members' = rows
  /\ UNCHANGED <<envVars, dbVars, timeline, cleared, skipped, unsaved>>

-----------------------------------------------------------------------------
Relayer ==
  \/ Subscribe \/ catch_up_recent \/ fetch_latest_checkpoint
  \/ StreamNext \/ poll_latest
  \/ apply_event \/ insert_system_message \/ AdvanceCursor

Next == Produce \/ Prune \/ Relayer \/ Disconnect \/ Crash

Fairness ==
  /\ WF_vars(Subscribe) /\ WF_vars(catch_up_recent) /\ WF_vars(fetch_latest_checkpoint)
  /\ WF_vars(StreamNext) /\ WF_vars(poll_latest)
  /\ WF_vars(apply_event) /\ WF_vars(insert_system_message) /\ WF_vars(AdvanceCursor)

Spec == Init /\ [][Next]_vars /\ Fairness

-----------------------------------------------------------------------------
(* Properties. *)

Faithful == ~cleared /\ ~skipped /\ ~unsaved

(* The cursor only passes checkpoints that are applied, one after the      *)
(* other, and when it does the store is exactly the chain's state at that  *)
(* checkpoint, in the cache and in what a restart would load: through gaps *)
(* in the stream, reconnects, and crashes that left a checkpoint half      *)
(* applied (ingest_checkpoint, replay_checkpoints, apply_event).  Excepted *)
(* are the ways in which the code gives up state: a cleared store, pruned  *)
(* checkpoints or ones beyond the window, and failed database writes.      *)
StoreFollowsChain ==
  [][cursor' # cursor /\ cursor' # NoCursor /\ Faithful'
       => /\ cursor' = cursor + 1
          /\ members' = After(cursor')
          /\ durable => saved' = cursor' /\ rows' = members']_vars

(* The state is well typed, and                                            *)
(* every start and every end of a membership up to the cursor has its      *)
(* system message, although the message is inserted after the store is     *)
(* updated and a replayed event finds the store already updated; only a    *)
(* crash exactly between the two, or a failed insert, loses it             *)
(* (apply_event, insert_system_message).                                   *)
AnnouncementsKept ==
  /\ TypeOK
  /\ Faithful /\ ~lost
       => \A n \in 1..cursor : chain[n].announced \subseteq timeline

(* Once the chain pauses, the store reaches its state and stays there,     *)
(* whatever the order of streamed, replayed and polled checkpoints, if     *)
(* the store is not cleared and nothing is skipped (run_subscription).     *)
EventuallyInSync ==
  []Faithful => <>[](cursor = Tip /\ members = After(Tip))
=============================================================================
