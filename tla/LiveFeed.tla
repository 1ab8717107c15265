------------------------------ MODULE LiveFeed ------------------------------
(***************************************************************************)
(* The realtime stream of one group, from the relayer's hub to the loop    *)
(* that consumes it: the relayer stores rows 1, 2, 3, ... and publishes    *)
(* each one afterwards, possibly in another order; a socket forwards what  *)
(* is published while it is open; the SDK's generator hands the events to  *)
(* its consumer one at a time, reconnects, and falls back to polling.      *)
(*                                                                         *)
(* A row is its order.  Edits, tombstones, reactions, typing, presence and *)
(* receipts share the stream but carry absolute state; they are not        *)
(* modelled here.                                                          *)
(***************************************************************************)
EXTENDS Naturals, Sequences, FiniteSets, FiniteSetsExt, SequencesExt

CONSTANTS
    PollLimit,    \* DEFAULT_PAGE_LIMIT of the relayer, which the poll leaves to it
    MaxRows,      \* bound: rows the relayer ever stores
    MaxFaults     \* bound: faults of the network, the hub or a key server, and sends

ASSUME FeedConstants ==
    /\ PollLimit \in Nat \ {0}
    /\ MaxRows \in Nat \ {0}
    /\ MaxFaults \in Nat

VARIABLES
    rows,         \* number of rows stored; row o has order o
    unpublished,  \* stored rows an open socket may still forward; without one,
                  \* those whose publication is not settled
    mode,         \* "ws" (preferWebSocket) or "poll"; fixed
    sub,          \* the subscription's generator and its socket
    faults        \* faults and sends so far

feedVars == <<rows, unpublished, mode, sub, faults>>

Orders == 1..MaxRows

\* No row in the consumer's hands.
Nothing == 0

(***************************************************************************)
(* st     off        not subscribed                                        *)
(*        connecting the socket is being opened, after a backoff or not    *)
(*        waiting    the generator awaits the next frame                   *)
(*        busy       the consumer holds an event of the socket             *)
(*        polling    between two requests of the HTTP fallback             *)
(*        pollbusy   the consumer holds a polled row                       *)
(*        ended      the iterable completed                                *)
(*        failed     the iterable threw                                    *)
(* start  params.afterOrder            last   lastOrder of the generator   *)
(*        (both 0 while undefined)                                         *)
(* open   whether the socket is open   queue  frames not yet taken         *)
(* held   the row being consumed                                           *)
(***************************************************************************)
SubState == {"off", "connecting", "waiting", "busy", "polling", "pollbusy",
             "ended", "failed"}

Off == [st |-> "off", start |-> 0, last |-> 0, open |-> FALSE,
        queue |-> <<>>, held |-> Nothing]

FeedTypeOK ==
    /\ rows \in 0..MaxRows
    /\ unpublished \subseteq 1..rows
    /\ mode \in {"ws", "poll"}
    /\ sub \in [st : SubState, start : Nat, last : Nat, open : BOOLEAN, queue : Seq(Orders),
                held : 0..MaxRows]
    /\ \A i \in DOMAIN sub.queue :      \* frames come in the order of their rows
          sub.queue[i] > IF i = 1 THEN sub.held ELSE sub.queue[i - 1]
    /\ faults \in 0..MaxFaults

FeedInit ==
    /\ rows = 0
    /\ unpublished = {}
    /\ mode \in {"ws", "poll"}
    /\ sub = Off
    /\ faults = 0

Fault == faults < MaxFaults /\ faults' = faults + 1

(***************************************************************************)
(* The relayer.                                                            *)
(***************************************************************************)

\* A row is stored under the next order.  Publishing matters to sockets only,
\* and a socket that was opened after a later order, that of a stub, drops it.
StoreRow ==
    /\ rows < MaxRows
    /\ rows' = rows + 1
    /\ unpublished' = IF mode = "ws" /\ (sub.open => rows + 1 > sub.last)
                      THEN unpublished \cup {rows + 1} ELSE unpublished

\* The socket hands a frame to the generator if it waits, else queues it.
PushFrame(s, o) ==
    IF s.st = "waiting"
    THEN [s EXCEPT !.st = "busy", !.held = o]
    ELSE [s EXCEPT !.queue = Append(@, o)]

\* Handlers publish after they stored, in any order.  The connection moves
\* its after_order to the row and so drops the rows below it when they come.
Publish(o) ==
    /\ sub.open
    /\ o \in unpublished
    /\ unpublished' = {p \in unpublished : p > o}
    /\ sub' = PushFrame(sub, o)
    /\ UNCHANGED <<rows, mode, faults>>

\* The connection lags behind the hub's buffer: the event is skipped.
PublishLagged(o) ==
    /\ sub.open
    /\ o \in unpublished
    /\ Fault
    /\ unpublished' = unpublished \ {o}
    /\ UNCHANGED <<rows, mode, sub>>

(***************************************************************************)
(* The generator.                                                          *)
(***************************************************************************)

\* A new subscription after order o.
Subscribed(o) ==
    [Off EXCEPT !.st = IF mode = "ws" THEN "connecting" ELSE "polling",
                !.start = o, !.last = o]

\* A lost connection: another attempt or, when maxReconnectAttempts is
\* spent, the HTTP fallback from the start.  The attempts are not counted.
Lost(s) ==
    {[s EXCEPT !.st = "connecting", !.open = FALSE, !.queue = <<>>],
     [Off EXCEPT !.st = "polling", !.start = s.start, !.last = s.start]}

\* The socket opens.  What was published by then is not sent again, what is
\* at or below the generator's last order will be dropped.
Connect ==
    /\ sub.st = "connecting"
    /\ sub' = [sub EXCEPT !.st = "waiting", !.open = TRUE]
    /\ \E late \in SUBSET {o \in unpublished : o > sub.last} : unpublished' = late
    /\ UNCHANGED <<rows, mode, faults>>

ConnectFails ==
    /\ sub.st = "connecting"
    /\ Fault
    /\ sub' \in Lost(sub)
    /\ UNCHANGED <<rows, unpublished, mode>>

\* The socket closes.  A waiting generator throws and retries; one whose
\* consumer is busy only learns of it when it is resumed.
SocketCloses ==
    /\ sub.open
    /\ Fault
    /\ IF sub.st = "waiting" THEN sub' \in Lost(sub)
       ELSE sub' = [sub EXCEPT !.open = FALSE]
    /\ UNCHANGED <<rows, unpublished, mode>>

\* The consumer asks for the next event.  With the socket gone the loop
\* condition is false and the iterable completes, whatever is queued.
Resumed(s) ==
    LET r == [s EXCEPT !.held = Nothing, !.last = s.held]
    IN  CASE ~s.open -> [r EXCEPT !.st = "ended", !.queue = <<>>]
          [] s.open /\ s.queue # <<>> ->
                [r EXCEPT !.held = Head(s.queue), !.queue = Tail(s.queue)]
          [] OTHER -> [r EXCEPT !.st = "waiting"]

\* Mutant: the cursor does not follow the polled row.
PollResumedInPlace(s) == [s EXCEPT !.st = "polling", !.held = Nothing]

\* A polled row was consumed: the cursor moves to it.
PollResumed(s) == [s EXCEPT !.st = "polling", !.last = s.held, !.held = Nothing]

\* The first row of a poll.  With lastOrder the relayer returns the rows
\* after it; without one (after an empty or a failed load) its newest page,
\* and the rows below that page are never polled.
FirstPolled ==
    IF sub.last = 0 /\ rows > PollLimit THEN rows - PollLimit + 1 ELSE sub.last + 1

\* A page is yielded oldest first, one row at a time.
Poll ==
    /\ sub.st = "polling"
    /\ sub.last < rows
    /\ sub' = [sub EXCEPT !.st = "pollbusy", !.held = FirstPolled]
    /\ UNCHANGED <<rows, unpublished, mode, faults>>

\* The relayer refuses a poll (4xx): the iterable throws.
PollRefused ==
    /\ sub.st = "polling"
    /\ Fault
    /\ sub' = [sub EXCEPT !.st = "failed"]
    /\ UNCHANGED <<rows, unpublished, mode>>

Consuming == sub.st \in {"busy", "pollbusy"}

\* The consumer is done with the event it holds and asks for the next one.
AfterEvent == IF sub.st = "busy" THEN Resumed(sub) ELSE PollResumed(sub)

FeedNext ==
    \/ \E o \in Orders : Publish(o) \/ PublishLagged(o)
    \/ Connect \/ ConnectFails \/ SocketCloses
    \/ Poll \/ PollRefused
=============================================================================
