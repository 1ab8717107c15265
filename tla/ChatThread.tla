----------------------------- MODULE ChatThread -----------------------------
(***************************************************************************)
(* The open conversation of the chat application: the useMessages hook     *)
(* with its page ledger and its session cache, over the SDK's live feed    *)
(* and the relayer's pages.  Loading, catching up, paging back, the live   *)
(* feed and a send all change one list of rows while their requests are    *)
(* in flight, and all of them move the cursors from that list.             *)
(*                                                                         *)
(* A step that changes the list includes the effects React runs after it:  *)
(* the ledger's bounds are recomputed and the list is written through to   *)
(* the cache, which trims it.                                              *)
(***************************************************************************)
EXTENDS LiveFeed

CONSTANTS
    PageSize,   \* MESSAGE_PAGE_SIZE
    MaxPages,   \* MESSAGE_CATCHUP_MAX_PAGES
    MaxCached   \* MAX_MESSAGES_PER_GROUP

ASSUME ThreadConstants ==
    /\ PageSize \in Nat \ {0}
    /\ MaxPages \in Nat \ {0}
    /\ MaxCached \in Nat \ {0}

VARIABLES
    thread,   \* "closed", "loading" (nothing shown yet) or "open"
    visible,  \* the tab is visible
    view,     \* messages: the rows of the list
    ledger,   \* pageLedgerRef
    tip,      \* lastOrderRef
    cache,    \* the session cache's entry of this thread
    load,     \* the initial load in flight
    catchup,  \* catchUpNewerMessages in flight
    older,    \* loadMore in flight
    send,     \* the send in flight
    sends,    \* sends so far
    orphaned, \* stubs of sends whose thread was left: their hook is gone
    passed    \* history: rows that were missed, dropped or overwritten

vars == <<feedVars, thread, visible, view, ledger, tip, cache, load, catchup,
          older, send, orphaned, sends, passed>>

threadVars == <<thread, visible, view, ledger, tip, cache, load, catchup,
                older, send, orphaned, sends, passed>>

(***************************************************************************)
(* Rows, pages and the ledger.                                             *)
(***************************************************************************)

\* A row of the list: its message id (a stored row's id is its order; ids
\* above MaxRows are those of optimistic stubs) and the order it is sorted by.
MaxOrder == MaxRows + MaxFaults
Row == [id : 1..MaxOrder, order : 1..MaxOrder]

OrdersOf(v) == {r.order : r \in v}
IdsOf(v) == {r.id : r \in v}
IsStub(r) == r.id > MaxRows
Stored(o) == [id |-> o, order |-> o]

\* The null of an order and of a cursor.
None == 0

Ledger == [min : 0..MaxOrder, max : 0..MaxOrder,
           fetched : SUBSET (1..MaxOrder), more : BOOLEAN]
emptyPageLedger == [min |-> None, max |-> None, fetched |-> {}, more |-> FALSE]

NoCache == [view |-> {}, ledger |-> emptyPageLedger]

\* The n least and the n greatest members of a set of orders.
Least(S, n)    == {o \in S : Cardinality({p \in S : p < o}) < n}
Greatest(S, n) == {o \in S : Cardinality({p \in S : p > o}) < n}

\* A request for a page, and its answer once the relayer gave it.
NoPage == [rows |-> {}, hasNext |-> FALSE, got |-> FALSE]
NoRequest == [cursor |-> None, pages |-> 0, page |-> NoPage]
Ask(c, n) == [cursor |-> c, pages |-> n, page |-> NoPage]

\* The initial load: what it has merged so far and its request.
NoLoad == [st |-> "none", base |-> {}, ledger |-> emptyPageLedger, req |-> NoRequest]

\* A send: the id of its stub and, once posted, of the stored row.
NoSend == [st |-> "none", temp |-> None, id |-> None]

\* A page of the relayer: the rows as they are when it answers, and hasNext.
Page(window, chosen) ==
    [rows |-> {Stored(o) : o \in chosen}, hasNext |-> chosen # window,
     got |-> TRUE]

\* Mutant: the page after a cursor begins one row too late.
PageFrom(c)   == LET w == {o \in 1..rows : o > c + 1} IN Page(w, Least(w, PageSize))
PageAfter(c)  == LET w == {o \in 1..rows : o > c} IN Page(w, Least(w, PageSize))
PageBefore(c) == LET w == {o \in 1..rows : o < c} IN Page(w, Greatest(w, PageSize))
TipPage       == Page(1..rows, Greatest(1..rows, PageSize))

\* Rows of the same id are replaced by the incoming ones, and a stub goes
\* once a stored row has its order.
mergeMessages(prev, incoming) ==
    LET ids  == {r.id : r \in incoming}
        byId == {r \in prev : r.id \notin ids} \cup incoming
        confirmed == OrdersOf({r \in byId : ~IsStub(r)})
    IN  {r \in byId : IsStub(r) => r.order \notin confirmed}

Widen(l, orders) ==
    IF orders = {} THEN l
    ELSE [l EXCEPT !.min = Min(orders \cup IF @ = None THEN {} ELSE {@}),
                   !.max = Max(orders \cup {@})]

applyNewerOrdersToLedger(l, orders) == Widen(l, orders)

\* An empty page that says there is more ends the paging.
applyOlderPageToLedger(l, before, page) ==
    [Widen(l, OrdersOf(page.rows)) EXCEPT
        !.fetched = @ \cup {before},
        !.more = page.hasNext /\ page.rows # {}]

ledgerFromMessages(v, more) ==
    [Widen(emptyPageLedger, OrdersOf(v)) EXCEPT !.more = more]

shouldFetchOlderPage ==
    /\ ledger.more
    /\ older = NoRequest
    /\ load.st = "none"
    /\ view # {}
    /\ ledger.min # None
    /\ ledger.min \notin ledger.fetched

\* What the cache keeps of a list: its newest rows, and a ledger that no
\* longer protects the pages it dropped.
trimMessagesWithLedger(v, l) ==
    LET kept == {r \in v : Cardinality({q \in v : q.order > r.order}) < MaxCached}
        min  == Min(OrdersOf(kept))
    IN  IF Cardinality(v) <= MaxCached
        THEN [view |-> v, ledger |-> l]
        ELSE [view   |-> kept,
              ledger |-> [min |-> min, max |-> Max(OrdersOf(kept)), more |-> TRUE,
                          fetched |-> {c \in l.fetched : c < min}]]

\* A list is shown: the effects that follow it.
Show(v, l) ==
    LET bounded == IF v = {} THEN l
                   ELSE [l EXCEPT !.min = Min(OrdersOf(v)), !.max = Max(OrdersOf(v))]
        stored  == trimMessagesWithLedger(v, bounded)
    IN  /\ view' = v
        /\ ledger' = stored.ledger
        /\ cache' = stored
        /\ tip' = IF v = {} THEN tip ELSE Max(OrdersOf(v))

\* The stored rows between the oldest and the newest row of v that v is
\* without.
Holes(v) == IF v = {} THEN {}
            ELSE {o \in Min(OrdersOf(v))..Max(OrdersOf(v)) : o <= rows} \ IdsOf(v)

TypeOK ==
    /\ FeedTypeOK
    /\ thread \in {"closed", "loading", "open"}
    /\ visible \in BOOLEAN
    /\ view \subseteq Row
    /\ ledger \in Ledger
    /\ tip \in 0..MaxOrder
    /\ cache.view \subseteq Row /\ cache.ledger \in Ledger
    /\ load.st \in {"none", "cold", "warm"}
    /\ \A r \in {load.req, catchup, older} :
          /\ r.cursor \in 0..MaxOrder
          /\ r.pages \in 0..MaxPages
          /\ r.page.rows \subseteq Row
    /\ send \in [st : {"none", "posting", "stored"}, temp : 0..MaxOrder,
                 id : 0..MaxRows]
    /\ orphaned \subseteq MaxRows + 1..MaxOrder
    /\ sends \in 0..MaxFaults
    /\ passed \subseteq 1..MaxOrder

Init ==
    /\ FeedInit
    /\ thread = "closed"
    /\ visible = TRUE
    /\ view = {}
    /\ ledger = emptyPageLedger
    /\ tip = None
    /\ cache = NoCache
    /\ load = NoLoad
    /\ catchup = NoRequest
    /\ older = NoRequest
    /\ send = NoSend
    /\ orphaned = {}
    /\ sends = 0
    /\ passed = {}

(***************************************************************************)
(* Opening and closing the thread.                                         *)
(***************************************************************************)

\* With a cached window the thread shows it at once and only catches up;
\* without one it shows nothing until the newest page is there.
OpenThread ==
    /\ thread = "closed"
    /\ IF cache.view # {}
       THEN /\ thread' = "open"
            /\ Show(cache.view, cache.ledger)
            /\ load' = [st |-> "warm", base |-> cache.view, ledger |-> cache.ledger,
                        req |-> Ask(cache.ledger.max, 1)]
            /\ UNCHANGED passed
       ELSE /\ thread' = "loading"
            /\ load' = [NoLoad EXCEPT !.st = "cold"]
            /\ passed' = {}
            /\ UNCHANGED <<view, ledger, tip, cache>>
    /\ UNCHANGED <<feedVars, visible, catchup, older, send, orphaned, sends>>

\* Another thread is selected.  The view is keyed by its thread, so the hook
\* is unmounted: the load and the subscription are cancelled, and what its
\* requests and its send still bring changes no list any more.
CloseThread ==
    /\ thread # "closed"
    /\ thread' = "closed"
    /\ view' = {}
    /\ ledger' = emptyPageLedger
    /\ tip' = None
    /\ load' = NoLoad
    /\ sub' = Off
    /\ catchup' = NoRequest
    /\ older' = NoRequest
    /\ orphaned' = (orphaned \cup {send.temp}) \ {None}
    /\ UNCHANGED <<rows, unpublished, mode, faults, visible, cache, send, sends, passed>>

\* The cache forgets the thread: newer threads push it out, or the user
\* logs out.
Evict ==
    /\ thread = "closed"
    /\ cache # NoCache
    /\ cache' = NoCache
    /\ UNCHANGED <<feedVars, thread, visible, view, ledger, tip, load, catchup,
                   older, send, orphaned, sends, passed>>

(***************************************************************************)
(* The initial load.                                                       *)
(***************************************************************************)

\* What the client makes of a page: every row, or, when a key server does
\* not answer, every row but one.
Decrypted(page) ==
    {[page |-> page, lost |-> {}]} \cup
    IF faults < MaxFaults
    THEN {[page |-> [page EXCEPT !.rows = @ \ {r}], lost |-> {r.order}] : r \in page.rows}
    ELSE {}

\* The answer of a request comes back as a; its rows are applied later.
Answer(a) ==
    /\ faults' = faults + Cardinality(a.lost)
    /\ passed' = passed \cup a.lost
    /\ UNCHANGED <<rows, unpublished, mode, sub>>

LoadAnswered ==
    /\ load.st # "none"
    /\ ~load.req.page.got
    /\ \E a \in Decrypted(IF load.st = "cold" THEN TipPage ELSE PageAfter(load.req.cursor)) :
          Answer(a) /\ load' = [load EXCEPT !.req.page = a.page]
    /\ UNCHANGED <<thread, visible, view, ledger, tip, cache, catchup, older,
                   send, orphaned, sends>>

\* Rows another request or the feed brought that a load's list is without, or
\* has only under the order of a stub.
Overwritten(v) == {o \in Orders : Stored(o) \in view \ v}

\* The newest page replaces whatever is shown.
LoadedCold ==
    /\ load.st = "cold"
    /\ load.req.page.got
    /\ thread' = "open"
    /\ Show(load.req.page.rows,
            ledgerFromMessages(load.req.page.rows, load.req.page.hasNext))
    /\ load' = NoLoad
    /\ passed' = passed \cup Overwritten(load.req.page.rows)
    /\ UNCHANGED <<feedVars, visible, catchup, older, send, orphaned, sends>>

\* A catch-up asks for the next page unless this one was empty or the last.
LastPage(req) ==
    req.page.rows = {} \/ ~req.page.hasNext \/ req.pages = MaxPages

\* catchUpFrom: a page is merged into the cached rows; after the last one
\* the result replaces whatever is shown, rows the feed brought included.
LoadedWarm ==
    LET merged == mergeMessages(load.base, load.req.page.rows)
        l == applyNewerOrdersToLedger(load.ledger, OrdersOf(load.req.page.rows))
    IN  /\ load.st = "warm"
        /\ load.req.page.got
        /\ IF LastPage(load.req)
           THEN /\ Show(merged, l)
                /\ load' = NoLoad
                /\ passed' = passed \cup Overwritten(merged)
           ELSE /\ load' = [load EXCEPT !.base = merged, !.ledger = l,
                                        !.req = Ask(l.max, load.req.pages + 1)]
                /\ UNCHANGED <<view, ledger, tip, cache, passed>>
        /\ UNCHANGED <<feedVars, thread, visible, catchup, older, send, orphaned,
                       sends>>

\* The load fails: the error is shown over what is there.
LoadFails ==
    /\ load.st # "none"
    /\ Fault
    /\ load' = NoLoad
    /\ thread' = "open"
    /\ UNCHANGED <<rows, unpublished, mode, sub, visible, view, ledger,
                   tip, cache, catchup, older, send, orphaned, sends, passed>>

(***************************************************************************)
(* Catching up and paging back.  The two may be in flight together.        *)
(***************************************************************************)

catchUpNewerMessages ==
    IF catchup = NoRequest /\ load.st = "none" /\ thread = "open" /\ ledger.max # None
    THEN catchup' = Ask(ledger.max, 1)
    ELSE UNCHANGED catchup

\* The window gets the focus.
Focus ==
    /\ visible
    /\ catchUpNewerMessages
    /\ UNCHANGED <<feedVars, thread, visible, view, ledger, tip, cache, load,
                   older, send, orphaned, sends, passed>>

CatchUpAnswered ==
    /\ catchup # NoRequest
    /\ ~catchup.page.got
    /\ \E a \in Decrypted(PageAfter(catchup.cursor)) :
          Answer(a) /\ catchup' = [catchup EXCEPT !.page = a.page]
    /\ UNCHANGED <<thread, visible, view, ledger, tip, cache, load, older, send,
                   orphaned, sends>>

CaughtUp ==
    LET l == applyNewerOrdersToLedger(ledger, OrdersOf(catchup.page.rows))
    IN  /\ catchup.page.got
        /\ Show(mergeMessages(view, catchup.page.rows), l)
        /\ catchup' = IF LastPage(catchup) THEN NoRequest
                      ELSE Ask(l.max, catchup.pages + 1)
        /\ UNCHANGED <<feedVars, thread, visible, load, older, send, orphaned, sends,
                       passed>>

loadMore ==
    /\ thread # "closed"
    /\ shouldFetchOlderPage
    /\ older' = Ask(ledger.min, 1)
    /\ UNCHANGED <<feedVars, thread, visible, view, ledger, tip, cache, load,
                   catchup, send, orphaned, sends, passed>>

OlderAnswered ==
    /\ older # NoRequest
    /\ ~older.page.got
    /\ \E a \in Decrypted(PageBefore(older.cursor)) :
          Answer(a) /\ older' = [older EXCEPT !.page = a.page]
    /\ UNCHANGED <<thread, visible, view, ledger, tip, cache, load, catchup,
                   send, orphaned, sends>>

OlderLoaded ==
    /\ older.page.got
    /\ older' = NoRequest
    /\ Show(mergeMessages(view, older.page.rows),
            applyOlderPageToLedger(ledger, older.cursor, older.page))
    /\ UNCHANGED <<feedVars, thread, visible, load, catchup, send, orphaned, sends,
                   passed>>

\* A request fails: it is given up until the next focus or scroll.
RequestFails ==
    /\ Fault
    /\ \/ catchup # NoRequest /\ catchup' = NoRequest /\ UNCHANGED older
       \/ older # NoRequest /\ older' = NoRequest /\ UNCHANGED catchup
    /\ UNCHANGED <<rows, unpublished, mode, sub, thread, visible, view,
                   ledger, tip, cache, load, send, orphaned, sends, passed>>

(***************************************************************************)
(* The live feed.                                                          *)
(***************************************************************************)

\* New rows the generator or its socket has in hand.
InHand(s) == Range(s.queue) \cup {s.held}

\* Rows the stream will not bring any more although it did not hand them
\* out: published before the socket was open, overtaken by a newer row, in
\* a lag, queued when the generator stopped, or below the newest page that
\* answers a poll without a cursor.
Missed ==
    LET early == IF ~sub.open /\ sub'.open
                 THEN {o \in sub.last + 1..rows : o \notin unpublished'} ELSE {}
        dropped == IF sub.open THEN unpublished \ unpublished' ELSE {}
        skipped == IF sub.st = "polling" /\ sub'.st = "pollbusy"
                   THEN {o \in sub.last + 1 .. sub'.held - 1 : Stored(o) \notin view} ELSE {}
    IN  early \cup skipped \cup ((dropped \cup Range(sub.queue)) \ InHand(sub'))

Feed ==
    /\ FeedNext
    /\ passed' = passed \cup Missed
    /\ UNCHANGED <<thread, visible, view, ledger, tip, cache, load, catchup,
                   older, send, orphaned, sends>>

Subscribe ==
    /\ thread = "open"
    /\ visible
    /\ sub.st = "off"
    /\ sub' = Subscribed(tip)
    /\ UNCHANGED <<rows, unpublished, mode, faults, threadVars>>

\* The tab is hidden: the subscription is aborted.
HideTab ==
    /\ visible
    /\ visible' = FALSE
    /\ sub' = Off
    /\ UNCHANGED <<rows, unpublished, mode, faults, thread, view, ledger,
                   tip, cache, load, catchup, older, send, orphaned, sends, passed>>

\* It is shown again: the hook catches up and subscribes anew.
ShowTab ==
    /\ ~visible
    /\ visible' = TRUE
    /\ catchUpNewerMessages
    /\ UNCHANGED <<feedVars, thread, view, ledger, tip, cache, load, older, send,
                   orphaned, sends, passed>>

\* The event at hand is merged into the list.
Deliver ==
    LET v == mergeMessages(view, {Stored(sub.held)}) IN
    /\ Consuming
    /\ Show(v, ledger)
    /\ sub' = AfterEvent
    /\ UNCHANGED <<rows, unpublished, mode, faults>>
    /\ passed' = passed \cup Missed
    /\ UNCHANGED <<thread, visible, load, catchup, older, send, orphaned, sends>>

\* The event cannot be decrypted yet and is skipped.
DeliverSkips ==
    /\ Consuming
    /\ Fault
    /\ sub' = AfterEvent
    /\ UNCHANGED <<rows, unpublished, mode>>
    /\ passed' = passed \cup Missed \cup {sub.held}
    /\ UNCHANGED <<thread, visible, view, ledger, tip, cache, load, catchup,
                   older, send, orphaned, sends>>

(***************************************************************************)
(* Sending.                                                                *)
(***************************************************************************)

\* Another member's message is stored.
PeerSends ==
    /\ StoreRow
    /\ UNCHANGED <<mode, sub, faults, threadVars>>

\* performSend shows a stub under the order it expects.
performSend ==
    LET temp == MaxRows + sends + 1 IN
    /\ thread # "closed"
    /\ send = NoSend
    /\ Fault
    /\ Show(mergeMessages(view, {[id |-> temp, order |-> tip + 1]}), ledger)
    /\ send' = [NoSend EXCEPT !.st = "posting", !.temp = temp]
    /\ sends' = sends + 1
    /\ passed' = passed \cup {tip + 1}
    /\ UNCHANGED <<rows, unpublished, mode, sub, thread, visible, load, catchup,
                   older, orphaned>>

SendStored ==
    /\ send.st = "posting"
    /\ StoreRow
    /\ send' = [send EXCEPT !.st = "stored", !.id = rows + 1]
    /\ UNCHANGED <<mode, sub, faults, thread, visible, view, ledger, tip,
                   cache, load, catchup, older, orphaned, sends, passed>>

\* Mutant: the stub stays beside the confirmed row.
ConfirmedTwice ==
    view \cup {[r EXCEPT !.id = send.id] : r \in {q \in view : q.id = send.temp}}

\* The list without the stub of the send; it keeps its place and its order
\* under the relayer's id unless the row itself has arrived.
Confirmed ==
    LET rest == {r \in view : r.id # send.temp}
    IN  IF send.id \in IdsOf(view) THEN rest
        ELSE rest \cup {[r EXCEPT !.id = send.id] : r \in view \ rest}

\* A send changes the list of the hook it was made in, if that is still there.
EndSend(v) ==
    /\ send' = NoSend
    /\ IF send.temp \in orphaned THEN UNCHANGED <<view, ledger, tip, cache>>
       ELSE Show(v, ledger)

SendConfirmed ==
    /\ send.st = "stored"
    /\ EndSend(Confirmed)
    /\ UNCHANGED <<feedVars, thread, visible, load, catchup, older, orphaned,
                   sends, passed>>

\* The post is refused, or its answer is lost after the row was stored.
SendFails ==
    /\ send # NoSend
    /\ EndSend({r \in view : r.id # send.temp})
    /\ UNCHANGED <<feedVars, thread, visible, load, catchup, older, orphaned,
                   sends, passed>>

Next ==
    \/ OpenThread \/ CloseThread \/ Evict
    \/ LoadAnswered \/ LoadedCold \/ LoadedWarm \/ LoadFails
    \/ Focus \/ CatchUpAnswered \/ CaughtUp \/ RequestFails
    \/ loadMore \/ OlderAnswered \/ OlderLoaded
    \/ Feed \/ Subscribe \/ HideTab \/ ShowTab \/ Deliver \/ DeliverSkips
    \/ PeerSends \/ performSend \/ SendStored \/ SendConfirmed \/ SendFails

Spec ==
    /\ Init
    /\ [][Next]_vars
    /\ WF_vars(Subscribe)
    /\ WF_vars(Feed /\ Poll)
    /\ WF_vars(Deliver)

(***************************************************************************)
(* Properties.                                                             *)
(***************************************************************************)

\* Every stored row the open list is without, between its oldest and its
\* newest row, was missed in one of the ways the code accepts: lost by the
\* stream, below the newest page that answers a poll without a cursor,
\* undecryptable, shadowed by an optimistic stub or overwritten by a load.
\* The cursors of loads, catch-ups, pages and polls skip nothing else.
GapsExplained == thread = "open" => Holes(view) \subseteq passed

\* The state is well typed, and
\* once a send has ended no stub of it stays in the list, unless the thread
\* was left while the send was under way (the cached copy keeps the stub).
StubSettled ==
    /\ TypeOK
    /\ \A r \in view : IsStub(r) => r.id = send.temp \/ r.id \in orphaned

\* Polling without websockets brings every row to a thread that stays open
\* and visible, whatever loads, pages and sends happen meanwhile, unless the
\* relayer refuses a poll or the row was missed in one of the ways above: one
\* that lies below the page a poll without a cursor returned stays away.
PollingKeepsUp ==
    \A o \in Orders :
       mode = "poll" /\ thread = "open" /\ o <= rows ~>
          \/ o \in IdsOf(view) \cup passed
          \/ view # {} /\ o < Min(OrdersOf(view))
          \/ thread # "open" \/ ~visible \/ sub.st = "failed"
=============================================================================
