------------------------- MODULE MembershipSyncProofs -------------------------
(***************************************************************************)
(* Proofs about MembershipSync for every set of members and permissions,   *)
(* every window, every length of the chain and every number of faults.     *)
(*                                                                         *)
(* A restart may find a checkpoint half applied and applies it again from  *)
(* its first event.  Events are absolute, so what matters of the store is  *)
(* not which of them it has seen but where the ones still to come lead:    *)
(* to the chain's state after the checkpoint, from the present place in it *)
(* and from its beginning.                                                 *)
(***************************************************************************)
EXTENDS MembershipSync, SequenceTheorems, TLAPS

State == [Member -> SUBSET Perm]

(* Where the events of a checkpoint after the first k lead from s. *)
Rest(s, es, k) ==
  IF k >= Len(es) THEN s
  ELSE IF k + 1 = Len(es) THEN Effect(s, es[k + 1])
  ELSE Effect(Effect(s, es[k + 1]), es[k + 2])

(* Every checkpoint continues the chain. *)
ChainOK ==
  \A n \in 1..Tip :
    /\ Len(chain[n].events) <= 2
    /\ chain[n] = Checkpoint(n, After(n - 1), chain[n].events)

(* The work at hand: a marker comes last, and between two checkpoints      *)
(* nothing is half done.                                                   *)
PlanOK ==
  /\ ~live => plan = <<>>
  /\ \A i \in DOMAIN plan : plan[i] < 0 => i = Len(plan)
  /\ \A i \in DOMAIN plan : /\ plan[i] = CatchUp => i = 1 /\ cursor = NoCursor
                            /\ plan[i] = Latest => Tip > 0
  /\ plan = <<>> \/ Head(plan) < 0 => done = 0
  /\ done = 0 => inserting = {}

(* The store, while nothing was given up. *)
NextEvents == chain[cursor + 1].events
StoreOK ==
  /\ ~durable => saved = NoCursor /\ rows = NoMembers
  /\ Faithful =>
       /\ durable => saved = cursor /\ rows = members
       /\ cursor = Tip => done = 0 /\ members = After(cursor)
       /\ cursor < Tip => /\ Rest(members, NextEvents, done) = After(cursor + 1)
                          /\ Rest(members, NextEvents, 0) = After(cursor + 1)
       /\ \A i \in DOMAIN plan : plan[i] > 0 => plan[i] = cursor + i

(* What the contract saw before event i of the checkpoint after the        *)
(* cursor; an announcement of it that is still to come is for an event the *)
(* store has never seen.                                                   *)
Before(i) == IF i = 1 THEN After(cursor) ELSE Effect(After(cursor), NextEvents[1])
Untold(i) == done < i /\ \E j \in done + 1..i : members = Before(j)
ToldOK ==
  Faithful /\ ~lost =>
    /\ \A n \in 1..cursor : chain[n].announced \subseteq timeline
    /\ cursor < Tip =>
         \A i \in 1..2 :
           <<cursor + 1, i>> \in chain[cursor + 1].announced \ (timeline \union inserting)
             => Untold(i)

(* The inductive invariant. *)
IInv == TypeOK /\ ChainOK /\ PlanOK /\ StoreOK /\ ToldOK

-----------------------------------------------------------------------------
(* Events. *)

(* What an event does to the permissions of its member. *)
Upd(S, e) ==
  CASE e.kind = "granted" -> S \union e.perms
    [] e.kind = "revoked" -> S \ e.perms
    [] e.kind = "removed" -> {}

(* The fields of an event have their types. *)
LEMMA EventType ==
  ASSUME NEW e \in Event
  PROVE  /\ e.kind \in {"granted", "revoked", "removed"}
         /\ e.member \in Member /\ e.perms \subseteq Perm
  BY DEF Event

(* Permissions stay permissions. *)
LEMMA UpdType ==
  ASSUME NEW e \in Event, NEW S \in SUBSET Perm
  PROVE  Upd(S, e) \in SUBSET Perm
  BY EventType DEF Upd

(* An event applied twice at once does what it does once. *)
LEMMA UpdTwice ==
  ASSUME NEW e \in Event, NEW S \in SUBSET Perm
  PROVE  Upd(Upd(S, e), e) = Upd(S, e)
<1>1. CASE e.kind = "granted"
  BY <1>1 DEF Upd
<1>2. CASE e.kind = "revoked"
  BY <1>2 DEF Upd
<1>3. CASE e.kind = "removed"
  BY <1>3 DEF Upd
<1>4. QED
  BY <1>1, <1>2, <1>3, EventType

(* So do two events, applied in order and then again. *)
LEMMA UpdPairTwice ==
  ASSUME NEW e \in Event, NEW f \in Event, NEW S \in SUBSET Perm
  PROVE  Upd(Upd(Upd(Upd(S, e), f), e), f) = Upd(Upd(S, e), f)
<1>1. CASE f.kind = "removed"
  BY <1>1 DEF Upd
<1>2. CASE f.kind = "granted"
  <2>1. CASE e.kind = "granted"
    BY <1>2, <2>1 DEF Upd
  <2>2. CASE e.kind = "revoked"
    BY <1>2, <2>2 DEF Upd
  <2>3. CASE e.kind = "removed"
    BY <1>2, <2>3 DEF Upd
  <2>4. QED
    BY <2>1, <2>2, <2>3, EventType
<1>3. CASE f.kind = "revoked"
  <2>1. CASE e.kind = "granted"
    BY <1>3, <2>1 DEF Upd
  <2>2. CASE e.kind = "revoked"
    BY <1>3, <2>2 DEF Upd
  <2>3. CASE e.kind = "removed"
    BY <1>3, <2>3 DEF Upd
  <2>4. QED
    BY <2>1, <2>2, <2>3, EventType
<1>4. QED
  BY <1>1, <1>2, <1>3, EventType

(* An event changes its member only. *)
LEMMA EffectVal ==
  ASSUME NEW s \in State, NEW e \in Event
  PROVE  /\ Effect(s, e) \in State
         /\ \A m \in Member : Effect(s, e)[m] = IF m = e.member THEN Upd(s[m], e) ELSE s[m]
<1>1. Effect(s, e) = [s EXCEPT ![e.member] = Upd(s[e.member], e)]
  BY DEF Effect, Upd
<1>2. Upd(s[e.member], e) \in SUBSET Perm
  BY EventType, UpdType DEF State
<1>3. QED
  BY <1>1, <1>2, EventType DEF State

(* Applying an event, or a pair of events, again changes nothing. *)
LEMMA EffectTwice ==
  ASSUME NEW s \in State, NEW e \in Event
  PROVE  Effect(Effect(s, e), e) = Effect(s, e)
<1> DEFINE a == Effect(s, e)
           b == Effect(a, e)
<1>1. a \in State /\ \A m \in Member : a[m] = IF m = e.member THEN Upd(s[m], e) ELSE s[m]
  BY EffectVal
<1> HIDE DEF a
<1>2. b \in State /\ \A m \in Member : b[m] = IF m = e.member THEN Upd(a[m], e) ELSE a[m]
  BY <1>1, EffectVal
<1> HIDE DEF b
<1>3. ASSUME NEW m \in Member PROVE b[m] = a[m]
  <2>1. s[m] \in SUBSET Perm
    BY DEF State
  <2>2. Upd(Upd(s[m], e), e) = Upd(s[m], e)
    BY <2>1, UpdTwice
  <2>3. QED
    BY <1>1, <1>2, <2>2
<1>4. b = a
  BY <1>1, <1>2, <1>3 DEF State
<1>5. QED
  BY <1>4 DEF a, b

(* The same for the permissions of all members. *)
LEMMA EffectPairTwice ==
  ASSUME NEW s \in State, NEW e \in Event, NEW f \in Event
  PROVE  Effect(Effect(Effect(Effect(s, e), f), e), f) = Effect(Effect(s, e), f)
<1> DEFINE a == Effect(s, e)
           b == Effect(a, f)
           c == Effect(b, e)
           d == Effect(c, f)
<1>1. a \in State /\ \A m \in Member : a[m] = IF m = e.member THEN Upd(s[m], e) ELSE s[m]
  BY EffectVal
<1> HIDE DEF a
<1>2. b \in State /\ \A m \in Member : b[m] = IF m = f.member THEN Upd(a[m], f) ELSE a[m]
  BY <1>1, EffectVal
<1> HIDE DEF b
<1>3. c \in State /\ \A m \in Member : c[m] = IF m = e.member THEN Upd(b[m], e) ELSE b[m]
  BY <1>2, EffectVal
<1> HIDE DEF c
<1>4. d \in State /\ \A m \in Member : d[m] = IF m = f.member THEN Upd(c[m], f) ELSE c[m]
  BY <1>3, EffectVal
<1> HIDE DEF d
<1>5. ASSUME NEW m \in Member PROVE d[m] = b[m]
  <2>1. s[m] \in SUBSET Perm
    BY DEF State
  <2>2. /\ Upd(Upd(s[m], e), e) = Upd(s[m], e)
        /\ Upd(Upd(s[m], f), f) = Upd(s[m], f)
        /\ Upd(Upd(Upd(Upd(s[m], e), f), e), f) = Upd(Upd(s[m], e), f)
    BY <2>1, UpdTwice, UpdPairTwice
  <2>3. QED
    BY <1>1, <1>2, <1>3, <1>4, <2>2
<1>6. d = b
  BY <1>2, <1>4, <1>5 DEF State
<1>7. QED
  BY <1>6 DEF a, b, c, d

-----------------------------------------------------------------------------
(* Applying a checkpoint of at most two events. *)

(* After its last event, a checkpoint leads nowhere else. *)
LEMMA RestNone ==
  ASSUME NEW s, NEW es \in Seq(Event)
  PROVE  Rest(s, es, Len(es)) = s
<1>1. Len(es) \in Nat
  BY LenProperties
<1>2. QED
  BY <1>1 DEF Rest

(* Applying the next event does not change where the rest leads, neither   *)
(* from here nor from the beginning.                                       *)
LEMMA RestNext ==
  ASSUME NEW s \in State, NEW es \in Seq(Event), Len(es) <= 2,
         NEW k \in Nat, k < Len(es), NEW t, Rest(s, es, k) = t, Rest(s, es, 0) = t
  PROVE  LET u == Effect(s, es[k + 1])
         IN u \in State /\ Rest(u, es, k + 1) = t /\ Rest(u, es, 0) = t
<1> DEFINE u == Effect(s, es[k + 1])
<1>1. Len(es) \in 1..2 /\ k \in {0, 1}
  <2>1. \A n, i \in Nat : n <= 2 /\ i < n => n \in 1..2 /\ i \in {0, 1}
    OBVIOUS
  <2>2. Len(es) \in Nat
    BY LenProperties
  <2>3. QED
    BY <2>1, <2>2
<1>2. es[1] \in Event /\ es[k + 1] \in Event
  BY <1>1
<1>3. u \in State
  BY <1>2, EffectVal
<1>4. CASE Len(es) = 1
  <2>1. k = 0 /\ u = t
    BY <1>1, <1>4 DEF Rest
  <2>2. Effect(u, es[1]) = u
    BY <1>2, <2>1, EffectTwice
  <2>3. QED
    BY <1>3, <1>4, <2>1, <2>2 DEF Rest
<1>5. CASE Len(es) = 2 /\ k = 0
  <2>1. Effect(u, es[2]) = t
    <3>1. k + 1 = 1 /\ k + 2 = 2 /\ 0 + 1 = 1 /\ ~(k >= Len(es)) /\ k + 1 # Len(es)
      BY <1>5
    <3>2. QED
      BY <1>5, <3>1 DEF Rest
  <2>2. Effect(u, es[1]) = u
    BY <1>2, <1>5, EffectTwice
  <2>3. QED
    BY <1>3, <1>5, <2>1, <2>2 DEF Rest
<1>6. CASE Len(es) = 2 /\ k = 1
  <2>1. u = t /\ Effect(Effect(s, es[1]), es[2]) = t /\ es[2] \in Event
    BY <1>6 DEF Rest
  <2>2. Effect(Effect(t, es[1]), es[2]) = t
    BY <1>2, <2>1, EffectPairTwice
  <2>3. QED
    BY <1>3, <1>6, <2>1, <2>2 DEF Rest
<1>7. QED
  BY <1>1, <1>4, <1>5, <1>6

(* What a checkpoint holds: its events, where they lead, and announcements *)
(* of them only.                                                           *)
LEMMA CheckpointVal ==
  ASSUME NEW n \in Nat, NEW s \in State, NEW es \in Seq(Event), Len(es) <= 2
  PROVE  LET c == Checkpoint(n, s, es)
             before(i) == IF i = 1 THEN s ELSE Effect(s, es[1])
         IN /\ c \in [events : Seq(Event), after : State, announced : SUBSET (Nat \X Nat)]
            /\ c.events = es
            /\ c.after = Rest(s, es, 0)
            /\ \A p \in c.announced :
                 \E i \in 1..Len(es) : p = <<n, i>> /\ Announces(before(i), es[i])
<1>1. Len(es) \in 0..2 /\ DOMAIN es = 1..Len(es) /\ \A i \in 1..Len(es) : es[i] \in Event
  <2>1. Len(es) \in Nat /\ DOMAIN es = 1..Len(es) /\ \A i \in 1..Len(es) : es[i] \in Event
    BY LenProperties, ElementOfSeq
  <2>2. Len(es) \in 0..2
    BY <2>1
  <2>3. QED
    BY <2>1, <2>2
<1> DEFINE before(i) == IF i = 1 THEN s ELSE Effect(s, es[1])
           c == Checkpoint(n, s, es)
           told == {<<n, i>> : i \in {j \in DOMAIN es : Announces(before(j), es[j])}}
           final == CASE Len(es) = 0 -> s
                      [] Len(es) = 1 -> Effect(s, es[1])
                      [] Len(es) = 2 -> Effect(Effect(s, es[1]), es[2])
<1>2. c = [events |-> es, after |-> final, announced |-> told]
  BY DEF Checkpoint
<1>3. final = Rest(s, es, 0)
  BY <1>1 DEF Rest
<1>4. final \in State
  <2>1. CASE Len(es) = 0
    BY <2>1
  <2>2. CASE Len(es) = 1
    BY <1>1, <2>2, EffectVal
  <2>3. CASE Len(es) = 2
    <3>1. es[1] \in Event /\ es[2] \in Event
      BY <1>1, <2>3
    <3>2. Effect(s, es[1]) \in State
      BY <3>1, EffectVal
    <3>3. Effect(Effect(s, es[1]), es[2]) \in State
      BY <3>1, <3>2, EffectVal
    <3>4. QED
      BY <2>3, <3>3
  <2>4. QED
    BY <1>1, <2>1, <2>2, <2>3
<1>5. told \subseteq Nat \X Nat
  BY <1>1
<1>6. \A p \in told : \E i \in 1..Len(es) : p = <<n, i>> /\ Announces(before(i), es[i])
  BY <1>1
<1>7. /\ c \in [events : Seq(Event), after : State, announced : SUBSET (Nat \X Nat)]
      /\ c.events = es /\ c.after = final /\ c.announced = told
  <2> HIDE DEF c, told, final
  <2>1. QED
    BY <1>2, <1>4, <1>5
<1>8. QED
  BY <1>3, <1>6, <1>7

-----------------------------------------------------------------------------
(* Types, the Boolean variables apart. *)

Cursors == (1..Tip) \union {CatchUp, Latest}
DataType ==
  /\ chain \in Seq([events : Seq(Event), after : State, announced : SUBSET (Nat \X Nat)])
  /\ pruned \in 0..Tip
  /\ faults \in 0..MaxFaults
  /\ stream \in Seq(1..Tip)
  /\ plan \in Seq(Cursors)
  /\ done \in Nat
  /\ inserting \subseteq Nat \X Nat
  /\ cursor \in 0..Tip
  /\ members \in State
  /\ saved \in 0..Tip
  /\ rows \in State
  /\ timeline \subseteq Nat \X Nat

FlagType ==
  /\ durable \in BOOLEAN /\ live \in BOOLEAN
  /\ cleared \in BOOLEAN /\ skipped \in BOOLEAN /\ unsaved \in BOOLEAN /\ lost \in BOOLEAN

(* The type invariant is that of the data and that of the flags. *)
LEMMA TypeSplit == TypeOK <=> DataType /\ FlagType
<1>1. (\A flag \in {cleared, skipped, unsaved, lost} : flag \in BOOLEAN)
        <=> /\ cleared \in BOOLEAN /\ skipped \in BOOLEAN
            /\ unsaved \in BOOLEAN /\ lost \in BOOLEAN
  BY Zenon
<1> DEFINE flags == \A flag \in {cleared, skipped, unsaved, lost} : flag \in BOOLEAN
<1>2. FlagType <=> durable \in BOOLEAN /\ live \in BOOLEAN /\ flags
  BY <1>1, Zenon DEF FlagType
<1>3. TypeOK <=> DataType /\ durable \in BOOLEAN /\ live \in BOOLEAN /\ flags
  BY Zenon DEF TypeOK, DataType, State, Cursors
<1>4. QED
  BY <1>2, <1>3, Zenon

(* The same after a step. *)
LEMMA TypeSplitNext == TypeOK' <=> DataType' /\ FlagType'
<1>1. (\A flag \in {cleared', skipped', unsaved', lost'} : flag \in BOOLEAN)
        <=> /\ cleared' \in BOOLEAN /\ skipped' \in BOOLEAN
            /\ unsaved' \in BOOLEAN /\ lost' \in BOOLEAN
  BY Zenon
<1> DEFINE flags == \A flag \in {cleared', skipped', unsaved', lost'} : flag \in BOOLEAN
<1>2. FlagType' <=> durable' \in BOOLEAN /\ live' \in BOOLEAN /\ flags
  BY <1>1, Zenon DEF FlagType
<1>3. TypeOK' <=> DataType' /\ durable' \in BOOLEAN /\ live' \in BOOLEAN /\ flags
  BY Zenon DEF TypeOK, DataType, State, Cursors
<1>4. QED
  BY <1>2, <1>3, Zenon

(* The values that the steps below compute with have their types. *)
LEMMA Values ==
  ASSUME DataType
  PROVE  /\ NoMembers \in State
         /\ Tip \in Nat /\ DOMAIN chain = 1..Tip
         /\ cursor \in Nat /\ cursor <= Tip
         /\ \A n \in 0..Tip : After(n) \in State
         /\ \A n \in 1..Tip : /\ chain[n].events \in Seq(Event)
                              /\ chain[n].announced \subseteq Nat \X Nat
                              /\ After(n) = chain[n].after
         /\ After(0) = NoMembers
<1>1. NoMembers \in State /\ After(0) = NoMembers
  BY DEF NoMembers, State, After
<1>2. Tip \in Nat /\ DOMAIN chain = 1..Tip /\ cursor \in Nat /\ cursor <= Tip
  BY DEF DataType, Tip
<1>3. \A n \in 1..Tip : /\ chain[n].events \in Seq(Event)
                        /\ chain[n].announced \subseteq Nat \X Nat
                        /\ chain[n].after \in State
  <2>1. \A n \in 1..Tip : chain[n] \in [events : Seq(Event), after : State,
                                        announced : SUBSET (Nat \X Nat)]
    BY <1>2, ElementOfSeq DEF DataType, Tip
  <2>2. QED
    BY <2>1
<1>4. \A n \in 1..Tip : After(n) = chain[n].after
  BY <1>2 DEF After
<1>5. \A n \in 0..Tip : n = 0 \/ n \in 1..Tip
  BY <1>2
<1>6. QED
  BY <1>1, <1>2, <1>3, <1>4, <1>5

(* A checkpoint of the chain. *)
LEMMA ChainVal ==
  ASSUME DataType, ChainOK, NEW n \in 1..Tip
  PROVE  /\ chain[n].events \in Seq(Event) /\ Len(chain[n].events) <= 2
         /\ Len(chain[n].events) \in 0..2
         /\ After(n - 1) \in State /\ n - 1 \in 0..Tip
         /\ After(n) = Rest(After(n - 1), chain[n].events, 0)
         /\ \A i \in 1..2 : <<n, i>> \in chain[n].announced =>
              /\ i <= Len(chain[n].events)
              /\ Announces(IF i = 1 THEN After(n - 1)
                           ELSE Effect(After(n - 1), chain[n].events[1]), chain[n].events[i])
         /\ \A p \in chain[n].announced : \E i \in 1..2 : p = <<n, i>>
<1> DEFINE es == chain[n].events
           s == After(n - 1)
           c == Checkpoint(n, s, es)
           before(i) == IF i = 1 THEN s ELSE Effect(s, es[1])
<1>1. n - 1 \in 0..Tip /\ n \in Nat
  BY Values
<1>2. es \in Seq(Event) /\ s \in State /\ After(n) = chain[n].after
  BY <1>1, Values
<1>3. Len(es) <= 2 /\ Len(es) \in 0..2
  <2>1. Len(es) \in Nat
    BY <1>2, LenProperties
  <2>2. Len(es) <= 2
    BY DEF ChainOK
  <2> DEFINE l == Len(es)
  <2> HIDE DEF l
  <2>3. l \in Nat /\ l <= 2
    BY <2>1, <2>2 DEF l
  <2>4. l \in 0..2
    BY <2>3
  <2>5. QED
    BY <2>3, <2>4 DEF l
<1>4. chain[n] = c
  BY DEF ChainOK
<1>5. /\ c.after = Rest(s, es, 0)
      /\ \A p \in c.announced : \E i \in 1..Len(es) : p = <<n, i>> /\ Announces(before(i), es[i])
  <2> HIDE DEF s, es
  <2>1. QED
    BY <1>1, <1>2, <1>3, CheckpointVal
<1> HIDE DEF s, es, c
<1>6. \A p \in c.announced : \E i \in 1..2 : p = <<n, i>> /\ i <= Len(es) /\ Announces(before(i), es[i])
  BY <1>3, <1>5
<1> HIDE DEF before
<1>7. \A i \in 1..2 : <<n, i>> \in c.announced => i <= Len(es) /\ Announces(before(i), es[i])
  BY <1>6
<1>8. QED
  BY <1>1, <1>2, <1>3, <1>4, <1>5, <1>6, <1>7 DEF before, s, es

-----------------------------------------------------------------------------
(* Nothing has happened at first. *)
LEMMA InitIInv == Init => IInv
<1> SUFFICES ASSUME Init PROVE IInv
  OBVIOUS
<1>1. Tip = 0 /\ After(0) = NoMembers /\ NoMembers \in State
  BY DEF Init, Tip, After, NoMembers, State
<1>2. DataType
  BY <1>1, SyncAssumption DEF Init, DataType, NoCursor
<1>3. FlagType
  BY Zenon DEF Init, FlagType
<1>4. TypeOK
  BY <1>2, <1>3, TypeSplit
<1>5. ChainOK /\ PlanOK
  BY <1>1 DEF Init, ChainOK, PlanOK
<1>6. StoreOK
  BY <1>1 DEF Init, StoreOK, NoCursor
<1>7. ToldOK
  BY <1>1 DEF Init, ToldOK, NoCursor
<1>8. QED
  BY <1>4, <1>5, <1>6, <1>7 DEF IInv

(* Flags of the history only rise. *)
LEMMA FaithfulBefore ==
  ASSUME FlagType,
         cleared => cleared', skipped => skipped', unsaved => unsaved', Faithful'
  PROVE  Faithful
  BY Zenon DEF FlagType, Faithful

(* A step that changes only what the service plans to do next, between two *)
(* checkpoints.                                                            *)
LEMMA PlanStep ==
  ASSUME IInv, done = 0, DataType', FlagType',
         UNCHANGED <<durable, chain, done, cursor, members, saved, rows, timeline>>,
         inserting' = {}, cleared => cleared', skipped => skipped', unsaved => unsaved',
         lost => lost',
         ~live' => plan' = <<>>,
         \A i \in DOMAIN plan' : /\ plan'[i] < 0 => i = Len(plan')
                                 /\ plan'[i] = CatchUp => i = 1 /\ cursor = NoCursor
                                 /\ plan'[i] = Latest => Tip > 0
                                 /\ Faithful' /\ plan'[i] > 0 => plan'[i] = cursor + i
  PROVE  IInv'
<1>0. TypeOK /\ ChainOK /\ PlanOK /\ StoreOK /\ ToldOK
  BY DEF IInv
<1>1. FlagType
  BY <1>0, TypeSplit
<1>2. Faithful' => Faithful
  BY <1>1, FaithfulBefore
<1>3. lost \in BOOLEAN /\ (~lost' => ~lost)
  BY <1>1, Zenon DEF FlagType
<1>4. Tip' = Tip /\ NextEvents' = NextEvents /\ After(cursor)' = After(cursor)
      /\ After(cursor + 1)' = After(cursor + 1) /\ \A n : After(n)' = After(n)
  BY DEF Tip, NextEvents, After
<1>5. inserting = {}
  BY <1>0 DEF PlanOK
<1>6. TypeOK'
  BY TypeSplitNext
<1>7. ChainOK'
  BY <1>0, <1>4 DEF ChainOK
<1>8. PlanOK'
  BY <1>4 DEF PlanOK
<1>9. StoreOK'
  BY <1>0, <1>2, <1>4 DEF StoreOK
<1>10. ToldOK'
  <2>1. \A i : Before(i)' = Before(i)
    BY <1>4 DEF Before
  <2>2. \A i : Untold(i)' = Untold(i)
    BY <2>1 DEF Untold
  <2>3. QED
    BY <1>0, <1>2, <1>3, <1>4, <1>5, <2>2 DEF ToldOK
<1>11. QED
  BY <1>6, <1>7, <1>8, <1>9, <1>10 DEF IInv

(* What a write to the database leaves behind. *)
LEMMA DbVal ==
  ASSUME TypeOK, NEW written, NEW partial, run_db(written, partial)
  PROVE  /\ ~durable => saved' = saved /\ rows' = rows
         /\ durable /\ ~unsaved' => saved' = written[1] /\ rows' = written[2]
         /\ \/ saved' = saved /\ rows' = rows
            \/ saved' = written[1] /\ rows' = written[2]
            \/ \E left \in partial : saved' = left[1] /\ rows' = left[2]
         /\ faults' \in 0..MaxFaults
         /\ unsaved' \in BOOLEAN /\ (unsaved => unsaved')
<1>1. faults \in 0..MaxFaults /\ unsaved \in BOOLEAN /\ durable \in BOOLEAN
  BY TypeSplit DEF DataType, FlagType
<1>2. faults' \in 0..MaxFaults
  BY <1>1, SyncAssumption DEF run_db
<1>3. unsaved' \in BOOLEAN /\ (unsaved => unsaved')
  BY <1>1, Zenon DEF run_db
<1>4. CASE ~durable
  BY <1>2, <1>3, <1>4 DEF run_db, dbVars
<1>5. CASE durable
  BY <1>2, <1>3, <1>5 DEF run_db, dbVars
<1>6. QED
  BY <1>4, <1>5

(* A run of consecutive cursors. *)
LEMMA SpanVal ==
  ASSUME NEW from \in Nat \ {0}, NEW to \in Nat, from <= to + 1
  PROVE  /\ Span(from, to) \in Seq(from..to) /\ Len(Span(from, to)) = to - from + 1
         /\ \A i \in 1..to - from + 1 : Span(from, to)[i] = from + i - 1
<1>1. to - from + 1 \in Nat
  OBVIOUS
<1>2. Span(from, to) \in [1..(to - from + 1) -> from..to]
  BY DEF Span
<1>3. QED
  BY <1>1, <1>2 DEF Span

(* Ingesting a checkpoint: without gaps the plan goes on from the cursor;  *)
(* a gap that is given up, or a store that is cleared, is noted.           *)
LEMMA IngestIInv ==
  ASSUME IInv, plan = <<>> \/ plan = <<Latest>>, live, NEW c \in 1..Tip, ingest_checkpoint(c),
         UNCHANGED <<envVars, live, done, inserting, timeline, lost>>,
         stream' \in Seq(1..Tip)
  PROVE  IInv'
<1>0. TypeOK /\ ChainOK /\ PlanOK /\ StoreOK /\ ToldOK /\ DataType /\ FlagType
  BY TypeSplit DEF IInv
<1>1. UNCHANGED <<durable, chain, pruned, live, done, inserting, timeline, lost>> /\ Tip' = Tip
  BY DEF envVars, Tip
<1>2. done = 0 /\ inserting = {}
  BY <1>0 DEF PlanOK, Latest
<1>3. c \in Nat /\ c > 0 /\ c <= Tip /\ cursor \in Nat /\ cursor <= Tip /\ Tip \in Nat
  BY <1>0, Values
<1>4. CASE cursor # NoCursor /\ c < cursor
  <2>1. /\ members' = NoMembers /\ cursor' = NoCursor /\ plan' = <<c>>
        /\ run_db(<<NoCursor, NoMembers>>, {<<saved, rows>>, <<saved, NoMembers>>})
        /\ cleared' = TRUE /\ skipped' = skipped
    BY <1>3, <1>4 DEF ingest_checkpoint, NoCursor
  <2>2. /\ saved' \in {saved, NoCursor} /\ rows' \in {rows, NoMembers}
        /\ faults' \in 0..MaxFaults /\ unsaved' \in BOOLEAN
        /\ ~durable => saved' = saved /\ rows' = rows
    BY <1>0, <2>1, DbVal
  <2>3. ~Faithful'
    BY <2>1, Zenon DEF Faithful
  <2>4. FlagType'
    BY <1>0, <1>1, <2>1, <2>2, Zenon DEF FlagType
  <2>5. DataType'
    <3>1. plan' \in Seq(Cursors) /\ Cursors' = Cursors
      BY <1>1, <2>1 DEF Cursors
    <3>2. NoMembers \in State /\ NoCursor \in 0..Tip
      BY <1>0, <1>3, Values DEF NoCursor
    <3>3. saved' \in 0..Tip /\ rows' \in State
      BY <1>0, <2>2, <3>2 DEF DataType
    <3>4. QED
      BY <1>0, <1>1, <2>1, <2>2, <3>1, <3>2, <3>3 DEF DataType
  <2>6. TypeOK'
    BY <2>4, <2>5, TypeSplitNext
  <2>7. ChainOK'
    BY <1>0, <1>1 DEF ChainOK, After, Tip
  <2>8. PlanOK'
    <3>1. Len(plan') = 1 /\ DOMAIN plan' = {1} /\ plan'[1] = c /\ Head(plan') = c
      BY <2>1
    <3>2. ~(c < 0) /\ c # CatchUp /\ c # Latest
      BY <1>3 DEF CatchUp, Latest
    <3>3. QED
      BY <1>1, <1>2, <3>1, <3>2 DEF PlanOK
  <2>9. StoreOK' /\ ToldOK'
    BY <1>0, <1>1, <2>2, <2>3 DEF StoreOK, ToldOK
  <2>10. QED
    BY <2>6, <2>7, <2>8, <2>9 DEF IInv
<1>5. CASE ~(cursor # NoCursor /\ c < cursor)
  <2>1. UNCHANGED <<members, cursor, saved, rows, faults, cleared, unsaved>>
    BY <1>5 DEF ingest_checkpoint, dbVars
  <2>2. skipped' \in BOOLEAN /\ (skipped => skipped')
    <3>1. skipped \in BOOLEAN
      BY <1>0 DEF FlagType
    <3>2. \/ skipped' = skipped
          \/ \E x : skipped' = (skipped \/ x)
      BY <1>5, Zenon DEF ingest_checkpoint
    <3>3. QED
      BY <3>1, <3>2, Zenon
  <2>3. /\ plan' \in Seq(1..Tip)
        /\ Faithful' => \A i \in DOMAIN plan' : plan'[i] = cursor + i
    <3>1. CASE cursor # NoCursor /\ c = cursor
      <4>1. plan' = <<>>
        BY <1>3, <3>1 DEF ingest_checkpoint
      <4>2. QED
        BY <4>1
    <3>2. CASE cursor # NoCursor /\ c > cursor
      <4> DEFINE range == backfill_range(cursor, c, BackfillMax)
      <4>1. plan' = Span(range.start, c) /\ skipped' = (skipped \/ range.truncated)
        BY <1>3, <3>2 DEF ingest_checkpoint
      <4>2. /\ range.start \in Nat \ {0} /\ range.start <= c
            /\ ~range.truncated => range.start = cursor + 1
        <5>1. CASE BackfillMax = 0 \/ c <= cursor + 1
          <6>1. range = [start |-> c, truncated |-> c > cursor + 1]
            BY <5>1 DEF backfill_range
          <6>2. range.start = c /\ range.truncated = (c > cursor + 1)
            BY <6>1
          <6>3. ~range.truncated => ~(c > cursor + 1)
            BY <6>2, Zenon
          <6>4. ~(c > cursor + 1) => c = cursor + 1
            BY <1>3, <3>2
          <6>5. QED
            BY <1>3, <6>2, <6>3, <6>4
        <5>2. CASE ~(BackfillMax = 0 \/ c <= cursor + 1) /\ c - (cursor + 1) > BackfillMax
          <6>1. range = [start |-> c - BackfillMax, truncated |-> TRUE]
            BY <5>2 DEF backfill_range
          <6>2. range.start = c - BackfillMax /\ range.truncated
            BY <6>1
          <6>3. c - BackfillMax \in Nat \ {0} /\ c - BackfillMax <= c
            BY <1>3, <5>2, SyncAssumption
          <6>4. QED
            BY <6>2, <6>3
        <5>3. CASE ~(BackfillMax = 0 \/ c <= cursor + 1) /\ ~(c - (cursor + 1) > BackfillMax)
          <6>1. range = [start |-> cursor + 1, truncated |-> FALSE]
            BY <5>3 DEF backfill_range
          <6>2. range.start = cursor + 1
            BY <6>1
          <6>3. QED
            BY <1>3, <3>2, <6>2
        <5>4. QED
          BY <5>1, <5>2, <5>3
      <4>3. Faithful' => ~range.truncated
        BY <4>1, Zenon DEF Faithful
      <4> DEFINE a == range.start
      <4> HIDE DEF range
      <4>4. /\ plan' = Span(a, c) /\ a \in Nat \ {0} /\ a <= c
            /\ Faithful' => a = cursor + 1
        BY <4>1, <4>2, <4>3
      <4> HIDE DEF a
      <4>5. /\ plan' \in Seq(a..c) /\ Len(plan') = c - a + 1
            /\ \A i \in 1..c - a + 1 : plan'[i] = a + i - 1
        <5>1. a <= c + 1
          BY <1>3, <4>4
        <5>2. QED
          BY <1>3, <4>4, <5>1, SpanVal
      <4>6. plan' \in Seq(1..Tip)
        <5>1. a..c \subseteq 1..Tip
          BY <1>3, <4>4
        <5>2. QED
          BY <4>5, <5>1, SeqMonotonic
      <4>7. DOMAIN plan' = 1..c - a + 1
        BY <4>5
      <4>8. ASSUME Faithful', NEW i \in DOMAIN plan' PROVE plan'[i] = cursor + i
        BY <1>3, <4>4, <4>5, <4>7, <4>8
      <4>9. QED
        BY <4>6, <4>8
    <3>3. CASE cursor = NoCursor
      <4>1. plan' = <<c>> /\ skipped' = (skipped \/ c > 1)
        BY <1>3, <3>3 DEF ingest_checkpoint
      <4>2. Faithful' => ~(c > 1)
        BY <4>1, Zenon DEF Faithful
      <4>3. Faithful' => c = cursor + 1
        BY <1>3, <3>3, <4>2 DEF NoCursor
      <4>4. DOMAIN plan' = {1} /\ plan'[1] = c /\ plan' \in Seq(1..Tip)
        BY <4>1
      <4>5. QED
        BY <4>3, <4>4
    <3>4. QED
      BY <1>3, <1>5, <3>1, <3>2, <3>3
  <2>4. FlagType'
    BY <1>0, <1>1, <2>1, <2>2, Zenon DEF FlagType
  <2>5. DataType'
    <3>1. Cursors' = Cursors
      BY <1>1 DEF Cursors
    <3>2. plan' \in Seq(Cursors)
      BY <2>3, SeqMonotonic DEF Cursors
    <3>3. QED
      BY <1>0, <1>1, <2>1, <3>1, <3>2 DEF DataType
  <2>6. \A i \in DOMAIN plan' : ~(plan'[i] < 0) /\ plan'[i] # CatchUp /\ plan'[i] # Latest
    <3>1. \A i \in DOMAIN plan' : plan'[i] \in 1..Tip
      BY <2>3, LenProperties, ElementOfSeq
    <3>2. QED
      BY <3>1 DEF CatchUp, Latest
  <2>7. QED
    BY <1>1, <1>2, <2>1, <2>2, <2>3, <2>4, <2>5, <2>6, PlanStep
<1>6. QED
  BY <1>4, <1>5

(* The steps that read the tip or the stream, and the loss of a connection. *)
LEMMA ReadIInv ==
  ASSUME IInv, fetch_latest_checkpoint \/ StreamNext \/ poll_latest
  PROVE  IInv'
<1>0. TypeOK /\ PlanOK /\ DataType /\ FlagType
  BY TypeSplit DEF IInv
<1>1. Tip \in Nat /\ stream \in Seq(1..Tip)
  BY <1>0, Values DEF DataType
<1>2. CASE fetch_latest_checkpoint
  <2>1. plan = <<Latest>> /\ live /\ Tip > 0
    <3>1. plan = <<Latest>>
      BY <1>2 DEF fetch_latest_checkpoint
    <3>2. plan # <<>> /\ 1 \in DOMAIN plan /\ plan[1] = Latest
      BY <3>1
    <3>3. QED
      BY <1>0, <3>1, <3>2 DEF PlanOK
  <2>2. Tip \in 1..Tip
    BY <1>1, <2>1
  <2>3. QED
    BY <1>1, <1>2, <2>1, <2>2, IngestIInv DEF fetch_latest_checkpoint
<1>3. CASE StreamNext
  <2>1. stream # <<>> /\ Head(stream) \in 1..Tip /\ Tail(stream) \in Seq(1..Tip)
    BY <1>1, <1>3, HeadTailProperties DEF StreamNext
  <2>2. QED
    BY <1>3, <2>1, IngestIInv DEF StreamNext
<1>4. CASE poll_latest
  <2>1. Tip \in 1..Tip
    BY <1>1, <1>4 DEF poll_latest
  <2>2. QED
    BY <1>1, <1>4, <2>1, IngestIInv DEF poll_latest
<1>5. QED
  BY <1>2, <1>3, <1>4

(* The subscription opens or breaks. *)
LEMMA ConnectIInv ==
  ASSUME IInv, Subscribe \/ Disconnect
  PROVE  IInv'
<1>0. TypeOK /\ PlanOK /\ DataType /\ FlagType
  BY TypeSplit DEF IInv
<1>1. /\ UNCHANGED <<durable, chain, pruned, done, inserting, cursor, members, saved, rows, timeline,
                     cleared, skipped, unsaved, lost>>
      /\ stream' = <<>> /\ Tip' = Tip
  BY DEF Subscribe, Disconnect, envVars, storeVars, historyVars, dbVars, Tip
<1>2. done = 0 /\ inserting = {}
  BY <1>0 DEF Subscribe, Disconnect, PlanOK
<1>3. faults' \in 0..MaxFaults
  BY <1>0, SyncAssumption DEF Subscribe, Disconnect, DataType
<1>4. FlagType'
  BY <1>0, <1>1, Zenon DEF FlagType, Subscribe, Disconnect
<1>5. plan' = <<>> \/ (Subscribe /\ cursor = NoCursor /\ plan' = <<CatchUp>>)
  BY DEF Subscribe, Disconnect
<1>6. plan' \in Seq(Cursors) /\ Cursors' = Cursors
  <2>1. CatchUp \in Cursors /\ Cursors' = Cursors
    BY <1>1 DEF Cursors
  <2>2. <<>> \in Seq(Cursors) /\ <<CatchUp>> \in Seq(Cursors)
    BY <2>1
  <2>3. QED
    BY <1>5, <2>1, <2>2
<1>7. DataType'
  <2>1. stream' \in Seq(1..Tip)
    BY <1>1
  <2>2. QED
    BY <1>0, <1>1, <1>3, <1>6, <2>1 DEF DataType
<1>8. ~live' => plan' = <<>>
  BY <1>5, Zenon DEF Subscribe
<1>9. \A i \in DOMAIN plan' : /\ plan'[i] < 0 => i = Len(plan')
                              /\ plan'[i] = CatchUp => i = 1 /\ cursor = NoCursor
                              /\ plan'[i] # Latest /\ ~(plan'[i] > 0)
  <2>1. CASE plan' = <<>>
    BY <2>1
  <2>2. CASE cursor = NoCursor /\ plan' = <<CatchUp>>
    <3>1. Len(plan') = 1 /\ DOMAIN plan' = {1} /\ plan'[1] = CatchUp
      BY <2>2
    <3>2. CatchUp # Latest /\ ~(CatchUp > 0)
      BY DEF CatchUp, Latest
    <3>3. QED
      BY <2>2, <3>1, <3>2
  <2>3. QED
    BY <1>5, <2>1, <2>2
<1>10. QED
  BY <1>1, <1>2, <1>4, <1>7, <1>8, <1>9, PlanStep

(* The cold-start replay plans from the first checkpoint on, or notes that *)
(* it does not.                                                            *)
LEMMA CatchUpIInv ==
  ASSUME IInv, catch_up_recent
  PROVE  IInv'
<1>0. TypeOK /\ PlanOK /\ DataType /\ FlagType
  BY TypeSplit DEF IInv
<1> DEFINE window == IF BackfillMax > StartupMin THEN BackfillMax ELSE StartupMin
           start == IF Tip > window THEN Tip - (window - 1) ELSE 1
<1>1. /\ UNCHANGED <<durable, chain, pruned, faults, live, stream, done, inserting, cursor, members,
                     saved, rows, timeline, cleared, unsaved, lost>>
      /\ Tip' = Tip
  BY DEF catch_up_recent, envVars, storeVars, dbVars, Tip
<1>2. /\ plan = <<CatchUp>> /\ 1 \in DOMAIN plan /\ plan[1] = CatchUp /\ Head(plan) < 0
      /\ plan # <<>>
  <2>1. plan = <<CatchUp>>
    BY DEF catch_up_recent
  <2>2. QED
    BY <2>1 DEF CatchUp
<1>3. cursor = NoCursor /\ done = 0 /\ inserting = {} /\ live
  BY <1>0, <1>2 DEF PlanOK
<1>4. Tip \in Nat /\ window \in Nat \ {0}
  BY <1>0, Values, SyncAssumption
<1>5. start \in Nat \ {0} /\ (Tip > 0 => start <= Tip)
  BY <1>4
<1>6. /\ plan' = IF Tip = 0 THEN <<>> ELSE Span(start, Tip - 1) \o <<Latest>>
      /\ skipped' = (skipped \/ start > 1)
  BY DEF catch_up_recent
<1> HIDE DEF start
<1>7. skipped' \in BOOLEAN /\ (skipped => skipped') /\ (Faithful' => ~(start > 1))
  BY <1>0, <1>6, Zenon DEF FlagType, Faithful
<1>8. FlagType'
  BY <1>0, <1>1, <1>7, Zenon DEF FlagType
<1>9. /\ plan' \in Seq(Cursors)
      /\ \A i \in DOMAIN plan' : /\ plan'[i] < 0 => i = Len(plan')
                                 /\ plan'[i] # CatchUp
                                 /\ plan'[i] = Latest => Tip > 0
                                 /\ Faithful' /\ plan'[i] > 0 => plan'[i] = cursor + i
  <2>1. CASE Tip = 0
    BY <1>6, <2>1
  <2>2. CASE Tip > 0
    <3> DEFINE span == Span(start, Tip - 1)
               n == Tip - 1 - start + 1
    <3>1. Tip - 1 \in Nat /\ start <= Tip - 1 + 1 /\ n \in Nat
      BY <1>4, <1>5, <2>2
    <3>2. span \in Seq(start..Tip - 1) /\ Len(span) = n /\ \A i \in 1..n : span[i] = start + i - 1
      BY <1>5, <3>1, SpanVal
    <3>3. start..Tip - 1 \subseteq Cursors /\ Latest \in Cursors
      BY <1>4, <1>5, <3>1 DEF Cursors
    <3>4. span \in Seq(Cursors)
      BY <3>2, <3>3, SeqMonotonic
    <3>5. plan' = span \o <<Latest>>
      BY <1>6, <2>2
    <3> HIDE DEF span
    <3>6. <<Latest>> \in Seq(Cursors) /\ Len(<<Latest>>) = 1
      BY <3>3
    <3>7. /\ plan' \in Seq(Cursors) /\ Len(plan') = n + 1
          /\ \A i \in 1..n : plan'[i] = span[i]
          /\ plan'[n + 1] = Latest
      BY <3>1, <3>2, <3>4, <3>5, <3>6
    <3>8. \A i \in DOMAIN plan' : i = n + 1 \/ i \in 1..n
      BY <3>1, <3>7
    <3>9. ASSUME NEW i \in 1..n
          PROVE  ~(plan'[i] < 0) /\ plan'[i] # CatchUp /\ plan'[i] # Latest
                 /\ (Faithful' => plan'[i] = cursor + i)
      <4>1. plan'[i] = start + i - 1
        BY <3>2, <3>7
      <4>2. Faithful' => start = 1
        BY <1>5, <1>7
      <4>3. plan'[i] \in Nat \ {0} /\ (Faithful' => plan'[i] = i)
        BY <1>5, <3>1, <4>1, <4>2
      <4>4. QED
        BY <1>3, <4>3 DEF NoCursor, CatchUp, Latest
    <3>10. Latest # CatchUp /\ ~(Latest > 0)
      BY DEF Latest, CatchUp
    <3>11. QED
      BY <2>2, <3>7, <3>8, <3>9, <3>10
  <2>3. QED
    BY <1>4, <2>1, <2>2
<1>10. DataType'
  <2>1. Cursors' = Cursors
    BY <1>1 DEF Cursors
  <2>2. QED
    BY <1>0, <1>1, <1>9, <2>1 DEF DataType
<1>11. live' = live /\ ~(~live')
  BY <1>1, <1>3, Zenon
<1>12. QED
  BY <1>1, <1>3, <1>7, <1>8, <1>9, <1>10, <1>11, PlanStep

(* The node prunes a checkpoint. *)
LEMMA PruneIInv ==
  ASSUME IInv, Prune
  PROVE  IInv'
<1>0. TypeOK /\ ChainOK /\ PlanOK /\ StoreOK /\ ToldOK /\ DataType /\ FlagType
  BY TypeSplit DEF IInv
<1>1. UNCHANGED <<durable, chain, live, stream, plan, done, inserting, cursor, members, saved, rows,
                  timeline, cleared, skipped, unsaved, lost>>
  BY DEF Prune, syncVars, storeVars, dbVars, historyVars
<1>2. /\ Tip' = Tip /\ Cursors' = Cursors /\ NextEvents' = NextEvents
      /\ \A n : After(n)' = After(n)
      /\ After(cursor)' = After(cursor) /\ After(cursor + 1)' = After(cursor + 1)
  BY <1>1 DEF Tip, Cursors, NextEvents, After
<1>3. pruned' \in 0..Tip /\ faults' \in 0..MaxFaults
  BY <1>0, SyncAssumption, Values DEF Prune, DataType
<1>4. TypeOK'
  <2>1. DataType'
    BY <1>0, <1>1, <1>2, <1>3 DEF DataType
  <2>2. FlagType'
    BY <1>0, <1>1, Zenon DEF FlagType
  <2>3. QED
    BY <2>1, <2>2, TypeSplitNext
<1>5. ChainOK' /\ PlanOK'
  BY <1>0, <1>1, <1>2 DEF ChainOK, PlanOK
<1>6. Faithful' = Faithful
  BY <1>1 DEF Faithful
<1>7. StoreOK'
  BY <1>0, <1>1, <1>2, <1>6 DEF StoreOK
<1>8. ToldOK'
  BY <1>0, <1>1, <1>2, <1>6 DEF ToldOK, Untold, Before
<1>9. QED
  BY <1>4, <1>5, <1>7, <1>8 DEF IInv

(* The chain grows by a checkpoint made on its last state. *)
LEMMA ProduceIInv ==
  ASSUME IInv, Produce
  PROVE  IInv'
<1>0. TypeOK /\ ChainOK /\ PlanOK /\ StoreOK /\ ToldOK /\ DataType /\ FlagType
  BY TypeSplit DEF IInv
<1>1. UNCHANGED <<durable, pruned, faults, live, plan, done, inserting, cursor, members, saved, rows,
                  timeline, cleared, skipped, unsaved, lost>>
  BY DEF Produce, storeVars, dbVars, historyVars
<1>2. /\ Tip \in Nat /\ cursor \in Nat /\ cursor <= Tip /\ After(Tip) \in State
      /\ chain \in Seq([events : Seq(Event), after : State, announced : SUBSET (Nat \X Nat)])
      /\ DOMAIN chain = 1..Tip
  <2>1. Tip \in Nat /\ cursor \in Nat /\ cursor <= Tip /\ DOMAIN chain = 1..Tip
    BY <1>0, Values
  <2>2. After(Tip) \in State
    BY <1>0, <2>1, Values
  <2>3. QED
    BY <1>0, <2>1, <2>2 DEF DataType
<1>3. PICK es \in Seq(Event) :
        Len(es) <= 2 /\ chain' = Append(chain, Checkpoint(Tip + 1, After(Tip), es))
  <2>1. PICK es \in {<<>>} \union {<<e>> : e \in Possible(After(Tip))}
                    \union UNION {{<<e, f>> : f \in Possible(Effect(After(Tip), e))} :
                                    e \in Possible(After(Tip))} :
          chain' = Append(chain, Checkpoint(Tip + 1, After(Tip), es))
    BY DEF Produce
  <2>2. \A s : Possible(s) \subseteq Event
    BY DEF Possible
  <2>3. \/ es = <<>>
        \/ \E e \in Event : es = <<e>>
        \/ \E e \in Event : \E f \in Event : es = <<e, f>>
    BY <2>1, <2>2
  <2>4. es \in Seq(Event) /\ Len(es) <= 2
    <3>1. CASE es = <<>>
      BY <3>1
    <3>2. CASE \E e \in Event : es = <<e>>
      <4>1. PICK e \in Event : es = <<e>>
        BY <3>2
      <4>2. QED
        BY <4>1
    <3>3. CASE \E e \in Event : \E f \in Event : es = <<e, f>>
      <4>1. PICK e \in Event, f \in Event : es = <<e, f>>
        BY <3>3
      <4>2. QED
        BY <4>1
    <3>4. QED
      BY <2>3, <3>1, <3>2, <3>3
  <2>5. QED
    BY <2>1, <2>4
<1> DEFINE c == Checkpoint(Tip + 1, After(Tip), es)
<1>4. /\ c \in [events : Seq(Event), after : State, announced : SUBSET (Nat \X Nat)]
      /\ c.events = es /\ c.after = Rest(After(Tip), es, 0)
  <2>1. Tip + 1 \in Nat
    BY <1>2
  <2>2. QED
    BY <1>2, <1>3, <2>1, CheckpointVal
<1>5. chain' = Append(chain, c)
  BY <1>3
<1>5a. PICK n \in Nat : n = Tip + 1
  BY <1>2
<1>6. /\ chain' \in Seq([events : Seq(Event), after : State, announced : SUBSET (Nat \X Nat)])
      /\ Tip' = n /\ \A i \in 1..Tip : chain'[i] = chain[i]
      /\ chain'[n] = c
  <2> HIDE DEF c
  <2>1. QED
    BY <1>2, <1>4, <1>5, <1>5a, AppendProperties DEF Tip
<1>7. /\ n \in Nat \ {0} /\ Tip < n /\ n \in 1..n
      /\ 0..Tip \subseteq 0..n /\ 1..Tip \subseteq 1..n
  BY <1>2, <1>5a
<1> HIDE DEF c
<1>8. /\ \A i \in 0..Tip : After(i)' = After(i)
      /\ After(n)' = c.after
  <2>1. \A i \in 1..Tip : After(i)' = After(i)
    BY <1>2, <1>6 DEF After
  <2>2. After(0)' = After(0) /\ After(n)' = c.after
    BY <1>6, <1>7 DEF After
  <2>3. \A i \in 0..Tip : i = 0 \/ i \in 1..Tip
    BY <1>2
  <2>4. QED
    BY <2>1, <2>2, <2>3
<1>9. TypeOK'
  <2>1. FlagType'
    BY <1>0, <1>1, Zenon DEF FlagType
  <2>2. Cursors \subseteq Cursors'
    BY <1>6, <1>7 DEF Cursors
  <2>3. plan' \in Seq(Cursors')
    BY <1>0, <1>1, <2>2, SeqMonotonic DEF DataType
  <2>4. stream' \in Seq(1..n)
    <3>1. stream \in Seq(1..n) /\ n \in 1..n
      BY <1>0, <1>7, SeqMonotonic DEF DataType
    <3>2. stream' \in {stream, Append(stream, n)}
      BY <1>5a DEF Produce
    <3>3. Append(stream, n) \in Seq(1..n)
      BY ONLY <3>1, AppendProperties
    <3>4. QED
      BY ONLY <3>1, <3>2, <3>3
  <2>5. DataType'
    BY <1>0, <1>1, <1>6, <1>7, <2>3, <2>4 DEF DataType
  <2>6. QED
    BY <2>1, <2>5, TypeSplitNext
<1>10. ChainOK'
  <2>1. SUFFICES ASSUME NEW i \in 1..n
                 PROVE  /\ Len(chain'[i].events) <= 2
                        /\ chain'[i] = Checkpoint(i, After(i - 1), chain[i].events)'
    BY <1>6 DEF ChainOK
  <2>2. CASE i \in 1..Tip
    <3>1. i - 1 \in 0..Tip
      BY <1>2, <2>2
    <3>2. After(i - 1)' = After(i - 1) /\ chain'[i] = chain[i]
      BY <1>6, <1>8, <2>2, <3>1
    <3>3. Len(chain[i].events) <= 2 /\ chain[i] = Checkpoint(i, After(i - 1), chain[i].events)
      BY <1>0, <2>2 DEF ChainOK
    <3>4. QED
      BY <3>2, <3>3 DEF Checkpoint
  <2>3. CASE i = n
    <3>1. i - 1 = Tip /\ Tip \in 0..Tip
      BY <1>2, <1>5a, <2>3
    <3>2. After(i - 1)' = After(i - 1)
      BY <1>8, <3>1
    <3>3. chain'[i].events = es
      BY <1>4, <1>6, <2>3
    <3>4. Checkpoint(i, After(i - 1), chain[i].events)' = Checkpoint(i, After(i - 1)', chain'[i].events)
      BY DEF Checkpoint
    <3>5. QED
      BY <1>3, <1>6, <2>3, <3>1, <3>2, <3>3, <3>4, <1>5a DEF c
  <2>4. QED
    BY <1>2, <1>5a, <2>2, <2>3
<1>11. PlanOK'
  BY <1>0, <1>1, <1>6, <1>7, <1>2 DEF PlanOK
<1>12. Faithful' = Faithful
  BY <1>1 DEF Faithful
<1>13. CASE cursor < Tip
  <2>1. cursor + 1 \in 1..Tip /\ cursor \in 0..Tip /\ cursor + 1 \in 0..Tip /\ cursor < Tip'
        /\ cursor # Tip'
    BY <1>2, <1>6, <1>7, <1>13
  <2>2. /\ chain'[cursor + 1] = chain[cursor + 1] /\ NextEvents' = NextEvents
        /\ After(cursor)' = After(cursor) /\ After(cursor + 1)' = After(cursor + 1)
    BY <1>1, <1>6, <2>1 DEF NextEvents, After
  <2>3. StoreOK'
    BY <1>0, <1>1, <1>12, <1>13, <2>1, <2>2 DEF StoreOK
  <2>4. \A i \in 1..2 : Untold(i)' = Untold(i)
    BY <1>1, <2>2 DEF Untold, Before
  <2>5. \A k \in 1..cursor : chain'[k] = chain[k]
    BY <1>2, <1>6, <1>13
  <2>6. ToldOK'
    BY <1>0, <1>1, <1>12, <1>13, <2>1, <2>2, <2>4, <2>5 DEF ToldOK
  <2>7. QED
    BY <1>9, <1>10, <1>11, <2>3, <2>6 DEF IInv
<1>14. CASE cursor = Tip
  <2>1. cursor + 1 = n /\ cursor \in 0..Tip /\ cursor < Tip' /\ cursor # Tip'
    BY <1>2, <1>6, <1>7, <1>14, <1>5a
  <2>2. /\ NextEvents' = es /\ After(cursor)' = After(Tip)
        /\ After(cursor + 1)' = Rest(After(Tip), es, 0)
    <3>1. NextEvents' = es
      BY <1>1, <1>4, <1>6, <2>1 DEF NextEvents
    <3>2. After(cursor)' = After(Tip)
      <4>1. PICK k \in 0..Tip : k = cursor
        BY <2>1
      <4>2. After(k)' = After(cursor)'
        BY <1>1, <4>1 DEF After
      <4>3. QED
        BY <1>8, <1>14, <4>1, <4>2
    <3>3. After(cursor + 1)' = c.after
      BY <1>1, <1>6, <1>7, <2>1 DEF After
    <3>4. QED
      BY <1>4, <3>1, <3>2, <3>3
  <2>3. Faithful => done = 0 /\ members = After(Tip)
    BY <1>0, <1>14 DEF StoreOK
  <2>4. StoreOK'
    BY <1>0, <1>1, <1>12, <2>1, <2>2, <2>3 DEF StoreOK
  <2>5. \A k \in 1..cursor : chain'[k] = chain[k]
    BY <1>2, <1>6, <1>14
  <2>6. Faithful => \A i \in 1..2 : Untold(i)'
    <3>1. SUFFICES ASSUME Faithful, NEW i \in 1..2 PROVE Untold(i)'
      OBVIOUS
    <3>2. done' = 0 /\ members' = Before(1)'
      BY <1>1, <2>2, <2>3, <3>1 DEF Before
    <3>3. done' < i /\ 1 \in done' + 1..i
      BY <3>2
    <3>4. QED
      BY <3>2, <3>3 DEF Untold
  <2>7. ToldOK'
    BY <1>0, <1>1, <1>12, <2>5, <2>6 DEF ToldOK
  <2>8. QED
    BY <1>9, <1>10, <1>11, <2>4, <2>7 DEF IInv
<1>15. QED
  BY <1>2, <1>13, <1>14

(* The checkpoint at hand. *)
LEMMA WorkVal ==
  ASSUME DataType, StoreOK, Working
  PROVE  /\ Current \in 1..Tip /\ plan # <<>> /\ 1 \in DOMAIN plan /\ plan[1] = Current
         /\ Current > 0
         /\ Faithful => Current = cursor + 1 /\ cursor < Tip /\ NextEvents = chain[Current].events
<1>1. plan # <<>> /\ Current > 0 /\ plan \in Seq(Cursors)
  BY DEF Working, Current, DataType
<1>2. 1 \in DOMAIN plan /\ plan[1] = Current /\ Current \in Cursors
  BY <1>1, HeadTailProperties DEF Current
<1>3. Current \in 1..Tip
  BY <1>1, <1>2 DEF Cursors, CatchUp, Latest
<1>4. Faithful => Current = cursor + 1
  BY <1>1, <1>2 DEF StoreOK
<1>5. cursor \in Nat /\ Tip \in Nat
  BY Values
<1>6. QED
  BY <1>1, <1>2, <1>3, <1>4, <1>5 DEF NextEvents

(* Applying an event: the store stays on the way to the chain's state, and *)
(* an announcement the timeline lacks is made when its event comes.        *)
LEMMA ApplyIInv ==
  ASSUME IInv, apply_event
  PROVE  IInv'
<1>0. TypeOK /\ ChainOK /\ PlanOK /\ StoreOK /\ ToldOK /\ DataType /\ FlagType
  BY TypeSplit DEF IInv
<1> DEFINE es == chain[Current].events
           e == es[done + 1]
<1>1. /\ Working /\ inserting = {} /\ done < Len(es)
      /\ members' = Effect(members, e)
      /\ inserting' = SystemMessage(e)
      /\ done' = done + 1
      /\ UNCHANGED <<durable, chain, pruned, live, stream, plan, cursor, timeline,
                     cleared, skipped, lost>>
  BY DEF apply_event, envVars
<1>2. run_db(<<saved, Effect(rows, e)>>, PartlyWritten(e) \ {<<saved, Effect(rows, e)>>})
  BY DEF apply_event
<1>3. /\ Current \in 1..Tip /\ plan # <<>> /\ 1 \in DOMAIN plan /\ plan[1] = Current /\ Current > 0
      /\ Faithful => Current = cursor + 1 /\ cursor < Tip /\ NextEvents = es
  BY <1>0, <1>1, WorkVal
<1>4. es \in Seq(Event) /\ Len(es) <= 2 /\ Len(es) \in 0..2 /\ done \in Nat
  BY <1>0, <1>3, ChainVal DEF DataType
<1>5. e \in Event
  <2> HIDE DEF es
  <2>1. done + 1 \in 1..Len(es)
    BY <1>1, <1>4
  <2>2. QED
    BY <1>4, <2>1, ElementOfSeq
<1>6. /\ Tip' = Tip /\ Cursors' = Cursors /\ NextEvents' = NextEvents
      /\ \A n : After(n)' = After(n)
      /\ After(cursor)' = After(cursor) /\ After(cursor + 1)' = After(cursor + 1)
  BY <1>1 DEF Tip, Cursors, NextEvents, After
<1>7. /\ ~durable => saved' = saved /\ rows' = rows
      /\ durable /\ ~unsaved' => saved' = saved /\ rows' = Effect(rows, e)
      /\ faults' \in 0..MaxFaults
      /\ unsaved' \in BOOLEAN /\ (unsaved => unsaved')
      /\ saved' = saved /\ rows' \in State
  <2> DEFINE written == <<saved, Effect(rows, e)>>
             partial == PartlyWritten(e) \ {written}
  <2>1. run_db(written, partial)
    BY <1>2
  <2>2. written[1] = saved /\ written[2] = Effect(rows, e)
    OBVIOUS
  <2>3. members \in State /\ rows \in State
    BY <1>0 DEF DataType
  <2>4. Effect(rows, e) \in State
    BY <1>5, <2>3, EffectVal
  <2>5. \A left \in partial : left[1] = saved /\ left[2] \in State
    <3>1. SUFFICES ASSUME NEW left \in PartlyWritten(e) PROVE left[1] = saved /\ left[2] \in State
      OBVIOUS
    <3>2. CASE left = <<saved, rows>>
      BY <2>3, <3>2
    <3>3. CASE \E ps \in SUBSET e.perms : left = <<saved, Effect(rows, [e EXCEPT !.perms = ps])>>
      <4>1. PICK ps \in SUBSET e.perms : left = <<saved, Effect(rows, [e EXCEPT !.perms = ps])>>
        BY <3>3
      <4>2. [e EXCEPT !.perms = ps] \in Event
        <5> HIDE DEF e
        <5>1. QED
          BY <1>5 DEF Event
      <4>3. Effect(rows, [e EXCEPT !.perms = ps]) \in State
        BY <2>3, <4>2, EffectVal
      <4>4. QED
        BY <4>1, <4>3
    <3>4. QED
      BY <3>1, <3>2, <3>3 DEF PartlyWritten
  <2> HIDE DEF written, partial, e
  <2>6. /\ ~durable => saved' = saved /\ rows' = rows
        /\ durable /\ ~unsaved' => saved' = written[1] /\ rows' = written[2]
        /\ \/ saved' = saved /\ rows' = rows
           \/ saved' = written[1] /\ rows' = written[2]
           \/ \E left \in partial : saved' = left[1] /\ rows' = left[2]
        /\ faults' \in 0..MaxFaults
        /\ unsaved' \in BOOLEAN /\ (unsaved => unsaved')
    BY <1>0, <2>1, DbVal
  <2>7. QED
    BY <2>2, <2>3, <2>4, <2>5, <2>6
<1>8. members \in State /\ members' \in State
  <2>1. members \in State
    BY <1>0 DEF DataType
  <2> HIDE DEF e
  <2>2. QED
    BY <1>1, <1>5, <2>1, EffectVal
<1>9. TypeOK'
  <2>1. FlagType'
    BY <1>0, <1>1, <1>7, Zenon DEF FlagType
  <2>2. inserting' \subseteq Nat \X Nat /\ done' \in Nat
    BY <1>0, <1>1, <1>3, <1>4, Values DEF SystemMessage
  <2>3. DataType'
    BY <1>0, <1>1, <1>6, <1>7, <1>8, <2>2 DEF DataType
  <2>4. QED
    BY <2>1, <2>3, TypeSplitNext
<1>10. ChainOK'
  BY <1>0, <1>1, <1>6 DEF ChainOK
<1>11. PlanOK'
  <2>1. done' # 0 /\ Head(plan') = Current /\ ~(Current < 0) /\ plan' # <<>>
    BY <1>1, <1>3, <1>4 DEF Current
  <2>2. QED
    BY <1>0, <1>1, <1>6, <2>1 DEF PlanOK
<1>12. Faithful' => Faithful
  BY <1>0, <1>1, <1>7, FaithfulBefore
<1>13. Faithful' => ~unsaved'
  BY DEF Faithful
<1>14. StoreOK'
  <2>1. ~durable' => saved' = NoCursor /\ rows' = NoMembers
    BY <1>0, <1>1, <1>7 DEF StoreOK
  <2>2. SUFFICES ASSUME Faithful'
                 PROVE  /\ durable' => saved' = cursor' /\ rows' = members'
                        /\ cursor' # Tip'
                        /\ Rest(members', NextEvents', done') = After(cursor + 1)'
                        /\ Rest(members', NextEvents', 0) = After(cursor + 1)'
                        /\ \A i \in DOMAIN plan' : plan'[i] > 0 => plan'[i] = cursor' + i
    BY <2>1 DEF StoreOK
  <2>3. /\ durable => saved = cursor /\ rows = members
        /\ Rest(members, es, done) = After(cursor + 1)
        /\ Rest(members, es, 0) = After(cursor + 1)
        /\ \A i \in DOMAIN plan : plan[i] > 0 => plan[i] = cursor + i
        /\ cursor < Tip
    BY <1>0, <1>3, <1>12, <2>2 DEF StoreOK
  <2>4. /\ Rest(members', es, done + 1) = After(cursor + 1)
        /\ Rest(members', es, 0) = After(cursor + 1)
    <3> DEFINE t == After(cursor + 1)
    <3> HIDE DEF es, t
    <3>1. Len(es) <= 2
      BY <1>4
    <3>2. Rest(members, es, done) = t /\ Rest(members, es, 0) = t
      BY <2>3 DEF t
    <3>3. Rest(members', es, done + 1) = t /\ Rest(members', es, 0) = t
      BY <1>1, <1>4, <1>8, <3>1, <3>2, RestNext
    <3>4. QED
      BY <3>3 DEF t
  <2>5. cursor' # Tip'
    BY <1>0, <1>1, <1>6, <2>3, Values
  <2>6. durable' => saved' = cursor' /\ rows' = members'
    BY <1>1, <1>7, <1>13, <2>2, <2>3
  <2>7. QED
    BY <1>1, <1>3, <1>6, <1>12, <2>2, <2>3, <2>4, <2>5, <2>6
<1>15. ToldOK'
  <2>1. SUFFICES ASSUME Faithful', ~lost'
                 PROVE  /\ \A n \in 1..cursor' : chain'[n].announced \subseteq timeline'
                        /\ \A i \in 1..2 :
                             <<cursor' + 1, i>> \in chain'[cursor' + 1].announced
                                                     \ (timeline' \union inserting')
                               => Untold(i)'
    BY DEF ToldOK
  <2>2. /\ Current = cursor + 1 /\ cursor < Tip /\ NextEvents = es
        /\ \A n \in 1..cursor : chain[n].announced \subseteq timeline
        /\ \A i \in 1..2 : <<cursor + 1, i>> \in chain[cursor + 1].announced \ timeline => Untold(i)
    BY <1>0, <1>1, <1>3, <1>12, <2>1 DEF ToldOK
  <2>3. ASSUME NEW i \in 1..2, <<cursor + 1, i>> \in chain[cursor + 1].announced,
               <<cursor + 1, i>> \notin timeline, <<cursor + 1, i>> \notin inserting'
        PROVE  Untold(i)'
    <3>1. Untold(i) /\ i <= Len(es) /\ Announces(Before(i), es[i])
      <4>1. cursor + 1 \in 1..Tip /\ (cursor + 1) - 1 = cursor
        BY <1>0, <1>3, <2>2, Values
      <4>2. QED
        BY <1>0, <2>2, <2>3, <4>1, ChainVal DEF Before
    <3>2. PICK j \in done + 1..i : done < i /\ members = Before(j)
      BY <3>1 DEF Untold
    <3>3. ~(Announces(members, e) /\ i = done + 1)
      BY <1>1, <2>2, <2>3 DEF SystemMessage
    <3>4. i # done + 1
      <4>1. SUFFICES ASSUME i = done + 1 PROVE FALSE
        OBVIOUS
      <4>2. j = i
        BY <1>4, <3>2, <4>1
      <4>3. Announces(members, e)
        BY <3>1, <3>2, <4>1, <4>2
      <4>4. QED
        BY <3>3, <4>1, <4>3
    <3>5. done = 0 /\ i = 2 /\ j \in {1, 2}
      BY <1>4, <3>2, <3>4
    <3>6. e = es[1] /\ After(cursor) \in State /\ Before(1) = After(cursor)
          /\ Before(2) = Effect(After(cursor), e)
      <4>1. e = es[1]
        BY <3>5
      <4>2. After(cursor) \in State
        BY <1>0, Values
      <4>3. QED
        BY <2>2, <4>1, <4>2 DEF Before
    <3>7. Effect(Effect(After(cursor), e), e) = Effect(After(cursor), e)
      <4> HIDE DEF e
      <4>1. QED
        BY <1>5, <3>6, EffectTwice
    <3>8. members' = Before(2)
      BY <1>1, <3>2, <3>5, <3>6, <3>7
    <3>9. Before(2)' = Before(2)
      BY <1>6 DEF Before
    <3>10. done' < i /\ 2 \in done' + 1..i
      BY <1>1, <3>5
    <3>11. QED
      BY <3>8, <3>9, <3>10 DEF Untold
  <2>4. QED
    BY <1>1, <2>2, <2>3
<1>16. QED
  BY <1>9, <1>10, <1>11, <1>14, <1>15 DEF IInv

(* The system message is stored, or given up. *)
LEMMA InsertIInv ==
  ASSUME IInv, insert_system_message
  PROVE  IInv'
<1>0. TypeOK /\ ChainOK /\ PlanOK /\ StoreOK /\ ToldOK /\ DataType /\ FlagType
  BY TypeSplit DEF IInv
<1>1. /\ inserting' = {} /\ timeline' \in {timeline, timeline \union inserting}
      /\ UNCHANGED <<durable, chain, pruned, live, stream, plan, done, cursor, members, saved, rows,
                     cleared, skipped, unsaved>>
  BY DEF insert_system_message, envVars, dbVars
<1>2. /\ lost' \in BOOLEAN /\ (lost => lost')
      /\ ~lost' => ~lost /\ timeline' = timeline \union inserting
  BY <1>0, Zenon DEF insert_system_message, FlagType
<1>3. faults' \in 0..MaxFaults
  BY <1>0, SyncAssumption DEF insert_system_message, DataType
<1>4. /\ Tip' = Tip /\ Cursors' = Cursors /\ NextEvents' = NextEvents
      /\ \A n : After(n)' = After(n)
      /\ After(cursor)' = After(cursor) /\ After(cursor + 1)' = After(cursor + 1)
  BY <1>1 DEF Tip, Cursors, NextEvents, After
<1>5. TypeOK'
  <2>1. FlagType'
    BY <1>0, <1>1, <1>2, Zenon DEF FlagType
  <2>2. timeline' \subseteq Nat \X Nat
    BY <1>0, <1>1 DEF DataType
  <2>3. DataType'
    BY <1>0, <1>1, <1>3, <1>4, <2>2 DEF DataType
  <2>4. QED
    BY <2>1, <2>3, TypeSplitNext
<1>6. ChainOK' /\ PlanOK'
  BY <1>0, <1>1, <1>4 DEF ChainOK, PlanOK
<1>7. Faithful' = Faithful
  BY <1>1 DEF Faithful
<1>8. StoreOK'
  BY <1>0, <1>1, <1>4, <1>7 DEF StoreOK
<1>9. ToldOK'
  <2>1. \A i : Untold(i)' = Untold(i)
    BY <1>1, <1>4 DEF Untold, Before
  <2>2. timeline \subseteq timeline'
    BY <1>1
  <2>3. ~lost' => ~lost /\ timeline' \union inserting' = timeline \union inserting
    BY <1>1, <1>2
  <2>4. QED
    BY <1>0, <1>1, <1>4, <1>7, <2>1, <2>2, <2>3 DEF ToldOK
<1>10. QED
  BY <1>5, <1>6, <1>8, <1>9 DEF IInv

(* What the cursor passes. *)
LEMMA AdvanceVal ==
  ASSUME IInv, AdvanceCursor
  PROVE  /\ Faithful' => Faithful
         /\ Faithful' => /\ cursor' = cursor + 1 /\ cursor < Tip
                         /\ done = Len(NextEvents)
                         /\ members = After(cursor + 1)
                         /\ durable => saved' = cursor' /\ rows' = members
         /\ cursor' \in 1..Tip /\ saved' \in 0..Tip /\ rows' = rows
         /\ ~durable => saved' = saved
         /\ faults' \in 0..MaxFaults /\ unsaved' \in BOOLEAN /\ skipped' \in BOOLEAN
<1>0. TypeOK /\ ChainOK /\ PlanOK /\ StoreOK /\ ToldOK /\ DataType /\ FlagType
  BY TypeSplit DEF IInv
<1>1. /\ Working /\ (Available => done = Len(chain[Current].events))
      /\ cursor' = Current /\ run_db(<<Current, rows>>, {<<saved, rows>>})
      /\ skipped' = (skipped \/ ~Available) /\ UNCHANGED cleared
  BY DEF AdvanceCursor
<1>2. /\ Current \in 1..Tip
      /\ Faithful => Current = cursor + 1 /\ cursor < Tip /\ NextEvents = chain[Current].events
  BY <1>0, <1>1, WorkVal
<1>3. /\ ~durable => saved' = saved /\ rows' = rows
      /\ durable /\ ~unsaved' => saved' = Current /\ rows' = rows
      /\ rows' = rows /\ saved' \in {saved, Current}
      /\ faults' \in 0..MaxFaults
      /\ unsaved' \in BOOLEAN /\ (unsaved => unsaved')
  <2> DEFINE cur == Current
  <2> HIDE DEF cur
  <2>1. run_db(<<cur, rows>>, {<<saved, rows>>})
    BY <1>1 DEF cur
  <2>2. QED
    BY <1>0, <2>1, DbVal DEF cur
<1>4. skipped' \in BOOLEAN /\ (skipped => skipped') /\ (~skipped' => Available)
  BY <1>0, <1>1, Zenon DEF FlagType
<1>5. Faithful' => Faithful
  BY <1>0, <1>1, <1>3, <1>4, FaithfulBefore
<1>6. saved' \in 0..Tip
  <2>1. Tip \in Nat /\ saved \in 0..Tip
    BY <1>0, Values DEF DataType
  <2>2. QED
    BY ONLY <1>2, <1>3, <2>1
<1>7. ASSUME Faithful'
      PROVE  /\ cursor' = cursor + 1 /\ cursor < Tip /\ done = Len(NextEvents)
             /\ members = After(cursor + 1)
             /\ durable => saved' = cursor' /\ rows' = members
  <2>1. Faithful /\ ~skipped' /\ ~unsaved'
    BY <1>5, <1>7 DEF Faithful
  <2>2. cursor' = cursor + 1 /\ cursor < Tip /\ done = Len(NextEvents) /\ Current = cursor + 1
    BY <1>1, <1>2, <1>4, <2>1
  <2>3. Rest(members, NextEvents, done) = After(cursor + 1)
    BY <1>0, <2>1, <2>2 DEF StoreOK
  <2>4. NextEvents \in Seq(Event)
    BY <1>0, <2>2, Values DEF NextEvents
  <2>5. members = After(cursor + 1)
    BY <2>2, <2>3, <2>4, RestNone
  <2>6. durable => rows = members
    BY <1>0, <2>1 DEF StoreOK
  <2>7. QED
    BY <1>1, <1>3, <2>1, <2>2, <2>5, <2>6
<1>8. QED
  BY <1>1, <1>2, <1>3, <1>4, <1>5, <1>6, <1>7

(* A checkpoint is finished and the cursor saved. *)
LEMMA AdvanceIInv ==
  ASSUME IInv, AdvanceCursor
  PROVE  IInv'
<1>0. TypeOK /\ ChainOK /\ PlanOK /\ StoreOK /\ ToldOK /\ DataType /\ FlagType
  BY TypeSplit DEF IInv
<1>1. /\ Working /\ inserting = {} /\ plan' = Tail(plan) /\ done' = 0
      /\ UNCHANGED <<durable, chain, pruned, live, stream, inserting, members, timeline,
                     cleared, lost>>
  BY DEF AdvanceCursor, envVars
<1>2. plan # <<>> /\ 1 \in DOMAIN plan /\ plan[1] = Current /\ Current > 0 /\ plan \in Seq(Cursors)
  BY <1>0, <1>1, WorkVal DEF DataType
<1>3. /\ plan' \in Seq(Cursors) /\ Len(plan) \in Nat \ {0} /\ Len(plan') = Len(plan) - 1
      /\ \A i \in DOMAIN plan' : i + 1 \in DOMAIN plan /\ plan'[i] = plan[i + 1] /\ i \in Nat \ {0}
  BY <1>1, <1>2, HeadTailProperties
<1>4. /\ Tip' = Tip /\ Cursors' = Cursors /\ \A n : After(n)' = After(n)
  BY <1>1 DEF Tip, Cursors, After
<1>5. cursor \in Nat /\ Tip \in Nat
  BY <1>0, Values
<1>6. TypeOK'
  <2>1. FlagType'
    BY <1>0, <1>1, AdvanceVal, Zenon DEF FlagType
  <2>2. cursor' \in 0..Tip /\ saved' \in 0..Tip /\ rows' \in State
    BY <1>0, <1>5, AdvanceVal DEF DataType
  <2>3. faults' \in 0..MaxFaults
    BY AdvanceVal
  <2>4. DataType'
    BY <1>0, <1>1, <1>3, <1>4, <2>2, <2>3 DEF DataType
  <2>5. QED
    BY <2>1, <2>4, TypeSplitNext
<1>7. ChainOK'
  BY <1>0, <1>1, <1>4 DEF ChainOK
<1>8. PlanOK'
  <2>1. \A i \in DOMAIN plan' : plan'[i] < 0 => i = Len(plan')
    BY <1>0, <1>3 DEF PlanOK
  <2>2. \A i \in DOMAIN plan' : plan'[i] # CatchUp /\ (plan'[i] = Latest => Tip > 0)
    BY <1>0, <1>3 DEF PlanOK
  <2>3. ~live' => plan' = <<>>
    BY <1>0, <1>1, <1>2 DEF PlanOK
  <2>4. QED
    BY <1>1, <1>4, <2>1, <2>2, <2>3 DEF PlanOK
<1>9. ASSUME Faithful'
      PROVE  /\ Faithful /\ cursor' = cursor + 1 /\ cursor < Tip
             /\ done = Len(NextEvents) /\ members = After(cursor')
             /\ durable => saved' = cursor' /\ rows' = members'
  BY <1>1, <1>9, AdvanceVal
<1>10. ASSUME Faithful', cursor' < Tip
       PROVE  Rest(members, chain[cursor' + 1].events, 0) = After(cursor' + 1)
  <2>1. cursor' + 1 \in 1..Tip /\ (cursor' + 1) - 1 = cursor'
    BY <1>5, <1>9, <1>10
  <2>2. After(cursor' + 1) = Rest(After(cursor'), chain[cursor' + 1].events, 0)
    BY <1>0, <2>1, ChainVal
  <2>3. QED
    BY <1>9, <1>10, <2>2
<1>11. StoreOK'
  <2>1. ~durable' => saved' = NoCursor /\ rows' = NoMembers
    BY <1>0, <1>1, AdvanceVal DEF StoreOK
  <2>2. ASSUME Faithful'
        PROVE  \A i \in DOMAIN plan' : plan'[i] > 0 => plan'[i] = cursor' + i
    <3>1. \A i \in DOMAIN plan : plan[i] > 0 => plan[i] = cursor + i
      BY <1>0, <1>9, <2>2 DEF StoreOK
    <3>2. QED
      BY <1>3, <1>5, <1>9, <2>2, <3>1
  <2>3. ASSUME Faithful'
        PROVE  /\ cursor' = Tip' => done' = 0 /\ members' = After(cursor)'
               /\ cursor' < Tip' => /\ Rest(members', NextEvents', done') = After(cursor + 1)'
                                    /\ Rest(members', NextEvents', 0) = After(cursor + 1)'
    BY <1>1, <1>4, <1>9, <1>10, <2>3 DEF NextEvents, After
  <2>4. QED
    BY <1>1, <1>9, <2>1, <2>2, <2>3 DEF StoreOK
<1>12. ToldOK'
  <2>1. SUFFICES ASSUME Faithful', ~lost'
                 PROVE  /\ \A n \in 1..cursor' : chain[n].announced \subseteq timeline
                        /\ \A i \in 1..2 : Untold(i)'
    BY <1>1 DEF ToldOK
  <2>2. /\ cursor' = cursor + 1 /\ cursor < Tip
        /\ \A n \in 1..cursor : chain[n].announced \subseteq timeline
        /\ \A i \in 1..2 : <<cursor + 1, i>> \in chain[cursor + 1].announced \ timeline => Untold(i)
    BY <1>0, <1>1, <1>9, <2>1 DEF ToldOK
  <2>3. cursor + 1 \in 1..Tip
    BY <1>5, <2>2
  <2>4. \A i \in 1..2 : <<cursor + 1, i>> \in chain[cursor + 1].announced => i <= done
    BY <1>0, <1>9, <2>1, <2>3, ChainVal DEF NextEvents
  <2>5. chain[cursor + 1].announced \subseteq timeline
    <3>1. SUFFICES ASSUME NEW i \in 1..2, <<cursor + 1, i>> \in chain[cursor + 1].announced
                   PROVE  <<cursor + 1, i>> \in timeline
      BY <1>0, <2>3, ChainVal
    <3>2. done \in Nat
      BY <1>0 DEF DataType
    <3>3. ~Untold(i)
      BY <2>4, <3>1, <3>2 DEF Untold
    <3>4. QED
      BY <2>2, <3>1, <3>3
  <2>6. \A n \in 1..cursor' : n \in 1..cursor \/ n = cursor + 1
    BY <1>5, <2>2
  <2>7. \A i \in 1..2 : Untold(i)'
    <3>1. done' = 0 /\ members' = Before(1)'
      BY <1>1, <1>4, <1>9, <2>1 DEF Before, After
    <3>2. \A i \in 1..2 : 0 < i /\ 1 \in 0 + 1..i
      OBVIOUS
    <3>3. QED
      BY <3>1, <3>2 DEF Untold
  <2>8. QED
    BY <2>2, <2>5, <2>6, <2>7
<1>13. QED
  BY <1>6, <1>7, <1>8, <1>11, <1>12 DEF IInv

(* A restart loads what the database has. *)
LEMMA CrashIInv ==
  ASSUME IInv, Crash
  PROVE  IInv'
<1>0. TypeOK /\ ChainOK /\ PlanOK /\ StoreOK /\ ToldOK /\ DataType /\ FlagType
  BY TypeSplit DEF IInv
<1>1. /\ stream' = <<>> /\ plan' = <<>> /\ done' = 0 /\ inserting' = {}
      /\ cursor' = saved /\ members' = rows
      /\ UNCHANGED <<durable, chain, pruned, saved, rows, timeline, cleared, skipped, unsaved>>
  BY DEF Crash, envVars, dbVars
<1>2. live' = FALSE /\ lost' = (lost \/ inserting # {})
  BY DEF Crash
<1>3. lost' \in BOOLEAN /\ (~lost' => ~lost /\ inserting = {})
  BY <1>0, <1>2, Zenon DEF FlagType
<1>4. faults' \in 0..MaxFaults
  BY <1>0, SyncAssumption DEF Crash, DataType
<1>5. /\ Tip' = Tip /\ Cursors' = Cursors /\ \A n : After(n)' = After(n)
  BY <1>1 DEF Tip, Cursors, After
<1>6. TypeOK'
  <2>1. FlagType'
    BY <1>0, <1>1, <1>2, <1>3, Zenon DEF FlagType
  <2>2. DataType'
    BY <1>0, <1>1, <1>4, <1>5 DEF DataType
  <2>3. QED
    BY <2>1, <2>2, TypeSplitNext
<1>7. ChainOK' /\ PlanOK'
  BY <1>0, <1>1, <1>5 DEF ChainOK, PlanOK
<1>8. Faithful' = Faithful
  BY <1>1 DEF Faithful
<1>9. cursor \in Nat /\ Tip \in Nat /\ cursor <= Tip /\ After(0) = NoMembers /\ done \in Nat
  BY <1>0, Values DEF DataType
<1>10. CASE durable
  <2>1. Faithful => UNCHANGED <<cursor, members>>
    BY <1>0, <1>1, <1>10 DEF StoreOK
  <2>2. Faithful => /\ NextEvents' = NextEvents
                    /\ After(cursor)' = After(cursor) /\ After(cursor + 1)' = After(cursor + 1)
    BY <1>1, <2>1 DEF NextEvents, After
  <2>3. StoreOK'
    BY <1>0, <1>1, <1>5, <1>8, <1>10, <2>1, <2>2 DEF StoreOK
  <2>4. ASSUME Faithful, NEW i \in 1..2, Untold(i) PROVE Untold(i)'
    <3>1. PICK j \in done + 1..i : done < i /\ members = Before(j)
      BY <2>4 DEF Untold
    <3>2. j \in 0 + 1..i /\ 0 < i
      BY <1>9, <3>1
    <3>3. members' = Before(j)'
      BY <2>1, <2>2, <2>4, <3>1 DEF Before
    <3>4. QED
      BY <1>1, <3>2, <3>3 DEF Untold
  <2>5. ToldOK'
    BY <1>0, <1>1, <1>3, <1>5, <1>8, <2>1, <2>4 DEF ToldOK
  <2>6. QED
    BY <1>6, <1>7, <2>3, <2>5 DEF IInv
<1>11. CASE ~durable
  <2>1. cursor' = 0 /\ members' = NoMembers /\ saved = NoCursor /\ rows = NoMembers
    BY <1>0, <1>1, <1>11 DEF StoreOK, NoCursor
  <2>2. After(cursor)' = NoMembers
    BY <2>1 DEF After
  <2>3. Tip > 0 => Rest(NoMembers, chain[1].events, 0) = After(1)
    <3>1. SUFFICES ASSUME Tip > 0 PROVE Rest(NoMembers, chain[1].events, 0) = After(1)
      OBVIOUS
    <3>2. 1 \in 1..Tip /\ 1 - 1 = 0
      BY <1>9, <3>1
    <3>3. QED
      BY <1>0, <1>9, <3>2, ChainVal
  <2>4. NextEvents' = chain[1].events /\ After(cursor + 1)' = After(1)
    BY <1>1, <2>1 DEF NextEvents, After
  <2>5. StoreOK'
    <3>1. /\ ~durable' /\ saved' = NoCursor /\ rows' = NoMembers
          /\ done' = 0 /\ members' = After(cursor)'
      BY <1>1, <1>11, <2>1, <2>2
    <3>2. cursor' < Tip' => /\ Rest(members', NextEvents', done') = After(cursor + 1)'
                            /\ Rest(members', NextEvents', 0) = After(cursor + 1)'
      BY <1>1, <1>5, <1>9, <2>1, <2>3, <2>4
    <3>3. \A i \in DOMAIN plan' : plan'[i] > 0 => plan'[i] = cursor' + i
      BY <1>1
    <3>4. QED
      BY <3>1, <3>2, <3>3 DEF StoreOK
  <2>6. \A i \in 1..2 : Untold(i)'
    <3>1. done' = 0 /\ members' = Before(1)'
      BY <1>1, <2>1, <2>2 DEF Before
    <3>2. \A i \in 1..2 : 0 < i /\ 1 \in 0 + 1..i
      OBVIOUS
    <3>3. QED
      BY <3>1, <3>2 DEF Untold
  <2>7. ToldOK'
    <3>1. 1..cursor' = {}
      BY <2>1
    <3>2. QED
      BY <2>6, <3>1 DEF ToldOK
  <2>8. QED
    BY <1>6, <1>7, <2>5, <2>7 DEF IInv
<1>12. QED
  BY <1>10, <1>11

-----------------------------------------------------------------------------
(* Every step keeps the invariant. *)
LEMMA NextIInv == IInv /\ [Next]_vars => IInv'
<1> SUFFICES ASSUME IInv, [Next]_vars PROVE IInv'
  OBVIOUS
<1>1. CASE Produce
  BY <1>1, ProduceIInv
<1>2. CASE Prune
  BY <1>2, PruneIInv
<1>3. CASE Relayer
  BY <1>3, ConnectIInv, CatchUpIInv, ReadIInv, ApplyIInv, InsertIInv, AdvanceIInv DEF Relayer
<1>4. CASE Disconnect
  BY <1>4, ConnectIInv
<1>5. CASE Crash
  BY <1>5, CrashIInv
<1>6. CASE UNCHANGED vars
  <2>1. UNCHANGED <<durable, chain, pruned, faults, live, stream, plan, done, inserting, cursor,
                    members, saved, rows, timeline, cleared, skipped, unsaved, lost>>
    BY <1>6 DEF vars, envVars, syncVars, storeVars, dbVars, historyVars
  <2>2. /\ Tip' = Tip /\ Cursors' = Cursors /\ NextEvents' = NextEvents
        /\ \A n : After(n)' = After(n)
        /\ After(cursor)' = After(cursor) /\ After(cursor + 1)' = After(cursor + 1)
    BY <2>1 DEF Tip, Cursors, NextEvents, After
  <2>3. DataType /\ FlagType
    BY TypeSplit DEF IInv
  <2>4. DataType'
    BY <2>1, <2>2, <2>3 DEF DataType
  <2>5. FlagType'
    BY <2>1, <2>3, Zenon DEF FlagType
  <2>6. TypeOK'
    BY <2>4, <2>5, TypeSplitNext
  <2>7. ChainOK' /\ PlanOK'
    BY <2>1, <2>2 DEF IInv, ChainOK, PlanOK
  <2>8. Faithful' = Faithful
    BY <2>1 DEF Faithful
  <2>9. StoreOK' /\ ToldOK'
    BY <2>1, <2>2, <2>8 DEF IInv, StoreOK, ToldOK, Untold, Before
  <2>10. QED
    BY <2>6, <2>7, <2>9 DEF IInv
<1>7. QED
  BY <1>1, <1>2, <1>3, <1>4, <1>5, <1>6 DEF Next

(* Every reachable state satisfies the inductive invariant. *)
THEOREM Invariance == Spec => []IInv
  BY InitIInv, NextIInv, PTL DEF Spec

(* Every start and end of a membership up to the cursor has its system     *)
(* message (apply_event, insert_system_message), through replays of half   *)
(* applied checkpoints, unless the store gave something up or a message    *)
(* was lost between the store's update and its own insert.                 *)
THEOREM AnnouncedTheorem == Spec => []AnnouncementsKept
<1>1. IInv => AnnouncementsKept
  BY DEF IInv, ToldOK, AnnouncementsKept
<1>2. QED
  BY <1>1, Invariance, PTL

(* The step that StoreFollowsChain allows. *)
FollowStep ==
  cursor' # cursor /\ cursor' # NoCursor /\ Faithful'
    => /\ cursor' = cursor + 1
       /\ members' = After(cursor')
       /\ durable => saved' = cursor' /\ rows' = members'

(* Every step that moves the cursor has the store follow the chain. *)
LEMMA NextFollows == IInv /\ [Next]_vars => [FollowStep]_vars
<1> SUFFICES ASSUME IInv, [Next]_vars, cursor' # cursor, cursor' # NoCursor, Faithful'
             PROVE  /\ cursor' = cursor + 1
                    /\ members' = After(cursor')
                    /\ durable => saved' = cursor' /\ rows' = members'
  BY DEF FollowStep
<1>1. CASE AdvanceCursor
  <2>1. members' = members
    BY <1>1 DEF AdvanceCursor
  <2>2. QED
    BY <1>1, <2>1, AdvanceVal
<1>2. CASE Crash
  <2>1. cursor' = saved /\ UNCHANGED <<durable, cleared, skipped, unsaved>>
    BY <1>2 DEF Crash, envVars
  <2>2. Faithful
    BY <2>1 DEF Faithful
  <2>3. saved = cursor \/ saved = NoCursor
    BY <2>2 DEF IInv, StoreOK
  <2>4. QED
    BY <2>1, <2>3
<1>3. CASE fetch_latest_checkpoint \/ StreamNext \/ poll_latest
  <2>1. PICK c : ingest_checkpoint(c)
    BY <1>3 DEF fetch_latest_checkpoint, StreamNext, poll_latest
  <2>2. ~cleared'
    BY DEF Faithful
  <2>3. UNCHANGED cursor
    BY <2>1, <2>2, Zenon DEF ingest_checkpoint
  <2>4. QED
    BY <2>3
<1>4. CASE UNCHANGED cursor
  BY <1>4
<1>5. QED
  <2>1. ASSUME Produce \/ Prune \/ Subscribe \/ catch_up_recent \/ apply_event
               \/ insert_system_message \/ Disconnect \/ UNCHANGED vars
        PROVE  UNCHANGED cursor
    BY <2>1 DEF Produce, Prune, Subscribe, catch_up_recent, apply_event, insert_system_message,
                Disconnect, vars, storeVars
  <2>2. QED
    BY <1>1, <1>2, <1>3, <1>4, <2>1 DEF Next, Relayer

(* The cursor passes checkpoints one by one, and each time the store is    *)
(* the chain's state there, in memory and in what a restart would load     *)
(* (ingest_checkpoint, replay_checkpoints, apply_event).                   *)
THEOREM FollowsTheorem == Spec => StoreFollowsChain
<1>1. Spec => [][FollowStep]_vars
  BY Invariance, NextFollows, PTL DEF Spec
<1>2. QED
  BY <1>1 DEF FollowStep, StoreFollowsChain
=============================================================================
