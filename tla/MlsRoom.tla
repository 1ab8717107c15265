------------------------------ MODULE MlsRoom ------------------------------
(***************************************************************************)
(* The membership rule of one MLS group: who is a leaf of the ratchet tree, *)
(* who may read on chain, and the calls of a device's session that compare *)
(* the two, remove leaves by index, add devices, join, log out and encrypt.*)
(*                                                                         *)
(* MlsGroup shows that the accepted commits are one chain and that no      *)
(* device is on a fork.  Here a state is therefore the number of an epoch, *)
(* an accepted commit takes effect at once for its author, and what is     *)
(* studied is the interleaving of calls: every call reads something,       *)
(* awaits, and acts on it in an epoch that may no longer be the last.      *)
(***************************************************************************)
EXTENDS Naturals, Sequences, FiniteSets

CONSTANTS
    Device,      \* the members' devices, one per wallet
    MaxLeaf,     \* bound: the greatest leaf index
    MaxEvents    \* bound: permissions granted or revoked on chain, set-ups run
                 \*        again, devices that log out, certificates that cannot
                 \*        be verified, joins made while the relayer lags

Leaf  == 0..MaxLeaf
Blank == "blank"

LeavesOf(t, x) == {i \in Leaf : t[i] = x}

\* The tree after the devices have joined one after the other.
Joined(t) ==
    /\ t \in [Leaf -> Device \cup {Blank}]
    /\ \A d \in Device : Cardinality(LeavesOf(t, d)) = 1
    /\ \A i, j \in Leaf : i < j /\ t[i] = Blank => t[j] = Blank

\* There are leaves for all devices.
ASSUME RoomAssumption ==
    /\ Blank \notin Device
    /\ MaxLeaf \in Nat
    /\ MaxEvents \in Nat
    /\ \E t \in [Leaf -> Device \cup {Blank}] : Joined(t)

VARIABLES
    readers,   \* devices whose wallet holds MessagingReader on chain
    gate,      \* the relayer's copy of it, which decides who may post
    revoked,   \* devices revoked in the on-chain registry
    trees,     \* the ratchet tree of each epoch: trees[e + 1]
    entered,   \* the devices each commit brought in: entered[e]
    props,     \* leaves proposed for removal in the present epoch
    welcome,   \* epoch of the Welcome that waits for a device; 0: none
    st,        \* a device's group: "in", "stuck" (removed, or desynced), "none", "gone"
    at,        \* the epoch of its state
    pend,      \* the proposals it has stored for that epoch
    call,      \* the call its session is executing
    events     \* such events so far

chainVars  == <<readers, gate, revoked>>
groupVars  == <<trees, entered, props, welcome>>
deviceVars == <<st, at, pend>>
vars == <<chainVars, groupVars, deviceVars, call, events>>

Members(t)  == {t[i] : i \in Leaf} \ {Blank}
Epoch       == Len(trees) - 1
Tree(e)     == trees[e + 1]
Without(t, out) == [i \in Leaf |-> IF i \in out THEN Blank ELSE t[i]]

NoOp == [pc |-> "idle", next |-> "idle", asked |-> {}, bad |-> {}, epoch |-> 0,
         unknown |-> FALSE]

Pc == {"idle", "sync", "remove", "pending", "encrypt", "add", "join"}

TypeOK ==
    /\ readers \subseteq Device /\ gate \subseteq Device /\ revoked \subseteq Device
    /\ \A e \in 0..Epoch :
          /\ Tree(e) \in [Leaf -> Device \cup {Blank}]
          /\ Members(Tree(e)) # {}
    /\ Len(entered) = Epoch
    /\ props \subseteq {i \in Leaf : Tree(Epoch)[i] # Blank}
    /\ welcome \in [Device -> 0..Epoch]
    /\ st \in [Device -> {"in", "stuck", "none", "gone"}]
    /\ at \in [Device -> 0..Epoch]
    /\ pend \in [Device -> SUBSET Leaf]
    /\ call \in [Device -> [pc : Pc, next : Pc \cup {"check"}, asked : SUBSET Device,
                          bad : SUBSET Leaf, epoch : 0..Epoch, unknown : BOOLEAN]]
    /\ \A d \in Device : st[d] = "in" =>
          /\ d \in Members(Tree(at[d]))
          /\ \A i \in pend[d] : Tree(at[d])[i] \notin {Blank, d}

\* The devices have joined in one order.  The second one may have been removed
\* since, which leaves a blank, and who may read may have changed; the first
\* is still a reader.
Init ==
    /\ \E out \in {{}, {1}} :
          trees = <<Without(CHOOSE t \in [Leaf -> Device \cup {Blank}] : Joined(t), out)>>
    /\ readers \in SUBSET Device
    /\ Tree(0)[0] \in readers
    /\ gate = readers /\ revoked = {}
    /\ entered = <<>> /\ props = {}
    /\ welcome = [d \in Device |-> 0]
    /\ st = [d \in Device |-> IF d \in Members(Tree(0)) THEN "in" ELSE "none"]
    /\ at = [d \in Device |-> 0]
    /\ pend = [d \in Device |-> {}]
    /\ call = [d \in Device |-> NoOp]
    /\ events = 0

Event == events < MaxEvents /\ events' = events + 1

(***************************************************************************)
(* The tree (OpenMLS).                                                     *)
(***************************************************************************)

\* The devices that are added take the leftmost blank leaves, one each, in
\* the order of their KeyPackages.
Placements(t, new) ==
    {f \in [LeavesOf(t, Blank) -> new \cup {Blank}] :
        /\ \A x \in new : \E i \in DOMAIN f : f[i] = x
        /\ \A i, j \in DOMAIN f : i < j => f[j] = Blank \/ f[i] \notin {Blank, f[j]}}

With(new, t) ==
    {[i \in Leaf |-> IF t[i] = Blank THEN f[i] ELSE t[i]] : f \in Placements(t, new)}

\* The relayer has accepted a commit: a new epoch, no proposals.  The author
\* is in it at once.
Accept(d, t, new) ==
    /\ trees' = Append(trees, t)
    /\ entered' = Append(entered, new)
    /\ props' = {}
    /\ at' = [at EXCEPT ![d] = Epoch + 1]
    /\ pend' = [pend EXCEPT ![d] = {}]

Call(d, rec)  == call' = [call EXCEPT ![d] = rec]
Goto(d, pc)   == call' = [call EXCEPT ![d].pc = pc]
End(d)        == Call(d, NoOp)

(***************************************************************************)
(* The chain, and the relayer's copy of it.                                *)
(***************************************************************************)

SetReader(x) ==
    /\ Event
    /\ readers' = IF x \in readers THEN readers \ {x} ELSE readers \cup {x}
    /\ UNCHANGED <<gate, revoked, groupVars, deviceVars, call>>

FollowChain ==
    /\ gate # readers
    /\ gate' = readers
    /\ UNCHANGED <<readers, revoked, groupVars, deviceVars, call, events>>

(***************************************************************************)
(* Following the log.                                                      *)
(***************************************************************************)

\* A session follows the log at the start of a send, after a lost race and,
\* between calls, from the read path (getMessages, subscribe).
Following(d) ==
    /\ st[d] = "in"
    /\ \/ call[d].pc = "sync"
       \/ call[d].pc = "idle" /\ (at[d] < Epoch \/ pend[d] # props)

\* Later epochs in which d has no leaf, or one that is not of this state.
Removal(d) == {e \in at[d] + 1..Epoch : d \notin Members(Tree(e)) \/ d \in entered[e]}

\* The rows up to the end of the log are applied: the last commit's tree is
\* the device's tree.  A commit drops the proposals of its epoch; those after
\* it are stored.
syncLoop(d) ==
    /\ Following(d) /\ call[d].next # "check"
    /\ Removal(d) = {}
    /\ at' = [at EXCEPT ![d] = Epoch]
    /\ pend' = [pend EXCEPT ![d] = props]
    /\ Call(d, [call[d] EXCEPT !.pc = call[d].next, !.next = "idle"])
    /\ UNCHANGED <<chainVars, groupVars, st, events>>

\* A commit on the way removes this device, or replaced its leaf.
syncRemoved(d) ==
    /\ Following(d)
    /\ Removal(d) # {}
    /\ st' = [st EXCEPT ![d] = "stuck"]
    /\ at' = [at EXCEPT ![d] = 0]
    /\ pend' = [pend EXCEPT ![d] = {}]
    /\ Goto(d, "sync")
    /\ UNCHANGED <<chainVars, groupVars, events>>

\* resync: a device that is still a reader joins again, one that is not
\* forgets the group; the call it was part of then finds no group.
resync(d) ==
    /\ call[d].pc = "sync" /\ st[d] = "stuck"
    /\ IF d \in readers
       THEN Goto(d, "join") /\ UNCHANGED st
       ELSE End(d) /\ st' = [st EXCEPT ![d] = "none"]
    /\ UNCHANGED <<chainVars, groupVars, at, pend, events>>

\* The resync budget or the back-off stops it.
resyncRefused(d) ==
    /\ call[d].pc = "sync" /\ st[d] = "stuck"
    /\ End(d)
    /\ UNCHANGED <<chainVars, groupVars, deviceVars, events>>

(***************************************************************************)
(* Joining.                                                                *)
(***************************************************************************)

\* acceptWelcomes: only into a group the device is not in.
acceptWelcomes(d) ==
    /\ call[d].pc = "idle" /\ welcome[d] # 0 /\ st[d] # "gone"
    /\ welcome' = [welcome EXCEPT ![d] = 0]
    /\ IF st[d] = "in"
       THEN UNCHANGED <<st, at, pend>>
       ELSE /\ st' = [st EXCEPT ![d] = "in"]
            /\ at' = [at EXCEPT ![d] = welcome[d]]
            /\ pend' = [pend EXCEPT ![d] = {}]
    /\ UNCHANGED <<chainVars, trees, entered, props, call, events>>

\* joinExternal until its GroupInfo is current: the old leaf, if there is
\* one, goes, and a new one is taken.
joinExternal(d) ==
    /\ d \in gate
    /\ \E t \in With({d}, Without(Tree(Epoch), LeavesOf(Tree(Epoch), d))) :
          Accept(d, t, {d})
    /\ st' = [st EXCEPT ![d] = "in"]

\* Mutant: a removed device counts as being in the group.
HasNoGroupUnlessStuck(d) == st[d] = "none"

\* Without the group, or with one it was removed from.
HasNoGroup(d) == st[d] \in {"none", "stuck"}

\* ensureGroup: a device without the group joins, whether or not it is one of
\* the readers it has asked for; the relayer decides.  (The joins of a device
\* that is none are bounded.)  A Welcome that waits may not have been asked
\* for, as that is throttled.
ensureGroup(d) ==
    /\ call[d].pc = "idle" /\ HasNoGroup(d)
    /\ joinExternal(d)
    /\ IF d \in readers THEN UNCHANGED events ELSE Event
    /\ UNCHANGED <<chainVars, welcome, call>>

\* resync found this device among the readers: it joins and reads on.
rejoin(d) ==
    /\ call[d].pc = "join"
    /\ joinExternal(d)
    /\ Goto(d, IF call[d].next = "idle" THEN "idle" ELSE "sync")
    /\ UNCHANGED <<chainVars, welcome, events>>

rejoinRefused(d) ==
    /\ call[d].pc = "join" /\ d \notin gate
    /\ End(d)
    /\ UNCHANGED <<chainVars, groupVars, deviceVars, events>>

(***************************************************************************)
(* Commits.                                                                *)
(***************************************************************************)

\* A commit of a member takes along the proposals it has stored.
Commit(d, out, new) ==
    /\ at[d] = Epoch
    /\ \E t \in With(new, Without(Tree(Epoch), out \cup pend[d])) : Accept(d, t, new)

\* The relayer answers 409: the session rolls back, catches up and builds
\* again, from the start of the step it was in.
Loses(d) ==
    /\ at[d] < Epoch
    /\ call' = [call EXCEPT ![d].pc = "sync", ![d].next = call[d].pc]

\* Not allowed to post any more, or the last attempt is over.
commitFails(d) ==
    /\ call[d].pc \in {"remove", "pending", "add"}
    /\ d \notin gate \/ at[d] < Epoch
    /\ End(d)
    /\ UNCHANGED <<chainVars, groupVars, deviceVars, events>>

(***************************************************************************)
(* Sending.                                                                *)
(***************************************************************************)

\* sendEnvelope has a session in the group and asks for the readers; seal
\* then catches up.
sendEnvelope(d) ==
    /\ call[d].pc = "idle" /\ st[d] = "in"
    /\ Call(d, [NoOp EXCEPT !.pc = "sync", !.next = "check", !.asked = readers])
    /\ UNCHANGED <<chainVars, groupVars, deviceVars, events>>

\* Bad leaves are removed, with the stored proposals; without any, the
\* proposals are committed by themselves.
AfterCheck(bad) ==
    IF bad # {} THEN "remove" ELSE IF props # {} THEN "pending" ELSE "encrypt"

\* Mutant: the relayer has to list a reader too.
BadLeavesByGate(d, unknown, t) ==
    {i \in Leaf : /\ t[i] \notin {Blank, d} \cup unknown
                  /\ t[i] \notin call[d].asked \cap gate \/ t[i] \in revoked}

\* Mutant: revoked devices are not looked at.
BadLeavesReadersOnly(d, unknown, t) ==
    {i \in Leaf : t[i] \notin {Blank, d} \cup call[d].asked}

\* The leaves to remove: not of a reader, or of a revoked device.
BadLeaves(d, unknown, t) ==
    {i \in Leaf : /\ t[i] \notin {Blank, d} \cup unknown
                  /\ t[i] \notin call[d].asked \/ t[i] \in revoked}

\* The session has caught up and checks the tree.  A certificate that cannot
\* be verified now only pauses the send.
reconcile(d, unknown) ==
    LET bad == BadLeaves(d, unknown, Tree(Epoch)) IN
    /\ call[d].pc = "sync" /\ call[d].next = "check"
    /\ st[d] = "in" /\ Removal(d) = {}
    /\ at' = [at EXCEPT ![d] = Epoch]
    /\ pend' = [pend EXCEPT ![d] = props]
    /\ unknown \subseteq (Members(Tree(Epoch)) \cap call[d].asked) \ {d}
    /\ IF unknown = {} THEN UNCHANGED events ELSE Event
    /\ Call(d, [call[d] EXCEPT !.pc = AfterCheck(bad), !.next = "idle",
                             !.bad = bad, !.epoch = Epoch, !.unknown = unknown # {}])
    /\ UNCHANGED <<chainVars, groupVars, st>>

Removable(d) == \A i \in call[d].bad : Tree(at[d])[i] \notin {Blank, d}

\* removeLeaves takes the indices that were found, in whatever tree the
\* device is in by now.
removeLeaves(d) ==
    /\ call[d].pc = "remove" /\ d \in gate /\ Removable(d)
    /\ Commit(d, call[d].bad, {})
    /\ Call(d, [call[d] EXCEPT !.pc = "encrypt", !.bad = {}])
    /\ UNCHANGED <<chainVars, welcome, st, events>>

\* Mutant: a lost race ends the removal.
removeDropped(d) ==
    /\ call[d].pc \in {"remove", "pending"} /\ d \in gate
    /\ at[d] < Epoch
    /\ call' = [call EXCEPT ![d].pc = "sync", ![d].next = "pending"]
    /\ UNCHANGED <<chainVars, groupVars, deviceVars, events>>

\* The relayer answers 409: catch up, and build the same step again.
removeLost(d) ==
    /\ call[d].pc \in {"remove", "pending"} /\ d \in gate
    /\ call[d].pc = "remove" => Removable(d)
    /\ call[d].pc = "pending" => pend[d] # {}
    /\ Loses(d)
    /\ UNCHANGED <<chainVars, groupVars, deviceVars, events>>

\* OpenMLS refuses to remove a blank leaf or oneself.
removeThrows(d) ==
    /\ call[d].pc = "remove" /\ ~Removable(d)
    /\ End(d)
    /\ UNCHANGED <<chainVars, groupVars, deviceVars, events>>

commitPending(d) ==
    /\ call[d].pc = "pending" /\ d \in gate /\ pend[d] # {}
    /\ Commit(d, {}, {})
    /\ Goto(d, "encrypt")
    /\ UNCHANGED <<chainVars, welcome, st, events>>

\* A lost race has taken the proposals along.
nothingPending(d) ==
    /\ call[d].pc = "pending" /\ pend[d] = {}
    /\ Goto(d, "encrypt")
    /\ UNCHANGED <<chainVars, groupVars, deviceVars, events>>

\* The message is encrypted to the tree of the device's present epoch.
encrypt(d) ==
    /\ call[d].pc = "encrypt" /\ ~call[d].unknown
    /\ End(d)
    /\ UNCHANGED <<chainVars, groupVars, deviceVars, events>>

paused(d) ==
    /\ call[d].pc = "encrypt" /\ call[d].unknown
    /\ End(d)
    /\ UNCHANGED <<chainVars, groupVars, deviceVars, events>>

(***************************************************************************)
(* Adding devices, and logging out.                                        *)
(***************************************************************************)

\* setupMlsGroup on a group that is set up: the readers' devices that this
\* device does not see in the group, by one KeyPackage each.
addWallets(d) ==
    /\ call[d].pc = "idle" /\ st[d] = "in" /\ d \in readers
    /\ Event
    /\ LET usable == {x \in (readers \ revoked) \ Members(Tree(at[d])) : st[x] # "gone"} IN
       /\ usable # {}
       /\ Call(d, [NoOp EXCEPT !.pc = "add", !.asked = usable, !.epoch = at[d]])
    /\ UNCHANGED <<chainVars, groupVars, deviceVars>>

\* Mutant: who is in the group is not looked at again.
TodoUnchecked(d) == call[d].asked

Todo(d) == call[d].asked \ Members(Tree(at[d]))

addMembers(d) ==
    /\ call[d].pc = "add" /\ d \in gate /\ Todo(d) # {}
    /\ Commit(d, {}, Todo(d))
    /\ welcome' = [x \in Device |-> IF x \in Todo(d) THEN Epoch + 1 ELSE welcome[x]]
    /\ End(d)
    /\ UNCHANGED <<chainVars, st, events>>

addLost(d) ==
    /\ call[d].pc = "add" /\ d \in gate /\ Todo(d) # {}
    /\ Loses(d)
    /\ UNCHANGED <<chainVars, groupVars, deviceVars, events>>

nothingToAdd(d) ==
    /\ call[d].pc = "add" /\ Todo(d) = {}
    /\ End(d)
    /\ UNCHANGED <<chainVars, groupVars, deviceVars, events>>

\* The proposal counts in the epoch it was made in only.  Nothing of the
\* device is left.
logout(d) ==
    /\ call[d].pc = "idle" /\ st[d] = "in"
    /\ Event
    /\ props' = IF at[d] = Epoch /\ d \in gate
                THEN props \cup LeavesOf(Tree(Epoch), d) ELSE props
    /\ st' = [st EXCEPT ![d] = "gone"]
    /\ welcome' = [welcome EXCEPT ![d] = 0]
    /\ at' = [at EXCEPT ![d] = 0]
    /\ pend' = [pend EXCEPT ![d] = {}]
    /\ UNCHANGED <<chainVars, trees, entered, call>>

\* The end of a logout, if the device is registered and a node answers.
revokeByDevice(d) ==
    /\ st[d] = "gone" /\ d \notin revoked
    /\ revoked' = revoked \cup {d}
    /\ UNCHANGED <<readers, gate, groupVars, deviceVars, call, events>>

Steps(d) ==
    \/ syncLoop(d) \/ syncRemoved(d) \/ resync(d)
    \/ rejoin(d) \/ rejoinRefused(d)
    \/ commitFails(d)
    \/ \E unknown \in SUBSET Device : reconcile(d, unknown)
    \/ removeLeaves(d) \/ removeLost(d) \/ removeThrows(d)
    \/ commitPending(d) \/ nothingPending(d)
    \/ encrypt(d) \/ paused(d)
    \/ addMembers(d) \/ addLost(d) \/ nothingToAdd(d)

\* What a session does as long as its user keeps the chat open and sends.
Session(d) == sendEnvelope(d) \/ acceptWelcomes(d) \/ ensureGroup(d) \/ Steps(d)

Next ==
    \/ FollowChain
    \/ \E d \in Device :
          \/ SetReader(d) \/ logout(d) \/ revokeByDevice(d) \/ addWallets(d)
          \/ resyncRefused(d) \/ Session(d)

Spec == Init /\ [][Next]_vars

\* The relayer follows the chain; chats stay open and their users send.
Fairness == WF_vars(FollowChain) /\ \A d \in Device : WF_vars(Session(d))

LiveSpec == Spec /\ Fairness

(***************************************************************************)
(* Properties.                                                             *)
(***************************************************************************)

EnteredSince(e, f) == UNION {entered[g] : g \in e + 1..f}

\* seal: a message is encrypted to readers only, as they were when the send
\* began.  The one exception is a device that entered by a commit of someone
\* else which this send lost a race to: it is not looked at again.
SealedToReaders ==
    \A d \in Device :
       call[d].pc = "encrypt" /\ ~call[d].unknown =>
          Members(Tree(at[d])) \subseteq
             call[d].asked \cup {d} \cup EnteredSince(call[d].epoch, at[d])

\* A commit removes a leaf because its wallet is no reader, its device was
\* revoked or has logged out; a reader's leaf goes by mistake only if it took
\* over an index that was condemned before a lost race.
RemovalJustified ==
    \A d \in Device :
       /\ call[d].pc = "remove" /\ at[d] = Epoch /\ Removable(d) =>
             \A i \in call[d].bad :
                LET x == Tree(Epoch)[i] IN
                x \notin call[d].asked \/ x \in revoked \/ x \in EnteredSince(call[d].epoch, at[d])
       /\ call[d].pc # "idle" /\ at[d] = Epoch =>
             \A i \in pend[d] : st[Tree(Epoch)[i]] = "gone"

\* The state is well typed, and joins, adds and rejoins that race never give
\* a device two leaves.
OneLeafEach ==
    /\ TypeOK
    /\ \A d \in Device : Cardinality(LeavesOf(Tree(Epoch), d)) <= 1

\* A device that stays a reader gets into the group, also when its leaf was
\* removed by mistake.
ReadersReturn ==
    \A d \in Device :
       d \in readers ~> \/ st[d] = "in" /\ d \in Members(Tree(Epoch))
                        \/ d \notin readers \/ st[d] = "gone"

\* A device that is no reader any more, or was revoked, loses its leaf, as
\* long as another reader is there to send.
Barred(d) == d \notin readers \/ d \in revoked

Sender(d) == \E x \in readers \ {d} : st[x] # "gone"

BarredLeave ==
    \A d \in Device :
       Barred(d) ~> d \notin Members(Tree(Epoch)) \/ ~Barred(d) \/ ~Sender(d)
=============================================================================
