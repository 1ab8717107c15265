-------------------------- MODULE WorkflowItemsProofs --------------------------
(***************************************************************************)
(* Proofs about WorkflowItems for every set of invitees, agents and        *)
(* permissions, every sweep limit and every number of requests, decisions  *)
(* and faults.                                                             *)
(*                                                                         *)
(* The relayer may apply the chain's events again from any place.  What an *)
(* event achieved stays: a row that exists goes on existing, and one that  *)
(* was closed stays closed; and an event never says more than was asked or *)
(* decided by the time it was emitted.                                     *)
(***************************************************************************)
EXTENDS WorkflowItems, FiniteSetTheorems, SequenceTheorems, TLAPS

Event == [what : {"created"} \cup DOMAIN NewStatus, id : Invitee \cup Agent \cup Mask,
          deadline : Deadline, round : UNION {[S -> Nat] : S \in SUBSET Key}]

(* An event makes a request that was made, with its deadline if it is the  *)
(* last one, or answers requests that are decided.                         *)
EventOK(e) ==
  IF e.what = "created"
  THEN LET k == Invitation(e.id)
       IN /\ e.id \in Invitee /\ e.round[k] \in Nat
          /\ e.round[k] <= asked[k].made
          /\ e.round[k] = asked[k].made => e.deadline = asked[k].deadline
  ELSE \A k \in Closes(e) : k \in Key /\ e.round[k] \in Nat /\ e.round[k] <= asked[k].decided

ChainOK ==
  /\ chain \in Seq(Event)
  /\ \A i \in DOMAIN chain : EventOK(chain[i])

(* Every invitation, and every decision of a request that one event can    *)
(* close, is on the chain.                                                 *)
Several(k) == k.type = "memory_access_request" /\ Cardinality(k.id) > 1
EmittedOK ==
  \A k \in Key :
    /\ k \in Invitations /\ asked[k].made > 0 =>
         \E i \in DOMAIN chain : chain[i].what = "created" /\ k = Invitation(chain[i].id)
    /\ asked[k].decided > 0 /\ ~Several(k) =>
         \E i \in DOMAIN chain : chain[i].what # "created" /\ k \in Closes(chain[i])

(* A posted request has its row, or is under way, and no post says more    *)
(* than was asked.                                                         *)
PostsOK ==
  /\ \A post \in posts : post.round <= asked[post.key].made
  /\ \A k \in Posted : asked[k].made > 0 /\ items[k].status = "none" =>
       \E post \in posts : post.key = k

(* What an applied event has achieved, unless it was missed. *)
Achieved(i) ==
  IF chain[i].what = "created"
  THEN Invitation(chain[i].id) \in missed \/ items[Invitation(chain[i].id)].status # "none"
  ELSE \A k \in Closes(chain[i]) : k \in missed \/ items[k].status \in Closed
AppliedOK == \A i \in 1..applied : Achieved(i)

(* How a row stands to the last request of its key. *)
RowOK ==
  \A k \in Key :
    /\ items[k].by = "chain" => items[k].round <= asked[k].decided
    /\ k \in Invitations /\ items[k].status = "open" =>
         items[k].round < asked[k].made \/ items[k].deadline = asked[k].deadline
    /\ items[k].by = "sweep" => items[k].round < asked[k].made \/ asked[k].deadline < now

(* The inductive invariant. *)
IInv == TypeOK /\ ChainOK /\ EmittedOK /\ PostsOK /\ AppliedOK /\ RowOK

-----------------------------------------------------------------------------
(* Facts about keys, events and the operators of the store.                *)

(* An invitation's key is no posted request's.                             *)
LEMMA KeyFacts ==
  /\ \A x \in Invitee : Invitation(x) \in Key /\ Invitation(x) \in Invitations
  /\ \A g \in Agent : Approval(g) \in Key /\ Approval(g) \in Posted
  /\ \A m \in Mask : MemoryAccess(m) \in Key /\ MemoryAccess(m) \in Posted
  /\ Invitations \cap Posted = {}
  /\ Invitations \subseteq Key /\ Posted \subseteq Key
  /\ \A x, y : Invitation(x) = Invitation(y) => x = y
  /\ \A x, y : Approval(x) = Approval(y) => x = y
  /\ \A x, y : MemoryAccess(x) = MemoryAccess(y) => x = y
  /\ \A k \in Key : k \in Invitations <=> k.type = "org_invitation"
<1>1. /\ \A x, y : Invitation(x) = Invitation(y) => x = y
      /\ \A x, y : Approval(x) = Approval(y) => x = y
      /\ \A x, y : MemoryAccess(x) = MemoryAccess(y) => x = y
  BY DEF Invitation, Approval, MemoryAccess
<1>2. /\ \A x : Invitation(x).type = "org_invitation"
      /\ \A x : Approval(x).type = "approval_request"
      /\ \A x : MemoryAccess(x).type = "memory_access_request"
  BY DEF Invitation, Approval, MemoryAccess
<1>3. /\ \A k \in Invitations : k.type = "org_invitation"
      /\ \A k \in Posted : k.type # "org_invitation"
  BY <1>2 DEF Invitations, Posted
<1>4. QED
  BY <1>1, <1>3 DEF Invitations, Posted, Key

(* The rows that each kind of event closes. *)
LEMMA ClosesFacts ==
  ASSUME NEW e
  PROVE  /\ e.what \in {"accepted", "declined"} => Closes(e) = {Invitation(e.id)}
         /\ e.what \in {"PermissionGranted", "PermissionRevoked"} =>
              Closes(e) = {MemoryAccess({b}) : b \in e.id}
         /\ e.what \in {"SpendApproved", "SpendApprovalConsumed", "SpendApprovalRevoked"} =>
              Closes(e) = {Approval(e.id)}
BY DEF Closes

(* Emitting appends one event. *)
LEMMA EmitAppends ==
  ASSUME NEW what, NEW id, NEW deadline, NEW round, Emit(what, id, deadline, round)
  PROVE  chain' = Append(chain, [what |-> what, id |-> id, deadline |-> deadline,
                                 round |-> round])
BY DEF Emit

(* Ingesting keeps a closed row's status, closer and round, and leaves no  *)
(* row absent.                                                             *)
LEMMA UpsertRow ==
  ASSUME NEW row \in Row, NEW d \in Deadline, NEW n \in Nat
  PROVE  LET r == upsert_ingest(row, d, n)
         IN /\ r \in Row /\ r.status # "none" /\ r.by = row.by
            /\ row.status \in Closed => r.status = row.status /\ r.round = row.round
            /\ row.status \notin Closed => r.status = "open" /\ r.round = n /\ r.deadline = d
BY DEF upsert_ingest, Row, Closed

(* A transition by key closes an open row and changes no other. *)
LEMMA TransitionRow ==
  ASSUME NEW row \in Row, NEW w \in DOMAIN NewStatus, NEW n \in Nat
  PROVE  LET r == transition_by_idempotency(row, NewStatus[w], "chain", n)
         IN /\ r \in Row
            /\ row.status # "open" => r = row
            /\ row.status = "open" => r.status \in Closed /\ r.by = "chain" /\ r.round = n
<1>1. /\ NewStatus.accepted = "actioned" /\ NewStatus.declined = "dismissed"
      /\ NewStatus.SpendApproved = "actioned" /\ NewStatus.SpendApprovalConsumed = "actioned"
      /\ NewStatus.SpendApprovalRevoked = "expired"
      /\ NewStatus.PermissionGranted = "actioned" /\ NewStatus.PermissionRevoked = "dismissed"
  BY DEF NewStatus
<1>2. w \in {"accepted", "declined", "SpendApproved", "SpendApprovalConsumed",
             "SpendApprovalRevoked", "PermissionGranted", "PermissionRevoked"}
  BY DEF NewStatus
<1>3. NewStatus[w] \in Closed
  BY <1>1, <1>2 DEF Closed
<1>4. QED
  BY <1>3 DEF transition_by_idempotency, Row, Closed

(* The kinds of events. *)
LEMMA EventKinds ==
  DOMAIN NewStatus = {"accepted", "declined", "SpendApproved", "SpendApprovalConsumed",
                      "SpendApprovalRevoked", "PermissionGranted", "PermissionRevoked"}
BY DEF NewStatus

-----------------------------------------------------------------------------
(* The invariant holds at first, and every step keeps it.                  *)

(* There are no requests, events or rows at first. *)
LEMMA InitIInv == Init => IInv
<1> SUFFICES ASSUME Init PROVE IInv
  OBVIOUS
<1>1. /\ 0 \in Time /\ NoDeadline \in Deadline /\ NoRow \in Row
  BY InboxAssumption DEF Time, NoDeadline, Deadline, NoRow, Row
<1>2. TypeOK
  BY <1>1, InboxAssumption DEF Init, TypeOK, NoRow, Closed
<1>3. ChainOK /\ EmittedOK /\ PostsOK /\ AppliedOK /\ RowOK
  BY KeyFacts DEF Init, ChainOK, EmittedOK, PostsOK, AppliedOK, Achieved, RowOK, NoRow
<1>4. QED
  BY <1>2, <1>3 DEF IInv

(* What any step of the world does to the requests of a key. *)
Grown(k) ==
  /\ asked'[k].made >= asked[k].made /\ asked'[k].decided >= asked[k].decided
  /\ asked'[k].decided <= asked'[k].made
  /\ asked'[k].made = asked[k].made => asked'[k].deadline = asked[k].deadline

(* What a sequence of events is after one more. *)
LEMMA AppendOne ==
  ASSUME NEW S, NEW seq \in Seq(S), NEW e \in S
  PROVE  LET t == Append(seq, e)
         IN /\ t \in Seq(S) /\ Len(t) = Len(seq) + 1 /\ Len(seq) \in Nat
            /\ DOMAIN t = 1..(Len(seq) + 1) /\ DOMAIN seq = 1..Len(seq)
            /\ \A i \in 1..Len(seq) : t[i] = seq[i]
            /\ t[Len(seq) + 1] = e
<1>1. Append(seq, e) \in Seq(S)
  BY AppendProperties
<1>2. QED
  BY <1>1, AppendProperties, LenProperties

(* An event that was right stays right. *)
LEMMA EventKept ==
  ASSUME IInv, NEW e \in Event, EventOK(e), \A k \in Key : Grown(k),
         asked' \in [Key -> [made : Nat, decided : Nat, deadline : Deadline]]
  PROVE  EventOK(e)'
<1>0. asked \in [Key -> [made : Nat, decided : Nat, deadline : Deadline]]
  BY DEF IInv, TypeOK
<1>1. CASE e.what = "created"
  <2>1. Invitation(e.id) \in Key
    BY <1>1, KeyFacts DEF EventOK
  <2>2. Grown(Invitation(e.id))
    BY <2>1
  <2>3. QED
    BY <1>0, <1>1, <2>1, <2>2 DEF EventOK, Grown
<1>2. CASE e.what # "created"
  BY <1>0, <1>2 DEF EventOK, Grown
<1>3. QED
  BY <1>1, <1>2

(* The world may ask, decide and emit: the events, the rows and what was   *)
(* applied stay right.                                                     *)
LEMMA WorldFrame ==
  ASSUME IInv, UNCHANGED <<applied, items, missed, faults>>,
         now' \in Time, now <= now',
         asked' \in [Key -> [made : Nat, decided : Nat, deadline : Deadline]],
         \A k \in Key : Grown(k),
         posts' \subseteq [key : Posted, deadline : Deadline, round : Nat],
         \/ chain' = chain
         \/ \E e \in Event : chain' = Append(chain, e) /\ EventOK(e)'
  PROVE  /\ TypeOK' /\ ChainOK' /\ AppliedOK' /\ RowOK'
         /\ \A i \in DOMAIN chain : i \in DOMAIN chain' /\ chain'[i] = chain[i]
<1>0. TypeOK /\ ChainOK /\ EmittedOK /\ PostsOK /\ AppliedOK /\ RowOK
  BY DEF IInv
<1>1. chain \in Seq(Event)
  BY <1>0 DEF ChainOK
<1>2. Len(chain) \in Nat /\ DOMAIN chain = 1..Len(chain)
  BY <1>1, LenProperties
<1> DEFINE Longer ==
        /\ chain' \in Seq(Event) /\ Len(chain') \in Nat /\ Len(chain') >= Len(chain)
        /\ DOMAIN chain' = 1..Len(chain')
        /\ \A i \in 1..Len(chain) : chain'[i] = chain[i]
<1>3. Longer /\ ChainOK'
  <2>1. CASE chain' = chain
    <3>1. Longer
      BY <2>1, <1>1, <1>2
    <3>2. ASSUME NEW i \in DOMAIN chain PROVE EventOK(chain[i])'
      <4>1. PICK v \in Event : v = chain[i]
        BY <1>1, <1>2, ElementOfSeq
      <4>2. EventOK(v)
        BY <1>0, <4>1 DEF ChainOK
      <4>3. EventOK(v)'
        BY <4>2, EventKept
      <4>4. QED
        BY <4>1, <4>3, <2>1 DEF EventOK
    <3>3. QED
      BY <3>1, <3>2, <2>1 DEF ChainOK
  <2>2. ASSUME NEW e \in Event, chain' = Append(chain, e), EventOK(e)'
        PROVE  Longer /\ ChainOK'
    <3>0. /\ chain' \in Seq(Event) /\ Len(chain') = Len(chain) + 1
          /\ DOMAIN chain' = 1..(Len(chain) + 1)
          /\ \A i \in 1..Len(chain) : chain'[i] = chain[i]
          /\ chain'[Len(chain) + 1] = e
      BY ONLY <2>2, <1>1, AppendOne
    <3>1. Longer
      BY ONLY <3>0, <1>2
    <3>2. Len(chain') = Len(chain) + 1 /\ chain'[Len(chain) + 1] = e
      BY <3>0
    <3>3. ASSUME NEW i \in 1..Len(chain') PROVE EventOK(chain[i])'
      <4>1. CASE i \in 1..Len(chain)
        <5>1. PICK v \in Event : v = chain[i]
          BY <1>1, <1>2, <4>1, ElementOfSeq
        <5>2. EventOK(v)
          BY <1>0, <1>2, <4>1, <5>1 DEF ChainOK
        <5>3. EventOK(v)'
          BY <5>2, EventKept
        <5>4. chain'[i] = v
          BY <3>1, <4>1, <5>1
        <5>5. QED
          BY <5>3, <5>4 DEF EventOK
      <4>2. CASE i = Len(chain) + 1
        <5>1. chain'[i] = e
          BY <4>2, <3>2
        <5>2. QED
          BY <5>1, <2>2 DEF EventOK
      <4>3. QED
        BY <3>2, <4>1, <4>2, <1>2
    <3>4. QED
      BY <3>1, <3>3 DEF ChainOK
  <2>3. QED
    BY <2>1, <2>2
<1>4. TypeOK'
  <2>1. \A k \in Key : items[k].round \in Nat
    BY <1>0 DEF TypeOK, Row
  <2>2. \A k \in Key : items'[k].round <= asked'[k].made /\ asked'[k].decided <= asked'[k].made
    BY <1>0, <2>1 DEF TypeOK, Grown
  <2>3. applied \in 0..Len(chain)
    BY <1>0 DEF TypeOK
  <2>4. applied' \in 0..Len(chain')
    BY ONLY <1>2, <1>3, <2>3, applied' = applied
  <2>5. QED
    BY <1>0, <2>2, <2>4 DEF TypeOK
<1>5. AppliedOK'
  <2>0. applied \in 0..Len(chain)
    BY <1>0 DEF TypeOK
  <2>1. \A i \in 1..applied : i \in 1..Len(chain) /\ chain'[i] = chain[i]
    BY ONLY <2>0, <1>2, <1>3
  <2>2. QED
    BY <1>0, <2>1 DEF AppliedOK, Achieved
<1>6. RowOK'
  <2> SUFFICES ASSUME NEW k \in Key
        PROVE  /\ items'[k].by = "chain" => items'[k].round <= asked'[k].decided
               /\ k \in Invitations /\ items'[k].status = "open" =>
                    items'[k].round < asked'[k].made \/ items'[k].deadline = asked'[k].deadline
               /\ items'[k].by = "sweep" =>
                    items'[k].round < asked'[k].made \/ asked'[k].deadline < now'
    BY DEF RowOK
  <2>1. /\ items'[k] = items[k] /\ items[k].round \in Nat /\ items[k].round <= asked[k].made
        /\ asked[k].made \in Nat /\ asked'[k].made \in Nat
        /\ asked[k].decided \in Nat /\ asked'[k].decided \in Nat
        /\ asked[k].deadline \in Nat /\ now \in Nat /\ now' \in Nat
    BY <1>0, InboxAssumption DEF TypeOK, Row, Deadline, Time, NoDeadline
  <2>2. Grown(k)
    OBVIOUS
  <2>3. QED
    BY <1>0, <2>1, <2>2 DEF RowOK, Grown
<1>7. \A i \in DOMAIN chain : i \in DOMAIN chain' /\ chain'[i] = chain[i]
  BY ONLY <1>2, <1>3
<1>8. QED
  BY <1>3, <1>4, <1>5, <1>6, <1>7


(* A step that emits one event and changes only the requests it is about. *)
LEMMA EmitFrame ==
  ASSUME IInv, UNCHANGED <<now, posts, applied, items, missed, faults>>,
         asked' \in [Key -> [made : Nat, decided : Nat, deadline : Deadline]],
         \A k \in Key : Grown(k),
         NEW e \in Event, chain' = Append(chain, e), EventOK(e)',
         \A k \in Key : asked'[k].made # asked[k].made =>
            k \in Invitations /\ e.what = "created" /\ k = Invitation(e.id),
         \A k \in Key : asked'[k].decided # asked[k].decided =>
            Several(k) \/ (e.what # "created" /\ k \in Closes(e))
  PROVE  IInv'
<1>0. TypeOK /\ ChainOK /\ EmittedOK /\ PostsOK /\ AppliedOK /\ RowOK
  BY DEF IInv
<1>1. /\ TypeOK' /\ ChainOK' /\ AppliedOK' /\ RowOK'
      /\ \A i \in DOMAIN chain : i \in DOMAIN chain' /\ chain'[i] = chain[i]
  <2>1. now' \in Time /\ now <= now' /\ now \in Nat
    BY <1>0, InboxAssumption DEF TypeOK, Time
  <2>2. posts' \subseteq [key : Posted, deadline : Deadline, round : Nat]
    BY <1>0 DEF TypeOK
  <2>3. QED
    BY <2>1, <2>2, WorldFrame
<1>2. PICK n \in DOMAIN chain' : chain'[n] = e
  <2>1. chain \in Seq(Event)
    BY <1>0 DEF ChainOK
  <2>2. /\ Len(chain) \in Nat /\ DOMAIN chain' = 1..(Len(chain) + 1)
        /\ chain'[Len(chain) + 1] = e
    BY ONLY <2>1, AppendOne, chain' = Append(chain, e), e \in Event
  <2>3. Len(chain) + 1 \in DOMAIN chain'
    BY ONLY <2>2
  <2>4. QED
    BY <2>2, <2>3
<1>3. EmittedOK'
  <2> SUFFICES ASSUME NEW k \in Key
        PROVE  /\ k \in Invitations /\ asked'[k].made > 0 =>
                    \E i \in DOMAIN chain' :
                        chain'[i].what = "created" /\ k = Invitation(chain'[i].id)
               /\ asked'[k].decided > 0 /\ ~Several(k) =>
                    \E i \in DOMAIN chain' :
                        chain'[i].what # "created" /\ k \in Closes(chain'[i])
    BY DEF EmittedOK, Several
  <2>1. ASSUME k \in Invitations, asked'[k].made > 0
        PROVE  \E i \in DOMAIN chain' :
                  chain'[i].what = "created" /\ k = Invitation(chain'[i].id)
    <3>1. CASE asked'[k].made = asked[k].made
      <4>1. PICK i \in DOMAIN chain : chain[i].what = "created" /\ k = Invitation(chain[i].id)
        BY <1>0, <2>1, <3>1 DEF EmittedOK
      <4>2. QED
        BY <4>1, <1>1
    <3>2. CASE asked'[k].made # asked[k].made
      BY <3>2, <1>2
    <3>3. QED
      BY <3>1, <3>2
  <2>2. ASSUME asked'[k].decided > 0, ~Several(k)
        PROVE  \E i \in DOMAIN chain' : chain'[i].what # "created" /\ k \in Closes(chain'[i])
    <3>1. CASE asked'[k].decided = asked[k].decided
      <4>1. PICK i \in DOMAIN chain : chain[i].what # "created" /\ k \in Closes(chain[i])
        BY <1>0, <2>2, <3>1 DEF EmittedOK
      <4>2. QED
        BY <4>1, <1>1
    <3>2. CASE asked'[k].decided # asked[k].decided
      BY <3>2, <2>2, <1>2
    <3>3. QED
      BY <3>1, <3>2
  <2>3. QED
    BY <2>1, <2>2
<1>4. PostsOK'
  <2>1. \A k \in Posted : k \in Key /\ k \notin Invitations
    BY KeyFacts
  <2>2. \A k \in Posted : asked'[k].made = asked[k].made
    BY <2>1
  <2>3. \A post \in posts : post.key \in Posted
    BY <1>0 DEF TypeOK
  <2>4. QED
    BY <1>0, <2>2, <2>3 DEF PostsOK
<1>5. QED
  BY <1>1, <1>3, <1>4 DEF IInv

(* The round of an event about one key. *)
LEMMA RoundOne ==
  ASSUME NEW k \in Key, NEW n \in Nat
  PROVE  About(k, n) \in UNION {[S -> Nat] : S \in SUBSET Key} /\ About(k, n)[k] = n
<1>1. About(k, n) \in [{k} -> Nat] /\ About(k, n)[k] = n
  BY DEF About
<1>2. QED
  BY <1>1

(* The clock. *)
LEMMA TickIInv == IInv /\ Tick => IInv'
<1> SUFFICES ASSUME IInv, Tick PROVE IInv'
  OBVIOUS
<1>0. TypeOK /\ ChainOK /\ EmittedOK /\ PostsOK /\ AppliedOK /\ RowOK
  BY DEF IInv
<1>1. UNCHANGED <<asked, chain, posts, applied, items, missed, faults>>
  BY DEF Tick
<1>2. now' \in Time /\ now <= now'
  BY <1>0, InboxAssumption DEF Tick, TypeOK, Time
<1>3. asked' \in [Key -> [made : Nat, decided : Nat, deadline : Deadline]]
  BY <1>0, <1>1 DEF TypeOK
<1>4. \A k \in Key : Grown(k)
  BY <1>0, <1>1 DEF Grown, TypeOK
<1>5. posts' \subseteq [key : Posted, deadline : Deadline, round : Nat]
  BY <1>0, <1>1 DEF TypeOK
<1>6. TypeOK' /\ ChainOK' /\ AppliedOK' /\ RowOK'
  BY <1>1, <1>2, <1>3, <1>4, <1>5, WorldFrame
<1>7. EmittedOK' /\ PostsOK'
  BY <1>0, <1>1 DEF EmittedOK, PostsOK, Several
<1>8. QED
  BY <1>6, <1>7 DEF IInv

(* An invitation is made. *)
LEMMA InviteIInv ==
  ASSUME IInv, NEW x \in Invitee, NEW d \in {0, NoDeadline}, Invite(x, d)
  PROVE  IInv'
<1>0. TypeOK
  BY DEF IInv
<1>1. PICK k \in Key : k = Invitation(x)
  BY KeyFacts
<1>2. PICK n \in Nat : n = asked[k].made + 1
  BY <1>0 DEF TypeOK
<1>3. /\ asked' = [asked EXCEPT ![k].made = @ + 1, ![k].deadline = d]
      /\ Emit("created", x, d, About(k, n))
      /\ UNCHANGED <<now, posts, applied, items, missed, faults>>
  BY <1>1, <1>2 DEF Invite
<1>4. d \in Deadline
  BY InboxAssumption DEF Deadline, NoDeadline, Time
<1>5. PICK e \in Event : e = [what |-> "created", id |-> x, deadline |-> d, round |-> About(k, n)]
  BY <1>4, RoundOne DEF Event
<1>6. chain' = Append(chain, e)
  BY <1>3, <1>5, EmitAppends
<1>7. /\ asked \in [Key -> [made : Nat, decided : Nat, deadline : Deadline]]
      /\ asked[k].decided <= asked[k].made
      /\ \A j \in Key : asked[j].decided <= asked[j].made
  BY <1>0 DEF TypeOK
<1>8. /\ asked' \in [Key -> [made : Nat, decided : Nat, deadline : Deadline]]
      /\ asked'[k].made = n /\ asked'[k].decided = asked[k].decided /\ asked'[k].deadline = d
      /\ \A j \in Key \ {k} : asked'[j] = asked[j]
  BY <1>2, <1>3, <1>4, <1>7
<1>9. \A j \in Key : Grown(j)
  BY <1>2, <1>7, <1>8 DEF Grown
<1>10. e.round[k] = n /\ e.what = "created" /\ e.id = x /\ e.deadline = d
  BY <1>5, RoundOne
<1>11. EventOK(e)'
  BY <1>1, <1>8, <1>10 DEF EventOK
<1>12. k \in Invitations
  BY <1>1, KeyFacts
<1>13. \A j \in Key : asked'[j].made # asked[j].made =>
          j \in Invitations /\ e.what = "created" /\ j = Invitation(e.id)
  BY <1>1, <1>8, <1>10, <1>12
<1>14. \A j \in Key : asked'[j].decided = asked[j].decided
  BY <1>8
<1>15. QED
  BY <1>3, <1>6, <1>8, <1>9, <1>11, <1>13, <1>14, EmitFrame

(* A key's last request is decided, and an event that closes the key's row *)
(* says so.                                                                *)
LEMMA DecideFrame ==
  ASSUME IInv, NEW k \in Key, NEW what \in DOMAIN NewStatus,
         NEW id \in Invitee \cup Agent \cup Mask, NEW n \in Nat,
         Emit(what, id, NoDeadline, About(k, n)),
         \A e : e.what = what /\ e.id = id => Closes(e) = {k},
         UNCHANGED <<now, posts, applied, items, missed, faults>>,
         \/ n = asked[k].made /\ asked' = [asked EXCEPT ![k].decided = asked[k].made]
         \/ n = asked[k].decided /\ asked' = asked
  PROVE  IInv'
<1>0. TypeOK
  BY DEF IInv
<1>1. NoDeadline \in Deadline
  BY DEF Deadline
<1>2. PICK e \in Event : e = [what |-> what, id |-> id, deadline |-> NoDeadline,
                              round |-> About(k, n)]
  BY <1>1, RoundOne DEF Event
<1>3. chain' = Append(chain, e)
  BY <1>2, EmitAppends
<1>4. /\ asked \in [Key -> [made : Nat, decided : Nat, deadline : Deadline]]
      /\ \A j \in Key : asked[j].decided <= asked[j].made
  BY <1>0 DEF TypeOK
<1>5. /\ asked' \in [Key -> [made : Nat, decided : Nat, deadline : Deadline]]
      /\ asked'[k].made = asked[k].made /\ asked'[k].deadline = asked[k].deadline
      /\ asked'[k].decided = n
      /\ \A j \in Key \ {k} : asked'[j] = asked[j]
  BY <1>4
<1>6. n <= asked[k].made /\ n >= asked[k].decided
  BY <1>4
<1>7. \A j \in Key : Grown(j)
  BY <1>4, <1>5, <1>6 DEF Grown
<1>8. e.what = what /\ e.id = id /\ e.round[k] = n /\ what # "created" /\ Closes(e) = {k}
  BY <1>2, RoundOne, EventKinds
<1>9. EventOK(e)'
  BY <1>5, <1>8 DEF EventOK
<1>10. \A j \in Key : asked'[j].made = asked[j].made
  BY <1>5
<1>11. \A j \in Key : asked'[j].decided # asked[j].decided =>
          e.what # "created" /\ j \in Closes(e)
  BY <1>5, <1>8
<1>12. QED
  BY <1>3, <1>5, <1>7, <1>9, <1>10, <1>11, EmitFrame

(* An invitation is answered. *)
LEMMA AnswerIInv ==
  ASSUME IInv, NEW x \in Invitee, NEW w \in {"accepted", "declined"}, Answer(x, w)
  PROVE  IInv'
<1>1. PICK k \in Key : k = Invitation(x)
  BY KeyFacts
<1>2. PICK n \in Nat : n = asked[k].made
  BY DEF IInv, TypeOK
<1>3. /\ asked' = [asked EXCEPT ![k].decided = asked[k].made]
      /\ Emit(w, x, NoDeadline, About(k, n))
      /\ UNCHANGED <<now, posts, applied, items, missed, faults>>
  BY <1>1, <1>2 DEF Answer
<1>4. \A e : e.what = w /\ e.id = x => Closes(e) = {k}
  BY <1>1, ClosesFacts
<1>5. w \in DOMAIN NewStatus
  BY EventKinds
<1>6. QED
  BY <1>2, <1>3, <1>4, <1>5, DecideFrame

(* Spending is approved. *)
LEMMA SpendApprovedIInv ==
  ASSUME IInv, NEW g \in Agent, SpendApproved(g)
  PROVE  IInv'
<1>1. PICK k \in Key : k = Approval(g)
  BY KeyFacts
<1>2. PICK n \in Nat : n = asked[k].made
  BY DEF IInv, TypeOK
<1>3. /\ asked' = [asked EXCEPT ![k].decided = asked[k].made]
      /\ Emit("SpendApproved", g, NoDeadline, About(k, n))
      /\ UNCHANGED <<now, posts, applied, items, missed, faults>>
  BY <1>1, <1>2 DEF SpendApproved
<1>4. \A e : e.what = "SpendApproved" /\ e.id = g => Closes(e) = {k}
  BY <1>1, ClosesFacts
<1>5. "SpendApproved" \in DOMAIN NewStatus
  BY EventKinds
<1>6. QED
  BY <1>2, <1>3, <1>4, <1>5, DecideFrame

(* An approval is used up or revoked. *)
LEMMA SpendApprovalEndsIInv ==
  ASSUME IInv, NEW g \in Agent, NEW w \in {"SpendApprovalConsumed", "SpendApprovalRevoked"},
         SpendApprovalEnds(g, w)
  PROVE  IInv'
<1>1. PICK k \in Key : k = Approval(g)
  BY KeyFacts
<1>2. PICK n \in Nat : n = asked[k].decided
  BY DEF IInv, TypeOK
<1>3. /\ asked' = asked
      /\ Emit(w, g, NoDeadline, About(k, n))
      /\ UNCHANGED <<now, posts, applied, items, missed, faults>>
  BY <1>1, <1>2 DEF SpendApprovalEnds
<1>4. \A e : e.what = w /\ e.id = g => Closes(e) = {k}
  BY <1>1, ClosesFacts
<1>5. w \in DOMAIN NewStatus
  BY EventKinds
<1>6. QED
  BY <1>2, <1>3, <1>4, <1>5, DecideFrame

(* A request that covers one permission is no request for several. *)
LEMMA SeveralUnless ==
  ASSUME NEW m \in Mask
  PROVE  Several(MemoryAccess(m)) \/ \E b \in m : m = {b}
<1>1. IsFiniteSet(m) /\ m # {}
  BY InboxAssumption, FS_Subset DEF Mask
<1>2. Cardinality(m) \in Nat /\ Cardinality(m) # 0
  BY <1>1, FS_CardinalityType, FS_EmptySet
<1>3. CASE Cardinality(m) = 1
  BY <1>1, <1>3, FS_Singleton
<1>4. CASE Cardinality(m) > 1
  BY <1>4 DEF Several, MemoryAccess
<1>5. QED
  BY <1>2, <1>3, <1>4

(* A mask of permissions is granted or revoked. *)
LEMMA PermissionIInv ==
  ASSUME IInv, NEW m \in Mask, NEW w \in {"PermissionGranted", "PermissionRevoked"},
         Permission(m, w)
  PROVE  IInv'
<1>0. TypeOK
  BY DEF IInv
<1> DEFINE covered == {MemoryAccess(p) : p \in (SUBSET m) \ {{}}}
           round == [k \in covered |-> asked[k].made]
<1>1. covered \subseteq Key
  <2>1. (SUBSET m) \ {{}} \subseteq Mask
    BY DEF Mask
  <2>2. QED
    BY <2>1, KeyFacts
<1>2. /\ asked \in [Key -> [made : Nat, decided : Nat, deadline : Deadline]]
      /\ \A j \in Key : asked[j].decided <= asked[j].made
  BY <1>0 DEF TypeOK
<1>3. round \in UNION {[S -> Nat] : S \in SUBSET Key}
  <2>1. round \in [covered -> Nat]
    BY <1>1, <1>2
  <2>2. QED
    BY <1>1, <2>1
<1>4. /\ asked' = [k \in Key |-> IF k \in covered
                                 THEN [asked[k] EXCEPT !.decided = asked[k].made]
                                 ELSE asked[k]]
      /\ Emit(w, m, NoDeadline, round)
      /\ UNCHANGED <<now, posts, applied, items, missed, faults>>
  BY DEF Permission
<1>5. PICK e \in Event : e = [what |-> w, id |-> m, deadline |-> NoDeadline, round |-> round]
  BY <1>3, EventKinds DEF Event, Deadline
<1>6. chain' = Append(chain, e)
  BY <1>4, <1>5, EmitAppends
<1>7. /\ e.what = w /\ e.id = m /\ w # "created"
      /\ \A k \in covered : e.round[k] = asked[k].made
  BY <1>5
<1>8. Closes(e) = {MemoryAccess({b}) : b \in m}
  BY <1>7, ClosesFacts
<1>9. Closes(e) \subseteq covered
  <2>1. \A b \in m : {b} \in (SUBSET m) \ {{}}
    OBVIOUS
  <2>2. QED
    BY <1>8, <2>1
<1>10. \A k \in covered : Several(k) \/ k \in Closes(e)
  <2> SUFFICES ASSUME NEW p \in (SUBSET m) \ {{}}
               PROVE  Several(MemoryAccess(p)) \/ MemoryAccess(p) \in Closes(e)
    OBVIOUS
  <2>1. p \in Mask /\ p \subseteq m
    BY DEF Mask
  <2>2. CASE Several(MemoryAccess(p))
    BY <2>2
  <2>3. ASSUME NEW b \in p, p = {b} PROVE MemoryAccess(p) \in Closes(e)
    BY <1>8, <2>1, <2>3
  <2>4. QED
    BY <2>1, <2>2, <2>3, SeveralUnless
<1> HIDE DEF covered, round
<1>11. /\ asked' \in [Key -> [made : Nat, decided : Nat, deadline : Deadline]]
       /\ \A k \in Key : asked'[k].made = asked[k].made /\ asked'[k].deadline = asked[k].deadline
       /\ \A k \in Key \ covered : asked'[k] = asked[k]
       /\ \A k \in covered : asked'[k].decided = asked[k].made
  BY <1>1, <1>2, <1>4
<1>12. \A k \in Key : Grown(k)
  BY <1>2, <1>11 DEF Grown
<1>13. EventOK(e)'
  <2>1. \A k \in Closes(e) : k \in Key /\ e.round[k] = asked'[k].decided /\ e.round[k] \in Nat
    BY <1>1, <1>2, <1>7, <1>9, <1>11
  <2>2. QED
    BY <1>7, <1>11, <2>1 DEF EventOK
<1>14. \A k \in Key : asked'[k].decided # asked[k].decided =>
           Several(k) \/ (e.what # "created" /\ k \in Closes(e))
  BY <1>7, <1>10, <1>11
<1>15. QED
  BY <1>4, <1>6, <1>11, <1>12, <1>13, <1>14, EmitFrame

(* A service asks. *)
LEMMA RequestIInv ==
  ASSUME IInv, NEW k \in Posted, Request(k)
  PROVE  IInv'
<1>0. TypeOK /\ ChainOK /\ EmittedOK /\ PostsOK /\ AppliedOK /\ RowOK
  BY DEF IInv
<1>1. PICK n \in Nat : n = asked[k].made + 1 /\ k \in Key /\ k \notin Invitations
  BY <1>0, KeyFacts DEF TypeOK
<1>2. PICK p : p = [key |-> k, deadline |-> 0, round |-> n]
  OBVIOUS
<1>3. /\ asked' = [asked EXCEPT ![k].made = @ + 1, ![k].deadline = 0]
      /\ posts' = posts \cup {p}
      /\ UNCHANGED <<now, chain, applied, items, missed, faults>>
  BY <1>1, <1>2 DEF Request
<1>4. 0 \in Deadline
  BY InboxAssumption DEF Deadline, Time
<1>5. /\ asked \in [Key -> [made : Nat, decided : Nat, deadline : Deadline]]
      /\ \A j \in Key : asked[j].decided <= asked[j].made
      /\ posts \subseteq [key : Posted, deadline : Deadline, round : Nat]
      /\ now \in Time
  BY <1>0 DEF TypeOK
<1>6. /\ asked' \in [Key -> [made : Nat, decided : Nat, deadline : Deadline]]
      /\ asked'[k].made = n /\ asked'[k].decided = asked[k].decided
      /\ \A j \in Key \ {k} : asked'[j] = asked[j]
  BY <1>1, <1>3, <1>4, <1>5
<1>7. \A j \in Key : Grown(j)
  BY <1>1, <1>5, <1>6 DEF Grown
<1>8. posts' \subseteq [key : Posted, deadline : Deadline, round : Nat]
  BY <1>2, <1>3, <1>4, <1>5
<1>9. TypeOK' /\ ChainOK' /\ AppliedOK' /\ RowOK'
  <2>1. now' \in Time /\ now <= now'
    BY <1>3, <1>5, InboxAssumption DEF Time
  <2>2. QED
    BY <1>3, <1>6, <1>7, <1>8, <2>1, WorldFrame
<1>10. EmittedOK'
  <2>1. \A j \in Key : /\ asked'[j].decided = asked[j].decided
                       /\ j \in Invitations => asked'[j].made = asked[j].made
    BY <1>1, <1>6
  <2>2. QED
    BY <1>0, <1>3, <2>1 DEF EmittedOK, Several
<1>11. PostsOK'
  <2>1. \A post \in posts : post.key \in Key /\ post.round \in Nat
    BY <1>5, KeyFacts
  <2>2. \A post \in posts' : post.round <= asked'[post.key].made
    <3>1. \A post \in posts : post.round <= asked'[post.key].made
      BY <1>0, <1>5, <1>6, <1>7, <2>1 DEF PostsOK, Grown
    <3>2. p.key = k /\ p.round = n
      BY <1>2
    <3>3. p.round <= asked'[p.key].made
      BY ONLY <1>1, <1>6, <3>2
    <3>4. QED
      BY ONLY <1>3, <3>1, <3>3
  <2>3. \A j \in Posted : asked'[j].made > 0 /\ items'[j].status = "none" =>
           \E post \in posts' : post.key = j
    <3>1. p.key = k
      BY <1>2
    <3>2. \A j \in Posted : j \in Key
      BY KeyFacts
    <3>3. QED
      BY <1>0, <1>3, <1>6, <3>1, <3>2 DEF PostsOK
  <2>4. QED
    BY <2>2, <2>3 DEF PostsOK
<1>12. QED
  BY <1>9, <1>10, <1>11 DEF IInv

(* Every step of the chain and the services. *)
LEMMA WorldIInv == IInv /\ World => IInv'
BY TickIInv, InviteIInv, AnswerIInv, RequestIInv, SpendApprovedIInv, SpendApprovalEndsIInv,
   PermissionIInv DEF World

-----------------------------------------------------------------------------
(* Steps of the relayer and of the recipient.                              *)

(* A row after a step that writes it. *)
Written(k) ==
  /\ items'[k].status # "none"
  /\ items[k].status \in Closed => items'[k].status \in Closed
  /\ items'[k].round <= asked[k].made
  /\ items'[k].by = "nobody" <=> items'[k].status \in {"none", "open"}
  /\ items'[k].by = "chain" => items'[k].round <= asked[k].decided
  /\ k \in Invitations /\ items'[k].status = "open" =>
       items'[k].round < asked[k].made \/ items'[k].deadline = asked[k].deadline
  /\ items'[k].by = "sweep" => items'[k].round < asked[k].made \/ asked[k].deadline < now

(* A step that only writes rows, takes posts whose row exists, and applies *)
(* events or goes back to apply them again.                                *)
LEMMA StoreFrame ==
  ASSUME IInv, UNCHANGED worldVars,
         items' \in [Key -> Row], \A k \in Key : items'[k] = items[k] \/ Written(k),
         posts' \subseteq posts,
         \A post \in posts : post \in posts' \/ items'[post.key].status # "none",
         missed \subseteq missed', missed' \subseteq Key, faults' \in 0..MaxFaults,
         applied' \in 0..Len(chain),
         \A i \in 1..applied' : i \in 1..applied \/ Achieved(i)'
  PROVE  IInv'
<1>0. TypeOK /\ ChainOK /\ EmittedOK /\ PostsOK /\ AppliedOK /\ RowOK
  BY DEF IInv
<1>1. now' = now /\ asked' = asked /\ chain' = chain
  BY DEF worldVars
<1>2. TypeOK'
  <2>1. \A k \in Key : /\ items'[k].round <= asked[k].made
                       /\ items'[k].by = "nobody" <=> items'[k].status \in {"none", "open"}
    BY <1>0 DEF TypeOK, Written
  <2>2. QED
    BY <1>0, <1>1, <2>1 DEF TypeOK
<1>3. ChainOK' /\ EmittedOK'
  BY <1>0, <1>1 DEF ChainOK, EventOK, EmittedOK, Several
<1>4. PostsOK'
  <2>1. \A k \in Posted : k \in Key
    BY KeyFacts
  <2>2. ASSUME NEW k \in Posted, asked[k].made > 0, items'[k].status = "none"
        PROVE  \E post \in posts' : post.key = k
    <3>1. items[k].status = "none"
      BY <2>1, <2>2 DEF Written
    <3>2. PICK post \in posts : post.key = k
      BY <1>0, <2>2, <3>1 DEF PostsOK
    <3>3. QED
      BY <2>2, <3>2
  <2>3. QED
    BY <1>0, <1>1, <2>2 DEF PostsOK
<1>5. AppliedOK'
  <2> SUFFICES ASSUME NEW i \in 1..applied' PROVE Achieved(i)'
    BY DEF AppliedOK
  <2>1. CASE i \in 1..applied
    <3>1. Achieved(i)
      BY <1>0, <2>1 DEF AppliedOK
    <3>2. i \in DOMAIN chain
      <4>1. chain \in Seq(Event) /\ applied \in 0..Len(chain)
        BY <1>0 DEF ChainOK, TypeOK
      <4>2. Len(chain) \in Nat /\ DOMAIN chain = 1..Len(chain)
        BY ONLY <4>1, LenProperties
      <4>3. QED
        BY ONLY <2>1, <4>1, <4>2
    <3>3. PICK e : e = chain[i] /\ EventOK(e)
      BY <1>0, <3>2 DEF ChainOK
    <3>4. \A k \in Key : /\ items[k].status # "none" => items'[k].status # "none"
                         /\ items[k].status \in Closed => items'[k].status \in Closed
      BY DEF Written
    <3>5. CASE e.what = "created"
      <4>1. Invitation(e.id) \in Key
        BY <3>3, <3>5, KeyFacts DEF EventOK
      <4>2. QED
        BY <1>1, <3>1, <3>3, <3>4, <3>5, <4>1 DEF Achieved
    <3>6. CASE e.what # "created"
      <4>1. Closes(e) \subseteq Key
        BY <3>3, <3>6 DEF EventOK
      <4>2. QED
        BY <1>1, <3>1, <3>3, <3>4, <3>6, <4>1 DEF Achieved
    <3>7. QED
      BY <3>5, <3>6
  <2>2. CASE i \notin 1..applied
    BY <2>2
  <2>3. QED
    BY <2>1, <2>2
<1>6. RowOK'
  BY <1>0, <1>1 DEF RowOK, Written
<1>7. QED
  BY <1>2, <1>3, <1>4, <1>5, <1>6 DEF IInv

(* A row that is ingested with what was asked for its key. *)
LEMMA UpsertWritten ==
  ASSUME IInv, NEW k \in Key, NEW d \in Deadline, NEW n \in Nat, n <= asked[k].made,
         k \in Invitations => n < asked[k].made \/ d = asked[k].deadline,
         items'[k] = upsert_ingest(items[k], d, n)
  PROVE  items'[k] \in Row /\ Written(k)
<1>0. TypeOK /\ RowOK
  BY DEF IInv
<1>1. PICK r \in Row : r = items[k]
  BY <1>0 DEF TypeOK
<1>2. PICK s \in Row : s = items'[k] /\ s = upsert_ingest(r, d, n)
  BY <1>1, UpsertRow
<1>3. /\ s.status # "none" /\ s.by = r.by
      /\ r.status \in Closed => s.status = r.status /\ s.round = r.round
      /\ r.status \notin Closed => s.status = "open" /\ s.round = n /\ s.deadline = d
  BY <1>2, UpsertRow
<1>4. /\ r.round <= asked[k].made
      /\ r.by = "nobody" <=> r.status \in {"none", "open"}
      /\ r.status \in {"none", "open"} \cup Closed
  BY <1>0, <1>1 DEF TypeOK, Row
<1>5. /\ r.by = "chain" => r.round <= asked[k].decided
      /\ r.by = "sweep" => r.round < asked[k].made \/ asked[k].deadline < now
  BY <1>0, <1>1 DEF RowOK
<1>6. CASE r.status \in Closed
  BY <1>1, <1>2, <1>3, <1>4, <1>5, <1>6 DEF Written, Closed
<1>7. CASE r.status \notin Closed
  BY <1>1, <1>2, <1>3, <1>4, <1>5, <1>7 DEF Written, Closed
<1>8. QED
  BY <1>6, <1>7, <1>2

(* A posted request is ingested. *)
LEMMA IngestIInv ==
  ASSUME IInv, NEW post \in posts, ingest_workflow_item_internal(post)
  PROVE  IInv'
<1>0. TypeOK /\ PostsOK
  BY DEF IInv
<1>1. /\ post.key \in Posted /\ post.deadline \in Deadline /\ post.round \in Nat
      /\ post.round <= asked[post.key].made
  BY <1>0 DEF TypeOK, PostsOK
<1>2. PICK k \in Key : k = post.key /\ k \notin Invitations
  BY <1>1, KeyFacts
<1>3. /\ items' = [items EXCEPT ![k] = upsert_ingest(@, post.deadline, post.round)]
      /\ UNCHANGED worldVars /\ applied' = applied /\ missed' = missed
      /\ posts' \in {posts, posts \ {post}}
      /\ faults' = faults \/ (faults < MaxFaults /\ faults' = faults + 1)
  BY <1>2 DEF ingest_workflow_item_internal
<1>4. /\ items \in [Key -> Row] /\ missed \subseteq Key /\ applied \in 0..Len(chain)
      /\ faults \in 0..MaxFaults
  BY <1>0 DEF TypeOK
<1>5. /\ items'[k] = upsert_ingest(items[k], post.deadline, post.round)
      /\ \A j \in Key \ {k} : items'[j] = items[j]
  BY <1>3, <1>4
<1>6. items'[k] \in Row /\ Written(k)
  BY <1>1, <1>2, <1>5, UpsertWritten
<1>7. items' \in [Key -> Row] /\ \A j \in Key : items'[j] = items[j] \/ Written(j)
  BY <1>3, <1>4, <1>5, <1>6
<1>8. faults' \in 0..MaxFaults
  BY <1>3, <1>4, InboxAssumption
<1>9. \A p \in posts : p \in posts' \/ items'[p.key].status # "none"
  BY <1>2, <1>3, <1>6 DEF Written
<1>10. QED
  BY <1>3, <1>4, <1>7, <1>8, <1>9, StoreFrame

(* A restart from an older cursor. *)
LEMMA RestartIInv == IInv /\ Restart => IInv'
<1> SUFFICES ASSUME IInv, Restart PROVE IInv'
  OBVIOUS
<1>0. TypeOK /\ ChainOK
  BY DEF IInv
<1>1. /\ items \in [Key -> Row] /\ missed \subseteq Key /\ applied \in 0..Len(chain)
      /\ faults \in 0..MaxFaults /\ chain \in Seq(Event)
  BY <1>0 DEF TypeOK, ChainOK
<1>2. /\ faults < MaxFaults /\ faults' = faults + 1
      /\ applied' \in 0..applied - 1
      /\ UNCHANGED <<worldVars, posts, items, missed>>
  BY DEF Restart
<1>3. Len(chain) \in Nat
  BY ONLY <1>1, LenProperties
<1>4. applied' \in 0..Len(chain) /\ \A i \in 1..applied' : i \in 1..applied
  BY ONLY <1>1, <1>2, <1>3
<1>5. faults' \in 0..MaxFaults
  BY ONLY <1>1, <1>2, InboxAssumption
<1>6. QED
  BY <1>1, <1>2, <1>4, <1>5, StoreFrame

(* The sweep expires rows whose deadline has passed. *)
LEMMA SweepIInv == IInv /\ sweep_expired => IInv'
<1> SUFFICES ASSUME IInv, sweep_expired PROVE IInv'
  OBVIOUS
<1>0. TypeOK /\ RowOK
  BY DEF IInv
<1>1. /\ items \in [Key -> Row] /\ missed \subseteq Key /\ applied \in 0..Len(chain)
      /\ faults \in 0..MaxFaults
  BY <1>0 DEF TypeOK
<1>2. PICK some \in SUBSET Expirable :
        items' = [k \in Key |-> IF k \in some
                                THEN [items[k] EXCEPT !.status = "expired", !.by = "sweep"]
                                ELSE items[k]]
  BY DEF sweep_expired
<1>3. UNCHANGED <<worldVars, posts, applied, missed, faults>>
  BY DEF sweep_expired
<1>4. \A k \in some : /\ k \in Key /\ k \in Invitations /\ items[k].status = "open"
                      /\ items[k].deadline < now
  BY KeyFacts DEF Expirable
<1>5. ASSUME NEW k \in some PROVE items'[k] \in Row /\ Written(k)
  <2>1. PICK r \in Row : r = items[k] /\ k \in Key
    BY <1>1, <1>4
  <2>2. items'[k] = [r EXCEPT !.status = "expired", !.by = "sweep"]
    BY <1>2, <2>1
  <2>3. /\ items'[k] \in Row /\ items'[k].status = "expired" /\ items'[k].by = "sweep"
        /\ items'[k].round = r.round
    BY <2>1, <2>2 DEF Row, Closed
  <2>4. r.round <= asked[k].made /\ (r.round < asked[k].made \/ asked[k].deadline < now)
    BY <1>0, <1>4, <2>1 DEF TypeOK, RowOK
  <2>5. QED
    BY <2>3, <2>4 DEF Written, Closed
<1>6. items' \in [Key -> Row] /\ \A k \in Key : items'[k] = items[k] \/ Written(k)
  BY <1>1, <1>2, <1>5
<1>7. QED
  BY <1>1, <1>3, <1>6, StoreFrame

(* The recipient acts on a row or dismisses it. *)
LEMMA TransitionStatusIInv ==
  ASSUME IInv, NEW k \in Key, NEW w \in {"actioned", "dismissed"}, transition_status(k, w)
  PROVE  IInv'
<1>0. TypeOK
  BY DEF IInv
<1>1. /\ items \in [Key -> Row] /\ missed \subseteq Key /\ applied \in 0..Len(chain)
      /\ faults \in 0..MaxFaults
  BY <1>0 DEF TypeOK
<1>2. /\ items' = [items EXCEPT ![k].status = w, ![k].by = "user"]
      /\ UNCHANGED <<worldVars, posts, applied, missed, faults>>
  BY DEF transition_status
<1>3. /\ items'[k] \in Row /\ items'[k].status = w /\ items'[k].by = "user"
      /\ items'[k].round = items[k].round
      /\ \A j \in Key \ {k} : items'[j] = items[j]
  BY <1>1, <1>2 DEF Row, Closed
<1>4. Written(k)
  BY <1>0, <1>3 DEF Written, TypeOK, Closed
<1>5. items' \in [Key -> Row] /\ \A j \in Key : items'[j] = items[j] \/ Written(j)
  BY <1>1, <1>2, <1>3, <1>4
<1>6. QED
  BY <1>1, <1>2, <1>5, StoreFrame

(* A row that an event of its key transitions. *)
LEMMA TransitionWritten ==
  ASSUME IInv, NEW k \in Key, NEW w \in DOMAIN NewStatus, NEW n \in Nat,
         n <= asked[k].decided,
         items'[k] = transition_by_idempotency(items[k], NewStatus[w], "chain", n)
  PROVE  /\ items'[k] \in Row /\ (items'[k] = items[k] \/ Written(k))
         /\ items[k].status \in Closed => items'[k] = items[k]
         /\ items[k].status = "none" \/ items'[k].status \in Closed
<1>0. TypeOK
  BY DEF IInv
<1>1. PICK r \in Row : r = items[k]
  BY <1>0 DEF TypeOK
<1>2. PICK s \in Row : s = items'[k] /\ s = transition_by_idempotency(r, NewStatus[w], "chain", n)
  BY <1>1, TransitionRow
<1>3. /\ r.status # "open" => s = r
      /\ r.status = "open" => s.status \in Closed /\ s.by = "chain" /\ s.round = n
  BY <1>2, TransitionRow
<1>4. /\ asked[k].decided \in Nat /\ asked[k].made \in Nat /\ asked[k].decided <= asked[k].made
      /\ r.status \in {"none", "open"} \cup Closed
  BY <1>0, <1>1 DEF TypeOK, Row
<1>5. CASE r.status = "open"
  BY <1>1, <1>2, <1>3, <1>4, <1>5 DEF Written, Closed
<1>6. CASE r.status # "open"
  BY <1>1, <1>2, <1>3, <1>4, <1>6
<1>7. QED
  BY <1>5, <1>6

(* The event that the relayer applies next, and the writes that fail. *)
LEMMA ApplyNext ==
  ASSUME IInv, Apply
  PROVE  \E e \in Event, lost \in SUBSET Touches(chain[applied + 1]), i \in Nat :
            /\ i = applied + 1 /\ e = chain[i] /\ EventOK(e) /\ lost \subseteq Touches(e)
            /\ ApplyChainEvent(e, lost)
            /\ UNCHANGED <<worldVars, posts>> /\ applied' = i
            /\ i \in 0..Len(chain)
            /\ faults' \in 0..MaxFaults
<1>0. TypeOK /\ ChainOK
  BY DEF IInv
<1>1. applied \in 0..Len(chain) /\ chain \in Seq(Event) /\ faults \in 0..MaxFaults
  BY <1>0 DEF TypeOK, ChainOK
<1>2. Len(chain) \in Nat /\ DOMAIN chain = 1..Len(chain)
  BY ONLY <1>1, LenProperties
<1>3. PICK i \in Nat : i = applied + 1
  BY ONLY <1>1, <1>2
<1>4. applied < Len(chain) /\ applied' = i /\ UNCHANGED <<worldVars, posts>>
  BY <1>3 DEF Apply
<1>5. i \in DOMAIN chain /\ i \in 0..Len(chain)
  BY ONLY <1>1, <1>2, <1>3, <1>4
<1>6. PICK e \in Event : e = chain[i]
  BY ONLY <1>1, <1>2, <1>5, ElementOfSeq
<1>7. EventOK(e)
  BY <1>0, <1>5, <1>6 DEF ChainOK
<1>8. PICK lost \in SUBSET Touches(chain[applied + 1]) :
         /\ lost # {} => faults < MaxFaults
         /\ faults' = IF lost = {} THEN faults ELSE faults + 1
         /\ ApplyChainEvent(chain[applied + 1], lost)
  BY DEF Apply
<1>9. ApplyChainEvent(e, lost) /\ lost \subseteq Touches(e)
  BY <1>3, <1>6, <1>8
<1>10. faults' \in 0..MaxFaults
  BY ONLY <1>1, <1>8, InboxAssumption
<1>11. QED
  BY <1>3, <1>4, <1>5, <1>6, <1>7, <1>9, <1>10

(* An event is applied. *)
LEMMA ApplyIInv ==
  ASSUME IInv, Apply
  PROVE  /\ IInv'
         /\ \A k \in Key : items[k].status \in Closed => items'[k].status = items[k].status
<1>0. TypeOK /\ ChainOK
  BY DEF IInv
<1>1. PICK e \in Event, lost \in SUBSET Touches(chain[applied + 1]), i \in Nat :
            /\ i = applied + 1 /\ e = chain[i] /\ EventOK(e) /\ lost \subseteq Touches(e)
            /\ ApplyChainEvent(e, lost)
            /\ UNCHANGED <<worldVars, posts>> /\ applied' = i
            /\ i \in 0..Len(chain)
            /\ faults' \in 0..MaxFaults
  BY ApplyNext
<1>2. /\ items \in [Key -> Row] /\ missed \subseteq Key /\ applied \in Nat
      /\ chain' = chain
  BY <1>0, <1>1 DEF TypeOK, worldVars
<1> DEFINE Rows ==
        /\ items' \in [Key -> Row]
        /\ \A k \in Key : items'[k] = items[k] \/ Written(k)
        /\ \A k \in Key : items[k].status \in Closed => items'[k].status = items[k].status
        /\ missed \subseteq missed' /\ missed' \subseteq Key
<1>3. ASSUME e.what = "created" PROVE Rows /\ Achieved(i)'
  <2>1. PICK k \in Key : k = Invitation(e.id) /\ k \in Invitations
    BY <1>1, <1>3, KeyFacts DEF EventOK
  <2>2. PICK n \in Nat : /\ n = e.round[k] /\ n <= asked[k].made
                         /\ n < asked[k].made \/ e.deadline = asked[k].deadline
    <3>1. asked[k].made \in Nat
      BY <1>0 DEF TypeOK
    <3>2. QED
      BY <1>1, <1>3, <2>1, <3>1 DEF EventOK
  <2>3. e.deadline \in Deadline
    BY DEF Event
  <2>4. lost \subseteq {k}
    BY <1>1, <1>3, <2>1 DEF Touches
  <2>5. /\ missed' = missed \cup lost
        /\ items' = [j \in Key |-> IF j = k /\ j \notin lost
                                   THEN upsert_ingest(items[j], e.deadline, e.round[j])
                                   ELSE items[j]]
    BY <1>1, <1>3, <2>1 DEF ApplyChainEvent
  <2>6. CASE k \in lost
    <3>1. Rows /\ k \in missed' /\ items' = items
      BY <1>2, <2>1, <2>4, <2>5, <2>6
    <3>2. Achieved(i)'
      BY <1>1, <1>2, <1>3, <2>1, <3>1 DEF Achieved
    <3>3. QED
      BY <3>1, <3>2
  <2>7. CASE k \notin lost
    <3>1. /\ items'[k] = upsert_ingest(items[k], e.deadline, n)
          /\ \A j \in Key \ {k} : items'[j] = items[j]
      BY <2>2, <2>5, <2>7
    <3>2. items'[k] \in Row /\ Written(k)
      BY <2>2, <2>3, <3>1, UpsertWritten
    <3>3. items[k].status \in Closed => items'[k].status = items[k].status
      BY <1>2, <2>3, <3>1, UpsertRow
    <3>4. Rows
      BY <1>2, <2>4, <2>5, <3>1, <3>2, <3>3
    <3>5. Achieved(i)'
      BY <1>1, <1>2, <1>3, <2>1, <3>2 DEF Achieved, Written
    <3>6. QED
      BY <3>4, <3>5
  <2>8. QED
    BY <2>6, <2>7
<1>4. ASSUME e.what # "created" PROVE Rows /\ Achieved(i)'
  <2>1. e.what \in DOMAIN NewStatus
    BY <1>4 DEF Event
  <2>2. \A k \in Closes(e) : k \in Key /\ e.round[k] \in Nat /\ e.round[k] <= asked[k].decided
    BY <1>1, <1>4 DEF EventOK
  <2>3. lost \subseteq Closes(e)
    BY <1>1, <1>4 DEF Touches
  <2>4. /\ missed' = missed \cup lost \cup {k \in Closes(e) : items[k].status = "none"}
        /\ items' = [k \in Key |-> IF k \in Closes(e) \ lost
                                   THEN transition_by_idempotency(items[k],
                                          NewStatus[e.what], "chain", e.round[k])
                                   ELSE items[k]]
    BY <1>1, <1>4 DEF ApplyChainEvent
  <2>5. ASSUME NEW k \in Closes(e) \ lost
        PROVE  /\ items'[k] \in Row /\ (items'[k] = items[k] \/ Written(k))
               /\ items[k].status \in Closed => items'[k] = items[k]
               /\ items[k].status = "none" \/ items'[k].status \in Closed
    <3>1. items'[k] = transition_by_idempotency(items[k], NewStatus[e.what], "chain", e.round[k])
      BY <2>2, <2>4
    <3>2. QED
      BY <2>1, <2>2, <3>1, TransitionWritten
  <2>6. \A k \in Key : k \notin Closes(e) \ lost => items'[k] = items[k]
    BY <2>4
  <2>7. DOMAIN items' = Key /\ items' = [k \in Key |-> items'[k]]
    BY <2>4
  <2>8. Rows
    <3>1. \A k \in Key : items'[k] \in Row
      BY <1>2, <2>5, <2>6
    <3>2. items' \in [Key -> Row]
      BY <2>7, <3>1
    <3>3. missed \subseteq missed' /\ missed' \subseteq Key
      BY <1>2, <2>2, <2>3, <2>4
    <3>4. QED
      BY <2>5, <2>6, <3>2, <3>3
  <2>9. \A k \in Closes(e) : k \in missed' \/ items'[k].status \in Closed
    BY <2>4, <2>5
  <2>10. Achieved(i)'
    BY <1>1, <1>2, <1>4, <2>9 DEF Achieved
  <2>11. QED
    BY <2>8, <2>10
<1>5. Rows /\ Achieved(i)'
  BY <1>3, <1>4
<1>6. \A j \in 1..applied' : j \in 1..applied \/ j = i
  BY ONLY <1>1, <1>2
<1>7. \A j \in 1..applied' : j \in 1..applied \/ Achieved(j)'
  BY <1>5, <1>6
<1>8. IInv'
  BY <1>1, <1>5, <1>7, StoreFrame
<1>9. QED
  BY <1>5, <1>8

(* Every step keeps the invariant. *)
LEMMA NextIInv == IInv /\ [Next]_vars => IInv'
<1> SUFFICES ASSUME IInv, [Next]_vars PROVE IInv'
  OBVIOUS
<1>1. CASE World
  BY <1>1, WorldIInv
<1>2. CASE \E post \in posts : ingest_workflow_item_internal(post)
  BY <1>2, IngestIInv
<1>3. CASE Apply
  BY <1>3, ApplyIInv
<1>4. CASE Restart
  BY <1>4, RestartIInv
<1>5. CASE sweep_expired
  BY <1>5, SweepIInv
<1>6. CASE \E k \in Key, status \in {"actioned", "dismissed"} : transition_status(k, status)
  BY <1>6, TransitionStatusIInv
<1>7. CASE UNCHANGED vars
  BY <1>7 DEF vars, worldVars, IInv, TypeOK, ChainOK, EventOK, EmittedOK, Several, PostsOK,
              AppliedOK, Achieved, RowOK
<1>8. QED
  BY <1>1, <1>2, <1>3, <1>4, <1>5, <1>6, <1>7 DEF Next

-----------------------------------------------------------------------------
(* The theorems.                                                           *)

(* The inductive invariant holds in every reachable state. *)
THEOREM Invariance == Spec => []IInv
<1>1. Init => IInv
  BY InitIInv
<1>2. IInv /\ [Next]_vars => IInv'
  BY NextIInv
<1>3. QED
  BY <1>1, <1>2, PTL DEF Spec

(* A request the relayer has heard of and that is still pending is shown,  *)
(* unless its recipient, its deadline or an earlier request of its key     *)
(* closed the row (the inbox of workflow_items.rs and the chain sync).     *)
THEOREM PendingTheorem == Spec => []PendingShown
<1>1. IInv => PendingShown
  <2> SUFFICES ASSUME IInv, NEW k \in Key, Pending(k), Heard(k)
               PROVE  \/ items[k].status = "open"
                      \/ items[k].by = "user"
                      \/ items[k].by = "sweep" /\ asked[k].deadline < now
                      \/ items[k].by # "nobody" /\ items[k].round < asked[k].made
    BY DEF PendingShown
  <2>0. TypeOK /\ ChainOK /\ EmittedOK /\ PostsOK /\ AppliedOK /\ RowOK
    BY DEF IInv
  <2>1. /\ asked[k].made \in Nat /\ asked[k].decided \in Nat /\ items[k].round \in Nat
        /\ items[k].by \in {"nobody", "chain", "user", "sweep"}
        /\ items[k].by = "nobody" <=> items[k].status \in {"none", "open"}
        /\ chain \in Seq(Event)
    BY <2>0 DEF TypeOK, Row, ChainOK
  <2>2. asked[k].decided < asked[k].made /\ asked[k].made > 0
    BY <2>1 DEF Pending
  <2>3. items[k].status # "none"
    <3>1. CASE k \in Invitations
      <4>1. PICK i \in DOMAIN chain : chain[i].what = "created" /\ k = Invitation(chain[i].id)
        BY <2>0, <2>2, <3>1 DEF EmittedOK
      <4>2. i \in 1..applied
        BY <2>1, LenProperties DEF Heard
      <4>3. Achieved(i)
        BY <2>0, <4>2 DEF AppliedOK
      <4>4. QED
        BY <4>1, <4>3 DEF Achieved, Heard
    <3>2. CASE k \in Posted
      BY <2>0, <2>2, <3>2 DEF PostsOK, Heard
    <3>3. QED
      BY <3>1, <3>2 DEF Key
  <2>4. /\ items[k].by = "chain" => items[k].round <= asked[k].decided
        /\ items[k].by = "sweep" => items[k].round < asked[k].made \/ asked[k].deadline < now
    BY <2>0 DEF RowOK
  <2>5. QED
    BY <2>1, <2>2, <2>3, <2>4
<1>2. QED
  BY <1>1, Invariance, PTL

(* A row that is open although its request was decided is one whose event  *)
(* was missed, or asks for several permissions, which no event closes      *)
(* (apply_org_memory_permission_chain_event).                              *)
THEOREM OpenTheorem == Spec => []OpenExplained
<1>1. IInv => OpenExplained
  <2> SUFFICES ASSUME IInv, applied = Len(chain), NEW k \in Key, items[k].status = "open",
                      asked[k].made > 0, ~Pending(k), ~Several(k)
               PROVE  k \in missed
    BY DEF OpenExplained, IInv, Several
  <2>0. TypeOK /\ ChainOK /\ EmittedOK /\ AppliedOK
    BY DEF IInv
  <2>1. asked[k].decided > 0
    BY <2>0 DEF TypeOK, Pending
  <2>2. PICK i \in DOMAIN chain : chain[i].what # "created" /\ k \in Closes(chain[i])
    BY <2>0, <2>1 DEF EmittedOK
  <2>3. chain \in Seq(Event)
    BY <2>0 DEF ChainOK
  <2>4. i \in 1..applied
    BY <2>3, LenProperties
  <2>5. Achieved(i)
    BY <2>0, <2>4 DEF AppliedOK
  <2>6. QED
    BY <2>2, <2>5 DEF Achieved, Closed
<1>2. QED
  BY <1>1, Invariance, PTL

(* What a step may do to a closed row. *)
StaysClosed ==
  \A k \in Key : items[k].status \in Closed =>
     /\ items'[k].status \in Closed
     /\ items'[k].status # items[k].status => items'[k].by = "user"

(* No step opens a closed row, and only its recipient changes how it was   *)
(* closed.                                                                 *)
LEMMA NextStaysClosed == IInv /\ [Next]_vars => [StaysClosed]_vars
<1> SUFFICES ASSUME IInv, Next PROVE StaysClosed
  OBVIOUS
<1>0. /\ items \in [Key -> Row]
      /\ posts \subseteq [key : Posted, deadline : Deadline, round : Nat]
  BY DEF IInv, TypeOK
<1>1. CASE World
  <2>1. items' = items
    BY <1>1 DEF World, Tick, Invite, Answer, Request, SpendApproved, SpendApprovalEnds,
                Permission
  <2>2. QED
    BY <2>1 DEF StaysClosed
<1>2. ASSUME NEW post \in posts, ingest_workflow_item_internal(post) PROVE StaysClosed
  <2>1. post.key \in Key /\ post.deadline \in Deadline /\ post.round \in Nat
    BY <1>0, KeyFacts
  <2>2. items' = [items EXCEPT ![post.key] = upsert_ingest(@, post.deadline, post.round)]
    BY <1>2 DEF ingest_workflow_item_internal
  <2>3. items'[post.key] = upsert_ingest(items[post.key], post.deadline, post.round)
    BY <1>0, <2>1, <2>2
  <2>4. items[post.key].status \in Closed => items'[post.key].status = items[post.key].status
    BY <1>0, <2>1, <2>3, UpsertRow
  <2>5. \A k \in Key \ {post.key} : items'[k] = items[k]
    BY <1>0, <2>2
  <2>6. QED
    BY <2>4, <2>5 DEF StaysClosed
<1>3. CASE Apply
  BY <1>3, ApplyIInv DEF StaysClosed
<1>4. CASE Restart
  BY <1>4 DEF Restart, StaysClosed
<1>5. CASE sweep_expired
  <2>1. PICK some \in SUBSET Expirable :
          items' = [k \in Key |-> IF k \in some
                                  THEN [items[k] EXCEPT !.status = "expired", !.by = "sweep"]
                                  ELSE items[k]]
    BY <1>5 DEF sweep_expired
  <2>2. \A k \in some : items[k].status \notin Closed
    BY DEF Expirable, Closed
  <2>3. QED
    BY <2>1, <2>2 DEF StaysClosed
<1>6. ASSUME NEW k \in Key, NEW w \in {"actioned", "dismissed"}, transition_status(k, w)
      PROVE  StaysClosed
  <2>1. items' = [items EXCEPT ![k].status = w, ![k].by = "user"]
    BY <1>6 DEF transition_status
  <2>2. /\ items'[k].status = w /\ items'[k].by = "user"
        /\ \A j \in Key \ {k} : items'[j] = items[j]
    BY <1>0, <2>1 DEF Row
  <2>3. QED
    BY <2>2 DEF StaysClosed, Closed
<1>7. QED
  BY <1>1, <1>2, <1>3, <1>4, <1>5, <1>6 DEF Next

(* A closed row is never open again, whatever is posted, replayed or asked *)
(* once more (upsert_ingest and transition_by_idempotency).                *)
THEOREM ClosedTheorem == Spec => ClosedForGood
<1>1. Spec => [][StaysClosed]_vars
  BY Invariance, NextStaysClosed, PTL DEF Spec
<1>2. QED
  BY <1>1 DEF StaysClosed, ClosedForGood

=============================================================================
