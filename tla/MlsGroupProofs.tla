---------------------------- MODULE MlsGroupProofs ----------------------------
(***************************************************************************)
(* Proofs about MlsGroup for every finite set of devices, every length of  *)
(* the log and every number of faults.                                     *)
(*                                                                         *)
(* The relayer compares and moves the epoch in one statement and stores    *)
(* the row in another.  Between the two at most one commit is claimed and  *)
(* the log has not grown, so the row that is stored continues the log.     *)
(* A device is on the log whenever it is not waiting for an answer, and    *)
(* what it goes back to when it waits in vain is what it saved.            *)
(***************************************************************************)
EXTENDS MlsGroup, FiniteSetTheorems, SequenceTheorems, TLAPS

(* The name of the state that i rows lead to. *)
NameAt(i) == IF i = 0 THEN NoName ELSE log[i].name

(* Rows are commits of devices, in a chain. *)
LogOK ==
  \A i \in DOMAIN log :
    /\ log[i].name.by \in Device
    /\ log[i].name.epoch = i - 1
    /\ log[i].parent = NameAt(i - 1)

(* A commit under way was made on a state of the log. *)
Based(c) ==
  /\ c.name.by \in Device
  /\ c.name.epoch <= Len(log)
  /\ c.parent = NameAt(c.name.epoch)

FlightOK ==
  /\ IsFiniteSet(sent) /\ IsFiniteSet(claimed)
  /\ \A c \in sent \union claimed : Based(c)

(* The epoch is ahead of the log; the commit that took it last, if its row *)
(* is still to be stored, is the only one of its kind and made on the last *)
(* state of the log.                                                       *)
EpochOK ==
  /\ Len(log) <= epoch
  /\ \A c \in claimed :
       /\ c.name.epoch = Len(log)
       /\ epoch = Len(log) + 1
       /\ \A b \in claimed : b = c

(* A device: what it has in memory is what it saved, but for the commit it *)
(* waits for; the row it applied last is the one before its cursor moves.  *)
DeviceOK ==
  \A d \in Device :
    /\ pc[d] # "posting" => mem[d] = disk[d]
    /\ pc[d] = "posting" => /\ before[d] = disk[d]
                            /\ mem[d] \in Rows => cursor[d] <= EpochOf(mem[d])
    /\ pc[d] = "cursor" => cursor[d] < Len(log) /\ cursor[d] + 1 = EpochOf(mem[d])

(* The inductive invariant. *)
IInv == TypeOK /\ LogOK /\ FlightOK /\ EpochOK /\ DeviceOK /\ NoFork /\ NothingSkipped

-----------------------------------------------------------------------------
(* Values. *)

(* The fields of a name are numbers. *)
LEMMA NameType ==
  ASSUME NEW n \in Name
  PROVE  n.epoch \in Nat /\ n.nonce \in Nat
  BY DEF Name, NoName

(* So are those of a state, and its epoch. *)
LEMMA EpochType ==
  ASSUME NEW s \in Commit
  PROVE  s.name \in Name /\ s.name.epoch \in Nat /\ s.name.nonce \in Nat /\ EpochOf(s) \in Nat
<1>1. s.name \in Name
  BY DEF Commit
<1>2. QED
  BY <1>1, NameType DEF EpochOf

(* A device outside the group has the state of epoch 0. *)
LEMMA NoGroupCommit == NoGroup \in Commit /\ NoGroup.name = NoName /\ EpochOf(NoGroup) = 0
<1>1. NoName \in Name
  BY DEF Name
<1>2. <<>> \in Seq(Device) /\ {} \in SUBSET Device
  OBVIOUS
<1>3. QED
  BY <1>1, <1>2 DEF NoGroup, Commit, EpochOf

(* A row is not the absence of a group, and its state's epoch is its place. *)
LEMMA RowEpoch ==
  ASSUME TypeOK, LogOK, NEW i \in DOMAIN log
  PROVE  log[i] # NoGroup /\ EpochOf(log[i]) = i /\ i \in 1..Len(log) /\ log[i] \in Commit
<1>1. log \in Seq(Commit) /\ i \in 1..Len(log) /\ log[i] \in Commit
  BY DEF TypeOK
<1>2. log[i].name.by # NoOne
  BY MlsAssumption DEF LogOK
<1>3. log[i] # NoGroup
  BY <1>2 DEF NoGroup, NoName
<1>4. log[i].name.epoch = i - 1
  BY DEF LogOK
<1>5. EpochOf(log[i]) = (i - 1) + 1
  BY <1>3, <1>4 DEF EpochOf
<1>6. QED
  BY <1>1, <1>3, <1>5

(* A state of the log names the last row it has. *)
LEMMA OnLogEpoch ==
  ASSUME TypeOK, LogOK, NEW s, OnLog(s)
  PROVE  /\ s \in Commit /\ EpochOf(s) \in 0..Len(log)
         /\ s.name = NameAt(EpochOf(s))
<1>0. log \in Seq(Commit) /\ Len(log) \in Nat
  BY DEF TypeOK
<1>1. CASE s = NoGroup
  BY <1>0, <1>1, NoGroupCommit DEF NameAt
<1>2. CASE s \in Rows
  <2>1. PICK i \in DOMAIN log : s = log[i]
    BY <1>2 DEF Rows
  <2>2. EpochOf(s) = i /\ i \in 1..Len(log) /\ s \in Commit
    BY <2>1, RowEpoch
  <2>3. QED
    BY <1>0, <2>1, <2>2 DEF NameAt
<1>3. QED
  BY <1>1, <1>2 DEF OnLog

(* A set of n commits leaves one of 0..n unused as a nonce. *)
LEMMA UnusedNonce ==
  ASSUME NEW S \in SUBSET Commit, IsFiniteSet(S)
  PROVE  \E n \in 0..Cardinality(S) : \A c \in S : c.name.nonce # n
<1> DEFINE f == [c \in S |-> c.name.nonce]
           T == {f[c] : c \in S}
<1>1. Cardinality(S) \in Nat
  BY FS_CardinalityType
<1>2. f \in Surjection(S, T)
  BY DEF Surjection
<1>3. IsFiniteSet(T) /\ Cardinality(T) <= Cardinality(S)
  BY <1>2, FS_Surjection
<1>4. Cardinality(0..Cardinality(S)) = Cardinality(S) + 1
  <2>1. Cardinality(0..Cardinality(S)) = Cardinality(S) - 0 + 1
    BY <1>1, FS_Interval
  <2>2. QED
    BY <1>1, <2>1
<1>5. ~(0..Cardinality(S) \subseteq T)
  <2>1. SUFFICES ASSUME 0..Cardinality(S) \subseteq T PROVE FALSE
    OBVIOUS
  <2>2. Cardinality(0..Cardinality(S)) <= Cardinality(T)
    BY <1>3, <2>1, FS_Subset
  <2>3. Cardinality(T) \in Nat
    BY <1>3, FS_CardinalityType
  <2>4. QED
    BY <1>1, <1>3, <1>4, <2>2, <2>3
<1>6. PICK n \in 0..Cardinality(S) : n \notin T
  BY <1>5
<1>7. \A c \in S : c.name.nonce # n
  BY <1>6
<1>8. QED
  BY <1>7

(* The log has finitely many rows. *)
LEMMA RowsFinite ==
  ASSUME TypeOK
  PROVE  Rows \subseteq Commit /\ IsFiniteSet(Rows)
<1>1. log \in Seq(Commit) /\ Len(log) \in Nat /\ DOMAIN log = 1..Len(log)
  BY DEF TypeOK
<1>2. Rows \subseteq Commit
  BY <1>1 DEF Rows
<1> DEFINE f == [i \in 1..Len(log) |-> log[i]]
<1>3. f \in Surjection(1..Len(log), Rows)
  BY <1>1 DEF Surjection, Rows
<1>4. IsFiniteSet(1..Len(log))
  BY <1>1, FS_Interval
<1>5. IsFiniteSet(Rows)
  BY <1>3, <1>4, FS_Surjection
<1>6. QED
  BY <1>2, <1>5

(* A new commit has a name no commit under way or stored has. *)
LEMMA FreshName ==
  ASSUME TypeOK, FlightOK, NEW d \in Device, NEW e \in Nat
  PROVE  /\ Fresh(d, e) \in Name
         /\ Fresh(d, e).by = d /\ Fresh(d, e).epoch = e
         /\ \A c \in sent \union claimed \union Rows : c.name # Fresh(d, e)
<1> DEFINE all == sent \union claimed \union Rows
           live == {c \in all : c.name.by = d /\ c.name.epoch = e}
           n == CHOOSE k \in 0..Cardinality(live) : \A c \in live : c.name.nonce # k
<1>1. all \subseteq Commit /\ IsFiniteSet(all)
  <2>1. IsFiniteSet(sent) /\ IsFiniteSet(claimed) /\ IsFiniteSet(Rows) /\ Rows \subseteq Commit
    BY RowsFinite DEF FlightOK
  <2>2. IsFiniteSet(sent \union claimed)
    BY <2>1, FS_Union
  <2>3. IsFiniteSet(all)
    BY <2>1, <2>2, FS_Union
  <2>4. QED
    BY <2>1, <2>3 DEF TypeOK
<1>2. live \in SUBSET Commit /\ IsFiniteSet(live)
  BY <1>1, FS_Subset
<1>3. \E k \in 0..Cardinality(live) : \A c \in live : c.name.nonce # k
  <2> HIDE DEF live
  <2>1. QED
    BY <1>2, UnusedNonce
<1>4. n \in 0..Cardinality(live) /\ \A c \in live : c.name.nonce # n
  <2> HIDE DEF live
  <2>1. QED
    BY <1>3
<1>5. n \in Nat
  BY <1>2, <1>4, FS_CardinalityType
<1>6. Fresh(d, e) = [by |-> d, epoch |-> e, nonce |-> n]
  BY DEF Fresh
<1> HIDE DEF n
<1>7. Fresh(d, e) \in Name
  BY <1>5, <1>6 DEF Name
<1>8. \A c \in all : c.name # Fresh(d, e)
  BY <1>4, <1>6
<1>9. QED
  BY <1>6, <1>7, <1>8

-----------------------------------------------------------------------------
(* Nothing exists at first. *)
LEMMA InitIInv == Init => IInv
<1> SUFFICES ASSUME Init PROVE IInv
  OBVIOUS
<1>1. \A d \in Device : FALSE \in BOOLEAN
  OBVIOUS
<1>2. desynced \in [Device -> BOOLEAN]
  BY <1>1, Zenon DEF Init
<1>3. TypeOK
  BY <1>2, NoGroupCommit, MlsAssumption DEF Init, TypeOK
<1>4. IsFiniteSet({})
  BY FS_EmptySet
<1>5. QED
  BY <1>3, <1>4, NoGroupCommit
     DEF Init, IInv, LogOK, FlightOK, EpochOK, DeviceOK, NoFork, NothingSkipped, OnLog, Rows

(* A step that leaves the relayer's log and epoch alone, adds nothing to   *)
(* the commits under way, and changes at most one device.                  *)
LEMMA DeviceStep ==
  ASSUME IInv, TypeOK', NEW d \in Device,
         UNCHANGED <<epoch, log>>, sent' \subseteq sent, claimed' \subseteq claimed,
         \A x \in Device \ {d} :
           /\ mem'[x] = mem[x] /\ disk'[x] = disk[x] /\ before'[x] = before[x]
           /\ cursor'[x] = cursor[x] /\ pc'[x] = pc[x],
         OnLog(disk'[d]), OnLog(info'), \A w \in welcomes' : OnLog(w[2]),
         pc'[d] # "posting" => mem'[d] = disk'[d],
         pc'[d] = "posting" => /\ before'[d] = disk'[d]
                               /\ mem'[d] \in Rows => cursor'[d] <= EpochOf(mem'[d]),
         pc'[d] = "cursor" => cursor'[d] < Len(log) /\ cursor'[d] + 1 = EpochOf(mem'[d]),
         cursor'[d] <= EpochOf(disk'[d])
  PROVE  IInv'
<1>0. TypeOK /\ LogOK /\ FlightOK /\ EpochOK /\ DeviceOK /\ NoFork /\ NothingSkipped
  BY DEF IInv
<1>1. Rows' = Rows
  BY DEF Rows
<1>2. LogOK'
  BY <1>0 DEF LogOK, NameAt
<1>3. FlightOK'
  <2>1. IsFiniteSet(sent') /\ IsFiniteSet(claimed')
    BY <1>0, FS_Subset DEF FlightOK
  <2>2. \A c \in sent' \union claimed' : Based(c)'
    BY <1>0 DEF FlightOK, Based, NameAt
  <2>3. QED
    BY <2>1, <2>2 DEF FlightOK
<1>4. EpochOK'
  BY <1>0 DEF EpochOK
<1>5. DeviceOK'
  BY <1>0, <1>1 DEF DeviceOK, EpochOf
<1>6. NoFork'
  <2>1. \A x \in Device : OnLog(disk'[x])
    BY <1>0 DEF NoFork
  <2>2. \A x \in Device : pc'[x] # "posting" => mem'[x] = disk'[x]
    BY <1>5 DEF DeviceOK
  <2>3. QED
    BY <1>1, <2>1, <2>2 DEF NoFork, OnLog
<1>7. NothingSkipped'
  BY <1>0 DEF NothingSkipped, EpochOf
<1>8. QED
  BY <1>2, <1>3, <1>4, <1>5, <1>6, <1>7 DEF IInv

(* The epoch is taken by a commit made on the last state of the log, and   *)
(* only while no other commit holds it.                                    *)
LEMMA ClaimIInv ==
  ASSUME IInv, NEW c \in sent, try_advance_epoch(c)
  PROVE  IInv'
<1>0. TypeOK /\ LogOK /\ FlightOK /\ EpochOK /\ DeviceOK /\ NoFork /\ NothingSkipped
  BY DEF IInv
<1>1. UNCHANGED <<log, info, welcomes, mem, disk, before, cursor, desynced, pc, op, faults>>
  BY DEF try_advance_epoch, deviceVars
<1>2. /\ c \in Commit /\ c.name.epoch \in Nat /\ Len(log) \in Nat /\ epoch \in Nat
      /\ c.name.epoch <= Len(log)
  BY <1>0, EpochType DEF TypeOK, FlightOK, Based
<1>3. sent' \subseteq sent /\ claimed' \subseteq claimed \union {c}
  BY DEF try_advance_epoch
<1>4. TypeOK'
  BY <1>0, <1>1, <1>2, <1>3 DEF TypeOK, try_advance_epoch
<1>5. Rows' = Rows
  BY <1>1 DEF Rows
<1>6. LogOK' /\ DeviceOK' /\ NoFork' /\ NothingSkipped'
  <2>1. LogOK'
    BY <1>0, <1>1 DEF LogOK, NameAt
  <2>2. DeviceOK'
    BY <1>0, <1>1, <1>5 DEF DeviceOK, EpochOf
  <2>3. NoFork' /\ NothingSkipped'
    BY <1>0, <1>1, <1>5 DEF NoFork, OnLog, NothingSkipped, EpochOf
  <2>4. QED
    BY <2>1, <2>2, <2>3
<1>7. FlightOK'
  <2>1. IsFiniteSet(claimed \union {c})
    BY <1>0, FS_AddElement DEF FlightOK
  <2>2. IsFiniteSet(sent') /\ IsFiniteSet(claimed')
    BY <1>0, <1>3, <2>1, FS_Subset DEF FlightOK
  <2>3. \A b \in sent' \union claimed' : Based(b)'
    BY <1>0, <1>1, <1>3 DEF FlightOK, Based, NameAt
  <2>4. QED
    BY <2>2, <2>3 DEF FlightOK
<1>8. EpochOK'
  <2>1. CASE c.name.epoch = epoch
    <3>1. epoch = Len(log) /\ claimed = {}
      BY <1>0, <1>2, <2>1 DEF EpochOK
    <3>2. epoch' = epoch + 1 /\ claimed' = {c}
      BY <2>1, <3>1 DEF try_advance_epoch
    <3>3. QED
      BY <1>1, <1>2, <2>1, <3>1, <3>2 DEF EpochOK
  <2>2. CASE c.name.epoch # epoch
    BY <1>0, <1>1, <2>2 DEF EpochOK, try_advance_epoch
  <2>3. QED
    BY <2>1, <2>2
<1>9. QED
  BY <1>4, <1>6, <1>7, <1>8 DEF IInv

(* The row of the commit that holds the epoch continues the log. *)
LEMMA StoreIInv ==
  ASSUME IInv, NEW c \in claimed, create_message(c)
  PROVE  IInv'
<1>0. TypeOK /\ LogOK /\ FlightOK /\ EpochOK /\ DeviceOK /\ NoFork /\ NothingSkipped
  BY DEF IInv
<1>1. UNCHANGED <<epoch, sent, info, welcomes, mem, disk, before, cursor, desynced, pc, op, faults>>
  BY DEF create_message, deviceVars
<1>2. /\ c \in Commit /\ log \in Seq(Commit) /\ Len(log) \in Nat /\ epoch \in Nat
      /\ log' = Append(log, c)
  BY <1>0 DEF TypeOK, create_message
<1>3. /\ log' \in Seq(Commit) /\ Len(log') = Len(log) + 1
      /\ DOMAIN log = 1..Len(log) /\ DOMAIN log' = 1..Len(log) + 1
      /\ \A i \in 1..Len(log) : log'[i] = log[i]
      /\ log'[Len(log) + 1] = c
  BY <1>2, AppendProperties
<1>4. c.name.by \in Device /\ c.name.epoch = Len(log) /\ c.parent = NameAt(Len(log))
      /\ epoch = Len(log) + 1
  BY <1>0 DEF FlightOK, EpochOK, Based
<1>5. claimed' = {}
  BY <1>0 DEF EpochOK, create_message
<1>6. Rows' = Rows \union {c}
  <2>1. \A i \in DOMAIN log' : log'[i] \in Rows \union {c}
    BY <1>2, <1>3 DEF Rows
  <2>2. \A r \in Rows \union {c} : \E i \in DOMAIN log' : log'[i] = r
    <3>1. Len(log) + 1 \in DOMAIN log' /\ \A i \in DOMAIN log : i \in DOMAIN log'
      BY <1>2, <1>3
    <3>2. QED
      BY <1>3, <3>1 DEF Rows
  <2>3. QED
    BY <2>1, <2>2 DEF Rows
<1>7. \A i \in 0..Len(log) : NameAt(i)' = NameAt(i)
  BY <1>2, <1>3 DEF NameAt
<1>8. TypeOK'
  <2>1. cursor' \in [Device -> 0..Len(log')]
    BY <1>0, <1>1, <1>2, <1>3 DEF TypeOK
  <2>2. QED
    BY <1>0, <1>1, <1>3, <1>5, <2>1 DEF TypeOK
<1>9. LogOK'
  <2>1. SUFFICES ASSUME NEW i \in DOMAIN log'
                 PROVE  /\ log'[i].name.by \in Device
                        /\ log'[i].name.epoch = i - 1
                        /\ log'[i].parent = NameAt(i - 1)'
    BY DEF LogOK
  <2>2. CASE i \in DOMAIN log
    <3>1. i - 1 \in 0..Len(log) /\ log'[i] = log[i]
      BY <1>2, <1>3, <2>2
    <3>2. NameAt(i - 1)' = NameAt(i - 1)
      BY <1>7, <3>1
    <3>3. QED
      BY <1>0, <2>2, <3>1, <3>2 DEF LogOK
  <2>3. CASE i = Len(log) + 1
    <3>1. i - 1 = Len(log) /\ i - 1 \in 0..Len(log) /\ log'[i] = c
      BY <1>2, <1>3, <2>3
    <3>2. NameAt(i - 1)' = NameAt(i - 1)
      BY <1>7, <3>1
    <3>3. QED
      BY <1>4, <3>1, <3>2
  <2>4. QED
    BY <1>2, <1>3, <2>2, <2>3
<1>10. FlightOK'
  <2>1. IsFiniteSet(sent') /\ IsFiniteSet(claimed')
    BY <1>0, <1>1, <1>5, FS_EmptySet DEF FlightOK
  <2>2. ASSUME NEW b \in sent' PROVE Based(b)'
    <3>1. Based(b) /\ b.name.epoch \in Nat
      BY <1>0, <1>1, EpochType DEF FlightOK, TypeOK
    <3>2. b.name.epoch \in 0..Len(log)
      BY <1>2, <3>1 DEF Based
    <3>3. QED
      BY <1>2, <1>3, <1>7, <3>1, <3>2 DEF Based
  <2>3. QED
    BY <1>5, <2>1, <2>2 DEF FlightOK
<1>11. EpochOK'
  BY <1>1, <1>2, <1>3, <1>4, <1>5 DEF EpochOK
<1>12. DeviceOK'
  <2>1. EpochOf(c) = Len(log) + 1
    <3>1. c # NoGroup
      BY <1>4, MlsAssumption DEF NoGroup, NoName
    <3>2. QED
      BY <1>4, <3>1 DEF EpochOf
  <2>2. \A d \in Device : mem[d] = c => cursor[d] <= EpochOf(mem[d])
    BY <1>0, <1>2, <2>1 DEF TypeOK
  <2>3. \A d \in Device : cursor[d] < Len(log) => cursor[d] < Len(log')
    BY <1>0, <1>2, <1>3 DEF TypeOK
  <2>4. QED
    BY <1>0, <1>1, <1>6, <2>2, <2>3 DEF DeviceOK, EpochOf
<1>13. NoFork' /\ NothingSkipped'
  BY <1>0, <1>1, <1>6 DEF NoFork, OnLog, NothingSkipped, EpochOf
<1>14. QED
  BY <1>8, <1>9, <1>10, <1>11, <1>12, <1>13 DEF IInv

(* Building and posting a commit on a state of the log. *)
LEMMA PostIInv ==
  ASSUME IInv, NEW d \in Device, pc[d] # "posting",
         NEW on, OnLog(on), NEW leaves \in Seq(Device), NEW added \in SUBSET Device,
         NEW kind \in {"claim", "join", "add", "update"}, Post(d, on, leaves, added, kind)
  PROVE  IInv'
<1>0. TypeOK /\ LogOK /\ FlightOK /\ EpochOK /\ DeviceOK /\ NoFork /\ NothingSkipped
  BY DEF IInv
<1> DEFINE c == [name |-> Fresh(d, EpochOf(on)), parent |-> on.name,
                 leaves |-> leaves, added |-> added]
<1>1. /\ on \in Commit /\ EpochOf(on) \in 0..Len(log) /\ on.name = NameAt(EpochOf(on))
      /\ EpochOf(on) \in Nat /\ on.name \in Name
  BY <1>0, OnLogEpoch, EpochType
<1>2. /\ Fresh(d, EpochOf(on)) \in Name
      /\ Fresh(d, EpochOf(on)).by = d /\ Fresh(d, EpochOf(on)).epoch = EpochOf(on)
      /\ \A b \in Rows : b.name # Fresh(d, EpochOf(on))
  BY <1>0, <1>1, FreshName
<1>3. c \in Commit /\ c.name = Fresh(d, EpochOf(on)) /\ c.parent = on.name
  BY <1>1, <1>2 DEF Commit
<1>4. /\ sent' = sent \union {c}
      /\ before' = [before EXCEPT ![d] = mem[d]]
      /\ mem' = [mem EXCEPT ![d] = c]
      /\ pc' = [pc EXCEPT ![d] = "posting"]
      /\ op' = [op EXCEPT ![d] = kind]
      /\ UNCHANGED <<epoch, log, claimed, info, welcomes, disk, cursor, desynced, faults>>
  BY DEF Post
<1> HIDE DEF c
<1>5. Based(c) /\ c \notin Rows
  BY <1>0, <1>1, <1>2, <1>3 DEF Based
<1>6. TypeOK'
  BY <1>0, <1>3, <1>4 DEF TypeOK
<1>7. Rows' = Rows /\ \A s : OnLog(s) => s = NoGroup \/ s \in Rows'
  BY <1>4 DEF Rows, OnLog
<1>8. LogOK'
  BY <1>0, <1>4 DEF LogOK, NameAt
<1>9. FlightOK'
  <2>1. IsFiniteSet(sent') /\ IsFiniteSet(claimed')
    BY <1>0, <1>4, FS_AddElement DEF FlightOK
  <2>2. \A b \in sent' \union claimed' : Based(b)'
    BY <1>0, <1>4, <1>5 DEF FlightOK, Based, NameAt
  <2>3. QED
    BY <2>1, <2>2 DEF FlightOK
<1>10. EpochOK'
  BY <1>0, <1>4 DEF EpochOK
<1>11. /\ mem'[d] = c /\ before'[d] = mem[d] /\ pc'[d] = "posting"
       /\ \A x \in Device \ {d} : mem'[x] = mem[x] /\ before'[x] = before[x] /\ pc'[x] = pc[x]
  BY <1>0, <1>4 DEF TypeOK
<1>12. DeviceOK'
  BY <1>0, <1>4, <1>5, <1>7, <1>11 DEF DeviceOK, EpochOf
<1>13. NoFork' /\ NothingSkipped'
  BY <1>0, <1>4, <1>7, <1>11 DEF NoFork, OnLog, NothingSkipped, EpochOf
<1>14. QED
  BY <1>6, <1>8, <1>9, <1>10, <1>12, <1>13 DEF IInv

(* The sequences of a finite set of devices. *)
LEMMA OrderType ==
  ASSUME NEW S \in SUBSET Device, NEW order \in SetToSeqs(S)
  PROVE  order \in Seq(Device)
<1>1. IsFiniteSet(S) /\ Cardinality(S) \in Nat
  BY MlsAssumption, FS_Subset, FS_CardinalityType
<1>2. order \in [1..Cardinality(S) -> S]
  BY DEF SetToSeqs
<1>3. QED
  BY <1>1, <1>2

(* The commits a device builds: on the empty group, on the published       *)
(* GroupInfo or on its own state.                                          *)
LEMMA BuildIInv ==
  ASSUME IInv, NEW d \in Device, bootstrap(d) \/ joinExternal(d) \/ Member(d)
  PROVE  IInv'
<1>0. TypeOK /\ NoFork
  BY DEF IInv
<1>1. OnLog(NoGroup) /\ OnLog(info) /\ (pc[d] # "posting" => OnLog(mem[d]))
  BY <1>0 DEF OnLog, NoFork
<1>2. info.leaves \in Seq(Device) /\ mem[d].leaves \in Seq(Device)
  BY <1>0 DEF TypeOK, Commit
<1>3. CASE bootstrap(d)
  <2>1. pc[d] # "posting" /\ Post(d, NoGroup, <<d>>, {}, "claim")
    BY <1>3 DEF bootstrap
  <2>2. <<d>> \in Seq(Device) /\ {} \in SUBSET Device
    OBVIOUS
  <2>3. QED
    BY <1>1, <2>1, <2>2, PostIInv
<1>4. CASE joinExternal(d)
  <2> DEFINE leaves == IF Contains(info.leaves, d) THEN info.leaves ELSE Append(info.leaves, d)
  <2>1. pc[d] # "posting" /\ Post(d, info, leaves, {}, "join")
    BY <1>4 DEF joinExternal
  <2>2. leaves \in Seq(Device) /\ {} \in SUBSET Device
    BY <1>2, AppendProperties
  <2> HIDE DEF leaves
  <2>3. QED
    BY <1>1, <2>1, <2>2, PostIInv
<1>5. CASE addWallets(d)
  <2>1. PICK devices \in SUBSET (Device \ ToSet(mem[d].leaves)) :
          \E order \in SetToSeqs(devices) :
            Post(d, mem[d], mem[d].leaves \o order, devices, "add")
    BY <1>5 DEF addWallets
  <2>2. PICK order \in SetToSeqs(devices) :
          Post(d, mem[d], mem[d].leaves \o order, devices, "add")
    BY <2>1
  <2>3. pc[d] # "posting" /\ devices \in SUBSET Device
    BY <1>5 DEF addWallets
  <2>4. order \in Seq(Device)
    BY <2>3, OrderType
  <2>5. mem[d].leaves \o order \in Seq(Device)
    BY <1>2, <2>4
  <2>6. QED
    BY <1>1, <2>2, <2>3, <2>5, PostIInv
<1>6. CASE update(d)
  <2>1. pc[d] # "posting" /\ Post(d, mem[d], mem[d].leaves, {}, "update")
    BY <1>6 DEF update
  <2>2. {} \in SUBSET Device
    OBVIOUS
  <2>3. QED
    BY <1>1, <1>2, <2>1, <2>2, PostIInv
<1>7. QED
  BY <1>3, <1>4, <1>5, <1>6 DEF Member

(* What every step of an idle or a waiting device starts from. *)
LEMMA DeviceFacts ==
  ASSUME IInv, NEW d \in Device
  PROVE  /\ mem[d] \in Commit /\ disk[d] \in Commit /\ before[d] \in Commit
         /\ cursor[d] \in 0..Len(log) /\ Len(log) \in Nat
         /\ EpochOf(mem[d]) \in Nat /\ EpochOf(disk[d]) \in Nat
         /\ OnLog(disk[d]) /\ OnLog(info) /\ \A w \in welcomes : OnLog(w[2])
         /\ cursor[d] <= EpochOf(disk[d])
         /\ pc[d] # "posting" => mem[d] = disk[d]
         /\ pc[d] = "posting" => /\ before[d] = disk[d]
                                 /\ mem[d] \in Rows => cursor[d] <= EpochOf(mem[d])
         /\ pc[d] = "cursor" => cursor[d] < Len(log) /\ cursor[d] + 1 = EpochOf(mem[d])
<1>1. TypeOK /\ DeviceOK /\ NoFork /\ NothingSkipped
  BY DEF IInv
<1>2. mem[d] \in Commit /\ disk[d] \in Commit /\ before[d] \in Commit
  BY <1>1 DEF TypeOK
<1>3. QED
  BY <1>1, <1>2, EpochType DEF TypeOK, DeviceOK, NoFork, NothingSkipped

(* A fault leaves the counter in its range. *)
LEMMA FaultType ==
  ASSUME TypeOK, NEW kind, Fault(kind)
  PROVE  faults' \in 0..MaxFaults
  BY MlsAssumption DEF TypeOK, Fault

(* The answer to a commit, or its absence: a row of the log, or back to    *)
(* what was saved.                                                         *)
LEMMA AnswerIInv ==
  ASSUME IInv, NEW d \in Device, postCommit(d) \/ findInLog(d)
  PROVE  IInv'
<1>0. TypeOK
  BY DEF IInv
<1>1. pc[d] = "posting" /\ (IF mem[d] \in Rows THEN Accepted(d) ELSE Rejected(d))
  BY DEF postCommit, findInLog
<1>2. faults' \in 0..MaxFaults
  BY <1>0, FaultType DEF postCommit, findInLog, TypeOK
<1>3. UNCHANGED <<epoch, log, sent, claimed, info, welcomes, cursor>>
  BY <1>1 DEF Accepted, Rejected, relayerVars
<1>4. NoGroup \in Commit
  BY NoGroupCommit
<1>5. CASE mem[d] \in Rows
  <2>1. Accepted(d)
    BY <1>1, <1>5
  <2>2. desynced' \in [Device -> BOOLEAN]
    BY <1>0, <2>1, Zenon DEF Accepted, TypeOK
  <2>3. TypeOK'
    BY <1>0, <1>2, <1>3, <1>4, <2>1, <2>2 DEF TypeOK, Accepted
  <2>4. /\ mem' = mem /\ disk'[d] = mem[d] /\ pc'[d] \in {"welcome", "publish"}
        /\ \A x \in Device \ {d} : disk'[x] = disk[x] /\ before'[x] = before[x] /\ pc'[x] = pc[x]
    BY <1>0, <2>1 DEF TypeOK, Accepted
  <2>5. OnLog(mem[d]) /\ cursor[d] <= EpochOf(mem[d])
    BY <1>1, <1>5, DeviceFacts DEF OnLog
  <2>6. QED
    BY <1>3, <2>3, <2>4, <2>5, DeviceFacts, DeviceStep
<1>6. CASE mem[d] \notin Rows
  <2>1. Rejected(d)
    BY <1>1, <1>6
  <2>2. TypeOK'
    BY <1>0, <1>2, <1>3, <1>4, <2>1 DEF TypeOK, Rejected
  <2>3. /\ disk' = disk /\ mem'[d] = before[d] /\ pc'[d] \in {"catchup", "idle"}
        /\ \A x \in Device \ {d} : mem'[x] = mem[x] /\ before'[x] = before[x] /\ pc'[x] = pc[x]
    BY <1>0, <2>1 DEF TypeOK, Rejected
  <2>4. QED
    BY <1>1, <1>3, <2>2, <2>3, DeviceFacts, DeviceStep
<1>7. QED
  BY <1>5, <1>6

(* Handing out Welcomes and publishing the GroupInfo of an accepted        *)
(* commit, and the ends of a call that change nothing else.                *)
LEMMA AfterCommitIInv ==
  ASSUME IInv, NEW d \in Device,
         \/ postWelcome(d) \/ WelcomeFails(d) \/ publishGroupInfo(d) \/ PublishFails(d)
         \/ NothingToAdd(d) \/ CaughtUp(d)
  PROVE  IInv'
<1>0. TypeOK
  BY DEF IInv
<1>1. pc[d] \in {"welcome", "publish", "adding", "catchup"}
  BY DEF postWelcome, WelcomeFails, publishGroupInfo, PublishFails, NothingToAdd, CaughtUp
<1>2. UNCHANGED <<epoch, log, sent, claimed, mem, disk, before, cursor, desynced>>
  BY DEF postWelcome, WelcomeFails, publishGroupInfo, PublishFails, NothingToAdd, CaughtUp,
         relayerVars
<1>3. faults' \in 0..MaxFaults
  BY <1>0, FaultType
     DEF postWelcome, WelcomeFails, publishGroupInfo, PublishFails, NothingToAdd, CaughtUp, TypeOK
<1>4. /\ pc' \in [Device -> {"idle", "posting", "welcome", "publish", "adding", "cursor", "catchup"}]
      /\ op' \in [Device -> {"none", "claim", "join", "add", "update"}]
      /\ pc'[d] \in {"publish", "idle", "adding"}
      /\ \A x \in Device \ {d} : pc'[x] = pc[x]
  BY <1>0 DEF postWelcome, WelcomeFails, publishGroupInfo, PublishFails, NothingToAdd, CaughtUp,
              AfterPublish, TypeOK
<1>5. mem[d] = disk[d] /\ OnLog(mem[d]) /\ mem[d] \in Commit /\ mem[d].added \subseteq Device
  <2>1. mem[d] = disk[d] /\ OnLog(mem[d]) /\ mem[d] \in Commit
    BY <1>1, DeviceFacts
  <2>2. QED
    BY <2>1 DEF Commit
<1>6. \A w \in welcomes' : w \in welcomes \/ \E x \in mem[d].added : w = <<x, mem[d]>>
  BY DEF postWelcome, WelcomeFails, publishGroupInfo, PublishFails, NothingToAdd, CaughtUp,
         relayerVars
<1>7. welcomes' \subseteq Device \X Commit
  BY <1>0, <1>5, <1>6 DEF TypeOK
<1>8. \A w \in welcomes' : OnLog(w[2])
  BY <1>5, <1>6, DeviceFacts
<1>9. info' \in {info, mem[d]}
  BY DEF postWelcome, WelcomeFails, publishGroupInfo, PublishFails, NothingToAdd, CaughtUp,
         relayerVars, put_group_info
<1>10. info' \in Commit /\ OnLog(info')
  BY <1>0, <1>5, <1>9, DeviceFacts DEF TypeOK
<1>11. TypeOK'
  BY <1>0, <1>2, <1>3, <1>4, <1>7, <1>10 DEF TypeOK
<1>12. QED
  BY <1>2, <1>4, <1>5, <1>8, <1>10, <1>11, DeviceFacts, DeviceStep

(* A Welcome is taken by a device that has no group, and so has read       *)
(* nothing.                                                                *)
LEMMA WelcomeIInv ==
  ASSUME IInv, NEW d \in Device, acceptWelcomes(d) \/ LoseWelcomes(d)
  PROVE  IInv'
<1>0. TypeOK
  BY DEF IInv
<1>1. /\ pc[d] = "idle" /\ welcomes' \subseteq welcomes
      /\ UNCHANGED <<epoch, log, sent, claimed, info, before, cursor, pc, op>>
  BY DEF acceptWelcomes, LoseWelcomes, deviceVars
<1>2. faults' \in 0..MaxFaults
  BY <1>0, FaultType DEF acceptWelcomes, LoseWelcomes, TypeOK
<1>3. CASE UNCHANGED <<mem, disk, desynced>>
  <2>1. TypeOK'
    BY <1>0, <1>1, <1>2, <1>3 DEF TypeOK
  <2>2. QED
    BY <1>1, <1>3, <2>1, DeviceFacts, DeviceStep
<1>4. CASE ~UNCHANGED <<mem, disk, desynced>>
  <2>1. acceptWelcomes(d) /\ mem[d] = NoGroup
    BY <1>4 DEF acceptWelcomes, LoseWelcomes, deviceVars
  <2>2. PICK w \in welcomes :
          /\ mem' = [mem EXCEPT ![d] = w[2]]
          /\ disk' = [disk EXCEPT ![d] = w[2]]
          /\ desynced' = [desynced EXCEPT ![d] = FALSE]
    BY <2>1 DEF acceptWelcomes
  <2>3. w[2] \in Commit /\ OnLog(w[2]) /\ EpochOf(w[2]) \in Nat
    BY <1>0, DeviceFacts, EpochType DEF TypeOK
  <2>4. desynced' \in [Device -> BOOLEAN]
    BY <1>0, <2>2, Zenon DEF TypeOK
  <2>5. TypeOK'
    BY <1>0, <1>1, <1>2, <2>2, <2>3, <2>4 DEF TypeOK
  <2>6. /\ mem'[d] = w[2] /\ disk'[d] = w[2]
        /\ \A x \in Device \ {d} : mem'[x] = mem[x] /\ disk'[x] = disk[x]
    BY <1>0, <2>2 DEF TypeOK
  <2>7. cursor[d] = 0
    BY <1>1, <2>1, DeviceFacts, NoGroupCommit
  <2>8. QED
    BY <1>1, <2>3, <2>5, <2>6, <2>7, DeviceFacts, DeviceStep
<1>5. QED
  BY <1>3, <1>4

(* The row before which a cursor stands was made in the cursor's epoch. *)
LEMMA NextRowFacts ==
  ASSUME IInv, NEW d \in Device, Unread(d)
  PROVE  /\ NextRow(d) \in Rows /\ NextRow(d) \in Commit
         /\ NextRow(d).name.epoch = cursor[d]
         /\ EpochOf(NextRow(d)) = cursor[d] + 1
<1>1. TypeOK /\ LogOK
  BY DEF IInv
<1>2. cursor[d] + 1 \in DOMAIN log /\ cursor[d] \in Nat
  BY <1>1, DeviceFacts DEF Unread, TypeOK
<1>3. log[cursor[d] + 1].name.epoch = (cursor[d] + 1) - 1
  BY <1>1, <1>2 DEF LogOK
<1>4. QED
  BY <1>1, <1>2, <1>3, RowEpoch DEF NextRow, Rows

(* Following the log. *)
LEMMA SyncIInv ==
  ASSUME IInv, NEW d \in Device,
         syncSkip(d) \/ syncApply(d) \/ setCursor(d) \/ syncStuck(d)
  PROVE  IInv'
<1>0. TypeOK
  BY DEF IInv
<1>1. CASE syncSkip(d)
  <2>1. /\ pc[d] # "posting" /\ pc[d] # "cursor" /\ Unread(d)
        /\ NextRow(d).name.epoch < EpochOf(mem[d])
        /\ cursor' = [cursor EXCEPT ![d] = cursor[d] + 1]
        /\ UNCHANGED <<epoch, log, sent, claimed, info, welcomes,
                       mem, disk, before, desynced, pc, op, faults>>
    BY <1>1 DEF syncSkip, Reading, Skips, relayerVars
  <2>2. cursor[d] + 1 \in 0..Len(log) /\ cursor[d] + 1 <= EpochOf(mem[d])
    BY <2>1, DeviceFacts, NextRowFacts DEF Unread
  <2>3. cursor'[d] = cursor[d] + 1 /\ \A x \in Device \ {d} : cursor'[x] = cursor[x]
    BY <1>0, <2>1 DEF TypeOK
  <2>4. TypeOK'
    BY <1>0, <2>1, <2>2 DEF TypeOK
  <2>5. QED
    BY <2>1, <2>2, <2>3, <2>4, DeviceFacts, DeviceStep
<1>2. CASE syncApply(d)
  <2>1. /\ Unread(d)
        /\ mem' = [mem EXCEPT ![d] = NextRow(d)]
        /\ disk' = [disk EXCEPT ![d] = NextRow(d)]
        /\ pc' = [pc EXCEPT ![d] = "cursor"]
        /\ UNCHANGED <<epoch, log, sent, claimed, info, welcomes, before, cursor, desynced, op, faults>>
    BY <1>2 DEF syncApply, Reading, relayerVars
  <2>2. /\ NextRow(d) \in Commit /\ OnLog(NextRow(d))
        /\ EpochOf(NextRow(d)) = cursor[d] + 1 /\ cursor[d] < Len(log)
    BY <2>1, NextRowFacts DEF OnLog, Unread
  <2>3. TypeOK'
    BY <1>0, <2>1, <2>2 DEF TypeOK
  <2>4. /\ mem'[d] = NextRow(d) /\ disk'[d] = NextRow(d) /\ pc'[d] = "cursor"
        /\ \A x \in Device \ {d} : mem'[x] = mem[x] /\ disk'[x] = disk[x] /\ pc'[x] = pc[x]
    BY <1>0, <2>1 DEF TypeOK
  <2>5. cursor[d] <= EpochOf(NextRow(d))
    BY <2>2, DeviceFacts
  <2>6. QED
    BY <2>1, <2>2, <2>3, <2>4, <2>5, DeviceFacts, DeviceStep
<1>3. CASE setCursor(d)
  <2>1. /\ pc[d] = "cursor"
        /\ cursor' = [cursor EXCEPT ![d] = cursor[d] + 1]
        /\ pc' = [pc EXCEPT ![d] = IF d \in LowestTwo(mem[d].leaves) THEN "publish" ELSE "idle"]
        /\ UNCHANGED <<epoch, log, sent, claimed, info, welcomes,
                       mem, disk, before, desynced, op, faults>>
    BY <1>3 DEF setCursor, relayerVars
  <2>2. cursor[d] + 1 \in 0..Len(log) /\ cursor[d] + 1 <= EpochOf(disk[d]) /\ mem[d] = disk[d]
    BY <2>1, DeviceFacts
  <2>3. TypeOK'
    BY <1>0, <2>1, <2>2 DEF TypeOK
  <2>4. /\ cursor'[d] = cursor[d] + 1 /\ pc'[d] \in {"publish", "idle"}
        /\ \A x \in Device \ {d} : cursor'[x] = cursor[x] /\ pc'[x] = pc[x]
    BY <1>0, <2>1 DEF TypeOK
  <2>5. QED
    BY <2>1, <2>2, <2>3, <2>4, DeviceFacts, DeviceStep
<1>4. CASE syncStuck(d)
  <2>1. /\ pc[d] \in {"idle", "catchup"}
        /\ desynced' = [desynced EXCEPT ![d] = TRUE]
        /\ disk' = [disk EXCEPT ![d] = mem[d]]
        /\ pc' = [pc EXCEPT ![d] = "idle"]
        /\ UNCHANGED <<epoch, log, sent, claimed, info, welcomes, mem, before, cursor, op, faults>>
    BY <1>4 DEF syncStuck, Reading, relayerVars
  <2>2. desynced' \in [Device -> BOOLEAN]
    BY <1>0, <2>1, Zenon DEF TypeOK
  <2>3. TypeOK'
    BY <1>0, <2>1, <2>2 DEF TypeOK
  <2>4. /\ disk'[d] = mem[d] /\ pc'[d] = "idle"
        /\ \A x \in Device \ {d} : disk'[x] = disk[x] /\ pc'[x] = pc[x]
    BY <1>0, <2>1 DEF TypeOK
  <2>5. mem[d] = disk[d]
    BY <2>1, DeviceFacts
  <2>6. QED
    BY <2>1, <2>3, <2>4, <2>5, DeviceFacts, DeviceStep
<1>5. QED
  BY <1>1, <1>2, <1>3, <1>4

(* A restart: what was saved is a state of the log the cursor fits. *)
LEMMA CrashIInv ==
  ASSUME IInv, NEW d \in Device, Crash(d)
  PROVE  IInv'
<1>0. TypeOK
  BY DEF IInv
<1>1. /\ mem' = [mem EXCEPT ![d] = disk[d]]
      /\ desynced' = [desynced EXCEPT ![d] = FALSE]
      /\ pc' = [pc EXCEPT ![d] = "idle"]
      /\ op' = [op EXCEPT ![d] = "none"]
      /\ before' = [before EXCEPT ![d] = NoGroup]
      /\ UNCHANGED <<epoch, log, sent, claimed, info, welcomes, disk, cursor>>
  BY DEF Crash, relayerVars
<1>2. desynced' \in [Device -> BOOLEAN]
  BY <1>0, <1>1, Zenon DEF TypeOK
<1>3. faults' \in 0..MaxFaults
  BY <1>0, FaultType DEF Crash
<1>4. TypeOK'
  BY <1>0, <1>1, <1>2, <1>3, NoGroupCommit DEF TypeOK
<1>5. /\ mem'[d] = disk[d] /\ pc'[d] = "idle"
      /\ \A x \in Device \ {d} : mem'[x] = mem[x] /\ before'[x] = before[x] /\ pc'[x] = pc[x]
  BY <1>0, <1>1 DEF TypeOK
<1>6. QED
  BY <1>1, <1>4, <1>5, DeviceFacts, DeviceStep

(* A request that is lost, or refused after it took its epoch. *)
LEMMA RequestFails ==
  ASSUME IInv, NEW c, LoseRequest(c) \/ RejectClaimed(c)
  PROVE  IInv'
<1>0. TypeOK
  BY DEF IInv
<1>1. /\ sent' \subseteq sent /\ claimed' \subseteq claimed
      /\ UNCHANGED <<epoch, log, info, welcomes, mem, disk, before, cursor, desynced, pc, op>>
  BY DEF LoseRequest, RejectClaimed, deviceVars
<1>2. faults' \in 0..MaxFaults
  BY <1>0, FaultType DEF LoseRequest, RejectClaimed
<1>3. TypeOK'
  BY <1>0, <1>1, <1>2 DEF TypeOK
<1>4. PICK b \in sent \union claimed : b = c
  BY DEF LoseRequest, RejectClaimed
<1>5. b.name.by \in Device
  BY DEF IInv, FlightOK, Based
<1>6. QED
  BY <1>1, <1>3, <1>5, DeviceFacts, DeviceStep

-----------------------------------------------------------------------------
(* Every step keeps the invariant. *)
LEMMA NextIInv == IInv /\ [Next]_vars => IInv'
<1> SUFFICES ASSUME IInv, [Next]_vars PROVE IInv'
  OBVIOUS
<1>1. CASE Store
  BY <1>1, StoreIInv DEF Store
<1>2. CASE \E d \in Device : Claim(d)
  BY <1>2, ClaimIInv DEF Claim
<1>3. CASE \E d \in Device : Session(d) \/ Member(d)
  <2>1. PICK d \in Device : Session(d) \/ Member(d)
    BY <1>3
  <2>2. CASE bootstrap(d) \/ joinExternal(d) \/ Member(d)
    BY <2>2, BuildIInv
  <2>3. CASE acceptWelcomes(d)
    BY <2>3, WelcomeIInv
  <2>4. CASE postCommit(d)
    BY <2>4, AnswerIInv
  <2>5. CASE postWelcome(d) \/ publishGroupInfo(d) \/ NothingToAdd(d) \/ CaughtUp(d)
    BY <2>5, AfterCommitIInv
  <2>6. CASE syncSkip(d) \/ syncApply(d) \/ setCursor(d) \/ syncStuck(d)
    BY <2>6, SyncIInv
  <2>7. QED
    BY <2>1, <2>2, <2>3, <2>4, <2>5, <2>6 DEF Session
<1>4. CASE Failure
  <2>1. CASE \E c : LoseRequest(c) \/ RejectClaimed(c)
    BY <2>1, RequestFails
  <2>2. CASE \E d \in Device : findInLog(d)
    BY <2>2, AnswerIInv
  <2>3. CASE \E d \in Device : WelcomeFails(d) \/ PublishFails(d)
    BY <2>3, AfterCommitIInv
  <2>4. CASE \E d \in Device : LoseWelcomes(d)
    BY <2>4, WelcomeIInv
  <2>5. CASE \E d \in Device : Crash(d)
    BY <2>5, CrashIInv
  <2>6. QED
    BY <1>4, <2>1, <2>2, <2>3, <2>4, <2>5 DEF Failure
<1>5. CASE UNCHANGED vars
  <2>1. UNCHANGED <<epoch, log, sent, claimed, info, welcomes, mem, disk, before, cursor,
                    desynced, pc, op, faults>>
    BY <1>5 DEF vars, relayerVars, deviceVars
  <2>2. Rows' = Rows
    BY <2>1 DEF Rows
  <2>3. TypeOK' /\ LogOK' /\ FlightOK'
    BY <2>1 DEF IInv, TypeOK, LogOK, FlightOK, Based, NameAt
  <2>4. EpochOK' /\ DeviceOK' /\ NoFork' /\ NothingSkipped'
    BY <2>1, <2>2 DEF IInv, EpochOK, DeviceOK, NoFork, NothingSkipped, OnLog, EpochOf
  <2>5. QED
    BY <2>3, <2>4 DEF IInv
<1>6. QED
  BY <1>1, <1>2, <1>3, <1>4, <1>5 DEF Next

(* Every reachable state satisfies the inductive invariant. *)
THEOREM Invariance == Spec => []IInv
  BY InitIInv, NextIInv, PTL DEF Spec

(* The log is one chain of commits, each made on the state of the row      *)
(* before it (create_message): what delays, losses, timeouts, restarts and *)
(* refusals between the two halves do cannot break it.                     *)
THEOREM ChainTheorem == Spec => []LogIsChain
<1>1. IInv => LogIsChain
  <2> SUFFICES ASSUME IInv PROVE LogIsChain
    OBVIOUS
  <2>1. TypeOK /\ LogOK
    BY DEF IInv
  <2>2. \A i \in DOMAIN log : NameAt(i - 1) = IF i = 1 THEN NoName ELSE log[i - 1].name
    BY <2>1 DEF NameAt, TypeOK
  <2>3. QED
    BY <2>1, <2>2 DEF LogIsChain, LogOK
<1>2. QED
  BY <1>1, Invariance, PTL

(* No fork: every saved state, every state a device that waits for no      *)
(* answer works in, every Welcome and the GroupInfo are states of the log. *)
THEOREM NoForkTheorem == Spec => []NoFork
<1>1. IInv => NoFork
  BY DEF IInv
<1>2. QED
  BY <1>1, Invariance, PTL

(* No device passes a commit it has not applied (sync, setCursor): a       *)
(* restart at any point finds the rows the saved state needs.              *)
THEOREM SkipTheorem == Spec => []NothingSkipped
<1>1. IInv => NothingSkipped
  BY DEF IInv
<1>2. QED
  BY <1>1, Invariance, PTL
-----------------------------------------------------------------------------
(* The refinement of CommitLog.  Its step for a device's saved state needs *)
(* to know that the commit a device waits for is its own and, once it is a *)
(* row, later than all the device saved; and that a Welcome is held by a   *)
(* device its commit adds.                                                 *)
OwnOK ==
  /\ \A d \in Device :
       pc[d] = "posting" => /\ mem[d].name.by = d
                            /\ mem[d] \in Rows => EpochOf(disk[d]) < EpochOf(mem[d])
  /\ \A w \in welcomes : w[1] \in w[2].added

(* The commit behind a row, as the history has it. *)
Entry(c) == [by |-> c.name.by, added |-> c.added]
Hist == [i \in DOMAIN log |-> Entry(log[i])]

(* The history has the length of the log. *)
LEMMA HistLen ==
  ASSUME TypeOK
  PROVE  /\ log \in Seq(Commit) /\ Len(log) \in Nat /\ DOMAIN log = 1..Len(log)
         /\ Len(Hist) = Len(log) /\ DOMAIN Hist = 1..Len(log)
         /\ \A i \in DOMAIN log : Hist[i] = Entry(log[i])
<1>1. log \in Seq(Commit) /\ Len(log) \in Nat /\ DOMAIN log = 1..Len(log)
  BY DEF TypeOK
<1>2. Hist \in [1..Len(log) -> {Entry(log[i]) : i \in DOMAIN log}]
  BY <1>1 DEF Hist
<1>3. Hist \in Seq({Entry(log[i]) : i \in DOMAIN log}) /\ Len(Hist) = Len(log)
  BY <1>1, <1>2
<1>4. QED
  BY <1>1, <1>2, <1>3 DEF Hist

(* A step that appends nothing and starts no wait. *)
LEMMA OwnKept ==
  ASSUME OwnOK, UNCHANGED log,
         \A x \in Device : pc'[x] = "posting" =>
           pc[x] = "posting" /\ mem'[x] = mem[x] /\ disk'[x] = disk[x],
         \A w \in welcomes' : w[1] \in w[2].added
  PROVE  OwnOK'
<1>1. Rows' = Rows
  BY DEF Rows
<1>2. QED
  BY <1>1 DEF OwnOK, EpochOf

(* A step that leaves the log, what is saved and the GroupInfo alone. *)
LEMMA HistoryKept ==
  ASSUME UNCHANGED <<log, disk, info>>
  PROVE  [History!Next]_(History!commitVars)
  BY DEF History!commitVars, EpochOf

(* The first states correspond. *)
LEMMA InitHistory == Init => History!Init /\ OwnOK
<1> SUFFICES ASSUME Init PROVE History!Init /\ OwnOK
  OBVIOUS
<1>1. log = <<>> /\ info = NoGroup /\ disk = [d \in Device |-> NoGroup] /\ welcomes = {}
      /\ \A d \in Device : pc[d] = "idle"
  BY DEF Init
<1>2. EpochOf(info) = 0 /\ \A d \in Device : EpochOf(disk[d]) = 0
  BY <1>1, NoGroupCommit
<1>3. [d \in Device |-> EpochOf(disk[d])] = [d \in Device |-> 0]
  BY <1>2
<1>4. [i \in DOMAIN log |-> [by |-> log[i].name.by, added |-> log[i].added]] = <<>>
  BY <1>1
<1>5. History!Init
  BY <1>2, <1>3, <1>4 DEF History!Init
<1>6. QED
  BY <1>1, <1>5 DEF OwnOK

(* A row appended to the log is a commit appended to the history. *)
LEMMA StoreHistory ==
  ASSUME IInv, OwnOK, NEW c \in claimed, create_message(c)
  PROVE  OwnOK' /\ History!Next
<1>0. TypeOK /\ LogOK /\ FlightOK /\ EpochOK /\ DeviceOK /\ NoFork
  BY DEF IInv
<1>1. UNCHANGED <<info, welcomes, mem, disk, pc>> /\ log' = Append(log, c) /\ c \in Commit
  BY <1>0 DEF create_message, deviceVars, TypeOK
<1>2. c.name.by \in Device /\ c.name.epoch = Len(log) /\ c.added \in SUBSET Device
  BY <1>0, <1>1 DEF FlightOK, EpochOK, Based, Commit
<1>3. EpochOf(c) = Len(log) + 1
  <2>1. c # NoGroup
    BY <1>2, MlsAssumption DEF NoGroup, NoName
  <2>2. QED
    BY <1>2, <2>1 DEF EpochOf
<1>4. /\ log \in Seq(Commit) /\ Len(log) \in Nat /\ DOMAIN log = 1..Len(log)
      /\ Len(Hist) = Len(log) /\ DOMAIN Hist = 1..Len(log)
      /\ \A i \in DOMAIN log : Hist[i] = Entry(log[i])
  BY <1>0, HistLen
<1>5. /\ Len(log') = Len(log) + 1 /\ DOMAIN log' = 1..(Len(log) + 1)
      /\ \A i \in 1..Len(log) : log'[i] = log[i]
      /\ log'[Len(log) + 1] = c
  BY <1>1, <1>4, AppendProperties
<1>6. OwnOK'
  <2>1. \A r \in Rows' : r \in Rows \/ r = c
    BY <1>4, <1>5 DEF Rows
  <2>2. \A d \in Device : EpochOf(disk[d]) < EpochOf(c)
    BY <1>0, <1>3, <1>4, OnLogEpoch DEF NoFork
  <2>3. QED
    BY <1>1, <2>1, <2>2 DEF OwnOK, EpochOf
<1>7. Hist' = Append(Hist, Entry(c))
  <2>1. Hist' = [i \in 1..(Len(log) + 1) |-> Entry(log'[i])]
    BY <1>5 DEF Hist, Entry
  <2> DEFINE T == {Entry(log[i]) : i \in DOMAIN log} \union {Entry(c)}
  <2>2. Hist \in [1..Len(log) -> T]
    BY <1>4 DEF Hist
  <2>3. Hist \in Seq(T) /\ Entry(c) \in T
    BY <1>4, <2>2
  <2> HIDE DEF T
  <2> DEFINE A == Append(Hist, Entry(c))
  <2>4. /\ A \in Seq(T) /\ Len(A) = Len(log) + 1
        /\ A = [i \in 1..(Len(log) + 1) |-> A[i]]
        /\ \A i \in 1..Len(log) : A[i] = Hist[i]
        /\ A[Len(log) + 1] = Entry(c)
    <3>1. A \in Seq(T) /\ Len(A) = Len(Hist) + 1 /\ A[Len(Hist) + 1] = Entry(c)
      BY <2>3, AppendProperties
    <3>2. \A i \in 1..Len(Hist) : A[i] = Hist[i]
      BY <2>3, AppendProperties
    <3> HIDE DEF A
    <3>3. A \in [1..Len(A) -> T]
      BY <3>1
    <3>4. QED
      BY <1>4, <3>1, <3>2, <3>3
  <2>5. \A i \in 1..(Len(log) + 1) : Entry(log'[i]) = A[i]
    BY <1>4, <1>5, <2>4
  <2>6. QED
    BY <1>4, <2>1, <2>4, <2>5
<1>8. History!Extend(c.name.by, c.added)
  BY <1>1, <1>7 DEF History!Extend, Hist, Entry, EpochOf
<1>9. QED
  BY <1>2, <1>6, <1>8 DEF History!Next

(* A commit that is built is new, so it is not yet a row. *)
LEMMA PostHistory ==
  ASSUME IInv, OwnOK, NEW d \in Device,
         NEW on, OnLog(on), NEW leaves, NEW added, NEW kind, Post(d, on, leaves, added, kind)
  PROVE  OwnOK' /\ [History!Next]_(History!commitVars)
<1>0. TypeOK /\ LogOK /\ FlightOK
  BY DEF IInv
<1> DEFINE c == [name |-> Fresh(d, EpochOf(on)), parent |-> on.name,
                 leaves |-> leaves, added |-> added]
<1>1. EpochOf(on) \in Nat
  BY <1>0, OnLogEpoch, EpochType
<1>2. c.name.by = d /\ \A b \in Rows : b.name # c.name
  BY <1>0, <1>1, FreshName
<1>3. /\ mem' = [mem EXCEPT ![d] = c] /\ pc' = [pc EXCEPT ![d] = "posting"]
      /\ UNCHANGED <<log, info, welcomes, disk>>
  BY DEF Post
<1> HIDE DEF c
<1>4. /\ mem'[d] = c
      /\ \A x \in Device \ {d} : mem'[x] = mem[x] /\ pc'[x] = pc[x]
  BY <1>0, <1>3 DEF TypeOK
<1>5. c \notin Rows /\ Rows' = Rows
  BY <1>2, <1>3 DEF Rows
<1>6. OwnOK'
  BY <1>2, <1>3, <1>4, <1>5 DEF OwnOK, EpochOf
<1>7. QED
  BY <1>3, <1>6, HistoryKept

(* So are the commits of a session. *)
LEMMA BuildHistory ==
  ASSUME IInv, OwnOK, NEW d \in Device, bootstrap(d) \/ joinExternal(d) \/ Member(d)
  PROVE  OwnOK' /\ [History!Next]_(History!commitVars)
<1>1. OnLog(NoGroup) /\ OnLog(info) /\ (pc[d] # "posting" => OnLog(mem[d]))
  BY DEF IInv, OnLog, NoFork
<1>2. CASE bootstrap(d)
  BY <1>1, <1>2, PostHistory DEF bootstrap
<1>3. CASE joinExternal(d)
  <2> DEFINE leaves == IF Contains(info.leaves, d) THEN info.leaves ELSE Append(info.leaves, d)
  <2>1. Post(d, info, leaves, {}, "join")
    BY <1>3 DEF joinExternal
  <2> HIDE DEF leaves
  <2>2. QED
    BY <1>1, <2>1, PostHistory
<1>4. CASE addWallets(d)
  <2>1. PICK devices, order : Post(d, mem[d], mem[d].leaves \o order, devices, "add")
    BY <1>4 DEF addWallets
  <2>2. pc[d] # "posting"
    BY <1>4 DEF addWallets
  <2>3. QED
    BY <1>1, <2>1, <2>2, PostHistory
<1>5. CASE update(d)
  BY <1>1, <1>5, PostHistory DEF update
<1>6. QED
  BY <1>2, <1>3, <1>4, <1>5 DEF Member

(* A device that saves the state of a later row that brings it in enters   *)
(* the history there.                                                      *)
LEMMA EnterHistory ==
  ASSUME IInv, NEW d \in Device, NEW r \in Rows, UNCHANGED <<log, info>>,
         disk' = [disk EXCEPT ![d] = r], EpochOf(disk[d]) < EpochOf(r),
         r.name.by = d \/ (disk[d] = NoGroup /\ d \in r.added)
  PROVE  History!Next
<1>0. TypeOK /\ LogOK
  BY DEF IInv
<1> DEFINE place == [x \in Device |-> EpochOf(disk[x])]
<1>1. PICK i \in DOMAIN log : r = log[i]
  BY DEF Rows
<1>2. EpochOf(r) = i /\ i \in 1..Len(log)
  BY <1>0, <1>1, RowEpoch
<1>3. /\ Len(log) \in Nat /\ Len(Hist) = Len(log) /\ Hist[i] = Entry(r)
  BY <1>0, <1>1, HistLen
<1>4. place[d] \in Nat /\ (disk[d] = NoGroup => place[d] = 0)
  BY DeviceFacts, NoGroupCommit
<1>5. i \in (place[d] + 1)..Len(Hist)
  BY <1>2, <1>3, <1>4
<1>6. place' = [place EXCEPT ![d] = i]
  BY <1>0, <1>2 DEF TypeOK, EpochOf
<1>7. Hist[i].by = d \/ (place[d] = 0 /\ d \in Hist[i].added)
  BY <1>3, <1>4 DEF Entry
<1>8. History!Enter(d)
  BY <1>5, <1>6, <1>7 DEF History!Enter, Hist, Entry, EpochOf
<1>9. QED
  BY <1>8 DEF History!Next

(* The answer to a commit: the device enters the history at its own        *)
(* commit, or nothing happened.                                            *)
LEMMA AnswerHistory ==
  ASSUME IInv, OwnOK, NEW d \in Device, postCommit(d) \/ findInLog(d)
  PROVE  OwnOK' /\ [History!Next]_(History!commitVars)
<1>0. TypeOK
  BY DEF IInv
<1>1. pc[d] = "posting" /\ (IF mem[d] \in Rows THEN Accepted(d) ELSE Rejected(d))
  BY DEF postCommit, findInLog
<1>2. UNCHANGED <<log, info, welcomes>>
  BY <1>1 DEF Accepted, Rejected, relayerVars
<1>3. /\ pc'[d] # "posting"
      /\ \A x \in Device \ {d} : pc'[x] = pc[x] /\ mem'[x] = mem[x] /\ disk'[x] = disk[x]
  BY <1>0, <1>1 DEF TypeOK, Accepted, Rejected
<1>4. OwnOK'
  BY <1>2, <1>3, OwnKept DEF OwnOK
<1>5. CASE mem[d] \in Rows
  <2>1. disk' = [disk EXCEPT ![d] = mem[d]]
    BY <1>1, <1>5 DEF Accepted
  <2>2. mem[d].name.by = d /\ EpochOf(disk[d]) < EpochOf(mem[d])
    BY <1>1, <1>5 DEF OwnOK
  <2>3. QED
    BY <1>2, <1>4, <1>5, <2>1, <2>2, EnterHistory
<1>6. CASE mem[d] \notin Rows
  BY <1>1, <1>2, <1>4, <1>6, HistoryKept DEF Rejected
<1>7. QED
  BY <1>5, <1>6

(* A Welcome brings in a device that has no group. *)
LEMMA WelcomeHistory ==
  ASSUME IInv, OwnOK, NEW d \in Device, acceptWelcomes(d) \/ LoseWelcomes(d)
  PROVE  OwnOK' /\ [History!Next]_(History!commitVars)
<1>0. TypeOK /\ LogOK
  BY DEF IInv
<1>1. pc[d] = "idle" /\ welcomes' \subseteq welcomes /\ UNCHANGED <<log, info, pc>>
  BY DEF acceptWelcomes, LoseWelcomes, deviceVars
<1>2. CASE UNCHANGED <<mem, disk, desynced>>
  BY <1>1, <1>2, OwnKept, HistoryKept DEF OwnOK
<1>3. CASE ~UNCHANGED <<mem, disk, desynced>>
  <2>1. acceptWelcomes(d) /\ mem[d] = NoGroup
    BY <1>3 DEF acceptWelcomes, LoseWelcomes, deviceVars
  <2>2. PICK w \in welcomes :
          /\ w[1] = d
          /\ mem' = [mem EXCEPT ![d] = w[2]]
          /\ disk' = [disk EXCEPT ![d] = w[2]]
    BY <2>1 DEF acceptWelcomes
  <2>3. d \in w[2].added /\ OnLog(w[2]) /\ disk[d] = NoGroup
    BY <1>1, <2>1, <2>2, DeviceFacts DEF OwnOK
  <2>4. w[2] # NoGroup
    BY <2>3 DEF NoGroup
  <2>5. w[2] \in Rows
    BY <2>3, <2>4 DEF OnLog
  <2>6. EpochOf(disk[d]) < EpochOf(w[2])
    <3>1. PICK i \in DOMAIN log : w[2] = log[i]
      BY <2>5 DEF Rows
    <3>2. EpochOf(w[2]) = i /\ i \in 1..Len(log)
      BY <1>0, <3>1, RowEpoch
    <3>3. QED
      BY <2>3, <3>2, DeviceFacts, NoGroupCommit
  <2>7. History!Next
    BY <1>1, <2>2, <2>3, <2>5, <2>6, EnterHistory
  <2>8. \A x \in Device \ {d} : mem'[x] = mem[x] /\ disk'[x] = disk[x]
    BY <1>0, <2>2 DEF TypeOK
  <2>9. OwnOK'
    BY <1>1, <2>8, OwnKept DEF OwnOK
  <2>10. QED
    BY <2>7, <2>9
<1>4. QED
  BY <1>2, <1>3

(* Welcomes go to the devices their commit adds; the GroupInfo moves to    *)
(* the end of the history, or stays where it is.                           *)
LEMMA AfterCommitHistory ==
  ASSUME IInv, OwnOK, NEW d \in Device,
         \/ postWelcome(d) \/ WelcomeFails(d) \/ publishGroupInfo(d) \/ PublishFails(d)
         \/ NothingToAdd(d) \/ CaughtUp(d)
  PROVE  OwnOK' /\ [History!Next]_(History!commitVars)
<1>0. TypeOK /\ LogOK /\ EpochOK
  BY DEF IInv
<1>1. /\ pc[d] # "posting" /\ UNCHANGED <<log, mem, disk>>
      /\ pc'[d] # "posting" /\ \A x \in Device \ {d} : pc'[x] = pc[x]
  BY <1>0 DEF postWelcome, WelcomeFails, publishGroupInfo, PublishFails, NothingToAdd, CaughtUp,
         relayerVars, AfterPublish, TypeOK
<1>2. \A w \in welcomes' : w \in welcomes \/ \E x \in mem[d].added : w = <<x, mem[d]>>
  BY DEF postWelcome, WelcomeFails, publishGroupInfo, PublishFails, NothingToAdd, CaughtUp,
         relayerVars
<1>3. OwnOK'
  BY <1>1, <1>2, OwnKept DEF OwnOK
<1>4. CASE info' = info
  BY <1>1, <1>3, <1>4, HistoryKept
<1>5. CASE info' # info
  <2>1. info' = mem[d] /\ EpochOf(mem[d]) = epoch
    BY <1>5 DEF postWelcome, WelcomeFails, publishGroupInfo, PublishFails, NothingToAdd, CaughtUp,
           relayerVars, put_group_info
  <2>2. OnLog(mem[d]) /\ OnLog(info)
    BY <1>1, DeviceFacts
  <2>3. EpochOf(mem[d]) \in 0..Len(log) /\ EpochOf(info) \in 0..Len(log)
    BY <1>0, <2>2, OnLogEpoch
  <2>4. Len(log) \in Nat /\ Len(Hist) = Len(log)
    BY <1>0, HistLen
  <2>5. EpochOf(mem[d]) = Len(log)
    BY <1>0, <2>1, <2>3, <2>4 DEF EpochOK, TypeOK
  <2>6. EpochOf(info)' = Len(log)
    BY <2>1, <2>5 DEF EpochOf
  <2>7. CASE EpochOf(info) = Len(log)
    BY <1>1, <1>3, <2>6, <2>7 DEF History!commitVars, EpochOf
  <2>8. CASE EpochOf(info) # Len(log)
    <3>1. EpochOf(info)' \in (EpochOf(info) + 1)..Len(Hist)
      BY <2>3, <2>4, <2>6, <2>8
    <3>2. History!Publish
      BY <1>1, <3>1 DEF History!Publish, Hist, Entry, EpochOf
    <3>3. QED
      BY <1>3, <3>2 DEF History!Next
  <2>9. QED
    BY <2>7, <2>8
<1>6. QED
  BY <1>4, <1>5

(* Following the log is following the history. *)
LEMMA SyncHistory ==
  ASSUME IInv, OwnOK, NEW d \in Device,
         syncSkip(d) \/ syncApply(d) \/ setCursor(d) \/ syncStuck(d)
  PROVE  OwnOK' /\ [History!Next]_(History!commitVars)
<1>0. TypeOK /\ LogOK
  BY DEF IInv
<1>1. UNCHANGED <<log, info, welcomes>> /\ pc[d] # "posting"
  BY DEF syncSkip, syncApply, setCursor, syncStuck, Reading, relayerVars
<1>2. /\ pc'[d] # "posting"
      /\ \A x \in Device \ {d} : pc'[x] = pc[x] /\ mem'[x] = mem[x] /\ disk'[x] = disk[x]
  BY <1>0, <1>1 DEF syncSkip, syncApply, setCursor, syncStuck, TypeOK
<1>3. OwnOK'
  BY <1>1, <1>2, OwnKept DEF OwnOK
<1>4. CASE syncApply(d)
  <2> DEFINE place == [x \in Device |-> EpochOf(disk[x])]
  <2>1. /\ mem[d] # NoGroup /\ Unread(d) /\ disk' = [disk EXCEPT ![d] = NextRow(d)]
        /\ NextRow(d).name.epoch = EpochOf(mem[d]) /\ NextRow(d).name.by # d
    BY <1>4 DEF syncApply, Reading, Applies
  <2>2. mem[d] = disk[d] /\ OnLog(disk[d]) /\ cursor[d] \in 0..Len(log)
    BY <1>1, DeviceFacts
  <2>3. cursor[d] = place[d] /\ EpochOf(NextRow(d)) = place[d] + 1
    BY <2>1, <2>2, NextRowFacts
  <2>4. Len(log) \in Nat /\ Len(Hist) = Len(log) /\ cursor[d] + 1 \in DOMAIN log
    BY <1>0, <2>1, <2>2, HistLen DEF Unread
  <2>5. Hist[place[d] + 1] = Entry(NextRow(d))
    BY <1>0, <2>3, <2>4, HistLen DEF NextRow
  <2>6. place[d] \in 1..(Len(Hist) - 1)
    <3>1. PICK i \in DOMAIN log : disk[d] = log[i]
      BY <2>1, <2>2 DEF OnLog, Rows
    <3>2. EpochOf(disk[d]) = i /\ i \in 1..Len(log)
      BY <1>0, <3>1, RowEpoch
    <3>3. QED
      BY <2>1, <2>2, <2>3, <2>4, <3>2 DEF Unread
  <2>7. place' = [place EXCEPT ![d] = place[d] + 1]
    BY <1>0, <2>1, <2>3 DEF TypeOK, EpochOf
  <2>8. Hist[place[d] + 1].by # d
    BY <2>1, <2>5 DEF Entry
  <2>9. History!Follow(d)
    BY <1>1, <2>6, <2>7, <2>8 DEF History!Follow, Hist, Entry, EpochOf
  <2>10. QED
    BY <1>3, <2>9 DEF History!Next
<1>5. CASE ~syncApply(d)
  <2>1. disk' = disk
    <3>1. disk' = disk \/ disk' = [disk EXCEPT ![d] = mem[d]]
      BY <1>5 DEF syncSkip, setCursor, syncStuck
    <3>2. mem[d] = disk[d]
      BY <1>1, DeviceFacts
    <3>3. QED
      BY <1>0, <3>1, <3>2 DEF TypeOK
  <2>2. QED
    BY <1>1, <1>3, <2>1, HistoryKept
<1>6. QED
  BY <1>4, <1>5

(* Every step is a step of the history, or none. *)
LEMMA StepHistory ==
  IInv /\ OwnOK /\ [Next]_vars => OwnOK' /\ [History!Next]_(History!commitVars)
<1> SUFFICES ASSUME IInv, OwnOK, [Next]_vars
             PROVE  OwnOK' /\ [History!Next]_(History!commitVars)
  OBVIOUS
<1>1. CASE Store
  BY <1>1, StoreHistory DEF Store
<1>2. CASE UNCHANGED <<log, disk, info, mem, pc, welcomes>>
  <2>1. OwnOK'
    BY <1>2, OwnKept DEF OwnOK
  <2>2. QED
    BY <1>2, <2>1, HistoryKept
<1>3. CASE \E d \in Device : Claim(d)
  BY <1>2, <1>3 DEF Claim, try_advance_epoch, deviceVars
<1>4. CASE \E d \in Device : Session(d) \/ Member(d)
  <2>1. PICK d \in Device : Session(d) \/ Member(d)
    BY <1>4
  <2>2. CASE bootstrap(d) \/ joinExternal(d) \/ Member(d)
    BY <2>2, BuildHistory
  <2>3. CASE acceptWelcomes(d)
    BY <2>3, WelcomeHistory
  <2>4. CASE postCommit(d)
    BY <2>4, AnswerHistory
  <2>5. CASE postWelcome(d) \/ publishGroupInfo(d) \/ NothingToAdd(d) \/ CaughtUp(d)
    BY <2>5, AfterCommitHistory
  <2>6. CASE syncSkip(d) \/ syncApply(d) \/ setCursor(d) \/ syncStuck(d)
    BY <2>6, SyncHistory
  <2>7. QED
    BY <2>1, <2>2, <2>3, <2>4, <2>5, <2>6 DEF Session
<1>5. CASE Failure
  <2>1. CASE \E c : LoseRequest(c) \/ RejectClaimed(c)
    BY <1>2, <2>1 DEF LoseRequest, RejectClaimed, deviceVars
  <2>2. CASE \E d \in Device : findInLog(d)
    BY <2>2, AnswerHistory
  <2>3. CASE \E d \in Device : WelcomeFails(d) \/ PublishFails(d)
    BY <2>3, AfterCommitHistory
  <2>4. CASE \E d \in Device : LoseWelcomes(d)
    BY <2>4, WelcomeHistory
  <2>5. CASE \E d \in Device : Crash(d)
    <3>1. PICK d \in Device : Crash(d)
      BY <2>5
    <3>2. UNCHANGED <<log, disk, info, welcomes>>
      BY <3>1 DEF Crash, relayerVars
    <3>3. /\ pc'[d] # "posting"
          /\ \A x \in Device \ {d} : pc'[x] = pc[x] /\ mem'[x] = mem[x]
      BY <3>1 DEF Crash, IInv, TypeOK
    <3>4. OwnOK'
      BY <3>2, <3>3, OwnKept DEF OwnOK
    <3>5. QED
      BY <3>2, <3>4, HistoryKept
  <2>6. QED
    BY <1>5, <2>1, <2>2, <2>3, <2>4, <2>5 DEF Failure
<1>6. CASE UNCHANGED vars
  BY <1>2, <1>6 DEF vars, relayerVars, deviceVars
<1>7. QED
  BY <1>1, <1>3, <1>4, <1>5, <1>6 DEF Next

(* The group is one history in which everyone moves forward: each step of  *)
(* the relayer and of the sessions appends a commit, moves one device to   *)
(* the next commit or to one that brings it in, moves the GroupInfo        *)
(* forward, or changes none of these (create_message, postCommit,          *)
(* acceptWelcomes, sync, put_group_info).                                  *)
THEOREM HistoryTheorem == Spec => ImplementsCommitLog
<1>1. Init => History!Init /\ OwnOK
  BY InitHistory
<1>2. IInv /\ OwnOK /\ [Next]_vars => OwnOK' /\ [History!Next]_(History!commitVars)
  BY StepHistory
<1>3. QED
  BY <1>1, <1>2, Invariance, PTL DEF Spec, ImplementsCommitLog, History!Spec
=============================================================================
