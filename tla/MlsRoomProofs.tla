--------------------------- MODULE MlsRoomProofs ---------------------------
(***************************************************************************)
(* Proofs about MlsRoom for every set of devices, every number of leaves   *)
(* and of events.                                                          *)
(*                                                                         *)
(* A call checks one tree and acts on a later one.  The argument follows   *)
(* the leaves through the epochs between the two: a commit keeps a leaf in *)
(* its place, empties it or gives it to a device that enters, so a tree    *)
(* after the check differs from the one that was checked only by blanks    *)
(* and by devices that entered since; what was condemned by its index is   *)
(* still condemned for the same reason, or has been taken over.            *)
(***************************************************************************)
EXTENDS MlsRoom, FiniteSetTheorems, SequenceTheorems, TLAPS

\* A ratchet tree, and the record of a call.
ATree == [Leaf -> Device \cup {Blank}]

CallRecord == [pc : Pc, next : Pc \cup {"check"}, asked : SUBSET Device,
               bad : SUBSET Leaf, epoch : Nat, unknown : BOOLEAN]

\* The types that do not speak of the number of epochs.
Typed ==
    /\ readers \subseteq Device /\ gate \subseteq Device /\ revoked \subseteq Device
    /\ props \subseteq Leaf
    /\ welcome \in [Device -> Nat] /\ at \in [Device -> Nat]
    /\ st \in [Device -> {"in", "stuck", "none", "gone"}]
    /\ pend \in [Device -> SUBSET Leaf]
    /\ call \in [Device -> CallRecord]

\* The trees, and what each commit brought in.
TreesOK ==
    /\ trees \in Seq(ATree) /\ Len(trees) >= 1
    /\ entered \in Seq(SUBSET Device) /\ Len(entered) = Epoch
    /\ \A e \in 0..Epoch : Members(Tree(e)) # {}

\* No device has two leaves.
Distinct(t) == \A i, j \in Leaf : t[i] = t[j] => i = j \/ t[i] = Blank

\* Who is proposed for removal has logged out.
PropsOK ==
    \A i \in props : Tree(Epoch)[i] \in Device /\ st[Tree(Epoch)[i]] = "gone"

\* What a device knows of its group.
StateOK(d) ==
    /\ at[d] <= Epoch /\ welcome[d] <= Epoch /\ call[d].epoch <= Epoch
    /\ st[d] = "in" => d \in Members(Tree(at[d]))
    /\ welcome[d] # 0 => d \in Members(Tree(welcome[d]))
    /\ \A i \in pend[d] : Tree(at[d])[i] \in Device /\ st[Tree(at[d])[i]] = "gone"

\* Where a session can be in its call.
CallOK(d) ==
    /\ call[d].pc \in {"remove", "pending", "encrypt", "add"} => st[d] = "in"
    /\ call[d].pc = "sync" => st[d] \in {"in", "stuck"}
    /\ call[d].pc = "join" => st[d] = "stuck"
    /\ call[d].pc \notin {"sync", "join"} => call[d].next = "idle"
    /\ call[d].next \in {"idle", "check", "remove", "pending", "add"}
    /\ call[d].bad # {} => "remove" \in {call[d].pc, call[d].next}

\* The call has checked the tree and has not encrypted yet.
Checked(d) == {call[d].pc, call[d].next} \cap {"remove", "pending", "encrypt"} # {}

\* The first of the trees it may still encrypt to, or remove leaves from.
From(d) == IF call[d].pc = "encrypt" THEN at[d] ELSE call[d].epoch

\* Devices that the commits after epoch a, up to b, brought in.
Since(en, a, b) == UNION {en[g] : g \in a + 1..b}

\* From epoch f on, the leaves are of readers, of the device itself, of those
\* that entered since the check, or found bad.
Covered(ts, en, d, c, f) ==
    \A e \in f..Len(en) : \A i \in Leaf :
       \/ ts[e + 1][i] \in {Blank, d} \cup c.asked \cup Since(en, c.epoch, e)
       \/ i \in c.bad

\* A send that has checked the tree: what it may encrypt to is covered.
SealOK(d) ==
    Checked(d) =>
      /\ st[d] = "in" => call[d].epoch <= at[d]
      /\ Covered(trees, entered, d, call[d], From(d))

\* Why the leaves found bad are, in the tree checked and in the later ones.
Condemned(ts, en, rv, c) ==
    \A e \in c.epoch..Len(en) : \A i \in c.bad :
       \/ ts[e + 1][i] = Blank \/ ts[e + 1][i] \notin c.asked
       \/ ts[e + 1][i] \in rv \/ ts[e + 1][i] \in Since(en, c.epoch, e)

\* The leaves a call is about to remove are condemned.
BadOK(d) == Condemned(trees, entered, revoked, call[d])

\* What is said of one device.
DeviceOK(d) == StateOK(d) /\ CallOK(d) /\ SealOK(d) /\ BadOK(d)

\* The inductive invariant.
IInv == Typed /\ TreesOK /\ Distinct(Tree(Epoch)) /\ PropsOK
        /\ \A d \in Device : DeviceOK(d)

---------------------------------------------------------------------------
\* The epochs are numbered from zero, and each has a tree.
LEMMA EpochNat == TreesOK => /\ Epoch \in Nat /\ Epoch + 1 = Len(trees)
                             /\ \A e \in 0..Epoch : Tree(e) \in ATree
<1> SUFFICES ASSUME TreesOK
             PROVE  /\ Epoch \in Nat /\ Epoch + 1 = Len(trees)
                    /\ \A e \in 0..Epoch : Tree(e) \in ATree
  OBVIOUS
<1>1. Len(trees) \in Nat /\ Len(trees) >= 1 /\ trees \in Seq(ATree)
  BY LenProperties DEF TreesOK
<1>2. Epoch \in Nat /\ Epoch + 1 = Len(trees)
  BY <1>1 DEF Epoch
<1>3. ASSUME NEW e \in 0..Epoch PROVE Tree(e) \in ATree
  <2>1. e + 1 \in 1..Len(trees)
    BY <1>2
  <2>2. QED
    BY <1>1, <2>1, ElementOfSeq DEF Tree
<1>4. QED
  BY <1>2, <1>3

\* Who is a member has a leaf.
LEMMA MembersIn ==
  ASSUME NEW t, NEW x
  PROVE  x \in Members(t) <=> x # Blank /\ \E i \in Leaf : t[i] = x
  BY DEF Members

\* A new epoch leaves the earlier trees alone.
LEMMA Grow ==
  ASSUME TreesOK, NEW t \in ATree, Members(t) # {}, NEW new \in SUBSET Device,
         trees' = Append(trees, t), entered' = Append(entered, new)
  PROVE  /\ TreesOK' /\ Epoch' = Epoch + 1
         /\ \A e \in 0..Epoch : trees'[e + 1] = trees[e + 1]
         /\ trees'[Epoch' + 1] = t
         /\ \A g \in 1..Epoch : entered'[g] = entered[g]
         /\ entered'[Epoch'] = new
<1>1. Epoch \in Nat /\ Epoch + 1 = Len(trees) /\ Len(entered) = Epoch
  BY EpochNat DEF TreesOK
<1>2. /\ trees' \in Seq(ATree) /\ Len(trees') = Len(trees) + 1
      /\ \A k \in 1..Len(trees) : trees'[k] = trees[k]
      /\ trees'[Len(trees) + 1] = t
  BY AppendProperties DEF TreesOK
<1>3. /\ entered' \in Seq(SUBSET Device) /\ Len(entered') = Epoch + 1
      /\ \A k \in 1..Epoch : entered'[k] = entered[k]
      /\ entered'[Epoch + 1] = new
  BY <1>1, AppendProperties DEF TreesOK
<1>4. Epoch' = Epoch + 1
  BY <1>1, <1>2 DEF Epoch
<1>5. \A e \in 0..Epoch : trees'[e + 1] = trees[e + 1]
  BY <1>1, <1>2
<1>6. trees'[Epoch' + 1] = t
  BY <1>1, <1>2, <1>4
<1>7. ASSUME NEW e \in 0..Epoch' PROVE Members(trees'[e + 1]) # {}
  <2>1. CASE e = Epoch'
    BY <1>6, <2>1
  <2>2. CASE e # Epoch'
    <3>1. e \in 0..Epoch
      BY <1>1, <1>4, <2>2
    <3>2. Members(trees[e + 1]) # {}
      BY <3>1 DEF TreesOK, Tree
    <3>3. QED
      BY <1>5, <3>1, <3>2
  <2>3. QED
    BY <2>1, <2>2
<1>8. TreesOK'
  <2>1. Len(trees') >= 1 /\ Len(entered') = Epoch'
    BY <1>1, <1>2, <1>3, <1>4
  <2>2. \A e \in 0..Epoch' : Members(Tree(e))' # {}
    BY <1>7 DEF Tree, Members
  <2>3. QED
    BY <1>2, <1>3, <2>1, <2>2 DEF TreesOK
<1>9. QED
  BY <1>3, <1>4, <1>5, <1>6, <1>8

\* A new epoch adds one tree and one set of entered devices.
LEMMA AppendFacts ==
  ASSUME NEW ts \in Seq(ATree), NEW en \in Seq(SUBSET Device), Len(ts) = Len(en) + 1,
         NEW t \in ATree, NEW new \in SUBSET Device
  PROVE  /\ Len(en) \in Nat /\ Len(Append(en, new)) = Len(en) + 1
         /\ \A e \in 0..Len(en) : Append(ts, t)[e + 1] = ts[e + 1]
         /\ Append(ts, t)[(Len(en) + 1) + 1] = t
         /\ \A a \in Nat : \A e \in 0..Len(en) :
               Since(Append(en, new), a, e) = Since(en, a, e)
         /\ \A a \in 0..Len(en) :
               Since(Append(en, new), a, Len(en) + 1) = Since(en, a, Len(en)) \cup new
<1> DEFINE u == Append(ts, t)
           n == Append(en, new)
           k == Len(en)
<1>1. k \in Nat /\ Len(ts) = k + 1
  BY LenProperties
<1>2. Len(n) = k + 1 /\ n[k + 1] = new /\ \A g \in 1..k : n[g] = en[g]
  BY AppendProperties
<1>3. u[Len(ts) + 1] = t /\ \A g \in 1..Len(ts) : u[g] = ts[g]
  BY AppendProperties
<1> HIDE DEF u, n, k
<1>4. u[(k + 1) + 1] = t /\ \A e \in 0..k : u[e + 1] = ts[e + 1]
  <2>1. \A e \in 0..k : e + 1 \in 1..Len(ts)
    BY <1>1
  <2>2. QED
    BY <1>1, <1>3, <2>1
<1>5. ASSUME NEW a \in Nat, NEW e \in 0..k PROVE Since(n, a, e) = Since(en, a, e)
  <2>1. \A g \in a + 1..e : g \in 1..k
    BY <1>1
  <2>2. \A g \in a + 1..e : n[g] = en[g]
    BY <1>2, <2>1
  <2>3. QED
    BY <2>2 DEF Since
<1>6. ASSUME NEW a \in 0..k PROVE Since(n, a, k + 1) = Since(en, a, k) \cup new
  <2>1. \A g : g \in a + 1..(k + 1) <=> g \in a + 1..k \/ g = k + 1
    BY <1>1
  <2>2. \A g \in a + 1..k : n[g] = en[g]
    BY <1>1, <1>2
  <2>3. QED
    BY <1>2, <2>1, <2>2 DEF Since
<1>7. QED
  BY <1>1, <1>2, <1>4, <1>5, <1>6 DEF u, n, k

\* A commit keeps every leaf in its place, empties it or gives it to a
\* device that enters; what was covered stays covered.
LEMMA CoveredGrow ==
  ASSUME NEW ts \in Seq(ATree), NEW en \in Seq(SUBSET Device), Len(ts) = Len(en) + 1,
         NEW t \in ATree, NEW new \in SUBSET Device,
         \A i \in Leaf : t[i] \in {Blank, ts[Len(en) + 1][i]} \cup new,
         NEW d, NEW c \in CallRecord, c.epoch <= Len(en), NEW f \in Nat, f <= Len(en),
         Covered(ts, en, d, c, f)
  PROVE  Covered(Append(ts, t), Append(en, new), d, c, f)
<1> DEFINE u == Append(ts, t)
           n == Append(en, new)
           k == Len(en)
<1>1. k \in Nat /\ Len(n) = k + 1 /\ c.epoch \in 0..k /\ f \in 0..k /\ c.epoch \in Nat
  <2>1. c.epoch \in Nat
    BY DEF CallRecord
  <2>2. k \in Nat /\ Len(n) = k + 1
    BY AppendFacts
  <2>3. QED
    BY <2>1, <2>2
<1>2. /\ u[(k + 1) + 1] = t /\ \A e \in 0..k : u[e + 1] = ts[e + 1]
      /\ \A e \in 0..k : Since(n, c.epoch, e) = Since(en, c.epoch, e)
      /\ Since(n, c.epoch, k + 1) = Since(en, c.epoch, k) \cup new
  BY <1>1, AppendFacts
<1>3. \A i \in Leaf : t[i] \in {Blank, ts[k + 1][i]} \cup new
  OBVIOUS
<1>4. \A e \in f..k : \A i \in Leaf :
         ts[e + 1][i] \in {Blank, d} \cup c.asked \cup Since(en, c.epoch, e) \/ i \in c.bad
  BY DEF Covered
<1> HIDE DEF u, n, k
<1> SUFFICES ASSUME NEW e \in f..Len(n), NEW i \in Leaf, i \notin c.bad
             PROVE  u[e + 1][i] \in {Blank, d} \cup c.asked \cup Since(n, c.epoch, e)
  BY DEF Covered, u, n
<1>5. CASE e = k + 1
  <2>1. k \in f..k
    BY <1>1
  <2>2. ts[k + 1][i] \in {Blank, d} \cup c.asked \cup Since(en, c.epoch, k)
    BY <1>4, <2>1
  <2>3. u[e + 1] = t /\ Since(n, c.epoch, e) = Since(en, c.epoch, k) \cup new
    BY <1>2, <1>5
  <2>4. QED
    BY <1>3, <2>2, <2>3
<1>6. CASE e # k + 1
  <2>1. e \in f..k /\ e \in 0..k
    BY <1>1, <1>6
  <2>2. QED
    BY <1>2, <1>4, <2>1
<1>7. QED
  BY <1>5, <1>6

\* A commit of the device itself empties the leaves it found bad.
LEMMA CommitCovers ==
  ASSUME NEW ts \in Seq(ATree), NEW en \in Seq(SUBSET Device), Len(ts) = Len(en) + 1,
         NEW t \in ATree, NEW new \in SUBSET Device,
         \A i \in Leaf : t[i] \in {Blank, ts[Len(en) + 1][i]} \cup new,
         NEW d, NEW c \in CallRecord, c.epoch <= Len(en), NEW f \in Nat, f <= Len(en),
         Covered(ts, en, d, c, f), \A i \in c.bad : t[i] = Blank,
         NEW b \in CallRecord, b.asked = c.asked, b.epoch = c.epoch
  PROVE  Covered(Append(ts, t), Append(en, new), d, b, Len(en) + 1)
<1>1. Covered(Append(ts, t), Append(en, new), d, c, f)
  BY CoveredGrow
<1>2. /\ Len(Append(en, new)) = Len(en) + 1 /\ Len(en) \in Nat
      /\ Append(ts, t)[(Len(en) + 1) + 1] = t
  BY AppendFacts
<1> SUFFICES ASSUME NEW e \in (Len(en) + 1)..Len(Append(en, new)), NEW i \in Leaf
             PROVE  Append(ts, t)[e + 1][i]
                       \in {Blank, d} \cup b.asked \cup Since(Append(en, new), b.epoch, e)
  BY DEF Covered
<1>3. e = Len(en) + 1 /\ e \in f..Len(Append(en, new))
  BY <1>2
<1>4. \/ Append(ts, t)[e + 1][i]
            \in {Blank, d} \cup c.asked \cup Since(Append(en, new), c.epoch, e)
      \/ i \in c.bad
  BY <1>1, <1>3 DEF Covered
<1>5. CASE i \in c.bad
  BY <1>2, <1>3, <1>5
<1>6. QED
  BY <1>4, <1>5

\* The reasons stay too, as a revocation is final.
LEMMA CondemnedGrow ==
  ASSUME NEW ts \in Seq(ATree), NEW en \in Seq(SUBSET Device), Len(ts) = Len(en) + 1,
         NEW t \in ATree, NEW new \in SUBSET Device,
         \A i \in Leaf : t[i] \in {Blank, ts[Len(en) + 1][i]} \cup new,
         NEW rv, NEW c \in CallRecord, c.epoch <= Len(en), Condemned(ts, en, rv, c)
  PROVE  Condemned(Append(ts, t), Append(en, new), rv, c)
<1> DEFINE u == Append(ts, t)
           n == Append(en, new)
           k == Len(en)
<1>1. k \in Nat /\ Len(n) = k + 1 /\ c.epoch \in 0..k /\ c.epoch \in Nat
  <2>1. c.epoch \in Nat
    BY DEF CallRecord
  <2>2. k \in Nat /\ Len(n) = k + 1
    BY AppendFacts
  <2>3. QED
    BY <2>1, <2>2
<1>2. /\ u[(k + 1) + 1] = t /\ \A e \in 0..k : u[e + 1] = ts[e + 1]
      /\ \A e \in 0..k : Since(n, c.epoch, e) = Since(en, c.epoch, e)
      /\ Since(n, c.epoch, k + 1) = Since(en, c.epoch, k) \cup new
  BY <1>1, AppendFacts
<1>3. \A i \in Leaf : t[i] \in {Blank, ts[k + 1][i]} \cup new
  OBVIOUS
<1>4. \A e \in c.epoch..k : \A i \in c.bad :
         \/ ts[e + 1][i] = Blank \/ ts[e + 1][i] \notin c.asked
         \/ ts[e + 1][i] \in rv \/ ts[e + 1][i] \in Since(en, c.epoch, e)
  BY DEF Condemned
<1>5. c.bad \subseteq Leaf
  BY DEF CallRecord
<1> HIDE DEF u, n, k
<1> SUFFICES ASSUME NEW e \in c.epoch..Len(n), NEW i \in c.bad
             PROVE  \/ u[e + 1][i] = Blank \/ u[e + 1][i] \notin c.asked
                    \/ u[e + 1][i] \in rv \/ u[e + 1][i] \in Since(n, c.epoch, e)
  BY DEF Condemned, u, n
<1>6. CASE e = k + 1
  <2>1. k \in c.epoch..k
    BY <1>1
  <2>2. \/ ts[k + 1][i] = Blank \/ ts[k + 1][i] \notin c.asked
        \/ ts[k + 1][i] \in rv \/ ts[k + 1][i] \in Since(en, c.epoch, k)
    BY <1>4, <2>1
  <2>3. u[e + 1] = t /\ Since(n, c.epoch, e) = Since(en, c.epoch, k) \cup new
    BY <1>2, <1>6
  <2>4. QED
    BY <1>3, <1>5, <2>2, <2>3
<1>7. CASE e # k + 1
  <2>1. e \in c.epoch..k /\ e \in 0..k
    BY <1>1, <1>7
  <2>2. QED
    BY <1>2, <1>4, <2>1
<1>8. QED
  BY <1>6, <1>7

\* Placing devices: nobody else moves, everybody new has one leaf.
LEMMA WithFacts ==
  ASSUME NEW t \in ATree, NEW new \in SUBSET Device, NEW u \in With(new, t)
  PROVE  /\ u \in ATree
         /\ \A i \in Leaf : t[i] # Blank => u[i] = t[i]
         /\ \A i \in Leaf : t[i] = Blank => u[i] \in new \cup {Blank}
         /\ \A x \in new : \E i \in Leaf : u[i] = x
         /\ Distinct(t) /\ (\A i \in Leaf : t[i] \notin new) => Distinct(u)
<1>1. PICK f \in Placements(t, new) : u = [i \in Leaf |-> IF t[i] = Blank THEN f[i] ELSE t[i]]
  BY DEF With
<1>2. /\ f \in [LeavesOf(t, Blank) -> new \cup {Blank}]
      /\ \A x \in new : \E i \in LeavesOf(t, Blank) : f[i] = x
      /\ \A i, j \in LeavesOf(t, Blank) : i < j => f[j] = Blank \/ f[i] \notin {Blank, f[j]}
  BY DEF Placements
<1>3. \A i : i \in LeavesOf(t, Blank) <=> i \in Leaf /\ t[i] = Blank
  BY DEF LeavesOf
<1>4. \A i \in Leaf : t[i] # Blank => u[i] = t[i]
  BY <1>1
<1>5. \A i \in Leaf : t[i] = Blank => u[i] = f[i] /\ u[i] \in new \cup {Blank}
  BY <1>1, <1>2, <1>3
<1>6. u \in ATree
  <2>1. \A i \in Leaf : u[i] \in Device \cup {Blank}
    BY <1>4, <1>5 DEF ATree
  <2>2. u = [i \in Leaf |-> u[i]]
    BY <1>1
  <2>3. QED
    BY <2>1, <2>2 DEF ATree
<1>7. \A x \in new : \E i \in Leaf : u[i] = x
  BY <1>2, <1>3, <1>5
<1>8. ASSUME Distinct(t), \A i \in Leaf : t[i] \notin new,
             NEW i \in Leaf, NEW j \in Leaf, u[i] = u[j], u[i] # Blank, i # j
      PROVE  FALSE
  <2>1. i \in Int /\ j \in Int /\ (i < j \/ j < i)
    BY <1>8, RoomAssumption DEF Leaf, RoomAssumption
  <2>2. CASE t[i] = Blank /\ t[j] = Blank
    <3>1. i \in LeavesOf(t, Blank) /\ j \in LeavesOf(t, Blank) /\ f[i] = f[j] /\ f[i] # Blank
      BY <1>3, <1>5, <1>8, <2>2
    <3>2. QED
      BY <1>2, <2>1, <3>1
  <2>3. CASE t[i] # Blank /\ t[j] # Blank
    BY <1>4, <1>8, <2>3 DEF Distinct
  <2>4. CASE t[i] = Blank /\ t[j] # Blank
    BY <1>4, <1>5, <1>8, <2>4
  <2>5. CASE t[i] # Blank /\ t[j] = Blank
    BY <1>4, <1>5, <1>8, <2>5
  <2>6. QED
    BY <2>2, <2>3, <2>4, <2>5
<1>9. QED
  BY <1>4, <1>5, <1>6, <1>7, <1>8 DEF Distinct
---------------------------------------------------------------------------
\* What a device knows is not disturbed by a step that leaves the trees.
LEMMA KeptSame ==
  ASSUME IInv, NEW x \in Device, trees' = trees, entered' = entered,
         st'[x] = st[x], at'[x] = at[x], pend'[x] = pend[x],
         welcome'[x] = welcome[x], call'[x] = call[x], revoked \subseteq revoked',
         \A y \in Device : st[y] = "gone" => st'[y] = "gone"
  PROVE  DeviceOK(x)'
<1>1. DeviceOK(x)
  BY DEF IInv
<1>2. Epoch' = Epoch
  BY DEF Epoch
<1>3. StateOK(x)'
  BY <1>1, <1>2 DEF DeviceOK, StateOK, Tree, Members
<1>4. CallOK(x)'
  BY <1>1 DEF DeviceOK, CallOK
<1>5. SealOK(x)'
  BY <1>1 DEF DeviceOK, SealOK, Checked, From
<1>6. BadOK(x)'
  BY <1>1 DEF DeviceOK, BadOK, Condemned
<1>7. QED
  BY <1>3, <1>4, <1>5, <1>6 DEF DeviceOK

\* A step of device d that leaves the trees.
LEMMA LocalStep ==
  ASSUME IInv, NEW d \in Device, Typed', PropsOK', DeviceOK(d)',
         trees' = trees, entered' = entered, revoked \subseteq revoked',
         \A y \in Device : st[y] = "gone" => st'[y] = "gone",
         \A x \in Device \ {d} :
            /\ st'[x] = st[x] /\ at'[x] = at[x] /\ pend'[x] = pend[x]
            /\ welcome'[x] = welcome[x] /\ call'[x] = call[x]
  PROVE  IInv'
<1>1. TreesOK'
  <2>1. Epoch' = Epoch
    BY DEF Epoch
  <2>2. \A e : Tree(e)' = Tree(e)
    BY DEF Tree
  <2>3. \A e \in 0..Epoch : Members(Tree(e)') # {}
    BY <2>2 DEF IInv, TreesOK
  <2>4. \A e : Members(Tree(e))' = Members(Tree(e)')
    BY DEF Members
  <2>5. QED
    BY <2>1, <2>3, <2>4 DEF IInv, TreesOK
<1>2. Distinct(Tree(Epoch))'
  BY DEF IInv, Tree, Epoch, Distinct
<1>3. ASSUME NEW x \in Device PROVE DeviceOK(x)'
  <2>1. CASE x = d
    BY <2>1
  <2>2. CASE x # d
    BY <2>2, KeptSame
  <2>3. QED
    BY <2>1, <2>2
<1>4. QED
  BY <1>1, <1>2, <1>3 DEF IInv

\* A commit leaves what the other devices know.
LEMMA KeptGrow ==
  ASSUME IInv, NEW x \in Device, NEW t \in ATree, Members(t) # {}, NEW new \in SUBSET Device,
         trees' = Append(trees, t), entered' = Append(entered, new),
         \A i \in Leaf : t[i] \in {Blank, Tree(Epoch)[i]} \cup new,
         st'[x] = st[x], at'[x] = at[x], pend'[x] = pend[x], call'[x] = call[x],
         \/ welcome'[x] = welcome[x]
         \/ welcome'[x] = Epoch + 1 /\ x \in Members(t),
         revoked' = revoked,
         \A y \in Device : st[y] = "gone" => st'[y] = "gone"
  PROVE  DeviceOK(x)'
<1>1. DeviceOK(x) /\ TreesOK /\ Typed
  BY DEF IInv
<1>2. /\ Epoch \in Nat /\ Epoch' = Epoch + 1 /\ trees'[Epoch' + 1] = t
      /\ \A e \in 0..Epoch : trees'[e + 1] = trees[e + 1]
  BY <1>1, Grow, EpochNat
<1>3. /\ trees \in Seq(ATree) /\ entered \in Seq(SUBSET Device)
      /\ Len(trees) = Len(entered) + 1 /\ Len(entered) = Epoch
      /\ Tree(Epoch) = trees[Len(entered) + 1]
  BY <1>1, EpochNat DEF TreesOK, Tree
<1>4. /\ call[x] \in CallRecord /\ call[x].epoch \in Nat /\ at[x] \in Nat /\ welcome[x] \in Nat
      /\ pend[x] \subseteq Leaf
  BY <1>1 DEF Typed, CallRecord
<1>5. at[x] \in 0..Epoch /\ call[x].epoch <= Epoch /\ welcome[x] \in 0..Epoch
  BY <1>1, <1>2, <1>4 DEF DeviceOK, StateOK
<1>6. StateOK(x)'
  <2>1. at'[x] <= Epoch' /\ welcome'[x] <= Epoch' /\ call'[x].epoch <= Epoch'
    <3>1. at'[x] <= Epoch' /\ call'[x].epoch <= Epoch'
      BY <1>2, <1>4, <1>5
    <3>2. welcome[x] <= Epoch' /\ Epoch + 1 <= Epoch'
      BY <1>2, <1>5
    <3>3. welcome'[x] \in {welcome[x], Epoch + 1}
      OBVIOUS
    <3>4. QED
      BY <3>1, <3>2, <3>3
  <2>2. trees'[at'[x] + 1] = trees[at[x] + 1]
    BY <1>2, <1>5
  <2>3. st'[x] = "in" => x \in Members(trees'[at'[x] + 1])
    BY <1>1, <2>2 DEF DeviceOK, StateOK, Tree
  <2>4. welcome'[x] # 0 => x \in Members(trees'[welcome'[x] + 1])
    <3>1. CASE welcome'[x] = welcome[x]
      <4>1. trees'[welcome'[x] + 1] = trees[welcome[x] + 1]
        BY <1>2, <1>5, <3>1
      <4>2. QED
        BY <1>1, <3>1, <4>1 DEF DeviceOK, StateOK, Tree
    <3>2. CASE welcome'[x] = Epoch + 1 /\ x \in Members(t)
      BY <1>2, <3>2
    <3>3. QED
      BY <3>1, <3>2
  <2>5. \A i \in pend'[x] : /\ trees'[at'[x] + 1][i] \in Device
                            /\ st'[trees'[at'[x] + 1][i]] = "gone"
    BY <1>1, <2>2 DEF DeviceOK, StateOK, Tree
  <2>6. QED
    BY <2>1, <2>3, <2>4, <2>5 DEF StateOK, Tree, Members
<1>7. CallOK(x)'
  BY <1>1 DEF DeviceOK, CallOK
<1>8. SealOK(x)'
  <2>1. Checked(x)' = Checked(x) /\ From(x)' = From(x) /\ From(x) \in Nat /\ From(x) <= Epoch
    BY <1>4, <1>5 DEF Checked, From
  <2>2. ASSUME Checked(x) PROVE Covered(trees', entered', x, call[x], From(x))
    <3>1. Covered(trees, entered, x, call[x], From(x))
      BY <1>1, <2>2 DEF DeviceOK, SealOK
    <3>2. QED
      BY <1>3, <1>4, <1>5, <2>1, <3>1, CoveredGrow
  <2>3. Checked(x) => (st[x] = "in" => call[x].epoch <= at[x])
    BY <1>1 DEF DeviceOK, SealOK
  <2>4. QED
    BY <2>1, <2>2, <2>3 DEF SealOK
<1>9. BadOK(x)'
  <2>1. Condemned(trees, entered, revoked, call[x])
    BY <1>1 DEF DeviceOK, BadOK
  <2>2. Condemned(trees', entered', revoked, call[x])
    BY <1>3, <1>4, <1>5, <2>1, CondemnedGrow
  <2>3. QED
    BY <2>2 DEF BadOK
<1>10. QED
  BY <1>6, <1>7, <1>8, <1>9 DEF DeviceOK

\* A commit of device d, by itself or to join.
LEMMA AcceptStep ==
  ASSUME IInv, NEW d \in Device, NEW t \in ATree, NEW new \in SUBSET Device,
         Accept(d, t, new), d \in Members(t), Distinct(t),
         \A i \in Leaf : t[i] \in {Blank, Tree(Epoch)[i]} \cup new,
         st[d] # "gone", st' = [st EXCEPT ![d] = "in"], UNCHANGED chainVars,
         welcome' \in [Device -> Nat],
         \A x \in Device : \/ welcome'[x] = welcome[x]
                           \/ welcome'[x] = Epoch + 1 /\ x \in Members(t),
         NEW c \in CallRecord, call' = [call EXCEPT ![d] = c], c.epoch <= Epoch + 1,
         (CallOK(d) /\ SealOK(d) /\ BadOK(d))'
  PROVE  IInv'
<1>1. TreesOK /\ Typed /\ DeviceOK(d) /\ Epoch \in Nat
  BY EpochNat DEF IInv
<1>2. /\ trees' = Append(trees, t) /\ entered' = Append(entered, new) /\ props' = {}
      /\ at' = [at EXCEPT ![d] = Epoch + 1] /\ pend' = [pend EXCEPT ![d] = {}]
      /\ Members(t) # {} /\ revoked' = revoked
  BY DEF Accept, chainVars
<1>3. /\ TreesOK' /\ Epoch' = Epoch + 1 /\ trees'[Epoch' + 1] = t
      /\ \A e \in 0..Epoch : trees'[e + 1] = trees[e + 1]
  BY <1>1, <1>2, Grow
<1>4. Typed'
  <2>1. readers' = readers /\ gate' = gate /\ revoked' = revoked
    BY DEF chainVars
  <2>2. at' \in [Device -> Nat] /\ pend' \in [Device -> SUBSET Leaf]
    BY <1>1, <1>2 DEF Typed
  <2>3. st' \in [Device -> {"in", "stuck", "none", "gone"}] /\ call' \in [Device -> CallRecord]
    BY <1>1 DEF Typed
  <2>4. QED
    BY <1>1, <1>2, <2>1, <2>2, <2>3 DEF Typed
<1>5. Distinct(Tree(Epoch))'
  BY <1>3 DEF Tree, Distinct
<1>6. PropsOK'
  BY <1>2 DEF PropsOK
<1>7. \A y \in Device : st[y] = "gone" => st'[y] = "gone"
  BY <1>1 DEF Typed
<1>8. ASSUME NEW x \in Device PROVE DeviceOK(x)'
  <2>1. CASE x = d
    <3>1. at'[d] = Epoch + 1 /\ pend'[d] = {} /\ call'[d] = c /\ welcome'[d] \in Nat
      BY <1>1, <1>2 DEF Typed
    <3>2. at'[d] <= Epoch' /\ call'[d].epoch <= Epoch'
      BY <1>1, <1>3, <3>1
    <3>3. welcome'[d] <= Epoch' /\ (welcome'[d] # 0 => d \in Members(trees'[welcome'[d] + 1]))
      <4>1. CASE welcome'[d] = welcome[d]
        <5>1. welcome[d] \in 0..Epoch /\ (welcome[d] # 0 => d \in Members(trees[welcome[d] + 1]))
          BY <1>1 DEF DeviceOK, StateOK, Typed, Tree
        <5>2. QED
          BY <1>1, <1>3, <4>1, <5>1
      <4>2. CASE welcome'[d] = Epoch + 1
        BY <1>1, <1>3, <4>2
      <4>3. QED
        BY <4>1, <4>2
    <3>4. StateOK(d)'
      <4>1. d \in Members(trees'[at'[d] + 1])
        BY <1>3, <3>1
      <4>2. QED
        BY <3>1, <3>2, <3>3, <4>1 DEF StateOK, Tree, Members
    <3>5. QED
      BY <2>1, <3>4 DEF DeviceOK
  <2>2. CASE x # d
    <3>1. /\ st'[x] = st[x] /\ at'[x] = at[x] /\ pend'[x] = pend[x] /\ call'[x] = call[x]
      BY <1>1, <1>2, <2>2 DEF Typed
    <3>2. QED
      BY <1>2, <1>7, <3>1, KeptGrow
  <2>3. QED
    BY <2>1, <2>2
<1>9. QED
  BY <1>3, <1>4, <1>5, <1>6, <1>8 DEF IInv

---------------------------------------------------------------------------
\* Steps of the chain and of the relayer's copy of it.
LEMMA ChainStep ==
  ASSUME IInv, Typed', UNCHANGED <<groupVars, deviceVars, call>>, revoked \subseteq revoked'
  PROVE  IInv'
<1>1. /\ trees' = trees /\ entered' = entered /\ props' = props /\ welcome' = welcome
      /\ st' = st /\ at' = at /\ pend' = pend /\ call' = call
  BY DEF groupVars, deviceVars
<1>2. Epoch' = Epoch /\ \A e : Tree(e)' = Tree(e)
  BY <1>1 DEF Epoch, Tree
<1>3. \A e : Members(Tree(e))' = Members(Tree(e)')
  BY DEF Members
<1>4. TreesOK'
  BY <1>1, <1>2, <1>3 DEF IInv, TreesOK
<1>5. Distinct(Tree(Epoch))' /\ PropsOK'
  BY <1>1 DEF IInv, Distinct, PropsOK, Tree, Epoch
<1>6. \A x \in Device : DeviceOK(x)'
  BY <1>1, KeptSame
<1>7. QED
  BY <1>4, <1>5, <1>6 DEF IInv

\* A permission granted or revoked, the relayer that follows, a revocation
\* in the registry: the group is not touched.
LEMMA ChainIInv ==
  ASSUME IInv, \/ FollowChain \/ (\E d \in Device : SetReader(d) \/ revokeByDevice(d))
               \/ UNCHANGED vars
  PROVE  IInv'
<1>1. UNCHANGED <<groupVars, deviceVars, call>> /\ revoked \subseteq revoked'
  BY DEF FollowChain, SetReader, revokeByDevice, vars, chainVars
<1>2. readers' \subseteq Device /\ gate' \subseteq Device /\ revoked' \subseteq Device
  BY DEF FollowChain, SetReader, revokeByDevice, vars, chainVars, IInv, Typed
<1>3. Typed'
  BY <1>1, <1>2 DEF IInv, Typed, groupVars, deviceVars
<1>4. QED
  BY <1>1, <1>3, ChainStep

\* A step that changes the record of a call only.
LEMMA CallStep ==
  ASSUME IInv, NEW d \in Device, UNCHANGED <<chainVars, groupVars, deviceVars>>,
         NEW c \in CallRecord, c.epoch <= Epoch, call' = [call EXCEPT ![d] = c],
         (CallOK(d) /\ SealOK(d) /\ BadOK(d))'
  PROVE  IInv'
<1>1. /\ trees' = trees /\ entered' = entered /\ props' = props /\ welcome' = welcome
      /\ st' = st /\ at' = at /\ pend' = pend
      /\ readers' = readers /\ gate' = gate /\ revoked' = revoked
  BY DEF chainVars, groupVars, deviceVars
<1>2. call \in [Device -> CallRecord] /\ call'[d] = c
  BY DEF IInv, Typed
<1>3. Typed'
  BY <1>1, <1>2 DEF IInv, Typed
<1>4. PropsOK'
  BY <1>1 DEF IInv, PropsOK, Tree, Epoch
<1>5. StateOK(d)'
  <2>1. StateOK(d) /\ Epoch' = Epoch
    BY <1>1 DEF IInv, DeviceOK, Epoch
  <2>2. QED
    BY <1>1, <1>2, <2>1 DEF StateOK, Tree, Members
<1>6. DeviceOK(d)'
  BY <1>5 DEF DeviceOK
<1>7. \A x \in Device \ {d} : call'[x] = call[x]
  BY <1>2
<1>8. QED
  BY <1>1, <1>3, <1>4, <1>6, <1>7, LocalStep

\* The record of a session without a call.
LEMMA NoOpFacts ==
  /\ NoOp \in CallRecord /\ NoOp.epoch = 0 /\ NoOp.pc = "idle" /\ NoOp.next = "idle"
  /\ NoOp.bad = {} /\ NoOp.asked = {} /\ NoOp.unknown = FALSE
  BY DEF NoOp, CallRecord, Pc

\* A device without a call satisfies what is said of calls.
LEMMA IdleOK ==
  ASSUME NEW d \in Device, call'[d] = NoOp
  PROVE  (CallOK(d) /\ SealOK(d) /\ BadOK(d))'
<1>1. CallOK(d)'
  BY NoOpFacts DEF CallOK
<1>2. SealOK(d)'
  BY NoOpFacts DEF SealOK, Checked
<1>3. BadOK(d)'
  BY NoOpFacts DEF BadOK, Condemned
<1>4. QED
  BY <1>1, <1>2, <1>3

\* The calls that end without having changed anything else.
LEMMA EndIInv ==
  ASSUME IInv, NEW d \in Device,
         \/ resyncRefused(d) \/ rejoinRefused(d) \/ commitFails(d) \/ removeThrows(d)
         \/ encrypt(d) \/ paused(d) \/ nothingToAdd(d)
  PROVE  IInv'
<1>1. call' = [call EXCEPT ![d] = NoOp] /\ UNCHANGED <<chainVars, groupVars, deviceVars>>
  BY DEF resyncRefused, rejoinRefused, commitFails, removeThrows, encrypt, paused,
         nothingToAdd, End, Call
<1>2. call'[d] = NoOp /\ Epoch \in Nat
  BY <1>1, EpochNat DEF IInv, Typed
<1>3. (CallOK(d) /\ SealOK(d) /\ BadOK(d))'
  BY <1>2, IdleOK
<1>4. NoOp.epoch <= Epoch /\ NoOp \in CallRecord
  BY <1>2, NoOpFacts
<1>5. QED
  BY <1>1, <1>3, <1>4, CallStep

\* A send and an add begin with a record of what was read.
LEMMA BeginIInv ==
  ASSUME IInv, NEW d \in Device, sendEnvelope(d) \/ addWallets(d)
  PROVE  IInv'
<1>1. PICK c \in CallRecord : /\ call' = [call EXCEPT ![d] = c]
                              /\ c.bad = {} /\ c.epoch <= Epoch
                              /\ \/ c.pc = "sync" /\ c.next = "check"
                                 \/ c.pc = "add" /\ c.next = "idle"
  <2>1. CASE sendEnvelope(d)
    <3> DEFINE c == [NoOp EXCEPT !.pc = "sync", !.next = "check", !.asked = readers]
    <3>1. call' = [call EXCEPT ![d] = c]
      BY <2>1 DEF sendEnvelope, Call
    <3>2. readers \subseteq Device /\ Epoch \in Nat
      BY EpochNat DEF IInv, Typed
    <3>3. /\ c \in CallRecord /\ c.bad = {} /\ c.epoch = 0
          /\ c.pc = "sync" /\ c.next = "check"
      BY <3>2 DEF NoOp, CallRecord, Pc
    <3> HIDE DEF c
    <3>4. c.epoch <= Epoch
      BY <3>2, <3>3
    <3>5. QED
      BY <3>1, <3>3, <3>4
  <2>2. CASE addWallets(d)
    <3>1. PICK usable \in SUBSET Device :
            call' = [call EXCEPT ![d] = [NoOp EXCEPT !.pc = "add", !.asked = usable,
                                                     !.epoch = at[d]]]
      BY <2>2 DEF addWallets, Call, IInv, Typed
    <3> DEFINE c == [NoOp EXCEPT !.pc = "add", !.asked = usable, !.epoch = at[d]]
    <3>2. at[d] \in Nat /\ at[d] <= Epoch
      BY DEF IInv, Typed, DeviceOK, StateOK
    <3>3. /\ c \in CallRecord /\ c.bad = {} /\ c.epoch = at[d]
          /\ c.pc = "add" /\ c.next = "idle"
      BY <3>2 DEF NoOp, CallRecord, Pc
    <3> HIDE DEF c
    <3>4. QED
      BY <3>1, <3>2, <3>3 DEF c
  <2>3. QED
    BY <2>1, <2>2
<1>2. st[d] = "in" /\ UNCHANGED <<chainVars, groupVars, deviceVars>>
  BY DEF sendEnvelope, addWallets
<1>3. call'[d] = c /\ st' = st
  BY <1>1, <1>2 DEF IInv, Typed, deviceVars
<1>4. CallOK(d)' /\ SealOK(d)' /\ BadOK(d)'
  BY <1>1, <1>2, <1>3 DEF CallOK, SealOK, Checked, BadOK, Condemned
<1>5. QED
  BY <1>1, <1>2, <1>4, CallStep

\* A lost race: the step is kept and built again after a catch-up.
LEMMA LostIInv ==
  ASSUME IInv, NEW d \in Device, removeLost(d) \/ addLost(d)
  PROVE  IInv'
<1> DEFINE c == [call[d] EXCEPT !.pc = "sync", !.next = call[d].pc]
<1>1. /\ call' = [call EXCEPT ![d] = c] /\ UNCHANGED <<chainVars, groupVars, deviceVars>>
      /\ call[d].pc \in {"remove", "pending", "add"}
  BY DEF removeLost, addLost, Loses, IInv, Typed
<1>2. call[d] \in CallRecord /\ DeviceOK(d)
  BY DEF IInv, Typed
<1>3. /\ c \in CallRecord /\ c.pc = "sync" /\ c.next = call[d].pc
      /\ c.bad = call[d].bad /\ c.epoch = call[d].epoch /\ c.asked = call[d].asked
  <2>1. \A p \in Pc : [call[d] EXCEPT !.pc = "sync", !.next = p] \in CallRecord
    BY <1>2 DEF CallRecord, Pc
  <2>2. call[d].pc \in Pc
    BY <1>2 DEF CallRecord
  <2>3. c \in CallRecord
    BY <2>1, <2>2
  <2>4. QED
    BY <1>2, <2>3 DEF CallRecord
<1> HIDE DEF c
<1>4. /\ call'[d] = c /\ st' = st /\ at' = at /\ trees' = trees /\ entered' = entered
      /\ revoked' = revoked
  BY <1>1 DEF IInv, Typed, deviceVars, groupVars, chainVars
<1>5. st[d] = "in" /\ call[d].next = "idle" /\ c.epoch <= Epoch
  BY <1>1, <1>2, <1>3 DEF DeviceOK, CallOK, StateOK
<1>6. CallOK(d)'
  BY <1>1, <1>2, <1>3, <1>4, <1>5 DEF DeviceOK, CallOK
<1>7. SealOK(d)'
  <2>1. Checked(d)' => Checked(d)
    BY <1>1, <1>3, <1>4 DEF Checked
  <2>2. From(d)' = call[d].epoch /\ From(d) = call[d].epoch
    BY <1>1, <1>3, <1>4 DEF From
  <2>3. Covered(trees, entered, d, call[d], call[d].epoch)
           => Covered(trees, entered, d, c, call[d].epoch)
    BY <1>3 DEF Covered
  <2>4. QED
    BY <1>2, <1>3, <1>4, <2>1, <2>2, <2>3 DEF DeviceOK, SealOK
<1>8. BadOK(d)'
  BY <1>2, <1>3, <1>4 DEF DeviceOK, BadOK, Condemned
<1>9. QED
  BY <1>1, <1>3, <1>5, <1>6, <1>7, <1>8, CallStep

\* Nothing is left to commit: the trees from the device's own on are
\* covered.
LEMMA NothingIInv ==
  ASSUME IInv, NEW d \in Device, nothingPending(d)
  PROVE  IInv'
<1> DEFINE c == [call[d] EXCEPT !.pc = "encrypt"]
<1>1. /\ call' = [call EXCEPT ![d] = c] /\ UNCHANGED <<chainVars, groupVars, deviceVars>>
      /\ call[d].pc = "pending"
  BY DEF nothingPending, Goto, IInv, Typed
<1>2. call[d] \in CallRecord /\ DeviceOK(d) /\ at[d] \in Nat
  BY DEF IInv, Typed
<1>3. /\ c \in CallRecord /\ c.pc = "encrypt" /\ c.next = call[d].next
      /\ c.bad = call[d].bad /\ c.epoch = call[d].epoch /\ c.asked = call[d].asked
  BY <1>2 DEF CallRecord, Pc
<1> HIDE DEF c
<1>4. /\ call'[d] = c /\ st' = st /\ at' = at /\ trees' = trees /\ entered' = entered
      /\ revoked' = revoked
  BY <1>1 DEF IInv, Typed, deviceVars, groupVars, chainVars
<1>5. /\ st[d] = "in" /\ call[d].next = "idle" /\ c.epoch <= Epoch /\ call[d].bad = {}
  BY <1>1, <1>2, <1>3 DEF DeviceOK, CallOK, StateOK
<1>6. CallOK(d)'
  BY <1>3, <1>4, <1>5 DEF CallOK
<1>7. SealOK(d)'
  <2>1. Checked(d) /\ From(d) = call[d].epoch /\ From(d)' = at[d]
    BY <1>1, <1>3, <1>4 DEF Checked, From
  <2>2. call[d].epoch <= at[d] /\ Covered(trees, entered, d, call[d], call[d].epoch)
    BY <1>2, <1>5, <2>1 DEF DeviceOK, SealOK
  <2>3. call[d].epoch \in Nat
    BY <1>2 DEF CallRecord
  <2>4. \A e \in at[d]..Len(entered) : e \in call[d].epoch..Len(entered)
    BY <1>2, <2>2, <2>3
  <2>5. Covered(trees, entered, d, c, at[d])
    BY <1>3, <2>2, <2>4 DEF Covered
  <2>6. QED
    BY <1>3, <1>4, <2>1, <2>2, <2>5 DEF SealOK
<1>8. BadOK(d)'
  BY <1>3, <1>4, <1>5 DEF BadOK, Condemned
<1>9. QED
  BY <1>1, <1>3, <1>5, <1>6, <1>7, <1>8, CallStep

---------------------------------------------------------------------------
\* A session that has caught up is in the last tree.
LEMMA CatchUpStep ==
  ASSUME IInv, NEW d \in Device, st[d] = "in", Removal(d) = {},
         UNCHANGED <<chainVars, groupVars, st>>,
         at' = [at EXCEPT ![d] = Epoch], pend' = [pend EXCEPT ![d] = props],
         NEW c \in CallRecord, c.epoch <= Epoch, call' = [call EXCEPT ![d] = c],
         (CallOK(d) /\ SealOK(d) /\ BadOK(d))'
  PROVE  IInv'
<1>1. /\ trees' = trees /\ entered' = entered /\ props' = props /\ welcome' = welcome
      /\ st' = st /\ readers' = readers /\ gate' = gate /\ revoked' = revoked
  BY DEF chainVars, groupVars
<1>2. Typed /\ DeviceOK(d) /\ Epoch \in Nat /\ Epoch' = Epoch
  BY <1>1, EpochNat DEF IInv, Epoch
<1>3. Typed'
  BY <1>1, <1>2 DEF Typed
<1>4. at'[d] = Epoch /\ pend'[d] = props /\ call'[d] = c
  BY <1>2 DEF Typed
<1>5. PropsOK'
  BY <1>1 DEF IInv, PropsOK, Tree, Epoch
<1>6. d \in Members(Tree(Epoch))
  <2>1. at[d] \in Nat /\ at[d] <= Epoch /\ d \in Members(Tree(at[d]))
    BY <1>2 DEF Typed, DeviceOK, StateOK
  <2>2. CASE at[d] = Epoch
    BY <2>1, <2>2
  <2>3. CASE at[d] # Epoch
    <3>1. Epoch \in at[d] + 1..Epoch
      BY <1>2, <2>1, <2>3
    <3>2. QED
      BY <3>1 DEF Removal
  <2>4. QED
    BY <2>2, <2>3
<1>7. StateOK(d)'
  <2>1. d \in Members(trees'[at'[d] + 1])
    BY <1>1, <1>4, <1>6 DEF Tree
  <2>2. \A i \in pend'[d] : trees'[at'[d] + 1][i] \in Device
                            /\ st'[trees'[at'[d] + 1][i]] = "gone"
    BY <1>1, <1>4 DEF IInv, PropsOK, Tree
  <2>3. welcome'[d] <= Epoch' /\ (welcome'[d] # 0 => d \in Members(trees'[welcome'[d] + 1]))
    BY <1>1, <1>2 DEF DeviceOK, StateOK, Tree
  <2>4. at'[d] <= Epoch' /\ call'[d].epoch <= Epoch'
    BY <1>2, <1>4
  <2>5. QED
    BY <2>1, <2>2, <2>3, <2>4 DEF StateOK, Tree, Members
<1>8. DeviceOK(d)'
  BY <1>7 DEF DeviceOK
<1>9. \A x \in Device \ {d} : at'[x] = at[x] /\ pend'[x] = pend[x] /\ call'[x] = call[x]
  BY <1>2 DEF Typed
<1>10. QED
  BY <1>1, <1>3, <1>5, <1>8, <1>9, LocalStep

\* A catch-up ends in the last tree and goes on with the step that was lost.
LEMMA SyncIInv ==
  ASSUME IInv, NEW d \in Device, syncLoop(d)
  PROVE  IInv'
<1> DEFINE c == [call[d] EXCEPT !.pc = call[d].next, !.next = "idle"]
<1>1. /\ st[d] = "in" /\ Removal(d) = {} /\ call[d].pc \in {"sync", "idle"}
      /\ call[d].next # "check"
      /\ UNCHANGED <<chainVars, groupVars, st>>
      /\ at' = [at EXCEPT ![d] = Epoch] /\ pend' = [pend EXCEPT ![d] = props]
      /\ call' = [call EXCEPT ![d] = c]
  BY DEF syncLoop, Following, Call
<1>2. call[d] \in CallRecord /\ DeviceOK(d) /\ Epoch \in Nat
  BY EpochNat DEF IInv, Typed
<1>3. call[d].next \in {"idle", "remove", "pending", "add"}
  BY <1>1, <1>2 DEF DeviceOK, CallOK
<1>4. /\ c \in CallRecord /\ c.pc = call[d].next /\ c.next = "idle"
      /\ c.bad = call[d].bad /\ c.epoch = call[d].epoch /\ c.asked = call[d].asked
  <2>1. \A p \in Pc : [call[d] EXCEPT !.pc = p, !.next = "idle"] \in CallRecord
    BY <1>2 DEF CallRecord, Pc
  <2>2. call[d].next \in Pc
    BY <1>3 DEF Pc
  <2>3. c \in CallRecord
    BY <2>1, <2>2
  <2>4. QED
    BY <1>2, <2>3 DEF CallRecord
<1> HIDE DEF c
<1>5. /\ call'[d] = c /\ st' = st /\ at'[d] = Epoch /\ trees' = trees /\ entered' = entered
      /\ revoked' = revoked
  BY <1>1 DEF IInv, Typed, groupVars, chainVars
<1>6. c.epoch <= Epoch
  BY <1>2, <1>4 DEF DeviceOK, StateOK
<1>7. CallOK(d)'
  BY <1>1, <1>2, <1>3, <1>4, <1>5 DEF DeviceOK, CallOK
<1>8. SealOK(d)'
  <2>1. Checked(d)' => Checked(d)
    BY <1>4, <1>5 DEF Checked
  <2>2. From(d)' = call[d].epoch /\ From(d) = call[d].epoch
    BY <1>1, <1>3, <1>4, <1>5 DEF From
  <2>3. Covered(trees, entered, d, call[d], call[d].epoch)
           => Covered(trees, entered, d, c, call[d].epoch)
    BY <1>4 DEF Covered
  <2>4. QED
    BY <1>2, <1>4, <1>5, <1>6, <2>1, <2>2, <2>3 DEF DeviceOK, SealOK
<1>9. BadOK(d)'
  BY <1>2, <1>4, <1>5 DEF DeviceOK, BadOK, Condemned
<1>10. QED
  BY <1>1, <1>4, <1>6, <1>7, <1>8, <1>9, CatchUpStep

\* The check: every leaf is of a reader or bad, and the bad ones are condemned.
LEMMA ReconcileIInv ==
  ASSUME IInv, NEW d \in Device, NEW unknown \in SUBSET Device, reconcile(d, unknown)
  PROVE  IInv'
<1> DEFINE bad == BadLeaves(d, unknown, Tree(Epoch))
           c == [call[d] EXCEPT !.pc = AfterCheck(bad), !.next = "idle",
                                !.bad = bad, !.epoch = Epoch, !.unknown = unknown # {}]
<1>1. /\ st[d] = "in" /\ Removal(d) = {}
      /\ UNCHANGED <<chainVars, groupVars, st>>
      /\ at' = [at EXCEPT ![d] = Epoch] /\ pend' = [pend EXCEPT ![d] = props]
      /\ unknown \subseteq call[d].asked
      /\ call' = [call EXCEPT ![d] = c]
  BY DEF reconcile, Call
<1>2. call[d] \in CallRecord /\ Epoch \in Nat /\ Len(entered) = Epoch
  BY EpochNat DEF IInv, Typed, TreesOK
<1>3. bad \subseteq Leaf /\ AfterCheck(bad) \in {"remove", "pending", "encrypt"}
      /\ (bad # {} => AfterCheck(bad) = "remove")
  BY DEF BadLeaves, AfterCheck
<1>4. \A i \in Leaf : \/ i \in bad
                      \/ Tree(Epoch)[i] \in {Blank, d} \cup call[d].asked
  BY <1>1 DEF BadLeaves
<1>5. \A i \in bad : Tree(Epoch)[i] \notin call[d].asked \/ Tree(Epoch)[i] \in revoked
  BY DEF BadLeaves
<1> HIDE DEF bad
<1>6. /\ c \in CallRecord /\ c.pc = AfterCheck(bad) /\ c.next = "idle"
      /\ c.bad = bad /\ c.epoch = Epoch /\ c.asked = call[d].asked
  <2>1. \A p \in Pc, b \in SUBSET Leaf, e \in Nat, u \in BOOLEAN :
          [call[d] EXCEPT !.pc = p, !.next = "idle", !.bad = b, !.epoch = e, !.unknown = u]
             \in CallRecord
    BY <1>2 DEF CallRecord, Pc
  <2>2. AfterCheck(bad) \in Pc /\ (unknown # {}) \in BOOLEAN
    BY <1>3 DEF Pc
  <2>3. c \in CallRecord
    BY <1>2, <1>3, <2>1, <2>2
  <2>4. QED
    BY <1>2, <2>3 DEF CallRecord
<1> HIDE DEF c
<1>7. /\ call'[d] = c /\ st' = st /\ at'[d] = Epoch /\ trees' = trees /\ entered' = entered
      /\ revoked' = revoked
  BY <1>1 DEF IInv, Typed, groupVars, chainVars
<1>8. CallOK(d)'
  BY <1>1, <1>3, <1>6, <1>7 DEF CallOK
<1>9. SealOK(d)'
  <2>1. From(d)' = Epoch
    BY <1>6, <1>7 DEF From
  <2>2. \A e \in Epoch..Len(entered) : e = Epoch
    BY <1>2
  <2>3. Covered(trees, entered, d, c, Epoch)
    BY <1>4, <1>6, <2>2 DEF Covered, Tree
  <2>4. QED
    BY <1>2, <1>6, <1>7, <2>1, <2>3 DEF SealOK
<1>10. BadOK(d)'
  <2>1. \A e \in Epoch..Len(entered) : e = Epoch
    BY <1>2
  <2>2. Condemned(trees, entered, revoked, c)
    BY <1>5, <1>6, <2>1 DEF Condemned, Tree
  <2>3. QED
    BY <1>7, <2>2 DEF BadOK
<1>11. c.epoch <= Epoch
  BY <1>2, <1>6
<1>12. QED
  BY <1>1, <1>6, <1>8, <1>9, <1>10, <1>11, CatchUpStep

---------------------------------------------------------------------------
\* The device's own state changes, no tree does.
LEMMA OwnStep ==
  ASSUME IInv, NEW d \in Device, UNCHANGED <<readers, gate, revoked, trees, entered>>,
         props' \subseteq Leaf, PropsOK',
         NEW w \in Nat, welcome' = [welcome EXCEPT ![d] = w], w \in {0, welcome[d]},
         NEW s \in {"in", "stuck", "none", "gone"}, st' = [st EXCEPT ![d] = s],
         st[d] = "gone" => s = "gone",
         NEW a \in Nat, at' = [at EXCEPT ![d] = a], a <= Epoch,
         s = "in" => d \in Members(Tree(a)),
         NEW p \in SUBSET Leaf, pend' = [pend EXCEPT ![d] = p],
         p # {} => p = pend[d] /\ a = at[d],
         NEW c \in CallRecord, c.epoch <= Epoch, call' = [call EXCEPT ![d] = c],
         (CallOK(d) /\ SealOK(d) /\ BadOK(d))'
  PROVE  IInv'
<1>1. Typed /\ DeviceOK(d) /\ Epoch' = Epoch /\ Epoch \in Nat
  BY EpochNat DEF IInv, Epoch
<1>2. welcome'[d] = w /\ st'[d] = s /\ at'[d] = a /\ pend'[d] = p /\ call'[d] = c
  BY <1>1 DEF Typed
<1>3. Typed'
  <2>1. welcome' \in [Device -> Nat] /\ at' \in [Device -> Nat] /\ pend' \in [Device -> SUBSET Leaf]
    BY <1>1 DEF Typed
  <2>2. st' \in [Device -> {"in", "stuck", "none", "gone"}] /\ call' \in [Device -> CallRecord]
    BY <1>1 DEF Typed
  <2>3. QED
    BY <1>1, <2>1, <2>2 DEF Typed
<1>4. \A y \in Device : st[y] = "gone" => st'[y] = "gone"
  BY <1>1 DEF Typed
<1>5. StateOK(d)'
  <2>1. at'[d] <= Epoch' /\ call'[d].epoch <= Epoch'
    BY <1>1, <1>2
  <2>2. welcome'[d] <= Epoch' /\ (welcome'[d] # 0 => d \in Members(trees'[welcome'[d] + 1]))
    BY <1>1, <1>2 DEF DeviceOK, StateOK, Tree
  <2>3. st'[d] = "in" => d \in Members(trees'[at'[d] + 1])
    BY <1>2 DEF Tree
  <2>4. \A i \in pend'[d] : trees'[at'[d] + 1][i] \in Device
                            /\ st'[trees'[at'[d] + 1][i]] = "gone"
    <3>1. CASE p = {}
      BY <1>2, <3>1
    <3>2. CASE p = pend[d] /\ a = at[d]
      BY <1>1, <1>2, <1>4, <3>2 DEF DeviceOK, StateOK, Tree
    <3>3. QED
      BY <3>1, <3>2
  <2>5. QED
    BY <2>1, <2>2, <2>3, <2>4 DEF StateOK, Tree, Members
<1>6. DeviceOK(d)'
  BY <1>5 DEF DeviceOK
<1>7. \A x \in Device \ {d} :
            /\ st'[x] = st[x] /\ at'[x] = at[x] /\ pend'[x] = pend[x]
            /\ welcome'[x] = welcome[x] /\ call'[x] = call[x]
  BY <1>1 DEF Typed
<1>8. QED
  BY <1>3, <1>4, <1>6, <1>7, LocalStep

\* The proposals stand as long as nobody comes back from a logout.
LEMMA PropsKept ==
  ASSUME IInv, UNCHANGED <<trees, props>>,
         \A y \in Device : st[y] = "gone" => st'[y] = "gone"
  PROVE  PropsOK'
<1>1. Epoch' = Epoch
  BY DEF Epoch
<1>2. QED
  BY <1>1 DEF IInv, PropsOK, Tree

\* A device between calls has checked nothing and condemned nobody.
LEMMA IdleFacts ==
  ASSUME IInv, NEW d \in Device, call[d].pc = "idle"
  PROVE  call[d].next = "idle" /\ call[d].bad = {}
  BY DEF IInv, DeviceOK, CallOK

\* It stays so when its state changes and its call does not.
LEMMA IdleKept ==
  ASSUME IInv, NEW d \in Device, call[d].pc = "idle", call'[d] = call[d]
  PROVE  (CallOK(d) /\ SealOK(d) /\ BadOK(d))'
<1>1. call'[d].pc = "idle" /\ call'[d].next = "idle" /\ call'[d].bad = {}
  BY IdleFacts
<1>2. CallOK(d)'
  BY <1>1 DEF CallOK
<1>3. SealOK(d)'
  BY <1>1 DEF SealOK, Checked
<1>4. BadOK(d)'
  BY <1>1 DEF BadOK, Condemned
<1>5. QED
  BY <1>2, <1>3, <1>4

\* A session that finds itself removed keeps the rest of its call.
LEMMA RemovedIInv ==
  ASSUME IInv, NEW d \in Device, syncRemoved(d)
  PROVE  IInv'
<1> DEFINE c == [call[d] EXCEPT !.pc = "sync"]
<1>1. /\ st[d] = "in" /\ call[d].pc \in {"sync", "idle"}
      /\ UNCHANGED <<chainVars, groupVars>>
      /\ st' = [st EXCEPT ![d] = "stuck"] /\ at' = [at EXCEPT ![d] = 0]
      /\ pend' = [pend EXCEPT ![d] = {}] /\ call' = [call EXCEPT ![d] = c]
  BY DEF syncRemoved, Following, Goto, IInv, Typed
<1>2. Typed /\ call[d] \in CallRecord /\ DeviceOK(d) /\ Epoch \in Nat
  BY EpochNat DEF IInv, Typed
<1>3. /\ c \in CallRecord /\ c.pc = "sync" /\ c.next = call[d].next
      /\ c.bad = call[d].bad /\ c.epoch = call[d].epoch /\ c.asked = call[d].asked
  BY <1>2 DEF CallRecord, Pc
<1> HIDE DEF c
<1>4. /\ call'[d] = c /\ st'[d] = "stuck" /\ trees' = trees /\ entered' = entered
      /\ props' = props /\ welcome' = [welcome EXCEPT ![d] = welcome[d]]
      /\ readers' = readers /\ gate' = gate /\ revoked' = revoked /\ welcome[d] \in Nat
  BY <1>1, <1>2 DEF Typed, groupVars, chainVars
<1>5. c.epoch <= Epoch
  BY <1>2, <1>3 DEF DeviceOK, StateOK
<1>6. CallOK(d)'
  BY <1>1, <1>2, <1>3, <1>4 DEF DeviceOK, CallOK
<1>7. SealOK(d)'
  <2>1. Checked(d)' => Checked(d)
    BY <1>3, <1>4 DEF Checked
  <2>2. From(d)' = call[d].epoch /\ From(d) = call[d].epoch
    BY <1>1, <1>3, <1>4 DEF From
  <2>3. Covered(trees, entered, d, call[d], call[d].epoch)
           => Covered(trees, entered, d, c, call[d].epoch)
    BY <1>3 DEF Covered
  <2>4. QED
    BY <1>2, <1>3, <1>4, <2>1, <2>2, <2>3 DEF DeviceOK, SealOK
<1>8. BadOK(d)'
  BY <1>2, <1>3, <1>4 DEF DeviceOK, BadOK, Condemned
<1>9. PropsOK'
  BY <1>1, <1>2, <1>4, PropsKept DEF Typed
<1>10. props' \subseteq Leaf /\ 0 \in Nat /\ 0 <= Epoch /\ {} \in SUBSET Leaf
  BY <1>2, <1>4 DEF Typed
<1>11. QED
  BY <1>1, <1>3, <1>4, <1>5, <1>6, <1>7, <1>8, <1>9, <1>10, OwnStep

\* resync goes on to a join, or forgets the group and ends the call.
LEMMA ResyncIInv ==
  ASSUME IInv, NEW d \in Device, resync(d)
  PROVE  IInv'
<1>1. /\ call[d].pc = "sync" /\ st[d] = "stuck" /\ UNCHANGED <<chainVars, groupVars, at, pend>>
  BY DEF resync
<1>2. Typed /\ call[d] \in CallRecord /\ DeviceOK(d) /\ Epoch \in Nat
  BY EpochNat DEF IInv, Typed
<1>3. CASE d \in readers
  <2> DEFINE c == [call[d] EXCEPT !.pc = "join"]
  <2>1. call' = [call EXCEPT ![d] = c] /\ UNCHANGED <<chainVars, groupVars, deviceVars>>
    BY <1>1, <1>2, <1>3 DEF resync, Goto, Typed, deviceVars
  <2>2. /\ c \in CallRecord /\ c.pc = "join" /\ c.next = call[d].next
        /\ c.bad = call[d].bad /\ c.epoch = call[d].epoch /\ c.asked = call[d].asked
    BY <1>2 DEF CallRecord, Pc
  <2> HIDE DEF c
  <2>3. /\ call'[d] = c /\ st' = st /\ at' = at /\ trees' = trees /\ entered' = entered
        /\ revoked' = revoked
    BY <1>2, <2>1 DEF Typed, deviceVars, groupVars, chainVars
  <2>4. c.epoch <= Epoch
    BY <1>2, <2>2 DEF DeviceOK, StateOK
  <2>5. CallOK(d)'
    BY <1>1, <1>2, <2>2, <2>3 DEF DeviceOK, CallOK
  <2>6. SealOK(d)'
    <3>1. Checked(d)' => Checked(d)
      BY <2>2, <2>3 DEF Checked
    <3>2. From(d)' = call[d].epoch /\ From(d) = call[d].epoch
      BY <1>1, <2>2, <2>3 DEF From
    <3>3. Covered(trees, entered, d, call[d], call[d].epoch)
             => Covered(trees, entered, d, c, call[d].epoch)
      BY <2>2 DEF Covered
    <3>4. QED
      BY <1>2, <2>2, <2>3, <3>1, <3>2, <3>3 DEF DeviceOK, SealOK
  <2>7. BadOK(d)'
    BY <1>2, <2>2, <2>3 DEF DeviceOK, BadOK, Condemned
  <2>8. QED
    BY <2>1, <2>2, <2>4, <2>5, <2>6, <2>7, CallStep
<1>4. CASE d \notin readers
  <2>1. call' = [call EXCEPT ![d] = NoOp] /\ st' = [st EXCEPT ![d] = "none"]
    BY <1>4 DEF resync, End, Call
  <2>2. /\ call'[d] = NoOp /\ trees' = trees /\ entered' = entered /\ props' = props
        /\ welcome' = [welcome EXCEPT ![d] = welcome[d]] /\ at' = [at EXCEPT ![d] = at[d]]
        /\ pend' = [pend EXCEPT ![d] = pend[d]]
        /\ readers' = readers /\ gate' = gate /\ revoked' = revoked
        /\ welcome[d] \in Nat /\ at[d] \in Nat /\ pend[d] \in SUBSET Leaf
    BY <1>1, <1>2, <2>1 DEF Typed, groupVars, chainVars
  <2>3. PropsOK'
    BY <1>1, <1>2, <2>1, <2>2, PropsKept DEF Typed
  <2>4. (CallOK(d) /\ SealOK(d) /\ BadOK(d))'
    BY <2>2, IdleOK
  <2>5. NoOp \in CallRecord /\ NoOp.epoch <= Epoch /\ props' \subseteq Leaf /\ at[d] <= Epoch
    BY <1>2, <2>2, NoOpFacts DEF Typed, DeviceOK, StateOK
  <2>6. QED
    BY <1>1, <2>1, <2>2, <2>3, <2>4, <2>5, OwnStep
<1>5. QED
  BY <1>3, <1>4

\* A Welcome takes a device into the epoch it was made for.
LEMMA WelcomeIInv ==
  ASSUME IInv, NEW d \in Device, acceptWelcomes(d)
  PROVE  IInv'
<1>1. /\ call[d].pc = "idle" /\ welcome[d] # 0 /\ st[d] # "gone"
      /\ welcome' = [welcome EXCEPT ![d] = 0]
      /\ readers' = readers /\ gate' = gate /\ revoked' = revoked
      /\ trees' = trees /\ entered' = entered /\ props' = props /\ call' = call
  BY DEF acceptWelcomes, chainVars
<1>2. Typed /\ call[d] \in CallRecord /\ DeviceOK(d) /\ Epoch \in Nat
  BY EpochNat DEF IInv, Typed
<1>3. /\ call' = [call EXCEPT ![d] = call[d]] /\ props' \subseteq Leaf /\ 0 \in Nat
      /\ call[d].epoch <= Epoch /\ welcome[d] <= Epoch /\ d \in Members(Tree(welcome[d]))
      /\ welcome[d] \in Nat /\ at[d] \in Nat /\ pend[d] \in SUBSET Leaf /\ at[d] <= Epoch
  BY <1>1, <1>2 DEF Typed, DeviceOK, StateOK
<1>4. (CallOK(d) /\ SealOK(d) /\ BadOK(d))'
  BY <1>1, IdleKept
<1>5. CASE st[d] = "in"
  <2>1. /\ st' = [st EXCEPT ![d] = "in"] /\ at' = [at EXCEPT ![d] = at[d]]
        /\ pend' = [pend EXCEPT ![d] = pend[d]] /\ st' = st
        /\ d \in Members(Tree(at[d]))
    BY <1>2, <1>5 DEF acceptWelcomes, Typed, DeviceOK, StateOK
  <2>2. PropsOK'
    BY <1>1, <2>1, PropsKept
  <2>3. QED
    BY <1>1, <1>2, <1>3, <1>4, <2>1, <2>2, OwnStep
<1>6. CASE st[d] # "in"
  <2>1. /\ st' = [st EXCEPT ![d] = "in"] /\ at' = [at EXCEPT ![d] = welcome[d]]
        /\ pend' = [pend EXCEPT ![d] = {}]
    BY <1>6 DEF acceptWelcomes
  <2>2. PropsOK'
    BY <1>1, <1>2, <2>1, PropsKept DEF Typed
  <2>3. {} \in SUBSET Leaf /\ "in" \in {"in", "stuck", "none", "gone"}
    OBVIOUS
  <2>4. UNCHANGED <<readers, gate, revoked, trees, entered>>
    BY <1>1
  <2>5. QED
    BY <1>1, <1>2, <1>3, <1>4, <2>1, <2>2, <2>3, <2>4, OwnStep
<1>7. QED
  BY <1>5, <1>6

\* A logout proposes the leaves of a device that is gone with it.
LEMMA LogoutIInv ==
  ASSUME IInv, NEW d \in Device, logout(d)
  PROVE  IInv'
<1>1. /\ call[d].pc = "idle" /\ st[d] = "in"
      /\ props' \subseteq props \cup LeavesOf(Tree(Epoch), d)
      /\ welcome' = [welcome EXCEPT ![d] = 0] /\ st' = [st EXCEPT ![d] = "gone"]
      /\ at' = [at EXCEPT ![d] = 0] /\ pend' = [pend EXCEPT ![d] = {}]
      /\ readers' = readers /\ gate' = gate /\ revoked' = revoked
      /\ trees' = trees /\ entered' = entered /\ call' = call
  BY DEF logout, chainVars
<1>2. Typed /\ call[d] \in CallRecord /\ DeviceOK(d) /\ Epoch \in Nat
  BY EpochNat DEF IInv, Typed
<1>3. /\ call' = [call EXCEPT ![d] = call[d]] /\ 0 \in Nat /\ call[d].epoch <= Epoch
      /\ props' \subseteq Leaf /\ 0 <= Epoch
  BY <1>1, <1>2 DEF Typed, DeviceOK, StateOK, LeavesOf
<1>4. (CallOK(d) /\ SealOK(d) /\ BadOK(d))'
  BY <1>1, IdleKept
<1>5. PropsOK'
  <2>1. \A y \in Device : st[y] = "gone" => st'[y] = "gone"
    BY <1>1, <1>2 DEF Typed
  <2>2. st'[d] = "gone" /\ Epoch' = Epoch
    BY <1>1, <1>2 DEF Typed, Epoch
  <2>3. \A i \in props' : trees'[Epoch' + 1][i] \in Device /\ st'[trees'[Epoch' + 1][i]] = "gone"
    BY <1>1, <2>1, <2>2 DEF IInv, PropsOK, Tree, LeavesOf
  <2>4. QED
    BY <2>3 DEF PropsOK, Tree
<1>6. QED
  <2>1. {} \in SUBSET Leaf /\ "gone" \in {"in", "stuck", "none", "gone"}
    OBVIOUS
  <2>2. UNCHANGED <<readers, gate, revoked, trees, entered>>
    BY <1>1
  <2>3. QED
    BY <1>1, <1>2, <1>3, <1>4, <1>5, <2>1, <2>2, OwnStep

---------------------------------------------------------------------------
\* The tree of a commit that empties some leaves and adds some devices.
LEMMA TreeStep ==
  ASSUME NEW t \in ATree, Distinct(t), NEW out \in SUBSET Leaf,
         NEW new \in SUBSET Device, \A i \in Leaf : t[i] \in new => i \in out,
         NEW u \in With(new, Without(t, out))
  PROVE  /\ u \in ATree /\ Distinct(u)
         /\ \A i \in Leaf : u[i] \in {Blank, t[i]} \cup new
         /\ \A i \in out : u[i] \in new \cup {Blank}
         /\ \A i \in Leaf \ out : t[i] # Blank => u[i] = t[i]
         /\ new \subseteq Members(u)
<1> DEFINE v == Without(t, out)
<1>1. v \in ATree /\ \A i \in Leaf : v[i] = IF i \in out THEN Blank ELSE t[i]
  BY DEF Without, ATree
<1>2. Distinct(v) /\ \A i \in Leaf : v[i] \notin new
  <2>1. Distinct(v)
    BY <1>1 DEF Distinct
  <2>2. Blank \notin new
    BY RoomAssumption DEF RoomAssumption
  <2>3. QED
    BY <1>1, <2>1, <2>2
<1> HIDE DEF v
<1>3. /\ u \in ATree
      /\ \A i \in Leaf : v[i] # Blank => u[i] = v[i]
      /\ \A i \in Leaf : v[i] = Blank => u[i] \in new \cup {Blank}
      /\ \A x \in new : \E i \in Leaf : u[i] = x
      /\ Distinct(u)
  BY <1>1, <1>2, WithFacts DEF v
<1>4. new \subseteq Members(u)
  BY <1>3, RoomAssumption DEF Members, RoomAssumption
<1>5. QED
  BY <1>1, <1>3, <1>4

\* A device that joins has its old leaf replaced.
LEMMA JoinTree ==
  ASSUME IInv, NEW d \in Device, joinExternal(d)
  PROVE  \E u \in ATree : /\ Accept(d, u, {d}) /\ d \in Members(u) /\ Distinct(u)
                          /\ \A i \in Leaf : u[i] \in {Blank, Tree(Epoch)[i]} \cup {d}
<1>1. PICK u \in With({d}, Without(Tree(Epoch), LeavesOf(Tree(Epoch), d))) : Accept(d, u, {d})
  BY DEF joinExternal
<1>2. Tree(Epoch) \in ATree /\ Distinct(Tree(Epoch))
  <2>1. Epoch \in Nat /\ \A e \in 0..Epoch : Tree(e) \in ATree
    BY EpochNat DEF IInv
  <2>2. Epoch \in 0..Epoch
    BY <2>1
  <2>3. QED
    BY <2>1, <2>2 DEF IInv
<1>3. LeavesOf(Tree(Epoch), d) \subseteq Leaf
      /\ \A i \in Leaf : Tree(Epoch)[i] \in {d} => i \in LeavesOf(Tree(Epoch), d)
  BY DEF LeavesOf
<1>4. /\ u \in ATree /\ Distinct(u) /\ {d} \subseteq Members(u)
      /\ \A i \in Leaf : u[i] \in {Blank, Tree(Epoch)[i]} \cup {d}
  BY <1>1, <1>2, <1>3, TreeStep
<1>5. QED
  BY <1>1, <1>4

\* A device that has no group joins.
LEMMA EnsureIInv ==
  ASSUME IInv, NEW d \in Device, ensureGroup(d)
  PROVE  IInv'
<1>1. /\ call[d].pc = "idle" /\ st[d] # "gone" /\ joinExternal(d)
      /\ UNCHANGED <<chainVars, welcome, call>> /\ st' = [st EXCEPT ![d] = "in"]
  BY DEF ensureGroup, HasNoGroup, joinExternal
<1>2. PICK u \in ATree : /\ Accept(d, u, {d}) /\ d \in Members(u) /\ Distinct(u)
                         /\ \A i \in Leaf : u[i] \in {Blank, Tree(Epoch)[i]} \cup {d}
  BY <1>1, JoinTree
<1>3. Typed /\ call[d] \in CallRecord /\ DeviceOK(d) /\ Epoch \in Nat
  BY EpochNat DEF IInv, Typed
<1>4. /\ call' = [call EXCEPT ![d] = call[d]] /\ call[d].epoch <= Epoch + 1
      /\ welcome' \in [Device -> Nat] /\ welcome' = welcome
  <2>1. call[d].epoch \in Nat /\ call[d].epoch <= Epoch
    BY <1>3 DEF DeviceOK, StateOK, CallRecord
  <2>2. QED
    BY <1>1, <1>3, <2>1 DEF Typed
<1>5. (CallOK(d) /\ SealOK(d) /\ BadOK(d))'
  BY <1>1, IdleKept
<1>6. QED
  BY <1>1, <1>2, <1>3, <1>4, <1>5, AcceptStep

\* A device that was removed joins again; what its call has checked stands.
LEMMA RejoinIInv ==
  ASSUME IInv, NEW d \in Device, rejoin(d)
  PROVE  IInv'
<1> DEFINE q == IF call[d].next = "idle" THEN "idle" ELSE "sync"
           c == [call[d] EXCEPT !.pc = q]
<1>1. /\ call[d].pc = "join" /\ joinExternal(d)
      /\ UNCHANGED <<chainVars, welcome>> /\ st' = [st EXCEPT ![d] = "in"]
      /\ call' = [call EXCEPT ![d] = c]
  BY DEF rejoin, joinExternal, Goto, IInv, Typed
<1>2. PICK u \in ATree : /\ Accept(d, u, {d}) /\ d \in Members(u) /\ Distinct(u)
                         /\ \A i \in Leaf : u[i] \in {Blank, Tree(Epoch)[i]} \cup {d}
  BY <1>1, JoinTree
<1>3. /\ Typed /\ call[d] \in CallRecord /\ DeviceOK(d) /\ Epoch \in Nat /\ TreesOK
      /\ call[d].epoch \in Nat /\ call[d].epoch <= Epoch
  <2>1. Typed /\ call[d] \in CallRecord /\ DeviceOK(d) /\ Epoch \in Nat /\ TreesOK
    BY EpochNat DEF IInv, Typed
  <2>2. QED
    BY <2>1 DEF DeviceOK, StateOK, CallRecord
<1>4. q \in {"idle", "sync"} /\ (q = "idle" <=> call[d].next = "idle")
  OBVIOUS
<1> HIDE DEF q
<1>5. /\ c \in CallRecord /\ c.pc = q /\ c.next = call[d].next
      /\ c.bad = call[d].bad /\ c.epoch = call[d].epoch /\ c.asked = call[d].asked
  <2>1. \A p \in Pc : [call[d] EXCEPT !.pc = p] \in CallRecord
    BY <1>3 DEF CallRecord
  <2>2. q \in Pc
    BY <1>4 DEF Pc
  <2>3. c \in CallRecord
    BY <2>1, <2>2
  <2>4. QED
    BY <1>3, <2>3 DEF CallRecord
<1> HIDE DEF c
<1>6. /\ call'[d] = c /\ st'[d] = "in" /\ at'[d] = Epoch + 1 /\ revoked' = revoked
      /\ trees' = Append(trees, u) /\ entered' = Append(entered, {d}) /\ st[d] = "stuck"
  BY <1>1, <1>2, <1>3 DEF Typed, chainVars, Accept, DeviceOK, CallOK
<1>7. CallOK(d)'
  BY <1>1, <1>3, <1>4, <1>5, <1>6 DEF DeviceOK, CallOK
<1>8. /\ trees \in Seq(ATree) /\ entered \in Seq(SUBSET Device)
      /\ Len(trees) = Len(entered) + 1 /\ Len(entered) = Epoch
      /\ Tree(Epoch) = trees[Len(entered) + 1]
  BY <1>3, EpochNat DEF TreesOK, Tree
<1>9. SealOK(d)'
  <2>1. Checked(d)' => Checked(d)
    BY <1>4, <1>5, <1>6 DEF Checked
  <2>2. From(d)' = call[d].epoch /\ From(d) = call[d].epoch
    BY <1>1, <1>4, <1>5, <1>6 DEF From
  <2>3. ASSUME Checked(d) PROVE Covered(trees', entered', d, c, call[d].epoch)
    <3>1. Covered(trees, entered, d, call[d], call[d].epoch)
      BY <1>3, <2>2, <2>3 DEF DeviceOK, SealOK
    <3>2. Covered(Append(trees, u), Append(entered, {d}), d, call[d], call[d].epoch)
      BY <1>2, <1>3, <1>8, <3>1, CoveredGrow
    <3>3. QED
      BY <1>5, <1>6, <3>2 DEF Covered
  <2>4. c.epoch <= at'[d]
    BY <1>3, <1>5, <1>6
  <2>5. QED
    BY <1>5, <1>6, <2>1, <2>2, <2>3, <2>4 DEF SealOK
<1>10. BadOK(d)'
  <2>1. Condemned(Append(trees, u), Append(entered, {d}), revoked, call[d])
    BY <1>2, <1>3, <1>8, CondemnedGrow DEF DeviceOK, BadOK
  <2>2. Condemned(trees', entered', revoked', c)
    BY <1>5, <1>6, <2>1 DEF Condemned
  <2>3. QED
    BY <1>6, <2>2 DEF BadOK
<1>11. c.epoch <= Epoch + 1 /\ welcome' = welcome /\ welcome' \in [Device -> Nat]
  BY <1>1, <1>3, <1>5 DEF Typed
<1>12. QED
  BY <1>1, <1>2, <1>5, <1>6, <1>7, <1>9, <1>10, <1>11, AcceptStep

---------------------------------------------------------------------------
\* What a commit of d that empties the leaves out and adds the devices new
\* makes of tree t.
Committed(d, t, out, new, u) ==
  /\ d \in Members(u) /\ Distinct(u) /\ new \subseteq Members(u)
  /\ \A i \in Leaf : u[i] \in {Blank, t[i]} \cup new
  /\ \A i \in out : u[i] \in new \cup {Blank}

\* A commit of a member does not empty its own leaf.
LEMMA CommitTree ==
  ASSUME IInv, NEW d \in Device, st[d] = "in", NEW out \in SUBSET Leaf,
         NEW new \in SUBSET Device, new \cap Members(Tree(Epoch)) = {},
         \A i \in out : Tree(Epoch)[i] # d, Commit(d, out, new)
  PROVE  \E u \in ATree : Accept(d, u, new) /\ Committed(d, Tree(Epoch), out, new, u)
<1>1. Typed /\ DeviceOK(d) /\ Epoch \in Nat /\ at[d] = Epoch
  BY EpochNat DEF IInv, Commit
<1>2. Tree(Epoch) \in ATree /\ Distinct(Tree(Epoch))
  <2>1. \A e \in 0..Epoch : Tree(e) \in ATree
    BY EpochNat DEF IInv
  <2>2. Epoch \in 0..Epoch
    BY <1>1
  <2>3. QED
    BY <2>1, <2>2 DEF IInv
<1> DEFINE gone == out \cup pend[d]
<1>3. PICK u \in With(new, Without(Tree(Epoch), gone)) : Accept(d, u, new)
  BY DEF Commit
<1>4. gone \in SUBSET Leaf
  BY <1>1 DEF Typed
<1>5. \A i \in gone : Tree(Epoch)[i] # d
  BY <1>1 DEF DeviceOK, StateOK
<1>6. \A i \in Leaf : Tree(Epoch)[i] \in new => i \in gone
  BY RoomAssumption DEF Members, RoomAssumption
<1>7. out \subseteq gone
  OBVIOUS
<1> HIDE DEF gone
<1>8. /\ u \in ATree /\ Distinct(u) /\ new \subseteq Members(u)
      /\ \A i \in Leaf : u[i] \in {Blank, Tree(Epoch)[i]} \cup new
      /\ \A i \in gone : u[i] \in new \cup {Blank}
      /\ \A i \in Leaf \ gone : Tree(Epoch)[i] # Blank => u[i] = Tree(Epoch)[i]
  BY <1>2, <1>3, <1>4, <1>6, TreeStep
<1>9. d \in Members(u)
  <2>1. PICK i \in Leaf : Tree(Epoch)[i] = d /\ d # Blank
    BY <1>1, MembersIn DEF DeviceOK, StateOK
  <2>2. u[i] = d
    BY <1>5, <1>8, <2>1
  <2>3. QED
    BY <2>1, <2>2, MembersIn
<1>10. Committed(d, Tree(Epoch), out, new, u)
  BY <1>7, <1>8, <1>9 DEF Committed
<1>11. QED
  BY <1>3, <1>8, <1>10

\* What a send does after its own commit: it encrypts to the new tree.
LEMMA OwnCommitIInv ==
  ASSUME IInv, NEW d \in Device,
         removeLeaves(d) \/ commitPending(d)
  PROVE  IInv'
<1> DEFINE c == [call[d] EXCEPT !.pc = "encrypt", !.bad = {}]
<1>1. /\ Typed /\ call[d] \in CallRecord /\ DeviceOK(d) /\ Epoch \in Nat /\ TreesOK
      /\ call[d].epoch \in Nat /\ call[d].epoch <= Epoch /\ call[d].bad \subseteq Leaf
  <2>1. Typed /\ call[d] \in CallRecord /\ DeviceOK(d) /\ Epoch \in Nat /\ TreesOK
    BY EpochNat DEF IInv, Typed
  <2>2. QED
    BY <2>1 DEF DeviceOK, StateOK, CallRecord
<1>2. /\ call[d].pc \in {"remove", "pending"} /\ UNCHANGED <<chainVars, welcome, st>>
      /\ st[d] = "in" /\ call[d].next = "idle"
  BY <1>1 DEF removeLeaves, commitPending, DeviceOK, CallOK
<1>3. /\ c \in CallRecord /\ c.pc = "encrypt" /\ c.next = "idle" /\ c.bad = {}
      /\ c.epoch = call[d].epoch /\ c.asked = call[d].asked
  BY <1>1, <1>2 DEF CallRecord, Pc
<1>4. call' = [call EXCEPT ![d] = c]
  <2>1. CASE removeLeaves(d)
    BY <2>1 DEF removeLeaves, Call
  <2>2. CASE commitPending(d)
    <3>1. call[d].bad = {}
      BY <1>1, <1>2, <2>2 DEF commitPending, DeviceOK, CallOK
    <3>2. c = [call[d] EXCEPT !.pc = "encrypt"]
      BY <1>1, <3>1 DEF CallRecord
    <3>3. call' = [call EXCEPT ![d] = [call[d] EXCEPT !.pc = "encrypt"]]
      BY <1>1, <2>2 DEF commitPending, Goto, Typed
    <3>4. QED
      BY <3>2, <3>3
  <2>3. QED
    BY <2>1, <2>2
<1>5. PICK u \in ATree : /\ Accept(d, u, {}) /\ d \in Members(u) /\ Distinct(u)
                         /\ \A i \in Leaf : u[i] \in {Blank, Tree(Epoch)[i]} \cup {}
                         /\ \A i \in call[d].bad : u[i] = Blank
  <2>1. Commit(d, call[d].bad, {}) /\ \A i \in call[d].bad : Tree(Epoch)[i] # d
    <3>1. CASE removeLeaves(d)
      BY <3>1 DEF removeLeaves, Commit, Removable
    <3>2. CASE commitPending(d)
      <4>1. Commit(d, {}, {}) /\ call[d].bad = {}
        BY <1>1, <1>2, <3>2 DEF commitPending, DeviceOK, CallOK
      <4>2. QED
        BY <4>1
    <3>3. QED
      BY <3>1, <3>2
  <2> DEFINE none == {}
  <2>2. /\ call[d].bad \in SUBSET Leaf /\ none \in SUBSET Device
        /\ none \cap Members(Tree(Epoch)) = {} /\ Commit(d, call[d].bad, none)
    BY <1>1, <2>1
  <2> HIDE DEF none
  <2>3. PICK u \in ATree : /\ Accept(d, u, none)
                          /\ Committed(d, Tree(Epoch), call[d].bad, none, u)
    BY <1>2, <2>1, <2>2, CommitTree
  <2>4. QED
    BY <2>3 DEF Committed, none
<1> HIDE DEF c
<1>6. /\ call'[d] = c /\ st'[d] = "in" /\ at'[d] = Epoch + 1
      /\ trees' = Append(trees, u) /\ entered' = Append(entered, {})
      /\ st' = [st EXCEPT ![d] = "in"]
  BY <1>1, <1>2, <1>4, <1>5 DEF Typed, Accept
<1>7. CallOK(d)'
  BY <1>3, <1>6 DEF CallOK
<1>8. /\ trees \in Seq(ATree) /\ entered \in Seq(SUBSET Device)
      /\ Len(trees) = Len(entered) + 1 /\ Len(entered) = Epoch
      /\ Tree(Epoch) = trees[Len(entered) + 1]
  BY <1>1, EpochNat DEF TreesOK, Tree
<1>9. SealOK(d)'
  <2>1. Checked(d) /\ From(d) = call[d].epoch /\ From(d)' = Epoch + 1
    BY <1>2, <1>3, <1>6 DEF From, Checked
  <2>2. Covered(trees, entered, d, call[d], call[d].epoch)
    BY <1>1, <2>1 DEF DeviceOK, SealOK
  <2>3. Covered(Append(trees, u), Append(entered, {}), d, c, Len(entered) + 1)
    BY <1>1, <1>3, <1>5, <1>8, <2>2, CommitCovers
  <2>4. c.epoch <= at'[d]
    BY <1>1, <1>3, <1>6
  <2>5. QED
    BY <1>6, <1>8, <2>1, <2>3, <2>4 DEF SealOK
<1>10. BadOK(d)'
  BY <1>3, <1>6 DEF BadOK, Condemned
<1>11. c.epoch <= Epoch + 1 /\ welcome' = welcome /\ welcome' \in [Device -> Nat]
  BY <1>1, <1>2, <1>3 DEF Typed
<1>12. QED
  BY <1>2, <1>3, <1>4, <1>5, <1>6, <1>7, <1>9, <1>10, <1>11, AcceptStep

\* An add brings in devices that had no leaf, and leaves them a Welcome.
LEMMA AddIInv ==
  ASSUME IInv, NEW d \in Device, addMembers(d)
  PROVE  IInv'
<1> DEFINE new == Todo(d)
<1>1. /\ Typed /\ call[d] \in CallRecord /\ DeviceOK(d) /\ Epoch \in Nat
      /\ call[d].asked \subseteq Device
  <2>1. Typed /\ call[d] \in CallRecord /\ DeviceOK(d) /\ Epoch \in Nat
    BY EpochNat DEF IInv, Typed
  <2>2. QED
    BY <2>1 DEF CallRecord
<1>2. /\ call[d].pc = "add" /\ UNCHANGED <<chainVars, st>> /\ Commit(d, {}, new)
      /\ call' = [call EXCEPT ![d] = NoOp]
      /\ welcome' = [x \in Device |-> IF x \in new THEN Epoch + 1 ELSE welcome[x]]
  BY DEF addMembers, End, Call
<1>3. st[d] = "in" /\ at[d] = Epoch
  BY <1>1, <1>2 DEF DeviceOK, CallOK, Commit
<1>4. new \in SUBSET Device /\ new \cap Members(Tree(Epoch)) = {}
  BY <1>1, <1>3 DEF Todo
<1> HIDE DEF new
<1>5. PICK u \in ATree : /\ Accept(d, u, new) /\ d \in Members(u) /\ Distinct(u)
                         /\ \A i \in Leaf : u[i] \in {Blank, Tree(Epoch)[i]} \cup new
                         /\ new \subseteq Members(u)
  <2> DEFINE out == {}
  <2>1. out \in SUBSET Leaf /\ (\A i \in out : Tree(Epoch)[i] # d) /\ Commit(d, out, new)
    BY <1>2
  <2> HIDE DEF out
  <2>2. PICK u \in ATree : Accept(d, u, new) /\ Committed(d, Tree(Epoch), out, new, u)
    BY <1>3, <1>4, <2>1, CommitTree
  <2>3. QED
    BY <2>2 DEF Committed
<1>6. welcome' \in [Device -> Nat]
      /\ \A x \in Device : \/ welcome'[x] = welcome[x]
                           \/ welcome'[x] = Epoch + 1 /\ x \in Members(u)
  BY <1>1, <1>2, <1>5 DEF Typed
<1>7. st' = [st EXCEPT ![d] = "in"] /\ call'[d] = NoOp /\ UNCHANGED chainVars
  BY <1>1, <1>2, <1>3 DEF Typed
<1>8. (CallOK(d) /\ SealOK(d) /\ BadOK(d))'
  BY <1>7, IdleOK
<1>9. NoOp \in CallRecord /\ NoOp.epoch <= Epoch + 1
  BY <1>1, NoOpFacts
<1>10. QED
  BY <1>2, <1>3, <1>4, <1>5, <1>6, <1>7, <1>8, <1>9, AcceptStep

---------------------------------------------------------------------------
\* A device has finitely many leaves.
LEMMA LeavesFinite ==
  ASSUME NEW t, NEW x
  PROVE  IsFiniteSet(LeavesOf(t, x))
<1>1. IsFiniteSet(Leaf)
  BY RoomAssumption, FS_Interval DEF RoomAssumption, Leaf
<1>2. LeavesOf(t, x) \subseteq Leaf
  BY DEF LeavesOf
<1>3. QED
  BY <1>1, <1>2, FS_Subset

\* In a tree that devices have joined one by one nobody has two leaves.
LEMMA JoinedDistinct ==
  ASSUME NEW t, Joined(t)
  PROVE  t \in ATree /\ Distinct(t)
<1>1. t \in ATree /\ \A d \in Device : Cardinality(LeavesOf(t, d)) = 1
  BY DEF Joined, ATree
<1>2. ASSUME NEW i \in Leaf, NEW j \in Leaf, t[i] = t[j], t[i] # Blank PROVE i = j
  <2>1. t[i] \in Device
    BY <1>1, <1>2 DEF ATree
  <2>2. PICK k : LeavesOf(t, t[i]) = {k}
    BY <1>1, <2>1, LeavesFinite, FS_Singleton
  <2>3. i \in LeavesOf(t, t[i]) /\ j \in LeavesOf(t, t[i])
    BY <1>2 DEF LeavesOf
  <2>4. QED
    BY <2>2, <2>3
<1>3. QED
  BY <1>1, <1>2 DEF Distinct

\* When nobody has two leaves, the number of each device's leaves is at most
\* one.
LEMMA DistinctOne ==
  ASSUME NEW t, Distinct(t), NEW d \in Device
  PROVE  Cardinality(LeavesOf(t, d)) <= 1
<1>1. CASE LeavesOf(t, d) = {}
  <2>1. Cardinality(LeavesOf(t, d)) = 0
    BY <1>1, FS_EmptySet
  <2>2. QED
    BY <2>1
<1>2. CASE LeavesOf(t, d) # {}
  <2>1. PICK i : i \in LeavesOf(t, d)
    BY <1>2
  <2>2. d # Blank
    BY RoomAssumption DEF RoomAssumption
  <2>3. LeavesOf(t, d) = {i}
    BY <2>1, <2>2 DEF LeavesOf, Distinct
  <2>4. Cardinality(LeavesOf(t, d)) = 1
    BY <2>3, FS_Singleton
  <2>5. QED
    BY <2>4
<1>3. QED
  BY <1>1, <1>2

\* The invariant holds at first.
LEMMA InitIInv ==
  ASSUME Init
  PROVE  IInv
<1> DEFINE J == CHOOSE t \in [Leaf -> Device \cup {Blank}] : Joined(t)
<1>1. PICK out \in {{}, {1}} : trees = <<Without(J, out)>>
  BY DEF Init
<1>2. J \in ATree /\ Distinct(J)
  <2>1. Joined(J)
    BY RoomAssumption DEF RoomAssumption
  <2>2. QED
    BY <2>1, JoinedDistinct
<1> HIDE DEF J
<1> DEFINE t == Without(J, out)
<1>3. t \in ATree /\ Distinct(t)
  <2>1. t \in ATree /\ \A i \in Leaf : t[i] = IF i \in out THEN Blank ELSE J[i]
    BY <1>2 DEF ATree, Without
  <2>2. QED
    BY <1>2, <2>1 DEF Distinct
<1> HIDE DEF t
<1>4. trees = <<t>> /\ Len(trees) = 1 /\ trees[1] = t /\ trees \in Seq(ATree)
  BY <1>1, <1>3 DEF t
<1>5. Epoch = 0 /\ Tree(Epoch) = t /\ Tree(0) = t
  BY <1>4 DEF Epoch, Tree
<1>6. /\ readers \subseteq Device /\ t[0] \in readers /\ gate = readers /\ revoked = {}
      /\ entered = <<>> /\ props = {} /\ welcome = [d \in Device |-> 0]
      /\ st = [d \in Device |-> IF d \in Members(t) THEN "in" ELSE "none"]
      /\ at = [d \in Device |-> 0] /\ pend = [d \in Device |-> {}]
      /\ call = [d \in Device |-> NoOp]
  BY <1>5 DEF Init
<1>7. Members(t) # {}
  <2>1. 0 \in Leaf /\ t[0] # Blank
    BY <1>6, RoomAssumption DEF RoomAssumption, Leaf
  <2>2. QED
    BY <2>1 DEF Members
<1>8. TreesOK
  <2>1. \A e \in 0..Epoch : e = 0
    BY <1>5
  <2>2. Len(entered) = 0 /\ entered \in Seq(SUBSET Device)
    BY <1>6
  <2>3. QED
    BY <1>4, <1>5, <1>7, <2>1, <2>2 DEF TreesOK
<1>9. Typed
  BY <1>6, NoOpFacts DEF Typed
<1>10. ASSUME NEW d \in Device PROVE DeviceOK(d)
  <2>1. /\ at[d] = 0 /\ welcome[d] = 0 /\ pend[d] = {} /\ call[d] = NoOp
        /\ st[d] = "in" => d \in Members(t)
    BY <1>6
  <2>2. StateOK(d)
    BY <1>5, <2>1, NoOpFacts DEF StateOK
  <2>3. CallOK(d)
    BY <2>1, NoOpFacts DEF CallOK
  <2>4. SealOK(d)
    BY <2>1, NoOpFacts DEF SealOK, Checked
  <2>5. BadOK(d)
    BY <2>1, NoOpFacts DEF BadOK, Condemned
  <2>6. QED
    BY <2>2, <2>3, <2>4, <2>5 DEF DeviceOK
<1>11. PropsOK
  BY <1>6 DEF PropsOK
<1>12. QED
  BY <1>3, <1>5, <1>8, <1>9, <1>10, <1>11 DEF IInv

\* Every step of every session, of the chain and of the relayer keeps it.
LEMMA NextIInv ==
  ASSUME IInv, [Next]_vars
  PROVE  IInv'
<1>1. CASE FollowChain \/ UNCHANGED vars
  BY <1>1, ChainIInv
<1>2. ASSUME NEW d \in Device,
             \/ SetReader(d) \/ logout(d) \/ revokeByDevice(d) \/ addWallets(d)
             \/ resyncRefused(d) \/ Session(d)
      PROVE  IInv'
  <2>1. CASE SetReader(d) \/ revokeByDevice(d)
    BY <2>1, ChainIInv
  <2>2. CASE logout(d)
    BY <2>2, LogoutIInv
  <2>3. CASE addWallets(d) \/ sendEnvelope(d)
    BY <2>3, BeginIInv
  <2>4. CASE \/ resyncRefused(d) \/ rejoinRefused(d) \/ commitFails(d) \/ removeThrows(d)
             \/ encrypt(d) \/ paused(d) \/ nothingToAdd(d)
    BY <2>4, EndIInv
  <2>5. CASE acceptWelcomes(d)
    BY <2>5, WelcomeIInv
  <2>6. CASE ensureGroup(d)
    BY <2>6, EnsureIInv
  <2>7. CASE syncLoop(d)
    BY <2>7, SyncIInv
  <2>8. CASE syncRemoved(d)
    BY <2>8, RemovedIInv
  <2>9. CASE resync(d)
    BY <2>9, ResyncIInv
  <2>10. CASE rejoin(d)
    BY <2>10, RejoinIInv
  <2>11. CASE \E unknown \in SUBSET Device : reconcile(d, unknown)
    BY <2>11, ReconcileIInv
  <2>12. CASE removeLeaves(d) \/ commitPending(d)
    BY <2>12, OwnCommitIInv
  <2>13. CASE removeLost(d) \/ addLost(d)
    BY <2>13, LostIInv
  <2>14. CASE nothingPending(d)
    BY <2>14, NothingIInv
  <2>15. CASE addMembers(d)
    BY <2>15, AddIInv
  <2>16. QED
    BY <1>2, <2>1, <2>2, <2>3, <2>4, <2>5, <2>6, <2>7, <2>8, <2>9, <2>10, <2>11, <2>12,
       <2>13, <2>14, <2>15 DEF Session, Steps
<1>3. QED
  BY <1>1, <1>2 DEF Next

\* The invariant holds throughout.
LEMMA Invariance == Spec => []IInv
<1>1. Init => IInv
  BY InitIInv
<1>2. IInv /\ [Next]_vars => IInv'
  BY NextIInv
<1>3. QED
  BY <1>1, <1>2, PTL DEF Spec

\* The invariant says that the state is well typed.
LEMMA TypedRoom ==
  ASSUME IInv
  PROVE  TypeOK
<1>1. Typed /\ TreesOK /\ PropsOK /\ Epoch \in Nat /\ \A e \in 0..Epoch : Tree(e) \in ATree
  BY EpochNat DEF IInv
<1>2. \A e \in 0..Epoch : /\ Tree(e) \in [Leaf -> Device \cup {Blank}]
                          /\ Members(Tree(e)) # {}
  BY <1>1 DEF TreesOK, ATree
<1>3. props \subseteq {i \in Leaf : Tree(Epoch)[i] # Blank}
  BY <1>1, RoomAssumption DEF Typed, PropsOK, RoomAssumption
<1>4. ASSUME NEW d \in Device
      PROVE  /\ welcome[d] \in 0..Epoch /\ at[d] \in 0..Epoch /\ call[d].epoch \in 0..Epoch
  <2>1. welcome[d] \in Nat /\ at[d] \in Nat /\ call[d].epoch \in Nat
    BY <1>1 DEF Typed, CallRecord
  <2>2. welcome[d] <= Epoch /\ at[d] <= Epoch /\ call[d].epoch <= Epoch
    BY DEF IInv, DeviceOK, StateOK
  <2>3. QED
    BY <1>1, <2>1, <2>2
<1>5. welcome \in [Device -> 0..Epoch] /\ at \in [Device -> 0..Epoch]
  BY <1>1, <1>4 DEF Typed
<1>6. call \in [Device -> [pc : Pc, next : Pc \cup {"check"}, asked : SUBSET Device,
                          bad : SUBSET Leaf, epoch : 0..Epoch, unknown : BOOLEAN]]
  <2>1. call \in [Device -> CallRecord]
    BY <1>1 DEF Typed
  <2>2. \A d \in Device :
           call[d] \in [pc : Pc, next : Pc \cup {"check"}, asked : SUBSET Device,
                        bad : SUBSET Leaf, epoch : 0..Epoch, unknown : BOOLEAN]
    BY <1>4, <2>1 DEF CallRecord
  <2>3. QED
    BY <2>1, <2>2
<1>7. ASSUME NEW d \in Device, st[d] = "in"
      PROVE  /\ d \in Members(Tree(at[d]))
             /\ \A i \in pend[d] : Tree(at[d])[i] \notin {Blank, d}
  BY <1>7, RoomAssumption DEF IInv, DeviceOK, StateOK, RoomAssumption
<1>8. QED
  BY <1>1, <1>2, <1>3, <1>5, <1>6, <1>7 DEF TypeOK, Typed, TreesOK

\* Joins, adds and rejoins that race (joinExternal, addMembers, removeLeaves in
\* the MLS session) never give a device two leaves, and the state is well typed.
THEOREM OneLeaf == Spec => []OneLeafEach
<1>1. ASSUME IInv PROVE OneLeafEach
  <2>1. \A d \in Device : Cardinality(LeavesOf(Tree(Epoch), d)) <= 1
    BY <1>1, DistinctOne DEF IInv
  <2>2. QED
    BY <1>1, <2>1, TypedRoom DEF OneLeafEach
<1>2. IInv => OneLeafEach
  BY <1>1
<1>3. Spec => []IInv
  BY Invariance
<1>4. QED
  BY <1>2, <1>3, PTL

\* seal: a message is encrypted to those who were readers when the send began,
\* to the sender, and to nobody else but a device that entered by a commit to
\* which this send lost a race.
THEOREM Sealed == Spec => []SealedToReaders
<1>1. ASSUME IInv PROVE SealedToReaders
  <2> SUFFICES ASSUME NEW d \in Device, call[d].pc = "encrypt", NEW x \in Members(Tree(at[d]))
               PROVE  x \in call[d].asked \cup {d} \cup EnteredSince(call[d].epoch, at[d])
    BY DEF SealedToReaders
  <2>1. /\ DeviceOK(d) /\ at[d] \in Nat /\ Len(entered) = Epoch /\ Epoch \in Nat
    BY <1>1, EpochNat DEF IInv, Typed, TreesOK
  <2>2. Covered(trees, entered, d, call[d], at[d]) /\ call[d].bad = {}
    <3>1. Checked(d) /\ From(d) = at[d] /\ call[d].next = "idle"
      BY <2>1 DEF Checked, From, DeviceOK, CallOK
    <3>2. QED
      BY <2>1, <3>1 DEF DeviceOK, SealOK, CallOK
  <2>3. at[d] \in at[d]..Len(entered)
    BY <2>1 DEF DeviceOK, StateOK
  <2>4. PICK i \in Leaf : x # Blank /\ trees[at[d] + 1][i] = x
    BY MembersIn DEF Tree
  <2>5. trees[at[d] + 1][i] \in {Blank, d} \cup call[d].asked
                                   \cup Since(entered, call[d].epoch, at[d])
    BY <2>2, <2>3 DEF Covered
  <2>6. QED
    BY <2>4, <2>5 DEF Since, EnteredSince
<1>2. IInv => SealedToReaders
  BY <1>1
<1>3. Spec => []IInv
  BY Invariance
<1>4. QED
  BY <1>2, <1>3, PTL

\* removeLeaves and the proposals of a logout: every leaf a commit removes is of
\* a device that is no reader, was revoked, has logged out, or took over an index
\* that was condemned before a lost race.
THEOREM Justified == Spec => []RemovalJustified
<1>1. ASSUME IInv PROVE RemovalJustified
  <2> SUFFICES ASSUME NEW d \in Device, at[d] = Epoch
               PROVE  /\ call[d].pc = "remove" /\ Removable(d) =>
                           \A i \in call[d].bad :
                              \/ Tree(Epoch)[i] \notin call[d].asked
                              \/ Tree(Epoch)[i] \in revoked
                              \/ Tree(Epoch)[i] \in EnteredSince(call[d].epoch, at[d])
                      /\ \A i \in pend[d] : st[Tree(Epoch)[i]] = "gone"
    BY DEF RemovalJustified
  <2>1. /\ DeviceOK(d) /\ Len(entered) = Epoch /\ Epoch \in Nat /\ call[d].epoch \in Nat
    BY <1>1, EpochNat DEF IInv, Typed, TreesOK, CallRecord
  <2>2. \A i \in pend[d] : st[Tree(Epoch)[i]] = "gone"
    BY <2>1 DEF DeviceOK, StateOK
  <2>3. ASSUME Removable(d), NEW i \in call[d].bad
        PROVE  \/ Tree(Epoch)[i] \notin call[d].asked
               \/ Tree(Epoch)[i] \in revoked
               \/ Tree(Epoch)[i] \in EnteredSince(call[d].epoch, at[d])
    <3>1. Epoch \in call[d].epoch..Len(entered)
      BY <2>1 DEF DeviceOK, StateOK
    <3>2. \/ Tree(Epoch)[i] = Blank \/ Tree(Epoch)[i] \notin call[d].asked
          \/ Tree(Epoch)[i] \in revoked \/ Tree(Epoch)[i] \in Since(entered, call[d].epoch, Epoch)
      BY <2>1, <3>1 DEF DeviceOK, BadOK, Condemned, Tree
    <3>3. Tree(Epoch)[i] # Blank
      BY <2>3 DEF Removable
    <3>4. QED
      BY <3>2, <3>3 DEF Since, EnteredSince
  <2>4. QED
    BY <2>2, <2>3
<1>2. IInv => RemovalJustified
  BY <1>1
<1>3. Spec => []IInv
  BY Invariance
<1>4. QED
  BY <1>2, <1>3, PTL
===========================================================================
