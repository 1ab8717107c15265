---------------------------- MODULE ChatAppProofs ----------------------------
(***************************************************************************)
(* Proofs about the two state machines of the chat application: ChatThread *)
(* with its LiveFeed, for every page size, cache size and number of rows,  *)
(* sends and faults; and AgentReplies, for every number of questions and   *)
(* faults.  The two share no state: a theorem is about the specification   *)
(* its statement names.                                                    *)
(*                                                                         *)
(* ChatThread.  Everything that reads or extends the list, the requests    *)
(* under way, the subscription, the page ledger, the cache and a load,     *)
(* works on one window of orders.  Inside the window every stored row is   *)
(* shown or is accounted for; each step moves an end of the window, or     *)
(* shows a row of it.                                                      *)
(*                                                                         *)
(* AgentReplies.  Questions move from the queue through the one reply to   *)
(* the answers, and everything further along was asked earlier.  And while *)
(* a proposal is pending no reply runs, so that a decision finds the       *)
(* proposal it was made on until it has acted.                             *)
(***************************************************************************)
EXTENDS ChatThread, AgentReplies, FiniteSetTheorems, SequenceTheorems,
        WellFoundedInduction, NaturalsInduction, TLAPS

-----------------------------------------------------------------------------
(* Least and greatest members. *)

(* A set of natural numbers has a least member, and Min is it. *)
LEMMA MinFacts ==
  ASSUME NEW S, S \subseteq Nat, S # {}
  PROVE  Min(S) \in S /\ \A y \in S : Min(S) <= y
<1>1. PICK m \in S : \A n \in S : ~(<<n, m>> \in OpToRel(<, Nat))
  BY WFMin, NatLessThanWellFounded
<1>2. ASSUME NEW y \in S PROVE m <= y
  <2>1. m \in Nat /\ y \in Nat
    OBVIOUS
  <2>2. ~(y < m)
    BY <1>1, <2>1 DEF OpToRel
  <2>3. QED
    BY <2>1, <2>2
<1>3. \E x \in S : \A y \in S : x =< y
  BY <1>2
<1>4. QED
  BY <1>3 DEF Min

(* A bounded set of natural numbers has a greatest member, and Max is it. *)
LEMMA MaxFacts ==
  ASSUME NEW S, NEW b \in Nat, S \subseteq 0..b, S # {}
  PROVE  Max(S) \in S /\ \A y \in S : y <= Max(S)
<1> DEFINE D == {b - x : x \in S}
<1>0. \A x \in S : x \in Nat /\ x <= b
  OBVIOUS
<1>1. D \subseteq Nat /\ D # {}
  <2>1. \A x \in S : b - x \in Nat
    BY <1>0
  <2>2. QED
    BY <2>1
<1>2. PICK d \in D : \A e \in D : d <= e
  BY <1>1, MinFacts
<1>3. PICK x \in S : d = b - x
  OBVIOUS
<1>4. ASSUME NEW y \in S PROVE y <= x
  <2>1. b - y \in D
    OBVIOUS
  <2>2. d <= b - y
    BY <1>2, <2>1
  <2>3. x \in 0..b /\ y \in 0..b
    OBVIOUS
  <2>4. QED
    BY <1>3, <2>2, <2>3
<1>5. \E z \in S : \A y \in S : z >= y
  BY <1>4
<1>6. Max(S) \in S /\ \A y \in S : Max(S) >= y
  BY <1>5 DEF Max
<1>7. Max(S) \in Nat /\ \A y \in S : y \in Nat
  BY <1>0, <1>6
<1>8. QED
  BY <1>6, <1>7

(* The n least members of a set of orders are an initial part of it and    *)
(* the n greatest a final part.                                            *)
LEMMA PartFacts ==
  ASSUME NEW S, NEW b \in Nat, S \subseteq 0..b, NEW n \in Nat
  PROVE  /\ Least(S, n) \subseteq S /\ Greatest(S, n) \subseteq S
         /\ \A o \in Least(S, n) : \A p \in S : p <= o => p \in Least(S, n)
         /\ \A o \in Greatest(S, n) : \A p \in S : o <= p => p \in Greatest(S, n)
<1>0. \A x \in S : x \in Nat
  OBVIOUS
<1>1. IsFiniteSet(S)
  <2>1. IsFiniteSet(0..b)
    BY FS_Interval
  <2>2. QED
    BY <2>1, FS_Subset
<1>2. \A T \in SUBSET S : IsFiniteSet(T) /\ Cardinality(T) \in Nat
  BY <1>1, FS_Subset, FS_CardinalityType
<1>3. ASSUME NEW T \in SUBSET S, NEW U \in SUBSET T
      PROVE  Cardinality(U) <= Cardinality(T) /\ Cardinality(U) \in Nat /\ Cardinality(T) \in Nat
  BY <1>2, FS_Subset
<1>4. ASSUME NEW o \in Least(S, n), NEW p \in S, p <= o PROVE p \in Least(S, n)
  <2> DEFINE T == {q \in S : q < o}
             U == {q \in S : q < p}
  <2>0. o \in S
    BY DEF Least, Greatest
  <2>1. U \subseteq T /\ T \subseteq S
    <3>1. \A q \in S : q < p => q < o
      BY <1>0, <1>4, <2>0
    <3>2. QED
      BY <3>1
  <2>2. Cardinality(T) < n
    BY DEF Least
  <2>3. Cardinality(U) <= Cardinality(T) /\ Cardinality(U) \in Nat /\ Cardinality(T) \in Nat
    BY <1>3, <2>1
  <2>4. Cardinality(U) < n
    BY <2>2, <2>3
  <2>5. QED
    BY <2>4 DEF Least
<1>5. ASSUME NEW o \in Greatest(S, n), NEW p \in S, o <= p PROVE p \in Greatest(S, n)
  <2> DEFINE T == {q \in S : q > o}
             U == {q \in S : q > p}
  <2>0. o \in S
    BY DEF Least, Greatest
  <2>1. U \subseteq T /\ T \subseteq S
    <3>1. \A q \in S : q > p => q > o
      BY <1>0, <1>5, <2>0
    <3>2. QED
      BY <3>1
  <2>2. Cardinality(T) < n
    BY DEF Greatest
  <2>3. Cardinality(U) <= Cardinality(T) /\ Cardinality(U) \in Nat /\ Cardinality(T) \in Nat
    BY <1>3, <2>1
  <2>4. Cardinality(U) < n
    BY <2>2, <2>3
  <2>5. QED
    BY <2>4 DEF Greatest
<1>6. QED
  BY <1>4, <1>5 DEF Least, Greatest

-----------------------------------------------------------------------------
(* The invariant. *)

(* Types of the records. *)
PageType == [rows : SUBSET Row, hasNext : BOOLEAN, got : BOOLEAN]
RequestType == [cursor : 0..MaxOrder, pages : 0..MaxPages, page : PageType]
LoadType == [st : {"none", "cold", "warm"}, base : SUBSET Row, ledger : Ledger,
             req : RequestType]
CacheType == [view : SUBSET Row, ledger : Ledger]
Typed ==
  /\ FeedTypeOK
  /\ thread \in {"closed", "loading", "open"} /\ visible \in BOOLEAN
  /\ view \subseteq Row /\ ledger \in Ledger /\ tip \in 0..MaxOrder
  /\ cache \in CacheType /\ load \in LoadType
  /\ catchup \in RequestType /\ older \in RequestType
  /\ send \in [st : {"none", "posting", "stored"}, temp : 0..MaxOrder, id : 0..MaxRows]
  /\ orphaned \subseteq MaxRows + 1 .. MaxOrder
  /\ sends \in 0..MaxFaults
  /\ passed \subseteq 1..MaxOrder

(* The list v lies above order f and reaches up to order g, with n rows    *)
(* stored and P the orders that passed it by: every order in between is in *)
(* v or in P, and what is not stored yet is in P.                          *)
Covers(v, f, g, n, P, m) ==
  /\ f \in Nat /\ g \in Nat /\ f <= g /\ g <= m
  /\ \A r \in v : f < r.order /\ r.order <= g
  /\ \A p \in f + 1 .. g : p <= n => Stored(p) \in v \/ p \in P
  /\ \A p \in n + 1 .. g : p \in P

StoredRows(n) == {Stored(o) : o \in 1..n}

(* A page of newer rows after order c, of older rows before c and of the   *)
(* newest rows: no row of its stretch is without a reason missing.         *)
NewerRows(w, c, n, P) ==
  \E e \in Nat : /\ c <= e /\ (e <= n \/ e = c)
                 /\ \A r \in w : c < r.order /\ r.order <= e
                 /\ \A p \in c + 1 .. e : Stored(p) \in w \/ p \in P
OlderRows(w, c, n, P) ==
  \E d \in Nat : /\ d < c
                 /\ \A r \in w : d < r.order /\ r.order < c
                 /\ \A p \in d + 1 .. c - 1 : p <= n => Stored(p) \in w \/ p \in P
NewestRows(w, n, P) ==
  \E d, e \in Nat : /\ d <= e /\ e <= n
                    /\ \A r \in w : d < r.order /\ r.order <= e
                    /\ \A p \in d + 1 .. e : Stored(p) \in w \/ p \in P

-----------------------------------------------------------------------------
(* Lists of rows. *)

(* The constants are natural numbers. *)
LEMMA Consts ==
  /\ PollLimit \in Nat /\ PollLimit > 0
  /\ MaxRows \in Nat /\ MaxRows > 0 /\ MaxFaults \in Nat /\ MaxOrder \in Nat
  /\ MaxRows <= MaxOrder /\ MaxOrder = MaxRows + MaxFaults
  /\ PageSize \in Nat /\ MaxPages \in Nat /\ MaxPages > 0 /\ MaxCached \in Nat /\ MaxCached > 0
  BY FeedConstants, ThreadConstants DEF MaxOrder

(* A row is its two fields. *)
LEMMA RowFacts ==
  /\ \A r \in Row : /\ r.id \in Nat /\ r.order \in Nat
                    /\ 0 < r.id /\ r.id <= MaxOrder /\ 0 < r.order /\ r.order <= MaxOrder
  /\ \A p : Stored(p).id = p /\ Stored(p).order = p
  /\ \A p \in 1..MaxOrder : Stored(p) \in Row
  /\ \A n \in 0..MaxRows : StoredRows(n) \subseteq Row
  BY Consts DEF Row, Stored, StoredRows

(* Merging keeps every stored row of both lists, invents none, and does    *)
(* not empty a list.                                                       *)
LEMMA MergeFacts ==
  ASSUME NEW v, NEW w, v \subseteq Row, w \subseteq Row,
         \A r \in w : IsStub(r) \/ r = Stored(r.id)
  PROVE  /\ mergeMessages(v, w) \subseteq v \cup w
         /\ \A p \in 1..MaxRows : Stored(p) \in v \cup w => Stored(p) \in mergeMessages(v, w)
         /\ v \cup w # {} => mergeMessages(v, w) # {}
<1> DEFINE ids  == {r.id : r \in w}
           byId == {r \in v : r.id \notin ids} \cup w
           confirmed == OrdersOf({r \in byId : ~IsStub(r)})
           m == {r \in byId : IsStub(r) => r.order \notin confirmed}
<1>1. mergeMessages(v, w) = m
  BY DEF mergeMessages
<1>2. m \subseteq v \cup w
  OBVIOUS
<1>3. ASSUME NEW p \in 1..MaxRows, Stored(p) \in v \cup w PROVE Stored(p) \in m
  <2>1. Stored(p).id = p /\ ~IsStub(Stored(p))
    BY RowFacts, Consts DEF IsStub
  <2>2. Stored(p) \in byId
    <3>1. CASE Stored(p) \in w
      BY <3>1
    <3>2. CASE p \notin ids
      BY <1>3, <2>1, <3>2
    <3>3. CASE p \in ids
      <4>1. PICK r \in w : r.id = p
        BY <3>3
      <4>2. ~IsStub(r)
        BY <4>1, Consts DEF IsStub
      <4>3. QED
        BY <4>1, <4>2, <3>1
    <3>4. QED
      BY <3>1, <3>2, <3>3
  <2>3. QED
    BY <2>1, <2>2
<1>4. ASSUME v \cup w # {} PROVE m # {}
  <2>1. byId # {}
    BY <1>4
  <2>2. PICK r \in byId : TRUE
    BY <2>1
  <2>3. CASE r \in m
    BY <2>3
  <2>4. CASE r \notin m
    <3>1. r.order \in confirmed
      BY <2>4
    <3>2. PICK q \in byId : ~IsStub(q)
      BY <3>1 DEF OrdersOf
    <3>3. q \in m
      BY <3>2
    <3>4. QED
      BY <3>3
  <2>5. QED
    BY <2>3, <2>4
<1>5. QED
  BY <1>1, <1>2, <1>3, <1>4

-----------------------------------------------------------------------------
(* Windows. *)

(* A window stays one when rows are stored, orders pass by and sends are   *)
(* made.                                                                   *)
LEMMA CoversMono ==
  ASSUME NEW v, NEW f, NEW g, NEW n \in Nat, NEW P, NEW m \in Nat,
         NEW k \in Nat, NEW Q, NEW z \in Nat,
         Covers(v, f, g, n, P, m), n <= k, P \subseteq Q, m <= z
  PROVE  Covers(v, f, g, k, Q, z)
<1>1. f \in Nat /\ g \in Nat /\ f <= g /\ g <= m
  BY DEF Covers
<1>2. \A p \in f + 1 .. g : p <= k => Stored(p) \in v \/ p \in Q
  <2>1. \A p \in f + 1 .. g : p <= n \/ p \in n + 1 .. g
    BY <1>1
  <2>2. QED
    BY <2>1 DEF Covers
<1>3. \A p \in k + 1 .. g : p \in Q
  <2>1. \A p \in k + 1 .. g : p \in n + 1 .. g
    BY <1>1
  <2>2. QED
    BY <2>1 DEF Covers
<1>4. QED
  BY <1>1, <1>2, <1>3 DEF Covers

(* What no step removes from a list is still accounted for. *)
Keeps(v, w, n, Q) == \A p \in 1..n : Stored(p) \in v => Stored(p) \in w \/ p \in Q

(* A window of another list that keeps the stored rows and stays inside.   *)
LEMMA CoversOther ==
  ASSUME NEW v, NEW w, NEW f, NEW g, NEW n \in Nat, NEW P, NEW m \in Nat, NEW Q,
         Covers(v, f, g, n, P, m), P \subseteq Q, Keeps(v, w, n, Q),
         \A r \in w : f < r.order /\ r.order <= g
  PROVE  Covers(w, f, g, n, Q, m)
<1>1. f \in Nat /\ g \in Nat /\ f <= g /\ g <= m
  BY DEF Covers
<1>2. ASSUME NEW p \in f + 1 .. g, p <= n PROVE Stored(p) \in w \/ p \in Q
  <2>1. p \in 1..n
    BY <1>1, <1>2
  <2>2. Stored(p) \in v \/ p \in P
    BY <1>2 DEF Covers
  <2>3. QED
    BY <2>1, <2>2 DEF Keeps
<1>3. \A p \in n + 1 .. g : p \in Q
  BY DEF Covers
<1>4. QED
  BY <1>1, <1>2, <1>3 DEF Covers

(* A window grows up by a newer page from a cursor inside it, and the      *)
(* other lists made of its rows and the page's are covered too.            *)
LEMMA CoversNewer ==
  ASSUME NEW v, NEW w, NEW u, NEW f, NEW g, NEW n \in 0..MaxRows, NEW P, NEW Q,
         NEW m \in Nat, NEW c \in f..g,
         v \subseteq Row, w \subseteq StoredRows(n), u \subseteq v \cup w,
         MaxRows <= m, P \subseteq Q, Keeps(v \cup w, u, n, Q),
         Covers(v, f, g, n, P, m), NewerRows(w, c, n, P)
  PROVE  \E k \in Nat : g <= k /\ Covers(u, f, k, n, Q, m) /\ \A r \in w : r.order <= k
<1>0. n \in Nat /\ n <= MaxRows /\ MaxRows \in Nat
  BY Consts
<1>1. f \in Nat /\ g \in Nat /\ f <= g /\ g <= m
  BY DEF Covers
<1>2. PICK e \in Nat : /\ c <= e /\ (e <= n \/ e = c)
                       /\ \A r \in w : c < r.order /\ r.order <= e
                       /\ \A p \in c + 1 .. e : Stored(p) \in w \/ p \in P
  BY DEF NewerRows
<1> DEFINE k == IF e <= g THEN g ELSE e
<1>3. c \in Nat /\ f <= c /\ c <= g
  BY <1>1
<1>4. k \in Nat /\ g <= k /\ e <= k /\ k <= m /\ (k = g \/ (k = e /\ e <= n))
  BY <1>0, <1>1, <1>2, <1>3
<1> HIDE DEF k
<1>5. \A r \in w : r.order \in Nat /\ c < r.order /\ r.order <= e
  BY RowFacts, <1>2
<1>6. \A r \in w : r.order <= k
  BY <1>4, <1>5
<1>7. \A r \in u : f < r.order /\ r.order <= k
  <2>1. \A r \in v : r.order \in Nat /\ f < r.order /\ r.order <= g
    BY RowFacts DEF Covers
  <2>2. QED
    BY <2>1, <1>1, <1>3, <1>4, <1>5
<1>8. ASSUME NEW p \in f + 1 .. k, p <= n PROVE Stored(p) \in u \/ p \in Q
  <2>1. p \in 1..n
    BY <1>0, <1>1, <1>4, <1>8
  <2>2. p \in f + 1 .. g \/ p \in c + 1 .. e
    BY <1>1, <1>2, <1>3, <1>4
  <2>3. Stored(p) \in v \cup w \/ p \in P
    BY <2>2, <1>2, <1>8 DEF Covers
  <2>4. QED
    BY <2>1, <2>3 DEF Keeps
<1>9. \A p \in n + 1 .. k : p \in Q
  <2>1. \A p \in n + 1 .. k : p \in n + 1 .. g
    BY <1>0, <1>1, <1>2, <1>4
  <2>2. QED
    BY <2>1 DEF Covers
<1>10. Covers(u, f, k, n, Q, m)
  BY <1>1, <1>4, <1>7, <1>8, <1>9 DEF Covers
<1>11. QED
  BY <1>4, <1>6, <1>10

(* A window grows down by an older page from a cursor inside it. *)
LEMMA CoversOlder ==
  ASSUME NEW v, NEW w, NEW u, NEW f, NEW g, NEW n \in 0..MaxRows, NEW P, NEW Q,
         NEW m \in Nat, NEW c \in f + 1 .. g,
         v \subseteq Row, w \subseteq StoredRows(n), u \subseteq v \cup w,
         P \subseteq Q, Keeps(v \cup w, u, n, Q),
         Covers(v, f, g, n, P, m), OlderRows(w, c, n, P)
  PROVE  \E k \in Nat : k <= f /\ Covers(u, k, g, n, Q, m)
<1>0. n \in Nat /\ n <= MaxRows /\ MaxRows \in Nat
  BY Consts
<1>1. f \in Nat /\ g \in Nat /\ f <= g /\ g <= m
  BY DEF Covers
<1>2. PICK d \in Nat : /\ d < c
                       /\ \A r \in w : d < r.order /\ r.order < c
                       /\ \A p \in d + 1 .. c - 1 : p <= n => Stored(p) \in w \/ p \in P
  BY DEF OlderRows
<1> DEFINE k == IF d <= f THEN d ELSE f
<1>3. c \in Nat /\ f < c /\ c <= g
  BY <1>1
<1>4. k \in Nat /\ k <= f /\ k <= d /\ (k = f \/ k = d)
  BY <1>1, <1>2
<1> HIDE DEF k
<1>5. \A r \in w : r.order \in Nat /\ d < r.order /\ r.order < c
  BY RowFacts, <1>2
<1>6. \A r \in u : k < r.order /\ r.order <= g
  <2>1. \A r \in v : r.order \in Nat /\ f < r.order /\ r.order <= g
    BY RowFacts DEF Covers
  <2>2. QED
    BY <2>1, <1>1, <1>3, <1>4, <1>5
<1>7. ASSUME NEW p \in k + 1 .. g, p <= n PROVE Stored(p) \in u \/ p \in Q
  <2>1. p \in 1..n
    BY <1>0, <1>1, <1>4, <1>7
  <2>2. p \in f + 1 .. g \/ p \in d + 1 .. c - 1
    BY <1>1, <1>2, <1>3, <1>4
  <2>3. Stored(p) \in v \cup w \/ p \in P
    BY <2>2, <1>2, <1>7 DEF Covers
  <2>4. QED
    BY <2>1, <2>3 DEF Keeps
<1>8. \A p \in n + 1 .. g : p \in Q
  BY DEF Covers
<1>9. Covers(u, k, g, n, Q, m)
  BY <1>1, <1>4, <1>6, <1>7, <1>8 DEF Covers
<1>10. QED
  BY <1>4, <1>9

(* The rows a load has collected stay covered beside the list while the    *)
(* list's window grows.                                                    *)
LEMMA CoversBoth ==
  ASSUME NEW b, NEW v, NEW u, NEW f, NEW h, NEW i, NEW j, NEW n \in Nat, NEW P, NEW Q,
         NEW m \in Nat, NEW z \in Nat,
         b \subseteq Row, u \subseteq Row, P \subseteq Q, m <= z, i <= f, f <= j,
         Keeps(v, u, n, Q),
         Covers(b \cup v, f, h, n, P, m), Covers(u, i, j, n, Q, z)
  PROVE  \E k \in Nat : h <= k /\ j <= k /\ Covers(b \cup u, i, k, n, Q, z)
<1>1. f \in Nat /\ h \in Nat /\ f <= h /\ h <= m
  BY DEF Covers
<1>2. i \in Nat /\ j \in Nat /\ i <= j /\ j <= z
  BY DEF Covers
<1> DEFINE k == IF h <= j THEN j ELSE h
<1>3. k \in Nat /\ h <= k /\ j <= k /\ k <= z /\ (k = h \/ k = j) /\ i <= k
  BY <1>1, <1>2
<1> HIDE DEF k
<1>4. \A r \in b \cup u : i < r.order /\ r.order <= k
  <2>1. \A r \in b : r.order \in Nat /\ f < r.order /\ r.order <= h
    BY RowFacts DEF Covers
  <2>2. \A r \in u : r.order \in Nat /\ i < r.order /\ r.order <= j
    BY RowFacts DEF Covers
  <2>3. QED
    BY <2>1, <2>2, <1>1, <1>2, <1>3
<1>5. ASSUME NEW p \in i + 1 .. k, p <= n PROVE Stored(p) \in b \cup u \/ p \in Q
  <2>1. CASE p <= j
    <3>1. p \in i + 1 .. j
      BY <1>2, <1>3, <2>1
    <3>2. QED
      BY <3>1, <1>5 DEF Covers
  <2>2. CASE ~(p <= j)
    <3>1. p \in f + 1 .. h /\ p \in 1..n
      BY <1>1, <1>2, <1>3, <1>5, <2>2
    <3>2. Stored(p) \in b \cup v \/ p \in P
      BY <3>1, <1>5 DEF Covers
    <3>3. QED
      BY <3>1, <3>2 DEF Keeps
  <2>3. QED
    BY <2>1, <2>2
<1>6. \A p \in n + 1 .. k : p \in Q
  <2>1. \A p \in n + 1 .. k : p \in n + 1 .. h \/ p \in n + 1 .. j
    BY <1>1, <1>2, <1>3
  <2>2. QED
    BY <2>1 DEF Covers
<1>7. Covers(b \cup u, i, k, n, Q, z)
  BY <1>2, <1>3, <1>4, <1>5, <1>6 DEF Covers
<1>8. QED
  BY <1>3, <1>7

-----------------------------------------------------------------------------
(* The ledger, the cache and the effects of a change of the list. *)

(* The bounds of the orders of a list. *)
LEMMA OrdersFacts ==
  ASSUME NEW v, v \subseteq Row
  PROVE  /\ OrdersOf(v) \subseteq 1..MaxOrder
         /\ v # {} => /\ Min(OrdersOf(v)) \in OrdersOf(v) /\ Max(OrdersOf(v)) \in OrdersOf(v)
                      /\ \A r \in v : Min(OrdersOf(v)) <= r.order /\ r.order <= Max(OrdersOf(v))
<1>1. OrdersOf(v) \subseteq 1..MaxOrder
  BY RowFacts, Consts DEF OrdersOf
<1>2. ASSUME v # {}
      PROVE  /\ Min(OrdersOf(v)) \in OrdersOf(v) /\ Max(OrdersOf(v)) \in OrdersOf(v)
             /\ \A r \in v : Min(OrdersOf(v)) <= r.order /\ r.order <= Max(OrdersOf(v))
  <2>1. OrdersOf(v) # {} /\ \A r \in v : r.order \in OrdersOf(v)
    BY <1>2 DEF OrdersOf
  <2>2. OrdersOf(v) \subseteq Nat /\ OrdersOf(v) \subseteq 0..MaxOrder
    BY <1>1, Consts
  <2>3. QED
    BY <2>1, <2>2, MinFacts, MaxFacts, Consts
<1>3. QED
  BY <1>1, <1>2

(* Widening a ledger by orders moves its bounds to orders of them only. *)
LEMMA WidenFacts ==
  ASSUME NEW l \in Ledger, NEW S, S \subseteq 1..MaxOrder
  PROVE  /\ Widen(l, S) \in Ledger
         /\ Widen(l, S).max \in S \cup {l.max} /\ \A o \in S : o <= Widen(l, S).max
<1>1. l.min \in 0..MaxOrder /\ l.max \in 0..MaxOrder
  BY DEF Ledger
<1>2. CASE S = {}
  BY <1>2 DEF Widen
<1>3. CASE S # {}
  <2> DEFINE A == S \cup IF l.min = None THEN {} ELSE {l.min}
             B == S \cup {l.max}
  <2>1. A \subseteq Nat /\ A # {} /\ A \subseteq 0..MaxOrder /\ B \subseteq 0..MaxOrder /\ B # {}
    <3>1. \A o \in S : o \in Nat /\ o \in 0..MaxOrder
      BY Consts
    <3>2. l.min \in Nat /\ l.max \in Nat
      BY <1>1, Consts
    <3>3. QED
      BY <1>1, <1>3, <3>1, <3>2
  <2>2. Min(A) \in 0..MaxOrder
    BY <2>1, MinFacts
  <2>3. Max(B) \in B /\ \A o \in B : o <= Max(B)
    BY <2>1, MaxFacts, Consts
  <2>4. Widen(l, S) = [l EXCEPT !.min = Min(A), !.max = Max(B)]
    BY <1>3 DEF Widen
  <2> HIDE DEF A
  <2>5. Max(B) \in 0..MaxOrder
    BY <2>1, <2>3
  <2>6. Widen(l, S) \in Ledger /\ Widen(l, S).max = Max(B)
    BY <2>2, <2>4, <2>5 DEF Ledger
  <2>7. QED
    BY <2>3, <2>6
<1>4. QED
  BY <1>2, <1>3

(* There are finitely many rows. *)
LEMMA RowsFinite == \A v : v \subseteq Row => IsFiniteSet(v)
<1> DEFINE D == 1..MaxOrder
           F == [r \in Row |-> <<r.id, r.order>>]
<1>1. IsFiniteSet(D)
  BY FS_Interval, Consts
<1>2. IsFiniteSet(D \X D)
  BY <1>1, FS_Product
<1>3. F \in Injection(Row, D \X D)
  <2>1. \A r \in Row : r.id \in D /\ r.order \in D /\ r = [id |-> r.id, order |-> r.order]
    BY DEF Row
  <2>2. F \in [Row -> D \X D]
    BY <2>1
  <2>3. \A r, q \in Row : F[r] = F[q] => r = q
    BY <2>1
  <2>4. QED
    BY <2>2, <2>3 DEF Injection, IsInjective
<1>4. IsFiniteSet(Row)
  BY <1>2, <1>3, FS_Injection
<1>5. QED
  BY <1>4, FS_Subset

(* What the cache keeps of a list is a final part of it, with a ledger     *)
(* whose bounds are orders of rows it keeps.                               *)
LEMMA TrimFacts ==
  ASSUME NEW v, NEW l \in Ledger, v \subseteq Row, v # {},
         l.min \in OrdersOf(v), l.max \in OrdersOf(v)
  PROVE  LET s == trimMessagesWithLedger(v, l)
         IN  /\ s \in CacheType /\ s.view \subseteq v /\ s.view # {}
             /\ \A r \in s.view : \A q \in v : r.order <= q.order => q \in s.view
             /\ s.ledger.min \in OrdersOf(s.view) /\ s.ledger.max \in OrdersOf(s.view)
<1> DEFINE above(r) == {q \in v : q.order > r.order}
           kept == {r \in v : Cardinality(above(r)) < MaxCached}
           s == trimMessagesWithLedger(v, l)
<1>0. \A r \in v : r.order \in Nat
  BY RowFacts
<1>1. \A r \in v : IsFiniteSet(above(r)) /\ Cardinality(above(r)) \in Nat
  <2>1. \A r \in v : above(r) \subseteq Row
    OBVIOUS
  <2>2. QED
    BY <2>1, RowsFinite, FS_CardinalityType
<1>2. ASSUME NEW r \in kept, NEW q \in v, r.order <= q.order PROVE q \in kept
  <2>1. r \in v /\ Cardinality(above(r)) < MaxCached
    OBVIOUS
  <2>2. \A x \in v : x.order > q.order => x.order > r.order
    BY <1>0, <1>2, <2>1
  <2>3. above(q) \subseteq above(r)
    BY <2>2
  <2>4. Cardinality(above(q)) <= Cardinality(above(r))
    BY <1>1, <2>1, <2>3, FS_Subset
  <2>5. Cardinality(above(q)) < MaxCached
    <3>1. Cardinality(above(q)) \in Nat /\ Cardinality(above(r)) \in Nat
      BY <1>1, <2>1
    <3> HIDE DEF above
    <3>2. QED
      BY <2>1, <2>4, <3>1, Consts
  <2>6. QED
    BY <2>5
<1>3. kept # {} /\ kept \subseteq v
  <2>1. PICK r \in v : r.order = Max(OrdersOf(v))
    BY OrdersFacts DEF OrdersOf
  <2>2. \A q \in v : ~(q.order > r.order)
    <3>1. \A q \in v : q.order <= r.order
      BY <2>1, OrdersFacts
    <3>2. QED
      BY <3>1, <1>0
  <2>3. above(r) = {}
    BY <2>2
  <2>4. Cardinality(above(r)) < MaxCached
    BY <2>3, FS_EmptySet, Consts
  <2>5. r \in kept
    BY <2>4
  <2>6. QED
    BY <2>5
<1>4. CASE Cardinality(v) <= MaxCached
  <2>1. s = [view |-> v, ledger |-> l]
    BY <1>4 DEF trimMessagesWithLedger
  <2>2. QED
    BY <2>1 DEF CacheType
<1>5. CASE ~(Cardinality(v) <= MaxCached)
  <2> DEFINE lo == Min(OrdersOf(kept))
             hi == Max(OrdersOf(kept))
  <2>1. s = [view |-> kept,
             ledger |-> [min |-> lo, max |-> hi, more |-> TRUE,
                         fetched |-> {c \in l.fetched : c < lo}]]
    BY <1>5 DEF trimMessagesWithLedger
  <2>2. kept \subseteq Row
    BY <1>3
  <2> HIDE DEF kept
  <2>3. lo \in OrdersOf(kept) /\ hi \in OrdersOf(kept) /\ OrdersOf(kept) \subseteq 1..MaxOrder
    BY <1>3, <2>2, OrdersFacts
  <2>4. lo \in 0..MaxOrder /\ hi \in 0..MaxOrder
    BY <2>3, Consts
  <2> HIDE DEF lo, hi, s
  <2>5. s.view = kept /\ s.ledger.min = lo /\ s.ledger.max = hi
    BY <2>1
  <2>6. s \in CacheType
    BY <2>1, <2>2, <2>4 DEF CacheType, Ledger
  <2> USE DEF s
  <2>7. QED
    BY <1>2, <1>3, <2>3, <2>5, <2>6
<1>6. QED
  BY <1>4, <1>5

(* A list is shown: the cursors stay in its window, and what is cached is  *)
(* covered as well.                                                        *)
LEMMA ShowFacts ==
  ASSUME NEW v, NEW l \in Ledger, NEW f, NEW g, NEW n \in Nat, NEW P, NEW m \in Nat,
         v \subseteq Row, m <= MaxOrder, v = {} => tip \in f..g, tip \in 0..MaxOrder,
         v = {} => l.max = None \/ l.max \in f..g,
         Covers(v, f, g, n, P, m), Show(v, l)
  PROVE  /\ view' = v /\ ledger' \in Ledger /\ tip' \in f..g /\ tip' \in 0..MaxOrder
         /\ ledger'.max = None \/ ledger'.max \in f..g
         /\ v # {} => ledger'.min \in f + 1 .. g
         /\ cache' \in CacheType /\ cache'.view \subseteq v
         /\ cache'.view # {} =>
               \E k \in Nat : Covers(cache'.view, k, g, n, P, m) /\ cache'.ledger.max \in k..g
<1>0. f \in Nat /\ g \in Nat /\ f <= g /\ g <= m
  BY DEF Covers
<1>1. CASE v = {}
  <2>1. Cardinality(v) <= MaxCached
    BY <1>1, FS_EmptySet, Consts
  <2>2. /\ view' = v /\ ledger' = l /\ tip' = tip /\ cache' = [view |-> v, ledger |-> l]
    BY <1>1, <2>1 DEF Show, trimMessagesWithLedger
  <2>3. cache' \in CacheType /\ cache'.view = {}
    BY <1>1, <2>2 DEF CacheType
  <2>4. QED
    BY <1>1, <2>2, <2>3
<1>2. CASE v # {}
  <2> DEFINE lo == Min(OrdersOf(v))
             hi == Max(OrdersOf(v))
             b == [l EXCEPT !.min = lo, !.max = hi]
             s == trimMessagesWithLedger(v, b)
  <2>1. lo \in OrdersOf(v) /\ hi \in OrdersOf(v) /\ OrdersOf(v) \subseteq 1..MaxOrder
    BY <1>2, OrdersFacts
  <2>2. view' = v /\ ledger' = s.ledger /\ cache' = s /\ tip' = hi
    BY <1>2 DEF Show
  <2>3. \A o \in OrdersOf(v) : o \in f + 1 .. g /\ o \in f..g /\ o \in 0..MaxOrder
    <3>1. \A r \in v : r.order \in Nat /\ f < r.order /\ r.order <= g /\ r.order <= MaxOrder
      BY RowFacts DEF Covers
    <3>2. QED
      BY <1>0, <3>1, Consts DEF OrdersOf
  <2> HIDE DEF lo, hi
  <2>4. lo \in 0..MaxOrder /\ hi \in 0..MaxOrder
    BY <2>1, <2>3
  <2>5. b \in Ledger /\ b.min = lo /\ b.max = hi
    BY <2>4 DEF Ledger
  <2> HIDE DEF b
  <2>6. /\ s \in CacheType /\ s.view \subseteq v /\ s.view # {}
        /\ \A r \in s.view : \A q \in v : r.order <= q.order => q \in s.view
        /\ s.ledger.min \in OrdersOf(s.view) /\ s.ledger.max \in OrdersOf(s.view)
    BY <1>2, <2>1, <2>5, TrimFacts
  <2> HIDE DEF s
  <2>7. s.ledger \in Ledger /\ s.ledger.min \in OrdersOf(v) /\ s.ledger.max \in OrdersOf(v)
    BY <2>6 DEF CacheType, OrdersOf
  <2> DEFINE k == Min(OrdersOf(s.view)) - 1
  <2>8. /\ k + 1 \in OrdersOf(s.view) /\ \A r \in s.view : k < r.order /\ r.order \in Nat
        /\ k \in Nat /\ k >= f /\ k < g
    <3>1. s.view \subseteq Row
      BY <2>6
    <3>2. /\ Min(OrdersOf(s.view)) \in OrdersOf(s.view)
          /\ \A r \in s.view : Min(OrdersOf(s.view)) <= r.order
      BY <2>6, <3>1, OrdersFacts
    <3>3. OrdersOf(s.view) \subseteq OrdersOf(v)
      BY <2>6 DEF OrdersOf
    <3>4. Min(OrdersOf(s.view)) \in f + 1 .. g
      BY <2>3, <3>2, <3>3
    <3>5. \A r \in s.view : r.order \in Nat
      BY <3>1, RowFacts
    <3>6. QED
      BY <1>0, <3>2, <3>4, <3>5
  <2> HIDE DEF k
  <2>9. Covers(s.view, k, g, n, P, m)
    <3>1. \A r \in s.view : k < r.order /\ r.order <= g
      BY <2>6, <2>8 DEF Covers
    <3>2. ASSUME NEW p \in k + 1 .. g, p <= n PROVE Stored(p) \in s.view \/ p \in P
      <4>1. p \in f + 1 .. g
        BY <1>0, <2>8
      <4>2. CASE Stored(p) \in v
        <5>1. PICK r \in s.view : r.order = k + 1
          BY <2>8 DEF OrdersOf
        <5>2. Stored(p).order = p /\ k + 1 <= p
          BY <1>0, <2>8, RowFacts
        <5>3. QED
          BY <2>6, <4>2, <5>1, <5>2
      <4>3. QED
        BY <4>1, <4>2, <3>2 DEF Covers
    <3>3. \A p \in n + 1 .. g : p \in P
      BY DEF Covers
    <3>4. QED
      BY <1>0, <2>8, <3>1, <3>2, <3>3 DEF Covers
  <2>10. s.ledger.max \in k..g
    <3>1. PICK r \in s.view : s.ledger.max = r.order
      BY <2>6 DEF OrdersOf
    <3>2. r \in v /\ r.order <= g
      BY <2>6 DEF Covers
    <3>3. QED
      BY <1>0, <2>8, <3>1, <3>2
  <2>11. QED
    BY <2>1, <2>2, <2>3, <2>6, <2>7, <2>8, <2>9, <2>10
<1>3. QED
  BY <1>1, <1>2

-----------------------------------------------------------------------------
(* Pages. *)

(* The rows of a page. *)
LEMMA PageFacts ==
  ASSUME NEW n \in 0..MaxRows, NEW W, W \subseteq 1..n, NEW C, C \subseteq W
  PROVE  /\ Page(W, C) \in PageType /\ Page(W, C).rows \subseteq StoredRows(n)
         /\ Page(W, C).got /\ \A o \in C : Stored(o) \in Page(W, C).rows
         /\ \A r \in Page(W, C).rows : r.order \in C
<1>1. Page(W, C) = [rows |-> {Stored(o) : o \in C}, hasNext |-> C # W, got |-> TRUE]
  BY DEF Page
<1>2. {Stored(o) : o \in C} \subseteq StoredRows(n)
  BY DEF StoredRows
<1>3. StoredRows(n) \subseteq Row
  BY RowFacts
<1>4. QED
  BY <1>1, <1>2, <1>3, RowFacts DEF PageType

(* The pages the relayer answers with have no holes: newer rows start at   *)
(* the cursor, older rows end at it and the newest rows end at the tip.    *)
LEMMA AnswerFacts ==
  ASSUME rows \in 0..MaxRows, NEW c \in 0..MaxOrder, NEW P
  PROVE  /\ PageAfter(c) \in PageType /\ PageAfter(c).rows \subseteq StoredRows(rows)
         /\ NewerRows(PageAfter(c).rows, c, rows, P)
         /\ PageBefore(c) \in PageType /\ PageBefore(c).rows \subseteq StoredRows(rows)
         /\ c > 0 => OlderRows(PageBefore(c).rows, c, rows, P)
         /\ TipPage \in PageType /\ TipPage.rows \subseteq StoredRows(rows)
         /\ NewestRows(TipPage.rows, rows, P)
         /\ PageAfter(c).got /\ PageBefore(c).got /\ TipPage.got
<1>0. rows \in Nat /\ rows <= MaxRows /\ MaxRows \in Nat /\ c \in Nat /\ PageSize \in Nat
  BY Consts
<1> DEFINE A == {o \in 1..rows : o > c}
           B == {o \in 1..rows : o < c}
           LA == Least(A, PageSize)
           GB == Greatest(B, PageSize)
           GT == Greatest(1..rows, PageSize)
<1>1. A \subseteq 0..MaxRows /\ B \subseteq 0..MaxRows /\ 1..rows \subseteq 0..MaxRows
  <2>1. \A o \in 1..rows : o \in 0..MaxRows
    BY <1>0
  <2>2. QED
    BY <2>1
<1>2. /\ LA \subseteq A /\ \A o \in LA : \A p \in A : p <= o => p \in LA
      /\ GB \subseteq B /\ \A o \in GB : \A p \in B : o <= p => p \in GB
      /\ GT \subseteq 1..rows /\ \A o \in GT : \A p \in 1..rows : o <= p => p \in GT
  BY <1>0, <1>1, PartFacts
<1>3. PageAfter(c) = Page(A, LA) /\ PageBefore(c) = Page(B, GB) /\ TipPage = Page(1..rows, GT)
  BY DEF PageAfter, PageBefore, TipPage
<1>4. /\ \A o \in A : o \in Nat /\ o <= rows /\ c < o
      /\ \A o \in B : o \in Nat /\ o < c /\ o <= rows /\ 0 < o
      /\ \A o \in 1..rows : o \in Nat /\ o <= rows /\ 0 < o
      /\ \A p \in Nat : (c < p /\ p <= rows => p \in A) /\ (0 < p /\ p < c /\ p <= rows => p \in B)
  BY <1>0
<1>5. A \subseteq 1..rows /\ B \subseteq 1..rows
  OBVIOUS
<1> HIDE DEF A, B, LA, GB, GT
<1>6. NewerRows(PageAfter(c).rows, c, rows, P)
  <2>1. /\ \A o \in LA : Stored(o) \in PageAfter(c).rows
        /\ \A r \in PageAfter(c).rows : r.order \in LA
    BY <1>2, <1>3, <1>5, PageFacts
  <2>2. CASE LA = {}
    <3>1. \A p \in c + 1 .. c : FALSE
      BY <1>0
    <3>2. QED
      BY <1>0, <2>1, <2>2, <3>1 DEF NewerRows
  <2>3. CASE LA # {}
    <3> DEFINE e == Max(LA)
    <3>1. LA \subseteq 0..MaxRows
      BY <1>1, <1>2
    <3>2. e \in LA /\ \A o \in LA : o <= e
      BY <1>0, <2>3, <3>1, MaxFacts
    <3> HIDE DEF e
    <3>3. e \in A /\ e \in Nat /\ e <= rows /\ c < e
      BY <1>2, <1>4, <3>2
    <3>4. \A r \in PageAfter(c).rows : c < r.order /\ r.order <= e
      BY <1>2, <1>4, <2>1, <3>2
    <3>5. ASSUME NEW p \in c + 1 .. e PROVE Stored(p) \in PageAfter(c).rows
      <4>1. p \in Nat /\ c < p /\ p <= rows /\ p <= e
        BY <1>0, <3>3
      <4>2. p \in LA
        BY <1>2, <1>4, <3>2, <4>1
      <4>3. QED
        BY <2>1, <4>2
    <3>6. QED
      BY <1>0, <3>3, <3>4, <3>5 DEF NewerRows
  <2>4. QED
    BY <2>2, <2>3
<1>7. ASSUME c > 0 PROVE OlderRows(PageBefore(c).rows, c, rows, P)
  <2>1. /\ \A o \in GB : Stored(o) \in PageBefore(c).rows
        /\ \A r \in PageBefore(c).rows : r.order \in GB
    BY <1>2, <1>3, <1>5, PageFacts
  <2>2. CASE GB = {}
    <3>1. c - 1 \in Nat /\ c - 1 < c /\ \A p \in (c - 1) + 1 .. c - 1 : FALSE
      BY <1>0, <1>7
    <3>2. QED
      BY <2>1, <2>2, <3>1 DEF OlderRows
  <2>3. CASE GB # {}
    <3> DEFINE e == Min(GB)
    <3>1. GB \subseteq Nat
      BY <1>2, <1>4
    <3>2. e \in GB /\ \A o \in GB : e <= o
      BY <2>3, <3>1, MinFacts
    <3> HIDE DEF e
    <3>3. e \in Nat /\ e < c /\ 0 < e /\ e - 1 \in Nat /\ e - 1 < c
      BY <1>0, <1>2, <1>4, <3>2
    <3>4. \A r \in PageBefore(c).rows : e - 1 < r.order /\ r.order < c
      <4>1. \A o \in GB : e - 1 < o /\ o < c
        BY <1>2, <1>4, <3>2, <3>3
      <4>2. QED
        BY <2>1, <4>1
    <3>5. ASSUME NEW p \in (e - 1) + 1 .. c - 1, p <= rows PROVE Stored(p) \in PageBefore(c).rows
      <4>1. p \in Nat /\ e <= p /\ 0 < p /\ p < c
        BY <1>0, <3>3
      <4>2. p \in GB
        BY <1>2, <1>4, <3>2, <3>5, <4>1
      <4>3. QED
        BY <2>1, <4>2
    <3>6. QED
      BY <3>3, <3>4, <3>5 DEF OlderRows
  <2>4. QED
    BY <2>2, <2>3
<1>8. NewestRows(TipPage.rows, rows, P)
  <2>1. /\ \A o \in GT : Stored(o) \in TipPage.rows
        /\ \A r \in TipPage.rows : r.order \in GT
    BY <1>2, <1>3, PageFacts
  <2>2. CASE GT = {}
    <3>1. \A p \in rows + 1 .. rows : FALSE
      BY <1>0
    <3>2. \A r \in TipPage.rows : rows < r.order /\ r.order <= rows
      BY <2>1, <2>2
    <3>3. rows \in Nat /\ rows <= rows
      BY <1>0
    <3> SUFFICES \E d, e \in Nat :
                    /\ d <= e /\ e <= rows
                    /\ \A r \in TipPage.rows : d < r.order /\ r.order <= e
                    /\ \A p \in d + 1 .. e : Stored(p) \in TipPage.rows \/ p \in P
      BY DEF NewestRows
    <3> WITNESS rows \in Nat, rows \in Nat
    <3>4. QED
      BY <3>1, <3>2, <3>3, Zenon
  <2>3. CASE GT # {}
    <3> DEFINE d == Min(GT)
    <3>1. GT \subseteq Nat
      BY <1>2, <1>4
    <3>2. d \in GT /\ \A o \in GT : d <= o
      BY <2>3, <3>1, MinFacts
    <3> HIDE DEF d
    <3>3. d \in Nat /\ d <= rows /\ 0 < d /\ d - 1 \in Nat /\ d - 1 <= rows
      BY <1>0, <1>2, <1>4, <3>2
    <3>4. \A r \in TipPage.rows : d - 1 < r.order /\ r.order <= rows
      <4>1. \A o \in GT : d - 1 < o /\ o <= rows
        BY <1>0, <1>2, <1>4, <3>2, <3>3
      <4>2. QED
        BY <2>1, <4>1
    <3>5. ASSUME NEW p \in (d - 1) + 1 .. rows PROVE Stored(p) \in TipPage.rows
      <4>1. p \in 1..rows /\ d <= p
        BY <1>0, <3>3
      <4>2. p \in GT
        BY <1>2, <3>2, <4>1
      <4>3. QED
        BY <2>1, <4>2
    <3>6. QED
      BY <1>0, <3>3, <3>4, <3>5 DEF NewestRows
  <2>4. QED
    BY <2>2, <2>3
<1>9. /\ PageAfter(c) \in PageType /\ PageAfter(c).rows \subseteq StoredRows(rows)
      /\ PageBefore(c) \in PageType /\ PageBefore(c).rows \subseteq StoredRows(rows)
      /\ TipPage \in PageType /\ TipPage.rows \subseteq StoredRows(rows)
      /\ PageAfter(c).got /\ PageBefore(c).got /\ TipPage.got
  BY <1>2, <1>3, <1>5, PageFacts
<1>10. QED
  BY <1>6, <1>7, <1>8, <1>9

(* A page of the rows w comes back as u when the rows of the orders L      *)
(* could not be decrypted: the holes are in L.                             *)
LEMMA LostFacts ==
  ASSUME NEW w, NEW u, NEW L, NEW c \in Nat, NEW n \in Nat, NEW P,
         u \subseteq w, \A r \in w : r \in u \/ r.order \in L
  PROVE  /\ NewerRows(w, c, n, P) => NewerRows(u, c, n, P \cup L)
         /\ OlderRows(w, c, n, P) => OlderRows(u, c, n, P \cup L)
         /\ NewestRows(w, n, P) => NewestRows(u, n, P \cup L)
<1>1. \A p : Stored(p) \in w \/ p \in P => Stored(p) \in u \/ p \in P \cup L
  BY RowFacts
<1>2. ASSUME NewerRows(w, c, n, P) PROVE NewerRows(u, c, n, P \cup L)
  <2>1. PICK e \in Nat : /\ c <= e /\ (e <= n \/ e = c)
                         /\ \A r \in w : c < r.order /\ r.order <= e
                         /\ \A p \in c + 1 .. e : Stored(p) \in w \/ p \in P
    BY <1>2 DEF NewerRows
  <2>2. \A r \in u : c < r.order /\ r.order <= e
    BY <2>1
  <2>3. \A p \in c + 1 .. e : Stored(p) \in u \/ p \in P \cup L
    BY <1>1, <2>1
  <2>4. QED
    BY <2>1, <2>2, <2>3 DEF NewerRows
<1>3. ASSUME OlderRows(w, c, n, P) PROVE OlderRows(u, c, n, P \cup L)
  <2>1. PICK d \in Nat : /\ d < c
                         /\ \A r \in w : d < r.order /\ r.order < c
                         /\ \A p \in d + 1 .. c - 1 : p <= n => Stored(p) \in w \/ p \in P
    BY <1>3 DEF OlderRows
  <2>2. \A r \in u : d < r.order /\ r.order < c
    BY <2>1
  <2>3. \A p \in d + 1 .. c - 1 : p <= n => Stored(p) \in u \/ p \in P \cup L
    BY <1>1, <2>1
  <2>4. QED
    BY <2>1, <2>2, <2>3 DEF OlderRows
<1>4. ASSUME NewestRows(w, n, P) PROVE NewestRows(u, n, P \cup L)
  <2>1. PICK d \in Nat, e \in Nat :
             /\ d <= e /\ e <= n
             /\ \A r \in w : d < r.order /\ r.order <= e
             /\ \A p \in d + 1 .. e : Stored(p) \in w \/ p \in P
    BY <1>4 DEF NewestRows
  <2>2. \A r \in u : d < r.order /\ r.order <= e
    BY <2>1
  <2>3. \A p \in d + 1 .. e : Stored(p) \in u \/ p \in P \cup L
    BY <1>1, <2>1
  <2>4. QED
    BY <2>1, <2>2, <2>3 DEF NewestRows
<1>5. QED
  BY <1>2, <1>3, <1>4

(* Pages stay without holes when rows are stored or pass by. *)
LEMMA PagesMono ==
  ASSUME NEW w, NEW c \in Nat, NEW n \in Nat, NEW k \in Nat, NEW P, NEW Q,
         n <= k, P \subseteq Q, \A p \in n + 1 .. c - 1 : p \in Q
  PROVE  /\ NewerRows(w, c, n, P) => NewerRows(w, c, k, Q)
         /\ OlderRows(w, c, n, P) => OlderRows(w, c, k, Q)
         /\ NewestRows(w, n, P) => NewestRows(w, k, Q)
<1>1. NewerRows(w, c, n, P) => NewerRows(w, c, k, Q)
  <2>1. \A e \in Nat : e <= n => e <= k
    OBVIOUS
  <2>2. QED
    BY <2>1 DEF NewerRows
<1>2. ASSUME OlderRows(w, c, n, P) PROVE OlderRows(w, c, k, Q)
  <2>1. PICK d \in Nat : /\ d < c
                         /\ \A r \in w : d < r.order /\ r.order < c
                         /\ \A p \in d + 1 .. c - 1 : p <= n => Stored(p) \in w \/ p \in P
    BY <1>2 DEF OlderRows
  <2>2. \A p \in d + 1 .. c - 1 : p <= k => Stored(p) \in w \/ p \in Q
    <3>1. \A p \in d + 1 .. c - 1 : p <= n \/ p \in n + 1 .. c - 1
      OBVIOUS
    <3>2. QED
      BY <2>1, <3>1
  <2>3. QED
    BY <2>1, <2>2 DEF OlderRows
<1>3. NewestRows(w, n, P) => NewestRows(w, k, Q)
  <2>1. \A e \in Nat : e <= n => e <= k
    OBVIOUS
  <2>2. QED
    BY <2>1 DEF NewestRows
<1>4. QED
  BY <1>1, <1>2, <1>3

(* What the client makes of a page. *)
LEMMA DecryptedFacts ==
  ASSUME NEW page \in PageType, page.rows \subseteq StoredRows(rows), page.got,
         rows \in 0..MaxRows, faults \in 0..MaxFaults, NEW a \in Decrypted(page)
  PROVE  /\ a.page \in PageType /\ a.page.rows \subseteq page.rows /\ a.page.got
         /\ a.lost \subseteq 1..MaxOrder /\ \A r \in page.rows : r \in a.page.rows \/ r.order \in a.lost
         /\ faults + Cardinality(a.lost) \in 0..MaxFaults
         /\ faults <= faults + Cardinality(a.lost)
<1>0. StoredRows(rows) \subseteq Row
  BY RowFacts
<1>1. CASE a = [page |-> page, lost |-> {}]
  BY <1>1, FS_EmptySet, Consts
<1>2. ASSUME NEW r \in page.rows, faults < MaxFaults,
             a = [page |-> [page EXCEPT !.rows = @ \ {r}], lost |-> {r.order}]
      PROVE  /\ a.page \in PageType /\ a.page.rows \subseteq page.rows /\ a.page.got
             /\ a.lost \subseteq 1..MaxOrder
             /\ \A q \in page.rows : q \in a.page.rows \/ q.order \in a.lost
             /\ faults + Cardinality(a.lost) \in 0..MaxFaults
             /\ faults <= faults + Cardinality(a.lost)
  <2>1. a.page = [page EXCEPT !.rows = @ \ {r}] /\ a.lost = {r.order}
    BY <1>2
  <2>2. a.page \in PageType /\ a.page.rows = page.rows \ {r} /\ a.page.got
    BY <2>1 DEF PageType
  <2>3. r \in Row /\ r.order \in 1..MaxOrder
    BY <1>0 DEF Row
  <2>4. Cardinality(a.lost) = 1
    BY <2>1, FS_Singleton
  <2>5. QED
    BY <1>2, <2>1, <2>2, <2>3, <2>4, Consts
<1>3. QED
  BY <1>1, <1>2 DEF Decrypted

-----------------------------------------------------------------------------
(* The parts of the invariant. *)

(* A request is in flight. *)
Live(r) == r # NoRequest

(* The thread: what a closed thread shows and asks, and that a request and *)
(* a load of one opening exclude each other.                               *)
ThreadOK ==
  /\ thread = "closed" => /\ view = {} /\ tip = None /\ ledger = emptyPageLedger
                          /\ load = NoLoad /\ sub = Off
  /\ thread = "loading" <=> load.st = "cold"
  /\ sub.st # "off" => thread = "open"
  /\ load.st = "none" => load = NoLoad
  /\ load.st = "warm" => load.base # {}
  /\ Live(catchup) \/ Live(older) => load.st = "none" /\ thread = "open"

(* Stubs: those of v are in T. *)
StubsIn(v, T) == \A r \in v : IsStub(r) => r.id \in T

StubsOK ==
  /\ sends <= faults
  /\ send.st = "none" => send = NoSend
  /\ send.st # "none" => send.temp \in MaxRows + 1 .. MaxRows + sends
  /\ send.st = "stored" => send.id \in 1..rows
  /\ StubsIn(view, {send.temp} \cup orphaned)
  /\ StubsIn(cache.view, {send.temp} \cup orphaned)
  /\ thread = "closed" => StubsIn(cache.view, orphaned)
  /\ thread = "closed" /\ send.st # "none" => send.temp \in orphaned
  /\ StubsIn(load.base, orphaned)

(* The list, the cursors of the hook, of its requests and of its           *)
(* subscription, and the load have one window.                             *)
ListWindow(f, g) ==
  /\ Covers(view, f, g, rows, passed, MaxRows + sends)
  /\ tip \in f..g
  /\ ledger.max = None \/ ledger.max \in f..g
  /\ view # {} => ledger.min \in f + 1 .. g
RequestWindow(f, g) ==
  /\ Live(catchup) => catchup.cursor \in f..g
  /\ Live(older) => older.cursor \in f + 1 .. g
SubWindow(f, g) == sub.st # "off" => sub.start \in f..g /\ sub.last \in f..g
LoadWindow(f, h) ==
  load.st = "warm" =>
     /\ Covers(load.base \cup view, f, h, rows, passed, MaxRows + sends)
     /\ load.ledger.max \in f..h
     /\ load.req.cursor \in f..h
Window(f, g, h) ==
  /\ ListWindow(f, g) /\ RequestWindow(f, g) /\ SubWindow(f, g)
  /\ g <= h /\ LoadWindow(f, h)
WindowOK == \E f, g, h \in Nat : Window(f, g, h)

(* What is cached is covered, and its ledger's cursor is in its window. *)
CacheOK ==
  cache.view # {} =>
     \E f, g \in Nat : /\ Covers(cache.view, f, g, rows, passed, MaxRows + sends)
                       /\ cache.ledger.max \in f..g

(* The pages that were answered and not applied yet. *)
LoadPage ==
  /\ load.req.page.rows \subseteq StoredRows(rows)
  /\ load.st = "cold" /\ load.req.page.got => NewestRows(load.req.page.rows, rows, passed)
  /\ load.st = "warm" /\ load.req.page.got =>
        NewerRows(load.req.page.rows, load.req.cursor, rows, passed)
CatchupPage ==
  /\ catchup.page.rows \subseteq StoredRows(rows)
  /\ Live(catchup) /\ catchup.page.got =>
        NewerRows(catchup.page.rows, catchup.cursor, rows, passed)
OlderPage ==
  /\ older.page.rows \subseteq StoredRows(rows)
  /\ older # NoRequest => older.cursor # None
  /\ Live(older) /\ older.page.got => OlderRows(older.page.rows, older.cursor, rows, passed)

(* The feed.  A row p is accounted for when it is shown, has passed by, is *)
(* in hand or is still to come.                                            *)
Awaited(p, v, P, s, u) ==
  \/ Stored(p) \in v \/ p \in P
  \/ p \in InHand(s)
  \/ s.open /\ p \in u
  \/ ~s.open /\ \A q \in InHand(s) : q < p

(* Every row above the generator's last order is accounted for; what is in *)
(* hand is in order and above it, and what is to come is above that.       *)
FeedOK ==
  /\ sub.open => sub.st \in {"waiting", "busy"}
  /\ sub.open \/ sub.st = "connecting" => mode = "ws"
  /\ ~Consuming => sub.held = Nothing /\ sub.queue = <<>>
  /\ sub.st = "pollbusy" => sub.queue = <<>>
  /\ Consuming => sub.held > sub.last
  /\ InHand(sub) \subseteq 0..rows
  /\ \A i \in DOMAIN sub.queue : sub.held < sub.queue[i]
  /\ \A i, j \in DOMAIN sub.queue : i < j => sub.queue[i] < sub.queue[j]
  /\ sub.open => \A p \in unpublished : sub.last < p /\ \A q \in InHand(sub) : q < p
  /\ sub.st # "off" =>
        \A p \in sub.last + 1 .. rows : Awaited(p, view, passed, sub, unpublished)

IInv == /\ Typed /\ ThreadOK /\ StubsOK /\ WindowOK /\ CacheOK
        /\ LoadPage /\ CatchupPage /\ OlderPage /\ FeedOK

-----------------------------------------------------------------------------
(* Frames. *)

(* Rows are only stored, orders only pass by and sends are only made. *)
Grows ==
  /\ rows \in 0..MaxRows /\ rows' \in 0..MaxRows /\ rows <= rows'
  /\ sends \in 0..MaxFaults /\ sends' \in 0..MaxFaults /\ sends <= sends'
  /\ passed \subseteq passed'

(* The numbers of a step that grows. *)
LEMMA GrowsFacts ==
  ASSUME Grows
  PROVE  /\ rows \in Nat /\ rows' \in Nat /\ rows <= rows'
         /\ MaxRows + sends \in Nat /\ MaxRows + sends' \in Nat
         /\ MaxRows + sends <= MaxRows + sends' /\ passed \subseteq passed'
         /\ MaxRows <= MaxRows + sends /\ MaxRows + sends' <= MaxOrder
<1>1. rows \in Nat /\ rows' \in Nat /\ rows <= rows' /\ passed \subseteq passed'
  BY Consts DEF Grows
<1>2. sends \in Nat /\ sends' \in Nat /\ sends <= sends' /\ sends' <= MaxFaults
  BY Consts DEF Grows
<1>3. MaxRows \in Nat /\ MaxFaults \in Nat /\ MaxOrder = MaxRows + MaxFaults
  BY Consts
<1>4. \A a, b \in Nat : a <= b /\ b <= MaxFaults =>
         /\ MaxRows + a \in Nat /\ MaxRows + b \in Nat /\ MaxRows + a <= MaxRows + b
         /\ MaxRows <= MaxRows + a /\ MaxRows + b <= MaxOrder
  BY <1>3
<1>5. QED
  BY <1>1, <1>2, <1>4, Zenon

(* A step that stores and sends nothing grows. *)
LEMMA GrowsHere ==
  ASSUME Typed, UNCHANGED <<rows, sends>>, passed \subseteq passed'
  PROVE  Grows
<1>1. rows \in 0..MaxRows /\ sends \in 0..MaxFaults
  BY DEF Typed, FeedTypeOK
<1>2. rows <= rows /\ sends <= sends
  BY <1>1, Consts
<1>3. QED
  BY <1>1, <1>2 DEF Grows

(* The cache is left alone. *)
LEMMA CacheFrame ==
  ASSUME CacheOK, Grows, cache' = cache
  PROVE  CacheOK'
<1> SUFFICES ASSUME cache.view # {}
             PROVE  \E f, g \in Nat :
                       /\ Covers(cache.view, f, g, rows', passed', MaxRows + sends')
                       /\ cache.ledger.max \in f..g
  BY DEF CacheOK
<1>1. PICK f \in Nat, g \in Nat : /\ Covers(cache.view, f, g, rows, passed, MaxRows + sends)
                                  /\ cache.ledger.max \in f..g
  BY DEF CacheOK
<1>2. Covers(cache.view, f, g, rows', passed', MaxRows + sends')
  BY <1>1, GrowsFacts, CoversMono
<1>3. QED
  BY <1>1, <1>2

(* The list is left alone. *)
LEMMA ListFrame ==
  ASSUME NEW f, NEW g, ListWindow(f, g), Grows, UNCHANGED <<view, tip, ledger>>
  PROVE  ListWindow(f, g)'
<1>1. Covers(view, f, g, rows', passed', MaxRows + sends')
  BY GrowsFacts, CoversMono DEF ListWindow
<1>2. QED
  BY <1>1 DEF ListWindow

(* The load's rows and cursor, and the list, are left alone. *)
LEMMA LoadFrame ==
  ASSUME NEW f, NEW h, LoadWindow(f, h), Grows, UNCHANGED view,
         load'.st = load.st /\ load'.base = load.base /\ load'.ledger = load.ledger
         /\ load'.req.cursor = load.req.cursor
  PROVE  LoadWindow(f, h)'
<1> SUFFICES ASSUME load.st = "warm"
             PROVE  /\ Covers(load.base \cup view, f, h, rows', passed', MaxRows + sends')
                    /\ load.ledger.max \in f..h
                    /\ load.req.cursor \in f..h
  BY DEF LoadWindow
<1>1. Covers(load.base \cup view, f, h, rows, passed, MaxRows + sends)
  BY DEF LoadWindow
<1>2. QED
  BY <1>1, GrowsFacts, CoversMono DEF LoadWindow

(* The pages are left alone, or a request is dropped. *)
LEMMA PagesFrame ==
  ASSUME Typed, WindowOK, LoadPage, CatchupPage, OlderPage, Grows
  PROVE  /\ load' = load => LoadPage'
         /\ catchup' = catchup => CatchupPage'
         /\ older' = older => OlderPage'
         /\ load' = NoLoad => LoadPage'
         /\ catchup' = NoRequest => CatchupPage'
         /\ older' = NoRequest => OlderPage'
<1>1. StoredRows(rows) \subseteq StoredRows(rows')
  <2>1. 1..rows \subseteq 1..rows'
    BY GrowsFacts
  <2>2. QED
    BY <2>1 DEF StoredRows
<1>2. load.req.cursor \in Nat /\ catchup.cursor \in Nat /\ older.cursor \in Nat
  BY Consts DEF Typed, LoadType, RequestType
<1>3. Live(older) => \A p \in rows + 1 .. older.cursor - 1 : p \in passed'
  <2> SUFFICES ASSUME Live(older), NEW p \in rows + 1 .. older.cursor - 1 PROVE p \in passed'
    OBVIOUS
  <2>1. PICK f \in Nat, g \in Nat : ListWindow(f, g) /\ older.cursor \in f + 1 .. g
    BY DEF WindowOK, Window, RequestWindow
  <2>2. p \in rows + 1 .. g
    BY <1>2, <2>1, GrowsFacts
  <2>3. QED
    BY <2>1, <2>2, GrowsFacts DEF ListWindow, Covers
<1>4. ASSUME load' = load PROVE LoadPage'
  <2> DEFINE w == load.req.page.rows
             c == load.req.cursor
  <2>1. NewestRows(w, rows, passed) => NewestRows(w, rows', passed')
    BY GrowsFacts DEF NewestRows
  <2>2. NewerRows(w, c, rows, passed) => NewerRows(w, c, rows', passed')
    <3>1. \A e \in Nat : e <= rows => e <= rows'
      BY GrowsFacts
    <3>2. QED
      BY <3>1, GrowsFacts DEF NewerRows
  <2>3. QED
    BY <1>1, <1>4, <2>1, <2>2 DEF LoadPage
<1>5. ASSUME catchup' = catchup PROVE CatchupPage'
  <2> DEFINE w == catchup.page.rows
             c == catchup.cursor
  <2>1. NewerRows(w, c, rows, passed) => NewerRows(w, c, rows', passed')
    <3>1. \A e \in Nat : e <= rows => e <= rows'
      BY GrowsFacts
    <3>2. QED
      BY <3>1, GrowsFacts DEF NewerRows
  <2>2. QED
    BY <1>1, <1>5, <2>1 DEF CatchupPage
<1>6. ASSUME older' = older PROVE OlderPage'
  <2>1. Live(older) /\ OlderRows(older.page.rows, older.cursor, rows, passed) =>
           OlderRows(older.page.rows, older.cursor, rows', passed')
    BY <1>2, <1>3, GrowsFacts, PagesMono
  <2>2. Live(older)' = Live(older)
    BY <1>6 DEF Live
  <2>3. QED
    BY <1>1, <1>6, <2>1, <2>2 DEF OlderPage
<1>7. load' = NoLoad => LoadPage'
  BY DEF LoadPage, NoLoad, NoRequest, NoPage
<1>8. (catchup' = NoRequest => CatchupPage') /\ (older' = NoRequest => OlderPage')
  BY DEF CatchupPage, OlderPage, NoRequest, NoPage
<1>9. QED
  BY <1>4, <1>5, <1>6, <1>7, <1>8

(* The feed is left alone, and the list and the history keep its rows. *)
LEMMA FeedFrame ==
  ASSUME FeedOK, FeedTypeOK, UNCHANGED <<rows, unpublished, mode, sub>>, passed \subseteq passed',
         sub.st # "off" => Keeps(view, view', rows, passed')
  PROVE  FeedOK'
<1>1. Consuming' = Consuming /\ InHand(sub)' = InHand(sub)
  BY DEF Consuming, InHand
<1>2. ASSUME sub.st # "off", NEW p \in sub.last + 1 .. rows
      PROVE  Awaited(p, view', passed', sub, unpublished)
  <2>1. p \in 1..rows
    BY DEF FeedTypeOK
  <2>2. Awaited(p, view, passed, sub, unpublished)
    BY <1>2 DEF FeedOK
  <2>3. QED
    BY <1>2, <2>1, <2>2 DEF Awaited, Keeps
<1>3. QED
  BY <1>1, <1>2 DEF FeedOK

-----------------------------------------------------------------------------
(* Steps that leave the list and the feed alone. *)

(* The null records and a new request are of their types. *)
LEMMA NullFacts ==
  /\ emptyPageLedger \in Ledger /\ emptyPageLedger.max = None /\ emptyPageLedger.min = None
  /\ NoPage \in PageType /\ NoPage.rows = {} /\ ~NoPage.got
  /\ NoRequest \in RequestType /\ NoRequest.page = NoPage /\ ~Live(NoRequest)
  /\ NoLoad \in LoadType /\ NoLoad.st = "none" /\ NoLoad.base = {} /\ NoLoad.req = NoRequest
  /\ \A c \in 0..MaxOrder, n \in 1..MaxPages :
        /\ Ask(c, n) \in RequestType /\ Ask(c, n).cursor = c /\ Ask(c, n).page = NoPage
        /\ Ask(c, n) # NoRequest /\ Ask(c, n).pages = n
<1>1. /\ emptyPageLedger \in Ledger /\ emptyPageLedger.max = None /\ emptyPageLedger.min = None
  BY Consts DEF emptyPageLedger, Ledger, None
<1>2. NoPage \in PageType /\ NoPage.rows = {} /\ ~NoPage.got
  BY DEF NoPage, PageType
<1>3. NoRequest \in RequestType /\ NoRequest.page = NoPage /\ ~Live(NoRequest)
  BY <1>2, Consts DEF NoRequest, RequestType, None, Live
<1>4. NoLoad \in LoadType /\ NoLoad.st = "none" /\ NoLoad.base = {} /\ NoLoad.req = NoRequest
  BY <1>1, <1>3 DEF NoLoad, LoadType
<1>5. ASSUME NEW c \in 0..MaxOrder, NEW n \in 1..MaxPages
      PROVE  /\ Ask(c, n) \in RequestType /\ Ask(c, n).cursor = c /\ Ask(c, n).page = NoPage
             /\ Ask(c, n) # NoRequest /\ Ask(c, n).pages = n
  <2>1. n \in 0..MaxPages /\ n # 0
    BY Consts
  <2>2. Ask(c, n) = [cursor |-> c, pages |-> n, page |-> NoPage]
    BY DEF Ask
  <2>3. NoRequest.pages = 0
    BY DEF NoRequest
  <2>4. QED
    BY <1>2, <2>1, <2>2, <2>3 DEF RequestType
<1>6. QED
  BY <1>1, <1>2, <1>3, <1>4, <1>5

(* A step that changes requests, or ends the load, and nothing of the list *)
(* and the feed: what it owes is about the requests.                       *)
LEMMA RequestFrame ==
  ASSUME IInv,
         UNCHANGED <<rows, unpublished, mode, sub, view, ledger, tip, cache, send, sends, orphaned>>,
         visible' \in BOOLEAN, faults' \in 0..MaxFaults, faults <= faults',
         passed \subseteq passed', passed' \subseteq 1..MaxOrder,
         load' \in LoadType, catchup' \in RequestType, older' \in RequestType,
         \/ /\ thread' = thread /\ load'.st = load.st /\ load'.base = load.base
            /\ load'.ledger = load.ledger /\ load'.req.cursor = load.req.cursor
            /\ load.st = "none" => load' = load
         \/ thread # "closed" /\ thread' = "open" /\ load' = NoLoad,
         Live(catchup)' => Live(catchup) \/ (load.st = "none" /\ thread = "open"),
         Live(older)' => Live(older) \/ (load.st = "none" /\ thread = "open"),
         \A f, g \in Nat : ListWindow(f, g) /\ RequestWindow(f, g) => RequestWindow(f, g)',
         LoadPage', CatchupPage', OlderPage'
  PROVE  IInv'
<1>0. Typed /\ ThreadOK /\ StubsOK /\ WindowOK /\ CacheOK /\ FeedOK
  BY DEF IInv
<1>1. Grows
  BY <1>0, GrowsHere
<1>2. Typed'
  <2>1. FeedTypeOK'
    BY <1>0 DEF Typed, FeedTypeOK
  <2>2. thread' \in {"closed", "loading", "open"}
    BY <1>0 DEF Typed
  <2>3. QED
    BY <1>0, <2>1, <2>2 DEF Typed
<1>3. ThreadOK'
  <2>1. NoLoad.st = "none" /\ NoLoad.base = {}
    BY NullFacts
  <2>2. Live(catchup)' \/ Live(older)' => load.st = "none" /\ thread = "open"
    BY <1>0 DEF ThreadOK
  <2>3. CASE thread' = thread /\ load'.st = load.st /\ load'.base = load.base
             /\ (load.st = "none" => load' = load)
    BY <1>0, <2>1, <2>2, <2>3 DEF ThreadOK
  <2>4. CASE thread # "closed" /\ thread' = "open" /\ load' = NoLoad
    BY <1>0, <2>1, <2>2, <2>4 DEF ThreadOK
  <2>5. QED
    BY <2>3, <2>4
<1>4. StubsOK'
  <2>1. sends' <= faults'
    BY <1>0, Consts DEF StubsOK, Typed, FeedTypeOK
  <2>2. load'.base = load.base \/ load'.base = {}
    BY NullFacts
  <2>3. StubsIn(load'.base, orphaned)
    BY <1>0, <2>2 DEF StubsOK, StubsIn
  <2>4. thread' = "closed" => thread = "closed"
    OBVIOUS
  <2>5. QED
    BY <1>0, <2>1, <2>3, <2>4 DEF StubsOK
<1>5. WindowOK'
  <2>1. PICK f \in Nat, g \in Nat, h \in Nat : Window(f, g, h)
    BY <1>0 DEF WindowOK
  <2>2. ListWindow(f, g)'
    BY <1>1, <2>1, ListFrame DEF Window
  <2>3. RequestWindow(f, g)' /\ SubWindow(f, g)'
    BY <2>1 DEF Window, SubWindow
  <2>4. LoadWindow(f, h)'
    <3>1. CASE load' = NoLoad
      BY <3>1, NullFacts DEF LoadWindow
    <3>2. CASE load' # NoLoad
      BY <1>1, <2>1, <3>2, LoadFrame DEF Window
    <3>3. QED
      BY <3>1, <3>2
  <2>5. Window(f, g, h)'
    BY <2>1, <2>2, <2>3, <2>4 DEF Window
  <2>6. QED
    BY <2>5 DEF WindowOK
<1>6. CacheOK'
  BY <1>0, <1>1, CacheFrame
<1>7. FeedOK'
  <2>1. Keeps(view, view', rows, passed')
    BY DEF Keeps
  <2>2. QED
    BY <1>0, <2>1, FeedFrame DEF Typed
<1>8. QED
  BY <1>2, <1>3, <1>4, <1>5, <1>6, <1>7 DEF IInv

(* A new catch-up starts at the ledger's newest order. *)
LEMMA FocusIInv ==
  ASSUME IInv, Focus \/ ShowTab
  PROVE  IInv'
<1>0. Typed /\ ThreadOK /\ WindowOK /\ LoadPage /\ CatchupPage /\ OlderPage
  BY DEF IInv
<1>1. /\ UNCHANGED <<rows, unpublished, mode, sub, view, ledger, tip, cache, send, sends, orphaned>>
      /\ UNCHANGED <<faults, passed, thread, load, older>> /\ visible' \in BOOLEAN
      /\ catchUpNewerMessages
  BY <1>0 DEF Focus, ShowTab, feedVars, Typed
<1>2. Grows
  BY <1>0, <1>1, GrowsHere
<1>3. faults' \in 0..MaxFaults /\ faults <= faults' /\ load' \in LoadType /\ older' \in RequestType
      /\ passed' \subseteq 1..MaxOrder
  BY <1>0, <1>1, Consts DEF Typed, FeedTypeOK
<1>4. LoadPage' /\ OlderPage'
  BY <1>0, <1>1, <1>2, PagesFrame
<1>5. CASE catchup' = catchup
  <2>1. CatchupPage'
    BY <1>0, <1>2, <1>5, PagesFrame
  <2>2. catchup' \in RequestType
    BY <1>0, <1>5 DEF Typed
  <2>3. (Live(catchup)' => Live(catchup)) /\ (Live(older)' => Live(older))
    BY <1>1, <1>5 DEF Live
  <2>4. \A f, g \in Nat : RequestWindow(f, g) => RequestWindow(f, g)'
    BY <1>1, <1>5, <2>3 DEF RequestWindow
  <2>5. QED
    BY <1>1, <1>3, <1>4, <2>1, <2>2, <2>3, <2>4, RequestFrame
<1>6. CASE catchup' # catchup
  <2>1. /\ load.st = "none" /\ thread = "open" /\ ledger.max # None
        /\ catchup' = Ask(ledger.max, 1)
    BY <1>1, <1>6 DEF catchUpNewerMessages
  <2>2. ledger.max \in 0..MaxOrder /\ 1 \in 1..MaxPages
    BY <1>0, Consts DEF Typed, Ledger
  <2>3. /\ catchup' \in RequestType /\ catchup'.cursor = ledger.max /\ catchup'.page = NoPage
        /\ NoPage.rows = {} /\ ~NoPage.got
    BY <2>1, <2>2, NullFacts
  <2>4. CatchupPage'
    BY <2>3 DEF CatchupPage
  <2>5. Live(older)' => Live(older)
    BY <1>1 DEF Live
  <2>6. \A f, g \in Nat : ListWindow(f, g) /\ RequestWindow(f, g) => RequestWindow(f, g)'
    BY <1>1, <2>1, <2>3, <2>5 DEF RequestWindow, ListWindow
  <2>7. QED
    BY <1>1, <1>3, <1>4, <2>1, <2>3, <2>4, <2>5, <2>6, RequestFrame
<1>7. QED
  BY <1>5, <1>6

(* A new page of older rows is asked before the ledger's oldest order. *)
LEMMA LoadMoreIInv ==
  ASSUME IInv, loadMore
  PROVE  IInv'
<1>0. Typed /\ ThreadOK /\ WindowOK /\ LoadPage /\ CatchupPage /\ OlderPage
  BY DEF IInv
<1>1. /\ UNCHANGED <<rows, unpublished, mode, sub, view, ledger, tip, cache, send, sends, orphaned>>
      /\ UNCHANGED <<faults, passed, thread, load, catchup, visible>>
      /\ thread # "closed" /\ load.st = "none" /\ view # {}
      /\ older' = Ask(ledger.min, 1) /\ ledger.min # None
  BY DEF loadMore, feedVars, shouldFetchOlderPage
<1>2. Grows
  BY <1>0, <1>1, GrowsHere
<1>3. /\ faults' \in 0..MaxFaults /\ faults <= faults' /\ load' \in LoadType
      /\ catchup' \in RequestType /\ passed' \subseteq 1..MaxOrder /\ visible' \in BOOLEAN
  BY <1>0, <1>1, Consts DEF Typed, FeedTypeOK
<1>4. LoadPage' /\ CatchupPage'
  BY <1>0, <1>1, <1>2, PagesFrame
<1>5. ledger.min \in 0..MaxOrder /\ 1 \in 1..MaxPages
  BY <1>0, Consts DEF Typed, Ledger
<1>6. /\ older' \in RequestType /\ older'.cursor = ledger.min /\ older'.page = NoPage
      /\ NoPage.rows = {} /\ ~NoPage.got
  BY <1>1, <1>5, NullFacts
<1>7. OlderPage'
  BY <1>1, <1>6 DEF OlderPage
<1>8. thread = "open"
  BY <1>0, <1>1 DEF Typed, ThreadOK
<1>9. Live(catchup)' => Live(catchup)
  BY <1>1 DEF Live
<1>10. \A f, g \in Nat : ListWindow(f, g) /\ RequestWindow(f, g) => RequestWindow(f, g)'
  BY <1>1, <1>6, <1>9 DEF RequestWindow, ListWindow
<1>11. QED
  BY <1>1, <1>3, <1>4, <1>6, <1>7, <1>8, <1>9, <1>10, RequestFrame

(* A request or the load fails. *)
LEMMA FailsIInv ==
  ASSUME IInv, RequestFails \/ LoadFails
  PROVE  IInv'
<1>0. Typed /\ ThreadOK /\ WindowOK /\ LoadPage /\ CatchupPage /\ OlderPage
  BY DEF IInv
<1>1. /\ UNCHANGED <<rows, unpublished, mode, sub, view, ledger, tip, cache, send, sends, orphaned>>
      /\ UNCHANGED <<passed, visible>> /\ Fault
      /\ \/ load' = load /\ thread' = thread
         \/ load' = NoLoad /\ thread' = "open" /\ load.st # "none"
      /\ catchup' = catchup \/ catchup' = NoRequest
      /\ older' = older \/ older' = NoRequest
  BY DEF RequestFails, LoadFails
<1>2. Grows
  BY <1>0, <1>1, GrowsHere
<1>3. /\ faults' \in 0..MaxFaults /\ faults <= faults'
  <2>1. faults \in 0..MaxFaults /\ faults < MaxFaults /\ faults' = faults + 1
    BY <1>0, <1>1 DEF Typed, FeedTypeOK, Fault
  <2>2. QED
    BY <2>1, Consts
<1>4. /\ load' \in LoadType /\ catchup' \in RequestType /\ older' \in RequestType
      /\ passed' \subseteq 1..MaxOrder /\ visible' \in BOOLEAN
  BY <1>0, <1>1, NullFacts DEF Typed
<1>5. LoadPage' /\ CatchupPage' /\ OlderPage'
  BY <1>0, <1>1, <1>2, PagesFrame
<1>6. thread = "closed" => load.st = "none"
  BY <1>0, NullFacts DEF ThreadOK
<1>7. (Live(catchup)' => Live(catchup)) /\ (Live(older)' => Live(older))
  BY <1>1, NullFacts DEF Live
<1>8. \A f, g \in Nat : RequestWindow(f, g) => RequestWindow(f, g)'
  <2>1. (Live(catchup)' => catchup' = catchup) /\ (Live(older)' => older' = older)
    BY <1>1, NullFacts DEF Live
  <2>2. QED
    BY <1>7, <2>1 DEF RequestWindow
<1>9. QED
  BY <1>1, <1>3, <1>4, <1>5, <1>6, <1>7, <1>8, RequestFrame

(* The relayer answers: the page is that of the cursor, and what the       *)
(* client could not decrypt passes by.                                     *)
LEMMA AnsweredIInv ==
  ASSUME IInv, LoadAnswered \/ CatchUpAnswered \/ OlderAnswered
  PROVE  IInv'
<1>0. Typed /\ ThreadOK /\ WindowOK /\ LoadPage /\ CatchupPage /\ OlderPage
  BY DEF IInv
<1>1. /\ UNCHANGED <<rows, unpublished, mode, sub, view, ledger, tip, cache, send, sends, orphaned>>
      /\ UNCHANGED <<visible, thread>>
  BY DEF LoadAnswered, CatchUpAnswered, OlderAnswered, Answer
<1>2. /\ rows \in 0..MaxRows /\ rows \in Nat /\ faults \in 0..MaxFaults /\ passed \subseteq 1..MaxOrder
      /\ load \in LoadType /\ catchup \in RequestType /\ older \in RequestType
      /\ visible' \in BOOLEAN
  BY <1>0, <1>1, Consts DEF Typed, FeedTypeOK
<1>3. /\ load.req.cursor \in 0..MaxOrder /\ catchup.cursor \in 0..MaxOrder
      /\ older.cursor \in 0..MaxOrder /\ MaxOrder \in Nat
      /\ load.req.cursor \in Nat /\ catchup.cursor \in Nat /\ older.cursor \in Nat
  BY <1>2, Consts DEF LoadType, RequestType
<1>4. ASSUME LoadAnswered PROVE IInv'
  <2> DEFINE page == IF load.st = "cold" THEN TipPage ELSE PageAfter(load.req.cursor)
  <2>1. PICK a \in Decrypted(page) : Answer(a) /\ load' = [load EXCEPT !.req.page = a.page]
    BY <1>4 DEF LoadAnswered
  <2>2. UNCHANGED <<catchup, older>>
    BY <1>4 DEF LoadAnswered
  <2>3. page \in PageType /\ page.rows \subseteq StoredRows(rows) /\ page.got
    BY <1>2, <1>3, AnswerFacts
  <2>4. /\ load.st = "cold" => NewestRows(page.rows, rows, passed)
        /\ load.st = "warm" => NewerRows(page.rows, load.req.cursor, rows, passed)
    BY <1>2, <1>3, AnswerFacts
  <2> HIDE DEF page
  <2>5. /\ a.page \in PageType /\ a.page.rows \subseteq page.rows /\ a.page.got
        /\ a.lost \subseteq 1..MaxOrder
        /\ \A r \in page.rows : r \in a.page.rows \/ r.order \in a.lost
        /\ faults + Cardinality(a.lost) \in 0..MaxFaults
        /\ faults <= faults + Cardinality(a.lost)
    BY <1>2, <2>1, <2>3, DecryptedFacts
  <2>6. /\ load.st = "cold" => NewestRows(a.page.rows, rows, passed \cup a.lost)
        /\ load.st = "warm" =>
              NewerRows(a.page.rows, load.req.cursor, rows, passed \cup a.lost)
    BY <1>2, <1>3, <2>4, <2>5, LostFacts
  <2>7. /\ faults' \in 0..MaxFaults /\ faults <= faults' /\ passed' = passed \cup a.lost
        /\ passed \subseteq passed' /\ passed' \subseteq 1..MaxOrder
    BY <1>2, <2>1, <2>5 DEF Answer
  <2>8. /\ load' \in LoadType /\ load'.st = load.st /\ load'.base = load.base
        /\ load'.ledger = load.ledger /\ load'.req.cursor = load.req.cursor
        /\ load'.req.page = a.page
    BY <1>2, <2>1, <2>5 DEF LoadType, RequestType
  <2>9. LoadPage'
    BY <1>1, <2>3, <2>5, <2>6, <2>7, <2>8 DEF LoadPage
  <2>10. CatchupPage' /\ OlderPage'
    BY <1>0, <1>1, <2>2, <2>7, GrowsHere, PagesFrame
  <2>11. /\ (Live(catchup)' => Live(catchup)) /\ (Live(older)' => Live(older))
         /\ \A f, g \in Nat : RequestWindow(f, g) => RequestWindow(f, g)'
    BY <2>2 DEF RequestWindow, Live
  <2>12. load.st # "none"
    BY <1>4 DEF LoadAnswered
  <2>13. QED
    BY <1>1, <1>2, <2>2, <2>7, <2>8, <2>9, <2>10, <2>11, <2>12, RequestFrame
<1>5. ASSUME CatchUpAnswered PROVE IInv'
  <2> DEFINE page == PageAfter(catchup.cursor)
  <2>1. PICK a \in Decrypted(page) : Answer(a) /\ catchup' = [catchup EXCEPT !.page = a.page]
    BY <1>5 DEF CatchUpAnswered
  <2>2. UNCHANGED <<load, older>> /\ catchup # NoRequest
    BY <1>5 DEF CatchUpAnswered
  <2>3. page \in PageType /\ page.rows \subseteq StoredRows(rows) /\ page.got
    BY <1>2, <1>3, AnswerFacts
  <2>4. NewerRows(page.rows, catchup.cursor, rows, passed)
    BY <1>2, <1>3, AnswerFacts
  <2> HIDE DEF page
  <2>5. /\ a.page \in PageType /\ a.page.rows \subseteq page.rows /\ a.page.got
        /\ a.lost \subseteq 1..MaxOrder
        /\ \A r \in page.rows : r \in a.page.rows \/ r.order \in a.lost
        /\ faults + Cardinality(a.lost) \in 0..MaxFaults
        /\ faults <= faults + Cardinality(a.lost)
    BY <1>2, <2>1, <2>3, DecryptedFacts
  <2>6. NewerRows(a.page.rows, catchup.cursor, rows, passed \cup a.lost)
    BY <1>2, <1>3, <2>4, <2>5, LostFacts
  <2>7. /\ faults' \in 0..MaxFaults /\ faults <= faults' /\ passed' = passed \cup a.lost
        /\ passed \subseteq passed' /\ passed' \subseteq 1..MaxOrder
    BY <1>2, <2>1, <2>5 DEF Answer
  <2>8. /\ catchup' \in RequestType /\ catchup'.cursor = catchup.cursor
        /\ catchup'.page = a.page
    BY <1>2, <2>1, <2>5 DEF RequestType
  <2>9. CatchupPage'
    BY <1>1, <2>3, <2>5, <2>6, <2>7, <2>8 DEF CatchupPage
  <2>10. LoadPage' /\ OlderPage'
    BY <1>0, <1>1, <2>2, <2>7, GrowsHere, PagesFrame
  <2>11. (Live(catchup)' => Live(catchup)) /\ (Live(older)' => Live(older))
    BY <2>2, <2>8 DEF Live
  <2>12. \A f, g \in Nat : RequestWindow(f, g) => RequestWindow(f, g)'
    BY <2>2, <2>8, <2>11 DEF RequestWindow
  <2>13. load' \in LoadType
    BY <1>2, <2>2
  <2>14. QED
    BY <1>1, <1>2, <2>2, <2>7, <2>8, <2>9, <2>10, <2>11, <2>12, <2>13, RequestFrame
<1>6. ASSUME OlderAnswered PROVE IInv'
  <2> DEFINE page == PageBefore(older.cursor)
  <2>1. PICK a \in Decrypted(page) : Answer(a) /\ older' = [older EXCEPT !.page = a.page]
    BY <1>6 DEF OlderAnswered
  <2>2. UNCHANGED <<load, catchup>> /\ older # NoRequest
    BY <1>6 DEF OlderAnswered
  <2>3. page \in PageType /\ page.rows \subseteq StoredRows(rows) /\ page.got
    BY <1>2, <1>3, AnswerFacts
  <2>4. Live(older) => OlderRows(page.rows, older.cursor, rows, passed)
    <3> SUFFICES ASSUME Live(older) PROVE OlderRows(page.rows, older.cursor, rows, passed)
      OBVIOUS
    <3>1. PICK f \in Nat, g \in Nat : older.cursor \in f + 1 .. g
      BY <1>0 DEF WindowOK, Window, RequestWindow
    <3>2. older.cursor > 0
      BY <1>3, <3>1
    <3>3. QED
      BY <1>2, <1>3, <3>2, AnswerFacts
  <2> HIDE DEF page
  <2>5. /\ a.page \in PageType /\ a.page.rows \subseteq page.rows /\ a.page.got
        /\ a.lost \subseteq 1..MaxOrder
        /\ \A r \in page.rows : r \in a.page.rows \/ r.order \in a.lost
        /\ faults + Cardinality(a.lost) \in 0..MaxFaults
        /\ faults <= faults + Cardinality(a.lost)
    BY <1>2, <2>1, <2>3, DecryptedFacts
  <2>6. Live(older) => OlderRows(a.page.rows, older.cursor, rows, passed \cup a.lost)
    BY <1>2, <1>3, <2>4, <2>5, LostFacts
  <2>7. /\ faults' \in 0..MaxFaults /\ faults <= faults' /\ passed' = passed \cup a.lost
        /\ passed \subseteq passed' /\ passed' \subseteq 1..MaxOrder
    BY <1>2, <2>1, <2>5 DEF Answer
  <2>8. /\ older' \in RequestType /\ older'.cursor = older.cursor
        /\ older'.page = a.page
    BY <1>2, <2>1, <2>5 DEF RequestType
  <2>9. (Live(catchup)' => Live(catchup)) /\ (Live(older)' => Live(older))
    BY <2>2, <2>8 DEF Live
  <2>10. OlderPage'
    BY <1>0, <1>1, <2>2, <2>3, <2>5, <2>6, <2>7, <2>8, <2>9 DEF OlderPage
  <2>11. LoadPage' /\ CatchupPage'
    BY <1>0, <1>1, <2>2, <2>7, GrowsHere, PagesFrame
  <2>12. \A f, g \in Nat : RequestWindow(f, g) => RequestWindow(f, g)'
    BY <2>2, <2>8, <2>9 DEF RequestWindow
  <2>13. load' \in LoadType
    BY <1>2, <2>2
  <2>14. QED
    BY <1>1, <1>2, <2>2, <2>7, <2>8, <2>9, <2>10, <2>11, <2>12, <2>13, RequestFrame
<1>7. QED
  BY <1>4, <1>5, <1>6

-----------------------------------------------------------------------------
(* The feed. *)

(* What is in hand after a frame is queued or the next one is taken. *)
LEMMA QueueFacts ==
  /\ Range(<<>>) = {}
  /\ \A q \in Seq(Orders), o \in Orders :
        /\ Append(q, o) \in Seq(Orders) /\ Range(Append(q, o)) = Range(q) \cup {o}
        /\ Len(Append(q, o)) = Len(q) + 1 /\ Append(q, o)[Len(q) + 1] = o
        /\ \A i \in DOMAIN q : Append(q, o)[i] = q[i]
  /\ \A q \in Seq(Orders) :
        /\ DOMAIN q = 1..Len(q) /\ Len(q) \in Nat /\ Range(q) \subseteq Orders
        /\ \A i \in DOMAIN q : q[i] \in Range(q)
  /\ \A q \in Seq(Orders) : q # <<>> =>
        /\ Tail(q) \in Seq(Orders) /\ Head(q) = q[1] /\ 1 \in DOMAIN q
        /\ Range(q) = {Head(q)} \cup Range(Tail(q))
        /\ \A i \in DOMAIN Tail(q) : i \in Nat /\ i + 1 \in DOMAIN q /\ Tail(q)[i] = q[i + 1] /\ 1 < i + 1
<1>1. Range(<<>>) = {}
  BY DEF Range
<1>2. ASSUME NEW q \in Seq(Orders), NEW o \in Orders
      PROVE  /\ Append(q, o) \in Seq(Orders) /\ Range(Append(q, o)) = Range(q) \cup {o}
             /\ Len(Append(q, o)) = Len(q) + 1 /\ Append(q, o)[Len(q) + 1] = o
             /\ \A i \in DOMAIN q : Append(q, o)[i] = q[i]
  <2>1. /\ Append(q, o) \in Seq(Orders) /\ Len(Append(q, o)) = Len(q) + 1
        /\ Append(q, o)[Len(q) + 1] = o /\ DOMAIN q = 1..Len(q) /\ Len(q) \in Nat
        /\ DOMAIN Append(q, o) = 1..Len(q) + 1
        /\ \A i \in 1..Len(q) : Append(q, o)[i] = q[i]
    OBVIOUS
  <2>2. \A i \in 1..Len(q) + 1 : i \in 1..Len(q) \/ i = Len(q) + 1
    BY <2>1
  <2>3. Len(q) + 1 \in 1..Len(q) + 1 /\ 1..Len(q) \subseteq 1..Len(q) + 1
    BY <2>1
  <2>4. QED
    BY <2>1, <2>2, <2>3 DEF Range
<1>3. \A q \in Seq(Orders) :
        /\ DOMAIN q = 1..Len(q) /\ Len(q) \in Nat /\ Range(q) \subseteq Orders
        /\ \A i \in DOMAIN q : q[i] \in Range(q)
  BY DEF Range
<1>4. ASSUME NEW q \in Seq(Orders), q # <<>>
      PROVE  /\ Tail(q) \in Seq(Orders) /\ Head(q) = q[1] /\ 1 \in DOMAIN q
             /\ Range(q) = {Head(q)} \cup Range(Tail(q))
             /\ \A i \in DOMAIN Tail(q) :
                   i \in Nat /\ i + 1 \in DOMAIN q /\ Tail(q)[i] = q[i + 1] /\ 1 < i + 1
  <2>1. /\ Tail(q) \in Seq(Orders) /\ Head(q) = q[1] /\ Len(q) \in Nat /\ Len(q) > 0
        /\ DOMAIN q = 1..Len(q) /\ DOMAIN Tail(q) = 1..Len(q) - 1
        /\ \A i \in 1..Len(q) - 1 : Tail(q)[i] = q[i + 1]
    BY <1>4
  <2>2. \A i \in 1..Len(q) - 1 : i \in Nat /\ i + 1 \in 1..Len(q) /\ 1 < i + 1
    BY <2>1
  <2>3. \A i \in 1..Len(q) : i = 1 \/ (i - 1 \in 1..Len(q) - 1 /\ (i - 1) + 1 = i)
    BY <2>1
  <2>4. 1 \in 1..Len(q)
    BY <2>1
  <2>5. Range(q) \subseteq {Head(q)} \cup Range(Tail(q))
    <3> SUFFICES ASSUME NEW i \in 1..Len(q), q[i] # Head(q) PROVE q[i] \in Range(Tail(q))
      BY <2>1 DEF Range
    <3>1. i - 1 \in DOMAIN Tail(q) /\ Tail(q)[i - 1] = q[(i - 1) + 1] /\ (i - 1) + 1 = i
      BY <2>1, <2>3
    <3>2. Tail(q)[i - 1] = q[i]
      BY <3>1
    <3>3. QED
      BY <3>1, <3>2 DEF Range
  <2>6. {Head(q)} \cup Range(Tail(q)) \subseteq Range(q)
    BY <2>1, <2>2, <2>4 DEF Range
  <2>7. QED
    BY <2>1, <2>2, <2>4, <2>5, <2>6
<1>5. QED
  BY <1>1, <1>2, <1>3, <1>4

SubType == [st : SubState, start : Nat, last : Nat, open : BOOLEAN, queue : Seq(Orders),
            held : 0..MaxRows]

(* The queue's order gives the type invariant's. *)
LEMMA QueueTyped ==
  ASSUME NEW s \in SubType, \A i \in DOMAIN s.queue : s.held < s.queue[i],
         \A i, j \in DOMAIN s.queue : i < j => s.queue[i] < s.queue[j]
  PROVE  \A i \in DOMAIN s.queue : s.queue[i] > IF i = 1 THEN s.held ELSE s.queue[i - 1]
<1>1. s.queue \in Seq(Orders) /\ s.held \in Nat
  BY Consts DEF SubType
<1>2. DOMAIN s.queue = 1..Len(s.queue) /\ Len(s.queue) \in Nat
  BY <1>1
<1>3. \A i \in DOMAIN s.queue : s.queue[i] \in Nat
  <2>1. \A o \in Orders : o \in Nat
    BY Consts DEF Orders
  <2>2. QED
    BY <1>1, <2>1
<1>4. ASSUME NEW i \in DOMAIN s.queue PROVE s.queue[i] > IF i = 1 THEN s.held ELSE s.queue[i - 1]
  <2>1. CASE i = 1
    BY <1>1, <1>3, <2>1
  <2>2. CASE i # 1
    <3>1. i - 1 \in DOMAIN s.queue /\ i - 1 < i
      BY <1>2, <2>2
    <3>2. s.queue[i - 1] < s.queue[i]
      BY <3>1
    <3>3. QED
      BY <1>3, <2>2, <3>1, <3>2
  <2>3. QED
    BY <2>1, <2>2
<1>5. QED
  BY <1>4

(* A subscription without a row in hand and without an open socket. *)
LEMMA QuietFeed ==
  ASSUME sub' \in SubType, ~sub'.open, sub'.st \notin {"busy", "pollbusy"},
         sub'.held = Nothing, sub'.queue = <<>>, sub'.st = "connecting" => mode' = "ws",
         rows' \in 0..MaxRows, faults' \in 0..MaxFaults, unpublished' \subseteq 1..rows',
         mode' \in {"ws", "poll"}
  PROVE  FeedOK' /\ FeedTypeOK'
<1>1. InHand(sub') = {0}
  BY QueueFacts DEF InHand, Nothing
<1>2. ASSUME NEW p \in sub'.last + 1 .. rows' PROVE Awaited(p, view', passed', sub', unpublished')
  <2>1. 0 < p
    BY DEF SubType
  <2>2. QED
    BY <1>1, <2>1 DEF Awaited
<1>3. DOMAIN sub'.queue = {}
  OBVIOUS
<1>4. InHand(sub') \subseteq 0..rows'
  BY <1>1, Consts
<1>5. FeedOK'
  BY <1>1, <1>2, <1>3, <1>4 DEF FeedOK, Consuming
<1>6. FeedTypeOK'
  BY <1>3 DEF FeedTypeOK, SubType
<1>7. QED
  BY <1>5, <1>6

(* The generator has the same rows in hand, or one more of those that were *)
(* to come: a step of the relayer or of its socket.                        *)
LEMMA PublishFeed ==
  ASSUME Typed, FeedOK, NEW o \in Orders, Publish(o), passed' = passed \cup Missed, view' = view
  PROVE  FeedOK' /\ FeedTypeOK'
<1>1. /\ sub.open /\ o \in unpublished /\ unpublished' = {p \in unpublished : p > o}
      /\ sub' = PushFrame(sub, o) /\ UNCHANGED <<rows, mode, faults>>
  BY DEF Publish
<1>2. /\ sub \in SubType /\ rows \in 0..MaxRows /\ rows \in Nat /\ unpublished \subseteq 1..rows
      /\ faults \in 0..MaxFaults /\ mode = "ws" /\ sub.st \in {"waiting", "busy"}
      /\ sub.last \in Nat /\ sub.queue \in Seq(Orders) /\ sub.held \in Nat
  BY <1>1, Consts DEF Typed, FeedTypeOK, SubType, FeedOK
<1>3. o \in 1..rows /\ o \in Nat /\ sub.last < o /\ \A q \in InHand(sub) : q < o
  BY <1>1, <1>2, Consts DEF FeedOK
<1>4. /\ sub' \in SubType /\ sub'.open /\ sub'.st = "busy" /\ sub'.last = sub.last
      /\ InHand(sub') \subseteq InHand(sub) \cup {o} /\ o \in InHand(sub')
      /\ InHand(sub) \subseteq InHand(sub') \cup {0}
      /\ sub'.held > sub.last
      /\ \A i \in DOMAIN sub'.queue : sub'.held < sub'.queue[i]
      /\ \A i, j \in DOMAIN sub'.queue : i < j => sub'.queue[i] < sub'.queue[j]
  <2>1. CASE sub.st = "waiting"
    <3>1. sub' = [sub EXCEPT !.st = "busy", !.held = o]
      BY <1>1, <2>1 DEF PushFrame
    <3>2. sub.queue = <<>> /\ sub.held = 0
      BY <2>1 DEF FeedOK, Consuming, Nothing
    <3>3. o \in 0..MaxRows
      BY <1>2, <1>3, Consts
    <3>4. /\ sub' \in SubType /\ sub'.open /\ sub'.st = "busy" /\ sub'.last = sub.last
          /\ sub'.queue = <<>> /\ sub'.held = o
      BY <1>1, <1>2, <3>1, <3>2, <3>3 DEF SubType, SubState
    <3>5. InHand(sub') = {o} /\ InHand(sub) = {0}
      BY <3>2, <3>4, QueueFacts DEF InHand
    <3>6. DOMAIN sub'.queue = {}
      BY <3>4
    <3>7. QED
      BY <1>2, <1>3, <3>4, <3>5, <3>6
  <2>2. CASE sub.st = "busy"
    <3> DEFINE q == Append(sub.queue, o)
    <3>1. sub' = [sub EXCEPT !.queue = q]
      BY <1>1, <2>2 DEF PushFrame
    <3>2. /\ q \in Seq(Orders) /\ Range(q) = Range(sub.queue) \cup {o}
          /\ Len(q) = Len(sub.queue) + 1 /\ q[Len(sub.queue) + 1] = o
          /\ \A i \in DOMAIN sub.queue : q[i] = sub.queue[i]
          /\ DOMAIN sub.queue = 1..Len(sub.queue) /\ Len(sub.queue) \in Nat
          /\ \A i \in DOMAIN sub.queue : sub.queue[i] \in Range(sub.queue)
          /\ DOMAIN q = 1..Len(q)
      BY <1>2, QueueFacts
    <3> HIDE DEF q
    <3>3. /\ sub' \in SubType /\ sub'.open /\ sub'.st = "busy" /\ sub'.last = sub.last
          /\ sub'.queue = q /\ sub'.held = sub.held
      BY <1>1, <1>2, <2>2, <3>1, <3>2 DEF SubType, SubState
    <3>4. InHand(sub') = InHand(sub) \cup {o}
      BY <3>2, <3>3 DEF InHand
    <3>5. sub.held > sub.last /\ sub.held \in InHand(sub)
      BY <2>2 DEF FeedOK, Consuming, InHand
    <3>6. \A i \in DOMAIN q : i \in DOMAIN sub.queue \/ (i = Len(sub.queue) + 1 /\ q[i] = o)
      BY <3>2
    <3>7. \A i \in DOMAIN q : sub.held < q[i]
      BY <1>3, <3>2, <3>5, <3>6 DEF FeedOK
    <3>8. ASSUME NEW i \in DOMAIN q, NEW j \in DOMAIN q, i < j PROVE q[i] < q[j]
      <4>1. i \in DOMAIN sub.queue
        BY <3>2, <3>8
      <4>2. sub.queue[i] \in InHand(sub)
        BY <3>2, <4>1 DEF InHand
      <4>3. QED
        BY <1>3, <3>2, <3>6, <3>8, <4>1, <4>2 DEF FeedOK
    <3>9. QED
      BY <3>3, <3>4, <3>5, <3>7, <3>8
  <2>3. QED
    BY <1>2, <2>1, <2>2
<1>5. /\ unpublished' \subseteq 1..rows /\ InHand(sub') \subseteq 0..rows
      /\ \A p \in unpublished' : sub.last < p /\ \A q \in InHand(sub') : q < p
  <2>1. \A p \in unpublished' : p \in unpublished /\ p > o /\ p \in Nat
    BY <1>1, <1>2
  <2>2. \A q \in InHand(sub') : q \in InHand(sub) \/ q = o
    BY <1>4
  <2>3. o \in 0..rows /\ InHand(sub) \subseteq 0..rows
    BY <1>2, <1>3 DEF FeedOK
  <2>4. QED
    BY <1>1, <1>2, <1>3, <2>1, <2>2, <2>3 DEF FeedOK
<1>6. ASSUME NEW p \in sub.last + 1 .. rows
      PROVE  Awaited(p, view', passed', sub', unpublished')
  <2>1. Awaited(p, view, passed, sub, unpublished)
    BY <1>1, <1>2 DEF FeedOK
  <2>2. p # 0
    BY <1>2
  <2>3. CASE p \in InHand(sub)
    BY <1>4, <2>2, <2>3 DEF Awaited
  <2>4. CASE p \in unpublished
    <3>1. unpublished \ unpublished' \subseteq Missed \cup InHand(sub')
      BY <1>1 DEF Missed
    <3>2. QED
      BY <1>4, <2>4, <3>1 DEF Awaited
  <2>5. QED
    BY <1>1, <2>1, <2>3, <2>4 DEF Awaited
<1>7. sub'.queue = <<>> \/ sub'.st # "pollbusy"
  BY <1>4
<1>8. FeedOK'
  BY <1>1, <1>2, <1>4, <1>5, <1>6, <1>7 DEF FeedOK, Consuming
<1>9. FeedTypeOK'
  <2>1. \A i \in DOMAIN sub'.queue :
           sub'.queue[i] > IF i = 1 THEN sub'.held ELSE sub'.queue[i - 1]
    BY <1>4, QueueTyped
  <2>2. QED
    BY <1>1, <1>2, <1>4, <1>5, <2>1 DEF FeedTypeOK, SubType
<1>10. QED
  BY <1>8, <1>9

(* A poll starts above the generator's cursor, at a row that is stored. *)
LEMMA FirstPolledFacts ==
  ASSUME rows \in 0..MaxRows, sub.last \in Nat, sub.last < rows
  PROVE  /\ FirstPolled \in Nat /\ FirstPolled \in 0..MaxRows
         /\ FirstPolled \in 0..rows /\ FirstPolled > sub.last
<1>1. rows \in Nat /\ rows <= MaxRows /\ MaxRows \in Nat /\ PollLimit \in Nat /\ PollLimit > 0
  BY Consts
<1>2. CASE sub.last = 0 /\ rows > PollLimit
  <2>1. FirstPolled = rows - PollLimit + 1
    BY <1>2 DEF FirstPolled
  <2>2. QED
    BY <1>1, <1>2, <2>1
<1>3. CASE ~(sub.last = 0 /\ rows > PollLimit)
  <2>1. FirstPolled = sub.last + 1
    BY <1>3 DEF FirstPolled
  <2>2. QED
    BY <1>1, <2>1
<1>4. QED
  BY <1>2, <1>3

(* The generator keeps what it has in hand: the socket opens, lags or      *)
(* closes under a busy consumer, or a poll brings the next row.            *)
LEMMA HeldFeed ==
  ASSUME Typed, FeedOK, passed' = passed \cup Missed, view' = view,
         (\E o \in Orders : PublishLagged(o)) \/ Connect \/ Poll
         \/ (SocketCloses /\ sub.st # "waiting")
  PROVE  FeedOK' /\ FeedTypeOK'
<1>1. /\ sub \in SubType /\ rows \in 0..MaxRows /\ rows \in Nat /\ unpublished \subseteq 1..rows
      /\ faults \in 0..MaxFaults /\ mode \in {"ws", "poll"}
      /\ sub.last \in Nat /\ sub.queue \in Seq(Orders) /\ sub.held \in Nat
  BY Consts DEF Typed, FeedTypeOK, SubType
<1>2. Fault => faults' \in 0..MaxFaults
  BY <1>1, Consts DEF Fault
<1>3. ASSUME NEW o \in Orders, PublishLagged(o) PROVE FeedOK' /\ FeedTypeOK'
  <2>1. /\ sub.open /\ unpublished' = unpublished \ {o} /\ UNCHANGED <<rows, mode, sub>>
        /\ faults' \in 0..MaxFaults
    BY <1>2, <1>3 DEF PublishLagged
  <2>2. InHand(sub)' = InHand(sub) /\ Consuming' = Consuming
    BY <2>1 DEF InHand, Consuming
  <2>3. unpublished \ unpublished' \subseteq Missed \cup InHand(sub)
    BY <2>1, <2>2 DEF Missed
  <2>4. ASSUME NEW p \in sub.last + 1 .. rows PROVE Awaited(p, view, passed', sub, unpublished')
    <3>1. sub.st # "off"
      BY <2>1 DEF FeedOK
    <3>2. Awaited(p, view, passed, sub, unpublished)
      BY <3>1 DEF FeedOK
    <3>3. QED
      BY <2>1, <2>3, <3>2 DEF Awaited
  <2>5. FeedOK'
    BY <2>1, <2>2, <2>4 DEF FeedOK
  <2>6. FeedTypeOK'
    BY <1>1, <2>1 DEF Typed, FeedTypeOK
  <2>7. QED
    BY <2>5, <2>6
<1>4. ASSUME Connect PROVE FeedOK' /\ FeedTypeOK'
  <2>1. /\ sub.st = "connecting" /\ sub' = [sub EXCEPT !.st = "waiting", !.open = TRUE]
        /\ unpublished' \subseteq {o \in unpublished : o > sub.last}
        /\ UNCHANGED <<rows, mode, faults>>
    BY <1>4 DEF Connect
  <2>2. /\ sub' \in SubType /\ sub'.st = "waiting" /\ sub'.open /\ sub'.last = sub.last
        /\ sub'.queue = sub.queue /\ sub'.held = sub.held
    BY <1>1, <2>1 DEF SubType, SubState
  <2>3. sub.queue = <<>> /\ sub.held = 0 /\ mode = "ws" /\ ~sub.open
    BY <2>1 DEF FeedOK, Consuming, Nothing
  <2>4. InHand(sub') = {0} /\ DOMAIN sub'.queue = {}
    BY <2>2, <2>3, QueueFacts DEF InHand
  <2>5. \A p \in unpublished' : p \in 1..rows /\ sub.last < p /\ 0 < p
    BY <1>1, <2>1
  <2>6. ASSUME NEW p \in sub.last + 1 .. rows PROVE Awaited(p, view, passed', sub', unpublished')
    <3>1. p \in unpublished' \/ p \in Missed
      BY <2>2, <2>3, <2>1 DEF Missed
    <3>2. QED
      BY <2>2, <3>1 DEF Awaited
  <2>7. InHand(sub') \subseteq 0..rows
    BY <1>1, <2>4
  <2>8. FeedOK'
    BY <2>1, <2>2, <2>3, <2>4, <2>5, <2>6, <2>7 DEF FeedOK, Consuming, Nothing
  <2>9. FeedTypeOK'
    BY <1>1, <2>1, <2>2, <2>4, <2>5 DEF FeedTypeOK, SubType
  <2>10. QED
    BY <2>8, <2>9
<1>5. ASSUME Poll PROVE FeedOK' /\ FeedTypeOK'
  <2> DEFINE o == FirstPolled
  <2>1. /\ sub.st = "polling" /\ sub.last < rows
        /\ sub' = [sub EXCEPT !.st = "pollbusy", !.held = o]
        /\ UNCHANGED <<rows, unpublished, mode, faults>>
    BY <1>5 DEF Poll
  <2>2. o \in Nat /\ o \in 0..MaxRows /\ o \in 0..rows /\ o > sub.last
    BY <1>1, <2>1, FirstPolledFacts
  <2> HIDE DEF o
  <2>3. /\ sub' \in SubType /\ sub'.st = "pollbusy" /\ sub'.open = sub.open /\ sub'.last = sub.last
        /\ sub'.queue = sub.queue /\ sub'.held = o
    BY <1>1, <2>1, <2>2 DEF SubType, SubState
  <2>4. sub.queue = <<>> /\ ~sub.open
    BY <2>1 DEF FeedOK, Consuming
  <2>5. InHand(sub') = {o} /\ DOMAIN sub'.queue = {}
    BY <2>3, <2>4, QueueFacts DEF InHand
  <2>6. ASSUME NEW p \in sub.last + 1 .. rows PROVE Awaited(p, view, passed', sub', unpublished)
    <3>1. p = o \/ o < p \/ p \in sub.last + 1 .. o - 1
      BY <1>1, <2>2
    <3>2. CASE p \in sub.last + 1 .. o - 1
      <4>1. Stored(p) \in view \/ p \in Missed
        BY <2>1, <2>3, <3>2 DEF Missed
      <4>2. QED
        BY <4>1 DEF Awaited
    <3>3. CASE p = o \/ o < p
      BY <2>3, <2>4, <2>5, <3>3 DEF Awaited
    <3>4. QED
      BY <3>1, <3>2, <3>3
  <2>7. FeedOK'
    BY <2>1, <2>2, <2>3, <2>4, <2>5, <2>6 DEF FeedOK, Consuming
  <2>8. FeedTypeOK'
    BY <1>1, <2>1, <2>3, <2>5 DEF FeedTypeOK, SubType
  <2>9. QED
    BY <2>7, <2>8
<1>6. ASSUME SocketCloses, sub.st # "waiting" PROVE FeedOK' /\ FeedTypeOK'
  <2>1. /\ sub.open /\ faults' \in 0..MaxFaults /\ sub' = [sub EXCEPT !.open = FALSE]
        /\ UNCHANGED <<rows, unpublished, mode>>
    BY <1>2, <1>6 DEF SocketCloses
  <2>2. /\ sub' \in SubType /\ sub'.st = sub.st /\ ~sub'.open /\ sub'.last = sub.last
        /\ sub'.queue = sub.queue /\ sub'.held = sub.held /\ sub.st = "busy"
    BY <1>1, <1>6, <2>1 DEF SubType, FeedOK
  <2>3. InHand(sub') = InHand(sub) /\ Consuming' = Consuming
    BY <2>2 DEF InHand, Consuming
  <2>4. ASSUME NEW p \in sub.last + 1 .. rows PROVE Awaited(p, view, passed', sub', unpublished)
    <3>1. Awaited(p, view, passed, sub, unpublished)
      BY <2>2 DEF FeedOK
    <3>2. p \in unpublished => \A q \in InHand(sub') : q < p
      BY <2>1, <2>3 DEF FeedOK
    <3>3. QED
      BY <2>1, <2>2, <2>3, <3>1, <3>2 DEF Awaited
  <2>5. FeedOK'
    BY <2>1, <2>2, <2>3, <2>4 DEF FeedOK
  <2>6. FeedTypeOK'
    BY <1>1, <2>1, <2>2 DEF Typed, FeedTypeOK, SubType
  <2>7. QED
    BY <2>5, <2>6
<1>7. QED
  BY <1>3, <1>4, <1>5, <1>6

(* A subscription that was lost, or refused, starts over or ends. *)
LEMMA LostFeed ==
  ASSUME Typed, FeedOK, ConnectFails \/ PollRefused \/ (SocketCloses /\ sub.st = "waiting")
  PROVE  FeedOK' /\ FeedTypeOK'
<1>1. /\ sub \in SubType /\ rows \in 0..MaxRows /\ unpublished \subseteq 1..rows
      /\ faults \in 0..MaxFaults /\ mode \in {"ws", "poll"} /\ sub.start \in Nat
  BY DEF Typed, FeedTypeOK, SubType
<1>2. UNCHANGED <<rows, unpublished, mode>> /\ Fault
  BY DEF ConnectFails, PollRefused, SocketCloses
<1>3. faults' \in 0..MaxFaults
  BY <1>1, <1>2, Consts DEF Fault
<1>4. sub.st \in {"connecting", "waiting", "polling"}
  BY DEF ConnectFails, PollRefused, SocketCloses
<1>5. sub.held = Nothing /\ sub.queue = <<>> /\ 0 \in 0..MaxRows
  BY <1>4, Consts DEF FeedOK, Consuming
<1>6. /\ sub' \in SubType /\ ~sub'.open /\ sub'.st \notin {"busy", "pollbusy"}
      /\ sub'.held = Nothing /\ sub'.queue = <<>> /\ (sub'.st = "connecting" => mode = "ws")
  <2>1. CASE sub' = [sub EXCEPT !.st = "connecting", !.open = FALSE, !.queue = <<>>]
             /\ sub.st # "polling"
    <3>1. mode = "ws"
      BY <2>1, <1>4 DEF FeedOK, ConnectFails, SocketCloses, PollRefused
    <3>2. QED
      BY <1>1, <1>5, <2>1, <3>1 DEF SubType, SubState
  <2>2. CASE sub' = [Off EXCEPT !.st = "polling", !.start = sub.start, !.last = sub.start]
    <3>1. sub' = [st |-> "polling", start |-> sub.start, last |-> sub.start, open |-> FALSE,
                  queue |-> <<>>, held |-> Nothing]
      BY <2>2 DEF Off
    <3>2. <<>> \in Seq(Orders) /\ Nothing \in 0..MaxRows
      BY Consts DEF Nothing
    <3>3. QED
      BY <1>1, <3>1, <3>2 DEF SubType, SubState
  <2>3. CASE sub' = [sub EXCEPT !.st = "failed"] /\ sub.st = "polling"
    <3>1. ~sub.open
      BY <2>3 DEF FeedOK
    <3>2. QED
      BY <1>1, <1>5, <2>3, <3>1 DEF SubType, SubState
  <2>4. QED
    BY <1>4, <2>1, <2>2, <2>3 DEF ConnectFails, PollRefused, SocketCloses, Lost
<1>7. QED
  BY <1>1, <1>2, <1>3, <1>6, QuietFeed

(* After a step of the feed the generator's cursors are where they were. *)
LEMMA FeedCursors ==
  ASSUME Typed, FeedOK, FeedNext
  PROVE  /\ sub.st # "off" /\ sub'.start = sub.start /\ sub'.last \in {sub.start, sub.last}
         /\ UNCHANGED rows /\ Missed \subseteq 1..MaxOrder
         /\ faults' \in 0..MaxFaults /\ faults <= faults'
<1>1. /\ sub \in SubType /\ rows \in 0..MaxRows /\ unpublished \subseteq 1..rows
      /\ faults \in 0..MaxFaults /\ rows \in Nat /\ faults \in Nat
  BY Consts DEF Typed, FeedTypeOK, SubType
<1>2. UNCHANGED rows /\ (faults' = faults \/ Fault)
  BY DEF FeedNext, Publish, PublishLagged, Connect, ConnectFails, SocketCloses, Poll,
     PollRefused
<1>3. faults' \in 0..MaxFaults /\ faults <= faults'
  BY <1>1, <1>2, Consts DEF Fault
<1>4. sub.st # "off"
  BY DEF FeedNext, Publish, PublishLagged, Connect, ConnectFails, SocketCloses, Poll,
     PollRefused, FeedOK
<1>5. ASSUME sub' \in Lost(sub) PROVE sub'.start = sub.start /\ sub'.last \in {sub.start, sub.last}
  <2>1. CASE sub' = [sub EXCEPT !.st = "connecting", !.open = FALSE, !.queue = <<>>]
    BY <1>1, <2>1 DEF SubType
  <2>2. CASE sub' = [Off EXCEPT !.st = "polling", !.start = sub.start, !.last = sub.start]
    BY <2>2 DEF Off
  <2>3. QED
    BY <1>5, <2>1, <2>2 DEF Lost
<1>6. sub'.start = sub.start /\ sub'.last \in {sub.start, sub.last}
  <2>1. CASE \E o \in Orders : Publish(o) \/ PublishLagged(o)
    BY <1>1, <2>1 DEF Publish, PublishLagged, PushFrame, SubType
  <2>2. CASE Connect \/ Poll \/ PollRefused
    BY <1>1, <2>2 DEF Connect, Poll, PollRefused, SubType
  <2>3. CASE ConnectFails \/ SocketCloses
    BY <1>1, <1>5, <2>3 DEF ConnectFails, SocketCloses, SubType
  <2>4. QED
    BY <2>1, <2>2, <2>3 DEF FeedNext
<1>7. Missed \subseteq 1..MaxOrder
  <2>1. sub.last \in Nat /\ sub.queue \in Seq(Orders)
    BY <1>1 DEF SubType
  <2>2. \A o \in sub.last + 1 .. rows : o \in 1..MaxOrder
    BY <1>1, <2>1, Consts
  <2>3. Range(sub.queue) \subseteq Orders
    BY <2>1, QueueFacts
  <2>4. \A o \in 1..MaxRows : o \in 1..MaxOrder
    BY Consts
  <2>5. \A o \in 1..rows : o \in 1..MaxOrder
    BY <1>1, Consts
  <2>6. ASSUME sub.st = "polling", sub'.st = "pollbusy"
        PROVE  \A o \in sub.last + 1 .. sub'.held - 1 : o \in 1..MaxOrder
    <3>1. Poll
      BY <1>1, <2>6 DEF FeedNext, Publish, PublishLagged, Connect, ConnectFails, SocketCloses,
         PollRefused, PushFrame, Lost, Off, SubType
    <3>2. sub.last < rows /\ sub'.held = FirstPolled
      BY <1>1, <3>1 DEF Poll, SubType
    <3>3. sub'.held \in Nat /\ sub'.held \in 0..rows
      BY <1>1, <2>1, <3>2, FirstPolledFacts
    <3>4. QED
      BY <1>1, <2>1, <3>3, Consts
  <2>7. QED
    BY <1>1, <2>2, <2>3, <2>4, <2>5, <2>6 DEF Missed, Orders
<1>8. QED
  BY <1>2, <1>3, <1>4, <1>6, <1>7

SendType == [st : {"none", "posting", "stored"}, temp : 0..MaxOrder, id : 0..MaxRows]

(* A step of the feed, of the relayer or of the tab: what it owes is about *)
(* the feed and the window.                                                *)
LEMMA SubFrame ==
  ASSUME IInv, Grows,
         UNCHANGED <<thread, view, ledger, tip, cache, load, catchup, older, sends, orphaned>>,
         visible' \in BOOLEAN, faults <= faults', passed' \subseteq 1..MaxOrder,
         FeedTypeOK', FeedOK', WindowOK',
         sub'.st # "off" => thread = "open", thread = "closed" => sub' = Off,
         \/ send' = send
         \/ /\ send.st = "posting" /\ send' \in SendType /\ send'.st = "stored"
            /\ send'.temp = send.temp /\ send'.id \in 1..rows'
  PROVE  IInv'
<1>0. Typed /\ ThreadOK /\ StubsOK /\ WindowOK /\ CacheOK /\ LoadPage /\ CatchupPage /\ OlderPage
  BY DEF IInv
<1>1. Typed'
  BY <1>0 DEF Typed, SendType
<1>2. ThreadOK'
  BY <1>0 DEF ThreadOK, Live
<1>3. StubsOK'
  <2>1. sends' <= faults'
    BY <1>0, <1>1, Consts DEF StubsOK, Typed, FeedTypeOK
  <2>2. send'.temp = send.temp
    OBVIOUS
  <2>3. send'.st = "stored" => send'.id \in 1..rows'
    <3>1. send.st = "stored" => send.id \in 1..rows'
      <4>1. 1..rows \subseteq 1..rows'
        BY GrowsFacts
      <4>2. QED
        BY <1>0, <4>1 DEF StubsOK
    <3>2. QED
      BY <3>1
  <2>4. send'.st = "none" => send' = NoSend
    BY <1>0 DEF StubsOK
  <2>5. send'.st # "none" => send'.temp \in MaxRows + 1 .. MaxRows + sends'
    BY <1>0, <2>2 DEF StubsOK
  <2>6. QED
    BY <1>0, <2>1, <2>2, <2>3, <2>4, <2>5 DEF StubsOK
<1>4. CacheOK'
  BY <1>0, CacheFrame
<1>5. LoadPage' /\ CatchupPage' /\ OlderPage'
  BY <1>0, PagesFrame
<1>6. QED
  BY <1>1, <1>2, <1>3, <1>4, <1>5 DEF IInv

(* The window when the list, the requests and the load are left alone and  *)
(* the generator's cursors stay in it.                                     *)
LEMMA WindowFrame ==
  ASSUME Grows, UNCHANGED <<view, ledger, tip, load, catchup, older>>,
         NEW f \in Nat, NEW g \in Nat, NEW h \in Nat, Window(f, g, h), SubWindow(f, g)'
  PROVE  WindowOK'
<1>1. ListWindow(f, g)'
  BY ListFrame DEF Window
<1>2. LoadWindow(f, h)'
  BY LoadFrame DEF Window
<1>3. RequestWindow(f, g)'
  BY DEF Window, RequestWindow, Live
<1>4. Window(f, g, h)'
  BY <1>1, <1>2, <1>3 DEF Window
<1>5. QED
  BY <1>4 DEF WindowOK

(* The socket, the hub and the poll loop. *)
LEMMA FeedIInv ==
  ASSUME IInv, Feed
  PROVE  IInv'
<1>0. Typed /\ ThreadOK /\ StubsOK /\ WindowOK /\ FeedOK
  BY DEF IInv
<1>1. /\ FeedNext /\ passed' = passed \cup Missed
      /\ UNCHANGED <<thread, visible, view, ledger, tip, cache, load, catchup, older, send,
                     orphaned, sends>>
  BY DEF Feed
<1>2. /\ sub.st # "off" /\ sub'.start = sub.start /\ sub'.last \in {sub.start, sub.last}
      /\ UNCHANGED rows /\ Missed \subseteq 1..MaxOrder
      /\ faults' \in 0..MaxFaults /\ faults <= faults'
  BY <1>0, <1>1, FeedCursors
<1>3. FeedOK' /\ FeedTypeOK'
  <2>1. CASE \E o \in Orders : Publish(o)
    BY <1>0, <1>1, <2>1, PublishFeed
  <2>2. CASE (\E o \in Orders : PublishLagged(o)) \/ Connect \/ Poll
             \/ (SocketCloses /\ sub.st # "waiting")
    BY <1>0, <1>1, <2>2, HeldFeed
  <2>3. CASE ConnectFails \/ PollRefused \/ (SocketCloses /\ sub.st = "waiting")
    BY <1>0, <2>3, LostFeed
  <2>4. QED
    BY <1>1, <2>1, <2>2, <2>3 DEF FeedNext
<1>4. Grows
  BY <1>0, <1>1, <1>2, GrowsHere
<1>5. WindowOK'
  <2>1. PICK f \in Nat, g \in Nat, h \in Nat : Window(f, g, h)
    BY <1>0 DEF WindowOK
  <2>2. SubWindow(f, g)'
    BY <1>2, <2>1 DEF Window, SubWindow
  <2>3. QED
    BY <1>1, <1>4, <2>1, <2>2, WindowFrame
<1>6. thread = "open"
  BY <1>0, <1>2 DEF ThreadOK
<1>7. visible' \in BOOLEAN /\ passed' \subseteq 1..MaxOrder
  BY <1>0, <1>1, <1>2 DEF Typed
<1>8. QED
  BY <1>1, <1>2, <1>3, <1>4, <1>5, <1>6, <1>7, SubFrame

(* The subscription starts at the tip, or is aborted. *)
LEMMA SubscribeIInv ==
  ASSUME IInv, Subscribe \/ HideTab
  PROVE  IInv'
<1>0. Typed /\ ThreadOK /\ StubsOK /\ WindowOK /\ FeedOK
  BY DEF IInv
<1>1. /\ UNCHANGED <<rows, unpublished, mode, faults>>
      /\ UNCHANGED <<thread, view, ledger, tip, cache, load, catchup, older, send, orphaned, sends,
                     passed>>
      /\ visible' \in BOOLEAN
      /\ (sub' = Subscribed(tip) /\ thread = "open") \/ sub' = Off
  BY <1>0 DEF Subscribe, HideTab, threadVars, Typed
<1>2. /\ rows \in 0..MaxRows /\ unpublished \subseteq 1..rows /\ mode \in {"ws", "poll"}
      /\ faults \in 0..MaxFaults /\ tip \in Nat /\ faults <= faults'
      /\ passed' \subseteq 1..MaxOrder
  BY <1>0, <1>1, Consts DEF Typed, FeedTypeOK
<1>3. /\ sub' \in SubType /\ ~sub'.open /\ sub'.st \notin {"busy", "pollbusy"}
      /\ sub'.held = Nothing /\ sub'.queue = <<>> /\ (sub'.st = "connecting" => mode = "ws")
      /\ sub'.st # "off" => thread = "open" /\ sub'.start = tip /\ sub'.last = tip
  <2>0. <<>> \in Seq(Orders) /\ Nothing \in 0..MaxRows
    BY Consts DEF Nothing
  <2>1. CASE sub' = Off
    BY <2>0, <2>1 DEF Off, SubType, SubState
  <2>2. CASE sub' = Subscribed(tip) /\ thread = "open"
    <3>1. sub' = [st |-> IF mode = "ws" THEN "connecting" ELSE "polling", start |-> tip,
                  last |-> tip, open |-> FALSE, queue |-> <<>>, held |-> Nothing]
      BY <2>2 DEF Subscribed, Off
    <3>2. QED
      BY <1>2, <2>0, <2>2, <3>1 DEF SubType, SubState
  <2>3. QED
    BY <1>1, <2>1, <2>2
<1>4. FeedOK' /\ FeedTypeOK'
  BY <1>1, <1>2, <1>3, QuietFeed
<1>5. Grows
  BY <1>0, <1>1, GrowsHere
<1>6. WindowOK'
  <2>1. PICK f \in Nat, g \in Nat, h \in Nat : Window(f, g, h)
    BY <1>0 DEF WindowOK
  <2>2. SubWindow(f, g)'
    BY <1>3, <2>1 DEF Window, SubWindow, ListWindow
  <2>3. QED
    BY <1>1, <1>5, <2>1, <2>2, WindowFrame
<1>7. thread = "closed" => sub' = Off
  BY <1>1
<1>8. QED
  BY <1>1, <1>2, <1>3, <1>4, <1>5, <1>6, <1>7, SubFrame

(* A row is stored, by another member or by the send. *)
LEMMA StoreIInv ==
  ASSUME IInv, PeerSends \/ SendStored
  PROVE  IInv'
<1>0. Typed /\ ThreadOK /\ StubsOK /\ WindowOK /\ FeedOK
  BY DEF IInv
<1>1. /\ StoreRow /\ UNCHANGED <<mode, sub, faults>>
      /\ UNCHANGED <<thread, visible, view, ledger, tip, cache, load, catchup, older, orphaned,
                     sends, passed>>
      /\ send' = send \/ (send.st = "posting" /\ send' = [send EXCEPT !.st = "stored", !.id = rows + 1])
  BY DEF PeerSends, SendStored, threadVars
<1>2. /\ rows \in Nat /\ rows' = rows + 1 /\ rows' \in 0..MaxRows /\ rows < MaxRows
      /\ unpublished \subseteq 1..rows /\ sub \in SubType /\ sub.last \in Nat
      /\ unpublished' \in {unpublished, unpublished \cup {rows + 1}}
      /\ faults \in Nat /\ faults <= faults'
  BY SMTT(40), <1>0, <1>1, Consts DEF Typed, FeedTypeOK, SubType, StoreRow
<1>3. Grows
  <2>1. rows \in 0..MaxRows /\ sends \in 0..MaxFaults
    BY <1>0 DEF Typed, FeedTypeOK
  <2>2. rows <= rows' /\ sends <= sends
    BY <1>2, <2>1, Consts
  <2>3. QED
    BY <1>1, <1>2, <2>1, <2>2 DEF Grows
<1>4. InHand(sub)' = InHand(sub) /\ Consuming' = Consuming
  BY <1>1 DEF InHand, Consuming
<1>5. \A q \in InHand(sub) : q \in Nat /\ q < rows + 1
  BY <1>0, <1>2 DEF FeedOK
<1>6. ASSUME sub.st # "off", NEW p \in sub.last + 1 .. rows'
      PROVE  Awaited(p, view, passed, sub, unpublished')
  <2>1. CASE p \in sub.last + 1 .. rows
    BY <1>0, <1>2, <1>6, <2>1 DEF FeedOK, Awaited
  <2>2. CASE p = rows + 1
    <3>1. CASE sub.open
      <4>1. mode = "ws" /\ rows + 1 > sub.last
        BY <1>0, <1>2, <2>2, <3>1 DEF FeedOK
      <4>2. rows + 1 \in unpublished'
        BY <1>1, <4>1 DEF StoreRow
      <4>3. QED
        BY <2>2, <3>1, <4>2 DEF Awaited
    <3>2. CASE ~sub.open
      BY <1>5, <2>2, <3>2 DEF Awaited
    <3>3. QED
      BY <3>1, <3>2
  <2>3. QED
    BY <1>2, <2>1, <2>2
<1>7. sub.open => \A p \in unpublished' : sub.last < p /\ \A q \in InHand(sub) : q < p
  <2>1. CASE unpublished' = unpublished
    BY <1>0, <2>1 DEF FeedOK
  <2>2. CASE unpublished' # unpublished /\ sub.open
    <3>1. unpublished' = unpublished \cup {rows + 1} /\ rows + 1 > sub.last
      BY <1>1, <2>2 DEF StoreRow
    <3>2. sub.last < rows + 1
      BY <1>2, <3>1
    <3>3. QED
      BY <1>0, <1>5, <2>2, <3>1, <3>2 DEF FeedOK
  <2>3. QED
    BY <2>1, <2>2
<1>8. InHand(sub) \subseteq 0..rows'
  BY <1>2, <1>5
<1>9. FeedOK'
  BY <1>0, <1>1, <1>4, <1>6, <1>7, <1>8 DEF FeedOK
<1>10. FeedTypeOK'
  <2>1. unpublished' \subseteq 1..rows'
    <3>1. \A o \in 1..rows : o \in 1..rows'
      BY <1>2
    <3>2. rows + 1 \in 1..rows'
      BY <1>2
    <3>3. QED
      BY <1>2, <3>1, <3>2
  <2>2. QED
    BY <1>0, <1>1, <1>2, <2>1 DEF Typed, FeedTypeOK
<1>11. WindowOK'
  <2>1. PICK f \in Nat, g \in Nat, h \in Nat : Window(f, g, h)
    BY <1>0 DEF WindowOK
  <2>2. SubWindow(f, g)'
    BY <1>1, <2>1 DEF Window, SubWindow
  <2>3. QED
    BY <1>1, <1>3, <2>1, <2>2, WindowFrame
<1>12. \/ send' = send
       \/ /\ send.st = "posting" /\ send' \in SendType /\ send'.st = "stored"
          /\ send'.temp = send.temp /\ send'.id \in 1..rows'
  <2>1. rows + 1 \in 0..MaxRows /\ rows + 1 \in 1..rows'
    BY <1>2, Consts
  <2>2. send \in SendType
    BY <1>0 DEF Typed, SendType
  <2>3. QED
    BY <1>1, <2>1, <2>2 DEF SendType
<1>13. /\ visible' \in BOOLEAN /\ passed' \subseteq 1..MaxOrder
       /\ (sub'.st # "off" => thread = "open") /\ (thread = "closed" => sub' = Off)
  BY <1>0, <1>1 DEF Typed, ThreadOK
<1>14. QED
  BY <1>1, <1>2, <1>3, <1>9, <1>10, <1>11, <1>12, <1>13, SubFrame

-----------------------------------------------------------------------------
(* Steps that show a list. *)

(* A list that keeps the rows of the old one and whose window is at least  *)
(* as wide is shown: the window of everything else widens with it.         *)
LEMMA ShowWindow ==
  ASSUME Typed, Grows, UNCHANGED <<load, rows>>,
         NEW v, NEW l \in Ledger, Show(v, l), v \subseteq Row,
         NEW f \in Nat, NEW g \in Nat, NEW h \in Nat, Window(f, g, h),
         NEW i \in Nat, NEW j \in Nat, i <= f, g <= j,
         Covers(v, i, j, rows, passed', MaxRows + sends'), Keeps(view, v, rows, passed'),
         v = {} => l.max = None \/ l.max \in i..j,
         RequestWindow(i, j)', SubWindow(i, j)'
  PROVE  /\ view' = v /\ ledger' \in Ledger /\ tip' \in 0..MaxOrder
         /\ cache' \in CacheType /\ cache'.view \subseteq v /\ WindowOK' /\ CacheOK'
<1>1. ListWindow(f, g) /\ g <= h /\ LoadWindow(f, h) /\ tip \in f..g /\ tip \in 0..MaxOrder
  BY DEF Window, ListWindow, Typed
<1>2. tip \in i..j /\ f <= j
  BY <1>1
<1>3. /\ rows \in Nat /\ MaxRows + sends' \in Nat /\ MaxRows + sends' <= MaxOrder
      /\ MaxRows + sends \in Nat /\ MaxRows + sends <= MaxRows + sends' /\ passed \subseteq passed'
  BY GrowsFacts
<1>4. /\ view' = v /\ ledger' \in Ledger /\ tip' \in i..j /\ tip' \in 0..MaxOrder
      /\ ledger'.max = None \/ ledger'.max \in i..j
      /\ v # {} => ledger'.min \in i + 1 .. j
      /\ cache' \in CacheType /\ cache'.view \subseteq v
      /\ cache'.view # {} =>
            \E k \in Nat : /\ Covers(cache'.view, k, j, rows, passed', MaxRows + sends')
                           /\ cache'.ledger.max \in k..j
  BY <1>1, <1>2, <1>3, ShowFacts
<1>5. CacheOK'
  BY <1>4 DEF CacheOK
<1>6. ListWindow(i, j)'
  BY <1>4 DEF ListWindow
<1>7. PICK k \in Nat : j <= k /\ LoadWindow(i, k)'
  <2>1. CASE load.st = "warm"
    <3>1. /\ Covers(load.base \cup view, f, h, rows, passed, MaxRows + sends)
          /\ load.ledger.max \in f..h /\ load.req.cursor \in f..h
      BY <1>1, <2>1 DEF LoadWindow
    <3>2. load.base \subseteq Row
      BY DEF Typed, LoadType
    <3>3. PICK k \in Nat : /\ h <= k /\ j <= k
                           /\ Covers(load.base \cup v, i, k, rows, passed', MaxRows + sends')
      BY <1>2, <1>3, <3>1, <3>2, CoversBoth
    <3>4. load.ledger.max \in i..k /\ load.req.cursor \in i..k
      BY <3>1, <3>3
    <3>5. LoadWindow(i, k)'
      BY <1>4, <3>3, <3>4 DEF LoadWindow
    <3>6. QED
      BY <3>3, <3>5
  <2>2. CASE load.st # "warm"
    BY <2>2 DEF LoadWindow
  <2>3. QED
    BY <2>1, <2>2
<1>8. Window(i, j, k)'
  BY <1>6, <1>7 DEF Window
<1>9. WindowOK'
  BY <1>8 DEF WindowOK
<1>10. QED
  BY <1>4, <1>5, <1>9

(* The sends of a state. *)
SendOK ==
  /\ send \in SendType
  /\ sends <= faults
  /\ send.st = "none" => send = NoSend
  /\ send.st # "none" => send.temp \in MaxRows + 1 .. MaxRows + sends
  /\ send.st = "stored" => send.id \in 1..rows

(* Everything else that a step that shows a list owes. *)
LEMMA ShowFrame ==
  ASSUME IInv, Grows, UNCHANGED <<rows, thread, visible, load, orphaned>>, thread # "closed",
         view' \subseteq Row, ledger' \in Ledger, tip' \in 0..MaxOrder,
         cache' \in CacheType, cache'.view \subseteq view', WindowOK', CacheOK',
         passed' \subseteq 1..MaxOrder,
         FeedTypeOK', FeedOK', sub'.st # "off" => sub.st # "off",
         catchup' \in RequestType, older' \in RequestType,
         Live(catchup)' => Live(catchup), Live(older)' => Live(older),
         CatchupPage', OlderPage', SendOK', StubsIn(view', {send'.temp} \cup orphaned)
  PROVE  IInv'
<1>0. Typed /\ ThreadOK /\ StubsOK /\ WindowOK /\ LoadPage /\ CatchupPage /\ OlderPage
  BY DEF IInv
<1>1. Typed'
  BY <1>0 DEF Typed, SendOK, SendType, Grows
<1>2. ThreadOK'
  BY <1>0 DEF ThreadOK
<1>3. StubsOK'
  <2>1. StubsIn(cache'.view, {send'.temp} \cup orphaned)
    BY DEF StubsIn
  <2>2. QED
    BY <1>0, <2>1 DEF StubsOK, SendOK
<1>4. LoadPage'
  BY <1>0, PagesFrame
<1>5. QED
  BY <1>1, <1>2, <1>3, <1>4 DEF IInv

(* Merging stored rows into a list. *)
LEMMA MergeStored ==
  ASSUME NEW v, v \subseteq Row, NEW n \in 0..MaxRows, NEW w, w \subseteq StoredRows(n), NEW Q
  PROVE  /\ mergeMessages(v, w) \subseteq Row /\ mergeMessages(v, w) \subseteq v \cup w
         /\ v \cup w # {} => mergeMessages(v, w) # {}
         /\ Keeps(v \cup w, mergeMessages(v, w), n, Q) /\ Keeps(v, mergeMessages(v, w), n, Q)
         /\ \A T : StubsIn(v, T) => StubsIn(mergeMessages(v, w), T)
<1>1. w \subseteq Row /\ \A r \in w : r.id \in 1..n /\ r = Stored(r.id)
  BY RowFacts DEF StoredRows
<1>2. /\ mergeMessages(v, w) \subseteq v \cup w
      /\ \A p \in 1..MaxRows : Stored(p) \in v \cup w => Stored(p) \in mergeMessages(v, w)
      /\ v \cup w # {} => mergeMessages(v, w) # {}
  BY <1>1, MergeFacts
<1>3. \A p \in 1..n : p \in 1..MaxRows
  BY Consts
<1>4. \A r \in w : ~IsStub(r)
  <2>1. \A p \in 1..n : ~(p > MaxRows)
    BY Consts
  <2>2. QED
    BY <1>1, <2>1 DEF IsStub
<1>5. QED
  BY <1>1, <1>2, <1>3, <1>4 DEF Keeps, StubsIn

(* The sends are left alone. *)
LEMMA SendFrame ==
  ASSUME Typed, StubsOK, UNCHANGED <<send, sends, rows>>, faults <= faults', faults' \in 0..MaxFaults
  PROVE  SendOK'
<1>1. sends \in Nat /\ faults \in Nat /\ faults' \in Nat /\ sends <= faults
  BY Consts DEF Typed, FeedTypeOK, StubsOK
<1>2. sends' <= faults'
  BY <1>1
<1>3. QED
  BY <1>2 DEF SendOK, SendType, Typed, StubsOK

(* A request that was answered is one, and the thread is still open. *)
LEMMA AnsweredLive ==
  ASSUME ThreadOK
  PROVE  /\ catchup.page.got => Live(catchup) /\ thread = "open" /\ load.st = "none"
         /\ older.page.got => Live(older) /\ thread = "open" /\ load.st = "none"
  BY NullFacts DEF ThreadOK, Live

(* A page of a catch-up is applied. *)
LEMMA CaughtUpIInv ==
  ASSUME IInv, CaughtUp
  PROVE  IInv'
<1>0. Typed /\ ThreadOK /\ StubsOK /\ WindowOK /\ CacheOK /\ LoadPage /\ CatchupPage /\ OlderPage /\ FeedOK
  BY DEF IInv
<1> DEFINE w == catchup.page.rows
           v == mergeMessages(view, w)
           l == applyNewerOrdersToLedger(ledger, OrdersOf(w))
<1>1. /\ catchup.page.got
      /\ UNCHANGED <<rows, unpublished, mode, sub, faults, thread, visible, load, older, send, orphaned,
                     sends, passed>>
  BY DEF CaughtUp, feedVars
<1>2. /\ rows \in 0..MaxRows /\ rows \in Nat /\ faults \in 0..MaxFaults /\ faults <= faults'
      /\ passed \subseteq 1..MaxOrder /\ view \subseteq Row /\ ledger \in Ledger
      /\ catchup \in RequestType /\ older \in RequestType /\ load \in LoadType /\ visible' \in BOOLEAN
      /\ Live(catchup) /\ thread # "closed"
  BY <1>0, <1>1, AnsweredLive, Consts DEF Typed, FeedTypeOK
<1>3. QED
  <2>1. /\ Show(v, l)
        /\ catchup' = IF LastPage(catchup) THEN NoRequest ELSE Ask(l.max, catchup.pages + 1)
    BY DEF CaughtUp
  <2>2. w \subseteq StoredRows(rows) /\ w \subseteq Row
    BY <1>0, <1>2, RowFacts DEF CatchupPage
  <2>3. /\ v \subseteq Row /\ v \subseteq view \cup w /\ (view \cup w # {} => v # {})
        /\ Keeps(view \cup w, v, rows, passed') /\ Keeps(view, v, rows, passed')
        /\ StubsIn(v, {send.temp} \cup orphaned)
    <3>1. StubsIn(view, {send.temp} \cup orphaned)
      BY <1>0 DEF StubsOK
    <3> HIDE DEF w
    <3>2. QED
      BY <1>2, <2>2, <3>1, MergeStored
  <2>4. OrdersOf(w) \subseteq 1..MaxOrder
    BY <2>2, OrdersFacts
  <2>5. /\ l \in Ledger /\ l.max \in OrdersOf(w) \cup {ledger.max} /\ \A o \in OrdersOf(w) : o <= l.max
    BY <1>2, <2>4, WidenFacts DEF applyNewerOrdersToLedger
  <2> HIDE DEF v, l
  <2>6. passed \subseteq passed' /\ passed' \subseteq 1..MaxOrder
    BY <1>1, <1>2
  <2>7. Grows
    BY <1>0, <1>1, <2>6, GrowsHere
  <2>8. /\ catchup' \in RequestType /\ catchup'.page = NoPage
        /\ catchup' # NoRequest => catchup'.cursor = l.max /\ w # {}
    <3>1. CASE LastPage(catchup)
      BY <2>1, <3>1, NullFacts
    <3>2. CASE ~LastPage(catchup)
      <4>1. catchup.pages \in 0..MaxPages /\ catchup.pages # MaxPages /\ w # {}
        BY <1>2, <3>2 DEF LastPage, RequestType
      <4>2. catchup.pages + 1 \in 1..MaxPages /\ l.max \in 0..MaxOrder
        BY <4>1, <2>5, Consts DEF Ledger
      <4>3. QED
        BY <2>1, <3>2, <4>1, <4>2, NullFacts
    <3>3. QED
      BY <3>1, <3>2
  <2>9. CatchupPage' /\ OlderPage'
    <3>1. CatchupPage'
      BY <2>8, NullFacts DEF CatchupPage
    <3>2. QED
      BY <1>0, <1>1, <2>7, <3>1, PagesFrame
  <2>10. /\ Live(older)' => Live(older) /\ older' = older
         /\ Live(catchup)' => Live(catchup) /\ catchup'.cursor = l.max /\ w # {}
    BY <1>1, <1>2, <2>8 DEF Live
  <2>11. PICK f \in Nat, g \in Nat, h \in Nat : Window(f, g, h)
    BY <1>0 DEF WindowOK
  <2>12. /\ Covers(view, f, g, rows, passed, MaxRows + sends) /\ (ledger.max = None \/ ledger.max \in f..g)
         /\ SubWindow(f, g) /\ RequestWindow(f, g)
    BY <2>11 DEF Window, ListWindow
  <2>13. /\ MaxRows + sends \in Nat /\ MaxRows <= MaxRows + sends /\ MaxRows + sends' = MaxRows + sends
    BY <1>1, <2>7, GrowsFacts
  <2>14. PICK j \in Nat : /\ g <= j /\ Covers(v, f, j, rows, passed', MaxRows + sends)
                          /\ \A r \in w : r.order <= j
    <3>1. catchup.cursor \in f..g /\ NewerRows(w, catchup.cursor, rows, passed)
      BY <1>0, <1>1, <1>2, <2>12 DEF RequestWindow, CatchupPage
    <3> HIDE DEF w
    <3>2. QED
      BY <1>2, <2>2, <2>3, <2>6, <2>12, <2>13, <3>1, CoversNewer
  <2>15. v = {} => l.max = None \/ l.max \in f..j
    <3>1. v = {} => OrdersOf(w) = {}
      BY <2>3 DEF OrdersOf
    <3>2. QED
      BY <2>5, <2>12, <2>14, <3>1
  <2>16. RequestWindow(f, j)'
    <3>1. ASSUME Live(catchup)' PROVE catchup'.cursor \in f..j
      <4>1. Live(catchup) /\ w # {} /\ catchup'.cursor = l.max
        BY <2>10, <3>1
      <4>2. NewerRows(w, catchup.cursor, rows, passed) /\ catchup.cursor \in f..g
        BY <1>0, <1>1, <2>12, <4>1 DEF CatchupPage, RequestWindow
      <4>3. \A r \in w : f < r.order /\ r.order <= j /\ r.order \in Nat
        <5>1. \A r \in w : catchup.cursor < r.order /\ r.order \in Nat
          BY <2>2, <4>2, RowFacts DEF NewerRows
        <5>2. QED
          BY <2>14, <4>1, <4>2, <5>1
      <4>4. PICK r \in w : TRUE
        BY <4>1
      <4>5. l.max # None
        <5>1. r.order <= l.max /\ r.order \in Nat /\ 0 < r.order
          BY <2>2, <2>5, RowFacts DEF OrdersOf
        <5>2. QED
          BY <2>5, <5>1 DEF None, Ledger
      <4>6. l.max \in f..j
        BY <2>5, <2>12, <2>14, <4>3, <4>5 DEF OrdersOf
      <4>7. QED
        BY <2>14, <4>1, <4>6
    <3>2. ASSUME Live(older)' PROVE older'.cursor \in f + 1 .. j
      <4>1. older' = older /\ older.cursor \in f + 1 .. g
        BY <2>10, <2>12, <3>2 DEF RequestWindow
      <4>2. QED
        BY <2>14, <4>1
    <3>3. QED
      BY <3>1, <3>2 DEF RequestWindow
  <2>17. SubWindow(f, j)'
    BY <1>1, <2>12, <2>14 DEF SubWindow
  <2>18. f <= f
    OBVIOUS
  <2>19. /\ view' = v /\ ledger' \in Ledger /\ tip' \in 0..MaxOrder
         /\ cache' \in CacheType /\ cache'.view \subseteq v /\ WindowOK' /\ CacheOK'
    BY <1>0, <1>1, <2>1, <2>3, <2>5, <2>7, <2>11, <2>13, <2>14, <2>15, <2>16, <2>17, <2>18, ShowWindow
  <2>20. FeedOK' /\ FeedTypeOK'
    <3>1. FeedOK'
      BY <1>0, <1>1, <2>3, <2>6, <2>19, FeedFrame DEF Typed
    <3>2. QED
      BY <1>0, <1>1, <3>1 DEF Typed, FeedTypeOK
  <2>21. SendOK'
    BY <1>0, <1>1, <1>2, SendFrame
  <2>22. QED
    BY <1>1, <1>2, <2>3, <2>6, <2>7, <2>8, <2>9, <2>10, <2>19, <2>20, <2>21, ShowFrame

(* A page of older rows is applied. *)
LEMMA OlderLoadedIInv ==
  ASSUME IInv, OlderLoaded
  PROVE  IInv'
<1>0. Typed /\ ThreadOK /\ StubsOK /\ WindowOK /\ CacheOK /\ LoadPage /\ CatchupPage /\ OlderPage /\ FeedOK
  BY DEF IInv
<1> DEFINE w == older.page.rows
           v == mergeMessages(view, w)
           l == applyOlderPageToLedger(ledger, older.cursor, older.page)
<1>1. /\ older.page.got /\ older' = NoRequest
      /\ UNCHANGED <<rows, unpublished, mode, sub, faults, thread, visible, load, catchup, send, orphaned,
                     sends, passed>>
  BY DEF OlderLoaded, feedVars
<1>2. /\ rows \in 0..MaxRows /\ rows \in Nat /\ faults \in 0..MaxFaults /\ faults <= faults'
      /\ passed \subseteq 1..MaxOrder /\ view \subseteq Row /\ ledger \in Ledger
      /\ catchup \in RequestType /\ older \in RequestType /\ load \in LoadType /\ visible' \in BOOLEAN
      /\ Live(older) /\ thread # "closed"
  BY SMTT(40), <1>0, <1>1, AnsweredLive, Consts DEF Typed, FeedTypeOK
<1>3. /\ catchup' \in RequestType /\ older' \in RequestType /\ load' \in LoadType
      /\ Live(catchup)' => Live(catchup)
      /\ ~Live(older)'
  BY <1>1, <1>2, NullFacts DEF Live
<1>4. QED
  <2>1. Show(v, l)
    BY DEF OlderLoaded
  <2>2. w \subseteq StoredRows(rows) /\ w \subseteq Row
    BY <1>0, <1>2, RowFacts DEF OlderPage
  <2>3. /\ v \subseteq Row /\ v \subseteq view \cup w /\ (view \cup w # {} => v # {})
        /\ Keeps(view \cup w, v, rows, passed') /\ Keeps(view, v, rows, passed')
        /\ StubsIn(v, {send.temp} \cup orphaned)
    <3>1. StubsIn(view, {send.temp} \cup orphaned)
      BY <1>0 DEF StubsOK
    <3> HIDE DEF w
    <3>2. QED
      BY <1>2, <2>2, <3>1, MergeStored
  <2>4. OrdersOf(w) \subseteq 1..MaxOrder
    BY <2>2, OrdersFacts
  <2>5. l \in Ledger /\ (w = {} => l.max = ledger.max)
    <3> DEFINE x == Widen(ledger, OrdersOf(w))
    <3>1. x \in Ledger
      BY <1>2, <2>4, WidenFacts
    <3>2. w = {} => x = ledger
      BY DEF Widen, OrdersOf
    <3>3. l = [x EXCEPT !.fetched = @ \cup {older.cursor},
                        !.more = older.page.hasNext /\ older.page.rows # {}]
      BY DEF applyOlderPageToLedger
    <3>4. older.cursor \in 1..MaxOrder
      BY <1>0, <1>2, Consts DEF OlderPage, RequestType, None, Live
    <3>5. (older.page.hasNext /\ older.page.rows # {}) \in BOOLEAN
      OBVIOUS
    <3> HIDE DEF x, l
    <3>6. QED
      BY <3>1, <3>2, <3>3, <3>4, <3>5 DEF Ledger
  <2> HIDE DEF v, l
  <2>6. passed \subseteq passed' /\ passed' \subseteq 1..MaxOrder
    BY <1>1, <1>2
  <2>7. Grows
    BY <1>0, <1>1, <2>6, GrowsHere
  <2>8. CatchupPage' /\ OlderPage'
    BY <1>0, <1>1, <2>7, PagesFrame
  <2>9. PICK f \in Nat, g \in Nat, h \in Nat : Window(f, g, h)
    BY <1>0 DEF WindowOK
  <2>10. /\ Covers(view, f, g, rows, passed, MaxRows + sends) /\ (ledger.max = None \/ ledger.max \in f..g)
         /\ SubWindow(f, g) /\ RequestWindow(f, g)
    BY <2>9 DEF Window, ListWindow
  <2>11. /\ MaxRows + sends \in Nat /\ MaxRows <= MaxRows + sends /\ MaxRows + sends' = MaxRows + sends
    BY <1>1, <2>7, GrowsFacts
  <2>12. PICK i \in Nat : i <= f /\ Covers(v, i, g, rows, passed', MaxRows + sends)
    <3>1. older.cursor \in f + 1 .. g /\ OlderRows(w, older.cursor, rows, passed)
      BY <1>0, <1>1, <1>2, <2>10 DEF RequestWindow, OlderPage
    <3> HIDE DEF w
    <3>2. QED
      BY <1>2, <2>2, <2>3, <2>6, <2>10, <2>11, <3>1, CoversOlder
  <2>13. v = {} => l.max = None \/ l.max \in i..g
    <3>1. v = {} => w = {}
      BY <2>3
    <3>2. QED
      BY <2>5, <2>10, <2>12, <3>1
  <2>14. RequestWindow(i, g)' /\ SubWindow(i, g)' /\ g <= g
    <3>1. Live(catchup)' => catchup'.cursor \in i..g
      BY <1>1, <1>3, <2>10, <2>12 DEF RequestWindow
    <3>2. RequestWindow(i, g)'
      BY <1>3, <3>1 DEF RequestWindow
    <3>3. SubWindow(i, g)'
      BY <1>1, <2>10, <2>12 DEF SubWindow
    <3>4. QED
      BY <3>2, <3>3
  <2>15. /\ view' = v /\ ledger' \in Ledger /\ tip' \in 0..MaxOrder
         /\ cache' \in CacheType /\ cache'.view \subseteq v /\ WindowOK' /\ CacheOK'
    BY <1>0, <1>1, <2>1, <2>3, <2>5, <2>7, <2>9, <2>11, <2>12, <2>13, <2>14, ShowWindow
  <2>16. FeedOK' /\ FeedTypeOK'
    <3>1. FeedOK'
      BY <1>0, <1>1, <2>3, <2>6, <2>15, FeedFrame DEF Typed
    <3>2. QED
      BY <1>0, <1>1, <3>1 DEF Typed, FeedTypeOK
  <2>17. SendOK'
    BY <1>0, <1>1, <1>2, SendFrame
  <2>18. QED
    BY <1>1, <1>2, <1>3, <2>3, <2>6, <2>7, <2>8, <2>15, <2>16, <2>17, ShowFrame

-----------------------------------------------------------------------------
(* The consumer. *)

(* The consumer is done with a row and asks for the next: every row up to  *)
(* it is shown or has passed by.                                           *)
LEMMA EventFeed ==
  ASSUME Typed, FeedOK, Consuming, sub' = AfterEvent, UNCHANGED <<rows, unpublished, mode>>,
         faults' \in 0..MaxFaults, passed \subseteq passed',
         Keeps(view, view', rows, passed'),
         Stored(sub.held) \in view' \/ sub.held \in passed'
  PROVE  /\ FeedOK' /\ FeedTypeOK' /\ sub.st # "off" /\ sub'.st # "off"
         /\ sub'.start = sub.start /\ sub'.last = sub.held /\ sub.held \in 1..rows
         /\ \A p \in sub.last + 1 .. sub.held : Stored(p) \in view' \/ p \in passed'
<1>1. /\ sub \in SubType /\ rows \in 0..MaxRows /\ rows \in Nat /\ unpublished \subseteq 1..rows
      /\ mode \in {"ws", "poll"} /\ sub.last \in Nat /\ sub.queue \in Seq(Orders) /\ sub.held \in Nat
      /\ sub.st \in {"busy", "pollbusy"} /\ 0 \in 0..MaxRows
  BY Consts DEF Typed, FeedTypeOK, SubType, Consuming
<1>2. sub.held \in InHand(sub) /\ sub.held > sub.last /\ InHand(sub) \subseteq 0..rows
  BY DEF FeedOK, InHand
<1>3. sub.held \in 1..rows
  BY <1>1, <1>2
<1>4. \A q \in Range(sub.queue) : sub.held < q
  BY DEF FeedOK, Range
<1>5. InHand(sub) = Range(sub.queue) \cup {sub.held}
  BY DEF InHand
<1>6. ASSUME NEW p \in sub.last + 1 .. sub.held PROVE Stored(p) \in view' \/ p \in passed'
  <2>1. CASE p = sub.held
    BY <2>1
  <2>2. CASE p # sub.held
    <3>1. p \in Nat /\ p < sub.held /\ p \in sub.last + 1 .. rows /\ p \in 1..rows
      BY <1>1, <1>3, <2>2
    <3>2. Awaited(p, view, passed, sub, unpublished)
      BY <1>1, <3>1 DEF FeedOK
    <3>3. p \notin InHand(sub)
      <4>1. p \notin Range(sub.queue)
        <5>1. Range(sub.queue) \subseteq 0..rows
          BY <1>2, <1>5
        <5>2. QED
          BY <1>1, <1>4, <3>1, <5>1
      <4>2. QED
        BY <1>5, <2>2, <4>1
    <3>4. ~(\A q \in InHand(sub) : q < p)
      BY <1>1, <1>2, <3>1
    <3>5. ~(sub.open /\ p \in unpublished)
      BY <3>4 DEF FeedOK
    <3>6. QED
      BY <3>1, <3>2, <3>3, <3>4, <3>5 DEF Awaited, Keeps
  <2>3. QED
    BY <2>1, <2>2
<1>7. CASE sub.st = "pollbusy" \/ ~sub.open
  <2>1. /\ sub' \in SubType /\ ~sub'.open /\ sub'.st \in {"polling", "ended"}
        /\ sub'.held = Nothing /\ sub'.queue = <<>> /\ sub'.start = sub.start /\ sub'.last = sub.held
    <3>1. CASE sub.st = "pollbusy"
      <4>1. sub' = [sub EXCEPT !.st = "polling", !.last = sub.held, !.held = Nothing]
        BY <3>1 DEF AfterEvent, PollResumed
      <4>2. ~sub.open /\ sub.queue = <<>>
        BY <3>1 DEF FeedOK
      <4>3. QED
        BY <1>1, <4>1, <4>2 DEF SubType, SubState, Nothing
    <3>2. CASE sub.st = "busy" /\ ~sub.open
      <4> DEFINE r == [sub EXCEPT !.held = Nothing, !.last = sub.held]
      <4>1. sub' = [r EXCEPT !.st = "ended", !.queue = <<>>]
        BY <3>2 DEF AfterEvent, Resumed
      <4>2. /\ r \in SubType /\ r.held = Nothing /\ r.last = sub.held /\ r.start = sub.start
            /\ r.open = sub.open
        BY <1>1 DEF SubType, Nothing
      <4> HIDE DEF r
      <4>3. <<>> \in Seq(Orders)
        OBVIOUS
      <4>4. QED
        BY <3>2, <4>1, <4>2, <4>3 DEF SubType, SubState
    <3>3. QED
      BY <1>1, <1>7, <3>1, <3>2
  <2>2. FeedOK' /\ FeedTypeOK'
    BY <1>1, <2>1, QuietFeed
  <2>3. QED
    BY <1>1, <1>3, <1>6, <2>1, <2>2
<1>8. CASE sub.st = "busy" /\ sub.open
  <2> DEFINE r == [sub EXCEPT !.held = Nothing, !.last = sub.held]
  <2>1. /\ r \in SubType /\ r.held = Nothing /\ r.last = sub.held /\ r.start = sub.start
        /\ r.open = sub.open /\ r.queue = sub.queue /\ r.st = "busy"
    BY <1>1, <1>8 DEF SubType, Nothing
  <2>2. sub' = IF sub.queue # <<>>
               THEN [r EXCEPT !.held = Head(sub.queue), !.queue = Tail(sub.queue)]
               ELSE [r EXCEPT !.st = "waiting"]
    BY <1>8 DEF AfterEvent, Resumed
  <2> HIDE DEF r
  <2>3. /\ sub' \in SubType /\ sub'.open /\ sub'.st \in {"waiting", "busy"} /\ mode = "ws"
        /\ sub'.start = sub.start /\ sub'.last = sub.held
        /\ InHand(sub') \subseteq InHand(sub) \cup {0} /\ Range(sub.queue) \subseteq InHand(sub')
        /\ (sub'.st # "busy" => sub'.held = Nothing /\ sub'.queue = <<>>)
        /\ (sub'.st = "busy" => sub'.held > sub'.last)
        /\ \A i \in DOMAIN sub'.queue : sub'.held < sub'.queue[i]
        /\ \A i, j \in DOMAIN sub'.queue : i < j => sub'.queue[i] < sub'.queue[j]
    <3>0. mode = "ws"
      BY <1>8 DEF FeedOK
    <3>1. CASE sub.queue # <<>>
      <4> DEFINE q == sub.queue
      <4>1. /\ Tail(q) \in Seq(Orders) /\ Head(q) = q[1] /\ 1 \in DOMAIN q
            /\ Range(q) = {Head(q)} \cup Range(Tail(q))
            /\ \A i \in DOMAIN Tail(q) :
                  i \in Nat /\ i + 1 \in DOMAIN q /\ Tail(q)[i] = q[i + 1] /\ 1 < i + 1
        BY <1>1, <3>1, QueueFacts
      <4>2. Head(q) \in 0..MaxRows
        <5>1. Head(q) \in Orders
          BY <1>1, <4>1, QueueFacts
        <5>2. QED
          BY <5>1, Consts DEF Orders
      <4>3. sub' = [r EXCEPT !.held = Head(q), !.queue = Tail(q)]
        BY <2>2, <3>1
      <4>4. /\ sub' \in SubType /\ sub'.open /\ sub'.st = "busy" /\ sub'.start = sub.start
            /\ sub'.last = sub.held /\ sub'.held = Head(q) /\ sub'.queue = Tail(q)
        BY <1>8, <2>1, <4>1, <4>2, <4>3 DEF SubType
      <4>5. InHand(sub') = Range(q)
        BY <4>1, <4>4 DEF InHand
      <4>6. Head(q) > sub.held
        BY <1>1, <4>1, <4>2 DEF FeedOK
      <4>7. \A i \in DOMAIN Tail(q) : Head(q) < Tail(q)[i]
        BY <4>1 DEF FeedOK
      <4>8. \A i, j \in DOMAIN Tail(q) : i < j => Tail(q)[i] < Tail(q)[j]
        <5>1. \A i, j \in DOMAIN Tail(q) : i < j => i + 1 < j + 1
          BY <4>1
        <5>2. QED
          BY <4>1, <5>1 DEF FeedOK
      <4>9. QED
        BY <1>5, <3>0, <4>4, <4>5, <4>6, <4>7, <4>8
    <3>2. CASE sub.queue = <<>>
      <4>1. sub' = [r EXCEPT !.st = "waiting"]
        BY <2>2, <3>2
      <4>2. /\ sub' \in SubType /\ sub'.open /\ sub'.st = "waiting" /\ sub'.start = sub.start
            /\ sub'.last = sub.held /\ sub'.held = Nothing /\ sub'.queue = <<>>
        BY <1>8, <2>1, <3>2, <4>1 DEF SubType, SubState
      <4>3. InHand(sub') = {0} /\ DOMAIN sub'.queue = {} /\ Range(sub.queue) = {}
        BY <3>2, <4>2, QueueFacts DEF InHand, Nothing
      <4>4. QED
        BY <3>0, <4>2, <4>3
    <3>3. QED
      BY <3>1, <3>2
  <2>4. InHand(sub') \subseteq 0..rows
    BY <1>1, <1>2, <2>3
  <2>5. \A p \in unpublished : sub.held < p /\ \A q \in InHand(sub') : q < p
    <3>1. \A p \in unpublished : 0 < p
      BY <1>1
    <3>2. QED
      BY <1>2, <1>8, <2>3, <3>1 DEF FeedOK
  <2>6. ASSUME NEW p \in sub.held + 1 .. rows PROVE Awaited(p, view', passed', sub', unpublished)
    <3>1. p \in sub.last + 1 .. rows /\ p \in 1..rows /\ p # sub.held
      BY <1>1, <1>2
    <3>2. Awaited(p, view, passed, sub, unpublished)
      BY <1>1, <3>1 DEF FeedOK
    <3>3. QED
      BY <1>5, <1>8, <2>3, <3>1, <3>2 DEF Awaited, Keeps
  <2>7. FeedOK'
    BY <1>1, <2>3, <2>4, <2>5, <2>6 DEF FeedOK, Consuming
  <2>8. FeedTypeOK'
    <3>1. \A i \in DOMAIN sub'.queue :
             sub'.queue[i] > IF i = 1 THEN sub'.held ELSE sub'.queue[i - 1]
      BY <2>3, QueueTyped
    <3>2. QED
      BY <1>1, <2>3, <3>1 DEF FeedTypeOK, SubType
  <2>9. QED
    BY <1>1, <1>3, <1>6, <2>3, <2>7, <2>8
<1>9. QED
  BY <1>1, <1>7, <1>8

(* A window grows to a row of the feed when the rows between the           *)
(* generator's last order and it are known.                                *)
LEMMA CoversEvent ==
  ASSUME NEW v, NEW u, NEW f, NEW g, NEW n \in 0..MaxRows, NEW P, NEW Q, NEW m \in Nat,
         NEW c \in f..g, NEW e \in 1..n,
         v \subseteq Row, u \subseteq v \cup {Stored(e)}, P \subseteq Q, MaxRows <= m,
         Keeps(v, u, n, Q), c < e, \A p \in c + 1 .. e : Stored(p) \in u \/ p \in Q,
         Covers(v, f, g, n, P, m)
  PROVE  \E k \in Nat : g <= k /\ e <= k /\ Covers(u, f, k, n, Q, m)
<1>0. n \in Nat /\ n <= MaxRows /\ MaxRows \in Nat /\ e \in Nat /\ e <= n
  BY Consts
<1>1. f \in Nat /\ g \in Nat /\ f <= g /\ g <= m
  BY DEF Covers
<1>2. c \in Nat /\ f <= c /\ c <= g
  BY <1>1
<1> DEFINE k == IF e <= g THEN g ELSE e
<1>3. k \in Nat /\ g <= k /\ e <= k /\ k <= m /\ (k = g \/ k = e)
  BY <1>0, <1>1
<1> HIDE DEF k
<1>4. \A r \in u : f < r.order /\ r.order <= k
  <2>1. \A r \in v : r.order \in Nat /\ f < r.order /\ r.order <= g
    BY RowFacts DEF Covers
  <2>2. Stored(e).order = e
    BY RowFacts
  <2>3. QED
    BY <2>1, <2>2, <1>0, <1>1, <1>2, <1>3
<1>5. ASSUME NEW p \in f + 1 .. k, p <= n PROVE Stored(p) \in u \/ p \in Q
  <2>1. p \in 1..n
    BY <1>0, <1>1, <1>3, <1>5
  <2>2. p \in f + 1 .. g \/ p \in c + 1 .. e
    BY <1>0, <1>1, <1>2, <1>3
  <2>3. QED
    BY <2>1, <2>2, <1>5 DEF Covers, Keeps
<1>6. \A p \in n + 1 .. k : p \in Q
  <2>1. \A p \in n + 1 .. k : p \in n + 1 .. g
    BY <1>0, <1>1, <1>3
  <2>2. QED
    BY <2>1 DEF Covers
<1>7. Covers(u, f, k, n, Q, m)
  BY <1>1, <1>2, <1>3, <1>4, <1>5, <1>6 DEF Covers
<1>8. QED
  BY <1>3, <1>7

(* What the stream misses while a row is consumed are orders. *)
LEMMA MissedOrders ==
  ASSUME Typed, Consuming
  PROVE  Missed \subseteq 1..MaxOrder
<1>1. sub.last \in Nat /\ sub.queue \in Seq(Orders) /\ rows \in Nat /\ rows <= MaxRows
      /\ unpublished \subseteq 1..rows
  BY Consts DEF Typed, FeedTypeOK
<1>2. \A o \in sub.last + 1 .. rows : o \in 1..MaxOrder
  BY <1>1, Consts
<1>3. Range(sub.queue) \subseteq Orders
  BY <1>1, QueueFacts
<1>4. \A o \in 1..MaxRows : o \in 1..MaxOrder
  BY Consts
<1>5. \A o \in 1..rows : o \in 1..MaxOrder
  BY <1>1, Consts
<1>6. sub.st # "polling"
  BY DEF Consuming
<1>7. QED
  BY <1>1, <1>2, <1>3, <1>4, <1>5, <1>6 DEF Missed, Orders

(* The row at hand is merged into the list. *)
LEMMA DeliverIInv ==
  ASSUME IInv, Deliver
  PROVE  IInv'
<1>0. Typed /\ ThreadOK /\ StubsOK /\ WindowOK /\ CacheOK /\ LoadPage /\ CatchupPage /\ OlderPage /\ FeedOK
  BY DEF IInv
<1> DEFINE w == {Stored(sub.held)}
           v == mergeMessages(view, w)
<1>1. /\ Consuming /\ Show(v, ledger) /\ sub' = AfterEvent /\ passed' = passed \cup Missed
      /\ UNCHANGED <<rows, unpublished, mode, faults, thread, visible, load, catchup, older, send,
                     orphaned, sends>>
  BY DEF Deliver
<1>2. /\ rows \in 0..MaxRows /\ rows \in Nat /\ faults \in 0..MaxFaults /\ faults <= faults'
      /\ passed \subseteq 1..MaxOrder /\ view \subseteq Row /\ ledger \in Ledger
      /\ catchup' \in RequestType /\ older' \in RequestType /\ sub.last \in Nat /\ sub.held \in Nat
  BY <1>0, <1>1, Consts DEF Typed, FeedTypeOK
<1>3. passed \subseteq passed' /\ passed' \subseteq 1..MaxOrder
  BY <1>0, <1>1, <1>2, MissedOrders
<1>4. sub.held \in 1..rows /\ sub.last < sub.held
  <2>1. sub.held > sub.last /\ sub.held \in 0..rows
    BY <1>0, <1>1 DEF FeedOK, InHand
  <2>2. QED
    BY <1>2, <2>1
<1>5. w \subseteq StoredRows(rows)
  BY <1>4 DEF StoredRows
<1>6. /\ v \subseteq Row /\ v \subseteq view \cup w /\ v # {}
      /\ Keeps(view \cup w, v, rows, passed') /\ Keeps(view, v, rows, passed')
      /\ StubsIn(v, {send.temp} \cup orphaned)
  <2>1. StubsIn(view, {send.temp} \cup orphaned) /\ view \cup w # {}
    BY <1>0 DEF StubsOK
  <2> HIDE DEF w
  <2>2. QED
    BY <1>2, <1>5, <2>1, MergeStored
<1>7. view' = v
  BY <1>1 DEF Show
<1>8. Stored(sub.held) \in v \/ sub.held \in passed'
  BY <1>4, <1>6 DEF Keeps
<1> HIDE DEF v
<1>9. /\ FeedOK' /\ FeedTypeOK' /\ sub.st # "off" /\ sub'.st # "off"
      /\ sub'.start = sub.start /\ sub'.last = sub.held
      /\ \A p \in sub.last + 1 .. sub.held : Stored(p) \in v \/ p \in passed'
  <2>1. faults' \in 0..MaxFaults
    BY <1>1, <1>2
  <2>2. QED
    BY <1>0, <1>1, <1>3, <1>6, <1>7, <1>8, <2>1, EventFeed
<1>10. Grows
  BY <1>0, <1>1, <1>3, GrowsHere
<1>11. CatchupPage' /\ OlderPage'
  BY <1>0, <1>1, <1>10, PagesFrame
<1>12. PICK f \in Nat, g \in Nat, h \in Nat : Window(f, g, h)
  BY <1>0 DEF WindowOK
<1>13. /\ Covers(view, f, g, rows, passed, MaxRows + sends)
       /\ SubWindow(f, g) /\ RequestWindow(f, g) /\ sub.last \in f..g
  BY <1>9, <1>12 DEF Window, ListWindow, SubWindow
<1>14. /\ MaxRows + sends \in Nat /\ MaxRows <= MaxRows + sends /\ MaxRows + sends' = MaxRows + sends
  BY <1>1, <1>10, GrowsFacts
<1>15. PICK j \in Nat : g <= j /\ sub.held <= j /\ Covers(v, f, j, rows, passed', MaxRows + sends)
  BY <1>2, <1>3, <1>4, <1>6, <1>9, <1>13, <1>14, CoversEvent
<1>16. SubWindow(f, j)' /\ RequestWindow(f, j)' /\ f <= f
  <2>1. sub.held \in f..j
    BY <1>2, <1>4, <1>13, <1>15
  <2>2. SubWindow(f, j)'
    BY <1>9, <1>13, <1>15, <2>1 DEF SubWindow
  <2>3. RequestWindow(f, j)'
    BY <1>1, <1>13, <1>15 DEF RequestWindow, Live
  <2>4. QED
    BY <2>2, <2>3
<1>17. /\ view' = v /\ ledger' \in Ledger /\ tip' \in 0..MaxOrder
       /\ cache' \in CacheType /\ cache'.view \subseteq v /\ WindowOK' /\ CacheOK'
  BY <1>0, <1>1, <1>2, <1>6, <1>10, <1>12, <1>14, <1>15, <1>16, ShowWindow
<1>18. SendOK'
  BY <1>0, <1>1, <1>2, SendFrame
<1>19. /\ thread # "closed"
       /\ (Live(catchup)' => Live(catchup)) /\ (Live(older)' => Live(older))
  BY <1>0, <1>1, <1>9 DEF ThreadOK, Live
<1>20. QED
  BY <1>1, <1>2, <1>3, <1>6, <1>9, <1>10, <1>11, <1>17, <1>18, <1>19, ShowFrame

(* The row at hand cannot be decrypted and passes by. *)
LEMMA SkipIInv ==
  ASSUME IInv, DeliverSkips
  PROVE  IInv'
<1>0. Typed /\ ThreadOK /\ StubsOK /\ WindowOK /\ FeedOK
  BY DEF IInv
<1>1. /\ Consuming /\ Fault /\ sub' = AfterEvent /\ passed' = passed \cup Missed \cup {sub.held}
      /\ UNCHANGED <<rows, unpublished, mode, thread, visible, view, ledger, tip, cache, load,
                     catchup, older, send, orphaned, sends>>
  BY DEF DeliverSkips
<1>2. /\ rows \in 0..MaxRows /\ rows \in Nat /\ faults \in 0..MaxFaults
      /\ passed \subseteq 1..MaxOrder /\ view \subseteq Row /\ load.base \subseteq Row
      /\ sub.last \in Nat /\ sub.held \in Nat
  BY <1>0, <1>1, Consts DEF Typed, FeedTypeOK, LoadType
<1>3. faults' \in 0..MaxFaults /\ faults <= faults'
  BY <1>1, <1>2, Consts DEF Fault
<1>4. sub.held \in 1..rows /\ sub.last < sub.held
  <2>1. sub.held > sub.last /\ sub.held \in 0..rows
    BY <1>0, <1>1 DEF FeedOK, InHand
  <2>2. QED
    BY <1>2, <2>1
<1>5. passed \subseteq passed' /\ passed' \subseteq 1..MaxOrder
  <2>1. sub.held \in 1..MaxOrder
    BY <1>2, <1>4, Consts
  <2>2. QED
    BY <1>0, <1>1, <1>2, <2>1, MissedOrders
<1>6. Keeps(view, view, rows, passed')
  BY DEF Keeps
<1>7. /\ FeedOK' /\ FeedTypeOK' /\ sub.st # "off" /\ sub'.st # "off"
      /\ sub'.start = sub.start /\ sub'.last = sub.held
      /\ \A p \in sub.last + 1 .. sub.held : Stored(p) \in view \/ p \in passed'
  BY <1>0, <1>1, <1>3, <1>5, <1>6, EventFeed
<1>8. Grows
  BY <1>0, <1>1, <1>5, GrowsHere
<1>9. WindowOK'
  <2>1. PICK f \in Nat, g \in Nat, h \in Nat : Window(f, g, h)
    BY <1>0 DEF WindowOK
  <2>2. /\ Covers(view, f, g, rows, passed, MaxRows + sends) /\ g <= h /\ LoadWindow(f, h)
        /\ SubWindow(f, g) /\ RequestWindow(f, g) /\ ListWindow(f, g) /\ sub.last \in f..g
    BY <1>7, <2>1 DEF Window, ListWindow, SubWindow
  <2>3. /\ MaxRows + sends \in Nat /\ MaxRows <= MaxRows + sends /\ MaxRows + sends <= MaxRows + sends
    BY <1>8, GrowsFacts
  <2>4. PICK j \in Nat : g <= j /\ sub.held <= j /\ Covers(view, f, j, rows, passed', MaxRows + sends)
    BY <1>2, <1>4, <1>5, <1>6, <1>7, <2>2, <2>3, CoversEvent
  <2>5. sub.held \in f..j /\ f <= j
    BY <1>2, <1>4, <2>2, <2>4
  <2>6. SubWindow(f, j)'
    BY <1>7, <2>2, <2>4, <2>5 DEF SubWindow
  <2>7. RequestWindow(f, j)'
    BY <1>1, <2>2, <2>4 DEF RequestWindow, Live
  <2>8. ListWindow(f, j)'
    <3>1. /\ tip \in f..j /\ (ledger.max = None \/ ledger.max \in f..j)
          /\ (view # {} => ledger.min \in f + 1 .. j)
      BY <2>2, <2>4 DEF ListWindow
    <3>2. QED
      BY <1>1, <2>4, <3>1 DEF ListWindow
  <2>9. PICK k \in Nat : j <= k /\ LoadWindow(f, k)'
    <3>1. CASE load.st = "warm"
      <4>1. /\ Covers(load.base \cup view, f, h, rows, passed, MaxRows + sends)
            /\ load.ledger.max \in f..h /\ load.req.cursor \in f..h
        BY <2>2, <3>1 DEF LoadWindow
      <4>2. f <= f
        OBVIOUS
      <4>3. PICK k \in Nat : /\ h <= k /\ j <= k
                             /\ Covers(load.base \cup view, f, k, rows, passed', MaxRows + sends)
        BY <1>2, <1>5, <1>6, <2>3, <2>4, <2>5, <4>1, <4>2, CoversBoth
      <4>4. load.ledger.max \in f..k /\ load.req.cursor \in f..k
        BY <4>1, <4>3
      <4>5. LoadWindow(f, k)'
        BY <1>1, <4>3, <4>4 DEF LoadWindow
      <4>6. QED
        BY <4>3, <4>5
    <3>2. CASE load.st # "warm"
      BY <1>1, <3>2 DEF LoadWindow
    <3>3. QED
      BY <3>1, <3>2
  <2>10. Window(f, j, k)'
    BY <2>6, <2>7, <2>8, <2>9 DEF Window
  <2>11. QED
    BY <2>10 DEF WindowOK
<1>10. thread = "open" /\ visible' \in BOOLEAN
  BY <1>0, <1>1, <1>7 DEF ThreadOK, Typed
<1>11. QED
  BY <1>1, <1>3, <1>5, <1>7, <1>8, <1>9, <1>10, SubFrame

-----------------------------------------------------------------------------
(* Sending. *)

(* A send shows its stub after the tip; the order it takes passes by. *)
LEMMA SendIInv ==
  ASSUME IInv, performSend
  PROVE  IInv'
<1>0. Typed /\ ThreadOK /\ StubsOK /\ WindowOK /\ CacheOK /\ LoadPage /\ CatchupPage /\ OlderPage /\ FeedOK
  BY DEF IInv
<1> DEFINE temp == MaxRows + sends + 1
           stub == [id |-> temp, order |-> tip + 1]
           v == mergeMessages(view, {stub})
<1>1. /\ thread # "closed" /\ send = NoSend /\ Fault /\ Show(v, ledger)
      /\ send' = [NoSend EXCEPT !.st = "posting", !.temp = temp]
      /\ sends' = sends + 1 /\ passed' = passed \cup {tip + 1}
      /\ UNCHANGED <<rows, unpublished, mode, sub, thread, visible, load, catchup, older, orphaned>>
  BY DEF performSend
<1>2. /\ rows \in 0..MaxRows /\ rows \in Nat /\ faults \in 0..MaxFaults /\ faults \in Nat
      /\ sends \in 0..MaxFaults /\ sends \in Nat /\ sends <= faults
      /\ passed \subseteq 1..MaxOrder /\ view \subseteq Row /\ ledger \in Ledger /\ tip \in Nat
      /\ catchup' \in RequestType /\ older' \in RequestType
  BY SMTT(40), <1>0, <1>1, Consts DEF Typed, FeedTypeOK, StubsOK
<1>3. /\ faults < MaxFaults /\ faults' = faults + 1
      /\ faults' \in 0..MaxFaults /\ faults <= faults' /\ sends' \in 0..MaxFaults
      /\ sends <= sends' /\ sends' <= faults' /\ temp \in MaxRows + 1 .. MaxOrder
      /\ temp \in MaxRows + 1 .. MaxRows + sends' /\ temp \in 0..MaxOrder /\ temp > MaxRows
      /\ MaxRows + sends' <= MaxOrder /\ MaxRows + sends' = temp
  <2>1. faults < MaxFaults /\ faults' = faults + 1
    BY <1>1 DEF Fault
  <2>2. \A a, b, c \in Nat : a <= b /\ b < MaxFaults /\ c = a + 1 =>
           /\ b + 1 \in 0..MaxFaults /\ b <= b + 1 /\ c \in 0..MaxFaults /\ a <= c /\ c <= b + 1
           /\ MaxRows + a + 1 \in MaxRows + 1 .. MaxOrder
           /\ MaxRows + a + 1 \in MaxRows + 1 .. MaxRows + c
           /\ MaxRows + a + 1 \in 0..MaxOrder /\ MaxRows + a + 1 > MaxRows
           /\ MaxRows + c <= MaxOrder /\ MaxRows + c = MaxRows + a + 1
    BY Consts
  <2>3. /\ sends \in Nat /\ faults \in Nat /\ sends' \in Nat
        /\ sends <= faults /\ faults < MaxFaults /\ sends' = sends + 1
    BY <1>1, <1>2, <2>1
  <2>4. /\ faults + 1 \in 0..MaxFaults /\ faults <= faults + 1 /\ sends' \in 0..MaxFaults
        /\ sends <= sends' /\ sends' <= faults + 1
        /\ MaxRows + sends + 1 \in MaxRows + 1 .. MaxOrder
        /\ MaxRows + sends + 1 \in MaxRows + 1 .. MaxRows + sends'
        /\ MaxRows + sends + 1 \in 0..MaxOrder /\ MaxRows + sends + 1 > MaxRows
        /\ MaxRows + sends' <= MaxOrder /\ MaxRows + sends' = MaxRows + sends + 1
    BY <2>2, <2>3, ZenonT(40)
  <2>5. QED
    BY <2>1, <2>4
<1>4. PICK f \in Nat, g \in Nat, h \in Nat : Window(f, g, h)
  BY <1>0 DEF WindowOK
<1>5. /\ Covers(view, f, g, rows, passed, MaxRows + sends) /\ tip \in f..g /\ g <= MaxRows + sends
      /\ SubWindow(f, g) /\ RequestWindow(f, g)
  BY <1>4 DEF Window, ListWindow, Covers
<1>6. MaxRows \in Nat /\ MaxOrder \in Nat /\ MaxRows <= MaxOrder
  BY Consts
<1>7. tip + 1 <= temp /\ tip + 1 \in 1..MaxOrder
  <2>1. MaxRows + sends + 1 <= MaxOrder
    BY <1>3, <1>6
  <2>2. QED
    BY <1>2, <1>5, <1>6, <2>1
<1>8. passed \subseteq passed' /\ passed' \subseteq 1..MaxOrder
  BY <1>1, <1>2, <1>7
<1>9. stub \in Row /\ stub.id = temp /\ stub.order = tip + 1 /\ IsStub(stub)
  <2>1. temp \in 1..MaxOrder
    BY <1>3, <1>6
  <2>2. QED
    BY <1>3, <1>7, <2>1 DEF Row, IsStub
<1> HIDE DEF temp, stub
<1>10. /\ v \subseteq view \cup {stub} /\ v # {}
       /\ \A p \in 1..MaxRows : Stored(p) \in view => Stored(p) \in v
  BY <1>2, <1>9, MergeFacts
<1>11. v \subseteq Row /\ Keeps(view, v, rows, passed')
  <2>1. \A p \in 1..rows : p \in 1..MaxRows
    BY <1>2, <1>6
  <2>2. QED
    BY <1>2, <1>9, <1>10, <2>1 DEF Keeps
<1> HIDE DEF v
<1>12. Grows
  BY <1>1, <1>2, <1>3, <1>8 DEF Grows
<1>13. PICK j \in Nat :
          g <= j /\ f <= j /\ tip + 1 <= j /\ (j = g \/ j = tip + 1) /\ j <= temp
  <2>1. tip + 1 \in Nat /\ (g <= tip + 1 \/ tip + 1 <= g) /\ g <= g /\ tip + 1 <= tip + 1
        /\ f <= g /\ f <= tip + 1 /\ tip + 1 <= temp /\ g <= temp
    BY <1>2, <1>3, <1>5, <1>6, <1>7 DEF temp
  <2>2. QED
    BY <2>1
<1>14. Covers(v, f, j, rows, passed', MaxRows + sends')
  <2>1. \A r \in v : f < r.order /\ r.order <= j
    <3>1. \A r \in view : r.order \in Nat /\ f < r.order /\ r.order <= g
      BY <1>2, <1>5, RowFacts DEF Covers
    <3>2. QED
      BY <1>2, <1>5, <1>9, <1>10, <1>13, <3>1
  <2>2. \A p \in f + 1 .. j : p \in f + 1 .. g \/ p = tip + 1
    BY <1>2, <1>5, <1>13
  <2>3. ASSUME NEW p \in f + 1 .. j, p <= rows PROVE Stored(p) \in v \/ p \in passed'
    <3>1. p \in 1..MaxRows
      BY <1>2, <1>6, <1>13, <2>3
    <3>2. CASE p \in f + 1 .. g
      BY <1>5, <1>8, <1>10, <2>3, <3>1, <3>2 DEF Covers
    <3>3. CASE p = tip + 1
      BY <1>1, <3>3
    <3>4. QED
      BY <2>2, <3>2, <3>3
  <2>4. ASSUME NEW p \in rows + 1 .. j PROVE p \in passed'
    <3>1. p \in rows + 1 .. g \/ p = tip + 1
      BY <1>2, <1>5, <1>13
    <3>2. QED
      BY <1>1, <1>5, <1>8, <3>1 DEF Covers
  <2>5. QED
    BY <1>3, <1>13, <2>1, <2>3, <2>4 DEF Covers
<1>15. SubWindow(f, j)' /\ RequestWindow(f, j)' /\ f <= f
  <2>1. SubWindow(f, j)'
    BY <1>1, <1>5, <1>13 DEF SubWindow
  <2>2. RequestWindow(f, j)'
    BY <1>1, <1>5, <1>13 DEF RequestWindow, Live
  <2>3. QED
    BY <2>1, <2>2
<1>16. /\ view' = v /\ ledger' \in Ledger /\ tip' \in 0..MaxOrder
       /\ cache' \in CacheType /\ cache'.view \subseteq v /\ WindowOK' /\ CacheOK'
  <2>1. UNCHANGED <<load, rows>> /\ Show(v, ledger)
    BY <1>1
  <2>2. QED
    BY <1>0, <1>2, <1>4, <1>10, <1>11, <1>12, <1>13, <1>14, <1>15, <2>1, ShowWindow
<1>17. FeedOK' /\ FeedTypeOK'
  <2>1. FeedOK'
    BY <1>0, <1>1, <1>8, <1>11, <1>16, FeedFrame DEF Typed
  <2>2. QED
    BY <1>0, <1>1, <1>3, <2>1 DEF Typed, FeedTypeOK
<1>18. send' = [st |-> "posting", temp |-> temp, id |-> None]
  BY <1>1 DEF NoSend
<1>19. SendOK'
  <2>1. None \in 0..MaxRows
    BY <1>6 DEF None
  <2>2. send' \in SendType /\ send'.st = "posting" /\ send'.temp = temp
    BY <1>3, <1>18, <2>1 DEF SendType
  <2>3. QED
    BY <1>3, <2>2 DEF SendOK
<1>20. StubsIn(v, {send'.temp} \cup orphaned)
  <2>1. send.temp = 0 /\ send'.temp = temp
    BY <1>1, <1>18 DEF NoSend, None
  <2>2. \A r \in view : IsStub(r) => r.id # 0
    BY <1>6 DEF IsStub
  <2>3. QED
    BY <1>0, <1>9, <1>10, <2>1, <2>2 DEF StubsOK, StubsIn
<1>21. CatchupPage' /\ OlderPage'
  BY <1>0, <1>1, <1>12, PagesFrame
<1>22. (Live(catchup)' => Live(catchup)) /\ (Live(older)' => Live(older))
  BY <1>1 DEF Live
<1>23. QED
  BY <1>1, <1>2, <1>8, <1>11, <1>12, <1>16, <1>17, <1>19, <1>20, <1>21, <1>22, ShowFrame

(* A send ends whose thread was left: nothing of the thread changes. *)
LEMMA EndOrphaned ==
  ASSUME IInv, send.temp \in orphaned, send' = NoSend,
         UNCHANGED <<rows, unpublished, mode, sub, faults, thread, visible, view, ledger, tip, cache,
                     load, catchup, older, orphaned, sends, passed>>
  PROVE  IInv'
<1>0. Typed /\ ThreadOK /\ StubsOK /\ WindowOK /\ CacheOK /\ LoadPage /\ CatchupPage /\ OlderPage /\ FeedOK
  BY DEF IInv
<1>1. /\ send'.st = "none" /\ send'.temp = 0 /\ send'.id = 0
      /\ send' \in [st : {"none", "posting", "stored"}, temp : 0..MaxOrder, id : 0..MaxRows]
  BY Consts DEF NoSend, None
<1>2. Typed'
  BY <1>0, <1>1 DEF Typed, FeedTypeOK
<1>3. ThreadOK'
  BY <1>0 DEF ThreadOK, Live
<1>4. StubsOK'
  BY <1>0, <1>1 DEF StubsOK, StubsIn
<1>5. WindowOK'
  BY <1>0 DEF WindowOK, Window, ListWindow, RequestWindow, SubWindow, LoadWindow, Live
<1>6. CacheOK' /\ LoadPage' /\ CatchupPage' /\ OlderPage'
  BY <1>0 DEF CacheOK, LoadPage, CatchupPage, OlderPage, Live
<1>7. FeedOK'
  BY <1>0 DEF FeedOK, Consuming
<1>8. QED
  BY <1>2, <1>3, <1>4, <1>5, <1>6, <1>7 DEF IInv

(* A send ends: its stub is confirmed or goes. *)
LEMMA EndIInv ==
  ASSUME IInv, SendConfirmed \/ SendFails
  PROVE  IInv'
<1>0. Typed /\ ThreadOK /\ StubsOK /\ WindowOK /\ CacheOK /\ LoadPage /\ CatchupPage /\ OlderPage /\ FeedOK
  BY DEF IInv
<1> DEFINE rest == {r \in view : r.id # send.temp}
<1>1. /\ send' = NoSend /\ send # NoSend
      /\ UNCHANGED <<rows, unpublished, mode, sub, faults, thread, visible, load, catchup, older,
                     orphaned, sends, passed>>
  BY DEF SendConfirmed, SendFails, EndSend, feedVars, NoSend
<1>2. CASE send.temp \in orphaned
  <2>1. UNCHANGED <<view, ledger, tip, cache>>
    BY <1>2 DEF SendConfirmed, SendFails, EndSend
  <2>2. QED
    BY <1>1, <1>2, <2>1, EndOrphaned
<1>3. CASE send.temp \notin orphaned
  <2>0. thread # "closed"
    BY <1>0, <1>1, <1>3 DEF StubsOK
  <2>1. /\ rows \in 0..MaxRows /\ rows \in Nat /\ faults \in 0..MaxFaults /\ sends \in 0..MaxFaults
        /\ sends \in Nat /\ sends <= faults
        /\ passed' \subseteq 1..MaxOrder /\ view \subseteq Row /\ ledger \in Ledger
        /\ catchup' \in RequestType /\ older' \in RequestType
    BY <1>0, <1>1, Consts DEF Typed, FeedTypeOK, StubsOK
  <2>2. send.temp > MaxRows /\ (send.st = "stored" => send.id \in 1..rows)
    <3>1. send.temp \in MaxRows + 1 .. MaxRows + sends
      BY <1>0, <1>1 DEF StubsOK
    <3>2. QED
      BY <1>0, <2>1, <3>1, Consts DEF StubsOK
  <2>3. PICK v : /\ Show(v, ledger) /\ rest \subseteq v
                 /\ \A r \in v : \/ r \in rest
                                 \/ /\ send.st = "stored"
                                    /\ \E q \in view : r = [q EXCEPT !.id = send.id]
    <3>1. CASE SendFails
      BY <1>3, <3>1 DEF SendFails, EndSend
    <3>2. CASE SendConfirmed
      <4>1. Show(Confirmed, ledger) /\ send.st = "stored"
        BY <1>3, <3>2 DEF SendConfirmed, EndSend
      <4>2. Confirmed = rest \/ Confirmed = rest \cup {[r EXCEPT !.id = send.id] : r \in view \ rest}
        BY DEF Confirmed
      <4>3. QED
        BY <4>1, <4>2
    <3>3. QED
      BY <3>1, <3>2
  <2>4. \A r \in v : /\ r \in Row /\ \E q \in view : r.order = q.order
                     /\ r \in rest \/ ~IsStub(r)
    <3>1. ASSUME NEW q \in view, send.st = "stored"
          PROVE  LET r == [q EXCEPT !.id = send.id]
                 IN  r \in Row /\ r.order = q.order /\ ~IsStub(r)
      <4>1. send.id \in 1..MaxOrder /\ ~(send.id > MaxRows)
        BY <2>1, <2>2, <3>1, Consts
      <4>2. q \in Row
        BY <2>1
      <4>3. QED
        BY <4>1, <4>2 DEF Row, IsStub
    <3>2. QED
      BY <2>1, <2>3, <3>1
  <2>5. Keeps(view, v, rows, passed')
    <3>1. \A p \in 1..rows : p # send.temp
      <4>1. send.temp \in Nat
        BY <1>0, Consts DEF Typed
      <4>2. QED
        BY <2>1, <2>2, <4>1, Consts
    <3>2. QED
      BY <2>3, <3>1, RowFacts DEF Keeps
  <2>6. Grows
    BY <1>0, <1>1, GrowsHere
  <2>7. PICK f \in Nat, g \in Nat, h \in Nat : Window(f, g, h)
    BY <1>0 DEF WindowOK
  <2>8. /\ Covers(view, f, g, rows, passed, MaxRows + sends) /\ (ledger.max = None \/ ledger.max \in f..g)
        /\ SubWindow(f, g) /\ RequestWindow(f, g)
    BY <2>7 DEF Window, ListWindow
  <2>9. Covers(v, f, g, rows, passed', MaxRows + sends')
    <3>1. \A r \in v : f < r.order /\ r.order <= g
      BY <2>4, <2>8 DEF Covers
    <3>2. MaxRows + sends \in Nat /\ passed \subseteq passed' /\ sends' = sends
      BY <1>1, <2>6, GrowsFacts
    <3>3. Covers(v, f, g, rows, passed', MaxRows + sends)
      BY <2>1, <2>5, <2>8, <3>1, <3>2, CoversOther
    <3>4. QED
      BY <3>2, <3>3
  <2>10. SubWindow(f, g)' /\ RequestWindow(f, g)' /\ f <= f /\ g <= g
    BY <1>1, <2>8 DEF SubWindow, RequestWindow, Live
  <2>11. /\ view' = v /\ ledger' \in Ledger /\ tip' \in 0..MaxOrder
         /\ cache' \in CacheType /\ cache'.view \subseteq v /\ WindowOK' /\ CacheOK'
    BY <1>0, <1>1, <2>1, <2>3, <2>4, <2>5, <2>6, <2>7, <2>8, <2>9, <2>10, ShowWindow
  <2>12. FeedOK' /\ FeedTypeOK'
    <3>1. FeedOK'
      BY <1>0, <1>1, <2>5, <2>11, FeedFrame DEF Typed
    <3>2. QED
      BY <1>0, <1>1, <3>1 DEF Typed, FeedTypeOK
  <2>13. SendOK' /\ send'.temp = 0
    <3>1. NoSend \in SendType /\ NoSend.st = "none" /\ NoSend.temp = 0
      BY Consts DEF NoSend, SendType, None
    <3>2. QED
      BY <1>1, <2>1, <3>1 DEF SendOK
  <2>14. StubsIn(v, {send'.temp} \cup orphaned)
    BY <1>0, <2>4 DEF StubsOK, StubsIn
  <2>15. CatchupPage' /\ OlderPage'
    BY <1>0, <1>1, <2>6, PagesFrame
  <2>16. (Live(catchup)' => Live(catchup)) /\ (Live(older)' => Live(older))
    BY <1>1 DEF Live
  <2>17. QED
    BY <1>1, <2>0, <2>1, <2>4, <2>6, <2>11, <2>12, <2>13, <2>14, <2>15, <2>16, ShowFrame
<1>4. QED
  BY <1>2, <1>3

-----------------------------------------------------------------------------
(* Opening and closing the thread. *)

(* A thread that shows nothing has an empty window. *)
LEMMA EmptyWindow ==
  ASSUME rows' \in 0..MaxRows, sends' \in 0..MaxFaults,
         view' = {}, tip' = None, ledger' = emptyPageLedger, load'.st # "warm", sub'.st = "off",
         ~Live(catchup)', ~Live(older)'
  PROVE  WindowOK'
<1>1. \A a \in 0..MaxFaults : MaxRows + a \in Nat /\ 0 <= MaxRows + a
  BY Consts
<1>2. MaxRows + sends' \in Nat /\ 0 <= MaxRows + sends'
  BY <1>1, Zenon
<1>3. rows' \in Nat
  BY Consts
<1>4. Covers({}, 0, 0, rows', passed', MaxRows + sends')
  <2>1. ASSUME NEW n \in Nat, NEW P, NEW m \in Nat PROVE Covers({}, 0, 0, n, P, m)
    <3>1. (\A p \in n + 1 .. 0 : FALSE) /\ (\A p \in 0 + 1 .. 0 : FALSE) /\ 0 <= m
      OBVIOUS
    <3>2. QED
      BY <3>1 DEF Covers
  <2>2. QED
    BY <1>2, <1>3, <2>1
<1>5. ListWindow(0, 0)'
  BY <1>4, NullFacts DEF ListWindow, None
<1>6. RequestWindow(0, 0)' /\ SubWindow(0, 0)' /\ LoadWindow(0, 0)' /\ 0 <= 0
  BY DEF RequestWindow, SubWindow, LoadWindow
<1>7. Window(0, 0, 0)'
  BY <1>5, <1>6 DEF Window
<1>8. QED
  BY <1>7 DEF WindowOK

(* No subscription. *)
LEMMA OffFacts == /\ Off \in SubType /\ Off.st = "off" /\ ~Off.open /\ Off.held = Nothing
                  /\ Off.queue = <<>>
<1>1. <<>> \in Seq(Orders) /\ Nothing \in 0..MaxRows
  BY Consts DEF Nothing
<1>2. QED
  BY <1>1 DEF Off, SubType, SubState

(* A closed thread shows its cached rows again. *)
LEMMA OpenWarmIInv ==
  ASSUME IInv, OpenThread, cache.view # {}
  PROVE  IInv'
<1>0. Typed /\ ThreadOK /\ StubsOK /\ WindowOK /\ CacheOK /\ LoadPage /\ CatchupPage /\ OlderPage /\ FeedOK
  BY DEF IInv
<1>1. /\ thread = "closed" /\ thread' = "open" /\ Show(cache.view, cache.ledger)
      /\ load' = [st |-> "warm", base |-> cache.view, ledger |-> cache.ledger,
                  req |-> Ask(cache.ledger.max, 1)]
      /\ UNCHANGED <<rows, unpublished, mode, sub, faults, visible, catchup, older, send, orphaned,
                     sends, passed>>
  BY DEF OpenThread, feedVars
<1>2. /\ rows \in 0..MaxRows /\ rows \in Nat /\ faults \in 0..MaxFaults /\ faults <= faults'
      /\ cache.view \subseteq Row /\ cache.ledger \in Ledger /\ tip \in 0..MaxOrder
      /\ cache.ledger.max \in 0..MaxOrder /\ 1 \in 1..MaxPages
  BY <1>0, <1>1, Consts DEF Typed, FeedTypeOK, CacheType, Ledger
<1>3. /\ view = {} /\ sub = Off /\ ~Live(catchup)' /\ ~Live(older)' /\ sub'.st = "off" /\ sub.st = "off"
  BY <1>0, <1>1, OffFacts DEF ThreadOK, Live
<1>4. Grows
  BY <1>0, <1>1, GrowsHere
<1>5. /\ MaxRows + sends' \in Nat /\ MaxRows + sends' <= MaxOrder /\ sends' = sends
      /\ passed' = passed /\ rows' = rows
  BY <1>1, <1>4, GrowsFacts
<1>6. PICK f \in Nat, g \in Nat : /\ Covers(cache.view, f, g, rows, passed, MaxRows + sends)
                                  /\ cache.ledger.max \in f..g
  BY <1>0 DEF CacheOK
<1>7. /\ view' = cache.view /\ ledger' \in Ledger /\ tip' \in f..g /\ tip' \in 0..MaxOrder
      /\ ledger'.max = None \/ ledger'.max \in f..g
      /\ ledger'.min \in f + 1 .. g
      /\ cache' \in CacheType /\ cache'.view \subseteq cache.view
      /\ cache'.view # {} =>
            \E k \in Nat : /\ Covers(cache'.view, k, g, rows, passed, MaxRows + sends)
                           /\ cache'.ledger.max \in k..g
  BY <1>1, <1>2, <1>5, <1>6, ShowFacts
<1>8. CacheOK'
  BY <1>5, <1>7 DEF CacheOK
<1>9. /\ load' \in LoadType /\ load'.st = "warm" /\ load'.base = cache.view
      /\ load'.ledger = cache.ledger /\ load'.req.cursor = cache.ledger.max
      /\ load'.req.page.rows = {} /\ ~load'.req.page.got
  <2>1. /\ Ask(cache.ledger.max, 1) \in RequestType /\ Ask(cache.ledger.max, 1).cursor = cache.ledger.max
        /\ Ask(cache.ledger.max, 1).page = NoPage /\ NoPage.rows = {} /\ ~NoPage.got
    BY <1>2, NullFacts
  <2>2. QED
    BY <1>1, <1>2, <2>1 DEF LoadType
<1>10. WindowOK'
  <2>1. ListWindow(f, g)'
    BY <1>5, <1>6, <1>7 DEF ListWindow
  <2>2. RequestWindow(f, g)' /\ SubWindow(f, g)' /\ g <= g
    BY <1>3 DEF RequestWindow, SubWindow
  <2>3. LoadWindow(f, g)'
    <3>1. load'.base \cup view' = cache.view
      BY <1>7, <1>9
    <3>2. QED
      BY <1>5, <1>6, <1>9, <3>1 DEF LoadWindow
  <2>4. Window(f, g, g)'
    BY <2>1, <2>2, <2>3 DEF Window
  <2>5. QED
    BY <2>4 DEF WindowOK
<1>11. FeedOK' /\ FeedTypeOK'
  <2>1. FeedOK'
    BY <1>0, <1>1, <1>3, FeedFrame DEF Typed
  <2>2. QED
    BY <1>0, <1>1, <2>1 DEF Typed, FeedTypeOK
<1>12. Typed'
  BY <1>0, <1>1, <1>2, <1>7, <1>9, <1>11 DEF Typed
<1>13. ThreadOK'
  BY <1>0, <1>1, <1>3, <1>9 DEF ThreadOK
<1>14. StubsOK'
  <2>1. StubsIn(cache.view, orphaned)
    BY <1>0, <1>1 DEF StubsOK
  <2>2. StubsIn(view', {send.temp} \cup orphaned) /\ StubsIn(cache'.view, {send.temp} \cup orphaned)
    BY <1>7, <2>1 DEF StubsIn
  <2>3. QED
    BY <1>0, <1>1, <1>9, <2>1, <2>2 DEF StubsOK
<1>15. LoadPage' /\ CatchupPage' /\ OlderPage'
  <2>1. LoadPage'
    BY <1>9 DEF LoadPage
  <2>2. QED
    BY <1>0, <1>1, <1>4, <2>1, PagesFrame
<1>16. QED
  BY <1>8, <1>10, <1>11, <1>12, <1>13, <1>14, <1>15 DEF IInv

(* A closed thread without cached rows loads the newest page. *)
LEMMA OpenColdIInv ==
  ASSUME IInv, OpenThread, cache.view = {}
  PROVE  IInv'
<1>0. Typed /\ ThreadOK /\ StubsOK /\ WindowOK /\ CacheOK /\ LoadPage /\ CatchupPage /\ OlderPage /\ FeedOK
  BY DEF IInv
<1>1. /\ thread = "closed" /\ thread' = "loading" /\ load' = [NoLoad EXCEPT !.st = "cold"]
      /\ passed' = {} /\ UNCHANGED <<view, ledger, tip, cache>>
      /\ UNCHANGED <<rows, unpublished, mode, sub, faults, visible, catchup, older, send, orphaned,
                     sends>>
  BY DEF OpenThread, feedVars
<1>2. /\ load' \in LoadType /\ load'.st = "cold" /\ load'.base = {}
      /\ load'.req.page.rows = {} /\ ~load'.req.page.got
  BY <1>1, NullFacts DEF LoadType
<1>3. /\ view = {} /\ sub = Off /\ tip = None /\ ledger = emptyPageLedger
      /\ ~Live(catchup)' /\ ~Live(older)' /\ ~Live(catchup) /\ ~Live(older) /\ sub.st = "off"
  BY <1>0, <1>1, OffFacts DEF ThreadOK, Live
<1>4. /\ rows \in 0..MaxRows /\ sends \in 0..MaxFaults
  BY <1>0 DEF Typed, FeedTypeOK
<1>5. WindowOK'
  BY <1>1, <1>2, <1>3, <1>4, EmptyWindow
<1>6. CacheOK'
  BY <1>1 DEF CacheOK
<1>7. FeedOK' /\ FeedTypeOK'
  BY <1>0, <1>1, <1>3, <1>4, OffFacts, QuietFeed DEF Typed, FeedTypeOK
<1>8. Typed'
  BY <1>0, <1>1, <1>2, <1>7 DEF Typed
<1>9. ThreadOK'
  BY <1>0, <1>1, <1>2, <1>3 DEF ThreadOK
<1>10. StubsOK'
  <2>1. StubsIn({}, orphaned)
    BY DEF StubsIn
  <2>2. QED
    BY <1>0, <1>1, <1>2, <2>1 DEF StubsOK
<1>11. LoadPage' /\ CatchupPage' /\ OlderPage'
  BY <1>0, <1>1, <1>2, <1>3 DEF LoadPage, CatchupPage, OlderPage
<1>12. QED
  BY <1>5, <1>6, <1>7, <1>8, <1>9, <1>10, <1>11 DEF IInv

(* The thread is left: its requests are gone and its stub is orphaned. *)
LEMMA CloseIInv ==
  ASSUME IInv, CloseThread
  PROVE  IInv'
<1>0. Typed /\ ThreadOK /\ StubsOK /\ WindowOK /\ CacheOK /\ LoadPage /\ CatchupPage /\ OlderPage /\ FeedOK
  BY DEF IInv
<1>1. /\ thread' = "closed" /\ view' = {} /\ ledger' = emptyPageLedger /\ tip' = None
      /\ load' = NoLoad /\ sub' = Off /\ orphaned' = (orphaned \cup {send.temp}) \ {None}
      /\ catchup' = NoRequest /\ older' = NoRequest
      /\ UNCHANGED <<rows, unpublished, mode, faults, visible, cache, send, sends, passed>>
  BY DEF CloseThread
<1>2. /\ rows \in 0..MaxRows /\ sends \in 0..MaxFaults /\ sends \in Nat /\ faults \in 0..MaxFaults
      /\ faults \in Nat /\ catchup \in RequestType /\ older \in RequestType
      /\ sends <= faults /\ orphaned \subseteq MaxRows + 1 .. MaxOrder
  BY <1>0, Consts DEF Typed, FeedTypeOK, StubsOK
<1>3. faults' \in 0..MaxFaults /\ sends' <= faults'
  BY <1>1, <1>2
<1>4. Grows
  BY <1>0, <1>1, GrowsHere
<1>5. /\ catchup' \in RequestType /\ older' \in RequestType /\ ~Live(catchup)' /\ ~Live(older)'
      /\ CatchupPage' /\ OlderPage'
  BY <1>0, <1>1, <1>4, NullFacts, PagesFrame
<1>6. WindowOK'
  BY <1>1, <1>2, <1>5, NullFacts, OffFacts, EmptyWindow
<1>7. CacheOK' /\ LoadPage'
  BY <1>0, <1>1, <1>4, CacheFrame, PagesFrame
<1>8. FeedOK' /\ FeedTypeOK'
  BY <1>0, <1>1, <1>2, <1>3, OffFacts, QuietFeed DEF Typed, FeedTypeOK
<1>9. orphaned' \subseteq MaxRows + 1 .. MaxOrder
  <2>1. CASE send.st = "none"
    <3>1. send.temp = None
      BY <1>0, <2>1 DEF StubsOK, NoSend
    <3>2. orphaned' \subseteq orphaned
      BY <1>1, <3>1
    <3>3. QED
      BY <1>2, <3>2
  <2>2. CASE send.st # "none"
    <3>1. send.temp \in MaxRows + 1 .. MaxRows + sends
      BY <1>0, <2>2 DEF StubsOK
    <3>2. send.temp \in MaxRows + 1 .. MaxOrder
      BY <1>2, <3>1, Consts
    <3>3. QED
      BY <1>1, <1>2, <3>2
  <2>3. QED
    BY <2>1, <2>2
<1>10. Typed'
  <2>1. None \in 0..MaxOrder
    BY Consts DEF None
  <2>2. QED
    BY <1>0, <1>1, <1>5, <1>8, <1>9, <2>1, NullFacts DEF Typed
<1>11. ThreadOK'
  BY <1>1, <1>5, NullFacts, OffFacts DEF ThreadOK
<1>12. StubsOK'
  <2>1. ASSUME NEW r \in cache.view, IsStub(r) PROVE r.id \in orphaned'
    <3>1. r.id \in {send.temp} \cup orphaned
      BY <1>0, <2>1 DEF StubsOK, StubsIn
    <3>2. r.id # None
      BY <2>1, Consts DEF IsStub, None
    <3>3. QED
      BY <1>1, <3>1, <3>2
  <2>2. StubsIn(cache'.view, orphaned') /\ StubsIn(cache'.view, {send'.temp} \cup orphaned')
    BY <1>1, <2>1 DEF StubsIn
  <2>3. StubsIn({}, orphaned') /\ StubsIn({}, {send'.temp} \cup orphaned')
    BY DEF StubsIn
  <2>4. send.st # "none" => send.temp \in orphaned'
    <3>1. send.st # "none" => send.temp \in MaxRows + 1 .. MaxRows + sends
      BY <1>0 DEF StubsOK
    <3>2. send.st # "none" => send.temp # None
      BY <1>2, <3>1, Consts DEF None
    <3>3. QED
      BY <1>1, <3>2
  <2>5. QED
    BY <1>0, <1>1, <1>3, <2>2, <2>3, <2>4, NullFacts DEF StubsOK
<1>13. QED
  BY <1>5, <1>6, <1>7, <1>8, <1>10, <1>11, <1>12 DEF IInv

(* The cache forgets a closed thread. *)
LEMMA EvictIInv ==
  ASSUME IInv, Evict
  PROVE  IInv'
<1>0. Typed /\ ThreadOK /\ StubsOK /\ WindowOK /\ CacheOK /\ LoadPage /\ CatchupPage /\ OlderPage /\ FeedOK
  BY DEF IInv
<1>1. /\ thread = "closed" /\ cache' = NoCache
      /\ UNCHANGED <<rows, unpublished, mode, sub, faults, thread, visible, view, ledger, tip, load,
                     catchup, older, send, orphaned, sends, passed>>
  BY DEF Evict, feedVars
<1>2. cache' \in CacheType /\ cache'.view = {}
  BY <1>1, NullFacts DEF NoCache, CacheType
<1>3. Typed'
  BY <1>0, <1>1, <1>2 DEF Typed, FeedTypeOK
<1>4. ThreadOK'
  BY <1>0, <1>1 DEF ThreadOK, Live
<1>5. StubsOK'
  BY <1>0, <1>1, <1>2 DEF StubsOK, StubsIn
<1>6. WindowOK'
  BY <1>0, <1>1 DEF WindowOK, Window, ListWindow, RequestWindow, SubWindow, LoadWindow, Live
<1>7. CacheOK' /\ LoadPage' /\ CatchupPage' /\ OlderPage'
  BY <1>0, <1>1, <1>2 DEF CacheOK, LoadPage, CatchupPage, OlderPage, Live
<1>8. FeedOK'
  BY <1>0, <1>1 DEF FeedOK, Consuming
<1>9. QED
  BY <1>3, <1>4, <1>5, <1>6, <1>7, <1>8 DEF IInv

-----------------------------------------------------------------------------
(* The end of the initial load. *)

(* A list is shown at the end of a load: everything follows from its       *)
(* window, because no request of this opening is in flight.                *)
LEMMA LoadedFrame ==
  ASSUME IInv, load.st # "none", load' = NoLoad, thread' = "open",
         UNCHANGED <<rows, unpublished, mode, sub, faults, visible, catchup, older, send, orphaned, sends>>,
         passed \subseteq passed', passed' \subseteq 1..MaxOrder,
         NEW v, NEW l \in Ledger, Show(v, l), v \subseteq Row, StubsIn(v, orphaned),
         sub.st # "off" => Keeps(view, v, rows, passed'),
         NEW f \in Nat, NEW g \in Nat, Covers(v, f, g, rows, passed', MaxRows + sends), SubWindow(f, g),
         v = {} => tip \in f..g /\ (l.max = None \/ l.max \in f..g)
  PROVE  IInv'
<1>0. Typed /\ ThreadOK /\ StubsOK /\ WindowOK /\ CacheOK /\ LoadPage /\ CatchupPage /\ OlderPage /\ FeedOK
  BY DEF IInv
<1>1. /\ rows \in 0..MaxRows /\ rows \in Nat /\ tip \in 0..MaxOrder
  BY <1>0, Consts DEF Typed, FeedTypeOK
<1>2. Grows
  BY <1>0, GrowsHere
<1>3. /\ MaxRows + sends \in Nat /\ MaxRows + sends <= MaxOrder /\ MaxRows + sends' = MaxRows + sends
  BY <1>2, GrowsFacts
<1>4. /\ view' = v /\ ledger' \in Ledger /\ tip' \in f..g /\ tip' \in 0..MaxOrder
      /\ ledger'.max = None \/ ledger'.max \in f..g
      /\ v # {} => ledger'.min \in f + 1 .. g
      /\ cache' \in CacheType /\ cache'.view \subseteq v
      /\ cache'.view # {} =>
            \E k \in Nat : /\ Covers(cache'.view, k, g, rows, passed', MaxRows + sends)
                           /\ cache'.ledger.max \in k..g
  BY <1>1, <1>3, ShowFacts
<1>5. ~Live(catchup)' /\ ~Live(older)' /\ load'.st = "none" /\ load'.base = {}
  BY <1>0, NullFacts DEF ThreadOK, Live
<1>6. WindowOK'
  <2>1. ListWindow(f, g)'
    BY <1>3, <1>4 DEF ListWindow
  <2>2. RequestWindow(f, g)' /\ SubWindow(f, g)' /\ g <= g /\ LoadWindow(f, g)'
    BY <1>5 DEF RequestWindow, SubWindow, LoadWindow
  <2>3. Window(f, g, g)'
    BY <2>1, <2>2 DEF Window
  <2>4. QED
    BY <2>3 DEF WindowOK
<1>7. CacheOK'
  BY <1>3, <1>4 DEF CacheOK
<1>8. FeedOK' /\ FeedTypeOK'
  <2>1. FeedOK'
    BY <1>0, <1>4, FeedFrame DEF Typed
  <2>2. QED
    BY <1>0, <2>1 DEF Typed, FeedTypeOK
<1>9. Typed'
  BY <1>0, <1>4, <1>8, NullFacts DEF Typed
<1>10. ThreadOK'
  BY <1>0, <1>5 DEF ThreadOK
<1>11. StubsOK'
  <2>1. /\ StubsIn(view', {send.temp} \cup orphaned) /\ StubsIn(cache'.view, {send.temp} \cup orphaned)
        /\ StubsIn({}, orphaned)
    BY <1>4 DEF StubsIn
  <2>2. QED
    BY <1>0, <1>5, <2>1 DEF StubsOK
<1>12. LoadPage' /\ CatchupPage' /\ OlderPage'
  BY <1>0, <1>2, PagesFrame
<1>13. QED
  BY <1>6, <1>7, <1>8, <1>9, <1>10, <1>11, <1>12 DEF IInv

(* The newest page replaces the list. *)
LEMMA LoadedColdIInv ==
  ASSUME IInv, LoadedCold
  PROVE  IInv'
<1>0. Typed /\ ThreadOK /\ StubsOK /\ WindowOK /\ CacheOK /\ LoadPage /\ CatchupPage /\ OlderPage /\ FeedOK
  BY DEF IInv
<1> DEFINE w == load.req.page.rows
           l == ledgerFromMessages(w, load.req.page.hasNext)
<1>1. /\ load.st = "cold" /\ load.req.page.got /\ thread' = "open" /\ Show(w, l) /\ load' = NoLoad
      /\ passed' = passed \cup Overwritten(w)
      /\ UNCHANGED <<rows, unpublished, mode, sub, faults, visible, catchup, older, send, orphaned, sends>>
  BY DEF LoadedCold, feedVars
<1>2. /\ rows \in 0..MaxRows /\ rows \in Nat /\ rows <= MaxRows /\ MaxRows \in Nat
      /\ passed \subseteq 1..MaxOrder /\ tip \in Nat /\ load \in LoadType
  BY <1>0, Consts DEF Typed, FeedTypeOK
<1>3. w \subseteq StoredRows(rows) /\ w \subseteq Row /\ NewestRows(w, rows, passed)
  BY <1>0, <1>1, <1>2, RowFacts DEF LoadPage
<1>4. StubsIn(w, orphaned)
  <2>1. \A p \in 1..rows : ~(p > MaxRows)
    BY <1>2
  <2>2. QED
    BY <1>3, <2>1, RowFacts DEF StubsIn, IsStub, StoredRows
<1>5. passed \subseteq passed' /\ passed' \subseteq 1..MaxOrder
  <2>1. \A o \in Orders : o \in 1..MaxOrder
    BY Consts DEF Orders
  <2>2. QED
    BY <1>1, <1>2, <2>1 DEF Overwritten
<1>6. l \in Ledger /\ (w = {} => l.max = None)
  <2> DEFINE x == Widen(emptyPageLedger, OrdersOf(w))
  <2>1. OrdersOf(w) \subseteq 1..MaxOrder
    BY <1>3, OrdersFacts
  <2>2. x \in Ledger
    BY <2>1, WidenFacts, NullFacts
  <2>3. w = {} => x = emptyPageLedger
    BY DEF Widen, OrdersOf
  <2>4. l = [x EXCEPT !.more = load.req.page.hasNext]
    BY DEF ledgerFromMessages
  <2>5. load.req.page.hasNext \in BOOLEAN
    BY <1>2 DEF LoadType, RequestType, PageType
  <2> HIDE DEF x, l
  <2>6. QED
    BY <2>2, <2>3, <2>4, <2>5, NullFacts DEF Ledger
<1>7. sub.st = "off" /\ Grows
  BY <1>0, <1>1, <1>5, GrowsHere DEF ThreadOK
<1>8. MaxRows + sends \in Nat /\ MaxRows <= MaxRows + sends
  BY <1>7, GrowsFacts
<1> HIDE DEF w, l
<1>9. PICK f \in Nat, g \in Nat : /\ Covers(w, f, g, rows, passed', MaxRows + sends)
                                  /\ w = {} => tip \in f..g
  <2>1. CASE w # {}
    <3>1. PICK d \in Nat, e \in Nat : /\ d <= e /\ e <= rows
                                      /\ \A r \in w : d < r.order /\ r.order <= e
                                      /\ \A p \in d + 1 .. e : Stored(p) \in w \/ p \in passed
      BY <1>3 DEF NewestRows
    <3>2. e <= MaxRows + sends /\ \A p \in rows + 1 .. e : FALSE
      BY <1>2, <1>8, <3>1
    <3>3. Covers(w, d, e, rows, passed', MaxRows + sends)
      BY <1>5, <3>1, <3>2 DEF Covers
    <3>4. QED
      BY <2>1, <3>3
  <2>2. CASE w = {}
    <3>1. PICK f \in Nat, g \in Nat : /\ Covers(view, f, g, rows, passed, MaxRows + sends)
                                      /\ tip \in f..g
      BY <1>0 DEF WindowOK, Window, ListWindow
    <3>2. /\ tip <= MaxRows + sends /\ tip <= tip /\ tip \in tip..tip
          /\ \A p \in tip + 1 .. tip : FALSE
          /\ \A p \in rows + 1 .. tip : p \in rows + 1 .. g
      <4>1. g <= MaxRows + sends
        BY <3>1 DEF Covers
      <4>2. QED
        BY <1>2, <1>8, <3>1, <4>1
    <3>3. Covers(w, tip, tip, rows, passed', MaxRows + sends)
      BY <1>2, <1>5, <2>2, <3>1, <3>2 DEF Covers
    <3>4. QED
      BY <1>2, <3>2, <3>3
  <2>3. QED
    BY <2>1, <2>2
<1>10. SubWindow(f, g)
  BY <1>7 DEF SubWindow
<1>11. QED
  BY <1>1, <1>3, <1>4, <1>5, <1>6, <1>7, <1>9, <1>10, LoadedFrame

(* A page is merged into what the load has collected, and the last one     *)
(* replaces the list.                                                      *)
LEMMA LoadedWarmIInv ==
  ASSUME IInv, LoadedWarm
  PROVE  IInv'
<1>0. Typed /\ ThreadOK /\ StubsOK /\ WindowOK /\ CacheOK /\ LoadPage /\ CatchupPage /\ OlderPage /\ FeedOK
  BY DEF IInv
<1> DEFINE w == load.req.page.rows
           b == load.base
           m == mergeMessages(b, w)
           l == applyNewerOrdersToLedger(load.ledger, OrdersOf(w))
<1>1. /\ load.st = "warm" /\ load.req.page.got
      /\ UNCHANGED <<rows, unpublished, mode, sub, faults, thread, visible, catchup, older, send,
                     orphaned, sends>>
  BY DEF LoadedWarm, feedVars
<1>2. /\ rows \in 0..MaxRows /\ rows \in Nat /\ passed \subseteq 1..MaxOrder /\ load \in LoadType
      /\ b \subseteq Row /\ view \subseteq Row /\ load.ledger \in Ledger /\ load.req \in RequestType
  BY <1>0, Consts DEF Typed, FeedTypeOK, LoadType
<1>3. /\ w \subseteq StoredRows(rows) /\ w \subseteq Row
      /\ NewerRows(w, load.req.cursor, rows, passed)
  BY <1>0, <1>1, <1>2, RowFacts DEF LoadPage
<1>4. /\ m \subseteq Row /\ m \subseteq b \cup w /\ m # {} /\ StubsIn(m, orphaned)
      /\ Keeps(b \cup w, m, rows, {})
  <2>1. StubsIn(b, orphaned) /\ b \cup w # {}
    BY <1>0, <1>1 DEF StubsOK, ThreadOK
  <2> HIDE DEF w, b
  <2>2. QED
    BY <1>2, <1>3, <2>1, MergeStored
<1>5. /\ l \in Ledger /\ l.max \in OrdersOf(w) \cup {load.ledger.max}
  <2>1. OrdersOf(w) \subseteq 1..MaxOrder
    BY <1>3, OrdersFacts
  <2>2. QED
    BY <1>2, <2>1, WidenFacts DEF applyNewerOrdersToLedger
<1>6. PICK f \in Nat, g \in Nat, h \in Nat : Window(f, g, h)
  BY <1>0 DEF WindowOK
<1>7. /\ Covers(b \cup view, f, h, rows, passed, MaxRows + sends) /\ g <= h
      /\ load.ledger.max \in f..h /\ load.req.cursor \in f..h
      /\ SubWindow(f, g) /\ ListWindow(f, g)
  BY <1>1, <1>6 DEF Window, LoadWindow
<1>8. /\ MaxRows + sends \in Nat /\ MaxRows <= MaxRows + sends
  <2>1. sends \in Nat
    BY <1>0, Consts DEF Typed
  <2>2. QED
    BY <2>1, Consts
<1>9. thread = "open" /\ ~Live(catchup) /\ ~Live(older)
  BY <1>0, <1>1, NullFacts DEF ThreadOK, Typed
<1>10. ASSUME NEW u, NEW Q, u \subseteq (b \cup view) \cup w, passed \subseteq Q,
              Keeps((b \cup view) \cup w, u, rows, Q)
       PROVE  \E k \in Nat : h <= k /\ Covers(u, f, k, rows, Q, MaxRows + sends)
                             /\ \A r \in w : r.order <= k
  <2>1. b \cup view \subseteq Row
    BY <1>2
  <2> HIDE DEF w, b
  <2>2. QED
    BY <1>2, <1>3, <1>7, <1>8, <1>10, <2>1, CoversNewer
<1>11. CASE LastPage(load.req)
  <2>1. Show(m, l) /\ load' = NoLoad /\ passed' = passed \cup Overwritten(m)
    BY <1>11 DEF LoadedWarm
  <2>2. passed \subseteq passed' /\ passed' \subseteq 1..MaxOrder
    <3>1. \A o \in Orders : o \in 1..MaxOrder
      BY Consts DEF Orders
    <3>2. QED
      BY <1>2, <2>1, <3>1 DEF Overwritten
  <2> HIDE DEF m, l, w, b
  <2>3. Keeps((b \cup view) \cup w, m, rows, passed')
    <3>1. \A p \in 1..rows : p \in Orders
      BY <1>2, Consts DEF Orders
    <3>2. QED
      BY <1>4, <2>1, <3>1 DEF Keeps, Overwritten
  <2>4. PICK k \in Nat : h <= k /\ Covers(m, f, k, rows, passed', MaxRows + sends)
    BY <1>4, <1>10, <2>2, <2>3
  <2>5. SubWindow(f, k) /\ Keeps(view, m, rows, passed')
    <3>1. SubWindow(f, k)
      BY <1>7, <2>4 DEF SubWindow
    <3>2. QED
      BY <2>3, <3>1 DEF Keeps
  <2>6. QED
    BY <1>1, <1>4, <1>5, <1>9, <2>1, <2>2, <2>4, <2>5, LoadedFrame
<1>12. CASE ~LastPage(load.req)
  <2>1. /\ load' = [load EXCEPT !.base = m, !.ledger = l, !.req = Ask(l.max, load.req.pages + 1)]
        /\ UNCHANGED <<view, ledger, tip, cache, passed>>
    BY <1>12 DEF LoadedWarm
  <2>2. l.max \in 0..MaxOrder /\ load.req.pages + 1 \in 1..MaxPages
    <3>1. load.req.pages \in 0..MaxPages /\ load.req.pages # MaxPages
      BY <1>2, <1>12 DEF LastPage, RequestType
    <3>2. QED
      BY <1>5, <3>1, Consts DEF Ledger
  <2> HIDE DEF m, l
  <2>3. /\ load' \in LoadType /\ load'.st = "warm" /\ load'.base = m /\ load'.ledger = l
        /\ load'.req.cursor = l.max /\ load'.req.page = NoPage
    <3> DEFINE a == Ask(l.max, load.req.pages + 1)
    <3>1. a \in RequestType /\ a.cursor = l.max /\ a.page = NoPage
      BY <2>2, NullFacts
    <3>2. load' = [load EXCEPT !.base = m, !.ledger = l, !.req = a]
      BY <2>1
    <3> HIDE DEF a
    <3>3. QED
      BY <1>1, <1>2, <1>4, <1>5, <3>1, <3>2 DEF LoadType
  <2> HIDE DEF w, b
  <2>4. Keeps((b \cup view) \cup w, m \cup view, rows, passed)
    BY <1>4 DEF Keeps
  <2>5. PICK k \in Nat : /\ h <= k /\ Covers(m \cup view, f, k, rows, passed, MaxRows + sends)
                         /\ \A r \in w : r.order <= k
    <3>1. m \cup view \subseteq (b \cup view) \cup w
      BY <1>4
    <3>2. QED
      BY <1>10, <2>4, <3>1
  <2>6. l.max \in f..k /\ g <= k
    <3>1. \A r \in w : r.order \in Nat /\ load.req.cursor < r.order /\ r.order <= k
      BY <1>3, <2>5, RowFacts DEF NewerRows
    <3>2. \A r \in w : r.order \in f..k
      BY <1>7, <2>5, <3>1
    <3>3. QED
      BY <1>5, <1>7, <2>5, <3>2 DEF OrdersOf
  <2>7. Grows
    BY <1>0, <1>1, <2>1, GrowsHere
  <2>8. WindowOK'
    <3>1. ListWindow(f, g)'
      BY <1>7, <2>1, <2>7, ListFrame
    <3>2. RequestWindow(f, g)' /\ SubWindow(f, g)'
      BY <1>1, <1>7, <1>9 DEF RequestWindow, SubWindow, Live
    <3>3. LoadWindow(f, k)'
      BY <1>1, <2>1, <2>3, <2>5, <2>6 DEF LoadWindow
    <3>4. Window(f, g, k)'
      BY <2>6, <3>1, <3>2, <3>3 DEF Window
    <3>5. QED
      BY <3>4 DEF WindowOK
  <2>9. CacheOK'
    BY <1>0, <2>1, <2>7, CacheFrame
  <2>10. FeedOK'
    <3>1. Keeps(view, view', rows, passed') /\ passed \subseteq passed'
      BY <2>1 DEF Keeps
    <3>2. QED
      BY <1>0, <1>1, <3>1, FeedFrame DEF Typed
  <2>11. Typed'
    BY <1>0, <1>1, <2>1, <2>3 DEF Typed, FeedTypeOK
  <2>12. ThreadOK'
    BY <1>0, <1>1, <1>4, <1>9, <2>1, <2>3 DEF ThreadOK, Live
  <2>13. StubsOK'
    BY <1>0, <1>1, <1>4, <2>1, <2>3 DEF StubsOK
  <2>14. LoadPage' /\ CatchupPage' /\ OlderPage'
    <3>1. LoadPage'
      BY <2>3, NullFacts DEF LoadPage
    <3>2. QED
      BY <1>0, <1>1, <2>7, <3>1, PagesFrame
  <2>15. QED
    BY <2>8, <2>9, <2>10, <2>11, <2>12, <2>13, <2>14 DEF IInv
<1>13. QED
  BY <1>11, <1>12

-----------------------------------------------------------------------------
(* The theorems. *)

(* Nothing is shown, asked or stored initially. *)
LEMMA InitIInv == Init => IInv
<1> SUFFICES ASSUME Init PROVE IInv
  OBVIOUS
<1>1. /\ rows = 0 /\ unpublished = {} /\ mode \in {"ws", "poll"} /\ sub = Off /\ faults = 0
      /\ thread = "closed" /\ visible = TRUE /\ view = {} /\ ledger = emptyPageLedger /\ tip = None
      /\ cache = NoCache /\ load = NoLoad /\ catchup = NoRequest /\ older = NoRequest
      /\ send = NoSend /\ orphaned = {} /\ sends = 0 /\ passed = {}
  BY DEF Init, FeedInit
<1>2. 0 \in 0..MaxRows /\ 0 \in 0..MaxFaults /\ 0 \in 0..MaxOrder /\ 0 <= 0
  BY Consts
<1>3. NoCache \in CacheType /\ NoCache.view = {}
  BY NullFacts DEF NoCache, CacheType
<1>4. NoSend \in [st : {"none", "posting", "stored"}, temp : 0..MaxOrder, id : 0..MaxRows]
      /\ NoSend.st = "none"
  BY <1>2 DEF NoSend, None
<1>5. FeedTypeOK
  <2>1. DOMAIN Off.queue = {} /\ Off \in SubType
    BY OffFacts
  <2>2. QED
    BY <1>1, <1>2, <2>1 DEF FeedTypeOK, SubType
<1>6. Typed
  BY <1>1, <1>2, <1>3, <1>4, <1>5, NullFacts DEF Typed, None
<1>7. ThreadOK
  BY <1>1, NullFacts, OffFacts DEF ThreadOK
<1>8. StubsOK
  BY <1>1, <1>2, <1>3, <1>4, NullFacts DEF StubsOK, StubsIn
<1>9. WindowOK
  <2>1. Covers({}, 0, 0, rows, passed, MaxRows + sends)
    <3>1. (\A p \in 0 + 1 .. 0 : FALSE) /\ 0 <= MaxRows + 0 /\ MaxRows + 0 \in Nat
      BY Consts
    <3>2. QED
      BY <1>1, <1>2, <3>1 DEF Covers
  <2>2. Window(0, 0, 0)
    BY <1>1, <1>2, <2>1, NullFacts, OffFacts
       DEF Window, ListWindow, RequestWindow, SubWindow, LoadWindow, None
  <2>3. QED
    BY <2>2 DEF WindowOK
<1>10. CacheOK /\ LoadPage /\ CatchupPage /\ OlderPage
  BY <1>1, <1>3, NullFacts DEF CacheOK, LoadPage, CatchupPage, OlderPage
<1>11. FeedOK
  <2>1. InHand(Off) = {0} /\ DOMAIN Off.queue = {}
    BY OffFacts, QueueFacts DEF InHand, Nothing
  <2>2. QED
    BY <1>1, <1>2, <2>1, OffFacts DEF FeedOK, Consuming
<1>12. QED
  BY <1>6, <1>7, <1>8, <1>9, <1>10, <1>11 DEF IInv

(* A step that changes nothing. *)
LEMMA StutterIInv ==
  ASSUME IInv, UNCHANGED vars
  PROVE  IInv'
<1>0. Typed /\ ThreadOK /\ StubsOK /\ WindowOK /\ CacheOK /\ LoadPage /\ CatchupPage /\ OlderPage /\ FeedOK
  BY DEF IInv
<1>1. /\ UNCHANGED <<rows, unpublished, mode, sub, faults>>
      /\ UNCHANGED <<thread, visible, view, ledger, tip, cache, load, catchup, older, send, orphaned,
                     sends, passed>>
  BY DEF vars, feedVars
<1>2. Typed'
  BY <1>0, <1>1 DEF Typed, FeedTypeOK
<1>3. ThreadOK' /\ StubsOK'
  BY <1>0, <1>1 DEF ThreadOK, Live, StubsOK
<1>4. WindowOK'
  BY <1>0, <1>1 DEF WindowOK, Window, ListWindow, RequestWindow, SubWindow, LoadWindow, Live
<1>5. CacheOK' /\ LoadPage' /\ CatchupPage' /\ OlderPage'
  BY <1>0, <1>1 DEF CacheOK, LoadPage, CatchupPage, OlderPage, Live
<1>6. FeedOK'
  BY <1>0, <1>1 DEF FeedOK, Consuming
<1>7. QED
  BY <1>2, <1>3, <1>4, <1>5, <1>6 DEF IInv

(* Every step preserves the invariant. *)
LEMMA NextIInv == IInv /\ [Next]_vars => IInv'
<1> SUFFICES ASSUME IInv, [Next]_vars PROVE IInv'
  OBVIOUS
<1>1. CASE OpenThread
  <2>1. CASE cache.view = {}
    BY <1>1, <2>1, OpenColdIInv
  <2>2. CASE cache.view # {}
    BY <1>1, <2>2, OpenWarmIInv
  <2>3. QED
    BY <2>1, <2>2
<1>2. CASE CloseThread
  BY <1>2, CloseIInv
<1>3. CASE Evict
  BY <1>3, EvictIInv
<1>4. CASE LoadAnswered \/ CatchUpAnswered \/ OlderAnswered
  BY <1>4, AnsweredIInv
<1>5. CASE LoadedCold
  BY <1>5, LoadedColdIInv
<1>6. CASE LoadedWarm
  BY <1>6, LoadedWarmIInv
<1>7. CASE RequestFails \/ LoadFails
  BY <1>7, FailsIInv
<1>8. CASE Focus \/ ShowTab
  BY <1>8, FocusIInv
<1>9. CASE CaughtUp
  BY <1>9, CaughtUpIInv
<1>10. CASE loadMore
  BY <1>10, LoadMoreIInv
<1>11. CASE OlderLoaded
  BY <1>11, OlderLoadedIInv
<1>12. CASE Feed
  BY <1>12, FeedIInv
<1>13. CASE Subscribe \/ HideTab
  BY <1>13, SubscribeIInv
<1>14. CASE Deliver
  BY <1>14, DeliverIInv
<1>15. CASE DeliverSkips
  BY <1>15, SkipIInv
<1>16. CASE PeerSends \/ SendStored
  BY <1>16, StoreIInv
<1>17. CASE performSend
  BY <1>17, SendIInv
<1>18. CASE SendConfirmed \/ SendFails
  BY <1>18, EndIInv
<1>19. CASE UNCHANGED vars
  BY <1>19, StutterIInv
<1>20. QED
  BY <1>1, <1>2, <1>3, <1>4, <1>5, <1>6, <1>7, <1>8, <1>9, <1>10, <1>11, <1>12, <1>13, <1>14,
     <1>15, <1>16, <1>17, <1>18, <1>19 DEF Next

(* The invariant holds in every state of the thread. *)
THEOREM Invariance == Spec => []IInv
  BY InitIInv, NextIInv, PTL DEF Spec

(* Every hole in the open list is a row that passed it by.                 *)
THEOREM GapsTheorem == Spec => []GapsExplained
<1>1. ASSUME IInv PROVE GapsExplained
  <2> SUFFICES ASSUME view # {}, NEW o \in Holes(view) PROVE o \in passed
    BY DEF GapsExplained, Holes
  <2>1. /\ o \in Min(OrdersOf(view)) .. Max(OrdersOf(view)) /\ o <= rows /\ o \notin IdsOf(view)
    BY DEF Holes
  <2>2. PICK f \in Nat, g \in Nat : Covers(view, f, g, rows, passed, MaxRows + sends)
    BY <1>1 DEF IInv, WindowOK, Window, ListWindow
  <2>3. view \subseteq Row
    BY <1>1 DEF IInv, Typed
  <2>4. Min(OrdersOf(view)) \in OrdersOf(view) /\ Max(OrdersOf(view)) \in OrdersOf(view)
    BY <2>3, OrdersFacts
  <2>5. \A x \in OrdersOf(view) : x \in Nat /\ f < x /\ x <= g
    BY <2>2, <2>3, RowFacts DEF OrdersOf, Covers
  <2>6. o \in f + 1 .. g
    <3> DEFINE a == Min(OrdersOf(view))
               b == Max(OrdersOf(view))
    <3>1. a \in Nat /\ f < a /\ b \in Nat /\ b <= g /\ o \in a..b
      BY <2>1, <2>4, <2>5
    <3> HIDE DEF a, b
    <3>2. QED
      BY <3>1
  <2>7. Stored(o) \notin view
    BY <2>1, RowFacts DEF IdsOf
  <2>8. QED
    BY <2>1, <2>2, <2>6, <2>7 DEF Covers
<1>2. QED
  BY <1>1, Invariance, PTL

(* No stub stays once its send has ended, unless its thread was left. *)
THEOREM StubTheorem == Spec => []StubSettled
<1>1. ASSUME IInv PROVE StubSettled
  <2>1. TypeOK
    BY <1>1 DEF IInv, Typed, TypeOK, CacheType, LoadType, RequestType, PageType
  <2>2. \A r \in view : IsStub(r) => r.id = send.temp \/ r.id \in orphaned
    BY <1>1 DEF IInv, StubsOK, StubsIn
  <2>3. QED
    BY <2>1, <2>2 DEF StubSettled
<1>2. QED
  BY <1>1, Invariance, PTL

-----------------------------------------------------------------------------
(* The agent replies. *)

ReplyType == [q : Question, at : {"ask", "post"}, proposes : BOOLEAN]

(* The queue its with the replies rs under way, the loop at lp, after n    *)
(* questions: at most one reply, which keeps the loop, and then the        *)
(* questions in the order they were asked.                                 *)
Queued(its, rs, lp, n) ==
  /\ its \in Seq(Question) /\ rs \subseteq ReplyType /\ lp \in {"idle", "gate", "run"}
  /\ \A i, j \in DOMAIN its : i < j => its[i] < its[j]
  /\ \A j \in DOMAIN its : its[j] <= n
  /\ \A r \in rs : r.q <= n /\ \A j \in DOMAIN its : r.q < its[j]
  /\ \A r, s \in rs : r = s
  /\ rs # {} => lp = "run"

(* The question m has left the queue and its reply is over. *)
Past(m, its, rs) ==
  /\ \A j \in DOMAIN its : m < its[j]
  /\ \A r \in rs : m < r.q

QueueOK == Queued(items, replies, loop, asked)

(* What is answered, decided or pending is past. *)
PastOK ==
  /\ \A i \in DOMAIN answers : answers[i] <= asked /\ Past(answers[i], items, replies)
  /\ \A p \in decided : p <= asked /\ Past(p, items, replies)
  /\ pending <= asked /\ Past(pending, items, replies)

(* A proposal holds the queue, and no reply runs beside it. *)
GateOK ==
  /\ gate <=> pending # NoProposal
  /\ pending # NoProposal => replies = {}

(* At most one decision, on the pending proposal until it has run; an      *)
(* approved one has not run before; a proposal without one is undecided.   *)
DecisionsOK ==
  /\ decisions # {} => busy
  /\ \A d, e \in decisions : d = e
  /\ \A d \in decisions :
       /\ d.p \in decided
       /\ d.at # "report" => pending = d.p
       /\ d.at \in {"check", "run"} => d.p \in approved /\ acted[d.p] = 0
  /\ pending # NoProposal /\ (\A d \in decisions : d.at = "report") => pending \notin decided

(* The inductive invariant. *)
RepliesInv ==
  /\ ApprovedAndOnce
  /\ AnswersInOrder
  /\ QueueOK /\ PastOK /\ GateOK /\ DecisionsOK

(* Questions are positive numbers. *)
LEMMA QuestionsPositive ==
  /\ \A x \in Question : x \in Nat /\ 0 < x
  /\ \A s \in Seq(Question) : \A j \in DOMAIN s : s[j] \in Nat /\ 0 < s[j]
<1>1. \A x \in Question : x \in Nat /\ 0 < x
  BY RepliesAssumption DEF Question
<1>2. \A s \in Seq(Question) : \A j \in DOMAIN s : s[j] \in Question
  OBVIOUS
<1>3. QED
  BY <1>1, <1>2

(* Nothing was asked at first. *)
LEMMA RepliesInitInv == RepliesInit => RepliesInv
<1> SUFFICES ASSUME RepliesInit PROVE RepliesInv
  OBVIOUS
<1>1. gate \in BOOLEAN /\ runner \in BOOLEAN /\ busy \in BOOLEAN
  BY Zenon DEF RepliesInit
<1>2. ApprovedAndOnce
  BY <1>1, RepliesAssumption DEF RepliesInit, ApprovedAndOnce, RepliesTypeOK, NoProposal
<1>3. QED
  BY <1>2, RepliesAssumption
     DEF RepliesInit, RepliesInv, AnswersInOrder, QueueOK, Queued, PastOK, Past, GateOK,
        DecisionsOK, NoProposal

(* Taking the first question of a queue. *)
LEMMA TakeFirst ==
  ASSUME NEW n \in Nat, NEW its \in Seq(Question), its # <<>>,
         \A i, j \in DOMAIN its : i < j => its[i] < its[j],
         \A j \in DOMAIN its : its[j] <= n
  PROVE  /\ Head(its) \in Question /\ Head(its) <= n
         /\ Tail(its) \in Seq(Question)
         /\ \A j \in DOMAIN Tail(its) : Head(its) < Tail(its)[j] /\ Tail(its)[j] <= n
         /\ \A i, j \in DOMAIN Tail(its) : i < j => Tail(its)[i] < Tail(its)[j]
         /\ \A m \in Nat : (\A j \in DOMAIN its : m < its[j]) =>
               m < Head(its) /\ \A j \in DOMAIN Tail(its) : m < Tail(its)[j]
<1>1. /\ Head(its) = its[1] /\ 1 \in DOMAIN its /\ Head(its) \in Question
      /\ Tail(its) \in Seq(Question) /\ Len(Tail(its)) = Len(its) - 1 /\ Len(its) \in Nat
      /\ Len(its) >= 1
      /\ \A j \in 1..Len(its) - 1 : Tail(its)[j] = its[j + 1] /\ j + 1 \in DOMAIN its
  OBVIOUS
<1>2. \A j \in DOMAIN Tail(its) : j \in 1..Len(its) - 1
  BY <1>1
<1>3. \A j \in DOMAIN Tail(its) : Tail(its)[j] = its[j + 1] /\ j + 1 \in DOMAIN its /\ j \in Nat /\ j >= 1
  BY <1>1, <1>2
<1>4. \A j \in DOMAIN Tail(its) : 1 < j + 1 /\ j + 1 \in Nat
  BY <1>3
<1>5. \A j \in DOMAIN Tail(its) : Head(its) < Tail(its)[j] /\ Tail(its)[j] <= n
  BY <1>1, <1>3, <1>4
<1>6. \A i, j \in DOMAIN Tail(its) : i < j => Tail(its)[i] < Tail(its)[j]
  BY <1>3
<1>7. QED
  BY <1>1, <1>3, <1>5, <1>6

(* The loop at its head, no reply under way. *)
LEMMA AdvanceQueued ==
  ASSUME NEW n \in Nat, NEW its, NEW g \in BOOLEAN, NEW r \in BOOLEAN, NEW lp,
         Queued(its, {}, lp, n), Advance(its, g, r, {})
  PROVE  /\ Queued(items', replies', loop', n)
         /\ \A m \in Nat : Past(m, its, {}) => Past(m, items', replies')
         /\ g => replies' = {}
<1>1. CASE its # <<>> /\ ~g /\ r
  <2>1. /\ loop' = "run" /\ items' = Tail(its)
        /\ replies' = {[q |-> Head(its), at |-> "ask", proposes |-> FALSE]}
    BY <1>1 DEF Advance
  <2>2. replies' \subseteq ReplyType
    BY <1>1, <2>1, TakeFirst DEF Queued, ReplyType
  <2>3. \A x \in replies' : x.q = Head(its)
    BY <2>1
  <2>4. QED
    BY <1>1, <2>1, <2>2, <2>3, TakeFirst DEF Queued, Past
<1>2. CASE ~(its # <<>> /\ ~g /\ r)
  <2>1. loop' \in {"gate", "idle"} /\ items' = its /\ replies' = {}
    BY <1>2 DEF Advance
  <2>2. QED
    BY <2>1 DEF Queued, Past
<1>3. QED
  BY <1>1, <1>2

(* A drain does nothing beside a loop that works. *)
LEMMA DrainQueued ==
  ASSUME NEW n \in Nat, NEW its, NEW g \in BOOLEAN, NEW r \in BOOLEAN, NEW rs,
         Queued(its, rs, loop, n), drain(its, g, r, rs)
  PROVE  /\ Queued(items', replies', loop', n)
         /\ \A m \in Nat : Past(m, its, rs) => Past(m, items', replies')
         /\ g /\ rs = {} => replies' = {}
<1>1. CASE loop = "idle"
  <2>1. rs = {}
    BY <1>1 DEF Queued
  <2>2. Advance(its, g, r, {})
    BY <1>1, <2>1 DEF drain
  <2>3. QED
    BY <2>1, <2>2, AdvanceQueued
<1>2. CASE loop # "idle"
  BY <1>2 DEF drain
<1>3. QED
  BY <1>1, <1>2

(* A step of the queue alone. *)
LEMMA QueueStep ==
  ASSUME RepliesInv, UNCHANGED <<gate, sessionVars, answers, approved, decided, acted>>,
         runner' \in BOOLEAN, done' \subseteq Question, replyFaults' \in 0..MaxReplyFaults,
         asked' \in 0..MaxQuestions, asked <= asked',
         Queued(items', replies', loop', asked'),
         \A m \in 0..asked : Past(m, items, replies) => Past(m, items', replies'),
         gate => replies' = {}
  PROVE  RepliesInv'
<1>0. RepliesTypeOK
  BY DEF RepliesInv, ApprovedAndOnce
<1>1. UNCHANGED <<pending, busy, decisions, answers, approved, decided, acted>>
  BY DEF sessionVars
<1>2. RepliesTypeOK'
  BY <1>0, <1>1 DEF RepliesTypeOK, Queued, ReplyType
<1>3. ApprovedAndOnce' /\ AnswersInOrder'
  BY <1>1, <1>2 DEF RepliesInv, ApprovedAndOnce, AnswersInOrder
<1>4. /\ asked \in Nat /\ asked' \in Nat /\ pending \in Nat
      /\ \A i \in DOMAIN answers : answers[i] \in Nat
      /\ \A p \in decided : p \in Nat
  BY <1>0, RepliesAssumption DEF RepliesTypeOK, Question
<1>5. PastOK'
  BY <1>1, <1>4 DEF RepliesInv, PastOK
<1>6. QueueOK' /\ GateOK' /\ DecisionsOK'
  BY <1>1 DEF RepliesInv, QueueOK, GateOK, DecisionsOK
<1>7. QED
  BY <1>3, <1>5, <1>6 DEF RepliesInv

(* A question goes to the end of the queue. *)
LEMMA EnqueueInv == ASSUME RepliesInv, enqueueAgentReply PROVE RepliesInv'
<1>0. RepliesTypeOK /\ QueueOK /\ GateOK
  BY DEF RepliesInv, ApprovedAndOnce
<1> DEFINE its == Append(items, asked + 1)
<1>1. /\ asked \in Nat /\ asked + 1 \in Question /\ asked' = asked + 1 /\ asked' \in 0..MaxQuestions
      /\ drain(its, gate, runner, replies)
      /\ UNCHANGED <<gate, runner, sessionVars, answers, done, approved, decided, acted, replyFaults>>
  BY <1>0, RepliesAssumption DEF enqueueAgentReply, RepliesTypeOK, Question, logVars
<1>2. /\ its \in Seq(Question)
      /\ \A j \in DOMAIN its :
           \/ j \in DOMAIN items /\ its[j] = items[j]
           \/ j = Len(items) + 1 /\ its[j] = asked + 1
      /\ \A j \in DOMAIN items : j < Len(items) + 1
      /\ \A j \in DOMAIN its : j \in Nat /\ j <= Len(items) + 1
      /\ \A j \in DOMAIN items : items[j] \in Nat
      /\ Len(items) \in Nat
  <2>1. items \in Seq(Question) /\ Len(items) \in Nat /\ DOMAIN items = 1..Len(items)
    BY <1>0 DEF RepliesTypeOK
  <2>2. /\ its \in Seq(Question) /\ Len(its) = Len(items) + 1
        /\ \A j \in 1..Len(items) : its[j] = items[j]
        /\ its[Len(items) + 1] = asked + 1
    BY <1>1, <2>1, AppendProperties
  <2>3. DOMAIN its = 1..Len(items) + 1
    BY <2>1, <2>2
  <2>4. \A j \in DOMAIN items : items[j] \in Nat
    BY <2>1, QuestionsPositive
  <2>5. QED
    BY <2>1, <2>2, <2>3, <2>4
<1> HIDE DEF its
<1>3. \A r \in replies : r.q \in Nat
  BY <1>0 DEF RepliesTypeOK, Question
<1>4. Queued(its, replies, loop, asked + 1)
  <2>1. \A i, j \in DOMAIN its : i < j => its[i] < its[j]
    <3> SUFFICES ASSUME NEW i \in DOMAIN its, NEW j \in DOMAIN its, i < j
                 PROVE  its[i] < its[j]
      OBVIOUS
    <3>1. i \in DOMAIN items /\ its[i] = items[i]
      BY <1>2
    <3>2. items[i] <= asked
      BY <1>0, <3>1 DEF QueueOK, Queued
    <3>3. QED
      BY <1>0, <1>1, <1>2, <3>1, <3>2 DEF QueueOK, Queued
  <2>2. \A j \in DOMAIN its : its[j] <= asked + 1
    BY <1>0, <1>1, <1>2 DEF QueueOK, Queued
  <2>3. \A r \in replies : r.q <= asked + 1 /\ \A j \in DOMAIN its : r.q < its[j]
    BY <1>0, <1>1, <1>2, <1>3 DEF QueueOK, Queued
  <2>4. QED
    BY <1>0, <1>2, <2>1, <2>2, <2>3 DEF QueueOK, Queued
<1>5. \A m \in 0..asked : Past(m, items, replies) => Past(m, its, replies)
  BY <1>1, <1>2 DEF Past
<1>6. /\ Queued(items', replies', loop', asked')
      /\ \A m \in Nat : Past(m, its, replies) => Past(m, items', replies')
      /\ gate /\ replies = {} => replies' = {}
  <2>1. asked + 1 \in Nat /\ gate \in BOOLEAN /\ runner \in BOOLEAN
    BY <1>0, <1>1 DEF RepliesTypeOK
  <2>2. /\ Queued(items', replies', loop', asked + 1)
        /\ \A m \in Nat : Past(m, its, replies) => Past(m, items', replies')
        /\ gate /\ replies = {} => replies' = {}
    BY <1>1, <1>4, <2>1, DrainQueued
  <2>3. QED
    BY <1>1, <2>2
<1>7. \A m \in 0..asked : Past(m, items, replies) => Past(m, items', replies')
  BY <1>1, <1>5, <1>6
<1>8. QED
  BY <1>0, <1>1, <1>6, <1>7, QueueStep DEF RepliesTypeOK, GateOK

(* The gate is released, or the engine comes and goes. *)
LEMMA EngineInv ==
  ASSUME RepliesInv, GateReleased \/ Unmount \/ Mount
  PROVE  RepliesInv'
<1>0. RepliesTypeOK /\ QueueOK /\ GateOK /\ asked \in Nat
  BY RepliesAssumption DEF RepliesInv, ApprovedAndOnce, RepliesTypeOK
<1>1. /\ UNCHANGED <<asked, gate, sessionVars, answers, done, approved, decided, acted>>
      /\ replyFaults' \in 0..MaxReplyFaults
  <2>1. replyFaults' = replyFaults \/ ReplyFault
    BY DEF GateReleased, Unmount, Mount
  <2>2. replyFaults' \in 0..MaxReplyFaults
    BY <1>0, <2>1, RepliesAssumption DEF ReplyFault, RepliesTypeOK
  <2>3. QED
    BY <2>2 DEF GateReleased, Unmount, Mount, logVars
<1>2. runner' \in BOOLEAN
  <2>1. runner' = runner \/ runner' = FALSE \/ runner' = TRUE
    BY DEF GateReleased, Unmount, Mount
  <2>2. QED
    BY <1>0, <2>1, Zenon DEF RepliesTypeOK
<1>3. /\ Queued(items', replies', loop', asked)
      /\ \A m \in Nat : Past(m, items, replies) => Past(m, items', replies')
      /\ gate => replies' = {}
  <2>1. CASE GateReleased
    <3>1. replies = {} /\ ~gate /\ Advance(items, gate, runner, {})
      BY <1>0, <2>1 DEF GateReleased, QueueOK, Queued
    <3>2. QED
      BY <1>0, <3>1, AdvanceQueued DEF QueueOK, RepliesTypeOK
  <2>2. CASE Unmount
    BY <1>0, <2>2 DEF Unmount, QueueOK, GateOK
  <2>3. CASE Mount
    <3>1. drain(items, gate, TRUE, replies)
      BY <2>3 DEF Mount
    <3>2. QED
      BY <1>0, <3>1, DrainQueued DEF QueueOK, RepliesTypeOK, GateOK
  <2>4. QED
    BY <2>1, <2>2, <2>3
<1>4. QED
  BY <1>0, <1>1, <1>2, <1>3, QueueStep DEF RepliesTypeOK

(* The model answers. *)
LEMMA AskInv ==
  ASSUME RepliesInv, NEW r \in replies, askAgent(r)
  PROVE  RepliesInv'
<1>0. RepliesTypeOK /\ QueueOK /\ GateOK /\ asked \in Nat /\ r \in ReplyType
  BY RepliesAssumption DEF RepliesInv, ApprovedAndOnce, RepliesTypeOK, ReplyType
<1>1. PICK y \in BOOLEAN :
        replies' = (replies \ {r}) \cup {[r EXCEPT !.at = "post", !.proposes = y]}
  BY DEF askAgent
<1> DEFINE s == [r EXCEPT !.at = "post", !.proposes = y]
<1>2. s \in ReplyType /\ s.q = r.q
  BY <1>0 DEF ReplyType
<1>3. replies = {r}
  BY <1>0 DEF QueueOK, Queued
<1>4. replies' = {s}
  BY <1>1, <1>3
<1> HIDE DEF s
<1>5. /\ UNCHANGED <<asked, items, loop, gate, runner, sessionVars, answers, done, approved, decided,
                     acted, replyFaults>>
  BY DEF askAgent, queueVars, logVars
<1>6. Queued(items, {s}, loop, asked)
  BY <1>0, <1>2, <1>3 DEF QueueOK, Queued
<1>7. \A m \in 0..asked : Past(m, items, replies) => Past(m, items, {s})
  BY <1>2, <1>3 DEF Past
<1>8. ~gate
  BY <1>0 DEF GateOK
<1>9. /\ Queued(items', replies', loop', asked')
      /\ \A m \in 0..asked : Past(m, items, replies) => Past(m, items', replies')
  BY <1>4, <1>5, <1>6, <1>7
<1>10. QED
  BY <1>0, <1>5, <1>8, <1>9, QueueStep DEF RepliesTypeOK

(* The one reply is over, and the loop goes on with the gate g. *)
LEMMA ReplyOver ==
  ASSUME RepliesInv, NEW r \in replies, NEW g \in BOOLEAN, NextQuestion(r, g)
  PROVE  /\ replies = {r} /\ r.q \in Question /\ r.q <= asked
         /\ Queued(items', replies', loop', asked)
         /\ \A m \in 0..asked : Past(m, items, replies) => Past(m, items', replies')
         /\ Past(r.q, items', replies')
         /\ g => replies' = {}
<1>0. RepliesTypeOK /\ QueueOK /\ asked \in Nat /\ r \in ReplyType
  BY RepliesAssumption DEF RepliesInv, ApprovedAndOnce, RepliesTypeOK, ReplyType
<1>1. replies = {r} /\ r.q \in Question /\ r.q <= asked /\ r.q \in Nat
  BY <1>0 DEF QueueOK, Queued, ReplyType, Question
<1>2. Queued(items, {}, loop, asked) /\ Past(r.q, items, {})
  BY <1>0 DEF QueueOK, Queued, Past
<1>3. Advance(items, g, runner, {})
  BY <1>1 DEF NextQuestion
<1>4. /\ Queued(items', replies', loop', asked)
      /\ \A m \in Nat : Past(m, items, {}) => Past(m, items', replies')
      /\ g => replies' = {}
  BY <1>0, <1>2, <1>3, AdvanceQueued DEF RepliesTypeOK
<1>5. \A m \in 0..asked : m \in Nat /\ (Past(m, items, replies) => Past(m, items, {}))
  BY DEF Past
<1>6. QED
  BY <1>1, <1>2, <1>4, <1>5

(* A reply fails. *)
LEMMA ReplyFailsInv ==
  ASSUME RepliesInv, NEW r \in replies, replyFails(r)
  PROVE  RepliesInv'
<1>0. RepliesTypeOK
  BY DEF RepliesInv, ApprovedAndOnce
<1>1. /\ UNCHANGED <<asked, gate, runner, sessionVars, answers, approved, decided, acted>>
      /\ done' = done \cup {r.q} /\ replyFaults' \in 0..MaxReplyFaults /\ NextQuestion(r, gate)
  BY <1>0, RepliesAssumption DEF replyFails, ReplyFault, RepliesTypeOK
<1>2. QED
  BY <1>0, <1>1, ReplyOver, QueueStep DEF RepliesTypeOK

(* The answer is posted: it is the newest one, and its proposal, if any,   *)
(* is new too.                                                             *)
LEMMA PostInv ==
  ASSUME RepliesInv, NEW r \in replies, postAnswer(r)
  PROVE  RepliesInv'
<1>0. RepliesTypeOK /\ AnswersInOrder /\ QueueOK /\ PastOK /\ GateOK /\ DecisionsOK
      /\ r \in ReplyType /\ asked \in Nat /\ pending = NoProposal
  BY RepliesAssumption DEF RepliesInv, ApprovedAndOnce, RepliesTypeOK, ReplyType, GateOK
<1>1. /\ answers' = Append(answers, r.q) /\ done' = done \cup {r.q}
      /\ gate' = r.proposes /\ r.proposes \in BOOLEAN /\ NextQuestion(r, r.proposes)
      /\ UNCHANGED <<asked, runner, busy, decisions, approved, decided, acted, replyFaults>>
  BY <1>0 DEF postAnswer, ReplyType
<1>2. pending' = IF r.proposes THEN r.q ELSE NoProposal
  BY DEF postAnswer
<1>3. /\ replies = {r} /\ r.q \in Question /\ r.q <= asked
      /\ Queued(items', replies', loop', asked)
      /\ \A m \in 0..asked : Past(m, items, replies) => Past(m, items', replies')
      /\ Past(r.q, items', replies')
      /\ r.proposes => replies' = {}
  BY <1>1, ReplyOver
<1>4. /\ answers' \in Seq(Question) /\ Len(answers) \in Nat
      /\ \A i \in DOMAIN answers' :
           \/ i \in DOMAIN answers /\ answers'[i] = answers[i]
           \/ i = Len(answers) + 1 /\ answers'[i] = r.q
      /\ \A i \in DOMAIN answers' : i \in Nat /\ i <= Len(answers) + 1
      /\ \A i \in DOMAIN answers : answers[i] \in Nat
  <2>1. answers \in Seq(Question) /\ Len(answers) \in Nat /\ DOMAIN answers = 1..Len(answers)
    BY <1>0 DEF RepliesTypeOK
  <2>2. /\ answers' \in Seq(Question) /\ Len(answers') = Len(answers) + 1
        /\ \A j \in 1..Len(answers) : answers'[j] = answers[j]
        /\ answers'[Len(answers) + 1] = r.q
    BY <1>1, <1>3, <2>1, AppendProperties
  <2>3. DOMAIN answers' = 1..Len(answers) + 1
    BY <2>1, <2>2
  <2>4. \A j \in DOMAIN answers : answers[j] \in Nat
    BY <2>1, QuestionsPositive
  <2>5. QED
    BY <2>1, <2>2, <2>3, <2>4
<1>5. r.q \in Nat /\ r.q # NoProposal /\ NoProposal \in 0..asked /\ pending' \in 0..MaxQuestions
  BY <1>0, <1>2, <1>3, RepliesAssumption DEF Question, NoProposal
<1>6. RepliesTypeOK'
  BY <1>0, <1>1, <1>2, <1>3, <1>4, <1>5 DEF RepliesTypeOK, Queued, ReplyType
<1>7. AnswersInOrder'
  <2> SUFFICES ASSUME NEW i \in DOMAIN answers', NEW j \in DOMAIN answers', i < j
               PROVE  answers'[i] < answers'[j]
    BY DEF AnswersInOrder
  <2>1. i \in DOMAIN answers /\ answers'[i] = answers[i]
    BY <1>4
  <2>2. answers[i] < r.q
    BY <1>0, <1>3, <2>1 DEF PastOK, Past
  <2>3. QED
    BY <1>0, <1>4, <2>1, <2>2 DEF AnswersInOrder
<1>8. PastOK'
  <2>1. \A i \in DOMAIN answers' : answers'[i] <= asked /\ Past(answers'[i], items', replies')
    <3>1. \A i \in DOMAIN answers : answers[i] \in 0..asked /\ Past(answers[i], items, replies)
      BY <1>0, <1>4 DEF PastOK
    <3>2. \A i \in DOMAIN answers : answers[i] <= asked /\ Past(answers[i], items', replies')
      BY <1>3, <3>1
    <3>3. QED
      BY <1>3, <1>4, <3>2
  <2>2. \A p \in decided : p <= asked /\ Past(p, items', replies')
    <3>1. \A p \in decided : p \in 0..asked /\ Past(p, items, replies)
      BY <1>0, QuestionsPositive DEF PastOK, RepliesTypeOK
    <3>2. QED
      BY <1>3, <3>1
  <2>3. pending' <= asked /\ Past(pending', items', replies')
    BY <1>0, <1>2, <1>3, <1>5 DEF PastOK
  <2>4. QED
    BY <1>1, <2>1, <2>2, <2>3 DEF PastOK
<1>9. GateOK'
  BY <1>1, <1>2, <1>3, <1>5 DEF GateOK
<1>10. r.q \notin decided
  BY <1>0, <1>3, <1>5 DEF PastOK, Past
<1>11. DecisionsOK'
  <2>1. \A d \in decisions : d.at = "report"
    BY <1>0 DEF DecisionsOK, RepliesTypeOK, NoProposal, Question
  <2>2. QED
    BY <1>0, <1>1, <1>2, <1>10, <2>1 DEF DecisionsOK
<1>12. QED
  BY <1>1, <1>3, <1>6, <1>7, <1>8, <1>9, <1>11 DEF RepliesInv, ApprovedAndOnce, QueueOK

(* The owner decides on a proposal, which was never decided before. *)
LEMMA ResolveInv ==
  ASSUME RepliesInv, NEW approve \in BOOLEAN, resolveAgentReplyAction(approve)
  PROVE  RepliesInv'
<1>0. RepliesTypeOK /\ PastOK /\ GateOK /\ DecisionsOK
  BY DEF RepliesInv, ApprovedAndOnce
<1> DEFINE at == IF approve THEN "check" ELSE "deny"
<1>1. /\ pending # NoProposal /\ ~busy /\ busy' = TRUE
      /\ decisions' = decisions \cup {[p |-> pending, at |-> at]}
      /\ UNCHANGED <<asked, items, loop, gate, runner, replies, pending, answers, done, acted, replyFaults>>
  BY DEF resolveAgentReplyAction, queueVars
<1>2. /\ decided' = decided \cup {pending}
      /\ (at = "check" /\ approved' = approved \cup {pending}) \/ (at = "deny" /\ approved' = approved)
  BY DEF resolveAgentReplyAction
<1> HIDE DEF at
<1>3. /\ decisions = {} /\ pending \in Question /\ pending \notin decided /\ busy' \in BOOLEAN
  BY <1>0, <1>1 DEF DecisionsOK, RepliesTypeOK, NoProposal, Question
<1>4. RepliesTypeOK'
  <2>1. decisions' \subseteq [p : Question, at : {"deny", "check", "run", "report"}]
    BY <1>1, <1>2, <1>3
  <2>2. approved' \subseteq decided' /\ decided' \subseteq Question
    BY <1>0, <1>2, <1>3 DEF RepliesTypeOK
  <2>3. QED
    BY <1>0, <1>1, <1>3, <2>1, <2>2 DEF RepliesTypeOK
<1>5. ApprovedAndOnce'
  BY <1>1, <1>2, <1>4 DEF RepliesInv, ApprovedAndOnce, RepliesTypeOK
<1>6. acted[pending] = 0
  BY <1>0, <1>3 DEF RepliesInv, ApprovedAndOnce, RepliesTypeOK
<1>7. DecisionsOK'
  BY <1>1, <1>2, <1>3, <1>6 DEF DecisionsOK
<1>8. PastOK'
  BY <1>0, <1>1, <1>2 DEF PastOK
<1>9. QED
  BY <1>1, <1>5, <1>7, <1>8 DEF RepliesInv, AnswersInOrder, QueueOK, GateOK

(* The proposal is cleared, and the queue drains. *)
LEMMA Cleared ==
  ASSUME RepliesInv, setPending(NoProposal, replies), UNCHANGED <<asked, answers, decided>>
  PROVE  /\ AnswersInOrder' /\ QueueOK' /\ PastOK' /\ GateOK'
         /\ pending' = NoProposal /\ gate' \in BOOLEAN
<1>0. RepliesTypeOK /\ AnswersInOrder /\ QueueOK /\ PastOK /\ GateOK /\ asked \in Nat
      /\ FALSE \in BOOLEAN
  BY RepliesAssumption DEF RepliesInv, ApprovedAndOnce, RepliesTypeOK
<1>1. pending' = NoProposal /\ gate' = FALSE /\ drain(items, FALSE, runner, replies)
  BY DEF setPending
<1>2. /\ Queued(items', replies', loop', asked)
      /\ \A m \in Nat : Past(m, items, replies) => Past(m, items', replies')
  BY <1>0, <1>1, DrainQueued DEF QueueOK, RepliesTypeOK
<1>3. /\ \A i \in DOMAIN answers : answers[i] \in Nat
      /\ \A p \in decided : p \in Nat
  BY <1>0, QuestionsPositive DEF RepliesTypeOK
<1>4. NoProposal <= asked /\ Past(NoProposal, items, replies) /\ NoProposal \in Nat
  BY <1>0, QuestionsPositive DEF NoProposal, Past, RepliesTypeOK
<1>5. PastOK'
  BY <1>0, <1>1, <1>2, <1>3, <1>4 DEF PastOK
<1>6. QED
  BY <1>0, <1>1, <1>2, <1>5 DEF AnswersInOrder, QueueOK, GateOK

(* A decision ends or moves on. *)
LEMMA DecideInv ==
  ASSUME RepliesInv, NEW d \in decisions, Decide(d) \/ ReportFails(d)
  PROVE  RepliesInv'
<1>0. RepliesTypeOK /\ DecisionsOK /\ decisions = {d}
      /\ d \in [p : Question, at : {"deny", "check", "run", "report"}]
  BY DEF RepliesInv, ApprovedAndOnce, RepliesTypeOK, DecisionsOK
<1>1. UNCHANGED <<asked, runner, answers, done, approved, decided>> /\ (replyFaults' = replyFaults \/ ReplyFault)
  BY DEF Decide, ReportFails, Denied, RefusedNow, CheckedAgain, runAction, Reported, logVars,
     queueVars
<1>2. replyFaults' \in 0..MaxReplyFaults
  BY <1>0, <1>1, RepliesAssumption DEF RepliesTypeOK, ReplyFault
<1>3. CASE Denied(d) \/ RefusedNow(d) \/ ReportFails(d)
  <2>1. setPending(NoProposal, replies) /\ decisions' = {} /\ busy' = FALSE /\ acted' = acted
    BY <1>0, <1>3 DEF Denied, RefusedNow, ReportFails, DecisionOver, logVars
  <2>2. busy' \in BOOLEAN
    BY <2>1, Zenon
  <2>3. /\ AnswersInOrder' /\ QueueOK' /\ PastOK' /\ GateOK'
        /\ pending' = NoProposal /\ gate' \in BOOLEAN
    BY <1>1, <2>1, Cleared
  <2>4. RepliesTypeOK'
    BY <1>0, <1>1, <1>2, <2>1, <2>2, <2>3, RepliesAssumption
       DEF RepliesTypeOK, QueueOK, Queued, ReplyType, NoProposal
  <2>5. DecisionsOK'
    BY <2>1, <2>3 DEF DecisionsOK
  <2>6. QED
    BY <1>1, <2>1, <2>3, <2>4, <2>5 DEF RepliesInv, ApprovedAndOnce
<1>4. CASE CheckedAgain(d)
  <2>1. /\ d.at = "check" /\ decisions' = {[d EXCEPT !.at = "run"]}
        /\ UNCHANGED <<items, loop, gate, replies, pending, busy, acted>>
    BY <1>0, <1>4 DEF CheckedAgain, queueVars, logVars
  <2>2. RepliesTypeOK'
    BY <1>0, <1>1, <1>2, <2>1 DEF RepliesTypeOK
  <2>3. DecisionsOK'
    BY <1>0, <1>1, <2>1 DEF DecisionsOK
  <2>4. QED
    BY <1>1, <2>1, <2>2, <2>3
       DEF RepliesInv, ApprovedAndOnce, AnswersInOrder, QueueOK, PastOK, GateOK
<1>5. CASE runAction(d)
  <2>1. /\ d.at = "run" /\ decisions' = {[d EXCEPT !.at = "report"]} /\ busy' = busy
        /\ setPending(NoProposal, replies)
        /\ acted' = [acted EXCEPT ![d.p] = @ + 1] \/ acted' = acted
    BY <1>0, <1>5 DEF runAction
  <2>2. /\ AnswersInOrder' /\ QueueOK' /\ PastOK' /\ GateOK'
        /\ pending' = NoProposal /\ gate' \in BOOLEAN
    BY <1>1, <2>1, Cleared
  <2>3. d.p \in Question /\ d.p \in approved /\ acted[d.p] = 0 /\ d.p \in decided
    BY <1>0, <2>1 DEF DecisionsOK
  <2>4. /\ acted' \in [Question -> 0..2]
        /\ \A p \in Question : acted'[p] <= IF p \in approved THEN 1 ELSE 0
    BY <1>0, <2>1, <2>3 DEF RepliesTypeOK, RepliesInv, ApprovedAndOnce
  <2>5. RepliesTypeOK'
    BY <1>0, <1>1, <1>2, <2>1, <2>2, <2>4, RepliesAssumption
       DEF RepliesTypeOK, QueueOK, Queued, ReplyType, NoProposal
  <2>6. DecisionsOK'
    BY <1>0, <1>1, <2>1, <2>2, <2>3 DEF DecisionsOK
  <2>7. QED
    BY <1>1, <2>2, <2>4, <2>5, <2>6 DEF RepliesInv, ApprovedAndOnce
<1>6. CASE Reported(d)
  <2>1. /\ d.at = "report" /\ decisions' = {} /\ busy' = FALSE
        /\ UNCHANGED <<items, loop, gate, replies, pending, acted>>
    BY <1>0, <1>6 DEF Reported, DecisionOver, queueVars, logVars
  <2>2. busy' \in BOOLEAN
    BY <2>1, Zenon
  <2>3. RepliesTypeOK'
    BY <1>0, <1>1, <1>2, <2>1, <2>2 DEF RepliesTypeOK
  <2>4. DecisionsOK'
    BY <1>0, <1>1, <2>1 DEF DecisionsOK
  <2>5. QED
    BY <1>1, <2>1, <2>3, <2>4
       DEF RepliesInv, ApprovedAndOnce, AnswersInOrder, QueueOK, PastOK, GateOK
<1>7. QED
  BY <1>3, <1>4, <1>5, <1>6 DEF Decide

(* Every step keeps the invariant. *)
LEMMA RepliesNextInv == RepliesInv /\ [RepliesNext]_repliesVars => RepliesInv'
<1> SUFFICES ASSUME RepliesInv, [RepliesNext]_repliesVars PROVE RepliesInv'
  OBVIOUS
<1>1. CASE UNCHANGED repliesVars
  BY <1>1
     DEF repliesVars, queueVars, sessionVars, logVars, RepliesInv, ApprovedAndOnce,
         RepliesTypeOK, AnswersInOrder, QueueOK, PastOK, GateOK, DecisionsOK
<1>2. QED
  BY <1>1, EnqueueInv, EngineInv, AskInv, PostInv, ReplyFailsInv, ResolveInv, DecideInv
     DEF RepliesNext, Reply

(* The invariant holds throughout. *)
THEOREM RepliesInvariance == RepliesSpec => []RepliesInv
  BY RepliesInitInv, RepliesNextInv, PTL DEF RepliesSpec

(* A proposed write is executed at most once, and only if the owner        *)
(* approved this very proposal (resolveStoredAction, runAction); and the   *)
(* state is well typed.                                                    *)
THEOREM ApprovalTheorem == RepliesSpec => []ApprovedAndOnce
<1>1. RepliesInv => ApprovedAndOnce
  BY DEF RepliesInv
<1>2. QED
  BY <1>1, RepliesInvariance, PTL

(* Answers appear in the order of the questions (the drain loop of the     *)
(* reply queue), through holds, failures and remounts.                     *)
THEOREM OrderTheorem == RepliesSpec => []AnswersInOrder
<1>1. RepliesInv => AnswersInOrder
  BY DEF RepliesInv
<1>2. QED
  BY <1>1, RepliesInvariance, PTL

(* A proposal goes only once the owner decided on it, or when the post of  *)
(* an earlier action's result fails (the catch of resolveStoredAction).    *)
THEOREM HeldTheorem == RepliesSpec => HeldUntilDecided
<1> DEFINE Held == pending # NoProposal /\ pending' # pending =>
                     \/ pending \in decided'
                     \/ /\ replyFaults' > replyFaults
                        /\ \E d \in decisions \ decisions' : d.at = "report"
<1>1. RepliesInv /\ [RepliesNext]_repliesVars => Held
  <2> SUFFICES ASSUME RepliesInv, [RepliesNext]_repliesVars, pending # NoProposal, pending' # pending
               PROVE  \/ pending \in decided'
                      \/ /\ replyFaults' > replyFaults
                         /\ \E d \in decisions \ decisions' : d.at = "report"
    OBVIOUS
  <2>1. replies = {} /\ DecisionsOK
    BY DEF RepliesInv, GateOK
  <2>2. \E d \in decisions : Decide(d) \/ ReportFails(d)
    BY <2>1
       DEF RepliesNext, repliesVars, sessionVars, enqueueAgentReply, GateReleased, Unmount,
           Mount, resolveAgentReplyAction
  <2>3. PICK d \in decisions : Decide(d) \/ ReportFails(d)
    BY <2>2
  <2>4. CASE d.at # "report"
    <3>1. decided' = decided
      BY <2>3, <2>4
         DEF Decide, ReportFails, Denied, RefusedNow, CheckedAgain, runAction, Reported, logVars
    <3>2. QED
      BY <2>1, <2>3, <2>4, <3>1 DEF DecisionsOK
  <2>5. CASE d.at = "report"
    <3>1. ReportFails(d)
      BY <2>3, <2>5 DEF Decide, Denied, RefusedNow, CheckedAgain, runAction, Reported
    <3>2. d \notin decisions' /\ replyFaults' = replyFaults + 1
      BY <3>1 DEF ReportFails, DecisionOver, ReplyFault
    <3>3. replyFaults \in Nat
      BY RepliesAssumption DEF RepliesInv, ApprovedAndOnce, RepliesTypeOK
    <3>4. QED
      BY <2>3, <2>5, <3>2, <3>3
  <2>6. QED
    BY <2>4, <2>5
<1>2. QED
  BY <1>1, RepliesInvariance, PTL DEF RepliesSpec, HeldUntilDecided
=============================================================================
