--------------------------- MODULE GroupKeysProofs ---------------------------
(***************************************************************************)
(* Proofs about GroupKeys for every set of clients and every number of     *)
(* versions, keys and messages.                                            *)
(*                                                                         *)
(* A key is encrypted to the version its generator expected and appended   *)
(* at the one the chain had reached, so the two can differ, but the first  *)
(* never runs ahead of the second.  The argument is about identities: what *)
(* a client did not generate it got under an identity released to it, and  *)
(* all those released to a removed client are versions from before its     *)
(* removal.                                                                *)
(***************************************************************************)
EXTENDS GroupKeys, FiniteSetTheorems, TLAPS

(* The key k was sealed or cached under the label u by the client c: it is *)
(* the chain's key of that version, or one that c generated itself.        *)
Labelled(c, u, k) ==
  /\ k <= gen
  /\ (u < len /\ k = keys[u]) \/ owner[k] = c

(* The history: every version has a generated key. *)
HistoryOK ==
  \A v \in Version : v < len => keys[v] <= gen

(* No key on chain is encrypted to an identity ahead of its version. *)
MadeOK ==
  \A v \in Version : v < len => made[keys[v]] <= v

(* A rotation under way carries a key of its client, made for the present  *)
(* version or an earlier one, and does not remove its own client.          *)
RotationsOK ==
  \A c \in Client : rot[c].st = "signing" =>
    /\ rot[c].dek \in Dek /\ rot[c].dek <= gen /\ owner[rot[c].dek] = c
    /\ made[rot[c].dek] <= len
    /\ c \notin rot[c].out

(* A client has cached only what it knows, correctly labelled. *)
CacheOK ==
  \A c \in Client, u \in Version : cache[c][u] # NoDek =>
    cache[c][u] \in known[c] /\ Labelled(c, u, cache[c][u])

(* What a client knows: its own keys, and those of identities it was given. *)
KnownOK ==
  \A c \in Client : \A k \in known[c] :
    /\ k <= gen
    /\ owner[k] = c \/ made[k] \in released[c]

(* The identities a client was given are of versions the history has, and  *)
(* from before its removal if it is removed.                               *)
ReleasedOK ==
  \A c \in Client : \A v \in released[c] :
    v < len /\ (removed[c] # 0 => v < removed[c])

(* A removed client is no reader, and none of the later keys is its own. *)
RemovedOK ==
  \A c \in Client : removed[c] # 0 =>
    /\ c \notin readers
    /\ removed[c] < len
    /\ \A v \in Version : removed[c] <= v /\ v < len => owner[keys[v]] # c

(* A send under way and a stored message are labelled with a version the   *)
(* history has.                                                            *)
MessagesOK ==
  /\ IsFiniteSet(msgs)
  /\ \A c \in Client : snd[c].ver < len
  /\ \A m \in msgs : m.ver < len /\ Labelled(m.from, m.ver, m.dek)

(* The inductive invariant. *)
IInv == /\ TypeOK /\ HistoryOK /\ MadeOK /\ RotationsOK /\ CacheOK /\ KnownOK /\ ReleasedOK
        /\ RemovedOK /\ MessagesOK

(* The first key is the creator's, in its cache. *)
LEMMA InitIInv == Init => IInv
<1> SUFFICES ASSUME Init PROVE IInv
  OBVIOUS
<1> USE KeysAssumption DEF Init, NoDek, NoRot, NoSnd, Version, Dek
<1>1. TypeOK
  BY DEF TypeOK, Wrap, Message
<1>2. HistoryOK /\ MadeOK /\ RotationsOK /\ ReleasedOK /\ RemovedOK
  BY DEF HistoryOK, MadeOK, RotationsOK, ReleasedOK, RemovedOK
<1>3. CacheOK
  BY DEF CacheOK, Labelled
<1>4. KnownOK
  BY DEF KnownOK
<1>5. MessagesOK
  BY FS_EmptySet DEF MessagesOK
<1>6. QED
  BY <1>1, <1>2, <1>3, <1>4, <1>5 DEF IInv

(* The types, value by value. *)
LEMMA Values ==
  ASSUME TypeOK
  PROVE  /\ gen \in Nat /\ 1 <= gen /\ gen <= MaxDeks
         /\ len \in Nat /\ 1 <= len /\ len <= MaxKeys
         /\ \A v \in Version : v \in Nat /\ v < MaxKeys
         /\ \A v \in Version : v < len => keys[v] \in Dek
         /\ \A k \in Dek : k \in Nat /\ k # NoDek
         /\ \A k \in Dek : made[k] \in Version
         /\ \A c \in Client : \A v \in released[c] : v \in Version
         /\ \A c \in Client : removed[c] \in Nat /\ removed[c] < MaxKeys
         /\ \A c \in Client, u \in Version : cache[c][u] # NoDek => cache[c][u] \in Dek
         /\ \A c \in Client : \A k \in known[c] : k \in Dek
         /\ \A c \in Client : rot[c].ver \in Nat /\ rot[c].out \subseteq Client
         /\ \A c \in Client : snd[c].ver \in Version /\ snd[c].wrap \in Wrap
         /\ \A m \in msgs : m.from \in Client /\ m.ver \in Version /\ m.dek \in Dek
<1>1. /\ gen \in Nat /\ 1 <= gen /\ gen <= MaxDeks
      /\ len \in Nat /\ 1 <= len /\ len <= MaxKeys
  BY KeysAssumption DEF TypeOK
<1>2. /\ \A v \in Version : v \in Nat /\ v < MaxKeys
      /\ \A k \in Dek : k \in Nat /\ k # NoDek
  BY KeysAssumption DEF Version, Dek, NoDek
<1>3. \A v \in Version : v < len => keys[v] \in Dek
  BY DEF TypeOK
<1>4. \A c \in Client : removed[c] \in Nat /\ removed[c] < MaxKeys
  BY KeysAssumption DEF TypeOK
<1>5. /\ \A c \in Client, u \in Version : cache[c][u] # NoDek => cache[c][u] \in Dek
      /\ \A c \in Client : \A k \in known[c] : k \in Dek
  BY DEF TypeOK
<1>6. /\ \A c \in Client : rot[c].ver \in Nat /\ rot[c].out \subseteq Client
      /\ \A c \in Client : snd[c].ver \in Version /\ snd[c].wrap \in Wrap
  BY KeysAssumption DEF TypeOK
<1>7. \A m \in msgs : m.from \in Client /\ m.ver \in Version /\ m.dek \in Dek
  BY DEF TypeOK, Message
<1>8. /\ \A k \in Dek : made[k] \in Version
      /\ \A c \in Client : \A v \in released[c] : v \in Version
  BY DEF TypeOK
<1>9. QED
  BY <1>1, <1>2, <1>3, <1>4, <1>5, <1>6, <1>7, <1>8

(* A new key is nowhere yet, so nothing that was labelled is disturbed. *)
LEMMA GenerateIInv ==
  ASSUME IInv, NEW c \in Client, NEW out \in SUBSET (readers \ {c}),
         generateRotationDEK(c, out)
  PROVE  IInv'
<1> DEFINE r == [st |-> "signing", ver |-> len, dek |-> gen + 1, out |-> out]
<1>0. /\ TypeOK /\ HistoryOK /\ MadeOK /\ RotationsOK /\ CacheOK /\ KnownOK /\ ReleasedOK
      /\ RemovedOK /\ MessagesOK
  BY DEF IInv
<1> USE Values, <1>0
<1>1. /\ gen + 1 \in Dek /\ len \in Version /\ gen' = gen + 1
      /\ UNCHANGED <<flag, readers, removed, keys, len, released, meta, snd, msgs, seen, faults>>
  BY KeysAssumption DEF generateRotationDEK, chainVars, Version, Dek
<1>2. /\ \A k \in Dek : k <= gen => owner'[k] = owner[k] /\ made'[k] = made[k]
      /\ owner'[gen + 1] = c /\ made'[gen + 1] = len
      /\ owner' \in [Dek -> Client \cup {NoOne}]
      /\ made' \in [Dek -> Version]
  BY <1>1 DEF generateRotationDEK, TypeOK
<1>3. /\ cache' \in [Client -> [Version -> Dek \cup {NoDek}]]
      /\ \A d \in Client, u \in Version :
           cache'[d][u] = IF d = c /\ u = len /\ cache[c][len] = NoDek
                          THEN gen + 1 ELSE cache[d][u]
  BY <1>1 DEF generateRotationDEK, putDEK, TypeOK
<1>4. /\ known' \in [Client -> SUBSET Dek]
      /\ \A d \in Client : known'[d] = IF d = c THEN known[d] \cup {gen + 1} ELSE known[d]
  BY <1>1 DEF generateRotationDEK, putDEK, TypeOK
<1>5. /\ rot' \in [Client -> [st : {"none", "signing"}, ver : 0..MaxKeys,
                             dek : Dek \cup {NoDek}, out : SUBSET Client]]
      /\ \A d \in Client : rot'[d] = IF d = c THEN r ELSE rot[d]
  BY <1>1 DEF generateRotationDEK, TypeOK
<1>6. TypeOK'
  BY KeysAssumption, <1>1, <1>2, <1>3, <1>4, <1>5 DEF TypeOK, Dek
<1>7. HistoryOK' /\ MadeOK' /\ ReleasedOK'
  BY <1>1, <1>2 DEF HistoryOK, MadeOK, ReleasedOK
<1>8. CacheOK'
  <2> SUFFICES ASSUME NEW d \in Client, NEW u \in Version, cache'[d][u] # NoDek
               PROVE  (cache[d][u] \in known[d] /\ Labelled(d, u, cache[d][u]))'
    BY DEF CacheOK
  <2>1. CASE cache'[d][u] = cache[d][u]
    BY <1>1, <1>2, <1>4, <2>1 DEF CacheOK, Labelled
  <2>2. CASE cache'[d][u] = gen + 1 /\ d = c /\ u = len
    BY <1>1, <1>2, <1>4, <2>2 DEF Labelled
  <2>3. QED
    BY <1>3, <2>1, <2>2
<1>9. RotationsOK'
  <2> SUFFICES ASSUME NEW d \in Client, (rot[d].st = "signing")'
               PROVE  (/\ rot[d].dek \in Dek /\ rot[d].dek <= gen /\ owner[rot[d].dek] = d
                       /\ made[rot[d].dek] <= len
                       /\ d \notin rot[d].out)'
    BY DEF RotationsOK
  <2>1. CASE d = c
    <3>1. /\ rot'[d].dek = gen + 1 /\ d \notin rot'[d].out
      BY <1>5, <2>1
    <3>2. QED
      BY <1>1, <1>2, <2>1, <3>1
  <2>2. CASE d # c
    BY <1>1, <1>2, <1>5, <2>2 DEF RotationsOK
  <2>3. QED
    BY <2>1, <2>2
<1>10. KnownOK'
  BY <1>1, <1>2, <1>4 DEF KnownOK
<1>11. RemovedOK'
  BY <1>1, <1>2 DEF RemovedOK, HistoryOK
<1>12. MessagesOK'
  BY <1>1, <1>2 DEF MessagesOK, Labelled
<1>13. QED
  BY <1>6, <1>7, <1>8, <1>9, <1>10, <1>11, <1>12 DEF IInv

(* A rotation lands at the present length, at or after the version it was  *)
(* made for; its client is a reader, so the new key is not a removed       *)
(* client's.  All that was released before is from before this version.    *)
LEMMA RotateIInv ==
  ASSUME IInv, NEW c \in Client, rotate_encryption_key(c)
  PROVE  IInv'
<1> DEFINE k == rot[c].dek
<1>0. /\ TypeOK /\ HistoryOK /\ MadeOK /\ RotationsOK /\ CacheOK /\ KnownOK /\ ReleasedOK
      /\ RemovedOK /\ MessagesOK
  BY DEF IInv
<1> USE Values, <1>0
<1>1. /\ len \in Version /\ len' = len + 1 /\ len + 1 \in 1..MaxKeys
      /\ c \in readers /\ rot[c].out \subseteq readers /\ readers' = readers \ rot[c].out
      /\ UNCHANGED <<flag, owner, made, gen, cache, released, known, meta, snd, msgs, seen, faults>>
  BY KeysAssumption DEF rotate_encryption_key, Version
<1>2. /\ k \in Dek /\ k <= gen /\ owner[k] = c /\ c \notin rot[c].out
      /\ made[k] <= len
  BY <1>1 DEF rotate_encryption_key, RotationsOK
<1>3. /\ keys' \in [Version -> Dek \cup {NoDek}]
      /\ \A v \in Version : keys'[v] = IF v = len THEN k ELSE keys[v]
  BY <1>1, <1>2 DEF rotate_encryption_key, TypeOK
<1>4. /\ removed' \in [Client -> 0..MaxKeys - 1]
      /\ \A d \in Client : removed'[d] = IF d \in rot[c].out THEN len ELSE removed[d]
  BY <1>1 DEF rotate_encryption_key, TypeOK, Version
<1>5. /\ rot' \in [Client -> [st : {"none", "signing"}, ver : 0..MaxKeys,
                             dek : Dek \cup {NoDek}, out : SUBSET Client]]
      /\ \A d \in Client : rot'[d] = IF d = c THEN NoRot ELSE rot[d]
  BY KeysAssumption DEF rotate_encryption_key, TypeOK, NoRot
<1>6. TypeOK'
  <2>1. \A v \in Version : keys'[v] # NoDek <=> v < len'
    BY <1>1, <1>2, <1>3 DEF TypeOK
  <2>2. readers' \subseteq Client
    BY <1>1 DEF TypeOK
  <2>3. QED
    BY <1>1, <1>3, <1>4, <1>5, <2>1, <2>2 DEF TypeOK
<1> HIDE DEF k
<1>7. HistoryOK' /\ MadeOK'
  BY <1>1, <1>2, <1>3 DEF HistoryOK, MadeOK
<1>8. CacheOK'
  <2> SUFFICES ASSUME NEW d \in Client, NEW u \in Version, cache[d][u] # NoDek
               PROVE  cache[d][u] \in known[d] /\ Labelled(d, u, cache[d][u])'
    BY <1>1 DEF CacheOK
  <2>1. cache[d][u] \in known[d] /\ Labelled(d, u, cache[d][u])
    BY DEF CacheOK
  <2>2. QED
    BY <1>1, <1>3, <2>1 DEF Labelled
<1>9. RotationsOK'
  <2> SUFFICES ASSUME NEW d \in Client, rot'[d].st = "signing"
               PROVE  (/\ rot[d].dek \in Dek /\ rot[d].dek <= gen /\ owner[rot[d].dek] = d
                       /\ made[rot[d].dek] <= len
                       /\ d \notin rot[d].out)'
    BY DEF RotationsOK
  <2>1. d # c /\ rot'[d] = rot[d]
    BY <1>5 DEF NoRot
  <2>2. QED
    BY <1>1, <2>1 DEF RotationsOK
<1>10. KnownOK' /\ ReleasedOK'
  BY <1>1, <1>4 DEF KnownOK, ReleasedOK
<1>11. RemovedOK'
  <2> SUFFICES ASSUME NEW d \in Client, removed'[d] # 0
               PROVE  /\ d \notin readers'
                      /\ removed'[d] < len'
                      /\ \A v \in Version : removed'[d] <= v /\ v < len' => owner'[keys'[v]] # d
    BY DEF RemovedOK
  <2>1. d # c
    BY <1>1, <1>2, <1>4 DEF RemovedOK
  <2>2. owner[k] # d
    BY <1>2, <2>1
  <2>3. CASE d \in rot[c].out
    <3>1. removed'[d] = len /\ d \notin readers'
      BY <1>1, <1>4, <2>3
    <3>2. \A v \in Version : len <= v /\ v < len + 1 => v = len
      OBVIOUS
    <3>3. owner'[keys'[len]] # d
      BY <1>1, <1>3, <2>2
    <3>4. QED
      BY <1>1, <3>1, <3>2, <3>3
  <2>4. CASE d \notin rot[c].out
    <3>1. removed'[d] = removed[d] /\ d \notin readers'
      BY <1>1, <1>4, <2>4 DEF RemovedOK
    <3>2. removed[d] < len /\ \A v \in Version : removed[d] <= v /\ v < len => owner[keys[v]] # d
      BY <3>1 DEF RemovedOK
    <3>3. owner'[keys'[len]] # d /\ \A v \in Version : v < len => owner'[keys'[v]] = owner[keys[v]]
      BY <1>1, <1>3, <2>2
    <3>4. \A v \in Version : v < len + 1 => v = len \/ v < len
      OBVIOUS
    <3>5. QED
      BY <1>1, <3>1, <3>2, <3>3, <3>4
  <2>5. QED
    BY <2>3, <2>4
<1>12. MessagesOK'
  BY <1>1, <1>2, <1>3 DEF MessagesOK, Labelled
<1>13. QED
  BY <1>6, <1>7, <1>8, <1>9, <1>10, <1>11, <1>12 DEF IInv

(* A rotation that fails leaves its key in the cache of its client. *)
LEMMA RotationFailsIInv ==
  ASSUME IInv, NEW c \in Client, RotationFails(c)
  PROVE  IInv'
<1>1. /\ rot' \in [Client -> [st : {"none", "signing"}, ver : 0..MaxKeys,
                             dek : Dek \cup {NoDek}, out : SUBSET Client]]
      /\ \A d \in Client : rot'[d] = IF d = c THEN NoRot ELSE rot[d]
  BY KeysAssumption DEF RotationFails, IInv, TypeOK, NoRot
<1>2. /\ faults' \in 0..MaxFaults
      /\ UNCHANGED <<flag, readers, removed, keys, len, owner, made, gen, cache, released,
                     known, meta, snd, msgs, seen>>
  BY KeysAssumption DEF RotationFails, IInv, TypeOK, chainVars
<1>3. TypeOK'
  BY <1>1, <1>2 DEF IInv, TypeOK
<1>4. RotationsOK'
  BY <1>1, <1>2 DEF IInv, RotationsOK, NoRot
<1>5. QED
  BY <1>2, <1>3, <1>4
     DEF IInv, HistoryOK, MadeOK, CacheOK, KnownOK, ReleasedOK, RemovedOK, MessagesOK, Labelled

(* A member leaves, or comes back and is not removed any more. *)
LEMMA MembersIInv ==
  ASSUME IInv, NEW c \in Client, leave(c) \/ grant(c)
  PROVE  IInv'
<1>1. UNCHANGED <<flag, keys, len, owner, made, gen, cache, released, known, meta, rot, snd,
                  msgs, seen, faults>>
  BY DEF leave, grant
<1>2. /\ readers' \subseteq Client
      /\ removed' \in [Client -> 0..MaxKeys - 1]
      /\ \A d \in Client : removed'[d] = removed[d] \/ removed'[d] = 0
      /\ \A d \in Client : removed'[d] # 0 /\ d \in readers' => d \in readers
  <2>1. readers \subseteq Client /\ removed \in [Client -> 0..MaxKeys - 1] /\ 0 \in 0..MaxKeys - 1
    BY KeysAssumption DEF IInv, TypeOK
  <2>2. CASE leave(c)
    BY <2>1, <2>2 DEF leave
  <2>3. CASE grant(c)
    BY <2>1, <2>3 DEF grant
  <2>4. QED
    BY <2>2, <2>3
<1>3. TypeOK'
  BY <1>1, <1>2 DEF IInv, TypeOK
<1>4. KnownOK' /\ ReleasedOK' /\ RemovedOK'
  BY <1>1, <1>2 DEF IInv, KnownOK, ReleasedOK, RemovedOK
<1>5. QED
  BY <1>1, <1>3, <1>4 DEF IInv, HistoryOK, MadeOK, RotationsOK, CacheOK, MessagesOK, Labelled

(* Sending reads the last version, or gives up. *)
LEMMA SendIInv ==
  ASSUME IInv, NEW c \in Client, sendMessage(c) \/ SendFails(c)
  PROVE  IInv'
<1>0. TypeOK /\ MessagesOK
  BY DEF IInv
<1>1. UNCHANGED <<flag, readers, removed, keys, len, owner, made, gen, cache, released, known,
                  rot, msgs, seen>>
  BY DEF sendMessage, SendFails, chainVars
<1>2. meta' \subseteq Client /\ faults' \in 0..MaxFaults
  <2>1. CASE sendMessage(c)
    <3>1. (meta' = meta \cup {c} /\ faults' = faults) \/ (Fault /\ meta' = meta)
      BY <2>1, Zenon DEF sendMessage, RoutesV2
    <3>2. QED
      BY <1>0, <3>1, KeysAssumption DEF TypeOK, Fault
  <2>2. CASE SendFails(c)
    BY <1>0, <2>2 DEF TypeOK, SendFails
  <2>3. QED
    BY <2>1, <2>2
<1>3. len - 1 \in Version /\ 0 \in Version /\ "mls" \in Wrap /\ "dek" \in Wrap
  BY <1>0, Values, KeysAssumption DEF Version, Wrap
<1>4. /\ snd' \in [Client -> [st : {"none", "routed"}, ver : Version, wrap : Wrap]]
      /\ \A d \in Client : snd'[d].ver \in {snd[d].ver, 0, len - 1}
  <2>1. NoSnd.ver = 0 /\ NoSnd \in [st : {"none", "routed"}, ver : Version, wrap : Wrap]
    BY <1>3 DEF NoSnd
  <2>2. CASE sendMessage(c)
    <3>1. PICK yes \in BOOLEAN :
            snd' = [snd EXCEPT ![c] =
                      [NoSnd EXCEPT !.st = "routed", !.ver = len - 1,
                                    !.wrap = IF yes /\ flag = "mls1" THEN "mls" ELSE "dek"]]
      BY <2>2 DEF sendMessage
    <3> DEFINE w == IF yes /\ flag = "mls1" THEN "mls" ELSE "dek"
    <3>2. w \in Wrap
      BY <1>3, Zenon
    <3> HIDE DEF w
    <3>3. snd' = [snd EXCEPT ![c] = [NoSnd EXCEPT !.st = "routed", !.ver = len - 1, !.wrap = w]]
      BY <3>1, Zenon DEF w
    <3>4. QED
      BY <1>0, <1>3, <3>2, <3>3 DEF TypeOK, NoSnd
  <2>3. CASE SendFails(c)
    BY <1>0, <2>1, <2>3 DEF TypeOK, SendFails
  <2>4. QED
    BY <2>2, <2>3
<1>5. TypeOK'
  BY <1>0, <1>1, <1>2, <1>4 DEF TypeOK
<1>6. \A d \in Client : snd'[d].ver < len
  BY <1>0, <1>4, Values DEF MessagesOK
<1>7. MessagesOK'
  BY <1>0, <1>1, <1>6 DEF MessagesOK, Labelled
<1>8. QED
  BY <1>1, <1>5, <1>7
     DEF IInv, HistoryOK, MadeOK, RotationsOK, CacheOK, KnownOK, ReleasedOK, RemovedOK, Labelled

(* Resolving a version gives a correctly labelled key: a cached one, or    *)
(* one of the chain to a client that is not removed or was given its       *)
(* identity before.                                                        *)
LEMMA ResolvesLabelled ==
  ASSUME IInv, NEW c \in Client, NEW u \in Version, NEW k \in Dek, Resolves(c, u, k)
  PROVE  /\ Labelled(c, u, k)
         /\ IF cache[c][u] = NoDek
            THEN made[k] < len /\ (removed[c] = 0 \/ made[k] \in released[c])
            ELSE k \in known[c]
<1>0. TypeOK /\ HistoryOK /\ MadeOK /\ CacheOK /\ RemovedOK
  BY DEF IInv
<1>1. CASE cache[c][u] # NoDek /\ k = cache[c][u]
  BY <1>0, <1>1 DEF CacheOK
<1>2. CASE /\ cache[c][u] = NoDek /\ u < len /\ k = keys[u]
           /\ c \in readers \/ made[k] \in released[c]
  <2>1. k <= gen /\ made[k] <= u
    BY <1>0, <1>2 DEF HistoryOK, MadeOK
  <2>2. made[k] < len
    BY <1>0, <1>2, <2>1, Values
  <2>3. QED
    BY <1>0, <1>2, <2>1, <2>2 DEF RemovedOK, Labelled
<1>3. QED
  BY <1>1, <1>2 DEF Resolves

(* Getting the key of a version: what is cached, known and released. *)
LEMMA PutIInv ==
  ASSUME IInv, NEW c \in Client, NEW u \in Version, NEW k \in Dek, resolveDEK(c, u, k),
         UNCHANGED <<chainVars, owner, made, gen, meta, rot, faults>>
  PROVE  /\ cache' \in [Client -> [Version -> Dek \cup {NoDek}]]
         /\ known' \in [Client -> SUBSET Dek]
         /\ released' \in [Client -> SUBSET Version]
         /\ HistoryOK' /\ MadeOK' /\ RotationsOK' /\ CacheOK' /\ KnownOK' /\ ReleasedOK'
         /\ RemovedOK'
<1>0. TypeOK /\ HistoryOK /\ MadeOK /\ RotationsOK /\ CacheOK /\ KnownOK /\ ReleasedOK /\ RemovedOK
  BY DEF IInv
<1> USE Values, <1>0
<1>1. UNCHANGED <<flag, readers, removed, keys, len, owner, made, gen, rot>>
  BY DEF chainVars
<1>2. /\ cache' \in [Client -> [Version -> Dek \cup {NoDek}]]
      /\ \A d \in Client, v \in Version :
           cache'[d][v] = IF d = c /\ v = u /\ cache[c][u] = NoDek THEN k ELSE cache[d][v]
  BY DEF resolveDEK, putDEK, TypeOK
<1>3. /\ known' \in [Client -> SUBSET Dek]
      /\ \A d \in Client : known'[d] = IF d = c THEN known[d] \cup {k} ELSE known[d]
  BY DEF resolveDEK, putDEK, TypeOK
<1>4. /\ released' \in [Client -> SUBSET Version]
      /\ \A d \in Client : released'[d] = IF d = c /\ cache[c][u] = NoDek
                                         THEN released[d] \cup {made[k]} ELSE released[d]
  BY DEF resolveDEK, TypeOK
<1>5. /\ Labelled(c, u, k)
      /\ cache[c][u] = NoDek => made[k] < len /\ (removed[c] = 0 \/ made[k] \in released[c])
      /\ cache[c][u] # NoDek => k \in known[c]
  BY ResolvesLabelled DEF resolveDEK
<1>6. HistoryOK' /\ MadeOK' /\ RotationsOK' /\ RemovedOK'
  BY <1>1 DEF HistoryOK, MadeOK, RotationsOK, RemovedOK
<1>7. CacheOK'
  BY <1>1, <1>2, <1>3, <1>5 DEF CacheOK, Labelled
<1>8. KnownOK'
  BY <1>1, <1>3, <1>4, <1>5 DEF KnownOK, Labelled
<1>9. ReleasedOK'
  BY <1>1, <1>4, <1>5 DEF ReleasedOK
<1>10. QED
  BY <1>2, <1>3, <1>4, <1>6, <1>7, <1>8, <1>9

(* A message is sealed with the key its version resolves to. *)
LEMMA SealIInv ==
  ASSUME IInv, NEW c \in Client, SealAndPost(c)
  PROVE  IInv'
<1> DEFINE u == snd[c].ver
           M(k) == [from |-> c, ver |-> u, dek |-> k, wrap |-> snd[c].wrap,
                    n |-> Cardinality(msgs) + 1]
<1>0. TypeOK /\ MessagesOK
  BY DEF IInv
<1>1. PICK k \in Dek : resolveDEK(c, u, k) /\ msgs' = msgs \cup {M(k)}
  BY DEF SealAndPost
<1>2. /\ snd' = [snd EXCEPT ![c] = NoSnd]
      /\ UNCHANGED <<chainVars, owner, made, gen, meta, rot, seen, faults>>
      /\ Cardinality(msgs) < MaxMessages
  BY DEF SealAndPost
<1>3. u \in Version /\ u < len /\ snd[c].wrap \in Wrap
  BY <1>0, Values DEF MessagesOK
<1>4. Labelled(c, u, k)
  BY <1>1, <1>3, ResolvesLabelled DEF resolveDEK
<1>5. /\ cache' \in [Client -> [Version -> Dek \cup {NoDek}]]
      /\ known' \in [Client -> SUBSET Dek]
      /\ released' \in [Client -> SUBSET Version]
      /\ HistoryOK' /\ MadeOK' /\ RotationsOK' /\ CacheOK' /\ KnownOK' /\ ReleasedOK'
      /\ RemovedOK'
  BY <1>1, <1>2, <1>3, PutIInv
<1>6. Cardinality(msgs) + 1 \in 1..MaxMessages
  BY <1>0, <1>2, FS_CardinalityType, KeysAssumption DEF MessagesOK
<1>7. M(k) \in Message
  BY <1>3, <1>6 DEF Message
<1>8. /\ snd' \in [Client -> [st : {"none", "routed"}, ver : Version, wrap : Wrap]]
      /\ \A d \in Client : snd'[d].ver \in {snd[d].ver, 0}
  <2>1. 0 \in Version /\ "dek" \in Wrap
    BY KeysAssumption DEF Version, Wrap
  <2>2. QED
    BY <1>0, <1>2, <2>1 DEF TypeOK, NoSnd
<1>9. UNCHANGED <<flag, readers, removed, keys, len, owner, made, gen, meta, rot, seen, faults>>
  BY <1>2 DEF chainVars
<1>10. msgs' \subseteq Message
  BY <1>0, <1>1, <1>7 DEF TypeOK
<1>11. TypeOK'
  BY <1>0, <1>5, <1>8, <1>9, <1>10 DEF TypeOK
<1>12. MessagesOK'
  <2>1. IsFiniteSet(msgs')
    BY <1>0, <1>1, FS_AddElement DEF MessagesOK
  <2>2. \A d \in Client : snd'[d].ver < len
    BY <1>0, <1>8, Values DEF MessagesOK
  <2>3. M(k).from = c /\ M(k).ver = u /\ M(k).dek = k
    OBVIOUS
  <2>4. \A m \in msgs' : m.ver < len /\ Labelled(m.from, m.ver, m.dek)
    BY <1>0, <1>1, <1>3, <1>4, <2>3 DEF MessagesOK
  <2>5. QED
    BY <1>9, <2>1, <2>2, <2>4 DEF MessagesOK, Labelled
<1>13. QED
  BY <1>5, <1>11, <1>12 DEF IInv

(* Reading caches what a version resolves to. *)
LEMMA DecryptIInv ==
  ASSUME IInv, NEW c \in Client, NEW m \in msgs, decryptMessage(c, m)
  PROVE  IInv'
<1>0. TypeOK /\ MessagesOK
  BY DEF IInv
<1>1. PICK k \in Dek : /\ resolveDEK(c, m.ver, k)
                       /\ seen' = IF k = m.dek THEN [seen EXCEPT ![c] = @ \cup {m}] ELSE seen
  BY DEF decryptMessage
<1>2. UNCHANGED <<chainVars, owner, made, gen, meta, rot, snd, msgs, faults>>
  BY DEF decryptMessage
<1>3. m \in Message /\ m.ver \in Version
  BY <1>0, Values DEF TypeOK
<1>4. /\ cache' \in [Client -> [Version -> Dek \cup {NoDek}]]
      /\ known' \in [Client -> SUBSET Dek]
      /\ released' \in [Client -> SUBSET Version]
      /\ HistoryOK' /\ MadeOK' /\ RotationsOK' /\ CacheOK' /\ KnownOK' /\ ReleasedOK'
      /\ RemovedOK'
  BY <1>1, <1>2, <1>3, PutIInv
<1>5. seen' \in [Client -> SUBSET Message]
  BY <1>0, <1>1, <1>3 DEF TypeOK
<1>6. UNCHANGED <<flag, readers, removed, keys, len, owner, made, gen, meta, rot, snd, msgs,
                  faults>>
  BY <1>2 DEF chainVars
<1>7. TypeOK'
  BY <1>0, <1>4, <1>5, <1>6 DEF TypeOK
<1>8. MessagesOK'
  BY <1>0, <1>6 DEF MessagesOK, Labelled
<1>9. QED
  BY <1>4, <1>7, <1>8 DEF IInv

(* Dropping cached keys loses nothing that is known. *)
LEMMA DropIInv ==
  ASSUME IInv, NEW c \in Client, (\E v \in Version : Expire(c, v)) \/ RoomRefused(c)
  PROVE  IInv'
<1>0. TypeOK /\ CacheOK /\ RotationsOK
  BY DEF IInv
<1>1. UNCHANGED <<flag, readers, removed, keys, len, owner, made, gen, released, known, meta,
                  rot, snd, msgs, seen, faults>>
  BY DEF Expire, RoomRefused, chainVars
<1>2. /\ cache' \in [Client -> [Version -> Dek \cup {NoDek}]]
      /\ \A d \in Client, u \in Version : cache'[d][u] = cache[d][u] \/ cache'[d][u] = NoDek
  <2>1. CASE \E v \in Version : Expire(c, v)
    BY <1>0, <2>1 DEF Expire, TypeOK
  <2>2. CASE RoomRefused(c)
    BY <1>0, <2>2 DEF RoomRefused, TypeOK
  <2>3. QED
    BY <2>1, <2>2
<1>3. TypeOK'
  BY <1>0, <1>1, <1>2 DEF TypeOK
<1>4. CacheOK'
  BY <1>0, <1>1, <1>2 DEF CacheOK, Labelled
<1>5. RotationsOK'
  BY <1>0, <1>1, <1>2 DEF RotationsOK, Dek, NoDek
<1>6. QED
  BY <1>1, <1>3, <1>4, <1>5
     DEF IInv, HistoryOK, MadeOK, KnownOK, ReleasedOK, RemovedOK, MessagesOK, Labelled

(* Every step keeps the invariant. *)
LEMMA NextIInv == IInv /\ [Next]_vars => IInv'
<1> SUFFICES ASSUME IInv, [Next]_vars PROVE IInv'
  OBVIOUS
<1>1. CASE UNCHANGED vars
  BY <1>1 DEF vars, IInv, TypeOK, HistoryOK, MadeOK, RotationsOK, CacheOK, KnownOK,
              ReleasedOK, RemovedOK, MessagesOK, Labelled
<1>2. ASSUME NEW c \in Client,
             \E out \in SUBSET (readers \ {c}) : generateRotationDEK(c, out)
      PROVE  IInv'
  BY <1>2, GenerateIInv
<1>3. ASSUME NEW c \in Client, rotate_encryption_key(c) \/ RotationFails(c)
      PROVE  IInv'
  BY <1>3, RotateIInv, RotationFailsIInv
<1>4. ASSUME NEW c \in Client, leave(c) \/ grant(c)
      PROVE  IInv'
  BY <1>4, MembersIInv
<1>5. ASSUME NEW c \in Client, sendMessage(c) \/ SealAndPost(c) \/ SendFails(c)
      PROVE  IInv'
  BY <1>5, SendIInv, SealIInv
<1>6. ASSUME NEW c \in Client, \E m \in msgs : decryptMessage(c, m)
      PROVE  IInv'
  BY <1>6, DecryptIInv
<1>7. ASSUME NEW c \in Client, (\E v \in Version : Expire(c, v)) \/ RoomRefused(c)
      PROVE  IInv'
  BY <1>7, DropIInv
<1>8. QED
  BY <1>1, <1>2, <1>3, <1>4, <1>5, <1>6, <1>7 DEF Next

(* The invariant holds throughout. *)
THEOREM Invariance == Spec => []IInv
  BY InitIInv, NextIInv, PTL DEF Spec

(* Every stored message was sealed with the key the chain has for its      *)
(* label or with one its own sender generated (sendMessage after a         *)
(* rotation that failed or landed elsewhere), and the state is well typed. *)
THEOREM SealedTheorem == Spec => []SealedWithKnownKey
<1>1. IInv => SealedWithKnownKey
  BY DEF IInv, MessagesOK, Labelled, SealedWithKnownKey
<1>2. QED
  BY <1>1, Invariance, PTL

(* removeMembersAndRotateKey locks out: a removed client cannot obtain the *)
(* key of another client's message labelled with a version from its        *)
(* removal on, unless that key is encrypted to an identity from before the *)
(* removal which the client was given.                                     *)
THEOREM LockoutTheorem == Spec => []RemovedLockedOut
<1>1. IInv => RemovedLockedOut
  <2> SUFFICES ASSUME IInv, NEW c \in Client, NEW m \in msgs, removed[c] # 0,
                      m.ver >= removed[c], m.from # c, m.dek \in Obtainable(c)
               PROVE  made[m.dek] < removed[c] /\ made[m.dek] \in released[c]
    BY DEF RemovedLockedOut
  <2>0. TypeOK /\ KnownOK /\ ReleasedOK /\ RemovedOK /\ MessagesOK
    BY DEF IInv
  <2> USE Values, <2>0
  <2>1. m.ver \in Version /\ m.ver < len /\ Labelled(m.from, m.ver, m.dek)
    BY DEF MessagesOK
  <2>2. owner[m.dek] # c
    BY <2>1 DEF Labelled, RemovedOK
  <2>3. made[m.dek] \in released[c]
    BY <2>2 DEF KnownOK, Obtainable
  <2>4. QED
    BY <2>3 DEF ReleasedOK
<1>2. QED
  BY <1>1, Invariance, PTL
=============================================================================
