----------------------------- MODULE GroupKeys -----------------------------
(***************************************************************************)
(* The data encryption keys of one group: the key history and the readers  *)
(* on chain, each client's cache of decrypted keys, and the operations     *)
(* that read a version, await, and use it afterwards (rotating, removing   *)
(* members, sending, reading).                                             *)
(*                                                                         *)
(* A key is a number; owner[k] is the client that generated it.  Its blob  *)
(* on chain is encrypted to an identity, the group and the version its     *)
(* maker expected: made[k].  The key servers approve and release by that   *)
(* identity, not by the place of the blob in the history.  A message       *)
(* carries the version it is labelled with and the key it was really       *)
(* sealed with.                                                            *)
(***************************************************************************)
EXTENDS Naturals, FiniteSets

CONSTANTS
    Flags,        \* values of the group's e2ee flag: "v2", "mls1"
    Client,       \* the clients of the group's members
    Creator,      \* the client that created the group
    MaxKeys,      \* bound: versions of the key
    MaxDeks,      \* bound: keys ever generated
    MaxMessages,  \* bound: messages posted
    MaxFaults     \* bound: lost transactions and unreachable nodes

ASSUME KeysAssumption ==
    /\ Flags \subseteq {"v2", "mls1"}
    /\ Creator \in Client
    /\ MaxKeys \in Nat \ {0}
    /\ MaxDeks \in Nat \ {0}
    /\ MaxMessages \in Nat
    /\ MaxFaults \in Nat

VARIABLES
    flag,     \* e2ee of the group's metadata: "v2" or "mls1"
    readers,  \* clients with MessagingReader (and the other permissions)
    removed,  \* version from which a removed client is locked out; 0: it is not
    keys,     \* encrypted_keys: the key of each version
    len,      \* their number
    owner,    \* who generated each key
    made,     \* the version in the identity each key is encrypted to
    gen,      \* keys generated so far
    cache,    \* dekCache of each client
    released, \* identities the key servers have released to each client
    known,    \* history: every key a client has held
    meta,     \* clients that have cached the group's metadata
    rot,      \* the rotation a client has under way
    snd,      \* the send a client has under way
    msgs,     \* the messages the relayer stores
    seen,     \* messages each client has decrypted
    faults    \* faults so far

vars == <<flag, readers, removed, keys, len, owner, made, gen, cache, released,
          known, meta, rot, snd, msgs, seen, faults>>

chainVars == <<flag, readers, removed, keys, len>>

Version == 0..MaxKeys - 1
Dek     == 1..MaxDeks
NoDek   == 0
NoOne   == "no one"

NoRot == [st |-> "none", ver |-> 0, dek |-> NoDek, out |-> {}]
NoSnd == [st |-> "none", ver |-> 0, wrap |-> "dek"]

Wrap == {"dek", "mls"}
Message == [from : Client, ver : Version, dek : Dek, wrap : Wrap, n : 1..MaxMessages]

TypeOK ==
    /\ flag \in Flags
    /\ readers \subseteq Client
    /\ removed \in [Client -> 0..MaxKeys - 1]
    /\ keys \in [Version -> Dek \cup {NoDek}]
    /\ len \in 1..MaxKeys
    /\ \A v \in Version : keys[v] # NoDek <=> v < len
    /\ owner \in [Dek -> Client \cup {NoOne}]
    /\ made \in [Dek -> Version]
    /\ gen \in 1..MaxDeks
    /\ released \in [Client -> SUBSET Version]
    /\ cache \in [Client -> [Version -> Dek \cup {NoDek}]]
    /\ known \in [Client -> SUBSET Dek]
    /\ meta \subseteq Client
    /\ rot \in [Client -> [st : {"none", "signing"}, ver : 0..MaxKeys,
                           dek : Dek \cup {NoDek}, out : SUBSET Client]]
    /\ snd \in [Client -> [st : {"none", "routed"}, ver : Version, wrap : Wrap]]
    /\ msgs \subseteq Message
    /\ seen \in [Client -> SUBSET Message]
    /\ faults \in 0..MaxFaults

\* generateGroupDEK has put the first key into the creator's cache.
Init ==
    /\ flag \in Flags
    /\ readers = Client
    /\ removed = [c \in Client |-> 0]
    /\ keys = [v \in Version |-> IF v = 0 THEN 1 ELSE NoDek]
    /\ len = 1
    /\ owner = [k \in Dek |-> IF k = 1 THEN Creator ELSE NoOne]
    /\ made = [k \in Dek |-> 0]
    /\ gen = 1
    /\ released = [c \in Client |-> {}]
    /\ cache = [c \in Client |-> [v \in Version |->
                  IF c = Creator /\ v = 0 THEN 1 ELSE NoDek]]
    /\ known = [c \in Client |-> IF c = Creator THEN {1} ELSE {}]
    /\ meta = {}
    /\ rot = [c \in Client |-> NoRot]
    /\ snd = [c \in Client |-> NoSnd]
    /\ msgs = {}
    /\ seen = [c \in Client |-> {}]
    /\ faults = 0

Fault == faults < MaxFaults /\ faults' = faults + 1

(***************************************************************************)
(* The cache.                                                              *)
(***************************************************************************)

\* readSync does not replace a value that is there.
putDEK(c, v, k) ==
    /\ cache' = [cache EXCEPT ![c][v] = IF @ = NoDek THEN k ELSE @]
    /\ known' = [known EXCEPT ![c] = @ \cup {k}]

\* Mutant: the latest key is taken for every version.
ResolvesCurrent(c, v, k) ==
    \/ cache[c][v] # NoDek /\ k = cache[c][v]
    \/ /\ cache[c][v] = NoDek /\ v < len /\ k = keys[len - 1]
       /\ c \in readers \/ made[k] \in released[c]

\* The key a client gets for a version: the cached one, else that of the
\* chain, decrypted under the identity in its blob.  The servers release an
\* identity to a present reader; a client that was given it keeps it.
\* (The policy also asks for a version the history has reached, which a key
\* on chain always has: see MadeOK in GroupKeysProofs.)
Resolves(c, v, k) ==
    \/ cache[c][v] # NoDek /\ k = cache[c][v]
    \/ /\ cache[c][v] = NoDek /\ v < len /\ k = keys[v]
       /\ c \in readers \/ made[k] \in released[c]

\* #resolveDEK: resolved, cached, and its identity released if it was asked for.
resolveDEK(c, v, k) ==
    /\ Resolves(c, v, k)
    /\ putDEK(c, v, k)
    /\ released' = IF cache[c][v] = NoDek
                   THEN [released EXCEPT ![c] = @ \cup {made[k]}] ELSE released

\* Mutant: the entry of the current version does not expire.
ExpireOld(c, v) ==
    /\ cache[c][v] # NoDek
    /\ v < len - 1
    /\ cache' = [cache EXCEPT ![c][v] = NoDek]
    /\ UNCHANGED <<chainVars, owner, made, gen, released, known, meta, rot, snd, msgs,
                   seen, faults>>

\* An entry's time to live is over.
Expire(c, v) ==
    /\ cache[c][v] # NoDek
    /\ cache' = [cache EXCEPT ![c][v] = NoDek]
    /\ UNCHANGED <<chainVars, owner, made, gen, released, known, meta, rot, snd, msgs,
                   seen, faults>>

\* getRoomMessages finds the permission gone.
RoomRefused(c) ==
    /\ c \notin readers
    /\ cache' = [cache EXCEPT ![c] = [v \in Version |-> NoDek]]
    /\ UNCHANGED <<chainVars, owner, made, gen, released, known, meta, rot, snd, msgs,
                   seen, faults>>

(***************************************************************************)
(* Rotating and removing.                                                  *)
(***************************************************************************)

\* rotateEncryptionKey, or removeMembersAndRotateKey with members out: the
\* version is read, a key made for the next one and put into the cache, and
\* the transaction is built.
generateRotationDEK(c, out) ==
    /\ c \in readers
    /\ rot[c].st = "none"
    /\ gen < MaxDeks /\ len < MaxKeys
    /\ gen' = gen + 1
    /\ owner' = [owner EXCEPT ![gen + 1] = c]
    /\ made' = [made EXCEPT ![gen + 1] = len]
    /\ putDEK(c, len, gen + 1)
    /\ rot' = [rot EXCEPT ![c] = [st |-> "signing", ver |-> len, dek |-> gen + 1,
                                  out |-> out]]
    /\ UNCHANGED <<chainVars, released, meta, snd, msgs, seen, faults>>

\* Mutant: the key is appended and the members stay.
rotate_only(c) ==
    /\ rot[c].st = "signing"
    /\ c \in readers
    /\ rot[c].out \subseteq readers
    /\ len < MaxKeys
    /\ keys' = [keys EXCEPT ![len] = rot[c].dek]
    /\ len' = len + 1
    /\ removed' = [d \in Client |-> IF d \in rot[c].out THEN len ELSE removed[d]]
    /\ rot' = [rot EXCEPT ![c] = NoRot]
    /\ UNCHANGED <<flag, readers, owner, made, gen, cache, released, known, meta, snd,
                   msgs, seen, faults>>

\* The transaction is executed: the members go and the key is appended, at
\* whatever version the history has reached.
rotate_encryption_key(c) ==
    /\ rot[c].st = "signing"
    /\ c \in readers
    /\ rot[c].out \subseteq readers
    /\ len < MaxKeys
    /\ keys' = [keys EXCEPT ![len] = rot[c].dek]
    /\ len' = len + 1
    /\ readers' = readers \ rot[c].out
    /\ removed' = [d \in Client |-> IF d \in rot[c].out THEN len ELSE removed[d]]
    /\ rot' = [rot EXCEPT ![c] = NoRot]
    /\ UNCHANGED <<flag, owner, made, gen, cache, released, known, meta, snd, msgs,
                   seen, faults>>

\* It aborts, or is not signed, paid for or delivered.
RotationFails(c) ==
    /\ rot[c].st = "signing"
    /\ c \notin readers \/ ~(rot[c].out \subseteq readers) \/ len = MaxKeys \/ faults < MaxFaults
    /\ faults' = IF c \in readers /\ rot[c].out \subseteq readers /\ len < MaxKeys
                 THEN faults + 1 ELSE faults
    /\ rot' = [rot EXCEPT ![c] = NoRot]
    /\ UNCHANGED <<chainVars, owner, made, gen, cache, released, known, meta, snd, msgs,
                   seen>>

\* A member leaves; the key stays.
leave(c) ==
    /\ c \in readers \ {Creator}
    /\ readers' = readers \ {c}
    /\ UNCHANGED <<flag, removed, keys, len, owner, made, gen, cache, released, known,
                   meta, rot, snd, msgs, seen, faults>>

\* A former member is added again.
grant(c) ==
    /\ c \notin readers
    /\ readers' = readers \cup {c}
    /\ removed' = [removed EXCEPT ![c] = 0]
    /\ UNCHANGED <<flag, keys, len, owner, made, gen, cache, released, known, meta,
                   rot, snd, msgs, seen, faults>>

(***************************************************************************)
(* Sending.                                                                *)
(***************************************************************************)

\* writesContentEnvelopeV2: the metadata is cached once it was read; if it
\* cannot be read the answer is no, and the message goes the v1 way.
RoutesV2(c, yes) ==
    \/ yes /\ meta' = meta \cup {c} /\ UNCHANGED faults
    \/ ~yes /\ c \notin meta /\ Fault /\ UNCHANGED meta

\* sendMessage picks the way and reads the current key version.
sendMessage(c) ==
    /\ snd[c].st = "none"
    /\ Cardinality(msgs) < MaxMessages
    /\ \E yes \in BOOLEAN :
          /\ RoutesV2(c, yes)
          /\ snd' = [snd EXCEPT ![c] =
                [NoSnd EXCEPT !.st = "routed", !.ver = len - 1,
                              !.wrap = IF yes /\ flag = "mls1" THEN "mls" ELSE "dek"]]
    /\ UNCHANGED <<chainVars, owner, made, gen, cache, released, known, rot, msgs, seen>>

\* It is sealed with the key the cache or the key servers give for that
\* version, and the relayer stores it; its own view of the readers may lag.
\* (The two are one step: nothing a seal reads can change a sealed message.)
SealAndPost(c) ==
    /\ snd[c].st = "routed"
    /\ Cardinality(msgs) < MaxMessages
    /\ \E k \in Dek :
          /\ resolveDEK(c, snd[c].ver, k)
          /\ msgs' = msgs \cup {[from |-> c, ver |-> snd[c].ver, dek |-> k,
                                 wrap |-> snd[c].wrap, n |-> Cardinality(msgs) + 1]}
    /\ snd' = [snd EXCEPT ![c] = NoSnd]
    /\ UNCHANGED <<chainVars, owner, made, gen, meta, rot, seen, faults>>

\* No access to the key, no access to the relayer.
SendFails(c) ==
    /\ c \notin readers \/ Cardinality(msgs) = MaxMessages
    /\ snd[c].st # "none"
    /\ snd' = [snd EXCEPT ![c] = NoSnd]
    /\ UNCHANGED <<chainVars, owner, made, gen, cache, released, known, meta, rot, msgs,
                   seen, faults>>

(***************************************************************************)
(* Reading.                                                                *)
(***************************************************************************)

\* An MLS group is read through its MLS log, which has no v1 rows.
InLog(m) == flag = "mls1" => m.wrap = "mls"

\* A row is decrypted, or skipped when the key is not the one it was sealed
\* with.  The key resolved for it is cached either way.
decryptMessage(c, m) ==
    /\ m \in msgs \ seen[c]
    /\ c \in readers
    /\ InLog(m)
    /\ \E k \in Dek :
          /\ resolveDEK(c, m.ver, k)
          /\ seen' = IF k = m.dek THEN [seen EXCEPT ![c] = @ \cup {m}] ELSE seen
    /\ UNCHANGED <<chainVars, owner, made, gen, meta, rot, snd, msgs, faults>>

Next ==
    \E c \in Client :
       \/ \E out \in SUBSET (readers \ {c}) : generateRotationDEK(c, out)
       \/ rotate_encryption_key(c) \/ RotationFails(c)
       \/ leave(c) \/ grant(c)
       \/ sendMessage(c) \/ SealAndPost(c) \/ SendFails(c)
       \/ \E m \in msgs : decryptMessage(c, m)
       \/ \E v \in Version : Expire(c, v)
       \/ RoomRefused(c)

Fairness ==
    /\ \A c \in Client, v \in Version : WF_vars(Expire(c, v))
    /\ \A c \in Client, n \in 1..MaxMessages :
          SF_vars(\E m \in msgs : m.n = n /\ decryptMessage(c, m) /\ seen' # seen)

Spec == Init /\ [][Next]_vars

LiveSpec == Spec /\ Fairness

(***************************************************************************)
(* Properties.                                                             *)
(***************************************************************************)

\* The state is well typed, and
\* a stored message was sealed with the key the chain has for its version,
\* which every reader can get, or with a key its own sender generated: a
\* rotation that failed or landed at another version and is still cached.
\* No interleaving of rotations, sends, reads and expiries mixes up the keys
\* of two clients.
SealedWithKnownKey ==
    /\ TypeOK
    /\ \A m \in msgs : m.dek = keys[m.ver] \/ owner[m.dek] = m.from

\* What a client holds or can decrypt without asking the key servers again:
\* the keys it has held, and those of the chain under an identity it was given.
Obtainable(c) ==
    known[c] \cup {keys[v] : v \in {u \in Version : u < len /\ made[keys[u]] \in released[c]}}

\* A removed client cannot obtain the key of a message labelled with a
\* version from its removal on, unless it sent the message itself or the key
\* is encrypted to an identity from before the removal which the client was
\* given: the blob of a rotation that another one overtook, see
\* RemovedCannotObtain.  It is what removing and rotating in one transaction
\* is for.
RemovedLockedOut ==
    \A c \in Client, m \in msgs :
       removed[c] # 0 /\ m.ver >= removed[c] /\ m.from # c /\ m.dek \in Obtainable(c) =>
          made[m.dek] < removed[c] /\ made[m.dek] \in released[c]

\* Security.md:72: after rotation a member who has lost MessagingReader
\* cannot obtain the new key, of any version from its removal on.  When
\* another rotation is executed between the read of the version
\* (generateRotationDEK) and the removal, the removal's key lands one version
\* later than the identity it is encrypted to, and that one was released.
RemovedCannotObtain ==
    \A c \in Client, v \in Version :
       removed[c] # 0 /\ removed[c] <= v /\ v < len => keys[v] \notin Obtainable(c)

\* A message sealed with the chain's key is read in the end by every member
\* who stays, even one whose cache holds the key of a failed rotation.
CacheHeals ==
    \A c \in Client, n \in 1..MaxMessages :
       (\E m \in msgs : m.n = n /\ m.dek = keys[m.ver] /\ InLog(m)) ~>
          (\E m \in seen[c] : m.n = n) \/ c \notin readers
=============================================================================
