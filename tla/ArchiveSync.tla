----------------------------- MODULE ArchiveSync -----------------------------
(***************************************************************************)
(* The archival life cycle of message rows: the relayer's handlers create, *)
(* edit, delete and confirm rows while ArchiveSyncService copies them, one *)
(* status after the other, to the R2 object store and its index.           *)
(*                                                                         *)
(* A row's content is a version number: 1 when it is stored, one more for  *)
(* every edit or metadata patch.  Rows outlive a crash of the relayer; the *)
(* worker's progress does not.  Why the status of a payment row changes is *)
(* the module Payments; here it may change whenever the code allows it.    *)
(***************************************************************************)
EXTENDS Naturals, FiniteSets, FiniteSetsExt

CONSTANTS
  Message,     \* ids of the rows users create
  Text,        \* those of kind text
  Request,     \* payment requests; the others are token transfers
  BatchSize,   \* ARCHIVE sync batch size, after the cap of the backend
  MaxOps,      \* bound: edits, deletions and metadata patches
  MaxFaults    \* bound: failed requests and crashes

ASSUME ArchiveAssumption ==
  /\ Text \subseteq Message
  /\ Request \subseteq Message \ Text
  /\ BatchSize \in Nat \ {0}
  /\ MaxOps \in Nat
  /\ MaxFaults \in Nat

VARIABLES
  status,   \* status[m]: sync_status, "NONE" before the row exists
  version,  \* version[m]: content of the row, 0 before it exists
  payment,  \* payment[m]: status in the row's metadata, "NONE" for text
  object,   \* object[m]: what the object store holds under the row's key
  index,    \* index[m]: sync_status in archive_messages, "NONE" if no row
  pass,     \* the worker's position: 0 idle, else which sync_* call it is in
  batch,    \* batch[m]: version of m read by the current call, for its rows
  put,      \* the row whose object was written and index row was not, if any
  stored,   \* rows of the batch in the results of store_batch
  marking,  \* store_batch has returned
  ops,      \* edits, deletions and patches so far
  faults,   \* faults so far
  raced,    \* history: m was changed between its last read by the worker and
            \* the end of that call
  removed,  \* history: the last operation of its sender on m deleted it
  undone,   \* history: the worker replaced the status of that deletion
  patched   \* history: the metadata of m changed while it was DELETED and
            \* the worker has not read m since

rowVars == <<status, version, payment>>
archiveVars == <<object, index>>
workerVars == <<pass, batch, put, stored, marking>>
historyVars == <<raced, removed, undone, patched>>
vars == <<rowVars, archiveVars, workerVars, ops, faults, historyVars>>

MaxVersion == MaxOps + 1

Pending == {"SYNC_PENDING", "UPDATE_PENDING", "DELETE_PENDING"}
Settled == {"SYNCED", "UPDATED", "DELETED"}
SyncStatus == Pending \union Settled
Transfer == Message \ (Text \union Request)

(* The metadata statuses callers of update_message_metadata_trusted go from *)
(* and to: a verdict on a transfer; paying, rejecting or cancelling a       *)
(* request, and reopening one whose transfer failed.                        *)
InitialPayment(m) ==
  IF m \in Transfer THEN "pending" ELSE IF m \in Request THEN "open" ELSE "NONE"
PaymentStep ==
  {<<"pending", "resolved">>, <<"open", "paid">>, <<"paid", "open">>, <<"open", "closed">>}
PaymentStatus == {"NONE", "pending", "resolved", "open", "paid", "closed"}

NoObject == [version |-> 0, status |-> "NONE"]
Object == [version : 1..MaxVersion, status : Settled]

(* What each of the three calls of a cycle looks for and turns it into. *)
From == <<"SYNC_PENDING", "UPDATE_PENDING", "DELETE_PENDING">>
To == <<"SYNCED", "UPDATED", "DELETED">>

Row == {m \in Message : status[m] # "NONE"}
Batch == DOMAIN batch
NoBatch == [m \in {} |-> 0]

TypeOK ==
  /\ status \in [Message -> SyncStatus \union {"NONE"}]
  /\ version \in [Message -> 0..MaxVersion]
  /\ payment \in [Message -> PaymentStatus]
  /\ object \in [Message -> Object \union {NoObject}]
  /\ index \in [Message -> Settled \union {"NONE"}]
  /\ pass \in 0..3
  /\ Batch \subseteq Message
  /\ \A m \in Batch : batch[m] \in 1..MaxVersion
  /\ put \subseteq Batch /\ Cardinality(put) <= 1
  /\ stored \subseteq Batch
  /\ marking \in BOOLEAN
  /\ ops \in 0..MaxOps
  /\ faults \in 0..MaxFaults
  /\ raced \subseteq Message
  /\ removed \subseteq Message
  /\ undone \subseteq Message
  /\ patched \subseteq Message

Init ==
  /\ status = [m \in Message |-> "NONE"]
  /\ version = [m \in Message |-> 0]
  /\ payment = [m \in Message |-> "NONE"]
  /\ object = [m \in Message |-> NoObject]
  /\ index = [m \in Message |-> "NONE"]
  /\ pass = 0
  /\ batch = NoBatch
  /\ put = {}
  /\ stored = {}
  /\ marking = FALSE
  /\ ops = 0
  /\ faults = 0
  /\ raced = {}
  /\ removed = {}
  /\ undone = {}
  /\ patched = {}

-----------------------------------------------------------------------------
(* The handlers.  Kind, sender and group never change, so what a handler   *)
(* checks on the row it read still holds when it writes.                   *)

create_message(m) ==
  /\ status[m] = "NONE"
  /\ status' = [status EXCEPT ![m] = "SYNC_PENDING"]
  /\ version' = [version EXCEPT ![m] = 1]
  /\ payment' = [payment EXCEPT ![m] = InitialPayment(m)]
  /\ UNCHANGED <<archiveVars, workerVars, ops, faults, historyVars>>

(* The worker has read m and may still write its status. *)
InFlight(m) == m \in Batch /\ (marking => m \in stored)

Operation(m) ==
  /\ ops < MaxOps
  /\ ops' = ops + 1
  /\ raced' = IF InFlight(m) THEN raced \union {m} ELSE raced

(* An edit takes the row to UPDATE_PENDING from any status.  Payment kinds *)
(* are immutable.                                                          *)
update_message(m) ==
  /\ m \in Row \intersect Text
  /\ Operation(m)
  /\ version' = [version EXCEPT ![m] = @ + 1]
  /\ status' = [status EXCEPT ![m] = "UPDATE_PENDING"]
  /\ removed' = removed \ {m}
  /\ UNCHANGED <<payment, archiveVars, workerVars, faults, undone, patched>>

(* A transfer is never deleted.  A request is unless the handler read it   *)
(* paid, which it need not be any more, or not yet, when the handler       *)
(* writes; so the write can find it in any state.                          *)
delete_message(m) ==
  /\ m \in Row \ Transfer
  /\ Operation(m)
  /\ status' = [status EXCEPT ![m] = "DELETE_PENDING"]
  /\ removed' = removed \union {m}
  /\ undone' = undone \ {m}
  /\ UNCHANGED <<version, payment, archiveVars, workerVars, faults, patched>>

(* Mutant: no new upload is asked for. *)
RearchivedNever(s) == s

(* The metadata of a payment row changes, deleted or not, and asks for a   *)
(* new upload only if the row had been uploaded and is not deleted.        *)
Rearchived(s) == IF s \in {"SYNCED", "UPDATED"} THEN "UPDATE_PENDING" ELSE s

update_message_metadata_trusted(m) ==
  /\ m \in Row \ Text
  /\ Operation(m)
  /\ \E to \in PaymentStatus :
       /\ <<payment[m], to>> \in PaymentStep
       /\ payment' = [payment EXCEPT ![m] = to]
  /\ version' = [version EXCEPT ![m] = @ + 1]
  /\ status' = [status EXCEPT ![m] = Rearchived(@)]
  /\ patched' = IF status[m] = "DELETED" THEN patched \union {m} ELSE patched
  /\ UNCHANGED <<archiveVars, workerVars, faults, removed, undone>>

-----------------------------------------------------------------------------
(* The worker.  One cycle makes the three calls in order, whatever becomes *)
(* of each.                                                                *)

run ==
  /\ pass = 0
  /\ pass' = 1
  /\ UNCHANGED <<rowVars, archiveVars, batch, put, stored, marking, ops, faults, historyVars>>

(* Mutant: a cycle ends after the second call. *)
NextCallSkipsDeleted ==
  /\ pass' = (pass + 1) % 3
  /\ batch' = NoBatch
  /\ put' = {}
  /\ stored' = {}
  /\ marking' = FALSE

NextCall ==
  /\ pass' = (pass + 1) % 4
  /\ batch' = NoBatch
  /\ put' = {}
  /\ stored' = {}
  /\ marking' = FALSE

(* The query has a limit and no order: any BatchSize matching rows. *)
get_messages_by_sync_status ==
  LET found == {m \in Message : status[m] = From[pass]} IN
  /\ pass # 0 /\ Batch = {} /\ found # {}
  /\ \E rows \in kSubset(Min({BatchSize, Cardinality(found)}), found) :
       /\ batch' = [m \in rows |-> version[m]]
       /\ raced' = raced \ rows
       /\ patched' = patched \ rows
  /\ UNCHANGED <<rowVars, archiveVars, pass, put, stored, marking, ops, faults, removed, undone>>

NothingToSync ==
  /\ pass # 0 /\ Batch = {}
  /\ \A m \in Message : status[m] # From[pass]
  /\ NextCall
  /\ UNCHANGED <<rowVars, archiveVars, ops, faults, historyVars>>

(* store_batch writes one row after the other: its object, then its index  *)
(* row.                                                                    *)
put_object(m) ==
  /\ m \in Batch \ stored
  /\ put = {} /\ ~marking
  /\ object' = [object EXCEPT ![m] = [version |-> batch[m], status |-> To[pass]]]
  /\ put' = {m}
  /\ UNCHANGED <<rowVars, index, pass, batch, stored, marking, ops, faults, historyVars>>

upsert(m) ==
  /\ m \in put
  /\ index' = [index EXCEPT ![m] = To[pass]]
  /\ put' = {}
  /\ stored' = stored \union {m}
  /\ marking' = (stored' = Batch)
  /\ UNCHANGED <<rowVars, object, pass, batch, ops, faults, historyVars>>

(* The statuses are written back one by one, without looking at what the   *)
(* row has become.                                                         *)
Finish(m) ==
  IF stored = {m}
    THEN NextCall
    ELSE /\ stored' = stored \ {m}
         /\ UNCHANGED <<pass, batch, put, marking>>

update_sync_status(m) ==
  /\ marking /\ m \in stored
  /\ status' = [status EXCEPT ![m] = To[pass]]
  /\ undone' = IF status[m] = "DELETE_PENDING" /\ pass # 3 THEN undone \union {m} ELSE undone
  /\ Finish(m)
  /\ UNCHANGED <<version, payment, archiveVars, ops, faults, raced, removed, patched>>

Fault ==
  /\ faults < MaxFaults
  /\ faults' = faults + 1

(* Mutant: the rows of a failed call are queued again as if new. *)
CallFailsRequeued ==
  /\ pass # 0 /\ ~marking
  /\ Fault
  /\ NextCall
  /\ status' = [m \in Message |-> IF m \in Batch THEN "SYNC_PENDING" ELSE status[m]]
  /\ UNCHANGED <<version, payment, archiveVars, ops, historyVars>>

(* A read, an upload or an index write fails: the call returns the error   *)
(* and no status of the batch is written.                                  *)
CallFails ==
  /\ pass # 0 /\ ~marking
  /\ Fault
  /\ NextCall
  /\ UNCHANGED <<rowVars, archiveVars, ops, historyVars>>

(* A status write fails: logged, and the loop goes on. *)
StatusWriteFails(m) ==
  /\ marking /\ m \in stored
  /\ Fault
  /\ Finish(m)
  /\ UNCHANGED <<rowVars, archiveVars, ops, historyVars>>

(* The relayer restarts; the worker begins a new cycle. *)
Crash ==
  /\ Fault
  /\ pass' = 0
  /\ batch' = NoBatch
  /\ put' = {}
  /\ stored' = {}
  /\ marking' = FALSE
  /\ UNCHANGED <<rowVars, archiveVars, ops, historyVars>>

-----------------------------------------------------------------------------
Handler ==
  \E m \in Message :
    \/ create_message(m)
    \/ update_message(m)
    \/ delete_message(m)
    \/ update_message_metadata_trusted(m)

Worker ==
  \/ run
  \/ get_messages_by_sync_status
  \/ NothingToSync
  \/ \E m \in Message : put_object(m) \/ upsert(m) \/ update_sync_status(m)

Failure ==
  \/ CallFails
  \/ \E m \in Message : StatusWriteFails(m)
  \/ Crash

Next == Handler \/ Worker \/ Failure

(* The worker's loop never ends and its timer always fires again. *)
Spec == Init /\ [][Next]_vars /\ WF_vars(Worker)

-----------------------------------------------------------------------------
(* The state is well typed, and                                            *)
(* a row whose status says it is archived is in the object store and in    *)
(* the index under that status, so that readers of the archive see it or   *)
(* do not, unless it was changed while sync_messages was uploading it.  Its *)
(* object also holds its current content, edits and payment status         *)
(* included; the one exception is a deleted payment request that is paid,  *)
(* reopened, rejected or cancelled after its tombstone was archived.       *)
ArchiveCurrent ==
  /\ TypeOK
  /\ \A m \in Message \ raced :
       status[m] \in Settled =>
         /\ object[m].status = status[m]
         /\ index[m] = status[m]
         /\ m \notin patched => object[m].version = version[m]

(* Every pending row is archived: failed uploads, failed status writes and *)
(* restarts of the relayer only delay it.                                  *)
EventuallyArchived ==
  \A m \in Message : status[m] \in Pending ~> status[m] \in Settled

(* What its sender deleted stays deleted for readers (is_deleted) through  *)
(* later passes, failed writes, restarts and payments of a deleted request, *)
(* until she edits it; excepted is a deletion that the unconditional write *)
(* of sync_messages replaced, having read the row before.                  *)
DeletedStaysDeleted ==
  \A m \in removed \ undone : status[m] \in {"DELETE_PENDING", "DELETED"}
=============================================================================
