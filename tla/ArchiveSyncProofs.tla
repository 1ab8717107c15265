-------------------------- MODULE ArchiveSyncProofs --------------------------
(***************************************************************************)
(* Proofs about ArchiveSync for every set of messages, every batch size    *)
(* and every number of operations and faults.                              *)
(*                                                                         *)
(* The worker writes a status without looking at the row.  That is right   *)
(* for a row nobody touched since it was read: such a row still has the    *)
(* status the call looked for and the content it uploads.                  *)
(***************************************************************************)
EXTENDS ArchiveSync, FiniteSetTheorems, TLAPS

(* What the archive holds for m is its version v under the status s. *)
Archived(m, v, s) ==
  /\ object[m] = [version |-> v, status |-> s]
  /\ index[m] = s

(* Rows: content exists once a row does and counts the operations.         *)
RowsOK ==
  \A m \in Message : (status[m] = "NONE" <=> version[m] = 0) /\ version[m] <= ops + 1

(* The worker: an idle one has no batch, statuses are written only once    *)
(* everything is uploaded, and a row in flight waits for the worker: only  *)
(* the worker settles a row, and it writes the status of each row once.    *)
WorkerOK ==
  /\ pass = 0 => Batch = {}
  /\ marking => put = {}
  /\ \A m \in Batch : status[m] # "NONE"
  /\ \A m \in Message : InFlight(m) => status[m] \in Pending

(* A row in flight that was not changed is as the worker read it, and was  *)
(* not archived as deleted when it was read.                               *)
FlightOK ==
  \A m \in Message \ raced :
    InFlight(m) => status[m] = From[pass] /\ version[m] = batch[m] /\ m \notin patched

(* What the call has uploaded so far. *)
UploadOK ==
  /\ \A m \in put : object[m] = [version |-> batch[m], status |-> To[pass]]
  /\ \A m \in stored : Archived(m, batch[m], To[pass])

(* A row nobody raced is archived as its status says, and, unless its      *)
(* metadata changed after its deletion, with its current content.          *)
SettledOK ==
  \A m \in Message \ raced :
    status[m] \in Settled =>
      /\ object[m].status = status[m] /\ index[m] = status[m]
      /\ m \notin patched => object[m].version = version[m]

(* The inductive invariant. *)
IInv == TypeOK /\ RowsOK /\ WorkerOK /\ FlightOK /\ UploadOK /\ SettledOK /\ DeletedStaysDeleted

(* A row read by the worker is not archived yet in the status it moves to. *)
LEMMA FromTo ==
  ASSUME NEW p \in 1..3
  PROVE  /\ From[p] \in Pending /\ From[p] \notin Settled /\ From[p] # "NONE"
         /\ To[p] \in Settled /\ To[p] \notin Pending /\ To[p] # "NONE"
         /\ (From[p] = "DELETE_PENDING" <=> p = 3) /\ (To[p] = "DELETED" <=> p = 3)
  BY DEF From, To, Pending, Settled

(* Nothing exists at first. *)
LEMMA InitIInv == Init => IInv
<1> SUFFICES ASSUME Init PROVE IInv
  OBVIOUS
<1>1. Batch = {} /\ put = {} /\ Cardinality(put) = 0
  BY FS_EmptySet DEF Init, Batch, NoBatch
<1>2. marking \in BOOLEAN
  BY Zenon DEF Init
<1>3. TypeOK
  BY <1>1, <1>2, ArchiveAssumption DEF Init, TypeOK, MaxVersion, PaymentStatus
<1>4. QED
  BY <1>1, <1>3, ArchiveAssumption
     DEF Init, IInv, RowsOK, WorkerOK, FlightOK, UploadOK, SettledOK, DeletedStaysDeleted,
         InFlight, Settled

(* The operations of the handlers: a change to a row in flight is noted as *)
(* a race; any other one takes the row out of the settled statuses, or is  *)
(* noted as a change to a deleted row.                                     *)
LEMMA HandlerIInv ==
  ASSUME IInv, Handler
  PROVE  IInv'
<1>0. TypeOK /\ RowsOK /\ WorkerOK /\ FlightOK /\ UploadOK /\ SettledOK /\ DeletedStaysDeleted
  BY DEF IInv
<1> USE <1>0
<1>1. PICK m \in Message : \/ create_message(m) \/ update_message(m) \/ delete_message(m)
                           \/ update_message_metadata_trusted(m)
  BY DEF Handler
<1>2. UNCHANGED <<object, index, pass, batch, put, stored, marking, faults>>
  BY <1>1 DEF create_message, update_message, delete_message, update_message_metadata_trusted,
              archiveVars, workerVars
<1>3. Batch' = Batch /\ \A n \in Message : InFlight(n)' = InFlight(n)
  BY <1>2 DEF Batch, InFlight
<1>4. /\ ops' \in 0..MaxOps /\ ops <= ops'
      /\ raced' \subseteq Message /\ raced \subseteq raced'
      /\ InFlight(m) => m \in raced'
  BY <1>1, ArchiveAssumption
     DEF create_message, update_message, delete_message, update_message_metadata_trusted,
         Operation, TypeOK, historyVars, WorkerOK, InFlight
<1>5. /\ removed' \subseteq Message /\ undone' \subseteq Message /\ patched' \subseteq Message
      /\ removed' \ {m} = removed \ {m} /\ undone' \ {m} = undone \ {m}
      /\ patched' \ {m} = patched \ {m}
  BY <1>1 DEF create_message, update_message, delete_message, update_message_metadata_trusted,
         historyVars, TypeOK
<1>6. /\ status' \in [Message -> SyncStatus \union {"NONE"}]
      /\ \A n \in Message \ {m} : status'[n] = status[n]
      /\ status'[m] # "NONE"
      /\ \/ status'[m] \in Pending
         \/ status'[m] = "DELETED" /\ status[m] = "DELETED" /\ m \in patched'
      /\ m \in removed' \ undone' => status'[m] \in {"DELETE_PENDING", "DELETED"}
  <2>1. CASE create_message(m)
    BY <2>1 DEF create_message, historyVars, DeletedStaysDeleted, TypeOK, SyncStatus, Pending, Settled
  <2>2. CASE update_message(m)
    BY <2>2 DEF update_message, TypeOK, SyncStatus, Pending, Settled
  <2>3. CASE delete_message(m)
    BY <2>3 DEF delete_message, TypeOK, SyncStatus, Pending, Settled
  <2>4. CASE update_message_metadata_trusted(m)
    BY <2>4 DEF update_message_metadata_trusted, Rearchived, Row, DeletedStaysDeleted, TypeOK,
                SyncStatus, Pending, Settled
  <2>5. QED
    BY <1>1, <2>1, <2>2, <2>3, <2>4
<1>7. /\ version' \in [Message -> 0..MaxVersion]
      /\ version'[m] # 0 /\ version'[m] <= ops' + 1
      /\ \A n \in Message \ {m} : version'[n] = version[n]
  BY <1>1, ArchiveAssumption
     DEF create_message, update_message, delete_message, update_message_metadata_trusted,
         Operation, Row, RowsOK, TypeOK, MaxVersion
<1>8. payment' \in [Message -> PaymentStatus]
  BY <1>1 DEF create_message, update_message, delete_message, update_message_metadata_trusted,
              InitialPayment, PaymentStatus, TypeOK
<1>9. TypeOK'
  BY <1>2, <1>3, <1>4, <1>5, <1>6, <1>7, <1>8 DEF TypeOK
<1>10. RowsOK'
  BY <1>4, <1>6, <1>7, ArchiveAssumption DEF RowsOK, TypeOK, MaxVersion
<1>11. WorkerOK'
  <2>1. InFlight(m) => status'[m] \in Pending
    BY <1>6 DEF WorkerOK, Pending
  <2>2. QED
    BY <1>2, <1>3, <1>6, <2>1 DEF WorkerOK, TypeOK
<1>12. FlightOK'
  BY <1>2, <1>3, <1>4, <1>5, <1>6, <1>7 DEF FlightOK
<1>13. UploadOK'
  BY <1>2 DEF UploadOK, Archived
<1>14. SettledOK'
  <2>1. m \notin raced' /\ status'[m] \in Settled => status'[m] = status[m] /\ m \in patched'
    BY <1>6 DEF Pending, Settled
  <2>2. QED
    BY <1>2, <1>4, <1>5, <1>6, <1>7, <2>1 DEF SettledOK
<1>15. DeletedStaysDeleted'
  BY <1>5, <1>6 DEF DeletedStaysDeleted, TypeOK
<1>16. QED
  BY <1>9, <1>10, <1>11, <1>12, <1>13, <1>14, <1>15 DEF IInv

(* A call that ends, however it ends, leaves the worker with no batch. *)
LEMMA CallEndsIInv ==
  ASSUME IInv, UNCHANGED <<status, version, payment, object, index, ops, raced, removed, undone, patched>>,
         pass' \in 0..3, batch' = NoBatch, put' = {}, stored' = {}, marking' = FALSE,
         faults' \in 0..MaxFaults
  PROVE  IInv'
<1>1. Batch' = {} /\ Cardinality(put') = 0 /\ \A m \in Message : ~InFlight(m)'
  BY FS_EmptySet DEF Batch, NoBatch, InFlight
<1>2. marking' \in BOOLEAN
  BY Zenon
<1>3. TypeOK'
  BY <1>1, <1>2 DEF IInv, TypeOK
<1>4. QED
  BY <1>1, <1>3 DEF IInv, RowsOK, WorkerOK, FlightOK, UploadOK, SettledOK, DeletedStaysDeleted,
                    Archived

(* Reading a batch: its rows are as they are read, whatever raced before. *)
LEMMA ReadIInv ==
  ASSUME IInv, get_messages_by_sync_status
  PROVE  IInv'
<1>0. TypeOK /\ RowsOK /\ WorkerOK /\ FlightOK /\ UploadOK /\ SettledOK /\ DeletedStaysDeleted
  BY DEF IInv
<1> USE <1>0
<1>1. PICK rows \in SUBSET {m \in Message : status[m] = From[pass]} :
             /\ batch' = [m \in rows |-> version[m]]
             /\ raced' = raced \ rows /\ patched' = patched \ rows
  BY DEF get_messages_by_sync_status, kSubset
<1>2. /\ UNCHANGED <<status, version, payment, object, index, pass, put, stored, marking, ops, faults,
                      removed, undone>>
      /\ pass \in 1..3 /\ Batch = {} /\ put = {} /\ stored = {}
  BY DEF get_messages_by_sync_status, rowVars, archiveVars, TypeOK
<1>3. Batch' = rows /\ \A m \in rows : m \in Message /\ status[m] = From[pass] /\ batch'[m] = version[m]
  BY <1>1 DEF Batch
<1>4. \A m \in Message : InFlight(m)' => m \in rows
  BY <1>3 DEF InFlight
<1>5. \A m \in rows : /\ status[m] \in Pending /\ status[m] \notin Settled /\ status[m] # "NONE"
                       /\ version[m] \in 1..MaxVersion
  BY <1>2, <1>3, FromTo, ArchiveAssumption DEF RowsOK, TypeOK, MaxVersion
<1>6. TypeOK'
  BY <1>1, <1>2, <1>3, <1>5 DEF TypeOK
<1>7. RowsOK' /\ WorkerOK'
  BY <1>2, <1>3, <1>4, <1>5 DEF RowsOK, WorkerOK
<1>8. FlightOK'
  BY <1>1, <1>2, <1>3, <1>4 DEF FlightOK
<1>9. UploadOK'
  BY <1>2 DEF UploadOK
<1>10. SettledOK' /\ DeletedStaysDeleted'
  BY <1>1, <1>2, <1>5 DEF SettledOK, DeletedStaysDeleted
<1>11. QED
  BY <1>6, <1>7, <1>8, <1>9, <1>10 DEF IInv

(* Writing an object: its row is in flight, so not settled unless raced. *)
LEMMA PutIInv ==
  ASSUME IInv, NEW m \in Message, put_object(m)
  PROVE  IInv'
<1>0. TypeOK /\ RowsOK /\ WorkerOK /\ FlightOK /\ UploadOK /\ SettledOK /\ DeletedStaysDeleted
  BY DEF IInv
<1> USE <1>0
<1> DEFINE o == [version |-> batch[m], status |-> To[pass]]
<1>1. /\ m \in Batch \ stored /\ put = {} /\ ~marking /\ put' = {m}
      /\ UNCHANGED <<status, version, payment, index, pass, batch, stored, marking, ops, faults,
                      raced, removed, undone, patched>>
  BY DEF put_object, rowVars, historyVars
<1>2. pass \in 1..3 /\ Batch' = Batch /\ \A n \in Message : InFlight(n)' = InFlight(n)
  BY <1>1 DEF WorkerOK, TypeOK, Batch, InFlight
<1>3. o \in Object
  BY <1>1, <1>2, FromTo DEF Object, TypeOK
<1>4. object' = [object EXCEPT ![m] = o] /\ Cardinality(put') = 1
  BY <1>1, FS_Singleton DEF put_object
<1> HIDE DEF o
<1>5. /\ object' \in [Message -> Object \union {NoObject}]
      /\ object'[m] = o
      /\ \A n \in Message \ {m} : object'[n] = object[n]
  BY <1>3, <1>4 DEF TypeOK
<1>6. TypeOK'
  BY <1>1, <1>2, <1>4, <1>5 DEF TypeOK
<1>7. RowsOK' /\ WorkerOK' /\ FlightOK' /\ DeletedStaysDeleted'
  BY <1>1, <1>2 DEF RowsOK, WorkerOK, FlightOK, DeletedStaysDeleted
<1>8. UploadOK'
  BY <1>1, <1>5 DEF UploadOK, Archived, o, TypeOK
<1>9. status[m] \notin Settled
  BY <1>1 DEF WorkerOK, InFlight, Pending, Settled
<1>10. SettledOK'
  BY <1>1, <1>5, <1>9 DEF SettledOK
<1>11. QED
  BY <1>6, <1>7, <1>8, <1>10 DEF IInv

(* Writing an index row. *)
LEMMA UpsertIInv ==
  ASSUME IInv, NEW m \in Message, upsert(m)
  PROVE  IInv'
<1>0. TypeOK /\ RowsOK /\ WorkerOK /\ FlightOK /\ UploadOK /\ SettledOK /\ DeletedStaysDeleted
  BY DEF IInv
<1> USE <1>0
<1>1. /\ m \in put /\ m \in Batch /\ put' = {} /\ stored' = stored \union {m} /\ ~marking
      /\ marking' \in BOOLEAN /\ (marking' => stored' = Batch)
      /\ UNCHANGED <<status, version, payment, object, pass, batch, ops, faults, raced, removed, undone,
                      patched>>
  BY DEF upsert, rowVars, historyVars, TypeOK, WorkerOK
<1>2. pass \in 1..3 /\ Batch' = Batch /\ \A n \in Message : InFlight(n)' => InFlight(n)
  BY <1>1 DEF WorkerOK, TypeOK, Batch, InFlight
<1>3. /\ index' \in [Message -> Settled \union {"NONE"}]
      /\ index'[m] = To[pass]
      /\ \A n \in Message \ {m} : index'[n] = index[n]
  BY <1>2, FromTo DEF upsert, TypeOK
<1>4. TypeOK'
  BY <1>1, <1>2, <1>3, FS_EmptySet DEF TypeOK
<1>5. RowsOK' /\ WorkerOK' /\ FlightOK' /\ DeletedStaysDeleted'
  BY <1>1, <1>2 DEF RowsOK, WorkerOK, FlightOK, DeletedStaysDeleted
<1>6. UploadOK'
  BY <1>1, <1>3 DEF UploadOK, Archived, TypeOK
<1>7. status[m] \notin Settled
  BY <1>1 DEF WorkerOK, InFlight, Pending, Settled
<1>8. SettledOK'
  BY <1>1, <1>3, <1>7 DEF SettledOK
<1>9. QED
  BY <1>4, <1>5, <1>6, <1>8 DEF IInv

(* Writing a status: right for a row that was not raced. *)
LEMMA StatusIInv ==
  ASSUME IInv, NEW m \in Message, update_sync_status(m)
  PROVE  IInv'
<1>0. TypeOK /\ RowsOK /\ WorkerOK /\ FlightOK /\ UploadOK /\ SettledOK /\ DeletedStaysDeleted
  BY DEF IInv
<1> USE <1>0
<1>1. /\ marking /\ m \in stored /\ m \in Batch /\ put = {} /\ pass \in 1..3
      /\ UNCHANGED <<version, payment, object, index, ops, faults, raced, removed, patched>>
      /\ undone' = IF status[m] = "DELETE_PENDING" /\ pass # 3 THEN undone \union {m} ELSE undone
  BY DEF update_sync_status, archiveVars, historyVars, TypeOK, WorkerOK
<1>2. /\ status' \in [Message -> SyncStatus \union {"NONE"}]
      /\ status'[m] = To[pass] /\ To[pass] \in Settled /\ To[pass] # "NONE"
      /\ \A n \in Message \ {m} : status'[n] = status[n]
  BY <1>1, FromTo DEF update_sync_status, TypeOK, SyncStatus
<1>3. RowsOK'
  BY <1>1, <1>2 DEF RowsOK, WorkerOK, TypeOK
<1>4. InFlight(m)
  BY <1>1 DEF InFlight
<1>5. SettledOK'
  <2>1. m \notin raced => object[m] = [version |-> version[m], status |-> To[pass]] /\ index[m] = To[pass]
    BY <1>1, <1>4 DEF FlightOK, UploadOK, Archived
  <2>2. QED
    BY <1>1, <1>2, <2>1 DEF SettledOK
<1>6. DeletedStaysDeleted'
  <2>1. m \in removed \ undone' => pass = 3
    BY <1>1, <1>4 DEF WorkerOK, DeletedStaysDeleted, Pending
  <2>2. QED
    BY <1>1, <1>2, <2>1, FromTo DEF DeletedStaysDeleted, TypeOK
<1>7. CASE stored = {m}
  <2>1. pass' \in 0..3 /\ batch' = NoBatch /\ put' = {} /\ stored' = {} /\ marking' = FALSE
    BY <1>1, <1>7 DEF update_sync_status, Finish, NextCall
  <2>2. Batch' = {} /\ Cardinality(put') = 0 /\ \A n \in Message : ~InFlight(n)'
    BY <2>1, FS_EmptySet DEF Batch, NoBatch, InFlight
  <2>3. TypeOK'
    BY <1>1, <1>2, <2>1, <2>2 DEF TypeOK
  <2>4. WorkerOK' /\ FlightOK' /\ UploadOK'
    BY <2>1, <2>2 DEF WorkerOK, FlightOK, UploadOK
  <2>5. QED
    BY <1>3, <1>5, <1>6, <2>3, <2>4 DEF IInv
<1>8. CASE stored # {m}
  <2>1. stored' = stored \ {m} /\ UNCHANGED <<pass, batch, put, marking>>
    BY <1>8 DEF update_sync_status, Finish
  <2>2. Batch' = Batch /\ \A n \in Message : InFlight(n)' => n # m /\ InFlight(n)
    BY <1>1, <2>1 DEF Batch, InFlight
  <2>3. TypeOK'
    BY <1>1, <1>2, <2>1, <2>2 DEF TypeOK
  <2>4. WorkerOK' /\ FlightOK' /\ UploadOK'
    BY <1>1, <1>2, <2>1, <2>2 DEF WorkerOK, FlightOK, UploadOK, Archived, TypeOK
  <2>5. QED
    BY <1>3, <1>5, <1>6, <2>3, <2>4 DEF IInv
<1>9. QED
  BY <1>7, <1>8

(* Giving up on a status. *)
LEMMA StatusFailsIInv ==
  ASSUME IInv, NEW m \in Message, StatusWriteFails(m)
  PROVE  IInv'
<1>1. /\ m \in stored /\ marking /\ faults' \in 0..MaxFaults /\ Finish(m)
      /\ UNCHANGED <<status, version, payment, object, index, ops, raced, removed, undone, patched>>
  BY ArchiveAssumption
     DEF StatusWriteFails, Fault, rowVars, archiveVars, historyVars, IInv, TypeOK
<1>2. CASE stored = {m}
  <2>1. pass' \in 0..3 /\ batch' = NoBatch /\ put' = {} /\ stored' = {} /\ marking' = FALSE
    BY <1>1, <1>2 DEF Finish, NextCall, IInv, TypeOK
  <2>2. QED
    BY <1>1, <2>1, CallEndsIInv
<1>3. CASE stored # {m}
  <2>1. stored' = stored \ {m} /\ UNCHANGED <<pass, batch, put, marking>>
    BY <1>1, <1>3 DEF Finish
  <2>2. Batch' = Batch /\ \A n \in Message : InFlight(n)' => InFlight(n)
    BY <1>1, <2>1 DEF Batch, InFlight
  <2>3. TypeOK'
    BY <1>1, <2>1, <2>2 DEF IInv, TypeOK
  <2>4. QED
    BY <1>1, <2>1, <2>2, <2>3
       DEF IInv, RowsOK, WorkerOK, FlightOK, UploadOK, SettledOK, DeletedStaysDeleted, Archived
<1>4. QED
  BY <1>2, <1>3

(* The worker's steps keep the invariant. *)
LEMMA WorkerIInv == IInv /\ Worker => IInv'
<1> SUFFICES ASSUME IInv, Worker PROVE IInv'
  OBVIOUS
<1>1. CASE run
  <2>1. pass = 0 /\ pass' = 1
        /\ UNCHANGED <<status, version, payment, object, index, batch, put, stored, marking, ops,
                       faults, raced, removed, undone, patched>>
    BY <1>1 DEF run, rowVars, archiveVars, historyVars
  <2>2. Batch = {} /\ Batch' = {} /\ put = {} /\ stored = {}
    BY <2>1 DEF IInv, WorkerOK, Batch, TypeOK
  <2>3. QED
    BY <2>1, <2>2 DEF IInv, TypeOK, RowsOK, WorkerOK, FlightOK, UploadOK, SettledOK,
                      DeletedStaysDeleted, Archived, InFlight
<1>2. CASE NothingToSync
  <2>1. pass' \in 0..3 /\ batch' = NoBatch /\ put' = {} /\ stored' = {} /\ marking' = FALSE
    BY <1>2 DEF NothingToSync, NextCall, IInv, TypeOK
  <2>2. /\ faults' \in 0..MaxFaults
        /\ UNCHANGED <<status, version, payment, object, index, ops, raced, removed, undone, patched>>
    BY <1>2 DEF NothingToSync, IInv, TypeOK, rowVars, archiveVars, historyVars
  <2>3. QED
    BY <2>1, <2>2, CallEndsIInv
<1>3. QED
  BY <1>1, <1>2, ReadIInv, PutIInv, UpsertIInv, StatusIInv DEF Worker

(* Failures and restarts keep the invariant. *)
LEMMA FailureIInv == IInv /\ Failure => IInv'
<1> SUFFICES ASSUME IInv, Failure PROVE IInv'
  OBVIOUS
<1>1. CASE CallFails \/ Crash
  <2>1. pass' \in 0..3 /\ batch' = NoBatch /\ put' = {} /\ stored' = {} /\ marking' = FALSE
    BY <1>1 DEF CallFails, Crash, NextCall, IInv, TypeOK
  <2>2. /\ faults' \in 0..MaxFaults
        /\ UNCHANGED <<status, version, payment, object, index, ops, raced, removed, undone, patched>>
    BY <1>1, ArchiveAssumption
       DEF CallFails, Crash, Fault, IInv, TypeOK, rowVars, archiveVars, historyVars
  <2>3. QED
    BY <2>1, <2>2, CallEndsIInv
<1>2. QED
  BY <1>1, StatusFailsIInv DEF Failure

(* Every step keeps the invariant. *)
LEMMA NextIInv == IInv /\ [Next]_vars => IInv'
<1> SUFFICES ASSUME IInv, [Next]_vars PROVE IInv'
  OBVIOUS
<1>1. CASE UNCHANGED vars
  BY <1>1 DEF vars, rowVars, archiveVars, workerVars, historyVars, IInv, TypeOK, RowsOK, WorkerOK,
              FlightOK, UploadOK, SettledOK, DeletedStaysDeleted, Archived, InFlight, Batch
<1>2. QED
  BY <1>1, HandlerIInv, WorkerIInv, FailureIInv DEF Next

(* The invariant holds throughout. *)
THEOREM Invariance == Spec => []IInv
  BY InitIInv, NextIInv, PTL DEF Spec

(* A row whose status says it is archived is in the object store and in    *)
(* the index under that status, unless it was changed while sync_messages  *)
(* was uploading it, and with its current content, unless it is a deleted  *)
(* payment request whose status changed later; and the state is well typed. *)
THEOREM ArchiveTheorem == Spec => []ArchiveCurrent
<1>1. IInv => ArchiveCurrent
  BY DEF IInv, SettledOK, ArchiveCurrent
<1>2. QED
  BY <1>1, Invariance, PTL

(* What its sender deleted stays deleted through later passes, failed      *)
(* writes, restarts and payments, unless the worker, having read the row   *)
(* before, replaced the status of the deletion.                            *)
THEOREM DeletionTheorem == Spec => []DeletedStaysDeleted
<1>1. IInv => DeletedStaysDeleted
  BY DEF IInv
<1>2. QED
  BY <1>1, Invariance, PTL
=============================================================================
