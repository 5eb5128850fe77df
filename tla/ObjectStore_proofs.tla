------------------------- MODULE ObjectStore_proofs -------------------------
(* The safety of uploads, for any objects, requests, metadata and faults.  One  *)
(* lemma says of each action that it keeps the invariant: for a call of a slot   *)
(* it is enough that other slots and other objects are left alone, and then      *)
(* each part of the invariant is looked at for the object of the call.           *)
EXTENDS ObjectStore, TLAPS

LEMMA InitHolds == Init => IInv
<1> SUFFICES ASSUME Init PROVE IInv
  OBVIOUS
<1> USE ObjectStoreAssumption DEF Init
<1>1. TypeOK
  BY DEF TypeOK
<1>2. InStages /\ FreshIds /\ CreatedAlone /\ CreatedByIt
  BY DEF InStages, FreshIds, CreatedAlone, CreatedByIt, Working
<1>3. BegunIsPending /\ UploadedIsStored /\ FinishedByOne /\ AbortedIsOver
  BY DEF BegunIsPending, UploadedIsStored, FinishedByOne, Finishing, AbortedIsOver, At,
     Working
<1> QED BY <1>1, <1>2, <1>3 DEF IInv

(* The upload is begun for an object that nobody else knows. *)
LEMMA InitMultipartUploadKeeps ==
  ASSUME IInv, NEW s \in Slots, InitMultipartUpload(s)
  PROVE  IInv'
<1> USE ObjectStoreAssumption
    DEF IInv, TypeOK, InitMultipartUpload, At, Call, Over, Row, Task, Status, Facts, Slots
<1>1. tasks[s] \in Task
  OBVIOUS
<1>2. \A z \in Slots : z # s => tasks'[z] = tasks[z]
  OBVIOUS
<1>3. \A p \in Objects : p # tasks[s].object => rows'[p] = rows[p] /\ store'[p] = store[p]
  OBVIOUS
<1>4. TypeOK'
  BY <1>1, <1>2, <1>3
<1>5. InStages'
  BY <1>1, <1>2, <1>3, <1>4 DEF InStages, Stages
<1>6. FreshIds'
  BY <1>1, <1>2, <1>3, <1>4 DEF InStages, Stages, FreshIds
<1>7. CreatedAlone'
  BY <1>1, <1>2, <1>3, <1>4 DEF InStages, Stages, FreshIds, Working, CreatedAlone
<1>8. CreatedByIt'
  BY <1>1, <1>2, <1>3, <1>4 DEF InStages, Stages, FreshIds, Working, CreatedAlone,
     CreatedByIt
<1>9. BegunIsPending'
  BY <1>1, <1>2, <1>3, <1>4 DEF InStages, Stages, FreshIds, Working, CreatedAlone,
     CreatedByIt, FinishedByOne, Finishing, BegunIsPending, Uploaded
<1>10. UploadedIsStored'
  BY <1>1, <1>2, <1>3, <1>4 DEF InStages, Stages, FreshIds, Working, CreatedByIt,
     FinishedByOne, Finishing, UploadedIsStored, BegunIsPending, Uploaded
<1>11. FinishedByOne'
  BY <1>1, <1>2, <1>3, <1>4 DEF InStages, Stages, FreshIds, Working, CreatedAlone,
     CreatedByIt, FinishedByOne, Finishing, UploadedIsStored, BegunIsPending, Uploaded
<1>12. AbortedIsOver'
  BY <1>1, <1>2, <1>3, <1>4 DEF InStages, Stages, FreshIds, Working, CreatedAlone,
     CreatedByIt, AbortedIsOver, BegunIsPending, Uploaded
<1> QED BY <1>4, <1>5, <1>6, <1>7, <1>8, <1>9, <1>10, <1>11, <1>12

(* The file arrives for an object that nobody else knows. *)
LEMMA PutObjectKeeps ==
  ASSUME IInv, NEW s \in Slots, PutObject(s)
  PROVE  IInv'
<1> USE ObjectStoreAssumption
    DEF IInv, TypeOK, PutObject, At, Call, Over, Row, Task, Status, Facts, Slots
<1>1. tasks[s] \in Task
  OBVIOUS
<1>2. \A z \in Slots : z # s => tasks'[z] = tasks[z]
  OBVIOUS
<1>3. \A p \in Objects : p # tasks[s].object => rows'[p] = rows[p] /\ store'[p] = store[p]
  OBVIOUS
<1>4. TypeOK'
  BY <1>1, <1>2, <1>3
<1>5. InStages'
  BY <1>1, <1>2, <1>3, <1>4 DEF InStages, Stages
<1>6. FreshIds'
  BY <1>1, <1>2, <1>3, <1>4 DEF InStages, Stages, FreshIds
<1>7. CreatedAlone'
  BY <1>1, <1>2, <1>3, <1>4 DEF InStages, Stages, FreshIds, Working, CreatedAlone
<1>8. CreatedByIt'
  BY <1>1, <1>2, <1>3, <1>4 DEF InStages, Stages, FreshIds, Working, CreatedAlone,
     CreatedByIt
<1>9. BegunIsPending'
  BY <1>1, <1>2, <1>3, <1>4 DEF InStages, Stages, FreshIds, Working, CreatedAlone,
     CreatedByIt, FinishedByOne, Finishing, BegunIsPending, Uploaded
<1>10. UploadedIsStored'
  BY <1>1, <1>2, <1>3, <1>4 DEF InStages, Stages, FreshIds, Working, CreatedByIt,
     FinishedByOne, Finishing, UploadedIsStored, BegunIsPending, Uploaded
<1>11. FinishedByOne'
  BY <1>1, <1>2, <1>3, <1>4 DEF InStages, Stages, FreshIds, Working, CreatedAlone,
     CreatedByIt, FinishedByOne, Finishing, UploadedIsStored, BegunIsPending, Uploaded
<1>12. AbortedIsOver'
  BY <1>1, <1>2, <1>3, <1>4 DEF InStages, Stages, FreshIds, Working, CreatedAlone,
     CreatedByIt, AbortedIsOver, BegunIsPending, Uploaded
<1> QED BY <1>4, <1>5, <1>6, <1>7, <1>8, <1>9, <1>10, <1>11, <1>12

(* S3 knew the upload, so no other task has finished it and the row is pending. *)
LEMMA CompleteMultipartUploadKeeps ==
  ASSUME IInv, NEW s \in Slots, CompleteMultipartUpload(s)
  PROVE  IInv'
<1> USE ObjectStoreAssumption
    DEF IInv, TypeOK, CompleteMultipartUpload, At, Call, Over, NoUpload, Row, Task,
    Status, Facts, Slots
<1>1. tasks[s] \in Task
  OBVIOUS
<1>2. \A z \in Slots : z # s => tasks'[z] = tasks[z]
  OBVIOUS
<1>3. \A p \in Objects : p # tasks[s].object => rows'[p] = rows[p] /\ store'[p] = store[p]
  OBVIOUS
<1>4. TypeOK'
  BY <1>1, <1>2, <1>3
<1>5. InStages'
  BY <1>1, <1>2, <1>3, <1>4 DEF InStages, Stages
<1>6. FreshIds'
  BY <1>1, <1>2, <1>3, <1>4 DEF InStages, Stages, FreshIds
<1>7. CreatedAlone'
  BY <1>1, <1>2, <1>3, <1>4 DEF InStages, Stages, FreshIds, Working, CreatedAlone
<1>8. CreatedByIt'
  BY <1>1, <1>2, <1>3, <1>4 DEF InStages, Stages, FreshIds, Working, CreatedAlone,
     CreatedByIt
<1>9. BegunIsPending'
  BY <1>1, <1>2, <1>3, <1>4 DEF InStages, Stages, FreshIds, Working, CreatedAlone,
     CreatedByIt, FinishedByOne, Finishing, BegunIsPending, Uploaded
<1>10. UploadedIsStored'
  BY <1>1, <1>2, <1>3, <1>4 DEF InStages, Stages, FreshIds, Working, CreatedByIt,
     FinishedByOne, Finishing, UploadedIsStored, BegunIsPending, Uploaded
<1>11. FinishedByOne'
  BY <1>1, <1>2, <1>3, <1>4 DEF InStages, Stages, FreshIds, Working, CreatedAlone,
     CreatedByIt, FinishedByOne, Finishing, UploadedIsStored, BegunIsPending, Uploaded
<1>12. AbortedIsOver'
  BY <1>1, <1>2, <1>3, <1>4 DEF InStages, Stages, FreshIds, Working, CreatedAlone,
     CreatedByIt, AbortedIsOver, BegunIsPending, Uploaded
<1> QED BY <1>4, <1>5, <1>6, <1>7, <1>8, <1>9, <1>10, <1>11, <1>12

(* Nothing but the task is touched. *)
LEMMA RefusePartsKeeps ==
  ASSUME IInv, NEW s \in Slots, RefuseParts(s)
  PROVE  IInv'
<1> USE ObjectStoreAssumption
    DEF IInv, TypeOK, RefuseParts, At, Over, NoUpload, Row, Task, Status, Facts, Slots
<1>1. tasks[s] \in Task
  OBVIOUS
<1>2. \A z \in Slots : z # s => tasks'[z] = tasks[z]
  OBVIOUS
<1>3. \A p \in Objects : p # tasks[s].object => rows'[p] = rows[p] /\ store'[p] = store[p]
  OBVIOUS
<1>4. TypeOK'
  BY <1>1, <1>2, <1>3
<1>5. InStages'
  BY <1>1, <1>2, <1>3, <1>4 DEF InStages, Stages
<1>6. FreshIds'
  BY <1>1, <1>2, <1>3, <1>4 DEF InStages, Stages, FreshIds
<1>7. CreatedAlone'
  BY <1>1, <1>2, <1>3, <1>4 DEF InStages, Stages, FreshIds, Working, CreatedAlone
<1>8. CreatedByIt'
  BY <1>1, <1>2, <1>3, <1>4 DEF InStages, Stages, FreshIds, Working, CreatedAlone,
     CreatedByIt
<1>9. BegunIsPending'
  BY <1>1, <1>2, <1>3, <1>4 DEF InStages, Stages, FreshIds, Working, CreatedAlone,
     CreatedByIt, FinishedByOne, Finishing, BegunIsPending, Uploaded
<1>10. UploadedIsStored'
  BY <1>1, <1>2, <1>3, <1>4 DEF InStages, Stages, FreshIds, Working, CreatedByIt,
     FinishedByOne, Finishing, UploadedIsStored, BegunIsPending, Uploaded
<1>11. FinishedByOne'
  BY <1>1, <1>2, <1>3, <1>4 DEF InStages, Stages, FreshIds, Working, CreatedAlone,
     CreatedByIt, FinishedByOne, Finishing, UploadedIsStored, BegunIsPending, Uploaded
<1>12. AbortedIsOver'
  BY <1>1, <1>2, <1>3, <1>4 DEF InStages, Stages, FreshIds, Working, CreatedAlone,
     CreatedByIt, AbortedIsOver, BegunIsPending, Uploaded
<1> QED BY <1>4, <1>5, <1>6, <1>7, <1>8, <1>9, <1>10, <1>11, <1>12

(* S3 knew the upload, so there was no file, and now there is nothing. *)
LEMMA AbortMultipartUploadKeeps ==
  ASSUME IInv, NEW s \in Slots, AbortMultipartUpload(s)
  PROVE  IInv'
<1> USE ObjectStoreAssumption
    DEF IInv, TypeOK, AbortMultipartUpload, At, Call, Over, NoUpload, Row, Task, Status,
    Facts, Slots
<1>1. tasks[s] \in Task
  OBVIOUS
<1>2. \A z \in Slots : z # s => tasks'[z] = tasks[z]
  OBVIOUS
<1>3. \A p \in Objects : p # tasks[s].object => rows'[p] = rows[p] /\ store'[p] = store[p]
  OBVIOUS
<1>4. TypeOK'
  BY <1>1, <1>2, <1>3
<1>5. InStages'
  BY <1>1, <1>2, <1>3, <1>4 DEF InStages, Stages
<1>6. FreshIds'
  BY <1>1, <1>2, <1>3, <1>4 DEF InStages, Stages, FreshIds
<1>7. CreatedAlone'
  BY <1>1, <1>2, <1>3, <1>4 DEF InStages, Stages, FreshIds, Working, CreatedAlone
<1>8. CreatedByIt'
  BY <1>1, <1>2, <1>3, <1>4 DEF InStages, Stages, FreshIds, Working, CreatedAlone,
     CreatedByIt
<1>9. BegunIsPending'
  BY <1>1, <1>2, <1>3, <1>4 DEF InStages, Stages, FreshIds, Working, CreatedAlone,
     CreatedByIt, FinishedByOne, Finishing, BegunIsPending, Uploaded
<1>10. UploadedIsStored'
  BY <1>1, <1>2, <1>3, <1>4 DEF InStages, Stages, FreshIds, Working, CreatedByIt,
     FinishedByOne, Finishing, UploadedIsStored, BegunIsPending, Uploaded
<1>11. FinishedByOne'
  BY <1>1, <1>2, <1>3, <1>4 DEF InStages, Stages, FreshIds, Working, CreatedAlone,
     CreatedByIt, FinishedByOne, Finishing, UploadedIsStored, BegunIsPending, Uploaded
<1>12. AbortedIsOver'
  BY <1>1, <1>2, <1>3, <1>4 DEF InStages, Stages, FreshIds, Working, CreatedAlone,
     CreatedByIt, AbortedIsOver, BegunIsPending, Uploaded
<1> QED BY <1>4, <1>5, <1>6, <1>7, <1>8, <1>9, <1>10, <1>11, <1>12

(* Only a deletion that was asked for takes a file away. *)
LEMMA DeleteObjectKeeps ==
  ASSUME IInv, NEW s \in Slots, DeleteObject(s)
  PROVE  IInv'
<1> USE ObjectStoreAssumption
    DEF IInv, TypeOK, DeleteObject, At, Call, Over, Row, Task, Status, Facts, Slots
<1>1. tasks[s] \in Task
  OBVIOUS
<1>2. \A z \in Slots : z # s => tasks'[z] = tasks[z]
  OBVIOUS
<1>3. \A p \in Objects : p # tasks[s].object => rows'[p] = rows[p] /\ store'[p] = store[p]
  OBVIOUS
<1>4. TypeOK'
  BY <1>1, <1>2, <1>3
<1>5. InStages'
  BY <1>1, <1>2, <1>3, <1>4 DEF InStages, Stages
<1>6. FreshIds'
  BY <1>1, <1>2, <1>3, <1>4 DEF InStages, Stages, FreshIds
<1>7. CreatedAlone'
  BY <1>1, <1>2, <1>3, <1>4 DEF InStages, Stages, FreshIds, Working, CreatedAlone
<1>8. CreatedByIt'
  BY <1>1, <1>2, <1>3, <1>4 DEF InStages, Stages, FreshIds, Working, CreatedAlone,
     CreatedByIt
<1>9. BegunIsPending'
  BY <1>1, <1>2, <1>3, <1>4 DEF InStages, Stages, FreshIds, Working, CreatedAlone,
     CreatedByIt, FinishedByOne, Finishing, BegunIsPending, Uploaded
<1>10. UploadedIsStored'
  BY <1>1, <1>2, <1>3, <1>4 DEF InStages, Stages, FreshIds, Working, CreatedByIt,
     FinishedByOne, Finishing, UploadedIsStored, BegunIsPending, Uploaded
<1>11. FinishedByOne'
  BY <1>1, <1>2, <1>3, <1>4 DEF InStages, Stages, FreshIds, Working, CreatedAlone,
     CreatedByIt, FinishedByOne, Finishing, UploadedIsStored, BegunIsPending, Uploaded
<1>12. AbortedIsOver'
  BY <1>1, <1>2, <1>3, <1>4 DEF InStages, Stages, FreshIds, Working, CreatedAlone,
     CreatedByIt, AbortedIsOver, BegunIsPending, Uploaded
<1> QED BY <1>4, <1>5, <1>6, <1>7, <1>8, <1>9, <1>10, <1>11, <1>12

(* The row is made while the request is alone with the object. *)
LEMMA CreatePendingKeeps ==
  ASSUME IInv, NEW s \in Slots, CreatePending(s)
  PROVE  IInv'
<1> USE ObjectStoreAssumption
    DEF IInv, TypeOK, CreatePending, At, Call, Over, Row, Task, Status, Facts, Slots
<1>1. tasks[s] \in Task
  OBVIOUS
<1>2. \A z \in Slots : z # s => tasks'[z] = tasks[z]
  OBVIOUS
<1>3. \A p \in Objects : p # tasks[s].object => rows'[p] = rows[p] /\ store'[p] = store[p]
  OBVIOUS
<1>4. PendingRow \in Row
  BY DEF PendingRow
<1>5. TypeOK'
  BY <1>1, <1>2, <1>3, <1>4
<1>6. InStages'
  BY <1>1, <1>2, <1>3, <1>5 DEF InStages, Stages, PendingRow
<1>7. FreshIds'
  BY <1>1, <1>2, <1>3, <1>5 DEF InStages, Stages, FreshIds, PendingRow
<1>8. CreatedAlone'
  BY <1>1, <1>2, <1>3, <1>5 DEF InStages, Stages, FreshIds, Working, CreatedAlone,
     PendingRow
<1>9. CreatedByIt'
  BY <1>1, <1>2, <1>3, <1>5 DEF InStages, Stages, FreshIds, Working, CreatedAlone,
     CreatedByIt, PendingRow
<1>10. BegunIsPending'
  BY <1>1, <1>2, <1>3, <1>5 DEF InStages, Stages, FreshIds, Working, CreatedAlone,
     CreatedByIt, FinishedByOne, Finishing, BegunIsPending, Uploaded, PendingRow
<1>11. UploadedIsStored'
  BY <1>1, <1>2, <1>3, <1>5 DEF InStages, Stages, FreshIds, Working, CreatedByIt,
     FinishedByOne, Finishing, UploadedIsStored, BegunIsPending, Uploaded, PendingRow
<1>12. FinishedByOne'
  BY <1>1, <1>2, <1>3, <1>5 DEF InStages, Stages, FreshIds, Working, CreatedAlone,
     CreatedByIt, FinishedByOne, Finishing, UploadedIsStored, BegunIsPending, Uploaded,
     PendingRow
<1>13. AbortedIsOver'
  BY <1>1, <1>2, <1>3, <1>5 DEF InStages, Stages, FreshIds, Working, CreatedAlone,
     CreatedByIt, AbortedIsOver, BegunIsPending, Uploaded, PendingRow
<1> QED BY <1>5, <1>6, <1>7, <1>8, <1>9, <1>10, <1>11, <1>12, <1>13

(* The row is made for a file that is there, and its handler is the only one. *)
LEMMA CreateProcessingKeeps ==
  ASSUME IInv, NEW s \in Slots, CreateProcessing(s)
  PROVE  IInv'
<1> USE ObjectStoreAssumption
    DEF IInv, TypeOK, CreateProcessing, At, Call, Over, Emitted, NewTask, Row, Task,
    Status, Facts, Slots
<1>1. tasks[s] \in Task
  OBVIOUS
<1>2. \A z \in Slots : z # s => tasks'[z] = tasks[z]
  OBVIOUS
<1>3. \A p \in Objects : p # tasks[s].object => rows'[p] = rows[p] /\ store'[p] = store[p]
  OBVIOUS
<1>4. UploadedRow \in Row
  BY DEF UploadedRow
<1>5. TypeOK'
  BY <1>1, <1>2, <1>3, <1>4
<1>6. InStages'
  BY <1>1, <1>2, <1>3, <1>5 DEF InStages, Stages, UploadedRow
<1>7. FreshIds'
  BY <1>1, <1>2, <1>3, <1>5 DEF InStages, Stages, FreshIds, UploadedRow
<1>8. CreatedAlone'
  BY <1>1, <1>2, <1>3, <1>5 DEF InStages, Stages, FreshIds, Working, CreatedAlone,
     UploadedRow
<1>9. CreatedByIt'
  BY <1>1, <1>2, <1>3, <1>5 DEF InStages, Stages, FreshIds, Working, CreatedAlone,
     CreatedByIt, UploadedRow
<1>10. BegunIsPending'
  BY <1>1, <1>2, <1>3, <1>5 DEF InStages, Stages, FreshIds, Working, CreatedAlone,
     CreatedByIt, FinishedByOne, Finishing, BegunIsPending, Uploaded, UploadedRow
<1>11. UploadedIsStored'
  BY <1>1, <1>2, <1>3, <1>5 DEF InStages, Stages, FreshIds, Working, CreatedByIt,
     FinishedByOne, Finishing, UploadedIsStored, BegunIsPending, Uploaded, UploadedRow
<1>12. FinishedByOne'
  BY <1>1, <1>2, <1>3, <1>5 DEF InStages, Stages, FreshIds, Working, CreatedAlone,
     CreatedByIt, FinishedByOne, Finishing, UploadedIsStored, BegunIsPending, Uploaded,
     UploadedRow
<1>13. AbortedIsOver'
  BY <1>1, <1>2, <1>3, <1>5 DEF InStages, Stages, FreshIds, Working, CreatedAlone,
     CreatedByIt, AbortedIsOver, BegunIsPending, Uploaded, UploadedRow
<1> QED BY <1>5, <1>6, <1>7, <1>8, <1>9, <1>10, <1>11, <1>12, <1>13

(* Nothing but the task is touched. *)
LEMMA RecordChunksKeeps ==
  ASSUME IInv, NEW s \in Slots, RecordChunks(s)
  PROVE  IInv'
<1> USE ObjectStoreAssumption
    DEF IInv, TypeOK, RecordChunks, At, Call, Over, NoRow, Row, Task, Status, Facts, Slots
<1>1. tasks[s] \in Task
  OBVIOUS
<1>2. \A z \in Slots : z # s => tasks'[z] = tasks[z]
  OBVIOUS
<1>3. \A p \in Objects : p # tasks[s].object => rows'[p] = rows[p] /\ store'[p] = store[p]
  OBVIOUS
<1>4. TypeOK'
  BY <1>1, <1>2, <1>3
<1>5. InStages'
  BY <1>1, <1>2, <1>3, <1>4 DEF InStages, Stages
<1>6. FreshIds'
  BY <1>1, <1>2, <1>3, <1>4 DEF InStages, Stages, FreshIds
<1>7. CreatedAlone'
  BY <1>1, <1>2, <1>3, <1>4 DEF InStages, Stages, FreshIds, Working, CreatedAlone
<1>8. CreatedByIt'
  BY <1>1, <1>2, <1>3, <1>4 DEF InStages, Stages, FreshIds, Working, CreatedAlone,
     CreatedByIt
<1>9. BegunIsPending'
  BY <1>1, <1>2, <1>3, <1>4 DEF InStages, Stages, FreshIds, Working, CreatedAlone,
     CreatedByIt, FinishedByOne, Finishing, BegunIsPending, Uploaded
<1>10. UploadedIsStored'
  BY <1>1, <1>2, <1>3, <1>4 DEF InStages, Stages, FreshIds, Working, CreatedByIt,
     FinishedByOne, Finishing, UploadedIsStored, BegunIsPending, Uploaded
<1>11. FinishedByOne'
  BY <1>1, <1>2, <1>3, <1>4 DEF InStages, Stages, FreshIds, Working, CreatedAlone,
     CreatedByIt, FinishedByOne, Finishing, UploadedIsStored, BegunIsPending, Uploaded
<1>12. AbortedIsOver'
  BY <1>1, <1>2, <1>3, <1>4 DEF InStages, Stages, FreshIds, Working, CreatedAlone,
     CreatedByIt, AbortedIsOver, BegunIsPending, Uploaded
<1> QED BY <1>4, <1>5, <1>6, <1>7, <1>8, <1>9, <1>10, <1>11, <1>12

(* The task that finished the upload finds the row pending, or gone. *)
LEMMA MarkProcessingKeeps ==
  ASSUME IInv, NEW s \in Slots, MarkProcessing(s)
  PROVE  IInv'
<1> USE ObjectStoreAssumption
    DEF IInv, TypeOK, MarkProcessing, At, Call, Over, NoRow, Emitted, NewTask, Row, Task,
    Status, Facts, Slots
<1>1. tasks[s] \in Task
  OBVIOUS
<1>2. \A z \in Slots : z # s => tasks'[z] = tasks[z]
  OBVIOUS
<1>3. \A p \in Objects : p # tasks[s].object => rows'[p] = rows[p] /\ store'[p] = store[p]
  OBVIOUS
<1>4. TypeOK'
  BY <1>1, <1>2, <1>3
<1>5. InStages'
  BY <1>1, <1>2, <1>3, <1>4 DEF InStages, Stages
<1>6. FreshIds'
  BY <1>1, <1>2, <1>3, <1>4 DEF InStages, Stages, FreshIds
<1>7. CreatedAlone'
  BY <1>1, <1>2, <1>3, <1>4 DEF InStages, Stages, FreshIds, Working, CreatedAlone
<1>8. CreatedByIt'
  BY <1>1, <1>2, <1>3, <1>4 DEF InStages, Stages, FreshIds, Working, CreatedAlone,
     CreatedByIt
<1>9. BegunIsPending'
  BY <1>1, <1>2, <1>3, <1>4 DEF InStages, Stages, FreshIds, Working, CreatedAlone,
     CreatedByIt, FinishedByOne, Finishing, BegunIsPending, Uploaded
<1>10. UploadedIsStored'
  BY <1>1, <1>2, <1>3, <1>4 DEF InStages, Stages, FreshIds, Working, CreatedByIt,
     FinishedByOne, Finishing, UploadedIsStored, BegunIsPending, Uploaded
<1>11. FinishedByOne'
  BY <1>1, <1>2, <1>3, <1>4 DEF InStages, Stages, FreshIds, Working, CreatedAlone,
     CreatedByIt, FinishedByOne, Finishing, UploadedIsStored, BegunIsPending, Uploaded
<1>12. AbortedIsOver'
  BY <1>1, <1>2, <1>3, <1>4 DEF InStages, Stages, FreshIds, Working, CreatedAlone,
     CreatedByIt, AbortedIsOver, BegunIsPending, Uploaded
<1> QED BY <1>4, <1>5, <1>6, <1>7, <1>8, <1>9, <1>10, <1>11, <1>12

(* A row that goes takes no claim with it. *)
LEMMA DeleteRowKeeps ==
  ASSUME IInv, NEW s \in Slots, DeleteRow(s)
  PROVE  IInv'
<1> USE ObjectStoreAssumption
    DEF IInv, TypeOK, DeleteRow, At, Call, Over, NoRow, Row, Task, Status, Facts, Slots
<1>1. tasks[s] \in Task
  OBVIOUS
<1>2. \A z \in Slots : z # s => tasks'[z] = tasks[z]
  OBVIOUS
<1>3. \A p \in Objects : p # tasks[s].object => rows'[p] = rows[p] /\ store'[p] = store[p]
  OBVIOUS
<1>4. TypeOK'
  BY <1>1, <1>2, <1>3
<1>5. InStages'
  BY <1>1, <1>2, <1>3, <1>4 DEF InStages, Stages
<1>6. FreshIds'
  BY <1>1, <1>2, <1>3, <1>4 DEF InStages, Stages, FreshIds
<1>7. CreatedAlone'
  BY <1>1, <1>2, <1>3, <1>4 DEF InStages, Stages, FreshIds, Working, CreatedAlone
<1>8. CreatedByIt'
  BY <1>1, <1>2, <1>3, <1>4 DEF InStages, Stages, FreshIds, Working, CreatedAlone,
     CreatedByIt
<1>9. BegunIsPending'
  BY <1>1, <1>2, <1>3, <1>4 DEF InStages, Stages, FreshIds, Working, CreatedAlone,
     CreatedByIt, FinishedByOne, Finishing, BegunIsPending, Uploaded
<1>10. UploadedIsStored'
  BY <1>1, <1>2, <1>3, <1>4 DEF InStages, Stages, FreshIds, Working, CreatedByIt,
     FinishedByOne, Finishing, UploadedIsStored, BegunIsPending, Uploaded
<1>11. FinishedByOne'
  BY <1>1, <1>2, <1>3, <1>4 DEF InStages, Stages, FreshIds, Working, CreatedAlone,
     CreatedByIt, FinishedByOne, Finishing, UploadedIsStored, BegunIsPending, Uploaded
<1>12. AbortedIsOver'
  BY <1>1, <1>2, <1>3, <1>4 DEF InStages, Stages, FreshIds, Working, CreatedAlone,
     CreatedByIt, AbortedIsOver, BegunIsPending, Uploaded
<1> QED BY <1>4, <1>5, <1>6, <1>7, <1>8, <1>9, <1>10, <1>11, <1>12

(* The metadata is no part of the argument. *)
LEMMA WriteMetadataKeeps ==
  ASSUME IInv, NEW s \in Slots, WriteMetadata(s)
  PROVE  IInv'
<1> USE ObjectStoreAssumption
    DEF IInv, TypeOK, WriteMetadata, At, Call, Over, NoRow, Row, Task, Status, Facts, Slots
<1>1. tasks[s] \in Task
  OBVIOUS
<1>2. \A z \in Slots : z # s => tasks'[z] = tasks[z]
  OBVIOUS
<1>3. \A p \in Objects : p # tasks[s].object => rows'[p] = rows[p] /\ store'[p] = store[p]
  OBVIOUS
<1>4. TypeOK'
  BY <1>1, <1>2, <1>3
<1>5. InStages'
  BY <1>1, <1>2, <1>3, <1>4 DEF InStages, Stages
<1>6. FreshIds'
  BY <1>1, <1>2, <1>3, <1>4 DEF InStages, Stages, FreshIds
<1>7. CreatedAlone'
  BY <1>1, <1>2, <1>3, <1>4 DEF InStages, Stages, FreshIds, Working, CreatedAlone
<1>8. CreatedByIt'
  BY <1>1, <1>2, <1>3, <1>4 DEF InStages, Stages, FreshIds, Working, CreatedAlone,
     CreatedByIt
<1>9. BegunIsPending'
  BY <1>1, <1>2, <1>3, <1>4 DEF InStages, Stages, FreshIds, Working, CreatedAlone,
     CreatedByIt, FinishedByOne, Finishing, BegunIsPending, Uploaded
<1>10. UploadedIsStored'
  BY <1>1, <1>2, <1>3, <1>4 DEF InStages, Stages, FreshIds, Working, CreatedByIt,
     FinishedByOne, Finishing, UploadedIsStored, BegunIsPending, Uploaded
<1>11. FinishedByOne'
  BY <1>1, <1>2, <1>3, <1>4 DEF InStages, Stages, FreshIds, Working, CreatedAlone,
     CreatedByIt, FinishedByOne, Finishing, UploadedIsStored, BegunIsPending, Uploaded
<1>12. AbortedIsOver'
  BY <1>1, <1>2, <1>3, <1>4 DEF InStages, Stages, FreshIds, Working, CreatedAlone,
     CreatedByIt, AbortedIsOver, BegunIsPending, Uploaded
<1> QED BY <1>4, <1>5, <1>6, <1>7, <1>8, <1>9, <1>10, <1>11, <1>12

(* The handler stays the only one. *)
LEMMA RunProcessorsKeeps ==
  ASSUME IInv, NEW s \in Slots, RunProcessors(s)
  PROVE  IInv'
<1> USE ObjectStoreAssumption
    DEF IInv, TypeOK, RunProcessors, At, Row, Task, Status, Facts, Slots
<1>1. tasks[s] \in Task
  OBVIOUS
<1>2. \A z \in Slots : z # s => tasks'[z] = tasks[z]
  OBVIOUS
<1>3. \A p \in Objects : p # tasks[s].object => rows'[p] = rows[p] /\ store'[p] = store[p]
  OBVIOUS
<1>4. TypeOK'
  BY <1>1, <1>2, <1>3
<1>5. InStages'
  BY <1>1, <1>2, <1>3, <1>4 DEF InStages, Stages
<1>6. FreshIds'
  BY <1>1, <1>2, <1>3, <1>4 DEF InStages, Stages, FreshIds
<1>7. CreatedAlone'
  BY <1>1, <1>2, <1>3, <1>4 DEF InStages, Stages, FreshIds, Working, CreatedAlone
<1>8. CreatedByIt'
  BY <1>1, <1>2, <1>3, <1>4 DEF InStages, Stages, FreshIds, Working, CreatedAlone,
     CreatedByIt
<1>9. BegunIsPending'
  BY <1>1, <1>2, <1>3, <1>4 DEF InStages, Stages, FreshIds, Working, CreatedAlone,
     CreatedByIt, FinishedByOne, Finishing, BegunIsPending, Uploaded
<1>10. UploadedIsStored'
  BY <1>1, <1>2, <1>3, <1>4 DEF InStages, Stages, FreshIds, Working, CreatedByIt,
     FinishedByOne, Finishing, UploadedIsStored, BegunIsPending, Uploaded
<1>11. FinishedByOne'
  BY <1>1, <1>2, <1>3, <1>4 DEF InStages, Stages, FreshIds, Working, CreatedAlone,
     CreatedByIt, FinishedByOne, Finishing, UploadedIsStored, BegunIsPending, Uploaded
<1>12. AbortedIsOver'
  BY <1>1, <1>2, <1>3, <1>4 DEF InStages, Stages, FreshIds, Working, CreatedAlone,
     CreatedByIt, AbortedIsOver, BegunIsPending, Uploaded
<1> QED BY <1>4, <1>5, <1>6, <1>7, <1>8, <1>9, <1>10, <1>11, <1>12

(* The row may be gone; the handler stays the only one. *)
LEMMA ReadMetadataKeeps ==
  ASSUME IInv, NEW s \in Slots, ReadMetadata(s)
  PROVE  IInv'
<1> USE ObjectStoreAssumption
    DEF IInv, TypeOK, ReadMetadata, At, Call, Over, NoRow, Row, Task, Status, Facts, Slots
<1>1. tasks[s] \in Task
  OBVIOUS
<1>2. \A z \in Slots : z # s => tasks'[z] = tasks[z]
  OBVIOUS
<1>3. \A p \in Objects : p # tasks[s].object => rows'[p] = rows[p] /\ store'[p] = store[p]
  OBVIOUS
<1>4. TypeOK'
  BY <1>1, <1>2, <1>3
<1>5. InStages'
  BY <1>1, <1>2, <1>3, <1>4 DEF InStages, Stages
<1>6. FreshIds'
  BY <1>1, <1>2, <1>3, <1>4 DEF InStages, Stages, FreshIds
<1>7. CreatedAlone'
  BY <1>1, <1>2, <1>3, <1>4 DEF InStages, Stages, FreshIds, Working, CreatedAlone
<1>8. CreatedByIt'
  BY <1>1, <1>2, <1>3, <1>4 DEF InStages, Stages, FreshIds, Working, CreatedAlone,
     CreatedByIt
<1>9. BegunIsPending'
  BY <1>1, <1>2, <1>3, <1>4 DEF InStages, Stages, FreshIds, Working, CreatedAlone,
     CreatedByIt, FinishedByOne, Finishing, BegunIsPending, Uploaded
<1>10. UploadedIsStored'
  BY <1>1, <1>2, <1>3, <1>4 DEF InStages, Stages, FreshIds, Working, CreatedByIt,
     FinishedByOne, Finishing, UploadedIsStored, BegunIsPending, Uploaded
<1>11. FinishedByOne'
  BY <1>1, <1>2, <1>3, <1>4 DEF InStages, Stages, FreshIds, Working, CreatedAlone,
     CreatedByIt, FinishedByOne, Finishing, UploadedIsStored, BegunIsPending, Uploaded
<1>12. AbortedIsOver'
  BY <1>1, <1>2, <1>3, <1>4 DEF InStages, Stages, FreshIds, Working, CreatedAlone,
     CreatedByIt, AbortedIsOver, BegunIsPending, Uploaded
<1> QED BY <1>4, <1>5, <1>6, <1>7, <1>8, <1>9, <1>10, <1>11, <1>12

(* The only handler finds the row processing, or gone. *)
LEMMA WriteOutcomeKeeps ==
  ASSUME IInv, NEW s \in Slots, WriteOutcome(s)
  PROVE  IInv'
<1> USE ObjectStoreAssumption
    DEF IInv, TypeOK, WriteOutcome, At, Call, Over, NoRow, Row, Task, Status, Facts, Slots
<1>1. tasks[s] \in Task
  OBVIOUS
<1>2. \A z \in Slots : z # s => tasks'[z] = tasks[z]
  OBVIOUS
<1>3. \A p \in Objects : p # tasks[s].object => rows'[p] = rows[p] /\ store'[p] = store[p]
  OBVIOUS
<1>4. TypeOK'
  BY <1>1, <1>2, <1>3
<1>5. InStages'
  BY <1>1, <1>2, <1>3, <1>4 DEF InStages, Stages
<1>6. FreshIds'
  BY <1>1, <1>2, <1>3, <1>4 DEF InStages, Stages, FreshIds
<1>7. CreatedAlone'
  BY <1>1, <1>2, <1>3, <1>4 DEF InStages, Stages, FreshIds, Working, CreatedAlone
<1>8. CreatedByIt'
  BY <1>1, <1>2, <1>3, <1>4 DEF InStages, Stages, FreshIds, Working, CreatedAlone,
     CreatedByIt
<1>9. BegunIsPending'
  BY <1>1, <1>2, <1>3, <1>4 DEF InStages, Stages, FreshIds, Working, CreatedAlone,
     CreatedByIt, FinishedByOne, Finishing, BegunIsPending, Uploaded
<1>10. UploadedIsStored'
  BY <1>1, <1>2, <1>3, <1>4 DEF InStages, Stages, FreshIds, Working, CreatedByIt,
     FinishedByOne, Finishing, UploadedIsStored, BegunIsPending, Uploaded
<1>11. FinishedByOne'
  BY <1>1, <1>2, <1>3, <1>4 DEF InStages, Stages, FreshIds, Working, CreatedAlone,
     CreatedByIt, FinishedByOne, Finishing, UploadedIsStored, BegunIsPending, Uploaded
<1>12. AbortedIsOver'
  BY <1>1, <1>2, <1>3, <1>4 DEF InStages, Stages, FreshIds, Working, CreatedAlone,
     CreatedByIt, AbortedIsOver, BegunIsPending, Uploaded
<1> QED BY <1>4, <1>5, <1>6, <1>7, <1>8, <1>9, <1>10, <1>11, <1>12

(* A new id is unknown to all. *)
LEMMA UploadKeeps ==
  ASSUME IInv, NEW r \in Requests, NEW o \in Objects, Upload(r, o)
  PROVE  IInv'
<1> USE ObjectStoreAssumption
    DEF IInv, TypeOK, Upload, At, Start, NewTask, Row, Task, Status, Facts, Slots
<1>1. TypeOK'
  OBVIOUS
<1>2. InStages'
  BY <1>1 DEF InStages, Stages
<1>3. FreshIds'
  BY <1>1 DEF InStages, Stages, FreshIds
<1>4. CreatedAlone'
  BY <1>1 DEF InStages, Stages, FreshIds, Working, CreatedAlone
<1>5. CreatedByIt'
  BY <1>1 DEF InStages, Stages, FreshIds, Working, CreatedAlone, CreatedByIt
<1>6. BegunIsPending'
  BY <1>1 DEF InStages, Stages, FreshIds, Working, CreatedAlone, CreatedByIt,
     FinishedByOne, Finishing, BegunIsPending, Uploaded
<1>7. UploadedIsStored'
  BY <1>1 DEF InStages, Stages, FreshIds, Working, CreatedByIt, FinishedByOne, Finishing,
     UploadedIsStored, BegunIsPending, Uploaded
<1>8. FinishedByOne'
  BY <1>1 DEF InStages, Stages, FreshIds, Working, CreatedAlone, CreatedByIt,
     FinishedByOne, Finishing, UploadedIsStored, BegunIsPending, Uploaded
<1>9. AbortedIsOver'
  BY <1>1 DEF InStages, Stages, FreshIds, Working, CreatedAlone, CreatedByIt,
     AbortedIsOver, BegunIsPending, Uploaded
<1> QED BY <1>1, <1>2, <1>3, <1>4, <1>5, <1>6, <1>7, <1>8, <1>9

(* An object that has a row is not being created. *)
LEMMA EndUploadKeeps ==
  ASSUME IInv, NEW r \in Requests, NEW o \in Objects, EndUpload(r, o)
  PROVE  IInv'
<1> USE ObjectStoreAssumption
    DEF IInv, TypeOK, EndUpload, At, Start, NewTask, Row, Task, Status, Facts, Slots
<1>1. TypeOK'
  OBVIOUS
<1>2. InStages'
  BY <1>1 DEF InStages, Stages
<1>3. FreshIds'
  BY <1>1 DEF InStages, Stages, FreshIds
<1>4. CreatedAlone'
  BY <1>1 DEF InStages, Stages, FreshIds, Working, CreatedAlone
<1>5. CreatedByIt'
  BY <1>1 DEF InStages, Stages, FreshIds, Working, CreatedAlone, CreatedByIt
<1>6. BegunIsPending'
  BY <1>1 DEF InStages, Stages, FreshIds, Working, CreatedAlone, CreatedByIt,
     FinishedByOne, Finishing, BegunIsPending, Uploaded
<1>7. UploadedIsStored'
  BY <1>1 DEF InStages, Stages, FreshIds, Working, CreatedByIt, FinishedByOne, Finishing,
     UploadedIsStored, BegunIsPending, Uploaded
<1>8. FinishedByOne'
  BY <1>1 DEF InStages, Stages, FreshIds, Working, CreatedAlone, CreatedByIt,
     FinishedByOne, Finishing, UploadedIsStored, BegunIsPending, Uploaded
<1>9. AbortedIsOver'
  BY <1>1 DEF InStages, Stages, FreshIds, Working, CreatedAlone, CreatedByIt,
     AbortedIsOver, BegunIsPending, Uploaded
<1> QED BY <1>1, <1>2, <1>3, <1>4, <1>5, <1>6, <1>7, <1>8, <1>9

(* An object that has a row is not being created. *)
LEMMA DeleteKeeps ==
  ASSUME IInv, NEW r \in Requests, NEW o \in Objects, Delete(r, o)
  PROVE  IInv'
<1> USE ObjectStoreAssumption
    DEF IInv, TypeOK, Delete, At, Start, NewTask, Row, Task, Status, Facts, Slots
<1>1. TypeOK'
  OBVIOUS
<1>2. InStages'
  BY <1>1 DEF InStages, Stages
<1>3. FreshIds'
  BY <1>1 DEF InStages, Stages, FreshIds
<1>4. CreatedAlone'
  BY <1>1 DEF InStages, Stages, FreshIds, Working, CreatedAlone
<1>5. CreatedByIt'
  BY <1>1 DEF InStages, Stages, FreshIds, Working, CreatedAlone, CreatedByIt
<1>6. BegunIsPending'
  BY <1>1 DEF InStages, Stages, FreshIds, Working, CreatedAlone, CreatedByIt,
     FinishedByOne, Finishing, BegunIsPending, Uploaded
<1>7. UploadedIsStored'
  BY <1>1 DEF InStages, Stages, FreshIds, Working, CreatedByIt, FinishedByOne, Finishing,
     UploadedIsStored, BegunIsPending, Uploaded
<1>8. FinishedByOne'
  BY <1>1 DEF InStages, Stages, FreshIds, Working, CreatedAlone, CreatedByIt,
     FinishedByOne, Finishing, UploadedIsStored, BegunIsPending, Uploaded
<1>9. AbortedIsOver'
  BY <1>1 DEF InStages, Stages, FreshIds, Working, CreatedAlone, CreatedByIt,
     AbortedIsOver, BegunIsPending, Uploaded
<1> QED BY <1>1, <1>2, <1>3, <1>4, <1>5, <1>6, <1>7, <1>8, <1>9

(* An object that has a row is not being created. *)
LEMMA UpdateMetadataKeeps ==
  ASSUME IInv, NEW r \in Requests, NEW o \in Objects, UpdateMetadata(r, o)
  PROVE  IInv'
<1> USE ObjectStoreAssumption
    DEF IInv, TypeOK, UpdateMetadata, At, Start, Row, Task, Status, Facts, Slots
<1>1. TypeOK'
  OBVIOUS
<1>2. InStages'
  BY <1>1 DEF InStages, Stages
<1>3. FreshIds'
  BY <1>1 DEF InStages, Stages, FreshIds
<1>4. CreatedAlone'
  BY <1>1 DEF InStages, Stages, FreshIds, Working, CreatedAlone
<1>5. CreatedByIt'
  BY <1>1 DEF InStages, Stages, FreshIds, Working, CreatedAlone, CreatedByIt
<1>6. BegunIsPending'
  BY <1>1 DEF InStages, Stages, FreshIds, Working, CreatedAlone, CreatedByIt,
     FinishedByOne, Finishing, BegunIsPending, Uploaded
<1>7. UploadedIsStored'
  BY <1>1 DEF InStages, Stages, FreshIds, Working, CreatedByIt, FinishedByOne, Finishing,
     UploadedIsStored, BegunIsPending, Uploaded
<1>8. FinishedByOne'
  BY <1>1 DEF InStages, Stages, FreshIds, Working, CreatedAlone, CreatedByIt,
     FinishedByOne, Finishing, UploadedIsStored, BegunIsPending, Uploaded
<1>9. AbortedIsOver'
  BY <1>1 DEF InStages, Stages, FreshIds, Working, CreatedAlone, CreatedByIt,
     AbortedIsOver, BegunIsPending, Uploaded
<1> QED BY <1>1, <1>2, <1>3, <1>4, <1>5, <1>6, <1>7, <1>8, <1>9

(* What the cleanup lists has rows, and is not being created. *)
LEMMA StartCleanupKeeps ==
  ASSUME IInv, StartCleanup
  PROVE  IInv'
<1> USE ObjectStoreAssumption
    DEF IInv, TypeOK, StartCleanup, At, Stale, Row, Task, Status, Facts, Slots
<1>1. TypeOK'
  OBVIOUS
<1>2. InStages'
  BY <1>1 DEF InStages, Stages
<1>3. FreshIds'
  BY <1>1 DEF InStages, Stages, FreshIds
<1>4. CreatedAlone'
  BY <1>1 DEF InStages, Stages, FreshIds, Working, CreatedAlone
<1>5. CreatedByIt'
  BY <1>1 DEF InStages, Stages, FreshIds, Working, CreatedAlone, CreatedByIt
<1>6. BegunIsPending'
  BY <1>1 DEF InStages, Stages, FreshIds, Working, CreatedAlone, CreatedByIt,
     FinishedByOne, Finishing, BegunIsPending, Uploaded
<1>7. UploadedIsStored'
  BY <1>1 DEF InStages, Stages, FreshIds, Working, CreatedByIt, FinishedByOne, Finishing,
     UploadedIsStored, BegunIsPending, Uploaded
<1>8. FinishedByOne'
  BY <1>1 DEF InStages, Stages, FreshIds, Working, CreatedAlone, CreatedByIt,
     FinishedByOne, Finishing, UploadedIsStored, BegunIsPending, Uploaded
<1>9. AbortedIsOver'
  BY <1>1 DEF InStages, Stages, FreshIds, Working, CreatedAlone, CreatedByIt,
     AbortedIsOver, BegunIsPending, Uploaded
<1> QED BY <1>1, <1>2, <1>3, <1>4, <1>5, <1>6, <1>7, <1>8, <1>9

(* The cleanup goes on with an object of its list. *)
LEMMA NextStaleKeeps ==
  ASSUME IInv, NextStale
  PROVE  IInv'
<1> USE ObjectStoreAssumption
    DEF IInv, TypeOK, NextStale, At, Row, Task, Status, Facts, Slots
<1>1. TypeOK'
  OBVIOUS
<1>2. InStages'
  BY <1>1 DEF InStages, Stages
<1>3. FreshIds'
  BY <1>1 DEF InStages, Stages, FreshIds
<1>4. CreatedAlone'
  BY <1>1 DEF InStages, Stages, FreshIds, Working, CreatedAlone
<1>5. CreatedByIt'
  BY <1>1 DEF InStages, Stages, FreshIds, Working, CreatedAlone, CreatedByIt
<1>6. BegunIsPending'
  BY <1>1 DEF InStages, Stages, FreshIds, Working, CreatedAlone, CreatedByIt,
     FinishedByOne, Finishing, BegunIsPending, Uploaded
<1>7. UploadedIsStored'
  BY <1>1 DEF InStages, Stages, FreshIds, Working, CreatedByIt, FinishedByOne, Finishing,
     UploadedIsStored, BegunIsPending, Uploaded
<1>8. FinishedByOne'
  BY <1>1 DEF InStages, Stages, FreshIds, Working, CreatedAlone, CreatedByIt,
     FinishedByOne, Finishing, UploadedIsStored, BegunIsPending, Uploaded
<1>9. AbortedIsOver'
  BY <1>1 DEF InStages, Stages, FreshIds, Working, CreatedAlone, CreatedByIt,
     AbortedIsOver, BegunIsPending, Uploaded
<1> QED BY <1>1, <1>2, <1>3, <1>4, <1>5, <1>6, <1>7, <1>8, <1>9

(* Age is no part of the argument. *)
LEMMA AgeKeeps ==
  ASSUME IInv, NEW o \in Objects, Age(o)
  PROVE  IInv'
<1>1. TypeOK'
  <2>1. [rows[o] EXCEPT !.old = TRUE] \in Row
    <3>1. rows[o] \in Row
      BY DEF Age, IInv, TypeOK
    <3>2. QED
      BY <3>1, Zenon DEF Row
  <2>2. rows' = [rows EXCEPT ![o] = [rows[o] EXCEPT !.old = TRUE]]
    BY DEF Age
  <2> DEFINE row == [rows[o] EXCEPT !.old = TRUE]
  <2> HIDE DEF row
  <2>3. rows' \in [Objects -> Row \cup {None}]
    BY <2>1, <2>2 DEF row, IInv, TypeOK
  <2>4. QED
    BY <2>3 DEF Age, IInv, TypeOK
<1> USE ObjectStoreAssumption
    DEF IInv, TypeOK, Age, At, Row, Task, Status, Facts, Slots
<1>2. InStages'
  BY <1>1 DEF InStages, Stages
<1>3. FreshIds'
  BY <1>1 DEF InStages, Stages, FreshIds
<1>4. CreatedAlone'
  BY <1>1 DEF InStages, Stages, FreshIds, Working, CreatedAlone
<1>5. CreatedByIt'
  BY <1>1 DEF InStages, Stages, FreshIds, Working, CreatedAlone, CreatedByIt
<1>6. BegunIsPending'
  BY <1>1 DEF InStages, Stages, FreshIds, Working, CreatedAlone, CreatedByIt,
     FinishedByOne, Finishing, BegunIsPending, Uploaded
<1>7. UploadedIsStored'
  BY <1>1 DEF InStages, Stages, FreshIds, Working, CreatedByIt, FinishedByOne, Finishing,
     UploadedIsStored, BegunIsPending, Uploaded
<1>8. FinishedByOne'
  BY <1>1 DEF InStages, Stages, FreshIds, Working, CreatedAlone, CreatedByIt,
     FinishedByOne, Finishing, UploadedIsStored, BegunIsPending, Uploaded
<1>9. AbortedIsOver'
  BY <1>1 DEF InStages, Stages, FreshIds, Working, CreatedAlone, CreatedByIt,
     AbortedIsOver, BegunIsPending, Uploaded
<1> QED BY <1>1, <1>2, <1>3, <1>4, <1>5, <1>6, <1>7, <1>8, <1>9

(* Nothing is claimed of tasks that are gone. *)
LEMMA RestartKeeps ==
  ASSUME IInv, Restart
  PROVE  IInv'
<1> USE ObjectStoreAssumption
    DEF IInv, TypeOK, Restart, At, Row, Task, Status, Facts, Slots
<1>1. TypeOK'
  OBVIOUS
<1>2. InStages'
  BY <1>1 DEF InStages, Stages
<1>3. FreshIds'
  BY <1>1 DEF InStages, Stages, FreshIds
<1>4. CreatedAlone'
  BY <1>1 DEF InStages, Stages, FreshIds, Working, CreatedAlone
<1>5. CreatedByIt'
  BY <1>1 DEF InStages, Stages, FreshIds, Working, CreatedAlone, CreatedByIt
<1>6. BegunIsPending'
  BY <1>1 DEF InStages, Stages, FreshIds, Working, CreatedAlone, CreatedByIt,
     FinishedByOne, Finishing, BegunIsPending, Uploaded
<1>7. UploadedIsStored'
  BY <1>1 DEF InStages, Stages, FreshIds, Working, CreatedByIt, FinishedByOne, Finishing,
     UploadedIsStored, BegunIsPending, Uploaded
<1>8. FinishedByOne'
  BY <1>1 DEF InStages, Stages, FreshIds, Working, CreatedAlone, CreatedByIt,
     FinishedByOne, Finishing, UploadedIsStored, BegunIsPending, Uploaded
<1>9. AbortedIsOver'
  BY <1>1 DEF InStages, Stages, FreshIds, Working, CreatedAlone, CreatedByIt,
     AbortedIsOver, BegunIsPending, Uploaded
<1> QED BY <1>1, <1>2, <1>3, <1>4, <1>5, <1>6, <1>7, <1>8, <1>9

(* The invariant is inductive. *)
LEMMA Inductive == Spec => []IInv
<1>1. IInv /\ [Next]_vars => IInv'
  <2> SUFFICES ASSUME IInv, [Next]_vars PROVE IInv'
    OBVIOUS
  <2>1. ASSUME NEW r \in Requests, NEW o \in Objects, Request(r, o) PROVE IInv'
    BY <2>1, UploadKeeps, EndUploadKeeps, DeleteKeeps, UpdateMetadataKeeps DEF Request
  <2>2. ASSUME NEW s \in Slots, S3Call(s) PROVE IInv'
    BY <2>2, InitMultipartUploadKeeps, PutObjectKeeps, CompleteMultipartUploadKeeps,
       RefusePartsKeeps, AbortMultipartUploadKeeps, DeleteObjectKeeps DEF S3Call
  <2>3. ASSUME NEW s \in Slots, DatabaseCall(s) PROVE IInv'
    BY <2>3, CreatePendingKeeps, CreateProcessingKeeps, RecordChunksKeeps,
     MarkProcessingKeeps,
       DeleteRowKeeps, WriteMetadataKeeps, ReadMetadataKeeps,
     WriteOutcomeKeeps DEF DatabaseCall
  <2>4. ASSUME NEW s \in Slots, RunProcessors(s) PROVE IInv'
    BY <2>4, RunProcessorsKeeps
  <2>5. ASSUME NEW s \in Slots, Step(s) PROVE IInv'
    BY <2>2, <2>3, <2>4, <2>5 DEF Step
  <2>6. CASE StartCleanup \/ NextStale
    BY <2>6, StartCleanupKeeps, NextStaleKeeps
  <2>7. ASSUME NEW o \in Objects, Age(o) PROVE IInv'
    BY <2>7, AgeKeeps
  <2>8. CASE Restart
    BY <2>8, RestartKeeps
  <2>9. CASE UNCHANGED vars
    BY <2>9 DEF vars, IInv, TypeOK, InStages, FreshIds, CreatedAlone, CreatedByIt,
     BegunIsPending,
       UploadedIsStored, FinishedByOne, Finishing, AbortedIsOver, At, Working
  <2> QED BY <2>1, <2>5, <2>6, <2>7, <2>8, <2>9 DEF Next
<1> QED BY InitHolds, <1>1, PTL DEF Spec

(* Type correctness of the table, of S3 and of the requests at work. *)
THEOREM ObjectStoreType == Spec => []TypeOK
<1>1. IInv => TypeOK
  BY DEF IInv
<1> QED BY <1>1, Inductive, PTL

(* Whatever requests, failures, restarts and cleanups interleave: a row whose    *)
(* status says that the upload is over has its file in S3, unless its owner      *)
(* asked for its deletion.                                                       *)
THEOREM UploadsAreStored == Spec => []UploadedIsStored
<1>1. IInv => UploadedIsStored
  BY DEF IInv
<1> QED BY <1>1, Inductive, PTL

(* An object is processed by one handler at most, although completeUpload()      *)
(* never looks at the status of the row.                                         *)
THEOREM OneHandler == Spec => []ProcessedOnce
<1>1. IInv => ProcessedOnce
  BY DEF IInv, ProcessedOnce, FinishedByOne, Finishing
<1> QED BY <1>1, Inductive, PTL

(* Neither an abort nor the cleanup removes the row of a stored object. *)
THEOREM StoredSpared == Spec => StoredIsSpared
<1> DEFINE Spared ==
      \A o \in Objects :
        rows[o] # None /\ rows'[o] = None /\ "file" \in store[o] => o \in asked
<1>1. IInv /\ [Next]_vars => Spared
  <2> SUFFICES ASSUME IInv, Next, NEW o \in Objects, rows[o] # None, rows'[o] = None,
                      "file" \in store[o]
               PROVE  o \in asked
    BY DEF vars
  <2>1. PICK s \in Slots : DeleteRow(s) /\ tasks[s].object = o
    <3> USE DEF IInv, TypeOK, Call, Over, Row
    <3>1. ASSUME NEW r \in Requests, NEW p \in Objects, Request(r, p) PROVE FALSE
      BY <3>1 DEF Request, Upload, EndUpload, Delete, UpdateMetadata
    <3>2. ASSUME NEW s \in Slots, S3Call(s) PROVE FALSE
      BY <3>2 DEF S3Call, InitMultipartUpload, PutObject, CompleteMultipartUpload,
     RefuseParts,
           AbortMultipartUpload, DeleteObject
    <3>3. ASSUME NEW s \in Slots, DatabaseCall(s) PROVE DeleteRow(s) /\ tasks[s].object = o
      <4> USE ObjectStoreAssumption, <3>3 DEF At, Task, NoRow
      <4>1. CASE DeleteRow(s)
        BY <4>1 DEF DeleteRow
      <4>2. CASE CreatePending(s) \/ CreateProcessing(s)
        BY <4>2 DEF CreatePending, CreateProcessing, Working, CreatedAlone
      <4>3. CASE RecordChunks(s) \/ ReadMetadata(s)
        BY <4>3 DEF RecordChunks, ReadMetadata
      <4>4. CASE MarkProcessing(s)
        BY <4>4 DEF MarkProcessing, Status
      <4>5. CASE WriteMetadata(s)
        BY <4>5 DEF WriteMetadata
      <4>6. CASE WriteOutcome(s)
        BY <4>6 DEF WriteOutcome, Status
      <4> QED BY <4>1, <4>2, <4>3, <4>4, <4>5, <4>6 DEF DatabaseCall
    <3>4. ASSUME NEW s \in Slots, RunProcessors(s) PROVE FALSE
      BY <3>4 DEF RunProcessors
    <3>5. ~StartCleanup /\ ~NextStale /\ ~Restart
      BY DEF StartCleanup, NextStale, Restart
    <3>6. ASSUME NEW p \in Objects, Age(p) PROVE FALSE
      BY <3>6, ObjectStoreAssumption DEF Age
    <3> QED BY <3>1, <3>2, <3>3, <3>4, <3>5, <3>6 DEF Next, Step
  <2>2. tasks[s].op \in {"abort", "cleanup", "delete"}
    BY <2>1 DEF DeleteRow, At, IInv, InStages, Stages
  <2>3. tasks[s].op = "delete"
    BY <2>1, <2>2 DEF DeleteRow, At, IInv, AbortedIsOver
  <2> QED BY <2>1, <2>3 DEF DeleteRow, At, IInv, InStages
<1> QED BY <1>1, Inductive, PTL DEF Spec, StoredIsSpared

(* While nothing fails, no file and no upload is left in S3 that neither a row   *)
(* nor a request knows: initUpload() and simpleUpload() end with the row, and    *)
(* abortUpload(), delete() and the cleanup turn to S3 before the row.            *)
THEOREM NothingIsOrphaned == Spec => []NothingOrphaned
<1>1. Init => NothingOrphaned
  BY DEF Init, NothingOrphaned
<1>2. IInv /\ NothingOrphaned /\ [Next]_vars => NothingOrphaned'
  <2> SUFFICES ASSUME IInv, NothingOrphaned, [Next]_vars, faults' = 0, NEW o \in Objects,
                      store'[o] # {}
               PROVE  \/ rows'[o] # None \/ o \in asked'
                      \/ \E z \in Slots : Working(z, o, {"init", "simple"})'
    BY DEF NothingOrphaned
  <2> DEFINE known == \/ rows[o] # None \/ o \in asked
                      \/ \E z \in Slots : Working(z, o, {"init", "simple"})
  <2>1. TypeOK /\ InStages /\ AbortedIsOver
    BY DEF IInv
  <2>2. ASSUME faults = 0, store[o] # {} PROVE known
    BY <2>2 DEF NothingOrphaned
  <2> HIDE DEF known
  <2>3. ASSUME NEW s \in Slots, S3Call(s) \/ DatabaseCall(s) \/ RunProcessors(s)
        PROVE  known'
    <3>1. tasks[s] \in Task /\ tasks[s] # None /\ <<tasks[s].op, tasks[s].stage>> \in Stages
      BY <2>1, <2>3 DEF S3Call, InitMultipartUpload, PutObject, CompleteMultipartUpload,
         RefuseParts, AbortMultipartUpload, DeleteObject, DatabaseCall, CreatePending,
         CreateProcessing, RecordChunks, MarkProcessing, DeleteRow, WriteMetadata,
         ReadMetadata, WriteOutcome, RunProcessors, At, TypeOK, InStages
    <3>2. CASE InitMultipartUpload(s) \/ PutObject(s)
      <4>1. /\ tasks'[s] = [tasks[s] EXCEPT !.stage = "create"] /\ faults = 0
            /\ rows' = rows /\ asked' = asked /\ tasks[s].op \in {"init", "simple"}
            /\ tasks[s].object # o => store'[o] = store[o]
            /\ \A z \in Slots \ {s} : tasks'[z] = tasks[z]
        BY <2>1, <3>1, <3>2 DEF Call, InitMultipartUpload, PutObject, At, TypeOK, Stages
      <4>2. tasks'[s] # None /\ tasks'[s].op = tasks[s].op /\ tasks'[s].object = tasks[s].object
        <5>1. [tasks[s] EXCEPT !.stage = "create"] \in Task
          BY <3>1 DEF Task
        <5> QED BY <3>1, <4>1, <5>1, ObjectStoreAssumption DEF Task
      <4>3. tasks[s].object = o => known'
        BY <4>1, <4>2 DEF known, Working
      <4>4. tasks[s].object # o => known'
        BY <2>2, <4>1 DEF known, Working
      <4> QED BY <4>3, <4>4
    <3>3. CASE CreatePending(s) \/ CreateProcessing(s)
      <4>1. PendingRow # None /\ UploadedRow # None
        <5>1. PendingRow \in Row /\ UploadedRow \in Row
          BY DEF PendingRow, UploadedRow, Row, Status, Facts
        <5> QED BY <5>1, ObjectStoreAssumption
      <4>2. /\ faults = 0 /\ store' = store /\ asked' = asked
            /\ rows'[tasks[s].object] # None
            /\ \A p \in Objects \ {tasks[s].object} : rows'[p] = rows[p]
            /\ \A z \in Slots \ {s} : tasks'[z] = tasks[z]
        BY <2>1, <3>1, <3>3, <4>1 DEF Call, CreatePending, CreateProcessing, TypeOK, Task
      <4> QED BY <2>2, <4>2 DEF known, Working
    <3>4. CASE CompleteMultipartUpload(s) \/ RefuseParts(s) \/ AbortMultipartUpload(s)
               \/ DeleteObject(s)
      <4>1. /\ faults = 0 /\ rows' = rows /\ asked' = asked
            /\ store[o] # {} /\ tasks[s].op \notin {"init", "simple"}
            /\ \A z \in Slots \ {s} : tasks'[z] = tasks[z]
        BY <2>1, <3>1, <3>4
        DEF Call, CompleteMultipartUpload, RefuseParts, AbortMultipartUpload, DeleteObject, At,
            NoUpload, TypeOK, Task, Stages
      <4> QED BY <2>2, <4>1 DEF known, Working
    <3>5. CASE RecordChunks(s) \/ MarkProcessing(s) \/ WriteMetadata(s) \/ ReadMetadata(s)
               \/ WriteOutcome(s) \/ RunProcessors(s)
      <4>1. /\ faults = 0 /\ store' = store /\ asked' = asked
            /\ tasks[s].op \notin {"init", "simple"}
            /\ \A z \in Slots \ {s} : tasks'[z] = tasks[z]
        BY <2>1, <3>1, <3>5
        DEF Call, RecordChunks, MarkProcessing, WriteMetadata, ReadMetadata, WriteOutcome,
            RunProcessors, At, TypeOK, Stages
      <4>2. rows[o] # None => rows'[o] # None
        <5>1. rows \in [Objects -> Row \cup {None}] /\ tasks[s].object \in Objects
          BY <2>1, <3>1 DEF TypeOK, Task
        <5>2. CASE RecordChunks(s) \/ ReadMetadata(s) \/ RunProcessors(s)
          BY <2>1, <5>2 DEF Call, RecordChunks, ReadMetadata, RunProcessors
        <5>3. CASE MarkProcessing(s)
          BY <2>1, <5>1, <5>3, ObjectStoreAssumption
          DEF Call, MarkProcessing, Row, Status
        <5>4. CASE WriteMetadata(s) \/ WriteOutcome(s)
          <6>1. PICK p \in Objects : p = tasks[s].object
            BY <5>1
          <6>2. tasks[s].facts \in SUBSET Facts
            BY <3>1 DEF Task
          <6> PICK st \in Status : st = IF tasks[s].op = "ready" THEN "ready" ELSE "failed"
            BY DEF Status
          <6>3. \/ rows' = rows
                \/ /\ rows[p] # None
                   /\ \/ rows' = [rows EXCEPT ![p].meta = tasks[s].facts]
                      \/ rows' = [rows EXCEPT ![p].meta = tasks[s].facts, ![p].status = st]
            BY <2>1, <5>4, <6>1 DEF WriteMetadata, WriteOutcome, Call, NoRow, TypeOK
          <6>4. rows' = rows \/ (rows'[p] \in Row /\ \A q \in Objects \ {p} : rows'[q] = rows[q])
            <7> PICK m \in SUBSET Facts : m = tasks[s].facts
              BY <6>2
            <7>1. ASSUME rows[p] \in Row, rows' = [rows EXCEPT ![p].meta = m]
                  PROVE  rows'[p] \in Row /\ \A q \in Objects \ {p} : rows'[q] = rows[q]
              BY <5>1, <7>1 DEF Row
            <7>2. ASSUME rows[p] \in Row,
                         rows' = [rows EXCEPT ![p].meta = m, ![p].status = st]
                  PROVE  rows'[p] \in Row /\ \A q \in Objects \ {p} : rows'[q] = rows[q]
              BY <5>1, <7>2 DEF Row
            <7> QED BY <5>1, <6>3, <7>1, <7>2
          <6> QED BY <6>4, ObjectStoreAssumption
        <5> QED BY <3>5, <5>2, <5>3, <5>4
      <4> QED BY <2>2, <4>1, <4>2 DEF known, Working
    <3>6. CASE DeleteRow(s)
      <4>1. /\ faults = 0 /\ store' = store /\ asked' = asked
            /\ tasks[s].op \in {"abort", "cleanup", "delete"}
            /\ \A z \in Slots \ {s} : tasks'[z] = tasks[z]
            /\ \A p \in Objects \ {tasks[s].object} : rows'[p] = rows[p]
        BY <2>1, <3>1, <3>6 DEF Call, DeleteRow, At, TypeOK, Stages
      <4>2. tasks[s].op = "delete" => tasks[s].object \in asked
        BY <2>1, <3>1 DEF InStages
      <4>3. tasks[s].op # "delete" => store[tasks[s].object] = {}
        BY <2>1, <3>6, <4>1 DEF AbortedIsOver, DeleteRow
      <4> QED BY <2>2, <4>1, <4>2, <4>3 DEF known, Working
    <3> QED BY <2>3, <3>2, <3>3, <3>4, <3>5, <3>6 DEF S3Call, DatabaseCall
  <2>4. CASE \/ UNCHANGED vars \/ StartCleanup \/ NextStale
             \/ \E r \in Requests, p \in Objects : Request(r, p)
             \/ \E p \in Objects : Age(p)
    <3>1. /\ faults = 0 /\ store' = store /\ asked \subseteq asked'
          /\ rows[o] # None => rows'[o] # None
      <4>1. CASE ~\E p \in Objects : Age(p)
        BY <2>4, <4>1 DEF vars, StartCleanup, NextStale, Request, Upload, EndUpload, Delete,
           UpdateMetadata
      <4>2. ASSUME NEW p \in Objects, Age(p)
            PROVE  /\ faults = 0 /\ store' = store /\ asked' = asked
                   /\ rows[o] # None => rows'[o] # None
        <5>1. IInv'
          BY <4>2, AgeKeeps
        <5> QED BY <2>1, <4>2, <5>1, ObjectStoreAssumption DEF Age, TypeOK, Row
      <4> QED BY <4>1, <4>2
    <3>2. \A z \in Slots : tasks[z] # None /\ tasks[z].op \in {"init", "simple"} =>
                             tasks'[z] = tasks[z]
      BY <2>1, <2>4 DEF vars, StartCleanup, NextStale, Request, Upload, EndUpload, Delete,
         UpdateMetadata, Start, Age, At, TypeOK, InStages
    <3> QED BY <2>2, <3>1, <3>2 DEF known, Working
  <2>5. ~Restart
    BY <2>1 DEF Restart, TypeOK
  <2> QED BY <2>3, <2>4, <2>5 DEF Next, Step, known
<1> QED BY <1>1, <1>2, Inductive, PTL DEF Spec
=============================================================================
