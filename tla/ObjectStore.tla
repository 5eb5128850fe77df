---------------------------- MODULE ObjectStore ----------------------------
(* The uploads of the API server: apps/api/src/storage.  An object is a row of *)
(* the table storage_objects and what S3 holds under its key: an unfinished     *)
(* multipart upload or the file.  Every request, the processing of an uploaded  *)
(* object and the daily cleanup go through a few awaited calls, to S3 and to    *)
(* the database; between two calls of one of them the others run, any call may  *)
(* fail - performed or not - and the server may be restarted.                   *)
(* A request of a user who does not own the object, or for an object without a  *)
(* row, is refused before its first call and is left out; so are the requests   *)
(* that only read, the audit events, and the transfer of parts to signed URLs,  *)
(* which goes past the server.                                                  *)
EXTENDS Naturals, FiniteSets

CONSTANTS Objects,      \* ids of rows; the key in S3 is the object's own
          Requests,     \* requests the server works on at a time
          Cron,         \* the scheduled cleanup
          Keys,         \* metadata keys that users choose
          None,         \* no row, no task
          MaxFaults     \* bound on failed calls and restarts

VARIABLES rows,     \* the table: a row, or None, for every id
          store,    \* S3: the upload begun and the file, if any, of every key
          tasks,    \* where each request, and the cleanup, has got to
          used,     \* ids given out: randomUUID() repeats none
          asked,    \* objects whose owner has asked for their deletion
          faults    \* failed calls and restarts so far

vars == <<rows, store, tasks, used, asked, faults>>

Slots  == Requests \cup {Cron}
Status == {"pending", "uploading", "processing", "ready", "failed"}
Facts  == Keys \cup {"processing", "processingFailed"}

(* old: created more than CLEANUP_AGE_HOURS ago. *)
Row == [status : Status, multipart : BOOLEAN, meta : SUBSET Facts, old : BOOLEAN]

(* facts: the metadata that the task is to write; left: the stale uploads that *)
(* the cleanup has still to see to.                                            *)
Task == [op : {"init", "simple", "complete", "abort", "delete", "merge",
               "process", "ready", "fail", "cleanup"},
         object : Objects,
         stage : {"begin", "put", "create", "chunks", "finish", "mark", "abort",
                  "erase", "row", "write", "run", "read", "next"},
         facts : SUBSET Facts,
         left : SUBSET Objects]

ASSUME ObjectStoreAssumption ==
  /\ Cron \notin Requests
  /\ MaxFaults \in Nat
  /\ None \notin Row
  /\ None \notin Task

(* The rows that initUpload() and simpleUpload() create. *)
PendingRow == [status |-> "pending", multipart |-> TRUE, meta |-> {}, old |-> FALSE]
UploadedRow == [status |-> "processing", multipart |-> FALSE, meta |-> {}, old |-> FALSE]

NewTask(op, o, stage) ==
  [op |-> op, object |-> o, stage |-> stage, facts |-> {}, left |-> {}]

Init ==
  /\ rows = [o \in Objects |-> None]
  /\ store = [o \in Objects |-> {}]
  /\ tasks = [s \in Slots |-> None]
  /\ used = {}
  /\ asked = {}
  /\ faults = 0

At(s, stage) == tasks[s] # None /\ tasks[s].stage = stage

(*--------------------------- calls that may fail --------------------------*)

(* Mutation: the cleanup swallows the error of the abort and deletes the row. *)
Over_deletesRow(t) ==
  IF t.op = "cleanup"
  THEN [t EXCEPT !.stage = IF t.stage = "abort" THEN "row" ELSE "next"]
  ELSE None

(* A task ends when a call throws; the cleanup goes on to its next upload. *)
Over(t) == IF t.op = "cleanup" THEN [t EXCEPT !.stage = "next"] ELSE None

(* The call of slot s: refused by the callee, performed and answered, or        *)
(* failed by a fault, performed or not.  next is the task after a good answer.  *)
Call(s, refused, rows1, store1, next) ==
  /\ \/ /\ ~refused
        /\ rows' = rows1
        /\ store' = store1
        /\ tasks' = [tasks EXCEPT ![s] = next]
        /\ UNCHANGED faults
     \/ /\ refused
        /\ tasks' = [tasks EXCEPT ![s] = Over(@)]
        /\ UNCHANGED <<rows, store, faults>>
     \/ /\ faults < MaxFaults
        /\ faults' = faults + 1
        /\ tasks' = [tasks EXCEPT ![s] = Over(@)]
        /\ \/ UNCHANGED <<rows, store>>
           \/ ~refused /\ rows' = rows1 /\ store' = store1
  /\ UNCHANGED <<used, asked>>

(* update and delete of a row that is gone throw (P2025). *)
NoRow(s) == rows[tasks[s].object] = None

(* S3 knows no upload that was aborted or completed (NoSuchUpload). *)
NoUpload(s) == "upload" \notin store[tasks[s].object]

(*------------------------------- the requests -----------------------------*)

Start(r, t) ==
  /\ r \in Requests
  /\ tasks[r] = None
  /\ tasks' = [tasks EXCEPT ![r] = t]

(* initUpload() and simpleUpload(), with a new key. *)
Upload(r, o) ==
  /\ o \notin used
  /\ used' = used \cup {o}
  /\ \/ Start(r, NewTask("init", o, "begin"))
     \/ Start(r, NewTask("simple", o, "put"))
  /\ UNCHANGED <<rows, store, asked, faults>>

(* Mutation: abortUpload() deletes the row without telling S3. *)
EndUpload_rowOnly(r, o) ==
  /\ rows[o] # None
  /\ rows[o].multipart
  /\ \/ Start(r, NewTask("complete", o, "chunks"))
     \/ Start(r, NewTask("abort", o, "row"))
  /\ UNCHANGED <<rows, store, used, asked, faults>>

(* completeUpload() and abortUpload() have read the row: any status will do. *)
EndUpload(r, o) ==
  /\ rows[o] # None
  /\ rows[o].multipart
  /\ \/ Start(r, NewTask("complete", o, "chunks"))
     \/ Start(r, NewTask("abort", o, "abort"))
  /\ UNCHANGED <<rows, store, used, asked, faults>>

(* delete() has read the row: any status will do. *)
Delete(r, o) ==
  /\ rows[o] # None
  /\ Start(r, NewTask("delete", o, "erase"))
  /\ asked' = asked \cup {o}
  /\ UNCHANGED <<rows, store, used, faults>>

(* updateMetadata() has read the row and merged its own keys. *)
UpdateMetadata(r, o) ==
  /\ rows[o] # None
  /\ \E facts \in SUBSET Keys :
       Start(r, [op |-> "merge", object |-> o, stage |-> "write",
                 facts |-> rows[o].meta \cup facts, left |-> {}])
  /\ UNCHANGED <<rows, store, used, asked, faults>>

(*-------------------------------- S3 --------------------------------------*)

InitMultipartUpload(s) ==
  /\ At(s, "begin")
  /\ Call(s, FALSE, rows, [store EXCEPT ![tasks[s].object] = @ \cup {"upload"}],
          [tasks[s] EXCEPT !.stage = "create"])

PutObject(s) ==
  /\ At(s, "put")
  /\ Call(s, FALSE, rows, [store EXCEPT ![tasks[s].object] = @ \cup {"file"}],
          [tasks[s] EXCEPT !.stage = "create"])

(* The parts become the file. *)
CompleteMultipartUpload(s) ==
  /\ At(s, "finish")
  /\ Call(s, NoUpload(s), rows, [store EXCEPT ![tasks[s].object] = {"file"}],
          [tasks[s] EXCEPT !.stage = "mark"])

(* S3 may also refuse the parts named; the upload stays open. *)
RefuseParts(s) ==
  /\ At(s, "finish")
  /\ ~NoUpload(s)
  /\ tasks' = [tasks EXCEPT ![s] = Over(@)]
  /\ UNCHANGED <<rows, store, used, asked, faults>>

AbortMultipartUpload(s) ==
  /\ At(s, "abort")
  /\ Call(s, NoUpload(s), rows, [store EXCEPT ![tasks[s].object] = @ \ {"upload"}],
          [tasks[s] EXCEPT !.stage = "row"])

(* Deleting a key that holds no file succeeds; an upload begun is no file. *)
DeleteObject(s) ==
  /\ At(s, "erase")
  /\ Call(s, FALSE, rows, [store EXCEPT ![tasks[s].object] = @ \ {"file"}],
          [tasks[s] EXCEPT !.stage = "row"])

(*----------------------------- the database -------------------------------*)

(* The event starts the processing; the rest of the request changes nothing. *)
Emitted(t) == NewTask("process", t.object, "run")

CreatePending(s) ==
  /\ At(s, "create")
  /\ tasks[s].op = "init"
  /\ Call(s, FALSE, [rows EXCEPT ![tasks[s].object] = PendingRow], store, None)

CreateProcessing(s) ==
  /\ At(s, "create")
  /\ tasks[s].op = "simple"
  /\ Call(s, FALSE, [rows EXCEPT ![tasks[s].object] = UploadedRow], store,
          Emitted(tasks[s]))

(* Mutation: the status is written before S3 has completed the upload. *)
RecordChunks_marks(s) ==
  /\ At(s, "chunks")
  /\ Call(s, NoRow(s), [rows EXCEPT ![tasks[s].object].status = "processing"], store,
          [tasks[s] EXCEPT !.stage = "finish"])

(* The upsert of the parts' rows, which must refer to a row of an object; what  *)
(* they hold is only read to report progress.                                   *)
RecordChunks(s) ==
  /\ At(s, "chunks")
  /\ Call(s, NoRow(s), rows, store, [tasks[s] EXCEPT !.stage = "finish"])

MarkProcessing(s) ==
  /\ At(s, "mark")
  /\ Call(s, NoRow(s), [rows EXCEPT ![tasks[s].object].status = "processing"], store,
          Emitted(tasks[s]))

(* The last call of abortUpload(), delete() and of the cleanup's loop. *)
DeleteRow(s) ==
  /\ At(s, "row")
  /\ Call(s, NoRow(s), [rows EXCEPT ![tasks[s].object] = None], store, Over(tasks[s]))

WriteMetadata(s) ==
  /\ At(s, "write")
  /\ tasks[s].op = "merge"
  /\ Call(s, NoRow(s), [rows EXCEPT ![tasks[s].object].meta = tasks[s].facts], store, None)

(*------------------------------ processing --------------------------------*)

(* handleObjectUploaded(): the processors, if any, have all succeeded or not. *)
RunProcessors(s) ==
  /\ At(s, "run")
  /\ \/ tasks' = [tasks EXCEPT ![s].op = "ready", ![s].stage = "read",
                               ![s].facts = {"processing"}]
     \/ tasks' = [tasks EXCEPT ![s].op = "fail", ![s].stage = "read",
                               ![s].facts = {"processing", "processingFailed"}]
  /\ UNCHANGED <<rows, store, used, asked, faults>>

(* markReady() and markFailed() read the metadata, of a row that may be gone, ... *)
ReadMetadata(s) ==
  /\ At(s, "read")
  /\ Call(s, FALSE, rows, store,
          [op |-> tasks[s].op, object |-> tasks[s].object, stage |-> "write",
           facts |-> tasks[s].facts \cup IF NoRow(s) THEN {} ELSE rows[tasks[s].object].meta,
           left |-> {}])

(* Mutation: markFailed() writes the metadata only. *)
WriteOutcome_metadata(s) ==
  /\ At(s, "write")
  /\ tasks[s].op \in {"ready", "fail"}
  /\ Call(s, NoRow(s),
          [rows EXCEPT ![tasks[s].object].meta = tasks[s].facts,
                       ![tasks[s].object].status =
                          IF tasks[s].op = "ready" THEN "ready" ELSE @],
          store, None)

(* ... and write it back, merged, with the status. *)
WriteOutcome(s) ==
  /\ At(s, "write")
  /\ tasks[s].op \in {"ready", "fail"}
  /\ Call(s, NoRow(s),
          [rows EXCEPT ![tasks[s].object].meta = tasks[s].facts,
                       ![tasks[s].object].status =
                          IF tasks[s].op = "ready" THEN "ready" ELSE "failed"],
          store, None)

(*------------------------------- the cleanup ------------------------------*)

Stale == {o \in Objects : /\ rows[o] # None
                          /\ rows[o].status \in {"pending", "uploading"}
                          /\ rows[o].old}

(* handleCleanup() has found the stale uploads. *)
StartCleanup ==
  /\ tasks[Cron] = None
  /\ Stale # {}
  /\ \E o \in Stale :
       tasks' = [tasks EXCEPT ![Cron] = [op |-> "cleanup", object |-> o, stage |-> "next",
                                         facts |-> {}, left |-> Stale]]
  /\ UNCHANGED <<rows, store, used, asked, faults>>

(* Its loop; every stale upload was begun, so it has an id to abort. *)
NextStale ==
  /\ At(Cron, "next")
  /\ \/ /\ tasks[Cron].left = {}
        /\ tasks' = [tasks EXCEPT ![Cron] = None]
     \/ \E o \in tasks[Cron].left :
          tasks' = [tasks EXCEPT ![Cron] = [op |-> "cleanup", object |-> o, stage |-> "abort",
                                            facts |-> {}, left |-> @.left \ {o}]]
  /\ UNCHANGED <<rows, store, used, asked, faults>>

(* A day passes. *)
Age(o) ==
  /\ rows[o] # None
  /\ ~rows[o].old
  /\ rows' = [rows EXCEPT ![o].old = TRUE]
  /\ UNCHANGED <<store, tasks, used, asked, faults>>

(* The server is restarted: nothing that it was doing is taken up again. *)
Restart ==
  /\ faults < MaxFaults
  /\ faults' = faults + 1
  /\ tasks' = [s \in Slots |-> None]
  /\ UNCHANGED <<rows, store, used, asked>>

(*--------------------------------- steps ----------------------------------*)

S3Call(s) ==
  \/ InitMultipartUpload(s) \/ PutObject(s) \/ CompleteMultipartUpload(s)
  \/ RefuseParts(s) \/ AbortMultipartUpload(s) \/ DeleteObject(s)

DatabaseCall(s) ==
  \/ CreatePending(s) \/ CreateProcessing(s) \/ RecordChunks(s) \/ MarkProcessing(s) \/ DeleteRow(s)
  \/ WriteMetadata(s) \/ ReadMetadata(s) \/ WriteOutcome(s)

Step(s) == S3Call(s) \/ DatabaseCall(s) \/ RunProcessors(s)

Request(r, o) == Upload(r, o) \/ EndUpload(r, o) \/ Delete(r, o) \/ UpdateMetadata(r, o)

Next ==
  \/ \E r \in Requests, o \in Objects : Request(r, o)
  \/ \E s \in Slots : Step(s)
  \/ StartCleanup
  \/ NextStale
  \/ \E o \in Objects : Age(o)
  \/ Restart

(* Calls are answered, the handlers go on and the cleanup is run every day; no *)
(* user must ever make a request, and nothing must fail.                       *)
Fairness ==
  /\ \A s \in Slots : WF_vars(Step(s))
  /\ WF_vars(StartCleanup)
  /\ WF_vars(NextStale)
  /\ \A o \in Objects : WF_vars(Age(o))

Spec == Init /\ [][Next]_vars
FairSpec == Spec /\ Fairness

(*------------------------------- properties -------------------------------*)

TypeOK ==
  /\ rows \in [Objects -> Row \cup {None}]
  /\ store \in [Objects -> SUBSET {"upload", "file"}]
  /\ tasks \in [Slots -> Task \cup {None}]
  /\ used \in SUBSET Objects
  /\ asked \in SUBSET Objects
  /\ faults \in 0..MaxFaults

Uploaded == {"processing", "ready", "failed"}

Working(s, o, ops) == tasks[s] # None /\ tasks[s].object = o /\ tasks[s].op \in ops

(* A row that says that its upload is over has its file in the store, which is *)
(* what a signed download URL points to, unless its owner asked to delete it.  *)
UploadedIsStored ==
  \A o \in Objects :
    rows[o] # None /\ rows[o].status \in Uploaded
      => "file" \in store[o] \/ o \in asked

(* Of the many requests to complete an upload one at most succeeds, so that an *)
(* object is processed by one handler.                                         *)
ProcessedOnce ==
  \A s1, s2 \in Slots, o \in Objects :
    Working(s1, o, {"process", "ready", "fail"}) /\ Working(s2, o, {"process", "ready", "fail"})
      => s1 = s2

(* The inductive invariant behind the two: why S3's refusal of an upload that   *)
(* is over is enough to order requests that never look at the row again.        *)

(* Where each kind of task can be. *)
Stages ==
  {<<"init", "begin">>, <<"init", "create">>, <<"simple", "put">>, <<"simple", "create">>,
   <<"complete", "chunks">>, <<"complete", "finish">>, <<"complete", "mark">>,
   <<"abort", "abort">>, <<"abort", "row">>, <<"delete", "erase">>, <<"delete", "row">>,
   <<"merge", "write">>, <<"process", "run">>, <<"ready", "read">>, <<"ready", "write">>,
   <<"fail", "read">>, <<"fail", "write">>,
   <<"cleanup", "next">>, <<"cleanup", "abort">>, <<"cleanup", "row">>}

InStages ==
  \A s \in Slots : tasks[s] # None =>
    /\ <<tasks[s].op, tasks[s].stage>> \in Stages
    /\ tasks[s].op = "cleanup" <=> s = Cron
    /\ tasks[s].op = "delete" => tasks[s].object \in asked

(* Nothing is known of an id that was not given out. *)
FreshIds ==
  \A o \in Objects \ used :
    /\ rows[o] = None
    /\ store[o] = {}
    /\ \A s \in Slots : tasks[s] # None => tasks[s].object # o /\ o \notin tasks[s].left

(* The request that creates an object is alone with it ... *)
CreatedAlone ==
  \A s, z \in Slots, o \in Objects :
    Working(s, o, {"init", "simple"}) /\ tasks[z] # None =>
      /\ rows[o] = None
      /\ z # s => tasks[z].object # o
      /\ o \notin tasks[z].left

(* ... and has put into the store what it has. *)
CreatedByIt ==
  \A s \in Slots, o \in Objects : Working(s, o, {"init", "simple"}) =>
    /\ "upload" \in store[o] <=> tasks[s].stage = "create" /\ tasks[s].op = "init"
    /\ "file" \in store[o] <=> tasks[s].stage = "create" /\ tasks[s].op = "simple"

(* An upload that is begun has no file yet, and its row says so. *)
BegunIsPending ==
  \A o \in Objects : "upload" \in store[o] =>
    /\ "file" \notin store[o]
    /\ rows[o] # None => rows[o].status \notin Uploaded

(* The one task that has seen an upload to its end and now processes the object. *)
Finishing(s, o) ==
  \/ Working(s, o, {"complete"}) /\ tasks[s].stage = "mark"
  \/ Working(s, o, {"process", "ready", "fail"})

FinishedByOne ==
  \A s \in Slots, o \in Objects : Finishing(s, o) =>
    /\ "upload" \notin store[o]
    /\ "file" \in store[o] \/ o \in asked
    /\ rows[o] # None => IF tasks[s].stage = "mark" THEN rows[o].status \notin Uploaded
                         ELSE rows[o].status = "processing"
    /\ \A z \in Slots : Finishing(z, o) => z = s

(* When S3 has aborted an upload no request can complete it any more. *)
AbortedIsOver ==
  \A s \in Slots :
    At(s, "row") /\ tasks[s].op \in {"abort", "cleanup"} => store[tasks[s].object] = {}

IInv ==
  /\ TypeOK
  /\ InStages
  /\ FreshIds
  /\ CreatedAlone
  /\ CreatedByIt
  /\ BegunIsPending
  /\ UploadedIsStored
  /\ FinishedByOne
  /\ AbortedIsOver

(* As long as nothing fails, what S3 holds belongs to a row, to a request that *)
(* is going to create the row, or to an object that its owner deleted.         *)
NothingOrphaned ==
  faults = 0 =>
    \A o \in Objects :
      store[o] # {} => \/ rows[o] # None
                       \/ o \in asked
                       \/ \E s \in Slots : Working(s, o, {"init", "simple"})

(* Neither abortUpload() nor the cleanup, whenever they read the row, deletes   *)
(* the row of an object whose file is in the store.                             *)
StoredIsSpared ==
  [][\A o \in Objects :
       rows[o] # None /\ rows'[o] = None /\ "file" \in store[o] => o \in asked]_vars

(* An object is not processed for ever, as long as nothing fails. *)
Processed ==
  \A o \in Objects :
    (rows[o] # None /\ rows[o].status = "processing")
      ~> (rows[o] = None \/ rows[o].status # "processing" \/ faults > 0)

=============================================================================
