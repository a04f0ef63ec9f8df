------------------------------ MODULE Indexing ------------------------------
(***************************************************************************)
(* Document indexing: the start and cancel use cases, the runner that      *)
(* spawns one worker process per job, the worker's pipeline, and the       *)
(* deletion of the project underneath it.                                  *)
(*                                                                         *)
(* PostgreSQL runs the transactions at READ COMMITTED: a transaction that  *)
(* reads and later writes is two steps here (the read, then the writes     *)
(* with the commit), because another transaction can commit in between.    *)
(* Writes to one row are serialised by its lock until the commit, so the   *)
(* writes of one transaction are one step.                                 *)
(***************************************************************************)
EXTENDS Integers, FiniteSets

CONSTANTS
    Indexes,     \* identifiers of the document_indexes rows ever created (bound)
    Projects,    \* projects that exist at the start, each with its PDF on disk
    Starters,    \* concurrent calls of StartIndexingUseCase.execute
    Cancellers,  \* concurrent calls of CancelIndexingUseCase.execute
    MaxChunks,   \* bound: most chunks a document is cut into
    BatchSize,   \* EmbedConfig.batch_size
    Faults,      \* which failures the environment may produce
    None         \* no index, no project

FaultKinds == {"enqueue",  \* the worker process cannot be spawned
               "pipeline", \* conversion, extraction, chunking or its commit raises
               "embed",    \* the embedding service (or the progress report) raises
               "miscount", \* the embedding service answers too few or too many vectors
               "empty",    \* the document has no text: no chunk
               "die",      \* the worker is killed, or raises outside its try blocks
               "restart",  \* the API process dies and is restarted
               "database", \* a commit of a start or cancel call raises
               "delete"}   \* owners delete projects

ASSUME IndexingAssumption ==
    /\ MaxChunks \in Nat \ {0}
    /\ BatchSize \in Int
    /\ Faults \subseteq FaultKinds
    /\ None \notin Indexes \cup Projects

VARIABLES
    status,          \* document_indexes.status, "NONE" for a row not yet created
    progress,        \* document_indexes.progress
    cancelRequested, \* document_indexes.cancel_requested
    projectOf,       \* document_indexes.project_id (not a foreign key)
    chunks,          \* number of chunk rows of the index
    embeds,          \* number of chunk_embeddings rows of the index
    project,         \* "live"; "unlinked": PDF deleted, row still there; "gone"
    registry,        \* _active: the jobs the API process has a Process object for
    start,           \* local state of each StartIndexing call
    cancel,          \* local state of each CancelIndexing call
    wpc,             \* the next step of the worker process of each index
    drafts,          \* len(chunks) in the worker's memory
    done,            \* texts embedded so far
    vectors          \* vectors received so far

row     == <<status, progress, cancelRequested, projectOf>>
content == <<chunks, embeds>>
memory  == <<drafts, done, vectors>>
api     == <<registry, start, cancel>>
vars    == <<row, content, project, api, wpc, memory>>

Active   == {"PENDING", "RUNNING"}
Terminal == {"READY", "FAILED", "CANCELLED"}
Statuses == Active \cup Terminal

(* Where a worker process is: "none" not spawned, "exit" run() returned,   *)
(* "dead" killed or ended by an exception.                                 *)
LivePcs == {"load", "extracting", "extract", "chunking", "chunk", "persist",
            "embed", "embedding", "call", "store", "storing", "failing"}
Alive(i) == wpc[i] \in LivePcs

StepProgress == [EXTRACTING |-> 5, CHUNKING |-> 20, EMBEDDING |-> 60, STORING |-> 85]

(* Variant: the bar starts again at zero for the embedding step.           *)
EmbedProgressFromZero(n, total) == (n * 25) \div (IF total < 1 THEN 1 ELSE total)

EmbedProgress(n, total) ==
    StepProgress.EMBEDDING
        + (n * (StepProgress.STORING - StepProgress.EMBEDDING))
              \div (IF total < 1 THEN 1 ELSE total)

Batch == IF BatchSize <= 0 THEN 64 ELSE BatchSize

IdleStart  == [pc |-> "idle", project |-> None, index |-> None]
IdleCancel == [pc |-> "idle", index |-> None, status |-> "PENDING", progress |-> 0]

Init ==
    /\ status = [i \in Indexes |-> "NONE"]
    /\ progress = [i \in Indexes |-> 0]
    /\ cancelRequested = [i \in Indexes |-> FALSE]
    /\ projectOf = [i \in Indexes |-> None]
    /\ chunks = [i \in Indexes |-> 0]
    /\ embeds = [i \in Indexes |-> 0]
    /\ project = [p \in Projects |-> "live"]
    /\ registry = {}
    /\ start = [s \in Starters |-> IdleStart]
    /\ cancel = [c \in Cancellers |-> IdleCancel]
    /\ wpc = [i \in Indexes |-> "none"]
    /\ drafts = [i \in Indexes |-> 0]
    /\ done = [i \in Indexes |-> 0]
    /\ vectors = [i \in Indexes |-> 0]

-----------------------------------------------------------------------------
(* report(): an UPDATE by id, whatever the row holds at that moment.       *)

Report(i, st, pct) ==
    /\ status' = [status EXCEPT ![i] = st]
    /\ progress' = [progress EXCEPT ![i] = pct]

-----------------------------------------------------------------------------
(* StartIndexingUseCase.execute.  A call that finds the project missing, or *)
(* an active index of the project, returns without changing anything.       *)

ActiveIndexesOf(p) == {i \in Indexes : projectOf[i] = p /\ status[i] \in Active}

(* Variant: no look for an active index.                                   *)
StartCheckAlways(s, p) ==
    /\ start[s].pc = "idle"
    /\ project[p] # "gone"
    /\ start' = [start EXCEPT ![s] = [pc |-> "create", project |-> p, index |-> None]]
    /\ UNCHANGED <<row, content, project, registry, cancel, wpc, memory>>

StartCheck(s, p) ==
    /\ start[s].pc = "idle"
    /\ project[p] # "gone"
    /\ ActiveIndexesOf(p) = {}
    /\ start' = [start EXCEPT ![s] = [pc |-> "create", project |-> p, index |-> None]]
    /\ UNCHANGED <<row, content, project, registry, cancel, wpc, memory>>

CreatePending(i, p) ==
    /\ status[i] = "NONE"
    /\ Report(i, "PENDING", 0)
    /\ projectOf' = [projectOf EXCEPT ![i] = p]
    /\ UNCHANGED cancelRequested

StartCreate(s) ==
    /\ start[s].pc = "create"
    /\ \E i \in Indexes :
        /\ CreatePending(i, start[s].project)
        /\ start' = [start EXCEPT ![s] = [@ EXCEPT !.pc = "enqueue", !.index = i]]
    /\ UNCHANGED <<content, project, registry, cancel, wpc, memory>>

(* The insert or its commit raises and the call ends.  When the commit had *)
(* taken effect and only its answer was lost, nobody enqueues the row.     *)
StartCommitFails(s) ==
    /\ "database" \in Faults
    /\ start[s].pc = "create"
    /\ UNCHANGED row \/ \E i \in Indexes : CreatePending(i, start[s].project)
    /\ start' = [start EXCEPT ![s] = IdleStart]
    /\ UNCHANGED <<content, project, registry, cancel, wpc, memory>>

(* SpawnProcessIndexingRunner.enqueue, under its lock.                      *)
StartEnqueue(s) ==
    LET i == start[s].index
        running == {j \in registry : Alive(j)} IN
    /\ start[s].pc = "enqueue"
    /\ registry' = running \cup {i}
    /\ wpc' = IF i \in running THEN wpc ELSE [wpc EXCEPT ![i] = "load"]
    /\ start' = [start EXCEPT ![s] = IdleStart]
    /\ UNCHANGED <<row, content, project, cancel, memory>>

(* Variant: the error of the runner is swallowed.                          *)
EnqueueErrorSwallowed(s) ==
    /\ "enqueue" \in Faults
    /\ start[s].pc = "enqueue"
    /\ start' = [start EXCEPT ![s] = IdleStart]
    /\ UNCHANGED <<row, content, project, registry, cancel, wpc, memory>>

StartEnqueueFails(s) ==
    /\ "enqueue" \in Faults
    /\ start[s].pc = "enqueue"
    /\ registry' = {j \in registry : Alive(j)}
    /\ start' = [start EXCEPT ![s] = [@ EXCEPT !.pc = "unqueued"]]
    /\ UNCHANGED <<row, content, project, cancel, wpc, memory>>

StartReportFailed(s) ==
    /\ start[s].pc = "unqueued"
    /\ Report(start[s].index, "FAILED", 0)
    /\ start' = [start EXCEPT ![s] = IdleStart]
    /\ UNCHANGED <<cancelRequested, projectOf, content, project, registry, cancel, wpc, memory>>

(* The report is a transaction too; when it raises, the row stays PENDING. *)
StartReportRaises(s) ==
    /\ "database" \in Faults
    /\ start[s].pc = "unqueued"
    /\ start' = [start EXCEPT ![s] = IdleStart]
    /\ UNCHANGED <<row, content, project, registry, cancel, wpc, memory>>

-----------------------------------------------------------------------------
(* CancelIndexingUseCase.execute: what it read is written back.            *)

CancelRead(c, i) ==
    /\ cancel[c].pc = "idle"
    /\ status[i] \in Active
    /\ projectOf[i] \in Projects /\ project[projectOf[i]] # "gone"
    /\ ~cancelRequested[i]
    /\ cancel' = [cancel EXCEPT ![c] = [pc |-> "write", index |-> i,
                                        status |-> status[i], progress |-> progress[i]]]
    /\ UNCHANGED <<row, content, project, registry, start, wpc, memory>>

CancelWrite(c) ==
    /\ cancel[c].pc = "write"
    /\ cancelRequested' = [cancelRequested EXCEPT ![cancel[c].index] = TRUE]
    /\ Report(cancel[c].index, cancel[c].status, cancel[c].progress)
    /\ cancel' = [cancel EXCEPT ![c] = IdleCancel]
    /\ UNCHANGED <<projectOf, content, project, registry, start, wpc, memory>>

CancelRaises(c) ==
    /\ "database" \in Faults
    /\ cancel[c].pc = "write"
    /\ cancel' = [cancel EXCEPT ![c] = IdleCancel]
    /\ UNCHANGED <<row, content, project, registry, start, wpc, memory>>

-----------------------------------------------------------------------------
(* The worker process of index i: IndexingWorkerService.run.               *)

WorkerGoto(i, pc) == wpc' = [wpc EXCEPT ![i] = pc]

(* Variant: the chunks of a cancelled index stay.                          *)
WorkerCancelKeepsChunks(i) ==
    /\ Report(i, "CANCELLED", 0)
    /\ WorkerGoto(i, "exit")
    /\ UNCHANGED <<cancelRequested, projectOf, content, project, api, memory>>

(* _cancel: the chunks go, their embeddings with them (ON DELETE CASCADE). *)
WorkerCancel(i) ==
    /\ chunks' = [chunks EXCEPT ![i] = 0]
    /\ embeds' = [embeds EXCEPT ![i] = 0]
    /\ Report(i, "CANCELLED", 0)
    /\ WorkerGoto(i, "exit")
    /\ UNCHANGED <<cancelRequested, projectOf, project, api, memory>>

(* Variant: nobody asks.                                                   *)
IgnoreCancel(i, here, next) ==
    /\ wpc[i] = here
    /\ WorkerGoto(i, next)
    /\ UNCHANGED <<row, content, project, api, memory>>

(* A transaction that first asks is_cancel_requested.                      *)
CheckCancel(i, here, next) ==
    /\ wpc[i] = here
    /\ \/ cancelRequested[i] /\ WorkerCancel(i)
       \/ /\ ~cancelRequested[i]
          /\ WorkerGoto(i, next)
          /\ UNCHANGED <<row, content, project, api, memory>>

LoadIndexMetadata(i) == CheckCancel(i, "load", "extracting")

ReportExtracting(i) ==
    /\ wpc[i] = "extracting"
    /\ Report(i, "RUNNING", StepProgress.EXTRACTING)
    /\ WorkerGoto(i, "extract")
    /\ UNCHANGED <<cancelRequested, projectOf, content, project, api, memory>>

(* Variant: a missing PDF is not an error.                                 *)
ConvertWithoutPdf(i) ==
    /\ wpc[i] = "extract"
    /\ WorkerGoto(i, "chunking")
    /\ UNCHANGED <<row, content, project, api, memory>>

(* The PDF is gone, or GROBID or the walk over its answer fails.            *)
ConversionFails(i) == project[projectOf[i]] # "live" \/ "pipeline" \in Faults

(* convert_pdf_to_xml needs the PDF; extract_blocks_from_xml follows.      *)
ConvertAndExtract(i) ==
    /\ wpc[i] = "extract"
    /\ \/ project[projectOf[i]] = "live" /\ WorkerGoto(i, "chunking")
       \/ ConversionFails(i) /\ WorkerGoto(i, "failing")
    /\ UNCHANGED <<row, content, project, api, memory>>

ReportChunking(i) ==
    /\ wpc[i] = "chunking"
    /\ Report(i, "RUNNING", StepProgress.CHUNKING)
    /\ WorkerGoto(i, "chunk")
    /\ UNCHANGED <<cancelRequested, projectOf, content, project, api, memory>>

(* create_and_store_chunks up to its cancel check.                         *)
Chunk(i) ==
    \/ CheckCancel(i, "chunk", "persist")
    \/ /\ "pipeline" \in Faults
       /\ wpc[i] \in {"chunk", "persist"}
       /\ WorkerGoto(i, "failing")
       /\ UNCHANGED <<row, content, project, api, memory>>

(* ... and its insert.  run() ends when there is no chunk.                 *)
PersistChunks(i) ==
    /\ wpc[i] = "persist"
    /\ \E n \in (IF "empty" \in Faults THEN 0 ELSE 1)..MaxChunks :
        /\ drafts' = [drafts EXCEPT ![i] = n]
        /\ chunks' = [chunks EXCEPT ![i] = n]
        /\ WorkerGoto(i, IF n = 0 THEN "exit" ELSE "embed")
    /\ UNCHANGED <<row, embeds, project, api, done, vectors>>

(* One batch of embed_chunks: the cancel check, the progress report, the   *)
(* call of the embedding service.                                          *)
EmbedCheck(i) == done[i] < drafts[i] /\ CheckCancel(i, "embed", "embedding")

EmbedReport(i) ==
    /\ wpc[i] = "embedding"
    /\ Report(i, "RUNNING", EmbedProgress(done[i], drafts[i]))
    /\ WorkerGoto(i, "call")
    /\ UNCHANGED <<cancelRequested, projectOf, content, project, api, memory>>

(* Variant: done grows by the batch size, not by the batch.                *)
EmbedCallFullBatch(i) ==
    /\ wpc[i] = "call"
    /\ vectors' = [vectors EXCEPT ![i] = @ + 1]
    /\ done' = [done EXCEPT ![i] = @ + Batch]
    /\ WorkerGoto(i, "embed")
    /\ UNCHANGED <<row, content, project, api, drafts>>

(* One vector too many stands for any surplus.                             *)
EmbedCall(i) ==
    LET left == drafts[i] - done[i]
        sent == IF left < Batch THEN left ELSE Batch IN
    /\ wpc[i] = "call"
    /\ \E got \in (IF "miscount" \in Faults THEN 0..(sent + 1) ELSE {sent}) :
        vectors' = [vectors EXCEPT ![i] = @ + got]
    /\ done' = [done EXCEPT ![i] = @ + sent]
    /\ WorkerGoto(i, "embed")
    /\ UNCHANGED <<row, content, project, api, drafts>>

(* Variant: the handler of the embedding error does not report it.         *)
EmbedFailsSilently(i) ==
    /\ "embed" \in Faults
    /\ wpc[i] = "call"
    /\ WorkerGoto(i, "exit")
    /\ UNCHANGED <<row, content, project, api, memory>>

EmbedFails(i) ==
    /\ "embed" \in Faults
    /\ wpc[i] \in {"embed", "embedding", "call"}
    /\ done[i] < drafts[i]
    /\ WorkerGoto(i, "failing")
    /\ UNCHANGED <<row, content, project, api, memory>>

EmbedDone(i) ==
    /\ wpc[i] = "embed"
    /\ done[i] = drafts[i]
    /\ WorkerGoto(i, "store")
    /\ UNCHANGED <<row, content, project, api, memory>>

(* store_embeds raises on a length mismatch, and run() does not catch it.  *)
StoreMismatch(i) ==
    /\ wpc[i] = "store"
    /\ vectors[i] # drafts[i]
    /\ WorkerGoto(i, "dead")
    /\ UNCHANGED <<row, content, project, api, memory>>

(* Variant: no comparison of the lengths.                                  *)
StoreCheckAnyLength(i) == CheckCancel(i, "store", "storing")

StoreCheck(i) == vectors[i] = drafts[i] /\ CheckCancel(i, "store", "storing")

(* Variant: READY is committed before the embeddings are.                  *)
ReadyBeforeEmbeds(i) ==
    /\ wpc[i] = "storing"
    /\ IF status[i] = "READY"
       THEN /\ embeds' = [embeds EXCEPT ![i] = vectors[i]]
            /\ WorkerGoto(i, "exit")
            /\ UNCHANGED <<status, progress>>
       ELSE Report(i, "READY", 100) /\ UNCHANGED <<embeds, wpc>>
    /\ UNCHANGED <<cancelRequested, projectOf, chunks, project, api, memory>>

StoreCommit(i) ==
    /\ wpc[i] = "storing"
    /\ chunks[i] = drafts[i]
    /\ embeds' = [embeds EXCEPT ![i] = vectors[i]]
    /\ Report(i, "READY", 100)
    /\ WorkerGoto(i, "exit")
    /\ UNCHANGED <<cancelRequested, projectOf, chunks, project, api, memory>>

(* Variant: the return after mark_failed is missing.                       *)
MarkFailedGoesOn(i) ==
    /\ wpc[i] = "failing"
    /\ Report(i, "FAILED", 0)
    /\ WorkerGoto(i, "chunking")
    /\ UNCHANGED <<cancelRequested, projectOf, content, project, api, memory>>

MarkFailed(i) ==
    /\ wpc[i] = "failing"
    /\ Report(i, "FAILED", 0)
    /\ WorkerGoto(i, "exit")
    /\ UNCHANGED <<cancelRequested, projectOf, content, project, api, memory>>

WorkerDies(i) ==
    /\ "die" \in Faults
    /\ Alive(i)
    /\ WorkerGoto(i, "dead")
    /\ UNCHANGED <<row, content, project, api, memory>>

WorkerStep(i) ==
    \/ LoadIndexMetadata(i) \/ ReportExtracting(i) \/ ConvertAndExtract(i)
    \/ ReportChunking(i) \/ Chunk(i) \/ PersistChunks(i)
    \/ EmbedCheck(i) \/ EmbedReport(i) \/ EmbedCall(i) \/ EmbedFails(i) \/ EmbedDone(i)
    \/ StoreMismatch(i) \/ StoreCheck(i) \/ StoreCommit(i) \/ MarkFailed(i)

-----------------------------------------------------------------------------
(* The API process dies and is restarted: its calls are lost, their open   *)
(* transactions rolled back, _active is empty again.  The workers are      *)
(* processes of their own and go on.  Nothing is recovered at startup.     *)

ApiRestart ==
    /\ "restart" \in Faults
    /\ registry' = {}
    /\ start' = [s \in Starters |-> IdleStart]
    /\ cancel' = [c \in Cancellers |-> IdleCancel]
    /\ UNCHANGED <<row, content, project, wpc, memory>>

(* DeleteProjectUseCase.execute: the PDF first, then the row.              *)

UnlinkDocument(p) ==
    /\ "delete" \in Faults
    /\ project[p] = "live"
    /\ project' = [project EXCEPT ![p] = "unlinked"]
    /\ UNCHANGED <<row, content, api, wpc, memory>>

DeleteProjectRow(p) ==
    /\ project[p] = "unlinked"
    /\ project' = [project EXCEPT ![p] = "gone"]
    /\ UNCHANGED <<row, content, api, wpc, memory>>

-----------------------------------------------------------------------------
StartStep(s) ==
    \/ StartCreate(s) \/ StartCommitFails(s)
    \/ StartEnqueue(s) \/ StartEnqueueFails(s)
    \/ StartReportFailed(s) \/ StartReportRaises(s)

CancelStep(c) == CancelWrite(c) \/ CancelRaises(c)

Next ==
    \/ \E s \in Starters : StartStep(s) \/ \E p \in Projects : StartCheck(s, p)
    \/ \E c \in Cancellers : CancelStep(c) \/ \E i \in Indexes : CancelRead(c, i)
    \/ \E i \in Indexes : WorkerStep(i) \/ WorkerDies(i)
    \/ \E p \in Projects : UnlinkDocument(p) \/ DeleteProjectRow(p)
    \/ ApiRestart

Spec == Init /\ [][Next]_vars

(* A worker process that lives is scheduled, and the event loop of the API *)
(* serves every call it has accepted.  Nobody has to start, cancel or      *)
(* delete anything.                                                        *)
Fairness ==
    /\ \A i \in Indexes : WF_vars(WorkerStep(i))
    /\ \A s \in Starters : WF_vars(StartStep(s))
    /\ \A c \in Cancellers : WF_vars(CancelStep(c))

FairSpec == Spec /\ Fairness

-----------------------------------------------------------------------------
(* Properties. *)

StartCalls ==
    [pc : {"idle", "create", "enqueue", "unqueued"},
     project : Projects \cup {None}, index : Indexes \cup {None}]
CancelCalls ==
    [pc : {"idle", "write"}, index : Indexes \cup {None}, status : Active, progress : 0..100]

(* Every variable has its type; a call holds an index exactly when it      *)
(* needs one.                                                              *)
TypeOK ==
    /\ status \in [Indexes -> Statuses \cup {"NONE"}]
    /\ progress \in [Indexes -> 0..100]
    /\ cancelRequested \in [Indexes -> BOOLEAN]
    /\ projectOf \in [Indexes -> Projects \cup {None}]
    /\ chunks \in [Indexes -> 0..MaxChunks]
    /\ embeds \in [Indexes -> 0..MaxChunks]
    /\ project \in [Projects -> {"live", "unlinked", "gone"}]
    /\ registry \in SUBSET Indexes
    /\ start \in [Starters -> StartCalls]
    /\ cancel \in [Cancellers -> CancelCalls]
    /\ wpc \in [Indexes -> LivePcs \cup {"none", "exit", "dead"}]
    /\ drafts \in [Indexes -> 0..MaxChunks]
    /\ done \in [Indexes -> 0..MaxChunks]
    /\ vectors \in [Indexes -> Nat]
    /\ \A s \in Starters : start[s].pc = "create" => start[s].project # None
    /\ \A s \in Starters : start[s].pc \in {"enqueue", "unqueued"} => start[s].index # None
    /\ \A c \in Cancellers : cancel[c].pc = "write" => cancel[c].index # None

(* An index that retrieval may use (READY) has chunks and an embedding for *)
(* each of them, whatever failed, was cancelled or was miscounted on the   *)
(* way: retrieval never sees a half-built index.                           *)
ReadyIsComplete ==
    \A i \in Indexes : status[i] = "READY" => chunks[i] > 0 /\ embeds[i] = chunks[i]

(* A CANCELLED index was asked to stop and left nothing behind, although   *)
(* the cancel is noticed in the middle of a pipeline that commits twice.   *)
CancelledIsClean ==
    \A i \in Indexes :
        status[i] = "CANCELLED" => cancelRequested[i] /\ chunks[i] = 0 /\ embeds[i] = 0

(* No process still works on an index whose row says it is over, so a      *)
(* verdict shown to the user is never followed by further work.            *)
NoWorkBehindAVerdict ==
    \A i \in Indexes : status[i] \in Terminal => ~Alive(i)

(* The only ways a worker that ran to its end leaves its index active, and *)
(* so shown as running for ever and never restarted: the document gave no  *)
(* chunk, or a late cancel wrote an old status back.                       *)
AbandonedOnlyIfEmptyOrCancelled ==
    \A i \in Indexes :
        wpc[i] = "exit" /\ status[i] \in Active => chunks[i] = 0 \/ cancelRequested[i]

(* A run is under way, but no worker has it and no call will start one:    *)
(* nobody will ever end it, and it keeps every later start call away.      *)
Lost(i) ==
    /\ status[i] \in Active /\ wpc[i] = "none" /\ ~cancelRequested[i]
    /\ \A s \in Starters : start[s].pc \in {"enqueue", "unqueued"} => start[s].index # i

(* A committed job is lost in three ways only, and each is an error in the *)
(* moment between two transactions of its start call: the commit that      *)
(* created it raised although it took effect, the spawn and then the       *)
(* report of its failure both failed, or the API died.  No interleaving of *)
(* calls, workers, cancels and deletions loses one.                        *)
JobsAreLostByErrorsOnly ==
    [][\A i \in Indexes :
          ~Lost(i) /\ Lost(i)'
              => \/ ApiRestart
                 \/ \E s \in Starters :
                       \/ StartCommitFails(s) /\ projectOf'[i] = start[s].project
                       \/ StartReportRaises(s) /\ start[s].index = i]_vars

(* Racing start calls do create several active runs of a project, but      *)
(* never more than there are calls at once: the check for an active run    *)
(* keeps them from piling up.  (Cancelled runs that a stale write made     *)
(* active again come on top.)                                              *)
Uncancelled(p) == {i \in ActiveIndexesOf(p) : ~cancelRequested[i]}
Creating(p)    == {s \in Starters : start[s].pc = "create" /\ start[s].project = p}

NoMoreRunsThanCalls ==
    \A p \in Projects :
        Cardinality(Uncancelled(p)) + Cardinality(Creating(p)) <= Cardinality(Starters)

(* A verdict is revised only by a cancel call that had read the row before *)
(* the verdict was written; the worker and the start call never do.        *)
OnlyStaleCancelReopens ==
    [][\A i \in Indexes :
          status[i] \in Terminal /\ status'[i] # status[i]
              => \E c \in Cancellers : CancelWrite(c) /\ cancel[c].index = i]_vars

(* The progress bar of a running index goes back only when a cancel writes *)
(* the progress it had read: the reports of the worker are monotone across *)
(* steps and batches.                                                      *)
ProgressGoesBackOnlyByCancel ==
    [][\A i \in Indexes :
          status[i] = "RUNNING" /\ status'[i] = "RUNNING" /\ progress'[i] < progress[i]
              => \E c \in Cancellers : CancelWrite(c) /\ cancel[c].index = i]_vars

(* Once a cancel is committed before the worker's last look at the flag,   *)
(* the index never becomes READY, whatever else happens.                   *)
CancelPreventsReady ==
    \A i \in Indexes :
        [](cancelRequested[i] /\ wpc[i] \in LivePcs \ {"storing"} => [](status[i] # "READY"))

(* When the PDF is deleted before the worker has read it, the index of the *)
(* deleted project never becomes READY.                                    *)
DeletedBeforeReadNeverReady ==
    \A i \in Indexes :
        [](/\ projectOf[i] \in Projects /\ project[projectOf[i]] # "live"
           /\ wpc[i] \in {"none", "load", "extracting", "extract"}
           => [](status[i] # "READY"))

(* A project never has two indexing jobs under way: what the start call's  *)
(* docstring promises (start_indexing.py 32-34).                           *)
AtMostOneActive ==
    \A p \in Projects : Cardinality(ActiveIndexesOf(p)) <= 1

(* A cancel that takes effect finds the run not yet over: what the cancel  *)
(* call's docstring promises (cancel_indexing.py 14).                      *)
CancelOfTerminalIsNoOp ==
    [][\A c \in Cancellers : CancelWrite(c) => status[cancel[c].index] \notin Terminal]_vars

(* No call and no process is left that knows of the run.                   *)
Forgotten(i) ==
    wpc[i] = "none" /\ \A s \in Starters : start[s].index # i

(* Every index that was created gets its verdict, unless the worker died,  *)
(* an error or a restart cut its start call off before it had spawned one, *)
(* the document is empty or a cancel interfered: no other failure of the   *)
(* pipeline leaves the user with a run that never ends.                    *)
EveryIndexGetsAVerdict ==
    \A i \in Indexes :
        status[i] = "PENDING" ~>
            \/ status[i] \in Terminal \/ cancelRequested[i]
            \/ wpc[i] = "dead" \/ Forgotten(i)
            \/ wpc[i] = "exit" /\ chunks[i] = 0

(* A committed cancel ends the run: the index is CANCELLED or FAILED       *)
(* unless the worker was past its last check, is not there, or died.       *)
CancelIsHonoured ==
    \A i \in Indexes :
        cancelRequested[i] /\ wpc[i] \in LivePcs \ {"persist", "storing"}
            ~> status[i] \in {"CANCELLED", "FAILED"} \/ wpc[i] = "dead"

(* The rows keep the promise of the index lifecycle: READY and the last    *)
(* embedding come in one step, a verdict is final but for a recorded       *)
(* cancel, CANCELLED follows a cancel and leaves nothing to search.        *)
Lifecycle == INSTANCE IndexLifecycle WITH
    phase      <- status,
    flagged    <- cancelRequested,
    searchable <- [i \in Indexes |-> chunks[i] > 0 /\ embeds[i] = chunks[i]]

ImplementsLifecycle == Lifecycle!LifecycleSpec

=============================================================================
