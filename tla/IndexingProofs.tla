--------------------------- MODULE IndexingProofs ---------------------------
(***************************************************************************)
(* Theorems about Indexing, for any number of rows, projects and calls,    *)
(* any batch size and any set of faults.                                   *)
(***************************************************************************)
EXTENDS Indexing, TLAPS, FiniteSetTheorems

(* The states of a worker before and after its chunks are committed.       *)
Early == {"none", "load", "extracting", "extract", "chunking", "chunk", "persist"}
Late  == {"embed", "embedding", "call", "store", "storing"}

(* What the worker holds in memory agrees with what it has committed.      *)
WorkerInv ==
    \A i \in Indexes :
        /\ status[i] = "NONE" => wpc[i] = "none"
        /\ wpc[i] \in Early => drafts[i] = 0 /\ done[i] = 0 /\ vectors[i] = 0 /\ chunks[i] = 0
        /\ wpc[i] \in LivePcs \cup {"none"} => embeds[i] = 0
        /\ wpc[i] \in Late => drafts[i] > 0 /\ chunks[i] = drafts[i]
        /\ done[i] <= drafts[i]
        /\ wpc[i] \in {"embedding", "call"} => done[i] < drafts[i]
        /\ wpc[i] = "storing" => vectors[i] = drafts[i]

(* A start call owns the row it has created until it hands it to a worker. *)
Held(s) == start[s].pc \in {"enqueue", "unqueued"}

StartInv ==
    /\ \A s \in Starters :
          Held(s) => wpc[start[s].index] = "none" /\ status[start[s].index] \in Active
    /\ \A s, t \in Starters :
          Held(s) /\ Held(t) /\ start[s].index = start[t].index => s = t

CancelInv ==
    \A c \in Cancellers : cancel[c].pc = "write" => status[cancel[c].index] # "NONE"

VerdictInv == ReadyIsComplete /\ CancelledIsClean /\ NoWorkBehindAVerdict

IInv == TypeOK /\ WorkerInv /\ StartInv /\ CancelInv /\ VerdictInv

-----------------------------------------------------------------------------
(* The progress reported while embedding lies between its two milestones.  *)
LEMMA EmbedProgressBounds ==
    ASSUME NEW total \in Nat \ {0}, NEW n \in 0..total
    PROVE  EmbedProgress(n, total) \in 60..85
<1> DEFINE q == (n * 25) \div total
<1>1. q \in Int /\ q * total <= n * 25 /\ n * 25 < (q + 1) * total
  OBVIOUS
<1>2. q >= 0 /\ q <= 25
  BY <1>1
<1>3. EmbedProgress(n, total) = 60 + q
  BY DEF EmbedProgress, StepProgress
<1> QED BY <1>1, <1>2, <1>3

-----------------------------------------------------------------------------
(* The invariant holds at the start and is kept by every action.           *)

LEMMA InitInv == Init => IInv
BY IndexingAssumption
   DEF Init, IdleStart, IdleCancel, IInv, TypeOK, StartCalls, CancelCalls, Statuses, Active,
       Terminal, LivePcs, Alive, WorkerInv, Early, Late, StartInv, Held, CancelInv, VerdictInv,
       ReadyIsComplete, CancelledIsClean, NoWorkBehindAVerdict

LEMMA StartInvariance ==
    ASSUME IInv, NEW s \in Starters,
           StartStep(s) \/ \E p \in Projects : StartCheck(s, p)
    PROVE  IInv'
<1> USE IndexingAssumption DEF Active, Terminal, Statuses, LivePcs, Alive
<1>1. ASSUME NEW p \in Projects, StartCheck(s, p) PROVE IInv'
  BY <1>1 DEF StartCheck, row, content, memory, IInv, TypeOK, StartCalls, WorkerInv, Early, Late,
     StartInv, Held, CancelInv, VerdictInv, ReadyIsComplete, CancelledIsClean, NoWorkBehindAVerdict
<1>2. ASSUME StartCreate(s) PROVE IInv'
  <2>1. PICK i \in Indexes :
          /\ start[s].pc = "create" /\ status[i] = "NONE"
          /\ status' = [status EXCEPT ![i] = "PENDING"]
          /\ progress' = [progress EXCEPT ![i] = 0]
          /\ projectOf' = [projectOf EXCEPT ![i] = start[s].project]
          /\ start' = [start EXCEPT ![s] = [@ EXCEPT !.pc = "enqueue", !.index = i]]
    BY <1>2 DEF StartCreate, CreatePending, Report
  <2>2. UNCHANGED <<cancelRequested, chunks, embeds, project, registry, cancel,
                    wpc, drafts, done, vectors>>
    BY <1>2 DEF StartCreate, CreatePending, content, memory
  <2>3. start[s] \in StartCalls
    BY DEF IInv, TypeOK
  <2>4. start'[s] = [pc |-> "enqueue", project |-> start[s].project, index |-> i]
    BY <2>1, <2>3 DEF StartCalls, IInv, TypeOK
  <2>5. \A t \in Starters : t # s => start'[t] = start[t]
    BY <2>1 DEF IInv, TypeOK
  <2>6. TypeOK'
    <3>1. start' \in [Starters -> StartCalls]
      BY <2>1, <2>3, <2>4, <2>5 DEF StartCalls, IInv, TypeOK
    <3> QED
      BY <2>1, <2>2, <2>3, <2>4, <2>5, <3>1 DEF StartCalls, IInv, TypeOK
  <2>7. WorkerInv'
    BY <2>1, <2>2 DEF WorkerInv, Early, Late, IInv, TypeOK
  <2>8. StartInv'
    BY <2>1, <2>2, <2>4, <2>5 DEF StartInv, Held, WorkerInv, IInv, TypeOK
  <2>9. CancelInv'
    BY <2>1, <2>2 DEF CancelInv, IInv, TypeOK
  <2>10. VerdictInv'
    BY <2>1, <2>2 DEF VerdictInv, ReadyIsComplete, CancelledIsClean, NoWorkBehindAVerdict,
       WorkerInv, IInv, TypeOK
  <2> QED BY <2>6, <2>7, <2>8, <2>9, <2>10 DEF IInv
<1>3. ASSUME StartEnqueue(s) PROVE IInv'
  BY <1>3 DEF StartEnqueue, IdleStart, row, content, memory, IInv, TypeOK, StartCalls, WorkerInv,
     Early, Late, StartInv, Held, CancelInv, VerdictInv, ReadyIsComplete, CancelledIsClean,
     NoWorkBehindAVerdict
<1>4. ASSUME StartEnqueueFails(s) PROVE IInv'
  BY <1>4 DEF StartEnqueueFails, row, content, memory, IInv, TypeOK, StartCalls, WorkerInv,
     Early, Late, StartInv, Held, CancelInv, VerdictInv, ReadyIsComplete, CancelledIsClean,
     NoWorkBehindAVerdict
<1>5. ASSUME StartReportFailed(s) PROVE IInv'
  BY <1>5 DEF StartReportFailed, Report, IdleStart, content, memory, IInv, TypeOK, StartCalls,
     WorkerInv, Early, Late, StartInv, Held, CancelInv, VerdictInv, ReadyIsComplete,
     CancelledIsClean, NoWorkBehindAVerdict
<1>6. ASSUME StartCommitFails(s) PROVE IInv'
  <2> USE <1>6 DEF StartCommitFails, IdleStart, content, memory
  <2>1. CASE UNCHANGED row
    BY <2>1 DEF row, IInv, TypeOK, StartCalls, WorkerInv, Early, Late, StartInv, Held, CancelInv,
       VerdictInv, ReadyIsComplete, CancelledIsClean, NoWorkBehindAVerdict
  <2>2. ASSUME NEW i \in Indexes, CreatePending(i, start[s].project)
        PROVE  IInv'
    BY <2>2 DEF CreatePending, Report, IInv, TypeOK, StartCalls, WorkerInv, Early, Late, StartInv,
       Held, CancelInv, VerdictInv, ReadyIsComplete, CancelledIsClean, NoWorkBehindAVerdict
  <2> QED BY <2>1, <2>2
<1>7. ASSUME StartReportRaises(s) PROVE IInv'
  BY <1>7 DEF StartReportRaises, IdleStart, row, content, memory, IInv, TypeOK, StartCalls,
     WorkerInv, Early, Late, StartInv, Held, CancelInv, VerdictInv, ReadyIsComplete,
     CancelledIsClean, NoWorkBehindAVerdict
<1> QED BY <1>1, <1>2, <1>3, <1>4, <1>5, <1>6, <1>7 DEF StartStep

LEMMA CancelInvariance ==
    ASSUME IInv, NEW c \in Cancellers,
           CancelStep(c) \/ \E i \in Indexes : CancelRead(c, i)
    PROVE  IInv'
<1> USE IndexingAssumption DEF Active, Terminal, Statuses, LivePcs, Alive
<1>1. ASSUME CancelWrite(c) PROVE IInv'
  BY <1>1 DEF CancelWrite, Report, IdleCancel, content, memory, IInv, TypeOK, CancelCalls,
     WorkerInv, Early, Late, StartInv, Held, CancelInv, VerdictInv, ReadyIsComplete,
     CancelledIsClean, NoWorkBehindAVerdict
<1>2. ASSUME NEW i \in Indexes, CancelRead(c, i) PROVE IInv'
  BY <1>2 DEF CancelRead, row, content, memory, IInv, TypeOK, CancelCalls,
     WorkerInv, Early, Late, StartInv, Held, CancelInv, VerdictInv, ReadyIsComplete,
     CancelledIsClean, NoWorkBehindAVerdict
<1>3. ASSUME CancelRaises(c) PROVE IInv'
  BY <1>3 DEF CancelRaises, IdleCancel, row, content, memory, IInv, TypeOK, CancelCalls,
     WorkerInv, Early, Late, StartInv, Held, CancelInv, VerdictInv, ReadyIsComplete,
     CancelledIsClean, NoWorkBehindAVerdict
<1> QED BY <1>1, <1>2, <1>3 DEF CancelStep

(* The transactions that look at the cancel flag before anything else.     *)
Checks ==
    {<<"load", "extracting">>, <<"chunk", "persist">>, <<"embed", "embedding">>,
     <<"store", "storing">>}

LEMMA CheckCancelInvariance ==
    ASSUME IInv, NEW i \in Indexes, NEW here, NEW next, <<here, next>> \in Checks,
           here = "embed" => done[i] < drafts[i],
           here = "store" => vectors[i] = drafts[i],
           CheckCancel(i, here, next)
    PROVE  IInv'
<1> USE IndexingAssumption DEF Active, Terminal, Statuses, LivePcs, Alive, Checks
<1>1. CASE cancelRequested[i] /\ WorkerCancel(i)
  BY <1>1 DEF CheckCancel, WorkerCancel, WorkerGoto, Report, api, memory,
     IInv, TypeOK, WorkerInv, Early, Late, StartInv, Held, CancelInv, VerdictInv,
     ReadyIsComplete, CancelledIsClean, NoWorkBehindAVerdict
<1>2. CASE /\ ~cancelRequested[i] /\ WorkerGoto(i, next)
           /\ UNCHANGED <<row, content, project, api, memory>>
  BY <1>2 DEF CheckCancel, WorkerGoto, row, content, api, memory,
     IInv, TypeOK, WorkerInv, Early, Late, StartInv, Held, CancelInv, VerdictInv,
     ReadyIsComplete, CancelledIsClean, NoWorkBehindAVerdict
<1> QED BY <1>1, <1>2 DEF CheckCancel

LEMMA GotoFailing ==
    ASSUME IInv, NEW i \in Indexes, Alive(i), WorkerGoto(i, "failing"),
           UNCHANGED <<row, content, project, api, memory>>
    PROVE  IInv'
BY IndexingAssumption DEF Active, Terminal, Statuses, LivePcs, Alive, WorkerGoto, row, content,
   api, memory, IInv, TypeOK, WorkerInv,
   Early, Late, StartInv, Held, CancelInv, VerdictInv, ReadyIsComplete, CancelledIsClean,
   NoWorkBehindAVerdict

LEMMA WorkerInvariance ==
    ASSUME IInv, NEW i \in Indexes, WorkerStep(i) \/ WorkerDies(i)
    PROVE  IInv'
<1> USE IndexingAssumption DEF Active, Terminal, Statuses, LivePcs, Alive
<1>1. ASSUME LoadIndexMetadata(i) PROVE IInv'
  BY <1>1, CheckCancelInvariance DEF LoadIndexMetadata, Checks
<1>2. ASSUME ReportExtracting(i) PROVE IInv'
  BY <1>2 DEF ReportExtracting, Report, WorkerGoto, content, api, memory, StepProgress,
     IInv, TypeOK, WorkerInv, Early, Late, StartInv, Held, CancelInv, VerdictInv,
     ReadyIsComplete, CancelledIsClean, NoWorkBehindAVerdict
<1>3. ASSUME ConvertAndExtract(i) PROVE IInv'
  <2>1. CASE WorkerGoto(i, "chunking")
    BY <1>3, <2>1 DEF ConvertAndExtract, WorkerGoto, row, content, api, memory,
     IInv, TypeOK, WorkerInv, Early, Late, StartInv, Held, CancelInv, VerdictInv,
     ReadyIsComplete, CancelledIsClean, NoWorkBehindAVerdict
  <2>2. CASE WorkerGoto(i, "failing")
    BY <1>3, <2>2, GotoFailing DEF ConvertAndExtract
  <2> QED BY <1>3, <2>1, <2>2 DEF ConvertAndExtract
<1>4. ASSUME ReportChunking(i) PROVE IInv'
  BY <1>4 DEF ReportChunking, Report, WorkerGoto, content, api, memory, StepProgress,
     IInv, TypeOK, WorkerInv, Early, Late, StartInv, Held, CancelInv, VerdictInv,
     ReadyIsComplete, CancelledIsClean, NoWorkBehindAVerdict
<1>5. ASSUME Chunk(i) PROVE IInv'
  <2>1. CASE CheckCancel(i, "chunk", "persist")
    BY <2>1, CheckCancelInvariance DEF Checks
  <2>2. CASE ~CheckCancel(i, "chunk", "persist")
    BY <1>5, <2>2, GotoFailing DEF Chunk
  <2> QED BY <2>1, <2>2
<1>6. ASSUME PersistChunks(i) PROVE IInv'
  BY <1>6 DEF PersistChunks, WorkerGoto, row, content, api, memory,
     IInv, TypeOK, WorkerInv, Early, Late, StartInv, Held, CancelInv, VerdictInv,
     ReadyIsComplete, CancelledIsClean, NoWorkBehindAVerdict
<1>7. ASSUME EmbedCheck(i) PROVE IInv'
  BY <1>7, CheckCancelInvariance DEF EmbedCheck, Checks
<1>8. ASSUME EmbedReport(i) PROVE IInv'
  <2>1. drafts[i] \in Nat \ {0} /\ done[i] \in 0..drafts[i]
    BY <1>8 DEF EmbedReport, IInv, TypeOK, WorkerInv, Late
  <2>2. EmbedProgress(done[i], drafts[i]) \in 0..100
    BY <2>1, EmbedProgressBounds
  <2> QED
    BY <1>8, <2>2 DEF EmbedReport, Report, WorkerGoto, content, api, memory,
     IInv, TypeOK, WorkerInv, Early, Late, StartInv, Held, CancelInv, VerdictInv,
     ReadyIsComplete, CancelledIsClean, NoWorkBehindAVerdict
<1>9. ASSUME EmbedCall(i) PROVE IInv'
  BY <1>9 DEF EmbedCall, Batch, WorkerGoto, row, content, api, memory,
     IInv, TypeOK, WorkerInv, Early, Late, StartInv, Held, CancelInv, VerdictInv,
     ReadyIsComplete, CancelledIsClean, NoWorkBehindAVerdict
<1>10. ASSUME EmbedFails(i) PROVE IInv'
  BY <1>10, GotoFailing DEF EmbedFails
<1>11. ASSUME EmbedDone(i) PROVE IInv'
  BY <1>11 DEF EmbedDone, WorkerGoto, row, content, api, memory,
     IInv, TypeOK, WorkerInv, Early, Late, StartInv, Held, CancelInv, VerdictInv,
     ReadyIsComplete, CancelledIsClean, NoWorkBehindAVerdict
<1>12. ASSUME StoreMismatch(i) PROVE IInv'
  BY <1>12 DEF StoreMismatch, WorkerGoto, row, content, api, memory,
     IInv, TypeOK, WorkerInv, Early, Late, StartInv, Held, CancelInv, VerdictInv,
     ReadyIsComplete, CancelledIsClean, NoWorkBehindAVerdict
<1>13. ASSUME StoreCheck(i) PROVE IInv'
  BY <1>13, CheckCancelInvariance DEF StoreCheck, Checks
<1>14. ASSUME StoreCommit(i) PROVE IInv'
  BY <1>14 DEF StoreCommit, Report, WorkerGoto, content, api, memory, StepProgress,
     IInv, TypeOK, WorkerInv, Early, Late, StartInv, Held, CancelInv, VerdictInv,
     ReadyIsComplete, CancelledIsClean, NoWorkBehindAVerdict
<1>15. ASSUME MarkFailed(i) PROVE IInv'
  BY <1>15 DEF MarkFailed, Report, WorkerGoto, content, api, memory, StepProgress,
     IInv, TypeOK, WorkerInv, Early, Late, StartInv, Held, CancelInv, VerdictInv,
     ReadyIsComplete, CancelledIsClean, NoWorkBehindAVerdict
<1>16. ASSUME WorkerDies(i) PROVE IInv'
  BY <1>16 DEF WorkerDies, WorkerGoto, row, content, api, memory,
     IInv, TypeOK, WorkerInv, Early, Late, StartInv, Held, CancelInv, VerdictInv,
     ReadyIsComplete, CancelledIsClean, NoWorkBehindAVerdict
<1> QED
  BY <1>1, <1>2, <1>3, <1>4, <1>5, <1>6, <1>7, <1>8, <1>9, <1>10, <1>11, <1>12, <1>13, <1>14,
     <1>15, <1>16 DEF WorkerStep

LEMMA EnvironmentInvariance ==
    ASSUME IInv, ApiRestart \/ \E p \in Projects : UnlinkDocument(p) \/ DeleteProjectRow(p)
    PROVE  IInv'
<1> USE IndexingAssumption DEF Active, Terminal, Statuses, LivePcs, Alive
<1>1. ASSUME ApiRestart PROVE IInv'
  BY <1>1 DEF ApiRestart, IdleStart, IdleCancel, StartCalls, CancelCalls, row, content, memory,
     IInv, TypeOK, WorkerInv, Early, Late, StartInv, Held, CancelInv, VerdictInv,
     ReadyIsComplete, CancelledIsClean, NoWorkBehindAVerdict
<1>2. ASSUME NEW p \in Projects, UnlinkDocument(p) \/ DeleteProjectRow(p) PROVE IInv'
  BY <1>2 DEF UnlinkDocument, DeleteProjectRow, row, content, api, memory,
     IInv, TypeOK, WorkerInv, Early, Late, StartInv, Held, CancelInv, VerdictInv,
     ReadyIsComplete, CancelledIsClean, NoWorkBehindAVerdict
<1> QED BY <1>1, <1>2

LEMMA StutterInvariance == IInv /\ UNCHANGED vars => IInv'
BY DEF vars, row, content, api, memory, StartCalls, CancelCalls, Active, Terminal, Statuses,
   LivePcs, Alive,
     IInv, TypeOK, WorkerInv, Early, Late, StartInv, Held, CancelInv, VerdictInv,
     ReadyIsComplete, CancelledIsClean, NoWorkBehindAVerdict

LEMMA NextInv == IInv /\ [Next]_vars => IInv'
<1> SUFFICES ASSUME IInv, [Next]_vars PROVE IInv'
  OBVIOUS
<1>1. ASSUME NEW s \in Starters, StartStep(s) \/ \E p \in Projects : StartCheck(s, p)
      PROVE  IInv'
  BY <1>1, StartInvariance
<1>2. ASSUME NEW c \in Cancellers, CancelStep(c) \/ \E i \in Indexes : CancelRead(c, i)
      PROVE  IInv'
  BY <1>2, CancelInvariance
<1>3. ASSUME NEW i \in Indexes, WorkerStep(i) \/ WorkerDies(i)
      PROVE  IInv'
  BY <1>3, WorkerInvariance
<1>4. CASE ApiRestart \/ \E p \in Projects : UnlinkDocument(p) \/ DeleteProjectRow(p)
  BY <1>4, EnvironmentInvariance
<1>5. CASE UNCHANGED vars
  BY <1>5, StutterInvariance
<1> QED BY <1>1, <1>2, <1>3, <1>4, <1>5 DEF Next

THEOREM Invariance == Spec => []IInv
<1> QED BY InitInv, NextInv, PTL DEF Spec

(* Every variable keeps its type.                                          *)
THEOREM TypeCorrect == Spec => []TypeOK
<1>1. IInv => TypeOK
  BY DEF IInv
<1> QED BY <1>1, Invariance, PTL

(* Retrieval never sees an index that is READY and incomplete.             *)
THEOREM ReadyIndexesAreComplete == Spec => []ReadyIsComplete
<1>1. IInv => ReadyIsComplete
  BY DEF IInv, VerdictInv
<1> QED BY <1>1, Invariance, PTL

(* A cancelled index was asked to stop and has no chunk left.              *)
THEOREM CancelledIndexesAreClean == Spec => []CancelledIsClean
<1>1. IInv => CancelledIsClean
  BY DEF IInv, VerdictInv
<1> QED BY <1>1, Invariance, PTL

(* No worker is alive behind a final status.                               *)
THEOREM VerdictsEndTheWork == Spec => []NoWorkBehindAVerdict
<1>1. IInv => NoWorkBehindAVerdict
  BY DEF IInv, VerdictInv
<1> QED BY <1>1, Invariance, PTL

-----------------------------------------------------------------------------
(* A verdict is revised by a stale cancel only.                            *)

LEMMA ReopenStep ==
    ASSUME IInv, [Next]_vars, NEW i \in Indexes, status[i] \in Terminal, status'[i] # status[i]
    PROVE  \E c \in Cancellers : CancelWrite(c) /\ cancel[c].index = i
<1> USE DEF Active, Terminal, Statuses, LivePcs, Alive
<1>1. ~Alive(i) /\ status \in [Indexes -> Statuses \cup {"NONE"}]
  BY DEF IInv, TypeOK, VerdictInv, NoWorkBehindAVerdict
<1>2. ASSUME NEW s \in Starters, StartStep(s) \/ \E p \in Projects : StartCheck(s, p)
      PROVE  FALSE
  <2>1. ~StartReportFailed(s)
    BY <1>1 DEF StartReportFailed, Report, IInv, StartInv, Held
  <2> QED
    BY <1>1, <1>2, <2>1
       DEF StartStep, StartCheck, StartCreate, CreatePending, StartCommitFails, StartEnqueue,
           StartEnqueueFails, StartReportRaises, Report, row
<1>3. ASSUME NEW j \in Indexes, WorkerStep(j) \/ WorkerDies(j)
      PROVE  FALSE
  <2>1. Alive(j)
    BY <1>3 DEF WorkerStep, WorkerDies, LoadIndexMetadata, ReportExtracting, ConvertAndExtract,
       ReportChunking, Chunk, PersistChunks, EmbedCheck, EmbedReport, EmbedCall, EmbedFails,
       EmbedDone, StoreMismatch, StoreCheck, StoreCommit, MarkFailed, CheckCancel
  <2>2. i # j
    BY <1>1, <2>1
  <2>3. \E st : status' = [status EXCEPT ![j] = st] \/ status' = status
    BY <1>3 DEF WorkerStep, WorkerDies, LoadIndexMetadata, ReportExtracting, ConvertAndExtract,
       ReportChunking, Chunk, PersistChunks, EmbedCheck, EmbedReport, EmbedCall, EmbedFails,
       EmbedDone, StoreMismatch, StoreCheck, StoreCommit, MarkFailed, CheckCancel, WorkerCancel,
       Report, row
  <2> QED BY <1>1, <2>2, <2>3
<1>4. ASSUME NEW c \in Cancellers, CancelStep(c) \/ \E j \in Indexes : CancelRead(c, j)
      PROVE  CancelWrite(c) /\ cancel[c].index = i
  BY <1>1, <1>4 DEF CancelRead, CancelStep, CancelWrite, CancelRaises, Report, row
<1>5. CASE ApiRestart \/ \E p \in Projects : UnlinkDocument(p) \/ DeleteProjectRow(p)
  BY <1>5 DEF ApiRestart, UnlinkDocument, DeleteProjectRow, row
<1>6. CASE UNCHANGED vars
  BY <1>6 DEF vars, row
<1> QED BY <1>2, <1>3, <1>4, <1>5, <1>6 DEF Next

(* The worker and the start call never revise a verdict; a cancel call that *)
(* had read the row before does.                                           *)
THEOREM StaleCancelReopens == Spec => OnlyStaleCancelReopens
<1>1. IInv /\ [Next]_vars =>
        [\A i \in Indexes :
            status[i] \in Terminal /\ status'[i] # status[i]
                => \E c \in Cancellers : CancelWrite(c) /\ cancel[c].index = i]_vars
  BY ReopenStep
<1> QED BY <1>1, Invariance, PTL DEF Spec, OnlyStaleCancelReopens

-----------------------------------------------------------------------------
(* Why an index may be left active by a worker that ran to its end.        *)

LEMMA AbandonedStep ==
    IInv /\ AbandonedOnlyIfEmptyOrCancelled /\ [Next]_vars => AbandonedOnlyIfEmptyOrCancelled'
<1> SUFFICES ASSUME IInv, AbandonedOnlyIfEmptyOrCancelled, [Next]_vars
             PROVE  AbandonedOnlyIfEmptyOrCancelled'
  OBVIOUS
<1> USE DEF Active, Terminal, Statuses, LivePcs, Alive, AbandonedOnlyIfEmptyOrCancelled
<1>1. ASSUME NEW s \in Starters, StartStep(s) \/ \E p \in Projects : StartCheck(s, p)
      PROVE  AbandonedOnlyIfEmptyOrCancelled'
  <2> USE DEF row, content, Report, IInv, TypeOK
  <2>1. ASSUME NEW p \in Projects, StartCheck(s, p) PROVE AbandonedOnlyIfEmptyOrCancelled'
    BY <2>1 DEF StartCheck
  <2>2. CASE StartCreate(s)
    BY <2>2 DEF StartCreate, CreatePending, WorkerInv
  <2>3. CASE StartEnqueue(s)
    BY <2>3 DEF StartEnqueue
  <2>4. CASE StartEnqueueFails(s)
    BY <2>4 DEF StartEnqueueFails
  <2>5. CASE StartReportFailed(s)
    BY <2>5 DEF StartReportFailed
  <2>6. CASE StartCommitFails(s)
    BY <2>6 DEF StartCommitFails, CreatePending, WorkerInv
  <2>7. CASE StartReportRaises(s)
    BY <2>7 DEF StartReportRaises
  <2> QED BY <1>1, <2>1, <2>2, <2>3, <2>4, <2>5, <2>6, <2>7 DEF StartStep
<1>2. ASSUME NEW c \in Cancellers, CancelStep(c) \/ \E j \in Indexes : CancelRead(c, j)
      PROVE  AbandonedOnlyIfEmptyOrCancelled'
  BY <1>2 DEF CancelRead, CancelStep, CancelWrite, CancelRaises, Report, row, content, IInv, TypeOK
<1>3. ASSUME NEW i \in Indexes, WorkerStep(i) \/ WorkerDies(i)
      PROVE  AbandonedOnlyIfEmptyOrCancelled'
  <2> SUFFICES ASSUME NEW j \in Indexes, wpc'[j] = "exit", status'[j] \in Active
               PROVE  chunks'[j] = 0 \/ cancelRequested'[j]
    OBVIOUS
  <2> USE DEF WorkerGoto, Report, row, content, IInv, TypeOK
  <2>1. CASE j # i
    <3>1. wpc'[j] = wpc[j] /\ status'[j] = status[j] /\ chunks'[j] = chunks[j]
          /\ cancelRequested'[j] = cancelRequested[j]
      BY <1>3, <2>1 DEF WorkerStep, WorkerDies, LoadIndexMetadata, ReportExtracting,
         ConvertAndExtract, ReportChunking, Chunk, PersistChunks, EmbedCheck, EmbedReport,
         EmbedCall, EmbedFails, EmbedDone, StoreMismatch, StoreCheck, StoreCommit, MarkFailed,
         CheckCancel, WorkerCancel
    <3> QED BY <3>1
  <2>2. CASE j = i
    <3>1. ASSUME NEW here, NEW next, next # "exit", CheckCancel(i, here, next) PROVE FALSE
      BY <2>2, <3>1 DEF CheckCancel, WorkerCancel
    <3>2. PersistChunks(i)
      BY <1>3, <2>2, <3>1 DEF WorkerStep, WorkerDies, LoadIndexMetadata, ReportExtracting,
         ConvertAndExtract, ReportChunking, Chunk, EmbedCheck, EmbedReport, EmbedCall,
         EmbedFails, EmbedDone, StoreMismatch, StoreCheck, StoreCommit, MarkFailed
    <3> QED BY <2>2, <3>2 DEF PersistChunks
  <2> QED BY <2>1, <2>2
<1>4. CASE ApiRestart \/ \E p \in Projects : UnlinkDocument(p) \/ DeleteProjectRow(p)
  BY <1>4 DEF ApiRestart, UnlinkDocument, DeleteProjectRow, row, content
<1>5. CASE UNCHANGED vars
  BY <1>5 DEF vars, row, content
<1> QED BY <1>1, <1>2, <1>3, <1>4, <1>5 DEF Next

(* A worker that ran to its end leaves its index active only after a       *)
(* cancel or when the document gave no chunk.                              *)
THEOREM AbandonedIndexes == Spec => []AbandonedOnlyIfEmptyOrCancelled
<1>1. Init => AbandonedOnlyIfEmptyOrCancelled
  BY DEF Init, AbandonedOnlyIfEmptyOrCancelled
<1> QED BY <1>1, AbandonedStep, Invariance, PTL DEF Spec

-----------------------------------------------------------------------------
(* Jobs and calls: what the start check and the hand-over to the runner    *)
(* guarantee together.                                                     *)

(* A worker's step is about its own row, which is active, and nothing else. *)
LEMMA WorkerIsLocal ==
    ASSUME IInv, NEW i \in Indexes, WorkerStep(i) \/ WorkerDies(i)
    PROVE  /\ status[i] \in Active /\ wpc'[i] # "none"
           /\ UNCHANGED <<cancelRequested, projectOf, start>>
           /\ \A j \in Indexes \ {i} : wpc'[j] = wpc[j] /\ status'[j] = status[j]
<1> USE DEF LivePcs, Alive
<1>1. Alive(i)
  BY DEF WorkerStep, WorkerDies, LoadIndexMetadata, ReportExtracting, ConvertAndExtract,
     ReportChunking, Chunk, PersistChunks, EmbedCheck, EmbedReport, EmbedCall, EmbedFails,
     EmbedDone, StoreMismatch, StoreCheck, StoreCommit, MarkFailed, CheckCancel
<1>2. status[i] \in Active
  BY <1>1 DEF IInv, TypeOK, WorkerInv, VerdictInv, NoWorkBehindAVerdict, Statuses, Active, Terminal
<1>3. UNCHANGED <<cancelRequested, projectOf, start>>
  BY DEF WorkerStep, WorkerDies, LoadIndexMetadata, ReportExtracting, ConvertAndExtract,
     ReportChunking, Chunk, PersistChunks, EmbedCheck, EmbedReport, EmbedCall, EmbedFails,
     EmbedDone, StoreMismatch, StoreCheck, StoreCommit, MarkFailed, CheckCancel, WorkerCancel,
     row, api
<1>4. \E at \in LivePcs \cup {"exit", "dead"} : wpc' = [wpc EXCEPT ![i] = at]
  BY DEF WorkerStep, WorkerDies, LoadIndexMetadata, ReportExtracting, ConvertAndExtract,
     ReportChunking, Chunk, PersistChunks, EmbedCheck, EmbedReport, EmbedCall, EmbedFails,
     EmbedDone, StoreMismatch, StoreCheck, StoreCommit, MarkFailed, CheckCancel, WorkerCancel,
     WorkerGoto
<1>5. \E st : status' = [status EXCEPT ![i] = st] \/ status' = status
  BY DEF WorkerStep, WorkerDies, LoadIndexMetadata, ReportExtracting, ConvertAndExtract,
     ReportChunking, Chunk, PersistChunks, EmbedCheck, EmbedReport, EmbedCall, EmbedFails,
     EmbedDone, StoreMismatch, StoreCheck, StoreCommit, MarkFailed, CheckCancel, WorkerCancel,
     Report, row
<1>. QED  BY <1>2, <1>3, <1>4, <1>5 DEF IInv, TypeOK

(* The step after which nobody knows of the run any more.                  *)
LEMMA LostJobStep ==
    ASSUME IInv, [Next]_vars, NEW i \in Indexes, ~Lost(i), Lost(i)'
    PROVE  \/ ApiRestart
           \/ \E s \in Starters :
                 \/ StartCommitFails(s) /\ projectOf'[i] = start[s].project
                 \/ StartReportRaises(s) /\ start[s].index = i
<1> USE DEF Active, Held
<1>1. /\ status'[i] \in Active /\ wpc'[i] = "none" /\ ~cancelRequested'[i]
      /\ \A s \in Starters : Held(s)' => start'[s].index # i
  BY DEF Lost
<1>2. ASSUME status[i] \in Active, wpc[i] = "none", ~cancelRequested[i]
      PROVE  \E s \in Starters : Held(s) /\ start[s].index = i
  BY <1>2 DEF Lost
<1>3. CASE /\ status'[i] = status[i] /\ wpc'[i] = wpc[i]
           /\ cancelRequested'[i] = cancelRequested[i] /\ UNCHANGED start
  BY <1>1, <1>2, <1>3
<1>4. ASSUME NEW s \in Starters, StartStep(s) \/ \E p \in Projects : StartCheck(s, p)
      PROVE  \/ StartCommitFails(s) /\ projectOf'[i] = start[s].project
             \/ StartReportRaises(s) /\ start[s].index = i
  <2> USE DEF row, content, memory, Report, IInv, TypeOK, StartCalls
  <2>1. CASE \E p \in Projects : StartCheck(s, p)
    BY <1>1, <1>2, <2>1 DEF StartCheck
  <2>2. CASE StartCreate(s)
    <3>1. PICK j \in Indexes :
            /\ start[s].pc = "create"
            /\ status' = [status EXCEPT ![j] = "PENDING"]
            /\ start' = [start EXCEPT ![s] = [@ EXCEPT !.pc = "enqueue", !.index = j]]
      BY <2>2 DEF StartCreate, CreatePending
    <3>2. UNCHANGED <<wpc, cancelRequested>>
      BY <2>2 DEF StartCreate, CreatePending
    <3>3. CASE i = j
      BY <1>1, <3>1, <3>3
    <3>4. CASE i # j
      BY <1>1, <1>2, <3>1, <3>2, <3>4
    <3>. QED  BY <3>3, <3>4
  <2>3. CASE StartCommitFails(s)
    <3>1. start[s].pc = "create" /\ start' = [start EXCEPT ![s] = IdleStart] /\ wpc' = wpc
          /\ cancelRequested' = cancelRequested
      BY <2>3 DEF StartCommitFails, CreatePending
    <3>2. status'[i] # status[i]
      BY <1>1, <1>2, <3>1 DEF IdleStart
    <3>3. PICK j \in Indexes : CreatePending(j, start[s].project)
      BY <2>3, <3>2 DEF StartCommitFails
    <3>. QED  BY <2>3, <3>2, <3>3 DEF CreatePending
  <2>4. CASE StartEnqueue(s)
    <3>1. start[s].index # i
      BY <1>1, <2>4 DEF StartEnqueue, Alive, LivePcs
    <3>. QED  BY <1>1, <1>2, <2>4, <3>1 DEF StartEnqueue, Alive, IdleStart
  <2>5. CASE StartEnqueueFails(s)
    BY <1>1, <1>2, <2>5 DEF StartEnqueueFails
  <2>6. CASE StartReportFailed(s)
    BY <1>1, <1>2, <2>6 DEF StartReportFailed, IdleStart
  <2>7. CASE StartReportRaises(s)
    BY <1>1, <1>2, <2>7 DEF StartReportRaises, IdleStart
  <2>. QED  BY <1>4, <2>1, <2>2, <2>3, <2>4, <2>5, <2>6, <2>7 DEF StartStep
<1>5. ASSUME NEW c \in Cancellers, CancelStep(c) \/ \E j \in Indexes : CancelRead(c, j)
      PROVE  /\ status'[i] = status[i] /\ wpc'[i] = wpc[i]
             /\ cancelRequested'[i] = cancelRequested[i] /\ UNCHANGED start
  BY <1>1, <1>5 DEF CancelRead, CancelStep, CancelWrite, CancelRaises, Report, row, memory, IInv,
     TypeOK
<1>6. ASSUME NEW j \in Indexes, WorkerStep(j) \/ WorkerDies(j)
      PROVE  /\ status'[i] = status[i] /\ wpc'[i] = wpc[i]
             /\ cancelRequested'[i] = cancelRequested[i] /\ UNCHANGED start
  BY <1>1, <1>6, WorkerIsLocal
<1>7. CASE \E p \in Projects : UnlinkDocument(p) \/ DeleteProjectRow(p)
  BY <1>3, <1>7 DEF UnlinkDocument, DeleteProjectRow, row, api
<1>8. CASE UNCHANGED vars
  BY <1>3, <1>8 DEF vars, row, api
<1>. QED  BY <1>3, <1>4, <1>5, <1>6, <1>7, <1>8 DEF Next

(* A committed job is lost only by an error between two transactions of    *)
(* its start call, or by the end of the API process                        *)
(* (JobsAreLostByErrorsOnly): nothing that other calls, workers or owners  *)
(* do loses it.                                                            *)
THEOREM OnlyErrorsLoseJobs == Spec => JobsAreLostByErrorsOnly
<1>1. IInv /\ [Next]_vars =>
        [\A i \in Indexes :
            ~Lost(i) /\ Lost(i)'
                => \/ ApiRestart
                   \/ \E s \in Starters :
                         \/ StartCommitFails(s) /\ projectOf'[i] = start[s].project
                         \/ StartReportRaises(s) /\ start[s].index = i]_vars
  BY LostJobStep
<1>. QED  BY <1>1, Invariance, PTL DEF Spec, JobsAreLostByErrorsOnly

(* Nobody but a start call adds an active run to a project.                *)
LEMMA CallsBoundRuns ==
    ASSUME IsFiniteSet(Indexes), IsFiniteSet(Starters), IInv, NoMoreRunsThanCalls, [Next]_vars,
           NEW p \in Projects
    PROVE  Cardinality(Uncancelled(p)') + Cardinality(Creating(p)') <= Cardinality(Starters)
<1> DEFINE runs == Uncancelled(p)
           calls == Creating(p)
<1>0. /\ runs \in SUBSET Indexes /\ runs' \in SUBSET Indexes
      /\ calls \in SUBSET Starters /\ calls' \in SUBSET Starters
  BY DEF Uncancelled, Creating, ActiveIndexesOf
<1> HIDE DEF runs, calls
<1>1. /\ IsFiniteSet(runs) /\ IsFiniteSet(runs') /\ IsFiniteSet(calls) /\ IsFiniteSet(calls')
      /\ Cardinality(runs) \in Nat /\ Cardinality(runs') \in Nat
      /\ Cardinality(calls) \in Nat /\ Cardinality(calls') \in Nat
      /\ Cardinality(Starters) \in Nat /\ Cardinality(calls') <= Cardinality(Starters)
  BY <1>0, FS_Subset, FS_CardinalityType
<1>2. Cardinality(runs) + Cardinality(calls) <= Cardinality(Starters)
  BY DEF NoMoreRunsThanCalls, runs, calls
<1>3. CASE runs' \subseteq runs /\ calls' \subseteq calls
  <2>1. Cardinality(runs') <= Cardinality(runs) /\ Cardinality(calls') <= Cardinality(calls)
    BY <1>1, <1>3, FS_Subset
  <2>. QED  BY <1>1, <1>2, <2>1 DEF runs, calls
<1>4. CASE runs' = {}
  <2>1. Cardinality(runs') = 0
    BY <1>4, FS_EmptySet
  <2>. QED  BY <1>1, <2>1 DEF runs, calls
<1>5. ASSUME NEW i \in Indexes, NEW s \in calls, runs' \subseteq runs \cup {i},
             calls' = calls \ {s}
      PROVE  Cardinality(runs') + Cardinality(calls') <= Cardinality(Starters)
  <2>1. Cardinality(calls') = Cardinality(calls) - 1
    BY <1>1, <1>5, FS_RemoveElement
  <2>2. /\ IsFiniteSet(runs \cup {i}) /\ Cardinality(runs \cup {i}) \in Nat
        /\ Cardinality(runs \cup {i}) <= Cardinality(runs) + 1
    <3>1. IsFiniteSet(runs \cup {i})
      BY <1>1, FS_AddElement
    <3>2. Cardinality(runs \cup {i}) \in {Cardinality(runs), Cardinality(runs) + 1}
      BY <1>1, FS_AddElement
    <3>. QED  BY <1>1, <3>1, <3>2
  <2>3. Cardinality(runs') <= Cardinality(runs \cup {i})
    BY <1>5, <2>2, FS_Subset
  <2>. QED  BY <1>1, <1>2, <2>1, <2>2, <2>3
<1> USE DEF Uncancelled, ActiveIndexesOf, Creating, Active
<1>6. ASSUME NEW s \in Starters, StartStep(s) \/ \E q \in Projects : StartCheck(s, q)
      PROVE  Cardinality(runs') + Cardinality(calls') <= Cardinality(Starters)
  <2> USE DEF row, content, memory, Report, IInv, TypeOK, StartCalls
  <2>1. ASSUME NEW q \in Projects, StartCheck(s, q)
        PROVE  runs' = {} \/ (runs' \subseteq runs /\ calls' \subseteq calls)
    BY <2>1 DEF StartCheck, runs, calls
  <2>2. CASE StartCreate(s)
    <3>1. PICK i \in Indexes :
            /\ start[s].pc = "create" /\ status[i] = "NONE"
            /\ status' = [status EXCEPT ![i] = "PENDING"]
            /\ projectOf' = [projectOf EXCEPT ![i] = start[s].project]
            /\ start' = [start EXCEPT ![s] = [@ EXCEPT !.pc = "enqueue", !.index = i]]
            /\ UNCHANGED cancelRequested
      BY <2>2 DEF StartCreate, CreatePending
    <3>2. CASE start[s].project = p
      <4>1. s \in calls /\ runs' \subseteq runs \cup {i}
        BY <3>1, <3>2 DEF runs, calls
      <4>2. calls' = calls \ {s}
        BY <3>1, <3>2 DEF calls
      <4>. QED  BY <1>5, <4>1, <4>2
    <3>3. CASE start[s].project # p
      <4>1. runs' \subseteq runs /\ calls' \subseteq calls
        BY <3>1, <3>3 DEF runs, calls
      <4>. QED  BY <1>3, <4>1 DEF runs, calls
    <3>. QED  BY <3>2, <3>3
  <2>3. CASE StartEnqueue(s) \/ StartEnqueueFails(s)
    <3>1. runs' \subseteq runs /\ calls' \subseteq calls
      BY <2>3 DEF StartEnqueue, StartEnqueueFails, IdleStart, runs, calls
    <3>. QED  BY <1>3, <3>1 DEF runs, calls
  <2>4. CASE StartReportFailed(s) \/ StartReportRaises(s)
    <3>1. runs' \subseteq runs /\ calls' \subseteq calls
      BY <2>4 DEF StartReportFailed, StartReportRaises, IdleStart, runs, calls
    <3>. QED  BY <1>3, <3>1 DEF runs, calls
  <2>5. CASE StartCommitFails(s)
    <3>1. start[s].pc = "create" /\ start' = [start EXCEPT ![s] = IdleStart]
      BY <2>5 DEF StartCommitFails
    <3>2. CASE UNCHANGED row
      <4>1. runs' \subseteq runs /\ calls' \subseteq calls
        BY <3>1, <3>2 DEF IdleStart, runs, calls
      <4>. QED  BY <1>3, <4>1 DEF runs, calls
    <3>3. ASSUME NEW i \in Indexes, CreatePending(i, start[s].project)
          PROVE  Cardinality(runs') + Cardinality(calls') <= Cardinality(Starters)
      <4>1. CASE start[s].project = p
        <5>1. s \in calls /\ runs' \subseteq runs \cup {i}
          BY <3>1, <3>3, <4>1 DEF CreatePending, runs, calls
        <5>2. calls' = calls \ {s}
          BY <3>1, <4>1 DEF IdleStart, calls
        <5>. QED  BY <1>5, <5>1, <5>2
      <4>2. CASE start[s].project # p
        <5>1. runs' \subseteq runs /\ calls' \subseteq calls
          BY <3>1, <3>3, <4>2 DEF CreatePending, IdleStart, runs, calls
        <5>. QED  BY <1>3, <5>1 DEF runs, calls
      <4>. QED  BY <4>1, <4>2
    <3>. QED  BY <2>5, <3>2, <3>3 DEF StartCommitFails, runs, calls
  <2>. QED
    BY <1>3, <1>4, <1>6, <2>1, <2>2, <2>3, <2>4, <2>5 DEF StartStep, runs, calls
<1>7. ASSUME NEW c \in Cancellers, CancelStep(c) \/ \E j \in Indexes : CancelRead(c, j)
      PROVE  runs' \subseteq runs /\ calls' \subseteq calls
  BY <1>7 DEF CancelRead, CancelStep, CancelWrite, CancelRaises, Report, row, memory, IInv, TypeOK, runs, calls
<1>8. ASSUME NEW j \in Indexes, WorkerStep(j) \/ WorkerDies(j)
      PROVE  runs' \subseteq runs /\ calls' \subseteq calls
  BY <1>8, WorkerIsLocal DEF runs, calls
<1>9. CASE \E q \in Projects : UnlinkDocument(q) \/ DeleteProjectRow(q)
  BY <1>3, <1>9 DEF UnlinkDocument, DeleteProjectRow, row, api, runs, calls
<1>10. CASE ApiRestart
  <2>1. runs' \subseteq runs /\ calls' \subseteq calls
    BY <1>10 DEF ApiRestart, IdleStart, row, runs, calls
  <2>. QED  BY <1>3, <2>1 DEF runs, calls
<1>11. CASE UNCHANGED vars
  BY <1>3, <1>11 DEF vars, row, api, runs, calls
<1>. QED
  BY <1>3, <1>6, <1>7, <1>8, <1>9, <1>10, <1>11 DEF Next, runs, calls

(* However calls race, a project has never more active runs that nobody    *)
(* cancelled than there are start calls at once (NoMoreRunsThanCalls).     *)
THEOREM RunsAreBounded ==
    ASSUME IsFiniteSet(Indexes), IsFiniteSet(Starters)
    PROVE  Spec => []NoMoreRunsThanCalls
<1>1. Init => NoMoreRunsThanCalls
  <2> SUFFICES ASSUME Init, NEW p \in Projects
               PROVE  Cardinality(Uncancelled(p)) + Cardinality(Creating(p)) <= Cardinality(Starters)
    BY DEF NoMoreRunsThanCalls
  <2>1. Uncancelled(p) = {} /\ Creating(p) = {}
    BY DEF Init, IdleStart, Uncancelled, ActiveIndexesOf, Creating, Active
  <2>. QED  BY <2>1, FS_EmptySet, FS_CardinalityType
<1>2. IInv /\ NoMoreRunsThanCalls /\ [Next]_vars => NoMoreRunsThanCalls'
  BY CallsBoundRuns DEF NoMoreRunsThanCalls
<1>. QED  BY <1>1, <1>2, Invariance, PTL DEF Spec

-----------------------------------------------------------------------------
(* The rows implement the index lifecycle.                                 *)

Searchable == [i \in Indexes |-> chunks[i] > 0 /\ embeds[i] = chunks[i]]

(* While a row waits for its worker or has one, nothing can be searched.   *)
LEMMA NothingSearchableBefore ==
    ASSUME IInv, NEW i \in Indexes, wpc[i] = "none" \/ Alive(i)
    PROVE  ~Searchable[i]
<1>1. ~(chunks[i] > 0 /\ embeds[i] = chunks[i])
  BY DEF Alive, IInv, TypeOK, WorkerInv
<1> QED BY <1>1, Zenon DEF Searchable

LEMMA StartRefines ==
    ASSUME IInv, NEW s \in Starters,
           StartStep(s) \/ \E p \in Projects : StartCheck(s, p)
    PROVE  [Lifecycle!LifecycleNext]_(Lifecycle!lifecycleVars)
<1> USE DEF Lifecycle!LifecycleNext, Lifecycle!lifecycleVars, row, content
<1>1. ASSUME NEW p \in Projects, StartCheck(s, p)
      PROVE  UNCHANGED Lifecycle!lifecycleVars
  BY <1>1 DEF StartCheck
<1>2. ASSUME StartCreate(s)
      PROVE  \E i \in Indexes : Lifecycle!Create(i)
  BY <1>2 DEF StartCreate, CreatePending, Report, Lifecycle!Create, Lifecycle!Move
<1>3. ASSUME StartEnqueue(s) \/ StartEnqueueFails(s)
      PROVE  UNCHANGED Lifecycle!lifecycleVars
  BY <1>3 DEF StartEnqueue, StartEnqueueFails
<1>4. ASSUME StartReportFailed(s)
      PROVE  Lifecycle!Fail(start[s].index) /\ start[s].index \in Indexes
  <2>1. /\ start[s].index \in Indexes
        /\ wpc[start[s].index] = "none" /\ status[start[s].index] \in Active
    BY <1>4 DEF StartReportFailed, IInv, TypeOK, StartCalls, StartInv, Held
  <2>2. ~Searchable[start[s].index]
    BY <2>1, NothingSearchableBefore
  <2> QED
    BY <1>4, <2>1, <2>2 DEF StartReportFailed, Report, Searchable, Active, Lifecycle!Fail,
       Lifecycle!Move, Lifecycle!Running
<1>5. ASSUME StartCommitFails(s)
      PROVE  UNCHANGED Lifecycle!lifecycleVars \/ \E i \in Indexes : Lifecycle!Create(i)
  BY <1>5 DEF StartCommitFails, CreatePending, Report, Lifecycle!Create, Lifecycle!Move
<1>6. ASSUME StartReportRaises(s)
      PROVE  UNCHANGED Lifecycle!lifecycleVars
  BY <1>6 DEF StartReportRaises
<1> QED BY <1>1, <1>2, <1>3, <1>4, <1>5, <1>6 DEF StartStep

LEMMA CancelRefines ==
    ASSUME IInv, NEW c \in Cancellers,
           CancelStep(c) \/ \E i \in Indexes : CancelRead(c, i)
    PROVE  [Lifecycle!LifecycleNext]_(Lifecycle!lifecycleVars)
<1>1. ASSUME NEW i \in Indexes, CancelRead(c, i)
      PROVE  UNCHANGED Lifecycle!lifecycleVars
  BY <1>1 DEF CancelRead, Lifecycle!lifecycleVars, row, content
<1>2. ASSUME CancelWrite(c)
      PROVE  Lifecycle!RecordCancel(cancel[c].index) /\ cancel[c].index \in Indexes
  <2>1. /\ cancel[c].index \in Indexes /\ cancel[c].status \in Active
        /\ status[cancel[c].index] \in Active \cup Terminal
    BY <1>2 DEF CancelWrite, IInv, TypeOK, CancelCalls, CancelInv, Statuses
  <2> QED
    BY <1>2, <2>1 DEF CancelWrite, Report, content, Active, Terminal, Lifecycle!RecordCancel,
       Lifecycle!Move, Lifecycle!Running, Lifecycle!Verdicts
<1>3. ASSUME CancelRaises(c)
      PROVE  UNCHANGED Lifecycle!lifecycleVars
  BY <1>3 DEF CancelRaises, Lifecycle!lifecycleVars, row, content
<1> QED BY <1>1, <1>2, <1>3 DEF CancelStep, Lifecycle!LifecycleNext

LEMMA CheckCancelRefines ==
    ASSUME IInv, NEW i \in Indexes, NEW here \in LivePcs, NEW next, CheckCancel(i, here, next)
    PROVE  Lifecycle!Abandon(i) \/ UNCHANGED Lifecycle!lifecycleVars
<1>1. CASE cancelRequested[i] /\ WorkerCancel(i)
  <2>1. Alive(i) /\ status[i] \in Active /\ ~Searchable[i]
    BY NothingSearchableBefore DEF CheckCancel, Alive, IInv, TypeOK, WorkerInv, VerdictInv,
       NoWorkBehindAVerdict, LivePcs, Statuses, Active, Terminal
  <2>2. Searchable' = Searchable
    BY <1>1, <2>1 DEF WorkerCancel, Searchable, IInv, TypeOK
  <2> QED
    BY <1>1, <2>1, <2>2 DEF WorkerCancel, Report, Searchable, Active, Lifecycle!Abandon,
       Lifecycle!Move, Lifecycle!Running
<1>2. CASE UNCHANGED <<row, content, project, api, memory>>
  BY <1>2 DEF row, content, Lifecycle!lifecycleVars
<1> QED BY <1>1, <1>2 DEF CheckCancel

LEMMA WorkerRefines ==
    ASSUME IInv, NEW i \in Indexes, WorkerStep(i) \/ WorkerDies(i)
    PROVE  [Lifecycle!LifecycleNext]_(Lifecycle!lifecycleVars)
<1> USE DEF Lifecycle!LifecycleNext
<1>1. Alive(i) /\ status[i] \in Active /\ ~Searchable[i]
  <2>1. Alive(i)
    BY DEF WorkerStep, WorkerDies, LoadIndexMetadata, ReportExtracting, ConvertAndExtract,
       ReportChunking, Chunk, PersistChunks, EmbedCheck, EmbedReport, EmbedCall, EmbedFails,
       EmbedDone, StoreMismatch, StoreCheck, StoreCommit, MarkFailed, CheckCancel, Alive, LivePcs
  <2> QED
    BY <2>1, NothingSearchableBefore DEF Alive, IInv, TypeOK, WorkerInv, VerdictInv,
       NoWorkBehindAVerdict, LivePcs, Statuses, Active, Terminal
<1>2. CASE ReportExtracting(i) \/ ReportChunking(i) \/ EmbedReport(i)
  <2>1. Lifecycle!Work(i)
    BY <1>1, <1>2 DEF ReportExtracting, ReportChunking, EmbedReport, Report, content, Active,
       Lifecycle!Work, Lifecycle!Move, Lifecycle!Running
  <2> QED BY <2>1
<1>3. CASE LoadIndexMetadata(i) \/ EmbedCheck(i) \/ StoreCheck(i)
           \/ CheckCancel(i, "chunk", "persist")
  <2>1. Lifecycle!Abandon(i) \/ UNCHANGED Lifecycle!lifecycleVars
    BY <1>3, CheckCancelRefines DEF LoadIndexMetadata, EmbedCheck, StoreCheck, LivePcs
  <2> QED BY <2>1
<1>4. CASE PersistChunks(i)
  <2>1. Searchable' = Searchable /\ UNCHANGED <<status, cancelRequested>>
    BY <1>1, <1>4 DEF PersistChunks, Searchable, row, IInv, TypeOK, WorkerInv, LivePcs
  <2> QED BY <2>1 DEF Searchable, Lifecycle!lifecycleVars
<1>5. CASE StoreCommit(i)
  <2>1. Searchable' = [Searchable EXCEPT ![i] = TRUE]
    BY <1>5 DEF StoreCommit, Searchable, IInv, TypeOK, WorkerInv, Late
  <2>2. Lifecycle!Publish(i)
    BY <1>1, <1>5, <2>1 DEF StoreCommit, Report, Searchable, Active, Lifecycle!Publish,
       Lifecycle!Move, Lifecycle!Running
  <2> QED BY <2>2
<1>6. CASE MarkFailed(i)
  <2>1. Lifecycle!Fail(i)
    BY <1>1, <1>6 DEF MarkFailed, Report, Searchable, content, Active, Lifecycle!Fail,
       Lifecycle!Move, Lifecycle!Running
  <2> QED BY <2>1
<1>7. CASE UNCHANGED <<row, content>>
  BY <1>7 DEF row, content, Lifecycle!lifecycleVars
<1> QED
  BY <1>2, <1>3, <1>4, <1>5, <1>6, <1>7 DEF WorkerStep, WorkerDies, ConvertAndExtract, Chunk,
     EmbedCall, EmbedFails, EmbedDone, StoreMismatch

LEMMA LifecycleStep == IInv /\ [Next]_vars => [Lifecycle!LifecycleNext]_(Lifecycle!lifecycleVars)
<1> SUFFICES ASSUME IInv, [Next]_vars
             PROVE  [Lifecycle!LifecycleNext]_(Lifecycle!lifecycleVars)
  OBVIOUS
<1>1. CASE ApiRestart \/ \E p \in Projects : UnlinkDocument(p) \/ DeleteProjectRow(p)
  BY <1>1 DEF ApiRestart, UnlinkDocument, DeleteProjectRow, row, content, Lifecycle!lifecycleVars
<1>2. CASE UNCHANGED vars
  BY <1>2 DEF vars, row, content, Lifecycle!lifecycleVars
<1> QED BY <1>1, <1>2, StartRefines, CancelRefines, WorkerRefines DEF Next

(* Every behaviour of the indexing system is, seen through its rows, a     *)
(* behaviour of the index lifecycle.                                       *)
THEOREM IndexingImplementsLifecycle == Spec => ImplementsLifecycle
<1>1. Init => Lifecycle!LifecycleInit
  <2>1. ASSUME Init, NEW i \in Indexes
        PROVE  (chunks[i] > 0 /\ embeds[i] = chunks[i]) = FALSE
    BY <2>1 DEF Init
  <2>2. ASSUME Init
        PROVE  [i \in Indexes |-> chunks[i] > 0 /\ embeds[i] = chunks[i]]
                  = [i \in Indexes |-> FALSE]
    BY <2>1, <2>2, Zenon
  <2> QED BY <2>2 DEF Init, Lifecycle!LifecycleInit
<1> QED
  BY <1>1, LifecycleStep, Invariance, PTL
     DEF Spec, ImplementsLifecycle, Lifecycle!LifecycleSpec

-----------------------------------------------------------------------------
(* What a cancel and a deletion prevent: from their commit on, the worker  *)
(* cannot get to the step that publishes the index.                        *)

(* The worker of the flagged index i is past its last look or will be      *)
(* stopped by the next one.                                                *)
Stopped(i) ==
    cancelRequested[i] /\ wpc[i] \notin {"none", "storing"} /\ status[i] # "READY"

LEMMA StoppedStep ==
    ASSUME IInv, [Next]_vars, NEW i \in Indexes, Stopped(i)
    PROVE  Stopped(i)'
<1> USE DEF Stopped
<1>1. ASSUME NEW s \in Starters, StartStep(s) \/ \E p \in Projects : StartCheck(s, p)
      PROVE  Stopped(i)'
  <2> USE DEF row, Report, IInv, TypeOK, StartInv, Held
  <2>1. ASSUME NEW p \in Projects, StartCheck(s, p) PROVE Stopped(i)'
    BY <2>1 DEF StartCheck
  <2>2. CASE StartCreate(s)
    BY <2>2 DEF StartCreate, CreatePending, WorkerInv
  <2>3. CASE StartEnqueue(s)
    BY <2>3 DEF StartEnqueue
  <2>4. CASE StartEnqueueFails(s) \/ StartReportFailed(s) \/ StartReportRaises(s)
    BY <2>4 DEF StartEnqueueFails, StartReportFailed, StartReportRaises
  <2>5. CASE StartCommitFails(s)
    BY <2>5 DEF StartCommitFails, CreatePending, WorkerInv
  <2>. QED  BY <1>1, <2>1, <2>2, <2>3, <2>4, <2>5 DEF StartStep
<1>2. ASSUME NEW c \in Cancellers, CancelStep(c) \/ \E j \in Indexes : CancelRead(c, j)
      PROVE  Stopped(i)'
  BY <1>2 DEF CancelRead, CancelStep, CancelWrite, CancelRaises, Report, row, IInv, TypeOK, CancelCalls, Active
<1>3. ASSUME NEW j \in Indexes, j # i, WorkerStep(j) \/ WorkerDies(j) PROVE Stopped(i)'
  BY <1>3, WorkerIsLocal
<1>4. CASE WorkerStep(i) \/ WorkerDies(i)
  <2> USE DEF WorkerGoto, Report, row, IInv, TypeOK
  <2>1. ASSUME NEW here, NEW next, CheckCancel(i, here, next) PROVE Stopped(i)'
    BY <2>1 DEF CheckCancel, WorkerCancel
  <2>2. CASE LoadIndexMetadata(i) \/ Chunk(i) \/ EmbedCheck(i) \/ StoreCheck(i)
    BY <2>1, <2>2 DEF LoadIndexMetadata, Chunk, EmbedCheck, StoreCheck
  <2>3. CASE ~(LoadIndexMetadata(i) \/ Chunk(i) \/ EmbedCheck(i) \/ StoreCheck(i))
    BY <1>4, <2>3 DEF WorkerStep, WorkerDies, ReportExtracting, ConvertAndExtract,
       ReportChunking, PersistChunks, EmbedReport, EmbedCall, EmbedFails, EmbedDone,
       StoreMismatch, StoreCommit, MarkFailed
  <2>. QED  BY <2>2, <2>3
<1>5. CASE ApiRestart \/ \E p \in Projects : UnlinkDocument(p) \/ DeleteProjectRow(p)
  BY <1>5 DEF ApiRestart, UnlinkDocument, DeleteProjectRow, row
<1>6. CASE UNCHANGED vars
  BY <1>6 DEF vars, row
<1>. QED  BY <1>1, <1>2, <1>3, <1>4, <1>5, <1>6 DEF Next

(* A cancel committed before the worker's last look at the flag keeps the  *)
(* index from ever becoming READY (CancelPreventsReady).                   *)
THEOREM CancelledNeverReady == Spec => CancelPreventsReady
<1> SUFFICES ASSUME NEW i \in Indexes
             PROVE  Spec => [](cancelRequested[i] /\ wpc[i] \in LivePcs \ {"storing"}
                                 => [](status[i] # "READY"))
  BY DEF CancelPreventsReady
<1>1. IInv /\ cancelRequested[i] /\ wpc[i] \in LivePcs \ {"storing"} => Stopped(i)
  BY DEF Stopped, LivePcs, Alive, Terminal, IInv, VerdictInv, NoWorkBehindAVerdict
<1>2. IInv /\ Stopped(i) /\ [Next]_vars => Stopped(i)'
  BY StoppedStep
<1>3. Stopped(i) => status[i] # "READY"
  BY DEF Stopped
<1>. QED  BY <1>1, <1>2, <1>3, Invariance, PTL DEF Spec

(* A row belongs to a project from its creation on.                        *)
OwnerInv == \A i \in Indexes : status[i] = "NONE" => projectOf[i] = None

LEMMA OwnerStep == IInv /\ OwnerInv /\ [Next]_vars => OwnerInv'
<1> SUFFICES ASSUME IInv, OwnerInv, [Next]_vars PROVE OwnerInv'
  OBVIOUS
<1> USE DEF OwnerInv
<1>1. ASSUME NEW s \in Starters, StartStep(s) \/ \E p \in Projects : StartCheck(s, p)
      PROVE  OwnerInv'
  BY <1>1 DEF StartStep, StartCheck, StartCreate, CreatePending, StartCommitFails,
     StartEnqueue, StartEnqueueFails, StartReportFailed, StartReportRaises, Report, row, IInv,
     TypeOK
<1>2. ASSUME NEW c \in Cancellers, CancelStep(c) \/ \E j \in Indexes : CancelRead(c, j)
      PROVE  OwnerInv'
  BY <1>2 DEF CancelRead, CancelStep, CancelWrite, CancelRaises, Report, row, IInv, TypeOK, CancelCalls, Active
<1>3. ASSUME NEW j \in Indexes, WorkerStep(j) \/ WorkerDies(j) PROVE OwnerInv'
  <2>1. projectOf' = projectOf /\ \A i \in Indexes \ {j} : status'[i] = status[i]
    BY <1>3, WorkerIsLocal
  <2>2. status'[j] # "NONE"
    BY <1>3, WorkerIsLocal DEF WorkerStep, WorkerDies, LoadIndexMetadata, ReportExtracting,
       ConvertAndExtract, ReportChunking, Chunk, PersistChunks, EmbedCheck, EmbedReport,
       EmbedCall, EmbedFails, EmbedDone, StoreMismatch, StoreCheck, StoreCommit, MarkFailed,
       CheckCancel, WorkerCancel, Report, row, Active, IInv, TypeOK
  <2>. QED  BY <2>1, <2>2
<1>4. CASE ApiRestart \/ \E p \in Projects : UnlinkDocument(p) \/ DeleteProjectRow(p)
  BY <1>4 DEF ApiRestart, UnlinkDocument, DeleteProjectRow, row
<1>5. CASE UNCHANGED vars
  BY <1>5 DEF vars, row
<1>. QED  BY <1>1, <1>2, <1>3, <1>4, <1>5 DEF Next

(* The PDF of index i is gone and its worker, if there is one, has not     *)
(* read it: it can only stop, fail or die.                                 *)
Doomed(i) ==
    /\ projectOf[i] \in Projects /\ project[projectOf[i]] # "live"
    /\ wpc[i] \in {"none", "load", "extracting", "extract", "failing", "exit", "dead"}
    /\ status[i] # "READY"

LEMMA DoomedStep ==
    ASSUME IInv, OwnerInv, [Next]_vars, NEW i \in Indexes, Doomed(i)
    PROVE  Doomed(i)'
<1> USE IndexingAssumption DEF Doomed
<1>1. ASSUME NEW s \in Starters, StartStep(s) \/ \E p \in Projects : StartCheck(s, p)
      PROVE  Doomed(i)'
  <2> USE DEF row, Report, IInv, TypeOK
  <2>1. ASSUME NEW p \in Projects, StartCheck(s, p) PROVE Doomed(i)'
    BY <2>1 DEF StartCheck
  <2>2. CASE StartCreate(s)
    BY <2>2 DEF StartCreate, CreatePending, OwnerInv
  <2>3. CASE StartEnqueue(s)
    BY <2>3 DEF StartEnqueue
  <2>4. CASE StartEnqueueFails(s) \/ StartReportFailed(s) \/ StartReportRaises(s)
    BY <2>4 DEF StartEnqueueFails, StartReportFailed, StartReportRaises
  <2>5. CASE StartCommitFails(s)
    BY <2>5 DEF StartCommitFails, CreatePending, OwnerInv
  <2>. QED  BY <1>1, <2>1, <2>2, <2>3, <2>4, <2>5 DEF StartStep
<1>2. ASSUME NEW c \in Cancellers, CancelStep(c) \/ \E j \in Indexes : CancelRead(c, j)
      PROVE  Doomed(i)'
  BY <1>2 DEF CancelRead, CancelStep, CancelWrite, CancelRaises, Report, row, IInv, TypeOK, CancelCalls, Active
<1>3. ASSUME NEW j \in Indexes, WorkerStep(j) \/ WorkerDies(j) PROVE Doomed(i)'
  <2>1. UNCHANGED <<project, projectOf>>
    BY <1>3, WorkerIsLocal DEF WorkerStep, WorkerDies, LoadIndexMetadata, ReportExtracting,
       ConvertAndExtract, ReportChunking, Chunk, PersistChunks, EmbedCheck, EmbedReport,
       EmbedCall, EmbedFails, EmbedDone, StoreMismatch, StoreCheck, StoreCommit, MarkFailed,
       CheckCancel, WorkerCancel
  <2>2. CASE j # i
    BY <1>3, <2>1, <2>2, WorkerIsLocal
  <2>3. CASE j = i
    BY <1>3, <2>1, <2>3 DEF WorkerStep, WorkerDies, LoadIndexMetadata, ReportExtracting,
       ConvertAndExtract, ReportChunking, Chunk, PersistChunks, EmbedCheck, EmbedReport,
       EmbedCall, EmbedFails, EmbedDone, StoreMismatch, StoreCheck, StoreCommit, MarkFailed,
       CheckCancel, WorkerCancel, WorkerGoto, Report, row, Alive, LivePcs, IInv, TypeOK
  <2>. QED  BY <2>2, <2>3
<1>4. CASE ApiRestart \/ \E p \in Projects : UnlinkDocument(p) \/ DeleteProjectRow(p)
  BY <1>4 DEF ApiRestart, UnlinkDocument, DeleteProjectRow, row, IInv, TypeOK
<1>5. CASE UNCHANGED vars
  BY <1>5 DEF vars, row
<1>. QED  BY <1>1, <1>2, <1>3, <1>4, <1>5 DEF Next

(* The index of a project whose PDF was deleted before the worker had read *)
(* it never becomes READY (DeletedBeforeReadNeverReady).                   *)
THEOREM DeletedNeverReady == Spec => DeletedBeforeReadNeverReady
<1> SUFFICES ASSUME NEW i \in Indexes
             PROVE  Spec => [](/\ projectOf[i] \in Projects /\ project[projectOf[i]] # "live"
                               /\ wpc[i] \in {"none", "load", "extracting", "extract"}
                               => [](status[i] # "READY"))
  BY DEF DeletedBeforeReadNeverReady
<1> DEFINE Unread == /\ projectOf[i] \in Projects /\ project[projectOf[i]] # "live"
                     /\ wpc[i] \in {"none", "load", "extracting", "extract"}
<1>1. Init => OwnerInv
  BY DEF Init, OwnerInv
<1>2. IInv /\ OwnerInv /\ [Next]_vars => OwnerInv'
  BY OwnerStep
<1>3. IInv /\ Unread => Doomed(i)
  <2> SUFFICES ASSUME IInv, Unread PROVE Doomed(i)
    OBVIOUS
  <2>1. embeds[i] = 0
    BY DEF IInv, WorkerInv, LivePcs
  <2>2. status[i] = "READY" => chunks[i] > 0 /\ embeds[i] = chunks[i]
    BY DEF IInv, VerdictInv, ReadyIsComplete
  <2>3. chunks[i] \in Nat
    BY DEF IInv, TypeOK
  <2>. QED  BY <2>1, <2>2, <2>3 DEF Doomed
<1>4. IInv /\ OwnerInv /\ Doomed(i) /\ [Next]_vars => Doomed(i)'
  BY DoomedStep
<1>5. Doomed(i) => status[i] # "READY"
  BY DEF Doomed
<1>. QED  BY <1>1, <1>2, <1>3, <1>4, <1>5, Invariance, PTL DEF Spec

-----------------------------------------------------------------------------
(* The progress bar: what it shows never exceeds what the worker reports   *)
(* next, and that grows from step to step and from batch to batch.         *)

LEMMA Division ==
    ASSUME NEW a \in Nat, NEW b \in Nat, a <= b, NEW d \in Nat \ {0}
    PROVE  a \div d <= b \div d
<1> DEFINE x == a \div d
           y == b \div d
<1>1. x \in Nat /\ y \in Nat /\ x * d <= a /\ b < (y + 1) * d
  OBVIOUS
<1>2. x * d < (y + 1) * d
  BY <1>1
<1>3. ASSUME y + 1 <= x PROVE (y + 1) * d <= x * d
  BY <1>1, <1>3
<1> HIDE DEF x, y
<1>4. x <= y
  BY <1>1, <1>2, <1>3
<1>. QED  BY <1>4 DEF x, y

LEMMA EmbedProgressGrows ==
    ASSUME NEW total \in Nat \ {0}, NEW n \in 0..total, NEW m \in n..total
    PROVE  EmbedProgress(n, total) <= EmbedProgress(m, total)
<1>1. (n * 25) \div total <= (m * 25) \div total
  BY Division
<1>2. EmbedProgress(n, total) = 60 + (n * 25) \div total
  BY DEF EmbedProgress, StepProgress
<1>3. EmbedProgress(m, total) = 60 + (m * 25) \div total
  BY DEF EmbedProgress, StepProgress
<1>4. (n * 25) \div total \in Int /\ (m * 25) \div total \in Int
  OBVIOUS
<1>. QED  BY <1>1, <1>2, <1>3, <1>4

(* What a worker at pc, with n of total texts embedded, reports next if it *)
(* is neither stopped nor fails.                                           *)
NextReport(pc, n, total) ==
    CASE pc \in {"none", "load", "extracting"}    -> 5
      [] pc \in {"extract", "chunking"}           -> 20
      [] pc \in {"chunk", "persist"}              -> 60
      [] pc \in {"embed", "embedding", "call"}    -> EmbedProgress(n, total)
      [] OTHER                                    -> 100

Ceiling(i) == NextReport(wpc[i], done[i], drafts[i])

ProgressInv ==
    /\ \A i \in Indexes : progress[i] <= Ceiling(i)
    /\ \A c \in Cancellers :
          cancel[c].pc = "write" => cancel[c].progress <= Ceiling(cancel[c].index)

LEMMA NextReportRange ==
    ASSUME NEW pc, NEW total \in Nat, NEW n \in 0..total,
           pc \in {"embed", "embedding", "call"} => total > 0
    PROVE  NextReport(pc, n, total) \in 5..100
<1>1. CASE pc \in {"embed", "embedding", "call"}
  BY <1>1, EmbedProgressBounds DEF NextReport
<1>2. CASE pc \notin {"embed", "embedding", "call"}
  BY <1>2 DEF NextReport
<1>. QED  BY <1>1, <1>2

LEMMA CeilingRange ==
    ASSUME IInv, NEW i \in Indexes
    PROVE  Ceiling(i) \in 5..100
<1>1. /\ drafts[i] \in Nat /\ done[i] \in 0..drafts[i]
      /\ wpc[i] \in {"embed", "embedding", "call"} => drafts[i] > 0
  BY DEF IInv, TypeOK, WorkerInv, Late
<1>. QED  BY <1>1, NextReportRange DEF Ceiling

(* A worker's step raises its next report; the row gets the report that    *)
(* was due, or a progress of zero with a final status.                     *)
LEMMA WorkerProgress ==
    ASSUME IInv, NEW i \in Indexes, WorkerStep(i) \/ WorkerDies(i)
    PROVE  /\ Ceiling(i) <= Ceiling(i)' /\ Ceiling(i)' \in 5..100
           /\ \A j \in Indexes \ {i} : Ceiling(j)' = Ceiling(j) /\ progress'[j] = progress[j]
           /\ \/ progress'[i] \in {progress[i], Ceiling(i)}
              \/ progress'[i] = 0 /\ status'[i] \in Terminal
              \/ progress'[i] = 100 /\ status'[i] = "READY" /\ wpc'[i] = "exit"
           /\ UNCHANGED cancel
<1> USE DEF WorkerGoto
<1>1. UNCHANGED cancel
  BY DEF WorkerStep, WorkerDies, LoadIndexMetadata, ReportExtracting, ConvertAndExtract,
     ReportChunking, Chunk, PersistChunks, EmbedCheck, EmbedReport, EmbedCall, EmbedFails,
     EmbedDone, StoreMismatch, StoreCheck, StoreCommit, MarkFailed, CheckCancel, WorkerCancel, api
<1>2. \A j \in Indexes \ {i} :
        /\ wpc'[j] = wpc[j] /\ done'[j] = done[j] /\ drafts'[j] = drafts[j]
        /\ progress'[j] = progress[j]
  BY DEF WorkerStep, WorkerDies, LoadIndexMetadata, ReportExtracting, ConvertAndExtract,
     ReportChunking, Chunk, PersistChunks, EmbedCheck, EmbedReport, EmbedCall, EmbedFails,
     EmbedDone, StoreMismatch, StoreCheck, StoreCommit, MarkFailed, CheckCancel, WorkerCancel,
     Report, row, memory, IInv, TypeOK
<1>3. \A j \in Indexes \ {i} : Ceiling(j)' = Ceiling(j) /\ progress'[j] = progress[j]
  BY <1>2 DEF Ceiling
<1>4. Ceiling(i) \in 5..100 /\ Ceiling(i)' \in 5..100
  <2>1. IInv'
    BY WorkerInvariance
  <2>2. /\ drafts'[i] \in Nat /\ done'[i] \in 0..drafts'[i]
        /\ wpc'[i] \in {"embed", "embedding", "call"} => drafts'[i] > 0
    BY <2>1 DEF IInv, TypeOK, WorkerInv, Late
  <2>3. Ceiling(i)' \in 5..100
    BY <2>2, NextReportRange DEF Ceiling
  <2>. QED  BY <2>3, CeilingRange
<1>5. ASSUME NEW here, NEW next, CheckCancel(i, here, next),
             NextReport(here, done[i], drafts[i]) = NextReport(next, done[i], drafts[i])
      PROVE  /\ Ceiling(i) <= Ceiling(i)'
             /\ \/ progress'[i] = progress[i]
                \/ progress'[i] = 0 /\ status'[i] \in Terminal
  <2>1. CASE cancelRequested[i] /\ WorkerCancel(i)
    <3>1. Ceiling(i)' = 100
      BY <2>1 DEF WorkerCancel, Ceiling, NextReport, IInv, TypeOK
    <3>2. progress'[i] = 0 /\ status'[i] = "CANCELLED"
      BY <2>1 DEF WorkerCancel, Report, IInv, TypeOK
    <3>. QED  BY <1>4, <3>1, <3>2 DEF Terminal
  <2>2. CASE ~(cancelRequested[i] /\ WorkerCancel(i))
    <3>1. Ceiling(i)' = Ceiling(i) /\ progress'[i] = progress[i]
      BY <1>5, <2>2 DEF CheckCancel, Ceiling, NextReport, row, memory, IInv, TypeOK
    <3>. QED  BY <1>4, <3>1
  <2>. QED  BY <2>1, <2>2
<1>6. CASE LoadIndexMetadata(i) \/ EmbedCheck(i) \/ StoreCheck(i)
           \/ CheckCancel(i, "chunk", "persist")
  BY <1>1, <1>3, <1>4, <1>5, <1>6 DEF LoadIndexMetadata, EmbedCheck, StoreCheck, NextReport
<1>7. CASE ReportExtracting(i) \/ ReportChunking(i) \/ EmbedReport(i)
  <2>1. progress'[i] = Ceiling(i)
    BY <1>7 DEF ReportExtracting, ReportChunking, EmbedReport, Report, StepProgress, Ceiling,
       NextReport, IInv, TypeOK
  <2>2. Ceiling(i) <= Ceiling(i)'
    <3>1. CASE ReportExtracting(i) \/ ReportChunking(i)
      BY <3>1 DEF ReportExtracting, ReportChunking, Ceiling, NextReport, memory, IInv, TypeOK
    <3>2. CASE EmbedReport(i)
      <4>1. Ceiling(i)' = Ceiling(i)
        BY <3>2 DEF EmbedReport, Ceiling, NextReport, memory, IInv, TypeOK
      <4>. QED  BY <1>4, <4>1
    <3>. QED  BY <1>7, <3>1, <3>2
  <2>. QED  BY <1>1, <1>3, <1>4, <2>1, <2>2
<1>8. CASE WorkerDies(i) \/ EmbedFails(i) \/ StoreMismatch(i) \/ EmbedDone(i)
           \/ ConvertAndExtract(i) \/ (Chunk(i) /\ wpc'[i] = "failing")
  <2>1. progress' = progress
    BY <1>8 DEF WorkerDies, EmbedFails, StoreMismatch, EmbedDone, ConvertAndExtract, Chunk,
       CheckCancel, WorkerCancel, row, IInv, TypeOK
  <2>2. Ceiling(i)' \in {Ceiling(i), 100}
    BY <1>8 DEF WorkerDies, EmbedFails, StoreMismatch, EmbedDone, ConvertAndExtract, Chunk,
       CheckCancel, WorkerCancel, Ceiling, NextReport, memory, IInv, TypeOK
  <2>. QED  BY <1>1, <1>3, <1>4, <2>1, <2>2
<1>9. CASE PersistChunks(i)
  <2>1. progress' = progress /\ Ceiling(i) = 60
    BY <1>9 DEF PersistChunks, row, Ceiling, NextReport
  <2>2. PICK n \in Nat : drafts'[i] = n /\ wpc'[i] = IF n = 0 THEN "exit" ELSE "embed"
    BY <1>9 DEF PersistChunks, IInv, TypeOK
  <2>3. done'[i] = 0
    BY <1>9 DEF PersistChunks, WorkerInv, Early, IInv, TypeOK
  <2>4. 60 <= Ceiling(i)'
    BY <2>2, <2>3, EmbedProgressBounds DEF Ceiling, NextReport
  <2>. QED  BY <1>1, <1>3, <1>4, <2>1, <2>4
<1>10. CASE EmbedCall(i)
  <2>1. progress' = progress /\ drafts' = drafts /\ wpc[i] = "call" /\ wpc'[i] = "embed"
    BY <1>10 DEF EmbedCall, row, IInv, TypeOK
  <2>2. drafts[i] \in Nat \ {0} /\ done[i] \in 0..drafts[i] /\ done'[i] \in done[i]..drafts[i]
    BY <1>10, IndexingAssumption DEF EmbedCall, Batch, WorkerInv, Late, IInv, TypeOK
  <2>3. Ceiling(i) = EmbedProgress(done[i], drafts[i])
        /\ Ceiling(i)' = EmbedProgress(done'[i], drafts[i])
    BY <2>1 DEF Ceiling, NextReport
  <2>. QED  BY <1>1, <1>3, <1>4, <2>1, <2>2, <2>3, EmbedProgressGrows
<1>11. CASE StoreCommit(i)
  <2>1. progress'[i] = 100 /\ status'[i] = "READY" /\ wpc'[i] = "exit"
    BY <1>11 DEF StoreCommit, Report, IInv, TypeOK
  <2>2. Ceiling(i)' = 100
    BY <2>1 DEF Ceiling, NextReport
  <2>. QED  BY <1>1, <1>3, <1>4, <2>1, <2>2
<1>12. CASE MarkFailed(i)
  <2>1. progress'[i] = 0 /\ status'[i] = "FAILED" /\ wpc'[i] = "exit"
    BY <1>12 DEF MarkFailed, Report, IInv, TypeOK
  <2>2. Ceiling(i)' = 100
    BY <2>1 DEF Ceiling, NextReport
  <2>. QED  BY <1>1, <1>3, <1>4, <2>1, <2>2 DEF Terminal
<1>13. Chunk(i) => CheckCancel(i, "chunk", "persist") \/ (Chunk(i) /\ wpc'[i] = "failing")
  BY DEF Chunk, IInv, TypeOK
<1>. QED
  BY <1>6, <1>7, <1>8, <1>9, <1>10, <1>11, <1>12, <1>13 DEF WorkerStep
(* No other step moves a worker that lives, and of the calls only a create, *)
(* a failed enqueue and a cancel write a row.                              *)
LEMMA CallsKeepCeilings ==
    ASSUME IInv,
           \/ \E s \in Starters : StartStep(s) \/ \E p \in Projects : StartCheck(s, p)
           \/ \E c \in Cancellers : CancelStep(c) \/ \E j \in Indexes : CancelRead(c, j)
           \/ ApiRestart \/ \E p \in Projects : UnlinkDocument(p) \/ DeleteProjectRow(p)
           \/ UNCHANGED vars
    PROVE  \A i \in Indexes : Ceiling(i)' = Ceiling(i)
<1> SUFFICES ASSUME NEW i \in Indexes PROVE Ceiling(i)' = Ceiling(i)
  OBVIOUS
<1>1. done' = done /\ drafts' = drafts
  BY DEF StartStep, StartCheck, StartCreate, StartCommitFails, StartEnqueue, StartEnqueueFails,
     StartReportFailed, StartReportRaises, CancelStep, CancelWrite, CancelRaises, CancelRead, ApiRestart, UnlinkDocument, DeleteProjectRow, vars, memory
<1>2. wpc'[i] = wpc[i] \/ (wpc[i] = "none" /\ wpc'[i] = "load")
  <2>1. ASSUME NEW s \in Starters, StartEnqueue(s)
        PROVE  wpc'[i] = wpc[i] \/ (wpc[i] = "none" /\ wpc'[i] = "load")
    BY <2>1 DEF StartEnqueue, IInv, TypeOK, StartInv, Held
  <2>2. wpc' = wpc \/ \E s \in Starters : StartEnqueue(s)
    BY DEF StartStep, StartCheck, StartCreate, StartCommitFails, StartEnqueueFails,
       StartReportFailed, StartReportRaises, CancelStep, CancelWrite, CancelRaises, CancelRead, ApiRestart, UnlinkDocument, DeleteProjectRow, vars
  <2>. QED  BY <2>1, <2>2
<1>. QED  BY <1>1, <1>2 DEF Ceiling, NextReport

LEMMA ProgressStep == IInv /\ ProgressInv /\ [Next]_vars => ProgressInv'
<1> SUFFICES ASSUME IInv, ProgressInv, [Next]_vars PROVE ProgressInv'
  OBVIOUS
<1> USE DEF ProgressInv
<1>0. \A i \in Indexes : Ceiling(i) \in 5..100 /\ progress[i] \in 0..100
  BY CeilingRange DEF IInv, TypeOK
<1>00. \A c \in Cancellers :
         /\ cancel[c].progress \in 0..100
         /\ cancel[c].pc = "write" => cancel[c].index \in Indexes
  BY DEF IInv, TypeOK, CancelCalls
<1>1. ASSUME NEW s \in Starters, StartStep(s) \/ \E p \in Projects : StartCheck(s, p)
      PROVE  ProgressInv'
  <2>1. \A i \in Indexes : Ceiling(i)' = Ceiling(i)
    BY <1>1, CallsKeepCeilings
  <2>2. cancel' = cancel /\ \A i \in Indexes : progress'[i] \in {progress[i], 0}
    BY <1>1 DEF StartStep, StartCheck, StartCreate, CreatePending, StartCommitFails,
       StartEnqueue, StartEnqueueFails, StartReportFailed, StartReportRaises, Report, row, IInv,
       TypeOK
  <2>. QED  BY <1>0, <1>00, <2>1, <2>2
<1>2. ASSUME NEW c \in Cancellers, CancelStep(c) \/ \E j \in Indexes : CancelRead(c, j)
      PROVE  ProgressInv'
  <2>1. \A i \in Indexes : Ceiling(i)' = Ceiling(i)
    BY <1>2, CallsKeepCeilings
  <2>2. CASE CancelWrite(c)
    <3>1. \A i \in Indexes :
            progress'[i] = IF i = cancel[c].index THEN cancel[c].progress ELSE progress[i]
      BY <2>2, <1>00 DEF CancelWrite, Report, IInv, TypeOK
    <3>2. cancel[c].pc = "write" /\ cancel' = [cancel EXCEPT ![c] = IdleCancel]
      BY <2>2 DEF CancelWrite
    <3>3. \A d \in Cancellers : cancel'[d] = IF d = c THEN IdleCancel ELSE cancel[d]
      BY <3>2 DEF IInv, TypeOK
    <3>. QED  BY <1>0, <1>00, <2>1, <3>1, <3>2, <3>3 DEF IdleCancel
  <2>3. CASE \E j \in Indexes : CancelRead(c, j)
    <3>1. PICK j \in Indexes : CancelRead(c, j)
      BY <2>3
    <3>2. progress' = progress
      BY <3>1 DEF CancelRead, row
    <3>3. \A d \in Cancellers :
            cancel'[d] = IF d = c THEN [pc |-> "write", index |-> j, status |-> status[j],
                                        progress |-> progress[j]] ELSE cancel[d]
      BY <3>1 DEF CancelRead, IInv, TypeOK
    <3>. QED  BY <1>0, <1>00, <2>1, <3>2, <3>3
  <2>4. CASE CancelRaises(c)
    <3>1. progress' = progress
      BY <2>4 DEF CancelRaises, row
    <3>2. \A d \in Cancellers : cancel'[d] = IF d = c THEN IdleCancel ELSE cancel[d]
      BY <2>4 DEF CancelRaises, IInv, TypeOK
    <3>. QED  BY <1>0, <1>00, <2>1, <3>1, <3>2 DEF IdleCancel
  <2>. QED  BY <1>2, <2>2, <2>3, <2>4 DEF CancelStep
<1>3. ASSUME NEW i \in Indexes, WorkerStep(i) \/ WorkerDies(i) PROVE ProgressInv'
  <2>1. /\ Ceiling(i) <= Ceiling(i)'
        /\ \A j \in Indexes \ {i} : Ceiling(j)' = Ceiling(j) /\ progress'[j] = progress[j]
        /\ \/ progress'[i] \in {progress[i], Ceiling(i), 0}
           \/ progress'[i] = 100 /\ wpc'[i] = "exit"
        /\ cancel' = cancel
    BY <1>3, WorkerProgress
  <2>2. Ceiling(i)' \in 5..100
    BY <1>3, WorkerProgress
  <2>3. wpc'[i] = "exit" => Ceiling(i)' = 100
    BY DEF Ceiling, NextReport
  <2>4. ASSUME NEW j \in Indexes PROVE progress'[j] <= Ceiling(j)'
    <3>1. CASE j # i
      BY <1>0, <2>1, <3>1
    <3>2. CASE j = i
      <4> HIDE DEF ProgressInv
      <4>1. progress[i] \in Int /\ Ceiling(i) \in 5..100 /\ progress[i] <= Ceiling(i)
        BY <1>0 DEF ProgressInv
      <4>2. ASSUME progress'[i] \in {progress[i], Ceiling(i), 0}
            PROVE  progress'[i] <= Ceiling(i)'
        BY <2>1, <2>2, <4>1, <4>2
      <4>3. ASSUME progress'[i] = 100, Ceiling(i)' = 100
            PROVE  progress'[i] <= Ceiling(i)'
        BY <4>3
      <4>. QED  BY <2>1, <2>3, <3>2, <4>2, <4>3
    <3>. QED  BY <3>1, <3>2
  <2>5. \A j \in Indexes : Ceiling(j) <= Ceiling(j)' /\ Ceiling(j)' \in Int
    BY <1>0, <2>1, <2>2
  <2>. QED  BY <1>0, <1>00, <2>1, <2>4, <2>5
<1>4. CASE \/ ApiRestart \/ \E p \in Projects : UnlinkDocument(p) \/ DeleteProjectRow(p)
           \/ UNCHANGED vars
  <2>1. \A i \in Indexes : Ceiling(i)' = Ceiling(i)
    BY <1>4, CallsKeepCeilings
  <2>2. progress' = progress
    BY <1>4 DEF ApiRestart, UnlinkDocument, DeleteProjectRow, vars, row
  <2>3. cancel' = cancel \/ cancel' = [c \in Cancellers |-> IdleCancel]
    BY <1>4 DEF ApiRestart, UnlinkDocument, DeleteProjectRow, vars, api
  <2>. QED  BY <1>0, <1>00, <2>1, <2>2, <2>3 DEF IdleCancel
<1>. QED  BY <1>1, <1>2, <1>3, <1>4 DEF Next

LEMMA ProgressReportStep ==
    ASSUME IInv, ProgressInv, [Next]_vars, NEW i \in Indexes,
           status[i] = "RUNNING", status'[i] = "RUNNING", progress'[i] < progress[i]
    PROVE  \E c \in Cancellers : CancelWrite(c) /\ cancel[c].index = i
<1>0. Ceiling(i) \in 5..100 /\ progress[i] \in 0..100 /\ progress[i] <= Ceiling(i)
  BY CeilingRange DEF IInv, TypeOK, ProgressInv
<1>1. ASSUME NEW s \in Starters, StartStep(s) \/ \E p \in Projects : StartCheck(s, p)
      PROVE  progress'[i] = progress[i]
  BY <1>1 DEF StartStep, StartCheck, StartCreate, CreatePending, StartCommitFails,
     StartEnqueue, StartEnqueueFails, StartReportFailed, StartReportRaises, Report, row, IInv,
     TypeOK
<1>2. ASSUME NEW j \in Indexes, WorkerStep(j) \/ WorkerDies(j)
      PROVE  progress'[i] \in {progress[i], Ceiling(i)}
  BY <1>2, WorkerProgress DEF Terminal
<1>3. ASSUME NEW c \in Cancellers, CancelStep(c) \/ \E j \in Indexes : CancelRead(c, j),
             ~(CancelWrite(c) /\ cancel[c].index = i)
      PROVE  progress'[i] = progress[i]
  BY <1>3 DEF CancelRead, CancelStep, CancelWrite, CancelRaises, Report, row, IInv, TypeOK
<1>4. ASSUME \/ ApiRestart \/ \E p \in Projects : UnlinkDocument(p) \/ DeleteProjectRow(p)
             \/ UNCHANGED vars
      PROVE  progress'[i] = progress[i]
  BY <1>4 DEF ApiRestart, UnlinkDocument, DeleteProjectRow, vars, row
<1>. QED  BY <1>0, <1>1, <1>2, <1>3, <1>4 DEF Next

(* The progress of a running index goes back only when a cancel writes     *)
(* what it had read (ProgressGoesBackOnlyByCancel).                        *)
THEOREM ProgressIsMonotone == Spec => ProgressGoesBackOnlyByCancel
<1>1. Init => ProgressInv
  BY DEF Init, IdleCancel, ProgressInv, Ceiling, NextReport
<1>2. IInv /\ ProgressInv /\ [Next]_vars =>
        [\A i \in Indexes :
            status[i] = "RUNNING" /\ status'[i] = "RUNNING" /\ progress'[i] < progress[i]
                => \E c \in Cancellers : CancelWrite(c) /\ cancel[c].index = i]_vars
  BY ProgressReportStep
<1>. QED  BY <1>1, <1>2, ProgressStep, Invariance, PTL DEF Spec, ProgressGoesBackOnlyByCancel

=============================================================================
