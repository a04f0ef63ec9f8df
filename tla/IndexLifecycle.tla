--------------------------- MODULE IndexLifecycle ---------------------------
(***************************************************************************)
(* What an index promises to those who watch its row: the UI that polls    *)
(* the status, the start call that looks for an active run, and retrieval, *)
(* which searches an index as soon as it is READY.  No worker, no request  *)
(* and no process appears here.                                            *)
(***************************************************************************)
CONSTANT Indexes

VARIABLES
    phase,      \* what the row says
    flagged,    \* a cancel has been recorded
    searchable  \* every chunk has its embedding, and there is a chunk

lifecycleVars == <<phase, flagged, searchable>>

Running  == {"PENDING", "RUNNING"}
Verdicts == {"READY", "FAILED", "CANCELLED"}

LifecycleInit ==
    /\ phase = [i \in Indexes |-> "NONE"]
    /\ flagged = [i \in Indexes |-> FALSE]
    /\ searchable = [i \in Indexes |-> FALSE]

Move(i, from, to) ==
    /\ phase[i] \in from
    /\ phase' = [phase EXCEPT ![i] = to]

Create(i) == Move(i, {"NONE"}, "PENDING") /\ UNCHANGED <<flagged, searchable>>

Work(i) == Move(i, Running, "RUNNING") /\ UNCHANGED <<flagged, searchable>>

(* The index becomes READY and searchable in one step, once.               *)
Publish(i) ==
    /\ ~searchable[i]
    /\ Move(i, Running, "READY")
    /\ searchable' = [searchable EXCEPT ![i] = TRUE]
    /\ UNCHANGED flagged

Fail(i) == ~searchable[i] /\ Move(i, Running, "FAILED") /\ UNCHANGED <<flagged, searchable>>

Abandon(i) ==
    /\ flagged[i] /\ ~searchable[i]
    /\ Move(i, Running, "CANCELLED")
    /\ UNCHANGED <<flagged, searchable>>

(* Recording a cancel may put the row back to an earlier state of the run: *)
(* the call writes the status it has read.  It never destroys content.     *)
RecordCancel(i) ==
    /\ \E st \in Running : Move(i, Running \cup Verdicts, st)
    /\ flagged' = [flagged EXCEPT ![i] = TRUE]
    /\ UNCHANGED searchable

LifecycleNext ==
    \E i \in Indexes :
        Create(i) \/ Work(i) \/ Publish(i) \/ Fail(i) \/ Abandon(i) \/ RecordCancel(i)

LifecycleSpec == LifecycleInit /\ [][LifecycleNext]_lifecycleVars

=============================================================================
