------------------------------ MODULE Projects ------------------------------
(***************************************************************************)
(* Creation and deletion of projects: a PDF in the file storage and a row  *)
(* in PostgreSQL, which no common transaction protects.                    *)
(*                                                                         *)
(* The storage calls are synchronous code inside coroutines: they run to   *)
(* their end before another request of the API process continues, unless   *)
(* they raise or the process dies.  A statement of the database and the    *)
(* commit after it are one step, and either may fail.                      *)
(***************************************************************************)
EXTENDS Naturals, FiniteSets

CONSTANTS
    Projects,  \* project ids (uuid4), each made by one call of CreateProjectUseCase
    Deleters,  \* calls of DeleteProjectUseCase.execute
    Faults,    \* which failures the environment may produce
    None       \* no project

FaultKinds == {"save",    \* mkdir, open or write raises
               "insert",  \* project_repo.add raises
               "commit",  \* the commit of the insert raises, its outcome unknown
               "unlink",  \* unlink or rmdir raises
               "drop",    \* the DELETE or its commit raises
               "crash"}   \* the API process dies

ASSUME ProjectsAssumption == Faults \subseteq FaultKinds /\ None \notin Projects

VARIABLES
    file,    \* the PDF's directory: "none"; "empty"; with a "partial" or "whole" PDF
    row,     \* the projects row: "none", "there", "deleted"
    create,  \* the state of the call that creates the project
    delete   \* the state of each delete call and the project it is about

storage == <<file, row>>
vars    == <<file, row, create, delete>>

Init ==
    /\ file = [p \in Projects |-> "none"]
    /\ row = [p \in Projects |-> "none"]
    /\ create = [p \in Projects |-> "idle"]
    /\ delete = [d \in Deleters |-> [pc |-> "idle", project |-> None]]

CreateGoto(p, from, to) == create[p] = from /\ create' = [create EXCEPT ![p] = to]

DeleteGoto(d, from, to) ==
    delete[d].pc = from /\ delete' = [delete EXCEPT ![d].pc = to]

-----------------------------------------------------------------------------
(* CreateProjectUseCase.execute.                                           *)

SaveFile(p) ==
    /\ CreateGoto(p, "idle", "add")
    /\ file' = [file EXCEPT ![p] = "whole"]
    /\ UNCHANGED <<row, delete>>

(* save() makes the directory, opens the file, writes it: whatever was     *)
(* done stays there.                                                       *)
SaveFileFails(p) ==
    /\ "save" \in Faults
    /\ CreateGoto(p, "idle", "failed")
    /\ \E left \in {"none", "empty", "partial"} : file' = [file EXCEPT ![p] = left]
    /\ UNCHANGED <<row, delete>>

(* Variant: the row is inserted before the file is saved.                  *)
AddRowWithoutFile(p) ==
    /\ CreateGoto(p, "idle", "ok")
    /\ row' = [row EXCEPT ![p] = "there"]
    /\ UNCHANGED <<file, delete>>

AddRow(p) ==
    /\ CreateGoto(p, "add", "ok")
    /\ row' = [row EXCEPT ![p] = "there"]
    /\ UNCHANGED <<file, delete>>

(* The cleanup calls delete() with a positional argument, which it does    *)
(* not take: the TypeError is swallowed and the file stays.                *)
AddRowFails(p) ==
    /\ "insert" \in Faults
    /\ CreateGoto(p, "add", "failed")
    /\ UNCHANGED <<storage, delete>>

(* The commit is outside the try block; nothing is cleaned up.             *)
CommitFails(p) ==
    /\ "commit" \in Faults
    /\ CreateGoto(p, "add", "failed")
    /\ \E kept \in {"none", "there"} : row' = [row EXCEPT ![p] = kept]
    /\ UNCHANGED <<file, delete>>

-----------------------------------------------------------------------------
(* DeleteProjectUseCase.execute.  A call that finds no row ends there.     *)

(* Variant: a project that is not found is not refused.                    *)
DeleteReadUnchecked(d, p) ==
    /\ delete[d].pc = "idle"
    /\ delete' = [delete EXCEPT ![d] =
                    [pc |-> "unlink", project |-> IF row[p] = "there" THEN p ELSE None]]
    /\ UNCHANGED <<storage, create>>

DeleteRead(d, p) ==
    /\ delete[d].pc = "idle"
    /\ row[p] = "there"
    /\ delete' = [delete EXCEPT ![d] = [pc |-> "unlink", project |-> p]]
    /\ UNCHANGED <<storage, create>>

(* Variant: the row goes first.                                            *)
DropRowFirst(d) ==
    /\ DeleteGoto(d, "unlink", "drop")
    /\ row' = [row EXCEPT ![delete[d].project] = "deleted"]
    /\ UNCHANGED <<file, create>>

(* delete() does nothing, no rmdir either, when the PDF is not there.      *)
UnlinkFile(d) ==
    /\ DeleteGoto(d, "unlink", "drop")
    /\ file' = [file EXCEPT ![delete[d].project] = IF @ = "whole" THEN "none" ELSE @]
    /\ UNCHANGED <<row, create>>

(* unlink raises, or rmdir does after it.                                  *)
UnlinkFails(d) ==
    /\ "unlink" \in Faults
    /\ DeleteGoto(d, "unlink", "failed")
    /\ file[delete[d].project] = "whole"
    /\ \/ UNCHANGED file
       \/ file' = [file EXCEPT ![delete[d].project] = "empty"]
    /\ UNCHANGED <<row, create>>

(* A row that another call has deleted is no error.                        *)
DropRow(d) ==
    /\ DeleteGoto(d, "drop", "ok")
    /\ row' = [row EXCEPT ![delete[d].project] = "deleted"]
    /\ UNCHANGED <<file, create>>

(* Variant: an error of the database is swallowed.                         *)
DropErrorSwallowed(d) ==
    /\ "drop" \in Faults
    /\ DeleteGoto(d, "drop", "ok")
    /\ UNCHANGED <<storage, create>>

DropRowFails(d) ==
    /\ "drop" \in Faults
    /\ DeleteGoto(d, "drop", "failed")
    /\ UNCHANGED <<storage, create>>

-----------------------------------------------------------------------------
(* The API process dies: between two steps of the calls, or inside save()  *)
(* or delete().  An open transaction is rolled back.                       *)

Dead(pc) == IF pc \in {"add", "unlink", "drop"} THEN "lost" ELSE pc

DeletesLost == delete' = [d \in Deleters |-> [delete[d] EXCEPT !.pc = Dead(@)]]

Crash ==
    /\ "crash" \in Faults
    /\ create' = [p \in Projects |-> Dead(create[p])]
    /\ DeletesLost
    /\ UNCHANGED storage

CrashInSave(p) ==
    /\ "crash" \in Faults
    /\ create[p] = "idle"
    /\ \E left \in {"empty", "partial"} : file' = [file EXCEPT ![p] = left]
    /\ create' = [q \in Projects |-> IF q = p THEN "lost" ELSE Dead(create[q])]
    /\ DeletesLost
    /\ UNCHANGED row

CrashInUnlink(d) ==
    /\ "crash" \in Faults
    /\ delete[d].pc = "unlink"
    /\ file[delete[d].project] = "whole"
    /\ file' = [file EXCEPT ![delete[d].project] = "empty"]
    /\ create' = [p \in Projects |-> Dead(create[p])]
    /\ DeletesLost
    /\ UNCHANGED row

-----------------------------------------------------------------------------
CreateStep(p) ==
    SaveFile(p) \/ SaveFileFails(p) \/ AddRow(p) \/ AddRowFails(p) \/ CommitFails(p)

DeleteStep(d) == UnlinkFile(d) \/ UnlinkFails(d) \/ DropRow(d) \/ DropRowFails(d)

Next ==
    \/ \E p \in Projects : CreateStep(p) \/ CrashInSave(p)
    \/ \E d \in Deleters :
          DeleteStep(d) \/ CrashInUnlink(d) \/ \E p \in Projects : DeleteRead(d, p)
    \/ Crash

Spec == Init /\ [][Next]_vars

-----------------------------------------------------------------------------
(* Properties. *)

(* Every variable has its type; a delete call under way has its project.   *)
TypeOK ==
    /\ file \in [Projects -> {"none", "empty", "partial", "whole"}]
    /\ row \in [Projects -> {"none", "there", "deleted"}]
    /\ create \in [Projects -> {"idle", "add", "ok", "failed", "lost"}]
    /\ delete \in [Deleters ->
          [pc : {"idle", "unlink", "drop", "ok", "failed", "lost"},
           project : Projects \cup {None}]]
    /\ \A d \in Deleters : (delete[d].pc = "idle") <=> (delete[d].project = None)

(* A project that can be listed has its whole PDF, whatever failed or died *)
(* while it was created, until a delete call has got past its read.        *)
RowHasItsFile ==
    \A p \in Projects :
        row[p] = "there" /\ file[p] # "whole" =>
            \E d \in Deleters : delete[d].project = p /\ delete[d].pc # "unlink"

(* Once the row is gone no PDF is left that nobody could name any more,    *)
(* whichever of several delete calls got how far.                          *)
DeletedLeavesNoFile ==
    \A p \in Projects : row[p] = "deleted" => file[p] \in {"none", "empty"}

(* A delete call that answers 204 has deleted the project.                 *)
AcknowledgedDelete ==
    \A d \in Deleters : delete[d].pc = "ok" => row[delete[d].project] = "deleted"

(* A creation that failed in the database leaves no file: what the comment *)
(* at create_project.py 44 says of the handler.                            *)
FailedCreateIsCleanedUp ==
    \A p \in Projects : create[p] = "failed" /\ row[p] = "none" => file[p] = "none"

(* What the indexing worker is built to live with: a project's PDF is      *)
(* there, then unlinked, then the row is gone; never the row before the    *)
(* PDF, never a way back.                                                  *)
LifeOf ==
    [p \in Projects |->
        IF row[p] = "none" THEN "unborn"
        ELSE IF row[p] = "deleted" THEN "gone"
        ELSE IF file[p] = "whole" THEN "live" ELSE "unlinked"]

Life == INSTANCE ProjectLife WITH life <- LifeOf

ImplementsLife == Life!LifeSpec

=============================================================================
