--------------------------- MODULE ProjectsProofs ---------------------------
(***************************************************************************)
(* Theorems about Projects: for any number of projects and delete calls,   *)
(* whatever fails.                                                         *)
(***************************************************************************)
EXTENDS Projects, TLAPS

(* How far a creation is bounds what it may have left behind.              *)
CreateInv ==
    \A p \in Projects :
        /\ create[p] = "idle" => file[p] = "none" /\ row[p] = "none"
        /\ create[p] = "add" => file[p] = "whole" /\ row[p] = "none"
        /\ row[p] # "none" => create[p] \in {"ok", "failed"} /\ file[p] # "partial"

(* A delete call works on a row that was there, and drops it only after    *)
(* the PDF.                                                                *)
DeleteInv ==
    \A d \in Deleters :
        /\ delete[d].pc # "idle" => row[delete[d].project] # "none"
        /\ delete[d].pc = "drop" => file[delete[d].project] \in {"none", "empty"}

IInv ==
    /\ TypeOK /\ CreateInv /\ DeleteInv
    /\ RowHasItsFile /\ DeletedLeavesNoFile /\ AcknowledgedDelete

LEMMA InitInv == Init => IInv
  BY ProjectsAssumption
     DEF Init, IInv, TypeOK, CreateInv, DeleteInv, RowHasItsFile, DeletedLeavesNoFile,
         AcknowledgedDelete

(* A step of a creation keeps the invariant: it touches a file only before *)
(* there is a row, so no delete call has got hold of the project.          *)
LEMMA CreateInvariance ==
  ASSUME IInv, NEW p \in Projects, CreateStep(p)
  PROVE  IInv'
<1> USE ProjectsAssumption DEF IInv, CreateGoto
<1>1. TypeOK'
  BY DEF TypeOK, CreateStep, SaveFile, SaveFileFails, AddRow, AddRowFails, CommitFails, storage
<1>2. CreateInv'
  BY DEF TypeOK, CreateInv, CreateStep, SaveFile, SaveFileFails, AddRow, AddRowFails,
         CommitFails, storage
<1>3. DeleteInv'
  BY DEF TypeOK, CreateInv, DeleteInv, CreateStep, SaveFile, SaveFileFails, AddRow,
         AddRowFails, CommitFails, storage
<1>4. RowHasItsFile'
  BY DEF TypeOK, CreateInv, RowHasItsFile, CreateStep, SaveFile, SaveFileFails, AddRow,
         AddRowFails, CommitFails, storage
<1>5. DeletedLeavesNoFile' /\ AcknowledgedDelete'
  BY DEF TypeOK, CreateInv, DeletedLeavesNoFile, AcknowledgedDelete, DeleteInv, CreateStep,
         SaveFile, SaveFileFails, AddRow, AddRowFails, CommitFails, storage
<1>. QED  BY <1>1, <1>2, <1>3, <1>4, <1>5

(* A step of a delete call keeps it: the PDF goes while the row is there.  *)
LEMMA DeleteInvariance ==
  ASSUME IInv, NEW d \in Deleters,
         DeleteStep(d) \/ \E p \in Projects : DeleteRead(d, p)
  PROVE  IInv'
<1> USE ProjectsAssumption DEF IInv, DeleteGoto
<1>1. TypeOK'
  BY DEF TypeOK, DeleteStep, DeleteRead, UnlinkFile, UnlinkFails, DropRow, DropRowFails, storage
<1>2. delete[d].pc \in {"unlink", "drop"} => delete[d].project \in Projects
  BY DEF TypeOK
<1>3. CreateInv'
  BY <1>2 DEF TypeOK, CreateInv, DeleteInv, DeleteStep, DeleteRead, UnlinkFile, UnlinkFails,
              DropRow, DropRowFails, storage
<1>4. DeleteInv'
  BY <1>2 DEF TypeOK, CreateInv, DeleteInv, DeleteStep, DeleteRead, UnlinkFile, UnlinkFails,
              DropRow, DropRowFails, storage
<1>5. RowHasItsFile'
  BY <1>2 DEF TypeOK, RowHasItsFile, DeleteStep, DeleteRead, UnlinkFile, UnlinkFails, DropRow,
              DropRowFails, storage
<1>6. DeletedLeavesNoFile' /\ AcknowledgedDelete'
  BY <1>2 DEF TypeOK, DeleteInv, DeletedLeavesNoFile, AcknowledgedDelete, DeleteStep,
              DeleteRead, UnlinkFile, UnlinkFails, DropRow, DropRowFails, storage
<1>. QED  BY <1>1, <1>3, <1>4, <1>5, <1>6

(* When the process dies, the delete calls under way are lost, not changed *)
(* otherwise.                                                              *)
LEMMA LostDeletes ==
  ASSUME TypeOK, DeletesLost
  PROVE  /\ delete' \in [Deleters -> [pc : {"idle", "unlink", "drop", "ok", "failed", "lost"},
                                      project : Projects \cup {None}]]
         /\ \A d \in Deleters : /\ delete'[d].project = delete[d].project
                                 /\ delete'[d].pc = Dead(delete[d].pc)
<1>1. \A d \in Deleters :
          delete[d] \in [pc : {"idle", "unlink", "drop", "ok", "failed", "lost"},
                        project : Projects \cup {None}]
  BY DEF TypeOK
<1>2. delete' = [d \in Deleters |-> [delete[d] EXCEPT !.pc = Dead(delete[d].pc)]]
  BY DEF DeletesLost
<1>. QED  BY <1>1, <1>2 DEF Dead

(* So does the death of the API process, inside a storage call or not.     *)
LEMMA CrashInvariance ==
  ASSUME IInv,
         \/ Crash
         \/ \E p \in Projects : CrashInSave(p)
         \/ \E d \in Deleters : CrashInUnlink(d)
  PROVE  IInv'
<1> DEFINE Lost ==
      /\ delete' \in [Deleters -> [pc : {"idle", "unlink", "drop", "ok", "failed", "lost"},
                                   project : Projects \cup {None}]]
      /\ \A d \in Deleters : /\ delete'[d].project = delete[d].project
                              /\ delete'[d].pc = Dead(delete[d].pc)
<1>1. Lost /\ row' = row
  BY LostDeletes DEF IInv, Crash, CrashInSave, CrashInUnlink, storage
<1>2. CASE Crash
  <2>1. file' = file /\ create' = [p \in Projects |-> Dead(create[p])]
    BY <1>2 DEF Crash, storage
  <2>2. TypeOK' /\ CreateInv'
    BY <1>1, <2>1 DEF IInv, TypeOK, CreateInv, Dead
  <2>3. DeleteInv' /\ RowHasItsFile' /\ DeletedLeavesNoFile' /\ AcknowledgedDelete'
    BY <1>1, <2>1 DEF IInv, TypeOK, DeleteInv, RowHasItsFile, DeletedLeavesNoFile,
                      AcknowledgedDelete, Dead
  <2>. QED  BY <2>2, <2>3 DEF IInv
<1>3. ASSUME NEW p \in Projects, CrashInSave(p) PROVE IInv'
  <2>1. /\ create[p] = "idle" /\ row[p] = "none"
        /\ create' = [q \in Projects |-> IF q = p THEN "lost" ELSE Dead(create[q])]
        /\ \E left \in {"empty", "partial"} : file' = [file EXCEPT ![p] = left]
    BY <1>3 DEF CrashInSave, IInv, CreateInv
  <2>2. TypeOK' /\ CreateInv'
    BY <1>1, <2>1 DEF IInv, TypeOK, CreateInv, Dead
  <2>3. DeleteInv'
    BY <1>1, <2>1, ProjectsAssumption DEF IInv, TypeOK, DeleteInv, Dead
  <2>4. RowHasItsFile' /\ DeletedLeavesNoFile' /\ AcknowledgedDelete'
    BY <1>1, <2>1 DEF IInv, TypeOK, RowHasItsFile, DeletedLeavesNoFile, AcknowledgedDelete, Dead
  <2>. QED  BY <2>2, <2>3, <2>4 DEF IInv
<1>4. ASSUME NEW d \in Deleters, CrashInUnlink(d) PROVE IInv'
  <2> DEFINE p == delete[d].project
  <2>1. /\ p \in Projects /\ delete[d].pc = "unlink"
        /\ file[p] = "whole" /\ file' = [file EXCEPT ![p] = "empty"]
        /\ create' = [q \in Projects |-> Dead(create[q])]
    BY <1>4 DEF CrashInUnlink, IInv, TypeOK
  <2>2. row[p] = "there" /\ create[p] \in {"ok", "failed"}
    BY <2>1 DEF IInv, TypeOK, CreateInv, DeleteInv, DeletedLeavesNoFile
  <2> HIDE DEF p
  <2>3. TypeOK' /\ CreateInv'
    BY <1>1, <2>1, <2>2 DEF IInv, TypeOK, CreateInv, Dead
  <2>4. DeleteInv'
    BY <1>1, <2>1 DEF IInv, TypeOK, DeleteInv, Dead
  <2>5. delete'[d].project = p /\ delete'[d].pc = "lost"
    BY <1>1, <2>1 DEF Dead, p
  <2>6. RowHasItsFile'
    BY <1>1, <2>1, <2>5 DEF IInv, TypeOK, RowHasItsFile, Dead
  <2>7. DeletedLeavesNoFile' /\ AcknowledgedDelete'
    BY <1>1, <2>1 DEF IInv, TypeOK, DeletedLeavesNoFile, AcknowledgedDelete, Dead
  <2>. QED  BY <2>3, <2>4, <2>6, <2>7 DEF IInv
<1>. QED  BY <1>2, <1>3, <1>4

LEMMA NextInv == IInv /\ [Next]_vars => IInv'
<1> SUFFICES ASSUME IInv, [Next]_vars PROVE IInv'
  OBVIOUS
<1>1. CASE \E p \in Projects : CreateStep(p)
  BY <1>1, CreateInvariance
<1>2. CASE \E d \in Deleters : DeleteStep(d) \/ \E p \in Projects : DeleteRead(d, p)
  BY <1>2, DeleteInvariance
<1>3. CASE Crash \/ (\E p \in Projects : CrashInSave(p)) \/ \E d \in Deleters : CrashInUnlink(d)
  BY <1>3, CrashInvariance
<1>4. CASE UNCHANGED vars
  BY <1>4 DEF IInv, TypeOK, CreateInv, DeleteInv, RowHasItsFile, DeletedLeavesNoFile,
              AcknowledgedDelete, vars
<1>. QED  BY <1>1, <1>2, <1>3, <1>4 DEF Next

(* The inductive invariant holds of every behaviour.                       *)
THEOREM Invariance == Spec => []IInv
  BY InitInv, NextInv, PTL DEF Spec

(* Files, rows and calls keep their types (TypeOK).                        *)
THEOREM TypeCorrect == Spec => []TypeOK
<1>1. IInv => TypeOK
  BY DEF IInv
<1>. QED  BY <1>1, Invariance, PTL

(* A project that can be listed has its whole PDF until a delete call has  *)
(* got past its read, for any interleaving of creations, deletions,        *)
(* failures and deaths of the process (RowHasItsFile).                     *)
THEOREM ListedProjectsHaveTheirFile == Spec => []RowHasItsFile
<1>1. IInv => RowHasItsFile
  BY DEF IInv
<1>. QED  BY <1>1, Invariance, PTL

(* A deleted project leaves no PDF behind, however many delete calls       *)
(* raced, failed or died on the way (DeletedLeavesNoFile).                 *)
THEOREM DeletionLeavesNoFile == Spec => []DeletedLeavesNoFile
<1>1. IInv => DeletedLeavesNoFile
  BY DEF IInv
<1>. QED  BY <1>1, Invariance, PTL

(* A delete call that answers 204 has deleted the project, whatever other  *)
(* calls and crashes did meanwhile (AcknowledgedDelete).                   *)
THEOREM AcknowledgedDeletionsHold == Spec => []AcknowledgedDelete
<1>1. IInv => AcknowledgedDelete
  BY DEF IInv
<1>. QED  BY <1>1, Invariance, PTL

-----------------------------------------------------------------------------
(* Files and rows implement the life the indexing worker counts on.        *)

(* A step that changes the life of one project, pointwise.                 *)
LEMMA OneLifeChanges ==
  ASSUME NEW p \in Projects, NEW from, NEW to,
         LifeOf[p] = from, LifeOf'[p] = to,
         \A q \in Projects \ {p} : LifeOf'[q] = LifeOf[q]
  PROVE  Life!Become(p, from, to)
  BY DEF LifeOf, Life!Become

LEMMA LifeStep == IInv /\ IInv' /\ [Next]_vars => [Life!LifeNext]_(Life!lifeVars)
<1> SUFFICES ASSUME IInv, IInv', [Next]_vars PROVE Life!LifeNext \/ UNCHANGED Life!lifeVars
  OBVIOUS
<1> USE DEF IInv, TypeOK, CreateInv, DeleteInv, DeletedLeavesNoFile, storage, Life!lifeVars, LifeOf
<1>1. ASSUME NEW p \in Projects, CreateStep(p) PROVE Life!LifeNext \/ UNCHANGED Life!lifeVars
  <2>1. CASE row' = row
    <3>1. row[p] = "none"
      BY <1>1 DEF CreateStep, SaveFile, SaveFileFails, AddRow, AddRowFails, CommitFails, CreateGoto
    <3>2. \A q \in Projects \ {p} : file'[q] = file[q]
      BY <1>1 DEF CreateStep, SaveFile, SaveFileFails, AddRow, AddRowFails, CommitFails
    <3>. QED  BY <2>1, <3>1, <3>2
  <2>2. CASE row' # row
    <3>1. AddRow(p) \/ CommitFails(p)
      BY <1>1, <2>2 DEF CreateStep, SaveFile, SaveFileFails, AddRowFails
    <3>2. /\ row[p] = "none" /\ file[p] = "whole" /\ file' = file
          /\ \E kept \in {"none", "there"} : row' = [row EXCEPT ![p] = kept]
      BY <3>1 DEF AddRow, CommitFails, CreateGoto
    <3>3. [row EXCEPT ![p] = "none"] = row
      BY <3>2
    <3>4. row' = [row EXCEPT ![p] = "there"]
      <4>1. PICK kept \in {"none", "there"} : row' = [row EXCEPT ![p] = kept]
        BY <3>2
      <4>2. kept # "none"
        BY <2>2, <3>3, <4>1
      <4>. QED  BY <4>1, <4>2
    <3>5. /\ LifeOf[p] = "unborn" /\ LifeOf'[p] = "live"
          /\ \A q \in Projects \ {p} : LifeOf'[q] = LifeOf[q]
      BY <3>2, <3>4 DEF LifeOf
    <3>. QED  BY <3>5, OneLifeChanges DEF Life!LifeNext
  <2>. QED  BY <2>1, <2>2
<1>2. ASSUME NEW d \in Deleters, DeleteStep(d) \/ \E p \in Projects : DeleteRead(d, p)
      PROVE  Life!LifeNext \/ UNCHANGED Life!lifeVars
  <2> DEFINE p == delete[d].project
  <2>1. CASE UNCHANGED storage
    BY <2>1
  <2>2. CASE file' # file
    <3>0. (UnlinkFile(d) \/ UnlinkFails(d)) /\ row' = row /\ delete[d].pc = "unlink"
      BY <1>2, <2>2
         DEF DeleteStep, DeleteRead, UnlinkFile, UnlinkFails, DropRow, DropRowFails, DeleteGoto
    <3>1. p \in Projects /\ row[p] # "none"
      BY <3>0 DEF DeleteInv
    <3> HIDE DEF p
    <3>2. \E left \in {"none", "empty", file[p]} : file' = [file EXCEPT ![p] = left]
      BY <2>2, <3>0, <3>1 DEF UnlinkFile, UnlinkFails, p
    <3>4. file[p] = "whole"
      <4>1. CASE UnlinkFails(d)
        BY <4>1 DEF UnlinkFails, p
      <4>2. CASE UnlinkFile(d) /\ file[p] # "whole"
        <5>1. file' = [file EXCEPT ![p] = file[p]]
          BY <4>2, <3>1 DEF UnlinkFile, p
        <5>. QED  BY <5>1, <2>2, <3>1
      <4>. QED  BY <3>0, <4>1, <4>2
    <3>5. \E left \in {"none", "empty"} : file' = [file EXCEPT ![p] = left]
      <4>1. [file EXCEPT ![p] = "whole"] = file
        BY <3>1, <3>4
      <4>2. PICK left \in {"none", "empty", file[p]} : file' = [file EXCEPT ![p] = left]
        BY <3>2
      <4>3. left # "whole"
        BY <2>2, <4>1, <4>2
      <4>. QED  BY <3>4, <4>2, <4>3
    <3>6. row[p] = "there"
      BY <3>1, <3>4
    <3>7. /\ LifeOf[p] = "live" /\ LifeOf'[p] = "unlinked"
          /\ \A q \in Projects \ {p} : LifeOf'[q] = LifeOf[q]
      BY <3>0, <3>1, <3>4, <3>5, <3>6 DEF LifeOf
    <3>. QED  BY <3>1, <3>7, OneLifeChanges DEF Life!LifeNext
  <2>3. CASE file' = file /\ row' # row
    <3>0. DropRow(d)
      BY <1>2, <2>3 DEF DeleteStep, DeleteRead, UnlinkFile, UnlinkFails, DropRowFails
    <3>1. p \in Projects /\ delete[d].pc = "drop" /\ row' = [row EXCEPT ![p] = "deleted"]
      BY <3>0 DEF DropRow, DeleteGoto
    <3> HIDE DEF p
    <3>2. row[p] # "deleted"
      BY <2>3, <3>1
    <3>4. row[p] = "there" /\ file[p] # "whole"
      BY <3>1, <3>2 DEF DeleteInv, p
    <3>5. /\ LifeOf[p] = "unlinked" /\ LifeOf'[p] = "gone"
          /\ \A q \in Projects \ {p} : LifeOf'[q] = LifeOf[q]
      BY <2>3, <3>1, <3>4 DEF LifeOf
    <3>. QED  BY <3>1, <3>5, OneLifeChanges DEF Life!LifeNext
  <2>. QED  BY <2>1, <2>2, <2>3
<1>3. CASE Crash
  BY <1>3 DEF Crash
<1>4. CASE \E p \in Projects : CrashInSave(p)
  BY <1>4 DEF CrashInSave
<1>5. CASE \E d \in Deleters : CrashInUnlink(d)
  <2>1. PICK d \in Deleters : CrashInUnlink(d)
    BY <1>5
  <2>2. /\ delete[d].project \in Projects /\ row' = row
        /\ row[delete[d].project] = "there" /\ file[delete[d].project] = "whole"
        /\ file' = [file EXCEPT ![delete[d].project] = "empty"]
    BY <2>1, ProjectsAssumption DEF CrashInUnlink
  <2>3. /\ LifeOf[delete[d].project] = "live" /\ LifeOf'[delete[d].project] = "unlinked"
        /\ \A q \in Projects \ {delete[d].project} : LifeOf'[q] = LifeOf[q]
    BY <2>2 DEF LifeOf
  <2>. QED  BY <2>2, <2>3, OneLifeChanges DEF Life!LifeNext
<1>6. CASE UNCHANGED vars
  BY <1>6 DEF vars
<1>. QED  BY <1>1, <1>2, <1>3, <1>4, <1>5, <1>6 DEF Next

(* Every behaviour is a project life: a PDF is unlinked before its row     *)
(* goes and never comes back (ImplementsLife).                             *)
THEOREM ProjectsImplementLife == Spec => ImplementsLife
<1>1. Init => Life!LifeInit
  BY DEF Init, Life!LifeInit, LifeOf
<1>. QED  BY <1>1, LifeStep, Invariance, PTL DEF Spec, ImplementsLife, Life!LifeSpec

=============================================================================
