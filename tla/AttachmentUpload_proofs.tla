----------------------- MODULE AttachmentUpload_proofs -----------------------
(***************************************************************************)
(* Proofs about AttachmentUpload, for any number of uploads: a row always  *)
(* has its file, files without a row are accounted for, and the uploads    *)
(* implement AttachmentPromise.  That uploads end is left to TLC.          *)
(***************************************************************************)
EXTENDS AttachmentUpload, TLAPS

\* The files and rows that go with each point of the thread: this is what makes
\* RowsHaveBlobs and OrphansExcused inductive.  A row belongs to an ended
\* upload, so that neither the removal of files nor a crash reaches its file.
FilesMatchStep ==
    \A u \in Upload :
        /\ u \in rows => pc[u] = "attached" /\ u \in blobs
        /\ pc[u] = "attached" => u \in rows /\ u \notin staging
        /\ pc[u] \in {"idle", "asked"} => u \notin staging /\ u \notin blobs
        /\ pc[u] \in {"staging", "staged", "valid", "locked", "discarding"} => u \notin blobs
        /\ pc[u] \in {"moved", "deleting"} => u \in blobs /\ u \notin staging
        /\ pc[u] = "refused" /\ (u \in staging \/ u \in blobs) => u \in excused
        /\ pc[u] = "idle" <=> seen[u] = 0

UploadInv == TypeOK /\ version # 0 /\ FilesMatchStep

USE DEF Step, Ended, InTransaction, files, database

LEMMA InitUpload == Init => UploadInv
  <1> SUFFICES ASSUME Init PROVE UploadInv
    OBVIOUS
  <1> USE DEF Init
  <1>1. writable \in BOOLEAN /\ otherWrites \in BOOLEAN
    BY Zenon
  <1>2. TypeOK /\ version # 0
    BY <1>1 DEF TypeOK
  <1>3. FilesMatchStep
    BY DEF FilesMatchStep
  <1> QED BY <1>2, <1>3 DEF UploadInv

LEMMA NextUpload == UploadInv /\ [Next]_vars => UploadInv'
  <1> SUFFICES ASSUME UploadInv, [Next]_vars PROVE UploadInv'
    OBVIOUS
  <1> USE DEF UploadInv, TypeOK, FilesMatchStep, Moves
  <1>1. ASSUME NEW u \in Upload, Ask(u) PROVE UploadInv'
    BY <1>1 DEF Ask
  <1>2. ASSUME NEW u \in Upload, StageStarts(u) PROVE UploadInv'
    BY <1>2 DEF StageStarts
  <1>3. ASSUME NEW u \in Upload, StageEnds(u) PROVE UploadInv'
    BY <1>3 DEF StageEnds
  <1>4. ASSUME NEW u \in Upload, Validate(u) PROVE UploadInv'
    BY <1>4 DEF Validate
  <1>5. ASSUME NEW u \in Upload, Lock(u) PROVE UploadInv'
    BY <1>5 DEF Lock
  <1>6. ASSUME NEW u \in Upload, LockTimesOut(u) PROVE UploadInv'
    BY <1>6 DEF LockTimesOut
  <1>7. ASSUME NEW u \in Upload, Reject(u) PROVE UploadInv'
    BY <1>7 DEF Reject
  <1>8. ASSUME NEW u \in Upload, Move(u) PROVE UploadInv'
    BY <1>8 DEF Move
  <1>9. ASSUME NEW u \in Upload, MoveFails(u) PROVE UploadInv'
    BY <1>9 DEF MoveFails
  <1>10. ASSUME NEW u \in Upload, Commit(u) PROVE UploadInv'
    BY <1>10 DEF Commit
  <1>11. ASSUME NEW u \in Upload, CommitFails(u) PROVE UploadInv'
    BY <1>11 DEF CommitFails
  <1>12. ASSUME NEW u \in Upload, RemoveFile(u) PROVE UploadInv'
    BY <1>12 DEF RemoveFile
  <1>13. ASSUME NEW u \in Upload, RemoveFails(u) PROVE UploadInv'
    BY <1>13 DEF RemoveFails
  <1>14. ASSUME OtherBegins PROVE UploadInv'
    <2>1. otherWrites' \in BOOLEAN
      BY <1>14, Zenon DEF OtherBegins
    <2> QED BY <1>14, <2>1 DEF OtherBegins
  <1>15. ASSUME OtherEnds PROVE UploadInv'
    <2>1. otherWrites' \in BOOLEAN /\ writable' \in BOOLEAN
      BY <1>15, Zenon DEF OtherEnds
    <2>2. version' \in Nat /\ version' # 0
      BY <1>15 DEF OtherEnds
    <2> QED BY <1>15, <2>1, <2>2 DEF OtherEnds
  <1>16. ASSUME Crash PROVE UploadInv'
    <2>1. otherWrites' \in BOOLEAN
      BY <1>16, Zenon DEF Crash
    <2>2. /\ pc' = [u \in Upload |->
                     IF pc[u] \in Ended \cup {"idle"} THEN pc[u] ELSE "refused"]
          /\ excused' = excused \cup {u \in Upload : pc[u] \notin Ended \cup {"idle"}}
          /\ UNCHANGED <<seen, files, rows, version, writable>>
      BY <1>16 DEF Crash
    <2>3. crashes' \in Nat
      BY <1>16 DEF Crash
    <2>4. TypeOK' /\ version' # 0
      BY <2>1, <2>2, <2>3
    <2>5. FilesMatchStep'
      BY <2>2
    <2> QED BY <2>4, <2>5
  <1>17. CASE UNCHANGED vars
    BY <1>17 DEF vars
  <1> QED
    BY <1>1, <1>2, <1>3, <1>4, <1>5, <1>6, <1>7, <1>8, <1>9, <1>10, <1>11,
       <1>12, <1>13, <1>14, <1>15, <1>16, <1>17 DEF Next, UploadStep

LEMMA UploadAlways == Spec => []UploadInv
  BY InitUpload, NextUpload, PTL DEF Spec

\* Every committed row has its file at the final key, for any number of uploads,
\* failures and crashes.
THEOREM RowsKeepBlobs == Spec => []RowsHaveBlobs
  <1>1. UploadInv => RowsHaveBlobs
    BY DEF UploadInv, TypeOK, FilesMatchStep, RowsHaveBlobs
  <1> QED BY <1>1, UploadAlways, PTL

\* A file without a row belongs to a running upload, a crash or a failed removal.
THEOREM OrphansAccounted == Spec => []OrphansExcused
  <1>1. UploadInv => OrphansExcused
    BY DEF UploadInv, TypeOK, FilesMatchStep, OrphansExcused
  <1> QED BY <1>1, UploadAlways, PTL

-----------------------------------------------------------------------------
(* One transaction at a time: what an upload checked under the lock still    *)
(* holds when it commits, because nobody else can write meanwhile.           *)

OneTransaction ==
    /\ \A u \in Upload : pc[u] \in InTransaction => ~otherWrites
    /\ \A u, v \in Upload : pc[u] \in InTransaction /\ pc[v] \in InTransaction => u = v

CheckedStaysValid == \A u \in Upload : pc[u] = "moved" => RequestValid(u)

LockInv == OneTransaction /\ CheckedStaysValid

LEMMA InitLock == Init => LockInv
  BY DEF Init, LockInv, OneTransaction, CheckedStaysValid

LEMMA NextLock == UploadInv /\ LockInv /\ [Next]_vars => LockInv'
  <1> SUFFICES ASSUME UploadInv, LockInv, [Next]_vars PROVE LockInv'
    OBVIOUS
  <1>0. pc \in [Upload -> Step]
    BY DEF UploadInv, TypeOK
  <1> USE <1>0 DEF LockInv, OneTransaction, CheckedStaysValid, RequestValid, Moves
  <1>1. ASSUME NEW u \in Upload, Ask(u) PROVE LockInv'
    BY <1>1 DEF Ask, UploadInv, TypeOK
  <1>2. ASSUME NEW u \in Upload, StageStarts(u) \/ StageEnds(u) \/ Validate(u)
        PROVE  LockInv'
    BY <1>2 DEF StageStarts, StageEnds, Validate
  <1>3. ASSUME NEW u \in Upload, Lock(u) PROVE LockInv'
    BY <1>3 DEF Lock, LockFree
  <1>4. ASSUME NEW u \in Upload,
               LockTimesOut(u) \/ Reject(u) \/ MoveFails(u) \/ CommitFails(u)
        PROVE  LockInv'
    BY <1>4 DEF LockTimesOut, Reject, MoveFails, CommitFails
  <1>5. ASSUME NEW u \in Upload, Move(u) PROVE LockInv'
    BY <1>5 DEF Move
  <1>6. ASSUME NEW u \in Upload, Commit(u) PROVE LockInv'
    <2>1. \A v \in Upload : pc'[v] \in InTransaction => FALSE
      BY <1>6 DEF Commit
    <2> QED BY <2>1
  <1>7. ASSUME NEW u \in Upload, RemoveFile(u) \/ RemoveFails(u) PROVE LockInv'
    BY <1>7 DEF RemoveFile, RemoveFails
  <1>8. ASSUME OtherBegins PROVE LockInv'
    BY <1>8 DEF OtherBegins, LockFree
  <1>9. ASSUME OtherEnds PROVE LockInv'
    <2>1. \A v \in Upload : pc'[v] \in InTransaction => FALSE
      BY <1>9 DEF OtherEnds
    <2> QED BY <2>1
  <1>10. ASSUME Crash PROVE LockInv'
    <2>1. \A v \in Upload : pc'[v] \in InTransaction => FALSE
      BY <1>10 DEF Crash
    <2> QED BY <2>1
  <1>11. CASE UNCHANGED vars
    BY <1>11 DEF vars
  <1> QED
    BY <1>1, <1>2, <1>3, <1>4, <1>5, <1>6, <1>7, <1>8, <1>9, <1>10, <1>11
    DEF Next, UploadStep

LEMMA LockAlways == Spec => []LockInv
  BY UploadAlways, InitLock, NextLock, PTL DEF Spec

-----------------------------------------------------------------------------
(* The refinement.  Each lemma maps one step of the upload to a step of      *)
(* AttachmentPromise; steps that only move the thread or files that no row   *)
(* names are stuttering steps of the promise.                                *)

LEMMA InitPromise == Init => Promise!Init
  BY DEF Init, Promise!Init, outcome

\* An upload that gives up is refused: its outcome is the only one to change.
LEMMA GivesUp ==
  ASSUME UploadInv, NEW u \in Upload,
         pc[u] \in Step \ (Ended \cup {"discarding", "deleting"}),
         \/ pc' = [pc EXCEPT ![u] = "discarding"]
         \/ pc' = [pc EXCEPT ![u] = "deleting"],
         UNCHANGED <<seen, files, database>>
  PROVE  Promise!Next
  <1> USE DEF UploadInv, TypeOK, FilesMatchStep
  <1>1. outcome[u] = "open"
    BY DEF outcome
  <1>2. outcome' = [v \in Upload |-> IF v \in {u} THEN "refused" ELSE outcome[v]]
    BY DEF outcome
  <1>3. Promise!Refuse({u})
    BY <1>1, <1>2 DEF Promise!Refuse
  <1> QED BY <1>3 DEF Promise!Next

LEMMA CommitAttaches ==
  ASSUME UploadInv, LockInv, NEW u \in Upload, Commit(u)
  PROVE  Promise!Attach(u)
  <1> USE DEF UploadInv, TypeOK, FilesMatchStep, Moves, Commit
  <1>1. writable /\ seen[u] = version
    BY DEF LockInv, CheckedStaysValid, RequestValid
  <1>2. outcome[u] = "open"
    BY DEF outcome
  <1>3. outcome' = [outcome EXCEPT ![u] = "attached"]
    BY DEF outcome
  <1>4. (rows \cap blobs)' = (rows \cap blobs) \cup {u}
    OBVIOUS
  <1>5. UNCHANGED <<writable, seen>> /\ version' = version + 1
    OBVIOUS
  <1> HIDE DEF UploadInv, TypeOK, FilesMatchStep, Commit
  <1> QED BY <1>1, <1>2, <1>3, <1>4, <1>5 DEF Promise!Attach

LEMMA CrashRefuses ==
  ASSUME UploadInv, Crash
  PROVE  Promise!Next
  <1> DEFINE S == {u \in Upload : pc[u] \notin Ended \cup {"idle", "discarding", "deleting"}}
  <1> USE DEF UploadInv, TypeOK, FilesMatchStep
  <1>1. \A u \in S : outcome[u] = "open"
    BY DEF outcome
  <1>2. outcome' = [u \in Upload |-> IF u \in S THEN "refused" ELSE outcome[u]]
    BY DEF outcome, Crash
  <1>3. UNCHANGED <<rows \cap blobs, version, writable, seen>>
    BY DEF Crash
  <1>4. S \in SUBSET Upload
    OBVIOUS
  <1>5. Promise!Refuse(S)
    BY <1>1, <1>2, <1>3 DEF Promise!Refuse
  <1> QED BY <1>4, <1>5 DEF Promise!Next

LEMMA StepPromise ==
  UploadInv /\ LockInv /\ [Next]_vars => [Promise!Next]_Promise!vars
  <1> SUFFICES ASSUME UploadInv, LockInv, [Next]_vars
               PROVE  [Promise!Next]_Promise!vars
    OBVIOUS
  <1>0. pc \in [Upload -> Step]
    BY DEF UploadInv, TypeOK
  <1> DEFINE Stutters == UNCHANGED <<rows \cap blobs, version, writable, seen, outcome>>
  <1>1. ASSUME NEW u \in Upload, Ask(u) PROVE Promise!Next
    <2> USE DEF UploadInv, TypeOK, FilesMatchStep, Moves
    <2>1. outcome' = outcome
      BY <1>1 DEF Ask, outcome
    <2> QED BY <1>1, <2>1 DEF Ask, Promise!Ask, Promise!Next
  <1>2. ASSUME NEW u \in Upload, StageStarts(u) \/ Lock(u) \/ Move(u) PROVE Stutters
    BY <1>0, <1>2 DEF StageStarts, Lock, Move, Moves, outcome, UploadInv, FilesMatchStep
  <1>3. ASSUME NEW u \in Upload, StageEnds(u) \/ Validate(u)
        PROVE  Promise!Next \/ Stutters
    <2>1. CASE pc' = [pc EXCEPT ![u] = "discarding"]
      BY <1>3, <2>1, GivesUp DEF StageEnds, Validate, Moves
    <2>2. CASE pc' # [pc EXCEPT ![u] = "discarding"]
      BY <1>0, <1>3, <2>2 DEF StageEnds, Validate, Moves, outcome
    <2> QED BY <2>1, <2>2
  <1>4. ASSUME NEW u \in Upload,
               LockTimesOut(u) \/ Reject(u) \/ MoveFails(u) \/ CommitFails(u)
        PROVE  Promise!Next
    BY <1>4, GivesUp DEF LockTimesOut, Reject, MoveFails, CommitFails, Moves
  <1>5. ASSUME NEW u \in Upload, Commit(u) PROVE Promise!Next
    BY <1>5, CommitAttaches DEF Promise!Next
  <1>6. ASSUME NEW u \in Upload, RemoveFile(u) \/ RemoveFails(u) PROVE Stutters
    BY <1>6 DEF RemoveFile, RemoveFails, Moves, outcome, UploadInv, TypeOK, FilesMatchStep
  <1>7. ASSUME OtherBegins PROVE Stutters
    BY <1>7 DEF OtherBegins, outcome
  <1>8. ASSUME OtherEnds PROVE Promise!Next
    <2>1. outcome' = outcome
      BY <1>8 DEF OtherEnds, outcome
    <2> QED BY <1>8, <2>1 DEF OtherEnds, Promise!OtherChange, Promise!Next
  <1>9. ASSUME Crash PROVE Promise!Next
    BY <1>9, CrashRefuses
  <1>10. CASE UNCHANGED vars
    BY <1>10 DEF vars, outcome, Promise!vars
  <1> QED
    BY <1>1, <1>2, <1>3, <1>4, <1>5, <1>6, <1>7, <1>8, <1>9, <1>10
    DEF Next, UploadStep, Promise!vars

\* Uploads implement the one-step attachment: a file is attached only at the
\* version its user saw, while the ticket can be written, and for good.
THEOREM UploadsKeepPromise == Spec => KeepsPromise
  BY UploadAlways, LockAlways, InitPromise, StepPromise, PTL
  DEF Spec, KeepsPromise, Promise!Spec
=============================================================================
