-------------------------- MODULE Scheduler_proofs --------------------------
(***************************************************************************)
(* Proofs about Scheduler, for any jobs, definitions, processes and stops. *)
(* The lock alone keeps runs apart.  That a restart closes just the runs   *)
(* that cannot report rests on Quiet: until the manager has closed them,   *)
(* no process of a trigger is alive.                                       *)
(***************************************************************************)
EXTENDS Scheduler, TLAPS

USE SchedulerAssumption

-----------------------------------------------------------------------------
(* Types *)

LEMMA TypeInit == Init => TypeOK
  BY DEF Init, TypeOK, Serving, Finished, Alive, Holding

LEMMA TypeManager == TypeOK /\ ManagerStep => TypeOK'
  <1> SUFFICES ASSUME TypeOK, ManagerStep PROVE TypeOK'
    OBVIOUS
  <1> USE DEF TypeOK, Serving, Finished, Alive, Holding, processVars, managerVars
  <1>1. CASE StartContainer BY <1>1 DEF StartContainer
  <1>2. CASE Boot BY <1>2 DEF Boot, Interrupted
  <1>3. CASE Refused BY <1>3 DEF Refused, StopContainer
  <1>4. CASE Synchronize BY <1>4 DEF Synchronize, AfterSync
  <1>5. CASE Receive BY <1>5 DEF Receive
  <1>6. CASE \E t \in trigger : Ignore(t) BY <1>6 DEF Ignore
  <1>7. CASE \E t \in trigger : \E p \in Process : Launch(t, p)
    BY <1>7 DEF Launch, Starts
  <1> QED BY <1>1, <1>2, <1>3, <1>4, <1>5, <1>6, <1>7 DEF ManagerStep

LEMMA TypeProcess == TypeOK /\ (\E p \in Process : ProcessStep(p)) => TypeOK'
  <1> SUFFICES ASSUME TypeOK, NEW p \in Process, ProcessStep(p) PROVE TypeOK'
    OBVIOUS
  <1> USE DEF TypeOK, Serving, Finished, Alive, Holding, managerVars, Moves
  <1>1. CASE Lock(p) BY <1>1 DEF Lock
  <1>2. CASE CheckSchedule(p) BY <1>2 DEF CheckSchedule
  <1>3. CASE RecordStart(p) BY <1>3 DEF RecordStart
  <1>4. CASE HandlerEnds(p) BY <1>4 DEF HandlerEnds
  <1>5. CASE RecordCompletion(p) BY <1>5 DEF RecordCompletion
  <1>6. CASE Killed(p) BY <1>6 DEF Killed
  <1> QED BY <1>1, <1>2, <1>3, <1>4, <1>5, <1>6 DEF ProcessStep

LEMMA TypeNext == TypeOK /\ [Next]_vars => TypeOK'
  <1> SUFFICES ASSUME TypeOK, [Next]_vars PROVE TypeOK'
    OBVIOUS
  <1>1. CASE ManagerStep BY <1>1, TypeManager
  <1>2. CASE \E p \in Process : ProcessStep(p) BY <1>2, TypeProcess
  <1> USE DEF TypeOK, Serving, Finished, Alive, Holding, processVars, managerVars
  <1>3. CASE Stop BY <1>3 DEF Stop, StopContainer
  <1>4. CASE \E j \in Job : EditSchedule(j) BY <1>4 DEF EditSchedule
  <1>5. CASE \E j \in Job : CronFires(j)
    <2>1. PICK j \in Job : CronFires(j) BY <1>5
    <2>2. [job |-> j, token |-> crontab[j]] \in [job : Job, token : Definition]
      BY <2>1 DEF CronFires
    <2> QED BY <2>1, <2>2 DEF CronFires
  <1>6. CASE \E j \in Job : \E p \in Process : ManualRun(p, j)
    BY <1>6 DEF ManualRun, Starts
  <1>7. CASE TriggerLost BY <1>7 DEF TriggerLost
  <1>8. CASE UNCHANGED vars BY <1>8 DEF vars
  <1> QED BY <1>1, <1>2, <1>3, <1>4, <1>5, <1>6, <1>7, <1>8 DEF Next

\* The types of TypeOK hold in every state.
THEOREM SchedulerTypes == Spec => []TypeOK
  BY TypeInit, TypeNext, PTL DEF Spec

-----------------------------------------------------------------------------
(* Runs and locks *)

OneHolder ==
    \A p, q \in Process :
        pc[p] \in Holding /\ pc[q] \in Holding /\ job[p] = job[q] => p = q

LEMMA HolderNext == TypeOK /\ OneHolder /\ [Next]_vars => OneHolder'
  <1> SUFFICES ASSUME TypeOK, OneHolder, [Next]_vars PROVE OneHolder'
    OBVIOUS
  <1>1. CASE UNCHANGED <<pc, job>> BY <1>1 DEF OneHolder
  <1>2. CASE Stop \/ Refused
    BY <1>2 DEF Stop, Refused, StopContainer, OneHolder, Holding, TypeOK
  <1>3. ASSUME NEW p \in Process, NEW j \in Job, NEW tok, Starts(p, j, tok)
        PROVE  OneHolder'
    BY <1>3 DEF Starts, OneHolder, Holding, TypeOK
  <1>4. CASE ManagerStep
    BY <1>1, <1>2, <1>3, <1>4 DEF ManagerStep, StartContainer, Boot, Synchronize,
       Receive, Ignore, Launch, processVars, TypeOK
  <1>5. ASSUME NEW p \in Process, ProcessStep(p) PROVE OneHolder'
    <2>1. CASE Lock(p)
      BY <2>1 DEF Lock, Moves, OneHolder, Holding, TypeOK
    <2>2. CASE ~Lock(p)
      <3>1. job' = job /\ pc[p] \in Alive
        BY <1>5, <2>2 DEF ProcessStep, CheckSchedule, RecordStart, HandlerEnds,
           RecordCompletion, Killed, Moves, Alive, Holding
      <3>2. \A q \in Process : pc'[q] \in Holding => pc[q] \in Holding
        BY <1>5, <2>2 DEF ProcessStep, CheckSchedule, RecordStart, HandlerEnds,
           RecordCompletion, Killed, Moves, Alive, Holding, TypeOK
      <3> QED BY <3>1, <3>2 DEF OneHolder
    <2> QED BY <2>1, <2>2
  <1>6. CASE \E j \in Job : EditSchedule(j) \/ CronFires(j)
    BY <1>1, <1>6 DEF EditSchedule, CronFires, processVars
  <1>7. CASE \E j \in Job : \E p \in Process : ManualRun(p, j)
    BY <1>3, <1>7 DEF ManualRun
  <1>8. CASE TriggerLost \/ UNCHANGED vars
    BY <1>1, <1>8 DEF TriggerLost, vars, processVars
  <1> QED BY <1>2, <1>4, <1>5, <1>6, <1>7, <1>8 DEF Next

\* Runs of one job never overlap.
THEOREM RunsNeverOverlap == Spec => []NoOverlap
  <1>1. Init => OneHolder BY DEF Init, OneHolder, Holding
  <1>2. OneHolder => NoOverlap BY DEF OneHolder, NoOverlap, Holding
  <1> QED BY <1>1, <1>2, HolderNext, SchedulerTypes, PTL DEF Spec

-----------------------------------------------------------------------------
(* Late triggers *)

LEMMA LateNext == TypeOK /\ LateTriggersIgnored /\ [Next]_vars => LateTriggersIgnored'
  <1> SUFFICES ASSUME TypeOK, LateTriggersIgnored, [Next]_vars
               PROVE  LateTriggersIgnored'
    OBVIOUS
  <1>1. CASE UNCHANGED <<schedule, pc, job, token, edited>>
    BY <1>1 DEF LateTriggersIgnored
  <1>2. CASE Stop \/ Refused
    BY <1>2 DEF Stop, Refused, StopContainer, LateTriggersIgnored, TypeOK
  <1>3. ASSUME NEW p \in Process, NEW j \in Job, NEW tok, Starts(p, j, tok),
               UNCHANGED <<schedule, edited>>
        PROVE  LateTriggersIgnored'
    BY <1>3 DEF Starts, LateTriggersIgnored, TypeOK
  <1>4. CASE ManagerStep
    BY <1>1, <1>2, <1>3, <1>4 DEF ManagerStep, StartContainer, Boot, Synchronize,
       Receive, Ignore, Launch, processVars, TypeOK
  <1>5. ASSUME NEW p \in Process, ProcessStep(p) PROVE LateTriggersIgnored'
    <2> UNCHANGED <<schedule, job, token, edited>>
      BY <1>5 DEF ProcessStep, Lock, CheckSchedule, RecordStart, HandlerEnds,
         RecordCompletion, Killed
    <2>1. CASE CheckSchedule(p)
      BY <2>1 DEF CheckSchedule, Wanted, Moves, LateTriggersIgnored, TypeOK
    <2>2. CASE ~CheckSchedule(p)
      <3>1. \A q \in Process : pc'[q] \in {"wanted", "running"} =>
                                  pc[q] \in {"wanted", "running"}
        BY <1>5, <2>2 DEF ProcessStep, Lock, RecordStart, HandlerEnds,
           RecordCompletion, Killed, Moves, TypeOK
      <3> QED BY <3>1 DEF LateTriggersIgnored
    <2> QED BY <2>1, <2>2
  <1>6. CASE \E j \in Job : EditSchedule(j)
    BY <1>6 DEF EditSchedule, LateTriggersIgnored, Holding, processVars, TypeOK
  <1>7. CASE \E j \in Job : \E p \in Process : ManualRun(p, j)
    BY <1>3, <1>7 DEF ManualRun
  <1>8. CASE (\E j \in Job : CronFires(j)) \/ TriggerLost \/ UNCHANGED vars
    BY <1>1, <1>8 DEF CronFires, TriggerLost, vars, processVars
  <1> QED BY <1>2, <1>4, <1>5, <1>6, <1>7, <1>8 DEF Next

\* A trigger from a replaced or disabled schedule starts no run.
THEOREM LateTriggersStartNothing == Spec => []LateTriggersIgnored
  <1>1. Init => LateTriggersIgnored BY DEF Init, LateTriggersIgnored
  <1> QED BY <1>1, LateNext, SchedulerTypes, PTL DEF Spec

-----------------------------------------------------------------------------
(* Rows and restarts *)

\* Before the manager has closed the rows of the last life, no process that
\* a trigger started is alive.
Quiet ==
    manager \in {"down", "boot"} =>
        \A p \in Process : pc[p] \in Alive => token[p] = NoToken

RowOfProcess ==
    \A p \in Process :
        /\ pc[p] \in {"unused", "started", "locked", "wanted"} => row[p] = "none"
        /\ pc[p] \in {"running", "succeeded", "failed"} => row[p] = "RUNNING"

Closed ==
    manager \notin {"down", "boot"} =>
        \A p \in Process : pc[p] = "gone" /\ token[p] # NoToken => row[p] # "RUNNING"

RowInv == Quiet /\ RowOfProcess /\ Closed

LEMMA RowManager == TypeOK /\ RowInv /\ ManagerStep => RowInv'
  <1> SUFFICES ASSUME TypeOK, RowInv, ManagerStep PROVE RowInv'
    OBVIOUS
  <1> USE DEF RowInv, Quiet, RowOfProcess, Closed, Alive, Holding
  <1>1. CASE StartContainer
    BY <1>1 DEF StartContainer, processVars
  <1>2. CASE Boot
    BY <1>2 DEF Boot, Interrupted, TypeOK
  <1>3. CASE Refused
    BY <1>3 DEF Refused, StopContainer, TypeOK
  <1>4. CASE Synchronize
    BY <1>4 DEF Synchronize, AfterSync, processVars
  <1>5. CASE Receive
    BY <1>5 DEF Receive, processVars
  <1>6. CASE \E t \in trigger : Ignore(t)
    BY <1>6 DEF Ignore, processVars
  <1>7. CASE \E t \in trigger : \E p \in Process : Launch(t, p)
    BY <1>7 DEF Launch, Starts, TypeOK
  <1> QED BY <1>1, <1>2, <1>3, <1>4, <1>5, <1>6, <1>7 DEF ManagerStep

LEMMA RowProcess == TypeOK /\ RowInv /\ (\E p \in Process : ProcessStep(p)) => RowInv'
  <1> SUFFICES ASSUME TypeOK, RowInv, NEW p \in Process, ProcessStep(p) PROVE RowInv'
    OBVIOUS
  <1> USE DEF RowInv, Quiet, RowOfProcess, Closed, Alive, Holding, Moves, managerVars, TypeOK
  <1>1. CASE Lock(p) BY <1>1 DEF Lock
  <1>2. CASE CheckSchedule(p) BY <1>2 DEF CheckSchedule
  <1>3. CASE RecordStart(p) BY <1>3 DEF RecordStart
  <1>4. CASE HandlerEnds(p) BY <1>4 DEF HandlerEnds
  <1>5. CASE RecordCompletion(p) BY <1>5 DEF RecordCompletion
  <1>6. CASE Killed(p) BY <1>6 DEF Killed
  <1> QED BY <1>1, <1>2, <1>3, <1>4, <1>5, <1>6 DEF ProcessStep

LEMMA RowNext == TypeOK /\ RowInv /\ [Next]_vars => RowInv'
  <1> SUFFICES ASSUME TypeOK, RowInv, [Next]_vars PROVE RowInv'
    OBVIOUS
  <1>1. CASE ManagerStep BY <1>1, RowManager
  <1>2. CASE \E p \in Process : ProcessStep(p) BY <1>2, RowProcess
  <1> USE DEF RowInv, Quiet, RowOfProcess, Closed, Alive, Holding
  <1>3. CASE Stop BY <1>3 DEF Stop, StopContainer, TypeOK
  <1>4. CASE \E j \in Job : \E p \in Process : ManualRun(p, j)
    BY <1>4 DEF ManualRun, Starts, managerVars, TypeOK
  <1>5. CASE (\E j \in Job : EditSchedule(j) \/ CronFires(j))
               \/ TriggerLost \/ UNCHANGED vars
    <2> UNCHANGED <<manager, pc, token, row>>
      BY <1>5 DEF EditSchedule, CronFires, TriggerLost, vars, processVars, managerVars
    <2> QED OBVIOUS
  <1> QED BY <1>1, <1>2, <1>3, <1>4, <1>5 DEF Next

\* The strengthening RowInv of the two theorems below holds in every state.
THEOREM RowsFollowProcesses == Spec => []RowInv
  <1>1. Init => RowInv
    BY DEF Init, RowInv, Quiet, RowOfProcess, Closed, Alive, Holding
  <1> QED BY <1>1, RowNext, SchedulerTypes, PTL DEF Spec

\* When the scheduler serves, no row of an earlier life is left RUNNING.
THEOREM EarlierRunsAreClosed == Spec => []NoRunFromEarlierLife
  <1>1. RowInv => NoRunFromEarlierLife
    BY DEF RowInv, Closed, NoRunFromEarlierLife, Serving
  <1> QED BY <1>1, RowsFollowProcesses, PTL

KeepsResults == \A p \in Process : row[p] \in Finished => row'[p] = row[p]

LEMMA StepKeepsResults == TypeOK /\ RowInv /\ [Next]_vars => KeepsResults
  <1> SUFFICES ASSUME TypeOK, RowInv, [Next]_vars,
                      NEW q \in Process, row[q] \in Finished
               PROVE  row'[q] = row[q]
    BY DEF KeepsResults
  <1>1. CASE Boot BY <1>1 DEF Boot, Interrupted, Finished
  <1>2. ASSUME NEW p \in Process, RecordStart(p) PROVE row'[q] = row[q]
    BY <1>2 DEF RecordStart, Moves, RowInv, RowOfProcess, Finished, TypeOK
  <1>3. ASSUME NEW p \in Process, RecordCompletion(p) PROVE row'[q] = row[q]
    BY <1>3 DEF RecordCompletion, Moves, RowInv, RowOfProcess, Finished, TypeOK
  <1>4. CASE ~Boot /\ (\A p \in Process : ~RecordStart(p) /\ ~RecordCompletion(p))
    BY <1>4 DEF Next, ManagerStep, ProcessStep, StartContainer, Refused, Stop,
       StopContainer, Synchronize, Receive, Ignore, Launch, Starts, EditSchedule,
       CronFires, ManualRun, TriggerLost, Lock, CheckSchedule, HandlerEnds, Killed,
       processVars, vars
  <1> QED BY <1>1, <1>2, <1>3, <1>4

\* No step changes the result of a run that has one.
THEOREM ResultsAlwaysStay == Spec => ResultsStay
  <1>1. TypeOK /\ RowInv /\ [Next]_vars => [KeepsResults]_vars
    BY StepKeepsResults
  <1>2. [KeepsResults]_vars =>
           [\A p \in Process : row[p] \in Finished => row'[p] = row[p]]_vars
    BY DEF KeepsResults
  <1> QED BY <1>1, <1>2, SchedulerTypes, RowsFollowProcesses, PTL DEF Spec, ResultsStay
=============================================================================
