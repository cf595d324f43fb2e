----------------------------- MODULE Scheduler -----------------------------
(***************************************************************************)
(* app/scheduler.py and app/scheduler_trigger.py: the scheduler container  *)
(* with its manager (serve), the cron daemon and one process per run       *)
(* (run_job).  The manager is the container's main process: when it stops, *)
(* every process of the container is killed, and compose starts it again.  *)
(* The database and the lock files are outside; a process that ends, in    *)
(* whatever way, loses its flock.                                          *)
(*                                                                         *)
(* Job is JOB_HANDLERS, which is still empty at this commit.               *)
(***************************************************************************)
EXTENDS Naturals

CONSTANTS
    Job,            \* the registered job keys
    Definition,     \* cron expressions with their time zone
    Invalid,        \* the definitions that render_crontab refuses
    Process,        \* bound: processes of all lives of the container
    MaxStop         \* bound: stops of the container

Off == "off"        \* is_enabled is false, or no crontab line
NoToken == "none"   \* a manual run carries no schedule token

ASSUME SchedulerAssumption ==
    /\ Invalid \subseteq Definition
    /\ Off \notin Definition /\ NoToken \notin Definition
    /\ MaxStop \in Nat

VARIABLES
    schedule,   \* scheduled_jobs
    crontab,    \* the installed crontab
    manager,    \* where serve is
    trigger,    \* the message that the manager handles
    pending,    \* messages of cron that wait at the socket
    running,    \* running_jobs: the last process started for a trigger
    pc,         \* where each process is
    job, token, \* its arguments
    row,        \* status of its scheduled_job_runs row
    stops,
    edited      \* processes whose schedule was edited since they took the lock

vars == <<schedule, crontab, manager, trigger, pending, running,
          pc, job, token, row, stops, edited>>
managerVars == <<crontab, manager, trigger, pending, running>>
processVars == <<pc, job, token, row>>

Finished == {"SUCCEEDED", "FAILED", "interrupted"}
Holding == {"locked", "wanted", "running", "succeeded", "failed"}
Alive == Holding \cup {"started"}
Serving == {"sync", "receive", "handle"}

Init ==
    /\ schedule \in [Job -> Definition \cup {Off}]
    /\ crontab = [j \in Job |-> Off]
    /\ manager = "down" /\ trigger = {} /\ pending = {}
    /\ running = [j \in Job |-> {}]
    /\ pc = [p \in Process |-> "unused"]
    /\ job \in [Process -> Job] /\ token = [p \in Process |-> NoToken]
    /\ row = [p \in Process |-> "none"]
    /\ stops = 0 /\ edited = {}

-----------------------------------------------------------------------------
(* The container and its surroundings *)

\* There is no operation that edits schedules: rows are written by hand.
EditSchedule(j) ==
    /\ \E d \in Definition \cup {Off} :
          d # schedule[j] /\ schedule' = [schedule EXCEPT ![j] = d]
    /\ edited' = edited \cup {p \in Process : job[p] = j /\ pc[p] \in Holding}
    /\ UNCHANGED <<managerVars, processVars, stops>>

StartContainer ==
    /\ manager = "down" /\ manager' = "boot"
    /\ UNCHANGED <<schedule, crontab, trigger, pending, running, processVars,
                   stops, edited>>

\* SIGTERM, a crash, an end of the cron daemon or an exception in serve.
StopContainer ==
    /\ manager' = "down" /\ trigger' = {} /\ pending' = {}
    /\ running' = [j \in Job |-> {}]
    /\ pc' = [p \in Process |-> IF pc[p] = "unused" THEN "unused" ELSE "gone"]
    /\ UNCHANGED <<schedule, crontab, job, token, row, edited>>

Stop ==
    /\ manager # "down" /\ stops < MaxStop /\ stops' = stops + 1
    /\ StopContainer

CronFires(j) ==
    /\ manager \in Serving
    /\ crontab[j] # Off
    /\ pending' = pending \cup {[job |-> j, token |-> crontab[j]]}
    /\ UNCHANGED <<schedule, crontab, manager, trigger, running, processVars,
                   stops, edited>>

\* The client gives up after five seconds.
TriggerLost ==
    /\ \E t \in pending : pending' = pending \ {t}
    /\ UNCHANGED <<schedule, crontab, manager, trigger, running, processVars,
                   stops, edited>>

-----------------------------------------------------------------------------
(* serve *)

\* The mutated form skips the runs of the last life.
BootWithoutMark ==
    /\ manager = "boot" /\ manager' = "install"
    /\ UNCHANGED <<schedule, crontab, trigger, pending, running, processVars,
                   stops, edited>>

Interrupted ==
    [p \in Process |->
        IF row[p] = "RUNNING" /\ token[p] # NoToken THEN "interrupted" ELSE row[p]]

\* mark_interrupted_runs, before the socket and cron exist
Boot ==
    /\ manager = "boot" /\ manager' = "install"
    /\ row' = Interrupted
    /\ UNCHANGED <<schedule, crontab, trigger, pending, running, pc, job, token,
                   stops, edited>>

\* An invalid definition raises: no crontab is installed and serve ends.
Refused ==
    /\ manager \in {"install", "sync"}
    /\ \E j \in Job : schedule[j] \in Invalid
    /\ StopContainer
    /\ UNCHANGED stops

\* The first crontab is installed before cron runs and the loop begins.
AfterSync == IF manager = "install" THEN "sync" ELSE "receive"

\* The mutated form closes the running rows at every synchronisation.
SynchronizeAndMark ==
    /\ manager \in {"install", "sync"} /\ manager' = AfterSync
    /\ \A j \in Job : schedule[j] \notin Invalid
    /\ crontab' = schedule
    /\ row' = Interrupted
    /\ UNCHANGED <<schedule, trigger, pending, running, pc, job, token, stops, edited>>

\* The mutated form installs the crontab only once.
InstallOnce ==
    /\ manager \in {"install", "sync"} /\ manager' = AfterSync
    /\ \A j \in Job : schedule[j] \notin Invalid
    /\ crontab' = IF manager = "install" THEN schedule ELSE crontab
    /\ UNCHANGED <<schedule, trigger, pending, running, processVars, stops, edited>>

\* synchronize_crontab
Synchronize ==
    /\ manager \in {"install", "sync"} /\ manager' = AfterSync
    /\ \A j \in Job : schedule[j] \notin Invalid
    /\ crontab' = schedule
    /\ UNCHANGED <<schedule, trigger, pending, running, processVars, stops, edited>>

\* _receive_trigger: a message, or none before the timeout.
Receive ==
    /\ manager = "receive"
    /\ \/ manager' = "sync" /\ UNCHANGED <<trigger, pending>>
       \/ \E t \in pending :
             manager' = "handle" /\ trigger' = {t} /\ pending' = pending \ {t}
    /\ UNCHANGED <<schedule, crontab, running, processVars, stops, edited>>

InForce(t) == t.token = schedule[t.job]

Overlapped(j) == \E p \in running[j] : pc[p] \in Alive

Starts(p, j, tok) ==
    /\ pc[p] = "unused" /\ pc' = [pc EXCEPT ![p] = "started"]
    /\ job' = [job EXCEPT ![p] = j]
    /\ token' = [token EXCEPT ![p] = tok]
    /\ row' = row

\* The schedule is read just before Popen; an edit between the two is no
\* different from one after it, since the process reads the schedule again.
Launch(t, p) ==
    /\ manager = "handle" /\ t \in trigger
    /\ InForce(t) /\ ~Overlapped(t.job)
    /\ Starts(p, t.job, t.token)
    /\ running' = [running EXCEPT ![t.job] = {p}]
    /\ trigger' = {} /\ manager' = "sync"
    /\ UNCHANGED <<schedule, crontab, pending, stops, edited>>

\* Out of date, overlapping, or (bound) without a process left.
Ignore(t) ==
    /\ manager = "handle" /\ t \in trigger
    /\ ~InForce(t) \/ Overlapped(t.job) \/ \A p \in Process : pc[p] # "unused"
    /\ trigger' = {} /\ manager' = "sync"
    /\ UNCHANGED <<schedule, crontab, pending, running, processVars, stops, edited>>

-----------------------------------------------------------------------------
(* run_job *)

\* An operator starts run-job inside the container.
ManualRun(p, j) ==
    /\ manager # "down"
    /\ Starts(p, j, NoToken)
    /\ UNCHANGED <<schedule, managerVars, stops, edited>>

Moves(p, from, to) == pc[p] = from /\ pc' = [pc EXCEPT ![p] = to]

\* The mutated form goes on without the lock.
LockShared(p) ==
    /\ Moves(p, "started", "locked")
    /\ UNCHANGED <<schedule, managerVars, job, token, row, stops, edited>>

\* flock(LOCK_EX | LOCK_NB)
Lock(p) ==
    /\ IF \E q \in Process : pc[q] \in Holding /\ job[q] = job[p]
       THEN Moves(p, "started", "ended")
       ELSE Moves(p, "started", "locked")
    /\ UNCHANGED <<schedule, managerVars, job, token, row, stops, edited>>

\* The mutated form trusts the manager's check.
EnabledOnly(p) == schedule[job[p]] # Off

Wanted(p) ==
    /\ schedule[job[p]] # Off
    /\ token[p] \in {NoToken, schedule[job[p]]}

CheckSchedule(p) ==
    /\ IF Wanted(p) THEN Moves(p, "locked", "wanted") ELSE Moves(p, "locked", "ended")
    /\ UNCHANGED <<schedule, managerVars, job, token, row, stops, edited>>

\* _record_run_start; a failing insert ends the process.
RecordStart(p) ==
    /\ \/ Moves(p, "wanted", "running") /\ row' = [row EXCEPT ![p] = "RUNNING"]
       \/ Moves(p, "wanted", "ended") /\ row' = row
    /\ UNCHANGED <<schedule, managerVars, job, token, stops, edited>>

HandlerEnds(p) ==
    /\ Moves(p, "running", "succeeded") \/ Moves(p, "running", "failed")
    /\ UNCHANGED <<schedule, managerVars, job, token, row, stops, edited>>

\* _record_run_completion; when it fails, the row stays RUNNING.
RecordCompletion(p) ==
    /\ \/ Moves(p, "succeeded", "ended") /\ row' = [row EXCEPT ![p] = "SUCCEEDED"]
       \/ Moves(p, "failed", "ended") /\ row' = [row EXCEPT ![p] = "FAILED"]
       \/ (Moves(p, "succeeded", "ended") \/ Moves(p, "failed", "ended")) /\ row' = row
    /\ UNCHANGED <<schedule, managerVars, job, token, stops, edited>>

\* A single process is killed, for instance for want of memory.
Killed(p) ==
    /\ pc[p] \in Alive /\ pc' = [pc EXCEPT ![p] = "ended"]
    /\ UNCHANGED <<schedule, managerVars, job, token, row, stops, edited>>

-----------------------------------------------------------------------------
ManagerStep ==
    \/ StartContainer \/ Boot \/ Refused \/ Synchronize \/ Receive
    \/ \E t \in trigger : Ignore(t) \/ \E p \in Process : Launch(t, p)

ProcessStep(p) ==
    \/ Lock(p) \/ CheckSchedule(p) \/ RecordStart(p)
    \/ HandlerEnds(p) \/ RecordCompletion(p) \/ Killed(p)

Next ==
    \/ ManagerStep \/ Stop
    \/ \E j \in Job : EditSchedule(j) \/ CronFires(j) \/ \E p \in Process : ManualRun(p, j)
    \/ TriggerLost
    \/ \E p \in Process : ProcessStep(p)

\* compose restarts the container, and the manager waits for nobody: reading
\* the socket times out and processes are polled.  Nothing is assumed of jobs.
Spec == Init /\ [][Next]_vars /\ WF_vars(ManagerStep)

-----------------------------------------------------------------------------
(* Properties *)

TypeOK ==
    /\ schedule \in [Job -> Definition \cup {Off}]
    /\ crontab \in [Job -> Definition \cup {Off}]
    /\ manager \in Serving \cup {"down", "boot", "install"}
    /\ trigger \subseteq [job: Job, token: Definition]
    /\ pending \subseteq [job: Job, token: Definition]
    /\ running \in [Job -> SUBSET Process]
    /\ pc \in [Process -> Alive \cup {"unused", "ended", "gone"}]
    /\ job \in [Process -> Job]
    /\ token \in [Process -> Definition \cup {NoToken}]
    /\ row \in [Process -> Finished \cup {"none", "RUNNING"}]
    /\ stops \in Nat
    /\ edited \subseteq Process

\* Runs of one job never overlap, from cron or by hand, whatever was killed.
NoOverlap ==
    \A p, q \in Process :
        pc[p] = "running" /\ pc[q] = "running" /\ job[p] = job[q] => p = q

\* A trigger that waited while its schedule was replaced or switched off starts no
\* run: the schedule of a run is that of its trigger when it takes the lock.
LateTriggersIgnored ==
    \A p \in Process :
        pc[p] \in {"wanted", "running"} /\ p \notin edited =>
            schedule[job[p]] # Off /\ token[p] \in {NoToken, schedule[job[p]]}

\* A run that ended, or was closed as interrupted, keeps its result: a restart
\* closes no run that is still to report.
ResultsStay ==
    [][\A p \in Process : row[p] \in Finished => row'[p] = row[p]]_vars

\* Once the scheduler serves again, no run that cron started in an earlier life of
\* the container is shown as RUNNING (docs/scheduler.md:18).
NoRunFromEarlierLife ==
    manager \in Serving =>
        \A p \in Process :
            pc[p] = "gone" /\ token[p] # NoToken => row[p] # "RUNNING"

\* When the schedules stay and are valid, they are in the crontab for good, also
\* after crashes and while jobs hang.
CrontabFollows ==
    \A s \in [Job -> (Definition \ Invalid) \cup {Off}] :
        <>[](schedule = s) => <>[](crontab = s)
=============================================================================
