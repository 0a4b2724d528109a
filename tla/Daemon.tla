------------------------------- MODULE Daemon -------------------------------
(***************************************************************************)
(* Jobs of one repository between the processes that may drive them:       *)
(* lazycode/cli/daemon.py (the HTTP handlers, the queue, the worker        *)
(* thread, the startup scan and the sleep inhibitor) and the in-process    *)
(* "lazycode run" and "lazycode resume" of lazycode/cli/app.py.  Both go   *)
(* through create_job and run_job; the wave loop of run_job is the phase   *)
(* "run" here (module WaveLoop), and a lease is live or it is not (module  *)
(* JobLease).  There is at most one daemon and one CLI process at a time.  *)
(***************************************************************************)
EXTENDS Naturals, Sequences

CONSTANTS
  Job,
  NoJob,
  KeepAwake,    \* jobs submitted with keep_awake
  Always,       \* config.keep_awake is True; else it is "ask"
  WithCli,      \* CLI processes run jobs while no daemon is up
  FastRestart,  \* a daemon may start before a dead process's lease ran out
  MaxResumes,   \* bound: resumes asked for by the user
  MaxCrashes,   \* bound: kill -9 of the daemon or of the CLI
  MaxStops      \* bound: clean stops of the daemon

ASSUME DaemonAssumption ==
  /\ NoJob \notin Job
  /\ KeepAwake \subseteq Job
  /\ Always \in BOOLEAN
  /\ WithCli \in BOOLEAN
  /\ FastRestart \in BOOLEAN
  /\ MaxResumes \in Nat
  /\ MaxCrashes \in Nat
  /\ MaxStops \in Nat

VARIABLES
  log,       \* how far create_job got in the event log, per job
  row,       \* the jobs table: no row, a row that is not DONE, a DONE row
  group,     \* the job that owns the task_groups row "g0"
  lease,     \* who holds each job's unexpired lease; "ghost" is a dead process
  daemon,    \* where run_daemon stands
  scan,      \* resume_unfinished_jobs: selected rows not yet looked at
  queue,     \* Daemon._queue
  req,       \* the request the worker is on
  at,        \* where the daemon's worker and the CLI stand with their job, and
             \* the daemon's main thread with Inhibitor.stop
  job,       \* the job each of them is on
  inhibitors,\* the inhibitor processes the daemons spawned that still run
  proc,      \* Inhibitor._proc, 0 for None
  pidfile,   \* inhibitor.pid, 0 when there is none
  spawned,   \* inhibitors spawned so far
  mine,      \* the local "proc" or "pid" of each thread inside Inhibitor
  resumes, crashes, stops

store == <<log, row, group, lease>>
awake == <<inhibitors, proc, pidfile, spawned, mine>>
bounds == <<resumes, crashes, stops>>
vars == <<store, daemon, scan, queue, req, at, job, awake, bounds>>

Driver == {"worker", "cli"}

\* The daemon's threads that call Inhibitor.
Thread == {"worker", "main"}

\* A JobRequest.  Only the one that submits the job carries its keep_awake.
Request == [job : Job \cup {NoJob}, resume : BOOLEAN, awake : BOOLEAN]
NoRequest == [job |-> NoJob, resume |-> FALSE, awake |-> FALSE]
ResumeRequest(j) == [job |-> j, resume |-> TRUE, awake |-> FALSE]

Init ==
  /\ log = [j \in Job |-> "none"]
  /\ row = [j \in Job |-> "none"]
  /\ group = NoJob
  /\ lease = [j \in Job |-> "free"]
  /\ daemon = "down"
  /\ scan = {}
  /\ queue = <<>>
  /\ req = NoRequest
  /\ at = [d \in Driver \cup Thread |-> "idle"]
  /\ job = [d \in Driver |-> NoJob]
  /\ inhibitors = {}
  /\ proc = 0
  /\ pidfile = 0
  /\ spawned = 0
  /\ mine = [t \in Thread |-> 0]
  /\ resumes = 0
  /\ crashes = 0
  /\ stops = 0

\* Driver d, at phase f, goes on to phase g.
Go(d, f, g) == at[d] = f /\ at' = [at EXCEPT ![d] = g]

-----------------------------------------------------------------------------
(* create_job and run_job, in the worker thread or in the CLI.             *)

LogCreated(d) ==
  /\ Go(d, "create", "group")
  /\ log' = [log EXCEPT ![job[d]] = "created"]
  /\ UNCHANGED <<row, group, lease, daemon, scan, queue, req, job, awake, bounds>>

\* INSERT OR REPLACE of the row whose primary key is "g0", for every job.
MakeGroup(d) ==
  /\ Go(d, "group", "plan")
  /\ group' = job[d]
  /\ UNCHANGED <<log, row, lease, daemon, scan, queue, req, job, awake, bounds>>

ApprovePlan(d) ==
  /\ Go(d, "plan", "acquire")
  /\ log' = [log EXCEPT ![job[d]] = "approved"]
  /\ UNCHANGED <<row, group, lease, daemon, scan, queue, req, job, awake, bounds>>

\* Mutant: an exception of the job ends the worker thread.
Leave_Dead(d) ==
  /\ at' = [at EXCEPT ![d] = IF d = "cli" THEN "idle"
                             ELSE IF @ = "run" THEN "check" ELSE "dead"]
  /\ job' = [job EXCEPT ![d] = NoJob]

\* The driver is done with its job: the worker's "finally" stops the inhibitor.
Leave(d) ==
  /\ at' = [at EXCEPT ![d] = IF d = "worker" THEN "check" ELSE "idle"]
  /\ job' = [job EXCEPT ![d] = NoJob]

\* git worktree add fails: WorktreeError leaves create_job.
CreateFails(d) ==
  /\ at[d] = "group"
  /\ Leave(d)
  /\ UNCHANGED <<store, daemon, scan, queue, req, awake, bounds>>

\* Mutant: whoever asks takes the lease over.
MayAcquire_Any(d) == TRUE

MayAcquire(d) == lease[job[d]] \in {"free", d}

Acquire(d) ==
  /\ Go(d, "acquire", "rebuild")
  /\ MayAcquire(d)
  /\ lease' = [lease EXCEPT ![job[d]] = d]
  /\ UNCHANGED <<log, row, group, daemon, scan, queue, req, job, awake, bounds>>

\* LeaseAcquisitionError: the worker logs it and drops the request.
AcquireRefused(d) ==
  /\ at[d] = "acquire"
  /\ ~MayAcquire(d)
  /\ Leave(d)
  /\ UNCHANGED <<store, daemon, scan, queue, req, awake, bounds>>

\* resume_job rebuilds the projections: only now has the job a row.
Rebuild(d) ==
  /\ Go(d, "rebuild", "run")
  /\ row' = [row EXCEPT ![job[d]] = IF @ = "done" THEN "done" ELSE "open"]
  /\ UNCHANGED <<log, group, lease, daemon, scan, queue, req, job, awake, bounds>>

\* JOB_DONE, or a run that ends without it: BLOCKED, NEEDS_HUMAN, an exception.
\* The lease is released either way.
EndRun(d) ==
  /\ at[d] = "run"
  /\ \E s \in {"open", "done"} :
       row' = [row EXCEPT ![job[d]] = IF @ = "done" THEN "done" ELSE s]
  /\ lease' = [lease EXCEPT ![job[d]] = "free"]
  /\ Leave(d)
  /\ UNCHANGED <<log, group, daemon, scan, queue, req, awake, bounds>>

Drive(d) ==
  \/ LogCreated(d) \/ MakeGroup(d) \/ CreateFails(d) \/ ApprovePlan(d)
  \/ Acquire(d) \/ AcquireRefused(d) \/ Rebuild(d) \/ EndRun(d)

-----------------------------------------------------------------------------
(* The worker thread and the inhibitor.                                    *)

TakeRequest ==
  /\ daemon # "down"
  /\ queue # <<>>
  /\ Go("worker", "idle", "begin")
  /\ req' = Head(queue)
  /\ queue' = Tail(queue)
  /\ job' = [job EXCEPT !["worker"] = Head(queue).job]
  /\ UNCHANGED <<store, daemon, scan, awake, bounds>>

\* Mutant: the policy is never looked at, only the request is.
WantsAwake_Asked == req.awake

\* _maybe_start_inhibitor.
WantsAwake == Always \/ req.awake

Entry == IF req.resume THEN "acquire" ELSE "create"

BeginAsleep ==
  /\ ~WantsAwake \/ proc # 0
  /\ Go("worker", "begin", Entry)
  /\ UNCHANGED <<store, daemon, scan, queue, req, job, awake, bounds>>

StartInhibitor ==
  /\ WantsAwake
  /\ proc = 0
  /\ Go("worker", "begin", "record")
  /\ spawned' = spawned + 1
  /\ inhibitors' = inhibitors \cup {spawned'}
  /\ proc' = spawned'
  /\ UNCHANGED <<store, daemon, scan, queue, req, job, pidfile, mine, bounds>>

\* getattr(self._proc, "pid", None): the main thread may have cleared _proc.
ReadPid ==
  /\ Go("worker", "record", "write")
  /\ mine' = [mine EXCEPT !["worker"] = proc]
  /\ UNCHANGED <<store, daemon, scan, queue, req, job, inhibitors, proc, pidfile,
                 spawned, bounds>>

RecordInhibitor ==
  /\ Go("worker", "write", Entry)
  /\ pidfile' = IF mine["worker"] = 0 THEN pidfile ELSE mine["worker"]
  /\ mine' = [mine EXCEPT !["worker"] = 0]
  /\ UNCHANGED <<store, daemon, scan, queue, req, job, inhibitors, proc, spawned,
                 bounds>>

-----------------------------------------------------------------------------
(* Inhibitor.stop, step by step.  The worker runs it under Daemon._lock,   *)
(* which the main thread does not take: the two may be inside at once, or  *)
(* the main thread inside it and the worker inside Inhibitor.start.        *)

\* The worker's request is over; the main thread goes on to close the stores.
StopReturns(t, f) ==
  /\ at' = [at EXCEPT ![t] = f]
  /\ req' = IF t = "worker" THEN NoRequest ELSE req
  /\ UNCHANGED <<store, daemon, scan, queue, job, inhibitors, proc, spawned, bounds>>

StopFindsNone(t) ==
  /\ at[t] = "check"
  /\ proc = 0
  /\ StopReturns(t, "idle")
  /\ UNCHANGED <<pidfile, mine>>

StopFinds(t) ==
  /\ proc # 0
  /\ Go(t, "check", "take")
  /\ UNCHANGED <<store, daemon, scan, queue, req, job, awake, bounds>>

\* "proc = self._proc" reads it again, and may find None by now.
StopTakes(t) ==
  /\ Go(t, "take", "forget")
  /\ mine' = [mine EXCEPT ![t] = proc]
  /\ UNCHANGED <<store, daemon, scan, queue, req, job, inhibitors, proc, pidfile,
                 spawned, bounds>>

\* Mutant: the file goes first, before the process is terminated.
StopForgets_Unlinks(t) ==
  /\ Go(t, "forget", "terminate")
  /\ proc' = 0
  /\ pidfile' = 0
  /\ UNCHANGED <<store, daemon, scan, queue, req, job, inhibitors, spawned, mine,
                 bounds>>

StopForgets(t) ==
  /\ Go(t, "forget", "terminate")
  /\ proc' = 0
  /\ UNCHANGED <<store, daemon, scan, queue, req, job, inhibitors, pidfile, spawned,
                 mine, bounds>>

StopTerminates(t) ==
  /\ Go(t, "terminate", "unlink")
  /\ inhibitors' = inhibitors \ {mine[t]}
  /\ UNCHANGED <<store, daemon, scan, queue, req, job, proc, pidfile, spawned, mine,
                 bounds>>

\* The main thread's local is kept to the end of the process: the properties
\* speak of it.
StopUnlinks(t) ==
  /\ at[t] = "unlink"
  /\ pidfile' = 0
  /\ IF t = "worker" THEN StopReturns(t, "idle") /\ mine' = [mine EXCEPT ![t] = 0]
                     ELSE StopReturns(t, "stopped") /\ UNCHANGED mine

StopInhibitor(t) ==
  \/ StopFindsNone(t) \/ StopFinds(t) \/ StopTakes(t) \/ StopForgets(t)
  \/ StopTerminates(t) \/ StopUnlinks(t)

Worker ==
  \/ TakeRequest \/ BeginAsleep \/ StartInhibitor \/ ReadPid \/ RecordInhibitor
  \/ StopInhibitor("worker") \/ Drive("worker")

-----------------------------------------------------------------------------
(* The daemon's life: run_daemon, Daemon.start, Daemon.stop.               *)

\* Mutant: the inhibitor a crashed daemon left behind is not looked for.
Reap_Not == UNCHANGED <<inhibitors, pidfile>>

\* reap_stale_inhibitor kills what inhibitor.pid names and removes the file.
Reap ==
  /\ inhibitors' = inhibitors \ {pidfile}
  /\ pidfile' = 0

\* The server and the worker thread start, then the scan of unfinished jobs.
StartDaemon ==
  /\ daemon = "down"
  /\ FastRestart \/ \A j \in Job : lease[j] # "ghost"
  /\ daemon' = "start"
  /\ Reap
  /\ UNCHANGED <<store, scan, queue, req, at, job, proc, spawned, mine, bounds>>

\* Mutant: NOT IN became IN.
Unfinished_Done(j) == row[j] = "done"

Unfinished(j) == row[j] = "open"

SelectJobs ==
  /\ daemon = "start"
  /\ daemon' = "scan"
  /\ scan' = {j \in Job : Unfinished(j)}
  /\ UNCHANGED <<store, queue, req, at, job, awake, bounds>>

ResumeUnfinished(j) ==
  /\ daemon = "scan"
  /\ j \in scan
  /\ lease[j] = "free"
  /\ scan' = scan \ {j}
  /\ queue' = Append(queue, ResumeRequest(j))
  /\ UNCHANGED <<store, daemon, req, at, job, awake, bounds>>

SkipLeased(j) ==
  /\ daemon = "scan"
  /\ j \in scan
  /\ lease[j] # "free"
  /\ scan' = scan \ {j}
  /\ UNCHANGED <<store, daemon, queue, req, at, job, awake, bounds>>

\* The scan is over and the pid and port files are written: clients find it.
Listening ==
  /\ daemon = "scan"
  /\ scan = {}
  /\ daemon' = "up"
  /\ UNCHANGED <<store, scan, queue, req, at, job, awake, bounds>>

\* The process ends: threads, queue and handle are gone; leases, processes
\* and files stay.
Halt ==
  /\ daemon' = "down"
  /\ scan' = {}
  /\ queue' = <<>>
  /\ req' = NoRequest
  /\ at' = [d \in Driver \cup Thread |-> IF d \in Thread THEN "idle" ELSE at[d]]
  /\ job' = [job EXCEPT !["worker"] = NoJob]
  /\ lease' = [j \in Job |-> IF lease[j] = "worker" THEN "ghost" ELSE lease[j]]
  /\ proc' = 0
  /\ mine' = [t \in Thread |-> 0]
  /\ UNCHANGED <<log, row, group, inhibitors, pidfile, spawned>>

CrashDaemon ==
  /\ daemon # "down"
  /\ crashes < MaxCrashes
  /\ crashes' = crashes + 1
  /\ Halt
  /\ UNCHANGED <<resumes, stops>>

\* Daemon.stop closes the server and puts the sentinel behind the queue.
StopDaemon ==
  /\ daemon = "up"
  /\ stops < MaxStops
  /\ stops' = stops + 1
  /\ daemon' = "stop"
  /\ UNCHANGED <<store, scan, queue, req, at, job, awake, resumes, crashes>>

\* join(timeout=10) returns: the worker has ended at the sentinel, or ten seconds
\* went by, wherever the worker is.
StopJoined ==
  /\ daemon = "stop"
  /\ daemon' = "closing"
  /\ Go("main", "idle", "check")
  /\ UNCHANGED <<store, scan, queue, req, job, awake, bounds>>

\* The main thread returns and takes the worker, a daemon thread, with it.
ExitDaemon ==
  /\ daemon = "closing"
  /\ at["main"] \in {"idle", "stopped"}
  /\ Halt
  /\ UNCHANGED bounds

Startup ==
  \/ StartDaemon \/ SelectJobs \/ Listening
  \/ \E j \in Job : ResumeUnfinished(j) \/ SkipLeased(j)

Shutdown == StopDaemon \/ StopJoined \/ StopInhibitor("main") \/ ExitDaemon

LeaseExpires(j) ==
  /\ lease[j] = "ghost"
  /\ lease' = [lease EXCEPT ![j] = "free"]
  /\ UNCHANGED <<log, row, group, daemon, scan, queue, req, at, job, awake, bounds>>

-----------------------------------------------------------------------------
(* The user: POST /jobs and /jobs/<id>/resume, or the CLI on its own when  *)
(* get_client finds no daemon.                                             *)

\* A job id nobody has used.
Fresh(j) ==
  /\ log[j] = "none"
  /\ \A d \in Driver : job[d] # j
  /\ \A i \in 1..Len(queue) : queue[i].job # j

PostJob(j) ==
  /\ daemon = "up"
  /\ Fresh(j)
  /\ queue' = Append(queue, [job |-> j, resume |-> FALSE, awake |-> j \in KeepAwake])
  /\ UNCHANGED <<store, daemon, scan, req, at, job, awake, bounds>>

PostResume(j) ==
  /\ daemon = "up"
  /\ row[j] # "none"
  /\ resumes < MaxResumes
  /\ resumes' = resumes + 1
  /\ queue' = Append(queue, ResumeRequest(j))
  /\ UNCHANGED <<store, daemon, scan, req, at, job, awake, crashes, stops>>

CliStarts(j, f) ==
  /\ WithCli
  /\ daemon # "up"
  /\ Go("cli", "idle", f)
  /\ job' = [job EXCEPT !["cli"] = j]
  /\ UNCHANGED <<store, daemon, scan, queue, req, awake, crashes, stops>>

CliRun(j) == Fresh(j) /\ CliStarts(j, "create") /\ UNCHANGED resumes

CliResume(j) ==
  /\ row[j] # "none"
  /\ resumes < MaxResumes
  /\ resumes' = resumes + 1
  /\ CliStarts(j, "acquire")

CrashCli ==
  /\ at["cli"] # "idle"
  /\ crashes < MaxCrashes
  /\ crashes' = crashes + 1
  /\ at' = [at EXCEPT !["cli"] = "idle"]
  /\ job' = [job EXCEPT !["cli"] = NoJob]
  /\ lease' = [j \in Job |-> IF lease[j] = "cli" THEN "ghost" ELSE lease[j]]
  /\ UNCHANGED <<log, row, group, daemon, scan, queue, req, awake, resumes, stops>>

User ==
  \/ \E j \in Job : PostJob(j) \/ PostResume(j) \/ CliRun(j) \/ CliResume(j)
  \/ CrashCli

Next ==
  \/ Worker \/ Drive("cli") \/ Startup \/ Shutdown \/ CrashDaemon \/ User
  \/ \E j \in Job : LeaseExpires(j)

Spec == Init /\ [][Next]_vars

\* The worker and the startup scan run, the main thread that stops the daemon
\* goes on, leases of dead processes expire, and a daemon that is down is
\* started again (README: "run it under launchd/systemd/tmux").
FairSpec ==
  /\ Spec
  /\ WF_vars(Worker)
  /\ WF_vars(Startup)
  /\ WF_vars(StopJoined \/ StopInhibitor("main") \/ ExitDaemon)
  /\ \A j \in Job : WF_vars(LeaseExpires(j))

-----------------------------------------------------------------------------
Phase == {"idle", "begin", "record", "write", "create", "group", "plan", "acquire",
          "rebuild", "run", "check", "take", "forget", "terminate", "unlink", "stopped"}

StoreType ==
  /\ log \in [Job -> {"none", "created", "approved"}]
  /\ row \in [Job -> {"none", "open", "done"}]
  /\ group \in Job \cup {NoJob}
  /\ lease \in [Job -> {"free", "worker", "cli", "ghost"}]

DriverType ==
  /\ at \in [Driver \cup Thread -> Phase]
  /\ job \in [Driver -> Job \cup {NoJob}]

ServerType ==
  /\ daemon \in {"down", "start", "scan", "up", "stop", "closing"}
  /\ scan \subseteq Job
  /\ queue \in Seq(Request)
  /\ req \in Request

AwakeType ==
  /\ spawned \in Nat
  /\ inhibitors \subseteq 1..spawned
  /\ proc \in 0..spawned
  /\ pidfile \in 0..spawned
  /\ mine \in [Thread -> 0..spawned]

BoundType ==
  /\ resumes \in 0..MaxResumes
  /\ crashes \in 0..MaxCrashes
  /\ stops \in 0..MaxStops

\* The tables, the queue, the drivers and the inhibitor hold what their
\* fields can hold.
TypeOK == StoreType /\ DriverType /\ ServerType /\ AwakeType /\ BoundType

Drives(d, j) == job[d] = j /\ at[d] \in {"rebuild", "run"}
Driven(j) == \E d \in Driver : Drives(d, j)
Queued(j) == \E i \in 1..Len(queue) : queue[i].job = j

\* No job is driven by the worker and a CLI process at once, whatever was
\* queued, resumed twice or left over (DESIGN.md section 7.1, job lease).
OneDriver ==
  \A j \in Job : \A d, e \in Driver : Drives(d, j) /\ Drives(e, j) => d = e

\* What a thread inside Inhibitor.start or stop has in hand.
Held == {mine["worker"]} \cup (IF at["main"] = "stopped" THEN {} ELSE {mine["main"]})

\* The inhibitors that still run and that nothing in the program knows of: neither
\* the handle, nor inhibitor.pid for the next start to reap, nor a thread.
Adrift == inhibitors \ ({proc, pidfile} \cup Held)

\* Crashes and restarts never pile up sleep inhibitors: until the main thread's
\* own stop takes hold, at most one that the program knows of runs (Inhibitor.start,
\* Inhibitor.stop, reap_stale_inhibitor).
OneInhibitor ==
  at["main"] \in {"idle", "check", "take", "forget"}
    => \A a, b \in inhibitors \ Adrift : a = b

\* The process dies between the spawn of inhibitor i and the write of its pid.
Unwritten(i) ==
  daemon' = "down" /\ i = spawned /\ at["worker"] \in {"record", "write"}

\* It dies between the main thread's "self._proc = None" and its terminate() of i:
\* the worker, finding None there, may have written no pid or removed the file.
StopCut(i) == daemon' = "down" /\ i = mine["main"] /\ at["main"] = "terminate"

\* The worker started another inhibitor since the main thread's stop took its own.
Overtaken ==
  /\ at["main"] \in {"forget", "terminate", "unlink", "stopped"}
  /\ spawned > mine["main"]

\* An inhibitor that runs is lost track of in these three windows and no other: a
\* crash or exit between spawn and write, a crash inside a stop that overlaps the
\* worker's, a stop that the worker's next start overtakes (daemon.py:272, :282,
\* :514).  Any other crash leaves a record that the next start can reap.
InhibitorStaysKnown ==
  [][\A i \in Adrift' \ Adrift : Unwritten(i) \/ StopCut(i) \/ Overtaken]_vars

\* While a daemon in service works on a job that is to keep the machine awake,
\* the inhibitor runs (daemon.py:22-28, keep-awake).
AwakeAsAsked ==
  /\ daemon \in {"start", "scan", "up"}
  /\ at["worker"] = "run"
  /\ Always \/ job["worker"] \in KeepAwake
  => proc \in inhibitors

\* A driven job finds its own worktree in task_groups (Orchestrator._worktree).
WorktreeIsOwn == \A d \in Driver : at[d] = "run" => group = job[d]

\* A job whose process died, before it was done, is driven again.
InterruptedIsResumed ==
  \A j \in Job : (row[j] = "open" /\ lease[j] = "ghost") ~> Driven(j)

\* The worker outlives every job's failure: unless the daemon goes down first,
\* what it accepted (202) is taken up, and a resume is carried out (a new job's
\* create_job may still fail).
AcceptedIsDriven ==
  \A j \in Job :
    /\ Queued(j) ~> (job["worker"] = j \/ daemon = "down")
    /\ (Queued(j) /\ row[j] = "open") ~> (Driven(j) \/ row[j] = "done" \/ daemon = "down")

-----------------------------------------------------------------------------
(* What the code does not keep: README, section 3, says how each fails.    *)

\* Every inhibitor that outlives its daemon is on record for the next start
\* (docstring of Inhibitor, daemon.py:245-248).
InhibitorIsRecorded == daemon = "down" => inhibitors \subseteq {pidfile}

\* A daemon that was stopped, not killed, leaves no inhibitor behind.
InhibitorIsStopped == daemon = "down" /\ crashes = 0 => inhibitors = {}

\* A job whose approved plan is in the log, and that nobody is working on, has
\* the jobs row by which the startup scan and every resume find it.
ApprovedIsFound ==
  \A j \in Job :
    log[j] = "approved" /\ (\A d \in Driver : job[d] # j) => row[j] # "none"

\* The startup scan skips a job only if a live process advances it.
SkippedIsAdvanced ==
  [][\A j \in Job : SkipLeased(j) => \E d \in Driver : job[d] = j]_vars
=============================================================================
