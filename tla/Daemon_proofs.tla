---------------------------- MODULE Daemon_proofs ----------------------------
(***************************************************************************)
(* What Daemon promises for every set of jobs and every number of crashes, *)
(* stops and resumes.                                                      *)
(***************************************************************************)
EXTENDS Daemon, SequenceTheorems, TLAPS

\* A step from one phase to another keeps the phases typed.
LEMMA GoType ==
  ASSUME DriverType, NEW d, NEW f, NEW g \in Phase, Go(d, f, g)
  PROVE  at' \in [Driver \cup Thread -> Phase]
  BY DEF DriverType, Go

\* So does the end of a job, and the driver has none then.
LEMMA LeaveType ==
  ASSUME DriverType, NEW d, Leave(d)
  PROVE  DriverType'
<1>1. "check" \in Phase /\ "idle" \in Phase
  BY DEF Phase
<1>2. at' \in [Driver \cup Thread -> Phase]
  BY <1>1 DEF DriverType, Leave
<1>3. job' \in [Driver -> Job \cup {NoJob}]
  BY DEF DriverType, Leave
<1> QED
  BY <1>2, <1>3 DEF DriverType

\* create_job and run_job keep the tables and their driver typed.
LEMMA DriveType ==
  ASSUME TypeOK, NEW d \in Driver, Drive(d)
  PROVE  TypeOK'
<1>1. ServerType' /\ AwakeType' /\ BoundType'
  BY DEF TypeOK, ServerType, AwakeType, BoundType, awake, bounds, Drive, LogCreated,
         MakeGroup, CreateFails, ApprovePlan, Acquire, AcquireRefused, Rebuild, EndRun
<1>2. StoreType /\ DriverType
  BY DEF TypeOK
<1>3. {"create", "group", "plan", "acquire", "rebuild", "run"} \subseteq Phase
  BY DEF Phase
<1>4. CASE LogCreated(d)
  BY <1>1, <1>2, <1>3, <1>4, GoType DEF LogCreated, TypeOK, StoreType, DriverType
<1>5. CASE MakeGroup(d)
  BY <1>1, <1>2, <1>3, <1>5, GoType DEF MakeGroup, TypeOK, StoreType, DriverType
<1>6. CASE ApprovePlan(d)
  BY <1>1, <1>2, <1>3, <1>6, GoType DEF ApprovePlan, TypeOK, StoreType, DriverType
<1>7. CASE CreateFails(d) \/ AcquireRefused(d)
  BY <1>1, <1>2, <1>7, LeaveType DEF CreateFails, AcquireRefused, TypeOK, StoreType, store
<1>8. CASE Acquire(d)
  BY <1>1, <1>2, <1>3, <1>8, GoType DEF Acquire, TypeOK, StoreType, DriverType, Driver
<1>9. CASE Rebuild(d)
  BY <1>1, <1>2, <1>3, <1>9, GoType DEF Rebuild, TypeOK, StoreType, DriverType
<1>10. CASE EndRun(d)
  <2>1. DriverType'
    BY <1>2, <1>10, LeaveType DEF EndRun
  <2>2. PICK s \in {"open", "done"} :
          row' = [row EXCEPT ![job[d]] = IF @ = "done" THEN "done" ELSE s]
    BY <1>10 DEF EndRun
  <2>3. row' \in [Job -> {"none", "open", "done"}]
    BY <1>2, <2>2 DEF StoreType
  <2>4. lease' \in [Job -> {"free", "worker", "cli", "ghost"}]
    BY <1>2, <1>10 DEF EndRun, StoreType
  <2>5. StoreType'
    BY <1>2, <1>10, <2>3, <2>4 DEF EndRun, StoreType
  <2> QED
    BY <1>1, <2>1, <2>5 DEF TypeOK
<1> QED
  BY <1>4, <1>5, <1>6, <1>7, <1>8, <1>9, <1>10 DEF Drive

\* Inhibitor.stop keeps the phases and the numbers of inhibitors typed, whichever
\* thread runs it.
LEMMA StopType ==
  ASSUME TypeOK, NEW t \in Thread, StopInhibitor(t)
  PROVE  TypeOK'
<1>1. StoreType /\ DriverType /\ ServerType /\ AwakeType /\ BoundType
  BY DEF TypeOK
<1>2. {"idle", "stopped", "take", "forget", "terminate", "unlink"} \subseteq Phase
  BY DEF Phase
<1>3. NoRequest \in Request
  BY DEF NoRequest, Request
<1>4. ASSUME NEW f \in Phase, StopReturns(t, f), pidfile' \in 0..spawned,
             mine' \in [Thread -> 0..spawned]
      PROVE  TypeOK'
  <2>1. DriverType'
    BY <1>1, <1>4 DEF StopReturns, DriverType
  <2>2. ServerType'
    BY <1>1, <1>3, <1>4 DEF StopReturns, ServerType
  <2> QED
    BY <1>1, <1>4, <2>1, <2>2
    DEF StopReturns, TypeOK, StoreType, AwakeType, BoundType, store, bounds
<1>5. CASE StopFindsNone(t)
  BY <1>1, <1>2, <1>4, <1>5 DEF StopFindsNone, AwakeType
<1>6. CASE StopUnlinks(t)
  <2>1. pidfile' \in 0..spawned /\ mine' \in [Thread -> 0..spawned]
    BY <1>1, <1>6 DEF StopUnlinks, AwakeType
  <2> QED
    BY <1>2, <1>4, <1>6, <2>1 DEF StopUnlinks
<1>7. CASE StopFinds(t) \/ StopTakes(t) \/ StopForgets(t) \/ StopTerminates(t)
  <2>1. DriverType'
    BY <1>1, <1>2, <1>7, GoType
    DEF StopFinds, StopTakes, StopForgets, StopTerminates, DriverType
  <2>2. AwakeType'
    <3>1. CASE StopTakes(t)
      <4>1. mine' \in [Thread -> 0..spawned]
        BY <1>1, <3>1 DEF StopTakes, AwakeType
      <4> QED
        BY <1>1, <3>1, <4>1 DEF StopTakes, AwakeType
    <3>2. CASE StopFinds(t)
      BY <1>1, <3>2 DEF StopFinds, AwakeType, awake
    <3>3. CASE StopForgets(t)
      BY <1>1, <3>3 DEF StopForgets, AwakeType
    <3>4. CASE StopTerminates(t)
      BY <1>1, <3>4 DEF StopTerminates, AwakeType
    <3> QED
      BY <1>7, <3>1, <3>2, <3>3, <3>4
  <2> QED
    BY <1>1, <1>7, <2>1, <2>2
    DEF StopFinds, StopTakes, StopForgets, StopTerminates, TypeOK, StoreType, ServerType,
        BoundType, store, bounds
<1> QED
  BY <1>5, <1>6, <1>7 DEF StopInhibitor

\* The worker takes requests and handles the inhibitor.
LEMMA WorkerType ==
  ASSUME TypeOK, Worker
  PROVE  TypeOK'
<1>1. StoreType /\ DriverType /\ ServerType /\ AwakeType /\ BoundType
  BY DEF TypeOK
<1>2. {"idle", "begin", "record", "write", "create", "acquire"} \subseteq Phase /\ Entry \in Phase
  BY DEF Phase, Entry
<1>3. CASE TakeRequest
  <2>1. Head(queue) \in Request /\ Tail(queue) \in Seq(Request)
    BY <1>1, <1>3 DEF TakeRequest, ServerType
  <2>2. Head(queue).job \in Job \cup {NoJob}
    BY <2>1 DEF Request
  <2>3. DriverType'
    BY <1>1, <1>2, <1>3, <2>2, GoType DEF TakeRequest, DriverType
  <2>4. ServerType'
    BY <1>1, <1>3, <2>1 DEF TakeRequest, ServerType
  <2> QED
    BY <1>1, <1>3, <2>3, <2>4
    DEF TakeRequest, TypeOK, StoreType, AwakeType, BoundType, store, awake, bounds
<1>4. CASE BeginAsleep \/ StartInhibitor \/ ReadPid \/ RecordInhibitor
  <2>1. DriverType'
    BY <1>1, <1>2, <1>4, GoType
    DEF BeginAsleep, StartInhibitor, ReadPid, RecordInhibitor, DriverType
  <2>2. AwakeType'
    <3>1. CASE BeginAsleep
      BY <1>1, <3>1 DEF BeginAsleep, AwakeType, awake
    <3>2. CASE StartInhibitor
      <4>1. mine \in [Thread -> 0..spawned + 1]
        BY <1>1 DEF AwakeType
      <4>2. spawned' \in Nat /\ mine' \in [Thread -> 0..spawned']
        BY <1>1, <3>2, <4>1 DEF StartInhibitor, AwakeType
      <4>3. inhibitors' \subseteq 1..spawned' /\ proc' \in 0..spawned' /\ pidfile' \in 0..spawned'
        BY <1>1, <3>2 DEF StartInhibitor, AwakeType
      <4> QED
        BY <4>2, <4>3 DEF AwakeType
    <3>3. CASE ReadPid \/ RecordInhibitor
      <4>1. pidfile' \in 0..spawned /\ mine' \in [Thread -> 0..spawned]
        BY <1>1, <3>3 DEF ReadPid, RecordInhibitor, AwakeType, Thread
      <4> QED
        BY <1>1, <3>3, <4>1 DEF ReadPid, RecordInhibitor, AwakeType
    <3> QED
      BY <1>4, <3>1, <3>2, <3>3
  <2> QED
    BY <1>1, <1>4, <2>1, <2>2
    DEF BeginAsleep, StartInhibitor, ReadPid, RecordInhibitor, TypeOK, StoreType,
        ServerType, BoundType, store, bounds
<1> QED
  BY <1>3, <1>4, DriveType, StopType DEF Worker, Driver, Thread

\* The end of the daemon's process: threads and queue are gone.
LEMMA HaltType ==
  ASSUME TypeOK, Halt
  PROVE  StoreType' /\ DriverType' /\ ServerType' /\ AwakeType'
<1>1. StoreType'
  BY DEF TypeOK, StoreType, Halt
<1>2. "idle" \in Phase
  BY DEF Phase
<1>3. DriverType'
  BY <1>2 DEF TypeOK, DriverType, Halt
<1>4. ServerType'
  BY DEF TypeOK, ServerType, Halt, NoRequest, Request
<1>5. AwakeType'
  BY DEF TypeOK, AwakeType, Halt
<1> QED
  BY <1>1, <1>3, <1>4, <1>5

\* The daemon's startup scan and its end.
LEMMA LifeType ==
  ASSUME TypeOK, Startup \/ Shutdown \/ CrashDaemon
  PROVE  TypeOK'
<1>1. StoreType /\ DriverType /\ ServerType /\ AwakeType /\ BoundType
  BY DEF TypeOK
<1>2. CASE StartDaemon
  BY <1>1, <1>2
  DEF StartDaemon, Reap, TypeOK, StoreType, DriverType, ServerType, AwakeType,
      BoundType, store, bounds
<1>3. CASE SelectJobs \/ Listening
  BY <1>1, <1>3
  DEF SelectJobs, Listening, TypeOK, StoreType, DriverType, ServerType, AwakeType,
      BoundType, store, awake, bounds
<1>4. ASSUME NEW j \in Job, ResumeUnfinished(j) \/ SkipLeased(j) PROVE TypeOK'
  <2>1. ResumeRequest(j) \in Request
    BY DEF ResumeRequest, Request
  <2>2. ServerType'
    BY <1>1, <1>4, <2>1 DEF ResumeUnfinished, SkipLeased, ServerType
  <2> QED
    BY <1>1, <1>4, <2>2
    DEF ResumeUnfinished, SkipLeased, TypeOK, StoreType, DriverType, AwakeType,
        BoundType, store, awake, bounds
<1>5. CASE StopDaemon
  BY <1>1, <1>5, DaemonAssumption
  DEF StopDaemon, TypeOK, StoreType, DriverType, ServerType, AwakeType, BoundType,
      store, awake
<1>6. CASE StopJoined
  <2>1. DriverType'
    BY <1>1, <1>6, GoType DEF StopJoined, DriverType, Phase
  <2> QED
    BY <1>1, <1>6, <2>1
    DEF StopJoined, TypeOK, StoreType, ServerType, AwakeType, BoundType, store, awake,
        bounds
<1>7. CASE ExitDaemon
  BY <1>1, <1>7, HaltType DEF ExitDaemon, TypeOK, BoundType, bounds
<1>8. CASE CrashDaemon
  BY <1>1, <1>8, HaltType, DaemonAssumption DEF CrashDaemon, TypeOK, BoundType
<1> QED
  BY <1>2, <1>3, <1>4, <1>5, <1>6, <1>7, <1>8, StopType DEF Startup, Shutdown, Thread

\* What the user does: requests to the daemon, and the CLI's own runs.
LEMMA UserType ==
  ASSUME TypeOK, User
  PROVE  TypeOK'
<1>1. StoreType /\ DriverType /\ ServerType /\ AwakeType /\ BoundType
  BY DEF TypeOK
<1>2. "create" \in Phase /\ "acquire" \in Phase /\ "idle" \in Phase
  BY DEF Phase
<1>3. ASSUME NEW j \in Job, PostJob(j) \/ PostResume(j) PROVE TypeOK'
  <2>1. ServerType'
    <3>1. ResumeRequest(j) \in Request
      BY DEF ResumeRequest, Request
    <3>2. [job |-> j, resume |-> FALSE, awake |-> j \in KeepAwake] \in Request
      <4>1. (j \in KeepAwake) \in BOOLEAN
        OBVIOUS
      <4> QED
        BY <4>1, Zenon DEF Request
    <3>3. PICK r \in Request : queue' = Append(queue, r)
      BY <1>3, <3>1, <3>2, Zenon DEF PostJob, PostResume
    <3>4. queue' \in Seq(Request)
      BY <1>1, <3>3 DEF ServerType
    <3> QED
      BY <1>1, <1>3, <3>4 DEF PostJob, PostResume, ServerType
  <2>2. BoundType'
    BY <1>1, <1>3, DaemonAssumption DEF PostJob, PostResume, BoundType, bounds
  <2> QED
    BY <1>1, <1>3, <2>1, <2>2
    DEF PostJob, PostResume, TypeOK, StoreType, DriverType, AwakeType, store, awake
<1>4. ASSUME NEW j \in Job, NEW f \in {"create", "acquire"}, CliStarts(j, f),
             resumes' \in 0..MaxResumes
      PROVE  TypeOK'
  <2>1. DriverType'
    BY <1>1, <1>2, <1>4, GoType DEF CliStarts, DriverType
  <2> QED
    BY <1>1, <1>4, <2>1
    DEF CliStarts, TypeOK, StoreType, ServerType, AwakeType, BoundType, store, awake
<1>5. CASE CrashCli
  <2>1. DriverType'
    BY <1>1, <1>2, <1>5 DEF CrashCli, DriverType
  <2>2. StoreType'
    BY <1>1, <1>5 DEF CrashCli, StoreType
  <2> QED
    BY <1>1, <1>5, <2>1, <2>2, DaemonAssumption
    DEF CrashCli, TypeOK, ServerType, AwakeType, BoundType, awake
<1>6. ASSUME NEW j \in Job, CliRun(j) \/ CliResume(j) PROVE TypeOK'
  BY <1>1, <1>4, <1>6, DaemonAssumption DEF CliRun, CliResume, BoundType
<1> QED
  BY <1>3, <1>5, <1>6 DEF User

\* Every step of the worker, the CLI, the main thread and the user keeps the
\* tables, the queue and the inhibitor's files typed.
THEOREM TypeCorrect == Spec => []TypeOK
<1>1. Init => TypeOK
  BY DaemonAssumption
  DEF Init, TypeOK, StoreType, DriverType, ServerType, AwakeType, BoundType, Phase,
      Driver, Thread, Request, NoRequest
<1>2. TypeOK /\ [Next]_vars => TypeOK'
  <2> SUFFICES ASSUME TypeOK, [Next]_vars PROVE TypeOK'
    OBVIOUS
  <2>1. ASSUME NEW j \in Job, LeaseExpires(j) PROVE TypeOK'
    BY <2>1
    DEF LeaseExpires, TypeOK, StoreType, DriverType, ServerType, AwakeType, BoundType,
        awake, bounds
  <2>2. CASE UNCHANGED vars
    BY <2>2
    DEF vars, TypeOK, StoreType, DriverType, ServerType, AwakeType, BoundType, store,
        awake, bounds
  <2> QED
    BY <2>1, <2>2, DriveType, WorkerType, LifeType, UserType DEF Next, Driver
<1> QED
  BY <1>1, <1>2, PTL DEF Spec

-----------------------------------------------------------------------------
(* One driver per job: whoever drives a job holds its lease.               *)

Leased == \A d \in Driver : \A j \in Job : Drives(d, j) => lease[j] = d

\* acquire, release and the death of a process keep driving and holding together.
LEMMA LeasedInvariant == Spec => []Leased
<1>1. Init => Leased
  BY DEF Init, Leased, Drives
<1>2. TypeOK /\ Leased /\ [Next]_vars => Leased'
  <2> SUFFICES ASSUME TypeOK, Leased, [Next]_vars PROVE Leased'
    OBVIOUS
  <2> USE DEF TypeOK, DriverType, StoreType, Leased, Drives, store, Go, Driver, Thread
  <2>8. ASSUME NEW t \in Thread, StopInhibitor(t) PROVE Leased'
    BY <2>8
    DEF StopInhibitor, StopFindsNone, StopFinds, StopTakes, StopForgets, StopTerminates,
        StopUnlinks, StopReturns
  <2>1. ASSUME NEW d \in Driver, Drive(d) PROVE Leased'
    <3>1. CASE Acquire(d)
      BY <3>1 DEF Acquire, MayAcquire
    <3>2. CASE EndRun(d)
      BY <3>2 DEF EndRun, Leave
    <3>3. CASE Rebuild(d)
      BY <3>3 DEF Rebuild
    <3>4. CASE LogCreated(d) \/ MakeGroup(d) \/ ApprovePlan(d)
      BY <3>4 DEF LogCreated, MakeGroup, ApprovePlan
    <3>5. CASE CreateFails(d) \/ AcquireRefused(d)
      BY <3>5 DEF CreateFails, AcquireRefused, Leave
    <3> QED
      BY <2>1, <3>1, <3>2, <3>3, <3>4, <3>5 DEF Drive
  <2>2. CASE Worker
    <3>1. CASE TakeRequest
      BY <3>1 DEF TakeRequest
    <3>2. CASE BeginAsleep \/ StartInhibitor \/ ReadPid \/ RecordInhibitor
      BY <3>2 DEF BeginAsleep, StartInhibitor, ReadPid, RecordInhibitor, Entry
    <3> QED
      BY <2>1, <2>2, <2>8, <3>1, <3>2 DEF Worker, Thread
  <2>3. CASE Startup
    BY <2>3
    DEF Startup, StartDaemon, SelectJobs, Listening, ResumeUnfinished, SkipLeased
  <2>4. CASE StopDaemon \/ StopJoined \/ ExitDaemon \/ CrashDaemon
    BY <2>4 DEF StopDaemon, StopJoined, ExitDaemon, CrashDaemon, Halt
  <2>5. CASE User
    <3>1. CASE CrashCli
      BY <3>1 DEF CrashCli
    <3>2. ASSUME NEW j \in Job, PostJob(j) \/ PostResume(j) \/ CliRun(j) \/ CliResume(j)
          PROVE  Leased'
      BY <3>2 DEF PostJob, PostResume, CliRun, CliResume, CliStarts
    <3> QED
      BY <2>5, <3>1, <3>2 DEF User
  <2>6. ASSUME NEW j \in Job, LeaseExpires(j) PROVE Leased'
    BY <2>6 DEF LeaseExpires
  <2>7. CASE UNCHANGED vars
    BY <2>7 DEF vars
  <2> QED
    BY <2>1, <2>2, <2>3, <2>4, <2>5, <2>6, <2>7, <2>8 DEF Next, Shutdown, Thread
<1> QED
  BY <1>1, <1>2, TypeCorrect, PTL DEF Spec

\* The worker and a CLI process never drive one job together: a resume queued
\* twice, or raced by "lazycode resume", is refused by the lease.
THEOREM AlwaysOneDriver == Spec => []OneDriver
<1>1. Leased => OneDriver
  BY DEF Leased, OneDriver
<1> QED
  BY <1>1, LeasedInvariant, PTL

-----------------------------------------------------------------------------
(* The inhibitor: until the main thread's stop writes, the handle, the     *)
(* file and the worker's local name the newest inhibitor or none.          *)

\* The phases in which the main thread has only read, so far.
Reading == {"idle", "check", "take", "forget"}

\* Locals are set inside start and stop, and only the closing daemon's main thread
\* has one.
LocalInv ==
  /\ at["main"] \in Reading \cup {"terminate", "unlink", "stopped"}
  /\ daemon = "down" => proc = 0 /\ at["worker"] = "idle"
  /\ daemon # "closing" => at["main"] = "idle"
  /\ at["main"] \in {"idle", "check", "take"} => mine["main"] = 0
  /\ at["worker"] \notin {"write", "forget", "terminate", "unlink"} => mine["worker"] = 0

\* The worker alone with the inhibitor: the file agrees with the handle but while
\* the worker starts or stops one.
AloneInv ==
  daemon # "down" /\ at["main"] \in Reading =>
    /\ {proc, pidfile, mine["worker"]} \subseteq {0, spawned}
    /\ at["worker"] \notin {"record", "write", "terminate", "unlink"} => pidfile = proc
    /\ at["worker"] \in {"record", "write"} => pidfile = 0
    /\ at["worker"] \in {"write", "forget"} => mine["worker"] = proc
    /\ at["worker"] \in {"terminate", "unlink"} => proc = 0 /\ pidfile = mine["worker"]
    /\ at["worker"] = "unlink" => mine["worker"] \notin inhibitors

\* What the main thread took is the handle, or the worker stops it, or it is gone;
\* and the main thread's terminate ends it.
TakenInv ==
  /\ at["main"] = "forget" =>
       \/ mine["main"] \notin inhibitors
       \/ mine["main"] = proc
       \/ at["worker"] = "terminate" /\ mine["main"] = mine["worker"]
  /\ at["main"] \in {"unlink", "stopped"} => mine["main"] \notin inhibitors
  /\ at["main"] \in {"terminate", "unlink", "stopped"} /\ spawned = mine["main"] =>
       {proc, pidfile, mine["worker"]} \subseteq {0, spawned}

InhibitorInv == LocalInv /\ AloneInv /\ TakenInv

\* The steps of Inhibitor.stop by the worker, with or without the main thread.
LEMMA WorkerStopInv ==
  ASSUME TypeOK, InhibitorInv, StopInhibitor("worker")
  PROVE  InhibitorInv'
<1> USE DEF TypeOK, DriverType, AwakeType, InhibitorInv, LocalInv, AloneInv, TakenInv,
            Reading, awake, Go, Driver, Thread, StopReturns
<1>1. CASE StopFindsNone("worker")
  BY <1>1 DEF StopFindsNone
<1>2. CASE StopFinds("worker")
  BY <1>2 DEF StopFinds
<1>3. CASE StopTakes("worker")
  BY <1>3 DEF StopTakes
<1>4. CASE StopForgets("worker")
  BY <1>4 DEF StopForgets
<1>5. CASE StopTerminates("worker")
  BY <1>5 DEF StopTerminates
<1>6. CASE StopUnlinks("worker")
  BY <1>6 DEF StopUnlinks
<1> QED
  BY <1>1, <1>2, <1>3, <1>4, <1>5, <1>6 DEF StopInhibitor

\* The same steps by the main thread, which no lock keeps from the worker's.
LEMMA MainStopInv ==
  ASSUME TypeOK, InhibitorInv, StopInhibitor("main")
  PROVE  InhibitorInv'
<1> USE DEF TypeOK, DriverType, AwakeType, InhibitorInv, LocalInv, AloneInv, TakenInv,
            Reading, awake, Go, Driver, Thread, StopReturns
<1>1. CASE StopFindsNone("main")
  BY <1>1 DEF StopFindsNone
<1>2. CASE StopFinds("main")
  BY <1>2 DEF StopFinds
<1>3. CASE StopTakes("main")
  BY <1>3 DEF StopTakes
<1>4. CASE StopForgets("main")
  BY <1>4 DEF StopForgets
<1>5. CASE StopTerminates("main")
  BY <1>5 DEF StopTerminates
<1>6. CASE StopUnlinks("main")
  BY <1>6 DEF StopUnlinks
<1> QED
  BY <1>1, <1>2, <1>3, <1>4, <1>5, <1>6 DEF StopInhibitor

\* Spawn, record, stop, reap and every death of the daemon keep that so.
LEMMA InhibitorInvariant == Spec => []InhibitorInv
<1>1. Init => InhibitorInv
  BY DEF Init, InhibitorInv, LocalInv, AloneInv, TakenInv, Reading, Driver, Thread
<1>2. TypeOK /\ InhibitorInv /\ [Next]_vars => InhibitorInv'
  <2> SUFFICES ASSUME TypeOK, InhibitorInv, [Next]_vars PROVE InhibitorInv'
    OBVIOUS
  <2> USE DEF TypeOK, DriverType, AwakeType, InhibitorInv, LocalInv, AloneInv, TakenInv,
              Reading, awake, Go, Driver, Thread
  <2>1. ASSUME NEW d \in Driver, Drive(d) PROVE InhibitorInv'
    BY <2>1
    DEF Drive, LogCreated, MakeGroup, CreateFails, ApprovePlan, Acquire,
        AcquireRefused, Rebuild, EndRun, Leave
  <2>2. CASE Worker
    <3>1. CASE TakeRequest \/ BeginAsleep
      BY <3>1 DEF TakeRequest, BeginAsleep, Entry
    <3>2. CASE StartInhibitor
      BY <3>2 DEF StartInhibitor
    <3>3. CASE ReadPid
      BY <3>3 DEF ReadPid
    <3>4. CASE RecordInhibitor
      BY <3>4 DEF RecordInhibitor, Entry
    <3> QED
      BY <2>1, <2>2, <3>1, <3>2, <3>3, <3>4, WorkerStopInv DEF Worker
  <2>3. CASE Startup
    BY <2>3
    DEF Startup, StartDaemon, Reap, SelectJobs, Listening, ResumeUnfinished, SkipLeased
  <2>4. CASE StopDaemon \/ StopJoined
    BY <2>4 DEF StopDaemon, StopJoined
  <2>5. CASE ExitDaemon \/ CrashDaemon
    BY <2>5 DEF ExitDaemon, CrashDaemon, Halt
  <2>6. CASE User
    <3>1. ASSUME NEW j \in Job, PostJob(j) \/ PostResume(j) PROVE InhibitorInv'
      BY <3>1 DEF PostJob, PostResume
    <3>2. ASSUME NEW j \in Job, NEW f \in {"create", "acquire"}, CliStarts(j, f)
          PROVE  InhibitorInv'
      BY <3>2 DEF CliStarts
    <3>3. CASE CrashCli
      BY <3>3 DEF CrashCli
    <3> QED
      BY <2>6, <3>1, <3>2, <3>3 DEF User, CliRun, CliResume
  <2>7. ASSUME NEW j \in Job, LeaseExpires(j) PROVE InhibitorInv'
    BY <2>7 DEF LeaseExpires
  <2>8. CASE UNCHANGED vars
    BY <2>8 DEF vars
  <2> QED
    BY <2>1, <2>2, <2>3, <2>4, <2>5, <2>6, <2>7, <2>8, MainStopInv DEF Next, Shutdown
<1> QED
  BY <1>1, <1>2, TypeCorrect, PTL DEF Spec

\* Inhibitors do not pile up over crashes and restarts: as long as the main thread
\* has not begun to undo the handle, at most one that is known runs.
THEOREM AlwaysOneInhibitor == Spec => []OneInhibitor
<1>1. TypeOK /\ InhibitorInv => OneInhibitor
  BY DEF TypeOK, AwakeType, DriverType, InhibitorInv, LocalInv, AloneInv, TakenInv,
         Reading, OneInhibitor, Adrift, Held, Driver, Thread
<1> QED
  BY <1>1, TypeCorrect, InhibitorInvariant, PTL

\* An inhibitor goes adrift only in one of the named windows, as a step of the
\* inhibitor's threads or of the process's end.
LEMMA AdriftStep ==
  ASSUME TypeOK, InhibitorInv, InhibitorInv', Next,
         NEW i \in Adrift' \ Adrift, ~Overtaken
  PROVE  Unwritten(i) \/ StopCut(i)
<1> USE DEF TypeOK, DriverType, AwakeType, Adrift, Held, Overtaken, Unwritten, StopCut,
            InhibitorInv, LocalInv, AloneInv, TakenInv, Reading, awake, Go, Driver, Thread
<1>1. CASE UNCHANGED <<awake, at["main"]>>
  BY <1>1
<1>2. CASE Worker
  <2>1. CASE StartInhibitor
    <3>1. i # spawned' /\ i \in inhibitors /\ i # 0
      BY <2>1 DEF StartInhibitor
    <3>2. i \in {proc, pidfile} \cup Held
      BY <3>1
    <3>3. pidfile' = pidfile /\ Held' = Held /\ proc = 0
      BY <2>1 DEF StartInhibitor
    <3> QED
      BY <3>1, <3>2, <3>3
  <2>2. CASE ReadPid
    BY <2>2 DEF ReadPid
  <2>6. CASE RecordInhibitor
    <3>1. i \in inhibitors /\ i # 0 /\ proc' = proc /\ mine'["main"] = mine["main"]
          /\ at'["main"] = at["main"]
      BY <2>6 DEF RecordInhibitor, Entry
    <3>2. i \in {pidfile, mine["worker"]} /\ i # pidfile'
      BY <2>6, <3>1 DEF RecordInhibitor
    <3>3. i = pidfile /\ mine["worker"] # 0 /\ mine["worker"] # pidfile
      BY <2>6, <3>1, <3>2 DEF RecordInhibitor
    <3>4. at["worker"] = "write" /\ daemon # "down"
      BY <2>6 DEF RecordInhibitor
    <3>5. CASE at["main"] \in Reading
      BY <3>1, <3>3, <3>4, <3>5
    <3>6. CASE at["main"] \in {"terminate", "unlink", "stopped"}
      BY <3>1, <3>3, <3>6
    <3> QED
      BY <3>4, <3>5, <3>6
  <2>3. CASE StopInhibitor("worker")
    BY <2>3
    DEF StopInhibitor, StopFindsNone, StopFinds, StopTakes, StopForgets, StopTerminates,
        StopUnlinks, StopReturns
  <2>4. CASE TakeRequest \/ BeginAsleep
    BY <1>1, <2>4 DEF TakeRequest, BeginAsleep
  <2>5. CASE Drive("worker")
    BY <1>1, <2>5
    DEF Drive, LogCreated, MakeGroup, CreateFails, ApprovePlan, Acquire,
        AcquireRefused, Rebuild, EndRun, Leave
  <2> QED
    BY <1>2, <2>1, <2>2, <2>3, <2>4, <2>5, <2>6 DEF Worker
<1>3. CASE StopInhibitor("main")
  BY <1>3
  DEF StopInhibitor, StopFindsNone, StopFinds, StopTakes, StopForgets, StopTerminates,
      StopUnlinks, StopReturns
<1>4. CASE StopJoined \/ StopDaemon
  BY <1>4 DEF StopJoined, StopDaemon
<1>5. CASE ExitDaemon \/ CrashDaemon
  <2>1. Halt
    BY <1>5 DEF ExitDaemon, CrashDaemon
  <2>2. i \in inhibitors /\ i # pidfile /\ i \in {proc, mine["worker"], mine["main"]}
    BY <2>1 DEF Halt
  <2>3. daemon' = "down" /\ daemon # "down" /\ i # 0
    BY <1>5, <2>1, <2>2 DEF Halt, ExitDaemon, CrashDaemon
  <2>4. CASE at["main"] \in Reading
    BY <2>2, <2>3, <2>4
  <2>5. CASE at["main"] \in {"terminate", "unlink", "stopped"}
    BY <2>2, <2>3, <2>5
  <2> QED
    BY <1>5, <2>4, <2>5
<1>6. CASE Startup
  BY <1>6
  DEF Startup, StartDaemon, Reap, SelectJobs, Listening, ResumeUnfinished, SkipLeased
<1>7. CASE Drive("cli")
  BY <1>1, <1>7
  DEF Drive, LogCreated, MakeGroup, CreateFails, ApprovePlan, Acquire,
      AcquireRefused, Rebuild, EndRun, Leave
<1>8. CASE User
  <2>1. ASSUME NEW j \in Job, PostJob(j) \/ PostResume(j) \/ CliRun(j) \/ CliResume(j)
        PROVE  UNCHANGED <<awake, at["main"]>>
    BY <2>1 DEF PostJob, PostResume, CliRun, CliResume, CliStarts
  <2>2. CASE CrashCli
    BY <1>1, <2>2 DEF CrashCli
  <2> QED
    BY <1>1, <1>8, <2>1, <2>2 DEF User
<1>9. ASSUME NEW j \in Job, LeaseExpires(j) PROVE UNCHANGED <<awake, at["main"]>>
  BY <1>9 DEF LeaseExpires
<1> QED
  BY <1>1, <1>2, <1>3, <1>4, <1>5, <1>6, <1>7, <1>8, <1>9 DEF Next, Shutdown

StaysKnown == \A i \in Adrift' \ Adrift : Unwritten(i) \/ StopCut(i) \/ Overtaken

\* An inhibitor that runs stays on record, in the handle or in a thread's hands, but
\* for a death between spawn and write and for the stop that takes no lock: however
\* many daemons, crashes and requests, these are the only ways to lose one.
THEOREM AlwaysStaysKnown == Spec => InhibitorStaysKnown
<1>1. TypeOK /\ InhibitorInv /\ InhibitorInv' /\ [Next]_vars => [StaysKnown]_vars
  BY AdriftStep DEF StaysKnown
<1>2. Spec => [][StaysKnown]_vars
  BY <1>1, TypeCorrect, InhibitorInvariant, PTL DEF Spec
<1> QED
  BY <1>2 DEF StaysKnown, InhibitorStaysKnown

-----------------------------------------------------------------------------
(* Keeping awake: from the first phase after "begin" the worker's handle   *)
(* names a running inhibitor, until the request or the daemon ends.        *)

AwakeInv ==
  /\ at["main"] \in Reading /\ proc # 0 => proc \in inhibitors
  /\ daemon \in {"start", "scan", "up"} =>
       at["worker"] \in {"idle", "begin", "terminate", "unlink"} \/ proc # 0

\* Reaping never hits the inhibitor of the daemon that reaps, and only the end
\* of a request or of the service stops it.
LEMMA AwakeInvariant == Always => (Spec => []AwakeInv)
<1> SUFFICES ASSUME Always PROVE Spec => []AwakeInv
  OBVIOUS
<1>1. Init => AwakeInv
  BY DEF Init, AwakeInv, Driver, Thread
<1>2. TypeOK /\ InhibitorInv /\ AwakeInv /\ [Next]_vars => AwakeInv'
  <2> SUFFICES ASSUME TypeOK, InhibitorInv, AwakeInv, [Next]_vars PROVE AwakeInv'
    OBVIOUS
  <2> USE DEF TypeOK, DriverType, AwakeType, InhibitorInv, LocalInv, AloneInv, AwakeInv,
              Reading, awake, Go, Driver, Thread
  <2>1. ASSUME NEW d \in Driver, Drive(d) PROVE AwakeInv'
    BY <2>1
    DEF Drive, LogCreated, MakeGroup, CreateFails, ApprovePlan, Acquire,
        AcquireRefused, Rebuild, EndRun, Leave
  <2>2. ASSUME NEW t \in Thread, StopInhibitor(t) PROVE AwakeInv'
    BY <2>2
    DEF StopInhibitor, StopFindsNone, StopFinds, StopTakes, StopForgets, StopTerminates,
        StopUnlinks, StopReturns
  <2>3. CASE Worker
    <3>1. CASE TakeRequest \/ BeginAsleep
      BY <3>1 DEF TakeRequest, BeginAsleep, WantsAwake
    <3>2. CASE StartInhibitor
      BY <3>2 DEF StartInhibitor
    <3>3. CASE ReadPid \/ RecordInhibitor
      BY <3>3 DEF ReadPid, RecordInhibitor
    <3> QED
      BY <2>1, <2>2, <2>3, <3>1, <3>2, <3>3 DEF Worker
  <2>4. CASE Startup
    BY <2>4
    DEF Startup, StartDaemon, Reap, SelectJobs, Listening, ResumeUnfinished, SkipLeased
  <2>5. CASE StopDaemon \/ StopJoined \/ ExitDaemon \/ CrashDaemon
    BY <2>5 DEF StopDaemon, StopJoined, ExitDaemon, CrashDaemon, Halt
  <2>6. CASE User
    <3>1. ASSUME NEW j \in Job, PostJob(j) \/ PostResume(j) PROVE AwakeInv'
      BY <3>1 DEF PostJob, PostResume
    <3>2. ASSUME NEW j \in Job, NEW f \in {"create", "acquire"}, CliStarts(j, f)
          PROVE  AwakeInv'
      BY <3>2 DEF CliStarts
    <3>3. CASE CrashCli
      BY <3>3 DEF CrashCli
    <3> QED
      BY <2>6, <3>1, <3>2, <3>3 DEF User, CliRun, CliResume
  <2>7. ASSUME NEW j \in Job, LeaseExpires(j) PROVE AwakeInv'
    BY <2>7 DEF LeaseExpires
  <2>8. CASE UNCHANGED vars
    BY <2>8 DEF vars
  <2> QED
    BY <2>1, <2>2, <2>3, <2>4, <2>5, <2>6, <2>7, <2>8 DEF Next, Shutdown
<1> QED
  BY <1>1, <1>2, TypeCorrect, InhibitorInvariant, PTL DEF Spec

\* With keep_awake on, no job of a daemon in service runs while the machine
\* may sleep: crashes, resumes and a reaped inhibitor included.
THEOREM AlwaysAwakeAsAsked == Always => (Spec => []AwakeAsAsked)
<1>1. InhibitorInv /\ AwakeInv => AwakeAsAsked
  BY DEF InhibitorInv, LocalInv, Reading, AwakeInv, AwakeAsAsked
<1> QED
  BY <1>1, InhibitorInvariant, AwakeInvariant, PTL
=============================================================================
