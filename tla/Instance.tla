------------------------------ MODULE Instance ------------------------------
(***************************************************************************)
(* Which process is the daemon of a repository: the pid and port files of  *)
(* lazycode/cli/daemon.py, the startup and shutdown of run_daemon around   *)
(* them, the check a "lazycode run" makes (lazycode/cli/client.py), and    *)
(* the sleep inhibitor a daemon leaves behind when it dies.  Nothing locks *)
(* the files: daemons that start together overlap.  What a daemon does for *)
(* its jobs is module Daemon.                                              *)
(***************************************************************************)
EXTENDS Naturals

CONSTANTS
  Daemons,   \* pids of the "lazycode daemon" processes; also their ports and
             \* the pids of their inhibitors, which the OS hands out as well
  Clients,   \* pids of "lazycode run", "resume" and "status" processes
  None,      \* no file, or one that does not hold a number
  MaxSpawns, \* bound: inhibitors started
  MaxCrashes \* bound: daemons that crash

Process == Daemons \cup Clients

ASSUME ProcessAssumption ==
  /\ Daemons \cap Clients = {}
  /\ None \notin Process
  /\ MaxSpawns \in Nat /\ MaxCrashes \in Nat

VARIABLES
  at,        \* where each process stands
  seen,      \* what it last read: the pid, then the port
  pidfile,   \* daemon.pid
  portfile,  \* daemon.port
  recycled,  \* pids of dead daemons that belong to another program now
  running,   \* inhibitors that run
  act,       \* how far Inhibitor.start or stop got, per daemon
  inhfile,   \* inhibitor.pid
  spawns,
  first,     \* the daemon that began to serve while nobody else was on the way
  crashes,
  late       \* processes that began their check once it was up

files == <<pidfile, portfile>>
inhibitor == <<running, act, inhfile, spawns>>
history == <<first, late>>
vars == <<at, seen, files, recycled, inhibitor, crashes, history>>

Init ==
  /\ at = [p \in Process |-> "out"]
  /\ seen = [p \in Process |-> None]
  /\ pidfile = None
  /\ portfile = None
  /\ recycled = {}
  /\ running = {}
  /\ act = [p \in Daemons |-> "idle"]
  /\ inhfile = None
  /\ spawns = 0
  /\ crashes = 0
  /\ first = None
  /\ late = {}

\* Process p goes from one phase to the next.
Go(p, from, to) == at[p] = from /\ at' = [at EXCEPT ![p] = to]

\* Between Daemon.start and the shutdown of its server a daemon answers /health.
Serving == {p \in Daemons : at[p] \in {"listening", "half", "up"}}

\* os.kill(pid, 0) succeeds.
Alive(p) == at[p] \notin {"out", "dead"} \/ p \in recycled

-----------------------------------------------------------------------------
(* check_existing: the pid file, the process, the port file.               *)

\* A daemon is up that nobody started together with.
Established == first # None /\ at[first] = "up"

Begin(p) ==
  /\ Go(p, "out", "check")
  /\ IF Established THEN late' = late \cup {p} /\ UNCHANGED first
                    ELSE first' = None /\ UNCHANGED late
  /\ UNCHANGED <<seen, files, recycled, crashes, inhibitor>>

\* Nothing there, or stale: a daemon starts up, a client works in-process.
Passed(p) == IF p \in Daemons THEN "reap" ELSE "inprocess"

ReadPid(p) ==
  /\ at[p] = "check"
  /\ seen' = [seen EXCEPT ![p] = pidfile]
  /\ at' = [at EXCEPT ![p] = IF pidfile = None THEN Passed(p) ELSE "alive"]
  /\ UNCHANGED <<files, recycled, crashes, inhibitor, history>>

CheckAlive(p) ==
  /\ at[p] = "alive"
  /\ at' = [at EXCEPT ![p] = IF Alive(seen[p]) THEN "port" ELSE Passed(p)]
  /\ UNCHANGED <<seen, files, recycled, crashes, inhibitor, history>>

ReadPort(p) ==
  /\ at[p] = "port"
  /\ seen' = [seen EXCEPT ![p] = portfile]
  /\ at' = [at EXCEPT ![p] = IF portfile = None THEN Passed(p) ELSE "probe"]
  /\ UNCHANGED <<files, recycled, crashes, inhibitor, history>>

\* Mutant: the daemon that is refused goes through the "finally" of run_daemon.
ProbeAnswered_Clears(p) ==
  /\ Go(p, "probe", IF p \in Daemons THEN "endpid" ELSE "handed")
  /\ seen[p] \in Serving
  /\ UNCHANGED <<seen, files, recycled, crashes, inhibitor, history>>

\* /health answers: DaemonAlreadyRunningError, or the client hands its job over.
ProbeAnswered(p) ==
  /\ Go(p, "probe", IF p \in Daemons THEN "dead" ELSE "handed")
  /\ seen[p] \in Serving
  /\ UNCHANGED <<seen, files, recycled, crashes, inhibitor, history>>

\* Mutant: a client clears the stale files as well.
ProbeFailed_Clears(p) ==
  /\ Go(p, "probe", "clearpid")
  /\ seen[p] \notin Serving
  /\ UNCHANGED <<seen, files, recycled, crashes, inhibitor, history>>

\* It does not: the files are stale, whatever the pid says.
ProbeFailed(p) ==
  /\ Go(p, "probe", IF p \in Daemons THEN "clearpid" ELSE "inprocess")
  /\ seen[p] \notin Serving
  /\ UNCHANGED <<seen, files, recycled, crashes, inhibitor, history>>

Check(p) ==
  \/ Begin(p) \/ ReadPid(p) \/ CheckAlive(p) \/ ReadPort(p)
  \/ ProbeAnswered(p) \/ ProbeFailed(p)

-----------------------------------------------------------------------------
(* run_daemon.                                                             *)

\* _clear_pidfiles, of a stale record and at the end.
ClearPid(p) ==
  /\ \/ Go(p, "clearpid", "clearport")
     \/ Go(p, "endpid", "endport")
  /\ pidfile' = None
  /\ UNCHANGED <<seen, portfile, recycled, crashes, inhibitor, history>>

ClearPort(p) ==
  /\ \/ Go(p, "clearport", "reap")
     \/ Go(p, "endport", "dead")
  /\ portfile' = None
  /\ UNCHANGED <<seen, pidfile, recycled, crashes, inhibitor, history>>

\* reap_stale_inhibitor: a recorded inhibitor that runs is killed ...
Reap(p) ==
  /\ Go(p, "reap", "reaped")
  /\ running' = running \ {inhfile}
  /\ UNCHANGED <<seen, files, recycled, crashes, act, inhfile, spawns, history>>

\* ... and its record removed.
ForgetInhibitor(p) ==
  /\ Go(p, "reaped", "open")
  /\ inhfile' = None
  /\ UNCHANGED <<seen, files, recycled, crashes, running, act, spawns, history>>

\* No API key, no fixture, a store that does not open.
OpenFails(p) ==
  /\ Go(p, "open", "dead")
  /\ UNCHANGED <<seen, files, recycled, crashes, inhibitor, history>>

Alone(p) == \A q \in Process \ {p} : at[q] \in {"out", "dead", "handed", "inprocess"}

\* Daemon.start: the server listens before the pid file is written.
Listen(p) ==
  /\ Go(p, "open", "listening")
  /\ first' = IF Alone(p) THEN p ELSE first
  /\ UNCHANGED <<seen, files, recycled, crashes, inhibitor, late>>

\* _write_pidfiles.
WritePid(p) ==
  /\ Go(p, "listening", "half")
  /\ pidfile' = p
  /\ UNCHANGED <<seen, portfile, recycled, crashes, inhibitor, history>>

WritePort(p) ==
  /\ Go(p, "half", "up")
  /\ portfile' = p
  /\ UNCHANGED <<seen, pidfile, recycled, crashes, inhibitor, history>>

Falls(p) == IF first = p THEN first' = None /\ late' = {} ELSE UNCHANGED history

\* Daemon.stop, then the end of run_daemon: its files, whoever wrote them.
Stop(p) ==
  /\ Go(p, "up", "stopping")
  /\ Falls(p)
  /\ UNCHANGED <<seen, files, recycled, crashes, inhibitor>>

Stopped(p) ==
  /\ act[p] = "idle"
  /\ Go(p, "stopping", "endpid")
  /\ UNCHANGED <<seen, files, recycled, crashes, inhibitor, history>>

\* kill -9, at any point.  Its files and its inhibitor stay.
Crash(p) ==
  /\ at[p] \notin {"out", "dead"}
  /\ crashes < MaxCrashes
  /\ crashes' = crashes + 1
  /\ at' = [at EXCEPT ![p] = "dead"]
  /\ act' = [act EXCEPT ![p] = "idle"]
  /\ Falls(p)
  /\ UNCHANGED <<seen, files, recycled, running, inhfile, spawns>>

\* The OS gives the pid of a dead daemon to another program.
Recycle(p) ==
  /\ at[p] = "dead"
  /\ p \notin recycled
  /\ recycled' = recycled \cup {p}
  /\ UNCHANGED <<at, seen, files, crashes, inhibitor, history>>

-----------------------------------------------------------------------------
(* The inhibitor of a daemon (Inhibitor.start and stop).                   *)

Does(p, from, to) == act[p] = from /\ act' = [act EXCEPT ![p] = to]

\* The worker thread runs as soon as the server does.
SpawnInhibitor(p) ==
  /\ p \in Serving
  /\ Does(p, "idle", "spawned")
  /\ spawns < MaxSpawns
  /\ spawns' = spawns + 1
  /\ running' = running \cup {p}
  /\ UNCHANGED <<at, seen, files, recycled, crashes, inhfile, history>>

RecordInhibitor(p) ==
  /\ Does(p, "spawned", "held")
  /\ inhfile' = p
  /\ UNCHANGED <<at, seen, files, recycled, crashes, running, spawns, history>>

Terminate(p) ==
  /\ Does(p, "held", "terminated")
  /\ running' = running \ {p}
  /\ UNCHANGED <<at, seen, files, recycled, crashes, inhfile, spawns, history>>

\* Whatever is recorded there by now.
RemoveRecord(p) ==
  /\ Does(p, "terminated", "idle")
  /\ inhfile' = None
  /\ UNCHANGED <<at, seen, files, recycled, crashes, running, spawns, history>>

-----------------------------------------------------------------------------
Run(p) ==
  \/ Crash(p) \/ ClearPid(p) \/ ClearPort(p) \/ Reap(p) \/ ForgetInhibitor(p) \/ OpenFails(p)
  \/ Listen(p) \/ WritePid(p) \/ WritePort(p) \/ Stop(p) \/ Stopped(p) \/ Recycle(p)
  \/ SpawnInhibitor(p) \/ RecordInhibitor(p) \/ Terminate(p) \/ RemoveRecord(p)

Next ==
  \/ \E p \in Process : Check(p)
  \/ \E p \in Daemons : Run(p)

Spec == Init /\ [][Next]_vars

-----------------------------------------------------------------------------
(* Properties.                                                             *)

Asking == {"check", "alive", "port", "probe"}
Settled == {"out", "dead", "handed", "inprocess"}
Starting == {"clearpid", "clearport", "reap", "reaped", "open"}
Phase == Asking \cup Settled \cup Starting \cup
         {"listening", "half", "up", "stopping", "endpid", "endport"}

\* Types; a client never gets past its check, a daemon never hands its job over.
TypeOK ==
  /\ at \in [Process -> Phase]
  /\ seen \in [Process -> Daemons \cup {None}]
  /\ pidfile \in Daemons \cup {None}
  /\ portfile \in Daemons \cup {None}
  /\ recycled \subseteq Daemons
  /\ running \subseteq Daemons
  /\ act \in [Daemons -> {"idle", "spawned", "held", "terminated"}]
  /\ inhfile \in Daemons \cup {None}
  /\ spawns \in 0..MaxSpawns
  /\ crashes \in 0..MaxCrashes
  /\ first \in Daemons \cup {None}
  /\ late \subseteq Process
  /\ \A p \in Clients : at[p] \in Asking \cup Settled

\* A daemon that came up alone is not dislodged, whatever dead pids the OS
\* recycles: the files name it, every daemon started later is refused before it
\* touches anything, every client started later hands its job over, and its
\* inhibitor is neither reaped nor forgotten (run_daemon, get_client).
EstablishedStands ==
  Established =>
    /\ pidfile = first /\ portfile = first
    /\ \A p \in Process \ {first} : at[p] \in Asking \cup Settled
    /\ \A p \in late : at[p] # "inprocess"
    /\ act[first] \in {"spawned", "held"} => first \in running
    /\ act[first] = "held" => inhfile = first

=============================================================================
