------------------------------ MODULE JobLease ------------------------------
(***************************************************************************)
(* The job lease: lazycode/store/lease.py, and the discipline with which   *)
(* run_job uses it (orchestrator.py: acquire, _heartbeat, the release in   *)
(* "finally").  The wave loop between two heartbeats is the phase "work":  *)
(* every write of WaveLoop happens in it.                                  *)
(*                                                                         *)
(* Time is one discrete clock: the wall clock of lease.py and the          *)
(* monotonic clock of the throttle advance together.  A process reads      *)
(* "now" before it asks for the SQLite write lock, so each of acquire and  *)
(* renew is two steps, with others' transactions in between.               *)
(***************************************************************************)
EXTENDS Integers

CONSTANTS
  Process,   \* the orchestrators, by holder_id: an id dies with its process
  Nobody,    \* the holder_id of no lease row
  Ttl,       \* lease_ttl_s
  Throttle,  \* lease_ttl_s / 3
  LockWait,  \* longest wait for the write lock (SQLite busy_timeout)
  MaxWork,   \* longest time a process works between two heartbeat calls
  MaxTime    \* bound: the clock stops here

ASSUME LeaseAssumption ==
  /\ Nobody \notin Process
  /\ Ttl \in Nat
  /\ Throttle \in Nat
  /\ LockWait \in Nat
  /\ MaxWork \in Nat
  /\ MaxTime \in Nat

VARIABLES
  clock,
  holder,    \* leases.holder_id of the job's row, Nobody without a row
  expires,   \* leases.expires_at of that row
  phase,     \* where each process stands in run_job
  stamp,     \* the "now" it read before it asked for the write lock
  renewed,   \* _last_renew_monotonic
  since      \* when its last heartbeat call returned

row == <<holder, expires>>
vars == <<clock, row, phase, stamp, renewed, since>>

Init ==
  /\ clock = 0
  /\ holder = Nobody
  /\ expires = 0
  /\ phase = [p \in Process |-> "off"]
  /\ stamp = [p \in Process |-> 0]
  /\ renewed = [p \in Process |-> 0]
  /\ since = [p \in Process |-> 0]

\* p moves on to phase f.
Go(p, f) == phase' = [phase EXCEPT ![p] = f]

\* p reads the clock, then waits for BEGIN IMMEDIATE.
Ask(p, f) ==
  /\ Go(p, f)
  /\ stamp' = [stamp EXCEPT ![p] = clock]

\* Mutant: the ttl is taken off, not added.
Grant_Past(p) ==
  /\ holder' = p
  /\ expires' = stamp[p] - Ttl
  /\ Go(p, "work")
  /\ since' = [since EXCEPT ![p] = clock]

\* p's transaction commits: the row is p's until ttl_s after the "now" it read.
Grant(p) ==
  /\ holder' = p
  /\ expires' = stamp[p] + Ttl
  /\ Go(p, "work")
  /\ since' = [since EXCEPT ![p] = clock]

-----------------------------------------------------------------------------
(* lease.acquire                                                           *)

AskAcquire(p) ==
  /\ phase[p] = "off"
  /\ Ask(p, "acquire")
  /\ UNCHANGED <<clock, row, renewed, since>>

\* No row, p's own row, or a row that had expired at the "now" p read.
Free(p) == holder \in {Nobody, p} \/ expires <= stamp[p]

\* run_job takes its monotonic time after acquire has returned.
Acquire(p) ==
  /\ phase[p] = "acquire"
  /\ Free(p)
  /\ Grant(p)
  /\ renewed' = [renewed EXCEPT ![p] = clock]
  /\ UNCHANGED <<clock, stamp>>

\* LeaseAcquisitionError, outside the try: nothing to release.
AcquireRefused(p) ==
  /\ phase[p] = "acquire"
  /\ ~Free(p)
  /\ Go(p, "off")
  /\ UNCHANGED <<clock, row, stamp, renewed, since>>

-----------------------------------------------------------------------------
(* _heartbeat: force=True at the top of the loop and before results are    *)
(* written, throttled on every poll.                                       *)

\* Mutant: the throttle is the whole ttl, not a third of it.
Recent_Ttl(p) == clock < renewed[p] + Ttl

Recent(p) == clock < renewed[p] + Throttle

ThrottledHeartbeat(p) ==
  /\ phase[p] = "work"
  /\ Recent(p)
  /\ since' = [since EXCEPT ![p] = clock]
  /\ UNCHANGED <<clock, row, phase, stamp, renewed>>

\* A forced heartbeat, or one that is no longer throttled.
AskRenew(p) ==
  /\ phase[p] = "work"
  /\ Ask(p, "renew")
  /\ UNCHANGED <<clock, row, renewed, since>>

\* Mutant: a process that lost its lease takes it back.
MayRenew_Any(p) == TRUE

MayRenew(p) == holder = p

\* _heartbeat keeps the monotonic time it read before the renew.
Renew(p) ==
  /\ phase[p] = "renew"
  /\ MayRenew(p)
  /\ Grant(p)
  /\ renewed' = [renewed EXCEPT ![p] = stamp[p]]
  /\ UNCHANGED <<clock, stamp>>

\* LeaseLostError leaves run_job through its "finally".
LeaseLost(p) ==
  /\ phase[p] = "renew"
  /\ ~MayRenew(p)
  /\ Go(p, "release")
  /\ UNCHANGED <<clock, row, stamp, renewed, since>>

\* "database is locked": the write lock was not to be had within busy_timeout.
\* When that happens to the release, the row stays behind.
LockTimeout(p) ==
  /\ phase[p] \in {"acquire", "renew", "release"}
  /\ Go(p, IF phase[p] = "renew" THEN "release" ELSE "off")
  /\ UNCHANGED <<clock, row, stamp, renewed, since>>

-----------------------------------------------------------------------------
(* The end of run_job, and of the process.                                 *)

\* run_job returns, or an exception leaves it.
Finish(p) ==
  /\ phase[p] = "work"
  /\ Go(p, "release")
  /\ UNCHANGED <<clock, row, stamp, renewed, since>>

\* Mutant: the row is deleted by job_id alone.
OwnRow_Any(p) == TRUE

OwnRow(p) == holder = p

\* lease.release deletes the row only if it is still p's.
Release(p) ==
  /\ phase[p] = "release"
  /\ IF OwnRow(p) THEN holder' = Nobody /\ expires' = 0 ELSE UNCHANGED row
  /\ Go(p, "off")
  /\ UNCHANGED <<clock, stamp, renewed, since>>

\* kill -9 or a power loss: the row stays behind, and nobody uses the id again.
Crash(p) ==
  /\ phase[p] # "dead"
  /\ Go(p, "dead")
  /\ UNCHANGED <<clock, row, stamp, renewed, since>>

\* Time passes, but a wait for the lock and a stretch of work are bounded.
Tick ==
  /\ clock < MaxTime
  /\ \A p \in Process :
       /\ phase[p] \in {"acquire", "renew"} => clock < stamp[p] + LockWait
       /\ phase[p] = "work" => clock < since[p] + MaxWork
  /\ clock' = clock + 1
  /\ UNCHANGED <<row, phase, stamp, renewed, since>>

Step(p) ==
  \/ AskAcquire(p) \/ Acquire(p) \/ AcquireRefused(p)
  \/ ThrottledHeartbeat(p) \/ AskRenew(p) \/ Renew(p) \/ LeaseLost(p)
  \/ LockTimeout(p) \/ Finish(p) \/ Release(p) \/ Crash(p)

Next == Tick \/ \E p \in Process : Step(p)

Spec == Init /\ [][Next]_vars

-----------------------------------------------------------------------------
\* The lease row and each process hold what their fields can hold.
TypeOK ==
  /\ clock \in 0..MaxTime
  /\ holder \in Process \cup {Nobody}
  /\ expires \in Nat
  /\ phase \in [Process -> {"off", "acquire", "work", "renew", "release", "dead"}]
  /\ stamp \in [Process -> 0..MaxTime]
  /\ renewed \in [Process -> 0..MaxTime]
  /\ since \in [Process -> 0..MaxTime]

\* Single writer: no two processes advance the job at the same time.  It rests
\* on heartbeats that come often enough (see Timely).
OneWriter ==
  \A p, q \in Process : phase[p] = "work" /\ phase[q] = "work" => p = q

\* p's last heartbeat is recent enough for the lease, whatever the lock wait and
\* the throttle took of it.
OnTime(p) == clock + LockWait + Throttle < since[p] + Ttl

\* A process that works for less than Ttl - LockWait - Throttle since its last
\* heartbeat works under its own lease, in force: so two processes advance the
\* job at once only when one of them has missed its time.
LeaseInForce ==
  \A p \in Process : phase[p] = "work" /\ OnTime(p) => holder = p /\ clock < expires

\* What OneWriter needs of the configuration and of the code between two
\* heartbeats: lock wait, throttle and the longest stretch of work fit the ttl.
Timely == LockWait + Throttle + MaxWork < Ttl

\* However long a process works without a heartbeat: once its lease is gone,
\* its next heartbeat is not throttled, so it finds out and aborts.
LoserFindsOut ==
  \A p \in Process : phase[p] = "work" /\ holder # p => ~Recent(p)

\* An unexpired lease leaves its holder by the holder's own release only: not
\* by another's acquire, nor by the release of a process that had lost it.
LeaseIsKept ==
  [][holder # Nobody /\ clock < expires /\ phase[holder] # "release"
       => holder' = holder]_vars
=============================================================================
