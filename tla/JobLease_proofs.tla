--------------------------- MODULE JobLease_proofs ---------------------------
(***************************************************************************)
(* What JobLease promises for every set of processes and every timing.     *)
(***************************************************************************)
EXTENDS JobLease, TLAPS

\* lease.py and _heartbeat keep the row and each process's view of it typed.
THEOREM TypeCorrect == Spec => []TypeOK
<1> USE LeaseAssumption
<1>1. Init => TypeOK
  BY DEF Init, TypeOK
<1>2. TypeOK /\ [Next]_vars => TypeOK'
  <2> SUFFICES ASSUME TypeOK, [Next]_vars PROVE TypeOK'
    OBVIOUS
  <2> USE DEF TypeOK
  <2>1. CASE Tick
    BY <2>1 DEF Tick, row
  <2>2. ASSUME NEW p \in Process, Step(p) PROVE TypeOK'
    <3>1. CASE AskAcquire(p)
      BY <3>1 DEF AskAcquire, Ask, Go, row
    <3>2. CASE Acquire(p)
      BY <3>2 DEF Acquire, Grant, Go
    <3>3. CASE AcquireRefused(p) \/ LeaseLost(p) \/ LockTimeout(p) \/ Finish(p) \/ Crash(p)
      BY <3>3 DEF AcquireRefused, LeaseLost, LockTimeout, Finish, Crash, Go, row
    <3>4. CASE ThrottledHeartbeat(p)
      BY <3>4 DEF ThrottledHeartbeat, row
    <3>5. CASE AskRenew(p)
      BY <3>5 DEF AskRenew, Ask, Go, row
    <3>6. CASE Renew(p)
      BY <3>6 DEF Renew, Grant, Go
    <3>7. CASE Release(p)
      BY <3>7 DEF Release, Go, row
    <3> QED
      BY <2>2, <3>1, <3>2, <3>3, <3>4, <3>5, <3>6, <3>7 DEF Step
  <2>3. CASE UNCHANGED vars
    BY <2>3 DEF vars, row
  <2> QED
    BY <2>1, <2>2, <2>3 DEF Next
<1> QED
  BY <1>1, <1>2, PTL DEF Spec

-----------------------------------------------------------------------------
(* The invariant both arguments about time rest on: a process waits no     *)
(* longer than LockWait for the lock, and the row of a process at work     *)
(* runs out no earlier than Ttl - LockWait after its last renewal.         *)

Waiting(p) ==
  phase[p] \in {"acquire", "renew"} => stamp[p] <= clock /\ clock <= stamp[p] + LockWait

Holding(p) ==
  phase[p] = "work" /\ holder = p => renewed[p] + Ttl <= expires + LockWait

\* A process that lost its lease has not renewed it for a whole throttle.
Lost(p) ==
  phase[p] = "work" /\ holder # p => renewed[p] + Throttle <= clock

LeaseInv == \A p \in Process : Waiting(p) /\ Holding(p) /\ (LockWait + Throttle <= Ttl => Lost(p))

\* LeaseInv holds in every reachable state: the steps of acquire, renew and
\* release, and the passing of time, preserve it.
LEMMA LeaseInvariant == Spec => []LeaseInv
<1> USE LeaseAssumption
<1> USE DEF TypeOK, LeaseInv, Waiting, Holding, Lost
<1>1. Init => LeaseInv
  BY DEF Init
<1>2. TypeOK /\ LeaseInv /\ [Next]_vars => LeaseInv'
  <2> SUFFICES ASSUME TypeOK, LeaseInv, [Next]_vars PROVE LeaseInv'
    OBVIOUS
  <2>1. CASE Tick
    BY <2>1 DEF Tick, row
  <2>2. ASSUME NEW p \in Process, Step(p) PROVE LeaseInv'
    <3>1. CASE AskAcquire(p)
      BY <3>1 DEF AskAcquire, Ask, Go, row
    <3>2. CASE Acquire(p)
      BY <3>2 DEF Acquire, Free, Grant, Go
    <3>3. CASE AcquireRefused(p) \/ LeaseLost(p) \/ LockTimeout(p) \/ Finish(p) \/ Crash(p)
      BY <3>3 DEF AcquireRefused, LeaseLost, LockTimeout, Finish, Crash, Go, row
    <3>4. CASE ThrottledHeartbeat(p)
      BY <3>4 DEF ThrottledHeartbeat, row
    <3>5. CASE AskRenew(p)
      BY <3>5 DEF AskRenew, Ask, Go, row
    <3>6. CASE Renew(p)
      BY <3>6 DEF Renew, MayRenew, Grant, Go
    <3>7. CASE Release(p)
      BY <3>7 DEF Release, OwnRow, Go, row
    <3> QED
      BY <2>2, <3>1, <3>2, <3>3, <3>4, <3>5, <3>6, <3>7 DEF Step
  <2>3. CASE UNCHANGED vars
    BY <2>3 DEF vars, row
  <2> QED
    BY <2>1, <2>2, <2>3 DEF Next
<1> QED
  BY <1>1, <1>2, TypeCorrect, PTL DEF Spec

\* _heartbeat's promise (orchestrator.py:307): whatever a process does between
\* two heartbeats, a lease that is gone is noticed at the next one, because a
\* throttle plus a lock wait fit the ttl.
THEOREM LoserAlwaysFindsOut == LockWait + Throttle <= Ttl => (Spec => []LoserFindsOut)
<1> SUFFICES ASSUME LockWait + Throttle <= Ttl PROVE Spec => []LoserFindsOut
  OBVIOUS
<1>1. TypeOK /\ LeaseInv => LoserFindsOut
  BY LeaseAssumption DEF TypeOK, LeaseInv, Lost, LoserFindsOut, Recent
<1> QED
  BY <1>1, TypeCorrect, LeaseInvariant, PTL

\* acquire and release: no other process ends a lease that has not run out.
THEOREM LeaseIsAlwaysKept == Spec => LeaseIsKept
<1> DEFINE Kept == holder # Nobody /\ clock < expires /\ phase[holder] # "release"
                     => holder' = holder
<1>1. TypeOK /\ LeaseInv /\ [Next]_vars => [Kept]_vars
  <2> SUFFICES ASSUME TypeOK, LeaseInv, Next PROVE Kept
    BY DEF vars
  <2> USE LeaseAssumption DEF TypeOK, LeaseInv, Waiting
  <2>1. CASE Tick
    BY <2>1 DEF Tick, row
  <2>2. ASSUME NEW p \in Process, Step(p) PROVE Kept
    <3>1. CASE Acquire(p)
      BY <3>1 DEF Acquire, Free, Grant
    <3>2. CASE Renew(p)
      BY <3>2 DEF Renew, MayRenew, Grant
    <3>3. CASE Release(p)
      BY <3>3 DEF Release, OwnRow, row
    <3>4. CASE UNCHANGED row
      BY <3>4 DEF row
    <3> QED
      BY <2>2, <3>1, <3>2, <3>3, <3>4
      DEF Step, AskAcquire, AcquireRefused, ThrottledHeartbeat, AskRenew, LeaseLost,
          LockTimeout, Finish, Crash
  <2> QED
    BY <2>1, <2>2 DEF Next
<1> QED
  BY <1>1, TypeCorrect, LeaseInvariant, PTL DEF Spec, LeaseIsKept

-----------------------------------------------------------------------------
(* The lease covers what a process does on time.                           *)

\* A process at work that is on time holds a row that outlasts its time.
Covered(p) ==
  phase[p] = "work" =>
    /\ since[p] <= clock
    /\ clock <= since[p] + MaxWork
    /\ OnTime(p) => holder = p /\ since[p] + Ttl <= expires + LockWait + Throttle

CoverInv == \A p \in Process : Covered(p)

\* Acquire and renew cover the stretch that follows; a throttled heartbeat
\* leaves enough of the ttl for the next one; another's acquire comes only to
\* one who is late, and who then finds out before it is on time again.
LEMMA CoverInvariant == Spec => []CoverInv
<1> USE LeaseAssumption
<1>1. Init => CoverInv
  BY DEF Init, CoverInv, Covered
<1>2. TypeOK /\ LeaseInv /\ CoverInv /\ [Next]_vars => CoverInv'
  <2> SUFFICES ASSUME TypeOK, LeaseInv, CoverInv, [Next]_vars PROVE CoverInv'
    OBVIOUS
  <2> USE DEF TypeOK, LeaseInv, Waiting, Holding, Lost, CoverInv, Covered, OnTime
  <2>1. CASE Tick
    BY <2>1 DEF Tick, row
  <2>2. ASSUME NEW p \in Process, Step(p) PROVE CoverInv'
    <3>1. CASE AskAcquire(p)
      BY <3>1 DEF AskAcquire, Ask, Go, row
    <3>2. CASE Acquire(p)
      BY <3>2 DEF Acquire, Free, Grant, Go
    <3>3. CASE AcquireRefused(p) \/ LeaseLost(p) \/ LockTimeout(p) \/ Finish(p) \/ Crash(p)
      BY <3>3 DEF AcquireRefused, LeaseLost, LockTimeout, Finish, Crash, Go, row
    <3>4. CASE ThrottledHeartbeat(p)
      BY <3>4 DEF ThrottledHeartbeat, Recent, row
    <3>5. CASE AskRenew(p)
      BY <3>5 DEF AskRenew, Ask, Go, row
    <3>6. CASE Renew(p)
      BY <3>6 DEF Renew, MayRenew, Grant, Go
    <3>7. CASE Release(p)
      BY <3>7 DEF Release, OwnRow, Go, row
    <3> QED
      BY <2>2, <3>1, <3>2, <3>3, <3>4, <3>5, <3>6, <3>7 DEF Step
  <2>3. CASE UNCHANGED vars
    BY <2>3 DEF vars, row
  <2> QED
    BY <2>1, <2>2, <2>3 DEF Next
<1> QED
  BY <1>1, <1>2, TypeCorrect, LeaseInvariant, PTL DEF Spec

\* A process works only under its own, unexpired lease (DESIGN.md 7.1), as long
\* as it is on time, however late the others are.
THEOREM LeaseAlwaysInForce == Spec => []LeaseInForce
<1>1. TypeOK /\ CoverInv => LeaseInForce
  BY LeaseAssumption DEF TypeOK, CoverInv, Covered, OnTime, LeaseInForce
<1> QED
  BY <1>1, TypeCorrect, CoverInvariant, PTL

\* Single writer, if the longest stretch without a heartbeat is shorter than
\* ttl - throttle - lock wait: then every process is always on time.
THEOREM TimelyOneWriter == Timely => (Spec => []OneWriter)
<1> SUFFICES ASSUME Timely PROVE Spec => []OneWriter
  OBVIOUS
<1>1. TypeOK /\ CoverInv /\ LeaseInForce => OneWriter
  <2>1. ASSUME TypeOK, CoverInv, NEW p \in Process, phase[p] = "work" PROVE OnTime(p)
    BY <2>1, LeaseAssumption DEF Timely, TypeOK, CoverInv, Covered, OnTime
  <2> QED
    BY <2>1 DEF LeaseInForce, OneWriter
<1> QED
  BY <1>1, TypeCorrect, CoverInvariant, LeaseAlwaysInForce, PTL
=============================================================================
