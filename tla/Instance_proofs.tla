--------------------------- MODULE Instance_proofs ---------------------------
(* Instance: type correctness, and that an established daemon stands, for   *)
(* any number of daemons, clients, crashes and inhibitors.                  *)
EXTENDS Instance, TLAPS

\* Only a daemon that serves, or is about to stop, has to do with its inhibitor.
ActInv ==
  \A p \in Daemons : act[p] # "idle" => at[p] \in {"listening", "half", "up", "stopping"}

\* Nobody is late unless a daemon is established; who is late reads its files.
LateInv ==
  /\ ~Established => late = {}
  /\ \A p \in late :
       /\ p # first
       /\ at[p] \in Asking \cup {"dead", "handed"}
       /\ at[p] \in {"alive", "probe"} => seen[p] = first

\* From its server's start to its last file, "first" has the place to itself.
FirstInv ==
  first # None =>
    /\ at[first] \in {"listening", "half", "up"}
    /\ at[first] # "listening" => pidfile = first
    /\ at[first] = "up" => portfile = first
    /\ \A p \in Process \ {first} :
         \/ at[p] \in Settled
         \/ at[first] = "up" /\ at[p] \in Asking /\ p \in late
    /\ act[first] \in {"spawned", "held"} => first \in running
    /\ act[first] = "held" => inhfile = first

IInv == TypeOK /\ ActInv /\ LateInv /\ FirstInv

USE DEF Process, Phase, Asking, Settled, Starting

LEMMA InitIInv == Init => IInv
BY ProcessAssumption DEF Init, IInv, TypeOK, ActInv, LateInv, FirstInv, Established

LEMMA CheckIInv ==
  ASSUME IInv, NEW p \in Process, Check(p)
  PROVE  IInv'
<1> USE ProcessAssumption DEF IInv, TypeOK, ActInv, LateInv, FirstInv, Established,
                              files, inhibitor, history
<1>1. CASE Begin(p)  BY <1>1 DEF Begin, Go
<1>2. CASE ReadPid(p)  BY <1>2 DEF ReadPid, Passed
<1>3. CASE CheckAlive(p)  BY <1>3 DEF CheckAlive, Passed, Alive
<1>4. CASE ReadPort(p)  BY <1>4 DEF ReadPort, Passed
<1>5. CASE ProbeAnswered(p)  BY <1>5 DEF ProbeAnswered, Go
<1>6. CASE ProbeFailed(p)  BY <1>6 DEF ProbeFailed, Go, Serving
<1> QED  BY <1>1, <1>2, <1>3, <1>4, <1>5, <1>6 DEF Check

LEMMA RunIInv ==
  ASSUME IInv, NEW p \in Daemons, Run(p)
  PROVE  IInv'
<1> USE ProcessAssumption DEF IInv, TypeOK, ActInv, LateInv, FirstInv, Established,
                              files, inhibitor, history
<1>1. CASE Crash(p)  BY <1>1 DEF Crash, Falls
<1>2. CASE ClearPid(p)  BY <1>2 DEF ClearPid, Go
<1>3. CASE ClearPort(p)  BY <1>3 DEF ClearPort, Go
<1>4. CASE Reap(p)  BY <1>4 DEF Reap, Go
<1>5. CASE ForgetInhibitor(p)  BY <1>5 DEF ForgetInhibitor, Go
<1>6. CASE OpenFails(p)  BY <1>6 DEF OpenFails, Go
<1>7. CASE Listen(p)  BY <1>7 DEF Listen, Go, Alone
<1>8. CASE WritePid(p)  BY <1>8 DEF WritePid, Go
<1>9. CASE WritePort(p)  BY <1>9 DEF WritePort, Go
<1>10. CASE Stop(p)  BY <1>10 DEF Stop, Go, Falls
<1>11. CASE Stopped(p)  BY <1>11 DEF Stopped, Go
<1>12. CASE Recycle(p)  BY <1>12 DEF Recycle
<1>13. CASE SpawnInhibitor(p)  BY <1>13 DEF SpawnInhibitor, Does, Serving
<1>14. CASE RecordInhibitor(p)  BY <1>14 DEF RecordInhibitor, Does
<1>15. CASE Terminate(p)  BY <1>15 DEF Terminate, Does
<1>16. CASE RemoveRecord(p)  BY <1>16 DEF RemoveRecord, Does
<1> QED  BY <1>1, <1>2, <1>3, <1>4, <1>5, <1>6, <1>7, <1>8, <1>9, <1>10, <1>11, <1>12,
            <1>13, <1>14, <1>15, <1>16 DEF Run

LEMMA StutterIInv ==
  ASSUME IInv, UNCHANGED vars
  PROVE  IInv'
BY DEF vars, files, inhibitor, history, IInv, TypeOK, ActInv, LateInv, FirstInv, Established

LEMMA AlwaysIInv == Spec => []IInv
<1>1. Init => IInv  BY InitIInv
<1>2. IInv /\ [Next]_vars => IInv'
  BY CheckIInv, RunIInv, StutterIInv DEF Next
<1> QED  BY <1>1, <1>2, PTL DEF Spec

\* The state of the daemons, their files and their inhibitors has its types; a
\* client never gets past its check.
THEOREM AlwaysTypeOK == Spec => []TypeOK
<1>1. IInv => TypeOK  BY DEF IInv
<1> QED  BY <1>1, AlwaysIInv, PTL

\* A daemon that came up alone keeps the repository until it stops or dies.
THEOREM AlwaysEstablishedStands == Spec => []EstablishedStands
<1>1. IInv => EstablishedStands
  BY DEF IInv, LateInv, FirstInv, EstablishedStands, Established
<1> QED  BY <1>1, AlwaysIInv, PTL

=============================================================================
