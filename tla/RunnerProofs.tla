---------------------------- MODULE RunnerProofs ----------------------------
(***************************************************************************)
(* TLAPS proofs about Runner, for any number of databases, requests,       *)
(* deaths and changes: RunnerInv is inductive, and the safety properties   *)
(* of the runner follow from it.                                           *)
(***************************************************************************)
EXTENDS Runner, SequenceTheorems, FiniteSetTheorems, TLAPS

(* A listing of a set of databases is a sequence of exactly its elements. *)
LEMMA ListingsEnumerate ==
    ASSUME NEW S, S \subseteq Databases, NEW s \in SetToSeqs(S)
    PROVE  s \in Seq(Databases) /\ \A d \in S : \E i \in DOMAIN s : s[i] = d
<1> DEFINE n == Cardinality(S)
           D == 1..n
<1>1. IsFiniteSet(S) /\ n \in Nat
  BY RunnerAssumption, FS_Subset, FS_CardinalityType
<1>2. s \in [D -> S] /\ \A i, j \in D : i # j => s[i] # s[j]
  BY DEF SetToSeqs
<1>3. s \in Seq(Databases)
  <2>1. s \in [1..n -> Databases]
    BY <1>2
  <2> HIDE DEF n
  <2> QED
    BY <1>1, <2>1, SeqDef
<1>4. s \in Injection(D, S)
  BY <1>2 DEF Injection, IsInjective
<1>5. Cardinality(D) = n
  BY <1>1, FS_Interval
<1>6. s \in Surjection(D, S)
  <2> HIDE DEF D
  <2> QED
    BY <1>1, <1>4, <1>5, FS_Injection
<1>7. \A d \in S : \E i \in D : s[i] = d
  BY <1>6 DEF Surjection
<1> QED
  BY <1>2, <1>3, <1>7

-----------------------------------------------------------------------------
(* Types. *)

(* Starting and stopping processes keeps the type of proc. *)
LEMMA ProcTypes ==
    ASSUME TypeOK, NEW ps
    PROVE  /\ Run(ps) \in [Processes -> {"none", "running", "dead"}]
           /\ Stopped(ps) \in [Processes -> {"none", "running", "dead"}]
           /\ \A p \in Processes :
                /\ Run(ps)[p] = IF p \in ps THEN "running" ELSE proc[p]
                /\ Stopped(ps)[p] = IF p \in ps THEN "none" ELSE proc[p]
BY DEF TypeOK, Run, Stopped

(* The rest of a list of databases. *)
LEMMA TodoTypes ==
    ASSUME TypeOK, todo # <<>>
    PROVE  /\ Head(todo) \in Databases /\ Tail(todo) \in Seq(Databases)
           /\ \A i \in DOMAIN todo :
                todo[i] = Head(todo) \/ \E j \in DOMAIN Tail(todo) : Tail(todo)[j] = todo[i]
<1>1. todo \in Seq(Databases)
  BY DEF TypeOK
<1>2. Head(todo) \in Databases /\ Tail(todo) \in Seq(Databases)
  BY <1>1
<1>3. ASSUME NEW i \in DOMAIN todo
      PROVE  todo[i] = Head(todo) \/ \E j \in DOMAIN Tail(todo) : Tail(todo)[j] = todo[i]
  <2>1. CASE i = 1
    BY <1>1, <2>1
  <2>2. CASE i # 1
    <3>1. i - 1 \in DOMAIN Tail(todo) /\ Tail(todo)[i - 1] = todo[i]
      BY <1>1, <2>2
    <3> QED
      BY <3>1
  <2> QED
    BY <2>1, <2>2
<1> QED
  BY <1>2, <1>3

LEMMA InitRunnerInv == Init => RunnerInv
<1> SUFFICES ASSUME Init PROVE RunnerInv
  OBVIOUS
<1>1. TypeOK
  <2>1. todo \in Seq(Databases) /\ listed \in Seq(Databases)
    BY DEF Init
  <2>2. /\ proc \in [Processes -> {"none", "running", "dead"}]
        /\ \A d \in Databases \ runners : proc[d] = "none"
    BY DEF Init, Processes
  <2>3. /\ req \in [Requests -> {"idle", "arrived", "waiting", "answered"}]
        /\ owed \in [Requests -> SUBSET Databases]
    BY DEF Init
  <2> QED
    BY <2>1, <2>2, <2>3 DEF Init, TypeOK
<1>2. LaunchInv /\ RestartInv /\ StopInv
  BY DEF Init, LaunchInv, RestartInv, StopInv, Unfinished
<1> QED
  BY <1>1, <1>2 DEF RunnerInv

LEMMA TypeOKStep == TypeOK /\ [Next]_vars => TypeOK'
<1> SUFFICES ASSUME TypeOK, [Next]_vars PROVE TypeOK'
  OBVIOUS
<1> USE DEF Ended
<1>1. CASE RelayRecoveryRaises
  BY <1>1 DEF TypeOK, RelayRecoveryRaises, http, flags
<1>2. CASE StartHelpers
  <2>1. listed' \in Seq(Databases) /\ todo' = listed'
    BY <1>2, ListingsEnumerate DEF StartHelpers, Listings, TypeOK
  <2>2. \A d \in Databases \ runners : Run(Helpers)[d] = "none"
    BY ProcTypes, RunnerAssumption DEF TypeOK, Processes
  <2>3. Run(Helpers) \in [Processes -> {"none", "running", "dead"}]
    BY ProcTypes
  <2> QED
    BY <1>2, <2>1, <2>2, <2>3 DEF TypeOK, StartHelpers, http, flags
<1>3. CASE RunFinished
  <2>1. Head(todo) \in Databases /\ Tail(todo) \in Seq(Databases)
    BY <1>3, TodoTypes DEF RunFinished
  <2>2. CASE status[Head(todo)] = "realtime"
    <3>1. \A d \in Databases \ runners' : Run({Head(todo)})[d] = "none"
      BY <1>3, <2>2, ProcTypes DEF RunFinished, StartRunner, TypeOK, Processes
    <3>2. Run({Head(todo)}) \in [Processes -> {"none", "running", "dead"}]
      BY ProcTypes
    <3>3. runners' = runners \cup {Head(todo)} /\ proc' = Run({Head(todo)})
      BY <1>3, <2>2 DEF RunFinished, StartRunner
    <3>4. /\ runners' \subseteq Databases
          /\ proc' \in [Processes -> {"none", "running", "dead"}]
          /\ \A d \in Databases \ runners' : proc'[d] = "none"
      BY <2>1, <3>1, <3>2, <3>3 DEF TypeOK
    <3> QED
      BY <1>3, <2>1, <2>2, <3>4 DEF TypeOK, RunFinished, http, flags
  <2>3. CASE status[Head(todo)] # "realtime"
    BY <1>3, <2>1, <2>3 DEF TypeOK, RunFinished, http, flags
  <2> QED
    BY <2>2, <2>3
<1>4. CASE FirstLoopEnds
  BY <1>4 DEF TypeOK, FirstLoopEnds, http, flags
<1>5. CASE RunOther
  <2>1. Head(todo) \in Databases /\ Tail(todo) \in Seq(Databases) /\ todo # <<>>
    BY <1>5, TodoTypes DEF RunOther
  <2>2. CASE Head(todo) \notin runners
    <3>1. \A d \in Databases \ runners' : Run({Head(todo)})[d] = "none"
      BY <1>5, <2>2, ProcTypes DEF RunOther, StartRunner, TypeOK, Processes
    <3>2. Run({Head(todo)}) \in [Processes -> {"none", "running", "dead"}]
      BY ProcTypes
    <3>3. runners' = runners \cup {Head(todo)} /\ proc' = Run({Head(todo)})
      BY <1>5, <2>2 DEF RunOther, StartRunner
    <3>4. /\ runners' \subseteq Databases
          /\ proc' \in [Processes -> {"none", "running", "dead"}]
          /\ \A d \in Databases \ runners' : proc'[d] = "none"
      BY <2>1, <3>1, <3>2, <3>3 DEF TypeOK
    <3> QED
      BY <1>5, <2>1, <2>2, <3>4 DEF TypeOK, RunOther, http, flags
  <2>3. CASE Head(todo) \in runners
    BY <1>5, <2>1, <2>3 DEF TypeOK, RunOther, http, flags
  <2> QED
    BY <2>2, <2>3
<1>6. CASE WaitForInitial
  <2>1. Tail(todo) \in Seq(Databases)
    BY <1>6, TodoTypes DEF WaitForInitial, TypeOK
  <2>2. /\ Revived(runners) \in [Processes -> {"none", "running", "dead"}]
        /\ \A d \in Databases \ runners : Revived(runners)[d] = "none"
    BY ProcTypes, RunnerAssumption DEF Revived, TypeOK, Processes
  <2> QED
    BY <1>6, <2>1, <2>2 DEF TypeOK, WaitForInitial, http, flags
<1>7. CASE SecondLoopEnds
  BY <1>7 DEF TypeOK, SecondLoopEnds, http, flags
<1>8. CASE RestartBegins
  <2>1. todo' \in Seq(Databases)
    BY <1>8, ListingsEnumerate DEF RestartBegins, TypeOK
  <2> QED
    BY <1>8, <2>1 DEF TypeOK, RestartBegins, http, flags
<1>9. CASE StopForRestart
  <2>1. Head(todo) \in Databases /\ Tail(todo) \in Seq(Databases)
    BY <1>9, TodoTypes DEF StopForRestart
  <2>2. /\ proc' \in [Processes -> {"none", "running", "dead"}]
        /\ \A d \in Databases \ runners : proc'[d] = "none"
    BY <1>9, ProcTypes DEF StopForRestart, TypeOK, Processes
  <2>3. owed' \in [Requests -> SUBSET Databases]
    BY <1>9 DEF StopForRestart, RestartedFromNothing, TypeOK
  <2> QED
    BY <1>9, <2>1, <2>2, <2>3 DEF TypeOK, StopForRestart, flags
<1>10. CASE StartAgain \/ RestartDone \/ RestartDeadProcesses
  <2>1. /\ Revived(runners) \in [Processes -> {"none", "running", "dead"}]
        /\ \A d \in Databases \ runners : Revived(runners)[d] = "none"
    BY ProcTypes, RunnerAssumption DEF Revived, TypeOK, Processes
  <2> QED
    BY <1>10, <2>1 DEF TypeOK, StartAgain, RestartDone, RestartDeadProcesses, http, flags
<1>11. CASE RunCreated
  <2>1. listed' \in Seq(Databases)
    BY <1>11, ListingsEnumerate DEF RunCreated, Listings, TypeOK
  <2>2. /\ proc' \in [Processes -> {"none", "running", "dead"}]
        /\ \A d \in Databases \ runners' : proc'[d] = "none"
    BY <1>11, RunnerAssumption DEF RunCreated, TypeOK, Processes
  <2> QED
    BY <1>11, <2>1, <2>2 DEF TypeOK, RunCreated, http, flags
<1>12. CASE NoneRemoved
  BY <1>12 DEF TypeOK, NoneRemoved, http, flags
<1>13. CASE RemoveRaises
  <2>1. PICK d \in Removed : proc' = Stopped({d}) /\ runners' = runners \ {d}
    BY <1>13 DEF RemoveRaises
  <2>2. /\ proc' \in [Processes -> {"none", "running", "dead"}]
        /\ \A e \in Databases \ runners' : proc'[e] = "none"
    BY <2>1, ProcTypes DEF TypeOK, Processes
  <2> QED
    BY <1>13, <2>1, <2>2 DEF TypeOK, RemoveRaises, http, flags
<1>14. CASE StopAll
  <2>1. /\ proc' \in [Processes -> {"none", "running", "dead"}]
        /\ \A d \in Databases \ runners : proc'[d] = "none"
    BY <1>14, ProcTypes DEF StopAll, TypeOK, Processes
  <2> QED
    BY <1>14, <2>1 DEF TypeOK, StopAll, http, flags
<1>15. CASE JoinServer
  BY <1>15 DEF TypeOK, JoinServer, http, flags
<1>16. CASE \E r \in Requests : RequestArrives(r) \/ Request(r)
  BY <1>16 DEF TypeOK, RequestArrives, Request, RequestAsks, RequestAnswered, flags
<1>17. CASE Signal \/ \E d \in Databases : DatabaseChanges(d) \/ InitialReplicationFinishes(d)
  BY <1>17 DEF TypeOK, Signal, DatabaseChanges, InitialReplicationFinishes, http, flags
<1>18. CASE \E p \in Processes : ProcessDies(p)
  <2>1. PICK p \in Processes : ProcessDies(p)
    BY <1>18
  <2> QED
    BY <2>1 DEF TypeOK, ProcessDies, http, flags
<1>19. CASE UNCHANGED vars
  BY <1>19 DEF TypeOK, vars, http, flags
<1> QED
  BY <1>1, <1>2, <1>3, <1>4, <1>5, <1>6, <1>7, <1>8, <1>9, <1>10, <1>11, <1>12, <1>13,
     <1>14, <1>15, <1>16, <1>17, <1>18, <1>19 DEF Next, Main, Launch, MainLoop

-----------------------------------------------------------------------------
(* The launch. *)

LEMMA LaunchInvStep == TypeOK /\ LaunchInv /\ [Next]_vars => LaunchInv'
<1> SUFFICES ASSUME TypeOK, LaunchInv, [Next]_vars PROVE LaunchInv'
  OBVIOUS
<1> USE DEF Ended
<1>1. CASE StartHelpers
  BY <1>1 DEF LaunchInv, Unfinished, StartHelpers
<1>2. CASE RunFinished
  <2>1. pc = "first" /\ pc' = "first" /\ UNCHANGED status
    BY <1>2 DEF RunFinished
  <2>2. runners' = runners \/ (runners' = runners \cup {Head(todo)} /\ status[Head(todo)] = "realtime")
    BY <1>2 DEF RunFinished, StartRunner
  <2>3. Unfinished = {} => Unfinished' = {}
    BY <2>1, <2>2 DEF Unfinished
  <2> QED
    BY <2>1, <2>3 DEF LaunchInv
<1>3. CASE FirstLoopEnds
  BY <1>3 DEF LaunchInv, Unfinished, FirstLoopEnds
<1>4. CASE RunOther
  <2>1. pc = "second" /\ ~killed /\ UNCHANGED status /\ pc' \in {"second", "waiting"}
    BY <1>4 DEF RunOther
  <2>2. WaitInitialReplication => Unfinished = {}
    BY <2>1 DEF LaunchInv
  <2>3. CASE Head(todo) \in runners
    BY <1>4, <2>1, <2>2, <2>3 DEF LaunchInv, Unfinished, RunOther
  <2>4. CASE Head(todo) \notin runners
    <3>1. runners' = runners \cup {Head(todo)}
      BY <1>4, <2>4 DEF RunOther, StartRunner
    <3>2. WaitInitialReplication => pc' = "waiting" /\ todo' = todo
      BY <1>4, <2>4 DEF RunOther
    <3>3. WaitInitialReplication => Unfinished' \subseteq {Head(todo)'}
      BY <2>1, <2>2, <3>1, <3>2 DEF Unfinished
    <3> QED
      BY <2>1, <3>2, <3>3 DEF LaunchInv
  <2> QED
    BY <2>3, <2>4
<1>5. CASE WaitForInitial
  <2>1. pc = "waiting" /\ UNCHANGED <<runners, status, killed>>
    BY <1>5 DEF WaitForInitial
  <2>2. Unfinished' = Unfinished
    BY <2>1 DEF Unfinished
  <2>3. Head(todo) \in Databases
    BY <2>1, TodoTypes DEF TypeOK
  <2>4. WaitInitialReplication => Unfinished \subseteq {Head(todo)}
    BY <2>1 DEF LaunchInv
  <2>5. CASE pc' = "second" /\ status[Head(todo)] = "realtime"
    <3>1. WaitInitialReplication => Unfinished = {}
      BY <2>4, <2>5 DEF Unfinished
    <3> QED
      BY <2>2, <2>5, <3>1 DEF LaunchInv
  <2>6. CASE pc' = "second" /\ killed
    BY <2>1, <2>2, <2>3, <2>4, <2>6 DEF LaunchInv
  <2>7. CASE pc' = "waiting" /\ todo' = todo
    BY <2>2, <2>4, <2>7 DEF LaunchInv
  <2> QED
    BY <1>5, <2>1, <2>5, <2>6, <2>7 DEF WaitForInitial
<1>6. CASE Signal
  BY <1>6 DEF LaunchInv, Unfinished, Signal
<1>7. CASE \E d \in Databases : InitialReplicationFinishes(d)
  <2>1. PICK d \in Databases : InitialReplicationFinishes(d)
    BY <1>7
  <2>2. /\ UNCHANGED <<pc, todo, runners, killed>>
        /\ status' = [status EXCEPT ![d] = "realtime"]
    BY <2>1 DEF InitialReplicationFinishes
  <2>3. Unfinished' \subseteq Unfinished
    BY <2>2 DEF Unfinished, TypeOK
  <2> QED
    BY <2>2, <2>3 DEF LaunchInv
<1>8. CASE \/ \E d \in Databases : DatabaseChanges(d)
           \/ \E p \in Processes : ProcessDies(p)
           \/ \E r \in Requests : RequestArrives(r) \/ Request(r)
           \/ UNCHANGED vars
  <2>1. UNCHANGED <<pc, todo, runners, killed, status>>
    BY <1>8 DEF DatabaseChanges, ProcessDies, RequestArrives, Request, RequestAsks,
       RequestAnswered, vars
  <2> QED
    BY <2>1 DEF LaunchInv, Unfinished
<1>9. CASE RelayRecoveryRaises \/ SecondLoopEnds \/ MainLoop \/ RunCreated
  <2>1. pc' \notin {"start", "first", "second", "waiting"}
    BY <1>9 DEF RelayRecoveryRaises, SecondLoopEnds, MainLoop, RunCreated, RestartBegins,
       StopForRestart, StartAgain, RestartDone, RestartDeadProcesses, NoneRemoved,
       RemoveRaises, StopAll, JoinServer
  <2> QED
    BY <2>1 DEF LaunchInv
<1> QED
  BY <1>1, <1>2, <1>3, <1>4, <1>5, <1>6, <1>7, <1>8, <1>9 DEF Next, Main, Launch

-----------------------------------------------------------------------------
(* Restart requests. *)

LEMMA RestartInvStep == TypeOK /\ RestartInv /\ [Next]_vars => RestartInv'
<1> SUFFICES ASSUME TypeOK, RestartInv, [Next]_vars, NEW r \in Requests
             PROVE  /\ pc' # "crashed" => owed'[r] \subseteq runners'
                    /\ pc' = "restarting" =>
                         \A d \in owed'[r] : \E i \in DOMAIN todo' : todo'[i] = d
                    /\ \/ pc' = "restarted" \/ replication_restarted' \/ req'[r] = "answered"
                       => owed'[r] = {}
  BY DEF RestartInv
<1> USE DEF Ended
<1>1. /\ pc # "crashed" => owed[r] \subseteq runners
      /\ pc = "restarting" => \A d \in owed[r] : \E i \in DOMAIN todo : todo[i] = d
      /\ \/ pc = "restarted" \/ replication_restarted \/ req[r] = "answered"
         => owed[r] = {}
  BY DEF RestartInv
<1>2. CASE \E q \in Requests : RequestArrives(q)
  <2>1. PICK q \in Requests : RequestArrives(q)
    BY <1>2
  <2>2. /\ UNCHANGED <<pc, todo, runners>> /\ replication_restarted' = FALSE
        /\ req' = [req EXCEPT ![q] = "arrived"]
        /\ owed' = [owed EXCEPT ![q] =
                      IF pc \in {"restarting", "restarted"} THEN {} ELSE runners]
    BY <2>1 DEF RequestArrives
  <2>3. CASE q = r
    <3>1. /\ req'[r] = "arrived"
          /\ owed'[r] = IF pc \in {"restarting", "restarted"} THEN {} ELSE runners
      BY <2>2, <2>3 DEF TypeOK
    <3> QED
      BY <2>2, <3>1
  <2>4. CASE q # r
    <3>1. req'[r] = req[r] /\ owed'[r] = owed[r]
      BY <2>2, <2>4 DEF TypeOK
    <3> QED
      BY <1>1, <2>2, <3>1
  <2> QED
    BY <2>3, <2>4
<1>3. CASE \E q \in Requests : Request(q)
  <2>1. PICK q \in Requests : RequestAsks(q) \/ RequestAnswered(q)
    BY <1>3 DEF Request
  <2>2. UNCHANGED <<pc, todo, runners, owed, replication_restarted>>
    BY <2>1 DEF RequestAsks, RequestAnswered, flags
  <2>3. req'[r] = "answered" => req[r] = "answered" \/ replication_restarted
    BY <2>1 DEF RequestAsks, RequestAnswered, TypeOK
  <2> QED
    BY <1>1, <2>2, <2>3
<1>4. CASE RestartBegins
  <2>1. /\ pc = "loop" /\ pc' = "restarting" /\ UNCHANGED <<runners, http>>
        /\ todo' \in SetToSeqs(runners)
    BY <1>4 DEF RestartBegins
  <2>2. \A d \in runners : \E i \in DOMAIN todo' : todo'[i] = d
    BY <2>1, ListingsEnumerate DEF TypeOK
  <2> QED
    BY <1>1, <2>1, <2>2 DEF http, flags
<1>5. CASE StopForRestart
  <2>1. /\ pc = "restarting" /\ todo # <<>> /\ todo' = Tail(todo)
        /\ UNCHANGED <<pc, runners, flags, req>>
        /\ status' = [status EXCEPT ![Head(todo)] = "none"]
        /\ RestartedFromNothing(Head(todo))
    BY <1>5 DEF StopForRestart
  <2>2. /\ Head(todo) \in Databases
        /\ \A i \in DOMAIN todo :
             todo[i] = Head(todo) \/ \E j \in DOMAIN Tail(todo) : Tail(todo)[j] = todo[i]
    BY <2>1, TodoTypes
  <2>3. status'[Head(todo)] = "none"
    BY <2>1, <2>2 DEF TypeOK
  <2>4. owed'[r] = owed[r] \ {Head(todo)}
    BY <2>1, <2>3 DEF RestartedFromNothing
  <2> QED
    BY <1>1, <2>1, <2>2, <2>4 DEF flags
<1>6. CASE StartAgain
  <2>1. /\ pc = "restarting" /\ todo = <<>> /\ pc' = "restarted"
        /\ UNCHANGED <<runners, replication_restarted, req, owed>>
    BY <1>6 DEF StartAgain
  <2>2. owed[r] = {}
    BY <1>1, <2>1
  <2> QED
    BY <2>1, <2>2
<1>7. CASE RestartDone
  BY <1>1, <1>7 DEF RestartDone
<1>8. CASE RemoveRaises
  BY <1>1, <1>8 DEF RemoveRaises, http, flags
<1>9. CASE RunFinished \/ RunOther \/ RunCreated
  BY <1>1, <1>9 DEF RunFinished, RunOther, StartRunner, RunCreated, http, flags
<1>10. CASE \/ RelayRecoveryRaises \/ StartHelpers \/ FirstLoopEnds \/ WaitForInitial
            \/ SecondLoopEnds \/ RestartDeadProcesses \/ NoneRemoved \/ StopAll \/ JoinServer
  BY <1>1, <1>10 DEF RelayRecoveryRaises, StartHelpers, FirstLoopEnds, WaitForInitial,
     SecondLoopEnds, RestartDeadProcesses, NoneRemoved, StopAll, JoinServer, http, flags
<1>11. CASE \/ Signal \/ UNCHANGED vars \/ \E p \in Processes : ProcessDies(p)
            \/ \E d \in Databases : DatabaseChanges(d) \/ InitialReplicationFinishes(d)
  <2>1. UNCHANGED <<pc, todo, runners, http>>
    BY <1>11 DEF Signal, vars, ProcessDies, DatabaseChanges, InitialReplicationFinishes
  <2> QED
    BY <1>1, <2>1 DEF http, flags
<1> QED
  BY <1>2, <1>3, <1>4, <1>5, <1>6, <1>7, <1>8, <1>9, <1>10, <1>11
     DEF Next, Main, Launch, MainLoop

-----------------------------------------------------------------------------
(* The end. *)

LEMMA StopInvStep == TypeOK /\ StopInv /\ [Next]_vars => StopInv'
<1> SUFFICES ASSUME TypeOK, StopInv, [Next]_vars, pc' \in {"joining", "stopped"},
                    NEW p \in Processes
             PROVE  proc'[p] # "running"
  BY DEF StopInv
<1>1. CASE StopAll
  <2>1. proc'[p] = IF p \in runners \cup Helpers THEN "none" ELSE proc[p]
    BY <1>1, ProcTypes DEF StopAll
  <2> QED
    BY <2>1 DEF TypeOK, Processes
<1>2. CASE \E q \in Processes : ProcessDies(q)
  BY <1>2 DEF ProcessDies, StopInv, TypeOK
<1>3. CASE ~StopAll /\ ~\E q \in Processes : ProcessDies(q)
  <2>1. pc \in {"joining", "stopped"} /\ UNCHANGED proc
    BY <1>3 DEF Next, Main, Launch, MainLoop, RelayRecoveryRaises, StartHelpers, RunFinished,
       FirstLoopEnds, RunOther, WaitForInitial, SecondLoopEnds, RestartBegins,
       StopForRestart, StartAgain, RestartDone, RestartDeadProcesses, NoneRemoved,
       RemoveRaises, JoinServer, RunCreated, Signal, RequestArrives, Request, RequestAsks,
       RequestAnswered, DatabaseChanges, InitialReplicationFinishes, vars
  <2> QED
    BY <2>1 DEF StopInv
<1> QED
  BY <1>1, <1>2, <1>3

-----------------------------------------------------------------------------
LEMMA RunnerInvStep == RunnerInv /\ [Next]_vars => RunnerInv'
BY TypeOKStep, LaunchInvStep, RestartInvStep, StopInvStep DEF RunnerInv

(* The runner's variables keep their types; in particular only a database   *)
(* in runners has a process.                                                *)
THEOREM RunnerTypeCorrect == Spec => []TypeOK
<1>1. RunnerInv => TypeOK
  BY DEF RunnerInv
<1> QED
  BY <1>1, InitRunnerInv, RunnerInvStep, PTL DEF Spec

(* With wait_initial_replication, however many databases there are and      *)
(* whatever dies and is revived meanwhile, run() never copies two of them   *)
(* at the same time while it launches them.                                 *)
THEOREM InitialReplicationsAreSerial == Spec => []OneInitialAtATime
<1>1. RunnerInv => OneInitialAtATime
  <2> SUFFICES ASSUME RunnerInv, WaitInitialReplication, pc \in {"first", "second", "waiting"}
               PROVE  Cardinality({d \in Databases : proc[d] = "running" /\ status[d] # "realtime"}) <= 1
    BY DEF OneInitialAtATime
  <2> DEFINE S == {d \in Databases : proc[d] = "running" /\ status[d] # "realtime"}
  <2>1. S \subseteq Unfinished
    BY DEF RunnerInv, TypeOK, Unfinished
  <2>2. \E d : Unfinished \subseteq {d}
    BY DEF RunnerInv, LaunchInv
  <2>3. PICK d : S \subseteq {d}
    BY <2>1, <2>2
  <2> HIDE DEF S
  <2>4. Cardinality(S) <= Cardinality({d})
    BY <2>3, FS_Singleton, FS_Subset
  <2>5. Cardinality({d}) = 1
    BY FS_Singleton
  <2> QED
    BY <2>4, <2>5 DEF S
<1> QED
  BY <1>1, InitRunnerInv, RunnerInvStep, PTL DEF Spec

(* restart_replication answers no request early, although its two flags are *)
(* shared by any number of server threads and the main thread without a     *)
(* lock.                                                                    *)
THEOREM RequestsAnsweredAfterRestart == Spec => []AnsweredAfterRestart
<1>1. RunnerInv => AnsweredAfterRestart
  BY DEF RunnerInv, RestartInv, AnsweredAfterRestart
<1> QED
  BY <1>1, InitRunnerInv, RunnerInvStep, PTL DEF Spec

(* A runner that stops on a signal has stopped every process it started. *)
THEOREM StoppedLeavesNoOrphans == Spec => []NoOrphans
<1>1. RunnerInv => NoOrphans
  BY DEF RunnerInv, StopInv, NoOrphans
<1> QED
  BY <1>1, InitRunnerInv, RunnerInvStep, PTL DEF Spec

=============================================================================
