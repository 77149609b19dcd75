------------------------------- MODULE Runner -------------------------------
(***************************************************************************)
(* The runner (run_all): it starts the binlog replicator, the optimizer    *)
(* and a db_replicator per database, at first only those that have         *)
(* finished their initial replication and then the others one by one;      *)
(* starts dead processes again; follows the databases that MySQL creates   *)
(* and drops; and restarts the replication when the HTTP API asks for it,  *)
(* from the threads of the HTTP server.  RelayRecovery, which it runs      *)
(* first, is a module of its own; here it returns or raises.               *)
(***************************************************************************)
EXTENDS Integers, Sequences, FiniteSets, SequencesExt

CONSTANTS
    Databases,               \* the databases that may exist and that the settings match
    WaitInitialReplication,  \* wait_initial_replication
    MaxRequests,             \* bound: requests to the HTTP API
    MaxDeaths,               \* bound: processes that die
    MaxChanges               \* bound: databases created or dropped

Helpers == {"binlog_replicator", "db_optimizer"}
Processes == Databases \cup Helpers
Requests == 1..MaxRequests   \* numbered as they arrive

ASSUME RunnerAssumption ==
    /\ IsFiniteSet(Databases) /\ Databases \cap Helpers = {}
    /\ WaitInitialReplication \in BOOLEAN
    /\ MaxRequests \in Nat /\ MaxDeaths \in Nat /\ MaxChanges \in Nat

VARIABLES
    mysqlDbs,    \* the databases in MySQL
    status,      \* the status in each state.pckl
    pc,          \* where the main thread is
    todo,        \* the databases the current loop has still to visit
    listed,      \* databases, as run or check_databases_updated read them
    runners,     \* the keys of the dictionary of runners
    proc,        \* the process of each ProcessRunner
    killed,      \* killer.kill_now
    need_restart_replication, replication_restarted,
    req,         \* where each request is
    deaths, changes,
    owed         \* history: the databases a request waits to see restarted

flags == <<need_restart_replication, replication_restarted>>
http == <<flags, req, owed>>
vars == <<mysqlDbs, status, pc, todo, listed, runners, proc, killed, http, deaths, changes>>

Ended == {"stopped", "crashed"}

TypeOK ==
    /\ mysqlDbs \subseteq Databases /\ runners \subseteq Databases
    /\ status \in [Databases -> {"none", "realtime"}]
    /\ pc \in {"start", "first", "second", "waiting", "loop", "restarting", "restarted",
               "remove", "joining"} \cup Ended
    /\ todo \in Seq(Databases) /\ listed \in Seq(Databases)
    /\ pc = "waiting" => todo # <<>>
    /\ proc \in [Processes -> {"none", "running", "dead"}]
    /\ \A d \in Databases \ runners : proc[d] = "none"
    /\ killed \in BOOLEAN /\ need_restart_replication \in BOOLEAN
    /\ replication_restarted \in BOOLEAN
    /\ req \in [Requests -> {"idle", "arrived", "waiting", "answered"}]
    /\ owed \in [Requests -> SUBSET Databases]

(* What SHOW DATABASES returns, in whatever order. *)
Listings == SetToSeqs(mysqlDbs)

Init ==
    /\ mysqlDbs \in SUBSET Databases
    /\ status \in [Databases -> {"none", "realtime"}]
    /\ pc = "start"
    /\ todo = <<>> /\ listed = <<>>
    /\ runners = {}
    /\ proc = [p \in Processes |-> "none"]
    /\ killed = FALSE
    /\ need_restart_replication = FALSE /\ replication_restarted = FALSE
    /\ req = [r \in Requests |-> "idle"]
    /\ deaths = 0 /\ changes = 0
    /\ owed = [r \in Requests |-> {}]

-----------------------------------------------------------------------------
(* The environment. *)

(* MySQL (external). *)
DatabaseChanges(d) ==
    /\ changes < MaxChanges /\ pc \notin Ended /\ ~killed
    /\ changes' = changes + 1
    /\ mysqlDbs' = IF d \in mysqlDbs THEN mysqlDbs \ {d} ELSE mysqlDbs \cup {d}
    /\ UNCHANGED <<status, pc, todo, listed, runners, proc, killed, http, deaths>>

ProcessDies(p) ==
    /\ proc[p] = "running" /\ deaths < MaxDeaths /\ pc \notin Ended /\ ~killed
    /\ deaths' = deaths + 1
    /\ proc' = [proc EXCEPT ![p] = "dead"]
    /\ UNCHANGED <<mysqlDbs, status, pc, todo, listed, runners, killed, http, changes>>

Signal ==
    /\ ~killed /\ pc \notin Ended
    /\ killed' = TRUE
    /\ UNCHANGED <<mysqlDbs, status, pc, todo, listed, runners, proc, http, deaths, changes>>

(* The initial replication ends (InitialReplication): it cannot without    *)
(* the database.                                                           *)
InitialReplicationFinishes(d) ==
    /\ proc[d] = "running" /\ status[d] = "none" /\ d \in mysqlDbs
    /\ status' = [status EXCEPT ![d] = "realtime"]
    /\ UNCHANGED <<mysqlDbs, pc, todo, listed, runners, proc, killed, http, deaths, changes>>

-----------------------------------------------------------------------------
(* restart_replication, in a thread of the HTTP server.  owed leaves out a *)
(* request that arrives in the middle of a restart: that restart answers   *)
(* it.                                                                     *)

InFlight(r) == req[r] \in {"arrived", "waiting"}

RequestArrives(r) ==
    /\ req[r] = "idle" /\ \A q \in 1..(r - 1) : req[q] # "idle"
    /\ pc \notin {"start", "joining"} \cup Ended
    /\ replication_restarted' = FALSE
    /\ req' = [req EXCEPT ![r] = "arrived"]
    /\ owed' = [owed EXCEPT ![r] = IF pc \in {"restarting", "restarted"} THEN {} ELSE runners]
    /\ UNCHANGED <<mysqlDbs, status, pc, todo, listed, runners, proc, killed,
                   need_restart_replication, deaths, changes>>

RequestAsks(r) ==
    /\ req[r] = "arrived" /\ pc \notin Ended
    /\ need_restart_replication' = TRUE
    /\ req' = [req EXCEPT ![r] = "waiting"]
    /\ UNCHANGED <<mysqlDbs, status, pc, todo, listed, runners, proc, killed,
                   replication_restarted, owed, deaths, changes>>

RequestAnswered(r) ==
    /\ req[r] = "waiting" /\ replication_restarted /\ pc \notin Ended
    /\ req' = [req EXCEPT ![r] = "answered"]
    /\ UNCHANGED <<mysqlDbs, status, pc, todo, listed, runners, proc, killed, flags, owed,
                   deaths, changes>>

-----------------------------------------------------------------------------
(* ProcessRunner. *)

Run(ps) == [p \in Processes |-> IF p \in ps THEN "running" ELSE proc[p]]
Stopped(ps) == [p \in Processes |-> IF p \in ps THEN "none" ELSE proc[p]]

(* restart_dead_processes, with rs the keys of runners. *)
Revived(rs) == Run(rs \cup Helpers)

-----------------------------------------------------------------------------
(* Runner.run. *)

RelayRecoveryRaises ==
    /\ pc = "start"
    /\ pc' = "crashed"
    /\ UNCHANGED <<mysqlDbs, status, todo, listed, runners, proc, killed, http, deaths, changes>>

StartHelpers ==
    /\ pc = "start"
    /\ pc' = "first"
    /\ listed' \in Listings /\ todo' = listed'
    /\ proc' = Run(Helpers)
    /\ UNCHANGED <<mysqlDbs, status, runners, killed, http, deaths, changes>>

StartRunner(d) ==
    /\ runners' = runners \cup {d}
    /\ proc' = Run({d})

(* The first loop: databases that have finished their initial replication. *)
RunFinished ==
    /\ pc = "first" /\ todo # <<>> /\ ~killed
    /\ todo' = Tail(todo)
    /\ IF status[Head(todo)] = "realtime" THEN StartRunner(Head(todo))
       ELSE UNCHANGED <<runners, proc>>
    /\ UNCHANGED <<mysqlDbs, status, pc, listed, killed, http, deaths, changes>>

FirstLoopEnds ==
    /\ pc = "first" /\ (todo = <<>> \/ killed)
    /\ pc' = "second"
    /\ todo' = listed
    /\ UNCHANGED <<mysqlDbs, status, listed, runners, proc, killed, http, deaths, changes>>

(* Mutated form: the wait is skipped. *)
RunOtherAtOnce ==
    /\ pc = "second" /\ todo # <<>> /\ ~killed
    /\ todo' = Tail(todo)
    /\ IF Head(todo) \in runners THEN UNCHANGED <<runners, proc>> ELSE StartRunner(Head(todo))
    /\ UNCHANGED <<mysqlDbs, status, pc, listed, killed, http, deaths, changes>>

(* The second loop: the others, and the wait for each of them. *)
RunOther ==
    /\ pc = "second" /\ todo # <<>> /\ ~killed
    /\ IF Head(todo) \in runners
       THEN todo' = Tail(todo) /\ UNCHANGED <<pc, runners, proc>>
       ELSE /\ StartRunner(Head(todo))
            /\ IF WaitInitialReplication THEN pc' = "waiting" /\ UNCHANGED todo
               ELSE todo' = Tail(todo) /\ UNCHANGED pc
    /\ UNCHANGED <<mysqlDbs, status, listed, killed, http, deaths, changes>>

(* Mutated form: dead processes are not started while the runner waits. *)
WaitForInitialOnly ==
    /\ pc = "waiting"
    /\ status[Head(todo)] = "realtime" \/ killed
    /\ pc' = "second" /\ todo' = Tail(todo)
    /\ UNCHANGED <<mysqlDbs, status, listed, runners, proc, killed, http, deaths, changes>>

(* Mutated form: the wait ignores the signal. *)
WaitForInitialKilled ==
    /\ pc = "waiting"
    /\ IF status[Head(todo)] = "realtime"
       THEN pc' = "second" /\ todo' = Tail(todo) /\ UNCHANGED proc
       ELSE proc' = Revived(runners) /\ UNCHANGED <<pc, todo>>
    /\ UNCHANGED <<mysqlDbs, status, listed, runners, killed, http, deaths, changes>>

WaitForInitial ==
    /\ pc = "waiting"
    /\ IF status[Head(todo)] = "realtime" \/ killed
       THEN pc' = "second" /\ todo' = Tail(todo) /\ UNCHANGED proc
       ELSE proc' = Revived(runners) /\ UNCHANGED <<pc, todo>>
    /\ UNCHANGED <<mysqlDbs, status, listed, runners, killed, http, deaths, changes>>

SecondLoopEnds ==
    /\ pc = "second" /\ (todo = <<>> \/ killed)
    /\ pc' = "loop" /\ todo' = <<>> /\ listed' = <<>>
    /\ UNCHANGED <<mysqlDbs, status, runners, proc, killed, http, deaths, changes>>

(* The main loop: restart_replication_if_required ... *)
RestartBegins ==
    /\ pc = "loop" /\ ~killed /\ need_restart_replication
    /\ pc' = "restarting"
    /\ todo' \in SetToSeqs(runners)
    /\ UNCHANGED <<mysqlDbs, status, listed, runners, proc, killed, http, deaths, changes>>

RestartedFromNothing(d) ==
    owed' = [r \in Requests |-> IF status'[d] = "none" THEN owed[r] \ {d} ELSE owed[r]]

(* Mutated form: state.pckl is removed before the process is stopped, which *)
(* saves it again.                                                         *)
StopForRestartTooLate ==
    /\ pc = "restarting" /\ todo # <<>>
    /\ todo' = Tail(todo)
    /\ proc' = Stopped({Head(todo)})
    /\ status' = [status EXCEPT ![Head(todo)] = IF proc[Head(todo)] = "running" THEN @ ELSE "none"]
    /\ RestartedFromNothing(Head(todo))
    /\ UNCHANGED <<mysqlDbs, pc, listed, runners, killed, flags, req, deaths, changes>>

StopForRestart ==
    /\ pc = "restarting" /\ todo # <<>>
    /\ todo' = Tail(todo)
    /\ proc' = Stopped({Head(todo)})
    /\ status' = [status EXCEPT ![Head(todo)] = "none"]
    /\ RestartedFromNothing(Head(todo))
    /\ UNCHANGED <<mysqlDbs, pc, listed, runners, killed, flags, req, deaths, changes>>

StartAgain ==
    /\ pc = "restarting" /\ todo = <<>>
    /\ pc' = "restarted"
    /\ proc' = Revived(runners)
    /\ need_restart_replication' = FALSE
    /\ UNCHANGED <<mysqlDbs, status, todo, listed, runners, killed, replication_restarted, req,
                   owed, deaths, changes>>

(* Mutated form: the end of the restart is not announced. *)
RestartSilent ==
    /\ pc = "restarted"
    /\ pc' = "loop"
    /\ proc' = Revived(runners)
    /\ UNCHANGED <<mysqlDbs, status, todo, listed, runners, killed, http, deaths, changes>>

(* The end of the restart, and restart_dead_processes. *)
RestartDone ==
    /\ pc = "restarted"
    /\ pc' = "loop"
    /\ replication_restarted' = TRUE
    /\ proc' = Revived(runners)
    /\ UNCHANGED <<mysqlDbs, status, todo, listed, runners, killed, req, owed,
                   need_restart_replication, deaths, changes>>

(* ... restart_dead_processes ... *)
RestartDeadProcesses ==
    /\ pc = "loop" /\ ~killed /\ ~need_restart_replication
    /\ proc' = Revived(runners)
    /\ UNCHANGED <<mysqlDbs, status, pc, todo, listed, runners, killed, http, deaths, changes>>

(* ... and, if the interval has passed, check_databases_updated, after     *)
(* restart_dead_processes.                                                 *)
RunCreated ==
    /\ pc = "loop" /\ ~killed /\ ~need_restart_replication
    /\ pc' = "remove"
    /\ listed' \in Listings
    /\ runners' = runners \cup mysqlDbs
    /\ proc' = [p \in Processes |-> IF p \in runners' \cup Helpers THEN "running" ELSE proc[p]]
    /\ UNCHANGED <<mysqlDbs, status, todo, killed, http, deaths, changes>>

Removed == {d \in runners : \A i \in DOMAIN listed : listed[i] # d}

NoneRemoved ==
    /\ pc = "remove" /\ Removed = {}
    /\ pc' = "loop" /\ listed' = <<>>
    /\ UNCHANGED <<mysqlDbs, status, todo, runners, proc, killed, http, deaths, changes>>

(* Mutated form: the process of a removed database is not stopped. *)
RemoveRunning ==
    /\ pc = "remove"
    /\ \E d \in Removed : runners' = runners \ {d}
    /\ pc' = "crashed"
    /\ UNCHANGED <<mysqlDbs, status, todo, listed, proc, killed, http, deaths, changes>>

(* The dictionary changes size while it is iterated over: RuntimeError. *)
RemoveRaises ==
    /\ pc = "remove"
    /\ \E d \in Removed : proc' = Stopped({d}) /\ runners' = runners \ {d}
    /\ pc' = "crashed"
    /\ UNCHANGED <<mysqlDbs, status, todo, listed, killed, http, deaths, changes>>

(* Mutated form: the optimizer is left running. *)
StopMost ==
    /\ pc = "loop" /\ killed
    /\ pc' = "joining"
    /\ proc' = Stopped(runners \cup {"binlog_replicator"})
    /\ UNCHANGED <<mysqlDbs, status, todo, listed, runners, killed, http, deaths, changes>>

(* After the loop. *)
StopAll ==
    /\ pc = "loop" /\ killed
    /\ pc' = "joining"
    /\ proc' = Stopped(runners \cup Helpers)
    /\ UNCHANGED <<mysqlDbs, status, todo, listed, runners, killed, http, deaths, changes>>

(* The HTTP server (uvicorn, external) exits once its requests have ended. *)
JoinServer ==
    /\ pc = "joining" /\ \A r \in Requests : ~InFlight(r)
    /\ pc' = "stopped"
    /\ UNCHANGED <<mysqlDbs, status, todo, listed, runners, proc, killed, http, deaths, changes>>

-----------------------------------------------------------------------------
Launch == RunFinished \/ FirstLoopEnds \/ RunOther \/ WaitForInitial \/ SecondLoopEnds
MainLoop ==
    \/ RestartBegins \/ StopForRestart \/ StartAgain \/ RestartDone
    \/ RestartDeadProcesses \/ NoneRemoved \/ RemoveRaises \/ StopAll \/ JoinServer
Main == StartHelpers \/ Launch \/ MainLoop \/ RunCreated
Request(r) == RequestAsks(r) \/ RequestAnswered(r)

Next ==
    \/ RelayRecoveryRaises \/ Main \/ Signal
    \/ \E r \in Requests : RequestArrives(r) \/ Request(r)
    \/ \E d \in Databases : DatabaseChanges(d) \/ InitialReplicationFinishes(d)
    \/ \E p \in Processes : ProcessDies(p)

(* The main thread and the threads of the server go on, the check of the   *)
(* databases comes again and again, and a copy of a database that exists   *)
(* ends.                                                                   *)
Fairness ==
    /\ WF_vars(Main) /\ SF_vars(RunCreated)
    /\ \A r \in Requests : WF_vars(RequestAsks(r)) /\ SF_vars(RequestAnswered(r))
    /\ \A d \in Databases : WF_vars(InitialReplicationFinishes(d))

Spec == Init /\ [][Next]_vars
FairSpec == Spec /\ Fairness

-----------------------------------------------------------------------------
(* While the runner launches the databases, at most one initial            *)
(* replication runs at a time (wait_initial_replication).                  *)
OneInitialAtATime ==
    WaitInitialReplication /\ pc \in {"first", "second", "waiting"} =>
      Cardinality({d \in Databases : proc[d] = "running" /\ status[d] # "realtime"}) <= 1

(* A restart request is answered when the databases that were replicated   *)
(* at its arrival have all been stopped and have lost their state since,   *)
(* unless it arrived in the middle of another restart: then the end of     *)
(* that one answers it and clears its flag.                                *)
AnsweredAfterRestart ==
    \A r \in Requests : req[r] = "answered" => owed[r] = {}

(* A runner that has stopped leaves no process behind, whatever died, was  *)
(* started again, created or restarted when the signal came.               *)
NoOrphans == pc = "stopped" => \A p \in Processes : proc[p] # "running"

(* The databases with a runner whose initial replication has not finished. *)
Unfinished == {d \in runners : status[d] # "realtime"}

(* Behind OneInitialAtATime: only the database the runner waits for is     *)
(* unfinished, and a wait that a signal ended is the last one.             *)
LaunchInv ==
    /\ pc = "start" => runners = {}
    /\ WaitInitialReplication =>
         /\ pc = "first" => Unfinished = {}
         /\ pc = "waiting" => Unfinished \subseteq {Head(todo)}
         /\ pc = "second" => \/ Unfinished = {}
                             \/ killed /\ \E d \in Databases : Unfinished \subseteq {d}

(* Behind AnsweredAfterRestart: a restart stops every database a request   *)
(* waits for, and none is left when replication_restarted is set.          *)
RestartInv ==
    \A r \in Requests :
      /\ pc # "crashed" => owed[r] \subseteq runners
      /\ pc = "restarting" => \A d \in owed[r] : \E i \in DOMAIN todo : todo[i] = d
      /\ pc = "restarted" \/ replication_restarted \/ req[r] = "answered" => owed[r] = {}

(* Behind NoOrphans: nothing starts a process after StopAll. *)
StopInv == pc \in {"joining", "stopped"} => \A p \in Processes : proc[p] # "running"

RunnerInv == TypeOK /\ LaunchInv /\ RestartInv /\ StopInv

(* The wait for the initial replication of a database that MySQL has       *)
(* dropped never ends.                                                     *)
WaitsForDropped == pc = "waiting" /\ Head(todo) \notin mysqlDbs

(* Every database of MySQL gets a running process, as long as the runner   *)
(* lives and does not wait for a database that was dropped.                *)
DatabasesServed ==
    \A d \in Databases :
      d \in mysqlDbs ~> \/ proc[d] = "running" \/ d \notin mysqlDbs
                        \/ killed \/ pc \in Ended \/ WaitsForDropped

(* Every restart request is answered: the two flags that the threads share *)
(* without a lock lose none.                                               *)
RequestsAnswered ==
    \A r \in Requests :
      InFlight(r) ~> req[r] = "answered" \/ killed \/ pc \in Ended \/ WaitsForDropped

(* A signal ends the runner, unless a request waits for the restart that   *)
(* the main loop will not make any more: then server_thread.join hangs.    *)
SignalEnds ==
    killed ~> pc \in Ended \/ (pc = "joining" /\ \E r \in Requests : InFlight(r))
=============================================================================
