-------------------------------- MODULE Service --------------------------------
(***************************************************************************)
(* The life of the daemon process: `daemon serve` (daemon/server.rs), the  *)
(* service commands on Linux (daemon/service.rs) and `claudebase run`,     *)
(* which starts a daemon when it reaches none (main.rs).  systemd starts   *)
(* the unit again five seconds after a failure (Restart=on-failure).       *)
(*                                                                         *)
(* A process is a number that is not used again; the kernel may give its   *)
(* pid to a foreign process once it is dead.                               *)
(***************************************************************************)
EXTENDS Naturals

CONSTANTS MaxDaemons, \* bound: processes of `daemon serve`
          MaxOrders   \* bound: service commands, and windows opened with run

ASSUME ServiceAssumption == MaxDaemons \in Nat /\ MaxOrders \in Nat

Daemons == 1..MaxDaemons
NoProcess == 0

VARIABLES
    stage,   \* [Daemons -> how far `daemon serve` has got]
    lock,    \* the process that holds the lock on daemon.pid
    pidFile, \* the process whose pid is in it
    socket,  \* the process that bound the file daemon.sock, None: no file
    unit,    \* claudebase.service: "absent" "inactive" "active" "waiting"
    mainPid, \* the unit's main process
    reused,  \* dead processes whose pid a foreign process has
    victims, \* those whose foreign process was killed by a command
    order,   \* the operator's command: what, where it is, who served then
    opener,  \* `claudebase run`: "idle" "probe" "poll"
    orders

files == <<lock, pidFile, socket>>
unitVars == <<unit, mainPid>>
serviceVars == <<stage, files, unitVars, reused, victims, order, opener, orders>>

Serving == {p \in Daemons : stage[p] = "serving"}
Living == {p \in Daemons : stage[p] \notin {"unborn", "dead"}}
NoOrder == [what |-> "none", at |-> "idle", served |-> {}]

ServiceTypeOK ==
    /\ stage \in [Daemons -> {"unborn", "checked", "locked", "owner", "clean", "serving", "dead"}]
    /\ {lock, pidFile, socket, mainPid} \subseteq Daemons \cup {NoProcess}
    /\ unit \in {"absent", "inactive", "active", "waiting"}
    /\ reused \in SUBSET Daemons /\ victims \in SUBSET reused
    /\ order \in [what : {"none", "start", "stop", "restart"},
                  at : {"idle", "manager", "pidfile", "done"}, served : SUBSET Daemons]
    /\ opener \in {"idle", "probe", "poll"} /\ orders \in 0..MaxOrders

ServiceInit ==
    /\ stage = [p \in Daemons |-> "unborn"]
    /\ lock = NoProcess /\ pidFile = NoProcess /\ socket = NoProcess
    /\ unit = "absent" /\ mainPid = NoProcess
    /\ reused = {} /\ victims = {}
    /\ order = NoOrder /\ opener = "idle" /\ orders = 0

-----------------------------------------------------------------------------
(* serve()                                                                 *)

Unborn(p) == stage[p] = "unborn" /\ \A q \in Daemons : q < p => stage[q] # "unborn"

(* The kernel lets go of the lock; the files stay as they are.             *)
Ends(p) ==
    /\ stage' = [stage EXCEPT ![p] = "dead"]
    /\ lock' = IF lock = p THEN NoProcess ELSE lock
    /\ UNCHANGED <<pidFile, socket>>

(* Of the unit's main process: a failure, or a signal systemd calls clean. *)
UnitSees(p, failed) ==
    IF mainPid = p
    THEN mainPid' = NoProcess /\ unit' = IF failed THEN "waiting" ELSE "inactive"
    ELSE UNCHANGED unitVars

Step(p, from, to) == stage[p] = from /\ stage' = [stage EXCEPT ![p] = to]

\* Mutant of TakeLock: the lock is not asked for.
TakeLockUnasked(p) ==
    /\ Step(p, "checked", "locked") /\ lock' = p
    /\ UNCHANGED <<pidFile, socket, unitVars, reused, victims, order, opener, orders>>

(* try_lock_with_pid()                                                     *)
TakeLock(p) ==
    /\ Step(p, "checked", "locked") /\ lock = NoProcess /\ lock' = p
    /\ UNCHANGED <<pidFile, socket, unitVars, reused, victims, order, opener, orders>>

(* "claudebase daemon already running": exit 1.                            *)
Refused(p) ==
    /\ stage[p] = "checked" /\ lock # NoProcess
    /\ Ends(p) /\ UnitSees(p, TRUE)
    /\ UNCHANGED <<reused, victims, order, opener, orders>>

WritePid(p) ==
    /\ Step(p, "locked", "owner") /\ pidFile' = p
    /\ UNCHANGED <<lock, socket, unitVars, reused, victims, order, opener, orders>>

(* The socket a killed daemon left.                                        *)
RemoveSocket(p) ==
    /\ Step(p, "owner", "clean") /\ socket' = NoProcess
    /\ UNCHANGED <<lock, pidFile, unitVars, reused, victims, order, opener, orders>>

Bind(p) ==
    /\ Step(p, "clean", "serving") /\ socket = NoProcess /\ socket' = p
    /\ UNCHANGED <<lock, pidFile, unitVars, reused, victims, order, opener, orders>>

(* A crash; a configuration that is refused; a socket that cannot be bound *)
Fail(p) ==
    /\ p \in Living
    /\ Ends(p) /\ UnitSees(p, TRUE)
    /\ UNCHANGED <<reused, victims, order, opener, orders>>

Reuse(p) ==
    /\ stage[p] = "dead" /\ p \notin reused
    /\ reused' = reused \cup {p}
    /\ UNCHANGED <<stage, files, unitVars, victims, order, opener, orders>>

-----------------------------------------------------------------------------
(* systemd                                                                 *)

Launch(p) ==
    /\ Unborn(p)
    /\ stage' = [stage EXCEPT ![p] = "checked"]
    /\ mainPid' = p /\ unit' = "active"

StartAgain(p) ==
    /\ unit = "waiting" /\ Launch(p)
    /\ UNCHANGED <<files, reused, victims, order, opener, orders>>

(* install(): the unit is written, enabled, and started as by `start`.     *)
Install ==
    /\ unit = "absent"
    /\ unit' = "inactive"
    /\ UNCHANGED <<stage, files, mainPid, reused, victims, order, opener, orders>>

(* systemctl stop ends the unit's process and nobody else's.               *)
StopUnit ==
    IF mainPid = NoProcess
    THEN UNCHANGED <<stage, files, mainPid>> /\ unit' = IF unit = "waiting" THEN "inactive" ELSE unit
    ELSE Ends(mainPid) /\ mainPid' = NoProcess /\ unit' = "inactive"

(* uninstall(): stop, disable, and the unit's file goes.                   *)
Uninstall ==
    /\ unit # "absent" /\ order.at = "idle"
    /\ IF mainPid = NoProcess THEN UNCHANGED <<stage, files>> ELSE Ends(mainPid)
    /\ unit' = "absent" /\ mainPid' = NoProcess
    /\ UNCHANGED <<reused, victims, order, opener, orders>>

-----------------------------------------------------------------------------
(* claudebase daemon start | stop | restart                                *)

Order(what) ==
    /\ order.at = "idle" /\ orders < MaxOrders
    /\ orders' = orders + 1
    /\ order' = [what |-> what, at |-> "manager", served |-> Serving]
    /\ UNCHANGED <<stage, files, unitVars, reused, victims, opener>>

OrderTo(at) == order' = [order EXCEPT !.at = at]

(* start(): of a unit that is active already nothing is asked.  An absent  *)
(* unit is an error.                                                       *)
StartService ==
    /\ order.what = "start" /\ order.at = "manager"
    /\ \/ unit = "inactive" /\ \E p \in Daemons : Launch(p)
       \/ unit # "inactive" /\ UNCHANGED <<stage, unitVars>>
    /\ order' = NoOrder
    /\ UNCHANGED <<files, reused, victims, opener, orders>>

\* Mutant of StopService: what systemctl has done is not looked at.
StopServiceOnly ==
    /\ order.what = "stop" /\ order.at = "manager"
    /\ StopUnit /\ OrderTo("done")
    /\ UNCHANGED <<reused, victims, opener, orders>>

(* stop(): the service manager first, ...                                  *)
StopService ==
    /\ order.what = "stop" /\ order.at = "manager"
    /\ StopUnit /\ OrderTo("pidfile")
    /\ UNCHANGED <<reused, victims, opener, orders>>

(* ... then terminate_by_pidfile(): whatever answers to the pid is sent    *)
(* SIGTERM, and SIGKILL if it does not go.                                 *)
StopByPid ==
    /\ order.at = "pidfile"
    /\ OrderTo("done")
    /\ IF pidFile \in Living
       THEN Ends(pidFile) /\ UnitSees(pidFile, FALSE) /\ UNCHANGED victims
       ELSE /\ victims' = victims \cup ({pidFile} \cap reused)
            /\ UNCHANGED <<stage, files, unitVars>>
    /\ UNCHANGED <<reused, opener, orders>>

(* restart(): systemctl restart, which returns when the new process is     *)
(* there (Type=simple).                                                    *)
RestartService ==
    /\ order.what = "restart" /\ order.at = "manager" /\ unit # "absent"
    /\ \E p \in Daemons :
          /\ Unborn(p)
          /\ stage' = [q \in Daemons |-> IF q = p THEN "checked"
                                         ELSE IF q = mainPid THEN "dead" ELSE stage[q]]
          /\ mainPid' = p /\ unit' = "active"
    /\ lock' = IF mainPid # NoProcess /\ lock = mainPid THEN NoProcess ELSE lock
    /\ OrderTo("done")
    /\ UNCHANGED <<pidFile, socket, reused, victims, opener, orders>>

RestartFails ==
    /\ order.what = "restart" /\ order.at = "manager" /\ unit = "absent"
    /\ order' = NoOrder
    /\ UNCHANGED <<stage, files, unitVars, reused, victims, opener, orders>>

OrderOver ==
    /\ order.at = "done"
    /\ order' = NoOrder
    /\ UNCHANGED <<stage, files, unitVars, reused, victims, opener, orders>>

-----------------------------------------------------------------------------
(* claudebase run                                                          *)

Reachable == socket # NoProcess /\ stage[socket] = "serving"

Open ==
    /\ opener = "idle" /\ orders < MaxOrders
    /\ orders' = orders + 1
    /\ opener' = "probe"
    /\ UNCHANGED <<stage, files, unitVars, reused, victims, order>>

(* ensure_daemon_running(): a daemon of its own if none answers, ...       *)
Probe ==
    /\ opener = "probe"
    /\ IF Reachable THEN opener' = "idle" /\ UNCHANGED stage
       ELSE /\ opener' = "poll"
            /\ \E p \in Daemons : Unborn(p) /\ stage' = [stage EXCEPT ![p] = "checked"]
    /\ UNCHANGED <<files, unitVars, reused, victims, order, orders>>

(* ... and three seconds' wait for one to answer.                          *)
Poll ==
    /\ opener = "poll"
    /\ opener' = "idle"
    /\ UNCHANGED <<stage, files, unitVars, reused, victims, order, orders>>

-----------------------------------------------------------------------------
ServiceNext ==
    \/ \E p \in Daemons :
          \/ TakeLock(p) \/ Refused(p) \/ WritePid(p) \/ RemoveSocket(p) \/ Bind(p)
          \/ Fail(p) \/ Reuse(p) \/ StartAgain(p)
    \/ Install \/ Uninstall
    \/ \E what \in {"start", "stop", "restart"} : Order(what)
    \/ StartService \/ StopService \/ StopByPid \/ RestartService \/ RestartFails \/ OrderOver
    \/ Open \/ Probe \/ Poll

ServiceSpec == ServiceInit /\ [][ServiceNext]_serviceVars

-----------------------------------------------------------------------------
(* serve(), "fslock on daemon.pid for single-instance enforcement": one    *)
(* daemon serves, and nobody takes its socket or its pid file away.        *)
OneServes == \A p \in Serving : lock = p /\ pidFile = p /\ socket = p

(* stop(), "a daemon started any other way ... was never stopped, and the  *)
(* command reported success anyway": who served when the command was given *)
(* is gone when it says so.                                                *)
Obeyed(what) ==
    order.what = what /\ order.at = "done" => \A p \in order.served : stage[p] = "dead"
StopStops == Obeyed("stop")

(* docs/PRD.md, FR-ACD-1.5, "`claudebase daemon restart` MUST execute stop *)
(* then start".                                                            *)
RestartReplaces == Obeyed("restart")

(* terminate_by_pidfile(), "By PID from the daemon's own file": no process *)
(* but a daemon is killed.                                                 *)
StopSparesOthers == victims = {}
=============================================================================
