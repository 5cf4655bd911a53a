------------------------------ MODULE MCSessions -------------------------------
(***************************************************************************)
(* What surrounds a session, in parts that share no state: the nick it     *)
(* bears and its token, the programs that write into it, the reminders of  *)
(* its journal, its own end, the daemon's service and a daemon on another  *)
(* machine.  As in MCChannel a behaviour is one of one part while the      *)
(* others rest in one of their first states.                               *)
(***************************************************************************)
EXTENDS Nicks, Calls, Reminders, Shutdown, Service, Remote

VARIABLE part  \* the part this behaviour is of

sessionsVars ==
    <<part, nickVars, callsVars, reminderVars, shutdownVars, serviceVars, remoteVars>>

SessionsInit ==
    /\ part \in {"nicks", "calls", "reminders", "shutdown", "service", "remote"}
    /\ NicksInit /\ CallsInit /\ RemindersInit /\ ShutdownInit /\ ServiceInit /\ RemoteInit
    /\ part # "nicks" => window = [p \in Processes |-> CHOOSE w \in Windows : TRUE]
    /\ part # "shutdown" => heeds = {}

SessionsNext ==
    /\ \/ /\ part = "nicks" /\ NicksNext
          /\ UNCHANGED <<callsVars, reminderVars, shutdownVars, serviceVars, remoteVars>>
       \/ /\ part = "calls" /\ CallsNext
          /\ UNCHANGED <<nickVars, reminderVars, shutdownVars, serviceVars, remoteVars>>
       \/ /\ part = "reminders" /\ RemindersNext
          /\ UNCHANGED <<nickVars, callsVars, shutdownVars, serviceVars, remoteVars>>
       \/ /\ part = "shutdown" /\ ShutdownNext
          /\ UNCHANGED <<nickVars, callsVars, reminderVars, serviceVars, remoteVars>>
       \/ /\ part = "service" /\ ServiceNext
          /\ UNCHANGED <<nickVars, callsVars, reminderVars, shutdownVars, remoteVars>>
       \/ /\ part = "remote" /\ RemoteNext
          /\ UNCHANGED <<nickVars, callsVars, reminderVars, shutdownVars, serviceVars>>
    /\ UNCHANGED part

(* The steps that are to be fair are enabled in no first state, so that    *)
(* nothing is asked of a part at rest.                                     *)
SessionsSpec ==
    SessionsInit /\ [][SessionsNext]_sessionsVars /\ ShutdownFairness /\ RemoteFairness

(* The types of the six parts.                                             *)
SessionsTypeOK ==
    /\ NicksTypeOK /\ CallsTypeOK /\ RemindersTypeOK
    /\ ShutdownTypeOK /\ ServiceTypeOK /\ RemoteTypeOK

(* A nick's token opens only the session that bears it, from the making of *)
(* the token through renames, deaths and namesakes to the typing of what   *)
(* came with it (agent_registry.rs, callback.rs, agent_socket.rs).         *)
TokensOpenTheirOwn == TokenDies /\ CallsSafe

(* `daemon start', `stop' and `restart' against systemd, crashes and the   *)
(* windows that start a daemon of their own (service.rs, main.rs): one     *)
(* daemon serves, and what was told to stop has stopped.                   *)
ServiceObeys == OneServes /\ StopStops
=============================================================================
