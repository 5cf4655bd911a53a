---------------------------- MODULE SessionsProofs ----------------------------
(***************************************************************************)
(* Proofs about MCSessions: the daemon's service, the daemon on another    *)
(* machine, nicks and their tokens, what is typed into a session, the      *)
(* reminders, and all six types.  That a session ends and that a lost      *)
(* connection is made again is liveness and stays with TLC.                *)
(***************************************************************************)
EXTENDS MCSessions, FiniteSetTheorems, SequenceTheorems, WellFoundedInduction, TLAPS

-----------------------------------------------------------------------------
(* A step of the whole is one of each part, or leaves the part alone.      *)
LEMMA SessionsParts ==
  ASSUME [SessionsNext]_sessionsVars
  PROVE  /\ [NicksNext]_nickVars /\ [CallsNext]_callsVars /\ [RemindersNext]_reminderVars
         /\ [ShutdownNext]_shutdownVars /\ [ServiceNext]_serviceVars /\ [RemoteNext]_remoteVars
BY DEF SessionsNext, sessionsVars

-----------------------------------------------------------------------------
(* The service.  From the lock on, what a process does to the files is its *)
(* own: nobody else gets so far while it lives.                            *)
Holding == {p \in Daemons : stage[p] \in {"locked", "owner", "clean", "serving"}}

FilesAreTheirs ==
    /\ \A p \in Holding : lock = p
    /\ \A p \in Holding : stage[p] # "locked" => pidFile = p
    /\ \A p \in Holding : stage[p] = "serving" => socket = p

(* Who served when a command was given serves still, or is dead.           *)
ServedOrDead == \A p \in order.served : stage[p] \in {"serving", "dead"}

ServiceInv == ServiceTypeOK /\ FilesAreTheirs /\ ServedOrDead /\ StopStops

LEMMA DaemonIsAProcess == \A p \in Daemons : p # NoProcess
BY DEF Daemons, NoProcess

LEMMA InitService == ServiceInit => ServiceInv
BY ServiceAssumption
   DEF ServiceInit, ServiceInv, ServiceTypeOK, FilesAreTheirs, Holding, ServedOrDead,
       StopStops, Obeyed, NoOrder, Daemons

(* The end of a process, by whatever cause: the others keep what is        *)
(* theirs.                                                                 *)
LEMMA EndsKeeps ==
  ASSUME ServiceInv, NEW p \in Daemons, Ends(p)
  PROVE  /\ stage' \in [Daemons ->
              {"unborn", "checked", "locked", "owner", "clean", "serving", "dead"}]
         /\ lock' \in Daemons \cup {NoProcess}
         /\ pidFile' \in Daemons \cup {NoProcess} /\ socket' \in Daemons \cup {NoProcess}
         /\ FilesAreTheirs'
         /\ \A q \in Daemons : stage'[q] = IF q = p THEN "dead" ELSE stage[q]
BY DEF ServiceInv, ServiceTypeOK, FilesAreTheirs, Holding, Ends

(* A process on its way from its start to serving.                         *)
LEMMA ServeKeeps ==
  ASSUME ServiceInv, NEW p \in Daemons,
         TakeLock(p) \/ WritePid(p) \/ RemoveSocket(p) \/ Bind(p)
  PROVE  ServiceInv'
<1> USE DaemonIsAProcess
        DEF ServiceInv, ServiceTypeOK, FilesAreTheirs, Holding, ServedOrDead, StopStops,
            Obeyed, Step, unitVars
<1>1. CASE TakeLock(p)     BY <1>1 DEF TakeLock
<1>2. CASE WritePid(p)     BY <1>2 DEF WritePid
<1>3. CASE RemoveSocket(p) BY <1>3 DEF RemoveSocket
<1>4. CASE Bind(p)         BY <1>4 DEF Bind
<1>5. QED BY <1>1, <1>2, <1>3, <1>4

(* A process that ends, and one whose pid is given away.                   *)
LEMMA EndKeeps ==
  ASSUME ServiceInv, NEW p \in Daemons, Refused(p) \/ Fail(p) \/ Reuse(p)
  PROVE  ServiceInv'
<1> USE DEF ServiceInv, ServiceTypeOK, ServedOrDead, StopStops, Obeyed
<1>1. CASE Refused(p) \/ Fail(p)
  <2>1. Ends(p) /\ UnitSees(p, TRUE) /\ UNCHANGED <<reused, victims, order, opener, orders>>
    BY <1>1 DEF Refused, Fail
  <2>2. /\ mainPid' \in Daemons \cup {NoProcess}
        /\ unit' \in {"absent", "inactive", "active", "waiting"}
    BY <2>1 DEF UnitSees, unitVars
  <2>3. QED BY <2>1, <2>2, EndsKeeps
<1>2. CASE Reuse(p)
  BY <1>2 DEF Reuse, files, unitVars, FilesAreTheirs, Holding
<1>3. QED BY <1>1, <1>2

(* A new process has asked for nothing yet.                                *)
LEMMA BirthKeeps ==
  ASSUME ServiceInv, NEW p \in Daemons, stage[p] = "unborn",
         stage' = [stage EXCEPT ![p] = "checked"], UNCHANGED files
  PROVE  /\ /\ unit' \in {"absent", "inactive", "active", "waiting"}
            /\ mainPid' \in Daemons \cup {NoProcess} /\ opener' \in {"idle", "probe", "poll"}
            /\ UNCHANGED <<reused, victims, orders>> /\ order' \in {order, NoOrder}
            => ServiceTypeOK'
         /\ FilesAreTheirs'
         /\ UNCHANGED order => ServedOrDead' /\ StopStops'
<1> USE DEF ServiceInv, ServiceTypeOK
<1>1. FilesAreTheirs'
  BY DEF FilesAreTheirs, Holding, files
<1>2. \A q \in Daemons : stage[q] # "unborn" => stage'[q] = stage[q]
  OBVIOUS
<1>3. ASSUME UNCHANGED order PROVE ServedOrDead' /\ StopStops'
  <2>1. order.served \subseteq Daemons
    OBVIOUS
  <2>2. QED BY <1>2, <1>3, <2>1 DEF ServedOrDead, StopStops, Obeyed
<1>4. /\ stage' \in [Daemons ->
              {"unborn", "checked", "locked", "owner", "clean", "serving", "dead"}]
      /\ UNCHANGED <<lock, pidFile, socket>>
  BY DEF files
<1>5. QED BY <1>1, <1>3, <1>4 DEF NoOrder

LEMMA SystemdKeeps ==
  ASSUME ServiceInv, (\E p \in Daemons : StartAgain(p)) \/ Install \/ Uninstall
  PROVE  ServiceInv'
<1> USE DEF ServiceInv, ServiceTypeOK, ServedOrDead, StopStops, Obeyed
<1>1. ASSUME NEW p \in Daemons, StartAgain(p) PROVE ServiceInv'
  <2>1. FilesAreTheirs' /\ ServedOrDead' /\ StopStops'
    BY <1>1, BirthKeeps DEF StartAgain, Launch, Unborn
  <2>2. /\ unit' = "active" /\ mainPid' = p
        /\ UNCHANGED <<reused, victims, orders, order, opener>>
    BY <1>1 DEF StartAgain, Launch
  <2>3. ServiceTypeOK'
    BY <1>1, <2>2, BirthKeeps DEF StartAgain, Launch, Unborn
  <2>4. QED BY <2>1, <2>3
<1>2. CASE Install
  BY <1>2 DEF Install, files, FilesAreTheirs, Holding
<1>3. CASE Uninstall
  <2>1. CASE mainPid = NoProcess
    BY <1>3, <2>1 DEF Uninstall, files, FilesAreTheirs, Holding
  <2>2. CASE mainPid # NoProcess
    BY <1>3, <2>2, EndsKeeps DEF Uninstall
  <2>3. QED BY <2>1, <2>2
<1>4. QED BY <1>1, <1>2, <1>3

(* The commands; `stop' reaches who served by the unit or by the pid file. *)
LEMMA CommandKeeps ==
  ASSUME ServiceInv,
         \/ \E what \in {"start", "stop", "restart"} : Order(what)
         \/ StartService \/ StopService \/ StopByPid \/ RestartService
         \/ RestartFails \/ OrderOver
  PROVE  ServiceInv'
<1> USE DEF ServiceInv, ServiceTypeOK, ServedOrDead, StopStops, Obeyed, NoOrder, OrderTo
<1>1. ASSUME NEW what \in {"start", "stop", "restart"}, Order(what) PROVE ServiceInv'
  BY <1>1, ServiceAssumption
     DEF Order, Serving, files, unitVars, FilesAreTheirs, Holding
<1>2. CASE StartService
  <2>1. ASSUME NEW p \in Daemons, Launch(p) PROVE ServiceInv'
    <3>1. FilesAreTheirs' /\ ServedOrDead' /\ StopStops'
      BY <1>2, <2>1, BirthKeeps DEF StartService, Launch, Unborn
    <3>2. ServiceTypeOK'
      BY <1>2, <2>1, BirthKeeps DEF StartService, Launch, Unborn
    <3>3. QED BY <3>1, <3>2
  <2>2. CASE UNCHANGED <<stage, unitVars>>
    BY <1>2, <2>2 DEF StartService, files, unitVars, FilesAreTheirs, Holding
  <2>3. QED BY <1>2, <2>1, <2>2 DEF StartService
<1>3. CASE StopService
  <2>1. CASE mainPid = NoProcess
    BY <1>3, <2>1 DEF StopService, StopUnit, files, FilesAreTheirs, Holding
  <2>2. CASE mainPid # NoProcess
    BY <1>3, <2>2, EndsKeeps DEF StopService, StopUnit
  <2>3. QED BY <2>1, <2>2
<1>4. CASE StopByPid
  <2>1. \A p \in order.served : stage[p] = "serving" => p = pidFile /\ pidFile \in Living
    BY DEF FilesAreTheirs, Holding, Living
  <2>2. CASE pidFile \in Living
    <3>1. /\ mainPid' \in Daemons \cup {NoProcess}
          /\ unit' \in {"absent", "inactive", "active", "waiting"}
      BY <1>4, <2>2 DEF StopByPid, UnitSees, unitVars
    <3>2. \A p \in order.served : stage'[p] = "dead"
      BY <1>4, <2>1, <2>2, EndsKeeps DEF StopByPid, Living
    <3>3. QED BY <1>4, <2>2, <3>1, <3>2, EndsKeeps DEF StopByPid, Living
  <2>3. CASE pidFile \notin Living
    BY <1>4, <2>1, <2>3
       DEF StopByPid, files, unitVars, FilesAreTheirs, Holding
  <2>4. QED BY <2>2, <2>3
<1>5. CASE RestartService
  BY <1>5, DaemonIsAProcess DEF RestartService, Unborn, FilesAreTheirs, Holding
<1>6. CASE RestartFails \/ OrderOver
  BY <1>6 DEF RestartFails, OrderOver, files, unitVars, FilesAreTheirs, Holding
<1>7. QED BY <1>1, <1>2, <1>3, <1>4, <1>5, <1>6

LEMMA OpenerKeeps ==
  ASSUME ServiceInv, Open \/ Probe \/ Poll
  PROVE  ServiceInv'
<1> USE DEF ServiceInv, ServiceTypeOK, ServedOrDead, StopStops, Obeyed
<1>1. CASE Open
  BY <1>1, ServiceAssumption DEF Open, files, unitVars, FilesAreTheirs, Holding
<1>2. CASE Probe
  <2>1. ASSUME NEW p \in Daemons, Unborn(p), stage' = [stage EXCEPT ![p] = "checked"]
        PROVE  ServiceInv'
    <3>1. FilesAreTheirs' /\ ServedOrDead' /\ StopStops'
      BY <1>2, <2>1, BirthKeeps DEF Probe, Unborn
    <3>2. ServiceTypeOK'
      BY <1>2, <2>1, BirthKeeps DEF Probe, Unborn, unitVars
    <3>3. QED BY <3>1, <3>2
  <2>2. CASE UNCHANGED stage
    BY <1>2, <2>2 DEF Probe, files, unitVars, FilesAreTheirs, Holding
  <2>3. QED BY <1>2, <2>1, <2>2 DEF Probe
<1>3. CASE Poll
  BY <1>3 DEF Poll, files, unitVars, FilesAreTheirs, Holding
<1>4. QED BY <1>1, <1>2, <1>3

LEMMA StepService == ServiceInv /\ [ServiceNext]_serviceVars => ServiceInv'
<1> SUFFICES ASSUME ServiceInv, [ServiceNext]_serviceVars PROVE ServiceInv'
  OBVIOUS
<1>1. CASE UNCHANGED serviceVars
  BY <1>1 DEF ServiceInv, ServiceTypeOK, FilesAreTheirs, Holding, ServedOrDead, StopStops,
              Obeyed, serviceVars, files, unitVars
<1>2. CASE ServiceNext
  BY <1>2, ServeKeeps, EndKeeps, SystemdKeeps, CommandKeeps, OpenerKeeps DEF ServiceNext
<1>3. QED BY <1>1, <1>2

LEMMA ServiceInvObeys == ServiceInv => ServiceTypeOK /\ ServiceObeys
BY DEF ServiceInv, ServiceObeys, OneServes, FilesAreTheirs, Holding, Serving

(* For any number of daemons, windows and commands: one daemon serves, on  *)
(* its own lock, pid file and socket, and `stop` reports success only when *)
(* whoever served is dead (server.rs serve, service.rs stop).              *)
THEOREM OneDaemonServes == SessionsSpec => []ServiceObeys
<1>1. SessionsInit => ServiceInv
  BY InitService DEF SessionsInit
<1>2. [SessionsNext]_sessionsVars => [ServiceNext]_serviceVars
  BY SessionsParts
<1>3. QED BY <1>1, <1>2, StepService, ServiceInvObeys, PTL DEF SessionsSpec

-----------------------------------------------------------------------------
(* The remote daemon.  A certificate is written once, to the key that is   *)
(* there; `enable' gets to the address with a pair, and no address is      *)
(* stored while it is at work.                                             *)
PairInv ==
    /\ key \in [Hosts -> Nat] /\ cert \in [Hosts -> Nat] /\ issued \in Nat
    /\ enabling \in [Hosts -> {"no", "key", "cert", "bind"}] /\ bind \in [Hosts -> BOOLEAN]
    /\ \A d \in Hosts :
          /\ cert[d] # 0 => key[d] = cert[d]
          /\ enabling[d] \in {"key", "cert"} => cert[d] = 0
          /\ enabling[d] = "cert" => key[d] # 0
          /\ enabling[d] = "bind" \/ bind[d] => cert[d] # 0
          /\ enabling[d] # "no" => ~bind[d]

(* A session that runs has an endpoint's name in its environment, and the  *)
(* one it hears through is the one it names, until the profile changes.    *)
LegInv ==
    /\ env \in [Attached -> {"none", "local", "profile"}]
    /\ leg \in [Attached -> [at : {"off", "resting", "open", "lost"},
                             to : Hosts \cup {Local, None}]]
    /\ \A s \in Attached : leg[s].at # "off" => env[s] # "none"
    /\ CallsFollow

RemoteInv == PairInv /\ LegInv /\ AnswersItsOwn

LEMMA InitRemote == RemoteInit => RemoteInv
BY DEF RemoteInit, RemoteInv, PairInv, LegInv, CallsFollow, AnswersItsOwn, Idle

(* What the serving machine's commands keep.                               *)
LEMMA StepPair == RemoteInv /\ RemoteNext => PairInv'
<1> SUFFICES ASSUME RemoteInv, RemoteNext PROVE PairInv'
  OBVIOUS
<1> USE RemoteAssumption DEF RemoteInv, PairInv, Issuing, New, Administered
<1>1. ASSUME NEW d \in Hosts, Enable(d) PROVE PairInv'    BY <1>1 DEF Enable
<1>2. ASSUME NEW d \in Hosts, WriteKey(d) PROVE PairInv'  BY <1>2 DEF WriteKey
<1>3. ASSUME NEW d \in Hosts, WriteCert(d) PROVE PairInv' BY <1>3 DEF WriteCert
<1>4. ASSUME NEW d \in Hosts, SetBind(d) PROVE PairInv'   BY <1>4 DEF SetBind, Prepared
<1>5. ASSUME NEW d \in Hosts, EnableDies(d) PROVE PairInv' BY <1>5 DEF EnableDies
<1>6. ASSUME NEW d \in Hosts, Disable(d) PROVE PairInv'   BY <1>6 DEF Disable
<1>7. ASSUME NEW d \in Hosts, IssueAndAdd(d) PROVE PairInv' BY <1>7 DEF IssueAndAdd
<1>8. CASE UNCHANGED <<key, cert, issued, enabling, bind>> BY <1>8
<1>9. ASSUME NEW d \in Hosts, Revoke(d) \/ RestartDaemon(d)
      PROVE  UNCHANGED <<key, cert, issued, enabling, bind>>
  BY <1>9 DEF Revoke, RestartDaemon
<1>10. ASSUME RemoveProfile \/ \E on \in BOOLEAN : SetDefault(on)
       PROVE  UNCHANGED <<key, cert, issued, enabling, bind>>
  BY <1>10 DEF RemoveProfile, SetDefault, serverVars
<1>11. ASSUME NEW s \in Attached,
              \/ \E name \in {"none", "local", "profile"} : Run(s, name)
              \/ Join(s) \/ Vanish(s) \/ Ask(s) \/ Serve(s) \/ Notify(s) \/ TakeFrame(s)
              \/ GiveUp(s)
       PROVE  UNCHANGED <<key, cert, issued, enabling, bind>>
  BY <1>11 DEF Run, Join, Vanish, Ask, Serve, Notify, TakeFrame, GiveUp, serverVars
<1>12. QED
  BY <1>1, <1>2, <1>3, <1>4, <1>5, <1>6, <1>7, <1>8, <1>9, <1>10, <1>11 DEF RemoteNext

(* Where a session hears changes when it starts, joins or is cut off, ...  *)
LEMMA SessionLeg ==
  ASSUME RemoteInv, NEW s \in Attached,
         \/ \E name \in {"none", "local", "profile"} : Run(s, name)
         \/ Join(s) \/ Vanish(s)
  PROVE  LegInv'
<1> USE RemoteAssumption DEF RemoteInv, LegInv, CallsFollow, clientVars
<1>1. ASSUME NEW name \in {"none", "local", "profile"}, Run(s, name) PROVE LegInv'
  <2>1. Exported(name) \in {"local", "profile"}
    BY <1>1 DEF Exported
  <2>2. /\ env' = [env EXCEPT ![s] = Exported(name)] /\ leg' = [leg EXCEPT ![s] = Closed]
        /\ moved' = moved \ {s} /\ UNCHANGED <<profile, default>>
    BY <1>1 DEF Run
  <2>3. QED BY <2>1, <2>2 DEF Closed, Endpoint
<1>2. CASE Join(s)
  <2>1. Endpoint(env[s]) \in Hosts \cup {Local}
    BY <1>2 DEF Join, Accepted
  <2>2. QED BY <1>2, <2>1 DEF Join, Endpoint
<1>3. CASE Vanish(s)
  BY <1>3 DEF Vanish, Endpoint
<1>4. QED BY <1>1, <1>2, <1>3

(* ... and what its name stands for when the profile or the default does.  *)
LEMMA ProfileLeg ==
  ASSUME RemoteInv,
         \/ \E d \in Hosts : IssueAndAdd(d)
         \/ RemoveProfile \/ \E on \in BOOLEAN : SetDefault(on)
  PROVE  LegInv'
<1> USE RemoteAssumption DEF RemoteInv, LegInv, CallsFollow
<1>1. ASSUME NEW p, profile' = p, Repoint(p), UNCHANGED <<env, leg>> PROVE LegInv'
  BY <1>1 DEF Repoint, Endpoint
<1>2. CASE (\E d \in Hosts : IssueAndAdd(d)) \/ RemoveProfile
  BY <1>1, <1>2 DEF IssueAndAdd, RemoveProfile
<1>3. CASE \E on \in BOOLEAN : SetDefault(on)
  BY <1>3 DEF SetDefault, sessionVars, Endpoint
<1>4. QED BY <1>2, <1>3

LEMMA StepLeg == RemoteInv /\ RemoteNext => LegInv'
<1> SUFFICES ASSUME RemoteInv, RemoteNext PROVE LegInv'
  OBVIOUS
<1>1. CASE UNCHANGED <<env, leg, moved, profile, default>>
  BY <1>1 DEF RemoteInv, LegInv, CallsFollow, Endpoint
<1>2. ASSUME NEW d \in Hosts,
             \/ Enable(d) \/ WriteKey(d) \/ WriteCert(d) \/ SetBind(d) \/ EnableDies(d)
             \/ Disable(d) \/ Revoke(d)
      PROVE  UNCHANGED <<env, leg, moved, profile, default>>
  BY <1>2 DEF Enable, WriteKey, WriteCert, SetBind, EnableDies, Disable, Revoke, clientVars,
              sessionVars
<1>3. ASSUME NEW d \in Hosts, RestartDaemon(d) PROVE LegInv'
  BY <1>3, RemoteAssumption
     DEF RestartDaemon, RemoteInv, LegInv, CallsFollow, Endpoint, Closed, clientVars
<1>4. ASSUME NEW s \in Attached, Ask(s) \/ Serve(s) \/ Notify(s) \/ TakeFrame(s) \/ GiveUp(s)
      PROVE  UNCHANGED <<env, leg, moved, profile, default>>
  BY <1>4 DEF Ask, Serve, Notify, TakeFrame, GiveUp, clientVars, sessionVars
<1>5. QED BY <1>1, <1>2, <1>3, <1>4, SessionLeg, ProfileLeg DEF RemoteNext

(* Only TakeFrame takes an answer, and it looks whose it is.               *)
LEMMA StepAnswers == RemoteInv /\ RemoteNext => AnswersItsOwn'
<1> SUFFICES ASSUME RemoteInv, RemoteNext PROVE AnswersItsOwn'
  OBVIOUS
<1>1. CASE UNCHANGED got
  BY <1>1 DEF RemoteInv, AnswersItsOwn
<1>2. ASSUME NEW s \in Attached, TakeFrame(s) PROVE AnswersItsOwn'
  <2>1. got' = got \/ \E f : Mine(s, f) /\ got' = got \cup {<<call[s].id, f>>}
    BY <1>2 DEF TakeFrame
  <2>2. QED BY <2>1 DEF Mine, RemoteInv, AnswersItsOwn
<1>3. ASSUME NEW d \in Hosts,
             \/ Enable(d) \/ WriteKey(d) \/ WriteCert(d) \/ SetBind(d) \/ EnableDies(d)
             \/ Disable(d) \/ Revoke(d) \/ IssueAndAdd(d) \/ RestartDaemon(d)
      PROVE  UNCHANGED got
  BY <1>3 DEF Enable, WriteKey, WriteCert, SetBind, EnableDies, Disable, Revoke,
              IssueAndAdd, RestartDaemon, callVars
<1>4. ASSUME NEW s \in Attached,
             \/ \E name \in {"none", "local", "profile"} : Run(s, name)
             \/ Join(s) \/ Vanish(s) \/ Ask(s) \/ Serve(s) \/ Notify(s) \/ GiveUp(s)
      PROVE  UNCHANGED got
  BY <1>4 DEF Run, Join, Vanish, Ask, Serve, Notify, GiveUp, callVars
<1>5. ASSUME RemoveProfile \/ \E on \in BOOLEAN : SetDefault(on)
      PROVE  UNCHANGED got
  BY <1>5 DEF RemoveProfile, SetDefault, callVars
<1>6. QED BY <1>1, <1>2, <1>3, <1>4, <1>5 DEF RemoteNext

LEMMA StepRemote == RemoteInv /\ [RemoteNext]_remoteVars => RemoteInv'
<1>1. RemoteInv /\ RemoteNext => RemoteInv'
  BY StepPair, StepLeg, StepAnswers DEF RemoteInv
<1>2. RemoteInv /\ UNCHANGED remoteVars => RemoteInv'
  BY DEF RemoteInv, PairInv, LegInv, CallsFollow, AnswersItsOwn, Endpoint, remoteVars,
         serverVars, clientVars, sessionVars, callVars
<1>3. QED BY <1>1, <1>2

(* For any number of hosts, sessions and changes: an address is stored for *)
(* a whole pair only, whenever `enable` is cut short; what runs inside a   *)
(* session is called on the daemon it hears through, whatever becomes of   *)
(* the default; and a call takes its own answer (remote.rs, remote_cli.rs, *)
(* client.rs).                                                             *)
THEOREM RemoteIsSafe == SessionsSpec => []RemoteSafe
<1>1. SessionsInit => RemoteInv
  BY InitRemote DEF SessionsInit
<1>2. [SessionsNext]_sessionsVars => [RemoteNext]_remoteVars
  BY SessionsParts
<1>3. RemoteInv => RemoteSafe
  BY DEF RemoteInv, PairInv, LegInv, RemoteSafe, BoundHasPair
<1>4. QED BY <1>1, <1>2, <1>3, StepRemote, PTL DEF SessionsSpec

-----------------------------------------------------------------------------
(* The nicks and their tokens.  Who has started has a nick, and a rename   *)
(* goes from one to another.                                               *)
NamesKnown ==
    /\ \A p \in Processes : phase[p] # "new" => nick[p] \in Nicks
    /\ \A p \in Processes : moving[p].at # "idle" =>
          phase[p] # "new" /\ moving[p].from \in Nicks /\ moving[p].to \in Nicks

(* No token is that of two nicks, and all are made.                        *)
TokensDiffer ==
    /\ \A m, n \in Nicks : tokens[m] = tokens[n] /\ tokens[m] # NoToken => m = n
    /\ \A n \in Nicks : tokens[n] <= minted
    /\ \A p \in Processes : moving[p].had <= minted
    /\ \A r \in retired : r[2] <= minted

(* Where the token is that a rename under way is to end, unless another    *)
(* has taken it along: with the old nick, then with the new one, then      *)
(* nowhere.                                                                *)
OnItsWay(p) ==
    LET h == moving[p] IN
    h.fresh /\ h.from # h.to /\ h.had # NoToken /\ carried[h.had] \subseteq {p} =>
       \A n \in Nicks : tokens[n] = h.had =>
          \/ h.at \in {"row", "token"} /\ n = h.from
          \/ h.at = "fresh" /\ n = h.to

NickInv ==
    /\ NicksTypeOK /\ NamesKnown /\ TokensDiffer
    /\ \A p \in Processes : OnItsWay(p)
    /\ TokenDies

LEMMA ManyProcesses == Cardinality(Processes) \in Nat
BY FS_CardinalityType, NicksAssumption

LEMMA InitNicks == NicksInit => NickInv
BY NicksAssumption, ManyProcesses
   DEF NicksInit, NickInv, NicksTypeOK, NamesKnown, TokensDiffer, OnItsWay, TokenDies,
       NoMove, Handlers, Steps, MaybeNick, NoToken

(* A suffix is free while a process is yet to come: there are as many as   *)
(* processes, and one process has none.                                    *)
LEMMA UniqueNickIs ==
  ASSUME NickInv, NEW p \in Processes, phase[p] = "new"
  PROVE  UniqueNick \in Derived
<1> DEFINE Free == {n \in Derived : \A q \in Online : nick[q] # n}
           N == Cardinality(Processes)
<1>1. N \in Nat
  BY ManyProcesses
<1>2. PICK n \in Derived : n \in Free
  <2> SUFFICES ASSUME \A n \in Derived : \E q \in Online : nick[q] = n PROVE FALSE
    OBVIOUS
  <2> DEFINE owner == [n \in Derived |-> CHOOSE q \in Online : nick[q] = n]
  <2>1. \A n \in Derived : owner[n] \in Online /\ nick[owner[n]] = n
    OBVIOUS
  <2>2. /\ IsFiniteSet(Processes \ {p}) /\ Cardinality(Processes \ {p}) = N - 1
    BY FS_RemoveElement, NicksAssumption
  <2>3. Online \subseteq Processes \ {p}
    BY DEF Online
  <2>4. IsFiniteSet(Online) /\ Cardinality(Online) <= N - 1
    BY <2>2, <2>3, FS_Subset
  <2>5. IsFiniteSet(Derived) /\ Cardinality(Derived) = N
    BY <1>1, FS_Interval DEF Derived
  <2>6. Cardinality(Online) < Cardinality(Derived)
    BY <1>1, <2>4, <2>5, FS_CardinalityType
  <2>7. owner \in [Derived -> Online]
    BY <2>1
  <2>8. \E m, n \in Derived : m # n /\ owner[m] = owner[n]
    <3> HIDE DEF owner
    <3>1. QED BY <2>4, <2>5, <2>6, <2>7, FS_PigeonHole
  <2>9. QED BY <2>1, <2>8
<1>3. Free \in SUBSET Nat /\ Free # {}
  BY <1>1, <1>2 DEF Derived
<1>4. PICK m \in Free : \A k \in Free : ~(<<k, m>> \in OpToRel(<, Nat))
  BY <1>3, NatLessThanWellFounded, WFMin, ZenonT(30)
<1>5. \A k \in Derived : k < m => k \notin Free
  <2> TAKE k \in Derived
  <2> SUFFICES ASSUME k < m, k \in Free PROVE FALSE
    OBVIOUS
  <2>1. k \in Nat /\ m \in Nat
    BY <1>3
  <2>2. <<k, m>> \in OpToRel(<, Nat)
    BY <2>1 DEF OpToRel
  <2>3. QED BY <1>4, <2>2
<1>6. QED BY <1>4, <1>5 DEF UniqueNick

(* What moves no token keeps them apart, and ends none.                    *)
LEMMA TokensRest ==
  ASSUME NickInv, UNCHANGED <<tokenVars, retired>>,
         \A p \in Processes : moving'[p].had \in {moving[p].had, NoToken},
         \A p \in Processes : \/ ~moving'[p].fresh
                              \/ /\ \A f \in {"from", "to", "fresh", "had"} :
                                       moving'[p][f] = moving[p][f]
                                 /\ moving'[p].at = moving[p].at
  PROVE  TokensDiffer' /\ (\A p \in Processes : OnItsWay(p)') /\ TokenDies'
<1>1. minted \in Nat
  BY NicksAssumption DEF NickInv, NicksTypeOK
<1>2. TokensDiffer' /\ TokenDies'
  BY <1>1 DEF NickInv, TokensDiffer, TokenDies, tokenVars, NoToken
<1>3. ASSUME NEW p \in Processes PROVE OnItsWay(p)'
  BY <1>3 DEF NickInv, OnItsWay, tokenVars
<1>4. QED BY <1>2, <1>3

(* A process starts, or registers.                                         *)
LEMMA StepStart ==
  ASSUME NickInv, NEW p \in Processes,
         Start(p) \/ RegisterNick(p) \/ Registered(p) \/ EndProcess(p)
  PROVE  NickInv'
<1> USE DEF NickInv, NicksTypeOK, NamesKnown
<1>1. UNCHANGED <<tokenVars, retired, moving, window, conversation, talk, renames>>
  BY DEF Start, RegisterNick, Registered, EndProcess
<1>2. TokensDiffer' /\ (\A q \in Processes : OnItsWay(q)') /\ TokenDies'
  BY <1>1, TokensRest
<1>3. CASE Start(p)
  <2>1. nick'[p] \in Nicks /\ nick' = [nick EXCEPT ![p] = nick'[p]]
    BY <1>3, UniqueNickIs DEF Start, Recalled, Nicks, MaybeNick, NamesKnown
  <2>2. QED BY <1>1, <1>2, <1>3, <2>1 DEF Start, MaybeNick, tokenVars
<1>4. CASE RegisterNick(p) \/ EndProcess(p)
  BY <1>1, <1>2, <1>4 DEF RegisterNick, EndProcess, tokenVars
<1>5. CASE Registered(p)
  BY <1>1, <1>2, <1>5 DEF Registered, Remember, tokenVars
<1>6. QED BY <1>3, <1>4, <1>5

(* A new token takes the place of a nick's.                                *)
LEMMA Minting ==
  ASSUME NickInv, NEW n \in Nicks, minted < MaxTokens, minted' = minted + 1,
         tokens' = [tokens EXCEPT ![n] = minted + 1], UNCHANGED <<carried, retired>>,
         \A p \in Processes : moving'[p].had = moving[p].had
  PROVE  /\ minted' \in 0..MaxTokens /\ tokens' \in [Nicks -> 0..MaxTokens]
         /\ TokensDiffer' /\ TokenDies'
         /\ \A p \in Processes : moving'[p] = moving[p] => OnItsWay(p)'
<1> USE DEF NickInv, NicksTypeOK, TokensDiffer, NoToken
<1>1. /\ MaxTokens \in Nat /\ minted \in Nat /\ minted + 1 \in 0..MaxTokens
      /\ minted + 1 # 0 /\ ~(minted + 1 <= minted)
  BY NicksAssumption
<1>2. /\ tokens' \in [Nicks -> 0..MaxTokens]
      /\ \A m \in Nicks : tokens'[m] = IF m = n THEN minted + 1 ELSE tokens[m]
  BY <1>1
<1>3. \A k \in 0..MaxTokens : k <= minted => k <= minted + 1 /\ k # minted + 1
  BY <1>1
<1>4. \A p \in Processes : moving[p] \in Handlers
  OBVIOUS
<1>5. \A p \in Processes : moving[p].had \in 0..MaxTokens
  BY <1>4 DEF Handlers
<1>6. \A r \in retired : r[2] \in 0..MaxTokens /\ r[1] \in Processes
  BY <1>1
<1>7. TokensDiffer'
  <2>1. \A a, b \in Nicks : tokens'[a] = tokens'[b] /\ tokens'[a] # NoToken => a = b
    BY <1>2, <1>3
  <2>2. \A m \in Nicks : tokens'[m] <= minted + 1
    BY <1>1, <1>2, <1>3
  <2>3. \A p \in Processes : moving[p].had <= minted + 1
    BY <1>3, <1>5
  <2>4. \A r \in retired : r[2] <= minted + 1
    BY <1>3, <1>6
  <2>5. QED BY <2>1, <2>2, <2>3, <2>4
<1>8. TokenDies'
  <2>1. \A r \in retired : r[2] # minted + 1
    BY <1>3, <1>6
  <2>2. QED BY <1>2, <2>1 DEF TokenDies
<1>9. ASSUME NEW p \in Processes, moving'[p] = moving[p] PROVE OnItsWay(p)'
  <2>1. moving[p].had # minted + 1
    BY <1>3, <1>5
  <2>2. QED BY <1>2, <1>9, <2>1 DEF OnItsWay
<1>10. QED BY <1>1, <1>2, <1>7, <1>8, <1>9

LEMMA StepEnsure == ASSUME NickInv, NEW p \in Processes, EnsureToken(p) PROVE NickInv'
<1> USE DEF NickInv, NicksTypeOK, NamesKnown
<1>1. /\ UNCHANGED <<window, nick, chosen, conversation, moving, memory, talk, retired, renames>>
      /\ phase' \in [Processes -> {"new", "named", "row", "token", "up", "gone"}]
      /\ \A q \in Processes : phase'[q] # "new" => phase[q] # "new"
      /\ \A q \in Processes : phase'[q] = "new" => phase[q] = "new"
      /\ nick[p] \in Nicks
  BY DEF EnsureToken
<1>2. CASE tokens[nick[p]] # NoToken
  BY <1>1, <1>2, TokensRest DEF EnsureToken, tokenVars
<1>3. CASE tokens[nick[p]] = NoToken
  <2>1. /\ minted < MaxTokens /\ minted' = minted + 1
        /\ tokens' = [tokens EXCEPT ![nick[p]] = minted + 1] /\ UNCHANGED carried
    BY <1>3 DEF EnsureToken
  <2>2. QED BY <1>1, <2>1, Minting
<1>4. QED BY <1>2, <1>3

(* The statements of a rename.                                             *)
LEMMA StepRotate == ASSUME NickInv, NEW p \in Processes, Rotate(p) PROVE NickInv'
<1> USE DEF NickInv, NicksTypeOK, NamesKnown
<1>1. /\ UNCHANGED <<running, memory, talk, carried, retired, renames>>
      /\ minted < MaxTokens /\ minted' = minted + 1
      /\ tokens' = [tokens EXCEPT ![moving[p].to] = minted + 1]
      /\ moving' = [moving EXCEPT ![p].at = "remember"]
      /\ moving[p].to \in Nicks /\ moving[p].at = "fresh"
  BY DEF Rotate
<1>2. moving[p] \in Handlers
  OBVIOUS
<1>3. /\ moving' \in [Processes -> Handlers]
      /\ \A q \in Processes \ {p} : moving'[q] = moving[q]
      /\ moving'[p] = [moving[p] EXCEPT !.at = "remember"]
      /\ \A q \in Processes : moving'[q].had = moving[q].had
  BY <1>1, <1>2 DEF Handlers, Steps
<1>4. /\ minted' \in 0..MaxTokens /\ tokens' \in [Nicks -> 0..MaxTokens]
      /\ TokensDiffer' /\ TokenDies'
      /\ \A q \in Processes : moving'[q] = moving[q] => OnItsWay(q)'
  BY <1>1, <1>3, Minting
<1>5. OnItsWay(p)'
  <2>1. moving[p].had \in 0..MaxTokens /\ moving[p].had <= minted /\ minted \in Nat
    BY <1>2, NicksAssumption DEF Handlers, TokensDiffer
  <2>2. moving[p].had # minted + 1
    BY <2>1
  <2>3. \A n \in Nicks : tokens'[n] = IF n = moving[p].to THEN minted + 1 ELSE tokens[n]
    BY <1>1
  <2>4. /\ moving'[p].had = moving[p].had /\ moving'[p].fresh = moving[p].fresh
        /\ moving'[p].from = moving[p].from /\ moving'[p].to = moving[p].to
    BY <1>2, <1>3 DEF Handlers
  <2>5. OnItsWay(p)
    OBVIOUS
  <2>6. QED BY <1>1, <2>2, <2>3, <2>4, <2>5 DEF OnItsWay
<1>6. (\A q \in Processes : OnItsWay(q)')
  BY <1>3, <1>4, <1>5
<1>7. NamesKnown'
  BY <1>1, <1>3 DEF running
<1>8. NicksTypeOK'
  BY <1>1, <1>3, <1>4 DEF running
<1>9. QED BY <1>4, <1>6, <1>7, <1>8

LEMMA StepMoveToken == ASSUME NickInv, NEW p \in Processes, MoveToken(p) PROVE NickInv'
<1> USE DEF NickInv, NicksTypeOK, NamesKnown, NoToken
<1> DEFINE h == moving[p]
           t == tokens[h.from]
           next == IF h.fresh THEN "fresh" ELSE "remember"
<1>1. /\ UNCHANGED <<running, memory, talk, minted, retired, renames>>
      /\ h.at = "token" /\ h.from \in Nicks /\ h.to \in Nicks
      /\ moving' = [moving EXCEPT ![p].at = next]
      /\ tokens' = IF t = 0 THEN tokens ELSE [tokens EXCEPT ![h.to] = t, ![h.from] = 0]
      /\ carried' = [k \in DOMAIN carried |-> IF k = t THEN carried[k] \cup {p} ELSE carried[k]]
  BY DEF MoveToken, Carry
<1>2. h \in Handlers /\ t \in 0..MaxTokens /\ next \in Steps
  BY <1>1 DEF Steps
<1>3. /\ moving' \in [Processes -> Handlers]
      /\ \A q \in Processes \ {p} : moving'[q] = moving[q]
      /\ moving'[p] = [h EXCEPT !.at = next]
  BY <1>1, <1>2 DEF Handlers
<1>4. /\ moving'[p].had = h.had /\ moving'[p].fresh = h.fresh /\ moving'[p].at = next
      /\ moving'[p].from = h.from /\ moving'[p].to = h.to
  BY <1>2, <1>3 DEF Handlers
<1>5. /\ tokens' \in [Nicks -> 0..MaxTokens]
      /\ carried' \in [1..MaxTokens -> SUBSET Processes]
  <2>1. 0 \in 0..MaxTokens
    BY NicksAssumption
  <2>2. QED BY <1>1, <1>2, <2>1
<1>6. \A n \in Nicks : tokens'[n] # 0 =>
         \/ tokens'[n] = tokens[n] /\ (t # 0 => n # h.to /\ n # h.from)
         \/ t # 0 /\ n = h.to /\ tokens'[n] = t
  BY <1>1
<1>7. \A n \in Nicks : tokens'[n] = 0 \/ \E m \in Nicks : tokens'[n] = tokens[m]
  BY <1>1
<1>8. TokensDiffer'
  <2>1. \A a, b \in Nicks : tokens'[a] = tokens'[b] /\ tokens'[a] # NoToken => a = b
    BY <1>1, <1>6 DEF TokensDiffer
  <2>2. minted \in Nat /\ 0 <= minted
    BY NicksAssumption
  <2>3. \A m \in Nicks : tokens[m] <= minted
    BY DEF TokensDiffer
  <2>4. \A m \in Nicks : tokens'[m] <= minted
    BY <1>7, <2>2, <2>3
  <2>5. \A q \in Processes : moving'[q].had <= minted
    BY <1>3, <1>4 DEF TokensDiffer
  <2>6. minted' = minted /\ retired' = retired
    BY <1>1
  <2>7. \A r \in retired' : r[2] <= minted'
    BY <2>6 DEF TokensDiffer
  <2>8. QED BY <2>1, <2>4, <2>5, <2>6, <2>7 DEF TokensDiffer
<1>9. \A k \in 1..MaxTokens : carried[k] \subseteq carried'[k] /\ (k = t => p \in carried'[k])
  BY <1>1
<1>10. TokenDies'
  <2> SUFFICES ASSUME NEW r \in retired, carried'[r[2]] \subseteq {r[1]}, NEW n \in Nicks,
                      tokens'[n] = r[2]
               PROVE  FALSE
    BY <1>1 DEF TokenDies
  <2>1. r[2] \in 1..MaxTokens
    OBVIOUS
  <2>2. \A m \in Nicks : tokens[m] # r[2]
    BY <1>9, <2>1 DEF TokenDies
  <2>3. QED BY <1>7, <2>1, <2>2
<1>11. ASSUME NEW q \in Processes PROVE OnItsWay(q)'
  <2> DEFINE g == moving[q]
  <2>1. /\ moving'[q].had = g.had /\ moving'[q].fresh = g.fresh
        /\ moving'[q].from = g.from /\ moving'[q].to = g.to
        /\ q # p => moving'[q].at = g.at
    BY <1>3, <1>4
  <2> SUFFICES ASSUME g.fresh, g.from # g.to, g.had # 0, carried'[g.had] \subseteq {q},
                      NEW n \in Nicks, tokens'[n] = g.had
               PROVE  \/ moving'[q].at \in {"row", "token"} /\ n = g.from
                      \/ moving'[q].at = "fresh" /\ n = g.to
    BY <2>1 DEF OnItsWay
  <2>2. g \in Handlers
    OBVIOUS
  <2>3. g.had \in 1..MaxTokens
    BY <2>2, NicksAssumption DEF Handlers
  <2>4. carried[g.had] \subseteq {q} /\ (t = g.had => q = p)
    BY <1>9, <2>3
  <2>5. \A m \in Nicks : tokens[m] = g.had =>
           \/ g.at \in {"row", "token"} /\ m = g.from
           \/ g.at = "fresh" /\ m = g.to
    BY <2>4 DEF OnItsWay
  <2>6. CASE q = p
    <3>1. \A m \in Nicks : tokens[m] = g.had => m = h.from
      BY <1>1, <2>5, <2>6
    <3>2. t # 0 /\ n = h.to
      BY <1>1, <1>6, <2>3, <2>6, <3>1
    <3>3. QED BY <1>4, <2>6, <3>2
  <2>7. CASE q # p
    <3>1. tokens'[n] = tokens[n]
      BY <1>6, <2>4, <2>7
    <3>2. QED BY <2>1, <2>5, <2>7, <3>1
  <2>8. QED BY <2>6, <2>7
<1>12. NicksTypeOK' /\ NamesKnown'
  <2>1. UNCHANGED <<phase, window, nick, chosen, conversation, memory, talk, minted, retired,
                    renames>>
    BY <1>1 DEF running
  <2>2. NicksTypeOK'
    BY <1>3, <1>5, <2>1
  <2>3. \A q \in Processes : moving'[q].at # "idle" =>
           phase[q] # "new" /\ moving'[q].from \in Nicks /\ moving'[q].to \in Nicks
    BY <1>1, <1>3, <1>4
  <2>4. QED BY <2>1, <2>2, <2>3
<1>13. QED BY <1>8, <1>10, <1>11, <1>12

LEMMA StepRename ==
  ASSUME NickInv, NEW p \in Processes, RenameNick(p) \/ RememberRenamed(p)
  PROVE  NickInv'
<1> USE DEF NickInv, NicksTypeOK, NamesKnown
<1> DEFINE h == moving[p]
<1>1. /\ UNCHANGED <<phase, window, chosen, conversation, talk, tokenVars, retired, renames>>
      /\ h.at \in {"row", "remember"} /\ h.from \in Nicks /\ h.to \in Nicks
      /\ nick' \in [Processes -> MaybeNick]
      /\ \A q \in Processes : nick'[q] \in {nick[q], h.to}
      /\ memory' \in [Windows \cup {Directory} -> MaybeNick]
      /\ \E next \in {"remember", "token", "talk"} :
            /\ moving' = [moving EXCEPT ![p].at = next]
            /\ next = "token" => h.at = "row"
            /\ next = "talk" => h.at = "remember"
            /\ next = "remember" => h.from = h.to
  <2>1. h.at \in {"row", "remember"}
    BY DEF RenameNick, RememberRenamed
  <2>2. h.from \in Nicks /\ h.to \in Nicks /\ h.to \in MaybeNick
    BY <2>1 DEF MaybeNick
  <2>3. CASE RenameNick(p)
    BY <2>2, <2>3 DEF RenameNick
  <2>4. CASE RememberRenamed(p)
    <3>1. memory' \in [Windows \cup {Directory} -> MaybeNick]
      BY <2>2, <2>4 DEF RememberRenamed, Remember
    <3>2. QED BY <2>2, <2>4, <3>1 DEF RememberRenamed, running
  <2>5. QED BY <2>3, <2>4
<1>2. PICK then \in {"remember", "token", "talk"} :
            /\ moving' = [moving EXCEPT ![p].at = then]
            /\ then = "token" => h.at = "row"
            /\ then = "talk" => h.at = "remember"
            /\ then = "remember" => h.from = h.to
  BY <1>1
<1>3. h \in Handlers
  OBVIOUS
<1>4. /\ moving' \in [Processes -> Handlers]
      /\ \A q \in Processes \ {p} : moving'[q] = moving[q]
      /\ moving'[p].had = h.had /\ moving'[p].fresh = h.fresh /\ moving'[p].at = then
      /\ moving'[p].from = h.from /\ moving'[p].to = h.to
  BY <1>2, <1>3 DEF Handlers, Steps
<1>5. TokensDiffer' /\ TokenDies'
  BY <1>1, <1>4 DEF TokensDiffer, TokenDies, tokenVars
<1>6. ASSUME NEW q \in Processes PROVE OnItsWay(q)'
  <2>1. CASE q = p
    <3>1. OnItsWay(p) /\ UNCHANGED <<tokens, carried>>
      BY <1>1 DEF tokenVars
    <3>2. h.from # h.to /\ h.at = "row" => then = "token"
      BY <1>2
    <3>3. h.at = "remember" => then # "token"
      BY <1>2
    <3>4. QED BY <1>1, <1>4, <2>1, <3>1, <3>2, <3>3 DEF OnItsWay
  <2>2. CASE q # p
    BY <1>1, <1>4, <2>2 DEF OnItsWay, tokenVars
  <2>3. QED BY <2>1, <2>2
<1>7. NicksTypeOK' /\ NamesKnown'
  BY <1>1, <1>4 DEF tokenVars
<1>8. QED BY <1>5, <1>6, <1>7

(* The last statement; the token the session had is ended.                 *)
LEMMA StepRenameTalk == ASSUME NickInv, NEW p \in Processes, RenameTalk(p) PROVE NickInv'
<1> USE DEF NickInv, NicksTypeOK, NamesKnown, NoToken
<1> DEFINE h == moving[p]
<1>1. /\ UNCHANGED <<running, memory, tokenVars, renames>>
      /\ h.at = "talk" /\ h.to \in Nicks
      /\ talk' = [c \in Talks |-> IF c \in conversation[p] THEN h.to ELSE talk[c]]
      /\ retired' = IF h.fresh /\ h.from # h.to /\ h.had # 0
                    THEN retired \cup {<<p, h.had>>} ELSE retired
      /\ moving' = [moving EXCEPT ![p] = NoMove]
  BY DEF RenameTalk
<1>2. h \in Handlers
  OBVIOUS
<1>3. h.had \in 0..MaxTokens /\ h.had <= minted
  BY <1>2 DEF Handlers, TokensDiffer
<1>4. NoMove \in Handlers /\ NoMove.had = 0 /\ ~NoMove.fresh /\ NoMove.at = "idle"
  BY NicksAssumption DEF NoMove, Handlers, Steps, MaybeNick
<1>5. /\ moving' \in [Processes -> Handlers] /\ moving'[p] = NoMove
      /\ \A q \in Processes \ {p} : moving'[q] = moving[q]
  BY <1>1, <1>4
<1>6. talk' \in [Talks -> MaybeNick]
  BY <1>1 DEF MaybeNick
<1>7. h.had # 0 => h.had \in 1..MaxTokens
  BY <1>3, NicksAssumption
<1>8. retired' \in SUBSET (Processes \X (1..MaxTokens))
  BY <1>1, <1>7
<1>9. TokensDiffer'
  <2>1. minted \in Nat
    BY NicksAssumption
  <2>2. \A q \in Processes : moving'[q].had <= minted
    BY <1>4, <1>5, <2>1 DEF TokensDiffer
  <2>3. \A r \in retired' : r[2] <= minted
    BY <1>1, <1>3 DEF TokensDiffer
  <2>4. QED BY <1>1, <2>2, <2>3 DEF TokensDiffer, tokenVars
<1>10. TokenDies'
  <2>1. OnItsWay(p)
    OBVIOUS
  <2>2. QED BY <1>1, <2>1 DEF TokenDies, OnItsWay, tokenVars
<1>11. \A q \in Processes : OnItsWay(q)'
  BY <1>1, <1>4, <1>5 DEF OnItsWay, tokenVars
<1>12. NicksTypeOK' /\ NamesKnown'
  BY <1>1, <1>4, <1>5, <1>6, <1>8 DEF running, tokenVars
<1>13. QED BY <1>9, <1>10, <1>11, <1>12

(* A rename is asked for, by the session or as it resumes a conversation.  *)
LEMMA Beginning ==
  ASSUME NickInv, NEW p \in Processes, NEW n \in Nicks, NEW fresh \in BOOLEAN,
         phase[p] = "up", BeginRename(p, n, fresh), UNCHANGED <<tokenVars, retired>>
  PROVE  /\ moving' \in [Processes -> Handlers] /\ renames' \in 0..MaxRenames
         /\ \A q \in Processes \ {p} : moving'[q] = moving[q]
         /\ moving'[p].from \in Nicks /\ moving'[p].to \in Nicks
         /\ TokensDiffer' /\ TokenDies' /\ \A q \in Processes : OnItsWay(q)'
<1> USE DEF NickInv, NicksTypeOK, NamesKnown, NoToken
<1> DEFINE h == [at |-> "row", from |-> nick[p], to |-> n, fresh |-> fresh, had |-> tokens[nick[p]]]
<1>1. /\ nick[p] \in Nicks /\ moving' = [moving EXCEPT ![p] = h]
      /\ renames < MaxRenames /\ renames' = renames + 1
  BY DEF BeginRename
<1>2. h \in Handlers
  BY <1>1 DEF Handlers, Steps, MaybeNick
<1>3. renames' \in 0..MaxRenames
  BY <1>1, NicksAssumption
<1>4. /\ moving' \in [Processes -> Handlers] /\ moving'[p] = h
      /\ \A q \in Processes \ {p} : moving'[q] = moving[q]
  BY <1>1, <1>2
<1>5. h.had <= minted
  BY <1>1 DEF TokensDiffer
<1>6. TokensDiffer' /\ TokenDies'
  BY <1>4, <1>5 DEF TokensDiffer, TokenDies, tokenVars
<1>7. OnItsWay(p)'
  BY <1>1, <1>4 DEF TokensDiffer, OnItsWay, tokenVars
<1>8. \A q \in Processes : OnItsWay(q)'
  BY <1>4, <1>7 DEF OnItsWay, tokenVars
<1>9. QED BY <1>1, <1>3, <1>4, <1>6, <1>8

LEMMA StepAskRename ==
  ASSUME NickInv, NEW p \in Processes, NEW n \in Given, NEW fresh \in BOOLEAN,
         AskRename(p, n, fresh)
  PROVE  NickInv'
<1> USE DEF NickInv, NicksTypeOK, NamesKnown
<1>1. /\ phase[p] = "up" /\ BeginRename(p, n, fresh) /\ n \in Nicks
      /\ UNCHANGED <<running, memory, talk, tokenVars, retired>>
  BY DEF AskRename, Nicks
<1>2. QED BY <1>1, Beginning DEF running, tokenVars

LEMMA StepBindSession ==
  ASSUME NickInv, NEW p \in Processes, NEW c \in Talks, BindSession(p, c)
  PROVE  NickInv'
<1> USE DEF NickInv, NicksTypeOK, NamesKnown
<1>1. /\ UNCHANGED <<phase, window, nick, chosen, memory, tokenVars, retired>>
      /\ phase[p] = "up"
      /\ conversation' \in [Processes -> SUBSET Talks]
  BY DEF BindSession
<1>2. CASE UNCHANGED <<moving, renames>>
  <2>1. talk' \in [Talks -> MaybeNick]
    BY <1>2 DEF BindSession, BeginRename
  <2>2. TokensDiffer' /\ (\A q \in Processes : OnItsWay(q)') /\ TokenDies'
    BY <1>1, <1>2, TokensRest
  <2>3. QED BY <1>1, <1>2, <2>1, <2>2 DEF tokenVars
<1>3. CASE talk[c] # NoNick /\ BeginRename(p, talk[c], FALSE) /\ UNCHANGED talk
  <2>1. talk[c] \in Nicks
    BY <1>3 DEF MaybeNick
  <2>2. QED BY <1>1, <1>3, <2>1, Beginning DEF tokenVars
<1>4. QED BY <1>2, <1>3 DEF BindSession

LEMMA StepRestartNicks == ASSUME NickInv, RestartNicks PROVE NickInv'
<1> USE DEF NickInv, NicksTypeOK, NamesKnown
<1>1. NoMove \in Handlers /\ NoMove.had = NoToken /\ ~NoMove.fresh /\ NoMove.at = "idle"
  BY NicksAssumption DEF NoMove, Handlers, Steps, MaybeNick, NoToken
<1>2. /\ UNCHANGED <<window, nick, chosen, conversation, memory, talk, tokenVars, retired, renames>>
      /\ moving' = [p \in Processes |-> NoMove]
      /\ phase' \in [Processes -> {"new", "named", "row", "token", "up", "gone"}]
      /\ \A p \in Processes : phase'[p] # "new" => phase[p] # "new"
  BY DEF RestartNicks, Online
<1>3. TokensDiffer' /\ (\A q \in Processes : OnItsWay(q)') /\ TokenDies'
  BY <1>1, <1>2, TokensRest
<1>4. QED BY <1>1, <1>2, <1>3 DEF tokenVars

LEMMA StepNicks == NickInv /\ [NicksNext]_nickVars => NickInv'
<1> SUFFICES ASSUME NickInv, [NicksNext]_nickVars PROVE NickInv'
  OBVIOUS
<1>1. CASE UNCHANGED nickVars
  BY <1>1 DEF NickInv, NicksTypeOK, NamesKnown, TokensDiffer, OnItsWay, TokenDies,
              nickVars, running, tokenVars
<1>2. ASSUME NEW p \in Processes,
             Start(p) \/ RegisterNick(p) \/ EnsureToken(p) \/ Registered(p) \/ EndProcess(p)
      PROVE  NickInv'
  BY <1>2, StepStart, StepEnsure
<1>3. ASSUME NEW p \in Processes,
             \/ RenameNick(p) \/ MoveToken(p) \/ Rotate(p) \/ RememberRenamed(p) \/ RenameTalk(p)
      PROVE  NickInv'
  BY <1>3, StepRename, StepMoveToken, StepRotate, StepRenameTalk
<1>4. ASSUME NEW p \in Processes,
             \/ \E n \in Given, fresh \in BOOLEAN : AskRename(p, n, fresh)
             \/ \E c \in Talks : BindSession(p, c)
      PROVE  NickInv'
  BY <1>4, StepAskRename, StepBindSession
<1>5. QED BY <1>1, <1>2, <1>3, <1>4, StepRestartNicks DEF NicksNext

-----------------------------------------------------------------------------
(* Calls.  A call that was granted goes to whom its token opened; it has   *)
(* no row before, and one after; what was typed was kept for the session.  *)
Granted(c) ==
    request[c].at = "granted" /\ request[c].via = "http" => request[c].session \in opened[c]

StoredOnce(c) ==
    /\ request[c].at \in {"idle", "open", "asked", "granted"} => kept[c] = NoSession
    /\ request[c].at = "stored" => kept[c] \in Sessions

CallInv ==
    /\ CallsTypeOK /\ CallsSafe
    /\ \A c \in Callers : Granted(c) /\ StoredOnce(c)

LEMMA InitCalls == CallsInit => CallInv
<1> SUFFICES ASSUME CallsInit PROVE CallInv
  OBVIOUS
<1>1. Untried \in Connections /\ Untried.at = "idle"
  BY CallsAssumption DEF Untried, Connections, At
<1>2. CallsTypeOK
  BY <1>1, CallsAssumption DEF CallsInit, CallsTypeOK
<1>3. CallsSafe
  BY DEF CallsInit, CallsSafe, TokenOpensItsOwn, CallHeardOnce
<1>4. QED BY <1>1, <1>2, <1>3 DEF CallInv, CallsInit, Granted, StoredOnce

(* What is typed: each of the calls not typed before, once.                *)
LEMMA TypedIs ==
  ASSUME CallsTypeOK, NEW s \in Sessions, NEW calls, Typed(s, calls)
  PROVE  /\ heard' \in [Sessions -> [Callers -> Nat]]
         /\ \A o \in Sessions, c \in Callers :
               \/ heard'[o][c] = heard[o][c]
               \/ o = s /\ c \in calls /\ heard[o][c] = 0 /\ heard'[o][c] = 1
<1> DEFINE new == [c \in Callers |-> IF c \in calls /\ heard[s][c] = 0 THEN 1 ELSE heard[s][c]]
<1>1. heard \in [Sessions -> [Callers -> Nat]]
  BY DEF CallsTypeOK
<1>2. heard' = [heard EXCEPT ![s] = new]
  BY <1>1 DEF Typed
<1>3. new \in [Callers -> Nat]
  BY <1>1
<1>4. QED BY <1>1, <1>2, <1>3

(* What changes neither a call nor what was heard.                         *)
LEMMA StepSessions ==
  ASSUME CallInv, UNCHANGED <<request, kept, heard, opened>>, CallsTypeOK'
  PROVE  CallInv'
BY DEF CallInv, CallsSafe, TokenOpensItsOwn, CallHeardOnce, Granted, StoredOnce

LEMMA StepRegistry ==
  ASSUME CallsTypeOK, NEW s \in Sessions, NEW n \in Names,
         Enter(s, n) \/ Renames(s, n) \/ Leaves(s) \/ Quieten(s) \/ Deafened(s)
  PROVE  CallsTypeOK' /\ UNCHANGED <<request, kept, heard, opened>>
<1>1. /\ MaxChanges \in Nat /\ MaxMinted \in Nat /\ made \in Nat /\ Unnamed \notin Names
      /\ changes \in Nat
  BY CallsAssumption DEF CallsTypeOK
<1>2. CASE Enter(s, n)
  <2>1. /\ changes + 1 \in 0..MaxChanges /\ changes' = changes + 1
        /\ bearing' = [bearing EXCEPT ![s] = n]
        /\ UNCHANGED <<quiet, sockets, request, kept, marked, listening, heard, opened>>
    BY <1>1, <1>2 DEF Enter, Change, inbox, CallsTypeOK
  <2>2. CASE UNCHANGED <<tokenOf, made>>
    BY <2>1, <2>2 DEF CallsTypeOK
  <2>3. CASE made < MaxMinted /\ made' = made + 1 /\ tokenOf' = [tokenOf EXCEPT ![n] = made + 1]
    <3>1. made + 1 \in 0..MaxMinted /\ made + 1 \in 0..(made + 1)
      BY <1>1, <2>3
    <3>2. \A k \in 0..made : k \in 0..(made + 1) /\ k # made + 1
      BY <1>1
    <3>3. tokenOf' \in [Names -> 0..(made + 1)]
      BY <2>3, <3>1, <3>2 DEF CallsTypeOK
    <3>4. \A a, b \in Names : a # b /\ tokenOf'[a] # 0 => tokenOf'[a] # tokenOf'[b]
      BY <2>3, <3>2 DEF CallsTypeOK
    <3>5. request' \in [Callers -> Connections]
      BY <2>1 DEF CallsTypeOK
    <3>6. QED BY <2>1, <2>3, <3>1, <3>3, <3>4, <3>5 DEF CallsTypeOK
  <2>4. QED BY <1>2, <2>1, <2>2, <2>3 DEF Enter
<1>3. CASE Renames(s, n)
  <2>1. /\ changes + 1 \in 0..MaxChanges /\ changes' = changes + 1
        /\ bearing' = [bearing EXCEPT ![s] = n]
        /\ UNCHANGED <<made, quiet, sockets, request, kept, marked, listening, heard, opened>>
    BY <1>1, <1>3 DEF Renames, Change, inbox, CallsTypeOK
  <2>2. bearing[s] \in Names /\ bearing[s] # n
    BY <1>3 DEF Renames, CallsTypeOK
  <2>3. tokenOf' = [tokenOf EXCEPT ![n] = tokenOf[bearing[s]], ![bearing[s]] = 0]
    BY <1>3 DEF Renames
  <2>4. tokenOf' \in [Names -> 0..made]
    BY <1>1, <2>2, <2>3 DEF CallsTypeOK
  <2>5. \A a, b \in Names : a # b /\ tokenOf'[a] # 0 => tokenOf'[a] # tokenOf'[b]
    BY <2>2, <2>3 DEF CallsTypeOK
  <2>6. QED BY <2>1, <2>4, <2>5 DEF CallsTypeOK
<1>4. CASE Leaves(s)
  BY <1>1, <1>4 DEF Leaves, Change, CallsTypeOK
<1>5. CASE Quieten(s)
  BY <1>5 DEF Quieten, inbox, CallsTypeOK
<1>6. CASE Deafened(s)
  BY <1>1, <1>6 DEF Deafened, Change, registry, CallsTypeOK
<1>7. QED BY <1>2, <1>3, <1>4, <1>5, <1>6

(* The backlog of a connection is of rows kept for the session.            *)
LEMMA StepListens == ASSUME CallInv, NEW s \in Sessions, Listens(s) PROVE CallInv'
<1> DEFINE backlog == {c \in Callers : kept[c] = s /\ c \notin marked}
<1>1. CallsTypeOK /\ CallHeardOnce
  BY DEF CallInv, CallsSafe
<1>2. /\ UNCHANGED <<registry, sockets, request, kept, opened, changes>>
      /\ listening' = listening \cup {s} /\ marked' = marked \cup backlog
      /\ Typed(s, backlog)
  BY DEF Listens
<1>3. /\ heard' \in [Sessions -> [Callers -> Nat]]
      /\ \A o \in Sessions, c \in Callers :
            \/ heard'[o][c] = heard[o][c]
            \/ o = s /\ c \in backlog /\ heard[o][c] = 0 /\ heard'[o][c] = 1
  BY <1>1, <1>2, TypedIs
<1>4. CallsTypeOK'
  BY <1>1, <1>2, <1>3 DEF CallsTypeOK, registry
<1>5. CallHeardOnce'
  BY <1>1, <1>2, <1>3 DEF CallHeardOnce
<1>6. QED
  BY <1>2, <1>4, <1>5 DEF CallInv, CallsSafe, TokenOpensItsOwn, Granted, StoredOnce

(* A caller's next step, without a row or a word typed.                    *)
LEMMA StepCaller ==
  ASSUME CallInv, NEW c \in Callers, NEW r \in Connections, Become(c, r),
         UNCHANGED <<registry, sockets, inbox, changes>>,
         opened' \in [Callers -> SUBSET Sessions],
         \A d \in Callers \ {c} : opened'[d] = opened[d],
         kept[c] = NoSession \/ (r.via = request[c].via /\ opened'[c] = opened[c]),
         r.at \in {"open", "asked", "granted"} => kept[c] = NoSession,
         r.at \in {"open", "asked", "granted", "no"},
         r.at = "granted" /\ r.via = "http" => r.session \in opened'[c]
  PROVE  CallInv'
<1>1. /\ request' = [request EXCEPT ![c] = r] /\ request \in [Callers -> Connections]
      /\ UNCHANGED <<kept, heard>>
  BY DEF Become, CallInv, CallsTypeOK, inbox
<1>2. \A d \in Callers : request'[d] = IF d = c THEN r ELSE request[d]
  BY <1>1
<1>3. CallsTypeOK'
  BY <1>1 DEF CallInv, CallsTypeOK, registry, inbox
<1>4. TokenOpensItsOwn'
  BY <1>1, <1>2 DEF CallInv, CallsSafe, TokenOpensItsOwn
<1>5. CallHeardOnce'
  BY <1>1 DEF CallInv, CallsSafe, CallHeardOnce
<1>6. \A d \in Callers : Granted(d)' /\ StoredOnce(d)'
  BY <1>1, <1>2 DEF CallInv, Granted, StoredOnce
<1>7. QED BY <1>3, <1>4, <1>5, <1>6 DEF CallInv, CallsSafe

(* A connection, what it brings, and its refusal.                          *)
LEMMA StepComing ==
  ASSUME CallInv, NEW c \in Callers,
         Request(c) \/ Reach(c) \/ CallRefused(c) \/ \E whole \in BOOLEAN : Body(c, whole)
  PROVE  CallInv'
<1>1. /\ request[c] \in Connections /\ StoredOnce(c) /\ opened \in [Callers -> SUBSET Sessions]
      /\ sockets \subseteq Names /\ made \in 0..MaxMinted
  BY DEF CallInv, CallsTypeOK
<1>2. UNCHANGED <<registry, sockets, inbox, opened, changes>>
  BY DEF Request, Reach, CallRefused, Body
<1>3. \A t \in 0..made : t \in 0..MaxMinted
  BY <1>1, CallsAssumption
<1>4. CASE Request(c)
  <2>1. PICK n \in Names, t \in 0..made :
           Become(c, [request[c] EXCEPT !.at = "open", !.nick = n, !.token = t])
    BY <1>4 DEF Request
  <2> DEFINE r == [request[c] EXCEPT !.at = "open", !.nick = n, !.token = t]
  <2>2. r \in Connections /\ r.at = "open" /\ kept[c] = NoSession
    BY <1>1, <1>3, <1>4 DEF Connections, At, Request, StoredOnce
  <2>3. Become(c, r)
    BY <2>1
  <2> HIDE DEF r
  <2>4. QED BY <1>1, <1>2, <2>2, <2>3, StepCaller
<1>5. CASE Reach(c)
  <2>1. PICK n \in sockets :
           Become(c, [request[c] EXCEPT !.at = "open", !.via = "socket", !.nick = n])
    BY <1>5 DEF Reach
  <2> DEFINE r == [request[c] EXCEPT !.at = "open", !.via = "socket", !.nick = n]
  <2>2. r \in Connections /\ r.at = "open" /\ kept[c] = NoSession
    BY <1>1, <1>5, <2>1 DEF Connections, At, Reach, StoredOnce
  <2>3. Become(c, r)
    BY <2>1
  <2> HIDE DEF r
  <2>4. QED BY <1>1, <1>2, <2>2, <2>3, StepCaller
<1>6. CASE CallRefused(c)
  <2> DEFINE r == [request[c] EXCEPT !.at = "no"]
  <2>1. r \in Connections /\ r.at = "no" /\ kept[c] = NoSession
    BY <1>1, <1>6 DEF Connections, At, CallRefused, StoredOnce
  <2>2. Become(c, r)
    BY <1>6 DEF CallRefused, GoesTo
  <2> HIDE DEF r
  <2>3. QED BY <1>1, <1>2, <2>1, <2>2, StepCaller
<1>7. ASSUME NEW whole \in BOOLEAN, Body(c, whole) PROVE CallInv'
  <2> DEFINE r == [request[c] EXCEPT !.at = "asked", !.whole = whole]
  <2>1. r \in Connections /\ r.at = "asked" /\ kept[c] = NoSession
    BY <1>1, <1>7 DEF Connections, At, Body, StoredOnce
  <2>2. Become(c, r)
    BY <1>7 DEF Body
  <2> HIDE DEF r
  <2>3. QED BY <1>1, <1>2, <2>1, <2>2, StepCaller
<1>8. QED BY <1>4, <1>5, <1>6, <1>7

(* The nick's one session is who is granted, and whom the token opened.    *)
LEMMA StepAuthorised ==
  ASSUME CallInv, NEW c \in Callers, Dispatch(c) \/ Deliver(c)
  PROVE  CallInv'
<1> DEFINE here == Named(request[c].nick)
           no == [request[c] EXCEPT !.at = "no"]
           yes == [request[c] EXCEPT !.at = "granted", !.session = CHOOSE s \in here : TRUE]
<1>1. /\ request[c] \in Connections /\ kept[c] = NoSession
      /\ opened \in [Callers -> SUBSET Sessions]
  BY DEF CallInv, CallsTypeOK, StoredOnce, Dispatch, Deliver
<1>2. here \subseteq Sessions
  BY DEF Named
<1>3. no \in Connections /\ no.at = "no"
  BY <1>1 DEF Connections, At
<1>4. ASSUME NEW s, here = {s}
      PROVE  yes \in Connections /\ yes.at = "granted" /\ yes.session \in here
  BY <1>1, <1>2, <1>4 DEF Connections, At
<1>5. UNCHANGED <<registry, sockets, inbox, changes>>
  BY DEF Dispatch, Deliver
<1>6. CASE Become(c, no) /\ UNCHANGED opened
  <2> HIDE DEF no
  <2>1. QED BY <1>1, <1>3, <1>5, <1>6, StepCaller
<1>7. CASE Dispatch(c) /\ (\E s : here = {s}) /\ Become(c, yes) /\ opened' = [opened EXCEPT ![c] = here]
  <2>1. yes \in Connections /\ yes.at = "granted" /\ yes.session \in opened'[c]
    BY <1>1, <1>2, <1>4, <1>7
  <2>2. opened' \in [Callers -> SUBSET Sessions] /\ \A d \in Callers \ {c} : opened'[d] = opened[d]
    BY <1>1, <1>2, <1>7
  <2>3. Become(c, yes)
    BY <1>7
  <2> HIDE DEF yes
  <2>4. QED BY <1>1, <1>5, <2>1, <2>2, <2>3, StepCaller
<1>8. CASE Deliver(c) /\ (\E s : here = {s}) /\ Become(c, yes) /\ UNCHANGED opened
  <2>1. yes \in Connections /\ yes.at = "granted" /\ yes.via = "socket"
    BY <1>1, <1>4, <1>8 DEF Deliver, Connections
  <2>2. Become(c, yes)
    BY <1>8
  <2> HIDE DEF yes
  <2>3. QED BY <1>1, <1>5, <1>8, <2>1, <2>2, StepCaller
<1>9. QED BY <1>6, <1>7, <1>8 DEF Dispatch, Deliver, GoesTo

LEMMA StepStore == ASSUME CallInv, NEW c \in Callers, Store(c) PROVE CallInv'
<1> DEFINE s == request[c].session
           no == [request[c] EXCEPT !.at = "no"]
           stored == [request[c] EXCEPT !.at = "stored"]
<1>1. /\ request[c] \in Connections /\ kept[c] = NoSession /\ request[c].at = "granted"
      /\ opened \in [Callers -> SUBSET Sessions] /\ request \in [Callers -> Connections]
      /\ kept \in [Callers -> Sessions \cup {NoSession}]
      /\ request[c].via = "http" => s \in opened[c]
      /\ CallHeardOnce /\ TokenOpensItsOwn /\ \A d \in Callers : Granted(d) /\ StoredOnce(d)
  BY DEF CallInv, CallsSafe, CallsTypeOK, StoredOnce, Granted, Store
<1>2. UNCHANGED <<registry, sockets, marked, listening, heard, opened, changes>>
  BY DEF Store, StoreFor
<1>3. CASE UNCHANGED kept /\ Become(c, no)
  <2>1. no \in Connections /\ no.at = "no"
    BY <1>1 DEF Connections, At
  <2>2. UNCHANGED inbox
    BY <1>2, <1>3 DEF inbox
  <2>3. Become(c, no)
    BY <1>3
  <2> HIDE DEF no
  <2>4. QED BY <1>1, <1>2, <2>1, <2>2, <2>3, StepCaller
<1>4. CASE s # NoSession /\ kept' = [kept EXCEPT ![c] = s] /\ Become(c, stored)
  <2>1. s \in Sessions /\ stored \in Connections /\ stored.at = "stored" /\ stored.via = request[c].via
    BY <1>1, <1>4 DEF Connections, At
  <2>2. /\ request' \in [Callers -> Connections]
        /\ \A d \in Callers : request'[d] = IF d = c THEN stored ELSE request[d]
    BY <1>1, <1>4, <2>1 DEF Become
  <2>3. /\ kept' \in [Callers -> Sessions \cup {NoSession}]
        /\ \A d \in Callers : kept'[d] = IF d = c THEN s ELSE kept[d]
    BY <1>1, <1>4, <2>1
  <2> HIDE DEF stored, s
  <2>4. CallsTypeOK'
    BY <1>2, <2>2, <2>3 DEF CallInv, CallsTypeOK, registry
  <2>5. TokenOpensItsOwn'
    BY <1>1, <1>2, <2>1, <2>2, <2>3 DEF TokenOpensItsOwn, s
  <2>6. CallHeardOnce'
    <3>1. \A o \in Sessions : ~(heard[o][c] > 0)
      BY <1>1, CallsAssumption DEF CallHeardOnce
    <3>2. QED BY <1>1, <1>2, <2>3, <3>1 DEF CallHeardOnce
  <2>7. \A d \in Callers : Granted(d)' /\ StoredOnce(d)'
    BY <1>1, <1>2, <2>1, <2>2, <2>3 DEF Granted, StoredOnce
  <2>8. QED BY <2>4, <2>5, <2>6, <2>7 DEF CallInv, CallsSafe
<1>5. QED BY <1>3, <1>4 DEF Store, StoreFor, GoesTo

LEMMA StepPublishCall == ASSUME CallInv, NEW c \in Callers, Publish(c) PROVE CallInv'
<1> DEFINE finished == [request[c] EXCEPT !.at = "ok"]
<1>1. /\ request[c] \in Connections /\ request \in [Callers -> Connections]
      /\ kept[c] \in Sessions /\ CallsTypeOK /\ CallHeardOnce /\ TokenOpensItsOwn
      /\ \A d \in Callers : Granted(d) /\ StoredOnce(d)
  BY DEF CallInv, CallsSafe, CallsTypeOK, StoredOnce, Publish
<1>2. /\ UNCHANGED <<registry, sockets, kept, marked, listening, opened, changes>>
      /\ request' = [request EXCEPT ![c] = finished]
      /\ Typed(kept[c], {c}) \/ UNCHANGED heard
  BY DEF Publish, GoesTo, Become
<1>3. finished \in Connections /\ finished.at = "ok" /\ finished.via = request[c].via
  BY <1>1 DEF Connections, At
<1>4. /\ request' \in [Callers -> Connections]
      /\ \A d \in Callers : request'[d] = IF d = c THEN finished ELSE request[d]
  BY <1>1, <1>2, <1>3
<1>5. /\ heard' \in [Sessions -> [Callers -> Nat]]
      /\ \A o \in Sessions, d \in Callers :
            \/ heard'[o][d] = heard[o][d]
            \/ o = kept[c] /\ d = c /\ heard'[o][d] = 1
  <2>1. CASE Typed(kept[c], {c})
    BY <1>1, <2>1, TypedIs
  <2>2. CASE UNCHANGED heard
    BY <1>1, <2>2 DEF CallsTypeOK
  <2>3. QED BY <1>2, <2>1, <2>2
<1> HIDE DEF finished
<1>6. CallsTypeOK'
  BY <1>1, <1>2, <1>4, <1>5 DEF CallsTypeOK, registry
<1>7. CallHeardOnce'
  BY <1>1, <1>2, <1>5 DEF CallHeardOnce
<1>8. TokenOpensItsOwn'
  BY <1>1, <1>2, <1>3, <1>4 DEF TokenOpensItsOwn
<1>9. \A d \in Callers : Granted(d)' /\ StoredOnce(d)'
  BY <1>1, <1>2, <1>3, <1>4 DEF Granted, StoredOnce
<1>10. QED BY <1>6, <1>7, <1>8, <1>9 DEF CallInv, CallsSafe

LEMMA StepCalls == CallInv /\ [CallsNext]_callsVars => CallInv'
<1> SUFFICES ASSUME CallInv, [CallsNext]_callsVars PROVE CallInv'
  OBVIOUS
<1>0. CallsTypeOK
  BY DEF CallInv
<1>1. ASSUME NEW s \in Sessions, NEW n \in Names,
             Enter(s, n) \/ Renames(s, n) \/ Leaves(s) \/ Quieten(s) \/ Deafened(s)
      PROVE  CallInv'
  BY <1>0, <1>1, StepRegistry, StepSessions
<1>2. CASE Reconcile
  <2>1. /\ UNCHANGED <<registry, request, inbox, opened, changes>>
        /\ sockets' = {bearing[s] : s \in Sessions} \ {Unnamed}
    BY <1>2 DEF Reconcile
  <2>2. CallsTypeOK' /\ UNCHANGED <<request, kept, heard, opened>>
    BY <1>0, <2>1 DEF CallsTypeOK, registry, inbox
  <2>3. QED BY <2>2, StepSessions
<1>3. CASE UNCHANGED callsVars
  <2>1. CallsTypeOK' /\ UNCHANGED <<request, kept, heard, opened>>
    BY <1>0, <1>3 DEF callsVars, registry, inbox, CallsTypeOK
  <2>2. QED BY <2>1, StepSessions
<1>4. Names # {}
  BY CallsAssumption
<1>5. QED
  BY <1>1, <1>2, <1>3, <1>4, StepListens, StepComing, StepAuthorised, StepStore, StepPublishCall
     DEF CallsNext

(* Whatever its nick, its namesakes and its end: what comes with a token   *)
(* goes to the session the token was for and is typed there once, and a    *)
(* token that a rename was to end is nobody's unless a namesake took it    *)
(* along (agent_registry.rs, callback.rs, agent_socket.rs).                *)
THEOREM TokensAreTheirOwn == SessionsSpec => []TokensOpenTheirOwn
<1>1. SessionsInit => NickInv /\ CallInv
  BY InitNicks, InitCalls DEF SessionsInit
<1>2. NickInv /\ CallInv /\ [SessionsNext]_sessionsVars => NickInv' /\ CallInv'
  BY SessionsParts, StepNicks, StepCalls
<1>3. NickInv /\ CallInv => TokensOpenTheirOwn
  BY DEF NickInv, CallInv, TokensOpenTheirOwn
<1>4. QED BY <1>1, <1>2, <1>3, PTL DEF SessionsSpec

-----------------------------------------------------------------------------
(* Reminders.  An entry is once among the deliveries of a tick, and still  *)
(* due; a row that is left is of the delivery at work or of one cut short; *)
(* what came of an entry that is due, but for what was cut short, came by  *)
(* the delivery at work.                                                   *)
AtWork == tick # <<>> /\ step # "store"

OneEach ==
    /\ \A i \in 1..Len(tick) : tick[i].entry \in due
    /\ \A i, j \in 1..Len(tick) : tick[i].entry = tick[j].entry => i = j

RowsLeft ==
    \A r \in rows : r.id \in cut \/ (AtWork /\ step # "reschedule" /\ r = Row)

CameByWork ==
    \A e \in due : \A i \in told[e] \ cut :
       AtWork /\ e = Head(tick).entry /\ i = sent /\ gotThrough

RemindInv ==
    /\ RemindersTypeOK /\ RemindsOnce
    /\ OneEach /\ RowsLeft /\ CameByWork
    /\ AtWork => sent > 0
    /\ step # "store" => tick # <<>>
    /\ step \in {"store", "publish"} => ~gotThrough

LEMMA InitRemind == RemindersInit => RemindInv
<1> SUFFICES ASSUME RemindersInit PROVE RemindInv
  OBVIOUS
<1>1. RemindersTypeOK
  <2>1. tick \in Seq(Deliveries)
    BY DEF RemindersInit
  <2>2. /\ typed \in [Authors -> SUBSET (1..sent)] /\ told \in [Entries -> SUBSET (1..sent)]
        /\ rows \subseteq [id : 1..sent, entry : Entries, session : Authors]
    BY DEF RemindersInit
  <2>3. sent \in 0..MaxSent /\ turns \in 0..MaxTurns
    BY RemindersAssumption DEF RemindersInit
  <2>4. QED BY <2>1, <2>2, <2>3 DEF RemindersInit, RemindersTypeOK
<1>2. RemindsOnce /\ OneEach /\ RowsLeft /\ CameByWork
  BY DEF RemindersInit, RemindsOnce, OneEach, RowsLeft, CameByWork
<1>3. QED BY <1>1, <1>2 DEF RemindInv, RemindersInit, AtWork

(* The delivery at work, and the ones after it.                            *)
LEMMA TickIs ==
  ASSUME RemindersTypeOK, tick # <<>>
  PROVE  /\ Head(tick) = tick[1] /\ 1 \in 1..Len(tick) /\ Len(tick) \in Nat
         /\ Head(tick) \in Deliveries
         /\ Head(tick).entry \in Entries /\ Head(tick).session \in Authors
         /\ Tail(tick) \in Seq(Deliveries)
         /\ \A i \in 1..Len(Tail(tick)) :
               i \in Nat /\ i + 1 \in 1..Len(tick) /\ Tail(tick)[i] = tick[i + 1]
<1>1. tick \in Seq(Deliveries)
  BY DEF RemindersTypeOK
<1>2. /\ Head(tick) \in Deliveries /\ Tail(tick) \in Seq(Deliveries)
  BY <1>1, HeadTailProperties
<1>3. Len(tick) \in Nat /\ Len(tick) # 0
  BY <1>1, LenProperties, EmptySeq
<1>4. /\ Len(Tail(tick)) = Len(tick) - 1
      /\ \A i \in 1..Len(Tail(tick)) : Tail(tick)[i] = tick[i + 1]
  BY <1>1, HeadTailProperties
<1>5. QED BY <1>1, <1>2, <1>3, <1>4 DEF Deliveries

LEMMA RowIs ==
  ASSUME RemindersTypeOK, tick # <<>>, sent > 0
  PROVE  /\ Row \in [id : 1..sent, entry : Entries, session : Authors]
         /\ Row.id = sent /\ Row.entry = Head(tick).entry /\ Row.session = Head(tick).session
<1>1. sent \in 1..sent
  BY RemindersAssumption DEF RemindersTypeOK
<1>2. QED BY <1>1, TickIs DEF Row

(* Only rows that come are told, each of its entry.                        *)
LEMMA ComesIs ==
  ASSUME RemindersTypeOK, NEW s \in Authors, NEW rs,
         rs \subseteq [id : 1..sent, entry : Entries, session : Authors], Comes(s, rs)
  PROVE  /\ typed' \in [Authors -> SUBSET (1..sent)] /\ told' \in [Entries -> SUBSET (1..sent)]
         /\ \A e \in Entries : \A i \in told'[e] :
               i \in told[e] \/ \E r \in rs : r.id = i /\ r.entry = e
<1> DEFINE fresh == {r \in rs : r.id \notin typed[s]}
<1>1. /\ typed \in [Authors -> SUBSET (1..sent)] /\ told \in [Entries -> SUBSET (1..sent)]
      /\ typed' = [typed EXCEPT ![s] = @ \cup {r.id : r \in fresh}]
      /\ told' = [e \in Entries |-> told[e] \cup {r.id : r \in {q \in fresh : q.entry = e}}]
  BY DEF RemindersTypeOK, Comes
<1>2. \A r \in rs : r.id \in 1..sent
  OBVIOUS
<1>3. {r.id : r \in fresh} \subseteq 1..sent
  BY <1>2
<1>4. typed' \in [Authors -> SUBSET (1..sent)]
  BY <1>1, <1>3
<1>5. \A e \in Entries : {r.id : r \in {q \in fresh : q.entry = e}} \subseteq 1..sent
  BY <1>2
<1>6. told' \in [Entries -> SUBSET (1..sent)]
  BY <1>1, <1>5
<1>7. QED BY <1>1, <1>4, <1>6

LEMMA TurnIs ==
  ASSUME RemindersTypeOK, Turn
  PROVE  turns' \in 0..MaxTurns
<1>1. turns \in 0..MaxTurns /\ turns < MaxTurns /\ turns' = turns + 1
  BY DEF RemindersTypeOK, Turn
<1>2. turns + 1 \in 0..MaxTurns
  BY <1>1, RemindersAssumption
<1>3. QED BY <1>1, <1>2

(* A delivery is over: what follows in the tick is of other entries.       *)
LEMMA DropIs ==
  ASSUME RemindersTypeOK, OneEach, tick # <<>>, Drop
  PROVE  /\ tick' \in Seq(Deliveries) /\ step' = "store" /\ gotThrough' = FALSE
         /\ \A i \in 1..Len(tick') : tick'[i].entry \in due \ {Head(tick).entry}
         /\ \A i, j \in 1..Len(tick') : tick'[i].entry = tick'[j].entry => i = j
<1> DEFINE rest == Tail(tick)
<1>1. tick' = rest /\ step' = "store" /\ gotThrough' = FALSE
  BY DEF Drop
<1>2. /\ Head(tick) = tick[1] /\ 1 \in 1..Len(tick) /\ rest \in Seq(Deliveries)
      /\ \A i \in 1..Len(rest) : i \in Nat /\ i + 1 \in 1..Len(tick) /\ rest[i] = tick[i + 1]
  BY TickIs
<1> HIDE DEF rest
<1>3. \A i \in 1..Len(rest) : rest[i].entry \in due \ {Head(tick).entry}
  <2> TAKE i \in 1..Len(rest)
  <2>1. i + 1 # 1 /\ i + 1 \in 1..Len(tick) /\ rest[i] = tick[i + 1]
    <3>1. i \in 1..Len(rest) /\ i \in Nat
      BY <1>2
    <3>2. i # 0
      BY <3>1
    <3>3. QED BY <1>2, <3>1, <3>2
  <2>2. QED BY <1>2, <2>1 DEF OneEach
<1>4. \A i, j \in 1..Len(rest) : rest[i].entry = rest[j].entry => i = j
  <2> TAKE i, j \in 1..Len(rest)
  <2> HAVE rest[i].entry = rest[j].entry
  <2>1. /\ i \in Nat /\ i + 1 \in 1..Len(tick) /\ rest[i] = tick[i + 1]
        /\ j \in Nat /\ j + 1 \in 1..Len(tick) /\ rest[j] = tick[j + 1]
    BY <1>2
  <2>2. i + 1 = j + 1
    BY <2>1 DEF OneEach
  <2>3. QED BY <2>1, <2>2
<1>5. QED BY <1>1, <1>2, <1>3, <1>4

(* What leaves the deliveries, the rows and what is due alone.             *)
LEMMA StepPeople ==
  ASSUME RemindInv, UNCHANGED <<due, work, inboxes>>, RemindersTypeOK'
  PROVE  RemindInv'
<1>1. UNCHANGED <<due, tick, step, gotThrough, rows, sent, typed, told, cut>>
  BY DEF work, inboxes
<1>2. QED
  BY <1>1 DEF RemindInv, RemindsOnce, OneEach, RowsLeft, CameByWork, AtWork, Row

(* What comes as backlog is of a delivery cut short, before or by this.    *)
LEMMA StepHears == ASSUME RemindInv, NEW s \in Authors, Hears(s) PROVE RemindInv'
<1> DEFINE mine == {r \in rows : r.session = s}
<1>1. /\ RemindersTypeOK /\ RemindsOnce /\ OneEach /\ RowsLeft /\ CameByWork
      /\ AtWork => sent > 0
  BY DEF RemindInv
<1>2. /\ UNCHANGED <<bears, dnd, entries, due, work, sent, turns>>
      /\ deaf' = deaf \ {s} /\ rows' = rows \ mine /\ Comes(s, mine)
      /\ IF AtWork /\ Row \in mine THEN cut' = cut \cup {sent} ELSE cut' = cut
  BY DEF Hears, CutShort, AtWork
<1>3. mine \subseteq [id : 1..sent, entry : Entries, session : Authors]
  BY <1>1 DEF RemindersTypeOK
<1>4. /\ typed' \in [Authors -> SUBSET (1..sent)] /\ told' \in [Entries -> SUBSET (1..sent)]
      /\ \A e \in Entries : \A i \in told'[e] :
            i \in told[e] \/ \E r \in mine : r.id = i /\ r.entry = e
  BY <1>1, <1>2, <1>3, ComesIs
<1>5. cut \subseteq cut' /\ cut' \subseteq 1..sent
  <2>1. AtWork => sent \in 1..sent
    BY <1>1, RemindersAssumption DEF RemindersTypeOK
  <2>2. QED BY <1>1, <1>2, <2>1 DEF RemindersTypeOK
<1>6. \A r \in mine : r.id \in cut'
  <2> TAKE r \in mine
  <2>1. r.id \in cut \/ (AtWork /\ r = Row)
    BY <1>1 DEF RowsLeft
  <2>2. Row.id = sent
    BY DEF Row
  <2>3. QED BY <1>2, <1>5, <2>1, <2>2
<1>7. \A e \in Entries : told'[e] \ cut' \subseteq told[e] \ cut
  BY <1>4, <1>5, <1>6
<1>8. RemindersTypeOK'
  BY <1>1, <1>2, <1>4, <1>5 DEF RemindersTypeOK, entries, work
<1>9. UNCHANGED <<due, tick, step, gotThrough, sent>>
  BY <1>2 DEF work
<1>10. RemindsOnce'
  BY <1>1, <1>7 DEF RemindsOnce
<1>11. OneEach'
  BY <1>1, <1>9 DEF OneEach
<1>12. RowsLeft'
  BY <1>1, <1>2, <1>5, <1>9 DEF RowsLeft, AtWork, Row
<1>13. CameByWork'
  <2>1. due \subseteq Entries
    BY <1>1 DEF RemindersTypeOK
  <2>2. QED BY <1>1, <1>7, <1>9, <2>1 DEF CameByWork, AtWork
<1>14. QED
  BY <1>8, <1>9, <1>10, <1>11, <1>12, <1>13 DEF RemindInv, AtWork

LEMMA StepFalls == ASSUME RemindInv, NEW e \in Entries, Falls(e) PROVE RemindInv'
<1>1. /\ RemindersTypeOK /\ RemindsOnce /\ OneEach /\ RowsLeft /\ CameByWork
  BY DEF RemindInv
<1>2. /\ UNCHANGED <<people, entries, work, rows, sent, typed, cut, turns>>
      /\ due' = due \cup {e} /\ told' = [told EXCEPT ![e] = {}]
  BY DEF Falls
<1>3. UNCHANGED <<tick, step, gotThrough, rows, sent, cut>>
  BY <1>2 DEF work
<1>4. told' \in [Entries -> SUBSET (1..sent)] /\ \A d \in Entries : told'[d] = IF d = e THEN {} ELSE told[d]
  BY <1>1, <1>2 DEF RemindersTypeOK
<1>5. RemindersTypeOK'
  BY <1>1, <1>2, <1>4 DEF RemindersTypeOK, people, entries, work
<1>6. RemindsOnce' /\ OneEach' /\ RowsLeft'
  BY <1>1, <1>2, <1>3, <1>4 DEF RemindsOnce, OneEach, RowsLeft, AtWork, Row
<1>7. CameByWork'
  BY <1>1, <1>2, <1>3, <1>4 DEF CameByWork, AtWork, RemindersTypeOK
<1>8. QED BY <1>3, <1>5, <1>6, <1>7 DEF RemindInv, AtWork

(* A tick starts: every delivery is of an entry of its own.                *)
LEMMA StepCollect == ASSUME RemindInv, Collect PROVE RemindInv'
<1> DEFINE found == {e \in due \cap open : OnlineAuthor(e) # {}}
           to == [e \in found |-> [entry |-> e, session |-> CHOOSE s \in OnlineAuthor(e) : TRUE]]
           all == {to[e] : e \in found}
<1>1. /\ RemindersTypeOK /\ RemindsOnce /\ OneEach /\ RowsLeft /\ CameByWork
      /\ tick = <<>> /\ ~AtWork
  BY DEF RemindInv, Collect, AtWork
<1>2. /\ step' = "store" /\ gotThrough' = FALSE
      /\ UNCHANGED <<people, entries, due, inboxes, turns>>
  BY DEF Collect
<1>3. tick' \in SetToSeqs(all)
  <2>1. all = {[entry |-> e, session |-> CHOOSE s \in OnlineAuthor(e) : TRUE] : e \in found}
    OBVIOUS
  <2>2. QED BY <2>1 DEF Collect
<1>4. found \subseteq due /\ found \subseteq Entries
  BY <1>1 DEF RemindersTypeOK
<1>5. \A e \in found : to[e] \in Deliveries /\ to[e].entry = e
  <2> TAKE e \in found
  <2>1. OnlineAuthor(e) \subseteq Authors /\ OnlineAuthor(e) # {}
    BY DEF OnlineAuthor
  <2>2. QED BY <1>4, <2>1 DEF Deliveries
<1>6. IsFiniteSet(all)
  <2>1. IsFiniteSet(found)
    BY <1>4, FS_Subset, RemindersAssumption
  <2>2. to \in Surjection(found, all)
    BY DEF Surjection
  <2>3. QED BY <2>1, <2>2, FS_Surjection
<1> DEFINE n == Cardinality(all)
<1>7. n \in Nat
  BY <1>6, FS_CardinalityType
<1>8. tick' \in [1..n -> all] /\ \A i, j \in 1..n : i # j => tick'[i] # tick'[j]
  BY <1>3 DEF SetToSeqs, IsInjective
<1>9. \A d \in all : d \in Deliveries /\ d.entry \in due /\ d = to[d.entry]
  BY <1>4, <1>5
<1> HIDE DEF n, all, to
<1>10. PICK q : q = tick'
  OBVIOUS
<1>11. q \in [1..n -> all]
  BY <1>8, <1>10
<1>12. q \in [1..n -> Deliveries]
  BY <1>9, <1>11
<1>13. q \in Seq(Deliveries) /\ Len(q) = n
  <2>1. q \in Seq(Deliveries)
    BY <1>7, <1>12, SeqDef
  <2>2. Len(q) \in Nat /\ DOMAIN q = 1..Len(q)
    BY <2>1, LenProperties
  <2>3. DOMAIN q = 1..n
    BY <1>12
  <2>4. \A k, m \in Nat : 1..k = 1..m => k = m
    <3> SUFFICES ASSUME NEW k \in Nat, NEW m \in Nat, 1..k = 1..m PROVE k = m
      OBVIOUS
    <3>1. k \in 1..k => k \in 1..m
      OBVIOUS
    <3>2. m \in 1..m => m \in 1..k
      OBVIOUS
    <3>3. QED BY <3>1, <3>2
  <2>5. QED BY <1>7, <2>1, <2>2, <2>3, <2>4
<1>14. /\ \A i \in 1..n : q[i].entry \in due
       /\ \A i, j \in 1..n : q[i].entry = q[j].entry => i = j
  BY <1>8, <1>9, <1>10, <1>11
<1>15. RemindersTypeOK'
  BY <1>1, <1>2, <1>10, <1>13 DEF RemindersTypeOK, people, entries, inboxes
<1>16. OneEach'
  BY <1>2, <1>10, <1>13, <1>14 DEF OneEach
<1>17. RemindsOnce' /\ RowsLeft' /\ CameByWork'
  BY <1>1, <1>2 DEF RemindsOnce, RowsLeft, CameByWork, inboxes
<1>18. QED BY <1>2, <1>15, <1>16, <1>17 DEF RemindInv, AtWork

(* A delivery that does not begin, or one that goes on to its row.         *)
LEMMA StepStoreRow == ASSUME RemindInv, StoreRow PROVE RemindInv'
<1>1. /\ RemindersTypeOK /\ RemindsOnce /\ OneEach /\ RowsLeft /\ CameByWork
      /\ tick # <<>> /\ step = "store" /\ ~AtWork /\ gotThrough = FALSE
  BY DEF RemindInv, StoreRow, Work, AtWork, RemindersTypeOK
<1>2. UNCHANGED <<people, entries, due, typed, told, cut>>
  BY DEF StoreRow
<1>3. CASE Drop /\ UNCHANGED <<rows, sent>>
  <2>1. turns' \in 0..MaxTurns
    BY <1>1, RemindersAssumption DEF StoreRow, Turn, RemindersTypeOK, Work
  <2>2. /\ tick' \in Seq(Deliveries) /\ step' = "store" /\ gotThrough' = FALSE
        /\ \A i \in 1..Len(tick') : tick'[i].entry \in due \ {Head(tick).entry}
        /\ \A i, j \in 1..Len(tick') : tick'[i].entry = tick'[j].entry => i = j
    BY <1>1, <1>3, DropIs
  <2>3. RemindersTypeOK'
    BY <1>1, <1>2, <1>3, <2>1, <2>2 DEF RemindersTypeOK, people, entries
  <2>4. OneEach'
    BY <1>2, <2>2 DEF OneEach
  <2>5. RemindsOnce' /\ RowsLeft' /\ CameByWork'
    BY <1>1, <1>2, <1>3 DEF RemindsOnce, RowsLeft, CameByWork
  <2>6. QED BY <2>2, <2>3, <2>4, <2>5 DEF RemindInv, AtWork
<1>4. CASE /\ sent < MaxSent /\ sent' = sent + 1 /\ step' = "publish"
           /\ rows' = rows \cup {[Row EXCEPT !.id = sent + 1]}
           /\ UNCHANGED <<tick, gotThrough, turns>>
  <2>1. sent + 1 \in 0..MaxSent /\ sent + 1 \in 1..(sent + 1) /\ sent + 1 > 0
    BY <1>1, <1>4, RemindersAssumption DEF RemindersTypeOK
  <2>2. 1..sent \subseteq 1..(sent + 1)
    BY <1>1, RemindersAssumption DEF RemindersTypeOK
  <2> DEFINE new == [id |-> sent + 1, entry |-> Head(tick).entry, session |-> Head(tick).session]
  <2>3. rows' = rows \cup {new} /\ new.id = sent + 1
    BY <1>4 DEF Row
  <2>4. new \in [id : 1..(sent + 1), entry : Entries, session : Authors]
    BY <1>1, <2>1, TickIs
  <2>5. Row' = new
    BY <1>4 DEF Row
  <2>6. rows' \subseteq [id : 1..(sent + 1), entry : Entries, session : Authors]
    <3>1. rows \subseteq [id : 1..(sent + 1), entry : Entries, session : Authors]
      BY <1>1, <2>2 DEF RemindersTypeOK
    <3>2. QED BY <2>3, <2>4, <3>1
  <2>7. /\ typed \in [Authors -> SUBSET (1..(sent + 1))] /\ cut \subseteq 1..(sent + 1)
        /\ told \in [Entries -> SUBSET (1..(sent + 1))]
    BY <1>1, <2>2 DEF RemindersTypeOK
  <2>8. RemindersTypeOK'
    BY <1>1, <1>2, <1>4, <2>1, <2>6, <2>7 DEF RemindersTypeOK, people, entries
  <2>9. AtWork'
    BY <1>1, <1>4 DEF AtWork
  <2>10. RowsLeft'
    BY <1>1, <1>2, <1>4, <2>3, <2>5, <2>9 DEF RowsLeft
  <2>11. OneEach' /\ RemindsOnce' /\ CameByWork'
    BY <1>1, <1>2, <1>4 DEF OneEach, RemindsOnce, CameByWork
  <2>12. QED BY <1>1, <1>4, <2>1, <2>8, <2>10, <2>11 DEF RemindInv, AtWork
<1>5. QED BY <1>3, <1>4 DEF StoreRow

(* The frame: the entry has been told nobody since it fell due.            *)
LEMMA StepPublishFrame == ASSUME RemindInv, PublishFrame PROVE RemindInv'
<1> DEFINE d == Head(tick)
<1>1. /\ RemindersTypeOK /\ RemindsOnce /\ OneEach /\ RowsLeft /\ CameByWork
      /\ tick # <<>> /\ step = "publish" /\ AtWork /\ ~gotThrough /\ sent > 0
  BY DEF RemindInv, PublishFrame, Work, AtWork
<1>2. /\ UNCHANGED <<people, entries, due, tick, rows, sent, cut, turns>>
      /\ step' = "mark" /\ gotThrough' = (d.session \notin deaf)
      /\ IF d.session \notin deaf THEN Comes(d.session, {Row}) ELSE UNCHANGED <<typed, told>>
  BY DEF PublishFrame
<1>3. d.entry \in Entries /\ d.session \in Authors /\ d.entry \in due
  BY <1>1, TickIs DEF OneEach
<1>4. /\ Row \in [id : 1..sent, entry : Entries, session : Authors]
      /\ Row.id = sent /\ Row.entry = d.entry
  BY <1>1, RowIs
<1>5. /\ typed' \in [Authors -> SUBSET (1..sent)] /\ told' \in [Entries -> SUBSET (1..sent)]
      /\ \A e \in Entries : \A i \in told'[e] :
            i \in told[e] \/ (d.session \notin deaf /\ i = sent /\ e = d.entry)
  <2>1. CASE d.session \notin deaf
    <3>1. {Row} \subseteq [id : 1..sent, entry : Entries, session : Authors]
      BY <1>4
    <3>2. Comes(d.session, {Row})
      BY <1>2, <2>1
    <3>3. /\ typed' \in [Authors -> SUBSET (1..sent)] /\ told' \in [Entries -> SUBSET (1..sent)]
          /\ \A e \in Entries : \A i \in told'[e] :
                i \in told[e] \/ \E r \in {Row} : r.id = i /\ r.entry = e
      BY <1>1, <1>3, <3>1, <3>2, ComesIs
    <3>4. QED BY <1>4, <2>1, <3>3
  <2>2. CASE d.session \in deaf
    BY <1>1, <1>2, <2>2 DEF RemindersTypeOK
  <2>3. QED BY <2>1, <2>2
<1>6. \A e \in due : told[e] \ cut = {}
  BY <1>1 DEF CameByWork
<1>7. RemindersTypeOK'
  BY <1>1, <1>2, <1>5 DEF RemindersTypeOK, people, entries
<1>8. RemindsOnce'
  <2> SUFFICES ASSUME NEW e \in Entries, NEW i \in told'[e] \ cut, NEW j \in told'[e] \ cut
               PROVE  i = j
    BY <1>2 DEF RemindsOnce
  <2>1. CASE e = d.entry
    BY <1>3, <1>5, <1>6, <2>1
  <2>2. CASE e # d.entry
    BY <1>1, <1>5, <2>2 DEF RemindsOnce
  <2>3. QED BY <2>1, <2>2
<1>9. OneEach' /\ RowsLeft' /\ AtWork'
  BY <1>1, <1>2 DEF OneEach, RowsLeft, AtWork, Row
<1>10. CameByWork'
  <2>1. due \subseteq Entries
    BY <1>1 DEF RemindersTypeOK
  <2>2. \A e \in due : \A i \in told'[e] \ cut : d.session \notin deaf /\ i = sent /\ e = d.entry
    BY <1>5, <1>6, <2>1
  <2>3. QED BY <1>2, <1>9, <2>2 DEF CameByWork
<1>11. QED BY <1>1, <1>2, <1>7, <1>8, <1>9, <1>10 DEF RemindInv, AtWork

(* The row is marked, or its delivery is one cut short.                    *)
LEMMA StepMarkRow == ASSUME RemindInv, MarkRow PROVE RemindInv'
<1>1. /\ RemindersTypeOK /\ RemindsOnce /\ OneEach /\ RowsLeft /\ CameByWork
      /\ tick # <<>> /\ step = "mark" /\ AtWork /\ sent > 0
  BY DEF RemindInv, MarkRow, Work, AtWork
<1>2. /\ UNCHANGED <<people, entries, due, sent, typed, told>> /\ Onward
      /\ \/ rows' = rows \ {Row} /\ UNCHANGED <<cut, turns>>
         \/ Turn /\ cut' = cut \cup {sent} /\ UNCHANGED rows
  BY DEF MarkRow, CutShort
<1>3. /\ turns' \in 0..MaxTurns /\ rows' \subseteq rows /\ cut \subseteq cut'
      /\ cut' \subseteq 1..sent
  <2>1. sent \in 1..sent
    BY <1>1, RemindersAssumption DEF RemindersTypeOK
  <2>2. Turn => turns' \in 0..MaxTurns
    BY <1>1, TurnIs
  <2>3. turns \in 0..MaxTurns /\ cut \subseteq 1..sent
    BY <1>1 DEF RemindersTypeOK
  <2>4. QED BY <1>2, <2>1, <2>2, <2>3
<1>4. Row.id = sent
  BY DEF Row
<1>5. \A r \in rows' : r.id \in cut'
  BY <1>1, <1>2, <1>4 DEF RowsLeft
<1>6. RemindsOnce' /\ RowsLeft'
  BY <1>1, <1>2, <1>3, <1>5 DEF RemindsOnce, RowsLeft
<1>7. CASE gotThrough /\ step' = "reschedule" /\ UNCHANGED <<tick, gotThrough>>
  <2>1. RemindersTypeOK'
    BY <1>1, <1>2, <1>3, <1>7 DEF RemindersTypeOK, people, entries
  <2>2. OneEach' /\ CameByWork' /\ AtWork'
    BY <1>1, <1>2, <1>3, <1>7 DEF OneEach, CameByWork, AtWork
  <2>3. QED BY <1>1, <1>2, <1>6, <1>7, <2>1, <2>2 DEF RemindInv, AtWork
<1>8. CASE ~gotThrough /\ Drop
  <2>1. /\ tick' \in Seq(Deliveries) /\ step' = "store" /\ gotThrough' = FALSE
        /\ \A i \in 1..Len(tick') : tick'[i].entry \in due \ {Head(tick).entry}
        /\ \A i, j \in 1..Len(tick') : tick'[i].entry = tick'[j].entry => i = j
    BY <1>1, <1>8, DropIs
  <2>2. RemindersTypeOK'
    BY <1>1, <1>2, <1>3, <2>1 DEF RemindersTypeOK, people, entries
  <2>3. OneEach'
    BY <1>2, <2>1 DEF OneEach
  <2>4. CameByWork'
    BY <1>1, <1>2, <1>3, <1>8 DEF CameByWork
  <2>5. QED BY <1>6, <2>1, <2>2, <2>3, <2>4 DEF RemindInv, AtWork
<1>9. QED BY <1>2, <1>7, <1>8 DEF Onward

(* The entry is no longer due, or its delivery is one cut short.           *)
LEMMA StepReschedule == ASSUME RemindInv, Reschedule PROVE RemindInv'
<1>1. /\ RemindersTypeOK /\ RemindsOnce /\ OneEach /\ RowsLeft /\ CameByWork
      /\ tick # <<>> /\ step = "reschedule" /\ AtWork /\ sent > 0
  BY DEF RemindInv, Reschedule, Work, AtWork
<1>2. /\ UNCHANGED <<people, entries, rows, sent, typed, told>> /\ Drop
      /\ \/ due' = due \ {Head(tick).entry} /\ UNCHANGED <<cut, turns>>
         \/ Turn /\ cut' = cut \cup {sent} /\ UNCHANGED due
  BY DEF Reschedule, CutShort
<1>3. /\ turns' \in 0..MaxTurns /\ due' \subseteq due /\ due \ {Head(tick).entry} \subseteq due'
      /\ cut \subseteq cut' /\ cut' \subseteq 1..sent
  <2>1. sent \in 1..sent
    BY <1>1, RemindersAssumption DEF RemindersTypeOK
  <2>2. Turn => turns' \in 0..MaxTurns
    BY <1>1, TurnIs
  <2>3. turns \in 0..MaxTurns /\ cut \subseteq 1..sent
    BY <1>1 DEF RemindersTypeOK
  <2>4. QED BY <1>2, <2>1, <2>2, <2>3
<1>4. /\ tick' \in Seq(Deliveries) /\ step' = "store" /\ gotThrough' = FALSE
      /\ \A i \in 1..Len(tick') : tick'[i].entry \in due \ {Head(tick).entry}
      /\ \A i, j \in 1..Len(tick') : tick'[i].entry = tick'[j].entry => i = j
  BY <1>1, <1>2, DropIs
<1>5. RemindersTypeOK'
  BY <1>1, <1>2, <1>3, <1>4 DEF RemindersTypeOK, people, entries
<1>6. OneEach'
  BY <1>3, <1>4 DEF OneEach
<1>7. RemindsOnce' /\ RowsLeft'
  BY <1>1, <1>2, <1>3 DEF RemindsOnce, RowsLeft
<1>8. CameByWork'
  BY <1>1, <1>2, <1>3 DEF CameByWork
<1>9. QED BY <1>4, <1>5, <1>6, <1>7, <1>8 DEF RemindInv, AtWork

LEMMA StepDies == ASSUME RemindInv, DaemonDies PROVE RemindInv'
<1>1. /\ RemindersTypeOK /\ RemindsOnce /\ OneEach /\ RowsLeft /\ CameByWork
      /\ AtWork => sent > 0
  BY DEF RemindInv
<1>2. /\ UNCHANGED <<bears, dnd, entries, due, rows, sent, typed, told>>
      /\ Turn /\ tick' = <<>> /\ step' = "store" /\ gotThrough' = FALSE /\ deaf' = Authors
      /\ IF AtWork THEN cut' = cut \cup {sent} ELSE cut' = cut
  BY DEF DaemonDies, CutShort, AtWork
<1>3. /\ turns' \in 0..MaxTurns /\ cut \subseteq cut' /\ cut' \subseteq 1..sent
  <2>1. AtWork => sent \in 1..sent
    BY <1>1, RemindersAssumption DEF RemindersTypeOK
  <2>2. Turn => turns' \in 0..MaxTurns
    BY <1>1, TurnIs
  <2>3. turns \in 0..MaxTurns /\ cut \subseteq 1..sent
    BY <1>1 DEF RemindersTypeOK
  <2>4. QED BY <1>2, <2>1, <2>2, <2>3
<1>4. tick' \in Seq(Deliveries) /\ Len(tick') = 0
  BY <1>2
<1>5. RemindersTypeOK'
  BY <1>1, <1>2, <1>3, <1>4 DEF RemindersTypeOK, entries
<1>6. OneEach'
  BY <1>4 DEF OneEach
<1>7. Row.id = sent
  BY DEF Row
<1>8. RemindsOnce' /\ RowsLeft' /\ CameByWork'
  BY <1>1, <1>2, <1>3, <1>7 DEF RemindsOnce, RowsLeft, CameByWork
<1>9. QED BY <1>2, <1>5, <1>6, <1>8 DEF RemindInv, AtWork

LEMMA StepRemind == RemindInv /\ [RemindersNext]_reminderVars => RemindInv'
<1> SUFFICES ASSUME RemindInv, [RemindersNext]_reminderVars PROVE RemindInv'
  OBVIOUS
<1>0. RemindersTypeOK
  BY DEF RemindInv
<1>1. ASSUME NEW s \in Authors, NEW n \in Nicknames, Takes(s, n) PROVE RemindInv'
  <2>1. RemindersTypeOK'
    BY <1>0, <1>1, RemindersAssumption
       DEF Takes, Turn, RemindersTypeOK, entries, work, inboxes
  <2>2. QED BY <1>1, <2>1, StepPeople DEF Takes
<1>2. ASSUME NEW s \in Authors, NEW e \in Entries, WriteEntry(s, e) PROVE RemindInv'
  <2>1. RemindersTypeOK'
    BY <1>0, <1>2 DEF WriteEntry, RemindersTypeOK, people, work, inboxes
  <2>2. QED BY <1>2, <2>1, StepPeople DEF WriteEntry
<1>3. ASSUME NEW s \in Authors, AuthorEnds(s) PROVE RemindInv'
  <2>1. RemindersTypeOK'
    BY <1>0, <1>3, RemindersAssumption
       DEF AuthorEnds, Turn, RemindersTypeOK, entries, work, inboxes
  <2>2. QED BY <1>3, <2>1, StepPeople DEF AuthorEnds
<1>4. ASSUME NEW s \in Authors, SetDnd(s) PROVE RemindInv'
  <2>1. RemindersTypeOK'
    BY <1>0, <1>4, RemindersAssumption
       DEF SetDnd, Turn, RemindersTypeOK, entries, work, inboxes
  <2>2. QED BY <1>4, <2>1, StepPeople DEF SetDnd
<1>5. ASSUME NEW e \in Entries, CloseFlag(e) PROVE RemindInv'
  <2>1. RemindersTypeOK'
    BY <1>0, <1>5, RemindersAssumption
       DEF CloseFlag, Turn, RemindersTypeOK, people, work, inboxes
  <2>2. QED BY <1>5, <2>1, StepPeople DEF CloseFlag
<1>6. CASE UNCHANGED reminderVars
  <2>1. RemindersTypeOK'
    BY <1>0, <1>6 DEF reminderVars, RemindersTypeOK, people, entries, work, inboxes
  <2>2. QED BY <1>6, <2>1, StepPeople DEF reminderVars
<1>7. QED
  BY <1>1, <1>2, <1>3, <1>4, <1>5, <1>6, StepHears, StepFalls, StepCollect, StepStoreRow,
     StepPublishFrame, StepMarkRow, StepReschedule, StepDies
     DEF RemindersNext, TickStep

(* What is due is told once, unless its delivery was cut short, however    *)
(* ticks, statements that fail, deaths of the daemon and a session's       *)
(* takings interleave (reminders.rs).                                      *)
THEOREM RemindersComeOnce == SessionsSpec => []RemindsOnce
<1>1. SessionsInit => RemindInv
  BY InitRemind DEF SessionsInit
<1>2. RemindInv /\ [SessionsNext]_sessionsVars => RemindInv'
  BY SessionsParts, StepRemind
<1>3. RemindInv => RemindsOnce
  BY DEF RemindInv
<1>4. QED BY <1>1, <1>2, <1>3, PTL DEF SessionsSpec

-----------------------------------------------------------------------------
(* Types that need nothing more: those of an ending session, ...           *)
LEMMA InitShutdown == ShutdownInit => ShutdownTypeOK
BY DEF ShutdownInit, ShutdownTypeOK

LEMMA StepShutdown == ShutdownTypeOK /\ [ShutdownNext]_shutdownVars => ShutdownTypeOK'
<1> SUFFICES ASSUME ShutdownTypeOK, [ShutdownNext]_shutdownVars PROVE ShutdownTypeOK'
  OBVIOUS
<1> USE DEF ShutdownTypeOK, ended, threads
<1>1. CASE Write \/ Quit \/ Leave \/ TerminalGoes \/ OnSignal
  BY <1>1 DEF Write, Quit, Leave, TerminalGoes, OnSignal
<1>2. CASE Copy \/ CopyEnds \/ KeysEnd
  BY <1>2 DEF Copy, CopyEnds, KeysEnd
<1>3. CASE Ladder
  BY <1>3 DEF Ladder, WatcherLeaves, FirstRung, NextRung, Signalled
<1>4. CASE Ending
  BY <1>4 DEF Ending, Reap, Tell, Restore, Exit
<1>5. CASE UNCHANGED shutdownVars
  BY <1>5 DEF shutdownVars
<1>6. QED BY <1>1, <1>2, <1>3, <1>4, <1>5 DEF ShutdownNext

(* ... and those of the remote daemon.                                     *)
LEMMA InitRemoteTypes == RemoteInit => RemoteTypeOK
<1> SUFFICES ASSUME RemoteInit PROVE RemoteTypeOK
  OBVIOUS
<1>1. NoCall \in Calls /\ Idle \in [at : {"off", "resting", "open", "lost"}, to : Hosts \cup {Local, None}]
  BY RemoteAssumption DEF NoCall, Calls, Idle
<1>2. 0 \in Numbers /\ 0 \in 0..MaxAdmin /\ 0 \in 0..MaxAsks /\ 0 \in 0..MaxVanish
  BY RemoteAssumption DEF Numbers
<1>3. QED BY <1>1, <1>2 DEF RemoteInit, RemoteTypeOK

LEMMA StepServer ==
  ASSUME RemoteTypeOK, NEW d \in Hosts,
         \/ Enable(d) \/ WriteKey(d) \/ WriteCert(d) \/ SetBind(d) \/ EnableDies(d)
         \/ Disable(d) \/ Revoke(d)
  PROVE  RemoteTypeOK'
<1> USE RemoteAssumption DEF RemoteTypeOK, Numbers, Administered, clientVars, sessionVars, callVars
<1>1. CASE Enable(d)     BY <1>1 DEF Enable
<1>2. CASE WriteKey(d)   BY <1>2 DEF WriteKey, Issuing, New
<1>3. CASE WriteCert(d)  BY <1>3 DEF WriteCert
<1>4. CASE SetBind(d)    BY <1>4 DEF SetBind
<1>5. CASE EnableDies(d) BY <1>5 DEF EnableDies
<1>6. CASE Disable(d)    BY <1>6 DEF Disable
<1>7. CASE Revoke(d)     BY <1>7 DEF Revoke
<1>8. QED BY <1>1, <1>2, <1>3, <1>4, <1>5, <1>6, <1>7

LEMMA StepClient ==
  ASSUME RemoteTypeOK,
         \/ \E d \in Hosts : IssueAndAdd(d) \/ RestartDaemon(d)
         \/ RemoveProfile \/ \E on \in BOOLEAN : SetDefault(on)
  PROVE  RemoteTypeOK'
<1> USE RemoteAssumption DEF RemoteTypeOK, Numbers, Administered, serverVars, callVars
<1>1. ASSUME NEW d \in Hosts, IssueAndAdd(d) PROVE RemoteTypeOK'
  <2>1. issued + 1 \in 0..MaxIssued /\ cert[d] \in 0..MaxIssued
    BY <1>1 DEF IssueAndAdd, Issuing, New
  <2>2. profile' \in Profile /\ moved' \subseteq Attached
    BY <1>1, <2>1 DEF IssueAndAdd, Profile, Repoint, New
  <2>3. QED BY <1>1, <2>1, <2>2 DEF IssueAndAdd, Issuing, New
<1>2. ASSUME NEW d \in Hosts, RestartDaemon(d) PROVE RemoteTypeOK'
  <2>1. NoCall \in Calls /\ Closed \in [at : {"off", "resting", "open", "lost"}, to : Hosts \cup {Local, None}]
    BY DEF NoCall, Calls, Closed
  <2>2. /\ call' \in [Attached -> Calls]
        /\ leg' \in [Attached -> [at : {"off", "resting", "open", "lost"}, to : Hosts \cup {Local, None}]]
    BY <1>2, <2>1 DEF RestartDaemon
  <2>3. QED BY <1>2, <2>2 DEF RestartDaemon, clientVars
<1>3. CASE RemoveProfile
  <2>1. /\ moved' \subseteq Attached /\ profile' = None /\ default' = FALSE
        /\ UNCHANGED <<key, cert, enabling, bind, token, serving, issued, env, leg>>
    BY <1>3 DEF RemoveProfile, Repoint
  <2>2. UNCHANGED <<reached, call, got, asks, vanished>> /\ admin' \in 0..MaxAdmin
    BY <1>3 DEF RemoveProfile
  <2>3. QED BY <2>1, <2>2
<1>4. ASSUME NEW on \in BOOLEAN, SetDefault(on) PROVE RemoteTypeOK'
  BY <1>4 DEF SetDefault, sessionVars
<1>5. QED BY <1>1, <1>2, <1>3, <1>4

LEMMA StepJoining ==
  ASSUME RemoteTypeOK, NEW s \in Attached,
         \/ \E name \in {"none", "local", "profile"} : Run(s, name)
         \/ Join(s) \/ Vanish(s)
  PROVE  RemoteTypeOK'
<1> USE RemoteAssumption DEF RemoteTypeOK, serverVars, clientVars, callVars
<1> DEFINE Legs == [at : {"off", "resting", "open", "lost"}, to : Hosts \cup {Local, None}]
<1>1. Endpoint(env[s]) \in Hosts \cup {Local, None}
  BY DEF Endpoint, Profile
<1>2. ASSUME NEW name \in {"none", "local", "profile"}, Run(s, name) PROVE RemoteTypeOK'
  <2>1. Exported(name) \in {"none", "local", "profile"} /\ Closed \in Legs
    BY DEF Exported, Closed
  <2>2. QED BY <1>2, <2>1 DEF Run
<1>3. CASE Join(s)
  BY <1>1, <1>3 DEF Join
<1>4. CASE Vanish(s)
  BY <1>4 DEF Vanish
<1>5. QED BY <1>2, <1>3, <1>4

LEMMA StepAsking ==
  ASSUME RemoteTypeOK, NEW s \in Attached,
         Ask(s) \/ Serve(s) \/ Notify(s) \/ TakeFrame(s) \/ GiveUp(s)
  PROVE  RemoteTypeOK'
<1> DEFINE c == call[s]
<1>1. /\ c \in Calls /\ asks \in 0..MaxAsks /\ MaxAsks \in Nat /\ call \in [Attached -> Calls]
      /\ got \subseteq (1..MaxAsks) \X (0..MaxAsks)
      /\ reached \in [Attached -> Hosts \cup {Local, None}]
  BY RemoteAssumption DEF RemoteTypeOK
<1>2. c.id \in 0..MaxAsks /\ c.asked \in Seq(1..MaxAsks) /\ c.frames \in Seq(0..MaxAsks)
  BY <1>1 DEF Calls
<1>3. UNCHANGED <<serverVars, issued, clientVars, sessionVars, admin, vanished>>
  BY DEF Ask, Serve, Notify, TakeFrame, GiveUp
<1> DEFINE Kept == /\ call' \in [Attached -> Calls] /\ asks' \in 0..MaxAsks
                   /\ got' \subseteq (1..MaxAsks) \X (0..MaxAsks)
                   /\ reached' \in [Attached -> Hosts \cup {Local, None}]
<1>4. ASSUME Ask(s) PROVE Kept
  <2>1. asks + 1 \in 1..MaxAsks /\ asks + 1 \in 0..MaxAsks
    BY <1>1, <1>4 DEF Ask
  <2>2. Append(c.asked, asks + 1) \in Seq(1..MaxAsks)
    BY <1>2, <2>1
  <2>3. [id |-> asks + 1, asked |-> Append(c.asked, asks + 1), frames |-> c.frames] \in Calls
    BY <1>2, <2>1, <2>2 DEF Calls
  <2>4. Endpoint(env[s]) \in Hosts \cup {Local, None}
    BY DEF Endpoint, Profile, RemoteTypeOK
  <2>5. QED BY <1>1, <1>4, <2>1, <2>3, <2>4 DEF Ask
<1>5. ASSUME Serve(s) PROVE Kept
  <2>1. Head(c.asked) \in 1..MaxAsks /\ Tail(c.asked) \in Seq(1..MaxAsks)
    <3>1. c.asked # <<>>
      BY <1>5 DEF Serve
    <3>2. QED BY <1>2, <3>1, HeadTailProperties
  <2>2. Append(c.frames, Head(c.asked)) \in Seq(0..MaxAsks)
    BY <1>1, <1>2, <2>1
  <2>3. call' = [call EXCEPT ![s] = [c EXCEPT !.asked = Tail(c.asked),
                                              !.frames = Append(c.frames, Head(c.asked))]]
    BY <1>1, <1>5 DEF Serve
  <2>4. [c EXCEPT !.asked = Tail(c.asked), !.frames = Append(c.frames, Head(c.asked))] \in Calls
    BY <1>1, <2>1, <2>2 DEF Calls
  <2>5. QED BY <1>1, <1>5, <2>3, <2>4 DEF Serve
<1>6. ASSUME Notify(s) PROVE Kept
  <2>1. Append(c.frames, 0) \in Seq(0..MaxAsks)
    BY <1>1, <1>2
  <2>2. [c EXCEPT !.frames = Append(c.frames, 0)] \in Calls
    BY <1>1, <2>1 DEF Calls
  <2>3. call' = [call EXCEPT ![s] = [c EXCEPT !.frames = Append(c.frames, 0)]]
    BY <1>1, <1>6 DEF Notify
  <2>4. QED BY <1>1, <1>6, <2>2, <2>3 DEF Notify
<1>7. ASSUME TakeFrame(s) PROVE Kept
  <2>1. /\ Head(c.frames) \in 0..MaxAsks /\ Tail(c.frames) \in Seq(0..MaxAsks)
        /\ c.id \in 1..MaxAsks /\ 0 \in 0..MaxAsks
    <3>1. c.frames # <<>> /\ c.id # 0
      BY <1>7 DEF TakeFrame
    <3>2. Head(c.frames) \in 0..MaxAsks /\ Tail(c.frames) \in Seq(0..MaxAsks)
      BY <1>2, <3>1, HeadTailProperties
    <3>3. c.id \in 1..MaxAsks /\ 0 \in 0..MaxAsks
      BY <1>1, <1>2, <3>1
    <3>4. QED BY <3>2, <3>3
  <2>2. /\ [c EXCEPT !.frames = Tail(c.frames)] \in Calls
        /\ [c EXCEPT !.id = 0, !.frames = Tail(c.frames)] \in Calls
    BY <1>1, <2>1 DEF Calls
  <2>3. \/ call' = [call EXCEPT ![s] = [c EXCEPT !.frames = Tail(c.frames)]] /\ UNCHANGED got
        \/ /\ call' = [call EXCEPT ![s] = [c EXCEPT !.id = 0, !.frames = Tail(c.frames)]]
           /\ got' = got \cup {<<c.id, Head(c.frames)>>}
    BY <1>1, <1>7 DEF TakeFrame
  <2>4. UNCHANGED <<reached, asks>>
    BY <1>7 DEF TakeFrame
  <2>5. <<c.id, Head(c.frames)>> \in (1..MaxAsks) \X (0..MaxAsks)
    BY <2>1
  <2>6. got' \subseteq (1..MaxAsks) \X (0..MaxAsks)
    BY <1>1, <2>3, <2>5
  <2>7. call' \in [Attached -> Calls]
    BY <1>1, <2>2, <2>3
  <2>8. QED BY <1>1, <2>4, <2>6, <2>7
<1>8. ASSUME GiveUp(s) PROVE Kept
  <2>1. NoCall \in Calls
    BY <1>1 DEF NoCall, Calls
  <2>2. QED BY <1>1, <1>8, <2>1 DEF GiveUp
<1>9. Kept
  BY <1>4, <1>5, <1>6, <1>7, <1>8
<1>10. QED BY <1>3, <1>9 DEF RemoteTypeOK, serverVars, clientVars, sessionVars

LEMMA StepRemoteTypes == RemoteTypeOK /\ [RemoteNext]_remoteVars => RemoteTypeOK'
<1>1. RemoteTypeOK /\ RemoteNext => RemoteTypeOK'
  BY StepServer, StepClient, StepJoining, StepAsking DEF RemoteNext
<1>2. RemoteTypeOK /\ UNCHANGED remoteVars => RemoteTypeOK'
  BY DEF RemoteTypeOK, remoteVars, serverVars, clientVars, sessionVars, callVars
<1>3. QED BY <1>1, <1>2

(* Every component of a session's life keeps its types: the registry's     *)
(* nicks, the callbacks, the reminders, the shutdown, the service and the  *)
(* remote daemon (daemon/).                                                *)
THEOREM SessionsTypes == SessionsSpec => []SessionsTypeOK
<1> DEFINE Inv == /\ NickInv /\ CallInv /\ RemindInv
                  /\ ShutdownTypeOK /\ ServiceInv /\ RemoteTypeOK
<1>1. SessionsInit => Inv
  BY InitNicks, InitCalls, InitRemind, InitShutdown, InitService, InitRemoteTypes DEF SessionsInit
<1>2. Inv /\ [SessionsNext]_sessionsVars => Inv'
  BY SessionsParts, StepNicks, StepCalls, StepRemind, StepShutdown, StepService, StepRemoteTypes
<1>3. Inv => SessionsTypeOK
  BY DEF NickInv, CallInv, RemindInv, ServiceInv, SessionsTypeOK
<1>4. QED BY <1>1, <1>2, <1>3, PTL DEF SessionsSpec

=============================================================================
