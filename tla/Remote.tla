-------------------------------- MODULE Remote --------------------------------
(***************************************************************************)
(* A session on one machine whose daemon runs on another (remote.rs,       *)
(* remote_cli.rs): what the serving machine keeps, the joining machine's   *)
(* profile, the connection the session hears through and the calls made    *)
(* inside it, each on a connection of its own (client.rs), and the loop    *)
(* that serves a connection (run_request_loop).                            *)
(*                                                                         *)
(* The joining machine has one name for a profile and one token's name.    *)
(* Certificates and tokens are numbered; 0 is none.                        *)
(***************************************************************************)
EXTENDS Naturals, Sequences, FiniteSets, SequencesExt

CONSTANTS Hosts,     \* daemons of other machines
          Local,     \* the joining machine's own daemon
          None,      \* no daemon, no profile, no command
          Attached,  \* sessions on the joining machine
          MaxIssued, \* bound: certificates and tokens made
          MaxAdmin,  \* bound: restarts, and changes of profile or default
          MaxAsks,   \* bound: calls made
          MaxVanish  \* bound: times a connection is lost with nobody told

ASSUME RemoteAssumption ==
    /\ Local \notin Hosts /\ None \notin Hosts \cup {Local}
    /\ {MaxIssued, MaxAdmin, MaxAsks, MaxVanish} \subseteq Nat

VARIABLES key, cert, \* [Hosts -> number]: key.pem, cert.pem
          enabling,  \* [Hosts -> "no", "key", "cert", "bind"]: `remote enable'
          bind,      \* [Hosts -> BOOLEAN]: remote.bind
          token,     \* [Hosts -> the client's token in remote_tokens]
          serving,   \* [Hosts -> the certificate its listener loaded]
          issued,    \* numbers given out
          profile,   \* None or [at, pin, token]: the entry of remotes.toml
          default,   \* the default profile is it
          env,       \* [Attached -> None, Local or "profile"]: CLAUDEBASE_DAEMON
          leg,       \* [Attached -> what daemon_leg does: [at, to, hears]]
          moved,     \* sessions whose profile was re-pointed since they joined
          reached,   \* [Attached -> the daemon its last call reached]
          call,      \* [Attached -> the call it waits on: [id, asked, frames]]
          got,       \* answers taken: <<asked, answer>>
          admin, asks, vanished

serverVars == <<key, cert, enabling, bind, token, serving>>
clientVars == <<profile, default>>
sessionVars == <<env, leg, moved>>
callVars == <<reached, call, got, asks>>
remoteVars == <<serverVars, issued, clientVars, sessionVars, callVars, admin, vanished>>

Numbers == 0 .. MaxIssued
Profile == [at : Hosts, pin : Numbers, token : Numbers]
Calls == [id : 0 .. MaxAsks, asked : Seq(1 .. MaxAsks), frames : Seq(0 .. MaxAsks)]
Idle == [at |-> "off", to |-> None]

RemoteTypeOK ==
    /\ {key, cert, token, serving} \subseteq [Hosts -> Numbers]
    /\ enabling \in [Hosts -> {"no", "key", "cert", "bind"}] /\ bind \in [Hosts -> BOOLEAN]
    /\ issued \in Numbers /\ profile \in Profile \cup {None} /\ default \in BOOLEAN
    /\ env \in [Attached -> {"none", "local", "profile"}]
    /\ leg \in [Attached -> [at : {"off", "resting", "open", "lost"}, to : Hosts \cup {Local, None}]]
    /\ moved \subseteq Attached /\ reached \in [Attached -> Hosts \cup {Local, None}]
    /\ call \in [Attached -> Calls]
    /\ got \subseteq (1 .. MaxAsks) \X (0 .. MaxAsks)
    /\ admin \in 0 .. MaxAdmin /\ asks \in 0 .. MaxAsks /\ vanished \in 0 .. MaxVanish

NoCall == [id |-> 0, asked |-> <<>>, frames |-> <<>>]

RemoteInit ==
    /\ key = [d \in Hosts |-> 0] /\ cert = key /\ token = key /\ serving = key
    /\ enabling = [d \in Hosts |-> "no"] /\ bind = [d \in Hosts |-> FALSE]
    /\ issued = 0 /\ profile = None /\ default = FALSE
    /\ env = [s \in Attached |-> "none"] /\ leg = [s \in Attached |-> Idle] /\ moved = {}
    /\ reached = [s \in Attached |-> None] /\ call = [s \in Attached |-> NoCall] /\ got = {}
    /\ admin = 0 /\ asks = 0 /\ vanished = 0

Administered == admin < MaxAdmin /\ admin' = admin + 1
New == issued + 1
Issuing == issued < MaxIssued /\ issued' = New

-----------------------------------------------------------------------------
(* The serving machine.                                                    *)

Enable(d) ==
    /\ enabling[d] = "no" /\ ~bind[d]
    /\ enabling' = [enabling EXCEPT ![d] = IF key[d] = 0 \/ cert[d] = 0 THEN "key" ELSE "bind"]
    /\ UNCHANGED <<key, cert, bind, token, serving, issued, clientVars, sessionVars, callVars, admin, vanished>>

WriteKey(d) ==
    /\ enabling[d] = "key" /\ Issuing
    /\ key' = [key EXCEPT ![d] = New] /\ enabling' = [enabling EXCEPT ![d] = "cert"]
    /\ UNCHANGED <<cert, bind, token, serving, clientVars, sessionVars, callVars, admin, vanished>>

WriteCert(d) ==
    /\ enabling[d] = "cert"
    /\ cert' = [cert EXCEPT ![d] = key[d]] /\ enabling' = [enabling EXCEPT ![d] = "bind"]
    /\ UNCHANGED <<key, bind, token, serving, issued, clientVars, sessionVars, callVars, admin, vanished>>

\* Mutant of Prepared: the address is stored first.
PreparedNot(d) == enabling[d] # "no"
\* The certificate is there.
Prepared(d) == enabling[d] = "bind"

SetBind(d) ==
    /\ Prepared(d)
    /\ bind' = [bind EXCEPT ![d] = TRUE] /\ enabling' = [enabling EXCEPT ![d] = "no"]
    /\ UNCHANGED <<key, cert, token, serving, issued, clientVars, sessionVars, callVars, admin, vanished>>

EnableDies(d) ==
    /\ enabling[d] # "no" /\ Administered
    /\ enabling' = [enabling EXCEPT ![d] = "no"]
    /\ UNCHANGED <<key, cert, bind, token, serving, issued, clientVars, sessionVars, callVars, vanished>>

Disable(d) ==
    /\ bind[d] /\ Administered /\ bind' = [bind EXCEPT ![d] = FALSE]
    /\ UNCHANGED <<key, cert, enabling, token, serving, issued, clientVars, sessionVars, callVars, vanished>>

\* A token that replaces the client's earlier one, in a connection string
\* with the certificate of the disk; the operator adds it as the profile.
Revoke(d) ==
    /\ token[d] # 0 /\ Administered /\ token' = [token EXCEPT ![d] = 0]
    /\ UNCHANGED <<key, cert, enabling, bind, serving, issued, clientVars, sessionVars, callVars, vanished>>

Repoint(p) == moved' = moved \cup {s \in Attached : env[s] = "profile" /\ profile # p}

IssueAndAdd(d) ==
    /\ bind[d] /\ Issuing /\ Administered
    /\ token' = [token EXCEPT ![d] = New]
    /\ profile' = [at |-> d, pin |-> cert[d], token |-> New] /\ Repoint(profile')
    /\ UNCHANGED <<key, cert, enabling, bind, serving, default, env, leg, callVars, vanished>>

RemoveProfile ==
    /\ profile # None /\ Administered
    /\ profile' = None /\ default' = FALSE /\ Repoint(None)
    /\ UNCHANGED <<serverVars, issued, env, leg, callVars, vanished>>

SetDefault(on) ==
    /\ default # on /\ (on => profile # None) /\ Administered /\ default' = on
    /\ UNCHANGED <<serverVars, issued, profile, sessionVars, callVars, vanished>>

\* Mutant of Closed: the leg ends with its connection.
ClosedForGood == [at |-> "lost", to |-> None]
\* The session's connection ended: daemon_leg connects again.
Closed == [at |-> "resting", to |-> None]

\* The listener starts with what the disk holds; what was open is closed.
RestartDaemon(d) ==
    /\ Administered
    /\ serving' = [serving EXCEPT ![d] = IF bind[d] /\ key[d] = cert[d] THEN cert[d] ELSE 0]
    /\ leg' = [s \in Attached |-> IF leg[s] = [at |-> "open", to |-> d] THEN Closed ELSE leg[s]]
    /\ call' = [s \in Attached |-> IF reached[s] = d THEN NoCall ELSE call[s]]
    /\ UNCHANGED <<key, cert, enabling, bind, token, issued, clientVars, env, moved, reached, got, asks, vanished>>

-----------------------------------------------------------------------------
(* The session.                                                            *)

\* Endpoint::named: a name that is not there is an error, never the local one.
Endpoint(name) ==
    IF name = "local" \/ (name = "none" /\ ~default) THEN Local
    ELSE IF profile = None THEN None ELSE profile.at

\* TLS with the pinned certificate, then the token.
Accepted(d) ==
    IF d \in Hosts
    THEN profile # None /\ serving[d] # 0 /\ profile.pin = serving[d] /\ profile.token = token[d]
    ELSE d = Local

\* Mutant of Exported: a session without --daemon is left to the default.
ExportedIfNamed(name) == name
\* What `run' exports: the endpoint it resolved, by name.
Exported(name) == IF name = "none" /\ Endpoint(name) # Local THEN "profile" ELSE IF name = "none" THEN "local" ELSE name

Run(s, name) ==
    /\ leg[s].at = "off"
    /\ Accepted(Endpoint(name))  \* remote_cli::test
    /\ env' = [env EXCEPT ![s] = Exported(name)]
    /\ leg' = [leg EXCEPT ![s] = Closed]
    /\ moved' = moved \ {s}
    /\ UNCHANGED <<serverVars, issued, clientVars, callVars, admin, vanished>>

\* daemon_leg: connect, register, subscribe; on a failure it tries again.
Join(s) ==
    /\ leg[s].at = "resting" /\ Accepted(Endpoint(env[s]))
    /\ leg' = [leg EXCEPT ![s] = [at |-> "open", to |-> Endpoint(env[s])]]
    /\ moved' = moved \ {s}
    /\ UNCHANGED <<serverVars, issued, clientVars, env, callVars, admin, vanished>>

\* The machine or the way to it goes without a word: nothing is sent on the
\* connection the session hears through, so nothing fails on it.
Vanish(s) ==
    /\ leg[s].at = "open" /\ leg[s].to # Local
    /\ vanished < MaxVanish /\ vanished' = vanished + 1
    /\ leg' = [leg EXCEPT ![s].at = "lost"]
    /\ UNCHANGED <<serverVars, issued, clientVars, env, moved, callVars, admin>>

-----------------------------------------------------------------------------
(* A call made inside the session.                                         *)

Ask(s) ==
    /\ leg[s].at # "off" /\ call[s].id = 0 /\ asks < MaxAsks /\ asks' = asks + 1
    /\ Accepted(Endpoint(env[s]))
    /\ reached' = [reached EXCEPT ![s] = Endpoint(env[s])]
    /\ call' = [call EXCEPT ![s] = [id |-> asks', asked |-> Append(call[s].asked, asks'), frames |-> call[s].frames]]
    /\ UNCHANGED <<serverVars, issued, clientVars, sessionVars, got, admin, vanished>>

\* run_request_loop: the requests of a connection are answered in order.
Serve(s) ==
    /\ call[s].asked # <<>>
    /\ call' = [call EXCEPT ![s].asked = Tail(@), ![s].frames = Append(@, Head(call[s].asked))]
    /\ UNCHANGED <<serverVars, issued, clientVars, sessionVars, reached, got, asks, admin, vanished>>

\* A frame nobody asked for, multiplexed onto the connection.
Notify(s) ==
    /\ call[s].id # 0 /\ Len(call[s].frames) < 2
    /\ call' = [call EXCEPT ![s].frames = Append(@, 0)]
    /\ UNCHANGED <<serverVars, issued, clientVars, sessionVars, reached, got, asks, admin, vanished>>

\* Mutant of Mine: the first frame is the answer.
MineAny(s, f) == TRUE
Mine(s, f) == f = call[s].id

TakeFrame(s) ==
    /\ call[s].id # 0 /\ call[s].frames # <<>>
    /\ LET f == Head(call[s].frames) IN
       IF Mine(s, f)
       THEN got' = got \cup {<<call[s].id, f>>} /\ call' = [call EXCEPT ![s].id = 0, ![s].frames = Tail(@)]
       ELSE call' = [call EXCEPT ![s].frames = Tail(@)] /\ UNCHANGED got
    /\ UNCHANGED <<serverVars, issued, clientVars, sessionVars, reached, asks, admin, vanished>>

\* CALL_TIMEOUT: Oracle::ask drops the connection, with what comes late on it.
GiveUp(s) ==
    /\ call[s].id # 0 /\ call' = [call EXCEPT ![s] = NoCall]
    /\ UNCHANGED <<serverVars, issued, clientVars, sessionVars, reached, got, asks, admin, vanished>>

RemoteNext ==
    \/ \E d \in Hosts : \/ Enable(d) \/ WriteKey(d) \/ WriteCert(d) \/ SetBind(d) \/ EnableDies(d)
                          \/ Disable(d) \/ Revoke(d) \/ IssueAndAdd(d) \/ RestartDaemon(d)
    \/ RemoveProfile \/ \E on \in BOOLEAN : SetDefault(on)
    \/ \E s \in Attached : \/ \E name \in {"none", "local", "profile"} : Run(s, name)
                           \/ Join(s) \/ Vanish(s)
                           \/ Ask(s) \/ Serve(s) \/ Notify(s) \/ TakeFrame(s) \/ GiveUp(s)

RemoteFairness == \A s \in Attached : WF_remoteVars(Join(s))

RemoteSpec == RemoteInit /\ [][RemoteNext]_remoteVars /\ RemoteFairness

-----------------------------------------------------------------------------
(* Properties.                                                             *)

(* An `enable' that was cut short leaves nothing the daemon would try to   *)
(* listen with: an address is stored for a whole pair only, and the next   *)
(* `enable' makes a new one (ensure_certificate, enable).                  *)
BoundHasPair == \A d \in Hosts : bind[d] => key[d] # 0 /\ key[d] = cert[d]

(* A change of the default moves no running session: what is called inside *)
(* it reaches the daemon it is registered on (run, Endpoint::resolve).     *)
CallsFollow ==
    \A s \in Attached :
        leg[s].at = "open" /\ s \notin moved /\ Endpoint(env[s]) # None => Endpoint(env[s]) = leg[s].to

(* A call takes its own answer, not a notification on the same connection  *)
(* nor the late answer to a call that was given up (read_response_for).    *)
AnswersItsOwn == \A g \in got : g[1] = g[2]

RemoteSafe == BoundHasPair /\ CallsFollow /\ AnswersItsOwn

(* "a daemon restart must not silently end delivery" (supervisor/          *)
(* mod.rs:612-614): a session its daemon would accept is subscribed again. *)
(* It holds while a lost connection is told to both ends.  One lost with   *)
(* its machine or its route is not: nothing is written to it and nothing   *)
(* asks whether it is alive.                                               *)
Welcome(s) == leg[s].at # "off" /\ Accepted(Endpoint(env[s]))
DeliveryResumes == \A s \in Attached : <>[]Welcome(s) => <>[](leg[s].at = "open")

(* "every claudebase command the session runs ... reaches the same daemon  *)
(* the session is registered on" (main.rs:575-577).  The profile's name is *)
(* exported, not what it meant: after `remote add' of the same name the    *)
(* calls reach another daemon than the one that delivers.                  *)
SameDaemon ==
    \A s \in Attached : leg[s].at = "open" /\ call[s].id # 0 => reached[s] = leg[s].to
=============================================================================
