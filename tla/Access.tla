-------------------------------- MODULE Access --------------------------------
(***************************************************************************)
(* access.json: who may write to the bot (daemon/channel_state.rs).  The   *)
(* Telegram loop reads the file, waits for updates up to ten seconds,      *)
(* gates the batch on its copy and writes the copy back if a pairing code  *)
(* changed (daemon/telegram.rs).  The operator's commands read and write   *)
(* the same file (access_cli.rs).                                          *)
(***************************************************************************)
EXTENDS Naturals, FiniteSets

CONSTANTS Senders,
          PendingCap,  \* PENDING_CAP
          MaxReplies,  \* MAX_PAIRING_REPLIES
          MaxCodes,    \* bound: codes ever made
          MaxBatch,    \* bound: messages of a batch
          MaxCommands, \* bound: commands of the operator
          MaxMisses    \* bound: saves that fail, loads that fail

ASSUME AccessAssumption ==
    /\ {PendingCap, MaxCodes, MaxBatch, MaxCommands, MaxMisses} \subseteq Nat
    /\ MaxReplies \in Nat \ {0}

Codes == 1..MaxCodes
Policies == {"pairing", "allowlist", "disabled"}
Requests == [code : Codes, of : Senders, replies : 1..MaxReplies]
Contents == [policy : Policies, allow : SUBSET Senders, pending : SUBSET Requests]

Defaults == [policy |-> "pairing", allow |-> {}, pending |-> {}]
NoReplies == [c \in Codes |-> 0]
NoCommand == [at |-> "idle", copy |-> Defaults]

VARIABLES
    file,      \* access.json
    step,      \* where the loop is
    copy,      \* what it loaded
    room,      \* messages the batch may still have
    dirty,     \* the batch has changed the copy
    saying,    \* [Codes -> Nat], replies to be sent after the batch
    command,   \* the operator's command between its read and its write
    fresh,     \* the next code
    outdated,  \* codes older than PAIRING_CODE_TTL_MS
    told,      \* [Codes -> Nat], replies sent with a code
    saved,     \* codes that have been in the file
    approvals, \* files in approved/
    granted,   \* senders let in by a command and not revoked since
    commands, misses

loopVars == <<step, copy, room, dirty, saying>>
outside == <<command, approvals, granted, commands>>
accessVars == <<file, loopVars, outside, fresh, outdated, told, saved, misses>>

AccessTypeOK ==
    /\ file \in Contents /\ copy \in Contents
    /\ step \in {"load", "wait", "gate", "save", "reply"}
    /\ room \in 0..MaxBatch /\ dirty \in BOOLEAN /\ saying \in [Codes -> Nat]
    /\ command \in [at : {"idle", "read"}, copy : Contents]
    /\ fresh \in 1..MaxCodes + 1 /\ told \in [Codes -> Nat]
    /\ outdated \in SUBSET Codes /\ saved \in SUBSET Codes
    /\ approvals \in SUBSET Senders /\ granted \in SUBSET Senders
    /\ commands \in 0..MaxCommands /\ misses \in 0..MaxMisses

AccessInit ==
    /\ file = Defaults /\ step = "load" /\ copy = Defaults
    /\ room = 0 /\ dirty = FALSE /\ saying = NoReplies
    /\ command = NoCommand /\ approvals = {} /\ granted = {} /\ commands = 0
    /\ fresh = 1 /\ outdated = {} /\ told = NoReplies /\ saved = {}
    /\ misses = 0

(* save_access(): a temporary file renamed over the old one.               *)
WriteFile(contents) ==
    /\ file' = contents
    /\ saved' = saved \cup {r.code : r \in contents.pending}

(* prune_expired().                                                        *)
Pruned(f) == [f EXCEPT !.pending = {r \in @ : r.code \notin outdated}]

-----------------------------------------------------------------------------
(* The loop.                                                               *)

(* load_access(); a file that cannot be read counts as the defaults.       *)
LoadAccess ==
    /\ step = "load"
    /\ step' = "wait"
    /\ \/ copy' = file /\ UNCHANGED misses
       \/ copy' = Defaults /\ misses < MaxMisses /\ misses' = misses + 1
    /\ UNCHANGED <<file, room, dirty, saying, outside, fresh, outdated, told, saved>>

(* A batch begins: outdated codes go.                                      *)
BeginBatch ==
    /\ step = "wait" /\ MaxBatch > 0
    /\ step' = "gate" /\ room' = MaxBatch
    /\ copy' = Pruned(copy) /\ dirty' = (copy' # copy)
    /\ UNCHANGED <<file, saying, outside, fresh, outdated, told, saved, misses>>

Requested(s) == {r \in copy.pending : r.of = s}

(* gate_dm() on one message: the sender is let in or dropped, ...          *)
Pass(s) ==
    /\ \/ copy.policy # "pairing" \/ s \in copy.allow
       \/ \E r \in Requested(s) : r.replies >= MaxReplies
       \/ Requested(s) = {} /\ Cardinality(copy.pending) >= PendingCap
    /\ UNCHANGED <<copy, dirty, saying, fresh>>

PairReply(c) ==
    /\ copy.policy = "pairing"
    /\ dirty' = TRUE /\ saying' = [saying EXCEPT ![c] = @ + 1]

\* Mutant of Renewed: the reply is not counted.
RenewedUncounted(r) == r

Renewed(r) == [r EXCEPT !.replies = @ + 1]

(* ... or answered with the code they have ...                             *)
SayAgain(s) ==
    /\ s \notin copy.allow
    /\ \E r \in Requested(s) :
          /\ r.replies < MaxReplies
          /\ copy' = [copy EXCEPT !.pending = (@ \ {r}) \cup {Renewed(r)}]
          /\ PairReply(r.code)
    /\ UNCHANGED fresh

(* ... or with a new one.                                                  *)
NewCode(s) ==
    /\ s \notin copy.allow /\ Requested(s) = {}
    /\ Cardinality(copy.pending) < PendingCap /\ fresh \in Codes
    /\ copy' = [copy EXCEPT !.pending = @ \cup {[code |-> fresh, of |-> s, replies |-> 1]}]
    /\ PairReply(fresh)
    /\ fresh' = fresh + 1

GateDm(s) ==
    /\ step = "gate" /\ room > 0
    /\ room' = room - 1
    /\ Pass(s) \/ SayAgain(s) \/ NewCode(s)
    /\ UNCHANGED <<file, step, outside, outdated, told, saved, misses>>

(* The copy is written back if a code went, came or was said again, ...    *)
EndBatch ==
    /\ step = "gate" /\ room < MaxBatch
    /\ step' = IF dirty THEN "save" ELSE "load"
    /\ room' = 0 /\ dirty' = FALSE
    /\ UNCHANGED <<file, copy, saying, outside, fresh, outdated, told, saved, misses>>

(* ... and a batch that failed takes its replies with it.                  *)
AbandonBatch ==
    /\ step = "gate"
    /\ step' = "load" /\ room' = 0 /\ dirty' = FALSE /\ saying' = NoReplies
    /\ UNCHANGED <<file, copy, outside, fresh, outdated, told, saved, misses>>

(* Ten seconds without an update.                                          *)
StayQuiet ==
    /\ step = "wait"
    /\ step' = "load"
    /\ UNCHANGED <<file, copy, room, dirty, saying, outside, fresh, outdated, told, saved, misses>>

\* Mutant of SaveAccess: the replies do not wait for the file.
SaveAccessLate ==
    /\ step = "save"
    /\ step' = "reply"
    /\ UNCHANGED <<file, copy, room, dirty, saying, outside, fresh, outdated, told, saved, misses>>

(* "Persist any access.json mutation BEFORE sending pair replies"; a save  *)
(* that fails does not keep the replies back.                              *)
SaveAccess ==
    /\ step = "save"
    /\ step' = "reply"
    /\ \/ WriteFile(copy) /\ UNCHANGED misses
       \/ misses < MaxMisses /\ misses' = misses + 1 /\ UNCHANGED <<file, saved>>
    /\ UNCHANGED <<copy, room, dirty, saying, outside, fresh, outdated, told>>

SayCodes ==
    /\ step = "reply"
    /\ step' = "load"
    /\ told' = [c \in Codes |-> told[c] + saying[c]]
    /\ saying' = NoReplies
    /\ UNCHANGED <<file, copy, room, dirty, outside, fresh, outdated, saved, misses>>

(* run_approved_polling(): the file goes whether the message did or not.   *)
Confirm(s) ==
    /\ s \in approvals
    /\ approvals' = approvals \ {s}
    /\ UNCHANGED <<file, loopVars, command, granted, commands, fresh, outdated,
                   told, saved, misses>>

CodeExpires(c) ==
    /\ c < fresh /\ c \notin outdated
    /\ outdated' = outdated \cup {c}
    /\ UNCHANGED <<file, loopVars, outside, fresh, told, saved, misses>>

-----------------------------------------------------------------------------
(* claudebase telegram pair | allow | revoke | policy.                     *)

ReadForCommand ==
    /\ command.at = "idle" /\ commands < MaxCommands
    /\ command' = [at |-> "read", copy |-> file]
    /\ commands' = commands + 1
    /\ UNCHANGED <<file, loopVars, approvals, granted, fresh, outdated, told,
                   saved, misses>>

EndCommand ==
    /\ command.at = "read"
    /\ command' = NoCommand
    /\ UNCHANGED <<loopVars, commands, fresh, outdated, told, misses>>

(* pair(), with a code the bot has said; the marker for the confirmation   *)
(* is written after the file.                                              *)
Pair(c) ==
    \E r \in Pruned(command.copy).pending :
       /\ r.code = c /\ told[c] > 0
       /\ WriteFile([Pruned(command.copy) EXCEPT !.allow = @ \cup {r.of},
                                                 !.pending = @ \ {r}])
       /\ approvals' = approvals \cup {r.of}
       /\ granted' = granted \cup {r.of}
       /\ EndCommand

Allow(s) ==
    /\ s \notin command.copy.allow
    /\ WriteFile([command.copy EXCEPT !.allow = @ \cup {s}])
    /\ granted' = granted \cup {s}
    /\ EndCommand /\ UNCHANGED approvals

Revoke(s) ==
    /\ s \in command.copy.allow
    /\ WriteFile([command.copy EXCEPT !.allow = @ \ {s}])
    /\ granted' = granted \ {s}
    /\ EndCommand /\ UNCHANGED approvals

(* set_policy(); "allowlist" is refused while the list is empty.           *)
SetPolicy(p) ==
    /\ p = "allowlist" => command.copy.allow # {}
    /\ WriteFile([command.copy EXCEPT !.policy = p])
    /\ EndCommand /\ UNCHANGED <<approvals, granted>>

(* A command that is refused, or has nothing to change.                    *)
RefuseCommand == EndCommand /\ UNCHANGED <<file, saved, approvals, granted>>

-----------------------------------------------------------------------------
AccessNext ==
    \/ LoadAccess \/ BeginBatch \/ EndBatch \/ AbandonBatch
    \/ StayQuiet \/ SaveAccess \/ SayCodes
    \/ ReadForCommand \/ RefuseCommand
    \/ \E s \in Senders : GateDm(s) \/ Confirm(s) \/ Allow(s) \/ Revoke(s)
    \/ \E c \in Codes : Pair(c) \/ CodeExpires(c)
    \/ \E p \in Policies : SetPolicy(p)

AccessSpec == AccessInit /\ [][AccessNext]_accessVars

-----------------------------------------------------------------------------
(* run_long_poll, "if the bot.send_message fails midway we want the        *)
(* pending entry on disk": a sender is told a code only after it was       *)
(* written, but for a save that failed.                                    *)
ToldIsSaved == \A c \in Codes : told[c] > 0 => c \in saved \/ misses > 0

(* MAX_PAIRING_REPLIES, "third inbound DM in pair-pending state is dropped *)
(* silently": a code is said more often only for a count that was not      *)
(* saved, or that a command's older copy of the file has overwritten.      *)
RepliesBounded ==
    \A c \in Codes : told[c] <= MaxReplies + (misses + commands) * (MaxReplies - 1)

(* What the loop and the commands, each with its own copy of access.json,  *)
(* still promise a stranger who writes to the bot.                         *)
PairingSafe == ToldIsSaved /\ RepliesBounded

(* access_cli.rs, "so changes take effect immediately": a sender the       *)
(* operator let in stays in until a command takes them out.                *)
ApprovalStays == granted \subseteq file.allow
=============================================================================
