--------------------------------- MODULE Nicks ---------------------------------
(***************************************************************************)
(* What a session is called: the nick a process starts under, the memory   *)
(* of chosen nicks per window and directory and per conversation, and the  *)
(* callback tokens, which are kept by nick (supervisor/mod.rs, identity;   *)
(* daemon/agent_registry.rs; daemon/callback.rs; the handlers of           *)
(* agent_register, agent_rename and agent_bind_session, daemon/server.rs). *)
(*                                                                         *)
(* All processes run in one directory of one host.  A handler's statements *)
(* commit one by one, so that those of another session come between.       *)
(***************************************************************************)
EXTENDS Integers, FiniteSets

CONSTANTS Processes, \* supervisor processes, one agent_id each
          Windows,   \* controlling terminals
          Talks,     \* Claude session ids
          Given,     \* nicks an operator gives
          NoNick,    \* no nick remembered
          MaxTokens, \* bound: callback tokens made
          MaxRenames \* bound: renames asked for

ASSUME NicksAssumption ==
    /\ Given \cap Int = {} /\ NoNick \notin Given \cup Int
    /\ MaxTokens \in Nat /\ MaxRenames \in Nat
    /\ IsFiniteSet(Processes)

(* The nick of the project and its forms with a suffix: 1 is the plain     *)
(* nick, n is <project>-n.                                                 *)
Derived == 1..Cardinality(Processes)
Nicks == Given \cup Derived
Directory == "directory"   \* the slot of the empty terminal
NoToken == 0
MaybeNick == Nicks \cup {NoNick}

VARIABLES
    phase,        \* [Processes -> where the process is in its registration]
    window,       \* [Processes -> Windows], its controlling terminal
    nick,         \* [Processes -> MaybeNick], its own name for itself, then the row's
    chosen,       \* processes whose nick was given or remembered
    conversation, \* [Processes -> SUBSET Talks], the one it reported
    moving,       \* [Processes -> handler of a rename]
    memory,       \* nick_memory, by window and for the directory
    talk,         \* conversation_nick
    tokens,       \* callback_tokens: [Nicks -> token]
    minted,       \* tokens made so far
    carried,      \* [token -> the processes whose rename has taken it along]
    retired,      \* <<process, token>>: a rename was to end the token
    renames

running == <<phase, window, nick, chosen, conversation>>
tokenVars == <<tokens, minted, carried>>
nickVars == <<running, moving, memory, talk, tokenVars, retired, renames>>

Steps == {"idle", "row", "token", "fresh", "remember", "talk"}
Handlers == [at : Steps, from : MaybeNick, to : MaybeNick, fresh : BOOLEAN, had : 0..MaxTokens]
NoMove == [at |-> "idle", from |-> NoNick, to |-> NoNick, fresh |-> FALSE, had |-> NoToken]

NicksTypeOK ==
    /\ phase \in [Processes -> {"new", "named", "row", "token", "up", "gone"}]
    /\ window \in [Processes -> Windows] /\ nick \in [Processes -> MaybeNick]
    /\ chosen \in SUBSET Processes
    /\ conversation \in [Processes -> SUBSET Talks]
    /\ moving \in [Processes -> Handlers]
    /\ memory \in [Windows \cup {Directory} -> MaybeNick]
    /\ talk \in [Talks -> MaybeNick]
    /\ tokens \in [Nicks -> 0..MaxTokens] /\ minted \in 0..MaxTokens
    /\ carried \in [1..MaxTokens -> SUBSET Processes]
    /\ retired \in SUBSET (Processes \X (1..MaxTokens)) /\ renames \in 0..MaxRenames

NicksInit ==
    /\ phase = [p \in Processes |-> "new"] /\ window \in [Processes -> Windows]
    /\ nick = [p \in Processes |-> NoNick] /\ chosen = {}
    /\ conversation = [p \in Processes |-> {}]
    /\ moving = [p \in Processes |-> NoMove]
    /\ memory = [w \in Windows \cup {Directory} |-> NoNick]
    /\ talk = [c \in Talks |-> NoNick]
    /\ tokens = [n \in Nicks |-> NoToken] /\ minted = 0
    /\ carried = [t \in 1..MaxTokens |-> {}] /\ retired = {} /\ renames = 0

(* list_online(), nick_is_taken(): a row counts while its process runs.    *)
Online == {p \in Processes : phase[p] \in {"row", "token", "up"}}
Taken(n, but) == \E p \in Online \ {but} : nick[p] = n

-----------------------------------------------------------------------------
(* A process starts and registers.                                         *)

(* unique_nick(): the plain nick or the first free suffix.                 *)
UniqueNick ==
    CHOOSE n \in Derived :
        /\ \A p \in Online : nick[p] # n
        /\ \A m \in Derived : m < n => \E p \in Online : nick[p] = m

(* recall_nick(): the window's own slot, then the directory's.             *)
Recalled(w) == IF memory[w] # NoNick THEN memory[w] ELSE memory[Directory]

(* identity::derive(), before `claude` is spawned: --nick as it is, or a   *)
(* remembered nick nobody holds, or the project's.                         *)
Start(p) ==
    /\ phase[p] = "new"
    /\ \A q \in Processes : phase[q] \notin {"new", "gone"} => window[q] # window[p]
    /\ phase' = [phase EXCEPT ![p] = "named"]
    /\ LET n == Recalled(window[p]) IN
       \/ \E g \in Given : nick' = [nick EXCEPT ![p] = g] /\ chosen' = chosen \cup {p}
       \/ /\ n # NoNick /\ ~Taken(n, p)
          /\ nick' = [nick EXCEPT ![p] = n] /\ chosen' = chosen \cup {p}
       \/ /\ n = NoNick \/ Taken(n, p)
          /\ nick' = [nick EXCEPT ![p] = UniqueNick] /\ UNCHANGED chosen
    /\ UNCHANGED <<window, conversation, moving, memory, talk, tokenVars, retired, renames>>

(* register(): whether another session has the nick is not looked at.      *)
RegisterNick(p) ==
    /\ phase[p] = "named"
    /\ phase' = [phase EXCEPT ![p] = "row"]
    /\ UNCHANGED <<window, nick, chosen, conversation, moving, memory, talk, tokenVars,
                   retired, renames>>

(* ensure_token(): the one of the nick, or a new one.                      *)
EnsureToken(p) ==
    /\ phase[p] = "row"
    /\ phase' = [phase EXCEPT ![p] = "token"]
    /\ IF tokens[nick[p]] # NoToken THEN UNCHANGED tokenVars
       ELSE /\ minted < MaxTokens /\ minted' = minted + 1
            /\ tokens' = [tokens EXCEPT ![nick[p]] = minted + 1] /\ UNCHANGED carried
    /\ UNCHANGED <<window, nick, chosen, conversation, moving, memory, talk, retired, renames>>

(* remember_nick(): the window's slot and the directory's.                 *)
Remember(p, n) ==
    memory' = [w \in DOMAIN memory |-> IF w \in {window[p], Directory} THEN n ELSE memory[w]]

(* The rest of agent_register: a derived nick is not remembered.           *)
Registered(p) ==
    /\ phase[p] = "token"
    /\ phase' = [phase EXCEPT ![p] = "up"]
    /\ IF p \in chosen THEN Remember(p, nick[p]) ELSE UNCHANGED memory
    /\ UNCHANGED <<window, nick, chosen, conversation, moving, talk, tokenVars, retired, renames>>

EndProcess(p) ==
    /\ phase[p] = "up"
    /\ phase' = [phase EXCEPT ![p] = "gone"]
    /\ UNCHANGED <<window, nick, chosen, conversation, moving, memory, talk, tokenVars,
                   retired, renames>>

-----------------------------------------------------------------------------
(* rename_in_place(), one statement after the other.                       *)

(* rename() checks the nick first; a nick that is held by a live session   *)
(* is refused.                                                             *)
BeginRename(p, n, fresh) ==
    /\ moving[p] = NoMove /\ renames < MaxRenames
    /\ ~Taken(n, p)
    /\ renames' = renames + 1
    /\ moving' = [moving EXCEPT ![p] =
          [at |-> "row", from |-> nick[p], to |-> n, fresh |-> fresh, had |-> tokens[nick[p]]]]

RenameNick(p) ==
    /\ moving[p].at = "row"
    /\ nick' = [nick EXCEPT ![p] = moving[p].to]
    /\ moving' = [moving EXCEPT ![p].at = IF moving[p].from = moving[p].to THEN "remember"
                                          ELSE "token"]
    /\ UNCHANGED <<phase, window, chosen, conversation, memory, talk, tokenVars, retired, renames>>

(* The nick's token becomes that of the new one; who took it is noted.     *)
Carry(p, from, to) ==
    /\ tokens' = IF tokens[from] = NoToken THEN tokens
                 ELSE [tokens EXCEPT ![to] = tokens[from], ![from] = NoToken]
    /\ carried' = [t \in DOMAIN carried |->
                     IF t = tokens[from] THEN carried[t] \cup {p} ELSE carried[t]]

\* Mutant of MoveToken: the new token is made before the old one has moved.
MoveTokenLast(p) ==
    LET h == moving[p]
        last == h.at = "fresh" IN
    /\ h.at \in {"token", "fresh"}
    /\ \/ /\ ~last /\ h.fresh /\ minted < MaxTokens
          /\ minted' = minted + 1
          /\ tokens' = [tokens EXCEPT ![h.to] = minted + 1]
          /\ moving' = [moving EXCEPT ![p].at = "fresh"] /\ UNCHANGED carried
       \/ /\ last \/ ~h.fresh
          /\ Carry(p, h.from, h.to)
          /\ moving' = [moving EXCEPT ![p].at = "remember"]
          /\ UNCHANGED minted
    /\ UNCHANGED <<running, memory, talk, retired, renames>>

(* callback::rename(): UPDATE OR REPLACE; the token goes with the session. *)
MoveToken(p) ==
    LET h == moving[p] IN
    /\ h.at = "token"
    /\ Carry(p, h.from, h.to)
    /\ moving' = [moving EXCEPT ![p].at = IF h.fresh THEN "fresh" ELSE "remember"]
    /\ UNCHANGED <<running, memory, talk, minted, retired, renames>>

(* callback::rotate(), when a new token was asked for.                     *)
Rotate(p) ==
    /\ moving[p].at = "fresh" /\ minted < MaxTokens
    /\ minted' = minted + 1
    /\ tokens' = [tokens EXCEPT ![moving[p].to] = minted + 1]
    /\ moving' = [moving EXCEPT ![p].at = "remember"]
    /\ UNCHANGED <<running, memory, talk, carried, retired, renames>>

(* (The chats follow, see AgentRegistry.)  The nick is remembered for the  *)
(* window and the directory, whoever chose it, ...                         *)
RememberRenamed(p) ==
    /\ moving[p].at = "remember"
    /\ Remember(p, moving[p].to)
    /\ moving' = [moving EXCEPT ![p].at = "talk"]
    /\ UNCHANGED <<running, talk, tokenVars, retired, renames>>

(* ... and for the conversation.                                           *)
RenameTalk(p) ==
    LET h == moving[p] IN
    /\ h.at = "talk"
    /\ talk' = [c \in Talks |-> IF c \in conversation[p] THEN h.to ELSE talk[c]]
    /\ retired' = IF h.fresh /\ h.from # h.to /\ h.had # NoToken
                  THEN retired \cup {<<p, h.had>>} ELSE retired
    /\ moving' = [moving EXCEPT ![p] = NoMove]
    /\ UNCHANGED <<running, memory, tokenVars, renames>>

(* agent_rename of the session itself.                                     *)
AskRename(p, n, fresh) ==
    /\ phase[p] = "up"
    /\ BeginRename(p, n, fresh)
    /\ UNCHANGED <<running, memory, talk, tokenVars, retired>>

(* handle_agent_bind_session(): the conversation's nick is taken back if   *)
(* it is free; a conversation without one gets the session's.              *)
BindSession(p, c) ==
    /\ phase[p] = "up" /\ conversation[p] = {} /\ moving[p] = NoMove
    /\ conversation' = [conversation EXCEPT ![p] = {c}]
    /\ \/ /\ talk[c] = NoNick
          /\ talk' = [talk EXCEPT ![c] = nick[p]] /\ UNCHANGED <<moving, renames>>
       \/ /\ talk[c] = nick[p] \/ (talk[c] # NoNick /\ Taken(talk[c], p))
          /\ UNCHANGED <<talk, moving, renames>>
       \/ /\ talk[c] \notin {NoNick, nick[p]}
          /\ BeginRename(p, talk[c], FALSE) /\ UNCHANGED talk
    /\ UNCHANGED <<phase, window, nick, chosen, memory, tokenVars, retired>>

(* The daemon is started again: handlers end where they are, sessions      *)
(* register again under the nick of their row.                             *)
RestartNicks ==
    /\ phase' = [p \in Processes |-> IF p \in Online THEN "named" ELSE phase[p]]
    /\ moving' = [p \in Processes |-> NoMove]
    /\ UNCHANGED <<window, nick, chosen, conversation, memory, talk, tokenVars, retired, renames>>

-----------------------------------------------------------------------------
NicksNext ==
    \/ \E p \in Processes :
          \/ Start(p) \/ RegisterNick(p) \/ EnsureToken(p) \/ Registered(p) \/ EndProcess(p)
          \/ RenameNick(p) \/ MoveToken(p) \/ Rotate(p) \/ RememberRenamed(p) \/ RenameTalk(p)
          \/ \E n \in Given, fresh \in BOOLEAN : AskRename(p, n, fresh)
          \/ \E c \in Talks : BindSession(p, c)
    \/ RestartNicks

NicksSpec == NicksInit /\ [][NicksNext]_nickVars

-----------------------------------------------------------------------------
(* callback::dispatch(): the nick must be that of one live session, and    *)
(* the token the nick's.                                                   *)
Reached(token, n) ==
    LET named == {p \in Online : nick[p] = n} IN
    IF Cardinality(named) = 1 /\ tokens[n] = token THEN named ELSE {}

(* rename_in_place(), "whoever held the old token should stop being able   *)
(* to reach it": a session renamed with new_callback_token is not reached  *)
(* with the token it had, whatever it is renamed to later.                 *)
OldTokenEnds ==
    \A r \in retired :
        moving[r[1]] = NoMove => \A n \in Nicks : r[1] \notin Reached(r[2], n)

(* What rename_in_place() does see to: the token is nobody's any more,     *)
(* unless another session, a namesake of this one, has taken it along in a *)
(* rename of its own.                                                      *)
TokenDies ==
    \A r \in retired : carried[r[2]] \subseteq {r[1]} => \A n \in Nicks : tokens[n] # r[2]

(* handle_agent_register(), "Every session has a callback token from its   *)
(* first registration".                                                    *)
TokenFromStart == \A p \in Processes : phase[p] = "up" /\ moving[p] = NoMove =>
                     tokens[nick[p]] # NoToken

(* remember_nick(), "A nick the supervisor derived from the project name   *)
(* is NOT remembered".                                                     *)
OnlyChosenRemembered == \A w \in DOMAIN memory : memory[w] \in Given \cup {NoNick}
=============================================================================
