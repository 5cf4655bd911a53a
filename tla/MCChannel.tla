------------------------------- MODULE MCChannel -------------------------------
(***************************************************************************)
(* The parts of the daemon between the operator's phone and the sessions   *)
(* that share no state: the long poll, the outbound queue, the way of a    *)
(* post to a session, the questions with buttons, the access file and the  *)
(* quiet hours.  A behaviour is one of one part while the others rest, so  *)
(* that one run checks each part under its own orders of steps and not     *)
(* under those of all six.                                                 *)
(***************************************************************************)
EXTENDS TelegramPoll, TelegramOut, Routing, Asks, Access, Dnd

VARIABLE part  \* the part this behaviour is of

channelVars == <<part, pollVars, outVars, routingVars, askVars, accessVars, dndVars>>

ChannelInit ==
    /\ part \in {"poll", "out", "routing", "asks", "access", "dnd"}
    /\ PollInit /\ OutInit /\ RoutingInit /\ AsksInit /\ AccessInit /\ DndInit

ChannelNext ==
    /\ \/ /\ part = "poll" /\ PollNext
          /\ UNCHANGED <<outVars, routingVars, askVars, accessVars, dndVars>>
       \/ /\ part = "out" /\ OutNext
          /\ UNCHANGED <<pollVars, routingVars, askVars, accessVars, dndVars>>
       \/ /\ part = "routing" /\ RoutingNext
          /\ UNCHANGED <<pollVars, outVars, askVars, accessVars, dndVars>>
       \/ /\ part = "asks" /\ AsksNext
          /\ UNCHANGED <<pollVars, outVars, routingVars, accessVars, dndVars>>
       \/ /\ part = "access" /\ AccessNext
          /\ UNCHANGED <<pollVars, outVars, routingVars, askVars, dndVars>>
       \/ /\ part = "dnd" /\ DndNext
          /\ UNCHANGED <<pollVars, outVars, routingVars, askVars, accessVars>>
    /\ UNCHANGED part

(* In the other parts' behaviours the loop of TelegramPoll has nothing to  *)
(* do: the steps that are to be fair are never enabled there.              *)
ChannelSpec == ChannelInit /\ [][ChannelNext]_channelVars /\ PollFairness

(* The types of the six parts.                                             *)
ChannelTypeOK ==
    /\ PollTypeOK /\ OutTypeOK /\ RoutingTypeOK
    /\ AsksTypeOK /\ AccessTypeOK /\ DndTypeOK

(* What is exchanged with Telegram is neither lost nor doubled but where a *)
(* crash or an answer that did not come leaves no other choice: an update  *)
(* is done with before the offset passes it, a reply the API took is not   *)
(* sent again (telegram.rs, channel_state.rs, chat.rs).                    *)
TelegramSafe == UpdatesSafe /\ RepliesSafe
=============================================================================
