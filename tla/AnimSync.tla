------------------------------ MODULE AnimSync ------------------------------
(***************************************************************************)
(* The path of a local animation input to the proxies of the other         *)
(* clients: the NotifyAnimationGraph hook (AnimationInputProbe), the delta  *)
(* capture of graph variables (GraphVariableSync), the packets on STRPM's   *)
(* reliable ordered channel (STRPMClient::Send...), the receive callback    *)
(* and its SKSE tasks (STRPMClient::OnSyncMessage, Apply...).               *)
(*                                                                         *)
(* The plugin's send side and receive side share no state, and a packet is  *)
(* never looped back, so one sending client and a set of receiving Peers    *)
(* show every behaviour of the protocol.                                    *)
(***************************************************************************)
EXTENDS GraphVariableSync, Sequences

CONSTANTS
  Peers,        \* the other clients
  Events,       \* graph inputs the local game may issue
  NoEvent,      \* the input of an idle hook
  NoReplay,     \* no call was made
  SyncedEvents, \* SyncRules::events_ of the local client
  Names,        \* graph variable names
  LocalValues,  \* what the local graph may hold, for each name
  Rules,        \* SyncRules::variables_ of the local client, in order
  NameOnWire,   \* a variable's name as CopyField puts it in a packet
  TagOnWire,    \* an input's name as CopyField puts it in a packet
  PeerEvents,   \* SyncRules::events_ of each peer
  PeerTypes,    \* SyncRules::variableTypes_ of each peer; Absent if no rule
  Accepting,    \* peers that run the same packet version and layout
  WithOAR,      \* peers whose OARClient has obtained interface_
  SendMayFail,  \* may messaging_->send return something else than kOk?
  MaxInFlight,  \* bound: packets one peer may have waiting
  MaxNesting    \* bound: inputs notified from within another's handler

AnimType   == "iGPMAAnimationType"
OffsetType == "iGPMAOffsetType"
Start == "OffsetGPMA"
Stop  == "OffsetGPMAStop"

Rule == [name : Names, type : Types]

ASSUME SyncAssumption ==
  /\ Events \subseteq STRING /\ {AnimType, OffsetType} \subseteq Names
  /\ NoEvent \notin Events
  /\ SyncedEvents \subseteq Events
  /\ LocalValues \in [Names -> SUBSET GraphValue]
  /\ Rules \in Seq(Rule)
  /\ \A i, j \in 1..Len(Rules) : Rules[i].name = Rules[j].name => i = j
  /\ PeerEvents \in [Peers -> SUBSET Events]
  /\ PeerTypes \in [Peers -> [Names -> Types \cup {Absent}]]
  /\ Accepting \subseteq Peers /\ WithOAR \subseteq Peers
  /\ NameOnWire \in [Names -> Names] /\ TagOnWire \in [Events -> Events]
  /\ \A e \in Events : TagOnWire[e] = Start => e = Start
  /\ SendMayFail \in BOOLEAN
  /\ MaxInFlight \in Nat /\ MaxNesting \in Nat

VARIABLES
  graph,      \* the local player's animation graph (external)
  lastValues, \* GraphVariableSync::lastValues_
  hook,       \* the running activation of PlayerNotifyAnimationGraph, if any
  outer,      \* activations whose handler notified the graph, innermost first
  connected,  \* peers STRPM's send reaches (external)
  inbox,      \* per peer: packets on the STRPM channel
  tasks,      \* per peer: packets captured in queued SKSE tasks
  resolved,   \* peers whose ProxyResolver maps the sender to a form
  body,       \* the proxy actor: absent, without a graph, or ready
  proxy,      \* graph variables of the proxy
  oarSeen,    \* the proxy as OAR last saw it: OAR goes on using what it has
              \* read of a proxy until its cache is cleared (external)
  stopDue,    \* the proxy plays a GPMA clip that will output its stop
  replay      \* the NotifyAnimationGraph call on a proxy made by this step

senderVars == <<graph, lastValues, hook, outer>>
peerVars   == <<resolved, body, proxy, oarSeen, stopDue>>
vars == <<senderVars, connected, inbox, tasks, peerVars, replay>>

-----------------------------------------------------------------------------
(* Types. *)

\* What the sender knew when the event was captured.  It is not on the wire:
\* "seen" is the local graph at hook entry, "lost" the variables whose packet
\* could not be sent or that a nested input has sent again since.
Capture == [seen : [Names -> GraphValue], lost : SUBSET Names]

VariablePacket ==
  [kind : {"variable"}, name : Names, type : Types, value : Int]
EventPacket ==
  [kind : {"event"}, tag : Events, animType : GraphValue,
   offsetType : GraphValue, at : Capture]
SyncPacket == VariablePacket \cup EventPacket

Hook == [pc : {"idle", "capture", "original"}, event : Events \cup {NoEvent},
         next : Nat, seen : [Names -> GraphValue], lost : SUBSET Names,
         animType : GraphValue, offsetType : GraphValue]

\* An activation that waits for the input its handler has notified.
Suspended == {h \in Hook : h.pc = "original"}

\* The variables of the proxy of peer "to" when the event is notified to it.
Replay == [to : Peers, tag : Events, vals : [Names -> Int], at : Capture]

ASSUME NoReplayAssumption == NoReplay \notin Replay

TypeOK ==
  /\ graph \in [Names -> GraphValue]
  /\ lastValues \in [Names -> Int \cup {Unset}]
  /\ hook \in Hook /\ outer \in Seq(Suspended)
  /\ connected \in [Peers -> BOOLEAN]
  /\ inbox \in [Peers -> Seq(SyncPacket)]
  /\ tasks \in [Peers -> Seq(SyncPacket)]
  /\ resolved \in [Peers -> BOOLEAN]
  /\ body \in [Peers -> {"absent", "graphless", "ready"}]
  /\ proxy \in [Peers -> [Names -> Int]]
  /\ oarSeen \in [Peers -> [Names -> Int]]
  /\ stopDue \in [Peers -> BOOLEAN]
  /\ replay \in Replay \cup {NoReplay}

-----------------------------------------------------------------------------
(* Initial states. *)

Fresh     == [n \in Names |-> 0]      \* a newly loaded proxy's graph
NothingSent == [n \in Names |-> Unset]
NoGraph   == [n \in Names |-> Absent]
IdleHook  == [pc |-> "idle", event |-> NoEvent, next |-> 1, seen |-> NoGraph,
              lost |-> {}, animType |-> Absent, offsetType |-> Absent]

\* The plugin has just loaded; the other clients may be anywhere.
Init ==
  /\ graph = NoGraph
  /\ lastValues = NothingSent
  /\ hook = IdleHook /\ outer = << >>
  /\ connected \in [Peers -> BOOLEAN]
  /\ inbox = [p \in Peers |-> << >>]
  /\ tasks = [p \in Peers |-> << >>]
  /\ resolved \in [Peers -> BOOLEAN]
  /\ body \in [Peers -> {"absent", "graphless", "ready"}]
  /\ proxy = [p \in Peers |-> Fresh]
  /\ oarSeen = [p \in Peers |-> Fresh]
  /\ stopDue = [p \in Peers |-> FALSE]
  /\ replay = NoReplay

\* No proxy is notified in this step.
Quiet == replay' = NoReplay

-----------------------------------------------------------------------------
(* The sending client. *)

\* The game or another mod writes the player's graph.  The hook's capture is
\* one synchronous stretch of the game thread; the original handler that it
\* then calls may write anything.
SetLocalVariable(n) ==
  /\ hook.pc # "capture"
  /\ \E x \in LocalValues[n] : graph' = [graph EXCEPT ![n] = x]
  /\ Quiet
  /\ UNCHANGED <<lastValues, hook, outer, connected, inbox, tasks, peerVars>>

\* messaging_->send to kAllPlayers with kMessageReliable | kMessageOrdered.
Broadcast(packet) ==
  inbox' = [p \in Peers |-> IF connected[p] THEN Append(inbox[p], packet)
                                            ELSE inbox[p]]

IsHelmetInput(e) == e \in {Start, Stop}

\* Activations that have yet to send their event.
Open == IF hook.pc = "idle" THEN 0 ELSE Len(outer) + 1

RoomFor(p) ==
  Len(inbox[p]) + Len(tasks[p]) + Open + Len(Rules) + 1 <= MaxInFlight

\* The player's graph is notified and the vtable hook is entered: by the game
\* or, while an original handler runs, by that handler.
EnterHook(e) ==
  /\ hook.pc # "capture" /\ Open <= MaxNesting
  /\ \A p \in Peers : RoomFor(p)
  /\ outer' = IF hook.pc = "idle" THEN outer ELSE << hook >> \o outer
  /\ hook' = [IdleHook EXCEPT !.pc = "capture", !.event = e, !.seen = graph]
  /\ Quiet /\ UNCHANGED <<graph, lastValues, connected, inbox, tasks, peerVars>>

\* The activation returns to the one whose handler notified its input, if any.
LeaveHook ==
  IF outer = << >> THEN hook' = IdleHook /\ outer' = outer
                   ELSE hook' = Head(outer) /\ outer' = Tail(outer)

\* History: the outer inputs will be replayed under the new value of n.
SentAgain(n) ==
  outer' = [i \in DOMAIN outer |-> [outer[i] EXCEPT !.lost = @ \cup {n}]]

\* The test one iteration of CaptureAndSend makes of the variable it has read.
Sends(rule) ==
  Readable(graph[rule.name])
    /\ HasChanged(rule.type, lastValues[rule.name], graph[rule.name])

\* Mutant: the cache follows every reading, so that a float can creep away.
SkipRuleRemembering(rule) ==
  /\ ~Sends(rule)
  /\ lastValues' = IF Readable(graph[rule.name])
                   THEN [lastValues EXCEPT ![rule.name] = graph[rule.name]]
                   ELSE lastValues
  /\ hook' = [hook EXCEPT !.next = @ + 1]
  /\ UNCHANGED <<outer, inbox>>

\* The three ways the iteration can end: nothing to send, sent and
\* remembered, or refused by the transport and not remembered.
SkipRule(rule) ==
  /\ ~Sends(rule)
  /\ hook' = [hook EXCEPT !.next = @ + 1]
  /\ UNCHANGED <<lastValues, outer, inbox>>

SendRule(rule) ==
  /\ Sends(rule)
  /\ Broadcast([kind |-> "variable", name |-> NameOnWire[rule.name],
                type |-> rule.type, value |-> graph[rule.name]])
  /\ lastValues' = [lastValues EXCEPT ![rule.name] = graph[rule.name]]
  /\ hook' = [hook EXCEPT !.next = @ + 1]
  /\ SentAgain(rule.name)

\* Mutant: a value that was refused is remembered as sent.
LoseRuleRemembering(rule) ==
  /\ SendMayFail
  /\ Sends(rule)
  /\ lastValues' = [lastValues EXCEPT ![rule.name] = graph[rule.name]]
  /\ hook' = [hook EXCEPT !.next = @ + 1, !.lost = @ \cup {rule.name}]
  /\ UNCHANGED <<outer, inbox>>

LoseRule(rule) ==
  /\ SendMayFail
  /\ Sends(rule)
  /\ hook' = [hook EXCEPT !.next = @ + 1, !.lost = @ \cup {rule.name}]
  /\ UNCHANGED <<lastValues, outer, inbox>>

CaptureRule ==
  /\ hook.pc = "capture" /\ hook.next \in 1..Len(Rules)
  /\ \/ SkipRule(Rules[hook.next])
     \/ SendRule(Rules[hook.next])
     \/ LoseRule(Rules[hook.next])
  /\ Quiet /\ UNCHANGED <<graph, connected, tasks, peerVars>>

\* The state embedded in a Helmet Toggle event is read after the capture and
\* before the original handler runs.
CallOriginal ==
  /\ hook.pc = "capture" /\ hook.next > Len(Rules)
  /\ hook' = IF IsHelmetInput(hook.event)
             THEN [hook EXCEPT !.pc = "original", !.animType = graph[AnimType],
                               !.offsetType = graph[OffsetType]]
             ELSE [hook EXCEPT !.pc = "original"]
  /\ Quiet
  /\ UNCHANGED <<graph, lastValues, outer, connected, inbox, tasks, peerVars>>

\* Mutant: the embedded state is read once the original handler has run.
EventSentLate ==
  [kind |-> "event", tag |-> TagOnWire[hook.event],
   animType |-> graph[AnimType], offsetType |-> graph[OffsetType],
   at |-> [seen |-> hook.seen, lost |-> hook.lost]]

EventSent ==
  [kind |-> "event", tag |-> TagOnWire[hook.event],
   animType |-> hook.animType, offsetType |-> hook.offsetType,
   at |-> [seen |-> hook.seen, lost |-> hook.lost]]

\* The original handler accepted the input, and the event is profiled.
ReturnAndSend ==
  /\ hook.pc = "original" /\ hook.event \in SyncedEvents
  /\ Broadcast(EventSent)
  /\ LeaveHook
  /\ Quiet /\ UNCHANGED <<graph, lastValues, connected, tasks, peerVars>>

\* The input was rejected, is not profiled, or the transport refused it.
ReturnSilently(accepted) ==
  /\ hook.pc = "original"
  /\ accepted /\ hook.event \in SyncedEvents => SendMayFail
  /\ LeaveHook
  /\ Quiet /\ UNCHANGED <<graph, lastValues, connected, inbox, tasks, peerVars>>

\* GraphVariableSync::Reset, which InstallRuntime (RuntimeInstall) calls on every load.
Reset ==
  /\ hook.pc = "idle"
  /\ lastValues' = NothingSent
  /\ Quiet /\ UNCHANGED <<graph, hook, outer, connected, inbox, tasks, peerVars>>

-----------------------------------------------------------------------------
(* A receiving client. *)

\* Mutant: one packet waits for the game thread, not a queue of them.
OnSyncMessageOneSlot(p) ==
  /\ inbox[p] # << >>
  /\ inbox' = [inbox EXCEPT ![p] = Tail(@)]
  /\ tasks' = IF p \in Accepting
              THEN [tasks EXCEPT ![p] = << Head(inbox[p]) >>]
              ELSE tasks
  /\ Quiet /\ UNCHANGED <<senderVars, connected, peerVars>>

\* Mutant: a new task goes ahead of the waiting ones.
OnSyncMessageUnordered(p) ==
  /\ inbox[p] # << >>
  /\ inbox' = [inbox EXCEPT ![p] = Tail(@)]
  /\ tasks' = IF p \in Accepting
              THEN [tasks EXCEPT ![p] = << Head(inbox[p]) >> \o @]
              ELSE tasks
  /\ Quiet /\ UNCHANGED <<senderVars, connected, peerVars>>

\* OnSyncMessage, on STRPM's thread: a packet of another version or size is
\* ignored, any other is copied into a task for the game thread.
OnSyncMessage(p) ==
  /\ inbox[p] # << >>
  /\ inbox' = [inbox EXCEPT ![p] = Tail(@)]
  /\ tasks' = IF p \in Accepting
              THEN [tasks EXCEPT ![p] = Append(@, Head(inbox[p]))]
              ELSE tasks
  /\ Quiet /\ UNCHANGED <<senderVars, connected, peerVars>>

ShouldSyncGraphVariable(p, name, type) == PeerTypes[p][name] = type
ShouldSyncEvent(p, tag) == tag \in PeerEvents[p]

RunTask(p, kind) ==
  /\ tasks[p] # << >> /\ Head(tasks[p]).kind = kind
  /\ tasks' = [tasks EXCEPT ![p] = Tail(@)]
  /\ UNCHANGED <<senderVars, connected, inbox, resolved, body>>

\* OARClient::ClearConditionStateData, for a proxy that holds vals: OAR looks
\* at it again.  Nothing happens on a client without interface_, whose single
\* attempt to obtain it (RuntimeInstall) was made before any packet arrived.
ClearConditionStateData(p, vals) ==
  oarSeen' = IF p \in WithOAR THEN [oarSeen EXCEPT ![p] = vals] ELSE oarSeen

\* ApplyGraphVariableMessage.  A variable that was set refreshes OAR; one
\* that was refused, unresolved or without a graph to live in is gone.
VariableApplies(p, m) ==
  /\ ShouldSyncGraphVariable(p, m.name, m.type)
  /\ resolved[p] /\ body[p] = "ready"

\* Mutant: a variable that was set does not refresh OAR.
ApplyGraphVariableSilently(p) ==
  /\ RunTask(p, "variable")
  /\ LET m == Head(tasks[p])
     IN \/ /\ VariableApplies(p, m)
           /\ proxy' = [proxy EXCEPT ![p][m.name] = m.value]
        \/ /\ ~VariableApplies(p, m)
           /\ UNCHANGED proxy
  /\ Quiet /\ UNCHANGED <<oarSeen, stopDue>>

ApplyGraphVariableMessage(p) ==
  /\ RunTask(p, "variable")
  /\ LET m == Head(tasks[p])
     IN \/ /\ VariableApplies(p, m)
           /\ proxy' = [proxy EXCEPT ![p][m.name] = m.value]
           /\ ClearConditionStateData(p, proxy'[p])
        \/ /\ ~VariableApplies(p, m)
           /\ UNCHANGED <<proxy, oarSeen>>
  /\ Quiet /\ UNCHANGED stopDue

\* Mutant: the flags that say which fields were read are not looked at.
EmbeddedUnflagged(m, vals) ==
  IF m.tag # Start THEN vals
  ELSE [vals EXCEPT ![AnimType] = m.animType, ![OffsetType] = m.offsetType]

\* The proxy's variables once the state embedded in the packet is applied.
Embedded(m, vals) ==
  IF m.tag # Start THEN vals
  ELSE [vals EXCEPT
          ![AnimType]   = IF Readable(m.animType) THEN m.animType ELSE @,
          ![OffsetType] = IF Readable(m.offsetType) THEN m.offsetType ELSE @]

\* ApplyAnimationMessage: embedded state, OAR refresh, replay, and for a stop
\* the reset of the animation type, which does not refresh OAR.
EventApplies(p, m) ==
  resolved[p] /\ body[p] # "absent" /\ ShouldSyncEvent(p, m.tag)

ReplayEvent(p, m) ==
  LET vals == Embedded(m, proxy[p])
  IN /\ replay' = [to |-> p, tag |-> m.tag, vals |-> vals, at |-> m.at]
     /\ proxy' = [proxy EXCEPT
                    ![p] = IF m.tag = Stop THEN [vals EXCEPT ![AnimType] = 0]
                                           ELSE vals]
     /\ ClearConditionStateData(p, vals)
     /\ stopDue' = [stopDue EXCEPT ![p] = @ \/ IsHelmetInput(m.tag)]

\* Mutant: an event that finds no proxy is queued again, behind newer ones.
ApplyAnimationMessageRetrying(p) ==
  /\ tasks[p] # << >> /\ Head(tasks[p]).kind = "event"
  /\ LET m == Head(tasks[p])
         ready == EventApplies(p, m) /\ body[p] = "ready"
     IN /\ tasks' = [tasks EXCEPT ![p] = IF ready THEN Tail(@)
                                               ELSE Append(Tail(@), m)]
        /\ IF ready THEN ReplayEvent(p, m)
                    ELSE Quiet /\ UNCHANGED <<proxy, oarSeen, stopDue>>
  /\ UNCHANGED <<senderVars, connected, inbox, resolved, body>>

ApplyAnimationMessage(p) ==
  /\ RunTask(p, "event")
  /\ LET m == Head(tasks[p])
     IN \/ /\ EventApplies(p, m) /\ body[p] = "ready"
           /\ ReplayEvent(p, m)
        \/ /\ EventApplies(p, m) /\ body[p] = "graphless"
           /\ ClearConditionStateData(p, proxy[p])
           /\ Quiet /\ UNCHANGED <<proxy, stopDue>>
        \/ /\ ~EventApplies(p, m)
           /\ Quiet /\ UNCHANGED <<proxy, oarSeen, stopDue>>

\* AnimationProbe::ProcessEvent, when the clip on the proxy outputs its own
\* OffsetGPMAStop: the animation type is reset, OAR is not refreshed.
ProxyStopOutput(p) ==
  /\ stopDue[p] /\ body[p] = "ready"
  /\ stopDue' = [stopDue EXCEPT ![p] = FALSE]
  /\ proxy' = [proxy EXCEPT ![p][AnimType] = 0]
  /\ Quiet
  /\ UNCHANGED <<senderVars, connected, inbox, tasks, resolved, body, oarSeen>>

-----------------------------------------------------------------------------
(* What other components do to a session: STRPM and the game (external). *)

Join(p) ==
  /\ ~connected[p]
  /\ connected' = [connected EXCEPT ![p] = TRUE]
  /\ Quiet /\ UNCHANGED <<senderVars, inbox, tasks, peerVars>>

\* A peer that leaves loses what was on its channel, not its queued tasks.
Leave(p) ==
  /\ connected[p]
  /\ connected' = [connected EXCEPT ![p] = FALSE]
  /\ inbox' = [inbox EXCEPT ![p] = << >>]
  /\ Quiet /\ UNCHANGED <<senderVars, tasks, peerVars>>

ResolverChanges(p) ==
  /\ resolved' = [resolved EXCEPT ![p] = ~@]
  /\ Quiet /\ UNCHANGED <<senderVars, connected, inbox, tasks,
                          body, proxy, oarSeen, stopDue>>

\* The proxy is created, loses or gets its graph, or is deleted.  A graph
\* starts from its defaults, and OAR with it.
BodyChanges(p) ==
  /\ \E b \in {"absent", "graphless", "ready"} \ {body[p]} :
       body' = [body EXCEPT ![p] = b]
  /\ proxy' = [proxy EXCEPT ![p] = Fresh]
  /\ oarSeen' = [oarSeen EXCEPT ![p] = Fresh]
  /\ stopDue' = [stopDue EXCEPT ![p] = FALSE]
  /\ Quiet /\ UNCHANGED <<senderVars, connected, inbox, tasks, resolved>>

-----------------------------------------------------------------------------
(* Specifications. *)

Sender ==
  \/ \E n \in Names : SetLocalVariable(n)
  \/ \E e \in Events : EnterHook(e)
  \/ CaptureRule
  \/ CallOriginal
  \/ ReturnAndSend
  \/ \E accepted \in BOOLEAN : ReturnSilently(accepted)
  \/ Reset

Receiver(p) ==
  \/ OnSyncMessage(p)
  \/ ApplyGraphVariableMessage(p)
  \/ ApplyAnimationMessage(p)
  \/ ProxyStopOutput(p)

Churn(p) ==
  \/ Join(p)
  \/ Leave(p)
  \/ ResolverChanges(p)
  \/ BodyChanges(p)

StableNext == Sender \/ \E p \in Peers : Receiver(p)
Next == StableNext \/ \E p \in Peers : Churn(p)

Spec == Init /\ [][Next]_vars

\* A session in which every proxy stays up: nothing is lost but sends.
AllPresent ==
  \A p \in Peers : connected[p] /\ resolved[p] /\ body[p] = "ready"

StableInit == Init /\ AllPresent
StableSpec == StableInit /\ [][StableNext]_vars

\* STRPM's thread and SKSE's task pump keep running; a hook that was entered
\* returns.  Nothing obliges the game to issue an input.
Fairness ==
  /\ WF_vars(CaptureRule) /\ WF_vars(CallOriginal)
  /\ WF_vars(ReturnAndSend \/ \E accepted \in BOOLEAN : ReturnSilently(accepted))
  /\ \A p \in Peers : /\ WF_vars(OnSyncMessage(p))
                      /\ WF_vars(ApplyGraphVariableMessage(p))
                      /\ WF_vars(ApplyAnimationMessage(p))

FairStableSpec == StableSpec /\ Fairness

-----------------------------------------------------------------------------
(* Properties. *)

TypeOf(n) == LET i == CHOOSE j \in 1..Len(Rules) : Rules[j].name = n
             IN Rules[i].type

RuleNames == {Rules[i].name : i \in 1..Len(Rules)}

\* The variables only the generic transport writes on the proxy of peer p:
\* profiled alike on both sides, and not part of the embedded GPMA state.
ProfiledVars(p) ==
  {n \in RuleNames \ {AnimType, OffsetType} :
     ShouldSyncGraphVariable(p, n, TypeOf(n))}

\* Those whose name fits in a packet, and that no other rule is cut down to.
TransportedVars(p) ==
  {n \in ProfiledVars(p) : \A r \in RuleNames : NameOnWire[r] = n <=> r = n}

\* What is still on its way to the proxy of p, in the order it will arrive.
Pending(p) == tasks[p] \o inbox[p]

IsVariable(m, n) == m.kind = "variable" /\ m.name = n

\* Once the first k packets of q are applied, variable n is x: the last
\* packet about n among them says so or, if there is none, it was so before.
Carried(q, k, n, before, x) ==
  \/ /\ before = x
     /\ \A i \in 1..k : ~IsVariable(q[i], n)
  \/ \E i \in 1..k : /\ IsVariable(q[i], n) /\ q[i].value = x
                     /\ \A j \in (i+1)..k : ~IsVariable(q[j], n)

\* The delta filter is sound: while the proxies stay up, the value that the
\* sender remembers as sent is the one each proxy will hold when its queue
\* has drained, so a capture may skip it (GraphVariableSync.cpp:36, 40-41).
CacheReachesProxy ==
  \A p \in Accepting : \A n \in TransportedVars(p) :
    lastValues[n] # Unset =>
      Carried(Pending(p), Len(Pending(p)), n, proxy[p][n], lastValues[n])

\* A replayed event finds the proxy in the state the local graph had when the
\* hook was entered, up to the float tolerance, except for a variable whose
\* packet the transport refused or that an input notified by the original
\* handler sent again (AnimationInputProbe.cpp:41-44 sends state before the
\* event; STRPMClient.cpp:431-437 relies on it).
ReplaySeesCapturedState ==
  replay # NoReplay =>
    \A n \in TransportedVars(replay.to) \ replay.at.lost :
      Readable(replay.at.seen[n]) =>
        Close(TypeOf(n), replay.vals[n], replay.at.seen[n])

\* The same with no exception, as README.md:9 and the comments at
\* AnimationInputProbe.cpp:41-43 and STRPMClient.cpp:431-433 put it.
ReplaySeesLocalState ==
  replay # NoReplay =>
    \A n \in TransportedVars(replay.to) :
      Readable(replay.at.seen[n]) =>
        Close(TypeOf(n), replay.vals[n], replay.at.seen[n])

\* Whatever was lost, refused, reset or missed before, an OffsetGPMA replays
\* under the GPMA state the local player had when the hook was entered: the
\* state embedded in the packet is read, flagged and applied in time
\* (AnimationInputProbe.cpp:54-58, STRPMClient.cpp:407-437).
GPMAStateAtReplay ==
  replay # NoReplay /\ replay.tag = Start =>
    \A n \in {AnimType, OffsetType} :
      Readable(replay.at.seen[n]) => replay.vals[n] = replay.at.seen[n]

\* README.md:87 calls the embedded GPMA state redundant: when an OffsetGPMA is
\* next to be applied, the generic transport has already set the same value.
EmbeddedStateIsRedundant ==
  \A p \in Peers :
    tasks[p] # << >> /\ Head(tasks[p]).kind = "event" =>
      LET m == Head(tasks[p])
      IN m.tag = Start /\ Readable(m.animType) /\ m.at.lost = {} =>
           proxy[p][AnimType] = m.animType

\* The delta filter is sound for OAR as well.  A value that is skipped because
\* it was sent before clears nothing on the receiver, so, while the proxies stay
\* up, OAR must look at each proxy again after it was written: once the queue
\* has drained, what OAR has seen is what the sender remembers as sent, on
\* each client whose interface to OAR was obtained (GraphVariableSync.cpp:36,
\* 40-41, STRPMClient.cpp:543-545; without it, OARClient.cpp:68-70 clears nothing).
OARReachesSentState ==
  \A p \in Accepting \cap WithOAR : \A n \in TransportedVars(p) :
    lastValues[n] # Unset =>
      Carried(Pending(p), Len(Pending(p)), n, oarSeen[p][n], lastValues[n])

\* While the proxies stay up, a value remembered as sent is on every proxy in
\* the end, or the local player has moved on to another.
SentValuesArrive ==
  \A p \in Accepting : \A n \in TransportedVars(p) : \A x \in LocalValues[n] :
    (lastValues[n] = x) ~> (proxy[p][n] = x \/ lastValues[n] # x)

=============================================================================
