--------------------------- MODULE RuntimeInstall ---------------------------
(***************************************************************************)
(* How the plugin comes up: InstallRuntime (main.cpp), which SKSE causes on *)
(* every game load, the two vtable hooks, STRPMClient::Initialize with its  *)
(* four stages that may fail one by one, and OARClient::Initialize.         *)
(*                                                                         *)
(* The cache reset and the local player's sink, which InstallRuntime also   *)
(* renews, are Reset of AnimSync and Install of ProxyLifecycle.             *)
(***************************************************************************)
EXTENDS Naturals

CONSTANTS
  Others,  \* hooks that other plugins may put on the same vtable slots
  Nothing  \* an implementation that is not installed calls nothing

Ours == "ours"
Engine == "engine"
Impls == Others \cup {Ours, Engine}
Slots == {"NotifyAnimationGraph", "Activate"}

\* What STRPM's side of the four stages may answer kOk to.
Stages == {"messaging", "channel", "resolver", "listener"}

ASSUME InstallAssumption ==
  /\ Ours \notin Others /\ Engine \notin Others
  /\ Nothing \notin Impls

VARIABLES
  messaging,          \* STRPMClient::messaging_ is set
  channelRegistered,  \* STRPMClient::channelRegistered_
  resolver,           \* STRPMClient::resolver_ is set
  listenerRegistered, \* STRPMClient::listenerRegistered_
  channels,           \* registrations of OnSyncMessage that STRPM holds
  listeners,          \* registrations of OnProxyMappingChanged that it holds
  attemptedLoad,      \* OARClient::attemptedLoad_
  interface,          \* OARClient::interface_ is set
  installed,          \* installed_ of the two probes
  slot,               \* the implementation each vtable slot points to
  calls,              \* what an implementation in a slot calls in its turn
  answered            \* history: the stages whose service answered the last load

clientVars == <<messaging, channelRegistered, resolver, listenerRegistered,
                channels, listeners>>
oarVars  == <<attemptedLoad, interface>>
hookVars == <<installed, slot, calls>>
vars == <<clientVars, oarVars, hookVars, answered>>

TypeOK ==
  /\ messaging \in BOOLEAN /\ channelRegistered \in BOOLEAN
  /\ resolver \in BOOLEAN /\ listenerRegistered \in BOOLEAN
  /\ channels \in Nat /\ listeners \in Nat
  /\ attemptedLoad \in BOOLEAN /\ interface \in BOOLEAN
  /\ installed \in [Slots -> BOOLEAN]
  /\ slot \in [Slots -> Impls]
  /\ calls \in [Slots -> [Impls -> Impls \cup {Nothing}]]
  /\ answered \in SUBSET Stages

Init ==
  /\ messaging = FALSE /\ channelRegistered = FALSE
  /\ resolver = FALSE /\ listenerRegistered = FALSE
  /\ channels = 0 /\ listeners = 0
  /\ attemptedLoad = FALSE /\ interface = FALSE
  /\ installed = [v \in Slots |-> FALSE]
  /\ slot = [v \in Slots |-> Engine]
  /\ calls = [v \in Slots |-> [i \in Impls |-> Nothing]]
  /\ answered = {}

-----------------------------------------------------------------------------

IsAvailable ==
  messaging /\ channelRegistered /\ resolver /\ listenerRegistered

\* Mutants of InstallHooks: without the installed_ test, and with the address
\* to write and the address to keep mixed up.
InstallHooksAgain ==
  /\ installed' = [v \in Slots |-> TRUE]
  /\ slot' = [v \in Slots |-> Ours]
  /\ calls' = [v \in Slots |-> [calls[v] EXCEPT ![Ours] = slot[v]]]

InstallHooksSwapped ==
  /\ installed' = [v \in Slots |-> TRUE]
  /\ slot' = [v \in Slots |-> IF installed[v] THEN slot[v] ELSE calls[v][Ours]]
  /\ UNCHANGED calls

\* AnimationClipProbe::Install and AnimationInputProbe::Install: the hook
\* chains whatever the slot holds when it is first installed.
InstallHooks ==
  /\ installed' = [v \in Slots |-> TRUE]
  /\ slot' = [v \in Slots |-> IF installed[v] THEN slot[v] ELSE Ours]
  /\ calls' = [v \in Slots |-> IF installed[v] THEN calls[v]
                               ELSE [calls[v] EXCEPT ![Ours] = slot[v]]]

\* Mutants of Initialize: every stage is repeated until all of them succeed in
\* one call; the resolver outlives the failure of its listener; the channel is
\* registered only by the call that found the messaging API.
InitializeAfresh(answers) ==
  LET m == "messaging" \in answers
      c == m /\ "channel" \in answers
      r == c /\ "resolver" \in answers
      l == r /\ "listener" \in answers
  IN /\ messaging' = m /\ channelRegistered' = c
     /\ resolver' = (r /\ l) /\ listenerRegistered' = l
     /\ channels' = IF c THEN channels + 1 ELSE channels
     /\ listeners' = IF l THEN listeners + 1 ELSE listeners

InitializeKeepingResolver(answers) ==
  LET m == messaging \/ "messaging" \in answers
      c == channelRegistered \/ (m /\ "channel" \in answers)
      r == resolver \/ (c /\ "resolver" \in answers)
      l == listenerRegistered \/ (r /\ "listener" \in answers)
  IN /\ messaging' = m /\ channelRegistered' = c
     /\ resolver' = r /\ listenerRegistered' = l
     /\ channels' = IF c /\ ~channelRegistered THEN channels + 1 ELSE channels
     /\ listeners' = IF l /\ ~listenerRegistered THEN listeners + 1 ELSE listeners

InitializeFirstOnly(answers) ==
  LET m == messaging \/ "messaging" \in answers
      c == channelRegistered \/ (~messaging /\ m /\ "channel" \in answers)
      r == resolver \/ (c /\ "resolver" \in answers)
      l == listenerRegistered \/ (r /\ "listener" \in answers)
  IN /\ messaging' = m /\ channelRegistered' = c
     /\ resolver' = (r /\ l) /\ listenerRegistered' = l
     /\ channels' = IF c /\ ~channelRegistered THEN channels + 1 ELSE channels
     /\ listeners' = IF l /\ ~listenerRegistered THEN listeners + 1 ELSE listeners

\* STRPMClient::Initialize.  It resumes at the first stage that is not up and
\* ends at the first that fails; without its listener the resolver goes too.
Initialize(answers) ==
  LET m == messaging \/ "messaging" \in answers
      c == channelRegistered \/ (m /\ "channel" \in answers)
      r == resolver \/ (c /\ "resolver" \in answers)
      l == listenerRegistered \/ (r /\ "listener" \in answers)
  IN /\ messaging' = m
     /\ channelRegistered' = c
     /\ resolver' = (r /\ l)
     /\ listenerRegistered' = l
     /\ channels' = IF c /\ ~channelRegistered THEN channels + 1 ELSE channels
     /\ listeners' = IF l /\ ~listenerRegistered THEN listeners + 1 ELSE listeners

\* OARClient::Initialize asks once.  The first InstallRuntime always calls it.
OARInitialize(oar) ==
  /\ attemptedLoad' = TRUE
  /\ interface' = (interface \/ (~attemptedLoad /\ oar))

InstallRuntime(answers, oar) ==
  /\ InstallHooks
  /\ OARInitialize(oar)
  /\ answered' = answers
  /\ IF IsAvailable THEN UNCHANGED clientVars ELSE Initialize(answers)

\* Another plugin hooks a slot, before or after this one (external).
OtherHooks(v, o) ==
  /\ calls[v][o] = Nothing
  /\ slot' = [slot EXCEPT ![v] = o]
  /\ calls' = [calls EXCEPT ![v][o] = slot[v]]
  /\ UNCHANGED <<clientVars, oarVars, installed, answered>>

Next ==
  \/ \E answers \in SUBSET Stages, oar \in BOOLEAN : InstallRuntime(answers, oar)
  \/ \E v \in Slots, o \in Others : OtherHooks(v, o)

Spec == Init /\ [][Next]_vars

-----------------------------------------------------------------------------
(* Properties. *)

\* A set of implementations that a call through slot v cannot leave.
Closed(v, s) ==
  /\ slot[v] \in s
  /\ \A i \in s \ {Engine} : calls[v][i] \in s

\* However often games are loaded and whoever hooks before or after, a call
\* goes through this plugin's hook once it is installed and reaches the
\* engine: no hook ends up calling itself (AnimationInputProbe.cpp:22-28,
\* AnimationClipProbe.cpp:9-17, main.cpp:37-39).
HooksReachEngine ==
  \A v \in Slots : \A s \in SUBSET Impls :
    Closed(v, s) => Engine \in s /\ (installed[v] => Ours \in s)

\* Stages that failed are tried again on the next load, stages that succeeded
\* are not: STRPM never holds a callback twice, which would apply each packet
\* or mapping twice (STRPMClient.cpp:76-122).
RegisteredOnce ==
  /\ channels = IF channelRegistered THEN 1 ELSE 0
  /\ listeners = IF listenerRegistered THEN 1 ELSE 0

\* Nothing is replayed on proxies whose mappings the client does not hear of:
\* a resolver without its listener is given up again, for without the mapping
\* the probe would miss the stop of the clip it starts (STRPMClient.cpp:109-118).
ResolverIsHeard == resolver => listenerRegistered /\ listeners > 0

\* A load at which every service answers completes the client, whatever failed
\* before and in whatever order (main.cpp:43-45).
CompletesWhenPossible == answered = Stages => IsAvailable
=============================================================================
