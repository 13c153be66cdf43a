# AnimSync Together: specification, model checking and proofs

This directory holds TLA+ modules that model the plugin in `src/`, the TLC
configurations that check them on small instances, and theorems that TLAPS
proves for every value of the constants. Paths below are relative to the
repository's `src/` directory, which holds the C++ sources in a `src/` of its own.

## 1. The system

AnimSync Together is a SKSE plugin. Each client runs one copy, which plays two
roles that share no state:

- as **sender** it hooks `NotifyAnimationGraph` of the local player, sends the
  graph variables that its rule profiles name and that have changed, and then,
  when the game accepted a profiled input, the input itself;
- as **receiver** it applies the variables and replays the inputs on the STR
  proxy that stands for the sender, observes the graphs of the proxies, and
  cleans up after Helmet Toggle clips.

Transport, session and the map from players to proxies belong to STRPM, another
plugin; animation graphs and actors belong to the game; the choice of clips
belongs to Open Animation Replacer (OAR). All three are external here.

### Components

| Component | State | Operations | Hard because |
|---|---|---|---|
| `GraphVariableSync` | `lastValues_` | `Reset`, `CaptureAndSend`, `HasChanged`, `Remember` | one cache for all players; failing sends; float tolerance |
| `AnimationInputProbe` | the activation of the hook | `PlayerNotifyAnimationGraph` | state is captured before, and the event sent after, a handler that may change it, or notify further inputs |
| `STRPMClient`, messages | registration flags | `Send...`, `OnSyncMessage`, `Queue...Message`, `Apply...Message` | callback on STRPM's thread, tasks on the game thread; the proxy may be unresolved, absent or graphless when the task runs |
| `STRPMClient`, mappings | `connectionToFormID_`, `formIDToConnection_` | `OnProxyMappingChanged`, `QueueMappingEvent`, `ApplyMappingEvent` | connections and form ids are reused; the mirror lags behind STRPM |
| `AnimationProbe` | `attachedActors_`, `stoppedGPMAActors_`, the sinks | `Install`, `Attach...`, `Detach...`, `ProcessEvent`, `CleanupHelmetMarker` | graph events, mapping tasks and clean-up tasks interleave; graphs vanish under the bookkeeping |
| `SyncRules` | `initialized_`, `profileCount_`, `events_`, `variableTypes_`, `variables_` | `Initialize`, rule parsing, OAR variable discovery, two queries | profiles contradict one another and differ between clients; files change or fail while they are read; `Initialize` is called on every load |
| `OARClient` | `interface_`, `attemptedLoad_` | `Initialize`, `ClearConditionStateData` | OAR caches conditions, so it must be told after each write |
| `AnimationClipProbe` | `armedActors_` | `ArmActor`, `HkbClipGeneratorActivate` | inputs arm an actor while earlier ones still run; entries expire lazily; clips are activated within the notification or later |
| `main.cpp` | none | `InstallRuntime` on three SKSE messages | runs on every load; each stage must be idempotent |
| STRPM API loaders | none | `LoadFromModule`, ... | may fail, and are retried |

### How they interact

```text
 sender                                       receiver
 game ──NotifyAnimationGraph──▶ hook          STRPM thread: OnSyncMessage
   CaptureAndSend ─ variables ─┐                │ copies the packet into a task
   embedded GPMA state         │  STRPM         ▼
   original handler            ├─ reliable ──▶ SKSE task queue (game thread)
   SendAnimationEvent ─ event ─┘  ordered       │ Apply...Message: resolve, set, clear OAR, replay
                                                ▼
 STRPM resolver ── OnProxyMappingChanged ──▶ SKSE task queue ── ApplyMappingEvent ─▶ AnimationProbe
 proxy's graph ── ProcessEvent ──▶ AnimationProbe ── QueueHelmetMarkerCleanup ──▶ SKSE task queue
```

### What makes each correct

- The delta filter may skip a value only if the proxy holds it or will hold it
  once its queues have drained (`CacheReachesProxy`).
- An event is replayed under the state its sender had at hook entry
  (`ReplaySeesCapturedState`; for the Helmet Toggle state, `GPMAStateAtReplay`
  under every loss).
- Where OAR can be reached, it looks at a proxy again after each write that the network
  brings, or a value that the delta filter skips later would never count
  (`OARReachesSentState`).
- What was remembered as sent arrives (`SentValuesArrive`), and a sent input does not
  wait for ever (`WaitingInputsReplay`).
- Seen as a whole, the message path replays each input once, in order, under the
  captured state, while the proxies stay up (`ReplaysReliably`), and at worst loses
  inputs when they do not (`ReplaysAtMostOnce`).
- The rule tables follow the files in path order (`RulesFollowFiles`), the sender's
  vector and the receiver's map agree (`TablesAgree`), and rules in use never change
  (`RulesStayPut`); the log of discovered variables is right about which of them are
  profiled (`CandidatesToldApart`).
- A `ClipSelection` line names the input that armed the actor last and recently enough
  (`SelectionsAreExplained`, `ArmedBeforeInput`).
- The mirror of STRPM's map agrees with it once its events are applied
  (`MirrorsResolver`), and remote sinks, stopped states and clean-ups follow
  it (`AttachedAreMapped`, `NoSinkLeaks`, `StoppedAreAttached`,
  `StaleCopiesAreDoomed`, `CleanupSparesActive`, `StaleMarkerGoes`).

`PROJECT.json` lists, under `hazards`, what is hard to test in this code, line by
line, and which property covers it.

## 2. The modules

| Module | What it models |
|---|---|
| `GraphVariableSync` | the test "is this value worth sending" as constant operators: `HasChanged`, the float tolerance, unreadable values |
| `AnimSync` | one sender and its receiving `Peers`, end to end: hook, capture, packets, STRPM channel, task queue, application, what OAR has seen, and the churn of sessions and proxies |
| `InputReplay` | abstract: what the plugin promises about forwarded inputs, with no packets, queues, caches or threads, in a reliable and a lossy form |
| `AnimSyncReplay` | the refinement mapping from `AnimSync` to `InputReplay` |
| `ProxyLifecycle` | one receiver's bookkeeping: STRPM's map, its mirror, sinks, stopped state, marker clean-up |
| `SyncRules` | how rule files become the tables that `AnimSync` takes as constants |
| `ClipProbe` | the clip diagnostics: arming, expiry, and what an activated clip is logged under |
| `RuntimeInstall` | how a client comes up: repeated `InstallRuntime`, the four failing stages of `STRPMClient::Initialize`, OAR's single attempt, the two vtable hooks among those of other plugins |
| `MCAnimSync`, `MCProxyLifecycle`, `MCSyncRules`, `MCClipProbe` | the constants of the small instances |
| `AnimSync_proofs` | theorems about `AnimSync` under all churn |
| `AnimSyncStable_proofs` | theorems about `AnimSync` in a session whose proxies stay up |
| `AnimSyncReplay_proofs` | `AnimSync` implements `InputReplay`, in both forms, with the lemmas on the inputs among a queue's packets |
| `ProxyLifecycle_proofs` | theorems about `ProxyLifecycle` |
| `RuntimeInstall_proofs` | theorems about `RuntimeInstall` |
| `SyncRules_proofs` | theorems about `SyncRules` |
| `ClipProbe_proofs` | theorems about `ClipProbe` |

### AnimSync, state and actions

| Variable | Code |
|---|---|
| `graph` | the local player's graph variables; `Absent` when `GetGraphVariable*` fails |
| `lastValues` | `GraphVariableSync::lastValues_`; `Unset` for no entry |
| `hook` | the locals of `PlayerNotifyAnimationGraph` and the loop index of `CaptureAndSend` |
| `outer` | the activations below it on the stack, each waiting in its original handler for an input that the handler has notified |
| `inbox[p]`, `tasks[p]` | packets on STRPM's channel and packets captured in queued tasks |
| `connected`, `resolved`, `body` | whether STRPM's send reaches p, whether p's resolver knows the sender's proxy, whether the proxy is there and has a graph |
| `proxy[p]` | the graph variables of the proxy on p |
| `oarSeen[p]` | the proxy as OAR last saw it: its graph variables when `ClearConditionStateData` last had an effect |
| `stopDue[p]` | a GPMA clip on the proxy that will output its own `OffsetGPMAStop` |
| `replay` | history: the `NotifyAnimationGraph` call the last step made, and under what variables |

`Capture`, inside an event packet, is history too: what the local graph held at
hook entry, and which variables the transport refused or a nested input has sent again
since. No action reads either, so they only let properties compare the two ends.

`NameOnWire` and `TagOnWire` are `CopyField`: the name that arrives for each name that
is sent. They are the identity for names that fit in the packet. Only `sync_live`
cuts one.

`WithOAR` are the peers whose `OARClient` has obtained `interface_`. On the others
`ClearConditionStateData` returns early, and `oarSeen` stays what it was; only `sync_live`
has such a peer among the passing runs.

| Action | Code |
|---|---|
| `EnterHook` | entry of the hook, from the game or from within an original handler |
| `CaptureRule` = `SkipRule`, `SendRule` or `LoseRule` | one iteration of `CaptureAndSend`: unreadable, NaN or unchanged; sent and remembered; refused and not remembered |
| `CallOriginal` | embedded state read (`OffsetGPMA`, `OffsetGPMAStop`), original handler entered |
| `ReturnAndSend`, `ReturnSilently` | accepted, profiled and sent; otherwise. Both resume the outer activation, if there is one (`LeaveHook`) |
| `Reset` | `GraphVariableSync::Reset`, which `InstallRuntime` calls on a load |
| `OnSyncMessage` | checks of size and version, `Queue...Message` |
| `ApplyGraphVariableMessage`, `ApplyAnimationMessage` | the two tasks with all their early returns |
| `ProxyStopOutput` | `ProcessEvent` on the proxy's own stop: reset of the animation type |
| `Join`, `Leave`, `ResolverChanges`, `BodyChanges`, `SetLocalVariable` | external |

The three specifications share the actions. `Spec` has everything. `StableSpec`
leaves out the churn: every proxy is up from the start and stays, while sends
may still fail. `FairStableSpec` adds fairness. `JoinSpec` (in `MCAnimSync`) adds
joins to the stable session.

### InputReplay and AnimSyncReplay

`InputReplay` has two variables: per follower the inputs that wait for it, and the
replay made by this step. An input is issued to followers, a follower replays the
oldest one that waits, on a view of which `Shows` holds; in the lossy form followers may
be missed, and waiting inputs dropped. The mapping is one operator: what waits for a
peer (`Awaiting`) is the profiled events among `tasks[p] \o inbox[p]`, picked out by the
recursive function in `InputsAmong`; `replay` is mapped to itself. What a proxy may show
(`ProxyGraphs`) is a default of 0 or what some variable of the sender brings under that name,
its own or a longer one that was cut down to it. `Shows` is `ShowsCapture` for the reliable form (the transported
variables are as captured, up to the float tolerance and the exceptions in `lost`) and
`ShowsGPMAState` for the lossy one (only the embedded state of an `OffsetGPMA` counts).
Everything else `AnimSync` does is a stutter. Following the code step by step shows
what the promise rests on: with two inputs nested, the inner one is issued and replayed
first, and "in order" means the order of the sends.

### SyncRules, state and actions

`initialized`, `profileCount`, `events`, `variableTypes` and `variables` are the members
of the same names. `disk`, the rules directory, is external and may change at any
moment (`FilesChange`). `stage`, `unlisted`, `files` and `lines` are where `Initialize`
is: `Initialize` itself, the directory iterator (`ListEntry`, `FinishListing`, which is
an error as well as the end), the sorted loop over files (`OpenFile`, which may fail), and
one line after another (`ReadLine`). A rule file is a number, and the order of the paths
that of the numbers. `AddBuiltInHelmetFallback` stands in if no file was read;
`DiscoverOARGraphVariables` fills `candidates`, the log lines, and `Initialize` returns.
`read` and `inUse` are history, for properties only. A line is what is left of it once it
is trimmed and its directive is in lower case.

### ClipProbe, state and actions

`armedActors` is the map of that name, `now` the clock, `running[a]` the inputs that are
being notified to actor a, innermost first. `NotifyPlayer` and `ReplayOnProxy` are the two
callers of `ArmActor`, up to the call of the graph; `Return` is the end of that call.
`HkbClipGeneratorActivate(a)` may happen at any moment, during such a call or outside
it. `arming` and `last` are history: the latest arming of each actor, and what the
latest activation found.

### ProxyLifecycle, state and actions

`mapping` is STRPM's own map; `tasks` is the SKSE queue with mapping events and
clean-ups; `connToForm`, `formToConn`, `attached` and `stoppedActors` are the four
containers of the code; `sinks` says which graphs really notify the probe; `body`,
`clip` and `marker` are the actors, their GPMA clips and the number of their marker nodes, of
which one clean-up removes at most `RemovalCap`.

`ResolverAdds/Updates/Removes/Clears` change STRPM's map and queue the event (STRPM
and `QueueMappingEvent` together). `MappingSet`, `MappingRemoved` and
`MappingsCleared` are the cases of `ApplyMappingEvent`, with `DetachAttach` for the
calls into `AnimationProbe`. `GPMAStarts`, `GPMAStops` and `MarkerDrawn` are
`ProcessEvent` on the output events it acts on. `CleanupHelmetMarker` is the queued
clean-up. `Install` attaches the player. `BodyChanges` is the game.

### RuntimeInstall, state and actions

`messaging`, `channelRegistered`, `resolver`, `listenerRegistered`, `attemptedLoad`,
`interface` and `installed` are the members of the same names; `channels` and `listeners`
count what STRPM holds for this client; `slot` and `calls` are the two vtable slots and
what each implementation kept as its original. `InstallRuntime(answers, oar)` is the whole
function, with the stages that succeed and OAR's answer as inputs; its resets of the cache
and of the player's sink are actions of the other two modules. `OtherHooks` is any other
plugin. `answered` is history: it keeps the services that answered the last load, so that
`CompletesWhenPossible` can speak of it.

The modules share no variable. `SyncRules` yields the constants `Rules`, `PeerTypes`,
`SyncedEvents` and `PeerEvents` of `AnimSync`, and proves what `SyncAssumption` says of
them: `RulesAreFixed` (they are constants) and `SendersAndReceiversAgree` (names are
unique). `RuntimeInstall` tells when the other two apply: `AnimSync`
and `ProxyLifecycle` describe a client whose channel and listener are registered, and before
that `SendMayFail` covers the refused sends of an installed hook.

### Assumptions of the models

- STRPM delivers to each connected peer in order and once (`kMessageReliable |
  kMessageOrdered`); a peer that leaves loses what was under way. Sends may be
  refused (`SendMayFail`). SKSE runs its tasks in the order they were queued.
- The capture of an activation is one synchronous stretch of the game thread: nothing
  writes the player's graph between its entry and the call of the original handler.
  The original handler may write any variable and notify further inputs, `MaxNesting`
  deep.
- Each handler that runs on one thread without giving way is one step. This
  includes `ProcessEvent`: the code has no lock there, and the model does not
  interleave a mapping task inside it.
- STRPM's map is injective: a proxy stands for one player at a time. The listener
  is registered before the first mapping exists.
- A GPMA event is heard and the marker node appears in the same step. Each load or draw
  of the marker may add a node.
- Bools, ints and floats are integers. A float is in units of `kFloatEpsilon`, so
  `Epsilon = 1` makes 0 and 1 close and 0 and 2 different; NaN is a value apart.
- OAR goes on using what it saw of a proxy until `ClearConditionStateData` makes it look
  again. Whether `interface_` was obtained is decided before the first packet arrives:
  `AnimationClipProbe::Install` makes the single attempt, and `InstallRuntime` calls it
  before `STRPMClient::Initialize` registers the channel (`src/main.cpp:40-45`).
- A packet carries either a variable or an event, with names as model values. A cut
  name may be any name; a cut tag is never `OffsetGPMA`, which is short. The case of
  names is not modelled.
- A rule file that was opened is read as it was then; the directory iterator returns each
  entry once.
- An actor's clips are activated on the thread that notifies its graph; a replay on a
  proxy does not nest.

### Bounds

`MaxInFlight` (packets waiting for one peer) blocks the entry of the hook, never a
step inside it; `MaxTasks` blocks STRPM's changes, stops and draws when the SKSE
queue is full. `MaxNesting` blocks the entry of a hook that is nested too deep,
`MaxCopies` a draw of one more marker, and `MaxTime` the clock of `ClipProbe`. Nothing
else is cut.

- Three or four packets hold a full capture with its event behind another event; three
  tasks hold a removal, an addition of the same form by another connection, and a
  clean-up.
- One level of nesting has an inner and an outer activation, which is all that the steps
  distinguish. `sync_churn` has no nesting, to stay small; `GPMAStateFaithful` covers every
  depth.
- Five copies are one more than a clean-up removes, so `proxy_marker` reaches the stop that
  leaves one copy behind, and late draws beside it. `proxy_maps` has no GPMA clips, hence
  no copies.
- A clock of three ticks and a window of one let an arming be made, expire, and be
  followed by another.
- Three rule files with three contents show two declarations of one variable in the same
  file, in different files and in either order, and a file that does not open between two
  that do.

The proofs have no bound: all of these are arbitrary naturals there.

## 3. The runs

| Run | Instance | Shows |
|---|---|---|
| `sync_stable` | 1 peer, a float over {0, 1, 2, NaN} and a bool, a profiled input that may nest once, failing sends, 4 packets | the delta filter is sound, for the proxy and for what OAR has seen of it, and replays see the captured state |
| `sync_churn` | Helmet Toggle, 1 peer that joins, leaves, is unresolved, loses proxy or graph, 3 packets | embedded state makes GPMA replays right whatever was lost; `AnimSync` with every churn implements the lossy `InputReplay`; types |
| `sync_live` | 1 peer, two profiled inputs that nest once, a float over {0, 2}, a bool whose name is cut on the wire, failing sends, a client without OAR, 4 packets, under fairness | `AnimSync` with stable proxies implements the reliable `InputReplay`; what is remembered as sent arrives, and inputs that wait are replayed |
| `sync_refused` | as `sync_stable` with an unprofiled input besides, without nesting, 3 packets | counterexample: a refused variable is missing at the replay |
| `sync_join` | 2 peers, one may join late, no failing sends | counterexample: a late joiner lacks what was sent before |
| `sync_redundant` | Helmet Toggle, stable, no failing sends | counterexample: without the embedded state the replay would be wrong |
| `proxy_maps` | 2 connections, 2 form ids, 3 tasks | map, mirror and sinks agree through every reuse |
| `proxy_marker` | 1 connection, 1 form id with GPMA clips, up to 5 copies of the marker, 3 tasks, under fairness | on a proxy that is heard, no step forgets a copy but the stop, and that only beyond the cap; clean-ups spare new sequences; stale markers that clean-ups are queued for go away; types |
| `runtime_install` | 2 other plugins on 2 vtable slots; every subset of stages may answer on every load | hook chains end in the engine, callbacks are registered once, start-up resumes where it failed; types |
| `rules_load` | 3 rule files and another file, 3 profiles that repeat and contradict one another, every change of the directory | the tables follow the files, agree and stay; candidates are told apart; types |
| `clip_probe` | the player and one proxy, two profiled inputs and one that is not, window 1, 3 ticks, one level of nesting | `ClipSelection` lines are explained by the latest arming; the player and the proxy are armed before the input; types |
| `proxy_observe` | 1 connection, 1 form id | counterexample: attachment is not retried |

One peer is enough for the passing `AnimSync` runs, because receivers share nothing
and a send reaches all connected ones alike; what depends on several of them (the
common cache) is what `sync_join` shows with two. Deadlock checking is off in all
runs: a session in which nobody acts is a legal state of this program.

### The four counterexamples

Each contradicts what the repository says of itself; `PROJECT.json` quotes the line.

1. `sync_refused`: `CaptureAndSend` goes on after a refused send and the event follows.
2. `sync_join`: `lastValues_` is not kept per player, and nothing resends it to a
   player who joins.
3. `sync_redundant`: the receiver resets `iGPMAAnimationType` on every stop, which the
   sender's cache does not know; the next `OffsetGPMA` of the same type sends no
   variable. Removing the "redundant" embedded state would break Helmet Toggle.
4. `proxy_observe`: `AttachActor` fails on a proxy without a graph manager, nobody
   tries again, and the proxy's stop is never heard.

### What the passing properties except

Five limits of the code are written into the properties, and have no run of their own.

- A variable that an input sends again from within another's original handler is in `lost`
  of the outer one: its event is sent later, so it is replayed after the inner one and under
  the newer value. The comment at `src/AnimationInputProbe.cpp:41` does not think of this.
- `TransportedVars` has only variables whose name fits in a packet and that no other rule is
  cut down to. A longer name, though profiled on both sides, is never synchronized, and the
  sender remembers it as sent (`src/STRPMClient.cpp:50`).
- A variable whose send the transport refused is in `lost` of the event that follows it
  (`src/AnimationInputProbe.cpp:85`): only `ReplaySeesLocalState`, which `sync_refused`
  refutes, holds the code to it.
- The properties of marker clean-ups speak of proxies in `sinks`. A graph that is rebuilt
  takes its sink along while `attachedActors_` keeps the form id
  (`src/AnimationProbe.cpp:28`), so the probe hears neither draws nor a new sequence there.
  And where more than `RemovalCap` copies were drawn before the stop, the rest stays
  (`src/AnimationProbe.cpp:173`): `StaleCopiesAreDoomed` allows the stop to leave `Fewer`
  of them, and `StaleMarkerGoes` is about copies that clean-ups are queued for. It also
  needs `MaxTasks`: a game that draws a copy for every clean-up that runs would keep the
  marker for ever.
- `Arms` has, on a proxy, only `OffsetGPMA` (`src/STRPMClient.cpp:407, 428`). Clips of
  another mod's replayed events are not logged on the proxy, so there is nothing to hold
  against the player's `ClipSelection` lines.

### Fairness

`FairStableSpec` has weak fairness on each step of a hook activation that was entered
(the calls return), on STRPM's delivery to each peer and on the two tasks. Nothing obliges
the game to issue an input, to change a variable or to let a proxy's clip end.
`FairSpec` of `ProxyLifecycle` has weak fairness on the game thread's task pump, and on
nothing else.

## 4. The theorems

All proofs are checked by `tlapm` with no assumption but `DeltaAssumption`,
`SyncAssumption`, `LifecycleAssumption`, `InstallAssumption`, `RulesAssumption` and
`ProbeAssumption`: what the constants are, that rule names
are unique (`SyncRules::AddVariable`), and that the sentinels differ from values (among them
`NoReplayAssumption`: a call that was made is not taken for none).

| Theorem | Statement | Argument |
|---|---|---|
| `AnimSync_proofs!TypeCorrect` | `Spec => []TypeOK` | inductive as it stands |
| `AnimSync_proofs!GPMAStateFaithful` | `Spec => []GPMAStateAtReplay` | `EmbeddedInv`: every packet in either queue is good, that is, an `OffsetGPMA` carries what its capture saw, and so does the hook once the original handler is called; needed because the property speaks only of the last step |
| `AnimSyncStable_proofs!DeltaFilterSound` | `StableSpec => []CacheReachesProxy` | `StableInv`, below |
| `AnimSyncStable_proofs!DeltaFilterSoundForOAR` | `StableSpec => []OARReachesSentState` | `OARAgrees`: with its interface, OAR has seen of each proxy every variable but the animation type, which alone is reset without telling it; the rest is `DeltaFilterSound` |
| `AnimSyncStable_proofs!ReplayFaithful` | `StableSpec => []ReplaySeesCapturedState` | `StableInv` |
| `AnimSyncReplay_proofs!ImplementsLossy` | `Spec => ReplaysAtMostOnce` | `SourceInv`, below: each step of `Next` is a step of the lossy `InputReplay`, or changes neither of its variables |
| `AnimSyncReplay_proofs!ImplementsReliable` | `StableSpec => ReplaysReliably` | the same steps, with `StableInv` for what a replay must show and for no event being missed |
| `ProxyLifecycle_proofs!TypeCorrect` | `Spec => []TypeOK` | inductive |
| `RemoteSinksMapped`, `SinksTracked`, `StoppedStateScoped`, `CleanupSafe` | `AttachedAreMapped`, `NoSinkLeaks`, `StoppedAreAttached`, `CleanupSparesActive` | `SinkInv`: the first three together, and that a heard stopped proxy is not playing; each is needed by another (a new sink has no stopped state because the stopped are attached; a sink is heard because the attached are mapped) |
| `NoCopyForgotten` | `Spec => StaleCopiesAreDoomed` | `SinkInv`, and counting: the lemmas on `Waiting` say that a clean-up of the proxy that is queued adds one to its clean-ups, and that one that is run takes one away (`WaitingTail`, by a bijection of the tasks behind it); a late draw adds a copy and a clean-up at once, because a sink is heard |
| `ProxyLifecycle_proofs!MirrorAgrees` | `Spec => []MirrorsResolver` | `MirrorInv`, below |
| `SyncRules_proofs!TypeCorrect`, `SendersAndReceiversAgree`, `DiscoveryTellsApart` | `TypeOK`, `TablesAgree`, `CandidatesToldApart` | `TableInv`: the three together, and that nothing is in use or noted before the reading is over and `initialized` set |
| `SyncRules_proofs!TablesFollowFiles` | `Spec => []RulesFollowFiles` | `FilesInv`, below |
| `SyncRules_proofs!RulesAreFixed` | `Spec => RulesStayPut` | `TableInv`: rules are in use only in the last stage, which no step leaves once `initialized` is set |
| `ClipProbe_proofs!TypeCorrect`, `SelectionsExplained`, `InputArmedFirst` | `TypeOK`, `SelectionsAreExplained`, `ArmedBeforeInput` | `ProbeInv`, below |
| `RuntimeInstall_proofs!TypeCorrect`, `NoDoubleRegistration`, `ResolverAlwaysHeard` | `TypeOK`, `RegisteredOnce`, `ResolverIsHeard` | inductive together |
| `RuntimeInstall_proofs!ChainsEnd` | `Spec => []HooksReachEngine` | `ChainInv`: an implementation that chains nothing yet is called by nobody, so that removing it from a set closed under the new calls leaves a set closed under the old ones |
| `RuntimeInstall_proofs!LoadCompletes` | `Spec => []CompletesWhenPossible` | inductive as it stands, by cases on `IsAvailable`: whatever a failed load left does not matter |

`StableInv` relates the cache to the two queues of each peer: for every transported
variable the last packet about it, or the proxy if there is none, holds the cached
value; and for every event in a queue, the packets before it carry, up to the
tolerance, what its capture saw. Both are statements about all prefixes of
`tasks \o inbox`, so the proof's work is in the lemmas on appending to, taking from and
moving between the two queues.

`StableInv` excepts, for each waiting event, the variables in its `lost`; a send by a
nested input adds its variable there for every outer activation, so the invariant also
speaks of the activations in `outer`, whose events are still to be sent.

`MirrorInv` is about the queue of mapping events. An event touches a form id if applying
it may change its entry. For each form id: if no queued event touches it, its entry is
right; otherwise the last event that touches it says who owns it now. The property
itself is not inductive, because it says nothing while events are queued, and it needs
that STRPM's map is injective (`OneOwner`).

The refinement proofs follow `InputsAmong` through the queues. Its lemmas say what it
does when a packet joins the queue, when the one at the head is taken (`InputsTail`) and when the
end is cut off with the channel of a peer that leaves (`InputsPrefix`): an event that the peer
follows adds, removes or loses one input, any other packet none. They are inductions over the
length of the queue, which the proofs carry out by the least element of a set of numbers
(`SetInduction`, from the library's `WFMin`). With them each action maps to one of
`InputReplay`: `ReturnAndSend` to `IssueTo` the connected peers that follow the tag, a replayed
event to `Replay`, an event whose proxy is away and a peer that leaves to `Drop`, and
everything else to `Rest`. `SourceInv` types the mapping: the player's graph, the hook, every
activation below it and every packet hold what the graph may hold, proxies show only what can
arrive, and only peers that accept packets have tasks. That a replay shows the GPMA state of its
capture is `GPMAStateFaithful`'s invariant, that it shows the captured variables is
`StableInv`'s. The attempt to prove this for every profile corrected the model in one place:
`ProxyGraphs` used to leave out that a name cut down to another brings values of a different
variable, which no run's constants could show.

`FilesInv` says of every moment of the reading what `RulesFollowFiles` says of its end, about
the lines consumed so far: those of all files read, less those still to be read of the
latest. The tables are those that the consumed lines declare, the files are read in increasing
order (`ReadInOrder`), and what is left to read is the end of the latest one
(`RestOfLatest`); so the next line comes after every consumed one, and can add a type
but never be an earlier declaration.

`ProbeInv` says of each entry of `armedActors` that it is the latest arming of its actor,
and of each missing entry that the latest arming, if any, has expired; and of each
profiled input of the player that is running and has not been interrupted by another,
that the latest arming of the player is its own.

### Only model-checked

- Liveness (`SentValuesArrive`, `WaitingInputsReplay`, `StaleMarkerGoes`) and anything about fairness or
  ENABLED are out of the prover's reach.
- The counterexamples are runs by their nature.

All safety properties and both refinements that the runs check are theorems; the runs show them on
instances in which the hard cases happen, and that mutants of the code break them.

## 5. Not modelled, and why

- Concurrent access to the maps of `STRPMClient`, `AnimationProbe` and `AnimationClipProbe`:
  the code has no lock there, and the thread on which the game outputs graph events and
  activates clips is not in this repository. A handler is one step, so a data race inside
  one is not shown.
- A form id that changes hands between two packets of one sender: `AnimSync` has one sender,
  resolved or not; `ProxyLifecycle` has the owners but no packets. Composing them would
  add an actor that the game does or does not rebuild for its new owner, which
  nothing here decides.
- Mappings that exist before the listener is registered: whether STRPM reports them to a
  new listener is not in this repository.
- The case of names (`BSFixedString` compares without it and keeps the spelling that was
  interned first), the text of rule files and of OAR configs below the level of lines and
  names, logging, and `ResultToString`.
- What OAR answers about a clip: it is only logged.
- Build and packaging have no behaviour at run time.
