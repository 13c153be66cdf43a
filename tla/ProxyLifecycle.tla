--------------------------- MODULE ProxyLifecycle ---------------------------
(***************************************************************************)
(* What a client keeps about the proxies of the others: the mirror of       *)
(* STRPM's ConnectionID -> FormID map (STRPMClient::ApplyMappingEvent), the *)
(* animation sink on each proxy (AnimationProbe::AttachActor, Detach...),   *)
(* and the clean-up of the Helmet Toggle marker that a proxy leaves behind  *)
(* when its GPMA clip stops (ProcessEvent, CleanupHelmetMarker).            *)
(*                                                                         *)
(* STRPM reports a change on a thread of its own, graph events arrive while *)
(* the game updates animations, and both only queue tasks that the game     *)
(* thread runs later, in order.                                             *)
(***************************************************************************)
EXTENDS Naturals, Sequences, FiniteSets

CONSTANTS
  Conns,      \* STRPM connection ids of the other clients
  Forms,      \* form ids of STR proxies; a form id may be used again
  Player,     \* the form id of the local player
  NoConn,     \* no entry in formIDToConnection_
  NoForm,     \* STRPM::kInvalidProxyFormID
  GPMAForms,  \* proxies on which GPMA clips may play
  MaxTasks,   \* bound: SKSE tasks waiting
  MaxCopies   \* bound: copies of the marker on one proxy

ASSUME LifecycleAssumption ==
  /\ Player \notin Forms /\ NoForm \notin Forms \cup {Player}
  /\ NoConn \notin Conns
  /\ GPMAForms \subseteq Forms
  /\ MaxTasks \in Nat /\ MaxCopies \in Nat

\* The copies that one CleanupHelmetMarker detaches at most.
RemovalCap == 4

VARIABLES
  mapping,       \* STRPM's map from connections to proxies (external)
  body,          \* each actor: absent, without a graph, or ready (external)
  clip,          \* a proxy's GPMA clip: none, playing or stopped (external)
  marker,        \* AnimObjectHelmetInvisible nodes on each proxy (external)
  sinks,         \* actors whose graph notifies this AnimationProbe
  tasks,         \* SKSE tasks: mapping events and marker clean-ups
  connToForm,    \* STRPMClient::connectionToFormID_
  formToConn,    \* STRPMClient::formIDToConnection_
  attached,      \* AnimationProbe::attachedActors_
  stoppedActors  \* AnimationProbe::stoppedGPMAActors_

world == <<body, clip, marker>>
maps  == <<connToForm, formToConn>>
probe == <<attached, stoppedActors, sinks>>
vars  == <<mapping, world, tasks, maps, probe>>

Actors == Forms \cup {Player}
Copies == 0..MaxCopies

MappingEvent ==
  [kind : {"added", "updated", "removed"}, conn : Conns,
   old : Forms \cup {NoForm}, new : Forms \cup {NoForm}]
Cleared == [kind |-> "cleared"]
Cleanup == [kind : {"cleanup"}, form : Forms]
Task == MappingEvent \cup {Cleared} \cup Cleanup

TypeOK ==
  /\ mapping \in [Conns -> Forms \cup {NoForm}]
  /\ body \in [Actors -> {"absent", "graphless", "ready"}]
  /\ clip \in [Forms -> {"none", "playing", "stopped"}]
  /\ marker \in [Forms -> Copies]
  /\ sinks \subseteq Actors
  /\ tasks \in Seq(Task)
  /\ connToForm \in [Conns -> Forms \cup {NoForm}]
  /\ formToConn \in [Forms -> Conns \cup {NoConn}]
  /\ attached \subseteq Actors
  /\ stoppedActors \subseteq Forms

\* The plugin listens before the client joins a session.
Init ==
  /\ mapping = [c \in Conns |-> NoForm]
  /\ body \in [Actors -> {"absent", "graphless", "ready"}]
  /\ clip = [f \in Forms |-> "none"]
  /\ marker = [f \in Forms |-> 0] /\ sinks = {}
  /\ tasks = << >>
  /\ connToForm = [c \in Conns |-> NoForm]
  /\ formToConn = [f \in Forms |-> NoConn]
  /\ attached = {} /\ stoppedActors = {}

-----------------------------------------------------------------------------
(* STRPM's resolver (external).  A proxy stands for one player at a time.   *)

\* OnProxyMappingChanged copies the event into a task.
QueueMappingEvent(event) ==
  /\ Len(tasks) < MaxTasks
  /\ tasks' = Append(tasks, event)
  /\ UNCHANGED <<world, maps, probe>>

Change(kind, c, old, new) ==
  [kind |-> kind, conn |-> c, old |-> old, new |-> new]

Unmapped == {f \in Forms : \A c \in Conns : mapping[c] # f}

ResolverAdds(c) ==
  /\ mapping[c] = NoForm
  /\ \E f \in Unmapped : /\ mapping' = [mapping EXCEPT ![c] = f]
                         /\ QueueMappingEvent(Change("added", c, NoForm, f))

\* Another proxy, the same one again, or none for now.
ResolverUpdates(c) ==
  /\ mapping[c] # NoForm
  /\ \E f \in Unmapped \cup {mapping[c], NoForm} :
       /\ mapping' = [mapping EXCEPT ![c] = f]
       /\ QueueMappingEvent(Change("updated", c, mapping[c], f))

ResolverRemoves(c) ==
  /\ mapping' = [mapping EXCEPT ![c] = NoForm]
  /\ QueueMappingEvent(Change("removed", c, mapping[c], NoForm))

ResolverClears ==
  /\ mapping' = [c \in Conns |-> NoForm]
  /\ QueueMappingEvent(Cleared)

-----------------------------------------------------------------------------
(* The tasks that apply mapping events.                                     *)

Known(f) == f \in Forms /\ formToConn[f] # NoConn

\* Mutant: DetachActorByFormID forgets to remove the sink from the graphs.
DetachAttachLeaky(gone, come) ==
  LET joins == {f \in come \ (attached \ gone) : body[f] = "ready"}
  IN /\ attached' = (attached \ gone) \cup joins
     /\ sinks' = sinks \cup joins
     /\ stoppedActors' = stoppedActors \ gone

\* Mutant: DetachActorByFormID keeps the stopped state.
DetachAttachKeepingStops(gone, come) ==
  LET joins == {f \in come \ (attached \ gone) : body[f] = "ready"}
  IN /\ attached' = (attached \ gone) \cup joins
     /\ sinks' = (sinks \ (gone \cap attached)) \cup joins
     /\ UNCHANGED stoppedActors

\* DetachActorByFormID for each of "gone", then AttachActorByFormID for each
\* of "come" (at most one).  An actor already in attachedActors_ is left
\* alone; one that does not exist or has no graph yet is not attached.
DetachAttach(gone, come) ==
  LET joins == {f \in come \ (attached \ gone) : body[f] = "ready"}
  IN /\ attached' = (attached \ gone) \cup joins
     /\ sinks' = (sinks \ (gone \cap attached)) \cup joins
     /\ stoppedActors' = stoppedActors \ gone

RunTask(kinds) ==
  /\ tasks # << >> /\ Head(tasks).kind \in kinds
  /\ tasks' = Tail(tasks)
  /\ UNCHANGED <<mapping, body, clip>>

\* Mutant: an update leaves the entry of the old form behind.
MappingSetKeepingOld ==
  /\ RunTask({"added", "updated"})
  /\ LET e    == Head(tasks)
         gone == {e.old} \ {NoForm, e.new}
         come == {e.new} \ {NoForm}
     IN /\ DetachAttach(gone, come)
        /\ formToConn' = [f \in Forms |-> IF f \in come THEN e.conn
                                          ELSE formToConn[f]]
        /\ connToForm' = IF come = {} THEN connToForm
                         ELSE [connToForm EXCEPT ![e.conn] = e.new]
  /\ UNCHANGED marker

\* Mutant: the reverse entry is made with the form id for its value.
MappingSetSwapped ==
  /\ RunTask({"added", "updated"})
  /\ LET e    == Head(tasks)
         gone == {e.old} \ {NoForm, e.new}
         come == {e.new} \ {NoForm}
     IN /\ DetachAttach(gone, come)
        /\ formToConn' = [f \in Forms |-> IF f \in come THEN e.new
                                          ELSE IF f \in gone THEN NoConn
                                          ELSE formToConn[f]]
        /\ connToForm' = IF come = {} THEN connToForm
                         ELSE [connToForm EXCEPT ![e.conn] = e.new]
  /\ UNCHANGED marker

\* kAdded and kUpdated share one case; an event without a new form ends early.
MappingSet ==
  /\ RunTask({"added", "updated"})
  /\ LET e    == Head(tasks)
         gone == {e.old} \ {NoForm, e.new}
         come == {e.new} \ {NoForm}
     IN /\ DetachAttach(gone, come)
        /\ formToConn' = [f \in Forms |-> IF f \in come THEN e.conn
                                          ELSE IF f \in gone THEN NoConn
                                          ELSE formToConn[f]]
        /\ connToForm' = IF come = {} THEN connToForm
                         ELSE [connToForm EXCEPT ![e.conn] = e.new]
  /\ UNCHANGED marker

\* Mutant: the proxy of a removed connection is not detached.
MappingRemovedAttached ==
  /\ RunTask({"removed"})
  /\ LET e    == Head(tasks)
         gone == {e.old} \ {NoForm}
     IN /\ formToConn' = [f \in Forms |-> IF f \in gone THEN NoConn
                                          ELSE formToConn[f]]
        /\ connToForm' = [connToForm EXCEPT ![e.conn] = NoForm]
  /\ UNCHANGED <<probe, marker>>

MappingRemoved ==
  /\ RunTask({"removed"})
  /\ LET e    == Head(tasks)
         gone == {e.old} \ {NoForm}
     IN /\ DetachAttach(gone, {})
        /\ formToConn' = [f \in Forms |-> IF f \in gone THEN NoConn
                                          ELSE formToConn[f]]
        /\ connToForm' = [connToForm EXCEPT ![e.conn] = NoForm]
  /\ UNCHANGED marker

MappingsCleared ==
  /\ RunTask({"cleared"})
  /\ DetachAttach({f \in Forms : Known(f)}, {})
  /\ formToConn' = [f \in Forms |-> NoConn]
  /\ connToForm' = [c \in Conns |-> NoForm]
  /\ UNCHANGED marker

-----------------------------------------------------------------------------
(* AnimationProbe.                                                          *)

\* Install, on each of the SKSE messages that start the runtime.
Install ==
  /\ DetachAttach({}, {Player})
  /\ UNCHANGED <<mapping, world, tasks, maps>>

\* The graph of proxy f outputs an event: ProcessEvent is called if the sink
\* is there, and acts on proxies that are mapped.
Heard(f) == f \in sinks /\ Known(f)

QueueHelmetMarkerCleanup(f) ==
  /\ Len(tasks) < MaxTasks
  /\ tasks' = Append(tasks, [kind |-> "cleanup", form |-> f])

\* Mutant: a fresh sequence does not end the stopped state of the last one.
GPMAStartsStopped(f) ==
  /\ body[f] = "ready"
  /\ clip' = [clip EXCEPT ![f] = "playing"]
  /\ UNCHANGED <<mapping, body, marker, tasks, maps, probe>>

\* AnimObjLoad(AnimObjectGPMA): a fresh GPMA sequence.
GPMAStarts(f) ==
  /\ body[f] = "ready"
  /\ clip' = [clip EXCEPT ![f] = "playing"]
  /\ stoppedActors' = IF Heard(f) THEN stoppedActors \ {f} ELSE stoppedActors
  /\ UNCHANGED <<mapping, body, marker, tasks, maps, attached, sinks>>

\* OffsetGPMAStop, from the clip itself or from a replayed stop.
GPMAStops(f) ==
  /\ clip[f] # "none"
  /\ clip' = [clip EXCEPT ![f] = "stopped"]
  /\ \/ /\ Heard(f)
        /\ stoppedActors' = stoppedActors \cup {f}
        /\ QueueHelmetMarkerCleanup(f)
     \/ /\ ~Heard(f)
        /\ UNCHANGED <<stoppedActors, tasks>>
  /\ UNCHANGED <<mapping, body, marker, maps, attached, sinks>>

\* Mutant: a marker drawn after the stop is not looked for.
MarkerDrawnUnseen(f) ==
  /\ clip[f] # "none" /\ marker[f] < MaxCopies
  /\ marker' = [marker EXCEPT ![f] = @ + 1]
  /\ UNCHANGED <<mapping, body, clip, tasks, maps, probe>>

\* AnimObjLoad or AnimObjDraw of the marker, possibly late, after the stop.
MarkerDrawn(f) ==
  /\ clip[f] # "none" /\ marker[f] < MaxCopies
  /\ marker' = [marker EXCEPT ![f] = @ + 1]
  /\ \/ /\ Heard(f) /\ f \in stoppedActors
        /\ QueueHelmetMarkerCleanup(f)
     \/ /\ ~(Heard(f) /\ f \in stoppedActors)
        /\ UNCHANGED tasks
  /\ UNCHANGED <<mapping, body, clip, maps, probe>>

Fewer(copies) == IF copies <= RemovalCap THEN 0 ELSE copies - RemovalCap

\* Mutant: the guard on the stopped state is the wrong way round.
CleanupInverted ==
  /\ RunTask({"cleanup"})
  /\ marker' = IF Head(tasks).form \in stoppedActors THEN marker
               ELSE [marker EXCEPT ![Head(tasks).form] = Fewer(@)]
  /\ UNCHANGED <<maps, probe>>

CleanupHelmetMarker ==
  /\ RunTask({"cleanup"})
  /\ marker' = IF Head(tasks).form \in stoppedActors
               THEN [marker EXCEPT ![Head(tasks).form] = Fewer(@)]
               ELSE marker
  /\ UNCHANGED <<maps, probe>>

-----------------------------------------------------------------------------
(* The game (external): an actor is created, deleted, or its graph and 3D   *)
(* are rebuilt; sinks, clips and markers go with them.                      *)

BodyChanges(a) ==
  /\ \E b \in {"absent", "graphless", "ready"} \ {body[a]} :
       body' = [body EXCEPT ![a] = b]
  /\ sinks' = sinks \ {a}
  /\ marker' = [f \in Forms |-> IF f = a THEN 0 ELSE marker[f]]
  /\ clip' = [f \in Forms |-> IF f = a THEN "none" ELSE clip[f]]
  /\ UNCHANGED <<mapping, tasks, maps, attached, stoppedActors>>

-----------------------------------------------------------------------------
(* Specifications.                                                          *)

Resolver ==
  \/ \E c \in Conns : \/ ResolverAdds(c)
                      \/ ResolverUpdates(c)
                      \/ ResolverRemoves(c)
  \/ ResolverClears

GameThread ==
  \/ MappingSet
  \/ MappingRemoved
  \/ MappingsCleared
  \/ CleanupHelmetMarker

Graphs ==
  \E f \in GPMAForms : GPMAStarts(f) \/ GPMAStops(f) \/ MarkerDrawn(f)

Next ==
  \/ Resolver
  \/ GameThread
  \/ Install
  \/ Graphs
  \/ \E a \in Actors : BodyChanges(a)

Spec == Init /\ [][Next]_vars

\* SKSE runs the queued tasks.
FairSpec == Spec /\ WF_vars(GameThread)

-----------------------------------------------------------------------------
(* Properties.                                                              *)

\* Every remote sink belongs to a proxy that is mapped, so that kCleared,
\* which walks formIDToConnection_ only, detaches them all
\* (docs/PROTOCOL.md:20, STRPMClient.cpp:612-617).
AttachedAreMapped == \A f \in attached \ {Player} : Known(f)

\* The probe knows every graph that notifies it; no sink outlives its
\* detachment (AnimationProbe.cpp:86-107).
NoSinkLeaks == sinks \subseteq attached

\* The stopped state of a GPMA sequence belongs to an attached proxy: it does
\* not survive into the next life of a form id (AnimationProbe.cpp:88).
StoppedAreAttached == stoppedActors \subseteq attached

IsMappingEvent(t) == t.kind # "cleanup"

\* Once the queued mapping events have been applied, the mirror used to
\* recognise a proxy is STRPM's map turned round, however connections and
\* form ids were reused in between (docs/PROTOCOL.md:17-20).
MirrorsResolver ==
  (\A i \in 1..Len(tasks) : ~IsMappingEvent(tasks[i])) =>
    \A f \in Forms, c \in Conns : formToConn[f] = c <=> mapping[c] = f

CleanupsQueued(f) ==
  Cardinality({i \in 1..Len(tasks) : tasks[i] = [kind |-> "cleanup", form |-> f]})

\* The copies on f that the queued clean-ups will leave.
Leftover(f) ==
  LET removed == RemovalCap * CleanupsQueued(f)
  IN IF marker[f] <= removed THEN 0 ELSE marker[f] - removed

\* No stale copy is forgotten on a proxy whose events the probe hears (a graph
\* that was rebuilt is not heard): from the stop on, and until a new sequence
\* starts, no step adds to what the queued clean-ups will leave, late draws
\* included, and the stop itself leaves only what exceeds the cap of one
\* clean-up: of five copies drawn before it, one stays ("Remove every stale
\* copy ... Cap the loop defensively", AnimationProbe.cpp:170-191, 249-277).
StaleCopiesAreDoomed ==
  [][\A f \in stoppedActors' \cap sinks' :
       Leftover(f)' <= IF f \in stoppedActors THEN Leftover(f)
                                              ELSE Fewer(marker[f])]_vars

\* "Never remove the marker while a new animation is active"
\* (AnimationProbe.cpp:138-139), for a proxy whose events the probe hears:
\* a clean-up queued for one sequence must not hit the next.
CleanupSparesActive ==
  [][CleanupHelmetMarker =>
       \A f \in sinks \cap Forms :
         marker'[f] < marker[f] => clip[f] # "playing"]_vars

\* A stale marker goes away, unless a new sequence starts or the proxy is
\* unmapped or rebuilt first.  Two cases are left out: copies beyond the cap of
\* the clean-up that the stop queues stay (AnimationProbe.cpp:173), and a game
\* that draws copies faster than the queue runs; MaxTasks rules that out.
StaleMarkerGoes ==
  \A f \in Forms :
    f \in stoppedActors \cap sinks /\ Leftover(f) = 0
      ~> marker[f] = 0 \/ f \notin stoppedActors \cap sinks

\* docs/PROTOCOL.md:17 "store ConnectionID -> FormID and attach the animation
\* sink": a mapped proxy with a graph is observed once the queue is empty.
MappedProxyIsObserved ==
  tasks = << >> =>
    \A f \in Forms : Known(f) /\ body[f] = "ready" => f \in sinks

=============================================================================
