----------------------- MODULE ProxyLifecycle_proofs -----------------------
(***************************************************************************)
(* Theorems about ProxyLifecycle for every set of connections and form ids  *)
(* and every bound on the queued tasks.                                     *)
(***************************************************************************)
EXTENDS ProxyLifecycle, SequenceTheorems, FiniteSetTheorems, TLAPS

-----------------------------------------------------------------------------
(* Type correctness. *)

LEMMA FormFacts == /\ Player \notin Forms /\ NoForm \notin Forms
                   /\ NoConn \notin Conns /\ GPMAForms \subseteq Forms
  BY LifecycleAssumption

LEMMA CopyFacts == /\ MaxCopies \in Nat /\ 0 \in Copies
                   /\ \A k \in Copies : k < MaxCopies => k + 1 \in Copies
                   /\ \A k \in Copies : Fewer(k) \in Copies
  BY LifecycleAssumption DEF Copies, Fewer, RemovalCap

LEMMA QueueType ==
  ASSUME TypeOK, NEW t \in Task, tasks' = Append(tasks, t)
  PROVE  tasks' \in Seq(Task)
  BY AppendProperties DEF TypeOK

LEMMA RunType ==
  ASSUME TypeOK, NEW kinds, RunTask(kinds)
  PROVE  Head(tasks) \in Task /\ tasks' \in Seq(Task)
  BY HeadTailProperties DEF TypeOK, RunTask

LEMMA DetachAttachType ==
  ASSUME TypeOK, NEW gone, NEW come, come \subseteq Actors,
         DetachAttach(gone, come)
  PROVE  /\ attached' \subseteq Actors /\ sinks' \subseteq Actors
         /\ stoppedActors' \subseteq Forms
  BY DEF TypeOK, DetachAttach

LEMMA TypeNext == TypeOK /\ [Next]_vars => TypeOK'
<1> SUFFICES ASSUME TypeOK, [Next]_vars PROVE TypeOK'
  OBVIOUS
<1> USE DEF TypeOK, world, maps, probe
<1>1. ASSUME NEW c \in Conns, ResolverAdds(c) PROVE TypeOK'
  <2>1. PICK f \in Forms : /\ mapping' = [mapping EXCEPT ![c] = f]
                           /\ QueueMappingEvent(Change("added", c, NoForm, f))
    BY <1>1 DEF ResolverAdds, Unmapped
  <2>2. Change("added", c, NoForm, f) \in Task
    BY DEF Change, Task, MappingEvent
  <2>3. tasks' \in Seq(Task)
    BY <2>1, <2>2, QueueType DEF QueueMappingEvent
  <2> QED
    BY <2>1, <2>3 DEF QueueMappingEvent
<1>2. ASSUME NEW c \in Conns, ResolverUpdates(c) PROVE TypeOK'
  <2>1. PICK f \in Forms \cup {NoForm} :
           /\ mapping' = [mapping EXCEPT ![c] = f]
           /\ QueueMappingEvent(Change("updated", c, mapping[c], f))
    BY <1>2 DEF ResolverUpdates, Unmapped
  <2>2. Change("updated", c, mapping[c], f) \in Task
    BY DEF Change, Task, MappingEvent
  <2>3. tasks' \in Seq(Task)
    BY <2>1, <2>2, QueueType DEF QueueMappingEvent
  <2> QED
    BY <2>1, <2>3 DEF QueueMappingEvent
<1>3. ASSUME NEW c \in Conns, ResolverRemoves(c) PROVE TypeOK'
  <2>1. Change("removed", c, mapping[c], NoForm) \in Task
    BY DEF Change, Task, MappingEvent
  <2>2. tasks' \in Seq(Task)
    BY <1>3, <2>1, QueueType DEF ResolverRemoves, QueueMappingEvent
  <2> QED
    BY <1>3, <2>2 DEF ResolverRemoves, QueueMappingEvent
<1>4. CASE ResolverClears
  <2>1. tasks' \in Seq(Task)
    BY <1>4, QueueType DEF ResolverClears, QueueMappingEvent, Task
  <2> QED
    BY <1>4, <2>1 DEF ResolverClears, QueueMappingEvent
<1>5. CASE MappingSet
  <2> DEFINE e == Head(tasks)
  <2>1. e \in MappingEvent /\ tasks' \in Seq(Task)
    BY <1>5, RunType DEF MappingSet, RunTask, Task, Cleared, Cleanup
  <2>2. /\ attached' \subseteq Actors /\ sinks' \subseteq Actors
        /\ stoppedActors' \subseteq Forms
    BY <1>5, <2>1, DetachAttachType DEF MappingSet, MappingEvent, Actors
  <2>3. formToConn' \in [Forms -> Conns \cup {NoConn}]
    BY <1>5, <2>1 DEF MappingSet, MappingEvent
  <2>4. connToForm' \in [Conns -> Forms \cup {NoForm}]
    BY <1>5, <2>1 DEF MappingSet, MappingEvent
  <2> QED
    BY <1>5, <2>1, <2>2, <2>3, <2>4 DEF MappingSet, RunTask
<1>6. CASE MappingRemoved
  <2>1. /\ attached' \subseteq Actors /\ sinks' \subseteq Actors
        /\ stoppedActors' \subseteq Forms
    BY <1>6, DetachAttachType DEF MappingRemoved
  <2>2. tasks' \in Seq(Task)
    BY <1>6, RunType DEF MappingRemoved
  <2>3. formToConn' \in [Forms -> Conns \cup {NoConn}]
    BY <1>6 DEF MappingRemoved
  <2> QED
    BY <1>6, <2>1, <2>2, <2>3 DEF MappingRemoved, RunTask
<1>7. CASE MappingsCleared
  <2>1. /\ attached' \subseteq Actors /\ sinks' \subseteq Actors
        /\ stoppedActors' \subseteq Forms
    BY <1>7, DetachAttachType DEF MappingsCleared
  <2>2. tasks' \in Seq(Task)
    BY <1>7, RunType DEF MappingsCleared
  <2> QED
    BY <1>7, <2>1, <2>2 DEF MappingsCleared, RunTask
<1>8. CASE CleanupHelmetMarker
  <2>1. tasks' \in Seq(Task)
    BY <1>8, RunType DEF CleanupHelmetMarker
  <2>2. marker' \in [Forms -> Copies]
    BY <1>8, CopyFacts DEF CleanupHelmetMarker
  <2> QED
    BY <1>8, <2>1, <2>2 DEF CleanupHelmetMarker, RunTask
<1>9. CASE Install
  <2>1. /\ attached' \subseteq Actors /\ sinks' \subseteq Actors
        /\ stoppedActors' \subseteq Forms
    BY <1>9, DetachAttachType DEF Install, Actors
  <2> QED
    BY <1>9, <2>1 DEF Install
<1>10. ASSUME NEW f \in GPMAForms, GPMAStarts(f) PROVE TypeOK'
  BY <1>10 DEF GPMAStarts
<1>11. ASSUME NEW f \in GPMAForms, QueueHelmetMarkerCleanup(f)
       PROVE  tasks' \in Seq(Task)
  <2>1. [kind |-> "cleanup", form |-> f] \in Task
    BY FormFacts DEF Task, Cleanup
  <2> QED
    BY <1>11, <2>1, QueueType DEF QueueHelmetMarkerCleanup
<1>12. ASSUME NEW f \in GPMAForms, GPMAStops(f) PROVE TypeOK'
  <2>1. tasks' \in Seq(Task) /\ f \in Forms
    BY <1>11, <1>12, FormFacts DEF GPMAStops
  <2> QED
    BY <1>12, <2>1 DEF GPMAStops
<1>13. ASSUME NEW f \in GPMAForms, MarkerDrawn(f) PROVE TypeOK'
  <2>1. tasks' \in Seq(Task) /\ f \in Forms
    BY <1>11, <1>13, FormFacts DEF MarkerDrawn
  <2>2. marker' \in [Forms -> Copies]
    BY <1>13, CopyFacts DEF MarkerDrawn
  <2> QED
    BY <1>13, <2>1, <2>2 DEF MarkerDrawn
<1>14. ASSUME NEW a \in Actors, BodyChanges(a) PROVE TypeOK'
  <2>1. marker' \in [Forms -> Copies]
    BY <1>14, CopyFacts DEF BodyChanges
  <2> QED
    BY <1>14, <2>1 DEF BodyChanges
<1>15. CASE UNCHANGED vars
  BY <1>15 DEF vars
<1> QED
  BY <1>1, <1>2, <1>3, <1>4, <1>5, <1>6, <1>7, <1>8, <1>9, <1>10, <1>12,
     <1>13, <1>14, <1>15 DEF Next, Resolver, GameThread, Graphs

LEMMA InitType == Init => TypeOK
  BY CopyFacts DEF Init, TypeOK

\* Every reachable state is well-formed, however STRPM and the game behave.
THEOREM TypeCorrect == Spec => []TypeOK
  BY InitType, TypeNext, PTL DEF Spec

-----------------------------------------------------------------------------
(* The book-keeping of sinks.  The three invariants lean on each other: a   *)
(* stop is recorded for a proxy that is heard, a proxy is heard through a   *)
(* sink that is attached, and an attached proxy is mapped.                  *)

\* A sequence that is playing is not recorded as stopped, if it was heard.
StoppedIsNotPlaying ==
  \A f \in stoppedActors \cap sinks : clip[f] # "playing"

SinkInv ==
  /\ TypeOK
  /\ AttachedAreMapped
  /\ NoSinkLeaks
  /\ StoppedAreAttached
  /\ StoppedIsNotPlaying

\* What the kind of a task says about its other fields.
LEMMA MappingTaskType ==
  ASSUME NEW t \in Task, NEW kinds \in SUBSET {"added", "updated", "removed"},
         t.kind \in kinds
  PROVE  t \in MappingEvent
<1>1. t # Cleared
  BY DEF Cleared
<1>2. t \notin Cleanup
  BY DEF Cleanup
<1> QED
  BY <1>1, <1>2 DEF Task

LEMMA MappingHead ==
  ASSUME TypeOK, NEW kinds \in SUBSET {"added", "updated", "removed"},
         RunTask(kinds)
  PROVE  Head(tasks) \in MappingEvent
<1>1. Head(tasks) \in Task /\ Head(tasks).kind \in kinds
  BY HeadTailProperties DEF TypeOK, RunTask
<1> QED
  BY <1>1, MappingTaskType

\* A sink is heard: its proxy is mapped.
LEMMA SinksAreHeard ==
  ASSUME SinkInv, NEW f \in Forms, f \in sinks
  PROVE  Heard(f)
  BY FormFacts DEF SinkInv, AttachedAreMapped, NoSinkLeaks, Heard

\* Detaching and attaching keeps the books if every detached proxy that
\* stays unmapped and every proxy that comes is accounted for.
LEMMA DetachAttachKeeps ==
  ASSUME SinkInv, TypeOK', NEW gone \in SUBSET Forms, NEW come \in SUBSET Actors,
         DetachAttach(gone, come), UNCHANGED <<body, clip>>,
         \A f \in Forms \ gone : Known(f) => Known(f)',
         \A f \in come \cap Forms : Known(f)'
  PROVE  SinkInv'
<1> DEFINE joins == {f \in come \ (attached \ gone) : body[f] = "ready"}
<1>1. /\ attached' = (attached \ gone) \cup joins
      /\ sinks' = (sinks \ (gone \cap attached)) \cup joins
      /\ stoppedActors' = stoppedActors \ gone
  BY DEF DetachAttach
<1>2. AttachedAreMapped'
  BY <1>1 DEF SinkInv, TypeOK, AttachedAreMapped, Actors
<1>3. NoSinkLeaks'
  BY <1>1 DEF SinkInv, NoSinkLeaks
<1>4. StoppedAreAttached'
  BY <1>1 DEF SinkInv, StoppedAreAttached
<1>5. StoppedIsNotPlaying'
  BY <1>1 DEF SinkInv, StoppedIsNotPlaying, StoppedAreAttached
<1> QED
  BY <1>2, <1>3, <1>4, <1>5 DEF SinkInv

\* A step that leaves the books alone.
LEMMA BooksKept ==
  ASSUME SinkInv, TypeOK', UNCHANGED <<attached, formToConn>>,
         sinks' \subseteq sinks, stoppedActors' \subseteq stoppedActors,
         \A f \in stoppedActors' \cap sinks' : clip'[f] # "playing"
  PROVE  SinkInv'
<1>1. AttachedAreMapped'
  BY DEF SinkInv, AttachedAreMapped, Known
<1>2. NoSinkLeaks' /\ StoppedAreAttached' /\ StoppedIsNotPlaying'
  BY DEF SinkInv, NoSinkLeaks, StoppedAreAttached, StoppedIsNotPlaying
<1> QED
  BY <1>1, <1>2 DEF SinkInv

LEMMA SinkNext == SinkInv /\ [Next]_vars => SinkInv'
<1> SUFFICES ASSUME SinkInv, [Next]_vars PROVE SinkInv'
  OBVIOUS
<1>1. TypeOK /\ TypeOK'
  BY TypeNext DEF SinkInv
<1>2. \A f \in stoppedActors \cap sinks : clip[f] # "playing"
  BY DEF SinkInv, StoppedIsNotPlaying
<1>3. CASE Resolver
  <2>1. UNCHANGED <<world, maps, probe>>
    BY <1>3 DEF Resolver, ResolverAdds, ResolverUpdates, ResolverRemoves,
                ResolverClears, QueueMappingEvent
  <2> QED
    BY <1>1, <1>2, <2>1, BooksKept DEF world, maps, probe
<1>4. CASE MappingSet
  <2> DEFINE e == Head(tasks)
             gone == {e.old} \ {NoForm, e.new}
             come == {e.new} \ {NoForm}
  <2>1. e \in MappingEvent
    BY <1>1, <1>4, MappingHead DEF MappingSet
  <2>2. gone \in SUBSET Forms /\ come \in SUBSET Forms /\ e.conn \in Conns
        /\ come \in SUBSET Actors
    BY <2>1 DEF MappingEvent, Actors
  <2>3. /\ DetachAttach(gone, come) /\ UNCHANGED <<body, clip>>
        /\ formToConn' = [f \in Forms |-> IF f \in come THEN e.conn
                                          ELSE IF f \in gone THEN NoConn
                                          ELSE formToConn[f]]
    BY <1>4 DEF MappingSet, RunTask
  <2> HIDE DEF gone, come, e
  <2>4. \A f \in Forms \ gone : Known(f) => Known(f)'
    BY <2>2, <2>3, FormFacts DEF Known
  <2>5. \A f \in come \cap Forms : Known(f)'
    BY <2>2, <2>3, FormFacts DEF Known
  <2> QED
    BY <1>1, <2>2, <2>3, <2>4, <2>5, DetachAttachKeeps
<1>5. CASE MappingRemoved
  <2> DEFINE gone == {Head(tasks).old} \ {NoForm}
  <2>1. gone \in SUBSET Forms
    <3>1. Head(tasks) \in MappingEvent
      BY <1>1, <1>5, MappingHead DEF MappingRemoved
    <3> QED
      BY <3>1 DEF MappingEvent
  <2>2. /\ DetachAttach(gone, {}) /\ UNCHANGED <<body, clip>>
        /\ \A f \in Forms \ gone : Known(f) => Known(f)'
    BY <1>5 DEF MappingRemoved, RunTask, Known
  <2> HIDE DEF gone
  <2> QED
    BY <1>1, <2>1, <2>2, DetachAttachKeeps
<1>6. CASE MappingsCleared
  <2> DEFINE gone == {f \in Forms : Known(f)}
  <2>1. gone \in SUBSET Forms /\ \A f \in Forms \ gone : Known(f) => Known(f)'
    OBVIOUS
  <2>2. DetachAttach(gone, {}) /\ UNCHANGED <<body, clip>>
    BY <1>6 DEF MappingsCleared, RunTask
  <2> HIDE DEF gone
  <2> QED
    BY <1>1, <2>1, <2>2, DetachAttachKeeps
<1>7. CASE CleanupHelmetMarker
  BY <1>1, <1>2, <1>7, BooksKept DEF CleanupHelmetMarker, RunTask, maps, probe
<1>8. CASE Install
  <2>1. /\ DetachAttach({}, {Player}) /\ UNCHANGED <<body, clip>>
        /\ UNCHANGED formToConn
    BY <1>8 DEF Install, world, maps
  <2>2. /\ \A f \in Forms \ {} : Known(f) => Known(f)'
        /\ \A f \in {Player} \cap Forms : Known(f)'
    BY <2>1, FormFacts DEF Known
  <2>3. {} \in SUBSET Forms /\ {Player} \in SUBSET Actors
    BY DEF Actors
  <2> QED
    BY <1>1, <2>1, <2>2, <2>3, DetachAttachKeeps
<1>9. ASSUME NEW f \in GPMAForms, GPMAStarts(f) PROVE SinkInv'
  <2>1. f \in Forms /\ stoppedActors' \subseteq stoppedActors
        /\ (f \in sinks => f \notin stoppedActors')
    BY <1>9, SinksAreHeard, FormFacts DEF GPMAStarts
  <2>2. \A g \in stoppedActors' \cap sinks : g # f /\ clip'[g] = clip[g]
    BY <1>1, <1>9, <2>1 DEF GPMAStarts, TypeOK
  <2> QED
    BY <1>1, <1>2, <1>9, <2>1, <2>2, BooksKept DEF GPMAStarts, maps
<1>10. ASSUME NEW f \in GPMAForms, GPMAStops(f) PROVE SinkInv'
  <2>1. f \in Forms /\ clip'[f] = "stopped"
        /\ \A g \in Forms \ {f} : clip'[g] = clip[g]
    BY <1>1, <1>10, FormFacts DEF GPMAStops, TypeOK
  <2>2. UNCHANGED <<formToConn, attached, sinks>>
    BY <1>10 DEF GPMAStops, maps
  <2>3. \A g \in stoppedActors' \cap sinks' : clip'[g] # "playing"
    BY <1>1, <1>2, <1>10, <2>1, <2>2 DEF GPMAStops, TypeOK
  <2>4. CASE Heard(f)
    <3>1. stoppedActors' = stoppedActors \cup {f}
      BY <1>10, <2>4 DEF GPMAStops
    <3>2. f \in attached
      BY <2>4 DEF Heard, SinkInv, NoSinkLeaks
    <3>3. AttachedAreMapped' /\ NoSinkLeaks' /\ StoppedAreAttached'
      BY <2>2, <3>1, <3>2
      DEF SinkInv, AttachedAreMapped, NoSinkLeaks, StoppedAreAttached, Known
    <3> QED
      BY <1>1, <2>3, <3>3 DEF SinkInv, StoppedIsNotPlaying
  <2>5. CASE ~Heard(f)
    BY <1>1, <1>10, <2>2, <2>3, <2>5, BooksKept DEF GPMAStops
  <2> QED
    BY <2>4, <2>5
<1>11. ASSUME NEW f \in GPMAForms, MarkerDrawn(f) PROVE SinkInv'
  BY <1>1, <1>2, <1>11, BooksKept DEF MarkerDrawn, maps, probe
<1>12. ASSUME NEW a \in Actors, BodyChanges(a) PROVE SinkInv'
  <2>1. \A f \in Forms : f # a => clip'[f] = clip[f]
    BY <1>12 DEF BodyChanges
  <2>2. sinks' = sinks \ {a} /\ UNCHANGED <<attached, stoppedActors, formToConn>>
    BY <1>12 DEF BodyChanges, maps
  <2>3. \A f \in stoppedActors' \cap sinks' : clip'[f] # "playing"
    BY <1>1, <1>2, <2>1, <2>2 DEF TypeOK
  <2> QED
    BY <1>1, <2>2, <2>3, BooksKept
<1>13. CASE UNCHANGED vars
  BY <1>1, <1>2, <1>13, BooksKept DEF vars, world, maps, probe
<1> QED
  BY <1>3, <1>4, <1>5, <1>6, <1>7, <1>8, <1>9, <1>10, <1>11, <1>12, <1>13
  DEF Next, GameThread, Graphs

LEMMA SinkInvariant == Spec => []SinkInv
<1>1. Init => SinkInv
  BY InitType DEF Init, SinkInv, AttachedAreMapped, NoSinkLeaks,
                  StoppedAreAttached, StoppedIsNotPlaying
<1> QED
  BY <1>1, SinkNext, PTL DEF Spec

\* kCleared detaches every remote sink there is: none is attached to a proxy
\* that formIDToConnection_ has forgotten.
THEOREM RemoteSinksMapped == Spec => []AttachedAreMapped
  BY SinkInvariant, PTL DEF SinkInv

\* The probe never loses track of a graph that still notifies it.
THEOREM SinksTracked == Spec => []NoSinkLeaks
  BY SinkInvariant, PTL DEF SinkInv

\* The stopped state of a proxy ends with its attachment.
THEOREM StoppedStateScoped == Spec => []StoppedAreAttached
  BY SinkInvariant, PTL DEF SinkInv

\* A clean-up queued for one GPMA sequence never removes the marker of the
\* next one, on a proxy whose events the probe hears.
THEOREM CleanupSafe == Spec => CleanupSparesActive
<1>1. SinkInv /\ [Next]_vars =>
        [CleanupHelmetMarker =>
           \A f \in sinks \cap Forms :
             marker'[f] < marker[f] => clip[f] # "playing"]_vars
  <2> SUFFICES ASSUME SinkInv, CleanupHelmetMarker, NEW f \in sinks \cap Forms,
                      marker'[f] < marker[f]
               PROVE  clip[f] # "playing"
    OBVIOUS
  <2>1. marker \in [Forms -> Copies] /\ \A k \in Copies : ~(k < k)
    BY CopyFacts DEF SinkInv, TypeOK, Copies
  <2>2. f = Head(tasks).form /\ f \in stoppedActors
    BY <2>1, FormFacts DEF CleanupHelmetMarker
  <2> QED
    BY <2>2 DEF SinkInv, StoppedIsNotPlaying
<1> QED
  BY <1>1, SinkInvariant, PTL DEF Spec, CleanupSparesActive

-----------------------------------------------------------------------------
(* Counting the clean-ups of a proxy that wait.  A task that is queued adds  *)
(* one if it is the proxy's clean-up, a task that is run takes one away; the *)
(* others of the queue only move by one place.                               *)

Waiting(s, t) == {i \in 1..Len(s) : s[i] = t}

CleanupOf(f) == [kind |-> "cleanup", form |-> f]

LEMMA WaitingFinite ==
  ASSUME NEW s \in Seq(Task), NEW t
  PROVE  /\ IsFiniteSet(Waiting(s, t)) /\ Cardinality(Waiting(s, t)) \in Nat
         /\ Len(s) + 1 \notin Waiting(s, t)
<1>1. Len(s) \in Nat /\ IsFiniteSet(1..Len(s))
  BY LenProperties, FS_Interval
<1> QED
  BY <1>1, FS_Subset, FS_CardinalityType DEF Waiting

LEMMA WaitingAppend ==
  ASSUME NEW s \in Seq(Task), NEW u \in Task, NEW t
  PROVE  Cardinality(Waiting(Append(s, u), t)) =
           Cardinality(Waiting(s, t)) + (IF u = t THEN 1 ELSE 0)
<1> DEFINE n == Len(s)
           r == Append(s, u)
<1>1. /\ n \in Nat /\ Len(r) = n + 1 /\ r[n + 1] = u
      /\ \A i \in 1..n : r[i] = s[i]
  BY AppendProperties, LenProperties
<1> HIDE DEF n, r
<1>2. \A i : i \in 1..n + 1 <=> i \in 1..n \/ i = n + 1
  BY <1>1
<1>3. n + 1 \notin 1..n
  BY <1>1
<1>4. Waiting(r, t) = IF u = t THEN Waiting(s, t) \cup {n + 1} ELSE Waiting(s, t)
  BY <1>1, <1>2, <1>3 DEF Waiting, n
<1>5. /\ IsFiniteSet(Waiting(s, t)) /\ Cardinality(Waiting(s, t)) \in Nat
      /\ n + 1 \notin Waiting(s, t)
  BY WaitingFinite DEF n
<1>6. Cardinality(Waiting(s, t) \cup {n + 1}) = Cardinality(Waiting(s, t)) + 1
  BY <1>5, FS_AddElement
<1>7. CASE u = t
  BY <1>4, <1>6, <1>7 DEF r
<1>8. CASE u # t
  BY <1>4, <1>5, <1>8 DEF r
<1> QED
  BY <1>7, <1>8

LEMMA WaitingTail ==
  ASSUME NEW s \in Seq(Task), s # << >>, NEW t
  PROVE  Cardinality(Waiting(s, t)) =
           Cardinality(Waiting(Tail(s), t)) + (IF Head(s) = t THEN 1 ELSE 0)
<1> DEFINE n == Len(s)
           r == Tail(s)
           later == Waiting(s, t) \ {1}
           next == [i \in Waiting(r, t) |-> i + 1]
<1>1. /\ n \in Nat /\ n > 0 /\ Len(r) = n - 1 /\ Head(s) = s[1] /\ r \in Seq(Task)
      /\ \A i \in 1..n - 1 : r[i] = s[i + 1]
  BY HeadTailProperties, LenProperties
<1> HIDE DEF n, r
<1>2. \A i \in Waiting(r, t) : i \in Nat /\ i + 1 \in later
  BY <1>1 DEF Waiting, n
<1>3. \A j \in later : j - 1 \in Waiting(r, t) /\ (j - 1) + 1 = j
  BY <1>1 DEF Waiting, n
<1> HIDE DEF later
<1>4. next \in [Waiting(r, t) -> later]
  BY <1>2
<1>5. \A i, j \in Waiting(r, t) : next[i] = next[j] => i = j
  BY <1>2
<1>6. \A j \in later : \E i \in Waiting(r, t) : next[i] = j
  BY <1>3
<1>7. ExistsBijection(Waiting(r, t), later)
  <2> HIDE DEF next
  <2> QED
    BY <1>4, <1>5, <1>6
    DEF ExistsBijection, Bijection, Injection, Surjection, IsInjective
<1>8. Cardinality(later) = Cardinality(Waiting(r, t))
  BY <1>1, <1>7, WaitingFinite, FS_Bijection
<1>9. 1 \in Waiting(s, t) <=> Head(s) = t
  BY <1>1 DEF Waiting, n
<1>10. /\ Cardinality(Waiting(s, t)) \in Nat
       /\ Cardinality(later) = IF 1 \in Waiting(s, t)
                               THEN Cardinality(Waiting(s, t)) - 1
                               ELSE Cardinality(Waiting(s, t))
  BY WaitingFinite, FS_RemoveElement DEF later
<1> QED
  BY <1>8, <1>9, <1>10 DEF r

\* What n clean-ups leave of m copies.
Left(m, n) == IF m <= RemovalCap * n THEN 0 ELSE m - RemovalCap * n

\* A copy and its own clean-up leave no more than before, a clean-up that is
\* run leaves what it would, and one that is queued cannot leave more.
LEMMA LeftFacts ==
  ASSUME NEW m \in Nat, NEW n \in Nat
  PROVE  /\ Left(m, n) <= Left(m, n)
         /\ Left(m + 1, n + 1) <= Left(m, n)
         /\ Left(m, n + 1) <= Left(m, n)
         /\ Left(m, n + 1) <= Fewer(m)
         /\ Left(Fewer(m), n) <= Left(m, n + 1)
  BY DEF Left, Fewer, RemovalCap

LEMMA LeftoverIs ==
  ASSUME NEW f
  PROVE  /\ Leftover(f) = Left(marker[f], CleanupsQueued(f))
         /\ Leftover(f)' = Left(marker'[f], CleanupsQueued(f)')
  BY DEF Leftover, Left

LEMMA CountFacts ==
  ASSUME TypeOK, TypeOK', NEW f \in Forms
  PROVE  /\ CleanupsQueued(f) \in Nat /\ CleanupsQueued(f)' \in Nat
         /\ marker[f] \in Nat /\ marker'[f] \in Nat
<1>1. marker[f] \in Nat /\ marker'[f] \in Nat
  BY CopyFacts DEF TypeOK, Copies
<1>2. tasks \in Seq(Task) /\ tasks' \in Seq(Task)
  BY DEF TypeOK
<1> QED
  BY <1>1, <1>2, WaitingFinite DEF CleanupsQueued, Waiting

LEMMA CountIs ==
  ASSUME NEW f
  PROVE  /\ CleanupsQueued(f) = Cardinality(Waiting(tasks, CleanupOf(f)))
         /\ CleanupsQueued(f)' = Cardinality(Waiting(tasks', CleanupOf(f)))
  BY DEF CleanupsQueued, Waiting, CleanupOf

LEMMA CountAppend ==
  ASSUME TypeOK, NEW u \in Task, tasks' = Append(tasks, u), NEW f
  PROVE  CleanupsQueued(f)' =
           CleanupsQueued(f) + (IF u = CleanupOf(f) THEN 1 ELSE 0)
  BY WaitingAppend, CountIs DEF TypeOK

LEMMA CountTail ==
  ASSUME TypeOK, tasks # << >>, tasks' = Tail(tasks), NEW f
  PROVE  CleanupsQueued(f) =
           CleanupsQueued(f)' + (IF Head(tasks) = CleanupOf(f) THEN 1 ELSE 0)
  BY WaitingTail, CountIs DEF TypeOK

\* A task that is no clean-up of f is queued or run, or the queue stays.
LEMMA CountKept ==
  ASSUME TypeOK, TypeOK', NEW f \in Forms,
         \/ UNCHANGED tasks
         \/ \E u \in Task : u # CleanupOf(f) /\ tasks' = Append(tasks, u)
         \/ tasks # << >> /\ Head(tasks) # CleanupOf(f) /\ tasks' = Tail(tasks)
  PROVE  CleanupsQueued(f)' = CleanupsQueued(f)
<1>1. CleanupsQueued(f) \in Nat /\ CleanupsQueued(f)' \in Nat
  BY CountFacts
<1>2. CASE UNCHANGED tasks
  BY <1>2 DEF CleanupsQueued
<1>3. CASE \E u \in Task : u # CleanupOf(f) /\ tasks' = Append(tasks, u)
  BY <1>1, <1>3, CountAppend
<1>4. CASE tasks # << >> /\ Head(tasks) # CleanupOf(f) /\ tasks' = Tail(tasks)
  BY <1>1, <1>4, CountTail
<1> QED
  BY <1>2, <1>3, <1>4

\* What a step may do to the copies and the clean-ups of f while f is stopped.
LEMMA LeftoverKept ==
  ASSUME TypeOK, TypeOK', NEW f \in Forms,
         \/ /\ marker'[f] = marker[f]
            /\ \/ CleanupsQueued(f)' = CleanupsQueued(f)
               \/ CleanupsQueued(f)' = CleanupsQueued(f) + 1
         \/ /\ marker'[f] = marker[f] + 1
            /\ CleanupsQueued(f)' = CleanupsQueued(f) + 1
         \/ /\ marker'[f] = Fewer(marker[f])
            /\ CleanupsQueued(f) = CleanupsQueued(f)' + 1
  PROVE  Leftover(f)' <= Leftover(f)
<1> DEFINE m == marker[f]
           n == CleanupsQueued(f)
           k == CleanupsQueued(f)'
<1>1. m \in Nat /\ n \in Nat /\ k \in Nat
  BY CountFacts
<1>2. Leftover(f) = Left(m, n) /\ Leftover(f)' = Left(marker'[f], k)
  BY LeftoverIs
<1> HIDE DEF m, n, k
<1>3. CASE marker'[f] = m /\ (k = n \/ k = n + 1)
  BY <1>1, <1>2, <1>3, LeftFacts
<1>4. CASE marker'[f] = m + 1 /\ k = n + 1
  BY <1>1, <1>2, <1>4, LeftFacts
<1>5. CASE marker'[f] = Fewer(m) /\ n = k + 1
  BY <1>1, <1>2, <1>5, LeftFacts
<1> QED
  BY <1>3, <1>4, <1>5 DEF m, n, k

\* The step of a proxy that was stopped already, or of one that stops.
Doomed(f) ==
  Leftover(f)' <= IF f \in stoppedActors THEN Leftover(f) ELSE Fewer(marker[f])

LEMMA QueuedCleanup ==
  ASSUME TypeOK, TypeOK', NEW f \in Forms, NEW g \in Forms,
         QueueHelmetMarkerCleanup(g)
  PROVE  CleanupsQueued(f)' = IF f = g THEN CleanupsQueued(f) + 1
                              ELSE CleanupsQueued(f)
<1>1. CleanupOf(g) \in Task /\ tasks' = Append(tasks, CleanupOf(g))
  BY DEF QueueHelmetMarkerCleanup, CleanupOf, Task, Cleanup
<1>2. CleanupOf(g) = CleanupOf(f) <=> f = g
  BY DEF CleanupOf
<1>3. CASE f = g
  BY <1>1, <1>3, CountAppend
<1>4. CASE f # g
  BY <1>1, <1>2, <1>4, CountKept
<1> QED
  BY <1>3, <1>4

\* A step that leaves markers and clean-ups alone and stops no proxy.
LEMMA DoomedIdle ==
  ASSUME TypeOK, TypeOK', NEW f \in Forms, f \in stoppedActors,
         UNCHANGED marker, CleanupsQueued(f)' = CleanupsQueued(f)
  PROVE  Doomed(f)
  BY LeftoverKept DEF Doomed

LEMMA DoomedNext ==
  ASSUME SinkInv, Next, NEW f \in stoppedActors' \cap sinks'
  PROVE  Doomed(f)
<1>1. TypeOK /\ TypeOK'
  BY TypeNext DEF SinkInv
<1>2. f \in Forms
  BY <1>1 DEF TypeOK
<1>3. CleanupOf(f).kind = "cleanup"
  BY DEF CleanupOf
<1>4. CASE Resolver
  <2>1. UNCHANGED <<marker, stoppedActors>>
    BY <1>4 DEF Resolver, ResolverAdds, ResolverUpdates, ResolverRemoves,
                ResolverClears, QueueMappingEvent, world, probe
  <2>2. \E u \in Task : u # CleanupOf(f) /\ tasks' = Append(tasks, u)
    <3>1. ASSUME NEW kind \in {"added", "updated", "removed"}, NEW c \in Conns,
                 NEW old \in Forms \cup {NoForm}, NEW new \in Forms \cup {NoForm}
          PROVE  Change(kind, c, old, new) \in Task \ {CleanupOf(f)}
      <4>1. Change(kind, c, old, new) \in Task
        BY DEF Change, Task, MappingEvent
      <4>2. Change(kind, c, old, new).kind # "cleanup"
        BY DEF Change
      <4> QED
        BY <1>3, <4>1, <4>2
    <3>2. Cleared \in Task \ {CleanupOf(f)}
      BY <1>3 DEF Task, Cleared
    <3>3. \A c \in Conns : mapping[c] \in Forms \cup {NoForm}
      BY <1>1 DEF TypeOK
    <3>4. ASSUME NEW c \in Conns, ResolverAdds(c)
          PROVE  \E u \in Task : u # CleanupOf(f) /\ tasks' = Append(tasks, u)
      BY <3>1, <3>4 DEF ResolverAdds, Unmapped, QueueMappingEvent
    <3>5. ASSUME NEW c \in Conns, ResolverUpdates(c)
          PROVE  \E u \in Task : u # CleanupOf(f) /\ tasks' = Append(tasks, u)
      BY <3>1, <3>3, <3>5 DEF ResolverUpdates, Unmapped, QueueMappingEvent
    <3>6. ASSUME NEW c \in Conns, ResolverRemoves(c)
          PROVE  \E u \in Task : u # CleanupOf(f) /\ tasks' = Append(tasks, u)
      BY <3>1, <3>3, <3>6 DEF ResolverRemoves, QueueMappingEvent
    <3>7. CASE ResolverClears
      BY <3>2, <3>7 DEF ResolverClears, QueueMappingEvent
    <3> QED
      BY <1>4, <3>4, <3>5, <3>6, <3>7 DEF Resolver
  <2> QED
    BY <1>1, <1>2, <2>1, <2>2, CountKept, DoomedIdle
<1>5. CASE MappingSet \/ MappingRemoved \/ MappingsCleared
  <2>1. /\ tasks # << >> /\ tasks' = Tail(tasks) /\ Head(tasks).kind # "cleanup"
        /\ UNCHANGED marker
    BY <1>5 DEF MappingSet, MappingRemoved, MappingsCleared, RunTask
  <2>2. f \in stoppedActors
    BY <1>5 DEF MappingSet, MappingRemoved, MappingsCleared, DetachAttach
  <2> QED
    BY <1>1, <1>2, <1>3, <2>1, <2>2, CountKept, DoomedIdle
<1>6. CASE CleanupHelmetMarker
  <2>1. /\ tasks # << >> /\ tasks' = Tail(tasks) /\ Head(tasks).kind = "cleanup"
        /\ f \in stoppedActors
    BY <1>6 DEF CleanupHelmetMarker, RunTask, probe
  <2>2. Head(tasks) = CleanupOf(Head(tasks).form)
    <3>1. Head(tasks) \in Task
      BY <1>1, <2>1, HeadTailProperties DEF TypeOK
    <3>2. Head(tasks) \in Cleanup
      BY <2>1, <3>1 DEF Task, MappingEvent, Cleared
    <3> QED
      BY <3>2 DEF Cleanup, CleanupOf
  <2>3. CASE Head(tasks).form = f
    <3>1. marker'[f] = Fewer(marker[f])
      BY <1>1, <1>2, <1>6, <2>1, <2>3 DEF CleanupHelmetMarker, TypeOK
    <3>2. CleanupsQueued(f) = CleanupsQueued(f)' + 1
      BY <1>1, <2>1, <2>2, <2>3, CountTail
    <3> QED
      BY <1>1, <1>2, <2>1, <3>1, <3>2, LeftoverKept DEF Doomed
  <2>4. CASE Head(tasks).form # f
    <3>1. marker'[f] = marker[f]
      BY <1>1, <1>2, <1>6, <2>4 DEF CleanupHelmetMarker, TypeOK
    <3>2. Head(tasks) # CleanupOf(f)
      BY <2>4 DEF CleanupOf
    <3>3. CleanupsQueued(f)' = CleanupsQueued(f)
      BY <1>1, <1>2, <2>1, <3>2, CountKept
    <3> QED
      BY <1>1, <1>2, <2>1, <3>1, <3>3, LeftoverKept DEF Doomed
  <2> QED
    BY <2>3, <2>4
<1>7. CASE Install
  <2>1. f \in stoppedActors /\ UNCHANGED <<marker, tasks>>
    BY <1>7 DEF Install, DetachAttach, world
  <2> QED
    BY <1>1, <1>2, <2>1, CountKept, DoomedIdle
<1>8. ASSUME NEW g \in GPMAForms, GPMAStarts(g) PROVE Doomed(f)
  <2>1. f \in stoppedActors /\ UNCHANGED <<marker, tasks>>
    BY <1>8 DEF GPMAStarts
  <2> QED
    BY <1>1, <1>2, <2>1, CountKept, DoomedIdle
<1>9. ASSUME NEW g \in GPMAForms, GPMAStops(g) PROVE Doomed(f)
  <2>1. UNCHANGED <<marker, sinks>> /\ g \in Forms
    BY <1>9, FormFacts DEF GPMAStops
  <2>2. CASE Heard(g)
    <3>1. /\ stoppedActors' = stoppedActors \cup {g}
          /\ QueueHelmetMarkerCleanup(g)
      BY <1>9, <2>2 DEF GPMAStops
    <3>2. CleanupsQueued(f)' = IF f = g THEN CleanupsQueued(f) + 1
                               ELSE CleanupsQueued(f)
      BY <1>1, <1>2, <2>1, <3>1, QueuedCleanup
    <3>3. CASE f \in stoppedActors
      BY <1>1, <1>2, <2>1, <3>2, <3>3, LeftoverKept DEF Doomed
    <3>4. CASE f \notin stoppedActors
      <4>1. f = g
        BY <3>1, <3>4
      <4>2. Leftover(f)' = Left(marker[f], CleanupsQueued(f) + 1)
        BY <2>1, <3>2, <4>1, LeftoverIs
      <4>3. marker[f] \in Nat /\ CleanupsQueued(f) \in Nat
        BY <1>1, <1>2, CountFacts
      <4> QED
        BY <3>4, <4>2, <4>3, LeftFacts DEF Doomed
    <3> QED
      BY <3>3, <3>4
  <2>3. CASE ~Heard(g)
    <3>1. UNCHANGED <<stoppedActors, tasks>>
      BY <1>9, <2>3 DEF GPMAStops
    <3> QED
      BY <1>1, <1>2, <2>1, <3>1, CountKept, DoomedIdle
  <2> QED
    BY <2>2, <2>3
<1>10. ASSUME NEW g \in GPMAForms, MarkerDrawn(g) PROVE Doomed(f)
  <2>1. /\ f \in stoppedActors /\ f \in sinks /\ g \in Forms
        /\ marker' = [marker EXCEPT ![g] = @ + 1]
    BY <1>10, FormFacts DEF MarkerDrawn, probe
  <2>2. CASE f = g
    <3>1. QueueHelmetMarkerCleanup(g)
      BY <1>2, <1>10, <2>1, <2>2, SinksAreHeard DEF MarkerDrawn
    <3>2. CleanupsQueued(f)' = CleanupsQueued(f) + 1
      BY <1>1, <1>2, <2>1, <2>2, <3>1, QueuedCleanup
    <3>3. marker'[f] = marker[f] + 1
      BY <1>1, <1>2, <2>1, <2>2 DEF TypeOK
    <3> QED
      BY <1>1, <1>2, <2>1, <3>2, <3>3, LeftoverKept DEF Doomed
  <2>3. CASE f # g
    <3>1. marker'[f] = marker[f]
      BY <1>1, <1>2, <2>1, <2>3 DEF TypeOK
    <3>2. UNCHANGED tasks \/ QueueHelmetMarkerCleanup(g)
      BY <1>10 DEF MarkerDrawn
    <3>3. CleanupsQueued(f)' = CleanupsQueued(f)
      BY <1>1, <1>2, <2>1, <2>3, <3>2, CountKept, QueuedCleanup
    <3> QED
      BY <1>1, <1>2, <2>1, <3>1, <3>3, LeftoverKept DEF Doomed
  <2> QED
    BY <2>2, <2>3
<1>11. ASSUME NEW a \in Actors, BodyChanges(a) PROVE Doomed(f)
  <2>1. f \in stoppedActors /\ f # a /\ UNCHANGED tasks
    BY <1>11 DEF BodyChanges
  <2>2. marker'[f] = marker[f]
    BY <1>2, <1>11, <2>1 DEF BodyChanges
  <2>3. CleanupsQueued(f)' = CleanupsQueued(f)
    BY <1>1, <1>2, <2>1, CountKept
  <2> QED
    BY <1>1, <1>2, <2>1, <2>2, <2>3, LeftoverKept DEF Doomed
<1> QED
  BY <1>4, <1>5, <1>6, <1>7, <1>8, <1>9, <1>10, <1>11
  DEF Next, GameThread, Graphs

\* While a proxy is stopped and heard, no step leaves a copy of the marker
\* without a clean-up that had one, however many copies there are; the stop
\* itself leaves what one clean-up cannot take.
THEOREM NoCopyForgotten == Spec => StaleCopiesAreDoomed
<1>1. SinkInv /\ [Next]_vars =>
        [\A f \in stoppedActors' \cap sinks' :
           Leftover(f)' <= IF f \in stoppedActors THEN Leftover(f)
                                                  ELSE Fewer(marker[f])]_vars
  BY DoomedNext DEF Doomed
<1> QED
  BY <1>1, SinkInvariant, PTL DEF Spec, StaleCopiesAreDoomed

-----------------------------------------------------------------------------
(* The mirror of the resolver's map.  While events are queued, the last one  *)
(* that speaks of a proxy says who owns it now; what the client has stored   *)
(* counts for the proxies that no queued event speaks of.                    *)

Touches(t, f) ==
  \/ t.kind = "cleared"
  \/ t.kind \in {"added", "updated", "removed"} /\ t.old = f
  \/ t.kind \in {"added", "updated"} /\ t.new = f

\* What formIDToConnection_ holds for f once the event has been applied.
Effect(t, f) ==
  IF t.kind \in {"added", "updated"} /\ t.new = f THEN t.conn ELSE NoConn

Owned(f, owner) == \A c \in Conns : mapping[c] = f <=> owner = c

OneOwner ==
  \A c, d \in Conns : mapping[c] = mapping[d] /\ mapping[c] # NoForm => c = d

Untouched(f, i) == \A j \in 1..Len(tasks) : j > i => ~Touches(tasks[j], f)

MirrorInv ==
  /\ OneOwner
  /\ \A f \in Forms :
       /\ Untouched(f, 0) => Owned(f, formToConn[f])
       /\ \A i \in 1..Len(tasks) :
            Touches(tasks[i], f) /\ Untouched(f, i) =>
              Owned(f, Effect(tasks[i], f))

\* An event is queued that tells of the change of the map.
LEMMA MirrorQueued ==
  ASSUME TypeOK, MirrorInv, OneOwner', UNCHANGED formToConn,
         NEW t \in Task, tasks' = Append(tasks, t),
         \A f \in Forms :
           /\ Touches(t, f) =>
                \A c \in Conns : mapping'[c] = f <=> Effect(t, f) = c
           /\ ~Touches(t, f) => \A c \in Conns : mapping'[c] = f <=> mapping[c] = f
  PROVE  MirrorInv'
<1> DEFINE n == Len(tasks)
           Then(f, owner) == \A c \in Conns : mapping'[c] = f <=> owner = c
<1>1. /\ n \in Nat /\ Len(tasks') = n + 1 /\ tasks'[n + 1] = t
      /\ \A i \in 1..n : tasks'[i] = tasks[i]
  BY AppendProperties, LenProperties DEF TypeOK
<1> HIDE DEF n
<1>2. 1..n \subseteq 1..n + 1 /\ n + 1 \in 1..n + 1 /\ n + 1 > 0
      /\ \A i \in 1..n + 1 : i = n + 1 \/ (i \in 1..n /\ n + 1 > i)
  BY <1>1
<1> SUFFICES ASSUME NEW f \in Forms
             PROVE  /\ Untouched(f, 0)' => Then(f, formToConn'[f])
                    /\ \A i \in 1..n + 1 :
                         Touches(tasks'[i], f) /\ Untouched(f, i)' =>
                           Then(f, Effect(tasks'[i], f))
  BY <1>1 DEF MirrorInv, Owned
<1>3. CASE Touches(t, f)
  <2>1. \A i \in 1..n : ~Untouched(f, i)'
    BY <1>1, <1>2, <1>3 DEF Untouched
  <2>2. ~Untouched(f, 0)'
    BY <1>1, <1>2, <1>3 DEF Untouched
  <2>3. Then(f, Effect(t, f))
    BY <1>3
  <2> HIDE DEF Then
  <2> QED
    BY <1>1, <1>2, <2>1, <2>2, <2>3
<1>4. CASE ~Touches(t, f)
  <2>1. \A x : Owned(f, x) => Then(f, x)
    BY <1>4 DEF Owned
  <2> HIDE DEF Then
  <2>2. \A i \in 0..n : Untouched(f, i)' => Untouched(f, i)
    BY <1>1, <1>2 DEF Untouched, n
  <2>3. 0 \in 0..n /\ \A i \in 1..n : i \in 0..n
    BY <1>1
  <2>4. Untouched(f, 0)' => Then(f, formToConn'[f])
    BY <2>1, <2>2, <2>3 DEF MirrorInv
  <2>5. ASSUME NEW i \in 1..n, Touches(tasks'[i], f), Untouched(f, i)'
        PROVE  Then(f, Effect(tasks'[i], f))
    BY <1>1, <2>1, <2>2, <2>3, <2>5 DEF MirrorInv, n
  <2> QED
    BY <1>1, <1>2, <1>4, <2>4, <2>5
<1> QED
  BY <1>3, <1>4

\* The first task is applied: its effect is stored.
LEMMA MirrorApplied ==
  ASSUME TypeOK, MirrorInv, UNCHANGED mapping, tasks # << >>,
         tasks' = Tail(tasks),
         \A f \in Forms :
           formToConn'[f] = IF Touches(Head(tasks), f) THEN Effect(Head(tasks), f)
                            ELSE formToConn[f]
  PROVE  MirrorInv'
<1> DEFINE n == Len(tasks)
<1>1. /\ n \in Nat /\ n > 0 /\ Len(tasks') = n - 1 /\ Head(tasks) = tasks[1]
      /\ \A i \in 1..n - 1 : tasks'[i] = tasks[i + 1]
  BY HeadTailProperties, LenProperties DEF TypeOK
<1> HIDE DEF n
<1>2. /\ 1 \in 1..n /\ \A i \in 1..n - 1 : i + 1 \in 1..n
      /\ \A i \in 1..n : i = 1 \/ (i - 1 \in 1..n - 1 /\ (i - 1) + 1 = i)
  BY <1>1
<1>3. OneOwner'
  BY DEF MirrorInv, OneOwner
<1>4. \A f, x : Owned(f, x)' <=> Owned(f, x)
  BY DEF Owned
<1>5. ASSUME NEW f \in Forms, NEW i \in 0..n - 1, Untouched(f, i)'
      PROVE  Untouched(f, i + 1)
  <2> SUFFICES ASSUME NEW j \in 1..n, j > i + 1 PROVE ~Touches(tasks[j], f)
    BY DEF Untouched, n
  <2>1. j - 1 \in 1..n - 1 /\ j - 1 > i /\ tasks'[j - 1] = tasks[j]
    BY <1>1
  <2> QED
    BY <1>1, <1>5, <2>1 DEF Untouched
<1>6. ASSUME NEW f \in Forms, Untouched(f, 0)'
      PROVE  Owned(f, formToConn'[f])
  <2>1. Untouched(f, 1)
    BY <1>1, <1>5, <1>6
  <2>2. CASE Touches(tasks[1], f)
    BY <1>1, <1>2, <2>1, <2>2 DEF MirrorInv, n
  <2>3. CASE ~Touches(tasks[1], f)
    <3>1. Untouched(f, 0)
      BY <1>1, <1>2, <2>1, <2>3 DEF Untouched, n
    <3> QED
      BY <1>1, <2>3, <3>1 DEF MirrorInv
  <2> QED
    BY <2>2, <2>3
<1>7. ASSUME NEW f \in Forms, NEW i \in 1..n - 1, Touches(tasks'[i], f),
             Untouched(f, i)'
      PROVE  Owned(f, Effect(tasks'[i], f))
  <2>1. i + 1 \in 1..n /\ tasks'[i] = tasks[i + 1] /\ i \in 0..n - 1
    BY <1>1
  <2>2. Untouched(f, i + 1)
    BY <1>5, <1>7, <2>1
  <2> QED
    BY <1>7, <2>1, <2>2 DEF MirrorInv, n
<1> QED
  BY <1>1, <1>3, <1>4, <1>6, <1>7 DEF MirrorInv

\* Neither the map nor the mirror takes part.
LEMMA MirrorIdle ==
  ASSUME MirrorInv, UNCHANGED <<mapping, formToConn, tasks>>
  PROVE  MirrorInv'
  BY DEF MirrorInv, OneOwner, Owned, Untouched

LEMMA MirrorCleanupQueued ==
  ASSUME TypeOK, MirrorInv, UNCHANGED <<mapping, formToConn>>, NEW f \in Forms,
         QueueHelmetMarkerCleanup(f)
  PROVE  MirrorInv'
<1> DEFINE t == [kind |-> "cleanup", form |-> f]
<1>1. t \in Task /\ tasks' = Append(tasks, t)
  BY DEF QueueHelmetMarkerCleanup, Task, Cleanup
<1>2. \A g \in Forms : ~Touches(t, g)
  BY DEF Touches
<1>3. OneOwner'
  BY DEF MirrorInv, OneOwner
<1> HIDE DEF t
<1> QED
  BY <1>1, <1>2, <1>3, MirrorQueued

LEMMA MirrorNext == TypeOK /\ MirrorInv /\ [Next]_vars => MirrorInv'
<1> SUFFICES ASSUME TypeOK, MirrorInv, [Next]_vars PROVE MirrorInv'
  OBVIOUS
<1>1. /\ mapping \in [Conns -> Forms \cup {NoForm}] /\ NoForm \notin Forms
      /\ OneOwner
  BY FormFacts DEF TypeOK, MirrorInv
<1>2. ASSUME NEW kind \in {"added", "updated", "removed"}, NEW c \in Conns,
             NEW old \in Forms \cup {NoForm}, NEW new \in Forms \cup {NoForm}
      PROVE  /\ Change(kind, c, old, new) \in Task
             /\ Change(kind, c, old, new).kind = kind
             /\ Change(kind, c, old, new).conn = c
             /\ Change(kind, c, old, new).old = old
             /\ Change(kind, c, old, new).new = new
  BY DEF Change, Task, MappingEvent
\* Connection c, which owned "old", gets "new"; the event says so.
<1>3. ASSUME NEW kind \in {"added", "updated", "removed"}, NEW c \in Conns,
             NEW new \in Unmapped \cup {mapping[c], NoForm},
             kind = "removed" => new = NoForm,
             mapping' = [mapping EXCEPT ![c] = new],
             QueueMappingEvent(Change(kind, c, mapping[c], new))
      PROVE  MirrorInv'
  <2> DEFINE t == Change(kind, c, mapping[c], new)
  <2>1. new \in Forms \cup {NoForm} /\ mapping[c] \in Forms \cup {NoForm}
    BY <1>1 DEF Unmapped
  <2>2. /\ t \in Task /\ t.kind = kind /\ t.conn = c /\ t.old = mapping[c]
        /\ t.new = new
    BY <1>2, <2>1
  <2>3. tasks' = Append(tasks, t) /\ UNCHANGED formToConn
    BY <1>3 DEF QueueMappingEvent, maps
  <2>4. mapping'[c] = new /\ \A d \in Conns \ {c} : mapping'[d] = mapping[d]
    BY <1>1, <1>3
  <2>5. \A d \in Conns \ {c} : new # NoForm => mapping[d] # new
    BY <1>1, <1>3 DEF OneOwner, Unmapped
  <2>6. OneOwner'
    BY <1>1, <2>4, <2>5 DEF OneOwner
  <2> HIDE DEF t
  <2>7. ASSUME NEW f \in Forms, Touches(t, f)
        PROVE  \A d \in Conns : mapping'[d] = f <=> Effect(t, f) = d
    <3>1. f = mapping[c] \/ f = new
      BY <2>2, <2>7 DEF Touches
    <3>2. CASE f = new
      <4>1. Effect(t, f) = c
        BY <1>1, <1>3, <2>2, <3>2 DEF Effect
      <4> QED
        BY <1>1, <2>4, <2>5, <3>2, <4>1
    <3>3. CASE f # new /\ f = mapping[c]
      <4>1. Effect(t, f) = NoConn
        BY <2>2, <3>3 DEF Effect
      <4>2. \A d \in Conns : mapping'[d] # f
        BY <1>1, <2>4, <3>3 DEF OneOwner
      <4> QED
        BY <4>1, <4>2, FormFacts
    <3> QED
      BY <3>1, <3>2, <3>3
  <2>8. ASSUME NEW f \in Forms, ~Touches(t, f), NEW d \in Conns
        PROVE  mapping'[d] = f <=> mapping[d] = f
    <3>1. f # mapping[c] /\ f # new
      BY <1>1, <1>3, <2>2, <2>8 DEF Touches
    <3> QED
      BY <2>4, <3>1
  <2> QED
    BY <2>2, <2>3, <2>6, <2>7, <2>8, MirrorQueued
<1>4. ASSUME NEW c \in Conns, ResolverAdds(c) PROVE MirrorInv'
  BY <1>3, <1>4 DEF ResolverAdds
<1>5. ASSUME NEW c \in Conns, ResolverUpdates(c) PROVE MirrorInv'
  BY <1>3, <1>5 DEF ResolverUpdates
<1>6. ASSUME NEW c \in Conns, ResolverRemoves(c) PROVE MirrorInv'
  BY <1>3, <1>6 DEF ResolverRemoves
<1>7. CASE ResolverClears
  <2>1. /\ mapping' = [c \in Conns |-> NoForm] /\ tasks' = Append(tasks, Cleared)
        /\ UNCHANGED formToConn
    BY <1>7 DEF ResolverClears, QueueMappingEvent, maps
  <2>2. OneOwner'
    BY <2>1 DEF OneOwner
  <2>3. \A f \in Forms : Touches(Cleared, f) /\ Effect(Cleared, f) = NoConn
    BY DEF Touches, Effect, Cleared
  <2>4. \A f \in Forms, c \in Conns : mapping'[c] = f <=> NoConn = c
    BY <1>1, <2>1, FormFacts
  <2>5. Cleared \in Task
    BY DEF Task
  <2> QED
    BY <2>1, <2>2, <2>3, <2>4, <2>5, MirrorQueued
<1>8. CASE MappingSet
  <2> DEFINE e == Head(tasks)
  <2>1. e.kind \in {"added", "updated"} /\ tasks # << >> /\ tasks' = Tail(tasks)
        /\ UNCHANGED mapping
    BY <1>8 DEF MappingSet, RunTask
  <2>2. formToConn' = [f \in Forms |->
                         IF f \in {e.new} \ {NoForm} THEN e.conn
                         ELSE IF f \in {e.old} \ {NoForm, e.new} THEN NoConn
                         ELSE formToConn[f]]
    BY <1>8 DEF MappingSet
  <2> HIDE DEF e
  <2>3. \A f \in Forms :
          formToConn'[f] = IF Touches(e, f) THEN Effect(e, f) ELSE formToConn[f]
    BY <1>1, <2>1, <2>2 DEF Touches, Effect
  <2> QED
    BY <2>1, <2>3, MirrorApplied DEF e
<1>9. CASE MappingRemoved
  <2> DEFINE e == Head(tasks)
  <2>1. e.kind = "removed" /\ tasks # << >> /\ tasks' = Tail(tasks)
        /\ UNCHANGED mapping
    BY <1>9 DEF MappingRemoved, RunTask
  <2>2. formToConn' = [f \in Forms |-> IF f \in {e.old} \ {NoForm} THEN NoConn
                                       ELSE formToConn[f]]
    BY <1>9 DEF MappingRemoved
  <2> HIDE DEF e
  <2>3. \A f \in Forms :
          formToConn'[f] = IF Touches(e, f) THEN Effect(e, f) ELSE formToConn[f]
    BY <1>1, <2>1, <2>2 DEF Touches, Effect
  <2> QED
    BY <2>1, <2>3, MirrorApplied DEF e
<1>10. CASE MappingsCleared
  <2>1. Head(tasks).kind = "cleared" /\ tasks # << >> /\ tasks' = Tail(tasks)
        /\ UNCHANGED mapping /\ formToConn' = [f \in Forms |-> NoConn]
    BY <1>10 DEF MappingsCleared, RunTask
  <2> QED
    BY <2>1, MirrorApplied DEF Touches, Effect
<1>11. CASE CleanupHelmetMarker
  <2>1. Head(tasks).kind = "cleanup" /\ tasks # << >> /\ tasks' = Tail(tasks)
        /\ UNCHANGED <<mapping, formToConn>>
    BY <1>11 DEF CleanupHelmetMarker, RunTask, maps
  <2> QED
    BY <2>1, MirrorApplied DEF Touches
<1>12. CASE Graphs
  <2>1. PICK f \in Forms : GPMAStarts(f) \/ GPMAStops(f) \/ MarkerDrawn(f)
    BY <1>12, FormFacts DEF Graphs
  <2>2. UNCHANGED <<mapping, formToConn>>
    BY <2>1 DEF GPMAStarts, GPMAStops, MarkerDrawn, maps
  <2>3. UNCHANGED tasks \/ QueueHelmetMarkerCleanup(f)
    BY <2>1 DEF GPMAStarts, GPMAStops, MarkerDrawn
  <2> QED
    BY <2>2, <2>3, MirrorIdle, MirrorCleanupQueued
<1>13. CASE Install \/ (\E a \in Actors : BodyChanges(a)) \/ UNCHANGED vars
  BY <1>13, MirrorIdle DEF Install, BodyChanges, vars, maps
<1> QED
  BY <1>4, <1>5, <1>6, <1>7, <1>8, <1>9, <1>10, <1>11, <1>12, <1>13
  DEF Next, Resolver, GameThread

LEMMA MirrorInvariant == Spec => [](TypeOK /\ MirrorInv)
<1>1. Init => TypeOK /\ MirrorInv
  <2> SUFFICES ASSUME Init PROVE MirrorInv
    BY InitType
  <2>1. tasks = << >> /\ Len(tasks) = 0
    BY DEF Init
  <2> QED
    BY <2>1, FormFacts DEF Init, MirrorInv, OneOwner, Owned
<1> QED
  BY <1>1, TypeNext, MirrorNext, PTL DEF Spec

\* However connections and form ids change hands, once the queued events have
\* been applied a proxy is recognised by the connection that owns it.
THEOREM MirrorAgrees == Spec => []MirrorsResolver
<1>1. TypeOK /\ MirrorInv => MirrorsResolver
  <2> SUFFICES ASSUME TypeOK, MirrorInv, NEW f \in Forms, NEW c \in Conns,
                      \A i \in 1..Len(tasks) : ~IsMappingEvent(tasks[i])
               PROVE  formToConn[f] = c <=> mapping[c] = f
    BY DEF MirrorsResolver
  <2>1. Untouched(f, 0)
    BY DEF Untouched, Touches, IsMappingEvent
  <2> QED
    BY <2>1 DEF MirrorInv, Owned
<1> QED
  BY <1>1, MirrorInvariant, PTL

=============================================================================
