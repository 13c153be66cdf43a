----------------------------- MODULE ClipProbe -----------------------------
(***************************************************************************)
(* The clip diagnostics (AnimationClipProbe): an animation input arms its   *)
(* actor for a while, and each clip generator that the actor activates in   *)
(* that while is logged as a ClipSelection with the reason of the arming.   *)
(*                                                                         *)
(* Clips are activated by the animation update or from within the           *)
(* NotifyAnimationGraph call that caused them; the player's inputs nest.    *)
(***************************************************************************)
EXTENDS Naturals, Sequences

CONSTANTS
  Player,     \* the local player, form id 0x14
  Proxies,    \* the proxies of the other clients
  Inputs,     \* graph inputs
  Profiled,   \* those for which ShouldSyncEvent holds, on every client
  Nothing,    \* no entry, no activation, no arming
  Window,     \* the 1500 ms, in ticks of the clock
  MaxTime,    \* bound: ticks
  MaxNesting  \* bound: inputs notified from within another's handler

Start == "OffsetGPMA"

VARIABLES
  now,         \* std::chrono::steady_clock
  armedActors, \* AnimationClipProbe::armedActors_; Nothing if there is no entry
  running,     \* per actor: the inputs being notified to it, innermost first
  arming,      \* history: the latest ArmActor of each actor
  last         \* history: the latest clip activation and what was logged of it

vars == <<now, armedActors, running, arming, last>>

Actors == Proxies \cup {Player}
Times == 0..MaxTime

ArmState == [expiresAt : Nat, reason : Inputs]

\* "first" until an input that arms the actor is notified from within.
Call == [input : Inputs, at : Times, first : BOOLEAN]
Arming == [at : Times, reason : Inputs]

ASSUME ProbeAssumption ==
  /\ Player \notin Proxies
  /\ Profiled \subseteq Inputs /\ Start \in Profiled
  /\ Window \in Nat /\ MaxTime \in Nat /\ MaxNesting \in Nat
  /\ Nothing \notin Inputs \cup ArmState \cup Arming \cup Call

Activation == [actor : Actors, at : Times, during : Call \cup {Nothing},
               after : Arming \cup {Nothing}, logged : Inputs \cup {Nothing}]

TypeOK ==
  /\ now \in Times
  /\ armedActors \in [Actors -> ArmState \cup {Nothing}]
  /\ \A a \in Actors :
       armedActors[a] # Nothing => armedActors[a].expiresAt <= now + Window
  /\ running \in [Actors -> Seq(Call)]
  /\ arming \in [Actors -> Arming \cup {Nothing}]
  /\ last \in Activation \cup {Nothing}

Init ==
  /\ now = 0
  /\ armedActors = [a \in Actors |-> Nothing]
  /\ running = [a \in Actors |-> << >>]
  /\ arming = [a \in Actors |-> Nothing]
  /\ last = Nothing

-----------------------------------------------------------------------------

Remember(a, input) ==
  arming' = [arming EXCEPT ![a] = [at |-> now, reason |-> input]]

\* Mutant: an actor that is armed stays armed for its first reason.
ArmActorOnce(a, input) ==
  /\ armedActors' = IF armedActors[a] # Nothing THEN armedActors
                    ELSE [armedActors EXCEPT
                            ![a] = [expiresAt |-> now + Window, reason |-> input]]
  /\ Remember(a, input)

\* Mutant: an armed actor's window is prolonged, not started afresh.
ArmActorProlonging(a, input) ==
  /\ armedActors' =
       [armedActors EXCEPT
          ![a] = [expiresAt |-> Window + IF @ = Nothing THEN now ELSE @.expiresAt,
                  reason |-> input]]
  /\ Remember(a, input)

\* A new arming replaces the entry of an earlier one.
ArmActor(a, input) ==
  /\ armedActors' = [armedActors EXCEPT
                       ![a] = [expiresAt |-> now + Window, reason |-> input]]
  /\ Remember(a, input)

Begin(input) == << [input |-> input, at |-> now, first |-> TRUE] >>

Interrupted(calls) == [i \in DOMAIN calls |-> [calls[i] EXCEPT !.first = FALSE]]

\* Mutant: the player is not armed before the handler runs.
NotifyPlayerUnarmed(input) ==
  /\ Len(running[Player]) <= MaxNesting
  /\ running' = [running EXCEPT ![Player] = Begin(input) \o @]
  /\ UNCHANGED <<now, last, armedActors, arming>>

\* PlayerNotifyAnimationGraph as far as the original handler: a profiled input
\* arms the player first, whether or not the graph will accept it.
NotifyPlayer(input) ==
  /\ Len(running[Player]) <= MaxNesting
  /\ \/ /\ input \in Profiled
        /\ ArmActor(Player, input)
        /\ running' = [running EXCEPT
                         ![Player] = Begin(input) \o Interrupted(@)]
     \/ /\ input \notin Profiled
        /\ running' = [running EXCEPT ![Player] = Begin(input) \o @]
        /\ UNCHANGED <<armedActors, arming>>
  /\ UNCHANGED <<now, last>>

\* ApplyAnimationMessage as far as NotifyAnimationGraph: only the start of a
\* Helmet Toggle action arms the proxy.
ReplayOnProxy(p, input) ==
  /\ running[p] = << >>
  /\ running' = [running EXCEPT ![p] = Begin(input)]
  /\ \/ input = Start /\ ArmActor(p, input)
     \/ input # Start /\ UNCHANGED <<armedActors, arming>>
  /\ UNCHANGED <<now, last>>

Return(a) ==
  /\ running[a] # << >>
  /\ running' = [running EXCEPT ![a] = Tail(@)]
  /\ UNCHANGED <<now, armedActors, arming, last>>

Seen(a, logged) ==
  last' = [actor |-> a, at |-> now, after |-> arming[a], logged |-> logged,
           during |-> IF running[a] = << >> THEN Nothing ELSE Head(running[a])]

\* Mutant: the last moment of the window is outside it.
ActivateClosing(a) ==
  /\ LET entry == armedActors[a]
     IN \/ /\ entry = Nothing
           /\ Seen(a, Nothing) /\ UNCHANGED armedActors
        \/ /\ entry # Nothing /\ now >= entry.expiresAt
           /\ Seen(a, Nothing)
           /\ armedActors' = [armedActors EXCEPT ![a] = Nothing]
        \/ /\ entry # Nothing /\ now < entry.expiresAt
           /\ Seen(a, entry.reason) /\ UNCHANGED armedActors
  /\ UNCHANGED <<now, running, arming>>

\* HkbClipGeneratorActivate, once the original has activated the clip of an
\* actor: an entry that has expired is dropped.
HkbClipGeneratorActivate(a) ==
  /\ LET entry == armedActors[a]
     IN \/ /\ entry = Nothing
           /\ Seen(a, Nothing) /\ UNCHANGED armedActors
        \/ /\ entry # Nothing /\ now > entry.expiresAt
           /\ Seen(a, Nothing)
           /\ armedActors' = [armedActors EXCEPT ![a] = Nothing]
        \/ /\ entry # Nothing /\ now <= entry.expiresAt
           /\ Seen(a, entry.reason) /\ UNCHANGED armedActors
  /\ UNCHANGED <<now, running, arming>>

Tick ==
  /\ now < MaxTime
  /\ now' = now + 1
  /\ UNCHANGED <<armedActors, running, arming, last>>

Next ==
  \/ \E input \in Inputs : NotifyPlayer(input)
  \/ \E p \in Proxies, input \in Profiled : ReplayOnProxy(p, input)
  \/ \E a \in Actors : Return(a) \/ HkbClipGeneratorActivate(a)
  \/ Tick

Spec == Init /\ [][Next]_vars

-----------------------------------------------------------------------------
(* Properties. *)

\* A ClipSelection is logged if and only if the latest arming of the actor is
\* no older than the window, and it gives the reason of that arming, not of
\* one that it replaced (docs/TESTING.md:22-34, AnimationClipProbe.cpp:22-66).
SelectionsAreExplained ==
  last # Nothing =>
    last.logged = IF last.after # Nothing /\ last.at <= last.after.at + Window
                  THEN last.after.reason ELSE Nothing

\* The inputs that are to arm an actor: on the player those that are profiled,
\* on a proxy the start of a Helmet Toggle action.
Arms(a, input) == IF a = Player THEN input \in Profiled ELSE input = Start

\* "The local player should arm clip capture before the input reaches OAR", and
\* the proxy "before remote replay" (docs/TESTING.md:25, 40): a clip that such an
\* input selects from within its own notification is logged under that input,
\* on either client (AnimationInputProbe.cpp:69-74, STRPMClient.cpp:428-437).
ArmedBeforeInput ==
  last # Nothing /\ last.during # Nothing =>
    LET call == last.during
    IN /\ call.first /\ Arms(last.actor, call.input)
       /\ last.at <= call.at + Window
       => last.logged = call.input

=============================================================================
