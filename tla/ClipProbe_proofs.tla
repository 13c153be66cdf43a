--------------------------- MODULE ClipProbe_proofs ---------------------------
(***************************************************************************)
(* Theorems about ClipProbe for every window, every bound and every set of   *)
(* proxies and inputs.                                                      *)
(***************************************************************************)
EXTENDS ClipProbe, SequenceTheorems, TLAPS

\* An entry is the latest arming of its actor, and none is dropped before its
\* window is over.
EntryInv ==
  \A a \in Actors :
    /\ armedActors[a] # Nothing =>
         /\ arming[a] # Nothing
         /\ armedActors[a].expiresAt = arming[a].at + Window
         /\ armedActors[a].reason = arming[a].reason
    /\ arming[a] # Nothing =>
         /\ arming[a].at <= now
         /\ armedActors[a] = Nothing => now > arming[a].at + Window

\* No arming of the actor is later than that of an uninterrupted input.
Uninterrupted(a, call) ==
  call.first /\ Arms(a, call.input) =>
    /\ arming[a] # Nothing
    /\ arming[a].at = call.at /\ arming[a].reason = call.input

CallsOf(a) == \A i \in 1..Len(running[a]) : Uninterrupted(a, running[a][i])
CallInv == \A a \in Actors : CallsOf(a)

Typed ==
  /\ now \in Times
  /\ armedActors \in [Actors -> ArmState \cup {Nothing}]
  /\ running \in [Actors -> Seq(Call)]
  /\ arming \in [Actors -> Arming \cup {Nothing}]
  /\ last \in Activation \cup {Nothing}

ProbeInv ==
  Typed /\ EntryInv /\ CallInv /\ SelectionsAreExplained /\ ArmedBeforeInput

-----------------------------------------------------------------------------
(* The operators.                                                           *)

LEMMA ProbeFacts ==
  /\ Profiled \subseteq Inputs /\ Start \in Profiled
  /\ Player \in Actors /\ Player \notin Proxies /\ Proxies \subseteq Actors
  /\ Window \in Nat /\ MaxTime \in Nat
  /\ Nothing \notin Inputs /\ Nothing \notin Arming
  /\ Nothing \notin ArmState /\ Nothing \notin Call
  /\ Times \subseteq Nat
  BY ProbeAssumption DEF Actors, Times

LEMMA Records ==
  ASSUME NEW t \in Times, NEW input \in Inputs, NEW first \in BOOLEAN
  PROVE  /\ [input |-> input, at |-> t, first |-> first] \in Call
         /\ [at |-> t, reason |-> input] \in Arming
         /\ [expiresAt |-> t + Window, reason |-> input] \in ArmState
<1>1. t + Window \in Nat
  BY ProbeFacts
<1> QED
  BY <1>1 DEF Call, Arming, ArmState

LEMMA BeginType ==
  ASSUME Typed, NEW input \in Inputs
  PROVE  /\ Begin(input) \in Seq(Call) /\ Len(Begin(input)) = 1
         /\ Begin(input)[1] = [input |-> input, at |-> now, first |-> TRUE]
<1>1. [input |-> input, at |-> now, first |-> TRUE] \in Call
  BY Records DEF Typed
<1> QED
  BY <1>1 DEF Begin

\* One call is put before the others.
LEMMA PushType ==
  ASSUME NEW one \in Seq(Call), Len(one) = 1, NEW rest \in Seq(Call)
  PROVE  /\ one \o rest \in Seq(Call) /\ Len(one \o rest) = 1 + Len(rest)
         /\ (one \o rest)[1] = one[1]
         /\ \A i \in 1..Len(rest) : (one \o rest)[i + 1] = rest[i]
<1>1. Len(rest) \in Nat
  BY LenProperties
<1>2. \A i \in 1..Len(rest) : /\ i + 1 \in 1..Len(one) + Len(rest)
                             /\ ~(i + 1 <= Len(one)) /\ (i + 1) - Len(one) = i
  BY <1>1
<1>3. 1 \in 1..Len(one) + Len(rest)
  BY <1>1
<1> QED
  BY <1>1, <1>2, <1>3, ConcatProperties

LEMMA Shifted ==
  ASSUME NEW n \in Nat, NEW i \in 1..1 + n
  PROVE  i = 1 \/ \E j \in 1..n : i = j + 1
<1>1. i # 1 => i - 1 \in 1..n /\ i = (i - 1) + 1
  OBVIOUS
<1> QED
  BY <1>1

LEMMA InterruptedType ==
  ASSUME NEW calls \in Seq(Call)
  PROVE  /\ Interrupted(calls) \in Seq(Call)
         /\ Len(Interrupted(calls)) = Len(calls)
         /\ \A i \in 1..Len(calls) : Interrupted(calls)[i].first = FALSE
<1>1. Len(calls) \in Nat /\ DOMAIN calls = 1..Len(calls)
  BY LenProperties
<1>2. \A i \in 1..Len(calls) : calls[i] \in Call
  BY ElementOfSeq
<1>3. ASSUME NEW c \in Call
      PROVE  /\ [c EXCEPT !.first = FALSE] \in Call
             /\ [c EXCEPT !.first = FALSE].first = FALSE
  BY DEF Call
<1> DEFINE new == [i \in 1..Len(calls) |-> [calls[i] EXCEPT !.first = FALSE]]
<1>4. Interrupted(calls) = new
  BY <1>1 DEF Interrupted
<1>5. \A i \in 1..Len(calls) : new[i] \in Call /\ new[i].first = FALSE
  BY <1>2, <1>3
<1>6. new \in [1..Len(calls) -> Call]
  BY <1>5
<1> HIDE DEF new
<1>7. new \in Seq(Call) /\ Len(new) = Len(calls)
  BY <1>1, <1>6
<1> QED
  BY <1>4, <1>5, <1>7

\* The actor that is armed has the entry of its arming; the others keep theirs.
LEMMA ArmActorType ==
  ASSUME Typed, NEW a \in Actors, NEW input \in Inputs, ArmActor(a, input)
  PROVE  /\ armedActors' \in [Actors -> ArmState \cup {Nothing}]
         /\ arming' \in [Actors -> Arming \cup {Nothing}]
         /\ armedActors'[a] = [expiresAt |-> now + Window, reason |-> input]
         /\ arming'[a] = [at |-> now, reason |-> input]
         /\ \A b \in Actors \ {a} : /\ armedActors'[b] = armedActors[b]
                                    /\ arming'[b] = arming[b]
<1> DEFINE entry == [expiresAt |-> now + Window, reason |-> input]
           new == [at |-> now, reason |-> input]
<1>1. entry \in ArmState /\ new \in Arming
  BY Records DEF Typed
<1>2. /\ armedActors' = [armedActors EXCEPT ![a] = entry]
      /\ arming' = [arming EXCEPT ![a] = new]
  BY DEF ArmActor, Remember
<1>3. /\ armedActors \in [Actors -> ArmState \cup {Nothing}]
      /\ arming \in [Actors -> Arming \cup {Nothing}]
  BY DEF Typed
<1> HIDE DEF entry, new
<1>4. /\ armedActors' \in [Actors -> ArmState \cup {Nothing}]
      /\ armedActors'[a] = entry
      /\ \A b \in Actors \ {a} : armedActors'[b] = armedActors[b]
  BY ONLY <1>1, <1>2, <1>3, a \in Actors
<1>5. /\ arming' \in [Actors -> Arming \cup {Nothing}]
      /\ arming'[a] = new
      /\ \A b \in Actors \ {a} : arming'[b] = arming[b]
  BY ONLY <1>1, <1>2, <1>3, a \in Actors
<1> QED
  BY <1>4, <1>5 DEF entry, new

LEMMA ArmActorEntry ==
  ASSUME Typed, EntryInv, NEW a \in Actors, NEW input \in Inputs,
         ArmActor(a, input), now' = now
  PROVE  EntryInv'
<1>1. /\ armedActors'[a] = [expiresAt |-> now + Window, reason |-> input]
      /\ arming'[a] = [at |-> now, reason |-> input]
      /\ \A b \in Actors \ {a} : /\ armedActors'[b] = armedActors[b]
                                 /\ arming'[b] = arming[b]
  BY ArmActorType
<1>2. /\ [expiresAt |-> now + Window, reason |-> input] # Nothing
      /\ [at |-> now, reason |-> input] # Nothing
      /\ now \in Nat
  BY Records, ProbeFacts DEF Typed
<1> SUFFICES ASSUME NEW b \in Actors
             PROVE /\ armedActors'[b] # Nothing =>
                        /\ arming'[b] # Nothing
                        /\ armedActors'[b].expiresAt = arming'[b].at + Window
                        /\ armedActors'[b].reason = arming'[b].reason
                   /\ arming'[b] # Nothing =>
                        /\ arming'[b].at <= now'
                        /\ armedActors'[b] = Nothing =>
                             now' > arming'[b].at + Window
  BY DEF EntryInv
<1>3. CASE b = a
  BY <1>1, <1>2, <1>3
<1>4. CASE b # a
  BY <1>1, <1>4 DEF EntryInv
<1> QED
  BY <1>3, <1>4

-----------------------------------------------------------------------------
(* The steps.                                                               *)

LEMMA NotifyPlayerKeeps ==
  ASSUME ProbeInv, NEW input \in Inputs, NotifyPlayer(input)
  PROVE  ProbeInv'
<1> DEFINE calls == running[Player]
           new == running'[Player]
           Kept(call) == call.first /\ call.input \in Profiled =>
                           /\ arming'[Player] # Nothing
                           /\ arming'[Player].at = call.at
                           /\ arming'[Player].reason = call.input
<1>1. Typed /\ EntryInv /\ CallInv /\ calls \in Seq(Call) /\ Len(calls) \in Nat
  BY ProbeFacts, LenProperties DEF ProbeInv, Typed
<1>2. UNCHANGED <<now, last>>
  BY DEF NotifyPlayer
<1>3. SelectionsAreExplained' /\ ArmedBeforeInput'
  BY <1>2 DEF ProbeInv, SelectionsAreExplained, ArmedBeforeInput
<1> DEFINE Others == \A b \in Actors \ {Player} :
                       arming'[b] = arming[b] /\ running'[b] = running[b]
<1>6. ASSUME Others, CallsOf(Player)' PROVE CallInv'
  <2> SUFFICES ASSUME NEW b \in Actors, b # Player PROVE CallsOf(b)'
    BY <1>6 DEF CallInv
  <2>1. arming'[b] = arming[b] /\ running'[b] = running[b] /\ CallsOf(b)
    BY <1>1, <1>6 DEF CallInv
  <2> QED
    BY <2>1 DEF CallsOf, Uninterrupted
<1>4. CASE input \in Profiled
  <2>1. /\ ArmActor(Player, input)
        /\ running' = [running EXCEPT ![Player] = Begin(input) \o Interrupted(calls)]
    BY <1>4 DEF NotifyPlayer
  <2>2. /\ new = Begin(input) \o Interrupted(calls)
        /\ new \in Seq(Call) /\ Len(new) = 1 + Len(calls)
        /\ new[1] = [input |-> input, at |-> now, first |-> TRUE]
        /\ \A i \in 1..Len(calls) : new[i + 1].first = FALSE
    <3>1. new = Begin(input) \o Interrupted(calls)
      BY <1>1, <2>1, ProbeFacts DEF Typed
    <3>2. /\ Begin(input) \in Seq(Call) /\ Len(Begin(input)) = 1
          /\ Begin(input)[1] = [input |-> input, at |-> now, first |-> TRUE]
      BY <1>1, BeginType
    <3>3. /\ Interrupted(calls) \in Seq(Call)
          /\ Len(Interrupted(calls)) = Len(calls)
          /\ \A i \in 1..Len(calls) : Interrupted(calls)[i].first = FALSE
      BY <1>1, InterruptedType
    <3> HIDE DEF new, calls
    <3> QED
      <4>1. /\ new \in Seq(Call) /\ Len(new) = 1 + Len(Interrupted(calls))
            /\ new[1] = Begin(input)[1]
            /\ \A i \in 1..Len(Interrupted(calls)) :
                 new[i + 1] = Interrupted(calls)[i]
        BY ONLY <3>1, <3>2, <3>3, PushType
      <4> QED
        BY ONLY <3>1, <3>2, <3>3, <4>1
  <2>3. arming'[Player] = [at |-> now, reason |-> input]
    BY <1>1, <2>1, ArmActorType, ProbeFacts
  <2>4. CallInv'
    <3>1. arming'[Player] # Nothing
      BY <1>1, <2>3, Records, ProbeFacts DEF Typed
    <3>2. Kept(new[1])
      BY <2>2, <2>3, <3>1
    <3>3. \A i \in 1..Len(calls) : Kept(new[i + 1])
      BY <2>2
    <3> HIDE DEF new, calls, Kept
    <3>4. \A i \in 1..Len(new) : Kept(new[i])
      BY <1>1, <2>2, <3>2, <3>3, Shifted
    <3>5. CallsOf(Player)'
      BY <3>4 DEF CallsOf, Uninterrupted, Arms, new, Kept
    <3>6. Others
      BY <1>1, <2>1, ArmActorType, ProbeFacts DEF Typed
    <3> QED
      BY <1>6, <3>5, <3>6
  <2>5. Typed'
    <3>1. running' \in [Actors -> Seq(Call)]
      BY <1>1, <2>1, <2>2, ProbeFacts DEF Typed
    <3> QED
      BY <1>1, <1>2, <2>1, <3>1, ArmActorType, ProbeFacts DEF Typed
  <2>6. EntryInv'
    BY <1>1, <1>2, <2>1, ArmActorEntry, ProbeFacts
  <2> QED
    BY <1>3, <2>4, <2>5, <2>6 DEF ProbeInv
<1>5. CASE input \notin Profiled
  <2>1. /\ running' = [running EXCEPT ![Player] = Begin(input) \o calls]
        /\ UNCHANGED <<armedActors, arming>>
    BY <1>5 DEF NotifyPlayer
  <2>2. /\ new \in Seq(Call) /\ Len(new) = 1 + Len(calls)
        /\ new[1] = [input |-> input, at |-> now, first |-> TRUE]
        /\ \A i \in 1..Len(calls) : new[i + 1] = calls[i]
    <3>1. new = Begin(input) \o calls
      BY <1>1, <2>1, ProbeFacts DEF Typed
    <3>2. /\ Begin(input) \in Seq(Call) /\ Len(Begin(input)) = 1
          /\ Begin(input)[1] = [input |-> input, at |-> now, first |-> TRUE]
      BY <1>1, BeginType
    <3> HIDE DEF new, calls
    <3> QED
      BY ONLY <1>1, <3>1, <3>2, PushType
  <2>3. CallInv'
    <3>1. Kept(new[1])
      BY <1>5, <2>2
    <3>2. \A i \in 1..Len(calls) : Kept(new[i + 1])
      <4>1. CallsOf(Player)
        BY <1>1, ProbeFacts DEF CallInv
      <4> QED
        BY <2>1, <2>2, <4>1 DEF CallsOf, Uninterrupted, Arms
    <3> HIDE DEF new, calls, Kept
    <3>3. \A i \in 1..Len(new) : Kept(new[i])
      BY <1>1, <2>2, <3>1, <3>2, Shifted
    <3>4. CallsOf(Player)'
      BY <3>3 DEF CallsOf, Uninterrupted, Arms, new, Kept
    <3>5. Others
      BY <1>1, <2>1 DEF Typed
    <3> QED
      BY <1>6, <3>4, <3>5
  <2>4. Typed'
    <3>1. running' \in [Actors -> Seq(Call)]
      BY <1>1, <2>1, <2>2, ProbeFacts DEF Typed
    <3> QED
      BY <1>1, <1>2, <2>1, <3>1 DEF Typed
  <2>5. EntryInv'
    BY <1>1, <1>2, <2>1 DEF EntryInv
  <2> QED
    BY <1>3, <2>3, <2>4, <2>5 DEF ProbeInv
<1> QED
  BY <1>4, <1>5

LEMMA ReplayKeeps ==
  ASSUME ProbeInv, NEW p \in Proxies, NEW input \in Profiled,
         ReplayOnProxy(p, input)
  PROVE  ProbeInv'
<1>1. Typed /\ EntryInv /\ CallInv /\ p \in Actors /\ input \in Inputs /\ p # Player
  BY ProbeFacts DEF ProbeInv
<1>2. /\ UNCHANGED <<now, last>>
      /\ running' = [running EXCEPT ![p] = Begin(input)]
  BY DEF ReplayOnProxy
<1>3. SelectionsAreExplained' /\ ArmedBeforeInput'
  BY <1>2 DEF ProbeInv, SelectionsAreExplained, ArmedBeforeInput
<1>4. /\ running' \in [Actors -> Seq(Call)] /\ running'[p] = Begin(input)
      /\ \A b \in Actors \ {p} : running'[b] = running[b]
  BY <1>1, <1>2, BeginType DEF Typed
<1>7. /\ Len(running'[p]) = 1
      /\ running'[p][1] = [input |-> input, at |-> now, first |-> TRUE]
  BY <1>1, <1>4, BeginType
<1>8. ASSUME Uninterrupted(p, running[p][1])',
             \A b \in Actors \ {p} : arming'[b] = arming[b]
      PROVE  CallInv'
  <2>1. CallsOf(p)'
    BY <1>7, <1>8 DEF CallsOf
  <2>2. ASSUME NEW b \in Actors \ {p} PROVE CallsOf(b)'
    <3>1. running'[b] = running[b] /\ arming'[b] = arming[b] /\ CallsOf(b)
      BY <1>1, <1>4, <1>8, <2>2 DEF CallInv
    <3> QED
      BY <3>1 DEF CallsOf, Uninterrupted
  <2> QED
    BY <2>1, <2>2 DEF CallInv
<1>5. CASE input = Start /\ ArmActor(p, input)
  <2>1. Typed'
    BY <1>1, <1>2, <1>4, <1>5, ArmActorType DEF Typed
  <2>2. /\ arming'[p] = [at |-> now, reason |-> input] /\ arming'[p] # Nothing
        /\ \A b \in Actors \ {p} : arming'[b] = arming[b]
    <3>1. /\ arming'[p] = [at |-> now, reason |-> input]
          /\ \A b \in Actors \ {p} : arming'[b] = arming[b]
      BY <1>1, <1>5, ArmActorType
    <3>2. [at |-> now, reason |-> input] \in Arming
      BY <1>1, Records DEF Typed
    <3> QED
      BY <3>1, <3>2, ProbeFacts
  <2>3. EntryInv'
    BY <1>1, <1>2, <1>5, ArmActorEntry
  <2>4. CallInv'
    BY <1>7, <1>8, <2>2 DEF Uninterrupted
  <2> QED
    BY <1>3, <2>1, <2>3, <2>4 DEF ProbeInv
<1>6. CASE input # Start /\ UNCHANGED <<armedActors, arming>>
  <2>1. Typed' /\ EntryInv'
    BY <1>1, <1>2, <1>4, <1>6 DEF Typed, EntryInv
  <2>2. CallInv'
    BY <1>1, <1>6, <1>7, <1>8 DEF Uninterrupted, Arms
  <2> QED
    BY <1>3, <2>1, <2>2 DEF ProbeInv
<1> QED
  BY <1>5, <1>6 DEF ReplayOnProxy

LEMMA ReturnKeeps ==
  ASSUME ProbeInv, NEW a \in Actors, Return(a)
  PROVE  ProbeInv'
<1>1. Typed /\ EntryInv /\ CallInv /\ running[a] \in Seq(Call)
  BY DEF ProbeInv, Typed
<1>2. /\ UNCHANGED <<now, armedActors, arming, last>>
      /\ running[a] # << >>
      /\ running' = [running EXCEPT ![a] = Tail(running[a])]
  BY DEF Return
<1>3. /\ Tail(running[a]) \in Seq(Call)
      /\ Len(Tail(running[a])) = Len(running[a]) - 1 /\ Len(running[a]) \in Nat
      /\ \A i \in 1..Len(Tail(running[a])) : Tail(running[a])[i] = running[a][i + 1]
  BY <1>1, <1>2, HeadTailProperties, LenProperties
<1>4. Typed' /\ EntryInv'
  BY <1>1, <1>2, <1>3 DEF Typed, EntryInv
<1>5. CallInv'
  <2> SUFFICES ASSUME NEW b \in Actors PROVE CallsOf(b)'
    BY DEF CallInv
  <2>1. CASE b = a
    <3>1. running'[b] = Tail(running[a]) /\ CallsOf(b)
      BY <1>1, <1>2, <2>1 DEF Typed, CallInv
    <3>2. \A i \in 1..Len(Tail(running[a])) : i + 1 \in 1..Len(running[a])
      BY <1>3
    <3> QED
      BY <1>2, <1>3, <2>1, <3>1, <3>2 DEF CallsOf, Uninterrupted
  <2>2. CASE b # a
    <3>1. running'[b] = running[b] /\ CallsOf(b)
      BY <1>1, <1>2, <2>2 DEF Typed, CallInv
    <3> QED
      BY <1>2, <3>1 DEF CallsOf, Uninterrupted
  <2> QED
    BY <2>1, <2>2
<1>6. SelectionsAreExplained' /\ ArmedBeforeInput'
  BY <1>2 DEF ProbeInv, SelectionsAreExplained, ArmedBeforeInput
<1> QED
  BY <1>4, <1>5, <1>6 DEF ProbeInv

LEMMA ActivateKeeps ==
  ASSUME ProbeInv, NEW a \in Actors, HkbClipGeneratorActivate(a)
  PROVE  ProbeInv'
<1> DEFINE entry == armedActors[a]
           during == IF running[a] = << >> THEN Nothing ELSE Head(running[a])
<1>1. Typed /\ EntryInv /\ CallInv
  BY DEF ProbeInv
<1>2. /\ now \in Nat /\ now \in Times
      /\ entry \in ArmState \cup {Nothing}
      /\ arming[a] \in Arming \cup {Nothing}
      /\ during \in Call \cup {Nothing}
  <2>1. running[a] \in Seq(Call)
    BY <1>1 DEF Typed
  <2>2. during \in Call \cup {Nothing}
    BY <2>1, HeadTailProperties
  <2> QED
    BY <1>1, <2>2, ProbeFacts DEF Typed
<1>3. UNCHANGED <<now, running, arming>>
  BY DEF HkbClipGeneratorActivate
<1>4. PICK logged \in {entry.reason, Nothing} :
        /\ last' = [actor |-> a, at |-> now, after |-> arming[a],
                    logged |-> logged, during |-> during]
        /\ \/ /\ entry = Nothing /\ logged = Nothing
              /\ UNCHANGED armedActors
           \/ /\ entry # Nothing /\ now > entry.expiresAt /\ logged = Nothing
              /\ armedActors' = [armedActors EXCEPT ![a] = Nothing]
           \/ /\ entry # Nothing /\ now <= entry.expiresAt
              /\ logged = entry.reason
              /\ UNCHANGED armedActors
  BY DEF HkbClipGeneratorActivate, Seen
<1> HIDE DEF during
<1>5. logged = IF arming[a] # Nothing /\ now <= arming[a].at + Window
               THEN arming[a].reason ELSE Nothing
  <2>1. CASE entry = Nothing
    <3>1. arming[a] # Nothing => arming[a].at \in Nat /\ now > arming[a].at + Window
      BY <1>1, <1>2, <2>1, ProbeFacts DEF EntryInv, Arming
    <3> QED
      BY <1>2, <1>4, <2>1, <3>1, ProbeFacts
  <2>2. CASE entry # Nothing
    <3>1. /\ arming[a] # Nothing /\ arming[a].at \in Nat
          /\ entry.expiresAt = arming[a].at + Window
          /\ entry.reason = arming[a].reason
      BY <1>1, <1>2, <2>2, ProbeFacts DEF EntryInv, Arming
    <3> QED
      BY <1>2, <1>4, <2>2, <3>1, ProbeFacts
  <2> QED
    BY <2>1, <2>2
<1>6. logged \in Inputs \cup {Nothing}
  BY <1>2, <1>5 DEF Arming
<1>7. last' \in Activation /\ last'.actor = a /\ last'.at = now
      /\ last'.after = arming[a] /\ last'.logged = logged /\ last'.during = during
  BY <1>2, <1>4, <1>6 DEF Activation
<1>8. SelectionsAreExplained'
  BY <1>5, <1>7 DEF SelectionsAreExplained
<1>9. ArmedBeforeInput'
  <2> SUFFICES ASSUME during # Nothing, during.first,
                      Arms(a, during.input), now <= during.at + Window
               PROVE  logged = during.input
    BY <1>7 DEF ArmedBeforeInput
  <2>1. running[a] \in Seq(Call) /\ running[a] # << >>
        /\ during = running[a][1] /\ 1 \in 1..Len(running[a])
    BY <1>1, HeadTailProperties, LenProperties DEF during, Typed
  <2>2. /\ arming[a] # Nothing /\ arming[a].at = during.at
        /\ arming[a].reason = during.input
    BY <1>1, <2>1 DEF CallInv, CallsOf, Uninterrupted
  <2> QED
    BY <1>5, <2>2
<1>10. Typed'
  BY <1>1, <1>3, <1>4, <1>7 DEF Typed
<1>11. CallInv'
  BY <1>1, <1>3 DEF CallInv, CallsOf, Uninterrupted
<1>12. EntryInv'
  <2>1. CASE UNCHANGED armedActors
    BY <1>1, <1>3, <2>1 DEF EntryInv
  <2>2. CASE /\ entry # Nothing /\ now > entry.expiresAt
             /\ armedActors' = [armedActors EXCEPT ![a] = Nothing]
    <3>1. /\ armedActors'[a] = Nothing
          /\ \A b \in Actors \ {a} : armedActors'[b] = armedActors[b]
      BY <1>1, <2>2 DEF Typed
    <3>2. arming[a].at <= now /\ now > arming[a].at + Window
      BY <1>1, <2>2 DEF EntryInv
    <3> QED
      BY <1>1, <1>3, <3>1, <3>2 DEF EntryInv
  <2> QED
    BY <1>4, <2>1, <2>2
<1> QED
  BY <1>8, <1>9, <1>10, <1>11, <1>12 DEF ProbeInv

LEMMA TickKeeps == ProbeInv /\ Tick => ProbeInv'
<1> SUFFICES ASSUME ProbeInv, Tick PROVE ProbeInv'
  OBVIOUS
<1>1. Typed /\ EntryInv /\ CallInv
  BY DEF ProbeInv
<1>2. /\ now \in Nat /\ now' = now + 1 /\ now' \in Times
      /\ UNCHANGED <<armedActors, running, arming, last>>
  BY <1>1, ProbeFacts DEF Tick, Typed, Times
<1>3. Typed' /\ CallInv'
  BY <1>1, <1>2 DEF Typed, CallInv, CallsOf, Uninterrupted
<1>4. \A a \in Actors : arming[a] # Nothing => arming[a].at \in Nat
  BY <1>1, ProbeFacts DEF Typed, Arming
<1>5. EntryInv'
  BY <1>1, <1>2, <1>4, ProbeFacts DEF EntryInv
<1> QED
  BY <1>2, <1>3, <1>5
  DEF ProbeInv, SelectionsAreExplained, ArmedBeforeInput

LEMMA ProbeNext == ProbeInv /\ [Next]_vars => ProbeInv'
<1> SUFFICES ASSUME ProbeInv, [Next]_vars PROVE ProbeInv'
  OBVIOUS
<1>1. CASE UNCHANGED vars
  BY <1>1 DEF vars, ProbeInv, Typed, EntryInv, CallInv, CallsOf,
              Uninterrupted,              SelectionsAreExplained, ArmedBeforeInput
<1> QED
  BY <1>1, NotifyPlayerKeeps, ReplayKeeps, ReturnKeeps, ActivateKeeps, TickKeeps
  DEF Next

LEMMA ProbeInvariant == Spec => []ProbeInv
<1>1. Init => ProbeInv
  <2> SUFFICES ASSUME Init PROVE ProbeInv
    OBVIOUS
  <2>1. Typed
    BY ProbeFacts, EmptySeq DEF Init, Typed, Times
  <2>2. \A a \in Actors : running[a] = << >>
    BY DEF Init
  <2>3. CallInv
    BY <2>2 DEF CallInv, CallsOf, Uninterrupted
  <2>4. EntryInv /\ SelectionsAreExplained /\ ArmedBeforeInput
    BY DEF Init, EntryInv, SelectionsAreExplained, ArmedBeforeInput
  <2> QED
    BY <2>1, <2>3, <2>4 DEF ProbeInv
<1> QED
  BY <1>1, ProbeNext, PTL DEF Spec

-----------------------------------------------------------------------------
(* The theorems.                                                            *)

\* The probe's state is well-formed, and no window ends later than its length
\* from now.
THEOREM TypeCorrect == Spec => []TypeOK
<1>1. ProbeInv => TypeOK
  <2> SUFFICES ASSUME ProbeInv, NEW a \in Actors, armedActors[a] # Nothing
               PROVE  armedActors[a].expiresAt <= now + Window
    BY DEF ProbeInv, Typed, TypeOK
  <2>1. arming[a] \in Arming /\ now \in Nat
    BY ProbeFacts DEF ProbeInv, EntryInv, Typed
  <2>2. arming[a].at \in Nat
    BY <2>1, ProbeFacts DEF Arming
  <2> QED
    BY <2>1, <2>2, ProbeFacts DEF ProbeInv, EntryInv
<1> QED
  BY <1>1, ProbeInvariant, PTL

\* Every ClipSelection line is due to the latest arming of its actor, and no
\* clip activated within the window of an arming goes unlogged.
THEOREM SelectionsExplained == Spec => []SelectionsAreExplained
  BY ProbeInvariant, PTL DEF ProbeInv

\* What an input that arms its actor selects at once is logged under it, on the
\* player and on every proxy.
THEOREM InputArmedFirst == Spec => []ArmedBeforeInput
  BY ProbeInvariant, PTL DEF ProbeInv

=============================================================================
