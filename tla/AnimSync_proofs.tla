-------------------------- MODULE AnimSync_proofs --------------------------
(***************************************************************************)
(* Theorems about AnimSync for every set of peers, profile, tolerance and   *)
(* bound on the packets in flight.                                          *)
(***************************************************************************)
EXTENDS AnimSync, SequenceTheorems, TLAPS

-----------------------------------------------------------------------------
(* Type correctness. *)

\* What SyncAssumption says of each constant, for the steps that need it.
LEMMA LocalValuesType == LocalValues \in [Names -> SUBSET GraphValue]
  BY SyncAssumption

LEMMA GPMANames == AnimType \in Names /\ OffsetType \in Names
  BY SyncAssumption

LEMMA SyncedEventsType == SyncedEvents \subseteq Events
  BY SyncAssumption

LEMMA WireType ==
  NameOnWire \in [Names -> Names] /\ TagOnWire \in [Events -> Events]
  BY SyncAssumption

\* No longer name is cut down to OffsetGPMA.
LEMMA StartOnWire == \A e \in Events : TagOnWire[e] = Start => e = Start
  BY SyncAssumption

LEMMA RuleType == \A i \in 1..Len(Rules) : Rules[i] \in Rule
  BY SyncAssumption, ElementOfSeq DEF Rule

\* A broadcast of a well-formed packet leaves every channel well-formed.
LEMMA BroadcastType ==
  ASSUME TypeOK, NEW packet \in SyncPacket, Broadcast(packet)
  PROVE  inbox' \in [Peers -> Seq(SyncPacket)]
  BY AppendProperties DEF TypeOK, Broadcast

\* The changes the actions make to the hook, and to a proxy.
LEMMA IdleHookType == IdleHook \in Hook
<1>1. Absent \in GraphValue
  BY DEF GraphValue
<1> QED
  BY <1>1 DEF IdleHook, Hook, NoGraph

LEMMA EnterType ==
  ASSUME TypeOK, NEW e \in Events, EnterHook(e)
  PROVE  hook' \in Hook /\ outer' \in Seq(Suspended)
<1>1. hook' \in Hook
  BY IdleHookType DEF TypeOK, EnterHook, Hook
<1>2. CASE hook.pc = "idle"
  BY <1>1, <1>2 DEF TypeOK, EnterHook
<1>3. CASE hook.pc = "original"
  <2>1. << hook >> \in Seq(Suspended) /\ outer \in Seq(Suspended)
    BY <1>3 DEF TypeOK, Suspended
  <2>2. << hook >> \o outer \in Seq(Suspended)
    BY <2>1, ConcatProperties
  <2> QED
    BY <1>1, <1>3, <2>2 DEF EnterHook
<1> QED
  BY <1>1, <1>2, <1>3 DEF EnterHook, TypeOK, Hook

\* An activation that returns gives way to one that was suspended.
LEMMA LeaveType ==
  ASSUME TypeOK, LeaveHook
  PROVE  hook' \in Hook /\ outer' \in Seq(Suspended)
<1>1. CASE outer = << >>
  BY <1>1, IdleHookType DEF TypeOK, LeaveHook
<1>2. CASE outer # << >>
  <2>1. Head(outer) \in Suspended /\ Tail(outer) \in Seq(Suspended)
    BY <1>2, HeadTailProperties DEF TypeOK
  <2> QED
    BY <1>2, <2>1 DEF LeaveHook, Suspended
<1> QED
  BY <1>1, <1>2

\* Sending a variable anew changes what the outer activations have lost only.
LEMMA SentAgainType ==
  ASSUME outer \in Seq(Suspended), NEW n \in Names, SentAgain(n)
  PROVE  /\ outer' \in Seq(Suspended) /\ Len(outer') = Len(outer)
         /\ \A i \in 1..Len(outer) :
              /\ outer[i] \in Suspended
              /\ outer'[i] = [outer[i] EXCEPT !.lost = @ \cup {n}]
<1>1. Len(outer) \in Nat /\ DOMAIN outer = 1..Len(outer)
  BY LenProperties
<1>2. \A i \in 1..Len(outer) : outer[i] \in Suspended
  BY ElementOfSeq
<1>3. ASSUME NEW h \in Suspended
      PROVE  [h EXCEPT !.lost = @ \cup {n}] \in Suspended
  <2>1. h.lost \cup {n} \in SUBSET Names
    BY DEF Suspended, Hook
  <2> QED
    BY <2>1 DEF Suspended, Hook
<1> DEFINE new == [i \in 1..Len(outer) |-> [outer[i] EXCEPT !.lost = @ \cup {n}]]
<1>4. outer' = new
  BY <1>1 DEF SentAgain
<1>5. \A i \in 1..Len(outer) :
        new[i] = [outer[i] EXCEPT !.lost = @ \cup {n}] /\ new[i] \in Suspended
  BY <1>2, <1>3
<1>6. new \in [1..Len(outer) -> Suspended]
  BY <1>5
<1> HIDE DEF new
<1>7. new \in Seq(Suspended) /\ Len(new) = Len(outer)
  BY <1>1, <1>6
<1> QED
  BY <1>2, <1>4, <1>5, <1>7

LEMMA NextRuleType ==
  ASSUME hook \in Hook, hook' = [hook EXCEPT !.next = @ + 1]
  PROVE  hook' \in Hook
  BY DEF Hook

LEMMA LostRuleType ==
  ASSUME hook \in Hook, NEW n \in Names,
         hook' = [hook EXCEPT !.next = @ + 1, !.lost = @ \cup {n}]
  PROVE  hook' \in Hook
<1>1. hook.next + 1 \in Nat /\ hook.lost \cup {n} \in SUBSET Names
  BY DEF Hook
<1> QED
  BY <1>1 DEF Hook

LEMMA VariableSetType ==
  ASSUME TypeOK, NEW p \in Peers, NEW m \in VariablePacket
  PROVE  [proxy EXCEPT ![p][m.name] = m.value] \in [Peers -> [Names -> Int]]
  BY DEF TypeOK, VariablePacket

LEMMA EmbeddedType ==
  ASSUME NEW m \in EventPacket, NEW vals \in [Names -> Int]
  PROVE  Embedded(m, vals) \in [Names -> Int]
  BY DEF Embedded, Readable

LEMMA ResetType ==
  ASSUME NEW vals \in [Names -> Int], NEW x \in Int
  PROVE  [vals EXCEPT ![AnimType] = x] \in [Names -> Int]
  OBVIOUS

LEMMA ReplayedProxyType ==
  ASSUME TypeOK, NEW p \in Peers, NEW m \in EventPacket, ReplayEvent(p, m)
  PROVE  proxy' \in [Peers -> [Names -> Int]]
<1> DEFINE vals == Embedded(m, proxy[p])
           reset == [vals EXCEPT ![AnimType] = 0]
<1>1. vals \in [Names -> Int]
  BY EmbeddedType DEF TypeOK
<1>2. reset \in [Names -> Int]
  BY <1>1, ResetType
<1>3. \E x \in {vals, reset} : proxy' = [proxy EXCEPT ![p] = x]
  BY DEF ReplayEvent
<1>4. \E x \in [Names -> Int] : proxy' = [proxy EXCEPT ![p] = x]
  BY <1>1, <1>2, <1>3
<1> QED
  BY <1>4 DEF TypeOK

LEMMA HeadType ==
  ASSUME TypeOK, NEW p \in Peers, tasks[p] # << >>
  PROVE  /\ Head(tasks[p]) \in SyncPacket
         /\ Tail(tasks[p]) \in Seq(SyncPacket)
  BY HeadTailProperties DEF TypeOK

LEMMA InitType == Init => TypeOK
  BY DEF Init, TypeOK, NoGraph, NothingSent, IdleHook, Fresh, Hook, GraphValue

LEMMA NextType == TypeOK /\ [Next]_vars => TypeOK'
<1> SUFFICES ASSUME TypeOK, [Next]_vars PROVE TypeOK'
  OBVIOUS
<1> USE DEF TypeOK, senderVars, peerVars, Quiet
<1>1. CASE \E n \in Names : SetLocalVariable(n)
  <2>1. graph' \in [Names -> GraphValue]
    BY <1>1, LocalValuesType DEF SetLocalVariable
  <2>2. hook' \in Hook
    BY <1>1 DEF SetLocalVariable
  <2> QED
    BY <1>1, <2>1, <2>2 DEF SetLocalVariable
<1>2. CASE \E e \in Events : EnterHook(e)
  BY <1>2, EnterType DEF EnterHook
<1>3. CASE CaptureRule
  <2> DEFINE rule == Rules[hook.next]
  <2>0. rule \in Rule
    BY <1>3, RuleType DEF CaptureRule
  <2>1. CASE SkipRule(rule)
    BY <1>3, <2>1, NextRuleType DEF CaptureRule, SkipRule
  <2>2. CASE SendRule(rule)
    <3>1. [kind |-> "variable", name |-> NameOnWire[rule.name],
           type |-> rule.type, value |-> graph[rule.name]] \in SyncPacket
      BY <2>0, <2>2, WireType
      DEF SendRule, Sends, Readable, SyncPacket, VariablePacket, Rule
    <3>2. inbox' \in [Peers -> Seq(SyncPacket)]
      BY <2>2, <3>1, BroadcastType DEF SendRule
    <3>3. lastValues' \in [Names -> Int \cup {Unset}]
      BY <2>0, <2>2 DEF SendRule, Sends, Readable, Rule
    <3>4. hook' \in Hook
      BY <2>2, NextRuleType DEF SendRule
    <3>5. outer' \in Seq(Suspended)
      BY <2>0, <2>2, SentAgainType DEF SendRule, Rule
    <3> QED
      BY <1>3, <3>2, <3>3, <3>4, <3>5 DEF CaptureRule
  <2>3. CASE LoseRule(rule)
    <3>1. hook' \in Hook
      BY <2>0, <2>3, LostRuleType DEF LoseRule, Rule
    <3> QED
      BY <1>3, <2>3, <3>1 DEF CaptureRule, LoseRule
  <2> QED
    BY <1>3, <2>1, <2>2, <2>3 DEF CaptureRule
<1>4. CASE CallOriginal
  BY <1>4, GPMANames DEF CallOriginal, Hook
<1>5. CASE ReturnAndSend
  <2>1. EventSent \in SyncPacket
    BY <1>5, SyncedEventsType, WireType
    DEF ReturnAndSend, EventSent, SyncPacket, EventPacket, Capture, Hook
  <2>2. inbox' \in [Peers -> Seq(SyncPacket)]
    BY <1>5, <2>1, BroadcastType DEF ReturnAndSend
  <2> QED
    BY <1>5, <2>2, LeaveType DEF ReturnAndSend
<1>6. CASE \E accepted \in BOOLEAN : ReturnSilently(accepted)
  BY <1>6, LeaveType DEF ReturnSilently
<1>7. CASE Reset
  BY <1>7 DEF Reset, NothingSent
<1>8. ASSUME NEW p \in Peers, Receiver(p) PROVE TypeOK'
  <2>1. CASE OnSyncMessage(p)
    <3>1. /\ Head(inbox[p]) \in SyncPacket
          /\ Tail(inbox[p]) \in Seq(SyncPacket)
      BY <2>1, HeadTailProperties DEF OnSyncMessage
    <3> QED
      BY <2>1, <3>1, AppendProperties DEF OnSyncMessage
  <2>2. CASE ApplyGraphVariableMessage(p)
    <3>1. /\ Head(tasks[p]) \in VariablePacket
          /\ Tail(tasks[p]) \in Seq(SyncPacket)
      BY <2>2, HeadType
      DEF ApplyGraphVariableMessage, RunTask, SyncPacket, EventPacket
    <3>2. proxy' \in [Peers -> [Names -> Int]]
      <4> DEFINE m == Head(tasks[p])
      <4>1. \/ proxy' = [proxy EXCEPT ![p][m.name] = m.value]
            \/ proxy' = proxy
        BY <2>2 DEF ApplyGraphVariableMessage
      <4>2. [proxy EXCEPT ![p][m.name] = m.value] \in [Peers -> [Names -> Int]]
        BY <3>1, VariableSetType
      <4> QED
        BY <4>1, <4>2
    <3>3. oarSeen' \in [Peers -> [Names -> Int]]
      <4>1. proxy'[p] \in [Names -> Int]
        BY <3>2
      <4> QED
        BY <2>2, <4>1 DEF ApplyGraphVariableMessage, ClearConditionStateData
    <3> QED
      BY <2>2, <3>1, <3>2, <3>3 DEF ApplyGraphVariableMessage, RunTask
  <2>3. CASE ApplyAnimationMessage(p)
    <3> DEFINE m == Head(tasks[p])
    <3>1. m \in EventPacket /\ Tail(tasks[p]) \in Seq(SyncPacket)
      BY <2>3, HeadType
      DEF ApplyAnimationMessage, RunTask, SyncPacket, VariablePacket
    <3>2. Embedded(m, proxy[p]) \in [Names -> Int]
      BY <3>1, EmbeddedType
    <3>3. CASE ReplayEvent(p, m)
      <4>1. replay' \in Replay
        BY <3>1, <3>2, <3>3 DEF ReplayEvent, Replay, EventPacket
      <4>2. proxy' \in [Peers -> [Names -> Int]]
        BY <3>1, <3>3, ReplayedProxyType
      <4>3. oarSeen' \in [Peers -> [Names -> Int]]
        BY <3>2, <3>3 DEF ReplayEvent, ClearConditionStateData
      <4>4. stopDue' \in [Peers -> BOOLEAN]
        BY <3>3 DEF ReplayEvent, IsHelmetInput
      <4> QED
        BY <2>3, <3>1, <4>1, <4>2, <4>3, <4>4
        DEF ApplyAnimationMessage, RunTask
    <3> QED
      BY <2>3, <3>1, <3>3
      DEF ApplyAnimationMessage, RunTask, ClearConditionStateData
  <2>4. CASE ProxyStopOutput(p)
    BY <2>4, GPMANames DEF ProxyStopOutput
  <2> QED
    BY <1>8, <2>1, <2>2, <2>3, <2>4 DEF Receiver
<1>9. ASSUME NEW p \in Peers, Churn(p) PROVE TypeOK'
  <2>1. CASE Join(p)
    BY <2>1 DEF Join
  <2>2. CASE Leave(p)
    BY <2>2 DEF Leave
  <2>3. CASE ResolverChanges(p)
    BY <2>3 DEF ResolverChanges
  <2>4. CASE BodyChanges(p)
    BY <2>4 DEF BodyChanges, Fresh
  <2> QED
    BY <1>9, <2>1, <2>2, <2>3, <2>4 DEF Churn
<1>10. CASE UNCHANGED vars
  BY <1>10 DEF vars
<1> QED
  BY <1>1, <1>2, <1>3, <1>4, <1>5, <1>6, <1>7, <1>8, <1>9, <1>10
  DEF Next, StableNext, Sender

\* Every reachable state is well-formed, whatever the peers do: every packet
\* on a channel or in a task carries a finite value of a named variable, and
\* a proxy never holds anything else.
THEOREM TypeCorrect == Spec => []TypeOK
<1>1. Init => TypeOK
  BY InitType
<1>2. TypeOK /\ [Next]_vars => TypeOK'
  BY NextType
<1> QED
  BY <1>1, <1>2, PTL DEF Spec

-----------------------------------------------------------------------------
(* The embedded GPMA state, whatever the peers and the transport do. *)

\* An OffsetGPMA packet embeds what the local graph held at hook entry.
EmbedsCapture(m) ==
  m.kind = "event" /\ m.tag = Start =>
    m.animType = m.at.seen[AnimType] /\ m.offsetType = m.at.seen[OffsetType]
GoodPacket == {m \in SyncPacket : EmbedsCapture(m)}

\* The hook reads the state it embeds before the original handler can change
\* the graph.
EmbedsSeen(h) ==
  h.pc = "original" /\ h.event = Start =>
    h.animType = h.seen[AnimType] /\ h.offsetType = h.seen[OffsetType]

HookEmbedsCapture ==
  /\ hook.pc = "capture" => hook.seen = graph
  /\ EmbedsSeen(hook)
  /\ \A i \in 1..Len(outer) : EmbedsSeen(outer[i])

EmbeddedInv ==
  /\ TypeOK
  /\ HookEmbedsCapture
  /\ inbox \in [Peers -> Seq(GoodPacket)]
  /\ tasks \in [Peers -> Seq(GoodPacket)]
  /\ GPMAStateAtReplay

LEMMA EmbeddedStateIsSet ==
  ASSUME NEW m \in EventPacket, NEW vals \in [Names -> Int], m.tag = Start
  PROVE  /\ Readable(m.animType) => Embedded(m, vals)[AnimType] = m.animType
         /\ Readable(m.offsetType) =>
              Embedded(m, vals)[OffsetType] = m.offsetType
  BY GPMANames DEF Embedded, AnimType, OffsetType

LEMMA BroadcastGood ==
  ASSUME inbox \in [Peers -> Seq(GoodPacket)], NEW m \in GoodPacket,
         Broadcast(m)
  PROVE  inbox' \in [Peers -> Seq(GoodPacket)]
  BY AppendProperties DEF Broadcast

LEMMA EmbeddedNext == EmbeddedInv /\ [Next]_vars => EmbeddedInv'
<1> SUFFICES ASSUME EmbeddedInv, [Next]_vars PROVE EmbeddedInv'
  OBVIOUS
<1>1. TypeOK /\ TypeOK' /\ HookEmbedsCapture /\ GPMAStateAtReplay
  BY NextType DEF EmbeddedInv
<1>2. /\ inbox \in [Peers -> Seq(GoodPacket)]
      /\ tasks \in [Peers -> Seq(GoodPacket)]
  BY DEF EmbeddedInv
<1>3. ASSUME UNCHANGED <<inbox, tasks>>, HookEmbedsCapture',
             Quiet \/ UNCHANGED replay
      PROVE  EmbeddedInv'
  <2>1. GPMAStateAtReplay'
    BY <1>1, <1>3 DEF GPMAStateAtReplay, Quiet
  <2> QED
    BY <1>1, <1>2, <1>3, <2>1 DEF EmbeddedInv
<1>4. ASSUME UNCHANGED <<graph, hook, outer>> PROVE HookEmbedsCapture'
  BY <1>1, <1>4 DEF HookEmbedsCapture, EmbedsSeen
<1>5. ASSUME NEW n \in Names, SetLocalVariable(n) PROVE EmbeddedInv'
  <2>1. HookEmbedsCapture'
    BY <1>1, <1>5 DEF SetLocalVariable, HookEmbedsCapture, EmbedsSeen
  <2> QED
    BY <1>3, <1>5, <2>1 DEF SetLocalVariable
<1>6. ASSUME NEW e \in Events, EnterHook(e) PROVE EmbeddedInv'
  <2>1. /\ hook'.pc = "capture" /\ hook'.seen = graph' /\ EmbedsSeen(hook')
    BY <1>6 DEF EnterHook, IdleHook, EmbedsSeen
  <2>2. \A i \in 1..Len(outer') : EmbedsSeen(outer'[i])
    <3>1. CASE outer' = outer
      BY <1>1, <3>1 DEF HookEmbedsCapture, EmbedsSeen
    <3>2. CASE outer' = << hook >> \o outer
      <4>1. /\ Len(outer') = Len(outer) + 1 /\ outer'[1] = hook
            /\ \A i \in 2..Len(outer') : outer'[i] = outer[i-1]
            /\ Len(outer) \in Nat
        BY <1>1, <3>2 DEF TypeOK
      <4> QED
        BY <1>1, <4>1 DEF HookEmbedsCapture
    <3> QED
      BY <1>6, <3>1, <3>2 DEF EnterHook
  <2>3. HookEmbedsCapture'
    BY <2>1, <2>2 DEF HookEmbedsCapture, EmbedsSeen
  <2> QED
    BY <1>3, <1>6, <2>3 DEF EnterHook
<1>7. ASSUME CaptureRule PROVE EmbeddedInv'
  <2> DEFINE rule == Rules[hook.next]
  <2>1. /\ hook'.pc = "capture" /\ hook'.seen = hook.seen /\ graph' = graph
        /\ hook.pc = "capture" /\ UNCHANGED tasks /\ Quiet
    BY <1>1, <1>7
    DEF CaptureRule, SkipRule, SendRule, LoseRule, TypeOK, Hook
  <2>0. \A i \in 1..Len(outer') : EmbedsSeen(outer'[i])
    <3>1. CASE SendRule(rule)
      <4>1. rule.name \in Names /\ outer \in Seq(Suspended)
        BY <1>1, <1>7, RuleType DEF CaptureRule, Rule, TypeOK
      <4>2. /\ Len(outer') = Len(outer)
            /\ \A i \in 1..Len(outer) :
                 /\ outer[i] \in Suspended
                 /\ outer'[i] = [outer[i] EXCEPT !.lost = @ \cup {rule.name}]
        BY <3>1, <4>1, SentAgainType DEF SendRule
      <4> HIDE DEF rule
      <4>3. ASSUME NEW i \in 1..Len(outer) PROVE EmbedsSeen(outer'[i])
        BY <1>1, <4>2 DEF HookEmbedsCapture, EmbedsSeen, Suspended, Hook
      <4> QED
        BY <4>2, <4>3
    <3>2. CASE outer' = outer
      BY <1>1, <3>2 DEF HookEmbedsCapture, EmbedsSeen
    <3> QED
      BY <1>7, <3>1, <3>2 DEF CaptureRule, SkipRule, LoseRule
  <2>2. HookEmbedsCapture'
    BY <1>1, <2>0, <2>1 DEF HookEmbedsCapture, EmbedsSeen
  <2>3. CASE SendRule(rule)
    <3> DEFINE m == [kind |-> "variable", name |-> NameOnWire[rule.name],
                     type |-> rule.type, value |-> graph[rule.name]]
    <3>1. m \in GoodPacket
      BY <1>7, <2>3, RuleType, WireType
      DEF CaptureRule, SendRule, Sends, Readable, Rule, GoodPacket,
          EmbedsCapture, SyncPacket, VariablePacket
    <3>2. inbox' \in [Peers -> Seq(GoodPacket)]
      BY <1>2, <2>3, <3>1, BroadcastGood DEF SendRule
    <3>3. GPMAStateAtReplay'
      BY <2>1 DEF GPMAStateAtReplay, Quiet
    <3> QED
      BY <1>1, <1>2, <2>1, <2>2, <3>2, <3>3 DEF EmbeddedInv
  <2>4. CASE SkipRule(rule) \/ LoseRule(rule)
    BY <1>3, <2>1, <2>2, <2>4 DEF SkipRule, LoseRule
  <2> QED
    BY <1>7, <2>3, <2>4 DEF CaptureRule
<1>8. ASSUME CallOriginal PROVE EmbeddedInv'
  <2>1. /\ hook'.pc = "original" /\ hook'.event = hook.event
        /\ hook'.seen = hook.seen /\ hook.seen = graph
        /\ hook.event = Start => /\ hook'.animType = graph[AnimType]
                                 /\ hook'.offsetType = graph[OffsetType]
    BY <1>1, <1>8
    DEF CallOriginal, HookEmbedsCapture, IsHelmetInput, TypeOK, Hook
  <2>2. UNCHANGED outer
    BY <1>8 DEF CallOriginal
  <2>3. HookEmbedsCapture'
    BY <1>1, <2>1, <2>2 DEF HookEmbedsCapture, EmbedsSeen
  <2> QED
    BY <1>3, <1>8, <2>3 DEF CallOriginal
<1>9. ASSUME LeaveHook PROVE HookEmbedsCapture'
  <2>1. CASE outer = << >>
    BY <1>1, <1>9, <2>1 DEF LeaveHook, HookEmbedsCapture, EmbedsSeen, IdleHook
  <2>2. CASE outer # << >>
    <3> hook' = Head(outer) /\ outer' = Tail(outer)
      BY <1>9, <2>2 DEF LeaveHook
    <3> outer \in Seq(Suspended)
      BY <1>1 DEF TypeOK
    <3>1. /\ hook' = outer[1] /\ outer[1] \in Suspended
          /\ Len(outer) \in Nat /\ 1 \in 1..Len(outer)
          /\ Len(outer') = Len(outer) - 1
          /\ \A i \in 1..Len(outer') : outer'[i] = outer[i+1] /\ i+1 \in 1..Len(outer)
      BY <2>2
    <3>2. EmbedsSeen(hook') /\ hook'.pc # "capture"
      BY <1>1, <3>1 DEF HookEmbedsCapture, Suspended
    <3>3. \A i \in 1..Len(outer') : EmbedsSeen(outer'[i])
      BY <1>1, <3>1 DEF HookEmbedsCapture
    <3> QED
      BY <3>2, <3>3 DEF HookEmbedsCapture, EmbedsSeen
  <2> QED
    BY <2>1, <2>2
<1>10. ASSUME ReturnAndSend PROVE EmbeddedInv'
  <2>1. EventSent \in SyncPacket
    BY <1>1, <1>10, SyncedEventsType, WireType
    DEF ReturnAndSend, EventSent, SyncPacket, EventPacket, Capture, Hook, TypeOK
  <2>2. EventSent \in GoodPacket
    BY <1>1, <1>10, <2>1, SyncedEventsType, StartOnWire
    DEF ReturnAndSend, EventSent, GoodPacket, EmbedsCapture, HookEmbedsCapture,
        EmbedsSeen
  <2>3. inbox' \in [Peers -> Seq(GoodPacket)]
    BY <1>2, <1>10, <2>2, BroadcastGood DEF ReturnAndSend
  <2>4. HookEmbedsCapture' /\ UNCHANGED tasks
    BY <1>9, <1>10 DEF ReturnAndSend
  <2>5. GPMAStateAtReplay'
    BY <1>10 DEF ReturnAndSend, GPMAStateAtReplay, Quiet
  <2> QED
    BY <1>1, <1>2, <2>3, <2>4, <2>5 DEF EmbeddedInv
<1>11. ASSUME NEW accepted \in BOOLEAN, ReturnSilently(accepted)
       PROVE  EmbeddedInv'
  BY <1>3, <1>9, <1>11 DEF ReturnSilently
<1>12. ASSUME Reset PROVE EmbeddedInv'
  BY <1>3, <1>4, <1>12 DEF Reset
<1>13. ASSUME NEW p \in Peers, OnSyncMessage(p) PROVE EmbeddedInv'
  <2>1. /\ Head(inbox[p]) \in GoodPacket
        /\ Tail(inbox[p]) \in Seq(GoodPacket)
    BY <1>2, <1>13, HeadTailProperties DEF OnSyncMessage
  <2>2. /\ inbox' \in [Peers -> Seq(GoodPacket)]
        /\ tasks' \in [Peers -> Seq(GoodPacket)]
    BY <1>2, <1>13, <2>1, AppendProperties DEF OnSyncMessage
  <2>3. HookEmbedsCapture' /\ GPMAStateAtReplay'
    BY <1>4, <1>13 DEF OnSyncMessage, senderVars, GPMAStateAtReplay, Quiet
  <2> QED
    BY <1>1, <2>2, <2>3 DEF EmbeddedInv
<1>14. ASSUME NEW p \in Peers, NEW kind, RunTask(p, kind), GPMAStateAtReplay'
       PROVE  EmbeddedInv'
  <2>1. Tail(tasks[p]) \in Seq(GoodPacket)
    BY <1>2, <1>14, HeadTailProperties DEF RunTask
  <2>2. /\ inbox' \in [Peers -> Seq(GoodPacket)]
        /\ tasks' \in [Peers -> Seq(GoodPacket)]
    BY <1>2, <1>14, <2>1 DEF RunTask
  <2> QED
    BY <1>1, <1>4, <1>14, <2>2 DEF EmbeddedInv, RunTask, senderVars
<1>15. ASSUME NEW p \in Peers, ApplyGraphVariableMessage(p) PROVE EmbeddedInv'
  BY <1>14, <1>15 DEF ApplyGraphVariableMessage, GPMAStateAtReplay, Quiet
<1>16. ASSUME NEW p \in Peers, ApplyAnimationMessage(p) PROVE EmbeddedInv'
  <2> DEFINE m == Head(tasks[p])
  <2>1. m \in GoodPacket /\ m \in EventPacket /\ RunTask(p, "event")
    <3>1. m \in GoodPacket /\ RunTask(p, "event") /\ m.kind = "event"
      BY <1>2, <1>16, HeadTailProperties DEF ApplyAnimationMessage, RunTask
    <3> QED
      BY <3>1 DEF GoodPacket, SyncPacket, VariablePacket
  <2>2. CASE ReplayEvent(p, m)
    <3>1. replay' = [to |-> p, tag |-> m.tag, vals |-> Embedded(m, proxy[p]),
                     at |-> m.at]
      BY <2>2 DEF ReplayEvent
    <3>2. proxy[p] \in [Names -> Int]
      BY <1>1 DEF TypeOK
    <3>3. ASSUME m.tag = Start, NEW n \in {AnimType, OffsetType},
                 Readable(m.at.seen[n])
          PROVE  Embedded(m, proxy[p])[n] = m.at.seen[n]
      <4>1. /\ m.animType = m.at.seen[AnimType]
            /\ m.offsetType = m.at.seen[OffsetType]
        BY <2>1, <3>3 DEF GoodPacket, EmbedsCapture, EventPacket
      <4>2. /\ Readable(m.animType) =>
                 Embedded(m, proxy[p])[AnimType] = m.animType
            /\ Readable(m.offsetType) =>
                 Embedded(m, proxy[p])[OffsetType] = m.offsetType
        BY <2>1, <3>2, <3>3, EmbeddedStateIsSet
      <4>3. CASE n = AnimType
        BY <3>3, <4>1, <4>2, <4>3
      <4>4. CASE n = OffsetType
        BY <3>3, <4>1, <4>2, <4>4
      <4> QED
        BY <3>3, <4>3, <4>4
    <3>4. GPMAStateAtReplay'
      BY <3>1, <3>3 DEF GPMAStateAtReplay
    <3> QED
      BY <1>14, <2>1, <3>4
  <2>3. CASE Quiet
    BY <1>14, <2>1, <2>3 DEF GPMAStateAtReplay, Quiet
  <2> QED
    BY <1>16, <2>2, <2>3 DEF ApplyAnimationMessage
<1>17. ASSUME NEW p \in Peers, ProxyStopOutput(p) PROVE EmbeddedInv'
  BY <1>3, <1>4, <1>17 DEF ProxyStopOutput, senderVars
<1>18. ASSUME NEW p \in Peers, Leave(p) PROVE EmbeddedInv'
  <2>1. inbox' \in [Peers -> Seq(GoodPacket)]
    BY <1>2, <1>18 DEF Leave
  <2>2. HookEmbedsCapture' /\ GPMAStateAtReplay' /\ UNCHANGED tasks
    BY <1>4, <1>18 DEF Leave, senderVars, GPMAStateAtReplay, Quiet
  <2> QED
    BY <1>1, <1>2, <2>1, <2>2 DEF EmbeddedInv
<1>19. ASSUME NEW p \in Peers, Join(p) \/ ResolverChanges(p) \/ BodyChanges(p)
       PROVE  EmbeddedInv'
  BY <1>3, <1>4, <1>19 DEF Join, ResolverChanges, BodyChanges, senderVars
<1>20. CASE UNCHANGED vars
  BY <1>3, <1>4, <1>20 DEF vars, senderVars
<1> QED
  BY <1>5, <1>6, <1>7, <1>8, <1>10, <1>11, <1>12, <1>13, <1>15, <1>16, <1>17,
     <1>18, <1>19, <1>20 DEF Next, StableNext, Sender, Receiver, Churn

\* Whatever was lost, refused, reset or missed before, and whoever comes and
\* goes, an OffsetGPMA is replayed under the GPMA state of its capture.
THEOREM GPMAStateFaithful == Spec => []GPMAStateAtReplay
<1>1. Init => EmbeddedInv
  <2> SUFFICES ASSUME Init PROVE EmbeddedInv
    OBVIOUS
  <2>1. TypeOK /\ HookEmbedsCapture /\ GPMAStateAtReplay
    BY InitType
    DEF Init, HookEmbedsCapture, EmbedsSeen, GPMAStateAtReplay, IdleHook
  <2> QED
    BY <2>1 DEF Init, EmbeddedInv
<1>2. EmbeddedInv /\ [Next]_vars => EmbeddedInv'
  BY EmbeddedNext
<1>3. EmbeddedInv => GPMAStateAtReplay
  BY DEF EmbeddedInv
<1> QED
  BY <1>1, <1>2, <1>3, PTL DEF Spec

-----------------------------------------------------------------------------
(* OAR has seen what the network brought. *)

\* Only an animation type may be newer than what OAR has seen: the two local
\* resets of it (STRPMClient.cpp:451, AnimationProbe.cpp:253) clear nothing.
OARAgrees ==
  \A p \in WithOAR : \A n \in Names \ {AnimType} : oarSeen[p][n] = proxy[p][n]

LEMMA OARPeers == WithOAR \subseteq Peers
  BY SyncAssumption

\* What a clear does to the proxy it is about, and to the others.
LEMMA ClearSees ==
  ASSUME TypeOK, NEW p \in Peers, NEW vals, ClearConditionStateData(p, vals)
  PROVE  /\ p \in WithOAR => oarSeen'[p] = vals
         /\ \A r \in Peers \ {p} : oarSeen'[r] = oarSeen[r]
  BY DEF TypeOK, ClearConditionStateData

\* What a step that concerns one proxy has to show.
LEMMA OneProxyAgrees ==
  ASSUME OARAgrees, NEW p \in Peers,
         \A r \in Peers \ {p} : oarSeen'[r] = oarSeen[r] /\ proxy'[r] = proxy[r],
         p \in WithOAR =>
           \A n \in Names \ {AnimType} : oarSeen'[p][n] = proxy'[p][n]
  PROVE  OARAgrees'
  BY OARPeers DEF OARAgrees

\* The reset of the animation type leaves every other variable alone.
LEMMA ResetElsewhere ==
  ASSUME NEW vals \in [Names -> Int], NEW n \in Names \ {AnimType}
  PROVE  [vals EXCEPT ![AnimType] = 0][n] = vals[n]
  OBVIOUS

LEMMA OARNext ==
  ASSUME TypeOK, OARAgrees, [Next]_vars
  PROVE  OARAgrees'
<1>1. CASE UNCHANGED <<oarSeen, proxy>>
  BY <1>1 DEF OARAgrees
<1>2. CASE Sender
  BY <1>1, <1>2 DEF Sender, SetLocalVariable, EnterHook, CaptureRule, CallOriginal,
                    ReturnAndSend, ReturnSilently, Reset, peerVars
<1>3. ASSUME NEW p \in Peers, OnSyncMessage(p) PROVE OARAgrees'
  BY <1>1, <1>3 DEF OnSyncMessage, peerVars
<1>4. ASSUME NEW p \in Peers, ApplyGraphVariableMessage(p) PROVE OARAgrees'
  <2> DEFINE m == Head(tasks[p])
  <2>1. CASE VariableApplies(p, m)
    <3>1. /\ proxy' = [proxy EXCEPT ![p][m.name] = m.value]
          /\ oarSeen' = IF p \in WithOAR THEN [oarSeen EXCEPT ![p] = proxy'[p]]
                                         ELSE oarSeen
      BY <1>4, <2>1 DEF ApplyGraphVariableMessage, ClearConditionStateData
    <3>2. \A r \in Peers \ {p} : oarSeen'[r] = oarSeen[r] /\ proxy'[r] = proxy[r]
      BY <3>1 DEF TypeOK
    <3>3. p \in WithOAR => oarSeen'[p] = proxy'[p]
      BY <3>1 DEF TypeOK
    <3> QED
      BY <3>2, <3>3, OneProxyAgrees
  <2>2. CASE ~VariableApplies(p, m)
    BY <1>1, <1>4, <2>2 DEF ApplyGraphVariableMessage
  <2> QED
    BY <2>1, <2>2
<1>5. ASSUME NEW p \in Peers, ApplyAnimationMessage(p) PROVE OARAgrees'
  <2> DEFINE m == Head(tasks[p])
             vals == Embedded(m, proxy[p])
             reset == [vals EXCEPT ![AnimType] = 0]
  <2>1. CASE ReplayEvent(p, m)
    <3>1. vals \in [Names -> Int]
      <4>1. m \in EventPacket
        BY <1>5, HeadType DEF ApplyAnimationMessage, RunTask, SyncPacket, VariablePacket
      <4>2. proxy[p] \in [Names -> Int]
        BY DEF TypeOK
      <4> QED
        BY <4>1, <4>2, EmbeddedType
    <3>2. \A n \in Names \ {AnimType} : reset[n] = vals[n]
      BY <3>1, ResetElsewhere
    <3>3. /\ ClearConditionStateData(p, vals)
          /\ proxy' = [proxy EXCEPT ![p] = IF m.tag = Stop THEN reset ELSE vals]
      BY <2>1 DEF ReplayEvent
    <3> HIDE DEF vals, reset
    <3>4. /\ p \in WithOAR => oarSeen'[p] = vals
          /\ \A r \in Peers \ {p} : oarSeen'[r] = oarSeen[r]
      BY <3>3, ClearSees
    <3>5. /\ \A r \in Peers \ {p} : proxy'[r] = proxy[r]
          /\ proxy'[p] = reset \/ proxy'[p] = vals
      BY <3>3 DEF TypeOK
    <3> QED
      BY <3>2, <3>4, <3>5, OneProxyAgrees
  <2>2. CASE ClearConditionStateData(p, proxy[p]) /\ UNCHANGED proxy
    <3>1. /\ p \in WithOAR => oarSeen'[p] = proxy[p]
          /\ \A r \in Peers \ {p} : oarSeen'[r] = oarSeen[r]
      BY <2>2, ClearSees
    <3> QED
      BY <2>2, <3>1, OneProxyAgrees
  <2> QED
    BY <1>1, <1>5, <2>1, <2>2 DEF ApplyAnimationMessage
<1>6. ASSUME NEW p \in Peers, ProxyStopOutput(p) PROVE OARAgrees'
  <2>1. oarSeen' = oarSeen /\ proxy' = [proxy EXCEPT ![p][AnimType] = 0]
    BY <1>6 DEF ProxyStopOutput
  <2>2. /\ \A r \in Peers \ {p} : proxy'[r] = proxy[r]
        /\ \A n \in Names \ {AnimType} : proxy'[p][n] = proxy[p][n]
    BY <2>1 DEF TypeOK
  <2> QED
    BY <2>1, <2>2, OneProxyAgrees DEF OARAgrees
<1>7. ASSUME NEW p \in Peers, Join(p) \/ Leave(p) \/ ResolverChanges(p)
      PROVE  OARAgrees'
  BY <1>1, <1>7 DEF Join, Leave, ResolverChanges, peerVars
<1>8. ASSUME NEW p \in Peers, BodyChanges(p) PROVE OARAgrees'
  <2>1. /\ oarSeen' = [oarSeen EXCEPT ![p] = Fresh]
        /\ proxy' = [proxy EXCEPT ![p] = Fresh]
    BY <1>8 DEF BodyChanges
  <2>2. /\ \A r \in Peers \ {p} : oarSeen'[r] = oarSeen[r] /\ proxy'[r] = proxy[r]
        /\ oarSeen'[p] = proxy'[p]
    BY <2>1 DEF TypeOK
  <2> QED
    BY <2>2, OneProxyAgrees
<1>9. CASE UNCHANGED vars
  BY <1>1, <1>9 DEF vars, peerVars
<1> QED
  BY <1>2, <1>3, <1>4, <1>5, <1>6, <1>7, <1>8, <1>9
  DEF Next, StableNext, Receiver, Churn

\* Whoever comes and goes, OAR has seen on every proxy what the network wrote.
LEMMA OARInvariant == Spec => []OARAgrees
<1>1. Init => OARAgrees
  BY OARPeers DEF Init, OARAgrees
<1>2. TypeOK /\ OARAgrees /\ [Next]_vars => OARAgrees'
  BY OARNext
<1> QED
  BY <1>1, <1>2, TypeCorrect, PTL DEF Spec

=============================================================================
