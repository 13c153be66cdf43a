------------------------ MODULE AnimSyncStable_proofs -----------------------
(***************************************************************************)
(* What the delta filter and the ordered channel promise while every proxy  *)
(* stays up (StableSpec), for every set of peers, profile and tolerance.    *)
(***************************************************************************)
EXTENDS AnimSync_proofs

-----------------------------------------------------------------------------
(* The inductive invariant of a session in which every proxy stays up. *)

\* A rejected packet never becomes a task.
OnlyAcceptedTasks == \A p \in Peers \ Accepting : tasks[p] = << >>

\* A variable packet was made from a rule of the sender.
FromRule(m) ==
  m.kind = "variable" =>
    \E i \in 1..Len(Rules) : /\ NameOnWire[Rules[i].name] = m.name
                              /\ Rules[i].type = m.type
FollowsRules(p) == \A k \in 1..Len(Pending(p)) : FromRule(Pending(p)[k])

\* CacheReachesProxy, for one peer.
CacheReaches(p) ==
  \A n \in TransportedVars(p) :
    lastValues[n] # Unset =>
      Carried(Pending(p), Len(Pending(p)), n, proxy[p][n], lastValues[n])

\* What the loop of a capture has established: a variable it has visited, and
\* neither lost nor sent again since, is remembered with a value close to the
\* one at hook entry.
Remembered(h, cache) ==
  \A i \in 1..Len(Rules) :
    LET n == Rules[i].name
    IN i < h.next /\ n \notin h.lost /\ Readable(h.seen[n]) =>
         cache[n] # Unset /\ Close(Rules[i].type, cache[n], h.seen[n])

\* This holds of the running activation and of those it was nested in.
CaptureSoFar ==
  /\ hook.pc = "capture" => hook.seen = graph
  /\ hook.pc = "original" => hook.next > Len(Rules)
  /\ hook.pc # "idle" => Remembered(hook, lastValues)
  /\ hook.pc = "idle" => outer = << >>
  /\ \A i \in 1..Len(outer) :
       outer[i].next > Len(Rules) /\ Remembered(outer[i], lastValues)

\* The packets ahead of an event bring each variable it captured and did not
\* lose to a value close to the captured one.
Prepared(q, k, n, before, seen) ==
  \E x \in Int : Carried(q, k, n, before, x) /\ Close(TypeOf(n), x, seen)
EventIsPrepared(p, k) ==
  LET m == Pending(p)[k]
  IN m.kind = "event" =>
       \A n \in TransportedVars(p) \ m.at.lost :
         Readable(m.at.seen[n]) =>
           Prepared(Pending(p), k-1, n, proxy[p][n], m.at.seen[n])
EventsArePrepared(p) == \A k \in 1..Len(Pending(p)) : EventIsPrepared(p, k)

PeerInv(p) == FollowsRules(p) /\ CacheReaches(p) /\ EventsArePrepared(p)

StableInv ==
  /\ TypeOK
  /\ AllPresent
  /\ OnlyAcceptedTasks
  /\ CaptureSoFar
  /\ \A p \in Accepting : PeerInv(p)

-----------------------------------------------------------------------------
(* A queue made of two sequences: its head and tail, and how it grows. *)

LEMMA TailConcat ==
  ASSUME NEW S, NEW s \in Seq(S), NEW t \in Seq(S), s # << >>
  PROVE  /\ s \o t # << >> /\ Head(s \o t) = Head(s)
         /\ Tail(s \o t) = Tail(s) \o t
  OBVIOUS

LEMMA ConcatAppend ==
  ASSUME NEW S, NEW s \in Seq(S), NEW t \in Seq(S), NEW m \in S
  PROVE  s \o Append(t, m) = Append(s \o t, m)
  OBVIOUS

LEMMA AppendHeadConcat ==
  ASSUME NEW S, NEW s \in Seq(S), NEW t \in Seq(S), t # << >>
  PROVE  Append(s, Head(t)) \o Tail(t) = s \o t
  OBVIOUS

-----------------------------------------------------------------------------
(* Carried, as packets join and leave a queue. *)

\* A packet that joins the queue changes nothing for those ahead of it.
LEMMA CarriedPrefix ==
  ASSUME NEW S, NEW q \in Seq(S), NEW m \in S, NEW k \in 0..Len(q),
         NEW n, NEW b, NEW x, Carried(q, k, n, b, x)
  PROVE  Carried(Append(q, m), k, n, b, x)
<1>1. \A i \in 1..k : Append(q, m)[i] = q[i]
  BY AppendProperties
<1> QED
  BY <1>1 DEF Carried

\* A packet about another variable does not change what the queue brings.
LEMMA CarriedAppendOther ==
  ASSUME NEW S, NEW q \in Seq(S), NEW m \in S, NEW n, NEW b, NEW x,
         Carried(q, Len(q), n, b, x), ~IsVariable(m, n)
  PROVE  Carried(Append(q, m), Len(Append(q, m)), n, b, x)
<1> DEFINE r == Append(q, m)
<1>1. /\ Len(r) = Len(q) + 1 /\ r[Len(q) + 1] = m
      /\ \A i \in 1..Len(q) : r[i] = q[i]
  BY AppendProperties
<1>2. Len(q) \in Nat
  BY LenProperties
<1> HIDE DEF r
<1>3. CASE b = x /\ \A i \in 1..Len(q) : ~IsVariable(q[i], n)
  <2>1. \A i \in 1..Len(r) : ~IsVariable(r[i], n)
    BY <1>1, <1>2, <1>3
  <2> QED
    BY <1>3, <2>1 DEF Carried, r
<1>4. CASE \E i \in 1..Len(q) : /\ IsVariable(q[i], n) /\ q[i].value = x
                                /\ \A j \in (i+1)..Len(q) : ~IsVariable(q[j], n)
  <2>1. PICK i \in 1..Len(q) : /\ IsVariable(q[i], n) /\ q[i].value = x
                               /\ \A j \in (i+1)..Len(q) : ~IsVariable(q[j], n)
    BY <1>4
  <2>2. i \in 1..Len(r) /\ IsVariable(r[i], n) /\ r[i].value = x
    BY <1>1, <1>2, <2>1
  <2>3. \A j \in (i+1)..Len(r) : ~IsVariable(r[j], n)
    BY <1>1, <1>2, <2>1
  <2> QED
    BY <2>2, <2>3 DEF Carried, r
<1> QED
  BY <1>3, <1>4 DEF Carried

\* A packet about the variable brings its own value.
LEMMA CarriedAppendSame ==
  ASSUME NEW S, NEW q \in Seq(S), NEW m \in S, NEW n, NEW b, IsVariable(m, n)
  PROVE  Carried(Append(q, m), Len(Append(q, m)), n, b, m.value)
<1> DEFINE r == Append(q, m)
<1>1. Len(r) = Len(q) + 1 /\ r[Len(r)] = m /\ Len(q) \in Nat
  BY AppendProperties, LenProperties
<1> HIDE DEF r
<1>2. /\ Len(r) \in 1..Len(r) /\ IsVariable(r[Len(r)], n)
      /\ r[Len(r)].value = m.value
      /\ \A j \in (Len(r)+1)..Len(r) : ~IsVariable(r[j], n)
  BY <1>1
<1> QED
  BY <1>2 DEF Carried, r

\* Applying the packet at the head of the queue leaves the rest to do.
LEMMA CarriedTail ==
  ASSUME NEW S, NEW q \in Seq(S), q # << >>, NEW k \in 1..Len(q),
         NEW n, NEW b, NEW x, Carried(q, k, n, b, x), NEW c,
         IsVariable(Head(q), n) => c = Head(q).value,
         ~IsVariable(Head(q), n) => c = b
  PROVE  Carried(Tail(q), k-1, n, c, x)
<1> DEFINE r == Tail(q)
<1>1. /\ Head(q) = q[1] /\ Len(r) = Len(q) - 1
      /\ \A i \in 1..Len(r) : r[i] = q[i+1]
  BY HeadTailProperties
<1>2. Len(q) \in Nat
  BY LenProperties
<1> HIDE DEF r
<1>3. CASE b = x /\ \A i \in 1..k : ~IsVariable(q[i], n)
  <2>1. c = x
    BY <1>1, <1>3
  <2>2. \A i \in 1..(k-1) : ~IsVariable(r[i], n)
    BY <1>1, <1>2, <1>3
  <2> QED
    BY <2>1, <2>2 DEF Carried, r
<1>4. ASSUME NEW i \in 1..k, IsVariable(q[i], n), q[i].value = x,
             \A j \in (i+1)..k : ~IsVariable(q[j], n)
      PROVE  Carried(Tail(q), k-1, n, c, x)
  <2>1. ASSUME NEW j \in i..(k-1) PROVE ~IsVariable(r[j], n)
    <3>1. j \in 1..Len(r) /\ j+1 \in (i+1)..k
      BY <1>1, <1>2
    <3> QED
      BY <1>1, <1>4, <3>1
  <2>2. CASE i = 1
    <3>0. q[i] = Head(q)
      BY <1>1, <2>2
    <3>1. IsVariable(Head(q), n) /\ Head(q).value = x
      BY <1>4, <3>0, Zenon
    <3>2. c = x
      BY <3>1
    <3>3. \A j \in 1..(k-1) : ~IsVariable(r[j], n)
      BY <2>1, <2>2
    <3> QED
      BY <3>2, <3>3 DEF Carried, r
  <2>3. CASE i > 1
    <3>1. i-1 \in 1..(k-1) /\ r[i-1] = q[i]
      BY <1>1, <1>2, <2>3
    <3>2. \A j \in ((i-1)+1)..(k-1) : ~IsVariable(r[j], n)
      BY <2>1
    <3> QED
      BY <1>4, <3>1, <3>2 DEF Carried, r
  <2> QED
    BY <2>2, <2>3
<1> QED
  BY <1>3, <1>4 DEF Carried

-----------------------------------------------------------------------------
(* How the queue of a peer moves. *)

LEMMA AcceptingPeers == \A p \in Accepting : p \in Peers
  BY SyncAssumption

LEMMA PendingType ==
  ASSUME TypeOK, NEW p \in Peers
  PROVE  /\ Pending(p) \in Seq(SyncPacket)
         /\ Len(Pending(p)) \in Nat
         /\ \A k \in 1..Len(Pending(p)) : Pending(p)[k] \in SyncPacket
<1>1. tasks[p] \in Seq(SyncPacket) /\ inbox[p] \in Seq(SyncPacket)
  BY DEF TypeOK
<1>2. Pending(p) \in Seq(SyncPacket)
  BY <1>1, ConcatProperties DEF Pending
<1> QED
  BY <1>2, ElementOfSeq, LenProperties

\* A channel only ever loses its head to the end of the task queue.
LEMMA PendingDelivered ==
  ASSUME TypeOK, NEW p \in Peers, OnSyncMessage(p), NEW q \in Accepting
  PROVE  Pending(q)' = Pending(q)
<1>1. q \in Peers
  BY AcceptingPeers
<1>2. CASE q # p
  BY <1>1, <1>2 DEF OnSyncMessage, Pending, TypeOK
<1>3. CASE q = p
  <2> DEFINE t == tasks[p]
             i == inbox[p]
  <2>1. t \in Seq(SyncPacket) /\ i \in Seq(SyncPacket) /\ i # << >>
    BY DEF TypeOK, OnSyncMessage
  <2>2. tasks'[p] = Append(t, Head(i)) /\ inbox'[p] = Tail(i)
    BY <1>3 DEF TypeOK, OnSyncMessage
  <2> HIDE DEF t, i
  <2>3. Append(t, Head(i)) \o Tail(i) = t \o i
    BY <2>1, AppendHeadConcat
  <2> QED
    BY <1>3, <2>2, <2>3 DEF Pending, t, i
<1> QED
  BY <1>2, <1>3

LEMMA PendingBroadcast ==
  ASSUME TypeOK, NEW m \in SyncPacket, Broadcast(m), UNCHANGED tasks,
         NEW p \in Peers, connected[p]
  PROVE  Pending(p)' = Append(Pending(p), m)
<1> DEFINE t == tasks[p]
           i == inbox[p]
<1>1. t \in Seq(SyncPacket) /\ i \in Seq(SyncPacket)
  BY DEF TypeOK
<1>2. inbox'[p] = Append(i, m) /\ tasks'[p] = t
  BY DEF Broadcast
<1> HIDE DEF t, i
<1>3. t \o Append(i, m) = Append(t \o i, m)
  BY <1>1, ConcatAppend
<1> QED
  BY <1>2, <1>3 DEF Pending, t, i

LEMMA PendingRun ==
  ASSUME TypeOK, NEW p \in Peers, NEW kind, RunTask(p, kind)
  PROVE  /\ Pending(p) # << >> /\ Head(Pending(p)) = Head(tasks[p])
         /\ Pending(p)' = Tail(Pending(p))
         /\ \A q \in Peers \ {p} : Pending(q)' = Pending(q)
<1>1. /\ tasks[p] \in Seq(SyncPacket) /\ inbox[p] \in Seq(SyncPacket)
      /\ tasks[p] # << >>
  BY DEF TypeOK, RunTask
<1>2. tasks'[p] = Tail(tasks[p]) /\ inbox'[p] = inbox[p]
  BY DEF TypeOK, RunTask
<1>3. ASSUME NEW q \in Peers \ {p} PROVE Pending(q)' = Pending(q)
  <2>1. tasks'[q] = tasks[q] /\ inbox'[q] = inbox[q]
    BY DEF TypeOK, RunTask
  <2> QED
    BY <2>1 DEF Pending
<1> QED
  BY <1>1, <1>2, <1>3, TailConcat DEF Pending

-----------------------------------------------------------------------------
(* How the steps of the session change the part of one peer. *)

LEMMA TransportedType ==
  ASSUME NEW p \in Peers, NEW n \in TransportedVars(p)
  PROVE  n \in Names /\ n # AnimType /\ n # OffsetType
  BY RuleType DEF TransportedVars, ProfiledVars, RuleNames, Rule

\* Nothing reaches the peer, and the cache is at most forgotten.
LEMMA StepUnchanged ==
  ASSUME NEW p \in Accepting, PeerInv(p), Pending(p)' = Pending(p),
         \A n \in TransportedVars(p) :
           /\ proxy'[p][n] = proxy[p][n]
           /\ lastValues'[n] \in {lastValues[n], Unset}
  PROVE  PeerInv(p)'
<1>1. FollowsRules(p)'
  BY DEF PeerInv, FollowsRules
<1>2. CacheReaches(p)'
  BY DEF PeerInv, CacheReaches
<1>3. ASSUME NEW k \in 1..Len(Pending(p)) PROVE EventIsPrepared(p, k)'
  <2>1. EventIsPrepared(p, k)
    BY DEF PeerInv, EventsArePrepared
  <2> QED
    BY <2>1 DEF EventIsPrepared
<1> QED
  BY <1>1, <1>2, <1>3 DEF PeerInv, EventsArePrepared

\* The channel of the peer takes one more packet.
LEMMA StepAppended ==
  ASSUME TypeOK, NEW p \in Accepting, PeerInv(p), NEW m \in SyncPacket,
         Pending(p)' = Append(Pending(p), m), UNCHANGED proxy, FromRule(m)
  PROVE  /\ FollowsRules(p)'
         /\ \A k \in 1..Len(Pending(p)) : EventIsPrepared(p, k)'
         /\ Len(Pending(p)') = Len(Pending(p)) + 1
         /\ Pending(p)'[Len(Pending(p)) + 1] = m
<1> DEFINE q == Pending(p)
<1>1. p \in Peers
  BY AcceptingPeers
<1>2. q \in Seq(SyncPacket) /\ Len(q) \in Nat
  BY <1>1, PendingType
<1>3. /\ Len(Append(q, m)) = Len(q) + 1 /\ Append(q, m)[Len(q) + 1] = m
      /\ \A i \in 1..Len(q) : Append(q, m)[i] = q[i]
  BY <1>2, AppendProperties
<1>4. FollowsRules(p)'
  BY <1>2, <1>3 DEF PeerInv, FollowsRules
<1>5. ASSUME NEW k \in 1..Len(q) PROVE EventIsPrepared(p, k)'
  <2>1. EventIsPrepared(p, k) /\ Pending(p)'[k] = q[k] /\ k-1 \in 0..Len(q)
    BY <1>2, <1>3 DEF PeerInv, EventsArePrepared
  <2>2. ASSUME NEW n, NEW seen, Prepared(q, k-1, n, proxy[p][n], seen)
        PROVE  Prepared(Append(q, m), k-1, n, proxy[p][n], seen)
    <3>1. PICK x \in Int : /\ Carried(q, k-1, n, proxy[p][n], x)
                           /\ Close(TypeOf(n), x, seen)
      BY <2>2 DEF Prepared
    <3>2. Carried(Append(q, m), k-1, n, proxy[p][n], x)
      BY <1>2, <2>1, <3>1, CarriedPrefix
    <3> QED
      BY <3>1, <3>2 DEF Prepared
  <2> QED
    BY <2>1, <2>2 DEF EventIsPrepared
<1> QED
  BY <1>3, <1>4, <1>5

\* The peer applies the packet at the head of its queue.
LEMMA StepRun ==
  ASSUME TypeOK, NEW p \in Accepting, PeerInv(p), Pending(p) # << >>,
         Pending(p)' = Tail(Pending(p)), UNCHANGED lastValues,
         \A n \in TransportedVars(p) :
           proxy'[p][n] = IF IsVariable(Head(Pending(p)), n)
                          THEN Head(Pending(p)).value ELSE proxy[p][n]
  PROVE  PeerInv(p)'
<1> DEFINE q == Pending(p)
           r == Tail(q)
<1>1. p \in Peers
  BY AcceptingPeers
<1>2. q \in Seq(SyncPacket) /\ Len(q) \in Nat
  BY <1>1, PendingType
<1>3. /\ Len(r) = Len(q) - 1 /\ Len(q) \in 1..Len(q)
      /\ \A i \in 1..Len(r) : r[i] = q[i+1] /\ i+1 \in 1..Len(q)
  BY <1>2, HeadTailProperties
<1>4. ASSUME NEW n \in TransportedVars(p), NEW k \in 1..Len(q), NEW x,
             Carried(q, k, n, proxy[p][n], x)
      PROVE  Carried(r, k-1, n, proxy'[p][n], x)
  BY <1>2, <1>4, CarriedTail
<1>5. FollowsRules(p)'
  BY <1>3 DEF PeerInv, FollowsRules
<1>6. CacheReaches(p)'
  BY <1>3, <1>4 DEF PeerInv, CacheReaches
<1>7. ASSUME NEW k \in 1..Len(r) PROVE EventIsPrepared(p, k)'
  <2>1. EventIsPrepared(p, k+1) /\ r[k] = q[k+1] /\ (k+1)-1 = k
        /\ (r[k].kind = "event" => k \in 1..Len(q))
    BY <1>2, <1>3 DEF PeerInv, EventsArePrepared
  <2>2. ASSUME NEW n \in TransportedVars(p), NEW seen,
               Prepared(q, k, n, proxy[p][n], seen)
        PROVE  Prepared(r, k-1, n, proxy'[p][n], seen)
    <3>1. PICK x \in Int : /\ Carried(q, k, n, proxy[p][n], x)
                           /\ Close(TypeOf(n), x, seen)
      BY <2>2 DEF Prepared
    <3>2. Carried(r, k-1, n, proxy'[p][n], x)
      BY <1>2, <1>3, <1>4, <3>1
    <3> QED
      BY <3>1, <3>2 DEF Prepared
  <2> QED
    BY <2>1, <2>2 DEF EventIsPrepared
<1> QED
  BY <1>5, <1>6, <1>7 DEF PeerInv, EventsArePrepared

-----------------------------------------------------------------------------
(* The capture keeps the invariant. *)

LEMMA RuleNamesDiffer ==
  \A i, j \in 1..Len(Rules) : Rules[i].name = Rules[j].name => i = j
  BY SyncAssumption

LEMMA TypeOfRule == \A i \in 1..Len(Rules) : TypeOf(Rules[i].name) = Rules[i].type
  BY RuleNamesDiffer DEF TypeOf

LEMMA CloseToItself == \A type : \A x \in Int : Close(type, x, x)
  BY DeltaAssumption DEF Close

LEMMA StableConnected ==
  ASSUME AllPresent, NEW p \in Accepting
  PROVE  p \in Peers /\ connected[p] /\ resolved[p] /\ body[p] = "ready"
  BY AcceptingPeers DEF AllPresent

\* A rule that was skipped was already remembered with a close value.
LEMMA SkipKeepsCapture ==
  ASSUME StableInv, hook.pc = "capture", hook.next \in 1..Len(Rules),
         SkipRule(Rules[hook.next]), UNCHANGED graph
  PROVE  CaptureSoFar'
<1> USE DEF StableInv, CaptureSoFar
<1>1. /\ hook'.pc = hook.pc /\ hook'.seen = hook.seen /\ hook'.lost = hook.lost
      /\ hook'.next = hook.next + 1 /\ hook.seen = graph
      /\ hook.next \in Nat /\ lastValues' = lastValues
  BY DEF SkipRule, TypeOK, Hook
<1>2. ASSUME NEW i \in 1..Len(Rules), i < hook'.next,
             Rules[i].name \notin hook.lost,
             Readable(hook.seen[Rules[i].name])
      PROVE  /\ lastValues[Rules[i].name] # Unset
             /\ Close(Rules[i].type, lastValues[Rules[i].name],
                      hook.seen[Rules[i].name])
  <2>1. CASE i < hook.next
    BY <1>1, <1>2, <2>1 DEF Remembered
  <2>2. CASE i = hook.next
    BY <1>1, <1>2, <2>2 DEF SkipRule, Sends, HasChanged
  <2> QED
    BY <1>1, <1>2, <2>1, <2>2
<1>3. Remembered(hook', lastValues')
  BY <1>1, <1>2 DEF Remembered
<1> QED
  BY <1>1, <1>3 DEF SkipRule

LEMMA LostMore ==
  ASSUME NEW h \in Suspended, NEW n, NEW g, g = [h EXCEPT !.lost = @ \cup {n}]
  PROVE  g.next = h.next /\ g.seen = h.seen /\ g.lost = h.lost \cup {n}
  BY DEF Suspended, Hook

\* A rule that was sent is remembered with the captured value itself.
LEMMA SendKeepsCapture ==
  ASSUME StableInv, hook.pc = "capture", hook.next \in 1..Len(Rules),
         SendRule(Rules[hook.next]), UNCHANGED graph
  PROVE  CaptureSoFar'
<1> USE DEF StableInv, CaptureSoFar
<1> DEFINE name == Rules[hook.next].name
<1>1. /\ hook'.pc = hook.pc /\ hook'.seen = hook.seen /\ hook'.lost = hook.lost
      /\ hook'.next = hook.next + 1 /\ hook.seen = graph /\ hook.next \in Nat
  BY DEF SendRule, TypeOK, Hook
<1>2. /\ name \in Names /\ graph[name] \in Int
      /\ lastValues' = [lastValues EXCEPT ![name] = graph[name]]
  BY RuleType DEF SendRule, Sends, Readable, Rule
<1>3. ASSUME NEW i \in 1..Len(Rules), i < hook'.next,
             Rules[i].name \notin hook.lost,
             Readable(hook.seen[Rules[i].name])
      PROVE  /\ lastValues'[Rules[i].name] # Unset
             /\ Close(Rules[i].type, lastValues'[Rules[i].name],
                      hook.seen[Rules[i].name])
  <2>1. CASE i < hook.next
    <3>1. Rules[i].name # name
      BY <2>1, RuleNamesDiffer
    <3>2. lastValues'[Rules[i].name] = lastValues[Rules[i].name]
      BY <1>2, <3>1, RuleType DEF TypeOK, Rule
    <3> QED
      BY <1>1, <1>3, <2>1, <3>2 DEF Remembered
  <2>2. CASE i = hook.next
    <3>1. lastValues'[name] = graph[name]
      BY <1>2 DEF TypeOK
    <3> QED
      BY <1>1, <1>2, <2>2, <3>1, CloseToItself, DeltaAssumption
  <2> QED
    BY <1>1, <1>3, <2>1, <2>2
<1>4. Remembered(hook', lastValues')
  BY <1>1, <1>3 DEF Remembered
<1>5. /\ outer \in Seq(Suspended) /\ Len(outer') = Len(outer)
      /\ \A i \in 1..Len(outer) :
           /\ outer[i] \in Suspended
           /\ outer'[i] = [outer[i] EXCEPT !.lost = @ \cup {name}]
  BY <1>2, SentAgainType DEF SendRule, TypeOK
<1>6. ASSUME NEW i \in 1..Len(outer')
      PROVE  outer'[i].next > Len(Rules) /\ Remembered(outer'[i], lastValues')
  <2>1. /\ outer[i].next > Len(Rules) /\ Remembered(outer[i], lastValues)
        /\ outer'[i].next = outer[i].next /\ outer'[i].seen = outer[i].seen
        /\ outer'[i].lost = outer[i].lost \cup {name}
    <3>1. i \in 1..Len(outer)
      BY <1>5, <1>6
    <3>2. /\ outer[i] \in Suspended
          /\ outer'[i] = [outer[i] EXCEPT !.lost = @ \cup {name}]
      BY <1>5, <3>1
    <3>3. outer[i].next > Len(Rules) /\ Remembered(outer[i], lastValues)
      BY <3>1
    <3> HIDE DEF name, StableInv, CaptureSoFar
    <3>4. /\ outer'[i].next = outer[i].next /\ outer'[i].seen = outer[i].seen
          /\ outer'[i].lost = outer[i].lost \cup {name}
      BY ONLY <3>2, LostMore
    <3> QED
      BY <3>3, <3>4
  <2>2. \A j \in 1..Len(Rules) :
          Rules[j].name # name =>
            lastValues'[Rules[j].name] = lastValues[Rules[j].name]
    BY <1>2, RuleType DEF TypeOK, Rule
  <2> QED
    BY <2>1, <2>2 DEF Remembered
<1> QED
  BY <1>1, <1>4, <1>6

\* A rule whose packet was refused is excused.
LEMMA LoseKeepsCapture ==
  ASSUME StableInv, hook.pc = "capture", hook.next \in 1..Len(Rules),
         LoseRule(Rules[hook.next]), UNCHANGED graph
  PROVE  CaptureSoFar'
<1> USE DEF StableInv, CaptureSoFar
<1>1. /\ hook'.pc = hook.pc /\ hook'.seen = hook.seen
      /\ hook'.lost = hook.lost \cup {Rules[hook.next].name}
      /\ hook'.next = hook.next + 1 /\ hook.seen = graph
      /\ hook.next \in Nat /\ lastValues' = lastValues /\ outer' = outer
  BY DEF LoseRule, TypeOK, Hook
<1>2. Remembered(hook', lastValues')
  BY <1>1 DEF Remembered
<1> QED
  BY <1>1, <1>2

\* The packet of a rule brings the value that is remembered with it.
LEMMA SendKeepsPeers ==
  ASSUME StableInv, hook.next \in 1..Len(Rules), SendRule(Rules[hook.next]),
         UNCHANGED <<tasks, proxy>>, NEW p \in Accepting
  PROVE  PeerInv(p)'
<1> DEFINE rule == Rules[hook.next]
           m == [kind |-> "variable", name |-> NameOnWire[rule.name],
                 type |-> rule.type, value |-> graph[rule.name]]
           q == Pending(p)
<1>1. rule \in Rule
  BY RuleType
<1>2. m \in SyncPacket
  BY <1>1, WireType
  DEF SendRule, Sends, Readable, SyncPacket, VariablePacket, Rule
<1>3. FromRule(m)
  BY DEF FromRule
<1>4. PeerInv(p) /\ TypeOK /\ p \in Peers /\ connected[p]
  BY StableConnected DEF StableInv
<1>5. Pending(p)' = Append(q, m)
  BY <1>2, <1>4, PendingBroadcast DEF SendRule
<1>6. /\ lastValues' = [lastValues EXCEPT ![rule.name] = graph[rule.name]]
      /\ rule.name \in Names
  BY <1>1 DEF SendRule, Rule
<1>7. q \in Seq(SyncPacket) /\ Len(q) \in Nat
  BY <1>4, PendingType
<1>8. ASSUME NEW n \in TransportedVars(p), lastValues'[n] # Unset
      PROVE  Carried(Append(q, m), Len(Append(q, m)), n, proxy[p][n],
                     lastValues'[n])
  <2>0. n \in Names /\ (NameOnWire[rule.name] = n <=> rule.name = n)
    BY <1>4, TransportedType DEF TransportedVars, RuleNames
  <2>1. CASE n = rule.name
    <3>1. IsVariable(m, n) /\ m.value = lastValues'[n]
      BY <1>4, <1>6, <2>0, <2>1 DEF IsVariable, TypeOK
    <3> HIDE DEF m
    <3> QED
      BY <1>2, <1>7, <3>1, CarriedAppendSame
  <2>2. CASE n # rule.name
    <3>1. ~IsVariable(m, n) /\ lastValues'[n] = lastValues[n]
      BY <1>4, <1>6, <2>0, <2>2 DEF IsVariable, TypeOK
    <3>2. Carried(q, Len(q), n, proxy[p][n], lastValues[n])
      BY <1>4, <1>8, <3>1 DEF PeerInv, CacheReaches
    <3> HIDE DEF m
    <3> QED
      BY <1>2, <1>7, <3>1, <3>2, CarriedAppendOther
  <2> QED
    BY <2>1, <2>2
<1>9. m.kind = "variable"
  OBVIOUS
<1> HIDE DEF m
<1>10. /\ FollowsRules(p)'
       /\ \A k \in 1..Len(q) : EventIsPrepared(p, k)'
       /\ Len(Pending(p)') = Len(q) + 1 /\ Pending(p)'[Len(q) + 1] = m
  BY <1>2, <1>3, <1>4, <1>5, StepAppended
<1>11. CacheReaches(p)'
  BY <1>5, <1>8 DEF CacheReaches
<1>12. ASSUME NEW k \in 1..Len(Pending(p)') PROVE EventIsPrepared(p, k)'
  <2>1. CASE k \in 1..Len(q)
    BY <1>10, <2>1
  <2>2. CASE Pending(p)'[k] = m
    BY <1>9, <2>2 DEF EventIsPrepared
  <2> QED
    BY <1>7, <1>10, <2>1, <2>2
<1> QED
  BY <1>10, <1>11, <1>12 DEF PeerInv, EventsArePrepared

\* An event is sent when every variable it captured is remembered, so the
\* packets ahead of it bring each proxy to the captured state.
LEMMA EventKeepsPeers ==
  ASSUME StableInv, ReturnAndSend, NEW p \in Accepting
  PROVE  PeerInv(p)'
<1> DEFINE q == Pending(p)
<1>1. PeerInv(p) /\ TypeOK /\ CaptureSoFar /\ p \in Peers /\ connected[p]
  BY StableConnected DEF StableInv
<1>2. EventSent \in SyncPacket
  BY <1>1, SyncedEventsType, WireType
  DEF ReturnAndSend, EventSent, SyncPacket, EventPacket, Capture, Hook, TypeOK
<1>3. /\ EventSent.kind = "event" /\ EventSent.at.seen = hook.seen
      /\ EventSent.at.lost = hook.lost
  BY DEF EventSent
<1>4. UNCHANGED <<lastValues, tasks, proxy>>
  BY DEF ReturnAndSend, peerVars
<1>5. Pending(p)' = Append(q, EventSent)
  BY <1>1, <1>2, <1>4, PendingBroadcast DEF ReturnAndSend
<1>6. q \in Seq(SyncPacket) /\ Len(q) \in Nat
  BY <1>1, PendingType
<1>7. \A n : ~IsVariable(EventSent, n)
  BY <1>3 DEF IsVariable
<1>8. FromRule(EventSent)
  BY <1>3 DEF FromRule
<1>9. ASSUME NEW n \in TransportedVars(p), lastValues[n] # Unset
      PROVE  /\ Carried(Append(q, EventSent), Len(Append(q, EventSent)), n,
                        proxy[p][n], lastValues[n])
             /\ Carried(Append(q, EventSent), Len(q), n,
                        proxy[p][n], lastValues[n])
  <2>1. Carried(q, Len(q), n, proxy[p][n], lastValues[n])
    BY <1>1, <1>9 DEF PeerInv, CacheReaches
  <2> QED
    BY <1>2, <1>6, <1>7, <2>1, CarriedAppendOther, CarriedPrefix
<1>10. CacheReaches(p)'
  BY <1>4, <1>5, <1>9 DEF CacheReaches
<1>11. ASSUME NEW n \in TransportedVars(p) \ hook.lost, Readable(hook.seen[n])
       PROVE  Prepared(Append(q, EventSent), Len(q), n, proxy[p][n],
                       hook.seen[n])
  <2>1. PICK i \in 1..Len(Rules) : Rules[i].name = n
    BY DEF TransportedVars, ProfiledVars, RuleNames
  <2>2. hook.pc = "original" /\ i < hook.next
    BY <1>1, <2>1 DEF ReturnAndSend, CaptureSoFar, TypeOK, Hook
  <2>3. lastValues[n] # Unset /\ Close(TypeOf(n), lastValues[n], hook.seen[n])
    BY <1>1, <1>11, <2>1, <2>2, TypeOfRule DEF CaptureSoFar, Remembered
  <2>4. lastValues[n] \in Int
    BY <1>1, <2>3, TransportedType DEF TypeOK
  <2> QED
    BY <1>9, <2>3, <2>4 DEF Prepared
<1>12. /\ FollowsRules(p)'
       /\ \A k \in 1..Len(q) : EventIsPrepared(p, k)'
       /\ Len(Pending(p)') = Len(q) + 1 /\ Pending(p)'[Len(q) + 1] = EventSent
  BY <1>1, <1>2, <1>4, <1>5, <1>8, StepAppended
<1>13. ASSUME NEW k \in 1..Len(Pending(p)') PROVE EventIsPrepared(p, k)'
  <2>1. CASE k \in 1..Len(q)
    BY <1>12, <2>1
  <2>2. CASE k = Len(q) + 1
    <3>1. k - 1 = Len(q) /\ Pending(p)'[k] = EventSent
      BY <1>6, <1>12, <2>2
    <3> QED
      BY <1>3, <1>4, <1>5, <1>11, <3>1 DEF EventIsPrepared
  <2> QED
    BY <1>6, <1>12, <2>1, <2>2
<1> QED
  BY <1>10, <1>12, <1>13 DEF PeerInv, EventsArePrepared

-----------------------------------------------------------------------------
(* Tasks keep the invariant. *)

LEMMA VariableTaskKeepsPeers ==
  ASSUME StableInv, NEW p \in Accepting, ApplyGraphVariableMessage(p)
  PROVE  PeerInv(p)'
<1> DEFINE q == Pending(p)
           m == Head(tasks[p])
<1>1. PeerInv(p) /\ TypeOK /\ p \in Peers /\ resolved[p] /\ body[p] = "ready"
  BY StableConnected DEF StableInv
<1>2. RunTask(p, "variable") /\ UNCHANGED lastValues
  BY DEF ApplyGraphVariableMessage, RunTask, senderVars
<1>3. q # << >> /\ Head(q) = m /\ Pending(p)' = Tail(q)
  BY <1>1, <1>2, PendingRun
<1>4. m \in VariablePacket
  BY <1>1, <1>2, HeadType DEF RunTask, SyncPacket, EventPacket
<1>5. FromRule(m)
  <2>1. q \in Seq(SyncPacket) /\ Len(q) \in Nat
    BY <1>1, PendingType
  <2>2. Head(q) = q[1] /\ 1 \in 1..Len(q)
    BY <1>3, <2>1
  <2> QED
    BY <1>1, <1>3, <2>2 DEF PeerInv, FollowsRules
<1>6. \E r \in RuleNames : NameOnWire[r] = m.name /\ TypeOf(r) = m.type
  BY <1>4, <1>5, TypeOfRule DEF FromRule, VariablePacket, RuleNames
<1>7. ASSUME NEW n \in TransportedVars(p)
      PROVE  proxy'[p][n] = IF IsVariable(Head(q), n)
                            THEN Head(q).value ELSE proxy[p][n]
  <2>0. n \in Names /\ m.kind = "variable" /\ m.name \in Names
    BY <1>1, <1>4, TransportedType DEF VariablePacket
  <2>1. CASE m.name = n
    <3>1. VariableApplies(p, m)
      BY <1>1, <1>6, <2>1 DEF VariableApplies, TransportedVars, ProfiledVars,
                              ShouldSyncGraphVariable
    <3>2. proxy' = [proxy EXCEPT ![p][m.name] = m.value]
      BY <3>1 DEF ApplyGraphVariableMessage
    <3>3. proxy'[p][n] = m.value
      BY <1>1, <2>0, <2>1, <3>2 DEF TypeOK
    <3> QED
      BY <1>3, <2>0, <2>1, <3>3 DEF IsVariable
  <2>2. CASE m.name # n
    <3>1. \/ proxy' = [proxy EXCEPT ![p][m.name] = m.value]
          \/ proxy' = proxy
      BY DEF ApplyGraphVariableMessage
    <3>2. proxy'[p][n] = proxy[p][n]
      BY <1>1, <2>0, <2>2, <3>1 DEF TypeOK
    <3> QED
      BY <1>3, <2>2, <3>2 DEF IsVariable
  <2> QED
    BY <2>1, <2>2
<1> QED
  BY <1>1, <1>2, <1>3, <1>7, StepRun

\* A task changes nothing of the other peers.
LEMMA OthersKeep ==
  ASSUME TypeOK, NEW p \in Peers, NEW kind, RunTask(p, kind),
         \A r \in Peers \ {p} : proxy'[r] = proxy[r],
         NEW q \in Accepting, q # p, PeerInv(q)
  PROVE  PeerInv(q)'
<1>1. q \in Peers \ {p}
  BY AcceptingPeers
<1>2. Pending(q)' = Pending(q)
  BY <1>1, PendingRun
<1>3. UNCHANGED lastValues /\ proxy'[q] = proxy[q]
  BY <1>1 DEF RunTask, senderVars
<1> QED
  BY <1>2, <1>3, StepUnchanged

\* The state embedded in an event, and the reset after a stop, are about the
\* GPMA variables only.
LEMMA EmbeddedElsewhere ==
  ASSUME NEW m, NEW vals \in [Names -> Int],
         NEW n \in Names \ {AnimType, OffsetType}
  PROVE  Embedded(m, vals)[n] = vals[n]
  BY DEF Embedded

LEMMA EventTaskProxy ==
  ASSUME TypeOK, NEW p \in Peers, ApplyAnimationMessage(p)
  PROVE  /\ \A n \in Names \ {AnimType, OffsetType} :
               proxy'[p][n] = proxy[p][n]
         /\ \A r \in Peers \ {p} : proxy'[r] = proxy[r]
<1> DEFINE m == Head(tasks[p])
           vals == Embedded(m, proxy[p])
           reset == [vals EXCEPT ![AnimType] = 0]
<1>1. m \in EventPacket /\ proxy[p] \in [Names -> Int]
  BY HeadType
  DEF ApplyAnimationMessage, RunTask, SyncPacket, VariablePacket, TypeOK
<1>2. vals \in [Names -> Int]
  BY <1>1, EmbeddedType
<1>3. \A n \in Names \ {AnimType, OffsetType} : vals[n] = proxy[p][n]
  BY <1>1, EmbeddedElsewhere
<1>4. \E x \in {vals, reset, proxy[p]} : proxy' = [proxy EXCEPT ![p] = x]
  <2>1. CASE ReplayEvent(p, m)
    BY <2>1 DEF ReplayEvent
  <2>2. CASE UNCHANGED proxy
    BY <2>2 DEF TypeOK
  <2> QED
    BY <2>1, <2>2 DEF ApplyAnimationMessage
<1> HIDE DEF vals
<1>5. \A n \in Names \ {AnimType, OffsetType} : reset[n] = vals[n]
  BY <1>2
<1> HIDE DEF reset
<1> QED
  BY <1>3, <1>4, <1>5 DEF TypeOK

LEMMA EventTaskKeepsPeers ==
  ASSUME StableInv, NEW p \in Accepting, ApplyAnimationMessage(p)
  PROVE  PeerInv(p)'
<1> DEFINE q == Pending(p)
<1>1. PeerInv(p) /\ TypeOK /\ p \in Peers
  BY StableConnected DEF StableInv
<1>2. RunTask(p, "event") /\ UNCHANGED lastValues
  BY DEF ApplyAnimationMessage, RunTask, senderVars
<1>3. q # << >> /\ Head(q) = Head(tasks[p]) /\ Pending(p)' = Tail(q)
  BY <1>1, <1>2, PendingRun
<1>4. \A n : ~IsVariable(Head(q), n)
  BY <1>2, <1>3 DEF RunTask, IsVariable
<1>5. \A n \in TransportedVars(p) : proxy'[p][n] = proxy[p][n]
  BY <1>1, EventTaskProxy, TransportedType
<1> QED
  BY <1>1, <1>2, <1>3, <1>4, <1>5, StepRun

-----------------------------------------------------------------------------
(* The session. *)

LEMMA StableInit0 == StableInit => StableInv
<1> SUFFICES ASSUME StableInit PROVE StableInv
  OBVIOUS
<1>1. TypeOK
  BY InitType DEF StableInit
<1>2. AllPresent /\ OnlyAcceptedTasks /\ CaptureSoFar
  BY DEF StableInit, Init, OnlyAcceptedTasks, CaptureSoFar, IdleHook
<1>3. ASSUME NEW p \in Accepting PROVE PeerInv(p)
  <2>1. p \in Peers
    BY AcceptingPeers
  <2>2. Pending(p) = << >>
    BY <2>1 DEF StableInit, Init, Pending
  <2>3. \A n \in TransportedVars(p) : lastValues[n] = Unset
    BY <2>1, TransportedType DEF StableInit, Init, NothingSent
  <2> QED
    BY <2>2, <2>3 DEF PeerInv, FollowsRules, CacheReaches, EventsArePrepared
<1> QED
  BY <1>1, <1>2, <1>3 DEF StableInv

LEMMA StableNext0 == StableInv /\ [StableNext]_vars => StableInv'
<1> SUFFICES ASSUME StableInv, [StableNext]_vars PROVE StableInv'
  OBVIOUS
<1>1. TypeOK /\ TypeOK'
  BY NextType DEF StableInv, Next
<1>2. AllPresent'
  <2>1. UNCHANGED <<connected, resolved, body>>
    BY DEF StableNext, Sender, Receiver, SetLocalVariable, EnterHook,
           CaptureRule, CallOriginal, ReturnAndSend, ReturnSilently,
           Reset, OnSyncMessage, ApplyGraphVariableMessage,
           ApplyAnimationMessage, RunTask, ProxyStopOutput, vars, peerVars,
           senderVars
  <2> QED
    BY <2>1 DEF StableInv, AllPresent
<1>3. \A p \in Peers \ Accepting : tasks[p] = << >>
  BY DEF StableInv, OnlyAcceptedTasks
<1>4. \A p \in Accepting : PeerInv(p) /\ p \in Peers
  BY AcceptingPeers DEF StableInv
<1>5. ASSUME UNCHANGED <<inbox, tasks, proxy>>,
             \A n \in Names : lastValues'[n] \in {lastValues[n], Unset},
             CaptureSoFar'
      PROVE  StableInv'
  <2>1. ASSUME NEW p \in Accepting PROVE PeerInv(p)'
    <3>1. Pending(p)' = Pending(p)
      BY <1>5 DEF Pending
    <3>2. \A n \in TransportedVars(p) :
            /\ proxy'[p][n] = proxy[p][n]
            /\ lastValues'[n] \in {lastValues[n], Unset}
      BY <1>4, <1>5, TransportedType
    <3> QED
      BY <1>4, <3>1, <3>2, StepUnchanged
  <2>2. OnlyAcceptedTasks'
    BY <1>3, <1>5 DEF OnlyAcceptedTasks
  <2> QED
    BY <1>1, <1>2, <1>5, <2>1, <2>2 DEF StableInv
<1>51. CaptureSoFar
  BY DEF StableInv
<1>6. ASSUME NEW n \in Names, SetLocalVariable(n) PROVE StableInv'
  <2>1. CaptureSoFar'
    BY <1>6 DEF SetLocalVariable, StableInv, CaptureSoFar
  <2> QED
    BY <1>5, <1>6, <2>1 DEF SetLocalVariable, peerVars
<1>7. ASSUME NEW e \in Events, EnterHook(e) PROVE StableInv'
  <2>1. /\ hook'.pc = "capture" /\ hook'.seen = graph /\ hook'.next = 1
        /\ UNCHANGED <<graph, lastValues>> /\ hook.pc # "capture"
    BY <1>7 DEF EnterHook, IdleHook
  <2>2. Remembered(hook', lastValues')
    BY <2>1 DEF Remembered
  <2>3. \A i \in 1..Len(outer') :
          outer'[i].next > Len(Rules) /\ Remembered(outer'[i], lastValues')
    <3>1. CASE hook.pc = "idle"
      BY <1>7, <1>51, <2>1, <3>1 DEF EnterHook, CaptureSoFar
    <3>2. CASE hook.pc = "original"
      <4>1. outer' = << hook >> \o outer
        BY <1>7, <3>2 DEF EnterHook
      <4>2. /\ Len(outer') = Len(outer) + 1 /\ outer'[1] = hook
            /\ \A i \in 2..Len(outer') : outer'[i] = outer[i-1]
            /\ Len(outer) \in Nat
        BY <1>1, <4>1 DEF TypeOK
      <4> QED
        BY <1>51, <2>1, <3>2, <4>2 DEF CaptureSoFar
    <3> QED
      BY <1>1, <2>1, <3>1, <3>2 DEF TypeOK, Hook
  <2>4. CaptureSoFar'
    BY <2>1, <2>2, <2>3 DEF CaptureSoFar
  <2> QED
    BY <1>5, <1>7, <2>4 DEF EnterHook, peerVars
<1>8. ASSUME CaptureRule PROVE StableInv'
  <2> DEFINE rule == Rules[hook.next]
  <2>0. /\ hook.pc = "capture" /\ hook.next \in 1..Len(Rules)
        /\ UNCHANGED <<graph, tasks, proxy>>
    BY <1>8 DEF CaptureRule, peerVars
  <2>1. CASE SkipRule(rule)
    <3>1. CaptureSoFar'
      BY <2>0, <2>1, SkipKeepsCapture
    <3> QED
      BY <1>5, <2>0, <2>1, <3>1 DEF SkipRule
  <2>2. CASE SendRule(rule)
    <3>1. CaptureSoFar'
      BY <2>0, <2>2, SendKeepsCapture
    <3>2. \A p \in Accepting : PeerInv(p)'
      BY <2>0, <2>2, SendKeepsPeers
    <3>3. OnlyAcceptedTasks'
      BY <1>3, <2>0 DEF OnlyAcceptedTasks
    <3> QED
      BY <1>1, <1>2, <3>1, <3>2, <3>3 DEF StableInv
  <2>3. CASE LoseRule(rule)
    <3>1. CaptureSoFar'
      BY <2>0, <2>3, LoseKeepsCapture
    <3> QED
      BY <1>5, <2>0, <2>3, <3>1 DEF LoseRule
  <2> QED
    BY <1>8, <2>1, <2>2, <2>3 DEF CaptureRule
<1>9. ASSUME CallOriginal PROVE StableInv'
  <2>1. /\ hook'.pc = "original" /\ hook'.next = hook.next
        /\ hook'.seen = hook.seen /\ hook'.lost = hook.lost
        /\ hook.pc # "idle" /\ hook.next > Len(Rules)
        /\ UNCHANGED <<lastValues, outer>>
    BY <1>1, <1>9 DEF CallOriginal, TypeOK, Hook
  <2>2. CaptureSoFar'
    BY <1>51, <2>1 DEF CaptureSoFar, Remembered
  <2> QED
    BY <1>5, <1>9, <2>2 DEF CallOriginal, peerVars
<1>10. ASSUME LeaveHook, UNCHANGED lastValues PROVE CaptureSoFar'
  <2>1. CASE outer = << >>
    BY <1>10, <1>51, <2>1 DEF LeaveHook, CaptureSoFar, IdleHook
  <2>2. CASE outer # << >>
    <3> hook' = Head(outer) /\ outer' = Tail(outer)
      BY <1>10, <2>2 DEF LeaveHook
    <3> outer \in Seq(Suspended)
      BY <1>1 DEF TypeOK
    <3>1. /\ hook' = outer[1] /\ outer[1] \in Suspended
          /\ 1 \in 1..Len(outer)
          /\ \A i \in 1..Len(outer') :
               outer'[i] = outer[i+1] /\ i+1 \in 1..Len(outer)
      BY <2>2
    <3>2. /\ hook'.pc = "original" /\ hook'.next > Len(Rules)
          /\ Remembered(hook', lastValues')
      BY <1>10, <1>51, <3>1 DEF CaptureSoFar, Suspended
    <3>3. \A i \in 1..Len(outer') :
            outer'[i].next > Len(Rules) /\ Remembered(outer'[i], lastValues')
      BY <1>10, <1>51, <3>1 DEF CaptureSoFar
    <3> QED
      BY <3>2, <3>3 DEF CaptureSoFar
  <2> QED
    BY <2>1, <2>2
<1>11. ASSUME ReturnAndSend PROVE StableInv'
  <2>1. \A p \in Accepting : PeerInv(p)'
    BY <1>11, EventKeepsPeers
  <2>2. OnlyAcceptedTasks'
    BY <1>3, <1>11 DEF ReturnAndSend, OnlyAcceptedTasks
  <2>3. CaptureSoFar'
    BY <1>10, <1>11 DEF ReturnAndSend
  <2> QED
    BY <1>1, <1>2, <2>1, <2>2, <2>3 DEF StableInv
<1>12. ASSUME NEW accepted \in BOOLEAN, ReturnSilently(accepted) PROVE StableInv'
  BY <1>5, <1>10, <1>12 DEF ReturnSilently, peerVars
<1>13. ASSUME Reset PROVE StableInv'
  <2>1. CaptureSoFar'
    BY <1>13 DEF Reset, StableInv, CaptureSoFar
  <2> QED
    BY <1>5, <1>13, <2>1 DEF Reset, NothingSent, peerVars
<1>14. ASSUME NEW p \in Peers, OnSyncMessage(p) PROVE StableInv'
  <2>1. UNCHANGED <<graph, lastValues, hook, outer, proxy>>
    BY <1>14 DEF OnSyncMessage, senderVars, peerVars
  <2>2. CaptureSoFar'
    BY <2>1 DEF StableInv, CaptureSoFar
  <2>3. ASSUME NEW q \in Accepting PROVE PeerInv(q)'
    BY <1>1, <1>4, <1>14, <2>1, PendingDelivered, StepUnchanged
  <2>4. OnlyAcceptedTasks'
    BY <1>1, <1>3, <1>14 DEF OnSyncMessage, OnlyAcceptedTasks, TypeOK
  <2> QED
    BY <1>1, <1>2, <2>2, <2>3, <2>4 DEF StableInv
<1>15. ASSUME NEW p \in Peers, NEW kind, RunTask(p, kind),
              \A q \in Peers \ {p} : proxy'[q] = proxy[q],
              p \in Accepting => PeerInv(p)'
       PROVE  StableInv'
  <2>1. p \in Accepting
    BY <1>3, <1>15 DEF RunTask
  <2>2. \A q \in Accepting : PeerInv(q)'
    BY <1>1, <1>4, <1>15, <2>1, OthersKeep
  <2>3. UNCHANGED <<graph, lastValues, hook, outer>>
    BY <1>15 DEF RunTask, senderVars
  <2>4. CaptureSoFar'
    BY <2>3 DEF StableInv, CaptureSoFar
  <2>5. OnlyAcceptedTasks'
    BY <1>1, <1>3, <1>15, <2>1 DEF RunTask, OnlyAcceptedTasks, TypeOK
  <2> QED
    BY <1>1, <1>2, <2>2, <2>4, <2>5 DEF StableInv
<1>16. ASSUME NEW p \in Peers, ApplyGraphVariableMessage(p) PROVE StableInv'
  <2>1. RunTask(p, "variable")
    BY <1>16 DEF ApplyGraphVariableMessage
  <2>2. \A q \in Peers \ {p} : proxy'[q] = proxy[q]
    BY <1>1, <1>16 DEF ApplyGraphVariableMessage, TypeOK
  <2>3. p \in Accepting => PeerInv(p)'
    BY <1>16, VariableTaskKeepsPeers
  <2> QED
    BY <1>15, <2>1, <2>2, <2>3
<1>17. ASSUME NEW p \in Peers, ApplyAnimationMessage(p) PROVE StableInv'
  <2>1. RunTask(p, "event")
    BY <1>17 DEF ApplyAnimationMessage
  <2>2. \A q \in Peers \ {p} : proxy'[q] = proxy[q]
    BY <1>1, <1>17, EventTaskProxy
  <2>3. p \in Accepting => PeerInv(p)'
    BY <1>17, EventTaskKeepsPeers
  <2> QED
    BY <1>15, <2>1, <2>2, <2>3
<1>18. ASSUME NEW p \in Peers, ProxyStopOutput(p) PROVE StableInv'
  <2>1. UNCHANGED <<graph, lastValues, hook, outer, tasks, inbox>>
    BY <1>18 DEF ProxyStopOutput, senderVars
  <2>2. CaptureSoFar'
    BY <2>1 DEF StableInv, CaptureSoFar
  <2>3. ASSUME NEW q \in Accepting PROVE PeerInv(q)'
    <3>1. Pending(q)' = Pending(q)
      BY <2>1 DEF Pending
    <3>2. \A n \in TransportedVars(q) : proxy'[q][n] = proxy[q][n]
      <4>1. proxy' = [proxy EXCEPT ![p][AnimType] = 0]
        BY <1>18 DEF ProxyStopOutput
      <4> QED
        BY <1>1, <1>4, <4>1, TransportedType DEF TypeOK
    <3> QED
      BY <1>4, <2>1, <3>1, <3>2, StepUnchanged
  <2>4. OnlyAcceptedTasks'
    BY <1>3, <2>1 DEF OnlyAcceptedTasks
  <2> QED
    BY <1>1, <1>2, <2>2, <2>3, <2>4 DEF StableInv
<1>19. ASSUME UNCHANGED vars PROVE StableInv'
  <2>1. UNCHANGED <<graph, lastValues, hook, outer, inbox, tasks, proxy>>
    BY <1>19 DEF vars, senderVars, peerVars
  <2>2. CaptureSoFar'
    BY <2>1 DEF StableInv, CaptureSoFar
  <2> QED
    BY <1>5, <2>1, <2>2
<1> QED
  BY <1>6, <1>7, <1>8, <1>9, <1>11, <1>12, <1>13, <1>14, <1>16, <1>17, <1>18,
     <1>19 DEF StableNext, Sender, Receiver

LEMMA StableInvariant == StableSpec => []StableInv
<1>1. StableInit => StableInv
  BY StableInit0
<1>2. StableInv /\ [StableNext]_vars => StableInv'
  BY StableNext0
<1> QED
  BY <1>1, <1>2, PTL DEF StableSpec

\* While the proxies stay up, what the sender remembers as sent is what each
\* proxy holds once its queue has drained: skipping an unchanged value is
\* sound, for every profile, tolerance and interleaving of the two sides.
THEOREM DeltaFilterSound == StableSpec => []CacheReachesProxy
<1>1. StableInv => CacheReachesProxy
  BY DEF StableInv, PeerInv, CacheReaches, CacheReachesProxy
<1> QED
  BY <1>1, StableInvariant, PTL

LEMMA StableIsSpec == StableSpec => Spec
<1>1. StableInit => Init
  BY DEF StableInit
<1>2. [StableNext]_vars => [Next]_vars
  BY DEF Next
<1> QED
  BY <1>1, <1>2, PTL DEF StableSpec, Spec

\* OAR is no obstacle to the delta filter: on each client whose interface to
\* OAR was obtained, OAR has seen what the sender remembers as sent once the
\* queue has drained.
THEOREM DeltaFilterSoundForOAR == StableSpec => []OARReachesSentState
<1>1. ASSUME CacheReachesProxy, OARAgrees PROVE OARReachesSentState
  <2> SUFFICES ASSUME NEW p \in Accepting \cap WithOAR, NEW n \in TransportedVars(p),
                      lastValues[n] # Unset
               PROVE  Carried(Pending(p), Len(Pending(p)), n, oarSeen[p][n],
                              lastValues[n])
    BY DEF OARReachesSentState
  <2>1. Carried(Pending(p), Len(Pending(p)), n, proxy[p][n], lastValues[n])
    BY <1>1 DEF CacheReachesProxy
  <2>2. oarSeen[p][n] = proxy[p][n]
    BY <1>1, AcceptingPeers, TransportedType DEF OARAgrees
  <2> QED
    BY <2>1, <2>2
<1> QED
  BY <1>1, DeltaFilterSound, OARInvariant, StableIsSpec, PTL

\* The event at the head of the queue finds the proxy prepared for it.
LEMMA ReplayStep ==
  StableInv /\ ReplaySeesCapturedState /\ [StableNext]_vars
    => ReplaySeesCapturedState'
<1> SUFFICES ASSUME StableInv, ReplaySeesCapturedState, [StableNext]_vars,
                    replay' # NoReplay, replay' # replay,
                    NEW n \in TransportedVars(replay'.to) \ replay'.at.lost,
                    Readable(replay'.at.seen[n])
             PROVE  Close(TypeOf(n), replay'.vals[n], replay'.at.seen[n])
  BY DEF ReplaySeesCapturedState
<1>1. PICK p \in Peers : ApplyAnimationMessage(p)
  BY DEF StableNext, Sender, Receiver, SetLocalVariable, EnterHook,
         CaptureRule, CallOriginal, ReturnAndSend, ReturnSilently,
         Reset, OnSyncMessage, ApplyGraphVariableMessage,
         ProxyStopOutput, Quiet, vars
<1> DEFINE m == Head(tasks[p])
           q == Pending(p)
<1>2. ReplayEvent(p, m)
  BY <1>1 DEF ApplyAnimationMessage, Quiet
<1>3. /\ replay'.to = p /\ replay'.at = m.at
      /\ replay'.vals = Embedded(m, proxy[p])
  BY <1>2 DEF ReplayEvent
<1>4. TypeOK /\ RunTask(p, "event") /\ tasks[p] # << >> /\ m.kind = "event"
  BY <1>1 DEF ApplyAnimationMessage, RunTask, StableInv
<1>5. p \in Accepting /\ PeerInv(p)
  BY <1>4 DEF StableInv, OnlyAcceptedTasks
<1>6. m = q[1] /\ 1 \in 1..Len(q)
  <2>1. q \in Seq(SyncPacket) /\ Len(q) \in Nat /\ q # << >> /\ Head(q) = m
    BY <1>4, PendingType, PendingRun
  <2> QED
    BY <2>1
<1>7. Prepared(q, 1-1, n, proxy[p][n], m.at.seen[n])
  BY <1>3, <1>4, <1>5, <1>6 DEF PeerInv, EventsArePrepared, EventIsPrepared
<1>8. Close(TypeOf(n), proxy[p][n], m.at.seen[n])
  BY <1>7 DEF Prepared, Carried
<1>9. n \in Names \ {AnimType, OffsetType}
  BY <1>3, TransportedType
<1>10. proxy[p] \in [Names -> Int]
  BY <1>4 DEF TypeOK
<1>11. Embedded(m, proxy[p])[n] = proxy[p][n]
  BY <1>9, <1>10, EmbeddedElsewhere
<1> QED
  BY <1>3, <1>8, <1>11

\* While the proxies stay up, an event is replayed on a proxy that is in the
\* state the local graph had at hook entry, up to the float tolerance, except
\* for the variables whose packet the transport refused, or that an input
\* notified by the original handler sent again.
THEOREM ReplayFaithful == StableSpec => []ReplaySeesCapturedState
<1>1. StableInit => ReplaySeesCapturedState
  BY DEF StableInit, Init, ReplaySeesCapturedState
<1>2. StableInv /\ ReplaySeesCapturedState /\ [StableNext]_vars
        => ReplaySeesCapturedState'
  BY ReplayStep
<1> QED
  BY <1>1, <1>2, StableInvariant, PTL DEF StableSpec

=============================================================================
