---------------------------- MODULE AnimSyncReplay ----------------------------
(***************************************************************************)
(* AnimSync implements InputReplay: what waits for a peer is the profiled   *)
(* events among the packets on its channel and in its tasks, and a proxy is *)
(* fit for an input if it shows what the local player's graph held when the *)
(* hook was entered.                                                        *)
(***************************************************************************)
EXTENDS AnimSync

\* Graphs of the local player and of a proxy: any choice of the names' values.
Choices(values) ==
  {g \in [Names -> UNION {values[n] : n \in Names}] :
     \A n \in Names : g[n] \in values[n]}
GraphValues == [n \in Names |-> LocalValues[n] \cup {Absent}]
LocalGraphs == Choices(GraphValues)

\* A proxy holds a default of 0, or what arrived under the name: a value of the
\* variable itself, or of one whose name was cut down to it.
Arriving(n) ==
  UNION {LocalValues[r] : r \in {m \in Names : m = n \/ NameOnWire[m] = n}}
ProxyValues == [n \in Names |-> (Arriving(n) \cup {0}) \ {Absent, NaN}]
ProxyGraphs == Choices(ProxyValues)

Issuable ==
  [tag : {TagOnWire[e] : e \in SyncedEvents},
   at : [seen : LocalGraphs, lost : SUBSET RuleNames]]

\* The variables the proxy of p must show for an OffsetGPMA, and for any input.
ShowsGPMAState(p, input, view) ==
  input.tag = Start =>
    \A n \in {AnimType, OffsetType} :
      Readable(input.at.seen[n]) => view[n] = input.at.seen[n]

ShowsCapture(p, input, view) ==
  /\ ShowsGPMAState(p, input, view)
  /\ \A n \in TransportedVars(p) \ input.at.lost :
       Readable(input.at.seen[n]) =>
         Close(TypeOf(n), view[n], input.at.seen[n])

\* The inputs that peer p will replay among the packets of q, oldest first.
Awaited(p, m) == m.kind = "event" /\ ShouldSyncEvent(p, m.tag)
InputOf(m) == [tag |-> m.tag, at |-> m.at]

InputsAmong(p, q) ==
  LET first[k \in 0..Len(q)] ==
        IF k = 0 THEN << >>
        ELSE IF Awaited(p, q[k]) THEN Append(first[k-1], InputOf(q[k]))
        ELSE first[k-1]
  IN first[Len(q)]

\* The inputs peer p has yet to replay.
Awaiting(p) == InputsAmong(p, Pending(p))

Waiting == [p \in Accepting |-> Awaiting(p)]

Reliable == INSTANCE InputReplay
  WITH Followers <- Accepting, Inputs <- Issuable, Follows <- PeerEvents,
       Views <- ProxyGraphs, Shows <- ShowsCapture, pending <- Waiting

Lossy == INSTANCE InputReplay
  WITH Followers <- Accepting, Inputs <- Issuable, Follows <- PeerEvents,
       Views <- ProxyGraphs, Shows <- ShowsGPMAState, pending <- Waiting

\* While the proxies stay up, every input that was sent is replayed on every
\* proxy exactly once, in the order of the sends, under the captured state:
\* the callback's hand-over to tasks, the interleaved variable packets and the
\* hook's nesting neither drop, repeat nor swap anything
\* (STRPMClient.cpp:256-357, AnimationInputProbe.cpp:44-93).
ReplaysReliably == Reliable!ReliableSpec

\* Whatever peers, proxies and transport do, inputs are at worst lost: none is
\* replayed twice, out of order or uncalled for, nor an OffsetGPMA under
\* another GPMA state than its own.
ReplaysAtMostOnce == Lossy!LossySpec

\* While the proxies stay up, an input that waits is not stuck behind packets
\* that nothing handles (STRPMClient.cpp:314, 346).
WaitingInputsReplay == Reliable!EveryFollowerReplays

==============================================================================
