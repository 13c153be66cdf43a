----------------------------- MODULE InputReplay -----------------------------
(***************************************************************************)
(* What the plugin promises about the inputs it forwards, with no packets,  *)
(* queues, caches or threads: an input that the local client issues waits   *)
(* for each client that follows it, and is replayed there once, in order,   *)
(* on a proxy that shows what the input needs to see.                       *)
(***************************************************************************)
EXTENDS Sequences, Naturals

CONSTANTS
  Followers,   \* the clients that may replay the inputs
  Inputs,      \* what can be issued: [tag, at], "at" being what it needs to see
  Follows,     \* the tags each follower replays
  Views,       \* what a proxy may show
  Shows(_, _, _), \* Shows(f, input, view): the proxy of f is fit for the input
  NoReplay     \* no replay in this step

VARIABLES
  pending,     \* per follower: the issued inputs it has yet to replay
  replay       \* the replay made by this step

vars == <<pending, replay>>

Init == pending = [f \in Followers |-> << >>] /\ replay = NoReplay

\* The local client issues an input to some followers that want its tag.
IssueTo(audience, input) ==
  /\ \A f \in audience : input.tag \in Follows[f]
  /\ pending' = [f \in Followers |-> IF f \in audience
                                     THEN Append(pending[f], input)
                                     ELSE pending[f]]
  /\ replay' = NoReplay

Issue(input) == IssueTo({f \in Followers : input.tag \in Follows[f]}, input)

\* A follower replays the oldest input that waits for it.
Replay(f) ==
  /\ pending[f] # << >>
  /\ pending' = [pending EXCEPT ![f] = Tail(@)]
  /\ \E view \in Views :
       /\ Shows(f, Head(pending[f]), view)
       /\ replay' = [to |-> f, tag |-> Head(pending[f]).tag, vals |-> view,
                     at |-> Head(pending[f]).at]

\* A step in which no input is issued or replayed.
Rest == replay' = NoReplay /\ UNCHANGED pending

Reliably == \/ Rest
            \/ \E f \in Followers : Replay(f)
            \/ \E input \in Inputs : Issue(input)

\* Every input reaches every follower, exactly once and in order.
ReliableSpec == Init /\ [][Reliably]_vars

\* The oldest input of a follower is dropped, or the newest ones are.
Drop(f) ==
  /\ pending[f] # << >>
  /\ \/ pending' = [pending EXCEPT ![f] = Tail(@)]
     \/ \E k \in 0..(Len(pending[f]) - 1) :
          pending' = [pending EXCEPT ![f] = SubSeq(@, 1, k)]
  /\ replay' = NoReplay

Lossily == \/ Rest
           \/ \E f \in Followers : Replay(f) \/ Drop(f)
           \/ \E audience \in SUBSET Followers, input \in Inputs :
                IssueTo(audience, input)

\* Inputs may be lost, but none is replayed twice, out of order, or unissued.
LossySpec == Init /\ [][Lossily]_vars

\* Whatever waits for a follower gets it to replay something.
EveryFollowerReplays ==
  \A f \in Followers :
    pending[f] # << >> ~> replay # NoReplay /\ replay.to = f

==============================================================================
