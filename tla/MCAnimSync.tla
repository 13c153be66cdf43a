----------------------------- MODULE MCAnimSync -----------------------------
(***************************************************************************)
(* Small instances of AnimSync: the Helmet Toggle events, its animation     *)
(* type, and one float variable "fBlend" of a further profile.              *)
(***************************************************************************)
EXTENDS AnimSyncReplay, TLC

CONSTANT p1, p2

\* "cut" is what CopyField leaves of a name that does not fit in a packet.
MCNames == {AnimType, OffsetType, "fBlend", "bTorch", "cut"}
ShortNames == [n \in MCNames |-> n]
SameTags   == [e \in Events |-> e]

\* The delta filter: one float and one bool; the animation type is fixed.
\* Floats are in units of kFloatEpsilon: 0 and 1 are close, 0 and 2 are not.
DeltaEvents == {"moveStart", "jump"}
DeltaSynced == {"moveStart"}
DeltaRules  == << [name |-> "fBlend", type |-> "float"],
                  [name |-> "bTorch", type |-> "bool"] >>
DeltaValues == ("fBlend" :> {0, 1, 2, NaN}) @@ ("bTorch" :> {0, 1})
                 @@ [n \in MCNames |-> {Absent}]

\* Two profiled inputs, one variable that is transported, and one whose name
\* does not fit in a packet.
LongTorch   == [ShortNames EXCEPT !["bTorch"] = "cut"]
BlendValues == ("fBlend" :> {0, 2}) @@ ("bTorch" :> {1})
                 @@ [n \in MCNames |-> {Absent}]

\* The Helmet Toggle sequence: the built-in profile, the GPMA variables only.
HelmetEvents == {Start, Stop}
HelmetSynced == {Start, Stop}
HelmetRules  == << [name |-> AnimType, type |-> "int"] >>
HelmetValues == (AnimType :> {1, 2}) @@ (OffsetType :> {1})
                  @@ [n \in MCNames |-> {Absent}]

TypesOf(rules) ==
  [n \in MCNames |-> IF \E i \in 1..Len(rules) : rules[i].name = n
                     THEN rules[CHOOSE i \in 1..Len(rules) :
                                  rules[i].name = n].type
                     ELSE Absent]
SameTypes  == [p \in Peers |-> TypesOf(Rules)]
SameEvents == [p \in Peers |-> SyncedEvents]
\* A session that others may still join; at least one peer is there already.
JoinSpec ==
  /\ Init
  /\ \A p \in Peers : resolved[p] /\ body[p] = "ready"
  /\ \E p \in Peers : connected[p]
  /\ [][StableNext \/ \E p \in Peers : Join(p)]_vars

=============================================================================
