------------------------- MODULE GraphVariableSync -------------------------
(***************************************************************************)
(* The delta filter of GraphVariableSync: which values of the local        *)
(* player's animation graph are worth sending, given the last value sent.  *)
(*                                                                         *)
(* Bools, ints and floats are all integers here: a bool is 0 or 1, a float *)
(* counts multiples of some unit and Epsilon is kFloatEpsilon in that      *)
(* unit.  Absent is what a failed GetGraphVariable* reports; NaN stands    *)
(* for every float that std::isfinite rejects.                             *)
(***************************************************************************)
EXTENDS Integers

CONSTANTS Absent,   \* the graph has no variable of that name and type
          NaN,      \* a float that is not finite
          Unset,    \* no entry in lastValues_
          Epsilon   \* kFloatEpsilon

ASSUME DeltaAssumption ==
  /\ Epsilon \in Nat
  /\ Absent \notin Int /\ NaN \notin Int /\ Unset \notin Int

Types == {"bool", "int", "float"}
GraphValue == Int \cup {Absent, NaN}

\* A value the capture loop may send: it was read, and it is finite.
Readable(value) == value \in Int

\* The comparison made by the three overloads of HasChanged.
Close(type, a, b) ==
  IF type = "float" THEN a - b <= Epsilon /\ b - a <= Epsilon ELSE a = b

\* "last" is the cached value of the rule's variable, or Unset.
HasChanged(type, last, value) == last # Unset => ~Close(type, last, value)
=============================================================================
