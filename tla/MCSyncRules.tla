----------------------------- MODULE MCSyncRules -----------------------------
(***************************************************************************)
(* A small instance of SyncRules: three rule files whose profiles repeat    *)
(* and contradict one another, and one file that is no rule file.           *)
(***************************************************************************)
EXTENDS SyncRules

MCEvents == {Start, Stop, "jump"}
MCNames  == {AnimType, OffsetType, "fBlend"}

Profile1 == << [directive |-> "event", value |-> "jump"],
               [directive |-> "float", value |-> "fBlend"],
               [directive |-> "ignored"],
               [directive |-> "int", value |-> "fBlend"] >>
Profile2 == << [directive |-> "int", value |-> "fBlend"],
               [directive |-> "int", value |-> AnimType],
               [directive |-> "event", value |-> Start],
               [directive |-> "event", value |-> "jump"] >>
MCProfiles == {Profile1, Profile2, << >>}

=============================================================================
