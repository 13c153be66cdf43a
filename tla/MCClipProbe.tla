----------------------------- MODULE MCClipProbe -----------------------------
(***************************************************************************)
(* A small instance of ClipProbe: an OffsetGPMA, another profiled input and  *)
(* one that is not.                                                         *)
(***************************************************************************)
EXTENDS ClipProbe

CONSTANT p1

MCProfiled == {Start, "jump"}
MCInputs == MCProfiled \cup {"walk"}

=============================================================================
