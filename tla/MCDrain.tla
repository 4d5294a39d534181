------------------------------- MODULE MCDrain -------------------------------
(* Instances of AdtsDrain: a and c have one configuration, b another. *)
EXTENDS AdtsDrain

CONSTANTS a, b, c, junk, First, Second

OriginOf == [content \in Contents |-> IF content = b THEN Second ELSE First]
=============================================================================
