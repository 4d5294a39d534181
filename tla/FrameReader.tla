----------------------------- MODULE FrameReader -----------------------------
(***************************************************************************)
(* What a frame reader promises: it passes over the bytes that were pushed *)
(* once and in order, and each byte it passes is either skipped and        *)
(* counted or belongs to a whole frame that is given out.                  *)
(***************************************************************************)
EXTENDS Integers, Sequences

VARIABLES
    whole,      \* the frames of the source, by first and last byte
    pushed,     \* bytes of the source pushed
    passed,     \* bytes the reader is behind
    skipped,    \* bytes among them that are in no frame given out
    frames      \* first bytes of the frames given out

vars == <<whole, pushed, passed, skipped, frames>>

Init ==
    /\ pushed = 0
    /\ passed = 0
    /\ skipped = 0
    /\ frames = <<>>

Push ==
    /\ pushed' > pushed
    /\ UNCHANGED <<whole, passed, skipped, frames>>

Skip == \E n \in 1..(pushed - passed) :
    /\ passed' = passed + n
    /\ skipped' = skipped + n
    /\ UNCHANGED <<whole, pushed, frames>>

(* What lies in front of the frame is skipped with it. *)
Give == \E f \in whole :
    /\ passed < f.first
    /\ f.last <= pushed
    /\ passed' = f.last
    /\ skipped' = skipped + (f.first - 1 - passed)
    /\ frames' = Append(frames, f.first)
    /\ UNCHANGED <<whole, pushed>>

Next == Push \/ Skip \/ Give

Spec == Init /\ [][Next]_vars
=============================================================================
