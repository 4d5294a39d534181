------------------------------ MODULE MCFraming ------------------------------
(* Instances of IncrementalFraming: every stream of StreamLength bytes. *)
EXTENDS IncrementalFraming

CONSTANTS StreamLength

Data == [kind |-> "data"]
Half == [kind |-> "half"]
Mark(length, verdict) ==
    [kind |-> "mark", length |-> length, verdict |-> verdict]

Alphabet ==
    {Data, Half, Mark(3, "good"), Mark(6, "good"), Mark(3, "header"),
     Mark(4, "frame")}

AllStreams ==
    {s \in [1..StreamLength -> Alphabet] :
        \A i \in 1..(StreamLength - 1) :
            s[i] \in {Data, Mark(3, "header")} \/ s[i + 1] = Data}
=============================================================================
