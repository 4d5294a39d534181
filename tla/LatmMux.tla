------------------------------- MODULE LatmMux -------------------------------
(***************************************************************************)
(* LatmWriter of latm.rs, which sends its StreamMuxConfig when it has to   *)
(* and otherwise says "as before", and LatmAudioMuxElement, the reader     *)
(* that keeps the last one it saw.  A layout is the part of the            *)
(* StreamMuxConfig the setters change: the CRC field, the bits of other    *)
(* data and the fixed frame length.                                        *)
(***************************************************************************)
EXTENDS Integers

CONSTANTS
    Checks,     \* values of set_crc_check_sum, None among them
    OtherBits,  \* values of set_other_data
    Lengths,    \* values of set_fixed_frame_length_bits, None among them
    NoMux,      \* a reader that has seen no configuration
    SameMux,    \* useSameStreamMux
    U8Max       \* where frames_since_config saturates

Layouts == [crc : Checks, other : OtherBits, fixed : Lengths]

ASSUME U8MaxIsPositive == U8Max \in Nat \ {0}
ASSUME NoLayout == NoMux \notin Layouts /\ SameMux \notin Layouts

Writer ==
    [layout : Layouts, period : 0..U8Max, since : 0..U8Max, written : BOOLEAN]

NewWriter(layout, period) ==
    [layout |-> layout, period |-> period, since |-> 0, written |-> FALSE]

-----------------------------------------------------------------------------
(* The writer *)

(* Mutant of Repeats: the period is one element too long. *)
RepeatsLate(w) == ~w.written \/ (w.period # 0 /\ w.since > w.period)

Repeats(w) == ~w.written \/ (w.period # 0 /\ w.since >= w.period)

SaturatingInc(n) == IF n < U8Max THEN n + 1 ELSE U8Max

Element(w) ==
    [mux |-> IF Repeats(w) THEN w.layout ELSE SameMux, layout |-> w.layout]

Written(w) ==
    [w EXCEPT !.written = TRUE,
              !.since = SaturatingInc(IF Repeats(w) THEN 0 ELSE @)]

WithCheck(w, crc) ==
    [w EXCEPT !.layout.crc = crc, !.written = @ /\ w.layout.crc = crc]

(* Mutant of WithOther: the configuration is not due again. *)
WithOtherOnly(w, bits) == [w EXCEPT !.layout.other = bits]

WithOther(w, bits) ==
    [w EXCEPT !.layout.other = bits, !.written = @ /\ w.layout.other = bits]

WithLength(w, bits) ==
    [w EXCEPT !.layout.fixed = bits, !.written = @ /\ w.layout.fixed = bits]

-----------------------------------------------------------------------------
(* The reader *)

(* Mutant of MuxAfter: the first configuration is kept. *)
FirstMux(mux, e) == IF mux = NoMux THEN e.mux ELSE mux

MuxAfter(mux, e) == IF e.mux = SameMux THEN mux ELSE e.mux

(* Under a configuration other than the one it was written with, an        *)
(* element gives another payload, or ends too early.                       *)
Outcome(mux, e) ==
    IF MuxAfter(mux, e) = e.layout THEN "read"
    ELSE IF MuxAfter(mux, e) = NoMux THEN "refused" ELSE "misread"

(* How many elements more the reader may miss until the configuration that *)
(* the writer holds as sent is sent again.                                 *)
Forever == -1

Owed(w, mux) ==
    IF ~w.written \/ mux = w.layout THEN 0
    ELSE IF w.period = 0 THEN Forever ELSE w.period - w.since
=============================================================================
