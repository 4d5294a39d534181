----------------------------- MODULE LatmChannel -----------------------------
(***************************************************************************)
(* An application that writes elements with a LatmWriter and turns its     *)
(* settings, a channel that loses elements and keeps their order, and a    *)
(* reader.  Nothing comes back from the reader, so an element may be       *)
(* taken as read when it is written.                                       *)
(***************************************************************************)
EXTENDS LatmMux

CONSTANTS
    Periods,    \* values of header_period
    Subframes,  \* subframe_count
    Payloads    \* numbers of payloads an application may pass

ASSUME PeriodsAreBytes == Periods \subseteq 0..U8Max

VARIABLES
    writer,
    mux,        \* the StreamMuxConfig the reader keeps
    outcome     \* what became of the last element

vars == <<writer, mux, outcome>>

Init ==
    /\ \E layout \in Layouts, period \in Periods :
          writer = NewWriter(layout, period)
    /\ mux = NoMux
    /\ outcome = "lost"

(* Nothing has changed when the payloads are counted and measured. *)
RefusePayloads ==
    /\ \E n \in Payloads : n # Subframes
    /\ UNCHANGED vars

WriteAndLose ==
    /\ Subframes \in Payloads
    /\ writer' = Written(writer)
    /\ outcome' = "lost"
    /\ UNCHANGED mux

WriteAndRead ==
    /\ Subframes \in Payloads
    /\ writer' = Written(writer)
    /\ outcome' = Outcome(mux, Element(writer))
    /\ mux' = MuxAfter(mux, Element(writer))

Set(w) ==
    /\ writer' = w
    /\ UNCHANGED <<mux, outcome>>

SetCheck  == \E crc \in Checks : Set(WithCheck(writer, crc))
SetOther  == \E bits \in OtherBits : Set(WithOther(writer, bits))
SetLength == \E bits \in Lengths : Set(WithLength(writer, bits))

Next ==
    \/ RefusePayloads
    \/ WriteAndLose
    \/ WriteAndRead
    \/ SetCheck
    \/ SetOther
    \/ SetLength

Spec == Init /\ [][Next]_vars

-----------------------------------------------------------------------------
TypeOK ==
    /\ writer \in Writer
    /\ mux \in Layouts \cup {NoMux}
    /\ outcome \in {"lost", "read", "refused", "misread"}

Heard ==
    CASE outcome \in {"refused", "misread"} -> "missed"
      [] outcome = "read" -> "read"
      [] outcome = "lost" -> "nothing"

Channel == INSTANCE MuxChannel WITH
    period <- writer.period, owed <- Owed(writer, mux), heard <- Heard

(* Whatever the application sets and the channel loses, no element is      *)
(* unreadable unless a configuration was lost before it, and one that was  *)
(* sent again is due within the period: the writer counts its frames and   *)
(* remembers what it sent so that the reader is right.                     *)
ImplementsChannel == Channel!Spec
=============================================================================
