--------------------------- MODULE EncoderTransport ---------------------------
(***************************************************************************)
(* encode_transport_f32 of encoder.rs: access units are collected until    *)
(* there are transport_subframes of them, taken from the encoder, and put  *)
(* into one unit of the transport, which may be too long for its header.   *)
(* For LATM and LOAS the unit goes to a reader of latm.rs, over a link     *)
(* that loses nothing.                                                     *)
(* An access unit is a number, its place in what the core encoded, and a   *)
(* size in bytes.                                                          *)
(***************************************************************************)
EXTENDS LatmMux, Sequences, Functions

CONSTANTS
    Muxes,          \* transport_mux
    Subframes,      \* transport_subframes
    Periods,        \* header_period
    Sizes,          \* sizes of an access unit
    FrameLimit,     \* largest ADTS frame and LOAS payload
    HeaderBytes,    \* of an ADTS header
    ConfigBytes,    \* of a StreamMuxConfig
    UnitBound       \* access units encoded in a run

ASSUME PeriodsAreBytes == Periods \subseteq 0..U8Max
ASSUME SubframesArePositive == Subframes \subseteq Nat \ {0}
ASSUME SizesAreBytes ==
    /\ Sizes \subseteq Nat
    /\ FrameLimit \in Nat /\ HeaderBytes \in Nat /\ ConfigBytes \in Nat

VARIABLES
    config,         \* ResolvedEncoderConfig
    made,           \* access units the core has encoded
    pending,        \* pending_access_units
    adif,           \* adif_header_written
    writer,         \* latm_writer
    units,          \* every unit taken from the encoder, and what became of it
    mux,            \* the StreamMuxConfig the reader keeps
    outcome         \* what became of the last element

reader == <<writer, mux, outcome>>
vars == <<config, made, pending, adif, units, reader>>

Config ==
    [mux : Muxes, subframes : Subframes, protection : BOOLEAN]

AccessUnit == [id : Nat, size : Sizes]

-----------------------------------------------------------------------------
(* The length of a unit *)

Bytes(aus) == FoldFunction(LAMBDA au, n : au.size + n, 0, aus)

(* Block positions, header CRC and block CRCs. *)
Protection(n) == IF n = 1 THEN 2 ELSE (n - 1) * 2 + 2 + n * 2

AdtsBytes(aus) ==
    HeaderBytes + Bytes(aus)
    + (IF config.protection THEN Protection(Len(aus)) ELSE 0)

(* A bit for useSameStreamMux and a length for each payload. *)
LoasBytes(aus) ==
    1 + Len(aus) + Bytes(aus) + (IF Repeats(writer) THEN ConfigBytes ELSE 0)

-----------------------------------------------------------------------------
Init ==
    /\ config \in Config
    /\ \E layout \in Layouts, period \in Periods :
          writer = NewWriter(layout, period)
    /\ made = 0
    /\ pending = <<>>
    /\ adif = FALSE
    /\ units = <<>>
    /\ mux = NoMux
    /\ outcome = "lost"

(* The input or the core encoder fails, and the frame is gone. *)
EncodeFails == UNCHANGED vars

Encoded(size) ==
    /\ made < UnitBound
    /\ made' = made + 1
    /\ UNCHANGED config

With(size) == Append(pending, [id |-> made + 1, size |-> size])

Collect(size) ==
    /\ Encoded(size)
    /\ Len(With(size)) < config.subframes
    /\ pending' = With(size)
    /\ UNCHANGED <<adif, units, reader>>

(* The unit is taken before the transport can refuse it. *)
Take(size, fate) ==
    /\ Encoded(size)
    /\ Len(With(size)) >= config.subframes
    /\ pending' = <<>>
    /\ units' = Append(units, [ids |-> [i \in 1..Len(With(size)) |->
                                           With(size)[i].id],
                               fate |-> fate])

WriteRaw(size) ==
    /\ config.mux = "raw"
    /\ Take(size, "plain")
    /\ UNCHANGED <<adif, reader>>

WriteAdif(size) ==
    /\ config.mux = "adif"
    /\ Take(size, IF adif THEN "plain" ELSE "headed")
    /\ adif' = TRUE
    /\ UNCHANGED reader

WriteAdts(size) ==
    /\ config.mux = "adts"
    /\ AdtsBytes(With(size)) <= FrameLimit
    /\ Take(size, "plain")
    /\ UNCHANGED <<adif, reader>>

(* Mutant of AdtsFails: what could not be written is tried again. *)
AdtsFailsAndKeeps(size) ==
    /\ config.mux = "adts"
    /\ AdtsBytes(With(size)) > FrameLimit \/ config.protection
    /\ Encoded(size)
    /\ Len(With(size)) >= config.subframes
    /\ pending' = With(size)
    /\ UNCHANGED <<adif, units, reader>>

(* It is too long, or its CRC regions cannot be found by decoding it. *)
AdtsFails(size) ==
    /\ config.mux = "adts"
    /\ AdtsBytes(With(size)) > FrameLimit \/ config.protection
    /\ Take(size, "lost")
    /\ UNCHANGED <<adif, reader>>

Deliver ==
    /\ writer' = Written(writer)
    /\ mux' = MuxAfter(mux, Element(writer))
    /\ outcome' = Outcome(mux, Element(writer))

WriteLatm(size) ==
    /\ config.mux = "latm"
    /\ Take(size, "plain")
    /\ Deliver
    /\ UNCHANGED adif

WriteLoas(size) ==
    /\ config.mux = "loas"
    /\ LoasBytes(With(size)) <= FrameLimit
    /\ Take(size, "plain")
    /\ Deliver
    /\ UNCHANGED adif

(* The writer has counted the element that LOAS refuses, and holds its     *)
(* configuration as sent.                                                  *)
LoasFails(size) ==
    /\ config.mux = "loas"
    /\ LoasBytes(With(size)) > FrameLimit
    /\ Take(size, "lost")
    /\ writer' = Written(writer)
    /\ outcome' = "lost"
    /\ UNCHANGED <<adif, mux>>

Next ==
    \/ EncodeFails
    \/ \E size \in Sizes :
          \/ Collect(size)
          \/ WriteRaw(size)
          \/ WriteAdif(size)
          \/ WriteAdts(size)
          \/ AdtsFails(size)
          \/ WriteLatm(size)
          \/ WriteLoas(size)
          \/ LoasFails(size)

Spec == Init /\ [][Next]_vars

-----------------------------------------------------------------------------
TypeOK ==
    /\ config \in Config
    /\ made \in Nat
    /\ pending \in Seq(AccessUnit)
    /\ Len(pending) < config.subframes
    /\ adif \in BOOLEAN
    /\ writer \in Writer
    /\ units \in Seq([ids : Seq(Nat), fate : {"plain", "headed", "lost"}])
    /\ mux \in Layouts \cup {NoMux}
    /\ outcome \in {"lost", "read", "refused", "misread"}

(* Every access unit goes into one transport unit, in order, with the same *)
(* neighbours whether units before it failed or not: the sub-frames that a *)
(* failed unit took with it shift nothing.  What is pending follows.       *)
UnitsAreBlocks ==
    /\ \A k \in 1..Len(units) :
          /\ Len(units[k].ids) = config.subframes
          /\ \A i \in 1..config.subframes :
                units[k].ids[i] = (k - 1) * config.subframes + i
    /\ \A i \in 1..Len(pending) :
          pending[i].id = Len(units) * config.subframes + i

Unread == outcome \in {"refused", "misread"}

(* What LOAS refuses costs the reader less than a period of elements: if   *)
(* an element cannot be read over a link that loses nothing, there is a    *)
(* unit before it, refused for its length, that the writer has counted,    *)
(* and no more elements were written since than the period leaves.  With   *)
(* the period 0 nothing bounds them.                                       *)
RefusalIsRepaired ==
    Unread =>
        \E k \in 1..(Len(units) - 1) :
            /\ units[k].fate = "lost"
            /\ writer.period # 0 => Len(units) - k < writer.period
=============================================================================
