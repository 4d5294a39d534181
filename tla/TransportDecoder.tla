--------------------------- MODULE TransportDecoder --------------------------
(***************************************************************************)
(* The operational decode API of PureRustTransportDecoder: one call, one   *)
(* frame of PCM or an error.  Below it are the AacLcDecoder with its two   *)
(* concealment paths, the one-frame PCM delay of the energy-interpolation  *)
(* method, and the losses that are still waiting in that delay for the     *)
(* next frame to be interpolated with.                                     *)
(*                                                                         *)
(* Energy interpolation hides a loss one call late: the lost frame enters  *)
(* the delay as a placeholder, and the call that brings the next access    *)
(* unit replaces it by a concealed frame before pushing it out.  A failed  *)
(* access unit given to the flagged API restores the decoder, not the rest *)
(* of the facade, from a checkpoint and is then concealed as a loss.       *)
(*                                                                         *)
(* PCM is abstracted to slots: how a frame was made, from the content of   *)
(* which access unit, and at which level it starts.                        *)
(***************************************************************************)
EXTENDS ConcealmentPath

CONSTANTS
    Configs,    \* the stream configurations that occur
    Junk,       \* what a corrupt access unit decodes to
    Formats,    \* the sample formats the application uses
    Framing,    \* "adts": every frame has its configuration; "latm"
    SameMux,    \* useSameStreamMux: no configuration in the element
    NoMux,      \* no LATM configuration is kept
    NoShape,    \* the PCM delay is off
    Faults,     \* how the access units of the stream may be damaged
    EntryPoints,\* the entry points the application calls
    Methods,    \* the concealment methods the application selects
    U64Max      \* where the statistics saturate (2^64 - 1 in the code)

ASSUME ConfigAssumption ==
    Configs \subseteq [aot : Nat, rate : Nat, channels : Nat, frame : Nat]
ASSUME FormatsAssumption == Formats \subseteq {"f32", "i16"}
ASSUME FramingAssumption == Framing \in {"adts", "latm"}
ASSUME MarkerAssumption ==
    /\ Junk \in Contents
    /\ SameMux \notin Configs
    /\ NoMux \notin Configs
    /\ NoShape \notin Nat \X Nat
ASSUME FaultAssumption ==
    Faults \subseteq {"none", "framing", "config", "syntax", "check"}
ASSUME EntryPointAssumption ==
    EntryPoints \subseteq {"decode", "flagged", "named", "conceal", "flush"}
ASSUME MethodAssumption == Methods \subseteq {"mute", "noise", "energy"}
ASSUME CounterAssumption == U64Max \in Nat

VARIABLES
    dec,      \* decoder: configuration, concealment paths, overlaps
    mux,      \* latm_mux_config, by the stream configuration it names
    fifo,     \* concealment_delay: its shape and the slot it holds
    pending,  \* pending_energy_f32_losses, pending_energy_i16_losses
    user,     \* concealment_method_user, or "default"
    stats,    \* the TransportStatistics the calls count
    out       \* history: the last call, how it ended, what it returned

vars == <<dec, mux, fifo, pending, user, stats, out>>

-----------------------------------------------------------------------------
(* Data *)

Slot == [kind : {"none", "silence", "placeholder", "decoded", "concealed",
                 "interpolated", "flushed"},
         content : Contents \cup {NoContent},
         level : 0..Silent]

NoSlot      == [kind |-> "none", content |-> NoContent, level |-> 0]
Silence     == [kind |-> "silence", content |-> NoContent, level |-> 0]
Placeholder == [kind |-> "placeholder", content |-> NoContent, level |-> 0]

(* The damage of an access unit is where its processing stops: in the      *)
(* framing, which is not a codec error; at a configuration the decoder     *)
(* rejects; in the syntax; or in a check that follows the synthesis.       *)
AccessUnit ==
    {au \in [mux : Configs \cup (IF Framing = "latm" THEN {SameMux} ELSE {}),
             content : Contents, fault : Faults] :
        au.fault # "none" <=> au.content = Junk}

Decoder == [cfg : Configs, path : [Formats -> Path],
            tail : [Formats -> Contents \cup {NoContent}]]

FreshDecoder(c) == [cfg  |-> c,
                    path |-> [f \in Formats |-> FreshPath],
                    tail |-> [f \in Formats |-> NoContent]]

Shapes == (Nat \X Nat) \cup {NoShape}
Delay == [shape : Shapes, slot : Slot]
EmptyFifo == [shape |-> NoShape, slot |-> Silence]

NoLosses == [f \in Formats |-> 0]

Statistics == [total_bytes : 0..U64Max, bad_bytes : 0..U64Max,
               total_access_units : 0..U64Max, bad_access_units : 0..U64Max]

CallNames == {"new", "decode", "flagged", "named", "conceal", "flush",
              "set", "clear"}

Outcome == [call : CallNames, format : {"f32", "i16"}, cut : BOOLEAN,
            ok : BOOLEAN, slot : Slot]

TypeOK ==
    /\ dec \in Decoder
    /\ mux \in Configs \cup {NoMux}
    /\ fifo \in Delay
    /\ pending \in [Formats -> 0..UsizeMax]
    /\ user \in Methods \cup {"default"}
    /\ stats \in Statistics
    /\ out \in Outcome

(* What a call works on, and what it ends with. *)
Facade == [dec |-> dec, mux |-> mux, fifo |-> fifo, pending |-> pending,
           stats |-> stats]
Returned(s, slot) == [s |-> s, ok |-> TRUE, slot |-> slot]
Failed(s) == [s |-> s, ok |-> FALSE, slot |-> NoSlot]

-----------------------------------------------------------------------------
(* The profile of a configuration *)

IsUsac(c) == c.aot = 42
PrefersNoise(c) == c.aot \in {23, 39, 42}
ErrorResilient(c) == c.aot \in {17, 20, 23, 39}
RampsIn(c, f) == ~(ErrorResilient(c) /\ f = "i16")

Method(s) ==
    IF user # "default" THEN user
    ELSE IF PrefersNoise(s.dec.cfg) THEN "noise" ELSE "energy"

Delays(s) == Method(s) = "energy"

(* The delay of a frame, NoShape when the method needs none. *)
ShapeOf(s) == IF Delays(s) THEN <<s.dec.cfg.frame, s.dec.cfg.channels>>
              ELSE NoShape

-----------------------------------------------------------------------------
(* Statistics: the length of an access unit is the unit of its bytes *)

NoStatistics == [total_bytes |-> 0, bad_bytes |-> 0,
                 total_access_units |-> 0, bad_access_units |-> 0]

SaturatingAdd(m, n) == LeastOf(m + n, U64Max)

(* record_access_units *)
CountAccessUnit(s, bytes, bad) ==
    [s EXCEPT
        !.stats.total_bytes = SaturatingAdd(@, bytes),
        !.stats.bad_bytes = IF bad THEN SaturatingAdd(@, bytes) ELSE @,
        !.stats.bad_access_units = IF bad THEN SaturatingAdd(@, 1) ELSE @,
        !.stats.total_access_units = IF bad THEN @ ELSE SaturatingAdd(@, 1)]

(* record_recovered_bad_access_unit *)
CountRecovered(s) ==
    [s EXCEPT !.stats.total_access_units = SaturatingAdd(@, 1)]

(* record_concealed_access_units *)
CountConcealed(s) == CountRecovered(CountAccessUnit(s, 0, TRUE))

-----------------------------------------------------------------------------
(* The PCM delay *)

(* A frame goes in and the one held comes out; a new shape starts from     *)
(* silence, and the frame the old shape held is gone.                      *)
Render(s, slot) ==
    LET shape == ShapeOf(s)
        held  == IF s.fifo.shape = shape THEN s.fifo.slot ELSE Silence
    IN IF shape = NoShape
       THEN Returned([s EXCEPT !.fifo = EmptyFifo], slot)
       ELSE Returned([s EXCEPT !.fifo = [shape |-> shape, slot |-> slot]],
                     held)

(* The frame held is overwritten if it has the shape of the new one. *)
ReplaceHeld(s, slot) ==
    IF Delays(s) /\ s.fifo.shape = ShapeOf(s)
    THEN [s EXCEPT !.fifo.slot = slot] ELSE s

ClearedFifo(queue) == [queue EXCEPT !.slot = Silence]

-----------------------------------------------------------------------------
(* Concealment *)

CanConceal(s, f) == HasReference(s.dec.path[f])

ConcealedSlot(s, f, mute) ==
    [kind |-> "concealed", content |-> s.dec.path[f].ref,
     level |-> ConcealedLevel(s.dec.path[f], mute)]

ConcealFrame(s, f, mute) ==
    [s EXCEPT !.dec.path[f] = ConcealedPath(@, mute),
              !.dec.tail[f] =
                  IF ConcealedLevel(s.dec.path[f], mute) = Silent
                  THEN NoContent ELSE s.dec.path[f].ref]

InterpolatedSlot(s, f) ==
    [kind |-> "interpolated", content |-> s.dec.path[f].ref, level |-> 0]

InterpolateFrame(s, f) ==
    [s EXCEPT !.dec.path[f] = InterpolatedPath(@),
              !.dec.tail[f] = s.dec.path[f].ref]

(* Mutant of DropOther: the losses of the other format keep waiting.       *)
KeepOther(s, f) == s

(* Only one format may wait for its next access unit. *)
DropOther(s, f) ==
    [s EXCEPT !.pending = [g \in Formats |-> IF g = f THEN @[g] ELSE 0]]

(* Mutant of DelayedConceal: the loss before it is left as it is.          *)
DelayedOnly(s0, f) ==
    LET s1 == DropOther(s0, f)
    IN Render([s1 EXCEPT !.pending[f] = SaturatingInc(@)], Placeholder)

(* A loss under energy interpolation: the loss before it, if it is still   *)
(* held, will have no good frame next to it and is concealed now.          *)
DelayedConceal(s0, f) ==
    LET s1 == DropOther(s0, f)
        s2 == IF s1.pending[f] # 0 /\ CanConceal(s1, f)
              THEN ReplaceHeld(ConcealFrame(s1, f, FALSE),
                               ConcealedSlot(s1, f, FALSE))
              ELSE s1
    IN Render([s2 EXCEPT !.pending[f] = SaturatingInc(@)], Placeholder)

(* CONCEAL without a delay, or an access unit that failed. *)
ConcealNow(s, f) ==
    LET mute == Method(s) = "mute"
    IN Render(ConcealFrame(s, f, mute), ConcealedSlot(s, f, mute))

-----------------------------------------------------------------------------
(* Decoding *)

(* apply_latm_config and apply_adts_frame_config compare the object type,  *)
(* the sampling frequency and the channels, and nothing else.              *)
SameStream(c, d) ==
    c.aot = d.aot /\ c.rate = d.rate /\ c.channels = d.channels

(* Mutant of Configure: the multiplex configuration is stored before the   *)
(* decoder accepts it.                                                     *)
ConfigureMuxFirst(s, au) ==
    IF au.fault = "framing" \/ au.mux = SameMux THEN s
    ELSE [s EXCEPT
            !.dec = IF au.fault = "config" \/ SameStream(au.mux, @.cfg) THEN @
                    ELSE FreshDecoder(au.mux),
            !.mux = IF Framing = "latm" THEN au.mux ELSE @]

Configure(s, au) ==
    IF au.fault \in {"framing", "config"} \/ au.mux = SameMux THEN s
    ELSE [s EXCEPT
            !.dec = IF SameStream(au.mux, @.cfg) THEN @
                    ELSE FreshDecoder(au.mux),
            !.mux = IF Framing = "latm" THEN au.mux ELSE @]

(* Synthesis leaves the reference and the overlap of its format behind;    *)
(* USAC keeps neither here.                                                *)
Absorb(s, f, content) ==
    IF IsUsac(s.dec.cfg) THEN s
    ELSE [s EXCEPT
            !.dec.path[f] = DecodedPath(@, content, RampsIn(s.dec.cfg, f)),
            !.dec.tail[f] = content]

Attempt(s, f, au) ==
    IF au.fault \in {"none", "check"}
    THEN Absorb(Configure(s, au), f, au.content)
    ELSE Configure(s, au)

DecodedSlot(s, f, content) ==
    [kind |-> "decoded", content |-> content,
     level |-> IF IsUsac(s.dec.cfg) THEN 0
               ELSE DecodedLevel(s.dec.path[f], RampsIn(s.dec.cfg, f))]

(* decode_interleaved_*_inner_plain, and the entry points named after a    *)
(* transport. An error leaves what the attempt has changed.                *)
PlainDecode(s, f, au) ==
    LET tried == CountAccessUnit(Attempt(s, f, au), 1, au.fault # "none")
    IN IF au.fault = "none"
       THEN Render(tried, DecodedSlot(Configure(s, au), f, au.content))
       ELSE Failed(tried)

(* Mutants of RecoverHeld: the losses resolved keep waiting; the counts of *)
(* the copy are kept.                                                      *)
RecoverAndWait(s, f, au) ==
    IF CanConceal(s, f)
    THEN ReplaceHeld(ConcealFrame(s, f, FALSE), ConcealedSlot(s, f, FALSE))
    ELSE s

RecoverAndCount(s, f, au) ==
    [RecoverAndWait(s, f, au) EXCEPT
        !.pending[f] = 0,
        !.stats = PlainDecode(s, f, au).s.stats]

(* A copy of the facade is tried on the access unit; if a single loss is   *)
(* waiting and the copy has spectra of the same layout, the held frame is  *)
(* interpolated, otherwise it is concealed from the past alone.            *)
RecoverHeld(s, f, au) ==
    LET copy  == PlainDecode([s EXCEPT !.pending[f] = 0], f, au)
        ahead == copy.s.dec
        interpolates ==
            /\ s.pending[f] = 1
            /\ copy.ok
            /\ HasReference(ahead.path[f])
            /\ ahead.cfg.channels = s.dec.cfg.channels
            /\ ahead.cfg.frame = s.dec.cfg.frame
        resolved ==
            IF ~CanConceal(s, f) THEN s
            ELSE IF interpolates
            THEN ReplaceHeld(InterpolateFrame(s, f), InterpolatedSlot(s, f))
            ELSE ReplaceHeld(ConcealFrame(s, f, FALSE),
                             ConcealedSlot(s, f, FALSE))
    IN [resolved EXCEPT !.pending[f] = 0]

DecodeInner(s0, f, au) ==
    LET s1 == DropOther(s0, f)
        s2 == IF Delays(s1) /\ s1.pending[f] # 0 THEN RecoverHeld(s1, f, au)
              ELSE s1
    IN PlainDecode(s2, f, au)

(* Mutant of DecodeOrConceal: the decoder is not put back.                 *)
ConcealAsLeft(s, f, au) ==
    LET tried == DecodeInner(s, f, au)
    IN IF tried.ok \/ au.fault = "framing" THEN tried
       ELSE IF Delays(tried.s)
            THEN DelayedConceal(CountRecovered(tried.s), f)
       ELSE IF CanConceal(tried.s, f)
            THEN ConcealNow(CountRecovered(tried.s), f)
       ELSE Failed(tried.s)

(* decode_interleaved_*_with_flags: the decoder, and only the decoder, is  *)
(* put back before the access unit is concealed.                           *)
DecodeOrConceal(s, f, au) ==
    LET tried == DecodeInner(s, f, au)
        back  == [tried.s EXCEPT !.dec = s.dec]
    IN IF tried.ok \/ au.fault = "framing" THEN tried
       ELSE IF Delays(back) THEN DelayedConceal(CountRecovered(back), f)
       ELSE IF CanConceal(back, f) THEN ConcealNow(CountRecovered(back), f)
       ELSE Failed(back)

(* Mutant of PrepareFlags: the delay keeps the frame it holds.             *)
PrepareDecoder(s, cut) ==
    IF cut THEN [s EXCEPT !.dec = FreshDecoder(@.cfg), !.pending = NoLosses]
    ELSE s

(* prepare_decode_flags *)
PrepareFlags(s, cut) ==
    IF cut THEN [s EXCEPT !.dec = FreshDecoder(@.cfg),
                          !.fifo = ClearedFifo(@),
                          !.pending = NoLosses]
    ELSE s

ConcealCall(s0, f) ==
    LET s == CountConcealed(s0)
    IN IF Delays(s) THEN DelayedConceal(s, f)
       ELSE IF CanConceal(s, f) THEN ConcealNow(s, f)
       ELSE Render(s, Silence)

(* Mutant of FlushCall: the overlap is rendered and kept.                  *)
FlushAndKeep(s, f) ==
    LET overlap == s.dec.tail[f]
    IN Render(CountAccessUnit(s, 0, FALSE),
              IF overlap = NoContent THEN Silence
              ELSE [kind |-> "flushed", content |-> overlap, level |-> 0])

FlushCall(s, f) ==
    LET overlap == s.dec.tail[f]
        drained == CountAccessUnit([s EXCEPT !.dec.tail[f] = NoContent],
                                   0, FALSE)
    IN Render(drained,
              IF overlap = NoContent THEN Silence
              ELSE [kind |-> "flushed", content |-> overlap, level |-> 0])

-----------------------------------------------------------------------------
(* Calls *)

(* The outcome of a call that returns no frame. *)
Quiet(call) == [call |-> call, format |-> "f32", cut |-> FALSE,
                ok |-> TRUE, slot |-> NoSlot]

Init ==
    \E c \in Configs :
        /\ dec = FreshDecoder(c)
        /\ mux = IF Framing = "latm" THEN c ELSE NoMux
        /\ fifo = EmptyFifo
        /\ pending = NoLosses
        /\ user = "default"
        /\ stats = NoStatistics
        /\ out = Quiet("new")

(* A call through entry point "call" in format f, with a discontinuity     *)
(* flag if cut, ends as r.                                                 *)
Return(call, f, cut, r) ==
    /\ call \in EntryPoints
    /\ dec' = r.s.dec
    /\ mux' = r.s.mux
    /\ fifo' = r.s.fifo
    /\ pending' = r.s.pending
    /\ stats' = r.s.stats
    /\ out' = [call |-> call, format |-> f, cut |-> cut,
               ok |-> r.ok, slot |-> r.slot]
    /\ UNCHANGED user

(* decode_interleaved_f32, decode_interleaved_i16 and their strict forms.  *)
Decode(f, au) == Return("decode", f, FALSE, DecodeInner(Facade, f, au))

(* decode_interleaved_*_with_flags: flags are INTERRUPTION or              *)
(* CLEAR_HISTORY, alike on this state, alone or with CONCEAL or FLUSH.     *)
DecodeWithFlags(f, au, cut) ==
    Return("flagged", f, cut,
           DecodeOrConceal(PrepareFlags(Facade, cut), f, au))

ConcealFlag(f, cut) ==
    Return("conceal", f, cut, ConcealCall(PrepareFlags(Facade, cut), f))

FlushFlag(f, cut) ==
    Return("flush", f, cut, FlushCall(PrepareFlags(Facade, cut), f))

(* decode_adts_interleaved_f32, decode_latm_interleaved_f32, ... *)
DecodeNamed(f, au) == Return("named", f, FALSE, PlainDecode(Facade, f, au))

(* Mutant of SetConcealMethod: losses still wait after the delay is reset. *)
SetMethodOnly(method) ==
    /\ ~(method = "energy" /\ IsUsac(dec.cfg))
    /\ user' = method
    /\ fifo' = ClearedFifo(fifo)
    /\ out' = Quiet("set")
    /\ UNCHANGED <<dec, mux, pending, stats>>

(* set_parameter(ConcealMethod). USAC refuses energy interpolation. *)
SetConcealMethod(method) ==
    /\ ~(method = "energy" /\ IsUsac(dec.cfg))
    /\ user' = method
    /\ fifo' = ClearedFifo(fifo)
    /\ pending' = NoLosses
    /\ out' = Quiet("set")
    /\ UNCHANGED <<dec, mux, stats>>

(* clear_transport_buffer keeps the access-unit counts;                    *)
(* clear_transport_statistics does not.                                    *)
ClearTransport(all) ==
    /\ stats' = IF all THEN NoStatistics
                ELSE [stats EXCEPT !.total_bytes = 0, !.bad_bytes = 0]
    /\ out' = Quiet("clear")
    /\ UNCHANGED <<dec, mux, fifo, pending, user>>

Next ==
    \/ \E f \in Formats, au \in AccessUnit :
          /\ au.fault \in Faults
          /\ \/ Decode(f, au)
             \/ \E cut \in BOOLEAN : DecodeWithFlags(f, au, cut)
             \/ DecodeNamed(f, au)
    \/ \E f \in Formats, cut \in BOOLEAN :
          ConcealFlag(f, cut) \/ FlushFlag(f, cut)
    \/ \E method \in Methods : SetConcealMethod(method)
    \/ \E all \in BOOLEAN : ClearTransport(all)

Spec == Init /\ [][Next]_vars

-----------------------------------------------------------------------------
(* Properties *)

(* Losses never wait in both formats: the delay holds one frame, and only  *)
(* one format can own it.                                                  *)
OneFormatWaits ==
    \A f, g \in Formats : pending[f] # 0 /\ pending[g] # 0 => f = g

(* A loss that waits for the next access unit has its slot in the delay:   *)
(* the delay is on, has the shape of the frames the decoder makes, so that *)
(* the replacement will fit, and holds the placeholder of the loss.  The   *)
(* one exception is FLUSH, which plays the placeholder, puts the overlap   *)
(* of the decoder, or silence, in its place and leaves the loss waiting.   *)
WaitingLossIsHeld ==
    (\E f \in Formats : pending[f] # 0) =>
        /\ Delays(Facade)
        /\ fifo.shape = ShapeOf(Facade)
        /\ \/ fifo.slot = Placeholder
           \/ /\ out.call \in {"flush", "clear"}
              /\ fifo.slot.kind \in {"flushed", "silence"}

(* A decoded frame that the delay holds leaves it in one way: the next     *)
(* call that returns a frame plays it, and a call that returns none leaves *)
(* it there.  No loss, flush, failure or retry in between overwrites it or *)
(* drops it.  Three calls give the frame up on purpose: a cut of the       *)
(* stream, a change of the shape, and a change of the concealment method.  *)
HeldFrameIsPlayed ==
    [][ /\ fifo.slot.kind = "decoded"
        /\ ~out'.cut /\ out'.call # "set"
        /\ fifo'.shape = fifo.shape
        => IF out'.slot # NoSlot THEN out'.slot = fifo.slot
           ELSE fifo'.slot = fifo.slot ]_vars

(* The call that decodes or conceals after a loss resolves it, if there is *)
(* a reference: what it plays in place of the lost frame is synthesized,   *)
(* never the silent placeholder, and if it returns no frame the delay      *)
(* holds the synthesized one for the next call.  FLUSH resolves nothing    *)
(* and plays the placeholder.                                              *)
WaitingLossIsConcealed ==
    [][ /\ out'.call \notin {"flush", "set", "clear"} /\ ~out'.cut
        /\ pending[out'.format] # 0
        /\ HasReference(dec.path[out'.format])
        /\ fifo'.shape = fifo.shape
        => (IF out'.slot # NoSlot THEN out'.slot ELSE fifo'.slot).kind
              \in {"concealed", "interpolated"} ]_vars

(* A failed call never leaves the spectra of a corrupt access unit         *)
(* behind as the reference the next loss is concealed from.                *)
ReferenceIsSound ==
    \A f \in Formats : dec.path[f].ref # Junk /\ dec.tail[f] # Junk

(* An element without a configuration of its own is decoded under the      *)
(* configuration its multiplex was given last.                             *)
MuxMatchesDecoder == mux # NoMux => mux = dec.cfg
=============================================================================
