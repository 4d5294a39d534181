------------------------------ MODULE AdtsDrain ------------------------------
(***************************************************************************)
(* The incremental ADTS input of PureRustTransportDecoder: the application *)
(* pushes bytes and drains, and one drain call decodes every frame that    *)
(* can be read.  Bytes the reader has discarded before a frame are a gap;  *)
(* the loss estimator turns it into a number of access units, and they are *)
(* filled in front of the frame, from the spectra of the decoder or from   *)
(* the PCM of the last good frame.  A frame that does not decode is filled *)
(* too if spectral concealment is on, and ends the call if it is not.      *)
(*                                                                         *)
(* The reader is IncrementalFraming; here it hands over a gap and a frame. *)
(* Frames are filled into "output" the way they are returned, before the   *)
(* PCM delay.  ADTS decodes AAC-LC only, so every format ramps.            *)
(***************************************************************************)
EXTENDS ConcealmentPath, Integers, Sequences

CONSTANTS
    Configs,    \* the stream configurations that occur
    Junk,       \* what a corrupt frame decodes to
    Formats,    \* the sample formats the application drains in
    Faults,     \* how a frame may be damaged
    Gaps,       \* the numbers of bytes discarded before a frame
    AuBytes,    \* the mean length of an access unit at the average bit rate
    Blocks,     \* raw data blocks in a frame, one access unit each
    FrameBytes, \* the lengths of a frame with all its blocks
    FrameBound, \* frames drained in one call
    Methods,    \* the concealment methods that are set
    Origin      \* the configuration a content belongs to

ASSUME DrainAssumption ==
    /\ Junk \in Contents
    /\ Formats \subseteq {"f32", "i16"}
    /\ Faults \subseteq {"none", "config", "syntax"}
    /\ Gaps \subseteq Nat
    /\ AuBytes \in Nat \ {0}
    /\ Blocks \subseteq Nat \ {0}
    /\ FrameBytes \subseteq Nat
    /\ FrameBound \in Nat
    /\ Methods \subseteq {"mute", "noise", "energy"}
    /\ Origin \in [Contents -> Configs]
ASSUME OffAssumption == "off" \notin Contents \cup {NoContent}

VARIABLES
    dec,       \* decoder: configuration and concealment paths
    pcm,       \* adts_pcm_concealment: last_good, or "off"
    spectral,  \* adts_spectral_concealment
    estimates, \* whether adts_loss_estimator is set
    user,      \* concealment_method_user
    format,    \* the sample format the application drains in
    call,      \* whether a drain is going on, and how the last one ended
    count,     \* frames drained in this call
    output,    \* the frames the call returns, in order
    due,       \* history: access units that passed in this call
    drift,     \* history: bytes discarded in this call beyond those that
               \* the estimated losses account for
    slack      \* history: what the estimates of this call may be off by,
               \* in half bytes

vars == <<dec, pcm, spectral, estimates, user, format, call, count,
          output, due, drift, slack>>

-----------------------------------------------------------------------------
(* Data *)

Frame == {frame \in [cfg : Configs, content : Contents, blocks : Blocks,
                     bytes : FrameBytes, fault : Faults] :
             IF frame.fault = "none"
             THEN frame.content # Junk /\ frame.cfg = Origin[frame.content]
             ELSE frame.content = Junk}

Slot == [kind : {"silence", "decoded", "concealed", "interpolated",
                 "repeated"},
         content : Contents \cup {NoContent}, level : Nat]

Silence == [kind |-> "silence", content |-> NoContent, level |-> 0]
MakeSlot(kind, content, level) ==
    [kind |-> kind, content |-> content, level |-> level]

FreshDecoder(c) == [cfg |-> c, path |-> FreshPath]

Mute == user = "mute"

Times(n, slot) == [k \in 1..n |-> slot]

-----------------------------------------------------------------------------
(* AccessUnitLossEstimator::recovered, in bytes of the average rate.  Its  *)
(* remainder is back at zero whenever it returns.                          *)

(* Mutant of LostAccessUnits: the nearest-frame adjustment is left out.    *)
LostRoundedDown(gap, bytes) ==
    IF (gap + bytes) \div AuBytes = 0 THEN 0
    ELSE (gap + bytes) \div AuBytes - 1

LostAccessUnits(gap, bytes) ==
    LET quotient  == (gap + bytes) \div AuBytes
        remainder == (gap + bytes) % AuBytes
        lost == IF AuBytes - remainder >= remainder
                THEN quotient - 1 ELSE quotient
    IN IF lost < 0 THEN 0 ELSE lost

(* estimate_adts_loss_on_recovery *)
Estimate(gap, bytes) ==
    IF gap = 0 \/ ~estimates THEN 0 ELSE LostAccessUnits(gap, bytes)

-----------------------------------------------------------------------------
(* PcmConcealment::process_f32, process_i16 *)

PcmLevel(k) == IF k > FadeOutLosses THEN Silent ELSE k

PcmFill(held, lost) ==
    [k \in 1..lost |-> IF held = NoContent THEN Silence
                       ELSE MakeSlot("repeated", held, PcmLevel(k))]

(* Mutant of PcmRecovered: the frame after the losses is played as it is. *)
PlainRecovered(slot, lost) == slot

PcmRecovered(slot, lost) ==
    [slot EXCEPT !.level = @ + LeastOf(lost, FadeInFrames)]

-----------------------------------------------------------------------------
(* Spectral concealment: what a run of it makes, and what it leaves.       *)

(* Mutant of ConcealedAfter: the losses are not counted. *)
ConcealedAlike(p, n) ==
    IF n = 0 THEN p ELSE [ConcealedPath(p, Mute) EXCEPT !.losses = p.losses]

ConcealedAfter(p, n) ==
    LET after[k \in 0..n] ==
            IF k = 0 THEN p ELSE ConcealedPath(after[k - 1], Mute)
    IN after[n]

ConcealedRun(p, n) ==
    [k \in 1..n |->
        MakeSlot("concealed", p.ref,
                 ConcealedLevel(ConcealedAfter(p, k - 1), Mute))]

(* The single loss before a single-block frame that decodes is             *)
(* interpolated between the reference and the frame.                       *)
Interpolates(p, frame, lost) ==
    /\ user = "energy"
    /\ lost = 1
    /\ frame.blocks = 1
    /\ frame.fault = "none"
    /\ HasReference(p)

(* The losses in front of a frame, filled from the spectra p. *)
FilledPath(p, frame, lost) ==
    IF ~spectral \/ ~HasReference(p) THEN p
    ELSE IF Interpolates(p, frame, lost) THEN InterpolatedPath(p)
    ELSE ConcealedAfter(p, lost)

SpectralFill(p, frame, lost) ==
    IF ~spectral \/ ~HasReference(p) THEN <<>>
    ELSE IF Interpolates(p, frame, lost)
         THEN <<MakeSlot("interpolated", p.ref, 0)>>
    ELSE ConcealedRun(p, lost)

(* The blocks of a frame that decodes. *)
DecodedAfter(p, content, n) ==
    LET after[k \in 0..n] ==
            IF k = 0 THEN p ELSE DecodedPath(after[k - 1], content, TRUE)
    IN after[n]

DecodedRun(p, frame) ==
    [k \in 1..frame.blocks |->
        MakeSlot("decoded", frame.content,
                 DecodedLevel(DecodedAfter(p, frame.content, k - 1), TRUE))]

-----------------------------------------------------------------------------
(* A frame. The estimate is taken before its configuration is applied. *)

(* apply_adts_frame_config *)
Configured(frame) ==
    IF frame.cfg = dec.cfg THEN dec ELSE FreshDecoder(frame.cfg)

(* Mutant of ConfiguredPcm: the PCM of the old configuration stays. *)
KeptPcm(frame) == pcm

ConfiguredPcm(frame) ==
    IF frame.cfg = dec.cfg \/ pcm = "off" THEN pcm ELSE NoContent

(* drain_adts_interleaved_f32: losses without spectra, and every loss when *)
(* spectral concealment is off, are left to the PCM concealment.           *)
ReturnedF32(p, held, frame, lost) ==
    LET filled == SpectralFill(p, frame, lost)
        blocks == DecodedRun(FilledPath(p, frame, lost), frame)
    IN IF filled # <<>> THEN filled \o blocks
       ELSE IF held = "off" THEN blocks
       ELSE PcmFill(held, lost)
            \o [blocks EXCEPT ![1] = PcmRecovered(@, lost)]

(* drain_adts_interleaved_i16: with spectral concealment on, the PCM       *)
(* concealment is passed by, and losses without spectra are silence.       *)
ReturnedI16(p, held, frame, lost) ==
    LET blocks == DecodedRun(FilledPath(p, frame, lost), frame)
    IN IF spectral /\ ~HasReference(p) THEN Times(lost, Silence) \o blocks
       ELSE IF spectral THEN SpectralFill(p, frame, lost) \o blocks
       ELSE IF held = "off" THEN blocks
       ELSE PcmFill(held, lost)
            \o [blocks EXCEPT ![1] = PcmRecovered(@, lost)]

(* Mutant of HeldAfter: only the first frame is kept. *)
FirstHeld(held, frame) == IF held = NoContent THEN frame.content ELSE held

HeldAfter(held, frame) ==
    IF held = "off" \/ (format = "i16" /\ spectral) THEN held
    ELSE frame.content

(* The call returns an error: what it had made is dropped with it. *)
Fail == call' = "failed" /\ output' = <<>> /\ UNCHANGED due

(* How far a frame is from the mean length. *)
Deviation(frame) ==
    IF frame.bytes < AuBytes THEN AuBytes - frame.bytes
    ELSE frame.bytes - AuBytes

(* What an estimate adds to the histories: it may be off by half an access *)
(* unit, and by what the frame at hand is longer or shorter than one.      *)
Drift(gap, frame, lost) ==
    IF gap = 0 \/ ~estimates THEN UNCHANGED <<drift, slack>>
    ELSE /\ drift' = drift + gap - AuBytes * lost
         /\ slack' = slack + AuBytes + 2 * Deviation(frame)

GoOn(more, passed) ==
    /\ output' = output \o more
    /\ due' = due + passed
    /\ UNCHANGED call

Draining ==
    /\ call = "draining"
    /\ count < FrameBound
    /\ count' = count + 1
    /\ UNCHANGED <<spectral, estimates, user, format>>

RejectConfig(frame) ==
    /\ Draining
    /\ frame.fault = "config"
    /\ Fail
    /\ UNCHANGED <<dec, pcm, drift, slack>>

DrainGood(gap, frame) ==
    LET lost == Estimate(gap, frame.bytes)
        d    == Configured(frame)
        held == ConfiguredPcm(frame)
    IN /\ Draining
       /\ frame.fault = "none"
       /\ Drift(gap, frame, lost)
       /\ dec' = [d EXCEPT !.path =
                     DecodedAfter(FilledPath(@, frame, lost), frame.content,
                                  frame.blocks)]
       /\ pcm' = HeldAfter(held, frame)
       /\ GoOn(IF format = "f32" THEN ReturnedF32(d.path, held, frame, lost)
               ELSE ReturnedI16(d.path, held, frame, lost),
               lost + frame.blocks)

(* Mutant of FillOfCorrupt: both formats drop them. *)
DroppedFill(p, frame, lost) == <<>>

(* The losses in front of a corrupt frame: f32 conceals them and drops     *)
(* what it made.                                                           *)
FillOfCorrupt(p, frame, lost) ==
    IF format = "i16" THEN SpectralFill(p, frame, lost) ELSE <<>>

(* With spectral concealment off a frame that does not decode ends the     *)
(* call, as it does when there are no spectra to conceal it from.          *)
DrainCorrupt(gap, frame) ==
    LET lost == Estimate(gap, frame.bytes)
        d    == Configured(frame)
        left == FilledPath(d.path, frame, lost)
    IN /\ Draining
       /\ frame.fault = "syntax"
       /\ Drift(gap, frame, lost)
       /\ pcm' = ConfiguredPcm(frame)
       /\ IF spectral /\ HasReference(d.path)
          THEN /\ dec' = [d EXCEPT !.path = ConcealedAfter(left, frame.blocks)]
               /\ GoOn(FillOfCorrupt(d.path, frame, lost)
                       \o ConcealedRun(left, frame.blocks),
                       lost + frame.blocks)
          ELSE dec' = [d EXCEPT !.path = left] /\ Fail

-----------------------------------------------------------------------------
(* Calls *)

Init ==
    \E c \in Configs :
        /\ dec = FreshDecoder(c)
        /\ pcm = "off"
        /\ spectral = FALSE
        /\ estimates = FALSE
        /\ user = "energy"
        /\ format \in Formats
        /\ call = "returned"
        /\ count = 0
        /\ output = <<>>
        /\ due = 0
        /\ drift = 0
        /\ slack = 0

Idle == call # "draining"

StartDrain ==
    /\ Idle
    /\ call' = "draining"
    /\ count' = 0
    /\ output' = <<>>
    /\ due' = 0
    /\ drift' = 0
    /\ slack' = 0
    /\ UNCHANGED <<dec, pcm, spectral, estimates, user, format>>

(* There is no further frame. *)
ReturnOutput ==
    /\ call = "draining"
    /\ call' = "returned"
    /\ UNCHANGED <<dec, pcm, spectral, estimates, user, format, count, output,
                   due, drift, slack>>

Configuring ==
    /\ Idle
    /\ call' = "returned"
    /\ output' = <<>>
    /\ count' = 0
    /\ due' = 0
    /\ drift' = 0
    /\ slack' = 0
    /\ UNCHANGED <<dec, format>>

(* set_adts_average_bitrate *)
SetAverageBitrate ==
    Configuring /\ estimates' = TRUE /\ UNCHANGED <<pcm, spectral, user>>

(* enable_adts_pcm_concealment starts from nothing, also when it is on. *)
EnablePcm ==
    Configuring /\ pcm' = NoContent /\ UNCHANGED <<spectral, estimates, user>>

DisablePcm ==
    Configuring /\ pcm' = "off" /\ UNCHANGED <<spectral, estimates, user>>

EnableSpectral ==
    /\ Configuring
    /\ spectral' = TRUE
    /\ pcm' = IF pcm = "off" THEN NoContent ELSE pcm
    /\ UNCHANGED <<estimates, user>>

DisableSpectral ==
    Configuring /\ spectral' = FALSE /\ UNCHANGED <<pcm, estimates, user>>

SetConcealMethod(method) ==
    Configuring /\ user' = method /\ UNCHANGED <<pcm, spectral, estimates>>

Next ==
    \/ StartDrain
    \/ \E frame \in Frame :
          \/ RejectConfig(frame)
          \/ \E gap \in Gaps : DrainGood(gap, frame) \/ DrainCorrupt(gap, frame)
    \/ ReturnOutput
    \/ SetAverageBitrate
    \/ EnablePcm \/ DisablePcm
    \/ EnableSpectral \/ DisableSpectral
    \/ \E method \in Methods : SetConcealMethod(method)

Spec == Init /\ [][Next]_vars

-----------------------------------------------------------------------------
(* Properties *)

TypeOK ==
    /\ dec \in [cfg : Configs, path : Path]
    /\ pcm \in {"off", NoContent} \cup Contents
    /\ spectral \in BOOLEAN
    /\ estimates \in BOOLEAN
    /\ user \in Methods \cup {"energy"}
    /\ format \in Formats
    /\ call \in {"draining", "returned", "failed"}
    /\ count \in 0..FrameBound
    /\ \A k \in DOMAIN output : output[k] \in Slot
    /\ due \in Nat
    /\ drift \in Int
    /\ slack \in Nat

(* The concealment that is set up fills the losses of the format. *)
Fills == pcm # "off" \/ (spectral /\ format = "i16")

AllFilled ==
    call = "returned" /\ Fills => Len(output) = due

(* A drain that returns has a frame for every access unit that passed, the *)
(* decoded, the corrupt and the lost ones: the caller's clock does not     *)
(* slip. f32 with spectral concealment drops the fills in front of a       *)
(* corrupt frame (transport.rs:2032-2045) and is left out.                 *)
LossesAreFilled == (format = "i16" \/ ~spectral) => AllFilled

Fill == {"concealed", "repeated"}

IsFill(k) == output[k].kind \in Fill

(* A run of fills, of a gap, of corrupt frames or of one after the other,  *)
(* never gets louder, and is silent from its eighth frame on.              *)
RunsFade ==
    \A k \in DOMAIN output :
        IsFill(k) =>
            /\ k > 1 /\ IsFill(k - 1) => output[k - 1].level <= output[k].level
            /\ k > 7 /\ (\A j \in (k - 7)..k : IsFill(j))
               => output[k].level = Silent

(* The frame after a fill fades in, unless it begins another stream. *)
RecoveryFadesIn ==
    \A k \in DOMAIN output :
        /\ k > 1
        /\ IsFill(k - 1)
        /\ output[k].kind = "decoded"
        /\ Origin[output[k].content] = Origin[output[k - 1].content]
        => output[k].level > 0

(* A fill is made from the last frame decoded before it, never from one    *)
(* further back, whichever concealment made it.                            *)
FillIsFromLastFrame ==
    \A j, k \in DOMAIN output :
        /\ j < k
        /\ output[j].kind = "decoded"
        /\ IsFill(k) \/ output[k].kind = "interpolated"
        /\ \A i \in (j + 1)..(k - 1) : output[i].kind # "decoded"
        => output[k].content = output[j].content

(* What is repeated in front of a frame has the layout of that frame. *)
RepeatedFitsFrame ==
    \A k \in DOMAIN output :
        k > 1 /\ output[k - 1].kind = "repeated" /\ output[k].kind = "decoded"
        => Origin[output[k].content] = Origin[output[k - 1].content]

(* The number of losses estimated in front of a frame is the nearest one   *)
(* if the frame at hand has the mean length: the estimates of a call drift *)
(* from the bytes discarded by half an access unit for each gap at most,   *)
(* early or late, and by what the frames behind the gaps are longer or     *)
(* shorter than one access unit of that length.  The code takes one access *)
(* unit off for the frame at hand, whatever its blocks, and so that is as  *)
(* near as it gets: a frame of two blocks may itself be taken for a loss.  *)
EstimateIsNearest == 2 * drift <= slack /\ -(2 * drift) <= slack
=============================================================================
