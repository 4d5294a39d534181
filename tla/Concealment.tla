----------------------------- MODULE Concealment -----------------------------
(***************************************************************************)
(* The concealment of AacLcDecoder as a caller of its public API sees it:  *)
(* a decoder of one profile, used through one sample format, to which good *)
(* and corrupt access units are given in any order, mixed with requests to *)
(* conceal a frame, to interpolate one, and to clear the history.          *)
(*                                                                         *)
(* A corrupt access unit matters by where its decoding stops.  An error in *)
(* the syntax is found before the path is touched and changes nothing      *)
(* here; the configured DRC fails with the ramp already advanced in the    *)
(* f32 path; a channel count, a CRC or trailing bits are checked when the  *)
(* frame has already become the reference.                                 *)
(***************************************************************************)
EXTENDS ConcealmentPath

CONSTANTS
    Profile,    \* "GA": AAC-LC and its SBR extensions; "ER": AOT 17, 20, 23, 39
    Format      \* "f32" or "i16"

ASSUME ProfileAssumption == Profile \in {"GA", "ER"}
ASSUME UsizeIsLarge == UsizeMax > FadeOutLosses
ASSUME FormatAssumption == Format \in {"f32", "i16"}

VARIABLES
    path,   \* the concealment state of the decoder in this format
    heard,  \* history: the last frame rendered
    call,   \* history: the last call and how it ended
    burst   \* history: frames concealed in a row since the last call that
            \* starts the loss count anew, up to BurstBound

vars == <<path, heard, call, burst>>

BurstBound == FadeOutLosses + 3

(* Only the fixed-point decoder of the error-resilient profiles returns    *)
(* without the recovery ramp.                                              *)
Ramps == ~(Profile = "ER" /\ Format = "i16")

(* A rendered frame: how it was made, from what, the level it starts from  *)
(* and the level it ends with.                                             *)
Frame == [kind : {"silence", "decoded", "concealed", "interpolated"},
          content : Contents \cup {NoContent},
          from : 0..Silent, to : 0..Silent]

Silence == [kind |-> "silence", content |-> NoContent, from |-> 0, to |-> 0]

Calls == {"new", "decode", "decode_error", "conceal", "conceal_error",
          "interpolate", "interpolate_error", "clear"}

TypeOK ==
    /\ path \in Path
    /\ heard \in Frame
    /\ call \in Calls
    /\ burst \in 0..BurstBound

Init ==
    /\ path = FreshPath
    /\ heard = Silence
    /\ call = "new"
    /\ burst = 0

-----------------------------------------------------------------------------

(* A good access unit. *)
Decode(content) ==
    LET level == DecodedLevel(path, Ramps)
    IN /\ path' = DecodedPath(path, content, Ramps)
       /\ heard' = [kind |-> "decoded", content |-> content, from |-> level,
                    to |-> IF level = 0 THEN 0 ELSE level - 1]
       /\ call' = "decode"
       /\ burst' = 0

(* The frame was synthesized and is the new reference when a check of the  *)
(* whole access unit fails.                                                *)
DecodeFailsLate(content) ==
    /\ path' = DecodedPath(path, content, Ramps)
    /\ call' = "decode_error"
    /\ burst' = 0
    /\ UNCHANGED heard

(* The configured DRC cannot be applied: in the f32 path the ramp has      *)
(* advanced and the reference has not.                                     *)
DecodeFailsInDrc ==
    /\ Format = "f32"
    /\ path' = FadedPath(path)
    /\ call' = "decode_error"
    /\ UNCHANGED <<heard, burst>>

Conceal(mute) ==
    /\ HasReference(path)
    /\ path' = ConcealedPath(path, mute)
    /\ heard' = [kind |-> "concealed", content |-> path.ref,
                 from |-> ConcealedLevel(path, mute),
                 to |-> ConcealedLevel(path, mute)]
    /\ call' = "conceal"
    /\ burst' = LeastOf(burst + 1, BurstBound)

ConcealFailsInDrc(mute) ==
    /\ HasReference(path)
    /\ path' = ConcealingPath(path, mute)
    /\ call' = "conceal_error"
    /\ UNCHANGED <<heard, burst>>

(* The next frame is known: it was decoded by a copy of the decoder. *)
Interpolate ==
    /\ HasReference(path)
    /\ path' = InterpolatedPath(path)
    /\ heard' = [kind |-> "interpolated", content |-> path.ref,
                 from |-> 0, to |-> 0]
    /\ call' = "interpolate"
    /\ burst' = 0

(* The spectra were interpolated, and the loss count and the state are     *)
(* those of an isolated loss, when the replayed SBR or the configured DRC  *)
(* fails: nothing is rendered and the count has started anew.              *)
InterpolateFailsLate ==
    /\ HasReference(path)
    /\ path' = InterpolatedPath(path)
    /\ call' = "interpolate_error"
    /\ burst' = 0
    /\ UNCHANGED heard

(* Mutant of ClearHistory: the loss counters survive the reference.        *)
ClearReference ==
    /\ path' = [path EXCEPT !.ref = NoContent]
    /\ heard' = Silence
    /\ call' = "clear"
    /\ burst' = 0

(* clear_history and signal_interruption. *)
ClearHistory ==
    /\ path' = FreshPath
    /\ heard' = Silence
    /\ call' = "clear"
    /\ burst' = 0

Next ==
    \/ \E content \in Contents : Decode(content) \/ DecodeFailsLate(content)
    \/ DecodeFailsInDrc
    \/ \E mute \in BOOLEAN : Conceal(mute) \/ ConcealFailsInDrc(mute)
    \/ Interpolate \/ InterpolateFailsLate
    \/ ClearHistory

Spec == Init /\ [][Next]_vars

-----------------------------------------------------------------------------
(* Properties *)

(* A decoder that has counted a loss has a reference to conceal the next   *)
(* one from, and the state it reports agrees with its counters: an "Ok"    *)
(* decoder counts no loss and owes no ramp, and a "FadeOut" decoder is     *)
(* within the six losses of the fade.                                      *)
PathCoherent ==
    /\ path.losses # 0 => HasReference(path)
    /\ path.fade # 0 => HasReference(path)
    /\ path.state = "FadeOut" /\ call = "conceal" =>
          path.losses \in 2..FadeOutLosses + 1
    /\ path.state = "Ok" /\ Ramps => path.fade = 0

(* However many frames are lost and however the calls are mixed, a burst   *)
(* longer than the fade is silent: the reference is not repeated forever.  *)
(* A burst is counted from the last call that starts the loss count anew:  *)
(* a decoded frame, a clear, or an interpolation.  The ones that fail late *)
(* are among them: an interpolation that returns no frame has put the      *)
(* count back all the same (decoder.rs:4302, 4509), and what is concealed  *)
(* behind it may be louder than what was concealed before.                 *)
LongBurstIsSilent ==
    burst > FadeOutLosses + 1 => heard.from = Silent

(* Within a burst, counted as above, the level never rises again, unless   *)
(* the caller itself changes from muting to noise substitution.  A         *)
(* concealment or a decoding that fails in the DRC is part of its burst.   *)
BurstNeverRises ==
    [][ burst # 0 /\ burst' # 0 /\ heard.from # Silent
        => heard'.from >= heard.from ]_vars

(* The recovery ramp is continuous: a decoded frame that follows another   *)
(* starts at the level the other ended with, so the gain rises without a   *)
(* jump until the ramp is over.                                            *)
RampIsContinuous ==
    [][ call = "decode" /\ call' = "decode" => heard'.from = heard.to ]_vars

(* The first frame decoded after a concealed one is faded in, never heard  *)
(* at once at full level (the recovery fading of both paths).              *)
RecoveryIsFaded ==
    [][ call = "conceal" /\ call' = "decode" => heard'.from # 0 ]_vars
=============================================================================
