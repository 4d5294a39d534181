--------------------------- MODULE ConcealmentPath ---------------------------
(***************************************************************************)
(* Error concealment of one sample format of AacLcDecoder.                 *)
(*                                                                         *)
(* A decoder keeps the spectra of its last decoded frame, the number of    *)
(* frames it has concealed since, a ConcealmentState and the number of     *)
(* faded frames it still owes.  It keeps them twice, for the f32 and the   *)
(* i16 synthesis (f32_concealment_..., fixed_concealment_...).  This       *)
(* module has the four steps of one such path as functions of its value;   *)
(* Concealment runs one path, TransportDecoder runs both below its facade. *)
(*                                                                         *)
(* Spectra are abstracted to the content of the frame they came from, and  *)
(* levels to exponents: a frame at level k is scaled by 2^(-k/2).          *)
(***************************************************************************)
EXTENDS Naturals

CONSTANTS
    Contents,   \* what an access unit may carry
    NoContent,  \* no spectra yet, or an empty overlap
    UsizeMax    \* where usize::saturating_add stops (2^64 - 1 in the code)

ASSUME ContentAssumption == NoContent \notin Contents
ASSUME UsizeAssumption == UsizeMax \in Nat \ {0}

FadeInFrames  == 5  \* losses.min(5): frames of the recovery ramp
FadeOutLosses == 6  \* 1..=6: losses rendered with a decreasing level
Silent        == 7  \* the level of a frame whose attenuation is zero

States == {"Ok", "Single", "FadeOut", "Mute", "FadeIn"}

Path == [ref    : Contents \cup {NoContent},
         losses : 0..UsizeMax,
         state  : States,
         fade   : 0..FadeInFrames]

(* The path of a decoder that has just been built or cleared. *)
FreshPath == [ref |-> NoContent, losses |-> 0, state |-> "Ok", fade |-> 0]

HasReference(p) == p.ref # NoContent

LeastOf(m, n) == IF m <= n THEN m ELSE n

(* Mutant of SaturatingInc: wrapping_add.                                  *)
WrappingInc(n) == IF n = UsizeMax THEN 0 ELSE n + 1

SaturatingInc(n) == LeastOf(n + 1, UsizeMax)

-----------------------------------------------------------------------------
(* Losses *)

(* The level of a frame concealed after so many others. *)
LossLevel(losses) == IF losses <= FadeOutLosses THEN losses ELSE Silent

LossState(losses, mute) ==
    IF mute THEN "Mute"
    ELSE IF losses = 0 THEN "Single"
    ELSE IF losses <= FadeOutLosses THEN "FadeOut"
    ELSE "Mute"

ConcealedLevel(p, mute) == IF mute THEN Silent ELSE LossLevel(p.losses)

(* Mutant of ConcealingPath: a failed concealment forgets the burst.       *)
RestartingPath(p, mute) ==
    [p EXCEPT !.state = LossState(p.losses, mute), !.losses = 0]

(* Conceal one frame from the reference. The losses are counted last, so a *)
(* failure of the configured DRC leaves the new state with the old count.  *)
ConcealingPath(p, mute) == [p EXCEPT !.state = LossState(p.losses, mute)]

ConcealedPath(p, mute) ==
    [ConcealingPath(p, mute) EXCEPT !.losses = SaturatingInc(p.losses)]

(* Conceal one frame between the reference and the frame that follows it.  *)
InterpolatedPath(p) == [p EXCEPT !.losses = 0, !.state = "Single"]

-----------------------------------------------------------------------------
(* Recovery *)

(* Mutant of RecoveryFade: only the owed ramp.                             *)
OwedFade(p) == p.fade

(* The level a decoded frame starts from. *)
RecoveryFade(p) ==
    IF p.losses # 0 THEN LeastOf(p.losses, FadeInFrames) ELSE p.fade

(* One frame of the ramp is used up. *)
FadedPath(p) ==
    IF RecoveryFade(p) # 0
    THEN [p EXCEPT !.state = "FadeIn", !.fade = RecoveryFade(p) - 1]
    ELSE [p EXCEPT !.state = "Ok", !.fade = 0]

(* Mutant of DecodedPath: the losses are not reset.                        *)
UncountedPath(p, content, ramps) ==
    [(IF ramps THEN FadedPath(p) ELSE p) EXCEPT !.ref = content]

(* The decoded frame becomes the reference. The fixed-point path of the    *)
(* error-resilient profiles has no ramp: it replaces spectra and losses    *)
(* and leaves the state and the fade as they were.                         *)
DecodedPath(p, content, ramps) ==
    [(IF ramps THEN FadedPath(p) ELSE p)
        EXCEPT !.ref = content, !.losses = 0]

DecodedLevel(p, ramps) == IF ramps THEN RecoveryFade(p) ELSE 0
=============================================================================
